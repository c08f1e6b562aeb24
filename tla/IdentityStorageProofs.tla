------------------------- MODULE IdentityStorageProofs -------------------------
(***************************************************************************)
(* For any number of windows, accounts, levels and keys: what a logout     *)
(* ends stays ended, what was stored undisturbed stays stored, and the     *)
(* iframe signs what it should and no more, however the reads and writes   *)
(* of windows and iframe interleave.                                       *)
(***************************************************************************)
EXTENDS IdentityStorage, TLAPS

Working == {w \in Window : window[w] # Closed}
Given   == credentials \cup UNION {window[w].made : w \in Working}

\* Keys are never given out twice, and what is stored was not replaced.
KeysInv ==
    /\ \A jar \in Jar : seedHexKey[jar] < nextKey /\ seedHexKey[jar] \notin revoked
    /\ seedHexKey["site"] = seedHexKey["iframe"] => seedHexKey["site"] = NoKey
    /\ \A key \in revoked : key < nextKey
    /\ \A c \in Given : c.key < nextKey
    /\ \A w \in Window : At(w, "putKey") => window[w].read.sealing.key < nextKey

\* What is known of a window that is at work.
WindowInv(w) ==
    /\ window[w].alone => \A v \in Working : v = w
    /\ IF At(w, "setUsers")
       THEN \A a \in Account : settled[a] \notin {NoLevel, None} => a \in window[w].read.users
       ELSE /\ window[w].level # NoLevel
            /\ window[w].op = "logout" <=> window[w].level = None
            /\ window[w].alone /\ window[w].op # "logout" => window[w].about \in users
    /\ At(w, "setLevels") =>
           /\ settled[window[w].about] = NoLevel
           /\ \A a \in Account : settled[a] # NoLevel => window[w].read.levels[a] = settled[a]
    /\ At(w, "getKey") \/ At(w, "putKey") =>
           /\ window[w].read.sealing.level # None
           /\ settled[window[w].read.sealing.account] # None
           /\ window[w].alone /\ window[w].op = "logout" =>
                  window[w].read.sealing.account # window[w].about
    /\ window[w].alone /\ ~At(w, "setUsers") /\ ~At(w, "setLevels") =>
           /\ levels[window[w].about] = window[w].level
           /\ window[w].op = "logout" /\ ~At(w, "resetKey") =>
                  \A c \in Given : c.account = window[w].about => c.key # seedHexKey["site"]

\* What is known of a request that is at the iframe.
RequestInv ==
    /\ storageGranted /\ mustUseStorageAccess => storageAccess = "granted"
    /\ request # NoRequest =>
           /\ request.at # "getKey" => request.credential.level >= request.required
           /\ request.meet =>
                  /\ storageGranted
                  /\ request.credential.key <= seedHexKey["site"]
                  /\ request.at \in {"putKey", "check"} /\ request.credential.key = seedHexKey["site"]
                         => request.read = seedHexKey["site"]

StorageInv ==
    /\ TypeOK /\ KeysInv /\ RequestInv
    /\ \A w \in Working : WindowInv(w)
    /\ LogoutHolds /\ QuietWritesHold

(***************************************************************************)
(* Lemmas about windows                                                    *)
(***************************************************************************)

LEMMA OpenWindows ==
    ASSUME TypeOK, NEW w \in Window, window[w].at # "closed"
    PROVE  window[w] \in OpenWindow /\ w \in Working
BY DEF TypeOK, Closed, Working

LEMMA WorkingIsOpen ==
    ASSUME TypeOK, NEW w \in Window
    PROVE  /\ w \in Working <=> window[w].at # "closed"
           /\ w \in Working <=> window[w] \in OpenWindow
BY DEF TypeOK, Closed, Working, OpenWindow

LEMMA GivenMembers ==
    ASSUME NEW c
    PROVE  c \in Given <=> c \in credentials \/ \E w \in Working : c \in window[w].made
BY DEF Given

LEMMA LogoutHoldsForGiven ==
    LogoutHolds <=> \A c \in Given : settled[c.account] = None => c.key # seedHexKey["site"]
BY DEF LogoutHolds, Given, Working

LEMMA GivenTyped ==
    ASSUME TypeOK
    PROVE  Given \subseteq Credential
<1> SUFFICES ASSUME NEW c \in Given PROVE c \in Credential
  OBVIOUS
<1>1. CASE c \in credentials
  BY <1>1 DEF TypeOK
<1>2. CASE \E w \in Working : c \in window[w].made
  <2>1. PICK w \in Working : c \in window[w].made
    BY <1>2
  <2>2. window[w] \in OpenWindow
    BY <2>1, WorkingIsOpen DEF Working
  <2> QED BY <2>1, <2>2 DEF OpenWindow
<1> QED BY <1>1, <1>2, GivenMembers

\* A window that goes on with its work, alone in changing the windows.
LEMMA GoesOn ==
    ASSUME TypeOK, NEW w \in Working, NEW r \in OpenWindow,
           window' = [window EXCEPT ![w] = r]
    PROVE  /\ window' \in [Window -> OpenWindow \cup {Closed}]
           /\ window'[w] = r
           /\ \A v \in Window \ {w} : window'[v] = window[v]
           /\ Working' = Working
<1>1. w \in Window /\ window \in [Window -> OpenWindow \cup {Closed}]
  BY DEF Working, TypeOK
<1>2. r # Closed
  BY DEF OpenWindow, Closed
<1> QED BY <1>1, <1>2 DEF Working

\* What was given only grows by what the window made.
LEMMA GivenGrows ==
    ASSUME TypeOK, NEW w \in Working, NEW r \in OpenWindow, NEW new,
           window' = [window EXCEPT ![w] = r], r.made = window[w].made \cup new,
           credentials' = credentials
    PROVE  Given' = Given \cup new
<1>1. /\ window'[w] = r
      /\ \A v \in Working \ {w} : window'[v].made = window[v].made
      /\ Working' = Working
  BY GoesOn DEF Working
<1>2. ASSUME NEW c PROVE c \in Given' <=> c \in Given \/ c \in new
  <2>1. c \in Given' <=> c \in credentials' \/ \E v \in Working' : c \in window'[v].made
    BY DEF Given
  <2> QED BY <1>1, <2>1, GivenMembers
<1> QED BY <1>2

LEMMA SameGiven ==
    ASSUME TypeOK, NEW w \in Working, NEW r \in OpenWindow,
           window' = [window EXCEPT ![w] = r], r.made = window[w].made,
           credentials' = credentials
    PROVE  Given' = Given
<1>1. r.made = window[w].made \cup {}
  OBVIOUS
<1>2. Given' = Given \cup {}
  BY <1>1, GivenGrows
<1> QED BY <1>2

\* Windows do not disturb what is known of other windows.
LEMMA OtherWindows ==
    ASSUME StorageInv, NEW w \in Working,
           \A v \in Window \ {w} : window'[v] = window[v],
           settled' = settled \/ window[w].alone
    PROVE  \A v \in Working' \ {w} : WindowInv(v)'
<1> SUFFICES ASSUME NEW v \in Working' \ {w} PROVE WindowInv(v)'
  OBVIOUS
<1>1. v \in Working /\ window'[v] = window[v]
  BY DEF Working
<1>2. WindowInv(v) /\ WindowInv(w)
  BY <1>1 DEF StorageInv
<1>3. ~window[v].alone /\ settled' = settled
  BY <1>1, <1>2 DEF WindowInv
<1>4. At(v, "setUsers")' = At(v, "setUsers") /\ At(v, "setLevels")' = At(v, "setLevels")
      /\ At(v, "getKey")' = At(v, "getKey") /\ At(v, "putKey")' = At(v, "putKey")
  BY <1>1 DEF At
<1> QED BY <1>1, <1>2, <1>3, <1>4 DEF WindowInv

\* What is known of the request stays known if the site's key stays or is new.
LEMMA RequestKept ==
    ASSUME StorageInv, UNCHANGED <<mustUseStorageAccess, iframeVars>>,
           seedHexKey'["site"] = seedHexKey["site"]
               \/ (seedHexKey'["site"] = nextKey /\ nextKey \in Nat)
    PROVE  RequestInv'
<1>1. RequestInv /\ seedHexKey["site"] < nextKey /\ seedHexKey["site"] \in Nat
  BY DEF StorageInv, KeysInv, TypeOK, Jar
<1>2. request # NoRequest => request.credential.key \in Nat
  BY DEF StorageInv, TypeOK, Request, Credential
<1> QED BY <1>1, <1>2 DEF RequestInv, iframeVars

(***************************************************************************)
(* The iframe                                                              *)
(***************************************************************************)

\* A step of the iframe that writes nothing to the storage.
LEMMA SilentIframe ==
    ASSUME StorageInv,
           UNCHANGED <<mustUseStorageAccess, storageVars, window, credentials, history>>,
           storageAccess' \in {"none", "asked", "granted"}, storageGranted' \in BOOLEAN,
           request' \in Request \cup {NoRequest},
           answer' \in {"none", "pending", "signed", "approvalRequired", "garbage"},
           RequestInv'
    PROVE  StorageInv'
<1>1. TypeOK'
  BY DEF StorageInv, TypeOK, storageVars, history
<1>2. Working' = Working /\ Given' = Given
  BY DEF Working, Given
<1>3. KeysInv'
  BY <1>2 DEF StorageInv, KeysInv, At, storageVars, history
<1>4. \A w \in Working' : WindowInv(w)'
  BY <1>2 DEF StorageInv, WindowInv, At, storageVars, history
<1>5. LogoutHolds' /\ QuietWritesHold'
  BY DEF StorageInv, LogoutHolds, QuietWritesHold, storageVars, history
<1> QED BY <1>1, <1>3, <1>4, <1>5 DEF StorageInv

LEMMA TapToUnlockKeeps == ASSUME StorageInv, TapToUnlock PROVE StorageInv'
<1>1. RequestInv'
  BY DEF StorageInv, RequestInv, TapToUnlock, storageVars
<1> QED BY <1>1, SilentIframe DEF TapToUnlock, StorageInv, TypeOK

LEMMA RequestStorageAccessKeeps == ASSUME StorageInv, RequestStorageAccess PROVE StorageInv'
<1>1. RequestInv'
  BY DEF StorageInv, RequestInv, RequestStorageAccess, storageVars
<1> QED BY <1>1, SilentIframe DEF RequestStorageAccess, StorageInv, TypeOK

LEMMA StorageGrantedKeeps == ASSUME StorageInv, StorageGranted PROVE StorageInv'
<1>1. RequestInv'
  BY DEF StorageInv, RequestInv, StorageGranted, storageVars
<1> QED BY <1>1, SilentIframe DEF StorageGranted, StorageInv, TypeOK

LEMMA ReloadTabKeeps == ASSUME StorageInv, ReloadTab PROVE StorageInv'
<1>1. storageGranted' \in BOOLEAN
  BY DEF StorageInv, TypeOK, ReloadTab
<1>2. RequestInv'
  BY DEF StorageInv, RequestInv, ReloadTab, TypeOK
<1> QED BY <1>1, <1>2, SilentIframe DEF ReloadTab

LEMMA SendRequestKeeps == ASSUME StorageInv, SendRequest PROVE StorageInv'
<1> DEFINE meets(c) == storageGranted /\ c.key = seedHexKey["site"]
<1>1. PICK c \in credentials, required \in {ApproveAll, Full} :
        request' = [credential |-> c, required |-> required, at |-> "getKey", read |-> NoKey,
                    meet |-> meets(c)]
  BY DEF SendRequest
<1>2. c \in Credential /\ seedHexKey["site"] \in Nat /\ c.key \in Nat
  BY DEF StorageInv, TypeOK, Jar, Credential
<1>3. meets(c) \in BOOLEAN /\ (meets(c) => storageGranted /\ c.key <= seedHexKey["site"])
  BY <1>2
<1> HIDE DEF meets
<1>4. /\ request' \in Request
      /\ request'.at = "getKey" /\ request'.meet = meets(c) /\ request'.credential = c
  BY <1>1, <1>2, <1>3 DEF Request, NoKey
<1>5. RequestInv'
  BY <1>1, <1>3, <1>4 DEF StorageInv, RequestInv, SendRequest, storageVars
<1> QED BY <1>4, <1>5, SilentIframe DEF SendRequest, StorageInv, TypeOK

\* An answer ends the request.
LEMMA RespondKeeps ==
    ASSUME StorageInv, NEW what \in {"signed", "approvalRequired", "garbage"}, Respond(what)
    PROVE  StorageInv'
<1>1. RequestInv'
  BY DEF StorageInv, RequestInv, Respond
<1> QED BY <1>1, SilentIframe DEF Respond, StorageInv, TypeOK

LEMMA RefuseLevelKeeps == ASSUME StorageInv, RefuseLevel PROVE StorageInv'
BY RespondKeeps DEF RefuseLevel

LEMMA IframeSignKeeps == ASSUME StorageInv, IframeSign PROVE StorageInv'
BY RespondKeeps DEF IframeSign

\* A request whose app knew of the access is served from the site's jar.
LEMMA MeetsAtSite ==
    ASSUME StorageInv, request # NoRequest, request.meet
    PROVE  IframeJar = "site"
BY DEF StorageInv, RequestInv, IframeJar

LEMMA IframeGetKeyKeeps == ASSUME StorageInv, IframeGetKey PROVE StorageInv'
<1> DEFINE r == [request EXCEPT !.at = "putKey", !.read = seedHexKey[IframeJar]]
<1>1. request \in Request /\ request' = r
  BY DEF IframeGetKey, StorageInv, TypeOK
<1>2. seedHexKey[IframeJar] \in Nat
  BY DEF StorageInv, TypeOK, IframeJar, Jar
<1>3. r \in Request
  BY <1>1, <1>2 DEF Request
<1>4. /\ r.credential = request.credential /\ r.required = request.required
      /\ r.meet = request.meet /\ r.at = "putKey" /\ r.read = seedHexKey[IframeJar]
  BY <1>1 DEF Request
<1>5. request.credential.level >= request.required
  BY DEF IframeGetKey
<1> HIDE DEF r
<1>6. RequestInv'
  BY <1>1, <1>4, <1>5, MeetsAtSite DEF IframeGetKey, StorageInv, RequestInv, storageVars
<1> QED BY <1>1, <1>3, <1>6, SilentIframe DEF IframeGetKey, StorageInv, TypeOK

LEMMA IframeApproveKeeps == ASSUME StorageInv, IframeApprove PROVE StorageInv'
<1>1. CASE request.read = request.credential.key /\ seedHexKey[IframeJar] # NoKey
  <2> DEFINE r == [request EXCEPT !.at = "sign", !.read = NoKey]
  <2>1. request \in Request /\ request' = r
    BY <1>1 DEF IframeApprove, StorageInv, TypeOK
  <2>2. r \in Request
    BY <2>1 DEF Request, NoKey
  <2>3. /\ r.credential = request.credential /\ r.required = request.required
        /\ r.meet = request.meet /\ r.at = "sign"
    BY <2>1 DEF Request
  <2> HIDE DEF r
  <2>4. RequestInv'
    BY <1>1, <2>1, <2>3 DEF IframeApprove, StorageInv, RequestInv, storageVars
  <2> QED BY <1>1, <2>1, <2>2, <2>4, SilentIframe DEF IframeApprove, StorageInv, TypeOK
<1>2. CASE ~(request.read = request.credential.key /\ seedHexKey[IframeJar] # NoKey)
  BY <1>2, RespondKeeps DEF IframeApprove
<1> QED BY <1>1, <1>2

\* A key that is generated is in no jar yet, was not replaced, and seals nothing
\* that was given.
LEMMA GeneratedKeyIsNew ==
    ASSUME StorageInv, NEW jar \in Jar,
           seedHexKey' = [seedHexKey EXCEPT ![jar] = nextKey], nextKey' = nextKey + 1,
           revoked' \subseteq revoked \cup ({seedHexKey["site"]} \ {NoKey}),
           jar = "site" \/ revoked' = revoked
    PROVE  /\ seedHexKey' \in [Jar -> Nat] /\ nextKey' \in Nat \ {NoKey}
           /\ \A j \in Jar : seedHexKey'[j] < nextKey' /\ seedHexKey'[j] \notin revoked'
           /\ seedHexKey'["site"] # seedHexKey'["iframe"]
           /\ \A key \in revoked' : key < nextKey'
           /\ \A c \in Given : c.key < nextKey'
           /\ jar = "site" => \A c \in Given : c.key # seedHexKey'["site"]
<1>1. /\ seedHexKey \in [Jar -> Nat] /\ nextKey \in Nat \ {NoKey}
      /\ Jar = {"site", "iframe"} /\ revoked \subseteq Nat
      /\ Given \subseteq Credential
  BY GivenTyped DEF StorageInv, TypeOK, Jar
<1>2. /\ \A j \in Jar : seedHexKey[j] < nextKey /\ seedHexKey[j] \notin revoked
      /\ seedHexKey["site"] = seedHexKey["iframe"] => seedHexKey["site"] = NoKey
      /\ \A key \in revoked : key < nextKey
      /\ \A c \in Given : c.key < nextKey
  BY DEF StorageInv, KeysInv
<1>3. \A c \in Given : c.key \in Nat
  BY <1>1 DEF Credential
<1>4. seedHexKey'[jar] = nextKey /\ \A j \in Jar \ {jar} : seedHexKey'[j] = seedHexKey[j]
  BY <1>1
<1>5. \A key \in revoked' : key \in Nat /\ key < nextKey
  BY <1>1, <1>2
<1>6. seedHexKey' \in [Jar -> Nat] /\ nextKey' \in Nat \ {NoKey}
  BY <1>1 DEF NoKey
<1>7. \A j \in Jar : seedHexKey'[j] < nextKey' /\ seedHexKey'[j] \notin revoked'
  <2> SUFFICES ASSUME NEW j \in Jar
               PROVE  seedHexKey'[j] < nextKey' /\ seedHexKey'[j] \notin revoked'
    OBVIOUS
  <2>1. CASE j = jar
    BY <1>1, <1>4, <1>5, <2>1
  <2>2. CASE j # jar
    BY <1>1, <1>2, <1>4, <2>2
  <2> QED BY <2>1, <2>2
<1>8. seedHexKey'["site"] # seedHexKey'["iframe"]
  BY <1>1, <1>2, <1>4
<1>9. /\ \A key \in revoked' : key < nextKey'
      /\ \A c \in Given : c.key < nextKey'
      /\ jar = "site" => \A c \in Given : c.key # seedHexKey'["site"]
  BY <1>1, <1>2, <1>3, <1>4, <1>5
<1> QED BY <1>6, <1>7, <1>8, <1>9

\* Written or lost, the key that the iframe puts opens nothing that was given.
LEMMA IframePutKeyKeeps == ASSUME StorageInv, IframePutKey PROVE StorageInv'
<1>1. /\ request # NoRequest /\ request \in Request /\ request.at = "putKey"
      /\ UNCHANGED <<mustUseStorageAccess, users, levels, window, storageAccess,
                     storageGranted, answer, credentials, history>>
      /\ UNCHANGED <<revoked, settled>>
  BY DEF IframePutKey, StorageInv, TypeOK, history
<1>2. /\ IframeJar \in Jar /\ nextKey \in Nat \ {NoKey} /\ seedHexKey \in [Jar -> Nat]
  BY DEF StorageInv, TypeOK, IframeJar, Jar
<1>3. request.credential.level >= request.required
  BY <1>1 DEF StorageInv, RequestInv
<1>4. CASE request.read = NoKey /\ Put(IframeJar, request.read)
           /\ request' = [request EXCEPT !.at = "check", !.read = IF @ = NoKey THEN nextKey ELSE @]
  <2>1. seedHexKey' = [seedHexKey EXCEPT ![IframeJar] = nextKey] /\ nextKey' = nextKey + 1
    BY <1>2, <1>4 DEF Put, KeyToPut
  <2> DEFINE r == [request EXCEPT !.at = "check", !.read = nextKey]
  <2>2. request' = r
    BY <1>1, <1>4
  <2>3. /\ r \in Request /\ r.credential = request.credential /\ r.at = "check"
        /\ r.required = request.required /\ r.meet = request.meet
    BY <1>1, <1>2 DEF Request
  <2> HIDE DEF r
  <2>4. Working' = Working /\ Given' = Given
    BY <1>1 DEF Working, Given
  <2>5. TypeOK'
    BY <1>1, <1>2, <2>1, <2>2, <2>3, GeneratedKeyIsNew DEF StorageInv, TypeOK
  <2>6. KeysInv'
    <3>1. \A w \in Window : At(w, "putKey")' => window'[w].read.sealing.key < nextKey'
      <4> SUFFICES ASSUME NEW w \in Window, At(w, "putKey")
                   PROVE  window[w].read.sealing.key < nextKey + 1
        BY <1>1, <2>1 DEF At
      <4>1. window[w].read.sealing.key < nextKey
        BY DEF StorageInv, KeysInv
      <4>2. window[w].read.sealing.key \in Nat
        BY WorkingIsOpen DEF StorageInv, At, OpenWindow
      <4> QED BY <1>2, <4>1, <4>2
    <3> QED BY <1>1, <1>2, <2>1, <2>4, <3>1, GeneratedKeyIsNew DEF KeysInv
  <2>7. RequestInv'
    <3>1. request.credential.key \in Nat
      BY <1>1 DEF Request, Credential
    <3>2. request.meet =>
              IframeJar = "site" /\ request.credential.key <= seedHexKey["site"]
              /\ seedHexKey["site"] < nextKey /\ seedHexKey["site"] \in Nat
      BY <1>1, <1>2, MeetsAtSite DEF StorageInv, RequestInv, KeysInv, Jar
    <3>3. request.meet => seedHexKey'["site"] = nextKey
      BY <1>2, <2>1, <3>2
    <3> QED BY <1>1, <1>2, <1>3, <2>2, <2>3, <3>1, <3>2, <3>3 DEF StorageInv, RequestInv
  <2>8. \A c \in Given : c.key # seedHexKey["site"] => c.key # seedHexKey'["site"]
    <3>1. IframeJar = "site" \/ seedHexKey'["site"] = seedHexKey["site"]
      BY <1>2, <2>1 DEF Jar
    <3> QED BY <1>1, <1>2, <2>1, <3>1, GeneratedKeyIsNew
  <2>9. \A w \in Working' : WindowInv(w)'
    BY <1>1, <2>4, <2>8 DEF StorageInv, WindowInv, At
  <2>10. LogoutHolds'
    BY <1>1, <2>4, <2>8, LogoutHoldsForGiven DEF StorageInv, LogoutHolds, Given, Working
  <2>11. QuietWritesHold'
    BY <1>1 DEF StorageInv, QuietWritesHold
  <2> QED BY <2>5, <2>6, <2>7, <2>9, <2>10, <2>11 DEF StorageInv
<1>5. CASE UNCHANGED <<seedHexKey, nextKey>> /\ request' = [request EXCEPT !.at = "check"]
           /\ (request.read # NoKey \/ IframeJar = "iframe")
  <2> DEFINE r == [request EXCEPT !.at = "check"]
  <2>1. /\ request' = r
        /\ r \in Request /\ r.credential = request.credential /\ r.at = "check"
        /\ r.required = request.required /\ r.meet = request.meet /\ r.read = request.read
    BY <1>1, <1>5 DEF Request
  <2> HIDE DEF r
  <2>2. RequestInv'
    BY <1>1, <1>3, <1>5, <2>1, MeetsAtSite DEF StorageInv, RequestInv
  <2> QED BY <1>1, <1>5, <2>1, <2>2, SilentIframe DEF StorageInv, TypeOK, storageVars
<1>6. CASE request.read # NoKey /\ Put(IframeJar, request.read)
           /\ request' = [request EXCEPT !.at = "check", !.read = IF @ = NoKey THEN nextKey ELSE @]
  <2>1. UNCHANGED <<seedHexKey, nextKey>>
    BY <1>6 DEF Put, KeyToPut
  <2>2. request' = [request EXCEPT !.at = "check"]
    BY <1>1, <1>6 DEF Request
  <2> QED BY <1>5, <1>6, <2>1, <2>2
<1> QED BY <1>4, <1>5, <1>6 DEF IframePutKey

(***************************************************************************)
(* A window goes on: nothing but what it knows changes                     *)
(***************************************************************************)

LEMMA SilentWindow ==
    ASSUME StorageInv, NEW w \in Working, NEW r \in OpenWindow,
           window' = [window EXCEPT ![w] = r], r.made = window[w].made,
           UNCHANGED <<mustUseStorageAccess, storageVars, iframeVars, credentials, history>>,
           r.at = "putKey" => r.read.sealing.key < nextKey,
           WindowInv(w)'
    PROVE  StorageInv'
<1>1. TypeOK
  BY DEF StorageInv
<1>2. /\ window' \in [Window -> OpenWindow \cup {Closed}]
      /\ window'[w] = r /\ w \in Window
      /\ \A v \in Window \ {w} : window'[v] = window[v]
      /\ Working' = Working
  BY <1>1, GoesOn DEF Working
<1>3. Given' = Given
  BY <1>1, SameGiven
<1>4. TypeOK'
  BY <1>1, <1>2 DEF TypeOK, storageVars, iframeVars, history
<1>5. KeysInv'
  BY <1>2, <1>3 DEF StorageInv, KeysInv, At, storageVars, history
<1>6. RequestInv'
  BY RequestKept DEF storageVars
<1>7. \A v \in Working' : WindowInv(v)'
  BY <1>2, OtherWindows DEF history
<1>8. LogoutHolds' /\ QuietWritesHold'
  BY <1>3, LogoutHoldsForGiven DEF StorageInv, QuietWritesHold, storageVars, history,
     LogoutHolds, Given, Working
<1> QED BY <1>4, <1>5, <1>6, <1>7, <1>8 DEF StorageInv

LEMMA GetPrivateUsersKeeps == ASSUME StorageInv, NEW w \in Window, GetPrivateUsers(w) PROVE StorageInv'
<1> DEFINE r == [window[w] EXCEPT !.at = "getAccessLevel", !.todo = users]
<1>1. window[w] \in OpenWindow /\ w \in Working
  BY OpenWindows DEF GetPrivateUsers, At, StorageInv
<1>2. users \in SUBSET Account
  BY DEF StorageInv, TypeOK
<1>3. /\ r \in OpenWindow
      /\ r.at = "getAccessLevel" /\ r.op = window[w].op /\ r.about = window[w].about
      /\ r.level = window[w].level /\ r.alone = window[w].alone /\ r.made = window[w].made
  BY <1>1, <1>2 DEF OpenWindow
<1>4. window' = [window EXCEPT ![w] = r]
  BY <1>1 DEF GetPrivateUsers, StorageInv, TypeOK
<1> HIDE DEF r
<1>5. window'[w] = r /\ Working' = Working /\ Given' = Given
  BY <1>1, <1>3, <1>4, GoesOn, SameGiven DEF GetPrivateUsers, StorageInv
<1>6. window[w].at = "getPrivateUsers" /\ UNCHANGED <<storageVars, credentials, history>>
  BY DEF GetPrivateUsers, At
<1>7. WindowInv(w)'
  BY <1>1, <1>3, <1>5, <1>6 DEF StorageInv, WindowInv, At, storageVars, history
<1> QED BY <1>1, <1>3, <1>4, <1>7, SilentWindow DEF GetPrivateUsers

LEMMA GetKeyKeeps == ASSUME StorageInv, NEW w \in Window, GetKey(w) PROVE StorageInv'
<1> DEFINE r == [window[w] EXCEPT !.at = "putKey", !.read.sealing.key = seedHexKey["site"]]
<1>1. window[w] \in OpenWindow /\ w \in Working
  BY OpenWindows DEF GetKey, At, StorageInv
<1>2. seedHexKey["site"] \in Nat /\ seedHexKey["site"] < nextKey
  BY DEF StorageInv, TypeOK, KeysInv, Jar
<1>3. /\ r \in OpenWindow
      /\ r.at = "putKey" /\ r.op = window[w].op /\ r.about = window[w].about
      /\ r.level = window[w].level /\ r.alone = window[w].alone /\ r.made = window[w].made
      /\ r.read.sealing.account = window[w].read.sealing.account
      /\ r.read.sealing.level = window[w].read.sealing.level
      /\ r.read.sealing.key = seedHexKey["site"]
  BY <1>1, <1>2 DEF OpenWindow
<1>4. window' = [window EXCEPT ![w] = r]
  BY <1>1 DEF GetKey, StorageInv, TypeOK
<1> HIDE DEF r
<1>5. window'[w] = r /\ Working' = Working /\ Given' = Given
  BY <1>1, <1>3, <1>4, GoesOn, SameGiven DEF GetKey, StorageInv
<1>6. window[w].at = "getKey" /\ UNCHANGED <<storageVars, credentials, history>>
  BY DEF GetKey, At
<1>7. WindowInv(w)'
  BY <1>1, <1>3, <1>5, <1>6 DEF StorageInv, WindowInv, At, storageVars, history
<1> QED BY <1>1, <1>2, <1>3, <1>4, <1>7, SilentWindow DEF GetKey

\* A level that is none is passed over; and what a quiet logout stored is none.
LEMMA AccountLevelKeeps == ASSUME StorageInv, NEW w \in Window, AccountLevel(w) PROVE StorageInv'
<1>1. window[w] \in OpenWindow /\ w \in Working /\ window[w].at = "getAccessLevel"
  BY OpenWindows DEF AccountLevel, At, StorageInv
<1>2. PICK a \in window[w].todo :
         \/ window' = [window EXCEPT ![w].todo = @ \ {a}]
         \/ /\ GetAccessLevel(a) # None
            /\ window' = [window EXCEPT ![w].at = "getKey",
                   ![w].read.sealing = [account |-> a, level |-> GetAccessLevel(a), key |-> NoKey]]
  BY DEF AccountLevel
<1>3. a \in Account /\ UNCHANGED <<mustUseStorageAccess, storageVars, iframeVars, credentials, history>>
  BY <1>1 DEF OpenWindow, AccountLevel
<1>4. CASE window' = [window EXCEPT ![w].todo = @ \ {a}]
  <2> DEFINE r == [window[w] EXCEPT !.todo = @ \ {a}]
  <2>1. /\ r \in OpenWindow
        /\ r.at = "getAccessLevel" /\ r.op = window[w].op /\ r.about = window[w].about
        /\ r.level = window[w].level /\ r.alone = window[w].alone /\ r.made = window[w].made
    BY <1>1 DEF OpenWindow
  <2>2. window' = [window EXCEPT ![w] = r]
    BY <1>1, <1>4 DEF StorageInv, TypeOK
  <2> HIDE DEF r
  <2>3. window'[w] = r /\ Working' = Working /\ Given' = Given
    BY <1>1, <1>3, <2>1, <2>2, GoesOn, SameGiven DEF StorageInv
  <2>4. WindowInv(w)'
    BY <1>1, <1>3, <2>1, <2>3 DEF StorageInv, WindowInv, At, storageVars, history
  <2> QED BY <1>1, <1>3, <2>1, <2>2, <2>4, SilentWindow
<1>5. CASE /\ GetAccessLevel(a) # None
           /\ window' = [window EXCEPT ![w].at = "getKey",
                  ![w].read.sealing = [account |-> a, level |-> GetAccessLevel(a), key |-> NoKey]]
  <2> DEFINE s == [account |-> a, level |-> GetAccessLevel(a), key |-> NoKey]
             r == [window[w] EXCEPT !.at = "getKey", !.read.sealing = s]
  <2>1. GetAccessLevel(a) \in AccessLevel
    BY DEF GetAccessLevel, AccessLevel, None
  <2>2. /\ r \in OpenWindow
        /\ r.at = "getKey" /\ r.op = window[w].op /\ r.about = window[w].about
        /\ r.level = window[w].level /\ r.alone = window[w].alone /\ r.made = window[w].made
        /\ r.read.sealing.account = a /\ r.read.sealing.level = GetAccessLevel(a)
    BY <1>1, <1>3, <2>1 DEF OpenWindow, NoKey
  <2>3. window' = [window EXCEPT ![w] = r]
    BY <1>1, <1>5 DEF StorageInv, TypeOK
  <2> HIDE DEF r
  <2>4. window'[w] = r /\ Working' = Working /\ Given' = Given
    BY <1>1, <1>3, <2>2, <2>3, GoesOn, SameGiven DEF StorageInv
  <2>5. levels[a] # None
    BY <1>5 DEF GetAccessLevel
  <2>6. settled[a] # None
    BY <1>3, <2>5, LevelAssumption DEF StorageInv, QuietWritesHold, None
  <2>7. window[w].alone /\ window[w].op = "logout" => a # window[w].about
    BY <1>1, <2>5 DEF StorageInv, WindowInv, At
  <2>8. GetAccessLevel(a) # None
    BY <1>5
  <2>9. WindowInv(w)'
    BY <1>1, <1>3, <2>8, <2>2, <2>4, <2>6, <2>7 DEF StorageInv, WindowInv, At, storageVars, history
  <2> QED BY <1>1, <1>3, <2>2, <2>3, <2>9, SilentWindow
<1> QED BY <1>2, <1>4, <1>5

(***************************************************************************)
(* A window writes                                                         *)
(***************************************************************************)

\* The levels go back as they were read, but for one; what was settled since
\* another window began is unsettled, so nothing settled is lost.
LEMMA SetLevelsKeeps == ASSUME StorageInv, NEW w \in Window, SetLevels(w) PROVE StorageInv'
<1> DEFINE next == IF window[w].op = "logout" THEN "resetKey" ELSE "getPrivateUsers"
           r == [window[w] EXCEPT !.at = next, !.read = NothingRead(window[w].about)]
<1>1. TypeOK /\ window[w] \in OpenWindow /\ w \in Working /\ window[w].at = "setLevels"
  BY OpenWindows DEF SetLevels, At, StorageInv
<1>2. NothingRead(window[w].about) \in
          [users : SUBSET Account, levels : [Account -> Nat \cup {NoLevel}],
           sealing : [account : Account, level : AccessLevel, key : Nat]]
  BY <1>1 DEF OpenWindow, NothingRead, AccessLevel, None, NoKey
<1>3. /\ r \in OpenWindow /\ r.at = next /\ r.op = window[w].op /\ r.about = window[w].about
      /\ r.level = window[w].level /\ r.alone = window[w].alone /\ r.made = window[w].made
  BY <1>1, <1>2 DEF OpenWindow
<1>4. window' = [window EXCEPT ![w] = r]
  BY <1>1 DEF SetLevels, GoOn, TypeOK
<1> HIDE DEF r
<1>5. /\ window' \in [Window -> OpenWindow \cup {Closed}]
      /\ window'[w] = r /\ \A v \in Window \ {w} : window'[v] = window[v]
      /\ Working' = Working /\ Given' = Given
  BY <1>1, <1>3, <1>4, GoesOn, SameGiven DEF SetLevels
<1>6. /\ UNCHANGED <<mustUseStorageAccess, users, seedHexKey, nextKey, iframeVars,
                     credentials, history>>
      /\ UNCHANGED <<revoked, settled>>
      /\ levels' = [window[w].read.levels EXCEPT ![window[w].about] = window[w].level]
  BY DEF SetLevels, WithLevel, history
<1>7. /\ window[w].about \in Account /\ window[w].level \in Nat \cup {NoLevel}
      /\ window[w].read.levels \in [Account -> Nat \cup {NoLevel}]
  BY <1>1 DEF OpenWindow
<1>8. /\ window[w].level # NoLevel
      /\ window[w].op = "logout" <=> window[w].level = None
      /\ window[w].alone /\ window[w].op # "logout" => window[w].about \in users
      /\ settled[window[w].about] = NoLevel
      /\ \A a \in Account : settled[a] # NoLevel => window[w].read.levels[a] = settled[a]
      /\ window[w].alone => \A v \in Working : v = w
  BY <1>1 DEF StorageInv, WindowInv, At
<1>9. levels' \in [Account -> Nat \cup {NoLevel}] /\ levels'[window[w].about] = window[w].level
  BY <1>6, <1>7
<1>10. TypeOK'
  BY <1>1, <1>5, <1>6, <1>9 DEF TypeOK, iframeVars
<1>11. KeysInv'
  BY <1>3, <1>5, <1>6 DEF StorageInv, KeysInv, At
<1>12. RequestInv'
  BY <1>6, RequestKept
<1>13. WindowInv(w)'
  BY <1>3, <1>5, <1>6, <1>8, <1>9 DEF WindowInv, At
<1>14. \A v \in Working' : WindowInv(v)'
  BY <1>1, <1>5, <1>6, <1>13, OtherWindows
<1>15. LogoutHolds'
  BY <1>5, <1>6, LogoutHoldsForGiven DEF StorageInv, LogoutHolds, Given, Working
<1>16. QuietWritesHold'
  BY <1>6, <1>7, <1>8 DEF StorageInv, QuietWritesHold
<1> QED BY <1>10, <1>11, <1>12, <1>14, <1>15, <1>16 DEF StorageInv

\* The new key opens nothing that was given.
LEMMA ResetKeyKeeps == ASSUME StorageInv, NEW w \in Window, ResetKey(w) PROVE StorageInv'
<1> DEFINE r == [window[w] EXCEPT !.at = "getPrivateUsers", !.read = NothingRead(window[w].about)]
<1>1. TypeOK /\ window[w] \in OpenWindow /\ w \in Working /\ window[w].at = "resetKey"
  BY OpenWindows DEF ResetKey, At, StorageInv
<1>2. NothingRead(window[w].about) \in
          [users : SUBSET Account, levels : [Account -> Nat \cup {NoLevel}],
           sealing : [account : Account, level : AccessLevel, key : Nat]]
  BY <1>1 DEF OpenWindow, NothingRead, AccessLevel, None, NoKey
<1>3. /\ r \in OpenWindow /\ r.at = "getPrivateUsers" /\ r.op = window[w].op
      /\ r.about = window[w].about /\ r.level = window[w].level /\ r.alone = window[w].alone
      /\ r.made = window[w].made
  BY <1>1, <1>2 DEF OpenWindow
<1>4. window' = [window EXCEPT ![w] = r]
  BY <1>1 DEF ResetKey, GoOn, TypeOK
<1> HIDE DEF r
<1>5. /\ window' \in [Window -> OpenWindow \cup {Closed}]
      /\ window'[w] = r /\ \A v \in Window \ {w} : window'[v] = window[v]
      /\ Working' = Working /\ Given' = Given
  BY <1>1, <1>3, <1>4, GoesOn, SameGiven DEF ResetKey
<1>6. /\ UNCHANGED <<mustUseStorageAccess, users, levels, iframeVars, credentials, settled>>
      /\ seedHexKey' = [seedHexKey EXCEPT !["site"] = nextKey]
      /\ nextKey' = nextKey + 1
      /\ revoked' = revoked \cup ({seedHexKey["site"]} \ {NoKey})
  BY DEF ResetKey
<1>7. /\ seedHexKey' \in [Jar -> Nat] /\ nextKey' \in Nat \ {NoKey}
      /\ \A j \in Jar : seedHexKey'[j] < nextKey' /\ seedHexKey'[j] \notin revoked'
      /\ seedHexKey'["site"] # seedHexKey'["iframe"]
      /\ \A key \in revoked' : key < nextKey'
      /\ \A c \in Given : c.key < nextKey' /\ c.key # seedHexKey'["site"]
  <2>1. "site" \in Jar
    BY DEF Jar
  <2> QED BY <1>6, <2>1, GeneratedKeyIsNew
<1>8. revoked' \in SUBSET (Nat \ {NoKey})
  BY <1>1, <1>6 DEF TypeOK, Jar
<1>9. TypeOK'
  BY <1>1, <1>5, <1>6, <1>7, <1>8 DEF TypeOK, iframeVars
<1>10. KeysInv'
  <2>1. ASSUME NEW v \in Window, At(v, "putKey")' PROVE window'[v].read.sealing.key < nextKey'
    <3>1. v # w /\ window'[v] = window[v] /\ At(v, "putKey")
      BY <1>3, <1>5, <2>1 DEF At
    <3>2. window[v].read.sealing.key < nextKey
      BY <3>1 DEF StorageInv, KeysInv
    <3>3. window[v].read.sealing.key \in Nat /\ nextKey \in Nat
      BY <1>1, <3>1, OpenWindows DEF At, OpenWindow, TypeOK
    <3> QED BY <1>6, <3>1, <3>2, <3>3
  <2> QED BY <1>5, <1>7, <2>1 DEF KeysInv
<1>11. RequestInv'
  <2>1. seedHexKey'["site"] = nextKey /\ nextKey \in Nat
    BY <1>1, <1>6 DEF TypeOK, Jar
  <2> QED BY <1>6, <2>1, RequestKept
<1>12. WindowInv(w)
  BY <1>1 DEF StorageInv
<1>13. WindowInv(w)'
  BY <1>1, <1>3, <1>5, <1>6, <1>7, <1>12 DEF WindowInv, At
<1>14. \A v \in Working' : WindowInv(v)'
  BY <1>1, <1>5, <1>6, <1>13, OtherWindows
<1>15. LogoutHolds'
  BY <1>5, <1>7 DEF LogoutHolds, Given, Working
<1>16. QuietWritesHold'
  BY <1>6 DEF StorageInv, QuietWritesHold
<1> QED BY <1>9, <1>10, <1>11, <1>14, <1>15, <1>16 DEF StorageInv

LEMMA PutKeyKeeps == ASSUME StorageInv, NEW w \in Window, PutKey(w) PROVE StorageInv'
<1> DEFINE s == window[w].read.sealing
           new == IF s.key = NoKey THEN [s EXCEPT !.key = nextKey] ELSE s
           r == [window[w] EXCEPT !.at = "getAccessLevel", !.read = NothingRead(window[w].about),
                                  !.todo = @ \ {s.account}, !.made = @ \cup {new}]
<1>1. TypeOK /\ window[w] \in OpenWindow /\ w \in Working /\ window[w].at = "putKey"
  BY OpenWindows DEF PutKey, At, StorageInv
<1>2. NothingRead(window[w].about) \in
          [users : SUBSET Account, levels : [Account -> Nat \cup {NoLevel}],
           sealing : [account : Account, level : AccessLevel, key : Nat]]
  BY <1>1 DEF OpenWindow, NothingRead, AccessLevel, None, NoKey
<1>3. /\ s.account \in Account /\ s.level \in AccessLevel /\ s.key \in Nat
      /\ s = [account |-> s.account, level |-> s.level, key |-> s.key]
      /\ nextKey \in Nat \ {NoKey}
  BY <1>1 DEF OpenWindow, TypeOK
<1>4. WindowInv(w) /\ s.level # None /\ settled[s.account] # None /\ s.key < nextKey
      /\ (window[w].alone /\ window[w].op = "logout" => s.account # window[w].about)
  BY <1>1 DEF StorageInv, WindowInv, KeysInv, At
<1>5. new \in Credential /\ new.account = s.account
      /\ new.key = (IF s.key = NoKey THEN nextKey ELSE s.key)
  BY <1>3, <1>4 DEF Credential
<1>6. /\ r \in OpenWindow /\ r.at = "getAccessLevel" /\ r.op = window[w].op
      /\ r.about = window[w].about /\ r.level = window[w].level /\ r.alone = window[w].alone
      /\ r.made = window[w].made \cup {new}
  BY <1>1, <1>2, <1>5 DEF OpenWindow
<1>7. window' = [window EXCEPT ![w] = r]
  BY <1>1 DEF PutKey, TypeOK
<1>8. /\ UNCHANGED <<mustUseStorageAccess, users, levels, iframeVars, credentials, history>>
      /\ UNCHANGED <<revoked, settled>>
      /\ Put("site", s.key)
  BY DEF PutKey, history
<1> HIDE DEF r, new, s
<1>9. /\ window' \in [Window -> OpenWindow \cup {Closed}]
      /\ window'[w] = r /\ \A v \in Window \ {w} : window'[v] = window[v]
      /\ Working' = Working /\ Given' = Given \cup {new}
  BY <1>1, <1>6, <1>7, <1>8, GoesOn, GivenGrows
<1>10. /\ seedHexKey' \in [Jar -> Nat] /\ nextKey' \in Nat \ {NoKey} /\ nextKey <= nextKey'
       /\ \A j \in Jar : seedHexKey'[j] < nextKey' /\ seedHexKey'[j] \notin revoked
       /\ seedHexKey'["site"] = seedHexKey'["iframe"] => seedHexKey'["site"] = NoKey
       /\ new.key < nextKey'
       /\ \A c \in Given : c.key < nextKey'
       /\ \A c \in Given : c.key # seedHexKey["site"] => c.key # seedHexKey'["site"]
       /\ seedHexKey'["site"] = seedHexKey["site"] \/ seedHexKey'["site"] = nextKey
       /\ \A key \in revoked : key < nextKey'
  <2>1. CASE s.key = NoKey
    <3>1. seedHexKey' = [seedHexKey EXCEPT !["site"] = nextKey] /\ nextKey' = nextKey + 1
      BY <1>3, <1>8, <2>1 DEF Put, KeyToPut
    <3>2. "site" \in Jar /\ seedHexKey \in [Jar -> Nat]
      BY <1>1 DEF Jar, TypeOK
    <3>3. /\ seedHexKey' \in [Jar -> Nat] /\ nextKey' \in Nat \ {NoKey}
          /\ \A j \in Jar : seedHexKey'[j] < nextKey' /\ seedHexKey'[j] \notin revoked'
          /\ seedHexKey'["site"] # seedHexKey'["iframe"]
          /\ \A key \in revoked' : key < nextKey'
          /\ \A c \in Given : c.key < nextKey'
          /\ \A c \in Given : c.key # seedHexKey'["site"]
      BY <1>8, <3>1, <3>2, GeneratedKeyIsNew
    <3>4. seedHexKey'["site"] = nextKey
      BY <3>1, <3>2
    <3>5. new.key < nextKey' /\ nextKey <= nextKey'
      BY <1>3, <1>5, <2>1, <3>1
    <3> QED BY <1>8, <3>3, <3>4, <3>5
  <2>2. CASE s.key # NoKey
    <3>1. UNCHANGED <<seedHexKey, nextKey>>
      BY <1>8, <2>2 DEF Put, KeyToPut
    <3> QED BY <1>1, <1>3, <1>4, <1>5, <2>2, <3>1 DEF StorageInv, TypeOK, KeysInv
  <2> QED BY <2>1, <2>2
<1>11. TypeOK'
  BY <1>1, <1>8, <1>9, <1>10 DEF TypeOK, iframeVars
<1>12. KeysInv'
  <2>1. ASSUME NEW v \in Window, At(v, "putKey")' PROVE window'[v].read.sealing.key < nextKey'
    <3>1. v # w /\ window'[v] = window[v] /\ At(v, "putKey")
      BY <1>6, <1>9, <2>1 DEF At
    <3>2. window[v].read.sealing.key < nextKey
      BY <3>1 DEF StorageInv, KeysInv
    <3>3. window[v].read.sealing.key \in Nat
      BY <1>1, <3>1, OpenWindows DEF At, OpenWindow
    <3> QED BY <1>3, <1>10, <3>1, <3>2, <3>3
  <2> QED BY <1>8, <1>9, <1>10, <2>1 DEF KeysInv
<1>13. RequestInv'
  BY <1>3, <1>8, <1>10, RequestKept
<1>14. WindowInv(w)'
  BY <1>1, <1>4, <1>5, <1>6, <1>8, <1>9, <1>10 DEF WindowInv, At
<1>15. \A v \in Working' : WindowInv(v)'
  BY <1>1, <1>8, <1>9, <1>14, OtherWindows
<1>16. LogoutHolds'
  <2>1. \A c \in Given' : settled[c.account] = None => c.key # seedHexKey'["site"]
    BY <1>4, <1>5, <1>9, <1>10, LogoutHoldsForGiven DEF StorageInv
  <2> QED BY <1>8, <2>1 DEF LogoutHolds, Given, Working
<1>17. QuietWritesHold'
  BY <1>8 DEF StorageInv, QuietWritesHold
<1> QED BY <1>11, <1>12, <1>13, <1>15, <1>16, <1>17 DEF StorageInv

\* A window that closes, alone in changing the windows.
LEMMA Closes ==
    ASSUME TypeOK, NEW w \in Working, window' = [window EXCEPT ![w] = Closed]
    PROVE  /\ window' \in [Window -> OpenWindow \cup {Closed}]
           /\ \A v \in Window \ {w} : window'[v] = window[v]
           /\ Working' = Working \ {w}
           /\ window'[w].at = "closed"
<1>1. w \in Window /\ window \in [Window -> OpenWindow \cup {Closed}]
  BY DEF Working, TypeOK
<1> QED BY <1>1 DEF Working, Closed

\* No account that was settled with a level is lost.
LEMMA SetUsersKeeps == ASSUME StorageInv, NEW w \in Window, SetUsers(w) PROVE StorageInv'
<1>1. TypeOK /\ window[w] \in OpenWindow /\ w \in Working /\ window[w].at = "setUsers"
  BY OpenWindows DEF SetUsers, At, StorageInv
<1>2. /\ UNCHANGED <<mustUseStorageAccess, levels, seedHexKey, nextKey, iframeVars,
                     credentials, history>>
      /\ UNCHANGED <<revoked, settled>>
      /\ users' = window[w].read.users \cup {window[w].about}
      /\ window' = [window EXCEPT ![w] = Closed]
  BY DEF SetUsers, history
<1>3. /\ window' \in [Window -> OpenWindow \cup {Closed}]
      /\ \A v \in Window \ {w} : window'[v] = window[v]
      /\ Working' = Working \ {w} /\ window'[w].at = "closed"
  BY <1>1, <1>2, Closes
<1>4. Given' \subseteq Given
  <2> SUFFICES ASSUME NEW c \in Given' PROVE c \in Given
    OBVIOUS
  <2>1. c \in credentials' \/ \E v \in Working' : c \in window'[v].made
    BY DEF Given
  <2> QED BY <1>2, <1>3, <2>1, GivenMembers DEF Working
<1>5. TypeOK'
  BY <1>1, <1>2, <1>3 DEF TypeOK, OpenWindow, iframeVars
<1>6. KeysInv'
  BY <1>2, <1>3, <1>4 DEF StorageInv, KeysInv, At
<1>7. RequestInv'
  BY <1>2, RequestKept
<1>8. \A v \in Working' : WindowInv(v)'
  BY <1>1, <1>2, <1>3, OtherWindows
<1>9. LogoutHolds'
  <2>1. \A c \in Given' : settled[c.account] = None => c.key # seedHexKey["site"]
    BY <1>4, LogoutHoldsForGiven DEF StorageInv
  <2> QED BY <1>2, <2>1 DEF LogoutHolds, Given, Working
<1>10. QuietWritesHold'
  <2>1. \A a \in Account : settled[a] \notin {NoLevel, None} => a \in window[w].read.users
    BY <1>1 DEF StorageInv, WindowInv, At
  <2> QED BY <1>2, <2>1 DEF StorageInv, QuietWritesHold
<1> QED BY <1>5, <1>6, <1>7, <1>8, <1>9, <1>10 DEF StorageInv

LEMMA FinishFlowKeeps == ASSUME StorageInv, NEW w \in Window, FinishFlow(w) PROVE StorageInv'
<1>1. TypeOK /\ window[w] \in OpenWindow /\ w \in Working /\ window[w].at = "getAccessLevel"
  BY OpenWindows DEF FinishFlow, At, StorageInv
<1>2. /\ UNCHANGED <<mustUseStorageAccess, storageVars, iframeVars, revoked>>
      /\ UNCHANGED <<users, levels, seedHexKey, nextKey>>
      /\ credentials' = credentials \cup window[w].made
      /\ settled' = IF window[w].alone
                    THEN [settled EXCEPT ![window[w].about] = window[w].level] ELSE settled
      /\ window' = [window EXCEPT ![w] = Closed]
  BY DEF FinishFlow, storageVars
<1>3. /\ window' \in [Window -> OpenWindow \cup {Closed}]
      /\ \A v \in Window \ {w} : window'[v] = window[v]
      /\ Working' = Working \ {w} /\ window'[w].at = "closed"
  BY <1>1, <1>2, Closes
<1>4. Given' \subseteq Given
  <2> SUFFICES ASSUME NEW c \in Given' PROVE c \in Given
    OBVIOUS
  <2>1. c \in credentials' \/ \E v \in Working' : c \in window'[v].made
    BY DEF Given
  <2> QED BY <1>1, <1>2, <1>3, <2>1, GivenMembers DEF Working
<1>5. /\ settled \in [Account -> Nat \cup {NoLevel}] /\ window[w].about \in Account
      /\ window[w].level \in Nat \cup {NoLevel} /\ window[w].made \subseteq Credential
  BY <1>1 DEF TypeOK, OpenWindow
<1>6. WindowInv(w)
  BY <1>1 DEF StorageInv
<1>7. TypeOK'
  BY <1>1, <1>2, <1>3, <1>5 DEF TypeOK, iframeVars
<1>8. KeysInv'
  BY <1>2, <1>3, <1>4 DEF StorageInv, KeysInv, At
<1>9. RequestInv'
  BY <1>2, RequestKept
<1>10. \A v \in Working' : WindowInv(v)'
  BY <1>1, <1>2, <1>3, OtherWindows
<1>11. LogoutHolds'
  <2>1. ASSUME NEW c \in Given, settled'[c.account] = None PROVE c.key # seedHexKey["site"]
    <3>1. CASE settled[c.account] = None
      BY <3>1, LogoutHoldsForGiven DEF StorageInv
    <3>2. CASE settled[c.account] # None
      <4>1. window[w].alone /\ c.account = window[w].about /\ window[w].level = None
        BY <1>2, <1>5, <2>1, <3>2
      <4> QED BY <1>1, <1>6, <4>1 DEF WindowInv, At
    <3> QED BY <3>1, <3>2
  <2> QED BY <1>2, <1>4, <2>1 DEF LogoutHolds, Given, Working
<1>12. QuietWritesHold'
  <2>1. window[w].alone =>
            /\ levels[window[w].about] = window[w].level
            /\ window[w].level # None => window[w].about \in users
    BY <1>1, <1>6 DEF WindowInv, At
  <2> QED BY <1>2, <1>5, <2>1 DEF StorageInv, QuietWritesHold
<1> QED BY <1>7, <1>8, <1>9, <1>10, <1>11, <1>12 DEF StorageInv

(***************************************************************************)
(* A click opens a window                                                  *)
(***************************************************************************)

\* What is settled can only be unsettled, and what is known of the windows that
\* were at work stays known; what the new window has read is to be shown.
LEMMA ClickKeeps ==
    ASSUME StorageInv, NEW w \in Window,
           NEW op \in {"log-in", "load-seed", "logout"}, NEW about \in Account,
           NEW level \in Nat \cup {NoLevel}, NEW step \in {"setUsers", "setLevels"},
           NEW read \in [users : SUBSET Account, levels : [Account -> Nat \cup {NoLevel}],
                         sealing : [account : Account, level : AccessLevel, key : Nat]],
           Click(w, op, about, level, step, read),
           settled' \in [Account -> Nat \cup {NoLevel}],
           \A a \in Account : settled'[a] \in {settled[a], NoLevel},
           IF step = "setUsers"
           THEN \A a \in Account : settled'[a] \notin {NoLevel, None} => a \in read.users
           ELSE /\ level # NoLevel /\ (op = "logout" <=> level = None)
                /\ op # "logout" => about \in users
                /\ settled'[about] = NoLevel
                /\ \A a \in Account : settled'[a] # NoLevel => read.levels[a] = settled'[a]
    PROVE  StorageInv'
<1> DEFINE r == [at |-> step, op |-> op, about |-> about, level |-> level, read |-> read,
                 alone |-> Working = {}, todo |-> {}, made |-> {}]
<1>1. TypeOK /\ window[w] = Closed /\ w \notin Working
  BY DEF Click, StorageInv, Working
<1>2. /\ window' = [v \in Window |-> IF v = w THEN r
                    ELSE IF v \in Working THEN [window[v] EXCEPT !.alone = FALSE] ELSE Closed]
      /\ UNCHANGED <<mustUseStorageAccess, storageVars, iframeVars, credentials, revoked>>
      /\ UNCHANGED <<users, levels, seedHexKey, nextKey>>
  BY DEF Click, Working, storageVars
<1>3. r \in OpenWindow
  BY DEF OpenWindow
<1>4. /\ r.at = step /\ r.op = op /\ r.about = about /\ r.level = level /\ r.read = read
      /\ r.alone = (Working = {}) /\ r.made = {}
  OBVIOUS
<1> HIDE DEF r
<1>5. window'[w] = r /\ r.at # "closed"
  BY <1>2, <1>4
<1>6. ASSUME NEW v \in Working
      PROVE  /\ v # w /\ window'[v] \in OpenWindow
             /\ window'[v].at = window[v].at /\ window'[v].op = window[v].op
             /\ window'[v].about = window[v].about /\ window'[v].level = window[v].level
             /\ window'[v].read = window[v].read /\ window'[v].made = window[v].made
             /\ window'[v].alone = FALSE
  <2>1. v # w /\ v \in Window /\ window'[v] = [window[v] EXCEPT !.alone = FALSE]
    BY <1>1, <1>2 DEF Working
  <2>2. window[v] \in OpenWindow
    BY <1>1, <2>1, WorkingIsOpen
  <2> QED BY <2>1, <2>2 DEF OpenWindow
<1>7. \A v \in Window : v \notin Working /\ v # w => window'[v] = Closed
  BY <1>2
<1>8. Working' = Working \cup {w}
  <2>1. \A v \in Working : window'[v] # Closed
    BY <1>6 DEF OpenWindow, Closed
  <2>2. window'[w] # Closed
    BY <1>3, <1>5 DEF OpenWindow, Closed
  <2> QED BY <1>7, <2>1, <2>2 DEF Working
<1>9. Given' = Given
  <2>1. ASSUME NEW c PROVE c \in Given' <=> c \in Given
    <3>1. c \in Given' <=> c \in credentials' \/ \E v \in Working' : c \in window'[v].made
      BY DEF Given
    <3> QED BY <1>2, <1>4, <1>5, <1>6, <1>8, <3>1, GivenMembers
  <2> QED BY <2>1
<1>10. TypeOK'
  <2>1. window' \in [Window -> OpenWindow \cup {Closed}]
    <3>1. \A v \in Window : window'[v] \in OpenWindow \cup {Closed}
      BY <1>3, <1>5, <1>6, <1>7
    <3> QED BY <1>2, <3>1
  <2> QED BY <1>1, <1>2, <2>1 DEF TypeOK, iframeVars
<1>11. KeysInv'
  <2>1. ASSUME NEW v \in Window, At(v, "putKey")' PROVE window'[v].read.sealing.key < nextKey'
    <3>1. v \in Working
      BY <1>4, <1>5, <1>7, <2>1 DEF At, Closed
    <3> QED BY <1>2, <1>6, <2>1, <3>1 DEF StorageInv, KeysInv, At
  <2> QED BY <1>2, <1>9, <2>1 DEF StorageInv, KeysInv
<1>12. RequestInv'
  BY <1>2, RequestKept
<1>13. ASSUME NEW v \in Working PROVE WindowInv(v)'
  <2>1. WindowInv(v) /\ v \in Window
    BY DEF StorageInv, Working
  <2>2. window[v] \in OpenWindow
    BY <1>1, <2>1, WorkingIsOpen
  <2>3. /\ window[v].about \in Account /\ window[v].read.sealing.account \in Account
    BY <2>2 DEF OpenWindow
  <2>4. settled'[window[v].read.sealing.account] # None \/ settled[window[v].read.sealing.account] = None
    BY <2>3, LevelAssumption DEF None
  <2>5. settled[window[v].about] = NoLevel => settled'[window[v].about] = NoLevel
    BY <2>3
  <2>6. \A a \in Account : settled'[a] # NoLevel => settled'[a] = settled[a]
    OBVIOUS
  <2>7. IF At(v, "setUsers")'
        THEN \A a \in Account : settled'[a] \notin {NoLevel, None} => a \in window'[v].read.users
        ELSE /\ window'[v].level # NoLevel
             /\ window'[v].op = "logout" <=> window'[v].level = None
    BY <1>6, <2>1, <2>6 DEF WindowInv, At
  <2>8. At(v, "setLevels")' =>
           /\ settled'[window'[v].about] = NoLevel
           /\ \A a \in Account : settled'[a] # NoLevel => window'[v].read.levels[a] = settled'[a]
    BY <1>6, <2>1, <2>5, <2>6 DEF WindowInv, At
  <2>9. At(v, "getKey")' \/ At(v, "putKey")' =>
           /\ window'[v].read.sealing.level # None
           /\ settled'[window'[v].read.sealing.account] # None
    BY <1>6, <2>1, <2>4 DEF WindowInv, At
  <2> QED BY <1>6, <2>7, <2>8, <2>9 DEF WindowInv
<1>14. WindowInv(w)'
  <2>1. window'[w].alone => \A v \in Working' : v = w
    BY <1>4, <1>5, <1>8
  <2> QED BY <1>2, <1>4, <1>5, <2>1 DEF WindowInv, At
<1>15. LogoutHolds'
  <2>1. \A c \in Given : settled'[c.account] = None => c.key # seedHexKey["site"]
    <3>1. \A c \in Given : c.account \in Account
      BY <1>1, GivenTyped DEF Credential
    <3> QED BY <3>1, LogoutHoldsForGiven, LevelAssumption DEF StorageInv, None
  <2> QED BY <1>2, <1>9, <2>1 DEF LogoutHolds, Given, Working
<1>16. QuietWritesHold'
  BY <1>2 DEF StorageInv, QuietWritesHold
<1> QED BY <1>8, <1>10, <1>11, <1>12, <1>13, <1>14, <1>15, <1>16 DEF StorageInv

LEMMA NothingReadTyped ==
    ASSUME NEW a \in Account, TypeOK
    PROVE  /\ [NothingRead(a) EXCEPT !.levels = levels] \in
               [users : SUBSET Account, levels : [Account -> Nat \cup {NoLevel}],
                sealing : [account : Account, level : AccessLevel, key : Nat]]
           /\ [NothingRead(a) EXCEPT !.levels = levels].levels = levels
           /\ [NothingRead(a) EXCEPT !.users = users] \in
               [users : SUBSET Account, levels : [Account -> Nat \cup {NoLevel}],
                sealing : [account : Account, level : AccessLevel, key : Nat]]
           /\ [NothingRead(a) EXCEPT !.users = users].users = users
BY DEF NothingRead, TypeOK, AccessLevel, None, NoKey

LEMMA SelectAccountKeeps == ASSUME StorageInv, NEW w \in Window, SelectAccount(w) PROVE StorageInv'
<1>1. TypeOK /\ QuietWritesHold
  BY DEF StorageInv
<1>2. PICK a \in users, level \in AccessLevelRequest :
         /\ Click(w, "log-in", a, level, "setLevels", [NothingRead(a) EXCEPT !.levels = levels])
         /\ settled' = [settled EXCEPT ![a] = NoLevel]
  BY DEF SelectAccount
<1>3. a \in Account /\ level \in Nat /\ level # None
  BY <1>1, LevelAssumption DEF TypeOK
<1>4. /\ settled' \in [Account -> Nat \cup {NoLevel}]
      /\ \A b \in Account : settled'[b] \in {settled[b], NoLevel}
      /\ settled'[a] = NoLevel
      /\ \A b \in Account : settled'[b] # NoLevel => levels[b] = settled'[b]
  BY <1>1, <1>2, <1>3 DEF TypeOK, QuietWritesHold
<1> DEFINE read == [NothingRead(a) EXCEPT !.levels = levels]
<1>5. /\ read \in [users : SUBSET Account, levels : [Account -> Nat \cup {NoLevel}],
                   sealing : [account : Account, level : AccessLevel, key : Nat]]
      /\ read.levels = levels
      /\ Click(w, "log-in", a, level, "setLevels", read)
  BY <1>1, <1>2, <1>3, NothingReadTyped
<1> HIDE DEF read
<1> QED BY <1>3, <1>4, <1>5, ClickKeeps, LevelAssumption

LEMMA LogoutSubmitKeeps == ASSUME StorageInv, NEW w \in Window, LogoutSubmit(w) PROVE StorageInv'
<1>1. TypeOK /\ QuietWritesHold
  BY DEF StorageInv
<1>2. PICK c \in credentials :
         /\ Click(w, "logout", c.account, None, "setLevels",
                  [NothingRead(c.account) EXCEPT !.levels = levels])
         /\ settled' = [settled EXCEPT ![c.account] = NoLevel]
  BY DEF LogoutSubmit
<1> DEFINE a == c.account
           read == [NothingRead(a) EXCEPT !.levels = levels]
<1>3. a \in Account
  BY <1>1 DEF TypeOK, Credential
<1>4. /\ settled' \in [Account -> Nat \cup {NoLevel}]
      /\ \A b \in Account : settled'[b] \in {settled[b], NoLevel}
      /\ settled'[a] = NoLevel
      /\ \A b \in Account : settled'[b] # NoLevel => levels[b] = settled'[b]
  BY <1>1, <1>2, <1>3 DEF TypeOK, QuietWritesHold
<1>5. /\ read \in [users : SUBSET Account, levels : [Account -> Nat \cup {NoLevel}],
                   sealing : [account : Account, level : AccessLevel, key : Nat]]
      /\ read.levels = levels
      /\ Click(w, "logout", a, None, "setLevels", read)
  BY <1>1, <1>2, <1>3, NothingReadTyped
<1>6. None \in Nat /\ None # NoLevel
  BY LevelAssumption DEF None
<1> HIDE DEF read, a
<1> QED BY <1>3, <1>4, <1>5, <1>6, ClickKeeps

LEMMA ClickLoadAccountKeeps ==
    ASSUME StorageInv, NEW w \in Window, ClickLoadAccount(w) PROVE StorageInv'
<1>1. TypeOK /\ QuietWritesHold
  BY DEF StorageInv
<1>2. PICK a \in Account :
         Click(w, "load-seed", a, NoLevel, "setUsers", [NothingRead(a) EXCEPT !.users = users])
  BY DEF ClickLoadAccount
<1>3. /\ settled' \in [Account -> Nat \cup {NoLevel}]
      /\ \A b \in Account : settled'[b] \in {settled[b], NoLevel}
      /\ \A b \in Account : settled'[b] \notin {NoLevel, None} => b \in users
  BY <1>1 DEF ClickLoadAccount, TypeOK, QuietWritesHold
<1> DEFINE read == [NothingRead(a) EXCEPT !.users = users]
<1>4. /\ read \in [users : SUBSET Account, levels : [Account -> Nat \cup {NoLevel}],
                   sealing : [account : Account, level : AccessLevel, key : Nat]]
      /\ read.users = users
      /\ Click(w, "load-seed", a, NoLevel, "setUsers", read)
  BY <1>1, <1>2, NothingReadTyped
<1> HIDE DEF read
<1> QED BY <1>3, <1>4, ClickKeeps

(***************************************************************************)
(* The theorems                                                            *)
(***************************************************************************)

LEMMA InitEstablishes == Init => StorageInv
<1> SUFFICES ASSUME Init PROVE StorageInv
  OBVIOUS
<1>1. Working = {} /\ Given = {}
  BY DEF Init, Working, Given
<1>2. TypeOK
  BY DEF Init, TypeOK, NoKey, Closed
<1>3. KeysInv
  BY <1>1 DEF Init, KeysInv, At, Closed, NoKey, Jar
<1>4. RequestInv
  BY DEF Init, RequestInv
<1>5. LogoutHolds /\ QuietWritesHold
  BY LevelAssumption DEF Init, LogoutHolds, QuietWritesHold, None
<1> QED BY <1>1, <1>2, <1>3, <1>4, <1>5 DEF StorageInv

LEMMA NextKeeps == StorageInv /\ [Next]_vars => StorageInv'
<1> SUFFICES ASSUME StorageInv, [Next]_vars PROVE StorageInv'
  OBVIOUS
<1>1. CASE IframeStep
  BY <1>1, TapToUnlockKeeps, RequestStorageAccessKeeps, StorageGrantedKeeps, ReloadTabKeeps,
     SendRequestKeeps, RefuseLevelKeeps, IframeGetKeyKeeps, IframePutKeyKeeps,
     IframeApproveKeeps, IframeSignKeeps DEF IframeStep
<1>2. ASSUME NEW w \in Window, WindowStep(w) PROVE StorageInv'
  BY <1>2, SelectAccountKeeps, ClickLoadAccountKeeps, LogoutSubmitKeeps, SetUsersKeeps,
     SetLevelsKeeps, ResetKeyKeeps, GetPrivateUsersKeeps, AccountLevelKeeps, GetKeyKeeps,
     PutKeyKeeps, FinishFlowKeeps DEF WindowStep
<1>3. CASE UNCHANGED vars
  <2>1. RequestInv'
    BY <1>3 DEF vars, iframeVars, StorageInv, RequestInv, storageVars
  <2> QED
    BY <1>3, <2>1, SilentIframe DEF vars, iframeVars, StorageInv, TypeOK
<1> QED BY <1>1, <1>2, <1>3 DEF Next

\* What is known of storage, windows and iframe holds throughout.
THEOREM StorageInvHolds == Spec => []StorageInv
BY InitEstablishes, NextKeeps, PTL DEF Spec

\* No jar ever holds a key that a logout replaced, for any number of windows,
\* accounts and keys (crypto.service.ts, seedHexEncryptionKey).
THEOREM RevokedStaysClosed == Spec => []RevokedNeverOpens
<1>1. StorageInv => RevokedNeverOpens
  BY DEF StorageInv, KeysInv, RevokedNeverOpens
<1> QED BY <1>1, StorageInvHolds, PTL

\* After an undisturbed logout no credential of the account opens, though other
\* windows and the iframe go on reading and writing (logout.component.ts).
THEOREM LogoutStays == Spec => []LogoutHolds
<1>1. StorageInv => LogoutHolds
  BY DEF StorageInv
<1> QED BY <1>1, StorageInvHolds, PTL

\* Undisturbed writes outlast the windows that write all of what they read
\* (account.service.ts, setAccessLevel and addPrivateUser).
THEOREM QuietWritesStay == Spec => []QuietWritesHold
<1>1. StorageInv => QuietWritesHold
  BY DEF StorageInv
<1> QED BY <1>1, StorageInvHolds, PTL

\* A step of a window, or one that leaves all as it is, answers no request.
LEMMA WindowsAnswerNothing ==
    ASSUME (\E w \in Window : WindowStep(w)) \/ UNCHANGED vars
    PROVE  request' = request /\ answer' = answer
BY DEF WindowStep, SelectAccount, ClickLoadAccount, LogoutSubmit, Click, SetUsers, SetLevels,
   ResetKey, GetPrivateUsers, AccountLevel, GetKey, PutKey, FinishFlow, vars, iframeVars

\* What a step of the iframe answers to a request.
LEMMA IframeAnswers ==
    ASSUME StorageInv, IframeStep, request # NoRequest, request' = NoRequest, answer' # "none"
    PROVE  \/ RefuseLevel
           \/ /\ request.at = "check" /\ answer' = "approvalRequired"
              /\ ~(request.read = request.credential.key /\ seedHexKey[IframeJar] # NoKey)
           \/ IframeSign
<1>1. request \in Request
  BY DEF StorageInv, TypeOK
<1>2. ~SendRequest /\ ~ReloadTab
  BY DEF SendRequest, ReloadTab
<1>3. ~TapToUnlock /\ ~RequestStorageAccess /\ ~StorageGranted
  BY DEF TapToUnlock, RequestStorageAccess, StorageGranted
<1>4. ~IframeGetKey
  <2> SUFFICES ASSUME IframeGetKey PROVE FALSE
    OBVIOUS
  <2>1. request' = [request EXCEPT !.at = "putKey", !.read = seedHexKey[IframeJar]]
    BY DEF IframeGetKey
  <2>2. seedHexKey[IframeJar] \in Nat
    BY DEF StorageInv, TypeOK, IframeJar, Jar
  <2>3. request' \in Request
    BY <1>1, <2>1, <2>2 DEF Request
  <2> QED BY <2>3, RequestAssumption
<1>5. ~IframePutKey
  <2> SUFFICES ASSUME IframePutKey PROVE FALSE
    OBVIOUS
  <2>1. nextKey \in Nat
    BY DEF StorageInv, TypeOK
  <2>2. \/ request' = [request EXCEPT !.at = "check", !.read = IF @ = NoKey THEN nextKey ELSE @]
        \/ request' = [request EXCEPT !.at = "check"]
    BY DEF IframePutKey
  <2>3. request' \in Request
    BY <1>1, <2>1, <2>2 DEF Request
  <2> QED BY <2>3, RequestAssumption
<1>6. IframeApprove =>
        /\ request.at = "check" /\ answer' = "approvalRequired"
        /\ ~(request.read = request.credential.key /\ seedHexKey[IframeJar] # NoKey)
  <2> SUFFICES ASSUME IframeApprove,
                      request.read = request.credential.key, seedHexKey[IframeJar] # NoKey
               PROVE  FALSE
    BY DEF IframeApprove, Respond
  <2>1. request' = [request EXCEPT !.at = "sign", !.read = NoKey]
    BY DEF IframeApprove
  <2>2. [request EXCEPT !.at = "sign", !.read = NoKey] \in Request
    BY <1>1 DEF Request, NoKey
  <2> QED BY <2>1, <2>2, RequestAssumption
<1> QED BY <1>2, <1>3, <1>4, <1>5, <1>6 DEF IframeStep

\* The iframe that the app knows to have access signs what was sealed under the
\* site's key (embed.component.ts).
THEOREM GrantedMeet == Spec => GrantedKeysMeet
<1> DEFINE Meets ==
        request # NoRequest /\ request' = NoRequest /\ answer' # "none" =>
            LET c == request.credential
            IN  request.meet /\ c.key = seedHexKey["site"] /\ c.level >= request.required =>
                    answer' = "signed"
<1>1. ASSUME StorageInv, [Next]_vars PROVE Meets
  <2> SUFFICES ASSUME request # NoRequest, request' = NoRequest, answer' # "none",
                      request.meet, request.credential.key = seedHexKey["site"],
                      request.credential.level >= request.required
               PROVE  answer' = "signed"
    OBVIOUS
  <2>1. request \in Request /\ IframeJar = "site" /\ request.credential.key # NoKey
    BY <1>1, MeetsAtSite DEF StorageInv, TypeOK, Request, Credential
  <2>2. IframeStep
    BY <1>1, WindowsAnswerNothing DEF Next
  <2>3. ~RefuseLevel
    BY <2>1 DEF RefuseLevel, Request, Credential, AccessLevel, ApproveAll, Full
  <2>4. request.at = "check" => request.read = request.credential.key
    BY <1>1 DEF StorageInv, RequestInv
  <2>5. IframeSign
    BY <1>1, <2>1, <2>2, <2>3, <2>4, IframeAnswers
  <2> QED BY <2>1, <2>5 DEF IframeSign, Respond
<1>2. StorageInv /\ [Next]_vars => [Meets]_vars
  BY <1>1
<1> HIDE DEF Meets
<1>3. Spec => [][Meets]_vars
  BY <1>2, StorageInvHolds, PTL DEF Spec
<1> QED BY <1>3 DEF GrantedKeysMeet, Meets

\* Nothing is signed with a level that is none of the enumeration or too low
\* (account.service.ts, getAccessLevel; identity.service.ts, hasAccessLevel).
THEOREM StrayLevelsStaySilent == Spec => StrayLevelsSignNothing
<1> DEFINE Silent ==
        answer = "pending" /\ answer' = "signed" =>
            request.credential.level \in AccessLevel
            /\ request.credential.level >= request.required
<1>1. ASSUME StorageInv, [Next]_vars PROVE Silent
  <2> SUFFICES ASSUME answer = "pending", answer' = "signed"
               PROVE  request.credential.level \in AccessLevel
                      /\ request.credential.level >= request.required
    OBVIOUS
  <2>1. IframeStep
    BY <1>1, WindowsAnswerNothing DEF Next
  <2>2. IframeSign
    BY <2>1 DEF IframeStep, TapToUnlock, RequestStorageAccess, StorageGranted, ReloadTab,
       SendRequest, RefuseLevel, IframeGetKey, IframePutKey, IframeApprove, Respond
  <2>3. request \in Request /\ request # NoRequest /\ request.at = "sign"
    BY <1>1, <2>2 DEF IframeSign, StorageInv, TypeOK
  <2> QED BY <1>1, <2>3 DEF StorageInv, RequestInv, Request, Credential
<1>2. StorageInv /\ [Next]_vars => [Silent]_vars
  BY <1>1
<1> HIDE DEF Silent
<1>3. Spec => [][Silent]_vars
  BY <1>2, StorageInvHolds, PTL DEF Spec
<1> QED BY <1>3 DEF StrayLevelsSignNothing, Silent
=============================================================================
