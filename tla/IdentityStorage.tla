---------------------------- MODULE IdentityStorage ----------------------------
(***************************************************************************)
(* The storage of the identity origin as the windows and the iframe of one *)
(* host see it: one read or write at a time.  Windows may run in different *)
(* processes, so a window that reads a map, changes it and writes it back  *)
(* may do so while another does the same (account.service, crypto.service).*)
(* In Safari keys are cookies, and the iframe has cookies of its own, or   *)
(* none, until the user taps it and the browser grants it access.          *)
(* Module IdentityVault has the same operations, each as one step.         *)
(***************************************************************************)
EXTENDS Naturals, FiniteSets

CONSTANTS
    Window,              \* identity windows of the host that may be open
    Account,
    AccessLevelRequest,  \* levels asked for, of the enumeration or not
    NoRequest, NoLevel,
    MaxKeys              \* bound: keys generated before a logout begins

None         == 0
ApproveAll   == 2
ApproveLarge == 3
Full         == 4
AccessLevel  == 0 .. 4

ASSUME LevelAssumption == AccessLevelRequest \subseteq Nat \ {None} /\ NoLevel \notin Nat
ASSUME BoundAssumption == MaxKeys \in Nat

NoKey == 0
Jar   == {"site", "iframe"}  \* the site's own store, and the one an iframe is given

\* What a host is given for an account: its level, and the key its seed is sealed
\* under; and what its app asks of the iframe with it.
Credential == [account : Account, level : AccessLevel \ {None}, key : Nat \ {NoKey}]
Request    == [credential : Credential, required : {ApproveAll, Full},
               at : {"getKey", "putKey", "check", "sign"}, read : Nat, meet : BOOLEAN]
ASSUME RequestAssumption == NoRequest \notin Request

VARIABLES
    mustUseStorageAccess,  \* the browser is Safari
    users, levels,         \* as stored
    seedHexKey,            \* the key in every jar
    nextKey,
    window,                \* what every window is doing
    storageAccess,         \* of the iframe: none, asked, granted
    storageGranted,        \* the app was told
    credentials,           \* all that the host was ever given
    request,               \* the app's request at the iframe, and how far it is
    answer,                \* to the last request
    revoked,               \* keys that a logout has replaced
    settled                \* what the last log-in or logout of an account
                           \* stored, if no other window was at work meanwhile

storageVars == <<users, levels, seedHexKey, nextKey>>
iframeVars  == <<storageAccess, storageGranted, request, answer>>
history     == <<revoked, settled>>
vars == <<mustUseStorageAccess, storageVars, window, iframeVars, credentials, history>>

----------------------------------------------------------------------------
(* Windows *)

Closed == [at |-> "closed"]

\* What a window that is at work has read: it will write all of it back, but
\* for its own change.  sealing is the account it makes a credential of.
NothingRead(about) ==
    [users |-> {}, levels |-> [a \in Account |-> NoLevel],
     sealing |-> [account |-> about, level |-> None, key |-> NoKey]]

\* A click: the handler starts with reading what it will change.  alone tells
\* whether no other window is at work from here to the end.
Click(w, op, about, level, step, read) ==
    /\ window[w] = Closed
    /\ LET others == {v \in Window : window[v] # Closed}
       IN  window' = [v \in Window |->
               IF v = w
               THEN [at |-> step, op |-> op, about |-> about, level |-> level, read |-> read,
                     alone |-> others = {}, todo |-> {}, made |-> {}]
               ELSE IF v \in others THEN [window[v] EXCEPT !.alone = FALSE]
               ELSE Closed]
    /\ UNCHANGED <<mustUseStorageAccess, storageVars, iframeVars, credentials, revoked>>

SelectAccount(w) ==
    \E a \in users, level \in AccessLevelRequest :
        /\ Click(w, "log-in", a, level, "setLevels", [NothingRead(a) EXCEPT !.levels = levels])
        /\ settled' = [settled EXCEPT ![a] = NoLevel]

LogoutSubmit(w) ==
    \E c \in credentials :
        /\ nextKey <= MaxKeys
        /\ Click(w, "logout", c.account, None, "setLevels",
                 [NothingRead(c.account) EXCEPT !.levels = levels])
        /\ settled' = [settled EXCEPT ![c.account] = NoLevel]

ClickLoadAccount(w) ==
    \E a \in Account :
        /\ Click(w, "load-seed", a, NoLevel, "setUsers", [NothingRead(a) EXCEPT !.users = users])
        /\ UNCHANGED settled

At(w, step) == window[w].at = step

GoOn(w, step) ==
    window' = [window EXCEPT ![w].at = step, ![w].read = NothingRead(window[w].about)]

\* addPrivateUser: a window that has loaded an account goes on to the log-in
\* page, which here opens anew.
SetUsers(w) ==
    /\ At(w, "setUsers")
    /\ users' = window[w].read.users \cup {window[w].about}
    /\ window' = [window EXCEPT ![w] = Closed]
    /\ UNCHANGED <<mustUseStorageAccess, levels, seedHexKey, nextKey, iframeVars,
                   credentials, history>>

\* Faulty variant: the host's levels start empty each time.
WithLevelAfresh(read, a, level) == [b \in Account |-> IF b = a THEN level ELSE NoLevel]

\* setAccessLevel
WithLevel(read, a, level) == [read EXCEPT ![a] = level]

SetLevels(w) ==
    /\ At(w, "setLevels")
    /\ levels' = WithLevel(window[w].read.levels, window[w].about, window[w].level)
    /\ GoOn(w, IF window[w].op = "logout" THEN "resetKey" ELSE "getPrivateUsers")
    /\ UNCHANGED <<mustUseStorageAccess, users, seedHexKey, nextKey, iframeVars,
                   credentials, history>>

\* Faulty variant: there is a key, so it stays.
ResetKeyIfNone(w) ==
    /\ At(w, "resetKey")
    /\ GoOn(w, "getPrivateUsers")
    /\ UNCHANGED <<mustUseStorageAccess, storageVars, iframeVars, credentials, history>>

\* seedHexEncryptionKey with a reset: whatever the key was, it is replaced.
ResetKey(w) ==
    /\ At(w, "resetKey")
    /\ seedHexKey' = [seedHexKey EXCEPT !["site"] = nextKey]
    /\ nextKey' = nextKey + 1
    /\ revoked' = revoked \cup ({seedHexKey["site"]} \ {NoKey})
    /\ GoOn(w, "getPrivateUsers")
    /\ UNCHANGED <<mustUseStorageAccess, users, levels, iframeVars, credentials, settled>>

\* getEncryptedUsers: the accounts first, then for one after the other its
\* level and the key.
GetPrivateUsers(w) ==
    /\ At(w, "getPrivateUsers")
    /\ window' = [window EXCEPT ![w].at = "getAccessLevel", ![w].todo = users]
    /\ UNCHANGED <<mustUseStorageAccess, storageVars, iframeVars, credentials, history>>

\* Faulty variant: any level counts that is not None.
GetAccessLevelUnfiltered(a) == IF levels[a] = NoLevel THEN None ELSE levels[a]

GetAccessLevel(a) == IF levels[a] \in AccessLevel THEN levels[a] ELSE None

AccountLevel(w) ==
    /\ At(w, "getAccessLevel")
    /\ \E a \in window[w].todo :
           \/ /\ GetAccessLevel(a) = None
              /\ window' = [window EXCEPT ![w].todo = @ \ {a}]
           \/ /\ GetAccessLevel(a) # None
              /\ window' = [window EXCEPT ![w].at = "getKey",
                     ![w].read.sealing = [account |-> a, level |-> GetAccessLevel(a), key |-> NoKey]]
    /\ UNCHANGED <<mustUseStorageAccess, storageVars, iframeVars, credentials, history>>

GetKey(w) ==
    /\ At(w, "getKey")
    /\ window' = [window EXCEPT ![w].at = "putKey", ![w].read.sealing.key = seedHexKey["site"]]
    /\ UNCHANGED <<mustUseStorageAccess, storageVars, iframeVars, credentials, history>>

\* Faulty variant: a key that was found is written back.
KeyToPutAlways(found) == IF found = NoKey THEN nextKey ELSE found

\* The key to write after one was found or not: none if it was found.
KeyToPut(found) == IF found = NoKey THEN nextKey ELSE NoKey

Put(jar, found) ==
    IF KeyToPut(found) = NoKey THEN UNCHANGED <<seedHexKey, nextKey>>
    ELSE /\ seedHexKey' = [seedHexKey EXCEPT ![jar] = KeyToPut(found)]
         /\ nextKey' = IF found = NoKey THEN nextKey + 1 ELSE nextKey

PutKey(w) ==
    /\ At(w, "putKey")
    /\ LET sealing == window[w].read.sealing
       IN  /\ Put("site", sealing.key)
           /\ window' = [window EXCEPT ![w].at = "getAccessLevel",
                  ![w].read = NothingRead(window[w].about),
                  ![w].todo = @ \ {sealing.account},
                  ![w].made = @ \cup
                      {IF sealing.key = NoKey THEN [sealing EXCEPT !.key = nextKey] ELSE sealing}]
    /\ UNCHANGED <<mustUseStorageAccess, users, levels, iframeVars, credentials, history>>

\* login: the app takes the credentials and closes the window.
FinishFlow(w) ==
    /\ At(w, "getAccessLevel")
    /\ window[w].todo = {}
    /\ credentials' = credentials \cup window[w].made
    /\ settled' = IF window[w].alone
                  THEN [settled EXCEPT ![window[w].about] = window[w].level] ELSE settled
    /\ window' = [window EXCEPT ![w] = Closed]
    /\ UNCHANGED <<mustUseStorageAccess, storageVars, iframeVars, revoked>>

----------------------------------------------------------------------------
(* The iframe *)

IframeJar == IF mustUseStorageAccess /\ storageAccess # "granted" THEN "iframe" ELSE "site"

\* Faulty variant: the app is told before the browser has granted anything.
TapToUnlockAtOnce ==
    /\ mustUseStorageAccess /\ storageAccess = "none"
    /\ storageAccess' = "asked"
    /\ storageGranted' = TRUE
    /\ UNCHANGED <<mustUseStorageAccess, storageVars, window, credentials, request, answer, history>>

TapToUnlock ==
    /\ mustUseStorageAccess /\ storageAccess = "none"
    /\ storageAccess' = "asked"
    /\ UNCHANGED <<mustUseStorageAccess, storageVars, window, credentials, storageGranted,
                   request, answer, history>>

\* The browser grants it, or refuses and nothing more happens.
RequestStorageAccess ==
    /\ storageAccess = "asked"
    /\ storageAccess' \in {"granted", "none"}
    /\ UNCHANGED <<mustUseStorageAccess, storageVars, window, credentials, storageGranted,
                   request, answer, history>>

StorageGranted ==
    /\ storageAccess = "granted" /\ ~storageGranted
    /\ storageGranted' = TRUE
    /\ UNCHANGED <<mustUseStorageAccess, storageVars, window, credentials, storageAccess,
                   request, answer, history>>

\* The app's tab is loaded anew, and its iframe with it.
ReloadTab ==
    /\ storageAccess' = "none"
    /\ storageGranted' = ~mustUseStorageAccess
    /\ request' = NoRequest
    /\ answer' = "none"
    /\ UNCHANGED <<mustUseStorageAccess, storageVars, window, credentials, history>>

\* The app asks for what takes the required level.  meet tells that it knew the
\* iframe to have access, and the credential's key was the site's.
SendRequest ==
    /\ request = NoRequest
    /\ \E c \in credentials, required \in {ApproveAll, Full} :
           request' = [credential |-> c, required |-> required, at |-> "getKey", read |-> NoKey,
                       meet |-> storageGranted /\ c.key = seedHexKey["site"]]
    /\ answer' = "pending"
    /\ UNCHANGED <<mustUseStorageAccess, storageVars, window, storageAccess, storageGranted,
                   credentials, history>>

Respond(what) ==
    /\ answer' = what
    /\ request' = NoRequest
    /\ UNCHANGED <<mustUseStorageAccess, storageVars, window, storageAccess, storageGranted,
                   credentials, history>>

\* A level too low: the key is not read, but the answer is the same whether or
\* not there is one.
RefuseLevel ==
    /\ request # NoRequest /\ request.at = "getKey"
    /\ request.credential.level < request.required
    /\ Respond("approvalRequired")

IframeGetKey ==
    /\ request # NoRequest /\ request.at = "getKey"
    /\ request.credential.level >= request.required
    /\ request' = [request EXCEPT !.at = "putKey", !.read = seedHexKey[IframeJar]]
    /\ UNCHANGED <<mustUseStorageAccess, storageVars, window, storageAccess, storageGranted,
                   answer, credentials, history>>

\* A key that was not found is generated.  An iframe without access may lose
\* what it writes; what it decrypts is garbage all the same.
IframePutKey ==
    /\ request # NoRequest /\ request.at = "putKey"
    /\ \/ /\ Put(IframeJar, request.read)
          /\ request' = [request EXCEPT !.at = "check",
                             !.read = IF @ = NoKey THEN nextKey ELSE @]
       \/ /\ IframeJar = "iframe" /\ request.read = NoKey
          /\ request' = [request EXCEPT !.at = "check"]
          /\ UNCHANGED <<seedHexKey, nextKey>>
    /\ UNCHANGED <<mustUseStorageAccess, users, levels, window, storageAccess, storageGranted,
                   answer, credentials, history>>

\* The HMAC proves the level if the seed was opened; then the key is looked for.
IframeApprove ==
    /\ request # NoRequest /\ request.at = "check"
    /\ IF request.read = request.credential.key /\ seedHexKey[IframeJar] # NoKey
       THEN /\ request' = [request EXCEPT !.at = "sign", !.read = NoKey]
            /\ UNCHANGED <<mustUseStorageAccess, storageVars, window, storageAccess,
                           storageGranted, answer, credentials, history>>
       ELSE Respond("approvalRequired")

\* The seed is opened once more to sign, with the key that is there by now.
IframeSign ==
    /\ request # NoRequest /\ request.at = "sign"
    /\ Respond(IF seedHexKey[IframeJar] = request.credential.key THEN "signed" ELSE "garbage")

----------------------------------------------------------------------------
Init ==
    /\ mustUseStorageAccess \in BOOLEAN
    /\ users = {}
    /\ levels = [a \in Account |-> NoLevel]
    /\ seedHexKey = [jar \in Jar |-> NoKey]
    /\ nextKey = 1
    /\ window = [w \in Window |-> Closed]
    /\ storageAccess = "none"
    /\ storageGranted = ~mustUseStorageAccess
    /\ credentials = {}
    /\ request = NoRequest
    /\ answer = "none"
    /\ revoked = {}
    /\ settled = [a \in Account |-> NoLevel]

WindowStep(w) ==
    \/ SelectAccount(w) \/ ClickLoadAccount(w) \/ LogoutSubmit(w)
    \/ SetUsers(w) \/ SetLevels(w) \/ ResetKey(w) \/ GetPrivateUsers(w) \/ AccountLevel(w)
    \/ GetKey(w) \/ PutKey(w) \/ FinishFlow(w)

IframeStep ==
    \/ TapToUnlock \/ RequestStorageAccess \/ StorageGranted \/ ReloadTab \/ SendRequest
    \/ RefuseLevel \/ IframeGetKey \/ IframePutKey \/ IframeApprove \/ IframeSign

Next == IframeStep \/ \E w \in Window : WindowStep(w)

Spec == Init /\ [][Next]_vars

----------------------------------------------------------------------------
(* Properties *)

OpenWindow ==
    [at : {"setUsers", "setLevels", "resetKey", "getPrivateUsers", "getAccessLevel",
           "getKey", "putKey"},
     op : {"log-in", "load-seed", "logout"}, about : Account, level : Nat \cup {NoLevel},
     read : [users : SUBSET Account, levels : [Account -> Nat \cup {NoLevel}],
             sealing : [account : Account, level : AccessLevel, key : Nat]],
     alone : BOOLEAN, todo : SUBSET Account, made : SUBSET Credential]

TypeOK ==
    /\ mustUseStorageAccess \in BOOLEAN
    /\ users \in SUBSET Account
    /\ levels \in [Account -> Nat \cup {NoLevel}]
    /\ seedHexKey \in [Jar -> Nat]
    /\ nextKey \in Nat \ {NoKey}
    /\ window \in [Window -> OpenWindow \cup {Closed}]
    /\ storageAccess \in {"none", "asked", "granted"}
    /\ storageGranted \in BOOLEAN
    /\ credentials \in SUBSET Credential
    /\ request \in Request \cup {NoRequest}
    /\ answer \in {"none", "pending", "signed", "approvalRequired", "garbage"}
    /\ revoked \in SUBSET (Nat \ {NoKey})
    /\ settled \in [Account -> Nat \cup {NoLevel}]

\* However the windows and the iframe interleave, and wherever keys are kept, a
\* key that a logout has replaced is never stored again, so that no credential
\* sealed under it opens (crypto.service.ts, seedHexEncryptionKey).
RevokedNeverOpens == \A jar \in Jar : seedHexKey[jar] \notin revoked

\* After a logout that no other window interfered with, and until the user logs
\* the account in again, no credential of the account opens, whatever windows
\* do to other accounts, one read or write at a time (logout.component.ts).
LogoutHolds ==
    \A c \in credentials \cup UNION {window[w].made : w \in {v \in Window : window[v] # Closed}} :
        settled[c.account] = None => c.key # seedHexKey["site"]

\* What a log-in or logout stored that no other window interfered with stays,
\* with its account, though every window writes back the whole of what it read
\* (account.service.ts, setAccessLevel and addPrivateUser).
QuietWritesHold ==
    \A a \in Account :
        settled[a] # NoLevel =>
            /\ levels[a] = settled[a]
            /\ settled[a] # None => a \in users

\* Once the app was told that its iframe has access, a credential under the
\* site's key signs what its level allows: the iframe reads the keys that the
\* windows write (embed.component.ts, tapToUnlock).
GrantedKeysMeet ==
    [][request # NoRequest /\ request' = NoRequest /\ answer' # "none" =>
          LET c == request.credential
          IN  request.meet /\ c.key = seedHexKey["site"] /\ c.level >= request.required =>
                  answer' = "signed"]_vars

\* A level that is none of the enumeration, as the address of a window may ask
\* for (app.component.ts), is stored but signs nothing.
StrayLevelsSignNothing ==
    [][answer = "pending" /\ answer' = "signed" =>
          request.credential.level \in AccessLevel
          /\ request.credential.level >= request.required]_vars
=============================================================================
