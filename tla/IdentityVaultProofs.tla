------------------------- MODULE IdentityVaultProofs -------------------------
(***************************************************************************)
(* Type correctness of the credential life cycle and its main safety       *)
(* property: whatever credentials are still about, those that work are of  *)
(* accounts logged in at the host that holds them.  From that invariant:   *)
(* what the iframe signs without asking is permitted, keys are replaced by *)
(* logouts only, and the whole implements the promise Consent states.      *)
(***************************************************************************)
EXTENDS IdentityVault, SequenceTheorems, TLAPS

Payload == [users : SUBSET Credential, signedBy : Account \cup {NoAccount}]

----------------------------------------------------------------------------
(* What the operators of the storage return *)

LEMMA LevelType ==
    ASSUME NEW lv \in [Host -> [Account -> AccessLevel]], NEW h \in Host, NEW a \in Account
    PROVE  GetAccessLevel(lv, h, a) \in AccessLevel
BY DEF GetAccessLevel

LEMMA SetLevelType ==
    ASSUME levels \in [Host -> [Account -> AccessLevel]],
           NEW h \in Host, NEW a, NEW level \in AccessLevel
    PROVE  SetAccessLevel(h, a, level) \in [Host -> [Account -> AccessLevel]]
BY DEF SetAccessLevel

\* The key loaded is the stored one or a new one.
LEMMA KeyType ==
    ASSUME seedHexKey \in [Host -> Nat], nextKey \in Key,
           NEW h \in Host, NEW reset \in BOOLEAN
    PROVE  LET key == SeedHexEncryptionKey(h, reset)
           IN  /\ key \in Key
               /\ key = nextKey \/ key = seedHexKey[h]
BY DEF SeedHexEncryptionKey, Key, NoKey

LEMMA StoreKeyType ==
    ASSUME seedHexKey \in [Host -> Nat], nextKey \in Key,
           NEW h \in Host, NEW key \in Key, StoreKey(h, key)
    PROVE  seedHexKey' \in [Host -> Nat] /\ nextKey' \in Key
BY DEF StoreKey, Key, NoKey

LEMMA SealType ==
    ASSUME NEW lv \in [Host -> [Account -> AccessLevel]], NEW us \in SUBSET Account,
           NEW t \in Tab, NEW key \in Key
    PROVE  GetEncryptedUsers(t, us, lv, key) \in SUBSET Credential
<1>1. ASSUME NEW a \in Account  PROVE Seal(a, HostOf[t], lv, key) \in Credential
    <2>1. HostOf[t] \in Host
        BY TabAssumption
    <2>2. GetAccessLevel(lv, HostOf[t], a) \in AccessLevel /\ a.seed \in Seed
        BY <2>1, LevelType DEF Account
    <2>. QED  BY <2>2 DEF Seal, Credential, AccessLevelHmac
<1>. QED  BY <1>1 DEF GetEncryptedUsers, LoggedIn

LEMMA FinishFlowType ==
    ASSUME TypeOK, NEW t \in Tab, NEW us \in SUBSET Account,
           NEW lv \in [Host -> [Account -> AccessLevel]],
           NEW reset \in BOOLEAN, NEW signedBy \in Account \cup {NoAccount},
           FinishFlow(t, us, lv, reset, signedBy),
           users' = us, levels' = lv
    PROVE  TypeOK'
<1> DEFINE key == SeedHexEncryptionKey(HostOf[t], reset)
           given == [users |-> GetEncryptedUsers(t, us, lv, key), signedBy |-> signedBy]
<1> USE DEF TypeOK
<1>1. HostOf[t] \in Host
    BY TabAssumption
<1>2. key \in Key
    BY <1>1, KeyType
<1>3. given \in Payload
    BY <1>2, SealType DEF Payload
<1>4. posted' = [posted EXCEPT ![t] = Append(@, given)]
    BY DEF FinishFlow
<1>5. posted' \in [Tab -> Seq(Payload)]
    <2>1. posted \in [Tab -> Seq(Payload)]
        BY DEF Payload
    <2>2. Append(posted[t], given) \in Seq(Payload)
        BY <1>3, <2>1
    <2>. QED  BY <1>4, <2>1, <2>2
<1>6. seedHexKey' \in [Host -> Nat] /\ nextKey' \in Key
    BY <1>1, <1>2, StoreKeyType DEF FinishFlow
<1>7. UNCHANGED <<window, identityWindow, clientVars, callVars>>
    BY DEF FinishFlow
<1>. QED  BY <1>5, <1>6, <1>7 DEF Payload, clientVars, callVars

----------------------------------------------------------------------------
(* Type correctness *)

LEMMA LaunchType ==
    ASSUME TypeOK, NEW t \in Tab, NEW page \in Page, NEW level \in AccessLevelRequest,
           NEW about \in Account \cup {NoAccount}, Launch(t, page, level, about)
    PROVE  TypeOK'
<1>1. Open(t, page, level, about) \in Window
    BY DEF TypeOK, Open, Window
<1>. QED  BY <1>1 DEF TypeOK, Launch, vaultVars, clientVars, callVars

LEMMA UserStepType ==
    ASSUME TypeOK, NEW t \in Tab, UserStep(t)
    PROVE  TypeOK'
<1>0. HostOf[t] \in Host /\ NetworkOf[t] \in Network
    BY TabAssumption
<1>1. ASSUME NEW page, OnPage(t, page)
      PROVE  window[t] \in Window /\ window[t].level \in AccessLevel
    BY <1>1, RequestAssumption DEF OnPage, TypeOK, Window
<1>2. CASE GoTo(t)
    <2>1. PICK page \in {"load-seed", "sign-up"} :
              window' = [window EXCEPT ![t].page = page, ![t].listed = {}]
        BY <1>2 DEF GoTo
    <2>2. window[t] \in Window
        BY <1>2 DEF GoTo, TypeOK
    <2>3. [window[t] EXCEPT !.page = page, !.listed = {}] \in Window
        BY <2>2 DEF Window, Page
    <2>4. window' = [window EXCEPT ![t] = [window[t] EXCEPT !.page = page, !.listed = {}]]
        BY <2>1 DEF TypeOK
    <2>5. window' \in [Tab -> Window \cup {Closed}]
        BY <2>3, <2>4 DEF TypeOK
    <2>. QED  BY <1>2, <2>5 DEF GoTo, TypeOK, vaultVars, clientVars, callVars
<1>3. CASE CloseWindow(t)
    BY <1>3 DEF CloseWindow, TypeOK, vaultVars, clientVars, callVars
<1>4. CASE SelectAccount(t)
    <2>1. PICK a \in window[t].listed :
              /\ levels' = SetAccessLevel(HostOf[t], a, window[t].level)
              /\ users' = users
              /\ FinishFlow(t, users, levels', FALSE, NoAccount)
        BY <1>4 DEF SelectAccount
    <2>2. levels' \in [Host -> [Account -> AccessLevel]]
        BY <1>0, <1>1, <1>4, <2>1, SetLevelType DEF SelectAccount, TypeOK
    <2>. QED  BY <2>1, <2>2, FinishFlowType DEF TypeOK
<1>5. CASE ClickLoadAccount(t)
    <2>1. PICK s \in Seed :
              /\ users' = users \cup {[seed |-> s, network |-> NetworkOf[t]]}
              /\ window' = [window EXCEPT ![t].page = "log-in",
                                ![t].listed = {a \in users' : a.network = NetworkOf[t]}]
        BY <1>5 DEF ClickLoadAccount
    <2>2. users' \subseteq Account
        BY <1>0, <2>1 DEF TypeOK, Account
    <2>3. window[t] \in Window
        BY <1>1, <1>5 DEF ClickLoadAccount
    <2> DEFINE shown == {a \in users' : a.network = NetworkOf[t]}
    <2>4. [window[t] EXCEPT !.page = "log-in", !.listed = shown] \in Window
        BY <2>2, <2>3 DEF Window, Page
    <2>5. window' = [window EXCEPT ![t] = [window[t] EXCEPT !.page = "log-in", !.listed = shown]]
        BY <2>1 DEF TypeOK
    <2>6. window' \in [Tab -> Window \cup {Closed}]
        BY <2>4, <2>5 DEF TypeOK
    <2>. QED  BY <1>5, <2>2, <2>6 DEF ClickLoadAccount, TypeOK, clientVars, callVars
<1>6. CASE StepTwoNext(t)
    <2>1. PICK s \in Seed :
              LET a == [seed |-> s, network |-> NetworkOf[t]]
              IN  /\ users' = users \cup {a}
                  /\ levels' = SetAccessLevel(HostOf[t], a, window[t].level)
                  /\ FinishFlow(t, users', levels', FALSE, NoAccount)
        BY <1>6 DEF StepTwoNext
    <2>2. levels' \in [Host -> [Account -> AccessLevel]]
        BY <1>0, <1>1, <1>6, <2>1, SetLevelType DEF StepTwoNext, TypeOK
    <2>3. users' \in SUBSET Account
        BY <1>0, <2>1 DEF TypeOK, Account
    <2>. QED  BY <2>1, <2>2, <2>3, FinishFlowType
<1>7. CASE LogoutSubmit(t)
    <2>1. levels' \in [Host -> [Account -> AccessLevel]]
        BY <1>0, <1>7, SetLevelType DEF LogoutSubmit, TypeOK, AccessLevel, None
    <2>. QED  BY <1>7, <2>1, FinishFlowType DEF LogoutSubmit, TypeOK
<1>8. CASE ApproveSubmit(t)
    <2>1. window[t].about \in Account
        BY <1>8 DEF ApproveSubmit, LoggedIn, TypeOK
    <2>. QED  BY <1>8, <2>1, FinishFlowType DEF ApproveSubmit, TypeOK
<1>9. CASE Cancel(t)
    BY <1>9, FinishFlowType DEF Cancel, TypeOK
<1>10. CASE ApproveThrows(t)
    <2>1. SeedHexEncryptionKey(HostOf[t], FALSE) \in Key
        BY <1>0, KeyType DEF TypeOK
    <2>2. seedHexKey' \in [Host -> Nat] /\ nextKey' \in Key
        BY <1>0, <1>10, <2>1, StoreKeyType DEF ApproveThrows, TypeOK
    <2>. QED  BY <1>10, <2>2 DEF ApproveThrows, TypeOK, clientVars, callVars
<1>. QED  BY <1>2, <1>3, <1>4, <1>5, <1>6, <1>7, <1>8, <1>9, <1>10 DEF UserStep

LEMMA ClientStepType ==
    ASSUME TypeOK, NEW t \in Tab, ClientStep(t)
    PROVE  TypeOK'
<1>0. HostOf[t] \in Host /\ NetworkOf[t] \in Network
    BY TabAssumption
<1>1. CASE LaunchLogIn(t)
    BY <1>1, LaunchType DEF LaunchLogIn, Page
<1>2. CASE LaunchLogout(t)
    <2>1. PICK c \in identityServiceUsers[t] : Launch(t, "logout", ApproveAll, c.account)
        BY <1>2 DEF LaunchLogout
    <2>2. c.account \in Account
        BY <2>1 DEF TypeOK, Credential
    <2>. QED  BY <2>1, <2>2, LaunchType, RequestAssumption DEF Page
<1>3. CASE LaunchApprove(t)
    <2>1. PICK c \in identityServiceUsers[t] :
              Launch(t, "approve", ApproveAll,
                     [seed |-> c.account.seed, network |-> NetworkOf[t]])
        BY <1>3 DEF LaunchApprove
    <2>2. [seed |-> c.account.seed, network |-> NetworkOf[t]] \in Account
        BY <1>0, <2>1 DEF TypeOK, Credential, Account
    <2>. QED  BY <2>1, <2>2, LaunchType, RequestAssumption DEF Page
<1>4. CASE DeliverLogin(t)
    <2>1. posted[t] \in Seq(Payload) /\ posted[t] # <<>>
        BY <1>4 DEF DeliverLogin, TypeOK, Payload
    <2>2. Head(posted[t]).users \in SUBSET Credential /\ Tail(posted[t]) \in Seq(Payload)
        <3>1. Head(posted[t]) \in Payload /\ Tail(posted[t]) \in Seq(Payload)
            BY <2>1, HeadTailProperties
        <3>. QED  BY <3>1 DEF Payload
    <2>3. posted' \in [Tab -> Seq(Payload)]
        BY <1>4, <2>2 DEF DeliverLogin, TypeOK, Payload
    <2>4. identityServiceUsers' \in [Tab -> SUBSET Credential]
        BY <1>4, <2>2 DEF DeliverLogin, TypeOK
    <2>5. storedUsers' \in [Host -> SUBSET Credential]
        BY <1>0, <1>4, <2>2 DEF DeliverLogin, TypeOK
    <2>. QED  BY <1>4, <2>3, <2>4, <2>5 DEF DeliverLogin, TypeOK, Payload, vaultVars, callVars
<1>5. CASE DropLogin(t)
    <2>1. Tail(posted[t]) \in Seq(Payload)
        BY <1>5, HeadTailProperties DEF DropLogin, TypeOK, Payload
    <2>2. posted' \in [Tab -> Seq(Payload)]
        BY <1>5, <2>1 DEF DropLogin, TypeOK, Payload
    <2>. QED  BY <1>5, <2>2 DEF DropLogin, TypeOK, Payload, vaultVars, clientVars, callVars
<1>6. CASE Reload(t)
    <2>1. posted' \in [Tab -> Seq(Payload)]
        <3>1. <<>> \in Seq(Payload)
            OBVIOUS
        <3>. QED  BY <1>6, <3>1 DEF Reload, TypeOK, Payload
    <2>2. identityServiceUsers' \in [Tab -> SUBSET Credential]
        BY <1>0, <1>6 DEF Reload, TypeOK
    <2>. QED  BY <1>6, <2>1, <2>2 DEF Reload, TypeOK, Payload, Answer, vaultVars
<1>7. CASE SendRequest(t)
    <2>1. PICK kind \in RequestKind, c \in identityServiceUsers[t] :
              request' = [request EXCEPT ![t] = [kind |-> kind, credential |-> c]]
        BY <1>7 DEF SendRequest
    <2>2. [kind |-> kind, credential |-> c] \in Request
        BY <2>1 DEF Request, TypeOK
    <2>. QED  BY <1>7, <2>1, <2>2 DEF SendRequest, TypeOK, Answer, vaultVars, clientVars
<1>. QED  BY <1>1, <1>2, <1>3, <1>4, <1>5, <1>6, <1>7 DEF ClientStep

LEMMA HandleType ==
    ASSUME TypeOK, NEW t \in Tab, NEW required, Handle(t, required)
    PROVE  TypeOK'
<1> DEFINE key == SeedHexEncryptionKey(HostOf[t], FALSE)
<1>1. HostOf[t] \in Host
    BY TabAssumption
<1>2. key \in Key
    BY <1>1, KeyType DEF TypeOK
<1>3. seedHexKey' \in [Host -> Nat] /\ nextKey' \in Key
    BY <1>1, <1>2, StoreKeyType DEF Handle, TypeOK
<1>. QED  BY <1>3 DEF Handle, TypeOK, Answer, clientVars

LEMMA TypeStep == TypeOK /\ [Next]_vars => TypeOK'
<1> SUFFICES ASSUME TypeOK, [Next]_vars  PROVE TypeOK'
    OBVIOUS
<1>1. CASE ClearSiteData
    <2>1. users' \subseteq Account /\ seedHexKey' \in [Host -> Nat]
        BY <1>1 DEF ClearSiteData, NoKey
    <2>2. None \in AccessLevel
        BY DEF None, AccessLevel
    <2>3. levels' \in [Host -> [Account -> AccessLevel]]
        BY <1>1, <2>2 DEF ClearSiteData
    <2>. QED  BY <1>1, <2>1, <2>3 DEF ClearSiteData, TypeOK, clientVars, callVars
<1>2. ASSUME NEW t \in Tab, IframeStep(t)  PROVE TypeOK'
    <2>1. CASE HandleUnparsable(t)
        BY <2>1 DEF HandleUnparsable, TypeOK, vaultVars, clientVars
    <2>. QED  BY <1>2, <2>1, HandleType DEF IframeStep, HandleSign, HandleJwt
<1>3. CASE UNCHANGED vars
    BY <1>3 DEF vars, vaultVars, clientVars, callVars, TypeOK
<1>. QED  BY <1>1, <1>2, <1>3, UserStepType, ClientStepType DEF Next

LEMMA InitType == Init => TypeOK
BY DEF Init, TypeOK, Answer, AccessLevel, None, Key, NoKey

\* Every reachable state is well typed, whatever the hosts, tabs and bounds.
THEOREM TypeCorrect == Spec => []TypeOK
BY InitType, TypeStep, PTL DEF Spec

----------------------------------------------------------------------------
(* Credentials that work are of accounts logged in *)

\* The places a credential may be in, now and after a step.
InMessages(q, c) == \E i \in DOMAIN q : c \in q[i].users

LEMMA HeldNow ==
    ASSUME NEW t \in Tab, NEW c
    PROVE  c \in Held(t) <=> \/ c \in identityServiceUsers[t]
                             \/ c \in storedUsers[HostOf[t]]
                             \/ InMessages(posted[t], c)
                             \/ request[t] # NoRequest /\ c = request[t].credential
<1> DEFINE messages == UNION {posted[t][i].users : i \in DOMAIN posted[t]}
           asking   == IF request[t] = NoRequest THEN {} ELSE {request[t].credential}
<1>1. c \in messages <=> InMessages(posted[t], c)
    BY DEF InMessages
<1>2. c \in asking <=> request[t] # NoRequest /\ c = request[t].credential
    OBVIOUS
<1>3. Held(t) = identityServiceUsers[t] \cup storedUsers[HostOf[t]] \cup messages \cup asking
    BY DEF Held
<1> HIDE DEF messages, asking
<1>. QED  BY <1>1, <1>2, <1>3

LEMMA HeldThen ==
    ASSUME NEW t \in Tab, NEW c
    PROVE  c \in Held(t)' <=> \/ c \in identityServiceUsers'[t]
                              \/ c \in storedUsers'[HostOf[t]]
                              \/ InMessages(posted'[t], c)
                              \/ request'[t] # NoRequest /\ c = request'[t].credential
<1> DEFINE messages == UNION {posted'[t][i].users : i \in DOMAIN posted'[t]}
           asking   == IF request'[t] = NoRequest THEN {} ELSE {request'[t].credential}
<1>1. c \in messages <=> InMessages(posted'[t], c)
    BY DEF InMessages
<1>2. c \in asking <=> request'[t] # NoRequest /\ c = request'[t].credential
    OBVIOUS
<1>3. Held(t)' = identityServiceUsers'[t] \cup storedUsers'[HostOf[t]] \cup messages \cup asking
    BY DEF Held
<1> HIDE DEF messages, asking
<1>. QED  BY <1>1, <1>2, <1>3

LEMMA HeldType ==
    ASSUME TypeOK, NEW t \in Tab, NEW c \in Held(t)
    PROVE  c \in Credential
<1>0. HostOf[t] \in Host
    BY TabAssumption
<1>1. CASE c \in identityServiceUsers[t] \/ c \in storedUsers[HostOf[t]]
    <2>1. /\ identityServiceUsers[t] \subseteq Credential
          /\ storedUsers[HostOf[t]] \subseteq Credential
        BY <1>0 DEF TypeOK
    <2>. QED  BY <1>1, <2>1
<1>2. CASE InMessages(posted[t], c)
    <2>1. PICK i \in DOMAIN posted[t] : c \in posted[t][i].users
        BY <1>2 DEF InMessages
    <2>2. posted[t] \in Seq(Payload)
        BY DEF TypeOK, Payload
    <2>3. posted[t][i] \in Payload
        BY <2>1, <2>2
    <2>. QED  BY <2>1, <2>3 DEF Payload
<1>3. CASE request[t] # NoRequest /\ c = request[t].credential
    <2>1. request[t] \in Request
        BY <1>3 DEF TypeOK
    <2>. QED  BY <1>3, <2>1 DEF Request
<1>. QED  BY <1>1, <1>2, <1>3, HeldNow

\* The storage may change so that what was sound stays sound: a host's key is
\* kept, dropped or replaced by one never used, and where it is kept no account
\* is logged out.
StorageKeepsSound ==
    /\ nextKey <= nextKey'
    /\ \A h \in Host :
           \/ seedHexKey'[h] = NoKey
           \/ seedHexKey'[h] >= nextKey
           \/ /\ seedHexKey'[h] = seedHexKey[h]
              /\ \A a \in Account : LoggedInAt(h, a) => LoggedInAt(h, a)'

LEMMA SoundStays ==
    ASSUME TypeOK, TypeOK', StorageKeepsSound,
           NEW host \in Host, NEW c \in Credential, Sound(host, c)
    PROVE  Sound(host, c)'
<1>1. c.sealed.key \in Nat /\ c.sealed.key # NoKey /\ c.account \in Account
    BY DEF Credential, Key
<1>2. nextKey \in Nat /\ nextKey' \in Nat /\ c.sealed.key < nextKey
    BY DEF TypeOK, Key, Sound
<1>3. c.sealed.key < nextKey'
    BY <1>1, <1>2 DEF StorageKeepsSound
<1>4. ASSUME NEW h \in Host, Works(h, c)'
      PROVE  h = host /\ LoggedInAt(h, c.account)'
    <2>1. c.sealed.key = seedHexKey'[h]
        BY <1>4 DEF Works
    <2>2. /\ seedHexKey'[h] = seedHexKey[h]
          /\ \A a \in Account : LoggedInAt(h, a) => LoggedInAt(h, a)'
        BY <1>1, <1>2, <2>1 DEF StorageKeepsSound
    <2>3. h = host /\ LoggedInAt(h, c.account)
        BY <2>1, <2>2 DEF Works, Sound
    <2>. QED  BY <1>1, <2>2, <2>3
<1>. QED  BY <1>3, <1>4 DEF Sound, AccessLevelHmac

\* A step that issues no credential keeps the invariant.
LEMMA NoIssueKeepsInv ==
    ASSUME VaultInv, TypeOK', KeysAreFresh', StorageKeepsSound,
           \A t \in Tab : \A c \in Held(t)' :
               \E u \in Tab : HostOf[u] = HostOf[t] /\ c \in Held(u)
    PROVE  VaultInv'
<1> SUFFICES ASSUME NEW t \in Tab, NEW c \in Held(t)'  PROVE Sound(HostOf[t], c)'
    BY DEF VaultInv
<1>1. PICK u \in Tab : HostOf[u] = HostOf[t] /\ c \in Held(u)
    OBVIOUS
<1>2. c \in Credential /\ Sound(HostOf[t], c)
    BY <1>1, HeldType DEF VaultInv
<1>3. HostOf[t] \in Host
    BY TabAssumption
<1>. QED  BY <1>2, <1>3, SoundStays DEF VaultInv

\* A credential sealed with the key a host now has is sound there.
LEMMA SealedIsSound ==
    ASSUME NEW us \in SUBSET Account, NEW lv \in [Host -> [Account -> AccessLevel]],
           NEW t \in Tab, NEW key \in Key,
           NEW c \in GetEncryptedUsers(t, us, lv, key),
           TypeOK', KeysAreFresh', users' = us, levels' = lv,
           seedHexKey'[HostOf[t]] = key
    PROVE  Sound(HostOf[t], c)'
<1>0. HostOf[t] \in Host
    BY TabAssumption
<1>1. PICK a \in LoggedIn(t, us, lv) : c = Seal(a, HostOf[t], lv, key)
    BY DEF GetEncryptedUsers
<1>2. /\ c.account = a
      /\ c.sealed.key = key
      /\ c.sealed.seed = a.seed
      /\ c.hmac = AccessLevelHmac(c.level, a.seed)
    BY <1>1 DEF Seal
<1>3. LoggedInAt(HostOf[t], a)'
    BY <1>1 DEF LoggedIn, LoggedInAt
<1>4. ASSUME NEW h \in Host, Works(h, c)'  PROVE h = HostOf[t]
    BY <1>0, <1>2, <1>4 DEF Works, KeysAreFresh, Key
<1>5. key < nextKey'
    BY <1>0 DEF KeysAreFresh
<1>. QED  BY <1>2, <1>3, <1>4, <1>5 DEF Sound, AccessLevelHmac

\* Storing a loaded key gives no key out twice.
LEMMA StoreKeyFresh ==
    ASSUME TypeOK, KeysAreFresh, NEW h \in Host, NEW key \in Key,
           key = nextKey \/ key = seedHexKey[h], StoreKey(h, key)
    PROVE  /\ KeysAreFresh'
           /\ nextKey <= nextKey'
           /\ seedHexKey'[h] = key
           /\ \A g \in Host : g # h => seedHexKey'[g] = seedHexKey[g]
BY DEF TypeOK, KeysAreFresh, StoreKey, Key, NoKey

\* Nor does it make unsound what was sound, as long as no account is touched.
LEMMA LoadingKeepsSound ==
    ASSUME TypeOK, KeysAreFresh, NEW h \in Host, UNCHANGED <<users, levels>>,
           StoreKey(h, SeedHexEncryptionKey(h, FALSE))
    PROVE  KeysAreFresh' /\ StorageKeepsSound
<1> DEFINE key == SeedHexEncryptionKey(h, FALSE)
<1>1. key \in Key /\ (key = nextKey \/ key = seedHexKey[h]) /\ nextKey \in Nat
    BY KeyType DEF TypeOK, Key
<1> HIDE DEF key
<1>2. /\ KeysAreFresh'
      /\ nextKey <= nextKey'
      /\ seedHexKey'[h] = key
      /\ \A g \in Host : g # h => seedHexKey'[g] = seedHexKey[g]
    BY <1>1, StoreKeyFresh DEF key
<1>. QED  BY <1>1, <1>2 DEF StorageKeepsSound, LoggedInAt

\* What a tab holds after a flow ended is what it held and the new payload.
LEMMA FinishFlowHeld ==
    ASSUME TypeOK, NEW t \in Tab, NEW us, NEW lv, NEW reset, NEW signedBy,
           FinishFlow(t, us, lv, reset, signedBy), NEW u \in Tab, NEW c \in Held(u)'
    PROVE  \/ c \in Held(u)
           \/ u = t /\ c \in GetEncryptedUsers(t, us, lv, SeedHexEncryptionKey(HostOf[t], reset))
<1> DEFINE given == [users |-> GetEncryptedUsers(t, us, lv, SeedHexEncryptionKey(HostOf[t], reset)),
                     signedBy |-> signedBy]
<1>1. /\ posted' = [posted EXCEPT ![t] = Append(@, given)]
      /\ UNCHANGED <<identityServiceUsers, storedUsers, request>>
    BY DEF FinishFlow, clientVars, callVars
<1>2. posted[t] \in Seq(Payload) /\ posted \in [Tab -> Seq(Payload)]
    BY DEF TypeOK, Payload
<1>3. ASSUME NEW i \in DOMAIN posted'[u], c \in posted'[u][i].users
      PROVE  \/ \E j \in DOMAIN posted[u] : c \in posted[u][j].users
             \/ u = t /\ c \in given.users
    <2>1. CASE u # t
        BY <1>1, <1>2, <1>3, <2>1
    <2>2. CASE u = t
        <3>1. posted'[u] = Append(posted[t], given)
            BY <1>1, <1>2, <2>2
        <3> HIDE DEF given
        <3>2. (i \in DOMAIN posted[t] /\ posted'[u][i] = posted[t][i]) \/ posted'[u][i] = given
            BY <1>2, <3>1
        <3>. QED  BY <1>3, <2>2, <3>2
    <2>. QED  BY <2>1, <2>2
<1>. QED  BY <1>1, <1>3 DEF Held

\* Ending a flow keeps the invariant if it logs nobody out, or resets the key.
LEMMA FinishFlowKeepsInv ==
    ASSUME VaultInv, NEW t \in Tab, NEW us \in SUBSET Account,
           NEW lv \in [Host -> [Account -> AccessLevel]],
           NEW reset \in BOOLEAN, NEW signedBy \in Account \cup {NoAccount},
           FinishFlow(t, us, lv, reset, signedBy), users' = us, levels' = lv,
           \A h \in Host : \A a \in Account :
               LoggedInAt(h, a) => LoggedInAt(h, a)' \/ (reset /\ h = HostOf[t])
    PROVE  VaultInv'
<1> DEFINE key   == SeedHexEncryptionKey(HostOf[t], reset)
           given == GetEncryptedUsers(t, us, lv, key)
<1>0. HostOf[t] \in Host /\ TypeOK /\ KeysAreFresh
    BY TabAssumption DEF VaultInv
<1>1. TypeOK'
    BY <1>0, FinishFlowType
<1>2. /\ key \in Key
      /\ key = nextKey \/ key = seedHexKey[HostOf[t]]
      /\ reset => key = nextKey
    BY <1>0, KeyType DEF TypeOK, SeedHexEncryptionKey
<1>3. \/ StoreKey(HostOf[t], key)
      \/ UNCHANGED <<seedHexKey, nextKey>> /\ LoggedIn(t, us, lv) = {} /\ ~reset
    BY DEF FinishFlow
<1> HIDE DEF key
<1>4. KeysAreFresh' /\ StorageKeepsSound
    <2>1. CASE StoreKey(HostOf[t], key)
        <3>1. /\ KeysAreFresh'
              /\ nextKey <= nextKey'
              /\ seedHexKey'[HostOf[t]] = key
              /\ \A g \in Host : g # HostOf[t] => seedHexKey'[g] = seedHexKey[g]
            BY <1>0, <1>2, <2>1, StoreKeyFresh
        <3>2. nextKey \in Nat
            BY <1>0 DEF TypeOK, Key
        <3>. QED  BY <1>2, <3>1, <3>2 DEF StorageKeepsSound
    <2>2. CASE UNCHANGED <<seedHexKey, nextKey>> /\ ~reset
        <3>1. nextKey \in Nat
            BY <1>0 DEF TypeOK, Key
        <3>. QED  BY <1>0, <2>2, <3>1 DEF KeysAreFresh, StorageKeepsSound
    <2>. QED  BY <1>3, <2>1, <2>2
<1>5. ASSUME NEW u \in Tab, NEW c \in Held(u)'  PROVE Sound(HostOf[u], c)'
    <2>1. HostOf[u] \in Host
        BY TabAssumption
    <2>2. CASE c \in Held(u)
        <3>1. c \in Credential /\ Sound(HostOf[u], c)
            BY <1>0, <2>2, HeldType DEF VaultInv
        <3>. QED  BY <1>0, <1>1, <1>4, <2>1, <3>1, SoundStays
    <2>3. CASE u = t /\ c \in given
        <3>1. LoggedIn(t, us, lv) # {}
            BY <2>3 DEF GetEncryptedUsers
        <3>2. seedHexKey'[HostOf[t]] = key
            BY <1>0, <1>2, <1>3, <3>1, StoreKeyFresh
        <3>. QED  BY <1>1, <1>2, <1>4, <2>3, <3>2, SealedIsSound
    <2>. QED  BY <1>0, <2>2, <2>3, FinishFlowHeld DEF key
<1>. QED  BY <1>1, <1>4, <1>5 DEF VaultInv

\* Setting a level other than None logs nobody out.
LEMMA GrantLogsNobodyOut ==
    ASSUME TypeOK, NEW h \in Host, NEW a \in Account,
           NEW level \in AccessLevelRequest,
           levels' = SetAccessLevel(h, a, level), users \subseteq users',
           NEW g \in Host, NEW b \in Account, LoggedInAt(g, b)
    PROVE  LoggedInAt(g, b)'
<1>1. level \in AccessLevel /\ level # None
    BY RequestAssumption
<1>2. levels'[g][b] = levels[g][b] \/ levels'[g][b] = level
    BY DEF TypeOK, SetAccessLevel
<1>. QED  BY <1>1, <1>2 DEF LoggedInAt, GetAccessLevel

\* A window that can log in an account asks for a level a client may ask for.
LEMMA WindowLevel ==
    ASSUME TypeOK, NEW t \in Tab, NEW page, OnPage(t, page)
    PROVE  /\ window[t].level \in AccessLevelRequest
           /\ window[t].listed \subseteq Account
BY DEF TypeOK, OnPage, Window

LEMMA UserStepKeepsInv ==
    ASSUME VaultInv, NEW t \in Tab, UserStep(t)
    PROVE  VaultInv'
<1>0. HostOf[t] \in Host /\ NetworkOf[t] \in Network /\ TypeOK /\ KeysAreFresh
    BY TabAssumption DEF VaultInv
<1>1. TypeOK'
    BY <1>0, UserStepType
<1>2. ASSUME UNCHANGED <<levels, seedHexKey, nextKey, posted, clientVars, callVars>>,
             users \subseteq users'
      PROVE  VaultInv'
    <2>1. StorageKeepsSound
        BY <1>0, <1>2 DEF StorageKeepsSound, TypeOK, Key, LoggedInAt
    <2>2. KeysAreFresh'
        BY <1>0, <1>2 DEF KeysAreFresh
    <2>3. ASSUME NEW u \in Tab  PROVE Held(u)' = Held(u)
        BY <1>2 DEF Held, clientVars, callVars
    <2>. QED  BY <1>1, <2>1, <2>2, <2>3, NoIssueKeepsInv
<1>3. CASE GoTo(t) \/ CloseWindow(t) \/ ClickLoadAccount(t)
    BY <1>2, <1>3 DEF GoTo, CloseWindow, ClickLoadAccount, vaultVars
<1>4. CASE SelectAccount(t)
    <2>1. PICK a \in window[t].listed :
              /\ levels' = SetAccessLevel(HostOf[t], a, window[t].level)
              /\ users' = users
              /\ FinishFlow(t, users, levels', FALSE, NoAccount)
        BY <1>4 DEF SelectAccount
    <2>2. a \in Account /\ window[t].level \in AccessLevelRequest
        BY <1>0, <1>4, <2>1, WindowLevel DEF SelectAccount
    <2>3. \A h \in Host : \A b \in Account : LoggedInAt(h, b) => LoggedInAt(h, b)'
        BY <1>0, <2>1, <2>2, GrantLogsNobodyOut
    <2>. QED  BY <1>1, <2>1, <2>3, FinishFlowKeepsInv DEF TypeOK
<1>5. CASE StepTwoNext(t)
    <2>1. PICK s \in Seed :
              LET a == [seed |-> s, network |-> NetworkOf[t]]
              IN  /\ users' = users \cup {a}
                  /\ levels' = SetAccessLevel(HostOf[t], a, window[t].level)
                  /\ FinishFlow(t, users', levels', FALSE, NoAccount)
        BY <1>5 DEF StepTwoNext
    <2>2. window[t].level \in AccessLevelRequest
        BY <1>0, <1>5, WindowLevel DEF StepTwoNext
    <2>3. [seed |-> s, network |-> NetworkOf[t]] \in Account
        BY <1>0 DEF Account
    <2>4. \A h \in Host : \A b \in Account : LoggedInAt(h, b) => LoggedInAt(h, b)'
        BY <1>0, <2>1, <2>2, <2>3, GrantLogsNobodyOut
    <2>. QED  BY <1>1, <2>1, <2>4, FinishFlowKeepsInv DEF TypeOK
<1>6. CASE LogoutSubmit(t)
    <2>1. /\ levels' = SetAccessLevel(HostOf[t], window[t].about, None)
          /\ users' = users
          /\ FinishFlow(t, users, levels', TRUE, NoAccount)
        BY <1>6 DEF LogoutSubmit
    <2>2. \A h \in Host : h # HostOf[t] => levels'[h] = levels[h]
        BY <1>0, <2>1 DEF TypeOK, SetAccessLevel
    <2>3. \A h \in Host : \A b \in Account :
              LoggedInAt(h, b) => LoggedInAt(h, b)' \/ h = HostOf[t]
        BY <2>1, <2>2 DEF LoggedInAt, GetAccessLevel
    <2>. QED  BY <1>1, <2>1, <2>3, FinishFlowKeepsInv DEF TypeOK
<1>7. CASE ApproveSubmit(t) \/ Cancel(t)
    <2>1. UNCHANGED <<users, levels>>
        BY <1>7 DEF ApproveSubmit, Cancel
    <2>2. PICK signedBy \in Account \cup {NoAccount} :
              FinishFlow(t, users, levels, FALSE, signedBy)
        BY <1>0, <1>7 DEF ApproveSubmit, Cancel, LoggedIn, TypeOK
    <2>3. \A h \in Host : \A b \in Account : LoggedInAt(h, b) => LoggedInAt(h, b)'
        BY <2>1 DEF LoggedInAt
    <2>. QED  BY <1>0, <2>1, <2>2, <2>3, FinishFlowKeepsInv DEF TypeOK
<1>8. CASE ApproveThrows(t)
    <2>1. /\ StoreKey(HostOf[t], SeedHexEncryptionKey(HostOf[t], FALSE))
          /\ UNCHANGED <<users, levels, posted, clientVars, callVars>>
        BY <1>8 DEF ApproveThrows
    <2>2. ASSUME NEW u \in Tab  PROVE Held(u)' = Held(u)
        BY <2>1 DEF Held, clientVars, callVars
    <2>. QED  BY <1>0, <1>1, <2>1, <2>2, LoadingKeepsSound, NoIssueKeepsInv
<1>. QED  BY <1>3, <1>4, <1>5, <1>6, <1>7, <1>8 DEF UserStep

\* A tab's own steps: what is held after them was held by a tab of its host.
LEMMA ClientStepHeld ==
    ASSUME TypeOK, NEW t \in Tab, ClientStep(t), NEW u \in Tab, NEW c \in Held(u)'
    PROVE  \E v \in Tab : HostOf[v] = HostOf[u] /\ c \in Held(v)
<1>1. CASE LaunchLogIn(t) \/ LaunchLogout(t) \/ LaunchApprove(t)
    <2>1. UNCHANGED <<identityServiceUsers, storedUsers, posted, request>>
        BY <1>1 DEF LaunchLogIn, LaunchLogout, LaunchApprove, Launch, clientVars, callVars
    <2>2. c \in Held(u)
        BY <2>1, HeldNow, HeldThen
    <2>. QED  BY <2>2
<1>2. CASE DeliverLogin(t) \/ DropLogin(t)
    <2>1. /\ posted[t] \in Seq(Payload) /\ posted[t] # <<>>
          /\ posted' = [posted EXCEPT ![t] = Tail(@)]
          /\ request' = request
        BY <1>2 DEF DeliverLogin, DropLogin, callVars, TypeOK, Payload
    <2>2. \A i \in DOMAIN Tail(posted[t]) :
              i + 1 \in DOMAIN posted[t] /\ Tail(posted[t])[i] = posted[t][i + 1]
        BY <2>1
    <2>3. ASSUME NEW v \in Tab, InMessages(posted'[v], c)  PROVE InMessages(posted[v], c)
        BY <2>1, <2>2, <2>3 DEF TypeOK, InMessages
    <2>4. c \in Head(posted[t]).users => InMessages(posted[t], c)
        <3>1. 1 \in DOMAIN posted[t] /\ Head(posted[t]) = posted[t][1]
            BY <2>1
        <3>. QED  BY <3>1 DEF InMessages
    <2>5. \/ identityServiceUsers'[u] = identityServiceUsers[u]
          \/ u = t /\ identityServiceUsers'[u] = Head(posted[t]).users
        BY <1>2 DEF DeliverLogin, DropLogin, clientVars, TypeOK
    <2>6. \/ storedUsers'[HostOf[u]] = storedUsers[HostOf[u]]
          \/ HostOf[u] = HostOf[t] /\ storedUsers'[HostOf[u]] = Head(posted[t]).users
        BY <1>2, TabAssumption DEF DeliverLogin, DropLogin, clientVars, TypeOK
    <2>7. c \in Held(u) \/ (HostOf[u] = HostOf[t] /\ c \in Held(t))
        BY <2>1, <2>3, <2>4, <2>5, <2>6, HeldNow, HeldThen
    <2>. QED  BY <2>7
<1>3. CASE Reload(t)
    <2>1. /\ storedUsers' = storedUsers
          /\ \/ identityServiceUsers'[u] = identityServiceUsers[u]
             \/ identityServiceUsers'[u] = storedUsers[HostOf[u]]
          /\ posted'[u] = posted[u] \/ posted'[u] = <<>>
          /\ request'[u] = request[u] \/ request'[u] = NoRequest
        BY <1>3 DEF Reload, TypeOK
    <2>2. c \in Held(u)
        BY <2>1, HeldNow, HeldThen DEF InMessages
    <2>. QED  BY <2>2
<1>4. CASE SendRequest(t)
    <2>1. PICK kind \in RequestKind, d \in identityServiceUsers[t] :
              request' = [request EXCEPT ![t] = [kind |-> kind, credential |-> d]]
        BY <1>4 DEF SendRequest
    <2>2. UNCHANGED <<identityServiceUsers, storedUsers, posted>>
        BY <1>4 DEF SendRequest, clientVars
    <2>3. request'[u] = request[u] \/ (u = t /\ request'[u].credential = d)
        BY <2>1 DEF TypeOK
    <2>4. c \in Held(u)
        BY <2>1, <2>2, <2>3, HeldNow, HeldThen
    <2>. QED  BY <2>4
<1>. QED  BY <1>1, <1>2, <1>3, <1>4 DEF ClientStep

LEMMA ClientStepKeepsInv ==
    ASSUME VaultInv, NEW t \in Tab, ClientStep(t)
    PROVE  VaultInv'
<1>1. UNCHANGED vaultVars
    BY DEF ClientStep, LaunchLogIn, LaunchLogout, LaunchApprove, Launch,
           DeliverLogin, DropLogin, Reload, SendRequest
<1>2. StorageKeepsSound /\ KeysAreFresh'
    BY <1>1 DEF StorageKeepsSound, KeysAreFresh, VaultInv, TypeOK, Key, LoggedInAt, vaultVars
<1>3. TypeOK'
    BY ClientStepType DEF VaultInv
<1>. QED  BY <1>2, <1>3, ClientStepHeld, NoIssueKeepsInv DEF VaultInv

LEMMA IframeStepKeepsInv ==
    ASSUME VaultInv, NEW t \in Tab, IframeStep(t)
    PROVE  VaultInv'
<1>0. HostOf[t] \in Host /\ TypeOK /\ KeysAreFresh /\ nextKey \in Nat
    BY TabAssumption DEF VaultInv, TypeOK, Key
<1>1. TypeOK'
    BY <1>0, TypeStep DEF Next
<1>2. /\ UNCHANGED <<users, levels, posted, identityServiceUsers, storedUsers>>
      /\ request' = [request EXCEPT ![t] = NoRequest]
    BY DEF IframeStep, HandleSign, HandleJwt, HandleUnparsable, Handle, vaultVars, clientVars
<1>3. ASSUME NEW u \in Tab, NEW c \in Held(u)'  PROVE c \in Held(u)
    BY <1>0, <1>2, <1>3 DEF Held, TypeOK
<1>4. KeysAreFresh' /\ StorageKeepsSound
    <2>1. CASE UNCHANGED <<seedHexKey, nextKey>>
        BY <1>0, <1>2, <2>1 DEF KeysAreFresh, StorageKeepsSound, LoggedInAt
    <2>2. CASE StoreKey(HostOf[t], SeedHexEncryptionKey(HostOf[t], FALSE))
        BY <1>0, <1>2, <2>2, LoadingKeepsSound
    <2>. QED  BY <2>1, <2>2 DEF IframeStep, HandleSign, HandleJwt, HandleUnparsable,
                                Handle, vaultVars
<1>. QED  BY <1>1, <1>3, <1>4, NoIssueKeepsInv

LEMMA VaultInvStep == VaultInv /\ [Next]_vars => VaultInv'
<1> SUFFICES ASSUME VaultInv, [Next]_vars  PROVE VaultInv'
    OBVIOUS
<1>0. TypeOK /\ TypeOK' /\ KeysAreFresh /\ nextKey \in Nat
    BY TypeStep DEF VaultInv, TypeOK, Key
<1>1. CASE ClearSiteData
    <2>1. StorageKeepsSound /\ KeysAreFresh'
        BY <1>0, <1>1 DEF ClearSiteData, StorageKeepsSound, KeysAreFresh, TypeOK, Key, NoKey
    <2>2. \A u \in Tab : Held(u)' = Held(u)
        BY <1>1 DEF ClearSiteData, Held, clientVars, callVars
    <2>. QED  BY <1>0, <2>1, <2>2, NoIssueKeepsInv
<1>2. CASE UNCHANGED vars
    <2>1. StorageKeepsSound /\ KeysAreFresh'
        BY <1>0, <1>2 DEF StorageKeepsSound, KeysAreFresh, LoggedInAt, vars, vaultVars
    <2>2. \A u \in Tab : Held(u)' = Held(u)
        BY <1>2 DEF vars, clientVars, callVars, Held
    <2>. QED  BY <1>0, <2>1, <2>2, NoIssueKeepsInv
<1>. QED  BY <1>1, <1>2, UserStepKeepsInv, ClientStepKeepsInv, IframeStepKeepsInv DEF Next

LEMMA NothingHeldAtFirst ==
    ASSUME Init, NEW t \in Tab
    PROVE  Held(t) = {}
<1>1. HostOf[t] \in Host /\ DOMAIN posted[t] = {}
    BY TabAssumption DEF Init
<1>. QED  BY <1>1 DEF Init, Held

LEMMA VaultInvInit == Init => VaultInv
<1> SUFFICES ASSUME Init  PROVE VaultInv
    OBVIOUS
<1>1. KeysAreFresh
    BY DEF Init, KeysAreFresh, NoKey
<1>. QED  BY <1>1, NothingHeldAtFirst, InitType DEF VaultInv

\* The strengthened invariant holds of every reachable state.
THEOREM VaultInvariant == Spec => []VaultInv
BY VaultInvInit, VaultInvStep, PTL DEF Spec

\* For any hosts, tabs, seeds and levels: a credential that still opens, wherever
\* it is, belongs to an account logged in at its host.  After a logout nothing
\* given out before is of use for the account.
THEOREM LogoutRevokes == Spec => []LiveCredentialsAreLoggedIn
<1>1. VaultInv => LiveCredentialsAreLoggedIn
    BY TabAssumption DEF VaultInv, LiveCredentialsAreLoggedIn, Sound
<1>. QED  BY <1>1, VaultInvariant, PTL

\* For any hosts, no credential of one host opens at another.
THEOREM HostsAreSeparate == Spec => []KeysStayWithHost
<1>1. VaultInv => KeysStayWithHost
    BY DEF VaultInv, KeysStayWithHost, Sound
<1>. QED  BY <1>1, VaultInvariant, PTL

----------------------------------------------------------------------------
(* Signing without asking *)

\* Only the iframe's handler signs.
LEMMA OnlyHandleSigns ==
    ASSUME TypeOK, [Next]_vars, NEW t \in Tab,
           answer[t] = "pending", answer'[t] = "signed"
    PROVE  HandleSign(t) \/ HandleJwt(t)
<1>1. UNCHANGED answer => FALSE
    OBVIOUS
<1>2. ASSUME NEW u \in Tab, UserStep(u)  PROVE FALSE
    BY <1>1, <1>2 DEF UserStep, GoTo, CloseWindow, SelectAccount, ClickLoadAccount,
        StepTwoNext, LogoutSubmit, ApproveSubmit, ApproveThrows, Cancel, FinishFlow, callVars
<1>3. ASSUME NEW u \in Tab, ClientStep(u)  PROVE FALSE
    <2>1. CASE Reload(u) \/ SendRequest(u)
        BY <2>1 DEF Reload, SendRequest, TypeOK
    <2>2. CASE LaunchLogIn(u) \/ LaunchLogout(u) \/ LaunchApprove(u)
        BY <1>1, <2>2 DEF LaunchLogIn, LaunchLogout, LaunchApprove, Launch, callVars
    <2>3. CASE DeliverLogin(u) \/ DropLogin(u)
        BY <1>1, <2>3 DEF DeliverLogin, DropLogin, callVars
    <2>. QED  BY <1>3, <2>1, <2>2, <2>3 DEF ClientStep
<1>4. ASSUME NEW u \in Tab, IframeStep(u)  PROVE HandleSign(t) \/ HandleJwt(t)
    <2>1. CASE u = t
        BY <1>1, <1>4, <2>1 DEF IframeStep, HandleUnparsable
    <2>2. CASE u # t
        BY <1>4, <2>2 DEF IframeStep, HandleUnparsable, HandleSign, HandleJwt, Handle, TypeOK
    <2>. QED  BY <2>1, <2>2
<1>5. CASE ClearSiteData \/ UNCHANGED vars
    BY <1>1, <1>5 DEF ClearSiteData, vars, callVars
<1>. QED  BY <1>2, <1>3, <1>4, <1>5 DEF Next

\* The HMAC of a level proves the seed.
LEMMA HmacProvesSeed ==
    ASSUME NEW level, NEW s1, NEW s2,
           AccessLevelHmac(level, s1) = AccessLevelHmac(level, s2)
    PROVE  s1 = s2
<1>1. AccessLevelHmac(level, s1).seed = s1 /\ AccessLevelHmac(level, s2).seed = s2
    BY DEF AccessLevelHmac
<1>. QED  BY <1>1

\* A sound credential whose HMAC the decrypted seed proves was sealed with the
\* key its host has.
LEMMA ProvedMeansWorks ==
    ASSUME VaultInv, NEW t \in Tab, NEW c \in Credential, Sound(HostOf[t], c), NEW required,
           HasAccessLevel(c, required, SeedHexEncryptionKey(HostOf[t], FALSE))
    PROVE  /\ Works(HostOf[t], c)
           /\ LoggedInAt(HostOf[t], c.account)
<1> DEFINE key == SeedHexEncryptionKey(HostOf[t], FALSE)
<1>0. HostOf[t] \in Host
    BY TabAssumption
<1>1. c.hmac = AccessLevelHmac(c.level, DecryptSeedHex(c.sealed, key))
    BY DEF HasAccessLevel, ValidAccessLevelHmac
<1>2. DecryptSeedHex(c.sealed, key) = c.account.seed
    BY <1>1, HmacProvesSeed DEF Sound
<1>3. c.account.seed \in Seed
    BY DEF Credential, Account
<1>4. c.sealed.key = key
    BY <1>2, <1>3, GarbageAssumption DEF DecryptSeedHex
<1>5. c.sealed.key \in Nat /\ nextKey \in Nat /\ c.sealed.key < nextKey
    BY DEF Credential, Key, Sound, VaultInv, TypeOK
<1>6. Works(HostOf[t], c)
    BY <1>4, <1>5 DEF SeedHexEncryptionKey, Works
<1>. QED  BY <1>0, <1>6 DEF Sound

\* The level a request needs, and the check of its outputs, permit the request.
LEMMA EnoughIsPermitted ==
    ASSUME NEW c \in Credential, NEW kind \in RequestKind, kind # "unparsable", NEW key,
           HasAccessLevel(c, RequiredAccessLevel(kind), key), ApproveSpending(c, kind)
    PROVE  Promise!Permits(c.level, kind)
<1>1. c.level >= RequiredAccessLevel(kind) /\ c.level \in 0 .. 4
    BY DEF HasAccessLevel, Credential, AccessLevel
<1>2. kind = "socialPaying" => c.level # ApproveLarge
    BY DEF ApproveSpending, PaysOthers
<1>. QED  BY <1>1, <1>2, KindAssumption DEF Promise!Permits, Promise!ApproveAll,
             Promise!ApproveLarge, Promise!Full, RequiredAccessLevel,
             ApproveAll, ApproveLarge, Full, Kind

\* Whatever hosts ask, in whatever order of clicks, messages and requests, the
\* iframe signs without asking only for an account logged in at the host and
\* only what the credential's level permits.
THEOREM SigningNeedsConsent == Spec => SignsOnlyAsPermitted
<1>1. ASSUME VaultInv, [Next]_vars, NEW t \in Tab,
             answer[t] = "pending", answer'[t] = "signed"
      PROVE  LET c == request[t].credential
             IN  /\ Works(HostOf[t], c)
                 /\ LoggedInAt(HostOf[t], c.account)
                 /\ c.hmac = AccessLevelHmac(c.level, c.account.seed)
                 /\ Promise!Permits(c.level, request[t].kind)
    <2> DEFINE c == request[t].credential
               kind == request[t].kind
    <2>1. HandleSign(t) \/ HandleJwt(t)
        BY <1>1, OnlyHandleSigns DEF VaultInv
    <2>2. request[t] \in Request
        BY <1>1, <2>1 DEF HandleSign, HandleJwt, VaultInv, TypeOK
    <2>3. /\ HasAccessLevel(c, RequiredAccessLevel(kind),
                            SeedHexEncryptionKey(HostOf[t], FALSE))
          /\ ApproveSpending(c, kind)
          /\ kind # "unparsable"
        BY <1>1, <2>1 DEF HandleSign, HandleJwt, Handle, VaultInv, TypeOK
    <2>4. c \in Credential /\ kind \in RequestKind
        BY <2>2 DEF Request
    <2>5. c \in Held(t)
        BY <2>1, HeldNow DEF HandleSign, HandleJwt
    <2>6. Sound(HostOf[t], c)
        BY <1>1, <2>5 DEF VaultInv
    <2>7. Works(HostOf[t], c) /\ LoggedInAt(HostOf[t], c.account)
        BY <1>1, <2>3, <2>4, <2>6, ProvedMeansWorks
    <2>8. Promise!Permits(c.level, kind)
        BY <2>3, <2>4, EnoughIsPermitted
    <2>. QED  BY <2>6, <2>7, <2>8 DEF Sound
<1>2. VaultInv /\ [Next]_vars =>
          [\A t \in Tab : answer[t] = "pending" /\ answer'[t] = "signed" =>
              LET c == request[t].credential
              IN  /\ Works(HostOf[t], c)
                  /\ LoggedInAt(HostOf[t], c.account)
                  /\ c.hmac = AccessLevelHmac(c.level, c.account.seed)
                  /\ Promise!Permits(c.level, request[t].kind)]_vars
    BY <1>1
<1>. QED  BY <1>2, VaultInvariant, PTL DEF Spec, SignsOnlyAsPermitted
----------------------------------------------------------------------------
(* Keys are replaced by logging out only *)

\* The accounts of the credentials posted are those logged in.
LEMMA SealedAccounts ==
    ASSUME NEW t \in Tab, NEW us, NEW lv, NEW key
    PROVE  /\ {c.account : c \in GetEncryptedUsers(t, us, lv, key)} = LoggedIn(t, us, lv)
           /\ \A c \in GetEncryptedUsers(t, us, lv, key) : c.sealed.key = key
<1>1. \A a : Seal(a, HostOf[t], lv, key).account = a /\ Seal(a, HostOf[t], lv, key).sealed.key = key
    BY DEF Seal
<1>. QED  BY <1>1 DEF GetEncryptedUsers

\* Loading a host's key changes the key of no other host, and replaces that of
\* the host itself only where a reset is asked for.
LEMMA LoadedKey ==
    ASSUME TypeOK, NEW h \in Host, NEW reset \in BOOLEAN,
           StoreKey(h, SeedHexEncryptionKey(h, reset))
    PROVE  /\ \A g \in Host : g # h => seedHexKey'[g] = seedHexKey[g]
           /\ seedHexKey'[h] = IF reset \/ seedHexKey[h] = NoKey THEN nextKey ELSE seedHexKey[h]
BY DEF TypeOK, StoreKey, SeedHexEncryptionKey

\* A step that changes the key of a host that has one, without dropping it, is
\* a logout at that host.
LEMMA OnlyLogoutReplaces ==
    ASSUME TypeOK, [Next]_vars, NEW h \in Host,
           seedHexKey[h] # NoKey, seedHexKey'[h] \notin {seedHexKey[h], NoKey}
    PROVE  \E t \in Tab : HostOf[t] = h /\ LogoutSubmit(t)
<1>0. seedHexKey' # seedHexKey
    OBVIOUS
<1>1. ASSUME NEW t \in Tab, NEW us, NEW lv, NEW signedBy,
             FinishFlow(t, us, lv, FALSE, signedBy)
      PROVE  FALSE
    <2>1. StoreKey(HostOf[t], SeedHexEncryptionKey(HostOf[t], FALSE))
        BY <1>0, <1>1 DEF FinishFlow
    <2>. QED  BY <2>1, LoadedKey, TabAssumption
<1>2. ASSUME NEW t \in Tab, UserStep(t)  PROVE LogoutSubmit(t) /\ HostOf[t] = h
    <2>0. ~ApproveThrows(t)
        BY <1>0, LoadedKey, TabAssumption DEF ApproveThrows
    <2>1. LogoutSubmit(t)
        BY <1>0, <1>1, <1>2, <2>0 DEF UserStep, GoTo, CloseWindow, SelectAccount,
           ClickLoadAccount, StepTwoNext, ApproveSubmit, Cancel, vaultVars
    <2>2. seedHexKey' # seedHexKey => StoreKey(HostOf[t], SeedHexEncryptionKey(HostOf[t], TRUE))
        BY <2>1 DEF LogoutSubmit, FinishFlow
    <2>. QED  BY <1>0, <2>1, <2>2, LoadedKey, TabAssumption
<1>3. ASSUME NEW t \in Tab, ClientStep(t)  PROVE FALSE
    BY <1>0, <1>3 DEF ClientStep, LaunchLogIn, LaunchLogout, LaunchApprove, Launch,
       DeliverLogin, DropLogin, Reload, SendRequest, vaultVars
<1>4. ASSUME NEW t \in Tab, IframeStep(t)  PROVE FALSE
    <2>1. StoreKey(HostOf[t], SeedHexEncryptionKey(HostOf[t], FALSE))
        BY <1>0, <1>4 DEF IframeStep, HandleSign, HandleJwt, HandleUnparsable, Handle, vaultVars
    <2>. QED  BY <2>1, LoadedKey, TabAssumption
<1>5. CASE ClearSiteData
    BY <1>5 DEF ClearSiteData
<1>6. CASE UNCHANGED vars
    BY <1>0, <1>6 DEF vars, vaultVars
<1>. QED  BY <1>2, <1>3, <1>4, <1>5, <1>6 DEF Next

\* What a logout leaves: the account logged out, a key never used, and in the
\* message it posts a credential under that key for every account that stays.
LEMMA LogoutPostsTheRest ==
    ASSUME TypeOK, NEW t \in Tab, LogoutSubmit(t)
    PROVE  /\ OnPage(t, "logout")
           /\ ~LoggedInAt(HostOf[t], window[t].about)'
           /\ posted'[t] # <<>>
           /\ LET given == posted'[t][Len(posted'[t])].users
              IN  /\ {c.account : c \in given} =
                        {a \in users' : a.network = NetworkOf[t] /\ LoggedInAt(HostOf[t], a)'}
                  /\ \A c \in given : c.sealed.key = seedHexKey'[HostOf[t]]
<1> DEFINE key   == SeedHexEncryptionKey(HostOf[t], TRUE)
           given == GetEncryptedUsers(t, users, levels', key)
           payload == [users |-> given, signedBy |-> NoAccount]
<1>0. HostOf[t] \in Host
    BY TabAssumption
<1>1. /\ OnPage(t, "logout")
      /\ levels' = [levels EXCEPT ![HostOf[t]][window[t].about] = None]
      /\ users' = users /\ window' = window
      /\ posted' = [posted EXCEPT ![t] = Append(@, payload)]
      /\ StoreKey(HostOf[t], key)
    BY DEF LogoutSubmit, FinishFlow, SetAccessLevel
<1>2. posted[t] \in Seq(Payload)
    BY DEF TypeOK, Payload
<1>3. posted'[t] = Append(posted[t], payload)
    BY <1>1 DEF TypeOK
<1>4. posted'[t] # <<>> /\ posted'[t][Len(posted'[t])] = payload
    <2> HIDE DEF payload
    <2>. QED  BY <1>2, <1>3
<1>5. ~LoggedInAt(HostOf[t], window[t].about)'
    <2>1. ASSUME window[t].about \in users
          PROVE  levels'[HostOf[t]][window[t].about] = None
        BY <1>0, <1>1, <2>1 DEF TypeOK
    <2>. QED  BY <1>1, <2>1 DEF LoggedInAt, GetAccessLevel
<1>6. {c.account : c \in given} = LoggedIn(t, users, levels')
    BY SealedAccounts
<1>7. LoggedIn(t, users, levels') =
          {a \in users' : a.network = NetworkOf[t] /\ LoggedInAt(HostOf[t], a)'}
    BY <1>1 DEF LoggedIn, LoggedInAt
<1>8. \A c \in given : c.sealed.key = seedHexKey'[HostOf[t]]
    <2>1. seedHexKey'[HostOf[t]] = key
        BY <1>0, <1>1 DEF StoreKey, TypeOK
    <2>. QED  BY <2>1, SealedAccounts
<1>9. posted'[t][Len(posted'[t])].users = given
    BY <1>4
<1> HIDE DEF given, payload
<1>10. {c.account : c \in given} =
          {a \in users' : a.network = NetworkOf[t] /\ LoggedInAt(HostOf[t], a)'}
    BY <1>6, <1>7
<1>. QED  BY ONLY <1>1, <1>4, <1>5, <1>8, <1>9, <1>10

\* For any hosts, tabs and accounts: nothing but a logout at the host (or clearing
\* the site's data) takes from a host what works there, and the logout hands the
\* tab working credentials of all accounts that stay logged in.
THEOREM LogoutReplacesKeys == Spec => OnlyLogoutReplacesKeys
<1> DEFINE Replaced(h) ==
               \E t \in Tab :
                  /\ HostOf[t] = h
                  /\ OnPage(t, "logout")
                  /\ ~LoggedInAt(h, window[t].about)'
                  /\ posted'[t] # <<>>
                  /\ LET given == posted'[t][Len(posted'[t])].users
                     IN  /\ {c.account : c \in given} =
                                {a \in users' : a.network = NetworkOf[t] /\ LoggedInAt(h, a)'}
                         /\ \A c \in given : c.sealed.key = seedHexKey'[h]
<1>1. ASSUME TypeOK, [Next]_vars, NEW h \in Host,
             seedHexKey[h] # NoKey, seedHexKey'[h] \notin {seedHexKey[h], NoKey}
      PROVE  Replaced(h)
    <2>1. PICK t \in Tab : HostOf[t] = h /\ LogoutSubmit(t)
        BY <1>1, OnlyLogoutReplaces
    <2>. QED  BY <1>1, <2>1, LogoutPostsTheRest
<1>2. TypeOK /\ [Next]_vars =>
          [\A h \in Host : seedHexKey[h] # NoKey /\ seedHexKey'[h] \notin {seedHexKey[h], NoKey}
                               => Replaced(h)]_vars
    <2> HIDE DEF Replaced
    <2>. QED  BY <1>1
<1>. QED  BY <1>2, TypeCorrect, PTL DEF Spec, OnlyLogoutReplacesKeys
----------------------------------------------------------------------------
(* The refinement of Consent *)

\* Levels are those the clients may ask for, in the storage and in every
\* credential about: the grants read off a state are grants of Consent.
LevelsAreAskedFor ==
    /\ levels \in [Host -> [Account -> AccessLevelRequest \cup {None}]]
    /\ \A t \in Tab : \A c \in Held(t) : c.level \in AccessLevelRequest

RefInv == VaultInv /\ LevelsAreAskedFor

LEMMA InGranted ==
    ASSUME NEW h \in Host, NEW g
    PROVE  g \in Granted[h] <=>
               \E t \in Tab : \E c \in Held(t) :
                   HostOf[t] = h /\ Works(h, c) /\ g = AsGrant(c)
<1>1. Granted[h] = UNION {{AsGrant(c) : c \in {d \in Held(t) : Works(h, d)}} :
                          t \in {t \in Tab : HostOf[t] = h}}
    BY DEF Granted
<1>. QED  BY <1>1

LEMMA InGrantedThen ==
    ASSUME NEW h \in Host, NEW g
    PROVE  g \in Granted'[h] <=>
               \E t \in Tab : \E c \in Held(t)' :
                   HostOf[t] = h /\ Works(h, c)' /\ g = AsGrant(c)
<1>1. Granted'[h] = UNION {{AsGrant(c) : c \in {d \in Held(t)' : Works(h, d)'}} :
                           t \in {t \in Tab : HostOf[t] = h}}
    BY DEF Granted
<1>. QED  BY <1>1

\* A credential read as a grant.
LEMMA GrantType ==
    ASSUME NEW c \in Credential, c.level \in AccessLevelRequest
    PROVE  AsGrant(c) \in Promise!Grant
BY DEF AsGrant, Promise!Grant, Credential

GrantsAreGrants == Granted \in [Host -> SUBSET Promise!Grant]

LEMMA GrantedType == RefInv => GrantsAreGrants
<1> SUFFICES ASSUME RefInv  PROVE GrantsAreGrants
    OBVIOUS
<1>1. ASSUME NEW h \in Host, NEW g \in Granted[h]  PROVE g \in Promise!Grant
    <2>1. PICK t \in Tab : \E c \in Held(t) : g = AsGrant(c)
        BY InGranted
    <2>2. PICK c \in Held(t) : g = AsGrant(c)
        BY <2>1
    <2>3. c \in Credential /\ c.level \in AccessLevelRequest
        BY HeldType DEF RefInv, VaultInv, LevelsAreAskedFor
    <2>. QED  BY <2>2, <2>3, GrantType
<1>2. Granted = [h \in Host |-> Granted[h]]
    BY DEF Granted
<1>. QED  BY <1>1, <1>2 DEF GrantsAreGrants

\* A host's key is kept, dropped or replaced by one never used.
KeysMoveOn ==
    \A h \in Host : seedHexKey'[h] \in {NoKey, seedHexKey[h]} \/ seedHexKey'[h] = nextKey

\* What worked before such a step is all that can work after it of what was
\* held before it.
LEMMA OnlyWorkingWorksOn ==
    ASSUME VaultInv, KeysMoveOn, NEW u \in Tab, NEW c \in Held(u), NEW h \in Host, Works(h, c)'
    PROVE  Works(h, c) /\ seedHexKey'[h] = seedHexKey[h]
<1>1. c \in Credential /\ c.sealed.key < nextKey
    BY HeldType DEF VaultInv, Sound
<1>2. c.sealed.key \in Nat /\ c.sealed.key # NoKey /\ nextKey \in Nat
    BY <1>1 DEF Credential, Key, VaultInv, TypeOK
<1>3. c.sealed.key = seedHexKey'[h]
    BY DEF Works
<1>. QED  BY <1>1, <1>2, <1>3 DEF KeysMoveOn, Works

LEMMA NothingNewGranted ==
    ASSUME VaultInv, KeysMoveOn, NEW r \in Host,
           \A u \in Tab : \A c \in Held(u)' :
               \E v \in Tab : HostOf[v] = HostOf[u] /\ c \in Held(v)
    PROVE  Granted'[r] \subseteq Granted[r]
<1> SUFFICES ASSUME NEW g \in Granted'[r]  PROVE g \in Granted[r]
    OBVIOUS
<1>1. PICK u \in Tab : \E c \in Held(u)' : HostOf[u] = r /\ Works(r, c)' /\ g = AsGrant(c)
    BY InGrantedThen
<1>2. PICK c \in Held(u)' : HostOf[u] = r /\ Works(r, c)' /\ g = AsGrant(c)
    BY <1>1
<1>3. PICK v \in Tab : HostOf[v] = r /\ c \in Held(v)
    BY <1>2
<1>4. Works(r, c)
    BY <1>2, <1>3, OnlyWorkingWorksOn
<1>. QED  BY <1>2, <1>3, <1>4, InGranted

\* A step that issues nothing grants nothing new, in the words of Consent.
LEMMA NoIssueNoNewGrants ==
    ASSUME VaultInv, KeysMoveOn, GrantsAreGrants',
           \A u \in Tab : \A c \in Held(u)' :
               \E v \in Tab : HostOf[v] = HostOf[u] /\ c \in Held(v)
    PROVE  Promise!NoNewGrants
BY NothingNewGranted DEF Promise!NoNewGrants, GrantsAreGrants

\* A credential sealed when a flow ends is a grant of the level that stands.
LEMMA SealedStands ==
    ASSUME NEW t \in Tab, NEW us \in SUBSET Account, NEW key,
           NEW lv \in [Host -> [Account -> AccessLevelRequest \cup {None}]],
           NEW c \in GetEncryptedUsers(t, us, lv, key)
    PROVE  /\ c.account \in Account
           /\ c.level = lv[HostOf[t]][c.account]
           /\ c.level \in AccessLevelRequest
<1>0. HostOf[t] \in Host
    BY TabAssumption
<1>1. PICK a \in LoggedIn(t, us, lv) : c = Seal(a, HostOf[t], lv, key)
    BY DEF GetEncryptedUsers
<1>2. a \in Account /\ c.account = a /\ c.level = GetAccessLevel(lv, HostOf[t], a)
    BY <1>1 DEF LoggedIn, Seal
<1>3. GetAccessLevel(lv, HostOf[t], a) # None
    BY <1>1 DEF LoggedIn
<1>. QED  BY <1>0, <1>2, <1>3, RequestAssumption DEF GetAccessLevel

LEMMA FinishFlowKeys ==
    ASSUME TypeOK, NEW t \in Tab, NEW us, NEW lv, NEW reset \in BOOLEAN, NEW signedBy,
           FinishFlow(t, us, lv, reset, signedBy)
    PROVE  KeysMoveOn /\ (reset => seedHexKey'[HostOf[t]] = nextKey)
<1>1. HostOf[t] \in Host
    BY TabAssumption
<1>2. \/ StoreKey(HostOf[t], SeedHexEncryptionKey(HostOf[t], reset))
      \/ seedHexKey' = seedHexKey /\ ~reset
    BY DEF FinishFlow
<1>. QED  BY <1>1, <1>2, LoadedKey DEF KeysMoveOn
\* Ending a flow regrants at the tab's host what stands there; after a reset
\* nothing else is left there.
LEMMA FinishFlowRegrants ==
    ASSUME RefInv, GrantsAreGrants',
           NEW t \in Tab, NEW us \in SUBSET Account,
           NEW lv \in [Host -> [Account -> AccessLevelRequest \cup {None}]],
           NEW reset \in BOOLEAN, NEW signedBy,
           FinishFlow(t, us, lv, reset, signedBy), users' = us, levels' = lv
    PROVE  /\ Promise!Regrant(HostOf[t])
           /\ reset => Granted'[HostOf[t]] \subseteq Promise!Standing(HostOf[t])'
           /\ UNCHANGED <<Asked, answer>>
<1> DEFINE h == HostOf[t]
<1>0. h \in Host /\ TypeOK /\ VaultInv /\ nextKey \in Nat
    BY TabAssumption DEF RefInv, VaultInv, TypeOK, Key
<1>1. KeysMoveOn /\ (reset => seedHexKey'[h] = nextKey)
    BY <1>0, FinishFlowKeys
<1>2. ASSUME NEW r \in Host, NEW g \in Granted'[r]
      PROVE  \/ g \in Granted[r] /\ ~(reset /\ r = h)
             \/ r = h /\ g \in Promise!Standing(h)'
    <2>1. PICK u \in Tab : \E c \in Held(u)' : HostOf[u] = r /\ Works(r, c)' /\ g = AsGrant(c)
        BY <1>2, InGrantedThen
    <2>2. PICK c \in Held(u)' : HostOf[u] = r /\ Works(r, c)' /\ g = AsGrant(c)
        BY <2>1
    <2>3. CASE c \in Held(u)
        <3>1. Works(r, c) /\ seedHexKey'[r] = seedHexKey[r]
            BY <1>0, <1>1, <2>2, <2>3, OnlyWorkingWorksOn
        <3>2. seedHexKey[r] # nextKey
            BY <1>0, <1>2 DEF VaultInv, KeysAreFresh, TypeOK
        <3>. QED  BY <1>1, <1>2, <2>2, <2>3, <3>1, <3>2, InGranted
    <2>4. CASE u = t /\ c \in GetEncryptedUsers(t, us, lv, SeedHexEncryptionKey(h, reset))
        <3>1. /\ c.account \in Account
              /\ c.level = lv[h][c.account]
              /\ c.level \in AccessLevelRequest
            BY <2>4, SealedStands
        <3>2. g \in Promise!Grant /\ g.account = c.account /\ g.level = c.level
            BY <2>2, <3>1 DEF AsGrant, Promise!Grant
        <3>. QED  BY <2>2, <2>4, <3>1, <3>2 DEF Promise!Standing
    <2>. QED  BY <1>0, <2>3, <2>4, FinishFlowHeld
<1>3. UNCHANGED <<request, answer>>
    BY DEF FinishFlow, callVars
<1>4. UNCHANGED Asked
    BY <1>3 DEF Asked
<1>. QED  BY <1>0, <1>2, <1>3, <1>4 DEF Promise!Regrant, GrantsAreGrants

\* The levels of the storage and of the credentials about stay those asked for.
LEMMA FinishFlowLevels ==
    ASSUME RefInv, NEW t \in Tab, NEW us \in SUBSET Account,
           NEW lv \in [Host -> [Account -> AccessLevelRequest \cup {None}]],
           NEW reset \in BOOLEAN, NEW signedBy,
           FinishFlow(t, us, lv, reset, signedBy), users' = us, levels' = lv
    PROVE  LevelsAreAskedFor'
<1>1. ASSUME NEW u \in Tab, NEW c \in Held(u)'  PROVE c.level \in AccessLevelRequest
    <2>1. \/ c \in Held(u)
          \/ u = t /\ c \in GetEncryptedUsers(t, us, lv, SeedHexEncryptionKey(HostOf[t], reset))
        BY FinishFlowHeld DEF RefInv, VaultInv
    <2>. QED  BY <2>1, SealedStands DEF RefInv, LevelsAreAskedFor
<1>. QED  BY <1>1 DEF LevelsAreAskedFor

LEMMA NoIssueLevels ==
    ASSUME LevelsAreAskedFor,
           levels' \in [Host -> [Account -> AccessLevelRequest \cup {None}]],
           \A u \in Tab : \A c \in Held(u)' :
               \E v \in Tab : HostOf[v] = HostOf[u] /\ c \in Held(v)
    PROVE  LevelsAreAskedFor'
BY DEF LevelsAreAskedFor

LEMMA SetLevelAskedFor ==
    ASSUME LevelsAreAskedFor, NEW h \in Host, NEW a, NEW level \in AccessLevelRequest \cup {None}
    PROVE  SetAccessLevel(h, a, level) \in [Host -> [Account -> AccessLevelRequest \cup {None}]]
BY DEF SetAccessLevel, LevelsAreAskedFor

\* The iframe issues no credential and only loads its host's key.
LEMMA IframeStepHeld ==
    ASSUME TypeOK, NEW t \in Tab, IframeStep(t)
    PROVE  /\ \A u \in Tab : \A c \in Held(u)' : c \in Held(u)
           /\ KeysMoveOn
           /\ UNCHANGED levels
<1>0. HostOf[t] \in Host
    BY TabAssumption
<1>1. /\ UNCHANGED <<levels, posted, identityServiceUsers, storedUsers>>
      /\ request' = [request EXCEPT ![t] = NoRequest]
      /\ \/ UNCHANGED seedHexKey
         \/ StoreKey(HostOf[t], SeedHexEncryptionKey(HostOf[t], FALSE))
    BY DEF IframeStep, HandleSign, HandleJwt, HandleUnparsable, Handle, vaultVars, clientVars
<1>2. ASSUME NEW u \in Tab, NEW c \in Held(u)'  PROVE c \in Held(u)
    BY <1>1, <1>2 DEF Held, TypeOK
<1>3. KeysMoveOn
    BY <1>0, <1>1, LoadedKey DEF KeysMoveOn
<1>. QED  BY <1>1, <1>2, <1>3
\* What a user's step is to Consent: at most the loading of a key, or the end of a flow at the tab's
\* host after setting one level there, to None with a reset.
FlowEnds(t, reset) ==
    /\ \E signedBy : FinishFlow(t, users', levels', reset, signedBy)
    /\ users' \in SUBSET Account
    /\ levels' \in [Host -> [Account -> AccessLevelRequest \cup {None}]]

UserStepKinds(t) ==
    \/ KeysMoveOn /\ UNCHANGED <<levels, posted, clientVars, callVars>>
    \/ FlowEnds(t, FALSE) /\ levels' = levels
    \/ /\ FlowEnds(t, FALSE)
       /\ \E a \in Account, l \in AccessLevelRequest : levels' = SetAccessLevel(HostOf[t], a, l)
    \/ /\ FlowEnds(t, TRUE)
       /\ \E a \in Account \cup {NoAccount} : levels' = SetAccessLevel(HostOf[t], a, None)

LEMMA UserStepIsAKind ==
    ASSUME RefInv, NEW t \in Tab, UserStep(t)
    PROVE  UserStepKinds(t)
<1>0. HostOf[t] \in Host /\ NetworkOf[t] \in Network /\ TypeOK /\ LevelsAreAskedFor
    BY TabAssumption DEF RefInv, VaultInv
<1>1. users' \in SUBSET Account
    BY <1>0, UserStepType DEF TypeOK
<1>2. CASE GoTo(t) \/ CloseWindow(t) \/ ClickLoadAccount(t)
    BY <1>2 DEF GoTo, CloseWindow, ClickLoadAccount, vaultVars, UserStepKinds, KeysMoveOn
<1>3. ASSUME NEW a \in Account, NEW l \in AccessLevelRequest,
             levels' = SetAccessLevel(HostOf[t], a, l),
             \E signedBy : FinishFlow(t, users', levels', FALSE, signedBy)
      PROVE  UserStepKinds(t)
    <2>1. levels' \in [Host -> [Account -> AccessLevelRequest \cup {None}]]
        BY <1>0, <1>3, SetLevelAskedFor
    <2>. QED  BY <1>1, <1>3, <2>1 DEF UserStepKinds, FlowEnds
<1>4. CASE SelectAccount(t)
    <2>1. PICK a \in window[t].listed :
              /\ levels' = SetAccessLevel(HostOf[t], a, window[t].level)
              /\ users' = users
              /\ FinishFlow(t, users, levels', FALSE, NoAccount)
        BY <1>4 DEF SelectAccount
    <2>2. a \in Account /\ window[t].level \in AccessLevelRequest
        BY <1>0, <1>4, <2>1, WindowLevel DEF SelectAccount
    <2>3. FinishFlow(t, users', levels', FALSE, NoAccount)
        BY <2>1
    <2>. QED  BY <1>3, <2>1, <2>2, <2>3
<1>5. CASE StepTwoNext(t)
    <2>1. PICK s \in Seed :
              LET a == [seed |-> s, network |-> NetworkOf[t]]
              IN  /\ users' = users \cup {a}
                  /\ levels' = SetAccessLevel(HostOf[t], a, window[t].level)
                  /\ FinishFlow(t, users', levels', FALSE, NoAccount)
        BY <1>5 DEF StepTwoNext
    <2>2. window[t].level \in AccessLevelRequest
        BY <1>0, <1>5, WindowLevel DEF StepTwoNext
    <2>3. [seed |-> s, network |-> NetworkOf[t]] \in Account
        BY <1>0 DEF Account
    <2>. QED  BY <1>3, <2>1, <2>2, <2>3
<1>6. CASE LogoutSubmit(t)
    <2>1. window[t].about \in Account \cup {NoAccount}
        BY <1>0, <1>6 DEF LogoutSubmit, OnPage, TypeOK, Window
    <2>2. levels' = SetAccessLevel(HostOf[t], window[t].about, None)
        BY <1>6 DEF LogoutSubmit
    <2>3. levels' \in [Host -> [Account -> AccessLevelRequest \cup {None}]]
        BY <1>0, <2>2, SetLevelAskedFor
    <2>4. FinishFlow(t, users', levels', TRUE, NoAccount)
        BY <1>6 DEF LogoutSubmit
    <2>5. FlowEnds(t, TRUE)
        BY <1>1, <2>3, <2>4 DEF FlowEnds
    <2>. QED  BY <2>1, <2>2, <2>5 DEF UserStepKinds
<1>7. CASE ApproveSubmit(t) \/ Cancel(t)
    <2>1. UNCHANGED <<users, levels>>
        BY <1>7 DEF ApproveSubmit, Cancel
    <2>2. \E signedBy : FinishFlow(t, users', levels', FALSE, signedBy)
        BY <1>7, <2>1 DEF ApproveSubmit, Cancel
    <2>3. FlowEnds(t, FALSE)
        BY <1>0, <1>1, <2>1, <2>2 DEF FlowEnds, LevelsAreAskedFor
    <2>. QED  BY <2>1, <2>3 DEF UserStepKinds
<1>8. CASE ApproveThrows(t)
    <2>1. KeysMoveOn
        BY <1>0, <1>8, LoadedKey DEF ApproveThrows, KeysMoveOn
    <2>. QED  BY <1>8, <2>1 DEF ApproveThrows, UserStepKinds
<1>. QED  BY <1>2, <1>4, <1>5, <1>6, <1>7, <1>8 DEF UserStep

LEMMA LevelsStep ==
    ASSUME RefInv, [Next]_vars
    PROVE  LevelsAreAskedFor'
<1>0. TypeOK /\ LevelsAreAskedFor
    BY DEF RefInv, VaultInv
<1>1. ASSUME UNCHANGED <<levels, posted, clientVars, callVars>>  PROVE LevelsAreAskedFor'
    <2>1. \A u \in Tab : Held(u)' = Held(u)
        BY <1>1 DEF Held, clientVars, callVars
    <2>. QED  BY <1>0, <1>1, <2>1 DEF LevelsAreAskedFor
<1>2. ASSUME NEW t \in Tab, UserStep(t)  PROVE LevelsAreAskedFor'
    <2>1. ASSUME NEW reset \in BOOLEAN, FlowEnds(t, reset)  PROVE LevelsAreAskedFor'
        BY <2>1, FinishFlowLevels DEF FlowEnds
    <2>. QED  BY <1>1, <1>2, <2>1, UserStepIsAKind DEF UserStepKinds
<1>3. ASSUME NEW t \in Tab, ClientStep(t)  PROVE LevelsAreAskedFor'
    <2>1. UNCHANGED levels
        BY <1>3 DEF ClientStep, LaunchLogIn, LaunchLogout, LaunchApprove, Launch,
           DeliverLogin, DropLogin, Reload, SendRequest, vaultVars
    <2>. QED  BY <1>0, <1>3, <2>1, ClientStepHeld, NoIssueLevels DEF LevelsAreAskedFor
<1>4. ASSUME NEW t \in Tab, IframeStep(t)  PROVE LevelsAreAskedFor'
    BY <1>0, <1>4, IframeStepHeld, NoIssueLevels DEF LevelsAreAskedFor
<1>5. CASE ClearSiteData
    <2>1. levels' \in [Host -> [Account -> AccessLevelRequest \cup {None}]]
        BY <1>5 DEF ClearSiteData
    <2>2. \A u \in Tab : Held(u)' = Held(u)
        BY <1>5 DEF ClearSiteData, Held, clientVars, callVars
    <2>. QED  BY <1>0, <2>1, <2>2 DEF LevelsAreAskedFor
<1>6. CASE UNCHANGED vars
    BY <1>1, <1>6 DEF vars, vaultVars
<1>. QED  BY <1>2, <1>3, <1>4, <1>5, <1>6 DEF Next

\* Every level in the storage and in a credential about is one a client may ask
\* for: what a host holds are grants of Consent.
THEOREM RefinementInvariant == Spec => []RefInv
<1>1. Init => LevelsAreAskedFor
    BY NothingHeldAtFirst DEF Init, LevelsAreAskedFor
<1>2. RefInv /\ [Next]_vars => RefInv'
    BY VaultInvStep, LevelsStep DEF RefInv
<1>. QED  BY <1>1, <1>2, VaultInvInit, PTL DEF Spec, RefInv

\* A page's step is a step of the user there, or none.
LEMMA UserStepRefines ==
    ASSUME RefInv, GrantsAreGrants', NEW t \in Tab, UserStep(t)
    PROVE  [Promise!Next]_Promise!vars
<1> DEFINE h == HostOf[t]
<1>0. h \in Host /\ TypeOK /\ VaultInv
    BY TabAssumption DEF RefInv, VaultInv
<1>1. CASE KeysMoveOn /\ UNCHANGED <<levels, posted, clientVars, callVars>>
    <2>1. \A u \in Tab : Held(u)' = Held(u)
        BY <1>1 DEF Held, clientVars, callVars
    <2>2. Promise!NoNewGrants
        BY <1>0, <1>1, <2>1, NoIssueNoNewGrants
    <2>3. Asked' = Asked /\ answer' = answer
        BY <1>1 DEF Asked, callVars
    <2>4. Promise!Reissue(h)
        BY <1>1, <2>2, <2>3 DEF Promise!Reissue, Promise!Regrant, Promise!NoNewGrants
    <2>. QED  BY <1>0, <2>4 DEF Promise!Next
<1>2. ASSUME NEW reset \in BOOLEAN, FlowEnds(t, reset)
      PROVE  /\ Promise!Regrant(h)
             /\ reset => Granted'[h] \subseteq Promise!Standing(h)'
             /\ UNCHANGED <<Asked, answer>>
    BY <1>2, FinishFlowRegrants DEF FlowEnds
<1>3. CASE FlowEnds(t, FALSE) /\ levels' = levels
    <2>1. Promise!Reissue(h)
        BY <1>2, <1>3 DEF Promise!Reissue
    <2>. QED  BY <1>0, <2>1 DEF Promise!Next
<1>4. CASE FlowEnds(t, FALSE) /\ \E a \in Account, l \in AccessLevelRequest :
                                     levels' = SetAccessLevel(h, a, l)
    <2>1. PICK a \in Account, l \in AccessLevelRequest : levels' = SetAccessLevel(h, a, l)
        BY <1>4
    <2>2. Promise!LogIn(h, a, l)
        BY <1>2, <1>4, <2>1 DEF Promise!LogIn, SetAccessLevel
    <2>. QED  BY <1>0, <2>2 DEF Promise!Next
<1>5. CASE FlowEnds(t, TRUE) /\ \E a \in Account \cup {NoAccount} :
                                    levels' = SetAccessLevel(h, a, None)
    <2>1. PICK a \in Account \cup {NoAccount} : levels' = SetAccessLevel(h, a, None)
        BY <1>5
    <2>2. CASE a \in Account
        <3>1. Promise!LogOut(h, a)
            BY <1>2, <1>5, <2>1 DEF Promise!LogOut, SetAccessLevel, None, Promise!None
        <3>. QED  BY <1>0, <2>2, <3>1 DEF Promise!Next
    <2>3. CASE a \notin Account
        <3>1. levels' = levels
            <4>1. levels \in [Host -> [Account -> AccessLevel]]
                BY <1>0 DEF TypeOK
            <4>2. [levels[h] EXCEPT ![a] = None] = levels[h]
                BY <1>0, <2>3, <4>1
            <4>3. levels' = [levels EXCEPT ![h] = [levels[h] EXCEPT ![a] = None]]
                BY <2>1 DEF SetAccessLevel
            <4>4. levels' = [levels EXCEPT ![h] = levels[h]]
                BY <4>2, <4>3
            <4>. QED  BY <4>1, <4>4
        <3>2. Promise!Reissue(h)
            BY <1>2, <1>5, <3>1 DEF Promise!Reissue
        <3>. QED  BY <1>0, <3>2 DEF Promise!Next
    <2>. QED  BY <2>2, <2>3
<1>6. UserStepKinds(t)
    BY UserStepIsAKind
<1> HIDE DEF h
<1>. QED  BY ONLY <1>1, <1>3, <1>4, <1>5, <1>6 DEF UserStepKinds, h

\* What a client waits for, as Consent sees it.
LEMMA AskedOf ==
    ASSUME NEW t \in Tab
    PROVE  Asked[t] = IF request[t] = NoRequest THEN NoRequest
                      ELSE [kind |-> request[t].kind, grant |-> AsGrant(request[t].credential)]
BY DEF Asked

LEMMA RequestIsAsk ==
    ASSUME NEW c \in Credential, c.level \in AccessLevelRequest, NEW kind \in RequestKind
    PROVE  LET ask == [kind |-> kind, grant |-> AsGrant(c)]
           IN  ask \in Promise!Ask /\ ask # NoRequest
<1>1. AsGrant(c) \in Promise!Grant
    BY GrantType
<1>2. [kind |-> kind, grant |-> AsGrant(c)] \in Promise!Ask
    BY <1>1 DEF Promise!Ask
<1>. QED  BY <1>2, NoRequestAssumption

LEMMA ClientStepRefines ==
    ASSUME RefInv, GrantsAreGrants', NEW t \in Tab, ClientStep(t)
    PROVE  [Promise!Next]_Promise!vars
<1> DEFINE h == HostOf[t]
<1>0. h \in Host /\ TypeOK /\ VaultInv
    BY TabAssumption DEF RefInv, VaultInv
<1>1. levels' = levels /\ seedHexKey' = seedHexKey
    BY DEF ClientStep, LaunchLogIn, LaunchLogout, LaunchApprove, Launch,
       DeliverLogin, DropLogin, Reload, SendRequest, vaultVars
<1>2. KeysMoveOn
    BY <1>1 DEF KeysMoveOn
<1>3. Promise!NoNewGrants
    BY <1>0, <1>2, ClientStepHeld, NoIssueNoNewGrants
<1>4. ASSUME UNCHANGED callVars  PROVE [Promise!Next]_Promise!vars
    <2>1. Asked' = Asked /\ answer' = answer
        BY <1>4 DEF Asked, callVars
    <2>2. Promise!Reissue(h)
        BY <1>1, <1>3, <2>1 DEF Promise!Reissue, Promise!Regrant, Promise!NoNewGrants
    <2>. QED  BY <1>0, <2>2 DEF Promise!Next
<1>5. CASE LaunchLogIn(t) \/ LaunchLogout(t) \/ LaunchApprove(t) \/ DeliverLogin(t) \/ DropLogin(t)
    BY <1>4, <1>5 DEF LaunchLogIn, LaunchLogout, LaunchApprove, Launch, DeliverLogin, DropLogin
<1>6. CASE Reload(t)
    <2>1. Asked' = [Asked EXCEPT ![t] = NoRequest]
        BY <1>0, <1>6 DEF Reload, Asked, TypeOK
    <2>2. Promise!Lose(t)
        BY <1>1, <1>3, <1>6, <2>1 DEF Promise!Lose, Reload
    <2>. QED  BY <2>2 DEF Promise!Next
<1>7. CASE SendRequest(t)
    <2>1. PICK kind \in RequestKind, c \in identityServiceUsers[t] :
              request' = [request EXCEPT ![t] = [kind |-> kind, credential |-> c]]
        BY <1>7 DEF SendRequest
    <2> DEFINE ask == [kind |-> kind, grant |-> AsGrant(c)]
    <2>2. c \in Credential /\ c.level \in AccessLevelRequest
        <3>1. c \in Held(t)
            BY <2>1, HeldNow
        <3>. QED  BY <1>0, <3>1, HeldType DEF RefInv, LevelsAreAskedFor
    <2>3. ask \in Promise!Ask /\ ask # NoRequest
        BY <2>2, RequestIsAsk
    <2>4. Asked[t] = NoRequest
        BY <1>7, AskedOf DEF SendRequest
    <2>5. [kind |-> kind, credential |-> c] # NoRequest
        BY <2>2, NoRequestAssumption DEF Request
    <2>6. Asked' = [Asked EXCEPT ![t] = ask]
        BY <1>0, <2>1, <2>5 DEF Asked, TypeOK
    <2> HIDE DEF ask
    <2>7. Promise!AskFor(t)
        BY <1>1, <1>3, <1>7, <2>3, <2>4, <2>6 DEF Promise!AskFor, SendRequest
    <2>. QED  BY <2>7 DEF Promise!Next
<1>. QED  BY <1>5, <1>6, <1>7 DEF ClientStep
\* A request that can be parsed is signed by virtue of a grant the site still
\* has, or its client told to ask the user.
LEMMA HandleRefines ==
    ASSUME RefInv, GrantsAreGrants', NEW t \in Tab,
           HandleSign(t) \/ HandleJwt(t)
    PROVE  Promise!Sign(t) \/ Promise!AskTheUser(t)
<1> DEFINE c    == request[t].credential
           kind == request[t].kind
           must == RequiredAccessLevel(kind)
           key  == SeedHexEncryptionKey(HostOf[t], FALSE)
<1>0. HostOf[t] \in Host /\ TypeOK /\ VaultInv /\ IframeStep(t)
    BY TabAssumption DEF RefInv, VaultInv, IframeStep
<1>1. request[t] # NoRequest /\ request[t] \in Request /\ kind # "unparsable" /\ Handle(t, must)
    BY <1>0 DEF HandleSign, HandleJwt, TypeOK
<1>2. c \in Held(t) /\ c \in Credential /\ c.level \in AccessLevelRequest /\ kind \in RequestKind
    <2>1. c \in Held(t)
        BY <1>1, HeldNow
    <2>. QED  BY <1>0, <1>1, <2>1, HeldType DEF Request, RefInv, LevelsAreAskedFor
<1>3. /\ Asked[t] = [kind |-> kind, grant |-> AsGrant(c)]
      /\ Asked[t] # NoRequest
    BY <1>1, <1>2, AskedOf, RequestIsAsk
<1>4. Asked' = [Asked EXCEPT ![t] = NoRequest]
    BY <1>0, <1>1 DEF Handle, Asked, TypeOK
<1>5. Promise!NoNewGrants /\ levels' = levels
    BY <1>0, IframeStepHeld, NoIssueNoNewGrants
<1>6. CASE HasAccessLevel(c, must, key) /\ ApproveSpending(c, kind)
    <2>1. answer' = [answer EXCEPT ![t] = "signed"]
        BY <1>1, <1>6 DEF Handle
    <2>2. Works(HostOf[t], c)
        BY <1>0, <1>2, <1>6, ProvedMeansWorks DEF VaultInv
    <2>3. AsGrant(c) \in Granted[HostOf[t]]
        BY <1>0, <1>2, <2>2, InGranted
    <2>4. Promise!Permits(AsGrant(c).level, kind)
        BY <1>1, <1>2, <1>6, EnoughIsPermitted DEF AsGrant
    <2>5. Promise!Sign(t)
        BY <1>3, <1>4, <1>5, <2>1, <2>3, <2>4 DEF Promise!Sign
    <2>. QED  BY <2>5
<1>7. CASE ~(HasAccessLevel(c, must, key) /\ ApproveSpending(c, kind))
    <2>1. answer' = [answer EXCEPT ![t] = "approvalRequired"]
        BY <1>1, <1>7 DEF Handle
    <2>2. Promise!AskTheUser(t)
        BY <1>3, <1>4, <1>5, <2>1 DEF Promise!AskTheUser
    <2>. QED  BY <2>2
<1>. QED  BY <1>6, <1>7

LEMMA IframeStepRefines ==
    ASSUME RefInv, GrantsAreGrants', NEW t \in Tab, IframeStep(t)
    PROVE  [Promise!Next]_Promise!vars
<1>0. HostOf[t] \in Host /\ TypeOK /\ VaultInv
    BY TabAssumption DEF RefInv, VaultInv
<1>1. CASE HandleSign(t) \/ HandleJwt(t)
    <2>1. Promise!Sign(t) \/ Promise!AskTheUser(t)
        BY <1>1, HandleRefines
    <2>. QED  BY <2>1 DEF Promise!Next
<1>2. CASE HandleUnparsable(t)
    <2>1. Promise!NoNewGrants /\ levels' = levels
        BY <1>0, IframeStepHeld, NoIssueNoNewGrants
    <2>2. Asked' = [Asked EXCEPT ![t] = NoRequest]
        BY <1>0, <1>2 DEF HandleUnparsable, Asked, TypeOK
    <2>3. answer' = answer
        BY <1>2 DEF HandleUnparsable
    <2>4. Promise!Lose(t)
        BY <2>1, <2>2, <2>3 DEF Promise!Lose
    <2>. QED  BY <2>4 DEF Promise!Next
<1>. QED  BY <1>1, <1>2 DEF IframeStep

LEMMA ClearSiteDataRefines ==
    ASSUME RefInv, ClearSiteData
    PROVE  Promise!ForgetAll
<1>1. ASSUME NEW h \in Host, NEW g \in Granted'[h]  PROVE FALSE
    <2>1. PICK u \in Tab : \E c \in Held(u)' : Works(h, c)'
        BY <1>1, InGrantedThen
    <2>2. PICK c \in Held(u)' : Works(h, c)'
        BY <2>1
    <2>3. c \in Held(u)
        BY <2>2 DEF ClearSiteData, Held, clientVars, callVars
    <2>4. c \in Credential
        BY <2>3, HeldType DEF RefInv, VaultInv
    <2>5. c.sealed.key # NoKey
        BY <2>4 DEF Credential, Key
    <2>. QED  BY <2>2, <2>5 DEF ClearSiteData, Works
<1>2. Granted' = [h \in Host |-> Granted'[h]]
    BY DEF Granted
<1>3. Granted' = [h \in Host |-> {}]
    BY <1>1, <1>2
<1>4. Asked' = Asked /\ answer' = answer
    BY DEF ClearSiteData, Asked, callVars
<1>. QED  BY <1>3, <1>4 DEF ClearSiteData, Promise!ForgetAll, None, Promise!None

LEMMA InitRefines ==
    ASSUME Init
    PROVE  Promise!Init
<1>1. \A h \in Host : Granted[h] = {}
    BY NothingHeldAtFirst, InGranted
<1>2. Granted = [h \in Host |-> Granted[h]]
    BY DEF Granted
<1>3. Granted = [h \in Host |-> {}]
    BY <1>1, <1>2
<1>4. Asked = [t \in Tab |-> NoRequest]
    BY DEF Init, Asked
<1>. QED  BY <1>3, <1>4 DEF Init, Promise!Init, None, Promise!None

\* For any hosts, tabs, levels and kinds of request: windows, keys, credentials and
\* messages do nothing that the promise to the user does not allow.  A site has
\* signatures without asking only by grants given to it and not revoked.
THEOREM VaultKeepsThePromise == Spec => KeepsThePromise
<1>1. ASSUME RefInv, RefInv', GrantsAreGrants', [Next]_vars
      PROVE  [Promise!Next]_Promise!vars
    <2>1. CASE UNCHANGED vars
        <3>1. \A t \in Tab : Held(t)' = Held(t)
            BY <2>1 DEF vars, clientVars, callVars, Held
        <3>2. Granted' = Granted
            BY <2>1, <3>1 DEF Granted, Works, vars, vaultVars
        <3>3. Asked' = Asked
            BY <2>1 DEF Asked, vars, callVars
        <3>. QED  BY <2>1, <3>2, <3>3 DEF Promise!vars, vars, vaultVars, callVars
    <2>2. CASE ClearSiteData
        BY <1>1, <2>2, ClearSiteDataRefines DEF Promise!Next
    <2>. QED  BY <1>1, <2>1, <2>2, UserStepRefines, ClientStepRefines, IframeStepRefines DEF Next
<1>2. RefInv /\ RefInv' /\ GrantsAreGrants' /\ [Next]_vars
          => [Promise!Next]_Promise!vars
    BY <1>1
<1>3. Init => Promise!Init
    BY InitRefines
<1>. QED  BY <1>2, <1>3, GrantedType, RefinementInvariant, PTL
          DEF Spec, KeepsThePromise, Promise!Spec
=============================================================================
