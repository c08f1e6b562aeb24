---------------------------- MODULE IdentityVault ----------------------------
(***************************************************************************)
(* The identity site keeps seeds in the browser and signs for other web    *)
(* sites ("hosts").  A host never sees a seed.  When the user logs in, the *)
(* identity window posts to the host, for every account logged in there, a *)
(* credential: the seed encrypted under a key of that host, the access     *)
(* level the user granted, and an HMAC of the level keyed by the seed.     *)
(* The host keeps the credentials and sends one with every request to the  *)
(* identity iframe, which signs or answers "approvalRequired".             *)
(*                                                                         *)
(* This module is that life cycle: the storage of the identity origin      *)
(* (users, levels, one encryption key per host), the identity windows a    *)
(* host's tabs open, the login messages on their way to the tab, and the   *)
(* requests the tabs send to their iframes.  Windows and iframes of one    *)
(* browser read and write the storage in handlers that run to completion,  *)
(* so each handler is one action.  Cryptography is ideal: a seed sealed    *)
(* under a key opens only with that key, and every new key is unlike all   *)
(* others, so keys are numbers handed out in order.                        *)
(***************************************************************************)
EXTENDS Naturals, Sequences, FiniteSets

CONSTANTS
    Host,                \* hostnames the identity site is used from
    Tab,                 \* browser tabs of the hosts' web apps
    HostOf,              \* the host a tab belongs to
    NetworkOf,           \* the network its client asks for (isTestnet)
    Network,             \* mainnet, testnet
    Seed,                \* the seeds a user may load or generate
    AccessLevelRequest,  \* the levels the clients ask for
    RequestKind,         \* the kinds of request they send
    Garbage,             \* what decrypting with a wrong key yields
    Closed,              \* no identity window is open
    NoAccount,
    NoRequest,
    MaxKeys,             \* bound: keys generated by the user's steps
    MaxPosted            \* bound: login messages on their way to one tab

None         == 0
ApproveAll   == 2
ApproveLarge == 3
Full         == 4
AccessLevel  == 0 .. 4

\* accessLevelRequest is parsed and never checked; the clients modelled here
\* ask for a level of the enumeration other than None.
ASSUME RequestAssumption == /\ AccessLevelRequest \subseteq AccessLevel \ {None}
                            /\ ApproveAll \in AccessLevelRequest \* the default
ASSUME TabAssumption     == /\ HostOf \in [Tab -> Host]
                            /\ NetworkOf \in [Tab -> Network]
ASSUME BoundAssumption   == MaxKeys \in Nat /\ MaxPosted \in Nat
ASSUME GarbageAssumption == Garbage \notin Seed

NoKey == 0
Key   == Nat \ {NoKey}

\* A public key is the seed's with the prefix of a network.
Account == [seed : Seed, network : Network]

Credential == [account : Account,
               sealed  : [key : Key, seed : Seed],
               level   : AccessLevel,
               hmac    : [seed : Seed, level : AccessLevel]]

Page   == {"log-in", "load-seed", "sign-up", "logout", "approve"}
Window == [page   : Page,
           level  : AccessLevelRequest,
           about  : Account \cup {NoAccount},
           listed : SUBSET Account]

\* What a host may ask of its iframe.  "social" is a post, message, like or
\* follow that pays nobody else, "socialPaying" one that does, "transfer" any
\* other transaction; an "unparsable" one has a type the parser does not know.
Kind    == {"jwt", "social", "socialPaying", "transfer", "unparsable"}
ASSUME KindAssumption == RequestKind \subseteq Kind
Request == [kind : RequestKind, credential : Credential]
Answer  == {"none", "pending", "signed", "approvalRequired"}

VARIABLES
    users,                 \* accounts in the identity origin's storage
    levels,                \* the level stored for every host and account
    seedHexKey,            \* the encryption key stored for every host
    nextKey,               \* the next key to be generated
    window,                \* the identity window each tab has opened
    identityWindow,        \* TRUE while the client's identityWindow is not null
    posted,                \* login payloads on their way to the tab, in order
    identityServiceUsers,  \* the credentials a tab keeps
    storedUsers,           \* the credentials in the host's own localStorage
    request,               \* the request on its way to the iframe
    answer                 \* what became of the tab's last request

vaultVars  == <<users, levels, seedHexKey, nextKey>>
clientVars == <<identityServiceUsers, storedUsers>>
callVars   == <<request, answer>>
vars == <<vaultVars, window, identityWindow, posted, clientVars, callVars>>

----------------------------------------------------------------------------
(* Storage and credentials *)

\* Only a level of the enumeration counts; anything else reads as None.
GetAccessLevel(lv, h, a) == IF lv[h][a] \in AccessLevel THEN lv[h][a] ELSE None

\* The accounts getEncryptedUsers returns to a tab.
LoggedIn(t, us, lv) ==
    {a \in us : a.network = NetworkOf[t] /\ GetAccessLevel(lv, HostOf[t], a) # None}

\* Faulty variant: the key is generated whether or not there is one.
SeedHexEncryptionKeyAnew(h, reset) == nextKey

\* The key loaded for a host: a new one if there is none or a reset is asked.
SeedHexEncryptionKey(h, reset) ==
    IF reset \/ seedHexKey[h] = NoKey THEN nextKey ELSE seedHexKey[h]

\* Faulty variant: the storage key does not contain the hostname.
StoreKeyForAll(h, key) ==
    /\ seedHexKey' = [g \in Host |-> key]
    /\ nextKey' = IF key = nextKey THEN nextKey + 1 ELSE nextKey

StoreKey(h, key) ==
    /\ seedHexKey' = [seedHexKey EXCEPT ![h] = key]
    /\ nextKey' = IF key = nextKey THEN nextKey + 1 ELSE nextKey

AccessLevelHmac(level, seed) == [seed |-> seed, level |-> level]

Seal(a, h, lv, key) ==
    LET level == GetAccessLevel(lv, h, a)
    IN [account |-> a,
        sealed  |-> [key |-> key, seed |-> a.seed],
        level   |-> level,
        hmac    |-> AccessLevelHmac(level, a.seed)]

GetEncryptedUsers(t, us, lv, key) ==
    {Seal(a, HostOf[t], lv, key) : a \in LoggedIn(t, us, lv)}

DecryptSeedHex(sealed, key) == IF sealed.key = key THEN sealed.seed ELSE Garbage

ValidAccessLevelHmac(level, seed, hmac) == hmac = AccessLevelHmac(level, seed)

RequiredAccessLevel(kind) ==
    CASE kind = "jwt" -> ApproveAll
      [] kind \in {"social", "socialPaying"} -> ApproveLarge
      [] OTHER -> Full

PaysOthers(kind) == kind = "socialPaying"

SetAccessLevel(h, a, level) == [levels EXCEPT ![h][a] = level]

----------------------------------------------------------------------------
(* Identity windows *)

Open(t, page, level, about) ==
    [page |-> page, level |-> level, about |-> about,
     listed |-> IF page = "log-in"
                THEN {a \in users : a.network = NetworkOf[t]} ELSE {}]

\* A client opens an identity window and remembers it; another one it still
\* remembers, because the user closed it, is forgotten.
Launch(t, page, level, about) ==
    /\ window[t] = Closed
    /\ window' = [window EXCEPT ![t] = Open(t, page, level, about)]
    /\ identityWindow' = [identityWindow EXCEPT ![t] = TRUE]
    /\ UNCHANGED <<vaultVars, posted, clientVars, callVars>>

LaunchLogIn(t) ==
    \E page \in {"log-in", "sign-up"}, level \in AccessLevelRequest :
        Launch(t, page, level, NoAccount)

\* The client asks to log out an account it has a credential for.  It names no
\* level: the default stands.
LaunchLogout(t) ==
    \E c \in identityServiceUsers[t] : Launch(t, "logout", ApproveAll, c.account)

\* The client asks to approve a transaction.  The window shows the key in the
\* transaction with the prefix of its own network.
LaunchApprove(t) ==
    \E c \in identityServiceUsers[t] :
        Launch(t, "approve", ApproveAll,
               [seed |-> c.account.seed, network |-> NetworkOf[t]])

\* The links of the log-in page.
GoTo(t) ==
    /\ window[t] # Closed
    /\ window[t].page = "log-in"
    /\ \E page \in {"load-seed", "sign-up"} :
           window' = [window EXCEPT ![t].page = page, ![t].listed = {}]
    /\ UNCHANGED <<vaultVars, identityWindow, posted, clientVars, callVars>>

CloseWindow(t) ==
    /\ window[t] # Closed
    /\ window' = [window EXCEPT ![t] = Closed]
    /\ UNCHANGED <<vaultVars, identityWindow, posted, clientVars, callVars>>

\* Every flow ends in posting the accounts logged in at the host (and, after an
\* approval, the account that signed) to the window's opener.  Sealing loads
\* the host's key, and a key is generated if there is none; a logout has
\* already replaced it.
FinishFlow(t, us, lv, reset, signedBy) ==
    LET h   == HostOf[t]
        key == SeedHexEncryptionKey(h, reset)
    IN  /\ Len(posted[t]) < MaxPosted
        /\ posted' = [posted EXCEPT ![t] = Append(@,
               [users |-> GetEncryptedUsers(t, us, lv, key), signedBy |-> signedBy])]
        /\ IF reset \/ LoggedIn(t, us, lv) # {}
           THEN key <= MaxKeys /\ StoreKey(h, key)
           ELSE UNCHANGED <<seedHexKey, nextKey>>
        /\ UNCHANGED <<window, identityWindow, clientVars, callVars>>

OnPage(t, page) == window[t] # Closed /\ window[t].page = page

\* log-in: the user picks one of the accounts listed when the page opened.
SelectAccount(t) ==
    /\ OnPage(t, "log-in")
    /\ \E a \in window[t].listed :
           /\ levels' = SetAccessLevel(HostOf[t], a, window[t].level)
           /\ users' = users
           /\ FinishFlow(t, users, levels', FALSE, NoAccount)

\* load-seed: the account joins the storage, and the page becomes the log-in
\* page, which lists it.
ClickLoadAccount(t) ==
    /\ OnPage(t, "load-seed")
    /\ \E s \in Seed :
           /\ users' = users \cup {[seed |-> s, network |-> NetworkOf[t]]}
           /\ window' = [window EXCEPT ![t].page = "log-in",
                             ![t].listed = {a \in users' : a.network = NetworkOf[t]}]
    /\ UNCHANGED <<levels, seedHexKey, nextKey, identityWindow, posted,
                   clientVars, callVars>>

\* sign-up, step two: the account joins the storage and is logged in at once.
StepTwoNext(t) ==
    /\ OnPage(t, "sign-up")
    /\ \E s \in Seed :
           LET a == [seed |-> s, network |-> NetworkOf[t]]
           IN  /\ users' = users \cup {a}
               /\ levels' = SetAccessLevel(HostOf[t], a, window[t].level)
               /\ FinishFlow(t, users', levels', FALSE, NoAccount)

\* Faulty variant: logging out leaves the key in place.
LogoutKeepingKey(t) ==
    /\ OnPage(t, "logout")
    /\ levels' = SetAccessLevel(HostOf[t], window[t].about, None)
    /\ users' = users
    /\ FinishFlow(t, users, levels', FALSE, NoAccount)

\* logout: the level is set to None and the host's key replaced.
LogoutSubmit(t) ==
    /\ OnPage(t, "logout")
    /\ levels' = SetAccessLevel(HostOf[t], window[t].about, None)
    /\ users' = users
    /\ FinishFlow(t, users, levels', TRUE, NoAccount)

\* approve: the window signs with the seed of the transaction's account.
ApproveSubmit(t) ==
    /\ OnPage(t, "approve")
    /\ window[t].about \in LoggedIn(t, users, levels)
    /\ UNCHANGED <<users, levels>>
    /\ FinishFlow(t, users, levels, FALSE, window[t].about)

\* If that account is not logged in, looking it up throws: nothing is posted and
\* the window stays.  The accounts that are logged in were sealed before, which
\* loads the host's key.
ApproveThrows(t) ==
    /\ OnPage(t, "approve")
    /\ window[t].about \notin LoggedIn(t, users, levels)
    /\ LoggedIn(t, users, levels) # {}
    /\ LET key == SeedHexEncryptionKey(HostOf[t], FALSE)
       IN  key <= MaxKeys /\ StoreKey(HostOf[t], key)
    /\ UNCHANGED <<users, levels, window, identityWindow, posted, clientVars, callVars>>

\* Cancelling a logout or an approval posts the accounts as they are.
Cancel(t) ==
    /\ OnPage(t, "logout") \/ OnPage(t, "approve")
    /\ UNCHANGED <<users, levels>>
    /\ FinishFlow(t, users, levels, FALSE, NoAccount)

----------------------------------------------------------------------------
(* The host's web app *)

\* handleLogin of the client: close the window, forget it, and replace the
\* credentials in memory and in the host's localStorage.
DeliverLogin(t) ==
    /\ posted[t] # <<>>
    /\ identityWindow[t]
    /\ window' = [window EXCEPT ![t] = Closed]
    /\ identityWindow' = [identityWindow EXCEPT ![t] = FALSE]
    /\ identityServiceUsers' = [identityServiceUsers EXCEPT ![t] = Head(posted[t]).users]
    /\ storedUsers' = [storedUsers EXCEPT ![HostOf[t]] = Head(posted[t]).users]
    /\ posted' = [posted EXCEPT ![t] = Tail(@)]
    /\ UNCHANGED <<vaultVars, callVars>>

\* A second message of one window finds identityWindow null and throws.
DropLogin(t) ==
    /\ posted[t] # <<>>
    /\ ~identityWindow[t]
    /\ posted' = [posted EXCEPT ![t] = Tail(@)]
    /\ UNCHANGED <<vaultVars, window, identityWindow, clientVars, callVars>>

\* The tab is reloaded: what was in memory or on its way is lost, and the
\* credentials are those last stored by any tab of the host.
Reload(t) ==
    /\ identityServiceUsers' = [identityServiceUsers EXCEPT ![t] = storedUsers[HostOf[t]]]
    /\ identityWindow' = [identityWindow EXCEPT ![t] = FALSE]
    /\ posted' = [posted EXCEPT ![t] = <<>>]
    /\ request' = [request EXCEPT ![t] = NoRequest]
    /\ answer' = [answer EXCEPT ![t] = "none"]
    /\ UNCHANGED <<vaultVars, window, storedUsers>>

\* sign or jwt, with the credential of one of the tab's accounts.
SendRequest(t) ==
    /\ request[t] = NoRequest
    /\ \E kind \in RequestKind, c \in identityServiceUsers[t] :
           request' = [request EXCEPT ![t] = [kind |-> kind, credential |-> c]]
    /\ answer' = [answer EXCEPT ![t] = "pending"]
    /\ UNCHANGED <<vaultVars, window, identityWindow, posted, clientVars>>

----------------------------------------------------------------------------
(* The identity iframe *)

\* Faulty variant: the level is believed without its HMAC.
HasAccessLevelUnproved(c, required, key) == c.level >= required

\* Is the request's level enough, and is it the level the seed's HMAC proves?
HasAccessLevel(c, required, key) ==
    /\ c.level >= required
    /\ ValidAccessLevelHmac(c.level, DecryptSeedHex(c.sealed, key), c.hmac)

\* Faulty variant: the outputs are checked at another level.
ApproveSpendingAtAll(c, kind) == ~(c.level = ApproveAll /\ PaysOthers(kind))

\* A credential of level ApproveLarge may not pay anybody else.
ApproveSpending(c, kind) == ~(c.level = ApproveLarge /\ PaysOthers(kind))

\* Faulty variant: a refusal is not sent.
HandleSilently(t, required) ==
    LET c   == request[t].credential
        key == SeedHexEncryptionKey(HostOf[t], FALSE)
    IN  /\ answer' = [answer EXCEPT ![t] =
               IF HasAccessLevel(c, required, key) /\ ApproveSpending(c, request[t].kind)
               THEN "signed" ELSE @]
        /\ request' = [request EXCEPT ![t] = NoRequest]
        /\ UNCHANGED <<vaultVars, window, identityWindow, posted, clientVars>>

\* The answer to a request; a credential of sufficient level is decrypted, and
\* decrypting loads the host's key.
Handle(t, required) ==
    LET c   == request[t].credential
        h   == HostOf[t]
        key == SeedHexEncryptionKey(h, FALSE)
    IN  /\ answer' = [answer EXCEPT ![t] =
               IF HasAccessLevel(c, required, key) /\ ApproveSpending(c, request[t].kind)
               THEN "signed" ELSE "approvalRequired"]
        /\ request' = [request EXCEPT ![t] = NoRequest]
        /\ IF c.level >= required
           THEN StoreKey(h, key)
           ELSE UNCHANGED <<seedHexKey, nextKey>>
        /\ UNCHANGED <<users, levels, window, identityWindow, posted, clientVars>>

HandleSign(t) ==
    /\ request[t] # NoRequest
    /\ request[t].kind \notin {"jwt", "unparsable"}
    /\ Handle(t, RequiredAccessLevel(request[t].kind))

HandleJwt(t) ==
    /\ request[t] # NoRequest
    /\ request[t].kind = "jwt"
    /\ Handle(t, RequiredAccessLevel("jwt"))

\* Parsing throws in the message handler: the request is gone, unanswered.
HandleUnparsable(t) ==
    /\ request[t] # NoRequest
    /\ request[t].kind = "unparsable"
    /\ request' = [request EXCEPT ![t] = NoRequest]
    /\ UNCHANGED <<vaultVars, window, identityWindow, posted, clientVars, answer>>

----------------------------------------------------------------------------
\* Faulty variant: the keys survive.
ClearAllButKeys ==
    /\ nextKey <= MaxKeys
    /\ users' = {}
    /\ levels' = [h \in Host |-> [a \in Account |-> None]]
    /\ UNCHANGED <<seedHexKey, nextKey, window, identityWindow, posted,
                   clientVars, callVars>>

\* The user clears the browser's data for the identity site.
ClearSiteData ==
    /\ nextKey <= MaxKeys
    /\ users' = {}
    /\ levels' = [h \in Host |-> [a \in Account |-> None]]
    /\ seedHexKey' = [h \in Host |-> NoKey]
    /\ UNCHANGED <<nextKey, window, identityWindow, posted, clientVars, callVars>>

Init ==
    /\ users = {}
    /\ levels = [h \in Host |-> [a \in Account |-> None]]
    /\ seedHexKey = [h \in Host |-> NoKey]
    /\ nextKey = 1
    /\ window = [t \in Tab |-> Closed]
    /\ identityWindow = [t \in Tab |-> FALSE]
    /\ posted = [t \in Tab |-> <<>>]
    /\ identityServiceUsers = [t \in Tab |-> {}]
    /\ storedUsers = [h \in Host |-> {}]
    /\ request = [t \in Tab |-> NoRequest]
    /\ answer = [t \in Tab |-> "none"]

UserStep(t) ==
    \/ GoTo(t) \/ CloseWindow(t) \/ SelectAccount(t) \/ ClickLoadAccount(t)
    \/ StepTwoNext(t) \/ LogoutSubmit(t) \/ ApproveSubmit(t) \/ ApproveThrows(t) \/ Cancel(t)

ClientStep(t) ==
    \/ LaunchLogIn(t) \/ LaunchLogout(t) \/ LaunchApprove(t)
    \/ DeliverLogin(t) \/ DropLogin(t) \/ Reload(t) \/ SendRequest(t)

IframeStep(t) == HandleSign(t) \/ HandleJwt(t) \/ HandleUnparsable(t)

Next ==
    \/ ClearSiteData
    \/ \E t \in Tab : UserStep(t) \/ ClientStep(t) \/ IframeStep(t)

Spec == Init /\ [][Next]_vars

\* Messages are delivered and handled; nobody is obliged to click or to ask.
Fairness ==
    \A t \in Tab : /\ WF_vars(IframeStep(t))
                   /\ WF_vars(DeliverLogin(t) \/ DropLogin(t))

FairSpec == Spec /\ Fairness

----------------------------------------------------------------------------
(* Properties *)

TypeOK ==
    /\ users \subseteq Account
    /\ levels \in [Host -> [Account -> AccessLevel]]
    /\ seedHexKey \in [Host -> Nat]
    /\ nextKey \in Key
    /\ window \in [Tab -> Window \cup {Closed}]
    /\ identityWindow \in [Tab -> BOOLEAN]
    /\ posted \in [Tab -> Seq([users : SUBSET Credential,
                               signedBy : Account \cup {NoAccount}])]
    /\ identityServiceUsers \in [Tab -> SUBSET Credential]
    /\ storedUsers \in [Host -> SUBSET Credential]
    /\ request \in [Tab -> Request \cup {NoRequest}]
    /\ answer \in [Tab -> Answer]

\* Every credential a tab has or may still get to use: in memory, in its
\* host's localStorage, in a login message, in a request on its way.
Held(t) ==
    identityServiceUsers[t]
    \cup storedUsers[HostOf[t]]
    \cup (UNION {posted[t][i].users : i \in DOMAIN posted[t]})
    \cup (IF request[t] = NoRequest THEN {} ELSE {request[t].credential})

Works(h, c) == c.sealed.key = seedHexKey[h]

LoggedInAt(h, a) == a \in users /\ GetAccessLevel(levels, h, a) # None

AsGrant(c) == [account |-> c.account, level |-> c.level]

\* A host's grants are the credentials its tabs still have that work.
Granted == [h \in Host |->
    UNION {{AsGrant(c) : c \in {d \in Held(t) : Works(h, d)}} :
           t \in {t \in Tab : HostOf[t] = h}}]

Asked == [t \in Tab |->
    IF request[t] = NoRequest THEN NoRequest
    ELSE [kind |-> request[t].kind, grant |-> AsGrant(request[t].credential)]]

\* The promise to the user (Consent), read off this state.
Promise == INSTANCE Consent WITH
    Site <- Host, Client <- Tab, SiteOf <- HostOf,
    Level <- AccessLevelRequest, Kind <- RequestKind, NoAsk <- NoRequest,
    current <- levels, granted <- Granted, asked <- Asked

ASSUME NoRequestAssumption == NoRequest \notin Request /\ NoRequest \notin Promise!Ask

\* Logging out revokes: wherever a credential still is (another tab, storage, a
\* message or a request on its way), it opens under the host's key only if its
\* account is logged in at that host.
LiveCredentialsAreLoggedIn ==
    \A t \in Tab : \A c \in Held(t) :
        Works(HostOf[t], c) => LoggedInAt(HostOf[t], c.account)

\* A credential given to one host opens at no other host.
KeysStayWithHost ==
    \A t \in Tab : \A c \in Held(t) : \A h \in Host :
        Works(h, c) => h = HostOf[t]

\* A credential of a host is what its account's seed makes it, and if it opens
\* anywhere, then at that host, where its account is logged in.
Sound(host, c) ==
    /\ c.sealed.key < nextKey
    /\ c.sealed.seed = c.account.seed
    /\ c.hmac = AccessLevelHmac(c.level, c.account.seed)
    /\ \A h \in Host : Works(h, c) => h = host /\ LoggedInAt(h, c.account)

KeysAreFresh ==
    /\ \A h \in Host : seedHexKey[h] < nextKey
    /\ \A g, h \in Host : seedHexKey[g] = seedHexKey[h] => g = h \/ seedHexKey[g] = NoKey

\* The two invariants above, made inductive: no key is given out twice, and
\* every credential still held anywhere is sound.
VaultInv ==
    /\ TypeOK
    /\ KeysAreFresh
    /\ \A t \in Tab : \A c \in Held(t) : Sound(HostOf[t], c)

\* The iframe signs without asking only for an account that is logged in at the
\* host, with a credential under the host's key, whose level permits it.
SignsOnlyAsPermitted ==
    [][\A t \in Tab :
          answer[t] = "pending" /\ answer'[t] = "signed" =>
              LET c == request[t].credential
              IN  /\ Works(HostOf[t], c)
                  /\ LoggedInAt(HostOf[t], c.account)
                  /\ c.hmac = AccessLevelHmac(c.level, c.account.seed)
                  /\ Promise!Permits(c.level, request[t].kind)]_vars

\* A host's working credentials stop working in no other way than a logout at
\* that host (or the user clearing the data), and the logout posts to its tab
\* working credentials of every account of its network still logged in.
OnlyLogoutReplacesKeys ==
    [][\A h \in Host :
          seedHexKey[h] # NoKey /\ seedHexKey'[h] \notin {seedHexKey[h], NoKey} =>
              \E t \in Tab :
                  /\ HostOf[t] = h
                  /\ OnPage(t, "logout")
                  /\ ~LoggedInAt(h, window[t].about)'
                  /\ posted'[t] # <<>>
                  /\ LET given == posted'[t][Len(posted'[t])].users
                     IN  /\ {c.account : c \in given} =
                                {a \in users' : a.network = NetworkOf[t] /\ LoggedInAt(h, a)'}
                         /\ \A c \in given : c.sealed.key = seedHexKey'[h]]_vars

\* Every request that can be parsed is answered, unless its tab is reloaded.
RequestsAreAnswered ==
    \A t \in Tab :
        (request[t] # NoRequest /\ request[t].kind # "unparsable")
            ~> (answer[t] \in {"signed", "approvalRequired", "none"})

\* The windows, keys and messages implement the promise to the user.
KeepsThePromise == Promise!Spec

\* The log-in page: a host below level Full "will require approval to buy, sell,
\* or send coins"; a level stored for a host is the one it may act at.
StoredLevelGoverns ==
    [][\A t \in Tab :
          answer[t] = "pending" /\ answer'[t] = "signed" =>
              Promise!Permits(GetAccessLevel(levels, HostOf[t], request[t].credential.account),
                               request[t].kind)]_vars
=============================================================================
