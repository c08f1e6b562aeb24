--------------------------- MODULE IdentityChannel ---------------------------
(***************************************************************************)
(* How a host's web app and the identity site find each other.  The app    *)
(* embeds the identity site in an iframe and opens more instances of it in *)
(* popup windows.  Every instance announces itself with an "initialize"    *)
(* message and learns the host's name from the acknowledgement; until then *)
(* it shows nothing and has no hostname to look up keys by.  Requests the  *)
(* app makes before the iframe has announced itself wait in a list.  The   *)
(* first request, "info", decides whether the app shows anything at all.   *)
(* Popups end in "login" messages, which the app takes to be the answer of *)
(* the window it launched last.                                            *)
(*                                                                         *)
(* Messages between the app and one instance arrive in the order they were *)
(* posted; those of different instances in any order.  The browser is one  *)
(* the identity site supports.                                             *)
(***************************************************************************)
EXTENDS Naturals, Sequences, FiniteSets

CONSTANTS
    Frame,                 \* the embedded iframe
    Popup,                 \* the windows the app may come to open
    Null,
    MaxRequests,           \* bound: sign and jwt requests of the app
    MaxPosted,             \* bound: login messages of one window under way
    Malformed,             \* requests that make the iframe's handler throw
    MustUseStorageAccess   \* the browser makes the iframe ask for storage access

ASSUME FrameAssumption == Frame \notin Popup /\ Null \notin Popup
ASSUME ChannelBounds == /\ MaxRequests \in Nat /\ MaxPosted \in Nat
                        /\ Malformed \subseteq 1 .. MaxRequests
                        /\ MustUseStorageAccess \in BOOLEAN

Instance == Popup \cup {Frame}
Info     == 0
Id       == 0 .. MaxRequests      \* request 0 is info

Message == [type : {"request", "response"}, id : Id]
           \cup [type : {"initialize", "ack", "login"}]

VARIABLES
    instance,           \* what has become of each instance
    toInstance,         \* messages on their way to each instance
    toClient,           \* and from it
    asking,             \* info requests awaiting hasStorageAccess
    initialized,        \* the app has heard of an instance
    pendingRequests,    \* requests made before that
    sent,               \* ids the app has used
    outboundRequests,   \* ids still to be resolved
    browserSupported,   \* the app is shown
    identityWindow,     \* the window the app remembers
    identityWindowSubject, \* the launch whose promise the next login resolves
    resolved,           \* for each launch, the window whose login resolved it
    beside              \* history: the windows that might still log in as it was made

frameVars  == <<asking>>
clientVars == <<initialized, pendingRequests, sent, outboundRequests, browserSupported>>
windowVars == <<identityWindow, identityWindowSubject, resolved, beside>>
vars == <<instance, toInstance, toClient, frameVars, clientVars, windowVars>>

Request(id)  == [type |-> "request", id |-> id]
Response(id) == [type |-> "response", id |-> id]
Initialize   == [type |-> "initialize"]
Ack          == [type |-> "ack"]
Login        == [type |-> "login"]

IsHead(q, type) == q # <<>> /\ Head(q).type = type

Init ==
    /\ instance = [i \in Instance |-> "absent"]
    /\ toInstance = [i \in Instance |-> <<>>]
    /\ toClient = [i \in Instance |-> <<>>]
    /\ asking = {}
    /\ initialized = FALSE
    /\ pendingRequests = <<>>
    /\ sent = {}
    /\ outboundRequests = {}
    /\ browserSupported = FALSE
    /\ identityWindow = Null
    /\ identityWindowSubject = Null
    /\ resolved = [p \in Popup |-> Null]
    /\ beside = [p \in Popup |-> {}]

----------------------------------------------------------------------------
(* The identity site, in the iframe or a window *)

\* The instance's scripts run: it listens, and announces itself to its parent
\* or opener.
Start(i) ==
    /\ instance[i] = "loading"
    /\ instance' = [instance EXCEPT ![i] = "waiting"]
    /\ toClient' = [toClient EXCEPT ![i] = Append(@, Initialize)]
    /\ UNCHANGED <<toInstance, frameVars, clientVars, windowVars>>

\* The acknowledgement carries the hostname and ends the loading.
ReceiveAck(i) ==
    /\ instance[i] = "waiting"
    /\ IsHead(toInstance[i], "ack")
    /\ instance' = [instance EXCEPT ![i] = "ready"]
    /\ toInstance' = [toInstance EXCEPT ![i] = Tail(@)]
    /\ UNCHANGED <<toClient, frameVars, clientVars, windowVars>>

\* The iframe handles a request, whether or not it knows the hostname.  Info may
\* have to await the browser; a malformed request throws.
HandleRequest ==
    /\ instance[Frame] \in {"waiting", "ready"}
    /\ IsHead(toInstance[Frame], "request")
    /\ LET id == Head(toInstance[Frame]).id
       IN  \/ /\ id = Info
              /\ MustUseStorageAccess
              /\ asking' = asking \cup {id}
              /\ UNCHANGED toClient
           \/ /\ id \in Malformed
              /\ UNCHANGED <<asking, toClient>>
           \/ /\ id \notin Malformed
              /\ ~(id = Info /\ MustUseStorageAccess)
              /\ toClient' = [toClient EXCEPT ![Frame] = Append(@, Response(id))]
              /\ UNCHANGED asking
    /\ toInstance' = [toInstance EXCEPT ![Frame] = Tail(@)]
    /\ UNCHANGED <<instance, clientVars, windowVars>>

\* hasStorageAccess has answered.
AnswerInfo ==
    \E id \in asking :
        /\ asking' = asking \ {id}
        /\ toClient' = [toClient EXCEPT ![Frame] = Append(@, Response(id))]
        /\ UNCHANGED <<instance, toInstance, clientVars, windowVars>>

\* The user finishes what a window is for, or clicks again before it closes.
Finish(p) ==
    /\ instance[p] = "ready"
    /\ Cardinality({k \in DOMAIN toClient[p] : toClient[p][k].type = "login"}) < MaxPosted
    /\ toClient' = [toClient EXCEPT ![p] = Append(@, Login)]
    /\ UNCHANGED <<instance, toInstance, frameVars, clientVars, windowVars>>

\* The user closes a window; what was on its way to it is lost.
Close(p) ==
    /\ instance[p] \in {"loading", "waiting", "ready"}
    /\ instance' = [instance EXCEPT ![p] = "closed"]
    /\ toInstance' = [toInstance EXCEPT ![p] = <<>>]
    /\ UNCHANGED <<toClient, frameVars, clientVars, windowVars>>

----------------------------------------------------------------------------
(* The host's app *)

\* Faulty variant: requests are posted whether or not the iframe listens.
PostAtOnce(id) ==
    /\ toInstance' = [toInstance EXCEPT ![Frame] = Append(@, Request(id))]
    /\ UNCHANGED pendingRequests

\* postMessage of the client: to the iframe, or to the list of requests that wait.
PostMessage(id) ==
    IF initialized
    THEN /\ toInstance' = [toInstance EXCEPT ![Frame] = Append(@, Request(id))]
         /\ UNCHANGED pendingRequests
    ELSE /\ pendingRequests' = Append(pendingRequests, id)
         /\ UNCHANGED toInstance

Send(id) ==
    /\ id \notin sent
    /\ PostMessage(id)
    /\ sent' = sent \cup {id}
    /\ outboundRequests' = outboundRequests \cup {id}

\* The app starts: it asks for info, then renders the iframe.
AppStart ==
    /\ Send(Info)
    /\ instance' = [instance EXCEPT ![Frame] = "loading"]
    /\ UNCHANGED <<toClient, frameVars, initialized, browserSupported, windowVars>>

\* Faulty variant: the app does not wait to be shown.
SendRequestEarly(id) ==
    /\ id # Info
    /\ Send(id)
    /\ UNCHANGED <<instance, toClient, frameVars, initialized, browserSupported, windowVars>>

\* Once shown, the app asks for signatures and tokens.
SendRequest(id) ==
    /\ id # Info
    /\ browserSupported
    /\ Send(id)
    /\ UNCHANGED <<instance, toClient, frameVars, initialized, browserSupported, windowVars>>

\* Messages appended to what is on its way to an instance; none reaches one
\* that was closed.
Posted(q, i, msgs) == IF instance[i] = "closed" THEN q ELSE [q EXCEPT ![i] = @ \o msgs]

\* Faulty variant: what waited is posted without the envelope.
WaitingBare == [k \in DOMAIN pendingRequests |-> [id |-> pendingRequests[k]]]

Waiting == [k \in DOMAIN pendingRequests |-> Request(pendingRequests[k])]

\* Faulty variant: the list is posted anew whenever an instance announces itself.
HandleInitializeAgain(i) ==
    /\ IsHead(toClient[i], "initialize")
    /\ toClient' = [toClient EXCEPT ![i] = Tail(@)]
    /\ initialized' = TRUE
    /\ toInstance' = Posted(Posted(toInstance, Frame, Waiting), i, <<Ack>>)
    /\ UNCHANGED <<instance, frameVars, pendingRequests, sent, outboundRequests,
                   browserSupported, windowVars>>

\* Faulty variant: the acknowledgement goes to the iframe, whoever asked.
HandleInitializeOfFrame(i) ==
    /\ IsHead(toClient[i], "initialize")
    /\ toClient' = [toClient EXCEPT ![i] = Tail(@)]
    /\ initialized' = TRUE
    /\ pendingRequests' = <<>>
    /\ toInstance' = Posted(toInstance, Frame, Waiting \o <<Ack>>)
    /\ UNCHANGED <<instance, frameVars, sent, outboundRequests, browserSupported, windowVars>>

\* Faulty variant: the list is dropped, not posted.
HandleInitializeForgetting(i) ==
    /\ IsHead(toClient[i], "initialize")
    /\ toClient' = [toClient EXCEPT ![i] = Tail(@)]
    /\ initialized' = TRUE
    /\ pendingRequests' = <<>>
    /\ toInstance' = Posted(toInstance, i, <<Ack>>)
    /\ UNCHANGED <<instance, frameVars, sent, outboundRequests, browserSupported, windowVars>>

\* handleInitialize: the first announcement posts what waits to the iframe; every
\* one is acknowledged to its sender.
HandleInitialize(i) ==
    /\ IsHead(toClient[i], "initialize")
    /\ toClient' = [toClient EXCEPT ![i] = Tail(@)]
    /\ initialized' = TRUE
    /\ pendingRequests' = <<>>
    /\ toInstance' = IF initialized
                     THEN Posted(toInstance, i, <<Ack>>)
                     ELSE Posted(Posted(toInstance, Frame, Waiting), i, <<Ack>>)
    /\ UNCHANGED <<instance, frameVars, sent, outboundRequests, browserSupported, windowVars>>

\* handleResponse: the promise of the request is resolved; the answer to info
\* shows the app.
HandleResponse ==
    /\ IsHead(toClient[Frame], "response")
    /\ toClient' = [toClient EXCEPT ![Frame] = Tail(@)]
    /\ LET id == Head(toClient[Frame]).id
       IN  /\ outboundRequests' = outboundRequests \ {id}
           /\ browserSupported' = (browserSupported \/ (id = Info /\ id \in outboundRequests))
    /\ UNCHANGED <<instance, toInstance, frameVars, initialized, pendingRequests, sent, windowVars>>

\* A window whose login may still come: it is open, or has posted one.
MayLogIn(p) ==
    \/ instance[p] \in {"loading", "waiting", "ready"}
    \/ \E k \in DOMAIN toClient[p] : toClient[p][k].type = "login"

\* Faulty variant: a promise that is still open is used again.
LaunchOnOldPromise(p) ==
    /\ browserSupported
    /\ instance[p] = "absent"
    /\ \/ /\ instance' = [instance EXCEPT ![p] = "loading"]
          /\ identityWindow' = p
       \/ /\ instance' = [instance EXCEPT ![p] = "closed"]
          /\ identityWindow' = Null
    /\ identityWindowSubject' = IF identityWindowSubject = Null THEN p ELSE identityWindowSubject
    /\ beside' = [beside EXCEPT ![p] = {q \in Popup : MayLogIn(q)}]
    /\ UNCHANGED <<toInstance, toClient, frameVars, clientVars, resolved>>

\* launch: a window is opened and remembered with a new promise, whatever was
\* remembered before.  The browser may block it; then null is remembered.
Launch(p) ==
    /\ browserSupported
    /\ instance[p] = "absent"
    /\ \/ /\ instance' = [instance EXCEPT ![p] = "loading"]
          /\ identityWindow' = p
       \/ /\ instance' = [instance EXCEPT ![p] = "closed"]
          /\ identityWindow' = Null
    /\ identityWindowSubject' = p
    /\ beside' = [beside EXCEPT ![p] = {q \in Popup : MayLogIn(q)}]
    /\ UNCHANGED <<toInstance, toClient, frameVars, clientVars, resolved>>

\* handleLogin: the remembered window is closed, its promise resolved, and both
\* forgotten.  With no window remembered it throws, and the payload is lost.
HandleLogin(p) ==
    /\ IsHead(toClient[p], "login")
    /\ toClient' = [toClient EXCEPT ![p] = Tail(@)]
    /\ IF identityWindow = Null
       THEN UNCHANGED <<instance, toInstance, windowVars>>
       ELSE /\ instance' = [instance EXCEPT ![identityWindow] = "closed"]
            /\ toInstance' = [toInstance EXCEPT ![identityWindow] = <<>>]
            /\ identityWindow' = Null
            /\ resolved' = IF identityWindowSubject = Null THEN resolved
                           ELSE [resolved EXCEPT ![identityWindowSubject] = p]
            /\ identityWindowSubject' = Null
            /\ UNCHANGED beside
    /\ UNCHANGED <<frameVars, clientVars>>

----------------------------------------------------------------------------
Next ==
    \/ AppStart
    \/ HandleRequest \/ AnswerInfo \/ HandleResponse
    \/ \E id \in Id : SendRequest(id)
    \/ \E i \in Instance : Start(i) \/ ReceiveAck(i) \/ HandleInitialize(i)
    \/ \E p \in Popup : Launch(p) \/ Finish(p) \/ Close(p) \/ HandleLogin(p)

Spec == Init /\ [][Next]_vars

\* The app starts, instances load, and messages arrive and are handled.  Nobody
\* has to send a request, to open a window or to finish what it is for.
Fairness ==
    /\ WF_vars(AppStart)
    /\ WF_vars(HandleRequest) /\ WF_vars(AnswerInfo) /\ WF_vars(HandleResponse)
    /\ \A i \in Instance : /\ WF_vars(Start(i))
                           /\ WF_vars(ReceiveAck(i))
                           /\ WF_vars(HandleInitialize(i))
    /\ \A p \in Popup : WF_vars(HandleLogin(p))

FairSpec == Spec /\ Fairness

----------------------------------------------------------------------------
(* Properties *)

TypeOK ==
    /\ instance \in [Instance -> {"absent", "loading", "waiting", "ready", "closed"}]
    /\ toInstance \in [Instance -> Seq(Message)]
    /\ toClient \in [Instance -> Seq(Message)]
    /\ asking \subseteq Id
    /\ initialized \in BOOLEAN
    /\ pendingRequests \in Seq(Id)
    /\ sent \subseteq Id
    /\ outboundRequests \subseteq sent
    /\ browserSupported \in BOOLEAN
    /\ identityWindow \in Popup \cup {Null}
    /\ identityWindowSubject \in Popup \cup {Null}
    /\ resolved \in [Popup -> Popup \cup {Null}]
    /\ beside \in [Popup -> SUBSET Popup]

\* Requests that need the host's key reach the iframe after the hostname, though
\* the requests that waited are posted before the acknowledgement: the app asks
\* for nothing but info until it is shown.
HostnameComesFirst ==
    \A k \in DOMAIN toInstance[Frame] :
        toInstance[Frame][k].type = "request" /\ toInstance[Frame][k].id # Info =>
            \/ instance[Frame] = "ready"
            \/ \E j \in 1 .. k - 1 : toInstance[Frame][j].type = "ack"

\* Nothing is posted to an instance that does not listen yet: a message then
\* would be lost, and its promise never resolved.
NobodyDeafIsSpokenTo ==
    \A i \in Instance : toInstance[i] # <<>> => instance[i] \in {"waiting", "ready"}

\* The iframe answers only requests whose promise is still open, and each once:
\* the client's handleResponse would throw on any other id.
EveryAnswerIsAwaited ==
    LET q == toClient[Frame]
        answers == {k \in DOMAIN q : q[k].type = "response"}
    IN  /\ \A k \in answers : q[k].id \in outboundRequests
        /\ \A j, k \in answers : q[j].id = q[k].id => j = k

\* handleLogin does not look who posted the login: it takes it for the answer of
\* the last launch.  It is, but for windows that were still open, or whose login was
\* still under way, as that launch was made; so who has one window at a time, and
\* waits for its login, gets its answer and no other.
LoginsAnswerTheirLaunch ==
    \A p \in Popup : resolved[p] \in {Null, p} \cup beside[p]

\* Every request the iframe can parse is answered to the app in the end, those
\* made before the iframe announced itself included.
RequestsAreResolved ==
    \A id \in Id \ Malformed : id \in sent ~> id \in sent \ outboundRequests

\* A window that opens gets its acknowledgement, and with it something to show,
\* or is closed.
WindowsGetReady ==
    \A p \in Popup : instance[p] = "loading" ~> instance[p] \in {"ready", "closed"}
=============================================================================
