------------------------ MODULE IdentityChannelProofs ------------------------
(***************************************************************************)
(* How the app and the identity site find each other, for any number of    *)
(* windows, requests and login messages: nothing is said to an instance    *)
(* that does not listen, the hostname reaches the iframe before what needs *)
(* it, each request is answered at most once, and a launch is answered by  *)
(* its own window or by one that was still there beside it.                *)
(***************************************************************************)
EXTENDS IdentityChannel, SequenceTheorems, TLAPS

----------------------------------------------------------------------------
(* Queues of messages *)

\* The queue carries a message of this type about this request.
Carries(q, type, id) == \E k \in DOMAIN q : q[k].type = type /\ q[k].id = id

\* Of any request it carries at most one message of this type.
Once(q, type) ==
    \A j, k \in DOMAIN q :
        q[j].type = type /\ q[k].type = type /\ q[j].id = q[k].id => j = k

HasAck(q) == \E k \in DOMAIN q : q[k].type = "ack"

\* What needs the hostname comes after the acknowledgement.
AckFirst(q) ==
    \A k \in DOMAIN q :
        q[k].type = "request" /\ q[k].id # Info => \E j \in 1 .. k - 1 : q[j].type = "ack"

LEMMA MessageTypes ==
    /\ \A id \in Id : Request(id) \in Message /\ Response(id) \in Message
    /\ Initialize \in Message /\ Ack \in Message /\ Login \in Message
BY DEF Request, Response, Initialize, Ack, Login, Message

LEMMA MessageId ==
    ASSUME NEW m \in Message, m.type \in {"request", "response"}
    PROVE  m.id \in Id
BY DEF Message

LEMMA EmptyQueue ==
    /\ \A type, id : ~Carries(<<>>, type, id)
    /\ \A type : Once(<<>>, type)
    /\ ~HasAck(<<>>) /\ AckFirst(<<>>)
BY DEF Carries, Once, HasAck, AckFirst

\* Where the messages of a queue are after one is appended, or the first taken.
LEMMA AppendedAt ==
    ASSUME NEW q \in Seq(Message), NEW m \in Message
    PROVE  /\ Append(q, m) \in Seq(Message)
           /\ DOMAIN q = 1 .. Len(q) /\ Len(q) \in Nat
           /\ DOMAIN Append(q, m) = 1 .. Len(q) + 1
           /\ \A k \in DOMAIN q : Append(q, m)[k] = q[k]
           /\ Append(q, m)[Len(q) + 1] = m
OBVIOUS

LEMMA TailAt ==
    ASSUME NEW q \in Seq(Message), q # <<>>
    PROVE  /\ Tail(q) \in Seq(Message) /\ Head(q) \in Message /\ Head(q) = q[1]
           /\ DOMAIN q = 1 .. Len(q) /\ Len(q) \in Nat \ {0}
           /\ DOMAIN Tail(q) = 1 .. Len(q) - 1
           /\ \A k \in DOMAIN Tail(q) : Tail(q)[k] = q[k + 1]
OBVIOUS

LEMMA AppendCarries ==
    ASSUME NEW q \in Seq(Message), NEW m \in Message, NEW type, NEW id
    PROVE  Carries(Append(q, m), type, id) <=>
               Carries(q, type, id) \/ (m.type = type /\ m.id = id)
BY AppendedAt DEF Carries

LEMMA AppendOnce ==
    ASSUME NEW q \in Seq(Message), NEW m \in Message, NEW type, Once(q, type),
           m.type = type => ~Carries(q, type, m.id)
    PROVE  Once(Append(q, m), type)
<1> SUFFICES ASSUME NEW j \in DOMAIN Append(q, m), NEW k \in DOMAIN Append(q, m),
                    Append(q, m)[j].type = type, Append(q, m)[k].type = type,
                    Append(q, m)[j].id = Append(q, m)[k].id
             PROVE  j = k
    BY DEF Once
<1> DEFINE new == Len(q) + 1
<1>1. /\ j \in DOMAIN q \/ j = new
      /\ k \in DOMAIN q \/ k = new
      /\ \A l \in DOMAIN q : Append(q, m)[l] = q[l]
      /\ Append(q, m)[new] = m
    BY AppendedAt
<1> HIDE DEF new
<1>2. ASSUME NEW l \in DOMAIN q, q[l].type = type, m.type = type, q[l].id = m.id  PROVE FALSE
    BY <1>2 DEF Carries
<1>. QED  BY <1>1, <1>2 DEF Once

LEMMA AppendAck ==
    ASSUME NEW q \in Seq(Message), NEW m \in Message
    PROVE  HasAck(Append(q, m)) <=> HasAck(q) \/ m.type = "ack"
BY AppendedAt DEF HasAck

\* A request that needs the hostname may follow once the acknowledgement is under way.
LEMMA AppendAckFirst ==
    ASSUME NEW q \in Seq(Message), NEW m \in Message, AckFirst(q),
           m.type = "request" /\ m.id # Info => HasAck(q)
    PROVE  AckFirst(Append(q, m))
<1> SUFFICES ASSUME NEW k \in DOMAIN Append(q, m),
                    Append(q, m)[k].type = "request", Append(q, m)[k].id # Info
             PROVE  \E j \in 1 .. k - 1 : Append(q, m)[j].type = "ack"
    BY DEF AckFirst
<1>1. CASE k \in DOMAIN q
    <2>1. PICK j \in 1 .. k - 1 : q[j].type = "ack"
        BY <1>1, AppendedAt DEF AckFirst
    <2>2. j \in DOMAIN q
        BY <1>1, AppendedAt
    <2>. QED  BY <2>1, <2>2, AppendedAt
<1>2. CASE k = Len(q) + 1
    <2>1. HasAck(q)
        BY <1>2, AppendedAt
    <2>2. PICK j \in DOMAIN q : q[j].type = "ack"
        BY <2>1 DEF HasAck
    <2>3. j \in 1 .. k - 1
        BY <1>2, AppendedAt
    <2>. QED  BY <2>2, <2>3, AppendedAt
<1>. QED  BY <1>1, <1>2, AppendedAt

LEMMA HeadCarries ==
    ASSUME NEW q \in Seq(Message), NEW type, IsHead(q, type)
    PROVE  Carries(q, type, Head(q).id)
BY TailAt DEF IsHead, Carries

LEMMA TailCarries ==
    ASSUME NEW q \in Seq(Message), q # <<>>, NEW type, NEW id, Carries(Tail(q), type, id)
    PROVE  /\ Carries(q, type, id)
           /\ Once(q, type) /\ Head(q).type = type => Head(q).id # id
<1>1. PICK k \in DOMAIN Tail(q) : Tail(q)[k].type = type /\ Tail(q)[k].id = id
    BY DEF Carries
<1>2. /\ k + 1 \in DOMAIN q /\ 1 \in DOMAIN q /\ k + 1 # 1
      /\ q[k + 1].type = type /\ q[k + 1].id = id
      /\ Head(q) = q[1]
    BY <1>1, TailAt
<1>. QED  BY <1>2 DEF Carries, Once

LEMMA TailOnce ==
    ASSUME NEW q \in Seq(Message), q # <<>>, NEW type, Once(q, type)
    PROVE  Once(Tail(q), type)
<1> SUFFICES ASSUME NEW j \in DOMAIN Tail(q), NEW k \in DOMAIN Tail(q),
                    Tail(q)[j].type = type, Tail(q)[k].type = type,
                    Tail(q)[j].id = Tail(q)[k].id
             PROVE  j = k
    BY DEF Once
<1>1. /\ j + 1 \in DOMAIN q /\ k + 1 \in DOMAIN q /\ j \in Int /\ k \in Int
      /\ Tail(q)[j] = q[j + 1] /\ Tail(q)[k] = q[k + 1]
    BY TailAt
<1>2. j + 1 = k + 1
    BY <1>1 DEF Once
<1>. QED  BY <1>1, <1>2

LEMMA TailAckFirst ==
    ASSUME NEW q \in Seq(Message), IsHead(q, "request"), AckFirst(q)
    PROVE  AckFirst(Tail(q)) /\ (HasAck(q) => HasAck(Tail(q)))
<1>0. q # <<>> /\ Head(q).type = "request"
    BY DEF IsHead
<1>1. ASSUME NEW k \in DOMAIN Tail(q), Tail(q)[k].type = "request", Tail(q)[k].id # Info
      PROVE  \E j \in 1 .. k - 1 : Tail(q)[j].type = "ack"
    <2>1. k + 1 \in DOMAIN q /\ q[k + 1] = Tail(q)[k] /\ k \in Nat
        BY <1>0, TailAt
    <2>2. PICK j \in 1 .. k : q[j].type = "ack"
        BY <1>1, <2>1 DEF AckFirst
    <2>3. j # 1
        BY <1>0, <2>2, TailAt
    <2>4. j - 1 \in DOMAIN Tail(q) /\ j - 1 \in 1 .. k - 1
        BY <1>0, <2>1, <2>2, <2>3, TailAt
    <2>5. Tail(q)[j - 1] = q[j]
        BY <1>0, <2>4, TailAt
    <2>. QED  BY <2>2, <2>4, <2>5
<1>2. ASSUME HasAck(q)  PROVE HasAck(Tail(q))
    <2>1. PICK k \in DOMAIN q : q[k].type = "ack"
        BY <1>2 DEF HasAck
    <2>2. k # 1
        BY <1>0, <2>1, TailAt
    <2>3. k - 1 \in DOMAIN Tail(q) /\ Tail(q)[k - 1] = q[k]
        BY <1>0, <2>2, TailAt
    <2>. QED  BY <2>1, <2>3 DEF HasAck
<1>. QED  BY <1>1, <1>2 DEF AckFirst
----------------------------------------------------------------------------
(* Type correctness *)

\* What is posted to one instance, or to the iframe and then to an instance.
LEMMA PostedAck ==
    ASSUME NEW q \in [Instance -> Seq(Message)], NEW i \in Instance
    PROVE  /\ Posted(q, i, <<Ack>>) \in [Instance -> Seq(Message)]
           /\ \A j \in Instance :
                  Posted(q, i, <<Ack>>)[j] =
                      IF j = i /\ instance[i] # "closed" THEN Append(q[j], Ack) ELSE q[j]
<1>1. q[i] \o <<Ack>> = Append(q[i], Ack) /\ Append(q[i], Ack) \in Seq(Message)
    BY MessageTypes
<1>. QED  BY <1>1 DEF Posted

LEMMA WaitingType ==
    ASSUME pendingRequests \in Seq(Id)
    PROVE  Waiting \in Seq(Message)
<1>1. Waiting \in [1 .. Len(pendingRequests) -> Message]
    BY MessageTypes DEF Waiting
<1>. QED  BY <1>1

LEMMA PostedWaiting ==
    ASSUME NEW q \in [Instance -> Seq(Message)], pendingRequests \in Seq(Id)
    PROVE  /\ Posted(q, Frame, Waiting) \in [Instance -> Seq(Message)]
           /\ \A j \in Instance \ {Frame} : Posted(q, Frame, Waiting)[j] = q[j]
<1>1. Frame \in Instance
    BY DEF Instance
<1>2. q[Frame] \o Waiting \in Seq(Message)
    BY <1>1, WaitingType
<1> HIDE DEF Waiting
<1>. QED  BY <1>1, <1>2 DEF Posted

LEMMA SendType ==
    ASSUME TypeOK, NEW id \in Id, Send(id)
    PROVE  /\ toInstance' \in [Instance -> Seq(Message)]
           /\ pendingRequests' \in Seq(Id)
           /\ sent' \subseteq Id /\ outboundRequests' \subseteq sent'
<1>1. Request(id) \in Message /\ Frame \in Instance
    BY MessageTypes DEF Instance
<1>2. Append(toInstance[Frame], Request(id)) \in Seq(Message)
    BY <1>1, AppendedAt DEF TypeOK
<1>3. toInstance' \in [Instance -> Seq(Message)]
    BY <1>1, <1>2 DEF Send, PostMessage, TypeOK
<1>4. Append(pendingRequests, id) \in Seq(Id)
    BY DEF TypeOK
<1>5. pendingRequests' \in Seq(Id)
    BY <1>4 DEF Send, PostMessage, TypeOK
<1>. QED  BY <1>3, <1>5 DEF Send, TypeOK

LEMMA InstanceStepType ==
    ASSUME TypeOK, NEW i \in Instance, Start(i) \/ ReceiveAck(i) \/ HandleInitialize(i)
    PROVE  TypeOK'
<1>1. CASE Start(i)
    <2>1. Append(toClient[i], Initialize) \in Seq(Message)
        BY MessageTypes, AppendedAt DEF TypeOK
    <2>. QED  BY <1>1, <2>1 DEF Start, TypeOK, frameVars, clientVars, windowVars
<1>2. CASE ReceiveAck(i)
    <2>1. Tail(toInstance[i]) \in Seq(Message)
        BY <1>2, TailAt DEF ReceiveAck, IsHead, TypeOK
    <2>. QED  BY <1>2, <2>1 DEF ReceiveAck, TypeOK, frameVars, clientVars, windowVars
<1>3. CASE HandleInitialize(i)
    <2>1. Tail(toClient[i]) \in Seq(Message)
        BY <1>3, TailAt DEF HandleInitialize, IsHead, TypeOK
    <2>2. toInstance' \in [Instance -> Seq(Message)]
        <3>1. /\ toInstance \in [Instance -> Seq(Message)]
              /\ Posted(toInstance, Frame, Waiting) \in [Instance -> Seq(Message)]
            BY PostedWaiting DEF TypeOK
        <3>. QED  BY <1>3, <3>1, PostedAck DEF HandleInitialize
    <2>3. pendingRequests' \in Seq(Id)
        BY <1>3 DEF HandleInitialize
    <2>. QED  BY <1>3, <2>1, <2>2, <2>3 DEF HandleInitialize, TypeOK, frameVars, windowVars
<1>. QED  BY <1>1, <1>2, <1>3

LEMMA FrameStepType ==
    ASSUME TypeOK, HandleRequest \/ AnswerInfo \/ HandleResponse
    PROVE  TypeOK'
<1>0. Frame \in Instance
    BY DEF Instance
<1>1. ASSUME NEW id \in Id  PROVE Append(toClient[Frame], Response(id)) \in Seq(Message)
    BY <1>0, MessageTypes, AppendedAt DEF TypeOK
<1>2. CASE HandleRequest
    <2>1. /\ Tail(toInstance[Frame]) \in Seq(Message)
          /\ Head(toInstance[Frame]).id \in Id
        BY <1>0, <1>2, TailAt, MessageId DEF HandleRequest, IsHead, TypeOK
    <2>2. toInstance' \in [Instance -> Seq(Message)]
        BY <1>2, <2>1 DEF HandleRequest, TypeOK
    <2>3. toClient' \in [Instance -> Seq(Message)] /\ asking' \subseteq Id
        BY <1>1, <1>2, <2>1 DEF HandleRequest, TypeOK
    <2>. QED  BY <1>2, <2>2, <2>3 DEF HandleRequest, TypeOK, clientVars, windowVars
<1>3. CASE AnswerInfo
    <2>1. PICK id \in asking :
              /\ asking' = asking \ {id}
              /\ toClient' = [toClient EXCEPT ![Frame] = Append(@, Response(id))]
        BY <1>3 DEF AnswerInfo
    <2>2. toClient' \in [Instance -> Seq(Message)]
        BY <1>1, <2>1 DEF TypeOK
    <2>3. UNCHANGED <<instance, toInstance, clientVars, windowVars>>
        BY <1>3 DEF AnswerInfo
    <2>. QED  BY <2>1, <2>2, <2>3 DEF TypeOK, clientVars, windowVars
<1>4. CASE HandleResponse
    <2>1. Tail(toClient[Frame]) \in Seq(Message)
        BY <1>0, <1>4, TailAt DEF HandleResponse, IsHead, TypeOK
    <2>2. toClient' \in [Instance -> Seq(Message)]
        BY <1>4, <2>1 DEF HandleResponse, TypeOK
    <2>. QED  BY <1>4, <2>2 DEF HandleResponse, TypeOK, frameVars, windowVars
<1>. QED  BY <1>2, <1>3, <1>4

LEMMA WindowStepType ==
    ASSUME TypeOK, NEW p \in Popup, Launch(p) \/ Finish(p) \/ Close(p) \/ HandleLogin(p)
    PROVE  TypeOK'
<1>0. p \in Instance /\ Popup \subseteq Instance
    BY DEF Instance
<1>1. CASE Launch(p)
    BY <1>0, <1>1 DEF Launch, TypeOK, frameVars, clientVars
<1>2. CASE Finish(p)
    <2>1. Append(toClient[p], Login) \in Seq(Message)
        BY <1>0, MessageTypes, AppendedAt DEF TypeOK
    <2>2. toClient' \in [Instance -> Seq(Message)]
        BY <1>0, <1>2, <2>1 DEF Finish, TypeOK
    <2>. QED  BY <1>2, <2>2 DEF Finish, TypeOK, frameVars, clientVars, windowVars
<1>3. CASE Close(p)
    <2>1. toInstance' \in [Instance -> Seq(Message)]
        BY <1>0, <1>3, EmptySeq DEF Close, TypeOK
    <2>. QED  BY <1>3, <2>1 DEF Close, TypeOK, frameVars, clientVars, windowVars
<1>4. CASE HandleLogin(p)
    <2>1. Tail(toClient[p]) \in Seq(Message)
        BY <1>0, <1>4, TailAt DEF HandleLogin, IsHead, TypeOK
    <2>2. toClient' \in [Instance -> Seq(Message)]
        BY <1>4, <2>1 DEF HandleLogin, TypeOK
    <2>3. toInstance' \in [Instance -> Seq(Message)]
        <3>1. CASE identityWindow = Null
            BY <1>4, <3>1 DEF HandleLogin, TypeOK
        <3>2. CASE identityWindow # Null
            <4>1. toInstance' = [toInstance EXCEPT ![identityWindow] = <<>>]
                BY <1>4, <3>2 DEF HandleLogin
            <4>. QED  BY <4>1, EmptySeq DEF TypeOK
        <3>. QED  BY <3>1, <3>2
    <2>4. /\ instance' \in [Instance -> {"absent", "loading", "waiting", "ready", "closed"}]
          /\ identityWindow' \in Popup \cup {Null}
          /\ identityWindowSubject' \in Popup \cup {Null}
          /\ resolved' \in [Popup -> Popup \cup {Null}]
          /\ beside' = beside
        <3>1. CASE identityWindow = Null
            BY <1>4, <3>1 DEF HandleLogin, TypeOK, windowVars
        <3>2. CASE identityWindow # Null
            BY <1>0, <1>4, <3>2 DEF HandleLogin, TypeOK
        <3>. QED  BY <3>1, <3>2
    <2>. QED  BY <1>4, <2>2, <2>3, <2>4 DEF HandleLogin, TypeOK, frameVars, clientVars
<1>. QED  BY <1>1, <1>2, <1>3, <1>4

LEMMA TypeStep == TypeOK /\ [Next]_vars => TypeOK'
<1> SUFFICES ASSUME TypeOK, [Next]_vars  PROVE TypeOK'
    OBVIOUS
<1>0. Info \in Id
    BY ChannelBounds DEF Info, Id
<1>1. CASE AppStart
    BY <1>0, <1>1, SendType DEF AppStart, TypeOK, frameVars, windowVars
<1>2. ASSUME NEW id \in Id, SendRequest(id)  PROVE TypeOK'
    BY <1>2, SendType DEF SendRequest, TypeOK, frameVars, windowVars
<1>3. CASE UNCHANGED vars
    BY <1>3 DEF vars, frameVars, clientVars, windowVars, TypeOK
<1>. QED  BY <1>1, <1>2, <1>3, InstanceStepType, FrameStepType, WindowStepType DEF Next

LEMMA InitType == Init => TypeOK
BY EmptySeq DEF Init, TypeOK

\* For any windows and bounds, every reachable state is well typed.
THEOREM TypeCorrect == Spec => []TypeOK
BY InitType, TypeStep, PTL DEF Spec
----------------------------------------------------------------------------
(* The inductive invariant *)

\* Until the app has heard of an instance there is only the iframe, nothing was
\* said to it, and the app has asked for nothing but info.
BeforeInitialize ==
    ~initialized =>
        /\ \A p \in Popup : instance[p] = "absent"
        /\ ~browserSupported
        /\ toInstance[Frame] = <<>> /\ asking = {}
        /\ \A id \in Id : ~Carries(toClient[Frame], "response", id)
        /\ sent \subseteq {Info} /\ outboundRequests = sent
        /\ pendingRequests = IF Info \in sent THEN <<Info>> ELSE <<>>

\* From then on nothing waits in the app, and the iframe has its acknowledgement
\* or will receive it.
AfterInitialize ==
    initialized =>
        /\ pendingRequests = <<>>
        /\ \/ instance[Frame] = "ready"
           \/ instance[Frame] = "waiting" /\ HasAck(toInstance[Frame])

Listening ==
    /\ \A i \in Instance :
           /\ instance[i] \in {"absent", "loading"} => toClient[i] = <<>>
           /\ toInstance[i] # <<>> => instance[i] \in {"waiting", "ready"}
    /\ instance[Frame] = "absent" <=> Info \notin sent
    /\ instance[Frame] # "closed"

\* A request that awaits its answer is in one place at a time: on its way to the
\* iframe, awaiting storage access, or answered.
RequestsOnce ==
    /\ instance[Frame] = "ready" \/ AckFirst(toInstance[Frame])
    /\ Once(toInstance[Frame], "request") /\ Once(toClient[Frame], "response")
    /\ \A id \in Id :
           /\ Carries(toInstance[Frame], "request", id) =>
                  id \in outboundRequests \ asking /\ ~Carries(toClient[Frame], "response", id)
           /\ id \in asking => id \in outboundRequests /\ ~Carries(toClient[Frame], "response", id)
           /\ Carries(toClient[Frame], "response", id) => id \in outboundRequests

\* Whoever may still log in is the last launch's window, or was beside it.
Windows ==
    /\ identityWindowSubject # Null =>
           \A p \in Popup : MayLogIn(p) => p \in {identityWindowSubject} \cup beside[identityWindowSubject]
    /\ identityWindowSubject # Null => instance[identityWindowSubject] # "absent"
    /\ \A p \in Popup : resolved[p] # Null => instance[p] # "absent"
    /\ LoginsAnswerTheirLaunch

ChannelInv ==
    TypeOK /\ BeforeInitialize /\ AfterInitialize /\ Listening /\ RequestsOnce /\ Windows

LEMMA InitInv == Init => ChannelInv
<1> SUFFICES ASSUME Init  PROVE ChannelInv
    OBVIOUS
<1>0. Frame \in Instance /\ Popup \subseteq Instance
    BY DEF Instance
<1>1. BeforeInitialize
    BY <1>0, EmptyQueue DEF Init, BeforeInitialize
<1>2. AfterInitialize /\ Listening /\ Windows
    BY <1>0, FrameAssumption DEF Init, AfterInitialize, Listening, Windows,
       LoginsAnswerTheirLaunch
<1>3. RequestsOnce
    BY <1>0, EmptyQueue DEF Init, RequestsOnce
<1>. QED  BY <1>1, <1>2, <1>3, InitType DEF ChannelInv

\* The windows' own part of the invariant.
LEMMA WindowsStay ==
    ASSUME Windows, UNCHANGED windowVars, TypeOK,
           \A p \in Popup : instance[p] # "absent" => instance'[p] # "absent",
           \A p \in Popup : MayLogIn(p)' => MayLogIn(p)
    PROVE  Windows'
<1>1. UNCHANGED <<identityWindowSubject, resolved, beside>>
    BY DEF windowVars
<1>2. identityWindowSubject # Null => identityWindowSubject \in Popup
    BY DEF TypeOK
<1>3. LoginsAnswerTheirLaunch'
    BY <1>1 DEF Windows, LoginsAnswerTheirLaunch
<1>. QED  BY <1>1, <1>2, <1>3 DEF Windows

\* A window that is as it was has posted no more logins.
LEMMA NoMoreLogins ==
    ASSUME TypeOK, NEW p \in Popup,
           \/ instance'[p] = instance[p]
           \/ instance'[p] \in {"absent", "closed"}
           \/ instance[p] \in {"loading", "waiting", "ready"},
           \/ toClient'[p] = toClient[p]
           \/ toClient[p] # <<>> /\ toClient'[p] = Tail(toClient[p])
           \/ instance[p] \in {"loading", "waiting", "ready"}
    PROVE  MayLogIn(p)' => MayLogIn(p)
<1>0. toClient[p] \in Seq(Message)
    BY DEF TypeOK, Instance
<1>1. CASE toClient[p] # <<>> /\ toClient'[p] = Tail(toClient[p])
    <2>1. \A k \in DOMAIN Tail(toClient[p]) :
              k + 1 \in DOMAIN toClient[p] /\ Tail(toClient[p])[k] = toClient[p][k + 1]
        BY <1>0, <1>1, TailAt
    <2>. QED  BY <1>1, <2>1 DEF MayLogIn
<1>. QED  BY <1>1 DEF MayLogIn

LEMMA WindowsStep ==
    ASSUME ChannelInv, [Next]_vars
    PROVE  Windows'
<1>0. TypeOK /\ Windows /\ Frame \notin Popup /\ Null \notin Popup /\ Popup \subseteq Instance
    BY FrameAssumption DEF ChannelInv, Instance
<1> DEFINE Kept == /\ \A p \in Popup : instance[p] # "absent" => instance'[p] # "absent"
                   /\ \A p \in Popup : MayLogIn(p)' => MayLogIn(p)
<1>8. ASSUME \A p \in Popup : instance'[p] = instance[p] /\ toClient'[p] = toClient[p]
      PROVE  Kept
    BY <1>8 DEF MayLogIn
<1>9. ASSUME Kept, UNCHANGED windowVars  PROVE Windows'
    BY <1>0, <1>9, WindowsStay
<1> HIDE DEF Kept
<1>1. CASE AppStart
    BY <1>0, <1>1, <1>8, <1>9 DEF AppStart, TypeOK
<1>2. CASE HandleRequest \/ AnswerInfo \/ HandleResponse \/ UNCHANGED vars
    BY <1>0, <1>2, <1>8, <1>9 DEF HandleRequest, AnswerInfo, HandleResponse, vars, TypeOK
<1>3. ASSUME NEW id \in Id, SendRequest(id)  PROVE Windows'
    BY <1>0, <1>3, <1>8, <1>9 DEF SendRequest
<1>4. ASSUME NEW i \in Instance, Start(i) \/ ReceiveAck(i) \/ HandleInitialize(i)
      PROVE  Windows'
    <2>1. \A p \in Popup : instance[p] # "absent" => instance'[p] # "absent"
        BY <1>0, <1>4 DEF Start, ReceiveAck, HandleInitialize, TypeOK
    <2>2. ASSUME NEW p \in Popup  PROVE MayLogIn(p)' => MayLogIn(p)
        <3>1. CASE p # i
            BY <1>0, <1>4, <3>1, NoMoreLogins DEF Start, ReceiveAck, HandleInitialize, TypeOK
        <3>2. CASE p = i
            BY <1>0, <1>4, <3>2, NoMoreLogins DEF Start, ReceiveAck, HandleInitialize, IsHead, TypeOK
        <3>. QED  BY <3>1, <3>2
    <2>3. Kept
        BY <2>1, <2>2 DEF Kept
    <2>. QED  BY <1>4, <1>9, <2>3 DEF Start, ReceiveAck, HandleInitialize
<1>5. ASSUME NEW p \in Popup, Finish(p) \/ Close(p)  PROVE Windows'
    <2>1. \A q \in Popup : instance[q] # "absent" => instance'[q] # "absent"
        BY <1>0, <1>5 DEF Finish, Close, TypeOK
    <2>2. ASSUME NEW q \in Popup  PROVE MayLogIn(q)' => MayLogIn(q)
        BY <1>0, <1>5, NoMoreLogins DEF Finish, Close, TypeOK
    <2>3. Kept
        BY <2>1, <2>2 DEF Kept
    <2>. QED  BY <1>5, <1>9, <2>3 DEF Finish, Close
<1>6. ASSUME NEW p \in Popup, Launch(p)  PROVE Windows'
    <2>1. /\ identityWindowSubject' = p /\ instance[p] = "absent" /\ instance'[p] # "absent"
          /\ beside' = [beside EXCEPT ![p] = {q \in Popup : MayLogIn(q)}]
          /\ UNCHANGED <<toClient, resolved>>
          /\ \A q \in Popup : q # p => instance'[q] = instance[q]
        BY <1>0, <1>6 DEF Launch, TypeOK
    <2>2. resolved[p] = Null
        BY <1>0, <2>1 DEF Windows
    <2>3. \A q \in Popup : MayLogIn(q)' => q \in {p} \cup beside'[p]
        BY <1>0, <2>1 DEF MayLogIn, TypeOK
    <2>4. LoginsAnswerTheirLaunch'
        BY <1>0, <2>1, <2>2 DEF Windows, LoginsAnswerTheirLaunch, TypeOK
    <2>5. \A q \in Popup : resolved'[q] # Null => instance'[q] # "absent"
        BY <1>0, <2>1 DEF Windows
    <2>. QED  BY <2>1, <2>3, <2>4, <2>5 DEF Windows
<1>7. ASSUME NEW p \in Popup, HandleLogin(p)  PROVE Windows'
    <2>3. MayLogIn(p)
        BY <1>0, <1>7, TailAt DEF HandleLogin, IsHead, TypeOK, MayLogIn
    <2>1. CASE identityWindow = Null
        <3>1. /\ toClient[p] # <<>> /\ toClient' = [toClient EXCEPT ![p] = Tail(@)]
              /\ UNCHANGED instance /\ UNCHANGED windowVars
            BY <1>7, <2>1 DEF HandleLogin, IsHead
        <3>2. ASSUME NEW q \in Popup  PROVE MayLogIn(q)' => MayLogIn(q)
            BY <1>0, <3>1, NoMoreLogins DEF TypeOK
        <3>3. Kept
            BY <3>1, <3>2 DEF Kept
        <3>. QED  BY <1>9, <3>1, <3>3
    <2>2. CASE identityWindow # Null
        <3>1. \A q \in Popup : instance[q] # "absent" => instance'[q] # "absent"
            BY <1>0, <1>7, <2>2 DEF HandleLogin, TypeOK
        <3>2. \A q \in Popup : resolved'[q] # Null =>
                  resolved[q] # Null \/ (identityWindowSubject # Null /\ q = identityWindowSubject)
            BY <1>0, <1>7, <2>2 DEF HandleLogin, TypeOK
        <3>3. identityWindow' = Null /\ identityWindowSubject' = Null /\ beside' = beside
            BY <1>7, <2>2 DEF HandleLogin
        <3>4. ASSUME NEW q \in Popup  PROVE resolved'[q] \in {Null, q} \cup beside'[q]
            <4>1. CASE q = identityWindowSubject
                <5>1. resolved'[q] = p
                    BY <1>0, <1>7, <2>2, <4>1 DEF HandleLogin, TypeOK
                <5>2. p \in {q} \cup beside[q]
                    BY <1>0, <2>3, <4>1 DEF Windows
                <5>. QED  BY <3>3, <5>1, <5>2
            <4>2. CASE q # identityWindowSubject
                <5>1. resolved'[q] = resolved[q]
                    BY <1>0, <1>7, <2>2, <4>2 DEF HandleLogin, TypeOK
                <5>. QED  BY <1>0, <3>3, <5>1 DEF Windows, LoginsAnswerTheirLaunch
            <4>. QED  BY <4>1, <4>2
        <3>5. LoginsAnswerTheirLaunch'
            BY <3>4 DEF LoginsAnswerTheirLaunch
        <3>6. \A q \in Popup : resolved'[q] # Null => instance'[q] # "absent"
            BY <1>0, <3>1, <3>2 DEF Windows
        <3>. QED  BY <3>3, <3>5, <3>6 DEF Windows
    <2>. QED  BY <2>1, <2>2
<1>. QED  BY <1>1, <1>2, <1>3, <1>4, <1>5, <1>6, <1>7 DEF Next

\* Nothing happens in a window before the app has heard of the iframe.
LEMMA WindowsComeLater ==
    ASSUME ChannelInv, NEW p \in Popup,
           \/ Start(p) \/ ReceiveAck(p) \/ HandleInitialize(p)
           \/ Launch(p) \/ Finish(p) \/ Close(p) \/ HandleLogin(p)
    PROVE  initialized
<1>0. p \in Instance
    BY DEF Instance
<1> SUFFICES ASSUME ~initialized  PROVE FALSE
    OBVIOUS
<1>1. instance[p] = "absent" /\ ~browserSupported
    BY DEF ChannelInv, BeforeInitialize
<1>2. toClient[p] = <<>>
    BY <1>0, <1>1 DEF ChannelInv, Listening
<1>. QED  BY <1>1, <1>2 DEF Start, ReceiveAck, HandleInitialize, Launch, Finish, Close,
                            HandleLogin, IsHead

\* The part of the invariant that is about requests: it is about the app and the
\* iframe only, once they know each other.
FrameInv == BeforeInitialize /\ AfterInitialize /\ RequestsOnce

LEMMA FrameUntouched ==
    ASSUME FrameInv, initialized, initialized',
           UNCHANGED <<asking, pendingRequests, outboundRequests>>,
           instance'[Frame] = instance[Frame],
           toInstance'[Frame] = toInstance[Frame],
           toClient'[Frame] = toClient[Frame]
    PROVE  FrameInv'
BY DEF FrameInv, BeforeInitialize, AfterInitialize, RequestsOnce

LEMMA WindowStepInv ==
    ASSUME ChannelInv, NEW p \in Popup,
           \/ Start(p) \/ ReceiveAck(p) \/ HandleInitialize(p)
           \/ Launch(p) \/ Finish(p) \/ Close(p) \/ HandleLogin(p)
    PROVE  FrameInv' /\ Listening'
<1>0. /\ p \in Instance /\ Popup \subseteq Instance /\ p # Frame /\ Frame \in Instance
      /\ Null \notin Popup /\ Frame \notin Popup
      /\ TypeOK /\ FrameInv /\ Listening /\ initialized
    BY FrameAssumption, WindowsComeLater DEF ChannelInv, FrameInv, Instance
<1>1. ASSUME instance'[Frame] = instance[Frame], UNCHANGED <<frameVars, clientVars>>,
             toInstance'[Frame] = toInstance[Frame], toClient'[Frame] = toClient[Frame]
      PROVE  FrameInv'
    BY <1>0, <1>1, FrameUntouched DEF frameVars, clientVars
<1>2. CASE Start(p)
    <2>1. FrameInv'
        BY <1>0, <1>1, <1>2 DEF Start, TypeOK
    <2>2. Listening'
        BY <1>0, <1>2 DEF Start, TypeOK, Listening, clientVars
    <2>. QED  BY <2>1, <2>2
<1>3. CASE ReceiveAck(p)
    <2>1. FrameInv'
        BY <1>0, <1>1, <1>3 DEF ReceiveAck, TypeOK
    <2>2. Listening'
        BY <1>0, <1>3 DEF ReceiveAck, TypeOK, Listening, clientVars
    <2>. QED  BY <2>1, <2>2
<1>4. CASE HandleInitialize(p)
    <2>1. toInstance' = Posted(toInstance, p, <<Ack>>)
        BY <1>0, <1>4 DEF HandleInitialize
    <2>2. \A i \in Instance :
              toInstance'[i] = IF i = p /\ instance[i] # "closed"
                               THEN Append(toInstance[i], Ack) ELSE toInstance[i]
        <3>1. toInstance \in [Instance -> Seq(Message)]
            BY <1>0 DEF TypeOK
        <3>. QED  BY <1>0, <2>1, <3>1, PostedAck
    <2>3. toClient' = [toClient EXCEPT ![p] = Tail(@)] /\ toClient[p] # <<>>
        BY <1>4 DEF HandleInitialize, IsHead
    <2>4. pendingRequests = <<>> /\ pendingRequests' = <<>>
        BY <1>0, <1>4 DEF HandleInitialize, FrameInv, AfterInitialize
    <2>5. FrameInv'
        BY <1>0, <1>4, <2>2, <2>3, <2>4, FrameUntouched DEF HandleInitialize, frameVars, TypeOK
    <2>6. instance[p] \in {"waiting", "ready", "closed"}
        BY <1>0, <2>3 DEF Listening, TypeOK
    <2>7. UNCHANGED <<instance, sent>>
        BY <1>4 DEF HandleInitialize
    <2>8. ASSUME NEW i \in Instance
          PROVE  /\ instance'[i] \in {"absent", "loading"} => toClient'[i] = <<>>
                 /\ toInstance'[i] # <<>> => instance'[i] \in {"waiting", "ready"}
        <3>1. CASE i = p
            BY <1>0, <2>2, <2>6, <2>7, <3>1 DEF Listening
        <3>2. CASE i # p
            BY <1>0, <2>2, <2>3, <2>7, <3>2 DEF Listening, TypeOK
        <3>. QED  BY <3>1, <3>2
    <2>9. Listening'
        BY <1>0, <2>7, <2>8 DEF Listening
    <2>. QED  BY <2>5, <2>9
<1>5. CASE Launch(p)
    <2>1. FrameInv'
        BY <1>0, <1>1, <1>5 DEF Launch, TypeOK
    <2>2. Listening'
        BY <1>0, <1>5 DEF Launch, TypeOK, Listening, clientVars
    <2>. QED  BY <2>1, <2>2
<1>6. CASE Finish(p)
    <2>1. FrameInv'
        BY <1>0, <1>1, <1>6 DEF Finish, TypeOK
    <2>2. Listening'
        BY <1>0, <1>6 DEF Finish, TypeOK, Listening, clientVars
    <2>. QED  BY <2>1, <2>2
<1>7. CASE Close(p)
    <2>1. FrameInv'
        BY <1>0, <1>1, <1>7 DEF Close, TypeOK
    <2>2. Listening'
        BY <1>0, <1>7 DEF Close, TypeOK, Listening, clientVars
    <2>. QED  BY <2>1, <2>2
<1>8. CASE HandleLogin(p)
    <2>1. /\ toClient' = [toClient EXCEPT ![p] = Tail(@)] /\ toClient[p] # <<>>
          /\ UNCHANGED <<frameVars, clientVars>>
          /\ \/ UNCHANGED <<instance, toInstance>>
             \/ /\ identityWindow \in Popup
                /\ instance' = [instance EXCEPT ![identityWindow] = "closed"]
                /\ toInstance' = [toInstance EXCEPT ![identityWindow] = <<>>]
        BY <1>0, <1>8 DEF HandleLogin, IsHead, TypeOK
    <2>2. FrameInv'
        BY <1>0, <1>1, <2>1 DEF TypeOK
    <2>3. instance[p] \notin {"absent", "loading"}
        BY <1>0, <2>1 DEF Listening
    <2>4. Listening'
        BY <1>0, <2>1, <2>3 DEF TypeOK, Listening, clientVars
    <2>. QED  BY <2>2, <2>4
<1>. QED  BY <1>2, <1>3, <1>4, <1>5, <1>6, <1>7, <1>8

\* The steps of the app and the iframe leave the windows' queues alone.
LEMMA ListeningStays ==
    ASSUME TypeOK, Listening,
           \A p \in Popup : /\ instance'[p] = instance[p]
                            /\ toInstance'[p] = toInstance[p]
                            /\ toClient'[p] = toClient[p],
           instance'[Frame] \in {"absent", "loading"} => toClient'[Frame] = <<>>,
           toInstance'[Frame] # <<>> => instance'[Frame] \in {"waiting", "ready"},
           instance'[Frame] = "absent" <=> Info \notin sent',
           instance'[Frame] # "closed"
    PROVE  Listening'
<1>1. \A i \in Instance : i \in Popup \/ i = Frame
    BY DEF Instance
<1>2. Popup \subseteq Instance
    BY DEF Instance
<1>. QED  BY <1>1, <1>2 DEF Listening

LEMMA AppStartInv ==
    ASSUME ChannelInv, AppStart
    PROVE  FrameInv' /\ Listening'
<1>0. /\ Frame \in Instance /\ Frame \notin Popup /\ Popup \subseteq Instance /\ Info \in Id
      /\ TypeOK /\ FrameInv /\ Listening
    BY FrameAssumption, ChannelBounds DEF ChannelInv, FrameInv, Instance, Info, Id
<1>1. Info \notin sent /\ sent' = sent \cup {Info} /\ outboundRequests' = outboundRequests \cup {Info}
    BY DEF AppStart, Send
<1>2. instance[Frame] = "absent"
    BY <1>0, <1>1 DEF Listening
<1>3. ~initialized
    BY <1>0, <1>2 DEF FrameInv, AfterInitialize
<1>4. /\ toInstance[Frame] = <<>> /\ asking = {} /\ pendingRequests = <<>> /\ sent = {}
      /\ ~browserSupported /\ outboundRequests = sent
      /\ \A p \in Popup : instance[p] = "absent"
      /\ \A id \in Id : ~Carries(toClient[Frame], "response", id)
    BY <1>0, <1>1, <1>3 DEF FrameInv, BeforeInitialize
<1>5. /\ pendingRequests' = <<Info>> /\ toInstance' = toInstance
      /\ instance' = [instance EXCEPT ![Frame] = "loading"]
      /\ UNCHANGED <<toClient, asking, initialized, browserSupported>>
    BY <1>3, <1>4 DEF AppStart, Send, PostMessage, frameVars
<1>6. BeforeInitialize'
    BY <1>0, <1>1, <1>4, <1>5 DEF BeforeInitialize, TypeOK
<1>7. AfterInitialize'
    BY <1>3, <1>5 DEF AfterInitialize
<1>8. RequestsOnce'
    BY <1>0, <1>4, <1>5, EmptyQueue DEF FrameInv, RequestsOnce
<1>9. Listening'
    <2>1. toClient[Frame] = <<>>
        BY <1>0, <1>2 DEF Listening
    <2>. QED  BY <1>0, <1>1, <1>4, <1>5, <2>1, ListeningStays DEF TypeOK
<1>. QED  BY <1>6, <1>7, <1>8, <1>9 DEF FrameInv

LEMMA FrameStartInv ==
    ASSUME ChannelInv, Start(Frame)
    PROVE  FrameInv' /\ Listening'
<1>0. /\ Frame \in Instance /\ Frame \notin Popup /\ Popup \subseteq Instance
      /\ TypeOK /\ FrameInv /\ Listening
    BY FrameAssumption DEF ChannelInv, FrameInv, Instance
<1>1. /\ instance[Frame] = "loading"
      /\ instance' = [instance EXCEPT ![Frame] = "waiting"]
      /\ toClient' = [toClient EXCEPT ![Frame] = Append(@, Initialize)]
      /\ UNCHANGED <<toInstance, frameVars, clientVars>>
    BY DEF Start
<1>2. ~initialized
    BY <1>0, <1>1 DEF FrameInv, AfterInitialize
<1>3. \A id : Carries(toClient'[Frame], "response", id) <=> Carries(toClient[Frame], "response", id)
    <2>1. toClient[Frame] \in Seq(Message) /\ toClient'[Frame] = Append(toClient[Frame], Initialize)
        BY <1>0, <1>1 DEF TypeOK
    <2>2. Initialize.type # "response" /\ Initialize \in Message
        BY MessageTypes DEF Initialize
    <2>. QED  BY <2>1, <2>2, AppendCarries
<1>4. BeforeInitialize'
    BY <1>0, <1>1, <1>2, <1>3 DEF FrameInv, BeforeInitialize, TypeOK, frameVars, clientVars
<1>5. AfterInitialize'
    BY <1>1, <1>2 DEF AfterInitialize, clientVars
<1>6. RequestsOnce'
    <2>1. toInstance'[Frame] = <<>> /\ asking' = {}
        BY <1>0, <1>1, <1>2 DEF FrameInv, BeforeInitialize, frameVars
    <2>2. \A id \in Id : ~Carries(toClient'[Frame], "response", id)
        BY <1>0, <1>2, <1>3 DEF FrameInv, BeforeInitialize
    <2>3. Once(toClient'[Frame], "response")
        <3>1. Once(toClient[Frame], "response")
            BY <1>0 DEF FrameInv, RequestsOnce
        <3>2. toClient[Frame] \in Seq(Message) /\ toClient'[Frame] = Append(toClient[Frame], Initialize)
            BY <1>0, <1>1 DEF TypeOK
        <3>3. Initialize.type # "response" /\ Initialize \in Message
            BY MessageTypes DEF Initialize
        <3>. QED  BY <3>1, <3>2, <3>3, AppendOnce
    <2>. QED  BY <2>1, <2>2, <2>3, EmptyQueue DEF RequestsOnce
<1>7. Listening'
    BY <1>0, <1>1, ListeningStays DEF TypeOK, Listening, clientVars
<1>. QED  BY <1>4, <1>5, <1>6, <1>7 DEF FrameInv

LEMMA FrameAckInv ==
    ASSUME ChannelInv, ReceiveAck(Frame)
    PROVE  FrameInv' /\ Listening'
<1>0. /\ Frame \in Instance /\ Frame \notin Popup /\ Popup \subseteq Instance
      /\ TypeOK /\ FrameInv /\ Listening
    BY FrameAssumption DEF ChannelInv, FrameInv, Instance
<1>1. /\ instance[Frame] = "waiting" /\ toInstance[Frame] # <<>>
      /\ instance' = [instance EXCEPT ![Frame] = "ready"]
      /\ toInstance' = [toInstance EXCEPT ![Frame] = Tail(@)]
      /\ UNCHANGED <<toClient, frameVars, clientVars>>
    BY DEF ReceiveAck, IsHead
<1>2. initialized
    BY <1>0, <1>1 DEF FrameInv, BeforeInitialize
<1>3. toInstance[Frame] \in Seq(Message) /\ toInstance'[Frame] = Tail(toInstance[Frame])
    BY <1>0, <1>1 DEF TypeOK
<1>4. instance'[Frame] = "ready"
    BY <1>0, <1>1 DEF TypeOK
<1>5. BeforeInitialize' /\ AfterInitialize'
    BY <1>0, <1>1, <1>2, <1>4 DEF FrameInv, BeforeInitialize, AfterInitialize, clientVars
<1>6. RequestsOnce'
    <2>1. \A id : Carries(toInstance'[Frame], "request", id) => Carries(toInstance[Frame], "request", id)
        BY <1>1, <1>3, TailCarries
    <2>2. Once(toInstance'[Frame], "request")
        BY <1>0, <1>1, <1>3, TailOnce DEF FrameInv, RequestsOnce
    <2>. QED  BY <1>0, <1>1, <1>4, <2>1, <2>2 DEF FrameInv, RequestsOnce, frameVars, clientVars
<1>7. Listening'
    BY <1>0, <1>1, <1>4, ListeningStays DEF TypeOK, Listening, clientVars
<1>. QED  BY <1>5, <1>6, <1>7 DEF FrameInv

\* The iframe's announcement: the app posts what waited and the acknowledgement.
LEMMA FrameInitializeInv ==
    ASSUME ChannelInv, HandleInitialize(Frame)
    PROVE  FrameInv' /\ Listening'
<1> DEFINE q  == toInstance[Frame]
           q2 == toInstance'[Frame]
           r  == toClient[Frame]
           r2 == toClient'[Frame]
<1>0. /\ Frame \in Instance /\ Frame \notin Popup /\ Popup \subseteq Instance /\ Info \in Id
      /\ TypeOK /\ FrameInv /\ Listening
      /\ toInstance \in [Instance -> Seq(Message)]
    BY FrameAssumption, ChannelBounds DEF ChannelInv, FrameInv, Instance, Info, Id, TypeOK
<1>1. /\ r # <<>>
      /\ toClient' = [toClient EXCEPT ![Frame] = Tail(@)]
      /\ initialized' = TRUE /\ pendingRequests' = <<>>
      /\ UNCHANGED <<instance, asking, sent, outboundRequests, browserSupported>>
    BY DEF HandleInitialize, IsHead, frameVars
<1>2. q \in Seq(Message) /\ r \in Seq(Message) /\ r2 = Tail(r)
    BY <1>0, <1>1 DEF TypeOK
<1>3. instance[Frame] \in {"waiting", "ready"}
    BY <1>0, <1>1 DEF Listening, TypeOK
<1>4. Ack \in Message /\ Ack.type = "ack"
    BY MessageTypes DEF Ack
<1>5. /\ Once(r2, "response")
      /\ \A id : Carries(r2, "response", id) => Carries(r, "response", id)
    BY <1>0, <1>1, <1>2, TailOnce, TailCarries DEF FrameInv, RequestsOnce
<1>6. \A p \in Popup : toInstance'[p] = toInstance[p] /\ toClient'[p] = toClient[p]
    <2>1. Posted(toInstance, Frame, Waiting) \in [Instance -> Seq(Message)]
          /\ \A p \in Popup : Posted(toInstance, Frame, Waiting)[p] = toInstance[p]
        BY <1>0, PostedWaiting DEF TypeOK
    <2>2. \A p \in Popup : toInstance'[p] = toInstance[p]
        <3>1. CASE initialized
            <4>1. toInstance' = Posted(toInstance, Frame, <<Ack>>)
                BY <3>1 DEF HandleInitialize
            <4>2. \A p \in Popup : p \in Instance /\ p # Frame
                BY <1>0
            <4>3. \A p \in Popup : Posted(toInstance, Frame, <<Ack>>)[p] = toInstance[p]
                BY <1>0, <4>2, PostedAck
            <4>. QED  BY <4>1, <4>3
        <3>2. CASE ~initialized
            <4>1. toInstance' = Posted(Posted(toInstance, Frame, Waiting), Frame, <<Ack>>)
                BY <3>2 DEF HandleInitialize
            <4> DEFINE first == Posted(toInstance, Frame, Waiting)
            <4> HIDE DEF first
            <4>2. \A p \in Popup : p \in Instance /\ p # Frame
                BY <1>0
            <4>3. first \in [Instance -> Seq(Message)] /\ \A p \in Popup : first[p] = toInstance[p]
                BY <2>1 DEF first
            <4>4. ASSUME NEW f \in [Instance -> Seq(Message)], NEW p \in Popup
                  PROVE  Posted(f, Frame, <<Ack>>)[p] = f[p]
                BY <1>0, <4>2, PostedAck
            <4>5. \A p \in Popup : Posted(first, Frame, <<Ack>>)[p] = first[p]
                BY <4>3, <4>4
            <4>. QED  BY <4>1, <4>3, <4>5 DEF first
        <3>. QED  BY <3>1, <3>2
    <2>. QED  BY <1>0, <1>1, <2>2 DEF TypeOK
<1>7. ASSUME q2 # <<>>  PROVE Listening'
    BY <1>0, <1>1, <1>3, <1>6, <1>7, ListeningStays DEF Listening
<1>8. ASSUME NEW before \in Seq(Message), q2 = Append(before, Ack), AckFirst(before),
             Once(before, "request"),
             \A id \in Id : Carries(before, "request", id) =>
                 id \in outboundRequests \ asking /\ ~Carries(r2, "response", id)
      PROVE  FrameInv' /\ Listening'
    <2>1. HasAck(q2) /\ AckFirst(q2) /\ Once(q2, "request")
        BY <1>4, <1>8, AppendAck, AppendAckFirst, AppendOnce
    <2>2. \A id \in Id : Carries(q2, "request", id) => Carries(before, "request", id)
        BY <1>4, <1>8, AppendCarries
    <2>3. RequestsOnce'
        BY <1>0, <1>1, <1>5, <1>8, <2>1, <2>2 DEF FrameInv, RequestsOnce
    <2>4. AfterInitialize'
        BY <1>1, <1>3, <2>1 DEF AfterInitialize
    <2>5. BeforeInitialize'
        BY <1>1 DEF BeforeInitialize
    <2>6. q2 # <<>>
        BY <1>4, <1>8
    <2>. QED  BY <1>7, <2>3, <2>4, <2>5, <2>6 DEF FrameInv
<1>9. CASE initialized
    <2>1. q2 = Append(q, Ack)
        BY <1>0, <1>3, <1>9, PostedAck DEF HandleInitialize
    <2>2. \A id \in Id : Carries(q, "request", id) =>
              id \in outboundRequests \ asking /\ ~Carries(r2, "response", id)
        BY <1>0, <1>5 DEF FrameInv, RequestsOnce
    <2>3. Once(q, "request")
        BY <1>0 DEF FrameInv, RequestsOnce
    <2>4. CASE AckFirst(q)
        BY <1>2, <1>8, <2>1, <2>2, <2>3, <2>4
    <2>5. CASE instance[Frame] = "ready"
        <3>1. Once(q2, "request")
            BY <1>2, <1>4, <2>1, <2>3, AppendOnce
        <3>2. \A id \in Id : Carries(q2, "request", id) => Carries(q, "request", id)
            BY <1>2, <1>4, <2>1, AppendCarries
        <3>3. RequestsOnce'
            BY <1>0, <1>1, <1>5, <2>2, <2>5, <3>1, <3>2 DEF FrameInv, RequestsOnce
        <3>4. BeforeInitialize' /\ AfterInitialize'
            BY <1>1, <2>5 DEF BeforeInitialize, AfterInitialize
        <3>5. q2 # <<>>
            BY <1>2, <1>4, <2>1
        <3>. QED  BY <1>7, <3>3, <3>4, <3>5 DEF FrameInv
    <2>. QED  BY <1>0, <2>4, <2>5 DEF FrameInv, RequestsOnce
<1>10. CASE ~initialized
    <2>1. /\ q = <<>> /\ asking = {} /\ outboundRequests = sent
          /\ pendingRequests = <<Info>> /\ Info \in sent
          /\ \A id \in Id : ~Carries(r, "response", id)
        BY <1>0, <1>3, <1>10 DEF FrameInv, BeforeInitialize, Listening
    <2> DEFINE first == Append(<<>>, Request(Info))
    <2>2. /\ Request(Info) \in Message /\ Request(Info).type = "request" /\ Request(Info).id = Info
          /\ <<>> \in Seq(Message)
        BY <1>0, MessageTypes DEF Request
    <2>3. q \o Waiting = first
        BY <2>1, <2>2 DEF Waiting
    <2>4. /\ Posted(toInstance, Frame, Waiting) \in [Instance -> Seq(Message)]
          /\ Posted(toInstance, Frame, Waiting)[Frame] = first
        <3>1. Posted(toInstance, Frame, Waiting)[Frame] = q \o Waiting
            BY <1>0, <1>3 DEF Posted
        <3>. QED  BY <1>0, <2>3, <3>1, PostedWaiting DEF TypeOK
    <2>5. q2 = Append(first, Ack)
        <3> HIDE DEF first
        <3>1. toInstance' = Posted(Posted(toInstance, Frame, Waiting), Frame, <<Ack>>)
            BY <1>10 DEF HandleInitialize
        <3>. QED  BY <1>0, <1>3, <2>4, <3>1, PostedAck
    <2>6. first \in Seq(Message) /\ AckFirst(first) /\ Once(first, "request")
        BY <2>2, EmptyQueue, AppendAckFirst, AppendOnce, AppendedAt
    <2>7. \A id \in Id : Carries(first, "request", id) => id = Info
        BY <2>2, EmptyQueue, AppendCarries
    <2> HIDE DEF first
    <2>8. \A id \in Id : Carries(first, "request", id) =>
              id \in outboundRequests \ asking /\ ~Carries(r2, "response", id)
        BY <1>5, <2>1, <2>7
    <2>. QED  BY <1>8, <2>5, <2>6, <2>8
<1>. QED  BY <1>9, <1>10

\* Requests of the app after it is shown.
LEMMA SendRequestInv ==
    ASSUME ChannelInv, NEW id \in Id, SendRequest(id)
    PROVE  FrameInv' /\ Listening'
<1> DEFINE q  == toInstance[Frame]
           q2 == toInstance'[Frame]
<1>0. /\ Frame \in Instance /\ Frame \notin Popup /\ Popup \subseteq Instance
      /\ TypeOK /\ FrameInv /\ Listening
    BY FrameAssumption DEF ChannelInv, FrameInv, Instance
<1>1. initialized
    BY <1>0 DEF SendRequest, FrameInv, BeforeInitialize
<1>2. /\ id # Info /\ id \notin sent
      /\ toInstance' = [toInstance EXCEPT ![Frame] = Append(@, Request(id))]
      /\ outboundRequests' = outboundRequests \cup {id}
      /\ sent' = sent \cup {id}
      /\ UNCHANGED <<pendingRequests, instance, toClient, asking, initialized, browserSupported>>
    BY <1>1 DEF SendRequest, Send, PostMessage, frameVars
<1>3. q \in Seq(Message) /\ q2 = Append(q, Request(id))
    BY <1>0, <1>2 DEF TypeOK
<1>4. Request(id) \in Message /\ Request(id).type = "request" /\ Request(id).id = id
    BY MessageTypes DEF Request
<1>5. id \notin outboundRequests
    BY <1>0, <1>2 DEF TypeOK
<1>6. /\ ~Carries(q, "request", id) /\ id \notin asking
      /\ ~Carries(toClient[Frame], "response", id)
    BY <1>0, <1>5 DEF FrameInv, RequestsOnce
<1>7. \A i \in Id : Carries(q2, "request", i) => Carries(q, "request", i) \/ i = id
    BY <1>3, <1>4, AppendCarries
<1>8. Once(q2, "request")
    BY <1>0, <1>3, <1>4, <1>6, AppendOnce DEF FrameInv, RequestsOnce
<1>9. instance[Frame] = "ready" \/ (instance[Frame] = "waiting" /\ HasAck(q))
    BY <1>0, <1>1 DEF FrameInv, AfterInitialize
<1>10. /\ instance'[Frame] = "ready" \/ AckFirst(q2)
       /\ instance'[Frame] = "ready" \/ (instance'[Frame] = "waiting" /\ HasAck(q2))
    <2>1. instance'[Frame] = instance[Frame]
        BY <1>2
    <2>2. HasAck(q) => HasAck(q2)
        BY <1>3, <1>4, AppendAck
    <2>3. AckFirst(q) /\ HasAck(q) => AckFirst(q2)
        BY <1>3, <1>4, AppendAckFirst
    <2>4. instance[Frame] = "ready" \/ AckFirst(q)
        BY <1>0 DEF FrameInv, RequestsOnce
    <2>. QED  BY <1>9, <2>1, <2>2, <2>3, <2>4
<1>11. RequestsOnce'
    BY <1>0, <1>2, <1>6, <1>7, <1>8, <1>10 DEF FrameInv, RequestsOnce
<1>12. BeforeInitialize' /\ AfterInitialize'
    BY <1>0, <1>1, <1>2, <1>10 DEF FrameInv, BeforeInitialize, AfterInitialize
<1>13. Listening'
    <2>1. \A p \in Popup : toInstance'[p] = toInstance[p]
        BY <1>0, <1>2 DEF TypeOK
    <2>. QED  BY <1>0, <1>2, <1>9, <2>1, ListeningStays DEF Listening
<1>. QED  BY <1>11, <1>12, <1>13 DEF FrameInv

\* What an answer under way must be.
LEMMA AnsweredOnce ==
    ASSUME NEW r \in Seq(Message), NEW id \in Id, Once(r, "response"), ~Carries(r, "response", id)
    PROVE  /\ Once(Append(r, Response(id)), "response")
           /\ \A i \in Id : Carries(Append(r, Response(id)), "response", i) =>
                                Carries(r, "response", i) \/ i = id
<1>1. Response(id) \in Message /\ Response(id).type = "response" /\ Response(id).id = id
    BY MessageTypes DEF Response
<1>. QED  BY <1>1, AppendOnce, AppendCarries

LEMMA AnswerInfoInv ==
    ASSUME ChannelInv, AnswerInfo
    PROVE  FrameInv' /\ Listening'
<1> DEFINE r  == toClient[Frame]
           r2 == toClient'[Frame]
<1>0. /\ Frame \in Instance /\ Frame \notin Popup /\ Popup \subseteq Instance
      /\ TypeOK /\ FrameInv /\ Listening
    BY FrameAssumption DEF ChannelInv, FrameInv, Instance
<1>1. PICK id \in asking :
          /\ asking' = asking \ {id}
          /\ toClient' = [toClient EXCEPT ![Frame] = Append(@, Response(id))]
          /\ UNCHANGED <<instance, toInstance, clientVars, windowVars>>
    BY DEF AnswerInfo
<1>2. id \in Id /\ initialized
    <2>1. id \in Id
        BY <1>0 DEF TypeOK
    <2>2. initialized
        BY <1>0 DEF FrameInv, BeforeInitialize
    <2>. QED  BY <2>1, <2>2
<1>3. r \in Seq(Message) /\ r2 = Append(r, Response(id))
    BY <1>0, <1>1 DEF TypeOK
<1>4. /\ ~Carries(r, "response", id) /\ id \in outboundRequests /\ Once(r, "response")
      /\ ~Carries(toInstance[Frame], "request", id)
    BY <1>0, <1>1, <1>2 DEF FrameInv, RequestsOnce
<1>5. /\ Once(r2, "response")
      /\ \A i \in Id : Carries(r2, "response", i) => Carries(r, "response", i) \/ i = id
    BY <1>2, <1>3, <1>4, AnsweredOnce
<1>6. RequestsOnce'
    BY <1>0, <1>1, <1>4, <1>5 DEF FrameInv, RequestsOnce, clientVars
<1>7. BeforeInitialize' /\ AfterInitialize'
    BY <1>0, <1>1, <1>2 DEF FrameInv, BeforeInitialize, AfterInitialize, clientVars
<1>8. Listening'
    <2>1. \A p \in Popup : toClient'[p] = toClient[p]
        BY <1>0, <1>1 DEF TypeOK
    <2>2. instance[Frame] \notin {"absent", "loading"}
        BY <1>0, <1>2 DEF FrameInv, AfterInitialize
    <2>. QED  BY <1>0, <1>1, <2>1, <2>2, ListeningStays DEF Listening, clientVars
<1>. QED  BY <1>6, <1>7, <1>8 DEF FrameInv

LEMMA HandleResponseInv ==
    ASSUME ChannelInv, HandleResponse
    PROVE  FrameInv' /\ Listening'
<1> DEFINE r  == toClient[Frame]
           r2 == toClient'[Frame]
           id == Head(r).id
<1>0. /\ Frame \in Instance /\ Frame \notin Popup /\ Popup \subseteq Instance
      /\ TypeOK /\ FrameInv /\ Listening
    BY FrameAssumption DEF ChannelInv, FrameInv, Instance
<1>1. /\ IsHead(r, "response")
      /\ toClient' = [toClient EXCEPT ![Frame] = Tail(@)]
      /\ outboundRequests' = outboundRequests \ {id}
      /\ UNCHANGED <<instance, toInstance, asking, initialized, pendingRequests, sent>>
    BY DEF HandleResponse, frameVars
<1>2. r \in Seq(Message) /\ r # <<>> /\ Head(r).type = "response" /\ r2 = Tail(r)
    BY <1>0, <1>1 DEF TypeOK, IsHead
<1>3. id \in Id /\ Carries(r, "response", id)
    BY <1>1, <1>2, HeadCarries, TailAt, MessageId
<1>4. initialized
    BY <1>0, <1>3 DEF FrameInv, BeforeInitialize
<1>5. Once(r, "response") /\ Once(r2, "response")
    BY <1>0, <1>2, TailOnce DEF FrameInv, RequestsOnce
<1>6. \A i \in Id : Carries(r2, "response", i) => Carries(r, "response", i) /\ i # id
    BY <1>2, <1>5, TailCarries
<1>7. RequestsOnce'
    BY <1>0, <1>1, <1>3, <1>5, <1>6 DEF FrameInv, RequestsOnce
<1>8. BeforeInitialize' /\ AfterInitialize'
    BY <1>0, <1>1, <1>4 DEF FrameInv, BeforeInitialize, AfterInitialize
<1>9. Listening'
    <2>1. \A p \in Popup : toClient'[p] = toClient[p]
        BY <1>0, <1>1 DEF TypeOK
    <2>2. instance[Frame] \notin {"absent", "loading"}
        BY <1>0, <1>2 DEF Listening
    <2>. QED  BY <1>0, <1>1, <2>1, <2>2, ListeningStays DEF Listening
<1>. QED  BY <1>7, <1>8, <1>9 DEF FrameInv

\* The iframe takes a request from its queue: it asks the browser, drops it or
\* answers it.
LEMMA HandleRequestInv ==
    ASSUME ChannelInv, HandleRequest
    PROVE  FrameInv' /\ Listening'
<1> DEFINE q  == toInstance[Frame]
           q2 == toInstance'[Frame]
           r  == toClient[Frame]
           r2 == toClient'[Frame]
           id == Head(q).id
<1>0. /\ Frame \in Instance /\ Frame \notin Popup /\ Popup \subseteq Instance
      /\ TypeOK /\ FrameInv /\ Listening
    BY FrameAssumption DEF ChannelInv, FrameInv, Instance
<1>1. /\ IsHead(q, "request") /\ instance[Frame] \in {"waiting", "ready"}
      /\ toInstance' = [toInstance EXCEPT ![Frame] = Tail(@)]
      /\ UNCHANGED <<instance, initialized, pendingRequests, sent, outboundRequests,
                     browserSupported>>
    BY DEF HandleRequest, clientVars
<1>2. /\ q \in Seq(Message) /\ r \in Seq(Message)
      /\ q # <<>> /\ Head(q).type = "request" /\ q2 = Tail(q)
    BY <1>0, <1>1 DEF TypeOK, IsHead
<1>3. id \in Id /\ Carries(q, "request", id)
    BY <1>1, <1>2, HeadCarries, TailAt, MessageId
<1>4. initialized
    BY <1>0, <1>2 DEF FrameInv, BeforeInitialize
<1>5. /\ Once(q, "request") /\ Once(r, "response")
      /\ instance[Frame] = "ready" \/ AckFirst(q)
      /\ instance[Frame] = "ready" \/ (instance[Frame] = "waiting" /\ HasAck(q))
    BY <1>0, <1>4 DEF FrameInv, RequestsOnce, AfterInitialize
<1>6. Once(q2, "request") /\ \A i \in Id : Carries(q2, "request", i) => Carries(q, "request", i) /\ i # id
    BY <1>2, <1>5, TailOnce, TailCarries
<1>7. /\ instance'[Frame] = "ready" \/ AckFirst(q2)
      /\ instance'[Frame] = "ready" \/ (instance'[Frame] = "waiting" /\ HasAck(q2))
    <2>1. instance'[Frame] = instance[Frame]
        BY <1>1
    <2>2. AckFirst(q) => AckFirst(q2) /\ (HasAck(q) => HasAck(q2))
        BY <1>1, <1>2, TailAckFirst
    <2>. QED  BY <1>5, <2>1, <2>2
<1>8. id \in outboundRequests /\ id \notin asking /\ ~Carries(r, "response", id)
    BY <1>0, <1>3 DEF FrameInv, RequestsOnce
<1>9. \/ asking' = asking \cup {id} /\ toClient' = toClient
      \/ asking' = asking /\ toClient' = toClient
      \/ asking' = asking /\ toClient' = [toClient EXCEPT ![Frame] = Append(@, Response(id))]
    BY DEF HandleRequest
<1>10. RequestsOnce'
    <2>1. CASE asking' \in {asking, asking \cup {id}} /\ toClient' = toClient
        BY <1>0, <1>1, <1>3, <1>5, <1>6, <1>7, <1>8, <2>1 DEF FrameInv, RequestsOnce
    <2>2. CASE asking' = asking /\ toClient' = [toClient EXCEPT ![Frame] = Append(@, Response(id))]
        <3>1. r2 = Append(r, Response(id))
            BY <1>0, <2>2 DEF TypeOK
        <3>2. /\ Once(r2, "response")
              /\ \A i \in Id : Carries(r2, "response", i) => Carries(r, "response", i) \/ i = id
            BY <1>2, <1>3, <1>5, <1>8, <3>1, AnsweredOnce
        <3>. QED  BY <1>0, <1>1, <1>3, <1>6, <1>7, <1>8, <2>2, <3>2 DEF FrameInv, RequestsOnce
    <2>. QED  BY <1>9, <2>1, <2>2
<1>11. BeforeInitialize' /\ AfterInitialize'
    BY <1>0, <1>1, <1>4, <1>7 DEF FrameInv, BeforeInitialize, AfterInitialize
<1>12. Listening'
    <2>1. \A p \in Popup : toClient'[p] = toClient[p] /\ toInstance'[p] = toInstance[p]
        BY <1>0, <1>1, <1>9 DEF TypeOK
    <2>2. /\ instance'[Frame] \in {"waiting", "ready"}
          /\ instance'[Frame] = "absent" <=> Info \notin sent'
        BY <1>0, <1>1 DEF Listening
    <2>. QED  BY <1>0, <1>1, <2>1, <2>2, ListeningStays
<1>. QED  BY <1>10, <1>11, <1>12 DEF FrameInv

\* Every step keeps the invariant.
LEMMA ChannelInvStep == ChannelInv /\ [Next]_vars => ChannelInv'
<1> SUFFICES ASSUME ChannelInv, [Next]_vars  PROVE ChannelInv'
    OBVIOUS
<1>1. TypeOK'
    BY TypeStep DEF ChannelInv
<1>2. Windows'
    BY WindowsStep
<1>3. FrameInv' /\ Listening'
    <2>1. ASSUME NEW id \in Id, SendRequest(id)  PROVE FrameInv' /\ Listening'
        BY <2>1, SendRequestInv
    <2>2. ASSUME NEW i \in Instance, Start(i) \/ ReceiveAck(i) \/ HandleInitialize(i)
          PROVE  FrameInv' /\ Listening'
        <3>1. CASE i = Frame
            BY <2>2, <3>1, FrameStartInv, FrameAckInv, FrameInitializeInv
        <3>2. CASE i \in Popup
            BY <2>2, <3>2, WindowStepInv
        <3>. QED  BY <3>1, <3>2 DEF Instance
    <2>3. ASSUME NEW p \in Popup, Launch(p) \/ Finish(p) \/ Close(p) \/ HandleLogin(p)
          PROVE  FrameInv' /\ Listening'
        BY <2>3, WindowStepInv
    <2>4. CASE UNCHANGED vars
        BY <2>4 DEF vars, frameVars, clientVars, ChannelInv, FrameInv, BeforeInitialize,
                    AfterInitialize, RequestsOnce, Listening
    <2>. QED  BY <2>1, <2>2, <2>3, <2>4, AppStartInv, HandleRequestInv, AnswerInfoInv,
                 HandleResponseInv DEF Next
<1>. QED  BY <1>1, <1>2, <1>3 DEF ChannelInv, FrameInv

\* The invariant holds in every reachable state, whatever requests, windows and
\* bounds there are, and whether or not the browser restricts storage.
THEOREM ChannelInvariant == Spec => []ChannelInv
BY InitInv, ChannelInvStep, PTL DEF Spec
----------------------------------------------------------------------------
(* What it shows *)

LEMMA HostnameFirst == ChannelInv => HostnameComesFirst
BY DEF ChannelInv, RequestsOnce, AckFirst, HostnameComesFirst

LEMMA SpokenToListening == ChannelInv => NobodyDeafIsSpokenTo
BY DEF ChannelInv, Listening, NobodyDeafIsSpokenTo

LEMMA AnswersAwaited == ChannelInv => EveryAnswerIsAwaited
<1> SUFFICES ASSUME ChannelInv  PROVE EveryAnswerIsAwaited
    OBVIOUS
<1> DEFINE q == toClient[Frame]
<1>1. q \in Seq(Message) /\ Once(q, "response")
    BY DEF ChannelInv, TypeOK, RequestsOnce, Instance
<1>2. ASSUME NEW k \in DOMAIN q, q[k].type = "response"  PROVE q[k].id \in outboundRequests
    <2>1. q[k] \in Message
        BY <1>1
    <2>2. q[k].id \in Id
        BY <1>2, <2>1, MessageId
    <2>3. Carries(q, "response", q[k].id)
        BY <1>2 DEF Carries
    <2>. QED  BY <2>2, <2>3 DEF ChannelInv, RequestsOnce
<1>. QED  BY <1>1, <1>2 DEF EveryAnswerIsAwaited, Once

\* No request that needs the host's key reaches the iframe before the hostname:
\* the app asks only for info before it is shown, and is shown by an answer the
\* acknowledgement was posted before.
THEOREM HostnameFirstAlways == Spec => []HostnameComesFirst
BY ChannelInvariant, HostnameFirst, PTL

\* Nothing is ever posted to an instance whose listener is not there yet.
THEOREM NobodyDeafEver == Spec => []NobodyDeafIsSpokenTo
BY ChannelInvariant, SpokenToListening, PTL

\* An answer under way belongs to an open promise, and is the only one to it:
\* each request is in one place at a time.
THEOREM AnswersAlwaysAwaited == Spec => []EveryAnswerIsAwaited
BY ChannelInvariant, AnswersAwaited, PTL

\* However windows are launched, blocked, closed and finished, a launch is answered
\* by its own window, or by one that had not been done with when it was made.
THEOREM LaunchesAreAnsweredByTheirs == Spec => []LoginsAnswerTheirLaunch
<1>1. ChannelInv => LoginsAnswerTheirLaunch
    BY DEF ChannelInv, Windows
<1>. QED  BY <1>1, ChannelInvariant, PTL
=============================================================================
