-------------------------- MODULE WsSessionProofs --------------------------
(***************************************************************************)
(* Proofs about the session with the server: type correctness and          *)
(* LoggedInHere, for any number of reporting tasks, connections, updates   *)
(* and retries and ring buffers of any size.                               *)
(***************************************************************************)
EXTENDS WsSession, TLAPS

USE SessionAssumption

\* Append keeps the type of a queue (xRingbufferSend).
LEMMA AppendFacts ==
    ASSUME NEW S, NEW q \in Seq(S), NEW e \in S
    PROVE  /\ Append(q, e) \in Seq(S) /\ Append(q, e) # <<>>
           /\ Len(q) \in Nat /\ Len(Append(q, e)) = Len(q) + 1
           /\ \A i \in 1..Len(q) : Append(q, e)[i] = q[i]
           /\ Append(q, e)[Len(q) + 1] = e
  OBVIOUS

\* Head and Tail of a queue that is not empty (vRingbufferReturnItem).
LEMMA TailFacts ==
    ASSUME NEW S, NEW q \in Seq(S), q # <<>>
    PROVE  /\ Head(q) \in S /\ Head(q) = q[1] /\ 1 \in 1..Len(q)
           /\ Tail(q) \in Seq(S) /\ Len(q) \in Nat /\ Len(Tail(q)) = Len(q) - 1
           /\ \A i \in 1..Len(Tail(q)) : i + 1 \in 1..Len(q) /\ Tail(q)[i] = q[i + 1]
           /\ <<Head(q)>> \in Seq(S)
  OBVIOUS

\* The messages of the device are messages.
LEMMA MessageFacts ==
    /\ Torn \in Message /\ [type |-> "register"] \in Message
    /\ [type |-> "login"] \in Message
    /\ \A k \in Kind, v \in Value : Report(k, v) \in Message
  BY DEF Torn, Report, Message

\* What stands for no report is a kind and a value all the same.
LEMMA KindFacts == NoKind \in Kind /\ 0 \in Value /\ Len(ReportOrder) \in Nat \ {0}
<1>1. Len(ReportOrder) \in Nat /\ Len(ReportOrder) # 0
  OBVIOUS
<1>2. 1 \in 1..Len(ReportOrder)
  BY <1>1
<1>3. QED
  BY <1>1, <1>2 DEF NoKind, Kind, Value

\* A task that handles a message has one, and a connection has a number.
Queued ==
    /\ event = "data" => answers # <<>>
    /\ pc["rx"] # "idle" => rxq # <<>>
    /\ client = "connected" => conn > 0

\* Counting an event that is still allowed stays within the bounds.
LEMMA SpendFacts ==
    ASSUME used \in Bounds
    PROVE  /\ used.outages < MaxOutages => [used EXCEPT !.outages = @ + 1] \in Bounds
           /\ used.drops < MaxDrops => [used EXCEPT !.drops = @ + 1] \in Bounds
           /\ used.updates < MaxUpdates => [used EXCEPT !.updates = @ + 1] \in Bounds
           /\ used.updates < MaxUpdates => used.updates + 1 \in Value
           /\ used.retries < MaxRetries => [used EXCEPT !.retries = @ + 1] \in Bounds
           /\ used.freedReads < MaxFreedReads =>
                  [used EXCEPT !.freedReads = @ + 1] \in Bounds
           /\ used.refusals < MaxRefusals => [used EXCEPT !.refusals = @ + 1] \in Bounds
<1>1. ASSUME used.outages < MaxOutages PROVE [used EXCEPT !.outages = @ + 1] \in Bounds
  <2>1. used.outages + 1 \in 0..MaxOutages
    BY <1>1, SMTT(40) DEF Bounds
  <2>2. QED
    BY <2>1 DEF Bounds
<1>2. ASSUME used.drops < MaxDrops PROVE [used EXCEPT !.drops = @ + 1] \in Bounds
  <2>1. used.drops + 1 \in 0..MaxDrops
    BY <1>2 DEF Bounds
  <2>2. QED
    BY <2>1 DEF Bounds
<1>3. ASSUME used.updates < MaxUpdates PROVE [used EXCEPT !.updates = @ + 1] \in Bounds
  <2>1. used.updates + 1 \in 0..MaxUpdates
    BY <1>3 DEF Bounds
  <2>2. QED
    BY <2>1 DEF Bounds
<1>4. ASSUME used.retries < MaxRetries PROVE [used EXCEPT !.retries = @ + 1] \in Bounds
  <2>1. used.retries + 1 \in 0..MaxRetries
    BY <1>4 DEF Bounds
  <2>2. QED
    BY <2>1 DEF Bounds
<1>5. ASSUME used.freedReads < MaxFreedReads
      PROVE  [used EXCEPT !.freedReads = @ + 1] \in Bounds
  <2>1. used.freedReads + 1 \in 0..MaxFreedReads
    BY <1>5 DEF Bounds
  <2>2. QED
    BY <2>1 DEF Bounds
<1>6. ASSUME used.refusals < MaxRefusals PROVE [used EXCEPT !.refusals = @ + 1] \in Bounds
  <2>1. used.refusals + 1 \in 0..MaxRefusals
    BY <1>6 DEF Bounds
  <2>2. QED
    BY <2>1 DEF Bounds
<1>7. used.updates < MaxUpdates => used.updates + 1 \in Value
  BY DEF Bounds, Value
<1>8. QED
  BY <1>1, <1>2, <1>3, <1>4, <1>5, <1>6, <1>7

\* What sending a message does (app_websocket_send): at most one answer comes of it,
\* and a login that is accepted is known to be.
LEMMA SendEffect ==
    ASSUME TypeOK, Queued, NEW m \in Message, Send(m)
    PROVE  /\ used' \in Bounds /\ view' \in [Kind -> Value]
           /\ answers' \in Seq(Answer)
           /\ served => served'
           /\ \/ answers' = answers
              \/ \E a \in Answer : /\ answers' = Append(answers, a) /\ a.conn = conn
                                   /\ a.type = "loggedIn" => served'
<1> USE DEF TypeOK, Queued, server
<1>1. CASE ~Arrives
  BY <1>1 DEF Send
<1>2. CASE Arrives /\ ServerReceives(m)
  <2>1. conn \in 1..MaxConn
    BY <1>2 DEF Arrives
  <2>2. \A ty \in {"registered", "loggedIn", "refused"} :
            /\ [type |-> ty, conn |-> conn] \in Answer
            /\ Reply(ty) = Append(answers, [type |-> ty, conn |-> conn])
            /\ Reply(ty) \in Seq(Answer)
    BY <2>1, AppendFacts DEF Answer, Reply
  <2>3. CASE m.type \in {"register", "login"} /\ answers' = Reply("refused")
             /\ used.refusals < MaxRefusals
             /\ used' = [used EXCEPT !.refusals = @ + 1] /\ UNCHANGED <<served, view>>
    BY <2>2, <2>3, SpendFacts
  <2>4. CASE answers' = Reply("registered") /\ UNCHANGED <<served, view, used>>
    BY <2>2, <2>4
  <2>5. CASE answers' = Reply("loggedIn") /\ served' = TRUE /\ UNCHANGED <<view, used>>
    BY <2>2, <2>5
  <2>6. CASE /\ m.type = "report"
             /\ view' = IF served THEN [view EXCEPT ![m.kind] = m.val] ELSE view
             /\ UNCHANGED <<answers, served, used>>
    BY <2>6 DEF Message
  <2>7. CASE UNCHANGED <<server, used>>
    BY <2>7
  <2>8. QED
    BY <1>2, <2>3, <2>4, <2>5, <2>6, <2>7 DEF ServerReceives
<1>3. QED
  BY <1>1, <1>2 DEF Send

\* The flags stay Boolean.
LEMMA FlagsStep == FlagsOK /\ [Next]_vars => FlagsOK'
<1> SUFFICES ASSUME FlagsOK, [Next]_vars
             PROVE  FlagsOK'
  OBVIOUS
<1> USE DEF FlagsOK, link, handle, pack, timer, calls, server, ghost
<1>0. ASSUME NEW t \in Task, Calls(t)
      PROVE  FlagsOK'
  <2>1. CASE CheckLogged(t)
    BY <2>1 DEF CheckLogged
  <2>2. CASE Pack(t)
    BY <2>2 DEF Pack
  <2>3. CASE Enqueue(t)
    BY <2>3 DEF Enqueue
  <2>4. QED
    BY <1>0, <2>1, <2>2, <2>3 DEF Calls
<1>1. CASE NetworkChanges
  BY <1>1 DEF NetworkChanges
<1>2. CASE TransportBreaks
  BY <1>2 DEF TransportBreaks
<1>3. CASE TimeForRetry
  BY <1>3 DEF TimeForRetry
<1>4. CASE Client
  <2>1. CASE Connect
    BY <2>1 DEF Connect
  <2>2. CASE NoticeBreak
    BY <2>2 DEF NoticeBreak
  <2>3. CASE Reconnect
    BY <2>3 DEF Reconnect
  <2>4. CASE MarkConnected
    BY <2>4 DEF MarkConnected
  <2>5. CASE MarkLoggedOut
    BY <2>5 DEF MarkLoggedOut
  <2>6. CASE TellScreen
    BY <2>6 DEF TellScreen
  <2>7. CASE ReceiveData
    BY <2>7 DEF ReceiveData
  <2>8. CASE EnqueueData
    BY <2>8 DEF EnqueueData
  <2>9. QED
    BY <1>4, <2>1, <2>2, <2>3, <2>4, <2>5, <2>6, <2>7, <2>8 DEF Client
<1>5. CASE Session
  <2>1. CASE Prepare
    BY <2>1 DEF Prepare
  <2>2. CASE Authenticate
    BY <2>2 DEF Authenticate, Register, Login
  <2>3. CASE SendRequest
    BY <2>3 DEF SendRequest, Send, ServerReceives
  <2>4. CASE SendData
    BY <2>4, ZenonT(40) DEF SendData, Send, ServerReceives
  <2>5. QED
    BY <1>5, <2>1, <2>2, <2>3, <2>4 DEF Session
<1>6. CASE Rx
  <2>1. CASE RxTake
    BY <2>1 DEF RxTake
  <2>2. CASE RxNewId
    BY <2>2 DEF RxNewId
  <2>3. CASE RxLogin
    BY <2>3 DEF RxLogin
  <2>4. CASE RxOnline
    BY <2>4 DEF RxOnline
  <2>5. CASE RxLoad
    BY <2>5 DEF RxLoad
  <2>6. CASE RxReturn
    BY <2>6 DEF RxReturn
  <2>7. CASE Calls("rx")
    BY <1>0, <2>7 DEF Task
  <2>8. QED
    BY <1>6, <2>1, <2>2, <2>3, <2>4, <2>5, <2>6, <2>7 DEF Rx
<1>7. ASSUME NEW t \in Reporter, NEW k \in Kind, Update(t, k)
      PROVE  FlagsOK'
  BY <1>7 DEF Update
<1>8. CASE UNCHANGED vars
  BY <1>8 DEF vars
<1>9. QED
  BY <1>0, <1>1, <1>2, <1>3, <1>4, <1>5, <1>6, <1>7, <1>8 DEF Next, Task

\* Whoever handles a message keeps having it.
LEMMA QueuedStep == TypeOK /\ Queued /\ [Next]_vars => Queued'
<1> SUFFICES ASSUME TypeOK, Queued, [Next]_vars
             PROVE  Queued'
  OBVIOUS
<1>t. conn \in Nat /\ "rx" \in Task /\ "idle" # "load"
       /\ pc \in [Task -> {"idle", "check", "pack", "enqueue", "newid", "login",
                          "online", "load", "return"}]
  BY DEF TypeOK, Task
<1> USE <1>t DEF Queued, GoTo, link, handle, pack, timer, calls, server, ghost
<1>0. ASSUME NEW t \in Task, Calls(t)
      PROVE  Queued'
  <2>1. CASE CheckLogged(t)
    BY <2>1 DEF CheckLogged
  <2>2. CASE Pack(t)
    BY <2>2 DEF Pack
  <2>3. CASE Enqueue(t)
    BY <2>3 DEF Enqueue
  <2>4. QED
    BY <1>0, <2>1, <2>2, <2>3 DEF Calls
<1>1. CASE NetworkChanges
  BY <1>1 DEF NetworkChanges
<1>2. CASE TransportBreaks
  BY <1>2 DEF TransportBreaks
<1>3. CASE TimeForRetry
  BY <1>3 DEF TimeForRetry
<1>4. CASE Client
  <2>1. CASE Connect
    BY <2>1 DEF Connect
  <2>2. CASE NoticeBreak
    BY <2>2 DEF NoticeBreak
  <2>3. CASE Reconnect
    BY <2>3 DEF Reconnect
  <2>4. CASE MarkConnected
    BY <2>4 DEF MarkConnected
  <2>5. CASE MarkLoggedOut
    BY <2>5 DEF MarkLoggedOut
  <2>6. CASE TellScreen
    BY <2>6 DEF TellScreen
  <2>7. CASE ReceiveData
    BY <2>7 DEF ReceiveData
  <2>8. CASE EnqueueData
    BY <2>8 DEF EnqueueData
  <2>9. QED
    BY <1>4, <2>1, <2>2, <2>3, <2>4, <2>5, <2>6, <2>7, <2>8 DEF Client
<1>5. CASE Session
  <2>1. CASE Prepare
    BY <2>1 DEF Prepare
  <2>2. CASE Authenticate
    BY <2>2 DEF Authenticate, Register, Login
  <2>3. CASE SendRequest
    BY <2>3 DEF SendRequest, Send, Arrives
  <2>4. CASE SendData
    BY <2>4 DEF SendData, Send, Arrives
  <2>5. QED
    BY <1>5, <2>1, <2>2, <2>3, <2>4 DEF Session
<1>6. CASE Rx
  <2>1. CASE RxTake
    BY <2>1 DEF RxTake
  <2>2. CASE RxNewId
    BY <2>2 DEF RxNewId
  <2>3. CASE RxLogin
    BY <2>3 DEF RxLogin
  <2>4. CASE RxOnline
    BY <2>4 DEF RxOnline
  <2>5. CASE RxLoad
    BY <2>5 DEF RxLoad
  <2>6. CASE RxReturn
    BY <2>6 DEF RxReturn
  <2>7. CASE Calls("rx")
    BY <1>0, <2>7 DEF Task
  <2>8. QED
    BY <1>6, <2>1, <2>2, <2>3, <2>4, <2>5, <2>6, <2>7 DEF Rx
<1>7. ASSUME NEW t \in Reporter, NEW k \in Kind, Update(t, k)
      PROVE  Queued'
  BY <1>7 DEF Update, Task
<1>8. CASE UNCHANGED vars
  BY <1>8 DEF vars
<1>9. QED
  BY <1>0, <1>1, <1>2, <1>3, <1>4, <1>5, <1>6, <1>7, <1>8 DEF Next, Task

\* Every step keeps every variable in its type.
LEMMA TypeStep == TypeOK /\ Queued /\ [Next]_vars => TypeOK'
<1> SUFFICES ASSUME TypeOK, Queued, [Next]_vars
             PROVE  TypeOK'
  OBVIOUS
<1>f. FlagsOK'
  BY FlagsStep DEF TypeOK
<1> USE <1>f DEF TypeOK, Queued, link, handle, pack, timer, calls, server, ghost
<1>0. ASSUME NEW t \in Task, Calls(t)
      PROVE  TypeOK'
  <2>1. CASE CheckLogged(t)
    <3>1. kind' \in [Task -> Kind] /\ val' \in [Task -> Value]
      <4>1. CASE logged
        BY <2>1, <4>1 DEF CheckLogged
      <4>2. CASE ~logged
        <5>1. /\ kind' = [kind EXCEPT ![t] = NoKind]
              /\ val' = [val EXCEPT ![t] = 0]
          BY <2>1, <4>2 DEF CheckLogged
        <5>2. QED
          BY <5>1, KindFacts
      <4>3. QED
        BY <4>1, <4>2
    <3>2. QED
      BY <2>1, <3>1, ZenonT(40) DEF CheckLogged, GoTo
  <2>2. CASE Pack(t)
    BY <2>2, MessageFacts DEF Pack, GoTo, PackInto, WithId, Own, Report,
       Packers
  <2>3. CASE Enqueue(t)
    <3>1. kind' \in [Task -> Kind] /\ val' \in [Task -> Value]
      BY <2>3, KindFacts DEF Enqueue
    <3>2. sent' \in 0..(Len(ReportOrder) - 1)
      BY <2>3, KindFacts DEF Enqueue
    <3>3. mixed' \subseteq Task \cup {"session"} /\ buf' \in Message
      BY <2>3, MessageFacts DEF Enqueue, Leave
    <3>4. kind[t] \in Kind /\ Own(t) \in Message
      BY MessageFacts DEF Own
    <3>5. txq' \in Seq(Message) /\ Len(txq') <= TxCap /\ spoiled' \subseteq Kind
      <4>1. CASE ~Room
        BY <2>3, <3>4, <4>1 DEF Enqueue
      <4>2. CASE Room
        <5>1. PICK m \in Copied(t, Own(t)) :
                 /\ txq' = Append(txq, m)
                 /\ spoiled' = IF m = Own(t) THEN spoiled ELSE spoiled \cup {kind[t]}
          BY <2>3, <4>2 DEF Enqueue
        <5>2. m \in Message
          BY <3>4, <5>1, MessageFacts DEF Copied
        <5>3. QED
          BY <3>4, <4>2, <5>1, <5>2, AppendFacts DEF Room
      <4>3. QED
        BY <4>1, <4>2
    <3>6. AfterEnqueue(t) \in {"idle", "load", "return"}
      BY DEF AfterEnqueue
    <3>7. QED
      BY <2>3, <3>1, <3>2, <3>3, <3>5, <3>6 DEF Enqueue, GoTo
  <2>4. QED
    BY <1>0, <2>1, <2>2, <2>3 DEF Calls
<1>1. CASE NetworkChanges
  BY <1>1, SpendFacts, SMTT(40) DEF NetworkChanges
<1>2. CASE TransportBreaks
  BY <1>2, TailFacts DEF TransportBreaks
<1>3. CASE TimeForRetry
  BY <1>3, SpendFacts, ZenonT(40) DEF TimeForRetry
<1>4. CASE Client
  <2>1. CASE Connect
    BY <2>1 DEF Connect
  <2>2. CASE NoticeBreak
    BY <2>2 DEF NoticeBreak
  <2>3. CASE Reconnect
    BY <2>3 DEF Reconnect
  <2>4. CASE MarkConnected
    BY <2>4 DEF MarkConnected
  <2>5. CASE MarkLoggedOut
    BY <2>5 DEF MarkLoggedOut
  <2>6. CASE TellScreen
    BY <2>6 DEF TellScreen
  <2>7. CASE ReceiveData
    BY <2>7 DEF ReceiveData
  <2>8. CASE EnqueueData
    <3>1. Head(answers) \in Answer /\ Tail(answers) \in Seq(Answer)
      BY <2>8, TailFacts DEF EnqueueData
    <3>2. rxq' \in Seq(Answer) /\ Len(rxq') <= RxCap
      <4>1. CASE Len(rxq) < RxCap
        <5>1. rxq' = Append(rxq, Head(answers))
          BY <2>8, <4>1, SMTT(40) DEF EnqueueData
        <5>2. QED
          BY <3>1, <4>1, <5>1, AppendFacts
      <4>2. CASE ~(Len(rxq) < RxCap)
        BY <2>8, <4>2 DEF EnqueueData
      <4>3. QED
        BY <4>1, <4>2
    <3>3. used' \in Bounds
      BY <2>8, SpendFacts DEF EnqueueData
    <3>4. QED
      BY <2>8, <3>1, <3>2, <3>3 DEF EnqueueData
  <2>9. QED
    BY <1>4, <2>1, <2>2, <2>3, <2>4, <2>5, <2>6, <2>7, <2>8 DEF Client
<1>5. CASE Session
  <2>1. CASE Prepare
    BY <2>1 DEF Prepare
  <2>2. CASE Authenticate
    BY <2>2, MessageFacts, SpendFacts DEF Authenticate, Register, Login,
       PackInto, WithId, Packers
  <2>3. CASE SendRequest
    <3>1. PICK m \in Copied("session", buf) : Send(m)
      BY <2>3 DEF SendRequest
    <3>2. m \in Message
      BY <3>1, MessageFacts DEF Copied
    <3>3. spc' = "prepare" /\ mixed' \subseteq Task \cup {"session"} /\ buf' \in Message
      BY <2>3, MessageFacts DEF SendRequest, Leave
    <3>4. QED
      BY <2>3, <3>1, <3>2, <3>3, SendEffect DEF SendRequest
  <2>4. CASE SendData
    <3>1. CASE txq = <<>>
      BY <2>4, <3>1 DEF SendData
    <3>2. CASE txq # <<>>
      <4>1. Head(txq) \in Message /\ Tail(txq) \in Seq(Message) /\ Len(Tail(txq)) <= TxCap
        BY <3>2, TailFacts
      <4>2. spoiled' \subseteq Kind
        BY <2>4, <3>2, <4>1 DEF SendData, Message
      <4>3. Send(Head(txq)) /\ txq' = Tail(txq)
        BY <2>4, <3>2 DEF SendData
      <4>4. QED
        BY <2>4, <4>1, <4>2, <4>3, SendEffect DEF SendData
    <3>3. QED
      BY <3>1, <3>2
  <2>5. QED
    BY <1>5, <2>1, <2>2, <2>3, <2>4 DEF Session
<1>6. CASE Rx
  <2>1. CASE RxTake
    BY <2>1 DEF RxTake, GoTo
  <2>2. CASE RxNewId
    BY <2>2 DEF RxNewId, GoTo
  <2>3. CASE RxLogin
    BY <2>3 DEF RxLogin, GoTo
  <2>4. CASE RxOnline
    BY <2>4 DEF RxOnline, GoTo
  <2>5. CASE RxLoad
    <3>1. ReportOrder[sent + 1] \in Kind
      BY KindFacts DEF Kind
    <3>2. kind' \in [Task -> Kind] /\ val' \in [Task -> Value]
      BY <2>5, <3>1 DEF RxLoad
    <3>3. QED
      BY <2>5, <3>2 DEF RxLoad, GoTo
  <2>6. CASE RxReturn
    <3>1. rxq # <<>>
      BY <2>6 DEF RxReturn
    <3>2. Tail(rxq) \in Seq(Answer) /\ Len(Tail(rxq)) <= RxCap
      BY <3>1, TailFacts
    <3>3. QED
      BY <2>6, <3>2 DEF RxReturn, GoTo
  <2>7. CASE Calls("rx")
    BY <1>0, <2>7 DEF Task
  <2>8. QED
    BY <1>6, <2>1, <2>2, <2>3, <2>4, <2>5, <2>6, <2>7 DEF Rx
<1>7. ASSUME NEW t \in Reporter, NEW k \in Kind, Update(t, k)
      PROVE  TypeOK'
  BY <1>7, SpendFacts, ZenonT(40) DEF Update, GoTo, Value, Task
<1>8. CASE UNCHANGED vars
  BY <1>8 DEF vars
<1>9. QED
  BY <1>0, <1>1, <1>2, <1>3, <1>4, <1>5, <1>6, <1>7, <1>8 DEF Next, Task

\* The initial values have their types.
LEMMA InitType == Init => TypeOK /\ Queued
<1> SUFFICES ASSUME Init
             PROVE  TypeOK /\ Queued
  OBVIOUS
<1>1. FlagsOK
  BY DEF Init, FlagsOK
<1>2. used \in Bounds
  BY DEF Init, Bounds
<1>3. rxq \in Seq(Answer) /\ txq \in Seq(Message) /\ answers \in Seq(Answer)
  BY DEF Init
<1>4. Len(rxq) = 0 /\ Len(txq) = 0 /\ buf \in Message
  BY MessageFacts DEF Init
<1>5. Queued
  BY DEF Init, Queued, Task
<1>6. QED
  BY <1>1, <1>2, <1>3, <1>4, <1>5, KindFacts DEF Init, TypeOK

\* Every variable keeps its type, and neither ring buffer ever holds more than it
\* has room for, whoever sends and receives (app_websocket.c:68-69, 116, 145).
THEOREM TypeCorrect == Spec => []TypeOK
<1>1. TypeOK /\ Queued /\ [Next]_vars => (TypeOK /\ Queued)'
  BY TypeStep, QueuedStep
<1>2. QED
  BY <1>1, InitType, PTL DEF Spec

-----------------------------------------------------------------------------
(* Who is logged in where.                                                 *)

\* An answer in q belongs to a connection no later than c, and an accepted login of
\* c itself is known to the server (s).
Fresh(q, c, s) ==
    \A i \in 1..Len(q) :
        /\ q[i].conn <= c
        /\ q[i].type = "loggedIn" /\ q[i].conn = c => s

\* The answers on their way and those in rx_rb are of connections made already.
AnswersFresh == Fresh(answers, conn, served) /\ Fresh(rxq, conn, served)

\* is_logged is set for a login answer only, and it is right once the handler of
\* the present connection has cleared it.
Accepted ==
    /\ pc["rx"] = "login" => Head(rxq).type = "loggedIn"
    /\ client = "connected" /\ event \notin {"up", "logout"} /\ logged /\ ~late
           => served

\* The inductive invariant.
IInv == TypeOK /\ Queued /\ AnswersFresh /\ Accepted

\* One more answer, of the present connection or an earlier one.
LEMMA FreshAppend ==
    ASSUME NEW c \in Nat, NEW s, NEW q \in Seq(Answer), NEW a \in Answer,
           Fresh(q, c, s), a.conn <= c, a.type = "loggedIn" /\ a.conn = c => s
    PROVE  Fresh(Append(q, a), c, s)
<1> SUFFICES ASSUME NEW i \in 1..Len(Append(q, a))
             PROVE  /\ Append(q, a)[i].conn <= c
                    /\ Append(q, a)[i].type = "loggedIn" /\ Append(q, a)[i].conn = c => s
  BY DEF Fresh
<1>1. CASE i = Len(q) + 1
  BY <1>1, AppendFacts
<1>2. CASE i # Len(q) + 1
  <2>1. i \in 1..Len(q) /\ Append(q, a)[i] = q[i]
    BY <1>2, AppendFacts
  <2>2. QED
    BY <2>1 DEF Fresh
<1>3. QED
  BY <1>1, <1>2

\* One answer less, and what is known of that one.
LEMMA FreshTail ==
    ASSUME NEW c \in Nat, NEW s, NEW q \in Seq(Answer), q # <<>>, Fresh(q, c, s)
    PROVE  /\ Fresh(Tail(q), c, s) /\ Fresh(<<Head(q)>>, c, s)
           /\ Head(q).conn <= c
           /\ Head(q).type = "loggedIn" /\ Head(q).conn = c => s
<1>1. Head(q).conn <= c /\ (Head(q).type = "loggedIn" /\ Head(q).conn = c => s)
  BY TailFacts DEF Fresh
<1>2. Fresh(Tail(q), c, s)
  BY TailFacts DEF Fresh
<1>3. Fresh(<<Head(q)>>, c, s)
  BY <1>1 DEF Fresh
<1>4. QED
  BY <1>1, <1>2, <1>3

\* A login that becomes known.
LEMMA FreshServed ==
    ASSUME NEW c, NEW s, NEW s2, NEW q, Fresh(q, c, s), s => s2
    PROVE  Fresh(q, c, s2)
  BY Zenon DEF Fresh

\* A new connection: all answers are of earlier ones.
LEMMA FreshLater ==
    ASSUME NEW c \in Nat, NEW s, NEW s2, NEW q \in Seq(Answer), Fresh(q, c, s)
    PROVE  Fresh(q, c + 1, s2)
<1>1. \A a \in Answer : a.conn \in Nat
  BY DEF Answer
<1>2. \A i \in 1..Len(q) : q[i].conn \in Nat
  BY <1>1
<1>3. QED
  BY <1>2 DEF Fresh

\* Answers stay fresh: they come with the number of the connection they are sent on.
LEMMA FreshStep == IInv /\ [Next]_vars => AnswersFresh'
<1> SUFFICES ASSUME IInv, [Next]_vars
             PROVE  AnswersFresh'
  OBVIOUS
<1>t. conn \in Nat /\ answers \in Seq(Answer) /\ rxq \in Seq(Answer)
      /\ TypeOK /\ Queued
  BY DEF IInv, TypeOK
<1>f. Fresh(answers, conn, served) /\ Fresh(rxq, conn, served)
  BY DEF IInv, AnswersFresh
<1> USE <1>t, <1>f DEF AnswersFresh, link, handle, pack, timer, calls, server, ghost
<1>0. ASSUME NEW t \in Task, Calls(t)
      PROVE  AnswersFresh'
  <2>1. CASE CheckLogged(t)
    BY <2>1 DEF CheckLogged
  <2>2. CASE Pack(t)
    BY <2>2 DEF Pack
  <2>3. CASE Enqueue(t)
    BY <2>3 DEF Enqueue
  <2>4. QED
    BY <1>0, <2>1, <2>2, <2>3 DEF Calls
<1>1. CASE NetworkChanges
  BY <1>1 DEF NetworkChanges
<1>2. CASE TransportBreaks
  <2>1. answers' \in {answers, <<>>, <<Head(answers)>>}
        /\ UNCHANGED <<conn, served, rxq, client, event, logged, late, pc>>
    BY <1>2 DEF TransportBreaks
  <2>2. event = "data" => answers # <<>>
    BY DEF Queued
  <2>3. Fresh(<<>>, conn, served)
    BY DEF Fresh
  <2>4. Fresh(answers', conn, served)
    BY <1>2, <2>2, <2>3, FreshTail DEF TransportBreaks
  <2>5. QED
    BY <2>1, <2>4
<1>3. CASE TimeForRetry
  BY <1>3 DEF TimeForRetry
<1>4. CASE Client
  <2>1. CASE Connect
    <3>1. CASE conn' = conn + 1
      BY <2>1, <3>1, FreshLater DEF Connect
    <3>2. CASE UNCHANGED <<conn, served>>
      BY <2>1, <3>2 DEF Connect
    <3>3. QED
      BY <2>1, <3>1, <3>2 DEF Connect
  <2>2. CASE NoticeBreak
    BY <2>2 DEF NoticeBreak
  <2>3. CASE Reconnect
    BY <2>3 DEF Reconnect
  <2>4. CASE MarkConnected
    BY <2>4 DEF MarkConnected
  <2>5. CASE MarkLoggedOut
    BY <2>5 DEF MarkLoggedOut
  <2>6. CASE TellScreen
    BY <2>6 DEF TellScreen
  <2>7. CASE ReceiveData
    BY <2>7 DEF ReceiveData
  <2>8. CASE EnqueueData
    <3>1. answers # <<>> /\ answers' = Tail(answers)
          /\ UNCHANGED <<conn, served, pc, client, logged, late>>
      BY <2>8 DEF EnqueueData, Queued
    <3>2. Head(answers) \in Answer
      BY <3>1, TailFacts
    <3>3. rxq' = rxq \/ rxq' = Append(rxq, Head(answers))
      BY <2>8 DEF EnqueueData
    <3>4. Fresh(rxq', conn, served)
      BY <3>1, <3>2, <3>3, FreshTail, FreshAppend
    <3>5. QED
      BY <3>1, <3>4, FreshTail
  <2>9. QED
    BY <1>4, <2>1, <2>2, <2>3, <2>4, <2>5, <2>6, <2>7, <2>8 DEF Client
<1>5. CASE Session
  <2>1. CASE Prepare
    BY <2>1 DEF Prepare
  <2>2. CASE Authenticate
    BY <2>2 DEF Authenticate
  <2>3. CASE SendRequest
    <3>1. UNCHANGED <<conn, rxq>>
      BY <2>3 DEF SendRequest
    <3>2. /\ served => served'
          /\ \/ answers' = answers
             \/ \E a \in Answer : /\ answers' = Append(answers, a) /\ a.conn = conn
                                  /\ a.type = "loggedIn" => served'
      <4>1. PICK m \in Copied("session", buf) : Send(m)
        BY <2>3 DEF SendRequest
      <4>2. m \in Message
        BY <4>1, MessageFacts DEF Copied, TypeOK
      <4>3. QED
        BY <4>1, <4>2, SendEffect
    <3>3. Fresh(answers, conn, served') /\ Fresh(rxq, conn, served')
      <4>1. Fresh(answers, conn, served')
        BY <3>2, FreshServed
      <4>2. Fresh(rxq, conn, served')
        BY <3>2, FreshServed
      <4>3. QED
        BY <4>1, <4>2
    <3>4. Fresh(answers', conn, served')
      <4>1. CASE answers' = answers
        BY <3>3, <4>1
      <4>2. CASE answers' # answers
        <5>1. PICK a \in Answer : /\ answers' = Append(answers, a) /\ a.conn = conn
                                  /\ a.type = "loggedIn" => served'
          BY <3>2, <4>2
        <5>2. a.conn <= conn
          BY <5>1
        <5>3. QED
          BY <3>3, <5>1, <5>2, FreshAppend, Zenon
      <4>3. QED
        BY <4>1, <4>2
    <3>5. QED
      BY <3>1, <3>3, <3>4
  <2>4. CASE SendData
    <3>1. UNCHANGED <<conn, rxq>>
      BY <2>4 DEF SendData
    <3>2. /\ served => served'
          /\ \/ answers' = answers
             \/ \E a \in Answer : /\ answers' = Append(answers, a) /\ a.conn = conn
                                  /\ a.type = "loggedIn" => served'
      <4>1. CASE txq = <<>>
        BY <2>4, <4>1 DEF SendData
      <4>2. CASE txq # <<>>
        <5>1. Head(txq) \in Message
          BY <4>2, TailFacts DEF TypeOK
        <5>2. Send(Head(txq))
          BY <2>4, <4>2 DEF SendData
        <5>3. QED
          BY <5>1, <5>2, SendEffect
      <4>3. QED
        BY <4>1, <4>2
    <3>3. Fresh(answers, conn, served') /\ Fresh(rxq, conn, served')
      <4>1. Fresh(answers, conn, served')
        BY <3>2, FreshServed
      <4>2. Fresh(rxq, conn, served')
        BY <3>2, FreshServed
      <4>3. QED
        BY <4>1, <4>2
    <3>4. Fresh(answers', conn, served')
      <4>1. CASE answers' = answers
        BY <3>3, <4>1
      <4>2. CASE answers' # answers
        <5>1. PICK a \in Answer : /\ answers' = Append(answers, a) /\ a.conn = conn
                                  /\ a.type = "loggedIn" => served'
          BY <3>2, <4>2
        <5>2. a.conn <= conn
          BY <5>1
        <5>3. QED
          BY <3>3, <5>1, <5>2, FreshAppend, Zenon
      <4>3. QED
        BY <4>1, <4>2
    <3>5. QED
      BY <3>1, <3>3, <3>4
  <2>5. QED
    BY <1>5, <2>1, <2>2, <2>3, <2>4 DEF Session
<1>6. CASE Rx
  <2>1. CASE RxTake
    BY <2>1 DEF RxTake
  <2>2. CASE RxNewId
    BY <2>2 DEF RxNewId
  <2>3. CASE RxLogin
    BY <2>3 DEF RxLogin
  <2>4. CASE RxOnline
    BY <2>4 DEF RxOnline
  <2>5. CASE RxLoad
    BY <2>5 DEF RxLoad
  <2>6. CASE RxReturn
    <3>1. rxq # <<>>
      BY <2>6 DEF RxReturn, Queued
    <3>2. QED
      BY <2>6, <3>1, FreshTail DEF RxReturn
  <2>7. CASE Calls("rx")
    BY <1>0, <2>7 DEF Task
  <2>8. QED
    BY <1>6, <2>1, <2>2, <2>3, <2>4, <2>5, <2>6, <2>7 DEF Rx
<1>7. ASSUME NEW t \in Reporter, NEW k \in Kind, Update(t, k)
      PROVE  AnswersFresh'
  BY <1>7 DEF Update
<1>8. CASE UNCHANGED vars
  BY <1>8 DEF vars
<1>9. QED
  BY <1>0, <1>1, <1>2, <1>3, <1>4, <1>5, <1>6, <1>7, <1>8 DEF Next, Task

\* The head of a queue stays when something is appended.
LEMMA HeadOfAppend ==
    ASSUME NEW S, NEW q \in Seq(S), NEW e, q # <<>>
    PROVE  Head(Append(q, e)) = Head(q)
  OBVIOUS

\* is_logged stays right: only an answer sets it, and a connection clears it.
LEMMA AcceptedStep == IInv /\ [Next]_vars => Accepted'
<1> SUFFICES ASSUME IInv, [Next]_vars
             PROVE  Accepted'
  OBVIOUS
<1>t. /\ conn \in Nat /\ "rx" \in Task /\ "rx" \notin Reporter
      /\ pc \in [Task -> {"idle", "check", "pack", "enqueue", "newid", "login",
                          "online", "load", "return"}]
      /\ answers \in Seq(Answer) /\ rxq \in Seq(Answer)
      /\ TypeOK /\ Queued
  BY DEF IInv, TypeOK, Task
<1>f. Fresh(answers, conn, served) /\ Fresh(rxq, conn, served) /\ Accepted
  BY DEF IInv, AnswersFresh
<1> USE <1>t, <1>f DEF Accepted, GoTo, link, handle, pack, timer, calls, server, ghost
<1>0. ASSUME NEW t \in Task, Calls(t)
      PROVE  Accepted'
  <2>1. CASE CheckLogged(t)
    BY <2>1 DEF CheckLogged
  <2>2. CASE Pack(t)
    BY <2>2 DEF Pack
  <2>3. CASE Enqueue(t)
    <3>1. AfterEnqueue(t) # "login"
      BY DEF AfterEnqueue
    <3>2. QED
      BY <2>3, <3>1 DEF Enqueue
  <2>4. QED
    BY <1>0, <2>1, <2>2, <2>3 DEF Calls
<1>1. CASE NetworkChanges
  BY <1>1 DEF NetworkChanges
<1>2. CASE TransportBreaks
  BY <1>2 DEF TransportBreaks
<1>3. CASE TimeForRetry
  BY <1>3 DEF TimeForRetry
<1>4. CASE Client
  <2>1. CASE Connect
    BY <2>1 DEF Connect
  <2>2. CASE NoticeBreak
    BY <2>2 DEF NoticeBreak
  <2>3. CASE Reconnect
    BY <2>3 DEF Reconnect
  <2>4. CASE MarkConnected
    BY <2>4 DEF MarkConnected
  <2>5. CASE MarkLoggedOut
    BY <2>5 DEF MarkLoggedOut
  <2>6. CASE TellScreen
    BY <2>6 DEF TellScreen
  <2>7. CASE ReceiveData
    BY <2>7 DEF ReceiveData
  <2>8. CASE EnqueueData
    <3>1. UNCHANGED <<client, logged, late, served, pc>> /\ event = "data"
      BY <2>8 DEF EnqueueData
    <3>2. rxq' = rxq \/ rxq' = Append(rxq, Head(answers))
      BY <2>8 DEF EnqueueData
    <3>3. rxq # <<>> => Head(rxq') = Head(rxq)
      BY <3>2, HeadOfAppend, TailFacts
    <3>4. QED
      BY <3>1, <3>3 DEF Queued
  <2>9. QED
    BY <1>4, <2>1, <2>2, <2>3, <2>4, <2>5, <2>6, <2>7, <2>8 DEF Client
<1>5. CASE Session
  <2>1. CASE Prepare
    BY <2>1 DEF Prepare
  <2>2. CASE Authenticate
    BY <2>2 DEF Authenticate
  <2>3. CASE SendRequest
    <3>1. UNCHANGED <<client, event, logged, late, rxq, pc>>
      BY <2>3 DEF SendRequest
    <3>2. served => served'
      <4>1. PICK m \in Copied("session", buf) : Send(m)
        BY <2>3 DEF SendRequest
      <4>2. m \in Message
        BY <4>1, MessageFacts DEF Copied, TypeOK
      <4>3. QED
        BY <4>1, <4>2, SendEffect
    <3>3. QED
      BY <3>1, <3>2
  <2>4. CASE SendData
    <3>1. UNCHANGED <<client, event, logged, late, rxq, pc>>
      BY <2>4 DEF SendData
    <3>2. served => served'
      <4>1. CASE txq = <<>>
        BY <2>4, <4>1 DEF SendData
      <4>2. CASE txq # <<>>
        <5>1. Head(txq) \in Message
          BY <4>2, TailFacts DEF TypeOK
        <5>2. Send(Head(txq))
          BY <2>4, <4>2 DEF SendData
        <5>3. QED
          BY <5>1, <5>2, SendEffect
      <4>3. QED
        BY <4>1, <4>2
    <3>3. QED
      BY <3>1, <3>2
  <2>5. QED
    BY <1>5, <2>1, <2>2, <2>3, <2>4 DEF Session
<1>6. CASE Rx
  <2>1. CASE RxTake
    BY <2>1 DEF RxTake
  <2>2. CASE RxNewId
    BY <2>2 DEF RxNewId
  <2>3. CASE RxLogin
    <3>1. rxq # <<>> /\ Head(rxq).type = "loggedIn"
      BY <2>3 DEF RxLogin, Queued
    <3>2. ~late' => served
      <4>1. ~late' => Head(rxq).conn = conn
        BY <2>3, Zenon DEF RxLogin
      <4>2. Head(rxq).conn = conn => served
        <5>1. Head(rxq) = rxq[1] /\ 1 \in 1..Len(rxq)
          BY <3>1, TailFacts
        <5>2. QED
          BY <3>1, <5>1, Zenon DEF Fresh
      <4>3. QED
        BY <4>1, <4>2, Zenon
    <3>3. pc'["rx"] # "login" /\ UNCHANGED <<client, event, served, rxq>>
      BY <2>3 DEF RxLogin
    <3>4. QED
      BY <3>2, <3>3
  <2>4. CASE RxOnline
    BY <2>4 DEF RxOnline
  <2>5. CASE RxLoad
    BY <2>5 DEF RxLoad
  <2>6. CASE RxReturn
    BY <2>6 DEF RxReturn
  <2>7. CASE Calls("rx")
    BY <1>0, <2>7 DEF Task
  <2>8. QED
    BY <1>6, <2>1, <2>2, <2>3, <2>4, <2>5, <2>6, <2>7 DEF Rx
<1>7. ASSUME NEW t \in Reporter, NEW k \in Kind, Update(t, k)
      PROVE  Accepted'
  BY <1>7 DEF Update
<1>8. CASE UNCHANGED vars
  BY <1>8 DEF vars
<1>9. QED
  BY <1>0, <1>1, <1>2, <1>3, <1>4, <1>5, <1>6, <1>7, <1>8 DEF Next, Task

\* The initial state satisfies the invariant.
LEMMA InitInv == Init => IInv
<1> SUFFICES ASSUME Init
             PROVE  IInv
  OBVIOUS
<1>1. AnswersFresh
  BY DEF Init, AnswersFresh, Fresh
<1>2. Accepted
  BY DEF Init, Accepted, Task
<1>3. QED
  BY <1>1, <1>2, InitType DEF IInv

\* The invariant implies the property.
LEMMA InvHere == IInv => LoggedInHere
  BY DEF IInv, Accepted, LoggedInHere, Settled

\* A session that is logged in was accepted by the server on the present
\* connection, unless it was logged in by an answer of an earlier one
\* (app_websocket.c:99, 105, 432), whatever is lost, repeated, refused or freed.
THEOREM LoggedIn == Spec => []LoggedInHere
<1>1. IInv /\ [Next]_vars => IInv'
  BY TypeStep, QueuedStep, FreshStep, AcceptedStep DEF IInv
<1>2. QED
  BY <1>1, InitInv, InvHere, PTL DEF Spec

=============================================================================
