-------------------------- MODULE WsReportsProofs ---------------------------
(***************************************************************************)
(* Proof that the server ends up with the cached values (ServerInStep of   *)
(* module WsSession), for any number of reporters, kinds, updates and      *)
(* connections and rings of any size.                                      *)
(*                                                                         *)
(* A value of a kind that is not spoiled is on its way as long as it has   *)
(* not arrived: with a task that reports it, before the login report has   *)
(* come to it, or as the last one of its kind in tx_rb.  What makes this   *)
(* inductive is the buffer: it may be copied by a task it does not belong  *)
(* to, even by the session task, which overtakes tx_rb, and must then not  *)
(* hold an old value of that kind.                                         *)
(***************************************************************************)
EXTENDS WsSessionProofs

IsReport(m, k) == m.type = "report" /\ m.kind = k

Carries(t) == pc[t] \in {"check", "pack", "enqueue"}

\* Where the tasks can be: `sent' counts within a login report only.
Places ==
    /\ \A t \in Reporter : pc[t] \in {"idle", "check", "pack", "enqueue"}
    /\ pc["rx"] # "check"
    /\ pc["rx"] \notin {"load", "pack", "enqueue"} => sent = 0
    /\ pc["rx"] \in {"pack", "enqueue"} => kind["rx"] = ReportOrder[sent + 1]

\* A task carries the present value of its kind.
Current ==
    \A t \in Task : Carries(t) /\ kind[t] \notin spoiled => val[t] = cache[kind[t]]

\* The buffer holds no old value of kind k.
BufferOK(k) == IsReport(buf, k) => buf.val = cache[k]

\* It holds none of a kind that is about to be copied.
Packed ==
    \A t \in Task : pc[t] = "enqueue" /\ kind[t] \notin spoiled => BufferOK(kind[t])

\* What the server is going to know of kind k when it knows v now and has received
\* the messages of q: c.
Ends(q, k, v, c) ==
    \/ v = c /\ \A i \in 1..Len(q) : ~IsReport(q[i], k)
    \/ \E i \in 1..Len(q) :
          /\ IsReport(q[i], k) /\ q[i].val = c
          /\ \A j \in (i + 1)..Len(q) : ~IsReport(q[j], k)

\* A task that reports kind k.
Reported(k) == \E t \in Reporter : Carries(t) /\ kind[t] = k

\* The login report has not come to kind k, or has not let go of it.
ToReport(k) ==
    /\ pc["rx"] \in {"online", "load", "pack", "enqueue"}
    /\ \E i \in (sent + 1)..Len(ReportOrder) : ReportOrder[i] = k

\* Nothing but the ring decides what the server is going to know of kind k.
Settling(k) == BufferOK(k) /\ Ends(txq, k, view[k], cache[k])

\* The present value of kind k is with a task, ahead of the login report, or
\* in the ring or arrived.
OnItsWay(k) == Reported(k) \/ ToReport(k) \/ Settling(k)

\* The session counts as logged in, on this connection.
Here == client = "connected" /\ event \notin {"up", "logout"} /\ logged /\ ~late

Delivery == Here => \A k \in Kind \ spoiled : OnItsWay(k)

ReportInv == IInv /\ Places /\ Current /\ Packed /\ Delivery

-----------------------------------------------------------------------------
(* Messages and queues.                                                    *)

\* A message put at the end of tx_rb decides if it is of kind k.
LEMMA EndsAppend ==
    ASSUME NEW q \in Seq(Message), NEW m \in Message, NEW k, NEW v, NEW c,
           \/ IsReport(m, k) /\ m.val = c
           \/ ~IsReport(m, k) /\ Ends(q, k, v, c)
    PROVE  Ends(Append(q, m), k, v, c)
<1> DEFINE r == Append(q, m)
<1>0. /\ Len(q) \in Nat /\ Len(r) = Len(q) + 1 /\ r[Len(q) + 1] = m
      /\ \A i \in 1..Len(q) : r[i] = q[i]
  BY AppendFacts
<1> HIDE DEF r
<1>1. CASE IsReport(m, k) /\ m.val = c
  <2>1. Len(r) \in 1..Len(r) /\ r[Len(r)] = m
    BY <1>0
  <2>2. \A j \in (Len(r) + 1)..Len(r) : ~IsReport(r[j], k)
    BY <1>0
  <2>3. Ends(r, k, v, c)
    BY <1>1, <2>1, <2>2 DEF Ends
  <2>4. QED
    BY <2>3 DEF r
<1>2. CASE ~IsReport(m, k) /\ Ends(q, k, v, c)
  <2>1. CASE v = c /\ \A i \in 1..Len(q) : ~IsReport(q[i], k)
    <3>1. \A i \in 1..Len(r) : ~IsReport(r[i], k)
      BY <1>0, <1>2, <2>1
    <3>2. QED
      BY <2>1, <3>1 DEF Ends, r
  <2>2. ASSUME NEW i \in 1..Len(q), IsReport(q[i], k), q[i].val = c,
               \A j \in (i + 1)..Len(q) : ~IsReport(q[j], k)
        PROVE  Ends(r, k, v, c)
    <3>1. i \in 1..Len(r) /\ r[i] = q[i]
      BY <1>0
    <3>2. \A j \in (i + 1)..Len(r) : ~IsReport(r[j], k)
      BY <1>0, <1>2, <2>2
    <3>3. QED
      BY <2>2, <3>1, <3>2 DEF Ends
  <2>3. QED
    BY <1>2, <2>1, <2>2 DEF Ends, r
<1>3. QED
  BY <1>1, <1>2

\* The message that leaves tx_rb is received first.
LEMMA EndsTail ==
    ASSUME NEW q \in Seq(Message), q # <<>>, NEW k, NEW v, NEW c, NEW w,
           Ends(q, k, v, c),
           w = IF IsReport(Head(q), k) THEN Head(q).val ELSE v
    PROVE  Ends(Tail(q), k, w, c)
<1> DEFINE r == Tail(q)
<1>0. /\ Len(q) \in Nat /\ Len(r) = Len(q) - 1 /\ Head(q) = q[1] /\ 1 \in 1..Len(q)
      /\ \A i \in 1..Len(r) : i + 1 \in 1..Len(q) /\ r[i] = q[i + 1]
  BY TailFacts
<1> HIDE DEF r
<1>1. CASE v = c /\ \A i \in 1..Len(q) : ~IsReport(q[i], k)
  <2>1. w = c /\ \A i \in 1..Len(r) : ~IsReport(r[i], k)
    BY <1>0, <1>1
  <2>2. QED
    BY <2>1 DEF Ends, r
<1>2. ASSUME NEW i \in 1..Len(q), IsReport(q[i], k), q[i].val = c,
             \A j \in (i + 1)..Len(q) : ~IsReport(q[j], k)
      PROVE  Ends(r, k, w, c)
  <2>1. CASE i = 1
    <3>1. w = c
      BY <1>0, <1>2, <2>1
    <3>2. \A j \in 1..Len(r) : ~IsReport(r[j], k)
      BY <1>0, <1>2, <2>1
    <3>3. QED
      BY <3>1, <3>2 DEF Ends
  <2>2. CASE i # 1
    <3>1. i - 1 \in 1..Len(r) /\ r[i - 1] = q[i]
      BY <1>0, <2>2
    <3>2. \A j \in ((i - 1) + 1)..Len(r) : ~IsReport(r[j], k)
      BY <1>0, <1>2, <2>2
    <3>3. QED
      BY <1>2, <3>1, <3>2 DEF Ends
  <2>3. QED
    BY <2>1, <2>2
<1>3. QED
  BY <1>1, <1>2 DEF Ends, r

\* What the server knows of kind k after a message was sent.
LEMMA Received ==
    ASSUME TypeOK, NEW m \in Message, Send(m), NEW k \in Kind
    PROVE  view'[k] = IF Arrives /\ served /\ IsReport(m, k) THEN m.val ELSE view[k]
<1>1. CASE ~Arrives
  BY <1>1 DEF Send, server
<1>2. CASE Arrives
  <2>1. ServerReceives(m)
    BY <1>2 DEF Send
  <2>2. CASE m.type = "report"
    <3>1. view' = IF served THEN [view EXCEPT ![m.kind] = m.val] ELSE view
      BY <2>1, <2>2 DEF ServerReceives
    <3>2. QED
      BY <1>2, <2>2, <3>1 DEF TypeOK, IsReport
  <2>3. CASE m.type # "report"
    <3>1. view' = view
      BY <2>1, <2>3 DEF ServerReceives, server
    <3>2. QED
      BY <2>3, <3>1 DEF IsReport
  <2>4. QED
    BY <2>2, <2>3
<1>3. QED
  BY <1>1, <1>2

\* Requests and torn messages are no reports.
LEMMA NoReport ==
    \A k : ~IsReport(Torn, k) /\ ~IsReport([type |-> "register"], k)
           /\ ~IsReport([type |-> "login"], k)
  BY DEF IsReport, Torn

\* A task's own message is a report of its kind.
LEMMA OwnReport ==
    ASSUME NEW t, NEW k
    PROVE  IsReport(Own(t), k) <=> kind[t] = k
  BY DEF IsReport, Own, Report

-----------------------------------------------------------------------------
(* Steps that leave the reports alone.                                     *)

core == <<pc, kind, val, sent, cache, buf, txq, view, spoiled>>

Aside ==
    \/ NetworkChanges \/ TransportBreaks \/ TimeForRetry \/ Client \/ Prepare
    \/ UNCHANGED vars

\* The client task and the network touch no report, and a session is never logged
\* in by them: a new connection is one that has yet to log in.
LEMMA AsideStep == Aside => UNCHANGED core /\ (Here' => Here)
<1> SUFFICES ASSUME Aside PROVE UNCHANGED core /\ (Here' => Here)
  OBVIOUS
<1> USE DEF core, Here, link, handle, pack, timer, calls, server, ghost
<1>1. CASE NetworkChanges
  BY <1>1 DEF NetworkChanges
<1>2. CASE TransportBreaks
  BY <1>2 DEF TransportBreaks
<1>3. CASE TimeForRetry
  BY <1>3 DEF TimeForRetry
<1>4. CASE Client
  <2>1. CASE Connect
    BY <2>1 DEF Connect
  <2>2. CASE NoticeBreak
    BY <2>2 DEF NoticeBreak
  <2>3. CASE Reconnect
    BY <2>3 DEF Reconnect
  <2>4. CASE MarkConnected
    BY <2>4 DEF MarkConnected
  <2>5. CASE MarkLoggedOut
    BY <2>5 DEF MarkLoggedOut
  <2>6. CASE TellScreen
    BY <2>6 DEF TellScreen
  <2>7. CASE ReceiveData
    BY <2>7 DEF ReceiveData
  <2>8. CASE EnqueueData
    BY <2>8 DEF EnqueueData
  <2>9. QED
    BY <1>4, <2>1, <2>2, <2>3, <2>4, <2>5, <2>6, <2>7, <2>8 DEF Client
<1>5. CASE Prepare
  BY <1>5 DEF Prepare
<1>6. CASE UNCHANGED vars
  BY <1>6 DEF vars
<1>7. QED
  BY <1>1, <1>2, <1>3, <1>4, <1>5, <1>6 DEF Aside

\* The steps of the session, one by one.
LEMMA StepCases ==
    ASSUME [Next]_vars
    PROVE  \/ Aside \/ Authenticate \/ SendRequest \/ SendData
           \/ RxTake \/ RxNewId \/ RxLogin \/ RxOnline \/ RxLoad \/ RxReturn
           \/ \E t \in Task : CheckLogged(t) \/ Pack(t) \/ Enqueue(t)
           \/ \E t \in Reporter, k \in Kind : Update(t, k)
  BY DEF Next, Aside, Session, Rx, Calls, Task

-----------------------------------------------------------------------------
(* Where the tasks are.                                                    *)

Place == {"idle", "check", "pack", "enqueue", "newid", "login", "online", "load",
          "return"}

\* The types of what the tasks keep between their steps.
LEMMA CallTypes ==
    ASSUME TypeOK
    PROVE  /\ pc \in [Task -> Place] /\ kind \in [Task -> Kind] /\ val \in [Task -> Value]
           /\ cache \in [Kind -> Value] /\ sent \in Nat /\ "rx" \notin Reporter
<1>1. sent \in Nat
  BY KindFacts DEF TypeOK
<1>2. pc \in [Task -> Place]
  BY Zenon DEF TypeOK, Place
<1>3. kind \in [Task -> Kind] /\ val \in [Task -> Value] /\ cache \in [Kind -> Value]
  BY Zenon DEF TypeOK
<1>4. QED
  BY <1>1, <1>2, <1>3, SessionAssumption

\* No step leads a task out of its own control flow.
LEMMA PlacesStep == IInv /\ Places /\ [Next]_vars => Places'
<1> SUFFICES ASSUME IInv, Places, [Next]_vars PROVE Places'
  OBVIOUS
<1>t. /\ pc \in [Task -> Place] /\ kind \in [Task -> Kind] /\ val \in [Task -> Value]
      /\ cache \in [Kind -> Value] /\ sent \in Nat /\ "rx" \notin Reporter
  BY CallTypes DEF IInv
<1> USE <1>t DEF Places, GoTo, Task, calls
<1>1. CASE Aside
  BY <1>1, AsideStep DEF core
<1>2. CASE Authenticate \/ SendRequest \/ SendData
  BY <1>2 DEF Authenticate, SendRequest, SendData
<1>3. CASE RxTake \/ RxNewId
  BY <1>3 DEF RxTake, RxNewId
<1>4. CASE RxLogin \/ RxOnline \/ RxReturn
  BY <1>4 DEF RxLogin, RxOnline, RxReturn
<1>5. CASE RxLoad
  BY <1>5 DEF RxLoad
<1>6. ASSUME NEW t \in Task, CheckLogged(t) \/ Pack(t)
      PROVE  Places'
  BY <1>6 DEF CheckLogged, Pack
<1>7. ASSUME NEW t \in Task, Enqueue(t)
      PROVE  Places'
  BY <1>7, KindFacts DEF Enqueue, AfterEnqueue
<1>8. ASSUME NEW t \in Reporter, NEW k \in Kind, Update(t, k)
      PROVE  Places'
  BY <1>8 DEF Update
<1>9. QED
  BY <1>1, <1>2, <1>3, <1>4, <1>5, <1>6, <1>7, <1>8, StepCases

\* Only an update and a login make a kind whole again, and both see to it that no
\* task carries an older value of it.
LEMMA CurrentStep == IInv /\ Places /\ Current /\ [Next]_vars => Current'
<1> SUFFICES ASSUME IInv, Places, Current, [Next]_vars PROVE Current'
  OBVIOUS
<1>t. /\ pc \in [Task -> Place] /\ kind \in [Task -> Kind] /\ val \in [Task -> Value]
      /\ cache \in [Kind -> Value] /\ sent \in Nat /\ "rx" \notin Reporter
  BY CallTypes DEF IInv
<1> USE <1>t DEF Places, Current, Carries, GoTo, Task, calls, handle, ghost
<1>1. CASE Aside
  BY <1>1, AsideStep DEF core
<1>2. CASE Authenticate \/ SendRequest
  BY <1>2 DEF Authenticate, SendRequest
<1>3. CASE SendData
  BY <1>3 DEF SendData
<1>4. CASE RxTake \/ RxNewId \/ RxOnline \/ RxReturn
  BY <1>4 DEF RxTake, RxNewId, RxOnline, RxReturn
<1>5. CASE RxLogin
  BY <1>5 DEF RxLogin, ReportingKind
<1>6. CASE RxLoad
  BY <1>6 DEF RxLoad
<1>7. ASSUME NEW t \in Task, CheckLogged(t) \/ Pack(t)
      PROVE  Current'
  BY <1>7 DEF CheckLogged, Pack
<1>8. ASSUME NEW t \in Task, Enqueue(t)
      PROVE  Current'
  BY <1>8 DEF Enqueue, AfterEnqueue
<1>9. ASSUME NEW t \in Reporter, NEW k \in Kind, Update(t, k)
      PROVE  Current'
  BY <1>9 DEF Update, ReportingKind
<1>10. QED
  BY <1>1, <1>2, <1>3, <1>4, <1>5, <1>6, <1>7, <1>8, <1>9, StepCases

\* The buffer holds the last message packed, and that is of the present.
LEMMA PackedStep == IInv /\ Places /\ Current /\ Packed /\ [Next]_vars => Packed'
<1> SUFFICES ASSUME IInv, Places, Current, Packed, [Next]_vars PROVE Packed'
  OBVIOUS
<1>t. /\ pc \in [Task -> Place] /\ kind \in [Task -> Kind] /\ val \in [Task -> Value]
      /\ cache \in [Kind -> Value] /\ sent \in Nat /\ "rx" \notin Reporter
  BY CallTypes DEF IInv
<1> USE <1>t DEF Places, Current, Packed, BufferOK, Carries, GoTo, Task, calls,
                 handle, ghost, pack
<1>1. CASE Aside
  BY <1>1, AsideStep DEF core
<1>2. CASE Authenticate
  BY <1>2, NoReport DEF Authenticate, Register, Login, PackInto, WithId
<1>3. CASE SendRequest
  BY <1>3, NoReport DEF SendRequest, Leave
<1>4. CASE SendData
  BY <1>4 DEF SendData
<1>5. CASE RxTake \/ RxNewId \/ RxOnline \/ RxReturn
  BY <1>5 DEF RxTake, RxNewId, RxOnline, RxReturn
<1>6. CASE RxLogin
  BY <1>6 DEF RxLogin, ReportingKind
<1>7. CASE RxLoad
  BY <1>7 DEF RxLoad
<1>8. ASSUME NEW t \in Task, CheckLogged(t)
      PROVE  Packed'
  BY <1>8 DEF CheckLogged
<1>9. ASSUME NEW t \in Task, Pack(t)
      PROVE  Packed'
  BY <1>9, NoReport DEF Pack, PackInto, WithId, Own, Report, IsReport
<1>10. ASSUME NEW t \in Task, Enqueue(t)
      PROVE  Packed'
  BY <1>10, NoReport DEF Enqueue, AfterEnqueue, Leave
<1>11. ASSUME NEW t \in Reporter, NEW k \in Kind, Update(t, k)
      PROVE  Packed'
  BY <1>11 DEF Update, ReportingKind
<1>12. QED
  BY <1>1, <1>2, <1>3, <1>4, <1>5, <1>6, <1>7, <1>8, <1>9, <1>10, <1>11, StepCases

-----------------------------------------------------------------------------
(* The reports on their way.                                               *)

\* A step of the session task or of the client reports nothing new of k.
LEMMA SettlingKept ==
    ASSUME NEW k, Settling(k), UNCHANGED <<txq, view, cache>>,
           buf' = buf \/ ~IsReport(buf', k)
    PROVE  Settling(k)'
  BY DEF Settling, BufferOK, IsReport

\* The session task sends a request out of the buffer, or what it finds there.
LEMMA RequestDelivery ==
    ASSUME IInv, SendRequest, NEW k \in Kind, Settling(k)
    PROVE  Settling(k)'
<1>1. PICK m \in Copied("session", buf) : Send(m)
  BY DEF SendRequest
<1>2. m \in Message /\ (m = buf \/ m = Torn)
  BY <1>1, MessageFacts DEF Copied, IInv, TypeOK
<1>3. view'[k] = IF Arrives /\ served /\ IsReport(m, k) THEN m.val ELSE view[k]
  BY <1>1, <1>2, Received DEF IInv
<1>4. IsReport(m, k) => m.val = cache[k]
  BY <1>2, NoReport DEF Settling, BufferOK
<1>5. UNCHANGED <<txq, cache>> /\ (buf' = buf \/ buf' = Torn)
  BY DEF SendRequest, handle, Leave
<1>6. Ends(txq, k, view'[k], cache[k])
  BY <1>3, <1>4 DEF Settling, Ends
<1>7. BufferOK(k)'
  BY <1>5, NoReport DEF Settling, BufferOK, IsReport
<1>8. QED
  BY <1>5, <1>6, <1>7 DEF Settling

\* The head of the ring is sent; if it is lost, its kind is spoiled.
LEMMA DataDelivery ==
    ASSUME IInv, SendData, Here, NEW k \in Kind \ spoiled', Settling(k)
    PROVE  Settling(k)'
<1>1. UNCHANGED <<buf, cache>>
  BY DEF SendData, pack, handle
<1>2. CASE txq = <<>>
  BY <1>1, <1>2, SettlingKept DEF SendData, server
<1>3. CASE txq # <<>>
  <2> DEFINE m == Head(txq)
  <2>1. m \in Message /\ txq \in Seq(Message)
    BY <1>3, TailFacts DEF IInv, TypeOK
  <2>2. /\ txq' = Tail(txq) /\ Send(m)
        /\ spoiled' = IF ~Arrives /\ m.type = "report" THEN spoiled \cup {m.kind}
                      ELSE spoiled
    BY <1>3 DEF SendData
  <2>3. served
    BY DEF IInv, Accepted, Here
  <2>4. IsReport(m, k) => Arrives
    BY <2>2 DEF IsReport
  <2>5. view'[k] = IF IsReport(m, k) THEN m.val ELSE view[k]
    BY <2>1, <2>2, <2>3, <2>4, Received DEF IInv
  <2> HIDE DEF m
  <2>6. Ends(Tail(txq), k, view'[k], cache[k])
    BY <1>3, <2>1, <2>5, EndsTail DEF Settling, m
  <2>7. QED
    BY <1>1, <2>2, <2>6 DEF Settling, BufferOK, IsReport
<1>4. QED
  BY <1>2, <1>3

\* The session task checks what to do and packs a request.
LEMMA AuthenticateDelivery ==
    ASSUME Authenticate, NEW k, Settling(k)
    PROVE  Settling(k)'
<1>1. UNCHANGED <<txq, view, cache>>
  BY DEF Authenticate, server, handle
<1>2. buf' = buf \/ ~IsReport(buf', k)
  BY NoReport DEF Authenticate, Register, Login, PackInto, WithId, pack
<1>3. QED
  BY <1>1, <1>2, SettlingKept

\* A task packs: of its own kind the present value.
LEMMA PackDelivery ==
    ASSUME IInv, Current, NEW t \in Task, Pack(t), NEW k \in Kind \ spoiled, Settling(k)
    PROVE  Settling(k)'
<1>1. UNCHANGED <<txq, view, cache>>
  BY DEF Pack, server, handle
<1>2. buf' = Own(t) \/ buf' = Torn
  BY DEF Pack, PackInto, WithId
<1>3. IsReport(buf', k) => buf'.val = cache[k]
  <2>1. CASE buf' = Torn
    BY <2>1, NoReport
  <2>2. CASE buf' = Own(t) /\ kind[t] = k
    <3>1. val[t] = cache[k]
      BY <2>2 DEF Pack, Current, Carries
    <3>2. QED
      BY <2>2, <3>1 DEF Own, Report
  <2>3. CASE buf' = Own(t) /\ kind[t] # k
    BY <2>3, OwnReport
  <2>4. QED
    BY <1>2, <2>1, <2>2, <2>3
<1>4. QED
  BY <1>1, <1>3 DEF Settling, BufferOK, IsReport

\* A task copies the buffer into the ring.  Its own kind is spoiled unless it is
\* its own message; another's is the present value of its kind.
LEMMA EnqueueDelivery ==
    ASSUME IInv, Current, Packed, NEW t \in Task, Enqueue(t),
           NEW k \in Kind \ spoiled', kind[t] = k \/ Settling(k)
    PROVE  Settling(k)'
<1>0. k \notin spoiled
  BY DEF Enqueue
<1>1. UNCHANGED <<view, cache>> /\ (buf' = buf \/ buf' = Torn)
  BY DEF Enqueue, server, handle, Leave
<1>2. txq \in Seq(Message) /\ Own(t) \in Message /\ buf \in Message
  BY MessageFacts DEF IInv, TypeOK, Own
<1>3. BufferOK(k)
  BY <1>0 DEF Settling, Enqueue, Packed
<1>4. BufferOK(k)'
  BY <1>1, <1>3, NoReport DEF BufferOK, IsReport
<1>5. Ends(txq', k, view[k], cache[k])
  <2>1. CASE ~Room
    BY <2>1 DEF Enqueue, Settling
  <2>2. CASE Room
    <3>1. PICK m \in Copied(t, Own(t)) :
             /\ txq' = Append(txq, m)
             /\ spoiled' = IF m = Own(t) THEN spoiled ELSE spoiled \cup {kind[t]}
      BY <2>2 DEF Enqueue
    <3>2. m \in {Own(t), buf, Torn} /\ m \in Message
      BY <1>2, <3>1, MessageFacts DEF Copied
    <3>3. CASE kind[t] = k
      <4>1. m = Own(t)
        BY <3>1, <3>3
      <4>2. IsReport(m, k) /\ m.val = cache[k]
        BY <1>0, <3>3, <4>1, OwnReport DEF Enqueue, Current, Carries, Own, Report
      <4>3. QED
        BY <1>2, <3>1, <3>2, <4>2, EndsAppend
    <3>4. CASE kind[t] # k
      <4>1. Ends(txq, k, view[k], cache[k])
        BY <3>4 DEF Settling
      <4>2. IsReport(m, k) => m.val = cache[k]
        BY <1>3, <3>2, <3>4, NoReport, OwnReport DEF BufferOK
      <4>3. QED
        BY <1>2, <3>1, <3>2, <4>1, <4>2, EndsAppend
    <3>5. QED
      BY <3>3, <3>4
  <2>3. QED
    BY <2>1, <2>2
<1>6. QED
  BY <1>1, <1>4, <1>5 DEF Settling

\* An update gives its kind to a task; it leaves the others alone.
LEMMA UpdateDelivery ==
    ASSUME IInv, NEW t \in Reporter, NEW j \in Kind, Update(t, j),
           NEW k \in Kind, OnItsWay(k)
    PROVE  OnItsWay(k)'
<1>t. /\ pc \in [Task -> Place] /\ kind \in [Task -> Kind] /\ cache \in [Kind -> Value]
      /\ t \in Task /\ "rx" \in Task /\ t # "rx"
  BY CallTypes DEF IInv, Task
<1>1. /\ pc' = [pc EXCEPT ![t] = "check"] /\ kind' = [kind EXCEPT ![t] = j]
      /\ pc[t] = "idle" /\ UNCHANGED <<sent, buf, txq, view>>
      /\ cache' = [cache EXCEPT ![j] = used.updates + 1]
  BY DEF Update, GoTo, pack, server
<1>2. CASE j = k
  BY <1>t, <1>1, <1>2 DEF OnItsWay, Reported, Carries
<1>3. CASE j # k
  <2>1. cache'[k] = cache[k]
    BY <1>t, <1>1, <1>3
  <2>2. CASE Settling(k)
    BY <1>1, <2>1, <2>2 DEF OnItsWay, Settling, BufferOK
  <2>3. CASE Reported(k)
    BY <1>t, <1>1, <2>3 DEF OnItsWay, Reported, Carries, Task
  <2>4. CASE ToReport(k)
    BY <1>t, <1>1, <2>4 DEF OnItsWay, ToReport
  <2>5. QED
    BY <2>2, <2>3, <2>4 DEF OnItsWay
<1>4. QED
  BY <1>2, <1>3

\* A login leaves every kind to the report that follows it.
LEMMA LoginDelivery ==
    ASSUME IInv, Places, RxLogin, NEW k \in Kind
    PROVE  OnItsWay(k)'
<1>1. pc'["rx"] = "online" /\ sent' = 0
  <2>1. pc \in [Task -> Place] /\ "rx" \in Task
    BY CallTypes DEF IInv, Task
  <2>2. QED
    BY <2>1 DEF RxLogin, GoTo, Places
<1>2. \E i \in (0 + 1)..Len(ReportOrder) : ReportOrder[i] = k
  BY DEF Kind
<1>3. QED
  BY <1>1, <1>2 DEF OnItsWay, ToReport

\* The other steps of _rx_process_task let go of no value.
LEMMA RxDelivery ==
    ASSUME IInv, RxTake \/ RxNewId \/ RxOnline \/ RxLoad \/ RxReturn,
           NEW k \in Kind, OnItsWay(k)
    PROVE  OnItsWay(k)'
<1>t. /\ pc \in [Task -> Place] /\ kind \in [Task -> Kind]
      /\ "rx" \in Task /\ "rx" \notin Reporter
  BY CallTypes DEF IInv, Task
<1>1. UNCHANGED <<sent, buf, txq, view, cache>>
  BY DEF RxTake, RxNewId, RxOnline, RxLoad, RxReturn, pack, server, handle
<1>2. \A r \in Reporter : pc'[r] = pc[r] /\ kind'[r] = kind[r]
  BY <1>t DEF RxTake, RxNewId, RxOnline, RxLoad, RxReturn, GoTo, Task
<1>3. pc["rx"] \in {"online", "load", "pack", "enqueue"}
        => pc'["rx"] \in {"online", "load", "pack", "enqueue"}
  BY <1>t DEF RxTake, RxNewId, RxOnline, RxLoad, RxReturn, GoTo
<1>4. CASE Settling(k)
  BY <1>1, <1>4, SettlingKept DEF OnItsWay
<1>5. CASE Reported(k)
  BY <1>2, <1>5 DEF OnItsWay, Reported, Carries
<1>6. CASE ToReport(k)
  BY <1>1, <1>3, <1>6 DEF OnItsWay, ToReport
<1>7. QED
  BY <1>4, <1>5, <1>6 DEF OnItsWay

\* Checking and packing keep a value in hand; a session that is logged in turns
\* nobody away.
LEMMA CallDelivery ==
    ASSUME IInv, Places, Current, Here, NEW t \in Task, CheckLogged(t) \/ Pack(t),
           NEW k \in Kind \ spoiled, OnItsWay(k)
    PROVE  OnItsWay(k)'
<1>t. /\ pc \in [Task -> Place] /\ kind \in [Task -> Kind]
      /\ "rx" \in Task /\ "rx" \notin Reporter
  BY CallTypes DEF IInv, Task
<1>1. /\ pc' = [pc EXCEPT ![t] = "pack"] \/ pc' = [pc EXCEPT ![t] = "enqueue"]
      /\ pc[t] \in {"check", "pack"} /\ UNCHANGED <<kind, sent>>
  BY DEF CheckLogged, Pack, GoTo, Here
<1>2. CASE Settling(k)
  <2>1. CASE CheckLogged(t)
    BY <1>2, <2>1, SettlingKept DEF OnItsWay, CheckLogged, pack, server, handle
  <2>2. CASE Pack(t)
    BY <1>2, <2>2, PackDelivery DEF OnItsWay
  <2>3. QED
    BY <2>1, <2>2
<1>3. CASE Reported(k)
  BY <1>t, <1>1, <1>3 DEF OnItsWay, Reported, Carries, Task
<1>4. CASE ToReport(k)
  BY <1>t, <1>1, <1>4 DEF OnItsWay, ToReport
<1>5. QED
  BY <1>2, <1>3, <1>4 DEF OnItsWay

\* What a task enqueues leaves its hands for the ring; the others keep theirs, and
\* the login report goes on to its next kind.
LEMMA CopyDelivery ==
    ASSUME IInv, Places, Current, Packed, NEW t \in Task, Enqueue(t),
           NEW k \in Kind \ spoiled', OnItsWay(k)
    PROVE  OnItsWay(k)'
<1>t. /\ pc \in [Task -> Place] /\ kind \in [Task -> Kind] /\ sent \in Nat
      /\ "rx" \in Task /\ "rx" \notin Reporter /\ Len(ReportOrder) \in Nat
  BY CallTypes, KindFacts DEF IInv, Task
<1>1. /\ pc[t] = "enqueue" /\ pc' = [pc EXCEPT ![t] = AfterEnqueue(t)]
      /\ kind' = [kind EXCEPT ![t] = NoKind]
      /\ sent' = IF t # "rx" THEN sent
                 ELSE IF sent + 1 < Len(ReportOrder) THEN sent + 1 ELSE 0
  BY DEF Enqueue, GoTo
<1>2. CASE kind[t] = k \/ Settling(k)
  BY <1>2, EnqueueDelivery DEF OnItsWay
<1>3. CASE Reported(k) /\ kind[t] # k
  <2>1. PICK r \in Reporter : Carries(r) /\ kind[r] = k
    BY <1>3 DEF Reported
  <2>2. pc'[r] = pc[r] /\ kind'[r] = k
    BY <1>t, <1>1, <1>3, <2>1 DEF Task
  <2>3. QED
    BY <2>1, <2>2 DEF OnItsWay, Reported, Carries
<1>4. CASE ToReport(k) /\ kind[t] # k
  <2>1. PICK i \in (sent + 1)..Len(ReportOrder) : ReportOrder[i] = k
    BY <1>4 DEF ToReport
  <2>2. CASE t # "rx"
    BY <1>t, <1>1, <1>4, <2>2 DEF OnItsWay, ToReport
  <2>3. CASE t = "rx"
    <3>1. kind[t] = ReportOrder[sent + 1]
      BY <1>1, <2>3 DEF Places
    <3>2. i \in (sent + 2)..Len(ReportOrder) /\ sent + 1 < Len(ReportOrder)
      BY <1>t, <1>4, <2>1, <3>1
    <3>3. pc'["rx"] = "load" /\ sent' = sent + 1
      BY <1>t, <1>1, <2>3, <3>2 DEF AfterEnqueue
    <3>4. i \in (sent' + 1)..Len(ReportOrder)
      BY <1>t, <3>2, <3>3
    <3>5. QED
      BY <2>1, <3>3, <3>4 DEF OnItsWay, ToReport
  <2>4. QED
    BY <2>2, <2>3
<1>5. QED
  BY <1>2, <1>3, <1>4 DEF OnItsWay

\* No step loses a value of a kind that is not spoiled.
LEMMA DeliveryStep ==
    IInv /\ Places /\ Current /\ Packed /\ Delivery /\ [Next]_vars => Delivery'
<1> SUFFICES ASSUME IInv, Places, Current, Packed, Delivery, [Next]_vars, Here',
                    NEW k \in Kind \ spoiled'
             PROVE  OnItsWay(k)'
  BY DEF Delivery
<1> USE DEF Here
<1>1. CASE Aside
  <2>1. Here /\ UNCHANGED core
    BY <1>1, AsideStep
  <2>2. OnItsWay(k)
    BY <2>1 DEF Delivery, core
  <2>3. QED
    BY <2>1, <2>2 DEF core, OnItsWay, Reported, ToReport, Settling, BufferOK, Carries
<1>2. CASE Authenticate
  <2>1. Here /\ k \notin spoiled /\ UNCHANGED <<pc, kind, sent>>
    BY <1>2 DEF Authenticate, link, handle, ghost, calls
  <2>2. QED
    BY <1>2, <2>1, AuthenticateDelivery
       DEF Delivery, OnItsWay, Reported, ToReport, Carries
<1>3. CASE SendRequest
  <2>1. Here /\ k \notin spoiled /\ UNCHANGED <<pc, kind, sent>>
    BY <1>3 DEF SendRequest, link, handle, ghost, calls
  <2>2. QED
    BY <1>3, <2>1, RequestDelivery
       DEF Delivery, OnItsWay, Reported, ToReport, Carries
<1>4. CASE SendData
  <2>1. Here /\ k \notin spoiled /\ UNCHANGED <<pc, kind, sent>>
    BY <1>4 DEF SendData, link, handle, calls
  <2>2. QED
    BY <1>4, <2>1, DataDelivery
       DEF Delivery, OnItsWay, Reported, ToReport, Carries
<1>5. CASE RxLogin
  BY <1>5, LoginDelivery
<1>6. CASE RxTake \/ RxNewId \/ RxOnline \/ RxLoad \/ RxReturn
  <2>1. UNCHANGED <<client, event, logged, late, spoiled>>
    BY <1>6 DEF RxTake, RxNewId, RxOnline, RxLoad, RxReturn, link, handle, ghost
  <2>2. Here /\ k \notin spoiled
    BY <2>1
  <2>3. QED
    BY <1>6, <2>2, RxDelivery DEF Delivery
<1>7. ASSUME NEW t \in Task, CheckLogged(t) \/ Pack(t)
      PROVE  OnItsWay(k)'
  <2>1. UNCHANGED <<client, event, logged, late, spoiled>>
    BY <1>7 DEF CheckLogged, Pack, link, handle, ghost
  <2>2. Here /\ k \notin spoiled
    BY <2>1
  <2>3. QED
    BY <1>7, <2>2, CallDelivery DEF Delivery
<1>8. ASSUME NEW t \in Task, Enqueue(t)
      PROVE  OnItsWay(k)'
  <2>1. UNCHANGED <<client, event, logged, late>>
    BY <1>8 DEF Enqueue, link, handle
  <2>2. spoiled \subseteq spoiled'
    BY <1>8 DEF Enqueue
  <2>3. Here /\ k \notin spoiled
    BY <2>1, <2>2
  <2>4. QED
    BY <1>8, <2>3, CopyDelivery DEF Delivery
<1>9. ASSUME NEW t \in Reporter, NEW j \in Kind, Update(t, j)
      PROVE  OnItsWay(k)'
  <2>1. CASE j = k
    <3>1. t \in Task /\ pc \in [Task -> Place] /\ kind \in [Task -> Kind]
      BY CallTypes DEF IInv, Task
    <3>2. pc'[t] = "check" /\ kind'[t] = k
      BY <1>9, <2>1, <3>1 DEF Update, GoTo
    <3>3. QED
      BY <3>2 DEF OnItsWay, Reported, Carries
  <2>2. CASE j # k
    <3>1. Here /\ k \notin spoiled
      BY <1>9, <2>2 DEF Update, link
    <3>2. QED
      BY <1>9, <3>1, UpdateDelivery DEF Delivery
  <2>3. QED
    BY <2>1, <2>2
<1>10. QED
  BY <1>1, <1>2, <1>3, <1>4, <1>5, <1>6, <1>7, <1>8, <1>9, StepCases

-----------------------------------------------------------------------------
(* The theorem.                                                            *)

\* Nothing is reported yet.
LEMMA InitReport == Init => ReportInv
<1> SUFFICES ASSUME Init PROVE ReportInv
  OBVIOUS
<1>1. \A t \in Task : pc[t] = "idle"
  BY DEF Init
<1>2. "rx" \in Task /\ sent = 0 /\ client = "none"
  BY DEF Init, Task
<1>3. Places
  BY <1>1, <1>2 DEF Places, Task
<1>4. Current /\ Packed
  BY <1>1 DEF Current, Packed, Carries
<1>5. Delivery
  BY <1>2 DEF Delivery, Here
<1>6. QED
  BY <1>3, <1>4, <1>5, InitInv DEF ReportInv

\* With the ring empty and every task at rest the value has arrived.
LEMMA ReportInStep == ReportInv => ServerInStep
<1> SUFFICES ASSUME ReportInv, Settled, logged, ~late,
                    \A t \in Task : pc[t] = "idle", txq = <<>>,
                    NEW k \in Kind \ spoiled
             PROVE  view[k] = cache[k]
  BY DEF ServerInStep
<1>1. OnItsWay(k)
  BY DEF ReportInv, Delivery, Here, Settled
<1>2. ~Reported(k) /\ ~ToReport(k)
  BY DEF Reported, ToReport, Carries, Task
<1>3. Ends(<<>>, k, view[k], cache[k])
  BY <1>1, <1>2 DEF OnItsWay, Settling
<1>4. QED
  BY <1>3 DEF Ends

\* Once every task is at rest and tx_rb is empty the server knows the cached value
\* of every kind that was not spoiled, whatever the tasks did to each other's
\* messages in ws_tx_buffer and however often the connection was lost and made
\* (app_websocket.c:126-172, 214-250, 380-384, 430-437, 526-566).
THEOREM InStep == Spec => []ServerInStep
<1>1. ReportInv /\ [Next]_vars => ReportInv'
  <2> SUFFICES ASSUME ReportInv, [Next]_vars PROVE ReportInv'
    OBVIOUS
  <2>1. IInv /\ Places /\ Current /\ Packed /\ Delivery
    BY DEF ReportInv
  <2>2. IInv'
    BY <2>1, TypeStep, QueuedStep, FreshStep, AcceptedStep DEF IInv
  <2>3. QED
    BY <2>1, <2>2, PlacesStep, CurrentStep, PackedStep, DeliveryStep DEF ReportInv
<1>2. QED
  BY <1>1, InitReport, ReportInStep, PTL DEF Spec

=============================================================================
