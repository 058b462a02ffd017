----------------------------- MODULE WsSession -----------------------------
(***************************************************************************)
(* The session with the server (main/app_websocket.c) and how the reports  *)
(* of the device's state travel over it.                                   *)
(*                                                                         *)
(* Four kinds of tasks share one handle without a lock:                    *)
(*   the client task of esp_websocket_client, which connects, reconnects   *)
(*   and runs websocket_event_handler;                                     *)
(*   "session"   _websocket_task: prepare, register, login, send;          *)
(*   "rx"        _rx_process_task, takes the answers out of rx_rb;         *)
(*   Reporter    the tasks that call app_websocket_update_*.               *)
(* Every report is packed into the one ws_tx_buffer and copied from there  *)
(* into tx_rb.  A value is the number of the update that made it; a report *)
(* carries one.  late and spoiled are history: no guard reads them.        *)
(***************************************************************************)
EXTENDS Naturals, Sequences

CONSTANTS Reporter,      \* tasks that report a change of the device's state
          ReportOrder,   \* what a login reports, in the code's order: the power
                         \* state, the mode and the active time
          MaxOutages,    \* losses of the network
          MaxDrops,      \* messages dropped because rx_rb stayed full for 10 s
          MaxConn,       \* connections made; the last one is never lost
          MaxUpdates,    \* changes of the state
          MaxRetries,    \* requests repeated although an answer is on its way
          MaxFreedReads, \* checks of device_id between its free and its strdup
          MaxRefusals,   \* requests answered with a code other than 0
          RxCap, TxCap   \* messages the two ring buffers hold

ASSUME SessionAssumption ==
    /\ "rx" \notin Reporter /\ "session" \notin Reporter
    /\ ReportOrder \in Seq(STRING) /\ ReportOrder # <<>>
    /\ MaxOutages \in Nat /\ MaxDrops \in Nat /\ MaxFreedReads \in Nat
    /\ MaxConn \in Nat /\ MaxUpdates \in Nat
    /\ MaxRetries \in Nat /\ MaxRefusals \in Nat
    /\ RxCap \in Nat \ {0} /\ TxCap \in Nat \ {0}

Task == Reporter \cup {"rx"}
Kind == {ReportOrder[i] : i \in 1..Len(ReportOrder)}
NoKind == ReportOrder[1]      \* of a task that reports nothing
Value == 0..MaxUpdates

Message == [type : {"register", "login", "torn"}]
      \cup [type : {"report"}, kind : Kind, val : Value]
Answer == [type : {"registered", "loggedIn", "refused"}, conn : 1..MaxConn]
Torn == [type |-> "torn"]
Report(k, v) == [type |-> "report", kind |-> k, val |-> v]

VARIABLES
    net,         \* app_network_is_connected
    client,      \* state of the client: none, init, connected, wait
    alive,       \* does the transport of the present connection still work?
    conn,        \* number of the present (or last) connection
    event,       \* what the client task does inside websocket_event_handler
    started, connected, logged,   \* flags of the handle
    devId,       \* handle->device_id: none, set, or freed and not yet replaced
    cache,       \* handle->power_state, mode and active_time
    buf,         \* ws_tx_buffer
    mixed,       \* tasks whose use of ws_tx_buffer overlaps another's
    rxq, txq,    \* rx_rb, tx_rb
    spc,         \* control point of _websocket_task
    regDue, loginDue,   \* have 30 s passed since last_reg_tick, last_login_tick?
    pc, kind, val,      \* control point and arguments of the other tasks
    sent,        \* how many reports a login has made
    shown,       \* is_connected of the screen
    answers,     \* the server's answers on their way
    served,      \* has the server accepted a login on this connection?
    view,        \* what the server knows
    used,        \* events so far, against the Max bounds
    late,        \* was `logged' set by the answer of an earlier connection?
    spoiled      \* kinds whose last report was lost, torn or overtaken

link   == <<net, client, alive, conn, event>>
handle == <<started, connected, logged, devId, cache>>
pack   == <<buf, mixed>>
timer  == <<regDue, loginDue>>
calls  == <<pc, kind, val, sent>>
server == <<answers, served, view>>
ghost  == <<late, spoiled>>
vars   == <<link, handle, pack, rxq, txq, spc, timer, calls, shown, server,
            used, ghost>>

Init ==
    /\ net \in BOOLEAN
    /\ client = "none" /\ alive = FALSE /\ conn = 0 /\ event = "none"
    /\ started = FALSE /\ connected = FALSE
    /\ logged \in BOOLEAN       \* app_websocket_init leaves it out
    /\ devId = "none"
    /\ cache = [k \in Kind |-> 0]
    /\ buf = Torn /\ mixed = {}
    /\ rxq = <<>> /\ txq = <<>>
    /\ spc = "prepare" /\ regDue = TRUE /\ loginDue = TRUE
    /\ pc = [t \in Task |-> "idle"]
    /\ kind = [t \in Task |-> NoKind] /\ val = [t \in Task |-> 0]
    /\ sent = 0 /\ shown = FALSE
    /\ answers = <<>> /\ served = FALSE
    /\ view = [k \in Kind |-> 0]
    /\ used = [outages |-> 0, drops |-> 0, updates |-> 0, retries |-> 0,
               freedReads |-> 0, refusals |-> 0]
    /\ late = FALSE /\ spoiled = {}

-----------------------------------------------------------------------------
(* The client task and websocket_event_handler.                            *)

NetworkChanges ==
    /\ net => used.outages < MaxOutages
    /\ net' = ~net
    /\ used' = IF net THEN [used EXCEPT !.outages = @ + 1] ELSE used
    /\ UNCHANGED <<client, alive, conn, event, handle, pack, rxq, txq, spc,
                   timer, calls, shown, server, ghost>>

\* The transport dies and what it carried is lost, but for the message the
\* client has in hand; the client has not noticed.
TransportBreaks ==
    /\ alive /\ conn < MaxConn
    /\ alive' = FALSE
    /\ answers' = IF event = "data" THEN <<Head(answers)>> ELSE <<>>
    /\ UNCHANGED <<net, client, conn, event, handle, pack, rxq, txq, spc,
                   timer, calls, shown, served, view, used, ghost>>

\* State INIT: a connection, or abort_connection and a new attempt later.
Connect ==
    /\ client = "init" /\ event = "none"
    /\ \/ /\ conn < MaxConn
          /\ client' = "connected" /\ event' = "up" /\ alive' = TRUE
          /\ conn' = conn + 1 /\ served' = FALSE
       \/ /\ client' = "wait" /\ event' = "down"
          /\ UNCHANGED <<alive, conn, served>>
    /\ UNCHANGED <<net, handle, pack, rxq, txq, spc, timer, calls, shown,
                   answers, view, used, ghost>>

NoticeBreak ==
    /\ client = "connected" /\ event = "none" /\ ~alive
    /\ client' = "wait" /\ event' = "down"
    /\ UNCHANGED <<net, alive, conn, handle, pack, rxq, txq, spc, timer, calls,
                   shown, server, used, ghost>>

Reconnect ==
    /\ client = "wait" /\ event = "none"
    /\ client' = "init"
    /\ UNCHANGED <<net, alive, conn, event, handle, pack, rxq, txq, spc, timer,
                   calls, shown, server, used, ghost>>

\* CONNECTED and DISCONNECTED: websocket_connected, then is_logged, then the
\* callback, which tells the screen.
MarkConnected ==
    /\ event \in {"up", "down"}
    /\ connected' = (event = "up") /\ event' = "logout"
    /\ UNCHANGED <<net, client, alive, conn, started, logged, devId, cache,
                   pack, rxq, txq, spc, timer, calls, shown, server, used, ghost>>

\* Mutant: a new connection keeps is_logged.
MarkLoggedOutNever ==
    /\ event = "logout"
    /\ event' = "tell"
    /\ UNCHANGED <<net, client, alive, conn, handle, pack, rxq, txq, spc, timer,
                   calls, shown, server, used, ghost>>

MarkLoggedOut ==
    /\ event = "logout"
    /\ logged' = FALSE /\ late' = FALSE /\ event' = "tell"
    /\ UNCHANGED <<net, client, alive, conn, started, connected, devId, cache,
                   pack, rxq, txq, spc, timer, calls, shown, server, used, spoiled>>

TellScreen ==
    /\ event = "tell"
    /\ shown' = FALSE /\ event' = "none"
    /\ UNCHANGED <<net, client, alive, conn, handle, pack, rxq, txq, spc, timer,
                   calls, server, used, ghost>>

\* DATA: wait up to 10 s for room in rx_rb, holding the client's lock.
ReceiveData ==
    /\ client = "connected" /\ event = "none" /\ answers # <<>>
    /\ event' = "data"
    /\ UNCHANGED <<net, client, alive, conn, handle, pack, rxq, txq, spc, timer,
                   calls, shown, server, used, ghost>>

EnqueueData ==
    /\ event = "data"
    /\ event' = "none" /\ answers' = Tail(answers)
    /\ \/ /\ Len(rxq) < RxCap
          /\ rxq' = Append(rxq, Head(answers)) /\ UNCHANGED used
       \/ /\ Len(rxq) >= RxCap /\ used.drops < MaxDrops
          /\ used' = [used EXCEPT !.drops = @ + 1] /\ UNCHANGED rxq
    /\ UNCHANGED <<net, client, alive, conn, handle, pack, txq, spc, timer,
                   calls, shown, served, view, ghost>>

-----------------------------------------------------------------------------
(* esp_websocket_client_send_bin and the server behind it.                 *)

Reply(type) == Append(answers, [type |-> type, conn |-> conn])

\* The server answers requests, or refuses them, and believes the reports of a
\* connection that has logged in.
ServerReceives(m) ==
    \/ /\ m.type \in {"register", "login"} /\ used.refusals < MaxRefusals
       /\ used' = [used EXCEPT !.refusals = @ + 1]
       /\ answers' = Reply("refused")
       /\ UNCHANGED <<served, view>>
    \/ /\ m.type = "register"
       /\ answers' = Reply("registered")
       /\ UNCHANGED <<served, view, used>>
    \/ /\ m.type = "login"
       /\ answers' = Reply("loggedIn") /\ served' = TRUE
       /\ UNCHANGED <<view, used>>
    \/ /\ m.type = "report"
       /\ view' = IF served THEN [view EXCEPT ![m.kind] = m.val] ELSE view
       /\ UNCHANGED <<answers, served, used>>
    \/ /\ m.type = "torn"
       /\ UNCHANGED <<server, used>>

\* The lock is free and the connection works: m arrives.  Otherwise it is lost,
\* and no caller looks at the result.
Arrives == client = "connected" /\ alive /\ event = "none"

Send(m) ==
    \/ Arrives /\ ServerReceives(m)
    \/ ~Arrives /\ UNCHANGED <<server, used>>

-----------------------------------------------------------------------------
(* ws_tx_buffer: from packing into it to copying out of it.                *)

\* Tasks between packing and copying.
Packers == {t \in Task : pc[t] = "enqueue"}
             \cup (IF spc \in {"sendreg", "sendlogin"} THEN {"session"} ELSE {})

\* t packs m.  Whoever is using the buffer too may see any mixture.
PackInto(t, m) ==
    /\ buf' = m
    /\ mixed' = IF Packers = {} THEN mixed \ {t} ELSE mixed \cup Packers \cup {t}

\* What t may find in the buffer when it copies out of it.
Copied(t, own) == IF t \in mixed THEN {own, buf, Torn} ELSE {buf}

\* t is done with the buffer, whose content nobody else reads if t was the last.
Leave(t) ==
    /\ mixed' = mixed \ {t}
    /\ buf' = IF Packers = {t} THEN Torn ELSE buf

\* A message with the device's id; a freed id is any bytes.
WithId(m) == IF devId = "set" THEN m ELSE Torn

-----------------------------------------------------------------------------
(* _websocket_task.                                                        *)

Prepare ==
    /\ spc = "prepare" /\ net
    /\ \/ /\ connected
          /\ spc' = "auth"
          /\ UNCHANGED <<client, started>>
       \/ /\ ~connected /\ ~started
          /\ started' = TRUE /\ client' = "init"
          /\ UNCHANGED spc
    /\ UNCHANGED <<net, alive, conn, event, connected, logged, devId, cache,
                   pack, rxq, txq, timer, calls, shown, server, used, ghost>>

\* _app_ws_register: no id yet.  A freed one is read as a string, which may be
\* empty or not.
Register ==
    /\ devId # "set"
    /\ \/ /\ ~regDue
          /\ spc' = "prepare"
          /\ UNCHANGED <<regDue, pack>>
       \/ /\ regDue
          /\ spc' = "sendreg" /\ regDue' = FALSE
          /\ PackInto("session", [type |-> "register"])
    /\ UNCHANGED loginDue

\* _app_ws_login
Login ==
    /\ devId # "none"
    /\ \/ /\ logged
          /\ spc' = "sending"
          /\ UNCHANGED <<loginDue, pack>>
       \/ /\ ~logged /\ ~loginDue
          /\ spc' = "prepare"
          /\ UNCHANGED <<loginDue, pack>>
       \/ /\ ~logged /\ loginDue
          /\ spc' = "sendlogin" /\ loginDue' = FALSE
          /\ PackInto("session", WithId([type |-> "login"]))
    /\ UNCHANGED regDue

\* An id once set stays, so the two checks can be one step.
Authenticate ==
    /\ spc = "auth"
    /\ Register \/ Login
    /\ \/ devId # "freed" /\ UNCHANGED used
       \/ /\ devId = "freed" /\ used.freedReads < MaxFreedReads
          /\ used' = [used EXCEPT !.freedReads = @ + 1]
    /\ UNCHANGED <<link, handle, rxq, txq, calls, shown, server, ghost>>

\* _app_ws_register and _app_ws_login send and return ESP_FAIL.
SendRequest ==
    /\ spc \in {"sendreg", "sendlogin"}
    /\ \E m \in Copied("session", buf) : Send(m)
    /\ spc' = "prepare" /\ Leave("session")
    /\ UNCHANGED <<link, handle, rxq, txq, timer, calls, shown, ghost>>

\* _app_ws_sending_data; the item leaves the ring whatever becomes of it.
SendData ==
    /\ spc = "sending"
    /\ spc' = "prepare"
    /\ \/ /\ txq = <<>>
          /\ UNCHANGED <<txq, server, used, spoiled>>
       \/ /\ txq # <<>>
          /\ txq' = Tail(txq)
          /\ Send(Head(txq))
          /\ spoiled' = IF ~Arrives /\ Head(txq).type = "report"
                        THEN spoiled \cup {Head(txq).kind} ELSE spoiled
    /\ UNCHANGED <<link, handle, pack, rxq, timer, calls, shown, late>>

\* An answer to a request may still come.
AnswerPending == alive /\ (answers # <<>> \/ rxq # <<>> \/ pc["rx"] # "idle")

\* 30 s are over and a request is wanted.  A server slower than that is allowed
\* MaxRetries times.
TimeForRetry ==
    /\ (devId # "set" /\ ~regDue) \/ (~logged /\ ~loginDue)
    /\ \/ ~AnswerPending /\ UNCHANGED used
       \/ /\ AnswerPending /\ used.retries < MaxRetries
          /\ used' = [used EXCEPT !.retries = @ + 1]
    /\ regDue' = TRUE /\ loginDue' = TRUE
    /\ UNCHANGED <<link, handle, pack, rxq, txq, spc, calls, shown, server, ghost>>

-----------------------------------------------------------------------------
(* _rx_process_task: the two answers of _process_data that concern the     *)
(* session.                                                                *)

ReportingKind(k) == \E t \in Reporter : pc[t] # "idle" /\ kind[t] = k

GoTo(t, l) == pc' = [pc EXCEPT ![t] = l]

\* The head of rx_rb stays in the ring until _process_data has returned.
RxTake ==
    /\ pc["rx"] = "idle" /\ rxq # <<>>
    /\ CASE Head(rxq).type = "registered" -> GoTo("rx", "newid")
         [] Head(rxq).type = "loggedIn"   -> GoTo("rx", "login")
         [] OTHER                         -> GoTo("rx", "return")
    /\ UNCHANGED <<link, handle, pack, rxq, txq, spc, timer, kind, val, sent,
                   shown, server, used, ghost>>

\* free the old device_id, if there is one; then strdup the new one
RxNewId ==
    /\ pc["rx"] = "newid"
    /\ \/ devId = "set" /\ devId' = "freed" /\ UNCHANGED pc
       \/ devId # "set" /\ devId' = "set" /\ GoTo("rx", "return")
    /\ UNCHANGED <<link, started, connected, logged, cache, pack, rxq, txq, spc,
                   timer, kind, val, sent, shown, server, used, ghost>>

RxLogin ==
    /\ pc["rx"] = "login"
    /\ logged' = TRUE
    /\ GoTo("rx", "online")
    /\ late' = (Head(rxq).conn # conn)
    /\ spoiled' = {k \in Kind : ReportingKind(k)}
    /\ UNCHANGED <<link, started, connected, devId, cache, pack, rxq, txq, spc,
                   timer, kind, val, sent, shown, server, used>>

\* Mutant: the screen is not told.
RxOnlineUntold ==
    /\ pc["rx"] = "online"
    /\ GoTo("rx", "load")
    /\ UNCHANGED <<link, handle, pack, rxq, txq, spc, timer, kind, val, sent,
                   shown, server, used, ghost>>

\* WEBSOCKET_ON_ONLINE
RxOnline ==
    /\ pc["rx"] = "online"
    /\ shown' = TRUE
    /\ GoTo("rx", "load")
    /\ UNCHANGED <<link, handle, pack, rxq, txq, spc, timer, kind, val, sent, server,
                   used, ghost>>

\* The cached values, one call after the other.
RxLoad ==
    /\ pc["rx"] = "load"
    /\ LET k == ReportOrder[sent + 1]
       IN  /\ kind' = [kind EXCEPT !["rx"] = k]
           /\ val' = [val EXCEPT !["rx"] = cache[k]]
    /\ GoTo("rx", "pack")
    /\ UNCHANGED <<link, handle, pack, rxq, txq, spc, timer, sent, shown,
                   server, used, ghost>>

RxReturn ==
    /\ pc["rx"] = "return"
    /\ rxq' = Tail(rxq)
    /\ GoTo("rx", "idle")
    /\ UNCHANGED <<link, handle, pack, txq, spc, timer, kind, val, sent, shown,
                   server, used, ghost>>

-----------------------------------------------------------------------------
(* app_websocket_update_*, and what all reports have in common.            *)

\* The new value is stored; its report may be overtaken by one of the same
\* kind that is under way.
Update(t, k) ==
    /\ pc[t] = "idle" /\ used.updates < MaxUpdates
    /\ used' = [used EXCEPT !.updates = @ + 1]
    /\ cache' = [cache EXCEPT ![k] = used.updates + 1]
    /\ kind' = [kind EXCEPT ![t] = k]
    /\ val' = [val EXCEPT ![t] = used.updates + 1]
    /\ GoTo(t, "check")
    /\ spoiled' = IF ReportingKind(k) \/ pc["rx"] \in {"online", "load", "pack", "enqueue"}
                  THEN spoiled \cup {k} ELSE spoiled \ {k}
    /\ UNCHANGED <<link, started, connected, logged, devId, pack, rxq, txq, spc,
                   timer, sent, shown, server, late>>

CheckLogged(t) ==
    /\ pc[t] = "check"
    /\ \/ logged /\ GoTo(t, "pack") /\ UNCHANGED <<kind, val>>
       \/ /\ ~logged /\ GoTo(t, "idle")
          /\ kind' = [kind EXCEPT ![t] = NoKind] /\ val' = [val EXCEPT ![t] = 0]
    /\ UNCHANGED <<link, handle, pack, rxq, txq, spc, timer, sent, shown, server,
                   used, ghost>>

Own(t) == Report(kind[t], val[t])

Pack(t) ==
    /\ pc[t] = "pack"
    /\ PackInto(t, WithId(Own(t)))
    /\ GoTo(t, "enqueue")
    /\ UNCHANGED <<link, handle, rxq, txq, spc, timer, kind, val, sent, shown,
                   server, used, ghost>>

\* Mutant: a login reports the first cached value only.
AfterEnqueueOnce(t) == IF t # "rx" THEN "idle" ELSE "return"

AfterEnqueue(t) == IF t # "rx" THEN "idle"
                   ELSE IF sent + 1 < Len(ReportOrder) THEN "load" ELSE "return"

\* Mutant: the ring has no end.
RoomUnbounded == TRUE

Room == Len(txq) < TxCap

\* Wait up to 2 s for room in tx_rb, then give up.  The arguments end with the
\* call.
Enqueue(t) ==
    /\ pc[t] = "enqueue"
    /\ GoTo(t, AfterEnqueue(t))
    /\ Leave(t)
    /\ kind' = [kind EXCEPT ![t] = NoKind] /\ val' = [val EXCEPT ![t] = 0]
    /\ sent' = IF t # "rx" THEN sent
               ELSE IF sent + 1 < Len(ReportOrder) THEN sent + 1 ELSE 0
    /\ IF Room
       THEN \E m \in Copied(t, Own(t)) :
                /\ txq' = Append(txq, m)
                /\ spoiled' = IF m = Own(t) THEN spoiled ELSE spoiled \cup {kind[t]}
       ELSE txq' = txq /\ spoiled' = spoiled \cup {kind[t]}
    /\ UNCHANGED <<link, handle, rxq, spc, timer, shown, server, used, late>>

-----------------------------------------------------------------------------
Client == \/ Connect \/ NoticeBreak \/ Reconnect
          \/ MarkConnected \/ MarkLoggedOut \/ TellScreen
          \/ ReceiveData \/ EnqueueData

Session == Prepare \/ Authenticate \/ SendRequest \/ SendData

Calls(t) == CheckLogged(t) \/ Pack(t) \/ Enqueue(t)

Rx == RxTake \/ RxNewId \/ RxLogin \/ RxOnline \/ RxLoad \/ RxReturn \/ Calls("rx")

Next ==
    \/ NetworkChanges \/ TransportBreaks \/ TimeForRetry
    \/ Client \/ Session \/ Rx
    \/ \E t \in Reporter : \/ \E k \in Kind : Update(t, k)
                           \/ Calls(t)

Spec == Init /\ [][Next]_vars

\* Every task runs again and again and 30 s pass; the network, the transport
\* and the callers of the updates owe nothing.  A client that keeps trying gets
\* its connection in the end while there is one to be had.
Fairness ==
    /\ WF_vars(Client) /\ SF_vars(Connect /\ client' = "connected")
    /\ WF_vars(Session)
    /\ WF_vars(Rx) /\ WF_vars(TimeForRetry)
    /\ \A t \in Reporter : WF_vars(Calls(t))

FairSpec == Spec /\ Fairness

-----------------------------------------------------------------------------
\* Events so far, within their bounds.
Bounds == [outages : 0..MaxOutages, drops : 0..MaxDrops,
           updates : 0..MaxUpdates, retries : 0..MaxRetries,
           freedReads : 0..MaxFreedReads, refusals : 0..MaxRefusals]

\* The flags.
FlagsOK ==
    /\ net \in BOOLEAN /\ alive \in BOOLEAN
    /\ started \in BOOLEAN /\ connected \in BOOLEAN /\ logged \in BOOLEAN
    /\ regDue \in BOOLEAN /\ loginDue \in BOOLEAN
    /\ shown \in BOOLEAN /\ served \in BOOLEAN /\ late \in BOOLEAN

\* The type of every variable; neither ring buffer holds more than it has room for
\* (app_websocket.c:68-69).
TypeOK ==
    /\ FlagsOK
    /\ client \in {"none", "init", "connected", "wait"} /\ conn \in 0..MaxConn
    /\ event \in {"none", "up", "down", "logout", "tell", "data"}
    /\ devId \in {"none", "set", "freed"} /\ cache \in [Kind -> Value]
    /\ buf \in Message /\ mixed \subseteq Task \cup {"session"}
    /\ rxq \in Seq(Answer) /\ Len(rxq) <= RxCap
    /\ txq \in Seq(Message) /\ Len(txq) <= TxCap
    /\ spc \in {"prepare", "auth", "sendreg", "sendlogin", "sending"}
    /\ pc \in [Task -> {"idle", "check", "pack", "enqueue", "newid", "login",
                        "online", "load", "return"}]
    /\ kind \in [Task -> Kind] /\ val \in [Task -> Value]
    /\ sent \in 0..(Len(ReportOrder) - 1)
    /\ answers \in Seq(Answer) /\ view \in [Kind -> Value]
    /\ used \in Bounds
    /\ spoiled \subseteq Kind

\* The connection is up and the client task is not inside its handler.
Settled == client = "connected" /\ event = "none"

\* A session that is logged in has been accepted by the server on the present
\* connection; is_logged is only wrong when the answer of an earlier connection
\* was still in rx_rb or being processed when the connection changed
\* (app_websocket.c:432 against 99 and 105), never because it was left
\* uninitialised, kept over a reconnect or set by a refusal.
LoggedInHere == Settled /\ logged /\ ~late => served

\* When all reports have been delivered the server knows the cached values, but
\* for the kinds whose report was overwritten in ws_tx_buffer, dropped by a full
\* tx_rb, lost on a dying connection or overtaken by an older one.
ServerInStep ==
    /\ Settled /\ alive /\ logged /\ ~late
    /\ \A t \in Task : pc[t] = "idle"
    /\ txq = <<>>
    => \A k \in Kind \ spoiled : view[k] = cache[k]

\* Once network and transport stay up, the session is logged in for good; the
\* screen says so and the server has accepted it, unless the login answer was
\* that of an earlier connection.
SessionComesUp ==
    <>[](net /\ alive)
        => <>[](connected /\ logged /\ (~late => served /\ shown))

=============================================================================
