---------------------------- MODULE LampControl ----------------------------
(***************************************************************************)
(* The lamp, its mode and the tasks that change them.                      *)
(*                                                                         *)
(* Four FreeRTOS tasks call event_callback (main/app_main.c) synchronously *)
(* and without any lock, on two cores:                                     *)
(*   "gpio"      _gpio_task, samples the three-position switch;            *)
(*   "schedule"  _schedule_task, compares the clock with the active time;  *)
(*   "nextion"   _nextion_read_task, the on/off buttons of the screen;     *)
(*   "rx"        _rx_process_task, commands of the server.                 *)
(* A callback is a chain of calls; pc[t] is the next call of task t's      *)
(* chain and every call that touches shared state is one step, so chains   *)
(* of different tasks interleave between any two calls.                    *)
(*                                                                         *)
(* The mode is kept in four places (controller, nextion, schedule,         *)
(* websocket) and the state of the lamp in four (relay_state, two output   *)
(* pins, the websocket's cached copy).  dispatchAlone, drivenAlone and     *)
(* lateOn are history variables: no action reads them in a guard.          *)
(***************************************************************************)
EXTENDS Naturals

CONSTANTS MaxMoves,      \* how often the switch is moved
          MaxButtons,    \* how often a screen button is pressed
          MaxCommands,   \* how many commands the server sends
          MaxRestarts    \* how many noon restarts happen

ASSUME BoundsAreNat ==
    /\ MaxMoves \in Nat
    /\ MaxButtons \in Nat
    /\ MaxCommands \in Nat
    /\ MaxRestarts \in Nat

Task == {"gpio", "schedule", "nextion", "rx"}
Mode == {"off", "auto", "manual"}
\* handle->mode of the controller is read before it is first written
ModeValue == Mode \cup {"garbage"}
Pin == 1..2
Level == {0, 1}

\* What the clock says to _schedule_task.  "unknown": AWAIT(_sync_time) does not
\* return, the year is before 2021, or one end of the active time is not enabled.
Clock == {"unknown", "inside", "outside"}

\* The operation whose chain of calls a task is executing.
Op == {"none", "change", "trigger", "button", "control", "free"}

\* Control points: the calls of event_callback, CHANGE_MODE first, then those
\* of app_controller_control_relay, then the tail of the schedule's loop.
DispatchPC == {"set_nextion", "set_schedule", "set_websocket"}
DrivePC == {"store", "load1", "write1", "load2", "write2", "report"}
PC == {"idle", "sampled", "compare", "noon"} \cup DispatchPC \cup DrivePC

VARIABLES
    sw,          \* position of the switch
    clock,       \* what a look at the clock tells the schedule
    used,        \* events of the environment so far, against the Max bounds
    ready,       \* has app_main stored controller_handle?
    gpioMode,    \* `mode' of _gpio_task
    ctlMode,     \* controller handle->mode
    relayState,  \* controller handle->relay_state
    pins,        \* level of relay_1_pin and relay_2_pin
    nextMode,    \* nextion handle->mode
    schedMode,   \* schedule handle->mode
    wsMode,      \* websocket handle->mode
    wsPower,     \* websocket handle->power_state
    pc, op,      \* control point and operation of each task
    mode,        \* the mode a task is dispatching
    want,        \* is_active of the task's control_relay call (or its sample)
    level,       \* relay_state as loaded for gpio_set_level
    dispatchAlone, drivenAlone, lateOn

env    == <<sw, clock, used>>
lamp   == <<relayState, pins, wsPower>>
copies == <<nextMode, schedMode, wsMode>>
locals == <<pc, op, mode, want, level>>
ghost  == <<dispatchAlone, drivenAlone, lateOn>>
vars   == <<env, ready, gpioMode, ctlMode, lamp, copies, locals, ghost>>

Dispatching == {t \in Task : pc[t] \in DispatchPC
                          \/ op[t] \in {"change", "free"}}
Driving     == {t \in Task : pc[t] \in DrivePC}

-----------------------------------------------------------------------------
(* Boot: the state when app_controller_init has just created _gpio_task.    *)

AllTasks(x) == [t \in Task |-> x]

Init ==
    /\ sw \in Mode
    /\ clock \in Clock
    /\ used = [moves |-> 0, buttons |-> 0, commands |-> 0, restarts |-> 0]
    /\ ready = FALSE
    /\ gpioMode = "off"
    /\ ctlMode \in ModeValue
    /\ relayState = 0
    /\ pins = [i \in Pin |-> 0]
    /\ nextMode = "off" /\ schedMode = "off" /\ wsMode = "off"
    /\ wsPower = 0
    /\ pc = AllTasks("idle") /\ op = AllTasks("none")
    /\ mode = AllTasks("off")
    /\ want = AllTasks(0) /\ level = AllTasks(0)
    /\ dispatchAlone = TRUE /\ drivenAlone = TRUE
    /\ lateOn = AllTasks(0)

\* app_controller_init returns and app_main stores the handle.
ControllerReady ==
    /\ ~ready
    /\ ready' = TRUE
    /\ UNCHANGED <<env, gpioMode, ctlMode, lamp, copies, locals, ghost>>

-----------------------------------------------------------------------------
(* Environment.                                                            *)

MoveSwitch ==
    /\ used.moves < MaxMoves
    /\ \E m \in Mode \ {sw} : sw' = m
    /\ used' = [used EXCEPT !.moves = @ + 1]
    /\ UNCHANGED <<clock, ready, gpioMode, ctlMode, lamp, copies, locals, ghost>>

\* An edge of the active time passes, or the active time or the clock is set.
ClockCrossesBoundary ==
    /\ clock # "unknown"
    /\ clock' = IF clock = "inside" THEN "outside" ELSE "inside"
    /\ UNCHANGED <<sw, used, ready, gpioMode, ctlMode, lamp, copies, locals, ghost>>

\* is_sync is cleared and _sync_time has to search: it fails for as long as the
\* network is away and nobody owes it a time (module TimeSync).
SearchBegins ==
    /\ clock # "unknown"
    /\ clock' = "unknown"
    /\ UNCHANGED <<sw, used, ready, gpioMode, ctlMode, lamp, copies, locals, ghost>>

SearchEnds ==
    /\ clock = "unknown"
    /\ clock' \in Clock \ {"unknown"}
    /\ UNCHANGED <<sw, used, ready, gpioMode, ctlMode, lamp, copies, locals, ghost>>

-----------------------------------------------------------------------------
(* Starting and ending a chain of calls.                                   *)

Goto(t, l) == pc' = [pc EXCEPT ![t] = l]

\* A CHANGE_MODE dispatch of m by t begins; it is alone if nobody else's runs.
BeginDispatch(t, o, m) ==
    /\ Goto(t, "set_nextion")
    /\ op' = [op EXCEPT ![t] = o]
    /\ mode' = [mode EXCEPT ![t] = m]
    /\ dispatchAlone' = (Dispatching = {})

\* Where control_relay returns to: inside a dispatch, into the schedule's
\* loop, or out of the callback.
AfterRelay(t) == CASE op[t] \in {"change", "free"} -> "set_websocket"
                   [] op[t] = "trigger"            -> "noon"
                   [] OTHER                        -> "idle"

\* Where the CHANGE_MODE dispatch returns to.
AfterDispatch(t) == IF op[t] = "control" THEN "compare" ELSE "idle"

\* Leaving the callback also forgets the locals of the calls; a level that has
\* been written, and the schedule's verdict once it has been acted on, are
\* forgotten at once.
Return(t, l) ==
    /\ Goto(t, l)
    /\ IF l = "idle"
       THEN /\ op' = [op EXCEPT ![t] = "none"]
            /\ mode' = [mode EXCEPT ![t] = "off"]
            /\ want' = [want EXCEPT ![t] = 0]
            /\ level' = [level EXCEPT ![t] = 0]
       ELSE /\ want' = IF l = "noon" THEN [want EXCEPT ![t] = 0] ELSE want
            /\ UNCHANGED <<op, mode, level>>

-----------------------------------------------------------------------------
(* _gpio_task: sample the switch, store handle->mode, dispatch.            *)

\* Mutant: the local mode is taken back from the handle before it is stored.
SampleSwitchFromHandle ==
    /\ pc["gpio"] = "idle"
    /\ sw # gpioMode
    /\ gpioMode' = ctlMode
    /\ ctlMode' = sw
    /\ BeginDispatch("gpio", "change", sw)
    /\ UNCHANGED <<env, ready, lamp, copies,
                   want, level, drivenAlone, lateOn>>

\* Mutant: the OFF position, the else branch of the pin test, is forgotten.
SampleSwitchNeverOff ==
    /\ pc["gpio"] = "idle"
    /\ sw \notin {gpioMode, "off"}
    /\ gpioMode' = sw
    /\ ctlMode' = sw
    /\ BeginDispatch("gpio", "change", sw)
    /\ UNCHANGED <<env, ready, lamp, copies,
                   want, level, drivenAlone, lateOn>>

SampleSwitch ==
    /\ pc["gpio"] = "idle"
    /\ sw # gpioMode
    /\ gpioMode' = sw
    /\ ctlMode' = sw
    /\ BeginDispatch("gpio", "change", sw)
    /\ UNCHANGED <<env, ready, lamp, copies,
                   want, level, drivenAlone, lateOn>>

(* _schedule_task: the clock is read before the mode is looked at, and only *)
(* once _sync_time has returned and the year is plausible.                  *)

SampleClock ==
    /\ pc["schedule"] = "idle"
    /\ clock # "unknown"
    /\ Goto("schedule", "sampled")
    /\ want' = [want EXCEPT !["schedule"] = IF clock = "inside" THEN 1 ELSE 0]
    /\ UNCHANGED <<env, ready, gpioMode, ctlMode, lamp, copies, op, mode, level, ghost>>

\* Mutant: every mode but manual is taken for automatic.
CheckNotManual ==
    /\ pc["schedule"] = "sampled"
    /\ IF schedMode # "manual"
       THEN /\ Goto("schedule", "compare")
            /\ op' = [op EXCEPT !["schedule"] = "trigger"]
            /\ UNCHANGED <<mode, want, level>>
       ELSE Return("schedule", "idle")
    /\ UNCHANGED <<env, ready, gpioMode, ctlMode, lamp, copies, ghost>>

\* Mutant: outside the active time nothing is triggered.
CheckAutoNeverEnds ==
    /\ pc["schedule"] = "sampled"
    /\ IF schedMode = "auto" /\ want["schedule"] = 1
       THEN /\ Goto("schedule", "compare")
            /\ op' = [op EXCEPT !["schedule"] = "trigger"]
            /\ UNCHANGED <<mode, want, level>>
       ELSE Return("schedule", "idle")
    /\ UNCHANGED <<env, ready, gpioMode, ctlMode, lamp, copies, ghost>>

CheckAuto ==
    /\ pc["schedule"] = "sampled"
    /\ IF schedMode = "auto"
       THEN /\ Goto("schedule", "compare")
            /\ op' = [op EXCEPT !["schedule"] = "trigger"]
            /\ UNCHANGED <<mode, want, level>>
       ELSE Return("schedule", "idle")
    /\ UNCHANGED <<env, ready, gpioMode, ctlMode, lamp, copies, ghost>>

\* The tail of the loop: esp_restart between 12:00:00 and 12:00:02, which
\* leaves the output latches of the pins alone.
PassNoon ==
    /\ pc["schedule"] = "noon"
    /\ Return("schedule", "idle")
    /\ UNCHANGED <<env, ready, gpioMode, ctlMode, lamp, copies, ghost>>

Restart ==
    /\ pc["schedule"] = "noon"
    /\ used.restarts < MaxRestarts
    /\ used' = [used EXCEPT !.restarts = @ + 1]
    /\ ready' = FALSE
    /\ gpioMode' = "off"
    /\ ctlMode' \in ModeValue
    /\ relayState' = 0
    /\ nextMode' = "off" /\ schedMode' = "off" /\ wsMode' = "off"
    /\ wsPower' = 0
    /\ pc' = AllTasks("idle") /\ op' = AllTasks("none")
    /\ mode' = AllTasks("off")
    /\ want' = AllTasks(0) /\ level' = AllTasks(0)
    /\ dispatchAlone' = TRUE /\ drivenAlone' = FALSE
    /\ lateOn' = AllTasks(0)
    /\ UNCHANGED <<sw, clock, pins>>

(* _nextion_read_task: MANUAL_ON / MANUAL_OFF, in whatever mode.           *)

PressButton ==
    /\ pc["nextion"] = "idle"
    /\ used.buttons < MaxButtons
    /\ used' = [used EXCEPT !.buttons = @ + 1]
    /\ \E b \in Level : want' = [want EXCEPT !["nextion"] = b]
    /\ Goto("nextion", "compare")
    /\ op' = [op EXCEPT !["nextion"] = "button"]
    /\ UNCHANGED <<sw, clock, ready, gpioMode, ctlMode, lamp, copies,
                   mode, level, ghost>>

(* _rx_process_task: WEBSOCKET_ON_CONTROL and WEBSOCKET_ON_FREE.           *)

CommandArrives ==
    /\ pc["rx"] = "idle"
    /\ used.commands < MaxCommands
    /\ used' = [used EXCEPT !.commands = @ + 1]

\* app_controller_get_mode of a NULL handle is OFF and force_manual fails on
\* one, so nothing is controlled or released before the handle is stored.
RemoteRefused ==
    /\ CommandArrives
    /\ ~ready \/ ctlMode = "off"
    /\ UNCHANGED <<sw, clock, ready, gpioMode, ctlMode, lamp, copies, locals, ghost>>

RemoteControl ==
    /\ CommandArrives
    /\ ready /\ ctlMode # "off"
    /\ \E b \in Level : want' = [want EXCEPT !["rx"] = b]
    /\ BeginDispatch("rx", "control", "manual")
    /\ UNCHANGED <<sw, clock, ready, gpioMode, ctlMode, lamp, copies,
                   level, drivenAlone, lateOn>>

RemoteFree ==
    /\ CommandArrives
    /\ ready
    /\ BeginDispatch("rx", "free", ctlMode)
    /\ UNCHANGED <<sw, clock, ready, gpioMode, ctlMode, lamp, copies,
                   want, level, drivenAlone, lateOn>>

-----------------------------------------------------------------------------
(* APP_CONTROLLER_EVENT_CHANGE_MODE.                                       *)

\* Mutant: the manual mode does not reach the screen's handle.
SetNextionNotManual(t) ==
    /\ pc[t] = "set_nextion"
    /\ nextMode' = IF mode[t] = "manual" THEN nextMode ELSE mode[t]
    /\ Goto(t, "set_schedule")
    /\ UNCHANGED <<env, ready, gpioMode, ctlMode, lamp, schedMode, wsMode,
                   op, mode, want, level, ghost>>

SetNextion(t) ==
    /\ pc[t] = "set_nextion"
    /\ nextMode' = mode[t]
    /\ Goto(t, "set_schedule")
    /\ UNCHANGED <<env, ready, gpioMode, ctlMode, lamp, schedMode, wsMode,
                   op, mode, want, level, ghost>>

SetSchedule(t) ==
    /\ pc[t] = "set_schedule"
    /\ schedMode' = mode[t]
    /\ IF mode[t] = "off"
       THEN /\ Goto(t, "compare")
            /\ want' = [want EXCEPT ![t] = 0]
       ELSE /\ Goto(t, "set_websocket")
            /\ UNCHANGED want
    /\ UNCHANGED <<env, ready, gpioMode, ctlMode, lamp, nextMode, wsMode,
                   op, mode, level, ghost>>

SetWebsocket(t) ==
    /\ pc[t] = "set_websocket"
    /\ wsMode' = mode[t]
    /\ Return(t, AfterDispatch(t))
    /\ lateOn' = AllTasks(0)
    /\ UNCHANGED <<env, ready, gpioMode, ctlMode, lamp, nextMode, schedMode,
                   dispatchAlone, drivenAlone>>

-----------------------------------------------------------------------------
(* app_controller_control_relay(handle, want[t]).                          *)

Compare(t) ==
    /\ pc[t] = "compare"
    /\ IF ~ready \/ relayState = want[t]
       THEN /\ Return(t, AfterRelay(t))
            /\ UNCHANGED drivenAlone
       ELSE /\ Goto(t, "store")
            /\ drivenAlone' = (Driving = {})
            /\ UNCHANGED <<op, mode, want, level>>
    /\ UNCHANGED <<env, ready, gpioMode, ctlMode, lamp, copies,
                   dispatchAlone, lateOn>>

Store(t) ==
    /\ pc[t] = "store"
    /\ relayState' = want[t]
    /\ Goto(t, "load1")
    /\ lateOn' = IF want[t] = 1 /\ gpioMode = "off" /\ lateOn[t] < 2
                 THEN [lateOn EXCEPT ![t] = @ + 1] ELSE lateOn
    /\ UNCHANGED <<env, ready, gpioMode, ctlMode, pins, wsPower, copies,
                   op, mode, want, level, dispatchAlone, drivenAlone>>

\* gpio_set_level(pin, handle->relay_state): the argument is loaded, then the
\* level is written; another task may run in between.
LoadLevel(t, i) ==
    /\ pc[t] = IF i = 1 THEN "load1" ELSE "load2"
    /\ level' = [level EXCEPT ![t] = relayState]
    /\ Goto(t, IF i = 1 THEN "write1" ELSE "write2")
    /\ UNCHANGED <<env, ready, gpioMode, ctlMode, lamp, copies,
                   op, mode, want, ghost>>

\* Mutant: only relay_1_pin is driven.
WriteFirstLevel(t, i) ==
    /\ pc[t] = IF i = 1 THEN "write1" ELSE "write2"
    /\ level' = [level EXCEPT ![t] = 0]
    /\ pins' = [pins EXCEPT ![1] = level[t]]
    /\ Goto(t, IF i = 1 THEN "load2" ELSE "report")
    /\ UNCHANGED <<env, ready, gpioMode, ctlMode, relayState, wsPower, copies,
                   op, mode, want, ghost>>

WriteLevel(t, i) ==
    /\ pc[t] = IF i = 1 THEN "write1" ELSE "write2"
    /\ level' = [level EXCEPT ![t] = 0]
    /\ pins' = [pins EXCEPT ![i] = level[t]]
    /\ Goto(t, IF i = 1 THEN "load2" ELSE "report")
    /\ UNCHANGED <<env, ready, gpioMode, ctlMode, relayState, wsPower, copies,
                   op, mode, want, ghost>>

\* APP_CONTROLLER_EVENT_CHANGE_POWER -> app_websocket_update_power_state.
Report(t) ==
    /\ pc[t] = "report"
    /\ wsPower' = want[t]
    /\ Return(t, AfterRelay(t))
    /\ UNCHANGED <<env, ready, gpioMode, ctlMode, relayState, pins, copies, ghost>>

-----------------------------------------------------------------------------
\* One call of the chain task t is executing.
ChainStep(t) ==
    \/ SetNextion(t)
    \/ SetSchedule(t)
    \/ SetWebsocket(t)
    \/ Compare(t)
    \/ Store(t)
    \/ \E i \in Pin : LoadLevel(t, i) \/ WriteLevel(t, i)
    \/ Report(t)

ScheduleLoop == SampleClock \/ CheckAuto \/ PassNoon

Next ==
    \/ ControllerReady
    \/ MoveSwitch
    \/ ClockCrossesBoundary
    \/ SearchBegins
    \/ SearchEnds
    \/ SampleSwitch
    \/ ScheduleLoop
    \/ Restart
    \/ PressButton
    \/ RemoteRefused
    \/ RemoteControl
    \/ RemoteFree
    \/ \E t \in Task : ChainStep(t)

Spec == Init /\ [][Next]_vars

\* Every task is scheduled again and again (each one sleeps in its loop); the
\* switch, the buttons, the server and the clock owe nothing.  In particular
\* SearchEnds is not fair: the schedule may wait in _sync_time for good.
Fairness ==
    /\ WF_vars(ControllerReady)
    /\ WF_vars(SampleSwitch)
    /\ WF_vars(ScheduleLoop)
    /\ \A t \in Task : WF_vars(ChainStep(t))

FairSpec == Spec /\ Fairness

-----------------------------------------------------------------------------
\* The type of every variable.
TypeOK ==
    /\ sw \in Mode /\ clock \in Clock
    /\ used \in [moves : 0..MaxMoves, buttons : 0..MaxButtons,
                 commands : 0..MaxCommands, restarts : 0..MaxRestarts]
    /\ ready \in BOOLEAN
    /\ gpioMode \in Mode /\ ctlMode \in ModeValue
    /\ relayState \in Level /\ pins \in [Pin -> Level]
    /\ nextMode \in ModeValue /\ schedMode \in ModeValue /\ wsMode \in ModeValue
    /\ wsPower \in Level
    /\ pc \in [Task -> PC] /\ op \in [Task -> Op]
    /\ mode \in [Task -> ModeValue]
    /\ want \in [Task -> Level] /\ level \in [Task -> Level]
    /\ dispatchAlone \in BOOLEAN /\ drivenAlone \in BOOLEAN
    /\ lateOn \in [Task -> 0..2]

\* Both relay pins carry relay_state, and the websocket caches it, whenever no
\* task is inside control_relay and the last one in there was alone: the only
\* ways to a lamp that differs from what the firmware believes are two
\* overlapping control_relay calls (app_controller.c:117-121) and the noon
\* restart, after which relay_state is 0 while the pins keep their level.
LampMatchesRelayState ==
    Driving = {} /\ drivenAlone =>
        /\ \A i \in Pin : pins[i] = relayState
        /\ wsPower = relayState

\* Screen, schedule and websocket hold the same mode whenever no CHANGE_MODE
\* dispatch is running and the last one began alone and stayed alone; that
\* mode is the controller's or the manual mode forced by the server.  The one
\* exception is a controller that has not seen the switch move since boot.
ModeCopiesAgree ==
    Dispatching = {} /\ dispatchAlone =>
        /\ nextMode = schedMode /\ wsMode = schedMode
        /\ schedMode \in {ctlMode, gpioMode, "manual"}

\* Everybody has been told, undisturbed, that the switch is off.
SwitchedOff ==
    gpioMode = "off" /\ ctlMode = "off" /\ Dispatching = {} /\ dispatchAlone

\* After a dispatch has told everybody that the switch is off, the schedule and
\* the server can each light the lamp at most once more, by the one command
\* that had passed its mode check before (app_schedule.c:264 against 282,
\* app_main.c:79 against 83).
AtMostOneLateOn == SwitchedOff => lateOn["schedule"] <= 1 /\ lateOn["rx"] <= 1

-----------------------------------------------------------------------------
(* The three invariants above made inductive.                              *)

\* How far an undisturbed control_relay call of t has come.
DriveProgress(t) ==
    /\ pc[t] \in DrivePC \ {"store"} => relayState = want[t]
    /\ pc[t] \in {"write1", "write2"} => level[t] = relayState
    /\ pc[t] \in {"load2", "write2", "report"} => pins[1] = relayState
    /\ pc[t] = "report" => pins[2] = relayState

DriveInv ==
    drivenAlone =>
        /\ \A t, u \in Driving : t = u
        /\ \A t \in Driving : DriveProgress(t)
        /\ Driving = {} => /\ \A i \in Pin : pins[i] = relayState
                          /\ wsPower = relayState

\* Which operations a control point belongs to.
ChainInv ==
    \A t \in Task :
        /\ pc[t] \in {"idle", "sampled"} => op[t] = "none"
        /\ pc[t] = "noon" => op[t] = "trigger"
        /\ pc[t] \in DispatchPC => op[t] \in {"change", "free", "control"}
        /\ pc[t] \in DispatchPC /\ op[t] = "control" => mode[t] = "manual"
        /\ op[t] = "trigger" => t = "schedule"
        /\ op[t] \in {"free", "control"} => t = "rx"

\* How far an undisturbed dispatch of t has come.
DispatchProgress(t) ==
    /\ mode[t] \in {ctlMode, gpioMode, "manual"}
    /\ pc[t] # "set_nextion" => nextMode = mode[t]
    /\ pc[t] \notin {"set_nextion", "set_schedule"} => schedMode = mode[t]

DispatchInv ==
    dispatchAlone =>
        /\ \A t, u \in Dispatching : t = u
        /\ \A t \in Dispatching : DispatchProgress(t)
        /\ Dispatching = {} => /\ nextMode = schedMode /\ wsMode = schedMode
                              /\ schedMode \in {ctlMode, gpioMode, "manual"}

\* Commands to light the lamp that have passed their mode check.
Pending(t) == IF pc[t] \in {"compare", "store"} /\ want[t] = 1 THEN 1 ELSE 0

LateOnInv ==
    SwitchedOff => \A t \in {"schedule", "rx"} : lateOn[t] + Pending(t) <= 1

\* When the schedule stays in automatic mode, a time is known and it stays on one
\* side of the active time, relay_state ends up on that side, whatever the
\* buttons, the server, the searches for a time and the races did before.  A
\* schedule that waits in _sync_time for good (app_schedule.c:224) promises
\* nothing: relay_state stays what it is.
AutoFollowsWindow ==
    /\ <>[](schedMode = "auto" /\ clock = "inside") => <>[](relayState = 1)
    /\ <>[](schedMode = "auto" /\ clock = "outside") => <>[](relayState = 0)

\* A lamp that differs from relay_state does not survive: once the schedule is
\* in control and keeps switching, the pins carry relay_state again.
PinsHeal ==
    <>[](schedMode = "auto") /\ []<>(relayState = 1) /\ []<>(relayState = 0)
        => <>[](Driving = {} => \A i \in Pin : pins[i] = relayState)

\* Without a server a resting switch determines the mode of the screen, the
\* schedule and the websocket.
SwitchWins ==
    \A m \in Mode : <>[](sw = m)
        => <>[](nextMode = m /\ schedMode = m /\ wsMode = m)

=============================================================================
