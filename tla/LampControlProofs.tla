------------------------- MODULE LampControlProofs -------------------------
(***************************************************************************)
(* Proofs about LampControl, for every value of its bounds.                *)
(***************************************************************************)
EXTENDS LampControl, TLAPS

USE DEF Task, Mode, ModeValue, Clock, Pin, Level, Op, DispatchPC, DrivePC, PC

\* What Init and Restart give every task is well typed.
LEMMA BootTypes ==
    /\ AllTasks("idle") \in [Task -> PC]
    /\ AllTasks("none") \in [Task -> Op]
    /\ AllTasks("off") \in [Task -> ModeValue]
    /\ AllTasks(0) \in [Task -> Level]
    /\ AllTasks(0) \in [Task -> 0..2]
  BY DEF AllTasks

\* The boot state of app_main is well typed.
LEMMA InitTypeOK == Init => TypeOK
<1> SUFFICES ASSUME Init PROVE TypeOK
  OBVIOUS
<1>1. used \in [moves : 0..MaxMoves, buttons : 0..MaxButtons,
                commands : 0..MaxCommands, restarts : 0..MaxRestarts]
  BY BoundsAreNat DEF Init
<1>2. pins \in [Pin -> Level]
  BY DEF Init
<1>3. QED
  BY <1>1, <1>2, BootTypes DEF Init, TypeOK

\* A return keeps the locals of the tasks well typed.
LEMMA ReturnType ==
    ASSUME TypeOK, NEW t \in Task, NEW l \in PC, Return(t, l)
    PROVE  /\ pc' \in [Task -> PC] /\ op' \in [Task -> Op]
           /\ mode' \in [Task -> ModeValue]
           /\ want' \in [Task -> Level] /\ level' \in [Task -> Level]
  BY DEF TypeOK, Return, Goto

\* Every call of every task keeps the variables well typed.
LEMMA NextTypeOK == TypeOK /\ [Next]_vars => TypeOK'
<1> SUFFICES ASSUME TypeOK, [Next]_vars PROVE TypeOK'
  OBVIOUS
<1> USE BoundsAreNat DEF env, lamp, copies, locals, ghost
<1>1. CASE ControllerReady
  BY <1>1 DEF ControllerReady, TypeOK
<1>2. CASE MoveSwitch
  BY <1>2 DEF MoveSwitch, TypeOK
<1>3. CASE ClockCrossesBoundary
  BY <1>3 DEF ClockCrossesBoundary, TypeOK
<1>3a. CASE SearchBegins
  BY <1>3a DEF SearchBegins, TypeOK
<1>3b. CASE SearchEnds
  BY <1>3b DEF SearchEnds, TypeOK
<1>4. CASE SampleSwitch
  BY <1>4 DEF SampleSwitch, BeginDispatch, Goto, TypeOK
<1>5. CASE SampleClock
  BY <1>5 DEF SampleClock, Goto, TypeOK
<1>6. CASE CheckAuto
  BY <1>6 DEF CheckAuto, Return, Goto, TypeOK
<1>7. CASE PassNoon
  BY <1>7 DEF PassNoon, Return, Goto, TypeOK
<1>8. CASE Restart
  <2>1. used' \in [moves : 0..MaxMoves, buttons : 0..MaxButtons,
                   commands : 0..MaxCommands, restarts : 0..MaxRestarts]
    BY <1>8 DEF Restart, TypeOK
  <2>2. QED
    BY <1>8, <2>1, BootTypes DEF Restart, TypeOK
<1>9. CASE PressButton
  BY <1>9 DEF PressButton, Goto, TypeOK
<1>10. CASE RemoteRefused
  BY <1>10 DEF RemoteRefused, CommandArrives, TypeOK
<1>11. CASE RemoteControl
  BY <1>11 DEF RemoteControl, CommandArrives, BeginDispatch, Goto, TypeOK
<1>12. CASE RemoteFree
  BY <1>12 DEF RemoteFree, CommandArrives, BeginDispatch, Goto, TypeOK
<1>13. ASSUME NEW t \in Task, ChainStep(t) PROVE TypeOK'
  <2>1. CASE SetNextion(t)
    BY <2>1 DEF SetNextion, Goto, TypeOK
  <2>2. CASE SetSchedule(t)
    BY <2>2 DEF SetSchedule, Goto, TypeOK
  <2>3. CASE SetWebsocket(t)
    BY <2>3 DEF SetWebsocket, Return, AfterDispatch, AllTasks, Goto, TypeOK
  <2>4. CASE Compare(t)
    <3>1. AfterRelay(t) \in PC
      BY DEF AfterRelay
    <3>2. CASE ~ready \/ relayState = want[t]
      <4>1. /\ pc' \in [Task -> PC] /\ op' \in [Task -> Op]
            /\ mode' \in [Task -> ModeValue]
            /\ want' \in [Task -> Level] /\ level' \in [Task -> Level]
        BY <2>4, <3>2, <3>1, ReturnType DEF Compare
      <4>2. QED
        BY <2>4, <3>2, <4>1 DEF Compare, TypeOK
    <3>3. CASE ~(~ready \/ relayState = want[t])
      BY <2>4, <3>3 DEF Compare, Goto, TypeOK
    <3>4. QED
      BY <3>2, <3>3
  <2>5. CASE Store(t)
    BY <2>5 DEF Store, Goto, TypeOK
  <2>6. ASSUME NEW i \in Pin, LoadLevel(t, i) PROVE TypeOK'
    BY <2>6 DEF LoadLevel, Goto, TypeOK
  <2>7. ASSUME NEW i \in Pin, WriteLevel(t, i) PROVE TypeOK'
    BY <2>7 DEF WriteLevel, Goto, TypeOK
  <2>8. CASE Report(t)
    <3>1. AfterRelay(t) \in PC
      BY DEF AfterRelay
    <3>2. /\ pc' \in [Task -> PC] /\ op' \in [Task -> Op]
          /\ mode' \in [Task -> ModeValue]
          /\ want' \in [Task -> Level] /\ level' \in [Task -> Level]
      BY <2>8, <3>1, ReturnType DEF Report
    <3>3. QED
      BY <2>8, <3>2 DEF Report, TypeOK
  <2>9. QED
    BY <1>13, <2>1, <2>2, <2>3, <2>4, <2>5, <2>6, <2>7, <2>8 DEF ChainStep
<1>14. CASE UNCHANGED vars
  BY <1>14 DEF vars, TypeOK
<1>15. QED
  BY <1>1, <1>2, <1>3, <1>3a, <1>3b, <1>4, <1>5, <1>6, <1>7, <1>8, <1>9,
     <1>10, <1>11, <1>12, <1>13, <1>14 DEF Next, ScheduleLoop

\* Every variable keeps its type: no chain of calls leaves the control points
\* of event_callback, and no copy of the mode holds anything but a mode or the
\* uninitialised word of the controller.
THEOREM TypeCorrect == Spec => []TypeOK
  BY InitTypeOK, NextTypeOK, PTL DEF Spec

-----------------------------------------------------------------------------
(* The lamp: DriveInv.                                                     *)

\* A step of a task that is outside control_relay before and after.
LEMMA DriveFrame ==
    ASSUME DriveInv, NEW t \in Task,
           pc[t] \notin DrivePC, pc'[t] \notin DrivePC,
           \A u \in Task \ {t} : /\ pc'[u] = pc[u] /\ want'[u] = want[u]
                                /\ level'[u] = level[u],
           UNCHANGED <<relayState, pins, wsPower, drivenAlone>>
    PROVE  DriveInv'
<1>1. Driving' = Driving /\ t \notin Driving
  BY DEF Driving
<1>2. \A u \in Driving : DriveProgress(u)' <=> DriveProgress(u)
  BY <1>1 DEF Driving, DriveProgress
<1>3. QED
  BY <1>1, <1>2 DEF DriveInv

\* No step of any task breaks what an undisturbed control_relay establishes.
LEMMA DriveInvNext == TypeOK /\ DriveInv /\ [Next]_vars => DriveInv'
<1> SUFFICES ASSUME TypeOK, DriveInv, [Next]_vars PROVE DriveInv'
  OBVIOUS
<1> USE DEF env, lamp, copies, locals, ghost
<1>1. CASE UNCHANGED <<relayState, pins, wsPower, pc, want, level, drivenAlone>>
  BY <1>1 DEF DriveInv, DriveProgress, Driving
<1>2. CASE SampleSwitch
  BY <1>2, DriveFrame DEF SampleSwitch, BeginDispatch, Goto, TypeOK
<1>3. CASE SampleClock
  BY <1>3, DriveFrame DEF SampleClock, Goto, TypeOK
<1>4. CASE CheckAuto
  BY <1>4, DriveFrame DEF CheckAuto, Return, Goto, TypeOK
<1>5. CASE PassNoon
  BY <1>5, DriveFrame DEF PassNoon, Return, Goto, TypeOK
<1>6. CASE Restart
  BY <1>6 DEF Restart, DriveInv
<1>7. CASE PressButton
  BY <1>7, DriveFrame DEF PressButton, Goto, TypeOK
<1>8. CASE RemoteControl
  BY <1>8, DriveFrame DEF RemoteControl, CommandArrives, BeginDispatch, Goto, TypeOK
<1>9. CASE RemoteFree
  BY <1>9, DriveFrame DEF RemoteFree, CommandArrives, BeginDispatch, Goto, TypeOK
<1>10. ASSUME NEW t \in Task, ChainStep(t) PROVE DriveInv'
  <2>1. CASE SetNextion(t)
    BY <2>1, DriveFrame DEF SetNextion, Goto, TypeOK
  <2>2. CASE SetSchedule(t)
    BY <2>2, DriveFrame DEF SetSchedule, Goto, TypeOK
  <2>3. CASE SetWebsocket(t)
    BY <2>3, DriveFrame DEF SetWebsocket, Return, AfterDispatch, Goto, TypeOK
  <2>4. CASE Compare(t)
    <3>1. AfterRelay(t) \in PC \ DrivePC
      BY DEF AfterRelay
    <3>2. CASE ~ready \/ relayState = want[t]
      BY <2>4, <3>1, <3>2, DriveFrame DEF Compare, Return, Goto, TypeOK
    <3>3. CASE ~(~ready \/ relayState = want[t])
      <4>1. /\ pc' = [pc EXCEPT ![t] = "store"]
            /\ drivenAlone' = (Driving = {})
        BY <2>4, <3>3 DEF Compare, Goto
      <4>2. Driving' = Driving \cup {t}
        BY <4>1 DEF Driving, TypeOK
      <4>3. pc'[t] = "store"
        BY <4>1 DEF TypeOK
      <4>4. QED
        BY <4>1, <4>2, <4>3 DEF DriveInv, DriveProgress
    <3>4. QED
      BY <3>2, <3>3
  <2>5. CASE Store(t)
    <3>1. Driving' = Driving /\ t \in Driving /\ drivenAlone' = drivenAlone
      BY <2>5 DEF Store, Goto, Driving, TypeOK
    <3>2. DriveProgress(t)'
      BY <2>5 DEF Store, Goto, DriveProgress, TypeOK
    <3>3. QED
      BY <3>1, <3>2 DEF DriveInv
  <2>6. ASSUME NEW i \in Pin, LoadLevel(t, i) PROVE DriveInv'
    <3>1. Driving' = Driving /\ t \in Driving /\ drivenAlone' = drivenAlone
      BY <2>6 DEF LoadLevel, Goto, Driving, TypeOK
    <3>2. DriveProgress(t) => DriveProgress(t)'
      BY <2>6 DEF LoadLevel, Goto, DriveProgress, TypeOK
    <3>3. QED
      BY <3>1, <3>2 DEF DriveInv
  <2>7. ASSUME NEW i \in Pin, WriteLevel(t, i) PROVE DriveInv'
    <3>1. Driving' = Driving /\ t \in Driving /\ drivenAlone' = drivenAlone
      BY <2>7 DEF WriteLevel, Goto, Driving, TypeOK
    <3>2. DriveProgress(t) => DriveProgress(t)'
      BY <2>7 DEF WriteLevel, Goto, DriveProgress, TypeOK
    <3>3. QED
      BY <3>1, <3>2 DEF DriveInv
  <2>8. CASE Report(t)
    <3>1. AfterRelay(t) \in PC \ DrivePC
      BY DEF AfterRelay
    <3>2. pc' = [pc EXCEPT ![t] = AfterRelay(t)]
      BY <2>8 DEF Report, Return, Goto
    <3>3. Driving' = Driving \ {t} /\ t \in Driving
      BY <2>8, <3>1, <3>2 DEF Report, Driving, TypeOK
    <3>4. DriveProgress(t) => /\ \A i \in Pin : pins'[i] = relayState'
                              /\ wsPower' = relayState'
      BY <2>8 DEF Report, DriveProgress, TypeOK
    <3>5. drivenAlone' = drivenAlone
      BY <2>8 DEF Report
    <3>6. QED
      BY <3>3, <3>4, <3>5 DEF DriveInv
  <2>9. QED
    BY <1>10, <2>1, <2>2, <2>3, <2>4, <2>5, <2>6, <2>7, <2>8 DEF ChainStep
<1>11. QED
  BY <1>1, <1>2, <1>3, <1>4, <1>5, <1>6, <1>7, <1>8, <1>9, <1>10
     DEF Next, ScheduleLoop, vars, ControllerReady, MoveSwitch,
         ClockCrossesBoundary, SearchBegins, SearchEnds, RemoteRefused

\* Whatever the tasks interleave, a lamp that differs from relay_state, or a
\* cached power state that differs from it, means that two control_relay calls
\* overlapped or that the device restarted, and that nobody has changed the
\* relay undisturbed since.
THEOREM LampMatches == Spec => []LampMatchesRelayState
<1>1. Init => DriveInv
  BY DEF Init, AllTasks, DriveInv, DriveProgress, Driving
<1>2. DriveInv => LampMatchesRelayState
  BY DEF DriveInv, LampMatchesRelayState
<1>3. QED
  BY <1>1, <1>2, TypeCorrect, DriveInvNext, PTL DEF Spec

-----------------------------------------------------------------------------
(* The mode: ChainInv and DispatchInv.                                     *)

\* No step leaves a task at a control point of another operation's chain.
LEMMA ChainInvNext == TypeOK /\ ChainInv /\ [Next]_vars => ChainInv'
<1> SUFFICES ASSUME TypeOK, ChainInv, [Next]_vars PROVE ChainInv'
  OBVIOUS
<1> USE DEF env, lamp, copies, locals, ghost
<1>1. CASE UNCHANGED <<pc, op, mode>>
  BY <1>1 DEF ChainInv
<1>2. CASE SampleSwitch
  BY <1>2 DEF SampleSwitch, BeginDispatch, Goto, ChainInv, TypeOK
<1>3. CASE SampleClock
  BY <1>3 DEF SampleClock, Goto, ChainInv, TypeOK
<1>4. CASE CheckAuto
  BY <1>4 DEF CheckAuto, Return, Goto, ChainInv, TypeOK
<1>5. CASE PassNoon
  BY <1>5 DEF PassNoon, Return, Goto, ChainInv, TypeOK
<1>6. CASE Restart
  BY <1>6 DEF Restart, AllTasks, ChainInv
<1>7. CASE PressButton
  BY <1>7 DEF PressButton, Goto, ChainInv, TypeOK
<1>8. CASE RemoteControl
  BY <1>8 DEF RemoteControl, CommandArrives, BeginDispatch, Goto, ChainInv, TypeOK
<1>9. CASE RemoteFree
  BY <1>9 DEF RemoteFree, CommandArrives, BeginDispatch, Goto, ChainInv, TypeOK
<1>10. ASSUME NEW t \in Task, ChainStep(t) PROVE ChainInv'
  <2>1. CASE SetNextion(t)
    BY <2>1 DEF SetNextion, Goto, ChainInv, TypeOK
  <2>2. CASE SetSchedule(t)
    BY <2>2 DEF SetSchedule, Goto, ChainInv, TypeOK
  <2>3. CASE SetWebsocket(t)
    BY <2>3 DEF SetWebsocket, Return, AfterDispatch, Goto, ChainInv, TypeOK
  <2>4. CASE Compare(t)
    BY <2>4 DEF Compare, Return, AfterRelay, Goto, ChainInv, TypeOK
  <2>5. CASE Store(t)
    BY <2>5 DEF Store, Goto, ChainInv, TypeOK
  <2>6. ASSUME NEW i \in Pin, LoadLevel(t, i) PROVE ChainInv'
    BY <2>6 DEF LoadLevel, Goto, ChainInv, TypeOK
  <2>7. ASSUME NEW i \in Pin, WriteLevel(t, i) PROVE ChainInv'
    BY <2>7 DEF WriteLevel, Goto, ChainInv, TypeOK
  <2>8. CASE Report(t)
    BY <2>8 DEF Report, Return, AfterRelay, Goto, ChainInv, TypeOK
  <2>9. QED
    BY <1>10, <2>1, <2>2, <2>3, <2>4, <2>5, <2>6, <2>7, <2>8 DEF ChainStep
<1>11. QED
  BY <1>1, <1>2, <1>3, <1>4, <1>5, <1>6, <1>7, <1>8, <1>9, <1>10
     DEF Next, ScheduleLoop, vars, ControllerReady, MoveSwitch,
         ClockCrossesBoundary, SearchBegins, SearchEnds, RemoteRefused

\* A control point belongs to the operation a task is executing: triggers are
\* the schedule's, remote control and free the receiver's (app_main.c:73-90,
\* 218-227).
THEOREM ChainCorrect == Spec => []ChainInv
<1>1. Init => ChainInv
  BY DEF Init, AllTasks, ChainInv
<1>2. QED
  BY <1>1, TypeCorrect, ChainInvNext, PTL DEF Spec

\* A step that neither starts, advances nor ends a dispatch.
LEMMA DispatchFrame ==
    ASSUME DispatchInv, Dispatching' = Dispatching,
           \A u \in Dispatching :
               /\ mode'[u] = mode[u]
               /\ pc'[u] = "set_nextion" <=> pc[u] = "set_nextion"
               /\ pc'[u] = "set_schedule" <=> pc[u] = "set_schedule",
           UNCHANGED <<nextMode, schedMode, wsMode, ctlMode, gpioMode, dispatchAlone>>
    PROVE  DispatchInv'
<1>1. \A u \in Dispatching : DispatchProgress(u)' <=> DispatchProgress(u)
  BY DEF DispatchProgress
<1>2. QED
  BY <1>1 DEF DispatchInv

\* The beginning of a dispatch of the controller's mode or of manual.
LEMMA DispatchBegins ==
    ASSUME TypeOK, NEW t \in Task, NEW o \in {"change", "free", "control"},
           NEW m \in {ctlMode', gpioMode', "manual"}, BeginDispatch(t, o, m)
    PROVE  DispatchInv'
<1>1. Dispatching' = Dispatching \cup {t}
  BY DEF Dispatching, BeginDispatch, Goto, TypeOK
<1>2. dispatchAlone' = (Dispatching = {})
  BY DEF BeginDispatch
<1>3. pc'[t] = "set_nextion" /\ mode'[t] = m
  BY DEF BeginDispatch, Goto, TypeOK
<1>4. DispatchProgress(t)'
  BY <1>3 DEF DispatchProgress
<1>5. QED
  BY <1>1, <1>2, <1>4 DEF DispatchInv

\* No step of any task breaks what an undisturbed CHANGE_MODE establishes.
LEMMA DispatchInvNext ==
    TypeOK /\ ChainInv /\ DispatchInv /\ [Next]_vars => DispatchInv'
<1> SUFFICES ASSUME TypeOK, ChainInv, DispatchInv, [Next]_vars PROVE DispatchInv'
  OBVIOUS
<1> USE DEF env, lamp, copies, locals, ghost
<1>1. CASE UNCHANGED <<copies, ctlMode, gpioMode, pc, op, mode, dispatchAlone>>
  BY <1>1 DEF DispatchInv, DispatchProgress, Dispatching
<1>2. CASE SampleSwitch
  BY <1>2, DispatchBegins DEF SampleSwitch
<1>3. CASE SampleClock
  <2>1. Dispatching' = Dispatching /\ "schedule" \notin Dispatching
    BY <1>3 DEF SampleClock, Goto, ChainInv, Dispatching, TypeOK
  <2>2. QED
    BY <1>3, <2>1, DispatchFrame DEF SampleClock, Goto, Dispatching, TypeOK
<1>4. CASE CheckAuto
  <2>1. Dispatching' = Dispatching /\ "schedule" \notin Dispatching
    BY <1>4 DEF CheckAuto, Return, Goto, ChainInv, Dispatching, TypeOK
  <2>2. QED
    BY <1>4, <2>1, DispatchFrame DEF CheckAuto, Return, Goto, Dispatching, TypeOK
<1>5. CASE PassNoon
  <2>1. Dispatching' = Dispatching /\ "schedule" \notin Dispatching
    BY <1>5 DEF PassNoon, Return, Goto, ChainInv, Dispatching, TypeOK
  <2>2. QED
    BY <1>5, <2>1, DispatchFrame DEF PassNoon, Return, Goto, Dispatching, TypeOK
<1>6. CASE Restart
  BY <1>6 DEF Restart, AllTasks, DispatchInv, Dispatching
<1>7. CASE PressButton
  <2>1. Dispatching' = Dispatching /\ "nextion" \notin Dispatching
    BY <1>7 DEF PressButton, Goto, ChainInv, Dispatching, TypeOK
  <2>2. QED
    BY <1>7, <2>1, DispatchFrame DEF PressButton, Goto, Dispatching, TypeOK
<1>8. CASE RemoteControl
  BY <1>8, DispatchBegins DEF RemoteControl
<1>9. CASE RemoteFree
  BY <1>9, DispatchBegins DEF RemoteFree
<1>10. ASSUME NEW t \in Task, ChainStep(t) PROVE DispatchInv'
  <2>1. CASE SetNextion(t)
    <3>1. Dispatching' = Dispatching /\ t \in Dispatching
      BY <2>1 DEF SetNextion, Goto, Dispatching, TypeOK
    <3>2. DispatchProgress(t) => DispatchProgress(t)'
      BY <2>1 DEF SetNextion, Goto, DispatchProgress, TypeOK
    <3>3. dispatchAlone' = dispatchAlone
      BY <2>1 DEF SetNextion
    <3>4. QED
      BY <3>1, <3>2, <3>3 DEF DispatchInv
  <2>2. CASE SetSchedule(t)
    <3>1. Dispatching' = Dispatching /\ t \in Dispatching
      BY <2>2 DEF SetSchedule, Goto, ChainInv, Dispatching, TypeOK
    <3>2. DispatchProgress(t) => DispatchProgress(t)'
      BY <2>2 DEF SetSchedule, Goto, DispatchProgress, TypeOK
    <3>3. dispatchAlone' = dispatchAlone
      BY <2>2 DEF SetSchedule
    <3>4. QED
      BY <3>1, <3>2, <3>3 DEF DispatchInv
  <2>3. CASE SetWebsocket(t)
    <3>1. pc' = [pc EXCEPT ![t] = AfterDispatch(t)] /\ dispatchAlone' = dispatchAlone
      BY <2>3 DEF SetWebsocket, Return, Goto
    <3>2. Dispatching' = Dispatching \ {t} /\ t \in Dispatching
      BY <2>3, <3>1 DEF SetWebsocket, Return, AfterDispatch, ChainInv, Dispatching, TypeOK
    <3>3. DispatchProgress(t) => /\ nextMode' = schedMode' /\ wsMode' = schedMode'
                                 /\ schedMode' \in {ctlMode', gpioMode', "manual"}
      BY <2>3 DEF SetWebsocket, DispatchProgress
    <3>4. QED
      BY <3>1, <3>2, <3>3 DEF DispatchInv
  <2>4. CASE Compare(t)
    <3>1. Dispatching' = Dispatching
      BY <2>4 DEF Compare, Return, AfterRelay, Goto, ChainInv, Dispatching, TypeOK
    <3>2. QED
      BY <2>4, <3>1, DispatchFrame
         DEF Compare, Return, AfterRelay, Goto, Dispatching, TypeOK
  <2>5. CASE Store(t)
    <3>1. Dispatching' = Dispatching
      BY <2>5 DEF Store, Goto, Dispatching, TypeOK
    <3>2. QED
      BY <2>5, <3>1, DispatchFrame DEF Store, Goto, Dispatching, TypeOK
  <2>6. ASSUME NEW i \in Pin, LoadLevel(t, i) PROVE DispatchInv'
    <3>1. Dispatching' = Dispatching
      BY <2>6 DEF LoadLevel, Goto, Dispatching, TypeOK
    <3>2. QED
      BY <2>6, <3>1, DispatchFrame DEF LoadLevel, Goto, Dispatching, TypeOK
  <2>7. ASSUME NEW i \in Pin, WriteLevel(t, i) PROVE DispatchInv'
    <3>1. Dispatching' = Dispatching
      BY <2>7 DEF WriteLevel, Goto, Dispatching, TypeOK
    <3>2. QED
      BY <2>7, <3>1, DispatchFrame DEF WriteLevel, Goto, Dispatching, TypeOK
  <2>8. CASE Report(t)
    <3>1. Dispatching' = Dispatching
      BY <2>8 DEF Report, Return, AfterRelay, Goto, ChainInv, Dispatching, TypeOK
    <3>2. QED
      BY <2>8, <3>1, DispatchFrame
         DEF Report, Return, AfterRelay, Goto, Dispatching, TypeOK
  <2>9. QED
    BY <1>10, <2>1, <2>2, <2>3, <2>4, <2>5, <2>6, <2>7, <2>8 DEF ChainStep
<1>11. QED
  BY <1>1, <1>2, <1>3, <1>4, <1>5, <1>6, <1>7, <1>8, <1>9, <1>10
     DEF Next, ScheduleLoop, vars, ControllerReady, MoveSwitch,
         ClockCrossesBoundary, SearchBegins, SearchEnds, RemoteRefused

\* Whatever the tasks interleave, disagreement between the modes of screen,
\* schedule and websocket, or a mode that is neither the controller's nor the
\* forced manual one, means that two CHANGE_MODE dispatches overlapped.
THEOREM ModeCopies == Spec => []ModeCopiesAgree
<1>1. Init => DispatchInv
  BY DEF Init, AllTasks, DispatchInv, DispatchProgress, Dispatching
<1>2. DispatchInv => ModeCopiesAgree
  BY DEF DispatchInv, ModeCopiesAgree
<1>3. QED
  BY <1>1, <1>2, TypeCorrect, ChainCorrect, DispatchInvNext, PTL DEF Spec

-----------------------------------------------------------------------------
(* Lighting the lamp with the switch off: LateOnInv.                       *)

\* With the switch off a step that lets no command past its mode check, and
\* counts the ones that light the lamp, preserves the bound.
LEMMA LateOnFrame ==
    ASSUME LateOnInv, SwitchedOff' => SwitchedOff,
           SwitchedOff => \A t \in {"schedule", "rx"} :
               lateOn[t] + Pending(t) <= 1 => lateOn'[t] + Pending(t)' <= 1
    PROVE  LateOnInv'
  BY DEF LateOnInv

\* No step lets a second command past its mode check once the switch is off.
LEMMA LateOnInvNext ==
    TypeOK /\ ChainInv /\ DispatchInv /\ LateOnInv /\ [Next]_vars => LateOnInv'
<1> SUFFICES ASSUME TypeOK, ChainInv, DispatchInv, LateOnInv, [Next]_vars
             PROVE  LateOnInv'
  OBVIOUS
<1> USE DEF env, lamp, copies, locals, ghost
<1>1. CASE UNCHANGED <<pc, op, want, lateOn, gpioMode, ctlMode, dispatchAlone>>
  BY <1>1 DEF LateOnInv, SwitchedOff, Dispatching, Pending
<1>2. ASSUME NEW t \in Task, NEW o, NEW m, BeginDispatch(t, o, m) PROVE LateOnInv'
  <2>1. t \in Dispatching'
    BY <1>2 DEF BeginDispatch, Goto, Dispatching, TypeOK
  <2>2. QED
    BY <2>1 DEF LateOnInv, SwitchedOff
<1>3. CASE SampleClock
  <2>1. Dispatching' = Dispatching
    BY <1>3 DEF SampleClock, Goto, ChainInv, Dispatching, TypeOK
  <2>2. QED
    BY <1>3, <2>1, LateOnFrame DEF SampleClock, Goto, SwitchedOff, Pending, TypeOK
<1>4. CASE CheckAuto
  <2>1. Dispatching' = Dispatching
    BY <1>4 DEF CheckAuto, Return, Goto, ChainInv, Dispatching, TypeOK
  <2>2. SwitchedOff => schedMode # "auto"
    BY DEF SwitchedOff, DispatchInv
  <2>3. QED
    BY <1>4, <2>1, <2>2, LateOnFrame
       DEF CheckAuto, Return, Goto, SwitchedOff, Pending, TypeOK
<1>5. CASE PassNoon
  <2>1. Dispatching' = Dispatching
    BY <1>5 DEF PassNoon, Return, Goto, ChainInv, Dispatching, TypeOK
  <2>2. QED
    BY <1>5, <2>1, LateOnFrame DEF PassNoon, Return, Goto, SwitchedOff, Pending, TypeOK
<1>6. CASE Restart
  BY <1>6 DEF Restart, AllTasks, LateOnInv, Pending
<1>7. CASE PressButton
  <2>1. Dispatching' = Dispatching
    BY <1>7 DEF PressButton, Goto, ChainInv, Dispatching, TypeOK
  <2>2. QED
    BY <1>7, <2>1, LateOnFrame DEF PressButton, Goto, SwitchedOff, Pending, TypeOK
<1>8. ASSUME NEW t \in Task, ChainStep(t) PROVE LateOnInv'
  <2>1. CASE SetNextion(t)
    <3>1. t \in Dispatching'
      BY <2>1 DEF SetNextion, Goto, Dispatching, TypeOK
    <3>2. QED
      BY <3>1 DEF LateOnInv, SwitchedOff
  <2>2. CASE SetSchedule(t)
    <3>1. t \in Dispatching'
      BY <2>2 DEF SetSchedule, Goto, ChainInv, Dispatching, TypeOK
    <3>2. QED
      BY <3>1 DEF LateOnInv, SwitchedOff
  <2>3. CASE SetWebsocket(t)
    <3>1. \A u \in Task : lateOn'[u] = 0 /\ Pending(u)' \in {0, 1}
      BY <2>3 DEF SetWebsocket, AllTasks, Pending
    <3>2. QED
      BY <3>1 DEF LateOnInv
  <2>4. CASE Compare(t)
    <3>1. Dispatching' = Dispatching
      BY <2>4 DEF Compare, Return, AfterRelay, Goto, ChainInv, Dispatching, TypeOK
    <3>2. \A u \in Task : Pending(u)' <= Pending(u) /\ Pending(u)' \in {0, 1}
                         /\ Pending(u) \in {0, 1}
      BY <2>4 DEF Compare, Return, AfterRelay, Goto, Pending, TypeOK
    <3>3. lateOn' = lateOn /\ \A u \in Task : lateOn[u] \in 0..2
      BY <2>4 DEF Compare, TypeOK
    <3>4. SwitchedOff' => SwitchedOff
      BY <2>4, <3>1 DEF Compare, SwitchedOff
    <3>5. QED
      BY <3>2, <3>3, <3>4, LateOnFrame
  <2>5. CASE Store(t)
    <3>1. Dispatching' = Dispatching
      BY <2>5 DEF Store, Goto, Dispatching, TypeOK
    <3>2. \A u \in Task : lateOn[u] + Pending(u) <= 1 =>
                           lateOn'[u] + Pending(u)' <= 1
      BY <2>5 DEF Store, Goto, Pending, TypeOK
    <3>3. SwitchedOff' => SwitchedOff
      BY <2>5, <3>1 DEF Store, SwitchedOff
    <3>4. QED
      BY <3>2, <3>3, LateOnFrame
  <2>6. ASSUME NEW i \in Pin, LoadLevel(t, i) \/ WriteLevel(t, i) PROVE LateOnInv'
    <3>1. Dispatching' = Dispatching
      BY <2>6 DEF LoadLevel, WriteLevel, Goto, Dispatching, TypeOK
    <3>2. \A u \in Task : lateOn'[u] = lateOn[u] /\ Pending(u)' = Pending(u)
      BY <2>6 DEF LoadLevel, WriteLevel, Goto, Pending, TypeOK
    <3>3. SwitchedOff' => SwitchedOff
      BY <2>6, <3>1 DEF LoadLevel, WriteLevel, SwitchedOff
    <3>4. QED
      BY <3>2, <3>3, LateOnFrame
  <2>7. CASE Report(t)
    <3>1. Dispatching' = Dispatching
      BY <2>7 DEF Report, Return, AfterRelay, Goto, ChainInv, Dispatching, TypeOK
    <3>2. \A u \in Task : lateOn'[u] = lateOn[u] /\ Pending(u)' = Pending(u)
      BY <2>7 DEF Report, Return, AfterRelay, Goto, Pending, TypeOK
    <3>3. SwitchedOff' => SwitchedOff
      BY <2>7, <3>1 DEF Report, SwitchedOff
    <3>4. QED
      BY <3>2, <3>3, LateOnFrame
  <2>8. QED
    BY <1>8, <2>1, <2>2, <2>3, <2>4, <2>5, <2>6, <2>7 DEF ChainStep
<1>9. QED
  BY <1>1, <1>2, <1>3, <1>4, <1>5, <1>6, <1>7, <1>8
     DEF Next, ScheduleLoop, vars, ControllerReady, MoveSwitch, SampleSwitch,
         ClockCrossesBoundary, SearchBegins, SearchEnds, RemoteRefused, RemoteControl, RemoteFree

\* With the switch off and everybody told, the schedule and the server light
\* the lamp at most once more each, whatever the interleaving.
THEOREM LateOnBounded == Spec => []AtMostOneLateOn
<1>1. Init => DispatchInv /\ LateOnInv
  BY DEF Init, AllTasks, DispatchInv, DispatchProgress, Dispatching, LateOnInv, Pending
<1>2. TypeOK /\ LateOnInv => AtMostOneLateOn
  BY DEF TypeOK, LateOnInv, AtMostOneLateOn, Pending
<1>3. QED
  BY <1>1, <1>2, TypeCorrect, ChainCorrect, DispatchInvNext, LateOnInvNext, PTL DEF Spec

=============================================================================
