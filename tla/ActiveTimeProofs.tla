-------------------------- MODULE ActiveTimeProofs --------------------------
(***************************************************************************)
(* Proofs for module ActiveTime: settings, copies and flash for any number *)
(* of settings, restarts and faults.                                       *)
(*                                                                         *)
(* The invariant says how far each writer has come. Whoever overlaps with  *)
(* whom, the words a writer has passed hold a setting (Clean). A writer    *)
(* that is alone finds its own values in all the words it has passed       *)
(* (BootAlone, RequestAlone), so that all copies agree when it is done     *)
(* (Undisturbed, CopiesAgree).                                             *)
(***************************************************************************)
EXTENDS ActiveTime, TLAPS

User == {"nextion", "rx"}
Loading == {"config", "create"}

\* Which writer can be where, at which word, and what app_main has created by then.
Shape ==
    /\ ph["boot"] \in {"config", "create", "start", "arg", "alarm", "idle"}
    /\ ph["nextion"] \in {"form", "read", "mem", "save", "alarm", "pass", "ws", "idle"}
    /\ ph["rx"] \in {"mem", "save", "alarm", "screen", "ws", "idle"}
    /\ \A t \in Writer : ph[t] # "mem" => k[t] \in Word
    /\ hasScreen <=> ph["boot"] \notin Loading
    /\ hasSchedule <=> ph["boot"] \notin Loading \cup {"start"}
    /\ ph["nextion"] # "idle" => hasScreen

\* Has t passed word w of phase p, where `after' are the phases that follow p?
Passed(t, w, p, after) == (ph[t] = p /\ w < k[t]) \/ ph[t] \in after

AfterForm == {"read", "mem", "save", "alarm", "pass", "ws"}

\* The words that go to the flash hold a setting.
Clean ==
    /\ FlashNeverGarbage
    /\ \A t \in User : ph[t] # "idle" => \A w \in StoredWord : local[t][w] # Garbage
    /\ \A t \in User : \A w \in StoredWord :
          Passed(t, w, "mem", {"save"}) => mem[w] # Garbage
    /\ \A w \in Word : Passed("nextion", w, "form", AfterForm) => screen[w] # Garbage

\* How far app_main has come, if it is alone.
BootAlone ==
    LET t == "boot" IN
    ph[t] # "idle" =>
        /\ mem = nvs
        /\ \A w \in Word : ws[w] = nvs[w]
        /\ \A w \in Word : Passed(t, w, "config", {"create"}) => local[t][w] = nvs[w]
        /\ \A w \in Word : ph[t] \in {"start", "arg", "alarm"} => screen[w] = nvs[w]
        /\ ph[t] = "alarm" => local[t][k[t]] = nvs[k[t]]
        /\ ph[t] \in {"arg", "alarm"} /\ k[t] = 2 /\ Enabled(nvs)
              => sched[1] = nvs[1] /\ enable[1] = TRUE

\* How far t has come with its request, if it is alone.
RequestAlone(t) ==
    ph[t] # "idle" =>
        /\ \A w \in StoredWord :
              /\ local[t][w] = req[t]
              /\ Passed(t, w, "mem", {"save", "alarm", "pass", "screen", "ws"})
                    => mem[w] = req[t]
              /\ ph[t] \in {"alarm", "pass", "screen", "ws"} => nvs[w] = req[t]
        /\ \A w \in Word :
              /\ t = "nextion" /\ Passed(t, w, "form", AfterForm) => screen[w] = req[t]
              /\ Passed(t, w, "alarm", {"pass", "screen", "ws"})
                    => sched[w] = req[t] /\ enable[w] = TRUE
              /\ t = "rx" /\ Passed(t, w, "screen", {"ws"}) => screen[w] = req[t]
              /\ Passed(t, w, "ws", {}) => ws[w] = req[t]

\* One writer at a time, and what it has done.
Undisturbed ==
    alone =>
        /\ \A s, t \in Writer : ph[s] # "idle" /\ ph[t] # "idle" => s = t
        /\ BootAlone
        /\ \A t \in User : RequestAlone(t)

\* A request unsettles what was settled, so that the flash is left alone.
Kept == SettledSurvives /\ (settled # Garbage => \A t \in User : ph[t] = "idle")

IInv == TypeOK /\ Shape /\ Clean /\ Undisturbed /\ Kept /\ CopiesAgree


-----------------------------------------------------------------------------
(* Type correctness.                                                       *)

USE BoundsAreNat
USE DEF Word, Flags, StoredWord, Garbage, Request, Value, Writer, Phase

\* The flags stay flags.
LEMMA FlagsStep ==
    ASSUME TypeOK, Shape, [Next]_vars
    PROVE  FlagsOK'
<1> USE DEF Advance, Goto, Load, Return, copies, boot, events, ghost, FlagsOK, TypeOK,
    Shape
<1>1. CASE ScreenRequest
  BY <1>1 DEF ScreenRequest, Begin, Whole
<1>2. CASE ServerRequest
  BY <1>2 DEF ServerRequest, Begin, Whole
<1>3. ASSUME NEW t \in Writer, WriterStep(t)
      PROVE  FlagsOK'
  <2>1. CASE FormWord(t)
    BY <2>1 DEF FormWord
  <2>2. CASE ReadForm(t)
    BY <2>2 DEF ReadForm
  <2>3. CASE StoreWord(t)
    BY <2>3 DEF StoreWord
  <2>4. CASE Save(t)
    BY <2>4 DEF Save
  <2>5. CASE AddAlarm(t)
    BY <2>5 DEF AddAlarm, AfterAlarms, Unset, Whole
  <2>6. CASE ScreenWord(t)
    BY <2>6 DEF ScreenWord
  <2>7. CASE NoScreen(t)
    BY <2>7 DEF NoScreen
  <2>8. CASE WsWord(t)
    BY <2>8 DEF WsWord, Unset, Whole
  <2>9. CASE ConfigWord(t)
    BY <2>9 DEF ConfigWord
  <2>10. CASE CreateScreen(t)
    BY <2>10 DEF CreateScreen, Unset, Whole
  <2>11. CASE CreateSchedule(t)
    BY <2>11 DEF CreateSchedule
  <2>12. CASE AlarmArgument(t)
    BY <2>12 DEF AlarmArgument, Unset, Whole
  <2> QED  BY <1>3, <2>1, <2>2, <2>3, <2>4, <2>5, <2>6, <2>7, <2>8, <2>9, <2>10,
      <2>11, <2>12 DEF WriterStep
<1>4. CASE Crash
  BY <1>4 DEF Crash, LoadData, Unset, Whole, EachWriter, BootPhase
<1>5. CASE UNCHANGED vars
  BY <1>5 DEF vars, stack
<1> QED  BY <1>1, <1>2, <1>3, <1>4, <1>5 DEF Next

\* Every variable keeps its type.
LEMMA TypesStep ==
    ASSUME TypeOK, Shape, [Next]_vars
    PROVE  TypeOK'
<1> USE DEF Advance, Goto, Load, Return, copies, boot, events, ghost, TypeOK, Shape
<1>0. FlagsOK'
  BY FlagsStep
<1>1. CASE ScreenRequest
  BY <1>1, <1>0 DEF ScreenRequest, Begin, Whole
<1>2. CASE ServerRequest
  BY <1>2, <1>0 DEF ServerRequest, Begin, Whole
<1>3. ASSUME NEW t \in Writer, WriterStep(t)
      PROVE  TypeOK'
  <2>1. CASE FormWord(t)
    BY <2>1, <1>0 DEF FormWord
  <2>2. CASE ReadForm(t)
    BY <2>2, <1>0 DEF ReadForm
  <2>3. CASE StoreWord(t)
    BY <2>3, <1>0 DEF StoreWord
  <2>4. CASE Save(t)
    BY <2>4, <1>0 DEF Save
  <2>5. CASE AddAlarm(t)
    BY <2>5, <1>0 DEF AddAlarm, AfterAlarms, Unset, Whole
  <2>6. CASE ScreenWord(t)
    BY <2>6, <1>0 DEF ScreenWord
  <2>7. CASE NoScreen(t)
    BY <2>7, <1>0 DEF NoScreen
  <2>8. CASE WsWord(t)
    BY <2>8, <1>0 DEF WsWord, Unset, Whole
  <2>9. CASE ConfigWord(t)
    BY <2>9, <1>0 DEF ConfigWord
  <2>10. CASE CreateScreen(t)
    BY <2>10, <1>0 DEF CreateScreen, Unset, Whole
  <2>11. CASE CreateSchedule(t)
    BY <2>11, <1>0 DEF CreateSchedule
  <2>12. CASE AlarmArgument(t)
    BY <2>12, <1>0 DEF AlarmArgument, Unset, Whole
  <2> QED  BY <1>3, <2>1, <2>2, <2>3, <2>4, <2>5, <2>6, <2>7, <2>8, <2>9, <2>10,
      <2>11, <2>12 DEF WriterStep
<1>4. CASE Crash
  BY <1>4, <1>0 DEF Crash, LoadData, Unset, Whole, EachWriter, BootPhase
<1>5. CASE UNCHANGED vars
  BY <1>5, <1>0 DEF vars, stack
<1> QED  BY <1>1, <1>2, <1>3, <1>4, <1>5 DEF Next

\* A writer goes through its handler in order, and app_main creates screen and
\* schedule once.
LEMMA ShapeStep ==
    ASSUME TypeOK, Shape, [Next]_vars
    PROVE  Shape'
<1> USE DEF Advance, Goto, Load, Return, copies, boot, events, ghost, TypeOK, Shape,
    Loading
<1>1. CASE ScreenRequest
  BY <1>1 DEF ScreenRequest, Begin, Whole
<1>2. CASE ServerRequest
  BY <1>2 DEF ServerRequest, Begin, Whole
<1>3. ASSUME NEW t \in Writer, WriterStep(t)
      PROVE  Shape'
  <2>1. CASE FormWord(t)
    BY <2>1 DEF FormWord
  <2>2. CASE ReadForm(t)
    BY <2>2 DEF ReadForm
  <2>3. CASE StoreWord(t)
    BY <2>3 DEF StoreWord
  <2>4. CASE Save(t)
    BY <2>4 DEF Save
  <2>5. CASE AddAlarm(t)
    BY <2>5 DEF AddAlarm, AfterAlarms, Unset, Whole
  <2>6. CASE ScreenWord(t)
    BY <2>6 DEF ScreenWord
  <2>7. CASE NoScreen(t)
    BY <2>7 DEF NoScreen
  <2>8. CASE WsWord(t)
    BY <2>8 DEF WsWord, Unset, Whole
  <2>9. CASE ConfigWord(t)
    BY <2>9 DEF ConfigWord
  <2>10. CASE CreateScreen(t)
    BY <2>10 DEF CreateScreen, Unset, Whole
  <2>11. CASE CreateSchedule(t)
    BY <2>11 DEF CreateSchedule
  <2>12. CASE AlarmArgument(t)
    BY <2>12 DEF AlarmArgument, Unset, Whole
  <2> QED  BY <1>3, <2>1, <2>2, <2>3, <2>4, <2>5, <2>6, <2>7, <2>8, <2>9, <2>10,
      <2>11, <2>12 DEF WriterStep
<1>4. CASE Crash
  BY <1>4 DEF Crash, LoadData, Unset, Whole, EachWriter, BootPhase
<1>5. CASE UNCHANGED vars
  BY <1>5 DEF vars, stack
<1> QED  BY <1>1, <1>2, <1>3, <1>4, <1>5 DEF Next

-----------------------------------------------------------------------------
(* What the writers leave behind.                                          *)

\* Whatever overlaps, words passed hold a setting.
LEMMA CleanStep ==
    ASSUME TypeOK, Shape, Clean, [Next]_vars
    PROVE  Clean'
<1> USE DEF Advance, Goto, Load, Return, copies, boot, events, ghost, TypeOK, Shape,
    Clean, FlashNeverGarbage, Passed, AfterForm, User, Loading
<1>1. CASE ScreenRequest
  BY <1>1 DEF ScreenRequest, Begin, Whole
<1>2. CASE ServerRequest
  BY <1>2 DEF ServerRequest, Begin, Whole
<1>3. ASSUME NEW t \in Writer, WriterStep(t)
      PROVE  Clean'
  <2>1. CASE FormWord(t)
    BY <2>1 DEF FormWord
  <2>2. CASE ReadForm(t)
    BY <2>2 DEF ReadForm
  <2>3. CASE StoreWord(t)
    BY <2>3 DEF StoreWord
  <2>4. CASE Save(t)
    BY <2>4 DEF Save
  <2>5. CASE AddAlarm(t)
    BY <2>5 DEF AddAlarm, AfterAlarms, Unset, Whole
  <2>6. CASE ScreenWord(t)
    BY <2>6 DEF ScreenWord
  <2>7. CASE NoScreen(t)
    BY <2>7 DEF NoScreen
  <2>8. CASE WsWord(t)
    BY <2>8 DEF WsWord, Unset, Whole
  <2>9. CASE ConfigWord(t)
    BY <2>9 DEF ConfigWord
  <2>10. CASE CreateScreen(t)
    BY <2>10 DEF CreateScreen, Unset, Whole
  <2>11. CASE CreateSchedule(t)
    BY <2>11 DEF CreateSchedule
  <2>12. CASE AlarmArgument(t)
    BY <2>12 DEF AlarmArgument, Unset, Whole
  <2> QED  BY <1>3, <2>1, <2>2, <2>3, <2>4, <2>5, <2>6, <2>7, <2>8, <2>9, <2>10,
      <2>11, <2>12 DEF WriterStep
<1>4. CASE Crash
  BY <1>4 DEF Crash, LoadData, Unset, Whole, EachWriter, BootPhase
<1>5. CASE UNCHANGED vars
  BY <1>5 DEF vars, stack
<1> QED  BY <1>1, <1>2, <1>3, <1>4, <1>5 DEF Next

\* A writer that is alone leaves its own values in the words it passes.
LEMMA UndisturbedStep ==
    ASSUME TypeOK, Shape, Clean, Undisturbed, [Next]_vars
    PROVE  Undisturbed'
<1> USE DEF Advance, Goto, Load, Return, copies, boot, events, ghost, Undisturbed,
    BootAlone, RequestAlone, Passed, AfterForm, User, Loading, Enabled, Disabled,
    TypeOK, FlagsOK, Shape, Clean, FlashNeverGarbage
<1>1. CASE ScreenRequest
  <2>1. alone' => \A t \in Writer : ph[t] = "idle"
    BY <1>1 DEF ScreenRequest, Begin, Writing
  <2>2. QED
    BY <1>1, <2>1 DEF ScreenRequest, Begin, Whole
<1>2. CASE ServerRequest
  <2>1. alone' => \A t \in Writer : ph[t] = "idle"
    BY <1>2 DEF ServerRequest, Begin, Writing
  <2>2. QED
    BY <1>2, <2>1 DEF ServerRequest, Begin, Whole
<1>3. ASSUME NEW t \in Writer, WriterStep(t)
      PROVE  Undisturbed'
  <2>1. CASE FormWord(t)
    BY <2>1 DEF FormWord
  <2>2. CASE ReadForm(t)
    BY <2>2 DEF ReadForm
  <2>3. CASE StoreWord(t)
    BY <2>3 DEF StoreWord
  <2>4. CASE Save(t)
    <3>1. CASE UNCHANGED nvs /\ ~alone'
      BY <3>1
    <3>2. CASE nvs' = mem /\ alone' = alone
      BY <2>4, <3>2 DEF Save
    <3>3. QED
      BY <2>4, <3>1, <3>2 DEF Save
  <2>5. CASE AddAlarm(t)
    BY <2>5 DEF AddAlarm, AfterAlarms, Unset, Whole
  <2>6. CASE ScreenWord(t)
    BY <2>6 DEF ScreenWord
  <2>7. CASE NoScreen(t)
    BY <2>7 DEF NoScreen
  <2>8. CASE WsWord(t)
    BY <2>8 DEF WsWord, Unset, Whole
  <2>9. CASE ConfigWord(t)
    BY <2>9 DEF ConfigWord
  <2>10. CASE CreateScreen(t)
    BY <2>10 DEF CreateScreen, Unset, Whole
  <2>11. CASE CreateSchedule(t)
    BY <2>11 DEF CreateSchedule
  <2>12. CASE AlarmArgument(t)
    BY <2>12 DEF AlarmArgument, Unset, Whole
  <2> QED  BY <1>3, <2>1, <2>2, <2>3, <2>4, <2>5, <2>6, <2>7, <2>8, <2>9, <2>10,
      <2>11, <2>12 DEF WriterStep
<1>4. CASE Crash
  BY <1>4 DEF Crash, LoadData, Unset, Whole, EachWriter, BootPhase
<1>5. CASE UNCHANGED vars
  BY <1>5 DEF vars, stack
<1> QED  BY <1>1, <1>2, <1>3, <1>4, <1>5 DEF Next

\* What is settled stays in the flash.
LEMMA KeptStep ==
    ASSUME TypeOK, Shape, Undisturbed, Kept, [Next]_vars
    PROVE  Kept'
<1> USE DEF Advance, Goto, Load, Return, copies, boot, events, ghost, Undisturbed,
    BootAlone, RequestAlone, Passed, AfterForm, User, Loading, Enabled, Disabled,
    TypeOK, FlagsOK, Shape, Kept, SettledSurvives, Whole
<1>1. CASE ScreenRequest
  BY <1>1 DEF ScreenRequest, Begin, Whole
<1>2. CASE ServerRequest
  BY <1>2 DEF ServerRequest, Begin, Whole
<1>3. ASSUME NEW t \in Writer, WriterStep(t)
      PROVE  Kept'
  <2>1. CASE FormWord(t)
    BY <2>1 DEF FormWord
  <2>2. CASE ReadForm(t)
    BY <2>2 DEF ReadForm
  <2>3. CASE StoreWord(t)
    BY <2>3 DEF StoreWord
  <2>4. CASE Save(t)
    BY <2>4 DEF Save
  <2>5. CASE AddAlarm(t)
    BY <2>5 DEF AddAlarm, AfterAlarms, Unset, Whole
  <2>6. CASE ScreenWord(t)
    BY <2>6 DEF ScreenWord
  <2>7. CASE NoScreen(t)
    BY <2>7 DEF NoScreen
  <2>8. CASE WsWord(t)
    BY <2>8 DEF WsWord, Unset, Whole
  <2>9. CASE ConfigWord(t)
    BY <2>9 DEF ConfigWord
  <2>10. CASE CreateScreen(t)
    BY <2>10 DEF CreateScreen, Unset, Whole
  <2>11. CASE CreateSchedule(t)
    BY <2>11 DEF CreateSchedule
  <2>12. CASE AlarmArgument(t)
    BY <2>12 DEF AlarmArgument, Unset, Whole
  <2> QED  BY <1>3, <2>1, <2>2, <2>3, <2>4, <2>5, <2>6, <2>7, <2>8, <2>9, <2>10,
      <2>11, <2>12 DEF WriterStep
<1>4. CASE Crash
  BY <1>4 DEF Crash, LoadData, Unset, Whole, EachWriter, BootPhase
<1>5. CASE UNCHANGED vars
  BY <1>5 DEF vars, stack
<1> QED  BY <1>1, <1>2, <1>3, <1>4, <1>5 DEF Next

\* All copies agree when a writer that was alone is done.
LEMMA AgreeStep ==
    ASSUME TypeOK, Shape, Clean, Undisturbed, CopiesAgree, [Next]_vars
    PROVE  CopiesAgree'
<1> USE DEF Advance, Goto, Load, Return, copies, boot, events, ghost, Undisturbed,
    BootAlone, RequestAlone, Passed, AfterForm, User, Loading, Enabled, Disabled,
    TypeOK, FlagsOK, Shape, CopiesAgree, Writing, Clean, FlashNeverGarbage
<1>1. CASE ScreenRequest
  BY <1>1 DEF ScreenRequest, Begin, Whole
<1>2. CASE ServerRequest
  BY <1>2 DEF ServerRequest, Begin, Whole
<1>3. ASSUME NEW t \in Writer, WriterStep(t)
      PROVE  CopiesAgree'
  <2>1. CASE FormWord(t)
    BY <2>1 DEF FormWord
  <2>2. CASE ReadForm(t)
    BY <2>2 DEF ReadForm
  <2>3. CASE StoreWord(t)
    BY <2>3 DEF StoreWord
  <2>4. CASE Save(t)
    BY <2>4 DEF Save
  <2>5. CASE AddAlarm(t)
    BY <2>5 DEF AddAlarm, AfterAlarms, Unset, Whole
  <2>6. CASE ScreenWord(t)
    BY <2>6 DEF ScreenWord
  <2>7. CASE NoScreen(t)
    BY <2>7 DEF NoScreen
  <2>8. CASE WsWord(t)
    BY <2>8 DEF WsWord, Unset, Whole
  <2>9. CASE ConfigWord(t)
    BY <2>9 DEF ConfigWord
  <2>10. CASE CreateScreen(t)
    BY <2>10 DEF CreateScreen, Unset, Whole
  <2>11. CASE CreateSchedule(t)
    BY <2>11 DEF CreateSchedule
  <2>12. CASE AlarmArgument(t)
    BY <2>12 DEF AlarmArgument, Unset, Whole
  <2> QED  BY <1>3, <2>1, <2>2, <2>3, <2>4, <2>5, <2>6, <2>7, <2>8, <2>9, <2>10,
      <2>11, <2>12 DEF WriterStep
<1>4. CASE Crash
  BY <1>4 DEF Crash, LoadData, Unset, Whole, EachWriter, BootPhase
<1>5. CASE UNCHANGED vars
  BY <1>5 DEF vars, stack
<1> QED  BY <1>1, <1>2, <1>3, <1>4, <1>5 DEF Next

-----------------------------------------------------------------------------
(* The theorems.                                                           *)

\* The state after app_websocket_start has the invariant.
LEMMA InitIInv == Init => IInv
<1> SUFFICES ASSUME Init PROVE IInv
  OBVIOUS
<1> USE DEF Init, Whole, Unset, EachWriter, BootPhase, User, Loading
<1>0. FlagsOK
  BY DEF FlagsOK
<1>1. TypeOK
  BY <1>0 DEF TypeOK
<1>2. Shape
  BY DEF Shape
<1>3. Clean
  BY DEF Clean, FlashNeverGarbage, Passed, AfterForm
<1>4. Undisturbed
  BY DEF Undisturbed, BootAlone, RequestAlone, Passed, AfterForm
<1>5. Kept
  BY DEF Kept, SettledSurvives
<1>6. CopiesAgree
  BY DEF CopiesAgree, Writing
<1>7. QED
  BY <1>1, <1>2, <1>3, <1>4, <1>5, <1>6 DEF IInv

\* Every step of every writer, and every crash, keeps it.
LEMMA NextIInv == IInv /\ [Next]_vars => IInv'
  BY TypesStep, ShapeStep, CleanStep, UndisturbedStep, KeptStep, AgreeStep DEF IInv

\* The invariant holds throughout.
THEOREM Inductive == Spec => []IInv
  BY InitIInv, NextIInv, PTL DEF Spec

\* Every variable keeps its type, for any number of settings, restarts and faults.
THEOREM TypeCorrect == Spec => []TypeOK
<1>1. IInv => TypeOK
  BY DEF IInv
<1>2. QED
  BY Inductive, <1>1, PTL

\* Memory without a setting never reaches the flash (app_storage.c:47, 106), whoever
\* overlaps with whom and wherever the power fails.
THEOREM FlashClean == Spec => []FlashNeverGarbage
<1>1. IInv => FlashNeverGarbage
  BY DEF IInv, Clean
<1>2. QED
  BY Inductive, <1>1, PTL

\* An undisturbed setting stays in the flash until the next request
\* (app_main.c:95-119, 135-156).
THEOREM SettledStays == Spec => []SettledSurvives
<1>1. IInv => SettledSurvives
  BY DEF IInv, Kept
<1>2. QED
  BY Inductive, <1>1, PTL

\* The five copies agree after an undisturbed boot and after every undisturbed
\* setting (app_main.c:95-119, 135-156, 298-365).
THEOREM CopiesInStep == Spec => []CopiesAgree
<1>1. IInv => CopiesAgree
  BY DEF IInv
<1>2. QED
  BY Inductive, <1>1, PTL


=============================================================================
