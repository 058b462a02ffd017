--------------------------- MODULE TimeSyncProofs ---------------------------
(***************************************************************************)
(* Proofs about TimeSync, for every value of its bounds.                   *)
(***************************************************************************)
EXTENDS TimeSync, TLAPS

USE DEF Before2021, Stamp, Typed, RtcStamp, SysStamp, Wrapped,
        ThroughBcd, ThroughTimeT, RtcPlausible, Setter, LoopPC, SetterPC

\* The state after power-on is well typed.
LEMMA InitTypeOK == Init => TypeOK
<1> SUFFICES ASSUME Init PROVE TypeOK
  OBVIOUS
<1>1. used \in [ops : 0..MaxUserOps, fixes : 0..MaxFixes, faults : 0..MaxFaults]
  BY BoundsAreNat DEF Init
<1>2. spc \in [Setter -> SetterPC] /\ form \in [Setter -> Stamp]
  BY DEF Init
<1>3. FlagsOK
  BY DEF Init, FlagsOK
<1>4. n \in Nat /\ n <= MaxOffline
  BY BoundsAreNat DEF Init
<1>5. QED
  BY <1>1, <1>2, <1>3, <1>4 DEF Init, TypeOK

\* The flags stay flags: no step computes with them.
LEMMA FlagsNext == FlagsOK /\ [Next]_vars => FlagsOK'
<1> SUFFICES ASSUME FlagsOK, [Next]_vars PROVE FlagsOK'
  OBVIOUS
<1> USE DEF flags, setters, world, FlagsOK
<1>1. CASE BootReadsRtc \/ Top \/ Choose \/ AcceptSystemClock \/ ReadRtc
  BY <1>1 DEF BootReadsRtc, Top, Choose, AcceptSystemClock, ReadRtc
<1>2. CASE ReadRtcFails \/ AdoptRtc \/ MarkSynced \/ CheckNetwork
  BY <1>2 DEF ReadRtcFails, AdoptRtc, MarkSynced, CheckNetwork
<1>3. CASE CountOffline
  BY <1>3 DEF CountOffline
<1>4. CASE PollSntp
  BY <1>4 DEF PollSntp
<1>5. CASE StopSntp \/ EndForce \/ SaveRtc
  BY <1>5 DEF StopSntp, EndForce, SaveRtc
<1>6. CASE CheckYear \/ Evaluate
  BY <1>6 DEF CheckYear, Evaluate
<1>7. CASE SntpAnswers \/ UserSetsTime \/ UserSyncs \/ GpsSetsTime
  BY <1>7 DEF SntpAnswers, UserSetsTime, UserSyncs, GpsSetsTime, SetTime
<1>8. ASSUME NEW s \in Setter, SetterStep(s) PROVE FlagsOK'
  BY <1>8 DEF SetterStep, WriteRtc, WriteSys, ClearSync, ClearForce,
              RequestForce, ResetCount, Unsync
<1>9. CASE NetworkChanges \/ ServerChanges \/ UNCHANGED vars
  BY <1>9 DEF NetworkChanges, ServerChanges, vars
<1>10. QED
  BY <1>1, <1>2, <1>3, <1>4, <1>5, <1>6, <1>7, <1>8, <1>9 DEF Next, SyncStep

\* A failing I2C transfer is counted within its bound.
LEMMA FaultType ==
    ASSUME TypeOK, Fault
    PROVE  used' \in [ops : 0..MaxUserOps, fixes : 0..MaxFixes, faults : 0..MaxFaults]
  BY BoundsAreNat DEF TypeOK, Fault

\* A step of a setter keeps its control point and its pending time typed.
LEMMA SetterType ==
    ASSUME TypeOK, NEW s \in Setter
    PROVE  /\ \A l \in SetterPC : StepTo(s, l) => spc' \in [Setter -> SetterPC]
           /\ Forget(s) => form' \in [Setter -> Stamp]
           /\ form[s] \in Stamp
  BY DEF TypeOK, StepTo, Forget

\* Every step of the loop of _schedule_task keeps the variables well typed, and
\* n_sync_time below one of its two bounds.
LEMMA SyncStepTypeOK == TypeOK /\ SyncStep => TypeOK'
<1> SUFFICES ASSUME TypeOK, SyncStep PROVE TypeOK'
  OBVIOUS
<1>0. FlagsOK'
  BY FlagsNext DEF Next, TypeOK
<1> USE <1>0, BoundsAreNat DEF flags, setters, world
<1>1. CASE BootReadsRtc \/ Top \/ Choose \/ AcceptSystemClock
  BY <1>1 DEF BootReadsRtc, Top, Choose, AcceptSystemClock, TypeOK
<1>2. CASE ReadRtc \/ AdoptRtc \/ MarkSynced
  BY <1>2 DEF ReadRtc, AdoptRtc, MarkSynced, TypeOK
<1>3. CASE ReadRtcFails
  BY <1>3, FaultType DEF ReadRtcFails, TypeOK
<1>4. CASE CheckNetwork
  BY <1>4 DEF CheckNetwork, TypeOK
<1>5. CASE CountOffline
  BY <1>5 DEF CountOffline, TypeOK
<1>6. CASE PollSntp
  BY <1>6 DEF PollSntp, TypeOK
<1>7. CASE StopSntp \/ EndForce
  BY <1>7 DEF StopSntp, EndForce, TypeOK
<1>8. CASE SaveRtc
  BY <1>8, FaultType DEF SaveRtc, TypeOK
<1>9. CASE CheckYear \/ Evaluate
  BY <1>9 DEF CheckYear, Evaluate, TypeOK
<1>10. QED
  BY <1>1, <1>2, <1>3, <1>4, <1>5, <1>6, <1>7, <1>8, <1>9 DEF SyncStep

\* Every step of every task, of SNTP and of the environment does.
LEMMA NextTypeOK == TypeOK /\ [Next]_vars => TypeOK'
<1> SUFFICES ASSUME TypeOK, [Next]_vars PROVE TypeOK'
  OBVIOUS
<1>0. FlagsOK'
  BY FlagsNext DEF TypeOK
<1> USE <1>0, BoundsAreNat DEF flags, setters, world
<1>1. CASE SntpAnswers
  BY <1>1 DEF SntpAnswers, TypeOK
<1>2. CASE UserSetsTime
  <2>1. used' \in [ops : 0..MaxUserOps, fixes : 0..MaxFixes, faults : 0..MaxFaults]
    BY <1>2 DEF UserSetsTime, TypeOK
  <2>2. PICK t \in Typed : SetTime("nextion", t)
    BY <1>2 DEF UserSetsTime
  <2>3. spc' \in [Setter -> SetterPC] /\ form' \in [Setter -> Stamp]
    BY <2>2 DEF SetTime, TypeOK
  <2>4. QED
    BY <2>1, <2>2, <2>3 DEF SetTime, TypeOK
<1>3. CASE GpsSetsTime
  <2>1. used' \in [ops : 0..MaxUserOps, fixes : 0..MaxFixes, faults : 0..MaxFaults]
    BY <1>3 DEF GpsSetsTime, TypeOK
  <2>2. spc' \in [Setter -> SetterPC] /\ form' \in [Setter -> Stamp]
    BY <1>3 DEF GpsSetsTime, SetTime, TypeOK
  <2>3. QED
    BY <1>3, <2>1, <2>2 DEF GpsSetsTime, SetTime, TypeOK
<1>4. CASE UserSyncs
  <2>1. used' \in [ops : 0..MaxUserOps, fixes : 0..MaxFixes, faults : 0..MaxFaults]
    BY <1>4 DEF UserSyncs, TypeOK
  <2>2. spc' \in [Setter -> SetterPC]
    BY <1>4, SetterType DEF UserSyncs
  <2>3. QED
    BY <1>4, <2>1, <2>2 DEF UserSyncs, TypeOK
<1>5. ASSUME NEW s \in Setter, SetterStep(s) PROVE TypeOK'
  <2> USE SetterType
  <2>1. CASE WriteRtc(s)
    BY <2>1, FaultType DEF WriteRtc, TypeOK
  <2>2. CASE WriteSys(s)
    BY <2>2 DEF WriteSys, TypeOK
  <2>3. CASE ClearSync(s)
    BY <2>3 DEF ClearSync, TypeOK
  <2>4. CASE ClearForce(s)
    BY <2>4 DEF ClearForce, TypeOK
  <2>5. CASE RequestForce(s)
    BY <2>5 DEF RequestForce, TypeOK
  <2>6. CASE ResetCount(s)
    BY <2>6 DEF ResetCount, TypeOK
  <2>7. CASE Unsync(s)
    BY <2>7 DEF Unsync, TypeOK
  <2>8. QED
    BY <1>5, <2>1, <2>2, <2>3, <2>4, <2>5, <2>6, <2>7 DEF SetterStep
<1>6. CASE NetworkChanges
  BY <1>6 DEF NetworkChanges, TypeOK
<1>7. CASE ServerChanges
  BY <1>7 DEF ServerChanges, TypeOK
<1>8. CASE UNCHANGED vars
  BY <1>8 DEF vars, TypeOK
<1>9. QED
  BY <1>1, <1>2, <1>3, <1>4, <1>5, <1>6, <1>7, <1>8, SyncStepTypeOK DEF Next

\* Every variable keeps its type; in particular n_sync_time never runs past
\* both of its bounds, although three tasks count and reset it
\* (app_schedule.c:135-139, 147-153, 397).
THEOREM TypeCorrect == Spec => []TypeOK
  BY InitTypeOK, NextTypeOK, PTL DEF Spec

-----------------------------------------------------------------------------
(* The DS3231: SourceInv.                                                  *)

\* No step puts 1970 on its way into the DS3231.
LEMMA SourceInvNext == TypeOK /\ SourceInv /\ [Next]_vars => SourceInv'
<1> SUFFICES ASSUME TypeOK, SourceInv, [Next]_vars PROVE SourceInv'
  OBVIOUS
<1> USE DEF flags, setters, world
<1>1. CASE SyncStep
  <2> USE DEF TypeOK, SourceInv
  <2>1. CASE BootReadsRtc \/ Top \/ Choose \/ AcceptSystemClock
    BY <2>1 DEF BootReadsRtc, Top, Choose, AcceptSystemClock
  <2>2. CASE ReadRtc \/ ReadRtcFails \/ AdoptRtc \/ MarkSynced
    BY <2>2 DEF ReadRtc, ReadRtcFails, AdoptRtc, MarkSynced
  <2>3. CASE CheckNetwork \/ CountOffline
    BY <2>3 DEF CheckNetwork, CountOffline
  <2>4. CASE PollSntp
    BY <2>4 DEF PollSntp
  <2>5. CASE StopSntp \/ EndForce \/ SaveRtc
    BY <2>5 DEF StopSntp, EndForce, SaveRtc
  <2>6. CASE CheckYear \/ Evaluate
    BY <2>6 DEF CheckYear, Evaluate
  <2>7. QED
    BY <1>1, <2>1, <2>2, <2>3, <2>4, <2>5, <2>6 DEF SyncStep
<1>2. CASE SntpAnswers
  BY <1>2 DEF SntpAnswers, SourceInv
<1>3. CASE UserSetsTime \/ GpsSetsTime
  <2>1. PICK s \in Setter, t \in Stamp \ {"epoch"} : SetTime(s, t)
    BY <1>3 DEF UserSetsTime, GpsSetsTime
  <2>2. QED
    BY <2>1 DEF SetTime, TypeOK, SourceInv
<1>4. CASE UserSyncs
  BY <1>4 DEF UserSyncs, StepTo, TypeOK, SourceInv
<1>5. ASSUME NEW s \in Setter, SetterStep(s) PROVE SourceInv'
  <2> USE DEF StepTo, Forget, TypeOK, SourceInv
  <2>1. CASE WriteRtc(s)
    BY <2>1 DEF WriteRtc
  <2>2. CASE WriteSys(s)
    BY <2>2 DEF WriteSys
  <2>3. CASE ClearSync(s) \/ ClearForce(s)
    BY <2>3 DEF ClearSync, ClearForce
  <2>4. CASE RequestForce(s) \/ ResetCount(s) \/ Unsync(s)
    BY <2>4 DEF RequestForce, ResetCount, Unsync
  <2>5. QED
    BY <1>5, <2>1, <2>2, <2>3, <2>4 DEF SetterStep
<1>6. CASE NetworkChanges \/ ServerChanges \/ UNCHANGED vars
  BY <1>6 DEF NetworkChanges, ServerChanges, vars, SourceInv
<1>7. QED
  BY <1>1, <1>2, <1>3, <1>4, <1>5, <1>6 DEF Next

\* Only three steps write the DS3231, and each writes what SourceInv says.
LEMMA RtcStep == TypeOK /\ SourceInv /\ [Next]_vars => (rtc # "epoch" => rtc' # "epoch")
<1> SUFFICES ASSUME TypeOK, SourceInv, [Next]_vars, rtc # "epoch"
             PROVE  rtc' # "epoch"
  OBVIOUS
<1> USE DEF flags, setters, world
<1>1. CASE SaveRtc
  BY <1>1 DEF SaveRtc, SourceInv
<1>2. ASSUME NEW s \in Setter, WriteRtc(s) PROVE rtc' # "epoch"
  BY <1>2 DEF WriteRtc, SourceInv
<1>3. CASE UNCHANGED rtc
  BY <1>3
<1>4. CASE SyncStep
  BY <1>1, <1>3, <1>4
     DEF SyncStep, BootReadsRtc, Top, Choose, AcceptSystemClock, ReadRtc,
         ReadRtcFails, AdoptRtc, MarkSynced, CheckNetwork, CountOffline,
         PollSntp, StopSntp, EndForce, CheckYear, Evaluate
<1>5. ASSUME NEW s \in Setter, SetterStep(s) PROVE rtc' # "epoch"
  BY <1>2, <1>3, <1>5
     DEF SetterStep, WriteSys, ClearSync, ClearForce, RequestForce,
         ResetCount, Unsync
<1>6. QED
  BY <1>3, <1>4, <1>5
     DEF Next, vars, SntpAnswers, UserSetsTime, UserSyncs, GpsSetsTime,
         SetTime, NetworkChanges, ServerChanges

\* The battery-backed clock, once set, is never taken back to 1970 by the save
\* after SNTP, the screen or the GPS, however their steps interleave
\* (app_schedule.c:160-190, 356, 381).
THEOREM RtcKept == Spec => RtcNeverForgets
<1>1. Init => SourceInv
  BY DEF Init, SourceInv
<1>2. Spec => []SourceInv
  BY <1>1, TypeCorrect, SourceInvNext, PTL DEF Spec
<1>3. TypeOK /\ SourceInv /\ [Next]_vars => [rtc # "epoch" => rtc' # "epoch"]_vars
  BY RtcStep
<1>4. QED
  BY <1>2, <1>3, TypeCorrect, PTL DEF Spec, RtcNeverForgets

=============================================================================
