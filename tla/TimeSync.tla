------------------------------ MODULE TimeSync ------------------------------
(***************************************************************************)
(* Where the schedule gets its time from (main/app_schedule.c).            *)
(*                                                                         *)
(* _schedule_task calls _sync_time before every evaluation of the active   *)
(* time.  The system clock starts in 1970; _sync_time accepts it, loads it *)
(* from the DS3231, or waits for SNTP, steered by is_sync, is_force_sync   *)
(* and n_sync_time.  Two other tasks write the same flags and clocks       *)
(* without a lock: the screen (set time, sync now) and the GPS.            *)
(*                                                                         *)
(* A clock is abstracted to its year, all that the code tests of it, and to *)
(* whether it has been set at all.                                         *)
(***************************************************************************)
EXTENDS Naturals

CONSTANTS MaxOffline,    \* n_sync_time bound without network (6)
          MaxPolls,      \* n_sync_time bound waiting for SNTP (60)
          MaxUserOps,    \* how often the screen sets or syncs the time
          MaxFixes,      \* how often the GPS delivers a time
          MaxFaults      \* how many I2C transfers with the DS3231 fail

ASSUME BoundsAreNat ==
    /\ MaxOffline \in Nat /\ MaxPolls \in Nat
    /\ MaxUserOps \in Nat /\ MaxFixes \in Nat /\ MaxFaults \in Nat

\* epoch: 1970, the clock after power-on.  early, y2021, after: a year before, in
\* or after 2021 from any source.  late: a year from 2038 on, which the DS3231
\* keeps and the 32-bit time_t of the system clock does not.  far: a year neither
\* keeps, below 1900 or from 2060 on, such as the 0 of a GPS form not filled yet.
Before2021 == {"epoch", "early"}
Typed == {"early", "y2021", "after", "late", "far"}
Stamp == Before2021 \cup Typed

\* Stamps of which the DS3231, and the system clock, can hold the year.
RtcStamp == Stamp \ {"far"}
SysStamp == RtcStamp \ {"late"}

\* ds3231_set_time and ds3231_get_time: one byte of BCD for tm_year, which brings
\* 1900 to 2059 back and makes some other year of any other.
Wrapped == {"early", "y2021", "after"}
ThroughBcd(t) == IF t = "far" THEN Wrapped \cup {"late"} ELSE {t}

\* mktime and settimeofday: the seconds of a year from 2038 on overflow, and those
\* of 1900 and 1901 into 2036 and 2037.
ThroughTimeT(t) ==
    IF t \in {"late", "far"} THEN Wrapped
    ELSE IF t = "early" THEN {"early", "after"} ELSE {t}

\* rtcinfo.tm_year > 2021 - 1900
RtcPlausible(t) == t \in {"after", "late"}

Setter == {"nextion", "gps"}
LoopPC == {"boot", "top", "choose", "sysclock", "rtc", "adopt", "mark", "net",
           "offline", "wait", "won", "unforce", "saveRtc", "eval", "run"}
SetterPC == {"idle", "setRtc", "setSys", "clearSync", "clearForce",
             "force", "resetN", "unsync"}

VARIABLES
    sys, rtc,        \* the system clock and the DS3231
    isSync,          \* handle->is_sync
    isForce,         \* handle->is_force_sync
    isInit,          \* handle->is_init_sntp: SNTP is running
    n,               \* handle->n_sync_time
    pc,              \* control point of _schedule_task
    seen,            \* a clock value it has read and not used yet (or epoch)
    sntp,            \* has SNTP a result nobody has asked for?
    spc, form,       \* control point and pending time of each setter
    net, ntp,        \* is the network up, and with it the time server?
    used             \* environment events so far

flags == <<isSync, isForce, isInit, n>>
setters == <<spc, form>>
world == <<net, ntp, used>>
vars == <<sys, rtc, flags, pc, seen, sntp, setters, world>>

Init ==
    /\ sys \in {"epoch", "after"}
    /\ rtc \in {"epoch", "y2021", "late", "after"}
    /\ isSync = FALSE /\ isForce = TRUE /\ isInit = FALSE /\ n = 0
    /\ pc = "boot" /\ seen = "epoch"
    /\ sntp = FALSE
    /\ spc = [s \in Setter |-> "idle"]
    /\ form = [s \in Setter |-> "epoch"]
    /\ net \in BOOLEAN /\ ntp \in {FALSE, net}
    /\ used = [ops |-> 0, fixes |-> 0, faults |-> 0]

Fault ==
    /\ used.faults < MaxFaults
    /\ used' = [used EXCEPT !.faults = @ + 1]

-----------------------------------------------------------------------------
(* _schedule_task: reading the DS3231 once at boot.  If that fails the task *)
(* function returns, FreeRTOS aborts and the device boots again.            *)

BootReadsRtc ==
    /\ pc = "boot"
    /\ IF RtcPlausible(rtc) THEN sys' \in ThroughTimeT(rtc) ELSE UNCHANGED sys
    /\ pc' = "top"
    /\ UNCHANGED <<rtc, flags, seen, sntp, setters, world>>

(* _sync_time.                                                             *)

Top ==
    /\ pc = "top"
    /\ pc' = IF isSync /\ ~isForce THEN "eval" ELSE "choose"
    /\ UNCHANGED <<sys, rtc, flags, seen, sntp, setters, world>>

Choose ==
    /\ pc = "choose"
    /\ pc' = IF isForce THEN "net" ELSE "sysclock"
    /\ UNCHANGED <<sys, rtc, flags, seen, sntp, setters, world>>

AcceptSystemClock ==
    /\ pc = "sysclock"
    /\ pc' = IF sys = "after" THEN "mark" ELSE "rtc"
    /\ UNCHANGED <<sys, rtc, flags, seen, sntp, setters, world>>

ReadRtc ==
    /\ pc = "rtc"
    /\ IF RtcPlausible(rtc)
       THEN pc' = "adopt" /\ seen' = rtc
       ELSE pc' = "net" /\ UNCHANGED seen
    /\ UNCHANGED <<sys, rtc, flags, sntp, setters, world>>

ReadRtcFails ==
    /\ pc = "rtc"
    /\ Fault
    /\ pc' = "top"
    /\ UNCHANGED <<sys, rtc, flags, seen, sntp, setters, net, ntp>>

AdoptRtc ==
    /\ pc = "adopt"
    /\ sys' \in ThroughTimeT(seen)
    /\ seen' = "epoch"
    /\ pc' = "mark"
    /\ UNCHANGED <<rtc, flags, sntp, setters, world>>

MarkSynced ==
    /\ pc = "mark"
    /\ isSync' = TRUE
    /\ pc' = "eval"
    /\ UNCHANGED <<sys, rtc, isForce, isInit, n, seen, sntp, setters, world>>

\* app_network_is_connected; with a network SNTP is started once.
CheckNetwork ==
    /\ pc = "net"
    /\ IF net
       THEN pc' = "wait" /\ isInit' = TRUE /\ n' = 0
       ELSE pc' = "offline" /\ UNCHANGED <<isInit, n>>
    /\ UNCHANGED <<sys, rtc, isSync, isForce, seen, sntp, setters, world>>

\* Mutant: giving up restarts the count and keeps the request.
CountOfflineKeepsForce ==
    /\ pc = "offline"
    /\ n' = IF n + 1 > MaxOffline THEN 0 ELSE n + 1
    /\ pc' = "top"
    /\ UNCHANGED <<sys, rtc, isSync, isForce, isInit, seen, sntp, setters, world>>

\* After the ten second delay.
CountOffline ==
    /\ pc = "offline"
    /\ IF n + 1 > MaxOffline
       THEN n' = 0 /\ isForce' = FALSE
       ELSE n' = n + 1 /\ UNCHANGED isForce
    /\ pc' = "top"
    /\ UNCHANGED <<sys, rtc, isSync, isInit, seen, sntp, setters, world>>

\* Mutant: the status is not tested, a running SNTP counts as answered.
PollSntpEager ==
    /\ pc = "wait"
    /\ IF isSync THEN pc' = "eval" ELSE pc' = "won"
    /\ sntp' = FALSE
    /\ UNCHANGED <<sys, rtc, flags, seen, setters, world>>

\* Mutant: n_sync_time is not reset when the polls run out.
PollSntpUncounted ==
    /\ pc = "wait"
    /\ \/ /\ isSync
          /\ pc' = "eval"
          /\ UNCHANGED <<n, sntp>>
       \/ /\ ~isSync /\ ~sntp
          /\ n' = n + 1
          /\ pc' = IF n' > MaxPolls THEN "top" ELSE pc
          /\ UNCHANGED sntp
       \/ /\ ~isSync /\ sntp
          /\ sntp' = FALSE
          /\ pc' = "won"
          /\ UNCHANGED n
    /\ UNCHANGED <<sys, rtc, isSync, isForce, isInit, seen, setters, world>>

\* while (!handle->is_sync): one poll of sntp_get_sync_status, which hands a
\* result out once.
PollSntp ==
    /\ pc = "wait"
    /\ \/ /\ isSync
          /\ pc' = "eval"
          /\ UNCHANGED <<n, sntp>>
       \/ /\ ~isSync /\ ~sntp
          /\ IF n + 1 > MaxPolls
             THEN n' = 0 /\ pc' = "top"
             ELSE n' = n + 1 /\ UNCHANGED pc
          /\ UNCHANGED sntp
       \/ /\ ~isSync /\ sntp
          /\ sntp' = FALSE
          /\ pc' = "won"
          /\ UNCHANGED n
    /\ UNCHANGED <<sys, rtc, isSync, isForce, isInit, seen, setters, world>>

StopSntp ==
    /\ pc = "won"
    /\ isSync' = TRUE /\ isInit' = FALSE
    /\ pc' = "unforce"
    /\ UNCHANGED <<sys, rtc, isForce, n, seen, sntp, setters, world>>

\* is_force_sync is cleared, then the clock is read to be saved.
EndForce ==
    /\ pc = "unforce"
    /\ isForce' = FALSE
    /\ seen' = sys
    /\ pc' = "saveRtc"
    /\ UNCHANGED <<sys, rtc, isSync, isInit, n, sntp, setters, world>>

\* ds3231_set_time; a failure is only logged.  The loop condition follows.
SaveRtc ==
    /\ pc = "saveRtc"
    /\ \/ rtc' \in ThroughBcd(seen) /\ UNCHANGED used
       \/ Fault /\ UNCHANGED rtc
    /\ seen' = "epoch"
    /\ pc' = "wait"
    /\ UNCHANGED <<sys, flags, sntp, setters, net, ntp>>

-----------------------------------------------------------------------------
(* The rest of the loop of _schedule_task: "run" is the evaluation of the  *)
(* active time.                                                            *)

\* Mutant: a clock that is still wrong does not clear is_sync.
CheckYearKeepsSync ==
    /\ pc = "eval"
    /\ pc' = IF sys \in Before2021 THEN "top" ELSE "run"
    /\ UNCHANGED <<sys, rtc, flags, seen, sntp, setters, world>>

CheckYear ==
    /\ pc = "eval"
    /\ IF sys \in Before2021
       THEN pc' = "top" /\ isSync' = FALSE
       ELSE pc' = "run" /\ UNCHANGED isSync
    /\ UNCHANGED <<sys, rtc, isForce, isInit, n, seen, sntp, setters, world>>

Evaluate ==
    /\ pc = "run"
    /\ pc' = "top"
    /\ UNCHANGED <<sys, rtc, flags, seen, sntp, setters, world>>

-----------------------------------------------------------------------------
(* SNTP, a thread of lwIP: it sets the system clock and posts its status.  *)

SntpAnswers ==
    /\ isInit /\ ntp
    /\ sys' = "after"
    /\ sntp' = TRUE
    /\ UNCHANGED <<rtc, flags, pc, seen, setters, world>>

(* app_schedule_set_time (screen) and app_gps_set_time (GPS).              *)

SetTime(s, t) ==
    /\ spc[s] = "idle"
    /\ spc' = [spc EXCEPT ![s] = "setRtc"]
    /\ form' = [form EXCEPT ![s] = t]
    /\ UNCHANGED <<sys, rtc, flags, pc, seen, sntp, net, ntp>>

UserSetsTime ==
    /\ used.ops < MaxUserOps
    /\ used' = [used EXCEPT !.ops = @ + 1]
    /\ \E t \in Typed : SetTime("nextion", t)

\* _gps_task raises its flag before it has cleared and filled date_time_form, so
\* _GPS_process_task may also pass on a form without a year.
GpsSetsTime ==
    /\ used.fixes < MaxFixes
    /\ used' = [used EXCEPT !.fixes = @ + 1]
    /\ \E t \in {"after", "far"} : SetTime("gps", t)

StepTo(s, l) == spc' = [spc EXCEPT ![s] = l]
Forget(s) == form' = [form EXCEPT ![s] = "epoch"]

WriteRtc(s) ==
    /\ spc[s] = "setRtc"
    /\ \/ rtc' \in ThroughBcd(form[s]) /\ StepTo(s, "setSys") /\ UNCHANGED <<form, used>>
       \/ Fault /\ StepTo(s, "idle") /\ Forget(s) /\ UNCHANGED rtc
    /\ UNCHANGED <<sys, flags, pc, seen, sntp, net, ntp>>

WriteSys(s) ==
    /\ spc[s] = "setSys"
    /\ sys' \in ThroughTimeT(form[s])
    /\ StepTo(s, "clearSync") /\ Forget(s)
    /\ UNCHANGED <<rtc, flags, pc, seen, sntp, world>>

\* is_sync = false; the GPS also withdraws a forced synchronisation.
ClearSync(s) ==
    /\ spc[s] = "clearSync"
    /\ isSync' = FALSE
    /\ StepTo(s, IF s = "gps" THEN "clearForce" ELSE "idle")
    /\ UNCHANGED <<sys, rtc, isForce, isInit, n, pc, seen, sntp, form, world>>

ClearForce(s) ==
    /\ spc[s] = "clearForce"
    /\ isForce' = FALSE
    /\ StepTo(s, "idle")
    /\ UNCHANGED <<sys, rtc, isSync, isInit, n, pc, seen, sntp, form, world>>

(* app_schedule_sync_time: three stores.                                   *)

UserSyncs ==
    /\ used.ops < MaxUserOps
    /\ used' = [used EXCEPT !.ops = @ + 1]
    /\ spc["nextion"] = "idle"
    /\ StepTo("nextion", "force")
    /\ UNCHANGED <<sys, rtc, flags, pc, seen, sntp, form, net, ntp>>

RequestForce(s) ==
    /\ spc[s] = "force"
    /\ isForce' = TRUE
    /\ StepTo(s, "resetN")
    /\ UNCHANGED <<sys, rtc, isSync, isInit, n, pc, seen, sntp, form, world>>

ResetCount(s) ==
    /\ spc[s] = "resetN"
    /\ n' = 0
    /\ StepTo(s, "unsync")
    /\ UNCHANGED <<sys, rtc, isSync, isForce, isInit, pc, seen, sntp, form, world>>

Unsync(s) ==
    /\ spc[s] = "unsync"
    /\ isSync' = FALSE
    /\ StepTo(s, "idle")
    /\ UNCHANGED <<sys, rtc, isForce, isInit, n, pc, seen, sntp, form, world>>

-----------------------------------------------------------------------------
NetworkChanges ==
    /\ net' = ~net
    /\ ntp' = FALSE
    /\ UNCHANGED <<sys, rtc, flags, pc, seen, sntp, setters, used>>

ServerChanges ==
    /\ net
    /\ ntp' = ~ntp
    /\ UNCHANGED <<sys, rtc, flags, pc, seen, sntp, setters, net, used>>

SyncStep ==
    \/ BootReadsRtc \/ Top \/ Choose \/ AcceptSystemClock
    \/ ReadRtc \/ ReadRtcFails \/ AdoptRtc \/ MarkSynced
    \/ CheckNetwork \/ CountOffline \/ PollSntp
    \/ StopSntp \/ EndForce \/ SaveRtc
    \/ CheckYear \/ Evaluate

SetterStep(s) ==
    \/ WriteRtc(s) \/ WriteSys(s) \/ ClearSync(s) \/ ClearForce(s)
    \/ RequestForce(s) \/ ResetCount(s) \/ Unsync(s)

Next ==
    \/ SyncStep
    \/ SntpAnswers
    \/ UserSetsTime
    \/ UserSyncs
    \/ GpsSetsTime
    \/ \E s \in Setter : SetterStep(s)
    \/ NetworkChanges
    \/ ServerChanges

Spec == Init /\ [][Next]_vars

\* The tasks run, and a server that stays reachable answers a running SNTP;
\* network, server, screen and GPS owe nothing.
Fairness ==
    /\ WF_vars(SyncStep)
    /\ \A s \in Setter : WF_vars(SetterStep(s))
    /\ WF_vars(SntpAnswers)

FairSpec == Spec /\ Fairness

-----------------------------------------------------------------------------
\* The type of the flags, and of every variable.
FlagsOK ==
    /\ isSync \in BOOLEAN /\ isForce \in BOOLEAN /\ isInit \in BOOLEAN
    /\ sntp \in BOOLEAN /\ net \in BOOLEAN /\ ntp \in BOOLEAN

TypeOK ==
    /\ FlagsOK
    /\ sys \in SysStamp /\ rtc \in RtcStamp /\ seen \in RtcStamp
    /\ n \in Nat /\ (n <= MaxOffline \/ n <= MaxPolls)
    /\ pc \in LoopPC
    /\ spc \in [Setter -> SetterPC] /\ form \in [Setter -> Stamp]
    /\ used \in [ops : 0..MaxUserOps, fixes : 0..MaxFixes, faults : 0..MaxFaults]

\* The battery-backed clock is never overwritten with the 1970 the device boots
\* with: neither by the save after SNTP (app_schedule.c:166-190), which trusts
\* that a completed status means a set clock, nor by a setter.
RtcNeverForgets == [][rtc # "epoch" => rtc' # "epoch"]_vars

\* RtcNeverForgets made inductive: whatever is on its way into the DS3231, or
\* into the clock that will be saved there, was read after that clock was set.
SourceInv ==
    /\ sntp \/ pc \in {"won", "unforce"} => sys # "epoch"
    /\ pc = "adopt" => RtcPlausible(seen)
    /\ pc = "saveRtc" => seen # "epoch"
    /\ \A s \in Setter : spc[s] \in {"setRtc", "setSys"} => form[s] # "epoch"

\* The RTC offers a year that the system clock cannot hold: the task adopts it,
\* finds the year wrong, clears is_sync and adopts it again, and never gets to
\* asking the network (app_schedule.c:122-128, 234-239).
TrappedByRtc == rtc = "late" /\ sys # "after"

\* A clock of the device is past 2021 and the system clock can hold it.
HasTime == "after" \in {sys, rtc}

\* The schedule evaluates the active time again and again once there is a source
\* of time for good: a reachable server, unless the RTC traps the task; a clock
\* of the device without a network; or such a clock, whatever network and server
\* do, once no synchronisation is forced.  What is left out is what the code does
\* not give: with a network whose server stays silent is_force_sync survives
\* every round of 60 polls and the schedule stands still.
ScheduleKeepsRunning ==
    \/ <>[](ntp /\ ~TrappedByRtc)
    \/ <>[](~net /\ HasTime)
    \/ <>[](~isForce /\ HasTime)
    => []<>(pc = "run")

\* A forced synchronisation ends: without a network it is given up, with a
\* reachable server it completes or is absorbed by an is_sync that a setter
\* or an acceptance in flight stored beside it (app_schedule.c:102,126 against
\* 396-398).
ForcedSyncSettles ==
    /\ <>[]~net => <>[]~isForce
    /\ <>[]ntp => <>[](~isForce \/ isSync)

=============================================================================
