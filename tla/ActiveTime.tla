----------------------------- MODULE ActiveTime -----------------------------
(***************************************************************************)
(* The active time and its five copies: flash (NVS), the storage handle,   *)
(* the schedule's alarms, the screen's handle and the websocket's handle.  *)
(*                                                                         *)
(* Three tasks write them without a lock: app_main while it boots, the     *)
(* screen task (@up_time) and the receiver of the server's messages, which *)
(* runs before app_main has created the screen and the schedule.  A crash  *)
(* (the noon restart or a loss of power) leaves only the flash.            *)
(*                                                                         *)
(* A setting is a start time, an end time and a word of enable flags;      *)
(* every request gets a number of its own and a copy records for each word *)
(* whose value it holds.  Structures are copied word by word, as memcpy    *)
(* does (hour and minute, stored one after the other, count as one word).  *)
(***************************************************************************)
EXTENDS Integers

CONSTANTS MaxSets,       \* how many settings are made
          MaxRestarts,   \* how often the device restarts
          MaxFaults      \* how often nvs_open or nvs_get_blob fails

ASSUME BoundsAreNat ==
    MaxSets \in Nat /\ MaxRestarts \in Nat /\ MaxFaults \in Nat

\* The start and the end; the storage adds the enable flags.
Word == 1..2
Flags == 3
StoredWord == 1..3

\* Request 0 is what the flash held at first; -1 is memory without a setting:
\* uninitialised, or cleared by a load that failed afterwards.
Garbage == -1
Request == 0..MaxSets
Value == Request \cup {Garbage}

Writer == {"boot", "nextion", "rx"}
Phase == {"idle", "form", "read", "mem", "save", "alarm", "pass", "screen", "ws",
          "config", "create", "start", "arg"}

VARIABLES
    nvs, mem,        \* the flash and app_storage handle->data
    sched, enable,   \* start and end of the schedule handle
    screen,          \* active_time of the nextion handle
    ws,              \* active_time of the websocket handle
    blank,           \* was the flash empty (flags off) at first?
    hasScreen, hasSchedule,   \* are nextion_handle, schedule_handle stored?
    ph, k,           \* phase of each writer and the word it is at
    local,           \* its structure on the stack
    req,             \* the request it is carrying out
    sets, restarts, faults,   \* events so far
    alone, settled   \* history: see Begin and WsWord

copies == <<nvs, mem, sched, enable, screen, ws>>
boot   == <<blank, hasScreen, hasSchedule>>
stack  == <<ph, k, local, req>>
events == <<sets, restarts, faults>>
ghost  == <<alone, settled>>
vars   == <<copies, boot, stack, events, ghost>>

Whole(r, W) == [w \in W |-> r]
Writing == {t \in Writer : ph[t] # "idle"}

\* Are the enable flags of a stored setting on?  Garbage may be either.
Enabled(m)  == m[Flags] # 0 \/ ~blank
Disabled(m) == m[Flags] = Garbage \/ (m[Flags] = 0 /\ blank)

-----------------------------------------------------------------------------
(* app_main: the state once app_websocket_start has created the receiver.  *)

Unset(W) == Whole(Garbage, W)
BootPhase == [t \in Writer |-> IF t = "boot" THEN "config" ELSE "idle"]
EachWriter(x) == [t \in Writer |-> x]

Init ==
    /\ nvs = Whole(0, StoredWord) /\ mem = nvs
    /\ ws = Whole(0, Word) /\ screen = Unset(Word)
    /\ sched = Unset(Word) /\ enable = Whole(FALSE, Word)
    /\ blank \in BOOLEAN
    /\ hasScreen = FALSE /\ hasSchedule = FALSE
    /\ ph = BootPhase /\ k = EachWriter(1)
    /\ local = EachWriter(Unset(StoredWord)) /\ req = EachWriter(0)
    /\ sets = 0 /\ restarts = 0 /\ faults = 0
    /\ alone = TRUE /\ settled = 0

\* app_storage_load_data may fail before or after it has cleared handle->data;
\* app_main goes on with what it finds there.
LoadData ==
    \/ mem' = nvs /\ alone' = TRUE /\ UNCHANGED faults
    \/ /\ faults < MaxFaults
       /\ faults' = faults + 1
       /\ mem' = Unset(StoredWord) /\ alone' = FALSE

\* Noon or a loss of power; the websocket's configuration is read from the
\* storage before its tasks exist.
Crash ==
    /\ restarts < MaxRestarts
    /\ restarts' = restarts + 1
    /\ LoadData
    /\ ws' = [w \in Word |-> mem'[w]] /\ screen' = Unset(Word)
    /\ sched' = Unset(Word) /\ enable' = Whole(FALSE, Word)
    /\ hasScreen' = FALSE /\ hasSchedule' = FALSE
    /\ ph' = BootPhase /\ k' = EachWriter(1)
    /\ local' = EachWriter(Unset(StoredWord)) /\ req' = EachWriter(0)
    /\ UNCHANGED <<nvs, blank, sets, settled>>

-----------------------------------------------------------------------------
Goto(t, p, w) == ph' = [ph EXCEPT ![t] = p] /\ k' = [k EXCEPT ![t] = w]

\* Mutant: the copy runs one word past the end of the structure.
AdvanceTooFar(t, n, p) ==
    IF k[t] <= n THEN Goto(t, ph[t], k[t] + 1) ELSE Goto(t, p, 1)

\* On to the next word of a structure of n words, or to phase p after the last.
Advance(t, n, p) == IF k[t] < n THEN Goto(t, ph[t], k[t] + 1) ELSE Goto(t, p, 1)

Load(t, w, v) == local' = [local EXCEPT ![t][w] = v]

\* A writer that has returned leaves no locals behind.
Return(t) ==
    IF ph'[t] = "idle"
    THEN /\ local' = [local EXCEPT ![t] = Unset(StoredWord)]
         /\ req' = [req EXCEPT ![t] = 0]
    ELSE UNCHANGED <<local, req>>

\* A request arrives.  It is alone if no other writer is active, and settled
\* once it has ended alone; a later request unsettles it.
Begin(t, p) ==
    /\ sets < MaxSets
    /\ ph[t] = "idle"
    /\ sets' = sets + 1
    /\ req' = [req EXCEPT ![t] = sets + 1]
    /\ local' = [local EXCEPT ![t] = Whole(sets + 1, StoredWord)]
    /\ Goto(t, p, 1)
    /\ alone' = (Writing = {})
    /\ settled' = Garbage

ScreenRequest ==
    /\ hasScreen
    /\ Begin("nextion", "form")
    /\ UNCHANGED <<copies, boot, restarts, faults>>

ServerRequest ==
    /\ Begin("rx", "mem")
    /\ UNCHANGED <<copies, boot, restarts, faults>>

\* _nextion_read_task fills in its own handle and passes a pointer to it; the
\* callback copies from there when it builds the storage structure, and again
\* when it calls the websocket.
FormWord(t) ==
    /\ ph[t] = "form"
    /\ screen' = [screen EXCEPT ![k[t]] = req[t]]
    /\ Advance(t, 2, "read")
    /\ UNCHANGED <<nvs, mem, sched, enable, ws, boot, local, req, events, ghost>>

ReadForm(t) ==
    /\ ph[t] \in {"read", "pass"}
    /\ Load(t, k[t], screen[k[t]])
    /\ Advance(t, 2, IF ph[t] = "read" THEN "mem" ELSE "ws")
    /\ UNCHANGED <<copies, boot, req, events, ghost>>

\* Mutant: the copy has the size of active_time_t, without the flags.
StoreTimesOnly(t) ==
    /\ ph[t] = "mem"
    /\ mem' = [mem EXCEPT ![k[t]] = local[t][k[t]]]
    /\ Advance(t, 2, "save")
    /\ UNCHANGED <<nvs, sched, enable, screen, ws, boot, local, req, events, ghost>>

\* Mutant: handle->data is saved before it is set.
StoreAfterSave(t) ==
    /\ ph[t] = "mem"
    /\ mem' = [mem EXCEPT ![k[t]] = local[t][k[t]]]
    /\ nvs' = IF k[t] = 1 THEN mem ELSE nvs
    /\ Advance(t, 3, "alarm")
    /\ UNCHANGED <<sched, enable, screen, ws, boot, local, req, events, ghost>>

\* app_storage_set_data.
StoreWord(t) ==
    /\ ph[t] = "mem"
    /\ mem' = [mem EXCEPT ![k[t]] = local[t][k[t]]]
    /\ Advance(t, 3, "save")
    /\ UNCHANGED <<nvs, sched, enable, screen, ws, boot, local, req, events, ghost>>

\* app_storage_save_data; nvs_set_blob is all or nothing.  Nobody looks at the
\* error when the flash cannot be opened.
Save(t) ==
    /\ ph[t] = "save"
    /\ \/ nvs' = mem /\ UNCHANGED <<faults, alone>>
       \/ /\ faults < MaxFaults
          /\ faults' = faults + 1
          /\ alone' = FALSE
          /\ UNCHANGED nvs
    /\ Goto(t, "alarm", 1)
    /\ UNCHANGED <<mem, sched, enable, screen, ws, boot, local, req,
                   sets, restarts, settled>>

AfterAlarms(t) == CASE t = "nextion" -> "pass"
                    [] t = "rx"      -> "screen"
                    [] t = "boot"    -> "idle"

\* app_schedule_add_alarm, called for the start and for the end, stores the time
\* and the flag.  Without a schedule it fails and nobody looks.
AddAlarm(t) ==
    /\ ph[t] = "alarm"
    /\ IF hasSchedule
       THEN /\ sched' = [sched EXCEPT ![k[t]] = local[t][k[t]]]
            /\ enable' = [enable EXCEPT ![k[t]] = TRUE]
       ELSE UNCHANGED <<sched, enable>>
    /\ IF t = "boot" /\ k[t] = 1 THEN Goto(t, "arg", 2)
                                ELSE Advance(t, 2, AfterAlarms(t))
    /\ Return(t)
    /\ UNCHANGED <<nvs, mem, screen, ws, boot, events, ghost>>

\* Mutant: the screen is not told what the server has set.
ScreenNotTold(t) ==
    /\ ph[t] = "screen"
    /\ Goto(t, "ws", 1)
    /\ UNCHANGED <<copies, boot, local, req, events, ghost>>

\* app_nextion_set_active_time, called for the server's requests only.
ScreenWord(t) ==
    /\ ph[t] = "screen"
    /\ hasScreen
    /\ screen' = [screen EXCEPT ![k[t]] = local[t][k[t]]]
    /\ Advance(t, 2, "ws")
    /\ UNCHANGED <<nvs, mem, sched, enable, ws, boot, local, req, events, ghost>>

NoScreen(t) ==
    /\ ph[t] = "screen" /\ k[t] = 1
    /\ ~hasScreen
    /\ Goto(t, "ws", 1)
    /\ UNCHANGED <<copies, boot, local, req, events, ghost>>

\* app_websocket_update_active_time, the end of both handlers.
WsWord(t) ==
    /\ ph[t] = "ws"
    /\ ws' = [ws EXCEPT ![k[t]] = local[t][k[t]]]
    /\ Advance(t, 2, "idle")
    /\ Return(t)
    /\ settled' = IF k[t] = 2 /\ alone THEN req[t] ELSE settled
    /\ UNCHANGED <<nvs, mem, sched, enable, screen, boot, events, alone>>

-----------------------------------------------------------------------------
(* The rest of app_main: the screen's configuration is read from the       *)
(* storage handle, the handle created, then the schedule and its alarms.   *)

ConfigWord(t) ==
    /\ ph[t] = "config"
    /\ Load(t, k[t], mem[k[t]])
    /\ Advance(t, 2, "create")
    /\ UNCHANGED <<copies, boot, req, events, ghost>>

CreateScreen(t) ==
    /\ ph[t] = "create"
    /\ screen' = [w \in Word |-> local[t][w]]
    /\ hasScreen' = TRUE
    /\ Goto(t, "start", 1)
    /\ local' = [local EXCEPT ![t] = Unset(StoredWord)]
    /\ UNCHANGED <<nvs, mem, sched, enable, ws, blank, hasSchedule, req, events, ghost>>

\* malloc leaves start and end of the handle uninitialised.
CreateSchedule(t) ==
    /\ ph[t] = "start"
    /\ enable' \in [Word -> BOOLEAN]
    /\ hasSchedule' = TRUE
    /\ Goto(t, "arg", 1)
    /\ UNCHANGED <<nvs, mem, sched, screen, ws, blank, hasScreen, local, req,
                   events, ghost>>

\* The arguments of the two add_alarm calls, each behind its enable flag.
AlarmArgument(t) ==
    /\ ph[t] = "arg"
    /\ \/ /\ Enabled(mem)
          /\ Load(t, k[t], mem[k[t]]) /\ Goto(t, "alarm", k[t])
          /\ UNCHANGED req
       \/ Disabled(mem) /\ Advance(t, 2, "idle") /\ Return(t)
    /\ UNCHANGED <<copies, boot, events, ghost>>

-----------------------------------------------------------------------------
WriterStep(t) ==
    \/ FormWord(t) \/ ReadForm(t) \/ StoreWord(t) \/ Save(t)
    \/ AddAlarm(t) \/ ScreenWord(t) \/ NoScreen(t) \/ WsWord(t)
    \/ ConfigWord(t) \/ CreateScreen(t) \/ CreateSchedule(t) \/ AlarmArgument(t)

Next ==
    \/ ScreenRequest
    \/ ServerRequest
    \/ \E t \in Writer : WriterStep(t)
    \/ Crash

Spec == Init /\ [][Next]_vars

-----------------------------------------------------------------------------
\* The flags.
FlagsOK ==
    /\ enable \in [Word -> BOOLEAN]
    /\ blank \in BOOLEAN /\ hasScreen \in BOOLEAN /\ hasSchedule \in BOOLEAN
    /\ alone \in BOOLEAN

\* The type of every variable.
TypeOK ==
    /\ FlagsOK
    /\ nvs \in [StoredWord -> Value] /\ mem \in [StoredWord -> Value]
    /\ sched \in [Word -> Value] /\ screen \in [Word -> Value] /\ ws \in [Word -> Value]
    /\ ph \in [Writer -> Phase] /\ k \in [Writer -> StoredWord]
    /\ local \in [Writer -> [StoredWord -> Value]] /\ req \in [Writer -> Request]
    /\ sets \in 0..MaxSets /\ restarts \in 0..MaxRestarts /\ faults \in 0..MaxFaults
    /\ settled \in Value

\* Between requests all five copies agree, word by word, unless two writers
\* overlapped: the screen's handler, the server's and the boot each reach every
\* copy, and a device that restarts reads the same setting back.
CopiesAgree ==
    Writing = {} /\ alone =>
        /\ mem = nvs
        /\ \A w \in Word : screen[w] = nvs[w] /\ ws[w] = nvs[w]
        /\ Enabled(nvs) => /\ \A w \in Word : sched[w] = nvs[w]
                           /\ \A w \in Word : enable[w]

\* A setting that was made undisturbed stays in the flash, whole, until the next
\* request, whatever restarts happen in between.
SettledSurvives == settled # Garbage => nvs = Whole(settled, StoredWord)

\* Memory without a setting never reaches the flash, whoever overlaps with whom and
\* wherever the power fails.
FlashNeverGarbage == \A w \in StoredWord : nvs[w] # Garbage

=============================================================================
