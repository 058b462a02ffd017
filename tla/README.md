# Verification of the street-light controller firmware

The firmware under `main/` runs on an ESP32 and switches a street lamp: by a
three-position switch (off, automatic, manual), by a daily active time, by a
touch screen and by commands of a server that it reaches over a cellular modem.
This directory holds TLA+ models of that firmware, the TLC configurations that
check them, and TLAPS proofs of their main invariants. `PROJECT.json` lists
components, runs, mutants, the map from definitions to source lines, hazards and
theorems in machine-readable form.

Run a model with `tlc -workers 2 -config X.cfg M`, check proofs with
`tlapm MProofs.tla`. The whole set of runs takes about a quarter of an hour.

## 1. Inventory

The whole program is a set of FreeRTOS tasks on two cores. They share handles
(plain C structures) without a single lock, and they talk through one function,
`event_callback` in `app_main.c`, which every task calls synchronously: a
callback is a chain of calls into other components, executed by the task that
raised the event. That is where the difficulty lies. Any two chains interleave
between, and on two cores inside, any two calls.

| Component | Source | State | Operations |
|---|---|---|---|
| Dispatcher, boot | `app_main.c` | the handles, NULL until stored | one case per event; boot order storage, network, websocket, OTA, screen, schedule, GPS, controller |
| Lamp controller | `app_controller.c` | `mode` (uninitialised at first), `relay_state`, two pins | sample the switch every second; `control_relay`; `force_manual`; `get_mode` |
| Schedule | `app_schedule.c` | `is_sync`, `is_force_sync`, `is_init_sntp`, `n_sync_time`, `mode`, `start`, `end` | find a time; evaluate the active time every second; restart at noon; set time; force a synchronisation; add an alarm |
| Storage | `app_storage.c` | one blob in flash and its copy in memory | load, set, save |
| Session | `app_websocket.c` | connected, logged, device id, cached mode, power and active time, two ring buffers, one pack buffer | connect, register, login, drain reports; receive and process; report |
| Screen | `app_nextion.c` | mode and its text, active time, page, sleeping | read task (buttons, times, pages); write task (refresh by page) |
| GPS | `app_gps.c` | a global form and a flag | every 30 s switch the UART over, read a fix, hand the time over |
| Network, PPP | `app_network.c`, `app_pppos.c` | connected | dial, wait for an address, notice its loss |
| Modem | `components/modem` | DCE state, line handler, semaphore, mode | send a command and wait, handle lines, change mode |
| OTA | `app_ota.c` | a binary semaphore | force, download, restart |
| Clock chip | `ds3231.c`, `i2cdev.c` | the time kept by the battery | get, set (BCD) |
| Meter | `app_modbus.c` | - | disabled in this build |

How they interact: the switch, the schedule's trigger, the screen's buttons and
the server's commands all end in `control_relay`; a change of mode is copied to
screen, schedule and websocket; a setting of the active time is copied to
storage, flash, schedule, screen and websocket; screen, GPS, SNTP and the clock
chip all write the time that the schedule evaluates.

What is hard, and the properties that make each part correct:

* **Lamp and mode.** Chains of four tasks interleave; the mode is checked before
  it is used; the restart at noon forgets `relay_state` and keeps the pins.
  Correct means: the pins carry what the firmware believes and reports, everybody
  holds the same mode, a switch that is off stays in force, and in automatic mode
  the lamp follows the active time in the end.
* **Time.** Three flags and a counter written by three tasks, four sources, a
  network that comes and goes. Correct means: a good time is not replaced by the
  one of 1970, and the schedule does not stop while there is a source of time. Two
  ways to a stop are in the code and named by the properties: a silent time server,
  and a year that the clock chip can hold and the 32-bit system clock cannot.
* **Active time.** The decision has to be right over midnight and stay right while
  the loop is held up by a search for a time; five copies of a setting have to
  agree, during boot and after a loss of power too.
* **Session.** Four kinds of tasks share a handle, one buffer in which every
  message is packed, and two bounded rings; connections are lost and answers come
  late. Correct means: a session counts as logged in only where the server
  accepted it, it comes up again after every outage, and the server ends up with
  the state of the device.
* **Modem commands.** Nothing ties an answer to its command: a handler and a
  semaphore of the present command take whatever line arrives. Correct means: a
  command succeeds only on an OK, no OK counts twice, and a command sent into
  silence gets its own answer unless the modem says something unasked.
* **Link, GPS, update.** One flag, one event bit and lwIP's own state have to agree;
  one wait has no time-out; the GPS turns the multiplexer and uses the UART of the
  modem; a connection can end without the event that clears the flag; a request for
  an update can meet a running one, which may never return. Correct means: the task
  dials only a dead link, the flag follows the link, the link comes up, no request
  for an update is lost silently, and the SIM is selected when it is used.

The list of hazards, each with its line, is in `PROJECT.json`.

## 2. Plan

Order of work, the most important behaviour first:

1. `LampControl` with `LampControlProofs`: lamp and mode. *Done.*
2. `TimeSync` with `TimeSyncProofs`: where the time comes from. *Done.*
3. `ActiveWindow` with `ActiveWindowProofs`: the decision against a reference
   definition. *Done.*
4. `ActiveTime` with `ActiveTimeProofs`: the copies of a setting, boot, crashes.
   *Done.*
5. `WsSession` with `WsSessionProofs` and `WsReportsProofs`: connect, register, login,
   the queues and the pack buffer, late answers, that the server ends up with the last
   state. *Done.*
6. `CommandSpec`, `ModemCmd`, `ModemCmdProofs`: one command in flight, answers,
   time-outs, late answers, and what that promises the caller. *Done.*
7. `PppLink`, `Uplink`, `UplinkProofs`: the dial loop over an abstract modem, composed
   with the GPS task on the same UART and with the firmware update. *Done.*
8. Open: the GPS's local time as an operator against a reference calendar.
9. Open: an abstract lamp (commands take effect at one instant, one at a time) and
   `LampControl` restricted to undisturbed calls shown to implement it.

## 3. Models

| Module | Models | Lines of its code |
|---|---|---|
| `LampControl` | `_gpio_task`, `control_relay`, `force_manual`, the trigger and noon part of `_schedule_task`, the screen's buttons, CONTROL and FREE of the server | `app_controller.c`, `app_main.c:73-90, 172-227`, `app_schedule.c:223-304` |
| `TimeSync` | `_sync_time`, the year check, the setters | `app_schedule.c:39-239, 343-400` |
| `ActiveWindow` | the loop of `_schedule_task`: waits, skips and the comparison with start and end | `app_schedule.c:223-295, 319-341, 402-408` and the range checks of the inputs |
| `ActiveTime` | storage, both handlers of a setting, boot | `app_storage.c`, `app_main.c:95-119, 135-156, 255-375` |
| `WsSession` | the client's events, `_websocket_task`, `_rx_process_task`, the reports | `app_websocket.c`, `app_main.c` (CONNECTED, DISCONNECTED, ONLINE) |
| `CommandSpec` | what the modem library promises for a command | abstract |
| `ModemCmd` | `send_cmd`, the line handlers, `uart_event_task`, `bg96_init` | `components/modem/src`: `esp_modem.c`, `bg96.c`, `esp_modem_dce_service.c` |
| `PppLink` | `Power_On_Sim`, `_ppp_task`, `on_ip_event`, the change of mode | `app_pppos.c`, `esp_modem.c`, `bg96.c`, `sim7600.c` |
| `Uplink` | `PppLink` with `_gps_task` and `_ota_task` | `app_gps.c`, `app_ota.c` |

### LampControl

`pc[t]` is the next call in the chain of task `t`, `op[t]` the operation it
belongs to; every statement that reads or writes shared state is an action.
`gpio_set_level(pin, handle->relay_state)` is two steps, the load of the argument
and the write, because another task can store `relay_state` in between. The
schedule's `mode` is tested one step after the clock was read and one before the
callback. The model starts when `app_controller_init` has created its task;
`ready` is whether `app_main` has stored the handle, before that the controller's
functions return at once. `Restart` is `esp_restart` at noon: everything goes back
to `Init` but the output latches, which the SDK's restart does not touch. The
uninitialised `handle->mode` is a free choice of four values, "garbage" being one
that is no mode.

Abstracted: the clock is inside the active time, outside, or unknown, which may
change at any time. "Unknown" stands for all that keeps the loop from its mode
check: `AWAIT(_sync_time)` that does not return, a year before 2021, an alarm that
is not enabled. `SearchBegins` and `SearchEnds` enter and leave it, and a search
need not end. The screen's page commands and texts, the status LED and the reports' way to the
server are left out. `dispatchAlone`, `drivenAlone` and `lateOn` are history
variables. No guard reads them.

### TimeSync

A clock is abstracted to its year, all that the code tests of it: `epoch` (1970, a
clock that was never set), `early`, `y2021` and `after` (before, in and after 2021,
since the year tests of the code treat 2021 differently), `late` and `far`. `late` is a
year from 2038 on: one byte of BCD holds 1900 to 2059, so the DS3231 keeps it
(`ThroughBcd`), while the 32-bit `time_t` overflows (`ThroughTimeT`) and the system clock
shows some other year. `far` is a year that neither holds, such as the 0 of a GPS form
that is not filled in yet (`app_gps.c:178-187`); either clock then shows any year.
The screen accepts all of them. One action per statement of `_sync_time` that touches a
flag or a clock. SNTP is a thread of its own that sets the clock and then posts a
status which the next poll takes. I2C transfers may fail, up to `MaxFaults`.
A failing read at boot (line 212) ends the task function, which aborts the device;
the model starts from a boot that succeeds.

### ActiveWindow

A day has `HoursPerDay` hours of `MinutesPerHour` minutes. The clock (`MinutePasses`,
`ClockIsSet`), the settings (`AddAlarm`, `SetMode`) and the loop are separate actors. The
loop reads the clock (`ReadClock`) only while a time is known, `known` being that
`_sync_time` returns and the year is plausible, and compares in a later step: it skips
(`SkipTrigger`) in another mode or without both alarms, or asks for the lamp
(`Trigger`). Nothing says how often it does so. `Active` is the code's comparison;
`FollowsArc` compares what was last asked for with a definition that never mentions
midnight: going forward from the start, the present minute comes no later than the
end. `due` and `stale` are history: has an edge passed, or clock or alarm been set,
since the clock was read for the last trigger, or for the one under way. The alarms
come from `malloc`, from the screen (bounded from above only) and from the server
(unbounded); one value beyond each bound stands for the rest.

### ActiveTime

Every request has a number and a copy records, word by word, whose value it
holds, so that mixed copies are visible. Word -1 is memory without a setting. The
writers are `app_main` while it boots, the screen and the receiver of the server's
messages; the receiver exists before the screen and the schedule do. A crash is
possible between any two words and leaves the flash. `nvs_set_blob` is taken as
atomic, since NVS adds the new entries before it erases the old ones.
`alone` and `settled` are history variables.

### WsSession

The client task of the SDK's `esp_websocket_client`, `_websocket_task` (`spc`),
`_rx_process_task` (`pc["rx"]`) and the tasks that report (`Reporter`) are separate
actors. `alive` is the transport, `client` what the client task believes of it;
`event` is where it stands inside `websocket_event_handler`, whose statements on
the handle are separate steps, and while it is inside it holds the client's lock:
a send waits for it, or gives up after a second and the message is lost. The server is external: it answers a registration and a login
and stores a report if the login was accepted on this connection.

* A value is the number of the update that made it, so that stale values show.
* `ws_tx_buffer` is one buffer: `Packers` are the tasks between packing and copying.
  If two of them overlap, each may copy its own message, the other's or a mixture,
  which the server cannot decode (`Copied`, `Torn`).
* A second registration frees `device_id` before it stores the new one; in between a
  test of the string, and the message made of it, can be anything
  (`app_websocket.c:420`).
* 30 s are abstracted to "the request is due again". A server slower than that is
  possible `MaxRetries` times, otherwise a retry comes after the answer.
* `late` and `spoiled` are history. `late`: `is_logged` was set by an answer of an
  earlier connection. `spoiled`: the kinds whose last report was torn, dropped, lost
  on a dying connection or overtaken. No guard reads them.

`_app_ws_send_ping` is never called. The commands of the server are in
`LampControl`, `ActiveTime` and `Uplink`, where they have their effect.

### CommandSpec and ModemCmd

`CommandSpec` is the promise: commands one at a time, each returns once, and with
success only on the strength of an OK to it or to an earlier one, no OK being used
twice. `ModemCmd` is the code: install the handler, reset the state, write, wait on a
binary semaphore, remove the handler, look at the state, against `uart_event_task`,
which reads a line, loads the handler, runs it and gives the semaphore in separate
steps. The modem answers in order, late, with ERROR or not at all. A query has a
data line and an OK; the handlers of queries store any data line. `ReadUnasked` is a
line nobody asked for, at most `MaxUnasked` times: without a handler it is only
reported (`esp_modem.c:108-112`), with one it is the present command's, as a value or as
an ERROR. An echo counts as such a line. Assumed: a line that no command asked for
contains no "OK"; the library looks for these two letters anywhere in a line
(`bg96.c:101`), so text with them in it would make a command succeed unanswered.

`dce` and `held` follow the pointer: a failing `bg96_init` frees the DCE that
`dte->dce` points to, and the UART task may be in the middle of using it; the next
attempt may get the same memory. After a PPP session the detection of line ends is
off for good (`raw`): text arrives in chunks and is not split into lines.

### PppLink and Uplink

`lpc` is `_ppp_task`; `ppp` is lwIP's state, `ipev` the events it has posted, `hpc` the
handler that sets `is_connected` and then `CONNECT_BIT`, `start` the event that makes
`uart_event_task` start PPP. An AT command succeeds or fails as a whole. A connection
that is up can go back to negotiating (`again`; `link_down` in lwIP's `auth.c`), which posts
nothing, and is announced a second time when that succeeds (`Renegotiated`). Every end
is `ReportsEnd`: a LOST_IP, or, for a failed authentication, a loopback, a protocol error
or a dead peer, nothing that `on_ip_event` hears of (`esp_netif_lwip_ppp.c:98-135`);
`silent` is the history of such an end. `DiesUnnoticed`
is a carrier that is gone without lwIP noticing it (`is_connected` stays true and
no code looks further). The GPS task turns the multiplexer and installs a driver on
the same UART; `esp_modem_dte_init` fails if there is one, returns NULL, and the task
dereferences it: `halted`, then `Reboot`. `gpsBuilt` is `ENABLE_GPS`, which
`app_main.c:41` defines; the run checks both builds, because with the GPS the link
cannot be shown to come up. A restart leaves the modem as it is. `esp_https_ota` succeeds,
fails or never returns: its loop has no time-out of its own.

## 4. Runs

| Run | Configuration | Result |
|---|---|---|
| `lamp_online` | `LampOnline.cfg`: 1 move, 1 command | 1.9 million states |
| `lamp_offline` | `LampOffline.cfg`: 1 move, 1 button, 1 restart, fairness | 0.7 million states |
| `time_sync` | `TimeSync.cfg`: 1 offline round, 1 poll, 1 operation at the screen, 1 fix, 1 fault, fairness | 0.9 million states |
| `active_window` | `ActiveWindow.cfg`: 3 hours of 2 minutes | 0.6 million states |
| `active_time` | `ActiveTime.cfg`: 2 settings, 1 restart, 1 fault | 2.2 million states |
| `ws_reports` | `WsReports.cfg`: 2 reporters (symmetric), 2 kinds, 2 updates, 1 connection, a ring of 2 | 1.3 million states |
| `ws_reconnect` | `WsReconnect.cfg`: 1 reporter, 1 update, 2 connections, 1 retry, 1 freed read | 1.6 million states |
| `ws_login` | `WsLogin.cfg`: 1 outage, 2 connections, 1 drop, 1 retry, 1 refusal, fairness | 0.5 million states |
| `modem_cmd` | `ModemCmd.cfg`: 4 commands, a script of one plain one and one query, 1 line unasked | 5.4 million states |
| `modem_destroy` | `ModemDestroy.cfg`: 2 commands | violation, a finding |
| `uplink` | `Uplink.cfg`: 2 faults, 2 losses, 1 renegotiation, fairness | 105,000 states |
| `sim_selected` | `SimSelected.cfg`: no faults | violation, a finding |

**lamp_online.** `LampMatchesRelayState`: only overlapping `control_relay` calls
or a restart make the lamp differ from what the firmware believes and reports.
`ModeCopiesAgree`: only overlapping dispatches make the copies of the mode differ.
`AtMostOneLateOn`: a mode check that precedes its use lets at most one command
per task through after the switch was turned off. One move of the switch, since
a second one restarts the argument, and one command are enough for two dispatches,
or two to three `control_relay` calls, to overlap in every order; the schedule
triggers without bound. With one command the server's half of `AtMostOneLateOn`
says little; the proofs cover any number of commands.

**lamp_offline.** `AutoFollowsWindow`, `PinsHeal`, `SwitchWins`: what the races of
the other run leave behind does not stay. `AutoFollowsWindow` has a known clock as its
condition: during a search for a time, which may last for good, `relay_state` stays
what it is. The restart is included, so `PinsHeal`
covers a lamp that stays lit while `relay_state` is 0. It heals only when the
schedule switches on again; the property has that as its condition. The run has no
server: a command to force the manual mode legitimately outlasts everything.

**time_sync.** `RtcNeverForgets`, `ScheduleKeepsRunning`, `ForcedSyncSettles`. The
code's limits 6 and 60 are 1 and 1, enough for a count, a last round and a reset.
`ScheduleKeepsRunning` has three cases: a reachable server, a good clock without a
network, and a good clock without a forced synchronisation, whatever network and server
do. Two standstills are thereby left open, and both are real. A forced synchronisation
with a network and a silent server polls for good, since only the offline branch
withdraws it. And a DS3231 with a year from 2038 on (`TrappedByRtc`) is adopted and found
wrong again and again, without the server being asked; without that premise TLC shows
the loop. Each is seen in the hazards.

**active_window.** All starts, ends and minutes of a small day, so every order of the
three, the equal ones and midnight occur, with the loop held up anywhere in between.
Three hours of two minutes are the least with a carry and an hour that is neither the
first nor the last; the proof covers days of any length. Deadlock is impossible and
checked.

**active_time.** `CopiesAgree`, `SettledSurvives`, `FlashNeverGarbage`. Two settings
are what can overlap; a third would only queue behind them, as there are two
tasks that make them. Deadlock is not checked: with the settings used up the
device rests.

**ws_reports.** `ServerInStep`: two tasks and the login report race for the buffer and
for a ring that can be full. Two reporters and the report of a login are three users
of one buffer; a fourth adds no new kind of overlap. Deadlock is checked: the session
task always has a step.

**ws_reconnect.** `LoggedInHere` and `ServerInStep` over a connection that is lost at any
point and made again, with a registration that is answered twice. Two connections
are an earlier one and a present one; a third makes the second the earlier one.

**ws_login.** `SessionComesUp`: whatever was lost, dropped, refused or late, a network
and transport that stay up lead to a session that stays logged in, and the screen
shows it.

**modem_cmd.** `Implements` is the refinement of `CommandSpec`; `CleanStartExact` says when
the outcome is the command's own, and thereby which two mix-ups there are: an answer
still outstanding when the command was written, and a line nobody asked for while it
waits. Four commands are two attempts at a script of two, so that an answer of the
first attempt can arrive in the second one, and one unasked line can come at any point
of them; the proofs cover any number of both. Deadlock
is not checked: the commands are used up.

**modem_destroy.** The comment at `esp_modem.c:240-242` says that no action is taken on
UART events after the DCE was destroyed. The test is for a NULL pointer, which a
failing `bg96_init` does not store: one command, its time-out, the free and a late
line are enough.

**uplink.** `DialsOnlyWhenDown`, `FlagFollowsLink`, `NeverWaitsInVain`, `LinkComesUp` and
`UpdateAttempted`. `NeverWaitsInVain` is what `LinkComesUp` needs of the states: the wait
without a time-out has something to wait for unless a failure was overlooked. Two
losses and two faults let a redial fail after a connection was lost. `FlagFollowsLink`
has one exception, an end without LOST_IP (`silent`); `LinkComesUp` accordingly allows for
a device that keeps a true flag over a dead PPP, and for one that waits at
`app_pppos.c:238` for good (`Stranded`, which is why deadlock is not checked).
`UpdateAttempted` speaks of a download that ends.

**sim_selected.** `Power_On_Sim` selects the SIM, waits 54 s and reports success; 30 s
after boot the GPS task has turned the multiplexer away.

Every property has a mutant, a plausible mistake in the code it is about, that
TLC finds to violate it; the mutated definitions stand before the definitions they
replace and are marked `Mutant`.

### Fairness

Every task of the firmware sleeps in its loop and FreeRTOS shares time among tasks
of one priority, so each task's next step is weakly fair: `SampleSwitch`,
`ScheduleLoop` and the chains in `LampControl`, `SyncStep` and the setters in
`TimeSync`. Storing the controller's handle is the next statement of `app_main`.
SNTP retries until it is stopped, so with a network and a server that stay it
answers. Switch, buttons, server, network, GPS and clock owe nothing, and neither
do `Restart` and `SearchEnds`: `AWAIT(_sync_time)` may not return, and `ScheduleLoop` is
enabled only while a time is known.

In `WsSession` the client task, the session task, the receiver and the calls of the
reporters are weakly fair, and so is the passing of 30 s. A client that tries to
connect again and again succeeds in the end (strong fairness of the connecting
branch of `Connect`), which is what a reachable server means; connections can still
be lost and requests refused, a bounded number of times. In `Uplink` the link task, the
handlers, the GPS task and the update task up to its download (`OtaBegins`) are weakly
fair; `DownloadFails` and `Downloaded` are not, because `esp_https_ota` goes round its
loop for as long as reads time out (`esp_https_ota.c:298-315, 405-410`). The stack ends what it has begun (a negotiation, the first or a later one, succeeds or times out,
a modem that lost its peer hangs up), and a halted device reboots. No loss, fault,
fix or request owes anything.

## 5. Proofs

All theorems are checked by TLAPS for every value of the constants, which have to
be natural numbers (`BoundsAreNat`; `DayAssumption`: a day with at least one hour
of at least one minute; `SessionAssumption`: rings with room for a message, a
list of reports that is not empty, reporters other than the session's own tasks;
`CmdAssumption`: a script of at least one command; `LinkAssumption`).

| Theorem | States | Rests on |
|---|---|---|
| `LampControlProofs!TypeCorrect` | `Spec => []TypeOK` | itself inductive |
| `LampControlProofs!LampMatches` | `Spec => []LampMatchesRelayState` | `DriveInv` |
| `LampControlProofs!ModeCopies` | `Spec => []ModeCopiesAgree` | `ChainInv`, `DispatchInv` |
| `LampControlProofs!LateOnBounded` | `Spec => []AtMostOneLateOn` | `DispatchInv`, `LateOnInv` |
| `TimeSyncProofs!TypeCorrect` | `Spec => []TypeOK` | itself inductive |
| `TimeSyncProofs!RtcKept` | `Spec => RtcNeverForgets` | `SourceInv` |
| `ActiveWindowProofs!ArcFollowed` | `Spec => []FollowsArc` | `Current` |
| `ActiveTimeProofs!TypeCorrect` | `Spec => []TypeOK` | `Shape` |
| `ActiveTimeProofs!FlashClean` | `Spec => []FlashNeverGarbage` | `Shape`, `Clean` |
| `ActiveTimeProofs!SettledStays` | `Spec => []SettledSurvives` | `Undisturbed`, `Kept` |
| `ActiveTimeProofs!CopiesInStep` | `Spec => []CopiesAgree` | `Clean`, `Undisturbed` |
| `WsSessionProofs!TypeCorrect` | `Spec => []TypeOK` | `Queued` |
| `WsSessionProofs!LoggedIn` | `Spec => []LoggedInHere` | `AnswersFresh`, `Accepted` |
| `WsReportsProofs!InStep` | `Spec => []ServerInStep` | `IInv`, `Places`, `Current`, `Packed`, `Delivery` |
| `ModemCmdProofs!TypeCorrect` | `Spec => []TypeOK` | part of `IInv` |
| `ModemCmdProofs!CommandsImplemented` | `Spec => Implements` | `Order`, `LineAtHand`, `StateEarned`, `Returned` |
| `ModemCmdProofs!CleanStart` | `Spec => []CleanStartExact` | `CleanInv` |
| `UplinkProofs!TypeCorrect` | `Spec => []TypeOK` | itself inductive |
| `UplinkProofs!DialsDown` | `Spec => []DialsOnlyWhenDown` | `OneToken`, `Waited`, `Dialling` |
| `UplinkProofs!FlagFollows` | `Spec => []FlagFollowsLink` | `Announced` |
| `UplinkProofs!WaitNotInVain` | `Spec => []NeverWaitsInVain` | `Announced`, `BitFollows` |

Why the invariants have to be strengthened:

* `LampMatchesRelayState` speaks of moments when nobody is in `control_relay`.
  `DriveInv` adds how far the one call inside has come: which of store, load,
  write and report have happened, and that it is the only one.
* `ModeCopiesAgree` likewise: `DispatchInv` says which copies the running dispatch
  has written. `ChainInv` ties control points to operations, so that a
  `control_relay` inside a dispatch still counts as part of it.
* `AtMostOneLateOn` counts what has happened. `LateOnInv` adds the command that
  has passed its check and not acted yet; with the switch off, and an undisturbed
  dispatch having told the schedule so, no second one can pass.
* `RtcNeverForgets` is a property of steps. `SourceInv` says that everything on its
  way into the DS3231 was read after its clock was set: a completed status implies
  a set clock from the moment it is posted to the moment it is saved.
* `FollowsArc` speaks of what was asked for some time ago. `Current` says that it, and
  the reading under way, are still the decision for the present minute while nothing
  has overtaken them; `EdgeStep` is the arithmetic, that a minute which passes no edge
  does not change the decision (`NextMinute` moves one minute on or to midnight).
* `FlashNeverGarbage` speaks of the flash, which gets what memory holds. `Clean` says
  that the words a writer has passed, and the form at the screen it copies from, hold
  a setting, whoever overlaps; `Shape` that the screen's handler runs only after
  `app_main` has created the screen, the one writer that may copy garbage.
* `CopiesAgree` speaks of a device at rest. `Undisturbed` says for the one writer at
  work, `app_main` included, which words of which copies carry its value already.
  `Kept` adds that nobody is at work while a setting counts as settled.
* `LoggedInHere` needs to know the answers under way: `AnswersFresh` says that a login
  answer with the number of the present connection means that the server has accepted
  it, on the way and in the ring; `Accepted` extends the property to the moments at
  which the client task is inside its handler.
* `ServerInStep` speaks of a device at rest. `Delivery` says where the value of a kind that
  is not spoiled is before that: with the task that reports it (`Reported`), ahead of the
  login report (`ToReport`), or the last of its kind in `tx_rb`, or arrived (`Settling`).
  `Current` says that such a task carries the value of the cache and `Places` how far
  the login report is. The buffer makes it hard: a task may copy the message of another
  one, and `_websocket_task` even sends it past `tx_rb`. So a kind counts as `Settling` only
  if the buffer holds no old value of it, and `Packed` says the same of a kind whose task
  is about to copy. `Ends` is what the server will know after a queue; `EndsAppend` and
  `EndsTail` are all the proof needs about sequences. TLC has checked the four parts as
  invariants of `ws_reports` and `ws_reconnect`.
* `Implements` needs that lines are read in order and that the answer which set the
  state is later than all that made a command succeed (`StateEarned`, `LineAtHand`);
  this is what makes the OK of a late answer usable at most once. The theorem is the
  step simulation: each step of the code is a step of `CommandSpec` or a stutter.
* `CleanStartExact` needs that with nothing outstanding only the command's own lines
  can arrive (`OnlyMine`), with its handler in place (`HandlerInPlace`), until a line that
  nobody asked for takes the command out of the clean ones.
* `FlagFollowsLink` speaks of an empty queue. `Announced` says the same of the last event
  that is queued: it tells whether PPP is up, or has ended without a word.
* `DialsOnlyWhenDown` rests on one thought: a dialling brings about one `CONNECT_BIT`.
  `OneToken` follows it through its five forms, start event, negotiation, posted event,
  handler and bit; `Waited` says that only the wait goes with it. An address announced
  twice breaks this, and the property has that as its condition.
* `NeverWaitsInVain` has no such condition. Its critical step is a `PPP_START` that lwIP
  refuses because a connection is up. `BitFollows` says that the bit of that connection
  is still to come then: the task dials over a running PPP only if it read `is_connected`
  before `on_ip_event` had set it.

Only model-checked: the liveness properties `AutoFollowsWindow`, `PinsHeal`, `SwitchWins`,
`ScheduleKeepsRunning`, `ForcedSyncSettles`, `SessionComesUp`, `LinkComesUp` and
`UpdateAttempted`, because fairness and `ENABLED` are beyond the prover. Every invariant
and every action property of a passing run is proved. `NoEventAfterDestroy` and
`SimSelected` do not hold.

## 6. Not modelled

* The screen's pages, its sleep and its texts: formatting and layout.
* Parsing of GNRMC sentences, the seven hours added to UTC without a change of the
  date (`app_gps.c:164`), and day, hour and minute in the BCD of the clock chip: the
  models abstract a time to its year. The date of a local time is compared with nothing
  else.
* Stopping PPP, hanging up, powering the modem down, the prompt of an SMS,
  `app_ppp_destroy` and `_app_ws_send_ping`: no code calls them.
* The meter, the Wi-Fi branch, SIM800 and the compatibility layer: this firmware does
  not build or use them.
* Generated protobuf code; the SDK, but for the behaviour the firmware relies on
  (SNTP status, restart, NVS, the websocket client, lwIP's PPP, `esp_https_ota`).
* An unsolicited line of the modem that contains "OK", see `ModemCmd` above.
* `nvs_flash_init` failing and a clock chip that cannot be read at boot: the device
  restarts until it can.

Timing is abstracted to order: the models have no durations, so a second's delay and
a ten second one are both "later". Priorities, memory leaks and buffer sizes in bytes
are outside of what these models can express.
