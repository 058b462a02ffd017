----------------------------- MODULE ModemCmd ------------------------------
(***************************************************************************)
(* AT commands between the link task and the modem (components/modem).     *)
(*                                                                         *)
(* The link task runs bg96_init: it binds a new DCE object to the DTE and  *)
(* sends commands, each one being: install a line handler, reset the       *)
(* state, write, wait for process_sem with a time-out, remove the handler, *)
(* look at the state.  uart_event_task reads the modem's lines and calls   *)
(* the handler, which sets the state and gives the semaphore.  Nothing     *)
(* ties an answer to its command, and the modem may answer late or never.  *)
(*                                                                         *)
(* The modem answers in the order of the commands, so that its lines need  *)
(* no queue: `answered' commands have an answer, the lines of `read' ones  *)
(* have been read.  A query is answered by a data line and OK.  The modem   *)
(* also sends lines nobody asked for (registration, signal, SMS), which no *)
(* handler can tell from an answer; such a line holds no OK but may hold   *)
(* ERROR.                                                                  *)
(***************************************************************************)
EXTENDS Naturals

CONSTANTS PlainCmds,   \* commands of bg96_init answered by OK (sync, echo)
          QueryCmds,   \* ... and those after it that ask for a value
          MaxCmds,     \* commands sent altogether
          MaxUnasked   \* lines the modem sends unasked

ASSUME CmdAssumption ==
    /\ PlainCmds \in Nat /\ QueryCmds \in Nat /\ PlainCmds + QueryCmds > 0
    /\ MaxCmds \in Nat /\ MaxUnasked \in Nat

Cmd == 1..MaxCmds
Script == 1..(PlainCmds + QueryCmds)
KindAt(i) == IF i <= PlainCmds THEN "plain" ELSE "query"

VARIABLES
    cpc,        \* control point of the link task
    step,       \* which command of bg96_init it is at
    issued,     \* the last command written
    kind,       \* the kind of each command
    dce,        \* what dte->dce points to: none, a live object, a freed one
    handler,    \* dce->handle_line
    dstate,     \* dce->state
    sem,        \* process_sem
    stored,     \* the command whose data line was stored last
    answer, answered, read, half,    \* the modem; half: data line read, OK not
    unasked,    \* lines sent unasked so far
    raw,        \* is the detection of line ends off?
    upc, line, uhandler,  \* the line at hand and its handler
    held,       \* the DCE it uses: the DTE's present one, or one that was freed
                \* or replaced since
    result, data,    \* what the caller got
    by, credit,      \* history: whose answer set the state, made a success
    clean, late,     \* history: see Write, ReadUnasked and Timeout
    touched          \* history: was an event handled with a destroyed DCE?

caller == <<cpc, step>>
object == <<dce, handler, dstate, stored>>
modem  == <<answer, answered>>
lines  == <<read, half, raw, unasked>>
uart   == <<upc, line, uhandler, held>>
told   == <<result, data, credit>>
marks  == <<clean, late, touched>>
vars   == <<caller, issued, kind, object, sem, modem, lines, uart, told, by, marks>>

NoLine == [of |-> 0, text |-> "ok"]

Init ==
    /\ cpc = "rest" /\ step = 1 /\ issued = 0
    /\ kind = [c \in Cmd |-> "plain"]
    /\ dce = "none" /\ handler = "null" /\ dstate = "processing" /\ stored = 0
    /\ sem = 0
    /\ answer = [c \in Cmd |-> "none"] /\ answered = 0
    /\ read = 0 /\ half = FALSE /\ raw = FALSE /\ unasked = 0
    /\ upc = "idle" /\ line = NoLine /\ uhandler = "null" /\ held = "present"
    /\ result = [c \in Cmd |-> "none"] /\ data = [c \in Cmd |-> 0]
    /\ by = 0 /\ credit = 0
    /\ clean = {} /\ late = {} /\ touched = FALSE

-----------------------------------------------------------------------------
(* The link task.                                                          *)

\* sim7600_init, bg96_init: a new object, bound to the DTE.  It replaces one
\* that is in use (and leaks it), or the pointer to one that was freed, whose
\* memory it may get.
Bind ==
    /\ cpc = "rest"
    /\ dce' = "live" /\ handler' = "null" /\ dstate' = "processing" /\ stored' = 0
    /\ by' = 0 /\ step' = 1 /\ cpc' = "install"
    /\ IF dce = "freed" /\ held = "freed" THEN held' \in {"present", "replaced"}
       ELSE held' = IF upc = "idle" THEN "present" ELSE "replaced"
    /\ UNCHANGED <<issued, kind, sem, modem, lines, upc, line, uhandler, told, marks>>

Install ==
    /\ cpc = "install"
    /\ handler' = KindAt(step) /\ cpc' = "write"
    /\ UNCHANGED <<step, issued, kind, dce, dstate, stored, sem, modem, lines,
                   uart, told, by, marks>>

\* Mutant: the state keeps the outcome of the command before.
WriteKeepsState ==
    /\ cpc = "write" /\ issued < MaxCmds
    /\ issued' = issued + 1
    /\ kind' = [kind EXCEPT ![issued + 1] = KindAt(step)]
    /\ cpc' = "wait"
    /\ UNCHANGED <<step, object, by, clean, sem, modem, lines, uart, told, late, touched>>

\* Reset the state and write.  The start is clean if no earlier answer is
\* still to come, being handled or signalled.
Write ==
    /\ cpc = "write" /\ issued < MaxCmds
    /\ dstate' = "processing" /\ by' = 0
    /\ issued' = issued + 1
    /\ kind' = [kind EXCEPT ![issued + 1] = KindAt(step)]
    /\ cpc' = "wait"
    /\ clean' = IF read = issued /\ upc = "idle" /\ sem = 0
                THEN clean \cup {issued + 1} ELSE clean
    /\ UNCHANGED <<step, dce, handler, stored, sem, modem, lines, uart, told,
                   late, touched>>

TakeSem ==
    /\ cpc = "wait" /\ sem = 1
    /\ sem' = 0 /\ cpc' = "done"
    /\ UNCHANGED <<step, issued, kind, object, modem, lines, uart, told, by, marks>>

Timeout ==
    /\ cpc = "wait" /\ sem = 0
    /\ cpc' = "timeout" /\ late' = late \cup {issued}
    /\ UNCHANGED <<step, issued, kind, object, sem, modem, lines, uart, told, by,
                   clean, touched>>

\* handle_line = NULL, on both paths
Clear ==
    /\ cpc \in {"done", "timeout"}
    /\ handler' = "null"
    /\ cpc' = IF cpc = "done" THEN "check" ELSE "failed"
    /\ UNCHANGED <<step, issued, kind, dce, dstate, stored, sem, modem, lines,
                   uart, told, by, marks>>

\* Mutant: the caller trusts send_cmd and does not look at the state.
CheckSendOnly ==
    /\ cpc = "check"
    /\ result' = [result EXCEPT ![issued] = "ok"]
    /\ credit' = by /\ data' = [data EXCEPT ![issued] = stored]
    /\ \/ step + 1 \in Script /\ step' = step + 1 /\ cpc' = "install"
       \/ step + 1 \notin Script /\ cpc' = "ready" /\ UNCHANGED step
    /\ UNCHANGED <<issued, kind, object, sem, modem, lines, uart, by, marks>>

\* The caller's look at dce->state.
Check ==
    /\ cpc = "check"
    /\ \/ /\ dstate = "success"
          /\ result' = [result EXCEPT ![issued] = "ok"]
          /\ credit' = by /\ data' = [data EXCEPT ![issued] = stored]
          /\ \/ step + 1 \in Script /\ step' = step + 1 /\ cpc' = "install"
             \/ step + 1 \notin Script /\ cpc' = "ready" /\ UNCHANGED step
       \/ /\ dstate # "success" /\ cpc' = "failed"
          /\ UNCHANGED <<step, told>>
    /\ UNCHANGED <<issued, kind, object, sem, modem, lines, uart, by, marks>>

\* err_io: the object is freed, dte->dce keeps pointing to it.
Fail ==
    /\ cpc = "failed"
    /\ result' = [result EXCEPT ![issued] = "failed"]
    /\ dce' = "freed"
    /\ held' = IF upc # "idle" /\ held = "present" THEN "freed" ELSE held
    /\ cpc' = "rest"
    /\ UNCHANGED <<step, issued, kind, handler, dstate, stored, sem, modem, lines,
                   upc, line, uhandler, data, credit, by, marks>>

\* The link was up and is lost: the loop starts over.  change_mode turned the
\* detection of line ends off for PPP, and nothing turns it on again.
LinkLost ==
    /\ cpc = "ready" /\ cpc' = "rest" /\ raw' = TRUE
    /\ UNCHANGED <<step, issued, kind, object, sem, modem, read, half, unasked,
                   uart, told, by, marks>>

-----------------------------------------------------------------------------
(* The modem.                                                              *)

AnswerNext ==
    /\ answered < issued
    /\ answered' = answered + 1
    /\ \E a \in {"ok", "error", "lost"} : answer' = [answer EXCEPT ![answered + 1] = a]
    /\ UNCHANGED <<caller, issued, kind, object, sem, lines, uart, told, by, marks>>

\* No line comes of a command the modem did not receive.
SkipLost ==
    /\ read < answered /\ answer[read + 1] = "lost"
    /\ read' = read + 1
    /\ UNCHANGED <<caller, issued, kind, object, sem, modem, half, raw, unasked,
                   uart, told, by, marks>>

-----------------------------------------------------------------------------
(* uart_event_task.                                                        *)

\* The next line on the UART.
NextLine ==
    [of |-> read + 1,
     text |-> IF kind[read + 1] = "query" /\ answer[read + 1] = "ok" /\ ~half
              THEN "data" ELSE answer[read + 1]]

\* A line is read.  Without a DCE the UART is flushed; without a handler the
\* line is reported as unknown; the fields of a freed DCE are read all the
\* same (and handle_line, the last thing written there, is still NULL).
ReadLine ==
    /\ upc = "idle" /\ read < answered /\ answer[read + 1] # "lost"
    /\ half' = (NextLine.text = "data")
    /\ read' = IF NextLine.text = "data" THEN read ELSE read + 1
    /\ IF dce = "live" /\ handler # "null"
       THEN upc' = "line" /\ line' = NextLine /\ uhandler' = handler
       ELSE UNCHANGED <<upc, line, uhandler>>
    /\ touched' = (touched \/ dce = "freed")
    /\ UNCHANGED <<caller, issued, kind, object, sem, modem, raw, unasked, held,
                   told, by, clean, late>>

\* A line nobody asked for: it goes to whatever handler is installed, and a call
\* under way no longer counts as clean.
ReadUnasked ==
    /\ upc = "idle" /\ unasked < MaxUnasked
    /\ unasked' = unasked + 1
    /\ IF dce = "live" /\ handler # "null"
       THEN /\ upc' = "line" /\ uhandler' = handler
            /\ \E t \in {"data", "error"} : line' = [of |-> 0, text |-> t]
            /\ clean' = IF cpc = "write" THEN clean ELSE clean \ {issued}
       ELSE UNCHANGED <<upc, line, uhandler, clean>>
    /\ touched' = (touched \/ dce = "freed")
    /\ UNCHANGED <<caller, issued, kind, object, sem, modem, read, half, raw, held,
                   told, by, late>>

\* With the detection off, esp_handle_uart_data hands over all that has arrived
\* as one line: an OK in it counts first, a value in it is not seen.
ReadChunk ==
    /\ raw /\ upc = "idle"
    /\ \E last \in Cmd, c \in Cmd :
        /\ read < c /\ c <= last /\ last <= answered
        /\ answer[last] # "lost" /\ answer[c] # "lost"
        /\ answer[c] = "error" => \A d \in Cmd : read < d /\ d <= last => answer[d] # "ok"
        /\ read' = last /\ half' = FALSE
        /\ IF dce = "live" /\ handler # "null"
           THEN /\ upc' = "line" /\ uhandler' = handler
                /\ line' = [of |-> c, text |-> answer[c]]
           ELSE UNCHANGED <<upc, line, uhandler>>
    /\ touched' = (touched \/ dce = "freed")
    /\ UNCHANGED <<caller, issued, kind, object, sem, modem, raw, unasked, held,
                   told, by, clean, late>>

\* The handler: a query's takes any other line for its value, the others
\* ignore it; OK and ERROR set the state.  What goes to an object that is no
\* longer the DTE's does not reach the caller.
HandleLine ==
    /\ upc = "line"
    /\ IF line.text = "data"
       THEN /\ upc' = "idle" /\ held' = "present"
            /\ stored' = IF uhandler = "query" /\ held = "present" THEN line.of ELSE stored
            /\ UNCHANGED <<dstate, by>>
       ELSE /\ upc' = "give" /\ UNCHANGED held
            /\ dstate' = IF held # "present" THEN dstate
                         ELSE IF line.text = "ok" THEN "success" ELSE "fail"
            /\ by' = IF held # "present" THEN by ELSE line.of
            /\ UNCHANGED stored
    /\ UNCHANGED <<caller, issued, kind, dce, handler, sem, modem, lines, line,
                   uhandler, told, marks>>

\* Mutant: the semaphore counts.
GiveSemCounting ==
    /\ upc = "give"
    /\ sem' = sem + 1 /\ upc' = "idle" /\ held' = "present"
    /\ UNCHANGED <<caller, issued, kind, object, modem, lines, line, uhandler,
                   told, by, marks>>

\* process_cmd_done; giving a semaphore that is given already does nothing
GiveSem ==
    /\ upc = "give"
    /\ sem' = 1 /\ upc' = "idle" /\ held' = "present"
    /\ UNCHANGED <<caller, issued, kind, object, modem, lines, line, uhandler,
                   told, by, marks>>

-----------------------------------------------------------------------------
Next ==
    \/ Bind \/ Install \/ Write \/ TakeSem \/ Timeout \/ Clear \/ Check \/ Fail
    \/ LinkLost
    \/ AnswerNext \/ SkipLost
    \/ ReadLine \/ ReadUnasked \/ ReadChunk \/ HandleLine \/ GiveSem

Spec == Init /\ [][Next]_vars

-----------------------------------------------------------------------------
\* The flags.
FlagsOK == half \in BOOLEAN /\ raw \in BOOLEAN /\ touched \in BOOLEAN

\* The type of every variable.
TypeOK ==
    /\ FlagsOK
    /\ cpc \in {"rest", "install", "write", "wait", "done", "timeout", "check",
                "failed", "ready"}
    /\ step \in Script /\ issued \in 0..MaxCmds
    /\ kind \in [Cmd -> {"plain", "query"}]
    /\ dce \in {"none", "live", "freed"}
    /\ handler \in {"null", "plain", "query"}
    /\ dstate \in {"processing", "success", "fail"} /\ stored \in 0..MaxCmds
    /\ sem \in {0, 1}
    /\ answer \in [Cmd -> {"none", "ok", "error", "lost"}]
    /\ answered \in 0..MaxCmds /\ read \in 0..MaxCmds /\ unasked \in 0..MaxUnasked
    /\ upc \in {"idle", "line", "give"}
    /\ line \in [of : 0..MaxCmds, text : {"ok", "error", "data"}]
    /\ uhandler \in {"null", "plain", "query"}
    /\ held \in {"present", "freed", "replaced"}
    /\ result \in [Cmd -> {"none", "ok", "failed"}] /\ data \in [Cmd -> 0..MaxCmds]
    /\ by \in 0..MaxCmds /\ credit \in 0..MaxCmds
    /\ clean \subseteq Cmd /\ late \subseteq Cmd

\* The commands as CommandSpec sees them.
Commands == INSTANCE CommandSpec
    WITH MaxCmds <- MaxCmds, issued <- issued, answer <- answer,
         credit <- credit, result <- result

\* Whatever comes late, a command succeeds only on an OK of the modem to it or
\* to an earlier command, and no OK makes two commands succeed (send_cmd,
\* esp_modem.c:292-310, with the handlers of bg96.c).
Implements == Commands!Spec

\* A command sent when no earlier answer was outstanding, and whose handler got no
\* line unasked, gets its own answer: it succeeds only if the modem said OK to it,
\* and before the first PPP session also with its own value; it fails only if the
\* modem said ERROR to it or the time-out came first.  So there are two ways to a
\* mix-up and no third: a command sent while an earlier answer was still to come,
\* and an unsolicited line between its writing and its answer, which a query
\* stores as its value (bg96.c:107, 128, 149) and an ERROR in which ends the wait.
CleanStartExact ==
    \A c \in clean :
        /\ result[c] = "ok" => answer[c] = "ok" /\ (kind[c] = "query" /\ ~raw => data[c] = c)
        /\ result[c] = "failed" => answer[c] = "error" \/ c \in late

\* uart_event_task takes no action on an event after the DCE was destroyed, as
\* the comment at esp_modem.c:240-242 says.
NoEventAfterDestroy == ~touched

=============================================================================
