--------------------------- MODULE ModemCmdProofs ---------------------------
(***************************************************************************)
(* Proofs about ModemCmd: it implements CommandSpec, whatever the number   *)
(* of commands and whatever comes late.                                    *)
(***************************************************************************)
EXTENDS ModemCmd, TLAPS

USE CmdAssumption DEF Cmd, Script

\* The first state is well typed.
LEMMA InitTypeOK == Init => TypeOK
<1> SUFFICES ASSUME Init PROVE TypeOK
  OBVIOUS
<1>1. FlagsOK
  BY DEF Init, FlagsOK
<1>2. /\ kind \in [Cmd -> {"plain", "query"}]
      /\ answer \in [Cmd -> {"none", "ok", "error", "lost"}]
      /\ result \in [Cmd -> {"none", "ok", "failed"}]
      /\ data \in [Cmd -> 0..MaxCmds]
  BY DEF Init
<1>3. line \in [of : 0..MaxCmds, text : {"ok", "error", "data"}]
  BY DEF Init, NoLine
<1>4. step \in Script
  BY DEF Init
<1>5. QED
  BY <1>1, <1>2, <1>3, <1>4 DEF Init, TypeOK

\* half, raw and touched stay flags.
LEMMA FlagsNext == FlagsOK /\ [Next]_vars => FlagsOK'
<1> SUFFICES ASSUME FlagsOK, [Next]_vars PROVE FlagsOK'
  OBVIOUS
<1> USE DEF FlagsOK, caller, object, modem, lines, uart, told, marks
<1>1. CASE Bind \/ Install \/ Write \/ TakeSem \/ Timeout
  BY <1>1 DEF Bind, Install, Write, TakeSem, Timeout
<1>2. CASE Clear \/ Check \/ Fail \/ LinkLost
  BY <1>2 DEF Clear, Check, Fail, LinkLost
<1>3. CASE AnswerNext \/ SkipLost \/ HandleLine \/ GiveSem
  BY <1>3 DEF AnswerNext, SkipLost, HandleLine, GiveSem
<1>4. CASE ReadLine \/ ReadUnasked \/ ReadChunk
  BY <1>4 DEF ReadLine, ReadUnasked, ReadChunk
<1>5. CASE UNCHANGED vars
  BY <1>5 DEF vars
<1>6. QED
  BY <1>1, <1>2, <1>3, <1>4, <1>5 DEF Next

\* The caller is between writing a command and returning from it.
Busy == cpc \in {"wait", "done", "timeout", "check", "failed"}

\* Lines are read after they were sent, and sent after the command.
Order ==
    /\ read <= answered /\ answered <= issued
    /\ Busy => issued > 0
    /\ \A c \in Cmd : answer[c] = "none" <=> c > answered

\* A line at hand is one the modem sent, and it is later than all those that
\* set the state or made a command succeed before; or it answers nothing, and
\* then it is no OK.
LineAtHand ==
    upc = "line" =>
        \/ /\ by < line.of /\ credit < line.of /\ line.of <= answered
           /\ line.text # "data" => line.of <= read /\ answer[line.of] = line.text
        \/ line.of = 0 /\ line.text # "ok"

\* The state is the modem's word, and new to the present command.
StateEarned ==
    /\ by <= read /\ credit <= read
    /\ dstate = "success" => by > 0 /\ answer[by] = "ok"
    /\ Busy /\ by > 0 => credit < by

\* A command has its result when the call has returned, and not before.
Returned ==
    /\ \A c \in Cmd : c > issued => result[c] = "none"
    /\ issued > 0 => (Busy <=> result[issued] = "none")

\* The inductive invariant.
IInv == TypeOK /\ Order /\ LineAtHand /\ StateEarned /\ Returned

\* Every step keeps the variables well typed.
LEMMA TypeOKNext == TypeOK /\ Order /\ [Next]_vars => TypeOK'
<1> SUFFICES ASSUME TypeOK, Order, [Next]_vars PROVE TypeOK'
  OBVIOUS
<1>0. FlagsOK'
  BY FlagsNext DEF TypeOK
<1> USE <1>0 DEF TypeOK, Order, Busy, caller, object, modem, lines, uart, told, marks
<1>1. CASE Bind
  BY <1>1 DEF Bind
<1>2. CASE Install
  BY <1>2 DEF Install, KindAt
<1>3. CASE Write
  BY <1>3 DEF Write, KindAt
<1>4. CASE TakeSem
  BY <1>4 DEF TakeSem
<1>5. CASE Timeout
  BY <1>5 DEF Timeout
<1>6. CASE Clear
  BY <1>6 DEF Clear
<1>7. CASE Check
  <2>1. CASE dstate = "success"
    <3>1. /\ result' = [result EXCEPT ![issued] = "ok"]
          /\ data' = [data EXCEPT ![issued] = stored]
          /\ credit' = by
      BY <1>7, <2>1 DEF Check
    <3>2. result' \in [Cmd -> {"none", "ok", "failed"}] /\ data' \in [Cmd -> 0..MaxCmds]
      BY <3>1
    <3>3. step' \in Script /\ cpc' \in {"install", "ready"}
      BY <1>7, <2>1 DEF Check
    <3>4. QED
      BY <1>7, <3>1, <3>2, <3>3 DEF Check
  <2>2. CASE dstate # "success"
    BY <1>7, <2>2 DEF Check
  <2>3. QED
    BY <2>1, <2>2
<1>8. CASE Fail
  BY <1>8 DEF Fail
<1>9. CASE LinkLost
  BY <1>9 DEF LinkLost
<1>10. CASE AnswerNext
  BY <1>10 DEF AnswerNext
<1>11. CASE SkipLost
  BY <1>11 DEF SkipLost
<1>12. CASE ReadLine
  BY <1>12 DEF ReadLine, NextLine
<1>12b. CASE ReadUnasked
  <2>1. line' \in [of : 0..MaxCmds, text : {"ok", "error", "data"}]
    BY <1>12b DEF ReadUnasked
  <2>2. unasked' \in 0..MaxUnasked /\ clean' \subseteq Cmd
    <3>1. unasked' \in 0..MaxUnasked
      BY <1>12b DEF ReadUnasked
    <3>2. clean' = clean \/ clean' = clean \ {issued}
      BY <1>12b DEF ReadUnasked
    <3>3. QED
      BY <3>1, <3>2
  <2>3. upc' \in {"idle", "line"} /\ uhandler' \in {"null", "plain", "query"}
    BY <1>12b DEF ReadUnasked
  <2>4. QED
    BY <1>12b, <2>1, <2>2, <2>3 DEF ReadUnasked
<1>12a. CASE ReadChunk
  BY <1>12a DEF ReadChunk
<1>13. CASE HandleLine
  BY <1>13 DEF HandleLine
<1>14. CASE GiveSem
  BY <1>14 DEF GiveSem
<1>15. CASE UNCHANGED vars
  BY <1>15 DEF vars
<1>16. QED
  BY <1>1, <1>2, <1>3, <1>4, <1>5, <1>6, <1>7, <1>8,
     <1>9, <1>10, <1>11, <1>12, <1>12b, <1>12a, <1>13, <1>14, <1>15 DEF Next

\* No line overtakes the command it answers.
LEMMA OrderNext == TypeOK /\ Order /\ [Next]_vars => Order'
<1> SUFFICES ASSUME TypeOK, Order, [Next]_vars PROVE Order'
  OBVIOUS
<1> USE DEF TypeOK, Order, Busy, caller, object, modem, lines, uart, told, marks
<1>1. CASE Bind
  BY <1>1 DEF Bind
<1>2. CASE Install
  BY <1>2 DEF Install
<1>3. CASE Write
  BY <1>3 DEF Write
<1>4. CASE TakeSem
  BY <1>4 DEF TakeSem
<1>5. CASE Timeout
  BY <1>5 DEF Timeout
<1>6. CASE Clear
  BY <1>6 DEF Clear
<1>7. CASE Check
  BY <1>7 DEF Check
<1>8. CASE Fail
  BY <1>8 DEF Fail
<1>9. CASE LinkLost
  BY <1>9 DEF LinkLost
<1>10. CASE AnswerNext
  BY <1>10 DEF AnswerNext
<1>11. CASE SkipLost
  BY <1>11 DEF SkipLost
<1>12. CASE ReadLine
  BY <1>12 DEF ReadLine, NextLine
<1>12b. CASE ReadUnasked
  BY <1>12b DEF ReadUnasked
<1>12a. CASE ReadChunk
  BY <1>12a DEF ReadChunk
<1>13. CASE HandleLine
  BY <1>13 DEF HandleLine
<1>14. CASE GiveSem
  BY <1>14 DEF GiveSem
<1>15. CASE UNCHANGED vars
  BY <1>15 DEF vars
<1>16. QED
  BY <1>1, <1>2, <1>3, <1>4, <1>5, <1>6, <1>7, <1>8,
     <1>9, <1>10, <1>11, <1>12, <1>12b, <1>12a, <1>13, <1>14, <1>15 DEF Next

\* Lines come in the order of the commands, each once.
LEMMA LineAtHandNext ==
    TypeOK /\ Order /\ LineAtHand /\ StateEarned /\ [Next]_vars => LineAtHand'
<1> SUFFICES ASSUME TypeOK, Order, LineAtHand, StateEarned, [Next]_vars
             PROVE  LineAtHand'
  OBVIOUS
<1> USE DEF TypeOK, Order, LineAtHand, StateEarned, Busy, caller, object, modem,
            lines, uart, told, marks
<1>1. CASE Bind
  BY <1>1 DEF Bind
<1>2. CASE Install
  BY <1>2 DEF Install
<1>3. CASE Write
  BY <1>3 DEF Write
<1>4. CASE TakeSem
  BY <1>4 DEF TakeSem
<1>5. CASE Timeout
  BY <1>5 DEF Timeout
<1>6. CASE Clear
  BY <1>6 DEF Clear
<1>7. CASE Check
  BY <1>7 DEF Check
<1>8. CASE Fail
  BY <1>8 DEF Fail
<1>9. CASE LinkLost
  BY <1>9 DEF LinkLost
<1>10. CASE AnswerNext
  BY <1>10 DEF AnswerNext
<1>11. CASE SkipLost
  BY <1>11 DEF SkipLost
<1>12. CASE ReadLine
  BY <1>12, SMTT(40) DEF ReadLine, NextLine
<1>12b. CASE ReadUnasked
  BY <1>12b DEF ReadUnasked
<1>12a. CASE ReadChunk
  BY <1>12a DEF ReadChunk
<1>13. CASE HandleLine
  BY <1>13 DEF HandleLine
<1>14. CASE GiveSem
  BY <1>14 DEF GiveSem
<1>15. CASE UNCHANGED vars
  BY <1>15 DEF vars
<1>16. QED
  BY <1>1, <1>2, <1>3, <1>4, <1>5, <1>6, <1>7, <1>8,
     <1>9, <1>10, <1>11, <1>12, <1>12b, <1>12a, <1>13, <1>14, <1>15 DEF Next

\* Only a line of the modem makes the state a success.
LEMMA StateEarnedNext ==
    TypeOK /\ Order /\ LineAtHand /\ StateEarned /\ [Next]_vars => StateEarned'
<1> SUFFICES ASSUME TypeOK, Order, LineAtHand, StateEarned, [Next]_vars
             PROVE  StateEarned'
  OBVIOUS
<1> USE DEF TypeOK, Order, LineAtHand, StateEarned, Busy, caller, object, modem,
            lines, uart, told, marks
<1>1. CASE Bind
  BY <1>1 DEF Bind
<1>2. CASE Install
  BY <1>2 DEF Install
<1>3. CASE Write
  BY <1>3 DEF Write
<1>4. CASE TakeSem
  BY <1>4 DEF TakeSem
<1>5. CASE Timeout
  BY <1>5 DEF Timeout
<1>6. CASE Clear
  BY <1>6 DEF Clear
<1>7. CASE Check
  BY <1>7 DEF Check
<1>8. CASE Fail
  BY <1>8 DEF Fail
<1>9. CASE LinkLost
  BY <1>9 DEF LinkLost
<1>10. CASE AnswerNext
  BY <1>10 DEF AnswerNext
<1>11. CASE SkipLost
  BY <1>11 DEF SkipLost
<1>12. CASE ReadLine
  BY <1>12 DEF ReadLine, NextLine
<1>12b. CASE ReadUnasked
  BY <1>12b DEF ReadUnasked
<1>12a. CASE ReadChunk
  BY <1>12a DEF ReadChunk
<1>13. CASE HandleLine
  BY <1>13, SMTT(40) DEF HandleLine
<1>14. CASE GiveSem
  BY <1>14 DEF GiveSem
<1>15. CASE UNCHANGED vars
  BY <1>15 DEF vars
<1>16. QED
  BY <1>1, <1>2, <1>3, <1>4, <1>5, <1>6, <1>7, <1>8,
     <1>9, <1>10, <1>11, <1>12, <1>12b, <1>12a, <1>13, <1>14, <1>15 DEF Next

\* One result for each call.
LEMMA ReturnedNext == TypeOK /\ Order /\ Returned /\ [Next]_vars => Returned'
<1> SUFFICES ASSUME TypeOK, Order, Returned, [Next]_vars PROVE Returned'
  OBVIOUS
<1> USE DEF TypeOK, Order, Returned, Busy, caller, object, modem, lines, uart, told, marks
<1>1. CASE Bind
  BY <1>1 DEF Bind
<1>2. CASE Install
  BY <1>2 DEF Install
<1>3. CASE Write
  BY <1>3 DEF Write
<1>4. CASE TakeSem
  BY <1>4 DEF TakeSem
<1>5. CASE Timeout
  BY <1>5 DEF Timeout
<1>6. CASE Clear
  BY <1>6 DEF Clear
<1>7. CASE Check
  BY <1>7 DEF Check
<1>8. CASE Fail
  BY <1>8 DEF Fail
<1>9. CASE LinkLost
  BY <1>9 DEF LinkLost
<1>10. CASE AnswerNext
  BY <1>10 DEF AnswerNext
<1>11. CASE SkipLost
  BY <1>11 DEF SkipLost
<1>12. CASE ReadLine
  BY <1>12 DEF ReadLine, NextLine
<1>12b. CASE ReadUnasked
  BY <1>12b DEF ReadUnasked
<1>12a. CASE ReadChunk
  BY <1>12a DEF ReadChunk
<1>13. CASE HandleLine
  BY <1>13 DEF HandleLine
<1>14. CASE GiveSem
  BY <1>14 DEF GiveSem
<1>15. CASE UNCHANGED vars
  BY <1>15 DEF vars
<1>16. QED
  BY <1>1, <1>2, <1>3, <1>4, <1>5, <1>6, <1>7, <1>8,
     <1>9, <1>10, <1>11, <1>12, <1>12b, <1>12a, <1>13, <1>14, <1>15 DEF Next

\* The inductive invariant holds in every state.
LEMMA IInvHolds == Spec => []IInv
<1>1. Init => IInv
  <2> SUFFICES ASSUME Init PROVE IInv
    OBVIOUS
  <2>1. TypeOK
    BY InitTypeOK
  <2>2. Order /\ LineAtHand /\ StateEarned /\ Returned
    BY DEF Init, Order, LineAtHand, StateEarned, Returned, Busy
  <2>3. QED
    BY <2>1, <2>2 DEF IInv
<1>2. IInv /\ [Next]_vars => IInv'
  BY TypeOKNext, OrderNext, LineAtHandNext, StateEarnedNext, ReturnedNext DEF IInv
<1>3. QED
  BY <1>1, <1>2, PTL DEF Spec

\* The counters of commands and answers, the binary semaphore and the state of
\* the DCE keep their ranges in every interleaving of the link task, the modem
\* and uart_event_task.
THEOREM TypeCorrect == Spec => []TypeOK
<1>1. IInv => TypeOK
  BY DEF IInv
<1>2. QED
  BY <1>1, IInvHolds, PTL

\* A step of the library is a step of CommandSpec or leaves its variables alone.
LEMMA StepImplements == IInv /\ [Next]_vars => [Commands!Next]_(Commands!vars)
<1> SUFFICES ASSUME IInv, [Next]_vars PROVE [Commands!Next]_(Commands!vars)
  OBVIOUS
<1> USE DEF IInv, TypeOK, Commands!vars, Commands!Next, Commands!Cmd,
            caller, object, modem, lines, uart, told, marks
<1>1. CASE Write
  <2>1. Commands!Issue
    BY <1>1 DEF Write, Returned, Busy, Commands!Issue
  <2>2. QED
    BY <2>1
<1>2. CASE Check
  <2>1. CASE dstate = "success"
    <3>1. Commands!Succeed(by)
      BY <1>2, <2>1 DEF Check, Commands!Succeed, Busy, Order, StateEarned, Returned
    <3>2. by \in Cmd
      BY <2>1 DEF StateEarned
    <3>3. QED
      BY <3>1, <3>2
  <2>2. CASE dstate # "success"
    BY <1>2, <2>2 DEF Check
  <2>3. QED
    BY <2>1, <2>2
<1>3. CASE Fail
  <2>1. Commands!Fail
    BY <1>3 DEF Fail, Commands!Fail, Order, Returned, Busy
  <2>2. QED
    BY <2>1
<1>4. CASE AnswerNext
  <2>1. answered + 1 \in Cmd /\ answer[answered + 1] = "none"
    BY <1>4 DEF AnswerNext, Order
  <2>2. Commands!Answer(answered + 1)
    <3>1. PICK a \in {"ok", "error", "lost"} :
              answer' = [answer EXCEPT ![answered + 1] = a]
      BY <1>4 DEF AnswerNext
    <3>2. answer' \in {[answer EXCEPT ![answered + 1] = x] :
                        x \in {"ok", "error", "lost"}}
      BY <3>1, Zenon
    <3>3. answered + 1 <= issued /\ UNCHANGED <<issued, credit, result>>
      BY <1>4 DEF AnswerNext
    <3>4. QED
      BY <2>1, <3>2, <3>3 DEF Commands!Answer
  <2>3. QED
    BY <2>1, <2>2
<1>5. CASE Bind \/ Install \/ TakeSem \/ Timeout \/ Clear \/ LinkLost
  BY <1>5 DEF Bind, Install, TakeSem, Timeout, Clear, LinkLost
<1>6. CASE SkipLost \/ ReadLine \/ ReadUnasked \/ ReadChunk \/ HandleLine \/ GiveSem
  BY <1>6 DEF SkipLost, ReadLine, ReadUnasked, ReadChunk, HandleLine, GiveSem
<1>7. CASE UNCHANGED vars
  BY <1>7 DEF vars
<1>8. QED
  BY <1>1, <1>2, <1>3, <1>4, <1>5, <1>6, <1>7 DEF Next

\* The modem library implements CommandSpec: a command reports success only on
\* an OK that the modem sent for it or for an earlier command, no OK is counted
\* twice, and each call returns once (esp_modem.c:292-310 and the handlers).
THEOREM CommandsImplemented == Spec => Implements
<1>1. Init => Commands!Init
  BY DEF Init, Commands!Init, Commands!Cmd
<1>2. Spec => [][Commands!Next]_(Commands!vars)
  BY IInvHolds, StepImplements, PTL DEF Spec
<1>3. QED
  BY <1>1, <1>2, PTL DEF Spec, Implements, Commands!Spec

-----------------------------------------------------------------------------
(* A command with a clean start.                                           *)

\* The handler is installed from before the command is written until the wait
\* is over, and the DCE lives from its creation until the call has failed.
HandlerInPlace ==
    /\ upc = "idle" => held = "present"
    /\ cpc \in {"install", "write"} \/ Busy => dce = "live"
    /\ cpc = "write" => handler = KindAt(step)
    /\ cpc \in {"wait", "done", "timeout"} => handler = kind[issued]
    /\ cpc \in {"check", "failed"} => handler = "null"

\* Between the data line of a query and its OK.
HalfRead ==
    half => read < answered /\ kind[read + 1] = "query" /\ answer[read + 1] = "ok"

\* The present command had a clean start.
Mine == Busy /\ issued \in clean

\* Then only its own answer can be at hand ...
OnlyMine ==
    Mine =>
        /\ issued <= read + 1
        /\ upc # "idle" => held = "present" /\ line.of = issued /\ uhandler = kind[issued]
        /\ upc = "line" => answer[issued] \in {"ok", "error"}
        /\ upc = "line" /\ line.text = "data" => half
        /\ upc = "give" \/ sem = 1 \/ cpc \in {"done", "check"} => by = issued

\* ... and it alone sets the state, after its value was stored.
StateMine ==
    Mine =>
        /\ by \in {0, issued}
        /\ by = issued => \/ answer[issued] = "ok" /\ dstate = "success"
                          \/ answer[issued] = "error" /\ dstate = "fail"
        /\ cpc = "timeout" => issued \in late
        /\ cpc = "failed" => answer[issued] = "error" \/ issued \in late

ValueMine ==
    Mine /\ kind[issued] = "query" /\ ~raw =>
        /\ half /\ upc = "idle" /\ cpc \in {"wait", "timeout"} => stored = issued
        /\ upc = "line" /\ line.text = "ok" => stored = issued
        /\ by = issued /\ answer[issued] = "ok" => stored = issued

CleanIssued == \A c \in clean : c <= issued

\* The inductive invariant behind CleanStartExact.
CleanInv ==
    /\ HandlerInPlace /\ HalfRead /\ OnlyMine /\ StateMine /\ ValueMine
    /\ CleanIssued /\ CleanStartExact

\* The handler is never removed under a command that waits.
LEMMA HandlerNext ==
    TypeOK /\ Order /\ HandlerInPlace /\ [Next]_vars => HandlerInPlace'
<1> SUFFICES ASSUME TypeOK, Order, HandlerInPlace, [Next]_vars
             PROVE  HandlerInPlace'
  OBVIOUS
<1> USE DEF TypeOK, Order, HandlerInPlace, Busy, caller, object, modem, lines,
            uart, told, marks
<1>1. CASE Bind
  BY <1>1 DEF Bind
<1>2. CASE Install
  BY <1>2 DEF Install, KindAt
<1>3. CASE Write
  BY <1>3 DEF Write, KindAt
<1>4. CASE TakeSem
  BY <1>4 DEF TakeSem
<1>5. CASE Timeout
  BY <1>5 DEF Timeout
<1>6. CASE Clear
  BY <1>6 DEF Clear
<1>7. CASE Check
  BY <1>7 DEF Check
<1>8. CASE Fail
  BY <1>8 DEF Fail
<1>9. CASE LinkLost
  BY <1>9 DEF LinkLost
<1>10. CASE AnswerNext
  BY <1>10 DEF AnswerNext
<1>11. CASE SkipLost
  BY <1>11 DEF SkipLost
<1>12. CASE ReadLine
  BY <1>12 DEF ReadLine, NextLine
<1>12b. CASE ReadUnasked
  BY <1>12b DEF ReadUnasked
<1>12a. CASE ReadChunk
  BY <1>12a DEF ReadChunk
<1>13. CASE HandleLine
  BY <1>13 DEF HandleLine
<1>14. CASE GiveSem
  BY <1>14 DEF GiveSem
<1>15. CASE UNCHANGED vars
  BY <1>15 DEF vars
<1>16. QED
  BY <1>1, <1>2, <1>3, <1>4, <1>5, <1>6, <1>7, <1>8,
     <1>9, <1>10, <1>11, <1>12, <1>12b, <1>12a, <1>13, <1>14, <1>15 DEF Next

\* The line that is read next: the value of a query, or the final result.
LEMMA NextLineText ==
    ASSUME TypeOK, Order, ReadLine
    PROVE  \/ /\ NextLine.text = "data" /\ half' = TRUE /\ ~half /\ read' = read
              /\ kind[read + 1] = "query" /\ answer[read + 1] = "ok"
           \/ /\ NextLine.text = answer[read + 1] /\ half' = FALSE /\ read' = read + 1
              /\ answer[read + 1] \in {"ok", "error"}
              /\ kind[read + 1] = "query" /\ answer[read + 1] = "ok" => half
<1>1. answer[read + 1] \in {"ok", "error"}
  BY DEF TypeOK, Order, ReadLine
<1>2. CASE kind[read + 1] = "query" /\ answer[read + 1] = "ok" /\ ~half
  <2>1. NextLine.text = "data"
    BY <1>2 DEF NextLine
  <2>2. half' = TRUE /\ read' = read
    BY <2>1 DEF ReadLine
  <2>3. QED
    BY <1>2, <2>1, <2>2
<1>3. CASE ~(kind[read + 1] = "query" /\ answer[read + 1] = "ok" /\ ~half)
  <2>1. NextLine.text = answer[read + 1] /\ NextLine.text # "data"
    BY <1>1, <1>3 DEF NextLine
  <2>2. half' = FALSE /\ read' = read + 1
    BY <2>1 DEF ReadLine
  <2>3. QED
    BY <1>1, <1>3, <2>1, <2>2
<1>4. QED
  BY <1>2, <1>3

\* A query is half read at most once.
LEMMA HalfNext == TypeOK /\ Order /\ HalfRead /\ [Next]_vars => HalfRead'
<1> SUFFICES ASSUME TypeOK, Order, HalfRead, [Next]_vars
             PROVE  HalfRead'
  OBVIOUS
<1> USE DEF TypeOK, FlagsOK, Order, HalfRead, caller, object, modem, lines,
            uart, told, marks
<1>1. CASE Bind
  BY <1>1 DEF Bind
<1>2. CASE Install
  BY <1>2 DEF Install
<1>3. CASE Write
  BY <1>3 DEF Write
<1>4. CASE TakeSem
  BY <1>4 DEF TakeSem
<1>5. CASE Timeout
  BY <1>5 DEF Timeout
<1>6. CASE Clear
  BY <1>6 DEF Clear
<1>7. CASE Check
  BY <1>7 DEF Check
<1>8. CASE Fail
  BY <1>8 DEF Fail
<1>9. CASE LinkLost
  BY <1>9 DEF LinkLost
<1>10. CASE AnswerNext
  BY <1>10 DEF AnswerNext
<1>11. CASE SkipLost
  BY <1>11 DEF SkipLost
<1>12. CASE ReadLine
  BY <1>12, NextLineText DEF ReadLine
<1>12b. CASE ReadUnasked
  BY <1>12b DEF ReadUnasked
<1>12a. CASE ReadChunk
  BY <1>12a DEF ReadChunk
<1>13. CASE HandleLine
  BY <1>13 DEF HandleLine
<1>14. CASE GiveSem
  BY <1>14 DEF GiveSem
<1>15. CASE UNCHANGED vars
  BY <1>15 DEF vars
<1>16. QED
  BY <1>1, <1>2, <1>3, <1>4, <1>5, <1>6, <1>7, <1>8,
     <1>9, <1>10, <1>11, <1>12, <1>12b, <1>12a, <1>13, <1>14, <1>15 DEF Next

\* After a clean start every line is the command's own.
LEMMA OnlyMineNext ==
    IInv /\ CleanIssued /\ HandlerInPlace /\ HalfRead /\ OnlyMine /\ StateMine
        /\ [Next]_vars => OnlyMine'
<1> SUFFICES ASSUME IInv, CleanIssued, HandlerInPlace, HalfRead, OnlyMine,
                    StateMine, [Next]_vars
             PROVE  OnlyMine'
  OBVIOUS
<1> USE DEF IInv, CleanIssued, TypeOK, FlagsOK, Order, LineAtHand, StateEarned,
            HandlerInPlace, HalfRead, OnlyMine, StateMine, Mine, Busy, caller,
            object, modem, lines, uart, told, marks
<1>1. CASE Bind
  BY <1>1 DEF Bind
<1>2. CASE Install
  BY <1>2 DEF Install
<1>3. CASE Write
  BY <1>3 DEF Write
<1>4. CASE TakeSem
  BY <1>4 DEF TakeSem
<1>5. CASE Timeout
  BY <1>5 DEF Timeout
<1>6. CASE Clear
  BY <1>6 DEF Clear
<1>7. CASE Check
  BY <1>7 DEF Check
<1>8. CASE Fail
  BY <1>8 DEF Fail
<1>9. CASE LinkLost
  BY <1>9 DEF LinkLost
<1>10. CASE AnswerNext
  BY <1>10 DEF AnswerNext
<1>11. CASE SkipLost
  BY <1>11 DEF SkipLost
<1>12. CASE ReadLine
  <2> SUFFICES ASSUME Mine' PROVE OnlyMine'
    BY DEF OnlyMine
  <2> HIDE DEF IInv, TypeOK, FlagsOK, Order, LineAtHand, StateEarned,
              HandlerInPlace, HalfRead, OnlyMine, StateMine, Mine, Busy, CleanIssued
  <2>0. TypeOK /\ Order
    BY DEF IInv
  <2>1. Mine /\ upc = "idle" /\ UNCHANGED <<cpc, issued, clean, kind, answer, sem,
                                            by, dstate, stored, held, late>>
    BY <1>12 DEF ReadLine, Mine, Busy
  <2>2. read \in Nat /\ issued \in Nat /\ read + 1 = issued
    BY <1>12, <2>0, <2>1 DEF ReadLine, TypeOK, Order, OnlyMine
  <2>3. held = "present" /\ by # issued /\ sem # 1 /\ cpc \notin {"done", "check"}
    BY <2>0, <2>1, <2>2 DEF IInv, StateEarned, TypeOK, OnlyMine, HandlerInPlace
  <2>4. \/ /\ NextLine.text = "data" /\ half' = TRUE /\ ~half /\ read' = read
           /\ kind[issued] = "query" /\ answer[issued] = "ok"
        \/ /\ NextLine.text = answer[issued] /\ half' = FALSE /\ read' = read + 1
           /\ answer[issued] \in {"ok", "error"}
           /\ kind[issued] = "query" /\ answer[issued] = "ok" => half
    BY <1>12, <2>0, <2>2, NextLineText
  <2>5. CASE dce = "live" /\ handler # "null"
    <3>1. upc' = "line" /\ line' = NextLine /\ uhandler' = handler
      BY <1>12, <2>5 DEF ReadLine
    <3>2. line'.of = issued /\ line'.text = NextLine.text
      BY <2>2, <3>1 DEF NextLine
    <3>3. cpc \in {"wait", "timeout"} /\ handler = kind[issued]
      BY <2>1, <2>3, <2>5 DEF HandlerInPlace, Mine, Busy
    <3>4. QED
      BY <2>1, <2>2, <2>3, <2>4, <3>1, <3>2, <3>3 DEF OnlyMine
  <2>6. CASE ~(dce = "live" /\ handler # "null")
    <3>1. UNCHANGED <<upc, line, uhandler>>
      BY <1>12, <2>6 DEF ReadLine
    <3>2. cpc = "failed"
      BY <2>0, <2>1, <2>3, <2>6 DEF HandlerInPlace, Mine, Busy, TypeOK
    <3>3. QED
      BY <2>1, <2>2, <2>3, <2>4, <3>1, <3>2 DEF OnlyMine
  <2>7. QED
    BY <2>5, <2>6
<1>12b. CASE ReadUnasked
  BY <1>12b DEF ReadUnasked
<1>12a. CASE ReadChunk
  BY <1>12a DEF ReadChunk
<1>13. CASE HandleLine
  BY <1>13 DEF HandleLine
<1>14. CASE GiveSem
  BY <1>14 DEF GiveSem
<1>15. CASE UNCHANGED vars
  BY <1>15 DEF vars
<1>16. QED
  BY <1>1, <1>2, <1>3, <1>4, <1>5, <1>6, <1>7, <1>8,
     <1>9, <1>10, <1>11, <1>12, <1>12b, <1>12a, <1>13, <1>14, <1>15 DEF Next

\* The state follows the command's own answer.
LEMMA StateMineNext ==
    IInv /\ CleanIssued /\ HandlerInPlace /\ HalfRead /\ OnlyMine /\ StateMine
        /\ [Next]_vars => StateMine'
<1> SUFFICES ASSUME IInv, CleanIssued, HandlerInPlace, HalfRead, OnlyMine,
                    StateMine, [Next]_vars
             PROVE  StateMine'
  OBVIOUS
<1> USE DEF IInv, CleanIssued, TypeOK, FlagsOK, Order, LineAtHand, StateEarned,
            HandlerInPlace, HalfRead, OnlyMine, StateMine, Mine, Busy, caller,
            object, modem, lines, uart, told, marks
<1>1. CASE Bind
  BY <1>1 DEF Bind
<1>2. CASE Install
  BY <1>2 DEF Install
<1>3. CASE Write
  BY <1>3 DEF Write
<1>4. CASE TakeSem
  BY <1>4 DEF TakeSem
<1>5. CASE Timeout
  BY <1>5 DEF Timeout
<1>6. CASE Clear
  BY <1>6 DEF Clear
<1>7. CASE Check
  BY <1>7 DEF Check
<1>8. CASE Fail
  BY <1>8 DEF Fail
<1>9. CASE LinkLost
  BY <1>9 DEF LinkLost
<1>10. CASE AnswerNext
  BY <1>10 DEF AnswerNext
<1>11. CASE SkipLost
  BY <1>11 DEF SkipLost
<1>12. CASE ReadLine
  BY <1>12 DEF ReadLine, NextLine
<1>12b. CASE ReadUnasked
  BY <1>12b DEF ReadUnasked
<1>12a. CASE ReadChunk
  BY <1>12a DEF ReadChunk
<1>13. CASE HandleLine
  BY <1>13 DEF HandleLine
<1>14. CASE GiveSem
  BY <1>14 DEF GiveSem
<1>15. CASE UNCHANGED vars
  BY <1>15 DEF vars
<1>16. QED
  BY <1>1, <1>2, <1>3, <1>4, <1>5, <1>6, <1>7, <1>8,
     <1>9, <1>10, <1>11, <1>12, <1>12b, <1>12a, <1>13, <1>14, <1>15 DEF Next

\* The value is stored before its OK is handled.
LEMMA ValueMineNext ==
    IInv /\ CleanIssued /\ HandlerInPlace /\ HalfRead /\ OnlyMine /\ StateMine
        /\ ValueMine /\ [Next]_vars => ValueMine'
<1> SUFFICES ASSUME IInv, CleanIssued, HandlerInPlace, HalfRead, OnlyMine,
                    StateMine, ValueMine, [Next]_vars
             PROVE  ValueMine'
  OBVIOUS
<1> USE DEF IInv, CleanIssued, TypeOK, FlagsOK, Order, LineAtHand, StateEarned,
            HandlerInPlace, HalfRead, OnlyMine, StateMine, Mine, Busy,
            ValueMine, caller, object, modem, lines, uart, told, marks
<1>1. CASE Bind
  BY <1>1 DEF Bind
<1>2. CASE Install
  BY <1>2 DEF Install
<1>3. CASE Write
  BY <1>3 DEF Write
<1>4. CASE TakeSem
  BY <1>4 DEF TakeSem
<1>5. CASE Timeout
  BY <1>5 DEF Timeout
<1>6. CASE Clear
  BY <1>6 DEF Clear
<1>7. CASE Check
  BY <1>7 DEF Check
<1>8. CASE Fail
  BY <1>8 DEF Fail
<1>9. CASE LinkLost
  BY <1>9 DEF LinkLost
<1>10. CASE AnswerNext
  BY <1>10 DEF AnswerNext
<1>11. CASE SkipLost
  BY <1>11 DEF SkipLost
<1>12. CASE ReadLine
  <2> SUFFICES ASSUME Mine' PROVE ValueMine'
    BY DEF ValueMine
  <2> HIDE DEF IInv, TypeOK, FlagsOK, Order, LineAtHand, StateEarned,
              HandlerInPlace, HalfRead, OnlyMine, StateMine, Mine, Busy, CleanIssued,
              ValueMine
  <2>0. TypeOK /\ Order
    BY DEF IInv
  <2>1. Mine /\ upc = "idle" /\ UNCHANGED <<cpc, issued, clean, kind, answer, sem,
                                            by, dstate, stored, held, late, raw>>
    BY <1>12 DEF ReadLine, Mine, Busy
  <2>2. read \in Nat /\ issued \in Nat /\ read + 1 = issued
    BY <1>12, <2>0, <2>1 DEF ReadLine, TypeOK, Order, OnlyMine
  <2>3. held = "present" /\ by # issued /\ sem # 1 /\ cpc \notin {"done", "check"}
    BY <2>0, <2>1, <2>2 DEF IInv, StateEarned, TypeOK, OnlyMine, HandlerInPlace
  <2>4. \/ /\ NextLine.text = "data" /\ half' = TRUE /\ ~half /\ read' = read
           /\ kind[issued] = "query" /\ answer[issued] = "ok"
        \/ /\ NextLine.text = answer[issued] /\ half' = FALSE /\ read' = read + 1
           /\ answer[issued] \in {"ok", "error"}
           /\ kind[issued] = "query" /\ answer[issued] = "ok" => half
    BY <1>12, <2>0, <2>2, NextLineText
  <2>5. CASE dce = "live" /\ handler # "null"
    <3>1. upc' = "line" /\ line' = NextLine /\ uhandler' = handler
      BY <1>12, <2>5 DEF ReadLine
    <3>2. line'.of = issued /\ line'.text = NextLine.text
      BY <2>2, <3>1 DEF NextLine
    <3>3. cpc \in {"wait", "timeout"} /\ handler = kind[issued]
      BY <2>1, <2>3, <2>5 DEF HandlerInPlace, Mine, Busy
    <3>4. QED
      BY <2>1, <2>2, <2>3, <2>4, <3>1, <3>2, <3>3 DEF ValueMine
  <2>6. CASE ~(dce = "live" /\ handler # "null")
    <3>1. UNCHANGED <<upc, line, uhandler>>
      BY <1>12, <2>6 DEF ReadLine
    <3>2. cpc = "failed"
      BY <2>0, <2>1, <2>3, <2>6 DEF HandlerInPlace, Mine, Busy, TypeOK
    <3>3. QED
      BY <2>1, <2>2, <2>3, <2>4, <3>1, <3>2 DEF ValueMine
  <2>7. QED
    BY <2>5, <2>6
<1>12b. CASE ReadUnasked
  BY <1>12b DEF ReadUnasked
<1>12a. CASE ReadChunk
  BY <1>12a DEF ReadChunk
<1>13. CASE HandleLine
  BY <1>13 DEF HandleLine
<1>14. CASE GiveSem
  BY <1>14 DEF GiveSem
<1>15. CASE UNCHANGED vars
  BY <1>15 DEF vars
<1>16. QED
  BY <1>1, <1>2, <1>3, <1>4, <1>5, <1>6, <1>7, <1>8,
     <1>9, <1>10, <1>11, <1>12, <1>12b, <1>12a, <1>13, <1>14, <1>15 DEF Next

\* A clean start is one of a command that was issued.
LEMMA CleanIssuedNext == TypeOK /\ CleanIssued /\ [Next]_vars => CleanIssued'
<1> SUFFICES ASSUME TypeOK, CleanIssued, [Next]_vars
             PROVE  CleanIssued'
  OBVIOUS
<1> USE DEF TypeOK, CleanIssued, caller, object, modem, lines, uart, told,
            marks
<1>1. CASE Bind
  BY <1>1 DEF Bind
<1>2. CASE Install
  BY <1>2 DEF Install
<1>3. CASE Write
  BY <1>3 DEF Write
<1>4. CASE TakeSem
  BY <1>4 DEF TakeSem
<1>5. CASE Timeout
  BY <1>5 DEF Timeout
<1>6. CASE Clear
  BY <1>6 DEF Clear
<1>7. CASE Check
  BY <1>7 DEF Check
<1>8. CASE Fail
  BY <1>8 DEF Fail
<1>9. CASE LinkLost
  BY <1>9 DEF LinkLost
<1>10. CASE AnswerNext
  BY <1>10 DEF AnswerNext
<1>11. CASE SkipLost
  BY <1>11 DEF SkipLost
<1>12. CASE ReadLine
  BY <1>12 DEF ReadLine, NextLine
<1>12b. CASE ReadUnasked
  BY <1>12b DEF ReadUnasked
<1>12a. CASE ReadChunk
  BY <1>12a DEF ReadChunk
<1>13. CASE HandleLine
  BY <1>13 DEF HandleLine
<1>14. CASE GiveSem
  BY <1>14 DEF GiveSem
<1>15. CASE UNCHANGED vars
  BY <1>15 DEF vars
<1>16. QED
  BY <1>1, <1>2, <1>3, <1>4, <1>5, <1>6, <1>7, <1>8,
     <1>9, <1>10, <1>11, <1>12, <1>12b, <1>12a, <1>13, <1>14, <1>15 DEF Next

\* What a command with a clean start returns is never revised.
LEMMA ExactNext == IInv /\ CleanInv /\ [Next]_vars => CleanStartExact'
<1> SUFFICES ASSUME IInv, CleanInv, [Next]_vars
             PROVE  CleanStartExact'
  OBVIOUS
<1> USE DEF IInv, TypeOK, Order, Returned, CleanInv, StateMine, ValueMine,
            OnlyMine, Mine, Busy, CleanIssued, CleanStartExact, caller, object,
            modem, lines, uart, told, marks
<1>1. CASE Bind
  BY <1>1 DEF Bind
<1>2. CASE Install
  BY <1>2 DEF Install
<1>3. CASE Write
  BY <1>3 DEF Write
<1>4. CASE TakeSem
  BY <1>4 DEF TakeSem
<1>5. CASE Timeout
  BY <1>5 DEF Timeout
<1>6. CASE Clear
  BY <1>6 DEF Clear
<1>7. CASE Check
  BY <1>7, SMTT(40) DEF Check
<1>8. CASE Fail
  BY <1>8 DEF Fail
<1>9. CASE LinkLost
  BY <1>9 DEF LinkLost
<1>10. CASE AnswerNext
  BY <1>10 DEF AnswerNext
<1>11. CASE SkipLost
  BY <1>11 DEF SkipLost
<1>12. CASE ReadLine
  BY <1>12 DEF ReadLine, NextLine
<1>12b. CASE ReadUnasked
  BY <1>12b DEF ReadUnasked
<1>12a. CASE ReadChunk
  BY <1>12a DEF ReadChunk
<1>13. CASE HandleLine
  BY <1>13 DEF HandleLine
<1>14. CASE GiveSem
  BY <1>14 DEF GiveSem
<1>15. CASE UNCHANGED vars
  BY <1>15 DEF vars
<1>16. QED
  BY <1>1, <1>2, <1>3, <1>4, <1>5, <1>6, <1>7, <1>8,
     <1>9, <1>10, <1>11, <1>12, <1>12b, <1>12a, <1>13, <1>14, <1>15 DEF Next

\* A command sent when no earlier answer was outstanding, and whose handler got no
\* unsolicited line, gets its own answer and, before the first PPP session, its
\* own value, however late the modem is and whatever happened before (esp_modem.c:292-310, bg96.c:346-417).
THEOREM CleanStart == Spec => []CleanStartExact
<1>1. Init => CleanInv
  BY DEF Init, CleanInv, HandlerInPlace, HalfRead, OnlyMine, StateMine, ValueMine,
         CleanIssued, CleanStartExact, Mine, Busy
<1>2. IInv /\ CleanInv /\ [Next]_vars => CleanInv'
  BY HandlerNext, HalfNext, OnlyMineNext, StateMineNext, ValueMineNext,
     CleanIssuedNext, ExactNext DEF CleanInv, IInv
<1>3. CleanInv => CleanStartExact
  BY DEF CleanInv
<1>4. QED
  BY <1>1, <1>2, <1>3, IInvHolds, PTL DEF Spec

=============================================================================
