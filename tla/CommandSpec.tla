---------------------------- MODULE CommandSpec ----------------------------
(***************************************************************************)
(* What the modem library promises the caller of an AT command: commands   *)
(* are issued one at a time, each returns once, and it returns success     *)
(* only on the strength of an OK of the modem, that of this command or of  *)
(* an earlier one that came late.  No OK counts twice, none counts for a   *)
(* command before it, and the order of the answers is kept.                *)
(***************************************************************************)
EXTENDS Naturals

CONSTANT MaxCmds      \* how many commands are issued

Cmd == 1..MaxCmds

VARIABLES issued,     \* the last command issued
          answer,      \* what the modem answered
          credit,      \* the last answer that made a command succeed
          result       \* what the caller was told

vars == <<issued, answer, credit, result>>

Init ==
    /\ issued = 0 /\ credit = 0
    /\ answer = [c \in Cmd |-> "none"]
    /\ result = [c \in Cmd |-> "none"]

Issue ==
    /\ issued < MaxCmds
    /\ issued > 0 => result[issued] # "none"
    /\ issued' = issued + 1
    /\ UNCHANGED <<answer, credit, result>>

Answer(c) ==
    /\ c <= issued /\ answer[c] = "none"
    /\ answer' \in {[answer EXCEPT ![c] = a] : a \in {"ok", "error", "lost"}}
    /\ UNCHANGED <<issued, credit, result>>

Succeed(c) ==
    /\ credit < c /\ c <= issued /\ answer[c] = "ok"
    /\ result[issued] = "none"
    /\ credit' = c
    /\ result' = [result EXCEPT ![issued] = "ok"]
    /\ UNCHANGED <<issued, answer>>

Fail ==
    /\ issued > 0 /\ result[issued] = "none"
    /\ result' = [result EXCEPT ![issued] = "failed"]
    /\ UNCHANGED <<issued, answer, credit>>

Next == Issue \/ Fail \/ \E c \in Cmd : Answer(c) \/ Succeed(c)

Spec == Init /\ [][Next]_vars

=============================================================================
