---------------------------- MODULE UplinkProofs ----------------------------
(***************************************************************************)
(* Proofs for module Uplink: what the events of lwIP make of is_connected  *)
(* and CONNECT_BIT, for any number of faults, losses and renegotiations,   *)
(* with the GPS and without.                                               *)
(*                                                                         *)
(* One dialling brings about at most one CONNECT_BIT.  The invariant       *)
(* follows that bit on its way: as the event PPP_START, as a negotiation,  *)
(* as the event GOT_IP in the queue, as the handler that is about to set   *)
(* it, and as the bit.                                                     *)
(***************************************************************************)
EXTENDS Uplink, TLAPS

\* What is_connected is going to be when the queue is handled.
Told == IF ipev = <<>> THEN connected ELSE ipev[Len(ipev)] = "got"

\* lwIP announces its connections and their ends in this order, but for an end
\* without a LOST_IP.
Announced == Told <=> Up \/ silent

\* Before the task has a DTE nothing of the stack is at work.
Quiet ==
    lpc \in {"power", "powering", "dte"} =>
        /\ ppp = "dead" /\ ~start /\ ipev = <<>> /\ hpc = "idle"
        /\ ~bit /\ ~connected /\ ~silent /\ ~doubled

NoToken ==
    ~start /\ ppp # "starting" /\ ~GotQueued /\ hpc = "idle" /\ ~bit

\* One dialling is under way at a time, in one of the five forms.
OneToken ==
    ~doubled =>
        /\ start => ppp # "starting" /\ ~GotQueued /\ hpc = "idle" /\ ~bit
        /\ ppp = "starting" => ~GotQueued /\ hpc = "idle" /\ ~bit
        /\ GotQueued => hpc = "idle" /\ ~bit
        /\ \A i, j \in 1..Len(ipev) : ipev[i] = "got" /\ ipev[j] = "got" => i = j
        /\ hpc = "setbit" => ~bit

\* Only the wait for the bit goes with a dialling that is under way.
Waited ==
    ~doubled /\ lpc \notin {"wait", "halted"} => NoToken

\* From sim7600_init to the end of ATD lwIP's PPP is dead.
Dialling ==
    ~doubled /\ lpc \in {"bind", "init", "setup", "attach", "dial"} => ppp = "dead"

IInv == TypeOK /\ Announced /\ Quiet /\ OneToken /\ Waited /\ Dialling

\* The bit of a connection that is up is on its way while the task dials or waits:
\* it has looked at is_connected before the event was handled.
BitFollows ==
    /\ Up
    /\ \/ lpc \in {"bind", "init", "setup", "attach", "dial"}
       \/ lpc = "wait" /\ ~gaveUp
    => GotQueued \/ hpc = "setbit" \/ bit

-----------------------------------------------------------------------------
(* Type correctness.                                                       *)

USE LinkAssumption

\* What Append does to a queue of events (lwIP posts to the default event loop).
LEMMA AppendFacts ==
    ASSUME NEW s \in Seq({"got", "lost"}), NEW e \in {"got", "lost"}
    PROVE  /\ Append(s, e) \in Seq({"got", "lost"}) /\ Append(s, e) # <<>>
           /\ Len(Append(s, e)) = Len(s) + 1 /\ Append(s, e)[Len(s) + 1] = e
           /\ \A i \in 1..Len(s) : Append(s, e)[i] = s[i]
  OBVIOUS

\* A queue that got one more "lost" has its "got" events where they were.
LEMMA LostFacts ==
    ASSUME NEW s \in Seq({"got", "lost"}), NEW i \in 1..Len(Append(s, "lost")),
           Append(s, "lost")[i] = "got"
    PROVE  i \in 1..Len(s) /\ s[i] = "got"
<1>1. Len(s) \in Nat /\ Len(Append(s, "lost")) = Len(s) + 1
  OBVIOUS
<1>2. i # Len(s) + 1
  BY <1>1
<1>3. QED
  BY <1>1, <1>2

\* What Head and Tail do to a queue of events (on_ip_event takes the oldest one).
LEMMA TailFacts ==
    ASSUME NEW s \in Seq({"got", "lost"}), s # <<>>
    PROVE  /\ Tail(s) \in Seq({"got", "lost"})
           /\ Head(s) = s[1] /\ s[1] \in {"got", "lost"} /\ 1 \in 1..Len(s)
           /\ Len(s) \in Nat /\ Len(Tail(s)) = Len(s) - 1
           /\ Tail(s) = <<>> <=> Len(s) = 1
           /\ \A i \in 1..Len(Tail(s)) : Tail(s)[i] = s[i + 1]
<1>1. Len(s) \in Nat /\ Len(s) # 0
  OBVIOUS
<1>2. Tail(s) \in Seq({"got", "lost"}) /\ Len(Tail(s)) = Len(s) - 1
  BY <1>1
<1>3. \A t \in Seq({"got", "lost"}) : t = <<>> <=> Len(t) = 0
  OBVIOUS
<1>4. \A i \in 1..Len(Tail(s)) : Tail(s)[i] = s[i + 1]
  BY <1>1, <1>2
<1>5. Head(s) = s[1] /\ 1 \in 1..Len(s) /\ s[1] \in {"got", "lost"}
  BY <1>1
<1>6. QED
  BY <1>1, <1>2, <1>3, <1>4, <1>5

\* The flags stay Boolean.
LEMMA FlagsStep == FlagsOK /\ [Next]_vars => FlagsOK'
<1> SUFFICES ASSUME FlagsOK, [Next]_vars
             PROVE  FlagsOK'
  OBVIOUS
<1> USE DEF FlagsOK, LinkFlagsOK, port, stack, ipvars, past, linkVars, gps, ota
<1>1. CASE Link
  <2>1. CASE SelectSim
    BY <1>1, <2>1 DEF Link, SelectSim
  <2>2. CASE PoweredOn
    BY <1>1, <2>2 DEF Link, PoweredOn
  <2>3. CASE CreateDte
    BY <1>1, <2>3 DEF Link, CreateDte
  <2>4. CASE Top
    BY <1>1, <2>4 DEF Link, Top
  <2>5. CASE Delay
    BY <1>1, <2>5 DEF Link, Delay
  <2>6. CASE BindDce
    BY <1>1, <2>6 DEF Link, BindDce
  <2>7. CASE InitDce
    BY <1>1, <2>7 DEF Link, InitDce, Succeeds, Fails
  <2>8. CASE Setup
    BY <1>1, <2>8 DEF Link, Setup, Succeeds, Fails
  <2>9. CASE Attach
    BY <1>1, <2>9 DEF Link, Attach, Succeeds, Fails
  <2>10. CASE Dial
    BY <1>1, <2>10 DEF Link, Dial, Succeeds, Fails
  <2>11. CASE WaitForBit
    BY <1>1, <2>11 DEF Link, WaitForBit
  <2>12. QED
    BY <1>1, <2>1, <2>2, <2>3, <2>4, <2>5, <2>6, <2>7, <2>8, <2>9, <2>10, <2>11
       DEF Link, LinkTask
<1>2. CASE Events
  <2>1. CASE StartPpp
    BY <1>2, <2>1 DEF Events, StartPpp
  <2>2. CASE OnIpEvent
    BY <1>2, <2>2 DEF Events, OnIpEvent
  <2>3. CASE SetBit
    BY <1>2, <2>3 DEF Events, SetBit
  <2>4. QED
    BY <1>2, <2>1, <2>2, <2>3 DEF Events, Handlers
<1>3. CASE Stack
  <2>1. CASE Negotiated
    BY <1>3, <2>1 DEF Stack, Negotiated
  <2>2. CASE NegotiationTimesOut
    BY <1>3, <2>2 DEF Stack, NegotiationTimesOut, NegotiationEnds, ReportsEnd
  <2>3. CASE Renegotiated
    BY <1>3, <2>3 DEF Stack, Renegotiated
  <2>4. CASE ModemHangsUp
    BY <1>3, <2>4 DEF Stack, ModemHangsUp
  <2>5. QED
    BY <1>3, <2>1, <2>2, <2>3, <2>4 DEF Stack, Unaided
<1>4. CASE Faults
  <2>1. CASE NegotiationRefused
    BY <1>4, <2>1 DEF Faults, NegotiationRefused, NegotiationEnds, ReportsEnd
  <2>2. CASE PeerRenegotiates
    BY <1>4, <2>2 DEF Faults, PeerRenegotiates
  <2>3. CASE PeerTerminates
    BY <1>4, <2>3 DEF Faults, PeerTerminates, ReportsEnd
  <2>4. CASE DiesUnnoticed
    BY <1>4, <2>4 DEF Faults, DiesUnnoticed
  <2>5. QED
    BY <1>4, <2>1, <2>2, <2>3, <2>4 DEF Faults, Mishaps
<1>5. CASE Gps
  <2>1. CASE SwitchToGps
    BY <1>5, <2>1 DEF Gps, SwitchToGps
  <2>2. CASE RoundOver
    BY <1>5, <2>2 DEF Gps, RoundOver
  <2>3. QED
    BY <1>5, <2>1, <2>2 DEF Gps
<1>6. CASE Ota
  <2>1. CASE TakeFlag
    BY <1>6, <2>1 DEF Ota, TakeFlag
  <2>2. CASE CheckNetwork
    BY <1>6, <2>2 DEF Ota, CheckNetwork
  <2>3. CASE DownloadFails
    BY <1>6, <2>3 DEF Ota, DownloadFails
  <2>4. CASE Downloaded
    BY <1>6, <2>4 DEF Ota, Downloaded
  <2>5. QED
    BY <1>6, <2>1, <2>2, <2>3, <2>4 DEF Ota, OtaTask
<1>7. CASE ForceUpdate
  BY <1>7 DEF ForceUpdate
<1>8. CASE Reboot
  BY <1>8 DEF Reboot
<1>9. CASE UNCHANGED vars
  BY <1>9 DEF vars
<1>10. QED
  BY <1>1, <1>2, <1>3, <1>4, <1>5, <1>6, <1>7, <1>8, <1>9 DEF Next

\* Every step keeps every variable in its type.
LEMMA TypeStep == TypeOK /\ [Next]_vars => TypeOK'
<1> SUFFICES ASSUME TypeOK, [Next]_vars
             PROVE  TypeOK'
  OBVIOUS
<1>0. FlagsOK'
  BY FlagsStep DEF TypeOK
<1> USE <1>0 DEF TypeOK, LinkTypeOK, port, stack, ipvars, past, linkVars, gps, ota
<1>1. CASE Link
  <2>1. CASE SelectSim
    BY <1>1, <2>1 DEF Link, SelectSim
  <2>2. CASE PoweredOn
    BY <1>1, <2>2 DEF Link, PoweredOn
  <2>3. CASE CreateDte
    BY <1>1, <2>3 DEF Link, CreateDte
  <2>4. CASE Top
    BY <1>1, <2>4 DEF Link, Top
  <2>5. CASE Delay
    BY <1>1, <2>5 DEF Link, Delay
  <2>6. CASE BindDce
    BY <1>1, <2>6 DEF Link, BindDce
  <2>7. CASE InitDce
    BY <1>1, <2>7 DEF Link, InitDce, Succeeds, Fails, Spend
  <2>8. CASE Setup
    BY <1>1, <2>8 DEF Link, Setup, Succeeds, Fails, Spend
  <2>9. CASE Attach
    BY <1>1, <2>9 DEF Link, Attach, Succeeds, Fails, Spend
  <2>10. CASE Dial
    BY <1>1, <2>10 DEF Link, Dial, Succeeds, Fails, Spend
  <2>11. CASE WaitForBit
    BY <1>1, <2>11 DEF Link, WaitForBit
  <2>12. QED
    BY <1>1, <2>1, <2>2, <2>3, <2>4, <2>5, <2>6, <2>7, <2>8, <2>9, <2>10, <2>11
       DEF Link, LinkTask
<1>2. CASE Events
  <2>1. CASE StartPpp
    BY <1>2, <2>1 DEF Events, StartPpp
  <2>2. CASE OnIpEvent
    BY <1>2, <2>2, TailFacts DEF Events, OnIpEvent
  <2>3. CASE SetBit
    BY <1>2, <2>3 DEF Events, SetBit
  <2>4. QED
    BY <1>2, <2>1, <2>2, <2>3 DEF Events, Handlers
<1>3. CASE Stack
  <2>1. CASE Negotiated
    BY <1>3, <2>1, AppendFacts DEF Stack, Negotiated
  <2>2. CASE NegotiationTimesOut
    BY <1>3, <2>2, AppendFacts, SMTT(40) DEF Stack, NegotiationTimesOut, NegotiationEnds, ReportsEnd
  <2>3. CASE Renegotiated
    BY <1>3, <2>3, AppendFacts DEF Stack, Renegotiated
  <2>4. CASE ModemHangsUp
    BY <1>3, <2>4 DEF Stack, ModemHangsUp
  <2>5. QED
    BY <1>3, <2>1, <2>2, <2>3, <2>4 DEF Stack, Unaided
<1>4. CASE Faults
  <2>1. CASE NegotiationRefused
    <3>1. ipev' \in Seq({"got", "lost"})
      BY <1>4, <2>1, AppendFacts DEF Faults, NegotiationRefused, NegotiationEnds, ReportsEnd
    <3>2. used' \in [faults : 0..MaxFaults, losses : 0..MaxLosses, renegs : 0..MaxRenegs]
      BY <1>4, <2>1 DEF Faults, NegotiationRefused, Spend
    <3>3. QED
      BY <1>4, <2>1, <3>1, <3>2 DEF Faults, NegotiationRefused, NegotiationEnds, ReportsEnd
  <2>2. CASE PeerRenegotiates
    BY <1>4, <2>2 DEF Faults, PeerRenegotiates, Spend
  <2>3. CASE PeerTerminates
    <3>1. ipev' \in Seq({"got", "lost"})
      BY <1>4, <2>3, AppendFacts DEF Faults, PeerTerminates, ReportsEnd
    <3>2. used' \in [faults : 0..MaxFaults, losses : 0..MaxLosses, renegs : 0..MaxRenegs]
      BY <1>4, <2>3 DEF Faults, PeerTerminates, Spend
    <3>3. QED
      BY <1>4, <2>3, <3>1, <3>2 DEF Faults, PeerTerminates
  <2>4. CASE DiesUnnoticed
    BY <1>4, <2>4 DEF Faults, DiesUnnoticed, Spend
  <2>5. QED
    BY <1>4, <2>1, <2>2, <2>3, <2>4 DEF Faults, Mishaps
<1>5. CASE Gps
  <2>1. CASE SwitchToGps
    BY <1>5, <2>1 DEF Gps, SwitchToGps
  <2>2. CASE RoundOver
    BY <1>5, <2>2 DEF Gps, RoundOver
  <2>3. QED
    BY <1>5, <2>1, <2>2 DEF Gps
<1>6. CASE Ota
  <2>1. CASE TakeFlag
    BY <1>6, <2>1 DEF Ota, TakeFlag
  <2>2. CASE CheckNetwork
    BY <1>6, <2>2 DEF Ota, CheckNetwork
  <2>3. CASE DownloadFails
    BY <1>6, <2>3 DEF Ota, DownloadFails
  <2>4. CASE Downloaded
    BY <1>6, <2>4 DEF Ota, Downloaded
  <2>5. QED
    BY <1>6, <2>1, <2>2, <2>3, <2>4 DEF Ota, OtaTask
<1>7. CASE ForceUpdate
  BY <1>7 DEF ForceUpdate
<1>8. CASE Reboot
  BY <1>8 DEF Reboot
<1>9. CASE UNCHANGED vars
  BY <1>9 DEF vars
<1>10. QED
  BY <1>0, <1>1, <1>2, <1>3, <1>4, <1>5, <1>6, <1>7, <1>8, <1>9 DEF Next

\* The initial values have their types.
LEMMA InitType == Init => TypeOK
<1>1. ASSUME Init PROVE FlagsOK
  BY <1>1 DEF Init, LinkInit, FlagsOK, LinkFlagsOK
<1>2. ASSUME Init
      PROVE  /\ ipev \in Seq({"got", "lost"})
             /\ used \in [faults : 0..MaxFaults, losses : 0..MaxLosses,
                          renegs : 0..MaxRenegs]
  BY <1>2 DEF Init, LinkInit
<1>3. QED
  BY <1>1, <1>2 DEF Init, LinkInit, TypeOK, LinkTypeOK

\* Every variable keeps its type (app_pppos.c, app_gps.c, app_ota.c), and a DCE is
\* between its modes only while it dials (esp_modem.c:404).
THEOREM TypeCorrect == Spec => []TypeOK
  BY InitType, TypeStep, PTL DEF Spec

-----------------------------------------------------------------------------
(* The way of the bit.                                                     *)

\* The part of the state the invariant is about, but for the control point.
core == <<connected, bit, start, ppp, ipev, hpc, silent, doubled>>

\* What a step can do to that part: a move of the task that leaves it alone, or
\* one of the steps that change it.
Moves ==
    /\ UNCHANGED core
    /\ \/ lpc' = lpc /\ (gaveUp' <=> gaveUp)
       \/ lpc = "power" /\ lpc' = "powering"
       \/ lpc = "powering" /\ lpc' = "dte"
       \/ lpc' = "halted"
       \/ lpc = "top" /\ connected /\ lpc' = "rest"
       \/ lpc = "top" /\ ~connected /\ lpc' = "bind"
       \/ lpc = "rest" /\ lpc' = "top"
       \/ lpc = "bind" /\ lpc' = "init"
       \/ lpc = "init" /\ lpc' \in {"setup", "rest"}
       \/ lpc = "setup" /\ lpc' = "attach"
       \/ lpc = "attach" /\ lpc' = "dial"
       \/ lpc \in {"attach", "dial"} /\ lpc' = "wait" /\ gaveUp'

Creates ==
    /\ lpc = "dte" /\ lpc' = "top" /\ connected' = FALSE
    /\ UNCHANGED <<bit, start, ppp, ipev, hpc, silent, doubled>>

Dials ==
    /\ lpc = "dial" /\ lpc' = "wait" /\ start' = TRUE
    /\ UNCHANGED <<connected, bit, ppp, ipev, hpc, silent, doubled>>

Taken ==
    /\ lpc = "wait" /\ bit /\ bit' = FALSE /\ lpc' = "top"
    /\ UNCHANGED <<connected, start, ppp, ipev, hpc, silent, doubled>>

Starts ==
    /\ start /\ start' = FALSE /\ ppp' = IF ppp = "dead" THEN "starting" ELSE ppp
    /\ UNCHANGED <<lpc, connected, bit, ipev, hpc, silent, doubled>>
    /\ gaveUp' <=> gaveUp

Opens ==
    /\ ppp = "starting" /\ ppp' = "running"
    /\ ipev' = Append(ipev, "got") /\ silent' = FALSE
    /\ UNCHANGED <<lpc, connected, bit, start, hpc, doubled>>
    /\ gaveUp' <=> gaveUp

Ends ==
    /\ ppp # "dead" /\ ppp' = "dead"
    /\ \/ ipev' = Append(ipev, "lost") /\ silent' = FALSE
       \/ ipev' = ipev /\ (silent' <=> silent \/ ppp # "starting")
    /\ gaveUp' <=> gaveUp \/ (ppp = "starting" /\ lpc = "wait")
    /\ UNCHANGED <<lpc, connected, bit, start, hpc, doubled>>

Renews ==
    /\ ppp = "running" /\ ppp' = "again"
    /\ UNCHANGED <<lpc, connected, bit, start, ipev, hpc, silent, doubled>>
    /\ gaveUp' <=> gaveUp

Doubles ==
    /\ ppp = "again" /\ ppp' = "running"
    /\ ipev' = Append(ipev, "got") /\ silent' = FALSE /\ doubled' = TRUE
    /\ UNCHANGED <<lpc, connected, bit, start, hpc>>
    /\ gaveUp' <=> gaveUp

Hears ==
    /\ hpc = "idle" /\ ipev # <<>> /\ ipev' = Tail(ipev)
    /\ connected' = (Head(ipev) = "got")
    /\ hpc' = IF Head(ipev) = "got" THEN "setbit" ELSE "idle"
    /\ UNCHANGED <<lpc, bit, start, ppp, silent, doubled>>
    /\ gaveUp' <=> gaveUp

Signals ==
    /\ hpc = "setbit" /\ hpc' = "idle" /\ bit' = TRUE
    /\ UNCHANGED <<lpc, connected, start, ppp, ipev, silent, doubled>>
    /\ gaveUp' <=> gaveUp

Restarts ==
    /\ lpc' = "power" /\ connected' = FALSE /\ bit' = FALSE /\ start' = FALSE
    /\ ppp' = "dead" /\ ipev' = <<>> /\ hpc' = "idle"
    /\ silent' = FALSE /\ doubled' = FALSE

Effect ==
    \/ Moves \/ Creates \/ Dials \/ Taken \/ Starts \/ Opens \/ Ends \/ Renews
    \/ Doubles \/ Hears \/ Signals \/ Restarts

\* These are all the effects a step can have.
LEMMA Effects == TypeOK /\ [Next]_vars => Effect
<1> SUFFICES ASSUME TypeOK, [Next]_vars
             PROVE  Effect
  OBVIOUS
<1> USE DEF Effect, core, port, stack, ipvars, past, linkVars, gps, ota
<1>1. CASE Link
  <2>1. CASE SelectSim
    BY <1>1, <2>1 DEF Link, SelectSim, Moves
  <2>2. CASE PoweredOn
    BY <1>1, <2>2 DEF Link, PoweredOn, Moves
  <2>3. CASE CreateDte
    BY <1>1, <2>3 DEF Link, CreateDte, Moves, Creates
  <2>4. CASE Top
    BY <1>1, <2>4 DEF Link, Top, Moves
  <2>5. CASE Delay
    BY <1>1, <2>5 DEF Link, Delay, Moves
  <2>6. CASE BindDce
    BY <1>1, <2>6 DEF Link, BindDce, Moves
  <2>7. CASE InitDce
    BY <1>1, <2>7 DEF Link, InitDce, Succeeds, Fails, Spend, Moves
  <2>8. CASE Setup
    BY <1>1, <2>8 DEF Link, Setup, Succeeds, Fails, Spend, Moves
  <2>9. CASE Attach
    BY <1>1, <2>9 DEF Link, Attach, Succeeds, Fails, Spend, Moves
  <2>10. CASE Dial
    BY <1>1, <2>10 DEF Link, Dial, Succeeds, Fails, Spend, Moves, Dials
  <2>11. CASE WaitForBit
    BY <1>1, <2>11 DEF Link, WaitForBit, Taken
  <2>12. QED
    BY <1>1, <2>1, <2>2, <2>3, <2>4, <2>5, <2>6, <2>7, <2>8, <2>9, <2>10, <2>11
       DEF Link, LinkTask
<1>2. CASE Events
  <2>1. CASE StartPpp
    BY <1>2, <2>1 DEF Events, StartPpp, Starts
  <2>2. CASE OnIpEvent
    BY <1>2, <2>2 DEF Events, OnIpEvent, Hears
  <2>3. CASE SetBit
    BY <1>2, <2>3 DEF Events, SetBit, Signals
  <2>4. QED
    BY <1>2, <2>1, <2>2, <2>3 DEF Events, Handlers
<1>3. CASE Stack
  <2>1. CASE Negotiated
    BY <1>3, <2>1 DEF Stack, Negotiated, Opens
  <2>2. CASE NegotiationTimesOut
    BY <1>3, <2>2 DEF Stack, NegotiationTimesOut, NegotiationEnds, ReportsEnd, Ends
  <2>3. CASE Renegotiated
    BY <1>3, <2>3 DEF Stack, Renegotiated, Doubles
  <2>4. CASE ModemHangsUp
    BY <1>3, <2>4 DEF Stack, ModemHangsUp, Moves
  <2>5. QED
    BY <1>3, <2>1, <2>2, <2>3, <2>4 DEF Stack, Unaided
<1>4. CASE Faults
  <2>1. CASE NegotiationRefused
    BY <1>4, <2>1 DEF Faults, NegotiationRefused, NegotiationEnds, ReportsEnd,
                           Spend, Ends
  <2>2. CASE PeerRenegotiates
    BY <1>4, <2>2 DEF Faults, PeerRenegotiates, Spend, Renews
  <2>3. CASE PeerTerminates
    BY <1>4, <2>3 DEF Faults, PeerTerminates, ReportsEnd, Spend, Ends
  <2>4. CASE DiesUnnoticed
    BY <1>4, <2>4 DEF Faults, DiesUnnoticed, Spend, Moves
  <2>5. QED
    BY <1>4, <2>1, <2>2, <2>3, <2>4 DEF Faults, Mishaps
<1>5. CASE Gps
  <2>1. CASE SwitchToGps
    BY <1>5, <2>1 DEF Gps, SwitchToGps, Moves
  <2>2. CASE RoundOver
    BY <1>5, <2>2 DEF Gps, RoundOver, Moves
  <2>3. QED
    BY <1>5, <2>1, <2>2 DEF Gps
<1>6. CASE Ota
  <2>1. CASE TakeFlag
    BY <1>6, <2>1 DEF Ota, TakeFlag, Moves
  <2>2. CASE CheckNetwork
    BY <1>6, <2>2 DEF Ota, CheckNetwork, Moves
  <2>3. CASE DownloadFails
    BY <1>6, <2>3 DEF Ota, DownloadFails, Moves
  <2>4. CASE Downloaded
    BY <1>6, <2>4 DEF Ota, Downloaded, Moves
  <2>5. QED
    BY <1>6, <2>1, <2>2, <2>3, <2>4 DEF Ota, OtaTask
<1>7. CASE ForceUpdate
  BY <1>7 DEF ForceUpdate, Moves
<1>8. CASE Reboot
  BY <1>8 DEF Reboot, Restarts
<1>9. CASE UNCHANGED vars
  BY <1>9 DEF vars, Moves
<1>10. QED
  BY <1>1, <1>2, <1>3, <1>4, <1>5, <1>6, <1>7, <1>8, <1>9 DEF Next

\* The last event in the queue tells the state of lwIP's PPP.
LEMMA AnnouncedStep == IInv /\ TypeOK' /\ Effect => Announced'
<1> SUFFICES ASSUME IInv, TypeOK', Effect
             PROVE  Announced'
  OBVIOUS
<1>0. ipev \in Seq({"got", "lost"}) /\ Len(ipev) \in Nat
  BY DEF IInv, TypeOK, LinkTypeOK
<1> USE DEF IInv, TypeOK, LinkTypeOK, FlagsOK, LinkFlagsOK, Announced, Told,
            Up, Quiet
<1>1. CASE Moves
  BY <1>0, <1>1 DEF Moves, core
<1>2. CASE Creates
  BY <1>0, <1>2 DEF Creates
<1>3. CASE Dials
  BY <1>0, <1>3 DEF Dials
<1>4. CASE Taken
  BY <1>0, <1>4 DEF Taken
<1>5. CASE Starts
  BY <1>0, <1>5 DEF Starts
<1>6. CASE Opens
  BY <1>0, <1>6, AppendFacts DEF Opens
<1>7. CASE Ends
  BY <1>0, <1>7, AppendFacts DEF Ends
<1>8. CASE Doubles
  BY <1>0, <1>8, AppendFacts DEF Doubles
<1>9. CASE Hears
  <2>1. CASE Len(ipev) = 1
    BY <1>0, <1>9, <2>1, TailFacts, ZenonT(40) DEF Hears
  <2>2. CASE Len(ipev) # 1
    <3>1. Tail(ipev) # <<>> /\ Len(Tail(ipev)) \in 1..Len(Tail(ipev))
      BY <1>0, <1>9, <2>2, TailFacts, SMTT(40) DEF Hears
    <3>2. Tail(ipev)[Len(Tail(ipev))] = ipev[Len(ipev)]
      BY <1>0, <1>9, <3>1, TailFacts DEF Hears
    <3>3. QED
      BY <1>9, <3>1, <3>2 DEF Hears
  <2>3. QED
    BY <2>1, <2>2
<1>10. CASE Signals
  BY <1>0, <1>10 DEF Signals
<1>11. CASE Restarts
  BY <1>0, <1>11 DEF Restarts
<1>12. CASE Renews
  BY <1>0, <1>12 DEF Renews
<1>13. QED
  BY <1>1, <1>2, <1>3, <1>4, <1>5, <1>6, <1>7, <1>8, <1>9, <1>10, <1>11, <1>12
     DEF Effect

\* Nothing of the stack starts to work before the DTE is there.
LEMMA QuietStep == IInv /\ TypeOK' /\ Effect => Quiet'
<1> SUFFICES ASSUME IInv, TypeOK', Effect
             PROVE  Quiet'
  OBVIOUS
<1>0. ipev \in Seq({"got", "lost"}) /\ Len(ipev) \in Nat
  BY DEF IInv, TypeOK, LinkTypeOK
<1> USE DEF IInv, TypeOK, LinkTypeOK, FlagsOK, LinkFlagsOK, Quiet
<1>1. CASE Moves
  BY <1>0, <1>1 DEF Moves, core
<1>2. CASE Creates
  BY <1>0, <1>2 DEF Creates
<1>3. CASE Dials
  BY <1>0, <1>3 DEF Dials
<1>4. CASE Taken
  BY <1>0, <1>4 DEF Taken
<1>5. CASE Starts
  BY <1>0, <1>5 DEF Starts
<1>6. CASE Opens
  BY <1>0, <1>6, AppendFacts DEF Opens
<1>7. CASE Ends
  BY <1>0, <1>7, AppendFacts DEF Ends
<1>8. CASE Doubles
  BY <1>0, <1>8, AppendFacts DEF Doubles
<1>9. CASE Hears
  BY <1>0, <1>9, TailFacts DEF Hears
<1>10. CASE Signals
  BY <1>0, <1>10 DEF Signals
<1>11. CASE Restarts
  BY <1>0, <1>11 DEF Restarts
<1>12. CASE Renews
  BY <1>0, <1>12 DEF Renews
<1>13. QED
  BY <1>1, <1>2, <1>3, <1>4, <1>5, <1>6, <1>7, <1>8, <1>9, <1>10, <1>11, <1>12
     DEF Effect

\* A dialling changes its form, and nothing adds a second one.
LEMMA OneTokenStep == IInv /\ TypeOK' /\ Effect => OneToken'
<1> SUFFICES ASSUME IInv, TypeOK', Effect
             PROVE  OneToken'
  OBVIOUS
<1>0. ipev \in Seq({"got", "lost"}) /\ Len(ipev) \in Nat
  BY DEF IInv, TypeOK, LinkTypeOK
<1> USE DEF IInv, TypeOK, LinkTypeOK, FlagsOK, LinkFlagsOK, OneToken, Waited,
            NoToken, GotQueued, Quiet
<1>1. CASE Moves
  BY <1>0, <1>1 DEF Moves, core
<1>2. CASE Creates
  BY <1>0, <1>2 DEF Creates
<1>3. CASE Dials
  BY <1>0, <1>3 DEF Dials
<1>4. CASE Taken
  BY <1>0, <1>4 DEF Taken
<1>5. CASE Starts
  BY <1>0, <1>5 DEF Starts
<1>6. CASE Opens
  BY <1>0, <1>6, AppendFacts DEF Opens
<1>7. CASE Ends
  <2>1. \A i \in 1..Len(ipev') : ipev'[i] = "got" => i \in 1..Len(ipev) /\ ipev[i] = "got"
    BY <1>0, <1>7, LostFacts DEF Ends
  <2>2. QED
    BY <1>0, <1>7, <2>1 DEF Ends
<1>8. CASE Doubles
  BY <1>0, <1>8, AppendFacts DEF Doubles
<1>9. CASE Hears
  BY <1>0, <1>9, TailFacts DEF Hears
<1>10. CASE Signals
  BY <1>0, <1>10 DEF Signals
<1>11. CASE Restarts
  BY <1>0, <1>11 DEF Restarts
<1>12. CASE Renews
  BY <1>0, <1>12 DEF Renews
<1>13. QED
  BY <1>1, <1>2, <1>3, <1>4, <1>5, <1>6, <1>7, <1>8, <1>9, <1>10, <1>11, <1>12
     DEF Effect

\* The task moves on only with the bit, which is then the only form.
LEMMA WaitedStep == IInv /\ TypeOK' /\ Effect => Waited'
<1> SUFFICES ASSUME IInv, TypeOK', Effect
             PROVE  Waited'
  OBVIOUS
<1>0. ipev \in Seq({"got", "lost"}) /\ Len(ipev) \in Nat
  BY DEF IInv, TypeOK, LinkTypeOK
<1> USE DEF IInv, TypeOK, LinkTypeOK, FlagsOK, LinkFlagsOK, Waited, NoToken,
            GotQueued, OneToken, Quiet
<1>1. CASE Moves
  BY <1>0, <1>1 DEF Moves, core
<1>2. CASE Creates
  BY <1>0, <1>2 DEF Creates
<1>3. CASE Dials
  BY <1>0, <1>3 DEF Dials
<1>4. CASE Taken
  BY <1>0, <1>4 DEF Taken
<1>5. CASE Starts
  BY <1>0, <1>5 DEF Starts
<1>6. CASE Opens
  BY <1>0, <1>6, AppendFacts DEF Opens
<1>7. CASE Ends
  <2>1. \A i \in 1..Len(ipev') : ipev'[i] = "got" => i \in 1..Len(ipev) /\ ipev[i] = "got"
    BY <1>0, <1>7, LostFacts DEF Ends
  <2>2. QED
    BY <1>0, <1>7, <2>1 DEF Ends
<1>8. CASE Doubles
  BY <1>0, <1>8, AppendFacts DEF Doubles
<1>9. CASE Hears
  BY <1>0, <1>9, TailFacts DEF Hears
<1>10. CASE Signals
  BY <1>0, <1>10 DEF Signals
<1>11. CASE Restarts
  BY <1>0, <1>11 DEF Restarts
<1>12. CASE Renews
  BY <1>0, <1>12 DEF Renews
<1>13. QED
  BY <1>1, <1>2, <1>3, <1>4, <1>5, <1>6, <1>7, <1>8, <1>9, <1>10, <1>11, <1>12
     DEF Effect

\* The task dials only when it finds PPP dead.
LEMMA DiallingStep == IInv /\ TypeOK' /\ Effect => Dialling'
<1> SUFFICES ASSUME IInv, TypeOK', Effect
             PROVE  Dialling'
  OBVIOUS
<1>0. ipev \in Seq({"got", "lost"}) /\ Len(ipev) \in Nat
  BY DEF IInv, TypeOK, LinkTypeOK
<1> USE DEF IInv, TypeOK, LinkTypeOK, FlagsOK, LinkFlagsOK, Dialling, Waited,
            NoToken, GotQueued, Announced, Told, Up, OneToken, Quiet
<1>1. CASE Moves
  BY <1>0, <1>1 DEF Moves, core
<1>2. CASE Creates
  BY <1>0, <1>2 DEF Creates
<1>3. CASE Dials
  BY <1>0, <1>3 DEF Dials
<1>4. CASE Taken
  BY <1>0, <1>4 DEF Taken
<1>5. CASE Starts
  BY <1>0, <1>5 DEF Starts
<1>6. CASE Opens
  BY <1>0, <1>6, AppendFacts DEF Opens
<1>7. CASE Ends
  BY <1>0, <1>7, AppendFacts DEF Ends
<1>8. CASE Doubles
  BY <1>0, <1>8, AppendFacts DEF Doubles
<1>9. CASE Hears
  BY <1>0, <1>9, TailFacts DEF Hears
<1>10. CASE Signals
  BY <1>0, <1>10 DEF Signals
<1>11. CASE Restarts
  BY <1>0, <1>11 DEF Restarts
<1>12. CASE Renews
  BY <1>0, <1>12 DEF Renews
<1>13. QED
  BY <1>1, <1>2, <1>3, <1>4, <1>5, <1>6, <1>7, <1>8, <1>9, <1>10, <1>11, <1>12
     DEF Effect

\* The invariant is inductive.
LEMMA Inductive == IInv /\ [Next]_vars => IInv'
<1> SUFFICES ASSUME IInv, [Next]_vars
             PROVE  IInv'
  OBVIOUS
<1>1. TypeOK' /\ Effect
  BY TypeStep, Effects DEF IInv
<1>2. QED
  BY <1>1, AnnouncedStep, QuietStep, OneTokenStep, WaitedStep, DiallingStep
     DEF IInv

\* The initial states satisfy the invariant.
LEMMA InitIInv == Init => IInv
<1> SUFFICES ASSUME Init PROVE IInv
  OBVIOUS
<1>1. ipev = <<>> /\ ~GotQueued
  BY DEF Init, LinkInit, GotQueued
<1>2. QED
  BY <1>1, InitType DEF Init, LinkInit, IInv, Announced, Told, Up, Quiet, OneToken,
                        Waited, NoToken, Dialling

\* The DCE is never replaced under a PPP connection that is up or being made, for
\* as long as lwIP announces each address once (app_pppos.c:200-238).
THEOREM DialsDown == Spec => []DialsOnlyWhenDown
<1>1. IInv => DialsOnlyWhenDown
  BY DEF IInv, Dialling, Waited, NoToken, DialsOnlyWhenDown
<1>2. QED
  BY <1>1, InitIInv, Inductive, PTL DEF Spec

\* Whenever the events are handled, is_connected says that lwIP's PPP is up, unless
\* the last connection ended without a LOST_IP and left it true: there is no other
\* way to a flag that is wrong (app_pppos.c:111, esp_netif_lwip_ppp.c:107-135).
THEOREM FlagFollows == Spec => []FlagFollowsLink
<1>1. IInv => FlagFollowsLink
  BY DEF IInv, Announced, Told, FlagFollowsLink
<1>2. QED
  BY <1>1, InitIInv, Inductive, PTL DEF Spec

-----------------------------------------------------------------------------
(* What the task waits for.                                                *)

\* An announced address that is handled becomes the handler's bit.
LEMMA HeardGot ==
    ASSUME ipev \in Seq({"got", "lost"}), Hears, GotQueued
    PROVE  GotQueued' \/ hpc' = "setbit"
<1>1. /\ ipev # <<>> /\ ipev' = Tail(ipev)
      /\ hpc' = IF Head(ipev) = "got" THEN "setbit" ELSE "idle"
  BY DEF Hears
<1>2. PICK i \in 1..Len(ipev) : ipev[i] = "got"
  BY DEF GotQueued
<1>3. CASE i = 1
  BY <1>1, <1>2, <1>3, TailFacts
<1>4. CASE i # 1
  <2>1. i - 1 \in 1..Len(Tail(ipev)) /\ (i - 1) + 1 = i
    BY <1>1, <1>4, TailFacts
  <2>2. Tail(ipev)[i - 1] = "got"
    BY <1>1, <1>2, <2>1, TailFacts
  <2>3. QED
    BY <1>1, <2>1, <2>2 DEF GotQueued
<1>5. QED
  BY <1>3, <1>4

\* Reading is_connected as false while PPP is up means that its event is queued.
LEMMA BitFollowsStep == IInv /\ BitFollows /\ Effect => BitFollows'
<1> SUFFICES ASSUME IInv, BitFollows, Effect
             PROVE  BitFollows'
  OBVIOUS
<1>0. ipev \in Seq({"got", "lost"}) /\ Len(ipev) \in Nat /\ Announced
  BY DEF IInv, TypeOK, LinkTypeOK
<1> USE <1>0 DEF BitFollows, GotQueued, Up
<1>1. CASE Moves
  <2>1. lpc = "top" /\ ~connected /\ Up => GotQueued
    BY DEF Announced, Told
  <2>2. QED
    BY <1>1, <2>1 DEF Moves, core
<1>2. CASE Creates \/ Taken \/ Restarts
  BY <1>2 DEF Creates, Taken, Restarts
<1>3. CASE Dials \/ Starts \/ Signals \/ Renews
  BY <1>3 DEF Dials, Starts, Signals, Renews
<1>4. CASE Opens \/ Doubles
  BY <1>4, AppendFacts DEF Opens, Doubles
<1>5. CASE Ends
  BY <1>5 DEF Ends
<1>6. CASE Hears
  <2>1. GotQueued => GotQueued' \/ hpc' = "setbit"
    BY <1>6, HeardGot
  <2>2. UNCHANGED <<lpc, ppp, bit>> /\ (gaveUp' <=> gaveUp) /\ hpc = "idle"
    BY <1>6 DEF Hears
  <2> HIDE DEF GotQueued
  <2>3. QED
    BY <2>1, <2>2
<1>7. QED
  BY <1>1, <1>2, <1>3, <1>4, <1>5, <1>6 DEF Effect

\* What the task waits for changes its form until it is the bit.
LEMMA WaitStep == IInv /\ BitFollows /\ NeverWaitsInVain /\ Effect => NeverWaitsInVain'
<1> SUFFICES ASSUME IInv, BitFollows, NeverWaitsInVain, Effect
             PROVE  NeverWaitsInVain'
  OBVIOUS
<1>0. /\ ipev \in Seq({"got", "lost"}) /\ Len(ipev) \in Nat
      /\ ppp \in {"dead", "starting", "running", "again"}
  BY DEF IInv, TypeOK, LinkTypeOK
<1> USE <1>0 DEF NeverWaitsInVain, GotQueued
<1>1. CASE Moves
  BY <1>1 DEF Moves, core
<1>2. CASE Creates \/ Taken \/ Restarts
  BY <1>2 DEF Creates, Taken, Restarts
<1>3. CASE Dials \/ Signals \/ Renews
  BY <1>3 DEF Dials, Signals, Renews
<1>4. CASE Starts
  BY <1>4 DEF Starts, BitFollows, Up
<1>5. CASE Opens \/ Doubles
  BY <1>5, AppendFacts DEF Opens, Doubles
<1>6. CASE Ends
  <2>1. GotQueued => GotQueued'
    <3>1. CASE ipev' = Append(ipev, "lost")
      BY <3>1, AppendFacts
    <3>2. CASE ipev' = ipev
      BY <3>2
    <3>3. QED
      BY <1>6, <3>1, <3>2 DEF Ends
  <2>2. QED
    BY <1>6, <2>1 DEF Ends, BitFollows
<1>7. CASE Hears
  <2>1. GotQueued => GotQueued' \/ hpc' = "setbit"
    BY <1>7, HeardGot
  <2>2. UNCHANGED <<lpc, ppp, bit, start>> /\ (gaveUp' <=> gaveUp) /\ hpc = "idle"
    BY <1>7 DEF Hears
  <2> HIDE DEF GotQueued
  <2>3. QED
    BY <2>1, <2>2
<1>8. QED
  BY <1>1, <1>2, <1>3, <1>4, <1>5, <1>6, <1>7 DEF Effect

\* The wait without a time-out ends by itself unless a dialling or a negotiation
\* failed after the attach, with the GPS or without and however often lwIP
\* announces an address (app_pppos.c:200-238): the safety part of LinkComesUp.
THEOREM WaitNotInVain == Spec => []NeverWaitsInVain
<1> DEFINE WInv == IInv /\ BitFollows /\ NeverWaitsInVain
<1>1. Init => WInv
  BY InitIInv DEF Init, LinkInit, BitFollows, Up, NeverWaitsInVain
<1>2. WInv /\ [Next]_vars => WInv'
  <2> SUFFICES ASSUME WInv, [Next]_vars
               PROVE  WInv'
    OBVIOUS
  <2>1. IInv' /\ Effect
    BY Inductive, Effects DEF IInv
  <2>2. QED
    BY <2>1, BitFollowsStep, WaitStep
<1>3. QED
  BY <1>1, <1>2, PTL DEF Spec

=============================================================================
