------------------------------ MODULE PppLink ------------------------------
(***************************************************************************)
(* The cellular link (main/app_pppos.c with components/modem and the PPP   *)
(* glue of esp_netif).                                                     *)
(*                                                                         *)
(* _ppp_task powers the SIM module, then dials whenever is_connected is    *)
(* false and waits for CONNECT_BIT.  Three more tasks take part:           *)
(* uart_event_task starts lwIP's PPP on the event PPP_START, lwIP posts    *)
(* GOT_IP and LOST_IP, and the default event loop runs on_ip_event, which  *)
(* sets is_connected and the bit.                                          *)
(*                                                                         *)
(* An AT command succeeds or fails as a whole here; ModemCmd has its       *)
(* details.  Module Uplink adds the tasks that share the UART or the link. *)
(***************************************************************************)
EXTENDS Naturals, Sequences

CONSTANTS MaxFaults,   \* commands and negotiations that fail without need
          MaxLosses,   \* connections the peer ends, or that die unnoticed
          MaxRenegs    \* addresses announced again on a connection that is up

ASSUME LinkAssumption ==
    MaxFaults \in Nat /\ MaxLosses \in Nat /\ MaxRenegs \in Nat

VARIABLES
    mux, driver,   \* what the multiplexer selects, who installed the UART driver
    lpc,           \* control point of _ppp_task
    connected,     \* handle->is_connected
    bit,           \* CONNECT_BIT
    mode,          \* mode of the DCE that is bound to the DTE
    modem,         \* what the modem itself is in: off, command or data mode
    start,         \* is an event PPP_START to be handled?
    ppp,           \* lwIP's PPP: dead, starting, running, negotiating again
    ipev, hpc,     \* events for on_ip_event, and its control point
    used,          \* environment events so far
    silent,        \* history: did the last connection end without a LOST_IP?
    doubled,       \* history: was an address announced twice?
    gaveUp         \* history: did the last dialling fail after the attach?

port  == <<mux, driver>>
stack == <<start, ppp>>
ipvars == <<ipev, hpc>>
past  == <<silent, doubled, gaveUp>>
linkVars == <<port, lpc, connected, bit, mode, modem, stack, ipvars, used, past>>

LinkInit ==
    /\ mux = "none" /\ driver = "none"
    /\ lpc = "power" /\ connected = FALSE /\ bit = FALSE
    /\ mode = "none" /\ modem = "off"
    /\ start = FALSE /\ ppp = "dead" /\ ipev = <<>> /\ hpc = "idle"
    /\ used = [faults |-> 0, losses |-> 0, renegs |-> 0]
    /\ silent = FALSE /\ doubled = FALSE /\ gaveUp = FALSE

Spend(f, max) ==
    /\ used[f] < max
    /\ used' = [used EXCEPT ![f] = @ + 1]

-----------------------------------------------------------------------------
(* _ppp_task.                                                              *)

\* Power_On_Sim selects the SIM and then waits for 54 s.
SelectSim ==
    /\ lpc = "power"
    /\ mux' = "sim" /\ lpc' = "powering"
    /\ UNCHANGED <<driver, connected, bit, mode, modem, stack, ipvars, used, past>>

\* A module that was on may or may not have left the data mode.
PoweredOn ==
    /\ lpc = "powering"
    /\ lpc' = "dte"
    /\ modem' \in ({"command"} \cup {modem}) \ {"off"}
    /\ UNCHANGED <<port, connected, bit, mode, stack, ipvars, used, past>>

\* esp_modem_dte_init fails if the UART has a driver, and the NULL it returns is
\* dereferenced: the device panics.
CreateDte ==
    /\ lpc = "dte"
    /\ IF driver = "none"
       THEN driver' = "link" /\ connected' = FALSE /\ lpc' = "top"
       ELSE lpc' = "halted" /\ UNCHANGED <<driver, connected>>
    /\ UNCHANGED <<mux, bit, mode, modem, stack, ipvars, used, past>>

\* Mutant: is_connected is not looked at.
TopAlwaysDials ==
    /\ lpc = "top" /\ lpc' = "bind"
    /\ UNCHANGED <<port, connected, bit, mode, modem, stack, ipvars, used, past>>

Top ==
    /\ lpc = "top"
    /\ lpc' = IF connected THEN "rest" ELSE "bind"
    /\ UNCHANGED <<port, connected, bit, mode, modem, stack, ipvars, used, past>>

\* 20 s while connected, 10 s after an sim7600_init that failed.
Delay ==
    /\ lpc = "rest" /\ lpc' = "top"
    /\ UNCHANGED <<port, connected, bit, mode, modem, stack, ipvars, used, past>>

Reachable == mux = "sim" /\ modem = "command"

Succeeds == Reachable /\ UNCHANGED used
Fails == (~Reachable /\ UNCHANGED used) \/ (Reachable /\ Spend("faults", MaxFaults))

\* sim7600_init: the new DCE is in command mode, whatever the modem is in.
BindDce ==
    /\ lpc = "bind"
    /\ mode' = "command" /\ lpc' = "init" /\ gaveUp' = FALSE
    /\ UNCHANGED <<port, connected, bit, modem, stack, ipvars, used,
                   silent, doubled>>

\* Mutant: a failed sim7600_init does not start over.
InitDceGoesOn ==
    /\ lpc = "init"
    /\ \/ Succeeds /\ lpc' = "setup"
       \/ Fails /\ lpc' = "wait"
    /\ UNCHANGED <<port, connected, bit, mode, modem, stack, ipvars, past>>

InitDce ==
    /\ lpc = "init"
    /\ \/ Succeeds /\ lpc' = "setup"
       \/ Fails /\ lpc' = "rest"
    /\ UNCHANGED <<port, connected, bit, mode, modem, stack, ipvars, past>>

\* Flow control, profile, signal and battery, each under ESP_ERROR_CHECK.
Setup ==
    /\ lpc = "setup"
    /\ \/ Succeeds /\ lpc' = "attach"
       \/ Fails /\ lpc' = "halted"
    /\ UNCHANGED <<port, connected, bit, mode, modem, stack, ipvars, past>>

\* esp_netif_attach runs esp_modem_start_ppp: the PDP context, then change_mode.
\* Nobody looks at the result.
Attach ==
    /\ lpc = "attach"
    /\ \/ Succeeds /\ lpc' = "dial" /\ mode' = "transition" /\ UNCHANGED gaveUp
       \/ Fails /\ lpc' = "wait" /\ gaveUp' = TRUE /\ UNCHANGED mode
    /\ UNCHANGED <<port, connected, bit, modem, stack, ipvars, silent, doubled>>

\* Mutant: a dialling that fails leaves the DCE between the modes.
DialLeavesTransition ==
    /\ lpc = "dial" /\ lpc' = "wait"
    /\ \/ /\ Succeeds
          /\ modem' = "data" /\ mode' = "ppp" /\ start' = TRUE
          /\ UNCHANGED gaveUp
       \/ /\ Fails
          /\ gaveUp' = TRUE
          /\ UNCHANGED <<mode, modem, start>>
    /\ UNCHANGED <<port, connected, bit, ppp, ipvars, silent, doubled>>

\* ATD, or ATO after it: data mode and PPP_START, or back to command mode.
Dial ==
    /\ lpc = "dial" /\ lpc' = "wait"
    /\ \/ /\ Succeeds
          /\ modem' = "data" /\ mode' = "ppp" /\ start' = TRUE
          /\ UNCHANGED gaveUp
       \/ /\ Fails
          /\ mode' = "command" /\ gaveUp' = TRUE
          /\ UNCHANGED <<modem, start>>
    /\ UNCHANGED <<port, connected, bit, ppp, ipvars, silent, doubled>>

\* Mutant: the bit is left set.
WaitForBitKeeps ==
    /\ lpc = "wait" /\ bit
    /\ lpc' = "top"
    /\ UNCHANGED <<port, connected, bit, mode, modem, stack, ipvars, used, past>>

\* xEventGroupWaitBits, without a time-out; the bit is cleared.
WaitForBit ==
    /\ lpc = "wait" /\ bit
    /\ bit' = FALSE /\ lpc' = "top"
    /\ UNCHANGED <<port, connected, mode, modem, stack, ipvars, used, past>>

LinkTask ==
    \/ SelectSim \/ PoweredOn \/ CreateDte
    \/ Top \/ Delay \/ BindDce \/ InitDce \/ Setup \/ Attach \/ Dial \/ WaitForBit

-----------------------------------------------------------------------------
(* uart_event_task, lwIP and the default event loop.                       *)

\* esp_netif_action_start: ppp_connect refuses unless the phase is dead.
StartPpp ==
    /\ start /\ start' = FALSE
    /\ ppp' = IF ppp = "dead" THEN "starting" ELSE ppp
    /\ UNCHANGED <<port, lpc, connected, bit, mode, modem, ipvars, used, past>>

\* Frames pass between the modem and lwIP.
Carrying == mux = "sim" /\ modem = "data" /\ mode = "ppp"

\* A connection has been made and has not ended.
Up == ppp \in {"running", "again"}

Negotiated ==
    /\ ppp = "starting" /\ Carrying
    /\ ppp' = "running" /\ ipev' = Append(ipev, "got") /\ silent' = FALSE
    /\ UNCHANGED <<port, lpc, connected, bit, mode, modem, start, hpc, used,
                   doubled, gaveUp>>

\* on_ppp_status_changed: the end of a connection is LOST_IP when lwIP says
\* PPPERR_CONNECT; for a failed authentication, a loopback, a protocol error or
\* a dead peer nothing is posted that on_ip_event hears of.
ReportsEnd(up) ==
    \/ ipev' = Append(ipev, "lost") /\ silent' = FALSE
    \/ ipev' = ipev /\ silent' = (silent \/ up)

NegotiationEnds ==
    /\ ppp \in {"starting", "again"}
    /\ ppp' = "dead" /\ ReportsEnd(ppp = "again")
    /\ gaveUp' = (gaveUp \/ (ppp = "starting" /\ lpc = "wait"))
    /\ UNCHANGED <<port, lpc, connected, bit, mode, modem, start, hpc, doubled>>

NegotiationTimesOut == ~Carrying /\ NegotiationEnds /\ UNCHANGED used
NegotiationRefused == Carrying /\ NegotiationEnds /\ Spend("faults", MaxFaults)

\* The peer asks for LCP again: lwIP goes back to its ESTABLISH phase, takes the
\* interface down and posts nothing.
PeerRenegotiates ==
    /\ ppp = "running" /\ Carrying /\ Spend("renegs", MaxRenegs)
    /\ ppp' = "again"
    /\ UNCHANGED <<port, lpc, connected, bit, mode, modem, start, ipvars, past>>

Renegotiated ==
    /\ ppp = "again" /\ Carrying
    /\ ppp' = "running" /\ ipev' = Append(ipev, "got")
    /\ silent' = FALSE /\ doubled' = TRUE
    /\ UNCHANGED <<port, lpc, connected, bit, mode, modem, start, hpc, used, gaveUp>>

PeerTerminates ==
    /\ ppp = "running" /\ Carrying /\ Spend("losses", MaxLosses)
    /\ ppp' = "dead" /\ ReportsEnd(TRUE)
    /\ UNCHANGED <<port, lpc, connected, bit, mode, modem, start, hpc, doubled, gaveUp>>

\* The carrier is gone and no frame says so: lwIP sends no LCP echo requests.
DiesUnnoticed ==
    /\ Up /\ modem = "data" /\ Spend("losses", MaxLosses)
    /\ modem' = "command"
    /\ UNCHANGED <<port, lpc, connected, bit, mode, stack, ipvars, past>>

\* The modem leaves the data mode after its connection has ended.
ModemHangsUp ==
    /\ modem = "data" /\ ppp = "dead" /\ ~start
    /\ modem' = "command"
    /\ UNCHANGED <<port, lpc, connected, bit, mode, stack, ipvars, used, past>>

\* Mutant: the loss of the address is only logged.
OnIpEventGotOnly ==
    /\ hpc = "idle" /\ ipev # <<>>
    /\ connected' = (connected \/ Head(ipev) = "got") /\ ipev' = Tail(ipev)
    /\ hpc' = IF Head(ipev) = "got" THEN "setbit" ELSE "idle"
    /\ UNCHANGED <<port, lpc, bit, mode, modem, stack, used, past>>

\* on_ip_event: is_connected, and after GOT_IP the bit.
OnIpEvent ==
    /\ hpc = "idle" /\ ipev # <<>>
    /\ connected' = (Head(ipev) = "got") /\ ipev' = Tail(ipev)
    /\ hpc' = IF Head(ipev) = "got" THEN "setbit" ELSE "idle"
    /\ UNCHANGED <<port, lpc, bit, mode, modem, stack, used, past>>

SetBit ==
    /\ hpc = "setbit" /\ hpc' = "idle"
    /\ bit' = TRUE
    /\ UNCHANGED <<port, lpc, connected, mode, modem, stack, ipev, used, past>>

Handlers == StartPpp \/ OnIpEvent \/ SetBit

\* What the stack and the modem do by themselves, sooner or later.
Unaided == Negotiated \/ NegotiationTimesOut \/ Renegotiated \/ ModemHangsUp

Mishaps == NegotiationRefused \/ PeerRenegotiates \/ PeerTerminates \/ DiesUnnoticed

-----------------------------------------------------------------------------
LinkFlagsOK ==
    /\ connected \in BOOLEAN /\ bit \in BOOLEAN /\ start \in BOOLEAN
    /\ silent \in BOOLEAN /\ doubled \in BOOLEAN /\ gaveUp \in BOOLEAN

\* The type of every variable; a DCE is between its modes only while it dials.
LinkTypeOK ==
    /\ mux \in {"none", "sim", "gps"} /\ driver \in {"none", "link", "gps"}
    /\ lpc \in {"power", "powering", "dte", "top", "rest", "bind", "init",
                "setup", "attach", "dial", "wait", "halted"}
    /\ mode \in {"none", "command", "transition", "ppp"}
    /\ mode = "transition" => lpc \in {"dial", "halted"}
    /\ modem \in {"off", "command", "data"}
    /\ ppp \in {"dead", "starting", "running", "again"}
    /\ ipev \in Seq({"got", "lost"}) /\ hpc \in {"idle", "setbit"}
    /\ used \in [faults : 0..MaxFaults, losses : 0..MaxLosses, renegs : 0..MaxRenegs]

\* The task dials only when there is no connection and none is being made: a
\* DCE is never replaced under a PPP connection, because CONNECT_BIT and
\* is_connected agree with lwIP by the time the task looks at them.  Only an
\* address announced twice can break that: its second CONNECT_BIT outlives the
\* connection (app_pppos.c:133, 200, 238).
DialsOnlyWhenDown ==
    lpc \in {"init", "setup", "attach", "dial"} /\ ~doubled
        => ppp = "dead" /\ ~start

\* Once the events lwIP posted are handled, is_connected says whether its PPP is
\* up, renegotiating included, whatever the task, the GPS and the modem did
\* meanwhile (app_pppos.c:111).  There is one way to a flag that stays true over
\* a PPP that is dead: the last connection ended with a code for which no
\* LOST_IP is posted (esp_netif_lwip_ppp.c:107-135), and the flag is then wrong
\* until another connection is made or the device restarts.  A carrier that is
\* lost without lwIP noticing is no matter of this property.
FlagFollowsLink == ipev = <<>> => (connected <=> Up \/ silent)

\* An address is announced and its handler has not got to it yet.
GotQueued == \E i \in 1..Len(ipev) : ipev[i] = "got"

\* The wait for CONNECT_BIT, which has no time-out, always has something to wait
\* for: PPP_START, a negotiation, an announced address or its handler.  The one
\* exception is a dialling or a negotiation that failed after the attach, whose
\* result nobody looks at; a PPP_START that meets a connection which is still up
\* and is refused is none (app_pppos.c:200-238).
NeverWaitsInVain ==
    lpc = "wait" /\ ~bit /\ ~gaveUp
        => start \/ ppp = "starting" \/ GotQueued \/ hpc = "setbit"

\* The task waits for an address that no negotiation is going to bring.
Stranded == /\ lpc = "wait" /\ ~bit /\ gaveUp
            /\ ppp = "dead" /\ ~start /\ ipev = <<>> /\ hpc = "idle"

=============================================================================
