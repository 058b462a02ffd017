------------------------------- MODULE Uplink -------------------------------
(***************************************************************************)
(* The cellular link together with the two tasks that depend on it: the    *)
(* GPS receiver (main/app_gps.c), which uses the same UART and turns the   *)
(* multiplexer, and the firmware update (main/app_ota.c), which needs the  *)
(* network and restarts the device.                                        *)
(***************************************************************************)
EXTENDS PppLink

VARIABLES
    gpsBuilt,     \* #if defined ENABLE_GPS
    gpc,          \* control point of _gps_task
    opc,          \* control point of _ota_task
    flag,         \* force_ota_flag, a binary semaphore
    asked         \* history: an update was asked for and no attempt has begun
                  \* since, nor was one dropped for want of a network

gps == <<gpsBuilt, gpc>>
ota == <<opc, flag, asked>>
vars == <<linkVars, gps, ota>>

Init ==
    /\ LinkInit
    /\ gpsBuilt \in BOOLEAN /\ gpc = "first"
    /\ opc = "take" /\ flag = FALSE /\ asked = FALSE

-----------------------------------------------------------------------------
(* _gps_task: 30 s after boot and after each round it turns the            *)
(* multiplexer and installs the driver, and listens for up to 10 s.  As a  *)
(* rule its first switch falls into the 54 s of Power_On_Sim; a task that  *)
(* spins can hold app_main back for longer, so both orders are here.       *)

SwitchToGps ==
    /\ gpsBuilt /\ gpc \in {"first", "rest"}
    /\ mux' = "gps" /\ gpc' = "listen"
    /\ driver' = IF driver = "none" THEN "gps" ELSE driver
    /\ UNCHANGED <<lpc, connected, bit, mode, modem, stack, ipvars, used, past,
                   gpsBuilt, ota>>

RoundOver ==
    /\ gpc = "listen" /\ gpc' = "rest"
    /\ UNCHANGED <<linkVars, gpsBuilt, ota>>

-----------------------------------------------------------------------------
(* The firmware update.                                                    *)

\* app_ota_force_update, called for a message of the server, which may have been
\* received before the link was lost.
ForceUpdate ==
    /\ flag' = TRUE /\ asked' = TRUE
    /\ UNCHANGED <<linkVars, gps, opc>>

TakeFlag ==
    /\ opc = "take" /\ flag
    /\ flag' = FALSE /\ opc' = "check"
    /\ UNCHANGED <<linkVars, gps, asked>>

\* Without a network the request is forgotten.
CheckNetwork ==
    /\ opc = "check"
    /\ opc' = IF connected THEN "download" ELSE "take"
    /\ asked' = FALSE
    /\ UNCHANGED <<linkVars, gps, flag>>

\* Mutant: requests that came during the download are taken as answered.
DownloadFailsClears ==
    /\ opc = "download"
    /\ opc' = "take" /\ flag' = FALSE
    /\ UNCHANGED <<linkVars, gps, asked>>

\* esp_https_ota returns an error.  It need not return: it has no time-out, and a
\* read that times out only leads to the next one.
DownloadFails ==
    /\ opc = "download"
    /\ opc' = "take"
    /\ UNCHANGED <<linkVars, gps, flag, asked>>

\* esp_https_ota was successful, which takes a link that works: esp_restart.
Downloaded ==
    /\ opc = "download" /\ ppp = "running" /\ Carrying
    /\ lpc' = "halted" /\ opc' = "restart"
    /\ UNCHANGED <<port, connected, bit, mode, modem, stack, ipvars, used, past,
                   gps, flag, asked>>

OtaTask == TakeFlag \/ CheckNetwork \/ DownloadFails \/ Downloaded

-----------------------------------------------------------------------------
\* A panic, an abort or esp_restart: all but the modem starts anew.
Reboot ==
    /\ lpc = "halted"
    /\ mux' = "none" /\ driver' = "none"
    /\ lpc' = "power" /\ connected' = FALSE /\ bit' = FALSE /\ mode' = "none"
    /\ start' = FALSE /\ ppp' = "dead" /\ ipev' = <<>> /\ hpc' = "idle"
    /\ silent' = FALSE /\ doubled' = FALSE /\ gaveUp' = FALSE
    /\ gpc' = "first" /\ opc' = "take" /\ flag' = FALSE /\ asked' = FALSE
    /\ UNCHANGED <<modem, used, gpsBuilt>>

Running == lpc # "halted"

Link == LinkTask /\ UNCHANGED <<gps, ota>>
Events == Running /\ Handlers /\ UNCHANGED <<gps, ota>>
Stack == Running /\ Unaided /\ UNCHANGED <<gps, ota>>
Faults == Running /\ Mishaps /\ UNCHANGED <<gps, ota>>
Gps == Running /\ (SwitchToGps \/ RoundOver)
Ota == Running /\ OtaTask
OtaBegins == Running /\ (TakeFlag \/ CheckNetwork)

Next ==
    \/ Link \/ Events \/ Stack \/ Faults
    \/ Gps \/ Ota \/ (Running /\ ForceUpdate)
    \/ Reboot

Spec == Init /\ [][Next]_vars

\* Every task runs, and the stack and the modem come to an end of what they do; a
\* download need not, so that only the steps up to it are fair.
Fairness ==
    /\ WF_vars(Link) /\ WF_vars(Events)
    /\ WF_vars(Stack) /\ WF_vars(Gps) /\ WF_vars(OtaBegins) /\ WF_vars(Reboot)

FairSpec == Spec /\ Fairness

-----------------------------------------------------------------------------
FlagsOK ==
    LinkFlagsOK /\ gpsBuilt \in BOOLEAN /\ flag \in BOOLEAN /\ asked \in BOOLEAN

\* The type of every variable, with that of the link (app_pppos.c, esp_modem.c:404).
TypeOK ==
    /\ FlagsOK /\ LinkTypeOK
    /\ gpc \in {"first", "rest", "listen"}
    /\ opc \in {"take", "check", "download", "restart"}

\* Without the GPS, and with finitely many mishaps, the device ends up connected
\* for good or keeps restarting for updates, unless a dialling or a negotiation
\* failed after the attach, when the wait of app_pppos.c:238 never ends, or a
\* connection ended without a LOST_IP, when is_connected stays true and the task
\* never dials again (app_pppos.c:200).
LinkComesUp ==
    ~gpsBuilt => \/ <>[](connected /\ ppp = "running")
                 \/ <>[](connected /\ ppp = "dead" /\ silent)
                 \/ <>[]Stranded
                 \/ []<>(opc = "restart")

\* Unless esp_https_ota is caught in a download for good, which a server that
\* stalls can bring about (esp_https_ota.c:298-315, 405-410), a request for an
\* update is answered by an attempt that begins after it, is dropped because
\* there is no network, or is overtaken by a restart; one that comes during an
\* attempt is not lost (app_ota.c:98-115, 165-172).
UpdateAttempted == []<>(opc # "download") => (asked ~> ~asked)

\* When Power_On_Sim is done the multiplexer is at the SIM, as its comments at
\* app_pppos.c:60 and 61 and its message at 78 say.
SimSelected == lpc = "dte" => mux = "sim"

=============================================================================
