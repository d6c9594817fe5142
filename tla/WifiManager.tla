----------------------------- MODULE WifiManager -----------------------------
(***************************************************************************)
(* How the firmware gets on the network: wifi_manager.c and app_main.      *)
(*                                                                         *)
(* The main task tries the saved network MaxRetries times, and opens an    *)
(* access point with a configuration page when that fails; then it starts  *)
(* the USB/IP server.  Three tasks share the flags of wifi_manager.c       *)
(* without a lock: the main task, the event task, which runs               *)
(* wifi_event_handler, and the task of the HTTP server, which saves a      *)
(* configuration and restarts the device.                                  *)
(*                                                                         *)
(* The bits WIFI_AP_STARTED_BIT and WIFI_SCAN_DONE_BIT, which nobody       *)
(* reads, and the list of networks, which nobody fills, are left out.      *)
(***************************************************************************)
EXTENDS Integers, Sequences

CONSTANTS
  MaxRetries,     \* MAX_RECONNECTED_TIMES
  MaxCalls,       \* bound: how often the application calls wifi_reconnect
  MaxLosses,      \* bound: how often an established link is lost
  MaxRestarts     \* bound: how often the device is restarted

ASSUME WifiAssumption ==
  /\ MaxRetries \in Nat \ {0}
  /\ MaxCalls \in Nat /\ MaxLosses \in Nat /\ MaxRestarts \in Nat

VARIABLES
  main,       \* where the main task is
  retry,      \* retry_count
  served,     \* has the USB/IP server been started?
  handler,    \* where the event task is
  events,     \* the events in its queue
  bits,       \* the bits of s_wifi_event_group
  apFlag,     \* s_ap_mode_active
  web,        \* s_http_server # NULL
  http,       \* the HTTP server's task: "idle", or "saved" until it restarts the device
  mode,       \* the driver's mode: "STA" or "APSTA"
  sta,        \* the driver's connection: "idle", "connecting" or "linked"
  saved,      \* is there a configuration in the NVS?
  calls, losses, restarts,
  fault       \* how the program left defined behaviour, "none" while it has not

mainVars   == <<main, retry, served>>
flagVars   == <<bits, apFlag>>
httpVars   == <<web, http>>
driverVars == <<mode, sta>>
boundVars  == <<calls, losses, restarts>>
vars == <<mainVars, handler, events, flagVars, httpVars, driverVars, saved, boundVars,
          fault>>

Init ==
  /\ main = "boot" /\ retry = 0 /\ served = FALSE
  /\ handler = "ready" /\ events = <<>>
  /\ bits = {} /\ apFlag = FALSE
  /\ web = FALSE /\ http = "idle"
  /\ mode = "STA" /\ sta = "idle"
  /\ saved \in BOOLEAN
  /\ calls = 0 /\ losses = 0 /\ restarts = 0
  /\ fault = "none"

-----------------------------------------------------------------------------
(* The driver of ESP-IDF, which is external: what it does, it reports.     *)

Post(e) == events' = Append(events, e)

\* esp_wifi_disconnect
Disconnect ==
  /\ sta' = "idle"
  /\ IF sta = "idle" THEN UNCHANGED events ELSE Post("STA_DISCONNECTED")

\* A connection attempt takes as long as it takes: also longer than the caller waits.
LinkUp ==
  /\ sta = "connecting" /\ sta' = "linked" /\ Post("GOT_IP")
  /\ UNCHANGED <<mainVars, handler, flagVars, httpVars, mode, saved, boundVars, fault>>

LinkFails ==
  /\ sta = "connecting" /\ sta' = "idle" /\ Post("STA_DISCONNECTED")
  /\ UNCHANGED <<mainVars, handler, flagVars, httpVars, mode, saved, boundVars, fault>>

LinkLost ==
  /\ sta = "linked" /\ losses < MaxLosses
  /\ sta' = "idle" /\ losses' = losses + 1 /\ Post("STA_DISCONNECTED")
  /\ UNCHANGED <<mainVars, handler, flagVars, httpVars, mode, saved, calls, restarts,
                 fault>>

-----------------------------------------------------------------------------
(* wifi_stop_ap, for the task whose place is pc.  Stopping the HTTP server *)
(* waits for its task to be idle.                                          *)

\* Mutant: the HTTP server's task is killed.
StopApKills(pc, next, done) ==
  \/ /\ pc = "stop" /\ next = (IF ~apFlag THEN done
                               ELSE IF web THEN "halting" ELSE "mode")
     /\ UNCHANGED <<apFlag, httpVars, mode, fault>>
  \/ /\ pc = "halting" /\ web' = FALSE /\ http' = "idle" /\ next = "mode"
     /\ UNCHANGED <<apFlag, mode, fault>>
  \/ /\ pc = "mode" /\ mode' = "STA" /\ next = "unflag"
     /\ UNCHANGED <<apFlag, httpVars, fault>>
  \/ /\ pc = "unflag" /\ apFlag' = FALSE /\ next = done
     /\ UNCHANGED <<httpVars, mode, fault>>

StopAp(pc, next, done) ==
  \/ /\ pc = "stop" /\ next = (IF ~apFlag THEN done
                               ELSE IF web THEN "halting" ELSE "mode")
     /\ UNCHANGED <<apFlag, httpVars, mode, fault>>
  \/ /\ pc = "halting" /\ http = "idle"
     /\ web' = FALSE /\ next = "mode"
     /\ fault' = IF web THEN "none" ELSE "stopped_twice"
     /\ UNCHANGED <<apFlag, http, mode>>
  \/ /\ pc = "mode" /\ mode' = "STA" /\ next = "unflag"
     /\ UNCHANGED <<apFlag, httpVars, fault>>
  \/ /\ pc = "unflag" /\ apFlag' = FALSE /\ next = done
     /\ UNCHANGED <<httpVars, mode, fault>>

-----------------------------------------------------------------------------
(* The event task.                                                         *)

HandleEvent ==
  /\ handler = "ready" /\ events # <<>> /\ events' = Tail(events)
  /\ CASE Head(events) = "AP_START" ->
            apFlag' = TRUE /\ UNCHANGED <<handler, bits>>
       [] Head(events) = "STA_DISCONNECTED" ->
            /\ bits' = IF apFlag THEN bits ELSE bits \cup {"FAIL"}
            /\ UNCHANGED <<handler, apFlag>>
       [] Head(events) = "GOT_IP" ->
            /\ handler' = IF apFlag THEN "stop" ELSE "got_ip"
            /\ UNCHANGED <<bits, apFlag>>
  /\ UNCHANGED <<mainVars, httpVars, driverVars, saved, boundVars, fault>>

\* Mutant: the handler is done when it has stopped the access point.
HandlerStopsApOnly ==
  /\ StopAp(handler, handler', "ready")
  /\ UNCHANGED <<mainVars, events, bits, sta, saved, boundVars>>

\* Once there is an address, the access point is not needed any more.
HandlerStopsAp ==
  /\ StopAp(handler, handler', "got_ip")
  /\ UNCHANGED <<mainVars, events, bits, sta, saved, boundVars>>

HandlerConnected ==
  /\ handler = "got_ip" /\ handler' = "ready"
  /\ bits' = bits \cup {"CONNECTED"}
  /\ UNCHANGED <<mainVars, events, apFlag, httpVars, driverVars, saved, boundVars, fault>>

-----------------------------------------------------------------------------
(* The main task: wifi_init, wifi_try_connect_saved, wifi_start_ap.        *)

InitWifi ==
  /\ main = "boot"
  /\ main' = "try" /\ retry' = 0
  /\ UNCHANGED <<served, handler, events, flagVars, httpVars, driverVars, saved,
                 boundVars, fault>>

\* Mutant: one attempt too many.
TryOneMore ==
  /\ main = "try" /\ saved /\ retry =< MaxRetries
  /\ main' = "connect"
  /\ IF retry > 0 THEN Disconnect ELSE UNCHANGED <<sta, events>>
  /\ UNCHANGED <<retry, served, handler, flagVars, httpVars, mode, saved, boundVars, fault>>

\* A retry begins with a disconnection.
Try ==
  /\ main = "try" /\ saved /\ retry < MaxRetries
  /\ main' = "connect"
  /\ IF retry > 0 THEN Disconnect ELSE UNCHANGED <<sta, events>>
  /\ UNCHANGED <<retry, served, handler, flagVars, httpVars, mode, saved, boundVars, fault>>

GiveUp ==
  /\ main = "try" /\ (~saved \/ retry = MaxRetries)
  /\ main' = "fallback"
  /\ UNCHANGED <<retry, served, handler, events, flagVars, httpVars, driverVars, saved,
                 boundVars, fault>>

\* The configuration or the attempt may be refused, which costs a retry, too.
Connect ==
  /\ main = "connect"
  /\ \/ sta' = "connecting" /\ main' = "waiting" /\ UNCHANGED retry
     \/ main' = "try" /\ retry' = retry + 1 /\ UNCHANGED sta
  /\ UNCHANGED <<served, handler, events, flagVars, httpVars, mode, saved, boundVars, fault>>

\* The wait ends with a bit.  It clears none: one that an earlier attempt left ends it at
\* once.
WaitEnds ==
  /\ main = "waiting" /\ bits # {}
  /\ IF "CONNECTED" \in bits THEN main' = "up" /\ UNCHANGED retry
                             ELSE main' = "try" /\ retry' = retry + 1
  /\ UNCHANGED <<served, handler, events, flagVars, httpVars, driverVars, saved,
                 boundVars, fault>>

\* Mutant: the wait has no timeout.
WaitTimesOutNever == FALSE /\ UNCHANGED vars

\* The event group gives up after 15 seconds.
WaitTimesOut ==
  /\ main = "waiting" /\ bits = {}
  /\ main' = "try" /\ retry' = retry + 1
  /\ UNCHANGED <<served, handler, events, flagVars, httpVars, driverVars, saved,
                 boundVars, fault>>

\* Mutant: no access point while an attempt is going on.
StartApIfIdle ==
  /\ main = "fallback"
  /\ main' = IF apFlag \/ sta = "connecting" THEN "web" ELSE "open"
  /\ UNCHANGED <<retry, served, handler, events, flagVars, httpVars, driverVars, saved,
                 boundVars, fault>>

StartAp ==
  /\ main = "fallback"
  /\ main' = IF apFlag THEN "web" ELSE "open"
  /\ UNCHANGED <<retry, served, handler, events, flagVars, httpVars, driverVars, saved,
                 boundVars, fault>>

OpenAp ==
  /\ main = "open" /\ main' = "configure"
  /\ mode' = "APSTA"
  /\ IF mode = "STA" THEN Post("AP_START") ELSE UNCHANGED events
  /\ UNCHANGED <<retry, served, handler, flagVars, httpVars, sta, saved, boundVars, fault>>

\* The driver refuses to configure an interface it does not have, and ESP_ERROR_CHECK aborts.
ConfigureAp ==
  /\ main = "configure"
  /\ IF mode = "APSTA" THEN main' = "flag" /\ UNCHANGED fault
                       ELSE fault' = "aborted" /\ UNCHANGED main
  /\ UNCHANGED <<retry, served, handler, events, flagVars, httpVars, driverVars, saved,
                 boundVars>>

ApStarted ==
  /\ main = "flag" /\ apFlag' = TRUE /\ main' = "web"
  /\ UNCHANGED <<retry, served, handler, events, bits, httpVars, driverVars, saved,
                 boundVars, fault>>

\* httpd_start may fail, which is only logged.
StartWebserver ==
  /\ main = "web" /\ main' = "up"
  /\ web' \in {web, TRUE}
  /\ UNCHANGED <<retry, served, handler, events, flagVars, http, driverVars, saved,
                 boundVars, fault>>

\* app_main starts the server once wifi_init is back.
Serve ==
  /\ main = "up" /\ ~served /\ served' = TRUE
  /\ UNCHANGED <<main, retry, handler, events, flagVars, httpVars, driverVars, saved,
                 boundVars, fault>>

\* wifi_reconnect is offered to the application; the firmware does not call it.
Reconnect ==
  /\ main = "up" /\ served /\ calls < MaxCalls
  /\ calls' = calls + 1
  /\ main' = IF apFlag THEN "stop" ELSE "disconnect"
  /\ UNCHANGED <<retry, served, handler, events, flagVars, httpVars, driverVars, saved,
                 losses, restarts, fault>>

MainStopsAp ==
  /\ StopAp(main, main', "disconnect")
  /\ UNCHANGED <<retry, served, handler, events, bits, sta, saved, boundVars>>

\* wifi_disconnect
MainDisconnects ==
  /\ main = "disconnect" /\ main' = "clear" /\ Disconnect
  /\ UNCHANGED <<retry, served, handler, flagVars, httpVars, mode, saved, boundVars, fault>>

ClearConnected ==
  /\ main = "clear" /\ main' = "try" /\ retry' = 0
  /\ bits' = bits \ {"CONNECTED"}
  /\ UNCHANGED <<served, handler, events, apFlag, httpVars, driverVars, saved, boundVars,
                 fault>>

-----------------------------------------------------------------------------
(* The configuration page, and the restart of the device.                  *)

\* web_config_handler.  What it cannot save is only logged.
SaveConfig ==
  /\ web /\ http = "idle" /\ (mode = "APSTA" \/ sta = "linked")
  /\ restarts < MaxRestarts
  /\ http' = "saved" /\ saved' \in {saved, TRUE}
  /\ UNCHANGED <<mainVars, handler, events, flagVars, web, driverVars, boundVars, fault>>

\* Mutant: the event group survives.
PowerUpWarm ==
  /\ main' = "boot" /\ retry' = 0 /\ served' = FALSE
  /\ handler' = "ready" /\ events' = <<>>
  /\ apFlag' = FALSE /\ web' = FALSE /\ http' = "idle"
  /\ mode' = "STA" /\ sta' = "idle"
  /\ restarts' = restarts + 1
  /\ UNCHANGED <<bits, saved, calls, losses, fault>>

\* Of the state only the NVS is kept.
PowerUp ==
  /\ main' = "boot" /\ retry' = 0 /\ served' = FALSE
  /\ handler' = "ready" /\ events' = <<>>
  /\ bits' = {} /\ apFlag' = FALSE /\ web' = FALSE /\ http' = "idle"
  /\ mode' = "STA" /\ sta' = "idle"
  /\ restarts' = restarts + 1
  /\ UNCHANGED <<saved, calls, losses, fault>>

Restart == http = "saved" /\ PowerUp
PowerLoss == restarts < MaxRestarts /\ http = "idle" /\ PowerUp

-----------------------------------------------------------------------------
MainTask ==
  \/ InitWifi \/ Try \/ GiveUp \/ Connect \/ WaitEnds \/ WaitTimesOut \/ StartAp \/ OpenAp
  \/ ConfigureAp \/ ApStarted \/ StartWebserver \/ Serve \/ MainStopsAp \/ MainDisconnects
  \/ ClearConnected
EventTask == HandleEvent \/ HandlerStopsAp \/ HandlerConnected
Driver == LinkUp \/ LinkFails \/ LinkLost

Next ==
  /\ fault = "none"
  /\ MainTask \/ EventTask \/ Driver \/ Reconnect \/ SaveConfig \/ Restart \/ PowerLoss

\* The tasks are scheduled, and a wait times out.
Fairness ==
  /\ WF_vars(fault = "none" /\ MainTask)
  /\ WF_vars(fault = "none" /\ EventTask)
  /\ WF_vars(fault = "none" /\ Restart)

Spec == Init /\ [][Next]_vars /\ Fairness

-----------------------------------------------------------------------------
(* Properties.                                                             *)

StopPlaces == {"stop", "halting", "mode", "unflag"}
EventName == {"AP_START", "STA_DISCONNECTED", "GOT_IP"}

TypeOK ==
  /\ main \in {"boot", "try", "connect", "waiting", "fallback", "open", "configure", "flag",
               "web", "up", "disconnect", "clear"} \cup StopPlaces
  /\ handler \in {"ready", "got_ip"} \cup StopPlaces
  /\ retry \in 0 .. MaxRetries
  /\ bits \subseteq {"CONNECTED", "FAIL"}
  /\ events \in Seq(EventName)
  /\ apFlag \in BOOLEAN /\ web \in BOOLEAN /\ served \in BOOLEAN /\ saved \in BOOLEAN
  /\ http \in {"idle", "saved"} /\ (http = "saved" => web)
  /\ mode \in {"STA", "APSTA"} /\ sta \in {"idle", "connecting", "linked"}
  /\ calls \in 0 .. MaxCalls /\ losses \in 0 .. MaxLosses
  /\ restarts \in 0 .. MaxRestarts
  /\ fault \in {"none", "stopped_twice", "aborted"}

\* No task is at work on the network, and every event is handled.
Quiet == main = "up" /\ handler = "ready" /\ events = <<>>

\* As the firmware is shipped, and while no link was lost, the device ends up with a link
\* or with its access point open, whatever late answer meets whatever step.  The exception
\* is a retry that tore down the link an earlier attempt had got too late.  The bit that
\* link left makes the retry succeed at once, and nothing is tried when it then fails; or,
\* when the retries were refused, the report of that link closes the access point.
Reachable ==
  Quiet /\ calls = 0 /\ losses = 0 =>
    \/ mode = "APSTA" \/ sta = "linked"
    \/ retry > 0 /\ bits = {"CONNECTED", "FAIL"}

\* A link to an attempt that was given up has been reported and closes, or has closed, the
\* access point.
LateLink == handler \in {"unflag", "got_ip"} \/ "CONNECTED" \in bits

\* The HTTP server is stopped twice only if the application calls wifi_reconnect, and
\* wifi_start_ap aborts only if a late link takes away the interface it is configuring.
FaultCauses ==
  /\ fault = "stopped_twice" => calls > 0
  /\ fault = "aborted" => main = "configure" /\ mode = "STA" /\ (LateLink \/ calls > 0)

\* The flags that the tasks share without a lock never miss what the driver has: in the end
\* an open access point is flagged, so that the next link closes it, and a link has its bit.
\* They may claim more than there is.  As the firmware is shipped, s_ap_mode_active stays set
\* for no access point only if one was opened after the last attempt and a late link closed
\* it, and the bit stays set for no link only if the link was lost, or torn down by a retry.
\* A stale flag makes one task act on what another one closed: FaultCauses.
FlagsTrue ==
  /\ Quiet /\ mode = "APSTA" => apFlag
  /\ Quiet /\ sta = "linked" => "CONNECTED" \in bits
  /\ Quiet /\ calls = 0 =>
       /\ apFlag => mode = "APSTA" \/ (retry = MaxRetries /\ "CONNECTED" \in bits)
       /\ "CONNECTED" \in bits => sta = "linked" \/ losses > 0 \/ retry > 0
  /\ FaultCauses

\* The attempt is still going on, and the bit of an earlier failure ends the wait for it.
GivesUpEarly ==
  main = "waiting" /\ main' = "try" /\ sta = "connecting" /\ "FAIL" \in bits

\* The first attempt after power-on is given its whole time; a retry or wifi_reconnect
\* need not be, because nothing clears the bit of an earlier failure.
FirstAttemptWaits == [][GivesUpEarly => retry > 0 \/ calls > 0]_vars

\* The USB/IP server is started, whatever becomes of the network.
ServerStarts == ~served ~> (served \/ fault # "none")

\* A saved configuration is applied: the restart that follows is not lost when a late link
\* stops the access point and with it the server whose task has to restart the device.
ConfigApplied == http = "saved" ~> (main = "boot" \/ fault # "none")

=============================================================================
