-------------------------- MODULE WifiManager_proofs --------------------------
(***************************************************************************)
(* Proofs of the safety properties of WifiManager, for any number of       *)
(* retries and of calls, losses and restarts.  The inductive invariants:   *)
(*                                                                         *)
(*   Places    TypeOK, and what the place of the main task says;           *)
(*   Idle      an attempt starts from a driver that has no link;           *)
(*   Flags     what the driver has is flagged, or an event that will have  *)
(*             it flagged is in the queue;                                 *)
(*   Fresh     nothing is left of an earlier attempt during the first one; *)
(*   Late      where the answer to an attempt that was given up can be,    *)
(*             while no link was lost and wifi_reconnect was not called;   *)
(*   Settled   what the main task did to get where it is: all attempts,    *)
(*             none for want of a configuration, or one that succeeded.    *)
(***************************************************************************)
EXTENDS WifiManager, SequenceTheorems, TLAPS

Pending(e) == \E i \in DOMAIN events : events[i] = e

\* The places of the main task before it opens an access point or has a link.
Attempts == {"boot", "try", "connect", "waiting", "fallback", "open"}

Places ==
  /\ TypeOK
  /\ main \in {"connect", "waiting"} => retry < MaxRetries
  /\ main = "boot" => retry = 0
  /\ http = "saved" => restarts < MaxRestarts
  /\ main \in StopPlaces \cup {"disconnect", "clear"} => calls > 0

\* A connection attempt starts from a driver that has no link and is after none.
Idle ==
  /\ main \in {"boot", "connect", "clear"} => sta = "idle"
  /\ main = "try" /\ retry = 0 => sta = "idle"

\* The flag of an open access point.  A task that is about to clear it has closed the
\* access point, and one that was opened since is still to be reported.
ApFlagged ==
  /\ mode = "APSTA" => apFlag \/ Pending("AP_START")
  /\ handler = "unflag" /\ mode = "APSTA" => Pending("AP_START")
  /\ main = "unflag" => mode = "STA"

\* The bit of a link: set, or to be set by the event task.
LinkFlagged ==
  sta = "linked" => "CONNECTED" \in bits \/ Pending("GOT_IP") \/ handler # "ready"

\* Who stops the HTTP server still has it, unless both tasks stop it.
StoppedOnce ==
  /\ handler = "halting" => web \/ calls > 0
  /\ fault = "stopped_twice" => calls > 0

Flags == ApFlagged /\ LinkFlagged /\ StoppedOnce

Fresh ==
  calls = 0 /\ retry = 0 =>
    /\ main \in {"boot", "try", "connect", "fallback"} =>
         sta = "idle" /\ bits = {} /\ events = <<>> /\ handler = "ready"
    /\ main = "waiting" /\ sta = "connecting" =>
         bits = {} /\ events = <<>> /\ handler = "ready"

NoCalls == calls = 0
NoLosses == losses = 0
Retried == retry > 0

\* Until the main task gives up there is no trace of an access point.
NoApYet ==
  NoCalls /\ main \in Attempts =>
    ~apFlag /\ mode = "STA" /\ handler \in {"ready", "got_ip"} /\ ~Pending("AP_START")

\* Once it gave up, the access point is open, or a link closed it; or there was a link.
ClosedByLink ==
  NoCalls /\ main \in {"configure", "flag", "web", "up"} /\ mode = "STA" =>
    "CONNECTED" \in bits \/ handler \in {"unflag", "got_ip"}

\* A disconnection that is handled before the access point is reported.
IsEarly(j) ==
  events[j] = "STA_DISCONNECTED" /\ \A k \in 1 .. j : events[k] # "AP_START"

EarlyDisconnection == \E j \in DOMAIN events : IsEarly(j)

\* A report of a link that is not there any more is followed by the report of its end.
ReportsRefuted ==
  \A i \in DOMAIN events : events[i] = "GOT_IP" => \E j \in DOMAIN events : i < j /\ IsEarly(j)

\* A link that was reported and is not there any more is known to be gone, or will be, or
\* else the access point is open.
LinkRefuted ==
  "CONNECTED" \in bits \/ handler # "ready" =>
    "FAIL" \in bits \/ EarlyDisconnection \/ (handler \in {"ready", "got_ip"} /\ mode = "APSTA")

\* A link costs a retry before it can be gone.
LinkCostsRetry ==
  "CONNECTED" \in bits \/ handler # "ready" \/ Pending("GOT_IP") => Retried

\* The flag of an access point that a link closed was set again by the late report.
FlaggedLate ==
  apFlag /\ handler \in {"ready", "got_ip"} /\ mode = "STA" => "FAIL" \in bits

Opening ==
  main \in {"configure", "flag"} =>
    mode = "APSTA" /\ handler \in {"ready", "got_ip"} /\ (apFlag => ~Pending("GOT_IP"))

LinkIsGone ==
  ReportsRefuted /\ LinkRefuted /\ LinkCostsRetry /\ FlaggedLate /\ Opening

Late ==
  /\ NoApYet /\ ClosedByLink
  /\ NoCalls /\ NoLosses /\ sta # "linked" => LinkIsGone

\* An attempt needs a configuration, which is never deleted.
Configured ==
  /\ main \in {"connect", "waiting"} => saved
  /\ ~saved => retry = 0

\* Nothing was saved to try.
NeverTried ==
  /\ retry = 0 /\ sta = "idle"
  /\ "CONNECTED" \notin bits /\ handler = "ready" /\ ~Pending("GOT_IP")

\* There is no trace of an access point.
NoAp == ~apFlag /\ mode = "STA" /\ handler \in {"ready", "got_ip"} /\ ~Pending("AP_START")

Settled ==
  NoCalls =>
    /\ main \in {"fallback", "open", "configure", "flag", "web"} =>
         retry = MaxRetries \/ NeverTried
    /\ main = "up" => retry = MaxRetries \/ NeverTried \/ NoAp

\* An abort needs an access point that a link closed.
Aborted ==
  fault = "aborted" => main = "configure" /\ mode = "STA" /\ (LateLink \/ calls > 0)

-----------------------------------------------------------------------------
(* The queue of events.                                                    *)

LEMMA PostAdds ==
  ASSUME events \in Seq(EventName), NEW e \in EventName, Post(e)
  PROVE  /\ events' \in Seq(EventName) /\ events' # <<>>
         /\ Len(events) \in Nat /\ DOMAIN events = 1 .. Len(events)
         /\ DOMAIN events' = 1 .. Len(events) + 1
         /\ \A i \in 1 .. Len(events) : events'[i] = events[i]
         /\ events'[Len(events) + 1] = e
         /\ \A f : Pending(f)' <=> Pending(f) \/ f = e
<1>1. /\ events' \in Seq(EventName) /\ events' # <<>>
      /\ Len(events) \in Nat /\ DOMAIN events = 1 .. Len(events)
      /\ DOMAIN events' = 1 .. Len(events) + 1
      /\ \A i \in 1 .. Len(events) : events'[i] = events[i]
      /\ events'[Len(events) + 1] = e
  BY AppendProperties, LenProperties DEF Post
<1>. QED BY <1>1 DEF Pending

LEMMA HeadLeaves ==
  ASSUME events \in Seq(EventName), events # <<>>, events' = Tail(events)
  PROVE  /\ events' \in Seq(EventName)
         /\ Len(events) \in Nat /\ DOMAIN events = 1 .. Len(events) /\ 1 \in DOMAIN events
         /\ DOMAIN events' = 1 .. Len(events) - 1
         /\ \A i \in 1 .. Len(events) - 1 : events'[i] = events[i + 1]
         /\ Head(events) = events[1] /\ Head(events) \in EventName
         /\ \A f : Pending(f) <=> Pending(f)' \/ f = Head(events)
<1>1. /\ events' \in Seq(EventName)
      /\ Len(events) \in Nat /\ DOMAIN events = 1 .. Len(events) /\ 1 \in DOMAIN events
      /\ DOMAIN events' = 1 .. Len(events) - 1
      /\ \A i \in 1 .. Len(events) - 1 : events'[i] = events[i + 1]
      /\ Head(events) = events[1] /\ Head(events) \in EventName
  BY HeadTailProperties, LenProperties, EmptySeq
<1>2. ASSUME NEW f, Pending(f) PROVE Pending(f)' \/ f = Head(events)
  <2>1. PICK i \in 1 .. Len(events) : events[i] = f
    BY <1>1, <1>2 DEF Pending
  <2>2. CASE i = 1
    BY <1>1, <2>1, <2>2
  <2>3. CASE i # 1
    <3>1. i - 1 \in 1 .. Len(events) - 1 /\ events'[i - 1] = events[i]
      BY <1>1, <2>3
    <3>. QED BY <1>1, <2>1, <3>1 DEF Pending
  <2>. QED BY <2>2, <2>3
<1>3. ASSUME NEW f, Pending(f)' \/ f = Head(events) PROVE Pending(f)
  BY <1>1, <1>3 DEF Pending
<1>. QED BY <1>1, <1>2, <1>3

\* Every step leaves the queue as it is, posts an event, takes the first or is a restart.
LEMMA QueueStep ==
  ASSUME Places, [Next]_vars
  PROVE  events' \in Seq(EventName)
<1>1. events \in Seq(EventName)
  BY DEF Places, TypeOK
<1>2. ASSUME NEW e \in EventName, Post(e) PROVE events' \in Seq(EventName)
  BY <1>1, <1>2, PostAdds
<1>3. CASE events # <<>> /\ events' = Tail(events)
  BY <1>1, <1>3, HeadLeaves
<1>4. CASE events' = events \/ events' = <<>>
  BY <1>1, <1>4, EmptySeq
<1>. QED
  BY <1>2, <1>3, <1>4
  DEF Next, MainTask, EventTask, Driver, InitWifi, Try, GiveUp, Connect, WaitEnds,
      WaitTimesOut, StartAp, OpenAp, ConfigureAp, ApStarted, StartWebserver, Serve,
      MainStopsAp, MainDisconnects, ClearConnected, HandleEvent, HandlerStopsAp,
      HandlerConnected, LinkUp, LinkFails, LinkLost, Reconnect, SaveConfig, Restart,
      PowerLoss, PowerUp, Disconnect, vars, EventName

-----------------------------------------------------------------------------
(* Places.                                                                 *)

\* TypeOK in parts, for the provers: they lose their way among Boolean variables next to
\* arithmetic.
Tasks ==
  /\ main \in {"boot", "try", "connect", "waiting", "fallback", "open", "configure", "flag",
               "web", "up", "disconnect", "clear"} \cup StopPlaces
  /\ handler \in {"ready", "got_ip"} \cup StopPlaces
  /\ fault \in {"none", "stopped_twice", "aborted"}

Network ==
  /\ bits \subseteq {"CONNECTED", "FAIL"} /\ events \in Seq(EventName)
  /\ mode \in {"STA", "APSTA"} /\ sta \in {"idle", "connecting", "linked"}

Switches ==
  /\ apFlag \in BOOLEAN /\ web \in BOOLEAN /\ served \in BOOLEAN /\ saved \in BOOLEAN
  /\ http \in {"idle", "saved"} /\ (http = "saved" => web)

Counts ==
  /\ retry \in 0 .. MaxRetries
  /\ calls \in 0 .. MaxCalls /\ losses \in 0 .. MaxLosses
  /\ restarts \in 0 .. MaxRestarts
  /\ main \in {"connect", "waiting"} => retry < MaxRetries
  /\ main = "boot" => retry = 0
  /\ http = "saved" => restarts < MaxRestarts
  /\ main \in StopPlaces \cup {"disconnect", "clear"} => calls > 0

Parts == Tasks /\ Network /\ Switches /\ Counts

LEMMA PlacesHasParts == Places <=> Parts
BY DEF Places, TypeOK, Parts, Tasks, Network, Switches, Counts

LEMMA PartsInit == Init => Parts
<1> SUFFICES ASSUME Init PROVE Parts
  OBVIOUS
<1>1. Tasks /\ Network /\ Switches
  BY EmptySeq DEF Init, Tasks, Network, Switches
<1>2. Counts
  BY WifiAssumption DEF WifiAssumption, Init, Counts, StopPlaces
<1>. QED BY <1>1, <1>2 DEF Parts

LEMMA PartsStep == Places /\ [Next]_vars => Parts'
<1> SUFFICES ASSUME Places, [Next]_vars PROVE Parts'
  OBVIOUS
<1>1. Tasks /\ Network /\ Switches /\ Counts /\ events' \in Seq(EventName)
  BY QueueStep, PlacesHasParts DEF Parts
<1>. SUFFICES Tasks' /\ Network' /\ Switches' /\ Counts'
  BY DEF Parts
<1>2. CASE InitWifi \/ Try \/ GiveUp
  <2>1. Tasks'
    BY <1>1, <1>2 DEF Tasks, StopPlaces, InitWifi, Try, GiveUp, Disconnect, flagVars,
       httpVars, driverVars, boundVars
  <2>2. Network'
    BY <1>1, <1>2 DEF Network, InitWifi, Try, GiveUp, Disconnect, flagVars, httpVars,
       driverVars, boundVars
  <2>3. Switches'
    BY <1>1, <1>2 DEF Switches, InitWifi, Try, GiveUp, Disconnect, flagVars, httpVars,
       driverVars, boundVars
  <2>4. Counts'
    BY <1>1, <1>2, WifiAssumption DEF WifiAssumption, Counts, StopPlaces, InitWifi, Try,
       GiveUp, Disconnect, flagVars, httpVars, driverVars, boundVars
  <2>. QED BY <2>1, <2>2, <2>3, <2>4
<1>3. CASE Connect \/ WaitEnds \/ WaitTimesOut
  <2>1. Tasks'
    BY <1>1, <1>3 DEF Tasks, StopPlaces, Connect, WaitEnds, WaitTimesOut, flagVars,
       httpVars, driverVars, boundVars
  <2>2. Network'
    BY <1>1, <1>3 DEF Network, Connect, WaitEnds, WaitTimesOut, flagVars, httpVars,
       driverVars, boundVars
  <2>3. Switches'
    BY <1>1, <1>3 DEF Switches, Connect, WaitEnds, WaitTimesOut, flagVars, httpVars,
       driverVars, boundVars
  <2>4. Counts'
    BY <1>1, <1>3, WifiAssumption DEF WifiAssumption, Counts, StopPlaces, Connect,
       WaitEnds, WaitTimesOut, flagVars, httpVars, driverVars, boundVars
  <2>. QED BY <2>1, <2>2, <2>3, <2>4
<1>4. CASE StartAp \/ OpenAp \/ ConfigureAp \/ ApStarted \/ StartWebserver
  <2>1. Tasks'
    BY <1>1, <1>4 DEF Tasks, StopPlaces, StartAp, OpenAp, ConfigureAp, ApStarted,
       StartWebserver, flagVars, httpVars, driverVars, boundVars
  <2>2. Network'
    BY <1>1, <1>4 DEF Network, StartAp, OpenAp, ConfigureAp, ApStarted, StartWebserver,
       flagVars, httpVars, driverVars, boundVars
  <2>3. Switches'
    BY <1>1, <1>4 DEF Switches, StartAp, OpenAp, ConfigureAp, ApStarted, StartWebserver,
       flagVars, httpVars, driverVars, boundVars
  <2>4. Counts'
    BY <1>1, <1>4, WifiAssumption DEF WifiAssumption, Counts, StopPlaces, StartAp, OpenAp,
       ConfigureAp, ApStarted, StartWebserver, flagVars, httpVars, driverVars, boundVars
  <2>. QED BY <2>1, <2>2, <2>3, <2>4
<1>5. CASE Serve \/ MainDisconnects \/ ClearConnected
  <2>1. Tasks'
    BY <1>1, <1>5 DEF Tasks, StopPlaces, Serve, MainDisconnects, ClearConnected,
       Disconnect, flagVars, httpVars, driverVars, boundVars
  <2>2. Network'
    BY <1>1, <1>5 DEF Network, Serve, MainDisconnects, ClearConnected, Disconnect,
       flagVars, httpVars, driverVars, boundVars
  <2>3. Switches'
    BY <1>1, <1>5 DEF Switches, Serve, MainDisconnects, ClearConnected, Disconnect,
       flagVars, httpVars, driverVars, boundVars
  <2>4. Counts'
    BY <1>1, <1>5, WifiAssumption DEF WifiAssumption, Counts, StopPlaces, Serve,
       MainDisconnects, ClearConnected, Disconnect, flagVars, httpVars, driverVars,
       boundVars
  <2>. QED BY <2>1, <2>2, <2>3, <2>4
<1>6. CASE MainStopsAp
  <2>1. Tasks'
    BY <1>1, <1>6 DEF Tasks, StopPlaces, MainStopsAp, StopAp, httpVars, boundVars
  <2>2. Network'
    BY <1>1, <1>6 DEF Network, MainStopsAp, StopAp, httpVars, boundVars
  <2>3. Switches'
    BY <1>1, <1>6 DEF Switches, MainStopsAp, StopAp, httpVars, boundVars
  <2>4. Counts'
    BY <1>1, <1>6, WifiAssumption DEF WifiAssumption, Counts, StopPlaces, MainStopsAp,
       StopAp, httpVars, boundVars
  <2>. QED BY <2>1, <2>2, <2>3, <2>4
<1>7. CASE HandlerStopsAp
  <2>1. Tasks'
    BY <1>1, <1>7 DEF Tasks, StopPlaces, HandlerStopsAp, StopAp, mainVars, httpVars,
       boundVars
  <2>2. Network'
    BY <1>1, <1>7 DEF Network, HandlerStopsAp, StopAp, mainVars, httpVars, boundVars
  <2>3. Switches'
    BY <1>1, <1>7 DEF Switches, HandlerStopsAp, StopAp, mainVars, httpVars, boundVars
  <2>4. Counts'
    BY <1>1, <1>7, WifiAssumption DEF WifiAssumption, Counts, StopPlaces,
       HandlerStopsAp, StopAp, mainVars, httpVars, boundVars
  <2>. QED BY <2>1, <2>2, <2>3, <2>4
<1>8. CASE HandleEvent
  <2>1. Head(events) \in {"AP_START", "STA_DISCONNECTED", "GOT_IP"}
    BY <1>1, <1>8, HeadLeaves DEF HandleEvent, Network, EventName
  <2>2. Tasks'
    BY <1>1, <1>8, <2>1 DEF Tasks, StopPlaces, HandleEvent, mainVars, httpVars,
       driverVars, boundVars
  <2>3. Network'
    BY <1>1, <1>8, <2>1 DEF Network, HandleEvent, mainVars, httpVars, driverVars, boundVars
  <2>4. Switches'
    BY <1>1, <1>8, <2>1 DEF Switches, HandleEvent, mainVars, httpVars, driverVars, boundVars
  <2>5. Counts'
    BY <1>1, <1>8, <2>1, WifiAssumption DEF WifiAssumption, Counts, StopPlaces,
       HandleEvent, mainVars, httpVars, driverVars, boundVars
  <2>. QED BY <2>2, <2>3, <2>4, <2>5
<1>9. CASE HandlerConnected \/ LinkUp \/ LinkFails \/ LinkLost
  <2>1. Tasks'
    BY <1>1, <1>9 DEF Tasks, StopPlaces, HandlerConnected, LinkUp, LinkFails, LinkLost,
       mainVars, flagVars, httpVars, driverVars, boundVars
  <2>2. Network'
    BY <1>1, <1>9 DEF Network, HandlerConnected, LinkUp, LinkFails, LinkLost, mainVars,
       flagVars, httpVars, driverVars, boundVars
  <2>3. Switches'
    BY <1>1, <1>9 DEF Switches, HandlerConnected, LinkUp, LinkFails, LinkLost, mainVars,
       flagVars, httpVars, driverVars, boundVars
  <2>4. Counts'
    BY <1>1, <1>9, WifiAssumption DEF WifiAssumption, Counts, StopPlaces,
       HandlerConnected, LinkUp, LinkFails, LinkLost, mainVars, flagVars, httpVars,
       driverVars, boundVars
  <2>. QED BY <2>1, <2>2, <2>3, <2>4
<1>10. CASE Reconnect \/ SaveConfig \/ UNCHANGED vars
  <2>1. Tasks'
    BY <1>1, <1>10 DEF Tasks, StopPlaces, Reconnect, SaveConfig, mainVars, flagVars,
       httpVars, driverVars, boundVars, vars
  <2>2. Network'
    BY <1>1, <1>10 DEF Network, Reconnect, SaveConfig, mainVars, flagVars, httpVars,
       driverVars, boundVars, vars
  <2>3. Switches'
    BY <1>1, <1>10 DEF Switches, Reconnect, SaveConfig, mainVars, flagVars, httpVars,
       driverVars, boundVars, vars
  <2>4. Counts'
    <3>1. CASE Reconnect
      BY <1>1, <3>1, WifiAssumption DEF WifiAssumption, Counts, StopPlaces, Reconnect,
         httpVars
    <3>2. CASE SaveConfig \/ UNCHANGED vars
      <4>1. /\ UNCHANGED <<main, retry, calls, losses, restarts>>
            /\ http' = http \/ restarts < MaxRestarts
        BY <3>2 DEF SaveConfig, mainVars, httpVars, boundVars, vars
      <4>. QED BY <1>1, <4>1 DEF Counts
    <3>. QED BY <1>10, <3>1, <3>2
  <2>. QED BY <2>1, <2>2, <2>3, <2>4
<1>11. CASE Restart \/ PowerLoss
  <2>1. Tasks'
    BY <1>1, <1>11 DEF Tasks, StopPlaces, Restart, PowerLoss, PowerUp
  <2>2. Network'
    BY <1>1, <1>11 DEF Network, Restart, PowerLoss, PowerUp
  <2>3. Switches'
    BY <1>1, <1>11 DEF Switches, Restart, PowerLoss, PowerUp
  <2>4. Counts'
    BY <1>1, <1>11, WifiAssumption DEF WifiAssumption, Counts, StopPlaces, Restart,
       PowerLoss, PowerUp
  <2>. QED BY <2>1, <2>2, <2>3, <2>4
<1>. QED
  BY <1>2, <1>3, <1>4, <1>5, <1>6, <1>7, <1>8, <1>9, <1>10, <1>11
  DEF Next, MainTask, EventTask, Driver

THEOREM PlacesCorrect == Spec => []Places
BY PartsInit, PartsStep, PlacesHasParts, PTL DEF Spec

\* Type correctness: the main task makes no more than MaxRetries attempts, a configuration is
\* only saved while the HTTP server runs, and every variable keeps to its values.
THEOREM TypeCorrect == Spec => []TypeOK
<1>1. Places => TypeOK
  BY DEF Places
<1>. QED BY <1>1, PlacesCorrect, PTL

-----------------------------------------------------------------------------
(* Flags.                                                                  *)

\* Only the event task takes an event out of the queue, and the loss of power clears it.
LEMMA PendingStays ==
  ASSUME Places, [Next]_vars, ~HandleEvent, ~Restart, ~PowerLoss, NEW f, Pending(f)
  PROVE  Pending(f)'
<1>1. events \in Seq(EventName)
  BY DEF Places, TypeOK
<1>2. ASSUME NEW e \in EventName, Post(e) PROVE Pending(f)'
  BY <1>1, <1>2, PostAdds
<1>3. CASE UNCHANGED events
  BY <1>3 DEF Pending
<1>. QED
  BY <1>2, <1>3
  DEF Next, MainTask, EventTask, Driver, InitWifi, Try, GiveUp, Connect, WaitEnds,
      WaitTimesOut, StartAp, OpenAp, ConfigureAp, ApStarted, StartWebserver, Serve,
      MainStopsAp, MainDisconnects, ClearConnected, HandlerStopsAp, HandlerConnected, LinkUp,
      LinkFails, LinkLost, Reconnect, SaveConfig, Disconnect, vars, EventName

LEMMA IdleStep == Places /\ Idle /\ [Next]_vars => Idle'
<1> SUFFICES ASSUME Places, Idle, [Next]_vars PROVE Idle'
  OBVIOUS
<1>1. Tasks /\ Counts /\ Idle
  BY PlacesHasParts DEF Parts
<1>2. CASE InitWifi \/ GiveUp
  BY <1>1, <1>2 DEF Tasks, Counts, StopPlaces, Idle, InitWifi, GiveUp, driverVars
<1>3. CASE Try
  BY <1>1, <1>3 DEF Tasks, Counts, StopPlaces, Idle, Try, Disconnect
<1>4. CASE Connect
  BY <1>1, <1>4 DEF Tasks, Counts, StopPlaces, Idle, Connect
<1>5. CASE WaitEnds \/ WaitTimesOut
  BY <1>1, <1>5 DEF Tasks, Counts, StopPlaces, Idle, WaitEnds, WaitTimesOut, driverVars
<1>6. CASE StartAp \/ OpenAp \/ ConfigureAp \/ ApStarted \/ StartWebserver \/ Serve
  BY <1>1, <1>6 DEF Tasks, Counts, StopPlaces, Idle, StartAp, OpenAp, ConfigureAp, ApStarted,
     StartWebserver, Serve, driverVars
<1>7. CASE MainDisconnects \/ ClearConnected
  BY <1>1, <1>7 DEF Tasks, Counts, StopPlaces, Idle, MainDisconnects, ClearConnected,
     Disconnect, driverVars
<1>8. CASE MainStopsAp
  BY <1>1, <1>8 DEF Tasks, Counts, StopPlaces, Idle, MainStopsAp, StopAp
<1>9. CASE HandlerStopsAp
  BY <1>1, <1>9 DEF Tasks, Counts, StopPlaces, Idle, HandlerStopsAp, StopAp, mainVars
<1>10. CASE HandleEvent \/ HandlerConnected
  BY <1>1, <1>10 DEF Tasks, Counts, StopPlaces, Idle, HandleEvent, HandlerConnected,
     mainVars, driverVars
<1>11. CASE LinkUp \/ LinkFails \/ LinkLost
  BY <1>1, <1>11 DEF Tasks, Counts, StopPlaces, Idle, LinkUp, LinkFails, LinkLost,
     mainVars
<1>12. CASE Reconnect
  BY <1>1, <1>12 DEF Tasks, Counts, StopPlaces, Idle, Reconnect, driverVars
<1>13. CASE SaveConfig \/ UNCHANGED vars
  BY <1>1, <1>13 DEF Tasks, Counts, StopPlaces, Idle, SaveConfig, vars, mainVars,
     driverVars
<1>14. CASE Restart \/ PowerLoss
  BY <1>1, <1>14 DEF Tasks, Counts, StopPlaces, Idle, Restart, PowerLoss, PowerUp
<1>. QED
  BY <1>2, <1>3, <1>4, <1>5, <1>6, <1>7, <1>8, <1>9, <1>10, <1>11, <1>12, <1>13, <1>14
  DEF Next, MainTask, EventTask, Driver

THEOREM IdleCorrect == Spec => []Idle
<1>1. Init => Idle
  BY DEF Init, Idle
<1>. QED BY <1>1, IdleStep, PlacesCorrect, PTL DEF Spec

LEMMA FlagsStep == Places /\ Idle /\ Flags /\ [Next]_vars => Flags'
<1> SUFFICES ASSUME Places, Idle, Flags, [Next]_vars PROVE Flags'
  OBVIOUS
<1>. DEFINE Stays == \A f : Pending(f) => Pending(f)'
<1>1. /\ Tasks /\ Network /\ Counts /\ Idle /\ ApFlagged /\ LinkFlagged /\ StoppedOnce
      /\ "AP_START" \in EventName /\ "GOT_IP" \in EventName
      /\ HandleEvent \/ Restart \/ PowerLoss \/ Stays
  BY PlacesHasParts, PendingStays DEF Parts, Flags, EventName
<1>. HIDE DEF Stays
<1>. SUFFICES ApFlagged' /\ LinkFlagged' /\ StoppedOnce'
  BY DEF Flags
<1>2. CASE Stays /\ (InitWifi \/ Try \/ GiveUp)
  <2>1. ApFlagged'
    BY <1>1, <1>2 DEF Tasks, Network, ApFlagged, Stays, InitWifi, Try, GiveUp, Disconnect,
       flagVars, httpVars, driverVars
  <2>2. LinkFlagged'
    BY <1>1, <1>2 DEF Tasks, Network, LinkFlagged, Stays, InitWifi, Try, GiveUp, Disconnect,
       flagVars, httpVars, driverVars
  <2>3. StoppedOnce'
    BY <1>1, <1>2 DEF Tasks, Counts, StopPlaces, StoppedOnce, InitWifi, Try, GiveUp,
       Disconnect, flagVars, httpVars, driverVars, boundVars
  <2>. QED BY <2>1, <2>2, <2>3
<1>3. CASE Stays /\ (Connect \/ WaitEnds \/ WaitTimesOut)
  <2>1. ApFlagged'
    BY <1>1, <1>3 DEF Tasks, Network, ApFlagged, Stays, Connect, WaitEnds, WaitTimesOut,
       flagVars, httpVars, driverVars
  <2>2. LinkFlagged'
    BY <1>1, <1>3 DEF Tasks, Network, LinkFlagged, Stays, Connect, WaitEnds, WaitTimesOut,
       flagVars, httpVars, driverVars
  <2>3. StoppedOnce'
    BY <1>1, <1>3 DEF Tasks, Counts, StopPlaces, StoppedOnce, Connect, WaitEnds,
       WaitTimesOut, flagVars, httpVars, driverVars, boundVars
  <2>. QED BY <2>1, <2>2, <2>3
<1>4. CASE Stays /\ OpenAp
  <2>1. mode = "STA" /\ mode' = "APSTA" => Pending("AP_START")'
    BY <1>1, <1>4, PostAdds DEF OpenAp, Network
  <2>2. ApFlagged'
    BY <1>1, <1>4, <2>1 DEF Tasks, Network, ApFlagged, Stays, OpenAp, flagVars, httpVars
  <2>3. LinkFlagged'
    BY <1>1, <1>4, <2>1 DEF Tasks, Network, LinkFlagged, Stays, OpenAp, flagVars, httpVars
  <2>4. StoppedOnce'
    BY <1>1, <1>4 DEF Tasks, Counts, StopPlaces, StoppedOnce, OpenAp, flagVars, httpVars,
       boundVars
  <2>. QED BY <2>2, <2>3, <2>4
<1>5. CASE Stays /\ (StartAp \/ ConfigureAp)
  <2>1. ApFlagged'
    BY <1>1, <1>5 DEF Tasks, Network, ApFlagged, Stays, StartAp, ConfigureAp, flagVars,
       httpVars, driverVars
  <2>2. LinkFlagged'
    BY <1>1, <1>5 DEF Tasks, Network, LinkFlagged, Stays, StartAp, ConfigureAp, flagVars,
       httpVars, driverVars
  <2>3. StoppedOnce'
    BY <1>1, <1>5 DEF Tasks, Counts, StopPlaces, StoppedOnce, StartAp, ConfigureAp, flagVars,
       httpVars, driverVars, boundVars
  <2>. QED BY <2>1, <2>2, <2>3
<1>6. CASE Stays /\ ApStarted
  <2>1. ApFlagged'
    BY <1>1, <1>6 DEF Tasks, Network, ApFlagged, Stays, ApStarted, httpVars, driverVars
  <2>2. LinkFlagged'
    BY <1>1, <1>6 DEF Tasks, Network, LinkFlagged, Stays, ApStarted, httpVars, driverVars
  <2>3. StoppedOnce'
    BY <1>1, <1>6 DEF Tasks, Counts, StopPlaces, StoppedOnce, ApStarted, httpVars,
       driverVars, boundVars
  <2>. QED BY <2>1, <2>2, <2>3
<1>7. CASE Stays /\ StartWebserver
  <2>1. ApFlagged'
    BY <1>1, <1>7 DEF Tasks, Network, ApFlagged, Stays, StartWebserver, flagVars, driverVars
  <2>2. LinkFlagged'
    BY <1>1, <1>7 DEF Tasks, Network, LinkFlagged, Stays, StartWebserver, flagVars, driverVars
  <2>3. StoppedOnce'
    <3>1. UNCHANGED <<handler, calls, fault>>
      BY <1>7 DEF StartWebserver, boundVars
    <3>2. web' = web \/ web' = TRUE
      BY <1>7 DEF StartWebserver
    <3>3. CASE web' = web
      BY <1>1, <3>1, <3>3 DEF StoppedOnce
    <3>4. CASE web' = TRUE
      BY <1>1, <3>1, <3>4 DEF StoppedOnce
    <3>. QED BY <3>2, <3>3, <3>4
  <2>. QED BY <2>1, <2>2, <2>3
<1>8. CASE Stays /\ Serve
  <2>1. ApFlagged'
    BY <1>1, <1>8 DEF Tasks, Network, ApFlagged, Stays, Serve, flagVars, httpVars, driverVars
  <2>2. LinkFlagged'
    BY <1>1, <1>8 DEF Tasks, Network, LinkFlagged, Stays, Serve, flagVars, httpVars,
       driverVars
  <2>3. StoppedOnce'
    BY <1>1, <1>8 DEF Tasks, Counts, StopPlaces, StoppedOnce, Serve, flagVars, httpVars,
       driverVars, boundVars
  <2>. QED BY <2>1, <2>2, <2>3
<1>9. CASE Stays /\ (MainDisconnects \/ ClearConnected)
  <2>1. ApFlagged'
    BY <1>1, <1>9 DEF Tasks, Network, ApFlagged, Stays, MainDisconnects, ClearConnected,
       Disconnect, flagVars, httpVars, driverVars
  <2>2. LinkFlagged'
    BY <1>1, <1>9 DEF Tasks, Network, Idle, LinkFlagged, Stays, MainDisconnects,
       ClearConnected, Disconnect, flagVars, httpVars, driverVars
  <2>3. StoppedOnce'
    BY <1>1, <1>9 DEF Tasks, Counts, StopPlaces, StoppedOnce, MainDisconnects,
       ClearConnected, Disconnect, flagVars, httpVars, driverVars, boundVars
  <2>. QED BY <2>1, <2>2, <2>3
<1>10. CASE Stays /\ MainStopsAp
  <2>1. ApFlagged'
    BY <1>1, <1>10 DEF Tasks, Network, ApFlagged, Stays, MainStopsAp, StopAp, httpVars
  <2>2. LinkFlagged'
    BY <1>1, <1>10 DEF Tasks, Network, LinkFlagged, Stays, MainStopsAp, StopAp, httpVars
  <2>3. StoppedOnce'
    BY <1>1, <1>10 DEF Tasks, Counts, StopPlaces, StoppedOnce, MainStopsAp, StopAp, httpVars,
       boundVars
  <2>. QED BY <2>1, <2>2, <2>3
<1>11. CASE Stays /\ HandlerStopsAp
  <2>1. ApFlagged'
    BY <1>1, <1>11 DEF Tasks, Network, ApFlagged, Stays, HandlerStopsAp, StopAp, mainVars,
       httpVars
  <2>2. LinkFlagged'
    BY <1>1, <1>11 DEF Tasks, Network, LinkFlagged, Stays, HandlerStopsAp, StopAp, mainVars,
       httpVars
  <2>3. StoppedOnce'
    BY <1>1, <1>11 DEF Tasks, Counts, StopPlaces, StoppedOnce, HandlerStopsAp, StopAp,
       mainVars, httpVars, boundVars
  <2>. QED BY <2>1, <2>2, <2>3
<1>12. CASE Stays /\ (HandlerConnected \/ LinkFails \/ LinkLost)
  <2>1. ApFlagged'
    BY <1>1, <1>12 DEF Tasks, Network, ApFlagged, Stays, HandlerConnected, LinkFails,
       LinkLost, mainVars, flagVars, httpVars, driverVars
  <2>2. LinkFlagged'
    BY <1>1, <1>12 DEF Tasks, Network, LinkFlagged, Stays, HandlerConnected, LinkFails,
       LinkLost, mainVars, flagVars, httpVars, driverVars
  <2>3. StoppedOnce'
    BY <1>1, <1>12 DEF Tasks, Counts, StopPlaces, StoppedOnce, HandlerConnected, LinkFails,
       LinkLost, mainVars, flagVars, httpVars, driverVars, boundVars
  <2>. QED BY <2>1, <2>2, <2>3
<1>13. CASE Stays /\ LinkUp
  <2>1. Pending("GOT_IP")'
    BY <1>1, <1>13, PostAdds DEF LinkUp, Network
  <2>2. ApFlagged'
    BY <1>1, <1>13, <2>1 DEF Tasks, Network, ApFlagged, Stays, LinkUp, mainVars, flagVars,
       httpVars
  <2>3. LinkFlagged'
    BY <1>1, <1>13, <2>1 DEF Tasks, Network, LinkFlagged, Stays, LinkUp, mainVars, flagVars,
       httpVars
  <2>4. StoppedOnce'
    BY <1>1, <1>13 DEF Tasks, Counts, StopPlaces, StoppedOnce, LinkUp, mainVars, flagVars,
       httpVars, boundVars
  <2>. QED BY <2>2, <2>3, <2>4
<1>14. CASE Stays /\ Reconnect
  <2>1. ApFlagged'
    BY <1>1, <1>14 DEF Tasks, Network, ApFlagged, Stays, Reconnect, flagVars, httpVars,
       driverVars
  <2>2. LinkFlagged'
    BY <1>1, <1>14 DEF Tasks, Network, LinkFlagged, Stays, Reconnect, flagVars, httpVars,
       driverVars
  <2>3. StoppedOnce'
    BY <1>1, <1>14 DEF Tasks, Counts, StopPlaces, StoppedOnce, Reconnect, flagVars,
       httpVars, driverVars
  <2>. QED BY <2>1, <2>2, <2>3
<1>15. CASE Stays /\ SaveConfig
  <2>1. ApFlagged'
    BY <1>1, <1>15 DEF Tasks, Network, ApFlagged, Stays, SaveConfig, mainVars, flagVars,
       driverVars
  <2>2. LinkFlagged'
    BY <1>1, <1>15 DEF Tasks, Network, LinkFlagged, Stays, SaveConfig, mainVars, flagVars,
       driverVars
  <2>3. StoppedOnce'
    BY <1>1, <1>15 DEF Tasks, Counts, StopPlaces, StoppedOnce, SaveConfig, mainVars,
       flagVars, driverVars, boundVars
  <2>. QED BY <2>1, <2>2, <2>3
<1>16. CASE Stays /\ UNCHANGED vars
  <2>1. ApFlagged'
    BY <1>1, <1>16 DEF Tasks, Network, ApFlagged, Stays, vars, mainVars, flagVars, httpVars,
       driverVars
  <2>2. LinkFlagged'
    BY <1>1, <1>16 DEF Tasks, Network, LinkFlagged, Stays, vars, mainVars, flagVars,
       httpVars, driverVars
  <2>3. StoppedOnce'
    BY <1>1, <1>16 DEF Tasks, Counts, StopPlaces, StoppedOnce, vars, mainVars, flagVars,
       httpVars, driverVars, boundVars
  <2>. QED BY <2>1, <2>2, <2>3
<1>17. CASE HandleEvent
  <2>1. /\ \A f : Pending(f) <=> Pending(f)' \/ f = Head(events)
        /\ Head(events) \in EventName
    BY <1>1, <1>17, HeadLeaves DEF HandleEvent, Network
  <2>2. /\ handler = "ready" /\ UNCHANGED <<main, web, mode, sta, calls, fault>>
        /\ \/ Head(events) = "AP_START" /\ apFlag' = TRUE /\ UNCHANGED <<handler, bits>>
           \/ /\ Head(events) = "STA_DISCONNECTED" /\ bits \subseteq bits'
              /\ UNCHANGED <<handler, apFlag>>
           \/ /\ Head(events) = "GOT_IP" /\ handler' \in {"stop", "got_ip"}
              /\ UNCHANGED <<bits, apFlag>>
    BY <1>17, <2>1 DEF HandleEvent, EventName, mainVars, httpVars, driverVars, boundVars
  <2>3. ApFlagged' /\ LinkFlagged'
    BY <1>1, <2>1, <2>2 DEF ApFlagged, LinkFlagged
  <2>4. StoppedOnce'
    BY <1>1, <2>2 DEF StoppedOnce
  <2>. QED BY <2>3, <2>4
<1>18. CASE Restart \/ PowerLoss
  BY <1>1, <1>18 DEF Restart, PowerLoss, PowerUp, ApFlagged, LinkFlagged, StoppedOnce
<1>. QED
  BY <1>1, <1>2, <1>3, <1>4, <1>5, <1>6, <1>7, <1>8, <1>9, <1>10, <1>11, <1>12, <1>13, <1>14,
     <1>15, <1>16, <1>17, <1>18
  DEF Next, MainTask, EventTask, Driver

THEOREM FlagsCorrect == Spec => []Flags
<1>1. Init => Flags
  BY DEF Init, Flags, ApFlagged, LinkFlagged, StoppedOnce
<1>. QED BY <1>1, PlacesCorrect, IdleCorrect, FlagsStep, PTL DEF Spec

-----------------------------------------------------------------------------
(* Fresh.                                                                  *)

LEMMA FreshStep == Places /\ Fresh /\ [Next]_vars => Fresh'
<1> SUFFICES ASSUME Places, Fresh, [Next]_vars PROVE Fresh'
  OBVIOUS
<1>1. Tasks /\ Counts /\ Fresh
  BY PlacesHasParts DEF Parts
<1>2. CASE InitWifi \/ GiveUp
  BY <1>1, <1>2 DEF Tasks, Counts, StopPlaces, Fresh, InitWifi, GiveUp, flagVars,
     driverVars, boundVars
<1>3. CASE Try
  BY <1>1, <1>3 DEF Tasks, Counts, StopPlaces, Fresh, Try, Disconnect, flagVars, boundVars
<1>4. CASE Connect
  BY <1>1, <1>4 DEF Tasks, Counts, StopPlaces, Fresh, Connect, flagVars, boundVars
<1>5. CASE WaitEnds \/ WaitTimesOut
  BY <1>1, <1>5 DEF Tasks, Counts, StopPlaces, Fresh, WaitEnds, WaitTimesOut, flagVars,
     driverVars, boundVars
<1>6. CASE StartAp \/ OpenAp \/ ConfigureAp
  BY <1>1, <1>6 DEF Tasks, Counts, StopPlaces, Fresh, StartAp, OpenAp, ConfigureAp, flagVars,
     driverVars, boundVars
<1>7. CASE ApStarted \/ StartWebserver \/ Serve
  BY <1>1, <1>7 DEF Tasks, Counts, StopPlaces, Fresh, ApStarted, StartWebserver, Serve,
     flagVars, driverVars, boundVars
<1>8. CASE MainDisconnects \/ ClearConnected \/ MainStopsAp
  BY <1>1, <1>8 DEF Tasks, Counts, StopPlaces, Fresh, MainDisconnects, ClearConnected,
     MainStopsAp, StopAp, boundVars
<1>9. CASE HandlerStopsAp
  BY <1>1, <1>9 DEF Tasks, Counts, StopPlaces, Fresh, HandlerStopsAp, StopAp, mainVars,
     boundVars
<1>10. CASE HandleEvent \/ HandlerConnected
  BY <1>1, <1>10 DEF Tasks, Counts, StopPlaces, Fresh, HandleEvent, HandlerConnected,
     mainVars, driverVars, boundVars
<1>11. CASE LinkUp \/ LinkFails \/ LinkLost
  BY <1>1, <1>11 DEF Tasks, Counts, StopPlaces, Fresh, LinkUp, LinkFails, LinkLost,
     mainVars, flagVars, boundVars
<1>12. CASE Reconnect
  BY <1>1, <1>12 DEF Tasks, Counts, StopPlaces, Fresh, Reconnect, flagVars, driverVars
<1>13. CASE SaveConfig \/ UNCHANGED vars
  BY <1>1, <1>13 DEF Tasks, Counts, StopPlaces, Fresh, SaveConfig, vars, mainVars,
     flagVars, driverVars, boundVars
<1>14. CASE Restart \/ PowerLoss
  BY <1>1, <1>14 DEF Tasks, Counts, StopPlaces, Fresh, Restart, PowerLoss, PowerUp
<1>. QED
  BY <1>2, <1>3, <1>4, <1>5, <1>6, <1>7, <1>8, <1>9, <1>10, <1>11, <1>12, <1>13, <1>14
  DEF Next, MainTask, EventTask, Driver

\* The first attempt after power-on is not cut short: no bit of an earlier failure is there
\* while it is going on.
THEOREM FirstAttemptWaitsCorrect == Spec => FirstAttemptWaits
<1>1. Init => Fresh
  BY DEF Init, Fresh
<1>2. Places /\ Fresh /\ [Next]_vars => [GivesUpEarly => retry > 0 \/ calls > 0]_vars
  BY DEF Places, TypeOK, Fresh, GivesUpEarly
<1>. QED BY <1>1, <1>2, PlacesCorrect, FreshStep, PTL DEF Spec, FirstAttemptWaits

-----------------------------------------------------------------------------
(* Late.                                                                   *)

LEMMA PostKeeps ==
  ASSUME events \in Seq(EventName), NEW e \in EventName, Post(e)
  PROVE  /\ EarlyDisconnection => EarlyDisconnection'
         /\ ReportsRefuted /\ e # "GOT_IP" => ReportsRefuted'
<1>. DEFINE n == Len(events)
<1>1. /\ n \in Nat /\ DOMAIN events = 1 .. n /\ DOMAIN events' = 1 .. n + 1
      /\ \A i \in 1 .. n : events'[i] = events[i]
      /\ events'[n + 1] = e
  BY PostAdds
<1>. HIDE DEF n
<1>2. ASSUME NEW j \in 1 .. n, IsEarly(j) PROVE IsEarly(j)'
  BY <1>1, <1>2 DEF IsEarly
<1>3. EarlyDisconnection => EarlyDisconnection'
  BY <1>1, <1>2 DEF EarlyDisconnection
<1>4. ASSUME ReportsRefuted, e # "GOT_IP" PROVE ReportsRefuted'
  BY <1>1, <1>2, <1>4 DEF ReportsRefuted
<1>. QED BY <1>3, <1>4

\* A disconnection that is posted before there is an access point refutes every report.
LEMMA PostRefutes ==
  ASSUME events \in Seq(EventName), Post("STA_DISCONNECTED"), ~Pending("AP_START")
  PROVE  EarlyDisconnection' /\ ReportsRefuted'
<1>1. PICK n \in Nat : n = Len(events)
  BY LenProperties
<1>2. /\ DOMAIN events = 1 .. n /\ DOMAIN events' = 1 .. n + 1
      /\ \A i \in 1 .. n : events'[i] = events[i]
      /\ events'[n + 1] = "STA_DISCONNECTED"
  BY <1>1, PostAdds DEF EventName
<1>3. IsEarly(n + 1)'
  BY <1>2 DEF IsEarly, Pending
<1>. QED BY <1>2, <1>3 DEF EarlyDisconnection, ReportsRefuted

LEMMA HeadKeeps ==
  ASSUME events \in Seq(EventName), events # <<>>, events' = Tail(events)
  PROVE  /\ EarlyDisconnection =>
              /\ Head(events) # "AP_START"
              /\ Head(events) = "STA_DISCONNECTED" \/ EarlyDisconnection'
         /\ ReportsRefuted =>
              /\ ReportsRefuted'
              /\ Head(events) = "GOT_IP" => EarlyDisconnection'
              /\ Head(events) = "AP_START" => ~Pending("GOT_IP")
<1>. DEFINE n == Len(events)
<1>1. /\ n \in Nat /\ DOMAIN events = 1 .. n /\ 1 \in 1 .. n /\ DOMAIN events' = 1 .. n - 1
      /\ \A i \in 1 .. n - 1 : events'[i] = events[i + 1]
      /\ Head(events) = events[1]
  BY HeadLeaves
<1>. HIDE DEF n
<1>2. ASSUME NEW j \in 1 .. n, IsEarly(j), j # 1
      PROVE  j - 1 \in 1 .. n - 1 /\ IsEarly(j - 1)'
  <2>1. j - 1 \in 1 .. n - 1 /\ events'[j - 1] = events[j]
    BY <1>1, <1>2
  <2>2. ASSUME NEW k \in 1 .. j - 1 PROVE events'[k] # "AP_START"
    <3>1. k \in 1 .. n - 1 /\ k + 1 \in 1 .. j
      BY <1>1
    <3>. QED BY <1>1, <1>2, <3>1 DEF IsEarly
  <2>. QED BY <1>2, <2>1, <2>2 DEF IsEarly
<1>3. ASSUME EarlyDisconnection
      PROVE  /\ Head(events) # "AP_START"
             /\ Head(events) = "STA_DISCONNECTED" \/ EarlyDisconnection'
  <2>1. PICK j \in 1 .. n : IsEarly(j)
    BY <1>1, <1>3 DEF EarlyDisconnection
  <2>2. Head(events) # "AP_START"
    BY <1>1, <2>1 DEF IsEarly
  <2>3. j = 1 => Head(events) = "STA_DISCONNECTED"
    BY <1>1, <2>1 DEF IsEarly
  <2>4. j # 1 => EarlyDisconnection'
    BY <1>1, <1>2, <2>1 DEF EarlyDisconnection
  <2>. QED BY <2>2, <2>3, <2>4
<1>4. ASSUME ReportsRefuted, NEW i \in 1 .. n, events[i] = "GOT_IP"
      PROVE  Head(events) # "AP_START" /\ \E j \in 1 .. n - 1 : i - 1 < j /\ IsEarly(j)'
  <2>1. PICK j \in 1 .. n : i < j /\ IsEarly(j)
    BY <1>1, <1>4 DEF ReportsRefuted
  <2>2. j # 1 /\ i - 1 < j - 1
    BY <1>1, <2>1
  <2>3. j - 1 \in 1 .. n - 1 /\ IsEarly(j - 1)'
    BY <1>2, <2>1, <2>2
  <2>4. Head(events) # "AP_START"
    BY <1>1, <2>1 DEF IsEarly
  <2>. QED BY <2>2, <2>3, <2>4
<1>5. ASSUME ReportsRefuted
      PROVE  /\ ReportsRefuted'
             /\ Head(events) = "GOT_IP" => EarlyDisconnection'
             /\ Head(events) = "AP_START" => ~Pending("GOT_IP")
  <2>1. ASSUME NEW i \in 1 .. n - 1, events'[i] = "GOT_IP"
        PROVE  \E j \in 1 .. n - 1 : i < j /\ IsEarly(j)'
    <3>1. i + 1 \in 1 .. n /\ events[i + 1] = "GOT_IP" /\ (i + 1) - 1 = i
      BY <1>1, <2>1
    <3>. QED BY <1>4, <1>5, <3>1
  <2>2. Head(events) = "GOT_IP" => EarlyDisconnection'
    BY <1>1, <1>4, <1>5 DEF EarlyDisconnection
  <2>3. Head(events) = "AP_START" => ~Pending("GOT_IP")
    BY <1>1, <1>4, <1>5 DEF Pending
  <2>. QED BY <1>1, <2>1, <2>2, <2>3 DEF ReportsRefuted
<1>. QED BY <1>3, <1>5

\* While wifi_reconnect is not called the main task only goes forward, and keeps its count.
LEMMA GoesForward ==
  ASSUME Places, [Next]_vars, NoCalls'
  PROVE  /\ NoCalls /\ ~Reconnect /\ main \notin StopPlaces \cup {"disconnect", "clear"}
         /\ NoLosses' => NoLosses /\ ~LinkLost
         /\ Retried => Retried' \/ Restart \/ PowerLoss
<1>1. Counts
  BY PlacesHasParts DEF Parts
<1>2. /\ calls' = calls \/ (Reconnect /\ calls' = calls + 1)
      /\ losses' = losses \/ (LinkLost /\ losses' = losses + 1)
  BY DEF Next, MainTask, EventTask, Driver, InitWifi, Try, GiveUp, Connect, WaitEnds,
     WaitTimesOut, StartAp, OpenAp, ConfigureAp, ApStarted, StartWebserver, Serve,
     MainStopsAp, MainDisconnects, ClearConnected, HandleEvent, HandlerStopsAp,
     HandlerConnected, LinkUp, LinkFails, LinkLost, Reconnect, SaveConfig, Restart, PowerLoss,
     PowerUp, boundVars, vars
<1>3. Reconnect => calls' = calls + 1
  BY DEF Reconnect
<1>4. LinkLost => losses' = losses + 1
  BY DEF LinkLost
<1>5. /\ NoCalls /\ ~Reconnect /\ main \notin StopPlaces \cup {"disconnect", "clear"}
      /\ NoLosses' => NoLosses /\ ~LinkLost
  BY <1>1, <1>2, <1>3, <1>4 DEF Counts, NoCalls, NoLosses
<1>6. \/ retry' = retry \/ retry' = retry + 1 \/ main = "boot" \/ main = "clear"
      \/ Restart \/ PowerLoss
  BY DEF Next, MainTask, EventTask, Driver, InitWifi, Try, GiveUp, Connect, WaitEnds,
     WaitTimesOut, StartAp, OpenAp, ConfigureAp, ApStarted, StartWebserver, Serve,
     MainStopsAp, MainDisconnects, ClearConnected, HandleEvent, HandlerStopsAp,
     HandlerConnected, LinkUp, LinkFails, LinkLost, Reconnect, SaveConfig, mainVars, vars
<1>7. Retried => Retried' \/ Restart \/ PowerLoss
  BY <1>1, <1>5, <1>6 DEF Counts, Retried
<1>. QED BY <1>5, <1>7

\* Only wifi_start_ap has an access point reported.
LEMMA NotPosted ==
  ASSUME Places, [Next]_vars, ~OpenAp, Pending("AP_START")'
  PROVE  Pending("AP_START")
<1>1. events \in Seq(EventName)
  BY DEF Places, TypeOK
<1>2. ASSUME NEW e \in {"STA_DISCONNECTED", "GOT_IP"}, Post(e) PROVE Pending("AP_START")
  BY <1>1, <1>2, PostAdds DEF EventName
<1>3. CASE UNCHANGED events
  BY <1>3 DEF Pending
<1>4. CASE events # <<>> /\ events' = Tail(events)
  BY <1>1, <1>4, HeadLeaves
<1>5. CASE events' = <<>>
  BY <1>5 DEF Pending
<1>. QED
  BY <1>2, <1>3, <1>4, <1>5
  DEF Next, MainTask, EventTask, Driver, InitWifi, Try, GiveUp, Connect, WaitEnds,
      WaitTimesOut, StartAp, ConfigureAp, ApStarted, StartWebserver, Serve, MainStopsAp,
      MainDisconnects, ClearConnected, HandleEvent, HandlerStopsAp, HandlerConnected, LinkUp,
      LinkFails, LinkLost, Reconnect, SaveConfig, Restart, PowerLoss, PowerUp, Disconnect,
      vars

LEMMA NoApYetStep == Places /\ NoApYet /\ [Next]_vars => NoApYet'
<1> SUFFICES ASSUME Places, NoApYet, [Next]_vars, NoCalls', main' \in Attempts
             PROVE  /\ ~apFlag' /\ mode' = "STA" /\ handler' \in {"ready", "got_ip"}
                    /\ ~Pending("AP_START")'
  BY DEF NoApYet
<1>1. /\ Tasks /\ events \in Seq(EventName)
      /\ NoCalls /\ ~Reconnect /\ main \notin StopPlaces \cup {"disconnect", "clear"}
  BY GoesForward, PlacesHasParts DEF Parts, Network
<1>2. CASE Restart \/ PowerLoss
  BY <1>2 DEF Restart, PowerLoss, PowerUp, Pending
<1>3. ASSUME ~Restart, ~PowerLoss
      PROVE  main \in Attempts /\ ~OpenAp
  BY <1>1, <1>3 DEF Tasks, StopPlaces, Attempts, Next, MainTask, EventTask, Driver, InitWifi,
     Try, GiveUp, Connect, WaitEnds, WaitTimesOut, StartAp, OpenAp, ConfigureAp, ApStarted,
     StartWebserver, Serve, MainStopsAp, StopAp, MainDisconnects, ClearConnected, HandleEvent,
     HandlerStopsAp, HandlerConnected, LinkUp, LinkFails, LinkLost, SaveConfig, mainVars, vars
<1>4. ASSUME ~Restart, ~PowerLoss
      PROVE  /\ ~apFlag' /\ mode' = "STA" /\ handler' \in {"ready", "got_ip"}
             /\ ~Pending("AP_START")'
  <2>1. ~apFlag /\ mode = "STA" /\ handler \in {"ready", "got_ip"} /\ ~Pending("AP_START")
    BY <1>1, <1>3, <1>4 DEF NoApYet
  <2>2. ~Pending("AP_START")'
    BY <1>3, <1>4, <2>1, NotPosted
  <2>3. CASE HandleEvent
    <3>1. Head(events) # "AP_START" /\ Head(events) \in EventName
      BY <1>1, <2>1, <2>3, HeadLeaves DEF HandleEvent
    <3>. QED BY <2>1, <2>2, <2>3, <3>1 DEF HandleEvent, EventName, driverVars
  <2>4. ASSUME ~HandleEvent
        PROVE  UNCHANGED <<apFlag, mode>> /\ handler' \in {"ready", "got_ip"}
    BY <1>1, <1>3, <1>4, <2>1, <2>4
    DEF StopPlaces, Attempts, Next, MainTask, EventTask, Driver, InitWifi, Try, GiveUp,
        Connect, WaitEnds, WaitTimesOut, StartAp, ConfigureAp, ApStarted, StartWebserver,
        Serve, MainStopsAp, StopAp, MainDisconnects, ClearConnected, HandlerStopsAp,
        HandlerConnected, LinkUp, LinkFails, LinkLost, SaveConfig, flagVars, driverVars, vars
  <2>. QED BY <2>1, <2>2, <2>3, <2>4
<1>. QED BY <1>2, <1>4

LEMMA ClosedByLinkStep == Places /\ NoApYet /\ ClosedByLink /\ [Next]_vars => ClosedByLink'
<1> SUFFICES ASSUME Places, NoApYet, ClosedByLink, [Next]_vars, NoCalls',
                    main' \in {"configure", "flag", "web", "up"}, mode' = "STA"
             PROVE  "CONNECTED" \in bits' \/ handler' \in {"unflag", "got_ip"}
  BY DEF ClosedByLink
<1>1. /\ Tasks /\ Network
      /\ NoCalls /\ ~Reconnect /\ main \notin StopPlaces \cup {"disconnect", "clear"}
  BY GoesForward, PlacesHasParts DEF Parts
<1>2. CASE main \in {"configure", "flag", "web", "up"} /\ mode = "STA"
  <2>1. "CONNECTED" \in bits \/ handler \in {"unflag", "got_ip"}
    BY <1>1, <1>2 DEF ClosedByLink
  <2>2. CASE HandlerStopsAp
    BY <2>1, <2>2 DEF HandlerStopsAp, StopAp
  <2>3. CASE HandleEvent
    <3>1. Head(events) \in EventName
      BY <1>1, <2>3, HeadLeaves DEF HandleEvent, Network
    <3>. QED BY <2>1, <2>3, <3>1 DEF HandleEvent, EventName
  <2>4. CASE HandlerConnected
    BY <2>4 DEF HandlerConnected
  <2>. QED
    BY <1>1, <1>2, <2>1, <2>2, <2>3, <2>4
    DEF Next, MainTask, EventTask, Driver, InitWifi, Try, GiveUp, Connect, WaitEnds,
        WaitTimesOut, StartAp, OpenAp, ConfigureAp, ApStarted, StartWebserver, Serve,
        MainStopsAp, StopAp, StopPlaces, MainDisconnects, ClearConnected, LinkUp, LinkFails,
        LinkLost, SaveConfig, Restart, PowerLoss, PowerUp, flagVars, vars
<1>3. CASE main \notin {"configure", "flag", "web", "up"}
  <2>1. WaitEnds \/ OpenAp \/ StartAp
    BY <1>1, <1>3
    DEF Next, MainTask, EventTask, Driver, InitWifi, Try, GiveUp, Connect, WaitTimesOut,
        ConfigureAp, ApStarted, StartWebserver, Serve, MainStopsAp, StopAp, StopPlaces,
        MainDisconnects, ClearConnected, HandleEvent, HandlerStopsAp, HandlerConnected,
        LinkUp, LinkFails, LinkLost, SaveConfig, Restart, PowerLoss, PowerUp, mainVars, vars
  <2>2. ~StartAp /\ ~OpenAp
    BY <1>1 DEF StartAp, OpenAp, NoApYet, Attempts
  <2>. QED BY <2>1, <2>2 DEF WaitEnds, flagVars
<1>4. CASE mode # "STA" /\ main \in {"configure", "flag", "web", "up"}
  <2>1. HandlerStopsAp \/ Restart \/ PowerLoss
    BY <1>1, <1>4 DEF Network, Next, MainTask, EventTask, Driver, InitWifi, Try, GiveUp,
       Connect, WaitEnds, WaitTimesOut, StartAp, OpenAp, ConfigureAp, ApStarted,
       StartWebserver, Serve, MainStopsAp, StopAp, StopPlaces, MainDisconnects,
       ClearConnected, HandleEvent, HandlerConnected, LinkUp, LinkFails, LinkLost, SaveConfig,
       driverVars, vars
  <2>. QED
    BY <1>4, <2>1 DEF HandlerStopsAp, StopAp, Restart, PowerLoss, PowerUp
<1>. QED BY <1>2, <1>3, <1>4

LEMMA LateStep == Places /\ Idle /\ Late /\ [Next]_vars => Late'
<1> SUFFICES ASSUME Places, Idle, Late, [Next]_vars, NoCalls', NoLosses', sta' # "linked"
             PROVE  LinkIsGone'
  BY NoApYetStep, ClosedByLinkStep DEF Late
<1>1. /\ Tasks /\ Network /\ NoApYet /\ ClosedByLink /\ events \in Seq(EventName)
      /\ NoCalls /\ ~Reconnect /\ main \notin StopPlaces \cup {"disconnect", "clear"}
      /\ NoLosses /\ ~LinkLost
      /\ Retried => Retried' \/ Restart \/ PowerLoss
      /\ NoApYet'
  BY GoesForward, NoApYetStep, PlacesHasParts DEF Parts, Network, Late
<1>. SUFFICES ReportsRefuted' /\ LinkRefuted' /\ LinkCostsRetry' /\ FlaggedLate' /\ Opening'
  BY DEF LinkIsGone
<1>2. CASE Restart \/ PowerLoss
  <2>1. events' = <<>> /\ bits' = {} /\ handler' = "ready" /\ ~apFlag' /\ main' = "boot"
    BY <1>2 DEF Restart, PowerLoss, PowerUp
  <2>. QED
    BY <2>1 DEF ReportsRefuted, LinkRefuted, LinkCostsRetry, FlaggedLate, Opening, Pending
\* A link goes when a retry disconnects, before there is an access point.
<1>3. CASE Try /\ Retried /\ Post("STA_DISCONNECTED")
  <2>1. ~Pending("AP_START") /\ ~apFlag
    BY <1>1, <1>3 DEF Try, NoApYet, Attempts
  <2>2. EarlyDisconnection' /\ ReportsRefuted'
    BY <1>1, <1>3, <2>1, PostRefutes
  <2>3. Retried' /\ ~apFlag' /\ main' = "connect"
    BY <1>3, <2>1 DEF Try, flagVars, Retried
  <2>. QED
    BY <2>2, <2>3 DEF LinkRefuted, LinkCostsRetry, FlaggedLate, Opening
<1> SUFFICES ASSUME ~Restart, ~PowerLoss, ~(Try /\ Retried /\ Post("STA_DISCONNECTED"))
             PROVE  ReportsRefuted' /\ LinkRefuted' /\ LinkCostsRetry' /\ FlaggedLate' /\ Opening'
  BY <1>2, <1>3
<1>4. /\ sta # "linked" /\ (Retried => Retried')
      /\ ReportsRefuted /\ LinkRefuted /\ LinkCostsRetry /\ FlaggedLate /\ Opening
  <2>1. sta # "linked"
    BY <1>1
    DEF Idle, Next, MainTask, EventTask, Driver, InitWifi, Try, GiveUp, Connect, WaitEnds,
        WaitTimesOut, StartAp, OpenAp, ConfigureAp, ApStarted, StartWebserver, Serve,
        MainStopsAp, StopAp, StopPlaces, MainDisconnects, ClearConnected, HandleEvent,
        HandlerStopsAp, HandlerConnected, LinkUp, LinkFails, SaveConfig, Disconnect,
        driverVars, vars, Retried
  <2>. QED BY <1>1, <2>1 DEF Late, LinkIsGone
<1>5. CASE HandleEvent
  <2>1. /\ handler = "ready" /\ UNCHANGED <<main, mode>>
        /\ Head(events) \in EventName
        /\ events # <<>> /\ events' = Tail(events)
        /\ \A f : Pending(f) <=> Pending(f)' \/ f = Head(events)
    BY <1>1, <1>5, HeadLeaves DEF HandleEvent, mainVars, driverVars
  <2>2. /\ ReportsRefuted'
        /\ Head(events) = "GOT_IP" => EarlyDisconnection'
        /\ Head(events) = "AP_START" => ~Pending("GOT_IP")
        /\ EarlyDisconnection =>
             Head(events) # "AP_START" /\ (Head(events) = "STA_DISCONNECTED" \/ EarlyDisconnection')
    BY <1>1, <1>4, <2>1, HeadKeeps
  <2>3. CASE Head(events) = "GOT_IP"
    <3>1. /\ UNCHANGED <<bits, apFlag>> /\ handler' = (IF apFlag THEN "stop" ELSE "got_ip")
      BY <1>5, <2>3 DEF HandleEvent
    <3>2. LinkRefuted' /\ LinkCostsRetry'
      BY <1>4, <2>1, <2>2, <2>3 DEF LinkRefuted, LinkCostsRetry
    <3>3. FlaggedLate'
      BY <3>1 DEF FlaggedLate
    <3>4. Opening'
      BY <1>4, <2>1, <2>3, <3>1 DEF Opening
    <3>. QED BY <2>2, <3>2, <3>3, <3>4
  <2>4. CASE Head(events) = "STA_DISCONNECTED"
    <3>1. /\ UNCHANGED <<handler, apFlag>>
          /\ bits' = IF apFlag THEN bits ELSE bits \cup {"FAIL"}
      BY <1>5, <2>4 DEF HandleEvent
    <3>2. apFlag /\ mode = "STA" => "FAIL" \in bits
      BY <1>4, <2>1 DEF FlaggedLate
    <3>3. LinkRefuted'
      BY <1>1, <1>4, <2>1, <2>2, <3>1, <3>2 DEF LinkRefuted, Network
    <3>4. LinkCostsRetry' /\ FlaggedLate' /\ Opening'
      BY <1>4, <2>1, <3>1 DEF LinkCostsRetry, FlaggedLate, Opening
    <3>. QED BY <2>2, <3>3, <3>4
  <2>5. CASE Head(events) = "AP_START"
    <3>1. UNCHANGED <<handler, bits>> /\ apFlag'
      BY <1>5, <2>5 DEF HandleEvent
    <3>2. LinkRefuted' /\ LinkCostsRetry'
      BY <1>4, <2>1, <2>2, <2>5, <3>1 DEF LinkRefuted, LinkCostsRetry
    \* The access point was opened, so a link closed it: and its end was handled before.
    <3>3. mode = "STA" => "CONNECTED" \in bits
      <4>1. main \in {"configure", "flag", "web", "up"}
        BY <1>1, <2>1, <2>5 DEF NoApYet, Attempts, Tasks, StopPlaces
      <4>. QED BY <1>1, <2>1, <4>1 DEF ClosedByLink
    <3>4. FlaggedLate'
      BY <1>4, <2>1, <2>2, <2>5, <3>1, <3>3 DEF FlaggedLate, LinkRefuted
    <3>5. Opening'
      BY <1>4, <2>1, <2>2, <2>5, <3>1 DEF Opening
    <3>. QED BY <2>2, <3>2, <3>4, <3>5
  <2>. QED BY <2>1, <2>3, <2>4, <2>5 DEF EventName
\* In all other steps the queue only grows, and not by a report of a link.
<1>6. ASSUME ~HandleEvent
      PROVE  /\ ReportsRefuted' /\ (EarlyDisconnection => EarlyDisconnection')
             /\ Pending("GOT_IP")' => Pending("GOT_IP")
  <2>1. ASSUME NEW e \in {"AP_START", "STA_DISCONNECTED"}, Post(e)
        PROVE  /\ ReportsRefuted' /\ (EarlyDisconnection => EarlyDisconnection')
               /\ Pending("GOT_IP")' => Pending("GOT_IP")
    BY <1>1, <1>4, <2>1, PostKeeps, PostAdds DEF EventName
  <2>2. CASE UNCHANGED events
    BY <1>4, <2>2 DEF ReportsRefuted, EarlyDisconnection, IsEarly, Pending
  <2>. QED
    BY <1>1, <1>6, <2>1, <2>2
    DEF Next, MainTask, EventTask, Driver, InitWifi, Try, GiveUp, Connect, WaitEnds,
        WaitTimesOut, StartAp, OpenAp, ConfigureAp, ApStarted, StartWebserver, Serve,
        MainStopsAp, StopAp, StopPlaces, MainDisconnects, ClearConnected, HandlerStopsAp,
        HandlerConnected, LinkUp, LinkFails, SaveConfig, Disconnect, vars
<1>. SUFFICES ASSUME ~HandleEvent
              PROVE  LinkRefuted' /\ LinkCostsRetry' /\ FlaggedLate' /\ Opening'
  BY <1>5, <1>6
<1>7. CASE HandlerStopsAp
  <2>1. /\ handler \in StopPlaces /\ handler' \in {"got_ip", "halting", "mode", "unflag"}
        /\ UNCHANGED <<main, bits>>
        /\ handler' = "got_ip" => ~apFlag'
    BY <1>7 DEF HandlerStopsAp, StopAp, StopPlaces, mainVars
  <2>2. main \notin {"configure", "flag"}
    BY <1>4, <2>1 DEF Opening, StopPlaces
  <2>. QED
    BY <1>4, <1>6, <2>1, <2>2 DEF LinkRefuted, LinkCostsRetry, FlaggedLate, Opening,
       StopPlaces
<1>8. CASE HandlerConnected
  <2>1. /\ handler = "got_ip" /\ handler' = "ready" /\ bits \subseteq bits'
        /\ UNCHANGED <<main, apFlag, mode>>
    BY <1>8 DEF HandlerConnected, mainVars, driverVars
  <2>. QED
    BY <1>4, <1>6, <2>1 DEF LinkRefuted, LinkCostsRetry, FlaggedLate, Opening
<1>9. CASE OpenAp
  <2>1. ~apFlag /\ mode = "STA" /\ handler \in {"ready", "got_ip"}
    BY <1>1, <1>9 DEF OpenAp, NoApYet, Attempts
  <2>2. mode' = "APSTA" /\ UNCHANGED <<handler, bits, apFlag>>
    BY <1>9, <2>1 DEF OpenAp, flagVars
  <2>. QED
    BY <1>4, <1>6, <2>1, <2>2 DEF LinkRefuted, LinkCostsRetry, FlaggedLate, Opening
<1>10. CASE ApStarted
  <2>1. main = "flag" /\ main' = "web" /\ UNCHANGED <<handler, bits, mode>>
    BY <1>10 DEF ApStarted, driverVars
  <2>. QED
    BY <1>4, <1>6, <2>1 DEF LinkRefuted, LinkCostsRetry, FlaggedLate, Opening
<1>11. ASSUME ~HandlerStopsAp, ~HandlerConnected, ~OpenAp, ~ApStarted
       PROVE  /\ UNCHANGED <<handler, bits, apFlag, mode>>
              /\ main' \in {"configure", "flag"} => main \in {"configure", "flag"}
  BY <1>1, <1>11
  DEF Next, MainTask, EventTask, Driver, InitWifi, Try, GiveUp, Connect, WaitEnds,
      WaitTimesOut, StartAp, ConfigureAp, StartWebserver, Serve, MainStopsAp, StopAp,
      StopPlaces, MainDisconnects, ClearConnected, LinkUp, LinkFails, SaveConfig, mainVars,
      flagVars, driverVars, vars
<1>. QED
  BY <1>4, <1>6, <1>7, <1>8, <1>9, <1>10, <1>11
  DEF LinkRefuted, LinkCostsRetry, FlaggedLate, Opening

THEOREM LateCorrect == Spec => []Late
<1>1. Init => Late
  BY DEF Init, Late, NoApYet, ClosedByLink, Attempts, LinkIsGone, ReportsRefuted, LinkRefuted,
         LinkCostsRetry, FlaggedLate, Opening, Pending
<1>. QED BY <1>1, PlacesCorrect, IdleCorrect, LateStep, PTL DEF Spec

\* As the firmware is shipped and while no link is lost, the tasks do not come to rest with
\* neither a link nor an access point, unless a retry tore down a link that came too late.
THEOREM ReachableCorrect == Spec => []Reachable
<1>1. Places /\ Late => Reachable
  <2> SUFFICES ASSUME Places, Late, Quiet, calls = 0, losses = 0,
                      mode # "APSTA", sta # "linked"
               PROVE  retry > 0 /\ bits = {"CONNECTED", "FAIL"}
    BY DEF Reachable
  <2>1. Network /\ NoCalls /\ NoLosses
    BY PlacesHasParts DEF Parts, NoCalls, NoLosses
  <2>2. main = "up" /\ handler = "ready" /\ events = <<>> /\ mode = "STA"
    BY <2>1 DEF Quiet, Network
  <2>3. "CONNECTED" \in bits
    BY <2>1, <2>2 DEF Late, ClosedByLink
  <2>4. Retried /\ ("FAIL" \in bits \/ EarlyDisconnection)
    BY <2>1, <2>2, <2>3 DEF Late, LinkIsGone, LinkCostsRetry, LinkRefuted
  <2>5. ~EarlyDisconnection
    BY <2>2 DEF EarlyDisconnection
  <2>. QED BY <2>1, <2>3, <2>4, <2>5 DEF Network, Retried
<1>. QED BY <1>1, PlacesCorrect, LateCorrect, PTL

-----------------------------------------------------------------------------
(* Settled.                                                                *)

LEMMA ConfiguredStep == Places /\ Configured /\ [Next]_vars => Configured'
<1> SUFFICES ASSUME Places, Configured, [Next]_vars PROVE Configured'
  OBVIOUS
<1>1. Tasks /\ Switches /\ Configured
  BY PlacesHasParts DEF Parts
<1>2. CASE Restart \/ PowerLoss
  BY <1>2 DEF Configured, Restart, PowerLoss, PowerUp
<1>3. CASE SaveConfig
  <2>1. UNCHANGED <<main, retry>> /\ (saved' = saved \/ saved' = TRUE)
    BY <1>3 DEF SaveConfig, mainVars
  <2>2. CASE saved' = saved
    BY <1>1, <2>1, <2>2 DEF Configured
  <2>3. CASE saved' = TRUE
    BY <2>3 DEF Configured
  <2>. QED BY <2>1, <2>2, <2>3
<1>4. CASE WaitEnds \/ WaitTimesOut \/ Connect
  BY <1>1, <1>4 DEF Configured, WaitEnds, WaitTimesOut, Connect
<1>5. CASE InitWifi \/ Try \/ ClearConnected
  BY <1>1, <1>5 DEF Configured, InitWifi, Try, ClearConnected
<1>6. ASSUME ~Restart, ~PowerLoss, ~SaveConfig, ~WaitEnds, ~WaitTimesOut, ~Connect, ~InitWifi,
             ~Try, ~ClearConnected
      PROVE  /\ UNCHANGED <<saved, retry>>
             /\ main' \in {"connect", "waiting"} => main' = main
  BY <1>6 DEF Next, MainTask, EventTask, Driver, GiveUp, StartAp, OpenAp, ConfigureAp,
     ApStarted, StartWebserver, Serve, MainStopsAp, StopAp, MainDisconnects, HandleEvent,
     HandlerStopsAp, HandlerConnected, LinkUp, LinkFails, LinkLost, Reconnect, mainVars, vars
<1>7. CASE /\ UNCHANGED <<saved, retry>>
           /\ main' \in {"connect", "waiting"} => main' = main
  BY <1>1, <1>7 DEF Configured
<1>. QED BY <1>2, <1>3, <1>4, <1>5, <1>6, <1>7

\* What the tasks other than the main task, and the driver, do to the two easy ends.
LEMMA EventsSettle ==
  ASSUME Places, [Next]_vars, UNCHANGED <<main, retry>>, ~Restart, ~PowerLoss
  PROVE  /\ NeverTried => NeverTried'
         /\ NoAp /\ main = "up" => NoAp'
<1>1. Tasks /\ Network /\ events \in Seq(EventName)
  BY PlacesHasParts DEF Parts, Network
<1>2. CASE HandleEvent
  <2>1. /\ handler = "ready" /\ UNCHANGED <<sta, mode>>
        /\ Head(events) \in EventName
        /\ \A f : Pending(f) <=> Pending(f)' \/ f = Head(events)
    BY <1>1, <1>2, HeadLeaves DEF HandleEvent, driverVars
  <2>2. ASSUME NeverTried PROVE NeverTried'
    <3>1. Head(events) \in {"AP_START", "STA_DISCONNECTED"}
      BY <2>1, <2>2 DEF NeverTried, EventName
    <3>2. handler' = handler /\ (bits' = bits \/ bits' = bits \cup {"FAIL"})
      <4>1. CASE Head(events) = "AP_START"
        BY <1>2, <4>1 DEF HandleEvent
      <4>2. CASE Head(events) = "STA_DISCONNECTED"
        BY <1>2, <4>2 DEF HandleEvent
      <4>. QED BY <3>1, <4>1, <4>2
    <3>. QED BY <2>1, <2>2, <3>2 DEF NeverTried
  <2>3. ASSUME NoAp PROVE NoAp'
    <3>1. Head(events) \in {"STA_DISCONNECTED", "GOT_IP"}
      BY <2>1, <2>3 DEF NoAp, EventName
    <3>2. handler' \in {"ready", "got_ip"} /\ apFlag' = apFlag
      BY <1>2, <2>1, <2>3, <3>1 DEF HandleEvent, NoAp
    <3>. QED BY <2>1, <2>3, <3>2 DEF NoAp
  <2>. QED BY <2>2, <2>3
<1>3. CASE HandlerStopsAp
  BY <1>3 DEF HandlerStopsAp, StopAp, NeverTried, NoAp
<1>4. CASE HandlerConnected
  BY <1>4 DEF HandlerConnected, NeverTried, NoAp, Pending, driverVars
<1>5. CASE LinkUp \/ LinkFails \/ LinkLost
  <2>1. ASSUME NoAp PROVE NoAp'
    <3>1. ASSUME NEW e \in {"STA_DISCONNECTED", "GOT_IP"}, Post(e) PROVE ~Pending("AP_START")'
      BY <1>1, <2>1, <3>1, PostAdds DEF NoAp, EventName
    <3>2. ~Pending("AP_START")'
      BY <1>5, <3>1 DEF LinkUp, LinkFails, LinkLost
    <3>. QED BY <1>5, <2>1, <3>2 DEF LinkUp, LinkFails, LinkLost, NoAp, flagVars
  <2>2. ~NeverTried
    BY <1>5 DEF LinkUp, LinkFails, LinkLost, NeverTried
  <2>. QED BY <2>1, <2>2
<1>6. CASE Serve \/ SaveConfig \/ UNCHANGED vars
  <2>1. UNCHANGED <<handler, events, flagVars, driverVars>>
    BY <1>6 DEF Serve, SaveConfig, vars
  <2>. QED
    BY <2>1 DEF NeverTried, NoAp, Pending, flagVars, driverVars
<1>7. ~InitWifi /\ ~Try /\ ~GiveUp /\ ~Connect /\ ~WaitEnds /\ ~WaitTimesOut
  BY DEF InitWifi, Try, GiveUp, Connect, WaitEnds, WaitTimesOut
<1>8. ~StartAp /\ ~OpenAp /\ ~ApStarted /\ ~StartWebserver /\ ~MainDisconnects /\ ~Reconnect
      /\ ~ClearConnected
  BY DEF StartAp, OpenAp, ApStarted, StartWebserver, MainDisconnects, Reconnect,
     ClearConnected
<1>9. ~MainStopsAp
  BY DEF MainStopsAp, StopAp
<1>10. ConfigureAp => UNCHANGED <<handler, events, flagVars, driverVars>>
  BY DEF ConfigureAp
<1>11. CASE UNCHANGED <<handler, events, flagVars, driverVars>>
  BY <1>11 DEF NeverTried, NoAp, Pending, flagVars, driverVars
<1>. QED
  BY <1>2, <1>3, <1>4, <1>5, <1>6, <1>7, <1>8, <1>9, <1>10, <1>11
  DEF Next, MainTask, EventTask, Driver

LEMMA SettledStep ==
  Places /\ Fresh /\ Late /\ Configured /\ Settled /\ [Next]_vars => Settled'
<1> SUFFICES ASSUME Places, Fresh, Late, Configured, Settled, [Next]_vars, NoCalls'
             PROVE  /\ main' \in {"fallback", "open", "configure", "flag", "web"} =>
                         (retry = MaxRetries \/ NeverTried)'
                    /\ main' = "up" => (retry = MaxRetries \/ NeverTried \/ NoAp)'
  BY DEF Settled
<1>1. /\ Tasks /\ Network /\ events \in Seq(EventName)
      /\ NoCalls /\ ~Reconnect /\ main \notin StopPlaces \cup {"disconnect", "clear"}
  BY GoesForward, PlacesHasParts DEF Parts, Network
<1>2. CASE Restart \/ PowerLoss
  BY <1>2 DEF Restart, PowerLoss, PowerUp
<1>3. CASE InitWifi \/ Try \/ Connect \/ WaitTimesOut
  BY <1>3 DEF InitWifi, Try, Connect, WaitTimesOut
<1>4. CASE GiveUp
  <2>1. /\ main = "try" /\ main' = "fallback"
        /\ UNCHANGED <<retry, sta, bits, handler, events>>
        /\ retry = MaxRetries \/ retry = 0
    BY <1>4 DEF GiveUp, flagVars, driverVars, Configured
  <2>2. retry = 0 => NeverTried
    BY <1>1, <2>1 DEF Fresh, NeverTried, NoCalls, Pending
  <2>3. NeverTried => NeverTried'
    BY <2>1 DEF NeverTried, Pending
  <2>. QED BY <2>1, <2>2, <2>3
<1>5. CASE WaitEnds
  <2>1. main = "waiting" /\ UNCHANGED <<apFlag, mode, handler, events>>
    BY <1>5 DEF WaitEnds, flagVars, driverVars
  <2>2. NoAp
    BY <1>1, <2>1 DEF Late, NoApYet, Attempts, NoAp
  <2>3. NoAp'
    BY <2>1, <2>2 DEF NoAp, Pending
  <2>4. main' \in {"up", "try"}
    BY <1>5 DEF WaitEnds
  <2>. QED BY <2>3, <2>4
<1>6. CASE StartAp \/ ConfigureAp \/ ApStarted \/ StartWebserver
  <2>1. /\ main \in {"fallback", "configure", "flag", "web"}
        /\ UNCHANGED <<retry, sta, bits, handler, events>>
    BY <1>6 DEF StartAp, ConfigureAp, ApStarted, StartWebserver, flagVars, driverVars
  <2>2. retry = MaxRetries \/ NeverTried
    BY <1>1, <2>1 DEF Settled
  <2>3. NeverTried => NeverTried'
    BY <2>1 DEF NeverTried, Pending
  <2>. QED BY <2>1, <2>2, <2>3
<1>7. CASE OpenAp
  <2>1. main = "open" /\ main' = "configure" /\ UNCHANGED <<retry, sta, bits, handler>>
    BY <1>7 DEF OpenAp, flagVars
  <2>2. retry = MaxRetries \/ NeverTried
    BY <1>1, <2>1 DEF Settled
  <2>3. Pending("GOT_IP")' => Pending("GOT_IP")
    <3>1. CASE Post("AP_START")
      BY <1>1, <3>1, PostAdds DEF EventName
    <3>2. CASE UNCHANGED events
      BY <3>2 DEF Pending
    <3>. QED BY <1>7, <3>1, <3>2 DEF OpenAp
  <2>4. NeverTried => NeverTried'
    BY <2>1, <2>3 DEF NeverTried
  <2>. QED BY <2>1, <2>2, <2>4
<1>8. ASSUME ~Restart, ~PowerLoss, UNCHANGED <<main, retry>>
      PROVE  /\ main' \in {"fallback", "open", "configure", "flag", "web"} =>
                  (retry = MaxRetries \/ NeverTried)'
             /\ main' = "up" => (retry = MaxRetries \/ NeverTried \/ NoAp)'
  BY <1>1, <1>8, EventsSettle DEF Settled
<1>9. \/ UNCHANGED <<main, retry>> \/ Restart \/ PowerLoss \/ InitWifi \/ Try \/ Connect
      \/ WaitTimesOut \/ GiveUp \/ WaitEnds \/ StartAp \/ ConfigureAp \/ ApStarted
      \/ StartWebserver \/ OpenAp
  BY <1>1 DEF StopPlaces, Next, MainTask, EventTask, Driver, Serve, MainStopsAp, StopAp,
     MainDisconnects, ClearConnected, HandleEvent, HandlerStopsAp, HandlerConnected, LinkUp,
     LinkFails, LinkLost, SaveConfig, mainVars, vars
<1>. QED BY <1>2, <1>3, <1>4, <1>5, <1>6, <1>7, <1>8, <1>9

THEOREM SettledCorrect == Spec => [](Configured /\ Settled)
<1>1. Init => Fresh /\ Configured /\ Settled
  BY DEF Init, Fresh, Configured, Settled
<1>. QED
  BY <1>1, PlacesCorrect, LateCorrect, FreshStep, ConfiguredStep, SettledStep, PTL DEF Spec

LEMMA AbortedStep == Places /\ Late /\ Aborted /\ [Next]_vars => Aborted'
<1> SUFFICES ASSUME Places, Late, Aborted, [Next]_vars, fault' = "aborted" PROVE Aborted'
  BY DEF Aborted
<1>1. Tasks /\ Network /\ Counts
  BY PlacesHasParts DEF Parts
<1>2. CASE UNCHANGED vars
  BY <1>2 DEF vars, mainVars, flagVars, driverVars, boundVars, Aborted, LateLink
<1>3. CASE Next /\ ConfigureAp
  <2>1. main = "configure" /\ mode = "STA" /\ UNCHANGED <<main, mode, handler, bits, calls>>
    <3>1. fault = "none" /\ main = "configure" /\ UNCHANGED <<mode, handler, bits, calls>>
      BY <1>3 DEF ConfigureAp, Next, flagVars, driverVars, boundVars
    <3>2. mode # "APSTA" /\ UNCHANGED main
      BY <1>3, <3>1 DEF ConfigureAp
    <3>. QED BY <1>1, <3>1, <3>2 DEF Network
  <2>2. calls > 0 \/ LateLink
    BY <1>1, <2>1 DEF Late, ClosedByLink, LateLink, NoCalls, Counts
  <2>. QED BY <2>1, <2>2 DEF Aborted, LateLink
<1>4. CASE Next /\ ~ConfigureAp
  BY <1>4 DEF Next, MainTask, EventTask, Driver, InitWifi, Try, GiveUp, Connect, WaitEnds,
     WaitTimesOut, StartAp, OpenAp, ApStarted, StartWebserver, Serve, MainStopsAp, StopAp,
     MainDisconnects, ClearConnected, HandleEvent, HandlerStopsAp, HandlerConnected, LinkUp,
     LinkFails, LinkLost, Reconnect, SaveConfig, Restart, PowerLoss, PowerUp
<1>. QED BY <1>2, <1>3, <1>4

\* Once the tasks are done, an open access point is flagged and a link has its bit, however
\* the event task and the main task ran past each other.  A flag without an access point
\* needs a link that came after the last attempt, a bit without a link one that was lost or
\* torn down; and the two faults need what FaultCauses names.
THEOREM FlagsTrueCorrect == Spec => []FlagsTrue
<1>1. Flags => (Quiet /\ mode = "APSTA" => apFlag)
  BY DEF Flags, ApFlagged, Quiet, Pending
<1>2. Flags => (Quiet /\ sta = "linked" => "CONNECTED" \in bits)
  BY DEF Flags, LinkFlagged, Quiet, Pending
<1>3. Places /\ Late /\ Settled =>
        (Quiet /\ calls = 0 =>
           (apFlag => mode = "APSTA" \/ (retry = MaxRetries /\ "CONNECTED" \in bits)))
  <2> SUFFICES ASSUME Places, Late, Settled, Quiet, calls = 0, apFlag, mode # "APSTA"
               PROVE  retry = MaxRetries /\ "CONNECTED" \in bits
    OBVIOUS
  <2>1. Network /\ NoCalls /\ main = "up" /\ handler = "ready"
    BY PlacesHasParts DEF Parts, NoCalls, Quiet
  <2>2. "CONNECTED" \in bits
    BY <2>1 DEF Late, ClosedByLink, Network
  <2>. QED BY <2>1, <2>2 DEF Settled, NeverTried, NoAp
<1>4. Places /\ Late =>
        (Quiet /\ calls = 0 =>
           ("CONNECTED" \in bits => sta = "linked" \/ losses > 0 \/ retry > 0))
  BY PlacesHasParts DEF Parts, Counts, Late, LinkIsGone, LinkCostsRetry, Retried, NoCalls,
     NoLosses
<1>5. Flags /\ Aborted => FaultCauses
  BY DEF Flags, StoppedOnce, Aborted, FaultCauses
<1>6. Places /\ Flags /\ Late /\ Settled /\ Aborted => FlagsTrue
  BY <1>1, <1>2, <1>3, <1>4, <1>5 DEF FlagsTrue
<1>7. Init => Aborted
  BY DEF Init, Aborted
<1>. QED
  BY <1>6, <1>7, PlacesCorrect, FlagsCorrect, LateCorrect, SettledCorrect, AbortedStep, PTL
  DEF Spec
=============================================================================
