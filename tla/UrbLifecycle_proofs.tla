------------------------- MODULE UrbLifecycle_proofs -------------------------
(***************************************************************************)
(* Proofs of the safety properties of UrbLifecycle, in five layers; each   *)
(* layer is inductive relative to the ones before it.                      *)
(*                                                                         *)
(*   Control    where the two threads are, and what that says of the       *)
(*              session pointer and the stop flag;                         *)
(*   Ownership  an URB has at most one owner among the session thread, the *)
(*              host stack and the callback, and an owned URB is not       *)
(*              answered yet;                                              *)
(*   Slots      a slot of the tracker follows the owner of its URB;        *)
(*   Sessions   how far the channel of each Session is, and what the       *)
(*              callback's pointer can point to;                           *)
(*   Causes     what can have led to a fault.                              *)
(***************************************************************************)
EXTENDS UrbLifecycle, TLAPS

LEMMA EndpointFacts ==
  /\ \A e \in Endpoints : e \subseteq URB /\ e \cap Ctrl = {} /\ e # {}
  /\ Bulk \subseteq URB /\ Ctrl \subseteq URB /\ Intr \subseteq URB
  /\ None \notin URB /\ MaxConn \in Nat
BY UrbAssumption DEF UrbAssumption, Endpoints, URB

-----------------------------------------------------------------------------
(* Control.                                                                *)

\* The session thread is working on rxUrb.
RxHolds ==
  \/ rxPc \in {"alloc", "register", "submit", "clean"}
  \/ rxPc = "cancel" /\ rxThen = "clean"

\* A thread holds an URB exactly when it is working on one, and the loop over the
\* endpoints runs exactly when there are endpoints left.
Loop ==
  /\ rxPc = "cancel" => rxTodo # {}
  /\ rxPc # "cancel" => rxTodo = {} /\ rxThen = "idle"
  /\ RxHolds <=> rxUrb # None
  /\ cbPc = "idle" <=> cbUrb = None

\* on_disconnection is under way, or no session uses the device.
Stopped ==
  \/ rxPc \in {"none", "attached", "clear", "unset", "close"}
  \/ rxPc = "cancel" /\ rxThen = "clear"

\* Where the session thread is determines the session pointer and the stop flag.
SessionInv ==
  /\ session = IF rxPc \in {"none", "close"} THEN 0 ELSE conn
  /\ rxPc # "none" => conn > 0
  /\ Stopped => stop

Control == TypeOK /\ Loop /\ SessionInv

LEMMA ControlInit == Init => Control
<1> SUFFICES ASSUME Init PROVE Control
  OBVIOUS
<1>1. /\ channel \in [Connection -> Channel] /\ unlinkMap \in [Connection -> SUBSET URB]
      /\ stop \in BOOLEAN /\ hasDevice \in BOOLEAN /\ cbUnlinked \in BOOLEAN
  BY DEF Init, Channel
<1>2. /\ conn \in 0 .. MaxConn /\ session \in 0 .. MaxConn /\ home \in [URB -> 0 .. MaxConn]
      /\ cbSession \in 0 .. MaxConn
  BY EndpointFacts DEF Init
<1>3. TypeOK
  BY <1>1, <1>2 DEF Init, TypeOK, RxPc, CbPc, Status, Faults
<1>4. Loop /\ SessionInv
  BY EndpointFacts DEF Init, Loop, SessionInv, RxHolds, Stopped
<1>. QED BY <1>3, <1>4 DEF Control

LEMMA ControlStep ==
  ASSUME Control, [Next]_vars PROVE Control'
<1>1. CASE Connect
  <2>1. conn' \in 0 .. MaxConn /\ session' \in 0 .. MaxConn
    BY <1>1, EndpointFacts DEF Connect, Control, TypeOK
  <2>2. rxPc' \in RxPc
    BY <1>1 DEF Connect, RxGoto, RxPc
  <2>3. TypeOK'
    BY <1>1, <2>1, <2>2 DEF Connect, RxGoto, Control, TypeOK, cbVars, usbVars,
        retVars
  <2>4. Loop' /\ SessionInv'
    BY <1>1, EndpointFacts DEF Connect, RxGoto, cbVars, Control, TypeOK, Loop,
        SessionInv, RxHolds, Stopped
  <2>. QED
    BY <2>3, <2>4 DEF Control
<1>2. CASE ClearStop
  <2>1. TypeOK'
    BY <1>2 DEF ClearStop, RxGoto, cbVars, usbVars, retVars, Control, TypeOK, RxPc
  <2>2. Loop' /\ SessionInv'
    BY <1>2, EndpointFacts DEF ClearStop, RxGoto, cbVars, Control, TypeOK, Loop,
        SessionInv, RxHolds, Stopped
  <2>. QED BY <2>1, <2>2 DEF Control
<1>3. CASE OpenChannel
  <2>1. channel' \in [Connection -> Channel]
    BY <1>3 DEF OpenChannel, Control, TypeOK, Channel
  <2>. QED
  BY <1>3, <2>1, EndpointFacts DEF OpenChannel, RxReturn, cbVars, usbVars, retVars, Control,
      TypeOK, Loop, SessionInv, RxHolds, Stopped, RxPc, CbPc, Status, Faults
<1>4. ASSUME NEW u \in URB, ReceiveSubmit(u) PROVE Control'
  BY <1>4, EndpointFacts DEF ReceiveSubmit, RxLeave, CancelAll, cbVars, usbVars,
      connVars, retVars, Control, TypeOK, Loop, SessionInv, RxHolds, Stopped, RxPc,
      CbPc, Status, Faults
<1>5. ASSUME NEW u \in URB, UnknownEndpoint(u) PROVE Control'
  <2>1. rxPc' \in RxPc /\ rxUrb' \in URB \cup {None}
    BY <1>5 DEF UnknownEndpoint, RxAbort, RxReturn, RxPc, Control, TypeOK
  <2>2. home' \in [URB -> 0 .. MaxConn] /\ retSubmit' \in [URB -> Nat]
    BY <1>5 DEF UnknownEndpoint, AnswerSubmit, Control, TypeOK
  <2>3. TypeOK'
    BY <1>5, <2>1, <2>2 DEF UnknownEndpoint, RxAbort, RxReturn, Control, TypeOK,
        cbVars, usbVars, connVars
  <2>4. Loop' /\ SessionInv'
    BY <1>5, EndpointFacts DEF UnknownEndpoint, RxAbort, RxReturn, cbVars, connVars, Control,
        TypeOK, Loop, SessionInv, RxHolds, Stopped
  <2>. QED
    BY <2>3, <2>4 DEF Control
<1>6. CASE Alloc
  <2>1. rxPc' \in RxPc /\ rxUrb' \in URB \cup {None}
    BY <1>6 DEF Alloc, RxGoto, RxReturn, RxLeave, RxAbort, RxPc, Control, TypeOK
  <2>2. TypeOK'
    BY <1>6, <2>1 DEF Alloc, RxGoto, RxReturn, RxLeave, RxAbort, Control, TypeOK,
        cbVars, usbVars, connVars, retVars
  <2>3. Loop' /\ SessionInv'
    BY <1>6, EndpointFacts DEF Alloc, RxGoto, RxReturn, RxLeave, RxAbort, cbVars,
        connVars, Control, TypeOK, Loop, SessionInv, RxHolds, Stopped
  <2>. QED
    BY <2>2, <2>3 DEF Control
<1>7. CASE Register
  BY <1>7, EndpointFacts DEF Register, RxGoto, RxReturn, AnswerSubmit, cbVars, usbVars,
      connVars, retVars, Control, TypeOK, Loop, SessionInv, RxHolds, Stopped, RxPc,
      CbPc, Status, Faults
<1>8. CASE Submit
  BY <1>8, EndpointFacts DEF Submit, RxReturn, AnswerSubmit, cbVars, connVars, Control,
      TypeOK, Loop, SessionInv, RxHolds, Stopped, RxPc, CbPc, Status, Faults
<1>9. ASSUME NEW u \in URB, ReceiveUnlink(u) PROVE Control'
  <2>1. unlinkMap' \in [Connection -> SUBSET URB]
    BY <1>9 DEF ReceiveUnlink, Control, TypeOK
  <2>. QED
  BY <1>9, <2>1, EndpointFacts DEF ReceiveUnlink, RxGoto, cbVars, usbVars, connVars, retVars,
      Control, TypeOK, Loop, SessionInv, RxHolds, Stopped, RxPc, CbPc, Status, Faults
<1>10. CASE HandleUnlink
  BY <1>10, EndpointFacts DEF HandleUnlink, RxReturn, CancelAll, cbVars, usbVars,
      connVars, retVars, Control, TypeOK, Loop, SessionInv, RxHolds, Stopped, RxPc,
      CbPc, Status, Faults
<1>11. ASSUME NEW e \in Endpoints, ClearEndpoint(e) PROVE Control'
  BY <1>11, EndpointFacts DEF ClearEndpoint, cbVars, connVars, retVars, Control, TypeOK,
      Loop, SessionInv, RxHolds, Stopped, RxPc, CbPc, Status, Faults
<1>12. CASE CleanTracker
  BY <1>12, EndpointFacts DEF CleanTracker, RxGoto, cbVars, usbVars, connVars, retVars,
      Control, TypeOK, Loop, SessionInv, RxHolds, Stopped, RxPc, CbPc, Status, Faults
<1>13. CASE SocketError
  BY <1>13, EndpointFacts DEF SocketError, RxLeave, cbVars, usbVars, connVars, retVars,
      Control, TypeOK, Loop, SessionInv, RxHolds, Stopped, RxPc, CbPc, Status, Faults
<1>14. CASE Detach
  BY <1>14, EndpointFacts DEF Detach, RxGoto, CancelAll, cbVars, usbVars, retVars,
      Control, TypeOK, Loop, SessionInv, RxHolds, Stopped, RxPc, CbPc, Status, Faults
<1>15. CASE ClearTracker
  BY <1>15, EndpointFacts DEF ClearTracker, RxGoto, cbVars, usbVars, connVars, retVars,
      Control, TypeOK, Loop, SessionInv, RxHolds, Stopped, RxPc, CbPc, Status, Faults
<1>16. CASE UnsetSession
  BY <1>16, EndpointFacts DEF UnsetSession, RxGoto, cbVars, usbVars, retVars, Control,
      TypeOK, Loop, SessionInv, RxHolds, Stopped, RxPc, CbPc, Status, Faults
<1>17. CASE CloseChannel
  <2>1. channel' \in [Connection -> Channel]
    BY <1>17 DEF CloseChannel, Control, TypeOK, Channel
  <2>. QED
  BY <1>17, <2>1, EndpointFacts DEF CloseChannel, RxGoto, cbVars, usbVars, retVars, Control,
      TypeOK, Loop, SessionInv, RxHolds, Stopped, RxPc, CbPc, Status, Faults
<1>18. ASSUME NEW u \in URB, CallbackStart(u) PROVE Control'
  BY <1>18, EndpointFacts DEF CallbackStart, rxVars, cbVars, connVars, retVars, Control,
      TypeOK, Loop, SessionInv, RxHolds, Stopped, RxPc, CbPc, Status, Faults
<1>19. ASSUME NEW u \in URB, CallbackOnFreedArgs(u) PROVE Control'
  BY <1>19, EndpointFacts DEF CallbackOnFreedArgs, rxVars, cbVars, usbVars, connVars,
      retVars, Control, TypeOK, Loop, SessionInv, RxHolds, Stopped, RxPc, CbPc, Status,
      Faults
<1>20. CASE Untrack
  BY <1>20, EndpointFacts DEF Untrack, rxVars, usbVars, connVars, retVars, Control, TypeOK,
     Loop, SessionInv, RxHolds, Stopped, RxPc, CbPc, Status, Faults
<1>21. CASE LoadSession
  BY <1>21, EndpointFacts DEF LoadSession, rxVars, usbVars, connVars, retVars, Control,
     TypeOK, Loop, SessionInv, RxHolds, Stopped, RxPc, CbPc, Status, Faults
<1>22. CASE Lookup
  <2>1. cbUnlinked' \in BOOLEAN
    BY <1>22 DEF Lookup
  <2>2. cbSession' \in 0 .. MaxConn /\ cbPc' \in CbPc
    BY <1>22, EndpointFacts DEF Lookup, CbPc
  <2>3. TypeOK'
    BY <1>22, <2>1, <2>2 DEF Lookup, rxVars, usbVars, connVars, retVars, Control, TypeOK
  <2>4. Loop' /\ SessionInv'
    BY <1>22, EndpointFacts DEF Lookup, rxVars, connVars, Control, TypeOK, Loop,
        SessionInv, RxHolds, Stopped
  <2>. QED
    BY <2>3, <2>4 DEF Control
<1>23. CASE Resubmit
  <2>1. cbUnlinked' \in BOOLEAN
    BY <1>23 DEF Resubmit, CbReturn
  <2>2. TypeOK'
    BY <1>23, <2>1, EndpointFacts DEF Resubmit, CbReturn, rxVars, connVars, retVars,
        Control, TypeOK, Loop, CbPc, Status
  <2>3. Loop' /\ SessionInv'
    BY <1>23, EndpointFacts DEF Resubmit, CbReturn, rxVars, connVars, Control, TypeOK,
        Loop, SessionInv, RxHolds, Stopped
  <2>. QED BY <2>2, <2>3 DEF Control
<1>24. CASE ResubmitFailed
  BY <1>24, EndpointFacts DEF ResubmitFailed, Unclaimed, rxVars, usbVars, connVars, retVars,
     Control, TypeOK, Loop, SessionInv, RxHolds, Stopped, RxPc, CbPc, Status, Faults
<1>25. CASE Refuse
  <2>1. retSubmit' \in [URB -> Nat]
    BY <1>25 DEF Refuse, SendSubmit, AnswerSubmit, Control, TypeOK
  <2>2. cbSession' \in 0 .. MaxConn
    BY <1>25, EndpointFacts DEF Refuse
  <2>. QED
  BY <1>25, <2>1, <2>2, EndpointFacts DEF Refuse, rxVars, usbVars, connVars, Control, TypeOK,
     Loop, SessionInv, RxHolds, Stopped, RxPc, CbPc, Status, Faults
<1>26. CASE Finish
  BY <1>26, EndpointFacts DEF Finish, Unclaimed, rxVars, usbVars, connVars, retVars,
      Control, TypeOK, Loop, SessionInv, RxHolds, Stopped, RxPc, CbPc, Status, Faults
<1>27. CASE Reply
  <2>1. cbUnlinked' \in BOOLEAN
    BY <1>27 DEF Reply, CbReturn, Control, TypeOK
  <2>2. cbSession' \in 0 .. MaxConn
    BY <1>27, EndpointFacts DEF Reply, CbReturn, Control, TypeOK
  <2>3. cbPc' \in CbPc /\ cbStatus' \in Status /\ cbUrb' \in URB \cup {None}
    BY <1>27 DEF Reply, CbReturn, CbPc, Status, Control, TypeOK
  <2>4. retSubmit' \in [URB -> Nat] /\ retUnlink' \in [URB -> Nat]
    BY <1>27 DEF Reply, SendSubmit, SendUnlink, AnswerSubmit, AnswerUnlink, Control, TypeOK
  <2>5. TypeOK'
    BY <1>27, <2>1, <2>2, <2>3, <2>4 DEF Reply, Control, TypeOK, rxVars, connVars, usbVars
  <2>6. Loop' /\ SessionInv'
    BY <1>27, EndpointFacts DEF Reply, CbReturn, rxVars, connVars, Control, TypeOK,
        Loop, SessionInv, RxHolds, Stopped
  <2>. QED
    BY <2>5, <2>6 DEF Control
<1>28. CASE RemoveUnlink
  <2>1. unlinkMap' \in [Connection -> SUBSET URB]
    BY <1>28 DEF RemoveUnlink, Control, TypeOK
  <2>2. cbUnlinked' \in BOOLEAN
    BY <1>28 DEF RemoveUnlink, CbReturn
  <2>3. cbSession' \in 0 .. MaxConn
    BY <1>28, EndpointFacts DEF RemoveUnlink, CbReturn
  <2>4. TypeOK'
    BY <1>28, <2>2, <2>1, <2>3 DEF RemoveUnlink, CbReturn, Control, TypeOK, CbPc, Status,
       rxVars, connVars, usbVars, retVars
  <2>5. Loop' /\ SessionInv'
    BY <1>28, EndpointFacts DEF RemoveUnlink, CbReturn, rxVars, connVars, Control, TypeOK,
        Loop, SessionInv, RxHolds, Stopped
  <2>. QED
    BY <2>4, <2>5 DEF Control
<1>29. CASE CallbackFault
  BY <1>29, EndpointFacts DEF CallbackFault, rxVars, cbVars, usbVars, connVars, retVars,
      Control, TypeOK, Loop, SessionInv, RxHolds, Stopped, RxPc, CbPc, Status, Faults,
      SessionFault, ChannelFault
<1>30. CASE Unplug
  <2>1. hasDevice' \in BOOLEAN
    BY <1>30 DEF Unplug
  <2>2. TypeOK'
    BY <1>30, <2>1 DEF Unplug, Control, TypeOK, connVars, rxVars, cbVars, usbVars,
        retVars
  <2>3. Loop' /\ SessionInv'
    BY <1>30, EndpointFacts DEF Unplug, connVars, rxVars, cbVars, Control, TypeOK, Loop,
        SessionInv, RxHolds, Stopped
  <2>. QED
    BY <2>2, <2>3 DEF Control
<1>31. ASSUME NEW s \in Connection, DestroySession(s) PROVE Control'
  <2>1. channel' \in [Connection -> Channel] /\ unlinkMap' \in [Connection -> SUBSET URB]
    BY <1>31 DEF DestroySession, Control, TypeOK, Channel
  <2>2. TypeOK'
    BY <1>31, <2>1 DEF DestroySession, rxVars, cbVars, usbVars, retVars, Control, TypeOK
  <2>3. Loop' /\ SessionInv'
    BY <1>31 DEF DestroySession, rxVars, cbVars, Control, TypeOK, Loop, SessionInv,
        RxHolds, Stopped
  <2>. QED
    BY <2>2, <2>3 DEF Control
<1>32. CASE UNCHANGED vars
  BY <1>32 DEF vars, Control, TypeOK, Loop, SessionInv, RxHolds, Stopped, RxPc, CbPc,
      Status, Faults
<1>. QED
  BY <1>1, <1>2, <1>3, <1>4, <1>5, <1>6, <1>7, <1>8, <1>9, <1>10, <1>11, <1>12, <1>13, <1>14,
     <1>15, <1>16, <1>17, <1>18, <1>19, <1>20, <1>21, <1>22, <1>23, <1>24, <1>25, <1>26,
     <1>27, <1>28, <1>29, <1>30, <1>31, <1>32 DEF Next, ReceiverStep, CallbackStep, Client,
     Usb

\* Where the two threads are determines the session pointer, the stop flag and the channel:
\* the invariant the other layers rest on.
THEOREM ControlCorrect == Spec => []Control
<1>1. Init => Control BY ControlInit
<1>2. Control /\ [Next]_vars => Control' BY ControlStep
<1>. QED BY <1>1, <1>2, PTL DEF Spec

\* The state of the lifecycle stays well-typed; a transfer is cancelled, or holds freed
\* arguments, only while the host stack owns it.
THEOREM TypeCorrect == Spec => []TypeOK
BY ControlCorrect, PTL DEF Control

\* on_new_connection and on_disconnection order their two stores so that a cleared stop
\* flag implies a usable session pointer.
THEOREM StopGuardsSessionCorrect == Spec => []StopGuardsSession
<1>1. Control => StopGuardsSession
  BY DEF Control, SessionInv, Stopped, StopGuardsSession
<1>. QED BY <1>1, ControlCorrect, PTL

-----------------------------------------------------------------------------
(* Ownership.                                                              *)

\* An URB that never arrived is nowhere; no URB arrives before its connection is up.
FreshInv ==
  /\ \A u \in URB :
       home[u] = 0 => /\ u \notin inflight \cup tracked \cup asked
                      /\ u # rxUrb /\ u # cbUrb
                      /\ retSubmit[u] = 0 /\ retUnlink[u] = 0
  /\ \A u \in URB : home[u] <= conn
  /\ rxPc \in {"attached", "opening"} => \A u \in URB : home[u] < conn

\* The session thread's URB belongs to nobody else.
RxInv ==
  RxHolds => /\ rxUrb \in URB /\ home[rxUrb] = conn
             /\ rxUrb \notin inflight /\ rxUrb # cbUrb
             /\ retSubmit[rxUrb] = 0 /\ retUnlink[rxUrb] = 0
             /\ rxPc # "submit" => rxUrb \notin tracked

\* The callback's URB belongs to nobody else; only a failed resubmission has answered it.
CbInv ==
  /\ cbPc # "idle" => /\ cbUrb \in URB /\ cbUrb \notin inflight
                      /\ cbPc # "untrack" => cbUrb \notin tracked
                      /\ cbPc # "remove" => retUnlink[cbUrb] = 0
                      /\ retSubmit[cbUrb] > 0 => cbPc \in {"reply", "send"} /\ ~cbUnlinked
                      /\ cbUnlinked => cbUrb \in asked
                      /\ cbStatus = "canceled" => cbUrb \notin Ctrl
  /\ cbPc = "refuse" => ~cbUnlinked
  /\ cbUnlinked => cbPc \in {"finish", "reply", "send", "remove"}
  /\ \A s \in Connection : unlinkMap[s] \subseteq asked
  /\ (cancelled \cup freed) \cap Ctrl = {}

\* No URB has two outcomes.
OutcomeInv ==
  \A u \in URB : /\ retUnlink[u] > 0 => u \in asked
                  /\ ~(retSubmit[u] > 0 /\ retUnlink[u] > 0)

Ownership == FreshInv /\ RxInv /\ CbInv /\ OutcomeInv /\ NoAnswerWhileOwned

LEMMA OwnershipInit == Init => Ownership
BY EndpointFacts DEF Init, Ownership, FreshInv, RxInv, CbInv, OutcomeInv,
   NoAnswerWhileOwned, Answered, RxHolds

LEMMA OwnershipStep ==
  ASSUME Control, Ownership, [Next]_vars PROVE Ownership'
<1>1. CASE Connect
  BY <1>1, EndpointFacts DEF Connect, RxGoto, cbVars, usbVars, retVars, Ownership,
      FreshInv, RxInv, CbInv, OutcomeInv, NoAnswerWhileOwned, Answered, Control, TypeOK,
      Loop, SessionInv, RxHolds, CbPc
<1>2. CASE ClearStop
  BY <1>2, EndpointFacts DEF ClearStop, RxGoto, cbVars, usbVars, retVars, Ownership,
      FreshInv, RxInv, CbInv, OutcomeInv, NoAnswerWhileOwned, Answered, Control, TypeOK,
      Loop, SessionInv, RxHolds, CbPc
<1>3. CASE OpenChannel
  BY <1>3, EndpointFacts DEF OpenChannel, RxReturn, cbVars, usbVars, retVars, Ownership,
      FreshInv, RxInv, CbInv, OutcomeInv, NoAnswerWhileOwned, Answered, Control, TypeOK,
      Loop, SessionInv, RxHolds, CbPc
<1>4. ASSUME NEW u \in URB, ReceiveSubmit(u) PROVE Ownership'
  BY <1>4, EndpointFacts DEF ReceiveSubmit, RxLeave, CancelAll, cbVars, usbVars,
      connVars, retVars, Ownership, FreshInv, RxInv, CbInv, OutcomeInv,
      NoAnswerWhileOwned, Answered, Control, TypeOK, Loop, SessionInv, RxHolds, CbPc
<1>5. ASSUME NEW u \in URB, UnknownEndpoint(u) PROVE Ownership'
  BY <1>5, EndpointFacts DEF UnknownEndpoint, RxAbort, RxReturn, AnswerSubmit, cbVars,
      usbVars, connVars, Ownership, FreshInv, RxInv, CbInv, OutcomeInv, NoAnswerWhileOwned,
      Answered, Control, TypeOK, Loop, SessionInv, RxHolds, CbPc
<1>6. CASE Alloc
  BY <1>6, EndpointFacts DEF Alloc, RxGoto, RxReturn, RxLeave, RxAbort, cbVars, usbVars,
      connVars, retVars, Ownership, FreshInv, RxInv, CbInv, OutcomeInv, NoAnswerWhileOwned,
      Answered, Control, TypeOK, Loop, SessionInv, RxHolds, CbPc
<1>7. CASE Register
  BY <1>7, EndpointFacts DEF Register, RxGoto, RxReturn, AnswerSubmit, cbVars, usbVars,
      connVars, retVars, Ownership, FreshInv, RxInv, CbInv, OutcomeInv,
      NoAnswerWhileOwned, Answered, Control, TypeOK, Loop, SessionInv, RxHolds, CbPc
<1>8. CASE Submit
  BY <1>8, EndpointFacts DEF Submit, RxReturn, AnswerSubmit, cbVars, connVars,
      Ownership, FreshInv, RxInv, CbInv, OutcomeInv, NoAnswerWhileOwned, Answered,
      Control, TypeOK, Loop, SessionInv, RxHolds, CbPc
<1>9. ASSUME NEW u \in URB, ReceiveUnlink(u) PROVE Ownership'
  BY <1>9, EndpointFacts DEF ReceiveUnlink, RxGoto, cbVars, usbVars, connVars, retVars,
      Ownership, FreshInv, RxInv, CbInv, OutcomeInv, NoAnswerWhileOwned, Answered,
      Control, TypeOK, Loop, SessionInv, RxHolds, CbPc
<1>10. CASE HandleUnlink
  BY <1>10, EndpointFacts DEF HandleUnlink, RxReturn, CancelAll, cbVars, usbVars,
      connVars, retVars, Ownership, FreshInv, RxInv, CbInv, OutcomeInv,
      NoAnswerWhileOwned, Answered, Control, TypeOK, Loop, SessionInv, RxHolds, CbPc
<1>11. ASSUME NEW e \in Endpoints, ClearEndpoint(e) PROVE Ownership'
  BY <1>11, EndpointFacts DEF ClearEndpoint, cbVars, connVars, retVars, Ownership,
      FreshInv, RxInv, CbInv, OutcomeInv, NoAnswerWhileOwned, Answered, Control, TypeOK,
      Loop, SessionInv, RxHolds, CbPc
<1>12. CASE CleanTracker
  BY <1>12, EndpointFacts DEF CleanTracker, RxGoto, cbVars, usbVars, connVars, retVars,
      Ownership, FreshInv, RxInv, CbInv, OutcomeInv, NoAnswerWhileOwned, Answered,
      Control, TypeOK, Loop, SessionInv, RxHolds, CbPc
<1>13. CASE SocketError
  BY <1>13, EndpointFacts DEF SocketError, RxLeave, cbVars, usbVars, connVars, retVars,
      Ownership, FreshInv, RxInv, CbInv, OutcomeInv, NoAnswerWhileOwned, Answered,
      Control, TypeOK, Loop, SessionInv, RxHolds, CbPc
<1>14. CASE Detach
  BY <1>14, EndpointFacts DEF Detach, RxGoto, CancelAll, cbVars, usbVars, retVars,
      Ownership, FreshInv, RxInv, CbInv, OutcomeInv, NoAnswerWhileOwned, Answered,
      Control, TypeOK, Loop, SessionInv, RxHolds, CbPc
<1>15. CASE ClearTracker
  BY <1>15, EndpointFacts DEF ClearTracker, RxGoto, cbVars, usbVars, connVars, retVars,
      Ownership, FreshInv, RxInv, CbInv, OutcomeInv, NoAnswerWhileOwned, Answered,
      Control, TypeOK, Loop, SessionInv, RxHolds, CbPc
<1>16. CASE UnsetSession
  BY <1>16, EndpointFacts DEF UnsetSession, RxGoto, cbVars, usbVars, retVars, Ownership,
      FreshInv, RxInv, CbInv, OutcomeInv, NoAnswerWhileOwned, Answered, Control, TypeOK,
      Loop, SessionInv, RxHolds, CbPc
<1>17. CASE CloseChannel
  BY <1>17, EndpointFacts DEF CloseChannel, RxGoto, cbVars, usbVars, retVars, Ownership,
      FreshInv, RxInv, CbInv, OutcomeInv, NoAnswerWhileOwned, Answered, Control, TypeOK,
      Loop, SessionInv, RxHolds, CbPc
<1>18. ASSUME NEW u \in URB, CallbackStart(u) PROVE Ownership'
  BY <1>18, EndpointFacts DEF CallbackStart, rxVars, cbVars, connVars, retVars,
      Ownership, FreshInv, RxInv, CbInv, OutcomeInv, NoAnswerWhileOwned, Answered,
      Control, TypeOK, Loop, SessionInv, RxHolds, CbPc
<1>19. ASSUME NEW u \in URB, CallbackOnFreedArgs(u) PROVE Ownership'
  BY <1>19, EndpointFacts DEF CallbackOnFreedArgs, rxVars, cbVars, usbVars, connVars,
      retVars, Ownership, FreshInv, RxInv, CbInv, OutcomeInv, NoAnswerWhileOwned,
      Answered, Control, TypeOK, Loop, SessionInv, RxHolds, CbPc
<1>20. CASE Untrack
  BY <1>20, EndpointFacts DEF Untrack, rxVars, usbVars, connVars, retVars, Ownership,
     FreshInv, RxInv, CbInv, OutcomeInv, NoAnswerWhileOwned, Answered, Control, TypeOK, Loop,
     SessionInv, RxHolds, CbPc
<1>21. CASE LoadSession
  BY <1>21, EndpointFacts DEF LoadSession, rxVars, usbVars, connVars, retVars, Ownership,
     FreshInv, RxInv, CbInv, OutcomeInv, NoAnswerWhileOwned, Answered, Control, TypeOK, Loop,
     SessionInv, RxHolds, CbPc
<1>22. CASE Lookup
  <2>1. cbSession \in Connection
    BY <1>22, EndpointFacts DEF Lookup, SessionFault, Control, TypeOK, Connection
  <2>2. cbUrb \in unlinkMap[cbSession] => cbUrb \in asked
    BY <2>1 DEF Ownership, CbInv
  <2>. QED
    BY <1>22, <2>2, EndpointFacts DEF Lookup, rxVars, usbVars, connVars, retVars, Ownership,
        FreshInv, RxInv, CbInv, OutcomeInv, NoAnswerWhileOwned, Answered, Control, TypeOK,
        Loop, SessionInv, RxHolds, CbPc
<1>23. CASE Resubmit
  BY <1>23, EndpointFacts DEF Resubmit, CbReturn, Unclaimed, rxVars, connVars, retVars,
      Ownership, FreshInv, RxInv, CbInv, OutcomeInv, NoAnswerWhileOwned, Answered,
      Control, TypeOK, Loop, SessionInv, RxHolds, CbPc
<1>24. CASE ResubmitFailed
  BY <1>24, EndpointFacts DEF ResubmitFailed, Unclaimed, rxVars, usbVars, connVars, retVars,
     Ownership, FreshInv, RxInv, CbInv, OutcomeInv, NoAnswerWhileOwned, Answered, Control,
     TypeOK, Loop, SessionInv, RxHolds, CbPc
<1>25. CASE Refuse
  BY <1>25, EndpointFacts DEF Refuse, SendSubmit, AnswerSubmit, rxVars, usbVars, connVars,
     Ownership, FreshInv, RxInv, CbInv, OutcomeInv, NoAnswerWhileOwned, Answered, Control,
     TypeOK, Loop, SessionInv, RxHolds, CbPc
<1>26. CASE Finish
  BY <1>26, EndpointFacts DEF Finish, Unclaimed, rxVars, usbVars, connVars, retVars,
      Ownership, FreshInv, RxInv, CbInv, OutcomeInv, NoAnswerWhileOwned, Answered,
      Control, TypeOK, Loop, SessionInv, RxHolds, CbPc
<1>27. CASE Reply
  BY <1>27, EndpointFacts DEF Reply, CbReturn, SendSubmit, SendUnlink, AnswerSubmit,
     AnswerUnlink, rxVars, usbVars, connVars, Ownership, FreshInv, RxInv, CbInv, OutcomeInv,
     NoAnswerWhileOwned, Answered, Control, TypeOK, Loop, SessionInv, RxHolds, CbPc
<1>28. CASE RemoveUnlink
  BY <1>28, EndpointFacts DEF RemoveUnlink, CbReturn, rxVars, usbVars, connVars, retVars,
     Ownership, FreshInv, RxInv, CbInv, OutcomeInv, NoAnswerWhileOwned, Answered, Control,
     TypeOK, Loop, SessionInv, RxHolds, CbPc
<1>29. CASE CallbackFault
  BY <1>29, EndpointFacts DEF CallbackFault, rxVars, cbVars, usbVars, connVars, retVars,
      Ownership, FreshInv, RxInv, CbInv, OutcomeInv, NoAnswerWhileOwned, Answered,
      Control, TypeOK, Loop, SessionInv, RxHolds, CbPc
<1>30. CASE Unplug
  BY <1>30, EndpointFacts DEF Unplug, rxVars, cbVars, usbVars, connVars, retVars,
      Ownership, FreshInv, RxInv, CbInv, OutcomeInv, NoAnswerWhileOwned, Answered,
      Control, TypeOK, Loop, SessionInv, RxHolds, CbPc
<1>31. ASSUME NEW s \in Connection, DestroySession(s) PROVE Ownership'
  BY <1>31, EndpointFacts DEF DestroySession, rxVars, cbVars, usbVars, retVars, Ownership,
     FreshInv, RxInv, CbInv, OutcomeInv, NoAnswerWhileOwned, Answered, Control, TypeOK, Loop,
     SessionInv, RxHolds, CbPc
<1>32. CASE UNCHANGED vars
  BY <1>32 DEF vars, Ownership, FreshInv, RxInv, CbInv, OutcomeInv, NoAnswerWhileOwned,
      Answered, Control, TypeOK, Loop, SessionInv, RxHolds, CbPc
<1>. QED
  BY <1>1, <1>2, <1>3, <1>4, <1>5, <1>6, <1>7, <1>8, <1>9, <1>10, <1>11, <1>12, <1>13, <1>14,
     <1>15, <1>16, <1>17, <1>18, <1>19, <1>20, <1>21, <1>22, <1>23, <1>24, <1>25, <1>26,
     <1>27, <1>28, <1>29, <1>30, <1>31, <1>32 DEF Next, ReceiverStep, CallbackStep, Client,
     Usb

\* An URB whose reply was queued is not in the hands of the host stack: neither the session
\* thread nor the callback answers an URB that it, or the other one, has in flight.
THEOREM NoAnswerWhileOwnedCorrect == Spec => []NoAnswerWhileOwned
<1>1. Init => Ownership BY OwnershipInit
<1>2. Control /\ Ownership /\ [Next]_vars => Ownership' BY OwnershipStep
<1>3. Ownership => NoAnswerWhileOwned BY DEF Ownership
<1>. QED BY <1>1, <1>2, <1>3, ControlCorrect, PTL DEF Spec

\* An URB has at most one owner among the session thread, the host stack and the callback,
\* and is not answered while it has one.
THEOREM OwnershipCorrect == Spec => []Ownership
<1>1. Init => Ownership BY OwnershipInit
<1>2. Control /\ Ownership /\ [Next]_vars => Ownership' BY OwnershipStep
<1>. QED BY <1>1, <1>2, ControlCorrect, PTL DEF Spec

-----------------------------------------------------------------------------
(* Slots.                                                                  *)

\* A tracker slot is cleared with its connection.
TrackerInv ==
  hasDevice /\ rxPc \in {"none", "attached", "unset", "close"} => tracked = {}

Slots == TrackerInv /\ SlotsReturned

LEMMA SlotsInit == Init => Slots
BY DEF Init, Slots, TrackerInv, SlotsReturned

LEMMA SlotsStep ==
  ASSUME Control, Ownership, Slots, [Next]_vars PROVE Slots'
<1>1. CASE Connect
  BY <1>1, EndpointFacts DEF Connect, RxGoto, cbVars, usbVars, retVars, Slots,
      TrackerInv, SlotsReturned, Ownership, FreshInv, RxInv, CbInv,
      Control, TypeOK, Loop, SessionInv, RxHolds, Stopped
<1>2. CASE ClearStop
  BY <1>2, EndpointFacts DEF ClearStop, RxGoto, cbVars, usbVars, retVars, Slots,
      TrackerInv, SlotsReturned, Ownership, FreshInv, RxInv, CbInv,
      Control, TypeOK, Loop, SessionInv, RxHolds, Stopped
<1>3. CASE OpenChannel
  BY <1>3, EndpointFacts DEF OpenChannel, RxReturn, cbVars, usbVars, retVars, Slots,
      TrackerInv, SlotsReturned, Ownership, FreshInv, RxInv, CbInv,
      Control, TypeOK, Loop, SessionInv, RxHolds, Stopped
<1>4. ASSUME NEW u \in URB, ReceiveSubmit(u) PROVE Slots'
  BY <1>4, EndpointFacts DEF ReceiveSubmit, RxLeave, CancelAll, cbVars, usbVars,
      connVars, retVars, Slots, TrackerInv, SlotsReturned,
      Ownership, FreshInv, RxInv, CbInv, Control, TypeOK, Loop, SessionInv, RxHolds,
      Stopped
<1>5. ASSUME NEW u \in URB, UnknownEndpoint(u) PROVE Slots'
  BY <1>5, EndpointFacts DEF UnknownEndpoint, RxAbort, RxReturn, AnswerSubmit, cbVars,
      usbVars, connVars, Slots, TrackerInv, SlotsReturned, Ownership,
      FreshInv, RxInv, CbInv, Control, TypeOK, Loop, SessionInv, RxHolds, Stopped
<1>6. CASE Alloc
  BY <1>6, EndpointFacts DEF Alloc, RxGoto, RxReturn, RxLeave, RxAbort, cbVars, usbVars,
      connVars, retVars, Slots, TrackerInv, SlotsReturned, Ownership,
      FreshInv, RxInv, CbInv, Control, TypeOK, Loop, SessionInv, RxHolds, Stopped
<1>7. CASE Register
  BY <1>7, EndpointFacts DEF Register, RxGoto, RxReturn, AnswerSubmit, cbVars, usbVars,
      connVars, retVars, Slots, TrackerInv, SlotsReturned,
      Ownership, FreshInv, RxInv, CbInv, Control, TypeOK, Loop, SessionInv, RxHolds,
      Stopped
<1>8. CASE Submit
  BY <1>8, EndpointFacts DEF Submit, MissesFailure, RxReturn, AnswerSubmit, cbVars, connVars,
     Slots, TrackerInv, SlotsReturned, Ownership, FreshInv, RxInv, CbInv, Control, TypeOK,
     Loop, SessionInv, RxHolds, Stopped
<1>9. ASSUME NEW u \in URB, ReceiveUnlink(u) PROVE Slots'
  BY <1>9, EndpointFacts DEF ReceiveUnlink, RxGoto, cbVars, usbVars, connVars, retVars,
      Slots, TrackerInv, SlotsReturned, Ownership, FreshInv, RxInv,
      CbInv, Control, TypeOK, Loop, SessionInv, RxHolds, Stopped
<1>10. CASE HandleUnlink
  BY <1>10, EndpointFacts DEF HandleUnlink, RxReturn, CancelAll, cbVars, usbVars,
      connVars, retVars, Slots, TrackerInv, SlotsReturned,
      Ownership, FreshInv, RxInv, CbInv, Control, TypeOK, Loop, SessionInv, RxHolds,
      Stopped
<1>11. ASSUME NEW e \in Endpoints, ClearEndpoint(e) PROVE Slots'
  BY <1>11, EndpointFacts DEF ClearEndpoint, cbVars, connVars, retVars, Slots,
      TrackerInv, SlotsReturned, Ownership, FreshInv, RxInv, CbInv,
      Control, TypeOK, Loop, SessionInv, RxHolds, Stopped
<1>12. CASE CleanTracker
  BY <1>12, EndpointFacts DEF CleanTracker, RxGoto, cbVars, usbVars, connVars, retVars,
      Slots, TrackerInv, SlotsReturned, Ownership, FreshInv, RxInv,
      CbInv, Control, TypeOK, Loop, SessionInv, RxHolds, Stopped
<1>13. CASE SocketError
  BY <1>13, EndpointFacts DEF SocketError, RxLeave, cbVars, usbVars, connVars, retVars,
      Slots, TrackerInv, SlotsReturned, Ownership, FreshInv, RxInv,
      CbInv, Control, TypeOK, Loop, SessionInv, RxHolds, Stopped
<1>14. CASE Detach
  BY <1>14, EndpointFacts DEF Detach, RxGoto, CancelAll, cbVars, usbVars, retVars,
      Slots, TrackerInv, SlotsReturned, Ownership, FreshInv, RxInv,
      CbInv, Control, TypeOK, Loop, SessionInv, RxHolds, Stopped
<1>15. CASE ClearTracker
  BY <1>15, EndpointFacts DEF ClearTracker, RxGoto, cbVars, usbVars, connVars, retVars,
      Slots, TrackerInv, SlotsReturned, Ownership, FreshInv, RxInv,
      CbInv, Control, TypeOK, Loop, SessionInv, RxHolds, Stopped
<1>16. CASE UnsetSession
  BY <1>16, EndpointFacts DEF UnsetSession, RxGoto, cbVars, usbVars, retVars, Slots,
      TrackerInv, SlotsReturned, Ownership, FreshInv, RxInv, CbInv,
      Control, TypeOK, Loop, SessionInv, RxHolds, Stopped
<1>17. CASE CloseChannel
  BY <1>17, EndpointFacts DEF CloseChannel, RxGoto, cbVars, usbVars, retVars, Slots,
      TrackerInv, SlotsReturned, Ownership, FreshInv, RxInv, CbInv,
      Control, TypeOK, Loop, SessionInv, RxHolds, Stopped
<1>18. ASSUME NEW u \in URB, CallbackStart(u) PROVE Slots'
  BY <1>18, EndpointFacts DEF CallbackStart, rxVars, cbVars, connVars, retVars, Slots,
      TrackerInv, SlotsReturned, Ownership, FreshInv, RxInv, CbInv,
      Control, TypeOK, Loop, SessionInv, RxHolds, Stopped
<1>19. ASSUME NEW u \in URB, CallbackOnFreedArgs(u) PROVE Slots'
  BY <1>19, EndpointFacts DEF CallbackOnFreedArgs, rxVars, cbVars, usbVars, connVars,
      retVars, Slots, TrackerInv, SlotsReturned, Ownership,
      FreshInv, RxInv, CbInv, Control, TypeOK, Loop, SessionInv, RxHolds, Stopped
<1>20. CASE Untrack
  BY <1>20, EndpointFacts DEF Untrack, rxVars, usbVars, connVars, retVars, Slots, TrackerInv,
     SlotsReturned, Ownership, FreshInv, RxInv, CbInv, Control, TypeOK, Loop, SessionInv,
     RxHolds, Stopped
<1>21. CASE LoadSession
  BY <1>21, EndpointFacts DEF LoadSession, rxVars, usbVars, connVars, retVars, Slots,
     TrackerInv, SlotsReturned, Ownership, FreshInv, RxInv, CbInv, Control, TypeOK, Loop,
     SessionInv, RxHolds, Stopped
<1>22. CASE Lookup
  BY <1>22, EndpointFacts DEF Lookup, rxVars, usbVars, connVars, retVars, Slots, TrackerInv,
     SlotsReturned, Ownership, FreshInv, RxInv, CbInv, Control, TypeOK, Loop, SessionInv,
     RxHolds, Stopped
<1>23. CASE Resubmit
  BY <1>23, EndpointFacts DEF Resubmit, CbReturn, Unclaimed, rxVars, connVars, retVars,
      Slots, TrackerInv, SlotsReturned, Ownership, FreshInv, RxInv,
      CbInv, Control, TypeOK, Loop, SessionInv, RxHolds, Stopped
<1>24. CASE ResubmitFailed
  BY <1>24, EndpointFacts DEF ResubmitFailed, Unclaimed, rxVars, usbVars, connVars, retVars,
     Slots, TrackerInv, SlotsReturned, Ownership, FreshInv, RxInv, CbInv, Control, TypeOK,
     Loop, SessionInv, RxHolds, Stopped
<1>25. CASE Refuse
  BY <1>25, EndpointFacts DEF Refuse, rxVars, usbVars, connVars, Slots, TrackerInv,
     SlotsReturned, Ownership, FreshInv, RxInv, CbInv, Control, TypeOK, Loop, SessionInv,
     RxHolds, Stopped
<1>26. CASE Finish
  BY <1>26, EndpointFacts DEF Finish, Unclaimed, rxVars, usbVars, connVars, retVars,
      Slots, TrackerInv, SlotsReturned, Ownership, FreshInv, RxInv,
      CbInv, Control, TypeOK, Loop, SessionInv, RxHolds, Stopped
<1>27. CASE Reply
  BY <1>27, EndpointFacts DEF Reply, CbReturn, rxVars, usbVars, connVars, Slots, TrackerInv,
     SlotsReturned, Ownership, FreshInv, RxInv, CbInv, Control, TypeOK, Loop, SessionInv,
     RxHolds, Stopped
<1>28. CASE RemoveUnlink
  BY <1>28, EndpointFacts DEF RemoveUnlink, CbReturn, rxVars, usbVars, connVars, retVars,
     Slots, TrackerInv, SlotsReturned, Ownership, FreshInv, RxInv, CbInv, Control, TypeOK,
     Loop, SessionInv, RxHolds, Stopped
<1>29. CASE CallbackFault
  BY <1>29, EndpointFacts DEF CallbackFault, rxVars, cbVars, usbVars, connVars, retVars,
      Slots, TrackerInv, SlotsReturned, Ownership, FreshInv, RxInv,
      CbInv, Control, TypeOK, Loop, SessionInv, RxHolds, Stopped
<1>30. CASE Unplug
  BY <1>30, EndpointFacts DEF Unplug, rxVars, cbVars, usbVars, connVars, retVars, Slots,
      TrackerInv, SlotsReturned, Ownership, FreshInv, RxInv, CbInv,
      Control, TypeOK, Loop, SessionInv, RxHolds, Stopped
<1>31. ASSUME NEW s \in Connection, DestroySession(s) PROVE Slots'
  BY <1>31, EndpointFacts DEF DestroySession, rxVars, cbVars, usbVars, retVars, Slots,
     TrackerInv, SlotsReturned, Ownership, FreshInv, RxInv, CbInv, Control, TypeOK, Loop,
     SessionInv, RxHolds, Stopped
<1>32. CASE UNCHANGED vars
  BY <1>32 DEF vars, Slots, TrackerInv, SlotsReturned, Ownership,
      FreshInv, RxInv, CbInv, Control, TypeOK, Loop, SessionInv, RxHolds, Stopped
<1>. QED
  BY <1>1, <1>2, <1>3, <1>4, <1>5, <1>6, <1>7, <1>8, <1>9, <1>10, <1>11, <1>12, <1>13, <1>14,
     <1>15, <1>16, <1>17, <1>18, <1>19, <1>20, <1>21, <1>22, <1>23, <1>24, <1>25, <1>26,
     <1>27, <1>28, <1>29, <1>30, <1>31, <1>32 DEF Next, ReceiverStep, CallbackStep, Client,
     Usb

\* The slots of the tracker follow the owners of their URBs.
THEOREM SlotsCorrect == Spec => []Slots
<1>1. Init => Slots BY SlotsInit
<1>2. Control /\ Ownership /\ Slots /\ [Next]_vars => Slots' BY SlotsStep
<1>. QED BY <1>1, <1>2, ControlCorrect, OwnershipCorrect, PTL DEF Spec

\* While a device is attached and its connection lives, no slot of the tracker is lost, and
\* none survives the connection it was taken in.
THEOREM SlotsReturnedCorrect == Spec => []SlotsReturned
BY SlotsCorrect, PTL DEF Slots

-----------------------------------------------------------------------------
(* Sessions.                                                               *)

\* The channel of a Session is there once its receiver runs, and closed or destroyed only
\* when on_disconnection has reset the pointer or an exception ended the receiver.
ChannelInv ==
  \A s \in Connection :
    /\ channel[s] = "null" <=> s > conn \/ (s = conn /\ rxPc \in {"attached", "opening"})
    /\ channel[s] \in {"closed", "destroyed"} => Left(s) \/ (s = conn /\ rxPc = "aborted")

\* The Session the callback is about to use is that of its URB or a later one; a null
\* pointer was loaded after on_disconnection of the URB's own connection.
HeldInv ==
  cbPc \in {"find", "refuse", "send", "remove"} =>
    IF cbSession = 0 THEN Left(home[cbUrb])
    ELSE home[cbUrb] <= cbSession /\ cbSession <= conn

Sessions == ChannelInv /\ HeldInv

LEMMA SessionsInit == Init => Sessions
BY EndpointFacts DEF Init, Sessions, ChannelInv, HeldInv, Connection, Left

\* Apart from the steps that open and close a connection, a step leaves the Sessions alone,
\* and the receiver within its loop.
Elsewhere ==
  /\ UNCHANGED <<conn, session, channel>>
  /\ \/ rxPc' = rxPc
     \/ /\ rxPc \notin {"none", "attached", "opening", "close", "aborted"}
        /\ rxPc' \notin {"none", "attached", "opening", "close"}

LEMMA Motion ==
  ASSUME Control, [Next]_vars
  PROVE  \/ Connect \/ ClearStop \/ OpenChannel \/ UnsetSession \/ CloseChannel
         \/ Detach \/ (\E s \in Connection : DestroySession(s)) \/ Elsewhere
<1>1. ASSUME NEW u \in URB, ReceiveSubmit(u) \/ UnknownEndpoint(u) \/ ReceiveUnlink(u)
      PROVE  Elsewhere
  BY <1>1 DEF ReceiveSubmit, UnknownEndpoint, ReceiveUnlink, RxLeave, RxReturn, RxAbort,
     RxGoto, CancelAll, connVars, Elsewhere
<1>2. ASSUME Alloc \/ Register \/ Submit \/ HandleUnlink \/ CleanTracker \/ ClearTracker
             \/ SocketError
      PROVE  Elsewhere
  BY <1>2 DEF Alloc, Register, Submit, HandleUnlink, CleanTracker, ClearTracker, SocketError,
     RxLeave, RxReturn, RxAbort, RxGoto, CancelAll, connVars, Elsewhere
<1>3. ASSUME NEW e \in Endpoints, ClearEndpoint(e) PROVE Elsewhere
  BY <1>3 DEF ClearEndpoint, connVars, Elsewhere, Control, TypeOK
<1>4. ASSUME \/ Untrack \/ LoadSession \/ Lookup \/ Resubmit \/ ResubmitFailed \/ Refuse
             \/ Finish \/ Reply \/ RemoveUnlink \/ CallbackFault \/ Unplug
             \/ \E u \in URB : CallbackStart(u) \/ CallbackOnFreedArgs(u)
      PROVE  Elsewhere
  BY <1>4 DEF Untrack, LoadSession, Lookup, Resubmit, ResubmitFailed, Refuse, Finish, Reply,
     RemoveUnlink, CallbackFault, Unplug, CallbackStart, CallbackOnFreedArgs, connVars,
     rxVars, Elsewhere
<1>5. CASE UNCHANGED vars
  BY <1>5 DEF vars, Elsewhere
<1>. QED
  BY <1>1, <1>2, <1>3, <1>4, <1>5 DEF Next, ReceiverStep, CallbackStep, Client, Usb

\* The steps of the session thread, the client and the plug leave the callback alone, and
\* an URB keeps the connection that brought it.
Outside ==
  UNCHANGED cbVars /\ UNCHANGED fault /\ \A u \in URB : home[u] > 0 => home'[u] = home[u]

LEMMA OutsideSteps ==
  ASSUME Control, [Next]_vars
  PROVE  \/ Outside \/ CallbackStep \/ \E u \in URB : CallbackStart(u) \/ CallbackOnFreedArgs(u)
<1>1. ASSUME NEW u \in URB, ReceiveSubmit(u) \/ UnknownEndpoint(u) PROVE Outside
  BY <1>1 DEF ReceiveSubmit, UnknownEndpoint, Outside, Control, TypeOK
<1>2. ASSUME NEW u \in URB, ReceiveUnlink(u) PROVE Outside
  BY <1>2 DEF ReceiveUnlink, Outside
<1>3. ASSUME ReceiverStep \/ Connect \/ SocketError \/ Unplug PROVE Outside
  BY <1>3 DEF ReceiverStep, Connect, ClearStop, OpenChannel, Alloc, Register, Submit,
     HandleUnlink, ClearEndpoint, CleanTracker, SocketError, Detach, ClearTracker,
     UnsetSession, CloseChannel, Unplug, Outside
<1>4. ASSUME NEW s \in Connection, DestroySession(s) PROVE Outside
  BY <1>4 DEF DestroySession, Outside
<1>5. CASE UNCHANGED vars
  BY <1>5 DEF vars, cbVars, Outside
<1>. QED
  BY <1>1, <1>2, <1>3, <1>4, <1>5 DEF Next, Client, Usb

\* What has left stays behind.
LEMMA LeftStable ==
  ASSUME Control, [Next]_vars, NEW s \in Nat, Left(s) PROVE Left(s)'
<1>1. conn \in Nat /\ conn < conn + 1
  BY EndpointFacts DEF Control, TypeOK
<1>2. CASE Connect
  BY <1>1, <1>2 DEF Connect, Left
<1>3. CASE ClearStop \/ OpenChannel \/ UnsetSession \/ Detach
  BY <1>3 DEF ClearStop, OpenChannel, UnsetSession, Detach, Left
<1>4. CASE CloseChannel
  BY <1>4 DEF CloseChannel, RxGoto, Left
<1>5. CASE \E c \in Connection : DestroySession(c)
  BY <1>5 DEF DestroySession, rxVars, Left
<1>6. CASE Elsewhere
  BY <1>6 DEF Elsewhere, Left
<1>. QED
  BY <1>2, <1>3, <1>4, <1>5, <1>6, Motion

LEMMA ChannelStep ==
  ASSUME Control, ChannelInv, [Next]_vars PROVE ChannelInv'
<1>1. conn \in Nat /\ Connection \subseteq Nat /\ channel \in [Connection -> Channel]
  BY EndpointFacts DEF Control, TypeOK, Connection
<1>2. CASE Connect
  BY <1>1, <1>2 DEF Connect, RxGoto, ChannelInv, Left
<1>3. CASE ClearStop \/ UnsetSession \/ Detach
  BY <1>1, <1>3 DEF ClearStop, UnsetSession, Detach, CancelAll, RxGoto, ChannelInv, Left
<1>4. CASE OpenChannel
  BY <1>1, <1>4 DEF OpenChannel, RxReturn, ChannelInv, Left
<1>5. CASE CloseChannel
  BY <1>1, <1>5 DEF CloseChannel, RxGoto, ChannelInv, Left
<1>6. ASSUME NEW s \in Connection, DestroySession(s) PROVE ChannelInv'
  BY <1>1, <1>6 DEF DestroySession, rxVars, ChannelInv, Left
<1>7. CASE Elsewhere
  BY <1>1, <1>7 DEF Elsewhere, ChannelInv, Left
<1>. QED
  BY <1>2, <1>3, <1>4, <1>5, <1>6, <1>7, Motion

LEMMA HeldStep ==
  ASSUME Control, Ownership, HeldInv, [Next]_vars PROVE HeldInv'
<1>1. /\ conn \in Nat /\ conn' \in Nat /\ conn <= conn' /\ cbSession \in Nat
      /\ \A u \in URB : home[u] \in Nat
  <2>1. TypeOK /\ TypeOK'
    BY ControlStep DEF Control
  <2>2. CASE Connect
    BY <2>1, <2>2, EndpointFacts DEF Connect, TypeOK
  <2>3. CASE ~Connect
    <3>1. conn' = conn
      BY <2>3, Motion DEF ClearStop, OpenChannel, UnsetSession, CloseChannel, Detach,
         DestroySession, Elsewhere
    <3>. QED BY <2>1, <3>1, EndpointFacts DEF TypeOK
  <2>. QED BY <2>2, <2>3
<1>2. ASSUME UNCHANGED <<cbPc, cbUrb, cbSession>>,
             \A u \in URB : home[u] > 0 => home'[u] = home[u]
      PROVE  HeldInv'
  <2>1. cbPc # "idle" => cbUrb \in URB /\ home[cbUrb] > 0
    BY <1>1 DEF Ownership, CbInv, FreshInv
  <2>2. cbPc # "idle" => home'[cbUrb'] = home[cbUrb]
    BY <1>2, <2>1
  <2>3. Left(home[cbUrb]) /\ cbPc # "idle" => Left(home[cbUrb])'
    <3>1. SUFFICES ASSUME Left(home[cbUrb]), cbPc # "idle" PROVE Left(home[cbUrb])'
      OBVIOUS
    <3>2. PICK h \in Nat : h = home[cbUrb]
      BY <1>1, <2>1, <3>1
    <3>3. Left(h)'
      BY <3>1, <3>2, LeftStable
    <3>. QED BY <2>2, <3>1, <3>2, <3>3 DEF Left
  <2>4. CASE cbPc \in {"find", "refuse", "send", "remove"}
    BY <1>1, <1>2, <2>1, <2>2, <2>3, <2>4 DEF HeldInv
  <2>. QED BY <1>2, <2>4 DEF HeldInv
<1>3. CASE LoadSession \/ ResubmitFailed
  <2>1. /\ cbSession' = session /\ UNCHANGED <<home, cbUrb, conn, rxPc>> /\ cbUrb \in URB
    BY <1>3 DEF LoadSession, ResubmitFailed, connVars, rxVars, Ownership, CbInv
  <2>2. home[cbUrb] <= conn
    BY <2>1 DEF Ownership, FreshInv
  <2>. QED BY <1>1, <2>1, <2>2 DEF HeldInv, Left, Control, SessionInv
<1>4. CASE Untrack \/ Lookup \/ Refuse \/ Resubmit \/ Finish \/ RemoveUnlink
  BY <1>4 DEF Untrack, Lookup, Refuse, Resubmit, Finish, RemoveUnlink, CbReturn, HeldInv
<1>5. CASE Reply
  BY <1>5 DEF Reply, CbReturn, HeldInv, connVars, rxVars, Left
<1>6. ASSUME NEW u \in URB, CallbackStart(u) PROVE HeldInv'
  BY <1>2, <1>6 DEF CallbackStart, cbVars, HeldInv
<1>7. ASSUME CallbackFault \/ \E u \in URB : CallbackOnFreedArgs(u) PROVE HeldInv'
  BY <1>2, <1>7 DEF CallbackFault, CallbackOnFreedArgs, cbVars
<1>8. CASE Outside
  BY <1>2, <1>8 DEF Outside, cbVars
<1>. QED
  BY <1>3, <1>4, <1>5, <1>6, <1>7, <1>8, OutsideSteps DEF CallbackStep

-----------------------------------------------------------------------------
(* Causes.                                                                 *)

LEMMA CausesStep ==
  ASSUME Control, Ownership, Sessions, FaultCauses, Next PROVE FaultCauses'
<1>1. CASE fault' = "none"
  BY <1>1 DEF FaultCauses
<1>2. ASSUME NEW u \in URB, CallbackOnFreedArgs(u) PROVE FaultCauses'
  BY <1>2 DEF CallbackOnFreedArgs, usbVars, FaultCauses, Ownership, CbInv
<1>3. CASE CallbackFault
  <2>1. /\ UNCHANGED <<home, cbUrb, cbSession, conn, session, rxPc>>
        /\ cbPc \in {"find", "refuse", "send", "remove"}
    BY <1>3 DEF CallbackFault, cbVars, connVars, rxVars
  <2>2. /\ cbUrb \in URB /\ home[cbUrb] \in Nat /\ cbSession \in Nat /\ conn \in Nat
        /\ session = IF rxPc \in {"none", "close"} THEN 0 ELSE conn
        /\ cbSession # 0 => cbSession \in Connection
    BY <2>1, EndpointFacts DEF Control, TypeOK, Loop, SessionInv, Connection
  <2>3. fault' \in {SessionFault, ChannelFault}
    BY <1>3 DEF CallbackFault
  <2>4. ASSUME fault' = "null_session" PROVE Left(home[cbUrb])'
    BY <2>1, <2>3, <2>4 DEF SessionFault, ChannelFault, Sessions, HeldInv, Left
  <2>5. ASSUME fault' = "dangling_session"
        PROVE  rxPc = "aborted" \/ (Left(home[cbUrb]) /\ cbSession # session)
    <3>1. cbSession # 0 /\ channel[cbSession] = "destroyed"
      BY <2>3, <2>5 DEF SessionFault, ChannelFault
    <3>2. Left(cbSession) \/ rxPc = "aborted"
      BY <2>2, <3>1 DEF Sessions, ChannelInv
    <3>3. home[cbUrb] <= cbSession /\ cbSession <= conn
      BY <2>1, <3>1 DEF Sessions, HeldInv
    <3>. QED BY <2>2, <3>1, <3>2, <3>3 DEF Left
  <2>6. ASSUME fault' = "null_channel"
        PROVE  home[cbUrb] < conn /\ cbSession = conn /\ rxPc \in {"attached", "opening"}
    <3>1. cbSession # 0 /\ channel[cbSession] = "null"
      BY <2>3, <2>6 DEF SessionFault, ChannelFault
    <3>2. cbSession = conn /\ rxPc \in {"attached", "opening"}
      BY <2>1, <2>2, <3>1 DEF Sessions, ChannelInv, HeldInv
    <3>. QED BY <2>2, <3>2 DEF Ownership, FreshInv
  <2>7. fault' # "freed_args"
    BY <2>3 DEF SessionFault, ChannelFault
  <2>. QED
    BY <2>1, <2>4, <2>5, <2>6, <2>7 DEF FaultCauses, Left
<1>. QED
  <2>1. UNCHANGED fault => fault' = "none"
    BY DEF Next
  <2>. QED
    BY <1>1, <1>2, <1>3, <2>1, OutsideSteps DEF Outside, CallbackStep, Untrack, LoadSession,
       Lookup, Resubmit, ResubmitFailed, Refuse, Finish, Reply, RemoveUnlink, CallbackStart

\* What must have happened before the program leaves defined behaviour.
THEOREM FaultCausesCorrect == Spec => []FaultCauses
<1>1. Init => Sessions /\ FaultCauses
  BY SessionsInit DEF Init, FaultCauses
<1>2. Control /\ Ownership /\ Sessions /\ [Next]_vars => Sessions'
  BY ChannelStep, HeldStep DEF Sessions
<1>3. Control /\ Ownership /\ Sessions /\ FaultCauses /\ Next => FaultCauses'
  BY CausesStep
<1>4. FaultCauses /\ UNCHANGED vars => FaultCauses'
  BY DEF vars, FaultCauses, Left
<1>. QED BY <1>1, <1>2, <1>3, <1>4, ControlCorrect, OwnershipCorrect, PTL DEF Spec

-----------------------------------------------------------------------------
(* The contract.                                                           *)

LEMMA ContractInit == Init => Contract!Init
BY DEF Init, Contract!Init, Outcome

\* An action that touches neither the arrival of an URB nor its replies is a stutter.
LEMMA OutcomeStutter ==
  ASSUME UNCHANGED <<home, retSubmit, retUnlink>> PROVE Outcome' = Outcome
BY DEF Outcome

\* An action that concerns one URB leaves the outcomes of the others alone.
LEMMA OutcomeChange ==
  ASSUME NEW u \in URB, NEW v, (Outcome[u])' = v,
         \A w \in URB \ {u} : /\ home'[w] = home[w]
                              /\ retSubmit'[w] = retSubmit[w]
                              /\ retUnlink'[w] = retUnlink[w]
  PROVE  Outcome' = [Outcome EXCEPT ![u] = v]
<1>1. \A w \in URB \ {u} : (Outcome[w])' = Outcome[w]
  BY DEF Outcome
<1>2. /\ DOMAIN Outcome = URB /\ (DOMAIN Outcome)' = URB
      /\ Outcome = [w \in URB |-> Outcome[w]] /\ (Outcome = [w \in URB |-> Outcome[w]])'
  BY DEF Outcome
<1>. QED BY <1>1, <1>2

\* An URB arrives, and may be refused at once.
LEMMA Arrival ==
  ASSUME TypeOK, NEW u \in URB, home[u] = 0, conn > 0, UNCHANGED retUnlink,
         home' = [home EXCEPT ![u] = conn], retUnlink[u] = 0, retSubmit[u] = 0,
         UNCHANGED asked
  PROVE  /\ UNCHANGED retSubmit => Contract!Accept(u)
         /\ AnswerSubmit(u) => Contract!Refuse(u)
<1>1. ASSUME UNCHANGED retSubmit PROVE Contract!Accept(u)
  <2>1. Outcome' = [Outcome EXCEPT ![u] = "pending"]
    <3>1. (Outcome[u])' = "pending"
      BY <1>1 DEF Outcome, TypeOK
    <3>. QED BY <1>1, <3>1, OutcomeChange DEF TypeOK
  <2>2. Outcome[u] = "new"
    BY DEF Outcome
  <2>. QED BY <2>1, <2>2 DEF Contract!Accept, Contract!Step
<1>2. ASSUME AnswerSubmit(u) PROVE Contract!Refuse(u)
  <2>1. Outcome' = [Outcome EXCEPT ![u] = "done"]
    <3>1. (Outcome[u])' = "done"
      BY <1>2 DEF Outcome, TypeOK, AnswerSubmit
    <3>. QED BY <1>2, <3>1, OutcomeChange DEF TypeOK, AnswerSubmit
  <2>2. Outcome[u] = "new"
    BY DEF Outcome
  <2>. QED BY <2>1, <2>2 DEF Contract!Refuse, Contract!Step
<1>. QED BY <1>1, <1>2

\* A RET_SUBMIT completes a pending URB; a second one changes nothing.
LEMMA Completion ==
  ASSUME TypeOK, NEW u \in URB, home[u] > 0, retUnlink[u] = 0, AnswerSubmit(u),
         UNCHANGED <<home, retUnlink, asked>>
  PROVE  Contract!Complete(u) \/ Outcome' = Outcome
<1>1. CASE retSubmit[u] = 0
  <2>1. Outcome' = [Outcome EXCEPT ![u] = "done"]
    <3>1. (Outcome[u])' = "done"
      BY <1>1 DEF Outcome, TypeOK, AnswerSubmit
    <3>. QED BY <1>1, <3>1, OutcomeChange DEF TypeOK, AnswerSubmit
  <2>2. Outcome[u] = "pending"
    BY <1>1 DEF Outcome
  <2>. QED BY <2>1, <2>2 DEF Contract!Complete, Contract!Step
<1>2. CASE retSubmit[u] > 0
  <2>1. (Outcome[u])' = Outcome[u]
    BY <1>2 DEF Outcome, TypeOK, AnswerSubmit
  <2>2. Outcome' = [Outcome EXCEPT ![u] = Outcome[u]]
    BY <2>1, OutcomeChange DEF TypeOK, AnswerSubmit
  <2>. QED BY <2>2 DEF Outcome
<1>. QED BY <1>1, <1>2 DEF TypeOK

\* A RET_UNLINK ends an URB the client asked to unlink and that has no outcome yet.
LEMMA Unlinking ==
  ASSUME TypeOK, NEW u \in URB, home[u] > 0, u \in asked,
         retSubmit[u] = 0, retUnlink[u] = 0, AnswerUnlink(u),
         UNCHANGED <<home, retSubmit, asked>>
  PROVE  Contract!Unlink(u)
<1>1. Outcome' = [Outcome EXCEPT ![u] = "unlinked"]
  <2>1. (Outcome[u])' = "unlinked"
    BY DEF Outcome, TypeOK, AnswerUnlink
  <2>. QED BY <2>1, OutcomeChange DEF TypeOK, AnswerUnlink
<1>2. Outcome[u] = "pending"
  BY DEF Outcome
<1>. QED BY <1>1, <1>2 DEF Contract!Unlink, Contract!Step

LEMMA ContractStep ==
  ASSUME Control, Ownership, [Next]_vars
  PROVE  [Contract!Next]_<<Outcome, asked>>
<1> DEFINE Same == UNCHANGED <<Outcome, asked>>
<1>1. ASSUME UNCHANGED <<home, retSubmit, retUnlink, asked>> PROVE Same
  BY <1>1, OutcomeStutter
<1>2. ASSUME NEW u \in URB, ReceiveSubmit(u) PROVE Contract!Accept(u)
  <2>1. conn > 0 /\ retSubmit[u] = 0 /\ retUnlink[u] = 0 /\ home[u] = 0
    BY <1>2 DEF ReceiveSubmit, Control, SessionInv, Ownership, FreshInv
  <2>. QED BY <1>2, <2>1, Arrival DEF ReceiveSubmit, retVars, Control
<1>3. ASSUME NEW u \in URB, UnknownEndpoint(u)
      PROVE  Contract!Accept(u) \/ Contract!Refuse(u)
  <2>1. conn > 0 /\ retSubmit[u] = 0 /\ retUnlink[u] = 0 /\ home[u] = 0
    BY <1>3 DEF UnknownEndpoint, Control, SessionInv, Ownership, FreshInv
  <2>. QED BY <1>3, <2>1, Arrival DEF UnknownEndpoint, Control
<1>4. ASSUME NEW u \in URB, ReceiveUnlink(u) PROVE Contract!Ask(u)
  <2>1. conn > 0
    BY <1>4 DEF ReceiveUnlink, Control, SessionInv
  <2>2. Outcome[u] # "new"
    BY <1>4, <2>1 DEF Outcome, ReceiveUnlink, Control, TypeOK
  <2>3. Outcome' = Outcome
    BY <1>4 DEF ReceiveUnlink, retVars, Outcome
  <2>. QED BY <1>4, <2>2, <2>3 DEF ReceiveUnlink, Contract!Ask
<1>5. CASE Register
  <2>1. rxUrb \in URB /\ home[rxUrb] > 0 /\ retUnlink[rxUrb] = 0
    BY <1>5 DEF Register, Control, SessionInv, Ownership, RxInv, RxHolds
  <2>2. CASE UNCHANGED retVars
    BY <1>5, <2>2, <1>1 DEF Register, retVars
  <2>3. CASE AnswerSubmit(rxUrb) /\ UNCHANGED retUnlink
    BY <1>5, <2>1, <2>3, Completion DEF Register, Control, Contract!Next
  <2>. QED BY <1>5, <2>2, <2>3 DEF Register
<1>6. CASE Submit
  <2>1. rxUrb \in URB /\ home[rxUrb] > 0 /\ retUnlink[rxUrb] = 0
    BY <1>6 DEF Submit, Control, SessionInv, Ownership, RxInv, RxHolds
  <2>2. CASE UNCHANGED retSubmit
    BY <1>6, <2>2, <1>1 DEF Submit
  <2>3. CASE AnswerSubmit(rxUrb)
    BY <1>6, <2>1, <2>3, Completion DEF Submit, Control, Contract!Next
  <2>. QED BY <1>6, <2>2, <2>3 DEF Submit
<1>7. ASSUME cbPc \notin {"idle", "remove"}
      PROVE  cbUrb \in URB /\ home[cbUrb] > 0 /\ retUnlink[cbUrb] = 0
  BY <1>7 DEF Control, TypeOK, Ownership, FreshInv, CbInv
<1>8. CASE Refuse
  <2>1. CASE AnswerSubmit(cbUrb)
    BY <1>8, <1>7, <2>1, Completion DEF Refuse, Control, Contract!Next
  <2>2. CASE UNCHANGED retSubmit
    BY <1>8, <1>1, <2>2 DEF Refuse
  <2>. QED BY <1>8, <2>1, <2>2 DEF Refuse, SendSubmit
<1>9. CASE Reply
  <2>1. retUnlink[cbUrb] = 0 /\ cbUrb \in URB /\ home[cbUrb] > 0
    BY <1>9, <1>7 DEF Reply
  <2>2. CASE UNCHANGED retVars
    BY <1>9, <1>1, <2>2 DEF Reply, retVars
  <2>3. CASE cbUnlinked /\ AnswerUnlink(cbUrb) /\ UNCHANGED retSubmit
    <3>1. cbUrb \in asked /\ retSubmit[cbUrb] = 0
      BY <1>9, <2>3 DEF Reply, Control, TypeOK, Ownership, CbInv
    <3>. QED BY <1>9, <2>1, <2>3, <3>1, Unlinking DEF Reply, Control, Contract!Next
  <2>4. CASE AnswerSubmit(cbUrb) /\ UNCHANGED retUnlink
    BY <1>9, <2>1, <2>4, Completion DEF Reply, Control, Contract!Next
  <2>. QED BY <1>9, <2>2, <2>3, <2>4 DEF Reply, SendSubmit, SendUnlink, retVars
<1>10. CASE ClearStop \/ OpenChannel \/ Alloc \/ HandleUnlink \/ CleanTracker \/ Detach
           \/ ClearTracker \/ UnsetSession \/ CloseChannel \/ Connect \/ SocketError
           \/ (\E e \in Endpoints : ClearEndpoint(e))
           \/ (\E s \in Connection : DestroySession(s))
  BY <1>10, <1>1 DEF ClearStop, OpenChannel, Alloc, HandleUnlink, CleanTracker, Detach,
     ClearTracker, UnsetSession, CloseChannel, Connect, SocketError, ClearEndpoint,
     DestroySession, retVars
<1>11. CASE Untrack \/ LoadSession \/ Lookup \/ Resubmit \/ ResubmitFailed \/ Finish
            \/ RemoveUnlink \/ CallbackFault \/ Unplug
            \/ \E u \in URB : CallbackStart(u) \/ CallbackOnFreedArgs(u)
  BY <1>11, <1>1 DEF Untrack, LoadSession, Lookup, Resubmit, ResubmitFailed, Finish,
     RemoveUnlink, CallbackFault, Unplug, CallbackStart, CallbackOnFreedArgs, retVars
<1>12. CASE UNCHANGED vars
  BY <1>12, <1>1 DEF vars
<1>. QED
  BY <1>2, <1>3, <1>4, <1>5, <1>6, <1>8, <1>9, <1>10, <1>11, <1>12
  DEF Next, ReceiverStep, CallbackStep, Client, Usb, Contract!Next

\* The lifecycle implements the contract: no interleaving of the two threads, of
\* reconnections and of an unplug gives an URB two outcomes, or reports an URB unlinked
\* that nobody asked to unlink.
THEOREM ContractCorrect == Spec => MeetsContract
<1>1. Init => Contract!Init BY ContractInit
<1>2. Control /\ Ownership /\ [Next]_vars => [Contract!Next]_<<Outcome, asked>>
  BY ContractStep
<1>. QED BY <1>1, <1>2, ControlCorrect, OwnershipCorrect, PTL
         DEF Spec, MeetsContract, Contract!Spec

=============================================================================
