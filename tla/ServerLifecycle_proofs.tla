------------------------ MODULE ServerLifecycle_proofs ------------------------
(***************************************************************************)
(* Proofs of the safety properties of ServerLifecycle, for any number of   *)
(* connections.  The invariant ties the four kinds of threads together:    *)
(*                                                                         *)
(*   Acceptance  the place of do_accept and the number of sessions it is   *)
(*               done with say where each session's thread can be, and     *)
(*               which sessions can be in the list;                        *)
(*   Stopping    once the list was seen empty, no session that was told    *)
(*               uses the server but on its way out, and once the network  *)
(*               thread was joined it rests.                               *)
(***************************************************************************)
EXTENDS ServerLifecycle, TLAPS

\* do_accept is busy with a session that has no number among the accepted ones yet.
Busy == acc \notin {"accepting", "ended"}

\* Where the thread of session s can be.
PlaceOf(s) ==
  IF s <= accepted THEN {"serving", "leaving", "erased", "swept", "detached", "gone"}
  ELSE IF s # Current THEN {"new"}
  ELSE IF acc = "assign" THEN {"serving", "leaving", "erased", "swept"}
  ELSE IF acc = "threw" THEN {"lost"} ELSE {"new"}

\* The sessions that were added to the list.
Added(s) == s <= accepted \/ (s = Current /\ acc \notin {"accepting", "accepted", "ended"})

Acceptance ==
  /\ Busy => accepted < MaxSession
  /\ \A s \in Session : pc[s] \in PlaceOf(s)
  /\ \A s \in Session : s \in list => Added(s) /\ pc[s] \in {"new", "serving", "leaving", "lost"}
  /\ \A s \in Session : Added(s) /\ pc[s] \in {"new", "serving", "leaving"} => s \in list

\* The wait for the list to be empty is over.
Waited == stopPc \notin {"no", "waiting"}

Stopping ==
  /\ \A s \in told : Added(s)
  /\ Waited => \A s \in told : pc[s] \in {"erased", "swept", "detached", "gone", "lost"}
  /\ Waited /\ stopPc # "emptied" => ioStopped
  /\ Joined => acc \in {"accepting", "ended", "threw"}

ServerInv == TypeOK /\ Acceptance /\ Stopping

LEMMA SessionFacts ==
  /\ MaxSession \in Nat
  /\ \A s \in Session : s \in Nat /\ s > 0
  /\ \A n \in Nat : n < MaxSession => n + 1 \in Session
BY ServerAssumption DEF ServerAssumption, Session

LEMMA ServerInit == Init => ServerInv
<1> SUFFICES ASSUME Init PROVE ServerInv
  OBVIOUS
<1>1. assigned = 1 .. accepted /\ accepted \in 0 .. MaxSession
  BY SessionFacts DEF Init
<1>2. TypeOK
  BY <1>1 DEF Init, TypeOK, AccPc, Pc, StopPc
<1>3. Acceptance /\ Stopping
  BY SessionFacts DEF Init, Acceptance, Stopping, Busy, PlaceOf, Added, Waited, Joined,
     Current
<1>. QED BY <1>2, <1>3 DEF ServerInv

LEMMA ServerStep ==
  ASSUME ServerInv, [Next]_vars PROVE ServerInv'
<1> USE SessionFacts DEF ServerInv
<1>1. CASE Accept
  BY <1>1 DEF Accept, stopVars, TypeOK, Acceptance, Stopping, AccPc, Busy, PlaceOf, Added,
     Waited, Joined, Current
<1>2. CASE AddToList
  BY <1>2 DEF AddToList, stopVars, TypeOK, Acceptance, Stopping, AccPc, Busy, PlaceOf, Added,
     Waited, Joined, Current
<1>3. CASE RemoteEndpoint
  BY <1>3 DEF RemoteEndpoint, AcceptThrows, Goto, stopVars, TypeOK, Acceptance, Stopping,
     AccPc, Pc, Busy, PlaceOf, Added, Waited, Joined, Current
<1>4. CASE StartThread
  BY <1>4 DEF StartThread, AcceptThrows, Goto, stopVars, TypeOK, Acceptance, Stopping, AccPc,
     Pc, Busy, PlaceOf, Added, Waited, Joined, Current
<1>5. CASE AssignThread
  BY <1>5 DEF AssignThread, stopVars, TypeOK, Acceptance, Stopping, AccPc, Busy, PlaceOf,
     Added, Waited, Joined, Current
<1>6. ASSUME NEW s \in Session, Import(s) \/ ServeEnds(s) PROVE ServerInv'
  BY <1>6 DEF Import, ServeEnds, Goto, accVars, stopVars, TypeOK, Acceptance, Stopping, Pc,
     Busy, PlaceOf, Added, Waited, Joined, Current
<1>7. ASSUME NEW s \in Session, Erase(s) PROVE ServerInv'
  BY <1>7 DEF Erase, Without, Expired, Goto, accVars, stopVars, TypeOK, Acceptance, Stopping,
     Pc, Busy, PlaceOf, Added, Waited, Joined, Current
<1>8. ASSUME NEW s \in Session, OnSessionExit(s) \/ Detach(s) \/ Release(s)
      PROVE  ServerInv'
  BY <1>8 DEF OnSessionExit, Detach, Release, Goto, accVars, stopVars, TypeOK, Acceptance,
     Stopping, Pc, Busy, PlaceOf, Added, Waited, Joined, Current
<1>9. ASSUME NEW s \in Session, UseAfterFree(s) PROVE ServerInv'
  BY <1>9 DEF UseAfterFree, ServerFault, accVars, stopVars, TypeOK, Acceptance, Stopping,
     Busy, PlaceOf, Added, Waited, Joined, Current
<1>10. CASE TellSessions
  BY <1>10 DEF TellSessions, StopGoto, accVars, TypeOK, Acceptance, Stopping, StopPc, Busy,
     PlaceOf, Added, Waited, Joined, Current
<1>11. CASE SeesEmpty
  BY <1>11 DEF SeesEmpty, StopGoto, accVars, TypeOK, Acceptance, Stopping, StopPc, Busy,
     PlaceOf, Added, Waited, Joined, Current, Pc
<1>12. CASE StopIo \/ SetShouldStop \/ JoinNetwork
  <2>1. TypeOK'
    BY <1>12 DEF StopIo, SetShouldStop, JoinNetwork, StopGoto, accVars, TypeOK, StopPc
  <2>2. Acceptance' /\ Stopping'
    BY <1>12 DEF StopIo, SetShouldStop, JoinNetwork, StopGoto, accVars, Acceptance, Stopping,
       Busy, PlaceOf, Added, Waited, Joined, Current
  <2>. QED BY <2>1, <2>2
<1>13. CASE TellEvents \/ JoinEvents \/ Destroy
  <2>1. TypeOK'
    BY <1>13 DEF TellEvents, JoinEvents, Destroy, StopGoto, accVars, TypeOK, StopPc
  <2>2. Acceptance' /\ Stopping'
    BY <1>13 DEF TellEvents, JoinEvents, Destroy, StopGoto, accVars, Acceptance, Stopping,
       Busy, PlaceOf, Added, Waited, Joined, Current
  <2>. QED BY <2>1, <2>2
<1>14. CASE EventThreadEnds
  BY <1>14 DEF EventThreadEnds, accVars, stopVars, TypeOK, Acceptance, Stopping, Busy,
     PlaceOf, Added, Waited, Joined, Current
<1>15. CASE UNCHANGED vars
  BY <1>15 DEF vars, TypeOK, Acceptance, Stopping, Busy, PlaceOf, Added, Waited, Joined,
     Current
<1>. QED
  BY <1>1, <1>2, <1>3, <1>4, <1>5, <1>6, <1>7, <1>8, <1>9, <1>10, <1>11, <1>12, <1>13, <1>14,
     <1>15 DEF Next, NetworkStep, SessionStep, StopStep

\* The invariant holds in every reachable state.
THEOREM ServerCorrect == Spec => []ServerInv
BY ServerInit, ServerStep, PTL DEF Spec

\* Every variable keeps its type, and a session that do_accept is done with has its thread in
\* run_thread.
THEOREM TypeCorrect == Spec => []TypeOK
<1>1. ServerInv => TypeOK BY DEF ServerInv
<1>. QED BY <1>1, ServerCorrect, PTL

\* stop finds every session whose thread serves a client in the list: no session enters its
\* loop before it is listed, and no other session's sweep takes it out.
THEOREM ServingIsListedCorrect == Spec => []ServingIsListed
<1>1. ServerInv => ServingIsListed
  BY SessionFacts DEF ServerInv, TypeOK, Acceptance, ServingIsListed, PlaceOf, Added
<1>. QED BY <1>1, ServerCorrect, PTL

\* A session that was told to stop is waited for until it has left the list: past the wait,
\* the server is used only by sessions that came too late or have left the list.
THEOREM ReturnsLateCorrect == Spec => []ReturnsLate
<1>1. ServerInv => ReturnsLate
  BY DEF ServerInv, Stopping, Waited, ReturnsLate, UsesServer
<1>. QED BY <1>1, ServerCorrect, PTL

\* A thread that is terminated detached itself before do_accept kept it; a destroyed server is
\* used by a session that was not told to stop, or by one that has left the list and owes it a
\* call or the end of its channel.
THEOREM FaultCausesCorrect == Spec => []FaultCauses
<1>1. Init => FaultCauses
  BY DEF Init, FaultCauses
<1>2. ServerInv /\ FaultCauses /\ [Next]_vars => FaultCauses'
  <2>0. UNCHANGED vars /\ FaultCauses => FaultCauses'
    BY DEF vars, FaultCauses, UsesServer, Current
  <2> SUFFICES ASSUME ServerInv, Next PROVE FaultCauses'
    BY <2>0
  <2>. fault = "none"
    BY DEF Next
  <2>1. ASSUME NEW s \in Session, Detach(s) PROVE FaultCauses'
    BY <2>1, SessionFacts DEF Detach, accVars, ServerInv, TypeOK, Acceptance, PlaceOf,
       FaultCauses, Current
  <2>2. ASSUME NEW s \in Session, UseAfterFree(s) PROVE FaultCauses'
    BY <2>2 DEF UseAfterFree, UsesServer, ServerFault, stopVars, ServerInv, Stopping, Waited,
       FaultCauses
  <2>3. CASE fault' = fault
    BY <2>3 DEF FaultCauses
  <2>. QED
    BY <2>1, <2>2, <2>3
       DEF Next, Accept, NetworkStep, AddToList, RemoteEndpoint, StartThread, AssignThread,
           Import, ServeEnds, SessionStep, Erase, OnSessionExit, Release, TellSessions,
           StopStep, SeesEmpty, StopIo, SetShouldStop, JoinNetwork, TellEvents, JoinEvents,
           Destroy, EventThreadEnds
<1>. QED BY <1>1, <1>2, ServerCorrect, PTL DEF Spec

\* Once the network thread was joined, do_accept makes no step and the list only shrinks.
THEOREM NoStartAfterJoinCorrect == Spec => NoStartAfterJoin
<1>1. ServerInv /\ [Next]_vars
        => [Joined => UNCHANGED <<acc, accepted, assigned>> /\ list' \subseteq list]_vars
  <2> SUFFICES ASSUME ServerInv, Next, Joined
               PROVE  UNCHANGED <<acc, accepted, assigned>> /\ list' \subseteq list
    OBVIOUS
  <2>1. ~Accept /\ ~NetworkStep
    BY DEF Accept, NetworkStep, AddToList, RemoteEndpoint, StartThread, AssignThread, Joined,
       ServerInv, Stopping, Waited
  <2>. QED
    BY <2>1 DEF Next, Import, ServeEnds, SessionStep, Erase, Without, OnSessionExit, Detach,
       Release, UseAfterFree, TellSessions, StopStep, SeesEmpty, StopIo, SetShouldStop,
       JoinNetwork, TellEvents, JoinEvents, Destroy, EventThreadEnds, accVars
<1>. QED BY <1>1, ServerCorrect, PTL DEF Spec, NoStartAfterJoin
=============================================================================
