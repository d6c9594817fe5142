--------------------------- MODULE TrackerContract ---------------------------
(***************************************************************************)
(* What the transfer tracker is to its callers, as UrbLifecycle takes it:  *)
(* one set of at most MaxConcurrent transfers.  A transfer enters only     *)
(* while there is room; transfers leave in any groups.                     *)
(***************************************************************************)
EXTENDS Integers, FiniteSets

CONSTANTS URB, MaxConcurrent
VARIABLE tracked

Init == tracked = {}

Register(u) ==
  /\ u \notin tracked /\ Cardinality(tracked) < MaxConcurrent
  /\ tracked' = tracked \cup {u}

Remove(U) == tracked' = tracked \ U

Next == (\E u \in URB : Register(u)) \/ (\E U \in SUBSET URB : Remove(U))

Spec == Init /\ [][Next]_tracked
=============================================================================
