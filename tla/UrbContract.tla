----------------------------- MODULE UrbContract -----------------------------
(***************************************************************************)
(* What a USB/IP session promises its client about each URB, whatever the  *)
(* device, the threads and the connection do: it has at most one outcome.  *)
(* Either the URB is done, with a RET_SUBMIT, or it is unlinked, with a    *)
(* RET_UNLINK; an outcome is final, and only an URB that the client asked  *)
(* to unlink can be reported unlinked.                                     *)
(***************************************************************************)
CONSTANT URB
VARIABLES state, asked

Init == state = [u \in URB |-> "new"] /\ asked = {}

Step(u, from, to) == state[u] = from /\ state' = [state EXCEPT ![u] = to]

Accept(u)   == Step(u, "new", "pending") /\ UNCHANGED asked
Refuse(u)   == Step(u, "new", "done") /\ UNCHANGED asked
Complete(u) == Step(u, "pending", "done") /\ UNCHANGED asked
Unlink(u)   == u \in asked /\ Step(u, "pending", "unlinked") /\ UNCHANGED asked
Ask(u)      == state[u] # "new" /\ asked' = asked \cup {u} /\ UNCHANGED state

Next == \E u \in URB : Accept(u) \/ Refuse(u) \/ Complete(u) \/ Unlink(u) \/ Ask(u)

Spec == Init /\ [][Next]_<<state, asked>>
=============================================================================
