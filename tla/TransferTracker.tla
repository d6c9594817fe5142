--------------------------- MODULE TransferTracker ---------------------------
(***************************************************************************)
(* ConcurrentTransferTracker: the registered transfers, kept in segments   *)
(* with a lock each, and an atomic counter of all of them that is read     *)
(* without a lock.                                                         *)
(*                                                                         *)
(* An action is what a thread does between two accesses to shared state:   *)
(* taking a segment's lock is part of the first access under it, and the   *)
(* lock is kept while the change of the counter is still to come.          *)
(*                                                                         *)
(* The firmware registers and clears on one thread, the session's; the     *)
(* USB client event thread removes.                                        *)
(***************************************************************************)
EXTENDS Integers, FiniteSets

CONSTANTS
  Thread, Registrar, Clearer,  \* the threads; those that register, those that clear
  URB, segmentOf,              \* the transfers by seqnum; get_segment_index of their endpoint
  Segments,                    \* SEGMENT_COUNT
  MaxConcurrent,               \* max_concurrent_
  CounterSize,                 \* the range of size_t
  None

ASSUME TrackerAssumption ==
  /\ Registrar \subseteq Thread /\ Clearer \subseteq Thread
  /\ IsFiniteSet(URB) /\ segmentOf \in [URB -> 0 .. Segments - 1]
  /\ Segments \in Nat \ {0} /\ MaxConcurrent \in Nat
  /\ CounterSize \in Nat /\ CounterSize > Cardinality(URB)
  /\ None \notin URB \cup Thread

\* The session's thread alone registers and clears: a handler has one session at a time.
ASSUME OneCaller == \A r, c \in Registrar \cup Clearer : r = c

Segment == 0 .. Segments - 1

VARIABLES
  segments,  \* segments_
  locked,    \* segment_locks_: the thread that holds the lock across two actions
  count,     \* concurrent_transfer_count_
  pc, urb, at,  \* the threads: where, and the arguments and loop index of the call
  taken      \* the transfers this call took out of their segment and did not count yet

vars == <<segments, locked, count, pc, urb, at, taken>>

Pc == {"idle", "insert", "counted", "scan", "uncount", "clear", "reset"}

Init ==
  /\ segments = [i \in Segment |-> {}] /\ locked = [i \in Segment |-> None]
  /\ count = 0
  /\ pc = [t \in Thread |-> "idle"] /\ urb = [t \in Thread |-> None]
  /\ at = [t \in Thread |-> 0] /\ taken = [t \in Thread |-> {}]

Goto(t, p)  == pc' = [pc EXCEPT ![t] = p]
Lock(t)     == locked' = [locked EXCEPT ![at[t]] = t]
Unlock(t)   == locked' = [locked EXCEPT ![at[t]] = None]
Free(t)     == locked[at[t]] = None

-----------------------------------------------------------------------------
(* Mutants: what a definition below would be with a plausible mistake in   *)
(* the code; the checks put each in its place and expect a property to     *)
(* fail.                                                                   *)

\* The comparison with the limit is off by one.
FullLate == count > MaxConcurrent

\* remove goes one segment too far.
RemoveScanTooFar(t) ==
  /\ pc[t] = "scan" /\ Free(t)
  /\ \/ /\ urb[t] \in segments[at[t]]
        /\ segments' = [segments EXCEPT ![at[t]] = @ \ {urb[t]}]
        /\ taken' = [taken EXCEPT ![t] = {urb[t]}]
        /\ Lock(t) /\ Goto(t, "uncount")
        /\ UNCHANGED at
     \/ /\ urb[t] \notin segments[at[t]]
        /\ IF at[t] < Segments THEN at' = [at EXCEPT ![t] = @ + 1] /\ UNCHANGED pc
                               ELSE Goto(t, "idle") /\ UNCHANGED at
        /\ UNCHANGED <<segments, locked, taken>>
  /\ UNCHANGED <<count, urb>>

\* clear resets the counter before it empties the segments.
ClearStartResets(t) ==
  /\ t \in Clearer /\ pc[t] = "idle"
  /\ at' = [at EXCEPT ![t] = 0]
  /\ count' = 0
  /\ Goto(t, "clear")
  /\ UNCHANGED <<segments, locked, urb, taken>>

Full == count >= MaxConcurrent

-----------------------------------------------------------------------------
(* register_transfer                                                       *)

\* The fast path: refuse without a lock.
RegisterStart(t, u) ==
  /\ t \in Registrar /\ pc[t] = "idle"
  /\ ~Full
  /\ urb' = [urb EXCEPT ![t] = u] /\ at' = [at EXCEPT ![t] = segmentOf[u]]
  /\ Goto(t, "insert")
  /\ UNCHANGED <<segments, locked, count, taken>>

\* Under the segment's lock: look again, and insert unless the segment has the seqnum.
RegisterInsert(t) ==
  /\ pc[t] = "insert" /\ Free(t)
  /\ IF Full \/ urb[t] \in segments[at[t]]
     THEN Goto(t, "idle") /\ UNCHANGED <<segments, locked>>
     ELSE /\ segments' = [segments EXCEPT ![at[t]] = @ \cup {urb[t]}]
          /\ Lock(t) /\ Goto(t, "counted")
  /\ UNCHANGED <<count, urb, at, taken>>

RegisterCount(t) ==
  /\ pc[t] = "counted"
  /\ count' = (count + 1) % CounterSize
  /\ Unlock(t) /\ Goto(t, "idle")
  /\ UNCHANGED <<segments, urb, at, taken>>

-----------------------------------------------------------------------------
(* remove, remove_endpoint                                                 *)

RemoveStart(t, u) ==
  /\ pc[t] = "idle"
  /\ urb' = [urb EXCEPT ![t] = u] /\ at' = [at EXCEPT ![t] = 0]
  /\ Goto(t, "scan")
  /\ UNCHANGED <<segments, locked, count, taken>>

\* One round of the loop over the segments.
RemoveScan(t) ==
  /\ pc[t] = "scan" /\ Free(t)
  /\ \/ /\ urb[t] \in segments[at[t]]
        /\ segments' = [segments EXCEPT ![at[t]] = @ \ {urb[t]}]
        /\ taken' = [taken EXCEPT ![t] = {urb[t]}]
        /\ Lock(t) /\ Goto(t, "uncount")
        /\ UNCHANGED at
     \/ /\ urb[t] \notin segments[at[t]]
        /\ IF at[t] + 1 < Segments THEN at' = [at EXCEPT ![t] = @ + 1] /\ UNCHANGED pc
                                   ELSE Goto(t, "idle") /\ UNCHANGED at
        /\ UNCHANGED <<segments, locked, taken>>
  /\ UNCHANGED <<count, urb>>

\* All the transfers U of one endpoint, which share their segment with other endpoints.
RemoveEndpoint(t, i, U) ==
  /\ pc[t] = "idle" /\ locked[i] = None
  /\ U \subseteq segments[i] /\ U # {}
  /\ segments' = [segments EXCEPT ![i] = @ \ U]
  /\ taken' = [taken EXCEPT ![t] = U]
  /\ at' = [at EXCEPT ![t] = i]
  /\ locked' = [locked EXCEPT ![i] = t]
  /\ Goto(t, "uncount")
  /\ UNCHANGED <<count, urb>>

RemoveCount(t) ==
  /\ pc[t] = "uncount"
  /\ count' = (count - Cardinality(taken[t])) % CounterSize
  /\ taken' = [taken EXCEPT ![t] = {}]
  /\ Unlock(t) /\ Goto(t, "idle")
  /\ UNCHANGED <<segments, urb, at>>

-----------------------------------------------------------------------------
(* clear                                                                   *)

ClearStart(t) ==
  /\ t \in Clearer /\ pc[t] = "idle"
  /\ at' = [at EXCEPT ![t] = 0]
  /\ Goto(t, "clear")
  /\ UNCHANGED <<segments, locked, count, urb, taken>>

ClearSegment(t) ==
  /\ pc[t] = "clear" /\ Free(t)
  /\ taken' = [taken EXCEPT ![t] = @ \cup segments[at[t]]]
  /\ segments' = [segments EXCEPT ![at[t]] = {}]
  /\ IF at[t] + 1 < Segments THEN at' = [at EXCEPT ![t] = @ + 1] /\ UNCHANGED pc
                             ELSE Goto(t, "reset") /\ UNCHANGED at
  /\ UNCHANGED <<locked, count, urb>>

ClearReset(t) ==
  /\ pc[t] = "reset"
  /\ count' = 0
  /\ taken' = [taken EXCEPT ![t] = {}]
  /\ Goto(t, "idle")
  /\ UNCHANGED <<segments, locked, urb, at>>

-----------------------------------------------------------------------------
Step(t) ==
  \/ \E u \in URB : RegisterStart(t, u)
  \/ RegisterInsert(t) \/ RegisterCount(t)
  \/ \E u \in URB : RemoveStart(t, u)
  \/ RemoveScan(t) \/ RemoveCount(t)
  \/ \E i \in Segment, U \in SUBSET URB : RemoveEndpoint(t, i, U)
  \/ ClearStart(t) \/ ClearSegment(t) \/ ClearReset(t)

Next == \E t \in Thread : Step(t)

Spec == Init /\ [][Next]_vars

-----------------------------------------------------------------------------
(* Properties.                                                             *)

Registered == UNION {segments[i] : i \in Segment}

TypeOK ==
  /\ segments \in [Segment -> SUBSET URB]
  /\ locked \in [Segment -> Thread \cup {None}]
  /\ count \in 0 .. CounterSize - 1
  /\ pc \in [Thread -> Pc]
  /\ urb \in [Thread -> URB \cup {None}]
  /\ at \in [Thread -> Segment]
  /\ taken \in [Thread -> SUBSET URB]

\* With one thread that registers, the check of the counter and the insertion under
\* different locks still keep the limit.
LimitKept == Cardinality(Registered) <= MaxConcurrent

\* What the counter counts: the transfers in the segments, less the one inserted and not
\* counted yet, and those taken out and still counted.
Inserting == {urb[t] : t \in {t \in Thread : pc[t] = "counted"}}
Counted == (Registered \ Inserting) \cup UNION {taken[t] : t \in Thread}

\* The counter neither drifts nor underflows: no interleaving of register, remove,
\* remove_endpoint and clear counts a transfer twice or forgets one, although clear stores
\* 0 with no lock held.
CountIsExact == count = Cardinality(Counted)

\* The tracker is a set of at most MaxConcurrent transfers.
Contract == INSTANCE TrackerContract WITH tracked <- Counted
MeetsContract == Contract!Spec
=============================================================================
