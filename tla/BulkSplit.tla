------------------------------ MODULE BulkSplit ------------------------------
(***************************************************************************)
(* A bulk In request of more than MaxTransfer bytes is split into chunks   *)
(* that are in flight at the same time.  They share a counter of completed *)
(* chunks and a last status; the callback that counts the last chunk       *)
(* answers.  Chunks are neither registered in the tracker nor checked      *)
(* against the stop flag or the unlink map.                                *)
(*                                                                         *)
(* The counters belong to shared pointers local to handle_bulk_transfer,   *)
(* the chunks hold plain pointers to them: alive says whether the call is  *)
(* still going on.                                                         *)
(***************************************************************************)
EXTENDS Integers, FiniteSets

CONSTANTS
  MaxTransfer,     \* MAX_TRANSFER_SIZE, in units of payload
  MaxPacketSize    \* of the endpoint

ASSUME BulkAssumption ==
  MaxTransfer \in Nat \ {0} /\ MaxPacketSize \in Nat \ {0}

VARIABLE bulk      \* the URBs that are split, by sequence number

MinOf(a, b) == IF a < b THEN a ELSE b
Ceiling(n, m) == (n + m - 1) \div m

\* The length that whole packets have.
Whole(length) == Ceiling(length, MaxPacketSize) * MaxPacketSize

\* What a bulk In request that is not split asks of the device: whole packets, cut once
\* more.  The length the client gave is not used again, so the reply may be longer than it.
Adjusted(length) == MinOf(Whole(MinOf(length, MaxTransfer)), MaxTransfer)

IsSplit(length) == length > MaxTransfer
TotalChunks(length) == Ceiling(length, MaxTransfer)

InLoop(s)  == s \in DOMAIN bulk /\ bulk[s].alive
Splitting  == \E s \in DOMAIN bulk : bulk[s].alive
LastChunk(s) == bulk[s].completed + 1 = bulk[s].total

\* The loop has not begun, or it ends at once because there is no memory for the
\* aggregate (the caller answers EPIPE).
StartSplit(s, length) ==
  bulk' = [t \in DOMAIN bulk \cup {s} |->
             IF t = s THEN [next |-> 0, total |-> TotalChunks(length), flying |-> {},
                            completed |-> 0, ok |-> TRUE, alive |-> TRUE]
                      ELSE bulk[t]]

\* One turn of the loop.
SubmitChunk(s) ==
  /\ InLoop(s) /\ bulk[s].next < bulk[s].total
  /\ bulk' = [bulk EXCEPT ![s].flying = @ \cup {bulk[s].next}, ![s].next = @ + 1]

\* The chunk, or its arguments, could not be allocated, or it could not be submitted: the
\* loop and the call are over, and what was submitted stays in flight.
ChunkRefused(s) ==
  /\ InLoop(s) /\ bulk[s].next < bulk[s].total
  /\ bulk' = [bulk EXCEPT ![s].alive = FALSE]

SplitReturns(s) ==
  /\ InLoop(s) /\ bulk[s].next = bulk[s].total
  /\ bulk' = [bulk EXCEPT ![s].alive = FALSE]

\* Mutant: the callback counts its chunk and leaves it in flight.
ChunkReturnsTwice(s, i, ok) ==
  /\ i \in bulk[s].flying /\ bulk[s].alive
  /\ bulk' = [bulk EXCEPT ![s].completed = @ + 1, ![s].ok = @ /\ ok]

\* The callback of chunk i; a status other than COMPLETED is kept.
ChunkReturns(s, i, ok) ==
  /\ i \in bulk[s].flying /\ bulk[s].alive
  /\ bulk' = [bulk EXCEPT ![s].flying = @ \ {i}, ![s].completed = @ + 1,
                          ![s].ok = @ /\ ok]

\* The callback of a chunk whose counters were freed with the call.
FreedCounters(s) == ~bulk[s].alive /\ bulk[s].flying # {}

BulkType(seqnums) ==
  /\ DOMAIN bulk \subseteq seqnums
  /\ \A s \in DOMAIN bulk :
       /\ bulk[s].next \in 0 .. bulk[s].total
       /\ bulk[s].completed + Cardinality(bulk[s].flying) = bulk[s].next
=============================================================================
