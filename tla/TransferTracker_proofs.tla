------------------------ MODULE TransferTracker_proofs ------------------------
(***************************************************************************)
(* Proofs about TransferTracker, for any number of threads, transfers and  *)
(* segments, in three layers:                                              *)
(*                                                                         *)
(*   Places     where the threads are, and what that says of the locks,    *)
(*              the segments and the transfers taken out of them;          *)
(*   Exact      the counter is the number of the transfers it counts, and  *)
(*              the limit is kept;                                         *)
(*   Contract   a step of the tracker is a step of the bounded set.        *)
(***************************************************************************)
EXTENDS TransferTracker, FiniteSetTheorems, TLAPS

-----------------------------------------------------------------------------
(* Places.                                                                 *)

\* The places at which a thread keeps the lock of its segment.
Locking == {"counted", "uncount"}

\* What the place of a thread says of its call.
Calls ==
  \A t \in Thread :
    /\ pc[t] \in {"insert", "counted"} =>
         t \in Registrar /\ urb[t] \in URB /\ at[t] = segmentOf[urb[t]]
    /\ pc[t] = "scan" => urb[t] \in URB
    /\ pc[t] \in {"clear", "reset"} => t \in Clearer

Locks ==
  \A t \in Thread, i \in Segment : locked[i] = t <=> at[t] = i /\ pc[t] \in Locking

\* A transfer is in the segment of its endpoint, if it is registered.
Placed == \A i \in Segment : \A u \in segments[i] : segmentOf[u] = i

\* The segments that a running clear has done: no transfer gets back into one, because the
\* thread that registers is the one that clears.
Passed(t) == {i \in Segment : pc[t] = "reset" \/ (pc[t] = "clear" /\ i < at[t])}

\* Where the transfers are that a call took out and did not count yet.
Takings ==
  \A t \in Thread :
    /\ pc[t] \notin {"uncount", "clear", "reset"} => taken[t] = {}
    /\ pc[t] = "uncount" =>
         \A u \in taken[t] : segmentOf[u] = at[t] /\ u \notin segments[at[t]]
    /\ pc[t] \in {"clear", "reset"} => \A u \in taken[t] : segmentOf[u] \in Passed(t)
    /\ \A i \in Passed(t) : segments[i] = {} /\ locked[i] = None

\* A transfer that is not counted yet is in its segment.
Insertions == \A t \in Thread : pc[t] = "counted" => urb[t] \in segments[at[t]]

Places == TypeOK /\ Calls /\ Locks /\ Placed /\ Takings /\ Insertions

LEMMA ConstantFacts ==
  /\ None \notin URB /\ None \notin Thread
  /\ Segments \in Nat /\ Segments > 0 /\ 0 \in Segment
  /\ \A u \in URB : segmentOf[u] \in Segment
  /\ CounterSize \in Nat /\ CounterSize > 0 /\ MaxConcurrent \in Nat
  /\ Registrar \subseteq Thread /\ Clearer \subseteq Thread
BY TrackerAssumption, FS_EmptySet, FS_CardinalityType DEF TrackerAssumption, Segment

\* A remainder is a size_t.
LEMMA CounterRange == \A n \in Int : n % CounterSize \in 0 .. CounterSize - 1
BY ConstantFacts

LEMMA PlacesInit == Init => Places
<1> SUFFICES ASSUME Init PROVE Places
  OBVIOUS
<1>1. TypeOK
  BY ConstantFacts DEF Init, TypeOK, Pc
<1>2. Calls /\ Locks /\ Placed /\ Takings /\ Insertions
  BY ConstantFacts DEF Init, Calls, Locks, Placed, Takings, Insertions, Passed, Locking
<1>. QED BY <1>1, <1>2 DEF Places

LEMMA PlacesStep ==
  ASSUME Places, NEW t \in Thread, Step(t) PROVE Places'
<1> USE ConstantFacts
<1>1. ASSUME NEW u \in URB, RegisterStart(t, u) PROVE Places'
  BY <1>1 DEF RegisterStart, Goto, Places, TypeOK, Calls, Locks, Placed, Takings, Insertions,
     Passed, Locking, Pc
<1>2. CASE RegisterInsert(t)
  BY <1>2, OneCaller DEF RegisterInsert, Goto, Lock, Free, Places, TypeOK, Calls, Locks, Placed, Takings,
     Insertions, Passed, Locking, Pc
<1>3. CASE RegisterCount(t)
  BY <1>3, CounterRange DEF RegisterCount, Goto, Unlock, Places, TypeOK, Calls, Locks, Placed,
     Takings, Insertions, Passed, Locking, Pc
<1>4. ASSUME NEW u \in URB, RemoveStart(t, u) PROVE Places'
  BY <1>4 DEF RemoveStart, Goto, Places, TypeOK, Calls, Locks, Placed, Takings, Insertions,
     Passed, Locking, Pc
<1>5. CASE RemoveScan(t)
  <2>0. pc[t] = "scan" /\ t \in Thread /\ at[t] \in Segment /\ urb[t] \in URB
    BY <1>5 DEF RemoveScan, Places, TypeOK, Calls
  <2>1. CASE urb[t] \in segments[at[t]]
    <3>1. TypeOK'
      BY <1>5, <2>0, <2>1 DEF RemoveScan, Goto, Lock, Places, TypeOK, Pc
    <3>2. Calls' /\ Locks' /\ Placed' /\ Insertions'
      BY <1>5, <2>0, <2>1 DEF RemoveScan, Goto, Lock, Free, Places, TypeOK, Calls, Locks,
         Placed, Insertions, Locking, Pc
    <3>3. Takings'
      BY <1>5, <2>0, <2>1 DEF RemoveScan, Goto, Lock, Free, Places, TypeOK, Placed, Takings,
         Passed, Pc
    <3>. QED BY <3>1, <3>2, <3>3 DEF Places
  <2>2. CASE urb[t] \notin segments[at[t]] /\ at[t] + 1 < Segments
    <3>1. at[t] + 1 \in Segment
      BY <2>0, <2>2 DEF Segment
    <3>. QED
      BY <1>5, <2>0, <2>2, <3>1 DEF RemoveScan, Goto, Free, Places, TypeOK, Calls, Locks,
         Placed, Takings, Insertions, Passed, Locking, Pc
  <2>3. CASE urb[t] \notin segments[at[t]] /\ ~(at[t] + 1 < Segments)
    BY <1>5, <2>0, <2>3 DEF RemoveScan, Goto, Free, Places, TypeOK, Calls, Locks, Placed,
       Takings, Insertions, Passed, Locking, Pc
  <2>. QED BY <2>1, <2>2, <2>3
<1>6. CASE RemoveCount(t)
  <2>1. Cardinality(taken[t]) \in Nat
    BY TrackerAssumption, FS_Subset, FS_CardinalityType DEF TrackerAssumption, Places, TypeOK
  <2>2. count' \in 0 .. CounterSize - 1
    BY <1>6, <2>1, CounterRange DEF RemoveCount, Places, TypeOK
  <2>. QED
    BY <1>6, <2>2 DEF RemoveCount, Goto, Unlock, Places, TypeOK, Calls, Locks, Placed, Takings,
       Insertions, Passed, Locking, Pc
<1>7. ASSUME NEW i \in Segment, NEW U \in SUBSET URB, RemoveEndpoint(t, i, U) PROVE Places'
  BY <1>7 DEF RemoveEndpoint, Goto, Places, TypeOK, Calls, Locks, Placed, Takings,
     Insertions, Passed, Locking, Pc
<1>8. CASE ClearStart(t)
  BY <1>8 DEF ClearStart, Goto, Places, TypeOK, Calls, Locks, Placed, Takings,
     Insertions, Passed, Locking, Pc, Segment
<1>9. CASE ClearSegment(t)
  <2>0. pc[t] = "clear" /\ t \in Clearer /\ at[t] \in Segment /\ locked[at[t]] = None
    BY <1>9 DEF ClearSegment, Free, Places, TypeOK, Calls
  <2>1. TypeOK'
    <3>1. segments' \in [Segment -> SUBSET URB] /\ taken' \in [Thread -> SUBSET URB]
      BY <1>9, <2>0 DEF ClearSegment, Places, TypeOK
    <3>2. at[t] + 1 < Segments => at[t] + 1 \in Segment
      BY <2>0 DEF Segment
    <3>3. at' \in [Thread -> Segment]
      BY <1>9, <3>2 DEF ClearSegment, Places, TypeOK
    <3>4. pc' \in [Thread -> Pc]
      BY <1>9 DEF ClearSegment, Goto, Places, TypeOK, Pc
    <3>. QED BY <1>9, <3>1, <3>3, <3>4 DEF ClearSegment, Places, TypeOK
  <2>2. Calls' /\ Locks' /\ Placed' /\ Insertions'
    BY <1>9, <2>0, OneCaller DEF ClearSegment, Goto, Places, TypeOK, Calls, Locks, Placed,
       Insertions, Locking, Pc
  <2>3. Passed(t)' = Passed(t) \cup {at[t]}
    BY <1>9, <2>0 DEF ClearSegment, Goto, Places, TypeOK, Passed, Segment
  <2>4. ASSUME NEW s \in Thread, s # t PROVE Passed(s)' = Passed(s)
    BY <1>9, <2>4 DEF ClearSegment, Goto, Places, TypeOK, Passed
  <2>5. Takings'
    BY <1>9, <2>0, <2>3, <2>4 DEF ClearSegment, Goto, Places, TypeOK, Placed, Takings, Pc
  <2>. QED BY <2>1, <2>2, <2>5 DEF Places
<1>10. CASE ClearReset(t)
  BY <1>10, OneCaller DEF ClearReset, Goto, Places, TypeOK, Calls, Locks, Placed, Takings,
     Insertions, Passed, Locking, Pc
<1>. QED
  BY <1>1, <1>2, <1>3, <1>4, <1>5, <1>6, <1>7, <1>8, <1>9, <1>10 DEF Step

\* Each layer holds in every reachable state; so does the type invariant.
THEOREM PlacesCorrect == Spec => []Places
<1>1. Places /\ UNCHANGED vars => Places'
  BY DEF vars, Places, TypeOK, Calls, Locks, Placed, Takings, Insertions, Passed
<1>2. Places /\ [Next]_vars => Places'
  BY <1>1, PlacesStep DEF Next
<1>. QED BY <1>2, PlacesInit, PTL DEF Spec

\* Every variable of the tracker keeps its type; the counter stays a size_t.
THEOREM TypeCorrect == Spec => []TypeOK
<1>1. Places => TypeOK BY DEF Places
<1>. QED BY <1>1, PlacesCorrect, PTL

-----------------------------------------------------------------------------
(* What is registered and what is counted.                                 *)

\* A transfer is registered in its own segment or nowhere.
LEMMA RegisteredWhere ==
  ASSUME Places
  PROVE  \A u : u \in Registered <=> u \in URB /\ u \in segments[segmentOf[u]]
BY ConstantFacts DEF Places, TypeOK, Placed, Registered

\* A transfer taken out is not in its segment; the segment is locked by the thread that
\* took it, or was done by a clear.
LEMMA TakenWhere ==
  ASSUME Places, NEW t \in Thread, NEW u \in taken[t]
  PROVE  /\ u \in URB /\ segmentOf[u] \in Segment
         /\ u \notin segments[segmentOf[u]]
         /\ \/ locked[segmentOf[u]] = t /\ pc[t] = "uncount" /\ at[t] = segmentOf[u]
            \/ locked[segmentOf[u]] = None /\ pc[t] \in {"clear", "reset"} /\ t \in Clearer
<1>1. u \in URB /\ segmentOf[u] \in Segment
  BY ConstantFacts DEF Places, TypeOK
<1>2. CASE pc[t] = "uncount"
  BY <1>1, <1>2 DEF Places, TypeOK, Takings, Locks, Locking
<1>3. CASE pc[t] \in {"clear", "reset"}
  BY <1>1, <1>3 DEF Places, TypeOK, Takings, Calls
<1>. QED BY <1>2, <1>3, <1>1 DEF Places, Takings

\* No transfer is taken twice, nor taken and registered.
LEMMA TakenOnce ==
  ASSUME Places, NEW t \in Thread, NEW u \in taken[t]
  PROVE  u \notin Registered /\ \A s \in Thread : u \in taken[s] => s = t
<1>1. u \notin Registered
  BY TakenWhere, RegisteredWhere
<1>2. ASSUME NEW s \in Thread, u \in taken[s] PROVE s = t
  BY <1>2, TakenWhere, ConstantFacts, OneCaller DEF Places, TypeOK
<1>. QED BY <1>1, <1>2

\* The transfers are finitely many, and the counter has room for all of them.
LEMMA FiniteURBs ==
  ASSUME NEW S \in SUBSET URB
  PROVE  IsFiniteSet(S) /\ Cardinality(S) \in Nat /\ Cardinality(S) < CounterSize
BY TrackerAssumption, FS_Subset, FS_CardinalityType DEF TrackerAssumption

LEMMA CountedType ==
  ASSUME Places PROVE Counted \in SUBSET URB /\ Registered \in SUBSET URB
BY DEF Places, TypeOK, Counted, Registered

\* A registration counts one transfer, which was not counted before.
LEMMA RegisterCounts ==
  ASSUME Places, NEW t \in Thread, RegisterCount(t)
  PROVE  /\ urb[t] \in URB /\ urb[t] \notin Counted
         /\ Counted' = Counted \cup {urb[t]} /\ Registered' = Registered
<1>1. pc[t] = "counted" /\ urb[t] \in URB /\ urb[t] \in Registered /\ urb[t] \in Inserting
  BY ConstantFacts DEF RegisterCount, Places, TypeOK, Calls, Insertions, Registered, Inserting
<1>2. urb[t] \notin Counted
  BY <1>1, TakenOnce DEF Counted
<1>3. Inserting' = Inserting \ {urb[t]}
  <2>1. ASSUME NEW s \in Thread, s # t PROVE pc[s] # "counted"
    BY <1>1, <2>1, OneCaller DEF Places, Calls
  <2>. QED BY <1>1, <2>1 DEF RegisterCount, Goto, Inserting, Places, TypeOK
<1>4. Registered' = Registered /\ taken' = taken
  BY DEF RegisterCount, Registered
<1>. QED BY <1>1, <1>2, <1>3, <1>4 DEF Counted

\* remove and remove_endpoint uncount what they took, and nothing else.
LEMMA RemoveUncounts ==
  ASSUME Places, NEW t \in Thread, RemoveCount(t)
  PROVE  /\ taken[t] \subseteq Counted /\ Counted' = Counted \ taken[t]
         /\ Registered' = Registered
<1>1. Registered' = Registered /\ Inserting' = Inserting
  BY DEF RemoveCount, Goto, Registered, Inserting, Places, TypeOK
<1>2. \A s \in Thread : taken'[s] = IF s = t THEN {} ELSE taken[s]
  BY DEF RemoveCount, Places, TypeOK
<1>3. \A u \in taken[t] : u \notin Registered /\ \A s \in Thread : u \in taken[s] => s = t
  BY TakenOnce
<1>. QED BY <1>1, <1>2, <1>3 DEF Counted

\* When clear stores 0, what it took is all that is counted.
LEMMA ResetUncounts ==
  ASSUME Places, NEW t \in Thread, ClearReset(t)
  PROVE  Counted = taken[t] /\ Counted' = {} /\ Registered' = Registered
<1>1. Passed(t) = Segment
  BY DEF ClearReset, Passed
<1>2. \A i \in Segment : segments[i] = {} /\ locked[i] = None
  BY <1>1 DEF Places, Takings
<1>3. ASSUME NEW s \in Thread, s # t PROVE taken[s] = {}
  BY <1>2, <1>3, TakenWhere, OneCaller, ConstantFacts DEF ClearReset, Places, Calls
<1>4. Registered = {} /\ Registered' = Registered
  BY <1>2 DEF Registered, ClearReset
<1>5. \A s \in Thread : taken'[s] = {}
  BY <1>3 DEF ClearReset, Places, TypeOK
<1>. QED BY <1>3, <1>4, <1>5 DEF Counted

\* An insertion counts nothing yet, and nobody else has an uncounted one.
LEMMA InsertCountsNothing ==
  ASSUME Places, NEW t \in Thread, RegisterInsert(t)
  PROVE  /\ Counted' = Counted /\ count' = count
         /\ Registered \subseteq Counted
         /\ Registered' \subseteq Registered \cup {urb[t]}
         /\ Registered' # Registered => ~Full
<1>0. pc[t] = "insert" /\ t \in Registrar /\ urb[t] \in URB /\ at[t] = segmentOf[urb[t]]
  BY DEF RegisterInsert, Places, Calls
<1>1. Inserting = {}
  BY <1>0, OneCaller DEF Inserting, Places, Calls
<1>2. Registered \subseteq Counted
  BY <1>1 DEF Counted
<1>3. CASE segments' = segments
  <2>1. Registered' = Registered /\ taken' = taken /\ count' = count
    BY <1>3 DEF RegisterInsert, Registered
  <2>2. Inserting' = Inserting
    BY <1>0, <1>3, ConstantFacts DEF RegisterInsert, Goto, Inserting, Places, TypeOK
  <2>. QED BY <1>2, <2>1, <2>2 DEF Counted
<1>4. CASE segments' # segments
  <2>1. /\ ~Full /\ urb[t] \notin segments[at[t]] /\ locked[at[t]] = None
        /\ segments' = [segments EXCEPT ![at[t]] = @ \cup {urb[t]}]
        /\ pc' = [pc EXCEPT ![t] = "counted"]
        /\ taken' = taken /\ count' = count /\ urb' = urb
    BY <1>4 DEF RegisterInsert, Goto, Free
  <2>2. Registered' = Registered \cup {urb[t]}
    BY <2>1, <1>0, ConstantFacts DEF Registered, Places, TypeOK
  <2>3. Inserting' = {urb[t]}
    BY <1>0, <1>1, <2>1 DEF Inserting, Places, TypeOK
  <2>4. urb[t] \notin Registered
    BY <1>0, <2>1, RegisteredWhere
  <2>. QED BY <1>1, <1>2, <2>1, <2>2, <2>3, <2>4 DEF Counted
<1>. QED BY <1>3, <1>4

\* What a call takes out of a segment stays counted until the call subtracts it.
LEMMA TakingCountsNothing ==
  ASSUME Places, NEW t \in Thread,
         RemoveScan(t) \/ ClearSegment(t)
           \/ \E i \in Segment, U \in SUBSET URB : RemoveEndpoint(t, i, U)
  PROVE  Counted' = Counted /\ count' = count /\ Registered' \subseteq Registered
<1>1. Inserting' = Inserting
  BY ConstantFacts DEF RemoveScan, ClearSegment, RemoveEndpoint, Goto, Inserting, Places, TypeOK, Pc
<1>. DEFINE Moved == taken'[t] \ taken[t]
<1>2. /\ count' = count
      /\ taken'[t] = taken[t] \cup Moved
      /\ \A s \in Thread : s # t => taken'[s] = taken[s]
  BY DEF RemoveScan, ClearSegment, RemoveEndpoint, Places, TypeOK, Takings
<1>3. Registered' = Registered \ Moved /\ Moved \subseteq Registered
  BY TakenOnce DEF RemoveScan, ClearSegment, RemoveEndpoint, Registered, Places, TypeOK, Placed, Takings
<1>4. \A u \in Moved : u \in URB /\ locked[segmentOf[u]] = None
  BY DEF RemoveScan, ClearSegment, RemoveEndpoint, Free, Places, TypeOK, Placed
<1>5. \A u \in Inserting : u \in URB /\ locked[segmentOf[u]] \in Thread
  BY ConstantFacts DEF Inserting, Places, TypeOK, Calls, Locks, Locking
<1>6. Moved \cap Inserting = {}
  BY <1>4, <1>5, ConstantFacts
<1>. QED BY <1>1, <1>2, <1>3, <1>6 DEF Counted

\* The beginning of a call changes nothing of either.
LEMMA StartCountsNothing ==
  ASSUME Places, NEW t \in Thread,
         ClearStart(t) \/ \E u \in URB : RegisterStart(t, u) \/ RemoveStart(t, u)
  PROVE  Counted' = Counted /\ count' = count /\ Registered' = Registered
<1>1. Registered' = Registered /\ taken' = taken /\ count' = count
  BY DEF ClearStart, RegisterStart, RemoveStart, Registered
<1>2. Inserting' = Inserting
  BY DEF ClearStart, RegisterStart, RemoveStart, Goto, Inserting, Places, TypeOK
<1>. QED BY <1>1, <1>2 DEF Counted

-----------------------------------------------------------------------------
(* Exact.                                                                  *)

\* The room that was seen when a transfer was inserted is there until it is counted.
RoomKept == \A t \in Thread : pc[t] = "counted" => count < MaxConcurrent

Exact == CountIsExact /\ RoomKept /\ LimitKept

LEMMA ExactInit == Init => Exact
<1> SUFFICES ASSUME Init PROVE Exact
  OBVIOUS
<1>1. Registered = {} /\ Counted = {}
  BY DEF Init, Registered, Counted, Inserting
<1>. QED
  BY <1>1, FS_EmptySet, ConstantFacts DEF Init, Exact, CountIsExact, RoomKept, LimitKept

LEMMA ExactStep ==
  ASSUME Places, Exact, NEW t \in Thread, Step(t) PROVE Exact'
<1>0. /\ Counted \in SUBSET URB /\ Registered \in SUBSET URB
      /\ IsFiniteSet(Counted) /\ IsFiniteSet(Registered)
      /\ count = Cardinality(Counted) /\ count \in Nat /\ count < CounterSize
      /\ Cardinality(Registered) \in Nat /\ Cardinality(Registered) <= MaxConcurrent
  BY CountedType, FiniteURBs DEF Exact, CountIsExact, LimitKept
<1>1. CASE RegisterCount(t)
  <2>1. /\ urb[t] \in URB /\ urb[t] \notin Counted
        /\ Counted' = Counted \cup {urb[t]} /\ Registered' = Registered
    BY <1>1, RegisterCounts
  <2>2. Cardinality(Counted') = count + 1 /\ count + 1 < CounterSize
    BY <1>0, <2>1, FS_AddElement, FiniteURBs
  <2>3. count' = count + 1
    BY <1>0, <1>1, <2>2, ConstantFacts DEF RegisterCount
  <2>4. RoomKept'
    BY <1>1, OneCaller DEF RegisterCount, Goto, RoomKept, Places, TypeOK, Calls
  <2>. QED BY <1>0, <2>1, <2>2, <2>3, <2>4 DEF Exact, CountIsExact, LimitKept
<1>2. CASE RemoveCount(t)
  <2>1. /\ taken[t] \subseteq Counted /\ Counted' = Counted \ taken[t]
        /\ Registered' = Registered
    BY <1>2, RemoveUncounts
  <2>2. Counted \cap taken[t] = taken[t]
    BY <2>1
  <2>3. Cardinality(taken[t]) \in Nat
    BY <1>0, <2>1, FiniteURBs
  <2>4. Cardinality(Counted') = count - Cardinality(taken[t]) /\ Cardinality(Counted') \in Nat
    BY <1>0, <2>1, <2>2, FS_Difference, FS_CardinalityType
  <2>5. count' = count - Cardinality(taken[t]) /\ count' <= count
    BY <1>0, <1>2, <2>3, <2>4, ConstantFacts DEF RemoveCount
  <2>6. RoomKept'
    BY <1>0, <1>2, <2>3, <2>5, ConstantFacts
       DEF RemoveCount, Goto, RoomKept, Exact, Places, TypeOK
  <2>. QED BY <1>0, <2>1, <2>4, <2>5, <2>6 DEF Exact, CountIsExact, LimitKept
<1>3. CASE ClearReset(t)
  <2>1. Counted' = {} /\ Registered' = Registered /\ count' = 0
    BY <1>3, ResetUncounts DEF ClearReset
  <2>2. RoomKept'
    BY <1>3, OneCaller DEF ClearReset, Goto, RoomKept, Places, TypeOK, Calls
  <2>. QED BY <1>0, <2>1, <2>2, FS_EmptySet DEF Exact, CountIsExact, LimitKept
<1>4. CASE RegisterInsert(t)
  <2>1. /\ Counted' = Counted /\ count' = count
        /\ Registered \subseteq Counted
        /\ Registered' \subseteq Registered \cup {urb[t]}
        /\ Registered' # Registered => ~Full
    BY <1>4, InsertCountsNothing
  <2>2. RoomKept'
    BY <1>4, <2>1, <1>0, ConstantFacts
       DEF RegisterInsert, Goto, RoomKept, Exact, Places, TypeOK, Full
  <2>3. LimitKept'
    <3>1. CASE Registered' = Registered
      BY <1>0, <3>1 DEF LimitKept
    <3>2. CASE ~Full
      <4>1. Cardinality(Registered) <= count
        BY <1>0, <2>1, FS_Subset
      <4>2. IsFiniteSet(Registered \cup {urb[t]})
            /\ Cardinality(Registered \cup {urb[t]}) <= Cardinality(Registered) + 1
        BY <1>0, FS_AddElement
      <4>3. Cardinality(Registered') <= Cardinality(Registered \cup {urb[t]})
        BY <2>1, <4>2, FS_Subset
      <4>4. IsFiniteSet(Registered')
        BY <2>1, <4>2, FS_Subset
      <4>. QED
        BY <1>0, <3>2, <4>1, <4>2, <4>3, <4>4, FS_CardinalityType, ConstantFacts
           DEF Full, LimitKept
    <3>. QED BY <2>1, <3>1, <3>2
  <2>. QED BY <1>0, <2>1, <2>2, <2>3 DEF Exact, CountIsExact
<1>5. CASE RemoveScan(t) \/ ClearSegment(t)
             \/ \E i \in Segment, U \in SUBSET URB : RemoveEndpoint(t, i, U)
  <2>1. Counted' = Counted /\ count' = count /\ Registered' \subseteq Registered
    BY <1>5, TakingCountsNothing
  <2>2. RoomKept'
    BY <1>5, <2>1 DEF RemoveScan, ClearSegment, RemoveEndpoint, Goto, RoomKept, Exact, Places,
       TypeOK
  <2>3. Cardinality(Registered') <= Cardinality(Registered) /\ Cardinality(Registered') \in Nat
    BY <1>0, <2>1, FS_Subset, FS_CardinalityType
  <2>4. LimitKept'
    BY <1>0, <2>3, ConstantFacts DEF LimitKept
  <2>. QED BY <1>0, <2>1, <2>2, <2>4 DEF Exact, CountIsExact
<1>6. CASE ClearStart(t) \/ \E u \in URB : RegisterStart(t, u) \/ RemoveStart(t, u)
  <2>1. Counted' = Counted /\ count' = count /\ Registered' = Registered
    BY <1>6, StartCountsNothing
  <2>2. RoomKept'
    BY <1>6, <2>1 DEF ClearStart, RegisterStart, RemoveStart, Goto, RoomKept, Exact, Places,
       TypeOK
  <2>. QED BY <1>0, <2>1, <2>2 DEF Exact, CountIsExact, LimitKept
<1>. QED BY <1>1, <1>2, <1>3, <1>4, <1>5, <1>6 DEF Step

THEOREM ExactCorrect == Spec => []Exact
<1>1. Exact /\ UNCHANGED vars => Exact'
  BY DEF vars, Exact, CountIsExact, RoomKept, LimitKept, Counted, Registered, Inserting
<1>2. Places /\ Exact /\ [Next]_vars => Exact'
  BY <1>1, ExactStep DEF Next
<1>. QED BY <1>2, ExactInit, PlacesCorrect, PTL DEF Spec

\* The counter is never off: register, remove, remove_endpoint and clear, however they are
\* interleaved, count every transfer once, although clear stores 0 with no lock held.
THEOREM CountIsExactCorrect == Spec => []CountIsExact
<1>1. Exact => CountIsExact BY DEF Exact
<1>. QED BY <1>1, ExactCorrect, PTL

\* At most MaxConcurrent transfers are registered, although register_transfer compares the
\* counter with the limit before it counts, and removals count late.
THEOREM LimitKeptCorrect == Spec => []LimitKept
<1>1. Exact => LimitKept BY DEF Exact
<1>. QED BY <1>1, ExactCorrect, PTL

-----------------------------------------------------------------------------
(* Contract.                                                               *)

LEMMA ContractStep ==
  ASSUME Places, Exact, NEW t \in Thread, Step(t)
  PROVE  [Contract!Next]_Counted
<1>1. CASE RegisterCount(t)
  <2>1. urb[t] \in URB /\ urb[t] \notin Counted /\ Counted' = Counted \cup {urb[t]}
    BY <1>1, RegisterCounts
  <2>2. Cardinality(Counted) < MaxConcurrent
    BY <1>1 DEF RegisterCount, Exact, CountIsExact, RoomKept
  <2>3. Contract!Cardinality(Counted) = Cardinality(Counted)
    BY DEF Contract!Cardinality, Cardinality
  <2>. QED BY <2>1, <2>2, <2>3 DEF Contract!Next, Contract!Register
<1>2. CASE RemoveCount(t) \/ ClearReset(t)
  <2>1. Counted' = Counted \ taken[t]
    BY <1>2, RemoveUncounts, ResetUncounts
  <2>2. taken[t] \in SUBSET URB
    BY DEF Places, TypeOK
  <2>. QED BY <2>1, <2>2 DEF Contract!Next, Contract!Remove
<1>3. CASE \/ RegisterInsert(t) \/ RemoveScan(t) \/ ClearSegment(t) \/ ClearStart(t)
           \/ \E i \in Segment, U \in SUBSET URB : RemoveEndpoint(t, i, U)
           \/ \E u \in URB : RegisterStart(t, u) \/ RemoveStart(t, u)
  BY <1>3, InsertCountsNothing, TakingCountsNothing, StartCountsNothing
<1>. QED BY <1>1, <1>2, <1>3 DEF Step

\* The tracker implements TrackerContract: what its callers see is one set of at most
\* MaxConcurrent transfers, whatever happens in the segments behind it.
THEOREM ContractCorrect == Spec => MeetsContract
<1>1. Init => Contract!Init
  BY DEF Init, Contract!Init, Counted, Registered, Inserting
<1>2. UNCHANGED vars => UNCHANGED Counted
  BY DEF vars, Counted, Registered, Inserting
<1>3. Places /\ Exact /\ [Next]_vars => [Contract!Next]_Counted
  BY <1>2, ContractStep DEF Next
<1>. QED
  BY <1>1, <1>3, PlacesCorrect, ExactCorrect, PTL DEF Spec, MeetsContract, Contract!Spec
=============================================================================
