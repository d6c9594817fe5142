-------------------------- MODULE SessionWire_proofs --------------------------
(***************************************************************************)
(* Proofs of the two properties of SessionPipe that speak of what the      *)
(* client makes of the stream, on top of the invariant of                  *)
(* SessionPipe_proofs:                                                     *)
(*                                                                         *)
(*   Receives  a client that gets a packet in pieces, cut anywhere, has    *)
(*             the part of it until the last piece, and then the packet;   *)
(*   Marked    every reply the session writes says how long it is;         *)
(*   Wire      what the client has and what is still to be written are the *)
(*             two parts of the last reply, the others arrived;            *)
(*   Opening   the first packet is the answer of parse_op;                 *)
(*   Unread    the commands that were not taken, cell for cell.            *)
(*                                                                         *)
(* The stream is cut into packets by recursive functions.  What they give  *)
(* is proved from a least place where it would not be so (LeastElement).   *)
(***************************************************************************)
EXTENDS SessionPipe_proofs

-----------------------------------------------------------------------------
(* The client takes the cells one by one.                                  *)

\* The states of the client while it takes the cells.
Steps(f, p, cells, commands) ==
  /\ f[0] = p
  /\ \A n \in 1 .. Len(cells) : f[n] = TakeCell(f[n - 1], cells[n], commands)

\* There is such a function for the first k cells, for every k.
LEMMA StepsExist ==
  ASSUME NEW p, NEW cells, Len(cells) \in Nat, NEW commands
  PROVE  \E f : f = [n \in 0 .. Len(cells) |->
                       IF n = 0 THEN p ELSE TakeCell(f[n - 1], cells[n], commands)]
<1> DEFINE Take(q, n) == TakeCell(q, cells[n], commands)
           Until(k) == \E f : f = [n \in 0 .. k |-> IF n = 0 THEN p ELSE Take(f[n - 1], n)]
           T == {k \in Nat : ~Until(k)}
<1>1. Until(0)
  <2> DEFINE f == [n \in 0 .. 0 |-> p]
  <2>1. \A n \in 0 .. 0 : n = 0
    OBVIOUS
  <2>2. f = [n \in 0 .. 0 |-> IF n = 0 THEN p ELSE Take(f[n - 1], n)]
    BY <2>1
  <2> HIDE DEF f
  <2>. QED BY <2>2
<1>2. ASSUME NEW k \in Nat, Until(k) PROVE Until(k + 1)
  <2>1. PICK f : f = [n \in 0 .. k |-> IF n = 0 THEN p ELSE Take(f[n - 1], n)]
    BY <1>2
  <2> DEFINE g == [n \in 0 .. k + 1 |-> IF n = k + 1 THEN Take(f[k], k + 1) ELSE f[n]]
  <2>2. /\ f[0] = p /\ \A n \in 1 .. k : f[n] = Take(f[n - 1], n)
    <3>1. \A n \in 0 .. k : f[n] = IF n = 0 THEN p ELSE Take(f[n - 1], n)
      BY <2>1
    <3>. QED BY <3>1
  <2>3. g[0] = p
    BY <2>2
  <2>4. ASSUME NEW n \in 1 .. k + 1 PROVE g[n] = Take(g[n - 1], n)
    <3>1. n - 1 \in 0 .. k + 1 /\ n - 1 # k + 1 /\ g[n - 1] = f[n - 1]
      OBVIOUS
    <3>2. CASE n = k + 1
      <4>1. n - 1 = k /\ g[n] = Take(f[k], k + 1)
        BY <3>2
      <4>. QED BY <3>1, <3>2, <4>1
    <3>3. CASE n # k + 1
      <4>1. n \in 1 .. k /\ g[n] = f[n]
        BY <3>3
      <4>. QED BY <2>2, <3>1, <4>1
    <3>. QED BY <3>2, <3>3
  <2>5. DOMAIN g = 0 .. k + 1
    OBVIOUS
  <2>6. g = [n \in 0 .. k + 1 |-> g[n]]
    OBVIOUS
  <2> HIDE DEF g, Take
  <2>7. ASSUME NEW n \in 0 .. k + 1 PROVE g[n] = IF n = 0 THEN p ELSE Take(g[n - 1], n)
    <3>1. n = 0 \/ n \in 1 .. k + 1
      OBVIOUS
    <3>. QED BY <2>3, <2>4, <3>1
  <2>8. g = [n \in 0 .. k + 1 |-> IF n = 0 THEN p ELSE Take(g[n - 1], n)]
    BY <2>6, <2>7
  <2>. QED BY <2>8
<1> HIDE DEF Until
<1>3. T = {}
  <2> SUFFICES ASSUME T # {} PROVE FALSE
    OBVIOUS
  <2>1. PICK x \in T : \A y \in T : x <= y
    BY LeastElement
  <2>2. x \in Nat /\ ~Until(x) /\ x # 0
    BY <1>1, <2>1
  <2>3. x - 1 \in Nat /\ (x - 1) + 1 = x /\ ~(x <= x - 1)
    BY <2>2
  <2>4. Until(x - 1)
    BY <2>1, <2>3
  <2>. QED BY <1>2, <2>2, <2>3, <2>4
<1>4. Until(Len(cells))
  BY <1>3
<1>. QED BY <1>4 DEF Until

LEMMA ReceiveSteps ==
  ASSUME NEW p, NEW cells, Len(cells) \in Nat, NEW commands
  PROVE  \E f : Steps(f, p, cells, commands) /\ Receive(p, cells, commands) = f[Len(cells)]
<1> DEFINE N == Len(cells)
           f == CHOOSE f : f = [n \in 0 .. Len(cells) |->
                                  IF n = 0 THEN p ELSE TakeCell(f[n - 1], cells[n], commands)]
<1>1. f = [n \in 0 .. N |-> IF n = 0 THEN p ELSE TakeCell(f[n - 1], cells[n], commands)]
  BY StepsExist
<1>2. Receive(p, cells, commands) = f[N]
  BY DEF Receive
<1> HIDE DEF f
<1>3. \A n \in 0 .. N : f[n] = IF n = 0 THEN p ELSE TakeCell(f[n - 1], cells[n], commands)
  BY <1>1
<1>4. Steps(f, p, cells, commands)
  <2>1. 0 \in 0 .. N /\ \A n \in 1 .. N : n \in 0 .. N /\ n # 0
    OBVIOUS
  <2>. QED BY <1>3, <2>1 DEF Steps
<1>. QED BY <1>2, <1>4

\* A client that has the commands can tell where the cells R of the reply r end, not
\* earlier, and what they say.
Marked(R, r, commands) ==
  /\ \A m \in 1 .. Len(R) - 1 : m < ReplyNeeds(SubSeq(R, 1, m), commands)
  /\ ~(Len(R) < ReplyNeeds(R, commands))
  /\ ReplyOf(R, commands) = r

LEMMA OneMore ==
  ASSUME NEW R \in Seq(Int), NEW m \in Nat, m < Len(R)
  PROVE  /\ Append(SubSeq(R, 1, m), R[m + 1]) = SubSeq(R, 1, m + 1)
         /\ Len(SubSeq(R, 1, m + 1)) = m + 1
<1>1. m + 1 \in 1 .. Len(R) /\ 1 \in 1 .. Len(R) /\ (m + 1) - 1 = m /\ Len(R) \in Nat
  OBVIOUS
<1>2. SubSeq(R, 1, m + 1) = Append(SubSeq(R, 1, (m + 1) - 1), R[m + 1])
  BY <1>1, SubSeqRecursiveSecond
<1>3. Len(SubSeq(R, 1, m + 1)) = m + 1
  <2>1. \A i \in 1 .. m + 1 : R[i] \in Int
    BY <1>1
  <2>2. Len(SubSeq(R, 1, m + 1)) = IF 1 <= m + 1 THEN (m + 1) - 1 + 1 ELSE 0
    BY <1>1, <2>1, SubSeqProperties
  <2>. QED BY <1>1, <2>2
<1>. QED BY <1>1, <1>2, <1>3

\* A piece of a packet: the cells of R after the first a, up to the one at the place b.
IsPiece(cells, R, a, b) ==
  /\ a \in Nat /\ b \in Nat /\ a < b /\ b <= Len(R)
  /\ Len(cells) = b - a /\ \A k \in 1 .. b - a : cells[k] = R[a + k]

\* What the client has when it has m cells of the reply r, whose cells are R.
Has(before, r, R, m) ==
  IF m < Len(R) THEN [packets |-> before, partial |-> SubSeq(R, 1, m)]
                ELSE [packets |-> Append(before, r), partial |-> <<>>]

LEMMA ReceivesPiece ==
  ASSUME NEW R \in Seq(Int), NEW r, NEW commands, Marked(R, r, commands),
         NEW a, NEW b, NEW before, NEW cells, IsPiece(cells, R, a, b)
  PROVE  Receive(Has(before, r, R, a), cells, commands) = Has(before, r, R, b)
<1> DEFINE n == b - a
<1>1. a \in Nat /\ n \in Nat /\ a + n = b
  BY DEF IsPiece
<1>2. /\ a \in Nat /\ n \in Nat /\ n > 0 /\ a + n <= Len(R)
      /\ Len(cells) = n /\ \A k \in 1 .. n : cells[k] = R[a + k]
  BY <1>1 DEF IsPiece
<1> HIDE DEF n
<1> DEFINE p == [packets |-> before, partial |-> SubSeq(R, 1, a)]
           After(k) == [packets |-> before, partial |-> SubSeq(R, 1, a + k)]
<1>3. PICK f : Steps(f, p, cells, commands) /\ Receive(p, cells, commands) = f[n]
  <2>1. Len(cells) \in Nat /\ Len(cells) = n
    BY <1>2
  <2>2. \E f : Steps(f, p, cells, commands) /\ Receive(p, cells, commands) = f[Len(cells)]
    BY <2>1, ReceiveSteps
  <2>. QED BY <2>1, <2>2
<1>4. f[0] = After(0)
  BY <1>2, <1>3 DEF Steps
<1>5. ASSUME NEW k \in 1 .. n
      PROVE  f[k] = TakeCell(f[k - 1], R[a + k], commands)
  BY <1>2, <1>3 DEF Steps
<1>6. ASSUME NEW k \in 1 .. n, f[k - 1] = After(k - 1)
      PROVE  f[k] = IF a + k < Len(R) THEN After(k)
                    ELSE [packets |-> Append(before, r), partial |-> <<>>]
  <2> DEFINE m == a + k
             S == SubSeq(R, 1, m)
  <2>1. /\ m - 1 \in Nat /\ m - 1 < Len(R) /\ (m - 1) + 1 = m /\ a + (k - 1) = m - 1
        /\ m \in 1 .. Len(R) /\ Len(R) \in Nat
    <3>1. k \in Nat /\ 1 <= k /\ k <= n /\ n \in Nat /\ a \in Nat /\ Len(R) \in Nat
      BY <1>2
    <3>2. a + k <= Len(R)
      BY <1>2, <3>1
    <3>. QED BY <3>1, <3>2
  <2>2. Append(SubSeq(R, 1, m - 1), R[m]) = S /\ Len(S) = m
    BY <2>1, OneMore
  <2>3. f[k] = TakeCell([packets |-> before, partial |-> SubSeq(R, 1, m - 1)], R[m], commands)
    BY <1>5, <1>6, <2>1
  <2> HIDE DEF S
  <2>4. f[k] = IF m < ReplyNeeds(S, commands)
               THEN [packets |-> before, partial |-> S]
               ELSE [packets |-> Append(before, ReplyOf(S, commands)), partial |-> <<>>]
    BY <2>2, <2>3 DEF TakeCell
  <2>5. CASE m < Len(R)
    <3>1. m \in 1 .. Len(R) - 1
      BY <2>1, <2>5
    <3>2. m < ReplyNeeds(S, commands)
      BY <3>1 DEF Marked, S
    <3>. QED BY <2>4, <2>5, <3>2 DEF S
  <2>6. CASE ~(m < Len(R))
    <3>1. m = Len(R) /\ S = R
      BY <2>1, <2>6, SubSeqFull DEF S
    <3>2. ~(m < ReplyNeeds(S, commands)) /\ ReplyOf(S, commands) = r
      BY <3>1 DEF Marked
    <3>. QED BY <2>4, <2>6, <3>2
  <2>. QED BY <2>5, <2>6
<1>7. \A k \in 0 .. n : a + k < Len(R) => f[k] = After(k)
  <2> DEFINE T == {k \in 0 .. n : a + k < Len(R) /\ f[k] # After(k)}
  <2> HIDE DEF After
  <2> SUFFICES ASSUME T # {} PROVE FALSE
    OBVIOUS
  <2>1. T \subseteq Nat
    BY <1>2
  <2>2. PICK x \in T : \A y \in T : x <= y
    BY <2>1, LeastElement
  <2>3. x \in 1 .. n /\ a + x < Len(R) /\ f[x] # After(x)
    BY <1>2, <1>4, <2>2
  <2>4. x - 1 \in 0 .. n /\ a + (x - 1) < Len(R) /\ ~(x <= x - 1)
    BY <1>2, <2>3
  <2>5. f[x - 1] = After(x - 1)
    BY <2>2, <2>4
  <2>. QED BY <1>6, <2>3, <2>5
<1>8. n - 1 \in 0 .. n /\ a + (n - 1) < Len(R) /\ n \in 1 .. n
  BY <1>2
<1>9. f[n - 1] = After(n - 1)
  BY <1>7, <1>8
<1>10. f[n] = IF a + n < Len(R) THEN After(n)
             ELSE [packets |-> Append(before, r), partial |-> <<>>]
  BY <1>6, <1>8, <1>9
<1>11. Has(before, r, R, a) = p
  BY <1>2 DEF Has
<1>. QED BY <1>1, <1>3, <1>10, <1>11 DEF Has

-----------------------------------------------------------------------------
(* The replies say how long they are.                                      *)

LEMMA Beginning ==
  ASSUME NEW R \in Seq(Int), NEW m \in 1 .. Len(R)
  PROVE  /\ Len(SubSeq(R, 1, m)) = m
         /\ \A i \in 1 .. m : SubSeq(R, 1, m)[i] = R[i]
<1>1. m \in Int /\ 1 <= m /\ \A i \in 1 .. m : R[i] \in Int
  OBVIOUS
<1>2. /\ Len(SubSeq(R, 1, m)) = IF 1 <= m THEN m - 1 + 1 ELSE 0
      /\ \A i \in 1 .. m - 1 + 1 : SubSeq(R, 1, m)[i] = R[1 + i - 1]
  BY <1>1, SubSeqProperties
<1>. QED BY <1>1, <1>2

LEMMA SubmitReplyHeader ==
  ASSUME NEW r \in SubmitReply
  PROVE  LET R == ReplyCells(r) IN
         /\ R \in Seq(Int) /\ Len(R) = HeaderCells + r.data
         /\ R[1] = USBIP_RET_SUBMIT /\ R[2] = r.seq /\ R[6] = r.status /\ R[7] = r.actual
<1> DEFINE head == Basic(USBIP_RET_SUBMIT, r.seq, 0, 0) \o <<r.status, r.actual, 0, 0, 0>>
           iso  == Units(2)
           data == Units(r.data)
<1>1. r.seq \in Nat /\ r.status \in Int /\ r.actual \in Nat /\ r.data \in Nat
  BY DEF SubmitReply
<1>2. /\ head \in Seq(Int) /\ Len(head) = 10
      /\ head[1] = USBIP_RET_SUBMIT /\ head[2] = r.seq /\ head[6] = r.status
      /\ head[7] = r.actual
  BY <1>1 DEF Basic, USBIP_RET_SUBMIT
<1>3. /\ iso \in Seq(Int) /\ Len(iso) = 2 /\ data \in Seq(Int) /\ Len(data) = r.data
  BY <1>1, UnitsAreCells
<1>4. ReplyCells(r) = (head \o iso) \o data
  <2>1. r.type = "ret_submit"
    BY DEF SubmitReply
  <2>. QED BY <2>1 DEF ReplyCells, RetSubmitCells
<1> HIDE DEF head, iso, data
<1>5. head \in Seq(Int) /\ iso \in Seq(Int) /\ data \in Seq(Int)
  BY <1>2, <1>3
<1>6. /\ head \o iso \in Seq(Int) /\ Len(head \o iso) = Len(head) + Len(iso)
      /\ \A k \in 1 .. Len(head) : (head \o iso)[k] = head[k]
  BY <1>5, BeginsWith
<1>7. /\ ReplyCells(r) \in Seq(Int)
      /\ Len(ReplyCells(r)) = Len(head \o iso) + Len(data)
      /\ \A k \in 1 .. Len(head \o iso) : ReplyCells(r)[k] = (head \o iso)[k]
  <2>1. head \o iso \in Seq(Int)
    BY <1>6
  <2>. QED BY <1>4, <1>5, <2>1, BeginsWith
<1>8. \A k \in {1, 2, 6, 7} : ReplyCells(r)[k] = head[k]
  <2>1. Len(head) = 10 /\ Len(head \o iso) = 12
    BY <1>2, <1>3, <1>6
  <2>2. \A k \in {1, 2, 6, 7} : k \in 1 .. 10 /\ k \in 1 .. 12
    OBVIOUS
  <2>. QED BY <1>6, <1>7, <2>1, <2>2
<1>9. Len(ReplyCells(r)) = HeaderCells + r.data
  BY <1>1, <1>2, <1>3, <1>6, <1>7 DEF HeaderCells
<1>. QED BY <1>2, <1>7, <1>8, <1>9

LEMMA UnlinkReplyHeader ==
  ASSUME NEW r \in UnlinkReply
  PROVE  LET R == ReplyCells(r) IN
         /\ R \in Seq(Int) /\ Len(R) = HeaderCells
         /\ R[1] = USBIP_RET_UNLINK /\ R[2] = r.seq /\ R[6] = r.status
<1> DEFINE head == Basic(USBIP_RET_UNLINK, r.seq, 0, 0) \o <<r.status>>
           rest == Units(6)
<1>1. r.seq \in Nat /\ r.status \in Int /\ r.type = "ret_unlink"
  BY DEF UnlinkReply
<1>2. /\ head \in Seq(Int) /\ Len(head) = 6
      /\ head[1] = USBIP_RET_UNLINK /\ head[2] = r.seq /\ head[6] = r.status
  BY <1>1 DEF Basic, USBIP_RET_UNLINK
<1>3. rest \in Seq(Int) /\ Len(rest) = 6
  BY UnitsAreCells
<1>4. ReplyCells(r) = head \o rest
  BY <1>1 DEF ReplyCells, RetUnlinkCells
<1> HIDE DEF head, rest
<1>5. /\ ReplyCells(r) \in Seq(Int) /\ Len(ReplyCells(r)) = Len(head) + Len(rest)
      /\ \A k \in 1 .. Len(head) : ReplyCells(r)[k] = head[k]
  <2>1. head \in Seq(Int) /\ rest \in Seq(Int)
    BY <1>2, <1>3
  <2>. QED BY <1>4, <2>1, BeginsWith
<1>6. \A k \in {1, 2, 6} : ReplyCells(r)[k] = head[k]
  <2>1. \A k \in {1, 2, 6} : k \in 1 .. Len(head)
    BY <1>2
  <2>. QED BY <1>5, <2>1
<1>7. Len(ReplyCells(r)) = HeaderCells
  BY <1>2, <1>3, <1>5 DEF HeaderCells
<1>. QED BY <1>2, <1>5, <1>6, <1>7

\* A RET_SUBMIT: the client knows by its command whether data follow, and by the header
\* how many.
LEMMA SubmitMarked ==
  ASSUME NEW r \in SubmitReply, NEW commands \in Seq(Command), r.seq \in 1 .. Len(commands),
         commands[r.seq].type = "submit",
         commands[r.seq].dir = In => r.actual = r.data,
         commands[r.seq].dir = Out => r.data = 0
  PROVE  Marked(ReplyCells(r), r, commands)
<1>1. PICK R, d : R = ReplyCells(r) /\ d = r.data
  OBVIOUS
<1>2. R \in Seq(Int) /\ d \in Nat /\ Len(R) = 12 + d
  BY <1>1, SubmitReplyHeader DEF HeaderCells, SubmitReply
<1>3. R[1] = 3 /\ R[2] = r.seq /\ R[6] = r.status /\ R[7] = r.actual
  BY <1>1, SubmitReplyHeader DEF USBIP_RET_SUBMIT
<1>4. /\ r.seq \in DOMAIN commands /\ commands[r.seq].dir \in {In, Out}
  <2>1. commands[r.seq] \in Command
    OBVIOUS
  <2>. QED BY <2>1 DEF Command, Submission, Cancellation
<1> DEFINE isIn == commands[r.seq].dir = In
<1>5. isIn => r.actual = d
  BY <1>1
<1>6. ~isIn => d = 0
  BY <1>1, <1>4
<1>7. ASSUME NEW S, NEW m \in 1 .. Len(R), Len(S) = m, \A i \in 1 .. m : S[i] = R[i]
      PROVE  ReplyNeeds(S, commands)
               = IF m < 3 THEN 3 ELSE IF m < 12 THEN 12 ELSE IF isIn THEN 12 + d ELSE 12
  <2>1. Len(R) \in Nat /\ m \in Nat
    BY <1>2
  <2>2. ASSUME m < 3 PROVE ReplyNeeds(S, commands) = 3
    BY <1>7, <2>2 DEF ReplyNeeds
  <2>3. ASSUME ~(m < 3)
        PROVE  ReplyNeeds(S, commands)
                 = IF m < HeaderCells THEN HeaderCells
                   ELSE IF /\ S[1] = USBIP_RET_SUBMIT
                           /\ S[2] \in DOMAIN commands
                           /\ commands[S[2]].type = "submit" /\ commands[S[2]].dir = In
                        THEN HeaderCells + S[7] ELSE HeaderCells
    <3>1. 1 \in 1 .. m
      BY <2>1, <2>3
    <3>2. S[1] = 3
      BY <1>3, <1>7, <3>1
    <3>3. ~IsOpReply(S)
      BY <3>2 DEF IsOpReply, USBIP_VERSION
    <3>. QED BY <1>7, <2>3, <3>3 DEF ReplyNeeds
  <2>4. ASSUME ~(m < 12) PROVE S[1] = 3 /\ S[2] = r.seq /\ S[7] = r.actual
    <3>1. 1 \in 1 .. m /\ 2 \in 1 .. m /\ 7 \in 1 .. m
      BY <2>1, <2>4
    <3>. QED BY <1>3, <1>7, <3>1
  <2>5. ASSUME ~(m < 12)
        PROVE  ReplyNeeds(S, commands) = IF isIn THEN 12 + d ELSE 12
    <3>1. ~(m < 3)
      BY <2>1, <2>5
    <3>. QED
      BY <1>4, <1>5, <2>3, <2>4, <2>5, <3>1 DEF USBIP_RET_SUBMIT, HeaderCells
  <2>. QED BY <2>2, <2>3, <2>5 DEF HeaderCells
<1>8. ASSUME NEW m \in 1 .. Len(R) - 1 PROVE m < ReplyNeeds(SubSeq(R, 1, m), commands)
  <2>1. m \in 1 .. Len(R) /\ m \in Nat /\ m < 12 + d
    BY <1>2
  <2>2. /\ Len(SubSeq(R, 1, m)) = m
        /\ \A i \in 1 .. m : SubSeq(R, 1, m)[i] = R[i]
    BY <1>2, <2>1, Beginning
  <2>3. ReplyNeeds(SubSeq(R, 1, m), commands)
          = IF m < 3 THEN 3 ELSE IF m < 12 THEN 12 ELSE IF isIn THEN 12 + d ELSE 12
    BY <1>7, <2>1, <2>2
  <2> HIDE DEF isIn
  <2>4. ~isIn => m < 12
    BY <1>6, <2>1
  <2>. QED BY <2>1, <2>3, <2>4
<1>9. ~(Len(R) < ReplyNeeds(R, commands))
  <2>1. Len(R) \in 1 .. Len(R) /\ ~(Len(R) < 12) /\ ~(Len(R) < 12 + d) /\ ~(Len(R) < 3)
    BY <1>2
  <2>2. ReplyNeeds(R, commands) = IF isIn THEN 12 + d ELSE 12
    BY <1>7, <2>1
  <2>. QED BY <2>1, <2>2
<1>10. ReplyOf(R, commands) = r
  <2>1. ReplyOf(R, commands) = RetSubmit(R[2], R[6], R[7], Len(R) - HeaderCells)
    BY <1>3 DEF ReplyOf, IsOpReply, USBIP_RET_SUBMIT, USBIP_RET_UNLINK, USBIP_VERSION
  <2>2. Len(R) - HeaderCells = d
    BY <1>2 DEF HeaderCells
  <2>. QED BY <1>1, <1>3, <2>1, <2>2 DEF RetSubmit, SubmitReply
<1>. QED BY <1>1, <1>8, <1>9, <1>10 DEF Marked

\* A RET_UNLINK has no payload; the client knows by its command which URB it cancelled.
LEMMA UnlinkMarked ==
  ASSUME NEW r \in UnlinkReply, NEW commands \in Seq(Command), r.seq \in 1 .. Len(commands),
         commands[r.seq].type = "unlink", commands[r.seq].target = r.target
  PROVE  Marked(ReplyCells(r), r, commands)
<1>1. PICK R : R = ReplyCells(r)
  OBVIOUS
<1>2. R \in Seq(Int) /\ Len(R) = 12
  BY <1>1, UnlinkReplyHeader DEF HeaderCells
<1>3. R[1] = 4 /\ R[2] = r.seq /\ R[6] = r.status
  BY <1>1, UnlinkReplyHeader DEF USBIP_RET_UNLINK
<1>4. ASSUME NEW S, NEW m \in 1 .. 12, Len(S) = m, \A i \in 1 .. m : S[i] = R[i]
      PROVE  ReplyNeeds(S, commands) = IF m < 3 THEN 3 ELSE 12
  <2>1. ASSUME m < 3 PROVE ReplyNeeds(S, commands) = 3
    BY <1>4, <2>1 DEF ReplyNeeds
  <2>2. ASSUME ~(m < 3) PROVE ReplyNeeds(S, commands) = 12
    <3>1. S[1] = 4
      BY <1>3, <1>4
    <3>2. ~IsOpReply(S) /\ S[1] # USBIP_RET_SUBMIT
      BY <3>1 DEF IsOpReply, USBIP_VERSION, USBIP_RET_SUBMIT
    <3>. QED BY <1>4, <2>2, <3>2 DEF ReplyNeeds, HeaderCells
  <2>. QED BY <2>1, <2>2
<1>5. ASSUME NEW m \in 1 .. Len(R) - 1 PROVE m < ReplyNeeds(SubSeq(R, 1, m), commands)
  <2>1. m \in 1 .. Len(R) /\ m \in 1 .. 12 /\ m < 12
    BY <1>2
  <2>2. /\ Len(SubSeq(R, 1, m)) = m
        /\ \A i \in 1 .. m : SubSeq(R, 1, m)[i] = R[i]
    BY <1>2, <2>1, Beginning
  <2>3. ReplyNeeds(SubSeq(R, 1, m), commands) = IF m < 3 THEN 3 ELSE 12
    BY <1>4, <2>1, <2>2
  <2>. QED BY <2>1, <2>3
<1>6. ~(Len(R) < ReplyNeeds(R, commands))
  <2>1. 12 \in 1 .. 12 /\ ~(12 < 3)
    OBVIOUS
  <2>2. ReplyNeeds(R, commands) = 12
    BY <1>2, <1>4, <2>1
  <2>. QED BY <1>2, <2>2
<1>7. ReplyOf(R, commands) = r
  <2>1. /\ R[1] = USBIP_RET_UNLINK /\ R[1] # USBIP_RET_SUBMIT /\ ~IsOpReply(R)
        /\ R[2] \in DOMAIN commands /\ commands[R[2]].type = "unlink"
    BY <1>3 DEF IsOpReply, USBIP_RET_SUBMIT, USBIP_RET_UNLINK, USBIP_VERSION
  <2>2. ReplyOf(R, commands) = RetUnlink(R[2], commands[R[2]].target, R[6])
    BY <2>1 DEF ReplyOf
  <2>. QED BY <1>3, <2>2 DEF RetUnlink, UnlinkReply
<1>. QED BY <1>1, <1>5, <1>6, <1>7 DEF Marked

\* The fields of a device with one interface, of which the last is the number of them.
LEMMA DeviceFieldsAre ==
  /\ DeviceFields(1) \in Seq(Int) /\ Len(DeviceFields(1)) = 14 /\ DeviceFields(1)[14] = 1
<1>1. PICK u, v : u = Units(13) /\ v = <<1>>
  OBVIOUS
<1>2. u \in Seq(Int) /\ Len(u) = 13 /\ v \in Seq(Int) /\ Len(v) = 1 /\ v[1] = 1
  <2>1. 13 \in Nat
    OBVIOUS
  <2>2. u \in Seq(Int) /\ Len(u) = 13
    BY <1>1, <2>1, UnitsAreCells
  <2>3. v \in Seq(Int) /\ Len(v) = 1 /\ v[1] = 1
    BY <1>1
  <2>. QED BY <2>2, <2>3
<1>3. /\ u \o v \in Seq(Int) /\ Len(u \o v) = Len(u) + Len(v)
      /\ \A k \in 1 .. Len(v) : (u \o v)[Len(u) + k] = v[k]
  <2>1. u \in Seq(Int) /\ v \in Seq(Int)
    BY <1>2
  <2>. QED BY <2>1, BeginsWith
<1>4. 1 \in 1 .. Len(v) /\ Len(u) + 1 = 14
  BY <1>2
<1>5. DeviceFields(1) = u \o v
  BY <1>1 DEF DeviceFields, DeviceCells
<1>. QED BY <1>2, <1>3, <1>4, <1>5

\* The answers of parse_op to a request for a device, that there is or not.
LEMMA ImportCells ==
  /\ LET R == ReplyCells(RepImport(0, 1)) IN
     R \in Seq(Int) /\ Len(R) = 17 /\ R[1] = 273 /\ R[2] = 3 /\ R[3] = 0
  /\ LET R == ReplyCells(RepImport(4, 1)) IN
     R \in Seq(Int) /\ Len(R) = 3 /\ R[1] = 273 /\ R[2] = 3 /\ R[3] = 4
<1>1. /\ ReplyCells(RepImport(0, 1)) = <<273, 3, 0>> \o DeviceFields(1)
      /\ ReplyCells(RepImport(4, 1)) = <<273, 3, 4>> \o <<>>
  BY DEF ReplyCells, RepImport, USBIP_VERSION, OP_REP_IMPORT
<1>2. DeviceFields(1) \in Seq(Int) /\ Len(DeviceFields(1)) = 14
  BY DeviceFieldsAre
<1>3. PICK h, t : h = <<273, 3, 0>> /\ t = DeviceFields(1)
  OBVIOUS
<1>4. h \in Seq(Int) /\ t \in Seq(Int) /\ Len(h) = 3 /\ h[1] = 273 /\ h[2] = 3 /\ h[3] = 0
  BY <1>2, <1>3
<1>5. /\ h \o t \in Seq(Int) /\ Len(h \o t) = Len(h) + Len(t)
      /\ \A k \in 1 .. Len(h) : (h \o t)[k] = h[k]
  <2>1. h \in Seq(Int) /\ t \in Seq(Int)
    BY <1>4
  <2>. QED BY <2>1, BeginsWith
<1>6. Len(t) = 14
  BY <1>2, <1>3
<1>7. /\ h \o t \in Seq(Int) /\ Len(h \o t) = 17
      /\ (h \o t)[1] = 273 /\ (h \o t)[2] = 3 /\ (h \o t)[3] = 0
  BY <1>4, <1>5, <1>6
<1>8. <<273, 3, 4>> \o <<>> = <<273, 3, 4>>
  OBVIOUS
<1>9. ReplyCells(RepImport(0, 1)) = h \o t
  BY <1>1, <1>3
<1>10. ReplyCells(RepImport(4, 1)) = <<273, 3, 4>>
  BY <1>1, <1>8
<1>11. PICK e : e = <<273, 3, 4>>
  OBVIOUS
<1>12. e \in Seq(Int) /\ Len(e) = 3 /\ e[1] = 273 /\ e[2] = 3 /\ e[3] = 4
  BY <1>11
<1>13. ReplyCells(RepImport(4, 1)) = e
  BY <1>10, <1>11
<1>14. LET R == ReplyCells(RepImport(0, 1)) IN
       R \in Seq(Int) /\ Len(R) = 17 /\ R[1] = 273 /\ R[2] = 3 /\ R[3] = 0
  BY <1>7, <1>9
<1>15. LET R == ReplyCells(RepImport(4, 1)) IN
       R \in Seq(Int) /\ Len(R) = 3 /\ R[1] = 273 /\ R[2] = 3 /\ R[3] = 4
  BY <1>12, <1>13
<1>. QED BY <1>14, <1>15

LEMMA ImportMarked ==
  ASSUME NEW commands, NEW status \in {0, 4}
  PROVE  Marked(ReplyCells(RepImport(status, 1)), RepImport(status, 1), commands)
<1>1. PICK R, n : R = ReplyCells(RepImport(status, 1)) /\ n = IF status = 0 THEN 17 ELSE 3
  OBVIOUS
<1>2. R \in Seq(Int) /\ Len(R) = n /\ n \in {3, 17}
  BY <1>1, ImportCells
<1>3. R[1] = 273 /\ R[2] = 3 /\ R[3] = status
  BY <1>1, ImportCells
<1>4. ASSUME NEW S, NEW m \in 1 .. n, Len(S) = m, \A i \in 1 .. m : S[i] = R[i]
      PROVE  ReplyNeeds(S, commands) = IF m < 3 THEN 3 ELSE n
  <2>1. ASSUME m < 3 PROVE ReplyNeeds(S, commands) = 3
    BY <1>4, <2>1 DEF ReplyNeeds
  <2>2. ASSUME ~(m < 3) PROVE ReplyNeeds(S, commands) = n
    <3>1. 1 \in 1 .. m /\ 2 \in 1 .. m /\ 3 \in 1 .. m
      BY <1>2, <2>2
    <3>2. S[1] = 273 /\ S[2] = 3 /\ S[3] = status
      BY <1>3, <1>4, <3>1
    <3>3. IsOpReply(S) /\ S[2] = OP_REP_IMPORT /\ S[2] # OP_REP_DEVLIST
      BY <3>2 DEF IsOpReply, USBIP_VERSION, OP_REP_IMPORT, OP_REP_DEVLIST
    <3>4. ReplyNeeds(S, commands) = 3 + (IF S[3] = 0 THEN DeviceCells ELSE 0)
      BY <1>4, <2>2, <3>3 DEF ReplyNeeds
    <3>. QED BY <1>1, <3>2, <3>4 DEF DeviceCells
  <2>. QED BY <2>1, <2>2
<1>5. ASSUME NEW m \in 1 .. Len(R) - 1 PROVE m < ReplyNeeds(SubSeq(R, 1, m), commands)
  <2>1. m \in 1 .. Len(R) /\ m \in 1 .. n /\ m < n
    BY <1>2
  <2>2. /\ Len(SubSeq(R, 1, m)) = m
        /\ \A i \in 1 .. m : SubSeq(R, 1, m)[i] = R[i]
    BY <1>2, <2>1, Beginning
  <2>3. ReplyNeeds(SubSeq(R, 1, m), commands) = IF m < 3 THEN 3 ELSE n
    BY <1>4, <2>1, <2>2
  <2>. QED BY <1>2, <2>1, <2>3
<1>6. ~(Len(R) < ReplyNeeds(R, commands))
  <2>1. n \in 1 .. n /\ ~(n < 3) /\ ~(n < n)
    BY <1>2
  <2>2. ReplyNeeds(R, commands) = n
    BY <1>2, <1>4, <2>1
  <2>. QED BY <1>2, <2>1, <2>2
<1>7. ReplyOf(R, commands) = RepImport(status, 1)
  <2>1. R[1] # USBIP_RET_SUBMIT /\ R[1] # USBIP_RET_UNLINK /\ IsOpReply(R)
    BY <1>3 DEF IsOpReply, USBIP_RET_SUBMIT, USBIP_RET_UNLINK, USBIP_VERSION
  <2>2. ReplyOf(R, commands) = [type |-> "op_rep", status |-> R[3], cells |-> R]
    BY <2>1 DEF ReplyOf
  <2>3. R = RepImport(status, 1).cells
    BY <1>1 DEF ReplyCells, RepImport
  <2>. QED BY <1>3, <2>2, <2>3 DEF RepImport
<1>. QED BY <1>1, <1>5, <1>6, <1>7 DEF Marked

LEMMA FlattenOne ==
  ASSUME NEW s
  PROVE  FlattenSeq(<<s>>) = s
<1> DEFINE f == [i \in 1 .. 1 |-> s]
           g == CHOOSE g : g = [i \in 1 .. Len(<<s>>) |->
                                  IF i = 1 THEN <<s>>[i] ELSE g[i - 1] \o <<s>>[i]]
<1>1. Len(<<s>>) = 1 /\ <<s>>[1] = s
  OBVIOUS
<1>2. \A i \in 1 .. 1 : i = 1
  OBVIOUS
<1>3. f = [i \in 1 .. Len(<<s>>) |-> IF i = 1 THEN <<s>>[i] ELSE f[i - 1] \o <<s>>[i]]
  BY <1>1, <1>2
<1> HIDE DEF f
<1>4. g = [i \in 1 .. Len(<<s>>) |-> IF i = 1 THEN <<s>>[i] ELSE g[i - 1] \o <<s>>[i]]
  BY <1>3
<1>5. FlattenSeq(<<s>>) = g[Len(<<s>>)]
  BY <1>1 DEF FlattenSeq
<1> HIDE DEF g
<1>6. g[1] = s
  BY <1>1, <1>4
<1>. QED BY <1>1, <1>5, <1>6

LEMMA DevlistCells ==
  LET R == ReplyCells(RepDevlist(<<1>>)) IN
  /\ R \in Seq(Int) /\ Len(R) = 19
  /\ R[1] = 273 /\ R[2] = 5 /\ R[3] = 0 /\ R[4] = 1 /\ R[18] = 1
<1>1. PICK h, d, u : h = <<273, 5, 0, 1>> /\ d = DeviceFields(1) /\ u = Units(1)
  OBVIOUS
<1>2. h \in Seq(Int) /\ d \in Seq(Int) /\ u \in Seq(Int)
  BY <1>1, DeviceFieldsAre, UnitsAreCells
<1>3. Len(h) = 4 /\ h[1] = 273 /\ h[2] = 5 /\ h[3] = 0 /\ h[4] = 1
  BY <1>1
<1>4. Len(d) = 14 /\ d[14] = 1 /\ Len(u) = 1
  BY <1>1, DeviceFieldsAre, UnitsAreCells
<1>5. ReplyCells(RepDevlist(<<1>>)) = h \o (d \o u)
  <2>1. [i \in DOMAIN <<1>> |-> DeviceFields(<<1>>[i]) \o Units(<<1>>[i])] = <<d \o u>>
    <3> DEFINE f == [i \in DOMAIN <<1>> |-> DeviceFields(<<1>>[i]) \o Units(<<1>>[i])]
    <3>1. DOMAIN <<1>> = 1 .. 1 /\ <<1>>[1] = 1 /\ \A i \in 1 .. 1 : i = 1
      OBVIOUS
    <3>2. DOMAIN f = 1 .. 1 /\ f[1] = DeviceFields(1) \o Units(1)
      BY <3>1
    <3>3. PICK t : t = d \o u
      OBVIOUS
    <3>4. f[1] = t
      BY <1>1, <3>2, <3>3
    <3>5. f = [i \in 1 .. 1 |-> f[i]]
      BY <3>2
    <3> HIDE DEF f
    <3>6. f = [i \in 1 .. 1 |-> t]
      BY <3>1, <3>4, <3>5
    <3>7. <<t>> = [i \in 1 .. 1 |-> t]
      BY <3>1
    <3>. QED BY <3>3, <3>6, <3>7 DEF f
  <2>2. RepDevlist(<<1>>).cells = <<USBIP_VERSION, OP_REP_DEVLIST, 0, Len(<<1>>)>>
                                    \o FlattenSeq(<<d \o u>>)
    BY <2>1 DEF RepDevlist
  <2>3. FlattenSeq(<<d \o u>>) = d \o u
    BY FlattenOne
  <2>4. <<USBIP_VERSION, OP_REP_DEVLIST, 0, Len(<<1>>)>> = h
    BY <1>1 DEF USBIP_VERSION, OP_REP_DEVLIST
  <2>5. ReplyCells(RepDevlist(<<1>>)) = RepDevlist(<<1>>).cells
    BY DEF ReplyCells, RepDevlist
  <2>. QED BY <2>2, <2>3, <2>4, <2>5
<1>6. PICK t : t = d \o u
  OBVIOUS
<1>7. /\ t \in Seq(Int) /\ Len(t) = Len(d) + Len(u)
      /\ \A k \in 1 .. Len(d) : t[k] = d[k]
  BY <1>2, <1>6, BeginsWith
<1>8. t \in Seq(Int)
  BY <1>7
<1>9. Len(t) = 15 /\ t[14] = 1
  BY <1>4, <1>7
<1>10. /\ h \o t \in Seq(Int) /\ Len(h \o t) = Len(h) + Len(t)
       /\ \A k \in 1 .. Len(h) : (h \o t)[k] = h[k]
       /\ \A k \in 1 .. Len(t) : (h \o t)[Len(h) + k] = t[k]
  BY <1>2, <1>8, BeginsWith
<1>11. /\ (h \o t)[1] = 273 /\ (h \o t)[2] = 5 /\ (h \o t)[3] = 0 /\ (h \o t)[4] = 1
       /\ Len(h \o t) = 19
  <2>1. \A k \in {1, 2, 3, 4} : k \in 1 .. Len(h)
    BY <1>3
  <2>2. /\ (h \o t)[1] = h[1] /\ (h \o t)[2] = h[2]
        /\ (h \o t)[3] = h[3] /\ (h \o t)[4] = h[4]
    BY <1>10, <2>1
  <2>3. Len(h \o t) = 19
    BY <1>3, <1>9, <1>10
  <2>. QED BY <1>3, <2>2, <2>3
<1>12. (h \o t)[18] = 1
  <2>1. 14 \in 1 .. Len(t) /\ Len(h) + 14 = 18
    BY <1>3, <1>9
  <2>. QED BY <1>9, <1>10, <2>1
<1>. QED BY <1>5, <1>6, <1>10, <1>11, <1>12

\* Of the list, the client knows the end when it has the last field of the last device.
LEMMA DevlistEnds ==
  ASSUME NEW s, s[4] = 1
  PROVE  DevlistNeeds(s) = IF Len(s) < 18 \/ 18 + s[18] = 0 THEN Len(s) + 1 ELSE 18 + s[18]
<1> DEFINE Next1 == IF Len(s) < 18 THEN 0 ELSE 18 + s[18]
           f == [i \in 0 .. 1 |-> IF i = 0 THEN 4 ELSE Next1]
           After(b) == IF b = 0 \/ Len(s) < b + DeviceCells THEN 0
                       ELSE b + DeviceCells + s[b + DeviceCells]
           g == CHOOSE g : g = [i \in 0 .. s[4] |->
                  IF i = 0 THEN 4
                  ELSE LET begin == g[i - 1] IN
                       IF begin = 0 \/ Len(s) < begin + DeviceCells THEN 0
                       ELSE begin + DeviceCells + s[begin + DeviceCells]]
<1>1. After(4) = Next1
  BY DEF DeviceCells
<1>2. \A i \in 0 .. 1 : i = 0 \/ (i = 1 /\ i - 1 = 0)
  OBVIOUS
<1>3. DevlistNeeds(s) = IF g[s[4]] = 0 THEN Len(s) + 1 ELSE g[s[4]]
  BY DEF DevlistNeeds
<1> HIDE DEF Next1, After
<1>4. f = [i \in 0 .. s[4] |-> IF i = 0 THEN 4 ELSE After(f[i - 1])]
  BY <1>1, <1>2
<1> HIDE DEF f
<1>5. \E x : x = [i \in 0 .. s[4] |->
                  IF i = 0 THEN 4
                  ELSE LET begin == x[i - 1] IN
                       IF begin = 0 \/ Len(s) < begin + DeviceCells THEN 0
                       ELSE begin + DeviceCells + s[begin + DeviceCells]]
  BY <1>4 DEF After
<1>6. g = [i \in 0 .. s[4] |-> IF i = 0 THEN 4 ELSE After(g[i - 1])]
  BY <1>5 DEF After
<1> HIDE DEF g
<1>7. g[0] = 4
  BY <1>6
<1>8. g[1] = After(g[0])
  BY <1>6
<1>9. g[s[4]] = Next1
  BY <1>1, <1>7, <1>8
<1>. QED BY <1>3, <1>9 DEF Next1

LEMMA DevlistMarked ==
  ASSUME NEW commands
  PROVE  Marked(ReplyCells(RepDevlist(<<1>>)), RepDevlist(<<1>>), commands)
<1>1. PICK R : R = ReplyCells(RepDevlist(<<1>>))
  OBVIOUS
<1>2. R \in Seq(Int) /\ Len(R) = 19
  BY <1>1, DevlistCells
<1>3. R[1] = 273 /\ R[2] = 5 /\ R[3] = 0 /\ R[4] = 1 /\ R[18] = 1
  BY <1>1, DevlistCells
<1>4. ASSUME NEW S, NEW m \in 1 .. 19, Len(S) = m, \A i \in 1 .. m : S[i] = R[i]
      PROVE  ReplyNeeds(S, commands)
               = IF m < 3 THEN 3 ELSE IF m < 4 THEN 4 ELSE IF m < 18 THEN m + 1 ELSE 19
  <2>1. ASSUME m < 3 PROVE ReplyNeeds(S, commands) = 3
    BY <1>4, <2>1 DEF ReplyNeeds
  <2>2. ASSUME ~(m < 3)
        PROVE  ReplyNeeds(S, commands) = IF m < 4 THEN 4 ELSE DevlistNeeds(S)
    <3>1. S[1] = 273 /\ S[2] = 5
      BY <1>3, <1>4, <2>2
    <3>2. IsOpReply(S) /\ S[2] # OP_REP_IMPORT /\ S[2] = OP_REP_DEVLIST
      BY <3>1 DEF IsOpReply, USBIP_VERSION, OP_REP_IMPORT, OP_REP_DEVLIST
    <3>. QED BY <1>4, <2>2, <3>2 DEF ReplyNeeds
  <2>3. ASSUME ~(m < 4) PROVE DevlistNeeds(S) = IF m < 18 THEN m + 1 ELSE 19
    <3>1. S[4] = 1
      BY <1>3, <1>4, <2>3
    <3>2. DevlistNeeds(S) = IF m < 18 \/ 18 + S[18] = 0 THEN m + 1 ELSE 18 + S[18]
      BY <1>4, <3>1, DevlistEnds
    <3>3. ~(m < 18) => S[18] = 1
      BY <1>3, <1>4
    <3>. QED BY <3>2, <3>3
  <2>4. m < 3 => m < 4
    OBVIOUS
  <2>. QED BY <2>1, <2>2, <2>3, <2>4
<1>5. ASSUME NEW m \in 1 .. Len(R) - 1 PROVE m < ReplyNeeds(SubSeq(R, 1, m), commands)
  <2>1. m \in 1 .. Len(R) /\ m \in 1 .. 19 /\ m < 19
    BY <1>2
  <2>2. /\ Len(SubSeq(R, 1, m)) = m
        /\ \A i \in 1 .. m : SubSeq(R, 1, m)[i] = R[i]
    BY <1>2, <2>1, Beginning
  <2>3. ReplyNeeds(SubSeq(R, 1, m), commands)
          = IF m < 3 THEN 3 ELSE IF m < 4 THEN 4 ELSE IF m < 18 THEN m + 1 ELSE 19
    BY <1>4, <2>1, <2>2
  <2>. QED BY <2>1, <2>3
<1>6. ~(Len(R) < ReplyNeeds(R, commands))
  <2>1. 19 \in 1 .. 19 /\ ~(19 < 3) /\ ~(19 < 4) /\ ~(19 < 18)
    OBVIOUS
  <2>2. ReplyNeeds(R, commands) = 19
    BY <1>2, <1>4, <2>1
  <2>. QED BY <1>2, <2>2
<1>7. ReplyOf(R, commands) = RepDevlist(<<1>>)
  <2>1. R[1] # USBIP_RET_SUBMIT /\ R[1] # USBIP_RET_UNLINK /\ IsOpReply(R)
    BY <1>3 DEF IsOpReply, USBIP_RET_SUBMIT, USBIP_RET_UNLINK, USBIP_VERSION
  <2>2. ReplyOf(R, commands) = [type |-> "op_rep", status |-> R[3], cells |-> R]
    BY <2>1 DEF ReplyOf
  <2>3. R = RepDevlist(<<1>>).cells
    BY <1>1 DEF ReplyCells, RepDevlist
  <2>. QED BY <1>3, <2>2, <2>3 DEF RepDevlist
<1>. QED BY <1>1, <1>5, <1>6, <1>7 DEF Marked

-----------------------------------------------------------------------------
(* Every reply that was written is marked, for the client whose commands   *)
(* they answer, but for the data of a control URB with the wrong direction.*)

LEMMA CellsOfReplies ==
  \A r \in Reply : ReplyCells(r) \in Seq(Int) /\ Len(ReplyCells(r)) > 0
<1> SUFFICES ASSUME NEW r \in Reply PROVE ReplyCells(r) \in Seq(Int) /\ Len(ReplyCells(r)) > 0
  OBVIOUS
<1>1. CASE r \in SubmitReply
  <2>1. ReplyCells(r) \in Seq(Int) /\ Len(ReplyCells(r)) = 12 + r.data /\ r.data \in Nat
    BY <1>1, SubmitReplyHeader DEF HeaderCells, SubmitReply
  <2>. QED BY <2>1
<1>2. CASE r \in UnlinkReply
  <2>1. ReplyCells(r) \in Seq(Int) /\ Len(ReplyCells(r)) = 12
    BY <1>2, UnlinkReplyHeader DEF HeaderCells
  <2>. QED BY <2>1
<1>3. CASE r \in OpReplies
  <2>1. r = RepDevlist(<<1>>) \/ r = RepImport(0, 1) \/ r = RepImport(4, 1)
    BY <1>3 DEF OpReplies
  <2>2. CASE r = RepDevlist(<<1>>)
    BY <2>2, DevlistCells
  <2>3. CASE r = RepImport(0, 1)
    BY <2>3, ImportCells
  <2>4. CASE r = RepImport(4, 1)
    BY <2>4, ImportCells
  <2>. QED BY <2>1, <2>2, <2>3, <2>4
<1>. QED BY <1>1, <1>2, <1>3 DEF Reply, UrbReply

LEMMA AllMarked ==
  ASSUME sent \in Seq(Command), taken \in 0 .. Len(sent), AllLegible, ~Garbled,
         NEW r \in Replies
  PROVE  Marked(ReplyCells(r), r, sent)
<1>1. CASE r \in OpReplies
  <2>1. r = RepDevlist(<<1>>) \/ r = RepImport(0, 1) \/ r = RepImport(4, 1)
    BY <1>1 DEF OpReplies
  <2>. QED BY <2>1, DevlistMarked, ImportMarked
<1>2. CASE r \in UrbReply /\ Legible(r)
  <2>1. r.seq \in 1 .. taken /\ r.seq \in 1 .. Len(sent) /\ ~Misdirected(r.seq)
    BY <1>2 DEF Legible, Garbled
  <2>2. CASE r \in SubmitReply
    <3>1. r.type = "ret_submit"
      BY <2>2 DEF SubmitReply
    <3>2. /\ sent[r.seq].type = "submit"
          /\ sent[r.seq].dir = In => r.actual = r.data
          /\ sent[r.seq].dir = Out => r.data = 0
      BY <1>2, <2>1, <3>1 DEF Legible
    <3>. QED BY <2>1, <2>2, <3>2, SubmitMarked
  <2>3. CASE r \in UnlinkReply
    <3>1. r.type = "ret_unlink"
      BY <2>3 DEF UnlinkReply
    <3>2. sent[r.seq].type = "unlink" /\ sent[r.seq].target = r.target
      BY <1>2, <3>1 DEF Legible
    <3>. QED BY <2>1, <2>3, <3>2, UnlinkMarked
  <2>. QED BY <1>2, <2>2, <2>3 DEF UrbReply
<1>. QED BY <1>1, <1>2 DEF AllLegible

-----------------------------------------------------------------------------
(* On the wire.                                                            *)

\* All that was written has arrived.
Between(all, got) == got = [packets |-> all, partial |-> <<>>]

\* Of the last reply the cells out have not arrived, of the others all have.
Amid(out, all, got) ==
  \E before \in Seq(Reply), r \in Reply, a \in Nat :
    LET R == ReplyCells(r) IN
    /\ all = Append(before, r) /\ a < Len(R)
    /\ got = [packets |-> before, partial |-> SubSeq(R, 1, a)]
    /\ out = SubSeq(R, a + 1, Len(R))

Arrived(all, got) == \E k \in 0 .. Len(all) : got.packets = SubSeq(all, 1, k)

Wire ==
  /\ rxOut \in Seq(Int) /\ txOut \in Seq(Int)
  /\ tx = "writing" => txOut # <<>>
  /\ ~mixed => rxOut = <<>> \/ txOut = <<>>
  /\ rx = "aborted" \/ txError => client = "closed" \/ ~socket
  /\ ~Garbled => Arrived(writes, toClient)
  /\ ~Garbled /\ client # "closed" /\ rx # "aborted" /\ ~txError =>
       \/ rxOut = <<>> /\ txOut = <<>> /\ Between(writes, toClient)
       \/ txOut = <<>> /\ Amid(rxOut, writes, toClient)
       \/ rxOut = <<>> /\ Amid(txOut, writes, toClient)

\* Of a reply that has not arrived some cell is to be written.
LEMMA AmidIsMore ==
  ASSUME NEW all, NEW got
  PROVE  ~Amid(<<>>, all, got)
<1> SUFFICES ASSUME NEW q \in Reply, NEW a \in Nat, a < Len(ReplyCells(q)),
                    <<>> = SubSeq(ReplyCells(q), a + 1, Len(ReplyCells(q)))
             PROVE  FALSE
  BY DEF Amid
<1>1. PICK R, S : R = ReplyCells(q) /\ S = SubSeq(R, a + 1, Len(R))
  OBVIOUS
<1>2. R \in Seq(Int) /\ a < Len(R) /\ Len(R) \in Nat
  BY <1>1, CellsOfReplies
<1>3. a + 1 \in Int /\ Len(R) \in Int /\ a + 1 <= Len(R)
      /\ \A i \in a + 1 .. Len(R) : R[i] \in Int
  BY <1>2
<1>4. Len(S) = Len(R) - (a + 1) + 1
  BY <1>1, <1>3, SubSeqProperties
<1>5. Len(S) = 0
  BY <1>1
<1>. QED BY <1>2, <1>4, <1>5

LEMMA BetweenArrived ==
  ASSUME NEW all \in Seq(Reply), NEW got, Between(all, got)
  PROVE  Arrived(all, got)
<1>1. Len(all) \in 0 .. Len(all) /\ SubSeq(all, 1, Len(all)) = all
  BY SubSeqFull
<1>2. got.packets = all
  BY DEF Between
<1>. QED BY <1>1, <1>2 DEF Arrived

LEMMA AmidArrived ==
  ASSUME NEW all, NEW got, NEW out, Amid(out, all, got)
  PROVE  Arrived(all, got)
<1>1. PICK before \in Seq(Reply), r \in Reply :
        all = Append(before, r) /\ got.packets = before
  BY DEF Amid
<1> DEFINE k == Len(before)
<1>2. k \in 0 .. Len(all) /\ Len(all) = k + 1 /\ k \in Nat /\ all \in Seq(Reply)
  BY <1>1
<1>3. SubSeq(all, 1, k) = before
  BY <1>1, <1>2
<1>. QED BY <1>1, <1>2, <1>3 DEF Arrived

LEMMA ArrivedMore ==
  ASSUME NEW all \in Seq(Reply), NEW r \in Reply, NEW got, Arrived(all, got)
  PROVE  Arrived(Append(all, r), got)
<1>1. PICK k \in 0 .. Len(all) : got.packets = SubSeq(all, 1, k)
  BY DEF Arrived
<1>2. k \in 0 .. Len(Append(all, r))
  OBVIOUS
<1>3. SubSeq(Append(all, r), 1, k) = SubSeq(all, 1, k)
  OBVIOUS
<1>. QED BY <1>1, <1>2, <1>3 DEF Arrived

LEMMA ArrivedPrefix ==
  ASSUME NEW all \in Seq(Reply), NEW got, Arrived(all, got)
  PROVE  IsPrefix(got.packets, all)
<1>1. PICK k \in 0 .. Len(all) : got.packets = SubSeq(all, 1, k)
  BY DEF Arrived
<1>2. PICK p : p = SubSeq(all, 1, k)
  OBVIOUS
<1>3. p \in Seq(Reply) /\ Len(p) = k /\ Len(all) \in Nat
  BY <1>2
<1>4. SubSeq(p, 1, Len(p)) = p
  BY <1>3, SubSeqFull
<1>. QED BY <1>1, <1>2, <1>3, <1>4 DEF IsPrefix

\* A coroutine begins to write when nothing is being written.
LEMMA AmidBegins ==
  ASSUME NEW all \in Seq(Reply), NEW got, Between(all, got), NEW r \in Reply
  PROVE  Amid(ReplyCells(r), Append(all, r), got)
<1>1. PICK R : R = ReplyCells(r)
  OBVIOUS
<1>2. R \in Seq(Int) /\ 0 < Len(R)
  BY <1>1, CellsOfReplies
<1>3. SubSeq(R, 1, 0) = <<>> /\ SubSeq(R, 0 + 1, Len(R)) = R
  <2>1. SubSeq(R, 1, Len(R)) = R
    BY <1>2, SubSeqFull
  <2>2. SubSeq(R, 1, 0) = <<>>
    BY <1>2, SubSeqEmpty
  <2>. QED BY <2>1, <2>2
<1>4. got = [packets |-> all, partial |-> SubSeq(R, 1, 0)]
  BY <1>3 DEF Between
<1>5. 0 \in Nat /\ all \in Seq(Reply) /\ r \in Reply
  OBVIOUS
<1>. QED BY <1>1, <1>2, <1>3, <1>4, <1>5 DEF Amid

LEMMA PiecesAre ==
  ASSUME NEW out \in Seq(Int), out # <<>>, NEW n \in Pieces(out)
  PROVE  n \in 1 .. Len(out)
<1>1. Len(out) \in Nat /\ Len(out) # 0
  OBVIOUS
<1>. QED BY <1>1 DEF Pieces, HeaderCells

\* A write makes progress.
LEMMA PieceWritten ==
  ASSUME sent \in Seq(Command), taken \in 0 .. Len(sent), AllLegible, ~Garbled,
         writes \in Seq(Reply), NEW out \in Seq(Int), NEW n \in 1 .. Len(out),
         Amid(out, writes, toClient), client # "closed", Deliver(SubSeq(out, 1, n))
  PROVE  LET rest == SubSeq(out, n + 1, Len(out)) IN
         \/ rest = <<>> /\ Between(writes, toClient')
         \/ Amid(rest, writes, toClient')
<1>1. PICK before \in Seq(Reply), r \in Reply, a \in Nat :
        /\ writes = Append(before, r) /\ a < Len(ReplyCells(r))
        /\ toClient = [packets |-> before, partial |-> SubSeq(ReplyCells(r), 1, a)]
        /\ out = SubSeq(ReplyCells(r), a + 1, Len(ReplyCells(r)))
  BY DEF Amid
<1>2. PICK R : /\ R = ReplyCells(r) /\ writes = Append(before, r) /\ a < Len(R)
               /\ toClient = [packets |-> before, partial |-> SubSeq(R, 1, a)]
               /\ out = SubSeq(R, a + 1, Len(R))
  BY <1>1
<1>3. R \in Seq(Int) /\ Len(R) \in Nat
  BY <1>2, CellsOfReplies
<1>4. Len(out) = Len(R) - a /\ \A k \in 1 .. Len(out) : out[k] = R[a + k]
  <2>1. a + 1 \in Int /\ Len(R) \in Int /\ a + 1 <= Len(R)
        /\ \A i \in a + 1 .. Len(R) : R[i] \in Int
    BY <1>2, <1>3
  <2>2. /\ Len(out) = Len(R) - (a + 1) + 1
        /\ \A i \in 1 .. Len(R) - (a + 1) + 1 : out[i] = R[(a + 1) + i - 1]
    BY <1>2, <2>1, SubSeqProperties
  <2>. QED BY <1>2, <1>3, <2>2
<1>5. /\ Len(out) = Len(R) - a /\ Len(R) \in Nat /\ a \in Nat /\ n \in Nat
      /\ 1 <= n /\ n <= Len(out)
  <2>1. Len(out) \in Nat
    OBVIOUS
  <2>. QED BY <1>3, <1>4, <2>1
<1>6. n \in Nat /\ n > 0 /\ a + n <= Len(R)
  BY <1>5
<1>7. PICK cells : cells = SubSeq(out, 1, n)
  OBVIOUS
<1>8. Len(cells) = n /\ \A k \in 1 .. n : cells[k] = R[a + k]
  <2>1. Len(cells) = n /\ \A k \in 1 .. n : cells[k] = out[k]
    BY <1>7, Beginning
  <2>2. \A k \in 1 .. n : k \in 1 .. Len(out)
    BY <1>3, <1>4
  <2>. QED BY <1>4, <2>1, <2>2
<1>9. Marked(R, r, sent)
  <2>1. r \in Replies
    <3>1. Len(writes) \in DOMAIN writes /\ writes[Len(writes)] = r
      BY <1>2
    <3>. QED BY <3>1 DEF Replies, Elements
  <2>. QED BY <1>2, <2>1, AllMarked
<1>10. toClient' = IF a + n < Len(R)
                  THEN [packets |-> before, partial |-> SubSeq(R, 1, a + n)]
                  ELSE [packets |-> writes, partial |-> <<>>]
  <2>1. toClient = Has(before, r, R, a)
    BY <1>2 DEF Has
  <2>2. toClient' = Receive(Has(before, r, R, a), cells, sent)
    BY <1>7, <2>1 DEF Deliver
  <2>3. PICK b : b = a + n
    OBVIOUS
  <2>4. IsPiece(cells, R, a, b)
    BY <1>6, <1>8, <2>3 DEF IsPiece
  <2>5. Receive(Has(before, r, R, a), cells, sent) = Has(before, r, R, b)
    BY <1>3, <1>9, <2>4, ReceivesPiece
  <2>. QED BY <1>2, <2>2, <2>3, <2>5 DEF Has
<1>11. CASE a + n < Len(R)
  <2>1. SubSeq(out, n + 1, Len(out)) = SubSeq(R, (a + n) + 1, Len(R))
    <3>1. /\ a + 1 \in 1 .. Len(R) /\ Len(R) \in 1 .. Len(R)
          /\ n + 1 \in 1 .. Len(R) - (a + 1) + 1 /\ Len(out) \in 1 .. Len(R) - (a + 1) + 1
          /\ (a + 1) + (n + 1) - 1 = (a + n) + 1 /\ (a + 1) + Len(out) - 1 = Len(R)
      BY <1>5, <1>11
    <3>2. SubSeq(SubSeq(R, a + 1, Len(R)), n + 1, Len(out))
            = SubSeq(R, (a + 1) + (n + 1) - 1, (a + 1) + Len(out) - 1)
      BY <1>3, <3>1, SubSeqOfSubSeq
    <3>. QED BY <1>2, <3>1, <3>2
  <2>2. a + n \in Nat
    BY <1>6
  <2>. QED BY <1>2, <1>10, <1>11, <2>1, <2>2 DEF Amid
<1>12. CASE ~(a + n < Len(R))
  <2>1. n = Len(out)
    <3>1. \A x, y, z, w \in Nat : x = y - z /\ w <= x /\ ~(z + w < y) => w = x
      OBVIOUS
    <3>2. Len(out) \in Nat
      OBVIOUS
    <3>. QED BY <1>5, <1>12, <3>1, <3>2, Zenon
  <2>2. SubSeq(out, n + 1, Len(out)) = <<>>
    BY <2>1, SubSeqEmpty
  <2>. QED BY <1>10, <1>12, <2>2 DEF Between
<1>. QED BY <1>11, <1>12

-----------------------------------------------------------------------------
(* The steps that write.                                                   *)

LEMMA WireSteps ==
  ASSUME [Next]_vars
  PROVE  \/ RxWrites \/ TxWrites \/ ReadOp \/ UnknownEndpoint \/ TxTake
         \/ RxThrows /\ UNCHANGED <<toClient, writes, mixed>>
         \/ TxWriteFails
         \/ /\ UNCHANGED <<toClient, writes, mixed, rxOut, txOut, txError>>
            /\ (rx' = "aborted") = (rx = "aborted") /\ (tx' = "writing" => tx = "writing")
            /\ (client' # "closed" => client # "closed") /\ (~socket => ~socket')
<1> USE DEF clientVars, rxVars, txVars, channelVars, wireVars, stopVars, deviceVars
<1>1. CASE ReadOpFails \/ Replied \/ StartTransfer \/ RxCheck \/ EpipeWritten \/ SplitStep
  BY <1>1 DEF ReadOpFails, Replied, StartTransfer, RxCheck, EpipeWritten, SplitStep
<1>2. CASE Leave \/ CloseSession \/ ReadFails
  BY <1>2 DEF Leave, CloseSession, ReadFails
<1>3. CASE TakeUnlink \/ Emulate \/ HandToHost \/ SplitRequest
  BY <1>3 DEF TakeUnlink, Emulate, HandToHost, SplitRequest, Read
<1>4. CASE TxCheck \/ TxClosed
  BY <1>4 DEF TxCheck, TxClosed
<1>5. CASE Callbacks
  BY <1>5 DEF Callbacks, HostReturns, ChunkCallback, LateChunk
<1>6. CASE RxWriteFails \/ HandlerEnds
  BY <1>6 DEF RxWriteFails, HandlerEnds, HandlerFails, HandlerThrows, SplitThrows, Read
<1>7. CASE Client \/ ImmediatelyStop \/ PostedClose \/ UNCHANGED vars
  BY <1>7 DEF Client, ClientOp, ClientSend, ClientCloses, ImmediatelyStop, PostedClose, vars
<1>. QED BY <1>1, <1>2, <1>3, <1>4, <1>5, <1>6, <1>7
    DEF Next, Receiver, Sender, HandlerEnds

LEMMA GarbledStays ==
  ASSUME Places, Stream, [Next]_vars, ~Garbled'
  PROVE  ~Garbled
<1>1. ~mixed
  <2>1. mixed => mixed'
    BY WireSteps
    DEF RxWrites, TxWrites, ReadOp, UnknownEndpoint, TxTake, TxWriteFails,
        wireVars, OpReply, NoReply, BeginWrite
  <2>. QED BY <2>1 DEF Garbled
<1>2. ASSUME NEW s \in 1 .. taken PROVE ~Misdirected(s)
  <2>1. s \in 1 .. taken' /\ Misdirected(s)' = Misdirected(s)
    BY Onwards
  <2>. QED BY <2>1 DEF Garbled
<1>. QED BY <1>1, <1>2 DEF Garbled

\* The coroutine that writes the cells out, the other one those that are in rest.
LEMMA WireWritten ==
  ASSUME Inv, Wire, ~Garbled, NEW out \in Seq(Int), out # <<>>, NEW n \in Pieces(out), socket,
         \/ out = rxOut \/ out = txOut, Deliver(SubSeq(out, 1, n)), writes' = writes
  PROVE  LET rest == SubSeq(out, n + 1, Len(out)) IN
         /\ Arrived(writes, toClient')
         /\ client # "closed" =>
              \/ rest = <<>> /\ Between(writes, toClient')
              \/ Amid(rest, writes, toClient')
<1>1. writes \in Seq(Reply)
  BY DEF Inv, Queues
<1>2. CASE client = "closed"
  BY <1>2 DEF Deliver, Wire
<1>3. CASE client # "closed"
  <2>1. Amid(out, writes, toClient)
    BY <1>3 DEF Wire
  <2>2. /\ sent \in Seq(Command) /\ taken \in 0 .. Len(sent) /\ AllLegible
        /\ n \in 1 .. Len(out)
    BY PiecesAre DEF Inv, Places, Stream, SentWell
  <2>3. \/ SubSeq(out, n + 1, Len(out)) = <<>> /\ Between(writes, toClient')
        \/ Amid(SubSeq(out, n + 1, Len(out)), writes, toClient')
    BY <1>1, <1>3, <2>1, <2>2, PieceWritten
  <2>. QED BY <1>1, <2>3, BetweenArrived, AmidArrived
<1>. QED BY <1>2, <1>3

LEMMA RestIsCells ==
  ASSUME NEW out \in Seq(Int), NEW n \in Pieces(out)
  PROVE  SubSeq(out, n + 1, Len(out)) \in Seq(Int)
<1>1. n + 1 \in Int /\ n + 1 >= 1 /\ Len(out) \in Nat
  BY DEF Pieces, HeaderCells
<1>. QED BY <1>1

LEMMA RxWritesWire == Inv /\ Inv' /\ Wire /\ [Next]_vars /\ RxWrites => Wire'
<1> SUFFICES ASSUME Inv, Inv', Wire, [Next]_vars, RxWrites PROVE Wire'
  OBVIOUS
<1>1. PICK n \in Pieces(rxOut) :
        Deliver(SubSeq(rxOut, 1, n)) /\ rxOut' = SubSeq(rxOut, n + 1, Len(rxOut))
  BY DEF RxWrites
<1>2. rxOut # <<>> /\ socket
      /\ UNCHANGED <<writes, mixed, tx, txOut, rx, txError, client, socket>>
  BY DEF RxWrites, txVars, clientVars
<1>3. PICK out : out = rxOut
  OBVIOUS
<1>4. out \in Seq(Int) /\ rxOut' \in Seq(Int) /\ txOut' \in Seq(Int)
  BY <1>1, <1>2, <1>3, RestIsCells DEF Wire
<1>5. ~mixed' => txOut' = <<>>
  BY <1>2 DEF Wire
<1>6. ASSUME ~Garbled'
      PROVE  /\ Arrived(writes', toClient')
             /\ client' # "closed" =>
                  \/ rxOut' = <<>> /\ Between(writes', toClient')
                  \/ Amid(rxOut', writes', toClient')
  <2>1. ~Garbled
    BY <1>6, GarbledStays DEF Inv
  <2>2. LET rest == SubSeq(out, n + 1, Len(out)) IN
        /\ Arrived(writes, toClient')
        /\ client # "closed" =>
             \/ rest = <<>> /\ Between(writes, toClient')
             \/ Amid(rest, writes, toClient')
    BY <1>1, <1>2, <1>3, <1>4, <2>1, WireWritten
  <2>. QED BY <1>1, <1>2, <1>3, <2>2
<1>7. ~Garbled' => ~mixed'
  BY DEF Garbled
<1>8. rx' = "aborted" \/ txError' => client' = "closed" \/ ~socket'
  BY <1>2, Zenon DEF Wire
<1>9. tx' = "writing" => txOut' # <<>>
  BY <1>2 DEF Wire
<1>. QED BY <1>4, <1>5, <1>6, <1>7, <1>8, <1>9 DEF Wire


LEMMA TxWritesWire == Inv /\ Inv' /\ Wire /\ [Next]_vars /\ TxWrites => Wire'
<1> SUFFICES ASSUME Inv, Inv', Wire, [Next]_vars, TxWrites PROVE Wire'
  OBVIOUS
<1>1. PICK n \in Pieces(txOut) :
        Deliver(SubSeq(txOut, 1, n)) /\ txOut' = SubSeq(txOut, n + 1, Len(txOut))
  BY DEF TxWrites
<1>2. txOut # <<>> /\ socket
      /\ UNCHANGED <<writes, mixed, rxOut, rx, txError, client, socket>>
  BY DEF TxWrites, rxVars, clientVars, Wire
<1>3. PICK out : out = txOut
  OBVIOUS
<1>4. out \in Seq(Int) /\ rxOut' \in Seq(Int) /\ txOut' \in Seq(Int)
  BY <1>1, <1>2, <1>3, RestIsCells DEF Wire
<1>5. ~mixed' => rxOut' = <<>>
  BY <1>2 DEF Wire
<1>6. ASSUME ~Garbled'
      PROVE  /\ Arrived(writes', toClient')
             /\ client' # "closed" =>
                  \/ txOut' = <<>> /\ Between(writes', toClient')
                  \/ Amid(txOut', writes', toClient')
  <2>1. ~Garbled
    BY <1>6, GarbledStays DEF Inv
  <2>2. LET rest == SubSeq(out, n + 1, Len(out)) IN
        /\ Arrived(writes, toClient')
        /\ client # "closed" =>
             \/ rest = <<>> /\ Between(writes, toClient')
             \/ Amid(rest, writes, toClient')
    BY <1>1, <1>2, <1>3, <1>4, <2>1, WireWritten
  <2>. QED BY <1>1, <1>2, <1>3, <2>2
<1>7. ~Garbled' => ~mixed'
  BY DEF Garbled
<1>8. rx' = "aborted" \/ txError' => client' = "closed" \/ ~socket'
  BY <1>2, Zenon DEF Wire
<1>9. tx' = "writing" => txOut' # <<>>
  BY DEF TxWrites
<1>. QED BY <1>4, <1>5, <1>6, <1>7, <1>8, <1>9 DEF Wire

\* A coroutine begins to write r; what the other one still has to write is in other.
LEMMA WireBegins ==
  ASSUME Inv, Wire, [Next]_vars, NEW r \in Reply, NEW other, BeginWrite(r, other),
         \/ rxOut = <<>> /\ other = txOut /\ rxOut' = ReplyCells(r) /\ txOut' = txOut
            /\ (tx' = "writing" => tx = "writing")
         \/ txOut = <<>> /\ other = rxOut /\ txOut' = ReplyCells(r) /\ rxOut' = rxOut,
         UNCHANGED <<toClient, client, socket, txError>>, rx' = "aborted" <=> rx = "aborted"
  PROVE  Wire'
<1>1. /\ writes \in Seq(Reply) /\ writes' = Append(writes, r)
      /\ mixed' = (mixed \/ other # <<>>)
  BY DEF BeginWrite, Inv, Queues
<1>2. ReplyCells(r) \in Seq(Int) /\ ReplyCells(r) # <<>>
  BY CellsOfReplies
<1>3. rxOut' \in Seq(Int) /\ txOut' \in Seq(Int)
  BY <1>2 DEF Wire
<1>4. ~mixed' => other = <<>> /\ (rxOut' = <<>> \/ txOut' = <<>>)
  BY <1>1
<1>5. tx' = "writing" => txOut' # <<>>
  BY <1>2 DEF Wire
<1>6. rx' = "aborted" \/ txError' => client' = "closed" \/ ~socket'
  BY Zenon DEF Wire
<1>7. ASSUME ~Garbled'
      PROVE  /\ Arrived(writes', toClient')
             /\ client' # "closed" /\ rx' # "aborted" /\ ~txError' =>
                  \/ txOut' = <<>> /\ Amid(rxOut', writes', toClient')
                  \/ rxOut' = <<>> /\ Amid(txOut', writes', toClient')
  <2>1. ~Garbled /\ ~mixed'
    BY <1>7, GarbledStays DEF Inv, Garbled
  <2>2. Arrived(writes', toClient')
    BY <1>1, <2>1, ArrivedMore DEF Wire
  <2>3. ASSUME client' # "closed", rx # "aborted", ~txError'
        PROVE  Amid(ReplyCells(r), writes', toClient')
    <3>1. rxOut = <<>> /\ txOut = <<>>
      BY <1>4, <2>1
    <3>2. ~Amid(<<>>, writes, toClient)
      BY AmidIsMore
    <3>3. Between(writes, toClient)
      BY <2>1, <2>3, <3>1, <3>2 DEF Wire
    <3>. QED BY <1>1, <3>3, AmidBegins
  <2>4. client' # "closed" /\ rx' # "aborted" /\ ~txError' =>
          \/ txOut' = <<>> /\ Amid(rxOut', writes', toClient')
          \/ rxOut' = <<>> /\ Amid(txOut', writes', toClient')
    <3> SUFFICES ASSUME client' # "closed", rx' # "aborted", ~txError'
                 PROVE  \/ txOut' = <<>> /\ Amid(rxOut', writes', toClient')
                        \/ rxOut' = <<>> /\ Amid(txOut', writes', toClient')
      OBVIOUS
    <3>. QED BY <1>4, <2>1, <2>3
  <2>. QED BY <2>2, <2>4
<1>. QED BY <1>3, <1>4, <1>5, <1>6, <1>7 DEF Wire, Garbled

LEMMA WireStep == Inv /\ Inv' /\ Wire /\ [Next]_vars => Wire'
<1> SUFFICES ASSUME Inv, Inv', Wire, [Next]_vars PROVE Wire'
  OBVIOUS
<1> USE DEF clientVars, rxVars, txVars, channelVars, wireVars, stopVars, deviceVars
<1>1. CASE RxWrites
  BY <1>1, RxWritesWire
<1>2. CASE TxWrites
  BY <1>2, TxWritesWire
<1>3. ASSUME UNCHANGED <<toClient, writes, mixed, rxOut, txOut, txError>>,
             (rx' = "aborted") = (rx = "aborted"), tx' = "writing" => tx = "writing",
             client' # "closed" => client # "closed", ~socket => ~socket'
      PROVE  Wire'
  <2>1. ~Garbled' => ~Garbled
    BY GarbledStays DEF Inv
  <2>2. /\ rxOut' \in Seq(Int) /\ txOut' \in Seq(Int)
        /\ tx' = "writing" => txOut' # <<>>
        /\ ~mixed' => rxOut' = <<>> \/ txOut' = <<>>
    BY <1>3, Zenon DEF Wire
  <2>3. rx' = "aborted" \/ txError' => client' = "closed" \/ ~socket'
    BY <1>3, Zenon DEF Wire
  <2>4. ~Garbled' => Arrived(writes', toClient')
    BY <1>3, <2>1, Zenon DEF Wire
  <2>5. ~Garbled' /\ client' # "closed" /\ rx' # "aborted" /\ ~txError' =>
          \/ rxOut' = <<>> /\ txOut' = <<>> /\ Between(writes', toClient')
          \/ txOut' = <<>> /\ Amid(rxOut', writes', toClient')
          \/ rxOut' = <<>> /\ Amid(txOut', writes', toClient')
    BY <1>3, <2>1, Zenon DEF Wire
  <2>. QED BY <2>2, <2>3, <2>4, <2>5 DEF Wire
<1>4. CASE ReadOp
  <2>1. rx = "op" /\ rxOut = <<>> /\ txOut = <<>> /\ tx = "none"
    BY <1>4 DEF ReadOp, Inv, Places, Early, Ends, Writing
  <2>2. /\ UNCHANGED <<toClient, client, socket, txError, tx, txOut>>
        /\ rx' # "aborted"
    BY <1>4 DEF ReadOp, OpReply, NoReply
  <2>3. CASE \E r \in OpReplies : OpReply(r)
    <3>1. PICK r \in OpReplies : OpReply(r)
      BY <2>3
    <3>2. r \in Reply /\ BeginWrite(r, txOut) /\ rxOut' = ReplyCells(r)
      BY <2>1, <3>1 DEF OpReply, Reply
    <3>. QED BY <2>1, <2>2, <3>2, WireBegins
  <2>4. CASE NoReply
    <3>1. UNCHANGED <<toClient, writes, mixed, rxOut, txOut, txError, tx, client, socket>>
      BY <2>2, <2>4 DEF NoReply
    <3>2. (rx' = "aborted") = (rx = "aborted")
      BY <2>1, <2>2
    <3>. QED BY <1>3, <3>1, <3>2
  <2>. QED BY <1>4, <2>3, <2>4 DEF ReadOp, OpReplies
<1>5. CASE UnknownEndpoint
  <2> DEFINE c == CommandOf(toServer)
  <2>1. rx = "reading" /\ rxOut = <<>>
    BY <1>5 DEF UnknownEndpoint, Read, Inv, Places, Ends, Writing
  <2>2. /\ UNCHANGED <<toClient, client, socket, txError, tx, txOut>> /\ rx' = "epipe"
        /\ rxOut' = ReplyCells(RetNoData(c.seq, EPIPE))
        /\ BeginWrite(RetNoData(c.seq, EPIPE), txOut) /\ Read(c)
    BY <1>5 DEF UnknownEndpoint
  <2>3. c.seq \in Nat
    BY <2>2, TakesNext DEF Inv
  <2>4. RetNoData(c.seq, EPIPE) \in Reply
    BY <2>3, SubmitReplies, StatusTypes DEF RetNoData, Reply
  <2>. QED BY <2>1, <2>2, <2>4, WireBegins
<1>6. CASE TxTake
  <2>1. /\ tx = "waiting" /\ queue # <<>> /\ txOut' = ReplyCells(Head(queue))
        /\ BeginWrite(Head(queue), rxOut)
        /\ UNCHANGED <<toClient, client, socket, txError, rx, rxOut>>
    BY <1>6 DEF TxTake
  <2>2. txOut = <<>>
    BY <2>1 DEF Inv, Places, Ends
  <2>3. Head(queue) \in Reply
    BY <2>1, Taken DEF Inv, Queues, Reply
  <2>. QED BY <2>1, <2>2, <2>3, WireBegins
<1>7. CASE RxThrows /\ UNCHANGED <<toClient, writes, mixed>>
  <2>1. /\ rx' = "aborted" /\ ~socket' /\ rxOut' = <<>> /\ txOut' = <<>> /\ tx' # "writing"
        /\ UNCHANGED <<toClient, writes, mixed>>
    BY <1>7 DEF RxThrows
  <2>2. ~Garbled' => Arrived(writes', toClient')
    BY <2>1, GarbledStays DEF Inv, Wire
  <2>. QED BY <2>1, <2>2 DEF Wire
<1>8. CASE TxWriteFails
  <2>1. /\ txError' /\ txOut' = <<>> /\ tx' = "over" /\ (~socket' \/ client' = "closed")
        /\ UNCHANGED <<toClient, writes, mixed, rxOut>>
    BY <1>8 DEF TxWriteFails
  <2>2. ~Garbled' => Arrived(writes', toClient')
    BY <2>1, GarbledStays DEF Inv, Wire
  <2>. QED BY <2>1, <2>2 DEF Wire
<1>. QED BY <1>1, <1>2, <1>3, <1>4, <1>5, <1>6, <1>7, <1>8, WireSteps

LEMMA WireInit == Init => Wire
<1> SUFFICES ASSUME Init PROVE Wire
  OBVIOUS
<1>1. /\ rxOut = <<>> /\ txOut = <<>> /\ tx = "none" /\ rx = "op" /\ ~txError
      /\ writes = <<>> /\ Between(writes, toClient)
  BY DEF Init, Between
<1>2. Arrived(writes, toClient)
  <2>1. writes \in Seq(Reply)
    BY <1>1
  <2>. QED BY <1>1, <2>1, BetweenArrived
<1>. QED BY <1>1, <1>2 DEF Wire

-----------------------------------------------------------------------------
(* The first packet.                                                       *)

IsSequence(q) == \E S : q \in Seq(S)

\* Of the packets that were there the client keeps the first.
FirstKept(old, new) ==
  IsSequence(new) /\ (old # <<>> => new # <<>> /\ new[1] = old[1])

LEMMA TakeKeeps ==
  ASSUME NEW old, NEW p, FirstKept(old, p.packets), NEW cell, NEW commands
  PROVE  FirstKept(old, TakeCell(p, cell, commands).packets)
<1>1. PICK q : q = TakeCell(p, cell, commands).packets
  OBVIOUS
<1>2. q = p.packets \/ \E x : q = Append(p.packets, x)
  BY <1>1 DEF TakeCell
<1>3. ASSUME NEW x, q = Append(p.packets, x) PROVE FirstKept(old, q)
  <2>1. PICK S, s : s = p.packets /\ s \in Seq(S)
    BY DEF FirstKept, IsSequence
  <2>2. s \in Seq(S \cup {x}) /\ x \in S \cup {x}
    BY <2>1
  <2>3. q = Append(s, x) /\ q \in Seq(S \cup {x}) /\ q # <<>>
    BY <1>3, <2>1, <2>2
  <2>4. s # <<>> => q[1] = s[1]
    BY <2>2, <2>3
  <2>. QED BY <2>1, <2>3, <2>4 DEF FirstKept, IsSequence
<1>. QED BY <1>1, <1>2, <1>3

LEMMA ReceiveKeeps ==
  ASSUME NEW p, IsSequence(p.packets), NEW cells, Len(cells) \in Nat, NEW commands
  PROVE  FirstKept(p.packets, Receive(p, cells, commands).packets)
<1>1. PICK f : Steps(f, p, cells, commands) /\ Receive(p, cells, commands) = f[Len(cells)]
  BY ReceiveSteps
<1> DEFINE Kept(n) == FirstKept(p.packets, f[n].packets)
           T == {n \in 0 .. Len(cells) : ~Kept(n)}
<1>2. Kept(0)
  BY <1>1 DEF Steps, FirstKept
<1>3. ASSUME NEW n \in 1 .. Len(cells), Kept(n - 1) PROVE Kept(n)
  <2>1. f[n] = TakeCell(f[n - 1], cells[n], commands)
    BY <1>1 DEF Steps
  <2>. QED BY <1>3, <2>1, TakeKeeps
<1> HIDE DEF Kept
<1>4. T = {}
  <2> SUFFICES ASSUME T # {} PROVE FALSE
    OBVIOUS
  <2>1. T \subseteq Nat
    OBVIOUS
  <2>2. PICK x \in T : \A y \in T : x <= y
    BY <2>1, LeastElement
  <2>3. x \in 1 .. Len(cells) /\ ~Kept(x)
    BY <1>2, <2>2
  <2>4. x - 1 \in 0 .. Len(cells) /\ ~(x <= x - 1)
    BY <2>3
  <2>5. Kept(x - 1)
    BY <2>2, <2>4
  <2>. QED BY <1>3, <2>3, <2>5
<1>5. Kept(Len(cells))
  BY <1>4
<1>. QED BY <1>1, <1>5 DEF Kept

\* The request has an answer.
Said == {"devlist", "import", "missing"}

OpRep(o) ==
  CASE o = "devlist" -> RepDevlist(<<1>>)
    [] o = "import"  -> RepImport(0, 1)
    [] o = "missing" -> RepImport(4, 1)

Opening ==
  /\ rx = "op" => op = "none"
  /\ op \in {"none", "used", "unknown"} =>
       /\ rx \in {"op", "left", "closed"} /\ tx = "none" /\ writes = <<>>
       /\ toClient = [packets |-> <<>>, partial |-> <<>>]
  /\ op \in Said => rx # "op" /\ writes # <<>> /\ writes[1] = OpRep(op)
  /\ rx \in {"op", "replying"} => ~mixed /\ ~txError
  /\ IsSequence(toClient.packets)
  /\ toClient.packets # <<>> => writes # <<>> /\ toClient.packets[1] = writes[1]
  /\ sent # <<>> => toClient.packets # <<>>
  /\ client # "closed" /\ op \in Said /\ rx \notin {"replying", "aborted"} =>
       toClient.packets # <<>>

LEMMA OpeningInit == Init => Opening
<1> SUFFICES ASSUME Init PROVE Opening
  OBVIOUS
<1>1. /\ rx = "op" /\ op = "none" /\ tx = "none" /\ writes = <<>> /\ sent = <<>>
      /\ toClient = [packets |-> <<>>, partial |-> <<>>] /\ toClient.packets = <<>>
  BY DEF Init
<1>2. ~mixed /\ ~txError
  BY DEF Init
<1>3. <<>> \in Seq({})
  OBVIOUS
<1>4. IsSequence(toClient.packets)
  BY <1>1, <1>3 DEF IsSequence
<1>. QED BY <1>1, <1>2, <1>4 DEF Opening, Said

\* The other steps leave what the client has, and go on after the opening.
LEMMA OpeningSteps ==
  ASSUME [Next]_vars
  PROVE  \/ RxWrites \/ TxWrites \/ ReadOp \/ UnknownEndpoint \/ TxTake
         \/ RxWriteFails \/ TxWriteFails \/ Replied \/ StartTransfer \/ ClientSend
         \/ /\ UNCHANGED <<toClient, writes, mixed, txError, op, sent>>
            /\ \/ rx' = rx \/ (rx = "op" /\ rx' = "left") \/ (rx = "left" /\ rx' = "closed")
               \/ (rx \in Serving /\ rx' \in Serving \cup {"left", "aborted"})
            /\ (tx = "none" => tx' = "none")
            /\ (client' # "closed" => client # "closed")
<1> USE DEF clientVars, rxVars, txVars, channelVars, wireVars, stopVars, deviceVars, Serving
<1>1. CASE ReadOpFails \/ RxCheck \/ EpipeWritten \/ SplitStep
  BY <1>1 DEF ReadOpFails, RxCheck, EpipeWritten, SplitStep
<1>2. CASE Leave \/ CloseSession \/ ReadFails
  BY <1>2 DEF Leave, CloseSession, ReadFails
<1>3. CASE TakeUnlink \/ Emulate \/ HandToHost \/ SplitRequest
  BY <1>3 DEF TakeUnlink, Emulate, HandToHost, SplitRequest, Read
<1>4. CASE TxCheck \/ TxClosed
  BY <1>4 DEF TxCheck, TxClosed
<1>5. CASE Callbacks
  BY <1>5 DEF Callbacks, HostReturns, ChunkCallback, LateChunk
<1>6. CASE HandlerEnds
  BY <1>6 DEF HandlerEnds, HandlerFails, HandlerThrows, SplitThrows, RxThrows, Read
<1>7. CASE ClientOp \/ ClientCloses \/ ImmediatelyStop \/ PostedClose \/ UNCHANGED vars
  BY <1>7 DEF ClientOp, ClientCloses, ImmediatelyStop, PostedClose, vars
<1>. QED BY <1>1, <1>2, <1>3, <1>4, <1>5, <1>6, <1>7
    DEF Next, Receiver, Sender, Client, HandlerEnds

\* While parse_op writes its answer, nobody else does.
LEMMA Answering ==
  ASSUME Inv, Opening, rx \in {"op", "replying"}
  PROVE  ~Garbled /\ tx = "none" /\ txOut = <<>> /\ rx # "aborted" /\ ~txError
<1>1. ~mixed /\ taken = 0 /\ tx = "none" /\ ~txError
  BY DEF Inv, Places, Early, Opening
<1>2. txOut = <<>>
  BY <1>1 DEF Inv, Places, Ends
<1>3. 1 .. taken = {}
  BY <1>1
<1>. QED BY <1>1, <1>2, <1>3 DEF Garbled

LEMMA Writers ==
  ASSUME Inv, Opening, tx # "none" \/ rx \notin {"op", "left", "closed"}
  PROVE  op \in Said
BY DEF Inv, Places, Words, Opening, Said

LEMMA DeliverOpening ==
  ASSUME Inv, Inv', Wire, Wire', Opening, [Next]_vars, RxWrites \/ TxWrites
  PROVE  Opening'
<1> USE DEF clientVars, rxVars, txVars, channelVars, wireVars, stopVars, deviceVars
<1>1. PICK out, n : n \in Pieces(out) /\ out \in Seq(Int) /\ Deliver(SubSeq(out, 1, n))
  BY DEF RxWrites, TxWrites, Wire
<1>2. /\ UNCHANGED <<writes, mixed, txError, op, sent, client, posted, rx, socket>>
      /\ socket
      /\ RxWrites => rx \in {"replying", "epipe"}
      /\ TxWrites => tx = "writing"
  BY DEF RxWrites, TxWrites, Writing
<1>3. op \in Said
  BY <1>2, Writers
<1>4. FirstKept(toClient.packets, toClient'.packets)
  <2>1. CASE client = "closed"
    BY <1>1, <2>1 DEF Deliver, FirstKept, Opening
  <2>2. CASE client # "closed"
    <3>1. toClient' = Receive(toClient, SubSeq(out, 1, n), sent)
      BY <1>1, <2>2 DEF Deliver
    <3>2. Len(SubSeq(out, 1, n)) \in Nat
      <4>1. n \in Int
        BY <1>1 DEF Pieces
      <4>2. Len(out) \in Nat /\ (n <= Len(out))
        BY <1>1 DEF Pieces
      <4>3. \A i \in 1 .. n : out[i] \in Int
        BY <1>1, <4>1, <4>2
      <4>4. SubSeq(out, 1, n) \in Seq(Int)
        BY <4>1, <4>3, SubSeqProperties
      <4>. QED BY <4>4
    <3>. QED BY <3>1, <3>2, ReceiveKeeps DEF Opening
  <2>. QED BY <2>1, <2>2
<1>5. IsSequence(toClient'.packets)
  BY <1>4 DEF FirstKept
<1>6. toClient'.packets # <<>> => toClient'.packets[1] = writes[1]
  <2>1. CASE toClient.packets # <<>>
    BY <1>4, <2>1 DEF FirstKept, Opening
  <2>2. CASE toClient.packets = <<>> /\ rx = "replying"
    <3>1. ~Garbled'
      <4>1. rx' = "replying" /\ ~mixed'
        BY <1>2, <2>2 DEF Opening
      <4>2. taken' = 0
        BY <4>1 DEF Inv, Places, Early
      <4>3. 1 .. taken' = {}
        BY <4>2
      <4>. QED BY <4>1, <4>3 DEF Garbled
    <3>2. PICK k \in 0 .. Len(writes) : toClient'.packets = SubSeq(writes, 1, k)
      BY <1>2, <3>1 DEF Wire, Arrived
    <3>3. writes \in Seq(Reply)
      BY DEF Inv, Queues
    <3>4. k # 0 => SubSeq(writes, 1, k)[1] = writes[1]
      BY <3>3
    <3>5. k = 0 => SubSeq(writes, 1, k) = <<>>
      BY <3>3, SubSeqEmpty
    <3>. QED BY <3>2, <3>4, <3>5
  <2>3. CASE toClient.packets = <<>> /\ rx # "replying"
    <3>1. client = "closed"
      BY <1>2, <1>3, <2>3 DEF Opening, Wire
    <3>. QED BY <1>1, <2>3, <3>1 DEF Deliver
  <2>. QED BY <2>1, <2>2, <2>3
<1>7. op \notin {"none", "used", "unknown"} /\ rx # "op"
  BY <1>3 DEF Said, Opening
<1>8. /\ sent' # <<>> => toClient'.packets # <<>>
      /\ client' # "closed" /\ op' \in Said /\ rx' \notin {"replying", "aborted"} =>
           toClient'.packets # <<>>
  BY <1>2, <1>4 DEF FirstKept, Opening
<1>9. rx' \in {"op", "replying"} => ~mixed' /\ ~txError'
  BY <1>2, Zenon DEF Opening
<1>10. op' \in Said => rx' # "op" /\ writes' # <<>> /\ writes'[1] = OpRep(op')
  BY <1>2, <1>7 DEF Opening
<1>11. toClient'.packets # <<>> => writes' # <<>>
  BY <1>2, <1>3 DEF Opening
<1>. QED BY <1>2, <1>5, <1>6, <1>7, <1>8, <1>9, <1>10, <1>11 DEF Opening

\* A coroutine begins to write, after the answer to the request.
LEMMA BeginOpening ==
  ASSUME Inv, Opening, NEW r, NEW other, BeginWrite(r, other), op \in Said,
         UNCHANGED <<toClient, op, sent, client, posted, txError>>,
         rx \notin {"op", "replying"}, rx' \notin {"op", "replying"},
         rx' = "aborted" <=> rx = "aborted"
  PROVE  Opening'
<1>1. writes' = Append(writes, r) /\ writes \in Seq(Reply)
  BY DEF BeginWrite, Inv, Queues
<1>2. writes # <<>> /\ writes[1] = OpRep(op) /\ op \notin {"none", "used", "unknown"}
  BY DEF Opening, Said
<1>3. writes' # <<>> /\ writes'[1] = writes[1]
  <2>1. Len(writes) \in Nat /\ Len(writes) # 0
    BY <1>1, <1>2
  <2>. QED BY <1>1, <2>1
<1>4. toClient'.packets # <<>> => toClient'.packets[1] = writes'[1]
  BY <1>3 DEF Opening
<1>5. IsSequence(toClient'.packets) /\ (sent' # <<>> => toClient'.packets # <<>>)
  BY DEF Opening
<1>6. client' # "closed" /\ op' \in Said /\ rx' \notin {"replying", "aborted"} =>
        toClient'.packets # <<>>
  BY DEF Opening
<1>. QED BY <1>2, <1>3, <1>4, <1>5, <1>6 DEF Opening

\* parse_op makes something of the request.
LEMMA ReadOpOpening ==
  ASSUME Inv, Opening, [Next]_vars, ReadOp
  PROVE  Opening'
<1> USE DEF clientVars, rxVars, txVars, channelVars, wireVars, stopVars, deviceVars
<1>1. /\ rx = "op" /\ sent = <<>> /\ writes = <<>> /\ tx = "none" /\ ~mixed /\ ~txError
      /\ toClient = [packets |-> <<>>, partial |-> <<>>]
  BY Answering DEF ReadOp, Inv, Places, Early, Garbled
<1>2. UNCHANGED <<toClient, sent, client, posted, tx, txError>>
  BY DEF ReadOp
<1>3. IsSequence(toClient'.packets) /\ toClient'.packets = <<>> /\ sent' = <<>>
  BY <1>1, <1>2 DEF Opening
<1>4. CASE NoReply /\ op' \in {"used", "unknown"}
  <2>1. rx' = "left" /\ writes' = <<>>
    BY <1>1, <1>4 DEF NoReply
  <2>. QED BY <1>1, <1>2, <1>3, <1>4, <2>1 DEF Opening, Said
<1>5. CASE op' \in Said /\ OpReply(OpRep(op'))
  <2>1. rx' = "replying" /\ writes' = Append(<<>>, OpRep(op'))
    BY <1>1, <1>5 DEF OpReply, BeginWrite
  <2>2. writes' # <<>> /\ writes'[1] = OpRep(op')
    BY <2>1
  <2>3. ~mixed'
    <3>1. mixed' = (mixed \/ <<>> # <<>>)
      BY <1>5 DEF OpReply, BeginWrite
    <3>. QED BY <1>1, <3>1
  <2>4. ~txError'
    BY <1>1, <1>2
  <2>5. op' \notin {"none", "used", "unknown"}
    BY <1>5 DEF Said
  <2>. QED BY <1>3, <2>1, <2>2, <2>3, <2>4, <2>5 DEF Opening
<1>6. \/ NoReply /\ op' \in {"used", "unknown"}
      \/ op' \in Said /\ OpReply(OpRep(op'))
  BY DEF ReadOp, Said, OpRep
<1>. QED BY <1>4, <1>5, <1>6

\* The answer of parse_op has arrived when it goes on, if the client is there.
LEMMA AnswerArrived ==
  ASSUME Inv, Wire, Opening, rx = "replying", rxOut = <<>>, client # "closed"
  PROVE  toClient.packets # <<>>
<1>1. ~Garbled /\ txOut = <<>> /\ ~txError
  BY Answering
<1>2. ~Amid(<<>>, writes, toClient)
  BY AmidIsMore
<1>3. Between(writes, toClient)
  BY <1>1, <1>2 DEF Wire
<1>4. op \in Said
  BY Writers
<1>. QED BY <1>3, <1>4 DEF Between, Opening

LEMMA OpeningStep == Inv /\ Inv' /\ Wire /\ Wire' /\ Opening /\ [Next]_vars => Opening'
<1> SUFFICES ASSUME Inv, Inv', Wire, Wire', Opening, [Next]_vars PROVE Opening'
  OBVIOUS
<1> USE DEF clientVars, rxVars, txVars, channelVars, wireVars, stopVars, deviceVars
<1>1. CASE RxWrites \/ TxWrites
  BY <1>1, DeliverOpening
<1>2. CASE ReadOp
  BY <1>2, ReadOpOpening
<1>3. CASE UnknownEndpoint
  <2>1. PICK r : BeginWrite(r, txOut)
    BY <1>3 DEF UnknownEndpoint
  <2>2. /\ rx = "reading" /\ rx' = "epipe"
        /\ UNCHANGED <<toClient, op, sent, client, posted, txError>>
    BY <1>3 DEF UnknownEndpoint, Read
  <2>3. op \in Said
    BY <2>2, Writers
  <2>. QED BY <2>1, <2>2, <2>3, BeginOpening
<1>4. CASE TxTake
  <2>1. /\ tx = "waiting" /\ BeginWrite(Head(queue), rxOut)
        /\ UNCHANGED <<toClient, op, sent, client, posted, txError, rx>>
    BY <1>4 DEF TxTake
  <2>2. op \in Said /\ rx \notin {"op", "replying"}
    BY <2>1, Writers, Answering
  <2>. QED BY <2>1, <2>2, BeginOpening
<1>5. CASE RxWriteFails
  <2>1. /\ rx \in {"replying", "epipe"} /\ rx' = "aborted"
        /\ UNCHANGED <<toClient, writes, mixed, op, sent, client, posted, txError>>
    BY <1>5 DEF RxWriteFails, RxThrows, Writing
  <2>2. op \in Said
    BY <2>1, Writers
  <2>3. op \notin {"none", "used", "unknown"}
    BY <2>2 DEF Said
  <2>. QED BY <2>1, <2>2, <2>3 DEF Opening
<1>6. CASE TxWriteFails
  <2>1. /\ tx = "writing" /\ tx' = "over"
        /\ UNCHANGED <<toClient, writes, mixed, op, sent, client, posted, rx>>
    BY <1>6 DEF TxWriteFails
  <2>2. op \in Said /\ rx \notin {"op", "replying"}
    BY <2>1, Writers, Answering
  <2>3. op \notin {"none", "used", "unknown"}
    BY <2>2 DEF Said
  <2>. QED BY <2>1, <2>2, <2>3 DEF Opening
<1>7. CASE Replied \/ StartTransfer
  <2>1. /\ rx = "replying" /\ rxOut = <<>> /\ rx' \in {"left", "checking"}
        /\ UNCHANGED <<toClient, writes, mixed, op, sent, client, posted, txError>>
    BY <1>7 DEF Replied, StartTransfer
  <2>2. op \in Said /\ (client # "closed" => toClient.packets # <<>>)
    BY <2>1, Writers, AnswerArrived
  <2>3. op \notin {"none", "used", "unknown"}
    BY <2>2 DEF Said
  <2>. QED BY <2>1, <2>2, <2>3 DEF Opening
<1>8. CASE ClientSend
  <2>1. /\ UNCHANGED <<toClient, writes, mixed, op, rx, tx, client, posted, txError>>
        /\ Imported
    BY <1>8 DEF ClientSend
  <2>2. toClient.packets # <<>>
    BY <2>1 DEF Imported
  <2>3. rx' \in {"op", "replying"} => ~mixed' /\ ~txError'
    BY <2>1, Zenon DEF Opening
  <2>. QED BY <2>1, <2>2, <2>3 DEF Opening
<1>9. ASSUME UNCHANGED <<toClient, writes, mixed, txError, op, sent>>,
             \/ rx' = rx \/ (rx = "op" /\ rx' = "left") \/ (rx = "left" /\ rx' = "closed")
             \/ (rx \in Serving /\ rx' \in Serving \cup {"left", "aborted"}),
             tx = "none" => tx' = "none",
             client' # "closed" => client # "closed"
      PROVE  Opening'
  <2>1. rx' \in {"op", "replying"} => rx' = rx
    BY <1>9 DEF Serving
  <2>2. rx \in {"op", "left", "closed"} => rx' \in {"op", "left", "closed"}
    BY <1>9 DEF Serving
  <2>3. rx' \notin {"replying", "aborted"} => rx \notin {"replying", "aborted"}
    BY <1>9 DEF Serving
  <2>4. rx' \in {"op", "replying"} => ~mixed' /\ ~txError'
    BY <1>9, <2>1, Zenon DEF Opening
  <2>5. rx' = "op" => rx = "op"
    BY <2>1
  <2>. QED BY <1>9, <2>2, <2>3, <2>4, <2>5 DEF Opening
<1>. QED
  BY <1>1, <1>2, <1>3, <1>4, <1>5, <1>6, <1>7, <1>8, <1>9, OpeningSteps

-----------------------------------------------------------------------------
(* The commands that were not taken.                                       *)

LEMMA ConcatPiece ==
  ASSUME NEW st \in Seq(Int), NEW a \in Nat, NEW x \in Seq(Int), a + Len(x) <= Len(st),
         \A k \in 1 .. Len(x) : st[a + k] = x[k]
  PROVE  SubSeq(st, 1, a) \o x = SubSeq(st, 1, a + Len(x))
<1>1. PICK b : b = a + Len(x)
  OBVIOUS
<1>2. /\ Len(x) \in Nat /\ Len(st) \in Nat /\ b \in Nat
      /\ b = a + Len(x) /\ a <= b /\ b <= Len(st)
  BY <1>1
<1>3. /\ 1 \in 1 .. Len(st) + 1 /\ a \in 1 - 1 .. Len(st) /\ b \in a .. Len(st)
  BY <1>2
<1>4. SubSeq(st, 1, a) \o SubSeq(st, a + 1, b) = SubSeq(st, 1, b)
  BY <1>3, ConcatAdjacentSubSeq
<1>5. SubSeq(st, a + 1, b) = x
  <2>1. PICK c, y : c = a + 1 /\ y = SubSeq(st, c, b)
    OBVIOUS
  <2>2. c \in Int /\ b \in Int /\ \A i \in c .. b : st[i] \in Int
    BY <1>2, <2>1
  <2>3. /\ y \in Seq(Int) /\ Len(y) = (IF c <= b THEN b - c + 1 ELSE 0)
        /\ \A i \in 1 .. b - c + 1 : y[i] = st[c + i - 1]
    <3>1. /\ SubSeq(st, c, b) \in Seq(Int)
          /\ Len(SubSeq(st, c, b)) = (IF c <= b THEN b - c + 1 ELSE 0)
          /\ \A i \in 1 .. b - c + 1 : SubSeq(st, c, b)[i] = st[c + i - 1]
      BY <2>2, SubSeqProperties
    <3>. QED BY <2>1, <3>1, Zenon
  <2>4. Len(y) = Len(x)
    BY <1>2, <2>1, <2>3
  <2>5. ASSUME NEW i \in 1 .. Len(x) PROVE y[i] = x[i]
    <3>1. i \in 1 .. b - c + 1 /\ c + i - 1 = a + i
      BY <1>2, <2>1
    <3>. QED BY <2>3, <3>1
  <2>6. y \in Seq(Int)
    BY <2>3
  <2>7. y = x
    BY <2>4, <2>5, <2>6, SeqEqual
  <2>. QED BY <2>1, <2>7
<1>. QED BY <1>1, <1>4, <1>5

\* The sequences seqs follow each other in st, the i-th begins after at[i] cells, and they
\* end after the first e.
Follow(seqs, st, at, e) ==
  LET m == Len(seqs) IN
  /\ m \in Nat /\ m > 0 /\ at[1] = 0 /\ at[m + 1] = e
  /\ \A i \in 1 .. m + 1 : at[i] \in Nat /\ at[i] <= Len(st)
  /\ \A i \in 1 .. m :
       /\ seqs[i] \in Seq(Int) /\ at[i + 1] = at[i] + Len(seqs[i])
       /\ \A k \in 1 .. Len(seqs[i]) : st[at[i] + k] = seqs[i][k]

LEMMA FlattenPieces ==
  ASSUME NEW st \in Seq(Int), NEW seqs, NEW at, NEW e, Follow(seqs, st, at, e)
  PROVE  FlattenSeq(seqs) = SubSeq(st, 1, e)
<1>1. PICK m : m = Len(seqs)
  OBVIOUS
<1>2. /\ m \in Nat /\ m > 0 /\ at[1] = 0 /\ at[m + 1] = e
      /\ \A i \in 1 .. m + 1 : at[i] \in Nat /\ at[i] <= Len(st)
      /\ \A i \in 1 .. m :
           /\ seqs[i] \in Seq(Int) /\ at[i + 1] = at[i] + Len(seqs[i])
           /\ \A k \in 1 .. Len(seqs[i]) : st[at[i] + k] = seqs[i][k]
  BY <1>1 DEF Follow
<1> DEFINE g == [i \in 1 .. m |-> SubSeq(st, 1, at[i + 1])]
           f == CHOOSE f : f = [i \in 1 .. Len(seqs) |->
                                  IF i = 1 THEN seqs[i] ELSE f[i - 1] \o seqs[i]]
<1>3. ASSUME NEW i \in 1 .. m PROVE SubSeq(st, 1, at[i]) \o seqs[i] = SubSeq(st, 1, at[i + 1])
  <2>1. PICK a, x : a = at[i] /\ x = seqs[i]
    OBVIOUS
  <2>2. a \in Nat /\ x \in Seq(Int) /\ a + Len(x) = at[i + 1]
    BY <1>2, <2>1
  <2>3. a + Len(x) <= Len(st) /\ \A k \in 1 .. Len(x) : st[a + k] = x[k]
    <3>1. i + 1 \in 1 .. m + 1
      BY <1>2
    <3>. QED BY <1>2, <2>1, <2>2, <3>1
  <2>4. SubSeq(st, 1, a) \o x = SubSeq(st, 1, a + Len(x))
    BY <2>2, <2>3, ConcatPiece
  <2>. QED BY <2>1, <2>2, <2>4
<1>4. seqs[1] = SubSeq(st, 1, at[2])
  <2>1. SubSeq(st, 1, 0) = <<>>
    BY SubSeqEmpty
  <2>2. PICK x : x = seqs[1] /\ x \in Seq(Int)
    BY <1>2
  <2>3. <<>> \o x = x
    BY <2>2
  <2>4. 1 \in 1 .. m /\ 1 + 1 = 2
    BY <1>2
  <2>5. SubSeq(st, 1, at[1]) \o seqs[1] = SubSeq(st, 1, at[2])
    BY <1>3, <2>4
  <2>. QED BY <1>2, <2>1, <2>2, <2>3, <2>5
<1>5. ASSUME NEW i \in 1 .. m
      PROVE  g[i] = IF i = 1 THEN seqs[i] ELSE g[i - 1] \o seqs[i]
  <2>1. CASE i = 1
    <3>1. g[1] = SubSeq(st, 1, at[2])
      BY <1>2, <2>1
    <3>. QED BY <1>4, <2>1, <3>1
  <2>2. CASE i # 1
    <3>1. i - 1 \in 1 .. m /\ (i - 1) + 1 = i
      BY <1>2, <2>2
    <3>2. g[i - 1] = SubSeq(st, 1, at[i]) /\ g[i] = SubSeq(st, 1, at[i + 1])
      BY <3>1
    <3>. QED BY <1>3, <2>2, <3>2
  <2>. QED BY <2>1, <2>2
<1>6. g = [i \in 1 .. m |-> g[i]]
  OBVIOUS
<1>7. g[m] = SubSeq(st, 1, e)
  BY <1>2
<1> HIDE DEF g
<1>8. g = [i \in 1 .. Len(seqs) |-> IF i = 1 THEN seqs[i] ELSE g[i - 1] \o seqs[i]]
  BY <1>1, <1>5, <1>6
<1>9. f = [i \in 1 .. Len(seqs) |-> IF i = 1 THEN seqs[i] ELSE f[i - 1] \o seqs[i]]
  BY <1>8
<1>10. FlattenSeq(seqs) = f[m]
  BY <1>1, <1>2 DEF FlattenSeq
<1> HIDE DEF f
<1>11. \A i \in 1 .. m : f[i] = IF i = 1 THEN seqs[i] ELSE f[i - 1] \o seqs[i]
  BY <1>1, <1>9
<1> DEFINE T == {i \in 1 .. m : f[i] # g[i]}
<1>12. T = {}
  <2> SUFFICES ASSUME T # {} PROVE FALSE
    OBVIOUS
  <2>1. T \subseteq Nat
    BY <1>2
  <2>2. PICK x \in T : \A y \in T : x <= y
    BY <2>1, LeastElement
  <2>3. x \in 1 .. m /\ f[x] # g[x]
    BY <2>2
  <2>4. x # 1
    BY <1>2, <1>5, <1>11, <2>3
  <2>5. x - 1 \in 1 .. m /\ ~(x <= x - 1)
    BY <1>2, <2>3, <2>4
  <2>6. f[x - 1] = g[x - 1]
    BY <2>2, <2>5
  <2>7. f[x] = f[x - 1] \o seqs[x]
    BY <1>11, <2>3, <2>4
  <2>8. g[x] = g[x - 1] \o seqs[x]
    BY <1>5, <2>3, <2>4
  <2>. QED BY <2>3, <2>6, <2>7, <2>8
<1>13. f[m] = g[m]
  <2>1. m \in 1 .. m
    BY <1>2
  <2>. QED BY <1>12, <2>1
<1>. QED BY <1>7, <1>10, <1>13

LEMMA UnreadCells ==
  ASSUME sent \in Seq(Command), taken \in 0 .. Len(sent), toServer \in Seq(Int),
         NEW closed, Framed(taken, sent, toServer, closed)
  PROVE  IsPrefix(Unread, toServer) /\ Len(toServer) =< Len(Unread) + 1
<1> DEFINE q == sent
           n == taken
           m == Len(sent) - taken
           seqs == [i \in 1 .. m |-> CommandCells(sent[taken + i])]
<1>1. PICK st, N : st = toServer /\ N = Len(sent)
  OBVIOUS
<1>2. PICK at \in [n + 1 .. N + 1 -> Nat] :
        /\ at[n + 1] = 0
        /\ \A s \in n + 1 .. N :
             /\ at[s + 1] = at[s] + Len(CommandCells(q[s]))
             /\ \A k \in 1 .. Len(CommandCells(q[s])) : st[at[s] + k] = CommandCells(q[s])[k]
        /\ \A s, t \in n + 1 .. N + 1 : s <= t => at[s] <= at[t]
        /\ Len(st) \in {at[N + 1], at[N + 1] + 1}
  BY <1>1 DEF Framed
<1>3. st \in Seq(Int) /\ Len(st) \in Nat /\ N \in Nat /\ n \in Nat /\ m \in Nat /\ n + m = N
      /\ N + 1 \in n + 1 .. N + 1
  BY <1>1
<1>4. at[N + 1] \in Nat /\ at[N + 1] <= Len(st) /\ Len(st) <= at[N + 1] + 1
  BY <1>2, <1>3
<1>5. Unread = FlattenSeq(seqs)
  BY DEF Unread
<1>6. \A i \in 1 .. m : taken + i \in 1 .. Len(sent) /\ sent[taken + i] \in Command
  BY <1>1, <1>3
<1>7. \A i \in 1 .. m : seqs[i] = CommandCells(sent[taken + i]) /\ seqs[i] \in Seq(Int)
  BY <1>6, CommandCellsType
<1>8. Len(seqs) = m
  BY <1>3, <1>7
<1>9. FlattenSeq(seqs) = SubSeq(st, 1, at[N + 1])
  <2>1. CASE m = 0
    <3>1. FlattenSeq(seqs) = seqs
      BY <1>8, <2>1 DEF FlattenSeq
    <3>2. seqs = <<>>
      BY <2>1
    <3>3. N = n
      BY <1>3, <2>1
    <3>4. SubSeq(st, 1, at[N + 1]) = <<>>
      BY <1>2, <3>3, SubSeqEmpty
    <3>. QED BY <3>1, <3>2, <3>4
  <2>2. CASE m # 0
    <3> DEFINE from == [i \in 1 .. m + 1 |-> at[n + i]]
    <3>1. PICK places : places = from
      OBVIOUS
    <3>2. \A i \in 1 .. m + 1 : n + i \in n + 1 .. N + 1 /\ places[i] = at[n + i]
      BY <1>3, <3>1
    <3>3. places[1] = 0 /\ places[m + 1] = at[N + 1]
      <4>1. 1 \in 1 .. m + 1 /\ m + 1 \in 1 .. m + 1 /\ n + (m + 1) = N + 1
        BY <1>3
      <4>. QED BY <1>2, <3>2, <4>1
    <3>4. \A i \in 1 .. m + 1 : places[i] \in Nat /\ places[i] <= Len(st)
      <4> SUFFICES ASSUME NEW i \in 1 .. m + 1 PROVE places[i] \in Nat /\ places[i] <= Len(st)
        OBVIOUS
      <4>1. n + i \in n + 1 .. N + 1 /\ n + i <= N + 1
        BY <1>3
      <4>2. at[n + i] \in Nat /\ at[n + i] <= at[N + 1]
        BY <1>2, <1>3, <4>1
      <4>. QED BY <1>4, <3>2, <4>2
    <3>5. ASSUME NEW i \in 1 .. m
          PROVE  /\ seqs[i] \in Seq(Int) /\ places[i + 1] = places[i] + Len(seqs[i])
                 /\ \A k \in 1 .. Len(seqs[i]) : st[places[i] + k] = seqs[i][k]
      <4>1. i \in 1 .. m + 1 /\ i + 1 \in 1 .. m + 1 /\ n + i \in n + 1 .. N
            /\ n + (i + 1) = (n + i) + 1
        BY <1>3
      <4>2. places[i] = at[n + i] /\ places[i + 1] = at[(n + i) + 1]
        BY <3>2, <4>1
      <4>3. seqs[i] = CommandCells(q[n + i]) /\ seqs[i] \in Seq(Int)
        BY <1>7
      <4> HIDE DEF seqs
      <4>. QED BY <1>2, <4>1, <4>2, <4>3
    <3>6. Follow(seqs, st, places, at[N + 1])
      <4>1. m > 0
        BY <1>3, <2>2
      <4> HIDE DEF seqs, m, n, from
      <4>. QED BY <1>3, <1>8, <3>3, <3>4, <3>5, <4>1 DEF Follow
    <3> HIDE DEF seqs, m, n, from
    <3>. QED BY <1>3, <3>6, FlattenPieces
  <2>. QED BY <2>1, <2>2
<1>10. PICK u, b : u = Unread /\ b = at[N + 1]
  OBVIOUS
<1>11. u = SubSeq(st, 1, b) /\ b \in Nat /\ b <= Len(st) /\ Len(st) <= b + 1
  BY <1>4, <1>5, <1>9, <1>10
<1>12. \A i \in 1 .. b : st[i] \in Int
  BY <1>3, <1>11
<1>13. u \in Seq(Int) /\ Len(u) = b
  <2>1. 1 \in Int /\ b \in Int
    BY <1>11
  <2>2. u \in Seq(Int) /\ Len(u) = IF 1 <= b THEN b - 1 + 1 ELSE 0
    BY <1>11, <1>12, <2>1, SubSeqProperties
  <2>. QED BY <1>11, <2>2
<1>14. SubSeq(u, 1, Len(u)) = u
  BY <1>13, SubSeqFull
<1>. QED BY <1>1, <1>10, <1>11, <1>13, <1>14 DEF IsPrefix

-----------------------------------------------------------------------------
(* The theorems.                                                           *)

LEMMA WireInvariance == Spec => [](Inv /\ Wire /\ Opening)
<1>1. Init => Inv /\ Wire /\ Opening
  BY InvInit, WireInit, OpeningInit
<1>2. Inv /\ Wire /\ Opening /\ [Next]_vars => (Inv /\ Wire /\ Opening)'
  BY InvStep, WireStep, OpeningStep
<1>. QED BY <1>1, <1>2, PTL DEF Spec

\* What the session writes is what the client reads, packet for packet, however the writes
\* are cut and whatever the client sends in between, and the session reads the commands it
\* takes to their ends.
THEOREM FramingKeptCorrect == Spec => []FramingKept
<1>1. Inv /\ Wire => FramingKept
  <2> SUFFICES ASSUME Inv, Wire PROVE FramingKept
    OBVIOUS
  <2>1. writes \in Seq(Reply)
    BY DEF Inv, Queues
  <2>2. ~Garbled => IsPrefix(toClient.packets, writes)
    BY <2>1, ArrivedPrefix DEF Wire
  <2>3. ASSUME ~Garbled, client # "closed", rxOut = <<>>, txOut = <<>>,
               rx # "aborted", ~txError
        PROVE  toClient.packets = writes /\ toClient.partial = <<>>
    <3>1. Between(writes, toClient)
      BY <2>3, AmidIsMore DEF Wire
    <3>. QED BY <3>1 DEF Between
  <2>4. ASSUME rx \in {"checking", "reading", "splitting", "epipe"}
        PROVE  IsPrefix(Unread, toServer) /\ Len(toServer) =< Len(Unread) + 1
    <3>1. /\ sent \in Seq(Command) /\ taken \in 0 .. Len(sent) /\ toServer \in Seq(Int)
          /\ Framed(taken, sent, toServer, client = "closed")
      BY <2>4 DEF Inv, Places, Stream, SentWell, InCommands
    <3>. QED BY <3>1, UnreadCells
  <2>. QED BY <2>2, <2>3, <2>4 DEF FramingKept
<1>. QED BY <1>1, WireInvariance, PTL

\* A client that waits for the answer to its request gets it, and first, before anything that
\* the coroutines of the transfer phase write.
THEOREM OpAnsweredCorrect == Spec => []OpAnswered
<1>1. Inv /\ Opening => OpAnswered
  <2> SUFFICES ASSUME Inv, Opening, rx = "closed" \/ sent # <<>>, client # "closed",
                      posted = "no"
               PROVE  /\ op \in Said =>
                           /\ toClient.packets # <<>>
                           /\ LET p == toClient.packets[1] IN
                              /\ p.type = "op_rep" /\ (p.status = 0) = (op # "missing")
                              /\ (p.cells[2] = OP_REP_DEVLIST) = (op = "devlist")
                      /\ op \in {"used", "unknown"} =>
                           toClient.packets = <<>> /\ toClient.partial = <<>>
    BY DEF OpAnswered, Said
  <2>1. ASSUME op \in Said
        PROVE  toClient.packets # <<>> /\ toClient.packets[1] = OpRep(op)
    BY <2>1 DEF Opening
  <2>2. /\ RepDevlist(<<1>>).cells[2] = 5
        /\ RepImport(0, 1).cells[2] = 3 /\ RepImport(4, 1).cells[2] = 3
    <3>1. \A r \in OpReplies : ReplyCells(r) = r.cells
      BY DEF OpReplies, ReplyCells, RepDevlist, RepImport
    <3>. QED BY <3>1, DevlistCells, ImportCells DEF OpReplies
  <2>3. ASSUME op \in Said
        PROVE  LET p == OpRep(op) IN
               /\ p.type = "op_rep" /\ (p.status = 0) = (op # "missing")
               /\ (p.cells[2] = OP_REP_DEVLIST) = (op = "devlist")
    <3>1. CASE op = "devlist"
      <4>1. OpRep(op) = RepDevlist(<<1>>)
        BY <3>1 DEF OpRep
      <4>2. RepDevlist(<<1>>).type = "op_rep" /\ RepDevlist(<<1>>).status = 0
        BY DEF RepDevlist
      <4>. QED BY <2>2, <3>1, <4>1, <4>2 DEF OP_REP_DEVLIST
    <3>2. CASE op = "import"
      <4>1. OpRep(op) = RepImport(0, 1)
        BY <3>2 DEF OpRep
      <4>2. RepImport(0, 1).type = "op_rep" /\ RepImport(0, 1).status = 0
        BY DEF RepImport
      <4>. QED BY <2>2, <3>2, <4>1, <4>2 DEF OP_REP_DEVLIST
    <3>3. CASE op = "missing"
      <4>1. OpRep(op) = RepImport(4, 1)
        BY <3>3 DEF OpRep
      <4>2. RepImport(4, 1).type = "op_rep" /\ RepImport(4, 1).status = 4
        BY DEF RepImport
      <4>. QED BY <2>2, <3>3, <4>1, <4>2 DEF OP_REP_DEVLIST
    <3>. QED BY <2>3, <3>1, <3>2, <3>3 DEF Said
  <2>4. op \in {"used", "unknown"} => toClient.packets = <<>> /\ toClient.partial = <<>>
    BY DEF Opening
  <2>. QED BY <2>1, <2>3, <2>4
<1>. QED BY <1>1, WireInvariance, PTL
=============================================================================
