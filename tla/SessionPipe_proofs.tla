-------------------------- MODULE SessionPipe_proofs --------------------------
(***************************************************************************)
(* Proofs of the safety properties of SessionPipe that do not depend on    *)
(* what the client makes of the stream, for any commands, any device and   *)
(* any sizes, in layers:                                                   *)
(*                                                                         *)
(*   Places   where the coroutines are, and what that says of the channel, *)
(*            the socket and the beginning of the session;                 *)
(*   Stream   the receiver reads the commands that were sent, one after    *)
(*            the other, whatever else arrives;                            *)
(*   Urbs..Flags  where each URB may be, its chunks in flight and counted, *)
(*            which handlers point to the session;                         *)
(*   Owned    who is to answer an URB, and that an answered one has nobody *)
(*            who would answer it again, unless its resubmission fails;    *)
(*            what a reply carries;                                        *)
(*   Causes   what can have led to an abort and to a fault;                *)
(*   Forgets  what becomes of the handlers, and NoneForgotten of the URBs. *)
(***************************************************************************)
EXTENDS SessionPipe, FiniteSetTheorems, SequenceTheorems, WellFoundedInduction, TLAPS

-----------------------------------------------------------------------------
(* Replies, and what an emulated device answers.                           *)

SubmitReply == [type : {"ret_submit"}, seq : Nat, status : Int, actual : Nat, data : Nat]
UnlinkReply == [type : {"ret_unlink"}, seq : Nat, target : Nat, status : Int]
UrbReply    == SubmitReply \cup UnlinkReply
OpReplies   == {RepDevlist(<<1>>), RepImport(0, 1), RepImport(4, 1)}
Reply       == UrbReply \cup OpReplies

\* The URB that a reply answers.
Target(r) == IF r.type = "ret_submit" THEN r.seq ELSE r.target

LEMMA OneTarget == \A s : \A r \in UrbReply : Answers(r, s) <=> s = Target(r)
BY DEF UrbReply, SubmitReply, UnlinkReply, Answers, Target

LEMMA OpAnswersNoUrb == \A s : \A r \in OpReplies : ~Answers(r, s)
BY DEF OpReplies, RepDevlist, RepImport, Answers

LEMMA SubmitReplies ==
  \A seq \in Nat, status \in Int, actual \in Nat, data \in Nat :
    /\ RetSubmit(seq, status, actual, data) \in SubmitReply \cap UrbReply
    /\ Target(RetSubmit(seq, status, actual, data)) = seq
    /\ RetSubmit(seq, status, actual, data).data = data
    /\ RetSubmit(seq, status, actual, data).actual = actual
    /\ RetSubmit(seq, status, actual, data).status = status
    /\ RetSubmit(seq, status, actual, data).type = "ret_submit"
    /\ RetSubmit(seq, status, actual, data).seq = seq
BY DEF RetSubmit, UrbReply, SubmitReply, Target

LEMMA UnlinkReplies ==
  \A seq \in Nat, target \in Nat, status \in Int :
    /\ RetUnlink(seq, target, status) \in UrbReply
    /\ Target(RetUnlink(seq, target, status)) = target
    /\ RetUnlink(seq, target, status).type = "ret_unlink"
    /\ RetUnlink(seq, target, status).seq = seq
    /\ RetUnlink(seq, target, status).target = target
BY DEF RetUnlink, UrbReply, UnlinkReply, Target

LEMMA StatusTypes == {StatusOK, StatusECONNRESET, StatusEPIPE, EPIPE} \subseteq Int
BY DEF StatusOK, StatusECONNRESET, StatusEPIPE, EPIPE

OwnSize == {"GetStatus", "GetConfiguration", "GetInterface", "GetProtocol"}

\* The reply has no more data than the setup packet asks for, and says how much it has.
Sized(r, p) ==
  /\ r.actual = r.data
  /\ r.data = 0 \/ (~IsOut(p) /\ (r.data <= p.length \/ p.request \in OwnSize))

\* A request to an endpoint the device does not have.
Ignored(p) ==
  p.standard /\ p.recipient = "Endpoint" /\ p.index \notin {0, 128} \cup DOMAIN EpTable

LawfulOutcome(o, c, p) ==
  /\ o.ec \in BOOLEAN
  /\ o.fault \in {"none", "out_of_range", "null_handler"}
  /\ o.fault = "out_of_range" => p.index \notin Interface
  /\ o.fault = "null_handler" => Handled # Interface
  /\ \/ o.replies = <<>> /\ (o.fault # "none" \/ o.ec \/ Ignored(p))
     \/ \E r \in SubmitReply : o.replies = <<r>> /\ r.seq = c.seq /\ Sized(r, p)

Lawful(O, c, p) == \A o \in O : LawfulOutcome(o, c, p)

LEMMA AnswerLawful ==
  ASSUME NEW c, NEW p, NEW r \in SubmitReply, r.seq = c.seq, Sized(r, p)
  PROVE  LawfulOutcome(Answer(r), c, p)
BY DEF Answer, Outcome, LawfulOutcome

LEMMA AnswerDataLawful ==
  ASSUME NEW c, c.seq \in Nat, NEW p, NEW statuses \in SUBSET Int, NEW sizes \in SUBSET Nat,
         \A n \in sizes : n = 0 \/ (~IsOut(p) /\ (n <= p.length \/ p.request \in OwnSize))
  PROVE  Lawful(AnswerData(c, statuses, sizes), c, p)
<1>1. ASSUME NEW st \in statuses, NEW n \in sizes
      PROVE  LawfulOutcome(Answer(RetBuffer(c.seq, st, n)), c, p)
  <2>1. /\ RetBuffer(c.seq, st, n) \in SubmitReply
        /\ RetBuffer(c.seq, st, n).seq = c.seq
        /\ RetBuffer(c.seq, st, n).data = n /\ RetBuffer(c.seq, st, n).actual = n
    BY SubmitReplies DEF RetBuffer
  <2>. QED BY <2>1, AnswerLawful DEF Sized
<1>. QED BY <1>1 DEF AnswerData, Lawful

LEMMA NoDataLawful ==
  ASSUME NEW c, c.seq \in Nat, NEW p, NEW st \in Int
  PROVE  LawfulOutcome(Answer(RetNoData(c.seq, st)), c, p)
<1>1. /\ RetNoData(c.seq, st) \in SubmitReply
      /\ RetNoData(c.seq, st).seq = c.seq
      /\ RetNoData(c.seq, st).data = 0 /\ RetNoData(c.seq, st).actual = 0
  BY SubmitReplies DEF RetNoData
<1>. QED BY <1>1, AnswerLawful DEF Sized

LEMMA AnswerStatusLawful ==
  ASSUME NEW c, c.seq \in Nat, NEW p, NEW statuses \in SUBSET Int
  PROVE  Lawful(AnswerStatus(c, statuses), c, p)
BY NoDataLawful DEF AnswerStatus, Lawful

\* The outcomes without a status to choose.
LEMMA FixedOutcomesLawful ==
  ASSUME NEW c, c.seq \in Nat, NEW p
  PROVE  /\ Lawful({Refuse(c)}, c, p) /\ Lawful({Fail(c)}, c, p)
         /\ Ignored(p) => Lawful({Silence}, c, p)
         /\ p.index \notin Interface => Lawful({Fault("out_of_range")}, c, p)
         /\ Handled # Interface => Lawful({Fault("null_handler")}, c, p)
<1>1. LawfulOutcome(Answer(RetNoData(c.seq, StatusEPIPE)), c, p)
  BY NoDataLawful, StatusTypes
<1>2. Lawful({Refuse(c)}, c, p) /\ Lawful({Fail(c)}, c, p)
  BY <1>1 DEF Lawful, LawfulOutcome, Refuse, Fail, Answer, Outcome
<1>3. ASSUME Ignored(p) PROVE Lawful({Silence}, c, p)
  <2>1. Silence.ec = FALSE /\ Silence.fault = "none" /\ Silence.replies = <<>>
    BY DEF Silence, Outcome
  <2>2. LawfulOutcome(Silence, c, p)
    BY <1>3, <2>1 DEF LawfulOutcome
  <2>. QED BY <2>2 DEF Lawful
<1>4. /\ p.index \notin Interface => Lawful({Fault("out_of_range")}, c, p)
      /\ Handled # Interface => Lawful({Fault("null_handler")}, c, p)
  BY DEF Lawful, LawfulOutcome, Fault, Outcome
<1>. QED BY <1>2, <1>3, <1>4

LEMMA ConfigurationSizeType == ConfigurationSize \in Nat
<1>1. IsFiniteSet(Interface) /\ Hid \subseteq Interface
  BY VirtualAssumption, FS_Interval DEF VirtualAssumption, Interface
<1>2. Cardinality(Hid) \in Nat
  BY <1>1, FS_Subset, FS_CardinalityType
<1>3. Cardinality({e \in DOMAIN EpTable : EpTable[e] \in Interface}) \in Nat
  BY VirtualAssumption, FS_Subset, FS_CardinalityType DEF VirtualAssumption
<1>. QED BY <1>2, <1>3, VirtualAssumption DEF VirtualAssumption, ConfigurationSize

LEMMA LeastIsLess ==
  \A a \in Nat, b \in Nat : Least(a, b) \in Nat /\ Least(a, b) <= b
BY DEF Least

LEMMA ControlLawful ==
  ASSUME NEW c, c.seq \in Nat, NEW p, p.length \in Nat
  PROVE  Lawful(Control(c, p), c, p)
<1> DEFINE L(O) == Lawful(O, c, p)
<1>1. HandlerStatus \in SUBSET Int /\ {StatusOK} \in SUBSET Int /\ {StatusEPIPE} \in SUBSET Int
  BY StatusTypes DEF HandlerStatus
<1>2. /\ L({Refuse(c)}) /\ L({Fail(c)})
      /\ Ignored(p) => L({Silence})
      /\ p.index \notin Interface => L({Fault("out_of_range")})
      /\ Handled # Interface => L({Fault("null_handler")})
  BY FixedOutcomesLawful
<1>3. \A S \in SUBSET Int : L(AnswerStatus(c, S))
  BY AnswerStatusLawful
<1>4. \A S \in SUBSET Int : L(AnswerData(c, S, {0}))
  <2> TAKE S \in SUBSET Int
  <2>1. {0} \in SUBSET Nat /\ \A n \in {0} : n = 0
    OBVIOUS
  <2>. QED BY <2>1, AnswerDataLawful
<1>5. \A S \in SUBSET Int, n \in Nat :
        ~IsOut(p) /\ p.request \in OwnSize => L(AnswerData(c, S, {n}))
  <2> TAKE S \in SUBSET Int, n \in Nat
  <2>1. {n} \in SUBSET Nat
    OBVIOUS
  <2>. QED BY <2>1, AnswerDataLawful
<1>6. \A S \in SUBSET Int, N \in SUBSET Nat :
        ~IsOut(p) /\ (\A n \in N : n <= p.length) => L(AnswerData(c, S, N))
  BY AnswerDataLawful
<1>7. ~IsOut(p) => L(GetDescriptor(c, p))
  <2> SUFFICES ASSUME ~IsOut(p) PROVE L(GetDescriptor(c, p))
    OBVIOUS
  <2> DEFINE cut == {Least(n, p.length) : n \in DescriptorSizes(p.value, p.length)}
  <2>1. DescriptorSizes(p.value, p.length) \in SUBSET Nat
    BY ConfigurationSizeType DEF DescriptorSizes
  <2>2. cut \in SUBSET Nat /\ \A n \in cut : n <= p.length
    BY <2>1, LeastIsLess
  <2>3. L(AnswerData(c, {StatusOK}, cut)) /\ L(AnswerData(c, HandlerStatus, cut))
    BY <1>1, <1>6, <2>2
  <2> HIDE DEF cut, L
  <2>4. L(AnswerData(c, {StatusEPIPE}, {0}))
    BY <1>1, <1>4
  <2>. QED BY <1>2, <2>3, <2>4 DEF GetDescriptor, cut
<1>8. ~IsOut(p) => L(GetInterfaceDescriptor(c, p.index, p))
  <2> SUFFICES ASSUME ~IsOut(p) PROVE L(GetInterfaceDescriptor(c, p.index, p))
    OBVIOUS
  <2>1. {p.length, Least(3, p.length)} \in SUBSET Nat
    BY LeastIsLess
  <2>2. \A n \in {p.length, Least(3, p.length)} : n <= p.length
    BY LeastIsLess
  <2>3. L(AnswerData(c, {StatusOK}, {p.length, Least(3, p.length)}))
    BY <1>1, <1>6, <2>1, <2>2
  <2> HIDE DEF L
  <2>. QED BY <1>1, <1>4, <2>3 DEF GetInterfaceDescriptor
<1>9. L(HidRequest(c, p))
  <2>1. {0, p.length} \in SUBSET Nat /\ \A n \in {0, p.length} : n <= p.length
    OBVIOUS
  <2>2. ~IsOut(p) => L(AnswerData(c, HandlerStatus, {0, p.length}))
    BY <1>1, <1>6, <2>1
  <2> HIDE DEF L
  <2>3. ~IsOut(p) /\ p.request = "GetProtocol" => L(AnswerData(c, HandlerStatus, {1}))
    BY <1>1, <1>5 DEF OwnSize
  <2>. QED BY <1>1, <1>4, <2>2, <2>3 DEF HidRequest
<1> HIDE DEF L
<1>10. L(StandardDevice(c, p))
  <2>1. ~IsOut(p) /\ p.request = "GetConfiguration" => L(AnswerData(c, {StatusOK}, {1}))
    BY <1>1, <1>5 DEF OwnSize
  <2>2. ~IsOut(p) /\ p.request = "GetStatus" => L(AnswerData(c, HandlerStatus, {2}))
    BY <1>1, <1>5 DEF OwnSize
  <2>. QED BY <1>1, <1>3, <1>4, <1>7, <2>1, <2>2 DEF StandardDevice
<1>11. L(StandardInterface(c, p))
  <2>1. ~IsOut(p) /\ p.request = "GetInterface" => L(AnswerData(c, HandlerStatus, {1}))
    BY <1>1, <1>5 DEF OwnSize
  <2>2. ~IsOut(p) /\ p.request = "GetStatus" => L(AnswerData(c, HandlerStatus, {2}))
    BY <1>1, <1>5 DEF OwnSize
  <2>. QED BY <1>1, <1>2, <1>3, <1>4, <1>8, <2>1, <2>2 DEF StandardInterface
<1>12. p.standard /\ p.recipient = "Endpoint" => L(StandardEndpoint(c, p))
  <2>1. ~IsOut(p) /\ p.request = "GetStatus" => L(AnswerData(c, HandlerStatus, {2}))
    BY <1>1, <1>5 DEF OwnSize
  <2>. QED BY <1>1, <1>2, <1>3, <1>4, <2>1 DEF StandardEndpoint, Ignored
<1>13. p.standard => L(Standard(c, p))
  BY <1>2, <1>10, <1>11, <1>12 DEF Standard
<1>14. L(NonStandard(c, p))
  BY <1>1, <1>2, <1>3, <1>4, <1>9 DEF NonStandard
<1>. QED BY <1>13, <1>14 DEF Control, L

-----------------------------------------------------------------------------
(* Places.                                                                 *)

\* The steps in which a handler ends the session.
HandlerEnds == HandlerFails \/ HandlerThrows \/ SplitThrows

\* Both coroutines were started, and the receiver has not closed the channel.
Serving == {"checking", "reading", "splitting", "epipe", "leaving"}

Rx == {"op", "replying", "left", "closed", "aborted"} \cup Serving

Words ==
  /\ kind \in {"host", "emulated"}
  /\ client \in {"op", "waits", "closed"}
  /\ op \in {"none", "devlist", "import", "missing", "used", "unknown"}
  /\ rx \in Rx
  /\ tx \in {"none", "checking", "waiting", "writing", "over"}
  /\ posted \in {"no", "posted", "done"}
  /\ channel \in {"none", "open", "closed"}

\* What there is before the coroutines are started, and before the first reply.
Early ==
  /\ rx = "op" =>
       /\ sent = <<>> /\ writes = <<>> /\ op = "none"
       /\ toClient = [packets |-> <<>>, partial |-> <<>>]
  /\ rx \in {"op", "replying"} =>
       /\ tx = "none" /\ channel = "none" /\ queue = <<>> /\ taken = 0 /\ ~rxError
       /\ known = {} /\ inFlight = {} /\ unlinks = {} /\ DOMAIN bulk = {}

\* The channel, the socket and the flags follow the coroutines.
Ends ==
  /\ rx \in Serving => channel # "none"
  /\ channel = "closed" => posted = "done" \/ rx \in {"left", "closed"}
  /\ ~socket => posted = "done" \/ rx \in {"closed", "aborted"}
  /\ rxError => stop
  /\ rxOut # <<>> => rx \in Writing
  /\ txOut # <<>> => tx = "writing"

Places == Words /\ taken \in Nat /\ Early /\ Ends

LEMMA PlacesInit == Init => Places
<1> SUFFICES ASSUME Init PROVE Places
  OBVIOUS
<1>1. Words /\ taken \in Nat
  BY DEF Init, Words, Rx, Serving
<1>2. Early
  BY DEF Init, Early
<1>3. Ends
  BY DEF Init, Ends, Serving
<1>. QED BY <1>1, <1>2, <1>3 DEF Places

LEMMA WordsStep == Words /\ [Next]_vars => Words'
<1> SUFFICES ASSUME Words, [Next]_vars PROVE Words'
  OBVIOUS
<1> USE DEF clientVars, rxVars, txVars, channelVars, stopVars, deviceVars, Words, Rx, Serving
<1>1. CASE ReadOp \/ ReadOpFails \/ RxWrites \/ RxWriteFails
  BY <1>1 DEF ReadOp, OpReply, NoReply, ReadOpFails, RxWrites, RxWriteFails, RxThrows
<1>2. CASE Replied \/ StartTransfer \/ CloseSession \/ RxCheck \/ ReadFails \/ Leave
  BY <1>2 DEF Replied, StartTransfer, CloseSession, RxCheck, ReadFails, Leave
<1>3. CASE UnknownEndpoint \/ EpipeWritten \/ TakeUnlink \/ Emulate
  BY <1>3 DEF UnknownEndpoint, EpipeWritten, TakeUnlink, Emulate
<1>4. CASE HandToHost \/ SplitRequest \/ SplitStep
  BY <1>4 DEF HandToHost, SplitRequest, SplitStep
<1>5. CASE HandlerEnds
  BY <1>5 DEF HandlerEnds, HandlerFails, HandlerThrows, SplitThrows, RxThrows
<1>6. CASE Sender
  BY <1>6 DEF Sender, TxCheck, TxTake, TxClosed, TxWrites, TxWriteFails
<1>7. ASSUME NEW s \in inFlight, HostReturns(s) PROVE Words'
  BY <1>7 DEF HostReturns
<1>8. ASSUME NEW s \in DOMAIN bulk, ChunkCallback(s) \/ LateChunk(s) PROVE Words'
  BY <1>8 DEF ChunkCallback, LateChunk
<1>9. CASE Client \/ ImmediatelyStop \/ PostedClose \/ UNCHANGED vars
  BY <1>9 DEF Client, ClientOp, ClientSend, ClientCloses, ImmediatelyStop, PostedClose, vars
<1>. QED
  BY <1>1, <1>2, <1>3, <1>4, <1>5, <1>6, <1>7, <1>8, <1>9
  DEF Next, Receiver, HandlerEnds, Callbacks

\* Nothing happens to a session's device or its channel before the transfer phase.
LEMMA EarlyStep == Words /\ Early /\ [Next]_vars => Early'
<1> SUFFICES ASSUME Words, Early, [Next]_vars PROVE Early'
  OBVIOUS
<1> USE DEF clientVars, rxVars, txVars, channelVars, wireVars, stopVars, deviceVars
<1>1. CASE ReadOp
  BY <1>1 DEF ReadOp, OpReply, NoReply, Early
<1>2. CASE ReadOpFails \/ RxWriteFails \/ Replied \/ StartTransfer \/ CloseSession
  BY <1>2 DEF ReadOpFails, RxWriteFails, RxThrows, Replied, StartTransfer, CloseSession, Early
<1>3. CASE RxWrites
  BY <1>3 DEF RxWrites, Writing, Early
<1>4. CASE RxCheck \/ ReadFails \/ EpipeWritten \/ Leave \/ SplitStep
  BY <1>4 DEF RxCheck, ReadFails, EpipeWritten, Leave, SplitStep, Early
<1>5. CASE UnknownEndpoint \/ TakeUnlink \/ Emulate \/ HandToHost \/ SplitRequest
  BY <1>5 DEF UnknownEndpoint, TakeUnlink, Emulate, HandToHost, SplitRequest, Read, Early
<1>6. CASE HandlerEnds
  BY <1>6 DEF HandlerEnds, HandlerFails, HandlerThrows, SplitThrows, RxThrows, Read, Early
<1>7. CASE Sender
  BY <1>7 DEF Sender, TxCheck, TxTake, TxClosed, TxWrites, TxWriteFails, Early
<1>8. ASSUME NEW s \in inFlight, HostReturns(s) PROVE Early'
  BY <1>8 DEF HostReturns, Early
<1>9. ASSUME NEW s \in DOMAIN bulk, ChunkCallback(s) \/ LateChunk(s) PROVE Early'
  BY <1>9 DEF ChunkCallback, LateChunk, Early
<1>10. CASE ClientOp \/ ClientCloses \/ ImmediatelyStop
  BY <1>10 DEF ClientOp, ClientCloses, ImmediatelyStop, Early
<1>11. CASE ClientSend
  <2>1. rx # "op"
    BY <1>11 DEF ClientSend, Imported, Early
  <2>. QED BY <1>11, <2>1 DEF ClientSend, Early
<1>12. CASE PostedClose \/ UNCHANGED vars
  BY <1>12 DEF PostedClose, vars, Early
<1>. QED
  BY <1>1, <1>2, <1>3, <1>4, <1>5, <1>6, <1>7, <1>8, <1>9, <1>10, <1>11, <1>12
  DEF Next, Receiver, HandlerEnds, Callbacks, Client

LEMMA EndsStep == Words /\ Early /\ Ends /\ [Next]_vars => Ends'
<1> SUFFICES ASSUME Words, Early, Ends, [Next]_vars PROVE Ends'
  OBVIOUS
<1> USE DEF clientVars, rxVars, txVars, channelVars, wireVars, stopVars, deviceVars, Writing,
            Serving
<1>1. CASE ReadOp
  BY <1>1 DEF ReadOp, OpReply, NoReply, Ends, Early
<1>2. CASE ReadOpFails \/ Replied \/ StartTransfer \/ CloseSession
  BY <1>2 DEF ReadOpFails, Replied, StartTransfer, CloseSession, Ends, Early
<1>3. CASE RxWriteFails
  BY <1>3 DEF RxWriteFails, RxThrows, Ends
<1>4. CASE RxWrites
  BY <1>4 DEF RxWrites, Ends
<1>5. CASE RxCheck \/ ReadFails \/ EpipeWritten \/ Leave \/ SplitStep
  BY <1>5 DEF RxCheck, ReadFails, EpipeWritten, Leave, SplitStep, Ends
<1>6. CASE UnknownEndpoint \/ TakeUnlink \/ SplitRequest
  BY <1>6 DEF UnknownEndpoint, TakeUnlink, SplitRequest, Read, Ends
<1>7. CASE HandToHost
  BY <1>7 DEF HandToHost, Read, Ends
<1>8. CASE HandlerEnds
  BY <1>8 DEF HandlerEnds, HandlerFails, HandlerThrows, SplitThrows, RxThrows, Read, Ends
<1>9. CASE Emulate
  <2>1. rxError' => stop'
    BY <1>9 DEF Emulate
  <2>. QED BY <1>9, <2>1 DEF Emulate, Read, Ends
<1>10. CASE Sender
  BY <1>10 DEF Sender, TxCheck, TxTake, TxClosed, TxWrites, TxWriteFails, Ends
<1>11. ASSUME NEW s \in inFlight, HostReturns(s) PROVE Ends'
  BY <1>11 DEF HostReturns, Ends
<1>12. ASSUME NEW s \in DOMAIN bulk, ChunkCallback(s) \/ LateChunk(s) PROVE Ends'
  BY <1>12 DEF ChunkCallback, LateChunk, Ends
<1>13. CASE Client
  BY <1>13 DEF Client, ClientOp, ClientSend, ClientCloses, Ends
<1>14. CASE ImmediatelyStop \/ PostedClose
  BY <1>14 DEF ImmediatelyStop, PostedClose, Ends
<1>15. CASE UNCHANGED vars
  BY <1>15 DEF vars, Ends
<1>. QED
  BY <1>1, <1>2, <1>3, <1>4, <1>5, <1>6, <1>7, <1>8, <1>9, <1>10, <1>11, <1>12,
     <1>13, <1>14, <1>15
  DEF Next, Receiver, HandlerEnds, Callbacks

-----------------------------------------------------------------------------
(* Stream.                                                                 *)

LEMMA UnitsAreCells ==
  \A n \in Nat : Units(n) \in Seq(Int) /\ Len(Units(n)) = n
BY DEF Units

LEMMA PacketCellsType == \A n \in Nat \cup {-1} : PacketCells(n) \in Nat
BY DEF PacketCells

LEMMA BeginsWith ==
  ASSUME NEW s \in Seq(Int), NEW t \in Seq(Int)
  PROVE  /\ s \o t \in Seq(Int) /\ Len(s \o t) = Len(s) + Len(t)
         /\ \A k \in 1 .. Len(s) : (s \o t)[k] = s[k]
         /\ \A k \in 1 .. Len(t) : (s \o t)[Len(s) + k] = t[k]
<1>1. Len(s) \in Nat /\ Len(t) \in Nat
  OBVIOUS
<1>. QED BY <1>1, ConcatProperties

\* The cells of a command: a header, which says how many others follow.
LEMMA SubmitHeader ==
  ASSUME NEW c \in Submission
  PROVE  LET s == SubmitCells(c) IN
         /\ s \in Seq(Int)
         /\ Len(s) = HeaderCells + (IF c.dir = In THEN 0 ELSE c.length) + PacketCells(c.packets)
         /\ s[1] = USBIP_CMD_SUBMIT /\ s[2] = c.seq /\ s[4] = c.dir /\ s[5] = c.ep
         /\ s[7] = c.length /\ s[9] = c.packets /\ s[11] = c.setup
<1> DEFINE head == Basic(USBIP_CMD_SUBMIT, c.seq, c.dir, c.ep)
                     \o <<0, c.length, 0, c.packets, 0, c.setup, 0>>
           data == IF c.dir = Out THEN Units(c.length) ELSE <<>>
           iso  == Units(PacketCells(c.packets))
<1>1. /\ c.seq \in Nat /\ c.dir \in {In, Out} /\ c.ep \in Nat /\ c.length \in Nat
      /\ c.packets \in Nat \cup {-1} /\ c.setup \in Nat
  BY DEF Submission
<1>2. /\ head \in Seq(Int) /\ Len(head) = HeaderCells
      /\ head[1] = USBIP_CMD_SUBMIT /\ head[2] = c.seq /\ head[4] = c.dir /\ head[5] = c.ep
      /\ head[7] = c.length /\ head[9] = c.packets /\ head[11] = c.setup
  BY <1>1 DEF Basic, HeaderCells, USBIP_CMD_SUBMIT, In, Out
<1>3. data \in Seq(Int) /\ Len(data) = IF c.dir = In THEN 0 ELSE c.length
  BY <1>1, UnitsAreCells DEF In, Out
<1>4. iso \in Seq(Int) /\ Len(iso) = PacketCells(c.packets)
  BY <1>1, PacketCellsType, UnitsAreCells
<1>5. SubmitCells(c) = (head \o data) \o iso
  BY DEF SubmitCells
<1> HIDE DEF head, data, iso
<1>6. /\ head \o data \in Seq(Int)
      /\ Len(head \o data) = HeaderCells + Len(data)
      /\ \A k \in 1 .. HeaderCells : (head \o data)[k] = head[k]
  BY <1>2, <1>3, BeginsWith
<1>7. /\ SubmitCells(c) \in Seq(Int)
      /\ Len(SubmitCells(c)) = HeaderCells + Len(data) + Len(iso)
      /\ \A k \in 1 .. HeaderCells + Len(data) : SubmitCells(c)[k] = (head \o data)[k]
  BY <1>4, <1>5, <1>6, BeginsWith
<1>8. \A k \in {1, 2, 4, 5, 7, 9, 11} : SubmitCells(c)[k] = head[k]
  <2>1. Len(data) \in Nat
    BY <1>3
  <2>2. \A k \in {1, 2, 4, 5, 7, 9, 11} : k \in 1 .. HeaderCells
    BY DEF HeaderCells
  <2>3. \A k \in 1 .. HeaderCells : k \in 1 .. HeaderCells + Len(data)
    BY <2>1 DEF HeaderCells
  <2>. QED BY <1>6, <1>7, <2>2, <2>3
<1>. QED BY <1>2, <1>3, <1>4, <1>7, <1>8

LEMMA UnlinkHeader ==
  ASSUME NEW c \in Cancellation
  PROVE  LET s == UnlinkCells(c) IN
         /\ s \in Seq(Int) /\ Len(s) = HeaderCells
         /\ s[1] = USBIP_CMD_UNLINK /\ s[2] = c.seq /\ s[6] = c.target
<1> DEFINE head == Basic(USBIP_CMD_UNLINK, c.seq, 0, 0) \o <<c.target>>
           rest == Units(6)
<1>1. c.seq \in Nat /\ c.target \in Nat
  BY DEF Cancellation
<1>2. /\ head \in Seq(Int) /\ Len(head) = 6
      /\ head[1] = USBIP_CMD_UNLINK /\ head[2] = c.seq /\ head[6] = c.target
  BY <1>1 DEF Basic, USBIP_CMD_UNLINK
<1>3. rest \in Seq(Int) /\ Len(rest) = 6
  BY UnitsAreCells
<1>4. UnlinkCells(c) = head \o rest
  BY DEF UnlinkCells
<1> HIDE DEF head, rest
<1>5. /\ head \o rest \in Seq(Int) /\ Len(head \o rest) = Len(head) + Len(rest)
      /\ \A k \in 1 .. Len(head) : (head \o rest)[k] = head[k]
  BY <1>2, <1>3, BeginsWith
<1>6. Len(head \o rest) = HeaderCells
  BY <1>2, <1>3, <1>5 DEF HeaderCells
<1>7. \A k \in {1, 2, 6} : (head \o rest)[k] = head[k]
  <2>1. \A k \in {1, 2, 6} : k \in 1 .. Len(head)
    BY <1>2
  <2>. QED BY <1>5, <2>1
<1>. QED BY <1>2, <1>4, <1>5, <1>6, <1>7

LEMMA CommandCellsType ==
  ASSUME NEW c \in Command
  PROVE  CommandCells(c) \in Seq(Int) /\ Len(CommandCells(c)) \in Nat
         /\ Len(CommandCells(c)) >= HeaderCells
<1>1. CASE c \in Submission
  <2>1. c.type = "submit" /\ c.length \in Nat /\ PacketCells(c.packets) \in Nat
    BY <1>1, PacketCellsType DEF Submission
  <2>2. PICK s : s = SubmitCells(c)
    OBVIOUS
  <2>3. /\ s \in Seq(Int)
        /\ Len(s) = 12 + (IF c.dir = In THEN 0 ELSE c.length) + PacketCells(c.packets)
    BY <1>1, <2>2, SubmitHeader DEF HeaderCells
  <2>4. Len(s) \in Nat /\ Len(s) >= 12
    BY <2>1, <2>3
  <2>. QED BY <2>1, <2>2, <2>3, <2>4 DEF CommandCells, HeaderCells
<1>2. CASE c \in Cancellation
  <2>1. c.type = "unlink"
    BY <1>2 DEF Cancellation
  <2>. QED BY <1>2, <2>1, UnlinkHeader DEF CommandCells
<1>. QED BY <1>1, <1>2 DEF Command

\* A stream that begins with the cells of a command is read as that command, to its end.
LEMMA CommandRead ==
  ASSUME NEW c \in Command, NEW s \in Seq(Int), Len(s) >= Len(CommandCells(c)),
         \A k \in 1 .. Len(CommandCells(c)) : s[k] = CommandCells(c)[k]
  PROVE  CommandNeeds(s) = Len(CommandCells(c)) /\ CommandOf(s) = c
<1>1. /\ s # <<>> /\ Len(s) >= HeaderCells
      /\ \A k \in {1, 2, 4, 5, 6, 7, 9, 11} : s[k] = CommandCells(c)[k]
  <2>1. CommandCells(c) \in Seq(Int) /\ Len(CommandCells(c)) >= 12 /\ Len(s) \in Nat
    BY CommandCellsType DEF HeaderCells
  <2>2. Len(CommandCells(c)) \in Nat
    BY CommandCellsType
  <2>3. {1, 2, 4, 5, 6, 7, 9, 11} \subseteq 1 .. Len(CommandCells(c))
    BY <2>1, <2>2
  <2>. QED BY <2>1, <2>2, <2>3 DEF HeaderCells
<1>2. CASE c \in Submission
  <2>1. c.type = "submit" /\ c.length \in Nat /\ PacketCells(c.packets) \in Nat
    BY <1>2, PacketCellsType DEF Submission
  <2>2. /\ s[1] = USBIP_CMD_SUBMIT /\ s[2] = c.seq /\ s[4] = c.dir /\ s[5] = c.ep
        /\ s[7] = c.length /\ s[9] = c.packets /\ s[11] = c.setup
    BY <1>1, <1>2, <2>1, SubmitHeader DEF CommandCells
  <2>3. CommandNeeds(s) = Len(CommandCells(c))
    BY <1>1, <1>2, <2>1, <2>2, SubmitHeader
    DEF CommandNeeds, CommandCells, USBIP_CMD_SUBMIT, USBIP_CMD_UNLINK, HeaderCells
  <2>4. CommandOf(s) = c
    <3>1. c = [type |-> "submit", seq |-> c.seq, dir |-> c.dir, ep |-> c.ep,
               length |-> c.length, packets |-> c.packets, setup |-> c.setup]
      BY <1>2 DEF Submission
    <3>2. s[1] = USBIP_CMD_SUBMIT
      BY <2>2
    <3>3. CommandOf(s) = [type |-> "submit", seq |-> s[2], dir |-> s[4], ep |-> s[5],
                          length |-> s[7], packets |-> s[9], setup |-> s[11]]
      BY <3>2 DEF CommandOf, USBIP_CMD_SUBMIT, USBIP_CMD_UNLINK
    <3>. QED BY <2>2, <3>1, <3>3
  <2>. QED BY <2>3, <2>4
<1>3. CASE c \in Cancellation
  <2>1. c.type = "unlink"
    BY <1>3 DEF Cancellation
  <2>2. s[1] = USBIP_CMD_UNLINK /\ s[2] = c.seq /\ s[6] = c.target
    BY <1>1, <1>3, <2>1, UnlinkHeader DEF CommandCells
  <2>3. CommandNeeds(s) = Len(CommandCells(c))
    BY <1>1, <1>3, <2>1, <2>2, UnlinkHeader DEF CommandNeeds, CommandCells
  <2>4. CommandOf(s) = c
    BY <1>3, <2>1, <2>2
    DEF CommandOf, Cancellation, USBIP_CMD_SUBMIT, USBIP_CMD_UNLINK
  <2>. QED BY <2>3, <2>4
<1>. QED BY <1>2, <1>3 DEF Command

\* The stream st is what is left of the cells of the commands q when n of them were taken.
\* at says where each begins.  A connection that broke leaves one cell more.
Framed(n, q, st, closed) ==
  \E at \in [n + 1 .. Len(q) + 1 -> Nat] :
    /\ at[n + 1] = 0
    /\ \A s \in n + 1 .. Len(q) :
         /\ at[s + 1] = at[s] + Len(CommandCells(q[s]))
         /\ \A k \in 1 .. Len(CommandCells(q[s])) : st[at[s] + k] = CommandCells(q[s])[k]
    /\ \A s, t \in n + 1 .. Len(q) + 1 : s <= t => at[s] <= at[t]
    /\ \/ Len(st) = at[Len(q) + 1]
       \/ closed /\ Len(st) = at[Len(q) + 1] + 1 /\ st[Len(st)] = USBIP_CMD_SUBMIT

\* A place in a part of a stream is a place in the stream.
LEMMA Within ==
  \A a, l, b \in Nat : \A k \in 1 .. l : a + l <= b => k \in Nat /\ a + k \in 1 .. b
OBVIOUS

LEMMA Moved ==
  \A a, l, b, n \in Nat : n <= a /\ a + l <= b =>
    /\ a - n \in Nat /\ b - n \in Nat /\ (a - n) + l <= b - n /\ n + (b - n) = b
    /\ b = a + 1 => b - n = (a - n) + 1 /\ b - n \in 1 .. b - n
OBVIOUS

\* What is left of a stream once its first cells were read.
LEMMA Remainder ==
  ASSUME NEW st \in Seq(Int), NEW n \in Nat, n <= Len(st)
  PROVE  /\ SubSeq(st, n + 1, Len(st)) \in Seq(Int)
         /\ Len(SubSeq(st, n + 1, Len(st))) = Len(st) - n
         /\ \A k \in 1 .. Len(st) - n : SubSeq(st, n + 1, Len(st))[k] = st[n + k]
<1>1. n + 1 \in Int /\ Len(st) \in Int /\ \A i \in n + 1 .. Len(st) : st[i] \in Int
  OBVIOUS
<1>2. /\ SubSeq(st, n + 1, Len(st)) \in Seq(Int)
      /\ Len(SubSeq(st, n + 1, Len(st))) = IF n + 1 <= Len(st) THEN Len(st) - (n + 1) + 1 ELSE 0
      /\ \A k \in 1 .. Len(st) - (n + 1) + 1 :
           SubSeq(st, n + 1, Len(st))[k] = st[(n + 1) + k - 1]
  BY <1>1, SubSeqProperties
<1>3. \A k \in 1 .. Len(st) - n : k \in 1 .. Len(st) - (n + 1) + 1 /\ (n + 1) + k - 1 = n + k
  BY <1>1
<1>4. Len(SubSeq(st, n + 1, Len(st))) = Len(st) - n
  BY <1>1, <1>2
<1>. QED BY <1>2, <1>3, <1>4

LEMMA FrameEmpty == \A closed : Framed(0, <<>>, <<>>, closed)
<1> TAKE closed
<1> DEFINE at == [s \in 1 .. 1 |-> 0]
<1>1. at \in [1 .. 1 -> Nat] /\ at[1] = 0
  OBVIOUS
<1> HIDE DEF at
<1>2. Len(<<>>) = 0 /\ 0 + 1 = 1 /\ 1 .. 0 = {}
  OBVIOUS
<1>. QED BY <1>1, <1>2 DEF Framed

\* The reader takes the next command and leaves the others as they were.
LEMMA FrameRead ==
  ASSUME NEW q \in Seq(Command), NEW n \in 0 .. Len(q), NEW st \in Seq(Int), NEW closed,
         Framed(n, q, st, closed), Len(st) >= CommandNeeds(st)
  PROVE  LET rest == SubSeq(st, CommandNeeds(st) + 1, Len(st)) IN
         /\ n < Len(q) /\ CommandOf(st) = q[n + 1]
         /\ rest \in Seq(Int) /\ Framed(n + 1, q, rest, closed)
<1> DEFINE rest == SubSeq(st, CommandNeeds(st) + 1, Len(st))
<1>1. Len(q) \in Nat /\ Len(st) \in Nat /\ n \in Nat /\ n <= Len(q)
  OBVIOUS
<1>2. PICK at \in [n + 1 .. Len(q) + 1 -> Nat] :
        /\ at[n + 1] = 0
        /\ \A s \in n + 1 .. Len(q) :
             /\ at[s + 1] = at[s] + Len(CommandCells(q[s]))
             /\ \A k \in 1 .. Len(CommandCells(q[s])) : st[at[s] + k] = CommandCells(q[s])[k]
        /\ \A s, t \in n + 1 .. Len(q) + 1 : s <= t => at[s] <= at[t]
        /\ \/ Len(st) = at[Len(q) + 1]
           \/ closed /\ Len(st) = at[Len(q) + 1] + 1 /\ st[Len(st)] = USBIP_CMD_SUBMIT
  BY DEF Framed
<1>3. n < Len(q)
  <2> SUFFICES ASSUME n = Len(q) PROVE FALSE
    BY <1>1
  <2>1. CASE Len(st) = 0
    BY <2>1 DEF CommandNeeds
  <2>2. CASE Len(st) = 1 /\ st[1] = USBIP_CMD_SUBMIT
    BY <2>2 DEF CommandNeeds, USBIP_CMD_SUBMIT, USBIP_CMD_UNLINK, HeaderCells
  <2>. QED BY <1>2, <2>1, <2>2
<1> DEFINE c == q[n + 1]
<1>4. c \in Command /\ n + 1 \in n + 1 .. Len(q)
  BY <1>1, <1>3
<1>5. CommandCells(c) \in Seq(Int) /\ Len(CommandCells(c)) \in Nat
  BY <1>4, CommandCellsType
<1> DEFINE len == Len(CommandCells(c))
<1>6. at[n + 2] = len /\ \A k \in 1 .. len : st[k] = CommandCells(c)[k]
  <2>1. at[(n + 1) + 1] = at[n + 1] + len
    BY <1>2, <1>4
  <2>2. \A k \in 1 .. len : st[at[n + 1] + k] = CommandCells(c)[k]
    BY <1>2, <1>4
  <2>. QED BY <1>1, <1>2, <1>5, <2>1, <2>2
<1>7. \A s \in n + 2 .. Len(q) + 1 : at[s] \in Nat /\ len <= at[s] /\ at[s] <= Len(st)
  <2> TAKE s \in n + 2 .. Len(q) + 1
  <2>1. s \in n + 1 .. Len(q) + 1 /\ n + 2 \in n + 1 .. Len(q) + 1 /\ n + 2 <= s
        /\ Len(q) + 1 \in n + 1 .. Len(q) + 1 /\ s <= Len(q) + 1
    BY <1>1, <1>3
  <2>2. at[s] \in Nat /\ at[n + 2] <= at[s] /\ at[s] <= at[Len(q) + 1] /\ at[Len(q) + 1] \in Nat
    BY <1>2, <2>1
  <2>. QED BY <1>1, <1>2, <1>6, <2>2
<1>8. len <= Len(st)
  BY <1>1, <1>3, <1>7
<1>9. CommandNeeds(st) = len /\ CommandOf(st) = c
  BY <1>4, <1>6, <1>8, CommandRead
<1>10. /\ rest \in Seq(Int) /\ Len(rest) = Len(st) - len
       /\ \A k \in 1 .. Len(st) - len : rest[k] = st[len + k]
  <2>1. rest = SubSeq(st, len + 1, Len(st)) /\ len \in Nat
    BY <1>5, <1>9
  <2> HIDE DEF len, rest
  <2>. QED BY <1>8, <2>1, Remainder
<1>11. Framed(n + 1, q, rest, closed)
  <2> DEFINE new == [s \in n + 2 .. Len(q) + 1 |-> at[s] - len]
  <2> HIDE DEF len, rest, c
  <2>1. len \in Nat
    BY <1>5 DEF len
  <2>2. new \in [(n + 1) + 1 .. Len(q) + 1 -> Nat]
    BY <1>1, <1>7, <2>1
  <2>3. new[(n + 1) + 1] = 0
    BY <1>1, <1>3, <1>6, <2>1
  <2>4. ASSUME NEW s \in (n + 1) + 1 .. Len(q)
        PROVE  /\ new[s + 1] = new[s] + Len(CommandCells(q[s]))
               /\ \A k \in 1 .. Len(CommandCells(q[s])) :
                    rest[new[s] + k] = CommandCells(q[s])[k]
    <3>1. s \in n + 1 .. Len(q) /\ s \in n + 2 .. Len(q) + 1 /\ s + 1 \in n + 2 .. Len(q) + 1
          /\ q[s] \in Command
      BY <1>1
    <3>2. Len(CommandCells(q[s])) \in Nat
      BY <3>1, CommandCellsType
    <3>3. at[s + 1] = at[s] + Len(CommandCells(q[s]))
      BY <1>2, <3>1
    <3>4. /\ at[s] \in Nat /\ at[s + 1] \in Nat /\ len <= at[s] /\ at[s + 1] <= Len(st)
          /\ new[s] = at[s] - len /\ new[s + 1] = at[s + 1] - len
      BY <1>7, <3>1
    <3> HIDE DEF new
    <3>5. ASSUME NEW k \in 1 .. Len(CommandCells(q[s]))
          PROVE  rest[new[s] + k] = CommandCells(q[s])[k]
      <4>1. new[s] \in Nat /\ Len(st) - len \in Nat
            /\ new[s] + Len(CommandCells(q[s])) <= Len(st) - len
        <5>1. at[s] + Len(CommandCells(q[s])) <= Len(st)
          BY <3>3, <3>4
        <5>2. /\ at[s] - len \in Nat /\ Len(st) - len \in Nat
              /\ (at[s] - len) + Len(CommandCells(q[s])) <= Len(st) - len
          BY <1>1, <2>1, <3>2, <3>4, <5>1, Moved
        <5>. QED BY <3>4, <5>2
      <4>2. k \in Nat /\ new[s] + k \in 1 .. Len(st) - len
        BY <3>2, <4>1, Within
      <4>3. len + (new[s] + k) = at[s] + k
        <5>1. len \in Nat /\ at[s] \in Nat /\ new[s] = at[s] - len /\ k \in Nat
          BY <2>1, <3>4, <4>2
        <5>. QED BY <5>1
      <4>4. st[at[s] + k] = CommandCells(q[s])[k]
        BY <1>2, <3>1
      <4>5. rest[new[s] + k] = st[len + (new[s] + k)]
        BY <1>10, <4>2
      <4>6. st[len + (new[s] + k)] = st[at[s] + k]
        BY <4>3, Zenon
      <4>. QED BY <4>4, <4>5, <4>6, Zenon
    <3>. QED BY <2>1, <3>2, <3>3, <3>4, <3>5
  <2>5. ASSUME NEW s \in (n + 1) + 1 .. Len(q) + 1, NEW t \in (n + 1) + 1 .. Len(q) + 1, s <= t
        PROVE  new[s] <= new[t]
    <3>1. at[s] <= at[t]
      BY <1>1, <1>2, <2>5
    <3>. QED BY <1>1, <1>7, <2>1, <2>5, <3>1
  <2>6. \/ Len(rest) = new[Len(q) + 1]
        \/ closed /\ Len(rest) = new[Len(q) + 1] + 1 /\ rest[Len(rest)] = USBIP_CMD_SUBMIT
    <3>1. Len(q) + 1 \in n + 2 .. Len(q) + 1
      BY <1>1, <1>3
    <3>2. /\ at[Len(q) + 1] \in Nat /\ len <= at[Len(q) + 1] /\ at[Len(q) + 1] <= Len(st)
          /\ new[Len(q) + 1] = at[Len(q) + 1] - len
      BY <1>7, <3>1
    <3>3. CASE Len(st) = at[Len(q) + 1]
      BY <1>1, <1>10, <2>1, <3>2, <3>3
    <3>4. CASE closed /\ Len(st) = at[Len(q) + 1] + 1 /\ st[Len(st)] = USBIP_CMD_SUBMIT
      <4>1. Len(rest) = new[Len(q) + 1] + 1 /\ Len(rest) \in 1 .. Len(st) - len
            /\ len + Len(rest) = Len(st)
        <5>1. Len(rest) = Len(st) - len
          BY <1>10
        <5>2. Len(st) - len = new[Len(q) + 1] + 1 /\ Len(st) - len \in 1 .. Len(st) - len
              /\ len + (Len(st) - len) = Len(st)
          <6> DEFINE e == at[Len(q) + 1]
          <6>1. /\ e \in Nat /\ len \in Nat /\ Len(st) \in Nat /\ len <= e
                /\ Len(st) = e + 1 /\ new[Len(q) + 1] = e - len
            BY <1>1, <2>1, <3>2, <3>4
          <6> HIDE DEF e
          <6>. QED BY <6>1
        <5>. QED BY <5>1, <5>2
      <4>2. rest[Len(rest)] = st[len + Len(rest)]
        BY <1>10, <4>1
      <4>. QED BY <3>4, <4>1, <4>2
    <3>. QED BY <1>2, <3>3, <3>4
  <2> HIDE DEF new
  <2>. QED BY <2>2, <2>3, <2>4, <2>5, <2>6 DEF Framed
<1>. QED BY <1>3, <1>9, <1>10, <1>11

\* A client that is there adds a command, or breaks off inside the header of one.
LEMMA FrameSend ==
  ASSUME NEW q \in Seq(Command), NEW n \in 0 .. Len(q), NEW st \in Seq(Int),
         Framed(n, q, st, FALSE), NEW c \in Command
  PROVE  Framed(n, Append(q, c), st \o CommandCells(c), FALSE)
<1>1. Len(q) \in Nat /\ Len(st) \in Nat /\ n \in Nat /\ n <= Len(q)
  OBVIOUS
<1>2. PICK at \in [n + 1 .. Len(q) + 1 -> Nat] :
        /\ at[n + 1] = 0
        /\ \A s \in n + 1 .. Len(q) :
             /\ at[s + 1] = at[s] + Len(CommandCells(q[s]))
             /\ \A k \in 1 .. Len(CommandCells(q[s])) : st[at[s] + k] = CommandCells(q[s])[k]
        /\ \A s, t \in n + 1 .. Len(q) + 1 : s <= t => at[s] <= at[t]
        /\ Len(st) = at[Len(q) + 1]
  BY DEF Framed
<1> DEFINE cells == CommandCells(c)
           more  == st \o cells
           all   == Append(q, c)
           new   == [s \in n + 1 .. Len(q) + 2 |->
                       IF s = Len(q) + 2 THEN Len(st) + Len(cells) ELSE at[s]]
<1>3. cells \in Seq(Int) /\ Len(cells) \in Nat
  BY CommandCellsType
<1>4. /\ all \in Seq(Command) /\ Len(all) = Len(q) + 1 /\ all[Len(q) + 1] = c
      /\ \A s \in 1 .. Len(q) : all[s] = q[s]
  OBVIOUS
<1> HIDE DEF cells, all
<1>5. /\ more \in Seq(Int) /\ Len(more) = Len(st) + Len(cells)
      /\ \A k \in 1 .. Len(st) : more[k] = st[k]
      /\ \A k \in 1 .. Len(cells) : more[Len(st) + k] = cells[k]
  BY <1>3, BeginsWith
<1>6. \A s \in n + 1 .. Len(q) + 1 : at[s] \in Nat /\ at[s] <= Len(st) /\ new[s] = at[s]
  <2> TAKE s \in n + 1 .. Len(q) + 1
  <2>1. Len(q) + 1 \in n + 1 .. Len(q) + 1 /\ s <= Len(q) + 1 /\ s # Len(q) + 2
        /\ s \in n + 1 .. Len(q) + 2
    BY <1>1
  <2>. QED BY <1>2, <2>1
<1>7. new[Len(q) + 2] = Len(st) + Len(cells) /\ Len(q) + 2 \in n + 1 .. Len(q) + 2
  BY <1>1
<1>8. new \in [n + 1 .. Len(all) + 1 -> Nat]
  BY <1>1, <1>3, <1>4, <1>6
<1> HIDE DEF more, new
<1>9. new[n + 1] = 0
  BY <1>1, <1>2, <1>6
<1>10. ASSUME NEW s \in n + 1 .. Len(all)
      PROVE  /\ new[s + 1] = new[s] + Len(CommandCells(all[s]))
             /\ \A k \in 1 .. Len(CommandCells(all[s])) :
                  more[new[s] + k] = CommandCells(all[s])[k]
  <2>1. CASE s = Len(q) + 1
    <3>1. all[s] = c /\ new[s] = Len(st) /\ new[s + 1] = Len(st) + Len(cells)
      BY <1>1, <1>2, <1>4, <1>6, <1>7, <2>1
    <3>. QED BY <1>5, <3>1 DEF cells
  <2>2. CASE s \in n + 1 .. Len(q)
    <3>1. all[s] = q[s] /\ q[s] \in Command /\ s + 1 \in n + 1 .. Len(q) + 1
          /\ s \in n + 1 .. Len(q) + 1
      BY <1>1, <1>4, <2>2
    <3>2. Len(CommandCells(q[s])) \in Nat
      BY <3>1, CommandCellsType
    <3>3. /\ new[s] = at[s] /\ new[s + 1] = at[s + 1] /\ at[s] \in Nat
          /\ at[s + 1] = at[s] + Len(CommandCells(q[s])) /\ at[s + 1] <= Len(st)
      BY <1>2, <1>6, <2>2, <3>1
    <3>4. ASSUME NEW k \in 1 .. Len(CommandCells(q[s]))
          PROVE  more[new[s] + k] = CommandCells(q[s])[k]
      <4>1. at[s] + k \in 1 .. Len(st)
        BY <1>1, <3>2, <3>3, Within
      <4>2. st[at[s] + k] = CommandCells(q[s])[k]
        BY <1>2, <2>2
      <4>3. more[at[s] + k] = st[at[s] + k]
        BY <1>5, <4>1
      <4>. QED BY <3>3, <4>2, <4>3
    <3>. QED BY <3>1, <3>3, <3>4
  <2>. QED BY <1>1, <1>4, <2>1, <2>2
<1>11. ASSUME NEW s \in n + 1 .. Len(all) + 1, NEW t \in n + 1 .. Len(all) + 1, s <= t
       PROVE  new[s] <= new[t]
  <2>1. CASE t = Len(q) + 2
    <3>1. s = t \/ s \in n + 1 .. Len(q) + 1
      BY <1>1, <1>4, <2>1
    <3>. QED BY <1>1, <1>3, <1>6, <1>7, <2>1, <3>1
  <2>2. CASE t # Len(q) + 2
    <3>1. s \in n + 1 .. Len(q) + 1 /\ t \in n + 1 .. Len(q) + 1
      BY <1>1, <1>4, <1>11, <2>2
    <3>2. at[s] <= at[t]
      BY <1>2, <1>11, <3>1
    <3>. QED BY <1>6, <3>1, <3>2
  <2>. QED BY <2>1, <2>2
<1>12. Len(more) = new[Len(all) + 1]
  BY <1>1, <1>4, <1>5, <1>7
<1>13. Framed(n, all, more, FALSE)
  BY <1>8, <1>9, <1>10, <1>11, <1>12 DEF Framed
<1>. QED BY <1>13 DEF all, more, cells

LEMMA FrameClose ==
  ASSUME NEW q \in Seq(Command), NEW n \in 0 .. Len(q), NEW st \in Seq(Int),
         Framed(n, q, st, FALSE)
  PROVE  Framed(n, q, st, TRUE) /\ Framed(n, q, st \o <<USBIP_CMD_SUBMIT>>, TRUE)
<1>1. Len(q) \in Nat /\ Len(st) \in Nat /\ n \in Nat /\ n <= Len(q)
  OBVIOUS
<1>2. PICK at \in [n + 1 .. Len(q) + 1 -> Nat] :
        /\ at[n + 1] = 0
        /\ \A s \in n + 1 .. Len(q) :
             /\ at[s + 1] = at[s] + Len(CommandCells(q[s]))
             /\ \A k \in 1 .. Len(CommandCells(q[s])) : st[at[s] + k] = CommandCells(q[s])[k]
        /\ \A s, t \in n + 1 .. Len(q) + 1 : s <= t => at[s] <= at[t]
        /\ Len(st) = at[Len(q) + 1]
  BY DEF Framed
<1>3. Framed(n, q, st, TRUE)
  BY <1>2 DEF Framed
<1> DEFINE more == st \o <<USBIP_CMD_SUBMIT>>
<1>4. /\ Len(more) = Len(st) + 1 /\ more[Len(st) + 1] = USBIP_CMD_SUBMIT
      /\ \A k \in 1 .. Len(st) : more[k] = st[k]
  BY DEF USBIP_CMD_SUBMIT
<1> HIDE DEF more
<1>5. ASSUME NEW s \in n + 1 .. Len(q), NEW k \in 1 .. Len(CommandCells(q[s]))
      PROVE  more[at[s] + k] = CommandCells(q[s])[k]
  <2>1. s \in n + 1 .. Len(q) + 1 /\ s + 1 \in n + 1 .. Len(q) + 1 /\ s + 1 <= Len(q) + 1
        /\ Len(q) + 1 \in n + 1 .. Len(q) + 1 /\ q[s] \in Command
    BY <1>1
  <2>2. Len(CommandCells(q[s])) \in Nat
    BY <2>1, CommandCellsType
  <2>3. at[s] \in Nat /\ at[s + 1] <= Len(st) /\ at[s + 1] = at[s] + Len(CommandCells(q[s]))
    BY <1>2, <2>1
  <2>4. at[s] + k \in 1 .. Len(st)
    BY <1>1, <2>2, <2>3, Within
  <2>. QED BY <1>2, <1>4, <2>4
<1>6. Len(more) = at[Len(q) + 1] + 1 /\ more[Len(more)] = USBIP_CMD_SUBMIT
  BY <1>2, <1>4
<1>7. Framed(n, q, more, TRUE)
  BY <1>2, <1>5, <1>6 DEF Framed
<1>. QED BY <1>3, <1>7 DEF more

\* The receiver may still read commands.
InCommands == {"replying", "checking", "reading", "splitting", "epipe"}

\* A client numbers its commands, and a control transfer has a setup packet.
SentWell ==
  /\ sent \in Seq(Command)
  /\ \A s \in 1 .. Len(sent) :
       /\ sent[s].seq = s
       /\ kind = "emulated" /\ sent[s].type = "submit" /\ Address(sent[s]) \in {0, 128} =>
            sent[s].setup \in DOMAIN Setup /\ Setup[sent[s].setup].length = sent[s].length

\* Before the first command there is at most the client's request.
Asked ==
  /\ client = "op" => toServer = <<>> /\ rx \in {"op", "left", "closed"}
  /\ rx = "op" => toServer = <<>> \/ \E r \in Requests : toServer = OpCells(r[1], r[2])

Stream ==
  /\ SentWell /\ Asked /\ taken <= Len(sent) /\ toServer \in Seq(Int)
  /\ rx \in InCommands => Framed(taken, sent, toServer, client = "closed")

\* What a read of the receiver gets.
LEMMA Reading ==
  ASSUME Places, Stream, rx = "reading", Len(toServer) >= CommandNeeds(toServer),
         Consume(CommandNeeds(toServer))
  PROVE  /\ taken < Len(sent) /\ CommandOf(toServer) = sent[taken + 1]
         /\ toServer' \in Seq(Int) /\ Framed(taken + 1, sent, toServer', client = "closed")
<1>1. /\ sent \in Seq(Command) /\ taken \in 0 .. Len(sent) /\ toServer \in Seq(Int)
      /\ Framed(taken, sent, toServer, client = "closed")
  BY DEF Places, Stream, SentWell, InCommands
<1>2. toServer' = SubSeq(toServer, CommandNeeds(toServer) + 1, Len(toServer))
  BY DEF Consume
<1>. QED BY <1>1, <1>2, FrameRead

\* The command that the receiver takes.
LEMMA TakesNext ==
  ASSUME Places, Stream, NEW c, Read(c)
  PROVE  /\ taken \in Nat /\ Len(sent) \in Nat /\ taken < Len(sent) /\ taken' = taken + 1
         /\ c = sent[taken + 1] /\ c \in Command /\ c.seq = taken + 1
         /\ c = CommandOf(toServer)
         /\ toServer' \in Seq(Int) /\ Framed(taken + 1, sent, toServer', client = "closed")
<1>1. /\ rx = "reading" /\ Len(toServer) >= CommandNeeds(toServer)
      /\ Consume(CommandNeeds(toServer)) /\ c = CommandOf(toServer) /\ taken' = taken + 1
  BY DEF Read, Readable
<1>2. taken \in Nat /\ Len(sent) \in Nat /\ sent \in Seq(Command)
  BY DEF Places, Stream, SentWell
<1>3. /\ taken < Len(sent) /\ CommandOf(toServer) = sent[taken + 1]
      /\ toServer' \in Seq(Int) /\ Framed(taken + 1, sent, toServer', client = "closed")
  BY <1>1, Reading
<1>4. taken + 1 \in 1 .. Len(sent)
  BY <1>2, <1>3
<1>. QED BY <1>1, <1>2, <1>3, <1>4 DEF Stream, SentWell

\* A request that parse_op answers is read to its end.
LEMMA RequestRead ==
  ASSUME NEW st, OpOf(st) # "unknown", Len(st) >= OpNeeds(st),
         st = <<>> \/ \E r \in Requests : st = OpCells(r[1], r[2])
  PROVE  SubSeq(st, OpNeeds(st) + 1, Len(st)) = <<>>
<1>1. st # <<>>
  BY DEF OpNeeds
<1>2. PICK r \in Requests : st = OpCells(r[1], r[2])
  BY <1>1
<1>3. CASE r = <<USBIP_VERSION, OP_REQ_DEVLIST>>
  <2>1. st = <<273, 32773, 0>>
    BY <1>2, <1>3 DEF OpCells, USBIP_VERSION, OP_REQ_DEVLIST, OP_REQ_IMPORT
  <2>2. OpNeeds(st) = 3 /\ Len(st) = 3
    BY <2>1 DEF OpNeeds, GoodVersion, USBIP_VERSION, OP_REQ_DEVLIST, OP_REQ_IMPORT
  <2>. QED BY <2>2, SubSeqEmpty
<1>4. CASE r = <<0, OP_REQ_IMPORT>>
  <2>1. st = <<0, 32771, 0>> \o Units(1)
    BY <1>2, <1>4 DEF OpCells, OP_REQ_IMPORT
  <2>2. st[1] = 0 /\ st[2] = 32771 /\ Len(st) = 4
    BY <2>1, UnitsAreCells
  <2>3. OpNeeds(st) = 4
    BY <1>1, <2>2 DEF OpNeeds, GoodVersion, OP_REQ_IMPORT, OP_REQ_DEVLIST
  <2>. QED BY <2>2, <2>3, SubSeqEmpty
<1>5. CASE r = <<USBIP_VERSION + 1, OP_REQ_IMPORT>>
  <2>1. st = <<274, 32771, 0>> \o Units(1)
    BY <1>2, <1>5 DEF OpCells, USBIP_VERSION, OP_REQ_IMPORT
  <2>2. st[1] = 274
    BY <2>1, UnitsAreCells
  <2>. QED BY <2>2 DEF OpOf, GoodVersion, USBIP_VERSION
<1>6. CASE r = <<USBIP_VERSION, USBIP_CMD_SUBMIT>>
  <2>1. st = <<273, 1, 0>>
    BY <1>2, <1>6 DEF OpCells, USBIP_VERSION, USBIP_CMD_SUBMIT, OP_REQ_IMPORT
  <2>. QED
    BY <2>1 DEF OpOf, GoodVersion, USBIP_VERSION, OP_REQ_IMPORT, OP_REQ_DEVLIST
<1>. QED BY <1>2, <1>3, <1>4, <1>5, <1>6 DEF Requests

\* Steps that take nothing from the stream and add nothing to it.
LEMMA StreamKept ==
  ASSUME Stream, UNCHANGED <<kind, client, sent, toServer, taken>>,
         rx' \in InCommands => rx \in InCommands, rx' = "op" => rx = "op",
         client = "op" => rx' \in {"op", "left", "closed"}
  PROVE  Stream'
<1>1. SentWell'
  BY DEF Stream, SentWell
<1>2. Asked'
  BY DEF Stream, Asked
<1>. QED BY <1>1, <1>2 DEF Stream

LEMMA Numbered ==
  ASSUME NEW c \in Command, NEW k \in Nat
  PROVE  LET n == [c EXCEPT !.seq = k] IN
         /\ n \in Command /\ n.seq = k /\ n.type = c.type
         /\ c.type = "submit" =>
              Address(n) = Address(c) /\ n.setup = c.setup /\ n.length = c.length
BY DEF Command, Submission, Cancellation, Address

\* Steps of the receiver that take a command.
LEMMA StreamTaken ==
  ASSUME Places, Stream, NEW c, Read(c), UNCHANGED <<kind, client, sent>>,
         rx' \in {"checking", "splitting", "epipe", "aborted"}
  PROVE  Stream'
<1>1. /\ taken < Len(sent) /\ taken' = taken + 1 /\ taken \in Nat /\ Len(sent) \in Nat
      /\ toServer' \in Seq(Int) /\ Framed(taken + 1, sent, toServer', client = "closed")
  BY TakesNext
<1>2. rx = "reading"
  BY DEF Read
<1>3. SentWell'
  BY DEF Stream, SentWell
<1>4. Asked'
  BY <1>2 DEF Stream, Asked
<1>5. taken' <= Len(sent')
  BY <1>1
<1>6. Framed(taken', sent', toServer', client' = "closed")
  BY <1>1
<1>. QED BY <1>1, <1>3, <1>4, <1>5, <1>6 DEF Stream

LEMMA StreamSent ==
  ASSUME Places, Stream, ClientSend
  PROVE  Stream'
<1>1. PICK c \in IF kind = "host" THEN HostCommand ELSE VirtualCommand :
        LET n == [c EXCEPT !.seq = Len(sent) + 1] IN
        sent' = Append(sent, n) /\ toServer' = toServer \o CommandCells(n)
  BY DEF ClientSend
<1> DEFINE n == [c EXCEPT !.seq = Len(sent) + 1]
<1>2. /\ kind' = kind /\ client = "waits" /\ client' = client /\ taken' = taken /\ rx' = rx
      /\ taken \in Nat /\ kind \in {"host", "emulated"}
  BY DEF ClientSend, rxVars, Places, Words
<1>3. /\ sent \in Seq(Command) /\ Len(sent) \in Nat /\ taken <= Len(sent)
      /\ toServer \in Seq(Int)
  BY DEF Stream, SentWell
<1>4. c \in Command
  BY <1>1, CommandAssumption DEF CommandAssumption
<1>5. /\ n \in Command /\ n.seq = Len(sent) + 1 /\ n.type = c.type
      /\ c.type = "submit" =>
           Address(n) = Address(c) /\ n.setup = c.setup /\ n.length = c.length
  <2>1. Len(sent) + 1 \in Nat
    BY <1>3
  <2>. QED BY <1>4, <2>1, Numbered
<1>6. kind = "emulated" /\ n.type = "submit" /\ Address(n) \in {0, 128} =>
        n.setup \in DOMAIN Setup /\ Setup[n.setup].length = n.length
  BY <1>1, <1>5, CommandAssumption DEF CommandAssumption
<1> HIDE DEF n
<1>7. sent' = Append(sent, n) /\ toServer' = toServer \o CommandCells(n)
  BY <1>1 DEF n
<1>8. /\ sent' \in Seq(Command) /\ Len(sent') = Len(sent) + 1 /\ sent'[Len(sent) + 1] = n
      /\ \A s \in 1 .. Len(sent) : sent'[s] = sent[s]
  BY <1>3, <1>5, <1>7
<1>9. SentWell'
  <2>1. ASSUME NEW s \in 1 .. Len(sent')
        PROVE  /\ sent'[s].seq = s
               /\ kind' = "emulated" /\ sent'[s].type = "submit" /\ Address(sent'[s]) \in {0, 128}
                  => sent'[s].setup \in DOMAIN Setup
                     /\ Setup[sent'[s].setup].length = sent'[s].length
    <3>1. CASE s = Len(sent) + 1
      BY <1>2, <1>5, <1>6, <1>8, <3>1
    <3>2. CASE s \in 1 .. Len(sent)
      BY <1>2, <1>8, <3>2 DEF Stream, SentWell
    <3>. QED BY <1>3, <1>8, <3>1, <3>2
  <2>. QED BY <1>8, <2>1 DEF SentWell
<1>10. rx # "op"
  BY DEF ClientSend, Imported, Places, Early
<1>11. Asked'
  BY <1>2, <1>10 DEF Asked
<1>12. taken' <= Len(sent')
  BY <1>2, <1>3, <1>8
<1>13. toServer' \in Seq(Int)
  BY <1>3, <1>5, <1>7, CommandCellsType, BeginsWith
<1>14. rx' \in InCommands => Framed(taken', sent', toServer', client' = "closed")
  <2> SUFFICES ASSUME rx \in InCommands PROVE Framed(taken, sent', toServer', FALSE)
    BY <1>2
  <2>1. Framed(taken, sent, toServer, FALSE)
    BY <1>2 DEF Stream
  <2>2. taken \in 0 .. Len(sent)
    BY <1>2, <1>3
  <2>. QED BY <1>3, <1>5, <1>7, <2>1, <2>2, FrameSend
<1>. QED BY <1>9, <1>11, <1>12, <1>13, <1>14 DEF Stream

LEMMA StreamClosed ==
  ASSUME Places, Stream, ClientCloses
  PROVE  Stream'
<1>1. /\ UNCHANGED <<kind, sent, rx, taken>> /\ client # "closed" /\ client' = "closed"
      /\ taken \in Nat
      /\ toServer' = toServer \o (IF Imported THEN <<USBIP_CMD_SUBMIT>> ELSE <<>>)
  BY DEF ClientCloses, rxVars, Places
<1>2. /\ sent \in Seq(Command) /\ taken \in 0 .. Len(sent) /\ toServer \in Seq(Int)
      /\ taken <= Len(sent)
  BY <1>1 DEF Stream, SentWell
<1>3. SentWell'
  BY <1>1 DEF Stream, SentWell
<1>4. rx = "op" => toServer' = toServer
  <2>1. rx = "op" => ~Imported
    BY DEF Imported, Places, Early
  <2>. QED BY <1>1, <1>2, <2>1
<1>5. Asked'
  BY <1>1, <1>4 DEF Stream, Asked
<1>6. toServer' \in Seq(Int)
  BY <1>1, <1>2 DEF USBIP_CMD_SUBMIT
<1>7. ASSUME rx \in InCommands PROVE Framed(taken, sent, toServer', TRUE)
  <2>1. Framed(taken, sent, toServer, FALSE)
    BY <1>1, <1>7 DEF Stream
  <2>2. /\ Framed(taken, sent, toServer, TRUE)
        /\ Framed(taken, sent, toServer \o <<USBIP_CMD_SUBMIT>>, TRUE)
    BY <1>2, <2>1, FrameClose
  <2>3. toServer' = toServer \/ toServer' = toServer \o <<USBIP_CMD_SUBMIT>>
    BY <1>1, <1>2
  <2>. QED BY <2>2, <2>3
<1>8. rx' \in InCommands => Framed(taken', sent', toServer', client' = "closed")
  BY <1>1, <1>7
<1>. QED BY <1>1, <1>2, <1>3, <1>5, <1>6, <1>8 DEF Stream

LEMMA StreamAsked ==
  ASSUME Places, Stream, ClientOp
  PROVE  Stream'
<1>1. /\ UNCHANGED <<kind, sent, rx, taken>> /\ client = "op" /\ client' = "waits"
      /\ toServer = <<>> /\ rx \in {"op", "left", "closed"}
  BY DEF ClientOp, rxVars, Stream, Asked
<1>2. PICK r \in Requests : toServer' = toServer \o OpCells(r[1], r[2])
  BY DEF ClientOp
<1>3. OpCells(r[1], r[2]) \in Seq(Int)
  <2>1. r[1] \in Int /\ r[2] \in Int
    BY DEF Requests, USBIP_VERSION, OP_REQ_DEVLIST, OP_REQ_IMPORT, USBIP_CMD_SUBMIT
  <2>2. Units(1) \in Seq(Int)
    BY UnitsAreCells
  <2>. QED BY <2>1, <2>2 DEF OpCells
<1>4. toServer' = OpCells(r[1], r[2])
  BY <1>1, <1>2, <1>3
<1>5. SentWell'
  BY <1>1 DEF Stream, SentWell
<1>6. Asked'
  BY <1>1, <1>4 DEF Asked
<1>. QED BY <1>1, <1>3, <1>4, <1>5, <1>6 DEF Stream, InCommands

LEMMA StreamReadOp ==
  ASSUME Places, Stream, ReadOp
  PROVE  Stream'
<1>1. /\ UNCHANGED <<kind, client, sent, taken>> /\ rx = "op" /\ taken = 0 /\ sent = <<>>
      /\ Len(toServer) >= OpNeeds(toServer) /\ rx' \in {"replying", "left"}
      /\ toServer' = SubSeq(toServer, OpNeeds(toServer) + 1, Len(toServer))
      /\ rx' = "replying" => OpOf(toServer) # "unknown"
      /\ toServer = <<>> \/ \E r \in Requests : toServer = OpCells(r[1], r[2])
      /\ toServer \in Seq(Int)
  BY DEF ReadOp, OpReply, NoReply, Readable, Consume, clientVars, Places, Early, Stream, Asked
<1>2. client # "op"
  BY <1>1 DEF Stream, Asked, OpNeeds
<1>3. SentWell'
  BY <1>1 DEF Stream, SentWell
<1>4. Asked'
  BY <1>1, <1>2 DEF Asked
<1>5. toServer' \in Seq(Int)
  <2>1. OpNeeds(toServer) \in Nat /\ OpNeeds(toServer) <= Len(toServer)
    BY <1>1 DEF OpNeeds
  <2>. QED BY <1>1, <2>1, Remainder
<1>6. rx' \in InCommands => Framed(taken', sent', toServer', client' = "closed")
  <2> SUFFICES ASSUME rx' = "replying" PROVE Framed(0, <<>>, toServer', client' = "closed")
    BY <1>1 DEF InCommands
  <2>1. toServer' = <<>>
    BY <1>1, RequestRead
  <2>. QED BY <2>1, FrameEmpty
<1>. QED BY <1>1, <1>3, <1>4, <1>5, <1>6 DEF Stream

LEMMA StreamReadFails ==
  ASSUME Places, Stream, ReadFails
  PROVE  Stream'
<1>1. UNCHANGED <<kind, client, sent, taken>> /\ rx = "reading" /\ rx' = "leaving"
  BY DEF ReadFails, clientVars
<1>2. toServer' \in Seq(Int)
  <2>1. CASE UNCHANGED toServer
    BY <2>1 DEF Stream
  <2>2. CASE Readable(CommandNeeds(toServer)) /\ Consume(CommandNeeds(toServer))
    BY <1>1, <2>2, Reading DEF Readable
  <2>. QED BY <2>1, <2>2 DEF ReadFails
<1>3. SentWell'
  BY <1>1 DEF Stream, SentWell
<1>4. Asked'
  BY <1>1 DEF Stream, Asked
<1>. QED BY <1>1, <1>2, <1>3, <1>4 DEF Stream, InCommands

LEMMA StreamStep == Places /\ Stream /\ [Next]_vars => Stream'
<1> SUFFICES ASSUME Places, Stream, [Next]_vars PROVE Stream'
  OBVIOUS
<1>1. client = "op" => rx \in {"op", "left", "closed"}
  BY DEF Stream, Asked
<1> USE DEF clientVars, rxVars, txVars, channelVars, wireVars, stopVars, deviceVars, InCommands
<1>2. CASE ReadOp
  BY <1>2, StreamReadOp
<1>3. CASE ReadOpFails \/ RxWrites \/ RxWriteFails \/ Replied \/ StartTransfer
  BY <1>1, <1>3, StreamKept DEF ReadOpFails, RxWrites, RxWriteFails, RxThrows, Replied,
     StartTransfer, Writing
<1>4. CASE RxCheck \/ EpipeWritten \/ SplitStep \/ Leave \/ CloseSession
  BY <1>1, <1>4, StreamKept DEF RxCheck, EpipeWritten, SplitStep, Leave, CloseSession
<1>5. CASE ReadFails
  BY <1>5, StreamReadFails
<1>6. CASE UnknownEndpoint
  BY <1>6, StreamTaken DEF UnknownEndpoint
<1>7. CASE TakeUnlink
  BY <1>7, StreamTaken DEF TakeUnlink
<1>8. CASE Emulate
  BY <1>8, StreamTaken DEF Emulate
<1>9. CASE HandToHost
  BY <1>9, StreamTaken DEF HandToHost
<1>10. CASE HandlerFails
  BY <1>10, StreamTaken DEF HandlerFails
<1>11. CASE HandlerThrows
  BY <1>11, StreamTaken DEF HandlerThrows, RxThrows
<1>12. CASE SplitThrows
  BY <1>1, <1>12, StreamKept DEF SplitThrows, RxThrows
<1>13. CASE SplitRequest
  BY <1>13, StreamTaken DEF SplitRequest
<1>14. CASE Sender
  BY <1>1, <1>14, StreamKept DEF Sender, TxCheck, TxTake, TxClosed, TxWrites, TxWriteFails
<1>15. ASSUME NEW s \in inFlight, HostReturns(s) PROVE Stream'
  BY <1>1, <1>15, StreamKept DEF HostReturns
<1>16. ASSUME NEW s \in DOMAIN bulk, ChunkCallback(s) \/ LateChunk(s) PROVE Stream'
  BY <1>1, <1>16, StreamKept DEF ChunkCallback, LateChunk
<1>17. CASE ClientOp
  BY <1>17, StreamAsked
<1>18. CASE ClientSend
  BY <1>18, StreamSent
<1>19. CASE ClientCloses
  BY <1>19, StreamClosed
<1>20. CASE ImmediatelyStop \/ PostedClose \/ UNCHANGED vars
  BY <1>1, <1>20, StreamKept DEF ImmediatelyStop, PostedClose, vars
<1>. QED
  BY <1>2, <1>3, <1>4, <1>5, <1>6, <1>7, <1>8, <1>9, <1>10, <1>11, <1>12, <1>13, <1>14, <1>15,
     <1>16, <1>17, <1>18, <1>19, <1>20
  DEF Next, Receiver, Callbacks, Client

LEMMA StreamInit == Init => Stream
<1> SUFFICES ASSUME Init PROVE Stream
  OBVIOUS
<1>1. sent = <<>> /\ toServer = <<>> /\ taken = 0 /\ rx = "op" /\ client = "op"
  BY DEF Init
<1>2. SentWell
  BY <1>1 DEF SentWell
<1>. QED BY <1>1, <1>2 DEF Stream, Asked, InCommands

\* Only the reads of the receiver count a command.
LEMMA TakingStep ==
  ASSUME [Next]_vars, taken' # taken
  PROVE  \/ UnknownEndpoint \/ TakeUnlink \/ Emulate \/ HandToHost \/ SplitRequest
         \/ HandlerFails \/ HandlerThrows
<1> USE DEF clientVars, rxVars, txVars, channelVars, wireVars, stopVars, deviceVars
<1>1. CASE ReadOp \/ ReadOpFails \/ RxWrites \/ RxWriteFails \/ Replied \/ StartTransfer
  BY <1>1 DEF ReadOp, ReadOpFails, RxWrites, RxWriteFails, RxThrows, Replied, StartTransfer
<1>2. CASE RxCheck \/ EpipeWritten \/ SplitStep \/ Leave \/ CloseSession \/ ReadFails
  BY <1>2 DEF RxCheck, EpipeWritten, SplitStep, Leave, CloseSession, ReadFails
<1>3. CASE SplitThrows
  BY <1>3 DEF SplitThrows, RxThrows
<1>4. CASE Sender
  BY <1>4 DEF Sender, TxCheck, TxTake, TxClosed, TxWrites, TxWriteFails
<1>5. CASE Callbacks
  BY <1>5 DEF Callbacks, HostReturns, ChunkCallback, LateChunk
<1>6. CASE Client \/ ImmediatelyStop \/ PostedClose \/ UNCHANGED vars
  BY <1>6 DEF Client, ClientOp, ClientSend, ClientCloses, ImmediatelyStop, PostedClose, vars
<1>. QED BY <1>1, <1>2, <1>3, <1>4, <1>5, <1>6 DEF Next, Receiver

LEMMA TakenStep ==
  ASSUME [Next]_vars, taken' # taken
  PROVE  Read(CommandOf(toServer))
BY TakingStep DEF UnknownEndpoint, TakeUnlink, Emulate, HandToHost, SplitRequest,
   HandlerFails, HandlerThrows

\* What is known of the commands that were taken stays true.
LEMMA Onwards ==
  ASSUME Places, Stream, [Next]_vars
  PROVE  /\ kind' = kind /\ taken' \in Nat /\ taken <= taken'
         /\ taken' = taken \/ taken' = taken + 1
         /\ \A s \in 1 .. taken :
              /\ s \in 1 .. taken' /\ s \in 1 .. Len(sent) /\ sent'[s] = sent[s]
              /\ Unknown(s)' = Unknown(s) /\ Split(s)' = Split(s)
              /\ FixedSize(s)' = FixedSize(s) /\ NoSuchEndpoint(s)' = NoSuchEndpoint(s)
              /\ Misdirected(s)' = Misdirected(s) /\ Periodic(s)' = Periodic(s)
              /\ Cleared(s) => Cleared(s)'
<1> USE DEF clientVars, rxVars, txVars, channelVars, wireVars, stopVars, deviceVars
<1>1. kind' = kind
  <2>1. CASE ReadOp \/ ReadOpFails \/ RxWrites \/ RxWriteFails \/ Replied \/ StartTransfer
    BY <2>1 DEF ReadOp, ReadOpFails, RxWrites, RxWriteFails, RxThrows, Replied, StartTransfer
  <2>2. CASE RxCheck \/ EpipeWritten \/ SplitStep \/ Leave \/ CloseSession \/ ReadFails
    BY <2>2 DEF RxCheck, EpipeWritten, SplitStep, Leave, CloseSession, ReadFails
  <2>3. CASE UnknownEndpoint \/ TakeUnlink \/ Emulate \/ HandToHost \/ SplitRequest
    BY <2>3 DEF UnknownEndpoint, TakeUnlink, Emulate, HandToHost, SplitRequest
  <2>4. CASE HandlerEnds
    BY <2>4 DEF HandlerEnds, HandlerFails, HandlerThrows, SplitThrows, RxThrows
  <2>5. CASE Sender
    BY <2>5 DEF Sender, TxCheck, TxTake, TxClosed, TxWrites, TxWriteFails
  <2>6. CASE Callbacks
    BY <2>6 DEF Callbacks, HostReturns, ChunkCallback, LateChunk
  <2>7. CASE Client \/ ImmediatelyStop \/ PostedClose \/ UNCHANGED vars
    BY <2>7 DEF Client, ClientOp, ClientSend, ClientCloses, ImmediatelyStop, PostedClose, vars
  <2>. QED BY <2>1, <2>2, <2>3, <2>4, <2>5, <2>6, <2>7
     DEF Next, Receiver, HandlerEnds
<1>2. sent' = sent \/ \E n : sent' = Append(sent, n)
  <2>1. CASE ReadOp \/ ReadOpFails \/ RxWrites \/ RxWriteFails \/ Replied \/ StartTransfer
    BY <2>1 DEF ReadOp, ReadOpFails, RxWrites, RxWriteFails, RxThrows, Replied, StartTransfer
  <2>2. CASE RxCheck \/ EpipeWritten \/ SplitStep \/ Leave \/ CloseSession \/ ReadFails
    BY <2>2 DEF RxCheck, EpipeWritten, SplitStep, Leave, CloseSession, ReadFails
  <2>3. CASE UnknownEndpoint \/ TakeUnlink \/ Emulate \/ HandToHost \/ SplitRequest
    BY <2>3 DEF UnknownEndpoint, TakeUnlink, Emulate, HandToHost, SplitRequest
  <2>4. CASE HandlerEnds
    BY <2>4 DEF HandlerEnds, HandlerFails, HandlerThrows, SplitThrows, RxThrows
  <2>5. CASE Sender
    BY <2>5 DEF Sender, TxCheck, TxTake, TxClosed, TxWrites, TxWriteFails
  <2>6. CASE Callbacks
    BY <2>6 DEF Callbacks, HostReturns, ChunkCallback, LateChunk
  <2>7. CASE Client \/ ImmediatelyStop \/ PostedClose \/ UNCHANGED vars
    BY <2>7 DEF Client, ClientOp, ClientSend, ClientCloses, ImmediatelyStop, PostedClose, vars
  <2>. QED BY <2>1, <2>2, <2>3, <2>4, <2>5, <2>6, <2>7
     DEF Next, Receiver, HandlerEnds
<1>3. taken \in Nat /\ (taken' = taken \/ taken' = taken + 1)
  <2>1. CASE taken' = taken
    BY <2>1 DEF Places
  <2>2. CASE taken' # taken
    BY <2>2, TakenStep, TakesNext
  <2>. QED BY <2>1, <2>2
<1>4. ASSUME NEW s \in 1 .. taken
      PROVE  s \in 1 .. taken' /\ s \in 1 .. Len(sent) /\ sent'[s] = sent[s]
  <2>1. sent \in Seq(Command) /\ Len(sent) \in Nat /\ taken <= Len(sent)
    BY DEF Stream, SentWell
  <2>2. s \in 1 .. taken' /\ s \in 1 .. Len(sent)
    BY <1>3, <2>1
  <2>3. \A n : Append(sent, n)[s] = sent[s]
    BY <2>1, <2>2
  <2>. QED BY <1>2, <2>2, <2>3
<1>5. ASSUME NEW s \in 1 .. taken
      PROVE  /\ Unknown(s)' = Unknown(s) /\ Split(s)' = Split(s)
             /\ FixedSize(s)' = FixedSize(s) /\ NoSuchEndpoint(s)' = NoSuchEndpoint(s)
             /\ Misdirected(s)' = Misdirected(s) /\ Periodic(s)' = Periodic(s)
  BY <1>1, <1>4
  DEF Unknown, Split, Splits, IsFor, FindEp, FixedSize, NoSuchEndpoint, Misdirected, Periodic
<1>6. ASSUME NEW s \in 1 .. taken, Cleared(s)
      PROVE  Cleared(s)'
  <2>1. PICK t \in 1 .. taken : Clears(t, s)
    BY <1>6 DEF Cleared
  <2>2. t \in 1 .. taken' /\ sent'[t] = sent[t] /\ sent'[s] = sent[s] /\ t <= taken'
    BY <1>4
  <2>3. Clears(t, s)'
    BY <1>1, <2>1, <2>2 DEF Clears, IsFor
  <2>. QED BY <2>2, <2>3 DEF Cleared
<1>7. taken' \in Nat /\ taken <= taken'
  BY <1>3
<1>. QED BY <1>1, <1>3, <1>4, <1>5, <1>6, <1>7

-----------------------------------------------------------------------------
(* Types.                                                                  *)

\* What the emulated device makes of the command s.
Told(o, s) ==
  LET p == Setup[sent[s].setup]
      isControl == Address(sent[s]) \in {0, 128} IN
  /\ o.ec \in BOOLEAN
  /\ o.fault \in {"none", "out_of_range", "null_handler"}
  /\ o.fault = "out_of_range" => p.index \notin Interface
  /\ o.fault = "null_handler" => Handled # Interface
  /\ \/ o.replies = <<>> /\ (o.fault # "none" \/ o.ec \/ (isControl /\ Ignored(p)))
     \/ \E r \in UrbReply :
          /\ o.replies = <<r>> /\ Target(r) = s
          /\ r.type = "ret_submit" =>
               /\ r.actual = r.data
               /\ \/ r.data = 0
                  \/ /\ isControl /\ ~IsOut(p)
                     /\ r.data <= sent[s].length \/ p.request \in OwnSize
          /\ r.type = "ret_unlink" => <<s, r.seq>> \in unlinks

\* The sets of the session: URBs, cancellations, handlers and replies.
Urbs ==
  /\ inFlight \subseteq 1 .. taken
  /\ \A s \in inFlight : kind = "host" /\ sent[s].type = "submit" /\ ~Split(s)
Unlinks ==
  /\ unlinks \subseteq Nat \X (1 .. taken)
  /\ \A u \in unlinks : sent[u[2]].type = "unlink" /\ sent[u[2]].target = u[1]
Pointers == known \subseteq Handled /\ (kind = "host" => known = {})
Queues == writes \in Seq(Reply) /\ queue \in Seq(UrbReply)

LEMMA UnlinkSeqnumType ==
  ASSUME Places, Unlinks, NEW s
  PROVE  /\ UnlinkSeqnum(s) \in Nat
         /\ IsUnlinked(s) => <<s, UnlinkSeqnum(s)>> \in unlinks
<1>1. CASE ~IsUnlinked(s)
  BY <1>1 DEF UnlinkSeqnum
<1>2. CASE IsUnlinked(s)
  <2>1. (CHOOSE u \in UnlinkOf(s) : TRUE) \in UnlinkOf(s)
    BY <1>2 DEF IsUnlinked
  <2>2. \A u \in UnlinkOf(s) : u[2] \in Nat /\ <<s, u[2]>> \in unlinks
    BY DEF UnlinkOf, Unlinks, Places
  <2>. QED BY <1>2, <2>1, <2>2 DEF UnlinkSeqnum
<1>. QED BY <1>1, <1>2

\* A call of Emulate, with the outcome that the device chose.
LEMMA Emulated ==
  ASSUME Places, Stream, Unlinks, Emulate
  PROVE  /\ Read(sent[taken + 1]) /\ sent[taken + 1].type = "submit" /\ kind = "emulated"
         /\ FindEp(sent[taken + 1]) /\ sent[taken + 1].seq = taken + 1
         /\ \E o : /\ Told(o, taken + 1) /\ Push(o.replies) /\ fault' = o.fault
                   /\ rxError' = o.ec /\ stop' = (stop \/ o.ec)
<1> DEFINE c == sent[taken + 1]
           p == Setup[c.setup]
<1>1. CommandOf(toServer) = c /\ Read(c) /\ c \in Command /\ c.seq = taken + 1
  BY TakesNext DEF Emulate
<1>2. c.type = "submit" /\ FindEp(c) /\ kind = "emulated"
  BY <1>1 DEF Emulate
<1>3. PICK o \in VirtualOutcomes(c, Address(c), p, IsUnlinked(c.seq), UnlinkSeqnum(c.seq)) :
        /\ Push(o.replies) /\ fault' = o.fault
        /\ rxError' = o.ec /\ stop' = (stop \/ o.ec)
  BY <1>1 DEF Emulate
<1>4. c \in Submission /\ c.seq \in Nat
  BY <1>1, <1>2 DEF Command, Submission, Cancellation
<1>5. Told(o, taken + 1)
  <2>1. CASE IsUnlinked(c.seq)
    <3>1. o = Answer(RetUnlink(UnlinkSeqnum(c.seq), c.seq, StatusECONNRESET))
      BY <1>3, <2>1 DEF VirtualOutcomes
    <3> DEFINE r == RetUnlink(UnlinkSeqnum(c.seq), c.seq, StatusECONNRESET)
    <3>2. r \in UrbReply /\ Target(r) = taken + 1 /\ r.type = "ret_unlink"
          /\ <<taken + 1, r.seq>> \in unlinks
      <4> DEFINE n == UnlinkSeqnum(c.seq)
                 t == taken + 1
      <4>1. c.seq = t /\ t \in Nat /\ n \in Nat /\ <<t, n>> \in unlinks
        BY <1>1, <1>4, <2>1, UnlinkSeqnumType
      <4>2. r = RetUnlink(n, t, StatusECONNRESET) /\ StatusECONNRESET \in Int
        BY <4>1, StatusTypes
      <4> HIDE DEF n, t, r
      <4>3. r \in UrbReply /\ Target(r) = t /\ r.type = "ret_unlink" /\ r.seq = n
        BY <4>1, <4>2, UnlinkReplies
      <4>. QED BY <4>1, <4>3 DEF t
    <3>3. o.ec = FALSE /\ o.fault = "none" /\ o.replies = <<r>>
      BY <3>1 DEF Answer, Outcome
    <3> HIDE DEF r
    <3>. QED BY <3>2, <3>3 DEF Told
  <2>2. CASE ~IsUnlinked(c.seq) /\ Address(c) \in {0, 128}
    <3>1. o \in Control(c, p)
      BY <1>3, <2>2 DEF VirtualOutcomes
    <3>2. p.length \in Nat /\ p.length = c.length
      <4>1. taken + 1 \in 1 .. Len(sent)
        BY <1>1, TakesNext
      <4>. QED BY <1>2, <1>4, <2>2, <4>1 DEF Stream, SentWell, Submission
    <3>3. LawfulOutcome(o, c, p)
      BY <1>4, <3>1, <3>2, ControlLawful DEF Lawful
    <3>4. /\ o.ec \in BOOLEAN /\ o.fault \in {"none", "out_of_range", "null_handler"}
          /\ o.fault = "out_of_range" => p.index \notin Interface
          /\ o.fault = "null_handler" => Handled # Interface
      BY <3>3 DEF LawfulOutcome
    <3>5. CASE o.replies = <<>> /\ (o.fault # "none" \/ o.ec \/ Ignored(p))
      <4>1. o.fault # "none" \/ o.ec \/ (Address(c) \in {0, 128} /\ Ignored(p))
        BY <2>2, <3>5
      <4> HIDE DEF p
      <4>2. /\ o.replies = <<>>
            /\ o.fault # "none" \/ o.ec \/ (Address(c) \in {0, 128} /\ Ignored(p))
        BY <3>5, <4>1
      <4>. QED BY <3>4, <4>2, Zenon DEF Told, p
    <3>6. CASE \E r \in SubmitReply : o.replies = <<r>> /\ r.seq = c.seq /\ Sized(r, p)
      <4>1. PICK r \in SubmitReply : o.replies = <<r>> /\ r.seq = c.seq /\ Sized(r, p)
        BY <3>6
      <4>2. /\ r.actual = r.data
            /\ r.data = 0 \/ (~IsOut(p) /\ (r.data <= c.length \/ p.request \in OwnSize))
        BY <3>2, <4>1 DEF Sized
      <4>3. r \in UrbReply /\ r.type = "ret_submit" /\ Target(r) = taken + 1
        BY <1>1, <4>1 DEF UrbReply, SubmitReply, Target
      <4>. QED BY <1>1, <2>2, <3>4, <4>1, <4>2, <4>3 DEF Told
    <3>. QED BY <3>3, <3>5, <3>6 DEF LawfulOutcome
  <2>3. CASE ~IsUnlinked(c.seq) /\ Address(c) \notin {0, 128}
    <3> DEFINE r == RetNoData(c.seq, StatusEPIPE)
    <3>1. o = Answer(r) \/ o = Error
      BY <1>3, <2>3 DEF VirtualOutcomes, Transfer, Refuse
    <3>2. r \in UrbReply /\ Target(r) = taken + 1 /\ r.data = 0 /\ r.actual = 0
          /\ r.type = "ret_submit"
      BY <1>1, <1>4, SubmitReplies, StatusTypes DEF RetNoData
    <3>3. CASE o = Answer(r)
      <4>1. o.ec = FALSE /\ o.fault = "none" /\ o.replies = <<r>>
        BY <3>3 DEF Answer, Outcome
      <4> HIDE DEF r
      <4>. QED BY <3>2, <4>1 DEF Told
    <3>4. CASE o = Error
      <4>1. o.ec = TRUE /\ o.fault = "none" /\ o.replies = <<>>
        BY <3>4 DEF Error, Outcome
      <4>. QED BY <4>1 DEF Told
    <3>. QED BY <3>1, <3>3, <3>4
  <2>. QED BY <2>1, <2>2, <2>3
<1>. QED BY <1>1, <1>2, <1>3, <1>5

\* A split request, and its chunks: some were submitted, and those that did not return are
\* in flight.  Only the call of the receiver can have counters that are alive.
Chunk == [next : Nat, total : Nat, flying : SUBSET Nat, completed : Nat, ok : BOOLEAN,
          alive : BOOLEAN]

Counted(b) ==
  /\ b \in Chunk
  /\ b.flying \subseteq 0 .. b.next - 1 /\ b.next <= b.total
  /\ b.completed + Cardinality(b.flying) = b.next

Chunks ==
  \A s \in DOMAIN bulk :
    /\ s \in 1 .. taken /\ Split(s) /\ Counted(bulk[s])
    /\ bulk[s].alive => rx = "splitting" /\ s = taken

LEMMA UrbsStep == Places /\ Stream /\ Urbs /\ [Next]_vars => Urbs'
<1> SUFFICES ASSUME Places, Stream, Urbs, [Next]_vars PROVE Urbs'
  OBVIOUS
<1> USE DEF clientVars, rxVars, txVars, channelVars, wireVars, stopVars, deviceVars
<1>1. CASE inFlight' \subseteq inFlight
  BY <1>1, Onwards DEF Urbs
<1>2. CASE HandToHost
  <2> DEFINE c == CommandOf(toServer)
  <2>1. /\ kind = "host" /\ Read(c) /\ c.type = "submit" /\ ~Splits(c)
        /\ inFlight' \subseteq inFlight \cup {c.seq} /\ sent' = sent
    BY <1>2 DEF HandToHost
  <2> HIDE DEF c
  <2>2. c = sent[taken + 1] /\ c.seq = taken + 1 /\ taken' = taken + 1 /\ taken \in Nat
    BY <2>1, TakesNext
  <2>3. ASSUME NEW s \in inFlight'
        PROVE  s \in 1 .. taken' /\ kind' = "host" /\ sent'[s].type = "submit" /\ ~Split(s)'
    <3>1. CASE s = taken + 1
      <4>1. s \in 1 .. taken' /\ kind' = "host" /\ sent'[s] = c
        BY <2>1, <2>2, <3>1, Onwards
      <4>. QED BY <2>1, <4>1 DEF Split, Splits, IsFor
    <3>2. CASE s \in inFlight
      BY <3>2, Onwards DEF Urbs
    <3>. QED BY <2>1, <2>2, <2>3, <3>1, <3>2
  <2>. QED BY <2>3 DEF Urbs
<1>3. CASE ReadOp \/ ReadOpFails \/ RxWrites \/ RxWriteFails \/ Replied \/ StartTransfer
  BY <1>1, <1>3 DEF ReadOp, ReadOpFails, RxWrites, RxWriteFails, RxThrows, Replied,
     StartTransfer
<1>4. CASE RxCheck \/ EpipeWritten \/ SplitStep \/ Leave \/ CloseSession \/ ReadFails
  BY <1>1, <1>4 DEF RxCheck, EpipeWritten, SplitStep, Leave, CloseSession, ReadFails
<1>5. CASE UnknownEndpoint \/ TakeUnlink \/ Emulate \/ SplitRequest
  BY <1>1, <1>5 DEF UnknownEndpoint, TakeUnlink, Emulate, SplitRequest
<1>6. CASE HandlerEnds
  BY <1>1, <1>6 DEF HandlerEnds, HandlerFails, HandlerThrows, SplitThrows, RxThrows
<1>7. CASE Sender
  BY <1>1, <1>7 DEF Sender, TxCheck, TxTake, TxClosed, TxWrites, TxWriteFails
<1>8. CASE Callbacks
  BY <1>1, <1>8 DEF Callbacks, HostReturns, ChunkCallback, LateChunk
<1>9. CASE Client \/ ImmediatelyStop \/ PostedClose \/ UNCHANGED vars
  BY <1>1, <1>9
  DEF Client, ClientOp, ClientSend, ClientCloses, ImmediatelyStop, PostedClose, vars
<1>. QED BY <1>2, <1>3, <1>4, <1>5, <1>6, <1>7, <1>8, <1>9
    DEF Next, Receiver, HandlerEnds

LEMMA UnlinksStep == Places /\ Stream /\ Unlinks /\ [Next]_vars => Unlinks'
<1> SUFFICES ASSUME Places, Stream, Unlinks, [Next]_vars PROVE Unlinks'
  OBVIOUS
<1> USE DEF clientVars, rxVars, txVars, channelVars, wireVars, stopVars, deviceVars
<1>1. /\ taken \in Nat /\ taken' \in Nat /\ taken <= taken'
      /\ \A s \in 1 .. taken : s \in 1 .. taken' /\ sent'[s] = sent[s]
  BY Onwards DEF Places
<1>2. CASE unlinks' \subseteq unlinks
  <2>1. \A u \in unlinks : u[1] \in Nat /\ u[2] \in 1 .. taken /\ u = <<u[1], u[2]>>
    BY DEF Unlinks
  <2>2. unlinks' \subseteq Nat \X (1 .. taken')
    BY <1>1, <1>2, <2>1
  <2>3. \A u \in unlinks' : sent'[u[2]].type = "unlink" /\ sent'[u[2]].target = u[1]
    BY <1>1, <1>2, <2>1 DEF Unlinks
  <2>. QED BY <2>2, <2>3 DEF Unlinks
<1>3. CASE TakeUnlink
  <2> DEFINE c == CommandOf(toServer)
  <2>1. Read(c) /\ c.type = "unlink" /\ unlinks' \subseteq unlinks \cup {<<c.target, c.seq>>}
    BY <1>3 DEF TakeUnlink
  <2> HIDE DEF c
  <2>2. c \in Command /\ c.seq = taken + 1 /\ taken' = taken + 1
    BY <2>1, TakesNext
  <2>3. c.target \in Nat
    BY <2>1, <2>2 DEF Command, Submission, Cancellation
  <2>4. sent' = sent /\ c = sent[taken + 1]
    BY <1>3, <2>1, TakesNext DEF TakeUnlink
  <2>5. \A u \in unlinks : u[1] \in Nat /\ u[2] \in 1 .. taken /\ u = <<u[1], u[2]>>
    BY DEF Unlinks
  <2>6. unlinks' \subseteq Nat \X (1 .. taken')
    BY <1>1, <2>1, <2>2, <2>3, <2>5
  <2>7. \A u \in unlinks' : sent'[u[2]].type = "unlink" /\ sent'[u[2]].target = u[1]
    BY <2>1, <2>2, <2>4 DEF Unlinks
  <2>. QED BY <2>6, <2>7 DEF Unlinks
<1>4. CASE ReadOp \/ ReadOpFails \/ RxWrites \/ RxWriteFails \/ Replied \/ StartTransfer
  BY <1>2, <1>4 DEF ReadOp, ReadOpFails, RxWrites, RxWriteFails, RxThrows, Replied,
     StartTransfer
<1>5. CASE RxCheck \/ EpipeWritten \/ SplitStep \/ Leave \/ CloseSession \/ ReadFails
  BY <1>2, <1>5 DEF RxCheck, EpipeWritten, SplitStep, Leave, CloseSession, ReadFails
<1>6. CASE UnknownEndpoint \/ HandToHost \/ Emulate \/ SplitRequest
  BY <1>2, <1>6 DEF UnknownEndpoint, HandToHost, Emulate, SplitRequest
<1>7. CASE HandlerEnds
  BY <1>2, <1>7 DEF HandlerEnds, HandlerFails, HandlerThrows, SplitThrows, RxThrows
<1>8. CASE Sender
  BY <1>2, <1>8 DEF Sender, TxCheck, TxTake, TxClosed, TxWrites, TxWriteFails
<1>9. CASE Callbacks
  BY <1>2, <1>9 DEF Callbacks, HostReturns, ChunkCallback, LateChunk
<1>10. CASE Client \/ ImmediatelyStop \/ PostedClose \/ UNCHANGED vars
  BY <1>2, <1>10
  DEF Client, ClientOp, ClientSend, ClientCloses, ImmediatelyStop, PostedClose, vars
<1>. QED BY <1>3, <1>4, <1>5, <1>6, <1>7, <1>8, <1>9, <1>10
    DEF Next, Receiver, HandlerEnds

LEMMA PointersStep == Places /\ Stream /\ Pointers /\ [Next]_vars => Pointers'
<1> SUFFICES ASSUME Places, Stream, Pointers, [Next]_vars PROVE Pointers'
  OBVIOUS
<1> USE DEF clientVars, rxVars, txVars, channelVars, wireVars, stopVars, deviceVars
<1>1. kind' = kind
  BY Onwards
<1>2. CASE known' \subseteq known
  BY <1>1, <1>2 DEF Pointers
<1>3. CASE StartTransfer
  BY <1>1, <1>3 DEF StartTransfer, OnNewConnection, Pointers
<1>4. CASE ReadOp \/ ReadOpFails \/ RxWrites \/ RxWriteFails \/ Replied
  BY <1>2, <1>4 DEF ReadOp, ReadOpFails, RxWrites, RxWriteFails, RxThrows, Replied
<1>5. CASE RxCheck \/ EpipeWritten \/ SplitStep \/ Leave \/ CloseSession \/ ReadFails
  BY <1>2, <1>5
  DEF RxCheck, EpipeWritten, SplitStep, Leave, CloseSession, ReadFails, OnDisconnection
<1>6. CASE UnknownEndpoint \/ TakeUnlink \/ HandToHost \/ Emulate \/ SplitRequest
  BY <1>2, <1>6 DEF UnknownEndpoint, TakeUnlink, HandToHost, Emulate, SplitRequest
<1>7. CASE HandlerEnds
  BY <1>2, <1>7 DEF HandlerEnds, HandlerFails, HandlerThrows, SplitThrows, RxThrows
<1>8. CASE Sender
  BY <1>2, <1>8 DEF Sender, TxCheck, TxTake, TxClosed, TxWrites, TxWriteFails
<1>9. CASE Callbacks
  BY <1>2, <1>9 DEF Callbacks, HostReturns, ChunkCallback, LateChunk
<1>10. CASE Client \/ ImmediatelyStop \/ PostedClose \/ UNCHANGED vars
  BY <1>2, <1>10
  DEF Client, ClientOp, ClientSend, ClientCloses, ImmediatelyStop, PostedClose, vars
<1>. QED BY <1>3, <1>4, <1>5, <1>6, <1>7, <1>8, <1>9, <1>10
    DEF Next, Receiver, HandlerEnds

\* What the steps of a split request do to its record.
LEMMA ChunkFields ==
  ASSUME NEW b \in Chunk
  PROVE  /\ \A v \in SUBSET Nat : LET d == [b EXCEPT !.flying = v] IN
              /\ d \in Chunk /\ d.flying = v /\ d.next = b.next /\ d.total = b.total
              /\ d.completed = b.completed /\ d.ok = b.ok /\ d.alive = b.alive
         /\ \A v \in Nat : LET d == [b EXCEPT !.next = v] IN
              /\ d \in Chunk /\ d.next = v /\ d.flying = b.flying /\ d.total = b.total
              /\ d.completed = b.completed /\ d.ok = b.ok /\ d.alive = b.alive
         /\ \A v \in Nat : LET d == [b EXCEPT !.completed = v] IN
              /\ d \in Chunk /\ d.completed = v /\ d.flying = b.flying /\ d.total = b.total
              /\ d.next = b.next /\ d.ok = b.ok /\ d.alive = b.alive
         /\ \A v \in BOOLEAN : LET d == [b EXCEPT !.ok = v] IN
              /\ d \in Chunk /\ d.ok = v /\ d.flying = b.flying /\ d.total = b.total
              /\ d.next = b.next /\ d.completed = b.completed /\ d.alive = b.alive
BY DEF Chunk

LEMMA ChunkSubmitted ==
  ASSUME NEW b, Counted(b), b.next < b.total
  PROVE  LET d == [[b EXCEPT !.flying = b.flying \cup {b.next}] EXCEPT !.next = b.next + 1] IN
         /\ Counted(d) /\ d.alive = b.alive /\ d.completed = b.completed /\ d.total = b.total
<1> DEFINE d == [[b EXCEPT !.flying = b.flying \cup {b.next}] EXCEPT !.next = b.next + 1]
<1>1. b \in Chunk /\ b.next \in Nat /\ b.total \in Nat /\ b.completed \in Nat
      /\ b.flying \subseteq 0 .. b.next - 1
      /\ b.completed + Cardinality(b.flying) = b.next
  BY DEF Counted, Chunk
<1>2. /\ d \in Chunk /\ d.alive = b.alive /\ d.completed = b.completed /\ d.total = b.total
      /\ d.next = b.next + 1 /\ d.flying = b.flying \cup {b.next}
  <2> DEFINE e == [b EXCEPT !.flying = b.flying \cup {b.next}]
  <2>1. b.flying \cup {b.next} \in SUBSET Nat /\ b.next + 1 \in Nat
    BY <1>1
  <2>2. /\ e \in Chunk /\ e.flying = b.flying \cup {b.next} /\ e.next = b.next
        /\ e.total = b.total /\ e.completed = b.completed /\ e.alive = b.alive
    BY <1>1, <2>1, ChunkFields
  <2>3. d = [e EXCEPT !.next = b.next + 1]
    OBVIOUS
  <2> HIDE DEF d, e
  <2>. QED BY <2>1, <2>2, <2>3, ChunkFields
<1> HIDE DEF d
<1>3. d.flying \subseteq 0 .. d.next - 1 /\ d.next <= d.total
  BY <1>1, <1>2
<1>4. Cardinality(d.flying) = Cardinality(b.flying) + 1 /\ Cardinality(b.flying) \in Nat
  <2>1. 0 \in Int /\ b.next - 1 \in Int
    BY <1>1
  <2>2. IsFiniteSet(b.flying)
    BY <1>1, <2>1, FS_Interval, FS_Subset
  <2>3. b.next \notin b.flying
    BY <1>1
  <2>4. Cardinality(b.flying) \in Nat
    BY <2>2, FS_CardinalityType
  <2>5. Cardinality(b.flying \cup {b.next}) = Cardinality(b.flying) + 1
    BY <2>2, <2>3, FS_AddElement
  <2>. QED BY <1>2, <2>4, <2>5
<1>5. d.completed + Cardinality(d.flying) = d.next
  BY <1>1, <1>2, <1>4
<1>. QED BY <1>2, <1>3, <1>5 DEF Counted, d

\* The record once its chunk i has returned.
AfterChunk(b, i, ok) ==
  [[[b EXCEPT !.flying = b.flying \ {i}] EXCEPT !.completed = b.completed + 1]
     EXCEPT !.ok = b.ok /\ ok]

LEMMA ChunkReturned ==
  ASSUME NEW b, Counted(b), NEW i \in b.flying, NEW ok \in BOOLEAN
  PROVE  LET d == AfterChunk(b, i, ok) IN
         /\ Counted(d) /\ d.alive = b.alive /\ d.completed = b.completed + 1
         /\ d.total = b.total /\ b.completed < b.total
<1> DEFINE d == AfterChunk(b, i, ok)
<1>1. b \in Chunk /\ b.next \in Nat /\ b.total \in Nat /\ b.completed \in Nat
      /\ b.flying \subseteq 0 .. b.next - 1 /\ b.next <= b.total
      /\ b.completed + Cardinality(b.flying) = b.next
  BY DEF Counted, Chunk
<1>2. /\ d \in Chunk /\ d.alive = b.alive /\ d.completed = b.completed + 1
      /\ d.total = b.total /\ d.next = b.next /\ d.flying = b.flying \ {i}
  <2> DEFINE e == [b EXCEPT !.flying = b.flying \ {i}]
             f == [e EXCEPT !.completed = b.completed + 1]
             v == b.ok /\ ok
  <2>1. b.flying \ {i} \in SUBSET Nat /\ b.completed + 1 \in Nat
    BY <1>1
  <2>2. /\ e \in Chunk /\ e.flying = b.flying \ {i} /\ e.next = b.next
        /\ e.total = b.total /\ e.alive = b.alive
    BY <1>1, <2>1, ChunkFields
  <2> HIDE DEF e
  <2>3. /\ f \in Chunk /\ f.flying = b.flying \ {i} /\ f.next = b.next
        /\ f.total = b.total /\ f.alive = b.alive /\ f.completed = b.completed + 1
    BY <2>1, <2>2, ChunkFields
  <2>4. d = [f EXCEPT !.ok = v] /\ v \in BOOLEAN
    BY DEF e, AfterChunk
  <2> HIDE DEF d, f, v
  <2>. QED BY <2>3, <2>4, ChunkFields
<1> HIDE DEF d
<1>3. d.flying \subseteq 0 .. d.next - 1 /\ d.next <= d.total
  BY <1>1, <1>2
<1>4. Cardinality(d.flying) = Cardinality(b.flying) - 1 /\ Cardinality(b.flying) \in Nat \ {0}
  <2>1. 0 \in Int /\ b.next - 1 \in Int
    BY <1>1
  <2>2. IsFiniteSet(b.flying)
    BY <1>1, <2>1, FS_Interval, FS_Subset
  <2>3. Cardinality(b.flying) \in Nat /\ Cardinality(b.flying) # 0
    BY <2>2, FS_CardinalityType, FS_EmptySet
  <2>. QED BY <1>2, <2>2, <2>3, FS_RemoveElement
<1>5. d.completed + Cardinality(d.flying) = d.next /\ b.completed < b.total
  BY <1>1, <1>2, <1>4
<1>. QED BY <1>2, <1>3, <1>5 DEF Counted, d

LEMMA ChunkEnded ==
  ASSUME NEW b, Counted(b)
  PROVE  Counted([b EXCEPT !.alive = FALSE]) /\ [b EXCEPT !.alive = FALSE].alive = FALSE
BY DEF Counted, Chunk

LEMMA TotalChunksType ==
  ASSUME NEW length \in Nat
  PROVE  TotalChunks(length) \in Nat
<1>1. MaxTransfer \in Nat /\ MaxTransfer > 0
  BY BulkAssumption DEF BulkAssumption
<1>2. \A a, m \in Nat : m > 0 => a \div m \in Nat
  OBVIOUS
<1>3. length + MaxTransfer - 1 \in Nat
  BY <1>1
<1>. QED BY <1>1, <1>2, <1>3 DEF TotalChunks, Ceiling

LEMMA ChunksKept ==
  ASSUME Places, Stream, Chunks, [Next]_vars, bulk' = bulk,
         rx = "splitting" => rx' = "splitting" /\ taken' = taken
  PROVE  Chunks'
BY Onwards DEF Chunks

LEMMA ChunksChanged ==
  ASSUME Places, Stream, Chunks, [Next]_vars, NEW s \in DOMAIN bulk, taken' = taken,
         DOMAIN bulk' = DOMAIN bulk, \A t \in DOMAIN bulk : t # s => bulk'[t] = bulk[t],
         Counted(bulk'[s]),
         bulk'[s].alive => bulk[s].alive /\ rx' = "splitting",
         rx' = rx \/ s = taken
  PROVE  Chunks'
<1>1. ASSUME NEW t \in DOMAIN bulk
      PROVE  /\ t \in 1 .. taken' /\ Split(t)' /\ Counted(bulk'[t])
             /\ bulk'[t].alive => rx' = "splitting" /\ t = taken'
  <2>1. /\ t \in 1 .. taken /\ Split(t) /\ Counted(bulk[t])
        /\ bulk[t].alive => rx = "splitting" /\ t = taken
    BY DEF Chunks
  <2>2. t \in 1 .. taken' /\ Split(t)'
    BY <2>1, Onwards
  <2>3. CASE t = s
    BY <2>1, <2>2, <2>3
  <2>4. CASE t # s
    <3>1. bulk'[t] = bulk[t]
      BY <2>4
    <3>2. bulk'[t].alive => rx' = "splitting" /\ t = taken'
      BY <2>1, <2>4, <3>1
    <3>. QED BY <2>1, <2>2, <3>1, <3>2
  <2>. QED BY <2>3, <2>4
<1>. QED BY <1>1 DEF Chunks

\* A step of the loop of a split request, its end or an exception, and what it leaves of
\* its record.
LEMMA LoopStep ==
  ASSUME Chunks, SplitStep \/ SplitThrows
  PROVE  /\ taken \in DOMAIN bulk /\ rx = "splitting" /\ taken' = taken
         /\ bulk[taken].alive
         /\ DOMAIN bulk' = DOMAIN bulk
         /\ \A t \in DOMAIN bulk : t # taken => bulk'[t] = bulk[t]
         /\ Counted(bulk'[taken]) /\ bulk'[taken].completed = bulk[taken].completed
         /\ bulk'[taken].total = bulk[taken].total
         /\ bulk'[taken].alive \in BOOLEAN
         /\ rx' = "splitting" \/ ~bulk'[taken].alive
<1>1. /\ taken' = taken /\ rx = "splitting" /\ taken \in DOMAIN bulk /\ bulk[taken].alive
      /\ \/ SubmitChunk(taken) /\ rx' = rx
         \/ ChunkRefused(taken) \/ SplitReturns(taken)
  BY DEF SplitStep, SplitThrows, SubmitChunk, ChunkRefused, SplitReturns, InLoop, Current,
     rxVars
<1>2. Counted(bulk[taken])
  BY <1>1 DEF Chunks
<1>3. CASE SubmitChunk(taken) /\ rx' = rx
  <2> DEFINE b == bulk[taken]
             d == [[b EXCEPT !.flying = b.flying \cup {b.next}] EXCEPT !.next = b.next + 1]
  <2>1. /\ bulk[taken].next < bulk[taken].total
        /\ bulk' = [bulk EXCEPT ![taken].flying = @ \cup {bulk[taken].next},
                                ![taken].next = @ + 1]
    BY <1>3 DEF SubmitChunk
  <2>2. bulk'[taken] = d /\ DOMAIN bulk' = DOMAIN bulk
        /\ \A t \in DOMAIN bulk : t # taken => bulk'[t] = bulk[t]
    <3>1. [b EXCEPT !.flying = b.flying \cup {b.next}].next = b.next
      BY <1>2 DEF Counted, Chunk
    <3>. QED BY <1>1, <2>1, <3>1
  <2>3. Counted(d) /\ d.alive = b.alive /\ d.completed = b.completed /\ d.total = b.total
    BY <1>2, <2>1, ChunkSubmitted
  <2>4. b.alive \in BOOLEAN
    BY <1>2 DEF Counted, Chunk
  <2> HIDE DEF d
  <2>. QED BY <1>1, <1>3, <2>2, <2>3, <2>4
<1>4. CASE ChunkRefused(taken) \/ SplitReturns(taken)
  <2> DEFINE b == bulk[taken]
             d == [b EXCEPT !.alive = FALSE]
  <2>1. bulk' = [bulk EXCEPT ![taken].alive = FALSE]
    BY <1>4 DEF ChunkRefused, SplitReturns
  <2>2. bulk'[taken] = d /\ DOMAIN bulk' = DOMAIN bulk
        /\ \A t \in DOMAIN bulk : t # taken => bulk'[t] = bulk[t]
    BY <1>1, <2>1
  <2>3. Counted(d) /\ d.alive = FALSE /\ d.completed = b.completed /\ d.total = b.total
    BY <1>2, ChunkEnded DEF Counted, Chunk
  <2> HIDE DEF d
  <2>. QED BY <1>1, <2>2, <2>3
<1>. QED BY <1>1, <1>3, <1>4

\* A callback of a chunk, and what it leaves of the record.
LEMMA CallbackStep ==
  ASSUME Chunks, NEW s \in DOMAIN bulk, ChunkCallback(s)
  PROVE  /\ UNCHANGED <<rx, taken>> /\ bulk[s].alive
         /\ DOMAIN bulk' = DOMAIN bulk
         /\ \A t \in DOMAIN bulk : t # s => bulk'[t] = bulk[t]
         /\ Counted(bulk'[s]) /\ bulk'[s].completed = bulk[s].completed + 1
         /\ bulk'[s].total = bulk[s].total /\ bulk'[s].alive = bulk[s].alive
         /\ bulk[s].completed < bulk[s].total
<1>1. PICK i \in bulk[s].flying, ok \in BOOLEAN : ChunkReturns(s, i, ok)
  BY DEF ChunkCallback
<1>2. Counted(bulk[s])
  BY DEF Chunks
<1> DEFINE b == bulk[s]
           d == AfterChunk(b, i, ok)
<1>3. /\ bulk[s].alive
      /\ bulk' = [bulk EXCEPT ![s].flying = @ \ {i}, ![s].completed = @ + 1,
                              ![s].ok = @ /\ ok]
  BY <1>1 DEF ChunkReturns
<1>4. bulk'[s] = d /\ DOMAIN bulk' = DOMAIN bulk
      /\ \A t \in DOMAIN bulk : t # s => bulk'[t] = bulk[t]
  <2>1. [b EXCEPT !.flying = b.flying \ {i}].completed = b.completed
    BY <1>2 DEF Counted, Chunk
  <2>2. [[b EXCEPT !.flying = b.flying \ {i}] EXCEPT !.completed = b.completed + 1].ok = b.ok
    BY <1>2 DEF Counted, Chunk
  <2>. QED BY <1>3, <2>1, <2>2 DEF AfterChunk
<1>5. /\ Counted(d) /\ d.alive = b.alive /\ d.completed = b.completed + 1
      /\ d.total = b.total /\ b.completed < b.total
  <2>1. i \in b.flying /\ ok \in BOOLEAN
    OBVIOUS
  <2>2. Counted(b)
    BY <1>2
  <2> HIDE DEF b
  <2>. QED BY <2>1, <2>2, ChunkReturned
<1>6. UNCHANGED <<rx, taken>>
  BY DEF ChunkCallback, rxVars
<1> HIDE DEF d
<1>. QED BY <1>3, <1>4, <1>5, <1>6

\* The request of a split begins without a chunk.
LEMMA SplitBegins ==
  ASSUME Places, Stream, Chunks, NEW c, Read(c), StartSplit(c.seq, c.length),
         c.type = "submit"
  PROVE  /\ DOMAIN bulk' = DOMAIN bulk \cup {taken + 1}
         /\ \A t \in DOMAIN bulk : t # taken + 1 /\ bulk'[t] = bulk[t] /\ ~bulk[t].alive
         /\ Counted(bulk'[taken + 1])
<1>1. c \in Command /\ c.seq = taken + 1 /\ taken \in Nat /\ rx = "reading"
  BY TakesNext DEF Read
<1>2. c.length \in Nat
  BY <1>1 DEF Command, Submission, Cancellation
<1> DEFINE new == [next |-> 0, total |-> TotalChunks(c.length), flying |-> {},
                   completed |-> 0, ok |-> TRUE, alive |-> TRUE]
<1>3. bulk' = [t \in DOMAIN bulk \cup {taken + 1} |-> IF t = taken + 1 THEN new ELSE bulk[t]]
  BY <1>1 DEF StartSplit
<1>4. Counted(new)
  <2>1. TotalChunks(c.length) \in Nat
    BY <1>2, TotalChunksType
  <2>2. new \in Chunk /\ new.next = 0 /\ new.completed = 0 /\ new.flying = {}
        /\ new.total = TotalChunks(c.length)
    BY <2>1 DEF Chunk
  <2> HIDE DEF new
  <2>3. Cardinality({}) = 0
    BY FS_EmptySet
  <2>. QED BY <2>1, <2>2, <2>3 DEF Counted
<1> HIDE DEF new
<1>5. \A t \in DOMAIN bulk : t \in 1 .. taken /\ ~bulk[t].alive
  BY <1>1 DEF Chunks
<1>6. \A t \in DOMAIN bulk : t # taken + 1
  BY <1>1, <1>5
<1>. QED BY <1>3, <1>4, <1>5, <1>6

LEMMA ChunksStep == Places /\ Stream /\ Chunks /\ [Next]_vars => Chunks'
<1> SUFFICES ASSUME Places, Stream, Chunks, [Next]_vars PROVE Chunks'
  OBVIOUS
<1> USE DEF clientVars, rxVars, txVars, channelVars, wireVars, stopVars, deviceVars
<1>1. CASE SplitRequest
  <2> DEFINE c == CommandOf(toServer)
  <2>1. /\ kind = "host" /\ Read(c) /\ c.type = "submit" /\ Splits(c)
        /\ \/ StartSplit(c.seq, c.length) /\ rx' = "splitting"
           \/ UNCHANGED bulk
        /\ sent' = sent /\ rx = "reading"
    BY <1>1 DEF SplitRequest, Read
  <2> HIDE DEF c
  <2>2. CASE UNCHANGED bulk
    BY <2>1, <2>2, ChunksKept
  <2>3. CASE StartSplit(c.seq, c.length) /\ rx' = "splitting"
    <3>1. /\ c = sent[taken + 1] /\ taken' = taken + 1 /\ taken \in Nat
      BY <2>1, TakesNext
    <3>2. /\ DOMAIN bulk' = DOMAIN bulk \cup {taken + 1}
          /\ \A t \in DOMAIN bulk : t # taken + 1 /\ bulk'[t] = bulk[t] /\ ~bulk[t].alive
          /\ Counted(bulk'[taken + 1])
      BY <2>1, <2>3, SplitBegins
    <3>3. ASSUME NEW t \in DOMAIN bulk'
          PROVE  /\ t \in 1 .. taken' /\ Split(t)' /\ Counted(bulk'[t])
                 /\ bulk'[t].alive => rx' = "splitting" /\ t = taken'
      <4>1. CASE t = taken + 1
        <5>1. t \in 1 .. taken' /\ sent'[t] = c /\ kind' = "host"
          BY <2>1, <3>1, <4>1, Onwards
        <5>. QED BY <2>1, <2>3, <3>1, <3>2, <4>1, <5>1 DEF Split, Splits, IsFor
      <4>2. CASE t \in DOMAIN bulk
        <5>1. t \in 1 .. taken' /\ Split(t)'
          BY <4>2, Onwards DEF Chunks
        <5>. QED BY <3>2, <4>2, <5>1 DEF Chunks
      <4>. QED BY <3>2, <3>3, <4>1, <4>2
    <3>. QED BY <3>3 DEF Chunks
  <2>. QED BY <2>1, <2>2, <2>3
<1>2. CASE SplitStep \/ SplitThrows
  BY <1>2, LoopStep, ChunksChanged
<1>3. ASSUME NEW s \in DOMAIN bulk, ChunkCallback(s) PROVE Chunks'
  <2>1. rx' = "splitting"
    BY <1>3, CallbackStep DEF Chunks
  <2>. QED BY <1>3, <2>1, CallbackStep, ChunksChanged
<1>4. CASE ReadOp \/ ReadOpFails \/ RxWrites \/ RxWriteFails \/ Replied \/ StartTransfer
  BY <1>4, ChunksKept
  DEF ReadOp, ReadOpFails, RxWrites, RxWriteFails, RxThrows, Replied, StartTransfer, Writing
<1>5. CASE RxCheck \/ EpipeWritten \/ Leave \/ CloseSession \/ ReadFails
  BY <1>5, ChunksKept DEF RxCheck, EpipeWritten, Leave, CloseSession, ReadFails
<1>6. CASE UnknownEndpoint \/ TakeUnlink \/ Emulate \/ HandToHost
  BY <1>6, ChunksKept DEF UnknownEndpoint, TakeUnlink, Emulate, HandToHost, Read
<1>7. CASE HandlerFails \/ HandlerThrows
  BY <1>7, ChunksKept DEF HandlerFails, HandlerThrows, RxThrows, Read
<1>8. CASE Sender
  BY <1>8, ChunksKept DEF Sender, TxCheck, TxTake, TxClosed, TxWrites, TxWriteFails
<1>9. ASSUME NEW s \in inFlight, HostReturns(s) PROVE Chunks'
  BY <1>9, ChunksKept DEF HostReturns
<1>10. ASSUME NEW s \in DOMAIN bulk, LateChunk(s) PROVE Chunks'
  BY <1>10, ChunksKept DEF LateChunk
<1>11. CASE Client \/ ImmediatelyStop \/ PostedClose \/ UNCHANGED vars
  BY <1>11, ChunksKept
  DEF Client, ClientOp, ClientSend, ClientCloses, ImmediatelyStop, PostedClose, vars
<1>. QED
  BY <1>1, <1>2, <1>3, <1>4, <1>5, <1>6, <1>7, <1>8, <1>9, <1>10, <1>11
  DEF Next, Receiver, Callbacks

-----------------------------------------------------------------------------
(* Answers.                                                                *)

\* The chunks of the request s are on their way, and the call that counts them is alive.
Open(s) == s \in DOMAIN bulk /\ bulk[s].alive /\ bulk[s].completed < bulk[s].total

\* Somebody is to answer the URB s.
Owed(s) == s \in inFlight \/ Open(s)

\* What ReplyFits asks of one reply.
Fits(r) ==
  r.type = "ret_submit" =>
    \/ r.data <= sent[r.seq].length
    \/ FixedSize(r.seq)
    \/ kind = "host" /\ sent[r.seq].length % MaxPacketSize # 0

\* A client that has the commands finds the end of the reply: the payload is as long as the
\* header says, and there is none after an Out command.  A RET_UNLINK has the sequence
\* number of the CMD_UNLINK.
Legible(r) ==
  /\ r.seq \in 1 .. taken
  /\ r.type = "ret_submit" =>
       /\ sent[r.seq].type = "submit"
       /\ sent[r.seq].dir = In => r.actual = r.data
       /\ sent[r.seq].dir = Out => r.data = 0 \/ Misdirected(r.seq)
  /\ r.type = "ret_unlink" =>
       sent[r.seq].type = "unlink" /\ sent[r.seq].target = r.target

\* The step answers an URB that it took, or that was owed an answer, and owes it no more.
New(r) ==
  /\ r \in UrbReply
  /\ Owed(Target(r)) \/ (Target(r) = taken + 1 /\ taken' = taken + 1)
  /\ Target(r) \in 1 .. taken' /\ sent'[Target(r)].type = "submit"
  /\ ~Owed(Target(r))' /\ Fits(r)' /\ Legible(r)'

\* The URBs that a later command cancelled together with others.
Cleanup == {s \in 1 .. taken : Cleared(s)}

\* When both answer one URB, that is one of the set, a refuses it and b reports it done.
InTurn(a, b, cleared) ==
  \A s : Answers(a, s) /\ Answers(b, s) =>
    /\ s \in cleared /\ a = RetNoData(s, StatusEPIPE)
    /\ b.type = "ret_submit" /\ b.status = StatusOK

\* The step queues a new reply, or the two of an URB that could not be submitted again.
Queued ==
  \E e, r :
    /\ New(e) /\ New(r) /\ Target(e) = Target(r)
    /\ \/ queue' = Append(queue, r)
       \/ InTurn(e, r, Cleanup) /\ queue' = Append(Append(queue, e), r)

LEMMA OneQueued ==
  ASSUME NEW r, New(r), queue' = Append(queue, r)
  PROVE  Queued
BY DEF Queued

LEMMA Division ==
  ASSUME NEW n \in Nat, NEW m \in Nat, m > 0
  PROVE  /\ n \div m \in Int
         /\ (n \div m) * m <= n /\ n < (n \div m) * m + m
         /\ n % m = 0 => n = (n \div m) * m
<1>1. n \div m \in Int
  OBVIOUS
<1>2. (n \div m) * m <= n
  OBVIOUS
<1>3. n < (n \div m) * m + m
  OBVIOUS
<1>4. n % m = 0 => n = (n \div m) * m
  OBVIOUS
<1>. QED BY <1>1, <1>2, <1>3, <1>4

LEMMA WholePackets ==
  ASSUME NEW a \in Nat, NEW m \in Nat, m > 0, a % m = 0
  PROVE  ((a + m - 1) \div m) * m = a
<1> DEFINE b == a + m - 1
           q == a \div m
           d == b \div m
           x == d * m
           y == q * m
<1>1. b \in Nat
  OBVIOUS
<1>2. q \in Int /\ a = y
  BY Division
<1>3. d \in Int /\ x <= b /\ b < x + m
  BY <1>1, Division
<1> HIDE DEF q, d
<1>4. x \in Int /\ y \in Int
  BY <1>2, <1>3
<1>5. d = q \/ x >= y + m \/ y >= x + m
  <2>1. \A i, j \in Int : i >= j + 1 => i * m >= j * m + m
    OBVIOUS
  <2>. QED BY <1>2, <1>3, <2>1
<1>6. d = q => x = y
  OBVIOUS
<1> HIDE DEF x, y
<1>7. x = a
  BY <1>2, <1>3, <1>4, <1>5, <1>6
<1>. QED BY <1>7 DEF x, d, b

\* The packet size divides the length of the request, or the reply may be longer than it.
LEMMA WholeFits ==
  ASSUME NEW length \in Nat
  PROVE  /\ Whole(length) \in Nat
         /\ length % MaxPacketSize = 0 => Whole(length) = length
<1>1. MaxPacketSize \in Nat /\ MaxPacketSize > 0
  BY BulkAssumption DEF BulkAssumption
<1>2. \A a, m \in Nat : m > 0 => (a + m - 1) \div m \in Nat
  OBVIOUS
<1>3. Ceiling(length, MaxPacketSize) \in Nat
  BY <1>1, <1>2 DEF Ceiling
<1>4. Whole(length) \in Nat
  BY <1>1, <1>3 DEF Whole
<1>5. length % MaxPacketSize = 0 => Whole(length) = length
  BY <1>1, WholePackets DEF Whole, Ceiling
<1>. QED BY <1>4, <1>5

LEMMA AdjustedFits ==
  ASSUME NEW length \in Nat
  PROVE  /\ Adjusted(length) \in Nat
         /\ length % MaxPacketSize = 0 => Adjusted(length) <= length
<1> DEFINE x == Whole(MinOf(length, MaxTransfer))
<1>1. MaxTransfer \in Nat
  BY BulkAssumption DEF BulkAssumption
<1>2. x \in Nat
  BY <1>1, WholeFits DEF MinOf
<1>3. Adjusted(length) = MinOf(x, MaxTransfer)
  BY DEF Adjusted
<1>4. length < MaxTransfer /\ length % MaxPacketSize = 0 => x = length
  BY <1>1, WholeFits DEF MinOf
<1> HIDE DEF x
<1>. QED BY <1>1, <1>2, <1>3, <1>4 DEF MinOf

LEMMA GrantedFits ==
  ASSUME NEW c \in Submission
  PROVE  /\ Granted(c) \in Nat
         /\ c.length % MaxPacketSize = 0 => Granted(c) <= c.length
<1>1. c.length \in Nat
  BY DEF Submission
<1>2. PICK n : n = c.length
  OBVIOUS
<1>3. /\ Adjusted(n) \in Nat /\ (n % MaxPacketSize = 0 => Adjusted(n) <= n)
      /\ Whole(n) \in Nat /\ (n % MaxPacketSize = 0 => Whole(n) <= n)
      /\ MinOf(n, MaxTransfer) \in Nat /\ MinOf(n, MaxTransfer) <= n
  BY <1>1, <1>2, AdjustedFits, WholeFits, BulkAssumption DEF BulkAssumption, MinOf
<1>4. Granted(c) \in {Adjusted(n), Whole(n), MinOf(n, MaxTransfer), n}
  BY <1>2 DEF Granted
<1>. QED BY <1>1, <1>2, <1>3, <1>4

LEMMA PushOne ==
  ASSUME queue \in Seq(UrbReply), NEW r \in UrbReply, Push(<<r>>)
  PROVE  queue' = queue \/ queue' = Append(queue, r)
<1>1. queue \o <<r>> = Append(queue, r)
  OBVIOUS
<1>. QED BY <1>1 DEF Push

LEMMA PushTwo ==
  ASSUME queue \in Seq(UrbReply), NEW e \in UrbReply, NEW r \in UrbReply, Push(<<e, r>>)
  PROVE  queue' = queue \/ queue' = Append(Append(queue, e), r)
<1>1. queue \o <<e, r>> = Append(Append(queue, e), r)
  OBVIOUS
<1>. QED BY <1>1 DEF Push

\* The answer to a CMD_UNLINK that the receiver took.
LEMMA LegibleUnlink ==
  ASSUME Places, Unlinks, sent' = sent, taken' \in Nat, taken <= taken',
         NEW r \in UrbReply, r.type = "ret_unlink", <<Target(r), r.seq>> \in unlinks
  PROVE  Legible(r)'
<1>1. r.target = Target(r)
  BY DEF Target
<1>2. r.seq \in 1 .. taken /\ sent[r.seq].type = "unlink" /\ sent[r.seq].target = Target(r)
  BY DEF Unlinks
<1>3. r.seq \in 1 .. taken'
  BY <1>2 DEF Places
<1>. QED BY <1>1, <1>2, <1>3 DEF Legible

\* The receiver answers the command that it takes.
LEMMA NewAtOnce ==
  ASSUME Places, Stream, Urbs, Unlinks, Chunks, NEW c, Read(c), c.type = "submit",
         UNCHANGED <<kind, sent, inFlight, bulk>>, NEW r \in UrbReply, Target(r) = taken + 1,
         r.type = "ret_submit" =>
           /\ r.actual = r.data
           /\ r.data = 0 \/ r.data <= c.length \/ FixedSize(taken + 1)
           /\ c.dir = Out => r.data = 0 \/ Misdirected(taken + 1),
         r.type = "ret_unlink" => <<taken + 1, r.seq>> \in unlinks
  PROVE  New(r)
<1>1. /\ c = sent[taken + 1] /\ c \in Command /\ taken \in Nat /\ taken' = taken + 1
  BY TakesNext
<1>2. c.length \in Nat
  BY <1>1 DEF Command, Submission, Cancellation
<1>3. taken + 1 \notin 1 .. taken
  BY <1>1
<1>4. Target(r) \notin inFlight' /\ Target(r) \notin DOMAIN bulk'
  BY <1>3 DEF Urbs, Chunks
<1>5. ~Owed(Target(r))'
  BY <1>4 DEF Owed, Open
<1>6. Target(r) \in 1 .. taken' /\ sent'[Target(r)] = c
  BY <1>1
<1>7. Fits(r)'
  <2> SUFFICES ASSUME r.type = "ret_submit"
               PROVE  r.data <= sent'[r.seq].length \/ FixedSize(r.seq)'
    BY DEF Fits
  <2>1. r.seq = taken + 1 /\ r.data \in Nat
    BY DEF Target, UrbReply, SubmitReply, UnlinkReply
  <2>2. r.data = 0 => r.data <= c.length
    BY <1>2
  <2>3. FixedSize(taken + 1) => FixedSize(r.seq)'
    BY <2>1 DEF FixedSize
  <2>. QED BY <1>6, <2>1, <2>2, <2>3
<1>8. Legible(r)'
  <2>1. CASE r.type = "ret_submit"
    <3>1. r.seq = taken + 1 /\ r.seq \in 1 .. taken'
      BY <1>6, <2>1 DEF Target
    <3>2. Misdirected(taken + 1) => Misdirected(r.seq)'
      BY <3>1 DEF Misdirected
    <3>3. sent'[r.seq] = c
      BY <1>1, <3>1
    <3>. QED BY <2>1, <3>1, <3>2, <3>3 DEF Legible
  <2>2. CASE r.type = "ret_unlink"
    BY <1>1, <2>2, LegibleUnlink DEF Places
  <2>. QED BY <2>1, <2>2 DEF UrbReply, SubmitReply, UnlinkReply
<1>. QED BY <1>1, <1>5, <1>6, <1>7, <1>8 DEF New

LEMMA EmulateReplies ==
  ASSUME Places, Stream, Urbs, Unlinks, Chunks, Queues, Emulate
  PROVE  /\ writes' = writes
         /\ queue' = queue \/ \E r : New(r) /\ queue' = Append(queue, r)
<1>1. /\ Read(sent[taken + 1]) /\ sent[taken + 1].type = "submit" /\ kind = "emulated"
  BY Emulated
<1>2. PICK o : Told(o, taken + 1) /\ Push(o.replies)
  BY Emulated
<1>3. UNCHANGED <<kind, sent, inFlight, bulk, writes>>
  BY DEF Emulate, clientVars, wireVars
<1>4. CASE o.replies = <<>>
  <2>1. queue \o <<>> = queue
    BY DEF Queues
  <2>. QED BY <1>2, <1>3, <1>4, <2>1 DEF Push
<1>5. CASE o.replies # <<>>
  <2> DEFINE p == Setup[sent[taken + 1].setup]
  <2>1. PICK r \in UrbReply :
          /\ o.replies = <<r>> /\ Target(r) = taken + 1
          /\ r.type = "ret_submit" =>
               /\ r.actual = r.data
               /\ \/ r.data = 0
                  \/ /\ Address(sent[taken + 1]) \in {0, 128} /\ ~IsOut(p)
                     /\ r.data <= sent[taken + 1].length \/ p.request \in OwnSize
          /\ r.type = "ret_unlink" => <<taken + 1, r.seq>> \in unlinks
    BY <1>2, <1>5 DEF Told
  <2>2. p.request \in OwnSize => FixedSize(taken + 1)
    BY <1>1 DEF FixedSize, OwnSize
  <2> DEFINE c == sent[taken + 1]
  <2>3. Address(c) \in {0, 128} /\ ~IsOut(p) /\ c.dir = Out => Misdirected(taken + 1)
    BY <1>1 DEF Misdirected
  <2> HIDE DEF c, p
  <2>4. r.type = "ret_submit" =>
          /\ r.actual = r.data
          /\ r.data = 0 \/ r.data <= c.length \/ FixedSize(taken + 1)
          /\ c.dir = Out => r.data = 0 \/ Misdirected(taken + 1)
    BY <2>1, <2>2, <2>3 DEF c
  <2>5. New(r)
    BY <1>1, <1>3, <2>1, <2>4, NewAtOnce DEF c
  <2>6. queue' = queue \/ queue' = Append(queue, r)
    BY <1>2, <2>1, PushOne DEF Queues
  <2>. QED BY <1>3, <2>5, <2>6
<1>. QED BY <1>4, <1>5

\* An answer without data that the receiver makes itself.
LEMMA RefusedAtOnce ==
  ASSUME Places, Stream, Urbs, Unlinks, Chunks, NEW c, Read(c), c.type = "submit",
         UNCHANGED <<kind, sent, inFlight, bulk>>, NEW st \in Int
  PROVE  New(RetNoData(c.seq, st))
<1>1. c.seq = taken + 1 /\ taken \in Nat
  BY TakesNext
<1>2. PICK r : r = RetNoData(c.seq, st)
  OBVIOUS
<1>3. /\ r \in UrbReply /\ Target(r) = taken + 1 /\ r.type = "ret_submit"
      /\ r.data = 0 /\ r.actual = 0
  <2>1. c.seq \in Nat
    BY <1>1
  <2>. QED BY <1>1, <1>2, <2>1, SubmitReplies DEF RetNoData
<1>. QED BY <1>2, <1>3, NewAtOnce

LEMMA ReceiverReplies ==
  ASSUME Places, Stream, Urbs, Unlinks, Chunks, Queues,
         UnknownEndpoint \/ HandToHost \/ SplitRequest
  PROVE  \/ UNCHANGED <<writes, queue>>
         \/ \E r : New(r) /\ writes' = Append(writes, r) /\ queue' = queue
         \/ \E r : New(r) /\ writes' = writes /\ queue' = Append(queue, r)
<1>1. PICK c : c = CommandOf(toServer)
  OBVIOUS
<1> USE DEF clientVars, wireVars, channelVars, deviceVars
<1>2. CASE UnknownEndpoint
  <2>1. /\ Read(c) /\ c.type = "submit" /\ UNCHANGED <<kind, sent, inFlight, bulk, queue>>
        /\ writes' = Append(writes, RetNoData(c.seq, EPIPE))
    BY <1>1, <1>2 DEF UnknownEndpoint, BeginWrite
  <2>. QED BY <2>1, RefusedAtOnce, StatusTypes
<1>3. CASE HandToHost
  <2>1. /\ Read(c) /\ c.type = "submit" /\ UNCHANGED <<kind, sent, bulk, writes>>
        /\ \/ UNCHANGED queue
           \/ Push(<<RetNoData(c.seq, StatusEPIPE)>>) /\ UNCHANGED inFlight
    BY <1>1, <1>3 DEF HandToHost
  <2>2. CASE Push(<<RetNoData(c.seq, StatusEPIPE)>>) /\ UNCHANGED inFlight
    <3>1. New(RetNoData(c.seq, StatusEPIPE))
      BY <2>1, <2>2, RefusedAtOnce, StatusTypes
    <3>2. RetNoData(c.seq, StatusEPIPE) \in UrbReply
      BY <3>1 DEF New
    <3>. QED BY <2>1, <2>2, <3>1, <3>2, PushOne DEF Queues
  <2>. QED BY <2>1, <2>2
<1>4. CASE SplitRequest
  <2>1. /\ Read(c) /\ c.type = "submit" /\ UNCHANGED <<kind, sent, inFlight, writes>>
        /\ \/ UNCHANGED queue
           \/ Push(<<RetNoData(c.seq, StatusEPIPE)>>) /\ UNCHANGED bulk
    BY <1>1, <1>4 DEF SplitRequest
  <2>2. CASE Push(<<RetNoData(c.seq, StatusEPIPE)>>) /\ UNCHANGED bulk
    <3>1. New(RetNoData(c.seq, StatusEPIPE))
      BY <2>1, <2>2, RefusedAtOnce, StatusTypes
    <3>2. RetNoData(c.seq, StatusEPIPE) \in UrbReply
      BY <3>1 DEF New
    <3>. QED BY <2>1, <2>2, <3>1, <3>2, PushOne DEF Queues
  <2>. QED BY <2>1, <2>2
<1>. QED BY <1>2, <1>3, <1>4

\* What the transfer of an URB that the host stack has is reported with.
LEMMA ResultReply ==
  ASSUME NEW c \in Submission, NEW n \in Nat
  PROVE  LET r == Result(c, n) IN
         /\ r \in UrbReply /\ Target(r) = c.seq /\ r.type = "ret_submit" /\ r.seq = c.seq
         /\ r.status = StatusOK
         /\ r.data = n \/ r.data = 0
         /\ c.dir = In => r.actual = r.data
         /\ c.dir = Out => r.data = 0
<1>1. c.seq \in Nat /\ c.dir \in {In, Out} /\ StatusOK \in Int /\ 0 \in Nat
  BY StatusTypes DEF Submission
<1>2. PICK s : s = c.seq
  OBVIOUS
<1>3. PICK r : r = Result(c, n)
  OBVIOUS
<1>4. CASE c.dir = In
  <2>1. r = RetSubmit(s, StatusOK, n, n)
    BY <1>2, <1>3, <1>4 DEF Result, RetTransfer
  <2>. QED BY <1>1, <1>2, <1>3, <1>4, <2>1, SubmitReplies DEF In, Out
<1>5. CASE c.dir # In
  <2>1. r = RetSubmit(s, StatusOK, n, 0)
    BY <1>2, <1>3, <1>5 DEF Result
  <2>2. s \in Nat /\ StatusOK \in Int /\ 0 \in Nat
    BY <1>1, <1>2
  <2>3. /\ r \in UrbReply /\ Target(r) = s /\ r.type = "ret_submit" /\ r.seq = s
        /\ r.status = StatusOK /\ r.data = 0
    BY <2>1, <2>2, SubmitReplies
  <2>. QED BY <1>2, <1>3, <1>5, <2>3
<1>. QED BY <1>4, <1>5

\* The callback of an URB that the host stack has: what it may answer.
LEMMA HostReply ==
  ASSUME Places, Stream, Urbs, Unlinks, NEW s \in inFlight, HostReturns(s),
         queue' # queue \/ (fault' = "none" /\ rx \notin {"left", "closed"})
  PROVE  \E r \in UrbReply :
           /\ Target(r) = s /\ Fits(r)' /\ Legible(r)'
           /\ \/ Push(<<r>>)
              \/ /\ Cleared(s) /\ Push(<<RetNoData(s, StatusEPIPE), r>>)
                 /\ r.type = "ret_submit" /\ r.status = StatusOK
<1>1. /\ UNCHANGED <<kind, sent, taken, bulk, writes>> /\ inFlight' = inFlight \ {s}
  BY DEF HostReturns, clientVars, rxVars, wireVars
<1>2. /\ s \in 1 .. taken /\ taken \in Nat /\ kind = "host" /\ sent[s].type = "submit"
      /\ ~Split(s)
  BY DEF Urbs, Places
<1>3. sent[s] \in Submission /\ sent[s].seq = s
  <2>1. s \in 1 .. Len(sent) /\ sent \in Seq(Command)
    BY <1>2 DEF Stream, SentWell
  <2>2. sent[s] \in Command /\ sent[s].seq = s
    BY <2>1 DEF Stream, SentWell
  <2>. QED BY <1>2, <2>2 DEF Command, Cancellation
<1>4. CASE IsUnlinked(s) /\ Push(<<RetUnlink(UnlinkSeqnum(s), s, StatusECONNRESET)>>)
  <2>1. PICK r : r = RetUnlink(UnlinkSeqnum(s), s, StatusECONNRESET)
    OBVIOUS
  <2>2. r \in UrbReply /\ Target(r) = s /\ r.type = "ret_unlink"
    <3> DEFINE n == UnlinkSeqnum(s)
    <3>1. s \in Nat
      BY <1>2
    <3>2. n \in Nat
      BY UnlinkSeqnumType
    <3>3. r = RetUnlink(n, s, StatusECONNRESET) /\ StatusECONNRESET \in Int
      BY <2>1, StatusTypes
    <3> HIDE DEF n
    <3>. QED BY <3>1, <3>2, <3>3, UnlinkReplies
  <2>3. Fits(r)'
    BY <2>2 DEF Fits
  <2>4. Push(<<r>>)
    BY <1>4, <2>1
  <2>5. <<Target(r), r.seq>> \in unlinks
    BY <1>4, <2>1, <2>2, UnlinkSeqnumType DEF RetUnlink
  <2>6. Legible(r)'
    BY <1>1, <1>2, <2>2, <2>5, LegibleUnlink
  <2>. QED BY <2>2, <2>3, <2>4, <2>6
<1>5. ASSUME NEW n \in {0, Granted(sent[s])},
             \/ Push(<<Result(sent[s], n)>>)
             \/ Cleared(s) /\ Push(<<RetNoData(s, StatusEPIPE), Result(sent[s], n)>>)
      PROVE  \E r \in UrbReply :
               /\ Target(r) = s /\ Fits(r)' /\ Legible(r)'
               /\ \/ Push(<<r>>)
                  \/ /\ Cleared(s) /\ Push(<<RetNoData(s, StatusEPIPE), r>>)
                     /\ r.type = "ret_submit" /\ r.status = StatusOK
  <2>1. PICK r : r = Result(sent[s], n)
    OBVIOUS
  <2>2. sent[s].length \in Nat /\ n \in Nat
        /\ (sent[s].length % MaxPacketSize = 0 => n <= sent[s].length)
    BY <1>3, <1>5, GrantedFits DEF Submission
  <2>3. /\ r \in UrbReply /\ Target(r) = s /\ r.type = "ret_submit" /\ r.seq = s
        /\ r.status = StatusOK
        /\ r.data = n \/ r.data = 0
        /\ sent[s].dir = In => r.actual = r.data
        /\ sent[s].dir = Out => r.data = 0
    BY <1>3, <2>1, <2>2, ResultReply
  <2>4. Fits(r)'
    BY <1>1, <1>2, <2>2, <2>3 DEF Fits
  <2>5. Legible(r)'
    BY <1>1, <1>2, <2>3 DEF Legible
  <2>. QED BY <1>5, <2>1, <2>3, <2>4, <2>5
<1>. QED BY <1>4, <1>5 DEF HostReturns

LEMMA HostReplies ==
  ASSUME Places, Stream, Urbs, Unlinks, Chunks, Queues, NEW s \in inFlight, HostReturns(s)
  PROVE  writes' = writes /\ (queue' = queue \/ Queued)
<1>1. /\ UNCHANGED <<kind, sent, taken, bulk, writes>> /\ inFlight' = inFlight \ {s}
  BY DEF HostReturns, clientVars, rxVars, wireVars
<1>2. /\ s \in 1 .. taken /\ taken \in Nat /\ kind = "host" /\ sent[s].type = "submit"
      /\ ~Split(s)
  BY DEF Urbs, Places
<1>3. s \notin DOMAIN bulk
  BY <1>2 DEF Chunks
<1>4. ASSUME NEW r \in UrbReply, Target(r) = s, Fits(r)', Legible(r)' PROVE New(r)
  <2>1. ~Owed(Target(r))'
    BY <1>1, <1>3, <1>4 DEF Owed, Open
  <2>2. Owed(Target(r))
    BY <1>4 DEF Owed
  <2>. QED BY <1>1, <1>2, <1>4, <2>1, <2>2 DEF New
<1> SUFFICES ASSUME queue' # queue PROVE Queued
  BY <1>1
<1>5. PICK r \in UrbReply :
        /\ Target(r) = s /\ Fits(r)' /\ Legible(r)'
        /\ \/ Push(<<r>>)
           \/ /\ Cleared(s) /\ Push(<<RetNoData(s, StatusEPIPE), r>>)
              /\ r.type = "ret_submit" /\ r.status = StatusOK
  BY HostReply
<1>6. New(r)
  BY <1>4, <1>5
<1>7. CASE Push(<<r>>)
  BY <1>6, <1>7, PushOne, OneQueued DEF Queues
<1>8. CASE /\ Cleared(s) /\ Push(<<RetNoData(s, StatusEPIPE), r>>)
           /\ r.type = "ret_submit" /\ r.status = StatusOK
  <2>1. PICK e : e = RetNoData(s, StatusEPIPE)
    OBVIOUS
  <2>2. /\ e \in UrbReply /\ Target(e) = s /\ e.type = "ret_submit" /\ e.seq = s
        /\ e.data = 0 /\ e.actual = 0
    BY <1>2, <2>1, SubmitReplies, StatusTypes DEF RetNoData
  <2>3. sent[s].length \in Nat
    <3>1. s \in 1 .. Len(sent) /\ sent \in Seq(Command)
      BY <1>2 DEF Stream, SentWell
    <3>2. sent[s] \in Command
      BY <3>1
    <3>. QED BY <1>2, <3>2 DEF Command, Submission, Cancellation
  <2>4. Fits(e)' /\ Legible(e)'
    BY <1>1, <1>2, <2>2, <2>3 DEF Fits, Legible
  <2>5. New(e)
    BY <1>4, <2>2, <2>4
  <2>6. queue' = Append(Append(queue, e), r)
    BY <1>5, <1>8, <2>1, <2>2, PushTwo DEF Queues
  <2>7. InTurn(e, r, Cleanup)
    <3>1. \A t : Answers(e, t) <=> t = s
      BY <2>2, OneTarget
    <3>. QED BY <1>2, <1>8, <2>1, <3>1 DEF InTurn, Cleanup
  <2>. QED BY <1>5, <1>6, <2>2, <2>5, <2>6, <2>7 DEF Queued
<1>. QED BY <1>5, <1>7, <1>8

\* The loop of a split request, and the callbacks of its chunks.
LEMMA LoopReplies ==
  ASSUME Places, Stream, Urbs, Chunks, Queues, SplitStep
  PROVE  /\ writes' = writes
         /\ queue' = queue \/ \E r : New(r) /\ queue' = Append(queue, r)
<1>1. UNCHANGED <<kind, sent, taken, inFlight, writes>>
  BY DEF SplitStep, clientVars, wireVars
<1>2. CASE queue' = queue
  BY <1>1, <1>2
<1>3. CASE ChunkRefused(taken) /\ Push(<<RetNoData(taken, StatusEPIPE)>>)
  <2> DEFINE b == bulk[taken]
  <2>1. PICK r : r = RetNoData(taken, StatusEPIPE)
    OBVIOUS
  <2>2. /\ taken \in DOMAIN bulk /\ b.alive /\ b.next < b.total
        /\ bulk' = [bulk EXCEPT ![taken].alive = FALSE]
    BY <1>3 DEF ChunkRefused, InLoop
  <2>3. taken \in 1 .. taken /\ Split(taken) /\ Counted(b) /\ taken \in Nat
    BY <2>2 DEF Chunks, Places
  <2>4. b.completed < b.total
    <3>1. b.completed \in Nat /\ b.next \in Nat /\ b.total \in Nat
          /\ b.flying \subseteq 0 .. b.next - 1 /\ b.completed + Cardinality(b.flying) = b.next
      BY <2>3 DEF Counted, Chunk
    <3>2. 0 \in Int /\ b.next - 1 \in Int
      BY <3>1
    <3>3. Cardinality(b.flying) \in Nat
      BY <3>1, <3>2, FS_Interval, FS_Subset, FS_CardinalityType
    <3>. QED BY <2>2, <3>1, <3>3
  <2>5. /\ r \in UrbReply /\ Target(r) = taken /\ r.type = "ret_submit" /\ r.seq = taken
        /\ r.data = 0 /\ r.actual = 0
    BY <2>1, <2>3, SubmitReplies, StatusTypes DEF RetNoData
  <2>6. bulk'[taken].alive = FALSE
    BY <2>2, <2>3, ChunkEnded
  <2>7. Owed(Target(r))
    BY <2>2, <2>4, <2>5 DEF Owed, Open
  <2>8. taken \notin inFlight
    BY <2>3 DEF Urbs
  <2>9. ~Owed(Target(r))'
    BY <1>1, <2>5, <2>6, <2>8 DEF Owed, Open
  <2>10. sent[taken].type = "submit" /\ sent[taken].length \in Nat
    <3>1. taken \in 1 .. Len(sent) /\ sent \in Seq(Command)
      BY <2>3 DEF Stream, SentWell
    <3>2. sent[taken] \in Command /\ sent[taken].type = "submit"
      BY <2>3, <3>1 DEF Split
    <3>. QED BY <3>2 DEF Command, Submission, Cancellation
  <2>11. Fits(r)' /\ Legible(r)'
    BY <1>1, <2>3, <2>5, <2>10 DEF Fits, Legible
  <2>12. New(r)
    BY <1>1, <2>3, <2>5, <2>7, <2>9, <2>10, <2>11 DEF New
  <2>13. Push(<<r>>)
    BY <1>3, <2>1
  <2>. QED BY <1>1, <2>5, <2>12, <2>13, PushOne DEF Queues
<1>. QED BY <1>1, <1>2, <1>3 DEF SplitStep, Current

LEMMA ChunkReplies ==
  ASSUME Places, Stream, Urbs, Chunks, Queues, NEW s \in DOMAIN bulk, ChunkCallback(s)
  PROVE  /\ writes' = writes
         /\ queue' = queue \/ \E r : New(r) /\ queue' = Append(queue, r)
<1>1. UNCHANGED <<kind, sent, taken, inFlight, writes>>
  BY DEF ChunkCallback, clientVars, rxVars, wireVars
<1>2. CASE queue' = queue
  BY <1>1, <1>2
<1>3. CASE LastChunk(s) /\ queue' # queue
  <2>1. PICK st \in {StatusOK, StatusEPIPE} : Push(<<RetBuffer(s, st, sent[s].length)>>)
    BY <1>3 DEF ChunkCallback
  <2>2. PICK r : r = RetBuffer(s, st, sent[s].length)
    OBVIOUS
  <2>3. s \in 1 .. taken /\ taken \in Nat /\ s \in Nat /\ Split(s) /\ Counted(bulk[s])
    BY DEF Chunks, Places
  <2>4. sent[s].type = "submit" /\ sent[s].length \in Nat
    <3>1. s \in 1 .. Len(sent) /\ sent \in Seq(Command)
      BY <2>3 DEF Stream, SentWell
    <3>2. sent[s] \in Command /\ sent[s].type = "submit"
      BY <2>3, <3>1 DEF Split
    <3>. QED BY <3>2 DEF Command, Submission, Cancellation
  <2>5. /\ r \in UrbReply /\ Target(r) = s /\ r.type = "ret_submit" /\ r.seq = s
        /\ r.data = sent[s].length /\ r.actual = r.data
    <3> DEFINE len == sent[s].length
    <3>1. r = RetSubmit(s, st, len, len) /\ st \in Int /\ s \in Nat /\ len \in Nat
      BY <2>2, <2>3, <2>4, StatusTypes DEF RetBuffer
    <3> HIDE DEF len
    <3>2. /\ r \in UrbReply /\ Target(r) = s /\ r.type = "ret_submit" /\ r.seq = s
          /\ r.data = len /\ r.actual = len
      BY <3>1, SubmitReplies
    <3>. QED BY <3>2 DEF len
  <2>6. /\ bulk[s].alive /\ bulk[s].completed < bulk[s].total
        /\ bulk'[s].completed = bulk[s].completed + 1 /\ bulk'[s].total = bulk[s].total
    BY CallbackStep
  <2>7. bulk'[s].completed = bulk'[s].total /\ bulk[s].total \in Nat
    BY <1>3, <2>3, <2>6 DEF LastChunk, Counted, Chunk
  <2>8. Owed(Target(r))
    BY <2>5, <2>6 DEF Owed, Open
  <2>9. s \notin inFlight
    BY <2>3 DEF Urbs
  <2>10. ~(bulk'[s].completed < bulk'[s].total)
    BY <2>6, <2>7
  <2>11. ~Owed(Target(r))'
    BY <1>1, <2>5, <2>9, <2>10 DEF Owed, Open
  <2>12. Fits(r)' /\ Legible(r)'
    <3>1. sent[s].dir = In
      BY <2>3 DEF Split, Splits
    <3>. QED BY <1>1, <2>3, <2>4, <2>5, <3>1 DEF Fits, Legible, In, Out
  <2>13. New(r)
    BY <1>1, <2>3, <2>4, <2>5, <2>8, <2>11, <2>12 DEF New
  <2>14. Push(<<r>>)
    BY <2>1, <2>2
  <2>. QED BY <1>1, <2>5, <2>13, <2>14, PushOne DEF Queues
<1>. QED BY <1>1, <1>2, <1>3 DEF ChunkCallback

\* How the replies of a session change.
LEMMA ReplyStep ==
  ASSUME Places, Stream, Urbs, Unlinks, Chunks, Queues, [Next]_vars
  PROVE  \/ UNCHANGED <<writes, queue>>
         \/ TxTake
         \/ rx = "op" /\ \E r \in OpReplies : writes' = Append(writes, r) /\ queue' = queue
         \/ \E r : New(r) /\ writes' = Append(writes, r) /\ queue' = queue
         \/ writes' = writes /\ Queued
<1> USE DEF clientVars, rxVars, txVars, channelVars, wireVars, stopVars, deviceVars
<1>1. CASE ReadOp
  BY <1>1 DEF ReadOp, OpReply, NoReply, BeginWrite, OpReplies
<1>2. CASE ReadOpFails \/ RxWrites \/ RxWriteFails \/ Replied \/ StartTransfer
  BY <1>2 DEF ReadOpFails, RxWrites, RxWriteFails, RxThrows, Replied, StartTransfer
<1>3. CASE RxCheck \/ EpipeWritten \/ Leave \/ CloseSession \/ ReadFails \/ TakeUnlink
  BY <1>3 DEF RxCheck, EpipeWritten, Leave, CloseSession, ReadFails, TakeUnlink
<1>4. CASE UnknownEndpoint \/ HandToHost \/ SplitRequest
  BY <1>4, ReceiverReplies, OneQueued
<1>5. CASE Emulate
  BY <1>5, EmulateReplies, OneQueued
<1>6. CASE SplitStep
  BY <1>6, LoopReplies, OneQueued
<1>7. CASE HandlerEnds
  BY <1>7 DEF HandlerEnds, HandlerFails, HandlerThrows, SplitThrows, RxThrows
<1>8. CASE TxCheck \/ TxClosed \/ TxWrites \/ TxWriteFails
  BY <1>8 DEF TxCheck, TxClosed, TxWrites, TxWriteFails
<1>9. ASSUME NEW s \in inFlight, HostReturns(s)
      PROVE  UNCHANGED <<writes, queue>> \/ (writes' = writes /\ Queued)
  BY <1>9, HostReplies
<1>10. ASSUME NEW s \in DOMAIN bulk, ChunkCallback(s)
      PROVE  UNCHANGED <<writes, queue>> \/ (writes' = writes /\ Queued)
  BY <1>10, ChunkReplies, OneQueued
<1>11. ASSUME NEW s \in DOMAIN bulk, LateChunk(s) PROVE UNCHANGED <<writes, queue>>
  BY <1>11 DEF LateChunk
<1>12. CASE Client \/ ImmediatelyStop \/ PostedClose \/ UNCHANGED vars
  BY <1>12
  DEF Client, ClientOp, ClientSend, ClientCloses, ImmediatelyStop, PostedClose, vars
<1>. QED
  BY <1>1, <1>2, <1>3, <1>4, <1>5, <1>6, <1>7, <1>8, <1>9, <1>10, <1>11, <1>12
  DEF Next, Receiver, HandlerEnds, Callbacks, Sender

\* Nobody comes to owe an answer but for a command that is taken.
LEMMA OwedStep ==
  ASSUME Places, Stream, Chunks, [Next]_vars, NEW t, Owed(t)'
  PROVE  Owed(t) \/ (t = taken + 1 /\ taken' = taken + 1)
<1> USE DEF clientVars, rxVars, txVars, channelVars, wireVars, stopVars, deviceVars
<1>1. CASE inFlight' \subseteq inFlight /\ bulk' = bulk
  BY <1>1 DEF Owed, Open
<1>2. CASE HandToHost
  <2> DEFINE c == CommandOf(toServer)
  <2>1. Read(c) /\ inFlight' \subseteq inFlight \cup {c.seq} /\ bulk' = bulk
    BY <1>2 DEF HandToHost
  <2> HIDE DEF c
  <2>2. c.seq = taken + 1 /\ taken' = taken + 1
    BY <2>1, TakesNext
  <2>. QED BY <2>1, <2>2 DEF Owed, Open
<1>3. CASE SplitRequest
  <2> DEFINE c == CommandOf(toServer)
  <2>1. /\ Read(c) /\ inFlight' = inFlight /\ c.type = "submit"
        /\ StartSplit(c.seq, c.length) \/ bulk' = bulk
    BY <1>3 DEF SplitRequest
  <2> HIDE DEF c
  <2>2. c.seq = taken + 1 /\ taken' = taken + 1
    BY <2>1, TakesNext
  <2>3. CASE StartSplit(c.seq, c.length)
    BY <2>1, <2>2, <2>3, SplitBegins DEF Owed, Open
  <2>. QED BY <1>1, <2>1, <2>3
<1>4. CASE SplitStep \/ SplitThrows
  <2>1. inFlight' = inFlight
    BY <1>4 DEF SplitStep, SplitThrows
  <2>2. Open(t)' => Open(t)
    BY <1>4, LoopStep DEF Open
  <2>. QED BY <2>1, <2>2 DEF Owed
<1>5. ASSUME NEW s \in DOMAIN bulk, ChunkCallback(s)
      PROVE  Owed(t)
  <2>1. inFlight' = inFlight
    BY <1>5 DEF ChunkCallback
  <2>2. Open(t)' => Open(t)
    BY <1>5, CallbackStep DEF Open
  <2>. QED BY <2>1, <2>2 DEF Owed
<1>6. CASE ReadOp \/ ReadOpFails \/ RxWrites \/ RxWriteFails \/ Replied \/ StartTransfer
  BY <1>1, <1>6 DEF ReadOp, ReadOpFails, RxWrites, RxWriteFails, RxThrows, Replied,
     StartTransfer
<1>7. CASE RxCheck \/ EpipeWritten \/ Leave \/ CloseSession \/ ReadFails
  BY <1>1, <1>7 DEF RxCheck, EpipeWritten, Leave, CloseSession, ReadFails
<1>8. CASE UnknownEndpoint \/ TakeUnlink \/ Emulate
  BY <1>1, <1>8 DEF UnknownEndpoint, TakeUnlink, Emulate
<1>9. CASE HandlerFails \/ HandlerThrows
  BY <1>1, <1>9 DEF HandlerFails, HandlerThrows, RxThrows
<1>10. CASE Sender
  BY <1>1, <1>10 DEF Sender, TxCheck, TxTake, TxClosed, TxWrites, TxWriteFails
<1>11. ASSUME NEW s \in inFlight, HostReturns(s) PROVE Owed(t)
  BY <1>11 DEF HostReturns, Owed, Open
<1>12. ASSUME NEW s \in DOMAIN bulk, LateChunk(s) PROVE Owed(t)
  BY <1>12 DEF LateChunk, Owed, Open
<1>13. CASE Client \/ ImmediatelyStop \/ PostedClose \/ UNCHANGED vars
  BY <1>1, <1>13
  DEF Client, ClientOp, ClientSend, ClientCloses, ImmediatelyStop, PostedClose, vars
<1>. QED
  BY <1>2, <1>3, <1>4, <1>5, <1>6, <1>7, <1>8, <1>9, <1>10, <1>11, <1>12, <1>13
  DEF Next, Receiver, Callbacks

\* The replies of q, and those of them that answer the URB s.
Answered(q, s) == \E i \in DOMAIN q : Answers(q[i], s)
Ordered(q, cleared) == \A i, j \in DOMAIN q : i < j => InTurn(q[i], q[j], cleared)

Done(s) == Answered(writes, s) \/ Answered(queue, s)

\* An URB is answered once, or in turn; by then nobody is to answer it any more.
Owned ==
  /\ Ordered(writes, Cleanup) /\ Ordered(queue, Cleanup)
  /\ \A a \in Elements(writes), b \in Elements(queue) : InTurn(a, b, Cleanup)
  /\ \A s : Done(s) => s \in 1 .. taken /\ sent[s].type = "submit" /\ ~Owed(s)

AllFit == \A r \in Replies : Fits(r)
AllLegible == \A r \in Replies : r \in OpReplies \/ (r \in UrbReply /\ Legible(r))

LEMMA Appended ==
  ASSUME NEW S, NEW q \in Seq(S), NEW r \in S
  PROVE  /\ Append(q, r) \in Seq(S)
         /\ \A s : Answered(Append(q, r), s) <=> Answered(q, s) \/ Answers(r, s)
         /\ Elements(Append(q, r)) = Elements(q) \cup {r}
         /\ \A cleared :
              Ordered(q, cleared) /\ (\A a \in Elements(q) : InTurn(a, r, cleared))
                => Ordered(Append(q, r), cleared)
<1> DEFINE p == Append(q, r)
           n == Len(q)
<1>1. /\ p \in Seq(S) /\ n \in Nat /\ DOMAIN q = 1 .. n /\ DOMAIN p = 1 .. n + 1
      /\ p[n + 1] = r /\ \A i \in 1 .. n : p[i] = q[i]
  OBVIOUS
<1>2. n + 1 \in 1 .. n + 1 /\ \A i \in 1 .. n + 1 : i = n + 1 \/ i \in 1 .. n
  BY <1>1
<1>3. \A i \in 1 .. n : i \in 1 .. n + 1 /\ i # n + 1
  BY <1>1
<1> HIDE DEF p, n
<1>4. ASSUME NEW s PROVE Answered(p, s) <=> Answered(q, s) \/ Answers(r, s)
  BY <1>1, <1>2, <1>3 DEF Answered
<1>5. Elements(p) = Elements(q) \cup {r}
  BY <1>1, <1>2, <1>3 DEF Elements
<1>6. ASSUME NEW cleared, Ordered(q, cleared), \A a \in Elements(q) : InTurn(a, r, cleared)
      PROVE  Ordered(p, cleared)
  <2> SUFFICES ASSUME NEW i \in 1 .. n + 1, NEW j \in 1 .. n + 1, i < j
               PROVE  InTurn(p[i], p[j], cleared)
    BY <1>1 DEF Ordered
  <2>1. i \in 1 .. n /\ p[i] = q[i] /\ q[i] \in Elements(q)
    BY <1>1 DEF Elements
  <2>2. CASE j \in 1 .. n
    BY <1>1, <1>6, <2>1, <2>2 DEF Ordered
  <2>3. CASE j = n + 1
    BY <1>1, <1>6, <2>1, <2>3
  <2>. QED BY <1>2, <2>2, <2>3
<1>. QED BY <1>1, <1>4, <1>5, <1>6 DEF p

LEMMA Taken ==
  ASSUME NEW S, NEW q \in Seq(S), q # <<>>
  PROVE  /\ Head(q) \in S /\ Tail(q) \in Seq(S)
         /\ \A s : Answered(q, s) <=> Answers(Head(q), s) \/ Answered(Tail(q), s)
         /\ Elements(q) = {Head(q)} \cup Elements(Tail(q))
         /\ \A cleared :
              Ordered(q, cleared) =>
                /\ Ordered(Tail(q), cleared)
                /\ \A b \in Elements(Tail(q)) : InTurn(Head(q), b, cleared)
<1> DEFINE t == Tail(q)
           n == Len(t)
<1>1. /\ Head(q) \in S /\ t \in Seq(S) /\ n \in Nat /\ DOMAIN t = 1 .. n /\ DOMAIN q = 1 .. n + 1
      /\ q[1] = Head(q) /\ \A i \in 1 .. n : t[i] = q[i + 1]
  OBVIOUS
<1>2. /\ 1 \in 1 .. n + 1
      /\ \A i \in 1 .. n + 1 : i = 1 \/ (i - 1 \in 1 .. n /\ (i - 1) + 1 = i)
      /\ \A i \in 1 .. n : i + 1 \in 1 .. n + 1 /\ i + 1 # 1
  BY <1>1
<1> HIDE DEF t, n
<1>3. \A i \in 1 .. n + 1 : i # 1 => i - 1 \in 1 .. n /\ t[i - 1] = q[i]
  BY <1>1, <1>2
<1>4. ASSUME NEW s PROVE Answered(q, s) <=> Answers(Head(q), s) \/ Answered(t, s)
  <2>1. ASSUME Answered(q, s), ~Answers(Head(q), s) PROVE Answered(t, s)
    <3>1. PICK i \in 1 .. n + 1 : Answers(q[i], s)
      BY <1>1, <2>1 DEF Answered
    <3>2. i # 1
      BY <1>1, <2>1, <3>1
    <3>3. i - 1 \in 1 .. n /\ Answers(t[i - 1], s)
      BY <1>3, <3>1, <3>2
    <3>. QED BY <1>1, <3>3 DEF Answered
  <2>2. Answers(Head(q), s) => Answered(q, s)
    BY <1>1, <1>2 DEF Answered
  <2>3. ASSUME Answered(t, s) PROVE Answered(q, s)
    <3>1. PICK i \in 1 .. n : Answers(t[i], s)
      BY <1>1, <2>3 DEF Answered
    <3>2. i + 1 \in 1 .. n + 1 /\ Answers(q[i + 1], s)
      BY <1>1, <1>2, <3>1
    <3>. QED BY <1>1, <3>2 DEF Answered
  <2>. QED BY <2>1, <2>2, <2>3
<1>5. Elements(q) = {Head(q)} \cup Elements(t)
  <2>1. \A i \in 1 .. n + 1 : q[i] \in {Head(q)} \cup Elements(t)
    <3> SUFFICES ASSUME NEW i \in 1 .. n + 1, i # 1 PROVE q[i] \in Elements(t)
      BY <1>1
    <3>. QED BY <1>1, <1>3 DEF Elements
  <2>2. \A i \in 1 .. n : t[i] \in Elements(q)
    BY <1>1, <1>2 DEF Elements
  <2>3. Head(q) \in Elements(q)
    BY <1>1, <1>2 DEF Elements
  <2>4. Elements(q) \subseteq {Head(q)} \cup Elements(t)
    BY <1>1, <2>1 DEF Elements
  <2>5. Elements(t) \subseteq Elements(q)
    BY <1>1, <2>2 DEF Elements
  <2>. QED BY <2>3, <2>4, <2>5
<1>6. ASSUME NEW cleared, Ordered(q, cleared) PROVE Ordered(t, cleared)
  <2> SUFFICES ASSUME NEW i \in 1 .. n, NEW j \in 1 .. n, i < j
               PROVE  InTurn(t[i], t[j], cleared)
    BY <1>1 DEF Ordered
  <2>1. i + 1 \in 1 .. n + 1 /\ j + 1 \in 1 .. n + 1 /\ i + 1 < j + 1
    BY <1>2
  <2>. QED BY <1>1, <1>6, <2>1 DEF Ordered
<1>7. ASSUME NEW cleared, Ordered(q, cleared), NEW b \in Elements(t)
      PROVE  InTurn(Head(q), b, cleared)
  <2>1. PICK i \in 1 .. n : b = t[i]
    BY <1>1 DEF Elements
  <2>2. 1 \in 1 .. n + 1 /\ i + 1 \in 1 .. n + 1 /\ 1 < i + 1
    BY <1>1, <1>2
  <2>. QED BY <1>1, <1>7, <2>1, <2>2 DEF Ordered
<1>. QED BY <1>1, <1>4, <1>5, <1>6, <1>7 DEF t

LEMMA QueuesStep ==
  Places /\ Stream /\ Urbs /\ Unlinks /\ Chunks /\ Queues /\ [Next]_vars => Queues'
<1> SUFFICES ASSUME Places, Stream, Urbs, Unlinks, Chunks, Queues, [Next]_vars
             PROVE  Queues'
  OBVIOUS
<1>1. UrbReply \subseteq Reply /\ OpReplies \subseteq Reply
  BY DEF Reply
<1>2. CASE UNCHANGED <<writes, queue>>
  BY <1>2 DEF Queues
<1>3. CASE TxTake
  <2>1. queue # <<>> /\ queue' = Tail(queue) /\ writes' = Append(writes, Head(queue))
    BY <1>3 DEF TxTake, BeginWrite
  <2>2. Head(queue) \in UrbReply /\ Tail(queue) \in Seq(UrbReply)
    BY <2>1, Taken DEF Queues
  <2>3. Append(writes, Head(queue)) \in Seq(Reply)
    BY <1>1, <2>2 DEF Queues
  <2>. QED BY <2>1, <2>2, <2>3 DEF Queues
<1>4. ASSUME NEW r \in Reply, writes' = Append(writes, r), queue' = queue PROVE Queues'
  BY <1>4 DEF Queues
<1>5. CASE writes' = writes /\ Queued
  <2>1. PICK e, r : /\ New(e) /\ New(r)
                    /\ queue' = Append(queue, r) \/ queue' = Append(Append(queue, e), r)
    BY <1>5 DEF Queued
  <2>2. e \in UrbReply /\ r \in UrbReply
    BY <2>1 DEF New
  <2>3. queue \in Seq(UrbReply) /\ Append(queue, e) \in Seq(UrbReply)
    BY <2>2 DEF Queues
  <2>4. queue' \in Seq(UrbReply)
    BY <2>1, <2>2, <2>3
  <2>. QED BY <1>5, <2>4 DEF Queues
<1>6. \A r : New(r) => r \in Reply
  BY <1>1 DEF New
<1>. QED BY <1>1, <1>2, <1>3, <1>4, <1>5, <1>6, ReplyStep

\* The URB of a new reply was not answered before.
LEMMA NewIsFirst ==
  ASSUME Places, Owned, NEW r, New(r)
  PROVE  /\ \A s : Answers(r, s) <=> s = Target(r)
         /\ ~Done(Target(r))
<1>1. r \in UrbReply /\ (Owed(Target(r)) \/ Target(r) = taken + 1)
  BY DEF New
<1>2. \A s : Answers(r, s) <=> s = Target(r)
  BY <1>1, OneTarget
<1>3. taken + 1 \notin 1 .. taken
  BY DEF Places
<1>4. ~Done(Target(r))
  BY <1>1, <1>3 DEF Owned
<1>. QED BY <1>2, <1>4

LEMMA InTurnStays ==
  ASSUME NEW C, NEW D, C \subseteq D
  PROVE  /\ \A a, b : InTurn(a, b, C) => InTurn(a, b, D)
         /\ \A q : Ordered(q, C) => Ordered(q, D)
BY DEF InTurn, Ordered

\* What it takes that Owned stays true: every URB that is answered now was answered before,
\* or its answer is a new one.
LEMMA OwnedKept ==
  ASSUME Places, Stream, Chunks, Owned, [Next]_vars,
         Ordered(writes', Cleanup'), Ordered(queue', Cleanup'),
         \A a \in Elements(writes'), b \in Elements(queue') : InTurn(a, b, Cleanup'),
         \A s : Answered(writes', s) \/ Answered(queue', s) =>
                  \/ Done(s)
                  \/ s \in 1 .. taken' /\ sent'[s].type = "submit" /\ ~Owed(s)'
  PROVE  Owned'
<1>1. ASSUME NEW s, Done(s)
      PROVE  s \in 1 .. taken' /\ sent'[s].type = "submit" /\ ~Owed(s)'
  <2>1. s \in 1 .. taken /\ sent[s].type = "submit" /\ ~Owed(s)
    BY <1>1 DEF Owned
  <2>2. s # taken + 1
    BY <2>1 DEF Places
  <2>3. ~Owed(s)'
    BY <2>1, <2>2, OwedStep
  <2>. QED BY <2>1, <2>3, Onwards
<1>2. ASSUME NEW s, Answered(writes', s) \/ Answered(queue', s)
      PROVE  s \in 1 .. taken' /\ sent'[s].type = "submit" /\ ~Owed(s)'
  BY <1>1, <1>2
<1>. QED BY <1>2 DEF Owned, Done, Elements

\* Nothing in q answers the URB of r.
LEMMA NoneBefore ==
  ASSUME NEW q, NEW r, NEW t, NEW C, \A s : Answers(r, s) <=> s = t, ~Answered(q, t)
  PROVE  \A a \in Elements(q) : InTurn(a, r, C) /\ InTurn(r, a, C)
BY DEF Elements, Answered, InTurn

LEMMA OwnedStep ==
  Places /\ Stream /\ Urbs /\ Unlinks /\ Chunks /\ Queues /\ Owned /\ [Next]_vars => Owned'
<1> SUFFICES ASSUME Places, Stream, Urbs, Unlinks, Chunks, Queues, Owned, [Next]_vars
             PROVE  Owned'
  OBVIOUS
<1>1. PICK C : C = Cleanup'
  OBVIOUS
<1>2. writes \in Seq(Reply) /\ queue \in Seq(UrbReply)
  BY DEF Queues
<1>3. UrbReply \subseteq Reply /\ OpReplies \subseteq Reply
  BY DEF Reply
<1>4. Cleanup \subseteq C
  BY <1>1, Onwards DEF Cleanup
<1>5. /\ Ordered(writes, C) /\ Ordered(queue, C)
      /\ \A a \in Elements(writes), b \in Elements(queue) : InTurn(a, b, C)
  BY <1>4, InTurnStays DEF Owned
<1>6. ASSUME Ordered(writes', C), Ordered(queue', C),
              \A a \in Elements(writes'), b \in Elements(queue') : InTurn(a, b, C),
              \A s : Answered(writes', s) \/ Answered(queue', s) =>
                       \/ Done(s)
                       \/ s \in 1 .. taken' /\ sent'[s].type = "submit" /\ ~Owed(s)'
       PROVE  Owned'
  BY <1>1, <1>6, OwnedKept
<1>7. CASE UNCHANGED <<writes, queue>>
  BY <1>5, <1>6, <1>7 DEF Done
<1>8. CASE TxTake
  <2>1. queue # <<>> /\ queue' = Tail(queue) /\ writes' = Append(writes, Head(queue))
    BY <1>8 DEF TxTake, BeginWrite
  <2> DEFINE h == Head(queue)
  <2>2. /\ h \in UrbReply /\ Ordered(queue', C)
        /\ \A s : Answered(queue, s) <=> Answers(h, s) \/ Answered(queue', s)
        /\ Elements(queue) = {h} \cup Elements(queue')
        /\ \A b \in Elements(queue') : InTurn(h, b, C)
    BY <1>2, <1>5, <2>1, Taken
  <2>3. \A a \in Elements(writes) : InTurn(a, h, C)
    BY <1>5, <2>2
  <2>4. /\ \A s : Answered(writes', s) <=> Answered(writes, s) \/ Answers(h, s)
        /\ Elements(writes') = Elements(writes) \cup {h}
        /\ Ordered(writes', C)
    BY <1>2, <1>3, <1>5, <2>1, <2>2, <2>3, Appended
  <2> HIDE DEF h
  <2>5. \A a \in Elements(writes'), b \in Elements(queue') : InTurn(a, b, C)
    BY <1>5, <2>2, <2>4
  <2>6. \A s : Answered(writes', s) \/ Answered(queue', s) => Done(s)
    BY <2>2, <2>4 DEF Done
  <2>. QED BY <1>6, <2>2, <2>4, <2>5, <2>6
<1>9. ASSUME NEW r \in OpReplies, writes' = Append(writes, r), queue' = queue PROVE Owned'
  <2>1. \A s : ~Answers(r, s)
    BY <1>9, OpAnswersNoUrb
  <2>2. \A a : InTurn(a, r, C) /\ InTurn(r, a, C)
    BY <2>1 DEF InTurn
  <2>3. /\ Ordered(writes', C) /\ Elements(writes') = Elements(writes) \cup {r}
        /\ \A s : Answered(writes', s) <=> Answered(writes, s)
    BY <1>2, <1>3, <1>5, <1>9, <2>1, <2>2, Appended
  <2>4. \A a \in Elements(writes'), b \in Elements(queue') : InTurn(a, b, C)
    BY <1>5, <1>9, <2>2, <2>3
  <2>. QED BY <1>5, <1>6, <1>9, <2>3, <2>4 DEF Done
<1>10. ASSUME NEW r, New(r)
      PROVE  /\ r \in UrbReply /\ \A s : Answers(r, s) <=> s = Target(r)
             /\ ~Answered(writes, Target(r)) /\ ~Answered(queue, Target(r))
             /\ Target(r) \in 1 .. taken' /\ sent'[Target(r)].type = "submit"
             /\ ~Owed(Target(r))'
  BY <1>10, NewIsFirst DEF New, Done
<1>11. ASSUME NEW r, New(r), writes' = Append(writes, r), queue' = queue PROVE Owned'
  <2> DEFINE t == Target(r)
  <2>1. /\ r \in Reply /\ \A s : Answers(r, s) <=> s = t
        /\ ~Answered(writes, t) /\ ~Answered(queue, t)
        /\ t \in 1 .. taken' /\ sent'[t].type = "submit" /\ ~Owed(t)'
    BY <1>3, <1>10, <1>11
  <2> HIDE DEF t
  <2>2. /\ \A a \in Elements(writes) : InTurn(a, r, C)
        /\ \A b \in Elements(queue) : InTurn(r, b, C)
    BY <2>1, NoneBefore
  <2>3. /\ Ordered(writes', C) /\ Elements(writes') = Elements(writes) \cup {r}
        /\ \A s : Answered(writes', s) <=> Answered(writes, s) \/ s = t
    BY <1>2, <1>5, <1>11, <2>1, <2>2, Appended
  <2>4. \A a \in Elements(writes'), b \in Elements(queue') : InTurn(a, b, C)
    BY <1>5, <1>11, <2>2, <2>3
  <2>5. ASSUME NEW s, Answered(writes', s) \/ Answered(queue', s)
        PROVE  \/ Done(s)
               \/ s \in 1 .. taken' /\ sent'[s].type = "submit" /\ ~Owed(s)'
    <3>1. CASE s = t
      BY <2>1, <3>1
    <3>2. CASE s # t
      BY <1>11, <2>3, <2>5, <3>2 DEF Done
    <3>. QED BY <3>1, <3>2
  <2>. QED BY <1>5, <1>6, <1>11, <2>3, <2>4, <2>5
<1>12. CASE writes' = writes /\ Queued
  <2>1. PICK e, r :
          /\ New(e) /\ New(r) /\ Target(e) = Target(r)
          /\ \/ queue' = Append(queue, r)
             \/ InTurn(e, r, Cleanup) /\ queue' = Append(Append(queue, e), r)
    BY <1>12 DEF Queued
  <2> DEFINE t == Target(r)
             one == Append(queue, e)
  <2>2. /\ e \in UrbReply /\ \A s : Answers(e, s) <=> s = t
        /\ r \in UrbReply /\ \A s : Answers(r, s) <=> s = t
        /\ ~Answered(writes, t) /\ ~Answered(queue, t)
        /\ t \in 1 .. taken' /\ sent'[t].type = "submit" /\ ~Owed(t)'
    BY <1>10, <2>1
  <2> HIDE DEF t
  <2>3. /\ \A a \in Elements(queue) : InTurn(a, r, C) /\ InTurn(a, e, C)
        /\ \A a \in Elements(writes) : InTurn(a, r, C) /\ InTurn(a, e, C)
    BY <2>2, NoneBefore
  <2>4. /\ one \in Seq(UrbReply) /\ Ordered(one, C)
        /\ Elements(one) = Elements(queue) \cup {e}
        /\ \A s : Answered(one, s) <=> Answered(queue, s) \/ s = t
    BY <1>2, <1>5, <2>2, <2>3, Appended
  <2> HIDE DEF one
  <2>5. /\ Ordered(queue', C) /\ Elements(queue') \subseteq Elements(queue) \cup {e, r}
        /\ \A s : Answered(queue', s) => Answered(queue, s) \/ s = t
    <3>1. CASE queue' = Append(queue, r)
      BY <1>2, <1>5, <2>2, <2>3, <3>1, Appended
    <3>2. CASE InTurn(e, r, Cleanup) /\ queue' = Append(one, r)
      <4>1. InTurn(e, r, C)
        BY <1>4, <3>2, InTurnStays
      <4>2. \A a \in Elements(one) : InTurn(a, r, C)
        BY <2>3, <2>4, <4>1
      <4>. QED BY <2>2, <2>4, <3>2, <4>2, Appended
    <3>. QED BY <2>1, <3>1, <3>2 DEF one
  <2>6. \A a \in Elements(writes'), b \in Elements(queue') : InTurn(a, b, C)
    BY <1>5, <1>12, <2>3, <2>5
  <2>7. ASSUME NEW s, Answered(writes', s) \/ Answered(queue', s)
        PROVE  \/ Done(s)
               \/ s \in 1 .. taken' /\ sent'[s].type = "submit" /\ ~Owed(s)'
    <3>1. CASE s = t
      BY <2>2, <3>1
    <3>2. CASE s # t
      BY <1>12, <2>5, <2>7, <3>2 DEF Done
    <3>. QED BY <3>1, <3>2
  <2>. QED BY <1>5, <1>6, <1>12, <2>5, <2>6, <2>7
<1>. QED BY <1>7, <1>8, <1>9, <1>11, <1>12, ReplyStep

\* What is written and queued, after each kind of step.
LEMMA RepliesStep ==
  ASSUME Places, Stream, Urbs, Unlinks, Chunks, Queues, [Next]_vars, NEW r \in Replies'
  PROVE  r \in Replies \/ r \in OpReplies \/ New(r)
<1>1. writes \in Seq(Reply) /\ queue \in Seq(UrbReply) /\ UrbReply \subseteq Reply
      /\ OpReplies \subseteq Reply
  BY DEF Queues, Reply
<1>2. Replies = Elements(writes) \cup Elements(queue)
      /\ Replies' = Elements(writes') \cup Elements(queue')
  BY DEF Replies, Elements
<1>3. CASE UNCHANGED <<writes, queue>>
  BY <1>2, <1>3
<1>4. CASE TxTake
  <2>1. queue # <<>> /\ queue' = Tail(queue) /\ writes' = Append(writes, Head(queue))
    BY <1>4 DEF TxTake, BeginWrite
  <2> DEFINE h == Head(queue)
  <2>2. h \in Reply /\ Elements(queue) = {h} \cup Elements(queue')
    BY <1>1, <2>1, Taken
  <2>3. Elements(writes') = Elements(writes) \cup {h}
    BY <1>1, <2>1, <2>2, Appended
  <2> HIDE DEF h
  <2>. QED BY <1>2, <2>2, <2>3
<1>5. ASSUME NEW a \in OpReplies, writes' = Append(writes, a), queue' = queue
      PROVE  r \in Replies \/ r = a
  <2>1. Elements(writes') = Elements(writes) \cup {a}
    BY <1>1, <1>5, Appended
  <2>. QED BY <1>2, <1>5, <2>1
<1>6. ASSUME NEW a, New(a), writes' = Append(writes, a), queue' = queue
      PROVE  r \in Replies \/ r = a
  <2>1. a \in Reply
    BY <1>1, <1>6 DEF New
  <2>2. Elements(writes') = Elements(writes) \cup {a}
    BY <1>1, <1>6, <2>1, Appended
  <2>. QED BY <1>2, <1>6, <2>2
<1>7. CASE writes' = writes /\ Queued
  <2>1. PICK e, a :
          /\ New(e) /\ New(a)
          /\ queue' = Append(queue, a) \/ queue' = Append(Append(queue, e), a)
    BY <1>7 DEF Queued
  <2>2. e \in UrbReply /\ a \in UrbReply
    BY <2>1 DEF New
  <2>3. CASE queue' = Append(queue, a)
    <3>1. Elements(queue') = Elements(queue) \cup {a}
      BY <1>1, <2>2, <2>3, Appended
    <3>. QED BY <1>2, <1>7, <2>1, <3>1
  <2>4. CASE queue' = Append(Append(queue, e), a)
    <3> DEFINE one == Append(queue, e)
    <3>1. one \in Seq(UrbReply) /\ Elements(one) = Elements(queue) \cup {e}
      BY <1>1, <2>2, Appended
    <3>2. Elements(queue') = Elements(one) \cup {a}
      BY <2>2, <2>4, <3>1, Appended
    <3>. QED BY <1>2, <1>7, <2>1, <3>1, <3>2
  <2>. QED BY <2>1, <2>3, <2>4
<1>. QED BY <1>3, <1>4, <1>5, <1>6, <1>7, ReplyStep

LEMMA AnsweredReply ==
  \A s : Done(s) <=> \E r \in Replies : Answers(r, s)
BY DEF Done, Answered, Replies, Elements

LEMMA AllFitStep ==
  /\ Places /\ Stream /\ Urbs /\ Unlinks /\ Chunks /\ Queues /\ Owned /\ AllFit /\ [Next]_vars
  => AllFit'
<1> SUFFICES ASSUME Places, Stream, Urbs, Unlinks, Chunks, Queues, Owned, AllFit,
                    [Next]_vars, NEW r \in Replies'
             PROVE  Fits(r)'
  BY DEF AllFit
<1>1. CASE New(r)
  BY <1>1 DEF New
<1>2. CASE r \in OpReplies
  BY <1>2 DEF OpReplies, RepDevlist, RepImport, Fits
<1>3. CASE r \in Replies
  <2> SUFFICES ASSUME r.type = "ret_submit"
               PROVE  Fits(r)'
    BY DEF Fits
  <2>1. Fits(r) /\ Answers(r, r.seq)
    BY <1>3 DEF AllFit, Answers
  <2>2. Done(r.seq)
    BY <1>3, <2>1, AnsweredReply
  <2>3. r.seq \in 1 .. taken
    BY <2>2 DEF Owned
  <2>4. sent'[r.seq] = sent[r.seq] /\ kind' = kind /\ FixedSize(r.seq)' = FixedSize(r.seq)
    BY <2>3, Onwards
  <2>. QED BY <2>1, <2>4 DEF Fits
<1>. QED BY <1>1, <1>2, <1>3, RepliesStep

LEMMA AllLegibleStep ==
  Places /\ Stream /\ Urbs /\ Unlinks /\ Chunks /\ Queues /\ AllLegible /\ [Next]_vars
  => AllLegible'
<1> SUFFICES ASSUME Places, Stream, Urbs, Unlinks, Chunks, Queues, AllLegible,
                    [Next]_vars, NEW r \in Replies', r \notin OpReplies
             PROVE  r \in UrbReply /\ Legible(r)'
  BY DEF AllLegible
<1>1. CASE New(r)
  BY <1>1 DEF New
<1>2. CASE r \in Replies
  <2>1. r \in UrbReply /\ Legible(r)
    BY <1>2 DEF AllLegible
  <2>2. r.seq \in 1 .. taken
    BY <2>1 DEF Legible
  <2>3. /\ r.seq \in 1 .. taken' /\ sent'[r.seq] = sent[r.seq]
        /\ Misdirected(r.seq)' = Misdirected(r.seq)
    BY <2>2, Onwards
  <2>. QED BY <2>1, <2>3 DEF Legible
<1>. QED BY <1>1, <1>2, RepliesStep

-----------------------------------------------------------------------------
(* What can have led to an abort, and to a fault.                          *)

Flags ==
  /\ rxError \in BOOLEAN /\ txError \in BOOLEAN
  /\ socket \in BOOLEAN /\ stop \in BOOLEAN /\ mixed \in BOOLEAN
  /\ fault \in {"none", "freed_session", "freed_args", "freed_counters", "out_of_range",
                "null_handler"}

LEMMA FlagsStep == Places /\ Stream /\ Unlinks /\ Flags /\ [Next]_vars => Flags'
<1> SUFFICES ASSUME Places, Stream, Unlinks, Flags, [Next]_vars PROVE Flags'
  OBVIOUS
<1> USE DEF clientVars, rxVars, txVars, channelVars, wireVars, stopVars, deviceVars
<1>1. CASE ReadOp \/ ReadOpFails \/ RxWrites \/ RxWriteFails \/ Replied \/ StartTransfer
  BY <1>1, Zenon
  DEF ReadOp, OpReply, NoReply, BeginWrite, ReadOpFails, RxWrites, RxWriteFails, RxThrows,
      Replied, StartTransfer, Flags
<1>2. CASE RxCheck \/ EpipeWritten \/ SplitStep \/ Leave \/ CloseSession \/ ReadFails
  BY <1>2, Zenon DEF RxCheck, EpipeWritten, SplitStep, Leave, CloseSession, ReadFails, Flags
<1>3. CASE UnknownEndpoint \/ TakeUnlink
  BY <1>3, Zenon DEF UnknownEndpoint, TakeUnlink, BeginWrite, Flags
<1>4. CASE HandToHost \/ SplitRequest
  BY <1>4, Zenon DEF HandToHost, SplitRequest, Flags
<1>5. CASE Emulate
  <2>1. PICK o : Told(o, taken + 1) /\ fault' = o.fault /\ rxError' = o.ec
                 /\ stop' = (stop \/ o.ec)
    BY <1>5, Emulated
  <2>2. o.ec \in BOOLEAN /\ o.fault \in {"none", "out_of_range", "null_handler"}
    BY <2>1 DEF Told
  <2>3. UNCHANGED <<txError, socket, mixed>>
    BY <1>5 DEF Emulate
  <2>. QED BY <2>1, <2>2, <2>3, Zenon DEF Flags
<1>6. CASE HandlerEnds
  BY <1>6, Zenon DEF HandlerEnds, HandlerFails, HandlerThrows, SplitThrows, RxThrows, Flags
<1>7. CASE Sender
  BY <1>7, Zenon
  DEF Sender, TxCheck, TxTake, TxClosed, TxWrites, TxWriteFails, BeginWrite, Flags
<1>8. ASSUME NEW s \in inFlight, HostReturns(s) PROVE Flags'
  BY <1>8, Zenon DEF HostReturns, Flags
<1>9. ASSUME NEW s \in DOMAIN bulk, ChunkCallback(s) \/ LateChunk(s) PROVE Flags'
  BY <1>9, Zenon DEF ChunkCallback, LateChunk, Flags
<1>10. CASE Client
  BY <1>10, Zenon DEF Client, ClientOp, ClientSend, ClientCloses, Flags
<1>11. CASE ImmediatelyStop \/ PostedClose \/ UNCHANGED vars
  BY <1>11, Zenon DEF ImmediatelyStop, PostedClose, vars, Flags
<1>. QED
  BY <1>1, <1>2, <1>3, <1>4, <1>5, <1>6, <1>7, <1>8, <1>9, <1>10, <1>11
  DEF Next, Receiver, HandlerEnds, Callbacks

\* The receiver writes an answer itself only after a command to an endpoint that the device
\* does not have, and is thrown out of its loop only by the failure of that write or by a
\* handler that allocates with the new that throws.
UnknownTaken == \E s \in 1 .. taken : Unknown(s)
ThrowingTaken == \E s \in 1 .. taken : Periodic(s) \/ Split(s)
Broken == client = "closed" \/ posted = "done"

Causes ==
  /\ rx = "epipe" => UnknownTaken
  /\ rx = "aborted" => inFlight = {} \/ (UnknownTaken /\ Broken) \/ ThrowingTaken
  /\ OneWriter

LEMMA UnknownStays ==
  ASSUME Places, Stream, [Next]_vars, UnknownTaken
  PROVE  UnknownTaken'
<1>1. PICK s \in 1 .. taken : Unknown(s)
  BY DEF UnknownTaken
<1>2. s \in 1 .. taken' /\ Unknown(s)' = Unknown(s)
  BY Onwards
<1>3. \E t \in 1 .. taken' : Unknown(t)'
  BY <1>1, <1>2
<1>. QED BY <1>3 DEF UnknownTaken

LEMMA ThrowingStays ==
  ASSUME Places, Stream, [Next]_vars, ThrowingTaken
  PROVE  ThrowingTaken'
<1>1. PICK s \in 1 .. taken : Periodic(s) \/ Split(s)
  BY DEF ThrowingTaken
<1>2. s \in 1 .. taken' /\ Periodic(s)' = Periodic(s) /\ Split(s)' = Split(s)
  BY Onwards
<1>3. \E t \in 1 .. taken' : Periodic(t)' \/ Split(t)'
  BY <1>1, <1>2
<1>. QED BY <1>3 DEF ThrowingTaken

LEMMA BrokenStays ==
  ASSUME Places, [Next]_vars, Broken
  PROVE  Broken'
<1> USE DEF clientVars, rxVars, txVars, channelVars, wireVars, stopVars, deviceVars, Broken
<1>1. CASE ReadOp \/ ReadOpFails \/ RxWrites \/ RxWriteFails \/ Replied \/ StartTransfer
  BY <1>1 DEF ReadOp, ReadOpFails, RxWrites, RxWriteFails, RxThrows, Replied, StartTransfer
<1>2. CASE RxCheck \/ EpipeWritten \/ SplitStep \/ Leave \/ CloseSession \/ ReadFails
  BY <1>2 DEF RxCheck, EpipeWritten, SplitStep, Leave, CloseSession, ReadFails
<1>3. CASE UnknownEndpoint \/ TakeUnlink \/ Emulate \/ HandToHost \/ SplitRequest
  BY <1>3 DEF UnknownEndpoint, TakeUnlink, Emulate, HandToHost, SplitRequest
<1>4. CASE HandlerEnds
  BY <1>4 DEF HandlerEnds, HandlerFails, HandlerThrows, SplitThrows, RxThrows, Read
<1>5. CASE Sender
  BY <1>5 DEF Sender, TxCheck, TxTake, TxClosed, TxWrites, TxWriteFails
<1>6. CASE Callbacks
  BY <1>6 DEF Callbacks, HostReturns, ChunkCallback, LateChunk
<1>7. CASE Client \/ ImmediatelyStop \/ PostedClose \/ UNCHANGED vars
  BY <1>7 DEF Client, ClientOp, ClientSend, ClientCloses, ImmediatelyStop, PostedClose, vars
<1>. QED BY <1>1, <1>2, <1>3, <1>4, <1>5, <1>6, <1>7
    DEF Next, Receiver, HandlerEnds

LEMMA TakesUnknown ==
  ASSUME Places, Stream, UnknownEndpoint
  PROVE  UnknownTaken'
<1>1. PICK c : c = CommandOf(toServer)
  OBVIOUS
<1>2. Read(c) /\ c.type = "submit" /\ ~FindEp(c) /\ sent' = sent /\ kind' = kind
  BY <1>1 DEF UnknownEndpoint, clientVars
<1>3. c = sent[taken + 1] /\ taken' = taken + 1 /\ taken \in Nat
  BY <1>2, TakesNext
<1>4. sent'[taken'] = c /\ taken' \in 1 .. taken'
  BY <1>2, <1>3
<1>5. PICK t : t = taken'
  OBVIOUS
<1>6. Unknown(t)'
  BY <1>2, <1>4, <1>5 DEF Unknown, FindEp
<1>. QED BY <1>4, <1>5, <1>6 DEF UnknownTaken

LEMMA TakesThrowing ==
  ASSUME Places, Stream, HandlerThrows
  PROVE  ThrowingTaken'
<1>1. PICK c : c = CommandOf(toServer)
  OBVIOUS
<1>2. /\ Read(c) /\ c.type = "submit" /\ sent' = sent /\ kind' = kind /\ kind = "host"
      /\ IsFor(c, {"Interrupt", "Isochronous"}) \/ Splits(c)
  BY <1>1 DEF HandlerThrows, clientVars
<1>3. c = sent[taken + 1] /\ taken' = taken + 1 /\ taken \in Nat
  BY <1>2, TakesNext
<1>4. sent'[taken'] = c /\ taken' \in 1 .. taken'
  BY <1>2, <1>3
<1>5. PICK t : t = taken'
  OBVIOUS
<1>6. Periodic(t)' \/ Split(t)'
  BY <1>2, <1>4, <1>5 DEF Periodic, Split, Splits, IsFor
<1>. QED BY <1>4, <1>5, <1>6 DEF ThrowingTaken

\* When a step changes nothing of what Causes speaks of, it stays.
LEMMA CausesKept ==
  ASSUME Places, Stream, Causes, [Next]_vars,
         rx' = "epipe" => rx = "epipe" \/ UnknownTaken',
         rx' = "aborted" => \/ rx = "aborted" /\ inFlight' \subseteq inFlight
                            \/ inFlight' = {} \/ (UnknownTaken' /\ Broken')
                            \/ ThrowingTaken',
         mixed' => mixed \/ UnknownTaken'
  PROVE  Causes'
<1>1. OneWriter <=> (mixed => UnknownTaken)
  BY DEF OneWriter, UnknownTaken
<1>2. OneWriter' <=> (mixed' => UnknownTaken')
  BY DEF OneWriter, UnknownTaken
<1>3. rx' = "epipe" => UnknownTaken'
  BY UnknownStays DEF Causes
<1>4. mixed' => UnknownTaken'
  BY <1>1, UnknownStays, Zenon DEF Causes
<1>5. rx' = "aborted" => inFlight' = {} \/ (UnknownTaken' /\ Broken') \/ ThrowingTaken'
  BY UnknownStays, BrokenStays, ThrowingStays DEF Causes
<1>. QED BY <1>2, <1>3, <1>4, <1>5, Zenon DEF Causes

LEMMA CausesStep == Places /\ Stream /\ Chunks /\ Causes /\ [Next]_vars => Causes'
<1> SUFFICES ASSUME Places, Stream, Chunks, Causes, [Next]_vars PROVE Causes'
  OBVIOUS
<1> USE DEF clientVars, rxVars, txVars, channelVars, wireVars, stopVars, deviceVars
<1>1. CASE (mixed' => mixed) /\ inFlight' \subseteq inFlight
           /\ (rx' = rx \/ rx' \notin {"epipe", "aborted"})
  BY <1>1, CausesKept
<1>2. CASE ReadOp
  <2>1. mixed' => mixed
    BY <1>2, Zenon DEF ReadOp, OpReply, NoReply, BeginWrite
  <2>2. rx' \notin {"epipe", "aborted"} /\ inFlight' = inFlight
    BY <1>2 DEF ReadOp, OpReply, NoReply
  <2>. QED BY <1>1, <2>1, <2>2
<1>3. CASE ReadOpFails \/ RxWrites \/ Replied \/ StartTransfer
  BY <1>1, <1>3 DEF ReadOpFails, RxWrites, Replied, StartTransfer
<1>4. CASE RxWriteFails
  <2>1. /\ rx \in {"replying", "epipe"} /\ (~socket \/ client = "closed") /\ rx' = "aborted"
        /\ UNCHANGED <<mixed, inFlight, client, posted>>
    BY <1>4 DEF RxWriteFails, RxThrows, Writing
  <2>2. CASE rx = "replying"
    BY <2>1, <2>2, CausesKept DEF Places, Early
  <2>3. CASE rx = "epipe"
    <3>1. Broken'
      BY <2>1, <2>3 DEF Broken, Places, Ends
    <3>2. UnknownTaken'
      BY <2>3, UnknownStays DEF Causes
    <3>. QED BY <2>1, <3>1, <3>2, CausesKept
  <2>. QED BY <2>1, <2>2, <2>3
<1>5. CASE RxCheck \/ EpipeWritten \/ SplitStep \/ Leave \/ CloseSession \/ ReadFails
  BY <1>1, <1>5 DEF RxCheck, EpipeWritten, SplitStep, Leave, CloseSession, ReadFails
<1>6. CASE UnknownEndpoint
  <2>1. UnknownTaken' /\ rx' = "epipe"
    BY <1>6, TakesUnknown DEF UnknownEndpoint
  <2>. QED BY <2>1, CausesKept
<1>7. CASE TakeUnlink \/ Emulate \/ SplitRequest
  BY <1>1, <1>7 DEF TakeUnlink, Emulate, SplitRequest
<1>8. CASE HandToHost
  <2>1. mixed' = mixed /\ rx' = "checking"
    BY <1>8 DEF HandToHost
  <2>. QED BY <2>1, CausesKept
<1>9. CASE HandlerFails
  BY <1>1, <1>9 DEF HandlerFails
<1>10. CASE HandlerThrows
  <2>1. ThrowingTaken' /\ rx' = "aborted" /\ mixed' = mixed
    BY <1>10, TakesThrowing DEF HandlerThrows, RxThrows
  <2>. QED BY <2>1, CausesKept
<1>11. CASE SplitThrows
  <2>1. taken \in DOMAIN bulk /\ rx' = "aborted" /\ mixed' = mixed
    BY <1>11, LoopStep DEF SplitThrows, RxThrows
  <2>2. ThrowingTaken
    BY <2>1 DEF Chunks, ThrowingTaken
  <2>. QED BY <2>1, <2>2, ThrowingStays, CausesKept
<1>12. CASE TxTake
  <2>1. /\ tx = "waiting" /\ mixed' = (mixed \/ rxOut # <<>>)
        /\ UNCHANGED <<rx, inFlight>>
    BY <1>12 DEF TxTake, BeginWrite
  <2>2. CASE rxOut # <<>>
    <3>1. rx \in {"replying", "epipe"} /\ rx # "replying"
      BY <2>1, <2>2 DEF Places, Ends, Early, Writing
    <3>2. UnknownTaken'
      BY <3>1, UnknownStays DEF Causes
    <3>. QED BY <2>1, <3>1, <3>2, CausesKept
  <2>3. CASE rxOut = <<>>
    BY <2>1, <2>3, CausesKept
  <2>. QED BY <2>2, <2>3
<1>13. CASE TxCheck \/ TxClosed \/ TxWrites \/ TxWriteFails
  BY <1>1, <1>13 DEF TxCheck, TxClosed, TxWrites, TxWriteFails
<1>14. CASE Callbacks
  BY <1>1, <1>14 DEF Callbacks, HostReturns, ChunkCallback, LateChunk
<1>15. CASE Client \/ ImmediatelyStop \/ PostedClose \/ UNCHANGED vars
  BY <1>1, <1>15
  DEF Client, ClientOp, ClientSend, ClientCloses, ImmediatelyStop, PostedClose, vars
<1>. QED
  BY <1>2, <1>3, <1>4, <1>5, <1>6, <1>7, <1>8, <1>9, <1>10, <1>11, <1>12,
  <1>13, <1>14, <1>15
  DEF Next, Receiver, Sender

LEMMA FaultCausesStep ==
  /\ Places /\ Stream /\ Urbs /\ Unlinks /\ Chunks /\ Causes /\ FaultCauses /\ [Next]_vars
  => FaultCauses'
<1> SUFFICES ASSUME Places, Stream, Urbs, Unlinks, Chunks, Causes, FaultCauses,
                    [Next]_vars
             PROVE  FaultCauses'
  OBVIOUS
<1> USE DEF clientVars, rxVars, txVars, channelVars, wireVars, stopVars, deviceVars
<1>1. OneWriter'
  BY CausesStep DEF Causes
<1>2. CASE UNCHANGED vars
  BY <1>1, <1>2
  DEF vars, FaultCauses, Unknown, Split, Splits, Periodic, IsFor, FindEp, Cleared, Clears
<1>3. CASE fault' = "none"
  BY <1>1, <1>3 DEF FaultCauses
<1> SUFFICES ASSUME Next, fault = "none" PROVE FaultCauses'
  BY <1>2 DEF Next
<1>4. CASE Emulate
  <2>1. PICK o : Told(o, taken + 1) /\ fault' = o.fault
    BY <1>4, Emulated
  <2>2. /\ Read(sent[taken + 1]) /\ sent[taken + 1].type = "submit" /\ sent' = sent
        /\ taken' = taken + 1 /\ taken \in Nat
    BY <1>4, Emulated, TakesNext DEF Emulate
  <2>3. PICK t : t = taken + 1
    OBVIOUS
  <2>4. t \in 1 .. taken' /\ sent'[t].type = "submit"
    BY <2>2, <2>3
  <2>5. /\ fault' \in {"none", "out_of_range", "null_handler"}
        /\ fault' = "out_of_range" => Setup[sent'[t].setup].index \notin Interface
        /\ fault' = "null_handler" => Handled # Interface
    BY <2>1, <2>2, <2>3 DEF Told
  <2>6. fault' \notin {"freed_counters", "freed_session", "freed_args"}
    BY <2>5
  <2>. QED BY <1>1, <2>4, <2>5, <2>6 DEF FaultCauses
<1>5. ASSUME NEW s \in inFlight, HostReturns(s) PROVE FaultCauses'
  <2>1. CASE rx = "aborted" /\ fault' = "freed_session"
    <3>1. (UnknownTaken' /\ Broken') \/ ThrowingTaken'
      BY <1>5, <2>1, UnknownStays, BrokenStays, ThrowingStays DEF Causes
    <3>. QED BY <1>1, <2>1, <3>1 DEF FaultCauses, UnknownTaken, ThrowingTaken, Broken
  <2>2. CASE (\E t \in 1 .. taken : Clears(t, s)) /\ fault' = "freed_args"
    <3>1. s \in 1 .. taken /\ Cleared(s)
      BY <1>5, <2>2 DEF Urbs, Cleared
    <3>2. s \in 1 .. taken' /\ Cleared(s)'
      BY <3>1, Onwards
    <3>. QED BY <1>1, <2>2, <3>2 DEF FaultCauses
  <2>. QED BY <1>3, <1>5, <2>1, <2>2 DEF HostReturns
<1>6. ASSUME NEW s \in DOMAIN bulk, LateChunk(s) PROVE FaultCauses'
  <2>1. s \in 1 .. taken /\ Split(s)
    BY DEF Chunks
  <2>2. s \in 1 .. taken' /\ Split(s)'
    BY <2>1, Onwards
  <2>3. fault' = "freed_counters"
    BY <1>6 DEF LateChunk
  <2>. QED BY <1>1, <2>2, <2>3 DEF FaultCauses
<1>7. ASSUME NEW s \in DOMAIN bulk, ChunkCallback(s) PROVE FaultCauses'
  BY <1>3, <1>7 DEF ChunkCallback
<1>8. CASE ReadOp \/ ReadOpFails \/ RxWrites \/ RxWriteFails \/ Replied \/ StartTransfer
  BY <1>3, <1>8 DEF ReadOp, ReadOpFails, RxWrites, RxWriteFails, RxThrows, Replied,
     StartTransfer
<1>9. CASE RxCheck \/ EpipeWritten \/ SplitStep \/ Leave \/ CloseSession \/ ReadFails
  BY <1>3, <1>9 DEF RxCheck, EpipeWritten, SplitStep, Leave, CloseSession, ReadFails
<1>10. CASE UnknownEndpoint \/ TakeUnlink \/ HandToHost \/ SplitRequest
  BY <1>3, <1>10 DEF UnknownEndpoint, TakeUnlink, HandToHost, SplitRequest
<1>11. CASE HandlerEnds
  BY <1>3, <1>11 DEF HandlerEnds, HandlerFails, HandlerThrows, SplitThrows, RxThrows
<1>12. CASE Sender
  BY <1>3, <1>12 DEF Sender, TxCheck, TxTake, TxClosed, TxWrites, TxWriteFails
<1>13. CASE Client \/ ImmediatelyStop \/ PostedClose
  BY <1>3, <1>13
  DEF Client, ClientOp, ClientSend, ClientCloses, ImmediatelyStop, PostedClose
<1>. QED
  BY <1>4, <1>5, <1>6, <1>7, <1>8, <1>9, <1>10, <1>11, <1>12, <1>13
  DEF Next, Receiver, HandlerEnds, Callbacks

-----------------------------------------------------------------------------
(* The handlers that point to the session.                                 *)

LEMMA LeastElement ==
  ASSUME NEW T, T \subseteq Nat, T # {}
  PROVE  \E x \in T : \A y \in T : x <= y
<1> DEFINE R == OpToRel(<, Nat)
<1>1. IsWellFoundedOn(R, Nat)
  BY NatLessThanWellFounded
<1>2. \A x, y \in Nat : <<y, x>> \in R <=> y < x
  BY DEF OpToRel
<1> HIDE DEF R
<1>3. PICK x \in T : \A y \in T : ~(<<y, x>> \in R)
  BY <1>1, WFMin
<1>4. \A y \in T : ~(y < x)
  BY <1>2, <1>3
<1>5. x \in Nat /\ \A y \in T : y \in Nat
  OBVIOUS
<1>6. \A y \in T : x <= y
  BY <1>4, <1>5
<1>. QED BY <1>6

LEMMA HandledFinite == Handled \subseteq Nat /\ IsFiniteSet(Handled)
<1>1. Interfaces \in Nat /\ Handled \in SUBSET (0 .. Interfaces - 1)
  BY VirtualAssumption DEF VirtualAssumption
<1>2. 0 .. Interfaces - 1 \subseteq Nat
  BY <1>1
<1>3. IsFiniteSet(0 .. Interfaces - 1)
  <2>1. 0 \in Int /\ Interfaces - 1 \in Int
    BY <1>1
  <2>. QED BY <2>1, FS_Interval
<1>4. IsFiniteSet(Handled)
  BY <1>1, <1>3, FS_Subset
<1>. QED BY <1>1, <1>2, <1>4

\* A handler is told in any case, the first one.
LEMMA FirstIsTold ==
  ASSUME Handled # {}, NEW k, k \subseteq Handled, NEW ec
  PROVE  OnDisconnection(k, ec) # Handled
<1>1. PICK x \in Handled : \A y \in Handled : x <= y
  BY HandledFinite, LeastElement
<1>2. x \notin OnDisconnection(k, ec)
  BY <1>1 DEF OnDisconnection
<1>. QED BY <1>2

Forgets ==
  rx \in {"left", "closed"} =>
    /\ ~rxError => known = {}
    /\ known # Handled \/ Handled = {}

LEMMA ForgetsStep ==
  Places /\ Pointers /\ Forgets /\ [Next]_vars => Forgets'
<1> SUFFICES ASSUME Places, Pointers, Forgets, [Next]_vars PROVE Forgets'
  OBVIOUS
<1> USE DEF clientVars, rxVars, txVars, channelVars, wireVars, stopVars, deviceVars
<1>1. CASE rx' \notin {"left", "closed"}
  BY <1>1 DEF Forgets
<1>2. CASE known' = {} /\ rxError' = rxError
  BY <1>2 DEF Forgets
<1>3. CASE UNCHANGED <<rx, known, rxError>>
  BY <1>3 DEF Forgets
<1>4. CASE ReadOp \/ ReadOpFails
  BY <1>2, <1>4 DEF ReadOp, ReadOpFails, Places, Early
<1>5. CASE Replied
  BY <1>2, <1>5 DEF Replied, Places, Early
<1>6. CASE RxWrites
  BY <1>3, <1>6 DEF RxWrites
<1>7. CASE RxWriteFails \/ StartTransfer \/ RxCheck \/ EpipeWritten \/ ReadFails
  BY <1>1, <1>7 DEF RxWriteFails, RxThrows, StartTransfer, RxCheck, EpipeWritten, ReadFails
<1>8. CASE UnknownEndpoint \/ TakeUnlink \/ Emulate \/ HandToHost \/ SplitRequest
  BY <1>1, <1>8 DEF UnknownEndpoint, TakeUnlink, Emulate, HandToHost, SplitRequest
<1>9. CASE SplitStep
  BY <1>1, <1>9 DEF SplitStep
<1>10. CASE Leave
  <2>1. /\ known' = IF kind = "emulated" THEN OnDisconnection(known, rxError) ELSE known
        /\ rxError' = rxError
    BY <1>10 DEF Leave
  <2>2. known \subseteq Handled /\ (kind = "host" => known = {}) /\ kind \in {"host", "emulated"}
    BY DEF Pointers, Places, Words
  <2>3. ~rxError => known' = {}
    BY <2>1, <2>2 DEF OnDisconnection
  <2>4. known' # Handled \/ Handled = {}
    <3>1. CASE kind = "host"
      BY <2>1, <2>2, <3>1
    <3>2. CASE kind = "emulated" /\ Handled # {}
      BY <2>1, <2>2, <3>2, FirstIsTold
    <3>. QED BY <2>2, <3>1, <3>2
  <2>. QED BY <2>1, <2>3, <2>4 DEF Forgets
<1>11. CASE CloseSession
  BY <1>11 DEF CloseSession, Forgets
<1>12. CASE HandlerEnds
  BY <1>1, <1>12 DEF HandlerEnds, HandlerFails, HandlerThrows, SplitThrows, RxThrows
<1>13. CASE Sender
  BY <1>3, <1>13 DEF Sender, TxCheck, TxTake, TxClosed, TxWrites, TxWriteFails
<1>14. CASE Callbacks
  BY <1>3, <1>14 DEF Callbacks, HostReturns, ChunkCallback, LateChunk
<1>15. CASE Client \/ ImmediatelyStop \/ PostedClose \/ UNCHANGED vars
  BY <1>3, <1>15
  DEF Client, ClientOp, ClientSend, ClientCloses, ImmediatelyStop, PostedClose, vars
<1>. QED
  BY <1>4, <1>5, <1>6, <1>7, <1>8, <1>9, <1>10, <1>11, <1>12, <1>13, <1>14, <1>15
  DEF Next, Receiver, HandlerEnds

LEMMA ForgetsSuffices == Pointers /\ Forgets => HandlersForget
<1> SUFFICES ASSUME Pointers, Forgets, rx \in {"left", "closed"}, known # Handled
             PROVE  Cardinality(known) < Cardinality(Handled)
  BY DEF HandlersForget, Forgets
<1>1. known \in SUBSET Handled
  BY DEF Pointers
<1>2. /\ IsFiniteSet(known) /\ Cardinality(known) <= Cardinality(Handled)
      /\ Cardinality(known) # Cardinality(Handled)
  BY <1>1, HandledFinite, FS_Subset
<1>3. Cardinality(known) \in Nat /\ Cardinality(Handled) \in Nat
  BY <1>2, HandledFinite, FS_CardinalityType
<1>. QED BY <1>2, <1>3

-----------------------------------------------------------------------------
(* No URB is forgotten.                                                    *)

Lasts == posted # "done" /\ rx \notin {"left", "closed", "aborted"}

\* What NoneForgotten asks of one URB.
Remembered(s) ==
  sent[s].type = "submit" =>
    \/ Done(s) \/ s \in inFlight \/ s \in DOMAIN bulk
    \/ rxError /\ s = taken
    \/ Periodic(s) \/ NoSuchEndpoint(s)

LEMMA NoneForgottenIs ==
  NoneForgotten <=> (fault = "none" /\ Lasts => \A s \in 1 .. taken : Remembered(s))
<1>1. \A s : AnswersTo(s) # {} <=> Done(s)
  BY AnsweredReply DEF AnswersTo
<1>. QED BY <1>1 DEF NoneForgotten, Lasts, Remembered

\* A session that lasts has lasted so far, and its channel is open.
LEMMA Lasted == Places /\ [Next]_vars /\ Lasts' => Lasts
<1> SUFFICES ASSUME Places, [Next]_vars, Lasts' PROVE Lasts
  OBVIOUS
<1> USE DEF clientVars, rxVars, txVars, channelVars, wireVars, stopVars, deviceVars, Lasts
<1>1. CASE ReadOp \/ ReadOpFails \/ RxWrites \/ RxWriteFails \/ Replied \/ StartTransfer
  BY <1>1 DEF ReadOp, ReadOpFails, RxWrites, RxWriteFails, RxThrows, Replied, StartTransfer,
     Writing
<1>2. CASE RxCheck \/ EpipeWritten \/ SplitStep \/ Leave \/ CloseSession \/ ReadFails
  BY <1>2 DEF RxCheck, EpipeWritten, SplitStep, Leave, CloseSession, ReadFails
<1>3. CASE UnknownEndpoint \/ TakeUnlink \/ Emulate \/ HandToHost \/ SplitRequest
  BY <1>3 DEF UnknownEndpoint, TakeUnlink, Emulate, HandToHost, SplitRequest, Read
<1>4. CASE HandlerEnds
  BY <1>4 DEF HandlerEnds, HandlerFails, HandlerThrows, SplitThrows, RxThrows, Read
<1>5. CASE Sender
  BY <1>5 DEF Sender, TxCheck, TxTake, TxClosed, TxWrites, TxWriteFails
<1>6. CASE Callbacks
  BY <1>6 DEF Callbacks, HostReturns, ChunkCallback, LateChunk
<1>7. CASE Client \/ ImmediatelyStop \/ PostedClose \/ UNCHANGED vars
  BY <1>7 DEF Client, ClientOp, ClientSend, ClientCloses, ImmediatelyStop, PostedClose, vars
<1>. QED BY <1>1, <1>2, <1>3, <1>4, <1>5, <1>6, <1>7
    DEF Next, Receiver, HandlerEnds

LEMMA OpenChannel == Places /\ Lasts /\ rx \in Serving => channel = "open"
BY DEF Places, Words, Ends, Lasts

LEMMA Pushed ==
  ASSUME Queues, channel = "open", NEW r \in UrbReply, Push(<<r>>)
  PROVE  Answered(queue', Target(r))
<1>1. queue \in Seq(UrbReply) /\ queue' = Append(queue, r)
  BY DEF Push, Queues
<1>2. Answers(r, Target(r))
  BY OneTarget
<1>. QED BY <1>1, <1>2, Appended

\* An answer stays: it goes from the channel to the socket.
LEMMA DoneStays ==
  ASSUME Places, Stream, Urbs, Unlinks, Chunks, Queues, [Next]_vars, NEW s, Done(s)
  PROVE  Done(s)'
<1>1. writes \in Seq(Reply) /\ queue \in Seq(UrbReply) /\ UrbReply \subseteq Reply
      /\ OpReplies \subseteq Reply
  BY DEF Queues, Reply
<1> SUFFICES Answered(writes', s) \/ Answered(queue', s)
  BY DEF Done
<1>2. CASE UNCHANGED <<writes, queue>>
  BY <1>2 DEF Done
<1>3. CASE TxTake
  <2>1. queue # <<>> /\ queue' = Tail(queue) /\ writes' = Append(writes, Head(queue))
    BY <1>3 DEF TxTake, BeginWrite
  <2> DEFINE h == Head(queue)
  <2>2. h \in Reply /\ (Answered(queue, s) <=> Answers(h, s) \/ Answered(queue', s))
    BY <1>1, <2>1, Taken
  <2>3. Answered(writes', s) <=> Answered(writes, s) \/ Answers(h, s)
    BY <1>1, <2>1, <2>2, Appended
  <2> HIDE DEF h
  <2>. QED BY <2>2, <2>3 DEF Done
<1>4. ASSUME NEW r \in Reply, writes' = Append(writes, r), queue' = queue
      PROVE  Answered(writes', s) \/ Answered(queue', s)
  <2>1. Answered(writes', s) <=> Answered(writes, s) \/ Answers(r, s)
    BY <1>1, <1>4, Appended
  <2>. QED BY <1>4, <2>1 DEF Done
<1>5. CASE writes' = writes /\ Queued
  <2>1. PICK e, r : /\ New(e) /\ New(r)
                    /\ queue' = Append(queue, r) \/ queue' = Append(Append(queue, e), r)
    BY <1>5 DEF Queued
  <2>2. e \in UrbReply /\ r \in UrbReply
    BY <2>1 DEF New
  <2>3. Append(queue, e) \in Seq(UrbReply)
    BY <1>1, <2>2
  <2> DEFINE q == Append(queue, e)
  <2>4. Answered(queue, s) => Answered(q, s) /\ Answered(Append(queue, r), s)
    BY <1>1, <2>2, Appended
  <2>5. Answered(q, s) => Answered(Append(q, r), s)
    BY <2>2, <2>3, Appended
  <2>6. Answered(queue, s) => Answered(queue', s)
    <3>1. CASE queue' = Append(queue, r)
      BY <2>4, <3>1
    <3>2. CASE queue' = Append(q, r)
      BY <2>4, <2>5, <3>2
    <3>. QED BY <2>1, <3>1, <3>2
  <2>. QED BY <1>5, <2>6 DEF Done
<1>6. \A r : New(r) => r \in UrbReply
  BY DEF New
<1>. QED BY <1>1, <1>2, <1>3, <1>4, <1>5, <1>6, ReplyStep

\* The command that is taken is remembered.
LEMMA TakenRemembered ==
  ASSUME Places, Stream, Urbs, Unlinks, Queues, Lasts, fault' = "none",
         \/ UnknownEndpoint \/ TakeUnlink \/ Emulate \/ HandToHost \/ SplitRequest
         \/ HandlerFails,
         NEW t, t = taken + 1
  PROVE  Remembered(t)'
<1>1. PICK c : c = CommandOf(toServer)
  OBVIOUS
<1> USE DEF clientVars, rxVars, wireVars, channelVars, stopVars, deviceVars
<1>2. Read(c)
  BY <1>1 DEF UnknownEndpoint, TakeUnlink, Emulate, HandToHost, SplitRequest, HandlerFails
<1>3. c = sent[t] /\ c.seq = t /\ taken' = t /\ t \in Nat
  BY <1>2, TakesNext
<1>4. channel = "open" /\ rx = "reading"
  BY <1>2, OpenChannel DEF Read, Serving
<1>5. sent' = sent /\ kind' = kind
  BY DEF UnknownEndpoint, TakeUnlink, Emulate, HandToHost, SplitRequest, HandlerFails
<1>6. ASSUME NEW st \in Int, Push(<<RetNoData(c.seq, st)>>) PROVE Answered(queue', t)
  <2>1. PICK r : r = RetSubmit(t, st, 0, 0)
    OBVIOUS
  <2>2. r \in UrbReply /\ Target(r) = t
    <3>1. t \in Nat /\ st \in Int /\ 0 \in Nat
      BY <1>3
    <3>2. RetSubmit(t, st, 0, 0) \in UrbReply /\ Target(RetSubmit(t, st, 0, 0)) = t
      BY <3>1, SubmitReplies
    <3>. QED BY <2>1, <3>2, Zenon
  <2>3. Push(<<r>>)
    BY <1>3, <1>6, <2>1 DEF RetNoData
  <2>. QED BY <1>4, <2>2, <2>3, Pushed
<1>7. CASE UnknownEndpoint
  <2>1. writes' = Append(writes, RetNoData(c.seq, EPIPE))
    BY <1>1, <1>7 DEF UnknownEndpoint, BeginWrite
  <2>2. RetNoData(c.seq, EPIPE) \in UrbReply /\ Target(RetNoData(c.seq, EPIPE)) = t
    BY <1>3, SubmitReplies, StatusTypes DEF RetNoData
  <2>3. Answers(RetNoData(c.seq, EPIPE), t)
    BY <2>2, OneTarget
  <2>4. Answered(writes', t)
    BY <2>1, <2>2, <2>3, Appended DEF Queues, Reply
  <2>. QED BY <2>4 DEF Remembered, Done
<1>8. CASE TakeUnlink
  <2>1. c.type = "unlink"
    BY <1>1, <1>8 DEF TakeUnlink
  <2>. QED BY <1>3, <1>5, <2>1 DEF Remembered
<1>9. CASE Emulate
  <2>1. PICK o : Told(o, taken + 1) /\ Push(o.replies) /\ fault' = o.fault /\ rxError' = o.ec
    BY <1>9, Emulated
  <2>2. kind = "emulated"
    BY <1>9 DEF Emulate
  <2>3. CASE \E r \in UrbReply : o.replies = <<r>> /\ Target(r) = taken + 1
    BY <1>4, <2>1, <2>3, Pushed DEF Remembered, Done
  <2>4. CASE Address(sent[taken + 1]) \in {0, 128} /\ Ignored(Setup[sent[taken + 1].setup])
    <3>1. NoSuchEndpoint(t)
      BY <2>2, <2>4 DEF NoSuchEndpoint, Ignored
    <3>2. NoSuchEndpoint(t)'
      BY <1>5, <3>1 DEF NoSuchEndpoint
    <3>. QED BY <3>2 DEF Remembered
  <2>5. CASE o.ec
    BY <1>3, <2>1, <2>5 DEF Remembered
  <2>. QED BY <2>1, <2>3, <2>4, <2>5 DEF Told
<1>10. CASE HandlerFails
  BY <1>3, <1>10 DEF HandlerFails, Remembered
<1>11. CASE HandToHost
  <2>1. \/ t \in inFlight' \/ Push(<<RetNoData(c.seq, StatusEPIPE)>>)
        \/ IsFor(c, {"Interrupt", "Isochronous"})
    BY <1>1, <1>3, <1>11 DEF HandToHost
  <2>2. CASE t \in inFlight'
    BY <2>2 DEF Remembered
  <2>3. CASE Push(<<RetNoData(c.seq, StatusEPIPE)>>)
    BY <1>6, <2>3, StatusTypes DEF Remembered, Done
  <2>4. CASE IsFor(c, {"Interrupt", "Isochronous"})
    <3>1. kind = "host" /\ c.type = "submit"
      BY <1>1, <1>11 DEF HandToHost
    <3>2. Periodic(t)'
      BY <1>3, <1>5, <2>4, <3>1 DEF Periodic, IsFor
    <3>. QED BY <3>2 DEF Remembered
  <2>. QED BY <2>1, <2>2, <2>3, <2>4
<1>12. CASE SplitRequest
  <2>1. StartSplit(c.seq, c.length) \/ Push(<<RetNoData(c.seq, StatusEPIPE)>>)
    BY <1>1, <1>12 DEF SplitRequest
  <2>2. CASE StartSplit(c.seq, c.length)
    <3>1. t \in DOMAIN bulk'
      BY <1>3, <2>2 DEF StartSplit
    <3>. QED BY <3>1 DEF Remembered
  <2>3. CASE Push(<<RetNoData(c.seq, StatusEPIPE)>>)
    BY <1>6, <2>3, StatusTypes DEF Remembered, Done
  <2>. QED BY <2>1, <2>2, <2>3
<1>. QED BY <1>7, <1>8, <1>9, <1>10, <1>11, <1>12

\* The records of split requests are never dropped, and an error of the receiver stays.
LEMMA BulkStays ==
  ASSUME Places, Stream, Chunks, [Next]_vars
  PROVE  DOMAIN bulk \subseteq DOMAIN bulk'
<1> USE DEF clientVars, rxVars, txVars, channelVars, wireVars, stopVars, deviceVars
<1>1. CASE bulk' = bulk
  BY <1>1
<1>2. CASE SplitRequest
  <2> DEFINE c == CommandOf(toServer)
  <2>1. Read(c) /\ c.type = "submit" /\ (StartSplit(c.seq, c.length) \/ bulk' = bulk)
    BY <1>2 DEF SplitRequest
  <2> HIDE DEF c
  <2>. QED BY <1>1, <2>1, SplitBegins
<1>3. CASE SplitStep \/ SplitThrows
  BY <1>3, LoopStep
<1>4. ASSUME NEW s \in DOMAIN bulk, ChunkCallback(s) PROVE DOMAIN bulk' = DOMAIN bulk
  BY <1>4, CallbackStep
<1>5. CASE ReadOp \/ ReadOpFails \/ RxWrites \/ RxWriteFails \/ Replied \/ StartTransfer
  BY <1>1, <1>5 DEF ReadOp, ReadOpFails, RxWrites, RxWriteFails, RxThrows, Replied,
     StartTransfer
<1>6. CASE RxCheck \/ EpipeWritten \/ Leave \/ CloseSession \/ ReadFails
  BY <1>1, <1>6 DEF RxCheck, EpipeWritten, Leave, CloseSession, ReadFails
<1>7. CASE UnknownEndpoint \/ TakeUnlink \/ Emulate \/ HandToHost
  BY <1>1, <1>7 DEF UnknownEndpoint, TakeUnlink, Emulate, HandToHost
<1>8. CASE HandlerFails \/ HandlerThrows
  BY <1>1, <1>8 DEF HandlerFails, HandlerThrows, RxThrows
<1>9. CASE Sender
  BY <1>1, <1>9 DEF Sender, TxCheck, TxTake, TxClosed, TxWrites, TxWriteFails
<1>10. CASE (\E s \in inFlight : HostReturns(s)) \/ \E s \in DOMAIN bulk : LateChunk(s)
  BY <1>1, <1>10 DEF HostReturns, LateChunk
<1>11. CASE Client \/ ImmediatelyStop \/ PostedClose \/ UNCHANGED vars
  BY <1>1, <1>11
  DEF Client, ClientOp, ClientSend, ClientCloses, ImmediatelyStop, PostedClose, vars
<1>. QED
  BY <1>2, <1>3, <1>4, <1>5, <1>6, <1>7, <1>8, <1>9, <1>10, <1>11
  DEF Next, Receiver, Callbacks

LEMMA ErrorStays ==
  ASSUME Places, [Next]_vars, rxError
  PROVE  rxError' /\ taken' = taken
<1> USE DEF clientVars, rxVars, txVars, channelVars, wireVars, stopVars, deviceVars
<1>1. stop
  BY DEF Places, Ends
<1>2. CASE UnknownEndpoint \/ TakeUnlink \/ Emulate \/ HandToHost \/ SplitRequest
  BY <1>1, <1>2 DEF UnknownEndpoint, TakeUnlink, Emulate, HandToHost, SplitRequest, Read
<1>3. CASE ReadOp \/ ReadOpFails \/ RxWrites \/ RxWriteFails \/ Replied \/ StartTransfer
  BY <1>3 DEF ReadOp, ReadOpFails, RxWrites, RxWriteFails, RxThrows, Replied, StartTransfer
<1>4. CASE RxCheck \/ EpipeWritten \/ SplitStep \/ Leave \/ CloseSession \/ ReadFails
  BY <1>4 DEF RxCheck, EpipeWritten, SplitStep, Leave, CloseSession, ReadFails
<1>5. CASE HandlerEnds
  BY <1>1, <1>5 DEF HandlerEnds, HandlerFails, HandlerThrows, SplitThrows, RxThrows, Read
<1>6. CASE Sender
  BY <1>6 DEF Sender, TxCheck, TxTake, TxClosed, TxWrites, TxWriteFails
<1>7. CASE Callbacks
  BY <1>7 DEF Callbacks, HostReturns, ChunkCallback, LateChunk
<1>8. CASE Client \/ ImmediatelyStop \/ PostedClose \/ UNCHANGED vars
  BY <1>8 DEF Client, ClientOp, ClientSend, ClientCloses, ImmediatelyStop, PostedClose, vars
<1>. QED BY <1>2, <1>3, <1>4, <1>5, <1>6, <1>7, <1>8
    DEF Next, Receiver, HandlerEnds

\* An URB leaves the host stack with its callback, which answers while the session lasts.
LEMMA FlightEnds ==
  ASSUME Places, Stream, Urbs, Unlinks, Queues, [Next]_vars, Lasts, fault' = "none",
         NEW s \in inFlight, s \notin inFlight'
  PROVE  Answered(queue', s)
<1> USE DEF clientVars, rxVars, txVars, channelVars, wireVars, stopVars, deviceVars
<1>1. CASE \E t \in inFlight : HostReturns(t)
  <2>1. HostReturns(s)
    BY <1>1 DEF HostReturns
  <2>2. rx \notin {"left", "closed", "aborted", "op", "replying"}
    BY DEF Lasts, Places, Early
  <2>3. channel = "open"
    BY <2>2, OpenChannel DEF Places, Words, Rx
  <2>4. PICK r \in UrbReply :
          /\ Target(r) = s
          /\ Push(<<r>>) \/ Push(<<RetNoData(s, StatusEPIPE), r>>)
    BY <2>1, <2>2, HostReply
  <2>5. CASE Push(<<r>>)
    BY <2>3, <2>4, <2>5, Pushed
  <2>6. CASE Push(<<RetNoData(s, StatusEPIPE), r>>)
    <3>1. PICK e : e = RetNoData(s, StatusEPIPE)
      OBVIOUS
    <3>2. s \in Nat
      BY DEF Urbs, Places
    <3>3. e \in UrbReply
      BY <3>1, <3>2, SubmitReplies, StatusTypes DEF RetNoData
    <3>4. /\ queue \in Seq(UrbReply) /\ Append(queue, e) \in Seq(UrbReply)
          /\ queue' = queue \o <<e, r>>
      BY <2>3, <2>6, <3>1, <3>3 DEF Push, Queues
    <3>5. queue' = Append(Append(queue, e), r)
      BY <3>3, <3>4
    <3>6. Answers(r, s)
      BY <2>4, OneTarget
    <3> DEFINE q == Append(queue, e)
    <3>7. Answered(Append(q, r), s)
      BY <3>4, <3>6, Appended
    <3>. QED BY <3>5, <3>7
  <2>. QED BY <2>4, <2>5, <2>6
<1>2. CASE ReadOp \/ ReadOpFails \/ RxWrites \/ RxWriteFails \/ Replied \/ StartTransfer
  BY <1>2 DEF ReadOp, ReadOpFails, RxWrites, RxWriteFails, RxThrows, Replied, StartTransfer
<1>3. CASE RxCheck \/ EpipeWritten \/ SplitStep \/ Leave \/ CloseSession \/ ReadFails
  BY <1>3 DEF RxCheck, EpipeWritten, SplitStep, Leave, CloseSession, ReadFails
<1>4. CASE UnknownEndpoint \/ TakeUnlink \/ Emulate \/ HandToHost \/ SplitRequest
  BY <1>4 DEF UnknownEndpoint, TakeUnlink, Emulate, HandToHost, SplitRequest
<1>5. CASE HandlerEnds
  BY <1>5 DEF HandlerEnds, HandlerFails, HandlerThrows, SplitThrows, RxThrows, Read
<1>6. CASE Sender
  BY <1>6 DEF Sender, TxCheck, TxTake, TxClosed, TxWrites, TxWriteFails
<1>7. CASE \E t \in DOMAIN bulk : ChunkCallback(t) \/ LateChunk(t)
  BY <1>7 DEF ChunkCallback, LateChunk
<1>8. CASE Client \/ ImmediatelyStop \/ PostedClose \/ UNCHANGED vars
  BY <1>8 DEF Client, ClientOp, ClientSend, ClientCloses, ImmediatelyStop, PostedClose, vars
<1>. QED BY <1>1, <1>2, <1>3, <1>4, <1>5, <1>6, <1>7, <1>8
    DEF Next, Receiver, HandlerEnds, Callbacks

LEMMA NoneForgottenStep ==
  Places /\ Stream /\ Urbs /\ Unlinks /\ Chunks /\ Queues /\ NoneForgotten /\ [Next]_vars
  => NoneForgotten'
<1>1. (NoneForgotten <=> (fault = "none" /\ Lasts => \A s \in 1 .. taken : Remembered(s)))'
  BY NoneForgottenIs, PTL
<1> SUFFICES ASSUME Places, Stream, Urbs, Unlinks, Chunks, Queues, NoneForgotten, [Next]_vars,
                    fault' = "none", Lasts', NEW s \in 1 .. taken'
             PROVE  Remembered(s)'
  BY <1>1
<1>2. Lasts /\ fault = "none" /\ \A t \in 1 .. taken : Remembered(t)
  BY Lasted, NoneForgottenIs DEF Next, vars
<1>3. CASE s \in 1 .. taken
  <2>1. Remembered(s) /\ sent'[s] = sent[s] /\ kind' = kind
    BY <1>2, <1>3, Onwards
  <2>2. CASE Done(s)
    BY <2>2, DoneStays DEF Remembered
  <2>3. CASE s \in inFlight
    BY <1>2, <2>3, FlightEnds DEF Remembered, Done
  <2>4. CASE s \in DOMAIN bulk
    BY <2>4, BulkStays DEF Remembered
  <2>5. CASE rxError /\ s = taken
    BY <2>1, <2>5, ErrorStays DEF Remembered
  <2>6. CASE Periodic(s) \/ NoSuchEndpoint(s)
    BY <1>3, <2>6, Onwards DEF Remembered
  <2>7. CASE sent[s].type # "submit"
    BY <2>1, <2>7 DEF Remembered
  <2>. QED BY <2>1, <2>2, <2>3, <2>4, <2>5, <2>6, <2>7 DEF Remembered
<1>4. CASE s \notin 1 .. taken
  <2>1. s = taken + 1 /\ taken' # taken
    BY <1>4, Onwards DEF Places
  <2>2. \/ UnknownEndpoint \/ TakeUnlink \/ Emulate \/ HandToHost \/ SplitRequest
        \/ HandlerFails
    <3>1. ~HandlerThrows
      BY DEF Lasts, HandlerThrows, RxThrows
    <3>. QED BY <2>1, <3>1, TakingStep
  <2>. QED BY <1>2, <2>1, <2>2, TakenRemembered
<1>. QED BY <1>3, <1>4

-----------------------------------------------------------------------------
(* The inductive invariant.                                                *)

Inv ==
  /\ Places /\ Stream
  /\ Urbs /\ Unlinks /\ Pointers /\ Queues /\ Chunks /\ Flags
  /\ Owned /\ AllFit /\ AllLegible
  /\ Causes /\ FaultCauses /\ Forgets /\ NoneForgotten

LEMMA InvInit == Init => Inv
<1> SUFFICES ASSUME Init PROVE Inv
  OBVIOUS
<1>1. /\ kind \in {"host", "emulated"} /\ rx = "op" /\ posted = "no" /\ taken = 0
      /\ writes = <<>> /\ queue = <<>> /\ bulk = <<>>
      /\ unlinks = {} /\ inFlight = {} /\ known = {} /\ fault = "none"
  BY DEF Init
<1>2. Places /\ Stream
  BY PlacesInit, StreamInit
<1>3. Urbs /\ Unlinks /\ Pointers /\ Queues
  BY <1>1 DEF Urbs, Unlinks, Pointers, Queues
<1>4. Chunks
  BY <1>1 DEF Chunks
<1>5. Flags
  BY Zenon DEF Init, Flags
<1>6. \A s : ~Answered(writes, s) /\ ~Answered(queue, s)
  BY <1>1 DEF Answered
<1>7. Owned
  BY <1>1, <1>6 DEF Owned, Ordered, Elements, Done
<1>8. AllFit /\ AllLegible
  BY <1>1 DEF AllFit, AllLegible, Replies, Elements
<1>9. Causes
  <2>1. ~mixed
    BY DEF Init
  <2>. QED BY <1>1, <2>1 DEF Causes, OneWriter
<1>10. FaultCauses
  BY <1>1, <1>9 DEF FaultCauses, Causes
<1>11. Forgets /\ NoneForgotten
  BY <1>1 DEF Forgets, NoneForgotten
<1>. QED BY <1>2, <1>3, <1>4, <1>5, <1>7, <1>8, <1>9, <1>10, <1>11 DEF Inv

LEMMA PlacesStep == Places /\ [Next]_vars => Places'
<1> SUFFICES ASSUME Places, [Next]_vars PROVE Places'
  OBVIOUS
<1>1. Words' /\ Early' /\ Ends'
  BY WordsStep, EarlyStep, EndsStep DEF Places
<1>2. taken' = taken \/ taken' = taken + 1
  BY TakenStep DEF Read
<1>. QED BY <1>1, <1>2 DEF Places

LEMMA InvStep == Inv /\ [Next]_vars => Inv'
<1> SUFFICES ASSUME Inv, [Next]_vars PROVE Inv'
  OBVIOUS
<1>1. Places' /\ Stream'
  BY PlacesStep, StreamStep DEF Inv
<1>2. Urbs' /\ Unlinks' /\ Pointers' /\ Queues' /\ Chunks' /\ Flags'
  BY UrbsStep, UnlinksStep, PointersStep, QueuesStep, ChunksStep, FlagsStep DEF Inv
<1>3. Owned' /\ AllFit' /\ AllLegible'
  BY OwnedStep, AllFitStep, AllLegibleStep DEF Inv
<1>4. Causes' /\ FaultCauses' /\ Forgets' /\ NoneForgotten'
  BY CausesStep, FaultCausesStep, ForgetsStep, NoneForgottenStep DEF Inv
<1>. QED BY <1>1, <1>2, <1>3, <1>4 DEF Inv

LEMMA Invariance == Spec => []Inv
BY InvInit, InvStep, PTL DEF Spec

-----------------------------------------------------------------------------
(* The theorems.                                                           *)

\* The variables of a session have their types: no coroutine gets into a place it does not
\* know, unlink_map_ and the host stack speak of commands that were sent, and the chunks of
\* a split request are counted exactly.
THEOREM TypeCorrect == Spec => []TypeOK
<1>1. Inv => TypeOK
  <2> SUFFICES ASSUME Inv PROVE TypeOK
    OBVIOUS
  <2>1. Words /\ taken \in Nat /\ Ends
    BY DEF Inv, Places
  <2>2. Len(sent) \in Nat /\ taken <= Len(sent)
    BY DEF Inv, Stream, SentWell
  <2>3. taken \in 0 .. Len(sent) /\ 1 .. taken \subseteq Seqnums
    BY <2>1, <2>2 DEF Seqnums
  <2>4. unlinks \subseteq Nat \X Seqnums /\ inFlight \subseteq Seqnums /\ known \subseteq Handled
    BY <2>3 DEF Inv, Unlinks, Urbs, Pointers
  <2>5. BulkType(Seqnums)
    <3> SUFFICES ASSUME NEW s \in DOMAIN bulk
                 PROVE  /\ s \in Seqnums /\ bulk[s].next \in 0 .. bulk[s].total
                        /\ bulk[s].completed + Cardinality(bulk[s].flying) = bulk[s].next
      BY DEF BulkType
    <3>1. s \in 1 .. taken /\ Counted(bulk[s])
      BY DEF Inv, Chunks
    <3>2. bulk[s].next \in Nat /\ bulk[s].total \in Nat /\ bulk[s].next <= bulk[s].total
      BY <3>1 DEF Counted, Chunk
    <3>. QED BY <2>3, <3>1, <3>2 DEF Counted
  <2>6. /\ rxError \in BOOLEAN /\ txError \in BOOLEAN
        /\ socket \in BOOLEAN /\ stop \in BOOLEAN /\ mixed \in BOOLEAN
    BY Zenon DEF Inv, Flags
  <2>7. fault \in {"none", "freed_session", "freed_args", "freed_counters", "out_of_range",
                   "null_handler"}
    BY DEF Inv, Flags
  <2>8. /\ kind \in {"host", "emulated"} /\ client \in {"op", "waits", "closed"}
        /\ op \in {"none", "devlist", "import", "missing", "used", "unknown"}
        /\ rx \in {"op", "replying", "checking", "reading", "splitting", "epipe", "leaving",
                   "left", "closed", "aborted"}
        /\ tx \in {"none", "checking", "waiting", "writing", "over"}
        /\ posted \in {"no", "posted", "done"} /\ channel \in {"none", "open", "closed"}
    BY <2>1 DEF Words, Rx, Serving
  <2>9. (rxOut # <<>> => rx \in Writing) /\ (txOut # <<>> => tx = "writing")
    BY <2>1 DEF Ends
  <2>. QED BY <2>3, <2>4, <2>5, <2>6, <2>7, <2>8, <2>9, Zenon DEF TypeOK
<1>. QED BY <1>1, Invariance, PTL

\* Of an URB the client gets one answer, whether it comes from the receiver, the emulated
\* device, the callback of a transfer or the callback of the last chunk, and a CMD_UNLINK
\* that races the completion does not add a second one.  Only the callback that fails to
\* submit a cancelled URB again gives two.
THEOREM OneOutcomeCorrect == Spec => []OneOutcome
<1>1. Inv => OneOutcome
  <2> DEFINE all == writes \o queue
             n   == Len(writes)
             Allowed(i, j, s) == /\ Cleared(s) /\ all[i] = RetNoData(s, StatusEPIPE)
                                 /\ all[j].type = "ret_submit" /\ all[j].status = StatusOK
  <2> SUFFICES ASSUME Inv, NEW s \in Seqnums
               PROVE  /\ \A i, j \in DOMAIN all :
                           i < j /\ Answers(all[i], s) /\ Answers(all[j], s) => Allowed(i, j, s)
                      /\ AnswersTo(s) # {} => s =< taken /\ s \notin inFlight
    BY DEF OneOutcome
  <2>1. /\ Ordered(writes, Cleanup) /\ Ordered(queue, Cleanup)
        /\ \A a \in Elements(writes), b \in Elements(queue) : InTurn(a, b, Cleanup)
        /\ Done(s) => s \in 1 .. taken /\ s \notin inFlight
    BY DEF Inv, Owned, Owed
  <2>2. AnswersTo(s) # {} => s =< taken /\ s \notin inFlight
    <3>1. AnswersTo(s) # {} => Done(s)
      BY AnsweredReply DEF AnswersTo
    <3>. QED BY <2>1, <3>1 DEF Inv, Places
  <2>3. writes \in Seq(Reply) /\ queue \in Seq(Reply)
    BY DEF Inv, Queues, Reply
  <2>4. /\ n \in Nat /\ DOMAIN writes = 1 .. n /\ DOMAIN all \subseteq Nat
        /\ DOMAIN queue \subseteq Nat
        /\ \A i \in DOMAIN all : i <= n => i \in 1 .. n /\ all[i] = writes[i]
        /\ \A i \in DOMAIN all : ~(i <= n) => i - n \in DOMAIN queue /\ all[i] = queue[i - n]
    BY <2>3
  <2>5. \A i, j : Answers(all[i], s) /\ Answers(all[j], s) /\ InTurn(all[i], all[j], Cleanup)
                    => Allowed(i, j, s)
    BY DEF InTurn, Cleanup
  <2> HIDE DEF all, n, Allowed
  <2>6. ASSUME NEW i \in DOMAIN all, NEW j \in DOMAIN all, i < j
        PROVE  InTurn(all[i], all[j], Cleanup)
    <3>1. i \in Nat /\ j \in Nat
      BY <2>4
    <3>2. CASE j <= n
      <4>1. i \in 1 .. n /\ all[i] = writes[i] /\ j \in 1 .. n /\ all[j] = writes[j]
        BY <2>4, <2>6, <3>1, <3>2
      <4>. QED BY <2>1, <2>4, <2>6, <4>1 DEF Ordered
    <3>3. CASE ~(i <= n)
      <4>1. ~(j <= n) /\ i - n < j - n
        BY <2>4, <2>6, <3>1, <3>3
      <4>2. /\ i - n \in DOMAIN queue /\ all[i] = queue[i - n]
            /\ j - n \in DOMAIN queue /\ all[j] = queue[j - n]
        BY <2>4, <3>3, <4>1
      <4>. QED BY <2>1, <4>1, <4>2 DEF Ordered
    <3>4. CASE i <= n /\ ~(j <= n)
      <4>1. all[i] \in Elements(writes) /\ all[j] \in Elements(queue)
        BY <2>4, <3>4 DEF Elements
      <4>. QED BY <2>1, <4>1
    <3>. QED BY <3>2, <3>3, <3>4
  <2>. QED BY <2>2, <2>5, <2>6 DEF all, Allowed
<1>. QED BY <1>1, Invariance, PTL

\* While a session lasts, every URB it took has an answer or somebody who will answer it.
THEOREM NoneForgottenCorrect == Spec => []NoneForgotten
BY Invariance, PTL DEF Inv

\* A reply does not carry more than the client has room for, with the two exceptions that
\* the code makes.
THEOREM ReplyFitsCorrect == Spec => []ReplyFits
<1>1. Inv => ReplyFits
  BY DEF Inv, AllFit, Fits, ReplyFits
<1>. QED BY <1>1, Invariance, PTL

\* What it takes that the program leaves defined behaviour, or that its receiver and its
\* sender write to the socket at the same time.
THEOREM FaultCausesCorrect == Spec => []FaultCauses
BY Invariance, PTL DEF Inv

\* Handlers of interfaces forget a session that is over, the first of them in any case.
THEOREM HandlersForgetCorrect == Spec => []HandlersForget
<1>1. Inv => HandlersForget
  BY ForgetsSuffices DEF Inv
<1>. QED BY <1>1, Invariance, PTL

\* Each read of the receiver gets the next command of the client, whole and as it was sent.
THEOREM InStepCorrect == Spec => InStep
<1>1. Inv /\ [Next]_vars =>
        (taken' # taken =>
           taken' = taken + 1 /\ taken < Len(sent) /\ CommandOf(toServer) = sent[taken'])
  <2> SUFFICES ASSUME Places, Stream, [Next]_vars, taken' # taken
               PROVE  /\ taken' = taken + 1 /\ taken < Len(sent)
                      /\ CommandOf(toServer) = sent[taken']
    BY DEF Inv
  <2>1. Read(CommandOf(toServer))
    BY TakenStep
  <2>. QED BY <2>1, TakesNext
<1>. QED BY <1>1, Invariance, PTL DEF Spec, InStep
=============================================================================
