---------------------------- MODULE DBWireProofs ----------------------------
(***************************************************************************)
(* Proofs about DBWire, for every set of drivers and any number of         *)
(* requests.  While nothing has put the connection out of step, what is on *)
(* the wire is the last request or the reply to it, or nothing.            *)
(***************************************************************************)
EXTENDS DBWire, TLAPS, SequenceTheorems

Request == [id |-> sent, op |-> op]
Kinds == {"ok", "error"}
Quiet == toServer = <<>> /\ toClient = <<>>
Pending == toServer = <<Request>> /\ toClient = <<>>
Answered(kind) == toServer = <<>> /\ toClient = Reply(Request, kind)

\* The wire of a connection in step, by what its caller is doing.
WireInStep ==
  IF phase = "reading" THEN Quiet \/ Pending \/ \E kind \in Kinds : Answered(kind)
  ELSE Quiet

\* The session of one: a transaction belongs to the caller, or the reply on the
\* wire says that it begins, or nothing more can be sent.
SessionInStep ==
  serverTx => \/ inTx /\ (op \in {"commit", "rollback"} => \A kind \in Kinds : ~Answered(kind))
              \/ phase # "reading" /\ writeDead
              \/ phase = "reading" /\ op = "begin" /\ Answered("ok")

AnswerInStep == answer.kind \in {"ok", "dberror"} => answer.to = sent

Flags ==
  /\ inTx \in BOOLEAN /\ overdue \in BOOLEAN /\ writeDead \in BOOLEAN
  /\ cut \in BOOLEAN /\ serverTx \in BOOLEAN
Control ==
  /\ driver \in {"postgres", "mysql", "redis"}
  /\ Flags
  /\ phase \in {"closed", "parked", "held", "reading", "prepared"}
  /\ history \subseteq {"send", "read", "txread", "count", "size"}
  /\ phase = "reading" => op \in Ops /\ ~writeDead /\ answer = NoAnswer
  /\ phase = "reading" /\ op = "begin" => ~inTx
  /\ phase \in {"closed", "parked"} => ~inTx
  /\ driver = "redis" => ~inTx

IInv ==
  /\ Control
  /\ InStep => AnswerInStep
  /\ InStep /\ phase # "closed" => WireInStep /\ SessionInStep

-----------------------------------------------------------------------------
(* Replies                                                                 *)

LEMMA PacketsOneOrTwo == \A o, kind : Packets(o, kind) \in {1, 2}
  BY DEF Packets

\* A reply is a sequence whose first packet says what it came to and whose
\* length is known from that packet; nothing of it is left after the whole.
LEMMA ReplyShape ==
  ASSUME NEW r, NEW kind
  PROVE  /\ Reply(r, kind) # <<>>
         /\ Len(Reply(r, kind)) = Packets(r.op, kind)
         /\ Head(Reply(r, kind)).id = r.id
         /\ Head(Reply(r, kind)).kind = kind
         /\ SubSeq(Reply(r, kind), 1 + Packets(r.op, kind), Len(Reply(r, kind))) = <<>>
         /\ <<>> \o Reply(r, kind) = Reply(r, kind)
<1> DEFINE n == Packets(r.op, kind)
           e(i) == [id |-> r.id, kind |-> IF i = 1 THEN kind ELSE "rest"]
           s == [i \in 1..n |-> e(i)]
<1>1. n \in {1, 2} /\ Reply(r, kind) = s
  BY PacketsOneOrTwo DEF Reply
<1>2. s \in Seq({e(1), e(2)}) /\ Len(s) = n
  <2> HIDE DEF n, e
  <2>1. \A i \in 1..n : e(i) \in {e(1), e(2)}
    BY <1>1
  <2>2. QED
    BY <1>1, <2>1, IsASeq
<1>3. s[1] = e(1) /\ e(1).id = r.id /\ e(1).kind = kind
  BY <1>1
<1> HIDE DEF n, e, s
<1>4. s # <<>> /\ Head(s) = s[1]
  BY <1>1, <1>2
<1>5. SubSeq(s, 1 + n, n) = <<>>
  BY <1>1, <1>2
<1>6. <<>> \o s = s
  BY <1>2
<1>7. QED
  BY <1>1, <1>2, <1>3, <1>4, <1>5, <1>6 DEF n

-----------------------------------------------------------------------------
(* What the steps have in common                                           *)

\* A connection that is in step after a step of its driver was so before.
LEMMA OutOfStepStays ==
  ASSUME driver' = driver, history \subseteq history', InStep'
  PROVE  InStep
  BY DEF InStep

\* In step, what there is to read is the whole reply to the last request.
LEMMA AnswerRead ==
  ASSUME phase = "reading", WireInStep, toClient # <<>>
  PROVE  LET kind == Head(toClient).kind IN
         /\ kind \in Kinds
         /\ Answered(kind)
         /\ Head(toClient).id = sent
         /\ SubSeq(toClient, 1 + Packets(op, kind), Len(toClient)) = <<>>
<1>1. PICK kind \in Kinds : Answered(kind)
  BY DEF WireInStep, Quiet, Pending
<1>2. /\ Request.id = sent /\ Request.op = op
      /\ toClient = Reply(Request, kind)
  BY <1>1 DEF Request, Answered
<1> HIDE DEF Request
<1>3. /\ Head(toClient).kind = kind
      /\ Head(toClient).id = Request.id
      /\ SubSeq(toClient, 1 + Packets(Request.op, kind), Len(toClient)) = <<>>
  BY <1>2, ReplyShape
<1>4. QED
  BY <1>1, <1>2, <1>3

\* While requests and replies are left alone, so is their reading.
LEMMA WireKept ==
  ASSUME UNCHANGED <<driver, op, sent, toServer, toClient>>
  PROVE  /\ Quiet' = Quiet /\ Pending' = Pending
         /\ \A kind : Answered(kind)' = Answered(kind)
  BY DEF Quiet, Pending, Answered, Request, Reply, Packets

\* Nothing on the wire is no reply, and a request is none either.
LEMMA NotAnswered ==
  /\ toClient = <<>> => \A kind : ~Answered(kind)
  /\ toClient' = <<>> => \A kind : ~Answered(kind)'
<1>1. toClient = <<>> => \A kind : ~Answered(kind)
  BY ReplyShape DEF Answered
<1>2. \A r, kind : Reply(r, kind)' # <<>>
  <2>1. \A r, kind : Packets(r.op, kind)' \in {1, 2}
    BY DEF Packets
  <2>2. TAKE r, kind
  <2>3. DOMAIN (Reply(r, kind)') = 1..(Packets(r.op, kind)')
    BY DEF Reply
  <2>4. DOMAIN <<>> = {} /\ 1 \in 1..(Packets(r.op, kind)')
    BY <2>1
  <2>5. QED
    BY <2>3, <2>4
<1>3. QED
  BY <1>1, <1>2 DEF Answered

\* An operation that returns leaves the connection to its transaction, in the
\* pool or closed.
LEMMA ReturnsControl ==
  ASSUME Control, UNCHANGED driver,
         overdue' \in BOOLEAN, writeDead' \in BOOLEAN, cut' \in BOOLEAN, serverTx' \in BOOLEAN,
         NEW o \in Ops, NEW kind, NEW to, NEW wrong,
         wrong \subseteq {"send", "read", "txread", "count", "size"},
         OpReturns(o, kind, to, wrong)
  PROVE  Control' /\ phase' # "reading"
<1>1. inTx \in BOOLEAN /\ (inTx' \in BOOLEAN)
  BY Zenon DEF Control, Flags, OpReturns, HasTx
<1>2. /\ phase' \in {"closed", "parked", "held"}
      /\ history' \subseteq {"send", "read", "txread", "count", "size"}
      /\ phase' \in {"closed", "parked"} => ~inTx'
  BY DEF OpReturns, Control
<1>3. driver = "redis" => ~inTx'
  BY DEF Control, OpReturns, HasTx, Ops, TxOps
<1>4. QED
  BY <1>1, <1>2, <1>3 DEF Control, Flags

\* In step, an operation that returns leaves nothing on the wire of the
\* connection, and its answer is its own.
Settled ==
  /\ InStep' => AnswerInStep'
  /\ InStep' /\ phase' # "closed" => Quiet' /\ SessionInStep'

LEMMA SettledInv == ASSUME Control', phase' # "reading", Settled PROVE IInv'
  BY DEF IInv, Settled, WireInStep

-----------------------------------------------------------------------------
(* Each step                                                               *)

LEMMA InitInv == ASSUME Init PROVE IInv
<1>1. Control
  BY DriversAssumption DEF Init, Control, Flags
<1>2. QED
  BY <1>1 DEF Init, IInv, AnswerInStep, NoAnswer

LEMMA DialStep == ASSUME IInv, Dial PROVE IInv'
<1>1. Control' /\ phase' # "reading"
  BY DEF IInv, Dial, Control, Flags
<1>2. Settled
  BY DEF Dial, Settled, AnswerInStep, NoAnswer, Quiet, SessionInStep
<1>3. QED
  BY <1>1, <1>2, SettledInv

LEMMA AcquireStep == ASSUME IInv, Acquire PROVE IInv'
<1>1. Control' /\ phase' # "reading"
  BY DEF IInv, Acquire, Control, Flags, wire
<1>2. InStep' => InStep
  BY OutOfStepStays DEF Acquire
<1>3. Settled
  BY <1>2, WireKept DEF Acquire, IInv, Settled, AnswerInStep, WireInStep, SessionInStep, wire
<1>4. QED
  BY <1>1, <1>3, SettledInv

LEMMA SendStep == ASSUME IInv, NEW o, Send(o) PROVE IInv'
<1>1. Control'
  BY DEF IInv, Send, CanStart, Control, Flags, Ops, NoAnswer
<1>2. AnswerInStep'
  BY DEF Send, AnswerInStep, NoAnswer
<1>3. ASSUME InStep' PROVE WireInStep' /\ SessionInStep'
  <2>1. Quiet /\ SessionInStep /\ phase' = "reading" /\ phase # "reading"
    BY <1>3, OutOfStepStays DEF IInv, Send, CanStart, WireInStep
  <2>2. Quiet' \/ Pending'
    BY <2>1 DEF Send, Quiet, Pending, Request
  <2>3. toClient' = <<>> /\ serverTx' = serverTx /\ inTx' = inTx
    BY <2>1 DEF Send, Quiet
  <2>4. serverTx => inTx
    BY <2>1 DEF SessionInStep, Send
  <2>5. QED
    BY <2>1, <2>2, <2>3, <2>4, NotAnswered DEF WireInStep, SessionInStep
<1>4. QED
  BY <1>1, <1>2, <1>3 DEF IInv

LEMMA SendFailsStep == ASSUME IInv, NEW o, SendFails(o) PROVE IInv'
<1>1. Control' /\ phase' # "reading"
  <2>1. o \in Ops /\ OpReturns(o, "ioerror", 0, {"send"})
    BY DEF SendFails, CanStart
  <2>2. overdue' \in BOOLEAN /\ writeDead' \in BOOLEAN /\ cut' \in BOOLEAN /\ serverTx' \in BOOLEAN
    BY DEF IInv, Control, Flags, SendFails, LateAt
  <2>3. Control /\ UNCHANGED driver
    BY DEF IInv, SendFails
  <2>4. QED
    BY <2>1, <2>2, <2>3, ReturnsControl
<1>2. AnswerInStep'
  BY DEF SendFails, OpReturns, AnswerInStep
<1>3. ASSUME InStep' PROVE Quiet' /\ SessionInStep'
  <2>1. Quiet
    BY <1>3, OutOfStepStays DEF IInv, SendFails, OpReturns, CanStart, WireInStep
  <2>2. writeDead' /\ Quiet'
    BY <2>1 DEF SendFails, Quiet
  <2>3. QED
    BY <1>1, <2>2 DEF SessionInStep
<1>4. QED
  BY <1>1, <1>2, <1>3, SettledInv DEF Settled

LEMMA ServeStep == ASSUME IInv, NEW kind \in Kinds, Serve(kind) PROVE IInv'
<1>1. Control'
  <2>1. serverTx' \in BOOLEAN
    BY DEF IInv, Control, Flags, Serve
  <2>2. QED
    BY <2>1 DEF IInv, Control, Flags, Serve, Ops, NoAnswer
<1>2. InStep' = InStep /\ AnswerInStep' = AnswerInStep
  BY DEF Serve, InStep, AnswerInStep
<1>3. ASSUME InStep, phase # "closed" PROVE WireInStep' /\ SessionInStep'
  <2>1. phase = "reading" /\ Pending /\ SessionInStep
    BY <1>3 DEF IInv, Serve, WireInStep, Quiet, Answered
  <2>2. Head(toServer) = Request /\ toServer' = <<>> /\ toClient' = Reply(Request, kind)
    BY <2>1, ReplyShape DEF Pending, Serve
  <2>3. Reply(Request, kind)' = Reply(Request, kind)
    BY DEF Serve, Reply, Request, Packets
  <2>4. Answered(kind)'
    BY <2>2, <2>3 DEF Answered
  <2>5. WireInStep'
    BY <2>1, <2>4 DEF WireInStep, Serve
  <2>6. Request.op = op
    BY DEF Request
  <2>7. serverTx => inTx
    BY <2>1, NotAnswered DEF SessionInStep, Pending
  <2>8. SessionInStep'
    <3>1. CASE op = "begin"
      BY <2>1, <2>2, <2>4, <2>6, <3>1 DEF Serve, SessionInStep
    <3>2. CASE op # "begin"
      BY <2>2, <2>6, <2>7, <3>2 DEF Serve, SessionInStep
    <3>3. QED
      BY <3>1, <3>2
  <2>9. QED
    BY <2>5, <2>8
<1>4. QED
  BY <1>1, <1>2, <1>3 DEF IInv, Serve

LEMMA DeadlinePassesStep == ASSUME IInv, DeadlinePasses PROVE IInv'
<1>1. Control'
  BY DEF IInv, Control, Flags, DeadlinePasses, wire, Ops, NoAnswer
<1>2. InStep' = InStep /\ AnswerInStep' = AnswerInStep
  BY DEF DeadlinePasses, InStep, AnswerInStep
<1>3. WireInStep' = WireInStep /\ SessionInStep' = SessionInStep
  BY WireKept DEF DeadlinePasses, WireInStep, SessionInStep, wire
<1>4. QED
  BY <1>1, <1>2, <1>3 DEF IInv, DeadlinePasses

LEMMA LinkCutStep == ASSUME IInv, LinkCut PROVE IInv'
<1>1. Control'
  BY DEF IInv, Control, Flags, LinkCut, Ops, NoAnswer
<1>2. InStep' = InStep /\ AnswerInStep' = AnswerInStep
  BY DEF LinkCut, InStep, AnswerInStep
<1>3. SessionInStep'
  BY DEF LinkCut, SessionInStep
<1>4. ASSUME WireInStep PROVE WireInStep'
  <2>1. Quiet \/ Pending => Quiet'
    BY DEF Quiet, Pending, LinkCut
  <2>2. \A kind : Answered(kind) => Answered(kind)'
    BY DEF Answered, Request, Reply, Packets, LinkCut
  <2>3. QED
    BY <1>4, <2>1, <2>2 DEF WireInStep, LinkCut
<1>5. QED
  BY <1>1, <1>2, <1>3, <1>4 DEF IInv, LinkCut

\* What StatementCloses does to the writer.
LEMMA StatementClosesType ==
  ASSUME Control, StatementCloses \/ UNCHANGED writeDead
  PROVE  writeDead' \in BOOLEAN
  BY DEF StatementCloses, Control, Flags

LEMMA ReceiveStep == ASSUME IInv, Receive PROVE IInv'
<1> DEFINE packet == Head(toClient)
<1>1. /\ op \in Ops /\ Control /\ UNCHANGED driver
      /\ OpReturns(op, Result(packet), packet.id, {})
      /\ phase = "reading" /\ toClient # <<>>
  BY DEF IInv, Control, Receive, ReplyIn
<1>2. Control' /\ phase' # "reading"
  <2>1. overdue' \in BOOLEAN /\ writeDead' \in BOOLEAN /\ cut' \in BOOLEAN /\ serverTx' \in BOOLEAN
    BY <1>1, StatementClosesType DEF Control, Flags, Receive
  <2>2. QED
    BY <1>1, <2>1, ReturnsControl
<1>3. ASSUME InStep' PROVE AnswerInStep' /\ Quiet' /\ SessionInStep'
  <2>1. WireInStep /\ SessionInStep
    BY <1>1, <1>3, OutOfStepStays DEF IInv, OpReturns
  <2>2. /\ packet.kind \in Kinds /\ Answered(packet.kind)
        /\ packet.id = sent /\ toClient' = <<>>
    BY <1>1, <2>1, AnswerRead DEF Receive
  <2>3. Quiet'
    BY <2>2 DEF Answered, Quiet, Receive
  <2>4. AnswerInStep'
    BY <1>1, <2>2 DEF OpReturns, AnswerInStep, Receive
  <2>5. ASSUME serverTx PROVE inTx'
    <3>1. CASE op = "begin"
      <4>1. Answered("ok")
        BY <1>1, <2>1, <2>5, <3>1 DEF SessionInStep, IInv, Control
      <4>2. packet.kind = "ok"
        BY <4>1, ReplyShape DEF Answered
      <4>3. QED
        BY <1>1, <3>1, <4>2 DEF OpReturns, HasTx, Result
    <3>2. CASE op # "begin"
      BY <1>1, <2>1, <2>2, <2>5, <3>2 DEF SessionInStep, OpReturns, HasTx
    <3>3. QED
      BY <3>1, <3>2
  <2>6. SessionInStep'
    BY <2>3, <2>5, NotAnswered DEF SessionInStep, Quiet, Receive
  <2>7. QED
    BY <2>3, <2>4, <2>6
<1>4. QED
  BY <1>2, <1>3, SettledInv DEF Settled

LEMMA ReceivePreparedStep == ASSUME IInv, ReceivePrepared PROVE IInv'
<1>1. Control' /\ phase' # "reading"
  BY DEF IInv, Control, Flags, ReceivePrepared
<1>2. InStep' = InStep /\ AnswerInStep' = AnswerInStep
  BY DEF ReceivePrepared, InStep, AnswerInStep
<1>3. ASSUME InStep PROVE Quiet' /\ SessionInStep'
  <2>1. WireInStep /\ SessionInStep /\ phase = "reading" /\ toClient # <<>> /\ op = "prepare"
    BY <1>3 DEF IInv, ReceivePrepared, ReplyIn
  <2>2. Packets(op, Head(toClient).kind) = 2
    BY <2>1 DEF ReceivePrepared, Packets
  <2>3. Quiet'
    BY <2>1, <2>2, AnswerRead DEF ReceivePrepared, Quiet, Answered
  <2>4. QED
    BY <2>1, <2>3 DEF ReceivePrepared, SessionInStep
<1>4. QED
  BY <1>1, <1>2, <1>3, SettledInv DEF Settled, IInv

LEMMA ArgumentCountDiffersStep == ASSUME IInv, ArgumentCountDiffers PROVE IInv'
<1>1. /\ op \in Ops /\ op = "prepare" /\ Control /\ UNCHANGED driver
      /\ OpReturns(op, "dberror", Head(toClient).id, {"count"})
  BY DEF IInv, Control, ArgumentCountDiffers
<1>2. Control' /\ phase' # "reading"
  <2>1. overdue' \in BOOLEAN /\ writeDead' \in BOOLEAN /\ cut' \in BOOLEAN /\ serverTx' \in BOOLEAN
    BY <1>1, StatementClosesType DEF Control, Flags, ArgumentCountDiffers
  <2>2. QED
    BY <1>1, <2>1, ReturnsControl
<1>3. driver = "mysql"
  BY <1>1 DEF Control, Ops, TxOps
<1>4. ~InStep'
  BY <1>1, <1>3 DEF OpReturns, InStep
<1>5. QED
  BY <1>2, <1>4 DEF IInv

LEMMA MessageTooLongStep == ASSUME IInv, MessageTooLong PROVE IInv'
<1>1. /\ op \in Ops /\ driver = "postgres" /\ Control /\ UNCHANGED driver
      /\ OpReturns(op, "dberror", Head(toClient).id, {"size"})
  BY DEF IInv, Control, MessageTooLong
<1>2. Control' /\ phase' # "reading"
  <2>1. overdue' \in BOOLEAN /\ writeDead' \in BOOLEAN /\ cut' \in BOOLEAN /\ serverTx' \in BOOLEAN
    BY <1>1 DEF Control, Flags, MessageTooLong
  <2>2. QED
    BY <1>1, <2>1, ReturnsControl
<1>3. ~InStep'
  BY <1>1 DEF OpReturns, InStep
<1>4. QED
  BY <1>2, <1>3 DEF IInv

LEMMA ReadFailsStep == ASSUME IInv, ReadFails PROVE IInv'
<1> DEFINE kind == IF driver = "redis" THEN "ioerror" ELSE "lost"
           wrong == IF inTx THEN {"txread"} ELSE {"read"}
<1>1. /\ op \in Ops /\ Control /\ UNCHANGED driver
      /\ OpReturns(op, kind, 0, wrong)
      /\ wrong \subseteq {"send", "read", "txread", "count", "size"}
  BY DEF IInv, Control, ReadFails
<1>2. Control' /\ phase' # "reading"
  <2>1. overdue' \in BOOLEAN /\ writeDead' \in BOOLEAN /\ cut' \in BOOLEAN /\ serverTx' \in BOOLEAN
    BY <1>1, StatementClosesType DEF Control, Flags, ReadFails
  <2>2. QED
    BY <1>1, <2>1, ReturnsControl
<1>3. AnswerInStep'
  BY <1>1 DEF OpReturns, AnswerInStep
<1>4. ASSUME InStep' PROVE phase' = "closed"
  <2>1. driver # "redis" /\ ~inTx
    BY <1>1, <1>4 DEF OpReturns, InStep, Control
  <2>2. ~HasTx(op, kind)
    BY <2>1 DEF HasTx
  <2>3. QED
    BY <1>1, <2>1, <2>2 DEF OpReturns
<1>5. QED
  BY <1>2, <1>3, <1>4 DEF IInv

-----------------------------------------------------------------------------
(* The theorems                                                            *)

LEMMA Stutter == ASSUME IInv, UNCHANGED vars PROVE IInv'
<1>1. Control'
  BY DEF IInv, Control, Flags, vars, wire, Ops, NoAnswer
<1>2. InStep' = InStep /\ AnswerInStep' = AnswerInStep
  BY DEF vars, InStep, AnswerInStep
<1>3. WireInStep' = WireInStep /\ SessionInStep' = SessionInStep
  BY WireKept DEF vars, wire, WireInStep, SessionInStep
<1>4. QED
  BY <1>1, <1>2, <1>3 DEF IInv, vars

LEMMA IInvStep == IInv /\ [Next]_vars => IInv'
<1> SUFFICES ASSUME IInv, [Next]_vars PROVE IInv'
  OBVIOUS
<1>1. CASE Dial BY <1>1, DialStep
<1>2. CASE Acquire BY <1>2, AcquireStep
<1>3. CASE \E o \in {"command", "statement", "prepare", "execute"} \cup TxOps :
             Send(o) \/ SendFails(o)
  BY <1>3, SendStep, SendFailsStep
<1>4. CASE \E kind \in {"ok", "error"} : Serve(kind)
  BY <1>4, ServeStep DEF Kinds
<1>5. CASE DeadlinePasses BY <1>5, DeadlinePassesStep
<1>6. CASE LinkCut BY <1>6, LinkCutStep
<1>7. CASE Receive BY <1>7, ReceiveStep
<1>8. CASE ReceivePrepared BY <1>8, ReceivePreparedStep
<1>9. CASE ArgumentCountDiffers BY <1>9, ArgumentCountDiffersStep
<1>10. CASE MessageTooLong BY <1>10, MessageTooLongStep
<1>11. CASE ReadFails BY <1>11, ReadFailsStep
<1>12. CASE UNCHANGED vars BY <1>12, Stutter
<1>13. QED
  BY <1>1, <1>2, <1>3, <1>4, <1>5, <1>6, <1>7, <1>8, <1>9, <1>10, <1>11, <1>12 DEF Next

LEMMA Inductive == Spec => []IInv
  BY InitInv, IInvStep, PTL DEF Spec

\* As long as no read has failed where the connection goes on being used and no
\* reply was left half read, a result answers the caller's own request, through
\* any number of requests, callers, deadlines and broken links.
THEOREM AnswersAreOwn == Spec => []OwnAnswer
<1>1. IInv => OwnAnswer
  BY DEF IInv, OwnAnswer, AnswerInStep
<1>2. QED
  BY <1>1, Inductive, PTL

\* Under the same condition a connection in the pool carries no open
\* transaction, unless its writer has failed and it can send nothing any more.
THEOREM ParkedSessionsClosed == Spec => []NoInheritedTx
<1>1. IInv => NoInheritedTx
  BY DEF IInv, NoInheritedTx, SessionInStep, Control
<1>2. QED
  BY <1>1, Inductive, PTL
=============================================================================
