------------------------------ MODULE DBWire ------------------------------
(***************************************************************************)
(* One driver connection of pkg/dbdrv between its uses: what a request and *)
(* its reply leave behind in the socket, the buffered writer and the       *)
(* server's session, and what the pool (release in pkg/runtime/db.go) does *)
(* with the connection afterwards.  Postgres, MySQL and Redis share the    *)
(* shape send - receive - return and differ in when they set the deadline, *)
(* which errors they wrap in ErrConnLost and what they leave unread.       *)
(*                                                                         *)
(* The server is external: it answers requests in the order sent, late or  *)
(* not at all, and rolls an open transaction back when the link goes.      *)
(***************************************************************************)
EXTENDS Integers, SequencesExt

CONSTANTS
  Drivers,     \* subset of {"postgres", "mysql", "redis"}
  MaxRequests  \* bound on the requests of a behaviour

ASSUME DriversAssumption == Drivers \subseteq {"postgres", "mysql", "redis"}
ASSUME MaxRequestsAssumption == MaxRequests \in Nat

VARIABLES
  driver,     \* the driver of the DSN
  phase,      \* "closed", "parked" (in the pool), "held" (by a caller),
              \* "reading" (a request is sent), "prepared" (mysql: the
              \* statement is prepared, not executed)
  inTx,       \* the caller has a transaction's handle
  op,         \* the last request's operation
  sent,       \* number of requests sent: the last one's name
  toServer,   \* requests the server has not answered
  toClient,   \* packets of replies not yet read
  overdue,    \* the deadline of the socket has passed
  writeDead,  \* bufio.Writer has failed: it keeps its first error for ever
  cut,        \* the server or the network has closed the link
  serverTx,   \* the session has an open transaction
  history,    \* what has gone wrong on this connection: "send", "read",
              \* "txread" (a read inside a transaction), "count", "size"
  answer      \* what the last request came to, and the request answered

wire == <<toServer, toClient, writeDead, cut, serverTx>>
vars == <<driver, phase, inTx, op, sent, wire, overdue, history, answer>>

TxOps == {"begin", "commit", "rollback"}
Ops == CASE driver = "redis" -> {"command"}
         [] driver = "postgres" -> {"statement"} \cup TxOps
         [] driver = "mysql" -> {"prepare", "execute"} \cup TxOps
NoAnswer == [kind |-> "none", to |-> 0]

Init ==
  /\ driver \in Drivers
  /\ phase = "closed"
  /\ inTx = FALSE
  /\ op = "none"
  /\ sent = 0
  /\ toServer = <<>> /\ toClient = <<>>
  /\ overdue = FALSE /\ writeDead = FALSE /\ cut = FALSE
  /\ serverTx = FALSE
  /\ history = {}
  /\ answer = NoAnswer

-----------------------------------------------------------------------------
(* The pool: dial, acquire, release                                        *)

\* A dialled connection has authenticated under a fresh deadline.
Dial ==
  /\ phase = "closed"
  /\ phase' = "held"
  /\ toServer' = <<>> /\ toClient' = <<>>
  /\ overdue' = FALSE /\ writeDead' = FALSE /\ cut' = FALSE
  /\ serverTx' = FALSE /\ history' = {}
  /\ answer' = NoAnswer
  /\ UNCHANGED <<driver, inTx, op, sent>>

Acquire ==
  /\ phase = "parked"
  /\ phase' = "held"
  /\ UNCHANGED <<driver, inTx, op, sent, wire, overdue, history, answer>>

\* Does the caller have a transaction's handle after operation o?
HasTx(o, kind) == IF o = "begin" THEN kind = "ok"
                  ELSE inTx /\ o \notin {"commit", "rollback"}

\* An operation returns.  A transaction's handle keeps its connection;
\* otherwise release parks it unless the error is an ErrConnLost ("lost").
OpReturns(o, kind, to, wrong) ==
  /\ answer' = [kind |-> kind, to |-> to]
  /\ inTx' = HasTx(o, kind)
  /\ history' = history \cup wrong
  /\ phase' = IF HasTx(o, kind) THEN "held"
              ELSE IF kind = "lost" THEN "closed" ELSE "parked"

-----------------------------------------------------------------------------
(* send                                                                    *)

CanStart(o) ==
  /\ o \in Ops
  /\ phase = IF o = "execute" THEN "prepared" ELSE "held"
  /\ o = "begin" => ~inTx
  /\ o \in {"commit", "rollback"} => inTx

\* simple and extended of postgres, command of redis and statement of mysql
\* begin with SetDeadline; Begin, Commit and Rollback of mysql do not.
LateAt(o) == overdue /\ driver = "mysql" /\ o # "prepare"

\* The request goes out; a link already cut may still take it.
Send(o) ==
  /\ CanStart(o)
  /\ sent < MaxRequests
  /\ ~writeDead /\ ~LateAt(o)
  /\ overdue' = FALSE
  /\ op' = o
  /\ sent' = sent + 1
  /\ toServer' = IF cut THEN toServer ELSE Append(toServer, [id |-> sent', op |-> o])
  /\ phase' = "reading"
  /\ answer' = NoAnswer
  /\ UNCHANGED <<driver, inTx, toClient, writeDead, cut, serverTx, history>>

\* Write or Flush fails on a cut link, past the deadline, or because it has
\* failed before.  send, write and command return the bare error.
SendFails(o) ==
  /\ CanStart(o)
  /\ writeDead \/ cut \/ LateAt(o)
  /\ overdue' = LateAt(o)
  /\ writeDead' = TRUE
  /\ op' = o
  /\ OpReturns(o, "ioerror", 0, {"send"})
  /\ UNCHANGED <<driver, sent, toServer, toClient, cut, serverTx>>

-----------------------------------------------------------------------------
(* The server, the link and the clock                                      *)

\* Packets of the reply to an operation: Postgres ends every reply with
\* ReadyForQuery, MySQL follows a good answer to a PREPARE with the
\* definitions of its parameters and columns.
Packets(o, kind) ==
  IF (driver = "postgres" /\ kind # "rest") \/ (o = "prepare" /\ kind # "error")
  THEN 2 ELSE 1

Reply(r, kind) ==
  [i \in 1..Packets(r.op, kind) |-> [id |-> r.id, kind |-> IF i = 1 THEN kind ELSE "rest"]]

\* The reader has the whole of the next reply, or what it takes for one.
ReplyIn == toClient # <<>> /\ Len(toClient) >= Packets(op, Head(toClient).kind)

Serve(kind) ==
  LET r == Head(toServer) IN
  /\ toServer # <<>>
  /\ toServer' = Tail(toServer)
  /\ toClient' = toClient \o Reply(r, kind)
  /\ serverTx' = IF r.op = "begin" THEN kind = "ok"
                 ELSE serverTx /\ r.op \notin {"commit", "rollback"}
  /\ UNCHANGED <<driver, phase, inTx, op, sent, overdue, writeDead, cut, history, answer>>

\* ioTimeout goes by.
DeadlinePasses ==
  /\ phase # "closed"
  /\ ~overdue
  /\ overdue' = TRUE
  /\ UNCHANGED <<driver, phase, inTx, op, sent, wire, history, answer>>

LinkCut ==
  /\ phase # "closed"
  /\ ~cut
  /\ cut' = TRUE
  /\ serverTx' = FALSE
  /\ toServer' = <<>>
  /\ UNCHANGED <<driver, phase, inTx, op, sent, toClient, overdue, writeDead, history, answer>>

-----------------------------------------------------------------------------
(* receive                                                                 *)

Result(packet) == IF packet.kind = "error" THEN "dberror" ELSE "ok"

\* The deferred closeStatement of mysql writes without a new deadline and
\* drops the error; its writer does not forget it.
StatementCloses ==
  IF driver = "mysql" /\ (overdue \/ cut)
  THEN writeDead' \in IF overdue THEN {TRUE} ELSE {writeDead, TRUE}
  ELSE UNCHANGED writeDead

\* Mutant: postgres returns at the ErrorResponse, without the ReadyForQuery.
ReceiveStopsAtError ==
  /\ phase = "reading"
  /\ ReplyIn
  /\ op = "prepare" => Head(toClient).kind = "error"
  /\ toClient' = IF Head(toClient).kind = "error" THEN Tail(toClient)
                 ELSE SubSeq(toClient, 1 + Packets(op, Head(toClient).kind), Len(toClient))
  /\ OpReturns(op, Result(Head(toClient)), Head(toClient).id, {})
  /\ IF op = "execute" THEN StatementCloses ELSE UNCHANGED writeDead
  /\ UNCHANGED <<driver, op, sent, toServer, overdue, cut, serverTx>>

\* The next reply in the socket is the answer, whatever request it is for;
\* postgres reads on to the ReadyForQuery, after an error too.
Receive ==
  /\ phase = "reading"
  /\ ReplyIn
  /\ op = "prepare" => Head(toClient).kind = "error"
  /\ toClient' = SubSeq(toClient, 1 + Packets(op, Head(toClient).kind), Len(toClient))
  /\ OpReturns(op, Result(Head(toClient)), Head(toClient).id, {})
  /\ IF op = "execute" THEN StatementCloses ELSE UNCHANGED writeDead
  /\ UNCHANGED <<driver, op, sent, toServer, overdue, cut, serverTx>>

\* mysql: the statement is prepared and its definitions are read.
ReceivePrepared ==
  /\ phase = "reading"
  /\ op = "prepare"
  /\ ReplyIn
  /\ Head(toClient).kind # "error"
  /\ toClient' = SubSeq(toClient, 3, Len(toClient))
  /\ phase' = "prepared"
  /\ UNCHANGED <<driver, inTx, op, sent, toServer, overdue, writeDead, cut,
                 serverTx, history, answer>>

\* mysql: the statement takes another number of parameters than supplied, and
\* statement returns before it reads the definitions.
ArgumentCountDiffers ==
  /\ phase = "reading"
  /\ op = "prepare"
  /\ toClient # <<>>
  /\ Head(toClient).kind # "error"
  /\ toClient' = Tail(toClient)
  /\ OpReturns(op, "dberror", Head(toClient).id, {"count"})
  /\ StatementCloses
  /\ UNCHANGED <<driver, op, sent, toServer, overdue, cut, serverTx>>

\* postgres: a message over pgMaxMessageSize is left where it is.
MessageTooLong ==
  /\ phase = "reading"
  /\ driver = "postgres" /\ op = "statement"
  /\ toClient # <<>>
  /\ Head(toClient).kind = "ok"
  /\ toClient' = Tail(toClient)
  /\ OpReturns(op, "dberror", Head(toClient).id, {"size"})
  /\ UNCHANGED <<driver, op, sent, toServer, overdue, writeDead, cut, serverTx>>

\* Mutant: no read error is an ErrConnLost.
ReadFailsUnwrapped ==
  /\ phase = "reading"
  /\ overdue \/ (cut /\ ~ReplyIn)
  /\ OpReturns(op, "ioerror", 0, IF inTx THEN {"txread"} ELSE {"read"})
  /\ UNCHANGED <<driver, op, sent, wire, overdue>>

\* Mutant: reads have no deadline.
ReadFailsWhenCut ==
  /\ phase = "reading"
  /\ cut /\ ~ReplyIn
  /\ OpReturns(op, "lost", 0, IF inTx THEN {"txread"} ELSE {"read"})
  /\ UNCHANGED <<driver, op, sent, wire, overdue>>

\* A read past the deadline, or of a cut link short of a whole reply, with or
\* without the first packet of the reply.  postgres and mysql wrap the error in
\* ErrConnLost, redis does not.
ReadFails ==
  /\ phase = "reading"
  /\ overdue \/ (cut /\ ~ReplyIn)
  /\ OpReturns(op, IF driver = "redis" THEN "ioerror" ELSE "lost", 0,
               IF inTx THEN {"txread"} ELSE {"read"})
  /\ \/ /\ UNCHANGED toClient
        /\ IF op = "execute" THEN StatementCloses ELSE UNCHANGED writeDead
     \/ /\ toClient # <<>>
        /\ Packets(op, Head(toClient).kind) = 2
        /\ toClient' = Tail(toClient)
        /\ StatementCloses
  /\ UNCHANGED <<driver, op, sent, toServer, cut, serverTx, overdue>>

-----------------------------------------------------------------------------
Next ==
  \/ Dial
  \/ Acquire
  \/ \E o \in {"command", "statement", "prepare", "execute"} \cup TxOps :
       Send(o) \/ SendFails(o)
  \/ \E kind \in {"ok", "error"} : Serve(kind)
  \/ DeadlinePasses
  \/ LinkCut
  \/ Receive
  \/ ReceivePrepared
  \/ ArgumentCountDiffers
  \/ MessageTooLong
  \/ ReadFails

Spec == Init /\ [][Next]_vars

\* Time passes and a blocked read returns at its deadline; nothing is assumed
\* of the server or the link.
FairSpec == Spec /\ WF_vars(DeadlinePasses) /\ WF_vars(ReadFails)

-----------------------------------------------------------------------------
(* Properties                                                              *)

\* Every variable keeps its type.
TypeOK ==
  /\ driver \in Drivers
  /\ phase \in {"closed", "parked", "held", "reading", "prepared"}
  /\ op \in Ops \cup {"none"}
  /\ sent \in 0..MaxRequests
  /\ \A i \in DOMAIN toServer : toServer[i].id \in 1..sent
  /\ \A i \in DOMAIN toClient : toClient[i].id \in 1..sent
  /\ {inTx, overdue, writeDead, cut, serverTx} \subseteq BOOLEAN
  /\ history \subseteq {"send", "read", "txread", "count", "size"}
  /\ answer.kind \in {"none", "ok", "dberror", "ioerror", "lost"}
  /\ answer.to \in 0..sent

\* Has nothing happened to this connection that leaves a reply, or the rest of
\* one, to be read by a later request?  Those that do are a read that fails in
\* a transaction (its statements go on with the same connection), redis' read
\* errors, which release does not know for transport errors, mysql's argument
\* count check and postgres' bound on a message.
InStep == history \cap (CASE driver = "postgres" -> {"txread", "size"}
                           [] driver = "mysql" -> {"txread", "count"}
                           [] driver = "redis" -> {"read"}) = {}

\* A result is the answer to the caller's own request, however many callers
\* have used the connection before and whatever their calls came to, but for
\* the cases of InStep.
OwnAnswer ==
  InStep /\ answer.kind \in {"ok", "dberror"} => answer.to = sent

\* No caller runs its statements in a transaction that another left open: a
\* parked connection has none unless it can send nothing any more.
NoInheritedTx ==
  InStep /\ phase = "parked" /\ serverTx => writeDead

\* No call waits for ever for a server that does not answer, though some of
\* mysql's requests set no deadline of their own.
CallReturns == phase = "reading" ~> phase # "reading"

\* "Uma conexao cuja falha foi de rede nao volta para o pool: o proximo uso
\* herdaria o estado quebrado." (release, db.go)
FaultedNotParked == phase = "parked" => history \cap {"send", "read", "txread"} = {}
=============================================================================
