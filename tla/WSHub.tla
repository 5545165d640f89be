------------------------------- MODULE WSHub -------------------------------
(***************************************************************************)
(* The WebSocket connections of pkg/web (websocket.go), the hub they       *)
(* subscribe to (pubsub.go) and the goroutines that meet there: for each   *)
(* connection the handler of the ws-route, the write pump and the          *)
(* keepalive; and goroutines of the program (spawned calls, HTTP routes, a *)
(* broker's subscriber) that broadcast and use connections handed to them. *)
(*                                                                         *)
(* A step runs from one synchronisation point to the next: a lock, a       *)
(* channel operation, a socket write.  The hub's lock guards pure memory   *)
(* operations and is never held across one, so that each is one step.      *)
(* The peer and the network are external: any write may succeed until the  *)
(* socket is closed, and may fail or run into its deadline at any time.    *)
(***************************************************************************)
EXTENDS Naturals, Sequences

CONSTANTS
  Conns,       \* connections: names used once
  Goroutines,  \* goroutines of the program that are not handlers
  Topics,
  Messages,    \* texts sent or broadcast: each is used once
  QueueSize,   \* LIAF_WS_QUEUE_SIZE
  Active,      \* bound: the connections whose handler runs and whose
               \* keepalive ticks; the others are only used by Goroutines
  Nobody,      \* no process
  NoConn,      \* no connection
  NoFrame,     \* no frame
  Control,     \* a ping or pong frame
  CloseFrame   \* a close frame

ASSUME QueueSizeAssumption == QueueSize \in Nat \ {0}
ASSUME ActiveAssumption == Active \subseteq Conns
ASSUME NullsAssumption ==
  /\ NoConn \notin Conns
  /\ {NoFrame, Control, CloseFrame} \cap Messages = {}
  /\ Control # NoFrame

Handler(c) == <<"handler", c>>
Pump(c) == <<"pump", c>>
Keepalive(c) == <<"keepalive", c>>
Handlers == {"handler"} \X Conns
Pumps == {"pump"} \X Conns
Keepalives == {"keepalive"} \X Conns
Spawned == {"spawned"} \X Goroutines
Procs == Handlers \cup Pumps \cup Keepalives \cup Spawned

ASSUME NobodyAssumption == Nobody \notin Procs

VARIABLES
  \* per connection
  closed,    \* the flag closed, and the channel done closed with it
  queue,     \* sendQueue
  writer,    \* the process that holds writeMu across conn.Write
  socket,    \* "none", "open", "closed"
  wire,      \* the messages written to the socket
  event,     \* the handler: "none", "open" (on-open, on-message),
             \* "closed" (Next has said so: on-close), "ended"
  \* the hub
  members,   \* topics of the hub; topics of a connection is its inverse
  \* per process
  pc, on, frame, job, todo,
  \* history
  audience   \* the members a broadcast of this message was meant for

connVars == <<closed, queue, writer, socket, wire, event>>
procVars == <<pc, on, frame, job, todo>>
vars == <<connVars, members, procVars, audience>>

Unused == {m \in Messages : audience[m] = {NoConn}}

Init ==
  /\ closed = [c \in Conns |-> FALSE]
  /\ queue = [c \in Conns |-> <<>>]
  /\ writer = [c \in Conns |-> Nobody]
  /\ socket = [c \in Conns |-> "none"]
  /\ wire = [c \in Conns |-> <<>>]
  /\ event = [c \in Conns |-> "none"]
  /\ members = [t \in Topics |-> {}]
  /\ pc = [p \in Procs |-> IF p \in Spawned THEN "user" ELSE "off"]
  /\ on = [p \in Procs |-> NoConn]
  /\ frame = [p \in Procs |-> NoFrame]
  /\ job = [p \in Procs |-> "none"]
  /\ todo = [p \in Procs |-> {}]
  /\ audience = [m \in Messages |-> {NoConn}]

-----------------------------------------------------------------------------
(* Steps of a process                                                      *)

\* p goes to label l, working on connection c with frame f.
Goto(p, l, c, f) ==
  /\ pc' = [pc EXCEPT ![p] = l]
  /\ on' = [on EXCEPT ![p] = c]
  /\ frame' = [frame EXCEPT ![p] = f]

At(p, l) == Goto(p, l, on[p], frame[p])

\* p is done with the connection it works on: a broadcast goes on with the
\* next member, a call returns to the program, Next to its caller.
Home(p) ==
  CASE p \in Pumps \cup Keepalives -> "ended"
    [] p \in Handlers /\ event[p[2]] = "ended" -> "ended"
    [] OTHER -> "user"

Done(p) ==
  IF job[p] = "broadcast"
  THEN Goto(p, "deliver", NoConn, frame[p]) /\ UNCHANGED job
  ELSE /\ Goto(p, Home(p), NoConn, NoFrame)
       /\ job' = [job EXCEPT ![p] = "none"]

\* p passed writeRawFrame's first test and is before the select.
StartPut(p, c, f, j) ==
  /\ ~closed[c]
  /\ Goto(p, "put", c, f)
  /\ job' = [job EXCEPT ![p] = j]

\* Upgrade: the connection exists and its goroutines run.
Upgrade(c) ==
  /\ socket[c] = "none"
  /\ socket' = [socket EXCEPT ![c] = "open"]
  /\ event' = [event EXCEPT ![c] = "open"]
  /\ pc' = [pc EXCEPT ![Handler(c)] = "user", ![Pump(c)] = "take",
                      ![Keepalive(c)] = "tick"]
  /\ UNCHANGED <<closed, queue, writer, wire, members, on, frame, job, todo, audience>>

-----------------------------------------------------------------------------
(* The program: ws-join, ws-leave, ws-send, ws-broadcast, ws-close         *)

\* A handler has its own connection; other goroutines may have any.
MayUse(p, c) ==
  /\ pc[p] = "user"
  /\ socket[c] # "none"
  /\ p \in Handlers => p[2] = c

Join(p, c, t) ==
  /\ MayUse(p, c)
  /\ members' = [members EXCEPT ![t] = @ \cup {c}]
  /\ UNCHANGED <<connVars, procVars, audience>>

Leave(p, c, t) ==
  /\ MayUse(p, c)
  /\ members' = [members EXCEPT ![t] = @ \ {c}]
  /\ UNCHANGED <<connVars, procVars, audience>>

\* On a closed connection ws-send returns at once.
Send(p, c, m) ==
  /\ MayUse(p, c)
  /\ m \in Unused
  /\ StartPut(p, c, m, "call")
  /\ audience' = [audience EXCEPT ![m] = {}]
  /\ UNCHANGED <<connVars, members, todo>>

\* broadcastLocal copies the members under the lock and then lets go of it.
Broadcast(p, t, m) ==
  /\ pc[p] = "user"
  /\ m \in Unused
  /\ todo' = [todo EXCEPT ![p] = members[t]]
  /\ audience' = [audience EXCEPT ![m] = members[t]]
  /\ job' = [job EXCEPT ![p] = "broadcast"]
  /\ Goto(p, "deliver", NoConn, m)
  /\ UNCHANGED <<connVars, members>>

CloseWith(p, c) ==
  /\ MayUse(p, c)
  /\ ~closed[c]
  /\ Goto(p, "lock", c, NoFrame)
  /\ job' = [job EXCEPT ![p] = "call"]
  /\ UNCHANGED <<connVars, members, todo, audience>>

-----------------------------------------------------------------------------
(* broadcastLocal's loop: the members in any order                         *)

\* Mutant: a closed member ends the loop.
NextMemberBreaks(p) ==
  /\ pc[p] = "deliver"
  /\ \E c \in todo[p] :
       IF closed[c] THEN todo' = [todo EXCEPT ![p] = {}] /\ UNCHANGED <<pc, on, frame, job>>
       ELSE /\ todo' = [todo EXCEPT ![p] = @ \ {c}]
            /\ StartPut(p, c, frame[p], "broadcast")
  /\ UNCHANGED <<connVars, members, audience>>

NextMember(p) ==
  /\ pc[p] = "deliver"
  /\ \E c \in todo[p] :
       /\ todo' = [todo EXCEPT ![p] = @ \ {c}]
       /\ IF closed[c] THEN UNCHANGED <<pc, on, frame, job>>
          ELSE StartPut(p, c, frame[p], "broadcast")
  /\ UNCHANGED <<connVars, members, audience>>

\* broadcast then publishes to the broker, if one is set (not part of this
\* module), and returns.
BroadcastReturns(p) ==
  /\ pc[p] = "deliver"
  /\ todo[p] = {}
  /\ Goto(p, "user", NoConn, NoFrame)
  /\ job' = [job EXCEPT ![p] = "none"]
  /\ UNCHANGED <<connVars, members, todo, audience>>

-----------------------------------------------------------------------------
(* writeRawFrame: select on done and on room in the queue                  *)

\* The frame is queued: the call succeeds.  Keepalive waits for its next
\* tick and Next, which answered a ping, for the next frame.
PutAccepted(p) ==
  /\ pc[p] = "put"
  /\ Len(queue[on[p]]) < QueueSize
  /\ queue' = [queue EXCEPT ![on[p]] = Append(@, frame[p])]
  /\ CASE job[p] = "ping" -> Goto(p, "tick", NoConn, NoFrame) /\ UNCHANGED job
       [] job[p] = "pong" -> /\ Goto(p, "next", NoConn, NoFrame)
                             /\ job' = [job EXCEPT ![p] = "none"]
       [] OTHER -> Done(p)
  /\ UNCHANGED <<closed, writer, socket, wire, event, members, todo, audience>>

\* done is closed (and chosen, if there is room as well): an error, on which
\* all callers but ws-send call Close, without effect by now.  Next has
\* failed if it was answering a ping.
PutRefused(p) ==
  /\ pc[p] = "put"
  /\ closed[on[p]]
  /\ event' = IF job[p] = "pong" THEN [event EXCEPT ![on[p]] = "closed"] ELSE event
  /\ Done(p)
  /\ UNCHANGED <<closed, queue, writer, socket, wire, members, todo, audience>>

\* The queue is full: a slow client, whom the caller disconnects itself,
\* with a close frame that does not wait in the queue.
PutSlow(p) ==
  /\ pc[p] = "put"
  /\ ~closed[on[p]]
  /\ Len(queue[on[p]]) >= QueueSize
  /\ event' = IF job[p] = "pong" THEN [event EXCEPT ![on[p]] = "closed"] ELSE event
  /\ pc' = [pc EXCEPT ![p] = "lock"]
  /\ UNCHANGED <<closed, queue, writer, socket, wire, members, on, frame, job, todo, audience>>

-----------------------------------------------------------------------------
(* writeDirect: under writeMu, up to the write deadline                    *)

\* Of what is written the peer's program sees the messages.
Text(f) == IF f \in Messages THEN <<f>> ELSE <<>>

\* All processes but the pump write close frames.
Writes(p) == IF p \in Pumps THEN frame[p] ELSE CloseFrame

\* Mutant: the pump goes on after a write that failed.
PumpGoesOn(p, ok) ==
  IF p \in Pumps THEN Goto(p, "take", on[p], NoFrame) ELSE At(p, "close")

\* Mutant: the pump returns from a write that failed, and closes nothing.
PumpGivesUp(p, ok) ==
  IF p \notin Pumps THEN At(p, "close")
  ELSE IF ok THEN Goto(p, "take", on[p], NoFrame) ELSE Goto(p, "ended", NoConn, NoFrame)

\* A close frame is best effort; the pump ends with a write that fails.
Written(p, ok) ==
  IF p \in Pumps /\ ok THEN Goto(p, "take", on[p], NoFrame)
  ELSE At(p, "close")

\* writeMu is free and taken; on a closed connection nothing is written.
LockWrite(p) ==
  /\ pc[p] = "lock"
  /\ writer[on[p]] = Nobody
  /\ IF closed[on[p]]
     THEN At(p, "close") /\ UNCHANGED writer
     ELSE At(p, "writing") /\ writer' = [writer EXCEPT ![on[p]] = p]
  /\ UNCHANGED <<closed, queue, socket, wire, event, members, job, todo, audience>>

\* Mutant: writeMu is not given back.
WriteKeepsLock(p) ==
  /\ pc[p] = "writing"
  /\ socket[on[p]] = "open"
  /\ wire' = [wire EXCEPT ![on[p]] = @ \o Text(Writes(p))]
  /\ Written(p, TRUE)
  /\ UNCHANGED <<closed, queue, writer, socket, event, members, job, todo, audience>>

WriteOk(p) ==
  /\ pc[p] = "writing"
  /\ socket[on[p]] = "open"
  /\ wire' = [wire EXCEPT ![on[p]] = @ \o Text(Writes(p))]
  /\ writer' = [writer EXCEPT ![on[p]] = Nobody]
  /\ Written(p, TRUE)
  /\ UNCHANGED <<closed, queue, socket, event, members, job, todo, audience>>

\* Mutant: the write has no deadline and waits for the peer or for Close.
WriteWaits(p) ==
  /\ pc[p] = "writing"
  /\ socket[on[p]] = "closed"
  /\ writer' = [writer EXCEPT ![on[p]] = Nobody]
  /\ Written(p, FALSE)
  /\ UNCHANGED <<closed, queue, socket, wire, event, members, job, todo, audience>>

\* The deadline passes, the peer is gone or the socket has been closed.
WriteFails(p) ==
  /\ pc[p] = "writing"
  /\ writer' = [writer EXCEPT ![on[p]] = Nobody]
  /\ Written(p, FALSE)
  /\ UNCHANGED <<closed, queue, socket, wire, event, members, job, todo, audience>>

-----------------------------------------------------------------------------
(* Close: the flag and done, then the topics, then the socket              *)

SetClosed(p) ==
  /\ pc[p] = "close"
  /\ IF closed[on[p]]
     THEN Done(p) /\ UNCHANGED closed
     ELSE /\ closed' = [closed EXCEPT ![on[p]] = TRUE]
          /\ At(p, "leaveAll") /\ UNCHANGED job
  /\ UNCHANGED <<queue, writer, socket, wire, event, members, todo, audience>>

LeaveAll(p) ==
  /\ pc[p] = "leaveAll"
  /\ members' = [t \in Topics |-> members[t] \ {on[p]}]
  /\ At(p, "hangup")
  /\ UNCHANGED <<connVars, job, todo, audience>>

CloseSocket(p) ==
  /\ pc[p] = "hangup"
  /\ socket' = [socket EXCEPT ![on[p]] = "closed"]
  /\ Done(p)
  /\ UNCHANGED <<closed, queue, writer, wire, event, members, todo, audience>>

-----------------------------------------------------------------------------
(* The pump and the keepalive                                              *)

\* select in writePump: done and the queue, at random if both are ready.
PumpTakes(c) ==
  LET p == Pump(c) IN
  /\ pc[p] = "take"
  /\ queue[c] # <<>>
  /\ queue' = [queue EXCEPT ![c] = Tail(@)]
  /\ Goto(p, "lock", c, Head(queue[c]))
  /\ UNCHANGED <<closed, writer, socket, wire, event, members, job, todo, audience>>

\* Mutant: the pump looks at done only between frames.
PumpWaitsForFrame(c) ==
  LET p == Pump(c) IN
  /\ pc[p] = "take"
  /\ closed[c] /\ queue[c] # <<>>
  /\ Goto(p, "close", c, NoFrame)
  /\ UNCHANGED <<connVars, members, job, todo, audience>>

PumpEnds(c) ==
  LET p == Pump(c) IN
  /\ pc[p] = "take"
  /\ closed[c]
  /\ Goto(p, "close", c, NoFrame)
  /\ UNCHANGED <<connVars, members, job, todo, audience>>

Tick(c) ==
  LET p == Keepalive(c) IN
  /\ pc[p] = "tick"
  /\ StartPut(p, c, Control, "ping")
  /\ UNCHANGED <<connVars, members, todo, audience>>

KeepaliveEnds(c) ==
  LET p == Keepalive(c) IN
  /\ pc[p] = "tick"
  /\ closed[c]
  /\ Goto(p, "ended", NoConn, NoFrame)
  /\ UNCHANGED <<connVars, members, job, todo, audience>>

-----------------------------------------------------------------------------
(* The handler: on-open, then Next and on-message in turns, then on-close  *)

EventEnds(c) ==
  LET p == Handler(c) IN
  /\ pc[p] = "user"
  /\ event[c] = "open"
  /\ Goto(p, "next", NoConn, NoFrame)
  /\ UNCHANGED <<connVars, members, job, todo, audience>>

\* What was read before a close may still be handed out after it.
NextMessage(c) ==
  LET p == Handler(c) IN
  /\ pc[p] = "next"
  /\ Goto(p, "user", NoConn, NoFrame)
  /\ UNCHANGED <<connVars, members, job, todo, audience>>

\* A ping frame is answered through the queue.
NextPing(c) ==
  LET p == Handler(c) IN
  /\ pc[p] = "next"
  /\ StartPut(p, c, Control, "pong")
  /\ UNCHANGED <<connVars, members, todo, audience>>

\* A read fails, the idle timeout passes, the peer closes or breaks the
\* protocol or the rate limit: with or without a close frame, then Close.
NextFails(c) ==
  LET p == Handler(c) IN
  /\ pc[p] = "next"
  /\ event' = [event EXCEPT ![c] = "closed"]
  /\ \/ Goto(p, "close", c, NoFrame)
     \/ ~closed[c] /\ Goto(p, "lock", c, NoFrame)
  /\ UNCHANGED <<closed, queue, writer, socket, wire, members, job, todo, audience>>

\* on-close returns: the deferred Close has no effect after Next's.
HandlerReturns(c) ==
  LET p == Handler(c) IN
  /\ pc[p] = "user"
  /\ event[c] = "closed"
  /\ Goto(p, "ended", NoConn, NoFrame)
  /\ event' = [event EXCEPT ![c] = "ended"]
  /\ UNCHANGED <<closed, queue, writer, socket, wire, members, job, todo, audience>>

\* An event panics: the deferred Close.
HandlerPanics(c) ==
  LET p == Handler(c) IN
  /\ pc[p] = "user"
  /\ event' = [event EXCEPT ![c] = "ended"]
  /\ Goto(p, "close", c, NoFrame)
  /\ UNCHANGED <<closed, queue, writer, socket, wire, members, job, todo, audience>>

-----------------------------------------------------------------------------
\* A process inside a call, except that a peer reads what it is sent.
Runs(p) ==
  \/ NextMember(p) \/ BroadcastReturns(p)
  \/ PutAccepted(p) \/ PutRefused(p) \/ PutSlow(p)
  \/ LockWrite(p) \/ WriteFails(p)
  \/ SetClosed(p) \/ LeaveAll(p) \/ CloseSocket(p)

PumpRuns(c) == PumpTakes(c) \/ PumpEnds(c)

HandlerRuns(c) ==
  \/ EventEnds(c) \/ NextMessage(c) \/ NextPing(c) \/ NextFails(c)
  \/ HandlerReturns(c) \/ HandlerPanics(c)

Program(p) ==
  \/ \E c \in Conns, t \in Topics : Join(p, c, t) \/ Leave(p, c, t)
  \/ \E c \in Conns, m \in Messages : Send(p, c, m)
  \/ \E t \in Topics, m \in Messages : Broadcast(p, t, m)
  \/ \E c \in Conns : CloseWith(p, c)

Callers == {"handler"} \X Active \cup Spawned

Next ==
  \/ \E p \in Procs : Runs(p) \/ WriteOk(p)
  \/ \E p \in Callers : Program(p)
  \/ \E c \in Conns : Upgrade(c) \/ PumpRuns(c) \/ KeepaliveEnds(c)
  \/ \E c \in Active : HandlerRuns(c) \/ Tick(c)

\* Goroutines are scheduled, a write has a deadline, writeMu is given to
\* those who wait for it in turn.  Nothing is assumed of the program, the
\* ticker and the peer, who may never read.
Fairness ==
  /\ \A p \in Procs : WF_vars(Runs(p)) /\ SF_vars(LockWrite(p))
  /\ \A c \in Conns : WF_vars(PumpRuns(c)) /\ WF_vars(KeepaliveEnds(c))

Spec == Init /\ [][Next]_vars
FairSpec == Spec /\ Fairness

-----------------------------------------------------------------------------
Labels == {"off", "user", "next", "take", "tick", "deliver", "put", "lock",
           "writing", "close", "leaveAll", "hangup", "ended"}
Frames == Messages \cup {Control}

\* Type correctness: every field has the values the code can give it, the
\* queue keeps to its capacity, and writeMu is with the process that writes.
TypeOK ==
  /\ closed \in [Conns -> BOOLEAN]
  /\ queue \in [Conns -> Seq(Frames)]
  /\ \A c \in Conns : Len(queue[c]) <= QueueSize
  /\ writer \in [Conns -> Procs \cup {Nobody}]
  /\ \A c \in Conns, p \in Procs :
       writer[c] = p <=> pc[p] = "writing" /\ on[p] = c
  /\ socket \in [Conns -> {"none", "open", "closed"}]
  /\ wire \in [Conns -> Seq(Messages)]
  /\ event \in [Conns -> {"none", "open", "closed", "ended"}]
  /\ members \in [Topics -> SUBSET Conns]
  /\ pc \in [Procs -> Labels]
  /\ on \in [Procs -> Conns \cup {NoConn}]
  /\ frame \in [Procs -> Frames \cup {NoFrame}]
  /\ job \in [Procs -> {"none", "call", "broadcast", "ping", "pong"}]
  /\ todo \in [Procs -> SUBSET Conns]
  /\ audience \in [Messages -> (SUBSET Conns) \cup {{NoConn}}]

\* What the pump has taken from the queue and not written.  A pump whose
\* write failed keeps it until the connection is closed.
InHand(c) ==
  LET p == Pump(c) IN
  IF frame[p] # NoFrame /\ (pc[p] = "writing" \/ ~closed[c]) THEN <<frame[p]>> ELSE <<>>

Waiting(c) == InHand(c) \o (IF closed[c] THEN <<>> ELSE queue[c])

Outbox == INSTANCE WSOutbox WITH
  Limit <- QueueSize + 1,
  outbox <- [c \in Conns |-> Waiting(c)],
  inbox <- wire,
  gone <- closed

\* Refinement: whoever writes, a connection is an outbox that keeps the
\* order, loses nothing while it is open and repeats nothing (sendQueue,
\* writePump, writeRawFrame and Close against each other).
ImplementsOutbox == Outbox!Spec

Broadcasting(m) == \E p \in Procs : job[p] = "broadcast" /\ frame[p] = m
Has(s, m) == \E i \in DOMAIN s : s[i] = m

\* When a broadcast has returned, every connection that was a member as it
\* started has been given the message, or has been closed: a slow or a
\* closed member is no reason to leave out those after it (broadcastLocal).
MembersReached ==
  \A m \in Messages \ Unused : ~Broadcasting(m) =>
    \A c \in audience[m] : closed[c] \/ Has(wire[c] \o Waiting(c), m)

\* No goroutine of a connection ends while it is open, for nobody might then
\* read its queue or notice that its peer is gone, and no on-close runs; and
\* of those who close a connection one goes through with it and the others,
\* who find it closed, may return before the socket is (Close, deferred Close).
EndsClosed ==
  \A c \in Conns :
    /\ "ended" \in {pc[Handler(c)], pc[Pump(c)], pc[Keepalive(c)]} => closed[c]
    /\ event[c] = "closed" /\ pc[Handler(c)] = "user" => closed[c]
    /\ closed[c] => \/ socket[c] = "closed"
                    \/ \E p \in Procs : pc[p] \in {"leaveAll", "hangup"} /\ on[p] = c

\* A message accepted is written unless the connection is closed: the pump
\* neither stops on an open connection nor waits for ever for writeMu.
AcceptedWritten ==
  \A c \in Conns, m \in Messages :
    Has(queue[c], m) ~> (Has(wire[c], m) \/ closed[c])

\* A broadcast returns, however slow its members are: the write deadline
\* bounds the close frames it writes itself and the wait for writeMu.
BroadcastEnds ==
  \A p \in Handlers \cup Spawned :
    pc[p] = "deliver" ~> pc[p] = "user"

\* A closed connection's pump and keepalive end and its socket is closed,
\* whoever closed it and whatever they were doing (done, deferred Close).
ClosedConnEnds ==
  \A c \in Conns :
    closed[c] ~> /\ pc[Pump(c)] = "ended" /\ pc[Keepalive(c)] = "ended"
                 /\ socket[c] = "closed"

\* docs/linguagem/SPEC.md:959: closing a connection takes it out of all its
\* topics.  Asked only while the handler has not been told of the close: its
\* on-open or on-message is running, another goroutine has closed.
ClosedIsNoMember ==
  \A c \in Conns, t \in Topics :
    socket[c] = "closed" /\ event[c] = "open" => c \notin members[t]
=============================================================================
