----------------------------- MODULE WSHubProofs -----------------------------
(***************************************************************************)
(* Proofs about WSHub: for any connections, goroutines and topics and any  *)
(* size of the queue, a connection is an outbox that keeps the order, a    *)
(* broadcast leaves out no member, one process writes at a time, and no    *)
(* goroutine of a connection ends while it is open.                        *)
(***************************************************************************)
EXTENDS WSHub, TLAPS, SequenceTheorems

-----------------------------------------------------------------------------
(* The invariant.                                                          *)

Jobs == {"none", "call", "broadcast", "ping", "pong"}
Working == {"lock", "writing", "close", "leaveAll", "hangup"}
Resting == {"off", "user", "next", "take", "tick", "ended"}

\* What a process holds fits the place it is at: process p at label l, on
\* connection c with frame f, for job j.
Fits(p, l, c, f, j) ==
  /\ l \in Labels /\ c \in Conns \cup {NoConn} /\ f \in Frames \cup {NoFrame} /\ j \in Jobs
  /\ l \in Working \cup {"put"} => c \in Conns
  /\ l \in {"leaveAll", "hangup"} => closed[c]
  /\ l = "put" => f \in Frames
  /\ l = "deliver" => c = NoConn /\ j = "broadcast"
  /\ l \in Resting => f = NoFrame /\ j # "broadcast"
  /\ j = "broadcast" => f \in Messages
  /\ p \in Pumps => /\ l \in Working \cup {"off", "take", "ended"} /\ j = "none"
                    /\ l \in Working => c = p[2]
                    /\ l \in {"lock", "writing"} => f # NoFrame
  /\ l = "take" => p \in Pumps

LocalInv == \A p \in Procs : Fits(p, pc[p], on[p], frame[p], job[p])

\* The goroutines of a connection run from its upgrade on.
Dormant == \A c \in Conns : socket[c] = "none" =>
  pc[Handler(c)] = "off" /\ pc[Pump(c)] = "off" /\ pc[Keepalive(c)] = "off"

\* The message m is or was on its way on connection c.
Seen(c, m) == frame[Pump(c)] = m \/ Has(queue[c], m) \/ Has(wire[c], m)

\* The connections that p may still give its frame to.
Owes(p) ==
  (IF job[p] = "broadcast" THEN todo[p] ELSE {}) \cup (IF pc[p] = "put" THEN {on[p]} ELSE {})

\* A message is with one process that sends it, which has not given it to
\* those it may still give it to; nothing has what was not used.
UnusedNowhere ==
  \A m \in Unused : (\A p \in Procs : frame[p] # m) /\ \A c \in Conns : ~Seen(c, m)
OneSender ==
  \A p, q \in Procs \ Pumps : frame[p] \in Messages /\ frame[p] = frame[q] => p = q
NotYetSeen ==
  \A p \in Procs \ Pumps : \A m \in Messages : frame[p] = m => \A c \in Owes(p) : ~Seen(c, m)
NotAgain ==
  \A p \in Procs \ Pumps : job[p] = "broadcast" => on[p] \notin todo[p]
FreshInv == UnusedNowhere /\ OneSender /\ NotYetSeen /\ NotAgain

\* A member has the message of a broadcast, or has been closed, or the
\* broadcast goes on and comes to it or is at it.
Pending(c, m) ==
  \E p \in Procs : job[p] = "broadcast" /\ frame[p] = m /\ (c \in todo[p] \/ on[p] = c)
AudienceInv ==
  \A m \in Messages \ Unused : \A c \in audience[m] : closed[c] \/ Seen(c, m) \/ Pending(c, m)

IInv == TypeOK /\ LocalInv /\ Dormant /\ FreshInv /\ AudienceInv

-----------------------------------------------------------------------------
(* Processes and frames.                                                   *)

LEMMA ProcFacts ==
  /\ \A c \in Conns : /\ Handler(c) \in Procs \ Pumps /\ Keepalive(c) \in Procs \ Pumps /\ Pump(c) \in Pumps
                      /\ Pump(c)[2] = c /\ Handler(c)[2] = c
  /\ \A p \in Pumps : p \in Procs /\ p[2] \in Conns /\ p = Pump(p[2])
  /\ \A p \in Callers : p \in Procs \ Pumps
  /\ \A p \in Keepalives : p \notin Pumps
  /\ Nobody \notin Procs
<1>1. \A c \in Conns : /\ Handler(c) \in Procs \ Pumps /\ Keepalive(c) \in Procs \ Pumps /\ Pump(c) \in Pumps
                       /\ Pump(c)[2] = c /\ Handler(c)[2] = c
  BY DEF Procs, Handlers, Pumps, Keepalives, Handler, Pump, Keepalive
<1>2. \A p \in Pumps : p \in Procs /\ p[2] \in Conns /\ p = Pump(p[2])
  BY DEF Procs, Pumps, Pump
<1>3. \A p \in Callers : p \in Procs \ Pumps
  BY ActiveAssumption DEF Procs, Callers, Handlers, Spawned, Pumps
<1>4. \A p \in Keepalives : p \notin Pumps
  BY DEF Keepalives, Pumps
<1>5. QED
  BY <1>1, <1>2, <1>3, <1>4, NobodyAssumption

LEMMA NullFacts ==
  /\ NoConn \notin Conns
  /\ NoFrame \notin Messages /\ NoFrame \notin Frames /\ Control \notin Messages /\ CloseFrame \notin Messages
  /\ Control \in Frames /\ Messages \subseteq Frames /\ \A f \in Frames : f \in Messages \/ f = Control
  BY NullsAssumption DEF Frames

\* Type correctness in parts: the shared data, the processes, writeMu.
TypeData ==
  /\ closed \in [Conns -> BOOLEAN]
  /\ queue \in [Conns -> Seq(Frames)]
  /\ \A c \in Conns : Len(queue[c]) <= QueueSize
  /\ socket \in [Conns -> {"none", "open", "closed"}]
  /\ wire \in [Conns -> Seq(Messages)]
  /\ event \in [Conns -> {"none", "open", "closed", "ended"}]
  /\ members \in [Topics -> SUBSET Conns]
  /\ todo \in [Procs -> SUBSET Conns]
  /\ audience \in [Messages -> (SUBSET Conns) \cup {{NoConn}}]
TypeProc ==
  /\ pc \in [Procs -> Labels]
  /\ on \in [Procs -> Conns \cup {NoConn}]
  /\ frame \in [Procs -> Frames \cup {NoFrame}]
  /\ job \in [Procs -> Jobs]
Exclusive ==
  /\ writer \in [Conns -> Procs \cup {Nobody}]
  /\ \A c \in Conns, p \in Procs : writer[c] = p <=> pc[p] = "writing" /\ on[p] = c

LEMMA TypeParts == TypeOK <=> TypeData /\ TypeProc /\ Exclusive
  BY DEF TypeOK, TypeData, TypeProc, Exclusive, Jobs

-----------------------------------------------------------------------------
(* One process moves.                                                      *)

Moved(p, l, c, f, j) ==
  /\ pc' = [pc EXCEPT ![p] = l]
  /\ on' = [on EXCEPT ![p] = c]
  /\ frame' = [frame EXCEPT ![p] = f]
  /\ job' = [job EXCEPT ![p] = j]

LEMMA MovedFacts ==
  ASSUME TypeProc, NEW p \in Procs, NEW l, NEW c, NEW f, NEW j, Moved(p, l, c, f, j)
  PROVE  /\ pc'[p] = l /\ on'[p] = c /\ frame'[p] = f /\ job'[p] = j
         /\ \A q \in Procs : q # p =>
              pc'[q] = pc[q] /\ on'[q] = on[q] /\ frame'[q] = frame[q] /\ job'[q] = job[q]
  BY DEF TypeProc, Moved

LEMMA MovedKeeps ==
  ASSUME TypeProc, LocalInv, Dormant, NEW p \in Procs, NEW l, NEW c, NEW f, NEW j,
         Moved(p, l, c, f, j), Fits(p, l, c, f, j)', pc[p] # "off",
         \A d \in Conns : closed[d] => closed'[d],
         \A d \in Conns : socket'[d] = "none" => socket[d] = "none"
  PROVE  TypeProc' /\ LocalInv' /\ Dormant'
<1>1. /\ pc'[p] = l /\ on'[p] = c /\ frame'[p] = f /\ job'[p] = j
      /\ \A q \in Procs : q # p =>
           pc'[q] = pc[q] /\ on'[q] = on[q] /\ frame'[q] = frame[q] /\ job'[q] = job[q]
  BY MovedFacts
<1>2. TypeProc'
  BY DEF TypeProc, Moved, Fits
<1>3. ASSUME NEW q \in Procs, q # p PROVE Fits(q, pc[q], on[q], frame[q], job[q])'
  <2>1. Fits(q, pc[q], on[q], frame[q], job[q])
    BY DEF LocalInv
  <2>2. on[q] \in Conns => (closed[on[q]] => closed'[on[q]])
    OBVIOUS
  <2>3. QED
    BY <1>1, <1>3, <2>1, <2>2 DEF Fits, Working
<1>4. LocalInv'
  <2>1. Fits(p, pc[p], on[p], frame[p], job[p])'
    BY <1>1
  <2>2. QED
    BY <1>3, <2>1 DEF LocalInv
<1>5. Dormant'
  <2>1. \A d \in Conns : Handler(d) \in Procs /\ Pump(d) \in Procs /\ Keepalive(d) \in Procs
    BY ProcFacts
  <2>2. QED
    BY <1>1, <2>1 DEF Dormant
<1>6. QED
  BY <1>2, <1>4, <1>5

\* Who writes stays the same when the one that moves does not write.
LEMMA WriterKept ==
  ASSUME TypeProc, Exclusive, NEW p \in Procs, NEW l, NEW c, NEW f, NEW j,
         Moved(p, l, c, f, j), pc[p] # "writing", l # "writing", writer' = writer
  PROVE  Exclusive'
<1>1. /\ pc'[p] = l /\ on'[p] = c
      /\ \A q \in Procs : q # p => pc'[q] = pc[q] /\ on'[q] = on[q]
  BY MovedFacts
<1>2. QED
  BY <1>1 DEF Exclusive

\* One who writes gives writeMu back.
LEMMA WriterGone ==
  ASSUME TypeProc, Exclusive, NEW p \in Procs, NEW l, NEW c, NEW f, NEW j,
         Moved(p, l, c, f, j), pc[p] = "writing", l # "writing", on[p] \in Conns,
         writer' = [writer EXCEPT ![on[p]] = Nobody]
  PROVE  Exclusive'
<1>1. /\ pc'[p] = l /\ on'[p] = c
      /\ \A q \in Procs : q # p => pc'[q] = pc[q] /\ on'[q] = on[q]
  BY MovedFacts
<1>2. writer' \in [Conns -> Procs \cup {Nobody}]
  BY DEF Exclusive
<1>3. writer[on[p]] = p
  BY DEF Exclusive
<1>4. ASSUME NEW d \in Conns, NEW q \in Procs PROVE writer'[d] = q <=> pc'[q] = "writing" /\ on'[q] = d
  <2>1. CASE d = on[p]
    <3>1. writer'[d] = Nobody /\ Nobody # q
      BY <2>1, ProcFacts DEF Exclusive
    <3>2. q # p => ~(pc[q] = "writing" /\ on[q] = d)
      BY <1>3, <2>1 DEF Exclusive
    <3>3. QED
      BY <1>1, <3>1, <3>2
  <2>2. CASE d # on[p]
    <3>1. writer'[d] = writer[d]
      BY <2>2 DEF Exclusive
    <3>2. writer[d] # p
      BY <2>2 DEF Exclusive
    <3>3. QED
      BY <1>1, <3>1, <3>2 DEF Exclusive
  <2>3. QED
    BY <2>1, <2>2
<1>5. QED
  BY <1>2, <1>4 DEF Exclusive

LEMMA SameJob == ASSUME TypeProc, NEW p \in Procs PROVE job = [job EXCEPT ![p] = job[p]]
  BY DEF TypeProc

LEMMA DoneMoves ==
  ASSUME TypeProc, LocalInv, NEW p \in Procs, pc[p] \in Working \cup {"put"}, Done(p)
  PROVE  \E l, f, j : /\ Moved(p, l, NoConn, f, j) /\ Fits(p, l, NoConn, f, j)'
                      /\ l \notin {"put", "writing"}
                      /\ IF job[p] = "broadcast" THEN j = "broadcast" /\ f = frame[p] ELSE j = "none" /\ f = NoFrame
<1>1. Fits(p, pc[p], on[p], frame[p], job[p])
  BY DEF LocalInv
<1>2. CASE job[p] = "broadcast"
  <2>1. PICK f \in Messages : f = frame[p]
    BY <1>1, <1>2 DEF Fits
  <2>2. Moved(p, "deliver", NoConn, f, "broadcast")
    BY <1>2, <2>1, SameJob DEF Done, Goto, Moved
  <2>3. Fits(p, "deliver", NoConn, f, "broadcast")'
    <3>1. p \notin Pumps
      BY <1>1, <1>2 DEF Fits
    <3>2. QED
      BY <2>1, <3>1, NullFacts DEF Fits, Labels, Resting, Working, Jobs
  <2>4. QED
    BY <1>2, <2>1, <2>2, <2>3
<1>3. CASE job[p] # "broadcast"
  <2>1. PICK l : l = Home(p)
    OBVIOUS
  <2>2. Moved(p, l, NoConn, NoFrame, "none")
    BY <1>3, <2>1 DEF Done, Goto, Moved
  <2>3. l \in {"ended", "user"} /\ (p \in Pumps => l = "ended")
    BY <2>1 DEF Home
  <2>4. Fits(p, l, NoConn, NoFrame, "none")'
    BY <2>3 DEF Fits, Labels, Resting, Working, Jobs
  <2>5. QED
    BY <1>3, <2>2, <2>3, <2>4
<1>4. QED
  BY <1>2, <1>3

LEMMA AtMoves ==
  ASSUME TypeProc, LocalInv, NEW p \in Procs, NEW l, At(p, l), job' = job
  PROVE  \E c, f, j : /\ c = on[p] /\ f = frame[p] /\ j = job[p]
                      /\ Moved(p, l, c, f, j) /\ Fits(p, pc[p], c, f, j)
<1>1. PICK c, f, j : c = on[p] /\ f = frame[p] /\ j = job[p]
  OBVIOUS
<1>2. Fits(p, pc[p], c, f, j)
  BY <1>1 DEF LocalInv
<1>3. Moved(p, l, c, f, j)
  BY <1>1, SameJob DEF At, Goto, Moved
<1>4. QED
  BY <1>1, <1>2, <1>3

\* A call goes on to its next place.
LEMMA AtFits ==
  ASSUME NEW p \in Procs, NEW k, NEW l \in Working, NEW c, NEW f, NEW j, Fits(p, k, c, f, j),
         k \in Working \cup {"put"}, l \in {"lock", "writing"} => k = "lock" \/ p \notin Pumps,
         l \in {"leaveAll", "hangup"} => closed'[c]
  PROVE  Fits(p, l, c, f, j)'
BY DEF Fits, Working, Labels, Resting

-----------------------------------------------------------------------------
(* What a step of the hub does to messages.  p goes to l, on c, with f.    *)

\* No message goes anywhere; the pump lets go of its frame only when its
\* connection is closed, a broadcast only of a closed member.
Steady(p, l, c, f, j) ==
  /\ UNCHANGED <<closed, queue, wire, audience>>
  /\ \A q \in Procs : todo'[q] \subseteq todo[q] /\ \A d \in todo[q] \ todo'[q] : closed[d]
  /\ f = frame[p] \/ f \notin Messages
  /\ l = "put" => f \notin Messages
  /\ IF job[p] = "broadcast"
     THEN \/ j = "broadcast" /\ f = frame[p] /\ (c # on[p] => c = NoConn /\ closed[on[p]])
          \/ todo[p] = {} /\ on[p] = NoConn
     ELSE j # "broadcast"
  /\ p \in Pumps => IF closed[p[2]] THEN l # "writing" ELSE f = frame[p]

\* A broadcast comes to its next member.
Chooses(p, l, c, f, j) ==
  /\ l = "put" /\ f = frame[p] /\ j = "broadcast" /\ job[p] = "broadcast"
  /\ pc[p] = "deliver" /\ c \in todo[p]
  /\ todo' = [todo EXCEPT ![p] = @ \ {c}]
  /\ UNCHANGED <<closed, queue, wire, audience>>

\* p sends a message that is new, to c or to the members of a topic.
Begins(p, l, c, f, j) ==
  /\ p \notin Pumps /\ f \in Unused /\ job[p] # "broadcast"
  /\ \E A \in SUBSET Conns :
       /\ audience' = [audience EXCEPT ![f] = A]
       /\ \/ j = "broadcast" /\ l # "put" /\ c = NoConn /\ todo' = [todo EXCEPT ![p] = A]
          \/ j # "broadcast" /\ A = {} /\ UNCHANGED todo
  /\ UNCHANGED <<closed, queue, wire>>

\* p's frame is queued.
Puts(p, l, c, f, j) ==
  /\ pc[p] = "put" /\ Len(queue[on[p]]) < QueueSize
  /\ queue' = [queue EXCEPT ![on[p]] = Append(@, frame[p])]
  /\ l # "put" /\ c = NoConn
  /\ IF job[p] = "broadcast" THEN j = "broadcast" /\ f = frame[p] ELSE j # "broadcast" /\ f = NoFrame
  /\ UNCHANGED <<closed, wire, todo, audience>>

\* The pump takes a frame.
Takes(p, l, c, f, j) ==
  /\ p \in Pumps /\ pc[p] = "take" /\ l = "lock" /\ c = p[2] /\ j = job[p]
  /\ queue[c] # <<>> /\ f = Head(queue[c])
  /\ queue' = [queue EXCEPT ![c] = Tail(@)]
  /\ UNCHANGED <<closed, wire, todo, audience>>

\* The pump has written its frame.
Delivers(p, l, c, f, j) ==
  /\ p \in Pumps /\ pc[p] = "writing" /\ l = "take" /\ c = on[p] /\ f = NoFrame /\ j = job[p]
  /\ wire' = [wire EXCEPT ![c] = @ \o Text(frame[p])]
  /\ UNCHANGED <<closed, queue, todo, audience>>

\* p closes a connection.
Shuts(p, l, c, f, j) ==
  /\ pc[p] = "close" /\ l = "leaveAll" /\ c = on[p] /\ f = frame[p] /\ j = job[p]
  /\ ~closed[c] /\ closed' = [closed EXCEPT ![c] = TRUE]
  /\ UNCHANGED <<queue, wire, todo, audience>>

\* A connection's goroutines start, or nothing moves.
Wakes ==
  /\ UNCHANGED <<closed, queue, wire, todo, audience, on, frame, job>>
  /\ \A q \in Procs : \/ pc'[q] = pc[q]
                      \/ pc'[q] \in {"user", "take", "tick"} /\ frame[q] = NoFrame

Effect(p, l, c, f, j) ==
  \/ Steady(p, l, c, f, j) \/ Chooses(p, l, c, f, j) \/ Begins(p, l, c, f, j) \/ Puts(p, l, c, f, j)
  \/ Takes(p, l, c, f, j) \/ Delivers(p, l, c, f, j) \/ Shuts(p, l, c, f, j)

Classified == Wakes \/ \E p \in Procs : \E l, c, f, j : Moved(p, l, c, f, j) /\ Effect(p, l, c, f, j)

Good == TypeOK /\ LocalInv /\ Dormant

\* The steps keep types and places when the one that moves fits its place.
LEMMA Keeps ==
  ASSUME Good, NEW p \in Procs, NEW l, NEW c, NEW f, NEW j, Moved(p, l, c, f, j),
         Fits(p, l, c, f, j)', pc[p] # "off", Effect(p, l, c, f, j), TypeData', Exclusive',
         \A d \in Conns : closed[d] => closed'[d],
         \A d \in Conns : socket'[d] = "none" => socket[d] = "none"
  PROVE  Good' /\ Classified
<1>1. TypeProc /\ LocalInv /\ Dormant
  BY TypeParts DEF Good
<1>2. TypeProc' /\ LocalInv' /\ Dormant'
  BY <1>1, MovedKeeps
<1>3. TypeOK'
  BY <1>2, TypeParts DEF TypeOK, TypeData, TypeProc, Exclusive, Jobs
<1>4. QED
  BY <1>2, <1>3 DEF Good, Classified

\* Most steps leave the data alone, but for a socket, an event or todo.
LEMMA SteadyKeeps ==
  ASSUME Good, NEW p \in Procs, NEW l, NEW c, NEW f, NEW j, Moved(p, l, c, f, j),
         Fits(p, l, c, f, j)', pc[p] # "off", Steady(p, l, c, f, j), Exclusive',
         socket' \in [Conns -> {"none", "open", "closed"}],
         event' \in [Conns -> {"none", "open", "closed", "ended"}],
         members' \in [Topics -> SUBSET Conns],
         todo' \in [Procs -> SUBSET Conns],
         \A d \in Conns : socket'[d] = "none" => socket[d] = "none"
  PROVE  Good' /\ Classified
<1>1. TypeData
  BY TypeParts DEF Good
<1>2. TypeData'
  BY <1>1 DEF TypeData, Steady
<1>3. \A d \in Conns : closed[d] => closed'[d]
  BY DEF Steady
<1>4. QED
  BY <1>2, <1>3, Keeps DEF Effect

-----------------------------------------------------------------------------
(* The actions, one by one.                                                *)

LEMMA GoodParts ==
  ASSUME Good
  PROVE  TypeData /\ TypeProc /\ Exclusive /\ LocalInv /\ Dormant
BY TypeParts DEF Good

\* What a process that is somewhere holds, by names that do not change.
LEMMA Holds ==
  ASSUME Good, NEW p \in Procs
  PROVE  \E c, f, j : c = on[p] /\ f = frame[p] /\ j = job[p] /\ Fits(p, pc[p], c, f, j)
<1>1. PICK c, f, j : c = on[p] /\ f = frame[p] /\ j = job[p]
  OBVIOUS
<1>2. Fits(p, pc[p], c, f, j)
  BY <1>1 DEF Good, LocalInv
<1>3. QED
  BY <1>1, <1>2

LEMMA Stays ==
  ASSUME NEW p \in Procs, NEW l, NEW c, NEW f, NEW j, c = on[p], f = frame[p], j = job[p],
         l # "put", p \in Pumps => (closed[p[2]] => l # "writing"),
         UNCHANGED <<closed, queue, wire, audience>>,
         \A q \in Procs : todo'[q] \subseteq todo[q] /\ \A d \in todo[q] \ todo'[q] : closed[d]
  PROVE  Steady(p, l, c, f, j)
<1>1. f = frame[p] \/ f \notin Messages
  OBVIOUS
<1>2. l = "put" => f \notin Messages
  OBVIOUS
<1>3. IF job[p] = "broadcast"
      THEN \/ j = "broadcast" /\ f = frame[p] /\ (c # on[p] => c = NoConn /\ closed[on[p]])
           \/ todo[p] = {} /\ on[p] = NoConn
      ELSE j # "broadcast"
  <2>1. CASE job[p] = "broadcast"
    <3>1. j = "broadcast"
      BY <2>1
    <3>2. c # on[p] => c = NoConn /\ closed[on[p]]
      OBVIOUS
    <3>3. f = frame[p]
      OBVIOUS
    <3>4. QED
      BY <2>1, <3>1, <3>2, <3>3
  <2>2. CASE job[p] # "broadcast"
    BY <2>2
  <2>3. QED
    BY <2>1, <2>2
<1>4. p \in Pumps => IF closed[p[2]] THEN l # "writing" ELSE f = frame[p]
  OBVIOUS
<1>5. QED
  BY <1>1, <1>2, <1>3, <1>4 DEF Steady

LEMMA BroadcastReturnsStep ==
  ASSUME Good, NEW p \in Procs, BroadcastReturns(p) PROVE Good' /\ Classified
<1>1. PICK c, f, j : c = on[p] /\ f = frame[p] /\ j = job[p] /\ Fits(p, pc[p], c, f, j)
  BY Holds
<1>2. p \notin Pumps /\ c = NoConn /\ j = "broadcast"
  BY <1>1 DEF Fits, BroadcastReturns, Working
<1>3. Moved(p, "user", NoConn, NoFrame, "none")
  BY DEF BroadcastReturns, Goto, Moved
<1>4. Fits(p, "user", NoConn, NoFrame, "none")'
  BY <1>2 DEF Fits, Labels, Jobs, Working, Resting
<1>5. Steady(p, "user", NoConn, NoFrame, "none")
  BY <1>1, <1>2, NullFacts DEF Steady, BroadcastReturns, connVars
<1>6. Exclusive'
  BY <1>3, GoodParts, WriterKept DEF BroadcastReturns, connVars
<1>7. TypeData /\ pc[p] # "off" /\ UNCHANGED <<socket, event, members, todo>>
  BY GoodParts DEF BroadcastReturns, connVars
<1>8. QED
  BY <1>3, <1>4, <1>5, <1>6, <1>7, SteadyKeeps DEF TypeData

LEMMA NextMemberStep ==
  ASSUME Good, NEW p \in Procs, NextMember(p) PROVE Good' /\ Classified
<1>1. PICK c, f, j : c = on[p] /\ f = frame[p] /\ j = job[p] /\ Fits(p, pc[p], c, f, j)
  BY Holds
<1>2. p \notin Pumps /\ c = NoConn /\ j = "broadcast" /\ f \in Messages
  BY <1>1 DEF Fits, NextMember, Working
<1>3. PICK d \in todo[p] :
        /\ todo' = [todo EXCEPT ![p] = @ \ {d}]
        /\ IF closed[d] THEN UNCHANGED <<pc, on, frame, job>> ELSE StartPut(p, d, frame[p], "broadcast")
  BY DEF NextMember
<1>4. TypeData /\ TypeProc /\ Exclusive /\ pc[p] = "deliver" /\ UNCHANGED <<connVars, members, audience>>
  BY GoodParts DEF NextMember
<1>5. /\ todo' \in [Procs -> SUBSET Conns] /\ d \in Conns /\ todo'[p] = todo[p] \ {d}
      /\ \A q \in Procs : q # p => todo'[q] = todo[q]
  BY <1>3, <1>4 DEF TypeData
<1>6. CASE closed[d]
  <2>1. Moved(p, "deliver", c, f, j)
    BY <1>1, <1>3, <1>4, <1>6 DEF Moved, TypeProc
  <2>2. Fits(p, "deliver", c, f, j)'
    BY <1>1, <1>2, <1>4 DEF Fits, Working, Resting
  <2>3. Steady(p, "deliver", c, f, j)
    <3>1. \A q \in Procs : todo'[q] \subseteq todo[q] /\ \A e \in todo[q] \ todo'[q] : closed[e]
      BY <1>5, <1>6
    <3>2. QED
      BY <1>1, <1>2, <1>4, <3>1, Stays DEF connVars
  <2>4. Exclusive'
    BY <2>1, <1>4, WriterKept DEF connVars
  <2>5. QED
    BY <2>1, <2>2, <2>3, <2>4, <1>4, <1>5, SteadyKeeps DEF TypeData, connVars
<1>7. CASE ~closed[d]
  <2>1. Moved(p, "put", d, f, "broadcast")
    BY <1>1, <1>3, <1>7 DEF Moved, StartPut, Goto
  <2>2. Fits(p, "put", d, f, "broadcast")'
    BY <1>2, <1>5, NullFacts DEF Fits, Working, Resting, Labels, Jobs
  <2>3. Chooses(p, "put", d, f, "broadcast")
    BY <1>1, <1>2, <1>3, <1>4 DEF Chooses, connVars
  <2>4. Exclusive'
    BY <2>1, <1>4, WriterKept DEF connVars
  <2>5. TypeData'
    BY <1>4, <1>5 DEF TypeData, connVars
  <2>6. QED
    BY <2>1, <2>2, <2>3, <2>4, <2>5, <1>4, Keeps DEF Effect, connVars
<1>8. QED
  BY <1>6, <1>7

LEMMA PutAcceptedStep ==
  ASSUME Good, NEW p \in Procs, PutAccepted(p) PROVE Good' /\ Classified
<1>1. PICK c, f, j : c = on[p] /\ f = frame[p] /\ j = job[p] /\ Fits(p, pc[p], c, f, j)
  BY Holds
<1>2. p \notin Pumps /\ c \in Conns /\ f \in Frames
  BY <1>1 DEF Fits, PutAccepted, Working
<1>3. TypeData /\ TypeProc /\ Exclusive /\ LocalInv
  BY GoodParts
<1>4. TypeData'
  <2>1. queue[c] \in Seq(Frames) /\ Len(queue[c]) < QueueSize /\ queue' = [queue EXCEPT ![c] = Append(@, f)]
    BY <1>1, <1>2, <1>3 DEF TypeData, PutAccepted
  <2>2. Append(queue[c], f) \in Seq(Frames) /\ Len(Append(queue[c], f)) = Len(queue[c]) + 1
    BY <2>1, <1>2
  <2>3. Len(Append(queue[c], f)) <= QueueSize
    <3>1. Len(queue[c]) \in Nat
      BY <2>1
    <3>2. QED
      BY <2>1, <2>2, <3>1, QueueSizeAssumption
  <2>4. queue \in [Conns -> Seq(Frames)] /\ \A d \in Conns : Len(queue[d]) <= QueueSize
    BY <1>3 DEF TypeData
  <2>5. queue' \in [Conns -> Seq(Frames)] /\ \A d \in Conns : Len(queue'[d]) <= QueueSize
    BY <1>2, <2>1, <2>2, <2>3, <2>4
  <2>6. QED
    BY <2>5, <1>3 DEF TypeData, PutAccepted
<1>5. \E l, g, k : /\ Moved(p, l, NoConn, g, k) /\ Fits(p, l, NoConn, g, k)' /\ l \notin {"put", "writing"}
                   /\ IF job[p] = "broadcast" THEN k = "broadcast" /\ g = frame[p]
                      ELSE k # "broadcast" /\ g = NoFrame
  <2>1. CASE job[p] = "ping"
    <3>1. Moved(p, "tick", NoConn, NoFrame, "ping")
      BY <2>1, <1>3, SameJob DEF PutAccepted, Moved, Goto
    <3>2. Fits(p, "tick", NoConn, NoFrame, "ping")'
      BY <1>2 DEF Fits, Working, Resting, Labels, Jobs
    <3>3. QED
      BY <2>1, <3>1, <3>2
  <2>2. CASE job[p] = "pong"
    <3>1. Moved(p, "next", NoConn, NoFrame, "none")
      BY <2>2 DEF PutAccepted, Moved, Goto
    <3>2. Fits(p, "next", NoConn, NoFrame, "none")'
      BY <1>2 DEF Fits, Working, Resting, Labels, Jobs
    <3>3. QED
      BY <2>2, <3>1, <3>2
  <2>3. CASE job[p] \notin {"ping", "pong"}
    <3>1. Done(p) /\ pc[p] \in Working \cup {"put"}
      BY <2>3 DEF PutAccepted
    <3>2. QED
      BY <3>1, <1>3, DoneMoves
  <2>4. QED
    BY <2>1, <2>2, <2>3
<1>6. PICK l, g, k : /\ Moved(p, l, NoConn, g, k) /\ Fits(p, l, NoConn, g, k)' /\ l \notin {"put", "writing"}
                     /\ IF job[p] = "broadcast" THEN k = "broadcast" /\ g = frame[p]
                        ELSE k # "broadcast" /\ g = NoFrame
  BY <1>5
<1>7. Puts(p, l, NoConn, g, k)
  BY <1>6 DEF Puts, PutAccepted
<1>8. Exclusive'
  BY <1>3, <1>6, WriterKept DEF PutAccepted
<1>9. pc[p] # "off" /\ closed' = closed /\ socket' = socket
  BY DEF PutAccepted
<1>10. QED
  BY <1>4, <1>6, <1>7, <1>8, <1>9, Keeps DEF Effect

\* A call ends on a connection that is closed.
LEMMA DoneKeeps ==
  ASSUME Good, NEW p \in Procs, pc[p] \in {"put", "close", "hangup"}, closed[on[p]], Done(p),
         UNCHANGED <<closed, queue, writer, wire, members, todo, audience>>,
         socket' \in [Conns -> {"none", "open", "closed"}],
         event' \in [Conns -> {"none", "open", "closed", "ended"}],
         \A d \in Conns : socket'[d] = "none" => socket[d] = "none"
  PROVE  Good' /\ Classified
<1>1. TypeData /\ TypeProc /\ Exclusive /\ LocalInv
  BY GoodParts
<1>2. PICK l, f, j : /\ Moved(p, l, NoConn, f, j) /\ Fits(p, l, NoConn, f, j)'
                     /\ l \notin {"put", "writing"}
                     /\ IF job[p] = "broadcast" THEN j = "broadcast" /\ f = frame[p] ELSE j = "none" /\ f = NoFrame
  BY <1>1, DoneMoves DEF Working
<1>3. Fits(p, pc[p], on[p], frame[p], job[p])
  BY <1>1 DEF LocalInv
<1>4. p \in Pumps => closed[p[2]]
  BY <1>3 DEF Fits, Working
<1>5. Steady(p, l, NoConn, f, j)
  BY <1>2, <1>4, NullFacts DEF Steady
<1>6. Exclusive'
  BY <1>1, <1>2, WriterKept
<1>7. members' \in [Topics -> SUBSET Conns] /\ todo' \in [Procs -> SUBSET Conns] /\ pc[p] # "off"
  BY <1>1 DEF TypeData
<1>8. QED
  BY <1>2, <1>5, <1>6, <1>7, SteadyKeeps

LEMMA EventType ==
  ASSUME TypeData, NEW c \in Conns, NEW e \in {"none", "open", "closed", "ended"}
  PROVE  [event EXCEPT ![c] = e] \in [Conns -> {"none", "open", "closed", "ended"}]
BY DEF TypeData

LEMMA PutRefusedStep ==
  ASSUME Good, NEW p \in Procs, PutRefused(p) PROVE Good' /\ Classified
<1>1. TypeData /\ LocalInv
  BY GoodParts
<1>2. on[p] \in Conns
  BY <1>1 DEF LocalInv, Fits, PutRefused
<1>3. event' \in [Conns -> {"none", "open", "closed", "ended"}]
  BY <1>1, <1>2, EventType DEF PutRefused, TypeData
<1>4. socket' \in [Conns -> {"none", "open", "closed"}] /\ socket' = socket
  BY <1>1 DEF PutRefused, TypeData
<1>5. QED
  BY <1>3, <1>4, DoneKeeps DEF PutRefused

LEMMA PutSlowStep ==
  ASSUME Good, NEW p \in Procs, PutSlow(p) PROVE Good' /\ Classified
<1>1. PICK c, f, j : c = on[p] /\ f = frame[p] /\ j = job[p] /\ Fits(p, pc[p], c, f, j)
  BY Holds
<1>2. TypeData /\ TypeProc /\ Exclusive
  BY GoodParts
<1>3. Moved(p, "lock", c, f, j)
  BY <1>1, <1>2 DEF Moved, TypeProc, PutSlow
<1>4. p \notin Pumps /\ c \in Conns
  BY <1>1 DEF Fits, PutSlow, Working
<1>5. Fits(p, "lock", c, f, j)'
  BY <1>1, <1>4, AtFits DEF PutSlow, Working
<1>6. Steady(p, "lock", c, f, j)
  BY <1>1, <1>4, Stays DEF PutSlow
<1>7. Exclusive'
  BY <1>2, <1>3, WriterKept DEF PutSlow
<1>8. event' \in [Conns -> {"none", "open", "closed", "ended"}]
  BY <1>1, <1>2, <1>4, EventType DEF PutSlow, TypeData
<1>9. pc[p] # "off" /\ UNCHANGED <<socket, members, todo>>
  BY DEF PutSlow
<1>10. QED
  BY <1>2, <1>3, <1>5, <1>6, <1>7, <1>8, <1>9, SteadyKeeps DEF TypeData

LEMMA LockWriteStep ==
  ASSUME Good, NEW p \in Procs, LockWrite(p) PROVE Good' /\ Classified
<1>1. TypeData /\ TypeProc /\ Exclusive /\ LocalInv
  BY GoodParts
<1>2. PICK l \in {"close", "writing"} :
        /\ At(p, l) /\ l = IF closed[on[p]] THEN "close" ELSE "writing"
        /\ writer' = IF l = "close" THEN writer ELSE [writer EXCEPT ![on[p]] = p]
  BY DEF LockWrite
<1>3. job' = job /\ pc[p] = "lock" /\ writer[on[p]] = Nobody
  BY DEF LockWrite
<1>4. PICK c, f, j : /\ c = on[p] /\ f = frame[p] /\ j = job[p]
                     /\ Moved(p, l, c, f, j) /\ Fits(p, pc[p], c, f, j)
  BY <1>1, <1>2, <1>3, AtMoves
<1>5. Fits(p, l, c, f, j)'
  BY <1>2, <1>3, <1>4, AtFits DEF Working
<1>6. c \in Conns /\ (p \in Pumps => c = p[2])
  BY <1>3, <1>4 DEF Fits, Working
<1>7. Steady(p, l, c, f, j)
  BY <1>2, <1>4, <1>6, Stays DEF LockWrite
<1>8. Exclusive'
  <2>1. CASE l = "close"
    BY <2>1, <1>1, <1>2, <1>3, <1>4, WriterKept
  <2>2. CASE l = "writing"
    <3>1. /\ pc'[p] = "writing" /\ on'[p] = c
          /\ \A q \in Procs : q # p => pc'[q] = pc[q] /\ on'[q] = on[q]
      BY <2>2, <1>1, <1>4, MovedFacts
    <3>2. writer' = [writer EXCEPT ![c] = p] /\ writer[c] = Nobody
      BY <2>2, <1>2, <1>3, <1>4
    <3>3. writer' \in [Conns -> Procs \cup {Nobody}]
      BY <1>1, <3>2 DEF Exclusive
    <3>4. ASSUME NEW d \in Conns, NEW q \in Procs
          PROVE  writer'[d] = q <=> pc'[q] = "writing" /\ on'[q] = d
      <4>1. CASE d = c
        <5>1. writer'[d] = p /\ writer[d] # q
          BY <4>1, <1>1, <3>2, ProcFacts DEF Exclusive
        <5>2. q # p => ~(pc[q] = "writing" /\ on[q] = d)
          BY <1>1, <5>1 DEF Exclusive
        <5>3. QED
          BY <4>1, <3>1, <5>1, <5>2
      <4>2. CASE d # c
        <5>1. writer'[d] = writer[d] /\ (writer[d] = q <=> pc[q] = "writing" /\ on[q] = d)
          BY <4>2, <1>1, <3>2 DEF Exclusive
        <5>2. pc[p] # "writing"
          BY <1>3
        <5>3. QED
          BY <4>2, <3>1, <5>1, <5>2
      <4>3. QED
        BY <4>1, <4>2
    <3>5. QED
      BY <3>3, <3>4 DEF Exclusive
  <2>3. QED
    BY <2>1, <2>2
<1>9. pc[p] # "off" /\ UNCHANGED <<socket, event, members, todo>>
  BY <1>3 DEF LockWrite
<1>10. QED
  BY <1>1, <1>4, <1>5, <1>7, <1>8, <1>9, SteadyKeeps DEF TypeData

\* Only the pump writes messages.
LEMMA WriteOkStep ==
  ASSUME Good, NEW p \in Procs, WriteOk(p) PROVE Good' /\ Classified
<1>1. TypeData /\ TypeProc /\ Exclusive /\ LocalInv
  BY GoodParts
<1>2. PICK c, f, j : c = on[p] /\ f = frame[p] /\ j = job[p] /\ Fits(p, pc[p], c, f, j)
  BY Holds
<1>3. /\ pc[p] = "writing" /\ wire' = [wire EXCEPT ![c] = @ \o Text(Writes(p))]
      /\ writer' = [writer EXCEPT ![on[p]] = Nobody] /\ job' = job
      /\ UNCHANGED <<closed, queue, socket, event, members, todo, audience>>
  BY <1>2 DEF WriteOk
<1>4. c \in Conns /\ (p \in Pumps => c = p[2] /\ j = "none") /\ f \in Frames \cup {NoFrame}
  BY <1>2, <1>3 DEF Fits, Working
<1>5. wire[c] \in Seq(Messages)
  BY <1>1, <1>4 DEF TypeData
<1>6. CASE p \in Pumps
  <2>1. Moved(p, "take", c, NoFrame, j)
    BY <1>2, <1>3, <1>6, SameJob, <1>1 DEF WriteOk, Written, Moved, Goto
  <2>2. Fits(p, "take", c, NoFrame, j)'
    BY <1>4, <1>6 DEF Fits, Working, Resting, Labels, Jobs
  <2>3. Delivers(p, "take", c, NoFrame, j)
    BY <1>2, <1>3, <1>6 DEF Delivers, Writes
  <2>4. wire' \in [Conns -> Seq(Messages)]
    <3>1. Text(f) \in Seq(Messages)
      BY DEF Text
    <3>2. wire[c] \o Text(f) \in Seq(Messages)
      BY <1>5, <3>1
    <3>3. wire \in [Conns -> Seq(Messages)]
      BY <1>1 DEF TypeData
    <3>4. QED
      BY <3>2, <3>3, <1>2, <1>3, <1>4, <1>6 DEF Writes
  <2>5. TypeData'
    BY <2>4, <1>1, <1>3 DEF TypeData
  <2>6. Exclusive'
    BY <2>1, <1>1, <1>2, <1>3, <1>4, WriterGone
  <2>7. QED
    BY <2>1, <2>2, <2>3, <2>5, <2>6, <1>3, Keeps DEF Effect
<1>7. CASE p \notin Pumps
  <2>1. wire' = wire
    <3>1. Text(Writes(p)) = <<>>
      BY <1>7, NullFacts DEF Writes, Text
    <3>2. wire[c] \o <<>> = wire[c]
      BY <1>5
    <3>3. wire \in [Conns -> Seq(Messages)]
      BY <1>1 DEF TypeData
    <3>4. QED
      BY <3>1, <3>2, <3>3, <1>3
  <2>2. At(p, "close")
    BY <1>7 DEF WriteOk, Written
  <2>3. PICK d, g, k : /\ d = on[p] /\ g = frame[p] /\ k = job[p]
                       /\ Moved(p, "close", d, g, k) /\ Fits(p, pc[p], d, g, k)
    BY <1>1, <1>3, <2>2, AtMoves
  <2>4. Fits(p, "close", d, g, k)'
    BY <1>3, <2>3, AtFits DEF Working
  <2>5. Steady(p, "close", d, g, k)
    BY <1>3, <1>7, <2>1, <2>3, Stays
  <2>6. Exclusive'
    BY <2>3, <1>1, <1>2, <1>3, <1>4, WriterGone
  <2>7. QED
    BY <2>3, <2>4, <2>5, <2>6, <1>1, <1>3, SteadyKeeps DEF TypeData
<1>8. QED
  BY <1>6, <1>7

LEMMA WriteFailsStep ==
  ASSUME Good, NEW p \in Procs, WriteFails(p) PROVE Good' /\ Classified
<1>1. TypeData /\ TypeProc /\ Exclusive /\ LocalInv
  BY GoodParts
<1>2. At(p, "close") /\ job' = job /\ pc[p] = "writing"
  BY DEF WriteFails, Written
<1>3. PICK c, f, j : /\ c = on[p] /\ f = frame[p] /\ j = job[p]
                     /\ Moved(p, "close", c, f, j) /\ Fits(p, pc[p], c, f, j)
  BY <1>1, <1>2, AtMoves
<1>4. Fits(p, "close", c, f, j)'
  BY <1>2, <1>3, AtFits DEF Working
<1>5. Steady(p, "close", c, f, j)
  BY <1>3, Stays DEF WriteFails
<1>6. c \in Conns
  BY <1>2, <1>3 DEF Fits, Working
<1>7. Exclusive'
  BY <1>1, <1>2, <1>3, <1>6, WriterGone DEF WriteFails
<1>8. UNCHANGED <<socket, event, members, todo>>
  BY DEF WriteFails
<1>9. QED
  BY <1>1, <1>2, <1>3, <1>4, <1>5, <1>7, <1>8, SteadyKeeps DEF TypeData

LEMMA SetClosedStep ==
  ASSUME Good, NEW p \in Procs, SetClosed(p) PROVE Good' /\ Classified
<1>1. TypeData /\ TypeProc /\ Exclusive /\ LocalInv
  BY GoodParts
<1>2. pc[p] = "close" /\ UNCHANGED <<queue, writer, socket, wire, event, members, todo, audience>>
  BY DEF SetClosed
<1>3. CASE closed[on[p]]
  BY <1>1, <1>2, <1>3, DoneKeeps DEF SetClosed, TypeData
<1>4. CASE ~closed[on[p]]
  <2>1. At(p, "leaveAll") /\ job' = job /\ closed' = [closed EXCEPT ![on[p]] = TRUE]
    BY <1>4 DEF SetClosed
  <2>2. PICK c, f, j : /\ c = on[p] /\ f = frame[p] /\ j = job[p]
                       /\ Moved(p, "leaveAll", c, f, j) /\ Fits(p, pc[p], c, f, j)
    BY <1>1, <2>1, AtMoves
  <2>3. c \in Conns
    BY <1>2, <2>2 DEF Fits, Working
  <2>4. closed' \in [Conns -> BOOLEAN] /\ closed'[c] /\ \A d \in Conns : closed[d] => closed'[d]
    BY <2>1, <2>2, <2>3, <1>1 DEF TypeData
  <2>5. Fits(p, "leaveAll", c, f, j)'
    BY <1>2, <2>2, <2>4, AtFits DEF Working
  <2>6. Shuts(p, "leaveAll", c, f, j)
    BY <1>2, <1>4, <2>1, <2>2 DEF Shuts
  <2>7. Exclusive'
    BY <1>1, <1>2, <2>2, WriterKept
  <2>8. TypeData'
    BY <1>1, <1>2, <2>4 DEF TypeData
  <2>9. QED
    BY <1>2, <2>2, <2>4, <2>5, <2>6, <2>7, <2>8, Keeps DEF Effect
<1>5. QED
  BY <1>3, <1>4

LEMMA LeaveAllStep ==
  ASSUME Good, NEW p \in Procs, LeaveAll(p) PROVE Good' /\ Classified
<1>1. TypeData /\ TypeProc /\ Exclusive /\ LocalInv
  BY GoodParts
<1>2. At(p, "hangup") /\ UNCHANGED <<connVars, job, todo, audience>> /\ pc[p] = "leaveAll"
  BY DEF LeaveAll
<1>3. PICK c, f, j : /\ c = on[p] /\ f = frame[p] /\ j = job[p]
                     /\ Moved(p, "hangup", c, f, j) /\ Fits(p, pc[p], c, f, j)
  BY <1>1, <1>2, AtMoves
<1>4. closed[c] /\ (p \in Pumps => c = p[2])
  BY <1>2, <1>3 DEF Fits, Working
<1>5. Fits(p, "hangup", c, f, j)'
  BY <1>2, <1>3, <1>4, AtFits DEF Working, connVars
<1>6. Steady(p, "hangup", c, f, j)
  BY <1>2, <1>3, Stays DEF connVars
<1>7. members' \in [Topics -> SUBSET Conns]
  BY <1>1 DEF TypeData, LeaveAll
<1>8. Exclusive'
  BY <1>1, <1>2, <1>3, WriterKept DEF connVars
<1>9. QED
  BY <1>1, <1>2, <1>3, <1>5, <1>6, <1>7, <1>8, SteadyKeeps DEF TypeData, connVars

LEMMA CloseSocketStep ==
  ASSUME Good, NEW p \in Procs, CloseSocket(p) PROVE Good' /\ Classified
<1>1. TypeData /\ LocalInv
  BY GoodParts
<1>2. pc[p] = "hangup" /\ socket' = [socket EXCEPT ![on[p]] = "closed"] /\ Done(p)
      /\ UNCHANGED <<closed, queue, writer, wire, event, members, todo, audience>>
  BY DEF CloseSocket
<1>3. on[p] \in Conns /\ closed[on[p]]
  BY <1>1, <1>2 DEF LocalInv, Fits, Working
<1>4. socket' \in [Conns -> {"none", "open", "closed"}] /\ \A d \in Conns : socket'[d] = "none" => socket[d] = "none"
  BY <1>1, <1>2, <1>3 DEF TypeData
<1>5. QED
  BY <1>1, <1>2, <1>3, <1>4, DoneKeeps DEF TypeData

\* A process that is in no call moves on, without a message.
LEMMA RestedKeeps ==
  ASSUME Good, NEW p \in Procs \ Pumps, pc[p] \in {"user", "next", "tick"},
         NEW l \in {"put", "lock", "close", "ended", "user", "next"},
         NEW c \in Conns \cup {NoConn}, NEW f \in {Control, NoFrame}, NEW j \in Jobs \ {"broadcast"},
         Moved(p, l, c, f, j),
         l \in {"put", "lock", "close"} => c \in Conns,
         f = IF l = "put" THEN Control ELSE NoFrame,
         UNCHANGED <<closed, queue, writer, socket, wire, members, todo, audience>>,
         event' \in [Conns -> {"none", "open", "closed", "ended"}]
  PROVE  Good' /\ Classified
<1>1. TypeData /\ TypeProc /\ Exclusive /\ LocalInv
  BY GoodParts
<1>2. Fits(p, l, c, f, j)'
  BY NullFacts DEF Fits, Working, Resting, Labels
<1>3. job[p] # "broadcast" /\ pc[p] # "off" /\ pc[p] # "writing"
  BY <1>1 DEF LocalInv, Fits, Resting
<1>4. Steady(p, l, c, f, j)
  BY <1>3, NullFacts DEF Steady
<1>5. Exclusive'
  BY <1>1, <1>3, WriterKept
<1>6. QED
  BY <1>1, <1>2, <1>3, <1>4, <1>5, SteadyKeeps DEF TypeData

LEMMA TickStep ==
  ASSUME Good, NEW c \in Conns, Tick(c) \/ KeepaliveEnds(c) PROVE Good' /\ Classified
<1>1. PICK p \in Procs \ Pumps : p = Keepalive(c)
  BY ProcFacts
<1>2. TypeData /\ TypeProc /\ LocalInv
  BY GoodParts
<1>3. CASE Tick(c)
  <2>1. Moved(p, "put", c, Control, "ping") /\ pc[p] = "tick"
    BY <1>1, <1>3 DEF Tick, StartPut, Goto, Moved
  <2>2. UNCHANGED <<connVars, members, todo, audience>>
    BY <1>3 DEF Tick
  <2>3. QED
    BY <2>1, <2>2, <1>2, RestedKeeps DEF connVars, TypeData, Jobs
<1>4. CASE KeepaliveEnds(c)
  <2>1. PICK j : j = job[p]
    OBVIOUS
  <2>2. Moved(p, "ended", NoConn, NoFrame, j) /\ pc[p] = "tick"
    BY <1>1, <1>2, <1>4, <2>1, SameJob DEF KeepaliveEnds, Goto, Moved
  <2>3. UNCHANGED <<connVars, members, todo, audience>>
    BY <1>4 DEF KeepaliveEnds
  <2>4. j \in Jobs \ {"broadcast"}
    BY <1>2, <2>1, <2>2 DEF LocalInv, Fits, Resting
  <2>5. QED
    BY <2>2, <2>3, <2>4, <1>2, RestedKeeps DEF connVars, TypeData
<1>5. QED
  BY <1>3, <1>4

LEMMA HandlerStep ==
  ASSUME Good, NEW c \in Conns, HandlerRuns(c) PROVE Good' /\ Classified
<1>1. PICK p \in Procs \ Pumps : p = Handler(c)
  BY ProcFacts
<1>2. TypeData /\ TypeProc /\ LocalInv
  BY GoodParts
<1>3. PICK j : j = job[p]
  OBVIOUS
<1>4. pc[p] \in {"user", "next"}
  BY <1>1 DEF HandlerRuns, EventEnds, NextMessage, NextPing, NextFails, HandlerReturns, HandlerPanics
<1>5. j \in Jobs \ {"broadcast"}
  BY <1>2, <1>3, <1>4 DEF LocalInv, Fits, Resting
<1>6. ASSUME NEW l, NEW d, Goto(p, l, d, NoFrame), job' = job PROVE Moved(p, l, d, NoFrame, j)
  BY <1>2, <1>3, <1>6, SameJob DEF Goto, Moved
<1>7. event \in [Conns -> {"none", "open", "closed", "ended"}]
  BY <1>2 DEF TypeData
<1>8. CASE EventEnds(c)
  <2>1. Goto(p, "next", NoConn, NoFrame) /\ job' = job /\ UNCHANGED <<connVars, members, todo, audience>>
    BY <1>1, <1>8 DEF EventEnds
  <2>2. QED
    BY <1>4, <1>5, <1>6, <1>7, <2>1, RestedKeeps DEF connVars
<1>9. CASE NextMessage(c)
  <2>1. Goto(p, "user", NoConn, NoFrame) /\ job' = job /\ UNCHANGED <<connVars, members, todo, audience>>
    BY <1>1, <1>9 DEF NextMessage
  <2>2. QED
    BY <1>4, <1>5, <1>6, <1>7, <2>1, RestedKeeps DEF connVars
<1>10. CASE NextPing(c)
  <2>1. Moved(p, "put", c, Control, "pong")
    BY <1>1, <1>10 DEF NextPing, StartPut, Goto, Moved
  <2>2. UNCHANGED <<connVars, members, todo, audience>>
    BY <1>10 DEF NextPing
  <2>3. QED
    BY <1>4, <1>7, <2>1, <2>2, RestedKeeps DEF connVars, Jobs
<1>11. CASE NextFails(c)
  <2>1. PICK l \in {"close", "lock"} : Goto(p, l, c, NoFrame)
    BY <1>1, <1>11 DEF NextFails
  <2>2. job' = job /\ UNCHANGED <<closed, queue, writer, socket, wire, members, todo, audience>>
    BY <1>11 DEF NextFails
  <2>3. event' \in [Conns -> {"none", "open", "closed", "ended"}]
    BY <1>2, <1>11, EventType DEF NextFails
  <2>4. QED
    BY <1>4, <1>5, <1>6, <2>1, <2>2, <2>3, RestedKeeps
<1>12. CASE HandlerReturns(c)
  <2>1. Goto(p, "ended", NoConn, NoFrame) /\ job' = job
    BY <1>1, <1>12 DEF HandlerReturns
  <2>2. UNCHANGED <<closed, queue, writer, socket, wire, members, todo, audience>>
    BY <1>12 DEF HandlerReturns
  <2>3. event' \in [Conns -> {"none", "open", "closed", "ended"}]
    BY <1>2, <1>12, EventType DEF HandlerReturns
  <2>4. QED
    BY <1>4, <1>5, <1>6, <2>1, <2>2, <2>3, RestedKeeps
<1>13. CASE HandlerPanics(c)
  <2>1. Goto(p, "close", c, NoFrame) /\ job' = job
    BY <1>1, <1>13 DEF HandlerPanics
  <2>2. UNCHANGED <<closed, queue, writer, socket, wire, members, todo, audience>>
    BY <1>13 DEF HandlerPanics
  <2>3. event' \in [Conns -> {"none", "open", "closed", "ended"}]
    BY <1>2, <1>13, EventType DEF HandlerPanics
  <2>4. QED
    BY <1>4, <1>5, <1>6, <2>1, <2>2, <2>3, RestedKeeps
<1>14. QED
  BY <1>8, <1>9, <1>10, <1>11, <1>12, <1>13 DEF HandlerRuns

LEMMA PumpStep ==
  ASSUME Good, NEW c \in Conns, PumpRuns(c) PROVE Good' /\ Classified
<1>1. PICK p \in Pumps : p = Pump(c) /\ p[2] = c /\ p \in Procs
  BY ProcFacts
<1>2. TypeData /\ TypeProc /\ Exclusive /\ LocalInv
  BY GoodParts
<1>3. PICK j : j = job[p]
  OBVIOUS
<1>4. pc[p] = "take" /\ job' = job
  BY <1>1 DEF PumpRuns, PumpTakes, PumpEnds
<1>5. j = "none"
  BY <1>1, <1>2, <1>3 DEF LocalInv, Fits
<1>6. CASE PumpTakes(c)
  <2>1. PICK f : f = Head(queue[c])
    OBVIOUS
  <2>2. /\ queue[c] # <<>> /\ queue' = [queue EXCEPT ![c] = Tail(@)]
        /\ UNCHANGED <<closed, writer, socket, wire, event, members, todo, audience>>
    BY <1>6 DEF PumpTakes
  <2>3. Moved(p, "lock", c, f, j)
    BY <1>1, <1>2, <1>3, <1>4, <1>6, <2>1, SameJob DEF PumpTakes, Goto, Moved
  <2>4. queue[c] \in Seq(Frames) /\ Len(queue[c]) <= QueueSize /\ Len(queue[c]) \in Nat
    BY <1>2 DEF TypeData
  <2>5. f \in Frames /\ Tail(queue[c]) \in Seq(Frames) /\ Len(Tail(queue[c])) = Len(queue[c]) - 1
    BY <2>1, <2>2, <2>4
  <2>6. Len(Tail(queue[c])) <= QueueSize
    BY <2>4, <2>5, QueueSizeAssumption
  <2>7. TypeData'
    <3>1. queue \in [Conns -> Seq(Frames)] /\ \A d \in Conns : Len(queue[d]) <= QueueSize
      BY <1>2 DEF TypeData
    <3>2. queue' \in [Conns -> Seq(Frames)] /\ \A d \in Conns : Len(queue'[d]) <= QueueSize
      BY <2>2, <2>5, <2>6, <3>1
    <3>3. QED
      BY <1>2, <2>2, <3>2 DEF TypeData
  <2>8. Fits(p, "lock", c, f, j)'
    BY <1>1, <1>5, <2>5, NullFacts DEF Fits, Working, Resting, Labels, Jobs
  <2>9. Takes(p, "lock", c, f, j)
    BY <1>1, <1>3, <1>4, <2>1, <2>2 DEF Takes
  <2>10. Exclusive'
    BY <1>1, <1>2, <1>4, <2>2, <2>3, WriterKept
  <2>11. QED
    BY <1>1, <1>4, <2>2, <2>3, <2>7, <2>8, <2>9, <2>10, Keeps DEF Effect
<1>7. CASE PumpEnds(c)
  <2>1. Moved(p, "close", c, NoFrame, j)
    BY <1>1, <1>2, <1>3, <1>4, <1>7, SameJob DEF PumpEnds, Goto, Moved
  <2>2. closed[c] /\ UNCHANGED <<connVars, members, todo, audience>>
    BY <1>7 DEF PumpEnds
  <2>3. Fits(p, "close", c, NoFrame, j)'
    BY <1>1, <1>5 DEF Fits, Working, Resting, Labels, Jobs
  <2>4. Steady(p, "close", c, NoFrame, j)
    BY <1>1, <1>3, <1>5, <2>2, NullFacts DEF Steady, connVars
  <2>5. Exclusive'
    BY <1>1, <1>2, <1>4, <2>1, <2>2, WriterKept DEF connVars
  <2>6. QED
    BY <1>1, <1>2, <1>4, <2>1, <2>2, <2>3, <2>4, <2>5, SteadyKeeps DEF TypeData, connVars
<1>8. QED
  BY <1>6, <1>7 DEF PumpRuns

LEMMA UpgradeStep ==
  ASSUME Good, NEW c \in Conns, Upgrade(c) PROVE Good' /\ Classified
<1>1. TypeData /\ TypeProc /\ Exclusive /\ LocalInv /\ Dormant
  BY GoodParts
<1>2. /\ socket[c] = "none" /\ socket' = [socket EXCEPT ![c] = "open"]
      /\ event' = [event EXCEPT ![c] = "open"]
      /\ pc' = [pc EXCEPT ![Handler(c)] = "user", ![Pump(c)] = "take", ![Keepalive(c)] = "tick"]
      /\ UNCHANGED <<closed, queue, writer, wire, members, on, frame, job, todo, audience>>
  BY DEF Upgrade
<1>3. PICK h, u, k \in Procs : h = Handler(c) /\ u = Pump(c) /\ k = Keepalive(c)
  BY ProcFacts
<1>4. pc[h] = "off" /\ pc[u] = "off" /\ pc[k] = "off" /\ u \in Pumps /\ h \notin Pumps /\ k \notin Pumps
  BY <1>1, <1>2, <1>3, ProcFacts DEF Dormant
<1>5. h # u /\ h # k /\ u # k
  BY <1>3 DEF Handler, Pump, Keepalive
<1>6. /\ pc' \in [Procs -> Labels] /\ pc'[h] = "user" /\ pc'[u] = "take" /\ pc'[k] = "tick"
      /\ \A q \in Procs \ {h, u, k} : pc'[q] = pc[q]
  BY <1>1, <1>2, <1>3, <1>5 DEF TypeProc, Labels
<1>7. TypeData'
  BY <1>1, <1>2 DEF TypeData
<1>8. TypeProc'
  BY <1>1, <1>2, <1>6 DEF TypeProc
<1>9. Exclusive'
  BY <1>1, <1>2, <1>4, <1>6 DEF Exclusive
<1>10. ASSUME NEW q \in Procs PROVE Fits(q, pc[q], on[q], frame[q], job[q])'
  <2>1. Fits(q, pc[q], on[q], frame[q], job[q])
    BY <1>1 DEF LocalInv
  <2>2. CASE q \in {h, u, k}
    <3>1. pc[q] = "off" /\ pc'[q] \in {"user", "take", "tick"} /\ (q \in Pumps <=> pc'[q] = "take")
      BY <1>4, <1>6, <2>2
    <3>2. QED
      BY <1>2, <2>1, <3>1 DEF Fits, Working, Resting, Labels
  <2>3. CASE q \notin {h, u, k}
    BY <1>2, <1>6, <2>1, <2>3 DEF Fits
  <2>4. QED
    BY <2>2, <2>3
<1>11. LocalInv'
  BY <1>10 DEF LocalInv
<1>12. Dormant'
  <2>1. ASSUME NEW d \in Conns, socket'[d] = "none"
        PROVE  pc'[Handler(d)] = "off" /\ pc'[Pump(d)] = "off" /\ pc'[Keepalive(d)] = "off"
    <3>1. d # c /\ socket[d] = "none"
      BY <2>1, <1>1, <1>2 DEF TypeData
    <3>2. /\ Handler(d) \in Procs \ {h, u, k} /\ Pump(d) \in Procs \ {h, u, k}
          /\ Keepalive(d) \in Procs \ {h, u, k}
      BY <1>3, <3>1, ProcFacts DEF Handler, Pump, Keepalive
    <3>3. QED
      BY <1>1, <1>6, <3>1, <3>2 DEF Dormant
  <2>2. QED
    BY <2>1 DEF Dormant
<1>13. Wakes
  <2>1. \A q \in {h, u, k} : frame[q] = NoFrame
    BY <1>1, <1>3, <1>4 DEF LocalInv, Fits, Resting
  <2>2. QED
    BY <1>2, <1>6, <2>1 DEF Wakes
<1>14. TypeOK'
  BY <1>7, <1>8, <1>9 DEF TypeOK, TypeData, TypeProc, Exclusive, Jobs
<1>15. QED
  BY <1>11, <1>12, <1>13, <1>14 DEF Good, Classified

LEMMA ProgramStep ==
  ASSUME Good, NEW p \in Callers, Program(p) PROVE Good' /\ Classified
<1>1. p \in Procs \ Pumps
  BY ProcFacts
<1>2. TypeData /\ TypeProc /\ Exclusive /\ LocalInv /\ Dormant
  BY GoodParts
<1>3. ASSUME NEW c \in Conns, NEW t \in Topics, Join(p, c, t) \/ Leave(p, c, t)
      PROVE  Good' /\ Classified
  <2>1. UNCHANGED <<connVars, procVars, audience>>
    BY <1>3 DEF Join, Leave
  <2>2. members' \in [Topics -> SUBSET Conns]
    <3>1. members \in [Topics -> SUBSET Conns]
      BY <1>2 DEF TypeData
    <3>2. CASE Join(p, c, t)
      BY <3>1, <3>2 DEF Join
    <3>3. CASE Leave(p, c, t)
      BY <3>1, <3>3 DEF Leave
    <3>4. QED
      BY <1>3, <3>2, <3>3
  <2>3. TypeOK'
    BY <2>1, <2>2 DEF Good, TypeOK, connVars, procVars
  <2>4. LocalInv' /\ Dormant'
    BY <1>2, <2>1 DEF LocalInv, Fits, Dormant, connVars, procVars
  <2>5. Wakes
    BY <2>1 DEF Wakes, connVars, procVars
  <2>6. QED
    BY <2>3, <2>4, <2>5 DEF Good, Classified
<1>4. ASSUME NEW c \in Conns, NEW m \in Messages, Send(p, c, m)
      PROVE  Good' /\ Classified
  <2>1. /\ pc[p] = "user" /\ Moved(p, "put", c, m, "call") /\ m \in Unused
        /\ audience' = [audience EXCEPT ![m] = {}]
        /\ UNCHANGED <<connVars, members, todo>>
    BY <1>4 DEF Send, MayUse, StartPut, Goto, Moved
  <2>2. Fits(p, "put", c, m, "call")'
    BY <1>1, NullFacts DEF Fits, Working, Resting, Labels, Jobs
  <2>3. job[p] # "broadcast"
    BY <1>1, <1>2, <2>1 DEF LocalInv, Fits, Resting
  <2>4. Begins(p, "put", c, m, "call")
    BY <1>1, <2>1, <2>3 DEF Begins, connVars
  <2>5. TypeData'
    BY <1>2, <2>1 DEF TypeData, connVars
  <2>6. Exclusive'
    BY <1>1, <1>2, <2>1, WriterKept DEF connVars
  <2>7. QED
    BY <1>1, <2>1, <2>2, <2>4, <2>5, <2>6, Keeps DEF Effect, connVars
<1>5. ASSUME NEW t \in Topics, NEW m \in Messages, Broadcast(p, t, m)
      PROVE  Good' /\ Classified
  <2>1. PICK A : A = members[t]
    OBVIOUS
  <2>2. /\ pc[p] = "user" /\ Moved(p, "deliver", NoConn, m, "broadcast") /\ m \in Unused
        /\ audience' = [audience EXCEPT ![m] = A] /\ todo' = [todo EXCEPT ![p] = A]
        /\ UNCHANGED <<connVars, members>>
    BY <1>5, <2>1 DEF Broadcast, Goto, Moved
  <2>3. A \in SUBSET Conns
    BY <1>2, <2>1 DEF TypeData
  <2>4. Fits(p, "deliver", NoConn, m, "broadcast")'
    BY <1>1, NullFacts DEF Fits, Working, Resting, Labels, Jobs
  <2>5. job[p] # "broadcast"
    BY <1>1, <1>2, <2>2 DEF LocalInv, Fits, Resting
  <2>6. Begins(p, "deliver", NoConn, m, "broadcast")
    BY <1>1, <2>2, <2>3, <2>5 DEF Begins, connVars
  <2>7. TypeData'
    BY <1>1, <1>2, <2>2, <2>3 DEF TypeData, connVars
  <2>8. Exclusive'
    BY <1>1, <1>2, <2>2, WriterKept DEF connVars
  <2>9. QED
    BY <1>1, <2>2, <2>4, <2>6, <2>7, <2>8, Keeps DEF Effect, connVars
<1>6. ASSUME NEW c \in Conns, CloseWith(p, c)
      PROVE  Good' /\ Classified
  <2>1. pc[p] = "user" /\ Moved(p, "lock", c, NoFrame, "call") /\ UNCHANGED <<connVars, members, todo, audience>>
    BY <1>6 DEF CloseWith, MayUse, Goto, Moved
  <2>2. QED
    BY <1>1, <1>2, <2>1, RestedKeeps DEF connVars, TypeData, Jobs
<1>7. QED
  BY <1>3, <1>4, <1>5, <1>6 DEF Program

\* Every step keeps types and places and is one of the steps named above.
LEMMA StepEffect ==
  ASSUME Good, [Next]_vars PROVE Good' /\ Classified
<1>1. ASSUME NEW p \in Procs, Runs(p) \/ WriteOk(p) PROVE Good' /\ Classified
  BY <1>1, NextMemberStep, BroadcastReturnsStep, PutAcceptedStep, PutRefusedStep, PutSlowStep, LockWriteStep,
     WriteOkStep, WriteFailsStep, SetClosedStep, LeaveAllStep, CloseSocketStep DEF Runs
<1>2. ASSUME UNCHANGED vars PROVE Good' /\ Classified
  <2>1. UNCHANGED <<closed, queue, writer, socket, wire, event, members, pc, on, frame, job, todo, audience>>
    BY <1>2 DEF vars, connVars, procVars
  <2>2. TypeOK'
    BY <2>1 DEF Good, TypeOK
  <2>3. LocalInv' /\ Dormant'
    BY <2>1 DEF Good, LocalInv, Fits, Dormant
  <2>4. Wakes
    BY <2>1 DEF Wakes
  <2>5. QED
    BY <2>2, <2>3, <2>4 DEF Good, Classified
<1>3. \A c \in Active : c \in Conns
  BY ActiveAssumption
<1>4. ASSUME NEW c \in Conns, KeepaliveEnds(c) PROVE Good' /\ Classified
  BY <1>4, TickStep
<1>5. ASSUME NEW c \in Active, HandlerRuns(c) \/ Tick(c) PROVE Good' /\ Classified
  BY <1>3, <1>5, TickStep, HandlerStep
<1>6. QED
  BY <1>1, <1>2, <1>4, <1>5, UpgradeStep, PumpStep, ProgramStep DEF Next

LEMMA GoodInit == Init => Good
<1>1. ASSUME Init PROVE Good
  <2>1. TypeData
    <3>1. queue \in [Conns -> Seq(Frames)] /\ \A c \in Conns : Len(queue[c]) <= QueueSize
      BY <1>1, QueueSizeAssumption DEF Init
    <3>2. wire \in [Conns -> Seq(Messages)]
      BY <1>1 DEF Init
    <3>3. audience \in [Messages -> (SUBSET Conns) \cup {{NoConn}}]
      BY <1>1 DEF Init
    <3>4. QED
      BY <1>1, <3>1, <3>2, <3>3 DEF Init, TypeData
  <2>2. TypeProc
    BY <1>1 DEF Init, TypeProc, Labels, Jobs
  <2>3. Exclusive
    BY <1>1, ProcFacts DEF Init, Exclusive
  <2>4. \A p \in Pumps : p \in Procs /\ pc[p] = "off"
    BY <1>1 DEF Init, Pumps, Procs, Spawned
  <2>5. LocalInv
    BY <1>1, <2>4, ProcFacts DEF Init, LocalInv, Fits, Working, Resting, Labels, Jobs
  <2>6. Dormant
    BY <1>1, ProcFacts DEF Init, Dormant, Handler, Pump, Keepalive, Spawned
  <2>7. QED
    BY <2>1, <2>2, <2>3, <2>5, <2>6, TypeParts DEF Good
<1>2. QED
  BY <1>1

\* The theorem's property is the type invariant: every field has the values
\* the code can give it, the queue keeps to LIAF_WS_QUEUE_SIZE, and exactly
\* the holder of writeMu is inside conn.Write (websocket.go).
THEOREM TypeCorrect == Spec => []TypeOK
<1>1. Good /\ [Next]_vars => Good'
  BY StepEffect
<1>2. Good => TypeOK
  BY DEF Good
<1>3. QED
  BY <1>1, <1>2, GoodInit, PTL DEF Spec

-----------------------------------------------------------------------------
(* Messages in sequences.                                                  *)

LEMMA HasAppend ==
  ASSUME NEW S, NEW s \in Seq(S), NEW x \in S, NEW m
  PROVE  Has(Append(s, x), m) <=> Has(s, m) \/ x = m
<1>1. PICK n \in Nat : Len(s) = n /\ DOMAIN s = 1..n
  OBVIOUS
<1>2. PICK t \in Seq(S) : t = Append(s, x)
  BY AppendProperties
<1>3. DOMAIN t = 1..(n + 1) /\ t[n + 1] = x /\ \A i \in 1..n : t[i] = s[i]
  BY <1>1, <1>2, AppendProperties
<1>4. \A i \in 1..(n + 1) : i \in 1..n \/ i = n + 1
  BY <1>1
<1>5. 1..n \subseteq 1..(n + 1) /\ n + 1 \in 1..(n + 1)
  BY <1>1
<1>6. Has(t, m) <=> Has(s, m) \/ x = m
  BY <1>1, <1>3, <1>4, <1>5 DEF Has
<1>7. QED
  BY <1>2, <1>6

LEMMA HasTail ==
  ASSUME NEW S, NEW s \in Seq(S), s # <<>>, NEW m
  PROVE  Has(s, m) <=> Head(s) = m \/ Has(Tail(s), m)
<1>1. PICK n \in Nat : Len(s) = n /\ DOMAIN s = 1..n
  OBVIOUS
<1>2. n >= 1 /\ Head(s) = s[1]
  BY <1>1
<1>3. PICK t \in Seq(S) : t = Tail(s)
  BY HeadTailProperties
<1>4. DOMAIN t = 1..(n - 1) /\ \A i \in 1..(n - 1) : t[i] = s[i + 1]
  BY <1>1, <1>2, <1>3
<1>5. \A i \in 1..(n - 1) : i + 1 \in 1..n
  BY <1>1, <1>2
<1>6. \A i \in 1..n : i = 1 \/ (i - 1 \in 1..(n - 1) /\ (i - 1) + 1 = i)
  BY <1>1, <1>2
<1>7. ASSUME Has(s, m) PROVE s[1] = m \/ Has(t, m)
  <2>1. PICK i \in 1..n : s[i] = m
    BY <1>1, <1>7 DEF Has
  <2>2. CASE i = 1
    BY <2>1, <2>2
  <2>3. CASE i # 1
    <3>1. i - 1 \in 1..(n - 1) /\ t[i - 1] = s[i]
      BY <1>4, <1>6, <2>3
    <3>2. QED
      BY <1>4, <2>1, <3>1 DEF Has
  <2>4. QED
    BY <2>2, <2>3
<1>8. ASSUME s[1] = m \/ Has(t, m) PROVE Has(s, m)
  <2>1. CASE s[1] = m
    BY <1>1, <1>2, <2>1 DEF Has
  <2>2. CASE Has(t, m)
    <3>1. PICK i \in 1..(n - 1) : t[i] = m
      BY <1>4, <2>2 DEF Has
    <3>2. i + 1 \in 1..n /\ s[i + 1] = m
      BY <1>4, <1>5, <3>1
    <3>3. QED
      BY <1>1, <3>2 DEF Has
  <2>3. QED
    BY <1>8, <2>1, <2>2
<1>9. QED
  BY <1>2, <1>3, <1>7, <1>8

LEMMA HasConcat ==
  ASSUME NEW S, NEW s \in Seq(S), NEW t \in Seq(S), NEW m
  PROVE  Has(s \o t, m) <=> Has(s, m) \/ Has(t, m)
<1>1. PICK n \in Nat : Len(s) = n /\ DOMAIN s = 1..n
  OBVIOUS
<1>2. PICK k \in Nat : Len(t) = k /\ DOMAIN t = 1..k
  OBVIOUS
<1>3. PICK u \in Seq(S) : u = s \o t
  BY ConcatProperties
<1>4. /\ DOMAIN u = 1..(n + k)
      /\ \A i \in 1..n : u[i] = s[i]
      /\ \A i \in 1..k : u[n + i] = t[i]
  <2>1. Len(u) = n + k /\ \A i \in 1..(n + k) : u[i] = IF i <= n THEN s[i] ELSE t[i - n]
    BY <1>1, <1>2, <1>3, ConcatProperties
  <2>2. DOMAIN u = 1..(n + k)
    BY <2>1
  <2>3. \A i \in 1..n : u[i] = s[i]
    BY <2>1
  <2>4. ASSUME NEW i \in 1..k PROVE u[n + i] = t[i]
    <3>1. n + i \in 1..(n + k) /\ ~(n + i <= n) /\ (n + i) - n = i
      OBVIOUS
    <3>2. QED
      BY <2>1, <3>1
  <2>5. QED
    BY <2>2, <2>3, <2>4
<1>5. /\ \A i \in 1..n : i \in 1..(n + k)
      /\ \A i \in 1..k : n + i \in 1..(n + k)
      /\ \A i \in 1..(n + k) : i \in 1..n \/ (i - n \in 1..k /\ n + (i - n) = i)
  BY <1>1, <1>2
<1>6. ASSUME Has(u, m) PROVE Has(s, m) \/ Has(t, m)
  <2>1. PICK i \in 1..(n + k) : u[i] = m
    BY <1>4, <1>6 DEF Has
  <2>2. CASE i \in 1..n
    BY <1>1, <1>4, <2>1, <2>2 DEF Has
  <2>3. CASE i \notin 1..n
    <3>1. i - n \in 1..k /\ t[i - n] = m
      BY <1>4, <1>5, <2>1, <2>3
    <3>2. QED
      BY <1>2, <3>1 DEF Has
  <2>4. QED
    BY <2>2, <2>3
<1>7. ASSUME Has(s, m) PROVE Has(u, m)
  BY <1>1, <1>4, <1>5, <1>7 DEF Has
<1>8. ASSUME Has(t, m) PROVE Has(u, m)
  <2>1. PICK i \in 1..k : t[i] = m
    BY <1>2, <1>8 DEF Has
  <2>2. n + i \in 1..(n + k) /\ u[n + i] = m
    BY <1>4, <1>5, <2>1
  <2>3. QED
    BY <1>4, <2>2 DEF Has
<1>9. QED
  BY <1>3, <1>6, <1>7, <1>8

LEMMA HasText ==
  ASSUME NEW f, NEW m \in Messages PROVE Has(Text(f), m) <=> f = m
<1>1. CASE f \in Messages
  <2>1. DOMAIN <<f>> = {1} /\ <<f>>[1] = f
    OBVIOUS
  <2>2. Has(<<f>>, m) <=> f = m
    BY <2>1 DEF Has
  <2>3. QED
    BY <1>1, <2>2 DEF Text
<1>2. CASE f \notin Messages
  <2>1. DOMAIN <<>> = {}
    OBVIOUS
  <2>2. QED
    BY <1>2, <2>1 DEF Text, Has
<1>3. QED
  BY <1>1, <1>2

-----------------------------------------------------------------------------
(* Where a message has been: only a put brings it to a connection, and     *)
(* only from a connection that is closed it may get lost.                  *)

\* The pumps' frames and the sequences, by what the lemmas about them need.
LEMMA PumpFrame ==
  ASSUME Good, NEW p \in Procs, NEW l, NEW c, NEW f, NEW j, Moved(p, l, c, f, j), NEW d \in Conns
  PROVE  frame'[Pump(d)] = IF Pump(d) = p THEN f ELSE frame[Pump(d)]
<1>1. Pump(d) \in Procs
  BY ProcFacts
<1>2. QED
  BY <1>1, MovedFacts, GoodParts

LEMMA NotAPump ==
  ASSUME Good, NEW p \in Procs, job[p] = "broadcast" \/ pc[p] \in {"put", "deliver", "user", "next", "tick"}
  PROVE  p \notin Pumps
<1>1. Fits(p, pc[p], on[p], frame[p], job[p])
  BY GoodParts DEF LocalInv
<1>2. QED
  BY <1>1 DEF Fits, Working

\* A put changes a queue.
LEMMA PutsAdds ==
  ASSUME Good, NEW p \in Procs, NEW l, NEW c, NEW f, NEW j, Puts(p, l, c, f, j)
  PROVE  queue' # queue
<1>1. on[p] \in Conns /\ frame[p] \in Frames
  BY GoodParts DEF Puts, LocalInv, Fits
<1>2. queue[on[p]] \in Seq(Frames) /\ queue'[on[p]] = Append(queue[on[p]], frame[p])
  BY <1>1, GoodParts DEF Puts, TypeData
<1>3. Len(Append(queue[on[p]], frame[p])) = Len(queue[on[p]]) + 1 /\ Len(queue[on[p]]) \in Nat
  BY <1>1, <1>2, AppendProperties
<1>4. ASSUME queue' = queue PROVE FALSE
  <2>1. Append(queue[on[p]], frame[p]) = queue[on[p]]
    BY <1>2, <1>4
  <2>2. QED
    BY <1>3, <2>1
<1>5. QED
  BY <1>4

LEMMA SeenStep ==
  ASSUME Good, NEW p \in Procs, NEW l, NEW c, NEW f, NEW j,
         Moved(p, l, c, f, j), Effect(p, l, c, f, j),
         NEW d \in Conns, NEW m \in Messages
  PROVE  /\ Seen(d, m)' => Seen(d, m) \/ (Puts(p, l, c, f, j) /\ d = on[p] /\ m = frame[p])
         /\ Seen(d, m) => Seen(d, m)' \/ closed[d]
         /\ Puts(p, l, c, f, j) /\ d = on[p] /\ m = frame[p] => Seen(d, m)'
<1>1. TypeData /\ TypeProc /\ LocalInv
  BY GoodParts
<1>2. frame'[Pump(d)] = IF Pump(d) = p THEN f ELSE frame[Pump(d)]
  BY PumpFrame
<1>3. Pump(d) \in Pumps /\ Pump(d)[2] = d
  BY ProcFacts
<1>4. queue[d] \in Seq(Frames) /\ wire[d] \in Seq(Messages)
  BY <1>1 DEF TypeData
<1>5. Fits(p, pc[p], on[p], frame[p], job[p])
  BY <1>1 DEF LocalInv
<1>6. CASE Steady(p, l, c, f, j)
  <2>1. queue' = queue /\ wire' = wire /\ (f = frame[p] \/ f # m)
    BY <1>6 DEF Steady
  <2>2. Pump(d) = p => closed[d] \/ f = frame[p]
    BY <1>3, <1>6 DEF Steady
  <2>3. ~Puts(p, l, c, f, j)
    BY <2>1, PutsAdds
  <2>4. QED
    BY <1>2, <2>1, <2>2, <2>3 DEF Seen
<1>7. CASE Chooses(p, l, c, f, j) \/ Begins(p, l, c, f, j) \/ Shuts(p, l, c, f, j)
  <2>1. queue' = queue /\ wire' = wire /\ (Pump(d) = p => f = frame[p])
    BY <1>3, <1>7 DEF Chooses, Begins, Shuts
  <2>2. ~Puts(p, l, c, f, j)
    <3>1. CASE Chooses(p, l, c, f, j)
      BY <3>1 DEF Chooses, Puts
    <3>2. CASE Begins(p, l, c, f, j)
      <4>1. f \in Messages /\ job[p] # "broadcast"
        BY <3>2 DEF Begins, Unused
      <4>2. QED
        BY <4>1, NullFacts DEF Puts
    <3>3. CASE Shuts(p, l, c, f, j)
      BY <3>3 DEF Shuts, Puts
    <3>4. QED
      BY <1>7, <3>1, <3>2, <3>3
  <2>3. QED
    BY <1>2, <2>1, <2>2 DEF Seen
<1>8. CASE Puts(p, l, c, f, j)
  <2>1. Pump(d) # p
    BY <1>3, <1>8, NotAPump DEF Puts
  <2>2. on[p] \in Conns /\ frame[p] \in Frames /\ wire' = wire
    BY <1>5, <1>8 DEF Puts, Fits
  <2>3. queue'[d] = IF d = on[p] THEN Append(queue[d], frame[p]) ELSE queue[d]
    BY <1>1, <1>8, <2>2 DEF Puts, TypeData
  <2>4. d = on[p] => (Has(queue'[d], m) <=> Has(queue[d], m) \/ frame[p] = m)
    BY <1>4, <2>2, <2>3, HasAppend
  <2>5. QED
    BY <1>2, <1>8, <2>1, <2>2, <2>3, <2>4 DEF Seen
<1>9. CASE Takes(p, l, c, f, j)
  <2>1. p[2] \in Conns /\ p = Pump(p[2]) /\ c = p[2] /\ wire' = wire /\ f = Head(queue[c]) /\ queue[c] # <<>>
    BY <1>9, ProcFacts DEF Takes
  <2>2. ~Puts(p, l, c, f, j)
    BY <1>9 DEF Takes, Puts
  <2>3. frame[p] = NoFrame
    BY <1>5, <1>9 DEF Takes, Fits, Resting
  <2>4. queue'[d] = IF d = c THEN Tail(queue[d]) ELSE queue[d]
    BY <1>1, <1>9, <2>1 DEF Takes, TypeData
  <2>5. Pump(d) = p <=> d = c
    BY <1>3, <2>1
  <2>6. d = c => (Has(queue[d], m) <=> f = m \/ Has(queue'[d], m))
    BY <1>4, <2>1, <2>4, HasTail
  <2>7. m # NoFrame
    BY NullFacts
  <2>8. QED
    BY <1>2, <2>1, <2>2, <2>3, <2>4, <2>5, <2>6, <2>7 DEF Seen
<1>10. CASE Delivers(p, l, c, f, j)
  <2>1. p[2] \in Conns /\ p = Pump(p[2]) /\ c = p[2] /\ queue' = queue /\ f = NoFrame
    BY <1>5, <1>10, ProcFacts DEF Delivers, Fits, Working
  <2>2. ~Puts(p, l, c, f, j)
    BY <1>10 DEF Delivers, Puts
  <2>3. wire'[d] = IF d = c THEN wire[d] \o Text(frame[p]) ELSE wire[d]
    BY <1>1, <1>10, <2>1 DEF Delivers, TypeData
  <2>4. Pump(d) = p <=> d = c
    BY <1>3, <2>1
  <2>5. d = c => (Has(wire'[d], m) <=> Has(wire[d], m) \/ frame[p] = m)
    <3>1. Text(frame[p]) \in Seq(Messages)
      BY DEF Text
    <3>2. QED
      BY <1>4, <2>3, <3>1, HasConcat, HasText
  <2>6. m # NoFrame
    BY NullFacts
  <2>7. QED
    BY <1>2, <2>1, <2>2, <2>3, <2>4, <2>5, <2>6 DEF Seen
<1>11. QED
  BY <1>6, <1>7, <1>8, <1>9, <1>10 DEF Effect

-----------------------------------------------------------------------------
(* Each message has one sender, who has not given it to those it owes.     *)

\* Where a message comes from: p keeps its own, or begins a new one.
LEMMA Source ==
  ASSUME Good, NEW p \in Procs, NEW l, NEW c, NEW f, NEW j, Effect(p, l, c, f, j)
  PROVE  /\ p \notin Pumps => f = frame[p] \/ f \notin Messages \/ Begins(p, l, c, f, j)
         /\ Begins(p, l, c, f, j) => f \in Unused /\ f \notin Unused' /\ Unused' \subseteq Unused
         /\ ~Begins(p, l, c, f, j) => audience' = audience
<1>1. TypeData
  BY GoodParts
<1>2. p \notin Pumps => f = frame[p] \/ f \notin Messages \/ Begins(p, l, c, f, j)
  BY NullFacts DEF Effect, Steady, Chooses, Puts, Takes, Delivers, Shuts
<1>3. ASSUME Begins(p, l, c, f, j) PROVE f \in Unused /\ f \notin Unused' /\ Unused' \subseteq Unused
  <2>1. PICK A \in SUBSET Conns : audience' = [audience EXCEPT ![f] = A]
    BY <1>3 DEF Begins
  <2>2. f \in Unused /\ f \in Messages
    BY <1>3 DEF Begins, Unused
  <2>3. A # {NoConn}
    BY <2>1, NullFacts
  <2>4. audience'[f] = A /\ \A m \in Messages : m # f => audience'[m] = audience[m]
    BY <1>1, <2>1, <2>2 DEF TypeData
  <2>5. QED
    BY <2>2, <2>3, <2>4 DEF Unused
<1>4. ~Begins(p, l, c, f, j) => audience' = audience
  BY DEF Effect, Steady, Chooses, Puts, Takes, Delivers, Shuts
<1>5. QED
  BY <1>2, <1>3, <1>4

\* What p may still give its frame to.
LEMMA OwesStep ==
  ASSUME Good, NotAgain, NEW p \in Procs \ Pumps, NEW l, NEW c, NEW f, NEW j,
         Moved(p, l, c, f, j), Effect(p, l, c, f, j), f \in Messages, ~Begins(p, l, c, f, j)
  PROVE  /\ Owes(p)' \subseteq Owes(p)
         /\ Puts(p, l, c, f, j) => on[p] \notin Owes(p)'
<1>1. TypeData /\ TypeProc
  BY GoodParts
<1>2. Owes(p)' = (IF j = "broadcast" THEN todo'[p] ELSE {}) \cup (IF l = "put" THEN {c} ELSE {})
  BY <1>1, MovedFacts DEF Owes
<1>3. CASE Steady(p, l, c, f, j)
  <2>1. l # "put" /\ todo'[p] \subseteq todo[p] /\ (j = "broadcast" => job[p] = "broadcast")
    BY <1>3 DEF Steady
  <2>2. ~Puts(p, l, c, f, j)
    BY <1>3, PutsAdds DEF Steady
  <2>3. QED
    BY <1>2, <2>1, <2>2 DEF Owes
<1>4. CASE Chooses(p, l, c, f, j)
  <2>1. /\ todo'[p] = todo[p] \ {c} /\ c \in todo[p] /\ job[p] = "broadcast"
        /\ j = "broadcast" /\ queue' = queue
    BY <1>1, <1>4 DEF Chooses, TypeData
  <2>2. QED
    BY <1>2, <2>1, PutsAdds DEF Owes
<1>5. CASE Puts(p, l, c, f, j)
  <2>1. l # "put" /\ todo' = todo /\ (j = "broadcast" => job[p] = "broadcast")
    BY <1>5 DEF Puts
  <2>2. j = "broadcast" => on[p] \notin todo[p]
    BY <2>1 DEF NotAgain
  <2>3. QED
    BY <1>2, <2>1, <2>2 DEF Owes
<1>6. CASE Shuts(p, l, c, f, j)
  <2>1. l # "put" /\ todo' = todo /\ j = job[p] /\ queue' = queue
    BY <1>6 DEF Shuts
  <2>2. QED
    BY <1>2, <2>1, PutsAdds DEF Owes
<1>7. QED
  BY <1>3, <1>4, <1>5, <1>6 DEF Effect, Takes, Delivers

LEMMA OthersOwe ==
  ASSUME Good, NEW p \in Procs, NEW l, NEW c, NEW f, NEW j, Moved(p, l, c, f, j), Effect(p, l, c, f, j),
         NEW q \in Procs, q # p
  PROVE  Owes(q)' \subseteq Owes(q) /\ todo'[q] \subseteq todo[q] /\ \A d \in todo[q] \ todo'[q] : closed[d]
<1>1. TypeData /\ TypeProc
  BY GoodParts
<1>2. pc'[q] = pc[q] /\ on'[q] = on[q] /\ job'[q] = job[q]
  BY <1>1, MovedFacts
<1>3. todo'[q] \subseteq todo[q] /\ \A d \in todo[q] \ todo'[q] : closed[d]
  <2>1. CASE Steady(p, l, c, f, j)
    BY <2>1 DEF Steady
  <2>2. CASE ~Steady(p, l, c, f, j)
    <3>1. todo'[q] = todo[q]
      BY <1>1, <2>2 DEF TypeData, Effect, Chooses, Begins, Puts, Takes, Delivers, Shuts
    <3>2. QED
      BY <3>1
  <2>3. QED
    BY <2>1, <2>2
<1>4. QED
  BY <1>2, <1>3 DEF Owes

LEMMA FreshMoves ==
  ASSUME Good, Good', FreshInv, NEW p \in Procs, NEW l, NEW c, NEW f, NEW j,
         Moved(p, l, c, f, j), Effect(p, l, c, f, j)
  PROVE  FreshInv'
<1>1. TypeData /\ TypeProc /\ LocalInv
  BY GoodParts
<1>2. /\ pc'[p] = l /\ on'[p] = c /\ frame'[p] = f /\ job'[p] = j
      /\ \A q \in Procs : q # p =>
           pc'[q] = pc[q] /\ on'[q] = on[q] /\ frame'[q] = frame[q] /\ job'[q] = job[q]
  BY <1>1, MovedFacts
<1>3. /\ p \notin Pumps => f = frame[p] \/ f \notin Messages \/ Begins(p, l, c, f, j)
      /\ Begins(p, l, c, f, j) => f \in Unused /\ f \notin Unused' /\ Unused' \subseteq Unused
      /\ ~Begins(p, l, c, f, j) => Unused' = Unused
  BY Source DEF Unused
<1>4. ASSUME NEW d \in Conns, NEW m \in Messages, Seen(d, m)'
      PROVE  Seen(d, m) \/ (Puts(p, l, c, f, j) /\ d = on[p] /\ m = frame[p] /\ p \notin Pumps)
  <2>1. Puts(p, l, c, f, j) => p \notin Pumps
    BY NotAPump DEF Puts
  <2>2. QED
    BY <1>4, <2>1, SeenStep
<1>5. UnusedNowhere'
  <2>1. ASSUME NEW m \in Unused' PROVE (\A q \in Procs : frame'[q] # m) /\ \A d \in Conns : ~Seen(d, m)'
    <3>1. m \in Unused /\ m \in Messages
      BY <1>3, <2>1 DEF Unused
    <3>2. \A q \in Procs : frame[q] # m
      BY <3>1 DEF FreshInv, UnusedNowhere
    <3>3. \A d \in Conns : ~Seen(d, m)
      BY <3>1 DEF FreshInv, UnusedNowhere
    <3>4. f # m
      <4>1. CASE p \notin Pumps
        BY <1>3, <2>1, <3>1, <3>2, <4>1
      <4>2. CASE p \in Pumps
        <5>1. Pump(p[2]) = p /\ p[2] \in Conns
          BY <4>2, ProcFacts
        <5>2. ~Seen(p[2], m)' \/ (Puts(p, l, c, f, j) /\ m = frame[p])
          BY <1>4, <3>1, <3>3, <5>1
        <5>3. QED
          BY <1>2, <3>2, <5>1, <5>2 DEF Seen
      <4>3. QED
        BY <4>1, <4>2
    <3>5. QED
      BY <1>2, <1>4, <3>1, <3>2, <3>3, <3>4
  <2>2. QED
    BY <2>1 DEF UnusedNowhere
<1>6. OneSender'
  <2>1. ASSUME NEW q \in Procs \ Pumps, NEW r \in Procs \ Pumps,
               frame'[q] \in Messages, frame'[q] = frame'[r], q # r
        PROVE  FALSE
    <3>1. ASSUME NEW s \in Procs \ Pumps, s # p, p \notin Pumps, f = frame[s], f \in Messages PROVE FALSE
      <4>1. f = frame[p] \/ f \in Unused
        BY <1>3, <3>1
      <4>2. CASE f = frame[p]
        BY <3>1, <4>2 DEF FreshInv, OneSender
      <4>3. CASE f \in Unused
        BY <3>1, <4>3 DEF FreshInv, UnusedNowhere
      <4>4. QED
        BY <4>1, <4>2, <4>3
    <3>2. CASE q = p
      BY <1>2, <2>1, <3>1, <3>2
    <3>3. CASE r = p
      BY <1>2, <2>1, <3>1, <3>3
    <3>4. CASE q # p /\ r # p
      BY <1>2, <2>1, <3>4 DEF FreshInv, OneSender
    <3>5. QED
      BY <3>2, <3>3, <3>4
  <2>2. QED
    BY <2>1 DEF OneSender
<1>7. NotYetSeen'
  <2>1. ASSUME NEW q \in Procs \ Pumps, NEW m \in Messages, frame'[q] = m, NEW d, d \in Owes(q)', Seen(d, m)'
        PROVE  FALSE
    <3>1. CASE q # p
      <4>1. d \in Owes(q) /\ frame[q] = m
        BY <1>2, <2>1, <3>1, OthersOwe
      <4>2. d \in Conns
        BY <4>1, <1>1 DEF Owes, TypeData, LocalInv, Fits
      <4>3. ~Seen(d, m)
        BY <4>1 DEF FreshInv, NotYetSeen
      <4>4. m = frame[p] /\ p \notin Pumps
        BY <1>4, <2>1, <4>2, <4>3
      <4>5. QED
        BY <2>1, <3>1, <4>1, <4>4 DEF FreshInv, OneSender
    <3>2. CASE q = p
      <4>1. f = m /\ f \in Messages
        BY <1>2, <2>1, <3>2
      <4>2. CASE Begins(p, l, c, f, j)
        <5>1. d \in Conns
          <6>1. todo'[p] \subseteq Conns /\ (l = "put" => c \in Conns)
            BY <1>1, <1>2, <4>2 DEF Good, LocalInv, Fits, TypeOK
          <6>2. QED
            BY <1>2, <2>1, <3>2, <6>1 DEF Owes
        <5>2. ~Seen(d, m) /\ frame[p] # m
          BY <1>3, <4>1, <4>2, <5>1 DEF FreshInv, UnusedNowhere
        <5>3. QED
          BY <1>4, <2>1, <5>1, <5>2
      <4>3. CASE ~Begins(p, l, c, f, j)
        <5>1. m = frame[p]
          BY <1>3, <2>1, <3>2, <4>1, <4>3
        <5>2. d \in Owes(p) /\ (Puts(p, l, c, f, j) => d # on[p])
          BY <2>1, <3>2, <4>1, <4>3, OwesStep DEF FreshInv
        <5>3. d \in Conns
          BY <5>2, <1>1 DEF Owes, TypeData, LocalInv, Fits
        <5>4. ~Seen(d, m)
          BY <2>1, <3>2, <5>1, <5>2 DEF FreshInv, NotYetSeen
        <5>5. QED
          BY <1>4, <2>1, <5>2, <5>3, <5>4
      <4>4. QED
        BY <4>2, <4>3
    <3>3. QED
      BY <3>1, <3>2
  <2>2. QED
    BY <2>1 DEF NotYetSeen
<1>8. NotAgain'
  <2>1. ASSUME NEW q \in Procs \ Pumps, job'[q] = "broadcast" PROVE on'[q] \notin todo'[q]
    <3>1. CASE q # p
      <4>1. todo'[q] \subseteq todo[q]
        BY <3>1, OthersOwe
      <4>2. on[q] \notin todo[q]
        BY <1>2, <2>1, <3>1 DEF FreshInv, NotAgain
      <4>3. QED
        BY <1>2, <3>1, <4>1, <4>2
    <3>2. CASE q = p
      <4>1. j = "broadcast" /\ p \in Procs \ Pumps
        BY <1>2, <2>1, <3>2
      <4>2. NoConn \notin todo[p]
        BY <1>1, NullFacts DEF TypeData
      <4>3. job[p] = "broadcast" => on[p] \notin todo[p]
        BY <4>1 DEF FreshInv, NotAgain
      <4>4. c \notin todo'[p]
        <5>1. CASE Steady(p, l, c, f, j)
          <6>1. job[p] = "broadcast" /\ todo'[p] \subseteq todo[p]
            BY <4>1, <5>1 DEF Steady
          <6>2. c = on[p] \/ c = NoConn \/ todo[p] = {}
            BY <5>1, <6>1 DEF Steady
          <6>3. QED
            BY <4>2, <4>3, <6>1, <6>2
        <5>2. CASE Chooses(p, l, c, f, j)
          BY <1>1, <5>2 DEF Chooses, TypeData
        <5>3. CASE Begins(p, l, c, f, j)
          BY <1>1, <4>1, <5>3, NullFacts DEF Begins, TypeData
        <5>4. CASE Puts(p, l, c, f, j)
          BY <4>2, <5>4 DEF Puts
        <5>5. CASE Shuts(p, l, c, f, j)
          BY <4>1, <4>3, <5>5 DEF Shuts
        <5>6. QED
          BY <4>1, <5>1, <5>2, <5>3, <5>4, <5>5 DEF Effect, Takes, Delivers
      <4>5. QED
        BY <1>2, <3>2, <4>4
    <3>3. QED
      BY <3>1, <3>2
  <2>2. QED
    BY <2>1 DEF NotAgain
<1>9. QED
  BY <1>5, <1>6, <1>7, <1>8 DEF FreshInv

LEMMA WakesFresh ==
  ASSUME FreshInv, Wakes PROVE FreshInv' /\ \A d \in Conns, m \in Messages : Seen(d, m)' = Seen(d, m)
<1>1. Unused' = Unused /\ \A d \in Conns, m \in Messages : Seen(d, m)' = Seen(d, m)
  BY DEF Wakes, Unused, Seen
<1>2. \A q \in Procs : Owes(q)' \subseteq Owes(q)
  BY DEF Wakes, Owes
<1>3. frame' = frame /\ job' = job /\ on' = on /\ todo' = todo
  BY DEF Wakes
<1>4. UnusedNowhere'
  BY <1>1, <1>3 DEF FreshInv, UnusedNowhere, Wakes, Seen
<1>5. OneSender'
  BY <1>3 DEF FreshInv, OneSender
<1>6. NotYetSeen'
  BY <1>2, <1>3 DEF FreshInv, NotYetSeen, Wakes, Seen
<1>7. NotAgain'
  BY <1>3 DEF FreshInv, NotAgain
<1>8. QED
  BY <1>1, <1>4, <1>5, <1>6, <1>7 DEF FreshInv

-----------------------------------------------------------------------------
(* A broadcast leaves out no member.                                       *)

LEMMA AudienceMoves ==
  ASSUME Good, AudienceInv, NEW p \in Procs, NEW l, NEW c, NEW f, NEW j,
         Moved(p, l, c, f, j), Effect(p, l, c, f, j), \A d \in Conns : closed[d] => closed'[d]
  PROVE  AudienceInv'
<1>1. TypeData /\ TypeProc /\ LocalInv
  BY GoodParts
<1>2. /\ on'[p] = c /\ frame'[p] = f /\ job'[p] = j
      /\ \A q \in Procs : q # p => on'[q] = on[q] /\ frame'[q] = frame[q] /\ job'[q] = job[q]
  BY <1>1, MovedFacts
<1>3. ASSUME NEW m \in Messages \ Unused', NEW d \in audience'[m], ~closed'[d], ~Seen(d, m)', d \in Conns
      PROVE  Pending(d, m)'
  <2>1. CASE Begins(p, l, c, f, j) /\ m = f
    <3>1. PICK A \in SUBSET Conns :
            /\ audience' = [audience EXCEPT ![f] = A]
            /\ \/ j = "broadcast" /\ todo' = [todo EXCEPT ![p] = A]
               \/ A = {}
      BY <2>1 DEF Begins
    <3>2. audience'[m] = A
      BY <1>1, <2>1, <3>1 DEF TypeData
    <3>3. j = "broadcast" /\ d \in todo'[p]
      BY <1>1, <1>3, <3>1, <3>2 DEF TypeData
    <3>4. QED
      BY <1>2, <2>1, <3>3 DEF Pending
  <2>2. CASE ~(Begins(p, l, c, f, j) /\ m = f)
    <3>1. audience'[m] = audience[m]
      <4>1. CASE Begins(p, l, c, f, j)
        BY <1>1, <2>2, <4>1 DEF Begins, TypeData
      <4>2. CASE ~Begins(p, l, c, f, j)
        BY <4>2, Source
      <4>3. QED
        BY <4>1, <4>2
    <3>2. m \in Messages \ Unused
      BY <1>3, <3>1 DEF Unused
    <3>3. ~closed[d] /\ ~Seen(d, m)
      BY <1>3, SeenStep
    <3>4. Pending(d, m)
      BY <1>3, <3>1, <3>2, <3>3 DEF AudienceInv
    <3>5. PICK q \in Procs : job[q] = "broadcast" /\ frame[q] = m /\ (d \in todo[q] \/ on[q] = d)
      BY <3>4 DEF Pending
    <3>6. CASE q # p
      <4>1. d \in todo[q] => d \in todo'[q]
        BY <3>3, <3>6, OthersOwe
      <4>2. QED
        BY <1>2, <3>5, <3>6, <4>1 DEF Pending
    <3>7. CASE q = p
      <4>1. p \notin Pumps /\ d # NoConn
        BY <1>3, <3>5, <3>7, NotAPump, NullFacts
      <4>2. j = "broadcast" /\ f = frame[p] /\ (d \in todo'[p] \/ c = d)
        <5>1. CASE Steady(p, l, c, f, j)
          <6>1. ~(todo[p] = {} /\ on[p] = NoConn)
            BY <3>5, <3>7, <4>1
          <6>2. j = "broadcast" /\ f = frame[p] /\ (c # on[p] => c = NoConn /\ closed[on[p]])
            BY <3>5, <3>7, <5>1, <6>1 DEF Steady
          <6>3. d \in todo[p] => d \in todo'[p]
            BY <3>3, <5>1 DEF Steady
          <6>4. on[p] = d => c = d
            BY <3>3, <6>2
          <6>5. QED
            BY <3>5, <3>7, <6>2, <6>3, <6>4
        <5>2. CASE Chooses(p, l, c, f, j)
          <6>1. on[p] = NoConn
            BY <1>1, <5>2 DEF Chooses, LocalInv, Fits
          <6>2. d \in todo[p] /\ todo'[p] = todo[p] \ {c}
            BY <1>1, <3>5, <3>7, <4>1, <5>2, <6>1 DEF Chooses, TypeData
          <6>3. QED
            BY <5>2, <6>2 DEF Chooses
        <5>3. CASE Begins(p, l, c, f, j)
          BY <3>5, <3>7, <5>3 DEF Begins
        <5>4. CASE Puts(p, l, c, f, j)
          <6>1. on[p] # d
            BY <1>3, <3>5, <3>7, <5>4, SeenStep
          <6>2. QED
            BY <3>5, <3>7, <5>4, <6>1 DEF Puts
        <5>5. CASE Shuts(p, l, c, f, j)
          BY <3>5, <3>7, <5>5 DEF Shuts
        <5>6. QED
          BY <4>1, <5>1, <5>2, <5>3, <5>4, <5>5 DEF Effect, Takes, Delivers
      <4>3. QED
        BY <1>2, <3>5, <3>7, <4>2 DEF Pending
    <3>8. QED
      BY <3>6, <3>7
  <2>3. QED
    BY <2>1, <2>2
<1>4. \A m \in Messages \ Unused' : audience'[m] \subseteq Conns
  <2>1. ASSUME NEW m \in Messages \ Unused' PROVE audience'[m] \subseteq Conns
    <3>1. CASE Begins(p, l, c, f, j)
      <4>1. PICK A \in SUBSET Conns : audience' = [audience EXCEPT ![f] = A]
        BY <3>1 DEF Begins
      <4>2. audience'[m] = A \/ audience'[m] = audience[m]
        BY <1>1, <4>1 DEF TypeData
      <4>3. audience'[m] # {NoConn}
        BY <2>1 DEF Unused
      <4>4. QED
        BY <1>1, <4>1, <4>2, <4>3 DEF TypeData
    <3>2. CASE ~Begins(p, l, c, f, j)
      BY <1>1, <2>1, <3>2, Source DEF TypeData, Unused
    <3>3. QED
      BY <3>1, <3>2
  <2>2. QED
    BY <2>1
<1>5. QED
  <2>1. ASSUME NEW m \in Messages \ Unused', NEW d \in audience'[m]
        PROVE  closed'[d] \/ Seen(d, m)' \/ Pending(d, m)'
    BY <1>3, <1>4, <2>1
  <2>2. QED
    BY <2>1 DEF AudienceInv

LEMMA WakesAudience == ASSUME FreshInv, AudienceInv, Wakes PROVE AudienceInv'
<1>1. Unused' = Unused
  BY DEF Wakes, Unused
<1>2. QED
  BY <1>1 DEF Wakes, AudienceInv, Pending, Seen

LEMMA ClosedStays ==
  ASSUME Good, NEW p \in Procs, NEW l, NEW c, NEW f, NEW j, Effect(p, l, c, f, j), NEW d \in Conns, closed[d]
  PROVE  closed'[d]
<1>1. TypeData
  BY GoodParts
<1>2. CASE Shuts(p, l, c, f, j)
  BY <1>1, <1>2 DEF Shuts, TypeData
<1>3. CASE ~Shuts(p, l, c, f, j)
  BY <1>3 DEF Effect, Steady, Chooses, Begins, Puts, Takes, Delivers
<1>4. QED
  BY <1>2, <1>3

LEMMA IInvInit == Init => IInv
<1>1. ASSUME Init PROVE IInv
  <2>1. Good
    BY <1>1, GoodInit
  <2>2. \A p \in Procs : frame[p] = NoFrame /\ job[p] = "none"
    BY <1>1 DEF Init
  <2>3. \A c \in Conns : queue[c] = <<>> /\ wire[c] = <<>>
    BY <1>1 DEF Init
  <2>4. \A m \in Messages : m \in Unused
    BY <1>1 DEF Init, Unused
  <2>5. \A c \in Conns, m \in Messages : ~Seen(c, m)
    <3>1. DOMAIN <<>> = {}
      OBVIOUS
    <3>2. \A m : ~Has(<<>>, m)
      BY <3>1 DEF Has
    <3>3. QED
      BY <2>2, <2>3, <3>2, ProcFacts, NullFacts DEF Seen
  <2>6. FreshInv
    BY <2>2, <2>5, NullFacts DEF FreshInv, UnusedNowhere, OneSender, NotYetSeen, NotAgain, Unused
  <2>7. AudienceInv
    BY <2>4 DEF AudienceInv
  <2>8. QED
    BY <2>1, <2>6, <2>7 DEF IInv, Good
<1>2. QED
  BY <1>1

LEMMA IInvStep == IInv /\ [Next]_vars => IInv'
<1>1. ASSUME IInv, [Next]_vars PROVE IInv'
  <2>1. Good /\ FreshInv /\ AudienceInv
    BY <1>1 DEF IInv, Good
  <2>2. Good' /\ Classified
    BY <1>1, <2>1, StepEffect
  <2>3. CASE Wakes
    BY <2>1, <2>2, <2>3, WakesFresh, WakesAudience DEF IInv, Good
  <2>4. ASSUME NEW p \in Procs, NEW l, NEW c, NEW f, NEW j, Moved(p, l, c, f, j), Effect(p, l, c, f, j)
        PROVE  IInv'
    <3>1. \A d \in Conns : closed[d] => closed'[d]
      BY <2>1, <2>4, ClosedStays
    <3>2. FreshInv'
      BY <2>1, <2>2, <2>4, FreshMoves
    <3>3. AudienceInv'
      BY <2>1, <2>4, <3>1, AudienceMoves
    <3>4. QED
      BY <2>2, <3>2, <3>3 DEF IInv, Good
  <2>5. QED
    BY <2>2, <2>3, <2>4 DEF Classified
<1>2. QED
  BY <1>1

LEMMA WaitingSeq ==
  ASSUME Good, NEW c \in Conns
  PROVE  /\ InHand(c) \in Seq(Frames) /\ (IF closed[c] THEN <<>> ELSE queue[c]) \in Seq(Frames)
         /\ Waiting(c) \in Seq(Frames)
<1>1. Pump(c) \in Procs
  BY ProcFacts
<1>2. frame[Pump(c)] \in Frames \cup {NoFrame} /\ queue[c] \in Seq(Frames)
  BY <1>1, GoodParts DEF TypeData, TypeProc
<1>3. InHand(c) \in Seq(Frames)
  BY <1>2 DEF InHand
<1>4. QED
  BY <1>2, <1>3, ConcatProperties DEF Waiting

\* The property: when a broadcast has returned, each connection that was a
\* member as it started has its message or has been closed, whatever the
\* other members and the other goroutines do meanwhile (broadcastLocal).
THEOREM BroadcastReachesMembers == Spec => []MembersReached
<1>1. ASSUME IInv PROVE MembersReached
  <2>1. Good /\ AudienceInv
    BY <1>1 DEF IInv, Good
  <2>2. ASSUME NEW m \in Messages \ Unused, ~Broadcasting(m), NEW c \in audience[m], ~closed[c]
        PROVE  Has(wire[c] \o Waiting(c), m)
    <3>1. Seen(c, m)
      BY <2>1, <2>2 DEF AudienceInv, Pending, Broadcasting
    <3>2. c \in Conns
      BY <2>1, <2>2, GoodParts DEF TypeData, Unused
    <3>3. queue[c] \in Seq(Frames) /\ wire[c] \in Seq(Frames)
      <4>1. queue[c] \in Seq(Frames) /\ wire[c] \in Seq(Messages)
        BY <2>1, <3>2, GoodParts DEF TypeData
      <4>2. QED
        BY <4>1, NullFacts
    <3>4. InHand(c) \in Seq(Frames) /\ Waiting(c) \in Seq(Frames) /\ Waiting(c) = InHand(c) \o queue[c]
      BY <2>1, <2>2, <3>2, WaitingSeq DEF Waiting
    <3>5. frame[Pump(c)] = m => Has(InHand(c), m)
      <4>1. m # NoFrame
        BY NullFacts
      <4>2. DOMAIN <<m>> = {1} /\ <<m>>[1] = m
        OBVIOUS
      <4>3. Has(<<m>>, m)
        BY <4>2 DEF Has
      <4>4. QED
        BY <2>2, <4>1, <4>3 DEF InHand
    <3>6. Has(Waiting(c), m) <=> Has(InHand(c), m) \/ Has(queue[c], m)
      BY <3>3, <3>4, HasConcat
    <3>7. Has(wire[c] \o Waiting(c), m) <=> Has(wire[c], m) \/ Has(Waiting(c), m)
      BY <3>3, <3>4, HasConcat
    <3>8. QED
      BY <3>1, <3>5, <3>6, <3>7 DEF Seen
  <2>3. QED
    BY <2>2 DEF MembersReached
<1>2. QED
  BY <1>1, IInvInit, IInvStep, PTL DEF Spec

-----------------------------------------------------------------------------
(* A connection is an outbox.                                              *)

Box == [c \in Conns |-> Waiting(c)]
Rest(c) == IF closed[c] THEN <<>> ELSE queue[c]

LEMMA HandKept ==
  ASSUME Good, NEW p \in Procs, NEW l, NEW c, NEW f, NEW j, Moved(p, l, c, f, j), NEW d \in Conns,
         closed'[d] = closed[d],
         Pump(d) = p => f = frame[p] /\ (~closed[d] \/ (l = "writing" <=> pc[p] = "writing"))
  PROVE  InHand(d)' = InHand(d)
<1>1. Pump(d) \in Procs
  BY ProcFacts
<1>2. /\ pc'[p] = l /\ frame'[p] = f
      /\ \A q \in Procs : q # p => pc'[q] = pc[q] /\ frame'[q] = frame[q]
  BY GoodParts, MovedFacts
<1>3. CASE Pump(d) # p
  BY <1>1, <1>2, <1>3 DEF InHand
<1>4. CASE Pump(d) = p
  BY <1>1, <1>2, <1>4 DEF InHand
<1>5. QED
  BY <1>3, <1>4

LEMMA Parted ==
  ASSUME Good, NEW d \in Conns
  PROVE  /\ Waiting(d) = InHand(d) \o Rest(d)
         /\ InHand(d) \in Seq(Frames) /\ Rest(d) \in Seq(Frames) /\ Waiting(d) \in Seq(Frames)
         /\ InHand(d) = <<>> => Waiting(d) = Rest(d)
         /\ Rest(d) = <<>> => Waiting(d) = InHand(d)
<1>1. /\ Waiting(d) = InHand(d) \o Rest(d)
      /\ InHand(d) \in Seq(Frames) /\ Rest(d) \in Seq(Frames) /\ Waiting(d) \in Seq(Frames)
  BY WaitingSeq DEF Waiting, Rest
<1>2. QED
  BY <1>1, ConcatEmptySeq

\* A frame in front of a sequence is its head, what follows is its tail.
LEMMA FrontOf ==
  ASSUME NEW S, NEW x \in S, NEW s \in Seq(S)
  PROVE  <<x>> \o s # <<>> /\ Head(<<x>> \o s) = x /\ Tail(<<x>> \o s) = s
<1>1. PICK u \in Seq(S) : u = <<x>>
  <2>1. <<x>> \in Seq(S)
    OBVIOUS
  <2>2. QED
    BY <2>1
<1>2. Len(u) = 1 /\ u[1] = x
  BY <1>1
<1>3. PICK t \in Seq(S) : t = u \o s
  BY ConcatProperties
<1>4. PICK n \in Nat : Len(s) = n
  OBVIOUS
<1>5. Len(t) = 1 + n /\ \A i \in 1..(1 + n) : t[i] = IF i <= 1 THEN u[i] ELSE s[i - 1]
  BY <1>2, <1>3, <1>4, ConcatProperties
<1>6. t # <<>> /\ Head(t) = x
  <2>1. 1 \in 1..(1 + n)
    BY <1>4
  <2>2. t[1] = x
    BY <1>2, <1>5, <2>1
  <2>3. t # <<>>
    BY <1>4, <1>5
  <2>4. QED
    BY <2>2, <2>3
<1>7. Tail(t) = s
  <2>1. Tail(t) \in Seq(S) /\ Len(Tail(t)) = n /\ \A i \in 1..n : Tail(t)[i] = t[i + 1]
    BY <1>4, <1>5, <1>6, HeadTailProperties
  <2>2. ASSUME NEW i \in 1..n PROVE Tail(t)[i] = s[i]
    <3>1. i + 1 \in 1..(1 + n) /\ ~(i + 1 <= 1) /\ (i + 1) - 1 = i
      BY <1>4
    <3>2. QED
      BY <1>5, <2>1, <3>1
  <2>3. QED
    BY <1>4, <2>1, <2>2, SeqEqual
<1>8. QED
  BY <1>1, <1>3, <1>6, <1>7

LEMMA HeadAndTail ==
  ASSUME NEW S, NEW s \in Seq(S), s # <<>>
  PROVE  <<Head(s)>> \o Tail(s) = s
<1>1. PICK n \in Nat : Len(s) = n
  OBVIOUS
<1>2. PICK u \in Seq(S) : u = <<Head(s)>>
  <2>1. Head(s) \in S
    BY HeadTailProperties
  <2>2. <<Head(s)>> \in Seq(S)
    BY <2>1
  <2>3. QED
    BY <2>2
<1>3. Len(u) = 1 /\ u[1] = s[1]
  BY <1>2
<1>4. PICK t \in Seq(S) : t = Tail(s) /\ Len(t) = n - 1 /\ \A i \in 1..(n - 1) : t[i] = s[i + 1]
  <2>1. PICK t \in Seq(S) : t = Tail(s)
    BY HeadTailProperties
  <2>2. Len(t) = n - 1 /\ \A i \in 1..Len(t) : t[i] = s[i + 1]
    BY <1>1, <2>1, HeadTailProperties
  <2>3. QED
    BY <2>1, <2>2
<1>5. n >= 1
  BY <1>1
<1>6. PICK v \in Seq(S) : v = u \o t
  BY ConcatProperties
<1>7. Len(v) = n /\ \A i \in 1..n : v[i] = IF i <= 1 THEN u[i] ELSE t[i - 1]
  <2>1. Len(v) = Len(u) + Len(t) /\ \A i \in 1..(Len(u) + Len(t)) : v[i] = IF i <= Len(u) THEN u[i] ELSE t[i - Len(u)]
    BY <1>6, ConcatProperties
  <2>2. Len(u) = 1 /\ Len(t) = n - 1 /\ 1 + (n - 1) = n
    BY <1>1, <1>3, <1>4
  <2>3. QED
    BY <2>1, <2>2
<1>8. ASSUME NEW i \in 1..n PROVE v[i] = s[i]
  <2>1. CASE i = 1
    BY <1>3, <1>5, <1>7, <2>1
  <2>2. CASE i # 1
    <3>1. i - 1 \in 1..(n - 1) /\ ~(i <= 1) /\ (i - 1) + 1 = i
      BY <2>2
    <3>2. QED
      BY <1>4, <1>7, <3>1
  <2>3. QED
    BY <2>1, <2>2
<1>9. v = s
  BY <1>1, <1>7, <1>8, SeqEqual
<1>10. QED
  BY <1>2, <1>4, <1>6, <1>9

LEMMA ConcatAppend ==
  ASSUME NEW S, NEW s \in Seq(S), NEW t \in Seq(S), NEW x \in S
  PROVE  s \o Append(t, x) = Append(s \o t, x)
<1>1. /\ Append(t, x) = t \o <<x>> /\ Append(s \o t, x) = (s \o t) \o <<x>>
      /\ <<x>> \in Seq(S)
  BY AppendIsConcat, ConcatProperties
<1>2. s \o (t \o <<x>>) = (s \o t) \o <<x>>
  BY <1>1, ConcatAssociative
<1>3. QED
  BY <1>1, <1>2

\* What one step does to what waits: on one connection, or on none.
LEMMA BoxStep ==
  ASSUME NEW d \in Conns, NEW w, Waiting(d)' = w, \A e \in Conns : e # d => Waiting(e)' = Waiting(e)
  PROVE  Box' = [Box EXCEPT ![d] = w]
BY DEF Box

LEMMA BoxKept == ASSUME \A e \in Conns : Waiting(e)' = Waiting(e) PROVE Box' = Box
BY DEF Box

\* The abstract steps, in the terms of the hub.
LEMMA OutboxSteps ==
  /\ Outbox!vars = <<Box, wire, closed>>
  /\ \A d \in Conns, g \in Frames :
       /\ ~closed[d] /\ Len(Box[d]) < QueueSize + 1
       /\ g \in Messages => ~Has(Box[d], g) /\ ~Has(wire[d], g)
       /\ Box' = [Box EXCEPT ![d] = Append(Box[d], g)] /\ UNCHANGED <<wire, closed>>
       => Outbox!Next
  /\ \A d \in Conns :
       /\ Box[d] # <<>>
       /\ wire' = IF Head(Box[d]) \in Messages THEN [wire EXCEPT ![d] = Append(@, Head(Box[d]))] ELSE wire
       /\ Box' = [Box EXCEPT ![d] = Tail(Box[d])] /\ UNCHANGED closed
       => Outbox!Next
  /\ \A d \in Conns :
       /\ ~closed[d] /\ closed' = [closed EXCEPT ![d] = TRUE]
       /\ \/ Box' = [Box EXCEPT ![d] = <<>>]
          \/ Box[d] # <<>> /\ Box' = [Box EXCEPT ![d] = <<Head(Box[d])>>]
       /\ UNCHANGED wire
       => Outbox!Next
  /\ \A d \in Conns :
       closed[d] /\ Box' = [Box EXCEPT ![d] = <<>>] /\ UNCHANGED <<wire, closed>> => Outbox!Next
<1>1. Outbox!vars = <<Box, wire, closed>>
  BY DEF Outbox!vars, Box
<1>2. ASSUME NEW d \in Conns, NEW g \in Frames, ~closed[d], Len(Box[d]) < QueueSize + 1,
             g \in Messages => ~Has(Box[d], g) /\ ~Has(wire[d], g),
             Box' = [Box EXCEPT ![d] = Append(Box[d], g)], UNCHANGED <<wire, closed>>
      PROVE  Outbox!Next
  <2>1. Outbox!Accept(d, g)
    <3>1. [Box EXCEPT ![d] = Append(@, g)] = [Box EXCEPT ![d] = Append(Box[d], g)]
      BY DEF Box
    <3>2. QED
      BY <1>2, <3>1 DEF Outbox!Accept, Outbox!In, Has, Box
  <2>2. g \in Messages \cup {Control}
    BY DEF Frames
  <2>3. QED
    BY <2>1, <2>2 DEF Outbox!Next
<1>3. ASSUME NEW d \in Conns, Box[d] # <<>>,
             wire' = IF Head(Box[d]) \in Messages THEN [wire EXCEPT ![d] = Append(@, Head(Box[d]))] ELSE wire,
             Box' = [Box EXCEPT ![d] = Tail(Box[d])], UNCHANGED closed
      PROVE  Outbox!Next
  <2>1. [Box EXCEPT ![d] = Tail(@)] = [Box EXCEPT ![d] = Tail(Box[d])]
    BY DEF Box
  <2>2. Outbox!Deliver(d)
    BY <1>3, <2>1 DEF Outbox!Deliver, Box
  <2>3. QED
    BY <2>2 DEF Outbox!Next
<1>4. ASSUME NEW d \in Conns, ~closed[d], closed' = [closed EXCEPT ![d] = TRUE],
             \/ Box' = [Box EXCEPT ![d] = <<>>]
             \/ Box[d] # <<>> /\ Box' = [Box EXCEPT ![d] = <<Head(Box[d])>>],
             UNCHANGED wire
      PROVE  Outbox!Next
  <2>1. [Box EXCEPT ![d] = <<Head(@)>>] = [Box EXCEPT ![d] = <<Head(Box[d])>>]
    BY DEF Box
  <2>2. Outbox!Go(d)
    BY <1>4, <2>1 DEF Outbox!Go, Box
  <2>3. QED
    BY <2>2 DEF Outbox!Next
<1>5. ASSUME NEW d \in Conns, closed[d], Box' = [Box EXCEPT ![d] = <<>>], UNCHANGED <<wire, closed>>
      PROVE  Outbox!Next
  <2>1. Outbox!Lose(d)
    BY <1>5 DEF Outbox!Lose, Box
  <2>2. QED
    BY <2>1 DEF Outbox!Next
<1>6. QED
  BY <1>1, <1>2, <1>3, <1>4, <1>5

\* What waits has seen what it holds.
LEMMA WaitingSeen ==
  ASSUME Good, NEW d \in Conns, NEW m \in Messages
  PROVE  Has(Waiting(d), m) => Seen(d, m)
<1>1. Has(Waiting(d), m) <=> Has(InHand(d), m) \/ Has(Rest(d), m)
  <2>1. PICK s, t \in Seq(Frames) : s = InHand(d) /\ t = Rest(d) /\ Waiting(d) = s \o t
    BY Parted
  <2>2. Has(s \o t, m) <=> Has(s, m) \/ Has(t, m)
    BY HasConcat
  <2>3. QED
    BY <2>1, <2>2
<1>2. ASSUME NEW g, Has(<<g>>, m) PROVE g = m
  <2>1. DOMAIN <<g>> = {1} /\ <<g>>[1] = g
    OBVIOUS
  <2>2. QED
    BY <1>2, <2>1 DEF Has
<1>3. ~Has(<<>>, m)
  <2>1. DOMAIN <<>> = {}
    OBVIOUS
  <2>2. QED
    BY <2>1 DEF Has
<1>4. Has(InHand(d), m) => frame[Pump(d)] = m
  BY <1>2, <1>3 DEF InHand
<1>5. Has(Rest(d), m) => Has(queue[d], m)
  BY <1>3 DEF Rest
<1>6. QED
  BY <1>1, <1>4, <1>5 DEF Seen

LEMMA SteadyBox ==
  ASSUME Good, Good', NEW p \in Procs, NEW l, NEW c, NEW f, NEW j, Moved(p, l, c, f, j), Steady(p, l, c, f, j)
  PROVE  [Outbox!Next]_<<Box, wire, closed>>
<1>1. closed' = closed /\ queue' = queue /\ wire' = wire
  BY DEF Steady
<1>2. \A e \in Conns : Rest(e)' = Rest(e)
  BY <1>1 DEF Rest
<1>3. ASSUME NEW e \in Conns, Pump(e) = p => ~closed[e] PROVE Waiting(e)' = Waiting(e)
  <2>1. Pump(e) = p => f = frame[p]
    BY <1>3, ProcFacts DEF Steady
  <2>2. InHand(e)' = InHand(e)
    BY <1>1, <1>3, <2>1, HandKept
  <2>3. QED
    BY <1>2, <2>2 DEF Waiting, Rest
<1>4. CASE \E e \in Conns : Pump(e) = p /\ closed[e]
  <2>1. PICK d \in Conns : Pump(d) = p /\ closed[d]
    BY <1>4
  <2>2. l # "writing" /\ pc'[p] = l
    BY <2>1, ProcFacts, MovedFacts, GoodParts DEF Steady
  <2>3. InHand(d)' = <<>> /\ Rest(d)' = <<>>
    BY <1>1, <2>1, <2>2 DEF InHand, Rest
  <2>4. Waiting(d)' = <<>> \o <<>>
    BY <2>3 DEF Waiting, Rest
  <2>5. <<>> \o <<>> = <<>>
    OBVIOUS
  <2>6. \A e \in Conns : e # d => Waiting(e)' = Waiting(e)
    BY <1>3, <2>1, ProcFacts
  <2>7. Box' = [Box EXCEPT ![d] = <<>>]
    BY <2>4, <2>5, <2>6, BoxStep
  <2>8. QED
    BY <1>1, <2>1, <2>7, OutboxSteps
<1>5. CASE ~\E e \in Conns : Pump(e) = p /\ closed[e]
  BY <1>1, <1>3, <1>5, BoxKept
<1>6. QED
  BY <1>4, <1>5

LEMMA PutsBox ==
  ASSUME Good, Good', FreshInv, NEW p \in Procs, NEW l, NEW c, NEW f, NEW j,
         Moved(p, l, c, f, j), Puts(p, l, c, f, j)
  PROVE  [Outbox!Next]_<<Box, wire, closed>>
<1>1. TypeData /\ TypeProc /\ LocalInv /\ p \notin Pumps
  BY GoodParts, NotAPump DEF Puts
<1>2. PICK d, g : d = on[p] /\ g = frame[p]
  OBVIOUS
<1>3. d \in Conns /\ g \in Frames
  BY <1>1, <1>2 DEF Puts, LocalInv, Fits
<1>4. closed' = closed /\ wire' = wire /\ queue' = [queue EXCEPT ![d] = Append(@, g)] /\ Len(queue[d]) < QueueSize
  BY <1>2 DEF Puts
<1>5. \A e \in Conns : InHand(e)' = InHand(e)
  BY <1>1, <1>4, HandKept, ProcFacts
<1>6. \A e \in Conns : e # d => Waiting(e)' = Waiting(e)
  BY <1>1, <1>3, <1>4, <1>5 DEF Waiting, TypeData
<1>7. CASE closed[d]
  <2>1. Waiting(d)' = Waiting(d)
    BY <1>4, <1>5, <1>7, <1>3 DEF Waiting
  <2>2. QED
    BY <1>4, <1>6, <2>1, BoxKept
<1>8. CASE ~closed[d]
  <2>1. InHand(d) \in Seq(Frames) /\ queue[d] \in Seq(Frames) /\ Waiting(d) = InHand(d) \o queue[d]
    BY <1>1, <1>3, <1>8, Parted DEF Rest, TypeData
  <2>2. queue'[d] = Append(queue[d], g)
    BY <1>1, <1>3, <1>4 DEF TypeData
  <2>3. Waiting(d)' = InHand(d) \o Append(queue[d], g)
    BY <1>3, <1>4, <1>5, <1>8, <2>2 DEF Waiting
  <2>4. Waiting(d)' = Append(Waiting(d), g)
    BY <1>3, <2>1, <2>3, ConcatAppend
  <2>5. Box[d] = Waiting(d)
    BY <1>3 DEF Box
  <2>6. Box' = [Box EXCEPT ![d] = Append(Box[d], g)]
    <3>1. PICK w : w = Append(Waiting(d), g)
      OBVIOUS
    <3>2. Box' = [Box EXCEPT ![d] = w]
      BY <1>3, <1>6, <2>4, <3>1, BoxStep
    <3>3. QED
      BY <2>5, <3>1, <3>2
  <2>7. Len(Box[d]) < QueueSize + 1
    <3>1. Len(InHand(d)) \in {0, 1}
      <4>1. Len(<<>>) = 0 /\ \A x : Len(<<x>>) = 1
        OBVIOUS
      <4>2. QED
        BY <4>1 DEF InHand
    <3>2. Len(Waiting(d)) = Len(InHand(d)) + Len(queue[d])
      BY <2>1, ConcatProperties
    <3>3. Len(queue[d]) \in Nat
      BY <2>1
    <3>4. PICK a \in {0, 1}, b \in Nat : a = Len(InHand(d)) /\ b = Len(queue[d])
      BY <3>1, <3>3
    <3>5. b < QueueSize
      BY <1>4, <3>4
    <3>6. a + b < QueueSize + 1
      BY <3>5, QueueSizeAssumption
    <3>7. QED
      BY <2>5, <3>2, <3>4, <3>6
  <2>8. g \in Messages => ~Has(Box[d], g) /\ ~Has(wire[d], g)
    <3>1. ASSUME g \in Messages PROVE ~Seen(d, g)
      <4>1. d \in Owes(p)
        BY <1>2 DEF Owes, Puts
      <4>2. QED
        BY <1>1, <1>2, <3>1, <4>1 DEF FreshInv, NotYetSeen
    <3>2. QED
      BY <1>3, <2>5, <3>1, WaitingSeen DEF Seen
  <2>9. QED
    BY <1>3, <1>4, <1>8, <2>6, <2>7, <2>8, OutboxSteps
<1>9. QED
  BY <1>7, <1>8

LEMMA TakesBox ==
  ASSUME Good, Good', NEW p \in Procs, NEW l, NEW c, NEW f, NEW j, Moved(p, l, c, f, j), Takes(p, l, c, f, j)
  PROVE  [Outbox!Next]_<<Box, wire, closed>>
<1>1. TypeData /\ TypeProc /\ LocalInv
  BY GoodParts
<1>2. /\ c \in Conns /\ p = Pump(c) /\ pc[p] = "take" /\ l = "lock" /\ queue[c] # <<>> /\ f = Head(queue[c])
      /\ queue' = [queue EXCEPT ![c] = Tail(@)] /\ closed' = closed /\ wire' = wire
  BY ProcFacts DEF Takes
<1>3. frame[p] = NoFrame
  BY <1>1, <1>2 DEF LocalInv, Fits, Resting
<1>4. queue[c] \in Seq(Frames)
  BY <1>1, <1>2 DEF TypeData
<1>5. f \in Frames /\ f # NoFrame
  BY <1>2, <1>4, HeadTailProperties, NullFacts
<1>6. pc'[p] = "lock" /\ frame'[p] = f
  BY <1>1, <1>2, MovedFacts
<1>7. ASSUME NEW e \in Conns, e # c PROVE Waiting(e)' = Waiting(e)
  <2>1. Pump(e) # p
    BY <1>2, <1>7, ProcFacts
  <2>2. InHand(e)' = InHand(e)
    BY <1>2, <2>1, HandKept
  <2>3. QED
    BY <1>1, <1>2, <1>7, <2>2 DEF Waiting, TypeData
<1>8. Waiting(c)' = Waiting(c)
  <2>1. InHand(c) = <<>>
    BY <1>2, <1>3 DEF InHand
  <2>2. CASE closed[c]
    <3>1. InHand(c)' = <<>>
      BY <1>2, <1>6, <2>2 DEF InHand
    <3>2. QED
      BY <1>2, <2>1, <2>2, <3>1 DEF Waiting
  <2>3. CASE ~closed[c]
    <3>1. InHand(c)' = <<f>>
      BY <1>2, <1>5, <1>6, <2>3 DEF InHand
    <3>2. queue'[c] = Tail(queue[c])
      BY <1>1, <1>2 DEF TypeData
    <3>3. Waiting(c)' = <<f>> \o Tail(queue[c])
      BY <1>2, <2>3, <3>1, <3>2 DEF Waiting
    <3>4. <<f>> \o Tail(queue[c]) = queue[c]
      BY <1>2, <1>4, HeadAndTail
    <3>5. Waiting(c) = queue[c]
      BY <1>2, <2>1, <2>3, Parted DEF Rest
    <3>6. QED
      BY <3>3, <3>4, <3>5
  <2>4. QED
    BY <2>2, <2>3
<1>9. QED
  BY <1>2, <1>7, <1>8, BoxKept

LEMMA DeliversBox ==
  ASSUME Good, Good', NEW p \in Procs, NEW l, NEW c, NEW f, NEW j, Moved(p, l, c, f, j), Delivers(p, l, c, f, j)
  PROVE  [Outbox!Next]_<<Box, wire, closed>>
<1>1. TypeData /\ TypeProc /\ LocalInv
  BY GoodParts
<1>2. PICK g : g = frame[p]
  OBVIOUS
<1>3. /\ p \in Pumps /\ pc[p] = "writing" /\ l = "take" /\ f = NoFrame
      /\ wire' = [wire EXCEPT ![c] = @ \o Text(g)] /\ closed' = closed /\ queue' = queue
  BY <1>2 DEF Delivers
<1>4. c \in Conns /\ p = Pump(c) /\ g \in Frames /\ g # NoFrame
  BY <1>1, <1>2, <1>3, ProcFacts DEF Delivers, LocalInv, Fits, Working
<1>5. pc'[p] = "take" /\ frame'[p] = NoFrame
  BY <1>1, <1>3, MovedFacts
<1>6. InHand(c) = <<g>> /\ InHand(c)' = <<>>
  BY <1>2, <1>3, <1>4, <1>5 DEF InHand
<1>7. Rest(c) \in Seq(Frames) /\ Rest(c)' = Rest(c)
  BY <1>3, <1>4, Parted DEF Rest
<1>8. Waiting(c) = <<g>> \o Rest(c) /\ Waiting(c)' = <<>> \o Rest(c)
  BY <1>6, <1>7 DEF Waiting, Rest
<1>9. Waiting(c) # <<>> /\ Head(Waiting(c)) = g /\ Tail(Waiting(c)) = Rest(c) /\ Waiting(c)' = Rest(c)
  BY <1>4, <1>7, <1>8, FrontOf, ConcatEmptySeq
<1>10. ASSUME NEW e \in Conns, e # c PROVE Waiting(e)' = Waiting(e)
  <2>1. Pump(e) # p
    BY <1>4, <1>10, ProcFacts
  <2>2. InHand(e)' = InHand(e)
    BY <1>3, <2>1, HandKept
  <2>3. QED
    BY <1>3, <2>2 DEF Waiting
<1>11. Box[c] = Waiting(c)
  BY <1>4 DEF Box
<1>12. Box' = [Box EXCEPT ![c] = Tail(Box[c])]
  <2>1. PICK w : w = Tail(Waiting(c))
    OBVIOUS
  <2>2. Box' = [Box EXCEPT ![c] = w]
    BY <1>4, <1>9, <1>10, <2>1, BoxStep
  <2>3. QED
    BY <1>11, <2>1, <2>2
<1>13. wire' = IF g \in Messages THEN [wire EXCEPT ![c] = Append(@, g)] ELSE wire
  <2>1. wire \in [Conns -> Seq(Messages)] /\ wire[c] \in Seq(Messages)
    BY <1>1, <1>4 DEF TypeData
  <2>2. CASE g \in Messages
    <3>1. wire[c] \o Text(g) = Append(wire[c], g)
      BY <2>1, <2>2, AppendIsConcat DEF Text
    <3>2. QED
      BY <1>3, <2>2, <3>1
  <2>3. CASE g \notin Messages
    <3>1. wire[c] \o Text(g) = wire[c]
      BY <2>1, <2>3, ConcatEmptySeq DEF Text
    <3>2. QED
      BY <1>3, <2>1, <2>3, <3>1
  <2>4. QED
    BY <2>2, <2>3
<1>14. QED
  BY <1>3, <1>4, <1>9, <1>11, <1>12, <1>13, OutboxSteps

LEMMA ShutsBox ==
  ASSUME Good, Good', NEW p \in Procs, NEW l, NEW c, NEW f, NEW j, Moved(p, l, c, f, j), Shuts(p, l, c, f, j)
  PROVE  [Outbox!Next]_<<Box, wire, closed>>
<1>1. TypeData /\ TypeProc /\ LocalInv
  BY GoodParts
<1>2. /\ pc[p] = "close" /\ l = "leaveAll" /\ ~closed[c] /\ closed' = [closed EXCEPT ![c] = TRUE]
      /\ queue' = queue /\ wire' = wire /\ f = frame[p]
  BY DEF Shuts
<1>3. c \in Conns /\ (p \in Pumps => p = Pump(c))
  BY <1>1, ProcFacts DEF Shuts, LocalInv, Fits, Working
<1>4. closed'[c] /\ \A e \in Conns : e # c => closed'[e] = closed[e]
  BY <1>1, <1>2, <1>3 DEF TypeData
<1>5. ASSUME NEW e \in Conns, e # c PROVE Waiting(e)' = Waiting(e)
  <2>1. Pump(e) # p
    BY <1>3, <1>5, ProcFacts
  <2>2. InHand(e)' = InHand(e)
    BY <1>4, <1>5, <2>1, HandKept
  <2>3. QED
    BY <1>2, <1>4, <1>5, <2>2 DEF Waiting
<1>6. PICK u \in Procs : u = Pump(c)
  BY <1>3, ProcFacts
<1>7. PICK g : g = frame[u]
  OBVIOUS
<1>8. frame'[u] = g /\ (pc'[u] = "writing" <=> pc[u] = "writing")
  BY <1>1, <1>2, <1>6, <1>7, MovedFacts
<1>9. Box[c] = Waiting(c)
  BY <1>3 DEF Box
<1>10. CASE g # NoFrame /\ pc[u] = "writing"
  <2>1. InHand(c) = <<g>> /\ InHand(c)' = <<g>>
    BY <1>6, <1>7, <1>8, <1>10 DEF InHand
  <2>2. g \in Frames
    BY <1>1, <1>7, <1>10 DEF TypeProc
  <2>3. Waiting(c) = <<g>> \o Rest(c) /\ Rest(c) \in Seq(Frames)
    BY <1>3, <2>1, Parted
  <2>4. Waiting(c) # <<>> /\ Head(Waiting(c)) = g
    BY <2>2, <2>3, FrontOf
  <2>5. Waiting(c)' = <<g>> \o <<>>
    BY <1>4, <2>1 DEF Waiting
  <2>6. <<g>> \o <<>> = <<g>>
    <3>1. <<g>> \in Seq(Frames)
      BY <2>2
    <3>2. QED
      BY <3>1, ConcatEmptySeq
  <2>7. Box' = [Box EXCEPT ![c] = <<Head(Box[c])>>]
    <3>1. PICK w : w = <<g>>
      OBVIOUS
    <3>2. Box' = [Box EXCEPT ![c] = w]
      BY <1>3, <1>5, <2>5, <2>6, <3>1, BoxStep
    <3>3. QED
      BY <1>9, <2>4, <3>1, <3>2
  <2>8. QED
    BY <1>2, <1>3, <1>9, <2>4, <2>7, OutboxSteps
<1>11. CASE ~(g # NoFrame /\ pc[u] = "writing")
  <2>1. InHand(c)' = <<>>
    BY <1>4, <1>6, <1>8, <1>11 DEF InHand
  <2>2. Waiting(c)' = <<>> \o <<>>
    BY <1>4, <2>1 DEF Waiting
  <2>3. <<>> \o <<>> = <<>>
    OBVIOUS
  <2>4. Box' = [Box EXCEPT ![c] = <<>>]
    BY <1>3, <1>5, <2>2, <2>3, BoxStep
  <2>5. QED
    BY <1>2, <1>3, <2>4, OutboxSteps
<1>12. QED
  BY <1>10, <1>11

LEMMA QuietBox ==
  ASSUME Good, NEW p \in Procs, NEW l, NEW c, NEW f, NEW j, Moved(p, l, c, f, j),
         Chooses(p, l, c, f, j) \/ Begins(p, l, c, f, j)
  PROVE  UNCHANGED <<Box, wire, closed>>
<1>1. p \notin Pumps /\ UNCHANGED <<closed, queue, wire>>
  BY NotAPump DEF Chooses, Begins
<1>2. \A e \in Conns : InHand(e)' = InHand(e)
  BY <1>1, HandKept, ProcFacts
<1>3. \A e \in Conns : Waiting(e)' = Waiting(e)
  BY <1>1, <1>2 DEF Waiting
<1>4. QED
  BY <1>1, <1>3, BoxKept

LEMMA WakesBox == ASSUME Wakes PROVE UNCHANGED <<Box, wire, closed>>
<1>1. UNCHANGED <<closed, queue, wire, frame>>
  BY DEF Wakes
<1>2. ASSUME NEW e \in Conns PROVE InHand(e)' = InHand(e)
  <2>1. Pump(e) \in Procs
    BY ProcFacts
  <2>2. pc'[Pump(e)] = pc[Pump(e)] \/ frame[Pump(e)] = NoFrame
    BY <2>1 DEF Wakes
  <2>3. QED
    BY <1>1, <2>2 DEF InHand
<1>3. \A e \in Conns : Waiting(e)' = Waiting(e)
  BY <1>1, <1>2 DEF Waiting
<1>4. QED
  BY <1>1, <1>3, BoxKept

\* Whoever sends, broadcasts, answers and closes at the same time, on any
\* number of connections: each connection of the hub is an outbox, in which
\* messages keep the order in which they were accepted (the refinement).
THEOREM HubImplementsOutbox == Spec => ImplementsOutbox
<1>1. ASSUME Init PROVE Outbox!Init
  <2>1. ASSUME NEW e \in Conns PROVE Waiting(e) = <<>>
    <3>1. Pump(e) \in Procs
      BY ProcFacts
    <3>2. frame[Pump(e)] = NoFrame /\ queue[e] = <<>> /\ ~closed[e]
      BY <1>1, <3>1 DEF Init
    <3>3. <<>> \o <<>> = <<>>
      OBVIOUS
    <3>4. QED
      BY <3>2, <3>3 DEF Waiting, InHand
  <2>2. [c \in Conns |-> Waiting(c)] = [c \in Conns |-> <<>>]
    BY <2>1
  <2>3. QED
    BY <1>1, <2>2 DEF Init, Outbox!Init
<1>2. ASSUME IInv, IInv', [Next]_vars PROVE [Outbox!Next]_<<Box, wire, closed>>
  <2>1. Good /\ Good' /\ FreshInv /\ Classified
    BY <1>2, StepEffect DEF IInv, Good
  <2>2. ASSUME NEW p \in Procs, NEW l, NEW c, NEW f, NEW j, Moved(p, l, c, f, j), Effect(p, l, c, f, j)
        PROVE  [Outbox!Next]_<<Box, wire, closed>>
    BY <2>1, <2>2, SteadyBox, QuietBox, PutsBox, TakesBox, DeliversBox, ShutsBox DEF Effect
  <2>3. QED
    BY <2>1, <2>2, WakesBox DEF Classified
<1>3. IInv /\ IInv' /\ [Next]_vars => [Outbox!Next]_(Outbox!vars)
  BY <1>2 DEF Outbox!vars, Box
<1>4. QED
  BY <1>1, <1>3, IInvInit, IInvStep, PTL DEF Spec, ImplementsOutbox, Outbox!Spec

-----------------------------------------------------------------------------
(* Ends.  Each process by itself, at l, on c, for job j: a pump or a       *)
(* keepalive that has ended was on a closed connection, and so was a        *)
(* handler; once the handler's Next has failed, or its event has panicked,  *)
(* the connection is closed or the handler is on its way to close it.       *)
(* The keepalive and a pong work for their own connection.                  *)
Ending(p, l, c, j, cl, ev) ==
  /\ p \in Pumps \cup Keepalives /\ l = "ended" => cl[p[2]]
  /\ p \in Keepalives => /\ l \in Working \cup {"put"} => c = p[2]
                         /\ l = "put" => j = "ping"
                         /\ j \in {"none", "ping"}
  /\ j = "pong" => p \in Handlers /\ l \in Working \cup {"put"} /\ c = p[2]
  /\ p \in Handlers =>
       /\ ev[p[2]] \in {"closed", "ended"} =>
            cl[p[2]] \/ (l \in {"lock", "writing", "close"} /\ c = p[2])
       /\ ev[p[2]] = "ended" => l \in Working \cup {"ended"} /\ j # "broadcast"
       /\ l = "ended" => ev[p[2]] = "ended"

\* What is closed has a closed socket, or one process goes on to close it.
Closing == {"leaveAll", "hangup"}
Shut(c) == closed[c] => \/ socket[c] = "closed"
                        \/ \E p \in Procs : pc[p] \in Closing /\ on[p] = c

EndInv == /\ \A p \in Procs : Ending(p, pc[p], on[p], job[p], closed, event)
          /\ \A c \in Conns : Shut(c)

LEMMA OwnConn ==
  /\ \A p \in Handlers : p \in Procs /\ p[2] \in Conns /\ p = Handler(p[2]) /\ p \notin Pumps \cup Keepalives
  /\ \A p \in Keepalives : p \in Procs /\ p[2] \in Conns /\ p = Keepalive(p[2]) /\ p \notin Pumps \cup Handlers
  /\ \A p \in Pumps : p \in Procs /\ p[2] \in Conns /\ p = Pump(p[2]) /\ p \notin Handlers \cup Keepalives
  /\ \A p \in Callers : p \notin Pumps \cup Keepalives
  /\ \A c \in Conns : /\ Handler(c) \in Handlers /\ Handler(c)[2] = c
                      /\ Keepalive(c) \in Keepalives /\ Keepalive(c)[2] = c
                      /\ Pump(c) \in Pumps /\ Pump(c)[2] = c
<1>1. \A p \in Handlers : p \in Procs /\ p[2] \in Conns /\ p = Handler(p[2]) /\ p \notin Pumps \cup Keepalives
  BY DEF Procs, Handlers, Handler, Pumps, Keepalives
<1>2. \A p \in Keepalives : p \in Procs /\ p[2] \in Conns /\ p = Keepalive(p[2]) /\ p \notin Pumps \cup Handlers
  BY DEF Procs, Keepalives, Keepalive, Pumps, Handlers
<1>3. \A p \in Pumps : p \in Procs /\ p[2] \in Conns /\ p = Pump(p[2]) /\ p \notin Handlers \cup Keepalives
  BY DEF Procs, Pumps, Pump, Handlers, Keepalives
<1>4. \A p \in Callers : p \notin Pumps \cup Keepalives
  BY DEF Callers, Spawned, Pumps, Keepalives
<1>5. \A c \in Conns : /\ Handler(c) \in Handlers /\ Handler(c)[2] = c
                       /\ Keepalive(c) \in Keepalives /\ Keepalive(c)[2] = c
                       /\ Pump(c) \in Pumps /\ Pump(c)[2] = c
  BY DEF Handler, Keepalive, Pump, Handlers, Keepalives, Pumps
<1>6. QED
  BY <1>1, <1>2, <1>3, <1>4, <1>5

\* A process that moves: it closes only as Close does, and leaves the events
\* of others alone.
LEMMA EndMoves ==
  ASSUME Good, EndInv, NEW p \in Procs, NEW l, NEW c, NEW f, NEW j, Moved(p, l, c, f, j),
         Ending(p, l, c, j, closed', event'),
         \A d \in Conns : closed[d] => closed'[d],
         \A d \in Conns : closed'[d] => closed[d] \/ (l = "leaveAll" /\ c = d),
         \A d \in Conns : Handler(d) # p => event'[d] = event[d],
         \A d \in Conns : socket[d] = "closed" => socket'[d] = "closed",
         pc[p] \in Closing => (l \in Closing /\ c = on[p]) \/ socket'[on[p]] = "closed"
  PROVE  EndInv'
<1>1. /\ pc'[p] = l /\ on'[p] = c /\ job'[p] = j
      /\ \A q \in Procs : q # p => pc'[q] = pc[q] /\ on'[q] = on[q] /\ job'[q] = job[q]
  BY GoodParts, MovedFacts
<1>2. ASSUME NEW q \in Procs, q # p
      PROVE  Ending(q, pc'[q], on'[q], job'[q], closed', event')
  <2>1. PICK k, d, g : k = pc[q] /\ d = on[q] /\ g = job[q]
    OBVIOUS
  <2>2. Ending(q, k, d, g, closed, event)
    BY <2>1 DEF EndInv
  <2>3. q \in Handlers => q[2] \in Conns /\ event'[q[2]] = event[q[2]]
    BY <1>2, OwnConn
  <2>4. q \in Handlers \cup Pumps \cup Keepalives => (closed[q[2]] => closed'[q[2]])
    BY OwnConn
  <2>5. Ending(q, k, d, g, closed', event')
    BY <2>2, <2>3, <2>4 DEF Ending
  <2>6. QED
    BY <1>1, <1>2, <2>1, <2>5
<1>3. ASSUME NEW q \in Procs PROVE Ending(q, pc'[q], on'[q], job'[q], closed', event')
  BY <1>1, <1>2
<1>4. ASSUME NEW d \in Conns, closed'[d]
      PROVE  socket'[d] = "closed" \/ \E q \in Procs : pc'[q] \in Closing /\ on'[q] = d
  <2>1. CASE l = "leaveAll" /\ c = d
    BY <1>1, <2>1 DEF Closing
  <2>2. CASE closed[d] /\ socket[d] = "closed"
    BY <2>2
  <2>3. CASE closed[d] /\ socket[d] # "closed"
    <3>1. PICK q \in Procs : pc[q] \in Closing /\ on[q] = d
      BY <2>3 DEF EndInv, Shut
    <3>2. QED
      BY <1>1, <3>1
  <2>4. QED
    BY <1>4, <2>1, <2>2, <2>3
<1>5. QED
  BY <1>3, <1>4 DEF EndInv, Shut

\* A step that changes neither flags, sockets nor events.
LEMMA EndSteps ==
  ASSUME Good, EndInv, NEW p \in Procs, NEW l, NEW c, NEW f, NEW j, Moved(p, l, c, f, j),
         UNCHANGED <<closed, socket, event>>, Ending(p, l, c, j, closed, event),
         pc[p] \in Closing => l \in Closing /\ c = on[p]
  PROVE  EndInv'
BY EndMoves

\* What p holds, by names that do not change.
LEMMA EndHolds ==
  ASSUME Good, EndInv, NEW p \in Procs
  PROVE  \E k, c, f, j : /\ k = pc[p] /\ c = on[p] /\ f = frame[p] /\ j = job[p]
                         /\ Fits(p, k, c, f, j) /\ Ending(p, k, c, j, closed, event)
<1>1. PICK k, c, f, j : k = pc[p] /\ c = on[p] /\ f = frame[p] /\ j = job[p]
  OBVIOUS
<1>2. Fits(p, k, c, f, j) /\ Ending(p, k, c, j, closed, event)
  BY <1>1 DEF Good, LocalInv, EndInv
<1>3. QED
  BY <1>1, <1>2

LEMMA HomeFacts ==
  ASSUME NEW p \in Procs
  PROVE  /\ Home(p) \in {"ended", "user"}
         /\ Home(p) = "ended" => p \in Pumps \cup Keepalives \/ (p \in Handlers /\ event[p[2]] = "ended")
         /\ p \in Handlers /\ event[p[2]] = "ended" => Home(p) = "ended"
BY OwnConn DEF Home

\* A call returns, on a connection that is closed.
LEMMA DoneGoes ==
  ASSUME Good, NEW p \in Procs, Done(p)
  PROVE  \E l, f, j : /\ Moved(p, l, NoConn, f, j)
                      /\ IF job[p] = "broadcast" THEN l = "deliver" /\ j = "broadcast"
                         ELSE l = Home(p) /\ j = "none"
<1>1. CASE job[p] = "broadcast"
  <2>1. PICK f : f = frame[p]
    OBVIOUS
  <2>2. Moved(p, "deliver", NoConn, f, "broadcast")
    BY <1>1, <2>1, GoodParts, SameJob DEF Done, Goto, Moved
  <2>3. QED
    BY <1>1, <2>2
<1>2. CASE job[p] # "broadcast"
  <2>1. PICK l : l = Home(p)
    OBVIOUS
  <2>2. Moved(p, l, NoConn, NoFrame, "none")
    BY <1>2, <2>1 DEF Done, Goto, Moved
  <2>3. QED
    BY <1>2, <2>1, <2>2
<1>3. QED
  BY <1>1, <1>2

LEMMA DoneEnds ==
  ASSUME Good, EndInv, NEW p \in Procs, pc[p] \in {"put", "close", "hangup"}, closed[on[p]], Done(p),
         closed' = closed,
         event' = event \/ (pc[p] = "put" /\ job[p] = "pong" /\ event' = [event EXCEPT ![on[p]] = "closed"]),
         \A d \in Conns : socket[d] = "closed" => socket'[d] = "closed",
         pc[p] = "hangup" => socket'[on[p]] = "closed"
  PROVE  EndInv'
<1>1. PICK k, c, f, j : /\ k = pc[p] /\ c = on[p] /\ f = frame[p] /\ j = job[p]
                        /\ Fits(p, k, c, f, j) /\ Ending(p, k, c, j, closed, event)
  BY EndHolds
<1>2. k \in Working \cup {"put"} /\ closed[c] /\ c \in Conns
  BY <1>1 DEF Fits, Working
<1>3. \E l, g, i : /\ Moved(p, l, NoConn, g, i)
                   /\ IF job[p] = "broadcast" THEN l = "deliver" /\ i = "broadcast"
                      ELSE l = Home(p) /\ i = "none"
  BY DoneGoes
<1>4. PICK l, g, i : /\ Moved(p, l, NoConn, g, i)
                     /\ IF job[p] = "broadcast" THEN l = "deliver" /\ i = "broadcast"
                        ELSE l = Home(p) /\ i = "none"
  BY <1>3
<1>5. p \in Pumps \cup Keepalives => closed[p[2]]
  BY <1>1, <1>2 DEF Fits, Ending
<1>6. p \in Handlers => /\ event[p[2]] \in {"closed", "ended"} => closed[p[2]]
                        /\ event[p[2]] = "ended" => k # "put" /\ j # "broadcast"
  BY <1>1, <1>2 DEF Ending, Working
<1>7. /\ \A d \in Conns : Handler(d) # p => event'[d] = event[d]
      /\ p \in Handlers => /\ event'[p[2]] \in {"closed", "ended"} => closed[p[2]]
                           /\ event'[p[2]] = "ended" <=> event[p[2]] = "ended"
  <2>1. CASE event' = event
    BY <1>6, <2>1
  <2>2. CASE k = "put" /\ j = "pong" /\ event' = [event EXCEPT ![c] = "closed"]
    <3>1. p \in Handlers /\ c = p[2] /\ p = Handler(c)
      BY <1>1, <2>2, OwnConn DEF Ending
    <3>2. event'[c] = "closed" /\ \A d \in Conns : d # c => event'[d] = event[d]
      BY <1>2, <2>2, GoodParts DEF TypeData
    <3>3. QED
      BY <1>2, <1>6, <2>2, <3>1, <3>2
  <2>3. QED
    BY <1>1, <2>1, <2>2
<1>8. l \in {"deliver", "ended", "user"} /\ i \in {"broadcast", "none"} /\ (j # "broadcast" => i = "none")
  BY <1>1, <1>4, HomeFacts
<1>9. p \in Keepalives => j \in {"none", "ping"}
  BY <1>1 DEF Ending
<1>10. p \in Handlers => /\ event[p[2]] = "ended" => l = "ended"
                         /\ l = "ended" => event[p[2]] = "ended"
  BY <1>1, <1>4, <1>6, HomeFacts, OwnConn
<1>11. Ending(p, l, NoConn, i, closed', event')
  <2>1. PICK cl, ev : cl = closed' /\ ev = event'
    OBVIOUS
  <2>2. l \notin Working \cup {"put"} /\ l # "put" /\ i # "pong" /\ i # "ping"
    BY <1>8 DEF Working
  <2>3. p \in Pumps \cup Keepalives => cl[p[2]]
    BY <1>5, <2>1
  <2>4. p \in Keepalives => i = "none"
    BY <1>8, <1>9
  <2>5. p \in Handlers => /\ ev[p[2]] \in {"closed", "ended"} => cl[p[2]]
                          /\ ev[p[2]] = "ended" => l = "ended" /\ i # "broadcast"
                          /\ l = "ended" => ev[p[2]] = "ended"
    BY <1>6, <1>7, <1>8, <1>10, <2>1
  <2>6. Ending(p, l, NoConn, i, cl, ev)
    BY <2>2, <2>3, <2>4, <2>5 DEF Ending
  <2>7. QED
    BY <2>1, <2>6
<1>12. QED
  BY <1>1, <1>4, <1>7, <1>11, EndMoves DEF Closing

\* A call goes on to its next place.
LEMMA EndAt ==
  ASSUME NEW p \in Procs, NEW k, NEW l \in Working, NEW c, NEW j,
         Ending(p, k, c, j, closed, event), k \in Working \cup {"put"},
         p \in Handlers /\ event[p[2]] \in {"closed", "ended"} =>
           closed[p[2]] \/ l \in {"lock", "writing", "close"}
  PROVE  Ending(p, l, c, j, closed, event)
<1>1. l # "put" /\ l # "ended"
  BY DEF Working
<1>2. p \in Keepalives => c = p[2] /\ j \in {"none", "ping"}
  BY DEF Ending
<1>3. j = "pong" => p \in Handlers /\ c = p[2]
  BY DEF Ending
<1>4. p \in Handlers => /\ event[p[2]] \in {"closed", "ended"} =>
                             closed[p[2]] \/ (l \in {"lock", "writing", "close"} /\ c = p[2])
                        /\ event[p[2]] = "ended" => j # "broadcast"
  BY DEF Ending
<1>5. QED
  BY <1>1, <1>2, <1>3, <1>4 DEF Ending

\* No process moves and no connection changes.
LEMMA EndStays ==
  ASSUME EndInv, UNCHANGED <<pc, on, job, closed, event, socket>>
  PROVE  EndInv'
BY DEF EndInv, Ending, Shut

LEMMA BroadcastReturnsEnds ==
  ASSUME Good, EndInv, NEW p \in Procs, BroadcastReturns(p) PROVE EndInv'
<1>1. PICK k, c, f, j : /\ k = pc[p] /\ c = on[p] /\ f = frame[p] /\ j = job[p]
                        /\ Fits(p, k, c, f, j) /\ Ending(p, k, c, j, closed, event)
  BY EndHolds
<1>2. k = "deliver" /\ j = "broadcast" /\ p \notin Pumps /\ p \notin Keepalives
  BY <1>1 DEF BroadcastReturns, Fits, Ending, Working
<1>3. Moved(p, "user", NoConn, NoFrame, "none")
  BY DEF BroadcastReturns, Goto, Moved
<1>4. Ending(p, "user", NoConn, "none", closed, event)
  BY <1>1, <1>2 DEF Ending, Working
<1>5. UNCHANGED <<closed, socket, event>> /\ pc[p] \notin Closing
  BY DEF BroadcastReturns, connVars, Closing
<1>6. QED
  BY <1>3, <1>4, <1>5, EndSteps

LEMMA NextMemberEnds ==
  ASSUME Good, EndInv, NEW p \in Procs, NextMember(p) PROVE EndInv'
<1>1. PICK k, c, f, j : /\ k = pc[p] /\ c = on[p] /\ f = frame[p] /\ j = job[p]
                        /\ Fits(p, k, c, f, j) /\ Ending(p, k, c, j, closed, event)
  BY EndHolds
<1>2. k = "deliver" /\ j = "broadcast" /\ p \notin Pumps /\ p \notin Keepalives
  BY <1>1 DEF NextMember, Fits, Ending, Working
<1>3. UNCHANGED <<closed, socket, event>> /\ pc[p] \notin Closing
  BY DEF NextMember, connVars, Closing
<1>4. PICK d \in todo[p] : IF closed[d] THEN UNCHANGED <<pc, on, frame, job>>
                           ELSE StartPut(p, d, frame[p], "broadcast")
  BY DEF NextMember
<1>5. CASE closed[d]
  BY <1>3, <1>4, <1>5, EndStays
<1>6. CASE ~closed[d]
  <2>1. Moved(p, "put", d, f, "broadcast")
    BY <1>1, <1>4, <1>6 DEF StartPut, Goto, Moved
  <2>2. Ending(p, "put", d, "broadcast", closed, event)
    BY <1>1, <1>2 DEF Ending, Working
  <2>3. QED
    BY <1>3, <2>1, <2>2, EndSteps
<1>7. QED
  BY <1>5, <1>6

\* The keepalive ticks again, Next reads on, another caller has its way: it
\* does not end here, for its handler had no reason to close.
LEMMA PutAcceptedEnds ==
  ASSUME Good, EndInv, NEW p \in Procs, PutAccepted(p) PROVE EndInv'
<1>1. PICK k, c, f, j : /\ k = pc[p] /\ c = on[p] /\ f = frame[p] /\ j = job[p]
                        /\ Fits(p, k, c, f, j) /\ Ending(p, k, c, j, closed, event)
  BY EndHolds
<1>2. k = "put" /\ p \notin Pumps
  BY <1>1 DEF PutAccepted, Fits, Working
<1>3. UNCHANGED <<closed, socket, event>> /\ pc[p] \notin Closing
  BY DEF PutAccepted, Closing
<1>4. p \in Keepalives => j = "ping"
  BY <1>1, <1>2 DEF Ending
<1>5. p \in Handlers => event[p[2]] # "ended" /\ (event[p[2]] = "closed" => closed[p[2]])
  BY <1>1, <1>2 DEF Ending, Working
<1>6. CASE j = "ping"
  <2>1. Moved(p, "tick", NoConn, NoFrame, "ping")
    BY <1>1, <1>6, GoodParts, SameJob DEF PutAccepted, Goto, Moved
  <2>2. Ending(p, "tick", NoConn, "ping", closed, event)
    BY <1>2, <1>5 DEF Ending, Working
  <2>3. QED
    BY <1>3, <2>1, <2>2, EndSteps
<1>7. CASE j = "pong"
  <2>1. Moved(p, "next", NoConn, NoFrame, "none")
    BY <1>1, <1>7 DEF PutAccepted, Goto, Moved
  <2>2. Ending(p, "next", NoConn, "none", closed, event)
    BY <1>2, <1>5 DEF Ending, Working
  <2>3. QED
    BY <1>3, <2>1, <2>2, EndSteps
<1>8. CASE j \notin {"ping", "pong"}
  <2>1. Done(p)
    BY <1>1, <1>8 DEF PutAccepted
  <2>2. \E l, g, i : /\ Moved(p, l, NoConn, g, i)
                     /\ IF job[p] = "broadcast" THEN l = "deliver" /\ i = "broadcast"
                        ELSE l = Home(p) /\ i = "none"
    BY <2>1, DoneGoes
  <2>3. PICK l, g, i : /\ Moved(p, l, NoConn, g, i)
                       /\ IF job[p] = "broadcast" THEN l = "deliver" /\ i = "broadcast"
                          ELSE l = Home(p) /\ i = "none"
    BY <2>2
  <2>4. p \notin Keepalives
    BY <1>4, <1>8
  <2>5. l \in {"deliver", "user"} /\ i \in {"broadcast", "none"}
    BY <1>2, <1>5, <2>3, <2>4, HomeFacts
  <2>6. Ending(p, l, NoConn, i, closed, event)
    BY <1>2, <1>5, <2>4, <2>5 DEF Ending, Working
  <2>7. QED
    BY <1>3, <2>3, <2>6, EndSteps
<1>9. QED
  BY <1>6, <1>7, <1>8

LEMMA PutRefusedEnds ==
  ASSUME Good, EndInv, NEW p \in Procs, PutRefused(p) PROVE EndInv'
<1>1. /\ pc[p] = "put" /\ closed[on[p]] /\ Done(p)
      /\ closed' = closed /\ socket' = socket
      /\ event' = event \/ (job[p] = "pong" /\ event' = [event EXCEPT ![on[p]] = "closed"])
  BY DEF PutRefused
<1>2. QED
  BY <1>1, DoneEnds

LEMMA PutSlowEnds ==
  ASSUME Good, EndInv, NEW p \in Procs, PutSlow(p) PROVE EndInv'
<1>1. PICK k, c, f, j : /\ k = pc[p] /\ c = on[p] /\ f = frame[p] /\ j = job[p]
                        /\ Fits(p, k, c, f, j) /\ Ending(p, k, c, j, closed, event)
  BY EndHolds
<1>2. k = "put" /\ c \in Conns
  BY <1>1 DEF PutSlow, Fits
<1>3. closed' = closed /\ socket' = socket /\ pc[p] \notin Closing
  BY DEF PutSlow, Closing
<1>4. Moved(p, "lock", c, f, j)
  BY <1>1, GoodParts DEF PutSlow, Moved, TypeProc
<1>5. PICK ev : ev = event'
  OBVIOUS
<1>6. CASE j = "pong"
  <2>1. p \in Handlers /\ c = p[2] /\ p = Handler(c) /\ p \notin Keepalives
    BY <1>1, <1>6, OwnConn DEF Ending
  <2>2. ev[c] = "closed" /\ \A d \in Conns : d # c => ev[d] = event[d]
    BY <1>1, <1>2, <1>5, <1>6, GoodParts DEF PutSlow, TypeData
  <2>3. Ending(p, "lock", c, j, closed, ev)
    BY <1>6, <2>1, <2>2 DEF Ending, Working
  <2>4. QED
    BY <1>3, <1>4, <1>5, <2>1, <2>2, <2>3, EndMoves
<1>7. CASE j # "pong"
  <2>1. event' = event
    BY <1>1, <1>7 DEF PutSlow
  <2>2. Ending(p, "lock", c, j, closed, event)
    BY <1>1, <1>2, EndAt DEF Working
  <2>3. QED
    BY <1>3, <1>4, <2>1, <2>2, EndSteps
<1>8. QED
  BY <1>6, <1>7

LEMMA LockWriteEnds ==
  ASSUME Good, EndInv, NEW p \in Procs, LockWrite(p) PROVE EndInv'
<1>1. PICK k, c, f, j : /\ k = pc[p] /\ c = on[p] /\ f = frame[p] /\ j = job[p]
                        /\ Fits(p, k, c, f, j) /\ Ending(p, k, c, j, closed, event)
  BY EndHolds
<1>2. k = "lock" /\ UNCHANGED <<closed, socket, event>> /\ pc[p] \notin Closing
  BY <1>1 DEF LockWrite, Closing
<1>3. PICK l \in {"close", "writing"} : At(p, l) /\ job' = job
  BY DEF LockWrite
<1>4. Moved(p, l, c, f, j)
  BY <1>1, <1>3, GoodParts, SameJob DEF At, Goto, Moved
<1>5. Ending(p, l, c, j, closed, event)
  BY <1>1, <1>2, EndAt DEF Working
<1>6. QED
  BY <1>2, <1>4, <1>5, EndSteps

LEMMA WrittenEnds ==
  ASSUME Good, EndInv, NEW p \in Procs, WriteOk(p) \/ WriteFails(p) PROVE EndInv'
<1>1. PICK k, c, f, j : /\ k = pc[p] /\ c = on[p] /\ f = frame[p] /\ j = job[p]
                        /\ Fits(p, k, c, f, j) /\ Ending(p, k, c, j, closed, event)
  BY EndHolds
<1>2. k = "writing" /\ UNCHANGED <<closed, socket, event, job>> /\ pc[p] \notin Closing
  BY <1>1 DEF WriteOk, WriteFails, Closing
<1>3. CASE p \in Pumps /\ Goto(p, "take", on[p], NoFrame)
  <2>1. Moved(p, "take", c, NoFrame, j)
    BY <1>1, <1>2, <1>3, GoodParts, SameJob DEF Goto, Moved
  <2>2. j = "none" /\ p \notin Handlers /\ p \notin Keepalives
    BY <1>1, <1>3, OwnConn DEF Fits
  <2>3. Ending(p, "take", c, j, closed, event)
    BY <2>2 DEF Ending
  <2>4. QED
    BY <1>2, <2>1, <2>3, EndSteps
<1>4. CASE At(p, "close")
  <2>1. Moved(p, "close", c, f, j)
    BY <1>1, <1>2, <1>4, GoodParts, SameJob DEF At, Goto, Moved
  <2>2. Ending(p, "close", c, j, closed, event)
    BY <1>1, <1>2, EndAt DEF Working
  <2>3. QED
    BY <1>2, <2>1, <2>2, EndSteps
<1>5. QED
  BY <1>3, <1>4 DEF WriteOk, WriteFails, Written

\* The flag is set by the one that goes on to the socket.
LEMMA SetClosedEnds ==
  ASSUME Good, EndInv, NEW p \in Procs, SetClosed(p) PROVE EndInv'
<1>1. PICK k, c, f, j : /\ k = pc[p] /\ c = on[p] /\ f = frame[p] /\ j = job[p]
                        /\ Fits(p, k, c, f, j) /\ Ending(p, k, c, j, closed, event)
  BY EndHolds
<1>2. k = "close" /\ c \in Conns /\ socket' = socket /\ event' = event /\ pc[p] \notin Closing
  BY <1>1 DEF SetClosed, Fits, Working, Closing
<1>3. CASE closed[c]
  BY <1>1, <1>2, <1>3, DoneEnds DEF SetClosed
<1>4. CASE ~closed[c]
  <2>1. PICK cl : cl = closed'
    OBVIOUS
  <2>2. cl[c] /\ \A d \in Conns : d # c => cl[d] = closed[d]
    BY <1>1, <1>2, <1>4, <2>1, GoodParts DEF SetClosed, TypeData
  <2>3. Moved(p, "leaveAll", c, f, j)
    BY <1>1, <1>4, GoodParts, SameJob DEF SetClosed, At, Goto, Moved
  <2>4. p \in Handlers /\ event[p[2]] \in {"closed", "ended"} => cl[p[2]]
    BY <1>1, <2>2, OwnConn DEF Ending
  <2>5. Ending(p, "leaveAll", c, j, cl, event)
    <3>1. p \in Keepalives => c = p[2] /\ j \in {"none", "ping"}
      BY <1>1, <1>2 DEF Ending, Working
    <3>2. j = "pong" => p \in Handlers /\ c = p[2]
      BY <1>1 DEF Ending
    <3>3. p \in Handlers /\ event[p[2]] = "ended" => j # "broadcast"
      BY <1>1 DEF Ending
    <3>4. QED
      BY <2>4, <3>1, <3>2, <3>3 DEF Ending, Working
  <2>6. QED
    BY <1>1, <1>2, <1>4, <2>1, <2>2, <2>3, <2>5, EndMoves
<1>5. QED
  BY <1>3, <1>4

LEMMA LeaveAllEnds ==
  ASSUME Good, EndInv, NEW p \in Procs, LeaveAll(p) PROVE EndInv'
<1>1. PICK k, c, f, j : /\ k = pc[p] /\ c = on[p] /\ f = frame[p] /\ j = job[p]
                        /\ Fits(p, k, c, f, j) /\ Ending(p, k, c, j, closed, event)
  BY EndHolds
<1>2. k = "leaveAll" /\ UNCHANGED <<closed, socket, event>>
  BY <1>1 DEF LeaveAll, connVars
<1>3. Moved(p, "hangup", c, f, j)
  BY <1>1, GoodParts, SameJob DEF LeaveAll, At, Goto, Moved
<1>4. p \in Handlers /\ event[p[2]] \in {"closed", "ended"} => closed[p[2]]
  BY <1>1, <1>2 DEF Ending
<1>5. Ending(p, "hangup", c, j, closed, event)
  BY <1>1, <1>2, <1>4, EndAt DEF Working
<1>6. QED
  BY <1>1, <1>2, <1>3, <1>5, EndSteps DEF Closing

LEMMA CloseSocketEnds ==
  ASSUME Good, EndInv, NEW p \in Procs, CloseSocket(p) PROVE EndInv'
<1>1. PICK k, c, f, j : /\ k = pc[p] /\ c = on[p] /\ f = frame[p] /\ j = job[p]
                        /\ Fits(p, k, c, f, j) /\ Ending(p, k, c, j, closed, event)
  BY EndHolds
<1>2. c \in Conns /\ closed[c] /\ pc[p] = "hangup" /\ Done(p) /\ closed' = closed /\ event' = event
  BY <1>1 DEF CloseSocket, Fits, Working
<1>3. socket'[c] = "closed" /\ \A d \in Conns : socket[d] = "closed" => socket'[d] = "closed"
  BY <1>1, <1>2, GoodParts DEF CloseSocket, TypeData
<1>4. QED
  BY <1>1, <1>2, <1>3, DoneEnds

LEMMA PumpEnding ==
  ASSUME Good, EndInv, NEW c \in Conns, PumpRuns(c) PROVE EndInv'
<1>1. PICK p : p = Pump(c)
  OBVIOUS
<1>2. p \in Procs /\ p \in Pumps /\ p \notin Handlers /\ p \notin Keepalives
  BY <1>1, OwnConn
<1>3. PICK k, d, f, j : /\ k = pc[p] /\ d = on[p] /\ f = frame[p] /\ j = job[p]
                        /\ Fits(p, k, d, f, j) /\ Ending(p, k, d, j, closed, event)
  BY <1>2, EndHolds
<1>4. j = "none"
  BY <1>2, <1>3 DEF Fits
<1>5. PICK l, g : l \in {"lock", "close"} /\ Goto(p, l, c, g) /\ job' = job
  BY <1>1 DEF PumpRuns, PumpTakes, PumpEnds
<1>6. Moved(p, l, c, g, j)
  BY <1>2, <1>3, <1>5, GoodParts, SameJob DEF Goto, Moved
<1>7. UNCHANGED <<closed, socket, event>> /\ pc[p] \notin Closing
  BY <1>1 DEF PumpRuns, PumpTakes, PumpEnds, connVars, Closing
<1>8. Ending(p, l, c, j, closed, event)
  BY <1>2, <1>4, <1>5 DEF Ending
<1>9. QED
  BY <1>2, <1>6, <1>7, <1>8, EndSteps

LEMMA KeepaliveEnding ==
  ASSUME Good, EndInv, NEW c \in Conns, Tick(c) \/ KeepaliveEnds(c) PROVE EndInv'
<1>1. PICK p : p = Keepalive(c)
  OBVIOUS
<1>2. p \in Procs /\ p \in Keepalives /\ p[2] = c /\ p \notin Handlers /\ p \notin Pumps
  BY <1>1, OwnConn
<1>3. PICK k, d, f, j : /\ k = pc[p] /\ d = on[p] /\ f = frame[p] /\ j = job[p]
                        /\ Fits(p, k, d, f, j) /\ Ending(p, k, d, j, closed, event)
  BY <1>2, EndHolds
<1>4. UNCHANGED <<closed, socket, event>> /\ k = "tick" /\ pc[p] \notin Closing
  BY <1>1, <1>3 DEF Tick, KeepaliveEnds, connVars, Closing
<1>5. CASE Tick(c)
  <2>1. Moved(p, "put", c, Control, "ping")
    BY <1>1, <1>5 DEF Tick, StartPut, Goto, Moved
  <2>2. Ending(p, "put", c, "ping", closed, event)
    BY <1>2 DEF Ending
  <2>3. QED
    BY <1>2, <1>4, <2>1, <2>2, EndSteps
<1>6. CASE KeepaliveEnds(c)
  <2>1. Moved(p, "ended", NoConn, NoFrame, j)
    BY <1>1, <1>2, <1>3, <1>6, GoodParts, SameJob DEF KeepaliveEnds, Goto, Moved
  <2>2. closed[c] /\ j \in {"none", "ping"}
    BY <1>2, <1>3, <1>6 DEF KeepaliveEnds, Ending
  <2>3. Ending(p, "ended", NoConn, j, closed, event)
    BY <1>2, <2>2 DEF Ending, Working
  <2>4. QED
    BY <1>2, <1>4, <2>1, <2>3, EndSteps
<1>7. QED
  BY <1>5, <1>6

LEMMA HandlerEnding ==
  ASSUME Good, EndInv, NEW c \in Conns, HandlerRuns(c) PROVE EndInv'
<1>1. PICK p : p = Handler(c)
  OBVIOUS
<1>2. p \in Procs /\ p \in Handlers /\ p[2] = c /\ p \notin Pumps /\ p \notin Keepalives
  BY <1>1, OwnConn
<1>3. PICK k, d, f, j : /\ k = pc[p] /\ d = on[p] /\ f = frame[p] /\ j = job[p]
                        /\ Fits(p, k, d, f, j) /\ Ending(p, k, d, j, closed, event)
  BY <1>2, EndHolds
<1>4. k \in {"user", "next"} /\ closed' = closed /\ socket' = socket /\ pc[p] \notin Closing
  BY <1>1, <1>3 DEF HandlerRuns, EventEnds, NextMessage, NextPing, NextFails, HandlerReturns,
     HandlerPanics, connVars, Closing
<1>5. j # "broadcast" /\ j # "pong"
  BY <1>3, <1>4 DEF Fits, Ending, Resting, Working
<1>6. event[c] # "ended" /\ (event[c] = "closed" => closed[c])
  BY <1>2, <1>3, <1>4 DEF Ending, Working
<1>7. ASSUME NEW l \in {"user", "next"}, Goto(p, l, NoConn, NoFrame), job' = job, event' = event
      PROVE  EndInv'
  <2>1. Moved(p, l, NoConn, NoFrame, j)
    BY <1>2, <1>3, <1>7, GoodParts, SameJob DEF Goto, Moved
  <2>2. Ending(p, l, NoConn, j, closed, event)
    BY <1>2, <1>5, <1>6 DEF Ending, Working
  <2>3. QED
    BY <1>2, <1>4, <1>7, <2>1, <2>2, EndSteps
<1>8. CASE NextPing(c)
  <2>1. Moved(p, "put", c, Control, "pong") /\ event' = event
    BY <1>1, <1>8 DEF NextPing, StartPut, Goto, Moved, connVars
  <2>2. Ending(p, "put", c, "pong", closed, event)
    BY <1>2, <1>6 DEF Ending
  <2>3. QED
    BY <1>2, <1>4, <2>1, <2>2, EndSteps
<1>9. ASSUME NEW ev, ev = event', NEW w \in {"closed", "ended"},
             ev[c] = w, \A e \in Conns : e # c => ev[e] = event[e],
             NEW l \in {"close", "lock", "ended"}, NEW e \in {c, NoConn}, Goto(p, l, e, NoFrame),
             job' = job, l = "ended" => closed[c] /\ w = "ended", l # "ended" => e = c
      PROVE  EndInv'
  <2>1. Moved(p, l, e, NoFrame, j)
    BY <1>2, <1>3, <1>9, GoodParts, SameJob DEF Goto, Moved
  <2>2. Ending(p, l, e, j, closed, ev)
    BY <1>2, <1>5, <1>9 DEF Ending, Working
  <2>3. \A b \in Conns : Handler(b) # p => event'[b] = event[b]
    BY <1>1, <1>9
  <2>4. QED
    BY <1>2, <1>4, <1>9, <2>1, <2>2, <2>3, EndMoves
<1>10. ASSUME NEW w, event' = [event EXCEPT ![c] = w]
       PROVE  event'[c] = w /\ \A e \in Conns : e # c => event'[e] = event[e]
  BY <1>10, GoodParts DEF TypeData
<1>11. CASE NextFails(c)
  <2>1. PICK l \in {"close", "lock"} : Goto(p, l, c, NoFrame)
    BY <1>1, <1>11 DEF NextFails
  <2>2. event' = [event EXCEPT ![c] = "closed"] /\ job' = job
    BY <1>11 DEF NextFails
  <2>3. PICK ev : ev = event'
    OBVIOUS
  <2>4. ev[c] = "closed" /\ \A e \in Conns : e # c => ev[e] = event[e]
    BY <1>10, <2>2, <2>3
  <2>5. QED
    BY <1>9, <2>1, <2>2, <2>3, <2>4
<1>12. CASE HandlerReturns(c)
  <2>1. closed[c] /\ Goto(p, "ended", NoConn, NoFrame)
    BY <1>1, <1>6, <1>12 DEF HandlerReturns
  <2>2. event' = [event EXCEPT ![c] = "ended"] /\ job' = job
    BY <1>12 DEF HandlerReturns
  <2>3. PICK ev : ev = event'
    OBVIOUS
  <2>4. ev[c] = "ended" /\ \A e \in Conns : e # c => ev[e] = event[e]
    BY <1>10, <2>2, <2>3
  <2>5. QED
    BY <1>9, <2>1, <2>2, <2>3, <2>4
<1>13. CASE HandlerPanics(c)
  <2>1. Goto(p, "close", c, NoFrame)
    BY <1>1, <1>13 DEF HandlerPanics
  <2>2. event' = [event EXCEPT ![c] = "ended"] /\ job' = job
    BY <1>13 DEF HandlerPanics
  <2>3. PICK ev : ev = event'
    OBVIOUS
  <2>4. ev[c] = "ended" /\ \A e \in Conns : e # c => ev[e] = event[e]
    BY <1>10, <2>2, <2>3
  <2>5. QED
    BY <1>9, <2>1, <2>2, <2>3, <2>4
<1>14. CASE EventEnds(c) \/ NextMessage(c)
  BY <1>1, <1>7, <1>14 DEF EventEnds, NextMessage, connVars
<1>15. QED
  BY <1>8, <1>11, <1>12, <1>13, <1>14 DEF HandlerRuns

LEMMA ProgramEnding ==
  ASSUME Good, EndInv, NEW p \in Callers, Program(p) PROVE EndInv'
<1>1. p \in Procs /\ p \notin Pumps /\ p \notin Keepalives
  BY OwnConn, ActiveAssumption DEF Callers, Procs, Handlers
<1>2. PICK k, d, f, j : /\ k = pc[p] /\ d = on[p] /\ f = frame[p] /\ j = job[p]
                        /\ Fits(p, k, d, f, j) /\ Ending(p, k, d, j, closed, event)
  BY <1>1, EndHolds
<1>3. k = "user" /\ UNCHANGED <<closed, socket, event>> /\ pc[p] \notin Closing
  BY <1>2 DEF Program, Join, Leave, Send, Broadcast, CloseWith, MayUse, connVars, Closing
<1>4. p \in Handlers => event[p[2]] # "ended" /\ (event[p[2]] = "closed" => closed[p[2]])
  BY <1>2, <1>3 DEF Ending, Working
<1>5. CASE \E c \in Conns, t \in Topics : Join(p, c, t) \/ Leave(p, c, t)
  BY <1>3, <1>5, EndStays DEF Join, Leave, procVars
<1>6. CASE \E c \in Conns, m \in Messages : Send(p, c, m)
  <2>1. PICK c \in Conns, m \in Messages : Send(p, c, m)
    BY <1>6
  <2>2. Moved(p, "put", c, m, "call")
    BY <2>1 DEF Send, StartPut, Goto, Moved
  <2>3. Ending(p, "put", c, "call", closed, event)
    BY <1>1, <1>4 DEF Ending
  <2>4. QED
    BY <1>1, <1>3, <2>2, <2>3, EndSteps
<1>7. CASE \E t \in Topics, m \in Messages : Broadcast(p, t, m)
  <2>1. PICK t \in Topics, m \in Messages : Broadcast(p, t, m)
    BY <1>7
  <2>2. Moved(p, "deliver", NoConn, m, "broadcast")
    BY <2>1 DEF Broadcast, Goto, Moved
  <2>3. Ending(p, "deliver", NoConn, "broadcast", closed, event)
    BY <1>1, <1>4 DEF Ending
  <2>4. QED
    BY <1>1, <1>3, <2>2, <2>3, EndSteps
<1>8. CASE \E c \in Conns : CloseWith(p, c)
  <2>1. PICK c \in Conns : CloseWith(p, c)
    BY <1>8
  <2>2. Moved(p, "lock", c, NoFrame, "call")
    BY <2>1 DEF CloseWith, Goto, Moved
  <2>3. Ending(p, "lock", c, "call", closed, event)
    BY <1>1, <1>4 DEF Ending
  <2>4. QED
    BY <1>1, <1>3, <2>2, <2>3, EndSteps
<1>9. QED
  BY <1>5, <1>6, <1>7, <1>8 DEF Program

\* The goroutines of a new connection: it was not closed, nor are they done.
LEMMA UpgradeEnding ==
  ASSUME Good, EndInv, NEW c \in Conns, Upgrade(c) PROVE EndInv'
<1>1. /\ pc[Handler(c)] = "off" /\ pc[Pump(c)] = "off" /\ pc[Keepalive(c)] = "off"
      /\ UNCHANGED <<closed, on, job>>
  BY GoodParts DEF Upgrade, Dormant
<1>2. PICK st : st = pc'
  OBVIOUS
<1>3. PICK ev : ev = event'
  OBVIOUS
<1>4. /\ st[Handler(c)] = "user" /\ st[Pump(c)] = "take" /\ st[Keepalive(c)] = "tick"
      /\ \A q \in Procs \ {Handler(c), Pump(c), Keepalive(c)} : st[q] = pc[q]
  <2>1. PICK a : a = [pc EXCEPT ![Handler(c)] = "user"]
    OBVIOUS
  <2>2. PICK b : b = [a EXCEPT ![Pump(c)] = "take"]
    OBVIOUS
  <2>3. st = [b EXCEPT ![Keepalive(c)] = "tick"]
    BY <1>2, <2>1, <2>2 DEF Upgrade
  <2>4. /\ Handler(c) \in Procs /\ Pump(c) \in Procs /\ Keepalive(c) \in Procs
        /\ Handler(c) # Pump(c) /\ Handler(c) # Keepalive(c) /\ Pump(c) # Keepalive(c)
    BY OwnConn
  <2>5. pc \in [Procs -> Labels]
    BY GoodParts DEF TypeProc
  <2>6. DOMAIN a = Procs /\ a[Handler(c)] = "user" /\ \A q \in Procs : q # Handler(c) => a[q] = pc[q]
    BY <2>1, <2>4, <2>5
  <2>7. DOMAIN b = Procs /\ b[Pump(c)] = "take" /\ \A q \in Procs : q # Pump(c) => b[q] = a[q]
    BY <2>2, <2>4, <2>6
  <2>8. st[Keepalive(c)] = "tick" /\ \A q \in Procs : q # Keepalive(c) => st[q] = b[q]
    BY <2>3, <2>4, <2>7
  <2>9. QED
    BY <2>4, <2>6, <2>7, <2>8
<1>5. ev[c] = "open" /\ \A d \in Conns : d # c => ev[d] = event[d]
  BY <1>3, GoodParts DEF Upgrade, TypeData
<1>6. ASSUME NEW q \in Procs PROVE Ending(q, st[q], on[q], job[q], closed, ev)
  <2>1. PICK k, d, j : k = pc[q] /\ d = on[q] /\ j = job[q]
    OBVIOUS
  <2>2. Ending(q, k, d, j, closed, event)
    BY <2>1 DEF EndInv
  <2>3. CASE q \in {Handler(c), Pump(c), Keepalive(c)}
    <3>1. k = "off" /\ st[q] \in {"user", "take", "tick"}
      BY <1>1, <1>4, <2>1, <2>3
    <3>2. j # "pong" /\ (q \in Keepalives => j \in {"none", "ping"})
      BY <2>2, <3>1 DEF Ending, Working
    <3>3. q \in Handlers => q[2] = c
      BY <2>3, OwnConn
    <3>4. Ending(q, st[q], d, j, closed, ev)
      BY <1>5, <3>1, <3>2, <3>3 DEF Ending, Working
    <3>5. QED
      BY <2>1, <3>4
  <2>4. CASE q \notin {Handler(c), Pump(c), Keepalive(c)}
    <3>1. st[q] = k
      BY <1>4, <2>1, <2>4
    <3>2. q \in Handlers => ev[q[2]] = event[q[2]]
      BY <1>5, <2>4, OwnConn
    <3>3. Ending(q, k, d, j, closed, ev)
      BY <2>2, <3>2 DEF Ending
    <3>4. QED
      BY <2>1, <3>1, <3>3
  <2>5. QED
    BY <2>3, <2>4
<1>7. ASSUME NEW d \in Conns, closed[d]
      PROVE  socket'[d] = "closed" \/ \E q \in Procs : st[q] \in Closing /\ on[q] = d
  <2>1. CASE socket[d] = "closed"
    BY <2>1, GoodParts DEF Upgrade, TypeData
  <2>2. CASE socket[d] # "closed"
    <3>1. PICK q \in Procs : pc[q] \in Closing /\ on[q] = d
      BY <1>7, <2>2 DEF EndInv, Shut
    <3>2. st[q] = pc[q]
      BY <1>1, <1>4, <3>1 DEF Closing
    <3>3. QED
      BY <3>1, <3>2
  <2>3. QED
    BY <2>1, <2>2
<1>8. QED
  BY <1>1, <1>2, <1>3, <1>6, <1>7 DEF EndInv, Shut

LEMMA EndInit == Init => EndInv
<1>1. SUFFICES ASSUME Init PROVE EndInv
  OBVIOUS
<1>2. ASSUME NEW p \in Procs PROVE Ending(p, pc[p], on[p], job[p], closed, event)
  <2>1. pc[p] \in {"user", "off"} /\ job[p] = "none"
    BY <1>1 DEF Init
  <2>2. p \in Handlers => event[p[2]] = "none"
    BY <1>1, OwnConn DEF Init
  <2>3. QED
    BY <2>1, <2>2 DEF Ending, Working
<1>3. \A c \in Conns : ~closed[c]
  BY <1>1 DEF Init
<1>4. QED
  BY <1>2, <1>3 DEF EndInv, Shut

LEMMA EndStep == Good /\ EndInv /\ [Next]_vars => EndInv'
<1>1. SUFFICES ASSUME Good, EndInv, [Next]_vars PROVE EndInv'
  OBVIOUS
<1>2. ASSUME NEW p \in Procs, Runs(p) \/ WriteOk(p) PROVE EndInv'
  BY <1>1, <1>2, BroadcastReturnsEnds, NextMemberEnds, PutAcceptedEnds, PutRefusedEnds, PutSlowEnds,
     LockWriteEnds, WrittenEnds, SetClosedEnds, LeaveAllEnds, CloseSocketEnds DEF Runs
<1>3. CASE UNCHANGED vars
  BY <1>1, <1>3, EndStays DEF vars, connVars, procVars
<1>4. QED
  BY <1>1, <1>2, <1>3, ProgramEnding, UpgradeEnding, PumpEnding, KeepaliveEnding, HandlerEnding,
     ActiveAssumption DEF Next

LEMMA EndMeans == EndInv => EndsClosed
<1>1. SUFFICES ASSUME EndInv, NEW c \in Conns
      PROVE  /\ "ended" \in {pc[Handler(c)], pc[Pump(c)], pc[Keepalive(c)]} => closed[c]
             /\ event[c] = "closed" /\ pc[Handler(c)] = "user" => closed[c]
             /\ closed[c] => \/ socket[c] = "closed"
                             \/ \E p \in Procs : pc[p] \in {"leaveAll", "hangup"} /\ on[p] = c
  BY DEF EndsClosed
<1>2. pc[Pump(c)] = "ended" => closed[c]
  BY <1>1, OwnConn DEF EndInv, Ending
<1>3. pc[Keepalive(c)] = "ended" => closed[c]
  BY <1>1, OwnConn DEF EndInv, Ending
<1>4. pc[Handler(c)] = "ended" => closed[c]
  BY <1>1, OwnConn DEF EndInv, Ending
<1>5. event[c] = "closed" /\ pc[Handler(c)] = "user" => closed[c]
  BY <1>1, OwnConn DEF EndInv, Ending
<1>6. QED
  BY <1>1, <1>2, <1>3, <1>4, <1>5 DEF EndInv, Shut, Closing

\* The pump, the keepalive and the handler of a connection end only when it
\* is closed, and what is closed gets its socket closed by the one process
\* that set the flag (Close, writePump, keepAlive, the deferred Close).
THEOREM GoroutinesEndClosed == Spec => []EndsClosed
<1>1. Good /\ [Next]_vars => Good'
  BY StepEffect
<1>2. QED
  BY <1>1, GoodInit, EndInit, EndStep, EndMeans, PTL DEF Spec
=============================================================================
