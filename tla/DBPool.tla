------------------------------ MODULE DBPool ------------------------------
(***************************************************************************)
(* The shared connection pool of the LIAF runtime (pkg/runtime/db.go), for *)
(* one key "driver::dsn".  A goroutine (a "caller") connects, uses and     *)
(* closes handles; a step of the model is one critical section or one      *)
(* blocking call of the code.  poolsMu and a pool's mu guard sections that *)
(* do not block, so each section is one action; the dial mutex is held     *)
(* across a network dial and is a variable.                                *)
(*                                                                         *)
(* Finite Handles, Pools and Conns bound how often the code allocates: a   *)
(* handle or a pool is used once, a closed connection's name is reused.    *)
(***************************************************************************)
EXTENDS Integers, SequencesExt

CONSTANTS
  Callers,     \* goroutines
  Handles,     \* *DBConn values returned by db-connect
  Pools,       \* *dbPool values, one per time the key's pool is opened anew
  Conns,       \* driver connections
  MaxOpen,     \* capacity of sem: pool_max of the DSN, or defaultMaxOpen
  MaxIdle,     \* maxIdleConns
  NoCaller, NoHandle, NoPool, NoConn

ASSUME MaxOpenAssumption == MaxOpen \in Nat \ {0}
ASSUME MaxIdleAssumption == MaxIdle \in Nat \ {0}
ASSUME NullAssumption ==
  /\ NoCaller \notin Callers
  /\ NoHandle \notin Handles
  /\ NoPool \notin Pools
  /\ NoConn \notin Conns

VARIABLES
  registered,  \* pools[key], or NoPool
  dialMu,      \* holder of dialLock(key), or NoCaller
  status,      \* pool -> "unmade", "open", "closed"
  refs,        \* pool -> dbPool.refs
  idle,        \* pool -> dbPool.idle, a stack
  sem,         \* pool -> len(dbPool.sem)
  hpool,       \* handle -> DBConn.pool
  hstate,      \* handle -> "none", "open", "closing" (CAS won, refs still
               \*           counts it), "closed"
  live,        \* driver connections established and not closed
  pc,          \* caller -> where it is
  cur,         \* caller -> the handle of its call
  conn,        \* caller -> the connection it holds
  drain        \* caller -> connections DBClose took from idle, to be closed

poolVars == <<registered, status, refs, idle>>
callVars == <<pc, cur, conn, drain>>
vars == <<registered, dialMu, status, refs, idle, sem, hpool, hstate, live,
          pc, cur, conn, drain>>

\* Inside pool.acquire .. pool.release: the caller's slot of sem is taken.
SlotHeld == {"slot", "dialConn", "using", "tx",
             "release", "releaseBroken", "discard", "free"}
\* ... and a connection of the pool is held or being dialled.
Checked == {"dialConn", "using", "tx", "release", "releaseBroken", "discard"}
\* ... and the connection is in hand.
Holding == Checked \ {"dialConn"}

Labels == {"idle", "dialWait", "recheck", "dialPool", "register",
           "closing", "drain", "wait"} \cup SlotHeld

Init ==
  /\ registered = NoPool
  /\ dialMu = NoCaller
  /\ status = [p \in Pools |-> "unmade"]
  /\ refs = [p \in Pools |-> 0]
  /\ idle = [p \in Pools |-> <<>>]
  /\ sem = [p \in Pools |-> 0]
  /\ hpool = [h \in Handles |-> NoPool]
  /\ hstate = [h \in Handles |-> "none"]
  /\ live = {}
  /\ pc = [a \in Callers |-> "idle"]
  /\ cur = [a \in Callers |-> NoHandle]
  /\ conn = [a \in Callers |-> NoConn]
  /\ drain = [a \in Callers |-> {}]

Goto(a, label) == pc' = [pc EXCEPT ![a] = label]
PoolOf(a) == hpool[cur[a]]
Finish(a) ==
  /\ Goto(a, "idle")
  /\ cur' = [cur EXCEPT ![a] = NoHandle]

-----------------------------------------------------------------------------
(* DBConnect                                                               *)

\* The test of shareOpenPool: p == nil || p.closed.
Sharable == registered # NoPool /\ status[registered] = "open"

\* newHandle(p) with h the fresh value.
NewHandle(h, p) ==
  /\ hstate[h] = "none"
  /\ hpool' = [hpool EXCEPT ![h] = p]
  /\ hstate' = [hstate EXCEPT ![h] = "open"]

ShareOpenPool(h) ==
  /\ Sharable
  /\ refs' = [refs EXCEPT ![registered] = @ + 1]
  /\ NewHandle(h, registered)

\* Bounds: a db-connect is called only when a handle, and if it misses a
\* pool, is left for it and for every db-connect under way.
MidConnect == {a \in Callers : pc[a] \in {"dialWait", "recheck", "dialPool", "register"}}
HandlesLeft == Cardinality(MidConnect) < Cardinality({h \in Handles : hstate[h] = "none"})
PoolsLeft == Cardinality(MidConnect) < Cardinality({p \in Pools : status[p] = "unmade"})

ConnectShared(a, h) ==
  /\ pc[a] = "idle"
  /\ HandlesLeft
  /\ ShareOpenPool(h)
  /\ UNCHANGED <<registered, dialMu, status, idle, sem, live, callVars>>

ConnectMiss(a) ==
  /\ pc[a] = "idle"
  /\ HandlesLeft
  /\ PoolsLeft
  /\ ~Sharable
  /\ Goto(a, "dialWait")
  /\ UNCHANGED <<poolVars, dialMu, sem, hpool, hstate, live, cur, conn, drain>>

LockDial(a) ==
  /\ pc[a] = "dialWait"
  /\ dialMu = NoCaller
  /\ dialMu' = a
  /\ Goto(a, "recheck")
  /\ UNCHANGED <<poolVars, sem, hpool, hstate, live, cur, conn, drain>>

\* Second shareOpenPool, under dialMu; the deferred unlock runs on return.
RecheckShared(a, h) ==
  /\ pc[a] = "recheck"
  /\ ShareOpenPool(h)
  /\ dialMu' = NoCaller
  /\ Goto(a, "idle")
  /\ UNCHANGED <<registered, status, idle, sem, live, cur, conn, drain>>

\* Mutant: the map is not looked at again after dialMu.Lock.
RecheckSkipped(a) ==
  /\ pc[a] = "recheck"
  /\ Goto(a, "dialPool")
  /\ UNCHANGED <<poolVars, dialMu, sem, hpool, hstate, live, cur, conn, drain>>

RecheckMiss(a) ==
  /\ pc[a] = "recheck"
  /\ ~Sharable
  /\ Goto(a, "dialPool")
  /\ UNCHANGED <<poolVars, dialMu, sem, hpool, hstate, live, cur, conn, drain>>

DialPoolFail(a) ==
  /\ pc[a] = "dialPool"
  /\ dialMu' = NoCaller
  /\ Goto(a, "idle")
  /\ UNCHANGED <<poolVars, sem, hpool, hstate, live, cur, conn, drain>>

DialPoolOk(a, c) ==
  /\ pc[a] = "dialPool"
  /\ c \notin live
  /\ live' = live \cup {c}
  /\ conn' = [conn EXCEPT ![a] = c]
  /\ Goto(a, "register")
  /\ UNCHANGED <<poolVars, dialMu, sem, hpool, hstate, cur, drain>>

\* The pool is built around the dialled connection and stored in pools[key],
\* whatever is stored there, in a poolsMu section of its own.
Register(a, h, p) ==
  /\ pc[a] = "register"
  /\ status[p] = "unmade"
  /\ status' = [status EXCEPT ![p] = "open"]
  /\ refs' = [refs EXCEPT ![p] = 1]
  /\ idle' = [idle EXCEPT ![p] = <<conn[a]>>]
  /\ registered' = p
  /\ NewHandle(h, p)
  /\ conn' = [conn EXCEPT ![a] = NoConn]
  /\ dialMu' = NoCaller
  /\ Goto(a, "idle")
  /\ UNCHANGED <<sem, live, cur, drain>>

-----------------------------------------------------------------------------
(* DBClose                                                                 *)

\* Mutant: closed is set after the reference is dropped, so two db-close on
\* one handle both count.
CloseHandleTwice(a, h) ==
  /\ pc[a] = "idle"
  /\ hstate[h] \in {"open", "closing"}
  /\ hstate' = [hstate EXCEPT ![h] = "closing"]
  /\ cur' = [cur EXCEPT ![a] = h]
  /\ Goto(a, "closing")
  /\ UNCHANGED <<poolVars, dialMu, sem, hpool, live, conn, drain>>

\* c.closed.CompareAndSwap(false, true)
CloseHandle(a, h) ==
  /\ pc[a] = "idle"
  /\ hstate[h] = "open"
  /\ hstate' = [hstate EXCEPT ![h] = "closing"]
  /\ cur' = [cur EXCEPT ![a] = h]
  /\ Goto(a, "closing")
  /\ UNCHANGED <<poolVars, dialMu, sem, hpool, live, conn, drain>>

\* A lost CAS, and an acquire on a closed handle: both return at once.
CallOnClosed(a, h) ==
  /\ pc[a] = "idle"
  /\ hstate[h] \in {"closing", "closed"}
  /\ UNCHANGED vars

DropRef(a) ==
  /\ pc[a] = "closing"
  /\ hstate' = [hstate EXCEPT ![cur[a]] = "closed"]
  /\ refs' = [refs EXCEPT ![PoolOf(a)] = @ - 1]

\* refs stays positive: the pool lives on.
DropSharedRef(a) ==
  /\ DropRef(a)
  /\ refs[PoolOf(a)] - 1 > 0
  /\ Finish(a)
  /\ UNCHANGED <<registered, dialMu, status, idle, sem, hpool, live, conn, drain>>

\* Mutant: the closed pool stays in the pools map.
DropLastKeepsEntry(a) ==
  LET p == PoolOf(a) IN
  /\ DropRef(a)
  /\ refs[p] - 1 <= 0
  /\ status' = [status EXCEPT ![p] = "closed"]
  /\ drain' = [drain EXCEPT ![a] = ToSet(idle[p])]
  /\ idle' = [idle EXCEPT ![p] = <<>>]
  /\ Goto(a, "drain")
  /\ UNCHANGED <<registered, dialMu, sem, hpool, live, cur, conn>>

\* The last handle: unregister, close the pool and take its idle list.
DropLastRef(a) ==
  LET p == PoolOf(a) IN
  /\ DropRef(a)
  /\ refs[p] - 1 <= 0
  /\ registered' = IF registered = p THEN NoPool ELSE registered
  /\ status' = [status EXCEPT ![p] = "closed"]
  /\ drain' = [drain EXCEPT ![a] = ToSet(idle[p])]
  /\ idle' = [idle EXCEPT ![p] = <<>>]
  /\ Goto(a, "drain")
  /\ UNCHANGED <<dialMu, sem, hpool, live, cur, conn>>

CloseIdleConn(a, c) ==
  /\ pc[a] = "drain"
  /\ c \in drain[a]
  /\ drain' = [drain EXCEPT ![a] = @ \ {c}]
  /\ live' = live \ {c}
  /\ UNCHANGED <<poolVars, dialMu, sem, hpool, hstate, pc, cur, conn>>

CloseDone(a) ==
  /\ pc[a] = "drain"
  /\ drain[a] = {}
  /\ Finish(a)
  /\ UNCHANGED <<poolVars, dialMu, sem, hpool, hstate, live, conn, drain>>

-----------------------------------------------------------------------------
(* acquire                                                                 *)

\* The closed flag of the handle is read without any lock.
AcquireStart(a, h) ==
  /\ pc[a] = "idle"
  /\ hstate[h] = "open"
  /\ cur' = [cur EXCEPT ![a] = h]
  /\ Goto(a, "wait")
  /\ UNCHANGED <<poolVars, dialMu, sem, hpool, hstate, live, conn, drain>>

\* Mutant: sem made one larger than pool_max.
TakeSlotOneMore(a) ==
  /\ pc[a] = "wait"
  /\ sem[PoolOf(a)] <= MaxOpen
  /\ sem' = [sem EXCEPT ![PoolOf(a)] = @ + 1]
  /\ Goto(a, "slot")
  /\ UNCHANGED <<poolVars, dialMu, hpool, hstate, live, cur, conn, drain>>

\* p.sem <- struct{}{}
TakeSlot(a) ==
  /\ pc[a] = "wait"
  /\ sem[PoolOf(a)] < MaxOpen
  /\ sem' = [sem EXCEPT ![PoolOf(a)] = @ + 1]
  /\ Goto(a, "slot")
  /\ UNCHANGED <<poolVars, dialMu, hpool, hstate, live, cur, conn, drain>>

\* Mutant: the error return of a closed pool forgets <-p.sem.
FindClosedLeaksSlot(a) ==
  /\ pc[a] = "slot"
  /\ status[PoolOf(a)] = "closed"
  /\ Finish(a)
  /\ UNCHANGED <<poolVars, dialMu, sem, hpool, hstate, live, conn, drain>>

\* Mutant: acquire loops on a closed pool as if it were still to be opened.
FindClosedRetries(a) ==
  /\ pc[a] = "slot"
  /\ status[PoolOf(a)] = "closed"
  /\ UNCHANGED vars

\* The three outcomes of the section under p.mu.
FindClosed(a) ==
  /\ pc[a] = "slot"
  /\ status[PoolOf(a)] = "closed"
  /\ Goto(a, "free")
  /\ UNCHANGED <<poolVars, dialMu, sem, hpool, hstate, live, cur, conn, drain>>

\* Mutant: the connection is read from the end of idle and left there.
PopIdleLeaves(a) ==
  LET p == PoolOf(a) IN
  /\ pc[a] = "slot"
  /\ status[p] # "closed"
  /\ Len(idle[p]) > 0
  /\ conn' = [conn EXCEPT ![a] = Last(idle[p])]
  /\ Goto(a, "using")
  /\ UNCHANGED <<poolVars, dialMu, sem, hpool, hstate, live, cur, drain>>

PopIdle(a) ==
  LET p == PoolOf(a) IN
  /\ pc[a] = "slot"
  /\ status[p] # "closed"
  /\ Len(idle[p]) > 0
  /\ conn' = [conn EXCEPT ![a] = Last(idle[p])]
  /\ idle' = [idle EXCEPT ![p] = Front(@)]
  /\ Goto(a, "using")
  /\ UNCHANGED <<registered, status, refs, dialMu, sem, hpool, hstate, live, cur, drain>>

FindEmpty(a) ==
  /\ pc[a] = "slot"
  /\ status[PoolOf(a)] # "closed"
  /\ Len(idle[PoolOf(a)]) = 0
  /\ Goto(a, "dialConn")
  /\ UNCHANGED <<poolVars, dialMu, sem, hpool, hstate, live, cur, conn, drain>>

\* dbdrv.Open outside every lock.
DialConnOk(a, c) ==
  /\ pc[a] = "dialConn"
  /\ c \notin live
  /\ live' = live \cup {c}
  /\ conn' = [conn EXCEPT ![a] = c]
  /\ Goto(a, "using")
  /\ UNCHANGED <<poolVars, dialMu, sem, hpool, hstate, cur, drain>>

\* Mutant: the error return of a failed dial forgets <-p.sem.
DialConnFailLeaksSlot(a) ==
  /\ pc[a] = "dialConn"
  /\ Finish(a)
  /\ UNCHANGED <<poolVars, dialMu, sem, hpool, hstate, live, conn, drain>>

DialConnFail(a) ==
  /\ pc[a] = "dialConn"
  /\ Goto(a, "free")
  /\ UNCHANGED <<poolVars, dialMu, sem, hpool, hstate, live, cur, conn, drain>>

-----------------------------------------------------------------------------
(* Use of the connection, transactions and release                         *)

\* A query, an exec, a redis-get or -set, or a failed Begin.  Its error is,
\* or is not, an ErrConnLost.
OperationReturns(a, label) ==
  /\ pc[a] = "using"
  /\ Goto(a, label)
  /\ UNCHANGED <<poolVars, dialMu, sem, hpool, hstate, live, cur, conn, drain>>

\* Mutant: DBBegin gives its slot back while the transaction lasts.
BeginFreesSlot(a) ==
  /\ pc[a] = "using"
  /\ sem' = [sem EXCEPT ![PoolOf(a)] = @ - 1]
  /\ Goto(a, "tx")
  /\ UNCHANGED <<poolVars, dialMu, hpool, hstate, live, cur, conn, drain>>

\* DBBegin succeeds: the connection and its slot stay with the transaction,
\* whose statements acquire and release nothing.
BeginOk(a) ==
  /\ pc[a] = "using"
  /\ Goto(a, "tx")
  /\ UNCHANGED <<poolVars, dialMu, sem, hpool, hstate, live, cur, conn, drain>>

\* DBCommit or DBRollback, whichever finds txDone false.
TxEnds(a, label) ==
  /\ pc[a] = "tx"
  /\ Goto(a, label)
  /\ UNCHANGED <<poolVars, dialMu, sem, hpool, hstate, live, cur, conn, drain>>

\* Mutant: release does not look at closed.
CanKeepClosed(a) ==
  /\ pc[a] = "release"
  /\ Len(idle[PoolOf(a)]) < MaxIdle

CanKeep(a) ==
  /\ pc[a] = "release"
  /\ status[PoolOf(a)] # "closed"
  /\ Len(idle[PoolOf(a)]) < MaxIdle

ReleaseToIdle(a) ==
  /\ CanKeep(a)
  /\ idle' = [idle EXCEPT ![PoolOf(a)] = Append(@, conn[a])]
  /\ conn' = [conn EXCEPT ![a] = NoConn]
  /\ Goto(a, "free")
  /\ UNCHANGED <<registered, status, refs, dialMu, sem, hpool, hstate, live, cur, drain>>

ReleaseToDiscard(a) ==
  /\ pc[a] \in {"release", "releaseBroken"}
  /\ ~CanKeep(a)
  /\ Goto(a, "discard")
  /\ UNCHANGED <<poolVars, dialMu, sem, hpool, hstate, live, cur, conn, drain>>

\* Mutant: a connection that is not kept is dropped without Close.
DiscardUnclosed(a) ==
  /\ pc[a] = "discard"
  /\ conn' = [conn EXCEPT ![a] = NoConn]
  /\ Goto(a, "free")
  /\ UNCHANGED <<poolVars, dialMu, sem, hpool, hstate, live, cur, drain>>

\* conn.Close() outside p.mu.
Discard(a) ==
  /\ pc[a] = "discard"
  /\ live' = live \ {conn[a]}
  /\ conn' = [conn EXCEPT ![a] = NoConn]
  /\ Goto(a, "free")
  /\ UNCHANGED <<poolVars, dialMu, sem, hpool, hstate, cur, drain>>

\* <-p.sem, the last step of release and of a failed acquire.
FreeSlot(a) ==
  /\ pc[a] = "free"
  /\ sem' = [sem EXCEPT ![PoolOf(a)] = @ - 1]
  /\ Finish(a)
  /\ UNCHANGED <<poolVars, dialMu, hpool, hstate, live, conn, drain>>

-----------------------------------------------------------------------------
Outcomes == {"release", "releaseBroken"}

Connecting(a) ==
  \/ LockDial(a)
  \/ \E h \in Handles : RecheckShared(a, h)
  \/ RecheckMiss(a)
  \/ DialPoolFail(a)
  \/ \E c \in Conns : DialPoolOk(a, c)
  \/ \E h \in Handles, p \in Pools : Register(a, h, p)

Closing(a) ==
  \/ DropSharedRef(a)
  \/ DropLastRef(a)
  \/ \E c \in Conns : CloseIdleConn(a, c)
  \/ CloseDone(a)

Using(a) ==
  \/ TakeSlot(a)
  \/ FindClosed(a)
  \/ PopIdle(a)
  \/ FindEmpty(a)
  \/ \E c \in Conns : DialConnOk(a, c)
  \/ DialConnFail(a)
  \/ \E l \in Outcomes : OperationReturns(a, l)
  \/ BeginOk(a)
  \/ \E l \in Outcomes : TxEnds(a, l)
  \/ ReleaseToIdle(a)
  \/ ReleaseToDiscard(a)
  \/ Discard(a)
  \/ FreeSlot(a)

\* The calls an idle goroutine may make: the program decides, so no fairness.
Call(a) ==
  \/ \E h \in Handles : ConnectShared(a, h)
  \/ ConnectMiss(a)
  \/ \E h \in Handles : CloseHandle(a, h)
  \/ \E h \in Handles : CallOnClosed(a, h)
  \/ \E h \in Handles : AcquireStart(a, h)

Next == \E a \in Callers : Call(a) \/ Connecting(a) \/ Closing(a) \/ Using(a)

Spec == Init /\ [][Next]_vars

\* A call once made runs on: the scheduler is fair, dials and driver calls
\* have deadlines, a transaction ends with its function.  Go serves the
\* senders of a full channel and the waiters of a mutex in order, so a
\* repeatedly free slot or lock is eventually the caller's own.
Fairness ==
  \A a \in Callers :
    /\ WF_vars(Connecting(a))
    /\ WF_vars(Closing(a))
    /\ WF_vars(Using(a))
    /\ SF_vars(TakeSlot(a))
    /\ SF_vars(LockDial(a))

FairSpec == Spec /\ Fairness

-----------------------------------------------------------------------------
(* Properties                                                              *)

\* Every variable keeps its type.
TypeOK ==
  /\ registered \in Pools \cup {NoPool}
  /\ dialMu \in Callers \cup {NoCaller}
  /\ status \in [Pools -> {"unmade", "open", "closed"}]
  /\ refs \in [Pools -> Int]
  /\ idle \in [Pools -> Seq(Conns)]
  /\ sem \in [Pools -> Int]
  /\ hpool \in [Handles -> Pools \cup {NoPool}]
  /\ hstate \in [Handles -> {"none", "open", "closing", "closed"}]
  /\ live \subseteq Conns
  /\ pc \in [Callers -> Labels]
  /\ cur \in [Callers -> Handles \cup {NoHandle}]
  /\ conn \in [Callers -> Conns \cup {NoConn}]
  /\ drain \in [Callers -> SUBSET Conns]

Slots(p) == {a \in Callers : pc[a] \in SlotHeld /\ PoolOf(a) = p}
Out(p) == {a \in Callers : pc[a] \in Checked /\ PoolOf(a) = p}
Counted(p) == {h \in Handles : hpool[h] = p /\ hstate[h] \in {"open", "closing"}}

CallersApart ==
  \A a, b \in Callers :
    /\ a # b /\ conn[a] # NoConn => conn[a] # conn[b]
    /\ conn[a] \notin drain[b]
    /\ a # b => drain[a] \cap drain[b] = {}
ApartFromIdle ==
  \A p \in Pools : \A c \in ToSet(idle[p]) : \A a \in Callers :
    conn[a] # c /\ c \notin drain[a]
IdleApart ==
  \A p, q \in Pools : \A c \in ToSet(idle[p]) : c \in ToSet(idle[q]) => p = q
IdleOnce == \A p \in Pools : IsInjective(idle[p])

\* "O pool de pkg/runtime garante que so uma goroutine a usa por vez"
\* (dbdrv.go): a connection in a caller's hands is in nobody else's, in no
\* idle list and not being closed, and no idle list holds one twice.
ExclusiveConn == CallersApart /\ ApartFromIdle /\ IdleApart /\ IdleOnce

\* A connection that is used or parked is still open, and an open one is
\* always where release, acquire or DBClose look: in hand, on its way to be
\* closed, or parked in an open pool (a closed one is asked no more).
NoLostConn ==
  \A c \in Conns : c \in live <=>
    \/ \E a \in Callers : conn[a] = c \/ c \in drain[a]
    \/ \E p \in Pools : status[p] = "open" /\ c \in ToSet(idle[p])

\* pool_max (SPEC 19.3): the pool's connections, parked, in use or being
\* dialled, never exceed the capacity of sem, which counts only users.
PoolBound == \A p \in Pools : Len(idle[p]) + Cardinality(Out(p)) <= MaxOpen

\* The semaphore counts exactly the callers between acquire and release: no
\* path of acquire, release, commit or rollback loses or returns a slot twice.
SlotsCounted == \A p \in Pools : sem[p] = Cardinality(Slots(p))

\* A handle that is not closed points to a pool that is not closed
\* (TestDBCloseOnSharedPoolKeepsOtherHandlesOpen), and the registry shares
\* exactly the open pool: two goroutines that miss do not open two.
OpenPoolRegistered ==
  /\ \A h \in Handles : hstate[h] = "open" => status[hpool[h]] = "open"
  /\ \A p \in Pools : status[p] = "open" <=> registered = p

\* refs counts the handles not yet closed, so the last one, and no other,
\* closes the pool.
RefsCounted ==
  \A p \in Pools : refs[p] = Cardinality(Counted(p))

\* A pool once closed is not opened, shared or parked into again.
ClosedForever ==
  [][\A p \in Pools : status[p] = "closed" =>
       status'[p] = "closed" /\ refs'[p] <= refs[p] /\ registered' # p]_vars

\* Whoever waits for a slot or for the dial mutex gets on.
WaitersServed ==
  \A a \in Callers : pc[a] \in {"wait", "dialWait"} ~> pc[a] \in {"slot", "recheck"}

\* After the last db-close every connection of the pool is closed, those
\* still out at that moment included.
ClosedPoolDrains ==
  \A p \in Pools : status[p] = "closed" ~>
    (Slots(p) = {} /\ \A a \in Callers : pc[a] = "drain" => PoolOf(a) # p)

\* The pool does what ConnLease promises: a caller has a connection on loan
\* from acquire's return until release parks it or closes it.
Lent == [a \in Callers |-> IF pc[a] \in Holding THEN conn[a] ELSE NoConn]
From == [a \in Callers |-> IF pc[a] \in Holding THEN PoolOf(a) ELSE NoPool]
Lease == INSTANCE ConnLease WITH lent <- Lent, from <- From
ImplementsLease == Lease!Spec

-----------------------------------------------------------------------------
(* The inductive invariant of DBPoolProofs                                 *)

HandleCalls == {"closing", "drain", "wait"} \cup SlotHeld

\* What a caller's program counter says of the rest of its state.
CallerShape ==
  \A a \in Callers :
    /\ conn[a] # NoConn <=> pc[a] \in Holding \cup {"register"}
    /\ drain[a] # {} => pc[a] = "drain"
    /\ dialMu = a <=> pc[a] \in {"recheck", "dialPool", "register"}
    /\ pc[a] \in HandleCalls => cur[a] \in Handles /\ hstate[cur[a]] # "none"
    /\ pc[a] = "closing" => hstate[cur[a]] = "closing"
    /\ \A b \in Callers : a # b /\ pc[a] = "closing" /\ pc[b] = "closing"
                           => cur[a] # cur[b]

HandleShape ==
  \A h \in Handles : IF hstate[h] = "none" THEN hpool[h] = NoPool
                     ELSE hpool[h] \in Pools /\ status[hpool[h]] # "unmade"

Shape == TypeOK /\ CallerShape /\ HandleShape

\* NoLostConn, for a list in any pool: RegistryInv empties those not open.
ConnsTracked ==
  \A c \in Conns : c \in live <=>
    \/ \E a \in Callers : conn[a] = c \/ c \in drain[a]
    \/ \E p \in Pools : c \in ToSet(idle[p])

ConnsInv == ExclusiveConn /\ ConnsTracked

SlotsInv ==
  /\ SlotsCounted
  /\ PoolBound
  /\ \A p \in Pools : IsFiniteSet(Slots(p)) /\ sem[p] <= MaxOpen

RegistryInv ==
  /\ \A a \in Callers : pc[a] \in {"dialPool", "register"} => registered = NoPool
  /\ \A p \in Pools : status[p] = "open" <=> registered = p
  /\ \A h \in Handles : hstate[h] \in {"open", "closing"} => status[hpool[h]] = "open"
  /\ \A p \in Pools : status[p] # "open" => idle[p] = <<>>
  /\ RefsCounted
  /\ \A p \in Pools : IsFiniteSet(Counted(p))

IInv == Shape /\ ConnsInv /\ SlotsInv /\ RegistryInv
=============================================================================
