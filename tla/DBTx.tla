------------------------------- MODULE DBTx -------------------------------
(***************************************************************************)
(* (db-transaction conn ...) as the compiler emits it and the runtime runs *)
(* it: compiled functions that open transactions on a shared pool, leave   *)
(* their blocks in every way the language allows, and run the deferred     *)
(* DBRollback of each block when the function returns.  The pool is what   *)
(* DBPool shows it to be, a table of leases (ConnLease).                   *)
(*                                                                         *)
(* A function's statements are abstracted to what they do to connections:  *)
(* one on the pool's handle, one on the transaction's, an exit.  The       *)
(* database server is outside src/: a session with at most one open        *)
(* transaction, which Postgres aborts at the first failed statement.       *)
(***************************************************************************)
EXTENDS Integers, SequencesExt

CONSTANTS
  Funcs,     \* calls of compiled functions, one goroutine each
  Txs,       \* transaction handles: a bound on the blocks entered, each once
  Conns,     \* driver connections
  MaxOpen,   \* capacity of the pool
  NoTx, NoConn, ThePool, NoPool

ASSUME TxNullAssumption ==
  /\ NoTx \notin Txs
  /\ NoConn \notin Conns
  /\ ThePool # NoPool
  /\ Funcs \cap Txs = {}
ASSUME TxMaxOpenAssumption == MaxOpen \in Nat \ {0}

VARIABLES
  aborts,    \* does the server abort a transaction at a failed statement?
  pc,        \* function -> "idle", "run" (outside blocks), "body" (in one),
             \*             "onerr" (the on-err closure), "unwind" (defers)
  waits,     \* function -> "none", "stmt", "begin": blocked in pool.acquire
  hold,      \* function -> connection of its statement on the pool's handle
  block,     \* function -> the transaction its connection name means, or NoTx
  deferred,  \* function -> its deferred DBRollback calls, oldest first
  tconn,     \* transaction -> DBConn.tx
  txDone,    \* transaction -> DBConn.txDone
  verdict,   \* transaction -> "none", or what DBCommit or DBRollback answered
  sem, idle, \* the pool's slots taken, its parked connections
  dead,      \* connections whose transport is gone
  session,   \* connection -> the transaction open in its server session
  failed,    \* sessions whose transaction the server has aborted
  stored     \* transactions whose writes the server has made durable

poolVars == <<sem, idle>>
serverVars == <<dead, session, failed, stored>>
txVars == <<tconn, txDone, verdict>>
vars == <<aborts, pc, waits, hold, block, deferred, txVars, poolVars, serverVars>>

Init ==
  /\ aborts \in BOOLEAN
  /\ pc = [f \in Funcs |-> "idle"]
  /\ waits = [f \in Funcs |-> "none"]
  /\ hold = [f \in Funcs |-> NoConn]
  /\ block = [f \in Funcs |-> NoTx]
  /\ deferred = [f \in Funcs |-> <<>>]
  /\ tconn = [t \in Txs |-> NoConn]
  /\ txDone = [t \in Txs |-> FALSE]
  /\ verdict = [t \in Txs |-> "none"]
  /\ sem = 0
  /\ idle = {}
  /\ dead = {}
  /\ session = [c \in Conns |-> NoTx]
  /\ failed = {}
  /\ stored = {}

Goto(f, label) == pc' = [pc EXCEPT ![f] = label]
Open(t) == tconn[t] # NoConn /\ ~txDone[t]
InUse == {hold[f] : f \in Funcs} \cup {tconn[t] : t \in {u \in Txs : Open(u)}}

\* A parked connection, or a new one when none is parked.  A name is not used
\* again once dead: Conns bounds how often a transport breaks.
Obtainable == IF idle # {} THEN idle ELSE Conns \ (InUse \cup dead)

\* pool.acquire gets a slot and connection c.
Acquire(c) ==
  /\ sem < MaxOpen
  /\ c \in Obtainable
  /\ sem' = sem + 1
  /\ idle' = idle \ {c}

\* pool.release: one whose transport is gone is discarded if its error says
\* so (ErrConnLost); not every driver error of a dead transport does.
Release(c) ==
  /\ sem' = sem - 1
  /\ idle' = idle \cup {c} \/ (c \in dead' /\ idle' = idle)

\* What an (on-err ...) function and one without do with a failed result.
Fails(f) == Goto(f, "onerr") \/ Goto(f, "unwind")

-----------------------------------------------------------------------------
(* Statements outside a block                                              *)

Call(f) ==
  /\ pc[f] = "idle"
  /\ Goto(f, "run")
  /\ UNCHANGED <<aborts, waits, hold, block, deferred, txVars, poolVars, serverVars>>

\* db-query, db-exec: on the pool's handle, in the body or in on-err.
PoolStatement(f) ==
  /\ pc[f] \in {"run", "onerr"}
  /\ waits[f] = "none"
  /\ waits' = [waits EXCEPT ![f] = "stmt"]
  /\ UNCHANGED <<aborts, pc, hold, block, deferred, txVars, poolVars, serverVars>>

StatementStarts(f, c) ==
  /\ waits[f] = "stmt"
  /\ hold[f] = NoConn
  /\ Acquire(c)
  /\ hold' = [hold EXCEPT ![f] = c]
  /\ UNCHANGED <<aborts, pc, waits, block, deferred, txVars, serverVars>>

\* The statement's result is matched, or tried and found an error.
StatementEnds(f) ==
  /\ hold[f] # NoConn
  /\ UNCHANGED serverVars
  /\ Release(hold[f])
  /\ hold' = [hold EXCEPT ![f] = NoConn]
  /\ waits' = [waits EXCEPT ![f] = "none"]
  /\ \/ UNCHANGED pc
     \/ pc[f] = "run" /\ Fails(f)
     \/ pc[f] = "onerr" /\ Goto(f, "unwind")
  /\ UNCHANGED <<aborts, block, deferred, txVars>>

\* acquire fails to dial: the call's error is matched or tried, a block's
\* always tried.
AcquireFails(f) ==
  /\ waits[f] # "none"
  /\ hold[f] = NoConn
  /\ sem < MaxOpen
  /\ idle = {}
  /\ waits' = [waits EXCEPT ![f] = "none"]
  /\ \/ waits[f] = "stmt" /\ UNCHANGED pc
     \/ pc[f] = "run" /\ Fails(f)
     \/ pc[f] = "onerr" /\ Goto(f, "unwind")
  /\ UNCHANGED <<aborts, hold, block, deferred, txVars, poolVars, serverVars>>

\* (return ...), at the end of the body or inside a transaction's block; the
\* end of the on-err closure returns too.
Returns(f) ==
  /\ pc[f] \in {"run", "body", "onerr"}
  /\ waits[f] = "none"
  /\ Goto(f, "unwind")
  /\ UNCHANGED <<aborts, waits, hold, block, deferred, txVars, poolVars, serverVars>>

-----------------------------------------------------------------------------
(* The block: DBBegin, body, DBCommit                                      *)

EnterBlock(f) ==
  /\ pc[f] = "run"
  /\ waits[f] = "none"
  /\ \E t \in Txs : tconn[t] = NoConn
  /\ waits' = [waits EXCEPT ![f] = "begin"]
  /\ UNCHANGED <<aborts, pc, hold, block, deferred, txVars, poolVars, serverVars>>

\* Mutant: the defer is emitted after the body instead of before it.
BeginUndeferred(f, t, c) ==
  /\ waits[f] = "begin"
  /\ tconn[t] = NoConn
  /\ Acquire(c)
  /\ c \notin dead
  /\ waits' = [waits EXCEPT ![f] = "none"]
  /\ tconn' = [tconn EXCEPT ![t] = c]
  /\ session' = [session EXCEPT ![c] = t]
  /\ block' = [block EXCEPT ![f] = t]
  /\ Goto(f, "body")
  /\ UNCHANGED <<aborts, hold, deferred, txDone, verdict, dead, failed, stored>>

\* The name now means the transaction, and its rollback is deferred.
BeginOk(f, t, c) ==
  /\ waits[f] = "begin"
  /\ tconn[t] = NoConn
  /\ Acquire(c)
  /\ c \notin dead
  /\ waits' = [waits EXCEPT ![f] = "none"]
  /\ tconn' = [tconn EXCEPT ![t] = c]
  /\ session' = [session EXCEPT ![c] = t]
  /\ block' = [block EXCEPT ![f] = t]
  /\ deferred' = [deferred EXCEPT ![f] = Append(@, t)]
  /\ Goto(f, "body")
  /\ UNCHANGED <<aborts, hold, txDone, verdict, dead, failed, stored>>

\* BEGIN fails and the connection goes back as release has it.
BeginFails(f, c) ==
  /\ waits[f] = "begin"
  /\ sem < MaxOpen
  /\ c \in Obtainable
  /\ idle' = idle \cup {c} \/ (c \in dead /\ idle' = idle \ {c})
  /\ waits' = [waits EXCEPT ![f] = "none"]
  /\ Fails(f)
  /\ UNCHANGED <<aborts, hold, block, deferred, txVars, sem, serverVars>>

\* A statement of the body; DBBegin on the transaction's own handle fails.
TxStatement(f) ==
  LET c == tconn[block[f]] IN
  /\ pc[f] = "body"
  /\ \/ c \notin dead /\ UNCHANGED <<pc, failed>>
     \/ /\ failed' = IF aborts /\ c \notin dead THEN failed \cup {c} ELSE failed
        /\ UNCHANGED pc \/ Fails(f)
  /\ UNCHANGED <<aborts, waits, hold, block, deferred, txVars, poolVars, dead, session, stored>>

NestedBegin(f) ==
  /\ pc[f] = "body"
  /\ Fails(f)
  /\ UNCHANGED <<aborts, waits, hold, block, deferred, txVars, poolVars, serverVars>>

\* (break) and (continue) of a loop around the block.
LeaveBlock(f) ==
  /\ pc[f] = "body"
  /\ block' = [block EXCEPT ![f] = NoTx]
  /\ Goto(f, "run")
  /\ UNCHANGED <<aborts, waits, hold, deferred, txVars, poolVars, serverVars>>

\* A session's transaction is over.
SessionEnds(c) ==
  /\ session' = [session EXCEPT ![c] = NoTx]
  /\ failed' = failed \ {c}

\* What the server does at COMMIT and what the driver makes of its answer: an
\* aborted transaction is rolled back and answered without an error.
ServerCommit(c, t, answer) ==
  \/ /\ c \notin dead \cup failed /\ answer = "ok"
     /\ stored' = stored \cup {t}
     /\ SessionEnds(c) /\ UNCHANGED dead
  \/ /\ c \in failed \ dead /\ answer = "ok"
     /\ SessionEnds(c) /\ UNCHANGED <<stored, dead>>
  \/ /\ c \notin dead \cup failed /\ answer = "error"
     /\ SessionEnds(c) /\ UNCHANGED <<stored, dead>>
  \/ /\ c \notin dead \cup failed /\ answer = "error"  \* the answer is lost
     /\ stored' = stored \cup {t}
     /\ dead' = dead \cup {c}
     /\ SessionEnds(c)
  \/ /\ c \in dead /\ answer = "error"
     /\ UNCHANGED serverVars

\* Mutant: a COMMIT that fails does not set txDone.
CommitLeavesOpen(f, answer) ==
  LET t == block[f] IN
  /\ pc[f] = "body"
  /\ ServerCommit(tconn[t], t, answer)
  /\ Release(tconn[t])
  /\ txDone' = [txDone EXCEPT ![t] = answer = "ok"]
  /\ verdict' = [verdict EXCEPT ![t] = IF answer = "ok" THEN "committed" ELSE "unknown"]
  /\ IF answer = "ok" THEN Goto(f, "run") ELSE Fails(f)
  /\ block' = [block EXCEPT ![f] = NoTx]
  /\ UNCHANGED <<aborts, waits, hold, deferred, tconn>>

\* DBCommit: txDone is set whatever the server answers.  It is not set yet:
\* only the end of the block and the function's defers set it.
Commit(f, answer) ==
  LET t == block[f] IN
  /\ pc[f] = "body"
  /\ ServerCommit(tconn[t], t, answer)
  /\ Release(tconn[t])
  /\ txDone' = [txDone EXCEPT ![t] = TRUE]
  /\ verdict' = [verdict EXCEPT ![t] = IF answer = "ok" THEN "committed" ELSE "unknown"]
  /\ IF answer = "ok" THEN Goto(f, "run") ELSE Fails(f)
  /\ block' = [block EXCEPT ![f] = NoTx]
  /\ UNCHANGED <<aborts, waits, hold, deferred, tconn>>

\* Mutants of DBRollback: without the test of txDone, without the ROLLBACK,
\* and with a COMMIT in its place.
RollbackAlways(t) ==
  /\ txDone' = [txDone EXCEPT ![t] = TRUE]
  /\ verdict' = [verdict EXCEPT ![t] = "rolledback"]
  /\ SessionEnds(tconn[t])
  /\ UNCHANGED <<tconn, dead, stored>>
  /\ Release(tconn[t])

RollbackSilent(t) ==
  IF txDone[t] THEN UNCHANGED <<txVars, poolVars, serverVars>>
  ELSE /\ txDone' = [txDone EXCEPT ![t] = TRUE]
       /\ verdict' = [verdict EXCEPT ![t] = "rolledback"]
       /\ UNCHANGED <<tconn, serverVars>>
       /\ Release(tconn[t])

RollbackStores(t) ==
  IF txDone[t] THEN UNCHANGED <<txVars, poolVars, serverVars>>
  ELSE /\ txDone' = [txDone EXCEPT ![t] = TRUE]
       /\ verdict' = [verdict EXCEPT ![t] = "rolledback"]
       /\ SessionEnds(tconn[t])
       /\ stored' = stored \cup {t}
       /\ UNCHANGED <<tconn, dead>>
       /\ Release(tconn[t])

\* DBRollback, a no-op once the transaction is done.
Rollback(t) ==
  IF txDone[t] THEN UNCHANGED <<txVars, poolVars, serverVars>>
  ELSE /\ txDone' = [txDone EXCEPT ![t] = TRUE]
       /\ verdict' = [verdict EXCEPT ![t] = "rolledback"]
       /\ SessionEnds(tconn[t])
       /\ UNCHANGED <<tconn, dead, stored>>
       /\ Release(tconn[t])

\* The defers run last in, first out, after the on-err closure.
Unwind(f) ==
  /\ pc[f] = "unwind"
  /\ deferred[f] # <<>>
  /\ Rollback(Last(deferred[f]))
  /\ deferred' = [deferred EXCEPT ![f] = Front(@)]
  /\ UNCHANGED <<aborts, pc, waits, hold, block>>

Returned(f) ==
  /\ pc[f] = "unwind"
  /\ deferred[f] = <<>>
  /\ block' = [block EXCEPT ![f] = NoTx]
  /\ Goto(f, "idle")
  /\ UNCHANGED <<aborts, waits, hold, deferred, txVars, poolVars, serverVars>>

\* The transport of a connection breaks; the server rolls its session back.
ConnDies(c) ==
  /\ c \in idle \cup InUse
  /\ c \notin dead
  /\ dead' = dead \cup {c}
  /\ SessionEnds(c)
  /\ UNCHANGED <<aborts, pc, waits, hold, block, deferred, txVars, poolVars, stored>>

-----------------------------------------------------------------------------
Step(f) ==
  \/ \E c \in Conns : StatementStarts(f, c)
  \/ StatementEnds(f)
  \/ AcquireFails(f)
  \/ \E t \in Txs, c \in Conns : BeginOk(f, t, c)
  \/ \E c \in Conns : BeginFails(f, c)
  \/ TxStatement(f)
  \/ NestedBegin(f)
  \/ LeaveBlock(f)
  \/ \E answer \in {"ok", "error"} : Commit(f, answer)
  \/ Returns(f)
  \/ Unwind(f)
  \/ Returned(f)

Next ==
  \/ \E f \in Funcs : Call(f) \/ PoolStatement(f) \/ EnterBlock(f) \/ Step(f)
  \/ \E c \in Conns : ConnDies(c)

Spec == Init /\ [][Next]_vars

-----------------------------------------------------------------------------
(* Properties                                                              *)

\* Every variable keeps its type.
TypeOK ==
  /\ aborts \in BOOLEAN
  /\ pc \in [Funcs -> {"idle", "run", "body", "onerr", "unwind"}]
  /\ waits \in [Funcs -> {"none", "stmt", "begin"}]
  /\ hold \in [Funcs -> Conns \cup {NoConn}]
  /\ block \in [Funcs -> Txs \cup {NoTx}]
  /\ \A f \in Funcs : ToSet(deferred[f]) \subseteq Txs
  /\ tconn \in [Txs -> Conns \cup {NoConn}]
  /\ txDone \in [Txs -> BOOLEAN]
  /\ verdict \in [Txs -> {"none", "committed", "unknown", "rolledback"}]
  /\ sem \in 0..MaxOpen
  /\ idle \subseteq Conns
  /\ dead \subseteq Conns /\ failed \subseteq Conns
  /\ session \in [Conns -> Txs \cup {NoTx}]
  /\ stored \subseteq Txs

\* Statements and transactions take and give back connections as leases: a
\* commit followed by the deferred rollback gives the connection back once.
Lent == [x \in Funcs \cup Txs |-> IF x \in Funcs THEN hold[x]
                                  ELSE IF Open(x) THEN tconn[x] ELSE NoConn]
From == [x \in Funcs \cup Txs |-> IF Lent[x] # NoConn THEN ThePool ELSE NoPool]
Lease == INSTANCE ConnLease
           WITH Callers <- Funcs \cup Txs, Pools <- {ThePool}, lent <- Lent, from <- From
ImplementsLease == Lease!Spec

\* Whatever way a block is left, its rollback is still due in a function that
\* has not returned, and a block that is running is on its own transaction.
OpenTxDeferred ==
  /\ \A t \in Txs : Open(t) =>
       \E f \in Funcs : pc[f] # "idle" /\ t \in ToSet(deferred[f])
  /\ \A f \in Funcs : pc[f] = "body" => Open(block[f])

\* No transaction is left open in a session that the pool lends to somebody
\* else: an open transaction's session is its own, every other has none.
SessionsClean ==
  \A c \in Conns :
    /\ session[c] # NoTx => Open(session[c]) /\ tconn[session[c]] = c
    /\ c \in idle => session[c] = NoTx

\* What DBCommit or the deferred rollback decided stays so: nothing is made
\* durable, or undone, after it.
VerdictFinal ==
  [][\A t \in Txs : verdict[t] # "none" =>
       /\ verdict'[t] = verdict[t]
       /\ t \in stored' <=> t \in stored]_vars

\* "desfaz em qualquer saida antecipada" (SPEC 19.6): only a commit stores.
StoredByCommit ==
  \A t \in stored : verdict[t] \in {"committed", "unknown"}

\* "O bloco confirma ao chegar ao fim" (SPEC 19.6): when DBCommit answers ok
\* the block's writes are stored.
CommittedIsStored ==
  \A t \in Txs : verdict[t] = "committed" => t \in stored

\* "nao existe a forma errada de usar o pool original por engano no meio de
\* uma transacao" (SPEC 19.6): a function with an open transaction asks the
\* pool for nothing else.  No run has it: an on-err closure breaks it (README).
PoolUnusedMidTransaction ==
  \A f \in Funcs : waits[f] # "none" => \A t \in ToSet(deferred[f]) : txDone[t]
=============================================================================
