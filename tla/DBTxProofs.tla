----------------------------- MODULE DBTxProofs -----------------------------
(***************************************************************************)
(* Proofs about DBTx, for every set of functions, transactions and         *)
(* connections and every capacity of the pool.                             *)
(***************************************************************************)
EXTENDS DBTx, TLAPS, FiniteSetTheorems, SequenceTheorems

\* TypeOK, and deferred is a sequence of transactions.
TypeInv == TypeOK /\ deferred \in [Funcs -> Seq(Txs)]

\* A caller waits or holds a connection only where its program counter says.
Shape ==
  \A f \in Funcs :
    /\ hold[f] # NoConn => waits[f] = "stmt"
    /\ waits[f] = "stmt" => pc[f] \in {"run", "onerr"}
    /\ waits[f] = "begin" => pc[f] = "run"
    /\ pc[f] = "idle" => deferred[f] = <<>>
    /\ pc[f] = "body" => /\ block[f] \in ToSet(deferred[f])
                         /\ Open(block[f])

\* A transaction goes from not begun to open to decided; it is deferred from
\* its begin, by one function only; only one that DBCommit decided is stored.
Begun(t) == tconn[t] # NoConn
Lives ==
  \A t \in Txs :
    /\ ~Begun(t) => ~txDone[t]
    /\ verdict[t] # "none" <=> txDone[t]
    /\ t \in stored => verdict[t] \in {"committed", "unknown"}
DeferredBegun == \A f \in Funcs : \A t \in ToSet(deferred[f]) : Begun(t)
DeferredApart ==
  \A f, g \in Funcs : ToSet(deferred[f]) \cap ToSet(deferred[g]) # {} => f = g
OpenDeferred == \A t \in Txs : Open(t) => \E f \in Funcs : t \in ToSet(deferred[f])
TxInv == Lives /\ DeferredBegun /\ DeferredApart /\ OpenDeferred

\* A connection is on loan once, or parked, or neither; a dead one has no
\* session, and a session belongs to the open transaction on its connection.
Borrowers == {x \in Funcs \cup Txs : Lent[x] # NoConn}
LentApart == \A x, y \in Borrowers : Lent[x] = Lent[y] => x = y
LentNotIdle == \A x \in Borrowers : Lent[x] \notin idle
SessionOwned == \A c \in Conns : session[c] # NoTx => Open(session[c]) /\ tconn[session[c]] = c
DeadClean == \A c \in dead : session[c] = NoTx
ConnInv == LentApart /\ LentNotIdle /\ SessionOwned /\ DeadClean

\* The semaphore counts the loans.
SlotInv == IsFiniteSet(Borrowers) /\ sem = Cardinality(Borrowers)

IInv == TypeInv /\ Shape /\ TxInv /\ ConnInv /\ SlotInv
-----------------------------------------------------------------------------
(* Sequences as the defers use them                                        *)

\* defer: the new element is added to what the sequence holds.
LEMMA AppendSet == ASSUME NEW S, NEW s \in Seq(S), NEW e \in S
  PROVE Append(s, e) \in Seq(S) /\ ToSet(Append(s, e)) = ToSet(s) \cup {e}
<1>1. /\ Append(s, e) \in Seq(S)
      /\ Len(Append(s, e)) = Len(s) + 1
      /\ \A i \in 1..Len(s) : Append(s, e)[i] = s[i]
      /\ Append(s, e)[Len(s) + 1] = e
  OBVIOUS
<1>2. DOMAIN Append(s, e) = 1..Len(s) + 1 /\ DOMAIN s = 1..Len(s)
  BY <1>1
<1> QED BY <1>1, <1>2 DEF ToSet

\* Running the last defer: what is left, and the one that ran, are all.
LEMMA FrontSet == ASSUME NEW S, NEW s \in Seq(S), s # <<>>
  PROVE /\ Front(s) \in Seq(S)
        /\ Last(s) \in ToSet(s)
        /\ ToSet(Front(s)) \subseteq ToSet(s)
        /\ ToSet(s) \subseteq ToSet(Front(s)) \cup {Last(s)}
<1>1. Len(s) \in Nat \ {0} /\ Len(s) - 1 \in Int /\ 1 \in Int /\ \A i \in 1..Len(s) - 1 : s[i] \in S
  BY EmptySeq
<1>2. /\ Front(s) \in Seq(S)
      /\ Len(Front(s)) = Len(s) - 1
      /\ \A i \in 1..Len(s) - 1 : Front(s)[i] = s[i]
  <2>1. /\ SubSeq(s, 1, Len(s) - 1) \in Seq(S)
        /\ Len(SubSeq(s, 1, Len(s) - 1)) = IF 1 <= Len(s) - 1 THEN Len(s) - 1 - 1 + 1 ELSE 0
        /\ \A i \in 1..Len(s) - 1 - 1 + 1 : SubSeq(s, 1, Len(s) - 1)[i] = s[1 + i - 1]
    BY <1>1, SubSeqProperties
  <2>2. /\ Front(s) \in Seq(S)
        /\ Len(Front(s)) = IF 1 <= Len(s) - 1 THEN Len(s) - 1 - 1 + 1 ELSE 0
        /\ \A i \in 1..Len(s) - 1 - 1 + 1 : Front(s)[i] = s[1 + i - 1]
    BY <2>1, Zenon DEF Front
  <2>3. \A n \in Nat \ {0} : /\ n - 1 - 1 + 1 = n - 1
                             /\ (IF 1 <= n - 1 THEN n - 1 - 1 + 1 ELSE 0) = n - 1
                             /\ \A i \in 1..n - 1 : 1 + i - 1 = i
    OBVIOUS
  <2> HIDE DEF Front
  <2> QED BY <1>1, <2>2, <2>3
<1>3. DOMAIN Front(s) = 1..Len(s) - 1 /\ DOMAIN s = 1..Len(s)
  BY <1>2
<1>4. ToSet(Front(s)) = {s[i] : i \in 1..Len(s) - 1} /\ ToSet(s) = {s[i] : i \in 1..Len(s)}
  BY <1>2, <1>3 DEF ToSet
<1>5. Last(s) = s[Len(s)]
  BY DEF Last
<1> QED BY <1>1, <1>2, <1>4, <1>5

\* What a sequence holds is in its type.
LEMMA ToSetType == ASSUME NEW S, NEW s \in Seq(S) PROVE ToSet(s) \subseteq S
BY DEF ToSet

-----------------------------------------------------------------------------
\* A connection given back is parked or gone.
LEMMA ReleaseType == ASSUME idle \subseteq Conns, NEW c \in Conns, Release(c)
  PROVE  idle' \subseteq Conns
BY DEF Release

\* Every action keeps the types.
LEMMA TypeStep == ASSUME IInv, Next, sem' \in 0..MaxOpen PROVE TypeInv'
<1> USE TxNullAssumption, TxMaxOpenAssumption
<1>0. TypeInv /\ Shape /\ DeferredBegun
  BY DEF IInv, TxInv
<1>1. deferred' \in [Funcs -> Seq(Txs)]
  <2>1. CASE UNCHANGED deferred
    BY <1>0, <2>1 DEF TypeInv
  <2>2. ASSUME NEW f \in Funcs, NEW t \in Txs, deferred' = [deferred EXCEPT ![f] = Append(@, t)]
        PROVE  deferred' \in [Funcs -> Seq(Txs)]
    BY <1>0, <2>2, AppendSet DEF TypeInv
  <2>3. ASSUME NEW f \in Funcs, deferred[f] # <<>>, deferred' = [deferred EXCEPT ![f] = Front(@)]
        PROVE  deferred' \in [Funcs -> Seq(Txs)]
    BY <1>0, <2>3, FrontSet DEF TypeInv
  <2> QED BY <2>1, <2>2, <2>3
  DEF Next, Step, Call, PoolStatement, EnterBlock, StatementStarts, StatementEnds,
      AcquireFails, BeginOk, BeginFails, TxStatement, NestedBegin, LeaveBlock, Commit,
      Returns, Unwind, Returned, ConnDies
<1>2. \A f \in Funcs : ToSet(deferred'[f]) \subseteq Txs
  BY <1>1, ToSetType
<1>3. ASSUME NEW f \in Funcs, Call(f) \/ PoolStatement(f) \/ EnterBlock(f) PROVE TypeOK'
  BY <1>0, <1>2, <1>3 DEF TypeInv, TypeOK, Call, PoolStatement, EnterBlock, Goto, txVars, poolVars, serverVars
<1>4. ASSUME NEW f \in Funcs, Step(f) PROVE TypeOK'
  <2> USE <1>0, <1>2 DEF TypeInv, TypeOK, Goto, Fails, txVars, poolVars, serverVars
  <2>1. ASSUME NEW c \in Conns, StatementStarts(f, c) PROVE TypeOK'
    BY <2>1 DEF StatementStarts, Acquire, Obtainable
  <2>2. CASE StatementEnds(f)
    <3>1. hold[f] \in Conns /\ Release(hold[f])
      BY <2>2 DEF StatementEnds
    <3> QED BY <2>2, <3>1, ReleaseType DEF StatementEnds
  <2>3. CASE AcquireFails(f)
    BY <2>3 DEF AcquireFails
  <2>4. ASSUME NEW t \in Txs, NEW c \in Conns, BeginOk(f, t, c) PROVE TypeOK'
    BY <2>4 DEF BeginOk, Acquire
  <2>5. ASSUME NEW c \in Conns, BeginFails(f, c) PROVE TypeOK'
    BY <2>5 DEF BeginFails
  <2>6. CASE TxStatement(f)
    <3>1. tconn[block[f]] \in Conns
      BY <2>6 DEF TxStatement, Shape, Open
    <3> QED BY <2>6, <3>1 DEF TxStatement
  <2>7. CASE NestedBegin(f) \/ LeaveBlock(f) \/ Returns(f) \/ Returned(f)
    BY <2>7 DEF NestedBegin, LeaveBlock, Returns, Returned
  <2>8. ASSUME NEW answer \in {"ok", "error"}, Commit(f, answer) PROVE TypeOK'
    <3>1. block[f] \in Txs /\ tconn[block[f]] \in Conns
      BY <2>8 DEF Commit, Shape, Open
    <3>2. Release(tconn[block[f]]) /\ ServerCommit(tconn[block[f]], block[f], answer)
      BY <2>8 DEF Commit
    <3>3. /\ session' \in [Conns -> Txs \cup {NoTx}] /\ stored' \subseteq Txs
          /\ dead' \subseteq Conns /\ failed' \subseteq Conns
      BY <3>1, <3>2 DEF ServerCommit, SessionEnds
    <3> QED BY <2>8, <3>1, <3>2, <3>3, ReleaseType DEF Commit
  <2>9. CASE Unwind(f)
    <3> DEFINE t == Last(deferred[f])
    <3>1. t \in Txs /\ tconn[t] \in Conns
      BY <2>9, FrontSet, ToSetType DEF Unwind, DeferredBegun, Begun
    <3>2. Rollback(t) /\ UNCHANGED <<aborts, pc, waits, hold, block>>
      BY <2>9 DEF Unwind
    <3> HIDE DEF t
    <3>3. CASE txDone[t]
      BY <3>2, <3>3 DEF Rollback
    <3>4. CASE ~txDone[t]
      BY <3>1, <3>2, <3>4, ReleaseType DEF Rollback, SessionEnds
    <3> QED BY <3>3, <3>4
  <2> QED BY <1>4, <2>1, <2>2, <2>3, <2>4, <2>5, <2>6, <2>7, <2>8, <2>9 DEF Step
<1>5. ASSUME NEW c \in Conns, ConnDies(c) PROVE TypeOK'
  BY <1>0, <1>2, <1>5 DEF TypeInv, TypeOK, ConnDies, SessionEnds, txVars, poolVars
<1> QED BY <1>1, <1>3, <1>4, <1>5 DEF TypeInv, Next

-----------------------------------------------------------------------------
(* The lease table: every step is a loan, a return, or neither             *)

Borrow(x, c) ==
  /\ x \notin Borrowers /\ Acquire(c)
  /\ Lent' = [Lent EXCEPT ![x] = c]
GiveBack(x) ==
  /\ sem' = sem - 1 /\ idle' \in {idle, idle \cup {Lent[x]}}
  /\ Lent' = [Lent EXCEPT ![x] = NoConn]
KeepLoans ==
  /\ sem' = sem /\ Lent' = Lent
  /\ \A x \in Borrowers : Lent[x] \in idle' => Lent[x] \in idle
LoanEffect ==
  \/ \E x \in Funcs \cup Txs, c \in Conns : Borrow(x, c)
  \/ \E x \in Borrowers : GiveBack(x)
  \/ KeepLoans

\* What acquire may hand out is lent to nobody.
LEMMA ObtainableFree == ASSUME IInv, NEW c \in Obtainable PROVE \A x \in Borrowers : Lent[x] # c
<1>1. CASE c \in idle
  BY <1>1 DEF IInv, ConnInv, LentNotIdle
<1>2. CASE c \notin InUse
  <2> SUFFICES ASSUME NEW x \in Borrowers PROVE Lent[x] \in InUse
    BY <1>2
  <2>1. CASE x \in Funcs
    BY <2>1 DEF Lent, InUse
  <2>2. CASE x \in Txs /\ x \notin Funcs
    BY <2>2 DEF Lent, InUse, Borrowers
  <2> QED BY <2>1, <2>2 DEF Borrowers
<1> QED BY <1>1, <1>2 DEF Obtainable

\* A statement on the pool's handle changes one function's loan.
LEMMA HoldLent ==
  ASSUME TypeInv, NEW f \in Funcs, NEW v \in Conns \cup {NoConn}, hold' = [hold EXCEPT ![f] = v],
         UNCHANGED <<tconn, txDone>>
  PROVE  Lent' = [Lent EXCEPT ![f] = v]
BY TxNullAssumption DEF Lent, Open, TypeInv, TypeOK

\* DBBegin, DBCommit and DBRollback change one transaction's.
LEMMA TxLent ==
  ASSUME TypeInv, NEW t \in Txs, UNCHANGED hold, \A u \in Txs \ {t} : Open(u)' = Open(u) /\ tconn'[u] = tconn[u]
  PROVE  Lent' = [Lent EXCEPT ![t] = IF Open(t)' THEN tconn'[t] ELSE NoConn]
<1>1. t \notin Funcs /\ t \in Funcs \cup Txs
  BY TxNullAssumption
<1>2. DOMAIN Lent = Funcs \cup Txs
  BY DEF Lent
<1>3. \A x \in Funcs \cup Txs : Lent'[x] = IF x = t THEN IF Open(t)' THEN tconn'[t] ELSE NoConn ELSE Lent[x]
  BY <1>1 DEF Lent
<1> QED BY <1>2, <1>3 DEF Lent

LEMMA LoanStep == ASSUME IInv, Next PROVE LoanEffect
<1> USE TxNullAssumption
<1>0. TypeInv /\ TypeOK /\ Shape /\ DeferredBegun /\ Lives
  BY DEF IInv, TxInv, TypeInv
<1>1. ASSUME UNCHANGED <<hold, tconn, txDone, sem, idle>> PROVE LoanEffect
  BY <1>1 DEF LoanEffect, KeepLoans, Lent, Open
<1>2. ASSUME NEW f \in Funcs, NEW c \in Conns, StatementStarts(f, c) PROVE LoanEffect
  <2>1. Lent' = [Lent EXCEPT ![f] = c]
    BY <1>0, <1>2, HoldLent DEF StatementStarts, txVars
  <2>2. f \notin Borrowers
    BY <1>2 DEF StatementStarts, Borrowers, Lent
  <2> QED BY <1>2, <2>1, <2>2 DEF StatementStarts, LoanEffect, Borrow
<1>3. ASSUME NEW f \in Funcs, StatementEnds(f) PROVE LoanEffect
  <2>1. Lent' = [Lent EXCEPT ![f] = NoConn]
    BY <1>0, <1>3, HoldLent DEF StatementEnds, txVars
  <2>2. f \in Borrowers /\ Lent[f] = hold[f]
    BY <1>3 DEF StatementEnds, Borrowers, Lent
  <2>3. sem' = sem - 1 /\ idle' \in {idle, idle \cup {hold[f]}}
    BY <1>3 DEF StatementEnds, Release
  <2> QED BY <2>1, <2>2, <2>3 DEF LoanEffect, GiveBack
<1>4. ASSUME NEW f \in Funcs, NEW t \in Txs, NEW c \in Conns, BeginOk(f, t, c) PROVE LoanEffect
  <2>1. /\ tconn' = [tconn EXCEPT ![t] = c] /\ tconn[t] = NoConn /\ ~txDone[t]
        /\ UNCHANGED <<hold, txDone>> /\ Acquire(c)
    BY <1>0, <1>4 DEF BeginOk, Lives, Begun
  <2>2. \A u \in Txs \ {t} : Open(u)' = Open(u) /\ tconn'[u] = tconn[u]
    BY <1>0, <2>1 DEF Open, TypeOK
  <2>3. Open(t)' /\ tconn'[t] = c /\ ~Open(t)
    BY <1>0, <2>1 DEF Open, TypeOK
  <2>4. Lent' = [Lent EXCEPT ![t] = c]
    BY <1>0, <2>1, <2>2, <2>3, TxLent
  <2>5. t \notin Borrowers
    BY <2>3 DEF Borrowers, Lent
  <2> QED BY <2>1, <2>4, <2>5 DEF LoanEffect, Borrow
<1>5. ASSUME NEW f \in Funcs, NEW c \in Conns, BeginFails(f, c) PROVE LoanEffect
  <2>1. Lent' = Lent /\ sem' = sem
    BY <1>5 DEF BeginFails, txVars, Lent, Open
  <2>2. \A x \in Borrowers : Lent[x] # c
    BY <1>5, ObtainableFree DEF BeginFails
  <2> QED BY <1>5, <2>1, <2>2 DEF BeginFails, LoanEffect, KeepLoans
<1>6. ASSUME NEW t \in Txs, Open(t), UNCHANGED <<hold, tconn>>, txDone' = [txDone EXCEPT ![t] = TRUE],
             Release(tconn[t])
      PROVE  LoanEffect
  <2>1. \A u \in Txs \ {t} : Open(u)' = Open(u) /\ tconn'[u] = tconn[u]
    BY <1>0, <1>6 DEF Open, TypeOK
  <2>2. ~Open(t)'
    BY <1>0, <1>6 DEF Open, TypeOK
  <2>3. Lent' = [Lent EXCEPT ![t] = NoConn]
    BY <1>0, <1>6, <2>1, <2>2, TxLent
  <2>4. t \in Borrowers /\ Lent[t] = tconn[t]
    BY <1>6 DEF Borrowers, Lent, Open
  <2>5. sem' = sem - 1 /\ idle' \in {idle, idle \cup {tconn[t]}}
    BY <1>6 DEF Release
  <2> QED BY <2>3, <2>4, <2>5 DEF LoanEffect, GiveBack
<1>7. ASSUME NEW f \in Funcs, NEW answer \in {"ok", "error"}, Commit(f, answer) PROVE LoanEffect
  <2>1. block[f] \in Txs /\ Open(block[f])
    BY <1>0, <1>7, ToSetType DEF Commit, Shape, TypeInv
  <2> QED BY <1>6, <1>7, <2>1 DEF Commit
<1>8. ASSUME NEW f \in Funcs, Unwind(f) PROVE LoanEffect
  <2> DEFINE t == Last(deferred[f])
  <2>1. t \in Txs /\ tconn[t] # NoConn
    BY <1>0, <1>8, FrontSet, ToSetType DEF Unwind, DeferredBegun, Begun, TypeInv
  <2>2. Rollback(t) /\ UNCHANGED hold
    BY <1>8 DEF Unwind
  <2> HIDE DEF t
  <2>3. CASE txDone[t]
    BY <1>1, <2>2, <2>3 DEF Rollback, txVars, poolVars
  <2>4. CASE ~txDone[t]
    BY <1>6, <2>1, <2>2, <2>4 DEF Rollback, Open
  <2> QED BY <2>3, <2>4
<1> QED BY <1>1, <1>2, <1>3, <1>4, <1>5, <1>7, <1>8
  DEF Next, Step, Call, PoolStatement, EnterBlock, AcquireFails, TxStatement, NestedBegin, LeaveBlock,
      Returns, Returned, ConnDies, txVars, poolVars

\* The semaphore goes on counting the loans.
LEMMA SlotStep == ASSUME IInv, LoanEffect PROVE SlotInv' /\ sem' \in 0..MaxOpen
<1> USE TxMaxOpenAssumption, TxNullAssumption
<1>0. /\ IsFiniteSet(Borrowers) /\ sem = Cardinality(Borrowers) /\ sem \in 0..MaxOpen
      /\ Borrowers \subseteq Funcs \cup Txs
      /\ \A x \in Borrowers : Lent[x] # NoConn
  BY DEF IInv, SlotInv, TypeInv, TypeOK, Borrowers
<1>1. Lent \in [Funcs \cup Txs -> {Lent[x] : x \in Funcs \cup Txs}]
  BY DEF Lent
<1>2. ASSUME NEW x \in Funcs \cup Txs, NEW c \in Conns, Borrow(x, c) PROVE SlotInv' /\ sem' \in 0..MaxOpen
  <2>1. Borrowers' = Borrowers \cup {x} /\ x \notin Borrowers
    BY <1>0, <1>1, <1>2 DEF Borrow, Borrowers
  <2>2. IsFiniteSet(Borrowers') /\ Cardinality(Borrowers') = Cardinality(Borrowers) + 1
    BY <1>0, <2>1, FS_AddElement
  <2> QED BY <1>0, <1>2, <2>2 DEF Borrow, Acquire, SlotInv
<1>3. ASSUME NEW x \in Borrowers, GiveBack(x) PROVE SlotInv' /\ sem' \in 0..MaxOpen
  <2>1. Borrowers' = Borrowers \ {x}
    BY <1>0, <1>1, <1>3 DEF GiveBack, Borrowers
  <2>2. IsFiniteSet(Borrowers') /\ Cardinality(Borrowers') = Cardinality(Borrowers) - 1
    BY <1>0, <2>1, FS_RemoveElement
  <2>3. Cardinality(Borrowers') \in Nat
    BY <2>2, FS_CardinalityType
  <2> QED BY <1>0, <1>3, <2>2, <2>3 DEF GiveBack, SlotInv
<1>4. CASE KeepLoans
  BY <1>0, <1>4 DEF KeepLoans, SlotInv, Borrowers
<1> QED BY <1>2, <1>3, <1>4 DEF LoanEffect

\* A connection is on loan once, and then not parked.
LEMMA ApartStep == ASSUME IInv, LoanEffect PROVE LentApart' /\ LentNotIdle'
<1>0. /\ LentApart /\ LentNotIdle /\ Borrowers \subseteq Funcs \cup Txs
      /\ NoConn \notin Conns
  BY TxNullAssumption DEF IInv, ConnInv, Borrowers
<1>1. Lent \in [Funcs \cup Txs -> {Lent[x] : x \in Funcs \cup Txs}]
  BY DEF Lent
<1>2. ASSUME NEW x \in Funcs \cup Txs, NEW c \in Conns, Borrow(x, c) PROVE LentApart' /\ LentNotIdle'
  <2>1. Borrowers' = Borrowers \cup {x} /\ x \notin Borrowers
    BY <1>0, <1>1, <1>2 DEF Borrow, Borrowers
  <2>2. Lent'[x] = c /\ \A y \in Borrowers : Lent'[y] = Lent[y] /\ Lent[y] # c
    BY <1>0, <1>1, <1>2, <2>1, ObtainableFree DEF Borrow, Acquire
  <2>3. idle' = idle \ {c}
    BY <1>2 DEF Borrow, Acquire
  <2> QED BY <1>0, <2>1, <2>2, <2>3 DEF LentApart, LentNotIdle
<1>3. ASSUME NEW x \in Borrowers, GiveBack(x) PROVE LentApart' /\ LentNotIdle'
  <2>1. Borrowers' = Borrowers \ {x} /\ \A y \in Borrowers' : Lent'[y] = Lent[y]
    BY <1>0, <1>1, <1>3 DEF GiveBack, Borrowers
  <2>2. idle' \subseteq idle \cup {Lent[x]}
    BY <1>3 DEF GiveBack
  <2> QED BY <1>0, <2>1, <2>2 DEF LentApart, LentNotIdle
<1>4. CASE KeepLoans
  BY <1>0, <1>4 DEF KeepLoans, LentApart, LentNotIdle, Borrowers
<1> QED BY <1>2, <1>3, <1>4 DEF LoanEffect

-----------------------------------------------------------------------------
(* Transactions: every step begins one, decides one, or neither            *)

TxBegins(f, t) ==
  /\ ~Begun(t)
  /\ \E c \in Conns : tconn' = [tconn EXCEPT ![t] = c]
  /\ deferred' = [deferred EXCEPT ![f] = Append(@, t)]
  /\ UNCHANGED <<txDone, verdict, stored>>
TxDecided(t, answer) ==
  /\ Open(t) /\ UNCHANGED tconn
  /\ txDone' = [txDone EXCEPT ![t] = TRUE]
  /\ verdict' = [verdict EXCEPT ![t] = answer]
  /\ \/ stored' = stored
     \/ stored' = stored \cup {t} /\ answer \in {"committed", "unknown"}
TxKept == UNCHANGED <<tconn, txDone, verdict, stored>>

\* Defers that have run are of transactions that are done.
DefersRun ==
  \A g \in Funcs :
    /\ ToSet(deferred'[g]) \subseteq ToSet(deferred[g])
    /\ \A u \in ToSet(deferred[g]) \ ToSet(deferred'[g]) : txDone'[u]

TxEffect ==
  \/ \E f \in Funcs, t \in Txs : TxBegins(f, t)
  \/ (TxKept \/ \E t \in Txs, answer \in {"committed", "unknown", "rolledback"} : TxDecided(t, answer))
     /\ DefersRun

LEMMA TxStep == ASSUME IInv, Next PROVE TxEffect
<1>0. TypeInv /\ TypeOK /\ Shape /\ DeferredBegun /\ Lives
  BY DEF IInv, TxInv, TypeInv
<1>1. UNCHANGED deferred => DefersRun
  BY DEF DefersRun
<1>2. ASSUME NEW f \in Funcs, NEW t \in Txs, NEW c \in Conns, BeginOk(f, t, c) PROVE TxEffect
  <2>1. TxBegins(f, t)
    BY <1>2 DEF BeginOk, TxBegins, Begun
  <2> QED BY <2>1 DEF TxEffect
<1>3. ASSUME NEW f \in Funcs, NEW answer \in {"ok", "error"}, Commit(f, answer) PROVE TxEffect
  <2>1. block[f] \in Txs /\ Open(block[f])
    BY <1>0, <1>3, ToSetType DEF Commit, Shape, TypeInv
  <2>2. stored' = stored \/ stored' = stored \cup {block[f]}
    BY <1>3 DEF Commit, ServerCommit, serverVars
  <2>3. TxDecided(block[f], IF answer = "ok" THEN "committed" ELSE "unknown")
    BY <1>3, <2>1, <2>2 DEF Commit, TxDecided
  <2>4. deferred' = deferred
    BY <1>3 DEF Commit
  <2> QED BY <1>1, <2>1, <2>3, <2>4 DEF TxEffect
<1>4. ASSUME NEW f \in Funcs, Unwind(f) PROVE TxEffect
  <2> DEFINE t == Last(deferred[f])
  <2>1. /\ t \in Txs /\ tconn[t] # NoConn
        /\ ToSet(Front(deferred[f])) \subseteq ToSet(deferred[f])
        /\ ToSet(deferred[f]) \subseteq ToSet(Front(deferred[f])) \cup {t}
    BY <1>0, <1>4, FrontSet, ToSetType DEF Unwind, DeferredBegun, Begun, TypeInv
  <2>2. Rollback(t) /\ deferred' = [deferred EXCEPT ![f] = Front(@)]
    BY <1>4 DEF Unwind
  <2> HIDE DEF t
  <2>3. txDone'[t]
    BY <1>0, <2>1, <2>2 DEF Rollback, txVars, TypeOK
  <2>4. DefersRun
    BY <1>0, <2>1, <2>2, <2>3 DEF DefersRun, TypeInv
  <2>5. CASE txDone[t]
    BY <2>2, <2>4, <2>5 DEF Rollback, txVars, serverVars, TxEffect, TxKept
  <2>6. CASE ~txDone[t]
    <3>1. TxDecided(t, "rolledback")
      BY <2>1, <2>2, <2>6 DEF Rollback, TxDecided, Open
    <3> QED BY <2>1, <2>4, <3>1 DEF TxEffect
  <2> QED BY <2>5, <2>6
<1>5. ASSUME TxKept, UNCHANGED deferred PROVE TxEffect
  BY <1>1, <1>5 DEF TxEffect
<1> QED BY <1>2, <1>3, <1>4, <1>5
  DEF TxKept, Next, Step, Call, PoolStatement, EnterBlock, StatementStarts, StatementEnds, AcquireFails,
      BeginFails, TxStatement, NestedBegin, LeaveBlock, Returns, Returned, ConnDies, txVars, serverVars

LEMMA TxInvStep == ASSUME IInv, TxEffect, TypeInv' PROVE TxInv'
<1>0. TypeInv /\ TypeOK /\ Lives /\ DeferredBegun /\ DeferredApart /\ OpenDeferred /\ TypeOK'
  BY DEF IInv, TxInv, TypeInv
<1>1. ASSUME NEW f \in Funcs, NEW t \in Txs, TxBegins(f, t) PROVE TxInv'
  <2>1. /\ ToSet(deferred'[f]) = ToSet(deferred[f]) \cup {t}
        /\ \A g \in Funcs \ {f} : deferred'[g] = deferred[g]
        /\ \A g \in Funcs : t \notin ToSet(deferred[g])
    BY <1>0, <1>1, AppendSet DEF TxBegins, TypeInv, DeferredBegun
  <2>2. /\ tconn'[t] # NoConn /\ \A u \in Txs \ {t} : tconn'[u] = tconn[u]
        /\ UNCHANGED <<txDone, verdict, stored>>
    BY <1>0, <1>1, TxNullAssumption DEF TxBegins, TypeOK
  <2>3. Lives'
    BY <1>0, <2>2 DEF Lives, Begun
  <2>4. DeferredBegun'
    <3> SUFFICES ASSUME NEW g \in Funcs, NEW u \in ToSet(deferred'[g]) PROVE tconn'[u] # NoConn
      BY DEF DeferredBegun, Begun
    <3>1. u \in Txs
      BY ToSetType DEF TypeInv
    <3> QED BY <1>0, <2>1, <2>2, <3>1 DEF DeferredBegun, Begun
  <2>5. DeferredApart'
    BY <1>0, <2>1 DEF DeferredApart
  <2>6. OpenDeferred'
    BY <1>0, <2>1, <2>2 DEF OpenDeferred, Open
  <2> QED BY <2>3, <2>4, <2>5, <2>6 DEF TxInv
<1>2. ASSUME UNCHANGED tconn, DefersRun, \A u \in Txs : txDone[u] => txDone'[u] PROVE (DeferredBegun /\ DeferredApart /\ OpenDeferred)'
  <2>1. DeferredBegun' /\ DeferredApart'
    BY <1>0, <1>2 DEF DeferredBegun, Begun, DeferredApart, DefersRun
  <2>2. OpenDeferred'
    BY <1>0, <1>2 DEF OpenDeferred, Open, DefersRun
  <2> QED BY <2>1, <2>2
<1>3. ASSUME NEW t \in Txs, NEW answer \in {"committed", "unknown", "rolledback"}, TxDecided(t, answer), DefersRun
      PROVE  TxInv'
  <2>1. Lives'
    BY <1>0, <1>3 DEF Lives, Begun, Open, TxDecided, TypeOK
  <2>2. \A u \in Txs : txDone[u] => txDone'[u]
    BY <1>0, <1>3 DEF TxDecided, TypeOK
  <2>3. UNCHANGED tconn
    BY <1>3 DEF TxDecided
  <2> QED BY <1>2, <1>3, <2>1, <2>2, <2>3 DEF TxInv
<1>4. ASSUME TxKept, DefersRun PROVE TxInv'
  <2>1. Lives'
    BY <1>0, <1>4 DEF Lives, Begun, TxKept
  <2> QED BY <1>2, <1>4, <2>1 DEF TxInv, TxKept
<1> QED BY <1>1, <1>3, <1>4 DEF TxEffect

-----------------------------------------------------------------------------
\* Program counters: what a function's says of its locals and of the
\* transaction of its block, which no other function decides.
LEMMA ShapeStep == ASSUME IInv, Next PROVE Shape'
<1> USE TxNullAssumption
<1>0. TypeInv /\ TypeOK /\ Shape /\ DeferredApart /\ DeferredBegun /\ Lives
  BY DEF IInv, TxInv, TypeInv
<1>1. ASSUME UNCHANGED <<block, deferred, tconn, txDone>>,
             NEW f \in Funcs, \A g \in Funcs \ {f} : pc'[g] = pc[g] /\ waits'[g] = waits[g] /\ hold'[g] = hold[g],
             pc'[f] # "idle", pc'[f] = "body" => pc[f] = "body",
             hold'[f] # NoConn => waits'[f] = "stmt",
             waits'[f] = "stmt" => pc'[f] \in {"run", "onerr"},
             waits'[f] = "begin" => pc'[f] = "run"
      PROVE  Shape'
  BY <1>0, <1>1 DEF Shape, Open
<1>2. ASSUME NEW f \in Funcs, Call(f) \/ PoolStatement(f) \/ EnterBlock(f) PROVE Shape'
  BY <1>0, <1>2 DEF Call, PoolStatement, EnterBlock, Goto, Shape, Open, TypeOK, txVars
<1>3. ASSUME NEW f \in Funcs, NEW c \in Conns, StatementStarts(f, c) PROVE Shape'
  BY <1>0, <1>3 DEF StatementStarts, Shape, Open, TypeOK, txVars
<1>4. ASSUME NEW f \in Funcs, StatementEnds(f) \/ AcquireFails(f) PROVE Shape'
  BY <1>0, <1>4 DEF StatementEnds, AcquireFails, Fails, Goto, Shape, Open, TypeOK, txVars
<1>5. ASSUME NEW f \in Funcs, NEW c \in Conns, BeginFails(f, c) PROVE Shape'
  BY <1>0, <1>5 DEF BeginFails, Fails, Goto, Shape, Open, TypeOK, txVars
<1>6. ASSUME NEW f \in Funcs, TxStatement(f) \/ NestedBegin(f) \/ LeaveBlock(f) \/ Returns(f) \/ Returned(f) PROVE Shape'
  BY <1>0, <1>6 DEF TxStatement, NestedBegin, LeaveBlock, Returns, Returned, Fails, Goto, Shape, Open, TypeOK, txVars
<1>7. ASSUME NEW f \in Funcs, NEW t \in Txs, NEW c \in Conns, BeginOk(f, t, c) PROVE Shape'
  <2>1. /\ ToSet(deferred'[f]) = ToSet(deferred[f]) \cup {t}
        /\ \A g \in Funcs \ {f} : deferred'[g] = deferred[g]
        /\ \A g \in Funcs : t \notin ToSet(deferred[g])
    BY <1>0, <1>7, AppendSet DEF BeginOk, TypeInv, DeferredBegun, Begun
  <2>2. Open(t)' /\ \A u \in Txs : Open(u) => Open(u)'
    BY <1>0, <1>7 DEF BeginOk, Open, TypeOK, Lives, Begun
  <2>3. /\ pc'[f] = "body" /\ waits'[f] = "none" /\ hold'[f] = NoConn /\ block'[f] = t
        /\ \A g \in Funcs \ {f} : pc'[g] = pc[g] /\ waits'[g] = waits[g] /\ hold'[g] = hold[g] /\ block'[g] = block[g]
    BY <1>0, <1>7 DEF BeginOk, Goto, TypeOK, Shape
  <2> SUFFICES ASSUME NEW g \in Funcs
               PROVE  /\ hold'[g] # NoConn => waits'[g] = "stmt"
                      /\ waits'[g] = "stmt" => pc'[g] \in {"run", "onerr"}
                      /\ waits'[g] = "begin" => pc'[g] = "run"
                      /\ pc'[g] = "idle" => deferred'[g] = <<>>
                      /\ pc'[g] = "body" => block'[g] \in ToSet(deferred'[g]) /\ Open(block[g])'
    BY DEF Shape
  <2>4. CASE g = f
    BY <2>1, <2>2, <2>3, <2>4 DEF Open
  <2>5. CASE g # f
    <3>1. pc[g] = "body" => block[g] \in Txs
      BY <1>0, ToSetType DEF Shape, TypeInv
    <3> QED BY <1>0, <2>1, <2>2, <2>3, <2>5, <3>1 DEF Shape, Open
  <2> QED BY <2>4, <2>5
<1>8. ASSUME NEW f \in Funcs, NEW t \in ToSet(deferred[f]),
             UNCHANGED tconn, \A u \in Txs \ {t} : txDone'[u] = txDone[u],
             pc'[f] \notin {"idle", "body"}, waits'[f] = "none", hold'[f] = NoConn,
             \A g \in Funcs \ {f} : /\ pc'[g] = pc[g] /\ waits'[g] = waits[g] /\ hold'[g] = hold[g]
                                    /\ block'[g] = block[g] /\ deferred'[g] = deferred[g]
      PROVE  Shape'
  <2> SUFFICES ASSUME NEW g \in Funcs, g # f, pc[g] = "body" PROVE Open(block[g])'
    BY <1>0, <1>8 DEF Shape
  <2>1. block[g] \in ToSet(deferred[g]) /\ block[g] \in Txs /\ Open(block[g])
    BY <1>0, ToSetType DEF Shape, TypeInv
  <2>2. block[g] # t
    BY <1>0, <1>8, <2>1 DEF DeferredApart
  <2> QED BY <1>8, <2>1, <2>2 DEF Open
<1>9. ASSUME NEW f \in Funcs, NEW answer \in {"ok", "error"}, Commit(f, answer) PROVE Shape'
  <2>1. block[f] \in ToSet(deferred[f]) /\ hold[f] = NoConn /\ waits[f] = "none"
    BY <1>0, <1>9 DEF Commit, Shape, TypeOK
  <2>2. pc'[f] \in {"run", "onerr", "unwind"} /\ \A g \in Funcs \ {f} : pc'[g] = pc[g]
    BY <1>0, <1>9 DEF Commit, Goto, Fails, TypeOK
  <2>3. /\ UNCHANGED <<tconn, waits, hold, deferred>>
        /\ \A u \in Txs \ {block[f]} : txDone'[u] = txDone[u]
        /\ \A g \in Funcs \ {f} : block'[g] = block[g]
    BY <1>0, <1>9 DEF Commit, TypeOK
  <2> QED BY <1>8, <2>1, <2>2, <2>3
<1>10. ASSUME NEW f \in Funcs, Unwind(f) PROVE Shape'
  <2> DEFINE t == Last(deferred[f])
  <2>1. t \in ToSet(deferred[f])
    BY <1>0, <1>10, FrontSet DEF Unwind, TypeInv
  <2>2. Rollback(t) /\ UNCHANGED <<pc, waits, hold, block>> /\ deferred' = [deferred EXCEPT ![f] = Front(@)] /\ pc[f] = "unwind"
    BY <1>10 DEF Unwind
  <2> HIDE DEF t
  <2>3. UNCHANGED tconn /\ \A u \in Txs \ {t} : txDone'[u] = txDone[u]
    BY <1>0, <2>2 DEF Rollback, txVars, TypeOK
  <2>4. waits[f] = "none" /\ hold[f] = NoConn
    BY <1>0, <2>2 DEF Shape, TypeOK
  <2> QED BY <1>0, <1>8, <2>1, <2>2, <2>3, <2>4 DEF TypeInv
<1>11. ASSUME NEW c \in Conns, ConnDies(c) PROVE Shape'
  BY <1>0, <1>11 DEF ConnDies, Shape, Open, txVars
<1> QED BY <1>2, <1>3, <1>4, <1>5, <1>6, <1>7, <1>9, <1>10, <1>11 DEF Next, Step

-----------------------------------------------------------------------------
\* Sessions: a transaction's ends with it or with its connection.
LEMMA SessionStep == ASSUME IInv, Next, TypeInv' PROVE SessionOwned' /\ DeadClean'
<1> USE TxNullAssumption
<1>0. TypeInv /\ TypeOK /\ Shape /\ DeferredBegun /\ Lives /\ SessionOwned /\ DeadClean
  BY DEF IInv, TxInv, TypeInv, ConnInv
<1>1. ASSUME UNCHANGED <<session, dead, tconn, txDone>> PROVE SessionOwned' /\ DeadClean'
  BY <1>0, <1>1 DEF SessionOwned, DeadClean, Open
<1>2. ASSUME NEW f \in Funcs, NEW t \in Txs, NEW c \in Conns, BeginOk(f, t, c) PROVE SessionOwned' /\ DeadClean'
  <2>1. /\ tconn' = [tconn EXCEPT ![t] = c] /\ tconn[t] = NoConn /\ session' = [session EXCEPT ![c] = t]
        /\ c \notin dead /\ UNCHANGED <<txDone, dead>> /\ ~txDone[t]
    BY <1>0, <1>2 DEF BeginOk, Lives, Begun
  <2>2. \A d \in Conns : session[d] # t
    BY <1>0, <2>1 DEF SessionOwned, Open
  <2> QED BY <1>0, <2>1, <2>2 DEF SessionOwned, DeadClean, Open, TypeOK
<1>3. ASSUME NEW t \in Txs, Open(t), UNCHANGED tconn, txDone' = [txDone EXCEPT ![t] = TRUE],
             \/ SessionEnds(tconn[t]) /\ dead' \subseteq dead \cup {tconn[t]}
             \/ tconn[t] \in dead /\ UNCHANGED <<session, dead>>
      PROVE  SessionOwned' /\ DeadClean'
  <2>1. tconn[t] \in Conns
    BY <1>0, <1>3 DEF Open, TypeOK
  <2>2. session'[tconn[t]] = NoTx /\ \A d \in Conns \ {tconn[t]} : session'[d] = session[d]
    BY <1>0, <1>3, <2>1 DEF SessionEnds, TypeOK, DeadClean
  <2>3. dead' \subseteq dead \cup {tconn[t]} /\ dead \subseteq Conns
    BY <1>0, <1>3 DEF TypeOK
  <2>4. SessionOwned'
    <3> SUFFICES ASSUME NEW d \in Conns, session'[d] # NoTx PROVE (Open(session[d]) /\ tconn[session[d]] = d)'
      BY <1>3 DEF SessionOwned
    <3>1. d # tconn[t] /\ session'[d] = session[d] /\ session[d] \in Txs
      BY <1>0, <2>2 DEF TypeOK
    <3>2. Open(session[d]) /\ tconn[session[d]] = d /\ session[d] # t
      BY <1>0, <3>1 DEF SessionOwned
    <3> QED BY <1>0, <1>3, <3>1, <3>2 DEF Open, TypeOK
  <2>5. DeadClean'
    BY <1>0, <2>2, <2>3 DEF DeadClean
  <2> QED BY <2>4, <2>5
<1>4. ASSUME NEW f \in Funcs, NEW answer \in {"ok", "error"}, Commit(f, answer) PROVE SessionOwned' /\ DeadClean'
  <2>1. block[f] \in Txs /\ Open(block[f])
    BY <1>0, <1>4, ToSetType DEF Commit, Shape, TypeInv
  <2>2. \/ SessionEnds(tconn[block[f]]) /\ dead' \subseteq dead \cup {tconn[block[f]]}
        \/ tconn[block[f]] \in dead /\ UNCHANGED <<session, dead>>
    BY <1>4 DEF Commit, ServerCommit, serverVars
  <2> QED BY <1>3, <1>4, <2>1, <2>2 DEF Commit
<1>5. ASSUME NEW f \in Funcs, Unwind(f) PROVE SessionOwned' /\ DeadClean'
  <2> DEFINE t == Last(deferred[f])
  <2>1. t \in Txs /\ tconn[t] # NoConn
    BY <1>0, <1>5, FrontSet, ToSetType DEF Unwind, DeferredBegun, Begun, TypeInv
  <2>2. Rollback(t)
    BY <1>5 DEF Unwind
  <2> HIDE DEF t
  <2>3. CASE txDone[t]
    BY <1>1, <2>2, <2>3 DEF Rollback, txVars, serverVars
  <2>4. CASE ~txDone[t]
    BY <1>3, <2>1, <2>2, <2>4 DEF Rollback, Open
  <2> QED BY <2>3, <2>4
<1>6. ASSUME NEW c \in Conns, ConnDies(c) PROVE SessionOwned' /\ DeadClean'
  BY <1>0, <1>6 DEF ConnDies, SessionEnds, SessionOwned, DeadClean, Open, TypeOK, txVars
<1> QED BY <1>1, <1>2, <1>4, <1>5, <1>6
  DEF Next, Step, Call, PoolStatement, EnterBlock, StatementStarts, StatementEnds, AcquireFails,
      BeginFails, TxStatement, NestedBegin, LeaveBlock, Returns, Returned, txVars, serverVars

-----------------------------------------------------------------------------
(* The theorems                                                            *)

LEMMA InitInv == Init => IInv
<1> SUFFICES ASSUME Init PROVE IInv
  OBVIOUS
<1> USE TxNullAssumption, TxMaxOpenAssumption
<1>1. \A f \in Funcs : ToSet(deferred[f]) = {}
  BY DEF Init, ToSet
<1>2. \A t \in Txs : ~Open(t)
  BY DEF Init, Open
<1>3. Borrowers = {}
  BY <1>2 DEF Init, Borrowers, Lent
<1>4. TypeInv
  BY <1>1 DEF Init, TypeInv, TypeOK
<1>5. Shape /\ TxInv
  BY <1>1, <1>2 DEF Init, Shape, TxInv, Lives, DeferredBegun, DeferredApart, OpenDeferred, Begun
<1>6. ConnInv
  BY <1>3 DEF Init, ConnInv, LentApart, LentNotIdle, SessionOwned, DeadClean
<1>7. SlotInv
  BY <1>3, FS_EmptySet DEF Init, SlotInv
<1> QED BY <1>4, <1>5, <1>6, <1>7 DEF IInv

LEMMA IInvStep == IInv /\ [Next]_vars => IInv'
<1> SUFFICES ASSUME IInv, [Next]_vars PROVE IInv'
  OBVIOUS
<1>1. CASE Next
  <2>1. LoanEffect /\ TxEffect /\ Shape'
    BY <1>1, LoanStep, TxStep, ShapeStep
  <2>2. SlotInv' /\ sem' \in 0..MaxOpen /\ LentApart' /\ LentNotIdle'
    BY <2>1, SlotStep, ApartStep
  <2>3. TypeInv'
    BY <1>1, <2>2, TypeStep
  <2>4. TxInv' /\ SessionOwned' /\ DeadClean'
    BY <1>1, <2>1, <2>3, TxInvStep, SessionStep
  <2> QED BY <2>1, <2>2, <2>3, <2>4 DEF IInv, ConnInv
<1>2. CASE UNCHANGED vars
  <2>1. \A t \in Txs : Open(t)' = Open(t)
    BY <1>2 DEF vars, txVars, Open
  <2>2. Lent' = Lent
    BY <1>2, <2>1 DEF vars, txVars, Lent
  <2> QED BY <1>2, <2>1, <2>2
    DEF vars, txVars, poolVars, serverVars, IInv, TypeInv, TypeOK, Shape, Open, TxInv, Lives, DeferredBegun,
        DeferredApart, OpenDeferred, Begun, ConnInv, LentApart, LentNotIdle, SessionOwned, DeadClean,
        SlotInv, Borrowers
<1> QED BY <1>1, <1>2

LEMMA Inductive == Spec => []IInv
BY InitInv, IInvStep, PTL DEF Spec

LEMMA Consequences == ASSUME IInv PROVE TypeOK /\ OpenTxDeferred /\ SessionsClean /\ StoredByCommit
<1>1. TypeOK /\ StoredByCommit
  BY DEF IInv, TypeInv, TxInv, Lives, StoredByCommit, TypeOK
<1>2. OpenTxDeferred
  <2>1. \A f \in Funcs : pc[f] = "idle" => ToSet(deferred[f]) = {}
    BY DEF IInv, Shape, ToSet
  <2> QED BY <2>1 DEF IInv, TxInv, OpenDeferred, OpenTxDeferred, Shape
<1>3. SessionsClean
  <2> SUFFICES ASSUME NEW c \in Conns, session[c] # NoTx PROVE Open(session[c]) /\ tconn[session[c]] = c /\ c \notin idle
    BY DEF SessionsClean
  <2>1. Open(session[c]) /\ tconn[session[c]] = c /\ session[c] \in Txs
    BY DEF IInv, ConnInv, SessionOwned, TypeInv, TypeOK
  <2>2. session[c] \in Borrowers /\ Lent[session[c]] = c
    BY <2>1, TxNullAssumption DEF Borrowers, Lent, Open
  <2> QED BY <2>1, <2>2 DEF IInv, ConnInv, LentNotIdle
<1> QED BY <1>1, <1>2, <1>3

\* Every variable keeps its type.
THEOREM TypeCorrect == Spec => []TypeOK
BY Inductive, Consequences, PTL

\* However a block is left (return, break, try, an error of its commit), the
\* rollback that the compiler has deferred for it is still to come.
THEOREM RollbackDue == Spec => []OpenTxDeferred
BY Inductive, Consequences, PTL

\* The pool never lends a connection in whose session a transaction is open.
THEOREM CleanSessions == Spec => []SessionsClean
BY Inductive, Consequences, PTL

\* Whatever leaves a block early undoes it: what the server has stored was
\* committed, or its commit's answer was lost.
THEOREM OnlyCommitStores == Spec => []StoredByCommit
BY Inductive, Consequences, PTL

\* What DBCommit or DBRollback decided is not decided again.
THEOREM VerdictStays == Spec => VerdictFinal
<1> DEFINE Stays == \A t \in Txs : verdict[t] # "none" =>
                      /\ verdict'[t] = verdict[t]
                      /\ t \in stored' <=> t \in stored
<1>1. IInv /\ TxEffect => Stays
  <2> SUFFICES ASSUME IInv, TxEffect PROVE Stays
    OBVIOUS
  <2>1. TypeOK /\ Lives
    BY DEF IInv, TypeInv, TxInv
  <2>2. ASSUME NEW t \in Txs, NEW answer, TxDecided(t, answer) PROVE Stays
    BY <2>1, <2>2 DEF TxDecided, Open, Lives, TypeOK
  <2>3. CASE UNCHANGED <<verdict, stored>>
    BY <2>3
  <2> QED BY <2>2, <2>3 DEF TxEffect, TxKept, TxBegins
<1>2. IInv /\ [Next]_vars => [Stays]_vars
  BY <1>1, TxStep
<1> QED BY Inductive, <1>2, PTL DEF Spec, VerdictFinal

\* Cardinality is the same in the module of the lease table.
LEMMA LeaseCardinality == \A S : Lease!Cardinality(S) = Cardinality(S)
BY DEF Cardinality, Lease!Cardinality

\* The functions and transactions of compiled programs keep to the lease table
\* that the pool implements: each loan is given back once.
THEOREM TxImplementsLease == Spec => ImplementsLease
<1> USE TxNullAssumption
<1>1. Init => Lease!Init
  BY DEF Init, Lease!Init, Lent, From, Open
<1>2. ASSUME IInv, LoanEffect PROVE [Lease!Next]_<<Lent, From>>
  <2>0. /\ Lent \in [Funcs \cup Txs -> {Lent[x] : x \in Funcs \cup Txs}]
        /\ Lent'= [x \in Funcs \cup Txs |-> Lent'[x]]
        /\ NoConn \notin Conns /\ ThePool # NoPool
    BY DEF Lent
  <2>1. ASSUME NEW x \in Funcs \cup Txs, NEW c \in Conns, Borrow(x, c) PROVE Lease!Next
    <3>1. Lease!Loans(ThePool) = Borrowers
      BY <2>0 DEF Lease!Loans, From, Borrowers
    <3>2. Cardinality(Borrowers) < MaxOpen
      BY <1>2, <2>1 DEF IInv, SlotInv, Borrow, Acquire
    <3>3. Lent[x] = NoConn /\ \A y \in Funcs \cup Txs : Lent[y] # c
      BY <1>2, <2>0, <2>1, ObtainableFree DEF Borrow, Acquire, Borrowers
    <3>4. From' = [From EXCEPT ![x] = ThePool]
      BY <2>0, <2>1 DEF Borrow, From
    <3>5. Lease!Lend(x, ThePool, c)
      BY <2>1, <3>1, <3>2, <3>3, <3>4, LeaseCardinality DEF Lease!Lend, Borrow
    <3> QED BY <3>5 DEF Lease!Next
  <2>2. ASSUME NEW x \in Borrowers, GiveBack(x) PROVE Lease!Next
    <3>1. Lent[x] # NoConn /\ x \in Funcs \cup Txs
      BY DEF Borrowers
    <3>2. From' = [From EXCEPT ![x] = NoPool]
      BY <2>0, <2>2, <3>1 DEF GiveBack, From
    <3> QED BY <2>2, <3>1, <3>2 DEF Lease!Next, Lease!Return, GiveBack
  <2>3. CASE KeepLoans
    BY <2>3 DEF KeepLoans, From
  <2> QED BY <1>2, <2>1, <2>2, <2>3 DEF LoanEffect
<1>3. UNCHANGED vars => UNCHANGED <<Lent, From>>
  BY DEF vars, txVars, Lent, From, Open
<1>4. IInv /\ [Next]_vars => [Lease!Next]_<<Lent, From>>
  BY <1>2, <1>3, LoanStep
<1> QED BY <1>1, <1>4, Inductive, PTL DEF Spec, ImplementsLease, Lease!Spec
=============================================================================
