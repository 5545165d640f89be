---------------------------- MODULE DBPoolProofs ----------------------------
(***************************************************************************)
(* Proofs about DBPool, for every set of callers, handles, pools and       *)
(* connections and every MaxOpen and MaxIdle.  IInv is inductive; its four *)
(* parts are preserved one lemma each, all of IInv being assumed before    *)
(* the step.  Every safety property follows from it, and the same          *)
(* invariant shows that each step is a step of ConnLease or none.          *)
(***************************************************************************)
EXTENDS DBPool, TLAPS, FiniteSetTheorems, SequenceTheorems

\* The first n elements of a sequence, as acquire cuts them off.
LEMMA Prefix == ASSUME NEW S, NEW s \in Seq(S), NEW n \in Nat, n < Len(s)
  PROVE /\ SubSeq(s, 1, n) \in Seq(S)
        /\ Len(SubSeq(s, 1, n)) = n
        /\ \A i \in 1..n : SubSeq(s, 1, n)[i] = s[i]
<1>1. \A i \in 1..n : s[i] \in S
  OBVIOUS
<1>2. n \in Int /\ 1 \in Int
  OBVIOUS
<1> QED BY <1>1, <1>2, SubSeqProperties

\* p.idle[n-1] and p.idle[:n-1]: popping a stack without repetitions takes
\* exactly its last element out of it.
LEMMA PopLast == ASSUME NEW S, NEW s \in Seq(S), Len(s) > 0, IsInjective(s)
  PROVE /\ Last(s) \in ToSet(s)
        /\ Front(s) \in Seq(S)
        /\ Len(Front(s)) = Len(s) - 1
        /\ ToSet(Front(s)) = ToSet(s) \ {Last(s)}
        /\ IsInjective(Front(s))
<1>1. /\ Front(s) \in Seq(S)
      /\ Len(Front(s)) = Len(s) - 1
      /\ \A i \in 1..Len(s) - 1 : Front(s)[i] = s[i]
  <2>1. Len(s) - 1 \in Nat /\ Len(s) - 1 < Len(s)
    OBVIOUS
  <2> QED BY <2>1, Prefix, Zenon DEF Front
<1>2. DOMAIN Front(s) = 1..Len(s) - 1 /\ DOMAIN s = 1..Len(s)
  BY <1>1
<1>3. Last(s) = s[Len(s)] /\ \A i \in 1..Len(s) - 1 : s[i] # s[Len(s)]
  BY <1>2 DEF IsInjective, Last
<1>4. ToSet(Front(s)) = {s[i] : i \in 1..Len(s) - 1} /\ ToSet(s) = {s[i] : i \in 1..Len(s)}
  BY <1>1, <1>2 DEF ToSet
<1> QED BY <1>1, <1>2, <1>3, <1>4 DEF IsInjective

\* append(p.idle, conn): pushing a new element keeps a stack free of
\* repetitions.
LEMMA PushLast == ASSUME NEW S, NEW s \in Seq(S), NEW e \in S, IsInjective(s),
    e \notin ToSet(s)
  PROVE /\ Append(s, e) \in Seq(S)
        /\ Len(Append(s, e)) = Len(s) + 1
        /\ ToSet(Append(s, e)) = ToSet(s) \cup {e}
        /\ IsInjective(Append(s, e))
<1>1. /\ Append(s, e) \in Seq(S)
      /\ Len(Append(s, e)) = Len(s) + 1
      /\ \A i \in 1..Len(s) : Append(s, e)[i] = s[i]
      /\ Append(s, e)[Len(s) + 1] = e
  OBVIOUS
<1>2. DOMAIN Append(s, e) = 1..Len(s) + 1 /\ DOMAIN s = 1..Len(s)
  BY <1>1
<1>3. ToSet(Append(s, e)) = {Append(s,
    e)[i] : i \in 1..Len(s) + 1} /\ ToSet(s) = {s[i] : i \in 1..Len(s)}
  BY <1>1, <1>2 DEF ToSet
<1>4. \A i \in 1..Len(s) : s[i] # e
  BY <1>3
<1> QED BY <1>1, <1>2, <1>3, <1>4 DEF IsInjective

-----------------------------------------------------------------------------
\* Types and program counters: every action keeps what a caller's program
\* counter says of its locals.
LEMMA ShapeStep == ASSUME Shape, Next PROVE Shape'
<1> USE MaxOpenAssumption, NullAssumption
<1>1. PICK a \in Callers : Call(a) \/ Connecting(a) \/ Closing(a) \/ Using(a)
  BY DEF Next
<1> USE DEF Shape, TypeOK, CallerShape, HandleShape, Labels, SlotHeld, Checked, Holding,
    HandleCalls, Goto, PoolOf, Finish, NewHandle, Sharable, ShareOpenPool, poolVars,
    callVars, DropRef, CanKeep, Outcomes
<1>2. ASSUME NEW h \in Handles, ConnectShared(a, h) PROVE Shape'
  BY <1>2 DEF ConnectShared
<1>3. CASE ConnectMiss(a)
  BY <1>3 DEF ConnectMiss
<1>4. ASSUME NEW h \in Handles, CloseHandle(a, h) PROVE Shape'
  BY <1>4 DEF CloseHandle
<1>5. ASSUME NEW h \in Handles, CallOnClosed(a, h) PROVE Shape'
  BY <1>5 DEF CallOnClosed, vars
<1>6. ASSUME NEW h \in Handles, AcquireStart(a, h) PROVE Shape'
  BY <1>6 DEF AcquireStart
<1>7. CASE LockDial(a)
  BY <1>7 DEF LockDial
<1>8. ASSUME NEW h \in Handles, RecheckShared(a, h) PROVE Shape'
  BY <1>8 DEF RecheckShared
<1>9. CASE RecheckMiss(a)
  BY <1>9 DEF RecheckMiss
<1>10. CASE DialPoolFail(a)
  BY <1>10 DEF DialPoolFail
<1>11. ASSUME NEW c \in Conns, DialPoolOk(a, c) PROVE Shape'
  BY <1>11 DEF DialPoolOk
<1>12. ASSUME NEW h \in Handles, NEW p \in Pools, Register(a, h, p) PROVE Shape'
  BY <1>12 DEF Register
<1>13. CASE DropSharedRef(a)
  BY <1>13 DEF DropSharedRef
<1>14. CASE DropLastRef(a)
  BY <1>14 DEF DropLastRef, ToSet
<1>15. ASSUME NEW c \in Conns, CloseIdleConn(a, c) PROVE Shape'
  BY <1>15 DEF CloseIdleConn
<1>16. CASE CloseDone(a)
  BY <1>16 DEF CloseDone
<1>17. CASE TakeSlot(a)
  BY <1>17 DEF TakeSlot
<1>18. CASE FindClosed(a)
  BY <1>18 DEF FindClosed
<1>19. CASE PopIdle(a)
  BY <1>19 DEF PopIdle, Last, Front
<1>20. CASE FindEmpty(a)
  BY <1>20 DEF FindEmpty
<1>21. ASSUME NEW c \in Conns, DialConnOk(a, c) PROVE Shape'
  BY <1>21 DEF DialConnOk
<1>22. CASE DialConnFail(a)
  BY <1>22 DEF DialConnFail
<1>23. ASSUME NEW l \in Outcomes, OperationReturns(a, l) PROVE Shape'
  BY <1>23 DEF OperationReturns
<1>24. CASE BeginOk(a)
  BY <1>24 DEF BeginOk
<1>25. ASSUME NEW l \in Outcomes, TxEnds(a, l) PROVE Shape'
  BY <1>25 DEF TxEnds
<1>26. CASE ReleaseToIdle(a)
  BY <1>26 DEF ReleaseToIdle
<1>27. CASE ReleaseToDiscard(a)
  BY <1>27 DEF ReleaseToDiscard
<1>28. CASE Discard(a)
  BY <1>28 DEF Discard
<1>29. CASE FreeSlot(a)
  BY <1>29 DEF FreeSlot
<1>30. QED BY <1>1, <1>2, <1>3, <1>4, <1>5, <1>6, <1>7, <1>8, <1>9, <1>10, <1>11, <1>12,
    <1>13, <1>14, <1>15, <1>16, <1>17, <1>18, <1>19, <1>20, <1>21, <1>22, <1>23, <1>24,
    <1>25, <1>26, <1>27, <1>28, <1>29 DEF Call, Connecting, Closing, Using

-----------------------------------------------------------------------------
\* Connections: every action moves one connection (or one idle list) from one
\* place to one other, so each open connection keeps exactly one place.
LEMMA ConnsStep == ASSUME IInv, Next PROVE ConnsInv'
<1>1. PICK a \in Callers : Call(a) \/ Connecting(a) \/ Closing(a) \/ Using(a)
  BY DEF Next
<1>3. TypeOK /\ CallerShape /\ HandleShape /\ RegistryInv
  BY DEF IInv, Shape
<1>4. CallersApart /\ ApartFromIdle /\ IdleApart /\ IdleOnce /\ ConnsTracked
  BY DEF IInv, ConnsInv, ExclusiveConn
<1>5. /\ conn \in [Callers -> Conns \cup {NoConn}] /\ NoConn \notin Conns
      /\ drain \in [Callers -> SUBSET Conns]
      /\ idle \in [Pools -> Seq(Conns)]
      /\ \A q \in Pools : ToSet(idle[q]) \subseteq Conns
  BY <1>3, NullAssumption DEF TypeOK, ToSet
<1>2. CASE UNCHANGED <<conn, idle, drain, live>>
  BY <1>2, <1>4 DEF ConnsInv, ExclusiveConn, CallersApart, ApartFromIdle, IdleApart,
      IdleOnce, ConnsTracked
<1>6. ASSUME NEW c \in Conns, DialPoolOk(a, c) PROVE ConnsInv'
  <2>1. /\ conn' = [conn EXCEPT ![a] = c] /\ conn[a] = NoConn
         /\ drain' = drain /\ idle' = idle
         /\ live' = live \cup {c} /\ c \notin live
    BY <1>3, <1>5, <1>6 DEF DialPoolOk, DropRef, CanKeep, CallerShape, RegistryInv, PoolOf,
        poolVars, Holding, Checked
  <2>2. CallersApart'
    BY <1>4, <1>5, <2>1 DEF CallersApart, ApartFromIdle, ConnsTracked
  <2>3. ApartFromIdle'
    BY <1>4, <1>5, <2>1 DEF CallersApart, ApartFromIdle, IdleApart, ConnsTracked
  <2>4. IdleApart'
    BY <1>4, <1>5, <2>1 DEF IdleApart, ApartFromIdle
  <2>5. IdleOnce'
    BY <1>4, <1>5, <2>1 DEF IdleOnce
  <2>6. ConnsTracked'
    BY <1>4, <1>5, <2>1 DEF ConnsTracked, CallersApart, ApartFromIdle
  <2> QED BY <2>2, <2>3, <2>4, <2>5, <2>6 DEF ConnsInv, ExclusiveConn
<1>7. ASSUME NEW c \in Conns, DialConnOk(a, c) PROVE ConnsInv'
  <2>1. /\ conn' = [conn EXCEPT ![a] = c] /\ conn[a] = NoConn
         /\ drain' = drain /\ idle' = idle
         /\ live' = live \cup {c} /\ c \notin live
    BY <1>3, <1>5, <1>7 DEF DialConnOk, DropRef, CanKeep, CallerShape, RegistryInv, PoolOf,
        poolVars, Holding, Checked
  <2>2. CallersApart'
    BY <1>4, <1>5, <2>1 DEF CallersApart, ApartFromIdle, ConnsTracked
  <2>3. ApartFromIdle'
    BY <1>4, <1>5, <2>1 DEF CallersApart, ApartFromIdle, IdleApart, ConnsTracked
  <2>4. IdleApart'
    BY <1>4, <1>5, <2>1 DEF IdleApart, ApartFromIdle
  <2>5. IdleOnce'
    BY <1>4, <1>5, <2>1 DEF IdleOnce
  <2>6. ConnsTracked'
    BY <1>4, <1>5, <2>1 DEF ConnsTracked, CallersApart, ApartFromIdle
  <2> QED BY <2>2, <2>3, <2>4, <2>5, <2>6 DEF ConnsInv, ExclusiveConn
<1>8. ASSUME NEW h \in Handles, NEW p \in Pools, Register(a, h, p) PROVE ConnsInv'
  <2>1. /\ conn' = [conn EXCEPT ![a] = NoConn] /\ conn[a] \in Conns
         /\ drain' = drain /\ live' = live
         /\ idle[p] = <<>> /\ idle'[p] = <<conn[a]>>
         /\ \A q \in Pools : q # p => idle'[q] = idle[q]
    BY <1>3, <1>5, <1>8 DEF Register, DropRef, CanKeep, CallerShape, RegistryInv, PoolOf,
        poolVars, Holding, Checked
  <2>2. /\ ToSet(idle[p]) = {} /\ ToSet(idle'[p]) = {conn[a]}
         /\ IsInjective(idle'[p])
    BY <2>1 DEF ToSet, IsInjective
  <2>3. CallersApart'
    BY <1>4, <1>5, <2>1, <2>2 DEF CallersApart, ApartFromIdle, ConnsTracked
  <2>4. ApartFromIdle'
    <3>1. SUFFICES ASSUME NEW q \in Pools, NEW c \in ToSet(idle'[q]), NEW b \in Callers
                   PROVE  conn'[b] # c /\ c \notin drain'[b]
      BY DEF ApartFromIdle
    <3>2. CASE c \in ToSet(idle[q])
      BY <1>4, <1>5, <2>1, <3>2 DEF ApartFromIdle
    <3>3. CASE c = conn[a]
      BY <1>4, <1>5, <2>1, <3>3 DEF CallersApart
    <3> QED BY <2>1, <2>2, <3>2, <3>3
  <2>5. IdleApart'
    <3>1. SUFFICES ASSUME NEW q \in Pools, NEW r \in Pools, NEW c \in ToSet(idle'[q]),
                          c \in ToSet(idle'[r])
                   PROVE  q = r
      BY DEF IdleApart
    <3>2. \A s \in Pools : conn[a] \notin ToSet(idle[s])
      BY <1>4 DEF ApartFromIdle
    <3>3. CASE q # p /\ r # p
      BY <1>4, <2>1, <3>1, <3>3 DEF IdleApart
    <3>4. CASE q = p /\ r # p
      BY <1>4, <2>1, <2>2, <3>1, <3>2, <3>4 DEF IdleApart
    <3>5. CASE q # p /\ r = p
      BY <1>4, <2>1, <2>2, <3>1, <3>2, <3>5 DEF IdleApart
    <3> QED BY <3>3, <3>4, <3>5
  <2>6. IdleOnce'
    BY <1>4, <1>5, <2>1, <2>2 DEF IdleOnce
  <2>7. ConnsTracked'
    BY <1>4, <1>5, <2>1, <2>2 DEF ConnsTracked, CallersApart, ApartFromIdle
  <2> QED BY <2>3, <2>4, <2>5, <2>6, <2>7 DEF ConnsInv, ExclusiveConn
<1>9. CASE DropLastRef(a)
  <2> PICK p \in Pools : p = PoolOf(a)
    BY <1>3, <1>9 DEF DropLastRef, DropRef, CanKeep, CallerShape, HandleShape, PoolOf,
        HandleCalls, SlotHeld
  <2>1. /\ conn' = conn /\ live' = live
         /\ drain' = [drain EXCEPT ![a] = ToSet(idle[p])] /\ drain[a] = {}
         /\ idle'[p] = <<>>
         /\ \A q \in Pools : q # p => idle'[q] = idle[q]
    BY <1>3, <1>5, <1>9 DEF DropLastRef, DropRef, CanKeep, CallerShape, RegistryInv,
        PoolOf, poolVars, Holding, Checked
  <2>2. ToSet(idle'[p]) = {} /\ IsInjective(idle'[p])
    BY <2>1 DEF ToSet, IsInjective
  <2>3. CallersApart'
    BY <1>4, <1>5, <2>1, <2>2 DEF CallersApart, ApartFromIdle, ConnsTracked
  <2>4. ApartFromIdle'
    BY <1>4, <1>5, <2>1, <2>2 DEF CallersApart, ApartFromIdle, IdleApart, ConnsTracked
  <2>5. IdleApart'
    BY <1>4, <1>5, <2>1, <2>2 DEF IdleApart, ApartFromIdle
  <2>6. IdleOnce'
    BY <1>4, <1>5, <2>1, <2>2 DEF IdleOnce
  <2>7. ConnsTracked'
    BY <1>4, <1>5, <2>1, <2>2 DEF ConnsTracked, CallersApart, ApartFromIdle
  <2> QED BY <2>3, <2>4, <2>5, <2>6, <2>7 DEF ConnsInv, ExclusiveConn
<1>10. ASSUME NEW c \in Conns, CloseIdleConn(a, c) PROVE ConnsInv'
  <2>1. /\ conn' = conn /\ idle' = idle
         /\ drain' = [drain EXCEPT ![a] = @ \ {c}]
         /\ live' = live \ {c} /\ c \in drain[a]
    BY <1>3, <1>5, <1>10 DEF CloseIdleConn, DropRef, CanKeep, CallerShape, RegistryInv,
        PoolOf, poolVars, Holding, Checked
  <2>2. CallersApart'
    BY <1>4, <1>5, <2>1 DEF CallersApart, ApartFromIdle, ConnsTracked
  <2>3. ApartFromIdle'
    BY <1>4, <1>5, <2>1 DEF CallersApart, ApartFromIdle, IdleApart, ConnsTracked
  <2>4. IdleApart'
    BY <1>4, <1>5, <2>1 DEF IdleApart, ApartFromIdle
  <2>5. IdleOnce'
    BY <1>4, <1>5, <2>1 DEF IdleOnce
  <2>6. ConnsTracked'
    BY <1>4, <1>5, <2>1 DEF ConnsTracked, CallersApart, ApartFromIdle
  <2> QED BY <2>2, <2>3, <2>4, <2>5, <2>6 DEF ConnsInv, ExclusiveConn
<1>11. CASE PopIdle(a)
  <2> PICK p \in Pools : p = PoolOf(a)
    BY <1>3, <1>11 DEF PopIdle, DropRef, CanKeep, CallerShape, HandleShape, PoolOf,
        HandleCalls, SlotHeld
  <2>1. /\ drain' = drain /\ live' = live
         /\ conn' = [conn EXCEPT ![a] = Last(idle[p])] /\ conn[a] = NoConn
         /\ Len(idle[p]) > 0 /\ idle'[p] = Front(idle[p])
         /\ \A q \in Pools : q # p => idle'[q] = idle[q]
    BY <1>3, <1>5, <1>11 DEF PopIdle, DropRef, CanKeep, CallerShape, RegistryInv, PoolOf,
        poolVars, Holding, Checked
  <2>2. /\ Last(idle[p]) \in ToSet(idle[p])
         /\ ToSet(idle'[p]) = ToSet(idle[p]) \ {Last(idle[p])}
         /\ IsInjective(idle'[p])
    BY <1>4, <1>5, <2>1, PopLast DEF IdleOnce
  <2>3. CallersApart'
    BY <1>4, <1>5, <2>1, <2>2 DEF CallersApart, ApartFromIdle, ConnsTracked
  <2>4. ApartFromIdle'
    BY <1>4, <1>5, <2>1, <2>2 DEF CallersApart, ApartFromIdle, IdleApart, ConnsTracked
  <2>5. IdleApart'
    BY <1>4, <1>5, <2>1, <2>2 DEF IdleApart, ApartFromIdle
  <2>6. IdleOnce'
    BY <1>4, <1>5, <2>1, <2>2 DEF IdleOnce
  <2>7. ConnsTracked'
    BY <1>4, <1>5, <2>1, <2>2 DEF ConnsTracked, CallersApart, ApartFromIdle
  <2> QED BY <2>3, <2>4, <2>5, <2>6, <2>7 DEF ConnsInv, ExclusiveConn
<1>12. CASE ReleaseToIdle(a)
  <2> PICK p \in Pools : p = PoolOf(a)
    BY <1>3, <1>12 DEF ReleaseToIdle, DropRef, CanKeep, CallerShape, HandleShape, PoolOf,
        HandleCalls, SlotHeld
  <2>1. /\ drain' = drain /\ live' = live
         /\ conn' = [conn EXCEPT ![a] = NoConn] /\ conn[a] \in Conns
         /\ idle'[p] = Append(idle[p], conn[a])
         /\ \A q \in Pools : q # p => idle'[q] = idle[q]
    BY <1>3, <1>5, <1>12 DEF ReleaseToIdle, DropRef, CanKeep, CallerShape, RegistryInv,
        PoolOf, poolVars, Holding, Checked
  <2>2. /\ ToSet(idle'[p]) = ToSet(idle[p]) \cup {conn[a]}
         /\ IsInjective(idle'[p])
    BY <1>4, <1>5, <2>1, PushLast DEF IdleOnce, ApartFromIdle
  <2>3. CallersApart'
    BY <1>4, <1>5, <2>1, <2>2 DEF CallersApart, ApartFromIdle, ConnsTracked
  <2>4. ApartFromIdle'
    <3>1. SUFFICES ASSUME NEW q \in Pools, NEW c \in ToSet(idle'[q]), NEW b \in Callers
                   PROVE  conn'[b] # c /\ c \notin drain'[b]
      BY DEF ApartFromIdle
    <3>2. CASE c \in ToSet(idle[q])
      BY <1>4, <1>5, <2>1, <3>2 DEF ApartFromIdle
    <3>3. CASE c = conn[a]
      BY <1>4, <1>5, <2>1, <3>3 DEF CallersApart
    <3> QED BY <2>1, <2>2, <3>2, <3>3
  <2>5. IdleApart'
    <3>1. SUFFICES ASSUME NEW q \in Pools, NEW r \in Pools, NEW c \in ToSet(idle'[q]),
                          c \in ToSet(idle'[r])
                   PROVE  q = r
      BY DEF IdleApart
    <3>2. \A s \in Pools : conn[a] \notin ToSet(idle[s])
      BY <1>4 DEF ApartFromIdle
    <3>3. CASE q # p /\ r # p
      BY <1>4, <2>1, <3>1, <3>3 DEF IdleApart
    <3>4. CASE q = p /\ r # p
      BY <1>4, <2>1, <2>2, <3>1, <3>2, <3>4 DEF IdleApart
    <3>5. CASE q # p /\ r = p
      BY <1>4, <2>1, <2>2, <3>1, <3>2, <3>5 DEF IdleApart
    <3> QED BY <3>3, <3>4, <3>5
  <2>6. IdleOnce'
    BY <1>4, <1>5, <2>1, <2>2 DEF IdleOnce
  <2>7. ConnsTracked'
    BY <1>4, <1>5, <2>1, <2>2 DEF ConnsTracked, CallersApart, ApartFromIdle
  <2> QED BY <2>3, <2>4, <2>5, <2>6, <2>7 DEF ConnsInv, ExclusiveConn
<1>13. CASE Discard(a)
  <2>1. /\ conn' = [conn EXCEPT ![a] = NoConn] /\ conn[a] \in Conns
         /\ drain' = drain /\ idle' = idle
         /\ live' = live \ {conn[a]}
    BY <1>3, <1>5, <1>13 DEF Discard, DropRef, CanKeep, CallerShape, RegistryInv, PoolOf,
        poolVars, Holding, Checked
  <2>2. CallersApart'
    BY <1>4, <1>5, <2>1 DEF CallersApart, ApartFromIdle, ConnsTracked
  <2>3. ApartFromIdle'
    BY <1>4, <1>5, <2>1 DEF CallersApart, ApartFromIdle, IdleApart, ConnsTracked
  <2>4. IdleApart'
    BY <1>4, <1>5, <2>1 DEF IdleApart, ApartFromIdle
  <2>5. IdleOnce'
    BY <1>4, <1>5, <2>1 DEF IdleOnce
  <2>6. ConnsTracked'
    BY <1>4, <1>5, <2>1 DEF ConnsTracked, CallersApart, ApartFromIdle
  <2> QED BY <2>2, <2>3, <2>4, <2>5, <2>6 DEF ConnsInv, ExclusiveConn
<1>14. QED BY <1>1, <1>2, <1>6, <1>7, <1>8, <1>9, <1>10, <1>11, <1>12, <1>13 DEF Call,
    Connecting, Closing, Using, vars, poolVars, callVars, ShareOpenPool, DropRef, Finish,
    NewHandle, ConnectShared, ConnectMiss, CloseHandle, CallOnClosed, AcquireStart,
    LockDial, RecheckShared, RecheckMiss, DialPoolFail, DropSharedRef, CloseDone, TakeSlot,
    FindClosed, FindEmpty, DialConnFail, OperationReturns, BeginOk, TxEnds,
    ReleaseToDiscard, FreeSlot

-----------------------------------------------------------------------------
\* A finite set grows by one when an element that it lacks is added.
LEMMA OneMore ==
  ASSUME NEW S, IsFiniteSet(S), NEW x, x \notin S
  PROVE  /\ IsFiniteSet(S \cup {x})
         /\ Cardinality(S \cup {x}) = Cardinality(S) + 1
<1>1. IsFiniteSet(S \cup {x}) /\ Cardinality(S \cup {x}) = IF x \in S THEN Cardinality(S)
                                                           ELSE Cardinality(S) + 1
  BY FS_AddElement, Zenon
<1> QED BY <1>1

\* The semaphore: Slots and Out change only with sem and idle, and only by the
\* caller that moves.
LEMMA SlotsStep == ASSUME IInv, Next PROVE SlotsInv'
<1> DEFINE Same == /\ sem' = sem /\ idle' = idle
                   /\ \A q \in Pools : Slots(q)' = Slots(q) /\ Out(q)' = Out(q)
           SameBut(p) == \A q \in Pools : q # p =>
                           /\ sem'[q] = sem[q] /\ idle'[q] = idle[q]
                           /\ Slots(q)' = Slots(q) /\ Out(q)' = Out(q)
<1>1. PICK a \in Callers : Call(a) \/ Connecting(a) \/ Closing(a) \/ Using(a)
  BY DEF Next
<1>2. TypeOK /\ CallerShape /\ HandleShape /\ RegistryInv /\ SlotsInv
  BY DEF IInv, Shape
<1>3. \A q \in Pools : /\ sem[q] = Cardinality(Slots(q)) /\ sem[q] <= MaxOpen
                       /\ IsFiniteSet(Slots(q)) /\ IsFiniteSet(Out(q))
                       /\ Out(q) \subseteq Slots(q)
                       /\ Cardinality(Out(q)) \in Nat
                       /\ Cardinality(Slots(q)) \in Nat
                       /\ Len(idle[q]) + Cardinality(Out(q)) <= MaxOpen
                       /\ idle[q] \in Seq(Conns) /\ Len(idle[q]) \in Nat
  <2>1. \A q \in Pools : Out(q) \subseteq Slots(q)
    BY DEF Out, Slots, Checked, SlotHeld
  <2>2. \A q \in Pools : IsFiniteSet(Slots(q)) /\ IsFiniteSet(Out(q))
    BY <1>2, <2>1, FS_Subset DEF SlotsInv
  <2> QED BY <1>2, <2>1, <2>2, FS_CardinalityType DEF SlotsInv, SlotsCounted, PoolBound,
      TypeOK
<1>4. CASE Same
  BY <1>2, <1>4 DEF SlotsInv, SlotsCounted, PoolBound
<1>5. ASSUME NEW p \in Pools, SameBut(p),
             sem'[p] = Cardinality(Slots(p)'), sem'[p] <= MaxOpen,
             IsFiniteSet(Slots(p)'),
             Len(idle'[p]) + Cardinality(Out(p)') <= MaxOpen
      PROVE  SlotsInv'
  BY <1>2, <1>5 DEF SlotsInv, SlotsCounted, PoolBound
<1> HIDE DEF Same, SameBut
<1>6. ASSUME NEW h \in Handles, ConnectShared(a, h)
      PROVE  Same
  BY <1>2, <1>6 DEF Same, ConnectShared, Slots, Out, PoolOf, Goto, Finish, DropRef,
      NewHandle, ShareOpenPool, TypeOK, CallerShape, HandleShape, HandleCalls, SlotHeld,
      Checked, Outcomes, poolVars, callVars
<1>7. ASSUME ConnectMiss(a) PROVE Same
  BY <1>2, <1>7 DEF Same, ConnectMiss, Slots, Out, PoolOf, Goto, Finish, DropRef,
      NewHandle, ShareOpenPool, TypeOK, CallerShape, HandleShape, HandleCalls, SlotHeld,
      Checked, Outcomes, poolVars, callVars
<1>8. ASSUME NEW h \in Handles, CloseHandle(a, h)
      PROVE  Same
  BY <1>2, <1>8 DEF Same, CloseHandle, Slots, Out, PoolOf, Goto, Finish, DropRef,
      NewHandle, ShareOpenPool, TypeOK, CallerShape, HandleShape, HandleCalls, SlotHeld,
      Checked, Outcomes, poolVars, callVars
<1>9. ASSUME NEW h \in Handles, CallOnClosed(a, h)
      PROVE  Same
  BY <1>2, <1>9 DEF Same, CallOnClosed, Slots, Out, PoolOf, Goto, Finish, DropRef,
      NewHandle, ShareOpenPool, TypeOK, CallerShape, HandleShape, HandleCalls, SlotHeld,
      Checked, Outcomes, poolVars, callVars, vars
<1>10. ASSUME NEW h \in Handles, AcquireStart(a, h)
      PROVE  Same
  BY <1>2, <1>10 DEF Same, AcquireStart, Slots, Out, PoolOf, Goto, Finish, DropRef,
      NewHandle, ShareOpenPool, TypeOK, CallerShape, HandleShape, HandleCalls, SlotHeld,
      Checked, Outcomes, poolVars, callVars
<1>11. ASSUME LockDial(a) PROVE Same
  BY <1>2, <1>11 DEF Same, LockDial, Slots, Out, PoolOf, Goto, Finish, DropRef, NewHandle,
      ShareOpenPool, TypeOK, CallerShape, HandleShape, HandleCalls, SlotHeld, Checked,
      Outcomes, poolVars, callVars
<1>12. ASSUME NEW h \in Handles, RecheckShared(a, h)
      PROVE  Same
  BY <1>2, <1>12 DEF Same, RecheckShared, Slots, Out, PoolOf, Goto, Finish, DropRef,
      NewHandle, ShareOpenPool, TypeOK, CallerShape, HandleShape, HandleCalls, SlotHeld,
      Checked, Outcomes, poolVars, callVars
<1>13. ASSUME RecheckMiss(a) PROVE Same
  BY <1>2, <1>13 DEF Same, RecheckMiss, Slots, Out, PoolOf, Goto, Finish, DropRef,
      NewHandle, ShareOpenPool, TypeOK, CallerShape, HandleShape, HandleCalls, SlotHeld,
      Checked, Outcomes, poolVars, callVars
<1>14. ASSUME DialPoolFail(a) PROVE Same
  BY <1>2, <1>14 DEF Same, DialPoolFail, Slots, Out, PoolOf, Goto, Finish, DropRef,
      NewHandle, ShareOpenPool, TypeOK, CallerShape, HandleShape, HandleCalls, SlotHeld,
      Checked, Outcomes, poolVars, callVars
<1>15. ASSUME NEW c \in Conns, DialPoolOk(a, c)
      PROVE  Same
  BY <1>2, <1>15 DEF Same, DialPoolOk, Slots, Out, PoolOf, Goto, Finish, DropRef,
      NewHandle, ShareOpenPool, TypeOK, CallerShape, HandleShape, HandleCalls, SlotHeld,
      Checked, Outcomes, poolVars, callVars
<1>16. ASSUME DropSharedRef(a) PROVE Same
  BY <1>2, <1>16 DEF Same, DropSharedRef, Slots, Out, PoolOf, Goto, Finish, DropRef,
      NewHandle, ShareOpenPool, TypeOK, CallerShape, HandleShape, HandleCalls, SlotHeld,
      Checked, Outcomes, poolVars, callVars
<1>17. ASSUME NEW c \in Conns, CloseIdleConn(a, c)
      PROVE  Same
  BY <1>2, <1>17 DEF Same, CloseIdleConn, Slots, Out, PoolOf, Goto, Finish, DropRef,
      NewHandle, ShareOpenPool, TypeOK, CallerShape, HandleShape, HandleCalls, SlotHeld,
      Checked, Outcomes, poolVars, callVars
<1>18. ASSUME CloseDone(a) PROVE Same
  BY <1>2, <1>18 DEF Same, CloseDone, Slots, Out, PoolOf, Goto, Finish, DropRef, NewHandle,
      ShareOpenPool, TypeOK, CallerShape, HandleShape, HandleCalls, SlotHeld, Checked,
      Outcomes, poolVars, callVars
<1>19. ASSUME FindClosed(a) PROVE Same
  BY <1>2, <1>19 DEF Same, FindClosed, Slots, Out, PoolOf, Goto, Finish, DropRef,
      NewHandle, ShareOpenPool, TypeOK, CallerShape, HandleShape, HandleCalls, SlotHeld,
      Checked, Outcomes, poolVars, callVars
<1>20. ASSUME NEW c \in Conns, DialConnOk(a, c)
      PROVE  Same
  BY <1>2, <1>20 DEF Same, DialConnOk, Slots, Out, PoolOf, Goto, Finish, DropRef,
      NewHandle, ShareOpenPool, TypeOK, CallerShape, HandleShape, HandleCalls, SlotHeld,
      Checked, Outcomes, poolVars, callVars
<1>21. ASSUME NEW l \in Outcomes, OperationReturns(a, l)
      PROVE  Same
  BY <1>2, <1>21 DEF Same, OperationReturns, Slots, Out, PoolOf, Goto, Finish, DropRef,
      NewHandle, ShareOpenPool, TypeOK, CallerShape, HandleShape, HandleCalls, SlotHeld,
      Checked, Outcomes, poolVars, callVars
<1>22. ASSUME BeginOk(a) PROVE Same
  BY <1>2, <1>22 DEF Same, BeginOk, Slots, Out, PoolOf, Goto, Finish, DropRef, NewHandle,
      ShareOpenPool, TypeOK, CallerShape, HandleShape, HandleCalls, SlotHeld, Checked,
      Outcomes, poolVars, callVars
<1>23. ASSUME NEW l \in Outcomes, TxEnds(a, l)
      PROVE  Same
  BY <1>2, <1>23 DEF Same, TxEnds, Slots, Out, PoolOf, Goto, Finish, DropRef, NewHandle,
      ShareOpenPool, TypeOK, CallerShape, HandleShape, HandleCalls, SlotHeld, Checked,
      Outcomes, poolVars, callVars
<1>24. ASSUME ReleaseToDiscard(a) PROVE Same
  BY <1>2, <1>24 DEF Same, ReleaseToDiscard, Slots, Out, PoolOf, Goto, Finish, DropRef,
      NewHandle, ShareOpenPool, TypeOK, CallerShape, HandleShape, HandleCalls, SlotHeld,
      Checked, Outcomes, poolVars, callVars
<1>25. ASSUME NEW h \in Handles, NEW p \in Pools, Register(a, h, p)
      PROVE  SlotsInv'
  <2>1. Slots(p)' = {} /\ Out(p)' = {} /\ Slots(p) = {} /\ sem' = sem
    BY <1>2, <1>25 DEF Register, Slots, Out, PoolOf, Goto, Finish, DropRef, NewHandle,
        CanKeep, TypeOK, CallerShape, HandleShape, HandleCalls, SlotHeld, Checked, poolVars
  <2>2. Len(idle'[p]) = 1
    BY <1>2, <1>3, <1>25 DEF Register, CanKeep, TypeOK, CallerShape, Holding, Checked,
        poolVars, PoolOf, Front
  <2>3. SameBut(p)
    BY <1>2, <1>25 DEF SameBut, Register, Slots, Out, PoolOf, Goto, Finish, DropRef,
        NewHandle, CanKeep, TypeOK, CallerShape, HandleShape, HandleCalls, SlotHeld,
        Checked, poolVars
  <2>4. IsFiniteSet(Slots(p)') /\ Cardinality(Slots(p)') = 0 /\ Cardinality(Out(p)') = 0 /\ Cardinality(Slots(p)) = 0
    BY <2>1, FS_EmptySet
  <2>5. Len(idle'[p]) + Cardinality(Out(p)') <= MaxOpen
    BY <1>3, <2>1, <2>2, <2>4, MaxOpenAssumption
  <2>6. sem'[p] = Cardinality(Slots(p)') /\ sem'[p] <= MaxOpen /\ IsFiniteSet(Slots(p)')
    BY <1>3, <2>1, <2>2, <2>4, MaxOpenAssumption
  <2> QED BY <1>5, <2>3, <2>5, <2>6
<1>26. ASSUME DropLastRef(a) PROVE SlotsInv'
  <2> PICK p \in Pools : p = PoolOf(a)
    BY <1>2, <1>26 DEF DropLastRef, DropRef, CanKeep, CallerShape, HandleShape, PoolOf,
        HandleCalls, SlotHeld
  <2>1. Slots(p)' = Slots(p) /\ Out(p)' = Out(p) /\ sem' = sem
    BY <1>2, <1>26 DEF DropLastRef, Slots, Out, PoolOf, Goto, Finish, DropRef, NewHandle,
        CanKeep, TypeOK, CallerShape, HandleShape, HandleCalls, SlotHeld, Checked, poolVars
  <2>2. Len(idle'[p]) = 0
    BY <1>2, <1>3, <1>26 DEF DropLastRef, CanKeep, TypeOK, CallerShape, Holding, Checked,
        poolVars, PoolOf, Front
  <2>3. SameBut(p)
    BY <1>2, <1>26 DEF SameBut, DropLastRef, Slots, Out, PoolOf, Goto, Finish, DropRef,
        NewHandle, CanKeep, TypeOK, CallerShape, HandleShape, HandleCalls, SlotHeld,
        Checked, poolVars
  <2> QED BY <1>3, <1>5, <2>1, <2>2, <2>3, FS_RemoveElement, MaxOpenAssumption
<1>27. ASSUME TakeSlot(a) PROVE SlotsInv'
  <2> PICK p \in Pools : p = PoolOf(a)
    BY <1>2, <1>27 DEF TakeSlot, DropRef, CanKeep, CallerShape, HandleShape, PoolOf,
        HandleCalls, SlotHeld
  <2>1. Slots(p)' = Slots(p) \cup {a} /\ a \notin Slots(p) /\ Out(p)' = Out(p)
    BY <1>2, <1>27 DEF TakeSlot, Slots, Out, PoolOf, Goto, Finish, DropRef, NewHandle,
        CanKeep, TypeOK, CallerShape, HandleShape, HandleCalls, SlotHeld, Checked, poolVars
  <2>2. sem'[p] = sem[p] + 1 /\ sem[p] < MaxOpen /\ idle' = idle
    BY <1>2, <1>3, <1>27 DEF TakeSlot, CanKeep, TypeOK, CallerShape, Holding, Checked,
        poolVars, PoolOf, Front
  <2>3. SameBut(p)
    BY <1>2, <1>27 DEF SameBut, TakeSlot, Slots, Out, PoolOf, Goto, Finish, DropRef,
        NewHandle, CanKeep, TypeOK, CallerShape, HandleShape, HandleCalls, SlotHeld,
        Checked, poolVars
  <2>4. IsFiniteSet(Slots(p)') /\ Cardinality(Slots(p)') = Cardinality(Slots(p)) + 1
    <3>1. /\ IsFiniteSet(Slots(p) \cup {a})
          /\ Cardinality(Slots(p) \cup {a}) = Cardinality(Slots(p)) + 1
      BY <1>3, <2>1, OneMore, Zenon
    <3> QED BY <2>1, <3>1, Zenon
  <2>5. Len(idle'[p]) + Cardinality(Out(p)') <= MaxOpen
    BY <1>3, <2>1, <2>2, <2>4, MaxOpenAssumption
  <2>6. sem'[p] = Cardinality(Slots(p)') /\ sem'[p] <= MaxOpen /\ IsFiniteSet(Slots(p)')
    BY <1>3, <2>1, <2>2, <2>4, MaxOpenAssumption
  <2> QED BY <1>5, <2>3, <2>5, <2>6
<1>28. ASSUME PopIdle(a) PROVE SlotsInv'
  <2> PICK p \in Pools : p = PoolOf(a)
    BY <1>2, <1>28 DEF PopIdle, DropRef, CanKeep, CallerShape, HandleShape, PoolOf,
        HandleCalls, SlotHeld
  <2>1. Slots(p)' = Slots(p) /\ Out(p)' = Out(p) \cup {a} /\ a \notin Out(p)
    BY <1>2, <1>28 DEF PopIdle, Slots, Out, PoolOf, Goto, Finish, DropRef, NewHandle,
        CanKeep, TypeOK, CallerShape, HandleShape, HandleCalls, SlotHeld, Checked, poolVars
  <2>2. sem' = sem /\ Len(idle[p]) > 0 /\ Len(idle'[p]) = Len(idle[p]) - 1
    BY <1>2, <1>3, <1>28 DEF PopIdle, CanKeep, TypeOK, CallerShape, Holding, Checked,
        poolVars, PoolOf, Front
  <2>3. SameBut(p)
    BY <1>2, <1>28 DEF SameBut, PopIdle, Slots, Out, PoolOf, Goto, Finish, DropRef,
        NewHandle, CanKeep, TypeOK, CallerShape, HandleShape, HandleCalls, SlotHeld,
        Checked, poolVars
  <2>4. Cardinality(Out(p)') = Cardinality(Out(p)) + 1
    <3>1. Cardinality(Out(p) \cup {a}) = Cardinality(Out(p)) + 1
      BY <1>3, <2>1, OneMore, Zenon
    <3> QED BY <2>1, <3>1, Zenon
  <2>5. Len(idle'[p]) + Cardinality(Out(p)') <= MaxOpen
    BY <1>3, <2>1, <2>2, <2>4, MaxOpenAssumption
  <2>6. sem'[p] = Cardinality(Slots(p)') /\ sem'[p] <= MaxOpen /\ IsFiniteSet(Slots(p)')
    BY <1>3, <2>1, <2>2, <2>4, MaxOpenAssumption
  <2> QED BY <1>5, <2>3, <2>5, <2>6
<1>29. ASSUME FindEmpty(a) PROVE SlotsInv'
  <2> PICK p \in Pools : p = PoolOf(a)
    BY <1>2, <1>29 DEF FindEmpty, DropRef, CanKeep, CallerShape, HandleShape, PoolOf,
        HandleCalls, SlotHeld
  <2>1. Slots(p)' = Slots(p) /\ Out(p)' = Out(p) \cup {a} /\ a \in Slots(p)
    BY <1>2, <1>29 DEF FindEmpty, Slots, Out, PoolOf, Goto, Finish, DropRef, NewHandle,
        CanKeep, TypeOK, CallerShape, HandleShape, HandleCalls, SlotHeld, Checked, poolVars
  <2>2. sem' = sem /\ idle' = idle /\ Len(idle[p]) = 0
    BY <1>2, <1>3, <1>29 DEF FindEmpty, CanKeep, TypeOK, CallerShape, Holding, Checked,
        poolVars, PoolOf, Front
  <2>3. SameBut(p)
    BY <1>2, <1>29 DEF SameBut, FindEmpty, Slots, Out, PoolOf, Goto, Finish, DropRef,
        NewHandle, CanKeep, TypeOK, CallerShape, HandleShape, HandleCalls, SlotHeld,
        Checked, poolVars
  <2>4. Cardinality(Out(p)') \in Nat /\ Cardinality(Out(p)') <= Cardinality(Slots(p))
    <3>1. Out(p)' \in SUBSET Slots(p)
      BY <1>3, <2>1
    <3>2. IsFiniteSet(Out(p)') /\ Cardinality(Out(p)') <= Cardinality(Slots(p))
      BY <1>3, <3>1, FS_Subset
    <3> QED BY <3>2, FS_CardinalityType
  <2>5. Len(idle'[p]) + Cardinality(Out(p)') <= MaxOpen
    BY <1>3, <2>2, <2>4, MaxOpenAssumption
  <2>6. sem'[p] = Cardinality(Slots(p)') /\ sem'[p] <= MaxOpen /\ IsFiniteSet(Slots(p)')
    BY <1>3, <2>1, <2>2, <2>4, MaxOpenAssumption
  <2> QED BY <1>5, <2>3, <2>5, <2>6
<1>30. ASSUME DialConnFail(a) PROVE SlotsInv'
  <2> PICK p \in Pools : p = PoolOf(a)
    BY <1>2, <1>30 DEF DialConnFail, DropRef, CanKeep, CallerShape, HandleShape, PoolOf,
        HandleCalls, SlotHeld
  <2>1. Slots(p)' = Slots(p) /\ Out(p)' = Out(p) \ {a} /\ a \in Out(p)
    BY <1>2, <1>30 DEF DialConnFail, Slots, Out, PoolOf, Goto, Finish, DropRef, NewHandle,
        CanKeep, TypeOK, CallerShape, HandleShape, HandleCalls, SlotHeld, Checked, poolVars
  <2>2. sem' = sem /\ idle' = idle
    BY <1>2, <1>3, <1>30 DEF DialConnFail, CanKeep, TypeOK, CallerShape, Holding, Checked,
        poolVars, PoolOf, Front
  <2>3. SameBut(p)
    BY <1>2, <1>30 DEF SameBut, DialConnFail, Slots, Out, PoolOf, Goto, Finish, DropRef,
        NewHandle, CanKeep, TypeOK, CallerShape, HandleShape, HandleCalls, SlotHeld,
        Checked, poolVars
  <2>4. Cardinality(Out(p)') = Cardinality(Out(p)) - 1
    BY <1>3, <2>1, FS_RemoveElement
  <2>5. Len(idle'[p]) + Cardinality(Out(p)') <= MaxOpen
    BY <1>3, <2>1, <2>2, <2>4, MaxOpenAssumption
  <2>6. sem'[p] = Cardinality(Slots(p)') /\ sem'[p] <= MaxOpen /\ IsFiniteSet(Slots(p)')
    BY <1>3, <2>1, <2>2, <2>4, MaxOpenAssumption
  <2> QED BY <1>5, <2>3, <2>5, <2>6
<1>31. ASSUME ReleaseToIdle(a) PROVE SlotsInv'
  <2> PICK p \in Pools : p = PoolOf(a)
    BY <1>2, <1>31 DEF ReleaseToIdle, DropRef, CanKeep, CallerShape, HandleShape, PoolOf,
        HandleCalls, SlotHeld
  <2>1. Slots(p)' = Slots(p) /\ Out(p)' = Out(p) \ {a} /\ a \in Out(p)
    BY <1>2, <1>31 DEF ReleaseToIdle, Slots, Out, PoolOf, Goto, Finish, DropRef, NewHandle,
        CanKeep, TypeOK, CallerShape, HandleShape, HandleCalls, SlotHeld, Checked, poolVars
  <2>2. sem' = sem /\ Len(idle'[p]) = Len(idle[p]) + 1
    BY <1>2, <1>3, <1>31 DEF ReleaseToIdle, CanKeep, TypeOK, CallerShape, Holding, Checked,
        poolVars, PoolOf, Front
  <2>3. SameBut(p)
    BY <1>2, <1>31 DEF SameBut, ReleaseToIdle, Slots, Out, PoolOf, Goto, Finish, DropRef,
        NewHandle, CanKeep, TypeOK, CallerShape, HandleShape, HandleCalls, SlotHeld,
        Checked, poolVars
  <2>4. Cardinality(Out(p)') = Cardinality(Out(p)) - 1
    BY <1>3, <2>1, FS_RemoveElement
  <2>5. Len(idle'[p]) + Cardinality(Out(p)') <= MaxOpen
    BY <1>3, <2>1, <2>2, <2>4, MaxOpenAssumption
  <2>6. sem'[p] = Cardinality(Slots(p)') /\ sem'[p] <= MaxOpen /\ IsFiniteSet(Slots(p)')
    BY <1>3, <2>1, <2>2, <2>4, MaxOpenAssumption
  <2> QED BY <1>5, <2>3, <2>5, <2>6
<1>32. ASSUME Discard(a) PROVE SlotsInv'
  <2> PICK p \in Pools : p = PoolOf(a)
    BY <1>2, <1>32 DEF Discard, DropRef, CanKeep, CallerShape, HandleShape, PoolOf,
        HandleCalls, SlotHeld
  <2>1. Slots(p)' = Slots(p) /\ Out(p)' = Out(p) \ {a} /\ a \in Out(p)
    BY <1>2, <1>32 DEF Discard, Slots, Out, PoolOf, Goto, Finish, DropRef, NewHandle,
        CanKeep, TypeOK, CallerShape, HandleShape, HandleCalls, SlotHeld, Checked, poolVars
  <2>2. sem' = sem /\ idle' = idle
    BY <1>2, <1>3, <1>32 DEF Discard, CanKeep, TypeOK, CallerShape, Holding, Checked,
        poolVars, PoolOf, Front
  <2>3. SameBut(p)
    BY <1>2, <1>32 DEF SameBut, Discard, Slots, Out, PoolOf, Goto, Finish, DropRef,
        NewHandle, CanKeep, TypeOK, CallerShape, HandleShape, HandleCalls, SlotHeld,
        Checked, poolVars
  <2>4. Cardinality(Out(p)') = Cardinality(Out(p)) - 1
    BY <1>3, <2>1, FS_RemoveElement
  <2>5. Len(idle'[p]) + Cardinality(Out(p)') <= MaxOpen
    BY <1>3, <2>1, <2>2, <2>4, MaxOpenAssumption
  <2>6. sem'[p] = Cardinality(Slots(p)') /\ sem'[p] <= MaxOpen /\ IsFiniteSet(Slots(p)')
    BY <1>3, <2>1, <2>2, <2>4, MaxOpenAssumption
  <2> QED BY <1>5, <2>3, <2>5, <2>6
<1>33. ASSUME FreeSlot(a) PROVE SlotsInv'
  <2> PICK p \in Pools : p = PoolOf(a)
    BY <1>2, <1>33 DEF FreeSlot, DropRef, CanKeep, CallerShape, HandleShape, PoolOf,
        HandleCalls, SlotHeld
  <2>1. Slots(p)' = Slots(p) \ {a} /\ a \in Slots(p) /\ Out(p)' = Out(p)
    BY <1>2, <1>33 DEF FreeSlot, Slots, Out, PoolOf, Goto, Finish, DropRef, NewHandle,
        CanKeep, TypeOK, CallerShape, HandleShape, HandleCalls, SlotHeld, Checked, poolVars
  <2>2. sem'[p] = sem[p] - 1 /\ idle' = idle
    BY <1>2, <1>3, <1>33 DEF FreeSlot, CanKeep, TypeOK, CallerShape, Holding, Checked,
        poolVars, PoolOf, Front
  <2>3. SameBut(p)
    BY <1>2, <1>33 DEF SameBut, FreeSlot, Slots, Out, PoolOf, Goto, Finish, DropRef,
        NewHandle, CanKeep, TypeOK, CallerShape, HandleShape, HandleCalls, SlotHeld,
        Checked, poolVars
  <2>4. IsFiniteSet(Slots(p)') /\ Cardinality(Slots(p)') = Cardinality(Slots(p)) - 1
    <3>1. /\ IsFiniteSet(Slots(p) \ {a})
          /\ Cardinality(Slots(p) \ {a}) = Cardinality(Slots(p)) - 1
      BY <1>3, <2>1, FS_RemoveElement
    <3> QED BY <2>1, <3>1, Zenon
  <2>5. Len(idle'[p]) + Cardinality(Out(p)') <= MaxOpen
    BY <1>3, <2>1, <2>2, <2>4, MaxOpenAssumption
  <2>6. sem'[p] = Cardinality(Slots(p)') /\ sem'[p] <= MaxOpen /\ IsFiniteSet(Slots(p)')
    BY <1>3, <2>1, <2>2, <2>4, MaxOpenAssumption
  <2> QED BY <1>5, <2>3, <2>5, <2>6
<1>34. QED BY <1>1, <1>4, <1>6, <1>7, <1>8, <1>9, <1>10, <1>11, <1>12, <1>13, <1>14, <1>15,
    <1>16, <1>17, <1>18, <1>19, <1>20, <1>21, <1>22, <1>23, <1>24, <1>25, <1>26, <1>27,
    <1>28, <1>29, <1>30, <1>31, <1>32, <1>33 DEF Call, Connecting, Closing, Using

-----------------------------------------------------------------------------
\* Handles and registry: refs moves with the handles it counts, and reaches
\* zero exactly when no open handle is left.
LEMMA RegistryStep == ASSUME IInv, Next PROVE RegistryInv'
<1> DEFINE DialPcs == {"dialPool", "register"}
           Same == /\ UNCHANGED <<registered, status, refs, idle, hpool, hstate>>
                   /\ \A b \in Callers : pc'[b] \in DialPcs => pc[b] \in DialPcs
<1>1. PICK a \in Callers : Call(a) \/ Connecting(a) \/ Closing(a) \/ Using(a)
  BY DEF Next
<1>2. TypeOK /\ CallerShape /\ HandleShape
  BY DEF IInv, Shape
<1>3. /\ \A b \in Callers : pc[b] \in DialPcs => registered = NoPool
      /\ \A q \in Pools : status[q] = "open" <=> registered = q
      /\ \A g \in Handles : hstate[g] \in {"open", "closing"} => status[hpool[g]] = "open"
      /\ \A q \in Pools : status[q] # "open" => idle[q] = <<>>
      /\ \A q \in Pools : /\ refs[q] = Cardinality(Counted(q))
                          /\ IsFiniteSet(Counted(q))
                          /\ Cardinality(Counted(q)) \in Nat
  BY FS_CardinalityType DEF IInv, RegistryInv, RefsCounted
<1>4. CASE Same
  <2>1. \A q \in Pools : Counted(q)' = Counted(q)
    BY <1>4 DEF Counted
  <2> QED BY <1>3, <1>4, <2>1 DEF RegistryInv, RefsCounted
<1> HIDE DEF Same
<1>5. ASSUME ConnectMiss(a) PROVE Same
  BY <1>2, <1>5 DEF Same, ConnectMiss, Goto, Finish, TypeOK, Outcomes, poolVars
<1>6. ASSUME NEW h \in Handles, CallOnClosed(a, h)
      PROVE  Same
  BY <1>2, <1>6 DEF Same, CallOnClosed, Goto, Finish, TypeOK, Outcomes, poolVars, vars
<1>7. ASSUME NEW h \in Handles, AcquireStart(a, h)
      PROVE  Same
  BY <1>2, <1>7 DEF Same, AcquireStart, Goto, Finish, TypeOK, Outcomes, poolVars
<1>8. ASSUME LockDial(a) PROVE Same
  BY <1>2, <1>8 DEF Same, LockDial, Goto, Finish, TypeOK, Outcomes, poolVars
<1>9. ASSUME DialPoolFail(a) PROVE Same
  BY <1>2, <1>9 DEF Same, DialPoolFail, Goto, Finish, TypeOK, Outcomes, poolVars
<1>10. ASSUME NEW c \in Conns, DialPoolOk(a, c)
      PROVE  Same
  BY <1>2, <1>10 DEF Same, DialPoolOk, Goto, Finish, TypeOK, Outcomes, poolVars
<1>11. ASSUME NEW c \in Conns, CloseIdleConn(a, c)
      PROVE  Same
  BY <1>2, <1>11 DEF Same, CloseIdleConn, Goto, Finish, TypeOK, Outcomes, poolVars
<1>12. ASSUME CloseDone(a) PROVE Same
  BY <1>2, <1>12 DEF Same, CloseDone, Goto, Finish, TypeOK, Outcomes, poolVars
<1>13. ASSUME TakeSlot(a) PROVE Same
  BY <1>2, <1>13 DEF Same, TakeSlot, Goto, Finish, TypeOK, Outcomes, poolVars
<1>14. ASSUME FindClosed(a) PROVE Same
  BY <1>2, <1>14 DEF Same, FindClosed, Goto, Finish, TypeOK, Outcomes, poolVars
<1>15. ASSUME FindEmpty(a) PROVE Same
  BY <1>2, <1>15 DEF Same, FindEmpty, Goto, Finish, TypeOK, Outcomes, poolVars
<1>16. ASSUME NEW c \in Conns, DialConnOk(a, c)
      PROVE  Same
  BY <1>2, <1>16 DEF Same, DialConnOk, Goto, Finish, TypeOK, Outcomes, poolVars
<1>17. ASSUME DialConnFail(a) PROVE Same
  BY <1>2, <1>17 DEF Same, DialConnFail, Goto, Finish, TypeOK, Outcomes, poolVars
<1>18. ASSUME NEW l \in Outcomes, OperationReturns(a, l)
      PROVE  Same
  BY <1>2, <1>18 DEF Same, OperationReturns, Goto, Finish, TypeOK, Outcomes, poolVars
<1>19. ASSUME BeginOk(a) PROVE Same
  BY <1>2, <1>19 DEF Same, BeginOk, Goto, Finish, TypeOK, Outcomes, poolVars
<1>20. ASSUME NEW l \in Outcomes, TxEnds(a, l)
      PROVE  Same
  BY <1>2, <1>20 DEF Same, TxEnds, Goto, Finish, TypeOK, Outcomes, poolVars
<1>21. ASSUME ReleaseToDiscard(a) PROVE Same
  BY <1>2, <1>21 DEF Same, ReleaseToDiscard, Goto, Finish, TypeOK, Outcomes, poolVars
<1>22. ASSUME Discard(a) PROVE Same
  BY <1>2, <1>22 DEF Same, Discard, Goto, Finish, TypeOK, Outcomes, poolVars
<1>23. ASSUME FreeSlot(a) PROVE Same
  BY <1>2, <1>23 DEF Same, FreeSlot, Goto, Finish, TypeOK, Outcomes, poolVars
<1>24. ASSUME NEW h \in Handles, ConnectShared(a, h)
      PROVE  RegistryInv'
  <2> PICK p \in Pools : p = registered
    BY <1>2, <1>3, <1>24 DEF ConnectShared, TypeOK, CallerShape, HandleShape, HandleCalls,
        SlotHeld, PoolOf, Goto, Finish, DropRef, NewHandle, ShareOpenPool, Sharable,
        CanKeep, poolVars, callVars
  <2>1. Counted(p)' = Counted(p) \cup {h} /\ h \notin Counted(p) /\ refs'[p] = refs[p] + 1
    BY <1>2, <1>3, <1>24 DEF ConnectShared, Counted, TypeOK, CallerShape, HandleShape,
        HandleCalls, SlotHeld, PoolOf, Goto, Finish, DropRef, NewHandle, ShareOpenPool,
        Sharable, CanKeep, poolVars, callVars
  <2>2. \A q \in Pools : q # p => Counted(q)' = Counted(q) /\ refs'[q] = refs[q]
    BY <1>2, <1>3, <1>24 DEF ConnectShared, Counted, TypeOK, CallerShape, HandleShape,
        HandleCalls, SlotHeld, PoolOf, Goto, Finish, DropRef, NewHandle, ShareOpenPool,
        Sharable, CanKeep, poolVars, callVars
  <2>3. /\ Cardinality(Counted(p) \cup {h}) = Cardinality(Counted(p)) + 1
         /\ IsFiniteSet(Counted(p) \cup {h})
    BY <1>3, <2>1, OneMore, Zenon
  <2>4. Cardinality(Counted(p)') = refs'[p] /\ IsFiniteSet(Counted(p)')
    BY <1>3, <2>1, <2>3
  <2>5. RefsCounted' /\ (\A q \in Pools : IsFiniteSet(Counted(q)'))
    BY <1>3, <2>2, <2>4 DEF RefsCounted
  <2>6. (\A b \in Callers : pc[b] \in DialPcs => registered = NoPool)'
    BY <1>2, <1>3, <1>24 DEF ConnectShared, TypeOK, CallerShape, HandleShape, HandleCalls,
        SlotHeld, PoolOf, Goto, Finish, DropRef, NewHandle, ShareOpenPool, Sharable,
        CanKeep, poolVars, callVars
  <2>7. (\A q \in Pools : status[q] = "open" <=> registered = q)'
    BY <1>2, <1>3, <1>24 DEF ConnectShared, TypeOK, CallerShape, HandleShape, HandleCalls,
        SlotHeld, PoolOf, Goto, Finish, DropRef, NewHandle, ShareOpenPool, Sharable,
        CanKeep, poolVars, callVars
  <2>8. (\A g \in Handles : hstate[g] \in {"open", "closing"} => status[hpool[g]] = "open")'
    BY <1>2, <1>3, <1>24 DEF ConnectShared, TypeOK, CallerShape, HandleShape, HandleCalls,
        SlotHeld, PoolOf, Goto, Finish, DropRef, NewHandle, ShareOpenPool, Sharable,
        CanKeep, poolVars, callVars
  <2>9. (\A q \in Pools : status[q] # "open" => idle[q] = <<>>)'
    BY <1>2, <1>3, <1>24 DEF ConnectShared, TypeOK, CallerShape, HandleShape, HandleCalls,
        SlotHeld, PoolOf, Goto, Finish, DropRef, NewHandle, ShareOpenPool, Sharable,
        CanKeep, poolVars, callVars
  <2> QED BY <2>5, <2>6, <2>7, <2>8, <2>9 DEF RegistryInv
<1>25. ASSUME NEW h \in Handles, RecheckShared(a, h)
      PROVE  RegistryInv'
  <2> PICK p \in Pools : p = registered
    BY <1>2, <1>3, <1>25 DEF RecheckShared, TypeOK, CallerShape, HandleShape, HandleCalls,
        SlotHeld, PoolOf, Goto, Finish, DropRef, NewHandle, ShareOpenPool, Sharable,
        CanKeep, poolVars, callVars
  <2>1. Counted(p)' = Counted(p) \cup {h} /\ h \notin Counted(p) /\ refs'[p] = refs[p] + 1
    BY <1>2, <1>3, <1>25 DEF RecheckShared, Counted, TypeOK, CallerShape, HandleShape,
        HandleCalls, SlotHeld, PoolOf, Goto, Finish, DropRef, NewHandle, ShareOpenPool,
        Sharable, CanKeep, poolVars, callVars
  <2>2. \A q \in Pools : q # p => Counted(q)' = Counted(q) /\ refs'[q] = refs[q]
    BY <1>2, <1>3, <1>25 DEF RecheckShared, Counted, TypeOK, CallerShape, HandleShape,
        HandleCalls, SlotHeld, PoolOf, Goto, Finish, DropRef, NewHandle, ShareOpenPool,
        Sharable, CanKeep, poolVars, callVars
  <2>3. /\ Cardinality(Counted(p) \cup {h}) = Cardinality(Counted(p)) + 1
         /\ IsFiniteSet(Counted(p) \cup {h})
    BY <1>3, <2>1, OneMore, Zenon
  <2>4. Cardinality(Counted(p)') = refs'[p] /\ IsFiniteSet(Counted(p)')
    BY <1>3, <2>1, <2>3
  <2>5. RefsCounted' /\ (\A q \in Pools : IsFiniteSet(Counted(q)'))
    BY <1>3, <2>2, <2>4 DEF RefsCounted
  <2>6. (\A b \in Callers : pc[b] \in DialPcs => registered = NoPool)'
    BY <1>2, <1>3, <1>25 DEF RecheckShared, TypeOK, CallerShape, HandleShape, HandleCalls,
        SlotHeld, PoolOf, Goto, Finish, DropRef, NewHandle, ShareOpenPool, Sharable,
        CanKeep, poolVars, callVars
  <2>7. (\A q \in Pools : status[q] = "open" <=> registered = q)'
    BY <1>2, <1>3, <1>25 DEF RecheckShared, TypeOK, CallerShape, HandleShape, HandleCalls,
        SlotHeld, PoolOf, Goto, Finish, DropRef, NewHandle, ShareOpenPool, Sharable,
        CanKeep, poolVars, callVars
  <2>8. (\A g \in Handles : hstate[g] \in {"open", "closing"} => status[hpool[g]] = "open")'
    BY <1>2, <1>3, <1>25 DEF RecheckShared, TypeOK, CallerShape, HandleShape, HandleCalls,
        SlotHeld, PoolOf, Goto, Finish, DropRef, NewHandle, ShareOpenPool, Sharable,
        CanKeep, poolVars, callVars
  <2>9. (\A q \in Pools : status[q] # "open" => idle[q] = <<>>)'
    BY <1>2, <1>3, <1>25 DEF RecheckShared, TypeOK, CallerShape, HandleShape, HandleCalls,
        SlotHeld, PoolOf, Goto, Finish, DropRef, NewHandle, ShareOpenPool, Sharable,
        CanKeep, poolVars, callVars
  <2> QED BY <2>5, <2>6, <2>7, <2>8, <2>9 DEF RegistryInv
<1>26. ASSUME RecheckMiss(a) PROVE RegistryInv'
  <2>1. \A q \in Pools : Counted(q)' = Counted(q) /\ refs'[q] = refs[q]
    BY <1>2, <1>3, <1>26 DEF RecheckMiss, Counted, TypeOK, CallerShape, HandleShape,
        HandleCalls, SlotHeld, PoolOf, Goto, Finish, DropRef, NewHandle, ShareOpenPool,
        Sharable, CanKeep, poolVars, callVars
  <2>2. RefsCounted' /\ (\A q \in Pools : IsFiniteSet(Counted(q)'))
    BY <1>3, <2>1 DEF RefsCounted
  <2>3. (\A b \in Callers : pc[b] \in DialPcs => registered = NoPool)'
    BY <1>2, <1>3, <1>26 DEF RecheckMiss, TypeOK, CallerShape, HandleShape, HandleCalls,
        SlotHeld, PoolOf, Goto, Finish, DropRef, NewHandle, ShareOpenPool, Sharable,
        CanKeep, poolVars, callVars
  <2>4. (\A q \in Pools : status[q] = "open" <=> registered = q)'
    BY <1>2, <1>3, <1>26 DEF RecheckMiss, TypeOK, CallerShape, HandleShape, HandleCalls,
        SlotHeld, PoolOf, Goto, Finish, DropRef, NewHandle, ShareOpenPool, Sharable,
        CanKeep, poolVars, callVars
  <2>5. (\A g \in Handles : hstate[g] \in {"open", "closing"} => status[hpool[g]] = "open")'
    BY <1>2, <1>3, <1>26 DEF RecheckMiss, TypeOK, CallerShape, HandleShape, HandleCalls,
        SlotHeld, PoolOf, Goto, Finish, DropRef, NewHandle, ShareOpenPool, Sharable,
        CanKeep, poolVars, callVars
  <2>6. (\A q \in Pools : status[q] # "open" => idle[q] = <<>>)'
    BY <1>2, <1>3, <1>26 DEF RecheckMiss, TypeOK, CallerShape, HandleShape, HandleCalls,
        SlotHeld, PoolOf, Goto, Finish, DropRef, NewHandle, ShareOpenPool, Sharable,
        CanKeep, poolVars, callVars
  <2> QED BY <2>2, <2>3, <2>4, <2>5, <2>6 DEF RegistryInv
<1>27. ASSUME NEW h \in Handles, NEW p \in Pools, Register(a, h, p)
      PROVE  RegistryInv'
  <2>1. Counted(p)' = {h} /\ refs'[p] = 1
    BY <1>2, <1>3, <1>27 DEF Register, Counted, TypeOK, CallerShape, HandleShape,
        HandleCalls, SlotHeld, PoolOf, Goto, Finish, DropRef, NewHandle, ShareOpenPool,
        Sharable, CanKeep, poolVars, callVars
  <2>2. \A q \in Pools : q # p => Counted(q)' = Counted(q) /\ refs'[q] = refs[q]
    BY <1>2, <1>3, <1>27 DEF Register, Counted, TypeOK, CallerShape, HandleShape,
        HandleCalls, SlotHeld, PoolOf, Goto, Finish, DropRef, NewHandle, ShareOpenPool,
        Sharable, CanKeep, poolVars, callVars
  <2>3. Cardinality({h}) = 1 /\ IsFiniteSet({h})
    BY <1>3, <2>1, FS_Singleton
  <2>4. Cardinality(Counted(p)') = refs'[p] /\ IsFiniteSet(Counted(p)')
    BY <1>3, <2>1, <2>3
  <2>5. RefsCounted' /\ (\A q \in Pools : IsFiniteSet(Counted(q)'))
    BY <1>3, <2>2, <2>4 DEF RefsCounted
  <2>6. (\A b \in Callers : pc[b] \in DialPcs => registered = NoPool)'
    BY <1>2, <1>3, <1>27 DEF Register, TypeOK, CallerShape, HandleShape, HandleCalls,
        SlotHeld, PoolOf, Goto, Finish, DropRef, NewHandle, ShareOpenPool, Sharable,
        CanKeep, poolVars, callVars
  <2>7. (\A q \in Pools : status[q] = "open" <=> registered = q)'
    BY <1>2, <1>3, NullAssumption, <1>27 DEF Register, TypeOK, CallerShape, HandleShape,
        HandleCalls, SlotHeld, PoolOf, Goto, Finish, DropRef, NewHandle, ShareOpenPool,
        Sharable, CanKeep, poolVars, callVars
  <2>8. (\A g \in Handles : hstate[g] \in {"open", "closing"} => status[hpool[g]] = "open")'
    BY <1>2, <1>3, <1>27 DEF Register, TypeOK, CallerShape, HandleShape, HandleCalls,
        SlotHeld, PoolOf, Goto, Finish, DropRef, NewHandle, ShareOpenPool, Sharable,
        CanKeep, poolVars, callVars
  <2>9. (\A q \in Pools : status[q] # "open" => idle[q] = <<>>)'
    BY <1>2, <1>3, <1>27 DEF Register, TypeOK, CallerShape, HandleShape, HandleCalls,
        SlotHeld, PoolOf, Goto, Finish, DropRef, NewHandle, ShareOpenPool, Sharable,
        CanKeep, poolVars, callVars
  <2> QED BY <2>5, <2>6, <2>7, <2>8, <2>9 DEF RegistryInv
<1>28. ASSUME NEW h \in Handles, CloseHandle(a, h)
      PROVE  RegistryInv'
  <2>1. \A q \in Pools : Counted(q)' = Counted(q) /\ refs'[q] = refs[q]
    BY <1>2, <1>3, <1>28 DEF CloseHandle, Counted, TypeOK, CallerShape, HandleShape,
        HandleCalls, SlotHeld, PoolOf, Goto, Finish, DropRef, NewHandle, ShareOpenPool,
        Sharable, CanKeep, poolVars, callVars
  <2>2. RefsCounted' /\ (\A q \in Pools : IsFiniteSet(Counted(q)'))
    BY <1>3, <2>1 DEF RefsCounted
  <2>3. (\A b \in Callers : pc[b] \in DialPcs => registered = NoPool)'
    BY <1>2, <1>3, <1>28 DEF CloseHandle, TypeOK, CallerShape, HandleShape, HandleCalls,
        SlotHeld, PoolOf, Goto, Finish, DropRef, NewHandle, ShareOpenPool, Sharable,
        CanKeep, poolVars, callVars
  <2>4. (\A q \in Pools : status[q] = "open" <=> registered = q)'
    BY <1>2, <1>3, <1>28 DEF CloseHandle, TypeOK, CallerShape, HandleShape, HandleCalls,
        SlotHeld, PoolOf, Goto, Finish, DropRef, NewHandle, ShareOpenPool, Sharable,
        CanKeep, poolVars, callVars
  <2>5. (\A g \in Handles : hstate[g] \in {"open", "closing"} => status[hpool[g]] = "open")'
    BY <1>2, <1>3, <1>28 DEF CloseHandle, TypeOK, CallerShape, HandleShape, HandleCalls,
        SlotHeld, PoolOf, Goto, Finish, DropRef, NewHandle, ShareOpenPool, Sharable,
        CanKeep, poolVars, callVars
  <2>6. (\A q \in Pools : status[q] # "open" => idle[q] = <<>>)'
    BY <1>2, <1>3, <1>28 DEF CloseHandle, TypeOK, CallerShape, HandleShape, HandleCalls,
        SlotHeld, PoolOf, Goto, Finish, DropRef, NewHandle, ShareOpenPool, Sharable,
        CanKeep, poolVars, callVars
  <2> QED BY <2>2, <2>3, <2>4, <2>5, <2>6 DEF RegistryInv
<1>29. ASSUME DropSharedRef(a) PROVE RegistryInv'
  <2> PICK p \in Pools : p = PoolOf(a)
    BY <1>2, <1>3, <1>29 DEF DropSharedRef, TypeOK, CallerShape, HandleShape, HandleCalls,
        SlotHeld, PoolOf, Goto, Finish, DropRef, NewHandle, ShareOpenPool, Sharable,
        CanKeep, poolVars, callVars
  <2>1. Counted(p)' = Counted(p) \ {cur[a]} /\ cur[a] \in Counted(p) /\ refs'[p] = refs[p] - 1
    BY <1>2, <1>3, <1>29 DEF DropSharedRef, Counted, TypeOK, CallerShape, HandleShape,
        HandleCalls, SlotHeld, PoolOf, Goto, Finish, DropRef, NewHandle, ShareOpenPool,
        Sharable, CanKeep, poolVars, callVars
  <2>2. \A q \in Pools : q # p => Counted(q)' = Counted(q) /\ refs'[q] = refs[q]
    BY <1>2, <1>3, <1>29 DEF DropSharedRef, Counted, TypeOK, CallerShape, HandleShape,
        HandleCalls, SlotHeld, PoolOf, Goto, Finish, DropRef, NewHandle, ShareOpenPool,
        Sharable, CanKeep, poolVars, callVars
  <2>3. /\ Cardinality(Counted(p) \ {cur[a]}) = Cardinality(Counted(p)) - 1
         /\ IsFiniteSet(Counted(p) \ {cur[a]})
    BY <1>3, <2>1, FS_RemoveElement
  <2>4. Cardinality(Counted(p)') = refs'[p] /\ IsFiniteSet(Counted(p)')
    BY <1>3, <2>1, <2>3
  <2>5. RefsCounted' /\ (\A q \in Pools : IsFiniteSet(Counted(q)'))
    BY <1>3, <2>2, <2>4 DEF RefsCounted
  <2>6. (\A b \in Callers : pc[b] \in DialPcs => registered = NoPool)'
    BY <1>2, <1>3, <1>29 DEF DropSharedRef, TypeOK, CallerShape, HandleShape, HandleCalls,
        SlotHeld, PoolOf, Goto, Finish, DropRef, NewHandle, ShareOpenPool, Sharable,
        CanKeep, poolVars, callVars
  <2>7. (\A q \in Pools : status[q] = "open" <=> registered = q)'
    BY <1>2, <1>3, <1>29 DEF DropSharedRef, TypeOK, CallerShape, HandleShape, HandleCalls,
        SlotHeld, PoolOf, Goto, Finish, DropRef, NewHandle, ShareOpenPool, Sharable,
        CanKeep, poolVars, callVars
  <2>8. (\A g \in Handles : hstate[g] \in {"open", "closing"} => status[hpool[g]] = "open")'
    BY <1>2, <1>3, <1>29 DEF DropSharedRef, TypeOK, CallerShape, HandleShape, HandleCalls,
        SlotHeld, PoolOf, Goto, Finish, DropRef, NewHandle, ShareOpenPool, Sharable,
        CanKeep, poolVars, callVars
  <2>9. (\A q \in Pools : status[q] # "open" => idle[q] = <<>>)'
    BY <1>2, <1>3, <1>29 DEF DropSharedRef, TypeOK, CallerShape, HandleShape, HandleCalls,
        SlotHeld, PoolOf, Goto, Finish, DropRef, NewHandle, ShareOpenPool, Sharable,
        CanKeep, poolVars, callVars
  <2> QED BY <2>5, <2>6, <2>7, <2>8, <2>9 DEF RegistryInv
<1>30. ASSUME DropLastRef(a) PROVE RegistryInv'
  <2> PICK p \in Pools : p = PoolOf(a)
    BY <1>2, <1>3, <1>30 DEF DropLastRef, TypeOK, CallerShape, HandleShape, HandleCalls,
        SlotHeld, PoolOf, Goto, Finish, DropRef, NewHandle, ShareOpenPool, Sharable,
        CanKeep, poolVars, callVars
  <2>1. Counted(p)' = Counted(p) \ {cur[a]} /\ cur[a] \in Counted(p) /\ refs'[p] = refs[p] - 1
    BY <1>2, <1>3, <1>30 DEF DropLastRef, Counted, TypeOK, CallerShape, HandleShape,
        HandleCalls, SlotHeld, PoolOf, Goto, Finish, DropRef, NewHandle, ShareOpenPool,
        Sharable, CanKeep, poolVars, callVars
  <2>2. \A q \in Pools : q # p => Counted(q)' = Counted(q) /\ refs'[q] = refs[q]
    BY <1>2, <1>3, <1>30 DEF DropLastRef, Counted, TypeOK, CallerShape, HandleShape,
        HandleCalls, SlotHeld, PoolOf, Goto, Finish, DropRef, NewHandle, ShareOpenPool,
        Sharable, CanKeep, poolVars, callVars
  <2>3. /\ Cardinality(Counted(p) \ {cur[a]}) = Cardinality(Counted(p)) - 1
         /\ IsFiniteSet(Counted(p) \ {cur[a]})
    BY <1>3, <2>1, FS_RemoveElement
  <2>4. Cardinality(Counted(p)') = refs'[p] /\ IsFiniteSet(Counted(p)')
    BY <1>3, <2>1, <2>3
  <2>5. RefsCounted' /\ (\A q \in Pools : IsFiniteSet(Counted(q)'))
    BY <1>3, <2>2, <2>4 DEF RefsCounted
  <2>6. \A g \in Handles : g # cur[a] /\ hpool[g] = p => hstate[g] \notin {"open",
      "closing"}
    <3>1. Counted(p) \ {cur[a]} = {}
      BY <1>3, <1>30, <2>3, FS_EmptySet, FS_CardinalityType DEF DropLastRef
    <3> QED BY <3>1 DEF Counted
  <2>7. (\A b \in Callers : pc[b] \in DialPcs => registered = NoPool)'
    BY <1>2, <1>3, <1>30 DEF DropLastRef, TypeOK, CallerShape, HandleShape, HandleCalls,
        SlotHeld, PoolOf, Goto, Finish, DropRef, NewHandle, ShareOpenPool, Sharable,
        CanKeep, poolVars, callVars
  <2>8. (\A q \in Pools : status[q] = "open" <=> registered = q)'
    BY <1>2, <1>3, NullAssumption, <1>30 DEF DropLastRef, TypeOK, CallerShape, HandleShape,
        HandleCalls, SlotHeld, PoolOf, Goto, Finish, DropRef, NewHandle, ShareOpenPool,
        Sharable, CanKeep, poolVars, callVars
  <2>9. (\A g \in Handles : hstate[g] \in {"open", "closing"} => status[hpool[g]] = "open")'
    BY <1>2, <1>3, <1>30, <2>6 DEF DropLastRef, TypeOK, CallerShape, HandleShape,
        HandleCalls, SlotHeld, PoolOf, Goto, Finish, DropRef, NewHandle, ShareOpenPool,
        Sharable, CanKeep, poolVars, callVars
  <2>10. (\A q \in Pools : status[q] # "open" => idle[q] = <<>>)'
    BY <1>2, <1>3, <1>30 DEF DropLastRef, TypeOK, CallerShape, HandleShape, HandleCalls,
        SlotHeld, PoolOf, Goto, Finish, DropRef, NewHandle, ShareOpenPool, Sharable,
        CanKeep, poolVars, callVars
  <2> QED BY <2>5, <2>7, <2>8, <2>9, <2>10 DEF RegistryInv
<1>31. ASSUME PopIdle(a) PROVE RegistryInv'
  <2> PICK p \in Pools : p = PoolOf(a)
    BY <1>2, <1>3, <1>31 DEF PopIdle, TypeOK, CallerShape, HandleShape, HandleCalls,
        SlotHeld, PoolOf, Goto, Finish, DropRef, NewHandle, ShareOpenPool, Sharable,
        CanKeep, poolVars, callVars
  <2>1. \A q \in Pools : Counted(q)' = Counted(q) /\ refs'[q] = refs[q]
    BY <1>2, <1>3, <1>31 DEF PopIdle, Counted, TypeOK, CallerShape, HandleShape,
        HandleCalls, SlotHeld, PoolOf, Goto, Finish, DropRef, NewHandle, ShareOpenPool,
        Sharable, CanKeep, poolVars, callVars
  <2>2. RefsCounted' /\ (\A q \in Pools : IsFiniteSet(Counted(q)'))
    BY <1>3, <2>1 DEF RefsCounted
  <2>3. (\A b \in Callers : pc[b] \in DialPcs => registered = NoPool)'
    BY <1>2, <1>3, <1>31 DEF PopIdle, TypeOK, CallerShape, HandleShape, HandleCalls,
        SlotHeld, PoolOf, Goto, Finish, DropRef, NewHandle, ShareOpenPool, Sharable,
        CanKeep, poolVars, callVars
  <2>4. (\A q \in Pools : status[q] = "open" <=> registered = q)'
    BY <1>2, <1>3, <1>31 DEF PopIdle, TypeOK, CallerShape, HandleShape, HandleCalls,
        SlotHeld, PoolOf, Goto, Finish, DropRef, NewHandle, ShareOpenPool, Sharable,
        CanKeep, poolVars, callVars
  <2>5. (\A g \in Handles : hstate[g] \in {"open", "closing"} => status[hpool[g]] = "open")'
    BY <1>2, <1>3, <1>31 DEF PopIdle, TypeOK, CallerShape, HandleShape, HandleCalls,
        SlotHeld, PoolOf, Goto, Finish, DropRef, NewHandle, ShareOpenPool, Sharable,
        CanKeep, poolVars, callVars
  <2>6. (\A q \in Pools : status[q] # "open" => idle[q] = <<>>)'
    BY <1>2, <1>3, <1>31 DEF PopIdle, TypeOK, CallerShape, HandleShape, HandleCalls,
        SlotHeld, PoolOf, Goto, Finish, DropRef, NewHandle, ShareOpenPool, Sharable,
        CanKeep, poolVars, callVars
  <2> QED BY <2>2, <2>3, <2>4, <2>5, <2>6 DEF RegistryInv
<1>32. ASSUME ReleaseToIdle(a) PROVE RegistryInv'
  <2> PICK p \in Pools : p = PoolOf(a)
    BY <1>2, <1>3, <1>32 DEF ReleaseToIdle, TypeOK, CallerShape, HandleShape, HandleCalls,
        SlotHeld, PoolOf, Goto, Finish, DropRef, NewHandle, ShareOpenPool, Sharable,
        CanKeep, poolVars, callVars
  <2>1. \A q \in Pools : Counted(q)' = Counted(q) /\ refs'[q] = refs[q]
    BY <1>2, <1>3, <1>32 DEF ReleaseToIdle, Counted, TypeOK, CallerShape, HandleShape,
        HandleCalls, SlotHeld, PoolOf, Goto, Finish, DropRef, NewHandle, ShareOpenPool,
        Sharable, CanKeep, poolVars, callVars
  <2>2. RefsCounted' /\ (\A q \in Pools : IsFiniteSet(Counted(q)'))
    BY <1>3, <2>1 DEF RefsCounted
  <2>3. (\A b \in Callers : pc[b] \in DialPcs => registered = NoPool)'
    BY <1>2, <1>3, <1>32 DEF ReleaseToIdle, TypeOK, CallerShape, HandleShape, HandleCalls,
        SlotHeld, PoolOf, Goto, Finish, DropRef, NewHandle, ShareOpenPool, Sharable,
        CanKeep, poolVars, callVars
  <2>4. (\A q \in Pools : status[q] = "open" <=> registered = q)'
    BY <1>2, <1>3, <1>32 DEF ReleaseToIdle, TypeOK, CallerShape, HandleShape, HandleCalls,
        SlotHeld, PoolOf, Goto, Finish, DropRef, NewHandle, ShareOpenPool, Sharable,
        CanKeep, poolVars, callVars
  <2>5. (\A g \in Handles : hstate[g] \in {"open", "closing"} => status[hpool[g]] = "open")'
    BY <1>2, <1>3, <1>32 DEF ReleaseToIdle, TypeOK, CallerShape, HandleShape, HandleCalls,
        SlotHeld, PoolOf, Goto, Finish, DropRef, NewHandle, ShareOpenPool, Sharable,
        CanKeep, poolVars, callVars
  <2>6. (\A q \in Pools : status[q] # "open" => idle[q] = <<>>)'
    BY <1>2, <1>3, <1>32 DEF ReleaseToIdle, TypeOK, CallerShape, HandleShape, HandleCalls,
        SlotHeld, PoolOf, Goto, Finish, DropRef, NewHandle, ShareOpenPool, Sharable,
        CanKeep, poolVars, callVars
  <2> QED BY <2>2, <2>3, <2>4, <2>5, <2>6 DEF RegistryInv
<1>33. QED BY <1>1, <1>4, <1>5, <1>6, <1>7, <1>8, <1>9, <1>10, <1>11, <1>12, <1>13, <1>14,
    <1>15, <1>16, <1>17, <1>18, <1>19, <1>20, <1>21, <1>22, <1>23, <1>24, <1>25, <1>26,
    <1>27, <1>28, <1>29, <1>30, <1>31, <1>32 DEF Call, Connecting, Closing, Using

-----------------------------------------------------------------------------
\* The empty registry satisfies the inductive invariant.
LEMMA InitInv == Init => IInv
<1> SUFFICES ASSUME Init PROVE IInv
  OBVIOUS
<1> USE DEF Init
<1>1. Shape
  BY NullAssumption
  DEF Shape, TypeOK, CallerShape, HandleShape, Labels, SlotHeld, Holding, Checked,
      HandleCalls
<1>2. ConnsInv
  <2>1. \A p \in Pools : ToSet(idle[p]) = {} /\ IsInjective(idle[p])
    BY DEF ToSet, IsInjective
  <2> QED BY <2>1, NullAssumption
    DEF ConnsInv, ExclusiveConn, CallersApart, ApartFromIdle, IdleApart, IdleOnce,
        ConnsTracked
<1>3. SlotsInv
  <2>1. \A p \in Pools : Slots(p) = {} /\ Out(p) = {}
    BY DEF Slots, Out, SlotHeld, Checked
  <2>2. IsFiniteSet({}) /\ Cardinality({}) = 0
    BY FS_EmptySet
  <2>3. \A p \in Pools : Cardinality(Slots(p)) = 0 /\ Cardinality(Out(p)) = 0 /\ IsFiniteSet(Slots(p))
    BY <2>1, <2>2, Zenon
  <2>4. \A p \in Pools : Len(idle[p]) = 0
    OBVIOUS
  <2> QED BY <2>3, <2>4, MaxOpenAssumption DEF SlotsInv, SlotsCounted, PoolBound
<1>4. RegistryInv
  <2>1. \A p \in Pools : Counted(p) = {}
    BY DEF Counted
  <2> QED BY <2>1, FS_EmptySet, NullAssumption DEF RegistryInv, RefsCounted
<1> QED BY <1>1, <1>2, <1>3, <1>4 DEF IInv

\* The inductive invariant implies the safety properties of DBPool.
LEMMA ConsequencesInv == IInv =>
  /\ TypeOK /\ ExclusiveConn /\ NoLostConn /\ PoolBound /\ SlotsCounted
  /\ OpenPoolRegistered /\ RefsCounted
<1> SUFFICES ASSUME IInv PROVE NoLostConn
  BY DEF IInv, Shape, ConnsInv, SlotsInv, RegistryInv, OpenPoolRegistered
<1>1. \A p \in Pools, c \in Conns : c \in ToSet(idle[p]) => status[p] = "open"
  <2>1. \A c \in Conns : c \notin ToSet(<<>>)
    BY DEF ToSet
  <2> QED BY <2>1 DEF IInv, RegistryInv
<1> QED BY <1>1 DEF IInv, ConnsInv, ConnsTracked, NoLostConn

\* IInv is an invariant of the pool.
LEMMA Inductive == Spec => []IInv
<1>1. IInv /\ [Next]_vars => IInv'
  <2>1. ASSUME IInv, Next PROVE IInv'
    <3>1. Shape
      BY <2>1 DEF IInv
    <3> QED BY <2>1, <3>1, ShapeStep, ConnsStep, SlotsStep, RegistryStep DEF IInv
  <2>2. ASSUME IInv, UNCHANGED vars PROVE IInv'
    <3> USE <2>2 DEF vars
    <3>1. Shape'
      BY DEF IInv, Shape, TypeOK, CallerShape, HandleShape
    <3>2. ConnsInv'
      BY DEF IInv, ConnsInv, ExclusiveConn, CallersApart, ApartFromIdle, IdleApart,
             IdleOnce, ConnsTracked
    <3>3. SlotsInv'
      BY DEF IInv, SlotsInv, SlotsCounted, PoolBound, Slots, Out, PoolOf
    <3>4. RegistryInv'
      BY DEF IInv, RegistryInv, RefsCounted, Counted
    <3> QED BY <3>1, <3>2, <3>3, <3>4 DEF IInv
  <2> QED BY <2>1, <2>2
<1> QED BY InitInv, <1>1, PTL DEF Spec

-----------------------------------------------------------------------------
\* The empty registry is the empty lease table.
LEMMA LeaseInit == Init => Lease!Init
BY DEF Init, Lease!Init, Lent, From, Holding, Checked

\* Lease counts with its own instance of FiniteSets.
LEMMA LeaseCardinality == \A S : Lease!Cardinality(S) = Cardinality(S)
BY DEF Cardinality, Lease!Cardinality

\* A step of the pool is a loan, a return or no change of the lease table.
LEMMA LeaseStep == ASSUME IInv, Next PROVE Lease!Next \/ UNCHANGED <<Lent, From>>
<1> DEFINE Same == UNCHANGED <<Lent, From>>
<1>1. PICK a \in Callers : Call(a) \/ Connecting(a) \/ Closing(a) \/ Using(a)
  BY DEF Next
<1>2. /\ TypeOK /\ CallerShape /\ HandleShape
      /\ NoConn \notin Conns /\ NoPool \notin Pools
  BY NullAssumption DEF IInv, Shape
<1>3. \A q \in Pools, b \in Callers : pc[b] = "slot" \/ pc[b] = "dialConn" =>
        (PoolOf(b) = q => Cardinality(Lease!Loans(q)) < MaxOpen)
  <2>1. SUFFICES ASSUME NEW q \in Pools, NEW b \in Callers, pc[b] \in {"slot", "dialConn"},
      PoolOf(b) = q
                 PROVE  Cardinality(Lease!Loans(q)) < MaxOpen
    OBVIOUS
  <2>2. /\ IsFiniteSet(Slots(q)) /\ Cardinality(Slots(q)) <= MaxOpen /\ Cardinality(Slots(q)) \in Nat
    BY FS_CardinalityType DEF IInv, SlotsInv, SlotsCounted
  <2>3. b \in Slots(q)
    BY <2>1 DEF Slots, SlotHeld
  <2>4. Lease!Loans(q) \in SUBSET (Slots(q) \ {b})
    BY <1>2, <2>1 DEF Lease!Loans, From, Slots, Holding, Checked, SlotHeld
  <2>5. IsFiniteSet(Slots(q) \ {b}) /\ Cardinality(Slots(q) \ {b}) = Cardinality(Slots(q)) - 1
    BY <2>2, <2>3, FS_RemoveElement
  <2>6. IsFiniteSet(Lease!Loans(q)) /\ Cardinality(Lease!Loans(q)) <= Cardinality(Slots(q) \ {b})
    BY <2>4, <2>5, FS_Subset
  <2>7. Cardinality(Lease!Loans(q)) \in Nat
    BY <2>6, FS_CardinalityType
  <2> QED BY <2>2, <2>5, <2>6, <2>7, MaxOpenAssumption
<1> HIDE DEF Same
<1>4. ASSUME NEW h \in Handles, ConnectShared(a, h)
      PROVE  Same
  BY <1>2, <1>4 DEF Same, Lent, From, ConnectShared, TypeOK, CallerShape, HandleShape,
      HandleCalls, SlotHeld, Checked, Holding, PoolOf, Goto, Finish, DropRef, NewHandle,
      ShareOpenPool, Outcomes, poolVars, callVars
<1>5. ASSUME ConnectMiss(a) PROVE Same
  BY <1>2, <1>5 DEF Same, Lent, From, ConnectMiss, TypeOK, CallerShape, HandleShape,
      HandleCalls, SlotHeld, Checked, Holding, PoolOf, Goto, Finish, DropRef, NewHandle,
      ShareOpenPool, Outcomes, poolVars, callVars
<1>6. ASSUME NEW h \in Handles, CloseHandle(a, h)
      PROVE  Same
  BY <1>2, <1>6 DEF Same, Lent, From, CloseHandle, TypeOK, CallerShape, HandleShape,
      HandleCalls, SlotHeld, Checked, Holding, PoolOf, Goto, Finish, DropRef, NewHandle,
      ShareOpenPool, Outcomes, poolVars, callVars
<1>7. ASSUME NEW h \in Handles, CallOnClosed(a, h)
      PROVE  Same
  BY <1>2, <1>7 DEF Same, Lent, From, CallOnClosed, TypeOK, CallerShape, HandleShape,
      HandleCalls, SlotHeld, Checked, Holding, PoolOf, Goto, Finish, DropRef, NewHandle,
      ShareOpenPool, Outcomes, poolVars, callVars, vars
<1>8. ASSUME NEW h \in Handles, AcquireStart(a, h)
      PROVE  Same
  BY <1>2, <1>8 DEF Same, Lent, From, AcquireStart, TypeOK, CallerShape, HandleShape,
      HandleCalls, SlotHeld, Checked, Holding, PoolOf, Goto, Finish, DropRef, NewHandle,
      ShareOpenPool, Outcomes, poolVars, callVars
<1>9. ASSUME LockDial(a) PROVE Same
  BY <1>2, <1>9 DEF Same, Lent, From, LockDial, TypeOK, CallerShape, HandleShape,
      HandleCalls, SlotHeld, Checked, Holding, PoolOf, Goto, Finish, DropRef, NewHandle,
      ShareOpenPool, Outcomes, poolVars, callVars
<1>10. ASSUME NEW h \in Handles, RecheckShared(a, h)
      PROVE  Same
  BY <1>2, <1>10 DEF Same, Lent, From, RecheckShared, TypeOK, CallerShape, HandleShape,
      HandleCalls, SlotHeld, Checked, Holding, PoolOf, Goto, Finish, DropRef, NewHandle,
      ShareOpenPool, Outcomes, poolVars, callVars
<1>11. ASSUME RecheckMiss(a) PROVE Same
  BY <1>2, <1>11 DEF Same, Lent, From, RecheckMiss, TypeOK, CallerShape, HandleShape,
      HandleCalls, SlotHeld, Checked, Holding, PoolOf, Goto, Finish, DropRef, NewHandle,
      ShareOpenPool, Outcomes, poolVars, callVars
<1>12. ASSUME DialPoolFail(a) PROVE Same
  BY <1>2, <1>12 DEF Same, Lent, From, DialPoolFail, TypeOK, CallerShape, HandleShape,
      HandleCalls, SlotHeld, Checked, Holding, PoolOf, Goto, Finish, DropRef, NewHandle,
      ShareOpenPool, Outcomes, poolVars, callVars
<1>13. ASSUME NEW c \in Conns, DialPoolOk(a, c)
      PROVE  Same
  BY <1>2, <1>13 DEF Same, Lent, From, DialPoolOk, TypeOK, CallerShape, HandleShape,
      HandleCalls, SlotHeld, Checked, Holding, PoolOf, Goto, Finish, DropRef, NewHandle,
      ShareOpenPool, Outcomes, poolVars, callVars
<1>14. ASSUME NEW h \in Handles, NEW p \in Pools, Register(a, h, p)
      PROVE  Same
  BY <1>2, <1>14 DEF Same, Lent, From, Register, TypeOK, CallerShape, HandleShape,
      HandleCalls, SlotHeld, Checked, Holding, PoolOf, Goto, Finish, DropRef, NewHandle,
      ShareOpenPool, Outcomes, poolVars, callVars
<1>15. ASSUME DropSharedRef(a) PROVE Same
  BY <1>2, <1>15 DEF Same, Lent, From, DropSharedRef, TypeOK, CallerShape, HandleShape,
      HandleCalls, SlotHeld, Checked, Holding, PoolOf, Goto, Finish, DropRef, NewHandle,
      ShareOpenPool, Outcomes, poolVars, callVars
<1>16. ASSUME DropLastRef(a) PROVE Same
  BY <1>2, <1>16 DEF Same, Lent, From, DropLastRef, TypeOK, CallerShape, HandleShape,
      HandleCalls, SlotHeld, Checked, Holding, PoolOf, Goto, Finish, DropRef, NewHandle,
      ShareOpenPool, Outcomes, poolVars, callVars
<1>17. ASSUME NEW c \in Conns, CloseIdleConn(a, c)
      PROVE  Same
  BY <1>2, <1>17 DEF Same, Lent, From, CloseIdleConn, TypeOK, CallerShape, HandleShape,
      HandleCalls, SlotHeld, Checked, Holding, PoolOf, Goto, Finish, DropRef, NewHandle,
      ShareOpenPool, Outcomes, poolVars, callVars
<1>18. ASSUME CloseDone(a) PROVE Same
  BY <1>2, <1>18 DEF Same, Lent, From, CloseDone, TypeOK, CallerShape, HandleShape,
      HandleCalls, SlotHeld, Checked, Holding, PoolOf, Goto, Finish, DropRef, NewHandle,
      ShareOpenPool, Outcomes, poolVars, callVars
<1>19. ASSUME TakeSlot(a) PROVE Same
  BY <1>2, <1>19 DEF Same, Lent, From, TakeSlot, TypeOK, CallerShape, HandleShape,
      HandleCalls, SlotHeld, Checked, Holding, PoolOf, Goto, Finish, DropRef, NewHandle,
      ShareOpenPool, Outcomes, poolVars, callVars
<1>20. ASSUME FindClosed(a) PROVE Same
  BY <1>2, <1>20 DEF Same, Lent, From, FindClosed, TypeOK, CallerShape, HandleShape,
      HandleCalls, SlotHeld, Checked, Holding, PoolOf, Goto, Finish, DropRef, NewHandle,
      ShareOpenPool, Outcomes, poolVars, callVars
<1>21. ASSUME FindEmpty(a) PROVE Same
  BY <1>2, <1>21 DEF Same, Lent, From, FindEmpty, TypeOK, CallerShape, HandleShape,
      HandleCalls, SlotHeld, Checked, Holding, PoolOf, Goto, Finish, DropRef, NewHandle,
      ShareOpenPool, Outcomes, poolVars, callVars
<1>22. ASSUME DialConnFail(a) PROVE Same
  BY <1>2, <1>22 DEF Same, Lent, From, DialConnFail, TypeOK, CallerShape, HandleShape,
      HandleCalls, SlotHeld, Checked, Holding, PoolOf, Goto, Finish, DropRef, NewHandle,
      ShareOpenPool, Outcomes, poolVars, callVars
<1>23. ASSUME NEW l \in Outcomes, OperationReturns(a, l)
      PROVE  Same
  BY <1>2, <1>23 DEF Same, Lent, From, OperationReturns, TypeOK, CallerShape, HandleShape,
      HandleCalls, SlotHeld, Checked, Holding, PoolOf, Goto, Finish, DropRef, NewHandle,
      ShareOpenPool, Outcomes, poolVars, callVars
<1>24. ASSUME BeginOk(a) PROVE Same
  BY <1>2, <1>24 DEF Same, Lent, From, BeginOk, TypeOK, CallerShape, HandleShape,
      HandleCalls, SlotHeld, Checked, Holding, PoolOf, Goto, Finish, DropRef, NewHandle,
      ShareOpenPool, Outcomes, poolVars, callVars
<1>25. ASSUME NEW l \in Outcomes, TxEnds(a, l)
      PROVE  Same
  BY <1>2, <1>25 DEF Same, Lent, From, TxEnds, TypeOK, CallerShape, HandleShape,
      HandleCalls, SlotHeld, Checked, Holding, PoolOf, Goto, Finish, DropRef, NewHandle,
      ShareOpenPool, Outcomes, poolVars, callVars
<1>26. ASSUME ReleaseToDiscard(a) PROVE Same
  BY <1>2, <1>26 DEF Same, Lent, From, ReleaseToDiscard, TypeOK, CallerShape, HandleShape,
      HandleCalls, SlotHeld, Checked, Holding, PoolOf, Goto, Finish, DropRef, NewHandle,
      ShareOpenPool, Outcomes, poolVars, callVars
<1>27. ASSUME FreeSlot(a) PROVE Same
  BY <1>2, <1>27 DEF Same, Lent, From, FreeSlot, TypeOK, CallerShape, HandleShape,
      HandleCalls, SlotHeld, Checked, Holding, PoolOf, Goto, Finish, DropRef, NewHandle,
      ShareOpenPool, Outcomes, poolVars, callVars
<1>28. ASSUME PopIdle(a) PROVE Lease!Next
  <2> PICK p \in Pools : p = PoolOf(a)
    BY <1>2, <1>28 DEF PopIdle, CallerShape, HandleShape, PoolOf, HandleCalls, SlotHeld
  <2> PICK c \in Conns : c = Last(idle[p]) /\ c \in ToSet(idle[p])
    BY <1>2, <1>28 DEF PopIdle, TypeOK, Last, ToSet
  <2>1. \A b \in Callers : conn[b] # c
    BY DEF IInv, ConnsInv, ExclusiveConn, ApartFromIdle
  <2>2. Cardinality(Lease!Loans(p)) < MaxOpen
    BY <1>3, <1>28 DEF PopIdle
  <2>3. /\ Lent[a] = NoConn /\ \A b \in Callers : Lent[b] # c
        /\ Lent' = [Lent EXCEPT ![a] = c]
        /\ From' = [From EXCEPT ![a] = p]
    <3>1. /\ conn' = [conn EXCEPT ![a] = c] /\ pc' = [pc EXCEPT ![a] = "using"]
          /\ cur' = cur /\ hpool' = hpool /\ conn[a] = NoConn /\ pc[a] = "slot"
      BY <1>2, <1>28 DEF PopIdle, Goto, CallerShape, Holding, Checked
    <3>2. Lent[a] = NoConn /\ Lent' = [Lent EXCEPT ![a] = c]
      BY <1>2, <3>1 DEF Lent, Holding, Checked, TypeOK
    <3>3. \A b \in Callers : Lent[b] # c
      BY <1>2, <2>1 DEF Lent
    <3>4. From' = [From EXCEPT ![a] = p]
      BY <1>2, <3>1 DEF From, Holding, Checked, TypeOK, PoolOf
    <3> QED BY <3>2, <3>3, <3>4
  <2>4. Lease!Lend(a, p, c)
    BY <2>2, <2>3, LeaseCardinality DEF Lease!Lend
  <2> QED BY <2>4 DEF Lease!Next
<1>29. ASSUME NEW c \in Conns, DialConnOk(a, c)
      PROVE  Lease!Next
  <2> PICK p \in Pools : p = PoolOf(a)
    BY <1>2, <1>29 DEF DialConnOk, CallerShape, HandleShape, PoolOf, HandleCalls, SlotHeld
  <2>1. \A b \in Callers : conn[b] # c
    BY <1>29 DEF DialConnOk, IInv, ConnsInv, ConnsTracked
  <2>2. Cardinality(Lease!Loans(p)) < MaxOpen
    BY <1>3, <1>29 DEF DialConnOk
  <2>3. /\ Lent[a] = NoConn /\ \A b \in Callers : Lent[b] # c
        /\ Lent' = [Lent EXCEPT ![a] = c]
        /\ From' = [From EXCEPT ![a] = p]
    <3>1. /\ conn' = [conn EXCEPT ![a] = c] /\ pc' = [pc EXCEPT ![a] = "using"]
          /\ cur' = cur /\ hpool' = hpool /\ conn[a] = NoConn /\ pc[a] = "dialConn"
      BY <1>2, <1>29 DEF DialConnOk, Goto, CallerShape, Holding, Checked
    <3>2. Lent[a] = NoConn /\ Lent' = [Lent EXCEPT ![a] = c]
      BY <1>2, <3>1 DEF Lent, Holding, Checked, TypeOK
    <3>3. \A b \in Callers : Lent[b] # c
      BY <1>2, <2>1 DEF Lent
    <3>4. From' = [From EXCEPT ![a] = p]
      BY <1>2, <3>1 DEF From, Holding, Checked, TypeOK, PoolOf
    <3> QED BY <3>2, <3>3, <3>4
  <2>4. Lease!Lend(a, p, c)
    BY <2>2, <2>3, LeaseCardinality DEF Lease!Lend
  <2> QED BY <2>4 DEF Lease!Next
<1>30. ASSUME ReleaseToIdle(a) PROVE Lease!Next
  <2>1. /\ Lent[a] # NoConn
        /\ Lent' = [Lent EXCEPT ![a] = NoConn]
        /\ From' = [From EXCEPT ![a] = NoPool]
    <3>1. /\ conn' = [conn EXCEPT ![a] = NoConn] /\ pc' = [pc EXCEPT ![a] = "free"]
          /\ cur' = cur /\ hpool' = hpool /\ conn[a] # NoConn /\ pc[a] = "release"
      BY <1>2, <1>30 DEF ReleaseToIdle, CanKeep, Goto, CallerShape, Holding, Checked
    <3>2. Lent[a] # NoConn /\ Lent' = [Lent EXCEPT ![a] = NoConn]
      BY <1>2, <3>1 DEF Lent, Holding, Checked, TypeOK
    <3>3. From' = [From EXCEPT ![a] = NoPool]
      BY <1>2, <3>1 DEF From, Holding, Checked, TypeOK, PoolOf
    <3> QED BY <3>2, <3>3
  <2> QED BY <2>1 DEF Lease!Next, Lease!Return
<1>31. ASSUME Discard(a) PROVE Lease!Next
  <2>1. /\ Lent[a] # NoConn
        /\ Lent' = [Lent EXCEPT ![a] = NoConn]
        /\ From' = [From EXCEPT ![a] = NoPool]
    <3>1. /\ conn' = [conn EXCEPT ![a] = NoConn] /\ pc' = [pc EXCEPT ![a] = "free"]
          /\ cur' = cur /\ hpool' = hpool /\ conn[a] # NoConn /\ pc[a] = "discard"
      BY <1>2, <1>31 DEF Discard, CanKeep, Goto, CallerShape, Holding, Checked
    <3>2. Lent[a] # NoConn /\ Lent' = [Lent EXCEPT ![a] = NoConn]
      BY <1>2, <3>1 DEF Lent, Holding, Checked, TypeOK
    <3>3. From' = [From EXCEPT ![a] = NoPool]
      BY <1>2, <3>1 DEF From, Holding, Checked, TypeOK, PoolOf
    <3> QED BY <3>2, <3>3
  <2> QED BY <2>1 DEF Lease!Next, Lease!Return
<1>32. QED BY <1>1, <1>4, <1>5, <1>6, <1>7, <1>8, <1>9, <1>10, <1>11, <1>12, <1>13, <1>14,
    <1>15, <1>16, <1>17, <1>18, <1>19, <1>20, <1>21, <1>22, <1>23, <1>24, <1>25, <1>26,
    <1>27, <1>28, <1>29, <1>30, <1>31 DEF Call, Connecting, Closing, Using, Same

-----------------------------------------------------------------------------
\* The body of ClosedForever.
ClosedStays == \A p \in Pools : status[p] = "closed" =>
                 status'[p] = "closed" /\ refs'[p] <= refs[p] /\ registered' # p

\* One step of the pool leaves a closed pool closed.
LEMMA ClosedStep == ASSUME IInv, IInv', [Next]_vars PROVE ClosedStays
<1>1. TypeOK /\ CallerShape /\ HandleShape /\ RegistryInv /\ RegistryInv'
  BY DEF IInv, Shape
<1>2. \A p \in Pools : status[p] = "closed" => status'[p] = "closed" /\ refs'[p] <= refs[p]
  <2>1. CASE UNCHANGED <<status, refs>>
    BY <1>1, <2>1 DEF TypeOK
  <2>2. CASE \E a \in Callers, h \in Handles : ConnectShared(a, h) \/ RecheckShared(a, h)
    <3>1. /\ refs' = [refs EXCEPT ![registered] = @ + 1] /\ status' = status
          /\ registered \in Pools /\ status[registered] = "open"
      BY <1>1, <2>2 DEF ConnectShared, RecheckShared, ShareOpenPool, Sharable, TypeOK
    <3> QED BY <1>1, <3>1 DEF TypeOK
  <2>3. CASE \E a \in Callers, h \in Handles, p \in Pools : Register(a, h, p)
    BY <1>1, <2>3 DEF Register, TypeOK
  <2>4. CASE \E a \in Callers : DropSharedRef(a) \/ DropLastRef(a)
    <3>1. PICK q \in Pools : /\ refs' = [refs EXCEPT ![q] = @ - 1]
                             /\ status' = status \/ status' = [status EXCEPT ![q] = "closed"]
      BY <1>1, <2>4
      DEF DropSharedRef, DropLastRef, DropRef, PoolOf, CallerShape, HandleShape, HandleCalls
    <3> QED BY <1>1, <3>1 DEF TypeOK
  <2> QED BY <2>1, <2>2, <2>3, <2>4 DEF Next, Call, Connecting, Closing, Using, vars,
      poolVars,
      ConnectMiss, CloseHandle, CallOnClosed, AcquireStart, LockDial, RecheckMiss,
          DialPoolFail, DialPoolOk, CloseIdleConn, CloseDone, TakeSlot, FindClosed,
          PopIdle, FindEmpty, DialConnOk, DialConnFail, OperationReturns, BeginOk, TxEnds,
          ReleaseToIdle, ReleaseToDiscard, Discard, FreeSlot
<1> QED BY <1>1, <1>2 DEF RegistryInv, ClosedStays

-----------------------------------------------------------------------------
\* Every variable keeps its type.
THEOREM TypeCorrect == Spec => []TypeOK
BY Inductive, ConsequencesInv, PTL

\* One goroutine at a time uses a connection (dbdrv.go): acquire never hands
\* out a connection that another caller holds, that is parked or being closed.
THEOREM ConnsExclusive == Spec => []ExclusiveConn
BY Inductive, ConsequencesInv, PTL

\* A connection opened by db-connect or acquire is closed, in hand, or parked
\* in an open pool; a closed one is in no such place, and a release that comes
\* after the db-close parks nothing in the closed pool.
THEOREM ConnsNotLost == Spec => []NoLostConn
BY Inductive, ConsequencesInv, PTL

\* pool_max bounds the connections of a pool, the parked ones included.
THEOREM PoolBounded == Spec => []PoolBound
BY Inductive, ConsequencesInv, PTL

\* acquire, release, commit and rollback take and give back slots one for one.
THEOREM SlotsBalanced == Spec => []SlotsCounted
BY Inductive, ConsequencesInv, PTL

\* DBClose on one handle never closes a pool that an open handle uses, and
\* db-connect never opens a second pool next to an open one.
THEOREM OpenHandleUsable == Spec => []OpenPoolRegistered
BY Inductive, ConsequencesInv, PTL

\* refs is the number of handles not closed.
THEOREM RefsExact == Spec => []RefsCounted
BY Inductive, ConsequencesInv, PTL

\* A closed pool stays closed and out of the registry.
THEOREM ClosedIsForever == Spec => ClosedForever
<1>1. ClosedStays <=> (\A p \in Pools : status[p] = "closed" =>
                         status'[p] = "closed" /\ refs'[p] <= refs[p] /\ registered' # p)
  BY DEF ClosedStays
<1>2. IInv /\ IInv' /\ [Next]_vars => ClosedStays
  BY ClosedStep
<1> QED BY Inductive, <1>1, <1>2, PTL DEF Spec, ClosedForever

\* The pool implements the lease table.
THEOREM PoolImplementsLease == Spec => ImplementsLease
<1>1. IInv /\ [Next]_vars => [Lease!Next]_<<Lent, From>>
  <2>1. UNCHANGED vars => UNCHANGED <<Lent, From>>
    BY DEF vars, Lent, From, PoolOf
  <2> QED BY <2>1, LeaseStep
<1> QED BY Inductive, LeaseInit, <1>1, PTL DEF Spec, ImplementsLease, Lease!Spec
=============================================================================
