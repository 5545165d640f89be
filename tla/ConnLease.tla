----------------------------- MODULE ConnLease -----------------------------
(***************************************************************************)
(* What the connection pool of pkg/runtime/db.go promises its callers,     *)
(* without handles, idle lists, semaphores or locks: a connection is lent  *)
(* to one caller at a time, out of a pool, and a pool never has more than  *)
(* MaxOpen loans outstanding.                                              *)
(***************************************************************************)
EXTENDS Integers, FiniteSets

CONSTANTS Callers, Pools, Conns, MaxOpen, NoPool, NoConn

VARIABLES
  lent,   \* caller -> the connection lent to it, or NoConn
  from    \* caller -> the pool of that connection, or NoPool

Loans(p) == {a \in Callers : from[a] = p}

Init ==
  /\ lent = [a \in Callers |-> NoConn]
  /\ from = [a \in Callers |-> NoPool]

Lend(a, p, c) ==
  /\ lent[a] = NoConn
  /\ \A b \in Callers : lent[b] # c
  /\ Cardinality(Loans(p)) < MaxOpen
  /\ lent' = [lent EXCEPT ![a] = c]
  /\ from' = [from EXCEPT ![a] = p]

Return(a) ==
  /\ lent[a] # NoConn
  /\ lent' = [lent EXCEPT ![a] = NoConn]
  /\ from' = [from EXCEPT ![a] = NoPool]

Next ==
  \E a \in Callers :
    \/ \E p \in Pools, c \in Conns : Lend(a, p, c)
    \/ Return(a)

Spec == Init /\ [][Next]_<<lent, from>>
=============================================================================
