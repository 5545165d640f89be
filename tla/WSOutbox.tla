------------------------------ MODULE WSOutbox ------------------------------
(***************************************************************************)
(* What a WebSocket connection of pkg/web promises to those who write to   *)
(* it: what is accepted is written in the order accepted, each message at  *)
(* most once, until the connection goes; of what was accepted by then only *)
(* the frame being written may still arrive, and no more than Limit frames *)
(* ever wait.  Between the messages there are control frames, which those  *)
(* who read do not see.  Nothing is promised about what waits when the     *)
(* connection goes.                                                        *)
(***************************************************************************)
EXTENDS Naturals, Sequences

CONSTANTS Conns, Messages, Control, Limit

VARIABLES
  outbox,  \* frames accepted and not written, per connection
  inbox,   \* messages written
  gone     \* has the connection been closed?

vars == <<outbox, inbox, gone>>

In(m, s) == \E i \in DOMAIN s : s[i] = m

Init ==
  /\ outbox = [c \in Conns |-> <<>>]
  /\ inbox = [c \in Conns |-> <<>>]
  /\ gone = [c \in Conns |-> FALSE]

Accept(c, f) ==
  /\ ~gone[c]
  /\ f \in Messages => ~In(f, outbox[c]) /\ ~In(f, inbox[c])
  /\ Len(outbox[c]) < Limit
  /\ outbox' = [outbox EXCEPT ![c] = Append(@, f)]
  /\ UNCHANGED <<inbox, gone>>

Deliver(c) ==
  /\ outbox[c] # <<>>
  /\ inbox' = IF Head(outbox[c]) \in Messages
              THEN [inbox EXCEPT ![c] = Append(@, Head(outbox[c]))] ELSE inbox
  /\ outbox' = [outbox EXCEPT ![c] = Tail(@)]
  /\ UNCHANGED gone

\* The connection is closed; the frame being written may be kept.
Go(c) ==
  /\ ~gone[c]
  /\ gone' = [gone EXCEPT ![c] = TRUE]
  /\ \/ outbox' = [outbox EXCEPT ![c] = <<>>]
     \/ outbox[c] # <<>> /\ outbox' = [outbox EXCEPT ![c] = <<Head(@)>>]
  /\ UNCHANGED inbox

\* The frame being written at that time does not arrive.
Lose(c) ==
  /\ gone[c]
  /\ outbox' = [outbox EXCEPT ![c] = <<>>]
  /\ UNCHANGED <<inbox, gone>>

Next == \E c \in Conns :
  \/ \E f \in Messages \cup {Control} : Accept(c, f)
  \/ Deliver(c) \/ Go(c) \/ Lose(c)

Spec == Init /\ [][Next]_vars
=============================================================================
