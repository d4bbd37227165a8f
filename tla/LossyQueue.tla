----------------------------- MODULE LossyQueue ------------------------------
(***************************************************************************)
(* What the two ends of a connection promise each other, without bytes:    *)
(* a message that is offered is accepted or dropped as a whole, and those  *)
(* accepted are delivered one by one, in the order they were accepted,     *)
(* each of them once.  Nothing says that all of them are.                  *)
(***************************************************************************)
EXTENDS Naturals, Sequences

CONSTANT Message   \* a set of numbers

VARIABLES
  accepted,    \* the messages accepted so far
  delivered    \* the messages delivered so far

queueVars == <<accepted, delivered>>

Init == accepted = << >> /\ delivered = << >>

Accept(m) == accepted' = Append(accepted, m) /\ UNCHANGED delivered

Deliver ==
  /\ Len(delivered) < Len(accepted)
  /\ delivered' = Append(delivered, accepted[Len(delivered) + 1])
  /\ UNCHANGED accepted

\* Messages are numbers, offered in increasing order.
IsNew(m) == \A k \in DOMAIN accepted : accepted[k] < m

Next == Deliver \/ \E m \in Message : IsNew(m) /\ Accept(m)

Spec == Init /\ [][Next]_queueVars

=============================================================================
