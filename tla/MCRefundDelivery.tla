-------------------------- MODULE MCRefundDelivery --------------------------
(***************************************************************************)
(* A small instance of the refund pipeline for TLC.  `part` chooses, once, *)
(* what is worth its states: two refunds of one order that nobody asks to  *)
(* query again, or one refund whose queries an operator asks for again.    *)
(***************************************************************************)
EXTENDS RefundDelivery, TLC

CONSTANTS o1, o2, w1, w2

VARIABLE part

SameOrder == [o \in Ops |-> "order"]

InPlay == {o \in Ops : op[o].status # "none" \/ case[o] # "none"}

MCInit == Init /\ part \in {"two_refunds", "asked_again"}

MCNext ==
  /\ Next
  /\ part = "two_refunds" => asked' = {}
  /\ part = "asked_again" => Cardinality(InPlay') <= 1
  /\ UNCHANGED part

MCSpec == MCInit /\ [][MCNext]_<<part, vars>>

Symmetry == Permutations(Workers) \union Permutations(Ops)

=============================================================================
