-------------------------- MODULE MCTrustedActions --------------------------
(***************************************************************************)
(* A small instance of the execution boundary for TLC.  `part` chooses,    *)
(* once, what is worth its states: three calls about one proposal while    *)
(* the business changes, or two calls about two proposals while it does    *)
(* not.                                                                    *)
(***************************************************************************)
EXTENDS TrustedActions, FiniteSets, TLC

CONSTANTS t1, t2, t3, x1, v1, v2

VARIABLE part

Busy == {t \in Threads : th[t] # IdleThread}

MCInit == Init /\ part \in {"one_proposal", "two_proposals"}

MCNext ==
  /\ Next
  /\ part = "one_proposal" => Cardinality({a \in Ids : Made(a)})' <= 1
  /\ part = "two_proposals" => biz' = biz /\ Cardinality(Busy)' <= 2
  /\ UNCHANGED part

MCSpec == MCInit /\ [][MCNext]_<<part, vars>>

Symmetry == Permutations(Threads) \union Permutations(Versions)

=============================================================================
