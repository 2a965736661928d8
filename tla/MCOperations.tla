---------------------------- MODULE MCOperations ----------------------------
(***************************************************************************)
(* A small instance of DirectRefund, of Compensation and of PlanRun for    *)
(* TLC.  They share no variable, so a property of one of them needs only   *)
(* the behaviours in which the others stand still: `part` chooses, once,   *)
(* which of them runs.                                                     *)
(***************************************************************************)
EXTENDS Operations, TLC

CONSTANTS c1, w1, w2, reverse, other, i1, i2, i3

VARIABLE part

OneOrder == [c \in Cases |-> "order"]

\* Every step of the plan depends on the first.
Fork == [s \in 1 .. N |-> {1} \ {s}]

compensationVars == <<row, reversed, inv>>
planVars == <<plan, faults, overdue, runs, turn, ex, good, asked>>

MCInit ==
  /\ part \in {"direct", "compensation", "plan"}
  /\ Init /\ C!Init /\ P!Init

MCNext ==
  /\ \/ part = "direct" /\ Next /\ UNCHANGED <<compensationVars, planVars>>
     \/ part = "compensation" /\ C!Next /\ UNCHANGED <<vars, planVars>>
     \/ part = "plan" /\ P!Next /\ UNCHANGED <<vars, compensationVars>>
  /\ UNCHANGED part

MCSpec == MCInit /\ [][MCNext]_<<part, vars, compensationVars, planVars>>

\* Each invocation owns a lease when it calls the provider.
CallerOwnsLease == C!CallerOwnsLease

=============================================================================
