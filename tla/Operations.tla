----------------------------- MODULE Operations -----------------------------
(***************************************************************************)
(* What is done for a customer outside of the refund pipeline: the direct  *)
(* execution of cases, the compensation of refunds, and the plans of the   *)
(* Agent.  They share no variable, so together they behave as              *)
(* Spec /\ C!Spec /\ P!Spec.  Here stand their parameters, what is assumed *)
(* of them, and what they promise in common.                               *)
(***************************************************************************)
EXTENDS DirectRefund

CONSTANTS Keys, Supported, Invocations, NoOne, NoKey

VARIABLES row, reversed, inv

C == INSTANCE Compensation

CONSTANTS N, Deps, Writes, MaxResume, ReadAttempts, MaxExec, MaxFaults

VARIABLES plan, faults, overdue, runs, turn, ex, good, asked

P == INSTANCE PlanRun WITH late <- overdue, MaxAttempts <- ReadAttempts

\* A step depends on steps of the plan, and a read is tried at least once.
ASSUME PlanAssumption ==
  /\ N \in Nat /\ Deps \in [1 .. N -> SUBSET (1 .. N)] /\ Writes \subseteq 1 .. N
  /\ MaxResume \in Nat /\ ReadAttempts \in Nat \ {0}
  /\ MaxExec \in Nat /\ MaxFaults \in Nat

\* The types, which hold the limits of what is tried again: calls of the shop
\* by execute_case, attempts of a compensation, confirmations of a plan.
TypesOK == TypeOK /\ C!TypeOK /\ P!TypeOK

\* What is reported as done was done: a completed case was refunded, a
\* succeeded compensation was reversed or marked by a human, whoever crashed or
\* lost a lease on the way.
ReportsAreReal == CompletedWasRefunded /\ C!SuccessIsReal

\* Outcomes are final: no request and no invocation that read its rows earlier
\* reopens a completed case, takes back a success or undoes what was handed to
\* humans.
OutcomesStay == CompletedStays /\ OutcomeStays /\ C!SettlementStays

\* PlanRun: a completed step was carried out, a completed plan has no other, and
\* a plan that asks has a step to ask about.
PlanIsReal == P!CompletedIsReal /\ P!PendingHasAStep

\* PlanRun: no executor that read a plan before it ended saves over it, and the
\* stored plan says that a step is running when its write is sent.
PlanIsKept == P!EndedStays /\ P!RecordedBeforeSent

=============================================================================
