---------------------------- MODULE StepGovernor ----------------------------
(***************************************************************************)
(* The limits on a plan's tool calls: the budget of a plan, which its      *)
(* parallel reads share, and the circuit breaker of a tool, which all      *)
(* plans of the process share.  A step passes the breaker once and then    *)
(* charges the budget for each attempt; some of its ways out tell the      *)
(* breaker nothing.                                                        *)
(***************************************************************************)
EXTENDS Naturals, FiniteSets

CONSTANTS
  Plans,
  Steps, PlanOf,      \* the steps that use the tool, and their plans
  MaxAttempts,        \* of the tool's policy
  MaxToolCalls, MaxRetryAttempts,   \* of a plan's ExecutionBudget
  FailureThreshold    \* of the breaker

VARIABLES
  breaker,    \* the tool's CircuitBreaker; cooled: the cooldown is over
  budget,     \* the ExecutionBudget of each plan; late: its time is used up
  cancelled,  \* the plans whose token is cancelled
  step

vars == <<breaker, budget, cancelled, step>>

TypeOK ==
  /\ breaker \in [state: {"closed", "open", "half_open"}, failures: Nat,
                  inFlight: BOOLEAN, cooled: BOOLEAN]
  /\ budget \in [Plans -> [calls: 0 .. MaxToolCalls, retries: 0 .. MaxRetryAttempts,
                           late: BOOLEAN]]
  /\ cancelled \subseteq Plans
  /\ step \in [Steps -> [pc: {"ready", "loop", "invoke", "done"},
                         attempt: 1 .. MaxAttempts]]

Init ==
  /\ breaker = [state |-> "closed", failures |-> 0, inFlight |-> FALSE,
                cooled |-> FALSE]
  /\ budget = [p \in Plans |-> [calls |-> 0, retries |-> 0, late |-> FALSE]]
  /\ cancelled = {}
  /\ step = [s \in Steps |-> [pc |-> "ready", attempt |-> 1]]

Goto(s, pc) == step' = [step EXCEPT ![s].pc = pc]

-----------------------------------------------------------------------------
(* CircuitBreaker *)

\* allow() answers yes; a breaker that has cooled down lets one probe through.
Allowed ==
  \/ breaker.state = "closed"
  \/ breaker.state = "open" /\ breaker.cooled /\ ~breaker.inFlight
  \/ breaker.state = "half_open" /\ ~breaker.inFlight

\* The breaker after allow(), whatever it answers.
AfterAllow ==
  IF breaker.state = "closed" \/ (breaker.state = "open" /\ ~breaker.cooled)
    THEN breaker
    ELSE [breaker EXCEPT !.state = "half_open", !.inFlight = TRUE]

Success == [state |-> "closed", failures |-> 0, inFlight |-> FALSE, cooled |-> FALSE]

Failure ==
  IF breaker.state = "half_open" \/ breaker.failures + 1 >= FailureThreshold
    THEN [state |-> "open", failures |-> breaker.failures + 1, inFlight |-> FALSE,
          cooled |-> FALSE]
    ELSE [breaker EXCEPT !.failures = @ + 1, !.inFlight = FALSE]

CooldownEnds ==
  /\ breaker.state = "open" /\ ~breaker.cooled
  /\ breaker' = [breaker EXCEPT !.cooled = TRUE]
  /\ UNCHANGED <<budget, cancelled, step>>

-----------------------------------------------------------------------------
(* ExecutionBudget *)

\* (mutant of Affordable: the retry limit is not compared)
AffordableAnyway(s) ==
  /\ ~budget[PlanOf[s]].late
  /\ budget[PlanOf[s]].calls + 1 <= MaxToolCalls

\* consume_call() raises no error.
Affordable(s) ==
  LET b == budget[PlanOf[s]]
  IN  /\ ~b.late
      /\ b.calls + 1 <= MaxToolCalls
      /\ step[s].attempt > 1 => b.retries + 1 <= MaxRetryAttempts

Consumed(s) ==
  [budget EXCEPT ![PlanOf[s]].calls = @ + 1,
                 ![PlanOf[s]].retries = IF step[s].attempt > 1 THEN @ + 1 ELSE @]

TimeEnds(p) ==
  /\ ~budget[p].late
  /\ budget' = [budget EXCEPT ![p].late = TRUE]
  /\ UNCHANGED <<breaker, cancelled, step>>

Cancel(p) ==
  /\ p \notin cancelled
  /\ cancelled' = cancelled \union {p}
  /\ UNCHANGED <<breaker, budget, step>>

-----------------------------------------------------------------------------
(* _execute_step *)

Allow(s) ==
  /\ step[s].pc = "ready" /\ PlanOf[s] \notin cancelled
  /\ breaker' = AfterAllow
  /\ Goto(s, IF Allowed THEN "loop" ELSE "done")
  /\ UNCHANGED <<budget, cancelled>>

\* The head of the retry loop: a cancelled step and one that has no budget left
\* return from here.
Loop(s) ==
  /\ step[s].pc = "loop"
  /\ IF PlanOf[s] \in cancelled \/ ~Affordable(s)
       THEN Goto(s, "done") /\ UNCHANGED budget
       ELSE /\ budget' = Consumed(s)
            /\ Goto(s, "invoke")
  /\ UNCHANGED <<breaker, cancelled>>

Completes(s) ==
  /\ step[s].pc = "invoke" /\ PlanOf[s] \notin cancelled
  /\ breaker' = Success
  /\ Goto(s, "done")
  /\ UNCHANGED <<budget, cancelled>>

\* The call fails and is tried again, or it fails for the last time or runs out
\* of time.
Fails(s) ==
  /\ step[s].pc = "invoke" /\ PlanOf[s] \notin cancelled
  /\ \/ /\ step[s].attempt < MaxAttempts
        /\ step' = [step EXCEPT ![s] = [pc |-> "loop", attempt |-> @.attempt + 1]]
        /\ UNCHANGED breaker
     \/ breaker' = Failure /\ Goto(s, "done")
  /\ UNCHANGED <<budget, cancelled>>

\* A cancellation is seen before, during or after the call.
Leaves(s) ==
  /\ step[s].pc = "invoke" /\ PlanOf[s] \in cancelled
  /\ Goto(s, "done")
  /\ UNCHANGED <<breaker, budget, cancelled>>

Next ==
  \/ CooldownEnds
  \/ \E p \in Plans : TimeEnds(p) \/ Cancel(p)
  \/ \E s \in Steps : Allow(s) \/ Loop(s) \/ Completes(s) \/ Fails(s) \/ Leaves(s)

Spec == Init /\ [][Next]_vars

-----------------------------------------------------------------------------

\* After a cooldown the breaker tries the tool again: an open breaker that has
\* cooled down, and a half-open one, let a step through unless one is at work.
RecoversAfterCooldown ==
  \/ Allowed
  \/ breaker.state = "open" /\ ~breaker.cooled
  \/ \E s \in Steps : step[s].pc \in {"loop", "invoke"}

=============================================================================
