------------------------------- MODULE PlanRun -------------------------------
(***************************************************************************)
(* One plan of the Agent: its row in `plans`, its leases in `plan_runs`,   *)
(* and the executors that work on it.  An executor is one claim of the     *)
(* background run that carries the customer's message (the turn); a turn   *)
(* whose executor died is claimed again and the plan goes on from its last *)
(* checkpoint.  A checkpoint is five transactions: the turn's lease is     *)
(* checked, the plan's lease is claimed, the plan is saved under its       *)
(* version, the plan's fence is checked and renewed, and the turn notes    *)
(* that there is a checkpoint.  Tool calls go through the turn's journal.  *)
(*                                                                         *)
(* Steps are numbered as ExecutionPlan.ordered_steps orders them.  The     *)
(* statuses timed_out and skipped count as failed: nothing tells them      *)
(* apart.                                                                  *)
(***************************************************************************)
EXTENDS Naturals, Sequences, FiniteSetsExt

CONSTANTS
  N,            \* steps of the plan
  Deps,         \* depends_on, as a function of the step
  Writes,       \* steps whose tool is not read-only
  MaxResume,    \* max_resume_count
  MaxAttempts,  \* read_max_attempts
  MaxExec,      \* bound: claims of a turn, over all turns
  MaxFaults     \* bound: crashes, failures, lost leases and requests of the API

VARIABLES
  plan,    \* the row of plans
  faults,  \* how many of those there were
  late,    \* expires_at has passed
  runs,    \* the rows of plan_runs of this plan, by fencing token
  turn,    \* the background run of the conversation's last message
  ex,      \* the local state of each executor
  good,    \* history: steps whose tool succeeded
  asked    \* history: steps that a confirmation was applied to

vars == <<plan, faults, late, runs, turn, ex, good, asked>>

-----------------------------------------------------------------------------
(* Vocabulary *)

Steps == 1 .. N
Execs == 1 .. MaxExec

Outcomes == {"completed", "failed", "awaiting_confirmation"}
StepStatus == Outcomes \union {"none", "running", "cancelled"}
Ended == {"completed", "failed", "cancelled", "expired"}
PlanStatus == Ended \union {"none", "running", "awaiting_confirmation"}

\* The n-th call of a step's tool; prepare_action is call 0 of a write.
CallIds == {c \in Steps \X (0 .. MaxAttempts) :
              IF c[1] \in Writes THEN c[2] <= 1 ELSE c[2] >= 1}
Attempts(s) == IF s \in Writes THEN 1 ELSE MaxAttempts

AllSteps(v) == [s \in Steps |-> v]

\* A run_id is named after the executor that generated it.
Plans == [status: PlanStatus, version: Nat, resume: 0 .. MaxResume,
          run: Execs \union {0}, steps: [Steps -> StepStatus]]
NoPlan == [status |-> "none", version |-> 0, resume |-> 0, run |-> 0,
           steps |-> AllSteps("none")]

RunRows == [id: Execs, owner: Execs, live: BOOLEAN, cancel: BOOLEAN,
            status: {"running", "awaiting_confirmation", "completed",
                     "failed", "cancelled", "fenced"}]

\* owner is the last executor; initial is the snapshot of the plan that the
\* first one took, mark says that plan_checkpoints has an entry.
Turns == [open: BOOLEAN, kind: {"ask", "confirm"}, owner: Execs \union {0},
          lease: BOOLEAN, taken: BOOLEAN, initial: Plans, mark: BOOLEAN,
          journal: [CallIds -> Outcomes \union {"none", "in_flight"}]]

NewTurn(k, o) ==
  [open |-> TRUE, kind |-> k, owner |-> o, lease |-> FALSE, taken |-> FALSE,
   initial |-> NoPlan, mark |-> FALSE, journal |-> [c \in CallIds |-> "none"]]

\* What a turn was about does not matter once it is over.
ClosedTurn(o) == [NewTurn("ask", o) EXCEPT !.open = FALSE]

Nexts == {"execute", "loop", "more", "call", "final", "end"}
Pcs == {"idle", "begin", "route", "check", "claim", "save", "fence", "finish",
        "mark", "loop", "call", "end", "gone"}

\* life is the executor's copy of the plan, res its result_by_id, prev its
\* previous_by_id; via tells _checkpoint_plan from _record_plan.
Executors ==
  [pc: Pcs, via: {"checkpoint", "record"}, next: Nexts, life: Plans,
   prev: [Steps -> StepStatus], res: [Steps -> StepStatus],
   conf: SUBSET Steps, batch: SUBSET Steps, todo: SUBSET Steps,
   open: SUBSET Steps, tries: [Steps -> 0 .. MaxAttempts],
   handle: Nat, seen: BOOLEAN]

Fresh(p) ==
  [pc |-> p, via |-> "record", next |-> "end", life |-> NoPlan,
   prev |-> AllSteps("none"), res |-> AllSteps("none"), conf |-> {},
   batch |-> {}, todo |-> {}, open |-> {}, tries |-> AllSteps(0),
   handle |-> 0, seen |-> FALSE]

TypeOK ==
  /\ plan \in Plans
  /\ faults \in 0 .. MaxFaults
  /\ late \in BOOLEAN
  /\ runs \in Seq(RunRows)
  /\ turn \in Turns
  /\ ex \in [Execs -> Executors]
  /\ good \subseteq Steps /\ asked \subseteq Steps

Init ==
  /\ plan = NoPlan
  /\ faults = 0
  /\ late = FALSE
  /\ runs = <<>>
  /\ turn = ClosedTurn(0)
  /\ ex = [e \in Execs |-> Fresh("idle")]
  /\ good = {} /\ asked = {}

With(f, S, v) == [s \in Steps |-> IF s \in S THEN v ELSE f[s]]
In(f, v) == {s \in Steps : f[s] = v}

\* PlanLifecycleService._expire_if_needed, which every read of a plan applies.
Aged(p) ==
  IF late /\ p.status \in {"awaiting_confirmation", "running"}
    THEN [p EXCEPT !.status = "expired", !.version = @ + 1] ELSE p

Fault == faults < MaxFaults /\ faults' = faults + 1

\* The executor holds the turn: RunContext.check.
Own(e) == turn.open /\ turn.lease /\ turn.owner = e

\* PlanRun.lease_active.
Active(f) == runs[f].status = "running" /\ runs[f].live

\* CancellationToken.cancelled with the probe _plan_cancel_requested.
Cancelled(e) == ex[e].seen \/ \E f \in DOMAIN runs : Active(f) /\ runs[f].cancel

\* _conditional_update: only the latest fence writes, while it runs.
Fenced(e) == \/ ex[e].handle # Len(runs)
             \/ runs[ex[e].handle].status # "running"

\* The executor stops.  While it holds the turn it ends it, or gives it back
\* to be claimed again.
Quit(e, again) ==
  /\ ex' = [ex EXCEPT ![e] = Fresh("gone")]
  /\ turn' = IF ~Own(e) THEN turn
             ELSE IF again THEN [turn EXCEPT !.lease = FALSE]
             ELSE ClosedTurn(turn.owner)

-----------------------------------------------------------------------------
(* The turn *)

\* A message arrives when the conversation has no run under way.  Only a
\* request for the first plan, a confirmation, and a message that drops a
\* pending plan concern this plan.
Submit(k) ==
  /\ ~turn.open
  /\ turn.owner < MaxExec
  /\ k = "ask" => plan.status \in {"none", "awaiting_confirmation"}
  /\ k = "confirm" => plan.status \in {"awaiting_confirmation", "running"}
  /\ turn' = NewTurn(k, turn.owner)
  /\ UNCHANGED <<faults, plan, late, runs, ex, good, asked>>

\* A worker claims the turn: a new one, or one whose lease has ended.
ClaimTurn ==
  /\ turn.open /\ ~turn.lease
  /\ turn.owner < MaxExec
  /\ turn' = [turn EXCEPT !.owner = @ + 1, !.lease = TRUE]
  /\ ex' = [ex EXCEPT ![turn.owner + 1] = Fresh("begin")]
  /\ UNCHANGED <<faults, plan, late, runs, good, asked>>

TurnLeaseExpires ==
  /\ Fault
  /\ turn.open /\ turn.lease
  /\ turn' = [turn EXCEPT !.lease = FALSE]
  /\ UNCHANGED <<plan, late, runs, ex, good, asked>>

\* The process dies; its leases run out by themselves.
Die(e) ==
  /\ Fault
  /\ ex[e].pc \notin {"idle", "gone"}
  /\ ex' = [ex EXCEPT ![e] = Fresh("gone")]
  /\ UNCHANGED <<plan, late, runs, turn, good, asked>>

\* An exception that is not the plan's: the planner fails, the turn is
\* cancelled or handed over, the database is away.
Fail(e, again) ==
  /\ Fault
  /\ ex[e].pc \notin {"idle", "gone"}
  /\ Own(e)
  /\ Quit(e, again)
  /\ UNCHANGED <<plan, late, runs, good, asked>>

\* The turn is finished.
EndTurn(e) ==
  /\ ex[e].pc = "end"
  /\ Quit(e, FALSE)
  /\ UNCHANGED <<faults, plan, late, runs, good, asked>>

-----------------------------------------------------------------------------
(* The checkpoint and its transactions *)

\* The executor is about to save p and to go on at n.
Saving(x, v, p, n) == [x EXCEPT !.pc = "check", !.via = v, !.life = p, !.next = n]

\* PlanExecutor.execute up to "plan.run.started": no result is known yet.
Started(x, p, c) ==
  Saving([x EXCEPT !.prev = p.steps, !.conf = c], "checkpoint",
         [p EXCEPT !.steps = AllSteps("none")], "loop")

\* (mutant of RunningCheckpoint: the steps that are about to run are not saved)
RunWithoutRecord(x, S) ==
  Saving([x EXCEPT !.batch = S], "checkpoint", [x.life EXCEPT !.steps = x.res], "call")

\* _running_checkpoint for the steps S.
RunningCheckpoint(x, S) ==
  Saving([x EXCEPT !.batch = S], "checkpoint",
         [x.life EXCEPT !.steps = With(x.res, S, "running")], "call")

\* Where an executor goes on after a checkpoint: PlanExecuteStrategy.resume
\* takes what was awaiting as confirmed; the scheduler takes the next step that
\* runs alone; the chat records the result of the strategy once more.
Continue(x) ==
  CASE x.next = "execute" ->
         Started(x, x.life, In(x.life.steps, "awaiting_confirmation"))
    [] x.next = "more" ->
         RunningCheckpoint([x EXCEPT !.todo = @ \ {Min(@)}], {Min(x.todo)})
    [] x.next = "final" -> Saving(x, "record", x.life, "end")
    [] OTHER -> [x EXCEPT !.pc = x.next]

\* The row of plan_runs the executor works under, or 0.
RunOf(e) ==
  IF ex[e].handle # 0 THEN ex[e].handle
  ELSE LET F == {f \in DOMAIN runs : runs[f].id = ex[e].life.run}
       IN IF F = {} THEN 0 ELSE Max(F)

\* The head of _record_plan and of _checkpoint_plan: a lease of another
\* executor is waited for while it is active, and replaced when it is not.
Check(e) ==
  /\ ex[e].pc = "check"
  /\ LET f == RunOf(e) IN
     IF ~Own(e) THEN Quit(e, FALSE)
     ELSE IF ex[e].via = "record"
       THEN ex' = [ex EXCEPT ![e].pc = "save"] /\ UNCHANGED turn
     ELSE IF f = 0
       THEN ex' = [ex EXCEPT ![e].pc = "claim"] /\ UNCHANGED turn
     ELSE IF runs[f].owner = e
       THEN ex' = [ex EXCEPT ![e].pc = "save", ![e].handle = f] /\ UNCHANGED turn
     ELSE IF Active(f) THEN Quit(e, TRUE)
     ELSE ex' = [ex EXCEPT ![e].pc = "claim", ![e].life.run = e] /\ UNCHANGED turn
  /\ UNCHANGED <<faults, plan, late, runs, good, asked>>

\* claim fences the rows that run without a lease.
FenceExpired ==
  [f \in DOMAIN runs |-> IF runs[f].status = "running"
                          THEN [runs[f] EXCEPT !.status = "fenced"] ELSE runs[f]]

\* SqlPlanRunRepository.claim, as one step; PlanStore takes its statements one
\* by one.
ClaimRun(e) ==
  /\ ex[e].pc = "claim"
  /\ IF \E f \in DOMAIN runs : Active(f)
       THEN Quit(e, FALSE) /\ UNCHANGED runs
       ELSE /\ runs' = Append(FenceExpired,
                              [id |-> ex[e].life.run, owner |-> e, live |-> TRUE,
                               cancel |-> FALSE, status |-> "running"])
            /\ ex' = [ex EXCEPT ![e].pc = "save", ![e].handle = Len(runs) + 1]
            /\ UNCHANGED turn
  /\ UNCHANGED <<faults, plan, late, good, asked>>

\* (mutant of Stale: the version is not compared)
NeverStale(e) == FALSE

\* PlanRepository.save compares the version.
Stale(e) == plan.version # ex[e].life.version

Save(e) ==
  /\ ex[e].pc = "save"
  /\ IF Stale(e)
       THEN Quit(e, FALSE) /\ UNCHANGED <<plan>>
       ELSE LET p == [ex[e].life EXCEPT !.version = plan.version + 1]
            IN /\ plan' = p
               /\ ex' = [ex EXCEPT ![e].life = p,
                                   ![e].pc = IF ex[e].via = "record"
                                               THEN "mark" ELSE "fence"]
               /\ UNCHANGED turn
  /\ UNCHANGED <<faults, late, runs, good, asked>>

\* PlanRunService.checkpoint: renew and checkpoint.
Fence(e) ==
  /\ ex[e].pc = "fence"
  /\ IF Fenced(e)
       THEN Quit(e, FALSE) /\ UNCHANGED runs
       ELSE /\ runs' = [runs EXCEPT ![ex[e].handle].live = TRUE]
            /\ ex' = [ex EXCEPT ![e].pc = IF ex[e].life.status = "running"
                                            THEN "mark" ELSE "finish"]
            /\ UNCHANGED turn
  /\ UNCHANGED <<faults, plan, late, good, asked>>

\* PlanRunService.finish.
Finish(e) ==
  /\ ex[e].pc = "finish"
  /\ IF Fenced(e)
       THEN Quit(e, FALSE) /\ UNCHANGED runs
       ELSE /\ runs' = [runs EXCEPT ![ex[e].handle].status = ex[e].life.status,
                                    ![ex[e].handle].live = FALSE]
            /\ ex' = [ex EXCEPT ![e].pc = "mark"]
            /\ UNCHANGED turn
  /\ UNCHANGED <<faults, plan, late, good, asked>>

\* The turn's plan_checkpoints.
Mark(e) ==
  /\ ex[e].pc = "mark"
  /\ IF Own(e)
       THEN /\ turn' = [turn EXCEPT !.mark = TRUE]
            /\ ex' = [ex EXCEPT ![e] = Continue(@)]
       ELSE Quit(e, FALSE)
  /\ UNCHANGED <<faults, plan, late, runs, good, asked>>

-----------------------------------------------------------------------------
(* Chat and PlanExecuteStrategy: how an executor begins *)

\* _restore_latest_plan, once in a turn.
TakeSnapshot(e) ==
  /\ ex[e].pc = "begin"
  /\ Own(e)
  /\ plan' = IF turn.taken THEN plan ELSE Aged(plan)
  /\ turn' = IF turn.taken THEN turn
             ELSE [turn EXCEPT !.taken = TRUE, !.initial = Aged(plan)]
  /\ ex' = [ex EXCEPT ![e].pc = "route"]
  /\ UNCHANGED <<faults, late, runs, good, asked>>

\* Nobody has this plan yet.
Unmade == plan = NoPlan /\ runs = <<>> /\ \A d \in Execs : ex[d].life = NoPlan

\* A request without a pending plan: a plan is made.
Create(e) ==
  /\ ex[e].pc = "route" /\ Own(e)
  /\ turn.kind = "ask" /\ turn.initial.status = "none" /\ ~turn.mark
  /\ Unmade
  /\ ex' = [ex EXCEPT ![e] =
              Started(@, [NoPlan EXCEPT !.status = "running", !.run = e], {})]
  /\ UNCHANGED <<faults, plan, late, runs, turn, good, asked>>

\* The steps that a recovered execution takes as confirmed.
Reconfirmed(p) ==
  IF p.resume > 0 THEN In(p.steps, "awaiting_confirmation") ELSE {}

\* PlanExecuteStrategy.run in a turn that has a checkpoint: the plan on disk
\* goes on if it is running, and is reported if it has stopped.
Recover(e) ==
  /\ ex[e].pc = "route" /\ Own(e)
  /\ turn.mark
  /\ ex' = [ex EXCEPT ![e] = IF plan.status = "running"
                               THEN Started(@, plan, Reconfirmed(plan))
                               ELSE Saving(@, "record", plan, "end")]
  /\ UNCHANGED <<faults, plan, late, runs, turn, good, asked>>

\* (mutant of Exhausted: off by one)
ExhaustedAfter(p) == p.resume > MaxResume

\* begin_resume: the plan has used up its confirmations.
Exhausted(p) == p.resume >= MaxResume

\* _resume_pending_plan: begin_resume consumes a confirmation before anything
\* is executed, unless the plan is out of date or out of confirmations.
Resume(e) ==
  /\ ex[e].pc = "route" /\ Own(e)
  /\ turn.kind = "confirm" /\ turn.initial.status = "awaiting_confirmation"
  /\ ~turn.mark
  /\ LET p == turn.initial IN
     ex' = [ex EXCEPT ![e] =
       IF late THEN Saving(@, "record", [p EXCEPT !.status = "expired"], "end")
       ELSE IF Exhausted(p)
         THEN Saving(@, "record", [p EXCEPT !.status = "failed"], "end")
       ELSE Saving(@, "record", [p EXCEPT !.status = "running",
                                          !.resume = @ + 1, !.run = e], "execute")]
  /\ asked' = asked \union In(turn.initial.steps, "awaiting_confirmation")
  /\ UNCHANGED <<faults, plan, late, runs, turn, good>>

\* Any other message: it cancels a plan that is still pending, a confirmation
\* of a running plan is ignored, and a request that is executed again before its
\* first checkpoint was noted makes another plan.
OtherMessage(e) ==
  /\ ex[e].pc = "route" /\ Own(e)
  /\ ~turn.mark
  /\ \/ turn.kind = "ask" /\ (turn.initial.status # "none" \/ ~Unmade)
     \/ turn.kind = "confirm" /\ turn.initial.status # "awaiting_confirmation"
  /\ plan' = LET p == Aged(plan) IN
             IF turn.initial.status = "awaiting_confirmation"
               /\ p.status = "awaiting_confirmation"
               THEN [p EXCEPT !.status = "cancelled", !.version = @ + 1]
             ELSE IF turn.initial.status = "awaiting_confirmation" THEN p
             ELSE plan
  /\ ex' = [ex EXCEPT ![e].pc = "end"]
  /\ UNCHANGED <<faults, late, runs, turn, good, asked>>

-----------------------------------------------------------------------------
(* PlanExecutor.execute: the scheduler *)

\* _terminate_pending.
Terminate(e, s, st) ==
  ex' = [ex EXCEPT ![e] =
           Saving([Fresh("loop") EXCEPT !.handle = ex[e].handle], "checkpoint",
                  [@.life EXCEPT !.status = st,
                                 !.steps = With(ex[e].res, In(ex[e].res, "none"), s)],
                  "final")]

SeeCancel(e) ==
  /\ ex[e].pc = "loop"
  /\ In(ex[e].res, "none") # {}
  /\ Cancelled(e)
  /\ Terminate(e, "cancelled", "cancelled")
  /\ UNCHANGED <<faults, plan, late, runs, turn, good, asked>>

\* The time budget of the plan is used up.
TimeOut(e) ==
  /\ ex[e].pc = "loop"
  /\ In(ex[e].res, "none") # {}
  /\ ~Cancelled(e)
  /\ Terminate(e, "failed", "failed")
  /\ UNCHANGED <<faults, plan, late, runs, turn, good, asked>>

Ready(res) == {s \in In(res, "none") : \A d \in Deps[s] : res[d] # "none"}
Satisfied(res, s) == \A d \in Deps[s] : res[d] = "completed"

\* One level of the plan: completed steps of before are reused, then the reads
\* that can run do so together, then the other steps one by one.
Schedule(e) ==
  /\ ex[e].pc = "loop"
  /\ ~Cancelled(e)
  /\ LET ready == Ready(ex[e].res)
         reuse == {s \in ready : ex[e].prev[s] = "completed"}
         res   == With(ex[e].res, reuse, "completed")
         reads == {s \in (ready \ reuse) \ Writes : Satisfied(res, s)}
         rest  == (ready \ reuse) \ reads
         x     == [ex[e] EXCEPT !.res = res, !.todo = rest]
     IN /\ ready # {}
        /\ ex' = [ex EXCEPT ![e] =
             IF reads # {} THEN RunningCheckpoint(x, reads)
             ELSE IF rest # {} THEN Continue([x EXCEPT !.next = "more"])
             ELSE x]
  /\ UNCHANGED <<faults, plan, late, runs, turn, good, asked>>

\* The checkpoint after a batch.
Collect(e) ==
  /\ ex[e].pc = "call"
  /\ \A s \in ex[e].batch : ex[e].res[s] # "none"
  /\ ex' = [ex EXCEPT ![e] =
              Saving([@ EXCEPT !.batch = {}], "checkpoint",
                     [@.life EXCEPT !.steps = ex[e].res],
                     IF ex[e].todo = {} THEN "loop" ELSE "more")]
  /\ UNCHANGED <<faults, plan, late, runs, turn, good, asked>>

\* (mutant of Derived: a plan whose steps all ran is completed)
DerivedFromRun(res) ==
  IF In(res, "awaiting_confirmation") # {} THEN "awaiting_confirmation"
  ELSE IF In(res, "cancelled") # {} THEN "cancelled" ELSE "completed"

\* (mutant of Derived: a plan with an open write waits)
DerivedFromTool(res) ==
  IF Writes \subseteq In(res, "completed") THEN "completed" ELSE "awaiting_confirmation"

\* _derive_status.
Derived(res) ==
  IF In(res, "awaiting_confirmation") # {} THEN "awaiting_confirmation"
  ELSE IF In(res, "cancelled") # {} THEN "cancelled"
  ELSE IF In(res, "completed") = Steps THEN "completed"
  ELSE "failed"

Conclude(e) ==
  /\ ex[e].pc = "loop"
  /\ In(ex[e].res, "none") = {}
  /\ ex' = [ex EXCEPT ![e] =
              Saving([Fresh("loop") EXCEPT !.handle = ex[e].handle], "checkpoint",
                     [@.life EXCEPT !.steps = ex[e].res,
                                    !.status = Derived(ex[e].res)],
                     "final")]
  /\ UNCHANGED <<faults, plan, late, runs, turn, good, asked>>

-----------------------------------------------------------------------------
(* _execute_step and _invoke_tool *)

Waiting(e, s) ==
  /\ ex[e].pc = "call"
  /\ s \in ex[e].batch \ ex[e].open
  /\ ex[e].res[s] = "none"

\* A step ends without a call: a dependency did not complete; the plan was
\* cancelled; a reference, the circuit breaker or the budget refuses it.
NoCall(e, s, v) ==
  /\ Waiting(e, s)
  /\ IF ~Satisfied(ex[e].res, s) THEN v = "failed"
     ELSE IF Cancelled(e) THEN v = "cancelled"
     ELSE v = "failed"
  /\ ex' = [ex EXCEPT ![e].res[s] = v, ![e].seen = @ \/ v = "cancelled"]
  /\ UNCHANGED <<faults, plan, late, runs, turn, good, asked>>

Unconfirmed(e, s) == s \in Writes /\ s \notin ex[e].conf

\* What the executor makes of an answer: a failed read is tried again.
Answered(x, s, n, v) ==
  IF v = "failed" /\ n < Attempts(s) /\ n > 0 THEN [x EXCEPT !.tries[s] = n]
  ELSE [x EXCEPT !.res[s] = v, !.tries[s] = n]

\* RunContext.call: the journal answers a call that has completed, refuses a
\* write that has begun, and notes any other before it is made.
BeginCall(e, s) ==
  /\ Waiting(e, s)
  /\ Satisfied(ex[e].res, s)
  /\ ~Cancelled(e)
  /\ LET n == IF Unconfirmed(e, s) THEN 0 ELSE ex[e].tries[s] + 1
         j == turn.journal[<<s, n>>]
     IN IF ~Own(e) \/ (j = "in_flight" /\ s \in Writes) THEN Quit(e, FALSE)
        ELSE IF j \in Outcomes
          THEN /\ ex' = [ex EXCEPT ![e] = Answered(@, s, n, j)]
               /\ UNCHANGED turn
        ELSE /\ turn' = [turn EXCEPT !.journal[<<s, n>>] = "in_flight"]
             /\ ex' = [ex EXCEPT ![e].open = @ \union {s}, ![e].tries[s] = n]
  /\ UNCHANGED <<faults, plan, late, runs, good, asked>>

\* The tool answers v and the journal takes it.  A cancellation that is seen
\* then overrides the result of a call, not that of a proposal.  Only a write
\* asks for a confirmation, and a proposal never completes a step.
EndCall(e, s, v) ==
  /\ s \in ex[e].open
  /\ LET n == ex[e].tries[s] IN
     /\ v = "awaiting_confirmation" => s \in Writes
     /\ v = "completed" => n > 0
     /\ good' = IF v = "completed" THEN good \union {s} ELSE good
     /\ IF ~Own(e) THEN Quit(e, FALSE)
        ELSE /\ turn' = [turn EXCEPT !.journal[<<s, n>>] = v]
             /\ LET x == [ex[e] EXCEPT !.open = @ \ {s}] IN
                ex' = [ex EXCEPT ![e] =
                         IF n > 0 /\ Cancelled(e)
                           THEN [x EXCEPT !.res[s] = "cancelled", !.seen = TRUE]
                           ELSE Answered(x, s, n, v)]
  /\ UNCHANGED <<faults, plan, late, runs, asked>>

\* The executor stops waiting for a call that goes on: its time is up, a
\* cancellation is seen, a heartbeat was refused, or its answer is uncertain.
LeaveCall(e, s) ==
  /\ s \in ex[e].open
  /\ LET v == IF Cancelled(e) /\ ex[e].tries[s] > 0 THEN "cancelled" ELSE "failed"
     IN ex' = [ex EXCEPT ![e].open = @ \ {s}, ![e].res[s] = v,
                         ![e].seen = @ \/ v = "cancelled"]
  /\ UNCHANGED <<faults, plan, late, runs, turn, good, asked>>

\* A call that was left behind returns while the executor is still at work.
ReturnLate(e, s) ==
  /\ s \notin ex[e].open
  /\ ex[e].tries[s] > 0 /\ ex[e].res[s] # "none"
  /\ Own(e)
  /\ turn.journal[<<s, ex[e].tries[s]>>] = "in_flight"
  /\ turn' = [turn EXCEPT !.journal[<<s, ex[e].tries[s]>>] = "completed"]
  /\ good' = good \union {s}
  /\ UNCHANGED <<faults, plan, late, runs, ex, asked>>

\* _heartbeat_plan while a call is waited for.
Heartbeat(e) ==
  /\ ex[e].open # {}
  /\ ex[e].handle # 0 /\ ~Fenced(e)
  /\ ~runs[ex[e].handle].live
  /\ runs' = [runs EXCEPT ![ex[e].handle].live = TRUE]
  /\ UNCHANGED <<faults, plan, late, turn, ex, good, asked>>

-----------------------------------------------------------------------------
(* The API, and time *)

\* GET of a plan.
ReadPlan ==
  /\ plan # Aged(plan)
  /\ plan' = Aged(plan)
  /\ UNCHANGED <<faults, late, runs, turn, ex, good, asked>>

\* DELETE of a plan that waits for a confirmation.
CancelPlan ==
  /\ Fault
  /\ Aged(plan).status = "awaiting_confirmation"
  /\ plan' = [plan EXCEPT !.status = "cancelled", !.version = @ + 1]
  /\ UNCHANGED <<late, runs, turn, ex, good, asked>>

\* DELETE of a running plan: request_cancel on its active run.
RequestCancel(f) ==
  /\ Fault
  /\ Aged(plan).status = "running"
  /\ Active(f)
  /\ ~runs[f].cancel
  /\ runs' = [runs EXCEPT ![f].cancel = TRUE]
  /\ UNCHANGED <<plan, late, turn, ex, good, asked>>

Expire ==
  /\ Fault
  /\ plan.status # "none"
  /\ ~late
  /\ late' = TRUE
  /\ UNCHANGED <<plan, runs, turn, ex, good, asked>>

RunLeaseExpires(f) ==
  /\ Fault
  /\ Active(f)
  /\ runs' = [runs EXCEPT ![f].live = FALSE]
  /\ UNCHANGED <<plan, late, turn, ex, good, asked>>

Next ==
  \/ \E k \in {"ask", "confirm"} : Submit(k)
  \/ ClaimTurn \/ TurnLeaseExpires \/ ReadPlan \/ CancelPlan \/ Expire
  \/ \E f \in DOMAIN runs : RequestCancel(f) \/ RunLeaseExpires(f)
  \/ \E e \in Execs :
       \/ Die(e) \/ EndTurn(e)
       \/ \E again \in BOOLEAN : Fail(e, again)
       \/ Check(e) \/ ClaimRun(e) \/ Save(e) \/ Fence(e) \/ Finish(e) \/ Mark(e)
       \/ TakeSnapshot(e) \/ Create(e) \/ Recover(e) \/ Resume(e)
       \/ OtherMessage(e)
       \/ SeeCancel(e) \/ TimeOut(e) \/ Schedule(e)
       \/ Collect(e) \/ Conclude(e) \/ Heartbeat(e)
       \/ \E s \in Steps :
            \/ \E v \in {"failed", "cancelled"} : NoCall(e, s, v)
            \/ \E v \in Outcomes : EndCall(e, s, v)
            \/ BeginCall(e, s) \/ LeaveCall(e, s) \/ ReturnLate(e, s)

Spec == Init /\ [][Next]_vars

-----------------------------------------------------------------------------
(* Properties *)

\* A step that the plan reports as completed was carried out by its tool, and
\* a completed plan has no other step (PlanExecutor.execute, _derive_status),
\* whatever executors were lost, fenced or resumed on the way.
CompletedIsReal ==
  /\ In(plan.steps, "completed") \subseteq good
  /\ plan.status = "completed" => In(plan.steps, "completed") = Steps

\* A plan that waits for a confirmation has a step to confirm, so that
\* PlanExecuteStrategy.resume finds one.
PendingHasAStep ==
  plan.status = "awaiting_confirmation"
    => In(plan.steps, "awaiting_confirmation") # {}

\* A plan that has ended, by its executor, by the customer or by time, stays
\* as it ended: no executor that read it before saves over it.
EndedStays == [][plan.status \in Ended => plan'.status = plan.status]_vars

\* When a write is sent, the stored plan says that its step is running, so
\* that a reader or a successor knows (_running_checkpoint precedes the call).
RecordedBeforeSent ==
  [][\A s \in Writes :
       turn.journal[<<s, 1>>] = "none" /\ turn'.journal[<<s, 1>>] = "in_flight"
         => plan.steps[s] = "running"]_vars

\* A confirmation authorises the steps that the customer was asked about and no
\* other (PlanExecuteStrategy.resume and the documentation of stage 17): what an
\* executor takes as confirmed was awaiting when a confirmation was applied.
ConfirmsOnlyWhatWasAsked == \A e \in Execs : ex[e].conf \subseteq asked

=============================================================================
