------------------------------ MODULE PlanStore ------------------------------
(***************************************************************************)
(* Where plans and their leases are kept, and the retention that deletes   *)
(* them: one plan, its row in the plan repository, its rows in the run     *)
(* repository, in either backend.  The JSON repositories work under a lock *)
(* of their file, one step for each call.  The SQL ones are cut where they *)
(* read what they then write on: claim between its SELECT and its writes,  *)
(* a fenced update between the SELECT of the latest token and the UPDATE,  *)
(* cleanup between its SELECTs and its DELETEs.                            *)
(*                                                                         *)
(* Workers are processes.  What a plan does, and cancellation, is          *)
(* PlanRun's.  The retention period is days, a lease seconds: rows get old *)
(* only while nobody works.  The stat and the unlink of a JSON file are    *)
(* one step with the reading of it.                                        *)
(***************************************************************************)
EXTENDS Integers, FiniteSetsExt

CONSTANTS Workers,   \* processes that execute the plan
          MaxToken,  \* bound: fencing tokens of the plan
          MaxVersion \* bound: versions of the plan

VARIABLES backend,   \* persistence_backend
          plan,      \* the plan's row
          rows,      \* its rows of plan_runs, by fencing token
          wk,        \* the workers' own state
          cleaner,   \* the cleanup under way
          given      \* history: fencing tokens handed out

vars == <<backend, plan, rows, wk, cleaner, given>>

-----------------------------------------------------------------------------
Tokens == 1..MaxToken

Ended == {"completed", "failed", "cancelled", "expired"}

NoRow == [status |-> "none", live |-> FALSE, old |-> FALSE]

Idle == [pc |-> "idle", version |-> 0, status |-> "none", token |-> 0]

Rest == [pc |-> "idle", plan |-> FALSE, rows |-> {}]

Init ==
    /\ backend \in {"json", "sql"}
    /\ plan = [status |-> "none", version |-> 0, old |-> FALSE]
    /\ rows = [t \in Tokens |-> NoRow]
    /\ wk = [w \in Workers |-> Idle]
    /\ cleaner = Rest
    /\ given = {}

Present == {t \in Tokens : rows[t].status # "none"}

\* max((item.fencing_token for item in runs), default=0)
Latest == Max(Present \cup {0})

\* PlanRun.lease_active
Active(t) == rows[t].status = "running" /\ rows[t].live

Become(w, to) == wk' = [wk EXCEPT ![w] = to]

-----------------------------------------------------------------------------
(* The plan repository *)

(***************************************************************************)
(* A worker reads the plan: it makes the first one, resumes one that waits *)
(* for a confirmation, or recovers one that runs.                          *)
(***************************************************************************)
Read(w) ==
    /\ wk[w].pc = "idle"
    /\ plan.status \in {"none", "running", "awaiting_confirmation"}
    /\ plan.version < MaxVersion
    /\ Become(w, [Idle EXCEPT !.version = plan.version, !.status = "running",
                              !.pc = IF plan.status = "awaiting_confirmation"
                                     THEN "resume" ELSE "claim"])
    /\ UNCHANGED <<backend, plan, rows, cleaner, given>>

(***************************************************************************)
(* _validate_version and the conditional UPDATE: the plan is saved over    *)
(* the version that was read, or not at all.                               *)
(***************************************************************************)
Unchanged(w) == plan.version = wk[w].version

Save(w, s, pc) ==
    IF Unchanged(w)
    THEN /\ plan' = [status |-> s, version |-> plan.version + 1, old |-> FALSE]
         /\ Become(w, [wk[w] EXCEPT !.version = plan.version + 1, !.status = s, !.pc = pc])
    ELSE Become(w, Idle) /\ UNCHANGED plan

\* _record_plan of a plan that a confirmation resumes, before its run is claimed
SaveResumed(w) ==
    /\ wk[w].pc = "resume"
    /\ Save(w, "running", "claim")
    /\ UNCHANGED <<backend, rows, cleaner, given>>

\* the checkpoint of a plan that goes on, waits or has ended
SaveCheckpoint(w) ==
    /\ wk[w].pc = "work"
    /\ plan.version < MaxVersion
    /\ \E s \in {"running", "awaiting_confirmation", "completed", "failed"} :
         Save(w, s, "renew")
    /\ UNCHANGED <<backend, rows, cleaner, given>>

\* the API cancels a plan that waits, or a reader finds it past its time
EndPlan ==
    /\ plan.version < MaxVersion
    /\ \/ plan.status = "awaiting_confirmation"
            /\ \E s \in {"cancelled", "expired"} : plan' = [status |-> s, version |-> plan.version + 1,
                                                            old |-> FALSE]
       \/ plan.status = "running"
            /\ plan' = [status |-> "expired", version |-> plan.version + 1, old |-> FALSE]
    /\ UNCHANGED <<backend, rows, wk, cleaner, given>>

-----------------------------------------------------------------------------
(* The run repository *)

\* what claim writes: rows that run without a lease are fenced, one is added
Claimed(t) ==
    [u \in Tokens |-> IF u = t THEN [status |-> "running", live |-> TRUE, old |-> FALSE]
                      ELSE IF rows[u].status = "running" /\ ~rows[u].live
                           THEN [rows[u] EXCEPT !.status = "fenced", !.old = FALSE]
                           ELSE rows[u]]

\* JsonPlanRunRepository.claim, and the SELECT of SqlPlanRunRepository.claim
Claim(w) ==
    LET t == Latest + 1 IN
    /\ wk[w].pc = "claim"
    /\ IF \E u \in Tokens : Active(u)
       THEN Become(w, Idle) /\ UNCHANGED <<rows, given>>
       ELSE /\ t \in Tokens
            /\ IF backend = "json"
               THEN /\ rows' = Claimed(t)
                    /\ given' = given \cup {t}
                    /\ Become(w, [wk[w] EXCEPT !.pc = "work", !.token = t])
               ELSE /\ Become(w, [wk[w] EXCEPT !.pc = "insert", !.token = t])
                    /\ UNCHANGED <<rows, given>>
    /\ UNCHANGED <<backend, plan, cleaner>>

\* its UPDATE and INSERT; another claim's row of the same token refuses it
Insert(w) ==
    /\ wk[w].pc = "insert"
    /\ IF rows[wk[w].token].status # "none"
       THEN Become(w, Idle) /\ UNCHANGED <<rows, given>>
       ELSE /\ rows' = Claimed(wk[w].token)
            /\ given' = given \cup {wk[w].token}
            /\ Become(w, [wk[w] EXCEPT !.pc = "work"])
    /\ UNCHANGED <<backend, plan, cleaner>>

\* where a refused, or an accepted, update of its row leaves a worker
After(w) ==
    CASE wk[w].pc \in {"renew", "renewing"} ->
            IF wk[w].status = "running" THEN [wk[w] EXCEPT !.pc = "work"]
                                        ELSE [wk[w] EXCEPT !.pc = "finish"]
      [] OTHER -> Idle

\* what the update writes: the lease is renewed with the checkpoint, or the run
\* is finished
Updated(w) ==
    IF wk[w].pc \in {"renew", "renewing"} THEN [rows[wk[w].token] EXCEPT !.live = TRUE, !.old = FALSE]
    ELSE [status |-> wk[w].status, live |-> FALSE, old |-> FALSE]

Write(w) ==
    IF rows[wk[w].token].status = "running"
    THEN rows' = [rows EXCEPT ![wk[w].token] = Updated(w)] /\ Become(w, After(w))
    ELSE Become(w, Idle) /\ UNCHANGED rows

(***************************************************************************)
(* _mutate in one step; _conditional_update first reads the latest token.  *)
(***************************************************************************)
Update(w) ==
    /\ wk[w].pc \in {"renew", "finish"}
    /\ IF Latest # wk[w].token THEN Become(w, Idle) /\ UNCHANGED rows
       ELSE IF backend = "json" THEN Write(w)
       ELSE /\ Become(w, [wk[w] EXCEPT !.pc = IF @ = "renew" THEN "renewing" ELSE "finishing"])
            /\ UNCHANGED rows
    /\ UNCHANGED <<backend, plan, cleaner, given>>

UpdateWrites(w) ==
    /\ wk[w].pc \in {"renewing", "finishing"}
    /\ Write(w)
    /\ UNCHANGED <<backend, plan, cleaner, given>>

\* _heartbeat_plan, while a tool is at work
Heartbeat(w) ==
    /\ wk[w].pc = "work"
    /\ ~rows[wk[w].token].live
    /\ Become(w, [wk[w] EXCEPT !.pc = "renew"])
    /\ UNCHANGED <<backend, plan, rows, cleaner, given>>

LeaseExpires(t) ==
    /\ rows[t].live
    /\ rows' = [rows EXCEPT ![t].live = FALSE]
    /\ UNCHANGED <<backend, plan, wk, cleaner, given>>

Die(w) ==
    /\ wk[w].pc # "idle"
    /\ Become(w, Idle)
    /\ UNCHANGED <<backend, plan, rows, cleaner, given>>

-----------------------------------------------------------------------------
(* Retention *)

\* the retention period passes: whoever was at work is done or dead
Age ==
    /\ \A w \in Workers : wk[w].pc = "idle"
    /\ cleaner = Rest
    /\ \A t \in Tokens : ~rows[t].live
    /\ plan' = [plan EXCEPT !.old = TRUE]
    /\ rows' = [t \in Tokens |-> IF rows[t].status = "none" THEN NoRow
                                 ELSE [rows[t] EXCEPT !.old = TRUE]]
    /\ UNCHANGED <<backend, wk, cleaner, given>>

\* (mutant of PlanIsDone: a plan that nobody runs is done)
PlanIsUnused ==
    /\ plan.old /\ plan.status \notin {"none", "gone"}
    /\ \A t \in Tokens : rows[t].status # "running"

\* the plan that cleanup selects: old, ended, and without a row that runs
PlanIsDone ==
    /\ plan.old /\ plan.status \in Ended
    /\ \A t \in Tokens : rows[t].status # "running"

\* (mutant of RowIsDone: every row that is not running is done)
RowIsIdle(t) == rows[t].old /\ rows[t].status \notin {"none", "running"}

\* the rows that it selects by themselves
RowIsDone(t) ==
    rows[t].old /\ rows[t].status \in {"completed", "failed", "cancelled", "fenced"}

Select ==
    /\ backend = "sql"
    /\ cleaner.pc = "idle"
    /\ cleaner' = [pc |-> "delete", plan |-> PlanIsDone,
                   rows |-> IF PlanIsDone THEN Present ELSE {t \in Tokens : RowIsDone(t)}]
    /\ UNCHANGED <<backend, plan, rows, wk, given>>

Delete ==
    /\ cleaner.pc = "delete"
    /\ rows' = [t \in Tokens |-> IF t \in cleaner.rows THEN NoRow ELSE rows[t]]
    /\ plan' = IF cleaner.plan THEN [plan EXCEPT !.status = "gone"] ELSE plan
    /\ cleaner' = Rest
    /\ UNCHANGED <<backend, wk, given>>

\* a dry run, or a crash before the commit
SkipDelete ==
    /\ cleaner.pc = "delete"
    /\ cleaner' = Rest
    /\ UNCHANGED <<backend, plan, rows, wk, given>>

\* _cleanup_json, for the file of the runs and for the file of the plans
CleanRuns ==
    /\ backend = "json"
    /\ Present # {}
    /\ \A t \in Present : rows[t].old /\ rows[t].status \notin {"running", "awaiting_confirmation"}
    /\ rows' = [t \in Tokens |-> NoRow]
    /\ UNCHANGED <<backend, plan, wk, cleaner, given>>

CleanPlan ==
    /\ backend = "json"
    /\ plan.old /\ plan.status \in Ended
    /\ plan' = [plan EXCEPT !.status = "gone"]
    /\ UNCHANGED <<backend, rows, wk, cleaner, given>>

Next ==
    \/ \E w \in Workers :
         \/ Read(w) \/ SaveResumed(w) \/ SaveCheckpoint(w) \/ Claim(w) \/ Insert(w)
         \/ Update(w) \/ UpdateWrites(w) \/ Heartbeat(w) \/ Die(w)
    \/ \E t \in Tokens : LeaseExpires(t)
    \/ EndPlan \/ Age \/ Select \/ Delete \/ SkipDelete \/ CleanRuns \/ CleanPlan

Spec == Init /\ [][Next]_vars

-----------------------------------------------------------------------------
RowStatuses == {"none", "running", "awaiting_confirmation", "completed", "failed",
                "cancelled", "fenced"}

WorkerStates ==
    [pc : {"idle", "resume", "claim", "insert", "work", "renew", "renewing", "finish",
           "finishing"},
     version : 0..MaxVersion, status : RowStatuses, token : {0} \cup Tokens]

TypeOK ==
    /\ backend \in {"json", "sql"}
    /\ plan \in [status : Ended \cup {"none", "running", "awaiting_confirmation", "gone"},
                 version : 0..MaxVersion, old : BOOLEAN]
    /\ rows \in [Tokens -> [status : RowStatuses, live : BOOLEAN, old : BOOLEAN]]
    /\ wk \in [Workers -> WorkerStates]
    /\ cleaner \in [pc : {"idle", "delete"}, plan : BOOLEAN, rows : SUBSET Tokens]
    /\ given \subseteq Tokens

\* A step never undoes the fencing of a plan's runs: whatever retention has
\* deleted, and whoever raced it, a claim hands out a token above every one
\* before it (claim counts from the rows it finds, cleanup deletes rows by
\* themselves), so a worker that was fenced cannot pass for the present one.
\* And a plan is deleted only after it ended.
RetentionIsSafe ==
    /\ \A t \in Tokens : rows[t].status = "none" /\ rows'[t].status = "running"
                           => \A u \in given : u < t
    /\ plan'.status = "gone" => plan.status \in Ended \cup {"gone"}

-----------------------------------------------------------------------------
(* Why it holds *)

Alive == {"none", "running", "awaiting_confirmation"}

Busy(w) == wk[w].pc # "idle"

\* A plan that can still be executed, or is by somebody who read it when it could.
Hot == plan.status \in Alive \/ \E w \in Workers : Busy(w)

\* A worker that saves over the present version found the plan alive.  A plan that
\* ends under a worker's hands is not old before that worker has stopped.
WorkerOK(w) ==
    Busy(w) =>
      /\ plan.status # "gone" /\ (plan.status \in Ended => ~plan.old)
      /\ wk[w].version <= plan.version
      /\ wk[w].version = plan.version /\ wk[w].status = "running" => plan.status \in Alive
      /\ wk[w].pc = "resume" => wk[w].version < MaxVersion
      /\ wk[w].status \in {"running", "awaiting_confirmation", "completed", "failed"}
      /\ wk[w].status \in {"completed", "failed"} => plan.status \in Ended
      /\ wk[w].pc \in {"resume", "claim", "insert", "work"} => wk[w].status = "running"
      /\ wk[w].pc \in {"finish", "finishing"} => wk[w].status # "running"
      /\ wk[w].pc \notin {"resume", "claim"} => wk[w].token \in Tokens

\* The last token has a row that no cleanup takes: it is not old, or it runs or
\* waits, and it does as long as the plan is alive.
TopOK ==
    Hot /\ given # {} =>
      \E t \in given :
        /\ \A u \in given : u <= t
        /\ rows[t].status # "none" /\ t \notin cleaner.rows
        /\ rows[t].old \/ plan.status \in Alive =>
             rows[t].status \in {"running", "awaiting_confirmation"}

\* The token that a claim has computed is new, or its row is there to refuse it.
InsertOK(w) ==
    wk[w].pc = "insert" =>
      LET t == wk[w].token IN
      /\ t # 1 => t - 1 \in given
      /\ \/ \A u \in given : u < t
         \/ rows[t].status # "none" /\ ~rows[t].old /\ t \notin cleaner.rows

CleanerOK ==
    /\ cleaner.rows \subseteq given
    /\ cleaner.plan => plan.status \in Ended \cup {"gone"} /\ \A w \in Workers : ~Busy(w)

IInv ==
    /\ TypeOK /\ Present \subseteq given /\ CleanerOK /\ TopOK
    /\ \A w \in Workers : WorkerOK(w) /\ InsertOK(w)

=============================================================================
