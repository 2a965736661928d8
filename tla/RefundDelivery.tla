--------------------------- MODULE RefundDelivery ---------------------------
(***************************************************************************)
(* The refund pipeline: the operation, its case, the outbox message that   *)
(* submits it, the job that queries it, the provider and its callbacks.    *)
(* A transaction of RefundWorkflow is one step: it re-reads the operation  *)
(* and the case and retries when their versions moved.  A worker is a      *)
(* RefundDeliveryWorker cut between its transactions and its HTTP calls.   *)
(***************************************************************************)
EXTENDS Naturals, FiniteSets, LeaseQueue

CONSTANTS
  Ops,             \* refund operations, one idempotency key each
  OrderOf,         \* the order an operation refunds
  OutboxAttempts,  \* attempts of a submission (8 in the code)
  JobAttempts,     \* attempts of a query job (12 in the code)
  MaxJob,          \* bound: no requeue of a job at this attempt or beyond
  NoOp             \* what an idle worker holds

ASSUME RefundAssumption ==
  /\ OutboxAttempts \in Nat \ {0}
  /\ JobAttempts \in Nat \ {0}
  /\ MaxJob \in Nat
  /\ NoOp \notin Ops
  /\ IsFiniteSet(Workers)

VARIABLES
  op,      \* after_sale_operations
  case,    \* the status of the case of each operation
  out,     \* outbox_events
  job,     \* reconciliation_jobs
  prov,    \* the provider's refunds: the current receipt
  events,  \* callbacks the provider has put on the wire
  inbox,   \* inbox_events: callbacks already taken in
  asked,   \* requests for another query that passed their check
  wk,      \* the local state of each worker
  sent     \* history: how often each operation was submitted

local == <<op, case, out, job, inbox, asked>>
vars == <<op, case, out, job, prov, events, inbox, asked, wk, sent>>

-----------------------------------------------------------------------------
(* Vocabulary *)

Outcomes == {"succeeded", "failed"}

\* Where dispatch and mark_unknown leave an operation alone.
Settled == Outcomes \union {"needs_reconciliation"}

OpStatuses == Settled \union {"none", "pending", "running", "unknown"}

\* A case that may still be executed; one that no longer holds its order.
Unexecuted == {"none", "pending_review", "approved", "rejected"}
TERMINAL_CASE_STATUSES == {"completed", "rejected"}
CaseStatuses == Unexecuted \union {"processing", "completed", "execution_failed"}

Receipts == [status: {"processing"} \union Outcomes, version: Nat \ {0}]
NoReceipt == [status |-> "none", version |-> 0]

Pcs == {"idle", "mark", "check", "submit", "check2", "apply", "finish",
        "error", "retry", "query", "checkJob", "applyJob", "retryJob", "manual"}

\* A worker at p with operation o of its claim, before any answer.
At(p, o, fence) == [pc |-> p, op |-> o, fence |-> fence, receipt |-> NoReceipt]
IdleWorker == At("idle", NoOp, 0)

TypeOK ==
  /\ op \in [Ops -> [status: OpStatuses, version: Nat]]
  /\ case \in [Ops -> CaseStatuses]
  /\ out \in [Ops -> Messages]
  /\ job \in [Ops -> Messages]
  /\ prov \in [Ops -> Receipts \union {NoReceipt}]
  /\ events \subseteq Ops \X Receipts
  /\ inbox \subseteq events
  /\ asked \subseteq Ops
  /\ wk \in [Workers -> [pc: Pcs, op: Ops \union {NoOp}, fence: Nat,
                         receipt: Receipts \union {NoReceipt}]]
  /\ sent \in [Ops -> Nat]

Init ==
  /\ op = [o \in Ops |-> [status |-> "none", version |-> 0]]
  /\ case = [o \in Ops |-> "none"]
  /\ out = [o \in Ops |-> NoMessage]
  /\ job = [o \in Ops |-> NoMessage]
  /\ prov = [o \in Ops |-> NoReceipt]
  /\ events = {}
  /\ inbox = {}
  /\ asked = {}
  /\ wk = [w \in Workers |-> IdleWorker]
  /\ sent = [o \in Ops |-> 0]

\* The operation a worker is busy with, and whether it still holds its message.
O(w) == wk[w].op
HoldsOut(w) == OwnedBy(out[O(w)], w, wk[w].fence)
HoldsJob(w) == OwnedBy(job[O(w)], w, wk[w].fence)

Goto(w, p) == wk' = [wk EXCEPT ![w].pc = p]
GotoWith(w, p, r) == wk' = [wk EXCEPT ![w].pc = p, ![w].receipt = r]
Park(w) == wk' = [wk EXCEPT ![w] = IdleWorker]

SetStatus(o, s) == op' = [op EXCEPT ![o].status = s]

-----------------------------------------------------------------------------
(* The case *)

\* create_case: one active case per order; the risk router decides whether it
\* needs a human.
CreateCase(o) ==
  /\ case[o] = "none"
  /\ \A p \in Ops : OrderOf[p] = OrderOf[o] =>
       case[p] \in TERMINAL_CASE_STATUSES \union {"none"}
  /\ \E s \in {"pending_review", "approved"} : case' = [case EXCEPT ![o] = s]
  /\ UNCHANGED <<op, out, job, prov, events, inbox, asked, wk, sent>>

\* review_case, under the version of the case.
ReviewCase(o) ==
  /\ case[o] = "pending_review"
  /\ \E s \in {"approved", "rejected"} : case' = [case EXCEPT ![o] = s]
  /\ UNCHANGED <<op, out, job, prov, events, inbox, asked, wk, sent>>

-----------------------------------------------------------------------------
(* RefundWorkflow *)

\* enqueue: operation, case, submission and query job in one transaction.
Enqueue(o) ==
  /\ op[o].status = "none"
  /\ case[o] = "approved"
  /\ SetStatus(o, "pending")
  /\ case' = [case EXCEPT ![o] = "processing"]
  /\ out' = [out EXCEPT ![o] = NewMessage(OutboxAttempts)]
  /\ job' = [job EXCEPT ![o] = NewMessage(JobAttempts)]
  /\ UNCHANGED <<prov, events, inbox, asked, wk, sent>>

\* apply_receipt: a newer receipt moves the operation and its case; an outcome
\* retires the submission and the query job.
NewerOrOlder(o, r) == r.status # "none"

Newer(o, r) == r.version > op[o].version /\ op[o].status # "succeeded"

AcceptedIsSuccess(r) ==
  [status |-> IF r.status = "processing" THEN "succeeded" ELSE r.status,
   version |-> r.version]

OperationAfter(r) ==
  [status |-> IF r.status = "processing" THEN "running" ELSE r.status,
   version |-> r.version]

CaseAfter(r) ==
  CASE r.status = "succeeded" -> "completed"
    [] r.status = "failed" -> "execution_failed"
    [] OTHER -> "processing"

NotRetired(q, o, r) == q

Retired(q, o, r) ==
  IF r.status \in Outcomes THEN [q EXCEPT ![o] = Sent(q[o])] ELSE q

Apply(o, r) ==
  IF Newer(o, r)
    THEN /\ op' = [op EXCEPT ![o] = OperationAfter(r)]
         /\ case' = [case EXCEPT ![o] = CaseAfter(r)]
         /\ out' = Retired(out, o, r)
         /\ job' = Retired(job, o, r)
    ELSE UNCHANGED <<op, case, out, job>>

\* mark_unknown, by a worker or (manual) for a human.
MarkUnknownAlways(o, manual) ==
  SetStatus(o, IF manual THEN "needs_reconciliation" ELSE "unknown")

MarkUnknown(o, manual) ==
  IF op[o].status \in Settled THEN UNCHANGED op
  ELSE SetStatus(o, IF manual THEN "needs_reconciliation" ELSE "unknown")

\* receive: a callback, in any order, late or never; a second copy is a
\* duplicate of the inbox.
Callback(o, r) ==
  /\ <<o, r>> \in events \ inbox
  /\ Apply(o, r)
  /\ inbox' = inbox \union {<<o, r>>}
  /\ UNCHANGED <<prov, events, asked, wk, sent>>

\* requeue_reconciliation: an operator asks for another query.  Its check of
\* the operation locks nothing, so the outcome may arrive before its update.
RequeueChecks(o) ==
  /\ op[o].status \notin Outcomes \union {"none"}
  /\ job[o].attempt < MaxJob
  /\ asked' = asked \union {o}
  /\ UNCHANGED <<op, case, out, job, prov, events, inbox, wk, sent>>

Requeue(o) ==
  /\ o \in asked
  /\ asked' = asked \ {o}
  /\ job' = IF job[o].status \in {"dead", "sent"}
              THEN [job EXCEPT ![o].status = "pending",
                               ![o].max = job[o].attempt + JobAttempts]
              ELSE job
  /\ UNCHANGED <<op, case, out, prov, events, inbox, wk, sent>>

-----------------------------------------------------------------------------
(* RefundDeliveryWorker.dispatch_once *)

DispatchClaim(w, o) ==
  /\ wk[w].pc = "idle"
  /\ Claimable(out[o])
  /\ LET m == ClaimedBy(out[o], w)
     IN  /\ out' = [out EXCEPT ![o] = m]
         /\ wk' = IF m.status = "running"
                    THEN [wk EXCEPT ![w] = At("mark", o, m.fence)]
                    ELSE wk
  /\ UNCHANGED <<op, case, job, prov, events, inbox, asked, sent>>

\* mark_attempt under the guard of the lease.
MarkAttempt(w) ==
  /\ wk[w].pc = "mark"
  /\ IF ~HoldsOut(w) THEN Park(w) /\ UNCHANGED op
     ELSE IF op[O(w)].status \in Settled THEN Goto(w, "finish") /\ UNCHANGED op
     ELSE SetStatus(O(w), "running") /\ Goto(w, "check")
  /\ UNCHANGED <<case, out, job, prov, events, inbox, asked, sent>>

\* owned(), before the submission and before its answer is applied.
CheckLease(w) ==
  /\ wk[w].pc \in {"check", "check2"}
  /\ IF ~HoldsOut(w) THEN Park(w)
     ELSE Goto(w, IF wk[w].pc = "check" THEN "submit" ELSE "apply")
  /\ UNCHANGED <<op, case, out, job, prov, events, inbox, asked, sent>>

\* submit_command: the request may be lost or refused; the provider may accept
\* it, or find that it has it already; the answer may be lost.
Answered(w, r) == GotoWith(w, "check2", r) \/ Goto(w, "error")

OrderTakenByKey(o) == prov[o] # NoReceipt

\* The unique index on the order of a refund refuses a second operation on it.
OrderTaken(o) ==
  \E p \in Ops \ {o} : OrderOf[p] = OrderOf[o] /\ prov[p] # NoReceipt

SubmitAccepted(w) ==
  /\ wk[w].pc = "submit"
  /\ prov[O(w)] = NoReceipt
  /\ ~OrderTaken(O(w))
  /\ \E s \in {"processing"} \union Outcomes :
       LET r == [status |-> s, version |-> 1]
       IN  /\ prov' = [prov EXCEPT ![O(w)] = r]
           /\ events' = events \union {<<O(w), r>>}
           /\ Answered(w, r)
  /\ sent' = [sent EXCEPT ![O(w)] = @ + 1]
  /\ UNCHANGED local

SubmitRepeated(w) ==
  /\ wk[w].pc = "submit"
  /\ prov[O(w)] # NoReceipt
  /\ Answered(w, prov[O(w)])
  /\ sent' = [sent EXCEPT ![O(w)] = @ + 1]
  /\ UNCHANGED <<local, prov, events>>

SubmitFails(w) ==
  /\ wk[w].pc = "submit"
  /\ Goto(w, "error")
  /\ sent' = [sent EXCEPT ![O(w)] = @ + 1]
  /\ UNCHANGED <<local, prov, events>>

\* INBOX_BUSY sends the worker to the error path.
ApplyAnswer(w) ==
  /\ wk[w].pc = "apply"
  /\ \/ /\ Apply(O(w), wk[w].receipt)
        /\ IF wk[w].receipt.status = "processing" THEN Goto(w, "finish")
           ELSE Park(w)
     \/ Goto(w, "error") /\ UNCHANGED <<op, case, out, job>>
  /\ UNCHANGED <<prov, events, inbox, asked, sent>>

FinishSent(w) ==
  /\ wk[w].pc = "finish"
  /\ out' = IF HoldsOut(w) THEN [out EXCEPT ![O(w)] = Sent(@)] ELSE out
  /\ Park(w)
  /\ UNCHANGED <<op, case, job, prov, events, inbox, asked, sent>>

MarkError(w) ==
  /\ wk[w].pc = "error"
  /\ IF HoldsOut(w) THEN MarkUnknown(O(w), FALSE) /\ Goto(w, "retry")
     ELSE Park(w) /\ UNCHANGED op
  /\ UNCHANGED <<case, out, job, prov, events, inbox, asked, sent>>

FinishRetry(w) ==
  /\ wk[w].pc = "retry"
  /\ IF HoldsOut(w)
       THEN LET m == Retried(out[O(w)])
            IN  /\ out' = [out EXCEPT ![O(w)] = m]
                /\ IF m.status = "dead" THEN Goto(w, "manual") ELSE Park(w)
       ELSE Park(w) /\ UNCHANGED out
  /\ UNCHANGED <<op, case, job, prov, events, inbox, asked, sent>>

MarkManual(w) ==
  /\ wk[w].pc = "manual"
  /\ MarkUnknown(O(w), TRUE)
  /\ Park(w)
  /\ UNCHANGED <<case, out, job, prov, events, inbox, asked, sent>>

-----------------------------------------------------------------------------
(* RefundDeliveryWorker.reconcile_once *)

ReconcileClaim(w, o) ==
  /\ wk[w].pc = "idle"
  /\ Claimable(job[o])
  /\ LET m == ClaimedBy(job[o], w)
     IN  /\ job' = [job EXCEPT ![o] = m]
         /\ wk' = IF m.status = "running"
                    THEN [wk EXCEPT ![w] = At("query", o, m.fence)]
                    ELSE wk
  /\ UNCHANGED <<op, case, out, prov, events, inbox, asked, sent>>

\* get_refund answers with the current receipt, with none, or raises.
Query(w) ==
  /\ wk[w].pc = "query"
  /\ GotoWith(w, "checkJob", prov[O(w)]) \/ Goto(w, "retryJob")
  /\ UNCHANGED <<local, prov, events, sent>>

CheckJob(w) ==
  /\ wk[w].pc = "checkJob"
  /\ IF ~HoldsJob(w) THEN Park(w)
     ELSE Goto(w, IF wk[w].receipt = NoReceipt THEN "retryJob" ELSE "applyJob")
  /\ UNCHANGED <<local, prov, events, sent>>

ApplyQuery(w) ==
  /\ wk[w].pc = "applyJob"
  /\ \/ /\ Apply(O(w), wk[w].receipt)
        /\ IF wk[w].receipt.status \in Outcomes THEN Park(w)
           ELSE Goto(w, "retryJob")
     \/ Goto(w, "retryJob") /\ UNCHANGED <<op, case, out, job>>
  /\ UNCHANGED <<prov, events, inbox, asked, sent>>

RetryJob(w) ==
  /\ wk[w].pc = "retryJob"
  /\ IF HoldsJob(w)
       THEN LET m == Retried(job[O(w)])
            IN  /\ job' = [job EXCEPT ![O(w)] = m]
                /\ IF m.status = "dead" THEN Goto(w, "manual") ELSE Park(w)
       ELSE Park(w) /\ UNCHANGED job
  /\ UNCHANGED <<op, case, out, prov, events, inbox, asked, sent>>

\* With no job due: the operations whose query died with its worker.  A job
\* may become due right after claim() looked, so other jobs say nothing here.
Sweep(w, o) ==
  /\ wk[w].pc = "idle"
  /\ job[o].status = "dead"
  /\ op[o].status \notin Settled
  /\ wk' = [wk EXCEPT ![w] = At("manual", o, 0)]
  /\ UNCHANGED <<local, prov, events, sent>>

-----------------------------------------------------------------------------
(* Time, crashes and the provider *)

LeaseExpires(o) ==
  /\ \/ /\ out[o].leased
        /\ out' = [out EXCEPT ![o] = Expired(@)]
        /\ UNCHANGED job
     \/ /\ job[o].leased
        /\ job' = [job EXCEPT ![o] = Expired(@)]
        /\ UNCHANGED out
  /\ UNCHANGED <<op, case, prov, events, inbox, asked, wk, sent>>

Crash(w) ==
  /\ wk[w].pc # "idle"
  /\ Park(w)
  /\ UNCHANGED <<local, prov, events, sent>>

\* settle_due: a delayed refund succeeds.
Settle(o) ==
  /\ prov[o].status = "processing"
  /\ LET r == [status |-> "succeeded", version |-> prov[o].version + 1]
     IN  /\ prov' = [prov EXCEPT ![o] = r]
         /\ events' = events \union {<<o, r>>}
  /\ UNCHANGED <<local, wk, sent>>

-----------------------------------------------------------------------------
(* The specification *)

WorkerStep(w) ==
  \/ MarkAttempt(w) \/ CheckLease(w) \/ SubmitAccepted(w) \/ SubmitRepeated(w)
  \/ SubmitFails(w) \/ ApplyAnswer(w) \/ FinishSent(w) \/ MarkError(w)
  \/ FinishRetry(w) \/ MarkManual(w) \/ Query(w) \/ CheckJob(w)
  \/ ApplyQuery(w) \/ RetryJob(w)

Poll(w, o) == DispatchClaim(w, o) \/ ReconcileClaim(w, o) \/ Sweep(w, o)

Next ==
  \/ \E o \in Ops :
       \/ CreateCase(o) \/ ReviewCase(o) \/ Enqueue(o)
       \/ RequeueChecks(o) \/ Requeue(o) \/ LeaseExpires(o) \/ Settle(o)
  \/ \E e \in events : Callback(e[1], e[2])
  \/ \E w \in Workers : WorkerStep(w) \/ Crash(w) \/ \E o \in Ops : Poll(w, o)

Spec == Init /\ [][Next]_vars

\* The loop of run_refund_worker polls for ever and the clock runs; callbacks,
\* the provider and operators owe nothing.  Claims are bounded by attempts, the
\* sweep is not: a process does not die for ever between its two statements.
Fairness ==
  /\ \A w \in Workers : WF_vars(WorkerStep(w)) /\ SF_vars(MarkManual(w))
  /\ \A o \in Ops : WF_vars(LeaseExpires(o))
  /\ \A o \in Ops : WF_vars(\E w \in Workers : Poll(w, o))

LiveSpec == Spec /\ Fairness

-----------------------------------------------------------------------------
(* Properties *)

\* What the customer is told is what the provider did: an operation that
\* succeeded or failed agrees with the provider's current receipt, whatever
\* order answers, queries and callbacks arrive in.
OutcomeMatchesProvider ==
  \A o \in Ops : op[o].status \in Outcomes => op[o].status = prov[o].status

\* The case and the operation never tell different stories: nothing is queued
\* of a case that nobody approved, and a case is closed as its refund ended.
CaseMatchesOperation ==
  \A o \in Ops :
    CASE op[o].status = "none" -> case[o] \in Unexecuted
      [] op[o].status = "succeeded" -> case[o] = "completed"
      [] op[o].status = "failed" -> case[o] = "execution_failed"
      [] OTHER -> case[o] = "processing"

\* Once the outcome is known the submission is retired, and no claim that was
\* under way brings it back.
OutcomeRetiresSubmission ==
  \A o \in Ops : op[o].status \in Outcomes => out[o].status = "sent"

\* Two cases of one order, one opened after the other was completed, never
\* both end in a refund.
OneRefundPerOrder ==
  \A o, p \in Ops :
    /\ o # p
    /\ OrderOf[o] = OrderOf[p]
    => ~(op[o].status = "succeeded" /\ op[p].status = "succeeded")

\* A claim submits at most once, so the attempts of the message bound the
\* requests the provider sees.
SubmissionsBounded ==
  \A o \in Ops : sent[o] <= out[o].attempt /\ out[o].attempt <= OutboxAttempts

\* A submission ends with the outcome of its refund, and after its attempts.
SubmissionsEnd == OutcomeRetiresSubmission /\ SubmissionsBounded

\* The refinement: what the platform says implements the promise.
ToldOf(status) ==
  CASE status = "none" -> "nothing"
    [] status \in Outcomes -> status
    [] status = "needs_reconciliation" -> "attention"
    [] OTHER -> "working"
told == [o \in Ops |-> ToldOf(op[o].status)]
decided == [o \in Ops |-> IF prov[o].status \in Outcomes THEN prov[o].status
                          ELSE "open"]
Promise == INSTANCE RefundPromise WITH decided <- decided, told <- told
KeepsPromise == Promise!Spec

\* Every refund that was queued ends up, for good, with an outcome or in the
\* hands of a human, even if the provider and its callbacks stay silent.
EventuallySettled == \A o \in Ops :
  op[o].status = "pending" ~> [](op[o].status \in Settled)

-----------------------------------------------------------------------------
(* The inductive invariant behind the safety properties *)

\* A receipt somewhere on its way is one the provider has given, and if it
\* carries an outcome it is the current one.
Known(o, r) ==
  /\ r.version <= prov[o].version
  /\ r.status \in Outcomes => r = prov[o]

\* The operation is never ahead of the provider; nothing exists of a refund
\* that was not queued.
OpOK(o) ==
  /\ op[o].version <= prov[o].version
  /\ op[o].status \in Outcomes =>
       op[o].status = prov[o].status /\ op[o].version = prov[o].version
  /\ op[o].status = "none" =>
       /\ out[o].status = "none" /\ job[o].status = "none"
       /\ prov[o] = NoReceipt /\ o \notin asked

\* A busy worker works on a queued operation with a receipt of the provider.
WorkerOK(w) ==
  wk[w].pc # "idle" =>
    /\ O(w) \in Ops
    /\ op[O(w)].status # "none"
    /\ Known(O(w), wk[w].receipt)
    /\ wk[w].pc \in {"apply", "check2", "applyJob"} => wk[w].receipt \in Receipts

\* The provider holds one refund per order.
OneReceiptPerOrder ==
  \A o, p \in Ops :
    OrderOf[o] = OrderOf[p] /\ prov[o] # NoReceipt /\ prov[p] # NoReceipt
      => o = p

\* The invariant that every step preserves.
IInv ==
  /\ TypeOK
  /\ \A o \in Ops : OpOK(o)
  /\ CaseMatchesOperation
  /\ OutcomeRetiresSubmission
  /\ OneReceiptPerOrder
  /\ \A w \in Workers : WorkerOK(w)
  /\ \A e \in events : Known(e[1], e[2])

\* The claims of a submission whose request is still to come: a worker that
\* lost its lease after its check sends it all the same.
Unsent(o) ==
  {w \in Workers : wk[w].pc \in {"mark", "check", "submit"} /\ wk[w].op = o}

\* Each attempt is a claim that has sent its request, may still send it or
\* never will.
AttemptsOK(o) ==
  /\ sent[o] + Cardinality(Unsent(o)) <= out[o].attempt
  /\ out[o].attempt <= out[o].max
  /\ out[o].max <= OutboxAttempts
  /\ out[o].status = "none" => out[o].attempt = 0

\* What SubmissionsBounded needs beside IInv.
Attempts == \A o \in Ops : AttemptsOK(o)

=============================================================================
