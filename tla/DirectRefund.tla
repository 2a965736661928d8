---------------------------- MODULE DirectRefund ----------------------------
(***************************************************************************)
(* The execution of approved cases without the outbox: execute_case claims *)
(* the operation of its case, calls the shop and writes the outcome first  *)
(* to the operation and then to the case, each under its own version.      *)
(*                                                                         *)
(* A record of `case` is a row of after_sale_cases, one of `op` a row of   *)
(* after_sale_operations.  A worker is one request, cut at every           *)
(* transaction and at the call of the shop; it works with the rows as it   *)
(* read them.                                                              *)
(***************************************************************************)
EXTENDS Naturals, FiniteSets

CONSTANTS
  Cases, Orders, OrderOf,  \* cases, and the order of each
  Workers,                 \* requests being served: customers, Agents, admins
  MaxAttempts,             \* after_sale_operation_max_attempts
  MaxVersion,              \* bound: rows of this version are left alone
  NoCase

ASSUME DirectAssumption ==
  /\ OrderOf \in [Cases -> Orders]
  /\ MaxAttempts \in Nat \ {0}
  /\ MaxVersion \in Nat
  /\ NoCase \notin Cases
  /\ IsFiniteSet(Workers)

VARIABLES
  case,      \* after_sale_cases
  op,        \* after_sale_operations
  refunded,  \* the orders with a row in refunds
  late,      \* orders with a call that timed out and still runs in its thread
  wk,        \* the local state of each request
  calls      \* history: calls of the shop for the present operation

vars == <<case, op, refunded, late, wk, calls>>

-----------------------------------------------------------------------------
(* Vocabulary *)

TERMINAL_CASE_STATUSES == {"completed", "rejected"}
CaseStatuses == {"none", "pending_review", "approved", "processing",
                 "execution_failed"} \union TERMINAL_CASE_STATUSES
OpStatuses == {"none", "running", "succeeded", "failed", "exhausted"}
CompensationStatuses == {"not_required", "pending", "completed", "failed"}

CaseRows == [status: CaseStatuses, version: Nat]
OpRows == [status: OpStatuses, attempt: 0 .. MaxAttempts, version: Nat,
           lease: BOOLEAN, comp: CompensationStatuses]

NoOperation == [status |-> "none", attempt |-> 0, version |-> 0,
                lease |-> FALSE, comp |-> "not_required"]

Pcs == {"idle", "claim", "replay", "giveup", "start", "submit", "succeed",
        "complete", "fail", "failed", "review", "compensate", "compensated"}

\* The case and the operation as the request read them.
WorkerStates == [pc: Pcs, id: Cases \union {NoCase}, seen: CaseRows, op: OpRows]

IdleWorker == [pc |-> "idle", id |-> NoCase,
               seen |-> [status |-> "none", version |-> 0], op |-> NoOperation]

\* The last line is more than a type: requests that race, lose their leases or
\* die do not make the shop be called more often than the attempts allow.
TypeOK ==
  /\ case \in [Cases -> CaseRows]
  /\ op \in [Cases -> OpRows]
  /\ refunded \subseteq Orders
  /\ late \subseteq Orders
  /\ wk \in [Workers -> WorkerStates]
  /\ calls \in [Cases -> 0 .. MaxAttempts]

Init ==
  /\ case = [c \in Cases |-> [status |-> "none", version |-> 0]]
  /\ op = [c \in Cases |-> NoOperation]
  /\ refunded = {}
  /\ late = {}
  /\ wk = [w \in Workers |-> IdleWorker]
  /\ calls = [c \in Cases |-> 0]

Goto(w, p) == wk' = [wk EXCEPT ![w].pc = p]
Leave(w) == wk' = [wk EXCEPT ![w] = IdleWorker]

\* The request of worker w begins with the rows of case c.
Read(w, c, p) ==
  /\ wk[w].pc = "idle"
  /\ case[c].status # "none"
  /\ case[c].version < MaxVersion
  /\ op[c].version < MaxVersion
  /\ wk' = [wk EXCEPT ![w] = [pc |-> p, id |-> c, seen |-> case[c], op |-> op[c]]]
  /\ UNCHANGED <<case, op, refunded, late, calls>>

\* AfterSaleRepository.save and AfterSaleOperationRepository.save: does the row
\* still have the version that the request read?
CaseAlwaysCurrent(w) == TRUE
CaseCurrent(w) == case[wk[w].id].version = wk[w].seen.version

OpAlwaysCurrent(w) == TRUE
OpCurrent(w) == op[wk[w].id].version = wk[w].op.version

SavedCase(w, s) ==
  [case EXCEPT ![wk[w].id] = [status |-> s, version |-> wk[w].seen.version + 1]]

SavedOp(w, o) ==
  [op EXCEPT ![wk[w].id] = [o EXCEPT !.version = wk[w].op.version + 1]]

\* The last step of a request: it writes the case, or reports a conflict.
CloseCase(w, s) ==
  /\ case' = IF CaseCurrent(w) THEN SavedCase(w, s) ELSE case
  /\ Leave(w)
  /\ UNCHANGED <<op, refunded, late, calls>>

-----------------------------------------------------------------------------
(* Cases *)

\* create_case: one active case per order; the risk router decides whether it
\* needs a review.
CreateCase(c, s) ==
  /\ case[c].status = "none"
  /\ \A d \in Cases : OrderOf[d] = OrderOf[c] =>
       case[d].status \in TERMINAL_CASE_STATUSES \union {"none"}
  /\ s \in {"pending_review", "approved"}
  /\ case' = [case EXCEPT ![c] = [status |-> s, version |-> 1]]
  /\ UNCHANGED <<op, refunded, late, wk, calls>>

ReadForReview(w, c) ==
  /\ case[c].status = "pending_review"
  /\ Read(w, c, "review")

Review(w) ==
  /\ wk[w].pc = "review"
  /\ \E s \in {"approved", "rejected"} : CloseCase(w, s)

-----------------------------------------------------------------------------
(* execute_case, by a customer, an Agent or an admin's recover_case *)

Executable == {"approved", "processing", "execution_failed"}

ReadForExecution(w, c) == Read(w, c, "claim")

\* claim_operation on the present row.
DispositionIgnoringAttempts(o) ==
  CASE o.status = "succeeded" -> "replay"
    [] o.status = "running" /\ o.lease -> "in_progress"
    [] OTHER -> "claimed"

Disposition(o) ==
  CASE o.status = "none" -> "claimed"
    [] o.status = "succeeded" -> "replay"
    [] o.status = "exhausted" -> "exhausted"
    [] o.status = "running" /\ o.lease -> "in_progress"
    [] OTHER -> IF o.attempt >= MaxAttempts THEN "exhausted" ELSE "claimed"

ClaimedOp(o) == [o EXCEPT !.status = "running", !.attempt = @ + 1,
                          !.version = @ + 1, !.lease = TRUE]
ExhaustedOp(o) == [o EXCEPT !.status = "exhausted", !.version = @ + 1,
                            !.lease = FALSE]

\* A closed or unapproved case ends the request unless its operation succeeded.
Claim(w) ==
  /\ wk[w].pc = "claim"
  /\ LET c == wk[w].id
         d == Disposition(op[c])
     IN  \/ /\ d = "replay"
            /\ IF wk[w].seen.status = "completed" THEN Leave(w)
               ELSE Goto(w, "replay")
            /\ UNCHANGED op
         \/ /\ d # "replay"
            /\ wk[w].seen.status \notin Executable
            /\ Leave(w)
            /\ UNCHANGED op
         \/ /\ d = "in_progress"
            /\ wk[w].seen.status \in Executable
            /\ Leave(w)
            /\ UNCHANGED op
         \/ /\ d = "exhausted"
            /\ wk[w].seen.status \in Executable
            /\ op' = IF op[c].status = "exhausted" THEN op
                     ELSE [op EXCEPT ![c] = ExhaustedOp(op[c])]
            /\ IF wk[w].seen.status = "execution_failed" THEN Leave(w)
               ELSE Goto(w, "giveup")
         \/ /\ d = "claimed"
            /\ wk[w].seen.status \in Executable
            /\ op' = [op EXCEPT ![c] = ClaimedOp(op[c])]
            /\ wk' = [wk EXCEPT ![w].pc = "start", ![w].op = ClaimedOp(op[c])]
  /\ UNCHANGED <<case, refunded, late, calls>>

\* _replay_success: the case catches up with its operation.
Replay(w) ==
  /\ wk[w].pc = "replay"
  /\ CloseCase(w, "completed")

GiveUp(w) ==
  /\ wk[w].pc = "giveup"
  /\ CloseCase(w, "execution_failed")

\* The case is marked before the shop is called; a conflict leaves the claimed
\* operation to its lease.
Start(w) ==
  /\ wk[w].pc = "start"
  /\ IF CaseCurrent(w)
       THEN /\ case' = SavedCase(w, "processing")
            /\ wk' = [wk EXCEPT ![w].pc = "submit",
                                ![w].seen = case'[wk[w].id]]
       ELSE Leave(w) /\ UNCHANGED case
  /\ UNCHANGED <<op, refunded, late, calls>>

\* create_refund: it makes the refund or finds the one of the order.
RefundPromised(o) == UNCHANGED refunded
RefundMade(o) == refunded' = refunded \union {o}

\* CommerceService.apply_refund: the shop answers, now or that the order was
\* refunded before; it answers too late; it fails; or the call goes on in its
\* thread after the time limit.
Submit(w) ==
  /\ wk[w].pc = "submit"
  /\ calls' = [calls EXCEPT ![wk[w].id] = @ + 1]
  /\ LET o == OrderOf[wk[w].id]
     IN  \/ RefundMade(o) /\ UNCHANGED late /\ Goto(w, "succeed")
         \/ RefundMade(o) /\ UNCHANGED late /\ Goto(w, "fail")
         \/ UNCHANGED <<refunded, late>> /\ Goto(w, "fail")
         \/ late' = late \union {o} /\ UNCHANGED refunded /\ Goto(w, "fail")
  /\ UNCHANGED <<case, op>>

\* A call that everyone has given up on arrives.
LateRefund(o) ==
  /\ o \in late
  /\ RefundMade(o)
  /\ late' = late \ {o}
  /\ UNCHANGED <<case, op, wk, calls>>

\* The outcome goes to the operation first; a request that lost its claim goes
\* on only when the operation has succeeded meanwhile.
Succeed(w) ==
  /\ wk[w].pc = "succeed"
  /\ IF OpCurrent(w)
       THEN /\ op' = SavedOp(w, [wk[w].op EXCEPT !.status = "succeeded",
                                                 !.lease = FALSE])
            /\ Goto(w, "complete")
       ELSE /\ UNCHANGED op
            /\ IF op[wk[w].id].status = "succeeded" THEN Goto(w, "complete")
               ELSE Leave(w)
  /\ UNCHANGED <<case, refunded, late, calls>>

Complete(w) ==
  /\ wk[w].pc = "complete"
  /\ CloseCase(w, "completed")

Fail(w) ==
  /\ wk[w].pc = "fail"
  /\ IF OpCurrent(w)
       THEN /\ op' = SavedOp(w, [wk[w].op EXCEPT
                        !.status = IF wk[w].op.attempt >= MaxAttempts
                                     THEN "exhausted" ELSE "failed",
                        !.lease = FALSE])
            /\ Goto(w, "failed")
       ELSE Leave(w) /\ UNCHANGED op
  /\ UNCHANGED <<case, refunded, late, calls>>

Failed(w) ==
  /\ wk[w].pc = "failed"
  /\ CloseCase(w, IF wk[w].op.attempt >= MaxAttempts THEN "execution_failed"
                  ELSE "approved")

-----------------------------------------------------------------------------
(* The record of a compensation, retention, time and crashes *)

\* What update_compensation allows next.
Allowed(s) ==
  CASE s = "not_required" -> {"pending"}
    [] s = "pending" -> {"completed", "failed"}
    [] s = "failed" -> {"pending"}
    [] OTHER -> {}

ReadForCompensation(w, c) ==
  /\ op[c].status = "succeeded"
  /\ Read(w, c, "compensate")

Compensate(w) ==
  /\ wk[w].pc = "compensate"
  /\ \E s \in Allowed(wk[w].op.comp) :
       IF OpCurrent(w)
         THEN op' = SavedOp(w, [wk[w].op EXCEPT !.comp = s])
              /\ Goto(w, "compensated")
         ELSE Leave(w) /\ UNCHANGED op
  /\ UNCHANGED <<case, refunded, late, calls>>

\* The audit entry of the case.
Compensated(w) ==
  /\ wk[w].pc = "compensated"
  /\ CloseCase(w, wk[w].seen.status)

\* Retention deletes finished operations when they are old: long after the last
\* request that worked on them.
Retire(c) ==
  /\ op[c].status \in {"succeeded", "exhausted"}
  /\ op[c].comp \in {"not_required", "completed"}
  /\ \A w \in Workers : wk[w].id # c
  /\ op' = [op EXCEPT ![c] = NoOperation]
  /\ calls' = [calls EXCEPT ![c] = 0]
  /\ UNCHANGED <<case, refunded, late, wk>>

LeaseExpires(c) ==
  /\ op[c].lease
  /\ op' = [op EXCEPT ![c].lease = FALSE]
  /\ UNCHANGED <<case, refunded, late, wk, calls>>

\* The process dies; a call already in its thread may still arrive.
Crash(w) ==
  /\ wk[w].pc # "idle"
  /\ Leave(w)
  /\ UNCHANGED <<case, op, refunded, late, calls>>

-----------------------------------------------------------------------------
(* The specification *)

WorkerStep(w) ==
  \/ Review(w) \/ Claim(w) \/ Replay(w) \/ GiveUp(w) \/ Start(w) \/ Submit(w)
  \/ Succeed(w) \/ Complete(w) \/ Fail(w) \/ Failed(w)
  \/ Compensate(w) \/ Compensated(w)

Next ==
  \/ \E c \in Cases, s \in CaseStatuses : CreateCase(c, s)
  \/ \E w \in Workers :
       \/ WorkerStep(w) \/ Crash(w)
       \/ \E c \in Cases :
            \/ ReadForReview(w, c)
            \/ ReadForExecution(w, c)
            \/ ReadForCompensation(w, c)
  \/ \E c \in Cases : Retire(c) \/ LeaseExpires(c)
  \/ \E o \in Orders : LateRefund(o)

Spec == Init /\ [][Next]_vars

-----------------------------------------------------------------------------
(* Properties *)

\* A case that the customer sees as completed was refunded by the shop, whoever
\* completed it: the request itself, one that lost its claim, or a replay.
CompletedWasRefunded ==
  \A c \in Cases : case[c].status = "completed" => OrderOf[c] \in refunded

\* A reviewer's stale decision never lands on a case that is being executed: a
\* case that is rejected or waits for its review has no operation.
UnapprovedHasNoOperation ==
  \A c \in Cases : case[c].status \in {"pending_review", "rejected"} =>
    op[c].status = "none"

\* A completed case stays completed: no request with older rows reopens it.
CompletedStays ==
  [][\A c \in Cases : case[c].status = "completed" => case'[c].status = "completed"]_vars

\* A success is never taken back, and a settled compensation is not reopened by
\* an admin who read it earlier; only retention removes the row.
OutcomeStays ==
  [][\A c \in Cases : op[c].status = "succeeded" /\ op'[c].status # "none" =>
       /\ op'[c].status = "succeeded"
       /\ op[c].comp = "completed" => op'[c].comp = "completed"]_vars

-----------------------------------------------------------------------------
(* The inductive invariant behind the safety properties *)

Unapproved == {"none", "pending_review", "rejected"}

\* The requests whose claim may still call the shop.
ToCall(c) == {w \in Workers : wk[w].pc \in {"start", "submit"} /\ wk[w].id = c}

\* Each attempt is a claim that has called the shop, may still call it or never
\* will.
CallsOK(c) == calls[c] + Cardinality(ToCall(c)) <= op[c].attempt

\* An operation is one of an approved case, and its success one of the shop.
OpOK(c) ==
  /\ op[c].status = "none" => op[c] = NoOperation
  /\ op[c].status # "none" => case[c].status \notin Unapproved
  /\ op[c].status = "succeeded" => OrderOf[c] \in refunded

\* A request's copies are older than the rows, or the rows themselves but for
\* the lease of the operation.
CopiesOK(w) ==
  LET r == wk[w]
      c == wk[w].id
  IN  /\ r.seen.version <= case[c].version
      /\ r.seen.version = case[c].version => r.seen = case[c]
      /\ r.op.version <= op[c].version
      /\ r.op.version = op[c].version =>
           /\ r.op.status = op[c].status
           /\ r.op.attempt = op[c].attempt
           /\ r.op.comp = op[c].comp

\* What a request knows of its case at each of its steps.
KnowsOK(w) ==
  LET r == wk[w]
      c == wk[w].id
  IN  /\ r.seen.status # "none" /\ case[c].status # "none"
      /\ r.seen.status \notin Unapproved => case[c].status \notin Unapproved
      /\ r.seen.status = "completed" => OrderOf[c] \in refunded
      /\ r.pc = "review" => r.seen.status = "pending_review"
      /\ r.pc \in {"giveup", "start", "submit", "succeed", "complete", "fail", "failed"}
           => r.seen.status \in Executable
      /\ r.pc \in {"start", "submit", "succeed", "fail"} => r.op.status = "running"
      /\ r.pc \in {"compensate", "compensated"} => r.op.status = "succeeded"
      /\ r.pc \in {"succeed", "complete", "replay", "compensate", "compensated"}
           => OrderOf[c] \in refunded

WorkerOK(w) ==
  wk[w].pc # "idle" => wk[w].id \in Cases /\ CopiesOK(w) /\ KnowsOK(w)

\* The invariant that every step preserves.
IInv ==
  /\ TypeOK
  /\ CompletedWasRefunded
  /\ \A c \in Cases : OpOK(c) /\ CallsOK(c)
  /\ \A w \in Workers : WorkerOK(w)

=============================================================================
