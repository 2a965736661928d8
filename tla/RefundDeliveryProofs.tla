------------------------ MODULE RefundDeliveryProofs ------------------------
(***************************************************************************)
(* IInv is inductive for every set of operations, orders and workers, and  *)
(* the pipeline keeps RefundPromise.  Three facts carry the argument: what *)
(* the provider has said stays said (KnownStable), a queued operation      *)
(* stays queued, and only apply_receipt writes an outcome.                 *)
(***************************************************************************)
EXTENDS RefundDelivery, FiniteSetTheorems, TLAPS

AnyReceipt == Receipts \union {NoReceipt}
WorkerStates == [pc: Pcs, op: Ops \union {NoOp}, fence: Nat, receipt: AnyReceipt]

\* Nothing the provider has said is taken back.
KnownStable == \A o \in Ops, r \in AnyReceipt : Known(o, r) => Known(o, r)'

\* An operation that was queued stays queued.
QueuedStable == \A o \in Ops : op'[o].status = "none" => op[o].status = "none"

\* The workers that move are in order afterwards.
WorkersMove == \A w \in Workers : wk'[w] = wk[w] \/ WorkerOK(w)'

\* What the operations of the queue return is a message, and what they do to
\* the status of one.
LEMMA MessageTypes ==
  ASSUME NEW m \in Messages, NEW w \in Workers, NEW n \in Nat
  PROVE  /\ NoMessage \in Messages
         /\ NewMessage(n) \in Messages
         /\ ClaimedBy(m, w) \in Messages
         /\ ClaimedBy(m, w).status \in {"running", "dead"}
         /\ Sent(m) \in Messages
         /\ Sent(m).status = "sent"
         /\ Retried(m) \in Messages
         /\ Retried(m).status \in {"pending", "dead"}
         /\ Expired(m) \in Messages
         /\ Expired(m).status = m.status
         /\ m.attempt \in Nat
<1>1. NoMessage \in Messages /\ NewMessage(n) \in Messages
  BY DEF Messages, NoMessage, NewMessage
<1>2. /\ ClaimedBy(m, w) \in Messages
      /\ ClaimedBy(m, w).status \in {"running", "dead"}
  <2>1. CASE m.attempt < m.max
    <3>1. m.fence + 1 \in Nat /\ m.attempt + 1 \in Nat
      BY DEF Messages
    <3> QED
      BY <2>1, <3>1 DEF Messages, ClaimedBy
  <2>2. CASE ~(m.attempt < m.max)
    BY <2>2 DEF Messages, ClaimedBy
  <2> QED
    BY <2>1, <2>2
<1>3. Sent(m) \in Messages /\ Sent(m).status = "sent"
  BY DEF Messages, Sent
<1>4. Retried(m) \in Messages /\ Retried(m).status \in {"pending", "dead"}
  BY DEF Messages, Retried
<1>5. /\ Expired(m) \in Messages
      /\ Expired(m).status = m.status
      /\ m.attempt \in Nat
  BY DEF Messages, Expired
<1> QED
  BY <1>1, <1>2, <1>3, <1>4, <1>5

\* The fields of the rows that the arguments below use.
LEMMA RowTypes ==
  ASSUME TypeOK, NEW o \in Ops
  PROVE  /\ op[o] \in [status: OpStatuses, version: Nat]
         /\ op[o].version \in Nat
         /\ case[o] \in CaseStatuses
         /\ out[o] \in Messages
         /\ job[o] \in Messages
         /\ prov[o] \in AnyReceipt
         /\ prov[o].version \in Nat
BY DEF TypeOK, Receipts, NoReceipt, AnyReceipt

\* The fields of a worker that the arguments below use.
LEMMA WorkerTypes ==
  ASSUME TypeOK, NEW w \in Workers
  PROVE  /\ wk[w] \in WorkerStates
         /\ wk[w].pc \in Pcs
         /\ wk[w].op \in Ops \union {NoOp}
         /\ wk[w].fence \in Nat
         /\ wk[w].receipt \in AnyReceipt
BY DEF TypeOK, WorkerStates, AnyReceipt

\* A worker that is parked, or that moves with the receipt it holds, is a worker.
LEMMA MoveTypes ==
  ASSUME wk \in [Workers -> WorkerStates], NEW w \in Workers
  PROVE  /\ IdleWorker \in WorkerStates
         /\ Park(w) => wk' \in [Workers -> WorkerStates]
         /\ \A p \in Pcs : Goto(w, p) => wk' \in [Workers -> WorkerStates]
         /\ \A p \in Pcs, r \in AnyReceipt :
              GotoWith(w, p, r) => wk' \in [Workers -> WorkerStates]
<1>1. IdleWorker \in WorkerStates
  BY DEF IdleWorker, At, WorkerStates, AnyReceipt, NoReceipt, Pcs
<1> QED
  BY <1>1 DEF Park, Goto, GotoWith, WorkerStates

\* The invariant from its parts: the workers that stand still and the callbacks
\* keep what they know.
LEMMA Assemble ==
  ASSUME IInv, TypeOK', KnownStable, QueuedStable,
         WorkersMove,
         \A o \in Ops : OpOK(o)',
         CaseMatchesOperation', OutcomeRetiresSubmission', OneReceiptPerOrder',
         \A e \in events' : e \in events \/ Known(e[1], e[2])'
  PROVE  IInv'
<1>1. ASSUME NEW w \in Workers PROVE WorkerOK(w)'
  <2>1. CASE wk'[w] = wk[w]
    <3>1. wk[w].receipt \in AnyReceipt
      BY WorkerTypes DEF IInv
    <3> QED
      BY <2>1, <3>1, RowTypes DEF IInv, WorkerOK, O, KnownStable, QueuedStable
  <2> QED
    BY <2>1 DEF WorkersMove
<1>2. ASSUME NEW e \in events' PROVE Known(e[1], e[2])'
  <2>1. CASE e \in events
    <3>1. e[1] \in Ops /\ e[2] \in AnyReceipt
      BY <2>1 DEF IInv, TypeOK, AnyReceipt
    <3> QED
      BY <2>1, <3>1 DEF IInv, KnownStable
  <2> QED
    BY <2>1
<1> QED
  BY <1>1, <1>2 DEF IInv

\* A step that leaves the operations, the cases and the provider alone, and
\* revives no retired submission.
LEMMA QueueStep ==
  ASSUME IInv, TypeOK', UNCHANGED <<op, case, prov, events>>,
         WorkersMove,
         \A o \in Ops : out[o].status \in {"none", "sent"} =>
           out'[o].status = out[o].status,
         \A o \in Ops : job[o].status = "none" => job'[o].status = "none",
         \A o \in asked' : o \in asked \/ op[o].status # "none"
  PROVE  IInv'
<1>1. KnownStable /\ QueuedStable
  BY DEF KnownStable, QueuedStable, Known
<1>2. ASSUME NEW o \in Ops PROVE OpOK(o)'
  BY <1>2 DEF IInv, OpOK
<1>3. CaseMatchesOperation' /\ OutcomeRetiresSubmission' /\ OneReceiptPerOrder'
  BY DEF IInv, CaseMatchesOperation, OutcomeRetiresSubmission, OneReceiptPerOrder
<1> QED
  BY <1>1, <1>2, <1>3, Assemble

\* A step that moves the status of a queued operation without an outcome.
LEMMA StatusStep ==
  ASSUME IInv, TypeOK', NEW o \in Ops,
         NEW s \in {"running", "unknown", "needs_reconciliation"},
         op[o].status \notin Settled \union {"none"}, SetStatus(o, s),
         UNCHANGED <<case, out, job, prov, events, asked>>,
         WorkersMove
  PROVE  IInv'
<1>0. \A p \in Ops : /\ p # o => op'[p] = op[p]
                     /\ op'[p].version = op[p].version
                     /\ p = o => op'[p].status = s
  BY DEF IInv, TypeOK, SetStatus
<1>1. KnownStable /\ QueuedStable
  BY <1>0 DEF KnownStable, QueuedStable, Known
<1>2. ASSUME NEW p \in Ops PROVE OpOK(p)'
  BY <1>0, <1>2 DEF IInv, OpOK, Outcomes
<1>3. CaseMatchesOperation'
  BY <1>0 DEF IInv, CaseMatchesOperation, Outcomes, Settled
<1>4. OutcomeRetiresSubmission' /\ OneReceiptPerOrder'
  BY <1>0 DEF IInv, OutcomeRetiresSubmission, OneReceiptPerOrder, Outcomes
<1> QED
  BY <1>1, <1>2, <1>3, <1>4, Assemble

\* What retiring the message of an operation does to its queue.
LEMMA RetiredQueue ==
  ASSUME NEW q \in [Ops -> Messages], NEW o \in Ops, NEW r \in Receipts
  PROVE  /\ Retired(q, o, r) \in [Ops -> Messages]
         /\ \A p \in Ops : p # o => Retired(q, o, r)[p] = q[p]
         /\ r.status \in Outcomes => Retired(q, o, r)[o].status = "sent"
<1>1. Sent(q[o]) \in Messages /\ Sent(q[o]).status = "sent"
  BY DEF Messages, Sent
<1>2. CASE r.status \in Outcomes
  BY <1>1, <1>2 DEF Retired
<1>3. CASE r.status \notin Outcomes
  BY <1>3 DEF Retired
<1> QED
  BY <1>2, <1>3

\* A receipt the provider has given is applied to a queued operation.
LEMMA ApplyStep ==
  ASSUME IInv, TypeOK', NEW o \in Ops, NEW r \in Receipts, Known(o, r),
         op[o].status # "none", Apply(o, r),
         UNCHANGED <<prov, events, asked>>,
         WorkersMove
  PROVE  IInv'
<1>1. CASE ~Newer(o, r)
  <2>1. UNCHANGED <<op, case, out, job>>
    BY <1>1 DEF Apply
  <2> QED
    BY <2>1, QueueStep
<1>2. CASE Newer(o, r)
  <2>0. /\ \A p \in Ops : p # o =>
              /\ op'[p] = op[p] /\ case'[p] = case[p]
              /\ out'[p] = out[p] /\ job'[p] = job[p]
        /\ op'[o] = OperationAfter(r)
        /\ case'[o] = CaseAfter(r)
        /\ r.status \in Outcomes => out'[o].status = "sent"
    <3>1. /\ op' = [op EXCEPT ![o] = OperationAfter(r)]
          /\ case' = [case EXCEPT ![o] = CaseAfter(r)]
          /\ out' = Retired(out, o, r)
          /\ job' = Retired(job, o, r)
      BY <1>2 DEF Apply
    <3>2. /\ \A p \in Ops : p # o => /\ Retired(out, o, r)[p] = out[p]
                                     /\ Retired(job, o, r)[p] = job[p]
          /\ r.status \in Outcomes => Retired(out, o, r)[o].status = "sent"
      <4>1. out \in [Ops -> Messages] /\ job \in [Ops -> Messages]
        BY DEF IInv, TypeOK
      <4> QED
        BY <4>1, RetiredQueue
    <3> QED
      BY <3>1, <3>2 DEF IInv, TypeOK
  <2>1. r.status \in {"processing"} \union Outcomes /\ r.version \in Nat
    BY DEF Receipts
  <2>2. KnownStable /\ QueuedStable
    BY <2>0, <2>1 DEF KnownStable, QueuedStable, Known, OperationAfter, Outcomes
  <2>3. ASSUME NEW p \in Ops PROVE OpOK(p)'
    <3>1. CASE p # o
      BY <2>0, <3>1 DEF IInv, OpOK
    <3>2. CASE p = o
      BY <2>0, <2>1, <3>2 DEF OpOK, OperationAfter, Known, Outcomes
    <3> QED
      BY <3>1, <3>2
  <2>4. CaseMatchesOperation'
    BY <2>0, <2>1
    DEF IInv, CaseMatchesOperation, OperationAfter, CaseAfter, Outcomes
  <2>5. OutcomeRetiresSubmission' /\ OneReceiptPerOrder'
    BY <2>0, <2>1
    DEF IInv, OutcomeRetiresSubmission, OneReceiptPerOrder, OperationAfter, Outcomes
  <2> QED
    BY <2>2, <2>3, <2>4, <2>5, Assemble
<1> QED
  BY <1>1, <1>2

\* What Apply does to the types.
LEMMA ApplyTypes ==
  ASSUME TypeOK, NEW o \in Ops, NEW r \in Receipts, Apply(o, r)
  PROVE  /\ op' \in [Ops -> [status: OpStatuses, version: Nat]]
         /\ case' \in [Ops -> CaseStatuses]
         /\ out' \in [Ops -> Messages]
         /\ job' \in [Ops -> Messages]
<1>1. OperationAfter(r) \in [status: OpStatuses, version: Nat]
  BY DEF OperationAfter, Receipts, OpStatuses, Settled, Outcomes
<1>2. CaseAfter(r) \in CaseStatuses
  BY DEF CaseAfter, CaseStatuses
<1>3. CASE Newer(o, r)
  <2>1. /\ op' = [op EXCEPT ![o] = OperationAfter(r)]
        /\ case' = [case EXCEPT ![o] = CaseAfter(r)]
        /\ out' = Retired(out, o, r)
        /\ job' = Retired(job, o, r)
    BY <1>3 DEF Apply
  <2>2. /\ Retired(out, o, r) \in [Ops -> Messages]
        /\ Retired(job, o, r) \in [Ops -> Messages]
    BY RetiredQueue DEF TypeOK
  <2> QED
    BY <1>1, <1>2, <2>1, <2>2 DEF TypeOK
<1>4. CASE ~Newer(o, r)
  BY <1>4 DEF Apply, TypeOK
<1> QED
  BY <1>3, <1>4

\* The provider moves: a first receipt, or the end of a delayed refund.
LEMMA ProviderStep ==
  ASSUME IInv, TypeOK', NEW o \in Ops, NEW r \in Receipts,
         op[o].status # "none",
         prov[o] = NoReceipt \/ prov[o].status = "processing",
         prov[o] = NoReceipt => ~OrderTaken(o),
         r.version = prov[o].version + 1,
         prov' = [prov EXCEPT ![o] = r],
         events' = events \union {<<o, r>>},
         UNCHANGED local,
         WorkersMove
  PROVE  IInv'
<1>0. /\ \A p \in Ops : p # o => prov'[p] = prov[p]
      /\ prov'[o] = r
      /\ prov[o].status \notin Outcomes
      /\ prov[o].version \in Nat
  BY RowTypes DEF IInv, TypeOK, NoReceipt, Outcomes
<1>1. KnownStable
  <2>1. ASSUME NEW p \in Ops, NEW q \in AnyReceipt, Known(p, q)
        PROVE  Known(p, q)'
    <3>1. q.version \in Nat
      BY DEF AnyReceipt, Receipts, NoReceipt
    <3> QED
      BY <1>0, <2>1, <3>1 DEF Known
  <2> QED
    BY <2>1 DEF KnownStable
<1>2. QueuedStable
  BY DEF QueuedStable, local
<1>3. ASSUME NEW p \in Ops PROVE OpOK(p)'
  <2>1. op[p].version \in Nat /\ OpOK(p) /\ r.version \in Nat
    BY RowTypes DEF IInv, Receipts
  <2> QED
    BY <1>0, <2>1 DEF OpOK, local
<1>4. CaseMatchesOperation' /\ OutcomeRetiresSubmission'
  BY DEF IInv, CaseMatchesOperation, OutcomeRetiresSubmission, local
<1>5. OneReceiptPerOrder'
  BY <1>0 DEF IInv, OneReceiptPerOrder, OrderTaken, NoReceipt
<1>6. ASSUME NEW e \in events' PROVE e \in events \/ Known(e[1], e[2])'
  <2>1. CASE e = <<o, r>>
    BY <1>0, <2>1 DEF Known, Receipts
  <2> QED
    BY <2>1
<1> QED
  BY <1>1, <1>2, <1>3, <1>4, <1>5, <1>6, Assemble

-----------------------------------------------------------------------------
(* One lemma per group of actions *)

\* A worker that is parked knows nothing, and one that goes on with what it
\* has is in order while the operations and the provider stand still.
LEMMA WorkerMoves ==
  ASSUME IInv, NEW w \in Workers, UNCHANGED prov, QueuedStable,
         wk' \in [Workers -> WorkerStates]
  PROVE  /\ Park(w) => WorkersMove
         /\ \A p \in Pcs \ {"apply", "check2", "applyJob"} :
              wk[w].pc # "idle" /\ Goto(w, p) => WorkersMove
         /\ \A p \in Pcs : /\ wk[w].pc # "idle"
                           /\ wk[w].receipt \in Receipts
                           /\ Goto(w, p)
                           => WorkersMove
         /\ \A p \in Pcs, r \in Receipts :
              wk[w].pc # "idle" /\ GotoWith(w, p, r) /\ Known(O(w), r)
                => WorkersMove
<1>1. wk \in [Workers -> WorkerStates] /\ wk[w] \in WorkerStates /\ WorkerOK(w)
  BY WorkerTypes DEF IInv, TypeOK, WorkerStates, AnyReceipt
<1>2. Park(w) => WorkersMove
  BY <1>1 DEF Park, WorkersMove, WorkerOK, IdleWorker, At
<1>3. ASSUME NEW p \in Pcs, Goto(w, p), wk[w].pc # "idle",
             \/ p \notin {"apply", "check2", "applyJob"}
             \/ wk[w].receipt \in Receipts
      PROVE  WorkersMove
  BY <1>1, <1>3 DEF Goto, WorkersMove, WorkerOK, WorkerStates, O, QueuedStable, Known
<1>4. ASSUME NEW p \in Pcs, NEW r \in Receipts, wk[w].pc # "idle",
             GotoWith(w, p, r), Known(O(w), r)
      PROVE  WorkersMove
  BY <1>1, <1>4 DEF GotoWith, WorkersMove, WorkerOK, WorkerStates, O, QueuedStable, Known
<1> QED
  BY <1>2, <1>3, <1>4

\* A worker starts on a queued operation, knowing nothing of the provider.
LEMMA WorkerStarts ==
  ASSUME IInv, NEW w \in Workers, NEW o \in Ops, NEW n \in Nat,
         NEW p \in {"mark", "query", "manual"},
         op[o].status # "none", UNCHANGED <<op, prov>>,
         wk' = [wk EXCEPT ![w] = At(p, o, n)]
  PROVE  WorkersMove /\ wk' \in [Workers -> WorkerStates]
<1> DEFINE x == At(p, o, n)
<1>1. x = [pc |-> p, op |-> o, fence |-> n, receipt |-> NoReceipt]
  BY DEF At
<1>2. x \in WorkerStates
  BY <1>1 DEF WorkerStates, AnyReceipt, Pcs
<1>3. wk \in [Workers -> WorkerStates]
  BY DEF IInv, TypeOK, WorkerStates, AnyReceipt
<1>4. Known(o, NoReceipt)
  BY RowTypes DEF IInv, Known, NoReceipt, Outcomes
<1>5. wk' = [wk EXCEPT ![w] = x]
  OBVIOUS
<1>6. x.pc = p /\ x.op = o /\ x.receipt = NoReceipt
  BY <1>1
<1> HIDE DEF x
<1>7. wk' \in [Workers -> WorkerStates] /\ wk'[w] = x
  BY <1>2, <1>3, <1>5
<1>8. WorkerOK(w)'
  BY <1>4, <1>6, <1>7 DEF WorkerOK, O, Known
<1> QED
  BY <1>3, <1>5, <1>7, <1>8 DEF WorkersMove

\* The case and the queue of one operation.
LEMMA CaseStep ==
  ASSUME IInv, NEW o \in Ops, CreateCase(o) \/ ReviewCase(o)
  PROVE  IInv'
<1>1. /\ case[o] \in Unexecuted
      /\ \E s \in Unexecuted : case' = [case EXCEPT ![o] = s]
      /\ UNCHANGED <<op, out, job, prov, events, inbox, asked, wk, sent>>
  BY DEF CreateCase, ReviewCase, Unexecuted
<1>2. PICK s \in Unexecuted : case' = [case EXCEPT ![o] = s]
  BY <1>1
<1>3. TypeOK'
  BY <1>1, <1>2 DEF IInv, TypeOK, CaseStatuses
<1>4. CaseMatchesOperation'
  <2>1. op[o].status = "none"
    BY <1>1 DEF IInv, CaseMatchesOperation, Unexecuted
  <2> QED
    BY <1>1, <1>2, <2>1 DEF IInv, TypeOK, CaseMatchesOperation
<1>5. KnownStable /\ QueuedStable /\ WorkersMove
  BY <1>1 DEF KnownStable, QueuedStable, WorkersMove, Known
<1>6. /\ \A p \in Ops : OpOK(p)'
      /\ OutcomeRetiresSubmission'
      /\ OneReceiptPerOrder'
  BY <1>1 DEF IInv, OpOK, OutcomeRetiresSubmission, OneReceiptPerOrder
<1> QED
  BY <1>1, <1>3, <1>4, <1>5, <1>6, Assemble

\* An approved case is queued.
LEMMA EnqueueStep ==
  ASSUME IInv, NEW o \in Ops, Enqueue(o)
  PROVE  IInv'
<1>1. NewMessage(OutboxAttempts) \in Messages /\ NewMessage(JobAttempts) \in Messages
  BY RefundAssumption DEF Messages, NewMessage, NoMessage
<1>2. TypeOK'
  BY <1>1 DEF IInv, TypeOK, Enqueue, SetStatus, OpStatuses, CaseStatuses
<1>0. /\ \A p \in Ops : /\ p # o => op'[p] = op[p] /\ case'[p] = case[p]
                        /\ p # o => out'[p] = out[p] /\ job'[p] = job[p]
                        /\ op'[p].version = op[p].version
      /\ op[o].status = "none"
      /\ op'[o].status = "pending"
      /\ case'[o] = "processing"
      /\ UNCHANGED <<prov, events, asked, wk>>
  BY DEF IInv, TypeOK, Enqueue, SetStatus
<1>3. KnownStable /\ QueuedStable /\ WorkersMove
  BY <1>0 DEF KnownStable, QueuedStable, WorkersMove, Known
<1>4. ASSUME NEW p \in Ops PROVE OpOK(p)'
  BY <1>0, <1>4 DEF IInv, OpOK, Outcomes
<1>5. CaseMatchesOperation'
  BY <1>0 DEF IInv, CaseMatchesOperation
<1>6. OutcomeRetiresSubmission' /\ OneReceiptPerOrder'
  BY <1>0 DEF IInv, OutcomeRetiresSubmission, OneReceiptPerOrder, Outcomes
<1> QED
  BY <1>0, <1>2, <1>3, <1>4, <1>5, <1>6, Assemble

\* An operator asks for another query.
LEMMA RequeueStep ==
  ASSUME IInv, NEW o \in Ops, RequeueChecks(o) \/ Requeue(o)
  PROVE  IInv'
<1>1. CASE RequeueChecks(o)
  <2>1. TypeOK' /\ WorkersMove
    BY <1>1 DEF IInv, TypeOK, RequeueChecks, WorkersMove
  <2> QED
    BY <1>1, <2>1, QueueStep DEF RequeueChecks
<1>2. CASE Requeue(o)
  <2>1. job[o] \in Messages
    BY DEF IInv, TypeOK
  <2>2. [job[o] EXCEPT !.status = "pending",
                       !.max = job[o].attempt + JobAttempts] \in Messages
    <3>1. job[o].attempt + JobAttempts \in Nat
      BY <2>1, RefundAssumption DEF Messages
    <3> QED
      BY <2>1, <3>1 DEF Messages
  <2>3. job' \in [Ops -> Messages]
    BY <1>2, <2>2 DEF IInv, TypeOK, Requeue
  <2>4. TypeOK' /\ WorkersMove
    BY <1>2, <2>3 DEF IInv, TypeOK, Requeue, WorkersMove
  <2>5. \A p \in Ops : job[p].status = "none" => job'[p].status = "none"
    BY <1>2 DEF IInv, TypeOK, Requeue
  <2> QED
    BY <1>2, <2>4, <2>5, QueueStep DEF Requeue
<1> QED
  BY <1>1, <1>2

\* A lease runs out.
LEMMA LeaseStep ==
  ASSUME IInv, NEW o \in Ops, LeaseExpires(o)
  PROVE  IInv'
<1>1. out[o] \in Messages /\ job[o] \in Messages
  BY DEF IInv, TypeOK
<1>2. /\ Expired(out[o]) \in Messages /\ Expired(out[o]).status = out[o].status
      /\ Expired(job[o]) \in Messages /\ Expired(job[o]).status = job[o].status
  BY <1>1 DEF Messages, Expired
<1>3. TypeOK' /\ WorkersMove
  BY <1>2 DEF IInv, TypeOK, LeaseExpires, WorkersMove
<1>4. \A p \in Ops : out'[p].status = out[p].status /\ job'[p].status = job[p].status
  BY <1>2 DEF IInv, TypeOK, LeaseExpires
<1> QED
  BY <1>3, <1>4, QueueStep DEF LeaseExpires

\* The provider settles a delayed refund.
LEMMA SettleStep ==
  ASSUME IInv, NEW o \in Ops, Settle(o)
  PROVE  IInv'
<1> DEFINE r == [status |-> "succeeded", version |-> prov[o].version + 1]
<1>1. prov[o].version \in Nat /\ r \in Receipts
  BY RowTypes DEF IInv, Receipts, Outcomes
<1>2. prov' = [prov EXCEPT ![o] = r] /\ events' = events \union {<<o, r>>}
  BY DEF Settle
<1>3. prov[o].status = "processing" /\ UNCHANGED <<local, wk, sent>>
  BY DEF Settle
<1>4. TypeOK'
  BY <1>1, <1>2, <1>3 DEF IInv, TypeOK, local
<1>5. op[o].status # "none" /\ prov[o] # NoReceipt
  BY <1>3 DEF IInv, OpOK, NoReceipt
<1>6. WorkersMove
  BY <1>3 DEF WorkersMove
<1> HIDE DEF r
<1>7. r.version = prov[o].version + 1
  BY DEF r
<1> QED
  BY <1>1, <1>2, <1>3, <1>4, <1>5, <1>6, <1>7, ProviderStep

\* A callback arrives.
LEMMA CallbackStep ==
  ASSUME IInv, NEW e \in events, Callback(e[1], e[2])
  PROVE  IInv'
<1>1. e[1] \in Ops /\ e[2] \in Receipts /\ Known(e[1], e[2])
  BY DEF IInv, TypeOK
<1>2. op[e[1]].status # "none"
  <2>1. e[2].version \in Nat \ {0} /\ NoReceipt.version = 0
    BY <1>1 DEF Receipts, NoReceipt
  <2>2. prov[e[1]] # NoReceipt
    BY <1>1, <2>1 DEF Known
  <2> QED
    BY <1>1, <2>2 DEF IInv, OpOK
<1>3. TypeOK'
  BY <1>1, ApplyTypes DEF IInv, TypeOK, Callback
<1>4. WorkersMove
  BY DEF WorkersMove, Callback
<1> QED
  BY <1>1, <1>2, <1>3, <1>4, ApplyStep DEF Callback

\* A worker takes a message, or finds that its attempts are used up.
LEMMA ClaimStep ==
  ASSUME IInv, NEW w \in Workers, NEW o \in Ops,
         DispatchClaim(w, o) \/ ReconcileClaim(w, o)
  PROVE  IInv'
<1>1. \A m \in Messages : /\ ClaimedBy(m, w) \in Messages
                          /\ ClaimedBy(m, w).fence \in Nat
  <2>1. ASSUME NEW m \in Messages PROVE ClaimedBy(m, w) \in Messages
    BY MessageTypes, <2>1, 0 \in Nat
  <2> QED
    BY <2>1 DEF Messages
<1>2. QueuedStable /\ UNCHANGED <<op, case, prov, events, asked>>
  BY DEF DispatchClaim, ReconcileClaim, QueuedStable
<1>3. CASE DispatchClaim(w, o)
  <2> DEFINE m == ClaimedBy(out[o], w)
  <2>1. m \in Messages /\ m.fence \in Nat
    BY <1>1 DEF IInv, TypeOK
  <2>2. out' = [out EXCEPT ![o] = m] /\ UNCHANGED <<job, inbox, sent>>
    BY <1>3 DEF DispatchClaim
  <2>3. Claimable(out[o]) /\ wk[w].pc = "idle"
    BY <1>3 DEF DispatchClaim
  <2>4. \/ UNCHANGED wk
        \/ wk' = [wk EXCEPT ![w] = At("mark", o, m.fence)]
    BY <1>3 DEF DispatchClaim
  <2> HIDE DEF m
  <2>5. op[o].status # "none"
    BY <2>3 DEF IInv, OpOK, Claimable
  <2>6. WorkersMove /\ wk' \in [Workers -> WorkerStates]
    <3>1. CASE UNCHANGED wk
      BY <3>1 DEF IInv, TypeOK, WorkersMove, WorkerStates, AnyReceipt
    <3> QED
      BY <1>2, <2>1, <2>4, <2>5, <3>1, WorkerStarts
  <2>7. TypeOK'
    BY <1>2, <2>1, <2>2, <2>6 DEF IInv, TypeOK, WorkerStates, AnyReceipt
  <2>8. \A p \in Ops : out[p].status \in {"none", "sent"} => out'[p] = out[p]
    BY <2>2, <2>3 DEF Claimable, IInv, TypeOK
  <2> QED
    BY <1>2, <2>2, <2>6, <2>7, <2>8, QueueStep
<1>4. CASE ReconcileClaim(w, o)
  <2> DEFINE m == ClaimedBy(job[o], w)
  <2>1. m \in Messages /\ m.fence \in Nat
    BY <1>1 DEF IInv, TypeOK
  <2>2. job' = [job EXCEPT ![o] = m] /\ UNCHANGED <<out, inbox, sent>>
    BY <1>4 DEF ReconcileClaim
  <2>3. Claimable(job[o]) /\ wk[w].pc = "idle"
    BY <1>4 DEF ReconcileClaim
  <2>4. \/ UNCHANGED wk
        \/ wk' = [wk EXCEPT ![w] = At("query", o, m.fence)]
    BY <1>4 DEF ReconcileClaim
  <2> HIDE DEF m
  <2>5. op[o].status # "none"
    BY <2>3 DEF IInv, OpOK, Claimable
  <2>6. WorkersMove /\ wk' \in [Workers -> WorkerStates]
    <3>1. CASE UNCHANGED wk
      BY <3>1 DEF IInv, TypeOK, WorkersMove, WorkerStates, AnyReceipt
    <3> QED
      BY <1>2, <2>1, <2>4, <2>5, <3>1, WorkerStarts
  <2>7. TypeOK'
    BY <1>2, <2>1, <2>2, <2>6 DEF IInv, TypeOK, WorkerStates, AnyReceipt
  <2>8. \A p \in Ops : job[p].status = "none" => job'[p] = job[p]
    BY <2>2, <2>3 DEF Claimable, IInv, TypeOK
  <2> QED
    BY <1>2, <2>2, <2>6, <2>7, <2>8, QueueStep
<1> QED
  BY <1>3, <1>4

\* A worker moves and nothing else does.
LEMMA LocalStep ==
  ASSUME IInv, NEW w \in Workers, wk' \in [Workers -> WorkerStates], WorkersMove,
         UNCHANGED <<local, prov, events>>, sent' \in [Ops -> Nat]
  PROVE  IInv'
<1>1. TypeOK'
  BY DEF IInv, TypeOK, local, WorkerStates, AnyReceipt
<1> QED
  BY <1>1, QueueStep DEF local

\* What a busy worker holds.
LEMMA BusyWorker ==
  ASSUME IInv, NEW w \in Workers, wk[w].pc # "idle"
  PROVE  /\ O(w) \in Ops
         /\ op[O(w)].status # "none"
         /\ Known(O(w), wk[w].receipt)
         /\ wk[w].pc \in {"apply", "check2", "applyJob"} => wk[w].receipt \in Receipts
         /\ wk \in [Workers -> WorkerStates]
         /\ prov[O(w)] \in AnyReceipt
         /\ prov[O(w)].version \in Nat
         /\ out[O(w)] \in Messages
         /\ job[O(w)] \in Messages
<1>1. WorkerOK(w) /\ wk \in [Workers -> WorkerStates]
  BY DEF IInv, TypeOK, WorkerStates, AnyReceipt
<1>2. O(w) \in Ops
  BY <1>1 DEF WorkerOK
<1> QED
  BY <1>1, <1>2, RowTypes DEF WorkerOK, IInv

\* A worker that checks its lease, crashes, or sweeps.
LEMMA QuietStep ==
  ASSUME IInv, NEW w \in Workers,
         \/ CheckLease(w) \/ CheckJob(w) \/ Crash(w)
         \/ \E o \in Ops : Sweep(w, o)
  PROVE  IInv'
<1>1. UNCHANGED <<local, prov, events, sent>> /\ QueuedStable
  BY DEF CheckLease, CheckJob, Crash, Sweep, local, QueuedStable
<1>2. sent' \in [Ops -> Nat]
  BY <1>1 DEF IInv, TypeOK
<1>3. CASE \E o \in Ops : Sweep(w, o)
  <2>1. PICK o \in Ops : Sweep(w, o)
    BY <1>3
  <2>2. op[o].status # "none"
    BY <2>1 DEF Sweep, IInv, OpOK
  <2>3. WorkersMove /\ wk' \in [Workers -> WorkerStates]
    BY <1>1, <2>1, <2>2, WorkerStarts DEF Sweep, local
  <2> QED
    BY <1>1, <1>2, <2>3, LocalStep
<1>4. CASE CheckLease(w)
  <2>1. wk[w].pc # "idle" /\ (wk[w].pc = "check2" => wk[w].receipt \in Receipts)
    BY <1>4, BusyWorker DEF CheckLease
  <2>2. \/ Park(w)
        \/ wk[w].pc = "check" /\ Goto(w, "submit")
        \/ wk[w].pc = "check2" /\ Goto(w, "apply")
    BY <1>4 DEF CheckLease
  <2>3. wk' \in [Workers -> WorkerStates]
    BY <2>1, <2>2, BusyWorker, MoveTypes DEF Pcs
  <2>4. WorkersMove
    BY <1>1, <2>1, <2>2, <2>3, WorkerMoves DEF Pcs
  <2> QED
    BY <1>1, <1>2, <2>3, <2>4, LocalStep
<1>5. CASE CheckJob(w)
  <2>1. wk[w].pc # "idle" /\ wk[w].receipt \in AnyReceipt
    BY <1>5, WorkerTypes DEF CheckJob, IInv
  <2>2. \/ Park(w)
        \/ Goto(w, "retryJob")
        \/ wk[w].receipt \in Receipts /\ Goto(w, "applyJob")
    BY <1>5, <2>1 DEF CheckJob, AnyReceipt
  <2>3. wk' \in [Workers -> WorkerStates]
    BY <2>1, <2>2, BusyWorker, MoveTypes DEF Pcs
  <2>4. WorkersMove
    BY <1>1, <2>1, <2>2, <2>3, WorkerMoves DEF Pcs
  <2> QED
    BY <1>1, <1>2, <2>3, <2>4, LocalStep
<1>6. CASE Crash(w)
  <2>1. wk' \in [Workers -> WorkerStates]
    BY <1>6, BusyWorker, MoveTypes DEF Crash
  <2>2. WorkersMove
    BY <1>1, <1>6, <2>1, WorkerMoves DEF Crash
  <2> QED
    BY <1>1, <1>2, <2>1, <2>2, LocalStep
<1> QED
  BY <1>3, <1>4, <1>5, <1>6

\* The status of an operation keeps its type.
LEMMA StatusTypes ==
  ASSUME TypeOK, NEW o \in Ops, NEW s \in OpStatuses, SetStatus(o, s)
  PROVE  op' \in [Ops -> [status: OpStatuses, version: Nat]]
BY DEF TypeOK, SetStatus

\* An attempt begins, or a worker reports that it does not know the outcome.
LEMMA MarkStep ==
  ASSUME IInv, NEW w \in Workers, MarkAttempt(w) \/ MarkError(w) \/ MarkManual(w)
  PROVE  IInv'
<1>1. wk[w].pc # "idle"
  BY DEF MarkAttempt, MarkError, MarkManual
<1>2. /\ UNCHANGED <<case, out, job, prov, events, inbox, asked, sent>>
      /\ Park(w) \/ \E p \in {"finish", "check", "retry"} : Goto(w, p)
      /\ \/ UNCHANGED op
         \/ /\ op[O(w)].status \notin Settled
            /\ \E s \in {"running", "unknown", "needs_reconciliation"} :
                 SetStatus(O(w), s)
  BY DEF MarkAttempt, MarkError, MarkManual, MarkUnknown
<1>3. wk' \in [Workers -> WorkerStates]
  BY <1>1, <1>2, BusyWorker, MoveTypes DEF Pcs
<1>4. CASE UNCHANGED op
  <2>1. QueuedStable
    BY <1>4 DEF QueuedStable
  <2>2. WorkersMove
    BY <1>1, <1>2, <1>3, <2>1, WorkerMoves DEF Pcs
  <2> QED
    BY <1>2, <1>3, <1>4, <2>2, LocalStep DEF local, IInv, TypeOK
<1>5. ASSUME NEW s \in {"running", "unknown", "needs_reconciliation"},
             SetStatus(O(w), s), op[O(w)].status \notin Settled
      PROVE  IInv'
  <2>1. O(w) \in Ops /\ op[O(w)].status # "none"
    BY <1>1, BusyWorker
  <2>2. op' \in [Ops -> [status: OpStatuses, version: Nat]]
    BY <1>5, <2>1, StatusTypes DEF IInv, OpStatuses, Settled
  <2>3. TypeOK'
    BY <1>2, <1>3, <2>2 DEF IInv, TypeOK, WorkerStates, AnyReceipt
  <2>4. QueuedStable
    BY <1>5, <2>1 DEF QueuedStable, SetStatus, IInv, TypeOK
  <2>5. WorkersMove
    BY <1>1, <1>2, <1>3, <2>4, WorkerMoves DEF Pcs
  <2> QED
    BY <1>2, <1>5, <2>1, <2>3, <2>5, StatusStep
<1> QED
  BY <1>2, <1>4, <1>5

\* A worker gives its message back.
LEMMA FinishStep ==
  ASSUME IInv, NEW w \in Workers, FinishSent(w) \/ FinishRetry(w) \/ RetryJob(w)
  PROVE  IInv'
<1> DEFINE o == O(w)
<1>1. wk[w].pc # "idle"
  BY DEF FinishSent, FinishRetry, RetryJob
<1>2. o \in Ops /\ out[o] \in Messages /\ job[o] \in Messages
  BY <1>1, BusyWorker
<1>3. /\ Sent(out[o]) \in Messages
      /\ Retried(out[o]) \in Messages
      /\ Retried(job[o]) \in Messages
  BY <1>2 DEF Messages, Sent, Retried
<1>4. /\ UNCHANGED <<op, case, prov, events, inbox, asked, sent>>
      /\ Park(w) \/ Goto(w, "manual")
      /\ \/ UNCHANGED <<out, job>>
         \/ /\ out[o].status = "running"
            /\ UNCHANGED job
            /\ \E m \in Messages : out' = [out EXCEPT ![o] = m]
         \/ /\ job[o].status = "running"
            /\ UNCHANGED out
            /\ \E m \in Messages : job' = [job EXCEPT ![o] = m]
  <2>1. CASE FinishSent(w)
    BY <1>2, <1>3, <2>1 DEF FinishSent, HoldsOut, OwnedBy
  <2>2. CASE FinishRetry(w)
    BY <1>3, <2>2 DEF FinishRetry, HoldsOut, OwnedBy
  <2>3. CASE RetryJob(w)
    BY <1>3, <2>3 DEF RetryJob, HoldsJob, OwnedBy
  <2> QED
    BY <2>1, <2>2, <2>3
<1> HIDE DEF o
<1>5. wk' \in [Workers -> WorkerStates]
  BY <1>1, <1>4, BusyWorker, MoveTypes DEF Pcs
<1>6. QueuedStable
  BY <1>4 DEF QueuedStable
<1>7. WorkersMove
  BY <1>1, <1>4, <1>5, <1>6, WorkerMoves DEF Pcs
<1>8. TypeOK'
  BY <1>2, <1>4, <1>5 DEF IInv, TypeOK, WorkerStates, AnyReceipt
<1>9. \A p \in Ops : /\ out[p].status \in {"none", "sent"} => out'[p] = out[p]
                     /\ job[p].status = "none" => job'[p] = job[p]
  BY <1>2, <1>4 DEF IInv, TypeOK
<1> QED
  BY <1>4, <1>7, <1>8, <1>9, QueueStep

\* A worker applies the answer to its submission or to its query.
LEMMA AnswerStep ==
  ASSUME IInv, NEW w \in Workers, ApplyAnswer(w) \/ ApplyQuery(w)
  PROVE  IInv'
<1>1. wk[w].pc \in {"apply", "applyJob"}
  BY DEF ApplyAnswer, ApplyQuery
<1>2. /\ wk[w].pc # "idle"
      /\ O(w) \in Ops
      /\ op[O(w)].status # "none"
      /\ Known(O(w), wk[w].receipt)
      /\ wk[w].receipt \in Receipts
  BY <1>1, BusyWorker
<1>3. /\ UNCHANGED <<prov, events, inbox, asked, sent>>
      /\ Park(w) \/ \E p \in {"finish", "error", "retryJob"} : Goto(w, p)
      /\ Apply(O(w), wk[w].receipt) \/ UNCHANGED <<op, case, out, job>>
  BY DEF ApplyAnswer, ApplyQuery
<1>4. wk' \in [Workers -> WorkerStates]
  BY <1>2, <1>3, BusyWorker, MoveTypes DEF Pcs
<1>5. CASE UNCHANGED <<op, case, out, job>>
  <2>1. QueuedStable
    BY <1>5 DEF QueuedStable
  <2>2. WorkersMove
    BY <1>2, <1>3, <1>4, <2>1, WorkerMoves DEF Pcs
  <2> QED
    BY <1>3, <1>4, <1>5, <2>2, LocalStep DEF local, IInv, TypeOK
<1>6. CASE Apply(O(w), wk[w].receipt)
  <2>1. TypeOK'
    BY <1>2, <1>3, <1>4, <1>6, ApplyTypes DEF IInv, TypeOK, WorkerStates, AnyReceipt
  <2>2. QueuedStable
    <3>1. OperationAfter(wk[w].receipt).status # "none"
      BY <1>2 DEF OperationAfter, Receipts, Outcomes
    <3>2. CASE Newer(O(w), wk[w].receipt)
      <4>1. op' = [op EXCEPT ![O(w)] = OperationAfter(wk[w].receipt)]
        BY <1>6, <3>2 DEF Apply
      <4> QED
        BY <1>2, <3>1, <4>1 DEF QueuedStable, IInv, TypeOK
    <3>3. CASE ~Newer(O(w), wk[w].receipt)
      BY <1>6, <3>3 DEF QueuedStable, Apply
    <3> QED
      BY <3>2, <3>3
  <2>3. WorkersMove
    BY <1>2, <1>3, <1>4, <2>2, WorkerMoves DEF Pcs
  <2> QED
    BY <1>2, <1>3, <1>6, <2>1, <2>3, ApplyStep
<1> QED
  BY <1>3, <1>5, <1>6

\* A query, a submission that changes nothing at the provider.
LEMMA AskStep ==
  ASSUME IInv, NEW w \in Workers, Query(w) \/ SubmitRepeated(w) \/ SubmitFails(w)
  PROVE  IInv'
<1>1. wk[w].pc # "idle"
  BY DEF Query, SubmitRepeated, SubmitFails
<1>2. /\ O(w) \in Ops
      /\ op[O(w)].status # "none"
      /\ wk \in [Workers -> WorkerStates]
      /\ prov[O(w)] \in AnyReceipt
      /\ prov[O(w)].version \in Nat
  BY <1>1, BusyWorker
<1>3. /\ UNCHANGED <<local, prov, events>>
      /\ \/ Goto(w, "error") \/ Goto(w, "retryJob")
         \/ GotoWith(w, "checkJob", prov[O(w)])
         \/ prov[O(w)] \in Receipts /\ GotoWith(w, "check2", prov[O(w)])
  BY <1>2 DEF Query, SubmitRepeated, SubmitFails, Answered, AnyReceipt
<1>4. sent' \in [Ops -> Nat]
  BY <1>2 DEF Query, SubmitRepeated, SubmitFails, IInv, TypeOK
<1>5. wk' \in [Workers -> WorkerStates]
  BY <1>2, <1>3, MoveTypes DEF Pcs
<1>6. Known(O(w), prov[O(w)])
  BY <1>2 DEF Known
<1>7. QueuedStable /\ UNCHANGED prov
  BY <1>3 DEF QueuedStable, local
<1>8. CASE GotoWith(w, "checkJob", prov[O(w)])
  <2>1. WorkerOK(w)'
    BY <1>2, <1>3, <1>6, <1>8 DEF GotoWith, WorkerOK, WorkerStates, O, Known, local
  <2>2. WorkersMove
    BY <1>2, <1>8, <2>1 DEF GotoWith, WorkersMove
  <2> QED
    BY <1>3, <1>4, <1>5, <2>2, LocalStep
<1>9. CASE ~GotoWith(w, "checkJob", prov[O(w)])
  <2>1. WorkersMove
    BY <1>1, <1>3, <1>5, <1>6, <1>7, <1>9, WorkerMoves DEF Pcs
  <2> QED
    BY <1>3, <1>4, <1>5, <2>1, LocalStep
<1> QED
  BY <1>8, <1>9

\* The provider accepts a submission.
LEMMA AcceptStep ==
  ASSUME IInv, NEW w \in Workers, SubmitAccepted(w)
  PROVE  IInv'
<1>1. wk[w].pc = "submit" /\ prov[O(w)] = NoReceipt /\ ~OrderTaken(O(w))
  BY DEF SubmitAccepted
<1>2. /\ O(w) \in Ops
      /\ op[O(w)].status # "none"
      /\ wk \in [Workers -> WorkerStates]
      /\ Known(O(w), wk[w].receipt)
      /\ wk[w].receipt \in AnyReceipt
      /\ wk[w].op = O(w)
  BY <1>1, BusyWorker, WorkerTypes DEF IInv, O
<1>3. PICK s \in {"processing"} \union Outcomes :
        LET r == [status |-> s, version |-> 1]
        IN  /\ prov' = [prov EXCEPT ![O(w)] = r]
            /\ events' = events \union {<<O(w), r>>}
            /\ Answered(w, r)
  BY DEF SubmitAccepted
<1> DEFINE r == [status |-> s, version |-> 1]
<1>4. r \in Receipts /\ r.version = prov[O(w)].version + 1
  BY <1>1 DEF Receipts, NoReceipt
<1>5. UNCHANGED local /\ sent' \in [Ops -> Nat]
  BY <1>2 DEF SubmitAccepted, IInv, TypeOK
<1>6. /\ prov' = [prov EXCEPT ![O(w)] = r]
      /\ events' = events \union {<<O(w), r>>}
      /\ GotoWith(w, "check2", r) \/ Goto(w, "error")
  BY <1>3 DEF Answered
<1> HIDE DEF r
<1>7. wk' \in [Workers -> WorkerStates]
  BY <1>2, <1>4, <1>6, MoveTypes DEF Pcs, AnyReceipt
<1>8. TypeOK'
  BY <1>2, <1>4, <1>5, <1>6, <1>7
  DEF IInv, TypeOK, local, WorkerStates, AnyReceipt
<1>9. prov'[O(w)] = r /\ r.version = 1 /\ op' = op
  BY <1>1, <1>2, <1>4, <1>5, <1>6 DEF IInv, TypeOK, NoReceipt, local
<1>10. WorkerOK(w)'
  <2>1. CASE GotoWith(w, "check2", r)
    <3>1. wk'[w].receipt = r /\ wk'[w].op = O(w)
      BY <1>2, <2>1 DEF GotoWith, WorkerStates
    <3> QED
      BY <1>2, <1>4, <1>9, <3>1 DEF WorkerOK, O, Known
  <2>2. CASE Goto(w, "error")
    <3>1. /\ wk'[w].receipt = wk[w].receipt
          /\ wk'[w].op = O(w)
          /\ wk'[w].pc = "error"
      BY <1>2, <2>2 DEF Goto, WorkerStates
    <3>2. wk[w].receipt.status \notin Outcomes /\ wk[w].receipt.version <= 1
      BY <1>1, <1>2 DEF Known, NoReceipt, Outcomes, AnyReceipt, Receipts
    <3> QED
      BY <1>2, <1>9, <3>1, <3>2 DEF WorkerOK, O, Known
  <2> QED
    BY <1>6, <2>1, <2>2
<1>11. WorkersMove
  BY <1>2, <1>6, <1>10 DEF GotoWith, Goto, WorkersMove
<1> QED
  BY <1>1, <1>2, <1>4, <1>5, <1>6, <1>8, <1>11, ProviderStep

-----------------------------------------------------------------------------
(* The invariant *)

\* Every step preserves the invariant.
LEMMA NextStep == IInv /\ [Next]_vars => IInv'
<1> SUFFICES ASSUME IInv, [Next]_vars PROVE IInv'
  OBVIOUS
<1>1. ASSUME NEW o \in Ops,
             \/ CreateCase(o) \/ ReviewCase(o) \/ Enqueue(o)
             \/ RequeueChecks(o) \/ Requeue(o) \/ LeaseExpires(o) \/ Settle(o)
      PROVE  IInv'
  BY <1>1, CaseStep, EnqueueStep, RequeueStep, LeaseStep, SettleStep
<1>2. ASSUME NEW e \in events, Callback(e[1], e[2]) PROVE IInv'
  BY <1>2, CallbackStep
<1>3. ASSUME NEW w \in Workers, WorkerStep(w) PROVE IInv'
  BY <1>3, MarkStep, QuietStep, AcceptStep, AskStep, AnswerStep, FinishStep
  DEF WorkerStep
<1>4. ASSUME NEW w \in Workers, Crash(w) PROVE IInv'
  BY <1>4, QuietStep
<1>5. ASSUME NEW w \in Workers, NEW o \in Ops, Poll(w, o) PROVE IInv'
  BY <1>5, ClaimStep, QuietStep DEF Poll
<1>6. CASE UNCHANGED vars
  <2>1. TypeOK' /\ WorkersMove
    BY <1>6 DEF vars, IInv, TypeOK, WorkersMove
  <2> QED
    BY <1>6, <2>1, QueueStep DEF vars
<1> QED
  BY <1>1, <1>2, <1>3, <1>4, <1>5, <1>6 DEF Next

\* The initial state has the invariant.
LEMMA InitStep == Init => IInv
<1> SUFFICES ASSUME Init PROVE IInv
  OBVIOUS
<1>1. NoMessage \in Messages
  BY DEF NoMessage, Messages
<1>2. IdleWorker \in WorkerStates /\ IdleWorker.pc = "idle"
  BY DEF IdleWorker, At, WorkerStates, AnyReceipt, Pcs
<1>3. TypeOK
  BY <1>1, <1>2 DEF Init, TypeOK, OpStatuses, CaseStatuses, Unexecuted, WorkerStates,
                    AnyReceipt
<1>4. \A o \in Ops : OpOK(o)
  BY DEF Init, OpOK, NoReceipt, NoMessage, Outcomes
<1>5. CaseMatchesOperation /\ OutcomeRetiresSubmission /\ OneReceiptPerOrder
  BY DEF Init, CaseMatchesOperation, OutcomeRetiresSubmission, OneReceiptPerOrder,
         Unexecuted, Outcomes
<1>6. \A w \in Workers : WorkerOK(w)
  BY <1>2 DEF Init, WorkerOK
<1> QED
  BY <1>3, <1>4, <1>5, <1>6 DEF Init, IInv

\* Operations, cases, messages, receipts and workers agree in every reachable
\* state of the pipeline.
THEOREM InvariantHolds == Spec => []IInv
BY InitStep, NextStep, PTL DEF Spec

\* Whatever the order of answers, queries and callbacks, what the platform
\* reports of a refund is what the provider did.
THEOREM OutcomeIsTrue == Spec => []OutcomeMatchesProvider
<1>1. IInv => OutcomeMatchesProvider
  BY DEF IInv, OpOK, OutcomeMatchesProvider
<1> QED
  BY <1>1, InvariantHolds, PTL

\* A case and its operation tell the same story.
THEOREM CaseAgrees == Spec => []CaseMatchesOperation
<1>1. IInv => CaseMatchesOperation
  BY DEF IInv
<1> QED
  BY <1>1, InvariantHolds, PTL

\* A submission is retired with its outcome and stays retired.
THEOREM SubmissionRetired == Spec => []OutcomeRetiresSubmission
<1>1. IInv => OutcomeRetiresSubmission
  BY DEF IInv
<1> QED
  BY <1>1, InvariantHolds, PTL

\* One order is refunded once, whatever cases are opened on it.
THEOREM OrderRefundedOnce == Spec => []OneRefundPerOrder
<1>1. IInv => OneRefundPerOrder
  BY DEF IInv, OpOK, OneReceiptPerOrder, OneRefundPerOrder, NoReceipt, Outcomes
<1> QED
  BY <1>1, InvariantHolds, PTL

-----------------------------------------------------------------------------
(* The attempts of a submission *)

UnsentPcs == {"mark", "check", "submit"}

\* No worker gets a request to send.
UnsentShrinks == \A o \in Ops : Unsent(o)' \subseteq Unsent(o)

\* A message keeps its attempts, and one that exists stays.
Keeps(m, n) ==
  /\ n.attempt = m.attempt /\ n.max = m.max
  /\ n.status = "none" => m.status = "none"

\* The workers with a request to send can be counted, before a step and after.
LEMMA UnsentFinite ==
  ASSUME NEW o \in Ops
  PROVE  /\ IsFiniteSet(Unsent(o)) /\ Cardinality(Unsent(o)) \in Nat
         /\ IsFiniteSet(Unsent(o)') /\ Cardinality(Unsent(o)') \in Nat
<1>1. Unsent(o) \in SUBSET Workers /\ Unsent(o)' \in SUBSET Workers
  BY DEF Unsent
<1>2. IsFiniteSet(Workers)
  BY RefundAssumption
<1>3. IsFiniteSet(Unsent(o)) /\ IsFiniteSet(Unsent(o)')
  BY <1>1, <1>2, FS_Subset
<1> QED
  BY <1>3, FS_CardinalityType

\* The numbers of a submission, before a step and after.
LEMMA AttemptTypes ==
  ASSUME TypeOK, TypeOK', NEW o \in Ops
  PROVE  /\ sent[o] \in Nat /\ out[o].attempt \in Nat /\ out[o].max \in Nat
         /\ sent'[o] \in Nat /\ out'[o].attempt \in Nat /\ out'[o].max \in Nat
         /\ OutboxAttempts \in Nat
BY RefundAssumption DEF TypeOK, Messages

\* A submission that keeps its attempts while nobody sends its request.
LEMMA KeptAttempts ==
  ASSUME TypeOK, TypeOK', Attempts, UNCHANGED sent, UnsentShrinks,
         NEW o \in Ops, Keeps(out[o], out'[o])
  PROVE  AttemptsOK(o)'
<1>1. Cardinality(Unsent(o)') <= Cardinality(Unsent(o))
  BY UnsentFinite, FS_Subset DEF UnsentShrinks
<1>2. AttemptsOK(o)
  BY DEF Attempts
<1> QED
  BY <1>1, <1>2, AttemptTypes, UnsentFinite DEF AttemptsOK, Keeps

\* A worker that is parked, that goes past its request or that only comes
\* closer to it has no new one to send.
LEMMA MovesShrink ==
  ASSUME TypeOK, NEW w \in Workers
  PROVE  /\ UNCHANGED wk => UnsentShrinks
         /\ Park(w) => UnsentShrinks
         /\ \A p : Goto(w, p) /\ (wk[w].pc \in UnsentPcs \/ p \notin UnsentPcs)
                     => UnsentShrinks
         /\ \A p, r : GotoWith(w, p, r) /\ p \notin UnsentPcs => UnsentShrinks
         /\ \A p, o, f : wk' = [wk EXCEPT ![w] = At(p, o, f)] /\ p \notin UnsentPcs
                           => UnsentShrinks
<1>1. wk \in [Workers -> WorkerStates]
  BY DEF TypeOK, WorkerStates, AnyReceipt
<1>2. UNCHANGED wk => UnsentShrinks
  BY DEF UnsentShrinks, Unsent
<1>3. Park(w) => UnsentShrinks
  BY <1>1 DEF Park, UnsentShrinks, Unsent, IdleWorker, At
<1>4. ASSUME NEW p, Goto(w, p), wk[w].pc \in UnsentPcs \/ p \notin UnsentPcs
      PROVE  UnsentShrinks
  <2>1. /\ \A v \in Workers : /\ v # w => wk'[v] = wk[v]
                              /\ wk'[v].op = wk[v].op
        /\ wk'[w].pc = p
    BY <1>1, <1>4 DEF Goto, WorkerStates
  <2> QED
    BY <1>4, <2>1 DEF UnsentShrinks, Unsent, UnsentPcs
<1>5. ASSUME NEW p, NEW r, GotoWith(w, p, r), p \notin UnsentPcs
      PROVE  UnsentShrinks
  <2>1. /\ \A v \in Workers : v # w => wk'[v] = wk[v]
        /\ wk'[w].pc = p
    BY <1>1, <1>5 DEF GotoWith, WorkerStates
  <2> QED
    BY <1>5, <2>1 DEF UnsentShrinks, Unsent, UnsentPcs
<1>6. ASSUME NEW p, NEW o, NEW f, wk' = [wk EXCEPT ![w] = At(p, o, f)], p \notin UnsentPcs
      PROVE  UnsentShrinks
  <2>1. /\ \A v \in Workers : v # w => wk'[v] = wk[v]
        /\ wk'[w].pc = p
    BY <1>1, <1>6 DEF At
  <2> QED
    BY <1>6, <2>1 DEF UnsentShrinks, Unsent, UnsentPcs
<1> QED
  BY <1>2, <1>3, <1>4, <1>5, <1>6

\* What the operations of the queue other than a claim do to the attempts.
LEMMA MessagesKeep ==
  ASSUME NEW m \in Messages
  PROVE  /\ Keeps(m, m) /\ Keeps(m, Sent(m)) /\ Keeps(m, Expired(m))
         /\ Keeps(m, Retried(m))
BY DEF Messages, Keeps, Sent, Expired, Retried

\* What a receipt does to the messages.
LEMMA ApplyKeeps ==
  ASSUME TypeOK, NEW o \in Ops, NEW r, Apply(o, r)
  PROVE  \A p \in Ops : Keeps(out[p], out'[p])
<1>1. \A p \in Ops : Keeps(out[p], out[p]) /\ Keeps(out[p], Sent(out[p]))
  BY MessagesKeep DEF TypeOK
<1>2. out' = out \/ out' = [out EXCEPT ![o] = Sent(out[o])]
  BY DEF Apply, Retired
<1> QED
  BY <1>1, <1>2 DEF TypeOK

\* A step in which nobody sends or gets a request, and the submissions keep
\* their attempts.
LEMMA KeptStep ==
  ASSUME TypeOK, TypeOK', Attempts, UNCHANGED sent, UnsentShrinks,
         \A o \in Ops : Keeps(out[o], out'[o])
  PROVE  Attempts'
BY KeptAttempts DEF Attempts

\* The steps of cases, operators, callbacks, leases and the provider.
LEMMA OperationAttempts ==
  ASSUME IInv, TypeOK', Attempts, NEW o \in Ops,
         \/ CreateCase(o) \/ ReviewCase(o)
         \/ RequeueChecks(o) \/ Requeue(o) \/ LeaseExpires(o) \/ Settle(o)
         \/ \E r \in Receipts : Callback(o, r)
  PROVE  Attempts'
<1>1. UNCHANGED <<wk, sent>> /\ TypeOK /\ UnsentShrinks
  BY DEF CreateCase, ReviewCase, RequeueChecks, Requeue, LeaseExpires, Settle,
         Callback, IInv, UnsentShrinks, Unsent
<1>2. \A p \in Ops : Keeps(out[p], out[p]) /\ Keeps(out[p], Expired(out[p]))
  BY <1>1, MessagesKeep DEF TypeOK
<1>3. CASE UNCHANGED out
  BY <1>1, <1>2, <1>3, KeptStep
<1>4. CASE LeaseExpires(o)
  <2>1. out' = out \/ out' = [out EXCEPT ![o] = Expired(out[o])]
    BY <1>4 DEF LeaseExpires
  <2>2. \A p \in Ops : Keeps(out[p], out'[p])
    BY <1>1, <1>2, <2>1 DEF TypeOK
  <2> QED
    BY <1>1, <2>2, KeptStep
<1>5. ASSUME NEW r \in Receipts, Callback(o, r) PROVE Attempts'
  <2>1. \A p \in Ops : Keeps(out[p], out'[p])
    BY <1>1, <1>5, ApplyKeeps DEF Callback
  <2> QED
    BY <1>1, <2>1, KeptStep
<1> QED
  BY <1>3, <1>4, <1>5
  DEF CreateCase, ReviewCase, RequeueChecks, Requeue, Settle, local

\* A refund is queued: nobody has claimed or sent it before.
LEMMA EnqueueAttempts ==
  ASSUME IInv, TypeOK', Attempts, NEW o \in Ops, Enqueue(o)
  PROVE  Attempts'
<1>1. UNCHANGED <<wk, sent>> /\ TypeOK /\ UnsentShrinks
  BY DEF Enqueue, IInv, UnsentShrinks, Unsent
<1>2. /\ out'[o].attempt = 0 /\ out'[o].max = OutboxAttempts
      /\ out'[o].status = "pending"
      /\ \A p \in Ops : p # o => out'[p] = out[p]
  BY <1>1 DEF Enqueue, NewMessage, NoMessage, TypeOK
<1>3. ASSUME NEW p \in Ops, p # o PROVE AttemptsOK(p)'
  <2>1. Keeps(out[p], out'[p])
    BY <1>1, <1>2, <1>3, MessagesKeep DEF TypeOK
  <2> QED
    BY <1>1, <2>1, KeptAttempts
<1>4. AttemptsOK(o)'
  <2>1. out[o].attempt = 0 /\ AttemptsOK(o)
    BY DEF IInv, OpOK, Enqueue, Attempts, AttemptsOK
  <2>2. Unsent(o)' = Unsent(o)
    BY <1>1 DEF Unsent
  <2> QED
    BY <1>1, <1>2, <2>1, <2>2, AttemptTypes, UnsentFinite DEF AttemptsOK
<1> QED
  BY <1>3, <1>4 DEF Attempts

\* The steps of a worker that claim nothing and send nothing.
LEMMA WorkerAttempts ==
  ASSUME IInv, TypeOK', Attempts, NEW w \in Workers,
         \/ MarkAttempt(w) \/ CheckLease(w) \/ ApplyAnswer(w) \/ FinishSent(w)
         \/ MarkError(w) \/ FinishRetry(w) \/ MarkManual(w) \/ Query(w)
         \/ CheckJob(w) \/ ApplyQuery(w) \/ RetryJob(w) \/ Crash(w)
  PROVE  Attempts'
<1>1. TypeOK /\ UNCHANGED sent
  BY DEF IInv, MarkAttempt, CheckLease, ApplyAnswer, FinishSent, MarkError,
         FinishRetry, MarkManual, Query, CheckJob, ApplyQuery, RetryJob, Crash
<1>2. UnsentShrinks
  <2>1. \/ Park(w)
        \/ wk[w].pc \in UnsentPcs /\ \E p \in {"finish", "check", "submit"} : Goto(w, p)
        \/ \E p \in Pcs \ UnsentPcs : Goto(w, p)
        \/ GotoWith(w, "checkJob", prov[O(w)])
    <3>1. CASE MarkAttempt(w)
      BY <3>1 DEF MarkAttempt, UnsentPcs
    <3>2. CASE CheckLease(w)
      BY <3>2 DEF CheckLease, UnsentPcs, Pcs
    <3>3. CASE ApplyAnswer(w) \/ FinishSent(w) \/ MarkError(w) \/ FinishRetry(w)
      BY <3>3 DEF ApplyAnswer, FinishSent, MarkError, FinishRetry, UnsentPcs, Pcs
    <3>4. CASE MarkManual(w) \/ Query(w) \/ CheckJob(w)
      BY <3>4 DEF MarkManual, Query, CheckJob, UnsentPcs, Pcs
    <3>5. CASE ApplyQuery(w) \/ RetryJob(w) \/ Crash(w)
      BY <3>5 DEF ApplyQuery, RetryJob, Crash, UnsentPcs, Pcs
    <3> QED
      BY <3>1, <3>2, <3>3, <3>4, <3>5
  <2> QED
    BY <1>1, <2>1, MovesShrink DEF UnsentPcs
<1>3. \A p \in Ops : /\ Keeps(out[p], out[p]) /\ Keeps(out[p], Sent(out[p]))
                     /\ Keeps(out[p], Retried(out[p]))
  BY <1>1, MessagesKeep DEF TypeOK
<1>4. \A p \in Ops : Keeps(out[p], out'[p])
  <2>1. wk[w].pc # "idle"
    BY DEF MarkAttempt, CheckLease, ApplyAnswer, FinishSent, MarkError,
           FinishRetry, MarkManual, Query, CheckJob, ApplyQuery, RetryJob, Crash
  <2>2. O(w) \in Ops
    BY <2>1, BusyWorker
  <2>3. CASE UNCHANGED out
    BY <1>3, <2>3
  <2>4. CASE ApplyAnswer(w) \/ ApplyQuery(w)
    <3>1. Apply(O(w), wk[w].receipt) \/ UNCHANGED out
      BY <2>4 DEF ApplyAnswer, ApplyQuery
    <3> QED
      BY <1>1, <2>2, <2>3, <3>1, ApplyKeeps
  <2>5. CASE FinishSent(w) \/ FinishRetry(w)
    <3>1. \/ UNCHANGED out
          \/ out' = [out EXCEPT ![O(w)] = Sent(out[O(w)])]
          \/ out' = [out EXCEPT ![O(w)] = Retried(out[O(w)])]
      BY <1>1, <2>2, <2>5 DEF FinishSent, FinishRetry, TypeOK
    <3> QED
      BY <1>1, <1>3, <2>2, <3>1 DEF TypeOK
  <2> QED
    BY <2>3, <2>4, <2>5
    DEF MarkAttempt, CheckLease, MarkError, MarkManual, Query, CheckJob, RetryJob,
        Crash, local
<1> QED
  BY <1>1, <1>2, <1>4, KeptStep

\* A request is sent: the worker that sends it had it to send.
LEMMA SubmitAttempts ==
  ASSUME IInv, TypeOK', Attempts, NEW w \in Workers,
         SubmitAccepted(w) \/ SubmitRepeated(w) \/ SubmitFails(w)
  PROVE  Attempts'
<1>1. /\ wk[w].pc = "submit" /\ TypeOK /\ UNCHANGED out
      /\ sent' = [sent EXCEPT ![O(w)] = @ + 1]
      /\ Goto(w, "error") \/ \E r : GotoWith(w, "check2", r)
  BY DEF SubmitAccepted, SubmitRepeated, SubmitFails, Answered, IInv, local
<1>2. O(w) \in Ops
  BY <1>1, BusyWorker
<1>3. UnsentShrinks
  BY <1>1, MovesShrink DEF UnsentPcs
<1>4. w \in Unsent(O(w)) /\ \A o \in Ops : w \notin Unsent(o)'
  <2>1. wk'[w].pc \in {"error", "check2"}
    <3>1. wk \in [Workers -> WorkerStates]
      BY <1>1 DEF TypeOK, WorkerStates, AnyReceipt
    <3> QED
      BY <1>1, <3>1 DEF Goto, GotoWith, WorkerStates
  <2> QED
    BY <1>1, <2>1 DEF Unsent, O
<1>5. ASSUME NEW o \in Ops PROVE AttemptsOK(o)'
  <2>1. AttemptsOK(o)
    BY DEF Attempts
  <2>2. Cardinality(Unsent(o)') <= Cardinality(Unsent(o))
    BY <1>3, UnsentFinite, FS_Subset DEF UnsentShrinks
  <2>3. CASE o # O(w)
    <3>1. sent'[o] = sent[o]
      BY <1>1, <1>2, <2>3 DEF TypeOK
    <3> QED
      BY <1>1, <2>1, <2>2, <3>1, AttemptTypes, UnsentFinite DEF AttemptsOK
  <2>4. CASE o = O(w)
    <3>1. Unsent(o)' \subseteq Unsent(o) \ {w}
      BY <1>3, <1>4, <2>4 DEF UnsentShrinks
    <3>2. /\ Cardinality(Unsent(o) \ {w}) = Cardinality(Unsent(o)) - 1
          /\ IsFiniteSet(Unsent(o) \ {w})
      BY <1>4, <2>4, UnsentFinite, FS_RemoveElement
    <3>3. Cardinality(Unsent(o)') <= Cardinality(Unsent(o)) - 1
      BY <3>1, <3>2, FS_Subset
    <3>4. sent'[o] = sent[o] + 1
      BY <1>1, <1>2, <2>4 DEF TypeOK
    <3> QED
      BY <1>1, <2>1, <3>3, <3>4, AttemptTypes, UnsentFinite DEF AttemptsOK
  <2> QED
    BY <2>3, <2>4
<1> QED
  BY <1>5 DEF Attempts

\* A claim costs an attempt and gives its worker one request to send.
LEMMA ClaimAttempts ==
  ASSUME IInv, TypeOK', Attempts, NEW w \in Workers, NEW o \in Ops,
         DispatchClaim(w, o)
  PROVE  Attempts'
<1> DEFINE m == ClaimedBy(out[o], w)
<1>1. /\ wk[w].pc = "idle" /\ TypeOK /\ UNCHANGED sent
      /\ out' = [out EXCEPT ![o] = m]
      /\ wk' = IF m.status = "running" THEN [wk EXCEPT ![w] = At("mark", o, m.fence)]
                                       ELSE wk
  BY DEF DispatchClaim, IInv
<1>2. /\ out'[o] = m /\ out[o] \in Messages
      /\ \A p \in Ops : p # o => out'[p] = out[p] /\ Keeps(out[p], out'[p])
  BY <1>1, MessagesKeep DEF TypeOK
<1>3. CASE out[o].attempt < out[o].max
  <2>1. /\ m.status = "running" /\ m.attempt = out[o].attempt + 1
        /\ m.max = out[o].max
    BY <1>2, <1>3 DEF ClaimedBy, Messages
  <2>2. /\ \A v \in Workers : v # w => wk'[v] = wk[v]
        /\ wk'[w].op = o /\ wk'[w].pc = "mark"
    BY <1>1, <2>1 DEF TypeOK, At
  <2> HIDE DEF m
  <2>3. ASSUME NEW p \in Ops, p # o PROVE AttemptsOK(p)'
    <3>1. Unsent(p)' \subseteq Unsent(p) /\ AttemptsOK(p)
      BY <2>2, <2>3 DEF Unsent, Attempts
    <3>2. Cardinality(Unsent(p)') <= Cardinality(Unsent(p))
      BY <3>1, UnsentFinite, FS_Subset
    <3> QED
      BY <1>1, <1>2, <2>3, <3>1, <3>2, AttemptTypes, UnsentFinite
      DEF AttemptsOK, Keeps
  <2>4. AttemptsOK(o)'
    <3>1. Unsent(o)' \subseteq Unsent(o) \union {w} /\ AttemptsOK(o)
      BY <2>2 DEF Unsent, Attempts
    <3>2. /\ IsFiniteSet(Unsent(o) \union {w})
          /\ Cardinality(Unsent(o) \union {w}) <= Cardinality(Unsent(o)) + 1
      <4>1. IsFiniteSet(Unsent(o)) /\ Cardinality(Unsent(o)) \in Nat
        BY UnsentFinite
      <4>2. /\ IsFiniteSet(Unsent(o) \union {w})
            /\ Cardinality(Unsent(o) \union {w})
                 = IF w \in Unsent(o) THEN Cardinality(Unsent(o))
                                      ELSE Cardinality(Unsent(o)) + 1
        BY <4>1, FS_AddElement
      <4> QED
        BY <4>1, <4>2
    <3>3. Cardinality(Unsent(o)') <= Cardinality(Unsent(o) \union {w})
      BY <3>1, <3>2, FS_Subset
    <3>4. /\ Cardinality(Unsent(o)') <= Cardinality(Unsent(o)) + 1
      <4>1. Cardinality(Unsent(o) \union {w}) \in Nat
        BY <3>2, FS_CardinalityType
      <4> QED
        BY <3>2, <3>3, <4>1, UnsentFinite
    <3> QED
      BY <1>1, <1>2, <1>3, <2>1, <3>1, <3>4, AttemptTypes, UnsentFinite
      DEF AttemptsOK
  <2> QED
    BY <2>3, <2>4 DEF Attempts
<1>4. CASE ~(out[o].attempt < out[o].max)
  <2>1. m.status = "dead" /\ Keeps(out[o], m)
    BY <1>2, <1>4 DEF ClaimedBy, Messages, Keeps
  <2>2. UnsentShrinks
    BY <1>1, <2>1 DEF UnsentShrinks, Unsent
  <2> QED
    BY <1>1, <1>2, <2>1, <2>2, KeptStep
<1> QED
  BY <1>3, <1>4

\* A query of the provider and the sweep take no submission.
LEMMA PollAttempts ==
  ASSUME IInv, TypeOK', Attempts, NEW w \in Workers, NEW o \in Ops,
         ReconcileClaim(w, o) \/ Sweep(w, o)
  PROVE  Attempts'
<1>1. /\ TypeOK /\ UNCHANGED <<out, sent>>
      /\ \/ UNCHANGED wk
         \/ \E p \in {"query", "manual"} : \E f : wk' = [wk EXCEPT ![w] = At(p, o, f)]
  BY DEF ReconcileClaim, Sweep, IInv, local
<1>2. UnsentShrinks
  BY <1>1, MovesShrink DEF UnsentPcs
<1>3. \A p \in Ops : Keeps(out[p], out'[p])
  BY <1>1, MessagesKeep DEF TypeOK
<1> QED
  BY <1>1, <1>2, <1>3, KeptStep

\* Every step keeps the requests within the attempts.
LEMMA NextAttempts == IInv /\ TypeOK' /\ Attempts /\ [Next]_vars => Attempts'
<1> SUFFICES ASSUME IInv, TypeOK', Attempts, [Next]_vars PROVE Attempts'
  OBVIOUS
<1>1. ASSUME NEW o \in Ops,
             \/ CreateCase(o) \/ ReviewCase(o) \/ Enqueue(o)
             \/ RequeueChecks(o) \/ Requeue(o) \/ LeaseExpires(o) \/ Settle(o)
      PROVE  Attempts'
  BY <1>1, OperationAttempts, EnqueueAttempts
<1>2. ASSUME NEW e \in events, Callback(e[1], e[2]) PROVE Attempts'
  <2>1. e[1] \in Ops /\ e[2] \in Receipts
    BY DEF IInv, TypeOK
  <2> QED
    BY <1>2, <2>1, OperationAttempts
<1>3. ASSUME NEW w \in Workers, WorkerStep(w) PROVE Attempts'
  BY <1>3, WorkerAttempts, SubmitAttempts DEF WorkerStep
<1>4. ASSUME NEW w \in Workers, Crash(w) PROVE Attempts'
  BY <1>4, WorkerAttempts
<1>5. ASSUME NEW w \in Workers, NEW o \in Ops, Poll(w, o) PROVE Attempts'
  BY <1>5, ClaimAttempts, PollAttempts DEF Poll
<1>6. CASE UNCHANGED vars
  <2>1. \A o \in Ops : Keeps(out[o], out'[o])
    BY <1>6, MessagesKeep DEF vars, IInv, TypeOK
  <2>2. UnsentShrinks
    BY <1>6 DEF vars, UnsentShrinks, Unsent
  <2> QED
    BY <1>6, <2>1, <2>2, KeptStep DEF vars, IInv
<1> QED
  BY <1>1, <1>2, <1>3, <1>4, <1>5, <1>6 DEF Next

\* Nothing is claimed or sent at the beginning.
LEMMA InitAttempts == Init => Attempts
<1> SUFFICES ASSUME Init, NEW o \in Ops PROVE AttemptsOK(o)
  BY DEF Attempts
<1>1. Unsent(o) = {}
  BY DEF Init, Unsent, IdleWorker, At
<1>2. Cardinality(Unsent(o)) = 0
  BY <1>1, FS_EmptySet
<1> QED
  BY <1>2, RefundAssumption DEF Init, AttemptsOK, NoMessage

\* The provider never sees more requests for a refund than its message has
\* attempts, with workers that lose their lease between check and request and
\* send it all the same; and the submission is over once the outcome is known.
THEOREM SubmissionsDoEnd == Spec => []SubmissionsEnd
<1>1. Init => IInv /\ Attempts
  BY InitStep, InitAttempts
<1>2. (IInv /\ Attempts) /\ [Next]_vars => (IInv /\ Attempts)'
  <2>1. IInv' => TypeOK'
    BY DEF IInv
  <2> QED
    BY <2>1, NextStep, NextAttempts
<1>3. IInv /\ Attempts => SubmissionsEnd
  <2> SUFFICES ASSUME IInv, Attempts, NEW o \in Ops
               PROVE  sent[o] <= out[o].attempt /\ out[o].attempt <= OutboxAttempts
    BY DEF IInv, SubmissionsEnd, SubmissionsBounded
  <2>1. AttemptsOK(o)
    BY DEF Attempts
  <2>2. /\ sent[o] \in Nat /\ out[o].attempt \in Nat /\ out[o].max \in Nat
        /\ OutboxAttempts \in Nat /\ Cardinality(Unsent(o)) \in Nat
    BY UnsentFinite, RefundAssumption DEF IInv, TypeOK, Messages
  <2> QED
    BY <2>1, <2>2 DEF AttemptsOK
<1> QED
  BY <1>1, <1>2, <1>3, PTL DEF Spec

-----------------------------------------------------------------------------
(* The refinement *)

\* A step that moves the status of one operation, seen from the promise.
LEMMA ToldStep ==
  ASSUME NEW o \in Ops, \A p \in Ops : p # o => op'[p].status = op[p].status
  PROVE  told' = [told EXCEPT ![o] = told'[o]]
BY DEF told

\* A step that moves one refund at the provider, seen from the promise.
LEMMA DecidedStep ==
  ASSUME NEW o \in Ops, \A p \in Ops : p # o => prov'[p] = prov[p]
  PROVE  decided' = [decided EXCEPT ![o] = decided'[o]]
BY DEF decided

\* Nothing changes for the promise while operations and provider stand still.
LEMMA Stutters ==
  ASSUME UNCHANGED <<op, prov>>
  PROVE  UNCHANGED <<decided, told>>
BY DEF decided, told

\* Applying a receipt reports, resumes, or says nothing new.
LEMMA ApplyRefines ==
  ASSUME IInv, NEW o \in Ops, NEW r \in Receipts, Known(o, r),
         op[o].status # "none", Apply(o, r), UNCHANGED prov
  PROVE  [Promise!Next]_<<decided, told>>
<1>1. CASE ~Newer(o, r)
  BY <1>1, Stutters DEF Apply
<1>2. CASE Newer(o, r)
  <2>1. op' = [op EXCEPT ![o] = OperationAfter(r)]
    BY <1>2 DEF Apply
  <2>2. (\A p \in Ops : p # o => op'[p] = op[p]) /\ op'[o] = OperationAfter(r)
    BY <2>1 DEF IInv, TypeOK
  <2>3. told' = [told EXCEPT ![o] = told'[o]] /\ UNCHANGED decided
    BY <2>2, ToldStep DEF decided
  <2>4. r.status \in {"processing"} \union Outcomes
    BY DEF Receipts
  <2>5. op[o].status \notin Outcomes /\ op[o].status \in OpStatuses
    <3>1. /\ op[o].version \in Nat /\ prov[o].version \in Nat /\ r.version \in Nat
          /\ op[o].status \in OpStatuses
      BY RowTypes DEF IInv, Receipts
    <3> QED
      BY <1>2, <3>1 DEF Newer, Known, IInv, OpOK
  <2>6. told[o] \in {"working", "attention"}
    BY <2>5 DEF told, ToldOf, OpStatuses, Settled, Outcomes
  <2>7. CASE r.status \in Outcomes
    <3>1. told'[o] = r.status /\ decided[o] = r.status
      BY <2>2, <2>7 DEF told, ToldOf, decided, OperationAfter, Known, Outcomes
    <3>2. Promise!Report(o)
      BY <2>3, <2>6, <2>7, <3>1 DEF Promise!Report, Promise!Outcomes, Outcomes
    <3> QED
      BY <3>2 DEF Promise!Next
  <2>8. CASE r.status = "processing"
    <3>1. told'[o] = "working"
      BY <2>2, <2>8 DEF told, ToldOf, OperationAfter, Outcomes
    <3>2. CASE told[o] = "working"
      BY <2>3, <3>1, <3>2 DEF told
    <3>3. CASE told[o] = "attention"
      <4>1. Promise!Resume(o)
        BY <2>3, <3>1, <3>3 DEF Promise!Resume
      <4> QED
        BY <4>1 DEF Promise!Next
    <3> QED
      BY <2>6, <3>2, <3>3
  <2> QED
    BY <2>4, <2>7, <2>8
<1> QED
  BY <1>1, <1>2

\* A status without an outcome escalates, or says nothing new.
LEMMA StatusRefines ==
  ASSUME IInv, NEW o \in Ops,
         NEW s \in {"running", "unknown", "needs_reconciliation"},
         op[o].status \notin Settled \union {"none"}, SetStatus(o, s),
         UNCHANGED prov
  PROVE  [Promise!Next]_<<decided, told>>
<1>1. (\A p \in Ops : p # o => op'[p] = op[p]) /\ op'[o].status = s
  BY DEF IInv, TypeOK, SetStatus
<1>2. told' = [told EXCEPT ![o] = told'[o]] /\ UNCHANGED decided
  BY <1>1, ToldStep DEF decided
<1>3. told[o] = "working"
  BY DEF told, ToldOf, Settled, Outcomes
<1>4. CASE s = "needs_reconciliation"
  <2>1. told'[o] = "attention"
    BY <1>1, <1>4 DEF told, ToldOf, Outcomes
  <2>2. Promise!Escalate(o)
    BY <1>2, <1>3, <2>1 DEF Promise!Escalate
  <2> QED
    BY <2>2 DEF Promise!Next
<1>5. CASE s # "needs_reconciliation"
  <2>1. ToldOf(op'[o].status) = ToldOf(op[o].status)
    BY <1>1, <1>5 DEF ToldOf, Settled, Outcomes
  <2>2. UNCHANGED told
    BY <1>1, <2>1 DEF told
  <2> QED
    BY <1>2, <2>2
<1> QED
  BY <1>4, <1>5

\* A new receipt of the provider decides, or says nothing new.
LEMMA ProviderRefines ==
  ASSUME IInv, NEW o \in Ops, NEW r \in Receipts,
         op[o].status # "none",
         prov[o].status \notin Outcomes,
         prov' = [prov EXCEPT ![o] = r], UNCHANGED op
  PROVE  [Promise!Next]_<<decided, told>>
<1>1. (\A p \in Ops : p # o => prov'[p] = prov[p]) /\ prov'[o] = r
  BY DEF IInv, TypeOK
<1>2. decided' = [decided EXCEPT ![o] = decided'[o]] /\ UNCHANGED told
  BY <1>1, DecidedStep DEF told
<1>3. decided[o] = "open" /\ told[o] # "nothing"
  <2>1. op[o].status \in OpStatuses
    BY RowTypes DEF IInv
  <2> QED
    BY <2>1 DEF decided, told, ToldOf, Outcomes
<1>4. CASE r.status \in Outcomes
  <2>1. decided'[o] = r.status
    BY <1>1, <1>4 DEF decided
  <2>2. Promise!Decide(o)
    BY <1>2, <1>3, <1>4, <2>1 DEF Promise!Decide, Promise!Outcomes, Outcomes
  <2> QED
    BY <2>2 DEF Promise!Next
<1>5. CASE r.status \notin Outcomes
  <2>1. decided'[o] = "open"
    BY <1>1, <1>5 DEF decided
  <2> QED
    BY <1>2, <1>3, <2>1 DEF decided
<1> QED
  BY <1>4, <1>5

\* Every step of the pipeline is a step of the promise or a stutter.
LEMMA NextRefines == IInv /\ [Next]_vars => [Promise!Next]_<<decided, told>>
<1> SUFFICES ASSUME IInv, [Next]_vars PROVE [Promise!Next]_<<decided, told>>
  OBVIOUS
<1>1. ASSUME NEW o \in Ops,
             \/ CreateCase(o) \/ ReviewCase(o)
             \/ RequeueChecks(o) \/ Requeue(o) \/ LeaseExpires(o)
      PROVE  [Promise!Next]_<<decided, told>>
  BY <1>1, Stutters
  DEF CreateCase, ReviewCase, RequeueChecks, Requeue, LeaseExpires
<1>2. ASSUME NEW o \in Ops, Enqueue(o) PROVE [Promise!Next]_<<decided, told>>
  <2>1. /\ \A p \in Ops : p # o => op'[p] = op[p]
        /\ op[o].status = "none" /\ op'[o].status = "pending"
        /\ UNCHANGED prov
    BY <1>2 DEF IInv, TypeOK, Enqueue, SetStatus
  <2>2. told[o] = "nothing" /\ told'[o] = "working"
    BY <2>1 DEF told, ToldOf, Outcomes
  <2>3. Promise!Ask(o)
    BY <2>1, <2>2, ToldStep DEF Promise!Ask, decided
  <2> QED
    BY <2>3 DEF Promise!Next
<1>3. ASSUME NEW o \in Ops, Settle(o) PROVE [Promise!Next]_<<decided, told>>
  <2> DEFINE r == [status |-> "succeeded", version |-> prov[o].version + 1]
  <2>1. r \in Receipts
    BY RowTypes DEF IInv, Receipts, Outcomes
  <2>2. prov' = [prov EXCEPT ![o] = r] /\ prov[o].status = "processing" /\ UNCHANGED op
    BY <1>3 DEF Settle, local
  <2>3. op[o].status # "none"
    BY <2>2 DEF IInv, OpOK, NoReceipt
  <2> HIDE DEF r
  <2> QED
    BY <2>1, <2>2, <2>3, ProviderRefines DEF Outcomes
<1>4. ASSUME NEW e \in events, Callback(e[1], e[2])
      PROVE  [Promise!Next]_<<decided, told>>
  <2>1. e[1] \in Ops /\ e[2] \in Receipts /\ Known(e[1], e[2])
    BY DEF IInv, TypeOK
  <2>2. e[2].version \in Nat \ {0} /\ NoReceipt.version = 0
    BY <2>1 DEF Receipts, NoReceipt
  <2>3. prov[e[1]] # NoReceipt
    BY <2>1, <2>2 DEF Known
  <2>4. op[e[1]].status # "none"
    BY <2>1, <2>3 DEF IInv, OpOK
  <2> QED
    BY <1>4, <2>1, <2>4, ApplyRefines DEF Callback
<1>5. ASSUME NEW w \in Workers, SubmitAccepted(w)
      PROVE  [Promise!Next]_<<decided, told>>
  <2>1. /\ O(w) \in Ops /\ op[O(w)].status # "none"
        /\ prov[O(w)].status \notin Outcomes
        /\ UNCHANGED op
    BY <1>5, BusyWorker DEF SubmitAccepted, NoReceipt, Outcomes, local
  <2>2. PICK s \in {"processing"} \union Outcomes :
          prov' = [prov EXCEPT ![O(w)] = [status |-> s, version |-> 1]]
    BY <1>5 DEF SubmitAccepted
  <2>3. [status |-> s, version |-> 1] \in Receipts
    BY DEF Receipts
  <2> QED
    BY <2>1, <2>2, <2>3, ProviderRefines
<1>6. ASSUME NEW w \in Workers, MarkAttempt(w) \/ MarkError(w) \/ MarkManual(w)
      PROVE  [Promise!Next]_<<decided, told>>
  <2>1. O(w) \in Ops /\ op[O(w)].status # "none"
    BY <1>6, BusyWorker DEF MarkAttempt, MarkError, MarkManual
  <2>2. /\ UNCHANGED prov
        /\ \/ UNCHANGED op
           \/ /\ op[O(w)].status \notin Settled
              /\ \E s \in {"running", "unknown", "needs_reconciliation"} :
                   SetStatus(O(w), s)
    BY <1>6 DEF MarkAttempt, MarkError, MarkManual, MarkUnknown
  <2> QED
    BY <2>1, <2>2, Stutters, StatusRefines
<1>7. ASSUME NEW w \in Workers, ApplyAnswer(w) \/ ApplyQuery(w)
      PROVE  [Promise!Next]_<<decided, told>>
  <2>1. /\ O(w) \in Ops /\ op[O(w)].status # "none"
        /\ Known(O(w), wk[w].receipt) /\ wk[w].receipt \in Receipts
    BY <1>7, BusyWorker DEF ApplyAnswer, ApplyQuery
  <2>2. /\ UNCHANGED prov
        /\ Apply(O(w), wk[w].receipt) \/ UNCHANGED op
    BY <1>7 DEF ApplyAnswer, ApplyQuery
  <2> QED
    BY <2>1, <2>2, Stutters, ApplyRefines
<1>8. ASSUME NEW w \in Workers,
             \/ CheckLease(w) \/ SubmitRepeated(w) \/ SubmitFails(w)
             \/ FinishSent(w) \/ FinishRetry(w) \/ Query(w) \/ CheckJob(w)
             \/ RetryJob(w) \/ Crash(w) \/ \E o \in Ops : Poll(w, o)
      PROVE  [Promise!Next]_<<decided, told>>
  <2>1. UNCHANGED <<op, prov>>
    BY <1>8
    DEF CheckLease, SubmitRepeated, SubmitFails, FinishSent, FinishRetry, Query,
        CheckJob, RetryJob, Crash, Poll, DispatchClaim, ReconcileClaim, Sweep, local
  <2> QED
    BY <2>1, Stutters
<1>9. CASE UNCHANGED vars
  BY <1>9, Stutters DEF vars
<1> QED
  BY <1>1, <1>2, <1>3, <1>4, <1>5, <1>6, <1>7, <1>8, <1>9 DEF Next, WorkerStep

\* The initial state of the pipeline is one of the promise.
LEMMA InitRefines == Init => Promise!Init
BY DEF Init, Promise!Init, told, ToldOf, decided, Outcomes, NoReceipt

\* The pipeline, with all its retries, crashes and callbacks, keeps the promise:
\* what it says of a refund is what the provider decided, for ever.
THEOREM PromiseKept == Spec => KeepsPromise
BY InitRefines, NextRefines, InvariantHolds, PTL
DEF Spec, KeepsPromise, Promise!Spec

=============================================================================
