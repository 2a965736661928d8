-------------------------- MODULE OperationsProofs --------------------------
(***************************************************************************)
(* The invariants of DirectRefund and of Compensation are inductive, for   *)
(* every set of cases, orders, requests and invocations.                   *)
(*                                                                         *)
(* DirectRefund: every write of a row adds one to its version, so a copy   *)
(* with the row's version is the row (CopiesOK), and what a request knew   *)
(* when it read is still true when its write is accepted.  Calls of the    *)
(* shop are counted against the attempts: a claim costs one attempt and    *)
(* calls at most once.                                                     *)
(*                                                                         *)
(* Compensation: a write is accepted only on a row with the status that    *)
(* the invocation read, and it read no settled one.                        *)
(***************************************************************************)
EXTENDS Operations, FiniteSetTheorems, TLAPS

-----------------------------------------------------------------------------
(* DirectRefund: types and moves *)

\* How one row of the cases and one of the operations may change.
CaseMove(c) ==
  \/ case'[c] = case[c]
  \/ case[c].status = "none"
  \/ /\ case'[c].version = case[c].version + 1
     /\ case'[c].status # "none"
     /\ case[c].status \notin Unapproved => case'[c].status \notin Unapproved

SameOp(o, p) ==
  /\ o.status = p.status /\ o.attempt = p.attempt /\ o.comp = p.comp
  /\ o.version = p.version

OpMove(c) ==
  \/ SameOp(op[c], op'[c])
  \/ op'[c].version = op[c].version + 1
  \/ \A w \in Workers : wk[w].id # c

RowsMove == /\ \A c \in Cases : CaseMove(c) /\ OpMove(c)
            /\ refunded \subseteq refunded'

\* The requests that move are in order afterwards.
WorkersMove == \A w \in Workers : wk'[w] = wk[w] \/ WorkerOK(w)'

\* The fields of the rows and of a request.
LEMMA RowTypes ==
  ASSUME TypeOK, NEW c \in Cases
  PROVE  /\ case[c] \in CaseRows /\ case[c].version \in Nat
         /\ op[c] \in OpRows /\ op[c].version \in Nat
         /\ op[c].attempt \in 0 .. MaxAttempts
         /\ calls[c] \in 0 .. MaxAttempts
BY DEF TypeOK, CaseRows, OpRows

LEMMA WorkerTypes ==
  ASSUME TypeOK, NEW w \in Workers
  PROVE  /\ wk[w] \in WorkerStates /\ wk[w].pc \in Pcs
         /\ wk[w].seen \in CaseRows /\ wk[w].seen.version \in Nat
         /\ wk[w].op \in OpRows /\ wk[w].op.version \in Nat
         /\ wk[w].op.attempt \in 0 .. MaxAttempts
BY DEF TypeOK, WorkerStates, CaseRows, OpRows

\* What the step of a request does to the requests.
LEMMA MoveTypes ==
  ASSUME TypeOK, NEW w \in Workers
  PROVE  /\ Leave(w) => /\ wk' \in [Workers -> WorkerStates]
                        /\ wk'[w].pc = "idle" /\ wk'[w].id = NoCase
                        /\ \A v \in Workers : v # w => wk'[v] = wk[v]
         /\ \A p \in Pcs : Goto(w, p) =>
              /\ wk' \in [Workers -> WorkerStates]
              /\ wk'[w].pc = p /\ wk'[w].id = wk[w].id
              /\ wk'[w].seen = wk[w].seen /\ wk'[w].op = wk[w].op
              /\ \A v \in Workers : v # w => wk'[v] = wk[v]
<1>1. wk \in [Workers -> WorkerStates]
  BY DEF TypeOK
<1>2. IdleWorker \in WorkerStates /\ IdleWorker.pc = "idle" /\ IdleWorker.id = NoCase
  BY DirectAssumption
  DEF IdleWorker, WorkerStates, Pcs, CaseRows, OpRows, NoOperation, CaseStatuses,
      OpStatuses, CompensationStatuses
<1>3. ASSUME Leave(w)
      PROVE  /\ wk' \in [Workers -> WorkerStates]
             /\ wk'[w].pc = "idle" /\ wk'[w].id = NoCase
             /\ \A v \in Workers : v # w => wk'[v] = wk[v]
  BY <1>1, <1>2, <1>3 DEF Leave
<1>4. ASSUME NEW p \in Pcs, Goto(w, p)
      PROVE  /\ wk' \in [Workers -> WorkerStates]
             /\ wk'[w].pc = p /\ wk'[w].id = wk[w].id
             /\ wk'[w].seen = wk[w].seen /\ wk'[w].op = wk[w].op
             /\ \A v \in Workers : v # w => wk'[v] = wk[v]
  BY <1>1, <1>4 DEF Goto, WorkerStates
<1> QED
  BY <1>3, <1>4

\* A request that stands still keeps what it knows while the rows move.
LEMMA Bystander ==
  ASSUME IInv, TypeOK', RowsMove, NEW w \in Workers, wk'[w] = wk[w]
  PROVE  WorkerOK(w)'
<1> SUFFICES ASSUME wk[w].pc # "idle"
             PROVE  wk[w].id \in Cases /\ CopiesOK(w)' /\ KnowsOK(w)'
  BY DEF WorkerOK
<1> DEFINE c == wk[w].id
<1>1. c \in Cases /\ CopiesOK(w) /\ KnowsOK(w)
  BY DEF IInv, WorkerOK
<1>2. CaseMove(c) /\ OpMove(c) /\ refunded \subseteq refunded'
  BY <1>1 DEF RowsMove
<1>3. /\ case[c].version \in Nat /\ op[c].version \in Nat
      /\ wk[w].seen.version \in Nat /\ wk[w].op.version \in Nat
      /\ case'[c].version \in Nat /\ op'[c].version \in Nat
  BY <1>1, RowTypes, WorkerTypes DEF IInv, TypeOK, CaseRows, OpRows
<1>4. case[c].status # "none"
  BY <1>1 DEF KnowsOK
<1>5. CopiesOK(w)'
  BY <1>1, <1>2, <1>3, <1>4 DEF CopiesOK, CaseMove, OpMove, SameOp
<1>6. KnowsOK(w)'
  BY <1>1, <1>2, <1>4 DEF KnowsOK, CaseMove, Unapproved
<1> QED
  BY <1>1, <1>5, <1>6

\* The invariant from its parts.
LEMMA Assemble ==
  ASSUME IInv, TypeOK', RowsMove, WorkersMove, CompletedWasRefunded',
         \A c \in Cases : OpOK(c)' /\ CallsOK(c)'
  PROVE  IInv'
BY Bystander DEF IInv, WorkersMove

-----------------------------------------------------------------------------
(* DirectRefund: the calls of the shop *)

CallPcs == {"start", "submit"}

\* The requests with a call to make can be counted.
LEMMA ToCallFinite ==
  ASSUME NEW c \in Cases
  PROVE  /\ IsFiniteSet(ToCall(c)) /\ Cardinality(ToCall(c)) \in Nat
         /\ IsFiniteSet(ToCall(c)') /\ Cardinality(ToCall(c)') \in Nat
<1>1. ToCall(c) \in SUBSET Workers /\ ToCall(c)' \in SUBSET Workers
  BY DEF ToCall
<1>2. IsFiniteSet(ToCall(c)) /\ IsFiniteSet(ToCall(c)')
  BY <1>1, DirectAssumption, FS_Subset
<1> QED
  BY <1>2, FS_CardinalityType

\* Nobody calls the shop and nobody gets a call to make.
LEMMA CallsKept ==
  ASSUME IInv, TypeOK', UNCHANGED calls, NEW c \in Cases,
         op'[c].attempt = op[c].attempt, ToCall(c)' \subseteq ToCall(c)
  PROVE  CallsOK(c)'
<1>1. Cardinality(ToCall(c)') <= Cardinality(ToCall(c))
  BY ToCallFinite, FS_Subset
<1>2. CallsOK(c) /\ calls[c] \in Nat /\ op[c].attempt \in Nat
  BY RowTypes DEF IInv
<1> QED
  BY <1>1, <1>2, ToCallFinite DEF CallsOK

\* A request that leaves, or goes on without a call to make.
LEMMA NoCallToMake ==
  ASSUME TypeOK, NEW w \in Workers, NEW c \in Cases,
         \A v \in Workers : v # w => wk'[v] = wk[v],
         \/ wk'[w].pc \notin CallPcs
         \/ wk[w].pc \in CallPcs /\ wk'[w].id = wk[w].id
  PROVE  ToCall(c)' \subseteq ToCall(c)
BY DEF ToCall, CallPcs

-----------------------------------------------------------------------------
(* DirectRefund: one lemma per group of actions *)

\* What a busy request works on.
LEMMA Busy ==
  ASSUME IInv, NEW w \in Workers, wk[w].pc # "idle"
  PROVE  /\ wk[w].id \in Cases /\ CopiesOK(w) /\ KnowsOK(w)
         /\ OpOK(wk[w].id) /\ CallsOK(wk[w].id)
BY DEF IInv, WorkerOK

\* A step that leaves the rows alone, by a request that has no new call to make.
LEMMA QuietStep ==
  ASSUME IInv, UNCHANGED <<case, op, calls>>, refunded \subseteq refunded',
         refunded' \subseteq Orders, late' \subseteq Orders,
         wk' \in [Workers -> WorkerStates], WorkersMove,
         \A c \in Cases : ToCall(c)' \subseteq ToCall(c)
  PROVE  IInv'
<1>1. TypeOK'
  BY DEF IInv, TypeOK
<1>2. RowsMove
  BY DEF RowsMove, CaseMove, OpMove, SameOp
<1>3. CompletedWasRefunded'
  BY DEF IInv, CompletedWasRefunded
<1>4. ASSUME NEW c \in Cases PROVE OpOK(c)' /\ CallsOK(c)'
  <2>1. OpOK(c)'
    BY DEF IInv, OpOK
  <2> QED
    BY <1>1, <2>1, CallsKept
<1> QED
  BY <1>1, <1>2, <1>3, <1>4, Assemble

\* The last step of a request: the case takes status s if nobody wrote it since.
LEMMA CloseStep ==
  ASSUME IInv, NEW w \in Workers, wk[w].pc # "idle",
         NEW s \in CaseStatuses \ {"none"}, CloseCase(w, s),
         CaseCurrent(w) =>
           /\ s = "completed" => OrderOf[wk[w].id] \in refunded
           /\ case[wk[w].id].status \notin Unapproved => s \notin Unapproved
  PROVE  IInv'
<1> DEFINE c == wk[w].id
<1>1. c \in Cases /\ CopiesOK(w) /\ KnowsOK(w) /\ OpOK(c) /\ TypeOK
  BY Busy DEF IInv
<1>2. UNCHANGED <<op, refunded, late, calls>> /\ Leave(w)
  BY DEF CloseCase
<1>3. /\ wk' \in [Workers -> WorkerStates] /\ wk'[w].pc = "idle"
      /\ \A v \in Workers : v # w => wk'[v] = wk[v]
  BY <1>1, <1>2, MoveTypes
<1>4. WorkersMove
  BY <1>3 DEF WorkersMove, WorkerOK
<1>5. \A d \in Cases : ToCall(d)' \subseteq ToCall(d)
  BY <1>1, <1>3, NoCallToMake DEF CallPcs
<1>6. CASE ~CaseCurrent(w)
  <2>1. UNCHANGED case
    BY <1>6 DEF CloseCase
  <2> QED
    BY <1>1, <1>2, <1>3, <1>4, <1>5, <2>1, QuietStep DEF TypeOK
<1>7. CASE CaseCurrent(w)
  <2>1. /\ case[c].version = wk[w].seen.version
        /\ case' = [case EXCEPT ![c] = [status |-> s, version |-> case[c].version + 1]]
    BY <1>7 DEF CloseCase, CaseCurrent, SavedCase
  <2>2. case[c].version + 1 \in Nat /\ s \in CaseStatuses
    BY <1>1, RowTypes
  <2>3. /\ case' \in [Cases -> CaseRows]
        /\ case'[c].status = s /\ case'[c].version = case[c].version + 1
        /\ \A d \in Cases : d # c => case'[d] = case[d]
    BY <1>1, <2>1, <2>2 DEF TypeOK, CaseRows
  <2>4. TypeOK'
    BY <1>1, <1>2, <1>3, <2>3 DEF TypeOK
  <2>5. RowsMove
    BY <1>1, <1>2, <1>7, <2>3 DEF RowsMove, CaseMove, OpMove, SameOp
  <2>6. CompletedWasRefunded'
    BY <1>2, <1>7, <2>3 DEF IInv, CompletedWasRefunded
  <2>7. ASSUME NEW d \in Cases PROVE OpOK(d)' /\ CallsOK(d)'
    <3>1. OpOK(d)'
      BY <1>1, <1>2, <1>7, <2>3 DEF IInv, OpOK
    <3>2. CallsOK(d)'
      BY <1>2, <1>5, <2>4, CallsKept
    <3> QED
      BY <3>1, <3>2
  <2> QED
    BY <1>4, <2>4, <2>5, <2>6, <2>7, Assemble
<1> QED
  BY <1>6, <1>7

\* The requests that end by writing their case.
LEMMA ClosingSteps ==
  ASSUME IInv, NEW w \in Workers,
         \/ Review(w) \/ Replay(w) \/ GiveUp(w) \/ Complete(w) \/ Failed(w)
         \/ Compensated(w)
  PROVE  IInv'
<1> DEFINE c == wk[w].id
<1>1. wk[w].pc # "idle"
  BY DEF Review, Replay, GiveUp, Complete, Failed, Compensated
<1>2. c \in Cases /\ CopiesOK(w) /\ KnowsOK(w) /\ TypeOK
  BY <1>1, Busy DEF IInv
<1>3. CaseCurrent(w) => case[c] = wk[w].seen
  BY <1>2 DEF CopiesOK, CaseCurrent
<1>4. wk[w].seen.status \in CaseStatuses
  BY <1>2, WorkerTypes DEF CaseRows
<1>5. CASE Review(w)
  <2>1. PICK s \in {"approved", "rejected"} : CloseCase(w, s)
    BY <1>5 DEF Review
  <2>2. wk[w].seen.status = "pending_review"
    BY <1>2, <1>5 DEF KnowsOK, Review
  <2> QED
    BY <1>1, <1>3, <2>1, <2>2, CloseStep
    DEF CaseStatuses, TERMINAL_CASE_STATUSES, Unapproved
<1>6. CASE Replay(w) \/ Complete(w)
  <2>1. CloseCase(w, "completed") /\ OrderOf[c] \in refunded
    BY <1>2, <1>6 DEF KnowsOK, Replay, Complete
  <2> QED
    BY <1>1, <2>1, CloseStep DEF CaseStatuses, TERMINAL_CASE_STATUSES, Unapproved
<1>7. CASE GiveUp(w) \/ Failed(w)
  <2>1. PICK s \in {"execution_failed", "approved"} : CloseCase(w, s)
    BY <1>7 DEF GiveUp, Failed
  <2> QED
    BY <1>1, <2>1, CloseStep DEF CaseStatuses, TERMINAL_CASE_STATUSES, Unapproved
<1>8. CASE Compensated(w)
  <2>1. CloseCase(w, wk[w].seen.status) /\ wk[w].seen.status # "none"
    BY <1>2, <1>8 DEF KnowsOK, Compensated
  <2>2. wk[w].seen.status = "completed" => OrderOf[c] \in refunded
    BY <1>2 DEF KnowsOK
  <2> QED
    BY <1>1, <1>3, <1>4, <2>1, <2>2, CloseStep
<1> QED
  BY <1>5, <1>6, <1>7, <1>8

\* A request begins with the rows of its case.
LEMMA ReadStep ==
  ASSUME IInv, NEW w \in Workers, NEW c \in Cases,
         NEW p \in {"review", "claim", "compensate"}, Read(w, c, p),
         p = "review" => case[c].status = "pending_review",
         p = "compensate" => op[c].status = "succeeded"
  PROVE  IInv'
<1> DEFINE r == [pc |-> p, id |-> c, seen |-> case[c], op |-> op[c]]
<1>1. TypeOK /\ case[c] \in CaseRows /\ op[c] \in OpRows /\ OpOK(c)
  BY RowTypes DEF IInv
<1>2. /\ case[c].status # "none" /\ UNCHANGED <<case, op, refunded, late, calls>>
      /\ wk' = [wk EXCEPT ![w] = r]
  BY DEF Read
<1>3. r \in WorkerStates
  BY <1>1 DEF WorkerStates, Pcs
<1>4. /\ wk' \in [Workers -> WorkerStates]
      /\ \A v \in Workers : v # w => wk'[v] = wk[v]
      /\ wk'[w] = r
  BY <1>1, <1>2, <1>3 DEF TypeOK
<1>5. CopiesOK(w)'
  <2>1. case[c].version \in Nat /\ op[c].version \in Nat
    BY <1>1, RowTypes
  <2> QED
    BY <1>2, <1>4, <2>1 DEF CopiesOK
<1>6. KnowsOK(w)'
  BY <1>1, <1>2, <1>4 DEF IInv, CompletedWasRefunded, KnowsOK, OpOK
<1>7. WorkersMove
  BY <1>4, <1>5, <1>6 DEF WorkersMove, WorkerOK
<1>8. \A d \in Cases : ToCall(d)' \subseteq ToCall(d)
  BY <1>1, <1>4, NoCallToMake DEF CallPcs
<1> QED
  BY <1>1, <1>2, <1>4, <1>7, <1>8, QuietStep DEF TypeOK

\* A request writes its operation and goes on, or loses the race and leaves or
\* goes on with the success of another.
LEMMA OpStep ==
  ASSUME IInv, NEW w \in Workers, wk[w].pc # "idle", NEW o \in OpRows,
         op' = [op EXCEPT ![wk[w].id] = o],
         o.version = op[wk[w].id].version + 1,
         o.attempt = op[wk[w].id].attempt,
         o.status # "none", op[wk[w].id].status # "none",
         o.status = "succeeded" => OrderOf[wk[w].id] \in refunded,
         UNCHANGED <<case, refunded, late, calls>>,
         wk' \in [Workers -> WorkerStates], WorkersMove,
         \A c \in Cases : ToCall(c)' \subseteq ToCall(c)
  PROVE  IInv'
<1> DEFINE c == wk[w].id
<1>1. c \in Cases /\ OpOK(c) /\ TypeOK
  BY Busy DEF IInv
<1>2. /\ op' \in [Cases -> OpRows] /\ op'[c] = o
      /\ \A d \in Cases : d # c => op'[d] = op[d]
  BY <1>1 DEF TypeOK
<1>3. TypeOK'
  BY <1>1, <1>2 DEF TypeOK
<1>4. RowsMove
  BY <1>2 DEF RowsMove, CaseMove, OpMove, SameOp
<1>5. CompletedWasRefunded'
  BY DEF IInv, CompletedWasRefunded
<1>6. ASSUME NEW d \in Cases PROVE OpOK(d)' /\ CallsOK(d)'
  <2>1. OpOK(d)'
    BY <1>1, <1>2 DEF IInv, OpOK
  <2>2. op'[d].attempt = op[d].attempt
    BY <1>2
  <2> QED
    BY <1>3, <2>1, <2>2, CallsKept
<1> QED
  BY <1>3, <1>4, <1>5, <1>6, Assemble

\* A busy request goes on at p with the rows it has, whoever writes them: what it
\* has to know there is known, and its copies are as old as before or older.
LEMMA GoesOn ==
  ASSUME IInv, TypeOK', RowsMove, NEW w \in Workers, wk[w].pc # "idle",
         NEW p \in Pcs \ {"idle", "review", "start", "submit"}, Goto(w, p),
         p \in {"giveup", "succeed", "complete", "fail", "failed"}
           => wk[w].seen.status \in Executable,
         p \in {"succeed", "fail"} => wk[w].op.status = "running",
         p \in {"compensate", "compensated"} => wk[w].op.status = "succeeded",
         p \in {"succeed", "complete", "replay", "compensate", "compensated"}
           => OrderOf[wk[w].id] \in refunded'
  PROVE  /\ WorkersMove
         /\ \A c \in Cases : ToCall(c)' \subseteq ToCall(c)
<1> DEFINE c == wk[w].id
<1>1. c \in Cases /\ CopiesOK(w) /\ KnowsOK(w) /\ TypeOK
  BY Busy DEF IInv
<1>2. /\ wk'[w].pc = p /\ wk'[w].id = c
      /\ wk'[w].seen = wk[w].seen /\ wk'[w].op = wk[w].op
      /\ \A v \in Workers : v # w => wk'[v] = wk[v]
  BY <1>1, MoveTypes
<1>3. /\ CaseMove(c) /\ OpMove(c) /\ refunded \subseteq refunded'
      /\ case[c].status # "none"
  BY <1>1 DEF RowsMove, KnowsOK
<1>4. /\ case[c].version \in Nat /\ op[c].version \in Nat
      /\ wk[w].seen.version \in Nat /\ wk[w].op.version \in Nat
      /\ case'[c].version \in Nat /\ op'[c].version \in Nat
  BY <1>1, RowTypes, WorkerTypes DEF TypeOK, CaseRows, OpRows
<1>5. CopiesOK(w)'
  BY <1>1, <1>2, <1>3, <1>4 DEF CopiesOK, CaseMove, OpMove, SameOp
<1>6. KnowsOK(w)'
  BY <1>1, <1>2, <1>3 DEF KnowsOK, CaseMove, Unapproved
<1>7. WorkerOK(w)'
  BY <1>1, <1>2, <1>5, <1>6 DEF WorkerOK
<1>8. WorkersMove
  BY <1>2, <1>7 DEF WorkersMove
<1> QED
  BY <1>1, <1>2, <1>8, NoCallToMake DEF CallPcs

\* A request that leaves has nothing to know and no call to make.
LEMMA Leaves ==
  ASSUME TypeOK, NEW w \in Workers, Leave(w)
  PROVE  /\ WorkersMove /\ wk' \in [Workers -> WorkerStates]
         /\ \A c \in Cases : ToCall(c)' \subseteq ToCall(c)
<1>1. /\ wk' \in [Workers -> WorkerStates] /\ wk'[w].pc = "idle"
      /\ \A v \in Workers : v # w => wk'[v] = wk[v]
  BY MoveTypes
<1> QED
  BY <1>1, NoCallToMake DEF WorkersMove, WorkerOK, CallPcs

\* The outcome of a call, or an admin's word on a compensation, goes to the
\* operation.
LEMMA SaveStep ==
  ASSUME IInv, NEW w \in Workers, Succeed(w) \/ Fail(w) \/ Compensate(w)
  PROVE  IInv'
<1> DEFINE c == wk[w].id
<1>1. /\ wk[w].pc \in {"succeed", "fail", "compensate"}
      /\ UNCHANGED <<case, refunded, late, calls>>
  BY DEF Succeed, Fail, Compensate
<1>2. /\ c \in Cases /\ CopiesOK(w) /\ KnowsOK(w) /\ OpOK(c) /\ TypeOK
      /\ wk[w].pc # "idle"
  BY <1>1, Busy DEF IInv
<1>3. CASE UNCHANGED op
  <2>2. CASE Leave(w)
    BY <1>1, <1>2, <1>3, <2>2, Leaves, QuietStep DEF TypeOK
  <2>3. CASE ~Leave(w) /\ ~OpCurrent(w)
    <3>1. wk[w].pc = "succeed" /\ Goto(w, "complete")
      BY <2>3 DEF Succeed, Fail, Compensate
    <3>2. wk' \in [Workers -> WorkerStates]
      BY <1>2, <3>1, MoveTypes DEF Pcs
    <3>3. /\ RowsMove /\ TypeOK'
      BY <1>1, <1>2, <1>3, <3>2 DEF RowsMove, CaseMove, OpMove, SameOp, TypeOK
    <3>4. wk[w].seen.status \in Executable /\ OrderOf[c] \in refunded'
      BY <1>1, <1>2, <3>1 DEF KnowsOK
    <3>5. WorkersMove /\ \A d \in Cases : ToCall(d)' \subseteq ToCall(d)
      BY <1>2, <3>1, <3>3, <3>4, GoesOn DEF Pcs
    <3> QED
      BY <1>1, <1>2, <1>3, <3>2, <3>5, QuietStep DEF TypeOK
  <2>4. CASE ~Leave(w) /\ OpCurrent(w)
    <3>1. \E o : op' = SavedOp(w, o)
      BY <2>4 DEF Succeed, Fail, Compensate
    <3>2. op'[c].version = op[c].version + 1
      BY <1>2, <2>4, <3>1 DEF SavedOp, OpCurrent, TypeOK, OpRows
    <3> QED
      BY <1>2, <1>3, <3>2, RowTypes
  <2> QED
    BY <2>2, <2>3, <2>4
<1>4. CASE op' # op
  <2>1. /\ OpCurrent(w) /\ wk[w].op.version = op[c].version
        /\ wk[w].op.attempt = op[c].attempt /\ wk[w].op.status = op[c].status
    <3>1. OpCurrent(w)
      BY <1>4 DEF Succeed, Fail, Compensate
    <3> QED
      BY <1>2, <3>1 DEF OpCurrent, CopiesOK
  <2>2. wk[w].op \in OpRows /\ wk[w].op.version + 1 \in Nat
    BY <1>2, WorkerTypes
  <2>3. PICK o \in OpRows, p \in {"complete", "failed", "compensated"} :
           /\ op' = [op EXCEPT ![c] = o] /\ Goto(w, p)
           /\ o.version = op[c].version + 1 /\ o.attempt = op[c].attempt
           /\ o.status \in {"succeeded", "failed", "exhausted"}
           /\ o.status = "succeeded" => wk[w].pc \in {"succeed", "compensate"}
           /\ p = "complete" => wk[w].pc = "succeed"
           /\ p = "failed" => wk[w].pc = "fail"
           /\ p = "compensated" => wk[w].pc = "compensate"
    <3>1. CASE Succeed(w)
      <4> DEFINE o == [[wk[w].op EXCEPT !.status = "succeeded", !.lease = FALSE]
                         EXCEPT !.version = wk[w].op.version + 1]
      <4>1. /\ o \in OpRows /\ o.version = op[c].version + 1
            /\ o.attempt = op[c].attempt /\ o.status = "succeeded"
        BY <2>1, <2>2 DEF OpRows, OpStatuses
      <4>2. op' = [op EXCEPT ![c] = o] /\ Goto(w, "complete") /\ wk[w].pc = "succeed"
        BY <2>1, <3>1 DEF Succeed, SavedOp
      <4> HIDE DEF o
      <4> QED
        BY <4>1, <4>2
    <3>2. CASE Fail(w)
      <4> DEFINE s == IF wk[w].op.attempt >= MaxAttempts THEN "exhausted" ELSE "failed"
                 o == [[wk[w].op EXCEPT !.status = s, !.lease = FALSE]
                         EXCEPT !.version = wk[w].op.version + 1]
      <4>0. s \in {"exhausted", "failed"}
        OBVIOUS
      <4>2. op' = [op EXCEPT ![c] = o] /\ Goto(w, "failed") /\ wk[w].pc = "fail"
        BY <2>1, <3>2 DEF Fail, SavedOp
      <4> HIDE DEF s
      <4>1. /\ o \in OpRows /\ o.version = op[c].version + 1
            /\ o.attempt = op[c].attempt /\ o.status = s
        BY <2>1, <2>2, <4>0 DEF OpRows, OpStatuses
      <4> HIDE DEF o
      <4> QED
        BY <4>0, <4>1, <4>2
    <3>3. CASE Compensate(w)
      <4>1. PICK t \in Allowed(wk[w].op.comp) :
                 /\ op' = SavedOp(w, [wk[w].op EXCEPT !.comp = t])
                 /\ Goto(w, "compensated") /\ wk[w].pc = "compensate"
        BY <2>1, <3>3 DEF Compensate
      <4> DEFINE o == [[wk[w].op EXCEPT !.comp = t]
                         EXCEPT !.version = wk[w].op.version + 1]
      <4>2. t \in CompensationStatuses /\ wk[w].op.status = "succeeded"
        BY <1>2, <4>1 DEF Allowed, CompensationStatuses, KnowsOK
      <4>3. /\ o \in OpRows /\ o.version = op[c].version + 1
            /\ o.attempt = op[c].attempt /\ o.status = "succeeded"
        BY <2>1, <2>2, <4>2 DEF OpRows
      <4>4. op' = [op EXCEPT ![c] = o]
        BY <4>1 DEF SavedOp
      <4> HIDE DEF o
      <4> QED
        BY <4>1, <4>3, <4>4
    <3> QED
      BY <3>1, <3>2, <3>3
  <2>4. wk' \in [Workers -> WorkerStates]
    BY <1>2, <2>3, MoveTypes DEF Pcs
  <2>5. RowsMove /\ TypeOK'
    BY <1>1, <1>2, <2>3, <2>4 DEF RowsMove, CaseMove, OpMove, SameOp, TypeOK
  <2>6. /\ wk[w].pc \in {"succeed", "fail"} =>
             wk[w].seen.status \in Executable /\ wk[w].op.status = "running"
        /\ wk[w].pc = "compensate" => wk[w].op.status = "succeeded"
        /\ wk[w].pc \in {"succeed", "compensate"} => OrderOf[c] \in refunded
    BY <1>2 DEF KnowsOK
  <2>7. WorkersMove /\ \A d \in Cases : ToCall(d)' \subseteq ToCall(d)
    BY <1>1, <1>2, <2>3, <2>5, <2>6, GoesOn DEF Pcs
  <2>8. op[c].status # "none"
    BY <1>1, <2>1, <2>6
  <2> QED
    BY <1>1, <1>2, <2>3, <2>4, <2>6, <2>7, <2>8, OpStep
<1> QED
  BY <1>3, <1>4

\* What claim_operation makes of a row.
LEMMA ClaimTypes ==
  ASSUME NEW o \in OpRows
  PROVE  /\ o.attempt < MaxAttempts =>
              /\ ClaimedOp(o) \in OpRows
              /\ ClaimedOp(o).version = o.version + 1
              /\ ClaimedOp(o).attempt = o.attempt + 1
              /\ ClaimedOp(o).status = "running"
         /\ ExhaustedOp(o) \in OpRows
         /\ ExhaustedOp(o).version = o.version + 1
         /\ ExhaustedOp(o).attempt = o.attempt
         /\ ExhaustedOp(o).status = "exhausted"
<1>1. /\ o.attempt \in 0 .. MaxAttempts /\ o.version \in Nat
      /\ o.comp \in CompensationStatuses /\ o.version + 1 \in Nat
      /\ MaxAttempts \in Nat
  BY DirectAssumption DEF OpRows
<1>2. o.attempt < MaxAttempts => o.attempt + 1 \in 0 .. MaxAttempts
  BY <1>1
<1>3. /\ ExhaustedOp(o) \in OpRows
      /\ ExhaustedOp(o).version = o.version + 1
      /\ ExhaustedOp(o).attempt = o.attempt
      /\ ExhaustedOp(o).status = "exhausted"
  BY <1>1 DEF ExhaustedOp, OpRows, OpStatuses
<1>4. /\ ClaimedOp(o).version = o.version + 1
      /\ ClaimedOp(o).attempt = o.attempt + 1
      /\ ClaimedOp(o).status = "running"
  BY <1>1 DEF ClaimedOp, OpRows
<1>5. o.attempt < MaxAttempts => ClaimedOp(o) \in OpRows
  BY <1>1, <1>2 DEF ClaimedOp, OpRows, OpStatuses
<1> QED
  BY <1>3, <1>4, <1>5

\* The claim of an operation: an attempt is used up, and the request has a call to
\* make.
LEMMA ClaimedStep ==
  ASSUME IInv, NEW w \in Workers, wk[w].pc = "claim",
         Disposition(op[wk[w].id]) = "claimed", wk[w].seen.status \in Executable,
         op' = [op EXCEPT ![wk[w].id] = ClaimedOp(op[wk[w].id])],
         wk' = [wk EXCEPT ![w].pc = "start", ![w].op = ClaimedOp(op[wk[w].id])],
         UNCHANGED <<case, refunded, late, calls>>
  PROVE  IInv'
<1> DEFINE c == wk[w].id
           o == ClaimedOp(op[c])
<1>1. c \in Cases /\ CopiesOK(w) /\ KnowsOK(w) /\ OpOK(c) /\ TypeOK /\ CallsOK(c)
  BY Busy DEF IInv
<1>2. /\ op[c] \in OpRows /\ op[c].version \in Nat /\ op[c].attempt \in Nat
      /\ MaxAttempts \in Nat \ {0} /\ calls[c] \in Nat
  BY <1>1, RowTypes, DirectAssumption
<1>3. op[c].attempt < MaxAttempts
  BY <1>1, <1>2 DEF Disposition, OpOK, NoOperation
<1>4. /\ o \in OpRows /\ o.version = op[c].version + 1
      /\ o.attempt = op[c].attempt + 1 /\ o.status = "running"
  BY <1>2, <1>3, ClaimTypes
<1>5. /\ wk' = [wk EXCEPT ![w].pc = "start", ![w].op = o]
      /\ op' = [op EXCEPT ![c] = o]
  OBVIOUS
<1> HIDE DEF o
<1>6. /\ op' \in [Cases -> OpRows] /\ op'[c] = o
      /\ \A d \in Cases : d # c => op'[d] = op[d]
  BY <1>1, <1>4, <1>5 DEF TypeOK
<1>7. /\ wk' \in [Workers -> WorkerStates]
      /\ wk'[w].pc = "start" /\ wk'[w].id = c /\ wk'[w].seen = wk[w].seen
      /\ wk'[w].op = o
      /\ \A v \in Workers : v # w => wk'[v] = wk[v]
  <2>1. wk[w] \in WorkerStates /\ wk \in [Workers -> WorkerStates]
    BY <1>1 DEF TypeOK
  <2>2. wk' = [wk EXCEPT ![w] = [wk[w] EXCEPT !.pc = "start", !.op = o]]
    BY <1>5, <2>1
  <2>3. [wk[w] EXCEPT !.pc = "start", !.op = o] \in WorkerStates
    BY <1>4, <2>1 DEF WorkerStates, Pcs
  <2> QED
    BY <2>1, <2>2, <2>3 DEF WorkerStates
<1>8. TypeOK' /\ RowsMove
  BY <1>1, <1>4, <1>6, <1>7 DEF TypeOK, RowsMove, CaseMove, OpMove, SameOp
<1>9. CopiesOK(w)'
  BY <1>1, <1>2, <1>4, <1>6, <1>7 DEF CopiesOK
<1>10. KnowsOK(w)'
  BY <1>1, <1>4, <1>7 DEF KnowsOK
<1>11. WorkersMove
  BY <1>1, <1>7, <1>9, <1>10 DEF WorkersMove, WorkerOK
<1>12. CompletedWasRefunded'
  BY DEF IInv, CompletedWasRefunded
<1>13. ASSUME NEW d \in Cases PROVE OpOK(d)'
  <2>1. case[c].status \notin Unapproved
    BY <1>1 DEF KnowsOK, Executable, Unapproved
  <2> QED
    BY <1>4, <1>6, <2>1 DEF IInv, OpOK
<1>14. ASSUME NEW d \in Cases, d # c PROVE CallsOK(d)'
  <2>1. ToCall(d)' \subseteq ToCall(d)
    BY <1>7, <1>14 DEF ToCall
  <2> QED
    BY <1>6, <1>8, <1>14, <2>1, CallsKept
<1>15. ASSUME NEW d \in Cases, d = c PROVE CallsOK(d)'
  <2>1. ToCall(d)' \subseteq ToCall(d) \union {w}
    BY <1>7 DEF ToCall
  <2>2. /\ IsFiniteSet(ToCall(d)) /\ Cardinality(ToCall(d)) \in Nat
        /\ Cardinality(ToCall(d)') \in Nat
    BY ToCallFinite
  <2>3. /\ IsFiniteSet(ToCall(d) \union {w})
        /\ Cardinality(ToCall(d) \union {w})
             = IF w \in ToCall(d) THEN Cardinality(ToCall(d))
                                  ELSE Cardinality(ToCall(d)) + 1
    BY <2>2, FS_AddElement
  <2>4. Cardinality(ToCall(d)') <= Cardinality(ToCall(d) \union {w})
    BY <2>1, <2>3, FS_Subset
  <2>5. Cardinality(ToCall(d)') <= Cardinality(ToCall(d)) + 1
    BY <2>2, <2>3, <2>4
  <2>6. calls'[d] = calls[d] /\ op'[d].attempt = op[d].attempt + 1
    BY <1>4, <1>6, <1>15
  <2> QED
    BY <1>1, <1>2, <1>15, <2>2, <2>5, <2>6 DEF CallsOK
<1> QED
  BY <1>8, <1>11, <1>12, <1>13, <1>14, <1>15, Assemble

\* What claim_operation decides.
LEMMA ClaimStep ==
  ASSUME IInv, NEW w \in Workers, Claim(w)
  PROVE  IInv'
<1> DEFINE c == wk[w].id
           d == Disposition(op[c])
<1>1. /\ c \in Cases /\ CopiesOK(w) /\ KnowsOK(w) /\ OpOK(c) /\ TypeOK
      /\ wk[w].pc = "claim" /\ UNCHANGED <<case, refunded, late, calls>>
  BY Busy DEF IInv, Claim
<1>2. CASE d = "claimed" /\ wk[w].seen.status \in Executable
  BY <1>1, <1>2, ClaimedStep DEF Claim
<1>3. CASE op' = op
  <2>1. \/ Leave(w)
        \/ Goto(w, "replay") /\ op[c].status = "succeeded"
        \/ Goto(w, "giveup") /\ wk[w].seen.status \in Executable
        \/ d = "claimed" /\ wk[w].seen.status \in Executable
    BY <1>3 DEF Claim, Disposition
  <2>2. CASE Leave(w)
    BY <1>1, <1>3, <2>2, Leaves, QuietStep DEF TypeOK
  <2>3. ASSUME NEW p \in {"replay", "giveup"}, Goto(w, p),
               p = "replay" => op[c].status = "succeeded",
               p = "giveup" => wk[w].seen.status \in Executable
        PROVE  IInv'
    <3>1. wk' \in [Workers -> WorkerStates]
      BY <1>1, <2>3, MoveTypes DEF Pcs
    <3>2. RowsMove /\ TypeOK'
      BY <1>1, <1>3, <3>1 DEF RowsMove, CaseMove, OpMove, SameOp, TypeOK
    <3>3. p = "replay" => OrderOf[c] \in refunded'
      BY <1>1, <2>3 DEF OpOK
    <3>4. WorkersMove /\ \A e \in Cases : ToCall(e)' \subseteq ToCall(e)
      BY <1>1, <2>3, <3>2, <3>3, GoesOn DEF Pcs
    <3> QED
      BY <1>1, <1>3, <3>1, <3>4, QuietStep DEF TypeOK
  <2> QED
    BY <1>2, <2>1, <2>2, <2>3
<1>4. CASE /\ op' # op
           /\ ~(d = "claimed" /\ wk[w].seen.status \in Executable)
  <2> DEFINE o == ExhaustedOp(op[c])
  <2>1. /\ d = "exhausted" /\ wk[w].seen.status \in Executable
        /\ op' = [op EXCEPT ![c] = o]
        /\ Leave(w) \/ Goto(w, "giveup")
    BY <1>4 DEF Claim
  <2>2. op[c] \in OpRows /\ op[c].version \in Nat
    BY <1>1, RowTypes
  <2>3. /\ o \in OpRows /\ o.version = op[c].version + 1
        /\ o.attempt = op[c].attempt /\ o.status = "exhausted"
    BY <2>2, ClaimTypes
  <2>4. op[c].status # "none"
    BY <2>1 DEF Disposition
  <2> HIDE DEF o
  <2>5. wk' \in [Workers -> WorkerStates]
    BY <1>1, <2>1, Leaves, MoveTypes DEF Pcs
  <2>6. RowsMove /\ TypeOK'
    BY <1>1, <2>1, <2>3, <2>5 DEF RowsMove, CaseMove, OpMove, SameOp, TypeOK
  <2>7. WorkersMove /\ \A e \in Cases : ToCall(e)' \subseteq ToCall(e)
    <3>1. CASE Leave(w)
      BY <1>1, <3>1, Leaves
    <3>2. CASE Goto(w, "giveup")
      BY <1>1, <2>1, <2>6, <3>2, GoesOn DEF Pcs
    <3> QED
      BY <2>1, <3>1, <3>2
  <2> QED
    BY <1>1, <2>1, <2>3, <2>4, <2>5, <2>7, OpStep
<1> QED
  BY <1>2, <1>3, <1>4

\* The case is marked before the shop is called.
LEMMA StartStep ==
  ASSUME IInv, NEW w \in Workers, Start(w)
  PROVE  IInv'
<1> DEFINE c == wk[w].id
<1>1. /\ c \in Cases /\ CopiesOK(w) /\ KnowsOK(w) /\ OpOK(c) /\ TypeOK
      /\ wk[w].pc = "start" /\ UNCHANGED <<op, refunded, late, calls>>
  BY Busy DEF IInv, Start
<1>2. CASE ~CaseCurrent(w)
  BY <1>1, <1>2, Leaves, QuietStep DEF Start, TypeOK
<1>3. CASE CaseCurrent(w)
  <2> DEFINE r == [status |-> "processing", version |-> case[c].version + 1]
  <2>1. r \in CaseRows
    BY <1>1, RowTypes DEF CaseRows, CaseStatuses
  <2>2. /\ case' = [case EXCEPT ![c] = r]
        /\ wk' = [wk EXCEPT ![w].pc = "submit", ![w].seen = case'[c]]
    BY <1>3 DEF Start, CaseCurrent, SavedCase
  <2>3. r.status = "processing" /\ r.version = case[c].version + 1
    OBVIOUS
  <2> HIDE DEF r
  <2>4. /\ case' \in [Cases -> CaseRows] /\ case'[c] = r
        /\ \A d \in Cases : d # c => case'[d] = case[d]
    BY <1>1, <2>1, <2>2 DEF TypeOK
  <2>5. /\ wk' \in [Workers -> WorkerStates]
        /\ wk'[w].pc = "submit" /\ wk'[w].id = c /\ wk'[w].seen = r
        /\ wk'[w].op = wk[w].op
        /\ \A v \in Workers : v # w => wk'[v] = wk[v]
    BY <1>1, <2>1, <2>2, <2>4 DEF TypeOK, WorkerStates, Pcs
  <2>6. TypeOK'
    BY <1>1, <2>4, <2>5 DEF TypeOK
  <2>7. RowsMove
    BY <1>1, <2>3, <2>4 DEF RowsMove, CaseMove, OpMove, SameOp, Unapproved
  <2>8. CopiesOK(w)'
    <3>1. r.version \in Nat
      BY <2>1 DEF CaseRows
    <3> QED
      BY <1>1, <2>4, <2>5, <3>1 DEF CopiesOK
  <2>9. KnowsOK(w)'
    BY <1>1, <2>3, <2>4, <2>5 DEF KnowsOK, Executable, Unapproved
  <2>10. WorkersMove
    BY <1>1, <2>5, <2>8, <2>9 DEF WorkersMove, WorkerOK
  <2>11. CompletedWasRefunded'
    BY <1>1, <2>3, <2>4 DEF IInv, CompletedWasRefunded
  <2>12. ASSUME NEW d \in Cases PROVE OpOK(d)' /\ CallsOK(d)'
    <3>1. OpOK(d)'
      BY <1>1, <2>3, <2>4 DEF IInv, OpOK, Unapproved
    <3>2. ToCall(d)' \subseteq ToCall(d)
      BY <1>1, <2>5, NoCallToMake DEF CallPcs
    <3> QED
      BY <1>1, <2>6, <3>1, <3>2, CallsKept
  <2> QED
    BY <2>6, <2>7, <2>10, <2>11, <2>12, Assemble
<1> QED
  BY <1>2, <1>3

\* The shop is called: the call is one that the request had to make.
LEMMA SubmitStep ==
  ASSUME IInv, NEW w \in Workers, Submit(w)
  PROVE  IInv'
<1> DEFINE c == wk[w].id
<1>1. /\ c \in Cases /\ CopiesOK(w) /\ KnowsOK(w) /\ OpOK(c) /\ TypeOK
      /\ wk[w].pc = "submit" /\ UNCHANGED <<case, op>> /\ wk[w].pc # "idle"
      /\ calls' = [calls EXCEPT ![c] = @ + 1]
  BY Busy DEF IInv, Submit
<1>2. /\ refunded \subseteq refunded' /\ refunded' \subseteq Orders
      /\ late' \subseteq Orders
      /\ \/ Goto(w, "fail")
         \/ Goto(w, "succeed") /\ OrderOf[c] \in refunded'
  <2>1. OrderOf[c] \in Orders /\ refunded \subseteq Orders /\ late \subseteq Orders
    BY <1>1, DirectAssumption DEF TypeOK
  <2>2. /\ refunded' = refunded \/ refunded' = refunded \union {OrderOf[c]}
        /\ late' = late \/ late' = late \union {OrderOf[c]}
        /\ \/ Goto(w, "fail")
           \/ Goto(w, "succeed") /\ refunded' = refunded \union {OrderOf[c]}
    BY DEF Submit, RefundMade
  <2> QED
    BY <2>1, <2>2
<1>3. /\ wk' \in [Workers -> WorkerStates]
      /\ wk'[w].pc \in {"fail", "succeed"}
      /\ \A v \in Workers : v # w => wk'[v] = wk[v]
  BY <1>1, <1>2, MoveTypes DEF Pcs
<1>4. ASSUME NEW d \in Cases PROVE ToCall(d)' \subseteq ToCall(d) \ {w}
  BY <1>1, <1>3 DEF ToCall
<1>5. ASSUME NEW d \in Cases
      PROVE  calls'[d] \in Nat /\ calls'[d] + Cardinality(ToCall(d)') <= op[d].attempt
  <2>1. /\ CallsOK(d) /\ calls[d] \in Nat /\ op[d].attempt \in Nat
        /\ IsFiniteSet(ToCall(d)) /\ Cardinality(ToCall(d)) \in Nat
        /\ Cardinality(ToCall(d)') \in Nat
    BY <1>1, RowTypes, ToCallFinite DEF IInv
  <2>2. CASE d = c
    <3>1. calls'[d] = calls[d] + 1 /\ w \in ToCall(d)
      BY <1>1, <2>2 DEF TypeOK, ToCall
    <3>2. /\ Cardinality(ToCall(d) \ {w}) = Cardinality(ToCall(d)) - 1
          /\ IsFiniteSet(ToCall(d) \ {w})
      BY <2>1, <3>1, FS_RemoveElement
    <3>3. Cardinality(ToCall(d)') <= Cardinality(ToCall(d)) - 1
      BY <1>4, <3>2, FS_Subset
    <3> QED
      BY <2>1, <3>1, <3>3 DEF CallsOK
  <2>3. CASE d # c
    <3>1. calls'[d] = calls[d]
      BY <1>1, <2>3 DEF TypeOK
    <3>2. Cardinality(ToCall(d)') <= Cardinality(ToCall(d))
      BY <1>4, <2>1, FS_Subset
    <3> QED
      BY <2>1, <3>1, <3>2 DEF CallsOK
  <2> QED
    BY <2>2, <2>3
<1>6. TypeOK'
  <2>1. ASSUME NEW d \in Cases PROVE calls'[d] \in 0 .. MaxAttempts
    BY <1>1, <1>5, RowTypes, ToCallFinite, DirectAssumption
  <2>2. calls' \in [Cases -> 0 .. MaxAttempts]
    BY <1>1, <2>1 DEF TypeOK
  <2> QED
    BY <1>1, <1>2, <1>3, <2>2 DEF TypeOK
<1>7. RowsMove
  BY <1>1, <1>2 DEF RowsMove, CaseMove, OpMove, SameOp
<1>8. WorkersMove
  <2>1. wk[w].seen.status \in Executable /\ wk[w].op.status = "running"
    BY <1>1 DEF KnowsOK
  <2> QED
    BY <1>1, <1>2, <1>6, <1>7, <2>1, GoesOn DEF Pcs
<1>9. CompletedWasRefunded'
  BY <1>1, <1>2 DEF IInv, CompletedWasRefunded
<1>10. ASSUME NEW d \in Cases PROVE OpOK(d)' /\ CallsOK(d)'
  BY <1>1, <1>2, <1>5 DEF IInv, OpOK, CallsOK
<1> QED
  BY <1>6, <1>7, <1>8, <1>9, <1>10, Assemble

\* A late call arrives, a process dies.
LEMMA OutsideStep ==
  ASSUME IInv, (\E o \in Orders : LateRefund(o)) \/ (\E w \in Workers : Crash(w))
  PROVE  IInv'
<1>1. TypeOK /\ UNCHANGED <<case, op, calls>>
  BY DEF IInv, LateRefund, Crash
<1>2. ASSUME NEW o \in Orders, LateRefund(o) PROVE IInv'
  <2>1. /\ refunded' = refunded \union {o} /\ late' = late \ {o} /\ UNCHANGED wk
    BY <1>2 DEF LateRefund, RefundMade
  <2>2. WorkersMove /\ \A c \in Cases : ToCall(c)' \subseteq ToCall(c)
    BY <2>1 DEF WorkersMove, ToCall
  <2> QED
    BY <1>1, <2>1, <2>2, QuietStep DEF TypeOK
<1>3. ASSUME NEW w \in Workers, Crash(w) PROVE IInv'
  <2>1. Leave(w) /\ UNCHANGED <<refunded, late>>
    BY <1>3 DEF Crash
  <2> QED
    BY <1>1, <2>1, Leaves, QuietStep DEF TypeOK
<1> QED
  BY <1>2, <1>3

\* A case is created: nothing is known of it.
LEMMA CreateStep ==
  ASSUME IInv, NEW c \in Cases, NEW s, CreateCase(c, s)
  PROVE  IInv'
<1>1. /\ case[c].status = "none" /\ s \in {"pending_review", "approved"} /\ TypeOK
      /\ case' = [case EXCEPT ![c] = [status |-> s, version |-> 1]]
      /\ UNCHANGED <<op, refunded, late, wk, calls>>
  BY DEF CreateCase, IInv
<1>2. /\ case' \in [Cases -> CaseRows] /\ case'[c].status = s
      /\ \A d \in Cases : d # c => case'[d] = case[d]
  BY <1>1 DEF TypeOK, CaseRows, CaseStatuses
<1>3. TypeOK' /\ RowsMove /\ WorkersMove
  BY <1>1, <1>2 DEF TypeOK, RowsMove, CaseMove, OpMove, SameOp, WorkersMove
<1>4. CompletedWasRefunded'
  BY <1>1, <1>2 DEF IInv, CompletedWasRefunded
<1>5. ASSUME NEW d \in Cases PROVE OpOK(d)' /\ CallsOK(d)'
  <2>1. OpOK(d)'
    <3>1. d = c => op[d].status = "none"
      BY <1>1 DEF IInv, OpOK, Unapproved
    <3> QED
      BY <1>1, <1>2, <3>1 DEF IInv, OpOK
  <2>2. ToCall(d)' \subseteq ToCall(d)
    BY <1>1 DEF ToCall
  <2> QED
    BY <1>1, <1>3, <2>1, <2>2, CallsKept
<1> QED
  BY <1>3, <1>4, <1>5, Assemble

\* Time takes a lease: a copy still agrees with the row.
LEMMA LeaseStep ==
  ASSUME IInv, NEW c \in Cases, LeaseExpires(c)
  PROVE  IInv'
<1>1. /\ op[c].lease /\ TypeOK /\ op[c] \in OpRows
      /\ op' = [op EXCEPT ![c].lease = FALSE]
      /\ UNCHANGED <<case, refunded, late, wk, calls>>
  BY RowTypes DEF LeaseExpires, IInv
<1>2. op[c].status # "none"
  BY <1>1 DEF IInv, OpOK, NoOperation
<1>3. /\ op' \in [Cases -> OpRows] /\ SameOp(op[c], op'[c])
      /\ \A d \in Cases : d # c => op'[d] = op[d]
  BY <1>1 DEF TypeOK, OpRows, SameOp
<1>4. TypeOK' /\ RowsMove /\ WorkersMove
  BY <1>1, <1>3 DEF TypeOK, RowsMove, CaseMove, OpMove, SameOp, WorkersMove
<1>5. CompletedWasRefunded'
  BY <1>1 DEF IInv, CompletedWasRefunded
<1>6. ASSUME NEW d \in Cases PROVE OpOK(d)' /\ CallsOK(d)'
  <2>1. OpOK(d)'
    BY <1>1, <1>2, <1>3 DEF IInv, OpOK, SameOp
  <2>2. ToCall(d)' \subseteq ToCall(d) /\ op'[d].attempt = op[d].attempt
    BY <1>1, <1>3 DEF ToCall, SameOp
  <2> QED
    BY <1>1, <1>4, <2>1, <2>2, CallsKept
<1> QED
  BY <1>4, <1>5, <1>6, Assemble

\* Retention removes an operation that no request works on.
LEMMA RetireStep ==
  ASSUME IInv, NEW c \in Cases, Retire(c)
  PROVE  IInv'
<1>1. /\ \A w \in Workers : wk[w].id # c
      /\ op' = [op EXCEPT ![c] = NoOperation] /\ TypeOK
      /\ calls' = [calls EXCEPT ![c] = 0]
      /\ UNCHANGED <<case, refunded, late, wk>>
  BY DEF Retire, IInv
<1>2. NoOperation \in OpRows /\ NoOperation.status = "none" /\ NoOperation.attempt = 0
  BY DirectAssumption DEF NoOperation, OpRows, OpStatuses, CompensationStatuses
<1>3. /\ op' \in [Cases -> OpRows] /\ op'[c] = NoOperation
      /\ calls' \in [Cases -> 0 .. MaxAttempts] /\ calls'[c] = 0
      /\ \A d \in Cases : d # c => op'[d] = op[d] /\ calls'[d] = calls[d]
  BY <1>1, <1>2, DirectAssumption DEF TypeOK
<1>4. TypeOK' /\ RowsMove /\ WorkersMove
  BY <1>1, <1>3 DEF TypeOK, RowsMove, CaseMove, OpMove, SameOp, WorkersMove
<1>5. CompletedWasRefunded'
  BY <1>1 DEF IInv, CompletedWasRefunded
<1>6. ASSUME NEW d \in Cases PROVE OpOK(d)' /\ CallsOK(d)'
  <2>1. OpOK(d)'
    BY <1>1, <1>2, <1>3 DEF IInv, OpOK
  <2>2. ToCall(d)' = ToCall(d)
    BY <1>1 DEF ToCall
  <2>3. CASE d = c
    <3>1. ToCall(d) = {}
      BY <1>1, <2>3 DEF ToCall
    <3>2. Cardinality(ToCall(d)') = 0
      BY <2>2, <3>1, FS_EmptySet
    <3> QED
      BY <1>2, <1>3, <2>1, <2>3, <3>2 DEF CallsOK
  <2>4. CASE d # c
    BY <1>3, <2>1, <2>2, <2>4 DEF IInv, CallsOK
  <2> QED
    BY <2>3, <2>4
<1> QED
  BY <1>4, <1>5, <1>6, Assemble

-----------------------------------------------------------------------------
(* DirectRefund: the theorems *)

\* Every step preserves the invariant.
LEMMA NextStep == IInv /\ [Next]_vars => IInv'
<1> SUFFICES ASSUME IInv, [Next]_vars PROVE IInv'
  OBVIOUS
<1>1. ASSUME NEW c \in Cases, NEW s \in CaseStatuses, CreateCase(c, s) PROVE IInv'
  BY <1>1, CreateStep
<1>2. ASSUME NEW w \in Workers, WorkerStep(w) PROVE IInv'
  BY <1>2, ClosingSteps, ClaimStep, StartStep, SubmitStep, SaveStep DEF WorkerStep
<1>3. ASSUME NEW w \in Workers, Crash(w) PROVE IInv'
  BY <1>3, OutsideStep
<1>4. ASSUME NEW w \in Workers, NEW c \in Cases,
             \/ ReadForReview(w, c) \/ ReadForExecution(w, c)
             \/ ReadForCompensation(w, c)
      PROVE  IInv'
  BY <1>4, ReadStep DEF ReadForReview, ReadForExecution, ReadForCompensation
<1>5. ASSUME NEW c \in Cases, Retire(c) \/ LeaseExpires(c) PROVE IInv'
  BY <1>5, RetireStep, LeaseStep
<1>6. ASSUME NEW o \in Orders, LateRefund(o) PROVE IInv'
  BY <1>6, OutsideStep
<1>7. CASE UNCHANGED vars
  <2>1. WorkersMove /\ \A c \in Cases : ToCall(c)' \subseteq ToCall(c)
    BY <1>7 DEF vars, WorkersMove, ToCall
  <2> QED
    BY <1>7, <2>1, QuietStep DEF vars, IInv, TypeOK
<1> QED
  BY <1>1, <1>2, <1>3, <1>4, <1>5, <1>6, <1>7 DEF Next

\* The initial state has the invariant.
LEMMA InitStep == Init => IInv
<1> SUFFICES ASSUME Init PROVE IInv
  OBVIOUS
<1>1. NoOperation \in OpRows /\ NoOperation.status = "none" /\ NoOperation.attempt = 0
  BY DirectAssumption DEF NoOperation, OpRows, OpStatuses, CompensationStatuses
<1>2. IdleWorker \in WorkerStates /\ IdleWorker.pc = "idle"
  BY <1>1 DEF IdleWorker, WorkerStates, Pcs, CaseRows, CaseStatuses
<1>3. TypeOK
  BY <1>1, <1>2, DirectAssumption DEF Init, TypeOK, CaseRows, CaseStatuses
<1>4. CompletedWasRefunded
  BY DEF Init, CompletedWasRefunded
<1>5. ASSUME NEW c \in Cases PROVE OpOK(c) /\ CallsOK(c)
  <2>1. ToCall(c) = {}
    BY <1>2 DEF Init, ToCall
  <2>2. Cardinality(ToCall(c)) = 0
    BY <2>1, FS_EmptySet
  <2> QED
    BY <1>1, <2>2 DEF Init, OpOK, CallsOK
<1>6. \A w \in Workers : WorkerOK(w)
  BY <1>2 DEF Init, WorkerOK
<1> QED
  BY <1>3, <1>4, <1>5, <1>6 DEF IInv

\* Rows, copies, attempts and calls of the shop agree in every reachable state
\* of the direct execution (execute_case, review_case, update_compensation).
THEOREM DirectInvariant == Spec => []IInv
BY InitStep, NextStep, PTL DEF Spec

\* execute_case and its replays complete a case only when the shop has refunded.
THEOREM CompletedIsRefunded == Spec => []CompletedWasRefunded
<1>1. IInv => CompletedWasRefunded
  BY DEF IInv
<1> QED
  BY <1>1, DirectInvariant, PTL

\* A decision of review_case on an older row never meets an operation.
THEOREM UnapprovedIsIdle == Spec => []UnapprovedHasNoOperation
<1>1. IInv => UnapprovedHasNoOperation
  BY DEF IInv, OpOK, UnapprovedHasNoOperation, Unapproved
<1> QED
  BY <1>1, DirectInvariant, PTL

\* Requests that race, lose their lease or die call the shop no more often than
\* the operation has attempts, and those are at most MaxAttempts.
THEOREM CallsWithinAttempts ==
  Spec => [](\A c \in Cases : calls[c] <= op[c].attempt /\ op[c].attempt <= MaxAttempts)
<1>1. ASSUME IInv, NEW c \in Cases
      PROVE  calls[c] <= op[c].attempt /\ op[c].attempt <= MaxAttempts
  <2>1. CallsOK(c) /\ Cardinality(ToCall(c)) \in Nat
    BY <1>1, ToCallFinite DEF IInv
  <2> QED
    BY <1>1, <2>1, RowTypes, DirectAssumption DEF IInv, CallsOK
<1>2. IInv => \A c \in Cases : calls[c] <= op[c].attempt /\ op[c].attempt <= MaxAttempts
  BY <1>1
<1> QED
  BY <1>2, DirectInvariant, PTL

CaseKept(c) == case[c].status = "completed" => case'[c].status = "completed"

OpKept(c) ==
  op[c].status = "succeeded" /\ op'[c].status # "none" =>
    /\ op'[c].status = "succeeded"
    /\ op[c].comp = "completed" => op'[c].comp = "completed"

\* A case is written only by a request whose copy is the row.
LEMMA CaseStays == IInv /\ [Next]_vars => \A c \in Cases : CaseKept(c)
<1> SUFFICES ASSUME IInv, [Next]_vars PROVE \A c \in Cases : CaseKept(c)
  OBVIOUS
<1>1. CASE UNCHANGED case
  BY <1>1 DEF CaseKept
<1>2. ASSUME NEW d \in Cases, NEW s \in CaseStatuses, CreateCase(d, s)
      PROVE  \A c \in Cases : CaseKept(c)
  BY <1>2 DEF CreateCase, CaseKept, IInv, TypeOK
<1>3. ASSUME NEW w \in Workers, wk[w].pc # "idle", NEW s,
             case' = SavedCase(w, s), CaseCurrent(w),
             wk[w].seen.status = "completed" => s = "completed"
      PROVE  \A c \in Cases : CaseKept(c)
  <2>1. wk[w].id \in Cases /\ wk[w].seen = case[wk[w].id]
    BY <1>3, Busy DEF CopiesOK, CaseCurrent
  <2> QED
    BY <1>3, <2>1 DEF SavedCase, CaseKept, IInv, TypeOK
<1>4. ASSUME NEW w \in Workers, WorkerStep(w), case' # case
      PROVE  \A c \in Cases : CaseKept(c)
  <2>1. wk[w].pc # "idle" /\ CaseCurrent(w)
    BY <1>4 DEF WorkerStep, Review, Claim, Replay, GiveUp, Start, Submit, Succeed,
               Complete, Fail, Failed, Compensate, Compensated, CloseCase
  <2>2. KnowsOK(w)
    BY <2>1, Busy
  <2>3. \E s : /\ case' = SavedCase(w, s)
               /\ wk[w].seen.status = "completed" => s = "completed"
    <3>1. CASE Review(w)
      BY <1>4, <2>1, <2>2, <3>1 DEF Review, CloseCase, KnowsOK
    <3>2. CASE Replay(w) \/ Complete(w)
      BY <1>4, <2>1, <3>2 DEF Replay, Complete, CloseCase
    <3>3. CASE GiveUp(w)
      BY <1>4, <2>1, <2>2, <3>3 DEF GiveUp, CloseCase, KnowsOK, Executable
    <3>4. CASE Failed(w)
      BY <1>4, <2>1, <2>2, <3>4 DEF Failed, CloseCase, KnowsOK, Executable
    <3>5. CASE Start(w)
      BY <1>4, <2>1, <2>2, <3>5 DEF Start, KnowsOK, Executable
    <3>6. CASE Compensated(w)
      BY <1>4, <2>1, <3>6 DEF Compensated, CloseCase
    <3> QED
      BY <1>4, <3>1, <3>2, <3>3, <3>4, <3>5, <3>6
      DEF WorkerStep, Claim, Submit, Succeed, Fail, Compensate
  <2> QED
    BY <1>3, <2>1, <2>3
<1> QED
  BY <1>1, <1>2, <1>4
  DEF Next, vars, Crash, ReadForReview, ReadForExecution, ReadForCompensation, Read,
      Retire, LeaseExpires, LateRefund

\* An operation that has succeeded is written only by an admin's word on its
\* compensation, by time and by retention.
LEMMA OpStays == IInv /\ [Next]_vars => \A c \in Cases : OpKept(c)
<1> SUFFICES ASSUME IInv, [Next]_vars PROVE \A c \in Cases : OpKept(c)
  OBVIOUS
<1>1. CASE UNCHANGED op
  BY <1>1 DEF OpKept
<1>2. ASSUME NEW d \in Cases, Retire(d) \/ LeaseExpires(d)
      PROVE  \A c \in Cases : OpKept(c)
  <2>1. CASE Retire(d)
    BY <2>1 DEF Retire, OpKept, NoOperation, IInv, TypeOK
  <2>2. CASE LeaseExpires(d)
    BY <2>2 DEF LeaseExpires, OpKept, IInv, TypeOK, OpRows
  <2> QED
    BY <1>2, <2>1, <2>2
<1>3. ASSUME NEW w \in Workers, Claim(w), op' # op PROVE \A c \in Cases : OpKept(c)
  <2>1. wk[w].id \in Cases
    BY <1>3, Busy DEF Claim
  <2>2. op[wk[w].id].status # "succeeded"
    BY <1>3 DEF Claim, Disposition
  <2>3. \A c \in Cases : c # wk[w].id => op'[c] = op[c]
    BY <1>3, <2>1 DEF Claim, IInv, TypeOK
  <2> QED
    BY <2>2, <2>3 DEF OpKept
<1>4. ASSUME NEW w \in Workers, Succeed(w) \/ Fail(w) \/ Compensate(w), op' # op
      PROVE  \A c \in Cases : OpKept(c)
  <2> DEFINE d == wk[w].id
  <2>1. OpCurrent(w) /\ wk[w].pc \in {"succeed", "fail", "compensate"}
    BY <1>4 DEF Succeed, Fail, Compensate
  <2>2. /\ d \in Cases /\ KnowsOK(w) /\ wk[w].op \in OpRows
        /\ wk[w].op.status = op[d].status /\ wk[w].op.comp = op[d].comp
    BY <2>1, Busy, WorkerTypes DEF OpCurrent, CopiesOK, IInv
  <2>3. PICK o : op' = SavedOp(w, o)
    BY <1>4, <2>1 DEF Succeed, Fail, Compensate
  <2>4. \A c \in Cases : c # d => op'[c] = op[c]
    BY <2>2, <2>3 DEF SavedOp, IInv, TypeOK
  <2>5. CASE wk[w].pc \in {"succeed", "fail"}
    BY <2>2, <2>4, <2>5 DEF KnowsOK, OpKept
  <2>6. CASE wk[w].pc = "compensate"
    <3>1. PICK t \in Allowed(wk[w].op.comp) :
               op' = SavedOp(w, [wk[w].op EXCEPT !.comp = t])
      BY <1>4, <2>1, <2>6 DEF Succeed, Fail, Compensate
    <3>2. op[d].comp # "completed"
      BY <2>2, <3>1 DEF Allowed
    <3>3. op'[d].status = op[d].status
      BY <2>2, <3>1 DEF SavedOp, OpRows, IInv, TypeOK
    <3> QED
      BY <2>4, <3>2, <3>3 DEF OpKept
  <2> QED
    BY <2>1, <2>5, <2>6
<1>5. ASSUME NEW w \in Workers, WorkerStep(w) PROVE \A c \in Cases : OpKept(c)
  BY <1>1, <1>3, <1>4, <1>5
  DEF WorkerStep, Review, Replay, GiveUp, Start, Submit, Complete, Failed, Compensated,
      CloseCase
<1> QED
  BY <1>1, <1>2, <1>5
  DEF Next, vars, CreateCase, Crash, ReadForReview, ReadForExecution,
      ReadForCompensation, Read, LateRefund

-----------------------------------------------------------------------------
(* Compensation *)

\* What a step does to the other rows and invocations; the invocations that move
\* are in order afterwards.
InvocationsMove ==
  \A i \in Invocations : inv'[i] = inv[i] \/ C!InvocationOK(i)'

\* The fields of a row and of an invocation.
LEMMA CompensationTypes ==
  ASSUME C!TypeOK
  PROVE  /\ \A k \in Keys : row[k] \in C!Rows /\ row[k].attempt \in 0 .. MaxAttempts
         /\ \A i \in Invocations :
              /\ inv[i] \in C!InvocationStates /\ inv[i].item \in C!Rows
              /\ inv[i].item.attempt \in 0 .. MaxAttempts
         /\ C!NoRow \in C!Rows
<1>1. C!NoRow \in C!Rows
  BY DirectAssumption DEF C!NoRow, C!Rows, C!Statuses
<1> QED
  BY <1>1 DEF C!TypeOK, C!InvocationStates, C!Rows

\* The step of an invocation.
LEMMA InvocationMoves ==
  ASSUME C!TypeOK, NEW i \in Invocations
  PROVE  /\ \A p \in C!Pcs : C!Goto(i, p) =>
              /\ inv' \in [Invocations -> C!InvocationStates]
              /\ inv'[i].pc = p /\ inv'[i].key = inv[i].key
              /\ inv'[i].item = inv[i].item
              /\ \A j \in Invocations : j # i => inv'[j] = inv[j]
         /\ \A k \in Keys, p \in C!Pcs : C!Take(i, k, p) =>
              /\ inv' \in [Invocations -> C!InvocationStates]
              /\ inv'[i].pc = p /\ inv'[i].key = k /\ inv'[i].item = row[k]
              /\ \A j \in Invocations : j # i => inv'[j] = inv[j]
<1>1. inv \in [Invocations -> C!InvocationStates]
  BY DEF C!TypeOK
<1>2. ASSUME NEW p \in C!Pcs, C!Goto(i, p)
      PROVE  /\ inv' \in [Invocations -> C!InvocationStates]
             /\ inv'[i].pc = p /\ inv'[i].key = inv[i].key
             /\ inv'[i].item = inv[i].item
             /\ \A j \in Invocations : j # i => inv'[j] = inv[j]
  BY <1>1, <1>2 DEF C!Goto, C!InvocationStates
<1>3. ASSUME NEW k \in Keys, NEW p \in C!Pcs, C!Take(i, k, p)
      PROVE  /\ inv' \in [Invocations -> C!InvocationStates]
             /\ inv'[i].pc = p /\ inv'[i].key = k /\ inv'[i].item = row[k]
             /\ \A j \in Invocations : j # i => inv'[j] = inv[j]
  <2>1. [pc |-> p, key |-> k, item |-> row[k]] \in C!InvocationStates
    BY CompensationTypes DEF C!InvocationStates
  <2> QED
    BY <1>1, <1>3, <2>1 DEF C!Take
<1> QED
  BY <1>2, <1>3

\* The invariant from its parts.
LEMMA CompensationAssemble ==
  ASSUME C!IInv, C!TypeOK', C!SuccessIsReal', reversed \subseteq reversed',
         \A k \in Keys : row'[k].lease => row'[k].status = "running",
         InvocationsMove
  PROVE  C!IInv'
<1>1. ASSUME NEW i \in Invocations PROVE C!InvocationOK(i)'
  BY DEF InvocationsMove, C!IInv, C!InvocationOK
<1> QED
  BY <1>1 DEF C!IInv

\* One row is written, in order, and perhaps an invocation moves.
LEMMA RowStep ==
  ASSUME C!IInv, NEW k \in Keys, NEW r \in C!Rows, row' = [row EXCEPT ![k] = r],
         UNCHANGED reversed, inv' \in [Invocations -> C!InvocationStates],
         InvocationsMove,
         r.lease => r.status = "running",
         r.status = "succeeded" => r.manual \/ k \in reversed
  PROVE  C!IInv'
<1>1. /\ row' \in [Keys -> C!Rows] /\ row'[k] = r
      /\ \A l \in Keys : l # k => row'[l] = row[l]
  BY DEF C!IInv, C!TypeOK
<1>2. C!TypeOK'
  BY <1>1 DEF C!IInv, C!TypeOK
<1>3. C!SuccessIsReal' /\ \A l \in Keys : row'[l].lease => row'[l].status = "running"
  BY <1>1 DEF C!IInv, C!SuccessIsReal
<1> QED
  BY <1>2, <1>3, CompensationAssemble

\* No row is written.
LEMMA RowsStand ==
  ASSUME C!IInv, UNCHANGED row, reversed \subseteq reversed', reversed' \subseteq Keys,
         inv' \in [Invocations -> C!InvocationStates], InvocationsMove
  PROVE  C!IInv'
<1>1. C!TypeOK'
  BY DEF C!IInv, C!TypeOK
<1>2. C!SuccessIsReal' /\ \A k \in Keys : row'[k].lease => row'[k].status = "running"
  BY DEF C!IInv, C!SuccessIsReal
<1> QED
  BY <1>1, <1>2, CompensationAssemble

\* An invocation that ends.
LEMMA Ends ==
  ASSUME C!IInv, NEW i \in Invocations, C!Goto(i, "done")
  PROVE  inv' \in [Invocations -> C!InvocationStates] /\ InvocationsMove
<1>1. /\ inv' \in [Invocations -> C!InvocationStates] /\ inv'[i].pc = "done"
      /\ \A j \in Invocations : j # i => inv'[j] = inv[j]
  BY InvocationMoves DEF C!IInv, C!Pcs
<1> QED
  BY <1>1 DEF InvocationsMove, C!InvocationOK

\* _update, at the end of an invocation.
LEMMA FinishingStep ==
  ASSUME C!IInv, NEW i \in Invocations, inv[i].pc \notin {"new", "done"},
         NEW s \in C!Statuses, NEW m \in BOOLEAN, C!Finish(i, s, m),
         s = "succeeded" => m \/ inv[i].key \in reversed
  PROVE  C!IInv'
<1> DEFINE k == inv[i].key
           r == [inv[i].item EXCEPT !.status = s, !.owner = NoOne, !.lease = FALSE,
                                    !.manual = m]
<1>1. /\ k \in Keys /\ C!TypeOK /\ inv[i].item \in C!Rows
      /\ inv' \in [Invocations -> C!InvocationStates] /\ InvocationsMove
  BY Ends, CompensationTypes DEF C!IInv, C!InvocationOK, C!Finish
<1>2. /\ r \in C!Rows /\ ~r.lease /\ r.status = s /\ r.manual = m
  BY <1>1 DEF C!Rows
<1>3. (row' = [row EXCEPT ![k] = r] \/ UNCHANGED row) /\ UNCHANGED reversed
  BY DEF C!Finish
<1> HIDE DEF r
<1> QED
  BY <1>1, <1>2, <1>3, RowStep, RowsStand DEF C!TypeOK

LEMMA EndingSteps ==
  ASSUME C!IInv, NEW i \in Invocations,
         C!Succeed(i) \/ C!Fail(i) \/ C!Unsupported(i) \/ C!MarkManual(i)
  PROVE  C!IInv'
<1>1. C!InvocationOK(i)
  BY DEF C!IInv
<1> QED
  BY <1>1, FinishingStep
  DEF C!Succeed, C!Fail, C!Unsupported, C!MarkManual, C!InvocationOK, C!Statuses

\* An invocation takes the row as its item: a settled one ends it, one without
\* attempts left is not claimed.
LEMMA TakingSteps ==
  ASSUME C!IInv, NEW i \in Invocations,
         \/ \E k \in Keys : C!Execute(i, k) \/ C!ReadForManual(i, k)
         \/ C!Reread(i)
  PROVE  C!IInv'
<1>1. C!TypeOK /\ UNCHANGED <<row, reversed>>
  BY DEF C!IInv, C!Execute, C!ReadForManual, C!Reread
<1>2. PICK k \in Keys, p \in C!Pcs :
         /\ C!Take(i, k, p)
         /\ p \in {"done", "exhaust", "claim", "call", "manual"}
         /\ p \in {"exhaust", "claim", "call"} => row[k].status \notin C!Settled
         /\ p = "claim" => row[k].attempt < MaxAttempts
  <2>1. ASSUME NEW k \in Keys, C!Execute(i, k)
        PROVE  /\ C!Take(i, k, C!Verdict(row[k]))
               /\ C!Verdict(row[k]) \in {"done", "exhaust", "claim"}
               /\ C!Verdict(row[k]) \in {"exhaust", "claim"} =>
                    row[k].status \notin C!Settled
               /\ C!Verdict(row[k]) = "claim" => row[k].attempt < MaxAttempts
    <3>1. row[k].attempt \in Nat /\ MaxAttempts \in Nat
      BY <1>1, CompensationTypes, DirectAssumption
    <3> QED
      BY <2>1, <3>1 DEF C!Execute, C!Verdict, C!Settled
  <2>2. ASSUME NEW k \in Keys, C!ReadForManual(i, k) PROVE C!Take(i, k, "manual")
    BY <2>2 DEF C!ReadForManual
  <2>3. ASSUME C!Reread(i)
        PROVE  \E k \in Keys, p \in {"done", "call"} :
                 C!Take(i, k, p) /\ (p = "call" => row[k].status \notin C!Settled)
    <3>1. inv[i].key \in Keys
      BY <2>3 DEF C!IInv, C!InvocationOK, C!Reread
    <3> QED
      BY <2>3, <3>1 DEF C!Reread, C!Proceed, C!Settled
  <2> QED
    BY <2>1, <2>2, <2>3 DEF C!Pcs
<1>3. /\ inv' \in [Invocations -> C!InvocationStates]
      /\ inv'[i].pc = p /\ inv'[i].key = k /\ inv'[i].item = row[k]
      /\ \A j \in Invocations : j # i => inv'[j] = inv[j]
  BY <1>1, <1>2, InvocationMoves
<1>4. InvocationsMove
  BY <1>2, <1>3 DEF InvocationsMove, C!InvocationOK
<1> QED
  BY <1>1, <1>3, <1>4, RowsStand DEF C!TypeOK

\* claim: the attempts of the item are those of the row.
LEMMA ClaimingSteps ==
  ASSUME C!IInv, NEW i \in Invocations, C!Claim(i) \/ C!Exhaust(i)
  PROVE  C!IInv'
<1> DEFINE k == inv[i].key
<1>1. /\ C!TypeOK /\ C!InvocationOK(i) /\ UNCHANGED reversed
      /\ inv[i].pc \in {"claim", "exhaust"} /\ k \in Keys
      /\ C!Goto(i, "done") \/ C!Goto(i, "reread")
  BY DEF C!IInv, C!Claim, C!Exhaust, C!InvocationOK
<1>2. inv' \in [Invocations -> C!InvocationStates] /\ InvocationsMove
  <2>1. /\ inv' \in [Invocations -> C!InvocationStates]
        /\ inv'[i].pc \in {"done", "reread"} /\ inv'[i].key = k
        /\ \A j \in Invocations : j # i => inv'[j] = inv[j]
    BY <1>1, InvocationMoves DEF C!Pcs
  <2> QED
    BY <1>1, <2>1 DEF InvocationsMove, C!InvocationOK
<1>3. CASE UNCHANGED row
  BY <1>1, <1>2, <1>3, RowsStand DEF C!TypeOK
<1>4. CASE C!Exhaust(i) /\ row' # row
  <2> DEFINE r == [inv[i].item EXCEPT !.status = "exhausted", !.owner = NoOne,
                                      !.lease = FALSE]
  <2>1. row' = [row EXCEPT ![k] = r]
    BY <1>4 DEF C!Exhaust
  <2>2. r \in C!Rows /\ ~r.lease /\ r.status = "exhausted"
    BY <1>1, CompensationTypes DEF C!Rows, C!Statuses
  <2> HIDE DEF r
  <2> QED
    BY <1>1, <1>2, <2>1, <2>2, RowStep
<1>5. CASE C!Claim(i) /\ row' # row
  <2> DEFINE r == [row[k] EXCEPT !.status = "running", !.owner = i,
                                 !.attempt = row[k].attempt + 1, !.lease = TRUE]
  <2>1. C!Matches(i) /\ row[k].attempt < MaxAttempts
    BY <1>1, <1>5 DEF C!Claim, C!Matches, C!InvocationOK
  <2>2. row' = [row EXCEPT ![k] = r]
    BY <1>1, <1>5, <2>1 DEF C!Claim, C!TypeOK
  <2>3. row[k] \in C!Rows /\ row[k].attempt + 1 \in 0 .. MaxAttempts
    BY <1>1, <2>1, CompensationTypes, DirectAssumption
  <2>4. r \in C!Rows /\ r.status = "running"
    BY <2>3 DEF C!Rows, C!Statuses
  <2> HIDE DEF r
  <2> QED
    BY <1>1, <1>2, <2>2, <2>4, RowStep
<1> QED
  BY <1>3, <1>4, <1>5

\* The provider is called: what is reported as a success is one.
LEMMA CallingStep ==
  ASSUME C!IInv, NEW i \in Invocations, C!Call(i)
  PROVE  C!IInv'
<1> DEFINE k == inv[i].key
<1>1. /\ C!TypeOK /\ C!InvocationOK(i) /\ UNCHANGED row
      /\ inv[i].pc = "call" /\ k \in Keys
  BY DEF C!IInv, C!Call, C!InvocationOK
<1>2. /\ reversed \subseteq reversed' /\ reversed' \subseteq Keys
      /\ \/ C!Goto(i, "fail") \/ C!Goto(i, "unsupported")
         \/ C!Goto(i, "succeed") /\ k \in reversed'
  <2>1. reversed' = reversed \/ reversed' = reversed \union {k}
    BY DEF C!Call, C!ReversalMade
  <2>2. \/ C!Goto(i, "fail") \/ C!Goto(i, "unsupported")
        \/ C!Goto(i, "succeed") /\ reversed' = reversed \union {k}
    BY DEF C!Call, C!ReversalMade
  <2> QED
    BY <1>1, <2>1, <2>2 DEF C!TypeOK
<1>3. /\ inv' \in [Invocations -> C!InvocationStates]
      /\ inv'[i].pc \in {"fail", "unsupported", "succeed"}
      /\ inv'[i].pc = "succeed" => k \in reversed'
      /\ inv'[i].key = k /\ inv'[i].item = inv[i].item
      /\ \A j \in Invocations : j # i => inv'[j] = inv[j]
  BY <1>1, <1>2, InvocationMoves DEF C!Pcs
<1>4. InvocationsMove
  BY <1>1, <1>3 DEF InvocationsMove, C!InvocationOK
<1> QED
  BY <1>1, <1>2, <1>3, <1>4, RowsStand

\* Requests, time, crashes and retention.
LEMMA OtherSteps ==
  ASSUME C!IInv,
         \/ \E k \in Keys : C!Request(k) \/ C!LeaseExpires(k) \/ C!Retire(k)
         \/ \E i \in Invocations : C!Crash(i)
  PROVE  C!IInv'
<1>1. C!TypeOK /\ UNCHANGED reversed
  BY DEF C!IInv, C!Request, C!LeaseExpires, C!Retire, C!Crash
<1>2. ASSUME NEW i \in Invocations, C!Crash(i) PROVE C!IInv'
  BY <1>1, <1>2, Ends, RowsStand DEF C!Crash, C!TypeOK
<1>3. ASSUME NEW k \in Keys, C!Request(k) \/ C!LeaseExpires(k) \/ C!Retire(k)
      PROVE  C!IInv'
  <2>1. UNCHANGED inv /\ inv' \in [Invocations -> C!InvocationStates] /\ InvocationsMove
    BY <1>1, <1>3 DEF C!Request, C!LeaseExpires, C!Retire, C!TypeOK, InvocationsMove
  <2>2. row[k] \in C!Rows /\ C!NoRow \in C!Rows
    BY <1>1, CompensationTypes
  <2>3. row[k].lease => row[k].status = "running"
    BY DEF C!IInv
  <2>4. CASE C!Request(k)
    <3> DEFINE r == [C!NoRow EXCEPT !.status = "pending"]
    <3>1. r \in C!Rows /\ ~r.lease /\ r.status = "pending"
      BY <2>2 DEF C!NoRow, C!Rows, C!Statuses
    <3>2. row' = [row EXCEPT ![k] = r]
      BY <2>4 DEF C!Request
    <3> HIDE DEF r
    <3> QED
      BY <1>1, <2>1, <3>1, <3>2, RowStep
  <2>5. CASE C!LeaseExpires(k)
    <3> DEFINE r == [row[k] EXCEPT !.lease = FALSE]
    <3>1. r \in C!Rows /\ ~r.lease /\ r.status = "running"
      BY <2>2, <2>3, <2>5 DEF C!Rows, C!LeaseExpires
    <3>2. row' = [row EXCEPT ![k] = r]
      BY <2>5 DEF C!LeaseExpires
    <3> HIDE DEF r
    <3> QED
      BY <1>1, <2>1, <3>1, <3>2, RowStep
  <2>6. CASE C!Retire(k)
    <3>1. row' = [row EXCEPT ![k] = C!NoRow]
      BY <2>6 DEF C!Retire
    <3>2. ~C!NoRow.lease /\ C!NoRow.status = "none"
      BY DEF C!NoRow
    <3> QED
      BY <1>1, <2>1, <2>2, <3>1, <3>2, RowStep
  <2> QED
    BY <1>3, <2>4, <2>5, <2>6
<1> QED
  BY <1>2, <1>3

\* Every step preserves the invariant.
LEMMA CompensationNext == C!IInv /\ [C!Next]_C!vars => C!IInv'
<1> SUFFICES ASSUME C!IInv, [C!Next]_C!vars PROVE C!IInv'
  OBVIOUS
<1>1. ASSUME NEW k \in Keys, C!Request(k) \/ C!LeaseExpires(k) \/ C!Retire(k)
      PROVE  C!IInv'
  BY <1>1, OtherSteps
<1>2. ASSUME NEW k \in Keys, NEW i \in Invocations,
             C!Execute(i, k) \/ C!ReadForManual(i, k)
      PROVE  C!IInv'
  BY <1>2, TakingSteps
<1>3. ASSUME NEW i \in Invocations, C!Step(i) PROVE C!IInv'
  BY <1>3, ClaimingSteps, TakingSteps, CallingStep, EndingSteps, OtherSteps DEF C!Step
<1>4. CASE UNCHANGED C!vars
  <2>1. InvocationsMove
    BY <1>4 DEF C!vars, InvocationsMove
  <2> QED
    BY <1>4, <2>1, RowsStand DEF C!vars, C!IInv, C!TypeOK
<1> QED
  BY <1>1, <1>2, <1>3, <1>4 DEF C!Next

\* The initial state has the invariant.
LEMMA CompensationInit == C!Init => C!IInv
<1> SUFFICES ASSUME C!Init PROVE C!IInv
  OBVIOUS
<1>1. C!NoRow \in C!Rows /\ C!NoRow.status = "none" /\ ~C!NoRow.lease
  BY DirectAssumption DEF C!NoRow, C!Rows, C!Statuses
<1>2. C!TypeOK
  BY <1>1 DEF C!Init, C!TypeOK, C!InvocationStates, C!Pcs
<1>3. C!SuccessIsReal /\ \A k \in Keys : row[k].lease => row[k].status = "running"
  BY <1>1 DEF C!Init, C!SuccessIsReal
<1>4. \A i \in Invocations : C!InvocationOK(i)
  BY DEF C!Init, C!InvocationOK
<1> QED
  BY <1>2, <1>3, <1>4 DEF C!IInv

\* Rows of compensation_operations and the invocations that have read them agree
\* in every reachable state.
THEOREM CompensationInvariant == C!Spec => []C!IInv
BY CompensationInit, CompensationNext, PTL DEF C!Spec

RowKept(k) ==
  /\ row[k].status = "succeeded" => row'[k].status \in {"succeeded", "none"}
  /\ row[k].status = "needs_manual" =>
       \/ row'[k] = row[k]
       \/ row'[k].status = "succeeded" /\ row'[k].manual

\* A settled row is written only by the human who marks it and by retention.
LEMMA RowsStay == C!IInv /\ [C!Next]_C!vars => \A k \in Keys : RowKept(k)
<1> SUFFICES ASSUME C!IInv, [C!Next]_C!vars PROVE \A k \in Keys : RowKept(k)
  OBVIOUS
<1>1. CASE UNCHANGED row
  BY <1>1 DEF RowKept
<1>2. ASSUME NEW l \in Keys, C!Request(l) \/ C!LeaseExpires(l) \/ C!Retire(l)
      PROVE  \A k \in Keys : RowKept(k)
  <2>1. \A k \in Keys : k # l => row'[k] = row[k]
    BY <1>2 DEF C!Request, C!LeaseExpires, C!Retire, C!IInv, C!TypeOK
  <2>2. RowKept(l)
    BY <1>2 DEF C!Request, C!LeaseExpires, C!Retire, C!IInv, C!TypeOK, C!NoRow, RowKept
  <2> QED
    BY <2>1, <2>2 DEF RowKept
<1>3. ASSUME NEW i \in Invocations, C!Step(i), row' # row
      PROVE  \A k \in Keys : RowKept(k)
  <2> DEFINE l == inv[i].key
  <2>1. /\ C!Matches(i)
        /\ inv[i].pc \in {"exhaust", "claim", "succeed", "fail", "unsupported", "manual"}
    BY <1>3 DEF C!Step, C!Exhaust, C!Claim, C!Reread, C!Call, C!Succeed, C!Fail,
                C!Unsupported, C!MarkManual, C!Crash, C!Finish
  <2>2. /\ l \in Keys /\ row[l].status = inv[i].item.status
        /\ inv[i].pc # "manual" => row[l].status \notin C!Settled
    BY <2>1 DEF C!IInv, C!InvocationOK, C!Matches
  <2>3. \E r : row' = [row EXCEPT ![l] = r]
    <3>1. CASE C!Claim(i)
      BY <2>1, <2>2, <3>1 DEF C!Claim, C!IInv, C!TypeOK
    <3> QED
      BY <1>3, <2>1, <3>1
      DEF C!Step, C!Exhaust, C!Reread, C!Call, C!Succeed, C!Fail, C!Unsupported,
          C!MarkManual, C!Crash, C!Finish
  <2>4. \A k \in Keys : k # l => row'[k] = row[k]
    BY <2>3 DEF C!IInv, C!TypeOK
  <2>5. CASE inv[i].pc # "manual"
    BY <2>2, <2>4, <2>5 DEF RowKept, C!Settled
  <2>6. CASE inv[i].pc = "manual"
    <3>1. row'[l].status = "succeeded" /\ row'[l].manual = TRUE
      <4>1. C!Finish(i, "succeeded", TRUE) /\ inv[i].item \in C!Rows
        BY <1>3, <2>6, CompensationTypes
        DEF C!IInv, C!Step, C!Exhaust, C!Claim, C!Reread, C!Call, C!Succeed, C!Fail,
            C!Unsupported, C!MarkManual, C!Crash
      <4>2. row' = [row EXCEPT ![l] = [inv[i].item EXCEPT !.status = "succeeded",
                      !.owner = NoOne, !.lease = FALSE, !.manual = TRUE]]
        BY <1>3, <4>1 DEF C!Finish
      <4> QED
        BY <2>2, <4>1, <4>2 DEF C!IInv, C!TypeOK, C!Rows
    <3> QED
      BY <2>4, <3>1 DEF RowKept
  <2> QED
    BY <2>5, <2>6
<1> QED
  BY <1>1, <1>2, <1>3 DEF C!Next, C!vars, C!Execute, C!ReadForManual

-----------------------------------------------------------------------------
(* What the two promise in common *)

\* execute_case and CompensationService.execute report as done only what the shop
\* or the provider has done, or a human says was done.
THEOREM ReportsHold == Spec /\ C!Spec => []ReportsAreReal
<1>1. IInv /\ C!IInv => ReportsAreReal
  BY DEF IInv, C!IInv, ReportsAreReal
<1> QED
  BY <1>1, DirectInvariant, CompensationInvariant, PTL

\* No request and no invocation with older rows takes an outcome back: completed
\* cases, succeeded operations, their settled compensations, and what was handed
\* to humans.
THEOREM OutcomesHold == Spec /\ C!Spec => OutcomesStay
<1>1. IInv /\ [Next]_vars =>
        [\A c \in Cases : case[c].status = "completed" =>
           case'[c].status = "completed"]_vars
  BY CaseStays DEF CaseKept
<1>2. IInv /\ [Next]_vars =>
        [\A c \in Cases : op[c].status = "succeeded" /\ op'[c].status # "none" =>
           /\ op'[c].status = "succeeded"
           /\ op[c].comp = "completed" => op'[c].comp = "completed"]_vars
  BY OpStays DEF OpKept
<1>3. C!IInv /\ [C!Next]_C!vars =>
        [\A k \in Keys :
           /\ row[k].status = "succeeded" => row'[k].status \in {"succeeded", "none"}
           /\ row[k].status = "needs_manual" =>
                \/ row'[k] = row[k]
                \/ row'[k].status = "succeeded" /\ row'[k].manual]_C!vars
  BY RowsStay DEF RowKept
<1> QED
  BY <1>1, <1>2, <1>3, DirectInvariant, CompensationInvariant, PTL
  DEF Spec, C!Spec, OutcomesStay, CompletedStays, OutcomeStays, C!SettlementStays

=============================================================================
