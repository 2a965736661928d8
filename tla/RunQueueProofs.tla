--------------------------- MODULE RunQueueProofs ---------------------------
(***************************************************************************)
(* IInv is inductive, for every set of runs, workers and conversations and  *)
(* every list of calls.  Three kinds of step carry the argument: RowStep (a *)
(* row changes, no worker moves), LocalStep (a worker moves, no row         *)
(* changes) and CommitStep (the holder of a row changes it and moves).      *)
(***************************************************************************)
EXTENDS RunQueue, TLAPS

\* No other worker moves; no other row changes.
Others(w) == \A v \in Workers : v # w => wk'[v] = wk[v]
OtherRows(r) == \A q \in Runs : q # r => run'[q] = run[q]

\* The fields of a row that the arguments below use.
LEMMA RowTypes ==
  ASSUME NEW f \in [Runs -> Rows], NEW q \in Runs
  PROVE  /\ f[q] \in Rows
         /\ f[q].version \in Nat
         /\ f[q].fence \in Nat
         /\ f[q].attempt \in Nat
         /\ f[q].calls \in [Calls -> CallStates]
         /\ f[q].writeStarted \in BOOLEAN
         /\ f[q].snap \in Seq(Entries)
BY DEF Rows

\* The fields of a worker that the arguments below use.
LEMMA WorkerTypes ==
  ASSUME NEW f \in [Workers -> WorkerStates], NEW w \in Workers
  PROVE  /\ f[w] \in WorkerStates
         /\ f[w].pc \in Pcs
         /\ f[w].fence \in Nat
         /\ f[w].seen \in Nat
         /\ f[w].idx \in Nat
         /\ f[w].tries \in Nat
         /\ f[w].sess \in Seq(Entries)
         /\ f[w].result \in CallStates
BY DEF WorkerStates

\* A step that touches one row, keeps its journal and its fence and does not
\* make it run, preserves the invariant.
LEMMA RowStep ==
  ASSUME IInv, TypeOK', NEW r \in Runs, OtherRows(r), UNCHANGED <<wk, sent>>,
         run'[r].fence = run[r].fence,
         run'[r].calls = run[r].calls,
         run'[r].writeStarted = run[r].writeStarted,
         \/ run'[r].version = run[r].version + 1
         \/ run'[r].version = run[r].version /\ run'[r].status = run[r].status,
         run'[r].status = "running" => run[r].status = "running",
         run'[r].status = "cancelled" => ~run[r].writeStarted,
         Unsafe(r) => run'[r].status \in {"running", "needs_reconciliation"}
  PROVE  IInv'
<1>0. \A q \in Runs : run[q].version \in Nat /\ run'[q].version \in Nat
  BY RowTypes DEF IInv, TypeOK
<1>0a. \A w \in Workers : wk[w].seen \in Nat
  BY WorkerTypes DEF IInv, TypeOK
<1>1. ASSUME NEW q \in Runs PROVE JournalOK(q)'
  BY <1>1 DEF IInv, JournalOK, OtherRows
<1>2. ASSUME NEW q \in Runs PROVE RowOK(q)'
  BY <1>2 DEF IInv, RowOK, OtherRows, Unsafe
<1>3. ASSUME NEW w \in Workers PROVE WorkerOK(w)'
  <2>1. \A q \in Runs : run'[q].fence = run[q].fence /\ run[q].version <= run'[q].version
    BY <1>0 DEF OtherRows
  <2>2. wk'[w] = wk[w] /\ Idx(w)' = Idx(w) /\ R(w)' = R(w)
    BY DEF Idx, R
  <2>3. WorkerOK(w)
    BY DEF IInv
  <2>. QED
    BY <1>0, <1>0a, <2>1, <2>2, <2>3 DEF WorkerOK
<1>4. ASSUME NEW w \in Workers PROVE CasOK(w)'
  <2>1. SUFFICES ASSUME Current(w)' PROVE Holder(w)' /\ (wk'[w].pc = "finish" => ~Unsafe(R(w))')
    BY DEF CasOK
  <2>2. WorkerOK(w) /\ CasOK(w)
    BY <1>4 DEF IInv
  <2>3. wk[w].pc # "idle" /\ R(w) \in Runs
    BY <2>1, <2>2 DEF WorkerOK, Current
  <2>4. Current(w) /\ (R(w) = r => run'[r].status = run[r].status)
    BY <1>0, <1>0a, <2>1, <2>2, <2>3 DEF WorkerOK, Current, R, OtherRows
  <2>. QED
    BY <2>2, <2>3, <2>4 DEF CasOK, Holder, R, OtherRows, Unsafe
<1>5. ASSUME NEW w \in Workers PROVE StageOK(w)'
  <2>2. WorkerOK(w) /\ StageOK(w)
    BY <1>5 DEF IInv
  <2>3. CASE wk[w].pc \notin {"begin", "op", "done", "fail"}
    BY <2>3 DEF StageOK
  <2>4. CASE R(w) # r /\ wk[w].pc \in {"begin", "op", "done", "fail"}
    BY <2>2, <2>4 DEF WorkerOK, StageOK, R, Idx, OtherRows, Holder
  <2>5. CASE R(w) = r /\ wk[w].pc \in {"begin", "op", "done", "fail"}
    <3>1. wk[w].pc = "op" /\ IsWrite(Idx(w)) => Unsafe(r)
      BY <2>2, <2>5 DEF WorkerOK, StageOK, Unsafe, IsWrite
    <3>. QED
      BY <3>1, <2>2, <2>5 DEF WorkerOK, StageOK, R, Idx, Holder
  <2>. QED
    BY <2>3, <2>4, <2>5
<1>6. ASSUME NEW v \in Workers, NEW w \in Workers PROVE FenceOK(v, w)'
  BY <1>6 DEF IInv, FenceOK, R
<1>. QED
  BY <1>1, <1>2, <1>3, <1>4, <1>5, <1>6 DEF IInv

\* w' is parked, or still works for the same claim and its own parts hold.
Moved(w) ==
  \/ wk'[w].pc = "idle" /\ wk'[w].seen = 0
  \/ /\ R(w)' = R(w)
     /\ wk'[w].fence = wk[w].fence
     /\ WorkerOK(w)' /\ CasOK(w)' /\ StageOK(w)'

\* A worker that keeps its claim, or parks, keeps the fences distinct.
LEMMA FencesKept ==
  ASSUME IInv, NEW w \in Workers, Others(w), Moved(w), wk[w].pc # "idle",
         NEW u \in Workers, NEW v \in Workers
  PROVE  FenceOK(u, v)'
BY DEF IInv, FenceOK, R, Others, Moved

\* Nothing is required of a parked worker.
LEMMA ParkedOK ==
  ASSUME NEW w \in Workers, wk'[w].pc = "idle", wk'[w].seen = 0
  PROVE  WorkerOK(w)' /\ CasOK(w)' /\ StageOK(w)'
BY DEF WorkerOK, CasOK, StageOK, Current

\* A step of one worker that writes no row preserves the invariant when the
\* worker's own parts hold after it.
LEMMA LocalStep ==
  ASSUME IInv, TypeOK', NEW w \in Workers, UNCHANGED <<run, sent>>,
         Others(w), Moved(w), wk[w].pc # "idle"
  PROVE  IInv'
<1>1. ASSUME NEW q \in Runs PROVE JournalOK(q)' /\ RowOK(q)'
  BY <1>1 DEF IInv, JournalOK, RowOK, Unsafe
<1>2. ASSUME NEW v \in Workers PROVE WorkerOK(v)' /\ CasOK(v)' /\ StageOK(v)'
  <2>1. CASE v = w
    BY <2>1, ParkedOK DEF Moved
  <2>2. CASE v # w
    <3>1. wk'[v] = wk[v] /\ R(v)' = R(v) /\ Idx(v)' = Idx(v)
      BY <2>2 DEF Others, R, Idx
    <3>2. WorkerOK(v) /\ CasOK(v) /\ StageOK(v)
      BY <1>2 DEF IInv
    <3>. QED
      BY <3>1, <3>2 DEF WorkerOK, CasOK, StageOK, Current, Holder, Unsafe
  <2>. QED
    BY <2>1, <2>2
<1>. QED
  BY <1>1, <1>2, FencesKept DEF IInv

\* A successful CAS of a worker: it is the holder, so no other worker stands
\* on this row with the same fence, and every other read of it is stale.
LEMMA CommitStep ==
  ASSUME IInv, TypeOK', NEW w \in Workers, NEW r \in Runs, R(w) = r,
         UNCHANGED sent, Current(w), Others(w), Moved(w), wk[w].pc # "idle",
         OtherRows(r),
         run'[r].fence = run[r].fence,
         run'[r].version = run[r].version + 1,
         JournalOK(r)', RowOK(r)'
  PROVE  IInv'
<1>0. /\ \A q \in Runs : run[q].version \in Nat /\ run'[q].version \in Nat
      /\ \A v \in Workers : wk[v].seen \in Nat
  BY RowTypes, WorkerTypes DEF IInv, TypeOK
<1>1. ASSUME NEW q \in Runs PROVE JournalOK(q)' /\ RowOK(q)'
  <2>1. CASE q = r
    BY <2>1
  <2>2. CASE q # r
    BY <2>2 DEF IInv, JournalOK, RowOK, Unsafe, OtherRows
  <2>. QED
    BY <2>1, <2>2
<1>2. Holder(w)
  BY DEF IInv, CasOK
<1>3. ASSUME NEW v \in Workers PROVE WorkerOK(v)' /\ CasOK(v)' /\ StageOK(v)'
  <2>1. CASE v = w
    BY <2>1, ParkedOK DEF Moved
  <2>2. CASE v # w
    <3>1. wk'[v] = wk[v] /\ R(v)' = R(v) /\ Idx(v)' = Idx(v)
      BY <2>2 DEF Others, R, Idx
    <3>2. WorkerOK(v) /\ CasOK(v) /\ StageOK(v)
      BY <1>3 DEF IInv
    <3>3. CASE wk[v].pc = "idle"
      BY <3>1, <3>2, <3>3, ParkedOK DEF WorkerOK
    <3>4. CASE wk[v].pc # "idle" /\ R(v) # r
      <4>1. R(v) \in Runs /\ run'[R(v)] = run[R(v)]
        BY <3>2, <3>4 DEF WorkerOK, OtherRows
      <4>. QED
        <5>1. (Holder(v)' <=> Holder(v)) /\ (Current(v)' <=> Current(v))
          BY <4>1, <3>1 DEF Holder, Current, R
        <5>2. Unsafe(R(v))' <=> Unsafe(R(v))
          BY <4>1, <3>1 DEF Unsafe
        <5>3. WorkerOK(v)' /\ CasOK(v)'
          BY <4>1, <3>1, <3>2, <5>1, <5>2 DEF WorkerOK, CasOK
        <5>4. StageOK(v)'
          BY <4>1, <3>1, <3>2, <5>1 DEF StageOK
        <5>. QED
          BY <5>3, <5>4
    <3>5. CASE wk[v].pc # "idle" /\ R(v) = r
      <4>1. wk[v].fence # wk[w].fence
        BY <2>2, <3>5 DEF IInv, FenceOK
      <4>2. ~Holder(v)' /\ run[r].fence # wk[v].fence
        BY <4>1, <3>1, <3>5, <1>2 DEF Holder, R
      <4>3. ~Current(v)'
        BY <1>0, <3>1, <3>2, <3>5 DEF Current, WorkerOK, R
      <4>4. WorkerOK(v)'
        BY <1>0, <3>1, <3>2, <3>5 DEF WorkerOK
      <4>. QED
        BY <3>1, <3>2, <3>5, <4>2, <4>3, <4>4 DEF CasOK, StageOK
    <3>. QED
      BY <3>3, <3>4, <3>5
  <2>. QED
    BY <2>1, <2>2
<1>. QED
  BY <1>1, <1>3, FencesKept DEF IInv

\* What RunRepository.change does to the table.
LEMMA ChangeEffect ==
  ASSUME TypeOK, NEW r \in Runs, NEW row \in Rows,
         run' = [run EXCEPT ![r] = [row EXCEPT !.version = run[r].version + 1]]
  PROVE  /\ run' \in [Runs -> Rows]
         /\ OtherRows(r)
         /\ run'[r].version = run[r].version + 1
         /\ run'[r].status = row.status
         /\ run'[r].fence = row.fence
         /\ run'[r].calls = row.calls
         /\ run'[r].writeStarted = row.writeStarted
<1>1. run[r].version + 1 \in Nat
  BY RowTypes DEF TypeOK
<1>2. [row EXCEPT !.version = run[r].version + 1] \in Rows
  BY <1>1 DEF Rows
<1>3. run'[r] = [row EXCEPT !.version = run[r].version + 1]
  BY DEF TypeOK
<1>4. OtherRows(r)
  BY DEF TypeOK, OtherRows
<1>5. /\ run'[r].version = run[r].version + 1
      /\ run'[r].status = row.status
      /\ run'[r].fence = row.fence
      /\ run'[r].calls = row.calls
      /\ run'[r].writeStarted = row.writeStarted
  BY <1>3 DEF Rows
<1>. QED
  BY <1>2, <1>4, <1>5 DEF TypeOK

\* What moving on does to the workers.
LEMMA GotoEffect ==
  ASSUME TypeOK, NEW w \in Workers, NEW p \in Pcs, Goto(w, p)
  PROVE  /\ wk' \in [Workers -> WorkerStates]
         /\ Others(w)
         /\ wk'[w] = [wk[w] EXCEPT !.pc = p, !.seen = 0, !.tries = 0]
<1>1. [wk[w] EXCEPT !.pc = p, !.seen = 0, !.tries = 0] \in WorkerStates
  BY WorkerTypes DEF TypeOK, WorkerStates
<1>2. wk' = [wk EXCEPT ![w] = [wk[w] EXCEPT !.pc = p, !.seen = 0, !.tries = 0]]
  BY DEF Goto
<1>. QED
  BY <1>1, <1>2 DEF TypeOK, Others

\* A parked worker is a worker.
LEMMA IdleTyped ==
  IdleWorker \in WorkerStates /\ IdleWorker.pc = "idle" /\ IdleWorker.seen = 0
<1>1. <<>> \in Seq(Entries)
  OBVIOUS
<1>. QED
  BY <1>1 DEF IdleWorker, WorkerStates, Pcs, Codes, CallStates

\* What parking does to the workers.
LEMMA GoIdleEffect ==
  ASSUME TypeOK, NEW w \in Workers, GoIdle(w)
  PROVE  /\ wk' \in [Workers -> WorkerStates]
         /\ Others(w)
         /\ Moved(w)
<1>2. wk'[w] = IdleWorker /\ Others(w)
  BY DEF TypeOK, GoIdle, Others
<1>3. Moved(w)
  <2>2. wk'[w].pc = "idle" /\ wk'[w].seen = 0
    BY <1>2, IdleTyped
  <2>. QED
    BY <2>2 DEF Moved
<1>. QED
  BY <1>2, <1>3, IdleTyped DEF TypeOK, GoIdle

\* What stopping with a code does to the workers.
LEMMA GoFailEffect ==
  ASSUME TypeOK, NEW w \in Workers, NEW c \in Codes, GoFail(w, c)
  PROVE  /\ wk' \in [Workers -> WorkerStates]
         /\ Others(w)
         /\ wk'[w] = [wk[w] EXCEPT !.pc = "fail", !.seen = 0, !.tries = 0,
                                   !.code = c]
<1>. DEFINE rec == [wk[w] EXCEPT !.pc = "fail", !.seen = 0, !.tries = 0,
                                 !.code = c]
<1>1. rec \in WorkerStates
  <2>1. wk[w] \in WorkerStates /\ "fail" \in Pcs
    BY DEF TypeOK, Pcs
  <2>. QED
    BY <2>1 DEF WorkerStates
<1>2. wk' = [wk EXCEPT ![w] = rec]
  BY DEF GoFail
<1>. HIDE DEF rec
<1>3. wk' \in [Workers -> WorkerStates] /\ Others(w) /\ wk'[w] = rec
  BY <1>1, <1>2 DEF TypeOK, Others
<1>. QED
  BY <1>3 DEF rec

\* submit preserves the invariant.
LEMMA SubmitOK ==
  ASSUME IInv, NEW r \in Runs, Submit(r)
  PROVE  IInv'
<1>1. PICK v \in 1 .. own[SessionOf[r]].version :
       Change(r, [run[r] EXCEPT !.status = "queued",
                                !.maxAttempts = MaxAttempts,
                                !.ownVersion = v])
  BY DEF Submit
<1>. DEFINE row == [run[r] EXCEPT !.status = "queued",
                                  !.maxAttempts = MaxAttempts,
                                  !.ownVersion = v]
<1>a. run[r] \in Rows /\ v \in Nat /\ MaxAttempts \in Nat
  BY RunAssumption DEF IInv, TypeOK
<1>2. /\ row \in Rows
      /\ row.status = "queued"
      /\ row.fence = run[r].fence
      /\ row.calls = run[r].calls
      /\ row.writeStarted = run[r].writeStarted
  BY <1>a DEF Rows, Statuses, ACTIVE
<1>3. run' = [run EXCEPT ![r] = [row EXCEPT !.version = run[r].version + 1]]
  BY <1>1 DEF Change
<1>4. ~Unsafe(r) /\ UNCHANGED <<session, own, wk, sent>>
  BY DEF IInv, RowOK, Submit
<1>. HIDE DEF row
<1>5. TypeOK'
  BY <1>2, <1>3, <1>4, ChangeEffect DEF IInv, TypeOK
<1>. QED
  BY <1>2, <1>3, <1>4, <1>5, ChangeEffect, RowStep DEF IInv

\* A change of r alone that keeps the journal, under a new row.
LEMMA RowChange ==
  ASSUME IInv, NEW r \in Runs, NEW row \in Rows,
         run' = [run EXCEPT ![r] = [row EXCEPT !.version = run[r].version + 1]],
         UNCHANGED <<session, own, wk, sent>>,
         row.fence = run[r].fence,
         row.calls = run[r].calls,
         row.writeStarted = run[r].writeStarted,
         row.status = "running" => run[r].status = "running",
         row.status = "cancelled" => ~run[r].writeStarted,
         Unsafe(r) => row.status \in {"running", "needs_reconciliation"}
  PROVE  IInv'
<1>1. TypeOK'
  BY ChangeEffect DEF IInv, TypeOK
<1>. QED
  BY <1>1, ChangeEffect, RowStep DEF IInv

\* cancel: the request is acknowledged at once only before any write.
LEMMA CancelOK ==
  ASSUME IInv, NEW r \in Runs, Cancel(r)
  PROVE  IInv'
<1>. DEFINE row == IF /\ run[r].status \in {"queued", "retry_wait", "dead_letter"}
                      /\ ~run[r].writeStarted
                     THEN [run[r] EXCEPT !.status = "cancelled",
                                         !.cancel = "acknowledged"]
                   ELSE IF run[r].status = "running"
                     THEN [run[r] EXCEPT !.cancel = "requested"]
                   ELSE [run[r] EXCEPT !.cancel = "too_late"]
<1>1. run[r] \in Rows /\ run[r].writeStarted \in BOOLEAN
  BY RowTypes DEF IInv, TypeOK
<1>2. run' = [run EXCEPT ![r] = [row EXCEPT !.version = run[r].version + 1]]
  BY DEF Cancel, Change
<1>3. UNCHANGED <<session, own, wk, sent>> /\ RowOK(r) /\ JournalOK(r)
  BY DEF Cancel, IInv
<1>4. ~run[r].writeStarted => ~Unsafe(r)
  BY <1>3 DEF JournalOK, Unsafe, IsWrite
<1>5. CASE /\ run[r].status \in {"queued", "retry_wait", "dead_letter"}
           /\ ~run[r].writeStarted
  <2>1. row = [run[r] EXCEPT !.status = "cancelled", !.cancel = "acknowledged"]
    BY <1>5
  <2>2. /\ row \in Rows
        /\ row.fence = run[r].fence
        /\ row.calls = run[r].calls
        /\ row.writeStarted = run[r].writeStarted
        /\ row.status = "cancelled"
    BY <1>1, <2>1 DEF Rows, Statuses, TERMINAL
  <2>. HIDE DEF row
  <2>. QED
    BY <1>2, <1>3, <1>4, <1>5, <2>2, RowChange
<1>6. CASE ~(/\ run[r].status \in {"queued", "retry_wait", "dead_letter"}
             /\ ~run[r].writeStarted)
  <2>1. PICK c \in {"requested", "too_late"} : row = [run[r] EXCEPT !.cancel = c]
    BY <1>6
  <2>2. /\ row \in Rows
        /\ row.fence = run[r].fence
        /\ row.calls = run[r].calls
        /\ row.writeStarted = run[r].writeStarted
        /\ row.status = run[r].status
    BY <1>1, <2>1 DEF Rows
  <2>. HIDE DEF row
  <2>. QED
    BY <1>2, <1>3, <2>2, RowChange DEF RowOK
<1>. QED
  BY <1>5, <1>6

\* replay: refused for an unsafe journal.
LEMMA ReplayOK ==
  ASSUME IInv, NEW r \in Runs, Replay(r)
  PROVE  IInv'
<1>. DEFINE row == [run[r] EXCEPT !.status = "queued", !.cancel = "none",
                              !.maxAttempts = run[r].attempt + ReplayAttempts]
<1>0. run[r] \in Rows /\ run[r].attempt \in Nat
  BY RowTypes DEF IInv, TypeOK
<1>1. run[r] \in Rows /\ run[r].attempt + ReplayAttempts \in Nat
  BY <1>0, RunAssumption
<1>2. /\ row \in Rows
      /\ row.fence = run[r].fence
      /\ row.calls = run[r].calls
      /\ row.writeStarted = run[r].writeStarted
      /\ row.status = "queued"
  BY <1>1 DEF Rows, Statuses, ACTIVE
<1>3. /\ run' = [run EXCEPT ![r] = [row EXCEPT !.version = run[r].version + 1]]
      /\ ~Unsafe(r)
      /\ UNCHANGED <<session, own, wk, sent>>
  BY DEF Replay, Change
<1>. HIDE DEF row
<1>. QED
  BY <1>2, <1>3, RowChange

\* The passage of time changes neither version nor fence.
LEMMA LeaseExpiresOK ==
  ASSUME IInv, NEW r \in Runs, LeaseExpires(r)
  PROVE  IInv'
<1>1. run[r] \in Rows
  BY RowTypes DEF IInv, TypeOK
<1>2. [run[r] EXCEPT !.leased = FALSE] \in Rows
  BY <1>1 DEF Rows
<1>3. /\ run' \in [Runs -> Rows]
      /\ OtherRows(r)
      /\ run'[r] = [run[r] EXCEPT !.leased = FALSE]
  <2>. DEFINE row == [run[r] EXCEPT !.leased = FALSE]
  <2>1. run' = [run EXCEPT ![r] = row] /\ row \in Rows
    BY <1>2 DEF LeaseExpires
  <2>. HIDE DEF row
  <2>2. run' \in [Runs -> Rows] /\ OtherRows(r) /\ run'[r] = row
    BY <2>1 DEF IInv, TypeOK, OtherRows
  <2>. QED
    BY <2>2 DEF row
<1>4. /\ run'[r].version = run[r].version
      /\ run'[r].status = run[r].status
      /\ run'[r].fence = run[r].fence
      /\ run'[r].calls = run[r].calls
      /\ run'[r].writeStarted = run[r].writeStarted
  BY <1>1, <1>3 DEF Rows
<1>5. run[r].status = "running" /\ UNCHANGED <<session, own, wk, sent>>
  BY DEF LeaseExpires
<1>6. TypeOK'
  BY <1>3, <1>5 DEF IInv, TypeOK
<1>. QED
  BY <1>3, <1>4, <1>5, <1>6, RowStep

\* claim, the three outcomes that settle or park the row.
LEMMA SweepOK ==
  ASSUME IInv, NEW w \in Workers, NEW r \in Runs,
         \/ ClaimUnsafe(w, r)
         \/ ClaimCancelled(w, r)
         \/ ClaimExhausted(w, r)
  PROVE  IInv'
<1>1. run[r] \in Rows
  BY RowTypes DEF IInv, TypeOK
<1>2. CASE ClaimUnsafe(w, r)
  <2>. DEFINE row == [run[r] EXCEPT !.status = "needs_reconciliation"]
  <2>1. /\ row \in Rows
        /\ row.fence = run[r].fence
        /\ row.calls = run[r].calls
        /\ row.writeStarted = run[r].writeStarted
        /\ row.status = "needs_reconciliation"
    BY <1>1 DEF Rows, Statuses, ACTIVE
  <2>2. /\ run' = [run EXCEPT ![r] = [row EXCEPT !.version = run[r].version + 1]]
        /\ UNCHANGED <<session, own, wk, sent>>
    BY <1>2 DEF ClaimUnsafe, Change
  <2>. HIDE DEF row
  <2>. QED
    BY <2>1, <2>2, RowChange
<1>3. CASE ClaimCancelled(w, r)
  <2>. DEFINE row == [run[r] EXCEPT !.status = "cancelled",
                                    !.cancel = "acknowledged"]
  <2>1. /\ row \in Rows
        /\ row.fence = run[r].fence
        /\ row.calls = run[r].calls
        /\ row.writeStarted = run[r].writeStarted
        /\ row.status = "cancelled"
    BY <1>1 DEF Rows, Statuses, TERMINAL
  <2>2. /\ run' = [run EXCEPT ![r] = [row EXCEPT !.version = run[r].version + 1]]
        /\ UNCHANGED <<session, own, wk, sent>>
        /\ ~Unsafe(r) /\ ~run[r].writeStarted
    BY <1>3 DEF ClaimCancelled, Change, CancelDue
  <2>. HIDE DEF row
  <2>. QED
    BY <2>1, <2>2, RowChange
<1>4. CASE ClaimExhausted(w, r)
  <2>. DEFINE row == [run[r] EXCEPT !.status = "dead_letter"]
  <2>1. /\ row \in Rows
        /\ row.fence = run[r].fence
        /\ row.calls = run[r].calls
        /\ row.writeStarted = run[r].writeStarted
        /\ row.status = "dead_letter"
    BY <1>1 DEF Rows, Statuses, ACTIVE
  <2>2. /\ run' = [run EXCEPT ![r] = [row EXCEPT !.version = run[r].version + 1]]
        /\ UNCHANGED <<session, own, wk, sent>>
        /\ ~Unsafe(r)
    BY <1>4 DEF ClaimExhausted, Change
  <2>. HIDE DEF row
  <2>. QED
    BY <2>1, <2>2, RowChange
<1>. QED
  BY <1>2, <1>3, <1>4

\* The heartbeat renews the lease of the fence it was started for.
LEMMA HeartbeatOK ==
  ASSUME IInv, NEW w \in Workers, Heartbeat(w)
  PROVE  IInv'
<1>1. PICK r \in Runs : r = R(w)
  BY DEF IInv, WorkerOK, Heartbeat
<1>. DEFINE row == [run[r] EXCEPT !.leased = TRUE]
<1>2. run[r] \in Rows
  BY RowTypes DEF IInv, TypeOK
<1>3. /\ row \in Rows
      /\ row.fence = run[r].fence
      /\ row.calls = run[r].calls
      /\ row.writeStarted = run[r].writeStarted
      /\ row.status = run[r].status
  BY <1>2 DEF Rows
<1>4. /\ run' = [run EXCEPT ![r] = [row EXCEPT !.version = run[r].version + 1]]
      /\ UNCHANGED <<session, own, wk, sent>>
      /\ run[r].status = "running"
  BY <1>1 DEF Heartbeat, Change
<1>. HIDE DEF row
<1>. QED
  BY <1>3, <1>4, RowChange

\* Steps that touch neither the rows, nor the workers, nor the outside world.
LEMMA AsideOK ==
  ASSUME IInv, TypeOK', UNCHANGED <<run, wk, sent>>
  PROVE  IInv'
BY DEF IInv, JournalOK, RowOK, WorkerOK, CasOK, StageOK, FenceOK, R, Idx,
       Unsafe, Current, Holder

\* Takeover, release and deletion touch no run.
LEMMA ApiOK ==
  ASSUME IInv, NEW s \in Sessions,
         TakeOver(s) \/ Release(s) \/ DeleteSession(s)
  PROVE  IInv'
<1>1. own[s].version + 1 \in Nat
  BY DEF IInv, TypeOK
<1>2. own' \in [Sessions -> [human: BOOLEAN, version: Nat]]
  <2>1. CASE TakeOver(s)
    BY <2>1, <1>1 DEF IInv, TypeOK, TakeOver
  <2>2. CASE Release(s)
    BY <2>2, <1>1 DEF IInv, TypeOK, Release
  <2>3. CASE DeleteSession(s)
    BY <2>3 DEF IInv, TypeOK, DeleteSession
  <2>. QED
    BY <2>1, <2>2, <2>3
<1>3. <<>> \in Seq(Entries)
  OBVIOUS
<1>4. session' \in [Sessions -> Seq(Entries)]
  BY <1>3 DEF IInv, TypeOK, TakeOver, Release, DeleteSession
<1>5. UNCHANGED <<run, wk, sent>>
  BY DEF TakeOver, Release, DeleteSession
<1>6. TypeOK'
  BY <1>2, <1>4, <1>5 DEF IInv, TypeOK
<1>. QED
  BY <1>5, <1>6, AsideOK

\* claim proper: a fence nobody has, on a row without an outstanding write.
LEMMA ClaimOK ==
  ASSUME IInv, NEW w \in Workers, NEW r \in Runs, Claim(w, r)
  PROVE  IInv'
<1>. DEFINE row == [run[r] EXCEPT !.status = "running", !.owner = w,
                                  !.fence = run[r].fence + 1,
                                  !.attempt = run[r].attempt + 1,
                                  !.leased = TRUE]
<1>. DEFINE rec == [IdleWorker EXCEPT !.pc = "load", !.run = r,
                                      !.fence = run[r].fence + 1]
<1>1. run[r] \in Rows /\ run[r].fence \in Nat /\ run[r].attempt \in Nat
      /\ run[r].version \in Nat
  BY RowTypes DEF IInv, TypeOK
<1>2. /\ row \in Rows
      /\ row.fence = run[r].fence + 1
      /\ row.calls = run[r].calls
      /\ row.writeStarted = run[r].writeStarted
      /\ row.status = "running"
  <2>1. run[r].fence + 1 \in Nat /\ run[r].attempt + 1 \in Nat
    BY <1>1
  <2>2. "running" \in Statuses /\ w \in Workers \union {NoWorker}
    BY DEF Statuses, ACTIVE
  <2>. QED
    BY <1>1, <2>1, <2>2 DEF Rows
<1>3. run' = [run EXCEPT ![r] = [row EXCEPT !.version = run[r].version + 1]]
  BY DEF Claim, Claimed, Change
<1>4. /\ wk' = [wk EXCEPT ![w] = rec]
      /\ UNCHANGED <<session, own, sent>>
      /\ wk[w].pc = "idle" /\ ~Unsafe(r)
  BY DEF Claim, Claimed, Eligible
<1>5. /\ rec \in WorkerStates
      /\ rec.pc = "load" /\ rec.run = r /\ rec.fence = run[r].fence + 1
      /\ rec.seen = 0
  <2>1. run[r].fence + 1 \in Nat /\ "load" \in Pcs /\ r \in Runs \union {NoRun}
    BY <1>1 DEF Pcs
  <2>. QED
    BY <2>1, IdleTyped DEF WorkerStates
<1>. HIDE DEF row, rec
<1>6. /\ wk' \in [Workers -> WorkerStates]
      /\ wk'[w] = rec
      /\ Others(w)
  BY <1>4, <1>5 DEF IInv, TypeOK, Others
<1>7. /\ run' \in [Runs -> Rows]
      /\ OtherRows(r)
      /\ run'[r].version = run[r].version + 1
      /\ run'[r].status = "running"
      /\ run'[r].fence = run[r].fence + 1
      /\ run'[r].calls = run[r].calls
      /\ run'[r].writeStarted = run[r].writeStarted
  BY <1>2, <1>3, ChangeEffect DEF IInv
<1>8. TypeOK'
  BY <1>4, <1>6, <1>7 DEF IInv, TypeOK
<1>9. ASSUME NEW q \in Runs PROVE JournalOK(q)' /\ RowOK(q)'
  <2>1. JournalOK(q) /\ RowOK(q)
    BY <1>9 DEF IInv
  <2>2. run'[q].calls = run[q].calls /\ run'[q].writeStarted = run[q].writeStarted
    BY <1>7 DEF OtherRows
  <2>3. run'[q].status = run[q].status \/ run'[q].status = "running"
    BY <1>7 DEF OtherRows
  <2>4. sent' = sent
    BY <1>4
  <2>. QED
    BY <2>1, <2>2, <2>3, <2>4 DEF JournalOK, RowOK, Unsafe
<1>10. ASSUME NEW v \in Workers PROVE WorkerOK(v)' /\ CasOK(v)' /\ StageOK(v)'
  <2>0. wk[v].seen \in Nat /\ wk[v].fence \in Nat
    BY WorkerTypes DEF IInv, TypeOK
  <2>1. CASE v = w
    <3>1. /\ wk'[w].pc = "load" /\ R(w)' = r /\ wk'[w].seen = 0
          /\ wk'[w].fence = run[r].fence + 1
      BY <1>5, <1>6 DEF R
    <3>. QED
      BY <2>1, <3>1, <1>1, <1>7 DEF WorkerOK, CasOK, StageOK, Current
  <2>2. CASE v # w
    <3>1. wk'[v] = wk[v] /\ R(v)' = R(v) /\ Idx(v)' = Idx(v)
      BY <2>2, <1>6 DEF Others, R, Idx
    <3>2. WorkerOK(v) /\ CasOK(v) /\ StageOK(v)
      BY <1>10 DEF IInv
    <3>3. CASE wk[v].pc = "idle"
      BY <3>1, <3>2, <3>3, ParkedOK DEF WorkerOK
    <3>4. CASE wk[v].pc # "idle" /\ R(v) # r
      <4>1. R(v) \in Runs /\ run'[R(v)] = run[R(v)]
        BY <3>2, <3>4, <1>7 DEF WorkerOK, OtherRows
      <4>2. (Holder(v)' <=> Holder(v)) /\ (Current(v)' <=> Current(v))
        BY <4>1, <3>1 DEF Holder, Current
      <4>3. Unsafe(R(v))' <=> Unsafe(R(v))
        BY <4>1, <3>1 DEF Unsafe
      <4>4. WorkerOK(v)' /\ CasOK(v)'
        BY <4>1, <3>1, <3>2, <4>2, <4>3 DEF WorkerOK, CasOK
      <4>5. StageOK(v)'
        BY <4>1, <4>2, <3>1, <3>2, <1>4 DEF StageOK
      <4>. QED
        BY <4>4, <4>5
    <3>5. CASE wk[v].pc # "idle" /\ R(v) = r
      <4>1. wk[v].fence <= run[r].fence /\ wk[v].seen <= run[r].version
        BY <3>2, <3>5 DEF WorkerOK
      <4>2. ~Holder(v)' /\ ~Current(v)'
        BY <4>1, <3>1, <3>5, <1>1, <1>7, <2>0 DEF Holder, Current
      <4>3. WorkerOK(v)'
        BY <4>1, <3>1, <3>2, <3>5, <1>1, <1>7, <2>0 DEF WorkerOK
      <4>4. ~(wk[v].pc = "op" /\ IsWrite(Idx(v)))
        BY <3>2, <3>5, <1>4 DEF StageOK, WorkerOK, Unsafe, IsWrite
      <4>. QED
        BY <3>1, <4>2, <4>3, <4>4 DEF CasOK, StageOK
    <3>. QED
      BY <3>3, <3>4, <3>5
  <2>. QED
    BY <2>1, <2>2
<1>11. ASSUME NEW u \in Workers, NEW v \in Workers PROVE FenceOK(u, v)'
  <2>1. \A x \in Workers : wk[x].pc # "idle" /\ R(x) = r
                            => wk[x].fence # run[r].fence + 1
    <3>. SUFFICES ASSUME NEW x \in Workers, wk[x].pc # "idle", R(x) = r
                  PROVE  wk[x].fence # run[r].fence + 1
      OBVIOUS
    <3>1. wk[x].fence \in Nat /\ wk[x].fence <= run[r].fence
      BY WorkerTypes DEF IInv, TypeOK, WorkerOK
    <3>. QED
      BY <3>1, <1>1
  <2>. QED
    BY <2>1, <1>4, <1>5, <1>6, <1>11 DEF IInv, FenceOK, R, Others
<1>. QED
  BY <1>8, <1>9, <1>10, <1>11 DEF IInv

-----------------------------------------------------------------------------
(* Local steps of a worker *)

Quiet == {"load", "guard1", "call", "guard2", "finish", "handoff", "append",
          "mark"}

\* A worker that keeps its claim and enters a stage with nothing to remember.
LEMMA QuietMove ==
  ASSUME IInv, NEW w \in Workers, wk[w].pc # "idle", NEW r \in Runs, R(w) = r,
         wk'[w].run = r, wk'[w].fence = wk[w].fence, wk'[w].seen = 0,
         run'[r].fence = run[r].fence, run'[r].version \in Nat,
         \/ wk'[w].pc \in Quiet
         \/ wk'[w].pc = "fail" /\ wk'[w].code # "RUN_CANCELLED"
  PROVE  Moved(w)
<1>1. R(w)' = r
  BY DEF R
<1>2. WorkerOK(w)
  BY DEF IInv
<1>3. WorkerOK(w)' /\ CasOK(w)' /\ StageOK(w)'
  BY <1>1, <1>2 DEF WorkerOK, CasOK, StageOK, Current, Quiet
<1>. QED
  BY <1>1, <1>3 DEF Moved

\* Moving to a quiet place.
LEMMA GotoQuiet ==
  ASSUME IInv, NEW w \in Workers, wk[w].pc # "idle", NEW p \in Quiet,
         Goto(w, p), UNCHANGED run
  PROVE  Moved(w)
<1>1. PICK r \in Runs : R(w) = r
  BY DEF IInv, WorkerOK
<1>2. wk[w] \in WorkerStates /\ run[r].version \in Nat
  BY RowTypes, WorkerTypes DEF IInv, TypeOK
<1>0. p \in Pcs
  BY DEF Quiet, Pcs
<1>3. wk'[w] = [wk[w] EXCEPT !.pc = p, !.seen = 0, !.tries = 0]
  BY <1>0, GotoEffect DEF IInv
<1>4. /\ wk'[w].run = r /\ wk'[w].fence = wk[w].fence
      /\ wk'[w].seen = 0 /\ wk'[w].pc = p
  BY <1>1, <1>2, <1>3 DEF WorkerStates, R
<1>. QED
  BY <1>1, <1>2, <1>4, QuietMove

\* Stopping with a code other than RUN_CANCELLED.
LEMMA GoFailQuiet ==
  ASSUME IInv, NEW w \in Workers, wk[w].pc # "idle",
         NEW c \in Codes \ {"RUN_CANCELLED"}, GoFail(w, c), UNCHANGED run
  PROVE  Moved(w)
<1>1. PICK r \in Runs : R(w) = r
  BY DEF IInv, WorkerOK
<1>2. wk[w] \in WorkerStates /\ run[r].version \in Nat
  BY RowTypes, WorkerTypes DEF IInv, TypeOK
<1>3. wk'[w] = [wk[w] EXCEPT !.pc = "fail", !.seen = 0, !.tries = 0, !.code = c]
  BY GoFailEffect DEF IInv
<1>4. /\ wk'[w].run = r /\ wk'[w].fence = wk[w].fence
      /\ wk'[w].seen = 0 /\ wk'[w].pc = "fail" /\ wk'[w].code = c
  BY <1>1, <1>2, <1>3 DEF WorkerStates, R
<1>. QED
  BY <1>1, <1>2, <1>4, QuietMove

\* A worker that parks and writes nothing.
LEMMA GoingIdle ==
  ASSUME IInv, NEW w \in Workers, wk[w].pc # "idle", GoIdle(w),
         UNCHANGED <<run, session, own, sent>>
  PROVE  IInv'
<1>1. TypeOK'
  BY GoIdleEffect DEF IInv, TypeOK
<1>. QED
  BY <1>1, GoIdleEffect, LocalStep DEF IInv

\* A worker that moves to a quiet place, whatever it does to the session.
LEMMA Going ==
  ASSUME IInv, NEW w \in Workers, wk[w].pc # "idle", NEW p \in Quiet,
         Goto(w, p), session' \in [Sessions -> Seq(Entries)],
         UNCHANGED <<run, own, sent>>
  PROVE  IInv'
<1>0. p \in Pcs
  BY DEF Quiet, Pcs
<1>1. wk' \in [Workers -> WorkerStates] /\ Others(w)
  BY <1>0, GotoEffect DEF IInv
<1>2. TypeOK'
  BY <1>1 DEF IInv, TypeOK
<1>. QED
  BY <1>1, <1>2, GotoQuiet, LocalStep

\* A worker that stops with a code and writes nothing.
LEMMA GoingToFail ==
  ASSUME IInv, NEW w \in Workers, wk[w].pc # "idle",
         NEW c \in Codes \ {"RUN_CANCELLED"}, GoFail(w, c),
         UNCHANGED <<run, session, own, sent>>
  PROVE  IInv'
<1>1. wk' \in [Workers -> WorkerStates] /\ Others(w)
  BY GoFailEffect DEF IInv
<1>2. TypeOK'
  BY <1>1 DEF IInv, TypeOK
<1>. QED
  BY <1>1, <1>2, GoFailQuiet, LocalStep

\* check() saw a cancel request on a row it holds without a write.
LEMMA InterruptedOK ==
  ASSUME IInv, NEW w \in Workers, Interrupted(w)
  PROVE  IInv'
<1>0. /\ wk[w].pc # "idle" /\ Owned(w) /\ CancelDue(R(w))
      /\ GoFail(w, "RUN_CANCELLED")
      /\ UNCHANGED <<run, session, own, sent>>
  BY DEF Interrupted, Cancellable, Checking
<1>1. PICK r \in Runs : R(w) = r
  BY <1>0 DEF IInv, WorkerOK
<1>2. "RUN_CANCELLED" \in Codes /\ wk[w] \in WorkerStates /\ WorkerOK(w)
  BY DEF Codes, IInv, TypeOK
<1>3. /\ wk' \in [Workers -> WorkerStates]
      /\ Others(w)
      /\ wk'[w] = [wk[w] EXCEPT !.pc = "fail", !.seen = 0, !.tries = 0,
                                !.code = "RUN_CANCELLED"]
  BY <1>0, <1>2, GoFailEffect DEF IInv
<1>4. /\ wk'[w].run = wk[w].run /\ wk'[w].fence = wk[w].fence
      /\ wk'[w].seen = 0 /\ wk'[w].pc = "fail"
  BY <1>2, <1>3 DEF WorkerStates
<1>5. R(w)' = R(w) /\ ~run[r].writeStarted /\ run[r].version \in Nat
  BY <1>0, <1>1, <1>4, RowTypes DEF R, CancelDue, IInv, TypeOK
<1>6. Moved(w)
  BY <1>0, <1>1, <1>2, <1>4, <1>5
     DEF Moved, WorkerOK, CasOK, StageOK, Current
<1>7. TypeOK'
  BY <1>0, <1>3 DEF IInv, TypeOK
<1>. QED
  BY <1>0, <1>3, <1>6, <1>7, LocalStep

\* The read of a mutation: the reader owns the row at that version.
LEMMA ReadRowOK ==
  ASSUME IInv, NEW w \in Workers, ReadRow(w)
  PROVE  IInv'
<1>0. /\ wk[w].pc \in {"load", "begin", "done", "mark", "finish", "fail"}
      /\ Owned(w)
      /\ wk[w].pc = "finish" => ~Unsafe(R(w))
      /\ UNCHANGED <<run, session, own, sent>>
  BY DEF ReadRow, Proceeds
<1>1. PICK r \in Runs : R(w) = r
  BY <1>0 DEF IInv, WorkerOK
<1>2. /\ wk[w] \in WorkerStates /\ WorkerOK(w) /\ StageOK(w)
      /\ run[r].version \in Nat
      /\ session[SessionOf[r]] \in Seq(Entries)
      /\ wk[w].sess \in Seq(Entries)
  BY RowTypes, WorkerTypes, RunAssumption DEF IInv, TypeOK
<1>3. PICK s \in Seq(Entries) :
        wk' = [wk EXCEPT ![w] = [wk[w] EXCEPT !.seen = run[r].version,
                                              !.sess = s]]
  <2>1. CASE wk[w].pc = "load"
    BY <2>1, <1>1, <1>2 DEF ReadRow
  <2>2. CASE wk[w].pc # "load"
    BY <2>2, <1>1, <1>2 DEF ReadRow
  <2>. QED
    BY <2>1, <2>2
<1>. DEFINE rec == [wk[w] EXCEPT !.seen = run[r].version, !.sess = s]
<1>4. /\ rec \in WorkerStates /\ rec.seen = run[r].version
      /\ rec.pc = wk[w].pc /\ rec.run = wk[w].run /\ rec.fence = wk[w].fence
      /\ rec.idx = wk[w].idx /\ rec.code = wk[w].code
      /\ rec.result = wk[w].result
  BY <1>2 DEF WorkerStates
<1>5. wk' = [wk EXCEPT ![w] = rec]
  BY <1>3
<1>. HIDE DEF rec
<1>6. wk' \in [Workers -> WorkerStates] /\ Others(w) /\ wk'[w] = rec
  BY <1>4, <1>5 DEF IInv, TypeOK, Others
<1>7. R(w)' = R(w) /\ Idx(w)' = Idx(w) /\ (Holder(w)' <=> Holder(w))
  BY <1>0, <1>4, <1>6 DEF R, Idx, Holder
<1>8. Holder(w)
  BY <1>0 DEF Owned, Holder
<1>9. WorkerOK(w)'
  BY <1>0, <1>1, <1>2, <1>4, <1>6, <1>7 DEF WorkerOK
<1>10. CasOK(w)'
  BY <1>0, <1>4, <1>6, <1>7, <1>8 DEF CasOK, Unsafe
<1>11. StageOK(w)'
  BY <1>0, <1>2, <1>4, <1>6, <1>7 DEF StageOK
<1>12. Moved(w)
  BY <1>4, <1>6, <1>7, <1>9, <1>10, <1>11 DEF Moved
<1>13. TypeOK'
  BY <1>0, <1>6 DEF IInv, TypeOK
<1>. QED
  BY <1>0, <1>6, <1>12, <1>13, LocalStep

\* A lost CAS forgets what was read.
LEMMA ConflictOK ==
  ASSUME IInv, NEW w \in Workers, Conflict(w)
  PROVE  IInv'
<1>0. wk[w].pc # "idle" /\ UNCHANGED <<run, session, own, sent>>
  BY DEF Conflict, IInv, WorkerOK
<1>1. CASE GoIdle(w)
  BY <1>0, <1>1, GoingIdle
<1>2. CASE GoFail(w, "RUN_CONTENTION")
  BY <1>0, <1>2, GoingToFail DEF Codes
<1>3. CASE wk' = [wk EXCEPT ![w].seen = 0, ![w].tries = wk[w].tries + 1]
  <2>1. PICK r \in Runs : R(w) = r
    BY <1>0 DEF IInv, WorkerOK
  <2>2. /\ wk[w] \in WorkerStates /\ WorkerOK(w) /\ StageOK(w)
        /\ run[r].version \in Nat
        /\ wk[w].tries \in Nat
    BY RowTypes, WorkerTypes DEF IInv, TypeOK
  <2>. DEFINE rec == [wk[w] EXCEPT !.seen = 0, !.tries = wk[w].tries + 1]
  <2>3. /\ rec \in WorkerStates /\ rec.seen = 0
        /\ rec.pc = wk[w].pc /\ rec.run = wk[w].run /\ rec.fence = wk[w].fence
        /\ rec.idx = wk[w].idx /\ rec.code = wk[w].code
        /\ rec.result = wk[w].result
    <3>1. wk[w].tries + 1 \in Nat
      BY <2>2
    <3>. QED
      BY <2>2, <3>1 DEF WorkerStates
  <2>4. wk' = [wk EXCEPT ![w] = rec]
    BY <1>3
  <2>. HIDE DEF rec
  <2>5. wk' \in [Workers -> WorkerStates] /\ Others(w) /\ wk'[w] = rec
    BY <2>3, <2>4 DEF IInv, TypeOK, Others
  <2>6. R(w)' = R(w) /\ Idx(w)' = Idx(w) /\ (Holder(w)' <=> Holder(w))
    BY <1>0, <2>3, <2>5 DEF R, Idx, Holder
  <2>7. WorkerOK(w)'
    BY <1>0, <2>1, <2>2, <2>3, <2>5, <2>6 DEF WorkerOK
  <2>8. CasOK(w)'
    BY <2>3, <2>5 DEF CasOK, Current
  <2>9. StageOK(w)'
    BY <1>0, <2>2, <2>3, <2>5, <2>6 DEF StageOK
  <2>10. Moved(w)
    BY <2>3, <2>5, <2>6, <2>7, <2>8, <2>9 DEF Moved
  <2>11. TypeOK'
    BY <1>0, <2>5 DEF IInv, TypeOK
  <2>. QED
    BY <1>0, <2>5, <2>10, <2>11, LocalStep
<1>. QED
  BY <1>1, <1>2, <1>3 DEF Conflict

\* The journal lookup: a write goes on only when the journal has no entry.
LEMMA LookupCallOK ==
  ASSUME IInv, NEW w \in Workers, LookupCall(w)
  PROVE  IInv'
<1>0. /\ wk[w].pc = "call" /\ wk[w].pc # "idle" /\ wk[w].seen = 0
      /\ Idx(w) \in Calls
      /\ UNCHANGED <<run, session, own, sent>>
  BY DEF LookupCall, Proceeds, Checking
<1>1. PICK r \in Runs : R(w) = r
  BY <1>0 DEF IInv, WorkerOK
<1>2. /\ wk[w] \in WorkerStates /\ WorkerOK(w) /\ wk[w].idx \in Nat
      /\ run[r].version \in Nat
  BY RowTypes, WorkerTypes DEF IInv, TypeOK
<1>3. CASE Goto(w, "handoff")
  BY <1>0, <1>3, Going DEF Quiet, IInv, TypeOK
<1>4. CASE GoFail(w, "RUN_WRITE_UNKNOWN")
  BY <1>0, <1>4, GoingToFail DEF Codes
<1>5. CASE wk' = [wk EXCEPT ![w].idx = wk[w].idx + 1]
  <2>. DEFINE rec == [wk[w] EXCEPT !.idx = wk[w].idx + 1]
  <2>1. wk[w].idx + 1 \in Nat
    BY <1>2
  <2>2. /\ rec \in WorkerStates /\ rec.seen = 0
        /\ rec.pc = "call" /\ rec.run = r /\ rec.fence = wk[w].fence
    BY <1>0, <1>1, <1>2, <2>1 DEF WorkerStates, R
  <2>3. wk' = [wk EXCEPT ![w] = rec]
    BY <1>5
  <2>. HIDE DEF rec
  <2>4. wk' \in [Workers -> WorkerStates] /\ Others(w) /\ wk'[w] = rec
    BY <2>2, <2>3 DEF IInv, TypeOK, Others
  <2>5. Moved(w)
    BY <1>0, <1>1, <1>2, <2>2, <2>4, QuietMove DEF Quiet
  <2>6. TypeOK'
    BY <1>0, <2>4 DEF IInv, TypeOK
  <2>. QED
    BY <1>0, <2>4, <2>5, <2>6, LocalStep
<1>6. CASE /\ Goto(w, "begin")
           /\ Kind[Idx(w)] = "write" => run[R(w)].calls[Idx(w)] = "none"
  <2>1. /\ wk' \in [Workers -> WorkerStates]
        /\ Others(w)
        /\ wk'[w] = [wk[w] EXCEPT !.pc = "begin", !.seen = 0, !.tries = 0]
    <3>1. "begin" \in Pcs
      BY DEF Pcs
    <3>. QED
      BY <1>6, <3>1, GotoEffect DEF IInv
  <2>2. /\ wk'[w].run = wk[w].run /\ wk'[w].fence = wk[w].fence
        /\ wk'[w].seen = 0 /\ wk'[w].pc = "begin" /\ wk'[w].idx = wk[w].idx
    BY <1>2, <2>1 DEF WorkerStates
  <2>3. R(w)' = R(w) /\ Idx(w)' = Idx(w)
    BY <2>2 DEF R, Idx
  <2>4. Moved(w)
    BY <1>0, <1>1, <1>2, <1>6, <2>2, <2>3
       DEF Moved, WorkerOK, CasOK, StageOK, Current, IsWrite
  <2>5. TypeOK'
    BY <1>0, <2>1 DEF IInv, TypeOK
  <2>. QED
    BY <1>0, <2>1, <2>4, <2>5, LocalStep
<1>. QED
  BY <1>3, <1>4, <1>5, <1>6 DEF LookupCall

\* The steps that write no row and rest on no reading of it.
LEMMA QuietStepsOK ==
  ASSUME IInv, NEW w \in Workers,
         \/ ReuseSnapshot(w) \/ GuardOwnership(w) \/ HandoffAppends(w)
         \/ FinishUnsafe(w) \/ AgentRaises(w) \/ Fenced(w) \/ Crash(w)
  PROVE  IInv'
<1>0. wk[w].pc # "idle" /\ session \in [Sessions -> Seq(Entries)]
  BY DEF ReuseSnapshot, GuardOwnership, HandoffAppends, FinishUnsafe,
         AgentRaises, Fenced, Crash, Checking, IInv, TypeOK
<1>1. CASE ReuseSnapshot(w)
  BY <1>0, <1>1, Going DEF ReuseSnapshot, Quiet
<1>2. CASE GuardOwnership(w)
  <2>1. PICK p \in {"handoff", "call", "finish"} : Goto(w, p)
    BY <1>2 DEF GuardOwnership
  <2>. QED
    BY <1>0, <1>2, <2>1, Going DEF GuardOwnership, Quiet
<1>3. CASE HandoffAppends(w)
  <2>1. R(w) \in Runs /\ SessionOf[R(w)] \in Sessions
        /\ wk[w].sess \in Seq(Entries)
    BY <1>0, RunAssumption, WorkerTypes DEF IInv, WorkerOK, TypeOK
  <2>2. UserEntry(R(w)) \in Entries
    BY <2>1 DEF UserEntry, Entries
  <2>3. session' \in [Sessions -> Seq(Entries)]
    BY <1>0, <1>3, <2>1, <2>2 DEF HandoffAppends
  <2>. QED
    BY <1>0, <1>3, <2>3, Going DEF HandoffAppends, Quiet
<1>4. CASE FinishUnsafe(w)
  BY <1>0, <1>4, GoingToFail DEF FinishUnsafe, Codes
<1>5. CASE AgentRaises(w)
  BY <1>0, <1>5, GoingToFail DEF AgentRaises, Codes
<1>6. CASE Fenced(w)
  BY <1>0, <1>6, GoingIdle DEF Fenced
<1>7. CASE Crash(w)
  BY <1>0, <1>7, GoingIdle DEF Crash
<1>. QED
  BY <1>1, <1>2, <1>3, <1>4, <1>5, <1>6, <1>7

\* The end of the turn.
LEMMA SaveSessionOK ==
  ASSUME IInv, NEW w \in Workers, SaveSession(w)
  PROVE  IInv'
<1>0. /\ wk[w].pc = "call" /\ wk[w].pc # "idle" /\ wk[w].seen = 0
      /\ UNCHANGED <<run, session, own, sent>>
  BY DEF SaveSession, Proceeds, Checking
<1>1. PICK r \in Runs : R(w) = r
  BY <1>0 DEF IInv, WorkerOK
<1>2. wk[w] \in WorkerStates /\ run[r].version \in Nat /\ "guard2" \in Pcs
  BY RowTypes, WorkerTypes DEF IInv, TypeOK, Pcs
<1>. DEFINE rec == [wk[w] EXCEPT !.pc = "guard2", !.out = TRUE]
<1>3. /\ rec \in WorkerStates /\ rec.seen = 0
      /\ rec.pc = "guard2" /\ rec.run = r /\ rec.fence = wk[w].fence
  BY <1>0, <1>1, <1>2 DEF WorkerStates, R
<1>4. wk' = [wk EXCEPT ![w] = rec]
  BY DEF SaveSession
<1>. HIDE DEF rec
<1>5. wk' \in [Workers -> WorkerStates] /\ Others(w) /\ wk'[w] = rec
  BY <1>3, <1>4 DEF IInv, TypeOK, Others
<1>6. Moved(w)
  BY <1>0, <1>1, <1>2, <1>3, <1>5, QuietMove DEF Quiet
<1>7. TypeOK'
  BY <1>0, <1>5 DEF IInv, TypeOK
<1>. QED
  BY <1>0, <1>5, <1>6, <1>7, LocalStep

\* The hand-over reads the session.
LEMMA HandoffReadsOK ==
  ASSUME IInv, NEW w \in Workers, HandoffReads(w)
  PROVE  IInv'
<1>0. /\ wk[w].pc = "handoff" /\ wk[w].pc # "idle" /\ wk[w].seen = 0
      /\ UNCHANGED <<run, session, own, sent>>
  BY DEF HandoffReads, Proceeds, Checking
<1>1. PICK r \in Runs : R(w) = r
  BY <1>0 DEF IInv, WorkerOK
<1>2. /\ wk[w] \in WorkerStates /\ run[r].version \in Nat /\ "append" \in Pcs
      /\ session[SessionOf[r]] \in Seq(Entries)
  BY RowTypes, WorkerTypes, RunAssumption DEF IInv, TypeOK, Pcs
<1>. DEFINE rec == [wk[w] EXCEPT !.pc = "append",
                                 !.sess = session[SessionOf[r]]]
<1>3. /\ rec \in WorkerStates /\ rec.seen = 0
      /\ rec.pc = "append" /\ rec.run = r /\ rec.fence = wk[w].fence
  BY <1>0, <1>1, <1>2 DEF WorkerStates, R
<1>4. wk' = [wk EXCEPT ![w] = rec]
  BY <1>1 DEF HandoffReads
<1>. HIDE DEF rec
<1>5. wk' \in [Workers -> WorkerStates] /\ Others(w) /\ wk'[w] = rec
  BY <1>3, <1>4 DEF IInv, TypeOK, Others
<1>6. Moved(w)
  BY <1>0, <1>1, <1>2, <1>3, <1>5, QuietMove DEF Quiet
<1>7. TypeOK'
  BY <1>0, <1>5 DEF IInv, TypeOK
<1>. QED
  BY <1>0, <1>5, <1>6, <1>7, LocalStep

-----------------------------------------------------------------------------
(* The operation itself *)

\* One more invocation of the call w stands at; only the holder of the row can
\* stand at a write, so no other worker's knowledge is disturbed.
LEMMA InvokeOK ==
  ASSUME IInv, NEW w \in Workers, wk[w].pc = "op", Invoke(w),
         UNCHANGED <<run, session, own>>,
         wk' \in [Workers -> WorkerStates], Others(w),
         wk'[w].run = wk[w].run, wk'[w].fence = wk[w].fence,
         wk'[w].seen = 0, wk'[w].idx = wk[w].idx,
         \/ wk'[w].pc = "done" /\ wk'[w].result \in {"completed", "unknown"}
         \/ wk'[w].pc = "fail" /\ wk'[w].code # "RUN_CANCELLED"
  PROVE  IInv'
<1>1. PICK r \in Runs : R(w) = r
  BY DEF IInv, WorkerOK
<1>2. PICK c \in Calls : Idx(w) = c
  BY DEF IInv, WorkerOK
<1>3. sent[r] \in [Calls -> Nat] /\ sent[r][c] \in Nat
  BY DEF IInv, TypeOK
<1>4. /\ sent' = [sent EXCEPT ![r] = [sent[r] EXCEPT ![c] = sent[r][c] + 1]]
  BY <1>1, <1>2 DEF Invoke
<1>5. /\ sent' \in [Runs -> [Calls -> Nat]]
      /\ sent'[r][c] = sent[r][c] + 1
      /\ \A q \in Runs, d \in Calls :
           q # r \/ d # c => sent'[q][d] = sent[q][d]
  <2>. DEFINE f == [sent[r] EXCEPT ![c] = sent[r][c] + 1]
  <2>1. /\ f \in [Calls -> Nat] /\ f[c] = sent[r][c] + 1
        /\ \A d \in Calls : d # c => f[d] = sent[r][d]
    BY <1>3
  <2>2. sent' = [sent EXCEPT ![r] = f] /\ sent \in [Runs -> [Calls -> Nat]]
    BY <1>4 DEF IInv, TypeOK
  <2>. HIDE DEF f
  <2>. QED
    BY <2>1, <2>2
<1>6. TypeOK'
  BY <1>5 DEF IInv, TypeOK
<1>7. StageOK(w) /\ WorkerOK(w) /\ JournalOK(r)
  BY DEF IInv
<1>8. IsWrite(c) => /\ sent[r][c] = 0
                    /\ run[r].calls[c] = "in_flight"
                    /\ run[r].fence = wk[w].fence
  BY <1>1, <1>2, <1>7 DEF StageOK
<1>9. ASSUME NEW q \in Runs PROVE JournalOK(q)' /\ RowOK(q)'
  <2>1. RowOK(q)' /\ JournalOK(q)
    BY <1>9 DEF IInv, RowOK, Unsafe
  <2>2. JournalOK(q)'
    BY <2>1, <1>3, <1>5, <1>8 DEF JournalOK
  <2>. QED
    BY <2>1, <2>2
<1>10. R(w)' = r /\ Idx(w)' = c
  BY <1>1, <1>2 DEF R, Idx
<1>11. WorkerOK(w)' /\ CasOK(w)' /\ StageOK(w)'
  <2>1. run[r].version \in Nat
    BY RowTypes DEF IInv, TypeOK
  <2>2. WorkerOK(w)'
    BY <2>1, <1>1, <1>2, <1>7, <1>10 DEF WorkerOK
  <2>3. CasOK(w)' /\ StageOK(w)'
    BY <1>8, <1>10 DEF CasOK, StageOK, Current
  <2>. QED
    BY <2>2, <2>3
<1>12. Moved(w)
  BY <1>1, <1>10, <1>11 DEF Moved
<1>13. ASSUME NEW v \in Workers PROVE WorkerOK(v)' /\ CasOK(v)' /\ StageOK(v)'
  <2>1. CASE v = w
    BY <2>1, <1>11
  <2>2. CASE v # w
    <3>1. wk'[v] = wk[v] /\ R(v)' = R(v) /\ Idx(v)' = Idx(v)
      BY <2>2 DEF Others, R, Idx
    <3>2. WorkerOK(v) /\ CasOK(v) /\ StageOK(v) /\ FenceOK(v, w)
      BY <1>13 DEF IInv
    <3>3. WorkerOK(v)' /\ CasOK(v)'
      BY <3>1, <3>2 DEF WorkerOK, CasOK, Current, Holder, Unsafe
    <3>4. wk[v].pc = "op" /\ IsWrite(Idx(v))
          => R(v) \in Runs /\ Idx(v) \in Calls /\ (R(v) # r \/ Idx(v) # c)
      BY <2>2, <3>2, <1>1, <1>2, <1>8 DEF WorkerOK, StageOK, FenceOK
    <3>5. StageOK(v)'
      BY <3>1, <3>2, <3>4, <1>5 DEF StageOK, Holder
    <3>. QED
      BY <3>3, <3>5
  <2>. QED
    BY <2>1, <2>2
<1>. QED
  BY <1>6, <1>9, <1>12, <1>13, FencesKept DEF IInv

\* The operation answers or raises.
LEMMA OperationOK ==
  ASSUME IInv, NEW w \in Workers, OperationReturns(w) \/ OperationRaises(w)
  PROVE  IInv'
<1>0. /\ wk[w].pc = "op" /\ Invoke(w) /\ UNCHANGED <<run, session, own>>
      /\ wk[w] \in WorkerStates /\ WorkerOK(w)
  BY DEF OperationReturns, OperationRaises, IInv, TypeOK
<1>1. CASE OperationReturns(w)
  <2>1. PICK res \in {"completed", "unknown"} :
          wk' = [wk EXCEPT ![w].pc = "done", ![w].result = res]
    BY <1>1 DEF OperationReturns
  <2>. DEFINE rec == [wk[w] EXCEPT !.pc = "done", !.result = res]
  <2>2. "done" \in Pcs /\ res \in CallStates /\ wk[w].seen = 0
    BY <1>0 DEF Pcs, CallStates, WorkerOK
  <2>3. /\ rec \in WorkerStates /\ rec.pc = "done" /\ rec.result = res
        /\ rec.run = wk[w].run /\ rec.fence = wk[w].fence
        /\ rec.seen = 0 /\ rec.idx = wk[w].idx
    BY <1>0, <2>2 DEF WorkerStates
  <2>4. wk' = [wk EXCEPT ![w] = rec]
    BY <2>1
  <2>. HIDE DEF rec
  <2>5. wk' \in [Workers -> WorkerStates] /\ Others(w) /\ wk'[w] = rec
    BY <2>3, <2>4 DEF IInv, TypeOK, Others
  <2>. QED
    BY <1>0, <2>3, <2>5, InvokeOK
<1>2. CASE OperationRaises(w)
  <2>1. PICK c \in {"TRANSIENT_ERROR", "EXECUTION_ERROR"} : GoFail(w, c)
    BY <1>2 DEF OperationRaises
  <2>2. /\ wk' \in [Workers -> WorkerStates]
        /\ Others(w)
        /\ wk'[w] = [wk[w] EXCEPT !.pc = "fail", !.seen = 0, !.tries = 0,
                                  !.code = c]
    <3>1. c \in Codes
      BY DEF Codes
    <3>. QED
      BY <2>1, <3>1, GoFailEffect DEF IInv
  <2>3. /\ wk'[w].pc = "fail" /\ wk'[w].code = c
        /\ wk'[w].run = wk[w].run /\ wk'[w].fence = wk[w].fence
        /\ wk'[w].seen = 0 /\ wk'[w].idx = wk[w].idx
    BY <1>0, <2>2 DEF WorkerStates
  <2>. QED
    BY <1>0, <2>2, <2>3, InvokeOK
<1>. QED
  BY <1>1, <1>2

-----------------------------------------------------------------------------
(* Commits: the holder changes its row *)

\* A commit that leaves the journal alone and ends the claim or moves on.
LEMMA PlainCommit ==
  ASSUME IInv, NEW w \in Workers, NEW r \in Runs, R(w) = r, Current(w),
         wk[w].pc # "idle", NEW row \in Rows,
         run' = [run EXCEPT ![r] = [row EXCEPT !.version = run[r].version + 1]],
         row.fence = run[r].fence,
         row.calls = run[r].calls,
         row.writeStarted = run[r].writeStarted,
         row.status = "cancelled" => ~run[r].writeStarted,
         Unsafe(r) => row.status \in {"running", "needs_reconciliation"},
         session' \in [Sessions -> Seq(Entries)], UNCHANGED <<own, sent>>,
         GoIdle(w) \/ \E p \in Quiet : Goto(w, p)
  PROVE  IInv'
<1>1. /\ run' \in [Runs -> Rows]
      /\ OtherRows(r)
      /\ run'[r].version = run[r].version + 1
      /\ run'[r].status = row.status
      /\ run'[r].fence = run[r].fence
      /\ run'[r].calls = run[r].calls
      /\ run'[r].writeStarted = run[r].writeStarted
  BY ChangeEffect DEF IInv
<1>2. JournalOK(r)' /\ RowOK(r)'
  <2>1. JournalOK(r) /\ RowOK(r)
    BY DEF IInv
  <2>. QED
    BY <1>1, <2>1 DEF JournalOK, RowOK, Unsafe
<1>3. /\ wk' \in [Workers -> WorkerStates] /\ Others(w) /\ Moved(w)
  <2>1. CASE GoIdle(w)
    BY <2>1, GoIdleEffect DEF IInv
  <2>2. ASSUME NEW p \in Quiet, Goto(w, p)
        PROVE  wk' \in [Workers -> WorkerStates] /\ Others(w) /\ Moved(w)
    <3>0. p \in Pcs /\ wk[w] \in WorkerStates
      BY DEF Quiet, Pcs, IInv, TypeOK
    <3>1. /\ wk' \in [Workers -> WorkerStates] /\ Others(w)
          /\ wk'[w] = [wk[w] EXCEPT !.pc = p, !.seen = 0, !.tries = 0]
      BY <2>2, <3>0, GotoEffect DEF IInv
    <3>2. /\ wk'[w].run = r /\ wk'[w].fence = wk[w].fence
          /\ wk'[w].seen = 0 /\ wk'[w].pc = p
      BY <3>0, <3>1 DEF WorkerStates, R
    <3>3. run'[r].version \in Nat
      BY <1>1, RowTypes
    <3>. QED
      BY <1>1, <3>1, <3>2, <3>3, QuietMove
  <2>. QED
    BY <2>1, <2>2
<1>4. TypeOK'
  BY <1>1, <1>3 DEF IInv, TypeOK
<1>. QED
  BY <1>1, <1>2, <1>3, <1>4, CommitStep

\* The snapshot of the session enters the row.
LEMMA StoreSnapshotOK ==
  ASSUME IInv, NEW w \in Workers, StoreSnapshot(w)
  PROVE  IInv'
<1>0. /\ wk[w].pc # "idle" /\ Current(w) /\ Goto(w, "guard1")
      /\ UNCHANGED <<session, own, sent>>
      /\ session \in [Sessions -> Seq(Entries)]
  BY DEF StoreSnapshot, IInv, TypeOK
<1>1. PICK r \in Runs : R(w) = r
  BY <1>0 DEF IInv, WorkerOK
<1>2. run[r] \in Rows /\ wk[w].sess \in Seq(Entries) /\ CasOK(w) /\ RowOK(r)
  BY RowTypes, WorkerTypes DEF IInv, TypeOK
<1>. DEFINE row == [run[r] EXCEPT !.snapped = TRUE, !.snap = wk[w].sess]
<1>3. /\ row \in Rows /\ row.fence = run[r].fence /\ row.calls = run[r].calls
      /\ row.writeStarted = run[r].writeStarted /\ row.status = run[r].status
  BY <1>2 DEF Rows
<1>4. run' = [run EXCEPT ![r] = [row EXCEPT !.version = run[r].version + 1]]
  BY <1>1 DEF StoreSnapshot, Change
<1>. HIDE DEF row
<1>. QED
  BY <1>0, <1>1, <1>2, <1>3, <1>4, PlainCommit DEF Quiet, RowOK

\* The hand-over is recorded.
LEMMA HandoffMarksOK ==
  ASSUME IInv, NEW w \in Workers, HandoffMarks(w)
  PROVE  IInv'
<1>0. /\ wk[w].pc # "idle" /\ Current(w) /\ Goto(w, "finish")
      /\ UNCHANGED <<session, own, sent>>
      /\ session \in [Sessions -> Seq(Entries)]
  BY DEF HandoffMarks, IInv, TypeOK
<1>1. PICK r \in Runs : R(w) = r
  BY <1>0 DEF IInv, WorkerOK
<1>2. run[r] \in Rows /\ RowOK(r)
  BY RowTypes DEF IInv, TypeOK
<1>. DEFINE row == [run[r] EXCEPT !.handoff = TRUE]
<1>3. /\ row \in Rows /\ row.fence = run[r].fence /\ row.calls = run[r].calls
      /\ row.writeStarted = run[r].writeStarted /\ row.status = run[r].status
  BY <1>2 DEF Rows
<1>4. run' = [run EXCEPT ![r] = [row EXCEPT !.version = run[r].version + 1]]
  BY <1>1 DEF HandoffMarks, Change
<1>. HIDE DEF row
<1>. QED
  BY <1>0, <1>1, <1>2, <1>3, <1>4, PlainCommit DEF Quiet, RowOK

\* _fail: the status after an error.
LEMMA FailOK ==
  ASSUME IInv, NEW w \in Workers, Fail(w)
  PROVE  IInv'
<1>0. /\ wk[w].pc = "fail" /\ wk[w].pc # "idle" /\ Current(w) /\ GoIdle(w)
      /\ UNCHANGED <<session, own, sent>>
      /\ session \in [Sessions -> Seq(Entries)]
  BY DEF Fail, IInv, TypeOK
<1>1. PICK r \in Runs : R(w) = r
  BY <1>0 DEF IInv, WorkerOK
<1>2. run[r] \in Rows /\ CasOK(w) /\ StageOK(w)
  BY RowTypes DEF IInv, TypeOK
<1>. DEFINE status == StatusAfter(r, wk[w].code)
<1>3. /\ status \in {"needs_reconciliation", "cancelled", "retry_wait",
                     "dead_letter"}
      /\ Unsafe(r) => status = "needs_reconciliation"
      /\ status = "cancelled" => ~run[r].writeStarted
  BY <1>0, <1>1, <1>2 DEF StatusAfter, CasOK, StageOK
<1>4. PICK k \in {"none", "requested", "acknowledged", "too_late"} :
        run' = [run EXCEPT ![r] =
                  [[run[r] EXCEPT !.status = status, !.leased = FALSE,
                                  !.cancel = k]
                   EXCEPT !.version = run[r].version + 1]]
  <2>1. run[r].cancel \in {"none", "requested", "acknowledged", "too_late"}
    BY <1>2 DEF Rows
  <2>2. CASE status = "cancelled"
    BY <1>1, <2>2 DEF Fail, Change
  <2>3. CASE status # "cancelled"
    BY <1>1, <2>1, <2>3 DEF Fail, Change
  <2>. QED
    BY <2>2, <2>3
<1>. DEFINE row == [run[r] EXCEPT !.status = status, !.leased = FALSE,
                                  !.cancel = k]
<1>. HIDE DEF status
<1>5. /\ row \in Rows /\ row.fence = run[r].fence /\ row.calls = run[r].calls
      /\ row.writeStarted = run[r].writeStarted /\ row.status = status
  <2>1. status \in Statuses
    BY <1>3 DEF Statuses, ACTIVE, TERMINAL
  <2>. QED
    BY <1>2, <2>1 DEF Rows
<1>6. run' = [run EXCEPT ![r] = [row EXCEPT !.version = run[r].version + 1]]
  BY <1>4
<1>. HIDE DEF row
<1>. QED
  BY <1>0, <1>1, <1>3, <1>5, <1>6, PlainCommit

\* _finish: the answer is committed, or the session has changed.
LEMMA FinishOK ==
  ASSUME IInv, NEW w \in Workers, Finish(w)
  PROVE  IInv'
<1>0. /\ wk[w].pc = "finish" /\ wk[w].pc # "idle" /\ Current(w)
      /\ UNCHANGED <<own, sent>>
      /\ session \in [Sessions -> Seq(Entries)]
  BY DEF Finish, IInv, TypeOK
<1>1. CASE GoFail(w, "SESSION_CHANGED") /\ UNCHANGED <<run, session>>
  BY <1>0, <1>1, GoingToFail DEF Codes
<1>2. ASSUME NEW sup \in BOOLEAN, NEW wr \in BOOLEAN, Completed(w, sup, wr)
      PROVE  IInv'
  <2>1. PICK r \in Runs : R(w) = r
    BY <1>0 DEF IInv, WorkerOK
  <2>2. run[r] \in Rows /\ CasOK(w) /\ run[r].snap \in Seq(Entries)
    BY RowTypes DEF IInv, TypeOK
  <2>3. ~Unsafe(r)
    BY <1>0, <2>1, <2>2 DEF CasOK
  <2>4. PICK k \in {"none", "requested", "acknowledged", "too_late"},
             y \in {"published", "suppressed"} :
          run' = [run EXCEPT ![r] =
                    [[run[r] EXCEPT !.status = "completed", !.leased = FALSE,
                                    !.cancel = k, !.reply = y]
                     EXCEPT !.version = run[r].version + 1]]
    <3>1. run[r].cancel \in {"none", "requested", "acknowledged", "too_late"}
      BY <2>2 DEF Rows
    <3>2. CASE run[r].cancel = "requested" /\ sup
      BY <1>2, <2>1, <3>2 DEF Completed, Change
    <3>3. CASE run[r].cancel = "requested" /\ ~sup
      BY <1>2, <2>1, <3>3 DEF Completed, Change
    <3>4. CASE run[r].cancel # "requested" /\ sup
      BY <1>2, <2>1, <3>1, <3>4 DEF Completed, Change
    <3>5. CASE run[r].cancel # "requested" /\ ~sup
      BY <1>2, <2>1, <3>1, <3>5 DEF Completed, Change
    <3>. QED
      BY <3>2, <3>3, <3>4, <3>5
  <2>. DEFINE row == [run[r] EXCEPT !.status = "completed", !.leased = FALSE,
                                    !.cancel = k, !.reply = y]
  <2>5. /\ row \in Rows /\ row.fence = run[r].fence /\ row.calls = run[r].calls
        /\ row.writeStarted = run[r].writeStarted /\ row.status = "completed"
    BY <2>2 DEF Rows, Statuses, TERMINAL
  <2>6. run' = [run EXCEPT ![r] = [row EXCEPT !.version = run[r].version + 1]]
    BY <2>4
  <2>7. session' \in [Sessions -> Seq(Entries)]
    <3>1. TurnEntry(r) \in Entries
      BY DEF TurnEntry, Entries
    <3>2. Append(run[r].snap, TurnEntry(r)) \in Seq(Entries)
      BY <2>2, <3>1
    <3>. QED
      BY <1>0, <1>2, <2>1, <3>2 DEF Completed
  <2>. HIDE DEF row
  <2>. QED
    BY <1>0, <1>2, <2>1, <2>3, <2>5, <2>6, <2>7, PlainCommit DEF Completed
<1>3. CASE \E sup, wr \in BOOLEAN : Completed(w, sup, wr)
  BY <1>2, <1>3
<1>. QED
  <2>. DEFINE wr == wk[w].out /\ (Lost(R(w)) => run[R(w)].handoff)
              sup == Lost(R(w)) \/ run[R(w)].handoff
  <2>1. wr \in BOOLEAN /\ sup \in BOOLEAN
    OBVIOUS
  <2>. QED
    BY <2>1, <1>1, <1>3 DEF Finish

\* call.started: the write that enters the journal was neither journaled nor
\* invoked before, because the holder found "none" when it looked it up.
LEMMA BeginCallOK ==
  ASSUME IInv, NEW w \in Workers, BeginCall(w)
  PROVE  IInv'
<1>0. /\ wk[w].pc = "begin" /\ wk[w].pc # "idle" /\ WorkerOK(w) /\ CasOK(w)
      /\ StageOK(w) /\ UNCHANGED <<session, own, sent>>
      /\ session \in [Sessions -> Seq(Entries)] /\ wk[w] \in WorkerStates
  BY DEF BeginCall, IInv, TypeOK
<1>1. PICK r \in Runs : R(w) = r
  BY <1>0 DEF WorkerOK
<1>2. PICK c \in Calls : Idx(w) = c
  BY <1>0 DEF WorkerOK
<1>3. CASE Goto(w, "handoff") /\ UNCHANGED run
  BY <1>0, <1>3, Going DEF Quiet
<1>4. CASE /\ Current(w) /\ Goto(w, "op")
           /\ Change(r, [run[r] EXCEPT
                           !.calls = [run[r].calls EXCEPT ![c] = "in_flight"],
                           !.writeStarted = run[r].writeStarted
                                            \/ Kind[c] = "write"])
  <2>. DEFINE journal == [run[r].calls EXCEPT ![c] = "in_flight"]
              started == run[r].writeStarted \/ Kind[c] = "write"
  <2>1. /\ run[r] \in Rows /\ run[r].calls \in [Calls -> CallStates]
        /\ run[r].writeStarted \in BOOLEAN
    BY RowTypes DEF IInv, TypeOK
  <2>2. /\ journal \in [Calls -> CallStates] /\ journal[c] = "in_flight"
        /\ \A d \in Calls : d # c => journal[d] = run[r].calls[d]
    BY <2>1 DEF CallStates
  <2>3. /\ started \in BOOLEAN
        /\ run[r].writeStarted => started
        /\ IsWrite(c) => started
    BY DEF IsWrite
  <2>4. run' = [run EXCEPT ![r] =
                  [[run[r] EXCEPT !.calls = journal, !.writeStarted = started]
                   EXCEPT !.version = run[r].version + 1]]
    BY <1>4 DEF Change
  <2>. HIDE DEF journal, started
  <2>. DEFINE row == [run[r] EXCEPT !.calls = journal, !.writeStarted = started]
  <2>5. /\ row \in Rows /\ row.fence = run[r].fence /\ row.calls = journal
        /\ row.writeStarted = started /\ row.status = run[r].status
    BY <2>1, <2>2, <2>3 DEF Rows
  <2>6. run' = [run EXCEPT ![r] = [row EXCEPT !.version = run[r].version + 1]]
    BY <2>4
  <2>. HIDE DEF row
  <2>7. /\ run' \in [Runs -> Rows] /\ OtherRows(r)
        /\ run'[r].version = run[r].version + 1
        /\ run'[r].status = run[r].status
        /\ run'[r].fence = run[r].fence
        /\ run'[r].calls = journal
        /\ run'[r].writeStarted = started
    BY <2>5, <2>6, ChangeEffect DEF IInv
  <2>8. Holder(w) /\ run[r].status = "running" /\ run[r].fence = wk[w].fence
    BY <1>0, <1>1, <1>4 DEF CasOK, Holder
  <2>9. IsWrite(c) => run[r].calls[c] = "none" /\ sent[r][c] = 0
    BY <1>0, <1>1, <1>2, <2>8 DEF IInv, StageOK, JournalOK
  <2>10. JournalOK(r)' /\ RowOK(r)'
    <3>1. JournalOK(r)
      BY DEF IInv
    <3>2. JournalOK(r)'
      BY <1>0, <2>2, <2>3, <2>7, <2>9, <3>1 DEF JournalOK
    <3>. QED
      BY <2>7, <2>8, <3>2 DEF RowOK
  <2>11. /\ wk' \in [Workers -> WorkerStates] /\ Others(w)
         /\ wk'[w].pc = "op" /\ wk'[w].seen = 0 /\ wk'[w].run = r
         /\ wk'[w].fence = wk[w].fence /\ wk'[w].idx = c
    <3>1. "op" \in Pcs
      BY DEF Pcs
    <3>2. /\ wk' \in [Workers -> WorkerStates] /\ Others(w)
          /\ wk'[w] = [wk[w] EXCEPT !.pc = "op", !.seen = 0, !.tries = 0]
      BY <1>4, <3>1, GotoEffect DEF IInv
    <3>. QED
      BY <1>0, <1>1, <1>2, <3>2 DEF WorkerStates, R, Idx
  <2>12. R(w)' = r /\ Idx(w)' = c
    BY <2>11 DEF R, Idx
  <2>13. Moved(w)
    <3>1. WorkerOK(w)'
      <4>1. run'[r].version \in Nat /\ wk[w].fence <= run[r].fence
        BY <1>0, <1>1, <2>7, RowTypes DEF WorkerOK
      <4>. QED
        BY <2>7, <2>11, <2>12, <4>1 DEF WorkerOK
    <3>2. CasOK(w)'
      BY <2>11 DEF CasOK, Current
    <3>3. StageOK(w)'
      BY <1>0, <2>2, <2>7, <2>8, <2>9, <2>11, <2>12 DEF StageOK
    <3>. QED
      BY <1>1, <2>11, <2>12, <3>1, <3>2, <3>3 DEF Moved
  <2>14. TypeOK'
    BY <1>0, <2>7, <2>11 DEF IInv, TypeOK
  <2>. QED
    BY <1>0, <1>1, <1>4, <2>7, <2>10, <2>11, <2>13, <2>14, CommitStep
<1>. QED
  BY <1>0, <1>1, <1>2, <1>3, <1>4 DEF BeginCall

\* call.completed: the outcome replaces "in_flight"; it is never "none".
LEMMA CompleteCallOK ==
  ASSUME IInv, NEW w \in Workers, CompleteCall(w)
  PROVE  IInv'
<1>0. /\ wk[w].pc = "done" /\ wk[w].pc # "idle" /\ WorkerOK(w) /\ CasOK(w)
      /\ StageOK(w) /\ Current(w) /\ UNCHANGED <<session, own, sent>>
      /\ wk[w] \in WorkerStates /\ wk[w].idx \in Nat
  BY WorkerTypes DEF CompleteCall, IInv, TypeOK
<1>1. PICK r \in Runs : R(w) = r
  BY <1>0 DEF WorkerOK
<1>2. PICK c \in Calls : Idx(w) = c
  BY <1>0 DEF WorkerOK
<1>. DEFINE journal == [run[r].calls EXCEPT ![c] = wk[w].result]
<1>3. /\ run[r] \in Rows /\ run[r].calls \in [Calls -> CallStates]
      /\ wk[w].result \in {"completed", "unknown"}
  BY <1>0, RowTypes DEF IInv, TypeOK, WorkerOK
<1>4. /\ journal \in [Calls -> CallStates] /\ journal[c] # "none"
      /\ \A d \in Calls : d # c => journal[d] = run[r].calls[d]
  BY <1>3 DEF CallStates
<1>5. run' = [run EXCEPT ![r] = [[run[r] EXCEPT !.calls = journal]
                                 EXCEPT !.version = run[r].version + 1]]
  BY <1>1, <1>2 DEF CompleteCall, Change
<1>. HIDE DEF journal
<1>. DEFINE row == [run[r] EXCEPT !.calls = journal]
<1>6. /\ row \in Rows /\ row.fence = run[r].fence /\ row.calls = journal
      /\ row.writeStarted = run[r].writeStarted /\ row.status = run[r].status
  BY <1>3, <1>4 DEF Rows
<1>. HIDE DEF row
<1>7. /\ run' \in [Runs -> Rows] /\ OtherRows(r)
      /\ run'[r].version = run[r].version + 1
      /\ run'[r].status = run[r].status
      /\ run'[r].fence = run[r].fence
      /\ run'[r].calls = journal
      /\ run'[r].writeStarted = run[r].writeStarted
  <2>1. run' = [run EXCEPT ![r] = [row EXCEPT !.version = run[r].version + 1]]
    BY <1>5 DEF row
  <2>. QED
    BY <1>6, <2>1, ChangeEffect DEF IInv
<1>8. Holder(w) /\ run[r].status = "running"
  BY <1>0, <1>1 DEF CasOK, Holder
<1>9. IsWrite(c) => run[r].calls[c] # "none"
  BY <1>0, <1>1, <1>2, <1>8 DEF StageOK
<1>10. JournalOK(r)' /\ RowOK(r)'
  <2>1. JournalOK(r)
    BY DEF IInv
  <2>2. JournalOK(r)'
    BY <1>0, <1>4, <1>7, <1>9, <2>1 DEF JournalOK
  <2>. QED
    BY <1>7, <1>8, <2>2 DEF RowOK
<1>. DEFINE rec == [wk[w] EXCEPT !.pc = "call", !.seen = 0, !.tries = 0,
                                 !.idx = wk[w].idx + 1]
<1>11. /\ rec \in WorkerStates /\ rec.pc = "call" /\ rec.seen = 0
       /\ rec.run = r /\ rec.fence = wk[w].fence
  <2>1. "call" \in Pcs /\ wk[w].idx + 1 \in Nat
    BY <1>0 DEF Pcs
  <2>. QED
    BY <1>0, <1>1, <2>1 DEF WorkerStates, R
<1>12. wk' = [wk EXCEPT ![w] = rec]
  BY DEF CompleteCall
<1>. HIDE DEF rec
<1>13. wk' \in [Workers -> WorkerStates] /\ Others(w) /\ wk'[w] = rec
  BY <1>11, <1>12 DEF IInv, TypeOK, Others
<1>14. Moved(w)
  <2>1. run'[r].version \in Nat
    BY <1>7, RowTypes
  <2>. QED
    BY <1>0, <1>1, <1>7, <1>11, <1>13, <2>1, QuietMove DEF Quiet
<1>15. TypeOK'
  BY <1>0, <1>7, <1>13 DEF IInv, TypeOK
<1>. QED
  BY <1>0, <1>1, <1>7, <1>10, <1>13, <1>14, <1>15, CommitStep

-----------------------------------------------------------------------------
(* The invariant holds for ever, and what follows from it *)

\* Empty tables and idle workers satisfy every part of the invariant.
LEMMA InitOK == Init => IInv
<1>. SUFFICES ASSUME Init PROVE IInv
  OBVIOUS
<1>1. /\ \A r \in Runs : run[r] = AbsentRow
      /\ \A w \in Workers : wk[w] = IdleWorker
      /\ \A r \in Runs, c \in Calls : sent[r][c] = 0
  BY DEF Init
<1>2. AbsentRow \in Rows
  <2>1. <<>> \in Seq(Entries) /\ [c \in Calls |-> "none"] \in [Calls -> CallStates]
    BY DEF CallStates
  <2>. QED
    BY <2>1 DEF AbsentRow, Rows, Statuses
<1>3. TypeOK
  <2>1. <<>> \in Seq(Entries)
    OBVIOUS
  <2>. QED
    BY <1>2, <2>1, IdleTyped DEF Init, TypeOK
<1>4. ASSUME NEW r \in Runs PROVE JournalOK(r) /\ RowOK(r)
  <2>1. /\ run[r].status = "absent"
        /\ \A c \in Calls : run[r].calls[c] = "none"
    BY <1>1 DEF AbsentRow
  <2>. QED
    BY <1>1, <2>1 DEF JournalOK, RowOK, Unsafe
<1>5. ASSUME NEW w \in Workers
      PROVE  /\ WorkerOK(w) /\ CasOK(w) /\ StageOK(w)
             /\ wk[w].pc = "idle"
  <2>1. wk[w].pc = "idle" /\ wk[w].seen = 0
    BY <1>1, IdleTyped
  <2>. QED
    BY <2>1 DEF WorkerOK, CasOK, StageOK, Current
<1>. QED
  BY <1>3, <1>4, <1>5 DEF IInv, FenceOK

\* Every step, one lemma per action, preserves it.
LEMMA NextOK == IInv /\ [Next]_vars => IInv'
<1>. SUFFICES ASSUME IInv, [Next]_vars PROVE IInv'
  OBVIOUS
<1>1. ASSUME NEW r \in Runs,
             Submit(r) \/ Cancel(r) \/ Replay(r) \/ LeaseExpires(r)
      PROVE  IInv'
  BY <1>1, SubmitOK, CancelOK, ReplayOK, LeaseExpiresOK
<1>2. ASSUME NEW s \in Sessions, TakeOver(s) \/ Release(s) \/ DeleteSession(s)
      PROVE  IInv'
  BY <1>2, ApiOK
<1>3. ASSUME NEW w \in Workers, WorkerStep(w)
      PROVE  IInv'
  BY <1>3, QuietStepsOK, InterruptedOK, ReadRowOK, ConflictOK, StoreSnapshotOK,
     LookupCallOK, BeginCallOK, OperationOK, CompleteCallOK, SaveSessionOK,
     FinishOK, HandoffReadsOK, HandoffMarksOK, FailOK DEF WorkerStep
<1>4. ASSUME NEW w \in Workers, AgentRaises(w) \/ Heartbeat(w) \/ Crash(w)
      PROVE  IInv'
  BY <1>4, QuietStepsOK, HeartbeatOK
<1>5. ASSUME NEW w \in Workers, NEW r \in Runs, Poll(w, r)
      PROVE  IInv'
  BY <1>5, SweepOK, ClaimOK DEF Poll
<1>6. CASE UNCHANGED vars
  <2>1. TypeOK'
    BY <1>6 DEF IInv, TypeOK, vars
  <2>. QED
    BY <1>6, <2>1, AsideOK DEF vars
<1>. QED
  BY <1>1, <1>2, <1>3, <1>4, <1>5, <1>6 DEF Next

\* Whatever the number of workers, runs and calls and however they interleave,
\* crash, lose leases and are retried, the journal, the fencing tokens and the
\* stages of the workers agree (RunRepository.change, claim, RunContext.call).
THEOREM InvariantHolds == Spec => []IInv
<1>1. Init => IInv
  BY InitOK
<1>2. IInv /\ [Next]_vars => IInv'
  BY NextOK
<1>. QED
  BY <1>1, <1>2, PTL DEF Spec

\* The tables and the workers' locals keep their types.
THEOREM TypeCorrect == Spec => []TypeOK
<1>1. IInv => TypeOK
  BY DEF IInv
<1>. QED
  BY <1>1, InvariantHolds, PTL

\* A write call of a run is invoked at most once, over all crashes, lease
\* losses, retries and replays (RunContext.call).
THEOREM AtMostOnce == Spec => []WritesSentAtMostOnce
<1>1. IInv => WritesSentAtMostOnce
  BY DEF IInv, JournalOK, IsWrite, WritesSentAtMostOnce
<1>. QED
  BY <1>1, InvariantHolds, PTL

\* A registered write that was not yet invoked belongs to the holder of the row,
\* or the row is parked (RunRepository.claim with an unsafe journal).
THEOREM OutstandingIsolated == Spec => []OutstandingWriteIsIsolated
<1>1. IInv => OutstandingWriteIsIsolated
  BY DEF IInv, StageOK, IsWrite, OutstandingWriteIsIsolated
<1>. QED
  BY <1>1, InvariantHolds, PTL

\* A write of unknown outcome keeps the run out of every status in which it
\* would be answered, retried, replayed or cancelled (RunRepository.unsafe).
THEOREM UnknownNeverSettles == Spec => []UnknownWriteNeverSettles
<1>1. IInv => UnknownWriteNeverSettles
  BY DEF IInv, RowOK, UnknownWriteNeverSettles
<1>. QED
  BY <1>1, InvariantHolds, PTL

\* An acknowledged cancellation means that no write went out, although a cancel
\* request races the registration of the write (RunRepository.cancel, check).
THEOREM CancelledIsClean == Spec => []CancelledSentNothing
<1>1. IInv => CancelledSentNothing
  <2>. SUFFICES ASSUME IInv, NEW r \in Runs, run[r].status = "cancelled",
                       NEW c \in Calls, IsWrite(c)
                PROVE  sent[r][c] = 0
    BY DEF CancelledSentNothing, IsWrite
  <2>1. JournalOK(r) /\ RowOK(r)
    BY DEF IInv
  <2>. QED
    BY <2>1 DEF JournalOK, RowOK
<1>. QED
  BY <1>1, InvariantHolds, PTL

-----------------------------------------------------------------------------
(* How a status and a reply may move *)

\* The row of r moves along an edge of the run's life cycle, an answer is
\* published only while the Agent still owns the conversation, a completed row
\* keeps its answer, and a snapshot is what a worker has read.
RowMove(r) ==
  /\ \/ run'[r].status = run[r].status
     \/ /\ run[r].status = "absent"
        /\ \A q \in Runs : SessionOf[q] = SessionOf[r]
                           => run[q].status \notin ACTIVE
     \/ run[r].status \in {"queued", "retry_wait", "running"}
     \/ run[r].status = "dead_letter" /\ run'[r].status \in {"queued", "cancelled"}
  /\ \/ run'[r].reply = run[r].reply
     \/ run'[r].reply = "suppressed"
     \/ ~Lost(r)
  /\ run[r].status = "completed" =>
       /\ run'[r].status = "completed"
       /\ run'[r].reply = run[r].reply
       /\ run'[r].handoff = run[r].handoff
  /\ \/ run'[r].snap = run[r].snap
     \/ \E w \in Workers : run'[r].snap = wk[w].sess

\* One step moves one row at most.
OneRowMoves == \E r \in Runs : OtherRows(r) /\ RowMove(r)

\* The holder's commits leave "running"; only Finish publishes.
LEMMA CommitMoves ==
  ASSUME IInv, NEW w \in Workers,
         \/ StoreSnapshot(w) \/ HandoffMarks(w) \/ CompleteCall(w) \/ Fail(w)
         \/ BeginCall(w) /\ ~UNCHANGED run
  PROVE  OneRowMoves
<1>0. wk[w].pc # "idle" /\ Current(w) /\ CasOK(w) /\ WorkerOK(w)
  <2>1. Current(w)
    BY DEF StoreSnapshot, HandoffMarks, CompleteCall, Fail, BeginCall
  <2>. QED
    BY <2>1 DEF IInv, WorkerOK, Current
<1>1. PICK r \in Runs : R(w) = r
  BY <1>0 DEF WorkerOK
<1>2. run[r] \in Rows /\ run[r].status = "running"
  BY <1>0, <1>1, RowTypes DEF IInv, TypeOK, CasOK, Holder
<1>3. /\ run'[r].reply = run[r].reply /\ OtherRows(r)
      /\ run'[r].snap = run[r].snap \/ run'[r].snap = wk[w].sess
  <2>1. CASE StoreSnapshot(w)
    BY <2>1, <1>1, <1>2 DEF StoreSnapshot, Change, IInv, TypeOK, Rows, OtherRows
  <2>2. CASE HandoffMarks(w)
    BY <2>2, <1>1, <1>2 DEF HandoffMarks, Change, IInv, TypeOK, Rows, OtherRows
  <2>3. CASE CompleteCall(w)
    BY <2>3, <1>1, <1>2 DEF CompleteCall, Change, IInv, TypeOK, Rows, OtherRows
  <2>4. CASE Fail(w)
    BY <2>4, <1>1, <1>2 DEF Fail, Change, IInv, TypeOK, Rows, OtherRows
  <2>5. CASE BeginCall(w) /\ ~UNCHANGED run
    <3>1. PICK j, b : run' = [run EXCEPT ![r] =
                                [[run[r] EXCEPT !.calls = j, !.writeStarted = b]
                                 EXCEPT !.version = run[r].version + 1]]
      BY <2>5, <1>1 DEF BeginCall, Change
    <3>. QED
      BY <3>1, <1>2 DEF IInv, TypeOK, Rows, OtherRows
  <2>. QED
    BY <2>1, <2>2, <2>3, <2>4, <2>5
<1>. QED
  BY <1>2, <1>3 DEF OneRowMoves, RowMove

\* The completion publishes only while the Agent owns the conversation.
LEMMA FinishMoves ==
  ASSUME IInv, NEW w \in Workers, Finish(w), ~UNCHANGED run
  PROVE  OneRowMoves
<1>0. wk[w].pc # "idle" /\ Current(w) /\ CasOK(w) /\ WorkerOK(w)
  BY DEF Finish, IInv
<1>1. PICK r \in Runs : R(w) = r
  BY <1>0 DEF WorkerOK
<1>2. run[r] \in Rows /\ run[r].status = "running"
  BY <1>0, <1>1, RowTypes DEF IInv, TypeOK, CasOK, Holder
<1>3. /\ OtherRows(r) /\ (run'[r].reply = "suppressed" \/ ~Lost(r))
      /\ run'[r].snap = run[r].snap
  <2>. DEFINE sup == Lost(r) \/ run[r].handoff
              k == IF run[r].cancel = "requested" THEN "too_late"
                   ELSE run[r].cancel
              y == IF sup THEN "suppressed" ELSE "published"
  <2>1. run' = [run EXCEPT ![r] =
                  [[run[r] EXCEPT !.status = "completed", !.leased = FALSE,
                                  !.cancel = k, !.reply = y]
                   EXCEPT !.version = run[r].version + 1]]
    BY <1>1 DEF Finish, Completed, Change
  <2>2. Lost(r) => y = "suppressed"
    OBVIOUS
  <2>. HIDE DEF y, k
  <2>3. run'[r].reply = y /\ OtherRows(r) /\ run'[r].snap = run[r].snap
    BY <1>2, <2>1 DEF IInv, TypeOK, Rows, OtherRows
  <2>. QED
    BY <2>2, <2>3
<1>. QED
  BY <1>2, <1>3 DEF OneRowMoves, RowMove

\* The moves of the API and of time.
LEMMA ApiMoves ==
  ASSUME IInv, NEW r \in Runs,
         Submit(r) \/ Cancel(r) \/ Replay(r) \/ LeaseExpires(r)
  PROVE  OneRowMoves
<1>0. run[r] \in Rows
  BY RowTypes DEF IInv, TypeOK
<1>1. OtherRows(r) /\ RowMove(r)
  <2>1. CASE Submit(r)
    <3>1. PICK v : run' = [run EXCEPT ![r] =
                             [[run[r] EXCEPT !.status = "queued",
                                             !.maxAttempts = MaxAttempts,
                                             !.ownVersion = v]
                              EXCEPT !.version = run[r].version + 1]]
      BY <2>1 DEF Submit, Change
    <3>2. /\ OtherRows(r) /\ run'[r].reply = run[r].reply
          /\ run'[r].snap = run[r].snap
      BY <3>1, <1>0 DEF IInv, TypeOK, Rows, OtherRows
    <3>. QED
      BY <2>1, <3>2 DEF Submit, RowMove
  <2>2. CASE Replay(r)
    BY <2>2, <1>0 DEF Replay, Change, IInv, TypeOK, Rows, OtherRows, RowMove
  <2>3. CASE LeaseExpires(r)
    BY <2>3, <1>0 DEF LeaseExpires, IInv, TypeOK, Rows, OtherRows, RowMove
  <2>4. CASE Cancel(r)
    <3>1. PICK st, k : /\ run' = [run EXCEPT ![r] =
                                    [[run[r] EXCEPT !.status = st, !.cancel = k]
                                     EXCEPT !.version = run[r].version + 1]]
                       /\ \/ st = run[r].status
                          \/ /\ run[r].status \in {"queued", "retry_wait",
                                                   "dead_letter"}
                             /\ st = "cancelled"
      <4>1. \A k : [run[r] EXCEPT !.cancel = k]
                   = [run[r] EXCEPT !.status = run[r].status, !.cancel = k]
        BY <1>0 DEF Rows
      <4>. QED
        BY <2>4, <4>1 DEF Cancel, Change
    <3>2. /\ OtherRows(r) /\ run'[r].reply = run[r].reply
          /\ run'[r].status = st /\ run'[r].handoff = run[r].handoff
          /\ run'[r].snap = run[r].snap
      BY <3>1, <1>0 DEF IInv, TypeOK, Rows, OtherRows
    <3>. QED
      BY <3>1, <3>2 DEF RowMove
  <2>. QED
    BY <2>1, <2>2, <2>3, <2>4
<1>. QED
  BY <1>1 DEF OneRowMoves

\* The moves of a poll start from a row that is due.
LEMMA PollMoves ==
  ASSUME IInv, NEW w \in Workers, NEW r \in Runs, Poll(w, r)
  PROVE  OneRowMoves
<1>0. run[r] \in Rows
  BY RowTypes DEF IInv, TypeOK
<1>1. run[r].status \in {"queued", "retry_wait", "running"}
  BY DEF Poll, ClaimUnsafe, ClaimCancelled, ClaimExhausted, Claim, Eligible
<1>2. OtherRows(r) /\ run'[r].reply = run[r].reply /\ run'[r].snap = run[r].snap
  <2>1. CASE ClaimUnsafe(w, r)
    BY <2>1, <1>0 DEF ClaimUnsafe, Change, IInv, TypeOK, Rows, OtherRows
  <2>2. CASE ClaimCancelled(w, r)
    BY <2>2, <1>0 DEF ClaimCancelled, Change, IInv, TypeOK, Rows, OtherRows
  <2>3. CASE ClaimExhausted(w, r)
    BY <2>3, <1>0 DEF ClaimExhausted, Change, IInv, TypeOK, Rows, OtherRows
  <2>4. CASE Claim(w, r)
    BY <2>4, <1>0 DEF Claim, Claimed, Change, IInv, TypeOK, Rows, OtherRows
  <2>. QED
    BY <2>1, <2>2, <2>3, <2>4 DEF Poll
<1>. QED
  BY <1>1, <1>2 DEF OneRowMoves, RowMove

\* A heartbeat moves nothing.
LEMMA HeartbeatMoves ==
  ASSUME IInv, NEW w \in Workers, Heartbeat(w)
  PROVE  OneRowMoves
<1>1. PICK r \in Runs : R(w) = r
  BY DEF Heartbeat, IInv, WorkerOK
<1>2. run[r] \in Rows
  BY RowTypes DEF IInv, TypeOK
<1>3. /\ OtherRows(r) /\ run'[r].reply = run[r].reply /\ run[r].status = "running"
      /\ run'[r].snap = run[r].snap
  BY <1>1, <1>2 DEF Heartbeat, Change, IInv, TypeOK, Rows, OtherRows
<1>. QED
  BY <1>3 DEF OneRowMoves, RowMove

\* Every step keeps the rows, or moves one of them along the life cycle.
LEMMA StepMoves ==
  ASSUME IInv, [Next]_vars
  PROVE  UNCHANGED run \/ OneRowMoves
<1>1. ASSUME NEW w \in Workers, WorkerStep(w)
      PROVE  UNCHANGED run \/ OneRowMoves
  BY <1>1, CommitMoves, FinishMoves
     DEF WorkerStep, Fenced, Interrupted, ReadRow, Conflict, ReuseSnapshot,
         GuardOwnership, LookupCall, OperationReturns, OperationRaises,
         SaveSession, FinishUnsafe, HandoffReads, HandoffAppends
<1>2. ASSUME NEW w \in Workers, AgentRaises(w) \/ Heartbeat(w) \/ Crash(w)
      PROVE  UNCHANGED run \/ OneRowMoves
  BY <1>2, HeartbeatMoves DEF AgentRaises, Crash
<1>3. ASSUME NEW s \in Sessions, TakeOver(s) \/ Release(s) \/ DeleteSession(s)
      PROVE  UNCHANGED run
  BY <1>3 DEF TakeOver, Release, DeleteSession
<1>. QED
  BY <1>1, <1>2, <1>3, ApiMoves, PollMoves DEF Next, vars

\* Two runs of one conversation are never both queued, executing, waiting, dead
\* or parked: the unique index refuses the second submission, and a replay
\* starts from a status that kept the conversation reserved (submit, replay).
THEOREM OneActiveRun == Spec => []OneActiveRunPerSession
<1>1. Init => OneActiveRunPerSession
  BY DEF Init, AbsentRow, OneActiveRunPerSession, ACTIVE
<1>2. IInv /\ OneActiveRunPerSession /\ [Next]_vars => OneActiveRunPerSession'
  <2>. SUFFICES ASSUME IInv, OneActiveRunPerSession, [Next]_vars
                PROVE  OneActiveRunPerSession'
    OBVIOUS
  <2>1. CASE UNCHANGED run
    BY <2>1 DEF OneActiveRunPerSession
  <2>2. ASSUME NEW r \in Runs, OtherRows(r), RowMove(r)
        PROVE  OneActiveRunPerSession'
    <3>1. \/ run[r].status \in ACTIVE
          \/ run'[r].status = run[r].status
          \/ \A q \in Runs : SessionOf[q] = SessionOf[r]
                             => run[q].status \notin ACTIVE
      BY <2>2 DEF RowMove, ACTIVE
    <3>. QED
      BY <2>2, <3>1 DEF OtherRows, OneActiveRunPerSession
  <2>. QED
    BY <2>1, <2>2, StepMoves DEF OneRowMoves
<1>. QED
  BY <1>1, <1>2, InvariantHolds, PTL DEF Spec

\* A settled run stays settled: no late commit of a stale worker, no cancel and
\* no sweep takes a run out of a final status (change, claim, cancel, replay).
THEOREM SettledIsFinal == Spec => SettledStays
<1>1. IInv /\ [Next]_vars =>
        [\A r \in Runs :
           /\ run[r].status \in {"completed", "cancelled", "needs_reconciliation"}
              => run'[r].status = run[r].status
           /\ run[r].status = "dead_letter"
              => run'[r].status \in {"dead_letter", "queued", "cancelled"}]_vars
  BY StepMoves DEF OneRowMoves, RowMove, OtherRows
<1>. QED
  BY <1>1, InvariantHolds, PTL DEF Spec, SettledStays

\* However a takeover races the end of a turn, no answer is published in a
\* conversation the Agent has lost since the run was submitted (change, guarding
\* the completion by the ownership row).
THEOREM NothingPublishedAfterTakeover == Spec => NoAnswerAfterTakeover
<1>1. IInv /\ [Next]_vars =>
        [\A r \in Runs :
           run[r].reply = "none" /\ run'[r].reply = "published" => ~Lost(r)]_vars
  BY StepMoves DEF OneRowMoves, RowMove, OtherRows
<1>. QED
  BY <1>1, InvariantHolds, PTL DEF Spec, NoAnswerAfterTakeover

-----------------------------------------------------------------------------
(* Where the answers in a history come from *)

\* The answer of r was given, or r was handed over.
Given(r) == run[r].status = "completed" /\ (run[r].reply = "published" \/ run[r].handoff)

\* h is an old history, an emptied one, or an old one with one more entry, which
\* is an answer only if the answer is given in this step.
Grown(h) ==
  \/ h = <<>>
  \/ h \in Histories
  \/ \E g \in Histories, r \in Runs : h = Append(g, UserEntry(r))
  \/ \E g \in Histories, r \in Runs : h = Append(g, TurnEntry(r)) /\ Given(r)'

\* A history that has grown holds no answer that was not given.
LEMMA GrownOK ==
  ASSUME IInv, HistoriesOK, [Next]_vars, NEW h, Grown(h)
  PROVE  \A i \in DOMAIN h : h[i].kind = "turn" => Given(h[i].run)'
<1>1. \A r \in Runs : Given(r) => Given(r)'
  BY StepMoves DEF OneRowMoves, RowMove, OtherRows, Given
<1>2. ASSUME NEW g \in Histories
      PROVE  /\ g \in Seq(Entries)
             /\ \A i \in DOMAIN g : g[i].kind = "turn" => Given(g[i].run)'
  <2>1. g \in Seq(Entries)
    BY RowTypes, WorkerTypes DEF IInv, TypeOK, Histories
  <2>2. ASSUME NEW i \in DOMAIN g, g[i].kind = "turn" PROVE Given(g[i].run)'
    <3>1. g[i] \in Entries
      BY <2>1
    <3>2. g[i].run \in Runs
      BY <3>1 DEF Entries
    <3>3. Given(g[i].run)
      BY <2>2 DEF HistoriesOK, AnswersAreReal, Given
    <3>. QED
      BY <3>2, <3>3, <1>1
  <2>. QED
    BY <2>1, <2>2
<1>3. ASSUME NEW g \in Histories, NEW r \in Runs, NEW e \in Entries, h = Append(g, e),
             e.kind = "turn" => Given(e.run)', NEW i \in DOMAIN h, h[i].kind = "turn"
      PROVE  Given(h[i].run)'
  <2>1. g \in Seq(Entries)
    BY <1>2
  <2>2. (i \in DOMAIN g /\ h[i] = g[i]) \/ h[i] = e
    BY <1>3, <2>1
  <2>. QED
    BY <1>2, <1>3, <2>2
<1>4. \A r \in Runs : /\ UserEntry(r) \in Entries /\ UserEntry(r).kind # "turn"
                      /\ TurnEntry(r) \in Entries /\ TurnEntry(r).run = r
  BY DEF UserEntry, TurnEntry, Entries
<1>5. CASE h = <<>>
  BY <1>5
<1>. QED
  BY <1>2, <1>3, <1>4, <1>5 DEF Grown

\* What a worker has read is kept, forgotten, or the history of its conversation.
LEMMA ReadHistories ==
  ASSUME IInv, [Next]_vars, NEW v \in Workers
  PROVE  wk'[v].sess = <<>> \/ wk'[v].sess \in Histories
<1>. DEFINE Kept(u) == \/ wk'[u].sess = wk[u].sess \/ wk'[u].sess = <<>>
                       \/ \E s \in Sessions : wk'[u].sess = session[s]
<1>0. wk \in [Workers -> WorkerStates]
  BY DEF IInv, TypeOK
<1>1. ASSUME NEW w \in Workers, WorkerStep(w) \/ AgentRaises(w) \/ Crash(w)
      PROVE  Others(w) /\ Kept(w)
  <2>0. wk[w] \in WorkerStates
    BY <1>0
  <2>1. ASSUME NEW p, Goto(w, p) PROVE Others(w) /\ Kept(w)
    BY <1>0, <2>0, <2>1 DEF Goto, Others, WorkerStates
  <2>2. ASSUME NEW c, GoFail(w, c) PROVE Others(w) /\ Kept(w)
    BY <1>0, <2>0, <2>2 DEF GoFail, Others, WorkerStates
  <2>3. ASSUME GoIdle(w) PROVE Others(w) /\ Kept(w)
    BY <1>0, <2>3 DEF GoIdle, Others, IdleWorker
  <2>4. R(w) \in Runs => SessionOf[R(w)] \in Sessions
    BY RunAssumption
  <2>5. wk[w].pc # "idle" => R(w) \in Runs
    BY DEF IInv, WorkerOK
  <2>6. CASE Fenced(w) \/ Interrupted(w) \/ GuardOwnership(w) \/ ReuseSnapshot(w)
             \/ StoreSnapshot(w) \/ OperationRaises(w) \/ AgentRaises(w) \/ FinishUnsafe(w)
             \/ HandoffAppends(w) \/ HandoffMarks(w) \/ Fail(w) \/ Crash(w) \/ BeginCall(w)
             \/ Finish(w)
    BY <2>1, <2>2, <2>3, <2>6 DEF Fenced, Interrupted, GuardOwnership, ReuseSnapshot,
       StoreSnapshot, OperationRaises, AgentRaises, FinishUnsafe, HandoffAppends,
       HandoffMarks, Fail, Crash, BeginCall, Finish, Completed
  <2>7. CASE ReadRow(w)
    <3>1. wk[w].pc # "idle"
      BY <2>7 DEF ReadRow, Proceeds, Checking
    <3>. QED
      BY <1>0, <2>0, <2>4, <2>5, <2>7, <3>1 DEF ReadRow, Others, WorkerStates
  <2>8. CASE Conflict(w)
    <3>1. CASE wk' = [wk EXCEPT ![w].seen = 0, ![w].tries = @ + 1]
      BY <1>0, <2>0, <3>1 DEF Others, WorkerStates
    <3>. QED
      BY <2>2, <2>3, <2>8, <3>1 DEF Conflict
  <2>9. CASE LookupCall(w)
    <3>1. CASE wk' = [wk EXCEPT ![w].idx = @ + 1]
      BY <1>0, <2>0, <3>1 DEF Others, WorkerStates
    <3>. QED
      BY <2>1, <2>2, <2>9, <3>1 DEF LookupCall
  <2>10. CASE OperationReturns(w) \/ CompleteCall(w) \/ SaveSession(w)
    BY <1>0, <2>0, <2>10 DEF OperationReturns, CompleteCall, SaveSession, Others, WorkerStates
  <2>11. CASE HandoffReads(w)
    BY <1>0, <2>0, <2>4, <2>5, <2>11 DEF HandoffReads, Others, WorkerStates
  <2>. QED
    BY <1>1, <2>6, <2>7, <2>8, <2>9, <2>10, <2>11 DEF WorkerStep
<1>2. ASSUME NEW w \in Workers, NEW r \in Runs, Poll(w, r)
      PROVE  wk' = wk \/ (Others(w) /\ Kept(w))
  BY <1>0, <1>2 DEF Poll, ClaimUnsafe, ClaimCancelled, ClaimExhausted, Claim, Claimed,
     Others, IdleWorker
<1>3. Kept(v)
  <2>1. CASE wk' = wk
    BY <2>1
  <2>2. CASE \E w \in Workers : Others(w) /\ Kept(w)
    BY <2>2 DEF Others
  <2>. QED
    BY <1>1, <1>2, <2>1, <2>2 DEF Next, vars, Submit, Cancel, Replay, LeaseExpires,
       TakeOver, Release, DeleteSession, Heartbeat
<1>. QED
  BY <1>3 DEF Histories

\* A stored history is kept, emptied, or written back from an old one with one
\* more entry; an answer is written only by the completion that gives it.
LEMMA StoredHistories ==
  ASSUME IInv, [Next]_vars, NEW t \in Sessions
  PROVE  Grown(session'[t])
<1>0. session \in [Sessions -> Seq(Entries)] /\ session[t] \in Histories
  BY DEF IInv, TypeOK, Histories
<1>1. ASSUME NEW w \in Workers, HandoffAppends(w) PROVE Grown(session'[t])
  <2>1. R(w) \in Runs
    BY <1>1 DEF HandoffAppends, IInv, WorkerOK
  <2>2. wk[w].sess \in Histories
    BY DEF Histories
  <2>. QED
    BY <1>0, <1>1, <2>1, <2>2 DEF HandoffAppends, Grown
<1>2. ASSUME NEW w \in Workers, Finish(w), session' # session PROVE Grown(session'[t])
  <2>1. R(w) \in Runs /\ run[R(w)] \in Rows
    BY <1>2, RowTypes DEF Finish, IInv, WorkerOK, TypeOK
  <2>2. PICK r \in Runs : r = R(w)
    BY <2>1
  <2>. DEFINE writes == wk[w].out /\ (Lost(r) => run[r].handoff)
  <2>3. writes /\ Completed(w, Lost(r) \/ run[r].handoff, writes)
    BY <1>2, <2>2 DEF Finish, Completed
  <2>4. session' = [session EXCEPT ![SessionOf[r]] = Append(run[r].snap, TurnEntry(r))]
    BY <2>2, <2>3 DEF Completed
  <2>5. run[r].snap \in Histories
    BY DEF Histories
  <2>6. Given(r)'
    <3>. DEFINE k == IF run[r].cancel = "requested" THEN "too_late" ELSE run[r].cancel
                y == IF Lost(r) \/ run[r].handoff THEN "suppressed" ELSE "published"
    <3>1. run' = [run EXCEPT ![r] =
                    [[run[r] EXCEPT !.status = "completed", !.leased = FALSE,
                                    !.cancel = k, !.reply = y]
                     EXCEPT !.version = run[r].version + 1]]
      BY <2>2, <2>3 DEF Completed, Change
    <3>2. y = "published" \/ run[r].handoff
      BY <2>3
    <3>. HIDE DEF y, k
    <3>3. /\ run'[r].status = "completed" /\ run'[r].reply = y
          /\ run'[r].handoff = run[r].handoff
      BY <2>1, <2>2, <3>1 DEF IInv, TypeOK, Rows
    <3>. QED
      BY <3>2, <3>3 DEF Given
  <2>. QED
    BY <1>0, <2>4, <2>5, <2>6 DEF Grown
<1>3. ASSUME NEW s \in Sessions, DeleteSession(s) PROVE Grown(session'[t])
  BY <1>0, <1>3 DEF DeleteSession, Grown
<1>4. CASE session' = session
  BY <1>0, <1>4 DEF Grown
<1>5. ASSUME NEW w \in Workers, WorkerStep(w) PROVE Grown(session'[t])
  BY <1>1, <1>2, <1>4, <1>5 DEF WorkerStep, Fenced, Interrupted, ReadRow, Conflict,
     ReuseSnapshot, StoreSnapshot, GuardOwnership, LookupCall, BeginCall,
     OperationReturns, OperationRaises, CompleteCall, SaveSession, FinishUnsafe,
     HandoffReads, HandoffMarks, Fail
<1>. QED
  BY <1>3, <1>4, <1>5 DEF Next, vars, Submit, Cancel, Replay, LeaseExpires, TakeOver,
     Release, AgentRaises, Heartbeat, Crash, Poll, ClaimUnsafe, ClaimCancelled,
     ClaimExhausted, Claim, Claimed

\* However runs are handed over, retried and fenced, and whichever of their
\* writes comes late, an answer in a history is the published answer of a
\* completed run, or the answer of one that was handed over (change, _handoff).
THEOREM HistoryIsReal == Spec => []HistoryHoldsPublishedAnswers
<1>1. Init => HistoriesOK
  <2>1. Init => \A h \in Histories : h = <<>>
    <3>. SUFFICES ASSUME Init, NEW h \in Histories PROVE h = <<>>
      OBVIOUS
    <3>1. ASSUME NEW s \in Sessions PROVE session[s] = <<>>
      BY <3>1 DEF Init
    <3>2. ASSUME NEW r \in Runs PROVE run[r].snap = <<>>
      BY <3>2 DEF Init, AbsentRow
    <3>3. ASSUME NEW w \in Workers PROVE wk[w].sess = <<>>
      BY <3>3 DEF Init, IdleWorker
    <3>. QED
      BY <3>1, <3>2, <3>3 DEF Histories
  <2>2. AnswersAreReal(<<>>)
    BY DEF AnswersAreReal
  <2>. QED
    BY <2>1, <2>2 DEF HistoriesOK
<1>2. IInv /\ HistoriesOK /\ [Next]_vars => HistoriesOK'
  <2>. SUFFICES ASSUME IInv, HistoriesOK, [Next]_vars, NEW h \in Histories'
                PROVE  \A i \in DOMAIN h : h[i].kind = "turn" => Given(h[i].run)'
    BY DEF HistoriesOK, AnswersAreReal, Given
  <2>1. ASSUME NEW r \in Runs, h = run'[r].snap PROVE Grown(h)
    <3>1. \/ run'[r].snap = run[r].snap
          \/ \E w \in Workers : run'[r].snap = wk[w].sess
      BY StepMoves DEF OneRowMoves, RowMove, OtherRows
    <3>. QED
      BY <2>1, <3>1 DEF Grown, Histories
  <2>2. ASSUME NEW w \in Workers, h = wk'[w].sess PROVE Grown(h)
    BY <2>2, ReadHistories DEF Grown
  <2>3. ASSUME NEW s \in Sessions, h = session'[s] PROVE Grown(h)
    BY <2>3, StoredHistories
  <2>4. Grown(h)
    BY <2>1, <2>2, <2>3 DEF Histories
  <2>. QED
    BY <2>4, GrownOK
<1>3. HistoriesOK => HistoryHoldsPublishedAnswers
  BY DEF HistoriesOK, Histories, HistoryHoldsPublishedAnswers
<1>. QED
  BY <1>1, <1>2, <1>3, InvariantHolds, PTL DEF Spec

=============================================================================
