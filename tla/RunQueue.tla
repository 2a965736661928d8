------------------------------ MODULE RunQueue ------------------------------
(***************************************************************************)
(* The durable Agent run queue: submission, leases with fencing tokens,    *)
(* the journal of external calls, cancellation, retry, replay, human       *)
(* takeover of the conversation and the commit of the session history.     *)
(*                                                                         *)
(* One row of agent_runs is a record of `run`; every change of a row is a  *)
(* compare-and-swap on its version (RunRepository.change).  A worker is    *)
(* one RunWorker.run_once, cut at every database access: a mutation is a   *)
(* read of the row (Read) followed by a CAS (one Commit action per event)  *)
(* that fails when the version moved (Conflict).  Consecutive reads with   *)
(* no write between them are one step.  A lease is a flag that time may    *)
(* drop at any moment (LeaseExpires).                                      *)
(***************************************************************************)
EXTENDS Naturals, Sequences, FiniteSets

CONSTANTS
  Runs,           \* run ids; a run id stands for its (user, idempotency key)
  Workers,        \* worker processes
  Sessions,       \* conversations
  SessionOf,      \* the conversation a run belongs to
  Kind,           \* Kind[i]: what the Agent's i-th external call is
  Collaboration,  \* settings.collaboration_enabled
  MaxAttempts,    \* settings.run_max_attempts
  ReplayAttempts, \* attempts a replay grants (3 in the code)
  CasRetries,     \* retries of a lost CAS (32 in the code)
  MaxVersion,     \* bound: heartbeats stop at this row version
  MaxCancel,      \* bound: cancel requests stop at this row version
  MaxReplay,      \* bound: no replay of a row at this attempt or beyond
  MaxOwnership,   \* bound: ownership transitions stop at this version
  NoRun,          \* what an idle worker holds
  NoWorker        \* the owner of a row nobody claimed

ASSUME RunAssumption ==
  /\ SessionOf \in [Runs -> Sessions]
  /\ Kind \in Seq({"read", "write"})
  /\ Collaboration \in BOOLEAN
  /\ MaxAttempts \in Nat \ {0}
  /\ ReplayAttempts \in Nat \ {0}
  /\ CasRetries \in Nat \ {0}
  /\ MaxVersion \in Nat
  /\ MaxCancel \in Nat
  /\ MaxReplay \in Nat
  /\ MaxOwnership \in Nat
  /\ NoRun \notin Runs
  /\ NoWorker \notin Workers

VARIABLES
  run,      \* agent_runs
  session,  \* sessions: the message history of each conversation
  own,      \* conversation_ownership
  wk,       \* the local state of each worker
  sent      \* history: how often each call's operation was really invoked

vars == <<run, session, own, wk, sent>>

-----------------------------------------------------------------------------
(* Vocabulary *)

Calls == 1 .. Len(Kind)

TERMINAL == {"completed", "cancelled", "dead_letter", "needs_reconciliation"}

ACTIVE_without_dead_letter ==
  {"queued", "running", "retry_wait", "needs_reconciliation"}
ACTIVE == {"queued", "running", "retry_wait", "dead_letter",
           "needs_reconciliation"}

Statuses == TERMINAL \union ACTIVE \union {"absent"}

CallStates == {"none", "in_flight", "completed", "unknown"}

\* What one run may leave in the history: the customer's message alone (a
\* handover) or the message and the Agent's answer.
Entries == [kind: {"user", "turn"}, run: Runs]
UserEntry(r) == [kind |-> "user", run |-> r]
TurnEntry(r) == [kind |-> "turn", run |-> r]

Rows == [status: Statuses, owner: Workers \union {NoWorker}, fence: Nat,
         attempt: Nat, maxAttempts: Nat, version: Nat, leased: BOOLEAN,
         cancel: {"none", "requested", "acknowledged", "too_late"},
         calls: [Calls -> CallStates], writeStarted: BOOLEAN,
         snapped: BOOLEAN, snap: Seq(Entries), ownVersion: Nat,
         handoff: BOOLEAN, reply: {"none", "published", "suppressed"}]

Codes == {"", "RUN_CANCELLED", "RUN_WRITE_UNKNOWN", "RUN_CONTENTION",
          "SESSION_CHANGED", "TRANSIENT_ERROR", "EXECUTION_ERROR"}

Pcs == {"idle", "load", "guard1", "call", "begin", "op", "done",
        "guard2", "finish", "handoff", "append", "mark", "fail"}

WorkerStates ==
  [pc: Pcs, run: Runs \union {NoRun}, fence: Nat, idx: Nat, seen: Nat,
   tries: Nat, sess: Seq(Entries), code: Codes, result: CallStates,
   out: BOOLEAN]

AbsentRow ==
  [status |-> "absent", owner |-> NoWorker, fence |-> 0, attempt |-> 0,
   maxAttempts |-> 0, version |-> 0, leased |-> FALSE, cancel |-> "none",
   calls |-> [c \in Calls |-> "none"], writeStarted |-> FALSE,
   snapped |-> FALSE, snap |-> <<>>, ownVersion |-> 0,
   handoff |-> FALSE, reply |-> "none"]

IdleWorker ==
  [pc |-> "idle", run |-> NoRun, fence |-> 0, idx |-> 1, seen |-> 0,
   tries |-> 0, sess |-> <<>>, code |-> "", result |-> "none",
   out |-> FALSE]

TypeOK ==
  /\ run \in [Runs -> Rows]
  /\ session \in [Sessions -> Seq(Entries)]
  /\ own \in [Sessions -> [human: BOOLEAN, version: Nat]]
  /\ wk \in [Workers -> WorkerStates]
  /\ sent \in [Runs -> [Calls -> Nat]]

Init ==
  /\ run = [r \in Runs |-> AbsentRow]
  /\ session = [s \in Sessions |-> <<>>]
  /\ own = [s \in Sessions |-> [human |-> FALSE, version |-> 1]]
  /\ wk = [w \in Workers |-> IdleWorker]
  /\ sent = [r \in Runs |-> [c \in Calls |-> 0]]

-----------------------------------------------------------------------------
(* The row and its guards *)

\* RunRepository.unsafe: a write was registered and its outcome is not known.
Unsafe(r) ==
  \E c \in Calls : /\ Kind[c] = "write"
                   /\ run[r].calls[c] \in {"in_flight", "unknown"}

\* The condition under which check() and claim() honour a cancel request.
CancelDue(r) == run[r].cancel = "requested" /\ ~run[r].writeStarted

\* The conversation was taken over (and maybe released) since submission.
Lost(r) ==
  LET o == own[SessionOf[r]]
  IN  Collaboration /\ (o.human \/ o.version # run[r].ownVersion)

\* The run a worker executes and the call it has come to.
R(w) == wk[w].run
Idx(w) == wk[w].idx

\* RunRepository.owned for worker w.
Owned(w) ==
  LET row == run[R(w)]
  IN  /\ row.status = "running"
      /\ row.owner = w
      /\ row.fence = wk[w].fence
      /\ row.leased

\* RunRepository.change: the new row under the next version.
Change(r, row) ==
  run' = [run EXCEPT ![r] = [row EXCEPT !.version = run[r].version + 1]]

Goto(w, p) == wk' = [wk EXCEPT ![w].pc = p, ![w].seen = 0, ![w].tries = 0]
GoIdle(w) == wk' = [wk EXCEPT ![w] = IdleWorker]
GoFail(w, c) ==
  wk' = [wk EXCEPT ![w].pc = "fail", ![w].seen = 0, ![w].tries = 0,
                   ![w].code = c]

\* The CAS of a mutation whose row was read at version seen.
CurrentWithoutCas(w) == wk[w].seen # 0
Current(w) == wk[w].seen # 0 /\ wk[w].seen = run[R(w)].version

-----------------------------------------------------------------------------
(* The API: submit, cancel, replay, takeover, release, delete *)

\* The ownership version was read by runtime_snapshot before the insert, so it
\* may be any version the conversation has had.  The unique index on the
\* active runs of a session refuses a second one.
Submit(r) ==
  /\ run[r].status = "absent"
  /\ \A q \in Runs : SessionOf[q] = SessionOf[r] => run[q].status \notin ACTIVE
  /\ \E v \in 1 .. own[SessionOf[r]].version :
       Change(r, [run[r] EXCEPT !.status = "queued",
                                !.maxAttempts = MaxAttempts,
                                !.ownVersion = v])
  /\ UNCHANGED <<session, own, wk, sent>>

CancelAnyWaiting(r) ==
  /\ run[r].status # "absent"
  /\ run[r].cancel # "acknowledged"
  /\ run[r].version < MaxCancel
  /\ Change(r,
       IF run[r].status \in {"queued", "retry_wait", "dead_letter"}
         THEN [run[r] EXCEPT !.status = "cancelled", !.cancel = "acknowledged"]
       ELSE IF run[r].status = "running"
         THEN [run[r] EXCEPT !.cancel = "requested"]
       ELSE [run[r] EXCEPT !.cancel = "too_late"])
  /\ UNCHANGED <<session, own, wk, sent>>

Cancel(r) ==
  /\ run[r].status # "absent"
  /\ run[r].cancel # "acknowledged"
  /\ run[r].version < MaxCancel
  /\ Change(r,
       IF /\ run[r].status \in {"queued", "retry_wait", "dead_letter"}
          /\ ~run[r].writeStarted
         THEN [run[r] EXCEPT !.status = "cancelled", !.cancel = "acknowledged"]
       ELSE IF run[r].status = "running"
         THEN [run[r] EXCEPT !.cancel = "requested"]
       ELSE [run[r] EXCEPT !.cancel = "too_late"])
  /\ UNCHANGED <<session, own, wk, sent>>

Replay(r) ==
  /\ run[r].status = "dead_letter"
  /\ ~Unsafe(r)
  /\ run[r].attempt < MaxReplay
  /\ Change(r, [run[r] EXCEPT !.status = "queued", !.cancel = "none",
                              !.maxAttempts = run[r].attempt + ReplayAttempts])
  /\ UNCHANGED <<session, own, wk, sent>>

\* ConversationHandoffService.transition; whether an executing action makes it
\* refuse the takeover is the business of TrustedActions.
TakeOver(s) ==
  /\ ~own[s].human
  /\ own[s].version < MaxOwnership
  /\ own' = [own EXCEPT ![s] = [human |-> TRUE, version |-> @.version + 1]]
  /\ UNCHANGED <<run, session, wk, sent>>

Release(s) ==
  /\ own[s].human
  /\ own[s].version < MaxOwnership
  /\ own' = [own EXCEPT ![s] = [human |-> FALSE, version |-> @.version + 1]]
  /\ UNCHANGED <<run, session, wk, sent>>

DeleteSession(s) ==
  /\ session[s] # <<>>
  /\ \A q \in Runs : SessionOf[q] = s => run[q].status \notin ACTIVE
  /\ session' = [session EXCEPT ![s] = <<>>]
  /\ UNCHANGED <<run, own, wk, sent>>

-----------------------------------------------------------------------------
(* RunRepository.claim: four outcomes for an eligible row *)

LeaseExpires(r) ==
  /\ run[r].status = "running"
  /\ run[r].leased
  /\ run' = [run EXCEPT ![r].leased = FALSE]
  /\ UNCHANGED <<session, own, wk, sent>>

\* A queued or waiting row whose time has come, or a running one whose lease
\* ran out.  The read and the CAS of claim are one step: while the version
\* stands still an eligible row stays eligible.
EligibleUnlessRunning(w, r) ==
  /\ wk[w].pc = "idle"
  /\ run[r].status \in {"queued", "retry_wait"}

Eligible(w, r) ==
  /\ wk[w].pc = "idle"
  /\ \/ run[r].status \in {"queued", "retry_wait"}
     \/ run[r].status = "running" /\ ~run[r].leased

ClaimUnsafe(w, r) ==
  /\ Eligible(w, r)
  /\ Unsafe(r)
  /\ Change(r, [run[r] EXCEPT !.status = "needs_reconciliation"])
  /\ UNCHANGED <<session, own, wk, sent>>

ClaimCancelled(w, r) ==
  /\ Eligible(w, r)
  /\ ~Unsafe(r)
  /\ CancelDue(r)
  /\ Change(r, [run[r] EXCEPT !.status = "cancelled",
                              !.cancel = "acknowledged"])
  /\ UNCHANGED <<session, own, wk, sent>>

ClaimExhausted(w, r) ==
  /\ Eligible(w, r)
  /\ ~Unsafe(r)
  /\ ~CancelDue(r)
  /\ run[r].attempt >= run[r].maxAttempts
  /\ Change(r, [run[r] EXCEPT !.status = "dead_letter"])
  /\ UNCHANGED <<session, own, wk, sent>>

ClaimedUnderOldFence(w, r) ==
  /\ Change(r, [run[r] EXCEPT !.status = "running", !.owner = w,
                              !.attempt = @ + 1, !.leased = TRUE])
  /\ wk' = [wk EXCEPT ![w] = [IdleWorker EXCEPT !.pc = "load", !.run = r,
                                                !.fence = run[r].fence]]
  /\ UNCHANGED <<session, own, sent>>

Claimed(w, r) ==
  /\ Change(r, [run[r] EXCEPT !.status = "running", !.owner = w,
                              !.fence = @ + 1, !.attempt = @ + 1,
                              !.leased = TRUE])
  /\ wk' = [wk EXCEPT ![w] = [IdleWorker EXCEPT !.pc = "load", !.run = r,
                                                !.fence = run[r].fence + 1]]
  /\ UNCHANGED <<session, own, sent>>

ClaimWithoutRecoveryCheck(w, r) ==
  /\ Eligible(w, r)
  /\ ~CancelDue(r)
  /\ run[r].attempt < run[r].maxAttempts
  /\ Claimed(w, r)

Claim(w, r) ==
  /\ Eligible(w, r)
  /\ ~Unsafe(r)
  /\ ~CancelDue(r)
  /\ run[r].attempt < run[r].maxAttempts
  /\ Claimed(w, r)

-----------------------------------------------------------------------------
(* RunWorker.run_once and RunContext, one action per database access *)

\* Every place where the worker reads its row before going on; op and append
\* do not look at the row.
Checking(w) ==
  /\ wk[w].pc \in {"load", "guard1", "call", "begin", "done", "guard2",
                   "finish", "handoff", "mark", "fail"}
  /\ wk[w].seen = 0

\* ... and where check() also honours a cancel request.
Cancellable(w) == Checking(w) /\ wk[w].pc \notin {"done", "fail"}

\* The heartbeat thread.  Its read saw a live lease; the lease may have run out
\* before its CAS, which then revives it because nobody changed the row.
Heartbeat(w) ==
  /\ wk[w].pc # "idle"
  /\ run[R(w)].status = "running"
  /\ run[R(w)].owner = w
  /\ run[R(w)].fence = wk[w].fence
  /\ run[R(w)].version < MaxVersion
  /\ Change(R(w), [run[R(w)] EXCEPT !.leased = TRUE])
  /\ UNCHANGED <<session, own, wk, sent>>

\* RUN_FENCED: the worker stops without touching anything.
Fenced(w) ==
  /\ Checking(w)
  /\ ~Owned(w)
  /\ GoIdle(w)
  /\ UNCHANGED <<run, session, own, sent>>

\* RUN_CANCELLED from check().
Interrupted(w) ==
  /\ Cancellable(w)
  /\ Owned(w)
  /\ CancelDue(R(w))
  /\ GoFail(w, "RUN_CANCELLED")
  /\ UNCHANGED <<run, session, own, sent>>

\* The read passed: the worker holds the row, and honours a cancel request.
Proceeds(w) ==
  /\ Checking(w)
  /\ Owned(w)
  /\ Cancellable(w) => ~CancelDue(R(w))

\* The row read of a mutation (RunContext.mutate, RunWorker._finish).  The
\* session is loaded just before the snapshot is stored.
ReadRow(w) ==
  /\ Proceeds(w)
  /\ \/ wk[w].pc \in {"begin", "done", "mark", "fail"}
     \/ wk[w].pc = "load" /\ ~run[R(w)].snapped
     \/ wk[w].pc = "finish" /\ ~Unsafe(R(w))
  /\ wk' = [wk EXCEPT ![w].seen = run[R(w)].version,
                      ![w].sess = IF wk[w].pc = "load"
                                    THEN session[SessionOf[R(w)]] ELSE @]
  /\ UNCHANGED <<run, session, own, sent>>

\* RUN_VERSION_CONFLICT: read again, or give up with RUN_CONTENTION.
Conflict(w) ==
  /\ wk[w].seen # 0
  /\ wk[w].seen # run[R(w)].version
  /\ ~(wk[w].pc = "begin" /\ Lost(R(w)))
  /\ IF wk[w].tries + 1 < CasRetries
       THEN wk' = [wk EXCEPT ![w].seen = 0, ![w].tries = @ + 1]
     ELSE IF wk[w].pc = "fail" THEN GoIdle(w)
     ELSE GoFail(w, "RUN_CONTENTION")
  /\ UNCHANGED <<run, session, own, sent>>

\* snapshot("session"): reuse the journaled one, or store the one just read.
ReuseSnapshot(w) ==
  /\ wk[w].pc = "load"
  /\ Proceeds(w)
  /\ run[R(w)].snapped
  /\ Goto(w, "guard1")
  /\ UNCHANGED <<run, session, own, sent>>

StoreSnapshot(w) ==
  /\ wk[w].pc = "load"
  /\ Current(w)
  /\ Change(R(w), [run[R(w)] EXCEPT !.snapped = TRUE, !.snap = wk[w].sess])
  /\ Goto(w, "guard1")
  /\ UNCHANGED <<session, own, sent>>

\* guard_ownership before the Agent is built and before the result is kept.
GuardOwnership(w) ==
  /\ wk[w].pc \in {"guard1", "guard2"}
  /\ Proceeds(w)
  /\ Goto(w, IF Lost(R(w)) THEN "handoff"
             ELSE IF wk[w].pc = "guard1" THEN "call" ELSE "finish")
  /\ UNCHANGED <<run, session, own, sent>>

\* The head of RunContext.call: ownership guard and journal lookup.
LookupCall(w) ==
  /\ wk[w].pc = "call"
  /\ Proceeds(w)
  /\ Idx(w) \in Calls
  /\ LET previous == run[R(w)].calls[Idx(w)]
     IN  IF Lost(R(w)) THEN Goto(w, "handoff")
         ELSE IF previous = "completed"
           THEN wk' = [wk EXCEPT ![w].idx = @ + 1]
         ELSE IF Kind[Idx(w)] = "write" /\ previous # "none"
           THEN GoFail(w, "RUN_WRITE_UNKNOWN")
         ELSE Goto(w, "begin")
  /\ UNCHANGED <<run, session, own, sent>>

\* call.started: registered under the ownership row's lock.
BeginCall(w) ==
  /\ wk[w].pc = "begin"
  /\ wk[w].seen # 0
  /\ IF Lost(R(w))
       THEN Goto(w, "handoff") /\ UNCHANGED run
       ELSE /\ Current(w)
            /\ Change(R(w), [run[R(w)] EXCEPT
                               !.calls = [@ EXCEPT ![Idx(w)] = "in_flight"],
                               !.writeStarted = @ \/ Kind[Idx(w)] = "write"])
            /\ Goto(w, "op")
  /\ UNCHANGED <<session, own, sent>>

\* The operation itself, outside any transaction: it answers, answers without
\* a certain outcome (writes), or raises.
Invoke(w) ==
  sent' = [sent EXCEPT ![R(w)][Idx(w)] = @ + 1]

OperationReturns(w) ==
  /\ wk[w].pc = "op"
  /\ Invoke(w)
  /\ \E res \in {"completed", "unknown"} :
       /\ res = "unknown" => Kind[Idx(w)] = "write"
       /\ wk' = [wk EXCEPT ![w].pc = "done", ![w].result = res]
  /\ UNCHANGED <<run, session, own>>

OperationRaises(w) ==
  /\ wk[w].pc = "op"
  /\ Invoke(w)
  /\ \E c \in {"TRANSIENT_ERROR", "EXECUTION_ERROR"} : GoFail(w, c)
  /\ UNCHANGED <<run, session, own>>

\* call.completed
CompleteCall(w) ==
  /\ wk[w].pc = "done"
  /\ Current(w)
  /\ Change(R(w), [run[R(w)] EXCEPT
                     !.calls = [@ EXCEPT ![Idx(w)] = wk[w].result]])
  /\ wk' = [wk EXCEPT ![w].pc = "call", ![w].seen = 0, ![w].tries = 0,
                      ![w].idx = @ + 1]
  /\ UNCHANGED <<session, own, sent>>

\* The Agent raises between two calls (PLAN_LEASE_PENDING is a transient one).
AgentRaises(w) ==
  /\ wk[w].pc = "call"
  /\ \E c \in {"TRANSIENT_ERROR", "EXECUTION_ERROR"} : GoFail(w, c)
  /\ UNCHANGED <<run, session, own, sent>>

\* The turn ends: the Agent saves the session into the context.
SaveSession(w) ==
  /\ wk[w].pc = "call"
  /\ Proceeds(w)
  /\ Idx(w) \notin Calls
  /\ wk' = [wk EXCEPT ![w].pc = "guard2", ![w].out = TRUE]
  /\ UNCHANGED <<run, session, own, sent>>

\* _finish found a write without a known outcome.
FinishUnsafe(w) ==
  /\ wk[w].pc \in {"finish", "handoff"}
  /\ Proceeds(w)
  /\ Unsafe(R(w))
  /\ GoFail(w, "RUN_WRITE_UNKNOWN")
  /\ UNCHANGED <<run, session, own, sent>>

\* run.completed: the reply and the session history in one transaction.  After
\* a takeover the reply is suppressed and only a handover may write a session.
Completed(w, suppressed, writes) ==
  LET r == R(w)
      s == SessionOf[r]
  IN  /\ Change(r, [run[r] EXCEPT
                      !.status = "completed",
                      !.leased = FALSE,
                      !.cancel = IF @ = "requested" THEN "too_late" ELSE @,
                      !.reply = IF suppressed THEN "suppressed"
                                ELSE "published"])
      /\ session' = IF writes
                      THEN [session EXCEPT
                              ![s] = Append(run[r].snap, TurnEntry(r))]
                      ELSE session
      /\ GoIdle(w)

FinishWithoutOwnershipCheck(w) ==
  /\ wk[w].pc = "finish"
  /\ Current(w)
  /\ IF wk[w].out /\ session[SessionOf[R(w)]] # run[R(w)].snap
       THEN GoFail(w, "SESSION_CHANGED") /\ UNCHANGED <<run, session>>
       ELSE Completed(w, FALSE, wk[w].out)
  /\ UNCHANGED <<own, sent>>

FinishKeepingSuppressedTurn(w) ==
  /\ wk[w].pc = "finish"
  /\ Current(w)
  /\ LET r == R(w)
     IN  IF wk[w].out /\ session[SessionOf[r]] # run[r].snap
           THEN GoFail(w, "SESSION_CHANGED") /\ UNCHANGED <<run, session>>
           ELSE Completed(w, Lost(r) \/ run[r].handoff, wk[w].out)
  /\ UNCHANGED <<own, sent>>

Finish(w) ==
  /\ wk[w].pc = "finish"
  /\ Current(w)
  /\ LET r == R(w)
         writes == wk[w].out /\ (Lost(r) => run[r].handoff)
     IN  IF writes /\ session[SessionOf[r]] # run[r].snap
           THEN GoFail(w, "SESSION_CHANGED") /\ UNCHANGED <<run, session>>
           ELSE Completed(w, Lost(r) \/ run[r].handoff, writes)
  /\ UNCHANGED <<own, sent>>

\* _handoff: read the session, write it back with the customer's message (a
\* plain upsert outside the run context, under no lease and no version), mark
\* the row, then finish.
HandoffReads(w) ==
  /\ wk[w].pc = "handoff"
  /\ Proceeds(w)
  /\ ~Unsafe(R(w))
  /\ wk' = [wk EXCEPT ![w].pc = "append",
                      ![w].sess = session[SessionOf[R(w)]]]
  /\ UNCHANGED <<run, session, own, sent>>

HandoffAppends(w) ==
  /\ wk[w].pc = "append"
  /\ session' = [session EXCEPT ![SessionOf[R(w)]] =
                                  Append(wk[w].sess, UserEntry(R(w)))]
  /\ Goto(w, "mark")
  /\ UNCHANGED <<run, own, sent>>

HandoffMarks(w) ==
  /\ wk[w].pc = "mark"
  /\ Current(w)
  /\ Change(R(w), [run[R(w)] EXCEPT !.handoff = TRUE])
  /\ Goto(w, "finish")
  /\ UNCHANGED <<session, own, sent>>

\* _fail: what becomes of a run that stopped with a code.
StatusAfterForgettingWrites(r, code) ==
  IF code \in {"SESSION_CHANGED", "RUN_WRITE_UNKNOWN"}
    THEN "needs_reconciliation"
  ELSE IF code = "RUN_CANCELLED" THEN "cancelled"
  ELSE IF code = "TRANSIENT_ERROR" /\ run[r].attempt < run[r].maxAttempts
    THEN "retry_wait"
  ELSE "dead_letter"

StatusAfter(r, code) ==
  IF Unsafe(r) \/ code \in {"SESSION_CHANGED", "RUN_WRITE_UNKNOWN"}
    THEN "needs_reconciliation"
  ELSE IF code = "RUN_CANCELLED" THEN "cancelled"
  ELSE IF code = "TRANSIENT_ERROR" /\ run[r].attempt < run[r].maxAttempts
    THEN "retry_wait"
  ELSE "dead_letter"

Fail(w) ==
  /\ wk[w].pc = "fail"
  /\ Current(w)
  /\ LET status == StatusAfter(R(w), wk[w].code)
     IN  Change(R(w), [run[R(w)] EXCEPT
                         !.status = status,
                         !.leased = FALSE,
                         !.cancel = IF status = "cancelled"
                                      THEN "acknowledged" ELSE @])
  /\ GoIdle(w)
  /\ UNCHANGED <<session, own, sent>>

\* The process dies between two steps; a new one polls under the same name.
Crash(w) ==
  /\ wk[w].pc # "idle"
  /\ GoIdle(w)
  /\ UNCHANGED <<run, session, own, sent>>

-----------------------------------------------------------------------------
(* The specification *)

WorkerStep(w) ==
  \/ Fenced(w) \/ Interrupted(w) \/ ReadRow(w) \/ Conflict(w)
  \/ ReuseSnapshot(w) \/ StoreSnapshot(w) \/ GuardOwnership(w)
  \/ LookupCall(w) \/ BeginCall(w)
  \/ OperationReturns(w) \/ OperationRaises(w) \/ CompleteCall(w)
  \/ SaveSession(w) \/ FinishUnsafe(w) \/ Finish(w)
  \/ HandoffReads(w) \/ HandoffAppends(w) \/ HandoffMarks(w)
  \/ Fail(w)

Poll(w, r) ==
  \/ ClaimUnsafe(w, r) \/ ClaimCancelled(w, r)
  \/ ClaimExhausted(w, r) \/ Claim(w, r)

Next ==
  \/ \E r \in Runs : Submit(r) \/ Cancel(r) \/ Replay(r) \/ LeaseExpires(r)
  \/ \E s \in Sessions : TakeOver(s) \/ Release(s) \/ DeleteSession(s)
  \/ \E w \in Workers :
       \/ WorkerStep(w) \/ AgentRaises(w) \/ Heartbeat(w) \/ Crash(w)
       \/ \E r \in Runs : Poll(w, r)

Spec == Init /\ [][Next]_vars

\* Workers poll and step for ever, and time passes: what the run_worker loop
\* and the clock give.  Crashes, heartbeats and users owe nothing.
Fairness ==
  /\ \A w \in Workers : WF_vars(WorkerStep(w))
  /\ \A r \in Runs : WF_vars(LeaseExpires(r))
  /\ \A r \in Runs : WF_vars(\E w \in Workers : Poll(w, r))

LiveSpec == Spec /\ Fairness

-----------------------------------------------------------------------------
(* Properties *)

\* However workers crash, lose their lease or are retried and replayed, the
\* operation of a write call is invoked at most once per run.
WritesSentAtMostOnce ==
  \A r \in Runs, c \in Calls : Kind[c] = "write" => sent[r][c] <= 1

\* A worker that registered a write and has not yet invoked it is either still
\* the holder of the row, or the row has been parked for reconciliation: no
\* second worker ever executes the run beside an outstanding write.
OutstandingWriteIsIsolated ==
  \A w \in Workers :
    wk[w].pc = "op" /\ Kind[Idx(w)] = "write" =>
      \/ run[R(w)].status = "needs_reconciliation"
      \/ run[R(w)].status = "running" /\ run[R(w)].fence = wk[w].fence

\* A run with a write of unknown outcome never completes, is never cancelled,
\* dead-lettered, retried or replayed.
UnknownWriteNeverSettles ==
  \A r \in Runs : Unsafe(r) => run[r].status \in {"running", "needs_reconciliation"}

\* A cancelled run sent no write: an acknowledged cancellation is the truth.
CancelledSentNothing ==
  \A r \in Runs : run[r].status = "cancelled" =>
    \A c \in Calls : Kind[c] = "write" => sent[r][c] = 0

\* A session never has two runs that may still execute, replays included.
OneActiveRunPerSession ==
  \A q, r \in Runs :
    /\ SessionOf[q] = SessionOf[r]
    /\ run[q].status \in ACTIVE
    /\ run[r].status \in ACTIVE
    => q = r

\* The answers in a history are those of completed runs.
AnswersAreReal(h) ==
  \A i \in DOMAIN h :
    h[i].kind = "turn" =>
      LET row == run[h[i].run]
      IN  row.status = "completed" /\ (row.reply = "published" \/ row.handoff)

\* An answer in the history is the published answer of a completed run, or that
\* of a completed run that was handed over: there the unguarded write of another
\* hand-over can make the history look as the run has found it.
HistoryHoldsPublishedAnswers == \A s \in Sessions : AnswersAreReal(session[s])

\* No answer is published in a conversation that a human holds or has held
\* since the run was submitted.
NoAnswerAfterTakeover ==
  [][\A r \in Runs :
       run[r].reply = "none" /\ run'[r].reply = "published" => ~Lost(r)]_vars

\* A settled run stays settled; only a dead letter may be queued again.
SettledStays ==
  [][\A r \in Runs :
       /\ run[r].status \in {"completed", "cancelled", "needs_reconciliation"}
          => run'[r].status = run[r].status
       /\ run[r].status = "dead_letter"
          => run'[r].status \in {"dead_letter", "queued", "cancelled"}]_vars

\* Every submitted run reaches a terminal status, whatever crashes.
EveryRunSettles ==
  \A r \in Runs : run[r].status = "queued" ~> run[r].status \in TERMINAL

\* A handed-over run whose writes are all accounted for is not parked for
\* reconciliation: the hand-over itself ends the run.
HandoffEndsCompleted ==
  \A r \in Runs : run[r].handoff /\ ~Unsafe(r)
                  => run[r].status # "needs_reconciliation"

\* A worker that lost its lease changes nothing: an answer in the history of a
\* conversation stays there until the conversation is deleted.
Holds(h, e) == \E i \in DOMAIN h : h[i] = e
HistoryKeepsAnswers ==
  [][\A s \in Sessions, r \in Runs :
       Holds(session[s], TurnEntry(r)) =>
         Holds(session'[s], TurnEntry(r)) \/ session'[s] = <<>>]_vars

-----------------------------------------------------------------------------
(* The inductive invariant behind the safety properties *)

\* w still holds the row it claimed (its lease may have run out).
Holder(w) == run[R(w)].status = "running" /\ run[R(w)].fence = wk[w].fence

IsWrite(c) == Kind[c] = "write"

\* The journal never knows less than the outside world.
JournalOK(r) ==
  \A c \in Calls : IsWrite(c) =>
    /\ run[r].calls[c] # "none" => run[r].writeStarted
    /\ sent[r][c] # 0 => run[r].calls[c] # "none"
    /\ sent[r][c] <= 1

\* A cancelled run never registered a write, an unsafe one is never settled.
RowOK(r) ==
  /\ run[r].status = "cancelled" => ~run[r].writeStarted
  /\ Unsafe(r) => run[r].status \in {"running", "needs_reconciliation"}

\* What a busy worker remembers is not ahead of the row.
WorkerOK(w) ==
  /\ wk[w].pc # "idle" => /\ R(w) \in Runs
                          /\ wk[w].fence <= run[R(w)].fence
                          /\ wk[w].seen <= run[R(w)].version
  /\ wk[w].seen # 0 =>
       wk[w].pc \in {"load", "begin", "done", "mark", "finish", "fail"}
  /\ wk[w].pc \in {"begin", "op", "done"} => Idx(w) \in Calls
  /\ wk[w].pc = "done" => wk[w].result \in {"completed", "unknown"}

\* A CAS that will succeed is that of the holder, and what it read still holds.
CasOK(w) ==
  Current(w) => Holder(w) /\ (wk[w].pc = "finish" => ~Unsafe(R(w)))

\* What each stage of the worker knows about the row.
StageOK(w) ==
  /\ wk[w].pc = "begin" /\ IsWrite(Idx(w)) /\ Holder(w)
     => run[R(w)].calls[Idx(w)] = "none"
  /\ wk[w].pc = "op" /\ IsWrite(Idx(w))
     => /\ run[R(w)].status \in {"running", "needs_reconciliation"}
        /\ run[R(w)].fence = wk[w].fence
        /\ run[R(w)].calls[Idx(w)] = "in_flight"
        /\ sent[R(w)][Idx(w)] = 0
  /\ wk[w].pc = "done" /\ IsWrite(Idx(w)) /\ Holder(w)
     => run[R(w)].calls[Idx(w)] # "none"
  /\ wk[w].pc = "fail" /\ wk[w].code = "RUN_CANCELLED" /\ Holder(w)
     => ~run[R(w)].writeStarted

\* A fencing token is given to one worker only.
FenceOK(v, w) ==
  /\ wk[v].pc # "idle"
  /\ wk[w].pc # "idle"
  /\ R(v) = R(w)
  /\ wk[v].fence = wk[w].fence
  => v = w

\* The invariant that every step preserves; the journal, the fences and the
\* stages of the workers support each other.
IInv ==
  /\ TypeOK
  /\ \A r \in Runs : JournalOK(r) /\ RowOK(r)
  /\ \A w \in Workers : WorkerOK(w) /\ CasOK(w) /\ StageOK(w)
  /\ \A v, w \in Workers : FenceOK(v, w)

\* What a history may be written back from: the stored ones, the snapshots and
\* what a hand-over has read.  None of them holds an answer that was not given.
Histories ==
  {session[s] : s \in Sessions} \union {run[r].snap : r \in Runs}
  \union {wk[w].sess : w \in Workers}

HistoriesOK == \A h \in Histories : AnswersAreReal(h)

=============================================================================
