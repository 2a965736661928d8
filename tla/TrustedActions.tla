--------------------------- MODULE TrustedActions ---------------------------
(***************************************************************************)
(* The execution boundary of the write tools in one conversation: a tool   *)
(* call proposes an action, the customer confirms it, a call claims and    *)
(* dispatches it, and a human may take the conversation over at any time.  *)
(*                                                                         *)
(* A record of `act` is a row of action_proposals.  A thread is one call   *)
(* of ToolExecutionService.execute or confirm, cut at every transaction    *)
(* and every read of the business systems; what it read may be stale by    *)
(* the time it is used.                                                    *)
(***************************************************************************)
EXTENDS Naturals

CONSTANTS
  Threads,       \* calls of the boundary: Agents, plans and API requests
  Args,          \* tool calls: a tool with its arguments
  Versions,      \* digests of a business snapshot
  MaxActions,    \* bound: proposals that are ever made
  MaxOwnership,  \* bound: ownership transitions stop at this version
  NoArgs,        \* the arguments of a proposal that was not made
  NoVersion      \* the snapshot of a thread that took none

ASSUME ActionAssumption ==
  /\ MaxActions \in Nat
  /\ MaxOwnership \in Nat
  /\ NoArgs \notin Args
  /\ NoVersion \notin Versions

VARIABLES
  act,         \* action_proposals
  consent,     \* action_confirmations: the ownership version at the time, or 0
  own,         \* conversation_ownership
  biz,         \* what business_snapshot would return now
  th,          \* the local state of each thread
  dispatched,  \* history: how often each action reached its tool
  since        \* history: the snapshots in force since an action was claimed

vars == <<act, consent, own, biz, th, dispatched, since>>

-----------------------------------------------------------------------------
(* Vocabulary *)

Ids == 1 .. MaxActions

\* The statuses the update of _invalidate touches, and those of an action that
\* was claimed.
OPEN == {"pending", "confirmed"}
STARTED == {"executing", "completed", "unknown"}
WITHDRAWN == {"rejected", "invalidated", "expired"}

\* A completed action stores what its caller is told: that its tool was called
\* (done), or that it was not (refused).
Results == {"none", "done", "refused", "unknown"}

Rows == [status: OPEN \union STARTED \union WITHDRAWN \union {"none"},
         args: Args \union {NoArgs}, version: Versions \union {NoVersion},
         expired: BOOLEAN, result: Results]

NoRow == [status |-> "none", args |-> NoArgs, version |-> NoVersion,
          expired |-> FALSE, result |-> "none"]

Proposal(x, v) == [status |-> "pending", args |-> x, version |-> v,
                   expired |-> FALSE, result |-> "none"]

Pcs == {"idle", "snapshot", "row", "validate", "claim", "reread", "dispatch",
        "finish", "confirmSnapshot", "confirm", "commit"}

\* id is 0 until a call without an action id has its proposal.
ThreadStates ==
  [pc: Pcs, args: Args \union {NoArgs}, id: Ids \union {0},
   seen: OPEN \union STARTED \union WITHDRAWN \union {"none"},
   version: Versions \union {NoVersion}, result: Results]

At(p, x, a) == [pc |-> p, args |-> x, id |-> a, seen |-> "none",
                version |-> NoVersion, result |-> "none"]
IdleThread == At("idle", NoArgs, 0)

TypeOK ==
  /\ act \in [Ids -> Rows]
  /\ consent \in [Ids -> Nat]
  /\ own \in [human: BOOLEAN, version: Nat \ {0}]
  /\ biz \in [Args -> Versions]
  /\ th \in [Threads -> ThreadStates]
  /\ dispatched \in [Ids -> Nat]
  /\ since \in [Ids -> SUBSET Versions]

Init ==
  /\ act = [a \in Ids |-> NoRow]
  /\ consent = [a \in Ids |-> 0]
  /\ own = [human |-> FALSE, version |-> 1]
  /\ biz \in [Args -> Versions]
  /\ th = [t \in Threads |-> IdleThread]
  /\ dispatched = [a \in Ids |-> 0]
  /\ since = [a \in Ids |-> {}]

Goto(t, p) == th' = [th EXCEPT ![t].pc = p]
Leave(t) == th' = [th EXCEPT ![t] = IdleThread]

Made(a) == act[a].status # "none"

\* The update that withdraws those of the actions A that nobody has claimed.
WithdrawAny(A, s) ==
  act' = [a \in Ids |-> IF a \in A /\ Made(a)
                          THEN [act[a] EXCEPT !.status = s] ELSE act[a]]

Withdraw(A, s) ==
  act' = [a \in Ids |-> IF a \in A /\ act[a].status \in OPEN
                          THEN [act[a] EXCEPT !.status = s] ELSE act[a]]

\* ActionService.validate: why an unclaimed action may not go on at snapshot v.
Refusal(a, v) ==
  IF act[a].expired THEN "expired"
  ELSE IF act[a].version # v THEN "invalidated"
  ELSE "none"

-----------------------------------------------------------------------------
(* ToolExecutionService.execute *)

\* A tool call of the Agent or a plan; the ownership check comes first.
Call(t, x) ==
  /\ th[t].pc = "idle"
  /\ ~own.human
  /\ th' = [th EXCEPT ![t] = At("snapshot", x, 0)]
  /\ UNCHANGED <<act, consent, own, biz, dispatched, since>>

\* A call that names its action: the API, a chat confirmation, a resumed plan.
CallAction(t, a) ==
  /\ th[t].pc = "idle"
  /\ Made(a)
  /\ ~own.human
  /\ th' = [th EXCEPT ![t] = At("snapshot", act[a].args, a)]
  /\ UNCHANGED <<act, consent, own, biz, dispatched, since>>

\* business_snapshot, of execute and of confirm.
Snapshot(t) ==
  /\ th[t].pc \in {"snapshot", "confirmSnapshot"}
  /\ th' = [th EXCEPT ![t].version = biz[th[t].args],
                      ![t].pc = IF @ = "snapshot" THEN "row" ELSE "confirm"]
  /\ UNCHANGED <<act, consent, own, biz, dispatched, since>>

GetRow(t, a) ==
  th' = [th EXCEPT ![t].pc = "validate", ![t].id = a,
                   ![t].seen = act[a].status]

ReadRow(t) ==
  /\ th[t].pc = "row"
  /\ th[t].id # 0
  /\ GetRow(t, th[t].id)
  /\ UNCHANGED <<act, consent, own, biz, dispatched, since>>

\* The proposals that the deduplication of propose looks at, and the one of
\* them that it returns.
Same(x, v) ==
  {a \in Ids : /\ Made(a)
               /\ act[a].args = x
               /\ act[a].version = v
               /\ ~act[a].expired}

Latest(a, x, v) == a \in Same(x, v) /\ \A b \in Same(x, v) : b <= a

ReuseProposal(t) ==
  /\ th[t].pc = "row"
  /\ th[t].id = 0
  /\ \E a \in Ids : Latest(a, th[t].args, th[t].version) /\ GetRow(t, a)
  /\ UNCHANGED <<act, consent, own, biz, dispatched, since>>

Propose(t) ==
  /\ th[t].pc = "row"
  /\ th[t].id = 0
  /\ Same(th[t].args, th[t].version) = {}
  /\ \E a \in Ids :
       /\ ~Made(a)
       /\ \A b \in 1 .. (a - 1) : Made(b)
       /\ act' = [act EXCEPT ![a] = Proposal(th[t].args, th[t].version)]
       /\ th' = [th EXCEPT ![t].pc = "validate", ![t].id = a,
                           ![t].seen = "pending"]
  /\ UNCHANGED <<consent, own, biz, dispatched, since>>

\* validate() on a row read with status seen, and what follows it: on to the
\* next stage if the row had the wanted status.
Checked(t, seen, wanted, next) ==
  LET a == th[t].id
      refusal == Refusal(a, th[t].version)
  IN  /\ IF seen \in STARTED \/ refusal = "none" THEN UNCHANGED act
         ELSE Withdraw({a}, refusal)
      /\ IF seen = wanted /\ refusal = "none"
           THEN th' = [th EXCEPT ![t] = At(next, th[t].args, a)]
           ELSE Leave(t)

Validate(t) ==
  /\ th[t].pc = "validate"
  /\ Checked(t, th[t].seen, "confirmed", "claim")
  /\ UNCHANGED <<consent, own, biz, dispatched, since>>

\* claim: the ownership row is locked, then confirmed -> executing.
ClaimedAgain(t) ==
  /\ ~own.human
  /\ act[th[t].id].status \in {"confirmed", "executing"}
  /\ ~act[th[t].id].expired

ClaimedUnderHuman(t) ==
  /\ act[th[t].id].status = "confirmed"
  /\ ~act[th[t].id].expired

Claimed(t) ==
  /\ ~own.human
  /\ act[th[t].id].status = "confirmed"
  /\ ~act[th[t].id].expired

Claim(t) ==
  /\ th[t].pc = "claim"
  /\ LET a == th[t].id
     IN  IF Claimed(t)
           THEN /\ act' = [act EXCEPT ![a].status = "executing"]
                /\ since' = [since EXCEPT ![a] = {biz[act[a].args]}]
                /\ Goto(t, "reread")
           ELSE Leave(t) /\ UNCHANGED <<act, since>>
  /\ UNCHANGED <<consent, own, biz, dispatched>>

\* The business is read again after the claim.
RereadUnchecked(t) ==
  /\ th[t].pc = "reread"
  /\ Goto(t, "dispatch")
  /\ UNCHANGED <<act, consent, own, biz, dispatched, since>>

Reread(t) ==
  /\ th[t].pc = "reread"
  /\ Refusal(th[t].id, biz[th[t].args]) = "none"
  /\ Goto(t, "dispatch")
  /\ UNCHANGED <<act, consent, own, biz, dispatched, since>>

\* The second validation or the deadline stops the call after the claim, or
\* the snapshot raises.
Refuse(t) ==
  /\ th[t].pc \in {"reread", "dispatch"}
  /\ \E res \in {"refused", "unknown"} :
       th' = [th EXCEPT ![t].pc = "finish", ![t].result = res]
  /\ UNCHANGED <<act, consent, own, biz, dispatched, since>>

\* ToolRegistry.execute: the tool answers, or nobody knows.
Dispatch(t) ==
  /\ th[t].pc = "dispatch"
  /\ dispatched' = [dispatched EXCEPT ![th[t].id] = @ + 1]
  /\ \E res \in {"done", "unknown"} :
       th' = [th EXCEPT ![t].pc = "finish", ![t].result = res]
  /\ UNCHANGED <<act, consent, own, biz, since>>

Finish(t) ==
  /\ th[t].pc = "finish"
  /\ LET a == th[t].id
     IN  act' = IF act[a].status = "executing"
                  THEN [act EXCEPT
                          ![a].status = IF th[t].result = "unknown"
                                          THEN "unknown" ELSE "completed",
                          ![a].result = th[t].result]
                  ELSE act
  /\ Leave(t)
  /\ UNCHANGED <<consent, own, biz, dispatched, since>>

\* The deadline before the claim, prepare_only, an interrupted run or the death
\* of the process: the thread is gone and its action stays as it is.
Stop(t) ==
  /\ th[t].pc # "idle"
  /\ Leave(t)
  /\ UNCHANGED <<act, consent, own, biz, dispatched, since>>

-----------------------------------------------------------------------------
(* The customer: confirm, reject, and what deletes or resets a conversation *)

AskConfirm(t, a) ==
  /\ th[t].pc = "idle"
  /\ Made(a)
  /\ act[a].status \notin STARTED
  /\ th' = [th EXCEPT ![t] = At("confirmSnapshot", act[a].args, a)]
  /\ UNCHANGED <<act, consent, own, biz, dispatched, since>>

ConfirmChecks(t) ==
  /\ th[t].pc = "confirm"
  /\ Checked(t, act[th[t].id].status, "pending", "commit")
  /\ UNCHANGED <<consent, own, biz, dispatched, since>>

ConfirmCommits(t) ==
  /\ th[t].pc = "commit"
  /\ LET a == th[t].id
     IN  IF act[a].status = "pending" /\ ~act[a].expired
           THEN /\ act' = [act EXCEPT ![a].status = "confirmed"]
                /\ consent' = [consent EXCEPT ![a] = own.version]
           ELSE UNCHANGED <<act, consent>>
  /\ Leave(t)
  /\ UNCHANGED <<own, biz, dispatched, since>>

\* reject, and revoke_scope of a conversation or of a plan's actions.
Revoke(A) ==
  /\ \E a \in A : act[a].status \in OPEN
  /\ Withdraw(A, "rejected")
  /\ UNCHANGED <<consent, own, biz, th, dispatched, since>>

-----------------------------------------------------------------------------
(* The operator: ConversationHandoffService *)

TakeOverKeepingConsent ==
  /\ ~own.human
  /\ own.version < MaxOwnership
  /\ \A a \in Ids : act[a].status # "executing"
  /\ own' = [human |-> TRUE, version |-> own.version + 1]
  /\ Withdraw({a \in Ids : act[a].status = "pending"}, "invalidated")
  /\ UNCHANGED <<consent, biz, th, dispatched, since>>

TakeOver ==
  /\ ~own.human
  /\ own.version < MaxOwnership
  /\ \A a \in Ids : act[a].status # "executing"
  /\ own' = [human |-> TRUE, version |-> own.version + 1]
  /\ Withdraw(Ids, "invalidated")
  /\ UNCHANGED <<consent, biz, th, dispatched, since>>

Release ==
  /\ own.human
  /\ own.version < MaxOwnership
  /\ own' = [human |-> FALSE, version |-> own.version + 1]
  /\ UNCHANGED <<act, consent, biz, th, dispatched, since>>

\* revise_action: also an action that was already rejected or has expired.
Revise(a) ==
  /\ own.human
  /\ Made(a)
  /\ act[a].status \notin STARTED
  /\ act' = [act EXCEPT ![a].status = "invalidated"]
  /\ UNCHANGED <<consent, own, biz, th, dispatched, since>>

-----------------------------------------------------------------------------
(* The clock and the business *)

\* All proposals live equally long, so they expire in the order of creation.
Expire(a) ==
  /\ Made(a)
  /\ ~act[a].expired
  /\ \A b \in 1 .. (a - 1) : act[b].expired
  /\ act' = [act EXCEPT ![a].expired = TRUE]
  /\ UNCHANGED <<consent, own, biz, th, dispatched, since>>

\* Orders, cases, approvals, rules and evidence change under everyone's feet.
BusinessChanges(x, v) ==
  /\ biz[x] # v
  /\ biz' = [biz EXCEPT ![x] = v]
  /\ since' = [a \in Ids |-> IF act[a].args = x /\ act[a].status = "executing"
                               THEN since[a] \union {v} ELSE since[a]]
  /\ UNCHANGED <<act, consent, own, th, dispatched>>

-----------------------------------------------------------------------------
(* The specification *)

ThreadStep(t) ==
  \/ Snapshot(t) \/ ReadRow(t) \/ ReuseProposal(t) \/ Propose(t)
  \/ Validate(t) \/ Claim(t) \/ Reread(t) \/ Refuse(t) \/ Dispatch(t)
  \/ Finish(t) \/ Stop(t) \/ ConfirmChecks(t) \/ ConfirmCommits(t)

Next ==
  \/ \E t \in Threads :
       \/ ThreadStep(t)
       \/ \E x \in Args : Call(t, x)
       \/ \E a \in Ids : CallAction(t, a) \/ AskConfirm(t, a)
  \/ \E A \in SUBSET Ids : Revoke(A)
  \/ TakeOver \/ Release
  \/ \E a \in Ids : Revise(a) \/ Expire(a)
  \/ \E x \in Args, v \in Versions : BusinessChanges(x, v)

Spec == Init /\ [][Next]_vars

-----------------------------------------------------------------------------
(* Properties *)

\* However many calls race for a confirmed action, its tool is called at most
\* once: a confirmation is consumed.
DispatchedAtMostOnce == \A a \in Ids : dispatched[a] <= 1

\* What reached its tool was confirmed by the customer, and never ends up as
\* rejected, invalidated or expired: whoever is told that an action is off can
\* rely on it.
WithdrawnWasNotDispatched ==
  \A a \in Ids : dispatched[a] # 0 => consent[a] # 0 /\ act[a].status \in STARTED

\* While a human holds the conversation no call is between its claim and the
\* storing of its result: the takeover and the claim exclude each other.
QuietUnderHuman ==
  own.human => \A t \in Threads : th[t].pc \notin {"reread", "dispatch", "finish"}

\* At some moment since the claim the business was exactly what the customer
\* confirmed: no change that came before the claim is overlooked.
DispatchedAsConfirmed ==
  \A a \in Ids : dispatched[a] # 0 => act[a].version \in since[a]

\* A stored result is the truth about the tool: a refusal means it was never
\* called, an answer that it was called once.
StoredResultIsTrue ==
  \A a \in Ids : act[a].status = "completed" =>
    dispatched[a] = (IF act[a].result = "done" THEN 1 ELSE 0)

\* A takeover ends every consent given before it, however soon the operator
\* releases the conversation: what is dispatched was confirmed after the
\* latest takeover.
OldConsentNeverRevives ==
  [][\A a \in Ids : dispatched'[a] # dispatched[a]
       => consent[a] # 0 /\ consent[a] + 1 >= own.version]_vars

-----------------------------------------------------------------------------
(* The inductive invariant behind the safety properties *)

\* Between the claim and the end of the call.
Working(t) == th[t].pc \in {"reread", "dispatch", "finish"}

\* What the row of an action says about its history.
RowOK(a) ==
  /\ Made(a) => act[a].args \in Args
  /\ act[a].status \in STARTED \union {"confirmed"} => consent[a] # 0
  /\ act[a].status \notin STARTED => dispatched[a] = 0
  /\ dispatched[a] <= 1
  /\ act[a].status = "completed" =>
       dispatched[a] = (IF act[a].result = "done" THEN 1 ELSE 0)

\* A consent that may still be used was given after the latest takeover.
ConsentOK(a) ==
  act[a].status \in {"confirmed", "executing"} =>
    consent[a] + (IF own.human THEN 0 ELSE 1) >= own.version

\* The snapshots since the claim: the present one while the action executes,
\* the confirmed one once it was dispatched.
SinceOK(a) ==
  /\ act[a].status = "executing" => biz[act[a].args] \in since[a]
  /\ dispatched[a] # 0 => act[a].version \in since[a]

\* A busy thread holds the arguments of its action; a working one has claimed
\* it, and knows whether its tool was called.
ThreadOK(t) ==
  /\ th[t].pc # "idle" => th[t].args \in Args
  /\ th[t].pc \notin {"idle", "snapshot", "row"} => th[t].id # 0
  /\ th[t].id # 0 => Made(th[t].id) /\ act[th[t].id].args = th[t].args
  /\ Working(t) => act[th[t].id].status = "executing"
  /\ th[t].pc \in {"reread", "dispatch"} => dispatched[th[t].id] = 0
  /\ th[t].pc = "dispatch" => act[th[t].id].version \in since[th[t].id]
  /\ th[t].pc = "finish" =>
       /\ th[t].result = "done" => dispatched[th[t].id] = 1
       /\ th[t].result # "done" =>
            th[t].result = "unknown" \/ dispatched[th[t].id] = 0

\* An executing action has at most one thread.
Alone(t, u) == Working(t) /\ Working(u) /\ th[t].id = th[u].id => t = u

\* The invariant that every step preserves.
IInv ==
  /\ TypeOK
  /\ \A a \in Ids : RowOK(a) /\ ConsentOK(a) /\ SinceOK(a)
  /\ own.human => \A a \in Ids : act[a].status # "executing"
  /\ \A t \in Threads : ThreadOK(t)
  /\ \A t, u \in Threads : Alone(t, u)

=============================================================================
