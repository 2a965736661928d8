---------------------------- MODULE Compensation ----------------------------
(***************************************************************************)
(* Compensation operations: an admin asks for the reversal of a succeeded  *)
(* refund, and later calls execute it, each under a lease of its own.      *)
(*                                                                         *)
(* A record of `row` is a row of compensation_operations.  An invocation   *)
(* is one call of CompensationService.execute or mark_manual_success, cut  *)
(* at every transaction and at the call of the provider; it works with the *)
(* row as it read it (its item).  Its owner name is drawn afresh, so an    *)
(* invocation happens once and is named by itself.                         *)
(***************************************************************************)
EXTENDS Naturals

CONSTANTS
  Keys,         \* idempotency keys: a source operation and an action
  Supported,    \* the keys whose action the provider offers
  Invocations,
  MaxAttempts,  \* max_attempts of the service
  NoOne, NoKey

VARIABLES
  row,       \* compensation_operations
  reversed,  \* the keys with a row in the provider's compensations
  inv        \* the local state of each invocation

vars == <<row, reversed, inv>>

-----------------------------------------------------------------------------
(* Vocabulary *)

Statuses == {"none", "pending", "running", "succeeded", "failed", "exhausted",
             "needs_manual"}

\* lease: lease_expires_at is in the future; manual: the result says that a
\* human did it.
Rows == [status: Statuses, attempt: 0 .. MaxAttempts,
         owner: Invocations \union {NoOne}, lease: BOOLEAN, manual: BOOLEAN]

NoRow == [status |-> "none", attempt |-> 0, owner |-> NoOne, lease |-> FALSE,
          manual |-> FALSE]

Pcs == {"new", "exhaust", "claim", "reread", "call", "succeed", "fail",
        "unsupported", "manual", "done"}

InvocationStates == [pc: Pcs, key: Keys \union {NoKey}, item: Rows]

TypeOK ==
  /\ row \in [Keys -> Rows]
  /\ reversed \subseteq Keys
  /\ inv \in [Invocations -> InvocationStates]

Init ==
  /\ row = [k \in Keys |-> NoRow]
  /\ reversed = {}
  /\ inv = [i \in Invocations |-> [pc |-> "new", key |-> NoKey, item |-> NoRow]]

Goto(i, p) == inv' = [inv EXCEPT ![i].pc = p]

\* get: the invocation takes the row as its item.
Take(i, k, p) == inv' = [inv EXCEPT ![i] = [pc |-> p, key |-> k, item |-> row[k]]]

\* The WHERE of claim and _update: is the row still the item?
Matches(i) ==
  LET r == row[inv[i].key]
      x == inv[i].item
  IN  r.status = x.status /\ r.owner = x.owner /\ r.attempt = x.attempt

\* _update: a running item is finished under a live lease only.
Finish(i, s, manual) ==
  /\ LET k == inv[i].key
     IN  row' = IF /\ Matches(i)
                   /\ inv[i].item.status = "running" => row[k].lease
                  THEN [row EXCEPT ![k] = [inv[i].item EXCEPT
                         !.status = s, !.owner = NoOne, !.lease = FALSE,
                         !.manual = manual]]
                  ELSE row
  /\ Goto(i, "done")
  /\ UNCHANGED reversed

-----------------------------------------------------------------------------
(* The request, and the claim of an invocation *)

\* request, then create: the unique key makes a second request the same row.
Request(k) ==
  /\ row[k].status = "none"
  /\ row' = [row EXCEPT ![k] = [NoRow EXCEPT !.status = "pending"]]
  /\ UNCHANGED <<reversed, inv>>

\* What claim does with the row that it reads.
VerdictWithoutLimit(r) ==
  IF \/ r.status \in {"succeeded", "needs_manual"}
     \/ r.status = "running" /\ r.lease
    THEN "done"
    ELSE "claim"

Verdict(r) ==
  CASE r.status \in {"succeeded", "needs_manual"} -> "done"
    [] r.status = "running" /\ r.lease -> "done"
    [] OTHER -> IF r.attempt >= MaxAttempts THEN "exhaust" ELSE "claim"

Execute(i, k) ==
  /\ inv[i].pc = "new"
  /\ row[k].status # "none"
  /\ Take(i, k, Verdict(row[k]))
  /\ UNCHANGED <<row, reversed>>

\* After the claim, won or lost, the row is read again: a settled row, or one
\* that another invocation runs, ends the call.
ProceedRunningOnly(r, i) ==
  IF r.status = "running" /\ r.owner # i THEN "done" ELSE "call"

Proceed(r, i) ==
  IF \/ r.status \in {"succeeded", "exhausted", "needs_manual"}
     \/ r.status = "running" /\ r.owner # i
    THEN "done"
    ELSE "call"

\* _update with "exhausted", which does not look at the lease; an invocation that
\* comes too late goes on with the row that it finds.
Exhaust(i) ==
  /\ inv[i].pc = "exhaust"
  /\ LET k == inv[i].key
     IN  IF Matches(i)
           THEN /\ row' = [row EXCEPT ![k] = [inv[i].item EXCEPT
                             !.status = "exhausted", !.owner = NoOne,
                             !.lease = FALSE]]
                /\ Goto(i, "done")
           ELSE /\ Goto(i, "reread")
                /\ UNCHANGED row
  /\ UNCHANGED reversed

Claim(i) ==
  /\ inv[i].pc = "claim"
  /\ LET k == inv[i].key
     IN  row' = IF Matches(i)
                  THEN [row EXCEPT ![k].status = "running", ![k].owner = i,
                                   ![k].attempt = @ + 1, ![k].lease = TRUE]
                  ELSE row
  /\ Goto(i, "reread")
  /\ UNCHANGED reversed

Reread(i) ==
  /\ inv[i].pc = "reread"
  /\ LET k == inv[i].key IN Take(i, k, Proceed(row[k], i))
  /\ UNCHANGED <<row, reversed>>

-----------------------------------------------------------------------------
(* The call of the provider and its result *)

\* SandboxStore.compensate: it reverses the source or finds that it did.
ReversalPromised(k) == UNCHANGED reversed
ReversalMade(k) == reversed' = reversed \union {k}

\* The provider answers; its answer is lost; it fails; or it does not offer the
\* action, which its capabilities tell before anything is sent.
Call(i) ==
  /\ inv[i].pc = "call"
  /\ LET k == inv[i].key
     IN  \/ k \in Supported /\ ReversalMade(k) /\ Goto(i, "succeed")
         \/ k \in Supported /\ ReversalMade(k) /\ Goto(i, "fail")
         \/ UNCHANGED reversed /\ Goto(i, "fail")
         \/ k \notin Supported /\ UNCHANGED reversed /\ Goto(i, "unsupported")
  /\ UNCHANGED row

Succeed(i) == inv[i].pc = "succeed" /\ Finish(i, "succeeded", FALSE)
Fail(i) == inv[i].pc = "fail" /\ Finish(i, "failed", FALSE)
Unsupported(i) == inv[i].pc = "unsupported" /\ Finish(i, "needs_manual", FALSE)

\* mark_manual_success: a human has dealt with the matter.
ReadForManual(i, k) ==
  /\ inv[i].pc = "new"
  /\ row[k].status # "none"
  /\ Take(i, k, "manual")
  /\ UNCHANGED <<row, reversed>>

MarkManual(i) == inv[i].pc = "manual" /\ Finish(i, "succeeded", TRUE)

-----------------------------------------------------------------------------
(* Time, crashes, retention *)

LeaseExpires(k) ==
  /\ row[k].lease
  /\ row' = [row EXCEPT ![k].lease = FALSE]
  /\ UNCHANGED <<reversed, inv>>

Crash(i) ==
  /\ inv[i].pc \notin {"new", "done"}
  /\ Goto(i, "done")
  /\ UNCHANGED <<row, reversed>>

\* Retention deletes settled rows long after the last invocation on them.
Retire(k) ==
  /\ row[k].status \in {"succeeded", "exhausted"}
  /\ \A i \in Invocations : inv[i].key = k => inv[i].pc = "done"
  /\ row' = [row EXCEPT ![k] = NoRow]
  /\ UNCHANGED <<reversed, inv>>

-----------------------------------------------------------------------------
(* The specification *)

Step(i) ==
  \/ Exhaust(i) \/ Claim(i) \/ Reread(i) \/ Call(i) \/ Succeed(i) \/ Fail(i)
  \/ Unsupported(i) \/ MarkManual(i) \/ Crash(i)

Next ==
  \/ \E k \in Keys :
       \/ Request(k) \/ LeaseExpires(k) \/ Retire(k)
       \/ \E i \in Invocations : Execute(i, k) \/ ReadForManual(i, k)
  \/ \E i \in Invocations : Step(i)

Spec == Init /\ [][Next]_vars

-----------------------------------------------------------------------------
(* Properties *)

\* A compensation that is reported as done was done: by the provider, or by the
\* human who says so, even when the invocation that reports it never had a claim.
SuccessIsReal ==
  \A k \in Keys : row[k].status = "succeeded" => row[k].manual \/ k \in reversed

\* A success, and a compensation handed to humans, are not undone by an
\* invocation that read the row earlier: the first stays until retention, the
\* second until a human marks it.
SettlementStays ==
  [][\A k \in Keys :
       /\ row[k].status = "succeeded" => row'[k].status \in {"succeeded", "none"}
       /\ row[k].status = "needs_manual" =>
            \/ row'[k] = row[k]
            \/ row'[k].status = "succeeded" /\ row'[k].manual]_vars

\* Each invocation owns a lease of its own when it calls the provider.
CallerOwnsLease ==
  \A i \in Invocations : inv[i].pc = "call" => inv[i].item.owner = i

-----------------------------------------------------------------------------
(* The inductive invariant behind the safety properties *)

Settled == {"succeeded", "needs_manual"}

\* What an invocation has read at each of its steps, and that its success is one
\* of the provider.
InvocationOK(i) ==
  LET x == inv[i]
  IN  /\ x.pc \notin {"new", "done"} => x.key \in Keys
      /\ x.pc \in {"exhaust", "claim", "call", "succeed", "fail", "unsupported"}
           => x.item.status \notin Settled
      /\ x.pc = "claim" => x.item.attempt < MaxAttempts
      /\ x.pc = "succeed" => x.key \in reversed

\* The invariant that every step preserves.
IInv ==
  /\ TypeOK
  /\ SuccessIsReal
  /\ \A k \in Keys : row[k].lease => row[k].status = "running"
  /\ \A i \in Invocations : InvocationOK(i)

=============================================================================
