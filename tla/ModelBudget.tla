----------------------------- MODULE ModelBudget -----------------------------
(***************************************************************************)
(* The token ledger SharedBudget and the retry loop of the model gateway   *)
(* in front of it.  Every attempt of a caller is a call of its own: it     *)
(* reserves its estimate on the accounts of tenant, user and model, asks   *)
(* the provider, and settles what the provider reports.  A caller that     *)
(* dies or forgets leaves the reservation to expire(), which anybody runs. *)
(***************************************************************************)
EXTENDS Naturals, FiniteSets, FiniteSetsExt

CONSTANTS
  Callers,       \* the invocations of the gateway
  Accounts,      \* the rows of quota_accounts
  AccountsOf,    \* the accounts that a caller's calls are booked on
  MaxRetries,    \* model_max_retries
  Estimate,      \* the tokens a call reserves: its bytes and the output limit
  Usages,        \* what a call may really cost; the estimate is above all of it
  TokenBudget,   \* model_token_budget
  SharedRpm, SharedConcurrency

VARIABLES
  gw,       \* the gateway's place in the loop of _invoke
  calls,    \* the rows of model_calls
  account,  \* the rows of quota_accounts
  used      \* the tokens the provider has consumed for a call

vars == <<gw, calls, account, used>>

Calls == Callers \X (0 .. MaxRetries)

Booked(a) == {c \in Calls : a \in AccountsOf[c[1]]}

TypeOK ==
  /\ gw \in [Callers -> [pc: {"start", "reserve", "calling", "answered",
                              "silent", "error", "done", "refused", "dead"},
                         attempt: 0 .. MaxRetries]]
  /\ calls \in [Calls -> [status: {"none", "reserved", "settled",
                                   "needs_reconciliation", "reconciled"},
                          charged: Nat, recent: BOOLEAN, leased: BOOLEAN]]
  /\ account \in [Accounts -> [spent: Nat, reserved: Nat]]
  /\ used \in [Calls -> Nat]

Init ==
  /\ gw = [g \in Callers |-> [pc |-> "start", attempt |-> 0]]
  /\ calls = [c \in Calls |-> [status |-> "none", charged |-> 0,
                               recent |-> FALSE, leased |-> FALSE]]
  /\ account = [a \in Accounts |-> [spent |-> 0, reserved |-> 0]]
  /\ used = [c \in Calls |-> 0]

Goto(g, pc) == gw' = [gw EXCEPT ![g].pc = pc]

Current(g) == <<g, gw[g].attempt>>

-----------------------------------------------------------------------------
(* SharedBudget *)

\* (mutant of Claimed: a settlement that does not claim the call first)
ClaimedTwice(S) == {c \in S : calls[c].status # "none"}

\* A settlement moves a reserved call only, once.
Claimed(S) == {c \in S : calls[c].status = "reserved"}

\* settle() of each call of S that is still reserved: the call gives up its
\* reservation and is charged what charge[c] says, or its estimate when the
\* provider said nothing.
Settle(S, status, charge) ==
  LET T == Claimed(S)
  IN  /\ calls' = [c \in Calls |->
           IF c \in T
             THEN [calls[c] EXCEPT !.status = status, !.charged = charge[c],
                                   !.leased = FALSE]
             ELSE calls[c]]
      /\ account' = [a \in Accounts |->
           LET mine == T \intersect Booked(a)
           IN  [spent |-> account[a].spent + MapThenSumSet(LAMBDA c : charge[c], mine),
                reserved |-> account[a].reserved - Estimate * Cardinality(mine)]]

Estimated == [c \in Calls |-> Estimate]

\* expire(), which the gateway runs before each reservation.
Expire(g) ==
  /\ gw[g].pc = "start"
  /\ Settle({c \in Calls : ~calls[c].leased}, "needs_reconciliation", Estimated)
  /\ Goto(g, "reserve")
  /\ UNCHANGED used

\* (mutant of Affordable: what is reserved and not yet spent is not counted)
AffordableBySpent(a) == account[a].spent + Estimate <= TokenBudget

Affordable(a) ==
  account[a].spent + account[a].reserved + Estimate <= TokenBudget

Admitted(a) ==
  /\ Cardinality({c \in Booked(a) : calls[c].recent}) < SharedRpm
  /\ Cardinality({c \in Booked(a) :
                    calls[c].status = "reserved" /\ calls[c].leased})
       < SharedConcurrency

\* reserve(): the CAS on the tenant's row makes the checks and the insert one
\* step.  A refusal leaves the loop; so does a CAS lost sixteen times.
Reserve(g) ==
  /\ gw[g].pc = "reserve"
  /\ \/ /\ \A a \in AccountsOf[g] : Affordable(a) /\ Admitted(a)
        /\ calls' = [calls EXCEPT ![Current(g)] =
             [status |-> "reserved", charged |-> 0, recent |-> TRUE,
              leased |-> TRUE]]
        /\ account' = [a \in Accounts |->
             IF a \in AccountsOf[g]
               THEN [account[a] EXCEPT !.reserved = @ + Estimate]
               ELSE account[a]]
        /\ Goto(g, "calling")
     \/ Goto(g, "refused") /\ UNCHANGED <<calls, account>>
  /\ UNCHANGED used

\* reconcile(): an operator enters the provider's receipt for a call that is over.
Reconcile(c) ==
  /\ calls[c].status = "needs_reconciliation"
  /\ ~(Current(c[1]) = c /\ gw[c[1]].pc = "calling")
  /\ calls' = [calls EXCEPT ![c].status = "reconciled", ![c].charged = used[c]]
  /\ account' = [a \in Accounts |->
       IF c \in Booked(a)
         THEN [account[a] EXCEPT !.spent = @ + used[c] - calls[c].charged]
         ELSE account[a]]
  /\ UNCHANGED <<gw, used>>

-----------------------------------------------------------------------------
(* The loop of _invoke *)

\* The provider answers with its usage or without it, or the call fails after
\* the provider has worked on it, or before.
Answer(g) ==
  /\ gw[g].pc = "calling"
  /\ \/ \E pc \in {"answered", "silent", "error"}, u \in Usages :
          Goto(g, pc) /\ used' = [used EXCEPT ![Current(g)] = u]
     \/ Goto(g, "error") /\ UNCHANGED used
  /\ UNCHANGED <<calls, account>>

Complete(g) ==
  /\ \/ /\ gw[g].pc = "answered"
        /\ Settle({Current(g)}, "settled", used)
     \/ /\ gw[g].pc = "silent"
        /\ Settle({Current(g)}, "needs_reconciliation", Estimated)
  /\ Goto(g, "done")
  /\ UNCHANGED used

\* settle() itself may fail; the answer is then lost and the call is tried again.
SettleFails(g) ==
  /\ gw[g].pc \in {"answered", "silent"}
  /\ Goto(g, "error")
  /\ UNCHANGED <<calls, account, used>>

Retry(g) ==
  /\ gw[g].pc = "error"
  /\ Settle({Current(g)}, "needs_reconciliation", Estimated)
  /\ gw' = [gw EXCEPT ![g] =
       IF gw[g].attempt < MaxRetries
         THEN [pc |-> "start", attempt |-> gw[g].attempt + 1]
         ELSE [gw[g] EXCEPT !.pc = "done"]]
  /\ UNCHANGED used

\* A process dies; the provider may still work on the call that it has.
Crash(g) ==
  /\ gw[g].pc \notin {"done", "refused", "dead"}
  /\ Goto(g, "dead")
  /\ \/ UNCHANGED used
     \/ /\ gw[g].pc = "calling"
        /\ \E u \in Usages : used' = [used EXCEPT ![Current(g)] = u]
  /\ UNCHANGED <<calls, account>>

\* The lease is the timeout of the model and five seconds.
LeaseEnds(c) ==
  /\ calls[c].leased
  /\ calls' = [calls EXCEPT ![c].leased = FALSE]
  /\ UNCHANGED <<gw, account, used>>

\* A minute in which no call starts empties the window of the rate limit.
MinutePasses ==
  /\ \E c \in Calls : calls[c].recent
  /\ calls' = [c \in Calls |-> [calls[c] EXCEPT !.recent = FALSE]]
  /\ UNCHANGED <<gw, account, used>>

Next ==
  \/ \E g \in Callers : \/ Expire(g) \/ Reserve(g) \/ Answer(g) \/ Complete(g)
                        \/ SettleFails(g) \/ Retry(g) \/ Crash(g)
  \/ \E c \in Calls : Reconcile(c) \/ LeaseEnds(c)
  \/ MinutePasses

Spec == Init /\ [][Next]_vars

-----------------------------------------------------------------------------

Charged(c) == calls[c].charged

\* The accounts agree with the calls: what is reserved is what the open calls
\* hold, what is spent is what the closed ones were charged, however often a
\* call was expired, settled late, tried again or reconciled.
LedgerBalances ==
  \A a \in Accounts :
    /\ account[a].spent = MapThenSumSet(Charged, Booked(a))
    /\ account[a].reserved =
         Estimate * Cardinality({c \in Booked(a) : calls[c].status = "reserved"})

\* No account's calls consume more than the token budget, although calls overlap,
\* outlive their lease and are tried again after an answer that was lost.
UseWithinBudget ==
  \A a \in Accounts : MapThenSumSet(LAMBDA c : used[c], Booked(a)) <= TokenBudget

=============================================================================
