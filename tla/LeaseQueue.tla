----------------------------- MODULE LeaseQueue -----------------------------
(***************************************************************************)
(* The SQL lease queue behind the refund outbox, the reconciliation jobs,  *)
(* the sandbox callbacks, the knowledge jobs and the inventory jobs: what  *)
(* each operation does to one row.  The owner of a queue holds its rows in *)
(* a variable; a lease is a flag that time may drop at any moment.         *)
(***************************************************************************)
EXTENDS Naturals

CONSTANTS
  Workers,   \* the processes that poll a queue
  NoWorker   \* the owner of a message nobody claimed

ASSUME QueueAssumption == NoWorker \notin Workers

Messages ==
  [status: {"none", "pending", "running", "sent", "dead"},
   owner: Workers \union {NoWorker}, fence: Nat, attempt: Nat, max: Nat,
   leased: BOOLEAN]

NoMessage ==
  [status |-> "none", owner |-> NoWorker, fence |-> 0, attempt |-> 0,
   max |-> 0, leased |-> FALSE]

\* enqueue: a message that is due at once or after a while.
NewMessage(max) == [NoMessage EXCEPT !.status = "pending", !.max = max]

ClaimableWhenPending(m) == m.status = "pending"

\* The rows claim() selects.  Its read and its CAS on the row's version are one
\* step: a claimable row stays claimable until somebody changes its version.
Claimable(m) ==
  \/ m.status = "pending"
  \/ m.status = "running" /\ ~m.leased

ClaimedUncounted(m, w) ==
  [m EXCEPT !.status = "running", !.owner = w, !.fence = @ + 1, !.leased = TRUE]

\* A last attempt that ran out of its lease is surfaced as dead.
ClaimedBy(m, w) ==
  IF m.attempt < m.max
    THEN [m EXCEPT !.status = "running", !.owner = w, !.fence = @ + 1,
                   !.attempt = @ + 1, !.leased = TRUE]
    ELSE [m EXCEPT !.status = "dead", !.leased = FALSE]

\* owned() and guard(): the claim with this fence still holds its lease.
OwnedBy(m, w, fence) ==
  m.status = "running" /\ m.owner = w /\ m.fence = fence /\ m.leased

\* finish() without an error, and with one.
Sent(m) == [m EXCEPT !.status = "sent", !.leased = FALSE]
Retried(m) ==
  [m EXCEPT !.status = IF m.attempt >= m.max THEN "dead" ELSE "pending",
            !.leased = FALSE]

Expired(m) == [m EXCEPT !.leased = FALSE]

=============================================================================
