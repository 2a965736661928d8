-------------------------- MODULE InventoryDelivery --------------------------
(***************************************************************************)
(* Inventory commands through an approved connector.  A confirmed action   *)
(* becomes an operation and a job; a worker that holds the job's lease     *)
(* asks the shop for the reservation first and only then reserves or       *)
(* releases it under the key of the operation.  The connector's contract   *)
(* may change, or be disabled when the remote tools drift, at any time.    *)
(***************************************************************************)
EXTENDS LeaseQueue, FiniteSets

CONSTANTS
  Reserves, Releases,  \* the commands, each of one piece of one article
  SourceOf,            \* the reservation that a release is about
  Stock,               \* the pieces the shop has
  JobAttempts,
  MaxContract          \* bound: how often the contract is approved

VARIABLES
  contract,  \* the connector's row, and whether its tools still match it
  action,    \* the trusted action of a command: its state and pinned version
  op, job,
  wk,
  shop,      \* the shop's reservations by key
  made       \* the reservations the shop has ever made

vars == <<contract, action, op, job, wk, shop, made>>

Ops == Reserves \union Releases
Key(o) == IF o \in Releases THEN SourceOf[o] ELSE o

WorkerStates ==
  [pc: {"idle", "look", "query", "owned", "send", "record", "finish", "fail",
        "retry"},
   op: Ops, fence: Nat]

TypeOK ==
  /\ contract \in [version: 1 .. MaxContract, active: BOOLEAN, drifted: BOOLEAN]
  /\ action \in [Ops -> [state: {"none", "proposed", "confirmed", "completed"},
                         version: 0 .. MaxContract]]
  /\ op \in [Ops -> {"none", "pending", "unknown", "needs_reconciliation",
                     "succeeded"}]
  /\ job \in [Ops -> Messages]
  /\ wk \in [Workers -> WorkerStates]
  /\ shop \in [Reserves -> {"not_found", "reserved", "released"}]
  /\ made \in [Reserves -> Nat]

Available == Stock - Cardinality({k \in Reserves : shop[k] = "reserved"})

Init ==
  /\ contract = [version |-> 1, active |-> TRUE, drifted |-> FALSE]
  /\ action = [o \in Ops |-> [state |-> "none", version |-> 0]]
  /\ op = [o \in Ops |-> "none"]
  /\ job = [o \in Ops |-> NoMessage]
  /\ wk \in [Workers -> [pc: {"idle"}, op: {CHOOSE o \in Ops : TRUE}, fence: {0}]]
  /\ shop = [k \in Reserves |-> "not_found"]
  /\ made = [k \in Reserves |-> 0]

-----------------------------------------------------------------------------
(* The commands *)

Propose(o) ==
  /\ action[o].state = "none"
  /\ contract.active
  /\ o \in Releases => op[SourceOf[o]] = "succeeded"
  /\ action' = [action EXCEPT ![o] =
                  [state |-> "proposed", version |-> contract.version]]
  /\ UNCHANGED <<contract, op, job, wk, shop, made>>

Approved(version) == contract.active /\ contract.version = version

Confirm(o) ==
  /\ action[o].state = "proposed"
  /\ Approved(action[o].version)
  /\ action' = [action EXCEPT ![o].state = "confirmed"]
  /\ UNCHANGED <<contract, op, job, wk, shop, made>>

Enqueue(o) ==
  /\ action[o].state = "confirmed"
  /\ action' = [action EXCEPT ![o].state = "completed"]
  /\ op' = [op EXCEPT ![o] = "pending"]
  /\ job' = [job EXCEPT ![o] = NewMessage(JobAttempts)]
  /\ UNCHANGED <<contract, wk, shop, made>>

Register ==
  /\ contract.version < MaxContract
  /\ contract' = [version |-> contract.version + 1, active |-> TRUE,
                  drifted |-> FALSE]
  /\ UNCHANGED <<action, op, job, wk, shop, made>>

Drift ==
  /\ ~contract.drifted
  /\ contract' = [contract EXCEPT !.drifted = TRUE]
  /\ UNCHANGED <<action, op, job, wk, shop, made>>

-----------------------------------------------------------------------------
(* The worker *)

Goto(w, pc) == wk' = [wk EXCEPT ![w].pc = pc]
Owns(w) == OwnedBy(job[wk[w].op], w, wk[w].fence)

Claim(w, o) ==
  /\ wk[w].pc = "idle" /\ Claimable(job[o])
  /\ job' = [job EXCEPT ![o] = ClaimedBy(job[o], w)]
  /\ wk' = [wk EXCEPT ![w] =
              [pc |-> IF job'[o].status = "running" THEN "look" ELSE "idle",
               op |-> o, fence |-> job'[o].fence]]
  /\ UNCHANGED <<contract, action, op, shop, made>>

\* (mutant of Unsettled: the sweep takes every operation of a dead job)
UnsettledAny(o) == op[o] # "none"

Unsettled(o) == op[o] \in {"pending", "unknown"}

\* A worker that finds nothing to claim hands the dead jobs to humans.
Sweep(w) ==
  /\ wk[w].pc = "idle" /\ \A o \in Ops : ~Claimable(job[o])
  /\ op' = [o \in Ops |-> IF job[o].status = "dead" /\ Unsettled(o)
                            THEN "needs_reconciliation" ELSE op[o]]
  /\ op' # op
  /\ UNCHANGED <<contract, action, job, wk, shop, made>>

Look(w) ==
  /\ wk[w].pc = "look"
  /\ LET o == wk[w].op IN
     \/ op[o] = "succeeded" /\ Goto(w, "finish") /\ UNCHANGED contract
     \/ /\ op[o] # "succeeded" /\ ~Approved(action[o].version)
        /\ Goto(w, "fail") /\ UNCHANGED contract
     \/ /\ op[o] # "succeeded" /\ Approved(action[o].version)
        /\ contract' = [contract EXCEPT !.active = ~contract.drifted]
        /\ Goto(w, IF contract.drifted THEN "fail" ELSE "query")
  /\ UNCHANGED <<action, op, job, shop, made>>

\* What the worker does about the reservation that it finds.
AfterQuery(o, status) ==
  CASE o \in Reserves /\ status = "not_found" -> "owned"
    [] o \in Releases /\ status = "reserved" -> "owned"
    [] o \in Reserves /\ status = "reserved" -> "record"
    [] o \in Releases /\ status = "released" -> "record"
    [] OTHER -> "fail"

\* reservation_status.  Admission or the call may fail.
Query(w) ==
  /\ wk[w].pc = "query"
  /\ LET o == wk[w].op IN
     \/ Approved(action[o].version) /\ Goto(w, AfterQuery(o, shop[Key(o)]))
     \/ Goto(w, "fail")
  /\ UNCHANGED <<contract, action, op, job, shop, made>>

CheckOwned(w) ==
  /\ wk[w].pc = "owned"
  /\ Goto(w, IF Owns(w) THEN "send" ELSE "idle")
  /\ UNCHANGED <<contract, action, op, job, shop, made>>

\* (mutant of Reserved: the shop does not look for the key first)
ReservedAgain(k) == IF Available > 0 THEN "reserved" ELSE shop[k]

\* The shop's reserve() and release(): a known key is answered as it stands.
Reserved(k) ==
  IF shop[k] = "not_found" /\ Available > 0 THEN "reserved" ELSE shop[k]

Released(k) == IF shop[k] = "reserved" THEN "released" ELSE shop[k]

\* The write.  It may be refused, and its answer may be lost.
Send(w) ==
  /\ wk[w].pc = "send"
  /\ LET o == wk[w].op
         k == Key(o)
         status == IF o \in Reserves THEN Reserved(k) ELSE Released(k)
     IN  \/ /\ Approved(action[o].version)
            /\ shop' = [shop EXCEPT ![k] = status]
            /\ made' = [made EXCEPT ![k] =
                 IF shop[k] # "reserved" /\ status = "reserved" THEN @ + 1 ELSE @]
            /\ \/ Goto(w, IF AfterQuery(o, status) = "record"
                            THEN "record" ELSE "fail")
               \/ Goto(w, "fail")
         \/ Goto(w, "fail") /\ UNCHANGED <<shop, made>>
  /\ UNCHANGED <<contract, action, op, job>>

Record(w) ==
  /\ wk[w].pc = "record"
  /\ IF Owns(w)
       THEN op' = [op EXCEPT ![wk[w].op] = "succeeded"] /\ Goto(w, "finish")
       ELSE Goto(w, "idle") /\ UNCHANGED op
  /\ UNCHANGED <<contract, action, job, shop, made>>

Failed(o) ==
  IF job[o].attempt >= job[o].max THEN "needs_reconciliation" ELSE "unknown"

Fail(w) ==
  /\ wk[w].pc = "fail"
  /\ LET o == wk[w].op IN
     IF Owns(w)
       THEN /\ op' = [op EXCEPT ![o] = IF @ = "succeeded" THEN @ ELSE Failed(o)]
            /\ Goto(w, "retry")
       ELSE Goto(w, "idle") /\ UNCHANGED op
  /\ UNCHANGED <<contract, action, job, shop, made>>

Finish(w) ==
  /\ wk[w].pc \in {"finish", "retry"}
  /\ LET o == wk[w].op
         done == IF wk[w].pc = "finish" THEN Sent(job[o]) ELSE Retried(job[o])
     IN  job' = IF Owns(w) THEN [job EXCEPT ![o] = done] ELSE job
  /\ Goto(w, "idle")
  /\ UNCHANGED <<contract, action, op, shop, made>>

Crash(w) ==
  /\ wk[w].pc # "idle"
  /\ Goto(w, "idle")
  /\ UNCHANGED <<contract, action, op, job, shop, made>>

LeaseExpires(o) ==
  /\ job[o].leased
  /\ job' = [job EXCEPT ![o] = Expired(job[o])]
  /\ UNCHANGED <<contract, action, op, wk, shop, made>>

Next ==
  \/ Register \/ Drift
  \/ \E o \in Ops : Propose(o) \/ Confirm(o) \/ Enqueue(o) \/ LeaseExpires(o)
  \/ \E w \in Workers :
       \/ Sweep(w) \/ Look(w) \/ Query(w) \/ CheckOwned(w) \/ Send(w)
       \/ Record(w) \/ Fail(w) \/ Finish(w) \/ Crash(w)
       \/ \E o \in Ops : Claim(w, o)

Spec == Init /\ [][Next]_vars

-----------------------------------------------------------------------------

\* One command reserves one piece once, and what is reported as done was done:
\* a piece that was released is not taken again by a worker that lost its lease
\* while its reserve was under way.
InventoryIsReal ==
  /\ \A k \in Reserves : made[k] <= 1
  /\ \A o \in Ops : op[o] = "succeeded" =>
       IF o \in Reserves THEN made[o] = 1 ELSE shop[SourceOf[o]] = "released"

\* A step never changes a success, or an operation that was handed to humans.
VerdictStays ==
  \A o \in Ops : op[o] \in {"succeeded", "needs_reconciliation"} => op'[o] = op[o]

-----------------------------------------------------------------------------
(* Why they hold *)

\* What a command is for has happened at the shop; nothing takes it back.
Done(o) ==
  IF o \in Reserves THEN shop[o] # "not_found" ELSE shop[SourceOf[o]] = "released"

\* The shop makes a reservation with its first answer to the key.
ShopOK(k) == made[k] = IF shop[k] = "not_found" THEN 0 ELSE 1

\* A command runs once its action is completed, and a success is real.
OpOK(o) ==
  /\ action[o].state # "completed" => op[o] = "none" /\ job[o].status = "none"
  /\ op[o] = "succeeded" => Done(o)

\* What a worker is about to record has happened.
WorkerOK(w) ==
  /\ wk[w].pc = "record" => Done(wk[w].op)
  /\ wk[w].pc = "finish" => op[wk[w].op] = "succeeded"

\* A command that was handed to humans has used up its attempts: its job is dead,
\* or is about to be reported so by the worker that handed it over.
HandedOK(o) ==
  op[o] = "needs_reconciliation" =>
    /\ job[o].status # "pending"
    /\ job[o].status = "running" => job[o].attempt >= job[o].max
    /\ \A w \in Workers : wk[w].op = o /\ Owns(w) => wk[w].pc \in {"idle", "retry"}

\* The inductive invariant behind both.
IInv ==
  /\ TypeOK
  /\ \A k \in Reserves : ShopOK(k)
  /\ \A o \in Ops : OpOK(o) /\ HandedOK(o)
  /\ \A w \in Workers : WorkerOK(w)

=============================================================================
