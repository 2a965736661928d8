------------------------------- MODULE Intake -------------------------------
(***************************************************************************)
(* An after-sale intake: the customer fills in the fields over several     *)
(* requests, asks for a proposal, and later for the execution of the case  *)
(* that was approved.  A command is read against one revision and commits  *)
(* by a CAS on it together with its receipt, which a repeated request gets *)
(* back.  The proposals live on in the action service meanwhile.           *)
(***************************************************************************)
EXTENDS Naturals, FiniteSets

CONSTANTS
  Threads,      \* the requests under way
  Keys,         \* the request keys of the clients
  Fields,       \* the values of the fields that a customer may enter
  MaxRevision   \* bound on the commands that commit

VARIABLES
  intake,    \* the row of after_sale_intakes
  receipt,   \* the events: the revision that a request key made
  acts,      \* the proposals, by the revision that made them
  approved,  \* the case of the completed proposal is approved
  th

vars == <<intake, receipt, acts, approved, th>>

Missing == "missing"
Commands == {"update", "propose", "propose_execution", "withdraw"}
Revisions == 0 .. MaxRevision

\* Revision 0 makes no proposal, so it stands for "no action".
Rows == [revision: Revisions,
         status: {"collecting", "ready", "awaiting", "withdrawn"},
         field: Fields \union {Missing}, action: Revisions, execution: Revisions]

Requests == [command: Commands, expected: Revisions, field: Fields \union {Missing}]

Started == {"executing", "completed", "unknown"}
Over == {"rejected", "invalidated", "expired"}

Idle == [pc |-> "idle", key |-> CHOOSE k \in Keys : TRUE,
         request |-> [command |-> "withdraw", expected |-> 0, field |-> Missing]]

TypeOK ==
  /\ intake \in Rows
  /\ receipt \in [Keys -> Revisions]
  /\ acts \in [Revisions -> [tool: {"none", "create", "execute"},
                             field: Fields \union {Missing},
                             status: Started \union Over \union
                                     {"none", "pending", "confirmed"}]]
  /\ approved \in BOOLEAN
  /\ th \in [Threads -> [pc: {"idle", "commit"}, key: Keys, request: Requests]]

\* create(): a second call with the key of the first finds the row.
Init ==
  /\ intake = [revision |-> 0, status |-> "collecting", field |-> Missing,
               action |-> 0, execution |-> 0]
  /\ receipt = [k \in Keys |-> 0]
  /\ acts = [n \in Revisions |-> [tool |-> "none", field |-> Missing,
                                  status |-> "none"]]
  /\ approved = FALSE
  /\ th = [t \in Threads |-> Idle]

-----------------------------------------------------------------------------
(* command() *)

\* What a command needs of the row that it has read.
Possible(request) ==
  /\ intake.revision = request.expected
  /\ intake.status # "withdrawn"
  /\ CASE request.command = "propose" ->
            intake.field # Missing /\ intake.action = 0
       [] request.command = "propose_execution" ->
            /\ approved
            /\ intake.execution # 0 => acts[intake.execution].status \in Over
       [] OTHER -> TRUE

\* The reads before the transaction.  A key that has a receipt is answered with
\* it, or refused when the request is another one; neither changes anything.
Look(t) ==
  /\ th[t].pc = "idle"
  /\ \E k \in Keys, request \in Requests :
       /\ receipt[k] = 0
       /\ request.command # "update" => request.field = Missing
       /\ request.expected < MaxRevision
       /\ Possible(request)
       /\ th' = [th EXCEPT ![t] = [pc |-> "commit", key |-> k, request |-> request]]
  /\ UNCHANGED <<intake, receipt, acts, approved>>

\* A proposal that has started keeps the intake from changing.
Withdrawable(a) == a = 0 \/ acts[a].status \notin Started

Changed(request) ==
  LET next == [intake EXCEPT !.revision = request.expected + 1]
  IN  CASE request.command = "update" ->
             [next EXCEPT !.field = request.field, !.action = 0,
                !.status = IF request.field = Missing THEN "collecting" ELSE "ready"]
        [] request.command = "withdraw" ->
             [next EXCEPT !.status = "withdrawn", !.action = 0]
        [] request.command = "propose" ->
             [next EXCEPT !.status = "awaiting", !.action = next.revision]
        [] OTHER ->
             [next EXCEPT !.status = "awaiting", !.execution = next.revision]

\* (mutant of Retired: an update leaves the old proposal to its own)
RetiredOnWithdraw(request) ==
  IF intake.action # 0 /\ request.command = "withdraw"
    THEN [acts EXCEPT ![intake.action].status = "rejected"] ELSE acts

Retired(request) ==
  IF intake.action # 0 /\ request.command \in {"update", "withdraw"}
    THEN [acts EXCEPT ![intake.action].status =
            IF request.command = "update" THEN "invalidated" ELSE "rejected"]
    ELSE acts

Proposed(request) ==
  IF request.command \in {"propose", "propose_execution"}
    THEN [Retired(request) EXCEPT ![request.expected + 1] =
            [tool |-> IF request.command = "propose" THEN "create" ELSE "execute",
             field |-> intake.field, status |-> "pending"]]
    ELSE Retired(request)

Fresh(request) == intake.revision = request.expected

\* The receipt's key is unique: a second insert undoes its transaction.
Unused(k) == receipt[k] = 0

\* The transaction.  When the CAS, the proposal or the receipt refuses it, the
\* command is answered with the receipt of its key, or with an error; so it is
\* when the conversation belongs to a human or the process dies.
Commit(t) ==
  LET request == th[t].request
      k == th[t].key
  IN  /\ th[t].pc = "commit"
      /\ th' = [th EXCEPT ![t] = Idle]
      /\ \/ /\ Fresh(request)
            /\ request.command \in {"update", "withdraw"} =>
                 Withdrawable(intake.action)
            /\ Unused(k)
            /\ intake' = Changed(request)
            /\ acts' = Proposed(request)
            /\ receipt' = [receipt EXCEPT ![k] = request.expected + 1]
         \/ UNCHANGED <<intake, receipt, acts>>
      /\ UNCHANGED approved

-----------------------------------------------------------------------------
(* What others do to the proposals and to the case *)

\* The action service confirms, starts and ends a proposal, or drops it.
ActionMoves(n) ==
  /\ \/ /\ acts[n].status = "pending"
        /\ \E s \in {"confirmed"} \union Over : acts' = [acts EXCEPT ![n].status = s]
     \/ /\ acts[n].status = "confirmed"
        /\ \E s \in {"executing"} \union Over : acts' = [acts EXCEPT ![n].status = s]
     \/ /\ acts[n].status = "executing"
        /\ \E s \in {"completed", "unknown"} : acts' = [acts EXCEPT ![n].status = s]
  /\ UNCHANGED <<intake, receipt, approved, th>>

Approve ==
  /\ ~approved
  /\ intake.action # 0 /\ acts[intake.action].status = "completed"
  /\ approved' = TRUE
  /\ UNCHANGED <<intake, receipt, acts, th>>

Next ==
  \/ \E t \in Threads : Look(t) \/ Commit(t)
  \/ \E n \in Revisions : ActionMoves(n)
  \/ Approve

Spec == Init /\ [][Next]_vars

-----------------------------------------------------------------------------

\* A proposal that can still be confirmed, or that has started, is the intake's
\* own and says what the intake says: no request that was under way changes the
\* fields below a proposal, or leaves an older one to be confirmed.  At most one
\* execution of the case is not over.
ProposalsAreCurrent ==
  \A n \in Revisions : acts[n].status \notin {"none"} \union Over =>
    CASE acts[n].tool = "create" ->
           intake.action = n /\ acts[n].field = intake.field
      [] acts[n].tool = "execute" -> intake.execution = n

-----------------------------------------------------------------------------
(* Why it holds *)

\* A proposal was made by a revision of the past and says what it is for.
ActOK(n) ==
  acts[n].status # "none" =>
    n # 0 /\ n <= intake.revision /\ acts[n].tool \in {"create", "execute"}

\* The row names proposals that were made.
RowOK ==
  /\ intake.action <= intake.revision /\ intake.execution <= intake.revision
  /\ intake.action # 0 => acts[intake.action].status # "none"

\* What a command needed of the row still holds while the revision is the same.
ThreadOK(t) ==
  th[t].pc = "commit" =>
    /\ th[t].request.expected < MaxRevision
    /\ th[t].request.expected <= intake.revision
    /\ Fresh(th[t].request) => Possible(th[t].request)

\* The inductive invariant behind ProposalsAreCurrent.
IInv ==
  /\ TypeOK
  /\ \A n \in Revisions : ActOK(n)
  /\ \A t \in Threads : ThreadOK(t)
  /\ RowOK
  /\ ProposalsAreCurrent

=============================================================================
