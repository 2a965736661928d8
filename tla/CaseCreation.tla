---------------------------- MODULE CaseCreation ----------------------------
(***************************************************************************)
(* How a confirmed request becomes an after-sale case: the receipt of its  *)
(* idempotency key, the one active case of an order, and the saves of the  *)
(* people and jobs that work on a case meanwhile.  The JSON repository     *)
(* holds a lock on its file during a call; the SQL repository reads the    *)
(* receipt, reads the active case and inserts, and two unique constraints  *)
(* decide which of two requests wins.  One customer.  Nothing makes a      *)
(* request go on, so a process may die after any step; the client that     *)
(* sends it again is a request of its own, with the same key and body.     *)
(***************************************************************************)
EXTENDS Naturals, FiniteSets

CONSTANTS
  Requests, Keys, NoKey,
  KeyOf, BodyOf, OrderOf,   \* what a request asks for
  Savers,                   \* reviewers and executors with a copy of a case
  Backends,                 \* a subset of json, sql
  MaxVersion                \* bound on the saves of a case

VARIABLES
  backend,
  case,      \* the case a request has made, under the request's name
  receipt,   \* a key's body and case
  req,       \* a request under way, and its answer
  saver      \* the copy of a case a saver works on

vars == <<backend, case, receipt, req, saver>>

\* A case's statuses, told apart only by TERMINAL_CASE_STATUSES: completed and
\* rejected are over, all the others open.
Statuses == {"open", "over"}
NoCase == [status |-> "none", version |-> 0]
NoReceipt == [made |-> FALSE]
CreateAttempts == 4

Answers == [kind: {"none", "refused", "conflict", "busy"}]
             \union [kind: {"case"}, case: Requests]

RequestStates ==
  [pc: {"new", "order", "receipt", "active", "insert", "done"},
   tries: 0 .. CreateAttempts, active: SUBSET Requests, answer: Answers]

Receipts == [made: {TRUE}, body: {BodyOf[r] : r \in Requests}, case: Requests]

TypeOK ==
  /\ backend \in Backends
  /\ case \in [Requests -> {NoCase} \union
                 [status: Statuses, version: 1 .. MaxVersion]]
  /\ receipt \in [Keys -> {NoReceipt} \union Receipts]
  /\ req \in [Requests -> RequestStates]
  /\ saver \in [Savers -> {NoCase} \union
                  [status: Statuses, version: 1 .. MaxVersion, case: Requests]]

Init ==
  /\ backend \in Backends
  /\ case = [r \in Requests |-> NoCase]
  /\ receipt = [k \in Keys |-> NoReceipt]
  /\ req = [r \in Requests |-> [pc |-> "new", tries |-> 0, active |-> {},
                                answer |-> [kind |-> "none"]]]
  /\ saver = [s \in Savers |-> NoCase]

Replied(r, answer) ==
  req' = [req EXCEPT ![r] = [@ EXCEPT !.pc = "done", !.answer = answer]]

\* The cases an order has that are not over.
Active(o) == {c \in Requests : OrderOf[c] = o /\ case[c].status = "open"}

Received(r) == KeyOf[r] # NoKey /\ receipt[KeyOf[r]].made

\* The answer to a key that has a receipt: its case, whatever has become of
\* it, or a conflict when the request asks for something else.
FromReceipt(r) ==
  IF receipt[KeyOf[r]].body = BodyOf[r]
  THEN [kind |-> "case", case |-> receipt[KeyOf[r]].case]
  ELSE [kind |-> "conflict"]

\* create_case: a refused confirmation or argument, or the early look for a
\* receipt, before the order is read.
CreateCase(r) ==
  /\ req[r].pc = "new"
  /\ \/ Replied(r, [kind |-> "refused"])
     \/ Received(r) /\ Replied(r, FromReceipt(r))
     \/ ~Received(r) /\ req' = [req EXCEPT ![r].pc = "order"]
  /\ UNCHANGED <<backend, case, receipt, saver>>

\* The order may be missing or somebody else's.
GetOrder(r) ==
  /\ req[r].pc = "order"
  /\ \/ Replied(r, [kind |-> "refused"])
     \/ req' = [req EXCEPT ![r].pc = "receipt"]
  /\ UNCHANGED <<backend, case, receipt, saver>>

\* What the transaction writes: a new case unless one is active (the risk
\* router's pending_review or approved, both open), and the receipt of the key.
Written(r, active) ==
  LET chosen == IF active = {} THEN r ELSE CHOOSE c \in active : TRUE IN
  /\ case' = IF active = {}
             THEN [case EXCEPT ![r] = [status |-> "open", version |-> 1]]
             ELSE case
  /\ receipt' = IF KeyOf[r] = NoKey THEN receipt
                ELSE [receipt EXCEPT ![KeyOf[r]] =
                        [made |-> TRUE, body |-> BodyOf[r], case |-> chosen]]
  /\ Replied(r, [kind |-> "case", case |-> chosen])

\* JsonAfterSaleRepository.create_or_get, under the file lock.
CreateJson(r) ==
  /\ backend = "json" /\ req[r].pc = "receipt"
  /\ IF Received(r)
     THEN Replied(r, FromReceipt(r)) /\ UNCHANGED <<case, receipt>>
     ELSE Written(r, Active(OrderOf[r]))
  /\ UNCHANGED <<backend, saver>>

\* SqlAfterSaleRepository.create_or_get, one statement at a time.
SelectReceipt(r) ==
  /\ backend = "sql" /\ req[r].pc = "receipt"
  /\ IF Received(r) THEN Replied(r, FromReceipt(r))
                    ELSE req' = [req EXCEPT ![r].pc = "active"]
  /\ UNCHANGED <<backend, case, receipt, saver>>

SelectActive(r) ==
  /\ req[r].pc = "active"
  /\ req' = [req EXCEPT ![r].pc = "insert", ![r].active = Active(OrderOf[r])]
  /\ UNCHANGED <<backend, case, receipt, saver>>

\* (mutant of Collides: the receipts have no primary key)
CollidesOnCase(r) == req[r].active = {} /\ Active(OrderOf[r]) # {}

\* (mutant of Collides: no unique index over the active cases)
CollidesOnReceipt(r) == Received(r)

\* The unique index over active cases, and the primary key of the receipts.
Collides(r) ==
  \/ req[r].active = {} /\ Active(OrderOf[r]) # {}
  \/ Received(r)

\* The inserts and the commit; a collision rolls both back and starts over.
Insert(r) ==
  /\ req[r].pc = "insert"
  /\ IF ~Collides(r) THEN Written(r, req[r].active)
     ELSE /\ IF req[r].tries + 1 < CreateAttempts
             THEN req' = [req EXCEPT ![r] = [@ EXCEPT !.pc = "receipt",
                                                     !.tries = req[r].tries + 1,
                                                     !.active = {}]]
             ELSE Replied(r, [kind |-> "busy"])
          /\ UNCHANGED <<case, receipt>>
  /\ UNCHANGED <<backend, saver>>

\* Somebody reads a case, to work on it.
Get(s, c) ==
  /\ case[c] # NoCase
  /\ saver' = [saver EXCEPT ![s] = [status |-> case[c].status,
                                    version |-> case[c].version, case |-> c]]
  /\ UNCHANGED <<backend, case, receipt, req>>

\* What a saver makes of the status it read: work on a case that is over
\* (its compensation) leaves it over.
Moved(s) == IF saver[s].status = "over" THEN {"over"} ELSE Statuses

\* The version the copy was read with is still the case's.
Current(s) == case[saver[s].case].version = saver[s].version

\* The copy is of an open case while another one of the order is active.
Clashes(c, to) == to = "open" /\ Active(OrderOf[c]) \ {c} # {}

\* save: refused with CASE_VERSION_CONFLICT when the case has moved on, and
\* with CASE_ACTIVE_CONFLICT when another case is active.
Save(s) ==
  /\ saver[s] # NoCase
  /\ \E to \in Moved(s) :
       LET c == saver[s].case
       IN  IF Current(s) /\ ~Clashes(c, to)
           THEN /\ saver[s].version < MaxVersion
                /\ case' = [case EXCEPT ![c] = [status |-> to,
                                                version |-> saver[s].version + 1]]
           ELSE UNCHANGED case
  /\ saver' = [saver EXCEPT ![s] = NoCase]
  /\ UNCHANGED <<backend, receipt, req>>

RequestStep(r) ==
  \/ CreateCase(r) \/ GetOrder(r) \/ CreateJson(r)
  \/ SelectReceipt(r) \/ SelectActive(r) \/ Insert(r)

SaverStep(s) == Save(s) \/ \E c \in Requests : Get(s, c)

Next == (\E r \in Requests : RequestStep(r)) \/ (\E s \in Savers : SaverStep(s))

Spec == Init /\ [][Next]_vars

-----------------------------------------------------------------------------
\* A key names one case for good: of the requests that carry it at most one
\* has made a case, those that were answered with a case were answered with
\* the same one and had asked for the same thing (create_or_get in both
\* repositories, also when two requests have read before either has written,
\* the first answer was lost, or the case is already over).
KeyNamesOneCase ==
  \A r, s \in Requests :
    KeyOf[r] = KeyOf[s] /\ KeyOf[r] # NoKey =>
      /\ case[r] # NoCase /\ case[s] # NoCase => r = s
      /\ req[r].answer.kind = "case" /\ req[s].answer.kind = "case" =>
           BodyOf[r] = BodyOf[s] /\ req[r].answer.case = req[s].answer.case

\* An order has at most one case that is not over, whichever requests made
\* cases and whichever copies were saved (uq_after_sale_active_user_order and
\* the version in save; the file lock and _active for JSON).
OneOpenCasePerOrder ==
  \A c, d \in Requests :
    /\ OrderOf[c] = OrderOf[d]
    /\ case[c].status = "open" /\ case[d].status = "open"
    => c = d

-----------------------------------------------------------------------------
(* Why they hold *)

\* A case that was made under a key stands in the key's receipt.
MadeOK(r) ==
  case[r] # NoCase /\ KeyOf[r] # NoKey =>
    receipt[KeyOf[r]].made /\ receipt[KeyOf[r]].case = r

\* An answer under a key is the receipt's.
AnswerOK(r) ==
  req[r].answer.kind = "case" /\ KeyOf[r] # NoKey =>
    /\ receipt[KeyOf[r]].made
    /\ receipt[KeyOf[r]].body = BodyOf[r]
    /\ receipt[KeyOf[r]].case = req[r].answer.case

\* The inductive invariant behind both.
IInv ==
  /\ TypeOK
  /\ \A r \in Requests : MadeOK(r) /\ AnswerOK(r)
  /\ OneOpenCasePerOrder

=============================================================================
