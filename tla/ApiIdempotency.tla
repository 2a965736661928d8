--------------------------- MODULE ApiIdempotency ---------------------------
(***************************************************************************)
(* The idempotency keys of the administrative write API: a request enters  *)
(* its key as running, carries out its operation, and stores the response  *)
(* that every repetition gets; a failed operation gives its key back.      *)
(***************************************************************************)
EXTENDS Naturals, FiniteSets

CONSTANTS
  Requests,     \* the HTTP requests
  Keys, KeyOf,  \* their Idempotency-Key headers
  BodyOf        \* and their scope and payload

VARIABLES
  row,       \* the rows of api_idempotency_keys
  req,
  applied,   \* the requests whose operation took effect, by key
  failed,    \* those of them whose operation raised an error after its effect
  answered   \* the requests whose response was given to anybody, by key

vars == <<row, req, applied, failed, answered>>

NoOne == "none"
Makers == Requests \union {NoOne}
Bodies == {BodyOf[r] : r \in Requests}

TypeOK ==
  /\ row \in [Keys -> [status: {"none", "running", "completed"},
                       body: Bodies, by: Makers]]
  /\ req \in [Requests -> {"new", "insert", "again", "operate", "store", "undo", "done"}]
  /\ applied \in [Keys -> SUBSET Requests]
  /\ failed \in [Keys -> SUBSET Requests]
  /\ answered \in [Keys -> SUBSET Requests]

NoRow == [status |-> "none", body |-> CHOOSE b \in Bodies : TRUE, by |-> NoOne]

Init ==
  /\ row = [k \in Keys |-> NoRow]
  /\ req = [r \in Requests |-> "new"]
  /\ applied = [k \in Keys |-> {}]
  /\ failed = [k \in Keys |-> {}]
  /\ answered = [k \in Keys |-> {}]

Goto(r, pc) == req' = [req EXCEPT ![r] = pc]
Of(r) == row[KeyOf[r]]

\* (mutant of Replayable: a running row is answered like a completed one)
ReplayableAny(r) == Of(r).body = BodyOf[r]

\* _replay(): the same request, and completed.  Anything else is a conflict.
Replayable(r) == Of(r).body = BodyOf[r] /\ Of(r).status = "completed"

Replay(r) ==
  /\ answered' = IF Replayable(r)
                   THEN [answered EXCEPT ![KeyOf[r]] = @ \union {Of(r).by}]
                   ELSE answered
  /\ Goto(r, "done")

Get(r) ==
  /\ req[r] = "new"
  /\ IF Of(r).status # "none" THEN Replay(r)
       ELSE Goto(r, "insert") /\ UNCHANGED answered
  /\ UNCHANGED <<row, applied, failed>>

\* (mutant of Taken: the key is not unique)
TakenNever(r) == FALSE

Taken(r) == Of(r).status # "none"

\* The key is unique: the slower of two inserts reads the row of the other.
Insert(r) ==
  /\ req[r] = "insert"
  /\ IF Taken(r)
       THEN Goto(r, "again") /\ UNCHANGED row
       ELSE /\ row' = [row EXCEPT ![KeyOf[r]] =
                         [status |-> "running", body |-> BodyOf[r], by |-> r]]
            /\ Goto(r, "operate")
  /\ UNCHANGED <<applied, failed, answered>>

\* The row may be gone again by then.
GetAgain(r) ==
  /\ req[r] = "again"
  /\ IF Of(r).status # "none" THEN Replay(r)
       ELSE Goto(r, "done") /\ UNCHANGED answered
  /\ UNCHANGED <<row, applied, failed>>

\* The operation takes effect, or raises an error before or after its effect.
Operate(r) ==
  LET k == KeyOf[r]
  IN  /\ req[r] = "operate"
      /\ \/ applied' = [applied EXCEPT ![k] = @ \union {r}]
            /\ Goto(r, "store") /\ UNCHANGED failed
         \/ Goto(r, "undo") /\ UNCHANGED <<applied, failed>>
         \/ /\ applied' = [applied EXCEPT ![k] = @ \union {r}]
            /\ failed' = [failed EXCEPT ![k] = @ \union {r}]
            /\ Goto(r, "undo")
      /\ UNCHANGED <<row, answered>>

\* The key of a failed operation is free again.
Undo(r) ==
  /\ req[r] = "undo"
  /\ row' = IF Of(r).status = "running" THEN [row EXCEPT ![KeyOf[r]] = NoRow] ELSE row
  /\ Goto(r, "done")
  /\ UNCHANGED <<applied, failed, answered>>

Store(r) ==
  /\ req[r] = "store"
  /\ row' = IF Of(r).status # "none" /\ Of(r).body = BodyOf[r]
              THEN [row EXCEPT ![KeyOf[r]] =
                      [status |-> "completed", body |-> BodyOf[r], by |-> r]]
              ELSE row
  /\ answered' = [answered EXCEPT ![KeyOf[r]] = @ \union {r}]
  /\ Goto(r, "done")
  /\ UNCHANGED <<applied, failed>>

\* The process dies and leaves a running row behind.
Crash(r) ==
  /\ req[r] \in {"operate", "store", "undo"}
  /\ Goto(r, "done")
  /\ UNCHANGED <<row, applied, failed, answered>>

\* The retention job forgets completed keys; their next use is a new request.
Forget(k) ==
  /\ row[k].status = "completed"
  /\ row' = [row EXCEPT ![k] = NoRow]
  /\ applied' = [applied EXCEPT ![k] = {}]
  /\ failed' = [failed EXCEPT ![k] = {}]
  /\ answered' = [answered EXCEPT ![k] = {}]
  /\ UNCHANGED req

Next ==
  \/ \E r \in Requests :
       \/ Get(r) \/ Insert(r) \/ GetAgain(r) \/ Operate(r) \/ Undo(r) \/ Store(r)
       \/ Crash(r)
  \/ \E k \in Keys : Forget(k)

Spec == Init /\ [][Next]_vars

-----------------------------------------------------------------------------

\* A key's operation takes effect once, apart from those that raised an error
\* after their effect, and all who get an answer get that one's: although the
\* request is repeated while it runs, fails, or is left behind by a crash.
AppliedOnce ==
  \A k \in Keys :
    /\ Cardinality(applied[k] \ failed[k]) <= 1
    /\ answered[k] \subseteq applied[k] \ failed[k]

-----------------------------------------------------------------------------
(* Why it holds *)

\* The effects of a key's operations, without those that raised an error.
Effects(k) == applied[k] \ failed[k]

\* A key without a row has no effect, a running one at most its maker's, and a
\* completed one its maker's, which is all that anybody was answered.
KeyOK(k) ==
  /\ row[k].status # "completed" => answered[k] = {} /\ Effects(k) \subseteq {row[k].by}
  /\ row[k].status = "none" => Effects(k) = {}
  /\ row[k].status = "completed" => Effects(k) = {row[k].by}
  /\ answered[k] \subseteq Effects(k)

\* A request that has inserted its row owns it until it leaves.
RequestOK(r) ==
  LET k == KeyOf[r]
  IN  /\ req[r] \in {"operate", "store", "undo"} =>
           row[k] = [status |-> "running", body |-> BodyOf[r], by |-> r]
      /\ req[r] \in {"new", "insert", "again", "operate"} =>
           \A j \in Keys : r \notin applied[j] /\ r \notin failed[j]
      /\ req[r] = "store" => r \in Effects(k)
      /\ req[r] = "undo" => r \notin Effects(k)

\* The inductive invariant behind AppliedOnce.
IInv ==
  /\ TypeOK
  /\ \A k \in Keys : KeyOK(k)
  /\ \A r \in Requests : RequestOK(r)

=============================================================================
