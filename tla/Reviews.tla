------------------------------ MODULE Reviews ------------------------------
(***************************************************************************)
(* Human review of the frozen evaluation cases.  Reviewers save their      *)
(* annotations against the revision they saw, drafts may be imported for   *)
(* all cases at once, and an export of the whole corpus is what the        *)
(* evaluation and the diagnosis of held-out cases rely on.                 *)
(***************************************************************************)
EXTENDS Naturals, FiniteSets

CONSTANTS
  Cases, Docs,
  Reviewers, Exporters,
  MaxRevision            \* bound on the revisions of the project

VARIABLES
  revision,    \* of the project row
  annotation,  \* the annotations and their revisions
  lock,        \* who holds the project row (FOR UPDATE)
  rv,          \* save() and import_drafts() before their transaction
  exp          \* export(): what it has read, and the annotations at its first read

vars == <<revision, annotation, lock, rv, exp>>

Outcomes == {"answerable", "no_evidence"}
Annotations == [status: {"draft", "approved", "disputed"}, outcome: Outcomes,
                notes: BOOLEAN, gold: SUBSET Docs, evidence: SUBSET Docs]
NoAnnotation == [status |-> "draft", outcome |-> "no_evidence", notes |-> FALSE,
                 gold |-> {}, evidence |-> {}]

Rows == [Cases -> [revision: 0 .. MaxRevision, value: Annotations]]
Nobody == "nobody"

TypeOK ==
  /\ revision \in 0 .. MaxRevision
  /\ annotation \in Rows
  /\ lock \in Exporters \union {Nobody}
  /\ rv \in [Reviewers -> [pc: {"idle", "save", "import"}, case: Cases,
                           expected: 0 .. MaxRevision, project: 0 .. MaxRevision]]
  /\ exp \in [Exporters -> [pc: {"idle", "rows", "done"},
                            revision: 0 .. MaxRevision, at: Rows, rows: Rows]]

NoRows == [c \in Cases |-> [revision |-> 0, value |-> NoAnnotation]]
NoSave == [pc |-> "idle", case |-> CHOOSE c \in Cases : TRUE, expected |-> 0,
           project |-> 0]
NoExport == [pc |-> "idle", revision |-> 0, at |-> NoRows, rows |-> NoRows]

\* create(): the project at revision 0; a second create finds it.
Init ==
  /\ revision = 0
  /\ annotation = NoRows
  /\ lock = Nobody
  /\ rv = [u \in Reviewers |-> NoSave]
  /\ exp = [x \in Exporters |-> NoExport]

-----------------------------------------------------------------------------
(* Reviewers *)

\* (mutant of Valid: the evidence is only asked for its documents)
ValidWithoutEvidence(a) ==
  /\ a.evidence \subseteq a.gold
  /\ a.status \in {"approved", "disputed"} => a.notes
  /\ a.status = "approved" => (a.gold = {} <=> a.outcome = "no_evidence")

\* validate(): evidence quotes gold documents; a verdict needs notes; an approved
\* case has gold that the evidence covers, or is one without evidence.
Valid(a) ==
  /\ a.evidence \subseteq a.gold
  /\ a.status \in {"approved", "disputed"} => a.notes
  /\ a.status = "approved" =>
       IF a.outcome = "no_evidence" THEN a.gold = {}
         ELSE a.gold # {} /\ a.evidence = a.gold

\* A reviewer looks at a case, or at the project to import drafts, and sends the
\* revision that was shown.  The transaction reads the project first.
Look(u) ==
  /\ rv[u].pc = "idle" /\ revision < MaxRevision
  /\ \E c \in Cases, pc \in {"save", "import"} :
       rv' = [rv EXCEPT ![u] = [pc |-> pc, case |-> c, project |-> revision,
                                expected |-> annotation[c].revision]]
  /\ UNCHANGED <<revision, annotation, lock, exp>>

\* (mutant of Free: the export does not lock the project)
FreeAlways == TRUE

Free == lock = Nobody

\* The write of the project row waits for the lock and compares the revision.
Changes(u) == Free /\ revision = rv[u].project /\ revision < MaxRevision

Written(c, value) == [revision |-> annotation[c].revision + 1, value |-> value]

Save(u, value) ==
  /\ rv[u].pc = "save" /\ Valid(value)
  /\ Changes(u)
  /\ annotation[rv[u].case].revision = rv[u].expected
  /\ revision' = revision + 1
  /\ annotation' = [annotation EXCEPT ![rv[u].case] = Written(rv[u].case, value)]
  /\ rv' = [rv EXCEPT ![u] = NoSave]
  /\ UNCHANGED <<lock, exp>>

\* Imported rows are drafts, whatever they were where they come from.
ImportDrafts(u, value) ==
  /\ rv[u].pc = "import" /\ Valid(value) /\ value.status = "draft"
  /\ Changes(u)
  /\ revision' = revision + 1
  /\ annotation' = [c \in Cases |-> Written(c, value)]
  /\ rv' = [rv EXCEPT ![u] = NoSave]
  /\ UNCHANGED <<lock, exp>>

\* A revision that has moved on is a conflict.
Conflict(u) ==
  /\ rv[u].pc # "idle" /\ revision # rv[u].project
  /\ rv' = [rv EXCEPT ![u] = NoSave]
  /\ UNCHANGED <<revision, annotation, lock, exp>>

-----------------------------------------------------------------------------
(* The export *)

ExportLocks(x) ==
  /\ exp[x].pc = "idle" /\ Free
  /\ lock' = x
  /\ exp' = [exp EXCEPT ![x] = [pc |-> "rows", revision |-> revision,
                                at |-> annotation, rows |-> NoRows]]
  /\ UNCHANGED <<revision, annotation, rv>>

ExportReads(x) ==
  /\ exp[x].pc = "rows"
  /\ exp' = [exp EXCEPT ![x].pc = "done", ![x].rows = annotation]
  /\ lock' = Nobody
  /\ UNCHANGED <<revision, annotation, rv>>

\* The exported document is used; a held-out case is diagnosed only with a
\* corpus that is human_reviewed.
Deliver(x) ==
  /\ exp[x].pc = "done"
  /\ exp' = [exp EXCEPT ![x] = NoExport]
  /\ UNCHANGED <<revision, annotation, lock, rv>>

Next ==
  \/ \E u \in Reviewers : \/ Look(u) \/ Conflict(u)
                          \/ \E v \in Annotations : Save(u, v) \/ ImportDrafts(u, v)
  \/ \E x \in Exporters : ExportLocks(x) \/ ExportReads(x) \/ Deliver(x)

Spec == Init /\ [][Next]_vars

-----------------------------------------------------------------------------

HumanReviewed(rows) == \A c \in Cases : rows[c].value.status = "approved"

\* apply_review(), the gate of the evaluation: it knows nothing of validate().
Applied(rows) ==
  \A c \in Cases :
    LET a == rows[c].value
    IN  /\ a.status = "approved" /\ a.notes
        /\ a.gold = {} <=> a.outcome = "no_evidence"
        /\ a.evidence \subseteq a.gold /\ a.evidence = a.gold

\* An export holds the annotations of the revision it names, while reviewers go
\* on, and one that calls itself human_reviewed passes the evaluation's own check.
ExportIsUsable ==
  \A x \in Exporters : exp[x].pc = "done" =>
    /\ exp[x].rows = exp[x].at
    /\ HumanReviewed(exp[x].rows) => Applied(exp[x].rows)

-----------------------------------------------------------------------------
(* Why it holds *)

\* What a reviewer saved was validated.
ValidRows == {rows \in Rows : \A c \in Cases : Valid(rows[c].value)}

\* An annotation's revision is behind the project's.
BehindOK == \A c \in Cases : annotation[c].revision <= revision

\* An export that has locked the project reads what it found then, and what it
\* has read is whole and valid.
ExportOK(x) ==
  /\ exp[x].pc = "rows" => lock = x /\ exp[x].at = annotation
  /\ exp[x].pc = "done" => exp[x].rows = exp[x].at
  /\ exp[x].rows \in ValidRows

\* The inductive invariant behind ExportIsUsable.
IInv ==
  /\ TypeOK
  /\ annotation \in ValidRows /\ BehindOK
  /\ \A x \in Exporters : ExportOK(x)

=============================================================================
