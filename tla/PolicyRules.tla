----------------------------- MODULE PolicyRules -----------------------------
(***************************************************************************)
(* The versions of the risk rules: drafts, one active version, retired     *)
(* ones, and the way back.  The JSON repository works under a lock on its  *)
(* file; the SQL repository reads first and then runs two updates, which   *)
(* SQLite's write lock keeps together and PostgreSQL's row locks do not.   *)
(***************************************************************************)
EXTENDS Naturals, FiniteSets

CONSTANTS
  Versions,
  Admins,
  Backends,   \* the deployments: a subset of json, sqlite, postgresql
  MaxClock    \* bound on the number of changes

VARIABLES
  backend,
  rule,      \* the rows: status, created_at and retired_at
  clock,
  admin      \* a request and what it has read

vars == <<backend, rule, clock, admin>>

TypeOK ==
  /\ backend \in Backends
  /\ rule \in [Versions -> [status: {"none", "draft", "active", "retired"},
                            created: 0 .. MaxClock, retired: 0 .. MaxClock]]
  /\ clock \in 0 .. MaxClock
  /\ admin \in [Admins -> [pc: {"idle", "retire", "switch"}, target: Versions,
                           seen: SUBSET Versions]]

Active == {v \in Versions : rule[v].status = "active"}
Retired == {v \in Versions : rule[v].status = "retired"}

Idle == [pc |-> "idle", target |-> CHOOSE v \in Versions : TRUE, seen |-> {}]

Init ==
  /\ backend \in Backends
  /\ rule = [v \in Versions |-> [status |-> "none", created |-> 0, retired |-> 0]]
  /\ clock = 0
  /\ admin = [a \in Admins |-> Idle]

Tick == clock < MaxClock /\ clock' = clock + 1

\* The JSON repository holds its lock from the read to the replaced file.
MayBegin(a) ==
  /\ admin[a].pc = "idle"
  /\ backend = "json" => \A b \in Admins : admin[b].pc = "idle"

SaveDraft(v) ==
  /\ rule[v].status = "none"
  /\ backend = "json" => \A b \in Admins : admin[b].pc = "idle"
  /\ Tick
  /\ rule' = [rule EXCEPT ![v] = [status |-> "draft", created |-> clock',
                                  retired |-> 0]]
  /\ UNCHANGED <<backend, admin>>

\* activate() of a draft.
ActivateReads(a) ==
  /\ MayBegin(a)
  /\ \E v \in Versions :
       /\ rule[v].status = "draft"
       /\ admin' = [admin EXCEPT ![a] = [Idle EXCEPT !.pc = "retire", !.target = v]]
  /\ UNCHANGED <<backend, rule, clock>>

\* rollback(): JSON sorts the retired versions by retired_at, SQL takes the first
\* of list(), which is in the order of created_at.
Newest(v) ==
  IF backend = "json"
    THEN \A u \in Retired : rule[u].retired <= rule[v].retired
    ELSE \A u \in Retired : rule[u].created <= rule[v].created

RollbackReads(a) ==
  /\ MayBegin(a)
  /\ \E v \in Retired :
       /\ Newest(v)
       /\ admin' = [admin EXCEPT ![a] = [Idle EXCEPT !.pc = "retire", !.target = v]]
  /\ UNCHANGED <<backend, rule, clock>>

\* The rows that the first update finds, in its own snapshot.
RetireReads(a) ==
  /\ admin[a].pc = "retire"
  /\ backend = "sqlite" => \A b \in Admins : admin[b].pc # "switch"
  /\ admin' = [admin EXCEPT ![a].pc = "switch", ![a].seen = Active]
  /\ UNCHANGED <<backend, rule, clock>>

\* (mutant of Switched: only the target's row is written)
SwitchedAlone(target, seen, now) ==
  [rule EXCEPT ![target].status = "active", ![target].retired = 0]

\* The first update retires what it found and what is still active; the second
\* activates the target whatever became of it.
Switched(target, seen, now) ==
  [v \in Versions |->
     IF v = target THEN [rule[v] EXCEPT !.status = "active", !.retired = 0]
     ELSE IF v \in seen \intersect Active
       THEN [rule[v] EXCEPT !.status = "retired", !.retired = now]
     ELSE rule[v]]

Switch(a) ==
  /\ admin[a].pc = "switch"
  /\ Tick
  /\ rule' = Switched(admin[a].target, admin[a].seen, clock')
  /\ admin' = [admin EXCEPT ![a] = Idle]
  /\ UNCHANGED backend

Next ==
  \/ \E v \in Versions : SaveDraft(v)
  \/ \E a \in Admins : \/ ActivateReads(a) \/ RollbackReads(a)
                       \/ RetireReads(a) \/ Switch(a)

Spec == Init /\ [][Next]_vars

-----------------------------------------------------------------------------

\* Under the file lock, and under SQLite's write lock, one version is active at
\* most, although the SQL repository reads its draft outside the transaction.
OneActive == backend # "postgresql" => Cardinality(Active) <= 1

-----------------------------------------------------------------------------
(* Why it holds *)

\* Who is between its two updates has seen what is active, and is alone there.
SwitchOK(a) ==
  admin[a].pc = "switch" =>
    /\ admin[a].seen = Active
    /\ \A b \in Admins : admin[b].pc = "switch" => a = b

\* The file lock admits one request.
LockOK == \A a, b \in Admins : admin[a].pc # "idle" /\ admin[b].pc # "idle" => a = b

\* The inductive invariant behind OneActive.
IInv ==
  /\ TypeOK
  /\ backend = "json" => LockOK
  /\ backend # "postgresql" =>
       /\ \A a \in Admins : SwitchOK(a)
       /\ \A u, v \in Active : u = v

=============================================================================
