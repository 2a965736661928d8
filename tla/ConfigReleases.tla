--------------------------- MODULE ConfigReleases ---------------------------
(***************************************************************************)
(* Configuration releases: drafts that become evaluated by a report that   *)
(* covers their planned matrix, a deployment head with an active release   *)
(* and a canary, and sessions that are assigned to one of the two once.    *)
(***************************************************************************)
EXTENDS Naturals, FiniteSets, Sequences

CONSTANTS
  Configs, NoConfig,
  Planned,             \* the keys of the evaluation plan: case, strategy, repeat
  Sessions, InCanary,  \* the sessions, and those whose bucket a canary takes
  Admins, Threads,
  MaxHead              \* bound on the versions of the head

VARIABLES
  release,   \* the rows of configuration_releases and their evidence
  head,      \* the row of deployment_heads
  assigned,  \* the rows of session_assignments
  admin,     \* deploy() between its reads and its writes
  th,        \* assign() between its reads and its insert
  told       \* the releases that assign() has answered for a session

vars == <<release, head, assigned, admin, th, told>>

NoHead == [active |-> NoConfig, candidate |-> NoConfig, canary |-> FALSE, version |-> 0]

\* The rows of a report: a key of the plan and whether the case passed.
Rows == [key: Planned, passed: BOOLEAN]
Reports == UNION {[1 .. n -> Rows] : n \in 0 .. Cardinality(Planned)}

Heads == [active: Configs \union {NoConfig}, candidate: Configs \union {NoConfig},
          canary: BOOLEAN, version: 0 .. MaxHead]

TypeOK ==
  /\ release \in [Configs -> [status: {"draft", "evaluated", "active", "retired"},
                              report: Reports]]
  /\ head \in Heads
  /\ assigned \in [Sessions -> Configs \union {NoConfig}]
  /\ admin \in [Admins -> [pc: {"idle", "deploy"}, config: Configs,
                           canary: BOOLEAN, current: Heads]]
  /\ th \in [Threads -> [pc: {"idle", "insert"}, session: Sessions, chosen: Configs]]
  /\ told \in [Sessions -> SUBSET Configs]

IdleAdmin == [pc |-> "idle", config |-> CHOOSE c \in Configs : TRUE,
              canary |-> FALSE, current |-> NoHead]
IdleThread == [pc |-> "idle", session |-> CHOOSE x \in Sessions : TRUE,
               chosen |-> CHOOSE c \in Configs : TRUE]

Init ==
  /\ release = [c \in Configs |-> [status |-> "draft", report |-> <<>>]]
  /\ head = NoHead
  /\ assigned = [x \in Sessions |-> NoConfig]
  /\ admin = [a \in Admins |-> IdleAdmin]
  /\ th = [t \in Threads |-> IdleThread]
  /\ told = [x \in Sessions |-> {}]

-----------------------------------------------------------------------------

Keys(report) == {report[i].key : i \in DOMAIN report}

\* (mutant of Complete: the rows are counted, and their keys are not compared)
CompleteByCount(report) ==
  /\ Len(report) = Cardinality(Planned)
  /\ \A i \in DOMAIN report : report[i].passed

\* validate_release_report: as many rows as planned keys, no key twice, none
\* missing, and every case passed.
Complete(report) ==
  /\ Len(report) = Cardinality(Planned)
  /\ Cardinality(Keys(report)) = Len(report)
  /\ Keys(report) = Planned
  /\ \A i \in DOMAIN report : report[i].passed

Evaluate(c, report) ==
  /\ release[c].status = "draft"
  /\ Complete(report)
  /\ release' = [release EXCEPT ![c] = [status |-> "evaluated", report |-> report]]
  /\ UNCHANGED <<head, assigned, admin, th, told>>

\* deploy(): the release and the head are read before the first write.
DeployReads(a) ==
  /\ admin[a].pc = "idle" /\ head.version < MaxHead
  /\ \E c \in Configs, canary \in BOOLEAN :
       /\ release[c].status \in {"evaluated", "active", "retired"}
       /\ Complete(release[c].report)
       /\ canary => head.version # 0
       /\ admin' = [admin EXCEPT ![a] = [pc |-> "deploy", config |-> c,
                                         canary |-> canary, current |-> head]]
  /\ UNCHANGED <<release, head, assigned, th, told>>

\* (mutant of Deployed: the old releases are retired after the new one is active)
RetiredLast(new, old, canary) ==
  [c \in Configs |->
     IF ~canary /\ c \in {old.active, old.candidate}
       THEN [release[c] EXCEPT !.status = "retired"]
     ELSE IF c = new THEN [release[c] EXCEPT !.status = "active"]
     ELSE release[c]]

\* A full deployment retires what the head named before; the new release
\* becomes active last, for it may be one of them.
Deployed(new, old, canary) ==
  [c \in Configs |->
     IF c = new THEN [release[c] EXCEPT !.status = "active"]
     ELSE IF ~canary /\ c \in {old.active, old.candidate}
       THEN [release[c] EXCEPT !.status = "retired"]
     ELSE release[c]]

Deploy(a) ==
  LET r == admin[a]
  IN  /\ r.pc = "deploy"
      /\ admin' = [admin EXCEPT ![a] = IdleAdmin]
      /\ IF head.version = r.current.version
           THEN /\ head' = [active |-> IF r.canary THEN r.current.active ELSE r.config,
                            candidate |-> IF r.canary THEN r.config ELSE NoConfig,
                            canary |-> r.canary, version |-> head.version + 1]
                /\ release' = Deployed(r.config, r.current, r.canary)
           ELSE UNCHANGED <<head, release>>
      /\ UNCHANGED <<assigned, th, told>>

Chosen(x) ==
  IF head.candidate # NoConfig /\ x \in InCanary THEN head.candidate ELSE head.active

Told(x, c) == told' = [told EXCEPT ![x] = @ \union {c}]

\* assign(): a row that is there is the answer.
AssignReads(t, x) ==
  /\ th[t].pc = "idle"
  /\ \/ /\ assigned[x] # NoConfig
        /\ Told(x, assigned[x]) /\ UNCHANGED th
     \/ /\ assigned[x] = NoConfig /\ head.version # 0
        /\ th' = [th EXCEPT ![t] = [pc |-> "insert", session |-> x,
                                    chosen |-> Chosen(x)]]
        /\ UNCHANGED told
  /\ UNCHANGED <<release, head, assigned, admin>>

\* (mutant of Free: the row of another thread is overwritten)
FreeAlways(x) == TRUE

Free(x) == assigned[x] = NoConfig

\* The insert; a row of another thread makes the loop read again.
AssignInserts(t) ==
  /\ th[t].pc = "insert"
  /\ th' = [th EXCEPT ![t] = IdleThread]
  /\ LET x == th[t].session IN
     IF Free(x)
       THEN assigned' = [assigned EXCEPT ![x] = th[t].chosen] /\ Told(x, th[t].chosen)
       ELSE UNCHANGED <<assigned, told>>
  /\ UNCHANGED <<release, head, admin>>

Next ==
  \/ \E c \in Configs, report \in Reports : Evaluate(c, report)
  \/ \E a \in Admins : DeployReads(a) \/ Deploy(a)
  \/ \E t \in Threads : AssignInserts(t) \/ \E x \in Sessions : AssignReads(t, x)

Spec == Init /\ [][Next]_vars

-----------------------------------------------------------------------------

\* The head's releases are marked active and passed each planned case once,
\* although two administrators deploy at the same time, a release comes back
\* after it was retired, and a canary is promoted.
HeadIsProven ==
  \A c \in {head.active, head.candidate} \ {NoConfig} :
    /\ release[c].status = "active"
    /\ \A k \in Planned :
         Cardinality({i \in DOMAIN release[c].report :
                        release[c].report[i] = [key |-> k, passed |-> TRUE]}) = 1

\* A session is told one release for good, whatever is deployed between its
\* requests and whichever of its first requests is faster.
SessionSticks == \A x \in Sessions : Cardinality(told[x]) <= 1

-----------------------------------------------------------------------------
(* Why they hold *)

CompleteReports == {report \in Reports : Complete(report)}

\* What left the drafts has a complete report.
ReportOK(c) == release[c].status # "draft" => release[c].report \in CompleteReports

\* The head names releases that are marked active, and an active one as soon as
\* there is a head.
HeadOK ==
  /\ \A c \in {head.active, head.candidate} \ {NoConfig} : release[c].status = "active"
  /\ head.version # 0 => head.active # NoConfig

\* A deployment is about a release that left the drafts, and has read the head
\* of that version.
AdminOK(a) ==
  admin[a].pc = "deploy" =>
    /\ release[admin[a].config].status # "draft"
    /\ admin[a].current.version <= head.version
    /\ admin[a].current.version < MaxHead
    /\ admin[a].current.version = head.version => admin[a].current = head
    /\ admin[a].canary => admin[a].current.version # 0

\* A session is told what it is assigned to.
ToldOK(x) == told[x] \subseteq {assigned[x]} \ {NoConfig}

\* The inductive invariant behind both.
IInv ==
  /\ TypeOK
  /\ \A c \in Configs : ReportOK(c)
  /\ HeadOK
  /\ \A a \in Admins : AdminOK(a)
  /\ \A x \in Sessions : ToldOK(x)

=============================================================================
