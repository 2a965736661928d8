---------------------------- MODULE PlanRunProofs ----------------------------
(***************************************************************************)
(* The invariant of PlanRun is inductive, for every plan, every number of  *)
(* executors and any faults.                                               *)
(*                                                                         *)
(* Every copy of the plan, in the row, in the turn's snapshot and in the   *)
(* executors, tells the truth (Sound).  A copy is never newer than the     *)
(* row, and a copy as new as a row that has ended has ended the same way   *)
(* (Dated): so a save that is not stale does not undo an end.  Once the    *)
(* last executor has saved, every other copy is older (SavedOK): whoever   *)
(* comes late is stale, and the row stays what the last executor wrote     *)
(* when it sends the call that the row speaks of.                          *)
(***************************************************************************)
EXTENDS OperationsProofs, Sequences, FiniteSetTheorems, WellFoundedInduction, TLAPS

-----------------------------------------------------------------------------
(* PlanRun: the invariant *)

\* What an executor holds: p a copy of the plan, x an executor, g the steps that
\* were carried out, n the number of rows of plan_runs.
Sound(p, g) ==
  /\ P!In(p.steps, "completed") \subseteq g
  /\ p.status = "completed" => P!In(p.steps, "completed") = P!Steps
  /\ p.status = "awaiting_confirmation"
       => P!In(p.steps, "awaiting_confirmation") # {}

Named(p) == p.status # "none" => p.run \in P!Execs

\* The copy p of the row r.
Dated(p, r) ==
  /\ p.version <= r.version
  /\ p.version = r.version /\ r.status \in P!Ended => p.status = r.status

Working == {"check", "claim", "save", "fence", "finish", "mark"}

\* What the checkpoints of an executor are about, by the place where it goes on.
AtWork(x) ==
  \/ x.pc \in {"loop", "call"}
  \/ x.pc \in Working /\ x.next \in {"execute", "loop", "more", "call"}

Calling(x) == x.pc = "call" \/ (x.pc \in Working /\ x.next = "call")

Checkpoint(x) == x.pc \in Working /\ x.via = "checkpoint"

Reported == {"awaiting_confirmation", "completed", "failed", "cancelled"}

StageOK(x) ==
  /\ x.pc \in {"claim", "fence", "finish"} => x.via = "checkpoint"
  /\ x.pc \in Working => x.life.status # "none"
  /\ AtWork(x) => x.life.status = "running"
  /\ Checkpoint(x) => x.life.status \in Reported \union {"running"}
  /\ x.pc = "finish" => x.life.status # "running"
  /\ x.pc \in Working /\ x.next = "more" => x.todo # {}
  /\ Calling(x) => \A s \in x.batch : x.life.steps[s] = "running"

\* A step that waits for its call has a try left.
TriesOK(x) ==
  \A s \in P!Steps :
    /\ x.tries[s] <= P!Attempts(s)
    /\ x.res[s] = "none" /\ s \notin x.open => x.tries[s] < P!Attempts(s)

HandleOK(x, n) ==
  /\ x.handle <= n
  /\ x.pc \in {"save", "fence", "finish"} /\ x.via = "checkpoint" => x.handle > 0

TruthOK(x, g) ==
  /\ Sound(x.life, g)
  /\ P!In(x.prev, "completed") \subseteq g
  /\ P!In(x.res, "completed") \subseteq g

\* The executor by itself.
ShapeOK(x) == x \in P!Executors /\ Named(x.life) /\ StageOK(x) /\ TriesOK(x)

\* The executor among the rows.
ExecOK(x, g, n, r) ==
  ShapeOK(x) /\ HandleOK(x, n) /\ TruthOK(x, g) /\ Dated(x.life, r)

\* The row of plans.
PlanOK ==
  /\ plan \in P!Plans
  /\ Named(plan)
  /\ Sound(plan, good)
  /\ plan.version = 0 => plan = P!NoPlan
  /\ plan.version # 0 => plan.status # "none"

\* The turn.
JournalOK ==
  \A c \in P!CallIds : turn.journal[c] = "completed" => c[1] \in good

TurnOK ==
  /\ turn \in P!Turns
  /\ Named(turn.initial)
  /\ Sound(turn.initial, good)
  /\ turn.initial.version <= plan.version
  /\ turn.initial.version = plan.version
       => turn.initial.status = plan.status
  /\ turn.mark => plan.status # "none"
  /\ JournalOK

ExecsOK ==
  /\ ex \in [P!Execs -> P!Executors]
  /\ \A e \in P!Execs : ExecOK(ex[e], good, Len(runs), plan)

\* Where an executor has saved and not begun another checkpoint.
AfterSave == {"fence", "finish", "mark", "loop", "call"}

\* The last executor has saved: the row is its copy, the others are stale.
Leads(e) ==
  /\ plan.steps = ex[e].life.steps
  /\ ex[e].life.version <= plan.version
  /\ 0 < ex[e].life.version
  /\ \A d \in P!Execs \ {e} : ex[d].life.version < ex[e].life.version

SavedOK ==
  \A e \in P!Execs : turn.owner = e /\ ex[e].pc \in AfterSave => Leads(e)

OthersOK ==
  /\ faults \in 0 .. MaxFaults
  /\ overdue \in BOOLEAN
  /\ runs \in Seq(P!RunRows)
  /\ good \subseteq P!Steps /\ asked \subseteq P!Steps

PlanInv == OthersOK /\ PlanOK /\ TurnOK /\ ExecsOK /\ SavedOK

-----------------------------------------------------------------------------
(* PlanRun: what its data look like *)

LEMMA MinIn ==
  ASSUME NEW S \in SUBSET Nat, S # {}
  PROVE  P!Min(S) \in S
<1>1. PICK x \in S : \A y \in S : <<y, x>> \notin OpToRel(<, Nat)
  BY NatLessThanWellFounded, WFMin, Zenon
<1>2. ASSUME NEW y \in S PROVE x <= y
  <2>1. x \in Nat /\ y \in Nat
    OBVIOUS
  <2>2. ~ (y < x)
    <3> DEFINE c == <<y, x>>
    <3>1. c[1] = y /\ c[2] = x /\ c \in Nat \X Nat
      BY <2>1
    <3>2. c \notin {ss \in Nat \X Nat : ss[1] < ss[2]}
      BY <1>1 DEF OpToRel
    <3> QED
      BY <3>1, <3>2
  <2> QED
    BY <2>1, <2>2
<1> QED
  BY <1>2 DEF P!Min

LEMMA PlanTypes ==
  ASSUME NEW p \in P!Plans
  PROVE  /\ p.status \in P!PlanStatus /\ p.version \in Nat
         /\ p.resume \in 0 .. MaxResume /\ p.run \in P!Execs \union {0}
         /\ p.steps \in [P!Steps -> P!StepStatus]
BY DEF P!Plans

LEMMA ExecTypes ==
  ASSUME NEW x \in P!Executors
  PROVE  /\ x.pc \in P!Pcs /\ x.via \in {"checkpoint", "record"}
         /\ x.next \in P!Nexts /\ x.life \in P!Plans
         /\ x.prev \in [P!Steps -> P!StepStatus]
         /\ x.res \in [P!Steps -> P!StepStatus]
         /\ x.conf \in SUBSET P!Steps /\ x.batch \in SUBSET P!Steps
         /\ x.todo \in SUBSET P!Steps /\ x.open \in SUBSET P!Steps
         /\ x.tries \in [P!Steps -> 0 .. ReadAttempts]
         /\ x.handle \in Nat /\ x.seen \in BOOLEAN
BY DEF P!Executors

LEMMA NoPlanIsPlan ==
  /\ P!NoPlan \in P!Plans
  /\ P!NoPlan.status = "none" /\ P!NoPlan.version = 0
  /\ P!NoPlan.steps = [s \in P!Steps |-> "none"]
  /\ P!NoPlan.steps \in [P!Steps -> P!StepStatus]
BY PlanAssumption DEF P!NoPlan, P!Plans, P!AllSteps, P!PlanStatus, P!StepStatus, P!Execs

LEMMA FreshTypes ==
  ASSUME NEW a \in P!Pcs
  PROVE  /\ P!Fresh(a) \in P!Executors
         /\ P!Fresh(a).pc = a /\ P!Fresh(a).life = P!NoPlan
         /\ P!Fresh(a).via = "record" /\ P!Fresh(a).next = "end"
         /\ P!Fresh(a).handle = 0
         /\ P!Fresh(a).prev = [s \in P!Steps |-> "none"]
         /\ P!Fresh(a).res = [s \in P!Steps |-> "none"]
         /\ P!Fresh(a).tries = [s \in P!Steps |-> 0]
         /\ P!Fresh(a).open = {} /\ P!Fresh(a).batch = {}
<1>1. /\ P!AllSteps("none") \in [P!Steps -> P!StepStatus]
      /\ P!AllSteps(0) \in [P!Steps -> 0 .. ReadAttempts]
  BY PlanAssumption DEF P!AllSteps, P!StepStatus
<1>2. "end" \in P!Nexts
  BY DEF P!Nexts
<1>3. P!Fresh(a) \in P!Executors
  BY <1>1, <1>2, NoPlanIsPlan DEF P!Fresh, P!Executors
<1> QED
  BY <1>3 DEF P!Fresh, P!AllSteps

LEMMA SavingTypes ==
  ASSUME NEW x \in P!Executors, NEW v \in {"checkpoint", "record"},
         NEW p \in P!Plans, NEW n \in P!Nexts, NEW y, y = P!Saving(x, v, p, n)
  PROVE  /\ y \in P!Executors
         /\ y.pc = "check" /\ y.via = v /\ y.life = p /\ y.next = n
         /\ y.prev = x.prev /\ y.res = x.res /\ y.conf = x.conf
         /\ y.batch = x.batch /\ y.todo = x.todo /\ y.open = x.open
         /\ y.tries = x.tries /\ y.handle = x.handle /\ y.seen = x.seen
BY DEF P!Saving, P!Executors, P!Pcs

-----------------------------------------------------------------------------
(* PlanRun: what stays true of a copy while others move *)

\* The row keeps its steps; when its status changes, so does its version.
PlanMoves ==
  \/ plan' = plan
  \/ /\ plan'.version = plan.version + 1
     /\ plan'.steps = plan.steps
     /\ plan'.status # "none"

LEMMA SoundGrows ==
  ASSUME NEW p, NEW g, NEW h, Sound(p, g), g \subseteq h
  PROVE  Sound(p, h)
BY DEF Sound

LEMMA ExecGrows ==
  ASSUME NEW x, NEW g, NEW h, NEW n \in Nat, NEW m \in Nat,
         NEW r \in P!Plans, NEW q \in P!Plans,
         ExecOK(x, g, n, r), g \subseteq h, n <= m,
         q = r \/ r.version < q.version
  PROVE  ExecOK(x, h, m, q)
<1>1. x \in P!Executors
  BY DEF ExecOK, ShapeOK
<1>2. x.life.version \in Nat /\ x.handle \in Nat /\ r.version \in Nat /\ q.version \in Nat
  BY <1>1, ExecTypes, PlanTypes
<1>3. HandleOK(x, m)
  BY <1>2 DEF ExecOK, HandleOK
<1>4. TruthOK(x, h)
  BY SoundGrows DEF ExecOK, TruthOK
<1>5. Dated(x.life, q)
  BY <1>2 DEF ExecOK, Dated
<1> QED
  BY <1>3, <1>4, <1>5 DEF ExecOK

LEMMA TurnSame ==
  ASSUME TurnOK, turn' = turn, PlanOK, plan' \in P!Plans, PlanMoves,
         good \subseteq good'
  PROVE  TurnOK'
<1>1. turn.initial \in P!Plans
  BY DEF TurnOK, P!Turns
<1>2. turn.initial.version \in Nat /\ plan.version \in Nat
  BY <1>1, PlanTypes DEF PlanOK
<1>3. Sound(turn.initial, good')
  BY SoundGrows DEF TurnOK
<1> QED
  BY <1>2, <1>3 DEF TurnOK, JournalOK, PlanMoves

LEMMA PlanSame ==
  ASSUME PlanOK, plan' = plan, good \subseteq good'
  PROVE  PlanOK'
BY SoundGrows DEF PlanOK

\* What the step of an executor does to itself as the last one (mine).
Keeps(x, y, mine) ==
  /\ y.life.version = x.life.version \/ y.life.version = 0 \/ mine
  /\ y.pc \in AfterSave
       => /\ x.pc \in AfterSave
          /\ y.life.steps = x.life.steps /\ y.life.version = x.life.version

LEMMA ExecStep ==
  ASSUME ExecsOK, SavedOK, PlanOK, runs \in Seq(P!RunRows), runs' \in Seq(P!RunRows),
         NEW e \in P!Execs, NEW y,
         ex' = [ex EXCEPT ![e] = y],
         ExecOK(y, good', Len(runs'), plan'), Keeps(ex[e], y, turn.owner = e),
         good \subseteq good', Len(runs) <= Len(runs'),
         plan' \in P!Plans, PlanMoves, turn'.owner = turn.owner
  PROVE  ExecsOK' /\ SavedOK'
<1>1. y \in P!Executors
  BY DEF ExecOK, ShapeOK
<1>2. /\ ex \in [P!Execs -> P!Executors] /\ ex' \in [P!Execs -> P!Executors]
      /\ ex'[e] = y /\ \A d \in P!Execs \ {e} : ex'[d] = ex[d]
  BY <1>1 DEF ExecsOK
<1>3. /\ plan \in P!Plans /\ Len(runs) \in Nat /\ Len(runs') \in Nat
      /\ plan.version \in Nat /\ plan'.version \in Nat
  BY PlanTypes DEF PlanOK
<1>4. plan' = plan \/ plan.version < plan'.version
  BY <1>3 DEF PlanMoves
<1>5. ASSUME NEW d \in P!Execs PROVE ExecOK(ex'[d], good', Len(runs'), plan')
  <2>1. CASE d = e
    BY <2>1, <1>2
  <2>2. CASE d # e
    <3>1. ExecOK(ex[d], good, Len(runs), plan)
      BY DEF ExecsOK
    <3>2. ExecOK(ex[d], good', Len(runs'), plan')
      BY <3>1, <1>3, <1>4, ExecGrows
    <3> QED
      BY <3>2, <2>2, <1>2
  <2> QED
    BY <2>1, <2>2
<1>6. ExecsOK'
  BY <1>2, <1>5 DEF ExecsOK
<1>7. ASSUME NEW d \in P!Execs PROVE ex[d].life.version \in Nat /\ ex'[d].life.version \in Nat
  BY <1>2, ExecTypes, PlanTypes
<1>8. ASSUME NEW l \in P!Execs, turn'.owner = l, ex'[l].pc \in AfterSave
      PROVE  /\ plan'.steps = ex'[l].life.steps
             /\ ex'[l].life.version <= plan'.version
             /\ 0 < ex'[l].life.version
             /\ \A d \in P!Execs \ {l} : ex'[d].life.version < ex'[l].life.version
  <2>1. /\ ex[l].pc \in AfterSave
        /\ ex'[l].life.steps = ex[l].life.steps
        /\ ex'[l].life.version = ex[l].life.version
    BY <1>8, <1>2 DEF Keeps
  <2>2. Leads(l)
    BY <2>1, <1>8 DEF SavedOK
  <2>3. plan'.steps = plan.steps /\ plan.version <= plan'.version
    BY <1>3 DEF PlanMoves
  <2>4. ASSUME NEW d \in P!Execs \ {l} PROVE ex'[d].life.version < ex'[l].life.version
    <3>1. ex'[d].life.version = ex[d].life.version \/ ex'[d].life.version = 0
      BY <1>8, <1>2 DEF Keeps
    <3> QED
      BY <3>1, <2>1, <2>2, <1>7 DEF Leads
  <2> QED
    BY <2>1, <2>2, <2>3, <2>4, <1>3, <1>7 DEF Leads
<1>9. SavedOK'
  BY <1>8 DEF SavedOK, Leads
<1> QED
  BY <1>6, <1>9

LEMMA ExecsSame ==
  ASSUME ExecsOK, SavedOK, PlanOK, runs \in Seq(P!RunRows), runs' \in Seq(P!RunRows),
         ex' = ex, good \subseteq good', Len(runs) <= Len(runs'),
         plan' \in P!Plans, PlanMoves, turn'.owner = turn.owner
  PROVE  ExecsOK' /\ SavedOK'
<1>3. /\ plan \in P!Plans /\ Len(runs) \in Nat /\ Len(runs') \in Nat
      /\ plan.version \in Nat /\ plan'.version \in Nat
  BY PlanTypes DEF PlanOK
<1>4. plan' = plan \/ plan.version < plan'.version
  BY <1>3 DEF PlanMoves
<1>5. ASSUME NEW d \in P!Execs PROVE ExecOK(ex[d], good', Len(runs'), plan')
  <2>1. ExecOK(ex[d], good, Len(runs), plan)
    BY DEF ExecsOK
  <2> QED
    BY <2>1, <1>3, <1>4, ExecGrows
<1>6. ExecsOK'
  BY <1>5 DEF ExecsOK
<1>7. ASSUME NEW d \in P!Execs PROVE ex[d].life.version \in Nat
  BY ExecTypes, PlanTypes DEF ExecsOK
<1>8. ASSUME NEW l \in P!Execs, turn.owner = l, ex[l].pc \in AfterSave
      PROVE  /\ plan'.steps = ex[l].life.steps
             /\ ex[l].life.version <= plan'.version
             /\ 0 < ex[l].life.version
             /\ \A d \in P!Execs \ {l} : ex[d].life.version < ex[l].life.version
  <2>2. Leads(l)
    BY <1>8 DEF SavedOK
  <2> QED
    BY <2>2, <1>3, <1>7 DEF Leads, PlanMoves
<1>9. SavedOK'
  BY <1>8 DEF SavedOK, Leads
<1> QED
  BY <1>6, <1>9

-----------------------------------------------------------------------------
(* PlanRun: the records that an executor becomes *)

LEMMA FreshOK ==
  ASSUME NEW a \in {"begin", "gone"}, NEW g, NEW n \in Nat,
         NEW r \in P!Plans, r.version = 0 => r = P!NoPlan
  PROVE  ExecOK(P!Fresh(a), g, n, r)
<1>1. a \in P!Pcs
  BY DEF P!Pcs
<1> DEFINE x == P!Fresh(a)
<1>2. /\ x \in P!Executors /\ x.pc = a /\ x.life = P!NoPlan /\ x.handle = 0
      /\ x.res = [s \in P!Steps |-> "none"] /\ x.prev = [s \in P!Steps |-> "none"]
      /\ x.tries = [s \in P!Steps |-> 0] /\ x.via = "record"
  BY <1>1, FreshTypes
<1>3. x.life.status = "none" /\ x.life.version = 0
      /\ x.life.steps = [s \in P!Steps |-> "none"]
  BY <1>2, NoPlanIsPlan
<1> HIDE DEF x
<1>4. Named(x.life) /\ StageOK(x)
  BY <1>2, <1>3 DEF Named, StageOK, AtWork, Calling, Checkpoint, Working
<1>5. TriesOK(x)
  BY <1>2, PlanAssumption DEF TriesOK, P!Attempts
<1>6. HandleOK(x, n)
  BY <1>2 DEF HandleOK
<1>7. TruthOK(x, g)
  BY <1>2, <1>3 DEF TruthOK, Sound, P!In
<1>8. Dated(x.life, r)
  <2>1. r.version \in Nat
    BY PlanTypes
  <2>2. r.version = 0 => r.status = "none"
    BY NoPlanIsPlan
  <2> QED
    BY <1>3, <2>1, <2>2 DEF Dated, P!Ended
<1> QED
  BY <1>2, <1>4, <1>5, <1>6, <1>7, <1>8 DEF ExecOK, ShapeOK, x

\* An executor that begins the checkpoint of p.
LEMMA SavingOK ==
  ASSUME NEW x \in P!Executors, NEW v \in {"checkpoint", "record"},
         NEW p \in P!Plans, NEW n \in P!Nexts, NEW g, NEW k \in Nat, NEW r,
         NEW y, y = P!Saving(x, v, p, n),
         TriesOK(x), x.handle <= k,
         P!In(x.prev, "completed") \subseteq g, P!In(x.res, "completed") \subseteq g,
         p.status # "none", Named(p), Sound(p, g), Dated(p, r),
         v = "checkpoint" => p.status \in Reported \union {"running"},
         n \in {"execute", "loop", "more", "call"} => p.status = "running",
         n = "more" => x.todo # {},
         n = "call" => \A s \in x.batch : p.steps[s] = "running"
  PROVE  ExecOK(y, g, k, r) /\ y.pc = "check" /\ y.life = p
<1>1. /\ y \in P!Executors
      /\ y.pc = "check" /\ y.via = v /\ y.life = p /\ y.next = n
      /\ y.prev = x.prev /\ y.res = x.res
      /\ y.batch = x.batch /\ y.todo = x.todo /\ y.open = x.open
      /\ y.tries = x.tries /\ y.handle = x.handle
  BY SavingTypes
<1>2. StageOK(y)
  BY <1>1 DEF StageOK, AtWork, Calling, Checkpoint, Working
<1>3. TriesOK(y)
  BY <1>1 DEF TriesOK
<1>4. HandleOK(y, k) /\ TruthOK(y, g)
  BY <1>1 DEF HandleOK, TruthOK
<1> QED
  BY <1>1, <1>2, <1>3, <1>4 DEF ExecOK, ShapeOK

LEMMA StartedOK ==
  ASSUME NEW x \in P!Executors, NEW p \in P!Plans, NEW c \in SUBSET P!Steps,
         NEW g, NEW k \in Nat, NEW r, NEW y, y = P!Started(x, p, c),
         TriesOK(x), x.handle <= k, P!In(x.res, "completed") \subseteq g,
         Named(p), Sound(p, g), Dated(p, r), p.status = "running"
  PROVE  ExecOK(y, g, k, r) /\ y.pc = "check" /\ y.life.version = p.version
<1> DEFINE z == [x EXCEPT !.prev = p.steps, !.conf = c]
           q == [p EXCEPT !.steps = P!AllSteps("none")]
<1>1. /\ z \in P!Executors /\ z.prev = p.steps /\ z.res = x.res
      /\ z.tries = x.tries /\ z.open = x.open /\ z.handle = x.handle
  BY PlanTypes DEF P!Executors
<1>2. /\ q.status = p.status /\ q.version = p.version /\ q.run = p.run
      /\ q.steps = P!AllSteps("none") /\ q \in P!Plans
  BY DEF P!Plans, P!AllSteps, P!StepStatus
<1>3. y = P!Saving(z, "checkpoint", q, "loop")
  BY DEF P!Started
<1>4. "loop" \in P!Nexts
  BY DEF P!Nexts
<1> HIDE DEF z, q
<1>5. TriesOK(z)
  BY <1>1 DEF TriesOK
<1>6. Sound(q, g)
  BY <1>2 DEF Sound, P!In, P!AllSteps
<1>7. Named(q) /\ Dated(q, r)
  BY <1>2 DEF Named, Dated
<1>8. P!In(z.prev, "completed") \subseteq g /\ P!In(z.res, "completed") \subseteq g
  BY <1>1 DEF Sound
<1> QED
  BY <1>1, <1>2, <1>3, <1>4, <1>5, <1>6, <1>7, <1>8, SavingOK

LEMMA WithTypes ==
  ASSUME NEW f \in [P!Steps -> P!StepStatus], NEW S, NEW v \in P!StepStatus
  PROVE  /\ P!With(f, S, v) \in [P!Steps -> P!StepStatus]
         /\ \A s \in P!Steps : P!With(f, S, v)[s] = IF s \in S THEN v ELSE f[s]
         /\ P!In(P!With(f, S, v), "completed")
              \subseteq P!In(f, "completed") \union (IF v = "completed" THEN S ELSE {})
BY DEF P!With, P!In

LEMMA RunningOK ==
  ASSUME NEW x \in P!Executors, NEW S \in SUBSET P!Steps,
         NEW g, NEW k \in Nat, NEW r, NEW y, y = P!RunningCheckpoint(x, S),
         TriesOK(x), x.handle <= k,
         P!In(x.prev, "completed") \subseteq g, P!In(x.res, "completed") \subseteq g,
         Named(x.life), Dated(x.life, r), x.life.status = "running"
  PROVE  ExecOK(y, g, k, r) /\ y.pc = "check" /\ y.life.version = x.life.version
<1> DEFINE z == [x EXCEPT !.batch = S]
           w == P!With(x.res, S, "running")
           q == [x.life EXCEPT !.steps = w]
<1>1. /\ z \in P!Executors /\ z.prev = x.prev /\ z.res = x.res /\ z.batch = S
      /\ z.tries = x.tries /\ z.open = x.open /\ z.handle = x.handle
  BY DEF P!Executors
<1>2. /\ x.life \in P!Plans /\ x.res \in [P!Steps -> P!StepStatus]
      /\ "running" \in P!StepStatus
  BY ExecTypes DEF P!StepStatus
<1>3. /\ w \in [P!Steps -> P!StepStatus]
      /\ \A s \in S : w[s] = "running"
      /\ P!In(w, "completed") \subseteq P!In(x.res, "completed")
  BY <1>2, WithTypes
<1> HIDE DEF w
<1>4. /\ q.status = "running" /\ q.version = x.life.version /\ q.run = x.life.run
      /\ q.steps = w /\ q \in P!Plans
  BY <1>2, <1>3 DEF P!Plans
<1>5. y = P!Saving(z, "checkpoint", q, "call")
  BY DEF P!RunningCheckpoint, w
<1>6. "call" \in P!Nexts
  BY DEF P!Nexts
<1> HIDE DEF z, q
<1>7. TriesOK(z)
  BY <1>1 DEF TriesOK
<1>8. Sound(q, g)
  BY <1>3, <1>4 DEF Sound
<1>9. Named(q) /\ Dated(q, r)
  BY <1>4 DEF Named, Dated
<1> QED
  BY <1>1, <1>3, <1>4, <1>5, <1>6, <1>7, <1>8, <1>9, SavingOK

\* Only the place changes.
LEMMA PlaceTypes ==
  ASSUME NEW x \in P!Executors, NEW a \in P!Pcs, NEW y, y = [x EXCEPT !.pc = a]
  PROVE  /\ y \in P!Executors
         /\ y.pc = a /\ y.via = x.via /\ y.life = x.life /\ y.next = x.next
         /\ y.prev = x.prev /\ y.res = x.res /\ y.conf = x.conf
         /\ y.batch = x.batch /\ y.todo = x.todo /\ y.open = x.open
         /\ y.tries = x.tries /\ y.handle = x.handle /\ y.seen = x.seen
BY DEF P!Executors

LEMMA PlaceOK ==
  ASSUME NEW x, NEW a \in P!Pcs, NEW y, y = [x EXCEPT !.pc = a],
         NEW g, NEW k, NEW r, ExecOK(x, g, k, r), StageOK(y), HandleOK(y, k)
  PROVE  ExecOK(y, g, k, r)
<1>1. /\ y \in P!Executors
      /\ y.pc = a /\ y.via = x.via /\ y.life = x.life /\ y.next = x.next
      /\ y.prev = x.prev /\ y.res = x.res
      /\ y.batch = x.batch /\ y.todo = x.todo /\ y.open = x.open
      /\ y.tries = x.tries /\ y.handle = x.handle
  BY PlaceTypes DEF ExecOK, ShapeOK
<1> QED
  BY <1>1 DEF ExecOK, ShapeOK, TruthOK, TriesOK

\* What the executor knows of the place where it goes on.
KnowsNext(x) ==
  /\ x.life.status # "none"
  /\ x.next \in {"execute", "loop", "more", "call"} => x.life.status = "running"
  /\ x.next = "more" => x.todo # {}
  /\ x.next = "call" => \A s \in x.batch : x.life.steps[s] = "running"

LEMMA ContinueOK ==
  ASSUME NEW x \in P!Executors, NEW g, NEW k \in Nat, NEW r,
         NEW y, y = P!Continue(x),
         TriesOK(x), x.handle <= k, TruthOK(x, g), Named(x.life), Dated(x.life, r),
         KnowsNext(x)
  PROVE  /\ ExecOK(y, g, k, r)
         /\ y.life.version = x.life.version
         /\ y.pc \in AfterSave => y.life.steps = x.life.steps
<1>1. /\ x.next \in P!Nexts /\ x.life \in P!Plans
      /\ x.todo \in SUBSET P!Steps /\ x.life.steps \in [P!Steps -> P!StepStatus]
  BY ExecTypes, PlanTypes
<1>2. Sound(x.life, g) /\ P!In(x.res, "completed") \subseteq g
      /\ P!In(x.prev, "completed") \subseteq g
  BY DEF TruthOK
<1> USE DEF KnowsNext
<1>3. CASE x.next = "execute"
  <2> DEFINE c == P!In(x.life.steps, "awaiting_confirmation")
  <2>1. c \in SUBSET P!Steps
    BY DEF P!In
  <2>2. y = P!Started(x, x.life, c)
    BY <1>3 DEF P!Continue
  <2> HIDE DEF c
  <2>3. ExecOK(y, g, k, r) /\ y.pc = "check" /\ y.life.version = x.life.version
    BY <1>1, <1>2, <1>3, <2>1, <2>2, StartedOK
  <2> QED
    BY <2>3 DEF AfterSave
<1>4. CASE x.next = "more"
  <2> DEFINE m == P!Min(x.todo)
             z == [x EXCEPT !.todo = @ \ {m}]
  <2>1. m \in P!Steps
    <3>1. x.todo \in SUBSET Nat /\ x.todo # {}
      BY <1>1, <1>4, PlanAssumption DEF P!Steps
    <3> QED
      BY <1>1, <3>1, MinIn
  <2> HIDE DEF m
  <2>2. /\ z \in P!Executors /\ z.prev = x.prev /\ z.res = x.res /\ z.life = x.life
        /\ z.tries = x.tries /\ z.open = x.open /\ z.handle = x.handle
    BY DEF P!Executors
  <2>3. y = P!RunningCheckpoint(z, {m})
    BY <1>4 DEF P!Continue, m
  <2> HIDE DEF z
  <2>4. TriesOK(z)
    BY <2>2 DEF TriesOK
  <2>5. ExecOK(y, g, k, r) /\ y.pc = "check" /\ y.life.version = z.life.version
    <3>1. {m} \in SUBSET P!Steps
      BY <2>1
    <3> QED
      BY <1>2, <1>4, <2>2, <2>3, <2>4, <3>1, RunningOK
  <2> QED
    BY <2>2, <2>5 DEF AfterSave
<1>5. CASE x.next = "final"
  <2>1. y = P!Saving(x, "record", x.life, "end") /\ "end" \in P!Nexts
    BY <1>5 DEF P!Continue, P!Nexts
  <2>2. ExecOK(y, g, k, r) /\ y.pc = "check" /\ y.life = x.life
    BY <1>1, <1>2, <2>1, SavingOK
  <2> QED
    BY <2>2 DEF AfterSave
<1>6. CASE x.next \in {"loop", "call", "end"}
  <2>1. y = [x EXCEPT !.pc = x.next] /\ x.next \in P!Pcs
    BY <1>6 DEF P!Continue, P!Pcs
  <2>2. /\ y \in P!Executors
        /\ y.pc = x.next /\ y.via = x.via /\ y.life = x.life /\ y.next = x.next
        /\ y.prev = x.prev /\ y.res = x.res
        /\ y.batch = x.batch /\ y.todo = x.todo /\ y.open = x.open
        /\ y.tries = x.tries /\ y.handle = x.handle
    BY <2>1, PlaceTypes
  <2>3. StageOK(y)
    BY <1>6, <2>2 DEF StageOK, AtWork, Calling, Checkpoint, Working
  <2>4. HandleOK(y, k)
    BY <1>6, <2>2 DEF HandleOK
  <2> QED
    BY <2>2, <2>3, <2>4 DEF ExecOK, ShapeOK, TruthOK, TriesOK
<1> QED
  BY <1>1, <1>3, <1>4, <1>5, <1>6 DEF P!Nexts

-----------------------------------------------------------------------------
(* PlanRun: turns *)

LEMMA ClosedTurnOK ==
  ASSUME NEW o \in P!Execs \union {0}, PlanOK', turn' = P!ClosedTurn(o)
  PROVE  TurnOK' /\ turn'.owner = o
<1>1. /\ turn' \in P!Turns /\ turn'.owner = o /\ turn'.initial = P!NoPlan
      /\ turn'.mark = FALSE
      /\ turn'.journal = [c \in P!CallIds |-> "none"]
  BY NoPlanIsPlan DEF P!ClosedTurn, P!NewTurn, P!Turns
<1>2. plan' \in P!Plans /\ (plan'.version = 0 => plan' = P!NoPlan)
      /\ plan'.version \in Nat
  BY PlanTypes DEF PlanOK
<1>3. Named(turn'.initial) /\ Sound(turn'.initial, good')
  BY <1>1, NoPlanIsPlan DEF Named, Sound, P!In
<1>4. JournalOK'
  BY <1>1 DEF JournalOK
<1> QED
  BY <1>1, <1>2, <1>3, <1>4, NoPlanIsPlan DEF TurnOK

LEMMA NewTurnOK ==
  ASSUME NEW o \in P!Execs \union {0}, NEW k \in {"ask", "confirm"},
         PlanOK', turn' = P!NewTurn(k, o)
  PROVE  TurnOK' /\ turn'.owner = o
<1>1. /\ turn' \in P!Turns /\ turn'.owner = o /\ turn'.initial = P!NoPlan
      /\ turn'.mark = FALSE
      /\ turn'.journal = [c \in P!CallIds |-> "none"]
  BY NoPlanIsPlan DEF P!NewTurn, P!Turns
<1>2. plan' \in P!Plans /\ (plan'.version = 0 => plan' = P!NoPlan)
      /\ plan'.version \in Nat
  BY PlanTypes DEF PlanOK
<1>3. Named(turn'.initial) /\ Sound(turn'.initial, good')
  BY <1>1, NoPlanIsPlan DEF Named, Sound, P!In
<1>4. JournalOK'
  BY <1>1 DEF JournalOK
<1> QED
  BY <1>1, <1>2, <1>3, <1>4, NoPlanIsPlan DEF TurnOK

\* Lease and owner do not matter to what the turn knows.
LEMMA TurnLike ==
  ASSUME TurnOK, turn' \in P!Turns, turn'.initial = turn.initial,
         turn'.mark = turn.mark, turn'.journal = turn.journal,
         PlanOK, plan' \in P!Plans, PlanMoves, good \subseteq good'
  PROVE  TurnOK'
<1>1. turn.initial \in P!Plans
  BY DEF TurnOK, P!Turns
<1>2. turn.initial.version \in Nat /\ plan.version \in Nat
  BY <1>1, PlanTypes DEF PlanOK
<1>3. Sound(turn.initial, good')
  BY SoundGrows DEF TurnOK
<1> QED
  BY <1>2, <1>3 DEF TurnOK, JournalOK, PlanMoves

LEMMA QuitStep ==
  ASSUME PlanInv, NEW e \in P!Execs, NEW again \in BOOLEAN, P!Quit(e, again),
         plan' = plan, runs' = runs, good \subseteq good'
  PROVE  TurnOK' /\ ExecsOK' /\ SavedOK'
<1>1. /\ PlanOK /\ TurnOK /\ ExecsOK /\ SavedOK /\ runs \in Seq(P!RunRows)
      /\ plan \in P!Plans /\ turn \in P!Turns /\ turn.owner \in P!Execs \union {0}
      /\ Len(runs) \in Nat
  BY DEF PlanInv, OthersOK, PlanOK, TurnOK, P!Turns
<1>2. PlanOK' /\ PlanMoves
  BY <1>1, PlanSame DEF PlanMoves
<1>3. TurnOK' /\ turn'.owner = turn.owner
  <2>1. CASE turn' = turn
    BY <2>1, <1>1, <1>2, TurnSame
  <2>2. CASE turn' = [turn EXCEPT !.lease = FALSE]
    <3>1. /\ turn' \in P!Turns /\ turn'.initial = turn.initial /\ turn'.mark = turn.mark
          /\ turn'.journal = turn.journal /\ turn'.owner = turn.owner
      BY <1>1, <2>2 DEF P!Turns
    <3> QED
      BY <3>1, <1>1, <1>2, TurnLike
  <2>3. CASE turn' = P!ClosedTurn(turn.owner)
    BY <2>3, <1>1, <1>2, ClosedTurnOK
  <2> QED
    BY <2>1, <2>2, <2>3 DEF P!Quit
<1>4. ExecsOK' /\ SavedOK'
  <2> DEFINE y == P!Fresh("gone")
  <2>1. ex' = [ex EXCEPT ![e] = y]
    BY DEF P!Quit
  <2>2. ExecOK(y, good', Len(runs), plan)
    BY <1>1, FreshOK DEF PlanOK
  <2>3. y.pc = "gone" /\ y.life.version = 0
    BY FreshTypes, NoPlanIsPlan DEF P!Pcs
  <2> HIDE DEF y
  <2>4. Keeps(ex[e], y, turn.owner = e)
    BY <2>3 DEF Keeps, AfterSave
  <2>5. /\ runs' \in Seq(P!RunRows) /\ Len(runs) <= Len(runs')
        /\ ExecOK(y, good', Len(runs'), plan') /\ plan' \in P!Plans
    BY <1>1, <2>2
  <2> QED
    BY <1>1, <1>2, <1>3, <2>1, <2>4, <2>5, ExecStep
<1> QED
  BY <1>3, <1>4

-----------------------------------------------------------------------------
(* PlanRun: the steps outside of the executors *)

LEMMA InvParts ==
  ASSUME PlanInv
  PROVE  /\ OthersOK /\ PlanOK /\ TurnOK /\ ExecsOK /\ SavedOK
         /\ runs \in Seq(P!RunRows) /\ Len(runs) \in Nat
         /\ plan \in P!Plans /\ plan.version \in Nat
         /\ turn \in P!Turns /\ turn.owner \in P!Execs \union {0}
         /\ turn.initial \in P!Plans /\ turn.initial.version \in Nat
         /\ good \subseteq P!Steps
BY PlanTypes DEF PlanInv, OthersOK, PlanOK, TurnOK, P!Turns

LEMMA FaultCounts ==
  ASSUME PlanInv, P!Fault
  PROVE  faults' \in 0 .. MaxFaults
BY PlanAssumption DEF PlanInv, OthersOK, P!Fault

\* A read that finds the plan out of date.
LEMMA AgedOK ==
  ASSUME PlanInv, good \subseteq good', plan' = P!Aged(plan)
  PROVE  PlanOK' /\ PlanMoves
<1>1. CASE plan' = plan
  BY <1>1, PlanSame, InvParts DEF PlanMoves
<1>2. CASE plan' # plan
  <2>1. /\ plan' = [plan EXCEPT !.status = "expired", !.version = @ + 1]
        /\ plan.status \in {"awaiting_confirmation", "running"}
    BY <1>2 DEF P!Aged
  <2>2. /\ plan'.status = "expired" /\ plan'.version = plan.version + 1
        /\ plan'.run = plan.run /\ plan'.steps = plan.steps /\ plan' \in P!Plans
    <3>1. "expired" \in P!PlanStatus
      BY DEF P!PlanStatus, P!Ended
    <3>2. plan \in P!Plans /\ plan.version + 1 \in Nat
      BY InvParts
    <3> QED
      BY <2>1, <3>1, <3>2 DEF P!Plans
  <2> QED
    BY <2>1, <2>2, InvParts DEF PlanOK, Named, Sound, PlanMoves
<1> QED
  BY <1>1, <1>2

\* The row is cancelled.
LEMMA CancelledOK ==
  ASSUME PlanInv, NEW p, p = P!Aged(plan), p.status = "awaiting_confirmation",
         good \subseteq good',
         plan' = [p EXCEPT !.status = "cancelled", !.version = @ + 1]
  PROVE  PlanOK' /\ PlanMoves /\ p = plan
<1>1. p = plan
  BY InvParts DEF P!Aged, P!Plans
<1>2. /\ plan'.status = "cancelled" /\ plan'.version = plan.version + 1
      /\ plan'.run = plan.run /\ plan'.steps = plan.steps /\ plan' \in P!Plans
  <2>1. "cancelled" \in P!PlanStatus
    BY DEF P!PlanStatus, P!Ended
  <2>2. plan \in P!Plans /\ plan.version + 1 \in Nat
    BY InvParts
  <2> QED
    BY <1>1, <2>1, <2>2 DEF P!Plans
<1> QED
  BY <1>1, <1>2, InvParts DEF PlanOK, Named, Sound, PlanMoves

\* Nothing but the row of the plan moves.
LEMMA PlanStep ==
  ASSUME PlanInv, PlanOK', PlanMoves, turn' = turn, ex' = ex, runs' = runs, good' = good
  PROVE  TurnOK' /\ ExecsOK' /\ SavedOK'
BY InvParts, TurnSame, ExecsSame DEF PlanOK

LEMMA SubmitTurnStep ==
  ASSUME PlanInv, NEW k \in {"ask", "confirm"}, P!Submit(k)
  PROVE  PlanInv'
<1>1. /\ plan' = plan /\ ex' = ex /\ runs' = runs /\ good' = good /\ asked' = asked
      /\ faults' = faults /\ overdue' = overdue /\ turn' = P!NewTurn(k, turn.owner)
  BY DEF P!Submit
<1>2. PlanOK' /\ PlanMoves
  BY <1>1, InvParts, PlanSame DEF PlanMoves
<1>3. TurnOK' /\ turn'.owner = turn.owner
  BY <1>1, <1>2, InvParts, NewTurnOK
<1>4. ExecsOK' /\ SavedOK'
  BY <1>1, <1>2, <1>3, InvParts, ExecsSame
<1> QED
  BY <1>1, <1>2, <1>3, <1>4 DEF PlanInv, OthersOK

LEMMA ClaimTurnStep ==
  ASSUME PlanInv, P!ClaimTurn
  PROVE  PlanInv'
<1> DEFINE e == turn.owner + 1
           y == P!Fresh("begin")
<1>1. /\ plan' = plan /\ runs' = runs /\ good' = good /\ asked' = asked
      /\ faults' = faults /\ overdue' = overdue
      /\ turn' = [turn EXCEPT !.owner = @ + 1, !.lease = TRUE]
      /\ ex' = [ex EXCEPT ![e] = y]
      /\ turn.owner < MaxExec
  BY DEF P!ClaimTurn
<1>2. e \in P!Execs
  BY <1>1, InvParts, PlanAssumption DEF P!Execs
<1>3. PlanOK' /\ PlanMoves
  BY <1>1, InvParts, PlanSame DEF PlanMoves
<1>4. /\ turn' \in P!Turns /\ turn'.initial = turn.initial /\ turn'.mark = turn.mark
      /\ turn'.journal = turn.journal /\ turn'.owner = e
  BY <1>1, <1>2, InvParts DEF P!Turns
<1>5. TurnOK'
  BY <1>1, <1>3, <1>4, InvParts, TurnLike
<1>6. ExecOK(y, good, Len(runs), plan) /\ y.pc = "begin"
  BY InvParts, FreshOK, FreshTypes DEF PlanOK, P!Pcs
<1> HIDE DEF e, y
<1>7. ExecsOK'
  <2>1. y \in P!Executors
    BY <1>6 DEF ExecOK, ShapeOK
  <2> QED
    BY <1>1, <1>2, <1>6, <2>1, InvParts DEF ExecsOK
<1>8. SavedOK'
  <2>1. ASSUME NEW l \in P!Execs, turn'.owner = l, ex'[l].pc \in AfterSave PROVE FALSE
    <3>1. l = e /\ ex'[l] = y
      BY <2>1, <1>1, <1>2, <1>4, InvParts DEF ExecsOK
    <3> QED
      BY <2>1, <3>1, <1>6 DEF AfterSave
  <2> QED
    BY <2>1 DEF SavedOK
<1> QED
  BY <1>1, <1>3, <1>5, <1>7, <1>8, InvParts DEF PlanInv, OthersOK

LEMMA TurnLeaseStep ==
  ASSUME PlanInv, P!TurnLeaseExpires
  PROVE  PlanInv'
<1>1. /\ plan' = plan /\ ex' = ex /\ runs' = runs /\ good' = good /\ asked' = asked
      /\ overdue' = overdue /\ turn' = [turn EXCEPT !.lease = FALSE]
      /\ faults' \in 0 .. MaxFaults
  BY FaultCounts DEF P!TurnLeaseExpires
<1>2. PlanOK' /\ PlanMoves
  BY <1>1, InvParts, PlanSame DEF PlanMoves
<1>3. /\ turn' \in P!Turns /\ turn'.initial = turn.initial /\ turn'.mark = turn.mark
      /\ turn'.journal = turn.journal /\ turn'.owner = turn.owner
  BY <1>1, InvParts DEF P!Turns
<1>4. TurnOK'
  BY <1>1, <1>2, <1>3, InvParts, TurnLike
<1>5. ExecsOK' /\ SavedOK'
  BY <1>1, <1>2, <1>3, InvParts, ExecsSame
<1> QED
  BY <1>1, <1>2, <1>4, <1>5, InvParts DEF PlanInv, OthersOK

LEMMA ReadPlanStep ==
  ASSUME PlanInv, P!ReadPlan
  PROVE  PlanInv'
<1>1. /\ plan' = P!Aged(plan) /\ ex' = ex /\ runs' = runs /\ good' = good
      /\ asked' = asked /\ overdue' = overdue /\ turn' = turn /\ faults' = faults
  BY DEF P!ReadPlan
<1>2. PlanOK' /\ PlanMoves
  BY <1>1, AgedOK
<1> QED
  BY <1>1, <1>2, PlanStep, InvParts DEF PlanInv, OthersOK

LEMMA CancelPlanStep ==
  ASSUME PlanInv, P!CancelPlan
  PROVE  PlanInv'
<1>1. /\ ex' = ex /\ runs' = runs /\ good' = good
      /\ asked' = asked /\ overdue' = overdue /\ turn' = turn
      /\ faults' \in 0 .. MaxFaults
      /\ plan' = [plan EXCEPT !.status = "cancelled", !.version = @ + 1]
      /\ P!Aged(plan).status = "awaiting_confirmation"
  BY FaultCounts DEF P!CancelPlan
<1>2. P!Aged(plan) = plan
  BY <1>1, InvParts DEF P!Aged, P!Plans
<1>3. PlanOK' /\ PlanMoves
  BY <1>1, <1>2, CancelledOK
<1> QED
  BY <1>1, <1>3, PlanStep, InvParts DEF PlanInv, OthersOK

LEMMA ExpireStep ==
  ASSUME PlanInv, P!Expire
  PROVE  PlanInv'
<1>1. /\ ex' = ex /\ runs' = runs /\ good' = good /\ plan' = plan
      /\ asked' = asked /\ overdue' = TRUE /\ turn' = turn
      /\ faults' \in 0 .. MaxFaults
  BY FaultCounts DEF P!Expire
<1>3. PlanOK' /\ PlanMoves
  BY <1>1, InvParts, PlanSame DEF PlanMoves
<1> QED
  BY <1>1, <1>3, PlanStep, InvParts DEF PlanInv, OthersOK

\* One row of plan_runs changes.
LEMMA RunsKept ==
  ASSUME runs \in Seq(P!RunRows), NEW f \in 1 .. Len(runs), NEW r \in P!RunRows,
         runs' = [runs EXCEPT ![f] = r]
  PROVE  /\ runs' \in Seq(P!RunRows) /\ Len(runs') = Len(runs)
         /\ Len(runs) <= Len(runs')
<1>1. Len(runs) \in Nat
  OBVIOUS
<1>2. runs' \in Seq(P!RunRows) /\ Len(runs') = Len(runs)
  OBVIOUS
<1> QED
  BY <1>1, <1>2

LEMMA RunsStep ==
  ASSUME PlanInv, runs' \in Seq(P!RunRows), Len(runs) <= Len(runs'),
         plan' = plan, turn' = turn, ex' = ex, good' = good
  PROVE  PlanOK' /\ TurnOK' /\ ExecsOK' /\ SavedOK'
<1>1. PlanOK' /\ PlanMoves /\ plan' \in P!Plans
  BY PlanSame, InvParts DEF PlanMoves
<1> QED
  BY <1>1, InvParts, TurnSame, ExecsSame

LEMMA RequestCancelStep ==
  ASSUME PlanInv, NEW f \in DOMAIN runs, P!RequestCancel(f)
  PROVE  PlanInv'
<1> DEFINE r == [runs[f] EXCEPT !.cancel = TRUE]
<1>1. /\ plan' = plan /\ turn' = turn /\ ex' = ex /\ good' = good /\ asked' = asked
      /\ overdue' = overdue /\ faults' \in 0 .. MaxFaults
      /\ runs' = [runs EXCEPT ![f] = r]
  BY FaultCounts DEF P!RequestCancel
<1>2. runs \in Seq(P!RunRows) /\ f \in 1 .. Len(runs) /\ runs[f] \in P!RunRows
  BY InvParts
<1>3. r \in P!RunRows
  BY <1>2 DEF P!RunRows
<1> HIDE DEF r
<1>4. runs' \in Seq(P!RunRows) /\ Len(runs) <= Len(runs')
  BY <1>1, <1>2, <1>3, RunsKept
<1> QED
  BY <1>1, <1>4, RunsStep, InvParts DEF PlanInv, OthersOK

LEMMA RunLeaseStep ==
  ASSUME PlanInv, NEW f \in DOMAIN runs, P!RunLeaseExpires(f)
  PROVE  PlanInv'
<1> DEFINE r == [runs[f] EXCEPT !.live = FALSE]
<1>1. /\ plan' = plan /\ turn' = turn /\ ex' = ex /\ good' = good /\ asked' = asked
      /\ overdue' = overdue /\ faults' \in 0 .. MaxFaults
      /\ runs' = [runs EXCEPT ![f] = r]
  BY FaultCounts DEF P!RunLeaseExpires
<1>2. runs \in Seq(P!RunRows) /\ f \in 1 .. Len(runs) /\ runs[f] \in P!RunRows
  BY InvParts
<1>3. r \in P!RunRows
  BY <1>2 DEF P!RunRows
<1> HIDE DEF r
<1>4. runs' \in Seq(P!RunRows) /\ Len(runs) <= Len(runs')
  BY <1>1, <1>2, <1>3, RunsKept
<1> QED
  BY <1>1, <1>4, RunsStep, InvParts DEF PlanInv, OthersOK

-----------------------------------------------------------------------------
(* PlanRun: the steps of an executor *)

LEMMA ExecParts ==
  ASSUME PlanInv, NEW e \in P!Execs
  PROVE  /\ ex[e] \in P!Executors
         /\ ExecOK(ex[e], good, Len(runs), plan)
         /\ ShapeOK(ex[e]) /\ HandleOK(ex[e], Len(runs))
         /\ TruthOK(ex[e], good) /\ Dated(ex[e].life, plan)
         /\ Named(ex[e].life) /\ StageOK(ex[e]) /\ TriesOK(ex[e])
         /\ ex[e].handle <= Len(runs)
BY InvParts DEF ExecsOK, ExecOK, ShapeOK, HandleOK

\* Only the executor moves.
LEMMA ExecOnly ==
  ASSUME PlanInv, NEW e \in P!Execs, NEW y, ex' = [ex EXCEPT ![e] = y],
         ExecOK(y, good, Len(runs), plan), Keeps(ex[e], y, turn.owner = e),
         faults' \in 0 .. MaxFaults,
         UNCHANGED <<plan, overdue, runs, turn, good, asked>>
  PROVE  PlanInv'
<1>1. PlanOK' /\ PlanMoves /\ plan' \in P!Plans
  BY PlanSame, InvParts DEF PlanMoves
<1>2. TurnOK'
  BY <1>1, InvParts, TurnSame
<1>3. /\ ExecOK(y, good', Len(runs'), plan') /\ runs' \in Seq(P!RunRows)
      /\ Len(runs) <= Len(runs') /\ turn'.owner = turn.owner /\ good \subseteq good'
  BY InvParts
<1>4. ExecsOK' /\ SavedOK'
  BY <1>1, <1>3, InvParts, ExecStep
<1> QED
  BY <1>1, <1>2, <1>4, InvParts DEF PlanInv, OthersOK

LEMMA QuitInv ==
  ASSUME PlanInv, NEW e \in P!Execs, NEW again \in BOOLEAN, P!Quit(e, again),
         faults' \in 0 .. MaxFaults, UNCHANGED <<plan, overdue, runs, good, asked>>
  PROVE  PlanInv'
<1>1. TurnOK' /\ ExecsOK' /\ SavedOK'
  BY QuitStep
<1>2. PlanOK'
  BY PlanSame, InvParts
<1> QED
  BY <1>1, <1>2 DEF PlanInv, OthersOK

LEMMA DieStep ==
  ASSUME PlanInv, NEW e \in P!Execs, P!Die(e)
  PROVE  PlanInv'
<1> DEFINE y == P!Fresh("gone")
<1>1. /\ ex' = [ex EXCEPT ![e] = y] /\ faults' \in 0 .. MaxFaults
      /\ UNCHANGED <<plan, overdue, runs, turn, good, asked>>
  BY FaultCounts DEF P!Die
<1>2. ExecOK(y, good, Len(runs), plan)
  BY InvParts, FreshOK DEF PlanOK
<1>3. y.pc = "gone" /\ y.life.version = 0
  BY FreshTypes, NoPlanIsPlan DEF P!Pcs
<1> HIDE DEF y
<1>4. Keeps(ex[e], y, turn.owner = e)
  BY <1>3 DEF Keeps, AfterSave
<1> QED
  BY <1>1, <1>2, <1>4, ExecOnly

LEMMA FailStep ==
  ASSUME PlanInv, NEW e \in P!Execs, NEW again \in BOOLEAN, P!Fail(e, again)
  PROVE  PlanInv'
<1>1. /\ P!Quit(e, again) /\ faults' \in 0 .. MaxFaults
      /\ UNCHANGED <<plan, overdue, runs, good, asked>>
  BY FaultCounts DEF P!Fail
<1> QED
  BY <1>1, QuitInv

LEMMA EndTurnStep ==
  ASSUME PlanInv, NEW e \in P!Execs, P!EndTurn(e)
  PROVE  PlanInv'
<1>1. /\ P!Quit(e, FALSE) /\ faults' \in 0 .. MaxFaults
      /\ UNCHANGED <<plan, overdue, runs, good, asked>>
  BY InvParts DEF P!EndTurn, OthersOK
<1> QED
  BY <1>1, QuitInv

-----------------------------------------------------------------------------
(* PlanRun: the steps of a checkpoint *)

LEMMA MaxIn ==
  ASSUME NEW n \in Nat, NEW S \in SUBSET (1 .. n), S # {}
  PROVE  P!Max(S) \in S
<1> DEFINE T == {n - x : x \in S}
<1>1. T \in SUBSET Nat /\ T # {}
  <2>1. \A x \in S : n - x \in Nat
    OBVIOUS
  <2>2. PICK z \in S : TRUE
    OBVIOUS
  <2>3. n - z \in T
    BY <2>2
  <2> QED
    BY <2>1, <2>3
<1>2. PICK m \in T : \A y \in T : <<y, m>> \notin OpToRel(<, Nat)
  <2> HIDE DEF T
  <2> QED
    BY <1>1, NatLessThanWellFounded, WFMin, Zenon
<1>3. PICK x \in S : m = n - x
  BY <1>2
<1>4. ASSUME NEW y \in S PROVE x >= y
  <2> DEFINE b == n - y
             c == <<b, m>>
  <2>1. b \in T /\ b \in Nat /\ m \in Nat /\ y \in Nat /\ x \in Nat
    BY <1>1, <1>3
  <2>2. c \notin OpToRel(<, Nat)
    BY <1>2, <2>1
  <2> HIDE DEF T, b
  <2>3. c[1] = b /\ c[2] = m /\ c \in Nat \X Nat
    BY <2>1
  <2>4. c \notin {ss \in Nat \X Nat : ss[1] < ss[2]}
    BY <2>2 DEF OpToRel
  <2>5. ~ (b < m)
    BY <2>3, <2>4
  <2> QED
    BY <1>3, <2>1, <2>5 DEF b
<1> QED
  BY <1>4 DEF P!Max

LEMMA RunOfRow ==
  ASSUME PlanInv, NEW e \in P!Execs, NEW f, f = P!RunOf(e), f # 0
  PROVE  f \in 1 .. Len(runs)
<1>1. ex[e].handle \in Nat /\ ex[e].handle <= Len(runs) /\ Len(runs) \in Nat
  BY ExecParts, ExecTypes, InvParts
<1>2. CASE ex[e].handle # 0
  BY <1>1, <1>2 DEF P!RunOf
<1>3. CASE ex[e].handle = 0
  <2> DEFINE F == {g \in DOMAIN runs : runs[g].id = ex[e].life.run}
  <2>1. f = IF F = {} THEN 0 ELSE P!Max(F)
    BY <1>3 DEF P!RunOf
  <2>2. F \in SUBSET (1 .. Len(runs))
    BY InvParts
  <2> HIDE DEF F
  <2> QED
    BY <1>1, <2>1, <2>2, MaxIn
<1> QED
  BY <1>2, <1>3

\* The executor goes on to the next transaction of its checkpoint.
LEMMA PlaceStep ==
  ASSUME PlanInv, NEW e \in P!Execs, NEW a \in P!Pcs, NEW y,
         y = [ex[e] EXCEPT !.pc = a], ex' = [ex EXCEPT ![e] = y],
         StageOK(y), HandleOK(y, Len(runs)),
         a \in AfterSave => ex[e].pc \in AfterSave,
         UNCHANGED <<faults, plan, overdue, runs, turn, good, asked>>
  PROVE  PlanInv'
<1>1. ExecOK(y, good, Len(runs), plan)
  BY ExecParts, PlaceOK
<1>2. y.pc = a /\ y.life = ex[e].life
  BY ExecParts, PlaceTypes
<1>3. Keeps(ex[e], y, turn.owner = e)
  BY <1>2 DEF Keeps
<1>4. faults' \in 0 .. MaxFaults
  BY InvParts DEF OthersOK
<1> QED
  BY <1>1, <1>3, <1>4, ExecOnly

\* The executor takes a row of plan_runs.
Taking(x, a, h) == [x EXCEPT !.pc = a, !.handle = h]

LEMMA HandleTypes ==
  ASSUME NEW x \in P!Executors, NEW a \in P!Pcs, NEW h \in Nat, NEW y,
         y = Taking(x, a, h)
  PROVE  /\ y \in P!Executors
         /\ y.pc = a /\ y.via = x.via /\ y.life = x.life /\ y.next = x.next
         /\ y.batch = x.batch /\ y.todo = x.todo /\ y.handle = h
         /\ y.prev = x.prev /\ y.res = x.res /\ y.open = x.open /\ y.tries = x.tries
BY DEF P!Executors, Taking

LEMMA CheckStep ==
  ASSUME PlanInv, NEW e \in P!Execs, P!Check(e)
  PROVE  PlanInv'
<1> DEFINE x == ex[e]
           f == P!RunOf(e)
<1>1. /\ x.pc = "check" /\ UNCHANGED <<faults, plan, overdue, runs, good, asked>>
      /\ faults' \in 0 .. MaxFaults
  BY InvParts DEF P!Check, OthersOK
<1>2. /\ x \in P!Executors /\ StageOK(x) /\ HandleOK(x, Len(runs)) /\ TriesOK(x)
      /\ TruthOK(x, good) /\ Dated(x.life, plan) /\ Named(x.life) /\ ShapeOK(x)
  BY ExecParts
<1>3. x.via \in {"checkpoint", "record"} /\ x.life \in P!Plans /\ x.handle \in Nat
  BY <1>2, ExecTypes
<1>4. \/ P!Quit(e, FALSE) \/ P!Quit(e, TRUE)
      \/ /\ x.via = "record" /\ turn' = turn
         /\ ex' = [ex EXCEPT ![e] = [x EXCEPT !.pc = "save"]]
      \/ /\ x.via = "checkpoint" /\ turn' = turn
         /\ ex' = [ex EXCEPT ![e] = [x EXCEPT !.pc = "claim"]]
      \/ /\ x.via = "checkpoint" /\ turn' = turn /\ f # 0
         /\ ex' = [ex EXCEPT ![e] = [x EXCEPT !.pc = "save", !.handle = f]]
      \/ /\ x.via = "checkpoint" /\ turn' = turn
         /\ ex' = [ex EXCEPT ![e] = [x EXCEPT !.pc = "claim", !.life.run = e]]
  BY <1>3, InvParts DEF P!Check, ExecsOK
<1>5. CASE P!Quit(e, FALSE) \/ P!Quit(e, TRUE)
  BY <1>1, <1>5, QuitInv
<1>6. ASSUME NEW a \in {"save", "claim"},
             a = "claim" => x.via = "checkpoint",
             a = "save" => x.via = "record", turn' = turn,
             ex' = [ex EXCEPT ![e] = [x EXCEPT !.pc = a]]
      PROVE  PlanInv'
  <2> DEFINE y == [x EXCEPT !.pc = a]
  <2>1. a \in P!Pcs
    BY <1>6 DEF P!Pcs
  <2>2. /\ y \in P!Executors
        /\ y.pc = a /\ y.via = x.via /\ y.life = x.life /\ y.next = x.next
        /\ y.batch = x.batch /\ y.todo = x.todo /\ y.handle = x.handle
    BY <1>2, <2>1, PlaceTypes
  <2>3. StageOK(y)
    BY <1>1, <1>2, <1>6, <2>2 DEF StageOK, AtWork, Calling, Checkpoint, Working
  <2>4. HandleOK(y, Len(runs))
    BY <1>2, <1>6, <2>2 DEF HandleOK
  <2>5. a \notin AfterSave
    BY <1>6 DEF AfterSave
  <2> QED
    BY <1>1, <1>6, <2>1, <2>3, <2>4, <2>5, PlaceStep
<1>7. ASSUME x.via = "checkpoint", turn' = turn, f # 0,
             ex' = [ex EXCEPT ![e] = [x EXCEPT !.pc = "save", !.handle = f]]
      PROVE  PlanInv'
  <2> DEFINE y == [x EXCEPT !.pc = "save", !.handle = f]
  <2>1. f \in 1 .. Len(runs) /\ Len(runs) \in Nat
    BY <1>7, RunOfRow, InvParts
  <2> HIDE DEF f
  <2>2. /\ y \in P!Executors
        /\ y.pc = "save" /\ y.via = x.via /\ y.life = x.life /\ y.next = x.next
        /\ y.batch = x.batch /\ y.todo = x.todo /\ y.handle = f
        /\ y.prev = x.prev /\ y.res = x.res /\ y.open = x.open /\ y.tries = x.tries
    <3>1. "save" \in P!Pcs /\ f \in Nat
      BY <2>1 DEF P!Pcs
    <3>2. y = Taking(x, "save", f)
      BY DEF Taking
    <3> HIDE DEF x, y
    <3> QED
      BY <1>2, <3>1, <3>2, HandleTypes
  <2> HIDE DEF y
  <2>3. StageOK(y)
    BY <1>1, <1>2, <1>7, <2>2 DEF StageOK, AtWork, Calling, Checkpoint, Working
  <2>4. HandleOK(y, Len(runs))
    BY <2>1, <2>2 DEF HandleOK
  <2>5. ExecOK(y, good, Len(runs), plan)
    BY <1>2, <2>2, <2>3, <2>4 DEF ExecOK, ShapeOK, TruthOK, TriesOK
  <2>6. Keeps(x, y, turn.owner = e)
    BY <2>2 DEF Keeps, AfterSave
  <2> QED
    BY <1>1, <1>7, <2>5, <2>6, ExecOnly DEF y
<1>8. ASSUME x.via = "checkpoint", turn' = turn,
             ex' = [ex EXCEPT ![e] = [x EXCEPT !.pc = "claim", !.life.run = e]]
      PROVE  PlanInv'
  <2> DEFINE y == [x EXCEPT !.pc = "claim", !.life.run = e]
             q == [x.life EXCEPT !.run = e]
  <2>1. /\ q \in P!Plans /\ q.status = x.life.status /\ q.version = x.life.version
        /\ q.steps = x.life.steps /\ q.run = e
    BY <1>3 DEF P!Plans
  <2>2. /\ y.pc = "claim" /\ y.via = x.via /\ y.life = q /\ y.next = x.next
        /\ y.batch = x.batch /\ y.todo = x.todo /\ y.handle = x.handle
        /\ y.prev = x.prev /\ y.res = x.res /\ y.open = x.open /\ y.tries = x.tries
    BY <1>2, <1>3 DEF P!Executors
  <2>3. y \in P!Executors
    <3>1. y = [[x EXCEPT !.pc = "claim"] EXCEPT !.life = q]
      BY <1>2 DEF P!Executors
    <3> HIDE DEF q
    <3> QED
      BY <1>2, <2>1, <3>1 DEF P!Executors, P!Pcs
  <2> HIDE DEF y, q
  <2>4. StageOK(y)
    BY <1>1, <1>2, <1>8, <2>1, <2>2 DEF StageOK, AtWork, Calling, Checkpoint, Working
  <2>5. HandleOK(y, Len(runs)) /\ Named(y.life) /\ Dated(y.life, plan)
    BY <1>2, <2>1, <2>2 DEF HandleOK, Named, Dated
  <2>6. ExecOK(y, good, Len(runs), plan)
    BY <1>2, <2>1, <2>2, <2>3, <2>4, <2>5 DEF ExecOK, ShapeOK, TruthOK, TriesOK, Sound
  <2>7. Keeps(x, y, turn.owner = e)
    BY <2>1, <2>2 DEF Keeps, AfterSave
  <2> QED
    BY <1>1, <1>8, <2>6, <2>7, ExecOnly DEF y
<1> QED
  BY <1>4, <1>5, <1>6, <1>7, <1>8

\* The executor and the rows of plan_runs move.
LEMMA ExecRuns ==
  ASSUME PlanInv, NEW e \in P!Execs, NEW y, ex' = [ex EXCEPT ![e] = y],
         runs' \in Seq(P!RunRows), Len(runs) <= Len(runs'),
         ExecOK(y, good, Len(runs'), plan), Keeps(ex[e], y, turn.owner = e),
         UNCHANGED <<faults, plan, overdue, turn, good, asked>>
  PROVE  PlanInv'
<1>1. PlanOK' /\ PlanMoves /\ plan' \in P!Plans
  BY PlanSame, InvParts DEF PlanMoves
<1>2. TurnOK'
  BY <1>1, InvParts, TurnSame
<1>3. /\ ExecOK(y, good', Len(runs'), plan')
      /\ turn'.owner = turn.owner /\ good \subseteq good'
  OBVIOUS
<1>4. ExecsOK' /\ SavedOK'
  BY <1>1, <1>3, InvParts, ExecStep
<1> QED
  BY <1>1, <1>2, <1>4, InvParts DEF PlanInv, OthersOK

LEMMA ClaimRunStep ==
  ASSUME PlanInv, NEW e \in P!Execs, P!ClaimRun(e)
  PROVE  PlanInv'
<1> DEFINE x == ex[e]
           r == [id |-> x.life.run, owner |-> e, live |-> TRUE,
                 cancel |-> FALSE, status |-> "running"]
           h == Len(runs) + 1
           y == Taking(x, "save", h)
<1>1. /\ x.pc = "claim" /\ UNCHANGED <<faults, plan, overdue, good, asked>>
      /\ faults' \in 0 .. MaxFaults
      /\ \/ P!Quit(e, FALSE) /\ runs' = runs
         \/ /\ runs' = Append(P!FenceExpired, r) /\ turn' = turn
            /\ ex' = [ex EXCEPT ![e] = y]
  BY InvParts DEF P!ClaimRun, OthersOK, ExecsOK, Taking
<1>2. CASE P!Quit(e, FALSE) /\ runs' = runs
  BY <1>1, <1>2, QuitInv
<1>3. CASE /\ runs' = Append(P!FenceExpired, r) /\ turn' = turn
           /\ ex' = [ex EXCEPT ![e] = y]
  <2>1. /\ x \in P!Executors /\ StageOK(x) /\ TriesOK(x) /\ Named(x.life)
        /\ TruthOK(x, good) /\ Dated(x.life, plan) /\ ShapeOK(x)
        /\ Len(runs) \in Nat /\ runs \in Seq(P!RunRows)
    BY ExecParts, InvParts
  <2>2. x.via = "checkpoint" /\ x.life.run \in P!Execs
    BY <1>1, <2>1 DEF StageOK, Checkpoint, Working, Named, Reported
  <2>3. P!FenceExpired \in Seq(P!RunRows) /\ Len(P!FenceExpired) = Len(runs)
    <3> DEFINE fe == [f \in 1 .. Len(runs) |->
                        IF runs[f].status = "running"
                          THEN [runs[f] EXCEPT !.status = "fenced"] ELSE runs[f]]
    <3>1. P!FenceExpired = fe
      BY <2>1 DEF P!FenceExpired
    <3>2. ASSUME NEW f \in 1 .. Len(runs) PROVE fe[f] \in P!RunRows
      <4>1. runs[f] \in P!RunRows
        BY <2>1
      <4>2. [runs[f] EXCEPT !.status = "fenced"] \in P!RunRows
        BY <4>1 DEF P!RunRows
      <4> QED
        BY <4>1, <4>2
    <3>3. fe \in [1 .. Len(runs) -> P!RunRows]
      BY <3>2
    <3> HIDE DEF fe
    <3>4. fe \in Seq(P!RunRows)
      BY <2>1, <3>3
    <3>5. Len(fe) = Len(runs)
      BY <2>1, <3>3, <3>4
    <3> QED
      BY <3>1, <3>4, <3>5
  <2>4. r \in P!RunRows
    BY <2>2 DEF P!RunRows
  <2> HIDE DEF r
  <2>5. runs' \in Seq(P!RunRows) /\ Len(runs') = h /\ Len(runs) <= Len(runs')
    BY <1>3, <2>1, <2>3, <2>4
  <2>6. h \in Nat /\ h > 0 /\ "save" \in P!Pcs
    BY <2>1 DEF P!Pcs
  <2> HIDE DEF x, h
  <2>7. /\ y \in P!Executors
        /\ y.pc = "save" /\ y.via = x.via /\ y.life = x.life /\ y.next = x.next
        /\ y.batch = x.batch /\ y.todo = x.todo /\ y.handle = h
        /\ y.prev = x.prev /\ y.res = x.res /\ y.open = x.open /\ y.tries = x.tries
    BY <2>1, <2>6, HandleTypes
  <2> HIDE DEF y
  <2>8. StageOK(y)
    BY <1>1, <2>1, <2>2, <2>7 DEF StageOK, AtWork, Calling, Checkpoint, Working
  <2>9. HandleOK(y, Len(runs'))
    BY <2>5, <2>6, <2>7 DEF HandleOK
  <2>10. ExecOK(y, good, Len(runs'), plan)
    BY <2>1, <2>7, <2>8, <2>9 DEF ExecOK, ShapeOK, TruthOK, TriesOK
  <2>11. Keeps(x, y, turn.owner = e)
    BY <2>7 DEF Keeps, AfterSave
  <2> QED
    BY <1>1, <1>3, <2>5, <2>10, <2>11, ExecRuns DEF x
<1> QED
  BY <1>1, <1>2, <1>3

LEMMA SavePlanStep ==
  ASSUME PlanInv, NEW e \in P!Execs, P!Save(e)
  PROVE  PlanInv'
<1> DEFINE x == ex[e]
           p == [x.life EXCEPT !.version = plan.version + 1]
           a == IF x.via = "record" THEN "mark" ELSE "fence"
           y == [x EXCEPT !.life = p, !.pc = a]
<1>1. /\ x.pc = "save" /\ UNCHANGED <<faults, overdue, runs, good, asked>>
      /\ faults' \in 0 .. MaxFaults
      /\ \/ P!Quit(e, FALSE) /\ plan' = plan
         \/ /\ plan.version = x.life.version /\ turn' = turn /\ plan' = p
            /\ ex' = [ex EXCEPT ![e] = y]
  BY InvParts DEF P!Save, P!Stale, OthersOK, ExecsOK
<1>2. CASE P!Quit(e, FALSE) /\ plan' = plan
  BY <1>1, <1>2, QuitInv
<1>3. CASE /\ plan.version = x.life.version /\ turn' = turn /\ plan' = p
           /\ ex' = [ex EXCEPT ![e] = y]
  <2>1. /\ x \in P!Executors /\ StageOK(x) /\ TriesOK(x) /\ Named(x.life)
        /\ TruthOK(x, good) /\ HandleOK(x, Len(runs))
        /\ plan.version \in Nat /\ x.life \in P!Plans /\ x.via \in {"checkpoint", "record"}
        /\ Len(runs) \in Nat
    BY ExecParts, ExecTypes, InvParts
  <2>2. /\ p \in P!Plans /\ p.status = x.life.status /\ p.run = x.life.run
        /\ p.steps = x.life.steps /\ p.version = plan.version + 1
    BY <2>1 DEF P!Plans
  <2>3. a \in P!Pcs /\ a \in {"mark", "fence"} /\ (a = "fence" => x.via = "checkpoint")
    BY <2>1 DEF P!Pcs
  <2> HIDE DEF p, a
  <2>4. /\ y \in P!Executors /\ y.pc = a /\ y.life = p
        /\ y.via = x.via /\ y.next = x.next /\ y.batch = x.batch /\ y.todo = x.todo
        /\ y.handle = x.handle /\ y.prev = x.prev /\ y.res = x.res
        /\ y.open = x.open /\ y.tries = x.tries
    <3> HIDE DEF x
    <3> QED
      BY <2>1, <2>2, <2>3 DEF P!Executors
  <2> HIDE DEF y
  <2>5. p.status # "none" /\ Named(p) /\ Sound(p, good)
    BY <1>1, <2>1, <2>2 DEF StageOK, Working, Named, Sound, TruthOK
  <2>6. PlanOK'
    BY <1>1, <1>3, <2>1, <2>2, <2>5 DEF PlanOK
  <2>7. TurnOK'
    BY <1>1, <1>3, <2>1, <2>2, <2>5, InvParts DEF TurnOK, JournalOK
  <2>8. StageOK(y)
    BY <1>1, <2>1, <2>2, <2>3, <2>4 DEF StageOK, AtWork, Calling, Checkpoint, Working
  <2>9. HandleOK(y, Len(runs)) /\ TruthOK(y, good) /\ TriesOK(y) /\ Dated(y.life, p)
    BY <1>1, <2>1, <2>2, <2>3, <2>4, <2>5 DEF HandleOK, TruthOK, TriesOK, Dated
  <2>10. ExecOK(y, good, Len(runs), p)
    BY <2>4, <2>5, <2>8, <2>9 DEF ExecOK, ShapeOK
  <2>11. /\ ex \in [P!Execs -> P!Executors] /\ ex' \in [P!Execs -> P!Executors]
         /\ ex'[e] = y /\ \A d \in P!Execs \ {e} : ex'[d] = ex[d]
    BY <1>3, <2>4, InvParts DEF ExecsOK
  <2>12. ExecsOK'
    <3>1. ASSUME NEW d \in P!Execs PROVE ExecOK(ex'[d], good', Len(runs'), plan')
      <4>1. CASE d = e
        BY <1>1, <1>3, <2>10, <2>11, <4>1
      <4>2. CASE d # e
        <5>1. ExecOK(ex[d], good, Len(runs), plan) /\ plan.version < p.version
          BY <2>1, <2>2, ExecParts
        <5>2. ExecOK(ex[d], good, Len(runs), p)
          BY <2>1, <2>2, <5>1, InvParts, ExecGrows
        <5> QED
          BY <1>1, <1>3, <2>11, <4>2, <5>2
      <4> QED
        BY <4>1, <4>2
    <3> QED
      BY <2>11, <3>1 DEF ExecsOK
  <2>13. ASSUME NEW d \in P!Execs
         PROVE  ex[d].life.version \in Nat /\ ex[d].life.version <= plan.version
    BY ExecParts, ExecTypes, PlanTypes DEF Dated
  <2>14. ASSUME NEW l \in P!Execs, turn'.owner = l, ex'[l].pc \in AfterSave
         PROVE  /\ plan'.steps = ex'[l].life.steps
                /\ ex'[l].life.version <= plan'.version
                /\ 0 < ex'[l].life.version
                /\ \A d \in P!Execs \ {l} : ex'[d].life.version < ex'[l].life.version
    <3>1. l = e
      <4>1. CASE l # e
        <5>1. Leads(l)
          BY <1>3, <2>11, <2>14, <4>1, InvParts DEF SavedOK
        <5> QED
          BY <1>3, <2>1, <4>1, <5>1, <2>13 DEF Leads
      <4> QED
        BY <4>1
    <3> QED
      BY <1>3, <2>1, <2>2, <2>4, <2>11, <2>13, <3>1
  <2>15. SavedOK'
    BY <2>14 DEF SavedOK, Leads
  <2> QED
    BY <1>1, <2>6, <2>7, <2>12, <2>15, InvParts DEF PlanInv, OthersOK
<1> QED
  BY <1>1, <1>2, <1>3

LEMMA FenceStep ==
  ASSUME PlanInv, NEW e \in P!Execs, P!Fence(e)
  PROVE  PlanInv'
<1> DEFINE x == ex[e]
           h == x.handle
           r == [runs[h] EXCEPT !.live = TRUE]
           a == IF x.life.status = "running" THEN "mark" ELSE "finish"
           y == [x EXCEPT !.pc = a]
<1>1. /\ x.pc = "fence" /\ UNCHANGED <<faults, plan, overdue, good, asked>>
      /\ faults' \in 0 .. MaxFaults
      /\ \/ P!Quit(e, FALSE) /\ runs' = runs
         \/ /\ h = Len(runs) /\ runs' = [runs EXCEPT ![h] = r] /\ turn' = turn
            /\ ex' = [ex EXCEPT ![e] = y]
  BY InvParts DEF P!Fence, P!Fenced, OthersOK, ExecsOK
<1>2. CASE P!Quit(e, FALSE) /\ runs' = runs
  BY <1>1, <1>2, QuitInv
<1>3. CASE /\ h = Len(runs) /\ runs' = [runs EXCEPT ![h] = r] /\ turn' = turn
           /\ ex' = [ex EXCEPT ![e] = y]
  <2>1. /\ x \in P!Executors /\ StageOK(x) /\ HandleOK(x, Len(runs))
        /\ ExecOK(x, good, Len(runs), plan)
        /\ Len(runs) \in Nat /\ runs \in Seq(P!RunRows)
    BY ExecParts, InvParts
  <2>2. x.via = "checkpoint" /\ h \in 1 .. Len(runs) /\ runs[h] \in P!RunRows
    BY <1>1, <1>3, <2>1 DEF StageOK, HandleOK
  <2>3. r \in P!RunRows
    BY <2>2 DEF P!RunRows
  <2> HIDE DEF r
  <2>4. runs' \in Seq(P!RunRows) /\ Len(runs') = Len(runs) /\ Len(runs) <= Len(runs')
    BY <1>3, <2>1, <2>2, <2>3, RunsKept
  <2>5. a \in P!Pcs /\ a \in {"mark", "finish"}
        /\ (a = "finish" => x.life.status # "running")
    BY DEF P!Pcs
  <2> HIDE DEF a
  <2>6. /\ y.pc = a /\ y.via = x.via /\ y.life = x.life /\ y.next = x.next
        /\ y.batch = x.batch /\ y.todo = x.todo /\ y.handle = x.handle
    BY <2>1, <2>5, PlaceTypes
  <2>7. StageOK(y)
    BY <1>1, <2>1, <2>2, <2>5, <2>6 DEF StageOK, AtWork, Calling, Checkpoint, Working
  <2>8. HandleOK(y, Len(runs))
    BY <1>1, <2>1, <2>2, <2>6 DEF HandleOK
  <2>9. ExecOK(y, good, Len(runs), plan)
    BY <2>1, <2>5, <2>7, <2>8, PlaceOK
  <2>10. Keeps(x, y, turn.owner = e)
    BY <1>1, <2>6 DEF Keeps, AfterSave
  <2> HIDE DEF y
  <2> QED
    BY <1>1, <1>3, <2>4, <2>9, <2>10, ExecRuns
<1> QED
  BY <1>1, <1>2, <1>3

LEMMA FinishStep ==
  ASSUME PlanInv, NEW e \in P!Execs, P!Finish(e)
  PROVE  PlanInv'
<1> DEFINE x == ex[e]
           h == x.handle
           r == [runs[h] EXCEPT !.status = x.life.status, !.live = FALSE]
           y == [x EXCEPT !.pc = "mark"]
<1>1. /\ x.pc = "finish" /\ UNCHANGED <<faults, plan, overdue, good, asked>>
      /\ faults' \in 0 .. MaxFaults
      /\ \/ P!Quit(e, FALSE) /\ runs' = runs
         \/ /\ h = Len(runs) /\ runs' = [runs EXCEPT ![h].status = x.life.status,
                                                     ![h].live = FALSE]
            /\ turn' = turn /\ ex' = [ex EXCEPT ![e] = y]
  BY InvParts DEF P!Finish, P!Fenced, OthersOK, ExecsOK
<1>2. CASE P!Quit(e, FALSE) /\ runs' = runs
  BY <1>1, <1>2, QuitInv
<1>3. CASE /\ h = Len(runs) /\ runs' = [runs EXCEPT ![h].status = x.life.status,
                                                    ![h].live = FALSE]
           /\ turn' = turn /\ ex' = [ex EXCEPT ![e] = y]
  <2>1. /\ x \in P!Executors /\ StageOK(x) /\ HandleOK(x, Len(runs))
        /\ ExecOK(x, good, Len(runs), plan)
        /\ Len(runs) \in Nat /\ runs \in Seq(P!RunRows)
    BY ExecParts, InvParts
  <2>2. /\ x.via = "checkpoint" /\ h \in 1 .. Len(runs) /\ runs[h] \in P!RunRows
        /\ x.life.status \in Reported
    BY <1>1, <1>3, <2>1 DEF StageOK, HandleOK, Checkpoint, Working
  <2>3. r \in P!RunRows
    BY <2>2 DEF P!RunRows, Reported
  <2>4. runs' = [runs EXCEPT ![h] = r]
    BY <1>3, <2>1, <2>2
  <2> HIDE DEF r
  <2>5. runs' \in Seq(P!RunRows) /\ Len(runs') = Len(runs) /\ Len(runs) <= Len(runs')
    BY <2>1, <2>2, <2>3, <2>4, RunsKept
  <2>6. /\ y.pc = "mark" /\ y.via = x.via /\ y.life = x.life /\ y.next = x.next
        /\ y.batch = x.batch /\ y.todo = x.todo /\ y.handle = x.handle
        /\ "mark" \in P!Pcs
    BY <2>1, PlaceTypes DEF P!Pcs
  <2>7. StageOK(y)
    BY <1>1, <2>1, <2>2, <2>6 DEF StageOK, AtWork, Calling, Checkpoint, Working
  <2>8. HandleOK(y, Len(runs))
    BY <1>1, <2>1, <2>2, <2>6 DEF HandleOK
  <2>9. ExecOK(y, good, Len(runs), plan)
    BY <2>1, <2>6, <2>7, <2>8, PlaceOK
  <2>10. Keeps(x, y, turn.owner = e)
    BY <1>1, <2>6 DEF Keeps, AfterSave
  <2> HIDE DEF y
  <2> QED
    BY <1>1, <1>3, <2>5, <2>9, <2>10, ExecRuns
<1> QED
  BY <1>1, <1>2, <1>3

LEMMA MarkStep ==
  ASSUME PlanInv, NEW e \in P!Execs, P!Mark(e)
  PROVE  PlanInv'
<1> DEFINE x == ex[e]
           y == P!Continue(x)
<1>1. /\ x.pc = "mark" /\ UNCHANGED <<faults, plan, overdue, runs, good, asked>>
      /\ faults' \in 0 .. MaxFaults
      /\ \/ P!Quit(e, FALSE)
         \/ /\ turn.owner = e /\ turn' = [turn EXCEPT !.mark = TRUE]
            /\ ex' = [ex EXCEPT ![e] = y]
  BY InvParts DEF P!Mark, P!Own, OthersOK, ExecsOK
<1>2. CASE P!Quit(e, FALSE)
  BY <1>1, <1>2, QuitInv
<1>3. CASE /\ turn.owner = e /\ turn' = [turn EXCEPT !.mark = TRUE]
           /\ ex' = [ex EXCEPT ![e] = y]
  <2>1. /\ x \in P!Executors /\ StageOK(x) /\ TriesOK(x) /\ Named(x.life)
        /\ TruthOK(x, good) /\ Dated(x.life, plan) /\ x.handle <= Len(runs)
        /\ Len(runs) \in Nat /\ x.life.version \in Nat
    BY ExecParts, ExecTypes, PlanTypes, InvParts
  <2>2. KnowsNext(x)
    BY <1>1, <2>1 DEF KnowsNext, StageOK, AtWork, Calling, Working
  <2>3. /\ ExecOK(y, good, Len(runs), plan)
        /\ y.life.version = x.life.version
        /\ y.pc \in AfterSave => y.life.steps = x.life.steps
    <3> DEFINE k == Len(runs)
    <3>1. y = P!Continue(x) /\ k \in Nat /\ x.handle <= k
      BY <2>1
    <3>2. x \in P!Executors /\ TriesOK(x) /\ Named(x.life) /\ TruthOK(x, good)
          /\ Dated(x.life, plan)
      BY <2>1
    <3> HIDE DEF x, y, k
    <3>3. /\ ExecOK(y, good, k, plan)
          /\ y.life.version = x.life.version
          /\ y.pc \in AfterSave => y.life.steps = x.life.steps
      BY <2>2, <3>1, <3>2, ContinueOK
    <3> QED
      BY <3>3 DEF k
  <2> HIDE DEF y
  <2>4. Keeps(x, y, turn.owner = e)
    BY <1>1, <2>3 DEF Keeps, AfterSave
  <2>5. plan.status # "none"
    <3>1. Leads(e)
      BY <1>1, <1>3, InvParts DEF SavedOK, AfterSave
    <3>2. plan.version # 0
      BY <3>1, <2>1, InvParts DEF Leads
    <3> QED
      BY <3>2, InvParts DEF PlanOK
  <2>6. /\ turn' \in P!Turns /\ turn'.initial = turn.initial /\ turn'.mark = TRUE
        /\ turn'.journal = turn.journal /\ turn'.owner = turn.owner
    BY <1>3, InvParts DEF P!Turns
  <2>7. TurnOK'
    BY <1>1, <2>5, <2>6, InvParts DEF TurnOK, JournalOK
  <2>8. PlanOK' /\ PlanMoves /\ plan' \in P!Plans
    BY <1>1, PlanSame, InvParts DEF PlanMoves
  <2>9. ExecsOK' /\ SavedOK'
    <3>1. /\ ExecOK(y, good', Len(runs'), plan') /\ runs' \in Seq(P!RunRows)
          /\ Len(runs) <= Len(runs') /\ good \subseteq good'
      BY <1>1, <2>1, <2>3, InvParts
    <3> QED
      BY <1>3, <2>4, <2>6, <2>8, <3>1, InvParts, ExecStep
  <2> QED
    BY <1>1, <2>7, <2>8, <2>9, InvParts DEF PlanInv, OthersOK
<1> QED
  BY <1>1, <1>2, <1>3

-----------------------------------------------------------------------------
(* PlanRun: how an executor begins *)

\* The executor is in no checkpoint and has nothing to say; the row may move.
LEMMA PlaceMoves ==
  ASSUME PlanInv, NEW e \in P!Execs, NEW a \in {"route", "end"},
         ex' = [ex EXCEPT ![e].pc = a],
         PlanOK', PlanMoves, turn'.owner = turn.owner, runs' = runs, good' = good
  PROVE  ExecsOK' /\ SavedOK'
<1> DEFINE x == ex[e]
           y == [x EXCEPT !.pc = a]
<1>1. /\ x \in P!Executors /\ ExecOK(x, good, Len(runs), plan)
      /\ HandleOK(x, Len(runs)) /\ Len(runs) \in Nat
      /\ plan \in P!Plans /\ plan.version \in Nat
  BY ExecParts, InvParts
<1>2. a \in P!Pcs /\ a \notin Working /\ a \notin {"loop", "call"}
  BY DEF P!Pcs, Working
<1>3. /\ y.pc = a /\ y.via = x.via /\ y.life = x.life /\ y.next = x.next
      /\ y.batch = x.batch /\ y.todo = x.todo /\ y.handle = x.handle
  BY <1>1, <1>2, PlaceTypes
<1>4. StageOK(y) /\ HandleOK(y, Len(runs))
  BY <1>1, <1>2, <1>3 DEF StageOK, HandleOK, AtWork, Calling, Checkpoint, Working
<1>5. ExecOK(y, good, Len(runs), plan)
  BY <1>1, <1>2, <1>4, PlaceOK
<1>6. plan' \in P!Plans /\ (plan' = plan \/ plan.version < plan'.version)
  BY <1>1 DEF PlanOK, PlanMoves
<1>7. ExecOK(y, good', Len(runs'), plan')
  <2> HIDE DEF y
  <2> QED
    BY <1>1, <1>5, <1>6, ExecGrows
<1>8. Keeps(x, y, turn.owner = e)
  BY <1>2, <1>3 DEF Keeps, AfterSave, Working
<1>9. ex' = [ex EXCEPT ![e] = y]
  BY InvParts DEF ExecsOK
<1>10. runs' \in Seq(P!RunRows) /\ Len(runs) <= Len(runs') /\ good \subseteq good'
  BY InvParts
<1> HIDE DEF y
<1> QED
  BY <1>6, <1>7, <1>8, <1>9, <1>10, InvParts, ExecStep

LEMMA TakeSnapshotStep ==
  ASSUME PlanInv, NEW e \in P!Execs, P!TakeSnapshot(e)
  PROVE  PlanInv'
<1>1. /\ ex' = [ex EXCEPT ![e].pc = "route"]
      /\ UNCHANGED <<faults, overdue, runs, good, asked>>
      /\ \/ plan' = plan /\ turn' = turn
         \/ /\ plan' = P!Aged(plan)
            /\ turn' = [turn EXCEPT !.taken = TRUE, !.initial = P!Aged(plan)]
  BY DEF P!TakeSnapshot
<1>2. CASE plan' = plan /\ turn' = turn
  <2>1. PlanOK' /\ PlanMoves /\ plan' \in P!Plans
    BY <1>1, <1>2, PlanSame, InvParts DEF PlanMoves
  <2>2. TurnOK' /\ ExecsOK' /\ SavedOK'
    BY <1>1, <1>2, <2>1, TurnSame, PlaceMoves, InvParts
  <2> QED
    BY <1>1, <2>1, <2>2, InvParts DEF PlanInv, OthersOK
<1>3. CASE /\ plan' = P!Aged(plan)
           /\ turn' = [turn EXCEPT !.taken = TRUE, !.initial = P!Aged(plan)]
  <2>1. PlanOK' /\ PlanMoves
    BY <1>1, <1>3, AgedOK
  <2>2. plan' \in P!Plans /\ Named(plan') /\ Sound(plan', good') /\ plan'.version \in Nat
    BY <2>1, PlanTypes DEF PlanOK
  <2>3. turn' = [turn EXCEPT !.taken = TRUE, !.initial = plan']
    BY <1>3
  <2>4. /\ turn' \in P!Turns /\ turn'.initial = plan' /\ turn'.mark = turn.mark
        /\ turn'.journal = turn.journal /\ turn'.owner = turn.owner
    BY <2>2, <2>3, InvParts DEF P!Turns
  <2>5. TurnOK'
    BY <1>1, <2>1, <2>2, <2>4, InvParts DEF TurnOK, JournalOK, PlanMoves
  <2>6. ExecsOK' /\ SavedOK'
    BY <1>1, <2>1, <2>4, PlaceMoves
  <2> QED
    BY <1>1, <2>1, <2>5, <2>6, InvParts DEF PlanInv, OthersOK
<1> QED
  BY <1>1, <1>2, <1>3

LEMMA OtherMessageStep ==
  ASSUME PlanInv, NEW e \in P!Execs, P!OtherMessage(e)
  PROVE  PlanInv'
<1> DEFINE p == P!Aged(plan)
<1>1. /\ ex' = [ex EXCEPT ![e].pc = "end"]
      /\ UNCHANGED <<faults, overdue, runs, turn, good, asked>>
      /\ \/ plan' = plan
         \/ plan' = p
         \/ /\ p.status = "awaiting_confirmation"
            /\ plan' = [p EXCEPT !.status = "cancelled", !.version = @ + 1]
  BY DEF P!OtherMessage
<1>2. PlanOK' /\ PlanMoves
  <2>1. CASE plan' = plan
    BY <2>1, <1>1, PlanSame, InvParts DEF PlanMoves
  <2>2. CASE plan' = p
    BY <2>2, <1>1, AgedOK
  <2>3. CASE /\ p.status = "awaiting_confirmation"
             /\ plan' = [p EXCEPT !.status = "cancelled", !.version = @ + 1]
    <3>1. good \subseteq good'
      BY <1>1
    <3>2. p = P!Aged(plan)
      OBVIOUS
    <3> HIDE DEF p
    <3> QED
      BY <2>3, <3>1, <3>2, CancelledOK
  <2> QED
    BY <1>1, <2>1, <2>2, <2>3
<1>3. TurnOK' /\ ExecsOK' /\ SavedOK'
  BY <1>1, <1>2, TurnSame, PlaceMoves, InvParts DEF PlanOK
<1> QED
  BY <1>1, <1>2, <1>3, InvParts DEF PlanInv, OthersOK

LEMMA CreatePlanStep ==
  ASSUME PlanInv, NEW e \in P!Execs, P!Create(e)
  PROVE  PlanInv'
<1> DEFINE x == ex[e]
           p == [P!NoPlan EXCEPT !.status = "running", !.run = e]
           y == P!Started(x, p, {})
<1>1. /\ plan = P!NoPlan /\ UNCHANGED <<faults, plan, overdue, runs, turn, good, asked>>
      /\ ex' = [ex EXCEPT ![e] = y]
  BY InvParts DEF P!Create, P!Unmade, ExecsOK
<1>2. /\ p \in P!Plans /\ p.status = "running" /\ p.version = 0 /\ p.run = e
      /\ p.steps = [s \in P!Steps |-> "none"]
  BY NoPlanIsPlan DEF P!Plans, P!PlanStatus
<1> HIDE DEF p
<1>3. Named(p) /\ Sound(p, good) /\ Dated(p, plan)
  BY <1>1, <1>2, NoPlanIsPlan DEF Named, Sound, Dated, P!In, P!Ended
<1>4. /\ x \in P!Executors /\ TriesOK(x) /\ x.handle <= Len(runs) /\ Len(runs) \in Nat
      /\ P!In(x.res, "completed") \subseteq good
  BY ExecParts, InvParts DEF TruthOK
<1>5. ExecOK(y, good, Len(runs), plan) /\ y.pc = "check" /\ y.life.version = p.version
  <2>1. y = P!Started(x, p, {}) /\ {} \in SUBSET P!Steps
    OBVIOUS
  <2> HIDE DEF x, y
  <2> QED
    BY <1>2, <1>3, <1>4, <2>1, StartedOK
<1> HIDE DEF y
<1>6. Keeps(x, y, turn.owner = e)
  BY <1>2, <1>5 DEF Keeps, AfterSave
<1>7. faults' \in 0 .. MaxFaults
  BY <1>1, InvParts DEF OthersOK
<1> QED
  BY <1>1, <1>5, <1>6, <1>7, ExecOnly

LEMMA RecoverStep ==
  ASSUME PlanInv, NEW e \in P!Execs, P!Recover(e)
  PROVE  PlanInv'
<1> DEFINE x == ex[e]
           c == P!Reconfirmed(plan)
           y1 == P!Started(x, plan, c)
           y2 == P!Saving(x, "record", plan, "end")
<1>1. /\ turn.owner = e /\ plan.status # "none" /\ faults' \in 0 .. MaxFaults
      /\ UNCHANGED <<faults, plan, overdue, runs, turn, good, asked>>
      /\ \/ plan.status = "running" /\ ex' = [ex EXCEPT ![e] = y1]
         \/ ex' = [ex EXCEPT ![e] = y2]
  BY InvParts DEF P!Recover, P!Own, ExecsOK, TurnOK, OthersOK
<1>2. /\ plan \in P!Plans /\ Named(plan) /\ Sound(plan, good) /\ Dated(plan, plan)
  BY InvParts DEF PlanOK, Dated
<1>3. /\ x \in P!Executors /\ TriesOK(x) /\ x.handle <= Len(runs) /\ Len(runs) \in Nat
      /\ P!In(x.res, "completed") \subseteq good /\ P!In(x.prev, "completed") \subseteq good
  BY ExecParts, InvParts DEF TruthOK
<1>4. CASE plan.status = "running" /\ ex' = [ex EXCEPT ![e] = y1]
  <2>1. y1 = P!Started(x, plan, c) /\ c \in SUBSET P!Steps
    BY DEF P!Reconfirmed, P!In
  <2>2. ExecOK(y1, good, Len(runs), plan) /\ y1.pc = "check"
    <3> HIDE DEF x, c, y1
    <3> QED
      BY <1>2, <1>3, <1>4, <2>1, StartedOK
  <2> HIDE DEF y1
  <2>3. Keeps(x, y1, turn.owner = e)
    BY <1>1, <2>2 DEF Keeps, AfterSave
  <2> QED
    BY <1>1, <1>4, <2>2, <2>3, ExecOnly
<1>5. CASE ex' = [ex EXCEPT ![e] = y2]
  <2>1. y2 = P!Saving(x, "record", plan, "end") /\ "end" \in P!Nexts
    BY DEF P!Nexts
  <2>2. ExecOK(y2, good, Len(runs), plan) /\ y2.pc = "check"
    <3> HIDE DEF x, y2
    <3> QED
      BY <1>1, <1>2, <1>3, <2>1, SavingOK
  <2> HIDE DEF y2
  <2>3. Keeps(x, y2, turn.owner = e)
    BY <1>1, <2>2 DEF Keeps, AfterSave
  <2> QED
    BY <1>1, <1>5, <2>2, <2>3, ExecOnly
<1> QED
  BY <1>1, <1>4, <1>5

LEMMA ResumeStep ==
  ASSUME PlanInv, NEW e \in P!Execs, P!Resume(e)
  PROVE  PlanInv'
<1> DEFINE x == ex[e]
           p == turn.initial
           q1 == [p EXCEPT !.status = "expired"]
           q2 == [p EXCEPT !.status = "failed"]
           q3 == [p EXCEPT !.status = "running", !.resume = p.resume + 1, !.run = e]
<1>1. /\ turn.owner = e /\ p.status = "awaiting_confirmation"
      /\ UNCHANGED <<faults, plan, overdue, runs, turn, good>>
      /\ asked' \subseteq P!Steps
      /\ \/ ex' = [ex EXCEPT ![e] = P!Saving(x, "record", q1, "end")]
         \/ ex' = [ex EXCEPT ![e] = P!Saving(x, "record", q2, "end")]
         \/ /\ p.resume < MaxResume
            /\ ex' = [ex EXCEPT ![e] = P!Saving(x, "record", q3, "execute")]
  <2>1. /\ turn.owner = e /\ p.status = "awaiting_confirmation"
        /\ UNCHANGED <<faults, plan, overdue, runs, turn, good>>
        /\ asked' \subseteq P!Steps
    BY InvParts DEF P!Resume, P!Own, P!In, OthersOK
  <2>2. p.resume \in 0 .. MaxResume /\ ex \in [P!Execs -> P!Executors]
    BY InvParts, PlanTypes DEF ExecsOK
  <2>3. CASE overdue
    BY <2>1, <2>2, <2>3 DEF P!Resume
  <2>4. CASE ~overdue /\ P!Exhausted(p)
    BY <2>1, <2>2, <2>4 DEF P!Resume
  <2>5. CASE ~overdue /\ ~P!Exhausted(p)
    <3>1. p.resume < MaxResume
      BY <2>2, <2>5, PlanAssumption DEF P!Exhausted
    <3> QED
      BY <2>1, <2>2, <2>5, <3>1 DEF P!Resume
  <2> QED
    BY <2>3, <2>4, <2>5
<1>2. /\ p \in P!Plans /\ Named(p) /\ Sound(p, good) /\ Dated(p, plan)
      /\ p.resume \in 0 .. MaxResume /\ p.run \in P!Execs
      /\ p.version \in Nat /\ plan.version \in Nat
      /\ p.version = plan.version => plan.status \notin P!Ended
      /\ p.version <= plan.version
  <2>1. p.version = plan.version => plan.status \notin P!Ended
    BY <1>1, InvParts DEF TurnOK, P!Ended
  <2> QED
    BY <1>1, <2>1, InvParts, PlanTypes DEF TurnOK, Dated, Named
<1>3. /\ x \in P!Executors /\ TriesOK(x) /\ x.handle <= Len(runs) /\ Len(runs) \in Nat
      /\ P!In(x.res, "completed") \subseteq good /\ P!In(x.prev, "completed") \subseteq good
  BY ExecParts, InvParts DEF TruthOK
<1>4. ASSUME NEW q \in P!Plans, q.status \in {"expired", "failed", "running"},
             q.version = p.version, q.run \in P!Execs, q.steps = p.steps,
             NEW n \in {"end", "execute"}, n = "execute" => q.status = "running",
             ex' = [ex EXCEPT ![e] = P!Saving(x, "record", q, n)]
      PROVE  PlanInv'
  <2> DEFINE y == P!Saving(x, "record", q, n)
  <2>1. /\ Named(q) /\ Sound(q, good) /\ Dated(q, plan) /\ q.status # "none"
        /\ n \in P!Nexts
    BY <1>1, <1>2, <1>4 DEF Named, Sound, Dated, P!Nexts
  <2>2. ExecOK(y, good, Len(runs), plan) /\ y.pc = "check"
    <3>1. y = P!Saving(x, "record", q, n)
      OBVIOUS
    <3> HIDE DEF x, y
    <3> QED
      BY <1>3, <1>4, <2>1, <3>1, SavingOK
  <2> HIDE DEF y
  <2>3. Keeps(x, y, turn.owner = e)
    BY <1>1, <2>2 DEF Keeps, AfterSave
  <2>4. PlanOK' /\ PlanMoves /\ plan' \in P!Plans
    BY <1>1, PlanSame, InvParts DEF PlanMoves
  <2>5. /\ ExecOK(y, good', Len(runs'), plan') /\ runs' \in Seq(P!RunRows)
        /\ Len(runs) <= Len(runs') /\ good \subseteq good' /\ turn'.owner = turn.owner
        /\ ex' = [ex EXCEPT ![e] = y]
    BY <1>1, <1>3, <1>4, <2>2, InvParts DEF y
  <2>6. ExecsOK' /\ SavedOK'
    BY <2>3, <2>4, <2>5, InvParts, ExecStep
  <2>7. TurnOK'
    BY <1>1, <2>4, InvParts, TurnSame
  <2> QED
    BY <1>1, <2>4, <2>6, <2>7, InvParts DEF PlanInv, OthersOK
<1>5. /\ q1 \in P!Plans /\ q1.status = "expired" /\ q1.version = p.version
      /\ q1.run = p.run /\ q1.steps = p.steps
      /\ q2 \in P!Plans /\ q2.status = "failed" /\ q2.version = p.version
      /\ q2.run = p.run /\ q2.steps = p.steps
  <2> HIDE DEF p
  <2> QED
    BY <1>2 DEF P!Plans, P!PlanStatus, P!Ended
<1>6. p.resume < MaxResume
        => /\ q3 \in P!Plans /\ q3.status = "running" /\ q3.version = p.version
           /\ q3.run = e /\ q3.steps = p.steps
  <2>1. p.resume < MaxResume => p.resume + 1 \in 0 .. MaxResume
    BY <1>2, PlanAssumption
  <2> HIDE DEF p
  <2> QED
    BY <1>2, <2>1 DEF P!Plans, P!PlanStatus
<1> HIDE DEF q1, q2, q3
<1> QED
  BY <1>1, <1>2, <1>4, <1>5, <1>6

-----------------------------------------------------------------------------
(* PlanRun: the scheduler *)

\* What the executor forgets.
LEMMA FreshLoop ==
  ASSUME NEW h \in Nat, NEW b, b = [P!Fresh("loop") EXCEPT !.handle = h]
  PROVE  /\ b \in P!Executors /\ b.handle = h /\ TriesOK(b)
         /\ P!In(b.prev, "completed") = {} /\ P!In(b.res, "completed") = {}
<1>1. /\ b \in P!Executors /\ b.handle = h
      /\ b.prev = [s \in P!Steps |-> "none"] /\ b.res = [s \in P!Steps |-> "none"]
      /\ b.tries = [s \in P!Steps |-> 0]
  <2>1. "loop" \in P!Pcs
    BY DEF P!Pcs
  <2>2. /\ P!Fresh("loop") \in P!Executors
        /\ P!Fresh("loop").prev = [s \in P!Steps |-> "none"]
        /\ P!Fresh("loop").res = [s \in P!Steps |-> "none"]
        /\ P!Fresh("loop").tries = [s \in P!Steps |-> 0]
    BY <2>1, FreshTypes
  <2> QED
    BY <2>2 DEF P!Executors
<1> QED
  BY <1>1, PlanAssumption DEF TriesOK, P!Attempts, P!In

\* The executor's last checkpoint of a plan that it had as running.
LEMMA EndingStep ==
  ASSUME PlanInv, NEW e \in P!Execs, ex[e].pc = "loop",
         NEW q \in P!Plans, q.status \in Reported, q.version = ex[e].life.version,
         q.run = ex[e].life.run, Sound(q, good),
         NEW b \in P!Executors, b.handle = ex[e].handle, TriesOK(b),
         P!In(b.prev, "completed") = {}, P!In(b.res, "completed") = {},
         ex' = [ex EXCEPT ![e] = P!Saving(b, "checkpoint", q, "final")],
         UNCHANGED <<faults, plan, overdue, runs, turn, good, asked>>
  PROVE  PlanInv'
<1> DEFINE x == ex[e]
           y == P!Saving(b, "checkpoint", q, "final")
<1>1. /\ x \in P!Executors /\ StageOK(x) /\ Named(x.life) /\ Dated(x.life, plan)
      /\ x.handle <= Len(runs) /\ x.handle \in Nat /\ Len(runs) \in Nat
  BY ExecParts, ExecTypes, InvParts
<1>2. x.life.status = "running" /\ x.life.run \in P!Execs
  BY <1>1 DEF StageOK, AtWork, Named
<1>5. Named(q) /\ Dated(q, plan) /\ q.status # "none" /\ "final" \in P!Nexts
  BY <1>1, <1>2 DEF Named, Dated, P!Nexts, P!Ended, Reported
<1>6. /\ P!In(b.prev, "completed") \subseteq good /\ P!In(b.res, "completed") \subseteq good
      /\ q.status \in Reported \union {"running"}
  OBVIOUS
<1>7. ExecOK(y, good, Len(runs), plan) /\ y.pc = "check" /\ y.life = q
  <2>1. y = P!Saving(b, "checkpoint", q, "final")
    OBVIOUS
  <2>2. b.handle <= Len(runs)
    BY <1>1
  <2> HIDE DEF x, y
  <2> QED
    BY <1>1, <1>5, <1>6, <2>1, <2>2, SavingOK
<1> HIDE DEF y
<1>8. Keeps(x, y, turn.owner = e)
  BY <1>7 DEF Keeps, AfterSave
<1>9. faults' \in 0 .. MaxFaults
  BY InvParts DEF OthersOK
<1> QED
  BY <1>7, <1>8, <1>9, ExecOnly DEF y

LEMMA TerminateStep ==
  ASSUME PlanInv, NEW e \in P!Execs, ex[e].pc = "loop",
         NEW s \in {"cancelled", "failed"}, P!Terminate(e, s, s),
         UNCHANGED <<faults, plan, overdue, runs, turn, good, asked>>
  PROVE  PlanInv'
<1> DEFINE x == ex[e]
           w == P!With(x.res, P!In(x.res, "none"), s)
           q == [x.life EXCEPT !.status = s, !.steps = w]
           b == [P!Fresh("loop") EXCEPT !.handle = x.handle]
<1>1. /\ x \in P!Executors /\ x.life \in P!Plans /\ x.res \in [P!Steps -> P!StepStatus]
      /\ P!In(x.res, "completed") \subseteq good
  BY ExecParts, ExecTypes DEF TruthOK
<1>2. ex' = [ex EXCEPT ![e] = P!Saving(b, "checkpoint", q, "final")]
  BY InvParts DEF P!Terminate, ExecsOK
<1>3. s \in P!StepStatus /\ s \in P!PlanStatus /\ s # "completed"
  BY DEF P!StepStatus, P!Outcomes, P!PlanStatus, P!Ended
<1>4. w \in [P!Steps -> P!StepStatus] /\ P!In(w, "completed") \subseteq good
  BY <1>1, <1>3, WithTypes
<1> HIDE DEF w
<1>5. /\ q \in P!Plans /\ q.status = s /\ q.steps = w
      /\ q.version = x.life.version /\ q.run = x.life.run
  <2> HIDE DEF x
  <2> QED
    BY <1>1, <1>3, <1>4 DEF P!Plans
<1>6. Sound(q, good) /\ q.status \in Reported
  BY <1>4, <1>5 DEF Sound, Reported
<1>7. /\ b \in P!Executors /\ b.handle = x.handle /\ TriesOK(b)
      /\ P!In(b.prev, "completed") = {} /\ P!In(b.res, "completed") = {}
  <2>1. x.handle \in Nat
    BY <1>1, ExecTypes
  <2> QED
    BY <2>1, FreshLoop
<1> HIDE DEF b
<1> HIDE DEF q
<1> QED
  BY <1>2, <1>5, <1>6, <1>7, EndingStep

LEMMA ConcludeStep ==
  ASSUME PlanInv, NEW e \in P!Execs, P!Conclude(e)
  PROVE  PlanInv'
<1> DEFINE x == ex[e]
           q == [x.life EXCEPT !.steps = x.res, !.status = P!Derived(x.res)]
           b == [P!Fresh("loop") EXCEPT !.handle = x.handle]
<1>1. /\ x \in P!Executors /\ x.life \in P!Plans /\ x.res \in [P!Steps -> P!StepStatus]
      /\ P!In(x.res, "completed") \subseteq good
  BY ExecParts, ExecTypes DEF TruthOK
<1>2. /\ x.pc = "loop" /\ UNCHANGED <<faults, plan, overdue, runs, turn, good, asked>>
      /\ ex' = [ex EXCEPT ![e] = P!Saving(b, "checkpoint", q, "final")]
  BY InvParts DEF P!Conclude, ExecsOK
<1>3. P!Derived(x.res) \in P!PlanStatus /\ P!Derived(x.res) \in Reported
  BY DEF P!Derived, P!PlanStatus, P!Ended, Reported
<1>4. /\ q \in P!Plans /\ q.status = P!Derived(x.res) /\ q.steps = x.res
      /\ q.version = x.life.version /\ q.run = x.life.run
  <2> HIDE DEF x
  <2> QED
    BY <1>1, <1>3 DEF P!Plans
<1>5. Sound(q, good)
  BY <1>1, <1>4 DEF Sound, P!Derived
<1>6. /\ b \in P!Executors /\ b.handle = x.handle /\ TriesOK(b)
      /\ P!In(b.prev, "completed") = {} /\ P!In(b.res, "completed") = {}
  <2>1. x.handle \in Nat
    BY <1>1, ExecTypes
  <2> QED
    BY <2>1, FreshLoop
<1> HIDE DEF b
<1> HIDE DEF q
<1> QED
  BY <1>2, <1>3, <1>4, <1>5, <1>6, EndingStep

LEMMA CollectStep ==
  ASSUME PlanInv, NEW e \in P!Execs, P!Collect(e)
  PROVE  PlanInv'
<1> DEFINE x == ex[e]
           z == [x EXCEPT !.batch = {}]
           q == [x.life EXCEPT !.steps = x.res]
           n == IF x.todo = {} THEN "loop" ELSE "more"
           y == P!Saving(z, "checkpoint", q, n)
<1>1. /\ x \in P!Executors /\ StageOK(x) /\ TriesOK(x) /\ Named(x.life)
      /\ x.handle <= Len(runs) /\ Len(runs) \in Nat /\ Dated(x.life, plan)
      /\ x.life \in P!Plans /\ x.res \in [P!Steps -> P!StepStatus]
      /\ P!In(x.res, "completed") \subseteq good /\ P!In(x.prev, "completed") \subseteq good
  BY ExecParts, ExecTypes, InvParts DEF TruthOK
<1>2. /\ x.pc = "call" /\ UNCHANGED <<faults, plan, overdue, runs, turn, good, asked>>
      /\ ex' = [ex EXCEPT ![e] = y] /\ faults' \in 0 .. MaxFaults
  BY InvParts DEF P!Collect, ExecsOK, OthersOK
<1>3. x.life.status = "running"
  BY <1>1, <1>2 DEF StageOK, AtWork
<1>4. /\ z \in P!Executors /\ z.prev = x.prev /\ z.res = x.res /\ z.batch = {}
      /\ z.tries = x.tries /\ z.open = x.open /\ z.handle = x.handle /\ z.todo = x.todo
  <2> HIDE DEF x
  <2> QED
    BY <1>1 DEF P!Executors
<1>5. /\ q.status = "running" /\ q.version = x.life.version /\ q.run = x.life.run
      /\ q.steps = x.res /\ q \in P!Plans
  <2> HIDE DEF x
  <2> QED
    BY <1>1, <1>3 DEF P!Plans
<1>6. n \in P!Nexts /\ n \in {"loop", "more"} /\ (n = "more" => x.todo # {})
  BY DEF P!Nexts
<1>7. y = P!Saving(z, "checkpoint", q, n)
  OBVIOUS
<1> HIDE DEF z, q, n, y
<1>8. TriesOK(z)
  BY <1>1, <1>4 DEF TriesOK
<1>9. Sound(q, good) /\ Named(q) /\ Dated(q, plan)
  BY <1>1, <1>3, <1>5 DEF Sound, Named, Dated
<1>10. ExecOK(y, good, Len(runs), plan) /\ y.pc = "check" /\ y.life = q
  <2> HIDE DEF x
  <2> QED
    BY <1>1, <1>4, <1>5, <1>6, <1>7, <1>8, <1>9, SavingOK
<1>11. Keeps(x, y, turn.owner = e)
  BY <1>5, <1>10 DEF Keeps, AfterSave
<1> QED
  BY <1>2, <1>10, <1>11, ExecOnly
LEMMA SeeCancelStep ==
  ASSUME PlanInv, NEW e \in P!Execs, P!SeeCancel(e)
  PROVE  PlanInv'
BY TerminateStep DEF P!SeeCancel

LEMMA TimeOutStep ==
  ASSUME PlanInv, NEW e \in P!Execs, P!TimeOut(e)
  PROVE  PlanInv'
BY TerminateStep DEF P!TimeOut

-----------------------------------------------------------------------------
(* PlanRun: calls *)

\* The executor goes on with the same checkpoint.
SameWork(x, y) ==
  /\ y.pc = x.pc /\ y.via = x.via /\ y.life = x.life /\ y.next = x.next
  /\ y.prev = x.prev /\ y.batch = x.batch /\ y.todo = x.todo
  /\ y.handle = x.handle

LEMMA SameWorkOK ==
  ASSUME NEW x, NEW y \in P!Executors, SameWork(x, y), NEW g, NEW h, NEW k, NEW r,
         ExecOK(x, g, k, r), g \subseteq h, TriesOK(y),
         P!In(y.res, "completed") \subseteq h
  PROVE  ExecOK(y, h, k, r)
<1>1. Named(y.life) /\ StageOK(y) /\ HandleOK(y, k) /\ Dated(y.life, r)
  BY DEF SameWork, ExecOK, ShapeOK, StageOK, HandleOK, AtWork, Calling, Checkpoint
<1>2. TruthOK(y, h)
  BY SoundGrows DEF SameWork, ExecOK, TruthOK
<1> QED
  BY <1>1, <1>2 DEF ExecOK, ShapeOK

\* A step is called, answered or left.
LEMMA CallStep ==
  ASSUME PlanInv, NEW e \in P!Execs, NEW y \in P!Executors, ex' = [ex EXCEPT ![e] = y],
         SameWork(ex[e], y), TriesOK(y), P!In(y.res, "completed") \subseteq good',
         good \subseteq good', good' \subseteq P!Steps,
         turn' \in P!Turns, turn'.initial = turn.initial, turn'.mark = turn.mark,
         turn'.owner = turn.owner, JournalOK',
         UNCHANGED <<faults, plan, overdue, runs, asked>>
  PROVE  PlanInv'
<1>1. PlanOK' /\ PlanMoves /\ plan' \in P!Plans
  BY PlanSame, InvParts DEF PlanMoves
<1>2. ExecOK(y, good', Len(runs'), plan')
  <2>1. ExecOK(ex[e], good, Len(runs), plan)
    BY ExecParts
  <2>2. ExecOK(y, good', Len(runs), plan)
    BY <2>1, SameWorkOK
  <2> QED
    BY <2>2
<1>3. Keeps(ex[e], y, turn.owner = e)
  BY DEF Keeps, SameWork
<1>4. ExecsOK' /\ SavedOK'
  <2>1. runs' \in Seq(P!RunRows) /\ Len(runs) <= Len(runs')
    BY InvParts
  <2> QED
    BY <1>1, <1>2, <1>3, <2>1, InvParts, ExecStep
<1>5. TurnOK'
  <2>1. Sound(turn.initial, good')
    BY InvParts, SoundGrows DEF TurnOK
  <2> QED
    BY <2>1, InvParts DEF TurnOK
<1> QED
  BY <1>1, <1>4, <1>5, InvParts DEF PlanInv, OthersOK

\* The executor stops waiting for the call.
LEMMA CloseTypes ==
  ASSUME NEW x \in P!Executors, NEW s \in P!Steps, NEW z, z = [x EXCEPT !.open = @ \ {s}]
  PROVE  /\ z \in P!Executors /\ SameWork(x, z) /\ z.open = x.open \ {s}
         /\ z.tries = x.tries /\ z.res = x.res /\ z.seen = x.seen
BY DEF P!Executors, SameWork

LEMMA AnsweredTypes ==
  ASSUME NEW x \in P!Executors, NEW s \in P!Steps, NEW n \in 0 .. ReadAttempts,
         NEW v \in P!Outcomes, NEW y, y = P!Answered(x, s, n, v)
  PROVE  /\ y \in P!Executors /\ SameWork(x, y) /\ y.open = x.open
         /\ y.tries = [x.tries EXCEPT ![s] = n]
         /\ \/ y.res = x.res /\ n < P!Attempts(s)
            \/ y.res = [x.res EXCEPT ![s] = v]
<1>1. v \in P!StepStatus
  BY DEF P!StepStatus
<1>2. CASE v = "failed" /\ n < P!Attempts(s) /\ n > 0
  <2>1. y = [x EXCEPT !.tries = [x.tries EXCEPT ![s] = n]]
    BY <1>2, ExecTypes DEF P!Answered, P!Executors
  <2> QED
    BY <2>1, <1>2 DEF P!Executors, SameWork
<1>3. CASE ~ (v = "failed" /\ n < P!Attempts(s) /\ n > 0)
  <2> DEFINE rs == [x.res EXCEPT ![s] = v]
             ts == [x.tries EXCEPT ![s] = n]
  <2>1. y = [x EXCEPT !.res = rs, !.tries = ts]
    BY <1>3, ExecTypes DEF P!Answered, P!Executors
  <2>2. rs \in [P!Steps -> P!StepStatus] /\ ts \in [P!Steps -> 0 .. ReadAttempts]
    BY <1>1, ExecTypes
  <2>3. y.res = rs /\ y.tries = ts /\ y \in P!Executors /\ SameWork(x, y) /\ y.open = x.open
    <3> HIDE DEF rs, ts
    <3> QED
      BY <2>1, <2>2 DEF P!Executors, SameWork
  <2> QED
    BY <2>3
<1> QED
  BY <1>2, <1>3

\* What an answer leaves of the tries and of the truth.
LEMMA ResultOK ==
  ASSUME NEW x \in P!Executors, NEW y \in P!Executors, NEW s \in P!Steps,
         TriesOK(x), NEW n \in 0 .. ReadAttempts, n <= P!Attempts(s),
         NEW v \in P!StepStatus, v # "none",
         y.tries = [x.tries EXCEPT ![s] = n], y.open \union {s} = x.open \union {s},
         \/ y.res = x.res /\ n < P!Attempts(s)
         \/ y.res = [x.res EXCEPT ![s] = v],
         NEW g, P!In(x.res, "completed") \subseteq g, v = "completed" => s \in g
  PROVE  TriesOK(y) /\ P!In(y.res, "completed") \subseteq g
<1>1. /\ x.tries \in [P!Steps -> 0 .. ReadAttempts] /\ x.res \in [P!Steps -> P!StepStatus]
      /\ P!Attempts(s) \in Nat
  BY ExecTypes, PlanAssumption DEF P!Attempts
<1>2. ASSUME NEW t \in P!Steps
      PROVE  /\ y.tries[t] <= P!Attempts(t)
             /\ y.res[t] = "none" /\ t \notin y.open => y.tries[t] < P!Attempts(t)
  <2>1. CASE t = s
    BY <1>1, <2>1
  <2>2. CASE t # s
    <3>1. y.tries[t] = x.tries[t] /\ y.res[t] = x.res[t] /\ (t \in y.open <=> t \in x.open)
      BY <1>1, <2>2
    <3> QED
      BY <3>1 DEF TriesOK
  <2> QED
    BY <2>1, <2>2
<1>3. ASSUME NEW t \in P!Steps, y.res[t] = "completed" PROVE t \in g
  BY <1>1, <1>3 DEF P!In
<1> QED
  BY <1>2, <1>3 DEF TriesOK, P!In
\* The turn as it is, for a step that leaves it alone.
LEMMA SameJournal ==
  ASSUME PlanInv, turn' = turn, good \subseteq good'
  PROVE  /\ turn' \in P!Turns /\ turn'.initial = turn.initial /\ turn'.mark = turn.mark
         /\ turn'.owner = turn.owner /\ JournalOK'
BY InvParts DEF TurnOK, JournalOK

LEMMA ReadAttemptsBound ==
  ASSUME NEW s \in P!Steps
  PROVE  P!Attempts(s) \in 1 .. ReadAttempts
BY PlanAssumption DEF P!Attempts

LEMMA NoCallStep ==
  ASSUME PlanInv, NEW e \in P!Execs, NEW s \in P!Steps, NEW v \in {"failed", "cancelled"},
         P!NoCall(e, s, v)
  PROVE  PlanInv'
<1> DEFINE x == ex[e]
           b == x.seen \/ v = "cancelled"
           rs == [x.res EXCEPT ![s] = v]
           y == [x EXCEPT !.res = rs, !.seen = b]
<1>1. /\ x.res[s] = "none" /\ s \notin x.open /\ turn' = turn
      /\ UNCHANGED <<faults, plan, overdue, runs, good, asked>>
  BY DEF P!NoCall, P!Waiting
<1>2. ex' = [ex EXCEPT ![e] = y]
  BY InvParts DEF P!NoCall, ExecsOK
<1>3. /\ x \in P!Executors /\ TriesOK(x) /\ b \in BOOLEAN
      /\ P!In(x.res, "completed") \subseteq good
      /\ v \in P!StepStatus /\ v # "none" /\ v # "completed"
      /\ x.tries \in [P!Steps -> 0 .. ReadAttempts]
  BY ExecParts, ExecTypes DEF TruthOK, P!StepStatus, P!Outcomes
<1>4. /\ y \in P!Executors /\ SameWork(x, y)
      /\ y.open = x.open /\ y.tries = x.tries /\ y.res = rs
  <2>1. rs \in [P!Steps -> P!StepStatus]
    BY <1>3, ExecTypes
  <2> HIDE DEF x, b, rs
  <2> QED
    BY <1>3, <2>1 DEF P!Executors, SameWork
<1>5. /\ x.tries[s] \in 0 .. ReadAttempts /\ x.tries[s] <= P!Attempts(s)
      /\ y.tries = [x.tries EXCEPT ![s] = x.tries[s]]
  BY <1>3, <1>4 DEF TriesOK
<1> HIDE DEF y
<1>6. TriesOK(y) /\ P!In(y.res, "completed") \subseteq good
  <2> HIDE DEF x
  <2> QED
    BY <1>3, <1>4, <1>5, ResultOK
<1>7. /\ turn' \in P!Turns /\ turn'.initial = turn.initial /\ turn'.mark = turn.mark
      /\ turn'.owner = turn.owner /\ JournalOK'
  BY <1>1, SameJournal
<1> QED
  BY <1>1, <1>2, <1>4, <1>6, <1>7, InvParts, CallStep

LEMMA LeaveCallStep ==
  ASSUME PlanInv, NEW e \in P!Execs, NEW s \in P!Steps, P!LeaveCall(e, s)
  PROVE  PlanInv'
<1> DEFINE x == ex[e]
           v == IF P!Cancelled(e) /\ x.tries[s] > 0 THEN "cancelled" ELSE "failed"
           b == x.seen \/ v = "cancelled"
           rs == [x.res EXCEPT ![s] = v]
           z == [x EXCEPT !.open = @ \ {s}]
           y == [z EXCEPT !.res = rs, !.seen = b]
<1>1. /\ s \in x.open /\ turn' = turn
      /\ UNCHANGED <<faults, plan, overdue, runs, good, asked>>
  BY DEF P!LeaveCall
<1>2. ex' = [ex EXCEPT ![e] = y]
  BY InvParts DEF P!LeaveCall, ExecsOK
<1>3. /\ x \in P!Executors /\ TriesOK(x) /\ b \in BOOLEAN
      /\ P!In(x.res, "completed") \subseteq good
      /\ v \in P!StepStatus /\ v # "none" /\ v # "completed"
      /\ x.tries \in [P!Steps -> 0 .. ReadAttempts]
  BY ExecParts, ExecTypes DEF TruthOK, P!StepStatus, P!Outcomes
<1> HIDE DEF v
<1>4. /\ z \in P!Executors /\ SameWork(x, z) /\ z.open = x.open \ {s}
      /\ z.tries = x.tries /\ z.res = x.res
  <2> HIDE DEF x
  <2> QED
    BY <1>3, CloseTypes
<1> HIDE DEF z
<1>5. /\ y \in P!Executors /\ SameWork(x, y)
      /\ y.open = x.open \ {s} /\ y.tries = x.tries /\ y.res = rs
  <2>1. rs \in [P!Steps -> P!StepStatus]
    BY <1>3, ExecTypes
  <2> HIDE DEF x, b, rs
  <2> QED
    BY <1>3, <1>4, <2>1 DEF P!Executors, SameWork
<1>6. /\ x.tries[s] \in 0 .. ReadAttempts /\ x.tries[s] <= P!Attempts(s)
      /\ y.tries = [x.tries EXCEPT ![s] = x.tries[s]]
      /\ y.open \union {s} = x.open \union {s}
  BY <1>3, <1>5 DEF TriesOK
<1> HIDE DEF y
<1>7. TriesOK(y) /\ P!In(y.res, "completed") \subseteq good
  <2> HIDE DEF x
  <2> QED
    BY <1>3, <1>5, <1>6, ResultOK
<1>8. /\ turn' \in P!Turns /\ turn'.initial = turn.initial /\ turn'.mark = turn.mark
      /\ turn'.owner = turn.owner /\ JournalOK'
  BY <1>1, SameJournal
<1> QED
  BY <1>1, <1>2, <1>5, <1>7, <1>8, InvParts, CallStep

\* The journal takes v for the call c; a good answer is remembered.
LEMMA JournalTypes ==
  ASSUME PlanInv, NEW c, NEW v \in P!Outcomes \union {"none", "in_flight"},
         turn' = [turn EXCEPT !.journal[c] = v],
         good \subseteq good', v = "completed" => c[1] \in good'
  PROVE  /\ turn' \in P!Turns /\ turn'.initial = turn.initial /\ turn'.mark = turn.mark
         /\ turn'.owner = turn.owner /\ JournalOK'
<1> DEFINE j == [turn.journal EXCEPT ![c] = v]
<1>1. turn \in P!Turns /\ turn.journal \in [P!CallIds -> P!Outcomes \union {"none", "in_flight"}]
  BY InvParts DEF P!Turns
<1>2. /\ j \in [P!CallIds -> P!Outcomes \union {"none", "in_flight"}]
      /\ \A d \in P!CallIds : (j[d] = v /\ d = c) \/ j[d] = turn.journal[d]
  <2> HIDE DEF P!CallIds
  <2> QED
    BY <1>1
<1>3. turn' = [turn EXCEPT !.journal = j]
  BY <1>1 DEF P!Turns
<1> HIDE DEF j
<1>4. /\ turn' \in P!Turns /\ turn'.initial = turn.initial /\ turn'.mark = turn.mark
      /\ turn'.owner = turn.owner /\ turn'.journal = j
  BY <1>1, <1>2, <1>3 DEF P!Turns
<1>5. JournalOK'
  BY <1>2, <1>4, InvParts DEF TurnOK, JournalOK
<1> QED
  BY <1>4, <1>5

LEMMA ReturnLateStep ==
  ASSUME PlanInv, NEW e \in P!Execs, NEW s \in P!Steps, P!ReturnLate(e, s)
  PROVE  PlanInv'
<1> DEFINE c == <<s, ex[e].tries[s]>>
<1>1. /\ turn' = [turn EXCEPT !.journal[c] = "completed"] /\ good' = good \union {s}
      /\ UNCHANGED <<faults, plan, overdue, runs, ex, asked>>
  BY DEF P!ReturnLate
<1>2. c[1] = s /\ "completed" \in P!Outcomes
  BY DEF P!Outcomes
<1> HIDE DEF c
<1>3. good \subseteq good' /\ c[1] \in good' /\ good' \subseteq P!Steps
  BY <1>1, <1>2, InvParts
<1>4. /\ turn' \in P!Turns /\ turn'.initial = turn.initial /\ turn'.mark = turn.mark
      /\ turn'.owner = turn.owner /\ JournalOK'
  BY <1>1, <1>2, <1>3, JournalTypes
<1>5. PlanOK' /\ PlanMoves /\ plan' \in P!Plans
  BY <1>1, <1>3, PlanSame, InvParts DEF PlanMoves
<1>6. TurnOK'
  BY <1>1, <1>3, <1>4, InvParts, SoundGrows DEF TurnOK
<1>7. ExecsOK' /\ SavedOK'
  <2>1. runs' \in Seq(P!RunRows) /\ Len(runs) <= Len(runs') /\ ex' = ex
    BY <1>1, InvParts
  <2> QED
    BY <1>3, <1>4, <1>5, <2>1, InvParts, ExecsSame
<1> QED
  BY <1>1, <1>3, <1>5, <1>6, <1>7, InvParts DEF PlanInv, OthersOK

LEMMA HeartbeatStep ==
  ASSUME PlanInv, NEW e \in P!Execs, P!Heartbeat(e)
  PROVE  PlanInv'
<1> DEFINE h == ex[e].handle
           r == [runs[h] EXCEPT !.live = TRUE]
<1>1. /\ plan' = plan /\ turn' = turn /\ ex' = ex /\ good' = good /\ asked' = asked
      /\ overdue' = overdue /\ faults' = faults /\ h # 0 /\ h = Len(runs)
      /\ runs' = [runs EXCEPT ![h] = r]
  BY DEF P!Heartbeat, P!Fenced
<1>2. runs \in Seq(P!RunRows) /\ h \in 1 .. Len(runs) /\ runs[h] \in P!RunRows
  BY <1>1, InvParts
<1>3. r \in P!RunRows
  BY <1>2 DEF P!RunRows
<1> HIDE DEF r
<1>4. runs' \in Seq(P!RunRows) /\ Len(runs) <= Len(runs')
  BY <1>1, <1>2, <1>3, RunsKept
<1> QED
  BY <1>1, <1>4, RunsStep, InvParts DEF PlanInv, OthersOK
LEMMA BeginCallStep ==
  ASSUME PlanInv, NEW e \in P!Execs, NEW s \in P!Steps, P!BeginCall(e, s)
  PROVE  PlanInv'
<1> DEFINE x == ex[e]
           n == IF P!Unconfirmed(e, s) THEN 0 ELSE x.tries[s] + 1
           c == <<s, n>>
           j == turn.journal[c]
           y1 == P!Answered(x, s, n, j)
           y2 == [x EXCEPT !.open = @ \union {s}, !.tries = [x.tries EXCEPT ![s] = n]]
<1>0. ex \in [P!Execs -> P!Executors]
  BY InvParts DEF ExecsOK
<1>1. /\ x.res[s] = "none" /\ s \notin x.open /\ UNCHANGED <<faults, plan, overdue, runs, good, asked>>
      /\ \/ P!Quit(e, FALSE)
         \/ /\ j \in P!Outcomes /\ ex' = [ex EXCEPT ![e] = y1] /\ turn' = turn
         \/ /\ turn' = [turn EXCEPT !.journal[c] = "in_flight"]
            /\ ex' = [ex EXCEPT ![e] = y2]
  <2>1. /\ x.res[s] = "none" /\ s \notin x.open
        /\ UNCHANGED <<faults, plan, overdue, runs, good, asked>>
    BY DEF P!BeginCall, P!Waiting
  <2>2. CASE ~P!Own(e) \/ (j = "in_flight" /\ s \in Writes)
    BY <2>1, <2>2 DEF P!BeginCall
  <2>3. CASE ~(~P!Own(e) \/ (j = "in_flight" /\ s \in Writes)) /\ j \in P!Outcomes
    BY <2>1, <2>3, <1>0 DEF P!BeginCall
  <2>4. CASE ~(~P!Own(e) \/ (j = "in_flight" /\ s \in Writes)) /\ j \notin P!Outcomes
    <3>1. /\ turn' = [turn EXCEPT !.journal[c] = "in_flight"]
          /\ ex' = [ex EXCEPT ![e].open = @ \union {s}, ![e].tries[s] = n]
      BY <2>4 DEF P!BeginCall
    <3> HIDE DEF n
    <3>2. ex' = [ex EXCEPT ![e] = y2]
      BY <3>1, <1>0
    <3> QED
      BY <2>1, <3>1, <3>2
  <2> QED
    BY <2>2, <2>3, <2>4
<1>2. /\ x \in P!Executors /\ TriesOK(x) /\ x.tries[s] < P!Attempts(s)
      /\ P!In(x.res, "completed") \subseteq good
      /\ x.tries \in [P!Steps -> 0 .. ReadAttempts] /\ x.tries[s] \in 0 .. ReadAttempts
  BY <1>1, ExecParts, ExecTypes DEF TriesOK, TruthOK
<1>3. n \in 0 .. ReadAttempts /\ n <= P!Attempts(s) /\ c \in P!CallIds
  <2>1. P!Attempts(s) \in 1 .. ReadAttempts /\ (s \in Writes => P!Attempts(s) = 1)
    BY ReadAttemptsBound DEF P!Attempts
  <2>2. n \in 0 .. ReadAttempts /\ n <= P!Attempts(s) /\ (s \notin Writes => n >= 1)
    BY <1>2, <2>1, PlanAssumption DEF P!Unconfirmed
  <2> HIDE DEF n
  <2>3. c \in P!Steps \X (0 .. ReadAttempts) /\ c[1] = s /\ c[2] = n
    BY <2>2
  <2> QED
    BY <2>1, <2>2, <2>3 DEF P!CallIds
<1> HIDE DEF n
<1>4. faults' \in 0 .. MaxFaults
  BY <1>1, InvParts DEF OthersOK
<1>5. CASE P!Quit(e, FALSE)
  BY <1>1, <1>4, <1>5, QuitInv
<1>6. CASE j \in P!Outcomes /\ ex' = [ex EXCEPT ![e] = y1] /\ turn' = turn
  <2>1. j = "completed" => s \in good
    BY <1>3, InvParts DEF TurnOK, JournalOK
  <2>2. j \in P!StepStatus /\ j # "none"
    BY <1>6 DEF P!StepStatus, P!Outcomes
  <2>3. /\ y1 \in P!Executors /\ SameWork(x, y1) /\ y1.open = x.open
        /\ y1.tries = [x.tries EXCEPT ![s] = n]
        /\ \/ y1.res = x.res /\ n < P!Attempts(s)
           \/ y1.res = [x.res EXCEPT ![s] = j]
    <3>1. y1 = P!Answered(x, s, n, j)
      OBVIOUS
    <3> HIDE DEF x, y1, j
    <3> QED
      BY <1>2, <1>3, <1>6, <3>1, AnsweredTypes
  <2> HIDE DEF y1
  <2>4. TriesOK(y1) /\ P!In(y1.res, "completed") \subseteq good
    <3>1. y1.open \union {s} = x.open \union {s}
      BY <2>3
    <3> HIDE DEF x, j
    <3> QED
      BY <1>2, <1>3, <2>1, <2>2, <2>3, <3>1, ResultOK
  <2>5. /\ turn' \in P!Turns /\ turn'.initial = turn.initial /\ turn'.mark = turn.mark
        /\ turn'.owner = turn.owner /\ JournalOK'
    BY <1>1, <1>6, SameJournal
  <2> QED
    BY <1>1, <1>6, <2>3, <2>4, <2>5, InvParts, CallStep
<1>7. CASE /\ turn' = [turn EXCEPT !.journal[c] = "in_flight"]
           /\ ex' = [ex EXCEPT ![e] = y2]
  <2> DEFINE ts == [x.tries EXCEPT ![s] = n]
             os == x.open \union {s}
  <2>1. ts \in [P!Steps -> 0 .. ReadAttempts] /\ os \in SUBSET P!Steps
    BY <1>2, <1>3, ExecTypes
  <2>2. /\ y2 \in P!Executors /\ SameWork(x, y2) /\ y2.open = os
        /\ y2.tries = ts /\ y2.res = x.res
    <3>1. y2 = [x EXCEPT !.open = os, !.tries = ts]
      OBVIOUS
    <3> HIDE DEF x, ts, os, y2
    <3> QED
      BY <1>2, <2>1, <3>1 DEF P!Executors, SameWork
  <2> HIDE DEF y2
  <2>3. TriesOK(y2)
    <3>1. ASSUME NEW t \in P!Steps
          PROVE  /\ y2.tries[t] <= P!Attempts(t)
                 /\ y2.res[t] = "none" /\ t \notin y2.open => y2.tries[t] < P!Attempts(t)
      <4>1. CASE t = s
        BY <1>2, <1>3, <2>2, <4>1
      <4>2. CASE t # s
        <5>1. y2.tries[t] = x.tries[t] /\ y2.res[t] = x.res[t]
              /\ (t \notin y2.open => t \notin x.open)
          BY <1>2, <2>2, <4>2
        <5> QED
          BY <1>2, <5>1 DEF TriesOK
      <4> QED
        BY <4>1, <4>2
    <3> QED
      BY <3>1 DEF TriesOK
  <2>4. P!In(y2.res, "completed") \subseteq good' /\ good \subseteq good'
        /\ good' \subseteq P!Steps
    BY <1>1, <1>2, <2>2, InvParts
  <2>5. /\ turn' \in P!Turns /\ turn'.initial = turn.initial /\ turn'.mark = turn.mark
        /\ turn'.owner = turn.owner /\ JournalOK'
    <3> DEFINE i == "in_flight"
    <3>1. i \in P!Outcomes \union {"none", "in_flight"} /\ (i = "completed" => c[1] \in good')
      OBVIOUS
    <3>2. turn' = [turn EXCEPT !.journal[c] = i]
      BY <1>7
    <3> HIDE DEF c, i
    <3> QED
      BY <2>4, <3>1, <3>2, JournalTypes
  <2> QED
    BY <1>1, <1>7, <2>2, <2>3, <2>4, <2>5, CallStep
<1> QED
  BY <1>1, <1>5, <1>6, <1>7

LEMMA EndCallStep ==
  ASSUME PlanInv, NEW e \in P!Execs, NEW s \in P!Steps, NEW v \in P!Outcomes,
         P!EndCall(e, s, v)
  PROVE  PlanInv'
<1> DEFINE x == ex[e]
           n == x.tries[s]
           c == <<s, n>>
           z == [x EXCEPT !.open = @ \ {s}]
           y1 == P!Answered(z, s, n, v)
           y2 == [z EXCEPT !.res = [z.res EXCEPT ![s] = "cancelled"], !.seen = TRUE]
<1>1. /\ s \in x.open /\ UNCHANGED <<faults, plan, overdue, runs, asked>>
      /\ good' = IF v = "completed" THEN good \union {s} ELSE good
      /\ \/ P!Quit(e, FALSE)
         \/ /\ turn' = [turn EXCEPT !.journal[c] = v]
            /\ ex' = [ex EXCEPT ![e] = y1] \/ ex' = [ex EXCEPT ![e] = y2]
  BY InvParts DEF P!EndCall, ExecsOK
<1>2. /\ x \in P!Executors /\ TriesOK(x)
      /\ P!In(x.res, "completed") \subseteq good
      /\ n \in 0 .. ReadAttempts /\ n <= P!Attempts(s)
      /\ x.tries \in [P!Steps -> 0 .. ReadAttempts]
      /\ x.res \in [P!Steps -> P!StepStatus]
  BY ExecParts, ExecTypes DEF TriesOK, TruthOK
<1>3. /\ good \subseteq good' /\ good' \subseteq P!Steps /\ (v = "completed" => s \in good')
      /\ P!In(x.res, "completed") \subseteq good' /\ c[1] = s
      /\ faults' \in 0 .. MaxFaults
  BY <1>1, <1>2, InvParts DEF OthersOK
<1>4. CASE P!Quit(e, FALSE)
  <2>1. PlanOK' /\ TurnOK' /\ ExecsOK' /\ SavedOK'
    BY <1>1, <1>3, <1>4, QuitStep, PlanSame, InvParts
  <2> QED
    BY <1>1, <1>3, <2>1, InvParts DEF PlanInv, OthersOK
<1>5. ASSUME turn' = [turn EXCEPT !.journal[c] = v],
             NEW y \in P!Executors, ex' = [ex EXCEPT ![e] = y], SameWork(x, y),
             y.tries = [x.tries EXCEPT ![s] = n], y.open \union {s} = x.open \union {s},
             NEW w \in P!StepStatus, w # "none", w = "completed" => v = "completed",
             \/ y.res = x.res /\ n < P!Attempts(s)
             \/ y.res = [x.res EXCEPT ![s] = w]
      PROVE  PlanInv'
  <2>1. TriesOK(y) /\ P!In(y.res, "completed") \subseteq good'
    <3>1. w = "completed" => s \in good'
      BY <1>3, <1>5
    <3> HIDE DEF x, n
    <3> QED
      BY <1>2, <1>3, <1>5, <3>1, ResultOK
  <2>2. /\ turn' \in P!Turns /\ turn'.initial = turn.initial /\ turn'.mark = turn.mark
        /\ turn'.owner = turn.owner /\ JournalOK'
    <3> HIDE DEF c
    <3> QED
      BY <1>3, <1>5, JournalTypes
  <2> QED
    BY <1>1, <1>3, <1>5, <2>1, <2>2, CallStep
<1>6. /\ z \in P!Executors /\ SameWork(x, z) /\ z.open = x.open \ {s}
      /\ z.tries = x.tries /\ z.res = x.res
  <2> HIDE DEF x
  <2> QED
    BY <1>2, CloseTypes
<1> HIDE DEF z
<1>7. CASE turn' = [turn EXCEPT !.journal[c] = v] /\ ex' = [ex EXCEPT ![e] = y1]
  <2>1. /\ y1 \in P!Executors /\ SameWork(z, y1) /\ y1.open = z.open
        /\ y1.tries = [z.tries EXCEPT ![s] = n]
        /\ \/ y1.res = z.res /\ n < P!Attempts(s)
           \/ y1.res = [z.res EXCEPT ![s] = v]
    <3>1. y1 = P!Answered(z, s, n, v)
      OBVIOUS
    <3> HIDE DEF y1, x, n
    <3> QED
      BY <1>2, <1>6, <3>1, AnsweredTypes
  <2> HIDE DEF y1
  <2>2. /\ SameWork(x, y1) /\ y1.tries = [x.tries EXCEPT ![s] = n]
        /\ y1.open \union {s} = x.open \union {s}
        /\ v \in P!StepStatus /\ v # "none"
        /\ \/ y1.res = x.res /\ n < P!Attempts(s)
           \/ y1.res = [x.res EXCEPT ![s] = v]
    BY <1>1, <1>6, <2>1 DEF SameWork, P!StepStatus, P!Outcomes
  <2> QED
    BY <1>5, <1>7, <2>1, <2>2
<1>8. CASE turn' = [turn EXCEPT !.journal[c] = v] /\ ex' = [ex EXCEPT ![e] = y2]
  <2> DEFINE rs == [x.res EXCEPT ![s] = "cancelled"]
  <2>1. rs \in [P!Steps -> P!StepStatus] /\ "cancelled" \in P!StepStatus
    BY <1>2 DEF P!StepStatus
  <2>2. y2 \in P!Executors /\ SameWork(z, y2) /\ y2.open = z.open
        /\ y2.tries = z.tries /\ y2.res = rs
    <3>1. y2 = [z EXCEPT !.res = rs, !.seen = TRUE]
      BY <1>6
    <3> HIDE DEF y2, x, rs
    <3> QED
      BY <1>6, <2>1, <3>1 DEF P!Executors, SameWork
  <2> HIDE DEF y2
  <2>3. /\ SameWork(x, y2) /\ y2.tries = [x.tries EXCEPT ![s] = n]
        /\ y2.open \union {s} = x.open \union {s}
        /\ y2.res = [x.res EXCEPT ![s] = "cancelled"]
    BY <1>1, <1>2, <1>6, <2>2 DEF SameWork
  <2> QED
    BY <1>5, <1>8, <2>1, <2>2, <2>3
<1> QED
  BY <1>1, <1>4, <1>7, <1>8
-----------------------------------------------------------------------------
(* PlanRun: a level of the plan *)

LEMMA ScheduleStep ==
  ASSUME PlanInv, NEW e \in P!Execs, P!Schedule(e)
  PROVE  PlanInv'
<1> DEFINE x == ex[e]
           ready == P!Ready(x.res)
           reuse == {s \in ready : x.prev[s] = "completed"}
           w == P!With(x.res, reuse, "completed")
           reads == {s \in (ready \ reuse) \ Writes : P!Satisfied(w, s)}
           rest == (ready \ reuse) \ reads
           z == [x EXCEPT !.res = w, !.todo = rest]
           y == IF reads # {} THEN P!RunningCheckpoint(z, reads)
                ELSE IF rest # {} THEN P!Continue([z EXCEPT !.next = "more"])
                ELSE z
<1>1. /\ x.pc = "loop" /\ UNCHANGED <<faults, plan, overdue, runs, turn, good, asked>>
      /\ ex' = [ex EXCEPT ![e] = y]
  BY DEF P!Schedule
<1>2. /\ x \in P!Executors /\ ExecOK(x, good, Len(runs), plan)
      /\ StageOK(x) /\ TriesOK(x) /\ Named(x.life)
      /\ x.handle <= Len(runs) /\ Len(runs) \in Nat /\ Dated(x.life, plan)
      /\ HandleOK(x, Len(runs)) /\ Sound(x.life, good)
      /\ x.prev \in [P!Steps -> P!StepStatus] /\ x.res \in [P!Steps -> P!StepStatus]
      /\ P!In(x.res, "completed") \subseteq good /\ P!In(x.prev, "completed") \subseteq good
  BY ExecParts, ExecTypes, InvParts DEF TruthOK
<1>3. x.life.status = "running"
  BY <1>1, <1>2 DEF StageOK, AtWork
<1>4. ready \subseteq P!Steps
  BY DEF P!Ready, P!In
<1> HIDE DEF ready
<1>5. reuse \subseteq good
  BY <1>2, <1>4 DEF P!In
<1>6. "completed" \in P!StepStatus
  BY DEF P!StepStatus, P!Outcomes
<1>7. /\ w \in [P!Steps -> P!StepStatus]
      /\ \A s \in P!Steps : w[s] = IF s \in reuse THEN "completed" ELSE x.res[s]
      /\ P!In(w, "completed") \subseteq good
  <2> HIDE DEF reuse, x
  <2> QED
    BY <1>2, <1>5, <1>6, WithTypes
<1> HIDE DEF w
<1>8. reads \in SUBSET P!Steps /\ rest \in SUBSET P!Steps
  BY <1>4
<1> HIDE DEF reads, rest, reuse
<1>9. /\ z \in P!Executors /\ z.res = w /\ z.todo = rest
      /\ z.pc = x.pc /\ z.via = x.via /\ z.life = x.life /\ z.next = x.next
      /\ z.prev = x.prev /\ z.batch = x.batch /\ z.handle = x.handle
      /\ z.open = x.open /\ z.tries = x.tries
  <2> HIDE DEF x
  <2> QED
    BY <1>2, <1>7, <1>8 DEF P!Executors
<1> HIDE DEF z
<1>10. TriesOK(z)
  <2>1. ASSUME NEW s \in P!Steps, w[s] = "none" PROVE x.res[s] = "none"
    BY <1>7, <2>1
  <2> QED
    BY <1>2, <1>9, <2>1 DEF TriesOK
<1>11. P!In(z.res, "completed") \subseteq good /\ P!In(z.prev, "completed") \subseteq good
  BY <1>2, <1>7, <1>9
<1>12. /\ ExecOK(y, good, Len(runs), plan) /\ y.life.version = x.life.version
       /\ y.pc \in AfterSave => y.life.steps = x.life.steps
  <2>1. CASE reads # {}
    <3>1. y = P!RunningCheckpoint(z, reads)
      BY <2>1
    <3>2. /\ Named(z.life) /\ Dated(z.life, plan) /\ z.life.status = "running"
          /\ z.handle <= Len(runs) /\ Len(runs) \in Nat
      BY <1>2, <1>3, <1>9
    <3>4. z \in P!Executors /\ reads \in SUBSET P!Steps
      BY <1>8, <1>9
    <3> HIDE DEF y, x
    <3>3. ExecOK(y, good, Len(runs), plan) /\ y.pc = "check" /\ y.life.version = z.life.version
      BY <1>10, <1>11, <3>1, <3>2, <3>4, RunningOK, Z3
    <3> QED
      BY <1>9, <3>3 DEF AfterSave
  <2>2. CASE reads = {} /\ rest # {}
    <3> DEFINE z1 == [z EXCEPT !.next = "more"]
    <3>1. "more" \in P!Nexts
      BY DEF P!Nexts
    <3>2. /\ z1 \in P!Executors /\ z1.next = "more" /\ z1.life = z.life /\ z1.todo = z.todo
          /\ z1.res = z.res /\ z1.prev = z.prev /\ z1.open = z.open /\ z1.tries = z.tries
          /\ z1.handle = z.handle
      BY <1>9, <3>1 DEF P!Executors
    <3>3. y = P!Continue(z1)
      BY <2>2
    <3> HIDE DEF z1
    <3>4. /\ TriesOK(z1) /\ TruthOK(z1, good) /\ Named(z1.life) /\ Dated(z1.life, plan)
          /\ KnowsNext(z1) /\ z1.handle <= Len(runs)
      BY <1>2, <1>3, <1>9, <1>10, <1>11, <2>2, <3>2 DEF TriesOK, TruthOK, KnowsNext
    <3> HIDE DEF y, x
    <3>5. /\ ExecOK(y, good, Len(runs), plan)
          /\ y.life.version = z1.life.version
          /\ y.pc \in AfterSave => y.life.steps = z1.life.steps
      BY <1>2, <3>2, <3>3, <3>4, ContinueOK
    <3> QED
      BY <1>9, <3>2, <3>5
  <2>3. CASE reads = {} /\ rest = {}
    <3>1. y = z
      BY <2>3
    <3>2. StageOK(z) /\ HandleOK(z, Len(runs)) /\ TruthOK(z, good)
      BY <1>1, <1>2, <1>3, <1>9, <1>11
         DEF StageOK, HandleOK, TruthOK, AtWork, Calling, Checkpoint, Working
    <3> QED
      BY <1>2, <1>9, <1>10, <3>1, <3>2 DEF ExecOK, ShapeOK
  <2> QED
    BY <2>1, <2>2, <2>3
<1> HIDE DEF y
<1>13. Keeps(x, y, turn.owner = e)
  BY <1>1, <1>12 DEF Keeps, AfterSave
<1>14. faults' \in 0 .. MaxFaults
  BY <1>1, InvParts DEF OthersOK
<1> QED
  BY <1>1, <1>12, <1>13, <1>14, ExecOnly

-----------------------------------------------------------------------------
(* PlanRun: the invariant holds *)

LEMMA PlanInit ==
  ASSUME P!Init
  PROVE  PlanInv
<1>1. /\ plan = P!NoPlan /\ faults = 0 /\ overdue = FALSE /\ runs = <<>>
      /\ turn = P!ClosedTurn(0) /\ ex = [e \in P!Execs |-> P!Fresh("idle")]
      /\ good = {} /\ asked = {}
  BY DEF P!Init
<1>2. OthersOK
  <2>1. <<>> \in Seq(P!RunRows)
    OBVIOUS
  <2>2. overdue \in BOOLEAN
    BY <1>1, Zenon
  <2>3. faults \in 0 .. MaxFaults /\ good \subseteq P!Steps /\ asked \subseteq P!Steps
    BY <1>1, PlanAssumption
  <2> QED
    BY <1>1, <2>1, <2>2, <2>3 DEF OthersOK
<1>3. PlanOK
  BY <1>1, NoPlanIsPlan DEF PlanOK, Named, Sound, P!In
<1>4. TurnOK
  <2>1. /\ turn \in P!Turns /\ turn.initial = P!NoPlan /\ turn.mark = FALSE
        /\ turn.journal = [c \in P!CallIds |-> "none"]
    BY <1>1, NoPlanIsPlan DEF P!ClosedTurn, P!NewTurn, P!Turns
  <2> QED
    BY <1>1, <1>3, <2>1, NoPlanIsPlan DEF TurnOK, PlanOK, JournalOK
<1> DEFINE x == P!Fresh("idle")
<1>5. /\ x \in P!Executors /\ x.pc = "idle" /\ x.life = P!NoPlan /\ x.handle = 0
      /\ x.res = [s \in P!Steps |-> "none"] /\ x.prev = [s \in P!Steps |-> "none"]
      /\ x.tries = [s \in P!Steps |-> 0] /\ x.via = "record"
  BY FreshTypes DEF P!Pcs
<1> HIDE DEF x
<1>6. Len(runs) \in Nat /\ 0 <= Len(runs)
  BY <1>1
<1>7. /\ Named(x.life) /\ StageOK(x) /\ TriesOK(x) /\ HandleOK(x, Len(runs))
      /\ TruthOK(x, good) /\ Dated(x.life, plan)
  <2>1. Named(x.life) /\ StageOK(x)
    BY <1>5, NoPlanIsPlan DEF Named, StageOK, AtWork, Calling, Checkpoint, Working
  <2>2. TriesOK(x)
    BY <1>5, ReadAttemptsBound DEF TriesOK
  <2>3. HandleOK(x, Len(runs)) /\ Dated(x.life, plan)
    BY <1>1, <1>5, <1>6, NoPlanIsPlan DEF HandleOK, Dated
  <2>4. TruthOK(x, good)
    BY <1>5, NoPlanIsPlan DEF TruthOK, Sound, P!In
  <2> QED
    BY <2>1, <2>2, <2>3, <2>4
<1>8. ExecsOK
  BY <1>1, <1>5, <1>7 DEF ExecsOK, ExecOK, ShapeOK, x
<1>9. SavedOK
  BY <1>1, <1>5 DEF SavedOK, AfterSave, x
<1> QED
  BY <1>2, <1>3, <1>4, <1>8, <1>9 DEF PlanInv

LEMMA PlanInvStep ==
  ASSUME PlanInv, [P!Next]_(P!vars)
  PROVE  PlanInv'
<1>1. ASSUME NEW k \in {"ask", "confirm"}, P!Submit(k) PROVE PlanInv'
  BY <1>1, SubmitTurnStep
<1>2. CASE P!ClaimTurn \/ P!TurnLeaseExpires \/ P!ReadPlan \/ P!CancelPlan \/ P!Expire
  BY <1>2, ClaimTurnStep, TurnLeaseStep, ReadPlanStep, CancelPlanStep, ExpireStep
<1>3. ASSUME NEW f \in DOMAIN runs, P!RequestCancel(f) \/ P!RunLeaseExpires(f)
      PROVE  PlanInv'
  BY <1>3, RequestCancelStep, RunLeaseStep
<1>4. ASSUME NEW e \in P!Execs,
             \/ P!Die(e) \/ P!EndTurn(e)
             \/ \E again \in BOOLEAN : P!Fail(e, again)
             \/ P!Check(e) \/ P!ClaimRun(e) \/ P!Save(e) \/ P!Fence(e) \/ P!Finish(e)
             \/ P!Mark(e)
      PROVE  PlanInv'
  BY <1>4, DieStep, EndTurnStep, FailStep, CheckStep, ClaimRunStep, SavePlanStep, FenceStep,
     FinishStep, MarkStep
<1>5. ASSUME NEW e \in P!Execs,
             \/ P!TakeSnapshot(e) \/ P!Create(e) \/ P!Recover(e) \/ P!Resume(e)
             \/ P!OtherMessage(e) \/ P!SeeCancel(e) \/ P!TimeOut(e) \/ P!Schedule(e)
             \/ P!Collect(e) \/ P!Conclude(e) \/ P!Heartbeat(e)
      PROVE  PlanInv'
  BY <1>5, TakeSnapshotStep, CreatePlanStep, RecoverStep, ResumeStep, OtherMessageStep,
     SeeCancelStep, TimeOutStep, ScheduleStep, CollectStep, ConcludeStep, HeartbeatStep
<1>6. ASSUME NEW e \in P!Execs, NEW s \in P!Steps,
             \/ \E v \in {"failed", "cancelled"} : P!NoCall(e, s, v)
             \/ \E v \in P!Outcomes : P!EndCall(e, s, v)
             \/ P!BeginCall(e, s) \/ P!LeaveCall(e, s) \/ P!ReturnLate(e, s)
      PROVE  PlanInv'
  BY <1>6, NoCallStep, EndCallStep, BeginCallStep, LeaveCallStep, ReturnLateStep
<1>7. CASE UNCHANGED P!vars
  BY <1>7 DEF P!vars, PlanInv, OthersOK, PlanOK, TurnOK, JournalOK, ExecsOK, SavedOK, Leads
<1> QED
  BY <1>1, <1>2, <1>3, <1>4, <1>5, <1>6, <1>7 DEF P!Next

\* PlanRun: the inductive invariant, for every plan and any faults.
THEOREM PlanInvariant == P!Spec => []PlanInv
BY PlanInit, PlanInvStep, PTL DEF P!Spec

\* PlanRun: whatever executors were lost, fenced, resumed or late, a step that
\* the plan reports as completed was carried out by its tool, a completed plan
\* has no other step, and a plan that asks the customer has a step to ask about
\* (PlanExecutor.execute, _derive_status, PlanExecuteStrategy.resume).
THEOREM PlanHolds == P!Spec => []PlanIsReal
<1>1. PlanInv => PlanIsReal
  BY DEF PlanInv, PlanOK, Sound, PlanIsReal, P!CompletedIsReal, P!PendingHasAStep
<1> QED
  BY <1>1, PlanInvariant, PTL
-----------------------------------------------------------------------------
(* PlanRun: what a step keeps *)

\* The row changes when it is out of date, when it is dropped while it waits for
\* the customer, and when an executor saves.
LEMMA RowMoves ==
  ASSUME PlanInv, P!Next
  PROVE  \/ plan' = plan
         \/ plan.status \in {"awaiting_confirmation", "running"}
         \/ \E e \in P!Execs : plan.version = ex[e].life.version
                               /\ plan'.status = ex[e].life.status
<1>1. ASSUME NEW p, p = P!Aged(plan), p # plan
      PROVE  plan.status \in {"awaiting_confirmation", "running"}
  BY <1>1 DEF P!Aged
<1>2. ASSUME P!Aged(plan).status = "awaiting_confirmation"
      PROVE  plan.status \in {"awaiting_confirmation", "running"}
  <2>1. CASE P!Aged(plan) = plan
    BY <1>2, <2>1
  <2>2. CASE P!Aged(plan) # plan
    BY <2>2, <1>1
  <2> QED
    BY <2>1, <2>2
<1>3. CASE P!ReadPlan \/ P!CancelPlan
  BY <1>1, <1>2, <1>3 DEF P!ReadPlan, P!CancelPlan
<1>4. ASSUME NEW e \in P!Execs, P!TakeSnapshot(e) \/ P!OtherMessage(e), plan' # plan
      PROVE  plan.status \in {"awaiting_confirmation", "running"}
  <2>1. CASE P!Aged(plan) # plan
    BY <2>1, <1>1
  <2>2. CASE P!Aged(plan).status = "awaiting_confirmation"
    BY <2>2, <1>2
  <2>3. CASE P!Aged(plan) = plan /\ P!Aged(plan).status # "awaiting_confirmation"
    BY <1>4, <2>3 DEF P!TakeSnapshot, P!OtherMessage
  <2> QED
    BY <2>1, <2>2, <2>3
<1>5. ASSUME NEW e \in P!Execs, P!Save(e), plan' # plan
      PROVE  plan.version = ex[e].life.version /\ plan'.status = ex[e].life.status
  <2>1. /\ plan.version = ex[e].life.version
        /\ plan' = [ex[e].life EXCEPT !.version = plan.version + 1]
    BY <1>5 DEF P!Save, P!Stale
  <2>2. ex[e].life \in P!Plans
    BY ExecParts, ExecTypes
  <2> QED
    BY <2>1, <2>2 DEF P!Plans
<1>6. CASE \/ \E k \in {"ask", "confirm"} : P!Submit(k)
           \/ P!ClaimTurn \/ P!TurnLeaseExpires \/ P!Expire
           \/ \E f \in DOMAIN runs : P!RequestCancel(f) \/ P!RunLeaseExpires(f)
  BY <1>6 DEF P!Submit, P!ClaimTurn, P!TurnLeaseExpires, P!Expire, P!RequestCancel,
              P!RunLeaseExpires
<1>7. ASSUME NEW e \in P!Execs,
             \/ P!Die(e) \/ P!EndTurn(e)
             \/ \E again \in BOOLEAN : P!Fail(e, again)
             \/ P!Check(e) \/ P!ClaimRun(e) \/ P!Fence(e) \/ P!Finish(e) \/ P!Mark(e)
             \/ P!Create(e) \/ P!Recover(e) \/ P!Resume(e)
             \/ P!SeeCancel(e) \/ P!TimeOut(e) \/ P!Schedule(e)
             \/ P!Collect(e) \/ P!Conclude(e) \/ P!Heartbeat(e)
             \/ \E s \in P!Steps :
                  \/ \E v \in {"failed", "cancelled"} : P!NoCall(e, s, v)
                  \/ \E v \in P!Outcomes : P!EndCall(e, s, v)
                  \/ P!BeginCall(e, s) \/ P!LeaveCall(e, s) \/ P!ReturnLate(e, s)
      PROVE  plan' = plan
  BY <1>7 DEF P!Die, P!EndTurn, P!Fail, P!Check, P!ClaimRun, P!Fence, P!Finish, P!Mark,
              P!Create, P!Recover, P!Resume, P!SeeCancel, P!TimeOut, P!Schedule,
              P!Collect, P!Conclude, P!Heartbeat, P!NoCall, P!EndCall, P!BeginCall,
              P!LeaveCall, P!ReturnLate
<1> QED
  BY <1>3, <1>4, <1>5, <1>6, <1>7 DEF P!Next

LEMMA EndStays ==
  ASSUME PlanInv, P!Next, plan.status \in P!Ended
  PROVE  plan'.status = plan.status
<1>1. plan.status \notin {"awaiting_confirmation", "running"}
  BY DEF P!Ended
<1>2. ASSUME NEW e \in P!Execs, plan.version = ex[e].life.version
      PROVE  ex[e].life.status = plan.status
  BY <1>2, ExecParts DEF Dated
<1> QED
  BY <1>1, <1>2, RowMoves

\* The journal is new, or takes the outcome of one call, or notes a call of the
\* turn's executor that had the step in its batch.
LEMMA JournalMoves ==
  ASSUME PlanInv, P!Next, NEW c \in P!CallIds,
         turn.journal[c] = "none", turn'.journal[c] = "in_flight"
  PROVE  \E e \in P!Execs : /\ turn.owner = e /\ ex[e].pc = "call"
                            /\ c[1] \in ex[e].batch /\ plan' = plan
<1>1. turn \in P!Turns /\ turn.journal \in [P!CallIds -> P!Outcomes \union {"none", "in_flight"}]
  BY InvParts DEF P!Turns
<1>2. turn' # turn
  OBVIOUS
<1>3. ASSUME NEW o PROVE turn' # P!ClosedTurn(o)
  BY DEF P!ClosedTurn, P!NewTurn
<1>4. ASSUME NEW o, NEW k PROVE turn' # P!NewTurn(k, o)
  BY DEF P!NewTurn
<1>5. ASSUME NEW b PROVE turn' # [turn EXCEPT !.lease = b]
  BY <1>1 DEF P!Turns
<1>6. ASSUME NEW e, NEW again, P!Quit(e, again) PROVE FALSE
  BY <1>2, <1>3, <1>5, <1>6 DEF P!Quit
<1>7. ASSUME NEW d, NEW v, turn' = [turn EXCEPT !.journal[d] = v], v # "in_flight"
      PROVE  FALSE
  <2> DEFINE j == [turn.journal EXCEPT ![d] = v]
  <2>1. turn'.journal = j
    BY <1>1, <1>7 DEF P!Turns
  <2>2. j[c] # "in_flight"
    <3> HIDE DEF P!CallIds
    <3> QED
      BY <1>1, <1>7
  <2> QED
    BY <2>1, <2>2
<1>8. ASSUME NEW e \in P!Execs, NEW s \in P!Steps, NEW v \in P!Outcomes,
             P!EndCall(e, s, v) \/ P!ReturnLate(e, s)
      PROVE  FALSE
  <2>1. v # "in_flight"
    BY DEF P!Outcomes
  <2>2. \/ \E again \in BOOLEAN : P!Quit(e, again)
        \/ \E d : turn' = [turn EXCEPT !.journal[d] = v]
        \/ \E d : turn' = [turn EXCEPT !.journal[d] = "completed"]
    BY <1>8 DEF P!EndCall, P!ReturnLate
  <2> QED
    BY <1>6, <1>7, <2>1, <2>2
<1>9. ASSUME NEW e \in P!Execs, NEW s \in P!Steps, P!BeginCall(e, s)
      PROVE  /\ turn.owner = e /\ ex[e].pc = "call"
             /\ c[1] \in ex[e].batch /\ plan' = plan
  <2> DEFINE n == IF P!Unconfirmed(e, s) THEN 0 ELSE ex[e].tries[s] + 1
             d == <<s, n>>
  <2>1. /\ ex[e].pc = "call" /\ s \in ex[e].batch /\ plan' = plan
    BY <1>9 DEF P!BeginCall, P!Waiting
  <2>2. P!Own(e) /\ turn' = [turn EXCEPT !.journal[d] = "in_flight"]
    <3>1. CASE ~P!Own(e) \/ (turn.journal[d] = "in_flight" /\ s \in Writes)
      BY <1>9, <1>6, <3>1 DEF P!BeginCall
    <3>2. CASE ~(~P!Own(e) \/ (turn.journal[d] = "in_flight" /\ s \in Writes))
      BY <1>9, <1>2, <3>2 DEF P!BeginCall
    <3> QED
      BY <3>1, <3>2
  <2> HIDE DEF n
  <2>3. c = d
    <3> DEFINE j == [turn.journal EXCEPT ![d] = "in_flight"]
    <3> HIDE DEF d
    <3>1. turn'.journal = j
      BY <1>1, <2>2 DEF P!Turns
    <3> HIDE DEF P!CallIds
    <3> QED
      BY <1>1, <3>1
  <2> QED
    BY <2>1, <2>2, <2>3 DEF P!Own
<1>10. CASE \/ \E k \in {"ask", "confirm"} : P!Submit(k)
            \/ P!ClaimTurn \/ P!TurnLeaseExpires \/ P!Expire \/ P!ReadPlan \/ P!CancelPlan
            \/ \E f \in DOMAIN runs : P!RequestCancel(f) \/ P!RunLeaseExpires(f)
  <2>1. turn' # [turn EXCEPT !.owner = @ + 1, !.lease = TRUE]
    BY <1>1 DEF P!Turns
  <2> QED
    BY <1>2, <1>4, <1>5, <1>10, <2>1 DEF P!Submit, P!ClaimTurn, P!TurnLeaseExpires,
       P!Expire, P!ReadPlan, P!CancelPlan, P!RequestCancel, P!RunLeaseExpires
<1>11. ASSUME NEW e \in P!Execs,
              \/ P!Die(e) \/ P!EndTurn(e)
              \/ \E again \in BOOLEAN : P!Fail(e, again)
              \/ P!Check(e) \/ P!ClaimRun(e) \/ P!Save(e) \/ P!Fence(e) \/ P!Finish(e)
              \/ P!Create(e) \/ P!Recover(e) \/ P!Resume(e) \/ P!OtherMessage(e)
              \/ P!SeeCancel(e) \/ P!TimeOut(e) \/ P!Schedule(e)
              \/ P!Collect(e) \/ P!Conclude(e) \/ P!Heartbeat(e)
              \/ \E s \in P!Steps :
                   \/ \E v \in {"failed", "cancelled"} : P!NoCall(e, s, v)
                   \/ P!LeaveCall(e, s)
       PROVE  FALSE
  BY <1>2, <1>6, <1>11 DEF P!Die, P!EndTurn, P!Fail, P!Check, P!ClaimRun, P!Save, P!Fence,
     P!Finish, P!Create, P!Recover, P!Resume, P!OtherMessage, P!SeeCancel, P!TimeOut,
     P!Schedule, P!Collect, P!Conclude, P!Heartbeat, P!NoCall, P!LeaveCall
<1>12. ASSUME NEW e \in P!Execs, P!Mark(e) \/ P!TakeSnapshot(e) PROVE FALSE
  <2>1. turn' # [turn EXCEPT !.mark = TRUE]
    BY <1>1 DEF P!Turns
  <2>2. turn' # [turn EXCEPT !.taken = TRUE, !.initial = P!Aged(plan)]
    BY <1>1 DEF P!Turns
  <2> QED
    BY <1>2, <1>6, <1>12, <2>1, <2>2 DEF P!Mark, P!TakeSnapshot
<1> QED
  <2>1. \E v \in P!Outcomes : TRUE
    BY DEF P!Outcomes
  <2> QED
    BY <2>1, <1>8, <1>9, <1>10, <1>11, <1>12 DEF P!Next

LEMMA SentIsRecorded ==
  ASSUME PlanInv, P!Next, NEW s \in Writes,
         turn.journal[<<s, 1>>] = "none", turn'.journal[<<s, 1>>] = "in_flight"
  PROVE  plan.steps[s] = "running"
<1> DEFINE c == <<s, 1>>
<1>1. c \in P!CallIds /\ c[1] = s
  <2>1. s \in P!Steps /\ 1 \in 0 .. ReadAttempts
    BY PlanAssumption DEF P!Steps
  <2>2. c \in P!Steps \X (0 .. ReadAttempts) /\ c[1] = s /\ c[2] = 1
    BY <2>1
  <2> QED
    BY <2>2 DEF P!CallIds
<1>2. turn.journal[c] = "none" /\ turn'.journal[c] = "in_flight"
  OBVIOUS
<1> HIDE DEF c
<1>3. PICK e \in P!Execs : turn.owner = e /\ ex[e].pc = "call" /\ s \in ex[e].batch
  BY <1>1, <1>2, JournalMoves
<1>4. plan.steps = ex[e].life.steps
  BY <1>3, InvParts DEF SavedOK, AfterSave, Leads
<1>5. ex[e].life.steps[s] = "running"
  BY <1>3, ExecParts DEF StageOK, Calling
<1> QED
  BY <1>4, <1>5

\* PlanRun: a plan that has ended, by its executor, by the customer or by time,
\* stays as it ended, whoever read it before (PlanRepository.save compares the
\* version); and the stored plan says that a step is running when its write is
\* sent (_running_checkpoint precedes the call).
THEOREM PlanKept == P!Spec => PlanIsKept
<1>1. ASSUME PlanInv, [P!Next]_(P!vars)
      PROVE  /\ [plan.status \in P!Ended => plan'.status = plan.status]_(P!vars)
             /\ [\A s \in Writes :
                   turn.journal[<<s, 1>>] = "none" /\ turn'.journal[<<s, 1>>] = "in_flight"
                     => plan.steps[s] = "running"]_(P!vars)
  BY <1>1, EndStays, SentIsRecorded
<1> QED
  BY <1>1, PlanInvariant, PTL DEF P!Spec, PlanIsKept, P!EndedStays, P!RecordedBeforeSent
-----------------------------------------------------------------------------
(* All of Operations *)

\* Cases, compensations and plans keep their types, and with them their limits:
\* no case is tried, no compensation attempted and no plan resumed more often
\* than it may be (claim_operation, SqlCompensationOperationRepository.claim,
\* begin_resume).
THEOREM TypesHold == Spec /\ C!Spec /\ P!Spec => []TypesOK
<1>1. PlanInv => P!TypeOK
  BY DEF PlanInv, OthersOK, PlanOK, TurnOK, ExecsOK, P!TypeOK
<1>2. IInv /\ C!IInv /\ PlanInv => TypesOK
  BY <1>1 DEF IInv, C!IInv, TypesOK
<1> QED
  BY <1>2, DirectInvariant, CompensationInvariant, PlanInvariant, PTL


=============================================================================
