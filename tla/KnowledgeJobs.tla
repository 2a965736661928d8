---------------------------- MODULE KnowledgeJobs ----------------------------
(***************************************************************************)
(* The jobs that turn an imported document version into chunks and a       *)
(* release of such versions into an index.  A worker works under a lease   *)
(* that each checkpoint renews; when its job fails it ends the claim first *)
(* and reports the failure on the version or release afterwards.           *)
(***************************************************************************)
EXTENDS LeaseQueue, FiniteSets

CONSTANTS
  Versions, Releases,  \* the document versions and the releases
  Manifest,            \* the versions of a release
  JobAttempts,         \* max_attempts
  MaxRetries           \* bound: how often the administrator revives a dead job

VARIABLES item, job, wk, retries

vars == <<item, job, wk, retries>>

Items == Versions \union Releases
Waiting(i) == IF i \in Versions THEN "queued" ELSE "building"

WorkerStates ==
  [pc: {"idle", "read", "work", "publish", "published", "finish", "error", "mark"},
   item: Items, fence: Nat, verdict: {"", "pending", "dead"}]

TypeOK ==
  /\ item \in [Items -> {"none", "queued", "building", "ready", "failed"}]
  /\ job \in [Items -> Messages]
  /\ wk \in [Workers -> WorkerStates]
  /\ retries \in 0 .. MaxRetries

NoWork == [pc |-> "idle", item |-> CHOOSE i \in Items : TRUE, fence |-> 0,
           verdict |-> ""]

Init ==
  /\ item = [i \in Items |-> "none"]
  /\ job = [i \in Items |-> NoMessage]
  /\ wk = [w \in Workers |-> NoWork]
  /\ retries = 0

-----------------------------------------------------------------------------
(* The administrator *)

\* import_document and create_release: the row and its job are one transaction.
Enqueued(i) ==
  /\ item[i] = "none"
  /\ item' = [item EXCEPT ![i] = Waiting(i)]
  /\ job' = [job EXCEPT ![i] = NewMessage(JobAttempts)]
  /\ UNCHANGED <<wk, retries>>

ImportDocument(v) == Enqueued(v)

CreateRelease(r) ==
  /\ \A v \in Manifest[r] : item[v] = "ready"
  /\ Enqueued(r)

Revived(m) ==
  [m EXCEPT !.status = "pending", !.attempt = 0, !.fence = @ + 1, !.owner = NoWorker]

Retry(i) ==
  /\ job[i].status = "dead" /\ retries < MaxRetries
  /\ job' = [job EXCEPT ![i] = Revived(job[i])]
  /\ item' = [item EXCEPT ![i] = IF @ = "failed" THEN Waiting(i) ELSE @]
  /\ retries' = retries + 1
  /\ UNCHANGED wk

-----------------------------------------------------------------------------
(* The worker *)

Goto(w, pc) ==
  wk' = [wk EXCEPT ![w] = IF pc = "idle" THEN NoWork ELSE [@ EXCEPT !.pc = pc]]
Owns(w) == OwnedBy(job[wk[w].item], w, wk[w].fence)

Claim(w, i) ==
  /\ wk[w].pc = "idle" /\ Claimable(job[i])
  /\ job' = [job EXCEPT ![i] = ClaimedBy(job[i], w)]
  /\ wk' = [wk EXCEPT ![w] =
              IF job'[i].status = "running"
                THEN [pc |-> "read", item |-> i, fence |-> job'[i].fence,
                      verdict |-> ""]
                ELSE NoWork]
  /\ UNCHANGED <<item, retries>>

\* (mutant of Swept: only versions are swept)
SweptQueued == {i \in Items : job[i].status = "dead" /\ item[i] = "queued"}

Swept ==
  {i \in Items : job[i].status = "dead" /\ item[i] \in {"queued", "building"}}

\* A worker that finds nothing to claim reports the dead jobs.
Sweep(w) ==
  /\ wk[w].pc = "idle" /\ \A i \in Items : ~Claimable(job[i])
  /\ Swept # {}
  /\ item' = [i \in Items |-> IF i \in Swept THEN "failed" ELSE item[i]]
  /\ UNCHANGED <<job, wk, retries>>

\* ingest() is done with a version that is ready; build() is never.
Read(w) ==
  /\ wk[w].pc = "read"
  /\ Goto(w, IF wk[w].item \in Versions /\ item[wk[w].item] = "ready"
               THEN "finish" ELSE "work")
  /\ UNCHANGED <<item, job, retries>>

\* checkpoint(): it renews the lease of a claim that is still owned.  Parsing,
\* embedding and a worker that is told to stop may raise an error instead.
Checkpoint(w) ==
  /\ wk[w].pc \in {"work", "published"}
  /\ \/ /\ Owns(w)
        /\ job' = [job EXCEPT ![wk[w].item].leased = TRUE]
        /\ Goto(w, IF wk[w].pc = "work" THEN "publish" ELSE "finish")
     \/ /\ ~Owns(w)
        /\ Goto(w, "idle") /\ UNCHANGED job
     \/ Goto(w, "error") /\ UNCHANGED job
  /\ UNCHANGED <<item, retries>>

\* The last transaction of a job, under the queue's guard.
Published(w) ==
  /\ \/ /\ Owns(w)
        /\ item' = [item EXCEPT ![wk[w].item] = "ready"]
        /\ Goto(w, "published")
     \/ ~Owns(w) /\ Goto(w, "idle") /\ UNCHANGED item
     \/ Goto(w, "error") /\ UNCHANGED item
  /\ UNCHANGED <<job, retries>>

\* ingest() parses, replaces the version's chunks and publishes them at once.
Ingest(w) ==
  /\ wk[w].pc = "publish" /\ wk[w].item \in Versions
  /\ Published(w)

\* build() embeds the chunks of its versions and publishes the index; a version
\* that is not ready is an error.
Build(w) ==
  /\ wk[w].pc = "publish" /\ wk[w].item \in Releases
  /\ IF \A v \in Manifest[wk[w].item] : item[v] = "ready"
     THEN Published(w)
     ELSE Goto(w, "error") /\ UNCHANGED <<item, job, retries>>

Finish(w) ==
  /\ wk[w].pc = "finish"
  /\ job' = IF Owns(w)
              THEN [job EXCEPT ![wk[w].item] = Sent(@)] ELSE job
  /\ Goto(w, "idle")
  /\ UNCHANGED <<item, retries>>

\* The two transactions of the error path.
FinishError(w) ==
  /\ wk[w].pc = "error"
  /\ IF Owns(w)
       THEN /\ job' = [job EXCEPT ![wk[w].item] = Retried(@)]
            /\ wk' = [wk EXCEPT ![w].pc = "mark",
                                ![w].verdict = job'[wk[w].item].status]
       ELSE Goto(w, "idle") /\ UNCHANGED job
  /\ UNCHANGED <<item, retries>>

\* (mutant of Marked: the report does not look at the status)
MarkedAlways(i, verdict) == IF verdict = "dead" THEN "failed" ELSE Waiting(i)

Marked(i, verdict) ==
  IF item[i] = "ready" THEN "ready"
    ELSE IF verdict = "dead" THEN "failed" ELSE Waiting(i)

Mark(w) ==
  /\ wk[w].pc = "mark"
  /\ item' = [item EXCEPT ![wk[w].item] = Marked(wk[w].item, wk[w].verdict)]
  /\ Goto(w, "idle")
  /\ UNCHANGED <<job, retries>>

Crash(w) ==
  /\ wk[w].pc # "idle"
  /\ Goto(w, "idle")
  /\ UNCHANGED <<item, job, retries>>

LeaseExpires(i) ==
  /\ job[i].leased
  /\ job' = [job EXCEPT ![i] = Expired(@)]
  /\ UNCHANGED <<item, wk, retries>>

Step(w) ==
  \/ Sweep(w) \/ Read(w) \/ Checkpoint(w) \/ Ingest(w) \/ Build(w)
  \/ Finish(w) \/ FinishError(w) \/ Mark(w) \/ \E i \in Items : Claim(w, i)

Next ==
  \/ \E v \in Versions : ImportDocument(v)
  \/ \E r \in Releases : CreateRelease(r)
  \/ \E i \in Items : Retry(i) \/ LeaseExpires(i)
  \/ \E w \in Workers : Step(w) \/ Crash(w)

Spec == Init /\ [][Next]_vars

\* Worker processes poll for ever and a lease ends; nobody has to retry a job.
Fairness ==
  /\ \A w \in Workers : WF_vars(Step(w))
  /\ \A i \in Items : WF_vars(LeaseExpires(i))

-----------------------------------------------------------------------------

\* No step takes back what was published, although a worker that failed earlier
\* reports its failure after another has finished the job.
ReadyStays == \A i \in Items : item[i] = "ready" => item'[i] = "ready"

\* Every version and release that waits is ready or reported as failed in the
\* end: crashes, late reports and the gap between the two transactions of the
\* error path leave none queued or building for ever.
EveryImportEnds ==
  \A i \in Items : (item[i] = Waiting(i)) ~> (item[i] \in {"ready", "failed"})

=============================================================================
