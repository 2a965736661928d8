------------------------------ MODULE MCSettles ------------------------------
(***************************************************************************)
(* What is asked for is settled in the end: a small instance of RunQueue,  *)
(* of RefundDelivery and of KnowledgeJobs for TLC.  They share no          *)
(* variable; `part` chooses, once, which of them runs, and nothing that    *)
(* fairness speaks of is enabled in the initial states of the others.      *)
(***************************************************************************)
EXTENDS RunQueue

CONSTANTS r1, s1, w1, w2, o1, NoOp, document, index

VARIABLES part,
  op, case, out, job, prov, events, inbox, asked, sender, submitted,
  item, importJob, importer, retries

OneRun == {r1}
OneSession == {s1}
SameSession == [r \in Runs |-> s1]
WriteOnly == <<"write">>

D == INSTANCE RefundDelivery WITH
       Ops <- {o1}, OrderOf <- [o \in {o1} |-> "order"],
       OutboxAttempts <- 1, JobAttempts <- 1, MaxJob <- 0,
       wk <- sender, sent <- submitted

K == INSTANCE KnowledgeJobs WITH
       Versions <- {document}, Releases <- {index},
       Manifest <- [r \in {index} |-> {document}],
       JobAttempts <- 2, MaxRetries <- 0,
       job <- importJob, wk <- importer

refundVars == <<op, case, out, job, prov, events, inbox, asked, sender, submitted>>
importVars == <<item, importJob, importer, retries>>

MCInit ==
  /\ part \in {"runs", "refund", "import"}
  /\ Init /\ D!Init /\ K!Init

MCNext ==
  /\ \/ part = "runs" /\ Next /\ UNCHANGED <<refundVars, importVars>>
     \/ part = "refund" /\ D!Next /\ UNCHANGED <<vars, importVars>>
     \/ part = "import" /\ K!Next /\ UNCHANGED <<vars, refundVars>>
  /\ UNCHANGED part

MCSpec ==
  /\ MCInit /\ [][MCNext]_<<part, vars, refundVars, importVars>>
  /\ Fairness /\ D!Fairness /\ K!Fairness

\* A refund that was queued ends as succeeded, failed or handed to humans.
EventuallySettled == D!EventuallySettled

\* A document version and a release that wait are ready or failed in the end.
EveryImportEnds == K!EveryImportEnds

=============================================================================
