--------------------------- MODULE DeliveryProofs ---------------------------
(***************************************************************************)
(* The components of Platform whose work is done by workers under a lease: *)
(* what the import jobs have published stays published, the verdict on an  *)
(* inventory command is real and final, and retention never lets the token *)
(* that fences a plan's workers be given twice.                            *)
(***************************************************************************)
EXTENDS Platform, TLAPS

-----------------------------------------------------------------------------
(* The import jobs *)

ItemStates == {"none", "queued", "building", "ready", "failed"}
ImportPcs ==
  {"idle", "read", "work", "publish", "published", "finish", "error", "mark"}

LEMMA ImportMessages ==
  ASSUME NEW m \in Imports!Messages, NEW w \in Importers
  PROVE  /\ Imports!NewMessage(ImportAttempts) \in Imports!Messages
         /\ Imports!ClaimedBy(m, w) \in Imports!Messages
         /\ Imports!Sent(m) \in Imports!Messages
         /\ Imports!Retried(m) \in Imports!Messages
         /\ Imports!Retried(m).status \in {"pending", "dead"}
         /\ Imports!Expired(m) \in Imports!Messages
<1> USE ImportAssumption
<1>1. Imports!NewMessage(ImportAttempts) \in Imports!Messages
  BY DEF Imports!NewMessage, Imports!NoMessage, Imports!Messages
<1>2. Imports!ClaimedBy(m, w) \in Imports!Messages
  <2>1. m.fence + 1 \in Nat /\ m.attempt + 1 \in Nat
    BY DEF Imports!Messages
  <2>2. CASE m.attempt < m.max
    BY <2>1, <2>2 DEF Imports!ClaimedBy, Imports!Messages
  <2>3. CASE ~(m.attempt < m.max)
    BY <2>3 DEF Imports!ClaimedBy, Imports!Messages
  <2>4. QED
    BY <2>2, <2>3
<1>3. Imports!Sent(m) \in Imports!Messages /\ Imports!Expired(m) \in Imports!Messages
  BY DEF Imports!Sent, Imports!Expired, Imports!Messages
<1>4. /\ Imports!Retried(m) \in Imports!Messages
      /\ Imports!Retried(m).status \in {"pending", "dead"}
  BY DEF Imports!Retried, Imports!Messages
<1>5. QED
  BY <1>1, <1>2, <1>3, <1>4

LEMMA NoWorkTyped == Imports!NoWork \in Imports!WorkerStates
<1>1. (CHOOSE i \in Imports!Items : TRUE) \in Imports!Items
  BY ImportAssumption DEF Imports!Items
<1>2. QED
  BY <1>1 DEF Imports!NoWork, Imports!WorkerStates

LEMMA WaitingTyped == \A i : Imports!Waiting(i) \in ItemStates \ {"ready"}
BY DEF Imports!Waiting, ItemStates

LEMMA ImportInit == Imports!Init => Imports!TypeOK
<1> SUFFICES ASSUME Imports!Init PROVE Imports!TypeOK
  OBVIOUS
<1>1. Imports!NoMessage \in Imports!Messages
  BY DEF Imports!NoMessage, Imports!Messages
<1>2. QED
  BY <1>1, NoWorkTyped, ImportAssumption DEF Imports!Init, Imports!TypeOK

LEMMA ImporterTyped ==
  ASSUME Imports!TypeOK, NEW w \in Importers
  PROVE  /\ importer[w] \in Imports!WorkerStates
         /\ importer[w].item \in Imports!Items
         /\ importer[w].verdict \in {"", "pending", "dead"}
         /\ importJob[importer[w].item] \in Imports!Messages
BY DEF Imports!TypeOK, Imports!WorkerStates

LEMMA ImporterMoves ==
  ASSUME Imports!TypeOK, NEW w \in Importers, NEW pc \in ImportPcs,
         Imports!Goto(w, pc)
  PROVE  importer' \in [Importers -> Imports!WorkerStates]
<1>1. [importer[w] EXCEPT !.pc = pc] \in Imports!WorkerStates
  BY ImporterTyped DEF ImportPcs, Imports!WorkerStates
<1>2. QED
  BY <1>1, NoWorkTyped DEF Imports!Goto, Imports!TypeOK

\* A step that leaves the jobs typed and changes no item keeps the types, and
\* so does one that changes a single item.
LEMMA ItemStep ==
  ASSUME Imports!TypeOK, NEW i \in Imports!Items, NEW s \in ItemStates,
         item' = [item EXCEPT ![i] = s], item[i] = "ready" => s = "ready"
  PROVE  item' \in [Imports!Items -> ItemStates] /\ Imports!ReadyStays
BY DEF Imports!TypeOK, ItemStates, Imports!ReadyStays

LEMMA ItemStill ==
  ASSUME Imports!TypeOK, UNCHANGED item
  PROVE  item' \in [Imports!Items -> ItemStates] /\ Imports!ReadyStays
BY DEF Imports!TypeOK, ItemStates, Imports!ReadyStays

LEMMA ImportAssemble ==
  ASSUME item' \in [Imports!Items -> ItemStates], Imports!ReadyStays,
         importJob' \in [Imports!Items -> Imports!Messages],
         importer' \in [Importers -> Imports!WorkerStates],
         importRetries' \in 0 .. MaxImportRetries
  PROVE  Imports!TypeOK' /\ Imports!ReadyStays
BY DEF Imports!TypeOK, ItemStates

LEMMA ImportNext ==
  ASSUME Imports!TypeOK, Imports!Next
  PROVE  Imports!TypeOK' /\ Imports!ReadyStays
<1> USE ImportAssumption
<1> DEFINE JobsTyped == importJob' \in [Imports!Items -> Imports!Messages]
           WorkersTyped == importer' \in [Importers -> Imports!WorkerStates]
           ItemsTyped == item' \in [Imports!Items -> ItemStates]
<1>0. /\ importRetries \in 0 .. MaxImportRetries
      /\ UNCHANGED importJob => JobsTyped
      /\ UNCHANGED importer => WorkersTyped
  BY DEF Imports!TypeOK
<1>1. ASSUME NEW i \in Imports!Items, Imports!Enqueued(i)
      PROVE  Imports!TypeOK' /\ Imports!ReadyStays
  <2>1. JobsTyped
    BY <1>1, ImportMessages DEF Imports!Enqueued, Imports!TypeOK, Imports!NewMessage,
       Imports!NoMessage, Imports!Messages
  <2>2. ItemsTyped /\ Imports!ReadyStays
    BY <1>1, ItemStep, WaitingTyped DEF Imports!Enqueued
  <2>3. QED
    BY <1>0, <1>1, <2>1, <2>2, ImportAssemble DEF Imports!Enqueued
<1>2. ASSUME NEW i \in Imports!Items, Imports!Retry(i)
      PROVE  Imports!TypeOK' /\ Imports!ReadyStays
  <2>1. importJob[i] \in Imports!Messages /\ importJob[i].fence + 1 \in Nat
    BY DEF Imports!TypeOK, Imports!Messages
  <2>2. JobsTyped
    <3>1. Imports!Revived(importJob[i]) \in Imports!Messages
      BY <2>1 DEF Imports!Revived, Imports!Messages
    <3>2. QED
      BY <1>2, <3>1 DEF Imports!Retry, Imports!TypeOK
  <2>3. ItemsTyped /\ Imports!ReadyStays
    <3> DEFINE s == IF item[i] = "failed" THEN Imports!Waiting(i) ELSE item[i]
    <3>1. s \in ItemStates
      BY WaitingTyped DEF Imports!TypeOK, ItemStates
    <3>2. item[i] = "ready" => s = "ready"
      OBVIOUS
    <3>3. item' = [item EXCEPT ![i] = s]
      BY <1>2 DEF Imports!Retry
    <3> HIDE DEF s
    <3>4. QED
      BY <3>1, <3>2, <3>3, ItemStep
  <2>4. importRetries' \in 0 .. MaxImportRetries
    BY <1>0, <1>2 DEF Imports!Retry
  <2>5. QED
    BY <1>0, <1>2, <2>2, <2>3, <2>4, ImportAssemble DEF Imports!Retry
<1>3. ASSUME NEW i \in Imports!Items, Imports!LeaseExpires(i)
      PROVE  Imports!TypeOK' /\ Imports!ReadyStays
  <2>1. JobsTyped
    BY <1>3 DEF Imports!LeaseExpires, Imports!TypeOK, Imports!Messages, Imports!Expired
  <2>2. QED
    BY <1>0, <1>3, <2>1, ItemStill, ImportAssemble DEF Imports!LeaseExpires
<1>4. ASSUME NEW w \in Importers, NEW i \in Imports!Items, Imports!Claim(w, i)
      PROVE  Imports!TypeOK' /\ Imports!ReadyStays
  <2>1. Imports!ClaimedBy(importJob[i], w) \in Imports!Messages
    BY ImportMessages DEF Imports!TypeOK
  <2>2. JobsTyped
    BY <1>4, <2>1 DEF Imports!Claim, Imports!TypeOK
  <2>3. importJob'[i].fence \in Nat
    BY <2>2 DEF Imports!Messages
  <2>4. WorkersTyped
    BY <1>4, <2>3, NoWorkTyped DEF Imports!Claim, Imports!TypeOK, Imports!WorkerStates
  <2>5. QED
    BY <1>0, <1>4, <2>2, <2>4, ItemStill, ImportAssemble DEF Imports!Claim
<1>5. ASSUME NEW w \in Importers, Imports!Sweep(w)
      PROVE  Imports!TypeOK' /\ Imports!ReadyStays
  <2>1. ItemsTyped /\ Imports!ReadyStays
    BY <1>5 DEF Imports!Sweep, Imports!Swept, Imports!TypeOK, ItemStates,
       Imports!ReadyStays
  <2>2. QED
    BY <1>0, <1>5, <2>1, ImportAssemble DEF Imports!Sweep
<1>6. ASSUME NEW w \in Importers, Imports!Read(w)
      PROVE  Imports!TypeOK' /\ Imports!ReadyStays
  <2>1. WorkersTyped
    BY <1>6, ImporterMoves DEF Imports!Read, ImportPcs
  <2>2. QED
    BY <1>0, <1>6, <2>1, ItemStill, ImportAssemble DEF Imports!Read
<1>7. ASSUME NEW w \in Importers, Imports!Checkpoint(w)
      PROVE  Imports!TypeOK' /\ Imports!ReadyStays
  <2>1. WorkersTyped
    BY <1>7, ImporterMoves DEF Imports!Checkpoint, ImportPcs
  <2>2. JobsTyped
    <3>1. \/ importJob' = [importJob EXCEPT ![importer[w].item].leased = TRUE]
          \/ UNCHANGED importJob
      BY <1>7 DEF Imports!Checkpoint
    <3>2. [importJob[importer[w].item] EXCEPT !.leased = TRUE] \in Imports!Messages
      BY ImporterTyped DEF Imports!Messages
    <3>3. QED
      BY <1>0, <3>1, <3>2, ImporterTyped DEF Imports!TypeOK
  <2>3. QED
    BY <1>0, <1>7, <2>1, <2>2, ItemStill, ImportAssemble DEF Imports!Checkpoint
<1>8. ASSUME NEW w \in Importers, Imports!Published(w)
      PROVE  Imports!TypeOK' /\ Imports!ReadyStays
  <2>1. WorkersTyped
    BY <1>8, ImporterMoves DEF Imports!Published, ImportPcs
  <2>2. ItemsTyped /\ Imports!ReadyStays
    <3>1. \/ item' = [item EXCEPT ![importer[w].item] = "ready"]
          \/ UNCHANGED item
      BY <1>8 DEF Imports!Published
    <3>2. "ready" \in ItemStates
      BY DEF ItemStates
    <3>3. QED
      BY <3>1, <3>2, ItemStep, ItemStill, ImporterTyped
  <2>3. QED
    BY <1>0, <1>8, <2>1, <2>2, ImportAssemble DEF Imports!Published
<1>9. ASSUME NEW w \in Importers, Imports!Build(w)
      PROVE  Imports!TypeOK' /\ Imports!ReadyStays
  <2>1. CASE Imports!Published(w)
    BY <1>8, <2>1
  <2>2. CASE Imports!Goto(w, "error") /\ UNCHANGED <<item, importJob, importRetries>>
    <3>1. WorkersTyped
      BY <2>2, ImporterMoves DEF ImportPcs
    <3>2. QED
      BY <1>0, <2>2, <3>1, ItemStill, ImportAssemble
  <2>3. QED
    BY <1>9, <2>1, <2>2 DEF Imports!Build
<1>10. ASSUME NEW w \in Importers, Imports!Finish(w)
       PROVE  Imports!TypeOK' /\ Imports!ReadyStays
  <2>1. WorkersTyped
    BY <1>10, ImporterMoves DEF Imports!Finish, ImportPcs
  <2>2. JobsTyped
    BY <1>10, ImporterTyped, ImportMessages DEF Imports!Finish, Imports!TypeOK
  <2>3. QED
    BY <1>0, <1>10, <2>1, <2>2, ItemStill, ImportAssemble DEF Imports!Finish
<1>11. ASSUME NEW w \in Importers, Imports!FinishError(w)
       PROVE  Imports!TypeOK' /\ Imports!ReadyStays
  <2>1. CASE ~Imports!Owns(w)
    <3>1. WorkersTyped
      BY <1>11, <2>1, ImporterMoves DEF Imports!FinishError, ImportPcs
    <3>2. QED
      BY <1>0, <1>11, <2>1, <3>1, ItemStill, ImportAssemble DEF Imports!FinishError
  <2>2. CASE Imports!Owns(w)
    <3> DEFINE i == importer[w].item
    <3>1. i \in Imports!Items /\ importJob[i] \in Imports!Messages
      BY ImporterTyped
    <3>2. importJob' = [importJob EXCEPT ![i] = Imports!Retried(importJob[i])]
      BY <1>11, <2>2 DEF Imports!FinishError
    <3>3. JobsTyped /\ importJob'[i].status \in {"pending", "dead"}
      BY <3>1, <3>2, ImportMessages DEF Imports!TypeOK
    <3>4. importer' = [importer EXCEPT ![w].pc = "mark",
                                       ![w].verdict = importJob'[i].status]
      BY <1>11, <2>2 DEF Imports!FinishError
    <3>5. ASSUME NEW v \in {"", "pending", "dead"},
                 importer' = [importer EXCEPT ![w].pc = "mark", ![w].verdict = v]
          PROVE  WorkersTyped
      BY <3>5, ImporterTyped DEF Imports!TypeOK, Imports!WorkerStates
    <3>6. WorkersTyped
      BY <3>3, <3>4, <3>5
    <3>7. QED
      BY <1>0, <1>11, <3>3, <3>6, ItemStill, ImportAssemble DEF Imports!FinishError
  <2>3. QED
    BY <2>1, <2>2
<1>12. ASSUME NEW w \in Importers, Imports!Mark(w)
       PROVE  Imports!TypeOK' /\ Imports!ReadyStays
  <2>1. WorkersTyped
    BY <1>12, ImporterMoves DEF Imports!Mark, ImportPcs
  <2>2. ItemsTyped /\ Imports!ReadyStays
    <3> DEFINE i == importer[w].item
               s == Imports!Marked(i, importer[w].verdict)
    <3>1. s \in ItemStates /\ (item[i] = "ready" => s = "ready")
      BY WaitingTyped DEF Imports!Marked, ItemStates
    <3>2. item' = [item EXCEPT ![i] = s]
      BY <1>12 DEF Imports!Mark
    <3> HIDE DEF s
    <3>3. QED
      BY <3>1, <3>2, ItemStep, ImporterTyped
  <2>3. QED
    BY <1>0, <1>12, <2>1, <2>2, ImportAssemble DEF Imports!Mark
<1>13. ASSUME NEW w \in Importers, Imports!Crash(w)
       PROVE  Imports!TypeOK' /\ Imports!ReadyStays
  <2>1. WorkersTyped
    BY <1>13, ImporterMoves DEF Imports!Crash, ImportPcs
  <2>2. QED
    BY <1>0, <1>13, <2>1, ItemStill, ImportAssemble DEF Imports!Crash
<1>14. QED
  BY <1>1, <1>2, <1>3, <1>4, <1>5, <1>6, <1>7, <1>8, <1>9, <1>10, <1>11, <1>12,
     <1>13
  DEF Imports!Next, Imports!Step, Imports!ImportDocument, Imports!CreateRelease,
      Imports!Ingest, Imports!Items

\* KnowledgeJobs: no step takes back what was published.
LEMMA PublishedStays ==
  Imports!Spec => [][Imports!ReadyStays]_<<item, importJob, importer, importRetries>>
<1>1. Imports!TypeOK /\ [Imports!Next]_Imports!vars => Imports!TypeOK'
  <2>1. CASE UNCHANGED Imports!vars
    BY <2>1 DEF Imports!vars, Imports!TypeOK
  <2>2. QED
    BY <2>1, ImportNext
<1>2. /\ Imports!TypeOK
      /\ [Imports!Next]_Imports!vars
      => [Imports!ReadyStays]_<<item, importJob, importer, importRetries>>
  BY ImportNext DEF Imports!vars
<1>3. QED
  BY ImportInit, <1>1, <1>2, PTL DEF Imports!Spec

-----------------------------------------------------------------------------
(* The inventory commands *)

StockPcs ==
  {"idle", "look", "query", "owned", "send", "record", "finish", "fail", "retry"}

\* What the operations of the queue do to a job.
LEMMA StockMessages ==
  ASSUME NEW m \in Inventory!Messages, NEW w \in StockWorkers
  PROVE  /\ Inventory!NewMessage(StockAttempts) \in Inventory!Messages
         /\ Inventory!ClaimedBy(m, w) \in Inventory!Messages
         /\ m.attempt >= m.max => Inventory!ClaimedBy(m, w).status = "dead"
         /\ Inventory!ClaimedBy(m, w).status \in {"running", "dead"}
         /\ Inventory!Sent(m) \in Inventory!Messages
         /\ Inventory!Sent(m).status = "sent"
         /\ Inventory!Retried(m) \in Inventory!Messages
         /\ m.attempt >= m.max => Inventory!Retried(m).status = "dead"
         /\ Inventory!Retried(m).status \in {"pending", "dead"}
         /\ Inventory!Expired(m) \in Inventory!Messages
         /\ Inventory!Expired(m).status = m.status
         /\ Inventory!Expired(m).attempt = m.attempt
         /\ Inventory!Expired(m).max = m.max
         /\ ~Inventory!Expired(m).leased
<1> USE InventoryAssumption
<1>0. /\ m.attempt \in Nat /\ m.max \in Nat
      /\ m.fence + 1 \in Nat /\ m.attempt + 1 \in Nat
  BY DEF Inventory!Messages
<1>1. Inventory!NewMessage(StockAttempts) \in Inventory!Messages
  BY DEF Inventory!NewMessage, Inventory!NoMessage, Inventory!Messages
<1>2. CASE m.attempt < m.max
  <2>1. ~(m.attempt >= m.max)
    BY <1>0, <1>2
  <2>2. /\ Inventory!ClaimedBy(m, w) \in Inventory!Messages
        /\ Inventory!ClaimedBy(m, w).status = "running"
    BY <1>0, <1>2 DEF Inventory!ClaimedBy, Inventory!Messages
  <2>3. /\ Inventory!Retried(m) \in Inventory!Messages
        /\ Inventory!Retried(m).status = "pending"
    BY <2>1 DEF Inventory!Retried, Inventory!Messages
  <2>4. QED
    BY <1>1, <2>1, <2>2, <2>3
       DEF Inventory!Sent, Inventory!Expired, Inventory!Messages
<1>3. CASE ~(m.attempt < m.max)
  <2>1. m.attempt >= m.max
    BY <1>0, <1>3
  <2>2. /\ Inventory!ClaimedBy(m, w) \in Inventory!Messages
        /\ Inventory!ClaimedBy(m, w).status = "dead"
    BY <1>3 DEF Inventory!ClaimedBy, Inventory!Messages
  <2>3. /\ Inventory!Retried(m) \in Inventory!Messages
        /\ Inventory!Retried(m).status = "dead"
    BY <2>1 DEF Inventory!Retried, Inventory!Messages
  <2>4. QED
    BY <1>1, <2>2, <2>3
       DEF Inventory!Sent, Inventory!Expired, Inventory!Messages
<1>4. QED
  BY <1>2, <1>3

\* The parts of the state that the arguments below use.
LEMMA StockTypes ==
  ASSUME Inventory!TypeOK, NEW w \in StockWorkers, NEW o \in Inventory!Ops
  PROVE  /\ stockWorker[w] \in Inventory!WorkerStates
         /\ stockWorker[w].op \in Inventory!Ops
         /\ stockWorker[w].pc \in StockPcs
         /\ stockJob[o] \in Inventory!Messages
         /\ Inventory!Key(o) \in Reserves
         /\ o \in Releases => SourceOf[o] \in Reserves /\ o \notin Reserves
         /\ o \in Reserves => Inventory!Key(o) = o
         /\ o \in Releases => Inventory!Key(o) = SourceOf[o]
         /\ o \notin Reserves => o \in Releases
BY InventoryAssumption
   DEF Inventory!TypeOK, Inventory!WorkerStates, StockPcs, Inventory!Ops, Inventory!Key

\* A worker that moves keeps its command and its fence.
LEMMA StockMoves ==
  ASSUME Inventory!TypeOK, NEW w \in StockWorkers, NEW pc \in StockPcs,
         Inventory!Goto(w, pc)
  PROVE  /\ stockWorker' \in [StockWorkers -> Inventory!WorkerStates]
         /\ stockWorker'[w].pc = pc
         /\ \A v \in StockWorkers : /\ stockWorker'[v].op = stockWorker[v].op
                                    /\ stockWorker'[v].fence = stockWorker[v].fence
                                    /\ v # w => stockWorker'[v] = stockWorker[v]
BY DEF Inventory!TypeOK, Inventory!Goto, Inventory!WorkerStates, StockPcs

LEMMA InventoryInit == Inventory!Init => Inventory!IInv
<1> SUFFICES ASSUME Inventory!Init PROVE Inventory!IInv
  OBVIOUS
<1> USE InventoryAssumption DEF Inventory!Init
<1>1. Inventory!NoMessage \in Inventory!Messages /\ Inventory!NoMessage.status = "none"
  BY DEF Inventory!NoMessage, Inventory!Messages
<1>2. (CHOOSE o \in Inventory!Ops : TRUE) \in Inventory!Ops
  BY DEF Inventory!Ops
<1>3. stockWorker \in [StockWorkers -> Inventory!WorkerStates]
  BY <1>2 DEF Inventory!WorkerStates
<1>4. 1 \in 1 .. MaxConnector /\ 0 \in 0 .. MaxConnector
  OBVIOUS
<1>5. Inventory!TypeOK
  BY <1>1, <1>3, <1>4 DEF Inventory!TypeOK
<1>6. \A k \in Reserves : Inventory!ShopOK(k)
  BY DEF Inventory!ShopOK
<1>7. \A o \in Inventory!Ops : Inventory!OpOK(o) /\ Inventory!HandedOK(o)
  BY <1>1 DEF Inventory!OpOK, Inventory!HandedOK
<1>8. \A w \in StockWorkers : stockWorker[w].pc = "idle"
  OBVIOUS
<1>9. \A w \in StockWorkers : Inventory!WorkerOK(w)
  BY <1>8 DEF Inventory!WorkerOK
<1>10. QED
  BY <1>5, <1>6, <1>7, <1>9 DEF Inventory!IInv

\* A step that changes neither the shop nor an operation: what was done stays
\* done and what succeeded has succeeded.
LEMMA StockQuiet ==
  ASSUME Inventory!IInv, Inventory!TypeOK',
         UNCHANGED <<stockOp, reservation, made>>,
         \A o \in Inventory!Ops : Inventory!HandedOK(o)',
         \A o \in Inventory!Ops : stockAction'[o].state # "completed" =>
           stockAction[o].state # "completed" /\ stockJob'[o].status = stockJob[o].status,
         \A w \in StockWorkers :
           stockWorker'[w] = stockWorker[w] \/ Inventory!WorkerOK(w)'
  PROVE  Inventory!IInv' /\ Inventory!VerdictStays
<1> USE DEF Inventory!IInv
<1>1. \A k \in Reserves : Inventory!ShopOK(k)'
  BY DEF Inventory!ShopOK
<1>2. \A o \in Inventory!Ops : Inventory!Done(o)' <=> Inventory!Done(o)
  BY DEF Inventory!Done
<1>3. \A o \in Inventory!Ops : Inventory!OpOK(o)'
  BY <1>2 DEF Inventory!OpOK
<1>4. ASSUME NEW w \in StockWorkers PROVE Inventory!WorkerOK(w)'
  <2>1. CASE stockWorker'[w] = stockWorker[w]
    <3> DEFINE o == stockWorker[w].op
    <3>1. o \in Inventory!Ops /\ stockWorker'[w].op = o
      BY <2>1 DEF Inventory!TypeOK, Inventory!WorkerStates
    <3>2. Inventory!WorkerOK(w)
      OBVIOUS
    <3>3. Inventory!Done(stockWorker[w].op)' <=> Inventory!Done(o)
      BY <2>1, <3>1 DEF Inventory!Done
    <3>4. QED
      BY <2>1, <3>1, <3>2, <3>3 DEF Inventory!WorkerOK
  <2>2. QED
    BY <2>1
<1>5. Inventory!VerdictStays
  BY DEF Inventory!VerdictStays
<1>6. QED
  BY <1>1, <1>3, <1>4, <1>5

\* A worker that moves within its work owns no command that was handed over.
LEMMA MoveKeepsHanded ==
  ASSUME Inventory!IInv, NEW w \in StockWorkers, NEW pc \in StockPcs,
         Inventory!Goto(w, pc), UNCHANGED <<stockOp, stockJob>>,
         pc = "idle" \/ stockWorker[w].pc \notin {"idle", "retry"}
  PROVE  \A o \in Inventory!Ops : Inventory!HandedOK(o)'
<1> SUFFICES ASSUME NEW o \in Inventory!Ops, stockOp[o] = "needs_reconciliation"
             PROVE  Inventory!HandedOK(o)'
  BY DEF Inventory!HandedOK
<1>1. Inventory!HandedOK(o) /\ Inventory!TypeOK
  BY DEF Inventory!IInv
<1>2. ASSUME NEW v \in StockWorkers, stockWorker'[v].op = o, Inventory!Owns(v)'
      PROVE  stockWorker'[v].pc \in {"idle", "retry"}
  <2>1. stockWorker[v].op = o /\ Inventory!Owns(v)
    BY <1>1, <1>2, StockMoves DEF Inventory!Owns
  <2>2. stockWorker[v].pc \in {"idle", "retry"}
    BY <1>1, <2>1 DEF Inventory!HandedOK
  <2>3. QED
    BY <1>1, <2>2, StockMoves
<1>3. QED
  BY <1>1, <1>2 DEF Inventory!HandedOK

\* A move to where nothing has to be known.
LEMMA StockMoveStep ==
  ASSUME Inventory!IInv, NEW w \in StockWorkers, NEW pc \in StockPcs,
         Inventory!Goto(w, pc),
         UNCHANGED <<stockAction, stockOp, stockJob, reservation, made>>,
         connector' \in [version: 1 .. MaxConnector, active: BOOLEAN, drifted: BOOLEAN],
         pc = "idle" \/ stockWorker[w].pc \notin {"idle", "retry"},
         pc = "record" => Inventory!Done(stockWorker[w].op),
         pc = "finish" => stockOp[stockWorker[w].op] = "succeeded"
  PROVE  Inventory!IInv' /\ Inventory!VerdictStays
<1>1. Inventory!TypeOK
  BY DEF Inventory!IInv
<1>2. Inventory!TypeOK'
  BY <1>1, StockMoves DEF Inventory!TypeOK
<1>3. Inventory!WorkerOK(w)'
  BY <1>1, StockMoves DEF Inventory!WorkerOK, Inventory!Done
<1>4. \A v \in StockWorkers :
        stockWorker'[v] = stockWorker[v] \/ Inventory!WorkerOK(v)'
  BY <1>1, <1>3, StockMoves
<1>5. QED
  BY <1>2, <1>4, MoveKeepsHanded, StockQuiet

\* A step that touches no worker, job or operation.
LEMMA StockStill ==
  ASSUME Inventory!IInv, Inventory!TypeOK',
         UNCHANGED <<stockOp, stockJob, stockWorker, reservation, made>>,
         \A o \in Inventory!Ops : stockAction'[o].state # "completed" =>
           stockAction[o].state # "completed"
  PROVE  Inventory!IInv' /\ Inventory!VerdictStays
<1>1. \A o \in Inventory!Ops : Inventory!HandedOK(o)'
  BY DEF Inventory!IInv, Inventory!HandedOK, Inventory!Owns
<1>2. QED
  BY <1>1, StockQuiet

LEMMA ProposeStep ==
  ASSUME Inventory!IInv, NEW o \in Inventory!Ops,
         Inventory!Propose(o) \/ Inventory!Confirm(o)
  PROVE  Inventory!IInv' /\ Inventory!VerdictStays
<1>1. Inventory!TypeOK
  BY DEF Inventory!IInv
<1>2. CASE Inventory!Propose(o)
  <2>1. connector.version \in 0 .. MaxConnector
    BY <1>1, InventoryAssumption DEF Inventory!TypeOK
  <2>2. Inventory!TypeOK'
    BY <1>1, <1>2, <2>1 DEF Inventory!Propose, Inventory!TypeOK
  <2>3. QED
    BY <1>1, <1>2, <2>2, StockStill DEF Inventory!Propose, Inventory!TypeOK
<1>3. CASE Inventory!Confirm(o)
  <2>1. Inventory!TypeOK'
    BY <1>1, <1>3 DEF Inventory!Confirm, Inventory!TypeOK
  <2>2. QED
    BY <1>1, <1>3, <2>1, StockStill DEF Inventory!Confirm, Inventory!TypeOK
<1>4. QED
  BY <1>2, <1>3

LEMMA ConnectorStep ==
  ASSUME Inventory!IInv, Inventory!Register \/ Inventory!Drift
  PROVE  Inventory!IInv' /\ Inventory!VerdictStays
<1>1. Inventory!TypeOK
  BY DEF Inventory!IInv
<1>2. connector.version + 1 \in 1 .. MaxConnector \/ connector.version >= MaxConnector
  BY <1>1, InventoryAssumption DEF Inventory!TypeOK
<1>3. Inventory!TypeOK'
  <2>1. connector' \in [version: 1 .. MaxConnector, active: BOOLEAN, drifted: BOOLEAN]
    <3>1. CASE Inventory!Register
      <4>1. connector.version + 1 \in 1 .. MaxConnector
        BY <1>1, <3>1, InventoryAssumption DEF Inventory!Register, Inventory!TypeOK
      <4>2. QED
        BY <3>1, <4>1 DEF Inventory!Register
    <3>2. CASE Inventory!Drift
      BY <1>1, <3>2 DEF Inventory!Drift, Inventory!TypeOK
    <3>3. QED
      BY <3>1, <3>2
  <2>2. QED
    BY <1>1, <2>1 DEF Inventory!TypeOK, Inventory!Register, Inventory!Drift
<1>4. UNCHANGED <<stockAction, stockOp, stockJob, stockWorker, reservation, made>>
  BY DEF Inventory!Register, Inventory!Drift
<1>5. QED
  BY <1>3, <1>4, StockStill

LEMMA ExpiryStep ==
  ASSUME Inventory!IInv, NEW o \in Inventory!Ops, Inventory!LeaseExpires(o)
  PROVE  Inventory!IInv' /\ Inventory!VerdictStays
<1>1. Inventory!TypeOK /\ stockJob[o] \in Inventory!Messages
  BY DEF Inventory!IInv, Inventory!TypeOK
<1>2. /\ stockJob' = [stockJob EXCEPT ![o] = Inventory!Expired(stockJob[o])]
      /\ UNCHANGED <<connector, stockAction, stockOp, stockWorker, reservation, made>>
  BY DEF Inventory!LeaseExpires
<1> DEFINE m == stockJob[o]
           x == Inventory!Expired(stockJob[o])
<1>3. /\ x \in Inventory!Messages /\ x.status = m.status
      /\ x.attempt = m.attempt /\ x.max = m.max /\ ~x.leased
  BY <1>1 DEF Inventory!Expired, Inventory!Messages
<1> HIDE DEF x
<1>4. Inventory!TypeOK'
  BY <1>1, <1>2, <1>3 DEF Inventory!TypeOK, x
<1>5. /\ stockJob'[o] = x
      /\ \A p \in Inventory!Ops : p # o => stockJob'[p] = stockJob[p]
  BY <1>1, <1>2 DEF Inventory!TypeOK, x
<1>6. ASSUME NEW p \in Inventory!Ops PROVE Inventory!HandedOK(p)'
  <2>1. Inventory!HandedOK(p)
    BY DEF Inventory!IInv
  <2>2. CASE p = o
    BY <1>2, <1>3, <1>5, <2>1, <2>2
       DEF Inventory!HandedOK, Inventory!Owns, Inventory!OwnedBy
  <2>3. CASE p # o
    BY <1>2, <1>5, <2>1, <2>3 DEF Inventory!HandedOK, Inventory!Owns
  <2>4. QED
    BY <2>2, <2>3
<1>7. \A p \in Inventory!Ops : stockJob'[p].status = stockJob[p].status
  BY <1>3, <1>5
<1>8. QED
  BY <1>2, <1>4, <1>6, <1>7, StockQuiet

ShopStates == {"not_found", "reserved", "released"}

\* What the worker makes of the shop's answer.
LEMMA AnswerMeans ==
  ASSUME NEW o \in Inventory!Ops, NEW status \in ShopStates
  PROVE  /\ Inventory!AfterQuery(o, status) \in {"owned", "record", "fail"}
         /\ Inventory!AfterQuery(o, status) = "record" =>
              \/ o \in Reserves /\ status = "reserved"
              \/ o \in Releases /\ status = "released"
<1>1. o \in Reserves => o \notin Releases
  BY InventoryAssumption
<1>2. CASE o \in Reserves
  BY <1>1, <1>2 DEF Inventory!AfterQuery, ShopStates
<1>3. CASE o \in Releases
  BY <1>1, <1>3 DEF Inventory!AfterQuery, ShopStates
<1>4. QED
  BY <1>2, <1>3 DEF Inventory!Ops

LEMMA WorkStep ==
  ASSUME Inventory!IInv, NEW w \in StockWorkers,
         \/ Inventory!Look(w) \/ Inventory!Query(w)
         \/ Inventory!CheckOwned(w) \/ Inventory!Crash(w)
  PROVE  Inventory!IInv' /\ Inventory!VerdictStays
<1> DEFINE o == stockWorker[w].op
           ConnectorTyped ==
             connector' \in [version: 1 .. MaxConnector, active: BOOLEAN,
                             drifted: BOOLEAN]
<1>1. Inventory!TypeOK /\ o \in Inventory!Ops
  BY DEF Inventory!IInv, Inventory!TypeOK, Inventory!WorkerStates
<1>2. CASE Inventory!Look(w)
  <2>1. ConnectorTyped
    BY <1>1, <1>2 DEF Inventory!Look, Inventory!TypeOK
  <2>2. \/ Inventory!Goto(w, "finish") /\ stockOp[o] = "succeeded"
        \/ Inventory!Goto(w, "fail") \/ Inventory!Goto(w, "query")
    BY <1>2 DEF Inventory!Look
  <2>3. /\ UNCHANGED <<stockAction, stockOp, stockJob, reservation, made>>
        /\ stockWorker[w].pc = "look"
    BY <1>2 DEF Inventory!Look
  <2>4. QED
    BY <2>1, <2>2, <2>3, StockMoveStep DEF StockPcs
<1>3. CASE Inventory!Query(w)
  <2> DEFINE a == Inventory!AfterQuery(o, reservation[Inventory!Key(o)])
  <2>1. ConnectorTyped
    BY <1>1, <1>3 DEF Inventory!Query, Inventory!TypeOK
  <2>2. /\ UNCHANGED <<stockAction, stockOp, stockJob, reservation, made>>
        /\ stockWorker[w].pc = "query"
        /\ Inventory!Goto(w, a) \/ Inventory!Goto(w, "fail")
    BY <1>3 DEF Inventory!Query
  <2>3. reservation[Inventory!Key(o)] \in ShopStates
    BY <1>1, StockTypes DEF Inventory!TypeOK, ShopStates
  <2>4. a \in {"owned", "record", "fail"} /\ (a = "record" => Inventory!Done(o))
    BY <1>1, <2>3, AnswerMeans, StockTypes DEF Inventory!Done
  <2> HIDE DEF a
  <2>5. a \in StockPcs /\ "fail" \in StockPcs /\ a # "finish"
    BY <2>4 DEF StockPcs
  <2>6. CASE Inventory!Goto(w, a)
    BY <2>1, <2>2, <2>4, <2>5, <2>6, StockMoveStep
  <2>7. CASE Inventory!Goto(w, "fail")
    BY <2>1, <2>2, <2>5, <2>7, StockMoveStep
  <2>8. QED
    BY <2>2, <2>6, <2>7
<1>4. CASE Inventory!CheckOwned(w)
  <2>1. ConnectorTyped
    BY <1>1, <1>4 DEF Inventory!CheckOwned, Inventory!TypeOK
  <2>2. /\ Inventory!Goto(w, "send") \/ Inventory!Goto(w, "idle")
        /\ UNCHANGED <<stockAction, stockOp, stockJob, reservation, made>>
        /\ stockWorker[w].pc = "owned"
    BY <1>4 DEF Inventory!CheckOwned
  <2>3. QED
    BY <2>1, <2>2, StockMoveStep DEF StockPcs
<1>5. CASE Inventory!Crash(w)
  <2>1. ConnectorTyped
    BY <1>1, <1>5 DEF Inventory!Crash, Inventory!TypeOK
  <2>2. QED
    BY <1>5, <2>1, StockMoveStep DEF Inventory!Crash, StockPcs
<1>6. QED
  BY <1>2, <1>3, <1>4, <1>5

\* A job that was handed over is dead once its lease has run out.
LEMMA ClaimStep ==
  ASSUME Inventory!IInv, NEW w \in StockWorkers, NEW o \in Inventory!Ops,
         Inventory!Claim(w, o)
  PROVE  Inventory!IInv' /\ Inventory!VerdictStays
<1> DEFINE m == stockJob[o]
           c == Inventory!ClaimedBy(stockJob[o], w)
           n == [pc |-> IF c.status = "running" THEN "look" ELSE "idle",
                 op |-> o, fence |-> c.fence]
<1>1. Inventory!TypeOK /\ m \in Inventory!Messages
  BY DEF Inventory!IInv, Inventory!TypeOK
<1>2. /\ c \in Inventory!Messages /\ c.status \in {"running", "dead"}
      /\ m.attempt >= m.max => c.status = "dead"
  BY <1>1, StockMessages
<1>3. /\ stockJob' = [stockJob EXCEPT ![o] = c]
      /\ stockJob'[o] = c
      /\ \A p \in Inventory!Ops : p # o => stockJob'[p] = stockJob[p]
  BY <1>1 DEF Inventory!Claim, Inventory!TypeOK
<1>4. /\ UNCHANGED <<connector, stockAction, stockOp, reservation, made>>
      /\ Inventory!Claimable(m)
  BY DEF Inventory!Claim
<1>5. /\ stockWorker' = [stockWorker EXCEPT ![w] = n]
      /\ stockWorker'[w] = n
      /\ \A v \in StockWorkers : v # w => stockWorker'[v] = stockWorker[v]
  BY <1>1, <1>3 DEF Inventory!Claim, Inventory!TypeOK
<1> HIDE DEF c
<1>6. n \in Inventory!WorkerStates
  BY <1>2 DEF Inventory!WorkerStates, Inventory!Messages
<1>7. n.op = o /\ n.pc \in {"idle", "look"}
  OBVIOUS
<1> HIDE DEF n
<1>8. Inventory!TypeOK'
  BY <1>1, <1>2, <1>3, <1>4, <1>5, <1>6 DEF Inventory!TypeOK
<1>9. ASSUME NEW p \in Inventory!Ops, stockOp[p] = "needs_reconciliation"
      PROVE  Inventory!HandedOK(p)'
  <2>1. Inventory!HandedOK(p)
    BY DEF Inventory!IInv
  <2>2. CASE p = o
    <3>1. c.status = "dead"
      BY <1>2, <1>4, <1>9, <2>1, <2>2 DEF Inventory!HandedOK, Inventory!Claimable
    <3>2. QED
      BY <1>3, <2>2, <3>1 DEF Inventory!HandedOK, Inventory!Owns, Inventory!OwnedBy
  <2>3. CASE p # o
    <3>1. stockWorker'[w].op # p
      BY <1>5, <1>7, <2>3
    <3>2. QED
      BY <1>3, <1>4, <1>5, <1>9, <2>1, <2>3, <3>1
         DEF Inventory!HandedOK, Inventory!Owns
  <2>4. QED
    BY <2>2, <2>3
<1>10. \A p \in Inventory!Ops : Inventory!HandedOK(p)'
  BY <1>4, <1>9 DEF Inventory!HandedOK
<1>11. \A v \in StockWorkers :
         stockWorker'[v] = stockWorker[v] \/ Inventory!WorkerOK(v)'
  BY <1>5, <1>7 DEF Inventory!WorkerOK
<1>12. m.status # "none"
  BY <1>4 DEF Inventory!Claimable
<1>13. stockAction[o].state = "completed"
  BY <1>12 DEF Inventory!IInv, Inventory!OpOK
<1>14. \A p \in Inventory!Ops : stockAction'[p].state # "completed" =>
         stockAction[p].state # "completed" /\ stockJob'[p].status = stockJob[p].status
  BY <1>3, <1>4, <1>13
<1>15. QED
  BY <1>4, <1>8, <1>10, <1>11, <1>14, StockQuiet

\* The end of a claim: the job of a command that was handed over dies.
LEMMA FinishStep ==
  ASSUME Inventory!IInv, NEW w \in StockWorkers, Inventory!Finish(w)
  PROVE  Inventory!IInv' /\ Inventory!VerdictStays
<1> DEFINE o == stockWorker[w].op
           m == stockJob[o]
           d == IF stockWorker[w].pc = "finish" THEN Inventory!Sent(m)
                                                ELSE Inventory!Retried(m)
<1>1. Inventory!TypeOK /\ o \in Inventory!Ops /\ m \in Inventory!Messages
  BY DEF Inventory!IInv, Inventory!TypeOK, Inventory!WorkerStates
<1>2. /\ UNCHANGED <<connector, stockAction, stockOp, reservation, made>>
      /\ Inventory!Goto(w, "idle") /\ "idle" \in StockPcs
      /\ stockJob' = IF Inventory!Owns(w) THEN [stockJob EXCEPT ![o] = d] ELSE stockJob
  BY DEF Inventory!Finish, StockPcs
<1>3. CASE ~Inventory!Owns(w)
  <2>1. UNCHANGED stockJob
    BY <1>2, <1>3
  <2>2. connector' \in [version: 1 .. MaxConnector, active: BOOLEAN, drifted: BOOLEAN]
    BY <1>1, <1>2 DEF Inventory!TypeOK
  <2>3. QED
    BY <1>2, <2>1, <2>2, StockMoveStep
<1>4. CASE Inventory!Owns(w)
  <2>1. /\ d \in Inventory!Messages /\ d.status \in {"sent", "pending", "dead"}
        /\ m.attempt >= m.max => d.status # "pending"
    BY <1>1, StockMessages
  <2>2. m.status = "running"
    BY <1>4 DEF Inventory!Owns, Inventory!OwnedBy
  <2> HIDE DEF d
  <2>3. /\ stockJob' = [stockJob EXCEPT ![o] = d]
        /\ stockJob'[o] = d
        /\ \A p \in Inventory!Ops : p # o => stockJob'[p] = stockJob[p]
    BY <1>1, <1>2, <1>4 DEF Inventory!TypeOK
  <2>4. Inventory!TypeOK'
    BY <1>1, <1>2, <2>1, <2>3, StockMoves DEF Inventory!TypeOK
  <2>5. ASSUME NEW p \in Inventory!Ops, stockOp[p] = "needs_reconciliation"
        PROVE  Inventory!HandedOK(p)'
    <3>1. Inventory!HandedOK(p)
      BY DEF Inventory!IInv
    <3>2. CASE p = o
      <4>1. d.status \in {"sent", "dead"}
        BY <2>1, <2>2, <2>5, <3>1, <3>2 DEF Inventory!HandedOK
      <4>2. QED
        BY <2>3, <3>2, <4>1 DEF Inventory!HandedOK, Inventory!Owns, Inventory!OwnedBy
    <3>3. CASE p # o
      <4>1. ASSUME NEW v \in StockWorkers, stockWorker'[v].op = p, Inventory!Owns(v)'
            PROVE  stockWorker'[v].pc \in {"idle", "retry"}
        <5>1. stockWorker[v].op = p /\ Inventory!Owns(v)
          BY <1>1, <1>2, <2>3, <3>3, <4>1, StockMoves DEF Inventory!Owns
        <5>2. stockWorker[v].pc \in {"idle", "retry"}
          BY <2>5, <3>1, <5>1 DEF Inventory!HandedOK
        <5>3. QED
          BY <1>1, <1>2, <5>2, StockMoves
      <4>2. QED
        BY <1>2, <2>3, <2>5, <3>1, <3>3, <4>1 DEF Inventory!HandedOK
    <3>4. QED
      BY <3>2, <3>3
  <2>6. \A p \in Inventory!Ops : Inventory!HandedOK(p)'
    BY <1>2, <2>5 DEF Inventory!HandedOK
  <2>7. \A v \in StockWorkers :
          stockWorker'[v] = stockWorker[v] \/ Inventory!WorkerOK(v)'
    BY <1>1, <1>2, StockMoves DEF Inventory!WorkerOK
  <2>8. stockAction[o].state = "completed"
    BY <1>1, <2>2 DEF Inventory!IInv, Inventory!OpOK
  <2>9. \A p \in Inventory!Ops : stockAction'[p].state # "completed" =>
          stockAction[p].state # "completed" /\ stockJob'[p].status = stockJob[p].status
    BY <1>2, <2>3, <2>8
  <2>10. QED
    BY <1>2, <2>4, <2>6, <2>7, <2>9, StockQuiet
<1>5. QED
  BY <1>3, <1>4

\* A step that writes operations and leaves the shop alone.
LEMMA StockVerdict ==
  ASSUME Inventory!IInv, Inventory!TypeOK', UNCHANGED <<reservation, made>>,
         Inventory!VerdictStays,
         \A o \in Inventory!Ops : Inventory!HandedOK(o)',
         \A o \in Inventory!Ops : stockOp'[o] = "succeeded" =>
           stockOp[o] = "succeeded" \/ Inventory!Done(o),
         \A o \in Inventory!Ops : stockAction'[o].state # "completed" =>
           stockOp'[o] = "none" /\ stockJob'[o].status = "none",
         \A w \in StockWorkers :
           stockWorker'[w] = stockWorker[w] \/ Inventory!WorkerOK(w)'
  PROVE  Inventory!IInv'
<1> USE DEF Inventory!IInv
<1>1. \A k \in Reserves : Inventory!ShopOK(k)'
  BY DEF Inventory!ShopOK
<1>2. \A o \in Inventory!Ops : Inventory!Done(o)' <=> Inventory!Done(o)
  BY DEF Inventory!Done
<1>3. \A o \in Inventory!Ops : Inventory!OpOK(o)'
  BY <1>2 DEF Inventory!OpOK
<1>4. ASSUME NEW w \in StockWorkers PROVE Inventory!WorkerOK(w)'
  <2>1. CASE stockWorker'[w] = stockWorker[w]
    <3> DEFINE o == stockWorker[w].op
    <3>1. o \in Inventory!Ops /\ stockWorker'[w].op = o
      BY <2>1 DEF Inventory!TypeOK, Inventory!WorkerStates
    <3>2. Inventory!WorkerOK(w)
      OBVIOUS
    <3>3. Inventory!Done(stockWorker[w].op)' <=> Inventory!Done(o)
      BY <2>1, <3>1 DEF Inventory!Done
    <3>4. QED
      BY <2>1, <3>1, <3>2, <3>3 DEF Inventory!WorkerOK, Inventory!VerdictStays
  <2>2. QED
    BY <2>1
<1>5. QED
  BY <1>1, <1>3, <1>4

LEMMA EnqueueStep ==
  ASSUME Inventory!IInv, NEW o \in Inventory!Ops, Inventory!Enqueue(o)
  PROVE  Inventory!IInv' /\ Inventory!VerdictStays
<1> DEFINE n == Inventory!NewMessage(StockAttempts)
<1>1. Inventory!TypeOK /\ stockOp[o] = "none"
  BY DEF Inventory!IInv, Inventory!OpOK, Inventory!Enqueue
<1>2. n \in Inventory!Messages
  BY InventoryAssumption DEF Inventory!NewMessage, Inventory!NoMessage, Inventory!Messages
<1> HIDE DEF n
<1>3. /\ stockAction' = [stockAction EXCEPT ![o].state = "completed"]
      /\ stockOp' = [stockOp EXCEPT ![o] = "pending"]
      /\ stockJob' = [stockJob EXCEPT ![o] = n]
      /\ UNCHANGED <<connector, stockWorker, reservation, made>>
  BY DEF Inventory!Enqueue, n
<1>4. Inventory!TypeOK'
  BY <1>1, <1>2, <1>3 DEF Inventory!TypeOK
<1>5. /\ stockAction'[o].state = "completed" /\ stockOp'[o] = "pending"
      /\ \A p \in Inventory!Ops : p # o => /\ stockAction'[p] = stockAction[p]
                                           /\ stockOp'[p] = stockOp[p]
                                           /\ stockJob'[p] = stockJob[p]
  BY <1>1, <1>3 DEF Inventory!TypeOK
<1>6. Inventory!VerdictStays
  BY <1>1, <1>5 DEF Inventory!VerdictStays
<1>7. \A p \in Inventory!Ops : Inventory!HandedOK(p)'
  BY <1>3, <1>5 DEF Inventory!HandedOK, Inventory!IInv, Inventory!Owns
<1>8. \A p \in Inventory!Ops : /\ stockOp'[p] = "succeeded" => stockOp[p] = "succeeded"
                               /\ stockAction'[p].state # "completed" =>
                                    stockOp'[p] = "none" /\ stockJob'[p].status = "none"
  BY <1>5 DEF Inventory!IInv, Inventory!OpOK
<1>9. QED
  BY <1>3, <1>4, <1>6, <1>7, <1>8, StockVerdict

LEMMA SweepStep ==
  ASSUME Inventory!IInv, NEW w \in StockWorkers, Inventory!Sweep(w)
  PROVE  Inventory!IInv' /\ Inventory!VerdictStays
<1>1. Inventory!TypeOK
  BY DEF Inventory!IInv
<1>2. /\ UNCHANGED <<connector, stockAction, stockJob, stockWorker, reservation, made>>
      /\ stockOp' = [o \in Inventory!Ops |->
                       IF stockJob[o].status = "dead" /\ Inventory!Unsettled(o)
                         THEN "needs_reconciliation" ELSE stockOp[o]]
  BY DEF Inventory!Sweep
<1>3. Inventory!TypeOK'
  BY <1>1, <1>2 DEF Inventory!TypeOK
<1>4. Inventory!VerdictStays
  BY <1>2 DEF Inventory!VerdictStays, Inventory!Unsettled
<1>5. ASSUME NEW p \in Inventory!Ops PROVE Inventory!HandedOK(p)'
  <2>1. CASE stockJob[p].status = "dead"
    BY <1>2, <2>1 DEF Inventory!HandedOK, Inventory!Owns, Inventory!OwnedBy
  <2>2. CASE stockJob[p].status # "dead"
    <3>1. stockOp'[p] = stockOp[p] /\ Inventory!HandedOK(p)
      BY <1>2, <2>2 DEF Inventory!IInv
    <3>2. QED
      BY <1>2, <3>1 DEF Inventory!HandedOK, Inventory!Owns
  <2>3. QED
    BY <2>1, <2>2
<1>6. \A p \in Inventory!Ops : /\ stockOp'[p] = "succeeded" => stockOp[p] = "succeeded"
                               /\ stockAction'[p].state # "completed" =>
                                    stockOp'[p] = "none" /\ stockJob'[p].status = "none"
  BY <1>2 DEF Inventory!IInv, Inventory!OpOK, Inventory!Unsettled
<1>7. QED
  BY <1>2, <1>3, <1>4, <1>5, <1>6, StockVerdict

\* The worker that owns the claim writes what it saw at the shop, or that its
\* last attempt failed.
LEMMA ReportStep ==
  ASSUME Inventory!IInv, NEW w \in StockWorkers, Inventory!Record(w) \/ Inventory!Fail(w)
  PROVE  Inventory!IInv' /\ Inventory!VerdictStays
<1> DEFINE o == stockWorker[w].op
<1>1. Inventory!TypeOK /\ o \in Inventory!Ops /\ stockJob[o] \in Inventory!Messages
  BY DEF Inventory!IInv, Inventory!TypeOK, Inventory!WorkerStates
<1>2. /\ UNCHANGED <<connector, stockAction, stockJob, reservation, made>>
      /\ stockWorker[w].pc \in {"record", "fail"}
  BY DEF Inventory!Record, Inventory!Fail
<1>3. connector' \in [version: 1 .. MaxConnector, active: BOOLEAN, drifted: BOOLEAN]
  BY <1>1, <1>2 DEF Inventory!TypeOK
<1>4. CASE ~Inventory!Owns(w)
  <2>1. Inventory!Goto(w, "idle") /\ UNCHANGED stockOp /\ "idle" \in StockPcs
    BY <1>4 DEF Inventory!Record, Inventory!Fail, StockPcs
  <2>2. QED
    BY <1>2, <1>3, <2>1, StockMoveStep
<1>5. CASE Inventory!Owns(w)
  <2>1. /\ stockJob[o].status = "running" /\ stockJob[o].owner = w
        /\ stockOp[o] # "needs_reconciliation"
    <3>1. Inventory!HandedOK(o)
      BY <1>1 DEF Inventory!IInv
    <3>2. QED
      BY <1>1, <1>2, <1>5, <3>1
         DEF Inventory!HandedOK, Inventory!Owns, Inventory!OwnedBy
  <2>2. stockAction[o].state = "completed"
    BY <1>1, <2>1 DEF Inventory!IInv, Inventory!OpOK
  <2>3. \E pc \in {"finish", "retry"}, v \in {"unknown", "needs_reconciliation", "succeeded"} :
          /\ Inventory!Goto(w, pc)
          /\ stockOp' = [stockOp EXCEPT ![o] = v]
          /\ v = "succeeded" => stockOp[o] = "succeeded" \/ Inventory!Done(o)
          /\ stockOp[o] = "succeeded" => v = "succeeded"
          /\ v = "needs_reconciliation" =>
               pc = "retry" /\ stockJob[o].attempt >= stockJob[o].max
          /\ pc = "finish" => v = "succeeded"
    <3>1. CASE Inventory!Record(w)
      <4>1. Inventory!Done(o)
        BY <3>1 DEF Inventory!Record, Inventory!IInv, Inventory!WorkerOK
      <4>2. Inventory!Goto(w, "finish") /\ stockOp' = [stockOp EXCEPT ![o] = "succeeded"]
        BY <1>5, <3>1 DEF Inventory!Record
      <4>3. QED
        BY <4>1, <4>2
    <3>2. CASE Inventory!Fail(w)
      <4> DEFINE v == IF stockOp[o] = "succeeded" THEN "succeeded" ELSE Inventory!Failed(o)
      <4>1. Inventory!Goto(w, "retry") /\ stockOp' = [stockOp EXCEPT ![o] = v]
        BY <1>5, <3>2 DEF Inventory!Fail
      <4>2. /\ v \in {"unknown", "needs_reconciliation", "succeeded"}
            /\ v = "succeeded" => stockOp[o] = "succeeded"
            /\ stockOp[o] = "succeeded" => v = "succeeded"
            /\ v = "needs_reconciliation" => stockJob[o].attempt >= stockJob[o].max
        BY DEF Inventory!Failed
      <4> HIDE DEF v
      <4>3. QED
        BY <4>1, <4>2
    <3>3. QED
      BY <3>1, <3>2
  <2>4. PICK pc \in {"finish", "retry"},
             v \in {"unknown", "needs_reconciliation", "succeeded"} :
          /\ Inventory!Goto(w, pc)
          /\ stockOp' = [stockOp EXCEPT ![o] = v]
          /\ v = "succeeded" => stockOp[o] = "succeeded" \/ Inventory!Done(o)
          /\ stockOp[o] = "succeeded" => v = "succeeded"
          /\ v = "needs_reconciliation" =>
               pc = "retry" /\ stockJob[o].attempt >= stockJob[o].max
          /\ pc = "finish" => v = "succeeded"
    BY <2>3
  <2>5. pc \in StockPcs
    BY DEF StockPcs
  <2>6. Inventory!TypeOK'
    BY <1>1, <1>2, <2>4, <2>5, StockMoves DEF Inventory!TypeOK
  <2>7. stockOp'[o] = v /\ \A p \in Inventory!Ops : p # o => stockOp'[p] = stockOp[p]
    BY <1>1, <2>4 DEF Inventory!TypeOK
  <2>8. Inventory!VerdictStays
    BY <2>1, <2>4, <2>7 DEF Inventory!VerdictStays
  <2>9. /\ stockWorker'[w].pc = pc /\ stockWorker'[w].op = o
        /\ \A u \in StockWorkers : /\ stockWorker'[u].op = stockWorker[u].op
                                   /\ stockWorker'[u].fence = stockWorker[u].fence
                                   /\ u # w => stockWorker'[u] = stockWorker[u]
    BY <1>1, <2>4, <2>5, StockMoves
  <2>10. ASSUME NEW p \in Inventory!Ops, stockOp'[p] = "needs_reconciliation"
         PROVE  Inventory!HandedOK(p)'
    <3>1. CASE p = o
      <4>1. pc = "retry" /\ stockJob[o].attempt >= stockJob[o].max
        BY <2>4, <2>7, <2>10, <3>1
      <4>2. ASSUME NEW u \in StockWorkers, stockWorker'[u].op = p, Inventory!Owns(u)'
            PROVE  stockWorker'[u].pc \in {"idle", "retry"}
        <5>1. u = w
          BY <1>2, <2>1, <3>1, <4>2 DEF Inventory!Owns, Inventory!OwnedBy
        <5>2. QED
          BY <2>9, <4>1, <5>1
      <4>3. QED
        BY <1>2, <2>1, <3>1, <4>1, <4>2 DEF Inventory!HandedOK
    <3>2. CASE p # o
      <4>1. Inventory!HandedOK(p) /\ stockOp[p] = "needs_reconciliation"
        BY <2>7, <2>10, <3>2 DEF Inventory!IInv
      <4>2. ASSUME NEW u \in StockWorkers, stockWorker'[u].op = p, Inventory!Owns(u)'
            PROVE  stockWorker'[u].pc \in {"idle", "retry"}
        <5>1. u # w /\ stockWorker[u].op = p /\ Inventory!Owns(u)
          BY <1>2, <2>9, <3>2, <4>2 DEF Inventory!Owns
        <5>2. QED
          BY <2>9, <4>1, <5>1 DEF Inventory!HandedOK
      <4>3. QED
        BY <1>2, <4>1, <4>2 DEF Inventory!HandedOK
    <3>3. QED
      BY <3>1, <3>2
  <2>11. \A p \in Inventory!Ops : Inventory!HandedOK(p)'
    BY <2>10 DEF Inventory!HandedOK
  <2>12. \A p \in Inventory!Ops :
           stockOp'[p] = "succeeded" => stockOp[p] = "succeeded" \/ Inventory!Done(p)
    BY <2>4, <2>7
  <2>13. \A p \in Inventory!Ops : stockAction'[p].state # "completed" =>
           stockOp'[p] = "none" /\ stockJob'[p].status = "none"
    BY <1>2, <2>2, <2>7 DEF Inventory!IInv, Inventory!OpOK
  <2>14. Inventory!WorkerOK(w)'
    BY <2>4, <2>7, <2>9 DEF Inventory!WorkerOK
  <2>15. QED
    BY <1>2, <2>6, <2>8, <2>9, <2>11, <2>12, <2>13, <2>14, StockVerdict
<1>6. QED
  BY <1>4, <1>5

\* The shop moves a reservation forward only: not_found, reserved, released.
Forward(k, status) ==
  \/ status = reservation[k]
  \/ reservation[k] = "not_found" /\ status = "reserved"
  \/ reservation[k] = "reserved" /\ status = "released"

LEMMA SendStep ==
  ASSUME Inventory!IInv, NEW w \in StockWorkers, Inventory!Send(w)
  PROVE  Inventory!IInv' /\ Inventory!VerdictStays
<1> DEFINE o == stockWorker[w].op
           k == Inventory!Key(o)
           status == IF o \in Reserves THEN Inventory!Reserved(k)
                                       ELSE Inventory!Released(k)
<1>1. /\ Inventory!TypeOK /\ o \in Inventory!Ops /\ k \in Reserves
      /\ reservation[k] \in ShopStates /\ made[k] \in Nat
  <2>1. Inventory!TypeOK /\ o \in Inventory!Ops
    BY DEF Inventory!IInv, Inventory!TypeOK, Inventory!WorkerStates
  <2>2. k \in Reserves
    BY <2>1, StockTypes
  <2>3. QED
    BY <2>1, <2>2 DEF Inventory!TypeOK, ShopStates
<1>2. /\ UNCHANGED <<connector, stockAction, stockOp, stockJob>>
      /\ stockWorker[w].pc = "send"
  BY DEF Inventory!Send
<1>3. connector' \in [version: 1 .. MaxConnector, active: BOOLEAN, drifted: BOOLEAN]
  BY <1>1, <1>2 DEF Inventory!TypeOK
<1>4. "fail" \in StockPcs /\ "record" \in StockPcs
  BY DEF StockPcs
<1>5. CASE Inventory!Goto(w, "fail") /\ UNCHANGED <<reservation, made>>
  BY <1>2, <1>3, <1>4, <1>5, StockMoveStep
<1>6. ASSUME NEW pc \in {"record", "fail"}, Inventory!Goto(w, pc),
             pc = "record" => Inventory!AfterQuery(o, status) = "record",
             reservation' = [reservation EXCEPT ![k] = status],
             made' = [made EXCEPT ![k] =
               IF reservation[k] # "reserved" /\ status = "reserved" THEN @ + 1 ELSE @]
      PROVE  Inventory!IInv' /\ Inventory!VerdictStays
  <2>1. status \in ShopStates /\ Forward(k, status)
    <3>1. CASE o \in Reserves
      BY <1>1, <3>1 DEF Inventory!Reserved, Forward, ShopStates
    <3>2. CASE o \notin Reserves
      BY <1>1, <3>2 DEF Inventory!Released, Forward, ShopStates
    <3>3. QED
      BY <3>1, <3>2
  <2>2. pc = "record" => \/ o \in Reserves /\ status = "reserved"
                         \/ o \in Releases /\ status = "released"
    BY <1>1, <1>6, <2>1, AnswerMeans
  <2> HIDE DEF status
  <2>3. /\ reservation'[k] = status
        /\ \A j \in Reserves : j # k => /\ reservation'[j] = reservation[j]
                                        /\ made'[j] = made[j]
    BY <1>1, <1>6 DEF Inventory!TypeOK
  <2>4. made'[k] = IF reservation[k] # "reserved" /\ status = "reserved"
                     THEN made[k] + 1 ELSE made[k]
    BY <1>1, <1>6 DEF Inventory!TypeOK
  <2>5. pc \in StockPcs
    BY <1>4
  <2>6. Inventory!TypeOK'
    <3>1. reservation' \in [Reserves -> ShopStates]
      BY <1>1, <1>6, <2>1 DEF Inventory!TypeOK, ShopStates
    <3>2. made[k] + 1 \in Nat
      BY <1>1
    <3>3. made' \in [Reserves -> Nat]
      BY <1>1, <1>6, <3>2 DEF Inventory!TypeOK
    <3>4. QED
      BY <1>1, <1>2, <1>6, <2>5, <3>1, <3>3, StockMoves DEF Inventory!TypeOK, ShopStates
  <2>7. ASSUME NEW j \in Reserves PROVE Inventory!ShopOK(j)'
    <3>1. Inventory!ShopOK(j)
      BY DEF Inventory!IInv
    <3>2. CASE j = k
      BY <1>1, <2>1, <2>3, <2>4, <3>1, <3>2 DEF Inventory!ShopOK, Forward
    <3>3. CASE j # k
      BY <2>3, <3>1, <3>3 DEF Inventory!ShopOK
    <3>4. QED
      BY <3>2, <3>3
  <2>8. \A j \in Reserves : /\ reservation[j] # "not_found" => reservation'[j] # "not_found"
                            /\ reservation[j] = "released" => reservation'[j] = "released"
    BY <2>1, <2>3 DEF Forward
  <2>9. ASSUME NEW p \in Inventory!Ops, Inventory!Done(p) PROVE Inventory!Done(p)'
    BY <1>1, <2>8, <2>9, StockTypes DEF Inventory!Done
  <2>10. \A p \in Inventory!Ops : Inventory!OpOK(p)'
    BY <1>2, <2>9 DEF Inventory!OpOK, Inventory!IInv
  <2>11. \A p \in Inventory!Ops : Inventory!HandedOK(p)'
    BY <1>2, <1>6, <2>5, MoveKeepsHanded
  <2>12. ASSUME NEW u \in StockWorkers PROVE Inventory!WorkerOK(u)'
    <3>1. stockWorker'[u].op = stockWorker[u].op /\ stockWorker[u].op \in Inventory!Ops
      BY <1>1, <1>6, <2>5, StockMoves, StockTypes
    <3>2. CASE u = w
      <4>1. stockWorker'[u].pc = pc
        BY <1>1, <1>6, <2>5, <3>2, StockMoves
      <4>2. pc = "record" => Inventory!Done(stockWorker[u].op)'
        BY <1>1, <2>2, <2>3, <3>1, <3>2, StockTypes DEF Inventory!Done
      <4>3. QED
        BY <4>1, <4>2 DEF Inventory!WorkerOK
    <3>3. CASE u # w
      <4>1. stockWorker'[u] = stockWorker[u] /\ Inventory!WorkerOK(u)
        BY <1>1, <1>6, <2>5, <3>3, StockMoves DEF Inventory!IInv
      <4>2. Inventory!Done(stockWorker[u].op) => Inventory!Done(stockWorker[u].op)'
        <5> DEFINE p == stockWorker[u].op
        <5>1. stockWorker'[u].op = p
          BY <3>1
        <5>2. CASE p \in Reserves
          BY <2>8, <5>1, <5>2 DEF Inventory!Done
        <5>3. CASE p \notin Reserves
          <6>1. SourceOf[p] \in Reserves
            BY <1>1, <3>1, <5>3, StockTypes
          <6>2. QED
            BY <2>8, <5>1, <5>3, <6>1 DEF Inventory!Done
        <5>4. QED
          BY <5>2, <5>3
      <4>3. QED
        BY <1>2, <4>1, <4>2 DEF Inventory!WorkerOK
    <3>4. QED
      BY <3>2, <3>3
  <2>13. QED
    BY <1>2, <2>6, <2>7, <2>10, <2>11, <2>12 DEF Inventory!IInv, Inventory!VerdictStays
<1>7. QED
  BY <1>5, <1>6 DEF Inventory!Send

LEMMA InventoryNext ==
  ASSUME Inventory!IInv, Inventory!Next
  PROVE  Inventory!IInv' /\ Inventory!VerdictStays
BY ConnectorStep, ProposeStep, EnqueueStep, ExpiryStep, SweepStep, WorkStep, SendStep,
   ReportStep, FinishStep, ClaimStep DEF Inventory!Next

\* InventoryDelivery: IInv holds, and no step changes a verdict.
LEMMA InventoryInvariant ==
  Inventory!Spec =>
    /\ []Inventory!IInv
    /\ [][Inventory!VerdictStays]_<<connector, stockAction, stockOp, stockJob,
                                    stockWorker, reservation, made>>
<1>1. Inventory!IInv /\ [Inventory!Next]_Inventory!vars => Inventory!IInv'
  <2>1. ASSUME Inventory!IInv, UNCHANGED Inventory!vars PROVE Inventory!IInv'
    BY <2>1 DEF Inventory!vars, Inventory!IInv, Inventory!TypeOK, Inventory!ShopOK,
       Inventory!OpOK, Inventory!Done, Inventory!HandedOK, Inventory!Owns,
       Inventory!WorkerOK
  <2>2. QED
    BY <2>1, InventoryNext
<1>2. /\ Inventory!IInv
      /\ [Inventory!Next]_Inventory!vars
      => [Inventory!VerdictStays]_<<connector, stockAction, stockOp, stockJob,
                                    stockWorker, reservation, made>>
  BY InventoryNext DEF Inventory!vars
<1>3. QED
  BY InventoryInit, <1>1, <1>2, PTL DEF Inventory!Spec

\* A command reserves its piece once, and what is reported as done was done,
\* for every set of commands and workers, whatever the connector's contract
\* does and whichever worker lost its lease on the way.
THEOREM InventoryHolds == Inventory!Spec => []InventoryIsReal
<1>1. Inventory!IInv => InventoryIsReal
  <2> SUFFICES ASSUME Inventory!IInv PROVE InventoryIsReal
    OBVIOUS
  <2>1. \A k \in Reserves : made[k] <= 1
    BY DEF Inventory!IInv, Inventory!ShopOK
  <2>2. ASSUME NEW o \in Inventory!Ops, stockOp[o] = "succeeded"
        PROVE  IF o \in Reserves THEN made[o] = 1
                                 ELSE reservation[SourceOf[o]] = "released"
    <3>1. Inventory!Done(o)
      BY <2>2 DEF Inventory!IInv, Inventory!OpOK
    <3>2. QED
      BY <3>1 DEF Inventory!Done, Inventory!IInv, Inventory!ShopOK
  <2>3. QED
    BY <2>1, <2>2 DEF InventoryIsReal, Inventory!InventoryIsReal
<1>2. QED
  BY <1>1, InventoryInvariant, PTL

\* Nothing that was published is taken back by a worker that failed earlier, and
\* no worker or sweep changes a success or a command that was handed to humans.
THEOREM FinalHolds == Imports!Spec /\ Inventory!Spec => FinalStays
BY PublishedStays, InventoryInvariant DEF FinalStays

-----------------------------------------------------------------------------
(* The stores of plans, and what retention deletes of them *)

Rows == [status : Store!RowStatuses, live : BOOLEAN, old : BOOLEAN]

PlanStates ==
  [status : Store!Ended \cup {"none", "running", "awaiting_confirmation", "gone"},
   version : 0..MaxPlanVersion, old : BOOLEAN]

LEMMA StoreInit == Store!Init => Store!IInv
<1> SUFFICES ASSUME Store!Init PROVE Store!IInv
  OBVIOUS
<1> USE StoreAssumption
<1>1. /\ Store!NoRow \in Rows /\ Store!Idle \in Store!WorkerStates
      /\ Store!NoRow.status = "none" /\ Store!Idle.pc = "idle"
  BY DEF Store!NoRow, Rows, Store!RowStatuses, Store!Idle, Store!WorkerStates
<1>2. Store!TypeOK
  BY <1>1 DEF Store!Init, Store!TypeOK, Store!Rest, Rows
<1>3. Store!Present = {}
  BY <1>1 DEF Store!Init, Store!Present
<1>4. QED
  BY <1>1, <1>2, <1>3 DEF Store!Init, Store!IInv, Store!CleanerOK, Store!TopOK,
    Store!WorkerOK, Store!InsertOK, Store!Busy, Store!Rest

LEMMA ExecutorTyped ==
  ASSUME Store!TypeOK, NEW w \in Executors
  PROVE  executor[w] \in Store!WorkerStates
BY DEF Store!TypeOK

LEMMA RowTyped ==
  ASSUME Store!TypeOK, NEW t \in Store!Tokens
  PROVE  planRows[t] \in Rows
BY DEF Store!TypeOK, Rows

LEMMA PlanTyped == Store!TypeOK => plan \in PlanStates
BY DEF Store!TypeOK, PlanStates

\* While somebody may still claim the plan, what claim counts from is the last
\* token that was handed out.
LEMMA LatestIsLast ==
  ASSUME Store!IInv, Store!Hot
  PROVE  /\ Store!Latest \in {0} \cup given
         /\ \A u \in given : u <= Store!Latest
<1>1. Store!Present \subseteq given /\ given \subseteq Store!Tokens
  BY DEF Store!IInv, Store!TypeOK
<1>2. ASSUME NEW m \in Nat, m \in Store!Present \cup {0},
             \A u \in Store!Present \cup {0} : u <= m
      PROVE  Store!Latest = m
  <2> DEFINE P == Store!Present \cup {0}
  <2>1. P \subseteq Nat
    BY <1>1, StoreAssumption DEF Store!Tokens
  <2>2. \A x \in P : (\A y \in P : x >= y) => x = m
    BY <1>2, <2>1
  <2>3. \E x \in P : \A y \in P : x >= y
    BY <1>2, <2>1
  <2>4. QED
    BY <2>2, <2>3 DEF Store!Latest, Store!Max
<1>3. CASE given = {}
  BY <1>1, <1>2, <1>3
<1>4. CASE given # {}
  <2>1. PICK t \in given : (\A u \in given : u <= t) /\ planRows[t].status # "none"
    BY <1>4 DEF Store!IInv, Store!TopOK
  <2>2. t \in Nat \ {0} /\ t \in Store!Present
    BY <1>1, <2>1, StoreAssumption DEF Store!Tokens, Store!Present
  <2>3. Store!Latest = t
    BY <1>1, <1>2, <2>1, <2>2
  <2>4. QED
    BY <2>1, <2>3
<1>5. QED
  BY <1>3, <1>4

LEMMA ExecutorMoves ==
  ASSUME Store!TypeOK, NEW w \in Executors, NEW to \in Store!WorkerStates,
         Store!Become(w, to)
  PROVE  /\ executor' \in [Executors -> Store!WorkerStates]
         /\ executor'[w] = to
         /\ \A v \in Executors \ {w} : executor'[v] = executor[v]
BY DEF Store!Become, Store!TypeOK

LEMMA BusyIsHot == \A w \in Executors : Store!Busy(w) => Store!Hot
BY DEF Store!Hot

\* A step that leaves the stores and the cleanup alone, and moves one worker.
LEMMA WorkerStep ==
  ASSUME Store!IInv, Store!Hot, NEW w \in Executors, NEW to \in Store!WorkerStates,
         Store!Become(w, to), Store!WorkerOK(w)', Store!InsertOK(w)',
         cleaner.plan => to.pc = "idle",
         UNCHANGED <<planStore, plan, planRows, cleaner, given>>
  PROVE  Store!IInv'
<1> USE DEF Store!IInv
<1>1. /\ executor' \in [Executors -> Store!WorkerStates]
      /\ executor'[w] = to
      /\ \A v \in Executors \ {w} : executor'[v] = executor[v]
  BY ExecutorMoves
<1>2. Store!TypeOK'
  BY <1>1 DEF Store!TypeOK
<1>3. (Store!Present \subseteq given)'
  BY DEF Store!Present
<1>4. Store!CleanerOK'
  BY <1>1 DEF Store!CleanerOK, Store!Busy
<1>5. Store!TopOK'
  BY DEF Store!TopOK
<1>6. ASSUME NEW v \in Executors \ {w} PROVE Store!WorkerOK(v)' /\ Store!InsertOK(v)'
  BY <1>1 DEF Store!WorkerOK, Store!InsertOK, Store!Busy
<1>7. QED
  BY <1>2, <1>3, <1>4, <1>5, <1>6

\* A worker that gives up.
LEMMA GivesUp ==
  ASSUME Store!IInv, NEW w \in Executors, Store!Busy(w),
         Store!Become(w, Store!Idle),
         UNCHANGED <<planStore, plan, planRows, cleaner, given>>
  PROVE  Store!IInv'
<1>1. Store!Idle \in Store!WorkerStates /\ Store!Idle.pc = "idle"
  BY StoreAssumption DEF Store!Idle, Store!WorkerStates, Store!RowStatuses
<1>2. executor'[w] = Store!Idle
  BY <1>1, ExecutorMoves DEF Store!IInv
<1>3. Store!WorkerOK(w)' /\ Store!InsertOK(w)'
  BY <1>1, <1>2 DEF Store!WorkerOK, Store!InsertOK, Store!Busy
<1>4. QED
  BY <1>1, <1>3, BusyIsHot, WorkerStep

\* A step that writes a plan that was alive, and moves the workers of W at most.
LEMMA PlanStep ==
  ASSUME Store!IInv, NEW W \in SUBSET Executors,
         NEW s \in Store!Ended \cup {"running", "awaiting_confirmation"},
         plan.status \in Store!Alive, plan.version < MaxPlanVersion,
         plan' = [status |-> s, version |-> plan.version + 1, old |-> FALSE],
         executor' \in [Executors -> Store!WorkerStates],
         \A v \in Executors \ W : executor'[v] = executor[v],
         \A w \in W : Store!WorkerOK(w)' /\ Store!InsertOK(w)',
         UNCHANGED <<planStore, planRows, cleaner, given>>
  PROVE  Store!IInv'
<1> USE DEF Store!IInv
<1>1. Store!TypeOK'
  <2>1. plan.version + 1 \in 0..MaxPlanVersion
    BY PlanTyped, StoreAssumption DEF PlanStates
  <2>2. QED
    BY <2>1 DEF Store!TypeOK
<1>2. (Store!Present \subseteq given)'
  BY DEF Store!Present
<1>3. Store!CleanerOK'
  BY DEF Store!CleanerOK, Store!Alive, Store!Ended
<1>4. Store!TopOK'
  BY DEF Store!TopOK, Store!Hot
<1>5. ASSUME NEW v \in Executors \ W PROVE Store!WorkerOK(v)' /\ Store!InsertOK(v)'
  <2>1. Store!InsertOK(v)'
    BY <1>5 DEF Store!InsertOK
  <2>2. ASSUME Store!Busy(v) PROVE Store!WorkerOK(v)'
    <3>1. /\ executor[v].version <= plan.version
          /\ executor[v].version \in Nat /\ plan.version \in Nat
      BY <2>2, ExecutorTyped, PlanTyped, StoreAssumption
      DEF Store!WorkerOK, Store!WorkerStates, PlanStates
    <3>2. executor[v].status \notin {"completed", "failed"}
      BY <2>2 DEF Store!WorkerOK, Store!Alive, Store!Ended
    <3>3. QED
      BY <1>5, <2>2, <3>1, <3>2 DEF Store!WorkerOK, Store!Busy, Store!Ended
  <2>3. ~Store!Busy(v) => Store!WorkerOK(v)'
    BY <1>5 DEF Store!WorkerOK, Store!Busy
  <2>4. QED
    BY <2>1, <2>2, <2>3
<1>6. QED
  BY <1>1, <1>2, <1>3, <1>4, <1>5

LEMMA ReadStep ==
  ASSUME Store!IInv, NEW w \in Executors, Store!Read(w)
  PROVE  Store!IInv'
<1> DEFINE pc == IF plan.status = "awaiting_confirmation" THEN "resume" ELSE "claim"
<1> DEFINE to == [Store!Idle EXCEPT !.version = plan.version, !.status = "running",
                                    !.pc = pc]
<1>1. /\ Store!Become(w, to) /\ executor[w].pc = "idle"
      /\ plan.status \in Store!Alive /\ plan.version < MaxPlanVersion
      /\ UNCHANGED <<planStore, plan, planRows, cleaner, given>>
  BY DEF Store!Read, Store!Alive
<1>2. /\ to \in Store!WorkerStates
      /\ to.pc = pc /\ to.version = plan.version /\ to.status = "running"
  <2>1. plan.version \in 0..MaxPlanVersion /\ pc \in {"resume", "claim"}
    BY PlanTyped DEF Store!IInv, PlanStates
  <2> HIDE DEF pc
  <2>2. /\ to \in Store!WorkerStates
        /\ to.pc = pc /\ to.version = plan.version /\ to.status = "running"
    BY <2>1, StoreAssumption DEF Store!Idle, Store!WorkerStates, Store!RowStatuses
  <2>3. QED
    BY <2>2
<1> HIDE DEF to
<1>3. executor'[w] = to
  BY <1>1, <1>2, ExecutorMoves DEF Store!IInv
<1>4. Store!WorkerOK(w)' /\ Store!InsertOK(w)'
  <2>1. plan.version <= plan.version
    BY PlanTyped, StoreAssumption DEF Store!IInv, PlanStates
  <2>2. QED
    BY <1>1, <1>2, <1>3, <2>1
    DEF Store!WorkerOK, Store!InsertOK, Store!Busy, Store!Alive, Store!Ended
<1>5. Store!Hot /\ ~cleaner.plan
  BY <1>1 DEF Store!Hot, Store!IInv, Store!CleanerOK, Store!Alive, Store!Ended
<1>6. QED
  BY <1>1, <1>2, <1>4, <1>5, WorkerStep

\* The two places that save the plan.
LEMMA SaveStep ==
  ASSUME Store!IInv, NEW w \in Executors, NEW pc \in {"claim", "renew"},
         NEW s \in {"running", "awaiting_confirmation", "completed", "failed"},
         Store!Busy(w), executor[w].status = "running", plan.version < MaxPlanVersion
                                                         \/ executor[w].pc = "resume",
         pc = "claim" => s = "running",
         pc = "renew" => executor[w].token \in Store!Tokens,
         Store!Save(w, s, pc),
         UNCHANGED <<planStore, planRows, cleaner, given>>
  PROVE  Store!IInv'
<1>1. CASE ~Store!Unchanged(w)
  BY <1>1, GivesUp DEF Store!Save
<1>2. CASE Store!Unchanged(w)
  <2> DEFINE to == [executor[w] EXCEPT !.version = plan.version + 1, !.status = s, !.pc = pc]
  <2>1. /\ plan' = [status |-> s, version |-> plan.version + 1, old |-> FALSE]
        /\ Store!Become(w, to)
    BY <1>2 DEF Store!Save
  <2>2. plan.status \in Store!Alive /\ plan.version < MaxPlanVersion
    BY <1>2 DEF Store!IInv, Store!WorkerOK, Store!Unchanged
  <2>3. /\ to \in Store!WorkerStates
        /\ to.pc = pc /\ to.version = plan.version + 1 /\ to.status = s
        /\ to.token = executor[w].token
    <3>1. plan.version + 1 \in 0..MaxPlanVersion
      BY <2>2, PlanTyped, StoreAssumption DEF PlanStates, Store!IInv
    <3>2. executor[w] \in Store!WorkerStates /\ executor[w].token \in {0} \cup Store!Tokens
      BY ExecutorTyped DEF Store!IInv, Store!WorkerStates
    <3>3. QED
      BY <3>1, <3>2 DEF Store!WorkerStates, Store!RowStatuses
  <2> HIDE DEF to
  <2>4. /\ executor' \in [Executors -> Store!WorkerStates]
        /\ executor'[w] = to
        /\ \A v \in Executors \ {w} : executor'[v] = executor[v]
    BY <2>1, <2>3, ExecutorMoves DEF Store!IInv
  <2>5. Store!WorkerOK(w)' /\ Store!InsertOK(w)'
    <3>1. plan.version + 1 <= plan.version + 1
      BY PlanTyped, StoreAssumption DEF PlanStates, Store!IInv
    <3>2. QED
      BY <2>1, <2>3, <2>4, <3>1
      DEF Store!WorkerOK, Store!InsertOK, Store!Busy, Store!Alive, Store!Ended
  <2>6. {w} \in SUBSET Executors /\ s \in Store!Ended \cup {"running", "awaiting_confirmation"}
    BY DEF Store!Ended
  <2>7. QED
    BY <2>1, <2>2, <2>4, <2>5, <2>6, PlanStep
<1>3. QED
  BY <1>1, <1>2

\* A claim is of a token that follows the last one, and nobody has it yet.
LEMMA ClaimedStep ==
  ASSUME Store!IInv, NEW w \in Executors, NEW t \in Store!Tokens,
         NEW to \in Store!WorkerStates,
         executor[w].pc \in {"claim", "insert"}, to.pc = "work", to.token = t,
         to.version = executor[w].version, to.status = executor[w].status,
         \A u \in given : u < t, t # 1 => t - 1 \in given,
         Store!Become(w, to), planRows' = Store!Claimed(t), given' = given \cup {t},
         UNCHANGED <<planStore, plan, cleaner>>
  PROVE  Store!IInv'
<1> USE DEF Store!IInv
<1>1. /\ executor' \in [Executors -> Store!WorkerStates]
      /\ executor'[w] = to
      /\ \A v \in Executors \ {w} : executor'[v] = executor[v]
  BY ExecutorMoves
<1>2. ASSUME NEW u \in Store!Tokens
      PROVE  /\ planRows'[u] \in Rows
             /\ u = t => planRows'[u].status = "running" /\ ~planRows'[u].old
             /\ u # t => /\ planRows'[u].status = "none" <=> planRows[u].status = "none"
                         /\ planRows'[u].old => planRows[u].old
  <2>1. CASE u = t
    BY <2>1 DEF Store!Claimed, Rows, Store!RowStatuses
  <2>2. CASE u # t /\ planRows[u].status = "running" /\ ~planRows[u].live
    <3>1. planRows'[u] = [planRows[u] EXCEPT !.status = "fenced", !.old = FALSE]
      BY <2>2 DEF Store!Claimed
    <3>2. QED
      BY <2>2, <3>1, RowTyped DEF Rows, Store!RowStatuses
  <2>3. CASE u # t /\ ~(planRows[u].status = "running" /\ ~planRows[u].live)
    <3>1. planRows'[u] = planRows[u]
      BY <2>3 DEF Store!Claimed
    <3>2. QED
      BY <2>3, <3>1, RowTyped
  <2>4. QED
    BY <2>1, <2>2, <2>3
<1>3. Store!TypeOK'
  <2>1. planRows' \in [Store!Tokens -> Rows]
    BY <1>2 DEF Store!Claimed
  <2>2. QED
    BY <1>1, <2>1 DEF Store!TypeOK, Rows
<1>4. (Store!Present \subseteq given)'
  BY <1>2 DEF Store!Present
<1>5. Store!CleanerOK'
  BY <1>1 DEF Store!CleanerOK, Store!Busy
<1>6. t \in Nat /\ given \subseteq Nat /\ t \notin given /\ t \notin cleaner.rows
  BY StoreAssumption DEF Store!TypeOK, Store!Tokens, Store!CleanerOK
<1>7. Store!TopOK'
  <2>1. \A u \in given' : u <= t
    <3>1. t <= t /\ \A u \in given : u <= t
      BY <1>6
    <3>2. QED
      BY <3>1
  <2>2. QED
    BY <1>2, <1>6, <2>1 DEF Store!TopOK
<1>8. Store!WorkerOK(w)' /\ Store!InsertOK(w)'
  BY <1>1 DEF Store!WorkerOK, Store!InsertOK, Store!Busy
<1>9. ASSUME NEW v \in Executors \ {w} PROVE Store!WorkerOK(v)' /\ Store!InsertOK(v)'
  <2>1. Store!WorkerOK(v)'
    BY <1>1 DEF Store!WorkerOK, Store!Busy
  <2>2. ASSUME NEW n, n = executor[v].token, executor[v].pc = "insert"
        PROVE  /\ n # 1 => n - 1 \in given'
               /\ n = t \/ (planRows'[n].status # "none" /\ ~planRows'[n].old
                              /\ n \notin cleaner.rows)
    <3>1. n \in Store!Tokens /\ n \in Nat
      BY <2>2, StoreAssumption DEF Store!WorkerOK, Store!Busy, Store!Tokens
    <3>2. CASE \A u \in given : u < n
      <4>1. n # 1 => n - 1 \in given
        BY <2>2 DEF Store!InsertOK
      <4>2. n = t
        <5>1. CASE n # 1 /\ t # 1
          BY <1>6, <3>1, <3>2, <4>1, <5>1
        <5>2. CASE n = 1
          <6>1. t # 1 => t - 1 < 1 /\ t - 1 \in Store!Tokens
            BY <3>2, <5>2 DEF Store!TypeOK
          <6>2. QED
            BY <5>2, <6>1, StoreAssumption DEF Store!Tokens
        <5>3. CASE t = 1
          <6>1. n # 1 => n - 1 < 1 /\ n - 1 \in Store!Tokens
            BY <4>1, <5>3 DEF Store!TypeOK
          <6>2. QED
            BY <3>1, <5>3, <6>1, StoreAssumption DEF Store!Tokens
        <5>4. QED
          BY <5>1, <5>2, <5>3
      <4>3. QED
        BY <4>1, <4>2
    <3>3. CASE planRows[n].status # "none" /\ ~planRows[n].old /\ n \notin cleaner.rows
      <4>1. n # 1 => n - 1 \in given'
        BY <2>2 DEF Store!InsertOK
      <4>2. QED
        BY <1>2, <3>1, <3>3, <4>1
    <3>4. QED
      BY <2>2, <3>2, <3>3 DEF Store!InsertOK
  <2>3. Store!InsertOK(v)'
    <3>1. executor'[v] = executor[v]
      BY <1>1
    <3>2. QED
      BY <1>2, <1>6, <2>2, <3>1 DEF Store!InsertOK
  <2>4. QED
    BY <2>1, <2>3
<1>10. QED
  BY <1>3, <1>4, <1>5, <1>7, <1>8, <1>9

\* A step that changes what one row says, not whether it is there.
LEMMA RowStep ==
  ASSUME Store!IInv, NEW W \in SUBSET Executors, NEW t \in Store!Tokens, NEW r \in Rows,
         r.status = "none" <=> planRows[t].status = "none",
         r.old => planRows[t].old /\ r.status = planRows[t].status,
         plan.status \in Store!Alive
           /\ planRows[t].status \in {"running", "awaiting_confirmation"}
             => r.status \in {"running", "awaiting_confirmation"},
         planRows' = [planRows EXCEPT ![t] = r],
         executor' \in [Executors -> Store!WorkerStates],
         \A v \in Executors \ W : executor'[v] = executor[v],
         \A w \in W : Store!Busy(w) /\ Store!WorkerOK(w)' /\ Store!InsertOK(w)',
         UNCHANGED <<planStore, plan, cleaner, given>>
  PROVE  Store!IInv'
<1> USE DEF Store!IInv
<1>1. planRows'[t] = r /\ \A u \in Store!Tokens \ {t} : planRows'[u] = planRows[u]
  BY DEF Store!TypeOK
<1>2. Store!TypeOK'
  BY DEF Store!TypeOK, Rows
<1>3. (Store!Present \subseteq given)'
  BY <1>1 DEF Store!Present
<1>4. Store!CleanerOK'
  BY DEF Store!CleanerOK, Store!Busy
<1>5. Store!TopOK'
  <2>1. SUFFICES ASSUME Store!Hot', given' # {} PROVE
          \E n \in given' :
            /\ \A u \in given' : u <= n
            /\ planRows'[n].status # "none" /\ n \notin cleaner'.rows
            /\ planRows'[n].old \/ plan'.status \in Store!Alive =>
                 planRows'[n].status \in {"running", "awaiting_confirmation"}
    BY DEF Store!TopOK, Store!Alive
  <2>2. Store!Hot
    BY <2>1 DEF Store!Hot, Store!Busy
  <2>3. PICK n \in given :
          /\ \A u \in given : u <= n
          /\ planRows[n].status # "none" /\ n \notin cleaner.rows
          /\ planRows[n].old \/ plan.status \in Store!Alive =>
               planRows[n].status \in {"running", "awaiting_confirmation"}
    BY <2>1, <2>2 DEF Store!TopOK
  <2>4. n \in Store!Tokens
    BY DEF Store!TypeOK
  <2>5. QED
    BY <1>1, <2>3, <2>4
<1>6. ASSUME NEW v \in Executors \ W PROVE Store!WorkerOK(v)' /\ Store!InsertOK(v)'
  <2>1. Store!WorkerOK(v)'
    BY DEF Store!WorkerOK, Store!Busy
  <2>2. ASSUME NEW n, n = executor[v].token, executor[v].pc = "insert"
        PROVE  /\ n \in Store!Tokens
               /\ planRows[n].status # "none" /\ ~planRows[n].old
                    => planRows'[n].status # "none" /\ ~planRows'[n].old
    <3>1. n \in Store!Tokens
      BY <2>2 DEF Store!WorkerOK, Store!Busy
    <3>2. QED
      BY <1>1, <3>1
  <2>3. Store!InsertOK(v)'
    <3>1. executor'[v] = executor[v]
      OBVIOUS
    <3>2. QED
      BY <2>2, <3>1 DEF Store!InsertOK
  <2>4. QED
    BY <2>1, <2>3
<1>7. QED
  BY <1>2, <1>3, <1>4, <1>5, <1>6

LEMMA TokenStep ==
  ASSUME Store!IInv, NEW w \in Executors, Store!Claim(w)
  PROVE  Store!IInv' /\ Store!RetentionIsSafe
<1>0. PICK t : t = Store!Latest + 1
  OBVIOUS
<1>1. /\ executor[w].pc = "claim" /\ Store!Busy(w) /\ Store!Hot
      /\ UNCHANGED <<planStore, plan, cleaner>> /\ plan.status # "gone"
  BY BusyIsHot DEF Store!Claim, Store!Busy, Store!IInv, Store!WorkerOK
<1>2. /\ Store!Latest \in {0} \cup given /\ given \subseteq Store!Tokens
      /\ \A u \in given : u < t
      /\ t # 1 => t - 1 \in given
  <2>1. Store!Latest \in {0} \cup given /\ (\A u \in given : u <= Store!Latest)
    BY <1>1, LatestIsLast
  <2>2. given \subseteq Nat /\ given \subseteq Store!Tokens
    BY StoreAssumption DEF Store!IInv, Store!TypeOK, Store!Tokens
  <2>3. QED
    BY <1>0, <2>1, <2>2
<1>3. CASE \E u \in Store!Tokens : Store!Active(u)
  <2>1. Store!Become(w, Store!Idle) /\ UNCHANGED <<planRows, given>>
    BY <1>3 DEF Store!Claim
  <2>2. QED
    BY <1>1, <2>1, GivesUp DEF Store!RetentionIsSafe
<1>4. CASE t \in Store!Tokens /\ planStore = "json"
                              /\ ~\E u \in Store!Tokens : Store!Active(u)
  <2> DEFINE to == [executor[w] EXCEPT !.pc = "work", !.token = t]
  <2>1. /\ Store!Become(w, to) /\ planRows' = Store!Claimed(t)
        /\ given' = given \cup {t}
    BY <1>0, <1>4 DEF Store!Claim
  <2>2. /\ to \in Store!WorkerStates /\ to.pc = "work" /\ to.token = t
        /\ to.version = executor[w].version /\ to.status = executor[w].status
    BY <1>4, ExecutorTyped DEF Store!IInv, Store!WorkerStates
  <2>3. \A u \in Store!Tokens \ {t} :
          planRows[u].status = "none" => planRows'[u].status # "running"
    BY <2>1 DEF Store!Claimed
  <2> HIDE DEF to
  <2>4. Store!IInv'
    BY <1>1, <1>2, <1>4, <2>1, <2>2, ClaimedStep
  <2>5. QED
    BY <1>1, <1>2, <2>3, <2>4 DEF Store!RetentionIsSafe
<1>5. CASE t \in Store!Tokens /\ planStore # "json"
                              /\ ~\E u \in Store!Tokens : Store!Active(u)
  <2> DEFINE to == [executor[w] EXCEPT !.pc = "insert", !.token = t]
  <2>1. Store!Become(w, to) /\ UNCHANGED <<planRows, given>>
    BY <1>0, <1>5 DEF Store!Claim
  <2>2. /\ to \in Store!WorkerStates /\ to.pc = "insert" /\ to.token = t
        /\ to.version = executor[w].version /\ to.status = executor[w].status
    BY <1>5, ExecutorTyped DEF Store!IInv, Store!WorkerStates
  <2> HIDE DEF to
  <2>3. executor'[w] = to
    BY <2>1, <2>2, ExecutorMoves DEF Store!IInv
  <2>4. Store!WorkerOK(w)'
    BY <1>1, <1>5, <2>2, <2>3 DEF Store!IInv, Store!WorkerOK, Store!Busy
  <2>5. Store!InsertOK(w)'
    BY <1>1, <1>2, <2>1, <2>2, <2>3 DEF Store!InsertOK
  <2>6. ~cleaner.plan
    BY <1>1 DEF Store!IInv, Store!CleanerOK
  <2>7. QED
    BY <1>1, <2>1, <2>2, <2>4, <2>5, <2>6, WorkerStep DEF Store!RetentionIsSafe
<1>6. QED
  BY <1>0, <1>3, <1>4, <1>5 DEF Store!Claim

LEMMA InsertStep ==
  ASSUME Store!IInv, NEW w \in Executors, Store!Insert(w)
  PROVE  Store!IInv' /\ Store!RetentionIsSafe
<1>1. /\ executor[w].pc = "insert" /\ Store!Busy(w)
      /\ UNCHANGED <<planStore, plan, cleaner>> /\ plan.status # "gone"
  BY DEF Store!Insert, Store!Busy, Store!IInv, Store!WorkerOK
<1>2. PICK t \in Store!Tokens : t = executor[w].token
  BY <1>1 DEF Store!IInv, Store!WorkerOK
<1>3. CASE planRows[t].status # "none"
  <2>1. Store!Become(w, Store!Idle) /\ UNCHANGED <<planRows, given>>
    BY <1>2, <1>3 DEF Store!Insert
  <2>2. QED
    BY <1>1, <2>1, GivesUp DEF Store!RetentionIsSafe
<1>4. CASE planRows[t].status = "none"
  <2> DEFINE to == [executor[w] EXCEPT !.pc = "work"]
  <2>1. /\ Store!Become(w, to) /\ planRows' = Store!Claimed(t)
        /\ given' = given \cup {t}
    BY <1>2, <1>4 DEF Store!Insert
  <2>2. /\ to \in Store!WorkerStates /\ to.pc = "work" /\ to.token = t
        /\ to.version = executor[w].version /\ to.status = executor[w].status
    BY <1>2, ExecutorTyped DEF Store!IInv, Store!WorkerStates
  <2>3. \A u \in Store!Tokens \ {t} :
          planRows[u].status = "none" => planRows'[u].status # "running"
    BY <2>1 DEF Store!Claimed
  <2>4. (\A u \in given : u < t) /\ (t # 1 => t - 1 \in given)
    BY <1>1, <1>2, <1>4 DEF Store!IInv, Store!InsertOK
  <2> HIDE DEF to
  <2>5. Store!IInv'
    BY <1>1, <2>1, <2>2, <2>4, ClaimedStep
  <2>6. QED
    BY <1>1, <2>3, <2>4, <2>5 DEF Store!RetentionIsSafe
<1>5. QED
  BY <1>3, <1>4

\* The fenced update of a row, in one step or in its second.
LEMMA WriteStep ==
  ASSUME Store!IInv, NEW w \in Executors,
         executor[w].pc \in {"renew", "renewing", "finish", "finishing"},
         Store!Write(w), UNCHANGED <<planStore, plan, cleaner, given>>
  PROVE  Store!IInv' /\ Store!RetentionIsSafe
<1>1. /\ Store!Busy(w) /\ ~cleaner.plan /\ plan.status # "gone"
      /\ Store!WorkerOK(w)
  BY DEF Store!Busy, Store!IInv, Store!CleanerOK, Store!WorkerOK
<1>2. PICK t \in Store!Tokens : t = executor[w].token
  BY <1>1 DEF Store!WorkerOK
<1>3. CASE planRows[t].status # "running"
  <2>1. Store!Become(w, Store!Idle) /\ UNCHANGED planRows
    BY <1>2, <1>3 DEF Store!Write
  <2>2. QED
    BY <1>1, <2>1, GivesUp DEF Store!RetentionIsSafe
<1>4. CASE planRows[t].status = "running"
  <2>1. PICK r : r = Store!Updated(w)
    OBVIOUS
  <2>2. PICK to : to = Store!After(w)
    OBVIOUS
  <2>3. planRows' = [planRows EXCEPT ![t] = r] /\ Store!Become(w, to)
    BY <1>2, <1>4, <2>1, <2>2 DEF Store!Write
  <2>4. /\ r \in Rows /\ r.status # "none" /\ ~r.old
        /\ plan.status \in Store!Alive => r.status \in {"running", "awaiting_confirmation"}
    <3>1. CASE executor[w].pc \in {"renew", "renewing"}
      <4>1. r = [planRows[t] EXCEPT !.live = TRUE, !.old = FALSE]
        BY <1>2, <2>1, <3>1 DEF Store!Updated
      <4>2. QED
        BY <1>4, <4>1, RowTyped DEF Rows, Store!IInv
    <3>2. CASE executor[w].pc \in {"finish", "finishing"}
      <4>1. r = [status |-> executor[w].status, live |-> FALSE, old |-> FALSE]
        BY <2>1, <3>2 DEF Store!Updated
      <4>2. /\ executor[w].status \in {"awaiting_confirmation", "completed", "failed"}
            /\ plan.status \in Store!Alive => executor[w].status = "awaiting_confirmation"
        BY <1>1, <3>2 DEF Store!WorkerOK, Store!Alive, Store!Ended
      <4>3. QED
        BY <4>1, <4>2 DEF Rows, Store!RowStatuses
    <3>3. QED
      BY <3>1, <3>2
  <2>5. /\ to \in Store!WorkerStates
        /\ \/ to.pc = "idle"
           \/ /\ to.version = executor[w].version /\ to.status = executor[w].status
              /\ to.token = executor[w].token
              /\ \/ to.pc = "work" /\ to.status = "running"
                 \/ to.pc = "finish" /\ to.status # "running"
    <3>1. CASE executor[w].pc \in {"renew", "renewing"} /\ executor[w].status = "running"
      <4>1. to = [executor[w] EXCEPT !.pc = "work"]
        BY <2>2, <3>1 DEF Store!After
      <4>2. QED
        BY <3>1, <4>1, ExecutorTyped DEF Store!IInv, Store!WorkerStates
    <3>2. CASE executor[w].pc \in {"renew", "renewing"} /\ executor[w].status # "running"
      <4>1. to = [executor[w] EXCEPT !.pc = "finish"]
        BY <2>2, <3>2 DEF Store!After
      <4>2. QED
        BY <3>2, <4>1, ExecutorTyped DEF Store!IInv, Store!WorkerStates
    <3>3. CASE executor[w].pc \notin {"renew", "renewing"}
      BY <2>2, <3>3, StoreAssumption
      DEF Store!After, Store!Idle, Store!WorkerStates, Store!RowStatuses
    <3>4. QED
      BY <3>1, <3>2, <3>3
  <2>6. /\ executor' \in [Executors -> Store!WorkerStates]
        /\ executor'[w] = to
        /\ \A v \in Executors \ {w} : executor'[v] = executor[v]
    BY <2>3, <2>5, ExecutorMoves DEF Store!IInv
  <2>7. Store!WorkerOK(w)' /\ Store!InsertOK(w)'
    BY <1>1, <2>5, <2>6 DEF Store!WorkerOK, Store!InsertOK, Store!Busy
  <2>8. Store!IInv'
    <3>1. {w} \in SUBSET Executors
      OBVIOUS
    <3>2. /\ r.status = "none" <=> planRows[t].status = "none"
          /\ r.old => planRows[t].old /\ r.status = planRows[t].status
          /\ (plan.status \in Store!Alive
               /\ planRows[t].status \in {"running", "awaiting_confirmation"})
               => r.status \in {"running", "awaiting_confirmation"}
      BY <1>4, <2>4
    <3>3. \A v \in {w} : Store!Busy(v) /\ Store!WorkerOK(v)' /\ Store!InsertOK(v)'
      BY <1>1, <2>7
    <3>4. r \in Rows
      BY <2>4
    <3>5. /\ \A v \in Executors \ {w} : executor'[v] = executor[v]
          /\ executor' \in [Executors -> Store!WorkerStates]
          /\ planRows' = [planRows EXCEPT ![t] = r]
      BY <2>3, <2>6
    <3>6. QED
      BY <3>1, <3>2, <3>3, <3>4, <3>5, RowStep
  <2>9. \A u \in Store!Tokens : planRows[u].status = "none" => planRows'[u].status = "none"
    BY <1>4, <2>3 DEF Store!IInv, Store!TypeOK
  <2>10. QED
    BY <1>1, <2>8, <2>9 DEF Store!RetentionIsSafe
<1>5. QED
  BY <1>3, <1>4

LEMMA UpdateStep ==
  ASSUME Store!IInv, NEW w \in Executors, Store!Update(w)
  PROVE  Store!IInv' /\ Store!RetentionIsSafe
<1>1. /\ executor[w].pc \in {"renew", "finish"} /\ Store!Busy(w) /\ Store!Hot
      /\ UNCHANGED <<planStore, plan, cleaner, given>>
      /\ ~cleaner.plan /\ plan.status # "gone" /\ Store!WorkerOK(w)
  BY BusyIsHot
  DEF Store!Update, Store!Busy, Store!IInv, Store!CleanerOK, Store!WorkerOK
<1>2. CASE Store!Latest # executor[w].token
  <2>1. Store!Become(w, Store!Idle) /\ UNCHANGED planRows
    BY <1>2 DEF Store!Update
  <2>2. QED
    BY <1>1, <2>1, GivesUp DEF Store!RetentionIsSafe
<1>3. CASE Store!Latest = executor[w].token /\ planStore = "json"
  <2>1. Store!Write(w)
    BY <1>3 DEF Store!Update
  <2>2. QED
    BY <1>1, <2>1, WriteStep
<1>4. CASE Store!Latest = executor[w].token /\ planStore # "json"
  <2> DEFINE pc == IF executor[w].pc = "renew" THEN "renewing" ELSE "finishing"
  <2> DEFINE to == [executor[w] EXCEPT !.pc = pc]
  <2>1. Store!Become(w, to) /\ UNCHANGED planRows
    BY <1>4 DEF Store!Update
  <2>2. /\ to \in Store!WorkerStates /\ to.pc = pc /\ to.token = executor[w].token
        /\ to.version = executor[w].version /\ to.status = executor[w].status
    BY ExecutorTyped DEF Store!IInv, Store!WorkerStates
  <2> HIDE DEF to
  <2>3. executor'[w] = to
    BY <2>1, <2>2, ExecutorMoves DEF Store!IInv
  <2>4. Store!WorkerOK(w)' /\ Store!InsertOK(w)'
    BY <1>1, <2>2, <2>3 DEF Store!WorkerOK, Store!InsertOK, Store!Busy
  <2>5. QED
    BY <1>1, <2>1, <2>2, <2>4, WorkerStep DEF Store!RetentionIsSafe
<1>5. QED
  BY <1>2, <1>3, <1>4

LEMMA HeartbeatStep ==
  ASSUME Store!IInv, NEW w \in Executors, Store!Heartbeat(w)
  PROVE  Store!IInv'
<1> DEFINE to == [executor[w] EXCEPT !.pc = "renew"]
<1>1. /\ executor[w].pc = "work" /\ Store!Busy(w) /\ Store!Hot /\ Store!Become(w, to)
      /\ UNCHANGED <<planStore, plan, planRows, cleaner, given>>
      /\ ~cleaner.plan /\ Store!WorkerOK(w)
  BY BusyIsHot DEF Store!Heartbeat, Store!Busy, Store!IInv, Store!CleanerOK
<1>2. /\ to \in Store!WorkerStates /\ to.pc = "renew" /\ to.token = executor[w].token
      /\ to.version = executor[w].version /\ to.status = executor[w].status
  BY ExecutorTyped DEF Store!IInv, Store!WorkerStates
<1> HIDE DEF to
<1>3. executor'[w] = to
  BY <1>1, <1>2, ExecutorMoves DEF Store!IInv
<1>4. Store!WorkerOK(w)' /\ Store!InsertOK(w)'
  BY <1>1, <1>2, <1>3 DEF Store!WorkerOK, Store!InsertOK, Store!Busy
<1>5. QED
  BY <1>1, <1>2, <1>4, WorkerStep

LEMMA EndPlanStep ==
  ASSUME Store!IInv, Store!EndPlan
  PROVE  Store!IInv'
<1>1. PICK s \in {"cancelled", "expired"} :
        plan' = [status |-> s, version |-> plan.version + 1, old |-> FALSE]
  BY DEF Store!EndPlan
<1>2. /\ plan.status \in Store!Alive /\ plan.version < MaxPlanVersion
      /\ UNCHANGED <<planStore, planRows, executor, cleaner, given>>
  BY DEF Store!EndPlan, Store!Alive
<1>3. /\ executor' \in [Executors -> Store!WorkerStates]
      /\ \A v \in Executors \ {} : executor'[v] = executor[v]
      /\ \A v \in {} : Store!WorkerOK(v)' /\ Store!InsertOK(v)'
      /\ {} \in SUBSET Executors
  BY <1>2 DEF Store!IInv, Store!TypeOK
<1>4. s \in Store!Ended \cup {"running", "awaiting_confirmation"}
  BY DEF Store!Ended
<1>5. QED
  BY <1>1, <1>2, <1>3, <1>4, PlanStep

LEMMA LeaseStep ==
  ASSUME Store!IInv, NEW t \in Store!Tokens, Store!LeaseExpires(t)
  PROVE  Store!IInv' /\ Store!RetentionIsSafe
<1> DEFINE r == [planRows[t] EXCEPT !.live = FALSE]
<1>1. /\ planRows' = [planRows EXCEPT ![t] = r]
      /\ UNCHANGED <<planStore, plan, executor, cleaner, given>>
  BY DEF Store!LeaseExpires
<1>2. r \in Rows /\ r.status = planRows[t].status /\ r.old = planRows[t].old
  BY RowTyped DEF Rows, Store!IInv
<1> HIDE DEF r
<1>3. /\ executor' \in [Executors -> Store!WorkerStates]
      /\ \A v \in Executors \ {} : executor'[v] = executor[v]
      /\ \A v \in {} : Store!Busy(v) /\ Store!WorkerOK(v)' /\ Store!InsertOK(v)'
      /\ {} \in SUBSET Executors
  BY <1>1 DEF Store!IInv, Store!TypeOK
<1>4. Store!IInv'
  <2>1. /\ r.status = "none" <=> planRows[t].status = "none"
        /\ r.old => planRows[t].old /\ r.status = planRows[t].status
        /\ (plan.status \in Store!Alive
             /\ planRows[t].status \in {"running", "awaiting_confirmation"})
             => r.status \in {"running", "awaiting_confirmation"}
    BY <1>2
  <2>2. r \in Rows
    BY <1>2
  <2>3. QED
    BY <1>1, <1>3, <2>1, <2>2, RowStep
<1>5. \A u \in Store!Tokens : planRows'[u].status = planRows[u].status
  BY <1>1, <1>2 DEF Store!IInv, Store!TypeOK
<1>6. QED
  BY <1>1, <1>4, <1>5 DEF Store!RetentionIsSafe

\* Once nobody is at work, and from then on.
LEMMA QuietOK ==
  ASSUME \A w \in Executors : ~Store!Busy(w), UNCHANGED executor
  PROVE  \A w \in Executors : Store!WorkerOK(w)' /\ Store!InsertOK(w)'
BY DEF Store!Busy, Store!WorkerOK, Store!InsertOK

LEMMA AgeStep ==
  ASSUME Store!IInv, Store!Age
  PROVE  Store!IInv' /\ Store!RetentionIsSafe
<1> USE DEF Store!IInv
<1>1. /\ \A w \in Executors : ~Store!Busy(w)
      /\ UNCHANGED <<planStore, executor, cleaner, given>>
      /\ plan' = [plan EXCEPT !.old = TRUE]
  BY DEF Store!Age, Store!Busy
<1>2. ASSUME NEW t \in Store!Tokens
      PROVE  planRows'[t] \in Rows /\ planRows'[t].status = planRows[t].status
  <2>1. CASE planRows[t].status = "none"
    BY <2>1 DEF Store!Age, Store!NoRow, Rows, Store!RowStatuses
  <2>2. CASE planRows[t].status # "none"
    <3>1. planRows'[t] = [planRows[t] EXCEPT !.old = TRUE]
      BY <2>2 DEF Store!Age
    <3>2. QED
      BY <3>1, RowTyped DEF Rows
  <2>3. QED
    BY <2>1, <2>2
<1>3. plan' \in PlanStates /\ plan'.status = plan.status
  BY <1>1, PlanTyped DEF PlanStates
<1>4. Store!TypeOK'
  <2>1. planRows' \in [Store!Tokens -> Rows]
    BY <1>2 DEF Store!Age
  <2>2. QED
    BY <1>1, <1>3, <2>1 DEF Store!TypeOK, Rows, PlanStates
<1>5. (Store!Present \subseteq given)' /\ Store!CleanerOK'
  BY <1>1, <1>2, <1>3 DEF Store!Present, Store!CleanerOK, Store!Busy
<1>6. Store!TopOK'
  <2>1. SUFFICES ASSUME Store!Hot', given' # {} PROVE
          \E n \in given' :
            /\ \A u \in given' : u <= n
            /\ planRows'[n].status # "none" /\ n \notin cleaner'.rows
            /\ planRows'[n].old \/ plan'.status \in Store!Alive =>
                 planRows'[n].status \in {"running", "awaiting_confirmation"}
    BY DEF Store!TopOK, Store!Alive
  <2>2. plan.status \in Store!Alive /\ Store!Hot
    BY <1>1, <1>3, <2>1 DEF Store!Hot, Store!Busy, Store!Alive
  <2>3. PICK n \in given :
          /\ \A u \in given : u <= n
          /\ planRows[n].status # "none" /\ n \notin cleaner.rows
          /\ planRows[n].status \in {"running", "awaiting_confirmation"}
    BY <1>1, <2>1, <2>2 DEF Store!TopOK
  <2>4. n \in Store!Tokens
    BY DEF Store!TypeOK
  <2>5. QED
    BY <1>1, <1>2, <2>3, <2>4
<1>7. QED
  BY <1>1, <1>2, <1>3, <1>4, <1>5, <1>6, QuietOK DEF Store!RetentionIsSafe

\* An old plan that has ended is in nobody's hands.
LEMMA DoneIsQuiet ==
  ASSUME Store!IInv, plan.old, plan.status \in Store!Ended
  PROVE  (\A w \in Executors : ~Store!Busy(w)) /\ ~Store!Hot
BY DEF Store!IInv, Store!WorkerOK, Store!Hot, Store!Alive, Store!Ended

LEMMA SelectStep ==
  ASSUME Store!IInv, Store!Select
  PROVE  Store!IInv' /\ Store!RetentionIsSafe
<1> USE DEF Store!IInv
<1>1. UNCHANGED <<planStore, plan, planRows, executor, given>>
  BY DEF Store!Select
<1>2. CASE Store!PlanIsDone
  <2>1. cleaner' = [pc |-> "delete", plan |-> TRUE, rows |-> Store!Present]
    BY <1>2 DEF Store!Select
  <2>2. plan.status \in Store!Ended /\ ~Store!Hot /\ \A w \in Executors : ~Store!Busy(w)
    BY <1>2, DoneIsQuiet DEF Store!PlanIsDone
  <2>3. Store!TypeOK'
    BY <1>1, <2>1 DEF Store!TypeOK, Store!Present
  <2>4. (Store!Present \subseteq given)' /\ Store!CleanerOK'
    BY <1>1, <2>1, <2>2 DEF Store!Present, Store!CleanerOK, Store!Busy
  <2>5. Store!TopOK'
    BY <1>1, <2>2 DEF Store!TopOK, Store!Hot, Store!Busy
  <2>6. QED
    BY <1>1, <2>2, <2>3, <2>4, <2>5, QuietOK DEF Store!RetentionIsSafe, Store!Ended
<1>3. CASE ~Store!PlanIsDone
  <2>1. cleaner' = [pc |-> "delete", plan |-> FALSE,
                    rows |-> {t \in Store!Tokens : Store!RowIsDone(t)}]
    <3>1. Store!PlanIsDone = FALSE
      BY <1>3 DEF Store!PlanIsDone
    <3>2. QED
      BY <3>1 DEF Store!Select
  <2>2. \A t \in cleaner'.rows :
          /\ t \in Store!Tokens /\ planRows[t].old
          /\ planRows[t].status \in {"completed", "failed", "cancelled", "fenced"}
    BY <2>1 DEF Store!RowIsDone
  <2>3. Store!TypeOK'
    BY <1>1, <2>1 DEF Store!TypeOK
  <2>4. (Store!Present \subseteq given)'
    BY <1>1 DEF Store!Present
  <2>5. Store!CleanerOK'
    BY <1>1, <2>1, <2>2 DEF Store!Present, Store!CleanerOK
  <2>6. Store!TopOK'
    BY <1>1, <2>2 DEF Store!TopOK, Store!Hot, Store!Busy
  <2>7. ASSUME NEW v \in Executors PROVE Store!WorkerOK(v)' /\ Store!InsertOK(v)'
    <3>1. Store!WorkerOK(v)'
      BY <1>1 DEF Store!WorkerOK, Store!Busy
    <3>2. Store!InsertOK(v)'
      BY <1>1, <2>2 DEF Store!InsertOK
    <3>3. QED
      BY <3>1, <3>2
  <2>8. plan'.status = "gone" => plan.status \in Store!Ended \cup {"gone"}
    BY <1>1
  <2>9. QED
    BY <1>1, <2>3, <2>4, <2>5, <2>6, <2>7, <2>8 DEF Store!RetentionIsSafe
<1>4. QED
  BY <1>2, <1>3

\* A step that deletes: the rows of D, and the plan if nobody is at work on it.
LEMMA DeletionStep ==
  ASSUME Store!IInv, NEW D \in SUBSET Store!Tokens,
         planRows' = [t \in Store!Tokens |-> IF t \in D THEN Store!NoRow ELSE planRows[t]],
         \/ UNCHANGED plan
         \/ /\ plan' = [plan EXCEPT !.status = "gone"]
            /\ plan.status \in Store!Ended \cup {"gone"}
            /\ \A w \in Executors : ~Store!Busy(w),
         Store!Hot => \A t \in D : t \in cleaner.rows
                        \/ planRows[t].status = "none"
                        \/ (planRows[t].old /\ planRows[t].status \notin
                                                 {"running", "awaiting_confirmation"}),
         cleaner' \in {cleaner, Store!Rest},
         UNCHANGED <<planStore, executor, given>>
  PROVE  Store!IInv' /\ Store!RetentionIsSafe
<1> USE DEF Store!IInv
<1>1. Store!NoRow \in Rows /\ Store!NoRow.status = "none"
  BY DEF Store!NoRow, Rows, Store!RowStatuses
<1>2. ASSUME NEW t \in Store!Tokens
      PROVE  /\ planRows'[t] \in Rows
             /\ planRows'[t].status # "none" => planRows'[t] = planRows[t]
             /\ t \notin D => planRows'[t] = planRows[t]
  BY <1>1, RowTyped
<1>3. plan' \in PlanStates /\ (plan'.status \in Store!Alive => UNCHANGED plan)
  BY PlanTyped DEF PlanStates, Store!Alive
<1>4. /\ cleaner'.plan => cleaner.plan
      /\ cleaner'.rows \subseteq cleaner.rows
      /\ cleaner' \in [pc : {"idle", "delete"}, plan : BOOLEAN, rows : SUBSET Store!Tokens]
  <2>1. CASE cleaner' = cleaner
    BY <2>1 DEF Store!TypeOK
  <2>2. CASE cleaner' = Store!Rest
    BY <2>2 DEF Store!Rest
  <2>3. QED
    BY <2>1, <2>2
<1>5. Store!TypeOK'
  <2>1. planRows' \in [Store!Tokens -> Rows]
    BY <1>2
  <2>2. QED
    BY <1>3, <1>4, <2>1 DEF Store!TypeOK, Rows, PlanStates
<1>6. (Store!Present \subseteq given)'
  BY <1>1, <1>2 DEF Store!Present
<1>7. Store!CleanerOK'
  <2>1. plan.status \in Store!Ended \cup {"gone"} => plan'.status \in Store!Ended \cup {"gone"}
    BY PlanTyped DEF PlanStates
  <2>2. QED
    BY <1>4, <2>1 DEF Store!CleanerOK, Store!Busy
<1>8. Store!Hot' => Store!Hot
  BY <1>3 DEF Store!Hot, Store!Busy
<1>9. Store!TopOK'
  <2>1. SUFFICES ASSUME Store!Hot', given' # {} PROVE
          \E n \in given' :
            /\ \A u \in given' : u <= n
            /\ planRows'[n].status # "none" /\ n \notin cleaner'.rows
            /\ planRows'[n].old \/ plan'.status \in Store!Alive =>
                 planRows'[n].status \in {"running", "awaiting_confirmation"}
    BY DEF Store!TopOK, Store!Alive
  <2>2. PICK n \in given :
          /\ \A u \in given : u <= n
          /\ planRows[n].status # "none" /\ n \notin cleaner.rows
          /\ planRows[n].old \/ plan.status \in Store!Alive =>
               planRows[n].status \in {"running", "awaiting_confirmation"}
    BY <1>8, <2>1 DEF Store!TopOK
  <2>3. n \in Store!Tokens /\ n \notin D
    BY <1>8, <2>1, <2>2 DEF Store!TypeOK
  <2>4. QED
    BY <1>2, <1>3, <1>4, <2>2, <2>3
<1>10. ASSUME NEW v \in Executors PROVE Store!WorkerOK(v)' /\ Store!InsertOK(v)'
  <2>1. CASE ~Store!Busy(v)
    BY <2>1 DEF Store!Busy, Store!WorkerOK, Store!InsertOK
  <2>2. CASE Store!Busy(v)
    <3>1. UNCHANGED plan /\ Store!Hot
      BY <2>2 DEF Store!Hot
    <3>2. Store!WorkerOK(v)'
      BY <3>1 DEF Store!WorkerOK, Store!Busy
    <3>3. ASSUME NEW n, n = executor[v].token, executor[v].pc = "insert",
                 planRows[n].status # "none", ~planRows[n].old, n \notin cleaner.rows
          PROVE  planRows'[n].status # "none" /\ ~planRows'[n].old /\ n \notin cleaner'.rows
      <4>1. n \in Store!Tokens
        BY <2>2, <3>3 DEF Store!WorkerOK
      <4>2. n \notin D
        BY <3>1, <3>3
      <4>3. QED
        BY <1>2, <1>4, <3>3, <4>1, <4>2
    <3>4. Store!InsertOK(v)'
      BY <3>3 DEF Store!InsertOK
    <3>5. QED
      BY <3>2, <3>4
  <2>3. QED
    BY <2>1, <2>2
<1>11. Store!RetentionIsSafe
  <2>1. \A t \in Store!Tokens : planRows[t].status = "none" => planRows'[t].status = "none"
    BY <1>1, <1>2
  <2>2. plan'.status = "gone" => plan.status \in Store!Ended \cup {"gone"}
    OBVIOUS
  <2>3. QED
    BY <2>1, <2>2 DEF Store!RetentionIsSafe
<1>12. QED
  BY <1>5, <1>6, <1>7, <1>9, <1>10, <1>11

LEMMA CleanupStep ==
  ASSUME Store!IInv,
         Store!Delete \/ Store!SkipDelete \/ Store!CleanRuns \/ Store!CleanPlan
  PROVE  Store!IInv' /\ Store!RetentionIsSafe
<1>1. planRows = [t \in Store!Tokens |-> IF t \in {} THEN Store!NoRow ELSE planRows[t]]
  BY DEF Store!IInv, Store!TypeOK
<1>2. CASE Store!Delete
  <2>1. /\ planRows' = [t \in Store!Tokens |-> IF t \in cleaner.rows THEN Store!NoRow
                                                                    ELSE planRows[t]]
        /\ plan' = IF cleaner.plan THEN [plan EXCEPT !.status = "gone"] ELSE plan
        /\ cleaner' = Store!Rest /\ UNCHANGED <<planStore, executor, given>>
    BY <1>2 DEF Store!Delete
  <2>2. cleaner.rows \in SUBSET Store!Tokens
    BY DEF Store!IInv, Store!TypeOK
  <2>3. \/ UNCHANGED plan
        \/ /\ plan' = [plan EXCEPT !.status = "gone"]
           /\ plan.status \in Store!Ended \cup {"gone"}
           /\ \A w \in Executors : ~Store!Busy(w)
    BY <2>1 DEF Store!IInv, Store!CleanerOK
  <2>4. QED
    BY <2>1, <2>2, <2>3, DeletionStep
<1>3. CASE Store!SkipDelete
  <2>1. {} \in SUBSET Store!Tokens /\ cleaner' \in {cleaner, Store!Rest}
        /\ UNCHANGED <<planStore, plan, planRows, executor, given>>
    BY <1>3 DEF Store!SkipDelete
  <2>2. QED
    BY <1>1, <2>1, DeletionStep
<1>4. CASE Store!CleanRuns
  <2>1. /\ planRows' = [t \in Store!Tokens |-> IF t \in Store!Tokens THEN Store!NoRow
                                                                    ELSE planRows[t]]
        /\ UNCHANGED <<planStore, plan, executor, cleaner, given>>
        /\ Store!Tokens \in SUBSET Store!Tokens
        /\ \A t \in Store!Tokens :
             \/ planRows[t].status = "none"
             \/ (planRows[t].old /\ planRows[t].status \notin
                                      {"running", "awaiting_confirmation"})
    BY <1>4 DEF Store!CleanRuns, Store!Present
  <2>2. QED
    BY <2>1, DeletionStep
<1>5. CASE Store!CleanPlan
  <2>1. /\ plan' = [plan EXCEPT !.status = "gone"]
        /\ plan.status \in Store!Ended \cup {"gone"}
        /\ \A w \in Executors : ~Store!Busy(w)
        /\ UNCHANGED <<planStore, planRows, executor, cleaner, given>>
        /\ {} \in SUBSET Store!Tokens
    BY <1>5, DoneIsQuiet DEF Store!CleanPlan
  <2>2. QED
    BY <1>1, <2>1, DeletionStep
<1>6. QED
  BY <1>2, <1>3, <1>4, <1>5

LEMMA SavesStep ==
  ASSUME Store!IInv, NEW w \in Executors, Store!SaveResumed(w) \/ Store!SaveCheckpoint(w)
  PROVE  Store!IInv'
<1>1. /\ Store!Busy(w) /\ executor[w].status = "running"
      /\ executor[w].pc = "work" => executor[w].token \in Store!Tokens
  BY DEF Store!SaveResumed, Store!SaveCheckpoint, Store!IInv, Store!WorkerOK, Store!Busy
<1>2. CASE Store!SaveResumed(w)
  BY <1>1, <1>2, SaveStep DEF Store!SaveResumed
<1>3. CASE Store!SaveCheckpoint(w)
  <2>1. PICK s \in {"running", "awaiting_confirmation", "completed", "failed"} :
          Store!Save(w, s, "renew")
    BY <1>3 DEF Store!SaveCheckpoint
  <2>2. executor[w].pc = "work" /\ plan.version < MaxPlanVersion
        /\ UNCHANGED <<planStore, planRows, cleaner, given>>
    BY <1>3 DEF Store!SaveCheckpoint
  <2>3. QED
    BY <1>1, <2>1, <2>2, SaveStep
<1>4. QED
  BY <1>2, <1>3

\* A save never deletes the plan, and touches no row.
LEMMA SavesAreSafe ==
  ASSUME Store!IInv, NEW w \in Executors,
         Store!Read(w) \/ Store!SaveResumed(w) \/ Store!SaveCheckpoint(w)
           \/ Store!Heartbeat(w) \/ Store!Die(w) \/ Store!EndPlan
  PROVE  Store!RetentionIsSafe
<1>1. UNCHANGED planRows
  BY DEF Store!Read, Store!SaveResumed, Store!SaveCheckpoint, Store!Heartbeat,
    Store!Die, Store!EndPlan
<1>2. plan'.status # "gone" \/ UNCHANGED plan
  BY DEF Store!Read, Store!SaveResumed, Store!SaveCheckpoint, Store!Heartbeat,
    Store!Die, Store!EndPlan, Store!Save
<1>3. QED
  BY <1>1, <1>2 DEF Store!RetentionIsSafe

LEMMA StoreNext ==
  ASSUME Store!IInv, Store!Next
  PROVE  Store!IInv' /\ Store!RetentionIsSafe
<1>1. ASSUME NEW w \in Executors,
             \/ Store!Read(w) \/ Store!SaveResumed(w) \/ Store!SaveCheckpoint(w)
             \/ Store!Heartbeat(w) \/ Store!Die(w)
      PROVE  Store!IInv' /\ Store!RetentionIsSafe
  <2>1. Store!Die(w) => Store!IInv'
    BY GivesUp DEF Store!Die, Store!Busy
  <2>2. QED
    BY <1>1, <2>1, ReadStep, SavesStep, HeartbeatStep, SavesAreSafe
<1>2. ASSUME NEW w \in Executors, Store!UpdateWrites(w)
      PROVE  Store!IInv' /\ Store!RetentionIsSafe
  BY <1>2, WriteStep DEF Store!UpdateWrites
<1>3. CASE Store!EndPlan
  <2>1. Store!IInv' /\ UNCHANGED planRows /\ plan'.status # "gone"
    BY <1>3, EndPlanStep DEF Store!EndPlan
  <2>2. QED
    BY <2>1 DEF Store!RetentionIsSafe
<1>4. QED
  BY <1>1, <1>2, <1>3, TokenStep, InsertStep, UpdateStep, LeaseStep, AgeStep, SelectStep,
    CleanupStep DEF Store!Next

LEMMA StoreInvariant ==
  Store!Spec => /\ []Store!IInv
                /\ RetentionIsSafe
<1>1. Store!IInv /\ UNCHANGED Store!vars => Store!IInv'
  <2> SUFFICES ASSUME Store!IInv, UNCHANGED Store!vars PROVE Store!IInv'
    OBVIOUS
  <2>1. UNCHANGED <<planStore, plan, planRows, executor, cleaner, given>>
    BY DEF Store!vars
  <2>2. QED
    BY <2>1 DEF Store!IInv, Store!TypeOK, Store!Present, Store!CleanerOK, Store!TopOK,
      Store!Hot, Store!Busy, Store!WorkerOK, Store!InsertOK
<1>2. Store!IInv /\ [Store!Next]_Store!vars =>
        Store!IInv' /\ [Store!RetentionIsSafe]_<<planStore, plan, planRows, executor,
                                                cleaner, given>>
  BY <1>1, StoreNext DEF Store!vars
<1>3. QED
  BY StoreInit, <1>2, PTL DEF Store!Spec, RetentionIsSafe

\* Retention deletes only plans that ended, and for all it deletes, and whoever
\* it races, the tokens that fence a plan's workers go up and never come back,
\* for every number of workers, of tokens and of versions.
THEOREM RetentionHolds == Store!Spec => RetentionIsSafe
BY StoreInvariant

=============================================================================
