# Formal model of the after-sale agent platform

TLA+ models of the concurrent and failure-prone parts of `src/app`, checked with
TLC on small instances and proved with TLAPS for every instance where that is
possible. `PROJECT.json` lists the runs, the theorems, the source lines each
definition translates, and the hazards the properties are aimed at.

## The system

A Python service answers customers of a shop. Requests become background *runs*
executed by worker processes; an Agent inside a run reads data, proposes actions
the customer must confirm, and opens after-sale cases; approved refunds leave
through an outbox to a payment provider; humans may take a conversation over.
All shared state lives in one SQL database; processes coordinate through leases,
fencing tokens, version columns and unique indexes only.

| Component | State | Operations | Correct when |
|---|---|---|---|
| Background runs (`repositories/runs.py`, `services/runs.py`, `services/run_context.py`) | `agent_runs`: status, owner, fence, version, lease, attempts, cancel state, journal of external calls, session snapshot | submit, claim, heartbeat, call, finish, hand over, fail, cancel, replay | no write is sent twice, an unknown write is never forgotten, a stale worker changes nothing, every run settles |
| Conversation history and ownership (`repositories/session.py`, `platform/conversation_handoff.py`) | `sessions`, `conversation_ownership` | save, delete, take over, release, revise | nothing the Agent says is published once a human holds the conversation; the history loses nothing |
| Lease queue (`repositories/delivery.py`) | messages with status, attempt, fence, lease | enqueue, claim, guard, finish | one holder at a time, attempts bounded |
| Refund pipeline (`services/refund_workflow.py`, `services/refund_delivery.py`) | operation, case, outbox message, query job, inbox | enqueue, dispatch, reconcile, receive, requeue | what the customer is told is what the provider did |
| Commerce sandbox (`sandbox/store.py`) | refunds by key and by order, events | submit, settle, query, compensate | one refund per key and per order |
| After-sale cases (`agent/after_sale/service.py`) | case with version and status | create, review, execute, recover, compensate | one active case per order; a case is closed as its refund ended |
| Trusted actions (`services/actions.py`, `services/tool_execution.py`) | proposals with status, bound arguments and business version | propose, confirm, claim, dispatch, finish, reject, invalidate | nothing is dispatched unconfirmed, stale, twice, or under a human's nose |
| Plan runs (`repositories/plan_runs.py`, `agent/strategies/`) | plan, steps, leases, checkpoints | execute, checkpoint, cancel, resume | what a plan reports is what its tools did; one executor at a time; only what the customer was asked is confirmed |
| Direct execution, compensation (`agent/after_sale/operation_repository.py`, `services/compensations.py`) | operations and compensations with version, owner, attempts | claim, call, complete, recover, settle by hand | a reported success is real and stays |
| Connectors and inventory (`platform/connector_delivery.py`, `connectors.py`, `inventory.py`) | contract, operation, job; the shop's reservations | propose, confirm, query, reserve, release, register, drift | stock is taken once per command; what is reported was done |
| MCP tools (`agent/tools/manager.py`, `mcp_client/client.py`, `platform/connectors.py`) | the server's tools, the approved contract, the run's copy of it | connect, pin, verify, disable, fall back, admit, call | a remote tool is called only on the contract in force; a local one never replaces it in silence |
| Intake (`platform/after_sale_intake.py`) | form with a revision, receipts, proposals | update, propose, withdraw, execute | only the proposal of the form as it stands can be confirmed |
| Budget ledger and gateway (`platform/budget.py`, `infrastructure/model_gateway.py`) | accounts, calls with a lease | reserve, settle, expire, reconcile | the totals are the sum of the calls, real use stays within the budget |
| Knowledge (`platform/knowledge*.py`, `retrieval.py`) | versions, releases, jobs, head, tombstones, cache | import, build, activate, delete, collect, search | imports end, ready stays ready, nothing withdrawn is returned |
| Configuration releases (`platform/releases.py`) | releases with evidence, head, assignments | draft, evaluate, deploy, assign | what serves was evaluated in full; a session keeps its release |
| Reviews (`platform/reviews.py`, `review_dataset.py`) | annotations under revisions | save, import drafts, export, apply | an export is one moment and the data set accepts it |
| Risk rules (`repositories/policies.py`) | versions | draft, activate, roll back | one is active |
| HTTP idempotency (`services/idempotency.py`) | keys with body and response | execute, replay | a key takes effect once |
| Retention (`services/data_maintenance.py`) | cut-off dates | select, delete | nothing in use, and no fencing token, is lost |

Hard behaviours: workers that die or lose their lease in the middle of a call;
heartbeats racing claims; cancels and takeovers landing between a check and a
write; answers lost after the provider committed; callbacks late, repeated or out
of order; operators' requests racing the outcome.

## Modules

| Module | Models |
|---|---|
| `RunQueue` | the run queue with history and ownership |
| `RunQueueProofs` | its theorems |
| `LeaseQueue` | one message of a lease queue, as operators |
| `RefundDelivery` | cases, operations, outbox, query jobs, callbacks, provider |
| `RefundPromise` | what the refund pipeline promises, abstractly |
| `RefundDeliveryProofs` | its theorems, the refinement included |
| `TrustedActions` | proposals, confirmations, claims and dispatches of one conversation |
| `TrustedActionsProofs` | its theorems |
| `DirectRefund` | cases executed without the outbox: review, claim, call, outcome, recovery |
| `Compensation` | the reversal of succeeded refunds |
| `PlanRun` | one plan: checkpoints, leases, scheduler, calls, confirmation, recovery |
| `PlanStore` | the stores of plans and of their runs, SQL and JSON, and retention |
| `StepGovernor` | budget and circuit breaker of plan steps |
| `CaseCreation` | creation keys, the one active case of an order, saves |
| `Intake`, `InventoryDelivery` | proposals from a form; inventory commands |
| `RemoteTools` | the tools of an MCP server, their contract and the fallback to local ones |
| `ModelBudget` | the token ledger behind the gateway's retries |
| `KnowledgeJobs`, `KnowledgeServing` | imports and builds; activation, deletion, search and cache |
| `ConfigReleases`, `Reviews`, `PolicyRules`, `ApiIdempotency` | as named |
| `Conversation` | the messages of a conversation across turns, compression and errors |
| `Operations` | `DirectRefund`, `Compensation` and `PlanRun` side by side: parameters, assumptions, joint properties |
| `OperationsProofs`, `PlanRunProofs` | the theorems about them |
| `Platform` | eleven of the components above side by side: parameters, assumptions, joint properties |
| `PlatformProofs` | theorems: keys, cases, rules, configuration releases, intake |
| `ServingProofs` | theorems: knowledge in service, reviews, remote tools |
| `DeliveryProofs` | theorems: inventory, imports and builds, plan stores |
| `MCRunQueue`, `MCRefundDelivery`, `MCTrustedActions`, `MCPlanRun` | instances of one module |
| `MCOperations`, `MCPlatform`, `MCSettles` | instances of several modules, one at a time |

### RunQueue

A record of `run` is a row of `agent_runs`. Every change of a row is a
compare-and-swap on `version`, so a worker's mutation is two steps: `ReadRow`
remembers the version, and one commit action per event (`StoreSnapshot`,
`BeginCall`, `CompleteCall`, `HandoffMarks`, `Finish`, `Fail`) succeeds only while
it stands (`Conflict` otherwise, with a retry limit). `wk[w].pc` is the place in
`RunWorker.run_once`. A lease is a flag that time drops (`LeaseExpires`).
`sent[r][c]` is a history variable: how often the operation of call `c` was
invoked.

Left out: the FIFO order and limit of `claim`; a mismatch of execution versions
(impossible inside one build); usage observers and plan checkpoints, which only
bump the version; retry delays, which are just time; resubmission under the same
key, which changes nothing; threads inside the Agent. A lease pending on a plan is
a transient error. `Heartbeat` is a little more liberal than the code: it may
revive a lease even when a cancel request moved the version in between.

Bounds: `MaxVersion`, `MaxCancel`, `MaxReplay` and `MaxOwnership` stop heartbeats,
cancel requests, replays and ownership changes. Two workers, two attempts and one
replay are enough for a stale worker, its successor and a third attempt to meet on
one row; two runs of one conversation with takeovers and releases (`MaxOwnership` 4) let a
stale hand-over meet a later run, and a later takeover.

`HistoryHoldsPublishedAnswers` says that a committed history holds the answer of a run
only if that run is completed and its answer was published, or it was handed over: what the
Agent never finished is in no history. It does not say that a handed-over answer stays out; see
`_handoff` below.

### LeaseQueue, RefundDelivery, RefundPromise

A transaction of `RefundWorkflow` is one step, because it re-reads the operation
and the case and retries when their versions moved; giving up is the error path
(`INBOX_BUSY`) or a crash. `guard()` locks the lease row, so a guarded write is
atomic with its check. `requeue_reconciliation` is the one read without a lock,
and is two steps (`RequeueChecks`, `Requeue`). A worker is cut between its
transactions and its HTTP calls. `events` holds the callbacks the provider has
put on the wire; `Callback` takes them in any order, and a second copy finds the
inbox entry. A receipt carries the provider's version; `Newer` is the test of
`apply_receipt`. `Settle` is the provider deciding a delayed refund.

Left out: identity and amount checks of a receipt, which cannot fail against the
sandbox; error texts; retry delays; compensation. The risk router is a choice
between review and approval. The read and the update inside `claim` are one step.
An exception that ends the worker's loop is `Crash`.

Bounds: `OutboxAttempts` is 2 (1 in `settles`), so that a submission may be
retried and exhausted; `JobAttempts` is 1, and `MaxJob` stops an operator's requests.
The run `refund` is either two cases of one order (`two_refunds`) or one case with an
operator's request for another query (`asked_again`). Two workers are enough for a stale claim and its
successor.

`RefundPromise` says what a customer may rely on: the platform tells an outcome
only when the provider has decided it, tells that one, and never takes it back;
before that it says nothing, that it is working on it, or that a human is.

### TrustedActions

One conversation. A record of `act` is a row of `action_proposals`, `own` the row
of `conversation_ownership`, `biz[x]` the digest that `business_snapshot` would
give for the tool call `x` now. A thread is one call of
`ToolExecutionService.execute` or `confirm`, cut at every transaction and at every
read of the business, so that what it read may be stale when it is used; an Agent,
a plan, a confirmation in the chat and the API are all threads. The claim locks
the ownership row, so its check is atomic with the update, and a takeover that
finds an executing action fails as a whole. `dispatched` and `since` are history
variables: how often an action reached its tool, and which snapshots were in force
since its claim; `consent` records the ownership version of a confirmation.

`Stop` is everything that ends a call without a trace: the deadline before the
claim, `prepare_only`, a refused permission, `RunInterrupted`, the death of the
process. After the claim it leaves the action `executing` for ever, as the code
does; a conversation with such an action cannot be taken over, which the code's
documentation describes as the price of never repeating it. `Refuse` is the second
validation, the deadline after the claim, or a snapshot that raises. The early
return for a completed action is the return after the second read. All proposals
have the same lifetime, so they expire in the order in which they were made.
`collaboration_enabled = False` is the same model without takeovers. Left out:
read-only tools, which make no proposal, and remote ones (`RemoteTools`); the proposals of intake and
inventory, which have modules of their own; the review of evidence, which is one way for `biz` to change.

Bounds: `MaxActions` proposals, `MaxOwnership` transitions. Three threads on one
action are a confirmation and two executions that race; two threads on two
actions with a takeover and a release let a call from before the takeover meet a
proposal from after it.

### DirectRefund

The deployment without the outbox, where `execute_case` calls the shop itself. Case
and operation are rows of two tables, each saved under its own version, so a
request is cut between them: it reads the case, claims the operation (one
transaction), marks the case, calls the shop, writes the outcome to the operation
and then to the case. A conflict at any save ends the request. `late` holds the
calls that timed out in `ProviderExecutor.call` and go on in their thread. An
admin's `recover_case` is an execution; its extra condition only makes it refuse
more often. `create_refund` makes the refund or finds the order's. `calls` is a
history variable.

Left out: the comparison of request hashes, which are functions of the case; a
repeated compensation status, which writes nothing; creation keys, which return
the case that exists. The JSON and in-memory repositories do the same under a lock.

Bounds: `MaxVersion` stops requests on rows that have been written that often. Two
requests, two attempts and versions up to 6 let a stale reviewer, an expired claim
and its successor, and two admins meet on one case.

### Compensation

A record of `row` is a row of `compensation_operations`. An invocation of `execute`
draws a fresh owner name, so it happens once and stands for its name; it is cut
between the read and the update of `claim`, at the second read, at the call and at
the completion, which all compare status, owner and attempt with what was read.
`mark_manual_success` is an invocation too. A reversal whose answer is lost is a
failure to its caller. A provider that is not configured is one that fails.
That the source is a succeeded refund is what `RefundDelivery` proves about the
provider, so `SOURCE_NOT_SUCCEEDED` does not occur; only one action is supported per
source, so neither does `SOURCE_ALREADY_REVERSED`.

Bounds: three invocations and two attempts, so that the last attempt can be
exhausted and two invocations can lose a race.

### PlanRun

One plan and the executors that work on it. `plan` is the row of `plans`, `runs` the
rows of `plan_runs` in the order of their fencing tokens, `turn` what the background
run of the conversation's last message knows of it: its lease, the plan as the turn
first saw it, whether a checkpoint was noted, and the journal of calls. Executor `e`
is the e-th claim of a turn, which names its `plan_worker_id`. `_checkpoint_plan`
is five transactions, hence `Check`, `ClaimRun`, `Save`, `Fence` (with `Finish`) and
`Mark`; an executor can be lost, overtaken or fenced between any two. `Continue` says
where it goes on: in `PlanExecutor.execute` (`Schedule`, `Collect`, `Conclude`), in
`_invoke_tool` (`BeginCall`, `EndCall`, `LeaveCall`), or in the chat. A call that
the executor stopped waiting for may return later (`ReturnLate`).

Left out: what the planner writes; references between steps; budgets and the circuit
breaker, which are ways for a step to fail without a call (`StepGovernor`); the second
plan of a conversation; the session's copy of a plan; the JSON repositories
(`PlanStore`). `ClaimRun` is one step; `PlanStore` takes its statements one by one.
Whether an action that a step prepared may be dispatched is `TrustedActions`.
`good` and `asked` are history variables.

Bounds: `MaxExec` claims of turns and `MaxFaults` crashes, lost leases, API requests
and expiries. Three executors are a first execution, a confirmed one and its
recovery, or a confirmation too many; a read with two writes behind it lets one
write complete while the other waits.

### PlanStore, StepGovernor

`PlanStore` is one plan in either backend: its row, its rows of `plan_runs` by fencing
token, two processes that execute it, and the retention job. JSON calls are one step
under the file lock; the SQL ones are cut where they read what they then write on
(claim, the fenced update, cleanup between its SELECTs and its DELETEs). Rows get old
only while nobody works, because the retention period is days and a lease seconds.
`StepGovernor` is the circuit breaker of one tool, which all plans of a process share,
and the budgets of two plans; a step passes `allow()` once and then charges the budget
for each attempt. Left out of both: what the plan does (`PlanRun`), the events and step
attempts that retention deletes with their plan. Bounds: three tokens, five versions;
four steps, three of them of one plan, three attempts.

### CaseCreation

`create_or_get` and `save` of both repositories for one customer. The SQL repository
reads the receipt, reads the active case and inserts, in three steps; the two unique
constraints are `Collides`, and a collision starts over, four times. A repeated request
is a request of its own with the same key and body. Bounds: one request, its repetition,
one with the same key and another body, one without a key, for one order; one saver,
which closes and reopens.

### Intake

A form of one customer and its proposals. `Look` is the reading of row and receipt,
`Commit` the transaction with its compare-and-swap, the retirement of the old proposal,
the new one and the receipt; two requests are under way at a time, and `ActionMoves` is
the action service confirming, starting, ending or dropping a proposal meanwhile. A
process that dies leaves nothing, so `Commit` may end without an effect. Left out: which
fields a form has and how they are validated, and how texts become fields.

### InventoryDelivery

On `LeaseQueue`. A command is a trusted action, an operation and a job; the worker is cut
at the claim, the remote query, the check of ownership, the remote write, the record and
the finish. Requests and answers may be lost, a lease may end anywhere, and the connector
may be registered anew or drift. A release uses the key of its reservation. Bounds: one
reservation and its release, one piece in stock, two workers, two attempts.

### RemoteTools

The managers that one run makes, an administrator who approves contracts and a server
whose tools may change. `_init_mcp` is cut at the connection, the reading and the storing
of the pinned contract, the comparison, the update that disables the contract and the
choice of tools; a connection may fail, or return an empty list after its time limit that
its thread fills later (`Arrive`). A governed call checks the contract, is admitted in one
transaction and is then sent. Left out: signed identities, arguments and answers, and the
URL, which does not change here. Bounds: two managers, two offers, two approvals, one call
of a tool per minute.

### ModelBudget

Two invocations of the gateway with one retry each, on the accounts of their tenant and of
their users. The compare-and-swap on the tenant's row makes `reserve` one step. `settle`
and `expire` claim a call by its status. The estimate is an upper bound of the use, as the
gateway computes it from the bytes of the prompt and the output limit; it is not checked
against the provider's tokenizer. `used` is a history variable. Left out: the day's
rollover, the gateway's own breaker and slots, streaming.

### KnowledgeJobs, KnowledgeServing

`KnowledgeJobs`, on `LeaseQueue`, is the import of a version and the build of a release:
checkpoints that renew the lease, the guarded publication, and the error path with its two
transactions (`FinishError`, `Mark`) between which another worker may finish the job.
`KnowledgeServing` is what is done with the results: activation and configuration drafts
that check first and write later, collection under the lock of the head, deletion with its
tombstone, and a search cut at every read, with the cache that another search may fill
after it was cleared. Left out: parsing, chunking, embedding and ranking, which choose the
hits. Bounds: one release of one document, two searches, one administrator, three changes
of the head: a search that began before a withdrawal, and one that began after it, meet
in the cache.

### ConfigReleases, Reviews, PolicyRules, ApiIdempotency

`ConfigReleases`: a report is a sequence of rows, and `Complete` is
`validate_release_report`; two administrators deploy and two requests of a session are
assigned, cut between reads and writes. `Reviews`: annotations of two cases, two reviewers,
an export that locks the project row; `Applied` is the evaluation's own check of the
exported document. `PolicyRules`: three versions and two administrators in each backend;
in PostgreSQL the first update finds its rows in a snapshot (`RetireReads`), so two
administrators can both succeed, and `OneActive` is about the other two.
`ApiIdempotency`: three requests of one body and one of another under one key; an
operation may raise before or after its effect, and the process may die.

### Conversation

The history one agent builds: roles and the number of tool calls of a message, no texts.
It covers both agents (`EcomAgent`, the orchestrator with its sub-agents) and both lives:
an exception ends the web's agent with its request, while the command line goes on with the
history as the exception left it. `Compressed` is `_compress_history` with its cut. Bounds:
answers with up to two calls, two rounds, compression above five messages to three.

### Instances of several modules

`Operations` and `Platform` put modules side by side that share no state in the code
either: each keeps its own variables, constants and assumptions, and the properties that
say one thing of several components are stated there, for TLC and for the proofs. A
behaviour of the whole is one of `Spec /\ C!Spec /\ P!Spec` (and of the conjunction of
the components' specifications in `Platform`), so a theorem assumes the specifications of
the components it is about and no other.

`MCOperations` extends `Operations`, `MCPlatform` extends `Platform`; `MCSettles` does the
same for liveness. A variable `part` chooses once which component runs while the others
stand still, so a run checks each component completely, and not their product, which would
say nothing more. Three components of `MCPlatform` that no theorem is about (budget,
breaker, chat) take the variables `x1` to `x4` in turn, and its `View` tells states apart
by the part that runs. The components' own names for what they check are in the comments
there.

## Runs

| Run | Shows |
|---|---|
| `writes` | one run with a read and a write: a write is sent at most once, an outstanding or unknown write parks the run, a cancelled run sent nothing |
| `handoff` | two runs of one conversation with takeovers: one active run, the history holds answers of finished runs only, no answer after a takeover |
| `settles` | liveness: every submitted run reaches a terminal status, every queued refund an outcome or a human, every import is ready or failed |
| `handoff_after_save` (violation) | a takeover after the Agent's save parks a run that is documented to complete |
| `stale_handoff_write` (violation) | the hand-over's unguarded session write loses a published answer |
| `refund` | two cases of one order, or one with an operator's request, two workers, all failures: the outcome, the case, submissions that end with the outcome and within the limit, one refund per order, the refinement of `RefundPromise` |
| `actions` | three calls race for one proposal, or two for two around a takeover: dispatched at most once, as confirmed, never once withdrawn, under a human or on a consent from before; the stored result is true |
| `operations` | `DirectRefund` with two requests on one case, `Compensation` with three invocations, `PlanRun` with three executors: types and limits, what is reported as done was done, an unapproved case has no operation, a plan that asks has something to ask, outcomes stay, a write is recorded before it is sent |
| `unclaimed_call` (violation) | an invocation that lost the race calls the provider without a lease |
| `confirms_unasked` (violation) | a recovered execution takes a step as confirmed that nobody was asked about |
| `platform` | the fourteen other components (2.1 million states), with the properties stated in `Platform` and `MCPlatform` |
| `breaker` (violation) | a half-open breaker whose probe leaves without a verdict refuses its tool for ever |

Deadlock is not checked: a system whose requests are all settled may stop.
Symmetry is used for workers (and runs or refund operations where they are
interchangeable), never in `settles`, and not in `operations` and `platform`.

Fairness. `run_worker`, `run_refund_worker` and the knowledge worker poll in an endless
loop, so a worker that can step does, and a message that can be claimed is claimed by
someone; the clock runs, so a lease expires. Crashes, heartbeats, customers, operators,
administrators, the provider and its callbacks owe nothing. One strong fairness is
assumed, on `MarkManual`: the sweep for dead jobs and the mark it leads to are two
statements of one process, and no process dies between them for ever.

## Proofs

`RunQueueProofs` proves, for any runs, workers, conversations, calls and limits,
the inductive invariant `IInv` and from it `WritesSentAtMostOnce`,
`OutstandingWriteIsIsolated`, `UnknownWriteNeverSettles`, `CancelledSentNothing`,
`OneActiveRunPerSession`, `SettledStays` and `NoAnswerAfterTakeover`. The safety
properties are not inductive: that a write is sent once needs that a worker about
to send it is the only one with its fence, that the row still says `in_flight`,
and that whoever wins the compare-and-swap is the holder. So `IInv` adds what the
journal knows (`JournalOK`), what a row may look like (`RowOK`), what a worker
remembers (`WorkerOK`), that a CAS that will succeed is the holder's (`CasOK`), what
each stage knows (`StageOK`) and that fences are unique (`FenceOK`).

`RefundDeliveryProofs` proves `IInv` of `RefundDelivery` and from it
`OutcomeMatchesProvider`, `CaseMatchesOperation`, `OutcomeRetiresSubmission`,
`OneRefundPerOrder`, and that `Spec` implements `RefundPromise!Spec`. The
strengthening: every receipt anywhere is one the provider gave, and one with an
outcome is the current one (`Known`); the operation is never ahead of the provider.

`TrustedActionsProofs` proves `IInv` of `TrustedActions` and from it every property
of the run `actions`. At-most-once is not inductive: a thread about to dispatch
must be the only one that works on its action (`Alone`), its row must be
`executing` and its tool not called yet (`ThreadOK`). That old consent is dead
needs `ConsentOK`: a takeover leaves no action confirmed or executing, so whatever
is confirmed was confirmed at the present ownership version or at the one before
the release. `SinceOK` carries the snapshot from the claim to the dispatch.

That the history holds answers of finished runs only (`HistoryHoldsPublishedAnswers`) is
harder than it looks, because `_handoff` writes the session without a fence. `HistoriesOK`
follows every copy of a history: in the session, in the rows' snapshots and in the workers,
also those that lost their lease. A copy holds a run's answer only if the run is finished
in that way or the copy is of its own worker, whose commit is refused unless it still holds
the row. `SubmissionsEnd` counts: each attempt at a submission was dispatched by one claim
of one worker, so the attempts bound the dispatches (`Attempts`). The count is a
cardinality over the workers, hence their set is assumed finite there.

`OperationsProofs` proves `ReportsAreReal`, `OutcomesStay`, `UnapprovedHasNoOperation` and
the limit of calls of the shop. `DirectRefund`: every write adds one to a row's version, so
a copy with the row's version is the row, and what a request knew when it read still holds
when its write is accepted; the calls of the shop, those still under way included, are
counted against the attempts. `Compensation`: each update compares status, owner and
attempt, and no invocation read a settled row that it may still write on.

`PlanRunProofs` proves `PlanIsReal`, `PlanIsKept` and, with the two invariants above,
`TypesOK` of `Operations`. Every copy of the plan, in the row, in the turn's snapshot and in
each executor, dead ones included, reports only what was carried out (`Sound`). A copy is
never newer than the row, and a copy as new as an ended row has ended the same way
(`Dated`): a save that is not stale cannot undo an end. A step is marked in the row before
its call because, from its save until its next checkpoint, the turn's executor has the only
copy of the newest version (`SavedOK`); the fence is not needed for this, as
`_checkpoint_plan` saves before it checks it. `StageOK` carries what an executor knows
through the five transactions of a checkpoint, `TriesOK` that a call stays within its
attempts.

`PlatformProofs`: `KeysTakeEffectOnce` (the row of a key belongs to the one request that
inserted it until it is completed, failed or dropped; a creation that commits found
neither receipt nor key), `ActiveIsUnique` (the store's lock or its unique index stands
between the read and the write), `ReleasesAreSound` (a deployment writes only on the head
version it read, and a report with as many passed rows as the plan has, without a
repetition, is the whole plan: the pigeonhole principle for finite sets),
`ProposalsAreCurrent` (what a command needed of the row holds while the revision is the
one it read). `ServingProofs`: `WithdrawnNeverReturned` (a search has looked at the
release and at the tombstones since it began, whatever the cache gave it),
`ExportIsUsable` (the project's row is locked while an export reads, and every annotation
was validated), `RemoteToolsAreApproved` (one version of a contract has one set of terms,
and what a manager verified is what it holds). `DeliveryProofs`: `InventoryIsReal` and
`FinalStays` (the shop only moves forward, a job's owner alone records, and a ready
version is left by no late report), `RetentionIsSafe` (the highest token ever given is on
a row that retention may not take).

Each of these specifications has a `TypeOK`, which its inductive invariant contains.
Every inductive invariant was an invariant of a TLC run before it was proved.

The proofs rest on the ASSUMEs of the modules and, where sets are counted, on the set
being finite. The assumptions are types of constants, limits that are naturals, names for
"none" that are no member of the set they complete, and the following, which the code
justifies: a
step of a plan depends on steps of the plan (the planner's output is validated so); a
read is tried at least once; a release of stock is no reservation; the tools that are
bound to the context are tools of the registry (both are filled by its `handlers`).

Only model-checked, and why:

- Liveness (`EveryRunSettles`, `EventuallySettled`, `EveryImportEnds`) and the violation of
  `RecoversAfterCooldown`: out of the prover's reach.
- `BudgetHolds`: the totals of an account are sums over its calls, and what a sum becomes
  when a call is settled needs induction over the set of calls.
- `HistoryIsWellFormed` of `Conversation`: a statement about sequences of messages of any
  length, cut and extended; it needs lemmas about subsequences that are not written yet.
- The conjuncts of `TypesOK` in `MCPlatform` for these two and `StepGovernor`; those of the
  other components are part of the invariants proved.

No theorem says what a recursive definition computes.

## Findings

Shown by the violation runs:

1. A takeover between the Agent's save and the completion of a run leaves the run
   in `needs_reconciliation` though its documentation says `completed`.
2. `_handoff` writes the session outside the fence, so a stale worker can erase a
   published answer.
3. `CompensationService.execute` may call the provider without a claim, beyond
   `max_attempts`, when the claim's race is lost to an invocation that has failed.
4. A plan that was confirmed once and is recovered takes every step that awaits a
   confirmation as confirmed, also one that came to wait after the customer's answer
   (`Reconfirmed` in `PlanRun`). The action boundary then refuses the dispatch, so the
   step fails instead of asking.
5. A step that gets through a half-open breaker and then finds its plan cancelled, or
   its budget used up, reports neither success nor failure, so the breaker's mark of a
   probe in flight stays and the tool is refused to every plan of the process, although
   stage 22 documents that it is tried again after the cooldown.

Met while modelling, and visible in the models:

- `requeue_reconciliation` checks the operation and then writes the job, so it can
  revive the query job of a finished refund. The extra queries change nothing
  (`KeepsPromise`).
- `propose` gives a request made again the proposal that was rejected or
  invalidated, until it expires or the business changes, although the customer is
  told to make the request again.
- An operation whose last attempt died after the shop refunded is marked exhausted
  and its case `execution_failed`, although recovery is documented to converge to
  `succeeded` and `completed` (stage 21, section 4).
- The checkpoint `plan.run.started` of a resumed or recovered execution is saved with
  an empty list of steps (`Started` in `PlanRun`). A crash right after it loses what
  an earlier turn completed, and the next executor calls those steps again, although
  stages 17 and 22 document that completed steps are reused.
- The same unguarded write of `_handoff` (`src/app/services/runs.py:148-165`) can put the
  answer of a run that was handed over, which the customer was not given, into a history
  that a later turn of the Agent reads, once the human has released the conversation.
- `_checkpoint_plan` saves the plan before it checks the fence, though its docstring
  says the opposite; a fenced executor whose version still stands saves once more.
- A cancel request stays with the row of the run it hit; a recovery starts a row
  without it.
- A plan that was saved as running by a turn that died before it noted the checkpoint
  has no executor; it stays running until it is out of date and somebody reads it.
- In PostgreSQL two administrators who activate two drafts at the same time can leave
  two active versions of the risk rules: the first update of the second transaction does
  not see the row that the first one activates, and no unique index forbids it.
- SQL's `rollback` of the rules takes the retired version that was created last, the JSON
  one the version that was retired last; only the latter is the previous active version.
- `claim` of a plan run fences the rows that have no lease by an UPDATE after its SELECT;
  a renewal between the two keeps its row, and two rows run. The older token's next update
  is refused, so nothing is reported wrongly (`PlanIsReal`).
- When the MCP server cannot be reached at all, `_init_mcp` has no list of its tools, so it
  finds no collision and leaves every local tool of the same name, although stages 27 to 34
  document that only a local tool declared equivalent takes over
  (`src/docs/history/第27-34期-知识平台与工程交付.md:85`). `RemoteToolsAreApproved` is about
  the tools that the server has offered.
- `MCPClient.connect` returns an empty list when the server takes more than thirty seconds.
  `verify` takes that for a change of the server's tools, and disables the contract for
  everybody until it is approved again.
- `OPERATION_BUSY` raised by `mark_unknown` in the sweep escapes `reconcile_once`; the
  worker's loop catches only database errors. Another worker, or a restart, goes on.
- A case's reason may have 1000 characters and a `RefundCommand`'s only 500: an approved
  case with a longer reason cannot be queued. The models have no lengths of texts.
- The session's copy of a plan, the JSON session file and the long-term memory file are
  read, changed and written back whole; of two writers the last one wins.

## Not modelled

- Texts: prompts, what the language model says or chooses, chunking, embedding, ranking and
  the wording of answers. They are choices in the models.
- Routing, authentication and serialisation of the web layer; telemetry, alerts and
  evaluation statistics, on whose state nothing depends; deployment scripts, settings and
  demonstration data.
- The deduplication of commerce webhooks, which nothing uses for refunds; backup drills;
  search and pagination of lists; the day's rollover of the budget; the gateway's breaker
  and slots, which are counters of one process under one lock.

## Plan

1. `Conversation`: lemmas about prefixes and cuts of a history (what `Compressed` leaves
   begins with a message that may stand first and splits no call from its answers), the
   inductive invariant, and `HistoryIsWellFormed` for histories of any length.
2. `ModelBudget`: the part of `BudgetHolds` that needs no sum (who may settle a call, that a
   call is charged once, that a settled call is never expired), as a property with a proof.
3. `StepGovernor`: the safety of the breaker and of the budgets.
4. `PlanRun` once more: at most one executor of the turn is between its claim and its end
   without having lost its lease, and what a fence still guarantees.
