# A TLA+ development of wave-ai's durable agent runtime

wave-ai runs agent tasks: a client opens a *session*, creates *tasks* in it, and
a pool of worker processes calls a language model and tools on the tasks' behalf
until each reaches a terminal state. Everything a task needs to survive a crash
is in PostgreSQL; workers hold nothing but a lease. The interesting part of the
program is therefore the set of transactions that move those rows, and the
orders in which workers, clients, maintenance loops and failures run them.

This directory models that part. It is written next to the code, not from the
documentation: `PROJECT.json` maps every definition to the lines it stands for.

## 1. Inventory

### Task execution (`internal/modules/execution`)

State: the session row (`active_root_id`, `writer_call_id`, `archived`), task
rows (state, owner, epoch, lease, cancel, finalizing, pending finish, failures,
error, counters), inputs, tool-call rows (status, delivered, deadline),
generation rows, history messages, events. Each worker process keeps the task it
claimed, the epoch of the claim, and what the transactions it already ran read.

Operations:

| part | code | operations |
| --- | --- | --- |
| claim and lease | `claim.go`, `worker.go`, `store.go` | claim a queued or lapsed task under the session lock; renew; give up in a deferred cleanup; every later write is fenced by (owner, epoch, live lease) |
| step loop | `step.go`, `context.go`, `history.go`, `generation.go` | consume inputs, deliver results, prepare the workspace, compact, call the model, request calls, count failures |
| tool calls | `tools.go`, `tool_result.go`, `reconcile.go` | start (writer lock), execute outside any transaction, record; approve, deny, submit a result; reconcile an unknown task |
| collaboration | `collaboration.go`, `spawn.go`, `inputs.go`, `followup.go`, `cancel.go`, `wait.go` | spawn, steer, resume and cancel children, wait for them; by the API and by the model's own agent tools |
| finish | `finish.go` | settle, wait for or cancel children, mark finalizing, publish outputs in a callback, make terminal, report to the coordinator; park; park as unknown |
| requests | `create.go`, `archive.go`, `admission.go` | create sessions and tasks, archive, idempotency receipts |
| maintenance | `maintenance.go` | expire tasks, wake waiters, prune |

What makes it correct: two trees never run in one session; an executor is never
invoked twice for a call; the writer lock is neither leaked nor freed early; a
crash leaves nothing marked running; nothing waits for an event that cannot
come; the model sees every result, once and in order; a coordinator ends after
its children; budgets and limits hold across the tree; an archived session is
quiet; a failure says why.

What makes it hard: a lease may lapse at any point of a step while the worker
carries on; a step is several transactions with external work between them;
clients resolve, steer, cancel and archive between any two of them; one worker's
cleanup, another's claim and the client's reconciliation settle the same rows.

### Workspace and sandbox (`internal/app/workspace.go`, `internal/adapters/sandbox`)

State: one workspace row per session (root, state, package fingerprint), sandbox
records with a reserved capacity, command records, containers in the engine.
Operations: admission before a claim, prepare before a model turn (install
packages, stage files and skills), finish, reserve, ensure, exec, stop, destroy.
Correct: a workspace marked ready has everything in it, capacity is never
over-committed, a command is started once, a crash between record and container
is repaired. Hard: prepare is a dozen external steps between two writes of a row
that nothing fences; admission counts rows while another process works on the
containers, step by step.

### Events, notifications, streams (`execution/store.go`, `execution/handler.go`, `platform/database/notify.go`, `sdks/go`)

State: events with a per-session sequence number, a listener with one
connection, a control queue and subscribers; streams with a cursor; a client
that waits for a task. Notifications are hints, the tables the truth. Correct: a
stream loses, duplicates and reorders nothing; a lost connection is replaced; a
client that waits returns once its task has ended or needs it.

### Trace spans (`execution/trace.go`)

State: a bounded buffer per worker, the batch its recorder writes, what a claim's
last transaction took. Correct: the trace of a finished task is complete when the
task is. Hard: two writers of one task's spans, fences lost in between.

### Webhooks (`internal/modules/webhooks`)

State: subscriptions (paused), deliveries (status, attempts, claim, next attempt).
A delivery row is written in the event's transaction; several processes attempt
due rows; clients pause, resume and retry. Correct: a delivery is neither stranded
nor sent after it was settled, and not sent more often than its attempts.

### Deployments (`internal/modules/deployments`)

State: a schedule with its next occurrence and an overlap policy, runs. Several
processes scan; clients fire by hand under a key. Correct: one occurrence starts
at most one task, tasks do not overlap, what is due is handled.

### Requests (`execution/admission.go`, `sdks/go/client.go`)

State: a receipt per key. Correct: a repeated request runs once, and all who ask
are answered the same. Hard: the second attempt arrives while the first runs.

### Other parts

| part | state | what makes it correct, and hard |
| --- | --- | --- |
| memory stores | entries with a version, revisions, retained conflicts | no write is lost between readers that write later; deletion and lost answers |
| files, skills, blob store | rows, content-addressed objects, an owner's quota | a row has its content, an artifact is one row, uploads share a quota; publication is repeated |
| MCP client and pool | clients with a protocol session, in-flight calls | a call reported as rejected never ran; eviction and expired sessions |
| telemetry | an outbox of samples, buckets | a sample is counted once; reducers overlap and abort |
| authentication | key rows, a cache in each process | a revoked key stops granting; lookups race the revocation |
| agents, environments, vault, guardrails | versioned configuration rows | single statements, or one row lock |
| model client | one response under assembly | a tool call has the arguments the provider meant; fragments interleave, the stream breaks |
| tool routing | none | one call of a service; its outcomes are choices of the models |
| console, HTTP plumbing, configuration, identifiers, static files | none | |
| process assembly, CLI, SDKs, web console | none that is durable | start the loops the models assume; clients of the API |

Interactions: the API and the agent tools change the same task rows through the
same functions; every writer locks the session row, then the task row
(`store.go`), so a transaction is one atomic step; `claim` calls admission
(capacity), a step calls `prepare`, finish calls the workspace hook; the event
log, webhook deliveries and telemetry are written inside those transactions and
read by loops of their own; notifications wake workers and streams.

## 2. Modules

| module | stands for | extends or instantiates |
| --- | --- | --- |
| `DurableSession` | what a session promises its client, with no worker, lease or crash in it | |
| `Execution` | the engine of one session: every transaction of `internal/modules/execution` that moves a task, call or session row, the workspace row of `internal/app/workspace.go`, the faults of a worker | instantiates `DurableSession` |
| `Execution_proofs` | theorems about `Execution`: types, one tree, generations | extends `Execution` |
| `Contract_proofs` | theorems about `Execution`: calls, the writer lock, what a finished task leaves, limits, and that it implements `DurableSession` | extends `Execution_proofs` |
| `Listener` | the LISTEN/NOTIFY multiplexer of one process (`platform/database/notify.go`) and the goroutines that take its signals (`execution/notify.go`) | |
| `Listener_proofs` | theorems about `Listener` | extends `Listener` |
| `History` | the messages of a task: turns, delivered results, compaction and `completeHistory` (`execution/context.go`, `step.go`, `followup.go`) | |
| `SpanLog` | one worker's span buffer, its recorder and the drains (`execution/trace.go`, `finish.go`, `worker.go`) | |
| `EventStream` | emission under the session lock, the handler's stream, the Go client's `Events` and `Wait` | |
| `Receipts`, `Receipts_proofs` | requests under an idempotency key and the client's retries (`execution/admission.go`, `sdks/go/client.go`) | |
| `Webhooks`, `Webhooks_proofs` | subscriptions and deliveries (`modules/webhooks`) | |
| `Deployments` | schedules and manual runs (`modules/deployments`) | extends `Receipts` and `Webhooks`: a run is one transaction with both |
| `Sandbox` | capacity, containers and commands (`adapters/sandbox`) | |
| `Files` | uploads and artifacts (`modules/files`, `modules/skills`, `platform/blobstore`) | |
| `Workspace` | the steps of `prepare` under claims that lapse, die and are reconciled (`app/workspace.go`) | |
| `ModelStream` | one response put together from a provider's stream (`adapters/modelclient`) | |
| `Memory` | entries of a memory store (`modules/memory`, `app/memory.go`) | |
| `Conversation_proofs` | theorems about what an agent reads: histories, the model's answers, its memory | extends `History`, `ModelStream`, `Memory` |
| `Mcp` | the pool, its clients, the outcomes of calls (`adapters/mcpclient`, `app/tools.go`) | |
| `Telemetry` | samples and buckets (`platform/telemetry`) | |
| `Telemetry_proofs` | theorems about `Telemetry` and about `SpanLog` | extends both |
| `AuthCache` | one API key and the processes' caches (`platform/auth`) | |
| `Services_proofs` | theorems about six services: schedules, sandboxes, MCP calls, workspaces, files, streams | extends `Deployments`, `Sandbox`, `Mcp`, `Workspace`, `Files`, `EventStream` |
| `MCRecovery`, `MCDelegation`, `MCSiblings`, `MCSession` | instances for TLC | extend `Execution` |
| `MCListener`, `MCSandbox` | instances for TLC, of two violation runs (`MCReconcile.cfg` and `MCStranded.cfg` are instances of `Workspace` and `Webhooks` themselves) | extend `Listener`, `Sandbox` |
| `MCPlatform` | the services with promises about what happens in the end, in one instance: a behavior is one of the service that `focus` names | extends `Webhooks`, `Receipts`, `EventStream`, `Telemetry`, `AuthCache`, `Listener` |
| `MCServices` | the scheduler and the services that store what tasks make and use, in the same way | extends `Deployments`, `Sandbox`, `SpanLog`, `Mcp`, `Memory`, `Files`, `History`, `Workspace`, `ModelStream` |

### How `Execution` corresponds to the code

* **One transaction is one action.** Every writer begins by locking the session
  row, so transactions of one session are serial. Work outside transactions
  (`Execute`, `PrepareEnd`, `FinishHook`, and the model turn between
  `StartGeneration` and `ModelAnswers`) has its own actions, and anything may
  happen in between. `wk[w].pc` names the transaction or external call the
  worker performs next; `wk[w]` also keeps what an earlier transaction of the
  step read and a later one uses (the completed calls to deliver, the call to
  run, the state to finish in), so that stale reads are in the model.
* **The fence.** `Fenced(w)` is `fenced`/`fencedSlim`: the stored row still shows
  this owner, epoch and a live lease. An action of a worker that lost it is
  `FenceLost`; the executor and the workspace callbacks do not look at it.
* **Claims.** `claimSession` visits candidates in one transaction. A visit that
  settles an uncertain claim (`ClaimSettles`), interrupts stranded generations
  (`ClaimSkips`) or claims (`Claim`) is one action. Only the claiming visit
  writes what another visit reads, and it ends the loop, so the split allows no
  new outcome. The order of candidates (oldest first) is dropped: the model may
  claim any of them.
* **Rows.** `TaskRow` has the columns some guard reads. `live` is "the lease lies
  in the future", `input` "some accepted input is not consumed", `error` "the
  error column is not empty", `gens` counts generation rows marked running.
  The number of agents is derived from the children. Finished and started times
  are implied by the state and by `epoch > 0`.
* **Requests.** One action per operation of the API and the maintenance loop; the
  `Api` constant selects those an instance exercises, `Faults` the failures.
* **Outcomes that depend on content** (a tool's error, a guardrail, an exhausted
  token or duration budget, a provider failure, an admission verdict) are choices.
* **Bounds of the model.** `MaxEpoch` bounds the claims of a task, `Tasks` and
  `Calls` the rows that may be created. Everything else is bounded by the code.

`DurableSession` has no workers: a task is absent, open or done, a call absent,
pending, running, uncertain, answered or delivered. `Execution!KeepsContract` is
`DurableSession!Spec` under the refinement mapping at the end of `Execution`
(`Life`, `Phase`): claims, leases, parking, fencing and cleanup are stutters of
the promise, and what remains is that a call starts once, is decided once and is
delivered once, in order, and that a coordinator ends after its children.

### How `Listener` corresponds to the code

The loop's goroutine runs `run`, `serve`, `applyControl`, `connWait`, `reconnect`;
`pc` names the part it executes next and one action is one critical section of
`l.mu`, one statement on the connection, or one return of the wait. `listen`,
`unlisten` are the two lists, as sets (a channel is never twice in a list that
matters); `batch` is the local copy `applyControl` works through; `interrupted` is
the cancelled context of the current wait. `listening` and `inflight` are the
server's side of the connection: a signal is on its way only to a connection that
listened when its transaction committed. Subscription ids are never reused
(`nextSub`), so `Subs` bounds the subscriptions ever made. Payloads are left out,
and with them the filter of a stream for its own session. The database, the driver
and the network are external: `ConnectionDies`, failed dials.

### How the services correspond to the code

In all of them an action is one transaction, one unlocked read, one call of an
external party, or one critical section of a mutex, and everything that lies
between two of them in the code may be interleaved.

* `Webhooks`: `Enqueue` is part of the transaction of whoever emits. An attempt of
  `DeliverOne` is `ClaimDelivery` (the transaction that takes the row and its
  lease), `ReadSubscription` (unlocked), `Post`, `UpdateDelivery` (fenced by the
  claim). Backoff is the time until the next claim; a lease lapses when the model
  says so, over a live attempt as well as a dead one.
* `Receipts`: `AdmitBegins` is the INSERT that waits for another's uncommitted row,
  `AdmitRuns` the use case, the stored answer and the commit. The client's side
  (`Call`, `CallBreaks`, `CallReturns`) retries what its code retries.
* `Deployments`: `Fire` is its transaction, with `Enqueue` and, for a manual run,
  `AdmitRuns` inside. A cron expression is the set of its moments on one clock,
  which may tick between any two steps.
* `Sandbox`: `op[p][s]` is what process `p` does for session `s` under its local
  mutex. Any replica may begin any operation on any session at any time: whichever
  replica claims a task of it works on it, one that lost its claim goes on, and
  neither `ensure` nor `Stop` looks at the claim. `shared` is a history variable:
  the sessions that two processes worked on at one time. Only `Destroy` is bound to
  a process, because its only caller is the benchmark (`tools/bench/sandbox.go`), which
  destroys the sessions it made (`Disposable`, `Bench`). `Reserve` is the
  transaction under the advisory lock. The engine's containers are created,
  started, killed, and exit.
* `SpanLog`: `record`, `take`, `write` and `takeTask`, with the paths of park,
  finish and parkUnknown that hold what they took. A span is its number in the order of
  arrival; the buffer, a group and what a path holds are sets of them, and that order is
  the one each is written in.
* `EventStream`: writers keep the session lock from their read of the sequence to
  the commit; the handler's page, the connection and the client's cursor are apart,
  and the connection may break at any row. `InOrder` is a query's ORDER BY. The
  awaited task has the state the client reads, whether a call of its turn needs an
  action, and whether one behind that call is ready or undelivered (`behind`):
  `ParkTask` leaves it waiting, or queued if `behind`, and `ClaimAgain` runs a queued
  one. `ProbeTask` reads the required actions of a task that stands, and of another
  only after an event.
* `Telemetry`: a reducer's transaction takes unlocked samples, then locks and
  merges bucket after bucket in the order of their keys. A bucket is the bag of
  the samples it counted.
* `Mcp`: `GetClient` and `Evict` are the pool's critical sections, `LockClient`,
  `Initialize` and `CallTool` the client's; `Replies` are what a server may do.
* `Memory`: `Change` and `Conflicting` are the two ends of `change`, with any
  expected version; an editor remembers what it read or was told.
* `Workspace`: `BeginPrepare` is the transaction at the head of `prepare`; every
  external call after it, and the two writes of the row, are steps of their own,
  taken by a worker that may have lost its claim. `Execution` has the same row with
  one step between the two writes; here are one session's roots without the rest.
* `ModelStream`: a frame that carries a fragment of a tool call, text or a stop reason
  is a step, and so are the ends. A call's arguments are the pieces received. What
  the provider meant (`Meant`) is computed from the fragments alone, by a recursive
  function over their positions.
* `Files`: an upload is one transaction around the write of the blob, an artifact
  is found, stored, inserted and read in statements of their own.
* `AuthCache`: `Authenticate`, `LookupKey` and `InsertKey` are the cache's read,
  the query and the cache's write. A time-to-live is counted in ticks.
* `History`: a message is its role and the ids of its calls. `CompleteHistory` (the loop
  of `completeHistory`, a recursive function whose step is `Completed`) and
  `Boundaries` are the two algorithms; what does not fit the model's context is a
  choice among the boundaries the code may move on to.

## 3. Runs

| run | instance | what it shows |
| --- | --- | --- |
| `recovery` | one root; a write call, a custom call with approval and a read call; two workers; 3 claims; lapse, crash, interrupt, executor error; cancel, deny, steer | recovery from every fault: at most one execution per call, no leaked writer lock, no call marked running without a claim, no stranded task, the contract: in particular the model sees every result, once and in order. Deadlock is checked. |
| `delegation` | a root and a child; the root has an agent call and a write call, the child a write call and a read call; 2 claims each; tool budgets 3 and 2, so that both may write at once and the tree's four calls still exceed the root's budget; lapse, executor error; follow-up | the tree's tool budget, nothing open under a finalizing coordinator, the contract |
| `siblings` | a root that waits for any of two children with a deadline; one concurrent slot | the concurrency limit over lapsed leases, no stranded wait |
| `session` | two roots and a child of one session with an environment; model failures, compaction, declined admissions, expiry, archiving, spawning | one tree at a time, archived sessions are quiet, no generation outlives its claim |
| `lost_reason` | one root | **violation**: see findings |
| `impossible_admission` | the session instance, with sandboxes that can never be reserved | **violation**: see findings |
| `reconnects` | the listener of `platform`, and dials may fail | **violation**: see findings |
| `platform` | the six services of `MCPlatform`, one per behavior; see below | one to three properties of each |
| `services` | the nine services of `MCServices`, one per behavior; see below | one to three properties of each |
| `capacity` | two sessions of which one may run, two replicas, no commands; no bound beside | **violation**: see findings |
| `stranded` | one subscription, one delivery, one process | **violation**: see findings |
| `reconcile` | one root, one worker, one package manager, one input | **violation**: see findings |

Bounds. Two workers are enough for an owner and a usurper; a third adds only
another usurper, and workers are symmetric. Two or three claims let a claim be
lost, taken over, lost again and reconciled. Three calls are a completed, a
blocked and a later one, which is what the step's batch and the budget tell
apart. Two children are the least that compete for a slot; two roots the least
that queue for a session. In `session` the tasks have no calls, in `siblings`
no write calls: those interactions are `recovery`'s and `delegation`'s.
Impossible admissions appear only in the run about them: they double the states of
`session` and lead to the failed finish that expiry leads to as well. `MaxFailures` is 1 or 2 (3 in the code): what matters is one failure that is
retried and one that is not.

`CHECK_DEADLOCK FALSE` stands in every configuration but `MCRecovery`'s: in those a
run may stop because all tasks are terminal, or because the claims of the model
are used up. In `recovery` the client can always cancel, so a state without
successor would be a real one.

`platform` and `services` put the services that share no state into one state space
each, so that every instance stays as small as its question:

| service | instance | what could go wrong in it, and does not |
| --- | --- | --- |
| `platform`: webhooks | one subscription and event, two processes, two attempts; one lapse, one crash, two toggles, one retry request | `DeliveredStays`, `DeliveryEnds`: a late attempt overwrites the success; a crash strands the delivery |
| receipts | two clients with one key and different bodies, a third without; one retry each, one receipt pruned | `SameAnswer` |
| stream | two writers, pages of one event, two events, one reconnect | `StreamExact`, `WaitAnswers` |
| listener | two subscriptions in a behavior, of one channel or of two; queues of one signal (16 in the code), two signals under way; connections break at any time | `SleepsListening`: a LISTEN is forgotten; `SignalArrives`: a slow receiver keeps a signal from the others; `ListensAgain`, `CloseStops` |
| telemetry | four samples of two minutes and one hour, two reducers with batches of two, one abort | `CountedOnce`, `SamplesReduced`: buckets locked in another order deadlock |
| auth | two processes, three callers, a time-to-live of two ticks | `RevocationConverges`: a hit that renews its entry would never let go |
| `services`: schedule | one deployment with two occurrences, two schedulers, a client that sends one keyed request twice, a subscription; one edit, one fault, three runs | `OccurrenceOnce`, `NoOverlap`, `DueIsHandled` |
| sandbox | two sessions, two replicas on either, one command; one container may run, memory for one and a half; one session is the benchmark's | `UnsharedWithinCapacity`: an unconfirmed stop or a kill releases capacity in use; `ExecOnce`: a second replica, or a restarted one, runs a command again |
| spans | three spans of a task and a buffer of two, three claims | `TraceComplete` |
| mcp | two calls, two clients, three protocol sessions | `RejectedNeverRan` |
| memory | two editors, two paths and room for one entry, three versions, two revisions kept | `MemoryExact` |
| files | two uploads and two publications, a short and a long content, room for two bytes | `FilesExact` |
| history | turns of none, one or two calls with reused ids, histories of ten messages, two kept by compaction (12 in the code) | `RequestsWellFormed` |
| workspace | two roots of a session, two workers, two claims, one package manager, one input: a worker that lost its claim and its successor, or the next root | `ReadyIsProvisioned` |
| model | five kinds of fragments of two calls under the indices 0 and 2, some without id or name; four fragments to a response | `CallsAssembled` |

Each of the two modules names what bounds it beyond the constants. `TwoReceivers`: two of
three subscriptions are made, so that both of one channel, and one of each, occur: a
receiver that is not the last and one that is, and LISTEN and UNLISTEN in one batch.
`OneSpared`: of a lapse, a crash, the toggles and the retry of a delivery, one is left out.
`OneWithoutKey`: a request without a key is made alone, as it shares nothing.
`SharedAlone`: two processes work on a session only while the other one has no row. So
what is checked there is `ExecOnce` of a session with two replicas, and
`UnsharedWithinCapacity` of two sessions with one each; that it holds beside sessions
that others disturb is the theorem `CapacityHolds`. `capacity` has no such bound. `OnePublisher` is explained below. `CHECK_DEADLOCK FALSE`: a service that has used
up its instance, or a stopped loop whose receivers are gone, has no step.

A worker runs one task at a time and empties its span buffer before the next, so
`Traced` has one task. In `Files`, both publishers are busy only while no upload is:
what they share with uploads is the store and the bytes counted. Two of each party
are what a race needs; a version, a claim or an attempt more repeats what the
first did. In `services`, the deliveries of a schedule's runs are not attempted: that
is `platform`'s part.

Fairness. `Execution` assumes none: its properties are safety properties. `Listener`
assumes that its loop, a `Close` that began and the receiving goroutines are scheduled
(weak fairness), and strong fairness of `WaitInterrupted`: the driver checks a wait's
context before it reads the connection, so that traffic cannot hide a cancelled context
for ever. Nobody has to subscribe, publish or close, and `ListensAgain` says what follows
only if connections stop breaking. `Webhooks` assumes that the processes' loops run and
that an abandoned lease lapses in the end; `Deployments` that schedulers scan and fire
what they scanned; `EventStream` only that the waiting goroutine runs: its probes return
and its timer ticks. Nothing is assumed there of writers, workers, the handler or the
stream, which may stay broken for ever. `Telemetry` assumes that
reducers run, and strong fairness of the row lock a reducer waits for; `AuthCache` that
time passes and queries return. No client, operator, receiver or connection has to do
anything.

### Findings

* `lost_reason` (`worker.go:196`). The deferred cleanup of `Worker.run` writes the
  error column from a row it did not load. When a worker is interrupted after
  `Worker.fail` recorded why a task fails and before it finished it, the reason is
  emptied, and the task ends `failed` with no error.
  `skills/wave-client/references/recovery.md:11` tells a client to inspect
  `task.error` of a failed task.
* `impossible_admission` (`step.go:64`). Admission records the failure of a task
  whose sandbox profile can never be reserved as its pending finish and lets the
  claim proceed. The first step consumes the task's first input, which clears the
  pending finish, and the workspace is provisioned after all.
  `sandbox_admission.go:33` says an impossible request must fail visibly.

* `reconnects` (`notify.go:284`). When a dial fails, `run` calls `serve` without a
  connection. `connWait` then returns `context.Canceled`, which `serve` takes for a control
  interrupt, so it never returns: the loop spins and never dials again, and every
  consumer is left to its poll. `notify.go:84-85` says the loop reconnects with backoff.
* `stranded` (`webhooks/service.go:158`). An attempt reads the subscription as paused; a
  request resumes the subscription and re-arms the rows that are paused at that moment;
  then the attempt writes its row as paused. Nothing selects it again.
  `docs/agents.zh-CN.md:80` says such deliveries continue once the subscription is resumed.
* `reconcile` (`workspace.go:100`). `prepare` installs packages by commands whose request
  id is the root's and the package manager's. A command that failed, or whose outcome
  was lost, keeps its row, and `Exec` answers its failure or refuses to replay it
  (`container_exec.go:68`). The retry after a reconciliation therefore stops at the same
  place, however often, until the row is pruned a day later. `workspace.go:50` says
  "workspace preparation outcome unknown; reconcile before retry".
* `capacity` (`container.go:246`, `capacity.go:77`). `reserve` counts rows that are not
  stopped, and the mutex that orders `ensure` and `Stop` of a session is local to a
  process. Two replicas may work on one session: a claim lapses while its worker goes on,
  and neither `prepare`'s calls nor the finish hook's `Stop` are fenced. One has reserved and is
  about to create and start the container; the other's `Stop` finds the row reserved with
  no container, or the container missing, and marks it stopped. That releases the capacity to
  another session, and then both containers run. `docs/deployment.md:105` says "Both
  capacity limits apply across replicas that share a database" (its lines 128-132 say
  that the lock is process-local, and claim nothing of the limits). What does hold is
  `UnsharedWithinCapacity`: the sessions that two processes never worked on at one time
  stay within the limits together.

Behaviours met on the way that a reader of the code may want to know:

* An input that a step's first transaction did not see, and that is accepted before
  finish's first, stays unconsumed when the task ends (`finish.go:79`).
* A turn whose ready call stands behind a blocked one parks and is queued again until
  the client answers (`finish.go:36`): it alternates between running and queued and is
  never waiting. `Client.Wait` reads the required actions of such a task only after a tool
  event (`client.go:433-434`). If its stream stops before that event, its polls and
  timer never see the action, and `Wait` returns only when the task ends or is unknown;
  `client.go:400-402` says "liveness never depends on the stream alone". `EventStream` has
  this behaviour, and `WaitAnswers` is stated for what the code does promise: tasks that
  have ended, or stand as waiting or unknown. No run is spent on the disagreement; it
  is the case `WaitAnswers` excludes.
* A child that is resumed after a cancellation sees a synthetic answer and then the
  real result of the same call (`followup.go:35`); roots see each result once.
* A root that is cancelled before its first step becomes the previous task of the next
  root, which then starts without the session's conversation (`step.go:37`).
* `finish` holds the spans it took before the finish hook until its second transaction.
  The recorder may write spans recorded during the hook in between, so an event with later
  spans can precede the one with earlier ones (`finish.go:78`, `159`); `trace.go:73` and
  `finish.go:160` speak of arrival order. No run is spent on it: `TraceComplete` says what
  the trace has, not in which order.
* When the finish hook fails, the spans that finish had taken are given up
  (`finish.go:149`, `parkUnknown`); `TraceComplete` speaks of the claim that finishes.
* Artifacts count against an owner's quota and are not limited by it (`files/service.go`).
* `Invalidate` and `InvalidateAll` of the key cache have no caller, so a revocation takes
  effect with the time-to-live in the process that served it too (`auth/cache.go`).

## 4. Proofs

`Execution_proofs` proves, for any set of tasks, calls and workers, any budgets and any
faults, from the assumptions named in `Execution` (a tree of two levels, calls are
numbered, placeholders are no members, budgets are numbers):

* `Invariance`: `Spec => []IInv`
* `TypeCorrect`, `OneTree`, `NoStrandedGeneration`: the type invariant, one task tree
  at a time, and no generation row outliving its claim.

`TypeOK` is not inductive: `gens - 1` is a natural number only if the claim that
closes a generation has one open. So `GenerationOwned` says a fenced worker has
exactly one generation open while it talks to the model and none otherwise, its
deferred cleanup excepted. `OneTreeRuns` is not inductive either: a root gives the
session up in `FinishEnd` and no child of it may be running then. A child runs only
if it is open, and it is not, because finish's first transaction saw all children
terminal and marked the root (`FinalizerMarked`: a worker past it holds a marked
task), and while the mark stands no child is spawned or resumed (`ChildrenSettled`).
`FinIsTerminal` gives the state `FinishEnd` writes.

The proof's unit is a row: `RowStep(w, r, s)` says that `s` gives a claim to nobody
but `w` and closes generations with it, `Quiet(r, s)` that it opens nothing that was
closed. `FramedStep` shows that a step whose rows are so related keeps the memory
of all other workers right; there is one lemma per action (`Keeps...`), and
`StepIInv` collects them. That the earliest call or the next child exists is
`FirstType`, by well-foundedness of finite sets.

`Listener_proofs` proves `NoForgottenListen`: `Spec => []SleepsListening`, for any channels
and subscriptions. Its inductive invariant (`Listener!IInv`) says that on a live
connection the statements still queued or half applied lead to exactly the channels
wanted (`Final(c)`): the lists override the batch, a LISTEN overrides an UNLISTEN, and
both override what the connection does now. A loop asleep and not interrupted has
nothing queued, so what it listens to is what is wanted.

`Receipts_proofs` proves, for any clients and finite sets of keys, that a keyed request
runs at most once while its receipt is retained (`KeyedRunsOnce`), and that the clients
that share a key and a retention window and were answered got the same answer and had
asked for the same (`CallersAgree`: `Spec => []SameAnswer`). The invariant (`RecIInv`)
ties a transaction to the key it locks: whoever is inside `Admit` is the only one to
hold the key, so the receipt it did not find is still missing when it stores its own; an
answer on its way, or arrived, is the receipt's, for as long as the receipt is the one
of that window.

`Webhooks_proofs` proves for finite sets of processes that a delivery is posted no more
often than its attempts, the leases that lapsed over a post and the retries requested allow
(`PostsAreBounded`), and that a delivered row stays delivered until a retry is requested
(`DeliveredIsFinal`). The invariant (`HooksIInv`) lets every post be paid for by the
attempt it was counted as: an attempt between its claim and its post has spent one, and the
fence of `UpdateDelivery` keeps an attempt that lost the row from writing it.

`Telemetry_proofs` proves `SamplesCountedOnce` (`Spec => []CountedOnce`) for any samples,
buckets and reducers: what a reducer took is locked, in the outbox, and in no bucket; what
it merged so far is its own until it commits (`CountIInv`). It also proves
`TracesAreWhole` (`SpanSpec => []TraceComplete`) for any tasks, claims, capacity and batch.
Its invariant (`SpanInv`) puts every span in one place: the buffer, one group of the
recorder, the goroutine of its task, or once in a trace (`OnePlace`, `Apart`, `Once`). A
claim that runs or finishes accounts for all its spans in these places or as given up
(`Accounted`; the goroutine that parks after a failed hook is left out, because it forgets
what it held). Once the spans were taken to finish, none of the task's is in the buffer
or with the recorder (`NoneBehind`): that `takeTask` waits for the batch in flight is what
this step of the proof needs, and nothing else gives it.


`Listener_proofs` also proves `BuffersSuffice` (`Spec => []TypeOK`): the queues of the
receivers, the control signal and the signals under way stay within their buffers.

### What the engine promises (`Contract_proofs`)

The second invariant of `Execution` (`CInv`, proved inductive together with `IInv` as
`ContractInvariance`) has these parts.

* What rows say of each other. `CallKeeps(c)`: a call is executed only once it is marked
  running, is delivered only when answered, comes after the calls requested before it, and
  holds the writer lock exactly while it is a running or unknown write. `TaskKeeps(t)`: a
  running call belongs to a running task, which has no other; a finalizing or finished task
  has only answered calls; a child is open only under an open coordinator.
  `ArchivedIsQuiet` is the third part: it is inductive with these.
* What a worker still knows. `Knows(w)`: between its transactions a worker keeps what it
  read, and for every `pc` this part says what of it the rows still bear out, and only
  while the fence holds: the batch it will deliver is answered and undelivered, the call
  it is about to start is still ready, the call a task parks on was waiting for a client and
  is not delivered (`Parks`), a task that talks to the model or finishes has no call open.
  `Executes(w)` is the part without a fence: a worker in the executor has a call that was
  marked and not executed yet, and no other worker has the same.

From it follow `ExecutedAtMostOnce`, `WriterLockExact`, `OneCallRuns`,
`SettledBeforeTheEnd` and `ArchivedStaysQuiet`, one theorem for each safety property of
the runs. TLC checked `CInv` on the instances of `recovery`, `delegation`, `siblings` and
`session` before it was proved. Each lemma about an action proves in one go that
`CInv` is kept and that the step is one of the contract or a stutter (`Promised`):
`Refinement` (`Spec => KeepsContract`) is the sum of these. Where the contract's step
is hardest to see is where the order of the calls in it matters: a delivery is that of
the earliest undelivered call because `DeliverResults` takes the completed calls in
order (`PromisedDeliver`), and a task ends because its calls are all answered
(`PromisedFinish`).

Three properties need to know what a step leaves alone rather than what it changes. Most
steps are *calm* (`CalmStep`): no child starts to run, no call is requested, no call a
waiting task depends on goes away. The calm ones are shown so once, and then three
invariants need only the few that are not.

* `WaitingIsWoken` (`WaitingHasWaker`): a waiting task has a call to be answered, a child
  that has not ended, or a deadline, because whoever decided to wait read that under the
  session lock.
* `AgentsWithinLimit` (`ConcurrentAgents`, by `FewRun`): the claim counts the running
  children before it adds one. Cardinalities of finite sets, for any number of children.
* `BudgetBoundsTree` (`TreeToolBudget`, by `Budgeted`): the calls granted in a tree, executed
  or still open, are at most its root's counter, which is compared with the budget before
  it grows.

### The services (`Services_proofs`)

One section each; the invariants are named parts that the theorems follow from.

* Schedules (`ScheduleInv`, `OccurrencesFireOnce`, `TasksDoNotOverlap`): recorded
  occurrences lie before the next due one, which only `Fire` and edits move forward under
  the row lock.
* MCP (`McpInv`, `RejectionsAreDefinite`, `ClientsAreExclusive`): a call in flight owns its
  client's lock, so eviction cannot close it; a rejection comes from before the request
  was sent or from a server that says it did not run it.
* Workspaces (`WorkspaceInv`, `ReadyWorkspaceIsWhole`): a command recorded as done did
  install, and a preparer that went past a package or an input left it in the
  workspace, even when its claim was lost, because nothing removes what is there.
* Sandboxes (`CapacityHolds`, `CommandsStartOnce`): for any sessions, processes and
  commands, and nothing assumed of who serves whom.
  `CommandsStartOnce` rests on `OpsInv`: a process that has a command to run stored its
  intent itself, no other process has the same one, and it was not started before;
  so a second replica is refused by the row, and a process that dies leaves it there.
  `CapacityHolds` rests on `CapacityInv`: the rows that hold capacity and belong to
  sessions not `shared` (`HeldAlone`) fit the limits together; for such a session one
  process is at work at most, and the row holds capacity whenever the container runs or
  that process is about to start it. A step of a process on a session it shares changes only what the invariant leaves out;
  on any other session it is the only one between `Begin` and its end, so what it read
  under the mutex is still so. Admission counts all rows, those of shared
  sessions too, and can therefore only be stricter.
* Files (`FilesInv`, `FilesAreExact`): a row's content was stored before the row and
  no object is removed; an artifact is found, or inserted under its unique key, so
  concurrent publishers are told one row; a quota is read and used in one transaction.
* Streams (`StreamInv`, `StreamsAreExact`): the sequence is read and advanced under the
  session lock, so committed events have distinct numbers in the order of their
  commits (`WritersGood`), and what is on the wire is the part of the log between the
  client's cursor and the handler's (`ReaderGood`).

Sums and sorted lists are defined by a fold or by CHOOSE over a finite set, and the induction
theorem for finite sets takes an operator, which the provers cannot instantiate. The proofs
replace it by the smallest counterexample: if a sum over some set of rows were not
determined, or did not grow by its last summand, or a set of events had no list, take a
smallest such set (`SmallestOf`, from
the well-foundedness of strict inclusion on finite sets) and remove a member. The
folds are unrolled once, to the recursive function they are defined by (`Total`,
`BytesOf`).

### What an agent reads (`Conversation_proofs`)

* `RequestsAreWellFormed` (`HistorySpec => []RequestsWellFormed`), for turns with any number
  of calls and ids used again, and histories of any length. `RequestsWellFormed` is not
  inductive: it says nothing of a history between a turn and its results, and a task may
  stop there. The invariant (`HistoryInv`) says which calls may be open. `Sound(s, P)`: every
  call in `s` is answered before the next message that is no result, or is one of `P` and
  belongs to the last such message; every result answers a call; `P` are calls of that
  message (`Asked`). `Once(s, P)` adds that no call is answered twice and none of `P` is
  answered already; it holds of roots. `P` are the ids of `undelivered`, which repeats none:
  that the model client refuses a turn with an id twice (`HistoryAssumption`) is needed here. A
  resumed child keeps `Sound` and not `Once`: its calls were answered by `completeHistory`,
  and `undelivered` is still among the calls asked, which is why it sees two results.
* The lemma on the algorithm (`Completes`) is about every sequence of messages of which
  only a turn has calls (`Said`), not only the reachable ones: `CompleteHistory` makes it sound with nothing open, answers nothing twice,
  says what it said (`Spoken`), and returns it as it was if nothing was missing. `BuiltIs`
  follows its loop forwards; `BuiltAsItIs` needs the loop backwards: from a sound history
  without its last message to one with it (`ResultWas`, `TurnWas`). Compaction keeps `Sound`
  because it cuts at a message that is no result (`SoundSuffix`, `SoundConcat`).
* `ResponsesAreExact` (`ModelSpec => []CallsAssembled`), for any fragments under any indices.
  The invariant (`ModelInv`) gives each index that came a place, which is its rank in the order the
  indices began, no two the same one and none free, and says that the call there is
  what the index's fragments say so far. A fragment more changes the meaning of its
  index alone (`MeantGrows`), and a new index begins after all others (`FirstPlaces`).
* `NoUpdateIsLost` (`MemorySpec => []MemoryExact`): the types and the two promises themselves are
  inductive together.
* `HistoriesAreMessages` and `AnswersAreTyped` are the type invariants of the first two.

Induction over sequences is done without an induction theorem, whose operator no
prover instantiates: a property is a set `P`, and the least position outside it is
absurd (`Upwards`, `BySequence`; the least position exists because strict
inclusion on finite sets is well-founded). That a recursive function has the value its
recursion says follows from two such inductions: functions up to each position exist, and two of them agree
on a common prefix (`CompletionExists`, `CompletionAgree`, and the same for `Spoken` and `Pieces`).

### What stays with TLC, and why

* Liveness under fairness and ENABLED are out of the prover's reach: `DeliveryEnds`,
  `WaitAnswers`, `SamplesReduced`, `RevocationConverges`, `DueIsHandled`, `SignalArrives`,
  `CloseStops`, `ListensAgain`.
* `PlatformTypeOK` and `ServicesTypeOK` join the type invariants of six and nine services and
  belong to the instances, whose steps are those of one service at a time. The types of
  `Listener`, `Mcp`, `History` and `ModelStream` are theorems; of the others, what matters is
  in the proved invariants.
* `WithinCapacity` is false of the code: the run `capacity` is about it.

Every other invariant of a passing run is a theorem.

No module declares a RECURSIVE operator.

## 5. Not modelled

* Contents: messages, prompts, results, token counts, costs, deltas, wording, the
  configurations of agents; validation that changes no row; signatures and addresses.
* The pruning of rows nothing modelled reads (sessions, logs, old buckets); expiry's page
  of a thousand rows.
* `container_files.go` (tar streams to and from the engine); the model request's format and
  usage; the database pool; the ranges of the S3 reader; the telemetry log sink.
* Agents, environments and the vault: configuration rows, each written by one statement or
  compared and set under its own row lock; the quota on memory stores, taken as in `Files`.
* The console's and the traces' handlers, which only read; HTTP plumbing, configuration,
  identifiers, encryption, static files; process assembly; the command line client.
* The TypeScript and Python clients and the web console: the Go client stands for them.

Most of the implementation's lines are outside what a model can hold: about two thirds of
the counted lines are generated models and operations of the SDKs, the console's
user interface and code generators. The hand-written server is the third these modules are about.

## 6. What is left

* Theorems: the type invariants of the services that have none of their own, and the action
  properties that `AuthCache` and `Webhooks` imply beyond the listed ones.
* Liveness of `Execution`: that a cancelled task ends, under fairness of the workers,
  needs leases and claims without the bound `MaxEpoch`, on which every behavior of the
  model ends.
* `EventStream` polls; its wake-ups by `Listener` are hints that only shorten the poll, so
  the two are not composed.
