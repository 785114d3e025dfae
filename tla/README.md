# A verification project for godex

godex is an agent runtime. This project models, in TLA+, the parts of it in which
goroutines, files, timers and restarts meet: FlowSessions, the turn queue of a
chat session, durable subagent jobs and their leases, the cron scheduler, and the
runs of flows. TLC checks the models on small instances, and TLAPS proves the
invariants that matter most for every instance.

Paths below are relative to `src/internal`. The lines every definition stands for
are in `PROJECT.json` (`map`), and so are the hazards the properties are about.

## 1. The system and its modules

| Part | Code | Modules |
|---|---|---|
| FlowSession store and work protocol | `agent/flow_session_store.go`, `flow_session_ops.go`, `flow_session_runtime.go` | `FlowSessionRecord`, `FlowSession`, `FlowSessionStore`, `FlowSessionStoreProofs` |
| FlowSession scheduler | `services/backend/flow_session_runtime.go`, `flows.go` | `FlowSessionScheduler` |
| Turn queue and session state | `services/backend/turn.go`, `sessionstate.go`, `load.go` | `TurnQueue`, `TurnQueueProofs` |
| Subagent jobs | `agent/subagent_store.go`, `local_worker_runtime.go`, `subagent_run.go` | `SubagentJobs`, `SubagentJobsProofs` |
| Leases of subagent runs | `core/lease`, `agent/subagent_run.go` | `SubagentLease`, `SubagentLeaseProofs` |
| Cron and its idempotency keys | `runtime/cron`, `core/idempotency` | `Cron` |
| Flow runs, workflow DAG, human tasks | `agent/workflow*.go`, `flow_ops.go`, `flow_human_ops.go`, `flow_webhook.go`, `services/backend/flow_reconciler.go` | `WorkflowRun`, `FlowRun` |

`MC*` modules hold the instances TLC uses.

How the parts meet. The scheduler of FlowSessions works on the store through the
operations of `FlowSessionRecord`, which the abstract store, the detailed store and
the scheduler share. A flow run executes its nodes as subagent jobs; `WorkflowRun`
has such a job as something that ends by itself or is canceled, `SubagentJobs` has
what happens inside. A run of a job holds a lease, modelled alone in
`SubagentLease`.

### FlowSessionRecord, FlowSession, FlowSessionStore

A record keeps `status`, `last` (`last_sequence`), `processed`, `sv`
(`state_version`), `gen` (`execution_generation`), `pending` (the outbox) and
`cursors` (`source_cursors`). The JSON state is the number of updates it
incorporates: a handler that ran on state *n* produces *n + 1*, so an overwritten
update shows as a number that does not grow. An event's content is one value, its
`type`, which also stands for its hash: hashes do not collide.

`FlowSession` is the abstract specification: one record, one log, every operation
atomic. `FlowSessionStore` has the two files, the session lock and every call in
steps, one per file operation. `journal` is the complete records of
`events.jsonl`, `tail` what follows them, `disk` is `summary.json`, `mem` the record
of the running call. Every call begins with the load (`ReadTail`, `FlushOne`,
`FlushDone`, `RecoverTail`, `LoadDone`), because every call in the code does.
`Refuse` is every early return of the checks, `Fail` ends a call at any step,
`TornAppend` is a short write, `Crash` ends the process.

### FlowSessionScheduler

`sch` is what the scheduler's mutex guards. A coordinator goes through `process`
with one step per critical section or store call, a task through `runAsyncTask`.
API calls that touch the store first and the scheduler after leave a continuation
in `after`, so the second halves of two calls can run in any order. The ticker
(`TickScan`, `TickSync`, `TickPrune`, ...) recovers sessions and keeps the periodic
lanes. Job identities stand for pointers. `latest` and `done` are history.

### TurnQueue

One token (`holder`) lets one turn or command run. A step is one critical section.
The files are written after it and under no lock: `saves` are the snapshots on their
way, `Land` writes one, and a goroutine goes on when its own has landed (`Saved`).
Two writers can therefore land in the other order; `overtaken` remembers that an older
snapshot has replaced a newer one. Only a crash reads `disk`, so workloads without
crashes do without these steps. `calls` are API calls between two of their steps,
`after` the goroutines in `startQueuedTurns`. `submitted`, `delivered`, `withdrawn`,
`started` and `overtaken` are history.

### SubagentJobs and SubagentLease

Every method of the job store holds its mutex and is one step; a goroutine is a slot
of `runs`. A method changes the status in memory and then writes the summary; with
`fault` the write may fail, and `status` and `disk` part. `replays` and `reload` are
decisions taken on a copy and not yet carried out.

In `SubagentLease` time passes in units, several to a beat interval. `age` is the time
since a lease was renewed. Every run has its own ticker (`phase`) whose channel holds
one tick (`ticks`), so that a beat may be served late and the next one at once.

### Cron

Job files are read and written whole, and no lock spans two accesses; `ListJobs` reads
them one by one. `loops` are the goroutines of `loop` and `dispatchDue`: `Stop` forgets
the one that is `current`, and `Start` may begin another while it still works on its
list. `runs` are the goroutines of jobs, `chans` every semaphore channel made so far (a
reload makes a new one). Time is counted in seconds, as in the keys.

### WorkflowRun and FlowRun

`WorkflowRun` has what each operation that holds a workflow's lock does to its files,
as operators: `Loaded` (the refresh at every load), `Advance`, `Step`, `Cancel`,
`Complete`, `Expire`, `ProcessEdges`, ... A call of the API is not atomic: it
reads the run record, does one or more of these operations and writes its copy of the
record back without a lock. In `FlowRun` a call is therefore a program, a sequence of
steps, and the steps of calls interleave with each other, with the reconciler
(`advance`), with jobs that end, with backoffs and deadlines, and with a crash.
`CrashInSave` is a crash between the write of the summary and of the nodes. A workload
may also have operations that fail (`faults`): reading the version with the webhook,
changing the workflow at a human's timeout, writing the inbox a task is escalated to.
`Then` and `ForEach` only make TLC evaluate an argument once.

## 2. Runs

Most modules take a set of *workloads* (the store: *bounds*): which calls occur and
how often. `Init` picks one and no step changes it, so one run covers several
situations, each large in one respect. A property that the code keeps only without
some call says so with `Without({...})`.

| Run | Instance | Shows |
|---|---|---|
| `store` | 2 sources, source sequences 0..2, 2 workers, 0 or 2 outputs, 3 events | the two files stay recoverable (`RecoveryInv`); source sequences enter once and in order (`SourceOrder`), and cursors survive recovery (`CursorsMatchJournal`); no update is lost and late results are fenced (`NoLostUpdate`, `ResultsAreCurrent`); the store implements `FlowSession` (`Refines`) |
| `scheduler` | 2 coordinators, 2 publishers, 1 or 2 events, queues with room for 1 or 2, restart, pause, resume, end, interrupt, a failed load | `OneTaskUnlessRequeued`, `NoOrphanJob`, `NoSignalLost` |
| `scheduler_live` | interrupts, deadlines, `drop_newest`, periodic lanes | `EventsProcessed`, `SignalsEvaluated`, `PeriodicLanesSettle`, `EndedLeavesNothing` |
| `turns` | up to 3 messages, 4 turns, 3 crashes, writes in any order | `ActiveHoldsGate`, `NoMessageLost`, `NoMessageTwice`, `RecoveredOnce`, `TokenReturns`, `QueuedDuringTurnStarts` |
| `jobs` | 2 jobs, limit 1, 3 or 4 calls, 1 crash, failed writes | `OneRunUnlessStray`, `RunLimit`, `RunningHasRun`, `CanceledStays`, `PendingStarts`, `WaiterReturns` |
| `lease` | 2 jobs, ttl of 3 beats, 3 units to a beat, errors, stalls, crashes | `CanceledAfterOutage`, `MissedBeatsKeepLease` |
| `cron` | a periodic and a one-off job, 1 or 2 places, 2 seconds, edits, reload, Stop and Start, 1 crash | `OneRunPerJob`, `KeyOnce`, `DueIsTaken`, `AtJobRuns` |
| `flow_run` | flows of 2 or 3 nodes: chain, branch, loop, human, retry, deadline, parallel; 1 to 3 kinds of calls; 1 crash or operations that fail | `EndedRunIsQuiet`, `AttemptsBounded`, `CompletedMeansRouted`, `DependenciesCompleted`, `RecordTellsResult`, `ResultStays`, `RunEnds`, `InboxSettles`, `WebhookTried` |

Each definition carries a comment with what it says in full, and with the cases it
leaves out because the code does not keep it there.

Four runs state what a document, a comment or a test says, and are violated:

| Run | Claim | What happens |
|---|---|---|
| `scheduler_overlap` | at most one task per lane; "A quick resume ... cannot launch overlapping work" | a pause deletes a job whose key stays in the work channel; two coordinators claim the next job, one deletes it while the other has put it in flight, and the resume starts a second task. The store's fence still rejects the second result |
| `turn_wakeup` | a queued follow-up runs after the first turn | a message queued after `tryAcquire` failed, when the turn has ended and its goroutine has seen an empty queue, is not started by anyone |
| `jobs_two_runs` | no two workers process the same job | a job canceled while its workspace is prepared, then resumed, is run by two goroutines |
| `cron_twice` | a one-off job runs once | a scan waits for a place and dispatches the job from a copy that is out of date |

### Bounds and why they are enough

Bounds limit the calls made, not the steps of a call: no call is cut short.

* Store: two outputs are the smallest outbox that can be flushed in part; the second
  bound allows a pause and a resume between the snapshot and the result of a worker;
  one allowed cursor for two sources reaches the limit on sources.
* Scheduler: two coordinators are needed for two holders of one job, two publishers
  for two signals in a lane. `JobCapacity` and `TaskCapacity` are the room other
  sessions leave in queues of 256. `scheduler_live` has `JobCapacity` 3: in a channel
  of 2, entries that are out of date can fill it and keep the durable lane waiting.
* Turns: three messages are one that runs and two that wait; recovery after recovery
  needs more than one crash; two messages beside a recovery are enough for a write
  that is overtaken.
* Jobs: two jobs and a limit of 1 make one of them wait; four goroutines leave room
  for those that have been canceled and not yet unwound.
* Lease: an interval is a third of the ttl, as in the code; three units to an interval
  tell beats served at once, late, and very late apart.
* Cron: a second for the first run and one for what follows; two jobs for one place;
  two loops, since a third needs both to be at work.
* Flow runs: three nodes are a routing node and two targets, or two iterations of a
  loop. Every call but the debug step and the reconciler's is made once.

### Fairness

Goroutines that can go on do, tickers fire, turns, handlers, model calls and tools
return. Fairness is weak, with one exception. That they return is an assumption on what is outside the
program; the code bounds them by a timeout only where one is configured.

* Scheduler: every coordinator, the task of every lane, calls that have begun, the
  ticker. No call need ever be made.
* Turn queue: calls that have begun, each starter, writes that are on their way, and
  the holder of the token. The holder is strongly fair: its checkpoints and drained
  injections make it wait for their writes, and no run makes them for ever.
* Jobs: each step of a goroutine, and the waiting caller.
* Cron: clock, each loop, each goroutine, `RunNow` and `UpdateJob` once begun.
* Flow runs: calls that have begun, the reconciler, and the world (jobs end, backoffs
  and deadlines pass, the startup scan runs). A person who is asked replies if the
  workload has a reply; `RunEnds` needs it for flows with a human node.

The store and the lease have no liveness property: their calls may fail at every step.

## 3. Proofs

| Theorem | States | Assumptions |
|---|---|---|
| `RecoveryInvariance` | `[]RecoveryInv` | the reserved source `godex` is not a client's; numbers and limits are naturals; bounds are well-formed |
| `TypeCorrectness`, `JournalNumbering`, `SessionStaysLoadable`, `CleanAppends` | `[]TypeOK`, `[]JournalContiguous`, `[]NoSequenceGap`, `[]AppendsOnCleanTail` | the same |
| `ActiveTurnHoldsToken` | `[]ActiveHoldsGate` | none beyond the module's |
| `RunningJobsLimited`, `RunningJobsCarried`, `CanceledJobsStay` | `[]RunLimit`, `[]RunningHasRun`, `CanceledStays` | finitely many jobs, a limit of at least 1 |
| `CancelNeedsOutage`, `FewMissesKeepLease` | `[]CanceledAfterOutage`, `[]MissedBeatsKeepLease` | ttl, interval and limit of missed beats are positive; ages are told apart beyond both |

*Store.* `NoSequenceGap` is not inductive: how far the journal is ahead of the summary
when a load looks at it depends on what the interrupted call was doing. `RecoveryInv`
relates the places an event can be (`InStep`), the shape of the outbox (`Sound`) and
what each stage of a call may rely on (`StageInv`). The four other theorems follow
from it, so the run checks `RecoveryInv` only.

*Turn queue.* `IInv` adds to `ActiveHoldsGate` that the holder has its fields; one lemma
per action that touches token or active turn.

*Jobs.* `StatusStep` says which changes of statuses and summaries a step may make; it is
proved once for every action from `RunsInv` and `ReloadInv`, and two of the theorems
follow from it with `LimitInv` or `CanceledInv`. `CarriedInv` is `RunningHasRun` with the
goroutine named: a step keeps it, replaces it or ends the job. `SameLoad` carries
`Without` along.

*Lease.* `Late` is the time the beats stand for that a loop has missed, serves or still
has in its channel. `JobInv` relates it to the age of the lease: the two run together and
part by less than two intervals, or less than one if every tick is served before the
next. That is the most a renewal made late can put between them.

Only model-checked: all liveness properties and `ENABLED`, the refinement `Refines`,
the fence and source-order properties of the store, everything about the scheduler,
cron and flow runs (whose engine folds over sequences of nodes and edges).

## 4. Further disagreements

TLC also showed these on instances that are not among the runs above, or on properties
without their `Without` condition. Each is a place where the models follow the code.

* Store: lifecycle and output events exceed the limit on unprocessed events
  (`PendingBounded`); a client event of type `session.paused`, if it is recovered from
  the journal after a crash, pauses the session.
* Scheduler: an interrupt queues the durable lane's key again, so that two coordinators
  can start two tasks of it, as after a resume (`OneTaskPerLane`); a pause between `takeSignal` and `dispatch` loses the signal; a durable
  event whose handler exceeds its lane's deadline is run again for ever.
* Turn queue: a message steered into a turn that has given its injections back is lost;
  a late cancel marks a completed turn, which the next start reports as interrupted; a
  turn whose resumption was canceled and that is resumed by hand can be resumed
  automatically again. A `SubmitAsync` that took its snapshot of the queue before a
  recovery was dropped from it, and writes it afterwards, brings the recovery back: after
  a crash the turn is resumed a second time, where `load.go:1043` says "at most one
  automatic resume attempt" (`RecoveredOnce` without `~overtaken`).
* Jobs: a resumption whose write fails returns an error and leaves the job running in
  memory with nobody to run it (`RunningHasRun` without its condition); replaying the key of a canceled job that has not unwound dereferences nil
  (`ReplayIsSafe`); a reload writes `interrupted` over a completed job; an input can be
  accepted after the last drain (`InputsTaken`); an iteration that ends does not start
  the queue.
* Lease: after a quick restart a resumed job runs without a lease; a run can be canceled
  before its lease has expired, since a beat that is served late renews late.
* Cron: a reload makes a new semaphore, so runs of both channels together can exceed
  the new limit, and a run can wait for ever to give back a place in the new channel;
  `RunNow` can leave a log that says running (`RunningLogIsLive`); a crash after a
  one-off job was saved as running loses it.
* Flow runs: a start and a cancel can both deliver the webhook, where
  `flow_webhook.go:30` says "exactly once"; a stale save leaves the record running after
  the run has ended; a crash between the two writes of a save loses a node's routing; a
  debug step starts nodes of a run that has ended; an escalated human task has two files,
  of which a reply settles one and a cancel looks only at pending ones; when a node fails after the deadline the run counts as timed
  out and other jobs go on; after a restart the interrupted nodes are canceled and
  without a deadline the run does not end; the `llm` timeout policy can overwrite a reply;
  canceling a run inside a loop appends an iteration that never starts.

## 5. Not modelled

Inside the modelled parts:

* Store: power loss (`WriteFileAtomic` renames without `fsync`), damage to complete
  journal lines, records of older versions, listing and deletion.
* Scheduler: the progress display; the worker classes share one pool.
* Turn queue: failed writes, the SQLite copy of the files, panics, the search of the timeline for a turn without a record,
  trimming of records, what a turn says. `persistSession` lands in one piece: a load
  prefers its checkpoint to older files.
* Jobs: merging, review and cleanup of workspaces, the text of the progress log.
* Lease: `ReleaseByJobID` and `IsLeased`, which the runs do not call.
* Cron: `CreateJob`, failed writes of job files, the doctor report, the waiting in `Stop`,
  which changes nothing.
* Flow runs: the workflow tool of a chat session (appending nodes, canceling one node),
  compilation of flows, handoff documents, scripts, the limit of 64 nodes. Nodes that run
  in place take no time; a job whose output breaks its contract is one that failed.

The components with status `not_modelled` in `PROJECT.json` have a note each on what is
known of them. Most were read only in part. Those whose concurrency would repay a model
next are the asynchronous long-task runs, the heartbeat (close to `Cron`) and the
teammate loops with their generations and wakeups. User interfaces, provider clients,
channels and tools are input and output around the parts above.
