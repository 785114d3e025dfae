---------------------------- MODULE SubagentJobs ----------------------------
(***************************************************************************)
(* The durable subagent jobs of one runtime process: the job store         *)
(* (agent/subagent_store.go), the local worker runtime that dispatches,    *)
(* resumes and cancels jobs (agent/local_worker_runtime.go) and the        *)
(* goroutines that run them (agent/subagent_run.go).                       *)
(*                                                                         *)
(* A job is named by its idempotency key.  Every method of the store holds *)
(* its mutex and is one step: it changes the job in memory, writes the     *)
(* summary and wakes the watchers; when the write fails the change in       *)
(* memory stays.  A goroutine is a slot of `runs'; between                 *)
(* two of its calls of the store anything else may happen.  Workspace      *)
(* preparation, the model and the tools are reduced to their outcomes.     *)
(* What a job says, its progress log and its lease are left out (the lease *)
(* is in SubagentLease).                                                   *)
(***************************************************************************)
EXTENDS Integers, Sequences, FiniteSets, SequencesExt

CONSTANTS Jobs,          \* idempotency keys
          Workloads,     \* what callers may do, see load
          MaxConcurrent, \* tools.subagent.max_concurrent_jobs
          MaxCycles,     \* the runner's bound on injection cycles
          MaxRuns        \* bound: goroutines alive at once

ASSUME JobsAssumption ==
    /\ IsFiniteSet(Jobs)
    /\ MaxConcurrent \in Nat \ {0}
    /\ MaxRuns \in Nat
    /\ \A w \in Workloads :
         /\ w.ops \subseteq {"dispatch", "resume", "cancel", "cancelActive", "iterate",
                            "approval", "input", "wait", "crash", "reload", "fault"}
         /\ w.calls \in Nat /\ w.crashes \in Nat

VARIABLES status,   \* the status of each job in memory, "none" when unknown
          disk,     \* the status in the job's summary.json
          inputs,   \* how many PendingInputs each job has
          created,  \* the jobs in the order they were created
          cancels,  \* the slot whose cancel function is registered, or 0
          runs,     \* the goroutines
          replays,  \* jobs whose Dispatch found them resumable, not yet resumed
          reload,   \* jobs a config reload has read as active, not yet saved
          waiter,   \* one caller of waitForFlowSessionSubagent
          panicked, \* a Dispatch has dereferenced the nil job
          load,     \* the operations that occur in this behaviour, and bounds on
                    \* the calls from outside and the crashes
          calls, crashes

vars == <<status, disk, inputs, created, cancels, runs, replays, reload,
          waiter, panicked, calls, crashes, load>>

Statuses == {"none", "pending", "pending_approval", "running", "completed",
             "canceled", "interrupted", "timeout", "error"}

Active == {"running", "pending", "pending_approval"}

\* subagentStatusTerminal
Terminal == {"completed", "canceled", "interrupted", "timeout", "error"}

RunIds == 1..MaxRuns

NoRun == [pc |-> "none"]

\* pc: where the goroutine is, or the result its run returned
\* by: 0 for a caller of the worker runtime, the slot of the goroutine that
\* takes the job from the queue, or -1 for an iteration
Run(j, by, pc) ==
    [pc |-> pc, job |-> j, by |-> by, ctx |-> "live", cycles |-> 0]

Slot == CHOOSE r \in RunIds : runs[r] = NoRun

HasSlot == \E r \in RunIds : runs[r] = NoRun

NoWait == [pc |-> "idle"]

Init ==
    /\ status = [j \in Jobs |-> "none"]
    /\ disk = [j \in Jobs |-> "none"]
    /\ inputs = [j \in Jobs |-> 0]
    /\ created = <<>>
    /\ cancels = [j \in Jobs |-> 0]
    /\ runs = [r \in RunIds |-> NoRun]
    /\ replays = {} /\ reload = {}
    /\ waiter = NoWait
    /\ panicked = FALSE
    /\ load \in Workloads
    /\ calls = 0 /\ crashes = 0

-----------------------------------------------------------------------------
(* The store *)

RunningCount == Cardinality({j \in Jobs : status[j] = "running"})

\* A watcher's channel holds one token; a full channel drops the signal.
Notify ==
    waiter' = IF waiter.pc = "idle" THEN waiter ELSE [waiter EXCEPT !.sig = TRUE]

\* The status is set, then appendProgressLocked and saveSummaryLocked ...
SetStatus(j, s) ==
    /\ status' = [status EXCEPT ![j] = s]
    /\ disk' = [disk EXCEPT ![j] = s]
    /\ Notify

\* ... one of which may fail: the summary stays, and nobody is woken.
Unsaved(j, s) ==
    /\ "fault" \in load.ops
    /\ status' = [status EXCEPT ![j] = s]
    /\ UNCHANGED <<disk, waiter>>

\* A change of another field: the summary is written with the status it has.
Rewrite(j) ==
    /\ disk' = [disk EXCEPT ![j] = status[j]]
    /\ Notify
    /\ UNCHANGED status

Unstored == UNCHANGED <<status, disk, waiter>>

SlotFree_Over == RunningCount <= MaxConcurrent

SlotFree == RunningCount < MaxConcurrent

\* A job that may run starts in a free slot; above the limit it is queued.
Launch(j) ==
    IF SlotFree
    THEN /\ HasSlot
         /\ SetStatus(j, "running")
         /\ runs' = [runs EXCEPT ![Slot] = Run(j, 0, "prepare")]
    ELSE /\ SetStatus(j, "pending")
         /\ UNCHANGED runs

\* ResumeWithLimit when the write fails: an error, and nobody runs the job.
Stuck(j) ==
    /\ Unsaved(j, IF SlotFree THEN "running" ELSE "pending")
    /\ UNCHANGED runs

Finish_Overwrite(j, s) == SetStatus(j, s)

Finish_Silent(j, s) ==
    IF status[j] = "canceled" /\ s # "canceled" THEN Unstored
    ELSE /\ status' = [status EXCEPT ![j] = s]
         /\ disk' = [disk EXCEPT ![j] = s]
         /\ UNCHANGED waiter

\* A canceled job stays canceled whatever its run returns.  The callers ignore
\* an error.
Finish(j, s) ==
    IF status[j] = "canceled" /\ s # "canceled" THEN Unstored
    ELSE SetStatus(j, s) \/ Unsaved(j, s)

Resumable_Running(j) == cancels[j] = 0 /\ status[j] \notin {"none", "completed"}

\* ResumeWithLimit's two refusals
Resumable(j) ==
    /\ cancels[j] = 0
    /\ status[j] \notin {"none", "completed", "running"}

Called(op) ==
    /\ op \in load.ops
    /\ calls < load.calls
    /\ calls' = calls + 1

-----------------------------------------------------------------------------
(* Callers of the worker runtime *)

\* Dispatch of a new key creates the job, pending or running.  A job that
\* cannot be saved is dropped again.
DispatchNew(j) ==
    /\ Called("dispatch")
    /\ status[j] = "none"
    /\ Launch(j)
    /\ created' = Append(created, j)
    /\ UNCHANGED <<inputs, cancels, replays, reload, panicked, crashes, load>>

\* Dispatch of a known key: the copy it got is interrupted or canceled.
DispatchReplay(j) ==
    /\ Called("dispatch")
    /\ status[j] \in {"interrupted", "canceled"}
    /\ j \notin replays
    /\ replays' = replays \cup {j}
    /\ UNCHANGED <<status, disk, inputs, created, cancels, runs, reload, waiter,
                   panicked, crashes, load>>

\* ... and resumes it.  When ResumeWithLimit refuses or fails, it has returned a
\* nil job, which the next line dereferences.
Replay(j) ==
    /\ j \in replays
    /\ replays' = replays \ {j}
    /\ \/ Resumable(j) /\ Launch(j) /\ UNCHANGED panicked
       \/ Resumable(j) /\ Stuck(j) /\ panicked' = TRUE
       \/ ~Resumable(j) /\ Unstored /\ UNCHANGED runs /\ panicked' = TRUE
    /\ UNCHANGED <<inputs, created, cancels, reload, calls, crashes, load>>

Resume(j) ==
    /\ Called("resume")
    /\ Resumable(j)
    /\ Launch(j) \/ Stuck(j)
    /\ UNCHANGED <<inputs, created, cancels, replays, reload, panicked, crashes,
                   load>>

Cancel(j) ==
    /\ \/ Called("cancel")
       \/ Called("cancelActive") /\ cancels[j] # 0
    /\ status[j] # "none"
    /\ runs' = IF cancels[j] = 0 THEN runs ELSE [runs EXCEPT ![cancels[j]] = [@ EXCEPT !.ctx = "done"]]
    /\ IF status[j] \in Active THEN SetStatus(j, "canceled") \/ Unsaved(j, "canceled")
       ELSE Unstored
    /\ UNCHANGED <<inputs, created, cancels, replays, reload, panicked, crashes,
                   load>>

\* IterateDurableSubagentWithUpdate runs the job in the caller's goroutine,
\* without a place in the limit and without a registered cancel function.
Iterate(j) ==
    /\ Called("iterate")
    /\ status[j] \in {"completed", "error"}
    /\ inputs' = [inputs EXCEPT ![j] = @ + 1]
    /\ \/ /\ HasSlot
          /\ SetStatus(j, "running")
          /\ runs' = [runs EXCEPT ![Slot] = Run(j, -1, "run")]
       \/ Unsaved(j, "running") /\ UNCHANGED runs
    /\ UNCHANGED <<created, cancels, replays, reload, panicked, crashes, load>>

\* send_input, followup_task
AppendPendingInputs(j) ==
    /\ Called("input")
    /\ status[j] \notin Terminal \cup {"none"}
    /\ inputs' = [inputs EXCEPT ![j] = @ + 1]
    /\ Rewrite(j)
    /\ UNCHANGED <<created, cancels, runs, replays, reload, panicked,
                   crashes, load>>

-----------------------------------------------------------------------------
(* A goroutine *)

\* The workspace is ready: SetWorkspace, then SetActive, then the run.
Prepared(r) ==
    /\ runs[r].pc = "prepare"
    /\ runs' = [runs EXCEPT ![r] = [@ EXCEPT !.pc = "run"]]
    /\ cancels' = [cancels EXCEPT ![runs[r].job] = r]
    /\ Rewrite(runs[r].job)
    /\ UNCHANGED <<inputs, created, replays, reload, panicked, calls,
                   crashes, load>>

\* It could not be prepared.  A caller then starts the queue; the goroutine
\* that took the job from the queue goes on with the next.
PrepareFails(r) ==
    /\ runs[r].pc = "prepare"
    /\ Finish(runs[r].job, "error")
    /\ runs' = [runs EXCEPT ![r] = IF @.by = 0 THEN [@ EXCEPT !.pc = "starting"]
                                               ELSE NoRun]
    /\ UNCHANGED <<inputs, created, cancels, replays, reload, panicked, calls,
                   crashes, load>>

\* The runner takes the queued inputs at a turn boundary.
DrainPendingInputs(r) ==
    /\ runs[r].pc = "run"
    /\ inputs[runs[r].job] > 0
    /\ runs[r].cycles < MaxCycles
    /\ inputs' = [inputs EXCEPT ![runs[r].job] = 0]
    /\ runs' = [runs EXCEPT ![r].cycles = @ + 1]
    /\ Rewrite(runs[r].job)
    /\ UNCHANGED <<created, cancels, replays, reload, panicked, calls,
                   crashes, load>>

Results == {"completed", "canceled", "timeout", "error", "pending_approval"}

\* How the run can end: a final answer only when the last drain found nothing;
\* a canceled context shows as canceled unless the run ended before it.
Outcomes(r) ==
    {"error", "timeout"}
      \cup (IF inputs[runs[r].job] = 0 \/ runs[r].cycles = MaxCycles
            THEN {"completed"} ELSE {})
      \cup (IF runs[r].ctx = "done" \/ runs[r].by = -1 THEN {"canceled"} ELSE {})
      \cup (IF "approval" \in load.ops /\ runs[r].ctx = "live" THEN {"pending_approval"} ELSE {})

RunReturns(r) ==
    /\ runs[r].pc = "run"
    /\ \E out \in Outcomes(r) :
         runs' = [runs EXCEPT ![r] = [@ EXCEPT !.pc = out]]
    /\ UNCHANGED <<status, disk, inputs, created, cancels, replays, reload, waiter,
                   panicked, calls, crashes, load>>

\* SetPendingApproval or Finish; an iteration returns to its caller.
FinishRun(r) ==
    /\ runs[r].pc \in Results
    /\ LET j == runs[r].job IN
         IF runs[r].pc = "pending_approval"
         THEN /\ SetStatus(j, "pending_approval") \/ Unsaved(j, "pending_approval")
              /\ cancels' = [cancels EXCEPT ![j] = 0]
         ELSE /\ Finish(j, runs[r].pc)
              /\ UNCHANGED cancels
    /\ runs' = [runs EXCEPT ![r] = IF @.by = -1 THEN NoRun ELSE [@ EXCEPT !.pc = "clear"]]
    /\ UNCHANGED <<inputs, created, replays, reload, panicked, calls, crashes, load>>

ClearActive_Quit(r) ==
    /\ runs[r].pc = "clear"
    /\ cancels' = [cancels EXCEPT ![runs[r].job] = 0]
    /\ runs' = [runs EXCEPT ![r] = NoRun]
    /\ UNCHANGED <<status, disk, inputs, created, replays, reload, waiter, panicked,
                   calls, crashes, load>>

ClearActive(r) ==
    /\ runs[r].pc = "clear"
    /\ cancels' = [cancels EXCEPT ![runs[r].job] = 0]
    /\ runs' = [runs EXCEPT ![r].pc = "starting"]
    /\ UNCHANGED <<status, disk, inputs, created, replays, reload, waiter, panicked,
                   calls, crashes, load>>

Queued == SelectSeq(created, LAMBDA j : status[j] = "pending")

\* StartNextPending: the oldest queued job, while there is a free place.  The
\* goroutine prepares the job it took before it takes another, and stops at an
\* error.
StartNextPending(r) ==
    /\ runs[r].pc = "starting"
    /\ \A c \in RunIds : runs[c] # NoRun /\ runs[c].by = r => runs[c].pc # "prepare"
    /\ IF Queued # <<>> /\ SlotFree
       THEN \/ /\ HasSlot
               /\ SetStatus(Head(Queued), "running")
               /\ runs' = [runs EXCEPT ![Slot] = Run(Head(Queued), r, "prepare")]
            \/ /\ Unsaved(Head(Queued), "running")
               /\ runs' = [runs EXCEPT ![r] = NoRun]
       ELSE /\ Unstored
            /\ runs' = [runs EXCEPT ![r] = NoRun]
    /\ UNCHANGED <<inputs, created, cancels, replays, reload, panicked, calls,
                   crashes, load>>

-----------------------------------------------------------------------------
(* A caller that waits for a job *)

Watch(j) ==
    /\ Called("wait")
    /\ waiter = NoWait
    /\ status[j] # "none"
    /\ waiter' = [pc |-> "check", job |-> j, sig |-> FALSE]
    /\ UNCHANGED <<status, disk, inputs, created, cancels, runs, replays, reload,
                   panicked, crashes, load>>

Check ==
    /\ waiter.pc = "check"
    /\ waiter' = IF status[waiter.job] \in Terminal \cup {"pending_approval"}
                 THEN NoWait ELSE [waiter EXCEPT !.pc = "wait"]
    /\ UNCHANGED <<status, disk, inputs, created, cancels, runs, replays, reload,
                   panicked, calls, crashes, load>>

Woken ==
    /\ waiter.pc = "wait"
    /\ waiter.sig
    /\ waiter' = [waiter EXCEPT !.pc = "check", !.sig = FALSE]
    /\ UNCHANGED <<status, disk, inputs, created, cancels, runs, replays, reload,
                   panicked, calls, crashes, load>>

-----------------------------------------------------------------------------
(* Restart and reload *)

\* Mutation: a running job is loaded as it is.
Loaded_Running(s) == IF s \in Active \ {"running"} THEN "interrupted" ELSE s

\* normalizeLoadedJob; loadAll saves only what was running or pending.
Loaded(s) == IF s \in Active THEN "interrupted" ELSE s

Saved(s) == IF s \in {"running", "pending"} THEN "interrupted" ELSE s

Restart ==
    /\ "crash" \in load.ops
    /\ crashes < load.crashes
    /\ crashes' = crashes + 1
    /\ status' = [j \in Jobs |-> Loaded(disk[j])]
    /\ disk' = [j \in Jobs |-> Saved(disk[j])]
    /\ cancels' = [j \in Jobs |-> 0]
    /\ runs' = [r \in RunIds |-> NoRun]
    /\ replays' = {} /\ reload' = {}
    /\ waiter' = NoWait
    /\ UNCHANGED <<inputs, created, panicked, calls, load>>

\* ApplyConfig builds a second store over the same directory and drops it:
\* its loadAll reads each summary ...
ReloadRead(j) ==
    /\ Called("reload")
    /\ disk[j] \in {"running", "pending"}
    /\ j \notin reload
    /\ reload' = reload \cup {j}
    /\ UNCHANGED <<status, disk, inputs, created, cancels, runs, replays, waiter,
                   panicked, crashes, load>>

\* ... and writes the ones that were active back, without the first's mutex.
ReloadSave(j) ==
    /\ j \in reload
    /\ reload' = reload \ {j}
    /\ disk' = [disk EXCEPT ![j] = "interrupted"]
    /\ UNCHANGED <<status, inputs, created, cancels, runs, replays, waiter, panicked,
                   calls, crashes, load>>

-----------------------------------------------------------------------------

Goroutine(r) ==
    \/ Prepared(r) \/ PrepareFails(r) \/ DrainPendingInputs(r) \/ RunReturns(r)
    \/ FinishRun(r) \/ ClearActive(r) \/ StartNextPending(r)

Next ==
    \/ \E j \in Jobs :
         \/ DispatchNew(j) \/ DispatchReplay(j) \/ Replay(j) \/ Resume(j) \/ Cancel(j)
         \/ Iterate(j) \/ AppendPendingInputs(j) \/ Watch(j)
         \/ ReloadRead(j) \/ ReloadSave(j)
    \/ \E r \in RunIds : Goroutine(r)
    \/ Check \/ Woken
    \/ Restart

Spec == Init /\ [][Next]_vars

\* The Go scheduler runs every goroutine; a run's model calls and tools return.
Fairness ==
    /\ \A r \in RunIds : /\ WF_vars(Prepared(r) \/ PrepareFails(r))
                         /\ WF_vars(RunReturns(r))
                         /\ WF_vars(FinishRun(r))
                         /\ WF_vars(ClearActive(r))
                         /\ WF_vars(StartNextPending(r))
    /\ WF_vars(Check) /\ WF_vars(Woken)

FairSpec == Spec /\ Fairness

-----------------------------------------------------------------------------
(* Properties *)

Live == {r \in RunIds : runs[r] # NoRun}

\* The behaviour does none of the given operations.
Without(S) == load.ops \cap S = {}

\* The goroutines that are carrying out a job.
Executing(j) == {r \in Live : runs[r].job = j /\ runs[r].pc \in {"prepare", "run"} \cup Results}

\* No two goroutines carry out one job at the same time ("already active",
\* ResumeWithLimit).
OneRunPerJob == \A j \in Jobs : Cardinality(Executing(j)) <= 1

\* It is so although a job may be resumed, replayed by its key and taken from the
\* queue concurrently, with restarts in between, as long as jobs are canceled
\* only while their cancel function is registered and never iterated.
OneRunUnlessStray == Without({"cancel", "iterate"}) => OneRunPerJob

\* At most max_concurrent_jobs jobs are running, however starts, resumes, the
\* queue, cancellation, approval, restarts and failed writes interleave; only an
\* iteration takes no place.
RunLimit == Without({"iterate"}) => RunningCount <= MaxConcurrent

\* A canceled job leaves that status only to run again: the end of the run it
\* canceled cannot turn it into a finished one (Finish keeps canceled).  Only
\* SetPendingApproval, and a reload or a cancellation that was not saved before
\* a restart, do not respect it.
CanceledStays ==
    [][(Without({"approval", "reload"}) /\ (Without({"fault"}) \/ Without({"crash"}))) =>
         \A j \in Jobs : status[j] = "canceled"
                           => status'[j] \in {"canceled", "running", "pending"}]_vars

\* A job that says it is running is carried out by somebody, who will end it and
\* give its place back: it is never left so by a workspace that fails, a
\* cancellation, an approval, an iteration, a stray run that ends it first, a
\* restart or the second store of a reload (runSubagentJob, normalizeLoadedJob).
\* Only a write that fails leaves a job running that nobody runs.
RunningHasRun ==
    Without({"fault"}) => \A j \in Jobs : status[j] = "running" => Executing(j) # {}

\* A job that is completed has taken every input that was accepted for it.  This
\* is not so: an input may arrive between the last drain and Finish.
InputsTaken == \A j \in Jobs : status[j] = "completed" => inputs[j] = 0

\* Dispatching a known key never fails inside the runtime.  This is not so: a
\* refused resumption leaves Dispatch with a nil job.
ReplayIsSafe == ~panicked

\* A queued job leaves the queue: every goroutine that frees a place starts the
\* queue after it; only the end of an iteration does not, and a failed write can
\* keep a place for ever.
PendingStarts ==
    \A j \in Jobs :
      Without({"iterate", "fault"}) /\ status[j] = "pending" ~> status[j] # "pending"

Waits(j) == waiter.pc # "idle" /\ waiter.job = j

\* A caller waiting for a job that has finished is woken and returns, unless
\* the job is started again first: the watcher is registered before the job is
\* read, so no signal falls between the two.  A failed write wakes nobody.
WaiterReturns ==
    \A j \in Jobs :
      Without({"fault"}) /\ Waits(j) /\ status[j] \in Terminal ~> ~Waits(j) \/ status[j] \notin Terminal

=============================================================================
