------------------------- MODULE SubagentJobsProofs -------------------------
(***************************************************************************)
(* Proofs about the durable subagent jobs, for every set of jobs, every    *)
(* limit and any number of goroutines, calls and restarts: the limit on    *)
(* running jobs, that somebody runs them, and the finality of              *)
(* cancellation.  Each holds for the callers its property names.           *)
(***************************************************************************)
EXTENDS SubagentJobs, FiniteSetTheorems, TLAPS

\* A goroutine has all of its fields, and waits for an approval only where
\* tools can ask for one.
RunOK(x) ==
    \/ x = NoRun
    \/ /\ x = [pc |-> x.pc, job |-> x.job, by |-> x.by, ctx |-> x.ctx, cycles |-> x.cycles]
       /\ x.pc = "pending_approval" => "approval" \in load.ops

RunsInv ==
    /\ runs = [r \in RunIds |-> runs[r]]
    /\ \A r \in RunIds : RunOK(runs[r])

\* Which operations occur is chosen once.
LEMMA SameLoad == [Next]_vars => load' = load
  BY DEF Next, Goroutine, DispatchNew, DispatchReplay, Replay, Resume, Cancel, Iterate,
         AppendPendingInputs, Watch, ReloadRead, ReloadSave, Check, Woken, Restart,
         Prepared, PrepareFails, DrainPendingInputs, RunReturns, FinishRun, ClearActive,
         StartNextPending, vars

LEMMA NoRunPc == NoRun.pc = "none"
  BY DEF NoRun

\* One goroutine changes.
LEMMA OneRun ==
    ASSUME RunsInv, load' = load, NEW r, NEW x, RunOK(x), runs' = [runs EXCEPT ![r] = x]
    PROVE  RunsInv'
  BY DEF RunsInv, RunOK

LEMMA NewRun == ASSUME NEW j, NEW by, NEW pc, pc # "pending_approval" PROVE RunOK(Run(j, by, pc))
  BY DEF Run, RunOK

LEMMA LaunchRuns == ASSUME RunsInv, load' = load, NEW j \in Jobs, Launch(j) PROVE RunsInv'
<1>1. CASE SlotFree
  <2>1. RunOK(Run(j, 0, "prepare"))
    BY NewRun
  <2> QED BY <1>1, <2>1, OneRun DEF Launch
<1>2. CASE ~SlotFree
  BY <1>2 DEF Launch, RunsInv, RunOK
<1> QED BY <1>1, <1>2

\* A goroutine moves on.
LEMMA MovedRun ==
    ASSUME NEW x, RunOK(x), x # NoRun, NEW pc, pc = "pending_approval" => "approval" \in load.ops
    PROVE  RunOK([x EXCEPT !.pc = pc])
  BY DEF RunOK

LEMMA CallRuns ==
    ASSUME RunsInv, load' = load, NEW j \in Jobs,
           DispatchNew(j) \/ DispatchReplay(j) \/ Replay(j) \/ Resume(j) \/ Cancel(j)
           \/ Iterate(j) \/ AppendPendingInputs(j) \/ Watch(j)
           \/ ReloadRead(j) \/ ReloadSave(j)
    PROVE  RunsInv'
<1>1. CASE UNCHANGED runs
  BY <1>1 DEF RunsInv, RunOK
<1>2. CASE Launch(j)
  BY <1>2, LaunchRuns
<1>3. CASE Cancel(j)
  <2>1. CASE cancels[j] \in RunIds /\ runs[cancels[j]] # NoRun
    <3> DEFINE r == cancels[j]
               x == [runs[r] EXCEPT !.ctx = "done"]
    <3>1. RunOK(x)
      BY <2>1 DEF RunsInv, RunOK
    <3>2. runs' = runs \/ runs' = [runs EXCEPT ![r] = x]
      BY <1>3 DEF Cancel
    <3> HIDE DEF r, x
    <3> QED BY <1>1, <3>1, <3>2, OneRun
  <2>2. CASE cancels[j] \in RunIds /\ runs[cancels[j]] = NoRun
    <3>1. [runs[cancels[j]] EXCEPT !.ctx = "done"] = NoRun
      BY <2>2 DEF NoRun
    <3>2. RunOK(NoRun)
      BY DEF RunOK
    <3>3. runs' = runs \/ runs' = [runs EXCEPT ![cancels[j]] = NoRun]
      BY <1>3, <3>1 DEF Cancel
    <3> QED BY <1>1, <3>2, <3>3, OneRun
  <2>3. CASE cancels[j] \notin RunIds
    <3>1. UNCHANGED runs
      BY <1>3, <2>3 DEF Cancel, RunsInv
    <3> QED BY <1>1, <3>1
  <2> QED BY <2>1, <2>2, <2>3
<1>4. CASE Iterate(j)
  <2>1. RunOK(Run(j, -1, "run"))
    BY NewRun
  <2> QED BY <1>1, <1>4, <2>1, OneRun DEF Iterate
<1> QED
  BY <1>1, <1>2, <1>3, <1>4
     DEF DispatchNew, DispatchReplay, Replay, Resume, Stuck, AppendPendingInputs, Watch,
         ReloadRead, ReloadSave

LEMMA GoroutineRuns ==
    ASSUME RunsInv, load' = load, NEW r \in RunIds, Goroutine(r) PROVE RunsInv'
<1>0. RunOK(runs[r]) /\ RunOK(NoRun)
  BY DEF RunsInv, RunOK
<1>1. CASE Prepared(r)
  <2>1. RunOK([runs[r] EXCEPT !.pc = "run"])
    BY <1>0, <1>1, NoRunPc, MovedRun DEF Prepared
  <2>2. runs' = [runs EXCEPT ![r] = [runs[r] EXCEPT !.pc = "run"]]
    BY <1>1 DEF Prepared
  <2> QED BY <2>1, <2>2, OneRun
<1>2. CASE PrepareFails(r)
  <2>1. RunOK([runs[r] EXCEPT !.pc = "starting"])
    BY <1>0, <1>2, NoRunPc, MovedRun DEF PrepareFails
  <2>2. \/ runs' = [runs EXCEPT ![r] = [runs[r] EXCEPT !.pc = "starting"]]
        \/ runs' = [runs EXCEPT ![r] = NoRun]
    BY <1>2 DEF PrepareFails
  <2> QED BY <1>0, <2>1, <2>2, OneRun
<1>3. CASE DrainPendingInputs(r)
  <2> DEFINE x == [runs[r] EXCEPT !.cycles = runs[r].cycles + 1]
  <2>1. RunOK(x)
    BY <1>0, <1>3, NoRunPc DEF DrainPendingInputs, RunOK
  <2>2. runs' = [runs EXCEPT ![r] = x]
    BY <1>3 DEF DrainPendingInputs
  <2> HIDE DEF x
  <2> QED BY <2>1, <2>2, OneRun
<1>4. CASE RunReturns(r)
  <2>1. PICK out \in Outcomes(r) :
          runs' = [runs EXCEPT ![r] = [runs[r] EXCEPT !.pc = out]]
    BY <1>4 DEF RunReturns
  <2>2. out = "pending_approval" => "approval" \in load.ops
    BY <2>1 DEF Outcomes
  <2>3. runs[r] # NoRun
    BY <1>4, NoRunPc DEF RunReturns
  <2>4. RunOK([runs[r] EXCEPT !.pc = out])
    BY <1>0, <2>2, <2>3, MovedRun
  <2> QED BY <2>1, <2>4, OneRun
<1>5. CASE FinishRun(r)
  <2>1. RunOK([runs[r] EXCEPT !.pc = "clear"])
    BY <1>0, <1>5, NoRunPc, MovedRun DEF FinishRun, Results
  <2>2. \/ runs' = [runs EXCEPT ![r] = [runs[r] EXCEPT !.pc = "clear"]]
        \/ runs' = [runs EXCEPT ![r] = NoRun]
    BY <1>5 DEF FinishRun
  <2> QED BY <1>0, <2>1, <2>2, OneRun
<1>6. CASE ClearActive(r)
  <2>1. RunOK([runs[r] EXCEPT !.pc = "starting"])
    BY <1>0, <1>6, NoRunPc, MovedRun DEF ClearActive
  <2>2. runs' = [runs EXCEPT ![r] = [runs[r] EXCEPT !.pc = "starting"]]
    BY <1>6 DEF ClearActive
  <2> QED BY <2>1, <2>2, OneRun
<1>7. CASE StartNextPending(r)
  <2>1. RunOK(Run(Head(Queued), r, "prepare"))
    BY NewRun
  <2>2. \/ runs' = [runs EXCEPT ![Slot] = Run(Head(Queued), r, "prepare")]
        \/ runs' = [runs EXCEPT ![r] = NoRun]
    BY <1>7 DEF StartNextPending
  <2> QED BY <1>0, <2>1, <2>2, OneRun
<1> QED BY <1>1, <1>2, <1>3, <1>4, <1>5, <1>6, <1>7 DEF Goroutine

LEMMA StepRuns == RunsInv /\ [Next]_vars => RunsInv'
<1> SUFFICES ASSUME RunsInv, [Next]_vars PROVE RunsInv'
  OBVIOUS
<1>0. load' = load
  BY SameLoad
<1>1. ASSUME NEW r \in RunIds, Goroutine(r) PROVE RunsInv'
  BY <1>0, <1>1, GoroutineRuns
<1>2. CASE Restart
  BY <1>2 DEF Restart, RunsInv, RunOK
<1>3. CASE UNCHANGED runs
  BY <1>0, <1>3 DEF RunsInv, RunOK
<1> QED BY <1>0, <1>1, <1>2, <1>3, CallRuns DEF Next, Check, Woken, vars

LEMMA InitRuns == Init => RunsInv
  BY DEF Init, RunsInv, RunOK

-----------------------------------------------------------------------------
(* What a step does to the statuses *)

\* The status of a job is set, and saved or not.
Written(j, s) ==
    /\ status' = [status EXCEPT ![j] = s]
    /\ \/ disk' = [disk EXCEPT ![j] = s]
       \/ "fault" \in load.ops /\ UNCHANGED disk

\* The end of a run: its result, or, for a canceled job, only canceled.
Ended(j, s) == s \in Results \ {"pending_approval"} /\ (status[j] = "canceled" => s = "canceled")

\* Every status a step writes: a start below the limit or of an iteration, a
\* queued job, the end of a run, a cancellation or a wait for approval.
Allowed(j, s) ==
    \/ s = "running" /\ (SlotFree \/ "iterate" \in load.ops)
    \/ s \in {"pending", "canceled"}
    \/ s = "pending_approval" /\ "approval" \in load.ops
    \/ Ended(j, s)

StatusStep ==
    \/ UNCHANGED <<status, disk>>
    \/ \E j : UNCHANGED status /\ disk' = [disk EXCEPT ![j] = status[j]]
    \/ \E j, s : Written(j, s) /\ Allowed(j, s)
    \/ /\ "crash" \in load.ops
       /\ status' = [j \in Jobs |-> Loaded(disk[j])]
       /\ disk' = [j \in Jobs |-> Saved(disk[j])]
    \/ /\ "reload" \in load.ops /\ UNCHANGED status
       /\ \E j : disk' = [disk EXCEPT ![j] = "interrupted"]

LEMMA WrittenStatus ==
    ASSUME NEW j, NEW s, Written(j, s), Allowed(j, s) PROVE StatusStep
  BY DEF StatusStep

LEMMA SetWritten ==
    ASSUME NEW j, NEW s, SetStatus(j, s) \/ Unsaved(j, s) PROVE Written(j, s)
  BY DEF SetStatus, Unsaved, Written

LEMMA LaunchStatus == ASSUME NEW j, Launch(j) \/ Stuck(j) PROVE StatusStep
<1>1. CASE SlotFree
  <2>1. Written(j, "running")
    BY <1>1, SetWritten DEF Launch, Stuck
  <2> QED BY <1>1, <2>1, WrittenStatus DEF Allowed
<1>2. CASE ~SlotFree
  <2>1. Written(j, "pending")
    BY <1>2, SetWritten DEF Launch, Stuck
  <2> QED BY <2>1, WrittenStatus DEF Allowed
<1> QED BY <1>1, <1>2

LEMMA FinishStatus ==
    ASSUME NEW j, NEW s \in Results \ {"pending_approval"}, Finish(j, s) PROVE StatusStep
<1>1. CASE status[j] = "canceled" /\ s # "canceled"
  BY <1>1 DEF Finish, Unstored, StatusStep
<1>2. CASE ~(status[j] = "canceled" /\ s # "canceled")
  <2>1. Written(j, s) /\ Ended(j, s)
    BY <1>2, SetWritten DEF Finish, Ended
  <2> QED BY <2>1, WrittenStatus DEF Allowed
<1> QED BY <1>1, <1>2

LEMMA RewriteStatus == ASSUME NEW j, Rewrite(j) PROVE StatusStep
  BY DEF Rewrite, StatusStep

ReloadInv == reload = {} \/ "reload" \in load.ops

LEMMA StepStatus == ASSUME RunsInv, ReloadInv, [Next]_vars PROVE StatusStep
<1>1. ASSUME NEW j \in Jobs, Launch(j) \/ Stuck(j) PROVE StatusStep
  BY <1>1, LaunchStatus
<1>2. ASSUME NEW j \in Jobs, Cancel(j) PROVE StatusStep
  <2>1. Written(j, "canceled") \/ UNCHANGED <<status, disk>>
    BY <1>2, SetWritten DEF Cancel, Unstored
  <2> QED BY <2>1, WrittenStatus DEF StatusStep, Allowed
<1>3. ASSUME NEW j \in Jobs, Iterate(j) PROVE StatusStep
  <2>1. Written(j, "running") /\ "iterate" \in load.ops
    BY <1>3, SetWritten DEF Iterate, Called
  <2> QED BY <2>1, WrittenStatus DEF Allowed
<1>4. ASSUME NEW j \in Jobs, ReloadSave(j) PROVE StatusStep
  BY <1>4 DEF ReloadSave, ReloadInv, StatusStep
<1>5. ASSUME NEW r \in RunIds, PrepareFails(r) PROVE StatusStep
  BY <1>5, FinishStatus DEF PrepareFails, Results
<1>6. ASSUME NEW r \in RunIds, FinishRun(r) PROVE StatusStep
  <2>1. runs[r].pc = "pending_approval" => "approval" \in load.ops
    BY NoRunPc DEF RunsInv, RunOK
  <2>2. CASE runs[r].pc = "pending_approval"
    <3>1. Written(runs[r].job, "pending_approval")
      BY <1>6, <2>2, SetWritten DEF FinishRun
    <3> QED BY <2>1, <2>2, <3>1, WrittenStatus DEF Allowed
  <2>3. CASE runs[r].pc # "pending_approval"
    BY <1>6, <2>3, FinishStatus DEF FinishRun
  <2> QED BY <2>2, <2>3
<1>7. ASSUME NEW r \in RunIds, StartNextPending(r) PROVE StatusStep
  <2>1. \/ Written(Head(Queued), "running") /\ SlotFree
        \/ UNCHANGED <<status, disk>>
    BY <1>7, SetWritten DEF StartNextPending, Unstored
  <2> QED BY <2>1, WrittenStatus DEF StatusStep, Allowed
<1>8. CASE Restart
  BY <1>8 DEF Restart, StatusStep
<1>9. CASE UNCHANGED <<status, disk>>
  BY <1>9 DEF StatusStep
<1>10. ASSUME NEW j \in Jobs,
              DispatchNew(j) \/ DispatchReplay(j) \/ Replay(j) \/ Resume(j)
              \/ AppendPendingInputs(j) \/ Watch(j) \/ ReloadRead(j)
       PROVE  StatusStep
  BY <1>1, <1>9, <1>10, RewriteStatus
     DEF DispatchNew, DispatchReplay, Replay, Resume, Unstored, AppendPendingInputs,
         Watch, ReloadRead
<1>11. ASSUME NEW r \in RunIds,
              Prepared(r) \/ DrainPendingInputs(r) \/ RunReturns(r) \/ ClearActive(r)
       PROVE  StatusStep
  BY <1>9, <1>11, RewriteStatus DEF Prepared, DrainPendingInputs, RunReturns, ClearActive
<1>12. CASE Check \/ Woken \/ UNCHANGED vars
  BY <1>9, <1>12 DEF Check, Woken, vars
<1> QED
  BY <1>2, <1>3, <1>4, <1>5, <1>6, <1>7, <1>8, <1>10, <1>11, <1>12, SMTT(20) DEF Next, Goroutine

LEMMA StepReload == ReloadInv /\ [Next]_vars => ReloadInv'
<1> SUFFICES ASSUME ReloadInv, [Next]_vars PROVE ReloadInv'
  OBVIOUS
<1>0. load' = load
  BY SameLoad
<1>1. CASE UNCHANGED reload
  BY <1>0, <1>1 DEF ReloadInv
<1>2. ASSUME NEW j \in Jobs, ReloadRead(j) PROVE ReloadInv'
  BY <1>2 DEF ReloadRead, Called, ReloadInv
<1>3. ASSUME NEW j \in Jobs, ReloadSave(j) PROVE ReloadInv'
  BY <1>3 DEF ReloadSave, ReloadInv
<1>4. CASE Restart
  BY <1>4 DEF Restart, ReloadInv
<1>5. ASSUME NEW r \in RunIds, Goroutine(r) PROVE UNCHANGED reload
  BY <1>5
     DEF Goroutine, Prepared, PrepareFails, DrainPendingInputs, RunReturns, FinishRun,
         ClearActive, StartNextPending
<1>6. ASSUME NEW j \in Jobs,
             DispatchNew(j) \/ DispatchReplay(j) \/ Replay(j) \/ Resume(j) \/ Cancel(j)
             \/ Iterate(j) \/ AppendPendingInputs(j) \/ Watch(j)
      PROVE  UNCHANGED reload
  BY <1>6
     DEF DispatchNew, DispatchReplay, Replay, Resume, Cancel, Iterate,
         AppendPendingInputs, Watch
<1>7. CASE Check \/ Woken \/ UNCHANGED vars
  BY <1>1, <1>7 DEF Check, Woken, vars
<1> QED BY <1>1, <1>2, <1>3, <1>4, <1>5, <1>6, <1>7, SMTT(20) DEF Next

-----------------------------------------------------------------------------
(* The limit on running jobs *)

RunningJobs == {j \in Jobs : status[j] = "running"}

LimitInv == status = [j \in Jobs |-> status[j]] /\ RunLimit

LEMMA FewerRunning ==
    ASSUME RunLimit, load' = load, RunningJobs' \subseteq RunningJobs PROVE RunLimit'
<1>1. IsFiniteSet(RunningJobs)
  BY JobsAssumption, FS_Subset DEF RunningJobs, JobsAssumption
<1>2. /\ Cardinality(RunningJobs') <= Cardinality(RunningJobs)
      /\ Cardinality(RunningJobs') \in Nat /\ Cardinality(RunningJobs) \in Nat
  BY <1>1, FS_Subset, FS_CardinalityType
<1> QED
  BY <1>2, JobsAssumption
     DEF RunLimit, Without, RunningCount, RunningJobs, JobsAssumption

LEMMA OneMoreRunning ==
    ASSUME SlotFree, NEW j, RunningJobs' \subseteq RunningJobs \cup {j} PROVE RunLimit'
<1>1. IsFiniteSet(RunningJobs)
  BY JobsAssumption, FS_Subset DEF RunningJobs, JobsAssumption
<1>2. /\ IsFiniteSet(RunningJobs \cup {j})
      /\ Cardinality(RunningJobs \cup {j}) <= Cardinality(RunningJobs) + 1
      /\ Cardinality(RunningJobs) \in Nat /\ Cardinality(RunningJobs \cup {j}) \in Nat
  BY <1>1, FS_AddElement, FS_CardinalityType
<1>3. /\ Cardinality(RunningJobs') <= Cardinality(RunningJobs \cup {j})
      /\ Cardinality(RunningJobs') \in Nat
  BY <1>2, FS_Subset, FS_CardinalityType
<1> QED
  BY <1>2, <1>3, JobsAssumption
     DEF SlotFree, RunLimit, RunningCount, RunningJobs, JobsAssumption

LEMMA StepLimit ==
    ASSUME LimitInv, StatusStep, load' = load, Without({"iterate"}) PROVE LimitInv'
<1>1. CASE UNCHANGED status
  <2>1. RunningJobs' \subseteq RunningJobs
    BY <1>1 DEF RunningJobs
  <2> QED BY <1>1, <2>1, FewerRunning DEF LimitInv
<1>2. ASSUME NEW j, NEW s, Written(j, s), s = "running" => SlotFree PROVE LimitInv'
  <2>1. status' = [i \in Jobs |-> status'[i]]
    BY <1>2 DEF LimitInv, Written
  <2>2. CASE s = "running"
    <3>1. RunningJobs' \subseteq RunningJobs \cup {j}
      BY <1>2 DEF LimitInv, Written, RunningJobs
    <3> QED BY <1>2, <2>1, <2>2, <3>1, OneMoreRunning, SMTT(20) DEF LimitInv
  <2>3. CASE s # "running"
    <3>1. RunningJobs' \subseteq RunningJobs
      BY <1>2, <2>3 DEF LimitInv, Written, RunningJobs
    <3> QED BY <2>1, <3>1, FewerRunning DEF LimitInv
  <2> QED BY <2>2, <2>3
<1>3. CASE status' = [j \in Jobs |-> Loaded(disk[j])]
  <2>1. RunningJobs' \subseteq RunningJobs
    BY <1>3 DEF RunningJobs, Loaded, Active
  <2> QED BY <1>3, <2>1, FewerRunning DEF LimitInv
<1>4. \A s : Ended(s, "running") => FALSE
  BY DEF Ended, Results
<1> QED BY <1>1, <1>2, <1>3, <1>4 DEF StatusStep, Allowed, Without

LEMMA InitLimit == Init => LimitInv
<1> SUFFICES ASSUME Init PROVE LimitInv
  OBVIOUS
<1>1. RunningJobs = {}
  BY DEF Init, RunningJobs
<1>2. Cardinality(RunningJobs) = 0
  BY <1>1, FS_EmptySet
<1> QED
  BY <1>2, JobsAssumption
     DEF Init, LimitInv, RunLimit, RunningCount, RunningJobs, JobsAssumption

\* Without iterations, which take no place in the limit, at most
\* max_concurrent_jobs jobs are running.
THEOREM RunningJobsLimited == Spec => []RunLimit
<1> DEFINE Inv == RunsInv /\ ReloadInv /\ (Without({"iterate"}) => LimitInv)
<1>1. Init => Inv
  BY InitRuns, InitLimit DEF Init, ReloadInv
<1>2. Inv /\ [Next]_vars => Inv'
  BY StepRuns, StepReload, StepStatus, StepLimit, SameLoad, SMTT(20) DEF Without
<1>3. Inv => RunLimit
  BY DEF LimitInv, RunLimit
<1> QED BY <1>1, <1>2, <1>3, PTL DEF Spec

-----------------------------------------------------------------------------
(* Canceled jobs *)

\* The summary of a job that was canceled says so, if no write fails.
CanceledInv ==
    /\ status = [j \in Jobs |-> status[j]]
    /\ disk = [j \in Jobs |-> disk[j]]
    /\ Without({"reload", "fault"})
         => \A j \in Jobs : status[j] = "canceled" => disk[j] = "canceled"

LEMMA StepSaved == ASSUME CanceledInv, StatusStep, load' = load PROVE CanceledInv'
<1>1. CASE UNCHANGED <<status, disk>>
  BY <1>1 DEF CanceledInv, Without
<1>2. ASSUME NEW j, NEW s, Written(j, s) PROVE CanceledInv'
  BY <1>2 DEF Written, CanceledInv, Without
<1>3. CASE /\ status' = [j \in Jobs |-> Loaded(disk[j])]
           /\ disk' = [j \in Jobs |-> Saved(disk[j])]
  BY <1>3 DEF CanceledInv, Loaded, Saved, Active
<1>4. ASSUME NEW j, UNCHANGED status, disk' = [disk EXCEPT ![j] = status[j]] PROVE CanceledInv'
  BY <1>4 DEF CanceledInv, Without
<1>5. ASSUME NEW j, "reload" \in load.ops, UNCHANGED status,
             disk' = [disk EXCEPT ![j] = "interrupted"]
      PROVE  CanceledInv'
  BY <1>5 DEF CanceledInv, Without
<1> QED BY <1>1, <1>2, <1>3, <1>4, <1>5 DEF StatusStep

LEMMA StepCanceled ==
    ASSUME CanceledInv, StatusStep, Without({"approval", "reload"}),
           Without({"fault"}) \/ Without({"crash"}),
           NEW j \in Jobs, status[j] = "canceled"
    PROVE  status'[j] \in {"canceled", "running", "pending"}
<1>1. ASSUME NEW i, NEW s, Written(i, s),
             s \in {"canceled", "running", "pending"} \/ Ended(i, s)
      PROVE  status'[j] \in {"canceled", "running", "pending"}
  BY <1>1 DEF Written, Ended, CanceledInv
<1>2. CASE "crash" \in load.ops /\ status' = [i \in Jobs |-> Loaded(disk[i])]
  <2>1. disk[j] = "canceled"
    BY <1>2 DEF CanceledInv, Without
  <2> QED BY <1>2, <2>1 DEF Loaded, Active
<1>3. CASE UNCHANGED status
  BY <1>3
<1> QED BY <1>1, <1>2, <1>3 DEF StatusStep, Allowed, Without

\* Without approvals and config reloads a canceled job leaves that status only
\* to run again, if its cancellation was saved or there is no restart.
THEOREM CanceledJobsStay == Spec => CanceledStays
<1> DEFINE Inv == RunsInv /\ ReloadInv /\ CanceledInv
           Stay == (Without({"approval", "reload"}) /\ (Without({"fault"}) \/ Without({"crash"}))) =>
                     \A j \in Jobs : status[j] = "canceled"
                                       => status'[j] \in {"canceled", "running", "pending"}
<1>1. Init => Inv
  BY InitRuns DEF Init, ReloadInv, CanceledInv
<1>2. Inv /\ [Next]_vars => Inv'
  BY StepRuns, StepReload, StepStatus, StepSaved, SameLoad
<1>3. Inv /\ [Next]_vars => [Stay]_vars
  BY StepStatus, StepCanceled
<1> QED BY <1>1, <1>2, <1>3, PTL DEF Spec, CanceledStays

-----------------------------------------------------------------------------
(* Running jobs are carried out *)

Busy == {"prepare", "run"} \cup Results

\* Goroutine r carries out job j.
Carries(r, j) == r \in RunIds /\ runs[r] # NoRun /\ runs[r].job = j /\ runs[r].pc \in Busy

CarriedInv ==
    /\ status = [j \in Jobs |-> status[j]]
    /\ \A j \in Jobs : status[j] = "running" => \E r \in RunIds : Carries(r, j)

\* Goroutine r changes to x: x does the same job, or did none, or the job is no
\* longer running, and no other job begins to run.
LEMMA OneCarried ==
    ASSUME CarriedInv, RunsInv, NEW r, NEW x, runs' = [runs EXCEPT ![r] = x],
           status' = [i \in Jobs |-> status'[i]],
           \A i \in Jobs : (status'[i] = "running" /\ Carries(r, i))
                            => x # NoRun /\ x.job = i /\ x.pc \in Busy,
           \A i \in Jobs : (status'[i] = "running" /\ status[i] # "running")
                            => r \in RunIds /\ x # NoRun /\ x.job = i /\ x.pc \in Busy
    PROVE  CarriedInv'
<1> SUFFICES ASSUME NEW i \in Jobs, status'[i] = "running" PROVE \E q \in RunIds : Carries(q, i)'
  BY DEF CarriedInv
<1>1. CASE r \in RunIds /\ x # NoRun /\ x.job = i /\ x.pc \in Busy
  BY <1>1 DEF RunsInv, Carries
<1>2. CASE ~(r \in RunIds /\ x # NoRun /\ x.job = i /\ x.pc \in Busy)
  <2>1. PICK q \in RunIds : Carries(q, i)
    BY <1>2 DEF CarriedInv
  <2>2. q # r
    BY <1>2, <2>1
  <2> QED BY <2>1, <2>2 DEF RunsInv, Carries
<1> QED BY <1>1, <1>2

\* No goroutine changes, and no job begins to run.
LEMMA SameCarried ==
    ASSUME CarriedInv, UNCHANGED runs, status' = [i \in Jobs |-> status'[i]],
           \A i \in Jobs : status'[i] = "running" => status[i] = "running"
    PROVE  CarriedInv'
  BY DEF CarriedInv, Carries

\* A job begins to run in a free slot.
LEMMA NewCarried ==
    ASSUME CarriedInv, RunsInv, HasSlot, NEW j, NEW by, NEW pc \in {"prepare", "run"},
           runs' = [runs EXCEPT ![Slot] = Run(j, by, pc)],
           status' = [status EXCEPT ![j] = "running"]
    PROVE  CarriedInv'
<1> DEFINE x == Run(j, by, pc)
<1>1. Slot \in RunIds /\ runs[Slot] = NoRun
  BY DEF HasSlot, Slot
<1>2. x # NoRun /\ x.job = j /\ x.pc \in Busy
  BY NoRunPc DEF Run, Busy
<1>3. status' = [i \in Jobs |-> status'[i]] /\ \A i \in Jobs : i # j => status'[i] = status[i]
  BY DEF CarriedInv
<1>4. \A i : ~Carries(Slot, i)
  BY <1>1 DEF Carries
<1> HIDE DEF x
<1> QED BY <1>1, <1>2, <1>3, <1>4, OneCarried DEF x

\* A job gets another status than running; its goroutine may leave it.
LEMMA LeftCarried ==
    ASSUME CarriedInv, RunsInv, NEW r \in RunIds, NEW x, NEW s, s # "running",
           runs' = [runs EXCEPT ![r] = x], status' = [status EXCEPT ![runs[r].job] = s]
    PROVE  CarriedInv'
<1>1. status' = [i \in Jobs |-> status'[i]]
  BY DEF CarriedInv
<1>2. \A i \in Jobs : status'[i] = "running" => i # runs[r].job /\ status[i] = "running"
  BY DEF CarriedInv
<1>3. \A i : Carries(r, i) => i = runs[r].job
  BY DEF Carries
<1> QED BY <1>1, <1>2, <1>3, OneCarried

\* A goroutine goes on with its job, or one that carries out none changes.
LEMMA MovedCarried ==
    ASSUME CarriedInv, RunsInv, NEW r, NEW x, UNCHANGED status,
           runs' = [runs EXCEPT ![r] = x],
           (r \in RunIds /\ runs[r] # NoRun /\ runs[r].pc \in Busy)
           => x # NoRun /\ x.job = runs[r].job /\ x.pc \in Busy
    PROVE  CarriedInv'
<1>1. status' = [i \in Jobs |-> status'[i]]
  BY DEF CarriedInv
<1>2. \A i \in Jobs : Carries(r, i) => x # NoRun /\ x.job = i /\ x.pc \in Busy
  BY DEF Carries
<1> QED BY <1>1, <1>2, OneCarried

LEMMA LaunchCarried ==
    ASSUME CarriedInv, RunsInv, NEW j \in Jobs, Launch(j) PROVE CarriedInv'
<1>1. CASE SlotFree
  BY <1>1, NewCarried DEF Launch, SetStatus
<1>2. CASE ~SlotFree
  <2>1. UNCHANGED runs /\ status' = [status EXCEPT ![j] = "pending"]
    BY <1>2 DEF Launch, SetStatus
  <2> QED BY <2>1, SameCarried DEF CarriedInv
<1> QED BY <1>1, <1>2

LEMMA CallCarried ==
    ASSUME CarriedInv, RunsInv, "fault" \notin load.ops, NEW j \in Jobs,
           DispatchNew(j) \/ DispatchReplay(j) \/ Replay(j) \/ Resume(j) \/ Cancel(j)
           \/ Iterate(j) \/ AppendPendingInputs(j) \/ Watch(j)
           \/ ReloadRead(j) \/ ReloadSave(j)
    PROVE  CarriedInv'
<1>1. CASE UNCHANGED <<runs, status>>
  BY <1>1, SameCarried DEF CarriedInv
<1>2. CASE Launch(j)
  BY <1>2, LaunchCarried
<1>3. CASE Cancel(j)
  <2> DEFINE r == cancels[j]
             x == [runs[r] EXCEPT !.ctx = "done"]
  <2>1. \/ UNCHANGED status
        \/ status' = [status EXCEPT ![j] = "canceled"]
    BY <1>3 DEF Cancel, SetStatus, Unsaved, Unstored
  <2>2. /\ status' = [i \in Jobs |-> status'[i]]
        /\ \A i \in Jobs : status'[i] = "running" => status[i] = "running"
    BY <2>1 DEF CarriedInv
  <2>3. UNCHANGED runs \/ runs' = [runs EXCEPT ![r] = x]
    BY <1>3 DEF Cancel
  <2>4. ASSUME NEW i, Carries(r, i) PROVE x # NoRun /\ x.job = i /\ x.pc \in Busy
    <3>1. /\ runs[r] = [pc |-> runs[r].pc, job |-> runs[r].job, by |-> runs[r].by,
                        ctx |-> runs[r].ctx, cycles |-> runs[r].cycles]
          /\ runs[r].job = i /\ runs[r].pc \in Busy
      BY <2>4 DEF Carries, RunsInv, RunOK
    <3>2. x.job = i /\ x.pc = runs[r].pc
      BY <3>1
    <3>3. "none" \notin Busy
      BY DEF Busy, Results
    <3> QED BY <3>1, <3>2, <3>3, NoRunPc
  <2> HIDE DEF x, r
  <2>5. CASE runs' = [runs EXCEPT ![r] = x]
    BY <2>2, <2>4, <2>5, OneCarried
  <2> QED BY <2>2, <2>3, <2>5, SameCarried
<1>4. CASE Iterate(j)
  BY <1>4, NewCarried DEF Iterate, SetStatus, Unsaved
<1> QED
  BY <1>1, <1>2, <1>3, <1>4
     DEF DispatchNew, DispatchReplay, Replay, Resume, Stuck, Unsaved, Unstored,
         AppendPendingInputs, Rewrite, Watch, ReloadRead, ReloadSave

LEMMA FinishLeft ==
    ASSUME CarriedInv, RunsInv, NEW r \in RunIds, NEW x, NEW s, s # "running",
           Finish(runs[r].job, s), runs' = [runs EXCEPT ![r] = x]
    PROVE  CarriedInv'
<1>1. CASE status[runs[r].job] = "canceled" /\ s # "canceled"
  <2>1. UNCHANGED status
    BY <1>1 DEF Finish, Unstored
  <2>2. status' = [status EXCEPT ![runs[r].job] = "canceled"]
    BY <1>1, <2>1 DEF CarriedInv
  <2> QED BY <2>2, LeftCarried
<1>2. CASE ~(status[runs[r].job] = "canceled" /\ s # "canceled")
  <2>1. status' = [status EXCEPT ![runs[r].job] = s]
    BY <1>2 DEF Finish, SetStatus, Unsaved
  <2> QED BY <2>1, LeftCarried
<1> QED BY <1>1, <1>2

LEMMA GoroutineCarried ==
    ASSUME CarriedInv, RunsInv, "fault" \notin load.ops, NEW r \in RunIds, Goroutine(r)
    PROVE  CarriedInv'
<1>0. /\ RunOK(runs[r])
      /\ Results \cap {"none", "clear", "starting", "running"} = {}
      /\ Busy \cap {"none", "clear", "starting"} = {}
  BY DEF RunsInv, Busy, Results
<1> DEFINE At(pc) == [runs[r] EXCEPT !.pc = pc]
<1>1. ASSUME NEW pc, runs[r] # NoRun
      PROVE  At(pc).pc = pc /\ At(pc).job = runs[r].job
  BY <1>0, <1>1 DEF RunOK
<1>2. ASSUME NEW pc \in Busy, runs[r] # NoRun, UNCHANGED status,
             runs' = [runs EXCEPT ![r] = At(pc)]
      PROVE  CarriedInv'
  <2>1. At(pc).pc = pc /\ At(pc).job = runs[r].job
    BY <1>1, <1>2
  <2>2. pc # "none"
    BY <1>0, <1>2
  <2> HIDE DEF At
  <2>3. At(pc) # NoRun
    BY <2>1, <2>2, NoRunPc, Zenon
  <2> QED BY <1>2, <2>1, <2>3, MovedCarried
<1>3. CASE /\ runs[r].pc \in {"clear", "starting"} /\ UNCHANGED status
           /\ \E x : runs' = [runs EXCEPT ![r] = x]
  BY <1>0, <1>3, MovedCarried
<1>4. CASE Prepared(r)
  <2>1. "run" \in Busy /\ runs[r] # NoRun
    BY <1>4, NoRunPc DEF Prepared, Busy
  <2> QED BY <1>2, <1>4, <2>1 DEF Prepared, Rewrite
<1>5. CASE PrepareFails(r)
  <2>1. PICK x : runs' = [runs EXCEPT ![r] = x]
    BY <1>5 DEF PrepareFails
  <2>2. Finish(runs[r].job, "error")
    BY <1>5, Zenon DEF PrepareFails
  <2> QED BY <2>1, <2>2, FinishLeft
<1>6. CASE DrainPendingInputs(r)
  <2> DEFINE x == [runs[r] EXCEPT !.cycles = runs[r].cycles + 1]
  <2>1. runs[r] # NoRun /\ runs[r].pc = "run"
    BY <1>6, NoRunPc DEF DrainPendingInputs
  <2>2. x.pc = "run" /\ x.job = runs[r].job
    BY <1>0, <2>1 DEF RunOK
  <2>3. x # NoRun /\ x.pc \in Busy
    BY <2>2, NoRunPc DEF Busy
  <2>4. UNCHANGED status /\ runs' = [runs EXCEPT ![r] = x]
    BY <1>6 DEF DrainPendingInputs, Rewrite
  <2> HIDE DEF x
  <2> QED BY <2>2, <2>3, <2>4, MovedCarried
<1>7. CASE RunReturns(r)
  <2>1. PICK out \in Outcomes(r) : runs' = [runs EXCEPT ![r] = At(out)]
    BY <1>7 DEF RunReturns
  <2>2. out \in Busy /\ runs[r] # NoRun
    BY <1>7, <2>1, NoRunPc DEF Outcomes, Busy, Results, RunReturns
  <2> QED BY <1>2, <1>7, <2>1, <2>2 DEF RunReturns
<1>8. CASE FinishRun(r)
  <2>1. PICK x : runs' = [runs EXCEPT ![r] = x]
    BY <1>8 DEF FinishRun
  <2>2. CASE runs[r].pc = "pending_approval"
    <3>1. status' = [status EXCEPT ![runs[r].job] = "pending_approval"]
      BY <1>8, <2>2 DEF FinishRun, SetStatus, Unsaved
    <3> QED BY <2>1, <3>1, LeftCarried
  <2>3. CASE runs[r].pc # "pending_approval"
    <3>1. Finish(runs[r].job, runs[r].pc) /\ runs[r].pc # "running"
      BY <1>0, <1>8, <2>3 DEF FinishRun
    <3> QED BY <2>1, <3>1, FinishLeft
  <2> QED BY <2>2, <2>3
<1>9. CASE ClearActive(r)
  <2>1. \E x : runs' = [runs EXCEPT ![r] = x]
    BY <1>9 DEF ClearActive
  <2>2. runs[r].pc \in {"clear", "starting"} /\ UNCHANGED status
    BY <1>9 DEF ClearActive
  <2> QED BY <1>3, <2>1, <2>2
<1>10. CASE StartNextPending(r)
  <2>1. CASE Queued # <<>> /\ SlotFree
    BY <1>10, <2>1, NewCarried DEF StartNextPending, SetStatus, Unsaved
  <2>2. CASE ~(Queued # <<>> /\ SlotFree)
    BY <1>3, <1>10, <2>2 DEF StartNextPending, Unstored
  <2> QED BY <2>1, <2>2
<1> QED BY <1>4, <1>5, <1>6, <1>7, <1>8, <1>9, <1>10 DEF Goroutine

LEMMA StepCarried ==
    ASSUME CarriedInv, RunsInv, "fault" \notin load.ops, [Next]_vars PROVE CarriedInv'
<1>1. ASSUME NEW r \in RunIds, Goroutine(r) PROVE CarriedInv'
  BY <1>1, GoroutineCarried
<1>2. CASE Restart
  <2>1. \A j \in Jobs : status'[j] # "running"
    BY <1>2 DEF Restart, Loaded, Active
  <2> QED BY <1>2, <2>1 DEF Restart, CarriedInv
<1>3. CASE UNCHANGED <<runs, status>>
  BY <1>3, SameCarried DEF CarriedInv
<1> QED BY <1>1, <1>2, <1>3, CallCarried DEF Next, Check, Woken, vars

\* If no write fails, every job that is running is carried out by a goroutine:
\* its place in the limit is not lost, whatever happens to it.
THEOREM RunningJobsCarried == Spec => []RunningHasRun
<1> DEFINE Inv == RunsInv /\ (Without({"fault"}) => CarriedInv)
<1>1. Init => Inv
  BY InitRuns DEF Init, CarriedInv
<1>2. Inv /\ [Next]_vars => Inv'
  BY StepRuns, StepCarried, SameLoad DEF Without
<1>3. Inv => RunningHasRun
  BY DEF CarriedInv, RunningHasRun, Executing, Live, Carries, Busy
<1> QED BY <1>1, <1>2, <1>3, PTL DEF Spec

=============================================================================
