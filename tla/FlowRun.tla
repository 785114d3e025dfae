------------------------------- MODULE FlowRun -------------------------------
(***************************************************************************)
(* One run of a flow: its workflow files, its run record (flow_ops.go), its *)
(* human tasks (flow_human_ops.go), the completion webhook and the         *)
(* backend's reconciler (services/backend/flow_reconciler.go).             *)
(*                                                                         *)
(* The operations of WorkflowRun are atomic: each holds the lock of the    *)
(* workflow.  A call of the API is not: it reads the run record, works on   *)
(* its copy, does one or more of those operations and writes the copy      *)
(* back, with no lock on the record.  A call is therefore a program, a     *)
(* sequence of steps, and the steps of calls interleave.  Every call but    *)
(* step and the reconciler's advance is made at most once.                 *)
(*                                                                         *)
(* A workload is the flow, the calls that may be made, the crashes, and    *)
(* what goes wrong: "version", the flow's version cannot always be read;    *)
(* "workflow", an operation on the workflow may fail; "target", a human    *)
(* timeout escalates to no queue.                                          *)
(***************************************************************************)
EXTENDS WorkflowRun

CONSTANTS Workloads

VARIABLES
    load,     \* the workload, never changed
    wf,       \* the workflow's node and summary files, the jobs and the tasks
    rec,      \* the run record: its status, and whether the webhook was sent
    posts,    \* how often the webhook was posted, whatever came of it
    tracked,  \* the run is in the reconciler's set
    scanned,  \* the reconciler has done its startup scan
    late,     \* the run's deadline has passed
    call,     \* for each call: the step it is at (0: not made), its copies
    crashes   \* how often the process died

vars == <<load, wf, rec, posts, tracked, scanned, late, call, crashes>>

f == load.flow

\* What a call does, step by step.
Refresh == <<"load", "state", "tasks", "save", "send", "post">>
Program ==
    [start    |-> <<"load", "start", "save", "send", "post", "track">>,
     advance  |-> <<"load", "state", "tasks", "advance", "again", "sync", "save", "send",
                    "post", "untrack">>,
     refresh  |-> Refresh,
     wait     |-> <<"state", "advance", "again">> \o Refresh,
     cancel   |-> <<"load", "cancel", "tasks", "save", "send", "post", "untrack">>,
     reply    |-> <<"state", "complete", "replied", "start">> \o Refresh,
     step     |-> <<"load", "step", "state", "save">>,
     llm      |-> <<"list", "reschedule", "start", "mark">>,
     fail     |-> <<"list", "fail", "mark">>,
     escalate |-> <<"list", "mark">>]

Calls == load.calls \cup {"advance"}
Repeated == {"advance", "step"}
NoSeen == [status |-> "none", timeout |-> FALSE, auto |-> FALSE, canceled |-> {}]
Idle == [at |-> 0, rec |-> [status |-> "none", sent |-> FALSE], seen |-> NoSeen]

\* What a call keeps of the workflow it saw.
Seen(w) == [status |-> w.sum.status, timeout |-> w.sum.error = "timeout",
            auto |-> w.sum.auto, canceled |-> {n \in Existing(w) : w.node[n].status = "canceled"}]

Outcome == {o \in [Ids(f) -> Outcomes] : \A n \in Ids(f) : o[n] \in f.starts[n]}

Init ==
    /\ load \in Workloads
    /\ wf = Created(f)
    /\ rec = [status |-> "pending", sent |-> FALSE]
    /\ posts = 0 /\ crashes = 0
    /\ tracked = FALSE /\ scanned = TRUE /\ late = FALSE
    /\ call = [c \in Calls |-> Idle]

-----------------------------------------------------------------------------
(* Steps of a call.                                                        *)

\* When a call can be made: a human replies to a task of the inbox, a timeout
\* is of a task that is still pending, the reconciler advances what it tracks.
MayCall(c) ==
    CASE c = "advance" -> scanned /\ tracked
      [] c = "reply" -> \E q \in DOMAIN wf.tasks : wf.tasks[q] \in {"pending", "escalated"}
      [] c \in {"llm", "fail", "escalate"} -> wf.tasks["queue"] = "pending"
      [] OTHER -> TRUE

Here(c) == IF call[c].at = 0 THEN 1 ELSE call[c].at

At(c, step) ==
    /\ call[c].at = 0 => MayCall(c)
    /\ Here(c) \in DOMAIN Program[c] /\ Program[c][Here(c)] = step

\* The call goes on at step i with the copies r of the record and s of the
\* workflow; past its last step it is over.
GoTo(c, i, r, s) ==
    call' = [call EXCEPT ![c] =
               IF i <= Len(Program[c]) THEN [at |-> i, rec |-> r, seen |-> s]
               ELSE [Idle EXCEPT !.at = IF c \in Repeated THEN 0 ELSE i]]

Go(c, r, s) == GoTo(c, Here(c) + 1, r, s)
Keep(c) == Go(c, call[c].rec, call[c].seen)

\* The call has its answer, the record r; the backend may track or untrack it.
Return(c, r) == GoTo(c, Len(Program[c]), r, NoSeen)

\* start, advance and cancel leave a run alone whose record has ended.
ReadRecord(c) ==
    /\ At(c, "load")
    /\ IF rec.status \in Terminal /\ c \in {"start", "advance", "cancel"}
       THEN Return(c, rec) ELSE Go(c, rec, NoSeen)
    /\ UNCHANGED <<load, wf, rec, posts, tracked, scanned, late, crashes>>

\* The operations on the workflow, each under its lock.
Locked == {"state", "start", "advance", "again", "step", "cancel", "complete", "reschedule", "fail"}

Result(step, o, out) ==
    CASE step \in {"state", "again"} -> Loaded(f, wf, late)
      [] step = "start" -> Advance(f, wf, TRUE, o, late)
      [] step = "advance" -> Advance(f, wf, FALSE, o, late)
      [] step = "step" -> Step(f, wf, o, late)
      [] step = "cancel" -> Cancel(f, wf, late)
      [] step = "complete" -> Complete(f, wf, f.human, out, late)
      [] step = "reschedule" -> RescheduleAsLLM(f, wf, f.human, late)
      [] step = "fail" -> FailHuman(f, wf, f.human, late)

\* The results the operation at hand can have.
Results(step) ==
    {Result(step, o, out) :
       o \in IF step \in {"start", "advance", "step"} THEN Outcome ELSE {<<>>},
       out \in IF step = "complete" THEN {"yes", "no"} ELSE {"none"}}

\* AdvanceFlowRun advances an auto-scheduled run that has not ended, once;
\* WaitFlowRun does so until it has.
Advances(c) == call[c].seen.auto /\ call[c].seen.status \notin Terminal

Operate(c) ==
    /\ \E step \in Locked :
         /\ At(c, step)
         /\ step = "advance" => Advances(c)
         /\ wf' \in Results(step)
         /\ IF c = "wait" /\ step = "again"
            THEN GoTo(c, Here(c) - 1, call[c].rec, Seen(wf'))
            ELSE Go(c, call[c].rec, Seen(wf'))
    /\ UNCHANGED <<load, rec, posts, tracked, scanned, late, crashes>>

\* The run does not advance, or WaitFlowRun's time is over.
Leave(c) ==
    /\ At(c, "advance")
    /\ Advances(c) => c = "wait"
    /\ GoTo(c, Here(c) + 2, call[c].rec, call[c].seen)
    /\ UNCHANGED <<load, wf, rec, posts, tracked, scanned, late, crashes>>

\* Mutation: the tasks of canceled nodes are left to the reconciler.
CancelTasks_None(c) ==
    /\ At(c, "tasks") \/ At(c, "sync")
    /\ Keep(c)
    /\ UNCHANGED <<load, wf, rec, posts, tracked, scanned, late, crashes>>

\* cancelHumanTasksForCanceledNodes, with the workflow as the call saw it.
CancelTasks(c) ==
    /\ At(c, "tasks") \/ At(c, "sync")
    /\ wf' = [wf EXCEPT !.tasks = [q \in DOMAIN @ |->
                IF @[q] = "pending" /\ f.human \in call[c].seen.canceled THEN "canceled" ELSE @[q]]]
    /\ Keep(c)
    /\ UNCHANGED <<load, rec, posts, tracked, scanned, late, crashes>>

\* AdvanceFlowRun writes nothing when nothing changed since the record was
\* written; with the same status, its time decides.
Unchanged(c) ==
    /\ At(c, "sync")
    /\ call[c].seen.status = call[c].rec.status
    /\ Return(c, call[c].rec)
    /\ UNCHANGED <<load, wf, rec, posts, tracked, scanned, late, crashes>>

\* syncFlowRunRecord: a record that has ended stays, unless the run timed out.
Synced(r, s) ==
    IF r.status \in Terminal /\ ~(s.status = "error" /\ s.timeout) THEN r
    ELSE [r EXCEPT !.status = s.status]

\* Mutation: CancelFlowRun writes canceled without looking at the workflow.
Save_Canceled(c) ==
    /\ At(c, "save")
    /\ rec' = CASE c \in {"start", "step"} -> [call[c].rec EXCEPT !.status = call[c].seen.status]
                [] c = "cancel" -> [call[c].rec EXCEPT !.status = "canceled"]
                [] OTHER -> Synced(call[c].rec, call[c].seen)
    /\ Go(c, rec', call[c].seen)
    /\ UNCHANGED <<load, wf, posts, tracked, scanned, late, crashes>>

\* saveRun: the call's copy replaces the record.  StartFlowRun and StepFlowRun
\* take the status as it is.
Save(c) ==
    /\ At(c, "save")
    /\ rec' = IF c \in {"start", "step"} THEN [call[c].rec EXCEPT !.status = call[c].seen.status]
              ELSE Synced(call[c].rec, call[c].seen)
    /\ Go(c, rec', call[c].seen)
    /\ UNCHANGED <<load, wf, posts, tracked, scanned, late, crashes>>

\* Mutation: the webhook is for completed runs only.
Send_Completed(c) ==
    /\ At(c, "send")
    /\ \/ /\ call[c].rec.sent \/ call[c].rec.status # "completed" \/ "version" \in load.faults
          /\ GoTo(c, Here(c) + 2, call[c].rec, call[c].seen) /\ UNCHANGED rec
       \/ /\ ~call[c].rec.sent /\ call[c].rec.status = "completed"
          /\ rec' = [call[c].rec EXCEPT !.sent = TRUE]
          /\ Go(c, rec', call[c].seen)
    /\ UNCHANGED <<load, wf, posts, tracked, scanned, late, crashes>>

\* maybeSendOnComplete: nothing to send, or the version that says where to
\* cannot be read; else the copy, marked as sent, replaces the record ...
Send(c) ==
    /\ At(c, "send")
    /\ \/ /\ call[c].rec.sent \/ call[c].rec.status \notin Terminal \/ "version" \in load.faults
          /\ GoTo(c, Here(c) + 2, call[c].rec, call[c].seen) /\ UNCHANGED rec
       \/ /\ ~call[c].rec.sent /\ call[c].rec.status \in Terminal
          /\ rec' = [call[c].rec EXCEPT !.sent = TRUE]
          /\ Go(c, rec', call[c].seen)
    /\ UNCHANGED <<load, wf, posts, tracked, scanned, late, crashes>>

\* ... and the webhook is posted.  Whether that fails is only logged.
Post(c) ==
    /\ At(c, "post")
    /\ posts' = posts + 1
    /\ Keep(c)
    /\ UNCHANGED <<load, wf, rec, tracked, scanned, late, crashes>>

\* Mutation: the reconciler looks at a run once.
Track_Once(c) ==
    /\ At(c, "track") \/ At(c, "untrack")
    /\ tracked' = (c = "start" /\ call[c].rec.status \notin Terminal)
    /\ Keep(c)
    /\ UNCHANGED <<load, wf, rec, posts, scanned, late, crashes>>

\* trackFlowRun and untrackFlowRun, with the record the call returned.
Track(c) ==
    /\ At(c, "track") \/ At(c, "untrack")
    /\ tracked' = CASE c = "start" -> tracked \/ call[c].rec.status \notin Terminal
                    [] c = "cancel" -> FALSE
                    [] OTHER -> tracked /\ call[c].rec.status \notin Terminal
    /\ Keep(c)
    /\ UNCHANGED <<load, wf, rec, posts, scanned, late, crashes>>

-----------------------------------------------------------------------------
(* Human tasks.  A task is a file in the directory of its queue.           *)

\* ReplyFlowRunHuman marks one task of the node that is not yet replied.
Replied(c) ==
    LET open == {q \in DOMAIN wf.tasks : wf.tasks[q] \notin {"none", "replied"}}
    IN /\ At(c, "replied")
       /\ IF open = {} THEN UNCHANGED wf
          ELSE \E q \in open : wf' = [wf EXCEPT !.tasks[q] = "replied"]
       /\ Keep(c)
       /\ UNCHANGED <<load, rec, posts, tracked, scanned, late, crashes>>

\* CheckHumanTaskTimeouts lists the task ...
List(c) ==
    /\ At(c, "list") /\ Go(c, call[c].rec, call[c].seen)
    /\ UNCHANGED <<load, wf, rec, posts, tracked, scanned, late, crashes>>

\* ... cannot always reschedule or fail its node, or start the run ...
Refused(c) ==
    /\ c \in {"llm", "fail"} /\ "workflow" \in load.faults
    /\ \E step \in {"reschedule", "start", "fail"} : At(c, step)
    /\ GoTo(c, Len(Program[c]), call[c].rec, NoSeen)
    /\ UNCHANGED <<load, wf, rec, posts, tracked, scanned, late, crashes>>

\* ... and writes it back as it listed it, with its new status and queue.
Mark(c) ==
    LET refused == call[c].seen = NoSeen
        put(q, status) == wf' = [wf EXCEPT !.tasks[q] = status]
    IN /\ At(c, "mark")
       /\ CASE c = "llm" -> put("queue", IF refused THEN "error" ELSE "escalated")
            [] c = "fail" -> put("queue", IF refused THEN "pending" ELSE "error")
            [] "target" \in load.faults -> put("queue", "error")
            [] OTHER -> put("escalated", "escalated")
       /\ Keep(c)
       /\ UNCHANGED <<load, rec, posts, tracked, scanned, late, crashes>>

CallStep(c) ==
    \/ ReadRecord(c) \/ Operate(c) \/ Leave(c) \/ CancelTasks(c) \/ Unchanged(c) \/ Save(c)
    \/ Send(c) \/ Post(c) \/ Track(c) \/ Replied(c) \/ List(c) \/ Refused(c) \/ Mark(c)

-----------------------------------------------------------------------------
(* The jobs, the clock, and the process.                                   *)

JobEnds(n, end) ==
    /\ \E j \in DOMAIN wf.jobs :
         /\ wf.jobs[j].node = n /\ wf.jobs[j].status = "running"
         /\ wf' = [wf EXCEPT !.jobs[j] = [@ EXCEPT
                     !.status = IF end \in {"yes", "no"} THEN "completed" ELSE end,
                     !.out = IF end \in {"yes", "no"} THEN end ELSE "none"]]
    /\ UNCHANGED <<load, rec, posts, tracked, scanned, late, call, crashes>>

\* workflowNodeRetryDue: the backoff of a retried node is over.
RetryDue(n) ==
    /\ wf.node[n].backoff
    /\ wf' = [wf EXCEPT !.node[n].backoff = FALSE]
    /\ UNCHANGED <<load, rec, posts, tracked, scanned, late, call, crashes>>

DeadlinePasses ==
    /\ f.deadline /\ ~late /\ late' = TRUE
    /\ UNCHANGED <<load, wf, rec, posts, tracked, scanned, call, crashes>>

\* The process dies: with nothing of a workflow operation on disk, or (w) with
\* what it wrote by then.  The jobs that ran are interrupted.
Die(w) ==
    /\ crashes < load.crashes /\ crashes' = crashes + 1
    /\ wf' = [w EXCEPT !.jobs = [j \in DOMAIN @ |->
                IF @[j].status = "running" THEN [@[j] EXCEPT !.status = "interrupted"] ELSE @[j]]]
    /\ tracked' = FALSE /\ scanned' = FALSE
    /\ call' = [c \in Calls |-> IF call[c].at = 0 \/ c \in Repeated THEN Idle
                                ELSE [Idle EXCEPT !.at = Len(Program[c]) + 1]]
    /\ UNCHANGED <<load, rec, posts, late>>

Crash == Die(wf)

\* workflowStore.save writes the summary, then the nodes; jobs and tasks have
\* files of their own, written before.
CrashInSave ==
    \E c \in Calls, step \in Locked :
      /\ At(c, step) /\ (step = "advance" => Advances(c))
      /\ \E v \in Results(step) :
           \/ v # wf /\ Die([wf EXCEPT !.jobs = v.jobs, !.tasks = v.tasks])
           \/ v.sum # wf.sum /\ Die([v EXCEPT !.node = wf.node])

\* seedAutoScheduledFlowRuns.
Scan ==
    /\ ~scanned /\ scanned' = TRUE
    /\ IF rec.status \in Terminal THEN UNCHANGED <<wf, tracked>>
       ELSE wf' = Loaded(f, wf, late) /\ tracked' = (tracked \/ wf'.sum.auto)
    /\ UNCHANGED <<load, rec, posts, late, call, crashes>>

\* What happens by itself.
World ==
    \/ \E n \in Ids(f) : RetryDue(n) \/ \E end \in f.ends[n] : JobEnds(n, end)
    \/ DeadlinePasses \/ Scan

Next == (\E c \in Calls : CallStep(c)) \/ World \/ Crash \/ CrashInSave

\* A call that was made goes on, and a human replies to the task they are
\* asked for; the reconciler goes round while the process lives; jobs end,
\* backoffs and deadlines pass.  Calls other than advance, step and wait are
\* finite, and so is what happens by itself: one condition for all is enough.
Fairness ==
    /\ WF_vars(\E c \in load.calls \ {"wait", "step"} :
                 (call[c].at # 0 \/ c = "reply") /\ CallStep(c))
    /\ WF_vars("wait" \in Calls /\ call["wait"].at # 0 /\ CallStep("wait"))
    /\ WF_vars(CallStep("advance"))
    /\ WF_vars(World)

Spec == Init /\ [][Next]_vars /\ Fairness

-----------------------------------------------------------------------------
(* Properties.                                                             *)

Without(S) == load.calls \cap S = {}
Timeouts == {"llm", "fail", "escalate"}

\* A run that is completed, canceled or timed out has no job whose status is
\* running: cancelWorkflowNode and expireWorkflowRun cancel the jobs of the
\* nodes they cancel, also of a node that was started while the call was on its
\* way.  (What the body of a canceled job still does is SubagentJobs's.)  A
\* run in which a node failed leaves the other jobs alone, even if the failure
\* came after the deadline and counts as a timeout; human timeouts reopen nodes
\* of runs that ended.
EndedRunIsQuiet ==
    (/\ Without(Timeouts) /\ \A n \in Ids(f) : wf.node[n].status # "error"
     /\ wf.sum.status \in Terminal)
    => \A j \in DOMAIN wf.jobs : wf.jobs[j].status # "running"

\* A node is never executed more often than its retry policy allows, however
\* many callers refresh, advance and wait for the run at the same time: each
\* execution is counted once (startWorkflowNode), and each failure of a job is
\* acted upon once (refreshWorkflowNodes).  A decision or a
\* service has no job: its attempts are counted in the node.
AttemptsBounded ==
    (Without(Timeouts) /\ load.crashes = 0)
    => \A n \in Ids(f) :
         /\ wf.node[n].attempt <= f.tries[n]
         /\ Cardinality({j \in DOMAIN wf.jobs : wf.jobs[j].node = n}) <= f.tries[n]

\* A completed run has done all its edges ask for: every edge whose condition
\* holds for a node has routed it (processWorkflowEdges), as often as nodes
\* matched, and what they appended is completed too.
CompletedMeansRouted ==
    (load.crashes = 0 /\ wf.sum.status = "completed")
    => \A k \in DOMAIN f.appends :
         LET matched == {<<i, n>> \in (DOMAIN f.edges) \X Ids(f) :
                           /\ f.edges[i].key = k /\ n \in f.edges[i].from
                           /\ wf.node[n].status \in Terminal /\ Holds(f.edges[i], wf.node[n])}
         IN Cardinality({a \in ToSet(f.appends[k]) : wf.node[a].status = "completed"})
              = Cardinality(matched)

\* A dependency is completed before a node starts, and stays so: no node has
\* an attempt behind it whose dependencies are not completed
\* (workflowDepsCompleted).  The iteration cap fails a node after the fact.
DependenciesCompleted ==
    Without(Timeouts)
    => \A n \in Ids(f) :
         (wf.node[n].attempt > 0 /\ wf.sum.status # "error")
         => \A d \in f.deps[n] : wf.node[d].status = "completed"

\* The result of a run does not change once its workflow has it, except that
\* the run may turn out to have timed out, and no further node is executed
\* (refreshWorkflowStatus, expireWorkflowRun, advanceWorkflowReadyNodes): what
\* callers, the record and the webhook report stays true.  A reply, a human
\* timeout and a debug step do not look at the status of the run.
ResultStays ==
    [][(/\ Without(Timeouts \cup {"reply", "step"}) /\ load.crashes = 0
        /\ wf.sum.status \in Terminal)
       => /\ wf'.sum.status = wf.sum.status \/ wf'.sum.error = "timeout"
          /\ Len(wf'.jobs) = Len(wf.jobs)]_vars

\* A started run ends: the reconciler carries it from node to node until it is
\* completed, failed or canceled, if humans reply.  A restart cancels the nodes
\* that ran, and what depends on them never starts; then only a deadline ends
\* the run.  So does a cancel in a loop: the edge that continues the loop holds
\* for the canceled iteration and appends the next one, which never starts.
RunEnds ==
    (/\ wf.sum.auto /\ (load.crashes = 0 \/ f.deadline)
     /\ (Without({"cancel"}) \/ \A i \in DOMAIN f.edges : "canceled" \notin f.edges[i].status)
     /\ (f.human = "none" \/ "reply" \in load.calls)) ~> (wf.sum.status \in Terminal)

\* The run record never tells a result the workflow does not have: calls that
\* read it before another ended the run may write it back as running, with or
\* without the webhook, but no copy turns a result into another (saveRun,
\* syncFlowRunRecord); only a timeout is found out later.
RecordTellsResult ==
    (/\ Without(Timeouts \cup {"reply", "step"}) /\ load.crashes = 0
     /\ rec.status \in Terminal)
    => wf.sum.status = rec.status \/ wf.sum.error = "timeout"

\* A pending task of the inbox is one the run waits for: when its node is
\* replied to, canceled, failed or rescheduled, whoever does it or finds it done
\* settles the task too (cancelHumanTasksForCanceledNodes, ReplyFlowRunHuman,
\* CheckHumanTaskTimeouts).  This is about pending tasks only.  An escalation
\* leaves a second, escalated file of the same task, which a cancel does not
\* look at; and a reply settles one of the two, so that then only the tasks of
\* canceled nodes are sure to go.
InboxSettles ==
    []<>(\/ load.crashes > 0 \/ "workflow" \in load.faults
         \/ \A q \in DOMAIN wf.tasks :
              wf.tasks[q] = "pending" =>
                IF Without({"escalate"}) THEN wf.node[f.human].status = "waiting_human"
                ELSE wf.node[f.human].status # "canceled")

\* When a run record has ended, its webhook is posted, whoever ended the run and
\* however the copies of the record overwrite each other (maybeSendOnComplete).
\* The post may fail, and calls with copies of their own may post again.
WebhookTried ==
    (/\ rec.status \in Terminal /\ load.crashes = 0 /\ "version" \notin load.faults
     /\ Without({"step"})) ~> (posts > 0)
=============================================================================
