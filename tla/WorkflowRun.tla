----------------------------- MODULE WorkflowRun -----------------------------
(***************************************************************************)
(* The durable workflow engine (agent/workflow.go): what the operations    *)
(* that hold the lock of one workflow do to its files.  A flow f gives     *)
(*   ids      its nodes: the static ones, then the ones edges append       *)
(*   static   how many of them exist from the start                        *)
(*   kind     job (runs as a subagent job), sync (decision, branch,        *)
(*            function, service: run in place) or human (user_input)       *)
(*   deps     depends_on                                                   *)
(*   tries    max_attempts of the retry policy (1: none)                   *)
(*   starts   the outcomes an attempt to start the node can have           *)
(*   edges    condition and loop edges: from (their sources), the     *)
(*            status and out they ask for, and key: where they append       *)
(*   appends  for each key, the node each iteration appends                *)
(*   outputs  nodes that required outputs of the run come from             *)
(*   deadline whether the run has a timeout                                *)
(* A workflow w has its nodes, its summary, and the subagent jobs and      *)
(* human tasks they refer to.  An output is "yes" or "no": what conditions *)
(* tell apart.  late: the run's deadline has passed.                       *)
(***************************************************************************)
EXTENDS Integers, Sequences, FiniteSets, SequencesExt

\* Op(x), in the form that has TLC evaluate x once; and x after the operations
\* of a sequence, one for each of its elements.
Then(x, Op(_)) == CHOOSE y \in {Op(v) : v \in {x}} : TRUE
ForEach(x, seq, Op(_, _)) == FoldLeft(LAMBDA y, e : Then(y, LAMBDA v : Op(v, e)), x, seq)

Terminal == {"completed", "error", "canceled"}
JobTerminal == {"completed", "transient", "error", "canceled", "interrupted"}
Outcomes == {"started", "refused", "yes", "no", "transient", "error"}

NoNode == [status |-> "absent", attempt |-> 0, job |-> 0, kind |-> "none", out |-> "none",
           late |-> FALSE, backoff |-> FALSE, task |-> FALSE]
NewNode(f, n) == [NoNode EXCEPT !.status = "pending", !.kind = f.kind[n]]

Ids(f) == ToSet(f.ids)
Existing(w) == {n \in DOMAIN w.node : w.node[n].status # "absent"}

\* workflowStore.create and CreateFlowRunIdempotent.
Created(f) ==
    [node |-> [n \in Ids(f) |->
                 IF n \in ToSet(SubSeq(f.ids, 1, f.static)) THEN NewNode(f, n) ELSE NoNode],
     sum |-> [status |-> "pending", error |-> "none", auto |-> FALSE, resolved |-> FALSE,
              processed |-> {}, iterations |-> [k \in DOMAIN f.appends |-> 0]],
     jobs |-> <<>>,
     tasks |-> [q \in {"queue", "escalated"} |-> "none"]]

WithStatus(w, status, error) == [w EXCEPT !.sum.status = status, !.sum.error = error]

\* Mutation: the error of the run is not kept.
RefreshStatus_Anew(w) ==
    LET all(S) == \A n \in Existing(w) : w.node[n].status \in S
        some(S) == \E n \in Existing(w) : w.node[n].status \in S
    IN CASE some({"error"}) -> WithStatus(w, "error", "node")
         [] all({"completed"}) -> WithStatus(w, "completed", "none")
         [] all({"completed", "canceled"}) -> WithStatus(w, "canceled", "none")
         [] some({"running", "completed", "waiting_human"}) -> WithStatus(w, "running", "none")
         [] OTHER -> WithStatus(w, "pending", "none")

\* refreshWorkflowStatus: an error, once there, stays.
RefreshStatus(w) ==
    LET all(S) == \A n \in Existing(w) : w.node[n].status \in S
        some(S) == \E n \in Existing(w) : w.node[n].status \in S
    IN CASE w.sum.error # "none" -> WithStatus(w, "error", w.sum.error)
         [] some({"error"}) -> WithStatus(w, "error", "node")
         [] all({"completed"}) -> WithStatus(w, "completed", "none")
         [] all({"completed", "canceled"}) -> WithStatus(w, "canceled", "none")
         [] some({"running", "completed", "waiting_human"}) -> WithStatus(w, "running", "none")
         [] OTHER -> WithStatus(w, "pending", "none")

-----------------------------------------------------------------------------
(* What the jobs did: refreshWorkflowNodes.                                *)

Finished(v, status, late) == [v EXCEPT !.status = status, !.late = late]

\* Mutation: attempts are compared as if the first were number 0.
CanRetry_OneMore(f, n, v) == v.attempt <= f.tries[n]

\* shouldWorkflowRetry, for a failure classified as transient.
CanRetry(f, n, v) == v.attempt < f.tries[n]

\* scheduleWorkflowNodeRetry.
Retried(v) == [v EXCEPT !.status = "pending", !.job = 0, !.late = FALSE, !.backoff = TRUE]

AfterJob(f, n, v, job, late) ==
    CASE job.status = "completed" -> [Finished(v, "completed", late) EXCEPT !.out = job.out]
      [] job.status \in {"canceled", "interrupted"} -> Finished(v, "canceled", late)
      [] job.status = "transient" /\ CanRetry(f, n, v) -> Retried(v)
      [] OTHER -> Finished(v, "error", late)

RefreshNodes(f, w, late) ==
    LET ended == {n \in Existing(w) : /\ w.node[n].status = "running"
                                      /\ w.jobs[w.node[n].job].status \in JobTerminal}
        after == [n \in Ids(f) |-> IF n \in ended
                                   THEN AfterJob(f, n, w.node[n], w.jobs[w.node[n].job], late)
                                   ELSE w.node[n]]
    IN IF ended = {} THEN w ELSE Then([w EXCEPT !.node = after], RefreshStatus)

-----------------------------------------------------------------------------
(* Control edges: processWorkflowEdges.                                    *)

\* workflowEdgeConditionMatchesState.
Holds(edge, v) == v.status \in edge.status /\ v.out \in edge.out

\* One edge and one node of the list as it was at the beginning (v): the pair
\* is taken once; the edge appends the node of its next iteration, or the
\* iteration cap fails the node and the run.  The edges of a flow append nodes
\* that can be appended: one that is refused fails the whole operation.
ProcessEdge(f, w, i, n, v) ==
    LET edge == f.edges[i]
        next == w.sum.iterations[edge.key] + 1
        taken == [w EXCEPT !.sum.processed = @ \cup {<<i, n>>}]
    IN CASE \/ n \notin edge.from \/ v.status \notin Terminal
            \/ <<i, n>> \in w.sum.processed -> w
         [] ~Holds(edge, v) -> taken
         [] next > Len(f.appends[edge.key]) ->
              [taken EXCEPT !.node[n].status = "error", !.sum.status = "error"]
         [] OTHER ->
              LET a == f.appends[edge.key][next]
              IN [taken EXCEPT !.node[a] = NewNode(f, a), !.sum.iterations[edge.key] = next]

\* Mutation: the run's status is not refreshed for the nodes appended.
ProcessEdges_KeepStatus(f, w) ==
    LET edges == [i \in DOMAIN f.edges |-> i]
        node(x, n) == ForEach(x, edges, LAMBDA y, i : ProcessEdge(f, y, i, n, w.node[n]))
    IN ForEach(w, f.ids, node)

ProcessEdges(f, w) ==
    LET edges == [i \in DOMAIN f.edges |-> i]
        node(x, n) == ForEach(x, edges, LAMBDA y, i : ProcessEdge(f, y, i, n, w.node[n]))
        status(x) == IF x = w \/ x.sum.status = "error" THEN x ELSE RefreshStatus(x)
    IN Then(ForEach(w, f.ids, node), status)

-----------------------------------------------------------------------------
(* The deadline and the outputs of the run.                                *)

\* subagentJobs.Cancel: the status of the job, which is all a workflow reads of
\* it.  That a job canceled before it registered runs on is in SubagentJobs.
CancelJobs(jobs, S) ==
    [j \in DOMAIN jobs |-> IF j \in S /\ jobs[j].status = "running"
                           THEN [jobs[j] EXCEPT !.status = "canceled"] ELSE jobs[j]]

\* The nodes that are still to do, canceled; the jobs of the running ones too.
CancelNodes(w, late) ==
    LET active == {n \in Existing(w) : w.node[n].status \notin Terminal}
        running == {n \in active : w.node[n].status = "running"}
    IN [w EXCEPT !.node = [n \in DOMAIN @ |-> IF n \in active THEN Finished(@[n], "canceled", late)
                                                             ELSE @[n]],
                 !.jobs = CancelJobs(@, {w.node[n].job : n \in running})]

\* expireWorkflowRun: a run that ended in time keeps its result.
Expire(f, w, late) ==
    CASE ~f.deadline \/ ~late -> w
      [] w.sum.status \in Terminal ->
           IF w.sum.error # "timeout" /\ \E n \in Existing(w) : w.node[n].late
           THEN WithStatus(w, "error", "timeout") ELSE w
      [] OTHER -> WithStatus(CancelNodes(w, TRUE), "error", "timeout")

\* finalizeWorkflowRunOutputs.
Finalize(f, w) ==
    CASE w.sum.status # "completed" \/ f.outputs = {} \/ w.sum.resolved -> w
      [] f.outputs \subseteq Existing(w) -> [w EXCEPT !.sum.resolved = TRUE]
      [] OTHER -> WithStatus(w, "error", "outputs")

\* workflowStateUnlocked: what every operation begins with.
Loaded(f, w, late) ==
    Then(Then(Then(RefreshNodes(f, w, late),
                   LAMBDA x : ProcessEdges(f, x)),
              LAMBDA x : Expire(f, x, late)),
         LAMBDA x : Finalize(f, x))

-----------------------------------------------------------------------------
(* Starting nodes.  o[n] is what starting n comes to.                      *)

\* Mutation: a dependency need only have been started.
Ready_Started(f, w, n) ==
    /\ w.node[n].status = "pending" /\ ~w.node[n].backoff
    /\ \A d \in f.deps[n] : w.node[d].status \in {"running", "waiting_human", "completed"}

\* The conditions of the scan for nodes to start, workflowDepsCompleted among them.
Ready(f, w, n) ==
    /\ w.node[n].status = "pending" /\ ~w.node[n].backoff
    /\ \A d \in f.deps[n] : w.node[d].status = "completed"

\* startWorkflowNode.  A decision or a service that fails is retried or fails.
StartNode(f, w, n, o, late) ==
    LET v == [w.node[n] EXCEPT !.attempt = @ + 1]
        put(u) == [w EXCEPT !.node[n] = u]
    IN CASE o = "refused" -> put(Finished(v, "error", late))
         [] v.kind = "human" ->
              [put([v EXCEPT !.status = "waiting_human", !.task = TRUE]) EXCEPT
                 !.tasks["queue"] = IF v.task THEN @ ELSE "pending"]
         [] v.kind = "job" ->
              [put([v EXCEPT !.status = "running", !.job = Len(w.jobs) + 1]) EXCEPT
                 !.jobs = Append(@, [node |-> n, status |-> "running", out |-> "none"])]
         [] o \in {"yes", "no"} -> put([Finished(v, "completed", late) EXCEPT !.out = o])
         [] o = "transient" /\ CanRetry(f, n, v) -> put(Retried(v))
         [] OTHER -> put(Finished(v, "error", late))

StartReady(f, w, o, late) ==
    ForEach(w, f.ids, LAMBDA x, n : IF Ready(f, x, n) THEN StartNode(f, x, n, o[n], late) ELSE x)

\* The loop of advanceWorkflowReadyNodes, as many times as it can do something:
\* every round but the last ends a node or routes one.
Drain(f, w, o, late) ==
    LET round(x, i) == IF x.sum.status \in Terminal THEN x
                       ELSE Then(StartReady(f, x, o, late), LAMBDA y : ProcessEdges(f, y))
    IN ForEach(w, [i \in 1 .. Len(f.ids) + 1 |-> i], round)

\* advanceWorkflowReadyNodes.
Advance(f, w, enable, o, late) ==
    LET go(x) == Then(Then(Then(Drain(f, [x EXCEPT !.sum.auto = @ \/ enable], o, late),
                                LAMBDA y : Expire(f, y, late)),
                           RefreshStatus),
                      LAMBDA y : Finalize(f, y))
    IN Then(Loaded(f, w, late), LAMBDA x : IF x.sum.status \in Terminal THEN x ELSE go(x))

-----------------------------------------------------------------------------
(* The other operations: a change to the state, then its consequences.     *)

Settled(f, w) == Then(Then(w, RefreshStatus), LAMBDA x : ProcessEdges(f, x))

\* stepWorkflow: the first node that is ready, whatever the status of the run.
Step(f, w, o, late) ==
    LET ready(x) == SelectSeq(f.ids, LAMBDA n : Ready(f, x, n))
        first(x) == IF ready(x) = <<>> THEN x
                    ELSE StartNode(f, x, ready(x)[1], o[ready(x)[1]], late)
    IN Settled(f, Then(Loaded(f, w, late), first))

\* Mutation: the nodes are canceled in the file only.
Cancel_NodesOnly(f, w, late) ==
    Settled(f, Then(Loaded(f, w, late), LAMBDA x : [CancelNodes(x, late) EXCEPT !.jobs = x.jobs]))

\* cancelWorkflowNode, for every node.
Cancel(f, w, late) == Settled(f, Then(Loaded(f, w, late), LAMBDA x : CancelNodes(x, late)))

\* completeWorkflowNodeWithOutputs, whatever the status of the node.
Complete(f, w, n, out, late) ==
    LET done(v) == [Finished(v, "completed", late) EXCEPT !.out = out,
                      !.attempt = IF @ = 0 THEN 1 ELSE @]
    IN Settled(f, Then(Loaded(f, w, late), LAMBDA x : [x EXCEPT !.node[n] = done(@)]))

\* failWorkflowHumanNode, which leaves the edges for later.
FailHuman(f, w, n, late) ==
    Then(Then(Loaded(f, w, late), LAMBDA x : [x EXCEPT !.node[n] = Finished(@, "error", late)]),
         RefreshStatus)

\* rescheduleHumanNodeAsLLM: the node becomes one that runs as a job.
RescheduleAsLLM(f, w, n, late) ==
    Then(Loaded(f, w, late),
         LAMBDA x : [x EXCEPT !.node[n].kind = "job", !.node[n].status = "pending"])
=============================================================================
