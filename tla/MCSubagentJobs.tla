--------------------------- MODULE MCSubagentJobs ---------------------------
(* Instances of SubagentJobs for TLC. *)
EXTENDS SubagentJobs, TLC

CONSTANTS j1, j2

Load(ops, n, k) == [ops |-> ops, calls |-> n, crashes |-> k]

\* Jobs canceled while they run, resumed and interrupted by a restart.
Restarts == Load({"dispatch", "resume", "cancelActive", "crash"}, 4, 1)
\* Jobs canceled at any time, tools that ask for approval, a restart.
Approvals == Load({"dispatch", "resume", "cancel", "approval", "crash"}, 3, 1)
\* Inputs, iterations and a reload of the configuration.
Edits == Load({"dispatch", "resume", "cancel", "input", "iterate", "reload"}, 3, 0)
\* A caller waits for a job.
Waiting == Load({"dispatch", "cancel", "approval", "wait"}, 4, 0)

\* Writes that fail, while jobs run and before a restart.
Faults == Load({"dispatch", "resume", "cancelActive", "fault", "crash"}, 3, 1)
\* ... while jobs are iterated and wait for approval.
FaultyEdits == Load({"dispatch", "resume", "cancel", "iterate", "approval", "fault"}, 3, 0)

AllWorkloads == {Restarts, Approvals, Edits, Waiting, Faults, FaultyEdits}

\* A job canceled before its goroutine has registered, then resumed.
EarlyCancel == {Load({"dispatch", "resume", "cancel"}, 4, 0)}
=============================================================================
