-------------------------------- MODULE Cron --------------------------------
(***************************************************************************)
(* The cron scheduler (runtime/cron/service.go) over its job files         *)
(* (runtime/cron/store.go): the loop that dispatches due jobs, the         *)
(* goroutines that run them, RunNow, the edits of jobs, Stop, a reload of  *)
(* the configuration and a crash.                                          *)
(*                                                                         *)
(* A job file is read and written whole, each access is one step, and no   *)
(* lock spans two of them.  Time is counted in seconds.  A job of AtJobs   *)
(* is due once, at second 1; the others are due again Period seconds after *)
(* the start of a run (cron expressions behave like every).  The agent's   *)
(* turn, the watchdogs and the delivery are reduced to their outcomes.     *)
(***************************************************************************)
EXTENDS Integers, Sequences, FiniteSets, SequencesExt

CONSTANTS JobSeq,    \* the jobs, in the order ListJobs sorts them
          AtJobs,
          Workloads, \* what is used: the jobs, the calls, the limits, the bounds
          Period,    \* every_seconds
          MaxTime,   \* bound: seconds
          MaxRuns    \* bound: goroutines alive at once

Jobs == ToSet(JobSeq)

\* A workload has its jobs, its operations (ops), the values of
\* max_concurrent_runs in the order they are configured (caps) and the bounds
\* on seconds, calls and crashes.
ASSUME CronAssumption ==
    /\ AtJobs \subseteq Jobs /\ IsInjective(JobSeq)
    /\ Period \in Nat \ {0} /\ MaxTime \in Nat
    /\ \A w \in Workloads :
         /\ w.jobs \subseteq Jobs /\ w.time <= MaxTime
         /\ w.ops \subseteq {"run", "update", "toggle", "delete", "stop", "reload"}
         /\ w.caps # <<>> /\ \A i \in DOMAIN w.caps : w.caps[i] \in Nat \ {0}

VARIABLES store,     \* the job files
          now,       \* the clock
          loops,     \* the goroutines of loop and dispatchDue
          current,   \* the one s.cancel ends, 0 if there is none
          runs,      \* the goroutines of runs
          inFlight,  \* s.inFlight
          chans,     \* the semaphore channels made so far: how full each is
          call,      \* an API call between its read and its write
          committed, \* the idempotency keys on disk
          open,      \* run logs on disk whose status is running, per job
          fired,     \* history: turns the schedule submitted, per job
          done,      \* history: completed runs per job and second
          load,      \* the workload of this behaviour
          calls, crashes

disk == <<store, committed, open>>
history == <<fired, done>>
vars == <<disk, now, loops, current, runs, inFlight, chans, call, history, calls, crashes, load>>

RunIds == 1..MaxRuns
LoopIds == 1..2
Times == 1..MaxTime

NoJob == [enabled |-> FALSE, next |-> -1, status |-> "none"]
\* next 0: NextRunAt is zero
Job(on, next, status) == [enabled |-> on, next |-> next, status |-> status]
NoRun == [pc |-> "none"]
NoCall == [op |-> "none"]
Off == [pc |-> "off", todo |-> <<>>, list |-> <<>>, at |-> 0, ch |-> 0, ctx |-> "live"]
Ready == [Off EXCEPT !.pc = "ready"]
\* The process has been started: one loop.
OneLoop == [l \in LoopIds |-> IF l = 1 THEN Ready ELSE Off]

Init ==
    /\ load \in Workloads
    /\ store = [j \in Jobs |-> IF j \in load.jobs THEN Job(TRUE, 1, "pending") ELSE NoJob]
    /\ now = 1
    /\ loops = OneLoop /\ current = 1
    /\ runs = [r \in RunIds |-> NoRun]
    /\ inFlight = {}
    /\ chans = <<0>>
    /\ call = NoCall
    /\ committed = {}
    /\ open = [j \in Jobs |-> 0]
    /\ fired = [j \in Jobs |-> 0]
    /\ done = [k \in Jobs \X Times |-> 0]
    /\ calls = 0 /\ crashes = 0

Semaphore == Len(chans)
Sends(ch) == chans[ch] < load.caps[ch]
Receives(ch) == chans[ch] > 0
Exists(j) == store[j] # NoJob
Due(job, t) == job.enabled /\ job.next > 0 /\ job.next <= t
Slot == CHOOSE r \in RunIds : runs[r] = NoRun
HasSlot == \E r \in RunIds : runs[r] = NoRun

\* by: the schedule or RunNow; log: whether a running log was written
Run(j, copy, at, by, pc) ==
    [pc |-> pc, job |-> j, copy |-> copy, at |-> at, by |-> by, ch |-> Semaphore,
     log |-> by = "now"]

Called(op) ==
    /\ op \in load.ops
    /\ call = NoCall
    /\ calls < load.calls
    /\ calls' = calls + 1

-----------------------------------------------------------------------------
(* The loop *)

Tick ==
    /\ now < load.time
    /\ now' = now + 1
    /\ UNCHANGED <<disk, loops, current, runs, inFlight, chans, call, history, calls,
                   crashes, load>>

Existing(seq) == SelectSeq(seq, LAMBDA j : Exists(j))

\* dispatchDue with this rest of its list; with none it returns to the loop.
Pass(loop, rest) ==
    IF rest = <<>> THEN [Ready EXCEPT !.ctx = loop.ctx]
    ELSE [loop EXCEPT !.pc = "scan", !.list = rest, !.ch = 0]

\* dispatchDue begins with ListJobs: the names of the files, then one file after
\* the other.  The context is only looked at between two passes.
ListJobs(l) ==
    /\ loops[l].pc = "ready"
    /\ loops' = [loops EXCEPT ![l].pc = "read", ![l].todo = Existing(JobSeq)]
    /\ UNCHANGED <<disk, now, current, runs, inFlight, chans, call, history, calls,
                   crashes, load>>

\* A file that is gone ends the pass.
ReadJob(l) ==
    /\ loops[l].pc = "read" /\ loops[l].todo # <<>>
    /\ LET j == Head(loops[l].todo) IN
         loops' = [loops EXCEPT ![l] =
                     IF Exists(j)
                     THEN [@ EXCEPT !.todo = Tail(@), !.list = Append(@, <<j, store[j]>>)]
                     ELSE Pass(@, <<>>)]
    /\ UNCHANGED <<disk, now, current, runs, inFlight, chans, call, history, calls,
                   crashes, load>>

\* Mutation: the first job that is not due ends the pass.
DispatchDue_Return(l) ==
    /\ loops[l].pc = "read" /\ loops[l].todo = <<>>
    /\ loops' = [loops EXCEPT ![l] =
                   Pass([@ EXCEPT !.at = now],
                        IF \E k \in DOMAIN @.list : ~Due(@.list[k][2], now)
                        THEN SubSeq(@.list, 1, SelectInSeq(@.list, LAMBDA entry : ~Due(entry[2], now)) - 1)
                        ELSE @.list)]
    /\ UNCHANGED <<disk, now, current, runs, inFlight, chans, call, history, calls,
                   crashes, load>>

\* One `now' for the whole list; what is due depends on it and on the copies alone.
DispatchDue(l) ==
    /\ loops[l].pc = "read" /\ loops[l].todo = <<>>
    /\ loops' = [loops EXCEPT ![l] =
                   Pass([@ EXCEPT !.at = now],
                        SelectSeq(@.list, LAMBDA entry : Due(entry[2], now)))]
    /\ UNCHANGED <<disk, now, current, runs, inFlight, chans, call, history, calls,
                   crashes, load>>

BeginRun_Blind(j) == TRUE

\* beginRun
BeginRun(j) == j \notin inFlight

\* The due jobs one by one; beginRun comes before the place.
Scan(l) ==
    /\ loops[l].pc = "scan"
    /\ LET j == Head(loops[l].list)[1] IN
         IF BeginRun(j)
         THEN /\ inFlight' = inFlight \cup {j}
              /\ loops' = [loops EXCEPT ![l].pc = "acquire", ![l].ch = Semaphore]
         ELSE /\ loops' = [loops EXCEPT ![l] = Pass(@, Tail(@.list))]
              /\ UNCHANGED inFlight
    /\ UNCHANGED <<disk, now, current, runs, chans, call, history, calls, crashes, load>>

Dispatch(l) ==
    /\ loops[l].pc = "acquire" /\ Sends(loops[l].ch) /\ HasSlot
    /\ LET entry == Head(loops[l].list) IN
         runs' = [runs EXCEPT ![Slot] = Run(entry[1], entry[2], loops[l].at, "loop", "start")]
    /\ chans' = [chans EXCEPT ![loops[l].ch] = @ + 1]
    /\ loops' = [loops EXCEPT ![l] = Pass(@, Tail(@.list))]
    /\ UNCHANGED <<disk, now, current, inFlight, call, history, calls, crashes, load>>

\* The context ends while dispatchDue waits for a place.
GiveUp(l) ==
    /\ loops[l].pc = "acquire" /\ loops[l].ctx = "done"
    /\ inFlight' = inFlight \ {Head(loops[l].list)[1]}
    /\ loops' = [loops EXCEPT ![l] = Pass(@, <<>>)]
    /\ UNCHANGED <<disk, now, current, runs, chans, call, history, calls, crashes, load>>

\* Between two dispatches the loop waits for the ticker or for its context.
EndLoop(l) ==
    /\ loops[l].pc = "ready" /\ loops[l].ctx = "done"
    /\ loops' = [loops EXCEPT ![l] = Off]
    /\ UNCHANGED <<disk, now, current, runs, inFlight, chans, call, history, calls,
                   crashes, load>>

-----------------------------------------------------------------------------
(* A run *)

\* RunNow's goroutine takes its place in the channel it first saw.
Acquire(r) ==
    /\ runs[r].pc = "acquire" /\ Sends(runs[r].ch)
    /\ chans' = [chans EXCEPT ![runs[r].ch] = @ + 1]
    /\ runs' = [runs EXCEPT ![r] = [@ EXCEPT !.pc = "start"]]
    /\ UNCHANGED <<disk, now, loops, current, inFlight, call, history, calls, crashes,
                   load>>

\* computeNextRunAfterRun
NextAfterRun(j, job, at) == IF job.enabled THEN at + Period ELSE 0

Started(j, job, at) ==
    IF j \in AtJobs THEN Job(FALSE, 0, "running")
                    ELSE Job(job.enabled, NextAfterRun(j, job, at), "running")

CommittedKey_Never(j, at) == FALSE

CommittedKey(j, at) == <<j, at>> \in committed

\* runJob: a committed key ends the run, else the job file is overwritten with
\* the copy the run got.
StartRun(r) ==
    /\ runs[r].pc = "start"
    /\ LET j == runs[r].job
           copy == Started(j, runs[r].copy, runs[r].at) IN
         IF CommittedKey(j, runs[r].at)
         THEN /\ runs' = [runs EXCEPT ![r] = [@ EXCEPT !.pc = "release"]]
              /\ UNCHANGED store
         ELSE /\ store' = [store EXCEPT ![j] = copy]
              /\ runs' = [runs EXCEPT ![r] = [@ EXCEPT !.pc = "gate", !.copy = copy]]
    /\ UNCHANGED <<committed, open, now, loops, current, inFlight, chans, call, history,
                   calls, crashes, load>>

Gate_Quiet(r) ==
    /\ runs[r].pc = "gate"
    /\ \/ /\ runs' = [runs EXCEPT ![r] = [@ EXCEPT !.pc = "release"]]
          /\ UNCHANGED fired
       \/ /\ runs' = [runs EXCEPT ![r] = [@ EXCEPT !.pc = "turn"]]
          /\ fired' = IF runs[r].by = "loop" THEN [fired EXCEPT ![runs[r].job] = @ + 1]
                                             ELSE fired
    /\ UNCHANGED <<disk, now, loops, current, inFlight, chans, call, done, calls, crashes,
                   load>>

\* The watchdogs, the session and its model: they end the run or let it go on
\* to its turn.
Gate(r) ==
    /\ runs[r].pc = "gate"
    /\ \/ \E out \in {"error", "suppressed"} :
            /\ runs' = [runs EXCEPT ![r] =
                          [@ EXCEPT !.pc = "save", !.copy = [@ EXCEPT !.status = out]]]
            /\ UNCHANGED fired
       \/ /\ runs' = [runs EXCEPT ![r] = [@ EXCEPT !.pc = "turn"]]
          /\ fired' = IF runs[r].by = "loop" THEN [fired EXCEPT ![runs[r].job] = @ + 1]
                                             ELSE fired
    /\ UNCHANGED <<disk, now, loops, current, inFlight, chans, call, done, calls, crashes,
                   load>>

\* The turn and the delivery end.
Turn(r) ==
    /\ runs[r].pc = "turn"
    /\ \E out \in {"completed", "error"} :
         runs' = [runs EXCEPT ![r] =
                    [@ EXCEPT !.pc = "save", !.copy = [@ EXCEPT !.status = out]]]
    /\ UNCHANGED <<disk, now, loops, current, inFlight, chans, call, history, calls,
                   crashes, load>>

\* AppendRunLog and SaveJob: the copy again, whatever is in the file by now.
SaveRun(r) ==
    /\ runs[r].pc = "save"
    /\ LET j == runs[r].job
           out == runs[r].copy.status IN
         /\ store' = [store EXCEPT ![j] = runs[r].copy]
         /\ open' = [open EXCEPT ![j] = IF runs[r].log /\ @ > 0 THEN @ - 1 ELSE @]
         /\ runs' = [runs EXCEPT ![r] =
                       [@ EXCEPT !.pc = IF out = "completed" THEN "commit" ELSE "release",
                                 !.log = FALSE]]
         /\ done' = IF out = "completed" THEN [done EXCEPT ![j, runs[r].at] = @ + 1]
                                         ELSE done
    /\ UNCHANGED <<committed, now, loops, current, inFlight, chans, call, fired, calls,
                   crashes, load>>

\* idempotency.Once
Commit(r) ==
    /\ runs[r].pc = "commit"
    /\ committed' = committed \cup {<<runs[r].job, runs[r].at>>}
    /\ runs' = [runs EXCEPT ![r] = [@ EXCEPT !.pc = "release"]]
    /\ UNCHANGED <<store, open, now, loops, current, inFlight, chans, call, history,
                   calls, crashes, load>>

\* The deferred function receives from the channel that is current by then.
Release(r) ==
    /\ runs[r].pc = "release"
    /\ runs' = [runs EXCEPT ![r] = [@ EXCEPT !.pc = "receive", !.ch = Semaphore]]
    /\ UNCHANGED <<disk, now, loops, current, inFlight, chans, call, history, calls,
                   crashes, load>>

Receive(r) ==
    /\ runs[r].pc = "receive" /\ Receives(runs[r].ch)
    /\ chans' = [chans EXCEPT ![runs[r].ch] = @ - 1]
    /\ runs' = [runs EXCEPT ![r] = [@ EXCEPT !.pc = "finish"]]
    /\ UNCHANGED <<disk, now, loops, current, inFlight, call, history, calls, crashes,
                   load>>

\* finishRun, and wg.Done
FinishRun(r) ==
    /\ runs[r].pc = "finish"
    /\ inFlight' = inFlight \ {runs[r].job}
    /\ runs' = [runs EXCEPT ![r] = NoRun]
    /\ UNCHANGED <<disk, now, loops, current, chans, call, history, calls, crashes, load>>

-----------------------------------------------------------------------------
(* The API *)

\* RunNow and UpdateJob read the job first ...
GetJob(op, j) ==
    /\ Called(IF op \in {"on", "off"} THEN "toggle" ELSE op)
    /\ Exists(j)
    /\ call' = [op |-> op, job |-> j, copy |-> store[j]]
    /\ UNCHANGED <<disk, now, loops, current, runs, inFlight, chans, history, crashes,
                   load>>

\* ... then RunNow takes the job, logs a running run and starts a goroutine,
RunNow ==
    /\ call.op = "run"
    /\ call' = NoCall
    /\ IF BeginRun(call.job)
       THEN /\ HasSlot
            /\ inFlight' = inFlight \cup {call.job}
            /\ open' = [open EXCEPT ![call.job] = @ + 1]
            /\ runs' = [runs EXCEPT ![Slot] = Run(call.job, call.copy, now, "now", "acquire")]
       ELSE UNCHANGED <<inFlight, open, runs>>
    /\ UNCHANGED <<store, committed, now, loops, current, chans, history, calls, crashes,
                   load>>

\* computeNextRun
NextRun(j, on) == IF ~on THEN 0 ELSE IF j \in AtJobs THEN 1 ELSE now + Period

\* ... and UpdateJob writes the whole job.
UpdateJob ==
    /\ call.op \in {"update", "on", "off"}
    /\ call' = NoCall
    /\ store' = [store EXCEPT ![call.job] =
                   IF call.op = "update" THEN call.copy
                   ELSE Job(call.op = "on", NextRun(call.job, call.op = "on"),
                            call.copy.status)]
    /\ UNCHANGED <<committed, open, now, loops, current, runs, inFlight, chans, history,
                   calls, crashes, load>>

\* DeleteJob removes the file and the logs.
DeleteJob(j) ==
    /\ Called("delete") /\ Exists(j)
    /\ store' = [store EXCEPT ![j] = NoJob]
    /\ open' = [open EXCEPT ![j] = 0]
    /\ UNCHANGED <<committed, now, loops, current, runs, inFlight, chans, call, history,
                   crashes, load>>

-----------------------------------------------------------------------------
(* Stop, Start, ApplyConfig, crash *)

\* Stop forgets the loop and ends its context.  Then it waits, for the loop and for
\* the runs, which changes nothing.
Stop ==
    /\ Called("stop") /\ current # 0
    /\ loops' = [loops EXCEPT ![current].ctx = "done"]
    /\ current' = 0
    /\ UNCHANGED <<disk, now, runs, inFlight, chans, call, history, crashes, load>>

\* Start does not wait for the loop that was stopped.
Start ==
    /\ current = 0
    /\ \E l \in LoopIds :
         /\ loops[l].pc = "off"
         /\ loops' = [loops EXCEPT ![l] = Ready]
         /\ current' = l
    /\ UNCHANGED <<disk, now, runs, inFlight, chans, call, history, calls, crashes,
                   load>>

\* A new limit makes a new channel; the old one keeps its senders.
ApplyConfig ==
    /\ Called("reload")
    /\ Len(chans) < Len(load.caps) /\ load.caps[Len(chans) + 1] # load.caps[Len(chans)]
    /\ chans' = Append(chans, 0)
    /\ UNCHANGED <<disk, now, loops, current, runs, inFlight, call, history, crashes,
                   load>>

\* The process stops and is started again.
Crash ==
    /\ crashes < load.crashes
    /\ crashes' = crashes + 1
    /\ loops' = OneLoop /\ current' = 1
    /\ runs' = [r \in RunIds |-> NoRun]
    /\ inFlight' = {}
    /\ chans' = [chans EXCEPT ![Semaphore] = 0]
    /\ call' = NoCall
    /\ UNCHANGED <<disk, now, history, calls, load>>

-----------------------------------------------------------------------------

Loop(l) ==
    \/ ListJobs(l) \/ ReadJob(l) \/ DispatchDue(l) \/ Scan(l) \/ Dispatch(l)
    \/ GiveUp(l) \/ EndLoop(l)

Goroutine(r) ==
    \/ Acquire(r) \/ StartRun(r) \/ Gate(r) \/ Turn(r) \/ SaveRun(r) \/ Commit(r)
    \/ Release(r) \/ Receive(r) \/ FinishRun(r)

Next ==
    \/ Tick
    \/ \E l \in LoopIds : Loop(l)
    \/ \E r \in RunIds : Goroutine(r)
    \/ \E op \in {"run", "update", "on", "off"}, j \in Jobs : GetJob(op, j)
    \/ RunNow \/ UpdateJob
    \/ \E j \in Jobs : DeleteJob(j)
    \/ Stop \/ Start \/ ApplyConfig \/ Crash

Spec == Init /\ [][Next]_vars

\* The Go scheduler runs every goroutine, the clock goes on, and turns,
\* watchdogs and deliveries return.
Fairness ==
    /\ WF_vars(Tick)
    /\ \A l \in LoopIds : WF_vars(Loop(l))
    /\ \A r \in RunIds : WF_vars(Goroutine(r))
    /\ WF_vars(RunNow) /\ WF_vars(UpdateJob)

FairSpec == Spec /\ Fairness

-----------------------------------------------------------------------------
(* Properties *)

\* The workload uses none of these calls.
Without(S) == load.ops \cap S = {}

Live == {r \in RunIds : runs[r] # NoRun}
InRunJob == {r \in Live : runs[r].pc \in {"start", "gate", "turn", "save", "commit"}}

\* "never run two turns for the same job concurrently" (RunNow): the loop, RunNow
\* and a loop that was stopped and still dispatches the list it has read, with
\* copies read at different times, never run one job twice at once.
OneRunPerJob ==
    \A q, r \in InRunJob : runs[q].job = runs[r].job => q = r

\* A run that was committed is not completed again: RunNow and the loops in
\* the same second share a key.  A crash before the commit loses the key.
KeyOnce == load.crashes = 0 => \A j \in Jobs, t \in Times : done[j, t] <= 1

\* A job that is scheduled once is submitted once by the schedule.
AtOnce == \A j \in AtJobs : fired[j] <= 1

\* A log that says running belongs to a run that is still going on.  This is not
\* so: RunNow writes it before the idempotency key ends the run, and a crash
\* leaves it.
RunningLogIsLive ==
    \A j \in Jobs : open[j] > 0 => \E r \in Live : runs[r].job = j /\ runs[r].log

\* A job that is due is taken up while the scheduler is on: it does not stay due
\* for ever without a run of its own in that second (dispatchDue), although other
\* runs hold the places and a run by hand writes its older copy back.
DueIsTaken ==
    Without({"stop", "reload"}) =>
        \A j \in Jobs :
            Due(store[j], now) ~> \/ ~Due(store[j], now)
                                  \/ <<j, now>> \in committed

\* A job scheduled once is submitted, suppressed or reported as failed.  Its file
\* says running, and is no longer due, before the turn is submitted: a crash in
\* between loses it.
AtJobRuns ==
    Without({"stop", "reload"}) /\ load.crashes = 0 =>
        \A j \in AtJobs : <>(store[j].status \notin {"pending", "running"})

=============================================================================
