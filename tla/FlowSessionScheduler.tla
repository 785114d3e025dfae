------------------------ MODULE FlowSessionScheduler ------------------------
(***************************************************************************)
(* The in-process scheduler of internal/services/backend for the lanes of  *)
(* one FlowSession: coordinators turn wakeups into tasks, task workers run *)
(* them against the store, publishers queue replaceable signals, and       *)
(* pause, end and interrupt take running work back.  The store is the      *)
(* atomic one of FlowSession, so every critical section of the scheduler's *)
(* mutex and every call of the store is one step.                          *)
(*                                                                         *)
(* Abstractions.  Worker classes share one pool.  Job identities stand for *)
(* pointers and for tokens (a job is dispatched at most once): an identity *)
(* nobody refers to any more is used again.  A periodic lane that is       *)
(* enabled may be due at any time.  The task queue is shared with other    *)
(* sessions, which may fill it at any time.                                *)
(***************************************************************************)
EXTENDS FlowSessionRecord, FiniteSetsExt

CONSTANTS Lanes,         \* lanes of latest-wins signals
          SigSources,    \* sources of signals; numbers, for their order
          LaneSource,    \* the one of them that periodic lanes publish as
          Coordinators,  \* goroutines of worker()
          JobCapacity,   \* flowSessionWorkQueueCapacity, less other sessions' jobs
          Updates,       \* whether handlers return a new state: of BOOLEAN
          Workloads      \* how the session is set up and used

Durable == "durable"
Keys == Lanes \cup {Durable}

\* A workload has the sources that publish (sources), the lanes with overload
\* policy drop_newest (dropNewest), a deadline (deadlines) or an interval
\* (periodic), flowSessionSignalKeysPerFlow (signalKeys), which of pause, resume,
\* end, interrupt and restart occur (controls), and bounds on the inputs: events,
\* signals per source, control calls (changes), failed loads (faults) and how often
\* the task queue is full (crowds).
ASSUME LanesAssumption ==
  /\ Durable \notin Lanes /\ IsFiniteSet(Lanes) /\ IsFiniteSet(Coordinators)
  /\ SigSources \subseteq Nat \ {0} /\ Updates \subseteq BOOLEAN
  /\ \A w \in Workloads :
       /\ w.sources \subseteq SigSources \ {LaneSource}
       /\ w.dropNewest \cup w.periodic \subseteq Lanes /\ w.deadlines \subseteq Keys
       /\ {w.signals, w.faults, w.crowds} \subseteq Nat

NoSig == [src |-> 0, n |-> 0]

\* flowSessionScheduledWork; identity 0 is nil.
NoJob == [id |-> 0, dirty |-> FALSE, inFlight |-> FALSE, interrupting |-> FALSE,
          sig |-> NoSig, work |-> 0, next |-> 0]

VARIABLES rec, log,      \* the session in the store
          sch,           \* what the mutex guards: jobs, the work channel, signals
          coord,         \* each coordinator inside process()
          tasks,         \* dispatched tasks, from the queue to their end
          pub,           \* publishers between their check and publishSignal
          after,         \* API calls between the store and the scheduler
          intr,          \* the caller of InterruptFlowSessionTurn
          ticker,        \* the goroutine of run()
          latest, done,  \* per lane and source: last signal accepted, consumed
          used,          \* inputs consumed from the bounds
          load           \* the workload of this behaviour

store == <<rec, log>>
history == <<latest, done>>
vars == <<rec, log, sch, coord, tasks, pub, after, intr, ticker, latest, done, used, load>>

NoRun == [pc |-> "idle", key |-> Durable, job |-> 0, item |-> NoItem, sig |-> NoSig]
NoIntr == [pc |-> "idle", job |-> 0, item |-> NoItem, canceled |-> FALSE]
Continuations == {"wake", "keep", "drop", "mute", "unmute"}
NoSignals == [l \in Lanes |-> [s \in SigSources |-> 0]]
NoPeriodic == [l \in Lanes |-> "none"]
Idle == [jobs |-> [k \in Keys |-> NoJob], work |-> <<>>, signals |-> NoSignals,
         periodic |-> NoPeriodic]

\* syncPeriodicLanes: the intervals of the session's specification, enabled.
SyncPeriodic(s) ==
  [s EXCEPT !.periodic = [l \in Lanes |-> IF l \in load.periodic THEN "on" ELSE "none"]]

Init ==
  /\ rec = NewRecord /\ log = <<>>
  /\ load \in Workloads
  /\ sch = SyncPeriodic(Idle)
  /\ coord = [c \in Coordinators |-> NoRun]
  /\ tasks = {} /\ pub = {} /\ intr = NoIntr /\ ticker = "idle"
  /\ after = [a \in Continuations |-> 0]
  /\ latest = NoSignals /\ done = NoSignals
  /\ used = [controls |-> 0, faults |-> 0, crowds |-> 0]

-----------------------------------------------------------------------------
(* The scheduler's critical sections, as functions of what the mutex       *)
(* guards.                                                                 *)

\* The identity of a new job, different from all that are referred to.
FreshId(s) ==
  LET taken == {s.jobs[k].id : k \in Keys} \cup {coord[c].job : c \in Coordinators}
                 \cup {t.id : t \in tasks} \cup {intr.job}
  IN  CHOOSE i \in 1..Cardinality(taken) + 1 : i \notin taken

\* scheduleLocked
Schedule(s, key) ==
  IF s.jobs[key] # NoJob THEN [s EXCEPT !.jobs[key].dirty = TRUE]
  ELSE IF \/ Cardinality({k \in Keys : s.jobs[k] # NoJob}) >= JobCapacity
          \/ Len(s.work) >= JobCapacity THEN s
  ELSE [s EXCEPT !.jobs[key] = [NoJob EXCEPT !.id = FreshId(s), !.dirty = TRUE],
                 !.work = Append(@, key)]

Queued(s, l) == {src \in SigSources : s.signals[l][src] # 0}

\* scheduleLocked for one key after the other.
ScheduleAll(s, keys) ==
  LET first[i \in 0..Len(keys)] ==
        IF i = 0 THEN s ELSE Schedule(first[i - 1], keys[i])
  IN  first[Len(keys)]

\* schedulePendingSignalsLocked: what it may lead to, since the lanes with
\* queued signals are met in any order.
SchedulePending(s) ==
  LET pending == {l \in Lanes : Queued(s, l) # {}}
      orders == {q \in [1..Cardinality(pending) -> pending] :
                   \A i, j \in DOMAIN q : q[i] = q[j] => i = j}
  IN  {ScheduleAll(s, q) : q \in orders}

Delete(s, key) == [s EXCEPT !.jobs[key] = NoJob]
DeleteIf(s, key, id) == IF s.jobs[key].id = id THEN Delete(s, key) ELSE s

\* restoreSignalLocked: a newer signal that is queued already wins.
Restore(s, l, sig) ==
  IF s.signals[l][sig.src] # 0 THEN s
  ELSE [s EXCEPT !.signals[l][sig.src] = sig.n]

\* restoreSignals
RestoreSignals(s, l, sig) ==
  LET back == Restore(s, l, sig) IN
  IF s.jobs[l] = NoJob THEN back ELSE [back EXCEPT !.jobs[l].dirty = TRUE]

\* cancelSession.  The slot of a task in flight is kept until it returns.
CancelSession(s, preserve) ==
  [s EXCEPT
     !.jobs = [k \in Keys |->
                 IF s.jobs[k].inFlight
                 THEN [s.jobs[k] EXCEPT !.sig = NoSig, !.dirty = TRUE] ELSE NoJob],
     !.periodic = IF preserve THEN @ ELSE NoPeriodic,
     !.signals = [l \in Lanes |-> [src \in SigSources |->
                   CASE ~preserve -> 0
                     [] preserve /\ @[l][src] # 0 -> @[l][src]
                     [] OTHER -> IF s.jobs[l].sig.src = src THEN s.jobs[l].sig.n ELSE 0]]]

\* Canceling the contexts of the tasks with these identities.
CancelTasks(ids) ==
  {IF t.id \in ids THEN [t EXCEPT !.canceled = TRUE] ELSE t : t \in tasks}

InFlightIds(s) == {s.jobs[k].id : k \in {k \in Keys : s.jobs[k].inFlight}}

-----------------------------------------------------------------------------
(* Calls of the API.                                                       *)

Later(a) == after' = [after EXCEPT ![a] = @ + 1]
Spend(kind, limit) == used[kind] < limit /\ used' = [used EXCEPT ![kind] = @ + 1]

\* AppendFlowSessionEvent: the journal first, the wakeup after.  A source numbers
\* its events one after the other.
AppendEvent(in) ==
  /\ Len(log) < load.events /\ CanAppend(rec, in)
  /\ in.sseq = rec.cursors[in.source].sseq + 1
  /\ log' = Append(log, ClientEvent(rec, in))
  /\ rec' = Appended(rec, ClientEvent(rec, in))
  /\ Later("wake")
  /\ UNCHANGED <<sch, coord, tasks, pub, intr, ticker, history, used, load>>

\* What a call does to the scheduler once the store has changed: pause takes
\* the jobs back and then disables the periodic lanes, resume enables them and
\* then wakes the session, end takes everything.
Continuation(target) ==
  CASE target = "active" -> IF load.periodic = {} THEN "wake" ELSE "unmute"
    [] target = "paused" -> "keep"
    [] OTHER -> "drop"

Continued(a) ==
  CASE a = "keep" /\ load.periodic # {} -> [after EXCEPT ![a] = @ - 1, !["mute"] = @ + 1]
    [] a = "unmute" -> [after EXCEPT ![a] = @ - 1, !["wake"] = @ + 1]
    [] OTHER -> [after EXCEPT ![a] = @ - 1]

\* Pause, Resume, EndFlowSession: the store first, the scheduler after.
Transition(target) ==
  LET ev == LifecycleEvent(rec, target) IN
  /\ target \in load.controls /\ Spend("controls", load.changes)
  /\ CanTransition(rec, target)
  /\ log' = Append(log, ev)
  /\ rec' = Transitioned(rec, target, ev)
  /\ Later(Continuation(target))
  /\ UNCHANGED <<sch, coord, tasks, pub, intr, ticker, history, load>>

Wake ==
  /\ after["wake"] > 0 /\ after' = Continued("wake")
  /\ sch' = Schedule(sch, Durable)
  /\ UNCHANGED <<store, coord, tasks, pub, intr, ticker, history, used, load>>

CancelCall(a) ==
  /\ after[a] > 0 /\ after' = Continued(a)
  /\ sch' = CancelSession(sch, a = "keep")
  /\ tasks' = CancelTasks(InFlightIds(sch))
  /\ UNCHANGED <<store, coord, pub, intr, ticker, history, used, load>>

\* setPeriodicActive
SetPeriodicActive(a) ==
  /\ after[a] > 0 /\ after' = Continued(a)
  /\ sch' = [sch EXCEPT !.periodic =
               [l \in Lanes |-> IF @[l] = "none" THEN "none"
                                ELSE IF a = "unmute" THEN "on" ELSE "off"]]
  /\ UNCHANGED <<store, coord, tasks, pub, intr, ticker, history, used, load>>

\* PublishFlowSessionSignal checks the status before it takes the mutex.
PreparePublish(l, src) ==
  /\ rec.status = "active" /\ latest[l][src] < load.signals
  /\ <<l, src>> \notin pub /\ pub' = pub \cup {<<l, src>>}
  /\ UNCHANGED <<store, sch, coord, tasks, after, intr, ticker, history, used, load>>

\* publishSignal: refused at its limits, dropped or accepted.
Publish(l, src) ==
  LET coalesced == sch.signals[l][src] # 0
      s == IF sch.jobs[l] = NoJob THEN Schedule(sch, l) ELSE sch
      n == latest[l][src] + 1
      dropped == l \in load.dropNewest /\ (coalesced \/ sch.jobs[l].inFlight)
      refused == \/ ~coalesced /\ Cardinality(Queued(sch, l)) >= load.signalKeys
                 \/ s.jobs[l] = NoJob
  IN
  /\ <<l, src>> \in pub /\ pub' = pub \ {<<l, src>>}
  /\ ticker' = IF src = LaneSource /\ ~\E k \in Lanes \ {l} : <<k, src>> \in pub
               THEN "idle" ELSE ticker
  /\ IF dropped \/ refused THEN UNCHANGED <<sch, tasks, latest>>
     ELSE /\ sch' = [s EXCEPT !.signals[l][src] = n, !.jobs[l].dirty = TRUE]
          /\ latest' = [latest EXCEPT ![l][src] = n]
          /\ tasks' = IF s.jobs[l].inFlight /\ l \notin load.dropNewest
                      THEN CancelTasks({s.jobs[l].id}) ELSE tasks
  /\ UNCHANGED <<store, coord, after, intr, done, used, load>>

-----------------------------------------------------------------------------
(* Coordinators: process(key) and dispatch().                              *)

At(c, pc) == coord[c].pc = pc
Run(c) == coord[c]
Go(c, pc) == coord' = [coord EXCEPT ![c].pc = pc]
Stop(c) == coord' = [coord EXCEPT ![c] = NoRun]
Mine(c) == sch.jobs[Run(c).key].id = Run(c).job

\* The head of process's loop: claim the job of the key, whoever made it.
Claim(c, key, s) ==
  LET job == s.jobs[key] IN
  IF job = NoJob \/ job.inFlight \/ job.interrupting
  THEN Stop(c) /\ sch' = s
  ELSE /\ coord' = [coord EXCEPT ![c] = [NoRun EXCEPT !.pc = "view", !.key = key, !.job = job.id]]
       /\ sch' = [s EXCEPT !.jobs[key].dirty = FALSE, !.jobs[key].next = 0]

Pick(c) ==
  /\ At(c, "idle") /\ sch.work # <<>>
  /\ Claim(c, Head(sch.work), [sch EXCEPT !.work = Tail(@)])
  /\ UNCHANGED <<store, tasks, pub, after, intr, ticker, history, used, load>>

Again(c) ==
  /\ At(c, "again") /\ Claim(c, Run(c).key, sch)
  /\ UNCHANGED <<store, tasks, pub, after, intr, ticker, history, used, load>>

\* GetFlowSession, and what process does with the view it gets.
View(c) ==
  LET next == CASE rec.status \in Terminal -> "ended"
                [] rec.status = "paused" -> "drop"
                [] rec.status = "active" /\ rec.last > rec.processed ->
                     IF Run(c).key = Durable THEN "mark" ELSE "drop"
                [] OTHER -> IF Run(c).key = Durable THEN "prepare" ELSE "take"
  IN
  /\ At(c, "view")
  /\ coord' = [coord EXCEPT ![c].pc = next,
                 ![c].item = IF next = "mark" THEN Snapshot(rec, "loaded") ELSE NoItem]
  /\ UNCHANGED <<store, sch, tasks, pub, after, intr, ticker, history, used, load>>

\* A load that fails.
LoadFails(c) ==
  /\ Run(c).pc \in {"view", "prepare", "read"} /\ Spend("faults", load.faults)
  /\ Go(c, "drop")
  /\ UNCHANGED <<store, sch, tasks, pub, after, intr, ticker, history, load>>

\* Give the job up; the signals of an ended session go with it.
Drop(c) ==
  /\ Run(c).pc \in {"drop", "ended"}
  /\ LET s == DeleteIf(sch, Run(c).key, Run(c).job) IN
     sch' = IF At(c, "ended") THEN [s EXCEPT !.signals = NoSignals] ELSE s
  /\ Stop(c)
  /\ UNCHANGED <<store, tasks, pub, after, intr, ticker, history, used, load>>

\* The sequence an interrupt is compared with before the work is known: the
\* one after the view's processed sequence.
Mark(c) ==
  /\ At(c, "mark") /\ Go(c, "prepare")
  /\ sch' = IF Mine(c) THEN [sch EXCEPT !.jobs[Durable].next = Run(c).item.seq] ELSE sch
  /\ UNCHANGED <<store, tasks, pub, after, intr, ticker, history, used, load>>

\* PrepareFlowSessionWork: snapshot the record, then read the next event.
Prepare(c) ==
  /\ At(c, "prepare")
  /\ coord' = IF rec.status # "active"
              THEN [coord EXCEPT ![c].pc = "drain", ![c].item = NoItem]
              ELSE [coord EXCEPT ![c].pc = "read", ![c].item = Snapshot(rec, "loaded")]
  /\ UNCHANGED <<store, sch, tasks, pub, after, intr, ticker, history, used, load>>

Read(c) ==
  LET item == WithEvent(Run(c).item, log) IN
  /\ At(c, "read")
  /\ coord' = [coord EXCEPT ![c].pc = IF item = NoItem THEN "drain" ELSE "bind", ![c].item = item]
  /\ UNCHANGED <<store, sch, tasks, pub, after, intr, ticker, history, used, load>>

Bind(c) ==
  LET seq == Run(c).item.seq IN
  /\ At(c, "bind")
  /\ IF Mine(c)
     THEN Go(c, "dispatch") /\ sch' = [sch EXCEPT !.jobs[Durable].work = seq, !.jobs[Durable].next = seq]
     ELSE Stop(c) /\ UNCHANGED sch
  /\ UNCHANGED <<store, tasks, pub, after, intr, ticker, history, used, load>>

\* takeSignal: the first source in order.
Take(c) ==
  LET l == Run(c).key IN
  /\ At(c, "take")
  /\ IF Queued(sch, l) = {} THEN Go(c, "end") /\ UNCHANGED sch
     ELSE LET src == Min(Queued(sch, l)) IN
          /\ coord' = [coord EXCEPT ![c].pc = "dispatch",
                                    ![c].sig = [src |-> src, n |-> sch.signals[l][src]]]
          /\ sch' = [sch EXCEPT !.signals[l][src] = 0]
  /\ UNCHANGED <<store, tasks, pub, after, intr, ticker, history, used, load>>

\* dispatch: hand the work or the signal to the task workers.
Dispatch(c) ==
  LET key == Run(c).key
      job == sch.jobs[key]
      task == [id |-> job.id, key |-> key, item |-> Run(c).item, sig |-> Run(c).sig,
               pc |-> "queued", err |-> "none", canceled |-> FALSE]
  IN
  /\ At(c, "dispatch")
  /\ \/ /\ ~Mine(c) \/ job.inFlight \/ job.interrupting
        /\ Stop(c) /\ UNCHANGED <<sch, tasks, used>>
     \/ /\ Mine(c) /\ ~job.inFlight /\ ~job.interrupting
        /\ sch' = [sch EXCEPT !.jobs[key] = [job EXCEPT !.inFlight = TRUE, !.sig = Run(c).sig,
                                                        !.work = Run(c).item.seq]]
        /\ tasks' = tasks \cup {task}
        /\ Stop(c) /\ UNCHANGED used
     \/ /\ Mine(c) /\ ~job.inFlight /\ ~job.interrupting
        /\ Spend("crowds", load.crowds)
        /\ sch' = Delete(sch, key)
        /\ IF key = Durable THEN Stop(c) ELSE Go(c, "restore")
        /\ UNCHANGED tasks
  /\ UNCHANGED <<store, pub, after, intr, ticker, history, load>>

GiveBack(c) ==
  /\ At(c, "restore") /\ Stop(c)
  /\ sch' = RestoreSignals(sch, Run(c).key, Run(c).sig)
  /\ UNCHANGED <<store, tasks, pub, after, intr, ticker, history, used, load>>

Drain(c) ==
  /\ At(c, "drain") /\ Go(c, "end")
  /\ sch' \in SchedulePending(sch)
  /\ UNCHANGED <<store, tasks, pub, after, intr, ticker, history, used, load>>

\* Nothing left to run: go round again if the job was woken meanwhile.
End(c) ==
  LET job == sch.jobs[Run(c).key] IN
  /\ At(c, "end")
  /\ \/ /\ ~Mine(c) \/ job.interrupting
        /\ Stop(c) /\ UNCHANGED sch
     \/ /\ Mine(c) /\ ~job.interrupting /\ job.dirty
        /\ Go(c, "again") /\ UNCHANGED sch
     \/ /\ Mine(c) /\ ~job.interrupting /\ ~job.dirty
        /\ Stop(c) /\ sch' = Delete(sch, Run(c).key)
  /\ UNCHANGED <<store, tasks, pub, after, intr, ticker, history, used, load>>

-----------------------------------------------------------------------------
(* Task workers: runAsyncTask.                                             *)

\* The task moves on with these fields changed.
Advance(t, new) == tasks' = (tasks \ {t}) \cup {new}
Settling(t, err) == [t EXCEPT !.pc = "settle", !.err = err]

\* Mutation: the slot of the lane is freed when the task starts.
Start_FreesSlot(t) ==
  /\ t.pc = "queued"
  /\ Advance(t, IF t.key = Durable THEN [t EXCEPT !.pc = "run"] ELSE [t EXCEPT !.pc = "prepare"])
  /\ sch' = DeleteIf(sch, t.key, t.id)
  /\ UNCHANGED <<store, coord, pub, after, intr, ticker, history, used, load>>

Start(t) ==
  /\ t.pc = "queued"
  /\ Advance(t, CASE t.key # Durable -> [t EXCEPT !.pc = "prepare"]
                  [] t.key = Durable /\ t.canceled -> Settling(t, "other")
                  [] OTHER -> [t EXCEPT !.pc = "run"])
  /\ UNCHANGED <<store, sch, coord, pub, after, intr, ticker, history, used, load>>

\* The handlers return; a result is kept only if the context is still alive.
Execute(t) ==
  /\ t.pc = "run"
  /\ Advance(t, IF t.canceled THEN Settling(t, "other") ELSE [t EXCEPT !.pc = "commit"])
  /\ UNCHANGED <<store, sch, coord, pub, after, intr, ticker, history, used, load>>

\* The deadline of the lane passes.
Deadline(t) ==
  /\ t.key \in load.deadlines /\ ~t.canceled /\ t.pc # "retire"
  /\ Advance(t, [t EXCEPT !.canceled = TRUE])
  /\ UNCHANGED <<store, sch, coord, pub, after, intr, ticker, history, used, load>>

\* CommitFlowSessionWork.
CommitWork(t, updates, n) ==
  LET w == t.item
      next == IF w.godex THEN Checkpointed(rec, w) ELSE Committed(rec, w, updates, n)
  IN
  /\ t.pc = "commit" /\ t.key = Durable
  /\ IF CanCommit(rec, w)
     THEN /\ rec' = [next EXCEPT !.pending = <<>>] /\ log' = log \o next.pending
          /\ Advance(t, Settling(t, "none"))
     ELSE Advance(t, Settling(t, "stale")) /\ UNCHANGED store
  /\ UNCHANGED <<sch, coord, pub, after, intr, ticker, history, used, load>>

CommitFails(t) ==
  /\ t.pc \in {"commit", "prepare", "load"} /\ Spend("faults", load.faults)
  /\ Advance(t, Settling(t, "other"))
  /\ UNCHANGED <<store, sch, coord, pub, after, intr, ticker, history, load>>

\* ProcessFlowSessionSignal: check the status, snapshot the record, run the
\* handlers and apply the result.
PrepareSignal(t) ==
  /\ t.pc = "prepare"
  /\ Advance(t, IF rec.status = "active" THEN [t EXCEPT !.pc = "load"] ELSE Settling(t, "other"))
  /\ UNCHANGED <<store, sch, coord, pub, after, intr, ticker, history, used, load>>

LoadSignal(t) ==
  /\ t.pc = "load"
  /\ Advance(t, IF rec.last > rec.processed THEN Settling(t, "pending")
                ELSE [t EXCEPT !.pc = "commit", !.item = Snapshot(rec, "signal")])
  /\ UNCHANGED <<store, sch, coord, pub, after, intr, ticker, history, used, load>>

\* A signal is consumed when its result is applied or is out of date.
CommitSignal(t, updates) ==
  LET err == CASE CanSignal(rec, t.item) -> "none"
               [] ~CanSignal(rec, t.item) /\ rec.status # "active" -> "other"
               [] OTHER -> IF rec.last > rec.processed THEN "pending" ELSE "stale"
  IN
  /\ t.pc = "commit" /\ t.key # Durable
  /\ rec' = IF err = "none" THEN Signaled(rec, t.item, updates) ELSE rec
  /\ done' = IF err \in {"none", "stale"} THEN [done EXCEPT ![t.key][t.sig.src] = t.sig.n] ELSE done
  /\ Advance(t, Settling(t, err))
  /\ UNCHANGED <<log, sch, coord, pub, after, intr, ticker, latest, used, load>>

\* Mutation: only failed signals go back, not the ones events overtook.
Settle_ForgetsPending(t) ==
  /\ t.pc = "settle" /\ Advance(t, [t EXCEPT !.pc = "retire"])
  /\ sch' = IF t.key # Durable /\ t.err = "other" /\ ~t.canceled
            THEN RestoreSignals(sch, t.key, t.sig) ELSE sch
  /\ UNCHANGED <<store, coord, pub, after, intr, ticker, history, used, load>>

\* Signals that could not be evaluated go back to their queue.
Settle(t) ==
  /\ t.pc = "settle" /\ Advance(t, [t EXCEPT !.pc = "retire"])
  /\ sch' = IF t.key # Durable /\ (t.err = "pending" \/ (t.err = "other" /\ ~t.canceled))
            THEN RestoreSignals(sch, t.key, t.sig) ELSE sch
  /\ UNCHANGED <<store, coord, pub, after, intr, ticker, history, used, load>>

\* The end of a task: free the slot of its lane and wake what may run now.
Retire(t) ==
  LET job == sch.jobs[t.key]
      freed == Delete(sch, t.key)
      again == IF t.err = "none" \/ job.dirty THEN Schedule(freed, t.key) ELSE freed
  IN
  /\ t.pc = "retire" /\ ~(job.id = t.id /\ job.interrupting)
  /\ tasks' = tasks \ {t}
  /\ CASE job.id # t.id -> UNCHANGED sch
       [] job.id = t.id /\ t.key = Durable -> sch' \in SchedulePending(again)
       [] OTHER -> sch' = again
  /\ UNCHANGED <<store, coord, pub, after, intr, ticker, history, used, load>>

-----------------------------------------------------------------------------
(* InterruptFlowSessionTurn, the recovery scan and a restart.              *)

\* PrepareFlowSessionWork as in Prepare and Read: snapshot the record, then read
\* the next event.
InterruptBegin ==
  /\ intr.pc = "idle" /\ rec.status = "active"
  /\ "interrupt" \in load.controls /\ Spend("controls", load.changes)
  /\ intr' = [NoIntr EXCEPT !.pc = "read", !.item = Snapshot(rec, "loaded")]
  /\ UNCHANGED <<store, sch, coord, tasks, pub, after, ticker, history, load>>

\* It goes on with an event of a source that numbers its events.
InterruptRead ==
  LET item == WithEvent(intr.item, log) IN
  /\ intr.pc = "read"
  /\ intr' = IF item = NoItem \/ item.godex \/ log[item.seq].sseq = 0 THEN NoIntr
             ELSE [intr EXCEPT !.pc = "mark", !.item = item]
  /\ UNCHANGED <<store, sch, coord, tasks, pub, after, ticker, history, used, load>>

InterruptMark ==
  LET job == sch.jobs[Durable]
      known == IF job.work # 0 THEN job.work ELSE job.next
  IN
  /\ intr.pc = "mark"
  /\ \/ /\ job = NoJob
        /\ intr' = [intr EXCEPT !.pc = "cancel"] /\ UNCHANGED <<sch, tasks>>
     \/ /\ job # NoJob /\ (known \notin {0, intr.item.seq} \/ job.interrupting)
        /\ intr' = NoIntr /\ UNCHANGED <<sch, tasks>>
     \/ /\ job # NoJob /\ known \in {0, intr.item.seq} /\ ~job.interrupting
        /\ intr' = [intr EXCEPT !.pc = "cancel", !.job = job.id]
        /\ sch' = [sch EXCEPT !.jobs[Durable].interrupting = TRUE, !.jobs[Durable].dirty = TRUE]
        /\ tasks' = IF job.inFlight THEN CancelTasks({job.id}) ELSE tasks
  /\ UNCHANGED <<store, coord, pub, after, ticker, history, used, load>>

\* CancelFlowSessionWork: skip the event, unless it is no longer the next.
InterruptCancel ==
  /\ intr.pc = "cancel"
  /\ rec' = IF CanCommit(rec, intr.item) THEN Canceled(rec, intr.item) ELSE rec
  /\ intr' = [intr EXCEPT !.pc = "finish", !.canceled = CanCommit(rec, intr.item)]
  /\ UNCHANGED <<log, sch, coord, tasks, pub, after, ticker, history, used, load>>

\* Mutation: a job that was not in flight is released, not queued again.
InterruptFinish_NoRequeue ==
  /\ intr.pc = "finish" /\ intr' = NoIntr
  /\ sch' = IF intr.job = 0 \/ sch.jobs[Durable].id # intr.job THEN sch
            ELSE [sch EXCEPT !.jobs[Durable].interrupting = FALSE, !.jobs[Durable].dirty = TRUE]
  /\ after' = IF intr.canceled THEN [after EXCEPT !["wake"] = @ + 1] ELSE after
  /\ UNCHANGED <<store, coord, tasks, pub, ticker, history, used, load>>

InterruptFinish ==
  LET job == sch.jobs[Durable] IN
  /\ intr.pc = "finish" /\ intr' = NoIntr
  /\ sch' = CASE intr.job = 0 \/ job.id # intr.job -> sch
              [] intr.job # 0 /\ job.id = intr.job /\ ~job.inFlight ->
                   Schedule(Delete(sch, Durable), Durable)
              [] OTHER -> [sch EXCEPT !.jobs[Durable].interrupting = FALSE, !.jobs[Durable].dirty = TRUE]
  /\ after' = IF intr.canceled THEN [after EXCEPT !["wake"] = @ + 1] ELSE after
  /\ UNCHANGED <<store, coord, tasks, pub, ticker, history, used, load>>

\* What the scan does after it has listed the session.
AfterList ==
  CASE rec.status = "active" /\ rec.last > rec.processed -> "wake"
    [] load.periodic = {} -> "idle"
    [] OTHER -> IF rec.status = "active" THEN "sync" ELSE "prune"

\* Mutations: the scan only wakes signals; it only wakes sessions.
TickScan_SignalsOnly ==
  /\ ticker = "idle" /\ UNCHANGED ticker
  /\ sch' \in SchedulePending(sch)
  /\ UNCHANGED <<store, coord, tasks, pub, after, intr, history, used, load>>
TickScan_EventsOnly ==
  /\ ticker = "idle" /\ ticker' = AfterList
  /\ UNCHANGED <<store, sch, coord, tasks, pub, after, intr, history, used, load>>

\* recoverPendingSessions, every two seconds: wake the lanes with queued
\* signals and look the session up; wake it if it has unprocessed events.
TickScan ==
  /\ ticker = "idle" /\ ticker' = AfterList
  /\ sch' \in SchedulePending(sch)
  /\ UNCHANGED <<store, coord, tasks, pub, after, intr, history, used, load>>

TickWake ==
  /\ ticker = "wake" /\ ticker' = IF load.periodic = {} THEN "idle" ELSE "sync"
  /\ sch' = Schedule(sch, Durable)
  /\ UNCHANGED <<store, coord, tasks, pub, after, intr, history, used, load>>

\* Mutation: a lane that is known already is left as it is.
TickSync_Known ==
  /\ ticker = "sync" /\ ticker' = "idle"
  /\ sch' = [sch EXCEPT !.periodic = [l \in Lanes |-> IF @[l] # "none" THEN @[l]
                                         ELSE SyncPeriodic(sch).periodic[l]]]
  /\ UNCHANGED <<store, coord, tasks, pub, after, intr, history, used, load>>

\* The scan enables the periodic lanes of the session it listed as active,
\* whatever became of it meanwhile.
TickSync ==
  /\ ticker = "sync" /\ ticker' = "idle"
  /\ sch' = SyncPeriodic(sch)
  /\ UNCHANGED <<store, coord, tasks, pub, after, intr, history, used, load>>

\* The specification cannot be loaded: the lanes count as inactive.
SyncFails ==
  /\ ticker = "sync" /\ ticker' = "prune" /\ Spend("faults", load.faults)
  /\ UNCHANGED <<store, sch, coord, tasks, pub, after, intr, history, load>>

\* Mutation: the lanes of sessions that are not active stay.
TickPrune_Keeps ==
  /\ ticker = "prune" /\ ticker' = "idle"
  /\ UNCHANGED <<store, sch, coord, tasks, pub, after, intr, history, used, load>>

\* The lanes the scan did not see active are removed.
TickPrune ==
  /\ ticker = "prune" /\ ticker' = "idle"
  /\ sch' = [sch EXCEPT !.periodic = NoPeriodic]
  /\ UNCHANGED <<store, coord, tasks, pub, after, intr, history, used, load>>

\* dispatchDuePeriodicLanes collects the lanes that are due; they are published
\* after the mutex is released, and the status of the session is not looked at.
LaneTick(due) ==
  /\ ticker = "idle" /\ ticker' = "publish"
  /\ due # {} /\ \A l \in due : sch.periodic[l] = "on" /\ latest[l][LaneSource] < load.signals
  /\ pub' = pub \cup {<<l, LaneSource>> : l \in due}
  /\ UNCHANGED <<store, sch, coord, tasks, after, intr, history, used, load>>

\* The process stops, or crashes, and a new one starts: only the store is
\* left.
Restart ==
  /\ "restart" \in load.controls /\ Spend("controls", load.changes)
  /\ sch' = Idle /\ coord' = [c \in Coordinators |-> NoRun]
  /\ tasks' = {} /\ pub' = {} /\ intr' = NoIntr /\ ticker' = "idle"
  /\ after' = [a \in Continuations |-> 0]
  /\ done' = latest /\ UNCHANGED <<store, latest, load>>

-----------------------------------------------------------------------------
Coordinate(c) ==
  \/ Pick(c) \/ Again(c) \/ View(c) \/ Drop(c) \/ Mark(c) \/ Prepare(c) \/ Read(c)
  \/ Bind(c) \/ Take(c) \/ Dispatch(c) \/ GiveBack(c) \/ Drain(c) \/ End(c)

Work(t) ==
  \/ Start(t) \/ Execute(t) \/ PrepareSignal(t) \/ LoadSignal(t) \/ Settle(t) \/ Retire(t)
  \/ \E u \in Updates : CommitSignal(t, u)
  \/ \E u \in Updates, n \in OutputCounts : CommitWork(t, u, n)

Calls ==
  \/ Wake \/ CancelCall("keep") \/ CancelCall("drop")
  \/ SetPeriodicActive("mute") \/ SetPeriodicActive("unmute")
  \/ InterruptRead \/ InterruptMark \/ InterruptCancel \/ InterruptFinish
  \/ \E l \in Lanes, src \in SigSources : Publish(l, src)

Tick == TickScan \/ TickWake \/ TickSync \/ TickPrune

Inputs ==
  \/ \E in \in Input : AppendEvent(in)
  \/ \E target \in Statuses : Transition(target)
  \/ \E l \in Lanes, src \in load.sources : PreparePublish(l, src)
  \/ InterruptBegin
  \/ Restart \/ SyncFails
  \/ \E due \in SUBSET load.periodic : LaneTick(due)
  \/ \E c \in Coordinators : LoadFails(c)
  \/ \E t \in tasks : CommitFails(t) \/ Deadline(t)

Next ==
  \/ Inputs \/ Calls \/ Tick
  \/ \E c \in Coordinators : Coordinate(c)
  \/ \E t \in tasks : Work(t)

\* Goroutines that can run do, the ticker fires, calls and handlers return.
\* Nothing is assumed of the environment: no call need ever be made.
Fairness ==
  /\ \A c \in Coordinators : WF_vars(Coordinate(c))
  /\ \A k \in Keys : WF_vars(\E t \in tasks : t.key = k /\ Work(t))
  /\ WF_vars(Calls) /\ WF_vars(Tick)

Spec == Init /\ [][Next]_vars
FairSpec == Spec /\ Fairness

-----------------------------------------------------------------------------
(* Properties.                                                             *)

\* The workload uses none of these controls.
Without(S) == load.controls \cap S = {}

\* A lane never has two tasks, from dispatch() to the end of runAsyncTask:
\* the document says of the runtime that one lane has at most one task.
OneTask(k) == Cardinality({t \in tasks : t.key = k}) <= 1
OneTaskPerLane == \A k \in Keys : OneTask(k)

\* A resume can start a second task beside the one the pause took back, when
\* the key was still in the work channel, and on the durable lane so can an
\* interrupt, which queues the key again.  Nothing else does: not an end, a
\* full queue, a failed load or a restart.
OneTaskUnlessRequeued ==
  Without({"active"}) =>
    \A k \in IF Without({"interrupt"}) THEN Keys ELSE Lanes : OneTask(k)

\* The job map never holds a job that nobody will take forward: it is in
\* flight, or its key is still in the work channel, or a coordinator has
\* claimed it, or the interrupting caller will release it.  scheduleLocked
\* only marks such a job dirty, so a job of this kind would silence its lane.
NoOrphanJob ==
  \A k \in Keys :
    LET job == sch.jobs[k] IN
    job # NoJob =>
      \/ job.inFlight /\ \E t \in tasks : t.id = job.id
      \/ \E i \in 1..Len(sch.work) : sch.work[i] = k
      \/ \E c \in Coordinators : coord[c].pc # "idle" /\ coord[c].job = job.id
      \/ intr.job = job.id

Kept ==
  /\ Without({"paused"}) /\ rec.status \notin Terminal
  /\ load.faults = 0 /\ (load.crowds = 0 \/ load.signals <= 1)

Held(l, src, n) ==
  \/ sch.signals[l][src] = n
  \/ \E c \in Coordinators :
       coord[c].key = l /\ coord[c].sig = [src |-> src, n |-> n]
  \/ \E t \in tasks :
       t.key = l /\ t.sig = [src |-> src, n |-> n] /\ t.pc # "retire"

\* The newest signal accepted from a source is evaluated, or found out of
\* date by the fence, or is still queued or held by a goroutine, as long as
\* the session has not ended or been paused and the process lives.  (A pause
\* keeps the signals of tasks, but not one that takeSignal has just returned.
\* A task that is canceled and then cannot load the record drops its signal.
\* When the task queue is full, the signal goes back after the job is gone: by
\* then a newer one may have been taken, and it is not put back over this one.)
NoSignalLost ==
  Kept =>
    \A l \in Lanes, src \in SigSources :
      latest[l][src] = done[l][src] \/ Held(l, src, latest[l][src])

\* Every unprocessed event of a session that stays active is processed: the
\* wakeup after the append or, failing that, the recovery scan gets to it.  (An
\* event whose handler exceeds the deadline of its lane is run again for ever.)
EventsProcessed ==
  Durable \notin load.deadlines =>
  (rec.status = "active" /\ rec.last > rec.processed)
    ~> (rec.status # "active" \/ rec.last = rec.processed)

\* Every signal that is queued leaves the queue while the session stays
\* active: it is evaluated, or replaced, once the journal is drained.
SignalsEvaluated ==
  \A l \in Lanes, src \in SigSources :
    (rec.status = "active" /\ sch.signals[l][src] # 0)
      ~> (rec.status # "active" \/ sch.signals[l][src] = 0)

\* The periodic lanes follow the session although pause, resume and the scan
\* change them in any order: once the calls are over, those of an active session
\* are enabled and stay so, those of a paused or ended one do not.
PeriodicLanesSettle ==
  <>[](\A l \in Lanes :
         sch.periodic[l] = "on" <=> rec.status = "active" /\ l \in load.periodic)

\* Nothing of an ended session stays in the scheduler: signals that a publisher
\* or a periodic lane brings late are thrown away with the job they made.
EndedLeavesNothing ==
  <>[](rec.status \in Terminal =>
         /\ sch.jobs = Idle.jobs /\ sch.signals = NoSignals /\ sch.periodic = NoPeriodic
         /\ tasks = {})
=============================================================================
