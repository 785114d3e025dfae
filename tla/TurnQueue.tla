----------------------------- MODULE TurnQueue -----------------------------
(***************************************************************************)
(* The turns of one chat session in internal/services/backend.  One token  *)
(* (session.gate) lets one turn or one command run at a time; a message    *)
(* that arrives meanwhile is queued, a queued message can be steered into  *)
(* the running turn, and the goroutine that ends a turn starts the next.   *)
(*                                                                         *)
(* A step is one critical section of the session's mutexes.  The files are *)
(* written after it, under no lock: the snapshot goes to saves, and lands  *)
(* on disk in a step of its own, while other goroutines go on and write    *)
(* the same files.  Crash and the load of the session start from disk.     *)
(*                                                                         *)
(* Abstractions.  A turn is its position in the records (no record is      *)
(* trimmed: persistedTurnLimit is 200), so a turn whose record never       *)
(* reached the disk leaves its number to the next.  A message is its       *)
(* identity; the transcript, events and timeline are left out, and with    *)
(* the timeline the search for an unfinished turn that has no record.      *)
(* Writes do not fail.  A snapshot is what its critical section leaves;    *)
(* the code takes it a moment later, with what others changed meanwhile,   *)
(* which makes a difference only to writes that overtake each other.       *)
(* Sessions are kept in JSON files, not in SQLite.                         *)
(***************************************************************************)
EXTENDS Integers, Sequences, FiniteSets, SequencesExt

CONSTANTS Msgs,        \* messages that clients submit
          Workloads,   \* what clients may do, see load
          MaxTurns, MaxItems  \* bounds: turns and queued items of a session

NoMsg == <<"none">>
\* The message recoverInterruptedTurn writes for turn i.
Recovery(i) == <<"recovery", i>>
Recoveries == {Recovery(i) : i \in 1..MaxTurns}
IsRecovery(m) == m \in Recoveries
AllMsgs == Msgs \cup Recoveries \cup {NoMsg}

ASSUME MsgsAssumption ==
  /\ Msgs \cap (Recoveries \cup {NoMsg}) = {}
  /\ {MaxTurns, MaxItems} \subseteq Nat
  /\ \A w \in Workloads :
       /\ w.msgs \subseteq Msgs /\ w.turns <= MaxTurns /\ w.items <= MaxItems
       /\ w.auto \in BOOLEAN /\ {w.turns, w.items, w.calls, w.crashes} \subseteq Nat

VARIABLES holder,    \* who has taken the token of session.gate, and where it is
          active,    \* session.active: the turn CancelTurn and steering find
          canceled,  \* turns whose context is canceled
          queue,     \* session.queue
          turns,     \* session.turns
          pend,      \* the agent's pendingResume
          disk,      \* the files: queue, turns, pending resume
          saves,     \* snapshots on their way to the files, the oldest first
          calls,     \* API calls between two of their steps
          after,     \* goroutines in startQueuedTurns, by the turn they ended
          items,     \* the ids given to queued items (nextTurnID)
          submitted, delivered, withdrawn,  \* history of messages
          started,   \* history: for each turn, how often its recovery was run
          overtaken, \* history: an older snapshot of a file has replaced a newer one
          load,      \* of this behaviour: the messages submitted, the API calls that
                     \* occur, how runs of the agent end, auto_resume_interrupted_turns
                     \* (auto), and bounds on turns, items, concurrent calls, crashes
          crashes

history == <<submitted, delivered, withdrawn, started>>
files == <<disk, saves, overtaken>>
memory == <<holder, active, canceled, queue, turns, pend, calls, after>>
vars == <<memory, files, items, history, crashes, load>>

Busy(kind, pc) ==
  [kind |-> kind, pc |-> pc, turn |-> 0, msg |-> NoMsg, item |-> 0, out |-> "none"]
Free == Busy("none", "free")
NoPend == [turn |-> 0, inj |-> <<>>]
Empty == [queue |-> <<>>, turns |-> <<>>, pend |-> NoPend]
Call(op, m, i) == [op |-> op, msg |-> m, turn |-> i]
\* Whose write it is: that of the goroutine with the token, of a call with nothing
\* else to do, or of a call that goes on afterwards.
Holder == Call("holder", NoMsg, 0)
Returning == Call("return", NoMsg, 0)
NoTurn == 0
\* Where a goroutine is in startQueuedTurns: not there, before peekQueued, or
\* with the id of the item it peeked.
Idle == -1
Peek == 0
AllIdle == [i \in 0..MaxTurns |-> Idle]

Init ==
  /\ holder = Free /\ active = NoTurn /\ canceled = {}
  /\ queue = <<>> /\ turns = <<>> /\ pend = NoPend
  /\ disk = Empty /\ saves = <<>> /\ overtaken = FALSE
  /\ calls = {} /\ after = AllIdle /\ items = 0
  /\ submitted = {} /\ delivered = {} /\ withdrawn = {}
  /\ started = [i \in 1..MaxTurns |-> 0] /\ crashes = 0
  /\ load \in Workloads

\* Snapshots that by writes one after the other.  Only a start after a crash reads
\* the files: behaviours without crashes do without them.
Save(by, snapshots) ==
  /\ saves' = IF load.crashes = 0 THEN saves
              ELSE saves \o [i \in DOMAIN snapshots |->
                               [by |-> by, files |-> snapshots[i], late |-> FALSE]]
  /\ UNCHANGED <<disk, overtaken>>
Saved(by) == \A k \in DOMAIN saves : saves[k].by # by

QueueFile == [queue |-> queue']
TurnsFile == [turns |-> turns']
\* persistSession: the checkpoint it begins with counts until the files are newer.
AllFiles == [queue |-> queue', turns |-> turns', pend |-> pend']

\* writeSessionQueue, writeSessionTurns, persistSession
SaveQueue(by) == Save(by, <<QueueFile>>)
SaveTurns(by) == Save(by, <<TurnsFile>>)
Persist == Save(Holder, <<AllFiles>>)

\* WriteJSONAtomic: a snapshot replaces the file, whatever the file holds.  One
\* that is still on its way when a newer one lands is late.
Land(k) ==
  LET w == saves[k] IN
  /\ w.by # Returning => \A j \in 1..k - 1 : saves[j].by # w.by
  /\ disk' = [f \in DOMAIN disk |-> IF f \in DOMAIN w.files THEN w.files[f] ELSE disk[f]]
  /\ saves' = [j \in 1..Len(saves) - 1 |->
                 IF j >= k THEN saves[j + 1]
                 ELSE [saves[j] EXCEPT !.late = @ \/ DOMAIN saves[j].files \cap DOMAIN w.files # {}]]
  /\ overtaken' = (overtaken \/ w.late)
  /\ UNCHANGED <<memory, items, history, crashes, load>>

Open == holder.kind # "load"
Can(op) == op \in load.ops /\ Open
\* OpenSession after loadSession: startQueuedTurns.
Opened == holder' = Free /\ after' = [after EXCEPT ![0] = Peek]
Item(n, m) == [id |-> n, msg |-> m]
MsgsOf(q) == {q[i].msg : i \in DOMAIN q}
Removed(q, item) == SelectSeq(q, LAMBDA x : x.id # item.id)
InFlight == Cardinality(calls) + Cardinality({k \in DOMAIN saves : saves[k].by = Returning})
NewCall(c) == InFlight < load.calls /\ calls' = calls \cup {c}
\* updateTurnStatus and addTurnInjection: without a record a status makes one,
\* an injection is dropped.
SetStatus(ts, i, status) ==
  IF i \in DOMAIN ts THEN [ts EXCEPT ![i].status = status]
  ELSE Append(ts, [msg |-> NoMsg, status |-> status, inj |-> <<>>])
AddInjection(ts, i, m) ==
  IF i \in DOMAIN ts THEN [ts EXCEPT ![i].inj = Append(@, m)] ELSE ts

-----------------------------------------------------------------------------
(* Submitting, cancelling and steering.                                    *)

\* SubmitAsync: the token if it is there, else the call goes on to enqueueTurn.
TryStart(m, others) ==
  \/ /\ holder = Free /\ Len(turns) < load.turns
     /\ holder' = [Busy("async", "start") EXCEPT !.msg = m]
     /\ calls' = others
  \/ /\ holder # Free
     /\ holder' = holder
     /\ calls' = others \cup {Call("enqueue", m, NoTurn)}

SubmitAsync(m) ==
  /\ Can("submit") /\ m \notin submitted /\ InFlight < load.calls
  /\ TryStart(m, calls)
  /\ submitted' = submitted \cup {m}
  /\ UNCHANGED <<active, canceled, queue, turns, pend, files, after, items, delivered,
                 withdrawn, started, crashes, load>>

\* enqueueTurn
Enqueue(c) ==
  /\ c.op = "enqueue" /\ items < load.items
  /\ queue' = Append(queue, Item(items + 1, c.msg)) /\ items' = items + 1
  /\ SaveQueue(Returning)
  /\ calls' = calls \ {c}
  /\ UNCHANGED <<holder, active, canceled, turns, pend, after, history, crashes,
                 load>>

\* Submit waits for the token and keeps it until the turn is over.
Submit(m) ==
  /\ Can("sync") /\ m \notin submitted /\ holder = Free /\ Len(turns) < load.turns
  /\ holder' = [Busy("sync", "start") EXCEPT !.msg = m]
  /\ submitted' = submitted \cup {m}
  /\ UNCHANGED <<active, canceled, queue, turns, pend, files, calls, after, items,
                 delivered, withdrawn, started, crashes, load>>

CancelQueuedTurn(item) ==
  /\ Can("unqueue")
  /\ queue' = Removed(queue, item)
  /\ SaveQueue(Returning)
  /\ withdrawn' = withdrawn \cup {item.msg}
  /\ UNCHANGED <<holder, active, canceled, turns, pend, calls, after, items,
                 submitted, delivered, started, crashes, load>>

\* SteerQueuedTurn: out of the queue, then into the turn that is active.  The bound
\* leaves an item for every message, which may have to be queued again.
SteerQueuedTurn(item) ==
  /\ Can("steer") /\ items + Cardinality(load.msgs) <= load.items
  /\ queue' = Removed(queue, item)
  /\ SaveQueue(Call("inject", item.msg, NoTurn))
  /\ NewCall(Call("inject", item.msg, NoTurn))
  /\ UNCHANGED <<holder, active, canceled, turns, pend, after, items, history,
                 crashes, load>>

\* injectActiveTurn up to the read of session.active; no turn means SubmitAsync.
InjectActiveTurn(c) ==
  /\ c.op = "inject"
  /\ \/ /\ active = NoTurn
        /\ TryStart(c.msg, calls \ {c})
     \/ /\ active # NoTurn
        /\ calls' = (calls \ {c}) \cup {Call("add", c.msg, active)}
        /\ holder' = holder
  /\ UNCHANGED <<active, canceled, queue, turns, pend, files, after, items, history,
                 crashes, load>>

\* injectActiveTurn from addTurnInjection on
Inject(c) ==
  /\ c.op = "add"
  /\ turns' = AddInjection(turns, c.turn, c.msg)
  /\ SaveTurns(Returning)
  /\ calls' = calls \ {c}
  /\ UNCHANGED <<holder, active, canceled, queue, pend, after, items, history,
                 crashes, load>>

\* CancelTurn: the context is canceled first, the record is marked after.
CancelTurn ==
  /\ Can("cancel") /\ active # NoTurn
  /\ canceled' = canceled \cup {active}
  /\ NewCall(Call("mark", NoMsg, active))
  /\ UNCHANGED <<holder, active, queue, turns, pend, files, after, items, history,
                 crashes, load>>

MarkCanceling(c) ==
  /\ c.op = "mark"
  /\ turns' = SetStatus(turns, c.turn, "canceling")
  /\ SaveTurns(Returning)
  /\ calls' = calls \ {c}
  /\ UNCHANGED <<holder, active, canceled, queue, pend, after, items, history,
                 crashes, load>>

-----------------------------------------------------------------------------
(* The other holders of the token.                                         *)

\* ExecuteCommand, ClearMessages, PostRuntimeReply, DenyPermission and others
\* take the token, work and give it back; none of them looks at the queue.
TakeGate(kind) ==
  /\ Can(kind) /\ holder = Free
  /\ holder' = Busy(kind, "op")
  /\ UNCHANGED <<active, canceled, queue, turns, pend, files, calls, after, items,
                 history, crashes, load>>

EndCommand ==
  /\ holder.pc = "op"
  /\ holder' = [holder EXCEPT !.pc = "done"]
  /\ queue' = IF holder.kind = "clear" THEN <<>> ELSE queue
  /\ withdrawn' = IF holder.kind = "clear" THEN withdrawn \cup MsgsOf(queue) ELSE withdrawn
  /\ pend' = IF holder.kind \in {"clear", "deny"} THEN NoPend ELSE pend
  /\ turns' = turns /\ Persist
  /\ UNCHANGED <<active, canceled, calls, after, items, submitted, delivered, started,
                 crashes, load>>

\* The token goes back, or the session is open, when everything is written.
Return ==
  /\ holder.pc = "done"
  /\ IF holder.kind = "load" THEN Opened ELSE holder' = Free /\ after' = after
  /\ UNCHANGED <<active, canceled, queue, turns, pend, files, calls, items, history,
                 crashes, load>>

\* Where a run begins: without its engine it is at its end.
Begin == {"run"} \cup (IF "unavailable" \in load.outcomes THEN {"ended"} ELSE {})

\* ApprovePermission, resumePendingTurnLocked: under a new turn id, whose record
\* does not exist yet, so the saved injections find no record.
ApprovePermission ==
  /\ Can("approve") /\ holder = Free /\ pend # NoPend /\ Len(turns) < load.turns
  /\ \E pc \in Begin :
       holder' = [Busy("resume", pc) EXCEPT !.turn = Len(turns) + 1]
  /\ turns' = FoldLeft(LAMBDA ts, m : AddInjection(ts, Len(turns) + 1, m), turns, pend.inj)
  /\ pend' = NoPend
  /\ UNCHANGED <<active, canceled, queue, files, calls, after, items, history, crashes,
                 load>>

\* RetryTurnAsync
RetryTurn ==
  /\ Can("retry") /\ holder = Free /\ Len(turns) \in 1..load.turns - 1
  /\ Last(turns).status \in {"canceled", "error", "interrupted"} /\ Last(turns).msg # NoMsg
  /\ holder' = [Busy("async", "start") EXCEPT !.msg = Last(turns).msg]
  /\ pend' = NoPend
  /\ UNCHANGED <<active, canceled, queue, turns, files, calls, after, items, history,
                 crashes, load>>

\* ResumeTurnAsync
ResumeTurn ==
  /\ Can("resume") /\ holder = Free /\ turns # <<>>
  /\ Last(turns).status = "interrupted" /\ Last(turns).msg # NoMsg
  /\ holder' = [Busy("async", "begin") EXCEPT !.turn = Len(turns)]
  /\ turns' = SetStatus(turns, Len(turns), "running")
  /\ pend' = NoPend /\ queue' = queue /\ Persist
  /\ UNCHANGED <<active, canceled, calls, after, items, submitted, delivered, withdrawn,
                 started, crashes, load>>

-----------------------------------------------------------------------------
(* A turn, from the token to its release.                                  *)

\* startUserTurnLocked.  The permission a blocked turn waits for may have expired:
\* that drops its resume.
StartTurn ==
  /\ holder.pc = "start"
  /\ pend' \in {pend, NoPend}
  /\ holder' = [holder EXCEPT !.pc = "begin", !.turn = Len(turns) + 1]
  /\ turns' = Append(turns, [msg |-> holder.msg, status |-> "running", inj |-> <<>>])
  /\ queue' = queue
  /\ Save(Holder, IF holder.kind = "async" THEN <<TurnsFile, AllFiles>> ELSE <<TurnsFile>>)
  /\ UNCHANGED <<active, canceled, calls, after, items, history, crashes, load>>

\* The record is written.  Asynchronous callers set the active turn, and the run
\* begins: an engine that is not registered ends it at once.
BeginTurn ==
  /\ holder.pc = "begin"
  /\ \E pc \in Begin : holder' = [holder EXCEPT !.pc = pc]
  /\ active' = IF holder.kind = "async" THEN holder.turn ELSE active
  /\ started' = IF holder.item > 0 /\ IsRecovery(holder.msg)
                THEN [started EXCEPT ![holder.msg[2]] = @ + 1] ELSE started
  /\ UNCHANGED <<canceled, queue, turns, pend, files, calls, after, items, submitted,
                 delivered, withdrawn, crashes, load>>

\* startUserTurnLocked fails before it has recorded the turn: the caller, or an
\* error event, reports it.
StartFails ==
  /\ "refused" \in load.outcomes /\ holder.pc = "start"
  /\ holder' = Free
  /\ withdrawn' = withdrawn \cup {holder.msg}
  /\ UNCHANGED <<active, canceled, queue, turns, pend, files, calls, after, items,
                 submitted, delivered, started, crashes, load>>

\* DrainInjections: up to a limit, injections become messages of the transcript.
DrainInjections ==
  /\ holder.pc = "run" /\ Saved(Holder) /\ holder.turn \in DOMAIN turns
  /\ LET inj == turns[holder.turn].inj IN
     \E k \in 1..Len(inj) :
       /\ delivered' = delivered \cup Range(SubSeq(inj, 1, k))
       /\ turns' = [turns EXCEPT ![holder.turn].inj = SubSeq(inj, k + 1, Len(inj))]
  /\ SaveTurns(Holder)
  /\ UNCHANGED <<holder, active, canceled, queue, pend, calls, after, items,
                 submitted, withdrawn, started, crashes, load>>

\* checkpointRunningTurn
Checkpoint ==
  /\ "checkpoint" \in load.ops /\ holder.pc = "run" /\ Saved(Holder)
  /\ turns' = SetStatus(turns, holder.turn, "running")
  /\ queue' = queue /\ pend' = pend /\ Persist
  /\ UNCHANGED <<holder, active, canceled, calls, after, items, history, crashes,
                 load>>

Injections(i) == IF i \in DOMAIN turns THEN turns[i].inj ELSE <<>>

\* promoteTurnInjectionsToQueue
Promote(q, inj) == q \o [k \in DOMAIN inj |-> Item(items + k, inj[k])]

\* finishAgentTurnLocked: the run returns, the resume state is set or cleared,
\* and injections nobody drained become queued items.
RunReturns(out) ==
  /\ holder.pc = "run"
  /\ out \in load.outcomes \cap {"completed", "error", "canceled", "pending_approval"}
  /\ out = "canceled" => holder.turn \in canceled
  /\ holder' = [holder EXCEPT !.pc = "status", !.out = out]
  /\ LET inj == Injections(holder.turn) IN
     IF out = "pending_approval"
     THEN /\ pend' = [turn |-> holder.turn, inj |-> inj]
          /\ UNCHANGED <<queue, turns, files, items>>
     ELSE /\ pend' = NoPend /\ items + Len(inj) <= load.items
          /\ queue' = Promote(queue, inj) /\ items' = items + Len(inj)
          /\ turns' = IF inj = <<>> THEN turns ELSE [turns EXCEPT ![holder.turn].inj = <<>>]
          /\ SaveQueue(Holder)
  /\ UNCHANGED <<active, canceled, calls, after, history, crashes, load>>

\* Mutation: a canceled turn returns before its deferred function is set up.
FinishTurn_Stuck ==
  /\ holder.pc = "status" /\ holder.out # "canceled"
  /\ holder' = [holder EXCEPT !.pc = "ended"]
  /\ turns' = SetStatus(turns, holder.turn, holder.out)
  /\ queue' = queue /\ pend' = pend /\ Save(Holder, <<TurnsFile, AllFiles>>)
  /\ UNCHANGED <<active, canceled, calls, after, items, submitted, delivered,
                 withdrawn, started, crashes, load>>

\* finishAgentTurnLocked: status of the record, then everything is persisted.
FinishTurn ==
  /\ holder.pc = "status"
  /\ holder' = [holder EXCEPT !.pc = "ended"]
  /\ turns' = SetStatus(turns, holder.turn, holder.out)
  /\ queue' = queue /\ pend' = pend /\ Save(Holder, <<TurnsFile, AllFiles>>)
  /\ UNCHANGED <<active, canceled, calls, after, items, submitted, delivered,
                 withdrawn, started, crashes, load>>

\* Mutation: the token goes back before the active turn is cleared.
ClearActive_Late ==
  /\ holder.pc = "ended"
  /\ holder' = IF holder.kind = "async" THEN [holder EXCEPT !.pc = "release"] ELSE Free
  /\ UNCHANGED <<active, canceled, queue, turns, pend, files, calls, after, items,
                 history, crashes, load>>

\* clearActiveTurn, in the deferred function of an asynchronous turn
ClearActive ==
  /\ holder.pc = "ended"
  /\ holder' = IF holder.kind = "async" THEN [holder EXCEPT !.pc = "release"] ELSE Free
  /\ active' = IF active = holder.turn THEN NoTurn ELSE active
  /\ UNCHANGED <<canceled, queue, turns, pend, files, calls, after, items, history,
                 crashes, load>>

\* Mutation: the deferred function does not start the queue.
Release_Quiet ==
  /\ holder.pc = "release"
  /\ holder' = Free
  /\ UNCHANGED <<active, canceled, queue, turns, pend, files, calls, after, items,
                 history, crashes, load>>

Release ==
  /\ holder.pc = "release"
  /\ holder' = Free
  /\ after' = [after EXCEPT ![holder.turn] = Peek]
  /\ UNCHANGED <<active, canceled, queue, turns, pend, files, calls, items, history,
                 crashes, load>>

-----------------------------------------------------------------------------
(* startQueuedTurns                                                        *)

PeekQueued(i) ==
  /\ after[i] = Peek
  /\ after' = [after EXCEPT ![i] = IF queue = <<>> THEN Idle ELSE Head(queue).id]
  /\ UNCHANGED <<holder, active, canceled, queue, turns, pend, files, calls, items,
                 history, crashes, load>>

\* tryAcquire: without the token the goroutine is done.
TakeForQueued(i) ==
  /\ after[i] > Peek /\ Len(turns) < load.turns
  /\ after' = [after EXCEPT ![i] = Idle]
  /\ holder' = IF holder = Free THEN [Busy("async", "drop") EXCEPT !.item = after[i]] ELSE holder
  /\ UNCHANGED <<active, canceled, queue, turns, pend, files, calls, items, history,
                 crashes, load>>

\* Mutation: the head is dropped whatever was peeked.
DropQueued_Head ==
  /\ holder.pc = "drop"
  /\ IF queue # <<>>
     THEN /\ queue' = Tail(queue) /\ SaveQueue(Holder)
          /\ holder' = [holder EXCEPT !.pc = "start",
                          !.msg = IF Head(queue).id = holder.item THEN Head(queue).msg ELSE NoMsg]
     ELSE holder' = Free /\ UNCHANGED <<queue, files>>
  /\ UNCHANGED <<active, canceled, turns, pend, calls, after, items, history, crashes,
                 load>>

\* Mutation: the item stays in the queue.
DropQueued_Kept ==
  /\ holder.pc = "drop"
  /\ holder' = IF queue # <<>> /\ Head(queue).id = holder.item
               THEN [holder EXCEPT !.pc = "start", !.msg = Head(queue).msg] ELSE Free
  /\ UNCHANGED <<active, canceled, queue, turns, pend, files, calls, after, items,
                 history, crashes, load>>

\* dropQueued: only if the head is still the item that was peeked.
DropQueued ==
  /\ holder.pc = "drop"
  /\ IF queue # <<>> /\ Head(queue).id = holder.item
     THEN /\ queue' = Tail(queue) /\ SaveQueue(Holder)
          /\ holder' = [holder EXCEPT !.pc = "start", !.msg = Head(queue).msg]
     ELSE holder' = Free /\ UNCHANGED <<queue, files>>
  /\ UNCHANGED <<active, canceled, turns, pend, calls, after, items, history, crashes,
                 load>>

-----------------------------------------------------------------------------
(* The process stops, and the session is opened again.                     *)

\* Calls in flight fail with the process, as their callers see.
Crash ==
  /\ crashes < load.crashes /\ crashes' = crashes + 1
  /\ holder' = Busy("load", "mark")
  /\ active' = NoTurn /\ canceled' = {} /\ calls' = {} /\ after' = AllIdle /\ saves' = <<>>
  /\ queue' = disk.queue /\ turns' = disk.turns /\ pend' = disk.pend
  /\ withdrawn' = withdrawn \cup ({c.msg : c \in calls} \ {NoMsg})
  /\ UNCHANGED <<disk, overtaken, items, submitted, delivered, started, load>>

\* interruptedTurnIDFromRecords: the latest record that did not end.
Unfinished == {i \in DOMAIN turns : turns[i].status \in {"running", "canceling"}}
Interrupted == CHOOSE i \in Unfinished : \A j \in Unfinished : j <= i

\* recoverInterruptedTurn up to its writeSessionTurns
MarkInterrupted ==
  /\ holder.pc = "mark"
  /\ IF Unfinished = {}
     THEN Opened /\ UNCHANGED <<turns, files>>
     ELSE /\ holder' = [holder EXCEPT !.pc = "recover", !.turn = Interrupted]
          /\ turns' = SetStatus(turns, Interrupted, "interrupted")
          /\ SaveTurns(Holder) /\ UNCHANGED after
  /\ UNCHANGED <<active, canceled, queue, pend, calls, items, history, crashes, load>>

\* Mutation: recoveries are recovered too.
Recoverable_Chain(i) == load.auto /\ Recovery(i) \notin MsgsOf(queue)

\* hasQueuedRecoveryFor, isRecoveryTurnRecord
Recoverable(i) ==
  load.auto /\ Recovery(i) \notin MsgsOf(queue) /\ ~IsRecovery(turns[i].msg)

\* recoverInterruptedTurn from there on
RecoverInterrupted ==
  /\ holder.pc = "recover" /\ turns' = turns /\ pend' = pend
  /\ IF Recoverable(holder.turn)
     THEN /\ items < load.items /\ items' = items + 1
          /\ queue' = Append(queue, Item(items + 1, Recovery(holder.turn)))
          /\ Save(Holder, <<QueueFile, AllFiles>>)
     ELSE UNCHANGED <<queue, items>> /\ Persist
  /\ holder' = [holder EXCEPT !.pc = "done"]
  /\ UNCHANGED <<active, canceled, calls, after, history, crashes, load>>

-----------------------------------------------------------------------------
\* What clients and the operating system do.
Environment ==
  \/ \E m \in load.msgs : SubmitAsync(m) \/ Submit(m)
  \/ \E k \in DOMAIN queue : CancelQueuedTurn(queue[k]) \/ SteerQueuedTurn(queue[k])
  \/ CancelTurn \/ ApprovePermission \/ RetryTurn \/ ResumeTurn \/ Crash
  \/ \E kind \in {"command", "clear", "deny"} : TakeGate(kind)
  \/ DrainInjections \/ Checkpoint

\* What the goroutines of the service do on their own.
HolderStep ==
  /\ Saved(Holder)
  /\ \/ StartTurn \/ StartFails \/ BeginTurn \/ FinishTurn \/ ClearActive \/ Release
     \/ \E out \in load.outcomes : RunReturns(out)
     \/ DropQueued \/ EndCommand \/ Return \/ MarkInterrupted \/ RecoverInterrupted
CallStep ==
  \E c \in calls :
    Saved(c) /\ (Enqueue(c) \/ InjectActiveTurn(c) \/ Inject(c) \/ MarkCanceling(c))
Write == \E k \in DOMAIN saves : Land(k)
StarterStep(i) == PeekQueued(i) \/ TakeForQueued(i)

Next == Environment \/ HolderStep \/ CallStep \/ Write \/ \E i \in 0..MaxTurns : StarterStep(i)

Spec == Init /\ [][Next]_vars

\* Goroutines and calls that can go on do, every write lands, and every run of the
\* agent returns: strongly fair, since no run makes checkpoints for ever.
FairSpec ==
  /\ Spec
  /\ SF_vars(HolderStep) /\ WF_vars(CallStep) /\ WF_vars(Write)
  /\ \A i \in 0..MaxTurns : WF_vars(StarterStep(i))

-----------------------------------------------------------------------------
(* Properties                                                              *)

\* The behaviour has none of the given calls.
Without(S) == load.ops \cap S = {}

\* The turn that CancelTurn and steering find in session.active is the one that
\* holds the token: clearActiveTurn comes before release on every path, so a
\* late cancel or steer never reaches a turn that another one has replaced.
ActiveHoldsGate ==
  active # NoTurn =>
    /\ holder.kind = "async" /\ holder.turn = active
    /\ holder.pc \in {"run", "status", "ended"}

TurnMsgs == {turns[i].msg : i \in DOMAIN turns}
RunningInjections ==
  IF holder.pc = "run" THEN Range(Injections(holder.turn)) ELSE {}
Waiting == MsgsOf(queue) \cup {c.msg : c \in calls}
             \cup (IF holder.pc = "start" THEN {holder.msg} ELSE {})

\* An accepted message waits, was run as a turn, was given to a turn that can
\* still read it, or was withdrawn with its sender's knowledge: the queue, the
\* calls between two of their steps and the goroutines that take the head never
\* drop one between them ("so the message is not lost", SteerQueuedTurn).
MessagesKept ==
  submitted \subseteq Waiting \cup TurnMsgs \cup delivered \cup withdrawn
                        \cup RunningInjections \cup Range(pend.inj)

\* It is so as long as no queued message is steered and the process does not stop
\* between dropQueued and the record of the turn.
NoMessageLost == Without({"steer"}) /\ load.crashes = 0 => MessagesKept

\* A message is not in the queue twice, and one that waits there has not been
\* run or delivered already: peekQueued and dropQueued of several goroutines
\* together start each item once, and so do those of the processes before and
\* after a crash.  It is so unless
\*  - an older snapshot of the queue has replaced a newer one: the item that was
\*    taken in between is back after a crash;
\*  - messages are steered and turns resumed by hand: a crash between the write of
\*    the queue the injections went back to and that of the turns leaves them in
\*    both, and a turn that is resumed drains its own.
NoMessageTwice ==
  ~overtaken /\ (Without({"steer"}) \/ Without({"resume"})) =>
    /\ \A j, k \in DOMAIN queue : queue[j].msg = queue[k].msg => j = k
    /\ (MsgsOf(queue) \cup {c.msg : c \in calls}) \cap Msgs \cap (TurnMsgs \cup delivered) = {}

\* "Each original turn therefore gets at most one automatic resume attempt"
\* (recoverInterruptedTurn): however often the process stops, and whatever is
\* submitted meanwhile, the recovery of a turn is run at most once, and recoveries
\* are not recovered.  It is so unless
\*  - an older snapshot of a file has replaced a newer one: a SubmitAsync that took
\*    its snapshot of the queue before the recovery was dropped from it, and wrote
\*    it after, brings the recovery back;
\*  - the turn is resumed by hand while its recovery waits in the queue, and the
\*    recovery is steered into it or its engine is not there, which leaves its
\*    record running; or it is resumed by hand and canceled.
RecoveredOnce ==
  /\ ~overtaken /\ Without({"cancel"})
  /\ Without({"resume"}) \/ (Without({"steer"}) /\ "unavailable" \notin load.outcomes)
  => /\ \A i \in 1..MaxTurns : started[i] <= 1
     /\ \A i \in 1..MaxTurns : Recovery(i) \in Waiting =>
          i \in DOMAIN turns /\ ~IsRecovery(turns[i].msg)

\* The token always comes back: no path of a turn, a queued start that finds
\* another head, a command, a failed start or a recovery keeps the session busy
\* for ever.
TokenReturns == holder # Free ~> holder = Free

\* A message queued while an asynchronous turn runs is started: the goroutine
\* that ends the turn, or one that took the token before it, gets to it, unless a
\* command or a synchronous turn, which start nothing, take the token in between
\* or the process stops.
QueuedDuringTurnStarts ==
  \A m \in Msgs :
    (/\ load.ops \subseteq {"submit", "cancel"} /\ load.crashes = 0
     /\ m \in MsgsOf(queue) /\ holder.kind = "async" /\ holder.pc \in {"run", "status", "ended"})
      ~> m \notin MsgsOf(queue)

\* A queued message is started ("expected queued follow-up to run after first
\* turn", TestSubmitAsyncFollowUpRunsAfterQueued).
QueuedStarts == \A m \in Msgs : m \in MsgsOf(queue) ~> m \notin MsgsOf(queue)
=============================================================================
