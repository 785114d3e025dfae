--------------------------- MODULE FlowSessionStore ---------------------------
(***************************************************************************)
(* The store of one FlowSession: summary.json, the events.jsonl journal,   *)
(* the lock every call holds from beginning to end, and the calls of       *)
(* internal/agent/flow_session_store.go, broken into steps at every write  *)
(* of a file.  A call can fail at each of them, an append can be torn, and *)
(* the process can crash between any two of them.                          *)
(*                                                                         *)
(* A call runs through these stages:                                       *)
(*   load     summary read, end of the journal not yet looked at           *)
(*   sync     outbox being flushed, event ahead of the summary adopted     *)
(*   run      record loaded, the call's own checks come next               *)
(*   summary  event journaled, summary not yet rewritten                   *)
(*   outbox   summary committed, outputs being flushed to the journal      *)
(***************************************************************************)
EXTENDS FlowSessionRecord

CONSTANTS Workers,      \* goroutines that prepare and commit work
          Bounds        \* bounds: a call is made only if the client events,
                        \* the sequences and the generation it leads to
                        \* stay within one of them

ASSUME BoundsAssumption ==
  Bounds \subseteq [inputs : SUBSET Input, events : Nat, gen : Nat]

VARIABLES journal,      \* the complete records of events.jsonl
          tail,         \* what follows them: nothing, a part of a record, or
                        \* (unterminated) the last record lacks its newline
          disk,         \* summary.json
          mem,          \* the record the current call works on
          call,         \* the call holding the session lock
          stage,        \* how far it is
          work          \* what each worker holds between its calls

vars == <<journal, tail, disk, mem, call, stage, work>>

NoCall == [op |-> "none"]
Targets == {"active", "paused", "completed", "canceled"}

Calls ==
       {NoCall}
  \cup [op : {"append"}, in : Input]
  \cup [op : {"transition"}, target : Targets]
  \cup [op : {"prepare", "read", "sample", "checkpoint", "cancel"}, w : Workers]
  \cup [op : {"signal"}, w : Workers, updates : BOOLEAN]
  \cup [op : {"commit"}, w : Workers, updates : BOOLEAN, n : OutputCounts]

Init ==
  /\ journal = <<>> /\ tail = "clean"
  /\ disk = NewRecord /\ mem = NewRecord
  /\ call = NoCall /\ stage = "idle"
  /\ work = [w \in Workers |-> NoItem]

-----------------------------------------------------------------------------
(* The journal file.                                                       *)

LastSeq == IF journal = <<>> THEN 0 ELSE journal[Len(journal)].seq

\* The outbox events the journal does not hold yet (the others are skipped).
Unflushed == {i \in DOMAIN mem.pending : mem.pending[i].seq > LastSeq}

\* The first of them.  One that does not follow the journal is an error
\* instead: the call can then only fail.
NextOutput ==
  {mem.pending[i] : i \in {i \in Unflushed : /\ \A j \in Unflushed : i <= j
                                             /\ mem.pending[i].seq = LastSeq + 1}}

\* The event the current call is about to append, if any.
Writing ==
  CASE stage \in {"sync", "outbox"} -> NextOutput
    [] stage = "run" /\ call.op = "append" /\ CanAppend(mem, call.in)
         -> {ClientEvent(mem, call.in)}
    [] stage = "run" /\ call.op = "transition" /\ CanTransition(mem, call.target)
         -> {LifecycleEvent(mem, call.target)}
    [] OTHER -> {}

-----------------------------------------------------------------------------
(* Beginning and end of a call.                                            *)

Return ==
  /\ stage' = "idle" /\ call' = NoCall /\ mem' = disk'

\* The worker's item is gone once its result was taken or refused.
Consumed ==
  IF call.op \in {"read", "checkpoint", "commit", "signal"}
  THEN [work EXCEPT ![call.w] = NoItem] ELSE work

\* The record the next load will produce, whatever was left half done.
Effective ==
  IF disk.pending # <<>> THEN [disk EXCEPT !.pending = <<>>]
  ELSE IF LastSeq > disk.last THEN Adopted(disk, journal[Len(journal)])
  ELSE disk

EffectiveLog ==
  IF disk.pending # <<>>
  THEN SubSeq(journal, 1, disk.last - Len(disk.pending)) \o disk.pending
  ELSE journal

\* The client events journaled so far.
Clients ==
  {[source |-> e.source, sseq |-> e.sseq, type |-> e.type] :
     e \in {journal[i] : i \in {i \in DOMAIN journal : journal[i].source \in Sources}}}

Within(inputs, n, turns) ==
  \E b \in Bounds : /\ inputs \cup Clients \subseteq b.inputs
                    /\ Effective.last + n <= b.events
                    /\ Effective.gen + turns <= b.gen

Requested ==
  \/ \E in \in Input : Within({in}, 1, 0) /\ call' = [op |-> "append", in |-> in]
  \/ \E t \in Targets : Within({}, 1, 1) /\ call' = [op |-> "transition", target |-> t]
  \/ \E w \in Workers :
       \/ /\ work[w].phase = "none"
          /\ call' \in [op : {"prepare", "sample"}, w : {w}]
       \/ work[w].phase = "loaded" /\ call' = [op |-> "read", w |-> w]
       \/ /\ work[w].phase = "signal" /\ Within({}, 0, 1)
          /\ call' \in [op : {"signal"}, w : {w}, updates : BOOLEAN]
       \/ /\ work[w].phase = "event" /\ work[w].godex /\ Within({}, 0, 1)
          /\ call' = [op |-> "checkpoint", w |-> w]
       \/ /\ work[w].phase = "event" /\ ~work[w].godex /\ Within({}, 0, 1)
          /\ \/ call' = [op |-> "cancel", w |-> w]
             \/ \E u \in BOOLEAN, n \in OutputCounts :
                  /\ ~u => n = 0        \* a failed run has no outputs
                  /\ Within({}, n, 1)
                  /\ call' = [op |-> "commit", w |-> w, updates |-> u, n |-> n]

Enter ==
  /\ stage = "idle" /\ Requested
  /\ stage' = "load" /\ mem' = disk
  /\ UNCHANGED <<journal, tail, disk, work>>

-----------------------------------------------------------------------------
(* loadFlowSessionLocked.                                                  *)

\* readLastFlowSessionEvent cuts a partial record off and supplies a
\* missing newline.
ReadTail ==
  /\ stage = "load"
  /\ tail' = "clean" /\ stage' = "sync"
  /\ UNCHANGED <<journal, disk, mem, call, work>>

\* flushPendingFlowSessionOutputEventsLocked, one append at a time.
FlushOne ==
  /\ stage \in {"sync", "outbox"}
  /\ \E ev \in Writing : journal' = Append(journal, ev)
  /\ UNCHANGED <<tail, disk, mem, call, stage, work>>

\* Mutation: the outbox is emptied before all of it is in the journal.
FlushDone_Early ==
  /\ stage \in {"sync", "outbox"} /\ mem.pending # <<>>
  /\ disk' = [mem EXCEPT !.pending = <<>>]
  /\ mem' = disk'
  /\ stage' = IF stage = "outbox" THEN "idle" ELSE stage
  /\ call' = IF stage = "outbox" THEN NoCall ELSE call
  /\ UNCHANGED <<journal, tail, work>>

\* Its last write empties the outbox.  After a commit that ends the call.
FlushDone ==
  /\ stage \in {"sync", "outbox"} /\ mem.pending # <<>> /\ Unflushed = {}
  /\ disk' = [mem EXCEPT !.pending = <<>>]
  /\ mem' = disk'
  /\ stage' = IF stage = "outbox" THEN "idle" ELSE stage
  /\ call' = IF stage = "outbox" THEN NoCall ELSE call
  /\ UNCHANGED <<journal, tail, work>>

\* recoverFlowSessionTailLocked.
RecoverTail ==
  /\ stage = "sync" /\ mem.pending = <<>> /\ LastSeq = mem.last + 1
  /\ disk' = Adopted(mem, journal[Len(journal)])
  /\ mem' = disk'
  /\ UNCHANGED <<journal, tail, call, stage, work>>

\* The summary is rewritten only if the clamps changed it.
LoadDone ==
  /\ stage = "sync" /\ mem.pending = <<>> /\ LastSeq <= mem.last
  /\ mem' = Normalised(mem)
  /\ disk' = IF mem' # mem THEN mem' ELSE disk
  /\ stage' = "run"
  /\ UNCHANGED <<journal, tail, call, work>>

-----------------------------------------------------------------------------
(* The calls themselves, after the load.                                   *)

\* appendFlowSessionEvent, transitionFlowSession: journal first.
JournalEvent ==
  /\ stage = "run" /\ call.op \in {"append", "transition"}
  /\ \E ev \in Writing :
       /\ journal' = Append(journal, ev)
       /\ mem' = IF call.op = "append" THEN Appended(mem, ev)
                 ELSE Transitioned(mem, call.target, ev)
  /\ stage' = "summary"
  /\ UNCHANGED <<tail, disk, call, work>>

\* ... and the summary after it.
WriteSummary ==
  /\ stage = "summary"
  /\ disk' = mem
  /\ Return
  /\ UNCHANGED <<journal, tail, work>>

\* PrepareFlowSessionWork, first lock region; ProcessFlowSessionSignal.
TakeSnapshot ==
  /\ stage = "run"
  /\ \/ call.op = "prepare" /\ mem.status = "active"
     \/ call.op = "sample" /\ mem.last <= mem.processed
  /\ work' = [work EXCEPT ![call.w] =
                Snapshot(mem, IF call.op = "prepare" THEN "loaded" ELSE "signal")]
  /\ UNCHANGED <<journal, tail, disk>>
  /\ Return

\* PrepareFlowSessionWork, second lock region: flowSessionEvents.
ReadEvent ==
  /\ stage = "run" /\ call.op = "read"
  /\ work' = [work EXCEPT ![call.w] = WithEvent(work[call.w], journal)]
  /\ UNCHANGED <<journal, tail, disk>>
  /\ Return

\* checkpointFlowSessionCursor, cancelFlowSessionWork,
\* checkpointFlowSessionSignal: one atomic rewrite of the summary.
\* A canceled item stays with its worker.
Finish ==
  /\ stage = "run"
  /\ LET item == work[call.w] IN
     \/ /\ call.op = "checkpoint" /\ CanCommit(mem, item)
        /\ disk' = Checkpointed(mem, item)
     \/ /\ call.op = "cancel" /\ CanCommit(mem, item)
        /\ disk' = Canceled(mem, item)
     \/ /\ call.op = "signal" /\ CanSignal(mem, item)
        /\ disk' = Signaled(mem, item, call.updates)
  /\ Return
  /\ work' = Consumed
  /\ UNCHANGED <<journal, tail>>

\* commitFlowSessionProgress: state, cursor and outbox in one summary; the
\* outputs are flushed before the call returns.
CommitProgress ==
  /\ stage = "run" /\ call.op = "commit" /\ CanCommit(mem, work[call.w])
  /\ disk' = Committed(mem, work[call.w], call.updates, call.n)
  /\ mem' = disk'
  /\ stage' = IF call.n = 0 THEN "idle" ELSE "outbox"
  /\ call' = IF call.n = 0 THEN NoCall ELSE call
  /\ work' = Consumed
  /\ UNCHANGED <<journal, tail>>

\* What the checks of a call refuse: a replay (answered with the receipt of
\* the first submission), an older sequence, a full session, a transition
\* that is not allowed or has nothing to do, a stale result.
Refuse ==
  /\ stage = "run"
  /\ \/ call.op = "append" /\ ~CanAppend(mem, call.in)
     \/ call.op = "transition" /\ ~CanTransition(mem, call.target)
     \/ call.op = "prepare" /\ mem.status # "active"
     \/ call.op = "sample" /\ mem.last > mem.processed
     \/ call.op \in {"checkpoint", "commit", "cancel"} /\ ~CanCommit(mem, work[call.w])
     \/ call.op = "signal" /\ ~CanSignal(mem, work[call.w])
  /\ UNCHANGED <<journal, tail, disk>>
  /\ Return
  /\ work' = Consumed

-----------------------------------------------------------------------------
(* Failures.                                                               *)

\* A file operation fails without effect.  A write that took effect but is
\* reported as failed (fsync, close) is the step itself followed by this.
Fail ==
  /\ stage # "idle"
  /\ UNCHANGED <<journal, tail, disk>>
  /\ Return
  /\ work' = Consumed

\* A short write: the journal ends in a part of the record, or in the whole
\* record without its newline.
TornAppend ==
  /\ \E ev \in Writing :
       \/ tail' = "partial" /\ UNCHANGED journal
       \/ tail' = "unterminated" /\ journal' = Append(journal, ev)
  /\ UNCHANGED disk
  /\ Return
  /\ work' = Consumed

\* The process dies: the lock and everything in memory are gone.
Crash ==
  /\ UNCHANGED <<journal, tail, disk>>
  /\ Return
  /\ work' = [w \in Workers |-> NoItem]

Next ==
  \/ Enter
  \/ ReadTail \/ FlushOne \/ FlushDone \/ RecoverTail \/ LoadDone
  \/ JournalEvent \/ WriteSummary \/ TakeSnapshot \/ ReadEvent
  \/ Finish \/ CommitProgress \/ Refuse
  \/ Fail \/ TornAppend \/ Crash

Spec == Init /\ [][Next]_vars

-----------------------------------------------------------------------------
(* Properties.                                                             *)

Stages == {"idle", "load", "sync", "run", "summary", "outbox"}

\* Every variable stays in its type; between calls no record is in memory
\* that differs from the summary.
TypeOK ==
  /\ journal \in Seq(Event)
  /\ tail \in {"clean", "partial", "unterminated"}
  /\ disk \in Record /\ mem \in Record
  /\ call \in Calls
  /\ stage \in Stages /\ (stage = "idle" <=> call = NoCall)
  /\ work \in [Workers -> Item]

\* No sequence of failed writes, torn appends and crashes makes a session
\* unloadable or loses journaled events: whenever a load looks at the two
\* files, the journal is at most one event ahead of the summary, never
\* behind it except by outbox events, and the next outbox event is the one
\* that follows the journal ("journal sequence gap" is never returned).
NoSequenceGap ==
  stage = "sync" =>
    IF mem.pending = <<>> THEN LastSeq \in {mem.last, mem.last + 1}
    ELSE /\ LastSeq <= mem.last
         /\ Unflushed # {} => NextOutput # {}

\* The sequence number of an event is its position: nothing is written
\* twice, skipped or reordered, also when outputs are flushed again after a
\* crash between the append and the emptying of the outbox.
JournalContiguous == \A i \in DOMAIN journal : journal[i].seq = i

\* No record is ever appended behind a torn one, which would join the two
\* into one undecodable line.
AppendsOnCleanTail == Writing # {} => tail = "clean"

\* A source's cursor names exactly its last sequenced event, also after the
\* event was adopted from the journal: a retry is answered with the receipt
\* of the first submission, whatever happened in between.
CursorsMatchJournal ==
  \A s \in Sources :
    LET mine == {i \in DOMAIN EffectiveLog :
                   EffectiveLog[i].source = s /\ EffectiveLog[i].sseq > 0}
        cursor == Effective.cursors[s]
    IN  IF mine = {} THEN cursor = NoCursor
        ELSE /\ cursor.eseq \in mine /\ \A i \in mine : i <= cursor.eseq
             /\ cursor.sseq = EffectiveLog[cursor.eseq].sseq
             /\ cursor.hash = EffectiveLog[cursor.eseq].type

\* "the most recent matching event from that source is replay-safe; older
\* or conflicting sequence reuse is rejected": each source sequence enters
\* the journal at most once, and in increasing order.
SourceOrder ==
  \A i, j \in DOMAIN journal :
    /\ i < j /\ journal[i].source = journal[j].source
    /\ journal[i].sseq > 0 /\ journal[j].sseq > 0
    => journal[i].sseq < journal[j].sseq

\* No update of the session state is lost: a state is only ever replaced by
\* one computed from it, however many workers, lanes and signals race.
NoLostUpdate == [][Effective.state' \in {Effective.state, Effective.state + 1}]_vars

\* A result takes effect only if the session was neither paused, resumed
\* nor ended since the worker's snapshot ("a late result after pause/end is
\* rejected"), and a signal only if no event at all arrived since.
ResultsAreCurrent ==
  [][ (stage = "run" /\ call.op \in {"checkpoint", "commit", "cancel", "signal"}
         /\ disk' # disk) =>
        \A i \in (work[call.w].last + 1)..Len(journal) :
          /\ ~(journal[i].source = "godex" /\ journal[i].type \in LifecycleTypes)
          /\ call.op # "signal" ]_vars

\* business-flow-runtime-design.md:1285, in translation: a session keeps at
\* most 256 unprocessed journal events, further ones are answered with 429.
\* This is not so: lifecycle and output events are not counted.
PendingBounded == Effective.last <= Effective.processed + MaxPending

\* The store implements the atomic specification: an append or transition
\* takes effect when its journal record is complete, a result when its
\* summary is renamed into place; loads, flushes, recoveries, failures and
\* crashes change nothing.
Abstract == INSTANCE FlowSession WITH rec <- Effective, log <- EffectiveLog
Refines == Abstract!Spec
-----------------------------------------------------------------------------
(* The inductive invariant behind the recovery properties.                 *)

\* A record a call may leave on disk: the clamps have nothing to do and the
\* outbox holds the last sequences the record has given out.
Sound(r) ==
  /\ r.gen >= 1 /\ r.processed <= r.last /\ r.last <= r.sv
  /\ Len(r.pending) <= r.last
  /\ \A i \in DOMAIN r.pending :
       /\ r.pending[i].seq + Len(r.pending) = r.last + i
       /\ r.pending[i].seq <= r.pending[i].sv

\* How far journal and summary may be apart.
InStep ==
  IF disk.pending = <<>> THEN Len(journal) \in {disk.last, disk.last + 1}
  ELSE Len(journal) <= disk.last /\ disk.last <= Len(journal) + Len(disk.pending)

\* What a call knows at each of its stages.
StageInv ==
  /\ stage # "summary" => mem = disk
  /\ stage \in {"sync", "run", "summary", "outbox"} => tail = "clean"
  /\ stage \in {"run", "summary"} => disk.pending = <<>> /\ mem.pending = <<>>
  /\ stage = "run" => Len(journal) = disk.last
  /\ stage = "summary" => Len(journal) = disk.last + 1 /\ mem.last = disk.last + 1

\* What loadFlowSessionLocked can rely on whenever it runs: events are
\* numbered by position, the summary and the record in memory are sound, and
\* the journal is no further from the summary than recovery and the outbox
\* bridge.  Every step of every call preserves it, as do failures, torn
\* appends and crashes.
RecoveryInv ==
  /\ TypeOK
  /\ \A i \in DOMAIN journal : journal[i].seq = i /\ i <= journal[i].sv
  /\ Sound(disk) /\ Sound(mem)
  /\ InStep /\ StageInv
=============================================================================
