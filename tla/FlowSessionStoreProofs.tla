------------------------ MODULE FlowSessionStoreProofs ------------------------
(***************************************************************************)
(* Proofs about FlowSessionStore, for every set of sources, types, source  *)
(* sequences, output counts and workers, and every value of the limits.    *)
(***************************************************************************)
EXTENDS FlowSessionStore, TLAPS

\* A record CreateFlowSession writes is a sound record.
LEMMA NewRecordSound == NewRecord \in Record /\ Sound(NewRecord)
<1>1. NoCursor \in Cursor
  BY DEF NoCursor, Cursor
<1>2. NewRecord \in Record
  BY <1>1 DEF NewRecord, Record, Statuses
<1>3. Sound(NewRecord)
  BY DEF NewRecord, Sound
<1>. QED BY <1>2, <1>3

\* The fields of a record and of an event, one by one.
LEMMA RecordFields ==
  ASSUME NEW rec \in Record
  PROVE  /\ rec.status \in Statuses /\ rec.state \in Nat /\ rec.last \in Nat
         /\ rec.processed \in Nat /\ rec.sv \in Nat /\ rec.gen \in Nat
         /\ rec.pending \in Seq(Event) /\ rec.cursors \in [Sources -> Cursor]
BY DEF Record

LEMMA EventFields ==
  ASSUME NEW ev \in Event
  PROVE  /\ ev.seq \in Nat /\ ev.sv \in Nat /\ ev.sseq \in Nat
         /\ ev.source \in Sources \cup {"godex"} /\ ev.type \in EventTypes
BY DEF Event

\* appendFlowSessionEvent writes a well-formed event and record.
LEMMA ClientEventType ==
  ASSUME NEW rec \in Record, NEW in \in Input
  PROVE  /\ ClientEvent(rec, in) \in Event
         /\ ClientEvent(rec, in).seq = rec.last + 1
         /\ ClientEvent(rec, in).sv = rec.sv + 1
<1>1. in.source \in Sources /\ in.sseq \in Nat /\ in.type \in EventTypes
  BY NumbersAssumption DEF NumbersAssumption, Input, EventTypes
<1>2. ClientEvent(rec, in) \in Event
  BY <1>1, RecordFields DEF ClientEvent, Event
<1>. QED BY <1>2 DEF ClientEvent

LEMMA MoveCursorType ==
  ASSUME NEW cursors \in [Sources -> Cursor], NEW ev \in Event
  PROVE  MoveCursor(cursors, ev) \in [Sources -> Cursor]
BY DEF MoveCursor, Cursor, Event

LEMMA AppendedType ==
  ASSUME NEW rec \in Record, NEW ev \in Event
  PROVE  /\ Appended(rec, ev) \in Record
         /\ Appended(rec, ev).last = ev.seq
         /\ Appended(rec, ev).sv = ev.sv
         /\ Appended(rec, ev).pending = rec.pending
         /\ Appended(rec, ev).processed = rec.processed
         /\ Appended(rec, ev).gen = rec.gen
<1>1. MoveCursor(rec.cursors, ev) \in [Sources -> Cursor]
  BY MoveCursorType, RecordFields
<1>2. Appended(rec, ev) \in Record
  BY <1>1, EventFields DEF Appended, Record
<1>. QED BY <1>2 DEF Appended, Record

\* transitionFlowSession does so too.
LEMMA LifecycleEventType ==
  ASSUME NEW rec \in Record, NEW target \in Targets
  PROVE  /\ LifecycleEvent(rec, target) \in Event
         /\ LifecycleEvent(rec, target).seq = rec.last + 1
         /\ LifecycleEvent(rec, target).sv = rec.sv + 1
<1>1. TypeOf(target) \in EventTypes
  BY DEF TypeOf, LifecycleTypes, Targets, EventTypes
<1>2. LifecycleEvent(rec, target) \in Event
  BY <1>1, RecordFields DEF LifecycleEvent, Event
<1>. QED BY <1>2 DEF LifecycleEvent

LEMMA TransitionedType ==
  ASSUME NEW rec \in Record, NEW target \in Targets, NEW ev \in Event
  PROVE  /\ Transitioned(rec, target, ev) \in Record
         /\ Transitioned(rec, target, ev).last = ev.seq
         /\ Transitioned(rec, target, ev).sv = ev.sv
         /\ Transitioned(rec, target, ev).pending = rec.pending
         /\ Transitioned(rec, target, ev).processed \in {rec.processed, ev.seq}
         /\ Transitioned(rec, target, ev).gen = rec.gen + 1
<1>1. target \in Statuses
  BY DEF Targets, Statuses
<1>2. rec.gen + 1 \in Nat
  BY RecordFields
<1>3. CASE target \in Terminal
  <2>1. Transitioned(rec, target, ev) =
          [rec EXCEPT !.status = target, !.last = ev.seq, !.sv = ev.sv,
                      !.gen = rec.gen + 1, !.processed = ev.seq]
    BY <1>3 DEF Transitioned, Record
  <2>2. Transitioned(rec, target, ev) \in Record
    BY <2>1, <1>1, <1>2, EventFields DEF Record
  <2>. QED BY <2>1, <2>2 DEF Record
<1>4. CASE target \notin Terminal
  <2>1. Transitioned(rec, target, ev) =
          [rec EXCEPT !.status = target, !.last = ev.seq, !.sv = ev.sv,
                      !.gen = rec.gen + 1]
    BY <1>4 DEF Transitioned, Record
  <2>2. Transitioned(rec, target, ev) \in Record
    BY <2>1, <1>1, <1>2, EventFields DEF Record
  <2>. QED BY <2>1, <2>2 DEF Record
<1>. QED BY <1>3, <1>4

\* recoverFlowSessionTailLocked: whatever the type of the event.
LEMMA AdoptedType ==
  ASSUME NEW rec \in Record, NEW ev \in Event
  PROVE  /\ Adopted(rec, ev) \in Record
         /\ Adopted(rec, ev).last = ev.seq
         /\ Adopted(rec, ev).sv >= ev.sv
         /\ Adopted(rec, ev).pending = rec.pending
         /\ Adopted(rec, ev).processed \in {rec.processed, ev.seq}
         /\ Adopted(rec, ev).gen \in {rec.gen, rec.gen + 1}
<1> DEFINE version == IF ev.sv > rec.sv THEN ev.sv ELSE rec.sv
           base == [rec EXCEPT !.last = ev.seq, !.sv = version,
                               !.cursors = MoveCursor(rec.cursors, ev)]
           moved(st) == [base EXCEPT !.status = st, !.gen = @ + 1]
           ended(st) == [base EXCEPT !.status = st, !.gen = @ + 1, !.processed = ev.seq]
<1>1. MoveCursor(rec.cursors, ev) \in [Sources -> Cursor]
  BY MoveCursorType, RecordFields
<1>2. version \in Nat /\ version >= ev.sv
  BY RecordFields, EventFields
<1>3. base \in Record
  <2> HIDE DEF version
  <2>. QED BY <1>1, <1>2, EventFields DEF Record
<1>4. /\ base.last = ev.seq /\ base.sv = version /\ base.pending = rec.pending
      /\ base.processed = rec.processed /\ base.gen = rec.gen
  BY DEF Record
<1>5. \/ Adopted(rec, ev) = base
      \/ \E st \in Statuses : Adopted(rec, ev) \in {moved(st), ended(st)}
  <2>1. base = [rec EXCEPT !.last = ev.seq, !.sv = IF ev.sv > @ THEN ev.sv ELSE @,
                           !.cursors = MoveCursor(rec.cursors, ev)]
    BY DEF Record
  <2> HIDE DEF base
  <2>. QED BY <2>1 DEF Adopted, Statuses
<1> HIDE DEF base, version
<1>6. ASSUME NEW st \in Statuses
      PROVE  /\ moved(st) \in Record /\ ended(st) \in Record
             /\ moved(st).last = ev.seq /\ ended(st).last = ev.seq
             /\ moved(st).sv = version /\ ended(st).sv = version
             /\ moved(st).pending = rec.pending /\ ended(st).pending = rec.pending
             /\ moved(st).processed = rec.processed /\ ended(st).processed = ev.seq
             /\ moved(st).gen = rec.gen + 1 /\ ended(st).gen = rec.gen + 1
  <2>1. base.gen + 1 \in Nat
    BY <1>3, RecordFields
  <2>2. moved(st) \in Record
    BY <1>3, <2>1 DEF Record
  <2>3. ended(st) \in Record
    BY <1>3, <2>1, EventFields DEF Record
  <2>. QED BY <1>3, <1>4, <2>2, <2>3 DEF Record
<1> HIDE DEF moved, ended
<1>7. CASE Adopted(rec, ev) = base
  BY <1>7, <1>2, <1>3, <1>4
<1>8. CASE \E st \in Statuses : Adopted(rec, ev) \in {moved(st), ended(st)}
  BY <1>8, <1>2, <1>6
<1>. QED BY <1>5, <1>7, <1>8

-----------------------------------------------------------------------------
(* Snapshots and results.                                                  *)

LEMMA ItemFields ==
  ASSUME NEW item \in Item
  PROVE  /\ item.phase \in Phases /\ item.seq \in Nat /\ item.gen \in Nat
         /\ item.sv \in Nat /\ item.state \in Nat /\ item.last \in Nat
         /\ item.godex \in BOOLEAN
BY DEF Item

LEMMA ItemTypes ==
  /\ NoItem \in Item
  /\ \A rec \in Record, phase \in Phases : Snapshot(rec, phase) \in Item
  /\ \A item \in Item, events \in Seq(Event) : WithEvent(item, events) \in Item
<1>1. NoItem \in Item
  BY DEF NoItem, Item, Phases
<1>2. ASSUME NEW rec \in Record, NEW phase \in Phases
      PROVE  Snapshot(rec, phase) \in Item
  BY RecordFields DEF Snapshot, Item
<1>3. ASSUME NEW item \in Item, NEW events \in Seq(Event)
      PROVE  WithEvent(item, events) \in Item
  BY <1>1 DEF WithEvent, Item, Phases
<1>. QED BY <1>1, <1>2, <1>3

\* checkpointFlowSessionCursor, cancelFlowSessionWork and
\* checkpointFlowSessionSignal keep a sound record sound; none of them gives
\* out a sequence or fills the outbox.
LEMMA CheckpointedSound ==
  ASSUME NEW rec \in Record, Sound(rec), NEW item \in Item, CanCommit(rec, item)
  PROVE  /\ Checkpointed(rec, item) \in Record /\ Sound(Checkpointed(rec, item))
         /\ Checkpointed(rec, item).last = rec.last
         /\ Checkpointed(rec, item).pending = rec.pending
<1>1. rec.gen + 1 \in Nat /\ item.seq \in Nat /\ item.seq <= rec.last
  BY RecordFields, ItemFields DEF CanCommit
<1>2. Checkpointed(rec, item) \in Record
  BY <1>1 DEF Checkpointed, Record
<1>3. /\ Checkpointed(rec, item).last = rec.last
      /\ Checkpointed(rec, item).pending = rec.pending
      /\ Checkpointed(rec, item).sv = rec.sv
      /\ Checkpointed(rec, item).processed = item.seq
      /\ Checkpointed(rec, item).gen = rec.gen + 1
  BY DEF Checkpointed, Record
<1>. QED BY <1>1, <1>2, <1>3, RecordFields DEF Sound

LEMMA CanceledSound ==
  ASSUME NEW rec \in Record, Sound(rec), NEW item \in Item, CanCommit(rec, item)
  PROVE  /\ Canceled(rec, item) \in Record /\ Sound(Canceled(rec, item))
         /\ Canceled(rec, item).last = rec.last
         /\ Canceled(rec, item).pending = rec.pending
<1>1. /\ rec.gen + 1 \in Nat /\ rec.sv + 1 \in Nat
      /\ item.seq \in Nat /\ item.seq <= rec.last
  BY RecordFields, ItemFields DEF CanCommit
<1>2. Canceled(rec, item) \in Record
  BY <1>1 DEF Canceled, Record
<1>3. /\ Canceled(rec, item).last = rec.last
      /\ Canceled(rec, item).pending = rec.pending
      /\ Canceled(rec, item).sv = rec.sv + 1
      /\ Canceled(rec, item).processed = item.seq
      /\ Canceled(rec, item).gen = rec.gen + 1
  BY DEF Canceled, Record
<1>. QED BY <1>1, <1>2, <1>3, RecordFields DEF Sound

LEMMA SignaledSound ==
  ASSUME NEW rec \in Record, Sound(rec), NEW item \in Item, NEW updates \in BOOLEAN
  PROVE  /\ Signaled(rec, item, updates) \in Record /\ Sound(Signaled(rec, item, updates))
         /\ Signaled(rec, item, updates).last = rec.last
         /\ Signaled(rec, item, updates).pending = rec.pending
<1> DEFINE next == IF updates THEN item.state + 1 ELSE rec.state
<1>1. rec.gen + 1 \in Nat /\ rec.sv + 1 \in Nat /\ next \in Nat
  BY RecordFields, ItemFields
<1>2. Signaled(rec, item, updates) =
        [rec EXCEPT !.sv = rec.sv + 1, !.gen = rec.gen + 1, !.state = next]
  BY DEF Signaled, Record
<1> HIDE DEF next
<1>3. Signaled(rec, item, updates) \in Record
  BY <1>1, <1>2 DEF Record
<1>4. /\ Signaled(rec, item, updates).last = rec.last
      /\ Signaled(rec, item, updates).pending = rec.pending
      /\ Signaled(rec, item, updates).sv = rec.sv + 1
      /\ Signaled(rec, item, updates).processed = rec.processed
      /\ Signaled(rec, item, updates).gen = rec.gen + 1
  BY <1>2 DEF Record
<1>. QED BY <1>1, <1>3, <1>4, RecordFields DEF Sound

\* stageFlowSessionOutputEvents numbers the outputs after the record's last
\* sequence.
LEMMA StagedOutputsType ==
  ASSUME NEW rec \in Record, NEW n \in Nat
  PROVE  /\ StagedOutputs(rec, n) \in Seq(Event) /\ Len(StagedOutputs(rec, n)) = n
         /\ \A i \in 1..n : /\ StagedOutputs(rec, n)[i].seq = rec.last + i
                            /\ StagedOutputs(rec, n)[i].sv = rec.sv + i
<1> DEFINE out(i) == [seq |-> rec.last + i, sv |-> rec.sv + i, source |-> "godex",
                      sseq |-> 0, type |-> OutputType]
<1>1. \A i \in 1..n : out(i) \in Event
  BY RecordFields DEF Event, EventTypes
<1>2. StagedOutputs(rec, n) = [i \in 1..n |-> out(i)]
  BY DEF StagedOutputs
<1>3. \A i \in 1..n : out(i).seq = rec.last + i /\ out(i).sv = rec.sv + i
  OBVIOUS
<1> HIDE DEF out
<1>. QED BY <1>1, <1>2, <1>3

\* commitFlowSessionProgress: the outbox holds the sequences just given out.
LEMMA CommittedSound ==
  ASSUME NEW rec \in Record, Sound(rec), NEW item \in Item, CanCommit(rec, item),
         NEW updates \in BOOLEAN, NEW n \in Nat
  PROVE  /\ Committed(rec, item, updates, n) \in Record
         /\ Sound(Committed(rec, item, updates, n))
         /\ Committed(rec, item, updates, n).last = rec.last + n
         /\ Len(Committed(rec, item, updates, n).pending) = n
<1> DEFINE next == IF updates THEN item.state + 1 ELSE rec.state
           done == [rec EXCEPT !.processed = item.seq, !.sv = rec.sv + 1,
                               !.gen = rec.gen + 1, !.state = next]
           out == StagedOutputs(done, n)
           result == Committed(rec, item, updates, n)
<1>1. /\ rec.gen + 1 \in Nat /\ rec.sv + 1 \in Nat /\ next \in Nat
      /\ item.seq \in Nat /\ item.seq <= rec.last
  BY RecordFields, ItemFields DEF CanCommit
<1>2. done = [rec EXCEPT !.processed = item.seq, !.sv = @ + 1, !.gen = @ + 1,
                         !.state = IF updates THEN item.state + 1 ELSE @]
  BY DEF Record
<1>3. done \in Record
  <2> HIDE DEF next
  <2>. QED BY <1>1 DEF Record
<1>4. /\ done.last = rec.last /\ done.sv = rec.sv + 1
      /\ done.processed = item.seq /\ done.gen = rec.gen + 1
  BY DEF Record
<1> HIDE DEF next, done
<1>5. /\ out \in Seq(Event) /\ Len(out) = n
      /\ \A i \in 1..n : out[i].seq = rec.last + i /\ out[i].sv = rec.sv + 1 + i
  BY <1>3, <1>4, StagedOutputsType
<1>6. result = [done EXCEPT !.last = rec.last + n, !.sv = rec.sv + 1 + n, !.pending = out]
  BY <1>2, <1>3, <1>4 DEF Committed, Record
<1>7. rec.last + n \in Nat /\ rec.sv + 1 + n \in Nat
  BY RecordFields
<1> HIDE DEF out, result
<1>8. result \in Record
  BY <1>3, <1>5, <1>6, <1>7 DEF Record
<1>9. /\ result.last = rec.last + n /\ result.sv = rec.sv + 1 + n /\ result.pending = out
      /\ result.processed = item.seq /\ result.gen = rec.gen + 1
  BY <1>3, <1>4, <1>6 DEF Record
<1>10. Sound(result)
  <2>1. /\ rec.last \in Nat /\ rec.sv \in Nat /\ rec.gen \in Nat
        /\ rec.last <= rec.sv
    BY RecordFields DEF Sound
  <2>2. result.gen >= 1 /\ result.processed <= result.last /\ result.last <= result.sv
    BY <1>1, <1>9, <2>1
  <2>3. Len(result.pending) <= result.last
    BY <1>5, <1>9, <2>1
  <2>4. DOMAIN result.pending = 1..n
    BY <1>5, <1>9
  <2>5. ASSUME NEW i \in 1..n
        PROVE  /\ result.pending[i].seq + Len(result.pending) = result.last + i
               /\ result.pending[i].seq <= result.pending[i].sv
    BY <1>5, <1>9, <2>1
  <2>. QED BY <2>2, <2>3, <2>4, <2>5 DEF Sound
<1>. QED BY <1>5, <1>8, <1>9, <1>10 DEF result

\* loadFlowSessionLocked has nothing to clamp in a sound record.
LEMMA NormalisedSound ==
  ASSUME NEW rec \in Record, Sound(rec)
  PROVE  Normalised(rec) = rec
<1>1. /\ (IF rec.gen = 0 THEN 1 ELSE rec.gen) = rec.gen
      /\ (IF rec.processed > rec.last THEN rec.last ELSE rec.processed) = rec.processed
      /\ (IF rec.sv < rec.last THEN rec.last ELSE rec.sv) = rec.sv
  BY RecordFields DEF Sound
<1>2. Normalised(rec) = [rec EXCEPT !.gen = rec.gen, !.processed = rec.processed,
                                    !.sv = rec.sv]
  BY <1>1 DEF Normalised, Record
<1>. QED BY <1>2 DEF Record

-----------------------------------------------------------------------------
(* Facts about a state that satisfies the invariant.                       *)

\* The arguments a call carries.
LEMMA CallFields ==
  ASSUME call \in Calls
  PROVE  /\ call.op = "append" => call.in \in Input
         /\ call.op = "transition" => call.target \in Targets
         /\ call.op \in {"prepare", "read", "sample", "checkpoint", "cancel", "signal", "commit"}
              => call.w \in Workers
         /\ call.op \in {"signal", "commit"} => call.updates \in BOOLEAN
         /\ call.op = "commit" => call.n \in Nat
         /\ call.op \in {"none", "append", "transition", "prepare", "read", "sample",
                        "checkpoint", "cancel", "signal", "commit"}
<1>1. CASE call = NoCall
  BY <1>1 DEF NoCall
<1>2. CASE call \in [op : {"append"}, in : Input]
  BY <1>2
<1>3. CASE call \in [op : {"transition"}, target : Targets]
  BY <1>3
<1>4. CASE call \in [op : {"prepare", "read", "sample", "checkpoint", "cancel"}, w : Workers]
  BY <1>4
<1>5. CASE call \in [op : {"signal"}, w : Workers, updates : BOOLEAN]
  BY <1>5
<1>6. CASE call \in [op : {"commit"}, w : Workers, updates : BOOLEAN, n : OutputCounts]
  BY <1>6, NumbersAssumption DEF NumbersAssumption
<1>. QED BY <1>1, <1>2, <1>3, <1>4, <1>5, <1>6 DEF Calls

\* Every call a caller may make is a call.
LEMMA RequestedType == Requested => call' \in Calls /\ call' # NoCall
<1>. SUFFICES ASSUME Requested PROVE call' \in Calls /\ call' # NoCall
  OBVIOUS
<1>1. CASE \E in \in Input : call' = [op |-> "append", in |-> in]
  BY <1>1 DEF Calls, NoCall
<1>2. CASE \E t \in Targets : call' = [op |-> "transition", target |-> t]
  BY <1>2 DEF Calls, NoCall
<1>3. CASE \E w \in Workers :
             \/ call' \in [op : {"prepare", "sample"}, w : {w}]
             \/ call' \in [op : {"signal"}, w : {w}, updates : BOOLEAN]
             \/ call' = [op |-> "read", w |-> w]
             \/ call' = [op |-> "checkpoint", w |-> w]
             \/ call' = [op |-> "cancel", w |-> w]
  BY <1>3 DEF Calls, NoCall
<1>4. CASE \E w \in Workers, u \in BOOLEAN, n \in OutputCounts :
             call' = [op |-> "commit", w |-> w, updates |-> u, n |-> n]
  BY <1>4 DEF Calls, NoCall
<1>. QED BY <1>1, <1>2, <1>3, <1>4, Zenon DEF Requested

\* The last sequence of the journal is its length.
LEMMA LastSeqIsLen ==
  ASSUME RecoveryInv
  PROVE  LastSeq = Len(journal) /\ Len(journal) \in Nat
<1>1. journal \in Seq(Event) /\ \A i \in DOMAIN journal : journal[i].seq = i
  BY DEF RecoveryInv, TypeOK
<1>. QED BY <1>1 DEF LastSeq

\* What a call is about to append continues the journal.
LEMMA WritingFollows ==
  ASSUME RecoveryInv, NEW ev \in Writing
  PROVE  /\ ev \in Event /\ ev.seq = Len(journal) + 1 /\ ev.seq <= ev.sv
         /\ tail = "clean" /\ stage # "idle"
         /\ stage \in {"sync", "outbox"} => disk.pending # <<>> /\ Len(journal) < disk.last
         /\ stage \notin {"sync", "outbox"} => stage = "run"
<1>0. disk \in Record /\ mem \in Record /\ Sound(mem) /\ StageInv /\ call \in Calls
  BY DEF RecoveryInv, TypeOK
<1>1. CASE stage \in {"sync", "outbox"}
  <2>1. mem = disk /\ tail = "clean"
    BY <1>0, <1>1 DEF StageInv
  <2>2. PICK i \in DOMAIN mem.pending : ev = mem.pending[i] /\ mem.pending[i].seq = LastSeq + 1
    BY <1>1 DEF Writing, NextOutput, Unflushed
  <2>3. mem.pending \in Seq(Event) /\ mem.last \in Nat
    BY <1>0, RecordFields
  <2>4. ev \in Event /\ i \in 1..Len(mem.pending) /\ mem.pending # <<>>
    BY <2>2, <2>3
  <2>5. ev.seq + Len(mem.pending) = mem.last + i /\ ev.seq <= ev.sv
    BY <1>0, <2>2 DEF Sound
  <2>6. Len(journal) < disk.last
    BY <2>1, <2>2, <2>3, <2>4, <2>5, LastSeqIsLen
  <2>. QED BY <1>1, <2>1, <2>2, <2>4, <2>5, <2>6, LastSeqIsLen
<1>2. CASE stage = "run"
  <2>1. mem = disk /\ tail = "clean" /\ Len(journal) = mem.last
    BY <1>0, <1>2 DEF StageInv
  <2>2. \/ call.op = "append" /\ ev = ClientEvent(mem, call.in)
        \/ call.op = "transition" /\ ev = LifecycleEvent(mem, call.target)
    BY <1>2 DEF Writing
  <2>3. ev \in Event /\ ev.seq = mem.last + 1 /\ ev.sv = mem.sv + 1
    BY <1>0, <2>2, CallFields, ClientEventType, LifecycleEventType
  <2>4. mem.last \in Nat /\ mem.sv \in Nat /\ mem.last <= mem.sv
    BY <1>0, RecordFields DEF Sound
  <2>. QED BY <1>2, <2>1, <2>3, <2>4
<1>3. CASE stage \notin {"sync", "outbox", "run"}
  BY <1>3 DEF Writing
<1>. QED BY <1>1, <1>2, <1>3

\* An event that continues the journal keeps it numbered.
LEMMA JournalGrows ==
  ASSUME RecoveryInv, NEW ev \in Event, ev.seq = Len(journal) + 1, ev.seq <= ev.sv,
         journal' = Append(journal, ev)
  PROVE  /\ journal' \in Seq(Event) /\ Len(journal') = Len(journal) + 1
         /\ \A i \in DOMAIN journal' : journal'[i].seq = i /\ i <= journal'[i].sv
<1>1. /\ journal \in Seq(Event)
      /\ \A i \in DOMAIN journal : journal[i].seq = i /\ i <= journal[i].sv
  BY DEF RecoveryInv, TypeOK
<1>2. Len(journal) \in Nat
  BY <1>1
<1>3. journal' \in Seq(Event) /\ Len(journal') = Len(journal) + 1
  BY <1>1
<1>4. ASSUME NEW i \in DOMAIN journal'
      PROVE  journal'[i].seq = i /\ i <= journal'[i].sv
  <2>1. CASE i = Len(journal) + 1
    BY <1>1, <2>1
  <2>2. CASE i # Len(journal) + 1
    <3>1. i \in 1..Len(journal) /\ journal'[i] = journal[i]
      BY <1>1, <1>3, <2>2
    <3>. QED BY <1>1, <3>1
  <2>. QED BY <2>1, <2>2
<1>. QED BY <1>3, <1>4

\* The items the workers are left with.
LEMMA WorkType ==
  ASSUME work \in [Workers -> Item]
  PROVE  /\ Consumed \in [Workers -> Item]
         /\ [w \in Workers |-> NoItem] \in [Workers -> Item]
BY ItemTypes DEF Consumed

-----------------------------------------------------------------------------
(* RecoveryInv is inductive.                                               *)

\* A call that returns owes the invariant nothing but two sound files.
LEMMA ReturnStep ==
  ASSUME journal' \in Seq(Event),
         \A i \in DOMAIN journal' : journal'[i].seq = i /\ i <= journal'[i].sv,
         tail' \in {"clean", "partial", "unterminated"},
         disk' \in Record, Sound(disk)', InStep', work' \in [Workers -> Item], Return
  PROVE  RecoveryInv'
<1>1. mem' = disk' /\ stage' = "idle" /\ call' = NoCall
  BY DEF Return
<1>2. TypeOK'
  BY <1>1 DEF TypeOK, Stages, Calls
<1>3. Sound(mem)'
  BY <1>1 DEF Sound
<1>4. StageInv'
  BY <1>1 DEF StageInv
<1>. QED BY <1>2, <1>3, <1>4 DEF RecoveryInv

LEMMA RecoveryInit == Init => RecoveryInv
<1> SUFFICES ASSUME Init PROVE RecoveryInv
  OBVIOUS
<1>1. disk \in Record /\ Sound(disk) /\ mem \in Record /\ Sound(mem)
  BY NewRecordSound DEF Init
<1>2. TypeOK
  BY <1>1, ItemTypes DEF Init, TypeOK, Stages, Calls
<1>3. InStep /\ StageInv
  BY DEF Init, InStep, StageInv, NewRecord
<1>. QED BY <1>1, <1>2, <1>3 DEF RecoveryInv, Init

LEMMA RecoveryStep == RecoveryInv /\ [Next]_vars => RecoveryInv'
<1> SUFFICES ASSUME RecoveryInv, [Next]_vars PROVE RecoveryInv'
  OBVIOUS
<1>0. /\ journal \in Seq(Event) /\ tail \in {"clean", "partial", "unterminated"}
      /\ disk \in Record /\ mem \in Record /\ call \in Calls
      /\ stage \in Stages /\ (stage = "idle" <=> call = NoCall)
      /\ work \in [Workers -> Item]
      /\ \A i \in DOMAIN journal : journal[i].seq = i /\ i <= journal[i].sv
      /\ Sound(disk) /\ Sound(mem) /\ InStep /\ StageInv
  BY DEF RecoveryInv, TypeOK
<1>00. Len(journal) \in Nat /\ LastSeq = Len(journal)
  BY LastSeqIsLen
<1>quiet. ASSUME UNCHANGED <<journal, tail, disk>>, Return, work' \in [Workers -> Item]
          PROVE  RecoveryInv'
  <2>1. Sound(disk)' /\ InStep'
    BY <1>0, <1>quiet DEF InStep, Sound
  <2>. QED BY <1>0, <1>quiet, <2>1, ReturnStep
<1>1. CASE Enter
  <2>1. call' \in Calls /\ call' # NoCall
    BY <1>1, RequestedType DEF Enter
  <2>2. TypeOK'
    BY <1>0, <1>1, <2>1 DEF Enter, TypeOK, Stages
  <2>. QED BY <1>0, <1>1, <2>2 DEF Enter, RecoveryInv, InStep, StageInv, Sound
<1>2. CASE ReadTail
  <2>1. TypeOK'
    BY <1>0, <1>2 DEF ReadTail, TypeOK, Stages
  <2>. QED BY <1>0, <1>2, <2>1 DEF ReadTail, RecoveryInv, InStep, StageInv, Sound
<1>3. CASE FlushOne
  <2>1. PICK ev \in Writing : journal' = Append(journal, ev)
    BY <1>3 DEF FlushOne
  <2>2. /\ ev \in Event /\ ev.seq = Len(journal) + 1 /\ ev.seq <= ev.sv
        /\ disk.pending # <<>> /\ Len(journal) < disk.last
    BY <1>3, <2>1, WritingFollows DEF FlushOne
  <2>3. /\ journal' \in Seq(Event) /\ Len(journal') = Len(journal) + 1
        /\ \A i \in DOMAIN journal' : journal'[i].seq = i /\ i <= journal'[i].sv
    BY <2>1, <2>2, JournalGrows
  <2>4. TypeOK'
    BY <1>0, <1>3, <2>3 DEF FlushOne, TypeOK
  <2>5. InStep'
    <3>1. disk.last \in Nat /\ Len(disk.pending) \in Nat
      BY <1>0, RecordFields
    <3>2. disk.last <= Len(journal) + Len(disk.pending)
      BY <1>0, <2>2 DEF InStep
    <3>3. Len(journal') <= disk.last /\ disk.last <= Len(journal') + Len(disk.pending)
      <4> DEFINE a == Len(journal) b == Len(journal') c == Len(disk.pending) d == disk.last
      <4>1. a \in Nat /\ b = a + 1 /\ c \in Nat /\ d \in Nat /\ a < d /\ d <= a + c
        BY <1>00, <2>2, <2>3, <3>1, <3>2
      <4> HIDE DEF a, b, c, d
      <4>2. b <= d /\ d <= b + c
        BY <4>1
      <4>. QED BY <4>2 DEF a, b, c, d
    <3>. QED BY <1>3, <2>2, <3>3 DEF FlushOne, InStep
  <2>6. StageInv'
    BY <1>0, <1>3 DEF FlushOne, StageInv
  <2>. QED BY <1>0, <1>3, <2>3, <2>4, <2>5, <2>6 DEF FlushOne, RecoveryInv, Sound
<1>4. CASE FlushDone
  <2>1. mem = disk /\ tail = "clean" /\ disk.last \in Nat
    BY <1>0, <1>4, RecordFields DEF FlushDone, StageInv
  <2>a. disk' = [disk EXCEPT !.pending = <<>>] /\ mem' = disk'
    BY <1>4, <2>1 DEF FlushDone
  <2>b. <<>> \in Seq(Event)
    OBVIOUS
  <2>c. disk' \in Record
    BY <1>0, <2>a, <2>b DEF Record
  <2>2. /\ mem' = disk' /\ disk' \in Record
        /\ disk'.last = disk.last /\ disk'.pending = <<>> /\ disk'.sv = disk.sv
        /\ disk'.gen = disk.gen /\ disk'.processed = disk.processed
    BY <1>0, <2>a, <2>c DEF Record
  <2>3. Sound(disk)' /\ Sound(mem)'
    BY <1>0, <2>1, <2>2 DEF Sound
  <2>4. Len(journal) = disk.last
    <3>1. disk.pending \in Seq(Event) /\ disk.pending # <<>>
      BY <1>0, <1>4, <2>1, RecordFields DEF FlushDone
    <3>2. Len(disk.pending) \in DOMAIN disk.pending
      BY <3>1
    <3>3. disk.pending[Len(disk.pending)].seq = disk.last
      BY <1>0, <2>1, <3>1, <3>2, EventFields DEF Sound
    <3>4. ~(disk.pending[Len(disk.pending)].seq > LastSeq)
      BY <1>4, <2>1, <3>2 DEF FlushDone, Unflushed
    <3>. QED BY <1>0, <1>00, <2>1, <3>1, <3>3, <3>4 DEF InStep
  <2>5. TypeOK'
    BY <1>0, <1>4, <2>2 DEF FlushDone, TypeOK, Stages, Calls
  <2>6. InStep' /\ StageInv'
    BY <1>0, <1>4, <2>1, <2>2, <2>4 DEF FlushDone, InStep, StageInv
  <2>. QED BY <1>0, <1>4, <2>3, <2>5, <2>6 DEF FlushDone, RecoveryInv
<1>5. CASE RecoverTail
  <2>1. mem = disk /\ tail = "clean" /\ disk.pending = <<>> /\ Len(journal) = disk.last + 1
    BY <1>0, <1>00, <1>5 DEF RecoverTail, StageInv
  <2>2. disk.last \in Nat /\ disk.gen \in Nat /\ disk.processed \in Nat
    BY <1>0, RecordFields
  <2> DEFINE ev == journal[Len(journal)]
  <2>3. ev \in Event /\ ev.seq = disk.last + 1 /\ ev.seq <= ev.sv
    BY <1>0, <1>00, <2>1, <2>2
  <2>4. disk' = Adopted(disk, ev) /\ mem' = disk'
    BY <1>5, <2>1 DEF RecoverTail
  <2> HIDE DEF ev
  <2>5. /\ disk' \in Record /\ disk'.last = ev.seq /\ disk'.sv >= ev.sv
        /\ disk'.pending = <<>> /\ disk'.processed \in {disk.processed, ev.seq}
        /\ disk'.gen \in {disk.gen, disk.gen + 1}
    BY <1>0, <2>1, <2>3, <2>4, AdoptedType
  <2>6. Sound(disk)' /\ Sound(mem)'
    <3>1. ev.sv \in Nat /\ disk'.sv \in Nat /\ disk'.last \in Nat
      BY <2>3, <2>5, EventFields, RecordFields
    <3>. QED BY <1>0, <2>2, <2>3, <2>4, <2>5, <3>1, SMTT(20) DEF Sound
  <2>7. TypeOK'
    BY <1>0, <1>5, <2>4, <2>5 DEF RecoverTail, TypeOK
  <2>8. InStep' /\ StageInv'
    BY <1>0, <1>5, <2>1, <2>2, <2>3, <2>4, <2>5 DEF RecoverTail, InStep, StageInv
  <2>. QED BY <1>0, <1>5, <2>6, <2>7, <2>8 DEF RecoverTail, RecoveryInv
<1>6. CASE LoadDone
  <2>1. mem = disk /\ tail = "clean" /\ disk.pending = <<>> /\ Len(journal) <= disk.last
    BY <1>0, <1>00, <1>6 DEF LoadDone, StageInv
  <2>2. mem' = mem /\ disk' = disk
    BY <1>0, <1>6, NormalisedSound DEF LoadDone
  <2>3. Len(journal) = disk.last
    BY <1>0, <1>00, <2>1, RecordFields DEF InStep
  <2>4. TypeOK'
    BY <1>0, <1>6, <2>2 DEF LoadDone, TypeOK, Stages
  <2>. QED BY <1>0, <1>6, <2>1, <2>2, <2>3, <2>4
           DEF LoadDone, RecoveryInv, InStep, StageInv, Sound
<1>7. CASE JournalEvent
  <2>1. PICK ev \in Writing :
          /\ journal' = Append(journal, ev)
          /\ mem' = IF call.op = "append" THEN Appended(mem, ev)
                    ELSE Transitioned(mem, call.target, ev)
    BY <1>7 DEF JournalEvent
  <2>2. ev \in Event /\ ev.seq = Len(journal) + 1 /\ ev.seq <= ev.sv
    BY <2>1, WritingFollows
  <2>3. /\ journal' \in Seq(Event) /\ Len(journal') = Len(journal) + 1
        /\ \A i \in DOMAIN journal' : journal'[i].seq = i /\ i <= journal'[i].sv
    BY <2>1, <2>2, JournalGrows
  <2>4. /\ mem = disk /\ tail = "clean" /\ disk.pending = <<>> /\ Len(journal) = disk.last
        /\ mem.last \in Nat /\ mem.gen \in Nat /\ mem.processed \in Nat
    BY <1>0, <1>7, RecordFields DEF JournalEvent, StageInv
  <2>5. /\ mem' \in Record /\ mem'.last = ev.seq /\ mem'.sv = ev.sv
        /\ mem'.pending = <<>> /\ mem'.processed \in {mem.processed, ev.seq}
        /\ mem'.gen \in {mem.gen, mem.gen + 1}
    <3>1. CASE call.op = "append"
      BY <1>0, <2>1, <2>2, <2>4, <3>1, AppendedType
    <3>2. CASE call.op = "transition"
      BY <1>0, <2>1, <2>2, <2>4, <3>2, CallFields, TransitionedType
    <3>. QED BY <1>7, <3>1, <3>2 DEF JournalEvent
  <2>6. Sound(mem)'
    BY <1>0, <2>2, <2>4, <2>5, EventFields DEF Sound
  <2>7. TypeOK'
    BY <1>0, <1>7, <2>3, <2>5 DEF JournalEvent, TypeOK, Stages
  <2>8. InStep' /\ StageInv'
    BY <1>7, <2>2, <2>3, <2>4, <2>5 DEF JournalEvent, InStep, StageInv
  <2>9. Sound(disk)'
    BY <1>0, <1>7 DEF JournalEvent, Sound
  <2>. QED BY <2>3, <2>6, <2>7, <2>8, <2>9 DEF RecoveryInv
<1>8. CASE WriteSummary
  <2>1. /\ disk' = mem /\ UNCHANGED <<journal, tail, work>> /\ Return
        /\ mem.pending = <<>> /\ Len(journal) = mem.last
    BY <1>0, <1>8 DEF WriteSummary, StageInv
  <2>2. Sound(disk)' /\ InStep'
    BY <1>0, <2>1 DEF Sound, InStep
  <2>. QED BY <1>0, <2>1, <2>2, ReturnStep
<1>9. CASE TakeSnapshot
  <2>1. call.w \in Workers
    BY <1>0, <1>9, CallFields DEF TakeSnapshot
  <2>2. work' \in [Workers -> Item]
    BY <1>0, <1>9, <2>1, ItemTypes DEF TakeSnapshot, Phases
  <2>. QED BY <1>9, <2>2, <1>quiet DEF TakeSnapshot
<1>10. CASE ReadEvent
  <2>1. call.w \in Workers
    BY <1>0, <1>10, CallFields DEF ReadEvent
  <2>2. work' \in [Workers -> Item]
    BY <1>0, <1>10, <2>1, ItemTypes DEF ReadEvent
  <2>. QED BY <1>10, <2>2, <1>quiet DEF ReadEvent
<1>11. CASE Finish
  <2>1. /\ mem = disk /\ disk.pending = <<>> /\ Len(journal) = disk.last
        /\ call.op \in {"checkpoint", "cancel", "signal"}
    BY <1>0, <1>11 DEF Finish, StageInv
  <2>2. call.w \in Workers /\ work[call.w] \in Item
    BY <1>0, <2>1, CallFields
  <2>3. /\ disk' \in Record /\ Sound(disk)'
        /\ disk'.last = disk.last /\ disk'.pending = <<>>
    <3> DEFINE item == work[call.w]
    <3>1. \/ CanCommit(disk, item) /\ disk' = Checkpointed(disk, item)
          \/ CanCommit(disk, item) /\ disk' = Canceled(disk, item)
          \/ call.op = "signal" /\ disk' = Signaled(disk, item, call.updates)
      BY <1>11, <2>1 DEF Finish
    <3>2. call.op = "signal" => call.updates \in BOOLEAN
      BY <1>0, CallFields
    <3>3. item \in Item
      BY <2>2
    <3> HIDE DEF item
    <3>4. \E r : /\ disk' = r /\ r \in Record /\ Sound(r)
                /\ r.last = disk.last /\ r.pending = disk.pending
      BY <1>0, <3>1, <3>2, <3>3, CheckpointedSound, CanceledSound, SignaledSound
    <3>. QED BY <2>1, <3>4 DEF Sound
  <2>4. InStep'
    BY <1>0, <1>11, <2>1, <2>3 DEF Finish, InStep
  <2>5. work' \in [Workers -> Item]
    BY <1>0, <1>11, WorkType DEF Finish
  <2>. QED BY <1>0, <1>11, <2>3, <2>4, <2>5, ReturnStep DEF Finish
<1>12. CASE CommitProgress
  <2>1. /\ mem = disk /\ tail = "clean" /\ disk.pending = <<>> /\ Len(journal) = disk.last
        /\ call.op = "commit" /\ CanCommit(disk, work[call.w])
    BY <1>0, <1>12 DEF CommitProgress, StageInv
  <2>2. /\ work[call.w] \in Item /\ call.updates \in BOOLEAN /\ call.n \in Nat
        /\ disk.last \in Nat
    BY <1>0, <2>1, CallFields, RecordFields
  <2> DEFINE r == Committed(disk, work[call.w], call.updates, call.n)
  <2>3. /\ r \in Record /\ Sound(r) /\ r.last = disk.last + call.n
        /\ Len(r.pending) = call.n
    BY <1>0, <2>1, <2>2, CommittedSound
  <2>4. disk' = r /\ mem' = r
    BY <1>12, <2>1 DEF CommitProgress
  <2> HIDE DEF r
  <2>5. Sound(disk)' /\ Sound(mem)'
    BY <2>3, <2>4 DEF Sound
  <2>6. work' \in [Workers -> Item]
    BY <1>0, <1>12, WorkType DEF CommitProgress
  <2>7. TypeOK'
    BY <1>0, <1>12, <2>1, <2>3, <2>4, <2>6 DEF CommitProgress, TypeOK, Stages, Calls, NoCall
  <2>8. InStep'
    <3>1. r.pending \in Seq(Event)
      BY <2>3, RecordFields
    <3>2. CASE r.pending = <<>>
      <4>1. call.n = 0
        BY <2>3, <3>2
      <4>. QED BY <1>12, <2>1, <2>2, <2>3, <2>4, <3>2, <4>1 DEF CommitProgress, InStep
    <3>3. CASE r.pending # <<>>
      BY <1>12, <2>1, <2>2, <2>3, <2>4, <3>3 DEF CommitProgress, InStep
    <3>. QED BY <3>2, <3>3
  <2>9. StageInv'
    BY <1>12, <2>1, <2>4 DEF CommitProgress, StageInv
  <2>. QED BY <1>0, <1>12, <2>5, <2>7, <2>8, <2>9 DEF CommitProgress, RecoveryInv
<1>13. CASE Refuse
  BY <1>0, <1>13, <1>quiet, WorkType DEF Refuse
<1>14. CASE Fail
  BY <1>0, <1>14, <1>quiet, WorkType DEF Fail
<1>15. CASE TornAppend
  <2>1. PICK ev \in Writing :
          \/ tail' = "partial" /\ journal' = journal
          \/ tail' = "unterminated" /\ journal' = Append(journal, ev)
    BY <1>15 DEF TornAppend
  <2>2. /\ ev \in Event /\ ev.seq = Len(journal) + 1 /\ ev.seq <= ev.sv
        /\ stage \in {"sync", "outbox"} => disk.pending # <<>> /\ Len(journal) < disk.last
        /\ stage \notin {"sync", "outbox"} => stage = "run"
    BY <2>1, WritingFollows
  <2>3. disk' = disk /\ Return /\ work' \in [Workers -> Item]
    BY <1>0, <1>15, WorkType DEF TornAppend
  <2>4. Sound(disk)'
    BY <1>0, <2>3 DEF Sound
  <2>5. CASE tail' = "partial" /\ journal' = journal
    <3>1. InStep'
      BY <1>0, <2>3, <2>5 DEF InStep
    <3>. QED BY <1>0, <2>3, <2>4, <2>5, <3>1, ReturnStep
  <2>6. CASE tail' = "unterminated" /\ journal' = Append(journal, ev)
    <3>1. /\ journal' \in Seq(Event) /\ Len(journal') = Len(journal) + 1
          /\ \A i \in DOMAIN journal' : journal'[i].seq = i /\ i <= journal'[i].sv
      BY <2>2, <2>6, JournalGrows
    <3>2. disk.last \in Nat /\ Len(disk.pending) \in Nat
      BY <1>0, RecordFields
    <3>5. InStep'
      <4>1. CASE stage \in {"sync", "outbox"}
        <5> DEFINE a == Len(journal) b == Len(journal') c == Len(disk.pending) d == disk.last
        <5>1. a \in Nat /\ b = a + 1 /\ c \in Nat /\ d \in Nat /\ a < d /\ d <= a + c
          BY <1>0, <1>00, <2>2, <3>1, <3>2, <4>1 DEF InStep
        <5> HIDE DEF a, b, c, d
        <5>2. b <= d /\ d <= b + c
          BY <5>1
        <5>. QED BY <2>2, <2>3, <4>1, <5>2 DEF InStep, a, b, c, d
      <4>2. CASE stage = "run"
        BY <1>0, <2>3, <3>1, <4>2 DEF InStep, StageInv
      <4>. QED BY <2>2, <4>1, <4>2
    <3>. QED BY <1>0, <2>3, <2>4, <2>6, <3>1, <3>5, ReturnStep
  <2>. QED BY <2>1, <2>5, <2>6
<1>16. CASE Crash
  BY <1>0, <1>16, <1>quiet, WorkType DEF Crash
<1>17. CASE UNCHANGED vars
  BY <1>0, <1>17 DEF vars, RecoveryInv, TypeOK, InStep, StageInv, Sound
<1>. QED BY <1>1, <1>2, <1>3, <1>4, <1>5, <1>6, <1>7, <1>8, <1>9, <1>10, <1>11,
            <1>12, <1>13, <1>14, <1>15, <1>16, <1>17 DEF Next

\* RecoveryInv holds in every reachable state of the store.
THEOREM RecoveryInvariance == Spec => []RecoveryInv
BY RecoveryInit, RecoveryStep, PTL DEF Spec

-----------------------------------------------------------------------------
(* What follows from it.                                                   *)

\* Every state of the store is well typed.
THEOREM TypeCorrectness == Spec => []TypeOK
<1>1. RecoveryInv => TypeOK
  BY DEF RecoveryInv
<1>. QED BY <1>1, RecoveryInvariance, PTL

\* The journal is numbered 1, 2, 3, ... without gap or repetition, whatever
\* fails, is torn or crashes while events are appended and outputs flushed.
THEOREM JournalNumbering == Spec => []JournalContiguous
<1>1. RecoveryInv => JournalContiguous
  BY DEF RecoveryInv, JournalContiguous
<1>. QED BY <1>1, RecoveryInvariance, PTL

\* loadFlowSessionLocked never reports a sequence gap, neither of the event
\* ahead of the summary nor of the outbox: a session stays loadable.
THEOREM SessionStaysLoadable == Spec => []NoSequenceGap
<1>1. ASSUME RecoveryInv PROVE NoSequenceGap
  <2> SUFFICES ASSUME stage = "sync"
               PROVE  IF mem.pending = <<>> THEN LastSeq \in {mem.last, mem.last + 1}
                      ELSE /\ LastSeq <= mem.last
                           /\ Unflushed # {} => NextOutput # {}
    BY DEF NoSequenceGap
  <2>1. mem = disk /\ InStep /\ Sound(mem) /\ mem \in Record
    BY <1>1 DEF RecoveryInv, StageInv, TypeOK
  <2>2. LastSeq = Len(journal) /\ Len(journal) \in Nat
    BY <1>1, LastSeqIsLen
  <2>3. mem.pending \in Seq(Event) /\ mem.last \in Nat /\ Len(mem.pending) \in Nat
    BY <2>1, RecordFields
  <2>4. CASE mem.pending = <<>>
    BY <2>1, <2>2, <2>4 DEF InStep
  <2>5. CASE mem.pending # <<>>
    <3>1. LastSeq <= mem.last /\ mem.last <= LastSeq + Len(mem.pending)
      BY <2>1, <2>2, <2>5 DEF InStep
    <3>2. ASSUME Unflushed # {} PROVE NextOutput # {}
      <4>1. PICK k \in DOMAIN mem.pending : mem.pending[k].seq > LastSeq
        BY <3>2 DEF Unflushed
      <4>2. \A i \in DOMAIN mem.pending : /\ mem.pending[i].seq \in Nat
                                          /\ mem.pending[i].seq + Len(mem.pending) = mem.last + i
        BY <2>1, <2>3, EventFields DEF Sound
      <4> DEFINE j == LastSeq + 1 + Len(mem.pending) - mem.last
      <4>3. k \in 1..Len(mem.pending) /\ DOMAIN mem.pending = 1..Len(mem.pending)
        BY <2>3
      <4>4. j \in DOMAIN mem.pending
        <5> DEFINE a == LastSeq c == Len(mem.pending) d == mem.last
                   q == mem.pending[k].seq
        <5>1. /\ a \in Nat /\ c \in Nat /\ d \in Nat /\ q \in Nat /\ k \in 1..c
              /\ q + c = d + k /\ q > a /\ d <= a + c
          BY <2>2, <2>3, <3>1, <4>1, <4>2, <4>3
        <5> HIDE DEF a, c, d, q
        <5>2. a + 1 + c - d \in 1..c
          BY <5>1
        <5>. QED BY <4>3, <5>2 DEF a, c, d
      <4>5. j \in Nat /\ j + mem.last = LastSeq + 1 + Len(mem.pending)
        <5>1. j \in Nat
          BY <4>3, <4>4
        <5> DEFINE a == LastSeq c == Len(mem.pending) d == mem.last
        <5>2. a \in Nat /\ c \in Nat /\ d \in Nat
          BY <2>2, <2>3
        <5> HIDE DEF a, c, d
        <5>3. (a + 1 + c - d) + d = a + 1 + c
          BY <5>2
        <5>. QED BY <5>1, <5>3 DEF a, c, d
      <4> HIDE DEF j
      <4>6. mem.pending[j].seq = LastSeq + 1
        <5>1. mem.pending[j].seq \in Nat /\ mem.pending[j].seq + Len(mem.pending) = mem.last + j
          BY <4>2, <4>4
        <5> DEFINE a == LastSeq c == Len(mem.pending) d == mem.last
                   q == mem.pending[j].seq
        <5>2. /\ a \in Nat /\ c \in Nat /\ d \in Nat /\ q \in Nat /\ j \in Nat
              /\ q + c = d + j /\ j + d = a + 1 + c
          BY <2>2, <2>3, <4>5, <5>1, Zenon
        <5> HIDE DEF a, c, d, q
        <5>3. q = a + 1
          BY <5>2
        <5>. QED BY <5>3 DEF a, q
      <4>7. \A i \in Unflushed : j <= i
        <5> TAKE i \in Unflushed
        <5>1. i \in DOMAIN mem.pending /\ mem.pending[i].seq > LastSeq
          BY DEF Unflushed
        <5>2. mem.pending[i].seq \in Nat /\ mem.pending[i].seq + Len(mem.pending) = mem.last + i
          BY <4>2, <5>1
        <5>3. i \in Nat
          BY <4>3, <5>1
        <5> DEFINE a == LastSeq c == Len(mem.pending) d == mem.last
                   q == mem.pending[i].seq
        <5>4. /\ a \in Nat /\ c \in Nat /\ d \in Nat /\ q \in Nat
              /\ q + c = d + i /\ q > a /\ j + d = a + 1 + c
          BY <2>2, <2>3, <4>5, <5>1, <5>2, Zenon
        <5> HIDE DEF a, c, d, q
        <5>. QED BY <4>5, <5>3, <5>4
      <4>8. LastSeq + 1 > LastSeq
        BY <2>2
      <4>9. j \in Unflushed
        BY <4>4, <4>6, <4>8 DEF Unflushed
      <4>. QED BY <4>6, <4>7, <4>9 DEF NextOutput
    <3>. QED BY <2>5, <3>1, <3>2
  <2>. QED BY <2>4, <2>5
<1>. QED BY <1>1, RecoveryInvariance, PTL

\* No record is appended behind a torn one.
THEOREM CleanAppends == Spec => []AppendsOnCleanTail
<1>1. ASSUME RecoveryInv PROVE AppendsOnCleanTail
  BY <1>1, WritingFollows DEF AppendsOnCleanTail
<1>. QED BY <1>1, RecoveryInvariance, PTL

=============================================================================
