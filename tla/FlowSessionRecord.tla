-------------------------- MODULE FlowSessionRecord --------------------------
(***************************************************************************)
(* The durable record of one FlowSession (flowSessionRecord), the events   *)
(* of its journal (FlowSessionEvent) and, as pure operators, what every    *)
(* operation of internal/agent/flow_session_store.go requires of a record  *)
(* and does to it.  The modules that add the files, the lock, the crashes  *)
(* and the workers are built from these operators.                         *)
(*                                                                         *)
(* Abstractions.  Correlation id, time and payload of an event are folded  *)
(* into its type, so two events with equal types are the same content and  *)
(* the SHA-256 of the content is the type itself.  The JSON state of a     *)
(* session is the number of updates it incorporates: a handler that runs   *)
(* on a snapshot with state n computes state n + 1.  Display fields        *)
(* (last_error, last_execution, timestamps, ...) are left out.             *)
(***************************************************************************)
EXTENDS Naturals, Sequences, FiniteSets

CONSTANTS Sources,      \* client event sources ("godex" is reserved)
          ClientTypes,  \* event types clients submit
          SourceSeqs,   \* source sequence numbers they use (0: none given)
          OutputCounts, \* how many outputs one region run may produce
          MaxPending,   \* maxFlowSessionPendingEvents
          MaxSources    \* maxFlowSessionEventSources

ASSUME SourcesAssumption == "godex" \notin Sources
ASSUME NumbersAssumption == SourceSeqs \subseteq Nat /\ OutputCounts \subseteq Nat
ASSUME LimitsAssumption == MaxPending \in Nat /\ MaxSources \in Nat

Statuses == {"active", "paused", "completed", "canceled"}
Terminal == {"completed", "canceled"}

\* The types of the events the runtime itself writes: one per lifecycle
\* transition, and one for the output of a terminal node.
LifecycleTypes ==
  {"session.paused", "session.resumed", "session.completed", "session.canceled"}
OutputType == "session.output"

EventTypes == ClientTypes \cup LifecycleTypes \cup {OutputType}

\* flowSessionSourceCursor; a source without an entry has sequence 0.
Cursor == [sseq : Nat, eseq : Nat, hash : EventTypes \cup {"none"}]
NoCursor == [sseq |-> 0, eseq |-> 0, hash |-> "none"]

Event == [seq : Nat, sv : Nat, source : Sources \cup {"godex"}, sseq : Nat,
          type : EventTypes]

Record == [status : Statuses, state : Nat, last : Nat, processed : Nat,
           sv : Nat, gen : Nat, pending : Seq(Event),
           cursors : [Sources -> Cursor]]

\* The record CreateFlowSession writes.
NewRecord ==
  [status |-> "active", state |-> 0, last |-> 0, processed |-> 0, sv |-> 0,
   gen |-> 1, pending |-> <<>>, cursors |-> [s \in Sources |-> NoCursor]]

-----------------------------------------------------------------------------
(* Client events: appendFlowSessionEvent.                                  *)

Input == [source : Sources, sseq : SourceSeqs, type : ClientTypes]

\* The cursor map has an entry for the source.
HasCursor(rec, in) == rec.cursors[in.source].sseq > 0

\* Mutation: a reused source sequence with other content is accepted.
IsNewer_AllowEqual(rec, in) ==
  (in.sseq > 0 /\ HasCursor(rec, in)) => in.sseq >= rec.cursors[in.source].sseq

\* Neither a replay nor a reuse of an older or conflicting sequence.
IsNewer(rec, in) ==
  (in.sseq > 0 /\ HasCursor(rec, in)) => in.sseq > rec.cursors[in.source].sseq

CanAppend(rec, in) ==
  /\ IsNewer(rec, in)
  /\ rec.status = "active"
  /\ rec.last < rec.processed + MaxPending
  /\ HasCursor(rec, in) \/ Cardinality({s \in Sources : rec.cursors[s].sseq > 0}) < MaxSources

ClientEvent(rec, in) ==
  [seq |-> rec.last + 1, sv |-> rec.sv + 1, source |-> in.source,
   sseq |-> in.sseq, type |-> in.type]

\* Mutation: an event without a source sequence moves the cursor as well.
MoveCursor_Unsequenced(cursors, ev) ==
  IF ev.source \in Sources
  THEN [cursors EXCEPT ![ev.source] =
          [sseq |-> ev.sseq, eseq |-> ev.seq, hash |-> ev.type]]
  ELSE cursors

\* SourceCursors after a sequenced event of the source.
MoveCursor(cursors, ev) ==
  IF ev.sseq > 0 /\ ev.source \in Sources
  THEN [cursors EXCEPT ![ev.source] =
          [sseq |-> ev.sseq, eseq |-> ev.seq, hash |-> ev.type]]
  ELSE cursors

Appended(rec, ev) ==
  [rec EXCEPT !.last = ev.seq, !.sv = ev.sv, !.cursors = MoveCursor(rec.cursors, ev)]

-----------------------------------------------------------------------------
(* Lifecycle: transitionFlowSession.                                       *)

CanTransition(rec, target) ==
  \/ target = "paused" /\ rec.status = "active"
  \/ target = "active" /\ rec.status = "paused"
  \/ target \in Terminal /\ rec.status \in {"active", "paused"}

TypeOf(target) ==
  CASE target = "paused" -> "session.paused"
    [] target = "active" -> "session.resumed"
    [] target = "completed" -> "session.completed"
    [] target = "canceled" -> "session.canceled"

LifecycleEvent(rec, target) ==
  [seq |-> rec.last + 1, sv |-> rec.sv + 1, source |-> "godex", sseq |-> 0,
   type |-> TypeOf(target)]

Transitioned(rec, target, ev) ==
  [rec EXCEPT !.status = target, !.last = ev.seq, !.sv = ev.sv, !.gen = @ + 1,
              !.processed = IF target \in Terminal THEN ev.seq ELSE @]

-----------------------------------------------------------------------------
(* Work.  A worker snapshots the record, reads the next event, runs the    *)
(* handlers outside the lock and comes back with a result; the item it     *)
(* holds meanwhile is what the result is fenced with.                      *)

Phases == {"none", "loaded", "event", "signal"}
Item == [phase : Phases, seq : Nat, gen : Nat, sv : Nat, state : Nat,
         last : Nat, godex : BOOLEAN]
NoItem == [phase |-> "none", seq |-> 0, gen |-> 0, sv |-> 0, state |-> 0,
           last |-> 0, godex |-> FALSE]

\* The fields of FlowSessionWork.record a result is later fenced with.
Snapshot(r, phase) ==
  [phase |-> phase, seq |-> r.processed + 1, gen |-> r.gen, sv |-> r.sv,
   state |-> r.state, last |-> r.last, godex |-> FALSE]

\* The item once the next event is read: none if there is no such event.
WithEvent(item, events) ==
  IF Len(events) < item.seq THEN NoItem
  ELSE [item EXCEPT !.phase = "event", !.godex = (events[item.seq].source = "godex")]

\* Mutation: the sequence alone fences a result.
CanCommit_NoGeneration(rec, w) ==
  /\ rec.status = "active"
  /\ w.seq = rec.processed + 1 /\ w.seq <= rec.last

\* The fence of checkpointFlowSessionCursor and commitFlowSessionProgress.
CanCommit(rec, w) ==
  /\ rec.gen = w.gen
  /\ rec.status = "active"
  /\ w.seq = rec.processed + 1 /\ w.seq <= rec.last

\* checkpointFlowSessionCursor: the event was written by the runtime itself.
Checkpointed(rec, w) == [rec EXCEPT !.processed = w.seq, !.gen = @ + 1]

\* stageFlowSessionOutputEvents: n outputs take the next n sequences.
StagedOutputs(rec, n) ==
  [i \in 1..n |-> [seq |-> rec.last + i, sv |-> rec.sv + i, source |-> "godex",
                   sseq |-> 0, type |-> OutputType]]

\* commitFlowSessionProgress.  A failed or skipped run returns no state.
Committed(rec, w, updates, n) ==
  LET done == [rec EXCEPT !.processed = w.seq, !.sv = @ + 1, !.gen = @ + 1,
                          !.state = IF updates THEN w.state + 1 ELSE @]
  IN  [done EXCEPT !.last = @ + n, !.sv = @ + n, !.pending = StagedOutputs(done, n)]

\* cancelFlowSessionWork.
Canceled(rec, w) == [rec EXCEPT !.processed = w.seq, !.sv = @ + 1, !.gen = @ + 1]

\* Mutation: a signal is not fenced by version and generation.
CanSignal_Unfenced(rec, w) == rec.status = "active" /\ rec.last <= rec.processed

\* checkpointFlowSessionSignal.
CanSignal(rec, w) ==
  /\ rec.status = "active"
  /\ rec.last <= rec.processed
  /\ rec.sv = w.sv
  /\ rec.gen = w.gen

Signaled(rec, w, updates) ==
  [rec EXCEPT !.sv = @ + 1, !.gen = @ + 1,
              !.state = IF updates THEN w.state + 1 ELSE @]

-----------------------------------------------------------------------------
(* Loading: loadFlowSessionLocked and recoverFlowSessionTailLocked.        *)

\* Adopt the journal event that is ahead of the summary.
Adopted(rec, ev) ==
  LET base == [rec EXCEPT !.last = ev.seq,
                          !.sv = IF ev.sv > @ THEN ev.sv ELSE @,
                          !.cursors = MoveCursor(rec.cursors, ev)]
  IN  CASE ev.type = "session.paused" -> [base EXCEPT !.status = "paused", !.gen = @ + 1]
        [] ev.type = "session.resumed" -> [base EXCEPT !.status = "active", !.gen = @ + 1]
        [] ev.type = "session.completed" ->
             [base EXCEPT !.status = "completed", !.gen = @ + 1, !.processed = ev.seq]
        [] ev.type = "session.canceled" ->
             [base EXCEPT !.status = "canceled", !.gen = @ + 1, !.processed = ev.seq]
        [] OTHER -> base

\* The clamps applied to a record that an older version wrote.  That of the
\* generation comes before the recovery in the code; no record this version writes
\* has generation 0, so the order makes no difference here.
Normalised(rec) ==
  [rec EXCEPT !.gen = IF @ = 0 THEN 1 ELSE @,
              !.processed = IF @ > rec.last THEN rec.last ELSE @,
              !.sv = IF @ < rec.last THEN rec.last ELSE @]
=============================================================================
