----------------------------- MODULE FlowSession -----------------------------
(***************************************************************************)
(* What the FlowSession store promises: one record and one log, and every  *)
(* operation a single step.  There are no files, no lock, no outbox, no    *)
(* recovery and no failed writes here; FlowSessionStore has all of them    *)
(* and is shown to implement this specification.                           *)
(***************************************************************************)
EXTENDS FlowSessionRecord

CONSTANT Workers        \* goroutines that prepare and commit work

VARIABLES rec,          \* the session's record, pending always empty
          log,          \* every event of the session, in sequence order
          work          \* what each worker holds between its calls

vars == <<rec, log, work>>

Init == rec = NewRecord /\ log = <<>> /\ work = [w \in Workers |-> NoItem]

Drop(w) == work' = [work EXCEPT ![w] = NoItem]

AppendEvent(in) ==
  /\ CanAppend(rec, in)
  /\ log' = Append(log, ClientEvent(rec, in))
  /\ rec' = Appended(rec, ClientEvent(rec, in))
  /\ UNCHANGED work

Transition(target) ==
  LET ev == LifecycleEvent(rec, target) IN
  /\ CanTransition(rec, target)
  /\ log' = Append(log, ev)
  /\ rec' = Transitioned(rec, target, ev)
  /\ UNCHANGED work

Prepare(w) ==
  /\ work[w].phase = "none" /\ rec.status = "active"
  /\ work' = [work EXCEPT ![w] = Snapshot(rec, "loaded")]
  /\ UNCHANGED <<rec, log>>

ReadNext(w) ==
  /\ work[w].phase = "loaded"
  /\ work' = [work EXCEPT ![w] = WithEvent(work[w], log)]
  /\ UNCHANGED <<rec, log>>

\* A signal is evaluated only while no journaled event is unprocessed.
Sample(w) ==
  /\ work[w].phase = "none" /\ rec.last <= rec.processed
  /\ work' = [work EXCEPT ![w] = Snapshot(rec, "signal")]
  /\ UNCHANGED <<rec, log>>

Checkpoint(w) ==
  /\ work[w].phase = "event" /\ work[w].godex /\ CanCommit(rec, work[w])
  /\ rec' = Checkpointed(rec, work[w])
  /\ Drop(w) /\ UNCHANGED log

Commit(w, updates, n) ==
  /\ work[w].phase = "event" /\ ~work[w].godex /\ CanCommit(rec, work[w])
  /\ LET done == Committed(rec, work[w], updates, n) IN
     /\ rec' = [done EXCEPT !.pending = <<>>]
     /\ log' = log \o done.pending
  /\ Drop(w)

\* The worker still holds the item; its late result will be fenced off.
Cancel(w) ==
  /\ work[w].phase = "event" /\ ~work[w].godex /\ CanCommit(rec, work[w])
  /\ rec' = Canceled(rec, work[w])
  /\ UNCHANGED <<log, work>>

Signal(w, updates) ==
  /\ work[w].phase = "signal" /\ CanSignal(rec, work[w])
  /\ rec' = Signaled(rec, work[w], updates)
  /\ Drop(w) /\ UNCHANGED log

\* Rejected results, failed calls and crashes only lose work in progress.
Forget(lost) ==
  /\ work' = [w \in Workers |-> IF w \in lost THEN NoItem ELSE work[w]]
  /\ UNCHANGED <<rec, log>>

Next ==
  \/ \E in \in Input : AppendEvent(in)
  \/ \E t \in Statuses : Transition(t)
  \/ \E w \in Workers :
       \/ Prepare(w) \/ ReadNext(w) \/ Sample(w)
       \/ Checkpoint(w) \/ Cancel(w)
       \/ \E u \in BOOLEAN : Signal(w, u)
       \/ \E u \in BOOLEAN, n \in OutputCounts : Commit(w, u, n)
  \/ \E lost \in SUBSET Workers : Forget(lost)

Spec == Init /\ [][Next]_vars
=============================================================================
