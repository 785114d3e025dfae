-------------------------- MODULE TurnQueueProofs --------------------------
(***************************************************************************)
(* Proof that the active turn of a session holds its token, for every set  *)
(* of messages, every mix of calls and every bound.                        *)
(***************************************************************************)
EXTENDS TurnQueue, TLAPS

\* The holder is a record with the fields of Free.
Shaped(h) ==
  h = [kind |-> h.kind, pc |-> h.pc, turn |-> h.turn, msg |-> h.msg,
       item |-> h.item, out |-> h.out]

IInv == Shaped(holder) /\ ActiveHoldsGate

\* What EXCEPT does to the holder.
LEMMA Moved ==
    ASSUME NEW h, NEW pc, Shaped(h)
    PROVE  LET g == [h EXCEPT !.pc = pc] IN
             Shaped(g) /\ g.pc = pc /\ g.kind = h.kind /\ g.turn = h.turn
  BY DEF Shaped

LEMMA FreeShaped == Shaped(Free) /\ Free.pc = "free"
  BY DEF Shaped, Free, Busy

LEMMA BusyShaped ==
    ASSUME NEW kind, NEW pc
    PROVE  Shaped(Busy(kind, pc)) /\ Busy(kind, pc).kind = kind /\ Busy(kind, pc).pc = pc
  BY DEF Busy, Shaped

\* The initial state satisfies the inductive invariant.
LEMMA InitInv == Init => IInv
  BY FreeShaped DEF Init, IInv, ActiveHoldsGate

\* A step that leaves the holder and the active turn alone.
LEMMA Untouched == ASSUME IInv, UNCHANGED <<holder, active>> PROVE IInv'
  BY DEF IInv, ActiveHoldsGate, Shaped

\* A step that leaves no turn active.
LEMMA Inactive == ASSUME Shaped(holder'), active' = NoTurn PROVE IInv'
  BY DEF IInv, ActiveHoldsGate, Shaped

\* A holder that does not run a turn has not made one active.
LEMMA NoneActive ==
    ASSUME IInv, holder.pc \notin {"run", "status", "ended"} PROVE active = NoTurn
  BY DEF IInv, ActiveHoldsGate

LEMMA FreeInactive == ASSUME IInv, holder = Free PROVE active = NoTurn
  BY NoneActive, FreeShaped

LEMMA TryStartInv ==
    ASSUME IInv, NEW m, NEW others, TryStart(m, others), active' = active PROVE IInv'
<1>1. CASE holder = Free
  <2>1. holder' = holder \/ holder' = [Busy("async", "start") EXCEPT !.msg = m]
    BY DEF TryStart
  <2>2. Shaped([Busy("async", "start") EXCEPT !.msg = m])
    BY DEF Busy, Shaped
  <2>3. Shaped(holder')
    BY <2>1, <2>2 DEF IInv
  <2> QED BY <1>1, <2>3, FreeInactive, Inactive
<1>2. CASE holder # Free
  BY <1>2, Untouched DEF TryStart
<1> QED BY <1>1, <1>2

LEMMA TakenInv ==
    ASSUME IInv, holder = Free, Shaped(holder'), active' = active PROVE IInv'
  BY FreeInactive, Inactive

LEMMA ApproveInv == ASSUME IInv, ApprovePermission PROVE IInv'
<1>1. PICK pc \in Begin : holder' = [Busy("resume", pc) EXCEPT !.turn = Len(turns) + 1]
  BY DEF ApprovePermission
<1>2. Shaped(holder')
  BY <1>1 DEF Busy, Shaped
<1> QED BY <1>2, TakenInv DEF ApprovePermission

LEMMA RetryInv == ASSUME IInv, RetryTurn PROVE IInv'
<1>1. Shaped(holder')
  BY DEF RetryTurn, Busy, Shaped
<1> QED BY <1>1, TakenInv DEF RetryTurn

LEMMA BeginPc == Begin \subseteq {"run", "ended"}
  BY DEF Begin

LEMMA ResumeInv == ASSUME IInv, ResumeTurn PROVE IInv'
<1>1. Shaped(holder')
  BY DEF ResumeTurn, Busy, Shaped
<1> QED BY <1>1, TakenInv DEF ResumeTurn

LEMMA ReturnInv == ASSUME IInv, NEW out, RunReturns(out) PROVE IInv'
<1>1. holder' = [holder EXCEPT !.pc = "status", !.out = out] /\ active' = active
  BY DEF RunReturns
<1>2. /\ Shaped(holder') /\ holder'.kind = holder.kind
      /\ holder'.pc = "status" /\ holder'.turn = holder.turn
  BY <1>1 DEF Shaped, IInv
<1> QED BY <1>1, <1>2 DEF IInv, ActiveHoldsGate

LEMMA FinishInv == ASSUME IInv, FinishTurn PROVE IInv'
<1>1. holder' = [holder EXCEPT !.pc = "ended"] /\ active' = active
  BY DEF FinishTurn
<1>2. /\ Shaped(holder') /\ holder'.kind = holder.kind
      /\ holder'.pc = "ended" /\ holder'.turn = holder.turn
  BY <1>1, Moved DEF IInv
<1> QED BY <1>1, <1>2 DEF IInv, ActiveHoldsGate

LEMMA ClearInv == ASSUME IInv, ClearActive PROVE IInv'
<1>1. active' = NoTurn
  BY DEF ClearActive, IInv, ActiveHoldsGate
<1>2. Shaped(holder')
  BY FreeShaped, Moved, SMTT(20) DEF ClearActive, IInv
<1> QED BY <1>1, <1>2, Inactive

\* The steps of a goroutine that holds the token without an active turn.
LEMMA IdleHolderInv ==
    ASSUME IInv,
           holder.pc \in {"start", "begin", "release", "drop", "op", "done", "mark", "recover"},
           Shaped(holder'), active' = active
    PROVE  IInv'
  BY NoneActive, Inactive

LEMMA StartInv == ASSUME IInv, StartTurn PROVE IInv'
<1>1. holder' = [holder EXCEPT !.pc = "begin", !.turn = Len(turns) + 1]
  BY DEF StartTurn
<1>2. Shaped(holder')
  BY <1>1 DEF Shaped, IInv
<1> QED BY <1>2, IdleHolderInv DEF StartTurn

LEMMA BeginInv == ASSUME IInv, BeginTurn PROVE IInv'
<1>1. PICK pc \in Begin : holder' = [holder EXCEPT !.pc = pc]
  BY DEF BeginTurn
<1>2. /\ Shaped(holder') /\ holder'.kind = holder.kind
      /\ holder'.pc = pc /\ holder'.turn = holder.turn
  BY <1>1, Moved DEF IInv
<1>3. active = NoTurn
  BY NoneActive DEF BeginTurn
<1>4. CASE holder.kind = "async"
  BY <1>2, <1>4, BeginPc DEF BeginTurn, IInv, ActiveHoldsGate
<1>5. CASE holder.kind # "async"
  BY <1>2, <1>3, <1>5, Inactive DEF BeginTurn
<1> QED BY <1>4, <1>5

LEMMA DropInv == ASSUME IInv, DropQueued PROVE IInv'
<1>1. holder' = Free \/ holder' = [holder EXCEPT !.pc = "start", !.msg = Head(queue).msg]
  BY DEF DropQueued
<1>2. Shaped(holder')
  BY <1>1, FreeShaped DEF Shaped, IInv
<1> QED BY <1>2, IdleHolderInv DEF DropQueued

LEMMA MarkInv == ASSUME IInv, MarkInterrupted PROVE IInv'
<1>1. holder' = Free \/ holder' = [holder EXCEPT !.pc = "recover", !.turn = Interrupted]
  BY DEF MarkInterrupted, Opened
<1>2. Shaped(holder')
  BY <1>1, FreeShaped DEF Shaped, IInv
<1> QED BY <1>2, IdleHolderInv DEF MarkInterrupted

LEMMA TakeForQueuedInv == ASSUME IInv, NEW i, TakeForQueued(i) PROVE IInv'
<1>1. CASE holder = Free
  <2>1. Shaped(holder')
    BY <1>1 DEF TakeForQueued, Busy, Shaped
  <2> QED BY <1>1, <2>1, TakenInv DEF TakeForQueued
<1>2. CASE holder # Free
  BY <1>2, Untouched DEF TakeForQueued
<1> QED BY <1>1, <1>2

\* Clients and the operating system.
LEMMA EnvironmentInv == ASSUME IInv, Environment PROVE IInv'
<1>1. ASSUME NEW m, SubmitAsync(m) PROVE IInv'
  BY <1>1, TryStartInv DEF SubmitAsync
<1>2. ASSUME NEW m, Submit(m) PROVE IInv'
  <2>1. Shaped(holder')
    BY <1>2 DEF Submit, Busy, Shaped
  <2> QED BY <1>2, <2>1, TakenInv DEF Submit
<1>3. ASSUME NEW item, CancelQueuedTurn(item) \/ SteerQueuedTurn(item) PROVE IInv'
  BY <1>3, Untouched DEF CancelQueuedTurn, SteerQueuedTurn
<1>4. CASE CancelTurn \/ DrainInjections \/ Checkpoint
  BY <1>4, Untouched DEF CancelTurn, DrainInjections, Checkpoint
<1>5. CASE ApprovePermission
  BY <1>5, ApproveInv
<1>6. CASE RetryTurn
  BY <1>6, RetryInv
<1>7. CASE ResumeTurn
  BY <1>7, ResumeInv
<1>8. CASE Crash
  BY <1>8, BusyShaped, Inactive DEF Crash
<1>9. ASSUME NEW kind, TakeGate(kind) PROVE IInv'
  BY <1>9, BusyShaped, TakenInv DEF TakeGate
<1> QED
  BY <1>1, <1>2, <1>3, <1>4, <1>5, <1>6, <1>7, <1>8, <1>9, SMTT(20) DEF Environment

\* The goroutine that holds the token.
LEMMA HolderInv == ASSUME IInv, HolderStep PROVE IInv'
<1>1. CASE StartTurn
  BY <1>1, StartInv
<1>2. CASE FinishTurn
  BY <1>2, FinishInv
<1>3. CASE ClearActive
  BY <1>3, ClearInv
<1>4. CASE DropQueued
  BY <1>4, DropInv
<1>5. ASSUME NEW out, RunReturns(out) PROVE IInv'
  BY <1>5, ReturnInv
<1>6. CASE MarkInterrupted
  BY <1>6, MarkInv
<1>7. CASE BeginTurn
  BY <1>7, BeginInv
<1>8. CASE StartFails \/ Release \/ Return
  <2>1. holder' = Free /\ active' = active
    BY <1>8 DEF StartFails, Release, Return, Opened
  <2>2. holder.pc \in {"start", "release", "done"}
    BY <1>8 DEF StartFails, Release, Return
  <2> QED BY <2>1, <2>2, FreeShaped, IdleHolderInv, SMTT(20)
<1>9. CASE EndCommand \/ RecoverInterrupted
  <2>1. holder' = [holder EXCEPT !.pc = "done"] /\ active' = active
    BY <1>9 DEF EndCommand, RecoverInterrupted
  <2>2. holder.pc \in {"op", "recover"}
    BY <1>9 DEF EndCommand, RecoverInterrupted
  <2>3. Shaped(holder')
    BY <2>1, Moved DEF IInv
  <2> QED BY <2>1, <2>2, <2>3, IdleHolderInv, SMTT(20)
<1> QED
  BY <1>1, <1>2, <1>3, <1>4, <1>5, <1>6, <1>7, <1>8, <1>9, SMTT(20) DEF HolderStep

\* Every step keeps the inductive invariant.
LEMMA StepInv == IInv /\ [Next]_vars => IInv'
<1> SUFFICES ASSUME IInv, [Next]_vars PROVE IInv'
  OBVIOUS
<1>1. CASE Environment
  BY <1>1, EnvironmentInv
<1>2. CASE HolderStep
  BY <1>2, HolderInv
<1>3. CASE CallStep
  <2>1. PICK c \in calls : Enqueue(c) \/ InjectActiveTurn(c) \/ Inject(c) \/ MarkCanceling(c)
    BY <1>3 DEF CallStep
  <2>2. CASE InjectActiveTurn(c)
    <3>1. CASE TryStart(c.msg, calls \ {c})
      BY <2>2, <3>1, TryStartInv DEF InjectActiveTurn
    <3>2. CASE UNCHANGED holder
      BY <2>2, <3>2, Untouched DEF InjectActiveTurn
    <3> QED BY <2>2, <3>1, <3>2 DEF InjectActiveTurn
  <2> QED BY <2>1, <2>2, Untouched DEF Enqueue, Inject, MarkCanceling
<1>4. ASSUME NEW i \in 0..MaxTurns, StarterStep(i) PROVE IInv'
  BY <1>4, Untouched, TakeForQueuedInv DEF StarterStep, PeekQueued
<1>5. CASE Write
  BY <1>5, Untouched DEF Write, Land, memory
<1>6. CASE UNCHANGED vars
  BY <1>6, Untouched DEF vars, memory
<1> QED BY <1>1, <1>2, <1>3, <1>4, <1>5, <1>6, SMTT(20) DEF Next

\* CancelTurn and steering only ever find the turn that holds the token.
THEOREM ActiveTurnHoldsToken == Spec => []ActiveHoldsGate
<1>1. IInv => ActiveHoldsGate
  BY DEF IInv
<1> QED BY <1>1, InitInv, StepInv, PTL DEF Spec

=============================================================================
