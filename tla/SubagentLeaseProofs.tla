------------------------- MODULE SubagentLeaseProofs -------------------------
(***************************************************************************)
(* Proof that the beat loop cancels a run only after an outage, and that a *)
(* run which has missed few beats keeps its lease, for every set of jobs,  *)
(* every ttl, interval and limit of missed beats, under store errors,      *)
(* stalls and crashes.                                                     *)
(***************************************************************************)
EXTENDS SubagentLease, TLAPS

USE SMTT(30)

RowType == [token : Nat, age : 0..MaxAge]

RunType == [pc : {"none", "bare", "wait", "beat", "canceled"}, token : Nat,
            lost : 0..LostLimit, phase : 0..Grain, ticks : 0..1]

Looping(r) == r.pc \in {"wait", "beat"}

\* The beats a loop has missed since its last renewal, with the tick it serves
\* and the one that waits in the ticker's channel.
Owed(r) ==
    r.lost + r.ticks + (IF r.pc = "beat" THEN 1 ELSE 0)

\* The time these stand for.
Late(r) == Owed(r) * Grain + r.phase

\* The time a loop is behind and the age of its lease run together.  They part
\* by less than two intervals, by less than one when every tick is served
\* before the next: what a late renewal, and a tick that waited while it was
\* made, put between them.
JobInv(w, r, f) ==
    /\ w \in RowType
    /\ r \in RunType
    /\ Looping(r) => r.token # 0 /\ r.lost < LostLimit /\ r.phase < Grain
    /\ ~Looping(r) => r.phase = 0 /\ r.ticks = 0
    /\ r.pc = "canceled" => r.token # 0 /\ r.lost = LostLimit
    /\ r.token # 0 /\ w.token = r.token /\ w.age # MaxAge
         => /\ Late(r) < w.age + 2 * Grain
            /\ "stall" \notin f => Late(r) < w.age + Grain
    /\ Looping(r) /\ "stall" \notin f
         => w.token = r.token /\ ~(r.ticks > 0 /\ r.pc = "beat") /\ w.age <= Late(r)

IInv ==
    /\ row \in [Jobs -> RowType]
    /\ run \in [Jobs -> RunType]
    /\ tokens \in Nat
    /\ ~up => \A j \in Jobs : run[j] = NoRun
    /\ \A j \in Jobs : JobInv(row[j], run[j], faults)

\* Multiplying by the length of an interval.
LEMMA Times ==
    ASSUME NEW n \in Nat, NEW m \in Nat
    PROVE  /\ n * Grain \in Nat
           /\ (n + 1) * Grain = n * Grain + Grain
           /\ n <= m => n * Grain <= m * Grain
  BY LeaseAssumption DEF LeaseAssumption

\* Only the row and the run of one job change, and they keep its invariant.
LEMMA OneJob ==
    ASSUME IInv, NEW j \in Jobs, NEW w, NEW r, JobInv(w, r, faults), tokens' \in Nat, up, up',
           row' = [row EXCEPT ![j] = w], run' = [run EXCEPT ![j] = r], faults' = faults
    PROVE  IInv'
<1>1. w \in RowType /\ r \in RunType
  BY DEF JobInv
<1> QED BY <1>1 DEF IInv

\* The state of a job without a run, or with one that has no lease.
LEMMA NoRunInv ==
    ASSUME NEW w \in RowType, NEW f
    PROVE  JobInv(w, NoRun, f) /\ JobInv(w, Bare, f)
  BY LeaseAssumption DEF JobInv, NoRun, Bare, Run, RunType, Looping, LeaseAssumption

LEMMA NoRowType == NoRow \in RowType
  BY LeaseAssumption DEF NoRow, RowType, LeaseAssumption

\* The initial state satisfies the inductive invariant.
LEMMA InitInv == Init => IInv
<1> SUFFICES ASSUME Init PROVE IInv
  OBVIOUS
<1>1. JobInv(NoRow, NoRun, faults)
  BY NoRunInv, NoRowType
<1>2. NoRun \in RunType
  BY <1>1 DEF JobInv
<1> QED BY <1>1, <1>2, NoRowType DEF Init, IInv

LEMMA AcquireInv == ASSUME NEW j \in Jobs, IInv, AcquireLease(j) PROVE IInv'
<1> DEFINE new == [token |-> tokens', age |-> 0]
           leased == Run("wait", tokens', 0, 0, 0)
<1>0. tokens' \in Nat \ {0} /\ up /\ up' /\ faults' = faults
  BY DEF AcquireLease, IInv
<1>1. JobInv(new, leased, faults)
  <2>1. Late(leased) = 0
    BY LeaseAssumption DEF Late, Owed, Run, LeaseAssumption
  <2>2. new \in RowType /\ leased \in RunType
    BY <1>0, LeaseAssumption DEF RowType, RunType, Run, LeaseAssumption
  <2> QED BY <1>0, <2>1, <2>2, LeaseAssumption
      DEF JobInv, Looping, Run, LeaseAssumption
<1>2. JobInv(row[j], Bare, faults)
  BY NoRunInv DEF IInv
<1>3. \/ row' = [row EXCEPT ![j] = new] /\ run' = [run EXCEPT ![j] = leased]
      \/ row' = [row EXCEPT ![j] = row[j]] /\ run' = [run EXCEPT ![j] = Bare]
  BY DEF AcquireLease, IInv, Run
<1> HIDE DEF new, leased
<1> QED BY <1>0, <1>1, <1>2, <1>3, OneJob

\* Taking a tick leaves as many beats owed.
LEMMA TakeTickInv == ASSUME NEW j \in Jobs, IInv, TakeTick(j) PROVE IInv'
<1> DEFINE taken == Run("beat", run[j].token, run[j].lost, run[j].phase, 0)
<1>0. /\ JobInv(row[j], run[j], faults) /\ tokens' \in Nat /\ up /\ up' /\ faults' = faults
      /\ run[j].pc = "wait" /\ run[j].ticks > 0
  BY DEF TakeTick, IInv
<1>1. run[j] \in RunType
  BY <1>0 DEF JobInv
<1>2. Late(taken) = Late(run[j])
  BY <1>0, <1>1 DEF Late, Owed, Run, RunType
<1>3. JobInv(row[j], taken, faults)
  <2>1. taken \in RunType
    BY <1>1 DEF Run, RunType
  <2>2. taken.pc = "beat" /\ taken.ticks = 0 /\ taken.token = run[j].token /\ taken.lost = run[j].lost
          /\ taken.phase = run[j].phase
    BY <1>1 DEF Run, RunType
  <2> HIDE DEF taken
  <2> QED BY <1>0, <1>2, <2>1, <2>2 DEF JobInv, Looping
<1>4. row' = [row EXCEPT ![j] = row[j]] /\ run' = [run EXCEPT ![j] = taken]
  BY <1>1 DEF TakeTick, IInv
<1> HIDE DEF taken
<1> QED BY <1>0, <1>3, <1>4, OneJob, Zenon

\* A lost beat counts as owed what was being served.
LEMMA LostInv ==
    ASSUME NEW w, NEW r, NEW f, JobInv(w, r, f), r.pc = "beat"
    PROVE  JobInv(w, Lost(r), f)
<1> USE LeaseAssumption DEF LeaseAssumption
<1> DEFINE l == Lost(r)
<1>0. w \in RowType /\ r \in RunType /\ r.lost < LostLimit /\ r.phase < Grain /\ r.token # 0
  BY DEF JobInv, Looping
<1>1. CASE r.lost + 1 >= LostLimit
  <2>1. l = Run("canceled", r.token, r.lost + 1, 0, 0)
    BY <1>1 DEF Lost, Run
  <2>2. l \in RunType /\ l.pc = "canceled" /\ l.token = r.token /\ l.lost = LostLimit
          /\ l.phase = 0 /\ l.ticks = 0 /\ l.lost = r.lost + 1
    BY <1>0, <1>1, <2>1 DEF Run, RunType
  <2> HIDE DEF l
  <2>3. Owed(l) = r.lost + 1
    BY <2>2, <1>0 DEF Owed, RunType
  <2>4. Owed(r) \in Nat /\ Owed(r) >= r.lost + 1 /\ r.lost \in Nat /\ r.phase \in Nat
    BY <1>0 DEF Owed, RunType
  <2>5. (r.lost + 1) * Grain \in Nat /\ Owed(r) * Grain \in Nat
          /\ (r.lost + 1) * Grain <= Owed(r) * Grain
    BY <2>4, Times
  <2>6. Late(l) \in Nat /\ Late(r) \in Nat /\ Late(l) <= Late(r)
    BY <2>2, <2>3, <2>4, <2>5 DEF Late
  <2>7. JobInv(w, l, f)
    BY <1>0, <2>2, <2>6 DEF JobInv, Looping, RowType
  <2> QED BY <2>7 DEF l
<1>2. CASE ~(r.lost + 1 >= LostLimit)
  <2>1. l = Run("wait", r.token, r.lost + 1, r.phase, r.ticks)
    BY <1>2 DEF Lost, Run
  <2>2. l \in RunType /\ l.pc = "wait" /\ l.token = r.token /\ l.lost = r.lost + 1
          /\ l.phase = r.phase /\ l.ticks = r.ticks /\ l.lost < LostLimit
    BY <1>0, <1>2, <2>1 DEF Run, RunType
  <2> HIDE DEF l
  <2>3. Late(l) = Late(r)
    BY <1>0, <2>2 DEF Late, Owed, RunType
  <2>4. JobInv(w, l, f)
    BY <1>0, <2>2, <2>3 DEF JobInv, Looping
  <2> QED BY <2>4 DEF l
<1> QED BY <1>1, <1>2

\* A renewal clears what is owed but for a tick that waits.
LEMMA HeartbeatInv == ASSUME NEW j \in Jobs, IInv, HeartbeatLease(j) PROVE IInv'
<1> USE LeaseAssumption DEF LeaseAssumption
<1> DEFINE renewed == [token |-> row[j].token, age |-> 0]
           rested == Run("wait", run[j].token, 0, run[j].phase, run[j].ticks)
<1>0. /\ JobInv(row[j], run[j], faults) /\ tokens' \in Nat /\ up /\ up' /\ faults' = faults
      /\ run[j].pc = "beat"
  BY DEF HeartbeatLease, IInv
<1>1. row[j] \in RowType /\ run[j] \in RunType
  BY <1>0 DEF JobInv
<1>2. ASSUME Renews(j) PROVE JobInv(renewed, rested, faults)
  <2>1. renewed \in RowType /\ rested \in RunType
    BY <1>1 DEF Run, RowType, RunType
  <2>2. /\ renewed.age = 0 /\ renewed.token = row[j].token
        /\ rested.pc = "wait" /\ rested.lost = 0 /\ rested.token = run[j].token
        /\ rested.phase = run[j].phase /\ rested.ticks = run[j].ticks
    BY <1>1 DEF Run, RowType, RunType
  <2>3. Late(rested) = run[j].ticks * Grain + run[j].phase
    <3> HIDE DEF rested
    <3> QED BY <2>2, <1>1 DEF Late, Owed, RunType
  <2>4. run[j].phase \in 0..(Grain - 1)
    BY <1>0, <1>1 DEF JobInv, Looping, RunType
  <2>5. /\ Late(rested) \in Nat /\ Late(rested) < 2 * Grain
        /\ run[j].ticks = 0 => Late(rested) < Grain
    <3>1. run[j].ticks \in 0..1
      BY <1>1 DEF RunType
    <3>2. run[j].ticks * Grain = 0 \/ run[j].ticks * Grain = Grain
      BY <3>1
    <3>3. run[j].ticks = 0 => run[j].ticks * Grain = 0
      BY <3>1
    <3> HIDE DEF rested
    <3> QED BY <2>3, <2>4, <3>2, <3>3
  <2>6. /\ row[j].token = run[j].token /\ run[j].token # 0
        /\ "stall" \notin faults => run[j].ticks = 0
    BY <1>0, <1>1, <1>2 DEF JobInv, Looping, Renews, RunType
  <2> HIDE DEF renewed, rested
  <2> QED BY <1>0, <2>1, <2>2, <2>4, <2>5, <2>6 DEF JobInv, Looping
<1>3. JobInv(row[j], Lost(run[j]), faults)
  BY <1>0, LostInv
<1>4. \/ Renews(j) /\ row' = [row EXCEPT ![j] = renewed] /\ run' = [run EXCEPT ![j] = rested]
      \/ row' = [row EXCEPT ![j] = row[j]] /\ run' = [run EXCEPT ![j] = Lost(run[j])]
  BY <1>1 DEF HeartbeatLease, IInv
<1> HIDE DEF renewed, rested
<1> QED BY <1>0, <1>2, <1>3, <1>4, OneJob

LEMMA ReleaseInv == ASSUME NEW j \in Jobs, IInv, ReleaseLease(j) PROVE IInv'
<1>1. PICK left \in {NoRow, row[j]} :
        row' = [row EXCEPT ![j] = left] /\ run' = [run EXCEPT ![j] = NoRun]
  BY DEF ReleaseLease, IInv
<1>2. left \in RowType /\ tokens' \in Nat /\ up /\ up' /\ faults' = faults
  BY NoRowType DEF IInv, ReleaseLease
<1>3. JobInv(left, NoRun, faults)
  BY <1>2, NoRunInv
<1> QED BY <1>1, <1>2, <1>3, OneJob, Zenon

\* A unit of time makes a loop a unit later, unless it drops a tick.
LEMMA TickedLate ==
    ASSUME NEW r \in RunType, Looping(r), r.phase < Grain
    PROVE  /\ Ticked(r) \in RunType
           /\ Ticked(r).pc = r.pc /\ Ticked(r).token = r.token /\ Ticked(r).lost = r.lost
           /\ Ticked(r).phase < Grain
           /\ Late(r) \in Nat /\ Late(Ticked(r)) \in Nat
           /\ Late(Ticked(r)) <= Late(r) + 1
           /\ ~(Rings(r) /\ Behind(r))
                => /\ Late(Ticked(r)) = Late(r) + 1
                   /\ ~(r.ticks > 0 /\ r.pc = "beat") => ~(Ticked(r).ticks > 0 /\ r.pc = "beat")
<1> USE LeaseAssumption DEF LeaseAssumption
<1> DEFINE t == Ticked(r)
<1>1. /\ t \in RunType /\ t.pc = r.pc /\ t.token = r.token /\ t.lost = r.lost
      /\ t.phase = IF Rings(r) THEN 0 ELSE r.phase + 1
      /\ t.ticks = IF Rings(r) THEN 1 ELSE r.ticks
  BY DEF Ticked, Run, RunType, Looping, Rings
<1> HIDE DEF t
<1>2. t.phase < Grain /\ (Rings(r) => r.phase + 1 = Grain) /\ r.phase \in Nat
  BY <1>1 DEF Rings, Looping, RunType
<1>3. Owed(r) \in Nat /\ Owed(t) = IF Rings(r) /\ r.ticks = 0 THEN Owed(r) + 1 ELSE Owed(r)
  BY <1>1 DEF Owed, RunType
<1>4. Owed(r) * Grain \in Nat /\ (Owed(r) + 1) * Grain = Owed(r) * Grain + Grain
  BY <1>3, Times
<1>5. /\ Late(r) = Owed(r) * Grain + r.phase
      /\ Late(t) = Owed(t) * Grain + t.phase
  BY DEF Late
<1>6. CASE ~Rings(r)
  <2>1. t.phase = r.phase + 1 /\ Owed(t) = Owed(r)
    BY <1>1, <1>3, <1>6
  <2>2. t.ticks = r.ticks
    BY <1>1, <1>6
  <2>3. Late(r) \in Nat /\ Late(t) \in Nat /\ Late(t) = Late(r) + 1
    BY <1>2, <1>4, <1>5, <2>1
  <2> QED BY <1>1, <1>2, <2>2, <2>3 DEF t
<1>7. CASE Rings(r) /\ r.ticks = 0
  BY <1>1, <1>2, <1>3, <1>4, <1>5, <1>7 DEF t, Behind
<1>8. CASE Rings(r) /\ r.ticks # 0
  <2>1. Behind(r)
    BY <1>8 DEF Behind, RunType
  <2>2. Late(r) \in Nat /\ Late(t) \in Nat /\ Late(t) <= Late(r) + 1
    BY <1>1, <1>2, <1>3, <1>4, <1>5, <1>8
  <2> QED BY <1>1, <1>2, <1>8, <2>1, <2>2 DEF t
<1> QED BY <1>6, <1>7, <1>8

\* What a unit of time does to one job.
LEMMA TickedInv ==
    ASSUME NEW w, NEW r, NEW f, JobInv(w, r, f),
           "stall" \in f \/ ~(Rings(r) /\ Behind(r))
    PROVE  JobInv(Older(w), Ticked(r), f)
<1> USE LeaseAssumption DEF LeaseAssumption
<1>1. w \in RowType /\ r \in RunType
  BY DEF JobInv
<1>2. /\ Older(w) \in RowType /\ Older(w).token = w.token
      /\ w.token # 0 => Older(w).age = IF w.age = MaxAge THEN w.age ELSE w.age + 1
      /\ w.age \in 0..MaxAge
  BY <1>1 DEF Older, RowType, NoRow
<1>3. CASE Looping(r)
  <2>1. r.phase < Grain
    BY <1>3 DEF JobInv
  <2> QED BY <1>1, <1>2, <1>3, <2>1, TickedLate DEF JobInv, Looping
<1>4. CASE ~Looping(r)
  <2>1. Ticked(r) = r
    BY <1>1, <1>4 DEF Ticked, Run, Rings, Looping, RunType, JobInv
  <2>2. Late(r) \in Nat
    BY <1>1, Times DEF Late, Owed, RunType
  <2> QED BY <1>1, <1>2, <1>4, <2>1, <2>2 DEF JobInv
<1> QED BY <1>3, <1>4

LEMMA TickInv == ASSUME IInv, Tick PROVE IInv'
<1>1. ASSUME NEW j \in Jobs PROVE JobInv(Older(row[j]), Ticked(run[j]), faults)
  BY TickedInv DEF IInv, Tick
<1>2. /\ tokens' \in Nat /\ up' = up /\ faults' = faults
      /\ row' = [j \in Jobs |-> Older(row[j])] /\ run' = [j \in Jobs |-> Ticked(run[j])]
  BY DEF Tick, IInv
<1>3. row' \in [Jobs -> RowType] /\ run' \in [Jobs -> RunType]
  BY <1>1, <1>2 DEF JobInv
<1>4. Ticked(NoRun) = NoRun
  BY DEF NoRun, Run, Ticked, Rings
<1>5. ~up => \A j \in Jobs : run'[j] = NoRun
  BY <1>2, <1>4 DEF IInv
<1> QED BY <1>1, <1>2, <1>3, <1>5 DEF IInv

\* Every step keeps the inductive invariant.
LEMMA StepInv == IInv /\ [Next]_vars => IInv'
<1> SUFFICES ASSUME IInv, [Next]_vars PROVE IInv'
  OBVIOUS
<1>1. ASSUME NEW j \in Jobs, AcquireLease(j) PROVE IInv'
  BY <1>1, AcquireInv
<1>2. ASSUME NEW j \in Jobs, TakeTick(j) PROVE IInv'
  BY <1>2, TakeTickInv
<1>3. ASSUME NEW j \in Jobs, HeartbeatLease(j) PROVE IInv'
  BY <1>3, HeartbeatInv
<1>4. ASSUME NEW j \in Jobs, ReleaseLease(j) PROVE IInv'
  BY <1>4, ReleaseInv
<1>5. CASE Tick
  BY <1>5, TickInv
<1>6. CASE Crash
  <2>1. \A j \in Jobs : JobInv(row[j], NoRun, faults)
    BY NoRunInv DEF IInv
  <2>2. NoRun \in RunType \/ Jobs = {}
    BY <2>1 DEF JobInv
  <2> QED BY <1>6, <2>1, <2>2 DEF Crash, IInv
<1>7. CASE ReapExpired
  <2>1. /\ \A j \in Jobs : run[j] = NoRun /\ row[j] \in RowType
        /\ run' = run /\ tokens' = tokens /\ faults' = faults /\ up'
    BY <1>7 DEF ReapExpired, IInv
  <2>2. PICK S : row' = [j \in Jobs |-> IF j \in S THEN NoRow ELSE row[j]]
    BY <1>7 DEF ReapExpired
  <2>3. row' \in [Jobs -> RowType]
    BY <2>1, <2>2, NoRowType
  <2>4. \A j \in Jobs : JobInv(row'[j], NoRun, faults)
    BY <2>3, NoRunInv
  <2> QED BY <2>1, <2>3, <2>4 DEF IInv
<1>8. CASE UNCHANGED vars
  BY <1>8 DEF vars, IInv
<1> QED BY <1>1, <1>2, <1>3, <1>4, <1>5, <1>6, <1>7, <1>8 DEF Next

\* A canceled run owes LostLimit beats, so its lease is less than two intervals,
\* or one, short of LostLimit intervals.
LEMMA InvCanceled == IInv => CanceledAfterOutage
<1> USE LeaseAssumption DEF LeaseAssumption
<1> SUFFICES ASSUME IInv, NEW j \in Jobs, run[j].pc = "canceled",
                    row[j].token = run[j].token
             PROVE  /\ row[j].age > (LostLimit - 2) * Grain
                    /\ "stall" \notin faults => row[j].age > (LostLimit - 1) * Grain
  BY DEF CanceledAfterOutage
<1>1. JobInv(row[j], run[j], faults)
  BY DEF IInv
<1>2. /\ run[j].lost = LostLimit /\ run[j].token # 0 /\ run[j].phase = 0 /\ run[j].ticks = 0
      /\ row[j].age \in 0..MaxAge
  BY <1>1 DEF JobInv, Looping, RowType
<1>3. Late(run[j]) = LostLimit * Grain
  BY <1>2 DEF Late, Owed
<1>4. row[j].age # MaxAge
        => /\ LostLimit * Grain < row[j].age + 2 * Grain
           /\ "stall" \notin faults => LostLimit * Grain < row[j].age + Grain
  BY <1>1, <1>2, <1>3 DEF JobInv
<1>5. /\ (LostLimit - 2) * Grain = LostLimit * Grain - 2 * Grain
      /\ (LostLimit - 1) * Grain = LostLimit * Grain - Grain
      /\ LostLimit * Grain \in Nat
  OBVIOUS
<1> QED BY <1>2, <1>4, <1>5

\* A loop that serves its ticks in time is at most one beat and part of an
\* interval behind what it has counted as lost.
LEMMA InvMissed == IInv => MissedBeatsKeepLease
<1> USE LeaseAssumption DEF LeaseAssumption
<1> SUFFICES ASSUME IInv, "stall" \notin faults, NEW j \in Jobs,
                    Looping(run[j]), run[j].lost + 1 < Beats
             PROVE  row[j].token = run[j].token /\ row[j].age < Beats * Grain
  BY DEF MissedBeatsKeepLease, Looping
<1>1. JobInv(row[j], run[j], faults)
  BY DEF IInv
<1>2. /\ row[j].token = run[j].token /\ row[j].age <= Late(run[j])
      /\ ~(run[j].ticks > 0 /\ run[j].pc = "beat")
      /\ run[j].phase \in Nat /\ run[j].phase < Grain /\ run[j].lost \in Nat
      /\ run[j].ticks \in 0..1
      /\ row[j].age \in Nat
  BY <1>1 DEF JobInv, RowType, RunType
<1>3. Owed(run[j]) \in Nat /\ Owed(run[j]) + 1 <= Beats
  BY <1>2 DEF Owed
<1>4. /\ Owed(run[j]) * Grain \in Nat
      /\ (Owed(run[j]) + 1) * Grain = Owed(run[j]) * Grain + Grain
      /\ (Owed(run[j]) + 1) * Grain <= Beats * Grain
  BY <1>3, Times
<1> QED BY <1>2, <1>4 DEF Late

LEMMA Invariance == Spec => []IInv
  BY InitInv, StepInv, PTL DEF Spec

\* subagentLeaseBeatLoop cancels a run that still owns its row only after the
\* store has refused or failed it for more than LostLimit - 1 intervals, one
\* less when the loop stalls, however late it serves its beats.
THEOREM CancelNeedsOutage == Spec => []CanceledAfterOutage
  BY Invariance, InvCanceled, PTL

\* A run whose loop serves its ticks in time and has lost fewer than Beats - 1
\* beats in a row holds a lease that has not expired.
THEOREM FewMissesKeepLease == Spec => []MissedBeatsKeepLease
  BY Invariance, InvMissed, PTL

=============================================================================
