---------------------------- MODULE SubagentLease ----------------------------
(***************************************************************************)
(* The leases of subagent runs: the SQLite lease store                     *)
(* (core/lease/sqlite_store.go), the store's wrappers                      *)
(* (agent/subagent_store.go) and the beat loop that renews a run's lease   *)
(* and cancels the run when it is lost (agent/subagent_run.go).            *)
(*                                                                         *)
(* Time passes in units, Grain of them to a beat interval, so that a beat *)
(* may be served anywhere between two ticks.  The age of a lease is the    *)
(* time since it was last renewed; it has expired once it is Beats         *)
(* intervals old (the interval is ttl/3).  Each loop has its own ticker,   *)
(* which began with the run: its channel holds one tick, and a tick that   *)
(* finds it full is dropped (time.Ticker).                                 *)
(***************************************************************************)
EXTENDS Integers

CONSTANTS Jobs,
          Faults,    \* what can go wrong: store errors, stalled loops, crashes
          Beats,     \* ttl / interval
          Grain,     \* units of time in an interval
          LostLimit, \* subagentLeaseLostLimit
          MaxTokens, \* bound: runs started
          MaxAge     \* bound: how old an expired lease is told apart

ASSUME LeaseAssumption ==
    /\ Beats \in Nat \ {0}
    /\ Grain \in Nat \ {0}
    /\ LostLimit \in Nat \ {0}
    /\ MaxTokens \in Nat
    /\ MaxAge \in Nat /\ MaxAge >= Beats * Grain /\ MaxAge > LostLimit * Grain
    /\ Faults \subseteq {"error", "stall", "crash"}

VARIABLES row,   \* the job_leases row of each job
          run,   \* the run of each job
          up,    \* the process runs
          tokens, \* tokens handed out
          faults  \* what goes wrong in this behaviour

vars == <<row, run, up, tokens, faults>>

NoRow == [token |-> 0, age |-> 0]

\* pc: no run, a run without a lease and a beat loop, one whose loop waits for
\* the ticker, one whose loop has taken a tick and makes its heartbeat, one the
\* loop has canceled.  phase: time since the ticker's last tick; ticks: how
\* many its channel holds.
Run(pc, token, lost, phase, ticks) ==
    [pc |-> pc, token |-> token, lost |-> lost, phase |-> phase, ticks |-> ticks]

NoRun == Run("none", 0, 0, 0, 0)

Bare == Run("bare", 0, 0, 0, 0)

Init ==
    /\ row = [j \in Jobs |-> NoRow]
    /\ run = [j \in Jobs |-> NoRun]
    /\ up = TRUE
    /\ tokens = 0
    /\ faults \in SUBSET Faults

-----------------------------------------------------------------------------

\* runSubagentJobAsync: INSERT OR ABORT, one row per job; when it fails the
\* run goes on without a lease.
AcquireLease(j) ==
    /\ up /\ run[j].pc = "none"
    /\ tokens < MaxTokens
    /\ tokens' = tokens + 1
    /\ \/ /\ row[j] = NoRow
          /\ row' = [row EXCEPT ![j] = [token |-> tokens', age |-> 0]]
          /\ run' = [run EXCEPT ![j] = Run("wait", tokens', 0, 0, 0)]
       \/ /\ row[j] # NoRow \/ "error" \in faults
          /\ run' = [run EXCEPT ![j] = Bare]
          /\ UNCHANGED row
    /\ UNCHANGED <<up, faults>>

\* The loop takes the tick its ticker has ready.
TakeTick(j) ==
    /\ up /\ run[j].pc = "wait" /\ run[j].ticks > 0
    /\ run' = [run EXCEPT ![j] =
                 Run("beat", run[j].token, run[j].lost, run[j].phase, 0)]
    /\ UNCHANGED <<row, up, tokens, faults>>

\* A heartbeat renews the row with its token unless it has expired.
Renews(j) == row[j].token = run[j].token /\ row[j].age < Beats * Grain

Lost_Forgiven(r) == Run("wait", r.token, 0, r.phase, r.ticks)

Lost_Eager(r) ==
    IF r.lost + 2 >= LostLimit
    THEN Run("canceled", r.token, r.lost + 1, 0, 0)
    ELSE Run("wait", r.token, r.lost + 1, r.phase, r.ticks)

\* A beat that did not renew: the LostLimit-th in a row cancels the run and
\* ends the loop with its ticker.
Lost(r) ==
    IF r.lost + 1 >= LostLimit
    THEN Run("canceled", r.token, r.lost + 1, 0, 0)
    ELSE Run("wait", r.token, r.lost + 1, r.phase, r.ticks)

\* A store error counts as a lost beat (HeartbeatLease returns false).
HeartbeatLease(j) ==
    /\ up /\ run[j].pc = "beat"
    /\ \/ /\ Renews(j)
          /\ row' = [row EXCEPT ![j] = [token |-> row[j].token, age |-> 0]]
          /\ run' = [run EXCEPT ![j] =
                       Run("wait", run[j].token, 0, run[j].phase, run[j].ticks)]
       \/ /\ ~Renews(j) \/ "error" \in faults
          /\ run' = [run EXCEPT ![j] = Lost(run[j])]
          /\ UNCHANGED row
    /\ UNCHANGED <<up, tokens, faults>>

\* The run ends: the loop stops with its context, the row is deleted by token;
\* an error of the deletion is ignored.
ReleaseLease(j) ==
    /\ up /\ run[j].pc # "none"
    /\ run' = [run EXCEPT ![j] = NoRun]
    /\ \/ row' = [row EXCEPT ![j] =
                    IF run[j].token # 0 /\ row[j].token = run[j].token THEN NoRow ELSE row[j]]
       \/ "error" \in faults /\ UNCHANGED row
    /\ UNCHANGED <<up, tokens, faults>>

Older(r) ==
    [token |-> r.token, age |-> IF r = NoRow \/ r.age = MaxAge THEN r.age ELSE r.age + 1]

\* The ticker of a loop ticks after Grain units.
Rings(r) == r.pc \in {"wait", "beat"} /\ r.phase + 1 = Grain

\* A loop that still has a tick to serve.
Behind(r) == r.ticks > 0 \/ r.pc = "beat"

Ticked(r) ==
    Run(r.pc, r.token, r.lost,
        IF r.pc \notin {"wait", "beat"} \/ Rings(r) THEN 0 ELSE r.phase + 1,
        IF Rings(r) THEN 1 ELSE r.ticks)

\* A unit of time passes.  Without stalls a loop serves each tick, sooner or
\* later, before the next.
Tick ==
    /\ "stall" \in faults \/ \A j \in Jobs : ~(Rings(run[j]) /\ Behind(run[j]))
    /\ row' = [j \in Jobs |-> Older(row[j])]
    /\ run' = [j \in Jobs |-> Ticked(run[j])]
    /\ UNCHANGED <<up, tokens, faults>>

Crash ==
    /\ "crash" \in faults
    /\ up /\ up' = FALSE
    /\ run' = [j \in Jobs |-> NoRun]
    /\ UNCHANGED <<row, tokens, faults>>

Expired == {j \in Jobs : row[j] # NoRow /\ row[j].age >= Beats * Grain}

\* A new process wires the lease store, which deletes one by one what has
\* expired; an error stops it there and is ignored.
ReapExpired ==
    /\ ~up /\ up' = TRUE
    /\ \E S \in SUBSET Expired :
         /\ S = Expired \/ "error" \in faults
         /\ row' = [j \in Jobs |-> IF j \in S THEN NoRow ELSE row[j]]
    /\ UNCHANGED <<run, tokens, faults>>

Next ==
    \/ \E j \in Jobs :
         AcquireLease(j) \/ TakeTick(j) \/ HeartbeatLease(j) \/ ReleaseLease(j)
    \/ Tick \/ Crash \/ ReapExpired

Spec == Init /\ [][Next]_vars

-----------------------------------------------------------------------------
(* Properties *)

\* The beat loop cancels a run that still owns its row only after an outage:
\* more than LostLimit - 1 intervals without a renewal when every tick is served
\* before the next, more than LostLimit - 2 when loops stall, however late a
\* beat was served and with a tick kept in the ticker's channel.  (It may cancel
\* a run whose lease has not expired yet: a beat served late renews late, while
\* the ticks that follow are on time.)
CanceledAfterOutage ==
    \A j \in Jobs :
      run[j].pc = "canceled" /\ row[j].token = run[j].token
        => /\ row[j].age > (LostLimit - 2) * Grain
           /\ "stall" \notin faults => row[j].age > (LostLimit - 1) * Grain

\* A run that has missed fewer than Beats - 1 beats in a row still owns its job
\* as long as every tick is served before the next: a transient error of the
\* store costs it nothing.
MissedBeatsKeepLease ==
    "stall" \notin faults =>
      \A j \in Jobs :
        run[j].pc \in {"wait", "beat"} /\ run[j].lost + 1 < Beats
          => row[j].token = run[j].token /\ row[j].age < Beats * Grain

=============================================================================
