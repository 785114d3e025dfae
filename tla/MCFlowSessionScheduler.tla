----------------------- MODULE MCFlowSessionScheduler -----------------------
(* Small instances of FlowSessionScheduler for TLC: one lane of signals.    *)
EXTENDS FlowSessionScheduler, TLC

CONSTANT l1

CoordinatorSymmetry == Permutations(Coordinators)

Load(sources, policy, keys, controls, events, signals, changes, faults, crowds) ==
  [sources |-> sources, dropNewest |-> policy, deadlines |-> policy, periodic |-> {},
   signalKeys |-> keys, controls |-> controls, events |-> events, signals |-> signals,
   changes |-> changes, faults |-> faults, crowds |-> crowds]

\* Two publishers of one lane beside the durable lane.
Publishers == Load({1, 2}, {}, 2, {"restart"}, 1, 1, 1, 0, 1)
\* Pause, resume, end, interrupt, restart and failed loads.
Control == Load({}, {}, 1, {"paused", "active", "completed", "interrupt", "restart"}, 1, 0, 2, 1, 0)
\* A source that replaces its signal while events come in.
Series == Load({1}, {}, 1, {}, 1, 2, 0, 0, 0)
\* Pause, end and restart without a resume, two events, failed loads and a full
\* task queue.
Ends == Load({}, {}, 1, {"paused", "completed", "restart"}, 2, 0, 2, 1, 1)
\* An interrupt beside a lane of signals, and with a second event.
Skips == Load({1}, {}, 1, {"interrupt"}, 1, 1, 1, 0, 0)
Skipped == Load({}, {}, 1, {"interrupt"}, 2, 0, 1, 0, 0)
\* Events that pauses take back, and events that are interrupted.
Pauses == Load({}, {}, 1, {"paused", "active"}, 1, 0, 2, 0, 0)
Interrupts == Load({}, {}, 1, {"interrupt"}, 1, 0, 2, 0, 0)
\* Signals of a lane with a deadline and policy drop_newest.
Signals == Load({1}, {l1}, 1, {}, 1, 1, 0, 0, 1)
\* A lane with an interval, in a session that is paused and resumed, ...
Periodic == [Load({}, {}, 1, {"paused", "active"}, 0, 0, 2, 0, 0) EXCEPT !.periodic = {l1}]
\* ... whose process is restarted, and whose specification is not read at once, ...
Restarting == [Load({}, {}, 1, {"paused", "restart"}, 0, 0, 1, 1, 0) EXCEPT !.periodic = {l1}]
\* ... and that ends with a signal under way.
Ending == [Load({}, {}, 1, {"completed"}, 0, 1, 1, 0, 0) EXCEPT !.periodic = {l1}]

Safety == {Publishers, Control, Series, Ends, Skips, Skipped}
Live == {Interrupts, Signals, Periodic, Restarting, Ending}
Resumes == {Pauses}
=============================================================================
