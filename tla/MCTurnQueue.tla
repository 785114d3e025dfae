----------------------------- MODULE MCTurnQueue -----------------------------
(* Small instances of TurnQueue for TLC.                                    *)
EXTENDS TurnQueue, TLC

CONSTANTS m1, m2, m3

Load(msgs, ops, outcomes, auto, t, i, n, k) ==
  [msgs |-> msgs, ops |-> ops, outcomes |-> outcomes, auto |-> auto, turns |-> t,
   items |-> i, calls |-> n, crashes |-> k]

\* Everything that takes the token, and starts that fail.
Calls == Load({m1, m2, m3}, {"submit", "sync", "unqueue", "command", "clear"},
              {"completed", "refused", "unavailable"}, FALSE, 3, 3, 2, 0)
\* Queued messages steered into turns that are canceled.
Steering == Load({m1, m2}, {"submit", "steer", "unqueue", "cancel"},
                 {"completed", "canceled"}, FALSE, 2, 4, 2, 0)
\* Turns that wait for an approval and are retried.
Approvals == Load({m1, m2}, {"submit", "cancel", "approve", "deny", "retry"},
                  {"completed", "canceled", "pending_approval"}, FALSE, 3, 2, 1, 0)
\* The process stops and recovers the turn it interrupted.
Restarts == Load({m1}, {"submit", "resume", "retry", "checkpoint"},
                   {"completed", "error"}, TRUE, 4, 4, 1, 3)
\* A message is queued while the recovery of another turn waits and is started.
Beside == Load({m1, m2}, {"submit", "unqueue"}, {"completed"}, TRUE, 4, 4, 2, 2)
\* The process stops while messages are steered.
Stops == Load({m1, m2}, {"submit", "steer"}, {"completed"}, TRUE, 2, 4, 1, 1)
\* Only asynchronous turns.
Async == Load({m1, m2, m3}, {"submit", "cancel"}, {"completed", "canceled"}, FALSE, 3, 3, 1, 0)

\* Two submissions.
Submits == Load({m1, m2}, {"submit"}, {"completed"}, FALSE, 2, 2, 1, 0)

AllWorkloads == {Calls, Steering, Approvals, Restarts, Beside, Stops, Async}
OnlySubmit == {Submits}
=============================================================================
