------------------------------- MODULE MCCron -------------------------------
\* Instances of the cron scheduler: j1 runs every second, a1 once.
EXTENDS Cron

CONSTANTS a1, j1

AllJobs == <<j1, a1>>

Load(jobs, ops, caps, time, n, k) ==
    [jobs |-> jobs, ops |-> ops, caps |-> caps, time |-> time, calls |-> n, crashes |-> k]

\* One job that is edited, started by hand and deleted while it runs; the
\* limit is reloaded.
Edits == Load({a1}, {"run", "toggle", "delete", "reload"}, <<1, 2>>, 2, 2, 0)
\* The process stops during runs.
Crashes == Load({j1}, {"run"}, <<1>>, 1, 1, 1)
\* Two jobs and RunNow compete for one place.
Competing == Load({j1, a1}, {"run"}, <<1>>, 1, 1, 0)
\* A job that is edited and started by hand while it runs and becomes due again.
Updates == Load({j1}, {"run", "update"}, <<1>>, 2, 2, 0)
\* The service is stopped and started during runs.
Stops == Load({j1}, {"run", "stop"}, <<1>>, 1, 2, 0)

AllWorkloads == {Edits, Crashes, Competing, Updates, Stops}
Plain == {Load({j1, a1}, {}, <<1>>, 2, 0, 0)}

=============================================================================
