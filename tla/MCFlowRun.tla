------------------------------ MODULE MCFlowRun ------------------------------
(***************************************************************************)
(* Workloads for FlowRun: small flows, each with the calls, the outcomes   *)
(* and the faults that make it interesting.                                *)
(***************************************************************************)
EXTENDS FlowRun

AnyOut == {"none", "yes", "no"}

\* Two nodes a and b, b after a; by default both run as jobs and complete.
Plain ==
    [ids |-> <<"a", "b">>, static |-> 2, kind |-> [a |-> "job", b |-> "job"],
     deps |-> [a |-> {}, b |-> {"a"}], tries |-> [a |-> 1, b |-> 1],
     starts |-> [a |-> {"started"}, b |-> {"started"}],
     ends |-> [a |-> {"yes"}, b |-> {"yes"}],
     edges |-> <<>>, appends |-> <<>>, outputs |-> {}, deadline |-> FALSE, human |-> "none"]

\* A decision routes to one of two nodes; the run's output comes from one.
Branch ==
    [Plain EXCEPT !.ids = <<"a", "b", "c">>, !.static = 1,
       !.kind = [a |-> "sync", b |-> "job", c |-> "sync"],
       !.deps = [a |-> {}, b |-> {"a"}, c |-> {"a"}], !.tries = [a |-> 2, b |-> 1, c |-> 1],
       !.starts = [a |-> {"yes", "no", "transient"}, b |-> {"started", "refused"},
                   c |-> {"yes", "error"}],
       !.ends = [a |-> {}, b |-> {"yes", "error"}, c |-> {}],
       !.edges = <<[from |-> {"a"}, status |-> {"completed"}, out |-> {"yes"}, key |-> 1],
                   [from |-> {"a"}, status |-> {"completed"}, out |-> {"no"}, key |-> 2]>>,
       !.appends = <<<<"b">>, <<"c">>>>, !.outputs = {"b"}]

\* A loop: its body runs after a, at most twice, until it says yes.
Loop ==
    [Plain EXCEPT !.ids = <<"a", "b1", "b2">>, !.static = 1,
       !.kind = [a |-> "sync", b1 |-> "job", b2 |-> "job"],
       !.deps = [a |-> {}, b1 |-> {"a"}, b2 |-> {"b1"}], !.tries = [a |-> 1, b1 |-> 1, b2 |-> 1],
       !.starts = [a |-> {"yes"}, b1 |-> {"started"}, b2 |-> {"started"}],
       !.ends = [a |-> {}, b1 |-> {"yes", "no"}, b2 |-> {"yes", "no"}],
       !.edges = <<[from |-> {"a"}, status |-> {"completed"}, out |-> AnyOut, key |-> 1],
                   [from |-> {"b1", "b2"}, status |-> Terminal, out |-> {"none", "no"}, key |-> 1]>>,
       !.appends = <<<<"b1", "b2">>>>]

\* A human, then a job.
Human ==
    [Plain EXCEPT !.kind = [a |-> "human", b |-> "job"], !.human = "a",
       !.ends = [a |-> {"yes"}, b |-> {"yes"}]]

\* The human's answer decides whether the job is done at all.
Ask ==
    [Human EXCEPT !.static = 1, !.appends = <<<<"b">>>>,
       !.edges = <<[from |-> {"a"}, status |-> {"completed"}, out |-> {"yes"}, key |-> 1]>>]

\* Jobs that fail in ways worth a retry, and in others.
Retry ==
    [Plain EXCEPT !.tries = [a |-> 2, b |-> 1],
       !.ends = [a |-> {"yes", "transient", "error"}, b |-> {"yes", "transient"}]]

\* Two nodes side by side, and a deadline.
Deadline ==
    [Plain EXCEPT !.deps = [a |-> {}, b |-> {}], !.deadline = TRUE, !.tries = [a |-> 2, b |-> 1],
       !.ends = [a |-> {"yes", "transient"}, b |-> {"yes"}]]

\* Two nodes side by side; either may fail.
Parallel ==
    [Plain EXCEPT !.deps = [a |-> {}, b |-> {}],
       !.ends = [a |-> {"yes", "error"}, b |-> {"yes"}]]

Load(flow, calls, n) == [flow |-> flow, calls |-> calls, crashes |-> n, faults |-> {}]
Faulty(flow, calls, faults) == [Load(flow, calls, 0) EXCEPT !.faults = faults]

FlowWorkloads ==
    {Load(Branch, {"start", "wait"}, 0), Load(Branch, {"start"}, 1),
     Load(Branch, {"step"}, 0), Load(Ask, {"start", "reply"}, 0),
     Load(Loop, {"start", "refresh"}, 0), Load(Loop, {"start", "cancel"}, 0),
     Load(Human, {"start", "reply", "cancel"}, 0), Load(Human, {"start", "cancel"}, 0),
     Load(Human, {"start", "llm"}, 0), Load(Human, {"start", "llm", "cancel"}, 0),
     Load(Human, {"start", "fail", "reply"}, 0), Load(Human, {"start", "escalate", "reply"}, 0),
     Load(Human, {"start", "escalate", "cancel"}, 0),
     Faulty(Human, {"start", "llm", "fail"}, {"workflow"}),
     Faulty(Human, {"start", "escalate"}, {"target"}),
     Load(Retry, {"start", "wait"}, 0), Faulty(Retry, {"start", "cancel"}, {"version"}),
     Load(Deadline, {"start"}, 1), Load(Deadline, {"start", "cancel"}, 0),
     Load(Parallel, {"step", "cancel"}, 0)}
=============================================================================
