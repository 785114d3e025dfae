-------------------------- MODULE MCFlowSessionStore --------------------------
(* The instance of FlowSessionStore for TLC. *)
EXTENDS FlowSessionStore, TLC

\* Workers are interchangeable: no action or property tells them apart.
WorkerSymmetry == Permutations(Workers)

\* Either any client events and one change of the generation, or unnumbered
\* events of one source and three: enough for a pause and a resume behind the
\* back of a worker that then commits.
StoreBounds ==
  {[inputs |-> Input, events |-> 3, gen |-> 2],
   [inputs |-> [source : {CHOOSE s \in Sources : TRUE}, sseq : {0}, type : ClientTypes],
    events |-> 3, gen |-> 4]}
=============================================================================
