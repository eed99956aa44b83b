-------------------------- MODULE MCSelectorPlanner --------------------------
(***************************************************************************)
(* Three tasks, each of one to three candidates. A task costs an overhead  *)
(* of one and what its candidates weigh, a candidate alone the same        *)
(* overhead and its weight.                                                *)
(***************************************************************************)
EXTENDS SelectorPlanner

Weights == {<<1>>, <<2>>, <<1, 1>>, <<2, 1>>, <<1, 2, 1>>}

CostOf(w) == 1 + FoldSeq(+, 0, w)

\* two is too little for a candidate of weight two; four and five split
\* batches and candidate sets in different places
MCInputs ==
  {[max |-> m, cost |-> [t \in Task |-> CostOf(w[t])],
    candidateCost |-> [t \in Task |-> [c \in DOMAIN w[t] |-> 1 + w[t][c]]],
    windowed |-> s, fits |-> f] :
     m \in {NoBudget, 2, 4, 5}, w \in [Task -> Weights],
     s \in {{}, {2}, {1, 3}}, f \in {{}, Task}}
=============================================================================
