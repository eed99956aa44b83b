--------------------------- MODULE SelectorPlanner ---------------------------
(***************************************************************************)
(* How selector work is packed into calls that fit a prompt budget, one    *)
(* loop iteration at a time.                                               *)
(*                                                                         *)
(*   execution/strategies/independent.py  _plan_batch_selector_calls       *)
(*   execution/selector_planner.py        plan, plan_candidate_shards      *)
(*                                                                         *)
(* Tasks and candidates are numbered in declaration and source order. What *)
(* the prompt estimator says of a task, or of one of its candidates alone, *)
(* is part of the input and may be any number.                             *)
(***************************************************************************)
EXTENDS Naturals, Sequences, SequencesExt

CONSTANTS
  NumTasks,       \* the soft (field, candidate set) tasks of the run
  NoBudget,       \* selector_prompt_max_chars = None
  Inputs          \* the inputs to start from

Task == 1..NumTasks

\* candidateCost[t] lists the candidates of t; windowed: the field's policy
\* asks for document windows; fits: its windows can be planned (module
\* DocumentWindows)
Input == [max : Nat \cup {NoBudget}, cost : [Task -> Nat],
          candidateCost : [Task -> Seq(Nat) \ {<<>>}], windowed : SUBSET Task,
          fits : SUBSET Task]

\* the planner is called with at least one task
ASSUME PlannerAssumption ==
  /\ NumTasks \in Nat \ {0}
  /\ NoBudget \notin Nat
  /\ Inputs \subseteq Input

-----------------------------------------------------------------------------
VARIABLES
  pc,             \* the loop that runs
  input,          \* what the planner was called with
  next,           \* the first task _plan_batch_selector_calls has not seen
  pending,        \* pending_tasks
  queue,          \* the tasks plan() still has to pack
  batch,          \* its current_tasks
  batchEstimate,  \* its current_estimate
  oversize,       \* the task plan_candidate_shards works on
  candidate,      \* the candidate it looks at
  shard,          \* its current_candidates
  shardEstimate,  \* its current_estimate
  shards,         \* its shards
  plans           \* the plans made so far

vars == <<pc, input, next, pending, queue, batch, batchEstimate, oversize,
          candidate, shard, shardEstimate, shards, plans>>

packing == <<queue, batch, batchEstimate>>
sharding == <<oversize, candidate, shard, shardEstimate, shards>>

Oversized(t) == input.cost[t] > input.max

NumCandidates(t) == Len(input.candidateCost[t])

Plan(kind, tasks, estimate, parts) ==
  [kind |-> kind, tasks |-> tasks, estimate |-> estimate, shards |-> parts]

-----------------------------------------------------------------------------
(* _plan_batch_selector_calls                                              *)

\* no budget: everything in one call
PlanUnlimited ==
  /\ pc = "collect"
  /\ input.max = NoBudget
  /\ plans' = <<Plan("batch", [t \in Task |-> t], 0, <<>>)>>
  /\ pc' = "done"
  /\ UNCHANGED <<input, next, pending, packing, sharding>>

Collecting == pc = "collect" /\ input.max # NoBudget

NothingLeft == next \notin Task

\* the next task is an oversize document classifier
NeedsWindows == next \in Task \cap input.windowed /\ Oversized(next)

\* a task that fits, or is to be sharded, waits for plan()
Collect ==
  /\ Collecting
  /\ ~NothingLeft /\ ~NeedsWindows
  /\ pending' = Append(pending, next)
  /\ next' = next + 1
  /\ UNCHANGED <<pc, input, packing, sharding, plans>>

\* flush_pending comes before a windowed task and after the last one
MustFlush == pending # <<>> /\ (NothingLeft \/ NeedsWindows)

Flush ==
  /\ Collecting
  /\ MustFlush
  /\ queue' = pending
  /\ pending' = <<>>
  /\ pc' = "pack"
  /\ UNCHANGED <<input, next, batch, batchEstimate, sharding, plans>>

\* the document classifier gets windows, or the run is refused
PlanWindows ==
  /\ Collecting
  /\ NeedsWindows /\ ~MustFlush
  /\ IF next \in input.fits
     THEN /\ plans' = Append(plans, Plan("windowed", <<next>>,
                                         input.cost[next], <<>>))
          /\ next' = next + 1
          /\ UNCHANGED pc
     ELSE /\ pc' = "refused"
          /\ UNCHANGED <<next, plans>>
  /\ UNCHANGED <<input, pending, packing, sharding>>

Finish ==
  /\ Collecting
  /\ NothingLeft /\ ~MustFlush
  /\ pc' = "done"
  /\ UNCHANGED <<input, next, pending, packing, sharding, plans>>

-----------------------------------------------------------------------------
(* BudgetedBatchSelectorPlanner.plan                                       *)

BatchPlan == Plan("batch", batch, batchEstimate, <<>>)

\* mutant: a batch is closed only when it is full
ClosedWhenFull ==
  IF queue = <<>> \/ batch = <<>> THEN plans ELSE Append(plans, BatchPlan)

\* the plans once the batch under way, if there is one, is a call
Closed == IF batch = <<>> THEN plans ELSE Append(plans, BatchPlan)

Packing == pc = "pack" /\ queue # <<>>

\* an oversize task is sharded
PackOversize ==
  /\ Packing
  /\ Oversized(Head(queue))
  /\ plans' = Closed
  /\ batch' = <<>> /\ batchEstimate' = 0
  /\ oversize' = Head(queue)
  /\ queue' = Tail(queue)
  /\ candidate' = 1
  /\ shard' = <<>> /\ shardEstimate' = 0 /\ shards' = <<>>
  /\ pc' = "shard"
  /\ UNCHANGED <<input, next, pending>>

\* mutants: the estimate of the task is left out; a batch is never filled up
JoinsUnweighed(t) == batchEstimate <= input.max
JoinsStrictly(t) == batchEstimate + input.cost[t] < input.max

\* does the task go with the batch under way
Joins(t) == batchEstimate + input.cost[t] <= input.max

\* the first task of a batch, or one more that fits
PackJoin ==
  /\ Packing
  /\ ~Oversized(Head(queue))
  /\ batch = <<>> \/ Joins(Head(queue))
  /\ batch' = Append(batch, Head(queue))
  /\ batchEstimate' = batchEstimate + input.cost[Head(queue)]
  /\ queue' = Tail(queue)
  /\ UNCHANGED <<pc, input, next, pending, sharding, plans>>

\* the task starts a new batch
PackFull ==
  /\ Packing
  /\ ~Oversized(Head(queue))
  /\ batch # <<>> /\ ~Joins(Head(queue))
  /\ plans' = Closed
  /\ batch' = <<Head(queue)>>
  /\ batchEstimate' = input.cost[Head(queue)]
  /\ queue' = Tail(queue)
  /\ UNCHANGED <<pc, input, next, pending, sharding>>

PackEnd ==
  /\ pc = "pack" /\ queue = <<>>
  /\ plans' = Closed
  /\ batch' = <<>> /\ batchEstimate' = 0
  /\ pc' = "collect"
  /\ UNCHANGED <<input, next, pending, queue, sharding>>

-----------------------------------------------------------------------------
(* plan_candidate_shards                                                   *)

CandidateEstimate == input.candidateCost[oversize][candidate]

Sharding == pc = "shard" /\ candidate <= NumCandidates(oversize)

\* "selector_prompt_candidate_budget_exceeded"
ShardRefused ==
  /\ Sharding
  /\ CandidateEstimate > input.max
  /\ pc' = "refused"
  /\ UNCHANGED <<input, next, pending, packing, sharding, plans>>

ClosedShard ==
  Append(shards, [candidates |-> shard, estimate |-> shardEstimate])

ShardJoins == shardEstimate + CandidateEstimate <= input.max

ShardJoin ==
  /\ Sharding
  /\ CandidateEstimate <= input.max
  /\ shard = <<>> \/ ShardJoins
  /\ shard' = Append(shard, candidate)
  /\ shardEstimate' = shardEstimate + CandidateEstimate
  /\ candidate' = candidate + 1
  /\ UNCHANGED <<pc, input, next, pending, packing, oversize, shards, plans>>

\* mutant: the candidate that did not fit is forgotten
ShardFullForgets ==
  /\ Sharding
  /\ CandidateEstimate <= input.max
  /\ shard # <<>> /\ ~ShardJoins
  /\ shards' = ClosedShard
  /\ shard' = <<>>
  /\ shardEstimate' = 0
  /\ candidate' = candidate + 1
  /\ UNCHANGED <<pc, input, next, pending, packing, oversize, plans>>

ShardFull ==
  /\ Sharding
  /\ CandidateEstimate <= input.max
  /\ shard # <<>> /\ ~ShardJoins
  /\ shards' = ClosedShard
  /\ shard' = <<candidate>>
  /\ shardEstimate' = CandidateEstimate
  /\ candidate' = candidate + 1
  /\ UNCHANGED <<pc, input, next, pending, packing, oversize, plans>>

ShardEnd ==
  /\ pc = "shard" /\ candidate > NumCandidates(oversize)
  /\ plans' = Append(plans, Plan("sharded", <<oversize>>, input.cost[oversize],
                                 IF shard = <<>> THEN shards ELSE ClosedShard))
  /\ pc' = "pack"
  /\ UNCHANGED <<input, next, pending, packing, sharding>>

Ended ==
  /\ pc \in {"done", "refused"}
  /\ UNCHANGED vars

-----------------------------------------------------------------------------
Init ==
  /\ pc = "collect"
  /\ input \in Inputs
  /\ next = 1
  /\ pending = <<>>
  /\ queue = <<>> /\ batch = <<>> /\ batchEstimate = 0
  /\ oversize = 1 /\ candidate = 1
  /\ shard = <<>> /\ shardEstimate = 0 /\ shards = <<>>
  /\ plans = <<>>

Next == \/ PlanUnlimited \/ Collect \/ Flush \/ PlanWindows \/ Finish
        \/ PackOversize \/ PackJoin \/ PackFull \/ PackEnd
        \/ ShardRefused \/ ShardJoin \/ ShardFull \/ ShardEnd
        \/ Ended

\* a loop that can go on does
Spec == Init /\ [][Next]_vars /\ WF_vars(Next)

-----------------------------------------------------------------------------
(* Properties                                                              *)

Shard == [candidates : Seq(Nat) \ {<<>>}, estimate : Nat]

Call == [kind : {"batch", "sharded", "windowed"}, tasks : Seq(Task) \ {<<>>},
         estimate : Nat, shards : Seq(Shard)]

\* The type of every variable; no call is empty.
TypeOK ==
  /\ pc \in {"collect", "pack", "shard", "done", "refused"}
  /\ input \in Input
  /\ next \in 1..(NumTasks + 1)
  /\ pending \in Seq(Task) /\ queue \in Seq(Task) /\ batch \in Seq(Task)
  /\ batchEstimate \in Nat
  /\ oversize \in Task /\ candidate \in Nat \ {0}
  /\ shard \in Seq(Nat) /\ shardEstimate \in Nat /\ shards \in Seq(Shard)
  /\ plans \in Seq(Call)

Budgeted == input.max # NoBudget

\* No packed call and no shard is estimated over the budget.
CallsFit ==
  Budgeted =>
    \A k \in 1..Len(plans) :
      /\ plans[k].kind = "batch" => plans[k].estimate <= input.max
      /\ \A j \in 1..Len(plans[k].shards) :
           plans[k].shards[j].estimate <= input.max

\* s lists what follows a
Lists(s, a) == \A k \in 1..Len(s) : s[k] = a + k

EndOf(S, k) == IF k = 0 THEN 0 ELSE S[k][Len(S[k])]

\* the sequences of S list 1, 2, 3, ... one after the other
Chain(S) == \A k \in 1..Len(S) : S[k] # <<>> /\ Lists(S[k], EndOf(S, k - 1))

Covers(S, n) == Chain(S) /\ EndOf(S, Len(S)) = n

TaskLists == [k \in 1..Len(plans) |-> plans[k].tasks]

CandidateLists(p) == [j \in 1..Len(p.shards) |-> p.shards[j].candidates]

\* The plans take up every task once, in order, however packed calls,
\* windowed and sharded tasks interleave (ADR-0025: order-preserving).
TasksInOrder == pc = "done" => Covers(TaskLists, NumTasks)

\* The shards of a task are slices that together are its candidate set: none
\* dropped, none twice, in source order.
ShardsInOrder ==
  \A k \in 1..Len(plans) :
    plans[k].kind = "sharded" =>
      Covers(CandidateLists(plans[k]), NumCandidates(plans[k].tasks[1]))

\* A call ends only where one more task would not have fitted; so does a shard.
NoNeedlessSplit ==
  \A k \in 1..Len(plans) :
    /\ k < Len(plans) /\ plans[k].kind = "batch" /\ plans[k + 1].kind = "batch"
         => plans[k].estimate + input.cost[plans[k + 1].tasks[1]] > input.max
    /\ \A j \in 1..(Len(plans[k].shards) - 1) :
         plans[k].shards[j].estimate
           + input.candidateCost[plans[k].tasks[1]]
               [plans[k].shards[j + 1].candidates[1]] > input.max

Total(s, cost) == FoldSeq(LAMBDA x, sum : sum + cost[x], 0, s)

\* no split makes the task fit
Hopeless(t) ==
  /\ input.cost[t] > input.max
  /\ IF t \in input.windowed THEN t \notin input.fits
     ELSE \E c \in 1..NumCandidates(t) : input.candidateCost[t][c] > input.max

\* Planning is refused, before any call, exactly when some task is hopeless.
RefusedForCause ==
  Budgeted => /\ pc = "refused" => \E t \in Task : Hopeless(t)
              /\ pc = "done" => \A t \in Task : ~Hopeless(t)

=============================================================================
