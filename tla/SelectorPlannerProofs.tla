------------------------ MODULE SelectorPlannerProofs ------------------------
(***************************************************************************)
(* Proofs about SelectorPlanner, for any number of tasks, any estimates    *)
(* and any budget.                                                         *)
(***************************************************************************)
EXTENDS SelectorPlanner, TLAPS

-----------------------------------------------------------------------------
(* Types                                                                   *)

LEMMA PlanIsCall ==
  ASSUME NEW kind \in {"batch", "sharded", "windowed"},
         NEW tasks \in Seq(Task) \ {<<>>}, NEW estimate \in Nat,
         NEW parts \in Seq(Shard)
  PROVE  Plan(kind, tasks, estimate, parts) \in Call
BY DEF Plan, Call

LEMMA NoParts == <<>> \in Seq(Shard)
OBVIOUS

LEMMA InputTypes ==
  ASSUME TypeOK
  PROVE  /\ input.max \in Nat \cup {NoBudget}
         /\ \A t \in Task : /\ input.cost[t] \in Nat
                            /\ input.candidateCost[t] \in Seq(Nat) \ {<<>>}
                            /\ NumCandidates(t) \in Nat
         /\ NumTasks \in Nat \ {0} /\ NoBudget \notin Nat
<1>1. input \in Input
  BY DEF TypeOK
<1> QED
  BY <1>1, PlannerAssumption DEF Input, NumCandidates

LEMMA BatchPlanType ==
  ASSUME TypeOK, batch # <<>>
  PROVE  BatchPlan \in Call
<1>1. batch \in Seq(Task) \ {<<>>} /\ batchEstimate \in Nat
  BY DEF TypeOK
<1> QED
  BY <1>1, PlanIsCall, NoParts DEF BatchPlan

LEMMA ClosedType == TypeOK => Closed \in Seq(Call)
<1> SUFFICES ASSUME TypeOK PROVE Closed \in Seq(Call)
  OBVIOUS
<1>1. CASE batch = <<>>
  BY <1>1 DEF Closed, TypeOK
<1>2. CASE batch # <<>>
  <2>1. BatchPlan \in Call
    BY <1>2, BatchPlanType
  <2> QED
    BY <1>2, <2>1 DEF Closed, TypeOK
<1> QED
  BY <1>1, <1>2

LEMMA HeadType ==
  ASSUME TypeOK, queue # <<>>
  PROVE  /\ Head(queue) \in Task /\ Tail(queue) \in Seq(Task)
         /\ input.cost[Head(queue)] \in Nat
BY InputTypes, SMTT(30) DEF TypeOK

LEMMA CandidateTypes ==
  ASSUME TypeOK, Sharding
  PROVE  CandidateEstimate \in Nat
<1>1. /\ oversize \in Task
      /\ input.candidateCost[oversize] \in Seq(Nat)
  BY InputTypes DEF TypeOK
<1>2. candidate \in 1..Len(input.candidateCost[oversize])
  BY <1>1 DEF Sharding, NumCandidates, TypeOK
<1> QED
  BY <1>1, <1>2 DEF CandidateEstimate

LEMMA ClosedShardType ==
  ASSUME TypeOK, shard # <<>>
  PROVE  ClosedShard \in Seq(Shard)
BY DEF TypeOK, ClosedShard, Shard

LEMMA ShardPlanType ==
  ASSUME TypeOK
  PROVE  Plan("sharded", <<oversize>>, input.cost[oversize],
              IF shard = <<>> THEN shards ELSE ClosedShard) \in Call
<1>1. (IF shard = <<>> THEN shards ELSE ClosedShard) \in Seq(Shard)
  BY ClosedShardType DEF TypeOK
<1>2. <<oversize>> \in Seq(Task) \ {<<>>} /\ input.cost[oversize] \in Nat
  BY InputTypes DEF TypeOK
<1> QED
  BY <1>1, <1>2, PlanIsCall

LEMMA InputKept == [Next]_vars => UNCHANGED input
BY DEF Next, PlanUnlimited, Collect, Flush, PlanWindows, Finish, PackOversize,
       PackJoin, PackFull, PackEnd, ShardRefused, ShardJoin, ShardFull,
       ShardEnd, Ended, vars

LEMMA TypeStep == TypeOK /\ [Next]_vars => TypeOK'
<1> SUFFICES ASSUME TypeOK, [Next]_vars PROVE TypeOK'
  OBVIOUS
<1> USE InputTypes, ClosedType, HeadType
<1>1. CASE PlanUnlimited
  <2>1. [t \in Task |-> t] \in Seq(Task) \ {<<>>}
    <3>1. [t \in Task |-> t] \in Seq(Task)
      BY DEF Task
    <3>2. Len([t \in Task |-> t]) = NumTasks
      BY <3>1 DEF Task
    <3> QED
      BY <3>1, <3>2
  <2>2. Plan("batch", [t \in Task |-> t], 0, <<>>) \in Call
    BY <2>1, PlanIsCall, NoParts
  <2> QED
    BY <1>1, <2>2 DEF PlanUnlimited, TypeOK, packing, sharding
<1>2. CASE Collect
  BY <1>2 DEF Collect, Collecting, NothingLeft, Task, TypeOK, packing, sharding
<1>3. CASE Flush
  BY <1>3 DEF Flush, Collecting, TypeOK, sharding
<1>4. CASE PlanWindows
  <2>1. /\ next \in Task
        /\ <<next>> \in Seq(Task) \ {<<>>}
        /\ input.cost[next] \in Nat
    BY <1>4 DEF PlanWindows, NeedsWindows
  <2>2. Plan("windowed", <<next>>, input.cost[next], <<>>) \in Call
    BY <2>1, PlanIsCall, NoParts
  <2>3. next + 1 \in 1..(NumTasks + 1)
    BY <2>1 DEF Task
  <2>4. /\ UNCHANGED <<input, pending, packing, sharding>>
        /\ \/ /\ plans' = Append(plans, Plan("windowed", <<next>>,
                                            input.cost[next], <<>>))
              /\ next' = next + 1 /\ pc' = pc
           \/ pc' = "refused" /\ next' = next /\ plans' = plans
    BY <1>4 DEF PlanWindows
  <2> HIDE InputTypes, ClosedType, HeadType
  <2>5. plans' \in Seq(Call)
    <3>1. plans \in Seq(Call)
      BY DEF TypeOK
    <3>2. \/ plans' = plans
          \/ plans' = Append(plans, Plan("windowed", <<next>>,
                                         input.cost[next], <<>>))
      BY <2>4
    <3> QED
      BY <2>2, <3>1, <3>2
  <2>6. next' \in 1..(NumTasks + 1)
    BY <2>3, <2>4 DEF TypeOK
  <2>7. pc' \in {"collect", "pack", "shard", "done", "refused"}
    BY <2>4 DEF TypeOK
  <2> QED
    BY <2>4, <2>5, <2>6, <2>7 DEF TypeOK, packing, sharding
<1>5. CASE Finish
  BY <1>5 DEF Finish, Collecting, TypeOK, packing, sharding
<1>6. CASE PackOversize
  BY <1>6 DEF PackOversize, Packing, TypeOK
<1>7. CASE PackJoin
  <2>1. queue # <<>> /\ input.cost[Head(queue)] \in Nat
    BY <1>7 DEF PackJoin, Packing
  <2>2. batchEstimate + input.cost[Head(queue)] \in Nat
    <3>1. batchEstimate \in Nat
      BY DEF TypeOK
    <3> HIDE InputTypes, ClosedType, HeadType
    <3> QED
      BY <2>1, <3>1
  <2> QED
    BY <1>7, <2>1, <2>2 DEF PackJoin, TypeOK, sharding
<1>8. CASE PackFull
  BY <1>8 DEF PackFull, Packing, TypeOK, sharding
<1>9. CASE PackEnd
  BY <1>9 DEF PackEnd, TypeOK, sharding
<1>10. CASE ShardRefused
  BY <1>10 DEF ShardRefused, Sharding, TypeOK, packing, sharding
<1>11. CASE ShardJoin
  <2>1. CandidateEstimate \in Nat
    BY <1>11, CandidateTypes DEF ShardJoin
  <2>2. shardEstimate + CandidateEstimate \in Nat
    BY <2>1, SMTT(30) DEF TypeOK
  <2> QED
    BY <1>11, <2>2 DEF ShardJoin, TypeOK, packing
<1>12. CASE ShardFull
  BY <1>12, CandidateTypes, ClosedShardType DEF ShardFull, TypeOK, packing
<1>13. CASE ShardEnd
  <2>1. Plan("sharded", <<oversize>>, input.cost[oversize],
             IF shard = <<>> THEN shards ELSE ClosedShard) \in Call
    BY ShardPlanType
  <2> QED
    BY <1>13, <2>1 DEF ShardEnd, TypeOK, packing, sharding
<1>14. CASE UNCHANGED vars
  BY <1>14 DEF vars, TypeOK, packing, sharding
<1> QED
  BY <1>1, <1>2, <1>3, <1>4, <1>5, <1>6, <1>7, <1>8, <1>9, <1>10, <1>11,
     <1>12, <1>13, <1>14 DEF Next, Ended

LEMMA InitType == Init => TypeOK
<1>1. Init => input \in Input /\ 1 \in Task /\ 1 \in 1..(NumTasks + 1)
  BY PlannerAssumption DEF Init, Task
<1> QED
  BY <1>1 DEF Init, TypeOK

\* Every variable keeps its type, whatever the estimator says.
THEOREM TypeCorrect == Spec => []TypeOK
BY InitType, TypeStep, PTL DEF Spec

-----------------------------------------------------------------------------
(* Chains: sequences that list 1, 2, 3, ... one after the other            *)

LEMMA ChainAppend ==
  ASSUME NEW S \in Seq(Seq(Nat)), NEW s \in Seq(Nat), s # <<>>,
         Chain(S), Lists(s, EndOf(S, Len(S))), EndOf(S, Len(S)) \in Nat
  PROVE  /\ Chain(Append(S, s))
         /\ EndOf(Append(S, s), Len(S) + 1) = EndOf(S, Len(S)) + Len(s)
         /\ Len(Append(S, s)) = Len(S) + 1
<1> DEFINE T == Append(S, s)
           n == Len(S)
<1>1. /\ n \in Nat
      /\ Len(T) = n + 1
      /\ T[n + 1] = s
      /\ \A k \in 1..n : T[k] = S[k]
  OBVIOUS
<1> HIDE DEF T, n
<1>2. \A k \in 0..n : EndOf(T, k) = EndOf(S, k)
  BY <1>1 DEF EndOf
<1>3. EndOf(T, n + 1) = EndOf(S, n) + Len(s)
  <2>1. Len(s) \in 1..Len(s)
    OBVIOUS
  <2>2. s[Len(s)] = EndOf(S, n) + Len(s)
    BY <2>1 DEF Lists, n
  <2> QED
    BY <1>1, <2>2 DEF EndOf
<1>4. Chain(T)
  <2> SUFFICES ASSUME NEW k \in 1..(n + 1)
               PROVE  T[k] # <<>> /\ Lists(T[k], EndOf(T, k - 1))
    BY <1>1 DEF Chain
  <2>1. CASE k = n + 1
    <3>1. n \in 0..n /\ k - 1 = n
      BY <1>1, <2>1
    <3> QED
      BY <1>1, <1>2, <2>1, <3>1 DEF n
  <2>2. CASE k \in 1..n
    <3>1. k - 1 \in 0..n
      BY <1>1, <2>2
    <3>2. S[k] # <<>> /\ Lists(S[k], EndOf(S, k - 1))
      BY <2>2 DEF Chain, n
    <3> QED
      BY <1>1, <1>2, <2>2, <3>1, <3>2
  <2> QED
    BY <1>1, <2>1, <2>2
<1> QED
  BY <1>1, <1>3, <1>4 DEF T, n

LEMMA ListsAppend ==
  ASSUME NEW s \in Seq(Nat), NEW a \in Nat, Lists(s, a)
  PROVE  Lists(Append(s, a + Len(s) + 1), a)
BY DEF Lists

LEMMA ListsTail ==
  ASSUME NEW s \in Seq(Nat), NEW a \in Nat, Lists(s, a), s # <<>>
  PROVE  Head(s) = a + 1 /\ Lists(Tail(s), a + 1) /\ Len(Tail(s)) = Len(s) - 1
<1>1. /\ Head(s) = s[1] /\ 1 \in 1..Len(s)
      /\ Len(Tail(s)) = Len(s) - 1
      /\ \A k \in 1..Len(Tail(s)) : Tail(s)[k] = s[k + 1]
  OBVIOUS
<1>2. \A k \in 1..Len(Tail(s)) : k + 1 \in 1..Len(s) /\ (a + 1) + k = a + (k + 1)
  BY <1>1
<1> QED
  BY <1>1, <1>2 DEF Lists

-----------------------------------------------------------------------------
(* Tasks in order                                                          *)

\* the last task a plan is made for
PlanEnd == EndOf(TaskLists, Len(plans))

\* at every moment the plans, the batch, the queue of plan() and the pending
\* tasks, in this order, list the tasks before next
OrderInv ==
  /\ Chain(TaskLists)
  /\ pc = "collect" => /\ batch = <<>> /\ Lists(pending, PlanEnd)
                       /\ next = PlanEnd + Len(pending) + 1
  /\ pc = "pack" => /\ pending = <<>> /\ Lists(batch, PlanEnd)
                    /\ Lists(queue, PlanEnd + Len(batch))
                    /\ next = PlanEnd + Len(batch) + Len(queue) + 1
  /\ pc = "shard" => /\ pending = <<>> /\ batch = <<>>
                     /\ oversize = PlanEnd + 1
                     /\ Lists(queue, PlanEnd + 1)
                     /\ next = PlanEnd + 1 + Len(queue) + 1
  /\ pc = "done" => PlanEnd = NumTasks

LEMMA TasksAreNumbers == Seq(Task) \subseteq Seq(Nat)
<1> SUFFICES ASSUME NEW s \in Seq(Task) PROVE s \in Seq(Nat)
  OBVIOUS
<1>1. \A k \in 1..Len(s) : s[k] \in Nat
  BY PlannerAssumption DEF Task
<1> QED
  BY <1>1

LEMMA CallTypes ==
  ASSUME NEW p \in Call
  PROVE  /\ p.tasks \in Seq(Task) /\ p.tasks # <<>> /\ p.tasks \in Seq(Nat)
         /\ p.shards \in Seq(Shard) /\ p.estimate \in Nat
BY TasksAreNumbers DEF Call

LEMMA TaskListsType == TypeOK => TaskLists \in Seq(Seq(Nat)) /\ Len(TaskLists) = Len(plans)
<1> SUFFICES ASSUME TypeOK PROVE TaskLists \in Seq(Seq(Nat)) /\ Len(TaskLists) = Len(plans)
  OBVIOUS
<1>1. plans \in Seq(Call) /\ Len(plans) \in Nat
  BY DEF TypeOK
<1>2. \A k \in 1..Len(plans) : plans[k].tasks \in Seq(Nat)
  <2> SUFFICES ASSUME NEW k \in 1..Len(plans)
               PROVE  plans[k].tasks \in Seq(Nat)
    OBVIOUS
  <2>1. plans[k] \in Call
    BY <1>1
  <2> QED
    BY <2>1, CallTypes
<1> QED
  BY <1>1, <1>2 DEF TaskLists

LEMMA PlanEndType == TypeOK => PlanEnd \in Nat
<1> SUFFICES ASSUME TypeOK PROVE PlanEnd \in Nat
  OBVIOUS
<1>1. CASE Len(plans) = 0
  BY <1>1 DEF PlanEnd, EndOf
<1>2. CASE Len(plans) # 0
  <2>1. plans \in Seq(Call) /\ Len(plans) \in 1..Len(plans)
    BY <1>2 DEF TypeOK
  <2> DEFINE s == plans[Len(plans)].tasks
  <2>2. s \in Seq(Task) /\ s # <<>>
    <3>1. plans[Len(plans)] \in Call
      BY <2>1
    <3> QED
      BY <3>1, CallTypes
  <2>3. s[Len(s)] \in Task
    BY <2>2
  <2> QED
    BY <1>2, <2>1, <2>3 DEF PlanEnd, EndOf, TaskLists, Task
<1> QED
  BY <1>1, <1>2

LEMMA PlanAppended ==
  ASSUME TypeOK, Chain(TaskLists), NEW p \in Call, Lists(p.tasks, PlanEnd),
         plans' = Append(plans, p)
  PROVE  Chain(TaskLists)' /\ PlanEnd' = PlanEnd + Len(p.tasks)
<1>1. p.tasks \in Seq(Nat) /\ p.tasks # <<>>
  BY CallTypes
<1>2. /\ TaskLists' = Append(TaskLists, p.tasks)
      /\ Len(plans') = Len(plans) + 1
  <2>1. /\ plans \in Seq(Call) /\ Len(plans') = Len(plans) + 1
        /\ plans'[Len(plans) + 1] = p
        /\ \A k \in 1..Len(plans) : plans'[k] = plans[k]
    BY DEF TypeOK
  <2>2. TaskLists' = [k \in 1..(Len(plans) + 1) |-> plans'[k].tasks]
    BY <2>1 DEF TaskLists
  <2>3. TaskLists \in Seq(Seq(Nat)) /\ Len(TaskLists) = Len(plans)
    BY TaskListsType
  <2>4. Append(TaskLists, p.tasks)
          = [k \in 1..(Len(plans) + 1) |->
               IF k = Len(plans) + 1 THEN p.tasks ELSE plans[k].tasks]
    BY <2>1, <2>3 DEF TaskLists
  <2> QED
    BY <2>1, <2>2, <2>4
<1> QED
  BY <1>1, <1>2, TaskListsType, PlanEndType, ChainAppend DEF PlanEnd

LEMMA BatchClosed ==
  ASSUME TypeOK, Chain(TaskLists), Lists(batch, PlanEnd), plans' = Closed
  PROVE  Chain(TaskLists)' /\ PlanEnd' = PlanEnd + Len(batch)
<1>1. CASE batch = <<>>
  <2>1. plans' = plans /\ Len(batch) = 0
    BY <1>1 DEF Closed
  <2>2. TaskLists' = TaskLists /\ PlanEnd' = PlanEnd
    BY <2>1 DEF TaskLists, PlanEnd
  <2> QED
    BY <2>1, <2>2, PlanEndType
<1>2. CASE batch # <<>>
  <2>1. plans' = Append(plans, BatchPlan)
    BY <1>2 DEF Closed
  <2>2. BatchPlan \in Call /\ BatchPlan.tasks = batch
    BY <1>2, BatchPlanType DEF BatchPlan, Plan
  <2> QED
    BY <2>1, <2>2, PlanAppended
<1> QED
  BY <1>1, <1>2

\* the plans do not change: only what is under way is rearranged
LEMMA PlansKept ==
  ASSUME plans' = plans
  PROVE  PlanEnd' = PlanEnd /\ (Chain(TaskLists)' <=> Chain(TaskLists))
BY DEF PlanEnd, TaskLists

LEMMA OrderStep == TypeOK /\ OrderInv /\ [Next]_vars => OrderInv'
<1> SUFFICES ASSUME TypeOK, OrderInv, [Next]_vars PROVE OrderInv'
  OBVIOUS
<1>a. /\ PlanEnd \in Nat /\ NumTasks \in Nat \ {0}
      /\ pending \in Seq(Nat) /\ queue \in Seq(Nat) /\ batch \in Seq(Nat)
      /\ Chain(TaskLists) /\ next \in Nat
  BY PlanEndType, TasksAreNumbers, PlannerAssumption DEF TypeOK, OrderInv
<1>1. CASE PlanUnlimited
  <2> DEFINE s == [t \in Task |-> t]
  <2>1. /\ plans' = <<Plan("batch", s, 0, <<>>)>> /\ pc' = "done"
    BY <1>1 DEF PlanUnlimited
  <2>2. /\ s \in Seq(Nat) /\ Len(s) = NumTasks /\ s # <<>>
        /\ \A k \in 1..NumTasks : s[k] = k
    BY <1>a DEF Task
  <2>3. TaskLists' = <<s>> /\ Len(plans') = 1
    BY <2>1 DEF TaskLists, Plan
  <2> HIDE DEF s
  <2>4. EndOf(<<s>>, 0) = 0 /\ EndOf(<<s>>, 1) = NumTasks
    BY <2>2, <1>a DEF EndOf
  <2>5. Lists(s, 0)
    BY <2>2 DEF Lists
  <2>6. Chain(<<s>>)
    BY <2>2, <2>4, <2>5 DEF Chain
  <2> QED
    BY <2>1, <2>3, <2>4, <2>6 DEF OrderInv, PlanEnd
<1>2. CASE Collect
  <2>1. /\ pc = "collect" /\ pc' = pc
        /\ pending' = Append(pending, next) /\ next' = next + 1
        /\ plans' = plans /\ batch' = batch
    BY <1>2 DEF Collect, Collecting, packing
  <2>2. /\ batch = <<>> /\ Lists(pending, PlanEnd)
        /\ next = PlanEnd + Len(pending) + 1
    BY <2>1 DEF OrderInv
  <2>3. Lists(pending', PlanEnd) /\ Len(pending') = Len(pending) + 1
    BY <1>a, <2>1, <2>2, ListsAppend
  <2>4. next' = PlanEnd + Len(pending') + 1
    BY <1>a, <2>1, <2>2, <2>3
  <2> QED
    BY <1>a, <2>1, <2>2, <2>3, <2>4, PlansKept DEF OrderInv
<1>3. CASE Flush
  <2>1. /\ pc = "collect" /\ pc' = "pack" /\ queue' = pending
        /\ pending' = <<>> /\ UNCHANGED <<next, batch, plans>>
    BY <1>3 DEF Flush, Collecting
  <2>2. /\ batch = <<>> /\ Lists(pending, PlanEnd)
        /\ next = PlanEnd + Len(pending) + 1
    BY <2>1 DEF OrderInv
  <2>3. Len(<<>>) = 0 /\ Lists(<<>>, PlanEnd)
    BY DEF Lists
  <2> QED
    BY <1>a, <2>1, <2>2, <2>3, PlansKept DEF OrderInv
<1>4. CASE PlanWindows
  <2>1. /\ pc = "collect" /\ UNCHANGED <<pending, batch>>
        /\ next \in Task /\ pending = <<>> /\ batch = <<>>
        /\ next = PlanEnd + 1
    BY <1>4, <1>a DEF PlanWindows, Collecting, MustFlush, NeedsWindows, packing,
                     OrderInv
  <2>2. CASE next \in input.fits
    <3> DEFINE p == Plan("windowed", <<next>>, input.cost[next], <<>>)
    <3>1. plans' = Append(plans, p) /\ next' = next + 1 /\ pc' = pc
      BY <1>4, <2>2 DEF PlanWindows
    <3>2. p \in Call /\ p.tasks = <<next>>
      <4>1. input.cost[next] \in Nat /\ <<next>> \in Seq(Task) \ {<<>>}
        BY <2>1, InputTypes
      <4> QED
        BY <4>1, NoParts, PlanIsCall DEF Plan
    <3>3. Lists(<<next>>, PlanEnd) /\ Len(<<next>>) = 1
      BY <2>1 DEF Lists
    <3> HIDE DEF p
    <3>4. Chain(TaskLists)' /\ PlanEnd' = PlanEnd + 1
      BY <1>a, <3>1, <3>2, <3>3, PlanAppended
    <3>5. Lists(<<>>, PlanEnd')
      BY DEF Lists
    <3> QED
      BY <1>a, <2>1, <3>1, <3>4, <3>5 DEF OrderInv
  <2>3. CASE next \notin input.fits
    <3>1. plans' = plans /\ pc' = "refused"
      BY <1>4, <2>3 DEF PlanWindows
    <3> QED
      BY <1>a, <3>1, PlansKept DEF OrderInv
  <2> QED
    BY <2>2, <2>3
<1>5. CASE Finish
  <2>1. /\ pc = "collect" /\ pc' = "done" /\ plans' = plans
        /\ next \notin Task /\ pending = <<>>
        /\ next = PlanEnd + 1 /\ next \in 1..(NumTasks + 1)
    BY <1>5, <1>a DEF Finish, Collecting, NothingLeft, MustFlush, OrderInv, TypeOK
  <2>2. PlanEnd = NumTasks
    BY <1>a, <2>1 DEF Task
  <2> QED
    BY <1>a, <2>1, <2>2, PlansKept DEF OrderInv
<1>6. CASE PackOversize
  <2>1. /\ pc = "pack" /\ pc' = "shard" /\ queue # <<>> /\ plans' = Closed
        /\ batch' = <<>> /\ oversize' = Head(queue) /\ queue' = Tail(queue)
        /\ UNCHANGED <<next, pending>>
    BY <1>6 DEF PackOversize, Packing
  <2>2. /\ pending = <<>> /\ Lists(batch, PlanEnd)
        /\ Lists(queue, PlanEnd + Len(batch))
        /\ next = PlanEnd + Len(batch) + Len(queue) + 1
    BY <2>1 DEF OrderInv
  <2>3. Chain(TaskLists)' /\ PlanEnd' = PlanEnd + Len(batch)
    BY <1>a, <2>1, <2>2, BatchClosed
  <2>4. PlanEnd' \in Nat /\ Len(queue) \in Nat
    BY <1>a, <2>3
  <2>5. /\ Head(queue) = PlanEnd' + 1 /\ Lists(Tail(queue), PlanEnd' + 1)
        /\ Len(Tail(queue)) = Len(queue) - 1
    BY <1>a, <2>1, <2>2, <2>3, <2>4, ListsTail
  <2>6. next' = PlanEnd' + 1 + Len(queue') + 1
    BY <1>a, <2>1, <2>2, <2>3, <2>4, <2>5
  <2> QED
    BY <2>1, <2>2, <2>3, <2>5, <2>6 DEF OrderInv
<1>7. CASE PackJoin
  <2>1. /\ pc = "pack" /\ queue # <<>> /\ batch' = Append(batch, Head(queue))
        /\ queue' = Tail(queue) /\ UNCHANGED <<pc, next, pending, plans>>
    BY <1>7 DEF PackJoin, Packing
  <2>2. /\ pending = <<>> /\ Lists(batch, PlanEnd)
        /\ Lists(queue, PlanEnd + Len(batch))
        /\ next = PlanEnd + Len(batch) + Len(queue) + 1
    BY <2>1 DEF OrderInv
  <2>3. PlanEnd + Len(batch) \in Nat /\ Len(queue) \in Nat /\ Len(batch) \in Nat
    BY <1>a
  <2>4. /\ Head(queue) = PlanEnd + Len(batch) + 1
        /\ Lists(Tail(queue), PlanEnd + Len(batch) + 1)
        /\ Len(Tail(queue)) = Len(queue) - 1
    BY <1>a, <2>1, <2>2, <2>3, ListsTail
  <2>5. Lists(batch', PlanEnd) /\ Len(batch') = Len(batch) + 1
    BY <1>a, <2>1, <2>2, <2>4, ListsAppend
  <2>6. /\ Lists(queue', PlanEnd + Len(batch'))
        /\ next' = PlanEnd + Len(batch') + Len(queue') + 1
    <3>1. PlanEnd + Len(batch') = PlanEnd + Len(batch) + 1
      BY <1>a, <2>3, <2>5
    <3> QED
      BY <1>a, <2>1, <2>2, <2>3, <2>4, <3>1
  <2> QED
    BY <1>a, <2>1, <2>2, <2>5, <2>6, PlansKept DEF OrderInv
<1>8. CASE PackFull
  <2>1. /\ pc = "pack" /\ queue # <<>> /\ plans' = Closed
        /\ batch' = <<Head(queue)>> /\ queue' = Tail(queue)
        /\ UNCHANGED <<pc, next, pending>>
    BY <1>8 DEF PackFull, Packing
  <2>2. /\ pending = <<>> /\ Lists(batch, PlanEnd)
        /\ Lists(queue, PlanEnd + Len(batch))
        /\ next = PlanEnd + Len(batch) + Len(queue) + 1
    BY <2>1 DEF OrderInv
  <2>3. Chain(TaskLists)' /\ PlanEnd' = PlanEnd + Len(batch)
    BY <1>a, <2>1, <2>2, BatchClosed
  <2>4. PlanEnd' \in Nat /\ Len(queue) \in Nat
    BY <1>a, <2>3
  <2>5. /\ Head(queue) = PlanEnd' + 1 /\ Lists(Tail(queue), PlanEnd' + 1)
        /\ Len(Tail(queue)) = Len(queue) - 1
    BY <1>a, <2>1, <2>2, <2>3, <2>4, ListsTail
  <2>6. Lists(batch', PlanEnd') /\ Len(batch') = 1
    BY <2>1, <2>5 DEF Lists
  <2>7. next' = PlanEnd' + Len(batch') + Len(queue') + 1
    BY <1>a, <2>1, <2>2, <2>3, <2>4, <2>5, <2>6
  <2> QED
    BY <2>1, <2>2, <2>3, <2>5, <2>6, <2>7 DEF OrderInv
<1>9. CASE PackEnd
  <2>1. /\ pc = "pack" /\ queue = <<>> /\ pc' = "collect" /\ plans' = Closed
        /\ batch' = <<>> /\ UNCHANGED <<next, pending>>
    BY <1>9 DEF PackEnd
  <2>2. /\ pending = <<>> /\ Lists(batch, PlanEnd)
        /\ next = PlanEnd + Len(batch) + 1
    BY <1>a, <2>1 DEF OrderInv
  <2>3. Chain(TaskLists)' /\ PlanEnd' = PlanEnd + Len(batch)
    BY <1>a, <2>1, <2>2, BatchClosed
  <2>4. Lists(<<>>, PlanEnd') /\ Len(<<>>) = 0
    BY DEF Lists
  <2>5. next' = PlanEnd' + Len(pending') + 1
    BY <1>a, <2>1, <2>2, <2>3, <2>4
  <2> QED
    BY <2>1, <2>2, <2>3, <2>4, <2>5 DEF OrderInv
<1>10. CASE ShardRefused
  <2>1. pc' = "refused" /\ plans' = plans
    BY <1>10 DEF ShardRefused
  <2> QED
    BY <1>a, <2>1, PlansKept DEF OrderInv
<1>11. CASE ShardJoin
  BY <1>11, <1>a, PlansKept DEF ShardJoin, Sharding, OrderInv, packing
<1>12. CASE ShardFull
  BY <1>12, <1>a, PlansKept DEF ShardFull, Sharding, OrderInv, packing
<1>13. CASE ShardEnd
  <2> DEFINE parts == IF shard = <<>> THEN shards ELSE ClosedShard
             p == Plan("sharded", <<oversize>>, input.cost[oversize], parts)
  <2>1. /\ pc = "shard" /\ pc' = "pack" /\ plans' = Append(plans, p)
        /\ UNCHANGED <<next, pending, queue, batch>>
    BY <1>13 DEF ShardEnd, packing
  <2>2. /\ pending = <<>> /\ batch = <<>> /\ oversize = PlanEnd + 1
        /\ Lists(queue, PlanEnd + 1)
        /\ next = PlanEnd + 1 + Len(queue) + 1
    BY <2>1 DEF OrderInv
  <2>3. p \in Call /\ p.tasks = <<oversize>>
    BY ShardPlanType DEF Plan
  <2>4. Lists(<<oversize>>, PlanEnd) /\ Len(<<oversize>>) = 1
    BY <2>2 DEF Lists
  <2> HIDE DEF p
  <2>5. Chain(TaskLists)' /\ PlanEnd' = PlanEnd + 1
    BY <1>a, <2>1, <2>3, <2>4, PlanAppended
  <2>6. Lists(<<>>, PlanEnd') /\ Len(<<>>) = 0
    BY DEF Lists
  <2>7. PlanEnd' + Len(batch') = PlanEnd + 1
    BY <1>a, <2>1, <2>2, <2>5, <2>6
  <2> QED
    BY <1>a, <2>1, <2>2, <2>5, <2>6, <2>7 DEF OrderInv
<1>14. CASE UNCHANGED vars
  BY <1>14, <1>a, PlansKept DEF vars, OrderInv, packing, sharding
<1> QED
  BY <1>1, <1>2, <1>3, <1>4, <1>5, <1>6, <1>7, <1>8, <1>9, <1>10, <1>11,
     <1>12, <1>13, <1>14 DEF Next, Ended

LEMMA StartsInOrder == Init => OrderInv
<1> SUFFICES ASSUME Init PROVE OrderInv
  OBVIOUS
<1>1. plans = <<>> /\ Len(plans) = 0 /\ pc = "collect" /\ next = 1
      /\ batch = <<>> /\ pending = <<>> /\ Len(pending) = 0
  BY DEF Init
<1>2. TaskLists = <<>> /\ PlanEnd = 0
  BY <1>1 DEF TaskLists, PlanEnd, EndOf
<1> QED
  BY <1>1, <1>2 DEF OrderInv, Chain, Lists

\* A finished plan covers every task once and in order, however packed calls,
\* windowed and sharded tasks interleave.
THEOREM PlansCoverTheTasks == Spec => []TasksInOrder
<1>1. TypeOK /\ OrderInv => TasksInOrder
  BY TaskListsType DEF OrderInv, TasksInOrder, Covers, PlanEnd
<1>2. Spec => []OrderInv
  BY TypeCorrect, StartsInOrder, OrderStep, PTL DEF Spec
<1> QED
  BY <1>1, <1>2, TypeCorrect, PTL

-----------------------------------------------------------------------------
(* Budgets                                                                 *)

\* what is under way fits, too, and weighs nothing when it is empty
FitInv ==
  /\ CallsFit
  /\ Budgeted => /\ batchEstimate <= input.max
                 /\ batch = <<>> => batchEstimate = 0
  /\ Budgeted /\ pc = "shard" =>
       /\ shardEstimate <= input.max
       /\ shard = <<>> => shardEstimate = 0
       /\ \A j \in 1..Len(shards) : shards[j].estimate <= input.max

\* a plan appended to fitting plans
LEMMA FitAppended ==
  ASSUME TypeOK, CallsFit, Budgeted, UNCHANGED input,
         NEW p \in Call, plans' = Append(plans, p),
         p.kind = "batch" => p.estimate <= input.max,
         \A j \in 1..Len(p.shards) : p.shards[j].estimate <= input.max
  PROVE  CallsFit'
<1>1. /\ Len(plans') = Len(plans) + 1 /\ Len(plans) \in Nat
      /\ plans'[Len(plans) + 1] = p
      /\ \A k \in 1..Len(plans) : plans'[k] = plans[k]
  BY DEF TypeOK
<1> SUFFICES ASSUME NEW k \in 1..Len(plans')
             PROVE  /\ plans'[k].kind = "batch" => plans'[k].estimate <= input.max
                    /\ \A j \in 1..Len(plans'[k].shards) :
                         plans'[k].shards[j].estimate <= input.max
  BY DEF CallsFit
<1>2. CASE k = Len(plans) + 1
  BY <1>1, <1>2
<1>3. CASE k \in 1..Len(plans)
  BY <1>1, <1>3 DEF CallsFit
<1> QED
  BY <1>1, <1>2, <1>3

LEMMA ClosedFits ==
  ASSUME TypeOK, FitInv, Budgeted, UNCHANGED input, plans' = Closed
  PROVE  CallsFit'
<1>1. CASE batch = <<>>
  BY <1>1 DEF Closed, FitInv, CallsFit, Budgeted
<1>2. CASE batch # <<>>
  <2>1. /\ plans' = Append(plans, BatchPlan) /\ BatchPlan \in Call
        /\ BatchPlan.estimate = batchEstimate /\ BatchPlan.shards = <<>>
    BY <1>2, BatchPlanType DEF Closed, BatchPlan, Plan
  <2> QED
    BY <2>1, FitAppended DEF FitInv
<1> QED
  BY <1>1, <1>2

LEMMA ClosedShardFits ==
  ASSUME TypeOK, FitInv, Budgeted, pc = "shard"
  PROVE  \A j \in 1..Len(ClosedShard) : ClosedShard[j].estimate <= input.max
<1>1. /\ shards \in Seq(Shard)
      /\ shardEstimate <= input.max
      /\ \A j \in 1..Len(shards) : shards[j].estimate <= input.max
  BY DEF FitInv, TypeOK
<1> DEFINE new == [candidates |-> shard, estimate |-> shardEstimate]
<1>2. /\ Len(ClosedShard) = Len(shards) + 1 /\ Len(shards) \in Nat
      /\ ClosedShard[Len(shards) + 1] = new
      /\ \A j \in 1..Len(shards) : ClosedShard[j] = shards[j]
  BY <1>1 DEF ClosedShard
<1>3. new.estimate <= input.max
  BY <1>1
<1> QED
  BY <1>1, <1>2, <1>3

LEMMA FitStep == TypeOK /\ FitInv /\ [Next]_vars => FitInv'
<1> SUFFICES ASSUME TypeOK, FitInv, [Next]_vars PROVE FitInv'
  OBVIOUS
<1>a. UNCHANGED input
  BY InputKept
<1>b. CASE ~Budgeted
  BY <1>a, <1>b DEF FitInv, CallsFit, Budgeted
<1>c. CASE Budgeted
  <2>a. /\ input.max \in Nat /\ Budgeted' /\ CallsFit
        /\ batchEstimate \in Nat /\ shardEstimate \in Nat
        /\ batchEstimate <= input.max /\ (batch = <<>> => batchEstimate = 0)
    BY <1>a, <1>c, InputTypes DEF Budgeted, FitInv, TypeOK
  <2>k. plans' = plans => CallsFit'
    BY <1>a, <2>a DEF CallsFit, Budgeted
  <2>1. CASE PlanUnlimited
    BY <2>1, <1>c DEF PlanUnlimited, Budgeted
  <2>2. CASE Collect
    BY <2>2, <1>a, <2>a, <2>k DEF Collect, Collecting, FitInv, packing
  <2>3. CASE Flush
    BY <2>3, <1>a, <2>a, <2>k DEF Flush, Collecting, FitInv
  <2>4. CASE PlanWindows
    <3>1. /\ UNCHANGED <<batch, batchEstimate>> /\ pc' # "shard"
          /\ next \in Task
      BY <2>4 DEF PlanWindows, Collecting, NeedsWindows, packing
    <3> DEFINE p == Plan("windowed", <<next>>, input.cost[next], <<>>)
    <3>2. p \in Call /\ p.kind = "windowed" /\ p.shards = <<>>
      <4>1. input.cost[next] \in Nat /\ <<next>> \in Seq(Task) \ {<<>>}
        BY <3>1, InputTypes
      <4> QED
        BY <4>1, NoParts, PlanIsCall DEF Plan
    <3>3. plans' = plans \/ plans' = Append(plans, p)
      BY <2>4 DEF PlanWindows
    <3> HIDE DEF p
    <3>4. CallsFit'
      BY <1>a, <1>c, <2>a, <2>k, <3>2, <3>3, FitAppended
    <3> QED
      BY <1>a, <2>a, <3>1, <3>4 DEF FitInv
  <2>5. CASE Finish
    BY <2>5, <1>a, <2>a, <2>k DEF Finish, FitInv, packing
  <2>6. CASE PackOversize
    <3>1. /\ plans' = Closed /\ batchEstimate' = 0 /\ shardEstimate' = 0
          /\ shards' = <<>>
      BY <2>6 DEF PackOversize
    <3>2. CallsFit'
      BY <1>a, <1>c, <3>1, ClosedFits
    <3> QED
      BY <1>a, <2>a, <3>1, <3>2 DEF FitInv
  <2>7. CASE PackJoin
    <3>1. /\ queue # <<>> /\ input.cost[Head(queue)] \in Nat
          /\ ~Oversized(Head(queue))
          /\ batch = <<>> \/ Joins(Head(queue))
          /\ batch' = Append(batch, Head(queue))
          /\ batchEstimate' = batchEstimate + input.cost[Head(queue)]
          /\ plans' = plans /\ pc' = "pack"
      BY <2>7, HeadType DEF PackJoin, Packing
    <3>2. batchEstimate' <= input.max /\ batch' # <<>>
      <4>1. batch' # <<>>
        BY <3>1, SMTT(30) DEF TypeOK
      <4> QED
        BY <2>a, <3>1, <4>1 DEF Oversized, Joins
    <3> QED
      BY <1>a, <2>k, <3>1, <3>2 DEF FitInv
  <2>8. CASE PackFull
    <3>1. /\ queue # <<>> /\ input.cost[Head(queue)] \in Nat
          /\ ~Oversized(Head(queue)) /\ plans' = Closed
          /\ batch' = <<Head(queue)>> /\ pc' = "pack"
          /\ batchEstimate' = input.cost[Head(queue)]
      BY <2>8, HeadType DEF PackFull, Packing
    <3>2. CallsFit'
      BY <1>a, <1>c, <3>1, ClosedFits
    <3> QED
      BY <1>a, <2>a, <3>1, <3>2 DEF FitInv, Oversized
  <2>9. CASE PackEnd
    <3>1. plans' = Closed /\ batchEstimate' = 0 /\ pc' = "collect"
      BY <2>9 DEF PackEnd
    <3>2. CallsFit'
      BY <1>a, <1>c, <3>1, ClosedFits
    <3> QED
      BY <1>a, <2>a, <3>1, <3>2 DEF FitInv
  <2>10. CASE ShardRefused
    BY <2>10, <1>a, <2>a, <2>k DEF ShardRefused, FitInv, packing
  <2>11. CASE ShardJoin
    <3>1. /\ CandidateEstimate \in Nat /\ CandidateEstimate <= input.max
          /\ shard = <<>> \/ ShardJoins
          /\ shard' = Append(shard, candidate)
          /\ shardEstimate' = shardEstimate + CandidateEstimate
          /\ pc = "shard" /\ UNCHANGED <<pc, batch, batchEstimate, shards, plans>>
      BY <2>11, CandidateTypes DEF ShardJoin, Sharding, packing
    <3>2. shard' # <<>>
      BY <3>1 DEF TypeOK
    <3>3. shardEstimate' <= input.max
      BY <1>c, <2>a, <3>1 DEF FitInv, ShardJoins
    <3> QED
      BY <1>a, <1>c, <2>a, <2>k, <3>1, <3>2, <3>3 DEF FitInv
  <2>12. CASE ShardFull
    <3>1. /\ CandidateEstimate \in Nat /\ CandidateEstimate <= input.max
          /\ shard' = <<candidate>> /\ shardEstimate' = CandidateEstimate
          /\ shards' = ClosedShard
          /\ pc = "shard" /\ UNCHANGED <<pc, batch, batchEstimate, plans>>
      BY <2>12, CandidateTypes DEF ShardFull, Sharding, packing
    <3>2. \A j \in 1..Len(shards') : shards'[j].estimate <= input.max
      BY <1>c, <3>1, ClosedShardFits
    <3> QED
      BY <1>a, <1>c, <2>a, <2>k, <3>1, <3>2 DEF FitInv
  <2>13. CASE ShardEnd
    <3> DEFINE parts == IF shard = <<>> THEN shards ELSE ClosedShard
               p == Plan("sharded", <<oversize>>, input.cost[oversize], parts)
    <3>1. /\ pc = "shard" /\ pc' = "pack" /\ plans' = Append(plans, p)
          /\ UNCHANGED <<batch, batchEstimate>>
      BY <2>13 DEF ShardEnd, packing
    <3>2. p \in Call /\ p.kind = "sharded" /\ p.shards = parts
      BY ShardPlanType DEF Plan
    <3>3. \A j \in 1..Len(parts) : parts[j].estimate <= input.max
      BY <1>c, <3>1, ClosedShardFits DEF FitInv
    <3> HIDE DEF p, parts
    <3>4. CallsFit'
      BY <1>a, <1>c, <2>a, <3>1, <3>2, <3>3, FitAppended
    <3> QED
      BY <1>a, <2>a, <3>1, <3>4 DEF FitInv
  <2>14. CASE UNCHANGED vars
    <3>1. UNCHANGED <<pc, input, batch, batchEstimate, shard, shardEstimate,
                      shards, plans>>
      BY <2>14 DEF vars, packing, sharding
    <3> QED
      BY <1>c, <2>a, <2>k, <3>1 DEF FitInv
  <2> QED
    BY <2>1, <2>2, <2>3, <2>4, <2>5, <2>6, <2>7, <2>8, <2>9, <2>10, <2>11,
       <2>12, <2>13, <2>14 DEF Next, Ended
<1> QED
  BY <1>b, <1>c

\* No packed call and no shard is estimated over the budget.
THEOREM CallsStayInBudget == Spec => []CallsFit
<1>1. Init => FitInv
  <2>1. Init => TypeOK
    BY InitType
  <2> QED
    BY <2>1, InputTypes DEF Init, FitInv, CallsFit, Budgeted
<1>2. FitInv => CallsFit
  BY DEF FitInv
<1> QED
  BY <1>1, <1>2, FitStep, TypeCorrect, PTL DEF Spec

-----------------------------------------------------------------------------
(* Shards in order                                                         *)

ShardLists == [j \in 1..Len(shards) |-> shards[j].candidates]

\* the last candidate a shard is made for
SliceEnd == EndOf(ShardLists, Len(shards))

\* the shards and the shard under way list the candidates before the next one
SliceInv ==
  /\ ShardsInOrder
  /\ pc = "shard" => /\ Chain(ShardLists) /\ Lists(shard, SliceEnd)
                     /\ candidate = SliceEnd + Len(shard) + 1
                     /\ candidate <= NumCandidates(oversize) + 1

LEMMA ShardListsType ==
  ASSUME TypeOK
  PROVE  /\ ShardLists \in Seq(Seq(Nat)) /\ Len(ShardLists) = Len(shards)
         /\ SliceEnd \in Nat
<1>1. /\ shards \in Seq(Shard) /\ Len(shards) \in Nat
      /\ \A j \in 1..Len(shards) : /\ shards[j].candidates \in Seq(Nat)
                                    /\ shards[j].candidates # <<>>
  <2>1. shards \in Seq(Shard) /\ Len(shards) \in Nat
    BY DEF TypeOK
  <2> SUFFICES ASSUME NEW j \in 1..Len(shards)
               PROVE  /\ shards[j].candidates \in Seq(Nat)
                      /\ shards[j].candidates # <<>>
    BY <2>1
  <2>2. shards[j] \in Shard
    BY <2>1
  <2> QED
    BY <2>2 DEF Shard
<1>2. ShardLists \in Seq(Seq(Nat)) /\ Len(ShardLists) = Len(shards)
  BY <1>1 DEF ShardLists
<1>3. SliceEnd \in Nat
  <2>1. CASE Len(shards) = 0
    BY <2>1 DEF SliceEnd, EndOf
  <2>2. CASE Len(shards) # 0
    <3> DEFINE s == shards[Len(shards)].candidates
    <3>1. Len(shards) \in 1..Len(shards)
      BY <1>1, <2>2
    <3>2. s \in Seq(Nat) /\ s # <<>>
      BY <1>1, <3>1
    <3>3. s[Len(s)] \in Nat
      BY <3>2
    <3> QED
      BY <2>2, <3>1, <3>3 DEF SliceEnd, EndOf, ShardLists
  <2> QED
    BY <2>1, <2>2
<1> QED
  BY <1>2, <1>3

\* the candidate lists of the shards once the one under way is closed
LEMMA SliceClosed ==
  ASSUME TypeOK, Chain(ShardLists), Lists(shard, SliceEnd), shard # <<>>
  PROVE  LET L == [j \in 1..Len(ClosedShard) |-> ClosedShard[j].candidates]
         IN  /\ Chain(L) /\ EndOf(L, Len(ClosedShard)) = SliceEnd + Len(shard)
             /\ Len(L) = Len(ClosedShard)
<1> DEFINE L == [j \in 1..Len(ClosedShard) |-> ClosedShard[j].candidates]
<1>1. /\ shards \in Seq(Shard) /\ shard \in Seq(Nat)
      /\ Len(ClosedShard) = Len(shards) + 1 /\ Len(shards) \in Nat
      /\ ClosedShard[Len(shards) + 1].candidates = shard
      /\ \A j \in 1..Len(shards) : ClosedShard[j] = shards[j]
  BY DEF TypeOK, ClosedShard
<1>2. ShardLists \in Seq(Seq(Nat)) /\ Len(ShardLists) = Len(shards)
  BY ShardListsType
<1>3. L = Append(ShardLists, shard)
  <2>1. Append(ShardLists, shard)
          = [j \in 1..(Len(shards) + 1) |->
               IF j = Len(shards) + 1 THEN shard ELSE shards[j].candidates]
    BY <1>1, <1>2 DEF ShardLists
  <2> QED
    BY <1>1, <2>1, SMTT(30)
<1>4. EndOf(ShardLists, Len(ShardLists)) = SliceEnd /\ SliceEnd \in Nat
  BY <1>2, ShardListsType DEF SliceEnd
<1> HIDE DEF L
<1>5. /\ Chain(L) /\ EndOf(L, Len(ShardLists) + 1) = SliceEnd + Len(shard)
      /\ Len(L) = Len(ShardLists) + 1
  BY <1>1, <1>2, <1>3, <1>4, ChainAppend
<1>6. Len(ClosedShard) = Len(ShardLists) + 1
  BY <1>1, <1>2
<1> QED
  BY <1>5, <1>6 DEF L

LEMMA SliceAppended ==
  ASSUME TypeOK, ShardsInOrder, UNCHANGED input,
         NEW p \in Call, plans' = Append(plans, p),
         p.kind = "sharded" =>
           Covers(CandidateLists(p), NumCandidates(p.tasks[1]))
  PROVE  ShardsInOrder'
<1>1. /\ Len(plans') = Len(plans) + 1 /\ Len(plans) \in Nat
      /\ plans'[Len(plans) + 1] = p
      /\ \A k \in 1..Len(plans) : plans'[k] = plans[k]
  BY DEF TypeOK
<1>2. \A t : NumCandidates(t)' = NumCandidates(t)
  BY DEF NumCandidates
<1> SUFFICES ASSUME NEW k \in 1..Len(plans'), plans'[k].kind = "sharded"
             PROVE  Covers(CandidateLists(plans'[k]),
                           NumCandidates(plans'[k].tasks[1]))
  BY <1>2 DEF ShardsInOrder
<1>3. CASE k = Len(plans) + 1
  BY <1>1, <1>3
<1>4. CASE k \in 1..Len(plans)
  BY <1>1, <1>4 DEF ShardsInOrder
<1> QED
  BY <1>1, <1>3, <1>4

\* a call that is no sharded task, or nothing, is added
LEMMA SlicesKept ==
  ASSUME TypeOK, SliceInv, UNCHANGED input, pc' # "shard",
         \/ plans' = plans \/ plans' = Closed
         \/ \E p \in Call : p.kind # "sharded" /\ plans' = Append(plans, p)
  PROVE  SliceInv'
<1>1. CASE plans' = plans
  BY <1>1 DEF SliceInv, ShardsInOrder, NumCandidates
<1>2. CASE plans' # plans
  <2>1. PICK p \in Call : p.kind # "sharded" /\ plans' = Append(plans, p)
    BY <1>2, BatchPlanType DEF Closed, BatchPlan, Plan
  <2> QED
    BY <2>1, SliceAppended DEF SliceInv
<1> QED
  BY <1>1, <1>2

LEMMA SliceStep == TypeOK /\ SliceInv /\ [Next]_vars => SliceInv'
<1> SUFFICES ASSUME TypeOK, SliceInv, [Next]_vars PROVE SliceInv'
  OBVIOUS
<1>a. UNCHANGED input
  BY InputKept
<1>1. CASE PlanUnlimited
  <2>1. /\ plans' = <<Plan("batch", [t \in Task |-> t], 0, <<>>)>>
        /\ pc' = "done"
    BY <1>1 DEF PlanUnlimited
  <2> QED
    BY <2>1 DEF SliceInv, ShardsInOrder, Plan
<1>2. CASE Collect \/ Flush \/ Finish \/ PackJoin \/ ShardRefused
  <2>1. plans' = plans /\ pc' # "shard"
    BY <1>2 DEF Collect, Flush, Finish, PackJoin, ShardRefused, Collecting, Packing
  <2> QED
    BY <1>a, <2>1, SlicesKept
<1>3. CASE PlanWindows
  <2> DEFINE p == Plan("windowed", <<next>>, input.cost[next], <<>>)
  <2>1. /\ pc' # "shard" /\ next \in Task
        /\ plans' = plans \/ plans' = Append(plans, p)
    BY <1>3 DEF PlanWindows, Collecting, NeedsWindows
  <2>2. p \in Call /\ p.kind # "sharded"
    <3>1. input.cost[next] \in Nat /\ <<next>> \in Seq(Task) \ {<<>>}
      BY <2>1, InputTypes
    <3> QED
      BY <3>1, NoParts, PlanIsCall DEF Plan
  <2> QED
    BY <1>a, <2>1, <2>2, SlicesKept
<1>4. CASE PackFull \/ PackEnd
  <2>1. plans' = Closed /\ pc' # "shard"
    BY <1>4 DEF PackFull, PackEnd, Packing
  <2> QED
    BY <1>a, <2>1, SlicesKept
<1>5. CASE PackOversize
  <2>1. /\ plans' = Closed /\ pc' = "shard" /\ shard' = <<>> /\ shards' = <<>>
        /\ candidate' = 1 /\ oversize' = Head(queue) /\ queue # <<>>
    BY <1>5 DEF PackOversize, Packing
  <2>2. ShardsInOrder'
    <3>1. CASE batch = <<>>
      BY <1>a, <2>1, <3>1 DEF Closed, SliceInv, ShardsInOrder, NumCandidates
    <3>2. CASE batch # <<>>
      <4>1. /\ BatchPlan \in Call /\ BatchPlan.kind # "sharded"
            /\ plans' = Append(plans, BatchPlan)
        BY <2>1, <3>2, BatchPlanType DEF Closed, BatchPlan, Plan
      <4> QED
        BY <1>a, <4>1, SliceAppended DEF SliceInv
    <3> QED
      BY <3>1, <3>2
  <2>3. /\ ShardLists' = <<>> /\ Len(shards') = 0 /\ SliceEnd' = 0
        /\ Len(shard') = 0
    BY <2>1 DEF ShardLists, SliceEnd, EndOf
  <2>4. NumCandidates(oversize)' \in Nat
    BY <1>a, <2>1, HeadType, InputTypes DEF NumCandidates
  <2> QED
    BY <2>1, <2>2, <2>3, <2>4 DEF SliceInv, Chain, Lists
<1>6. CASE ShardJoin
  <2>1. /\ shard' = Append(shard, candidate) /\ candidate' = candidate + 1
        /\ pc = "shard" /\ candidate <= NumCandidates(oversize)
        /\ UNCHANGED <<pc, oversize, shards, plans>>
    BY <1>6 DEF ShardJoin, Sharding
  <2>2. /\ Chain(ShardLists) /\ Lists(shard, SliceEnd)
        /\ candidate = SliceEnd + Len(shard) + 1
        /\ SliceEnd \in Nat /\ shard \in Seq(Nat) /\ candidate \in Nat
        /\ NumCandidates(oversize) \in Nat
    BY <2>1, ShardListsType, InputTypes DEF SliceInv, TypeOK
  <2>3. ShardLists' = ShardLists /\ SliceEnd' = SliceEnd
        /\ NumCandidates(oversize)' = NumCandidates(oversize)
    BY <1>a, <2>1 DEF ShardLists, SliceEnd, NumCandidates
  <2>4. Lists(shard', SliceEnd) /\ Len(shard') = Len(shard) + 1
    BY <2>1, <2>2, ListsAppend
  <2>5. /\ candidate' = SliceEnd' + Len(shard') + 1
        /\ candidate' <= NumCandidates(oversize)' + 1
    BY <2>1, <2>2, <2>3, <2>4
  <2>6. ShardsInOrder'
    BY <1>a, <2>1 DEF SliceInv, ShardsInOrder, NumCandidates
  <2> QED
    BY <2>1, <2>2, <2>3, <2>4, <2>5, <2>6 DEF SliceInv
<1>7. CASE ShardFull
  <2>1. /\ shard # <<>> /\ shards' = ClosedShard /\ shard' = <<candidate>>
        /\ candidate' = candidate + 1
        /\ pc = "shard" /\ candidate <= NumCandidates(oversize)
        /\ UNCHANGED <<pc, oversize, plans>>
    BY <1>7 DEF ShardFull, Sharding
  <2>2. /\ Chain(ShardLists) /\ Lists(shard, SliceEnd)
        /\ candidate = SliceEnd + Len(shard) + 1
        /\ SliceEnd \in Nat /\ shard \in Seq(Nat) /\ candidate \in Nat
        /\ NumCandidates(oversize) \in Nat
    BY <2>1, ShardListsType, InputTypes DEF SliceInv, TypeOK
  <2>3. /\ Chain(ShardLists)' /\ SliceEnd' = SliceEnd + Len(shard)
        /\ NumCandidates(oversize)' = NumCandidates(oversize)
    BY <1>a, <2>1, <2>2, SliceClosed DEF ShardLists, SliceEnd, NumCandidates
  <2>4. Lists(shard', SliceEnd') /\ Len(shard') = 1
    BY <2>1, <2>2, <2>3 DEF Lists
  <2>5. /\ candidate' = SliceEnd' + Len(shard') + 1
        /\ candidate' <= NumCandidates(oversize)' + 1
    BY <2>1, <2>2, <2>3, <2>4
  <2>6. ShardsInOrder'
    BY <1>a, <2>1 DEF SliceInv, ShardsInOrder, NumCandidates
  <2> QED
    BY <2>1, <2>3, <2>4, <2>5, <2>6 DEF SliceInv
<1>8. CASE ShardEnd
  <2> DEFINE parts == IF shard = <<>> THEN shards ELSE ClosedShard
             p == Plan("sharded", <<oversize>>, input.cost[oversize], parts)
             L == [j \in 1..Len(parts) |-> parts[j].candidates]
  <2>1. /\ pc = "shard" /\ pc' = "pack" /\ plans' = Append(plans, p)
        /\ candidate > NumCandidates(oversize)
    BY <1>8 DEF ShardEnd
  <2>2. /\ p \in Call /\ p.tasks[1] = oversize /\ CandidateLists(p) = L
    BY ShardPlanType DEF Plan, CandidateLists
  <2>3. /\ Chain(ShardLists) /\ Lists(shard, SliceEnd)
        /\ candidate = SliceEnd + Len(shard) + 1
        /\ candidate <= NumCandidates(oversize) + 1
        /\ SliceEnd \in Nat /\ shard \in Seq(Nat)
        /\ NumCandidates(oversize) \in Nat
    BY <2>1, ShardListsType, InputTypes DEF SliceInv, TypeOK
  <2>4. SliceEnd + Len(shard) = NumCandidates(oversize)
    BY <2>1, <2>3, SMTT(30)
  <2>5. Chain(L) /\ EndOf(L, Len(L)) = SliceEnd + Len(shard)
    <3>1. CASE shard = <<>>
      <4>1. L = ShardLists /\ Len(L) = Len(shards) /\ Len(shard) = 0
        BY <3>1, ShardListsType DEF ShardLists
      <4> QED
        BY <2>3, <4>1, SMTT(30) DEF SliceEnd
    <3>2. CASE shard # <<>>
      BY <2>3, <3>2, SliceClosed
    <3> QED
      BY <3>1, <3>2
  <2> HIDE DEF p, L, parts
  <2>6. ShardsInOrder'
    BY <1>a, <2>1, <2>2, <2>4, <2>5, SliceAppended DEF Covers, SliceInv
  <2> QED
    BY <2>1, <2>6 DEF SliceInv
<1>9. CASE UNCHANGED vars
  BY <1>9 DEF vars, packing, sharding, SliceInv, ShardsInOrder, NumCandidates,
              ShardLists, SliceEnd
<1> QED
  BY <1>1, <1>2, <1>3, <1>4, <1>5, <1>6, <1>7, <1>8, <1>9 DEF Next, Ended

\* The shards of an oversize task are consecutive slices that together are its
\* candidate set, none dropped and none twice.
THEOREM ShardsCoverTheCandidates == Spec => []ShardsInOrder
<1>1. Init => SliceInv
  BY DEF Init, SliceInv, ShardsInOrder
<1>2. SliceInv => ShardsInOrder
  BY DEF SliceInv
<1> QED
  BY <1>1, <1>2, SliceStep, TypeCorrect, PTL DEF Spec

-----------------------------------------------------------------------------
(* Refusals                                                                *)

\* what plan() may be given: every document classifier in it fits
Packable(t) == ~(t \in input.windowed /\ input.cost[t] > input.max)

\* tasks with a plan are not hopeless, and neither is what is under way so far
CauseInv ==
  /\ pc = "refused" => \E t \in Task : Hopeless(t)
  /\ pc # "refused" =>
       /\ \A t \in Task : t <= PlanEnd => ~Hopeless(t)
       /\ \A k \in 1..Len(batch) : input.cost[batch[k]] <= input.max
       /\ \A k \in 1..Len(pending) : Packable(pending[k])
       /\ pc \in {"pack", "shard"} =>
            \A k \in 1..Len(queue) : Packable(queue[k])
       /\ pc = "shard" =>
            /\ oversize \notin input.windowed
            /\ input.cost[oversize] > input.max
            /\ \A c \in 1..NumCandidates(oversize) :
                 c < candidate => input.candidateCost[oversize][c] <= input.max

LEMMA CausesKept ==
  ASSUME UNCHANGED input
  PROVE  /\ \A t : Hopeless(t)' <=> Hopeless(t)
         /\ \A t : Packable(t)' <=> Packable(t)
         /\ \A t : NumCandidates(t)' = NumCandidates(t)
BY DEF Hopeless, Packable, NumCandidates

\* closing the batch under way plans for no hopeless task
LEMMA ClosedHopes ==
  ASSUME TypeOK, OrderInv, CauseInv, Budgeted, pc = "pack", plans' = Closed
  PROVE  \A t \in Task : t <= PlanEnd' => ~Hopeless(t)
<1>1. /\ Lists(batch, PlanEnd) /\ Chain(TaskLists) /\ PlanEnd \in Nat
      /\ Len(batch) \in Nat
  BY PlanEndType DEF OrderInv, TypeOK
<1>2. PlanEnd' = PlanEnd + Len(batch)
  BY <1>1, BatchClosed
<1> SUFFICES ASSUME NEW t \in Task, t <= PlanEnd' PROVE ~Hopeless(t)
  OBVIOUS
<1>3. CASE t <= PlanEnd
  BY <1>3 DEF CauseInv
<1>4. CASE ~(t <= PlanEnd)
  <2> DEFINE k == t - PlanEnd
  <2>1. k \in 1..Len(batch) /\ t = PlanEnd + k
    BY <1>1, <1>2, <1>4 DEF Task
  <2> HIDE DEF k
  <2>2. batch[k] = t
    BY <2>1, <1>1 DEF Lists
  <2>3. input.cost[t] <= input.max
    BY <2>1, <2>2 DEF CauseInv
  <2>4. input.cost[t] \in Nat /\ input.max \in Nat
    BY InputTypes DEF Budgeted
  <2> QED
    BY <2>3, <2>4 DEF Hopeless
<1> QED
  BY <1>3, <1>4

LEMMA QueueHead ==
  ASSUME TypeOK, queue # <<>>, \A k \in 1..Len(queue) : Packable(queue[k])
  PROVE  /\ Packable(Head(queue))
         /\ \A k \in 1..Len(Tail(queue)) : Packable(Tail(queue)[k])
<1>1. /\ Head(queue) = queue[1] /\ 1 \in 1..Len(queue)
      /\ \A k \in 1..Len(Tail(queue)) : /\ Tail(queue)[k] = queue[k + 1]
                                        /\ k + 1 \in 1..Len(queue)
  BY DEF TypeOK
<1> QED
  BY <1>1

LEMMA CauseStep == TypeOK /\ OrderInv /\ Budgeted /\ CauseInv /\ [Next]_vars => CauseInv'
<1> SUFFICES ASSUME TypeOK, OrderInv, Budgeted, CauseInv, [Next]_vars
             PROVE  CauseInv'
  OBVIOUS
<1>a. UNCHANGED input
  BY InputKept
<1>b. /\ \A t : Hopeless(t)' <=> Hopeless(t)
      /\ \A t : Packable(t)' <=> Packable(t)
      /\ \A t : NumCandidates(t)' = NumCandidates(t)
  BY <1>a, CausesKept
<1>c. plans' = plans => PlanEnd' = PlanEnd
  BY PlansKept
<1>d. /\ input.max \in Nat /\ PlanEnd \in Nat
      /\ \A t \in Task : input.cost[t] \in Nat
  BY InputTypes, PlanEndType DEF Budgeted
<1>1. CASE PlanUnlimited
  BY <1>1 DEF PlanUnlimited, Budgeted
<1>2. CASE Collect
  <2>1. /\ pc = "collect" /\ pending' = Append(pending, next) /\ ~NeedsWindows
        /\ next \in Task /\ UNCHANGED <<pc, batch, plans>>
    BY <1>2 DEF Collect, Collecting, NothingLeft, packing
  <2>2. Packable(next)
    BY <2>1 DEF NeedsWindows, Packable, Oversized
  <2>3. /\ Len(pending') = Len(pending) + 1 /\ Len(pending) \in Nat
        /\ pending'[Len(pending) + 1] = next
        /\ \A k \in 1..Len(pending) : pending'[k] = pending[k]
    BY <2>1 DEF TypeOK
  <2>4. \A k \in 1..Len(pending') : Packable(pending'[k])
    BY <2>1, <2>2, <2>3 DEF CauseInv
  <2> QED
    BY <1>a, <1>b, <1>c, <2>1, <2>4 DEF CauseInv
<1>3. CASE Flush
  <2>1. /\ pc = "collect" /\ pc' = "pack" /\ queue' = pending
        /\ pending' = <<>> /\ UNCHANGED <<batch, plans>>
    BY <1>3 DEF Flush, Collecting
  <2> QED
    BY <1>a, <1>b, <1>c, <2>1 DEF CauseInv
<1>4. CASE PlanWindows
  <2>1. /\ pc = "collect" /\ UNCHANGED <<pending, batch>>
        /\ next \in Task /\ next \in input.windowed
        /\ input.cost[next] > input.max
        /\ pending = <<>> /\ batch = <<>> /\ Len(pending) = 0
    BY <1>4 DEF PlanWindows, Collecting, MustFlush, NeedsWindows, packing,
                     OrderInv, Oversized
  <2>2. CASE next \in input.fits
    <3> DEFINE p == Plan("windowed", <<next>>, input.cost[next], <<>>)
    <3>1. plans' = Append(plans, p) /\ pc' = pc
      BY <1>4, <2>2 DEF PlanWindows
    <3>2. p \in Call /\ p.tasks = <<next>>
      <4>1. input.cost[next] \in Nat /\ <<next>> \in Seq(Task) \ {<<>>}
        BY <2>1, <1>d
      <4> QED
        BY <4>1, NoParts, PlanIsCall DEF Plan
    <3> HIDE DEF p
    <3>3. next = PlanEnd + 1 /\ Chain(TaskLists)
      BY <1>d, <2>1 DEF OrderInv
    <3>4. Lists(<<next>>, PlanEnd) /\ Len(<<next>>) = 1
      BY <3>3 DEF Lists
    <3>5. PlanEnd' = next
      BY <3>1, <3>2, <3>3, <3>4, PlanAppended
    <3>6. ~Hopeless(next)
      BY <2>1, <2>2 DEF Hopeless
    <3>7. \A t \in Task : t <= next => t = next \/ t <= PlanEnd
      BY <1>d, <3>3 DEF Task
    <3>8. \A t \in Task : t <= PlanEnd' => ~Hopeless(t)
      BY <2>1, <3>5, <3>6, <3>7 DEF CauseInv
    <3> QED
      BY <1>a, <1>b, <2>1, <3>1, <3>8 DEF CauseInv
  <2>3. CASE next \notin input.fits
    <3>1. pc' = "refused"
      BY <1>4, <2>3 DEF PlanWindows
    <3>2. Hopeless(next)
      BY <2>1, <2>3 DEF Hopeless
    <3> QED
      BY <1>b, <2>1, <3>1, <3>2 DEF CauseInv
  <2> QED
    BY <2>2, <2>3
<1>5. CASE Finish
  <2>1. /\ pc = "collect" /\ pc' = "done" /\ UNCHANGED <<plans, batch, pending>>
    BY <1>5 DEF Finish, Collecting, packing
  <2> QED
    BY <1>a, <1>b, <1>c, <2>1 DEF CauseInv
<1>6. CASE PackOversize
  <2>1. /\ pc = "pack" /\ pc' = "shard" /\ queue # <<>> /\ plans' = Closed
        /\ batch' = <<>> /\ oversize' = Head(queue) /\ queue' = Tail(queue)
        /\ candidate' = 1 /\ UNCHANGED pending
        /\ input.cost[Head(queue)] > input.max
    BY <1>6 DEF PackOversize, Packing, Oversized
  <2>2. \A t \in Task : t <= PlanEnd' => ~Hopeless(t)
    BY <2>1, ClosedHopes
  <2>3. /\ Packable(Head(queue))
        /\ \A k \in 1..Len(Tail(queue)) : Packable(Tail(queue)[k])
    BY <2>1, QueueHead DEF CauseInv
  <2>4. Head(queue) \notin input.windowed
    BY <2>1, <2>3 DEF Packable
  <2> QED
    BY <1>a, <1>b, <2>1, <2>2, <2>3, <2>4 DEF CauseInv
<1>7. CASE PackJoin
  <2>1. /\ pc = "pack" /\ queue # <<>> /\ batch' = Append(batch, Head(queue))
        /\ queue' = Tail(queue) /\ UNCHANGED <<pc, pending, plans>>
        /\ ~(input.cost[Head(queue)] > input.max)
    BY <1>7 DEF PackJoin, Packing, Oversized
  <2>2. input.cost[Head(queue)] <= input.max
    BY <1>d, <2>1, HeadType
  <2>3. /\ Len(batch') = Len(batch) + 1 /\ Len(batch) \in Nat
        /\ batch'[Len(batch) + 1] = Head(queue)
        /\ \A k \in 1..Len(batch) : batch'[k] = batch[k]
    BY <2>1, HeadType DEF TypeOK
  <2>4. \A k \in 1..Len(batch') : input.cost[batch'[k]] <= input.max
    BY <2>1, <2>2, <2>3 DEF CauseInv
  <2>5. \A k \in 1..Len(Tail(queue)) : Packable(Tail(queue)[k])
    BY <2>1, QueueHead DEF CauseInv
  <2> QED
    BY <1>a, <1>b, <1>c, <2>1, <2>4, <2>5 DEF CauseInv
<1>8. CASE PackFull
  <2>1. /\ pc = "pack" /\ queue # <<>> /\ plans' = Closed
        /\ batch' = <<Head(queue)>> /\ queue' = Tail(queue)
        /\ UNCHANGED <<pc, pending>>
        /\ ~(input.cost[Head(queue)] > input.max)
    BY <1>8 DEF PackFull, Packing, Oversized
  <2>2. input.cost[Head(queue)] <= input.max
    BY <1>d, <2>1, HeadType
  <2>3. \A k \in 1..Len(batch') : input.cost[batch'[k]] <= input.max
    BY <2>1, <2>2
  <2>4. \A t \in Task : t <= PlanEnd' => ~Hopeless(t)
    BY <2>1, ClosedHopes
  <2>5. \A k \in 1..Len(Tail(queue)) : Packable(Tail(queue)[k])
    BY <2>1, QueueHead DEF CauseInv
  <2> QED
    BY <1>a, <1>b, <2>1, <2>3, <2>4, <2>5 DEF CauseInv
<1>9. CASE PackEnd
  <2>1. /\ pc = "pack" /\ pc' = "collect" /\ plans' = Closed
        /\ batch' = <<>> /\ UNCHANGED pending
    BY <1>9 DEF PackEnd
  <2>2. \A t \in Task : t <= PlanEnd' => ~Hopeless(t)
    BY <2>1, ClosedHopes
  <2> QED
    BY <1>a, <1>b, <2>1, <2>2 DEF CauseInv
<1>10. CASE ShardRefused
  <2>1. /\ pc = "shard" /\ pc' = "refused"
        /\ candidate \in 1..NumCandidates(oversize) /\ oversize \in Task
        /\ input.candidateCost[oversize][candidate] > input.max
    BY <1>10 DEF ShardRefused, Sharding, CandidateEstimate, TypeOK, NumCandidates
  <2>2. Hopeless(oversize)
    BY <2>1 DEF Hopeless, CauseInv
  <2> QED
    BY <1>b, <2>1, <2>2 DEF CauseInv
<1>11. CASE ShardJoin \/ ShardFull
  <2>1. /\ pc = "shard" /\ candidate' = candidate + 1
        /\ input.candidateCost[oversize][candidate] <= input.max
        /\ UNCHANGED <<pc, oversize, pending, queue, batch, plans>>
    BY <1>11 DEF ShardJoin, ShardFull, Sharding, CandidateEstimate, packing
  <2>2. \A c \in 1..NumCandidates(oversize) :
          c < candidate' => input.candidateCost[oversize][c] <= input.max
    <3> SUFFICES ASSUME NEW c \in 1..NumCandidates(oversize), c < candidate'
                 PROVE  input.candidateCost[oversize][c] <= input.max
      OBVIOUS
    <3>1. NumCandidates(oversize) \in Nat /\ candidate \in Nat
      BY InputTypes DEF TypeOK
    <3>2. c < candidate \/ c = candidate
      BY <2>1, <3>1
    <3> QED
      BY <2>1, <3>2 DEF CauseInv
  <2> QED
    BY <1>a, <1>b, <1>c, <2>1, <2>2 DEF CauseInv
<1>12. CASE ShardEnd
  <2> DEFINE parts == IF shard = <<>> THEN shards ELSE ClosedShard
             p == Plan("sharded", <<oversize>>, input.cost[oversize], parts)
  <2>1. /\ pc = "shard" /\ pc' = "pack" /\ plans' = Append(plans, p)
        /\ candidate > NumCandidates(oversize)
        /\ UNCHANGED <<pending, queue, batch>>
    BY <1>12 DEF ShardEnd, packing
  <2>2. p \in Call /\ p.tasks = <<oversize>>
    BY ShardPlanType DEF Plan
  <2> HIDE DEF p
  <2>3. oversize = PlanEnd + 1 /\ Chain(TaskLists)
    BY <2>1 DEF OrderInv
  <2>4. Lists(<<oversize>>, PlanEnd) /\ Len(<<oversize>>) = 1
    BY <2>3 DEF Lists
  <2>5. PlanEnd' = oversize
    BY <2>1, <2>2, <2>3, <2>4, PlanAppended
  <2>6. ~Hopeless(oversize)
    <3>1. /\ oversize \in Task /\ candidate \in Nat
          /\ NumCandidates(oversize) \in Nat
          /\ input.candidateCost[oversize] \in Seq(Nat)
      BY InputTypes DEF TypeOK
    <3>2. \A c \in 1..NumCandidates(oversize) :
            /\ input.candidateCost[oversize][c] <= input.max
            /\ input.candidateCost[oversize][c] \in Nat
      BY <2>1, <3>1 DEF CauseInv, NumCandidates
    <3> QED
      BY <1>d, <2>1, <3>1, <3>2 DEF Hopeless, CauseInv
  <2>7. \A t \in Task : t <= oversize => t = oversize \/ t <= PlanEnd
    BY <1>d, <2>3 DEF Task
  <2>8. \A t \in Task : t <= PlanEnd' => ~Hopeless(t)
    BY <2>1, <2>5, <2>6, <2>7 DEF CauseInv
  <2> QED
    BY <1>a, <1>b, <2>1, <2>8 DEF CauseInv
<1>13. CASE UNCHANGED vars
  <2>1. UNCHANGED <<pc, pending, queue, batch, oversize, candidate, plans>>
    BY <1>13 DEF vars, packing, sharding
  <2> QED
    BY <1>a, <1>b, <1>c, <2>1 DEF CauseInv
<1> QED
  BY <1>1, <1>2, <1>3, <1>4, <1>5, <1>6, <1>7, <1>8, <1>9, <1>10, <1>11,
     <1>12, <1>13 DEF Next, Ended

\* Planning is refused exactly when some task fits in no way: a document
\* classifier without windows, or a candidate too large to be shown alone.
THEOREM RefusalsHaveACause == Spec => []RefusedForCause
<1> DEFINE Inv == Budgeted => CauseInv
<1>1. Init => Inv
  <2> SUFFICES ASSUME Init PROVE CauseInv
    BY DEF Inv
  <2>1. /\ pc = "collect" /\ plans = <<>> /\ batch = <<>> /\ pending = <<>>
    BY DEF Init
  <2>2. PlanEnd = 0
    BY <2>1 DEF PlanEnd, EndOf
  <2>3. \A t \in Task : ~(t <= 0)
    BY PlannerAssumption DEF Task
  <2> QED
    BY <2>1, <2>2, <2>3 DEF CauseInv
<1>2. TypeOK /\ OrderInv /\ Inv /\ [Next]_vars => Inv'
  BY CauseStep, InputKept DEF Budgeted
<1>3. TypeOK /\ OrderInv /\ Inv => RefusedForCause
  <2> SUFFICES ASSUME TypeOK, OrderInv, Inv, Budgeted PROVE RefusedForCause
    BY DEF RefusedForCause
  <2>1. pc = "done" => \A t \in Task : t <= PlanEnd
    BY PlannerAssumption DEF OrderInv, Task
  <2> QED
    BY <2>1 DEF RefusedForCause, CauseInv
<1>4. Spec => []OrderInv
  BY TypeCorrect, StartsInOrder, OrderStep, PTL DEF Spec
<1> HIDE DEF Inv
<1> QED
  BY <1>1, <1>2, <1>3, <1>4, TypeCorrect, PTL DEF Spec

-----------------------------------------------------------------------------
(* No needless split                                                       *)

LastIsBatch == plans # <<>> /\ plans[Len(plans)].kind = "batch"

\* t did not fit in the last plan, if that is a packed call
SplitFrom(t) ==
  LastIsBatch => plans[Len(plans)].estimate + input.cost[t] > input.max

\* neighbours split for want of room, and so will what is under way: plan()
\* is called before a windowed task or at the end, so no batch follows its last
SplitInv ==
  /\ NoNeedlessSplit
  /\ pc = "collect" /\ LastIsBatch =>
       pending = <<>> /\ (NothingLeft \/ NeedsWindows)
  /\ pc \in {"pack", "shard"} => NothingLeft \/ NeedsWindows
  /\ pc \in {"pack", "shard"} => Budgeted /\ pending = <<>>
  /\ pc = "pack" => IF batch = <<>> THEN ~LastIsBatch ELSE SplitFrom(batch[1])
  /\ pc = "shard" =>
       /\ batch = <<>>
       /\ shards # <<>> => shard # <<>>
       /\ \A j \in 1..(Len(shards) - 1) :
            shards[j].estimate
              + input.candidateCost[oversize][shards[j + 1].candidates[1]]
                > input.max
       /\ shards # <<>> =>
            shards[Len(shards)].estimate
              + input.candidateCost[oversize][shard[1]] > input.max

\* the shards of p split for want of room
ShardsSplit(parts, t) ==
  \A j \in 1..(Len(parts) - 1) :
    parts[j].estimate + input.candidateCost[t][parts[j + 1].candidates[1]]
      > input.max

LEMMA SplitAppended ==
  ASSUME TypeOK, NoNeedlessSplit, UNCHANGED input,
         NEW p \in Call, plans' = Append(plans, p),
         p.kind = "batch" => SplitFrom(p.tasks[1]),
         ShardsSplit(p.shards, p.tasks[1])
  PROVE  NoNeedlessSplit' /\ (LastIsBatch' <=> p.kind = "batch")
<1>1. /\ Len(plans') = Len(plans) + 1 /\ Len(plans) \in Nat
      /\ plans'[Len(plans) + 1] = p
      /\ \A k \in 1..Len(plans) : plans'[k] = plans[k]
      /\ plans' # <<>>
  <2>1. plans \in Seq(Call)
    BY DEF TypeOK
  <2>2. Append(plans, p)[Len(plans) + 1] = p /\ Append(plans, p) # <<>>
    BY <2>1
  <2> QED
    BY <2>1, <2>2
<1>2. LastIsBatch' <=> p.kind = "batch"
  BY <1>1 DEF LastIsBatch
<1>3. NoNeedlessSplit'
  <2> SUFFICES ASSUME NEW k \in 1..Len(plans')
               PROVE  /\ k < Len(plans') /\ plans'[k].kind = "batch"
                            /\ plans'[k + 1].kind = "batch"
                           => plans'[k].estimate
                                + input.cost[plans'[k + 1].tasks[1]] > input.max
                      /\ ShardsSplit(plans'[k].shards, plans'[k].tasks[1])
    BY ZenonT(40) DEF NoNeedlessSplit, ShardsSplit
  <2>1. CASE k = Len(plans) + 1
    BY <1>1, <2>1
  <2>2. CASE k \in 1..Len(plans)
    <3>1. ShardsSplit(plans[k].shards, plans[k].tasks[1])
      BY <2>2 DEF NoNeedlessSplit, ShardsSplit
    <3>2. CASE k < Len(plans)
      <4>1. k + 1 \in 1..Len(plans)
        BY <1>1, <2>2, <3>2
      <4> QED
        BY <1>1, <2>2, <3>1, <3>2, <4>1 DEF NoNeedlessSplit
    <3>3. CASE k = Len(plans)
      <4>1. plans # <<>>
        BY <2>2, <3>3
      <4> QED
        BY <1>1, <2>2, <3>1, <3>3, <4>1 DEF SplitFrom, LastIsBatch
    <3> QED
      BY <1>1, <2>2, <3>2, <3>3
  <2> QED
    BY <1>1, <2>1, <2>2
<1> QED
  BY <1>2, <1>3

LEMMA SplitClosed ==
  ASSUME TypeOK, SplitInv, UNCHANGED input, pc = "pack", plans' = Closed
  PROVE  /\ NoNeedlessSplit' /\ (batch = <<>> => ~LastIsBatch')
         /\ batch # <<>> => /\ plans' # <<>>
                            /\ plans'[Len(plans')].estimate = batchEstimate
<1>1. CASE batch = <<>>
  BY <1>1, ZenonT(40) DEF Closed, SplitInv, NoNeedlessSplit, LastIsBatch
<1>2. CASE batch # <<>>
  <2>1. /\ plans' = Append(plans, BatchPlan) /\ BatchPlan \in Call
        /\ BatchPlan.tasks = batch /\ BatchPlan.shards = <<>>
        /\ BatchPlan.estimate = batchEstimate
    BY <1>2, BatchPlanType DEF Closed, BatchPlan, Plan
  <2>2. SplitFrom(batch[1])
    BY <1>2 DEF SplitInv
  <2>3. ShardsSplit(<<>>, batch[1])
    BY DEF ShardsSplit
  <2>4. NoNeedlessSplit'
    BY <2>1, <2>2, <2>3, SplitAppended DEF SplitInv
  <2>5. plans' # <<>> /\ plans'[Len(plans')] = BatchPlan
    <3>1. plans \in Seq(Call)
      BY DEF TypeOK
    <3>2. /\ Len(Append(plans, BatchPlan)) = Len(plans) + 1
          /\ Append(plans, BatchPlan)[Len(plans) + 1] = BatchPlan
          /\ Append(plans, BatchPlan) # <<>>
      BY <2>1, <3>1
    <3> QED
      BY <2>1, <3>2
  <2> QED
    BY <1>2, <2>1, <2>4, <2>5
<1> QED
  BY <1>1, <1>2

LEMMA ClosedSplits ==
  ASSUME TypeOK, SplitInv, pc = "shard"
  PROVE  ShardsSplit(ClosedShard, oversize)
<1> DEFINE new == [candidates |-> shard, estimate |-> shardEstimate]
<1>1. /\ Len(ClosedShard) = Len(shards) + 1 /\ Len(shards) \in Nat
      /\ ClosedShard[Len(shards) + 1] = new
      /\ \A j \in 1..Len(shards) : ClosedShard[j] = shards[j]
  BY DEF ClosedShard, TypeOK
<1>2. new.candidates = shard
  OBVIOUS
<1> HIDE DEF new
<1> SUFFICES ASSUME NEW j \in 1..Len(shards)
             PROVE  ClosedShard[j].estimate
                      + input.candidateCost[oversize]
                          [ClosedShard[j + 1].candidates[1]] > input.max
  BY <1>1 DEF ShardsSplit
<1>3. CASE j = Len(shards)
  <2>1. shards # <<>>
    BY <1>3
  <2> QED
    BY <1>1, <1>2, <1>3, <2>1 DEF SplitInv
<1>4. CASE j \in 1..(Len(shards) - 1)
  <2>1. j + 1 \in 1..Len(shards)
    BY <1>1, <1>4
  <2> QED
    BY <1>1, <1>4, <2>1 DEF SplitInv
<1> QED
  BY <1>1, <1>3, <1>4

LEMMA SplitStep == TypeOK /\ SplitInv /\ [Next]_vars => SplitInv'
<1> SUFFICES ASSUME TypeOK, SplitInv, [Next]_vars PROVE SplitInv'
  OBVIOUS
<1>a. UNCHANGED input
  BY InputKept
<1>b. plans' = plans =>
        NoNeedlessSplit' /\ (LastIsBatch' <=> LastIsBatch)
  BY <1>a DEF SplitInv, NoNeedlessSplit, LastIsBatch
<1>c. /\ Budgeted' <=> Budgeted
      /\ next' = next => /\ NothingLeft' <=> NothingLeft
                         /\ NeedsWindows' <=> NeedsWindows
  BY <1>a DEF Budgeted, NothingLeft, NeedsWindows, Oversized
<1>1. CASE PlanUnlimited
  <2>1. /\ plans' = <<Plan("batch", [t \in Task |-> t], 0, <<>>)>>
        /\ pc' = "done"
    BY <1>1 DEF PlanUnlimited
  <2> QED
    <3>1. /\ Len(plans') = 1 /\ plans'[1].shards = <<>>
          /\ Len(<<>>) = 0
      BY <2>1 DEF Plan
    <3>2. NoNeedlessSplit'
      BY <3>1 DEF NoNeedlessSplit
    <3> QED
      BY <2>1, <3>2 DEF SplitInv
<1>2. CASE Collect
  <2>1. /\ pc = "collect" /\ ~NothingLeft /\ ~NeedsWindows
        /\ UNCHANGED <<pc, plans>>
    BY <1>2 DEF Collect, Collecting
  <2> QED
    BY <1>b, <2>1 DEF SplitInv
<1>3. CASE Flush
  <2>1. /\ pc = "collect" /\ pc' = "pack" /\ pending # <<>>
        /\ NothingLeft \/ NeedsWindows
        /\ pending' = <<>> /\ UNCHANGED <<next, batch, plans>>
    BY <1>3 DEF Flush, Collecting, MustFlush
  <2>2. ~LastIsBatch
    BY <2>1 DEF SplitInv
  <2>3. \A t : SplitFrom(t)'
    BY <1>b, <2>1, <2>2 DEF SplitFrom
  <2>4. Budgeted'
    BY <1>3, <1>a DEF Flush, Collecting, Budgeted
  <2> QED
    BY <1>b, <1>c, <2>1, <2>2, <2>3, <2>4 DEF SplitInv
<1>4. CASE PlanWindows
  <2>1. /\ pc = "collect" /\ pending = <<>> /\ UNCHANGED <<pending, batch>>
        /\ next \in Task
    BY <1>4 DEF PlanWindows, Collecting, MustFlush, NeedsWindows, packing
  <2>2. CASE next \in input.fits
    <3> DEFINE p == Plan("windowed", <<next>>, input.cost[next], <<>>)
    <3>1. plans' = Append(plans, p) /\ pc' = pc
      BY <1>4, <2>2 DEF PlanWindows
    <3>2. p \in Call /\ p.kind = "windowed" /\ p.shards = <<>>
      <4>1. input.cost[next] \in Nat /\ <<next>> \in Seq(Task) \ {<<>>}
        BY <2>1, InputTypes
      <4> QED
        BY <4>1, NoParts, PlanIsCall DEF Plan
    <3> HIDE DEF p
    <3>3. ShardsSplit(p.shards, p.tasks[1])
      BY <3>2 DEF ShardsSplit
    <3>4. NoNeedlessSplit' /\ ~LastIsBatch'
      BY <1>a, <3>1, <3>2, <3>3, SplitAppended DEF SplitInv
    <3> QED
      BY <2>1, <3>1, <3>4 DEF SplitInv
  <2>3. CASE next \notin input.fits
    <3>1. plans' = plans /\ pc' = "refused"
      BY <1>4, <2>3 DEF PlanWindows
    <3> QED
      BY <1>b, <3>1 DEF SplitInv
  <2> QED
    BY <2>2, <2>3
<1>5. CASE Finish
  <2>1. plans' = plans /\ pc' = "done"
    BY <1>5 DEF Finish
  <2> QED
    BY <1>b, <2>1 DEF SplitInv
<1>6. CASE PackOversize
  <2>1. /\ pc = "pack" /\ pc' = "shard" /\ plans' = Closed /\ batch' = <<>>
        /\ shards' = <<>> /\ UNCHANGED <<next, pending>>
    BY <1>6 DEF PackOversize, Packing
  <2>2. NoNeedlessSplit'
    BY <1>a, <2>1, SplitClosed
  <2>3. Len(shards') = 0
    BY <2>1
  <2> QED
    BY <1>c, <2>1, <2>2, <2>3 DEF SplitInv
<1>7. CASE PackJoin
  <2>1. /\ pc = "pack" /\ queue # <<>> /\ batch' = Append(batch, Head(queue))
        /\ UNCHANGED <<pc, next, pending, plans>>
    BY <1>7 DEF PackJoin, Packing
  <2>2. /\ batch' # <<>>
        /\ batch # <<>> => batch'[1] = batch[1]
    BY <2>1, HeadType DEF TypeOK
  <2>3. SplitFrom(batch[1])'
    BY <1>a, <1>b, <2>1, <2>2 DEF SplitInv, SplitFrom
  <2> QED
    BY <1>b, <1>c, <2>1, <2>2, <2>3 DEF SplitInv
<1>8. CASE PackFull
  <2>1. /\ pc = "pack" /\ queue # <<>> /\ batch # <<>> /\ plans' = Closed
        /\ batch' = <<Head(queue)>> /\ UNCHANGED <<pc, next, pending>>
        /\ ~(batchEstimate + input.cost[Head(queue)] <= input.max)
    BY <1>8 DEF PackFull, Packing, Joins
  <2>2. NoNeedlessSplit' /\ plans'[Len(plans')].estimate = batchEstimate
    BY <1>a, <2>1, SplitClosed
  <2>3. SplitFrom(batch[1])'
    <3>1. /\ input.cost[Head(queue)] \in Nat /\ input.max \in Nat
          /\ batchEstimate \in Nat
      BY <2>1, HeadType, InputTypes DEF Budgeted, SplitInv, TypeOK
    <3>2. batchEstimate + input.cost[Head(queue)] > input.max
      BY <2>1, <3>1
    <3> QED
      BY <1>a, <2>1, <2>2, <3>2 DEF SplitFrom
  <2> QED
    BY <1>c, <2>1, <2>2, <2>3 DEF SplitInv
<1>9. CASE PackEnd
  <2>1. /\ pc = "pack" /\ pc' = "collect" /\ plans' = Closed
        /\ UNCHANGED <<next, pending>>
    BY <1>9 DEF PackEnd
  <2>2. NoNeedlessSplit'
    BY <1>a, <2>1, SplitClosed
  <2> QED
    BY <1>c, <2>1, <2>2 DEF SplitInv
<1>10. CASE ShardRefused
  <2>1. plans' = plans /\ pc' = "refused"
    BY <1>10 DEF ShardRefused
  <2> QED
    BY <1>b, <2>1 DEF SplitInv
<1>11. CASE ShardJoin
  <2>1. /\ pc = "shard" /\ shard' = Append(shard, candidate)
        /\ UNCHANGED <<pc, next, pending, batch, oversize, shards, plans>>
    BY <1>11 DEF ShardJoin, Sharding, packing
  <2>2. /\ shard' # <<>>
        /\ shard # <<>> => shard'[1] = shard[1]
    BY <2>1 DEF TypeOK
  <2> QED
    BY <1>a, <1>b, <1>c, <2>1, <2>2 DEF SplitInv
<1>12. CASE ShardFull
  <2>1. /\ pc = "shard" /\ shard # <<>> /\ shards' = ClosedShard
        /\ shard' = <<candidate>>
        /\ ~(shardEstimate + CandidateEstimate <= input.max)
        /\ UNCHANGED <<pc, next, pending, batch, oversize, plans>>
    BY <1>12 DEF ShardFull, Sharding, ShardJoins, packing
  <2>2. ShardsSplit(ClosedShard, oversize)
    BY <2>1, ClosedSplits
  <2>3. /\ ClosedShard # <<>>
        /\ ClosedShard[Len(ClosedShard)].estimate = shardEstimate
    <3> DEFINE new == [candidates |-> shard, estimate |-> shardEstimate]
    <3>1. shards \in Seq(Shard) /\ ClosedShard = Append(shards, new)
      BY DEF TypeOK, ClosedShard
    <3>2. new.estimate = shardEstimate
      OBVIOUS
    <3> HIDE DEF new
    <3>3. /\ Len(Append(shards, new)) = Len(shards) + 1
          /\ Append(shards, new)[Len(shards) + 1] = new
          /\ Append(shards, new) # <<>>
      BY <3>1
    <3> QED
      BY <3>1, <3>2, <3>3
  <2>4. shardEstimate + input.candidateCost[oversize][candidate] > input.max
    <3>1. /\ CandidateEstimate \in Nat /\ input.max \in Nat
          /\ shardEstimate \in Nat
      BY <1>12, <2>1, CandidateTypes, InputTypes
         DEF ShardFull, SplitInv, Budgeted, TypeOK
    <3> QED
      BY <2>1, <3>1 DEF CandidateEstimate
  <2> QED
    BY <1>a, <1>b, <1>c, <2>1, <2>2, <2>3, <2>4 DEF SplitInv, ShardsSplit
<1>13. CASE ShardEnd
  <2> DEFINE parts == IF shard = <<>> THEN shards ELSE ClosedShard
             p == Plan("sharded", <<oversize>>, input.cost[oversize], parts)
  <2>1. /\ pc = "shard" /\ pc' = "pack" /\ plans' = Append(plans, p)
        /\ UNCHANGED <<next, pending, batch>>
    BY <1>13 DEF ShardEnd, packing
  <2>2. /\ p \in Call /\ p.tasks[1] = oversize /\ p.shards = parts
        /\ p.kind = "sharded"
    BY ShardPlanType DEF Plan
  <2>3. ShardsSplit(parts, oversize)
    <3>1. CASE shard = <<>>
      BY <2>1, <3>1 DEF SplitInv, ShardsSplit
    <3>2. CASE shard # <<>>
      BY <2>1, <3>2, ClosedSplits
    <3> QED
      BY <3>1, <3>2
  <2> HIDE DEF p, parts
  <2>4. NoNeedlessSplit' /\ ~LastIsBatch'
    BY <1>a, <2>1, <2>2, <2>3, SplitAppended DEF SplitInv
  <2> QED
    BY <1>c, <2>1, <2>4 DEF SplitInv
<1>14. CASE UNCHANGED vars
  <2>1. UNCHANGED <<pc, next, pending, batch, oversize, shard, shards, plans>>
    BY <1>14 DEF vars, packing, sharding
  <2> QED
    BY <1>a, <1>b, <1>c, <2>1 DEF SplitInv, SplitFrom
<1> QED
  BY <1>1, <1>2, <1>3, <1>4, <1>5, <1>6, <1>7, <1>8, <1>9, <1>10, <1>11,
     <1>12, <1>13, <1>14 DEF Next, Ended

\* A packed call ends only where one more task would not have fitted, and a
\* shard where one more candidate would not.
THEOREM CallsAreFilled == Spec => []NoNeedlessSplit
<1>1. Init => SplitInv
  BY DEF Init, SplitInv, NoNeedlessSplit, LastIsBatch
<1>2. SplitInv => NoNeedlessSplit
  BY DEF SplitInv
<1> QED
  BY <1>1, <1>2, SplitStep, TypeCorrect, PTL DEF Spec
=============================================================================
