----------------------- MODULE InstanceAssemblyProofs -----------------------
(***************************************************************************)
(* For every document, every set of fields and every answer of the         *)
(* proposer and the selectors: in a run of the executor a value is         *)
(* resolved where it was selected; no value vanishes in the resolver or in *)
(* layer 3; and the order of the values decides nothing.                   *)
(***************************************************************************)
EXTENDS InstanceAssembly, SequenceTheorems, SequenceInduction, TLAPS

LEMMA MinOfOne ==
  ASSUME NEW b \in Int
  PROVE  Min({b}) = b
BY DEF Min

LEMMA MinOfAuthorities ==
  ASSUME NEW S, S \subseteq 1..4, S # {}
  PROVE  Min(S) \in S
<1>1. \E x \in S : \A y \in S : x <= y
  <2>1. CASE 1 \in S
    BY <2>1
  <2>2. CASE 1 \notin S /\ 2 \in S
    BY <2>2
  <2>3. CASE 1 \notin S /\ 2 \notin S /\ 3 \in S
    BY <2>3
  <2>4. CASE 1 \notin S /\ 2 \notin S /\ 3 \notin S
    <3>1. PICK x \in S : TRUE
      OBVIOUS
    <3>2. x \in 1..4 /\ x # 1 /\ x # 2 /\ x # 3
      BY <2>4, <3>1
    <3>3. \A y \in S : y = 4
      <4> TAKE y \in S
      <4>1. y \in 1..4 /\ y # 1 /\ y # 2 /\ y # 3
        BY <2>4
      <4> QED BY <4>1
    <3> QED BY <3>1, <3>3
  <2> QED BY <2>1, <2>2, <2>3, <2>4
<1> QED BY <1>1 DEF Min

\* a candidate's span overlaps itself, a point too
LEMMA OverlapsItself ==
  ASSUME NEW c \in Cand
  PROVE  Overlap(SpanOf[c], SpanOf[c])
BY CandidatesAssumption DEF Overlap, SharesFrame

\* The value's own key is the only one that matches its hint, and one of
\* those its span overlaps. So the authorities that see the hint can only name
\* it, continuity names it alone or names nobody alone, and co-occurrence,
\* which looks for a set offered under the hint, finds none.
LEMMA OwnKeyWins ==
  ASSUME NEW K, NEW b \in DOMAIN K, DOMAIN K \subseteq Nat,
         \A d, e \in DOMAIN K : K[d] = K[e] => d = e,
         NEW v, v.cand \in Cand, v.hint = K[b], v.hint.id # NoId,
         SpanOf[v.cand] \in v.hint.anchors
  PROVE  LET p == Placed(K, TRUE, BaseSets, v)
         IN p.settled /\ p.bucket \in DOMAIN K /\ K[p.bucket] = v.hint
<1> DEFINE ladder == Ladder(K, TRUE, BaseSets, v)
           strong == Min(Decisive(ladder))
<1>1. v.hint # NoKey
  BY DEF NoKey, Key
<1>2. Hinted(K, v) = {b}
  BY <1>1 DEF Hinted
<1>3. ladder[1] = {} \/ ladder[1] = {b}
  BY <1>2 DEF Ladder, BoundaryDefining
<1>4. b \in ladder[2]
  BY OverlapsItself DEF Ladder, AnchorContinuity
<1>5. ladder[3] = {}
  <2>1. \A i \in DOMAIN BaseSets : BaseSets[i].hint = NoKey
    BY DEF BaseSets, BaseSet, CandidateSet
  <2>2. MatchingSets(BaseSets, v) = {}
    BY <1>1, <2>1 DEF MatchingSets
  <2> QED BY <2>2 DEF Ladder, Cooccurrence
<1>6. ladder[4] = {b}
  BY <1>2 DEF Ladder, PlanPrior
<1>7. Decisive(ladder) \subseteq 1..4 /\ Decisive(ladder) # {}
  <2> HIDE DEF ladder
  <2>1. 4 \in Decisive(ladder)
    BY <1>6 DEF Decisive
  <2> QED BY <2>1 DEF Decisive
<1>8. strong \in Decisive(ladder)
  BY <1>7, MinOfAuthorities
<1>9. ladder[strong] = {b}
  <2>1. PICK x \in ladder[strong] : ladder[strong] = {x}
    BY <1>8 DEF Decisive
  <2>2. strong \in 1..4
    <3> HIDE DEF strong, ladder
    <3> QED BY <1>7, <1>8
  <2> HIDE DEF ladder, strong
  <2> QED BY <1>3, <1>4, <1>5, <1>6, <2>1, <2>2
<1>10. b \in Int
  OBVIOUS
<1>11. Min(ladder[strong]) = b
  BY <1>9, <1>10, MinOfOne
<1>12. strong # 0
  <2> HIDE DEF strong, ladder
  <2> QED BY <1>7, <1>8
<1>13. /\ Placed(K, TRUE, BaseSets, v).settled
      /\ Placed(K, TRUE, BaseSets, v).bucket = b
  BY <1>7, <1>11, <1>12 DEF Placed
<1> QED BY <1>13

\* the one key of a document overlaps everything that was validated
LEMMA DocumentIsDecisive ==
  ASSUME NEW V, NEW i \in DOMAIN V, V[i].cand \in Cand, NEW S
  PROVE  Placed(DocumentKeys(V), FALSE, S, V[i]).settled
<1> DEFINE K == DocumentKeys(V)
           ladder == Ladder(K, FALSE, S, V[i])
<1>1. DOMAIN K = {1}
  BY DEF DocumentKeys
<1>2. SpanOf[V[i].cand] \in K[1].anchors
  BY DEF DocumentKeys, Key
<1>3. ladder[2] = {1}
  BY <1>1, <1>2, OverlapsItself DEF Ladder, AnchorContinuity
<1>4. 2 \in Decisive(ladder)
  <2> HIDE DEF ladder
  <2> QED BY <1>3 DEF Decisive
<1> QED BY <1>4 DEF Placed

-----------------------------------------------------------------------------
(* The invariant. What an executor run plans keeps to itself: the          *)
(* candidates offered for a line, the proposals made of them and the       *)
(* values that come of those stand on anchors of their own line. The       *)
(* structural planner's callers promise nothing, and nothing is claimed.   *)

IsSeq(s) == \E S : s \in Seq(S)

OwnMenus ==
  {m \in [field : Int, hint : Range(keys), ids : SUBSET Cand] :
     \A c \in m.ids : SpanOf[c] \in m.hint.anchors}

OwnProposals ==
  {p \in [cand : Cand, hint : Range(keys)] : SpanOf[p.cand] \in p.hint.anchors}

Unread ==
  stage = "plan" => values = <<>> /\ proposed = <<>> /\ mode = "unplanned"

KeysAreDistinct ==
  /\ DOMAIN keys \subseteq Nat
  /\ \A b \in DOMAIN keys : keys[b].id # NoId
  /\ \A b, d \in DOMAIN keys : keys[b] = keys[d] => b = d

Planned ==
  mode = "proposed" =>
    /\ offered = BaseSets
    /\ KeysAreDistinct
    /\ todo \in Seq(OwnMenus)
    /\ proposed \in Seq(OwnProposals)
    /\ \A i \in DOMAIN values : /\ values[i].cand \in Cand
                               /\ values[i].hint \in Range(keys)
                               /\ SpanOf[values[i].cand] \in values[i].hint.anchors

Menus == [field : Int, hint : {NoKey}, ids : SUBSET Cand]

Unplanned ==
  mode = "whole" =>
    /\ todo \in Seq(Menus)
    /\ IsSeq(proposed)
    /\ \A i \in DOMAIN proposed : proposed[i].cand \in Cand
    /\ \A i \in DOMAIN values : values[i].cand \in Cand

IInv == Unread /\ IsSeq(values) /\ Planned /\ Unplanned

LEMMA InvImpliesScopes ==
  ASSUME IInv
  PROVE  SelectedScopeDecides
<1> SUFFICES ASSUME NEW i \in DOMAIN values
             PROVE  /\ mode = "whole" =>
                         Placed(DocumentKeys(values), FALSE, offered, values[i]).settled
                    /\ mode = "proposed" =>
                         LET p == Placed(keys, TRUE, offered, values[i])
                         IN p.settled /\ keys[p.bucket] = values[i].hint
  BY DEF SelectedScopeDecides
<1>1. ASSUME mode = "whole"
      PROVE  Placed(DocumentKeys(values), FALSE, offered, values[i]).settled
  BY <1>1, DocumentIsDecisive DEF IInv, Unplanned
<1>2. ASSUME mode = "proposed"
      PROVE  LET p == Placed(keys, TRUE, offered, values[i])
             IN p.settled /\ keys[p.bucket] = values[i].hint
  <2> DEFINE v == values[i]
  <2>1. v.cand \in Cand /\ v.hint \in Range(keys) /\ SpanOf[v.cand] \in v.hint.anchors
    BY <1>2 DEF IInv, Planned
  <2>2. PICK b \in DOMAIN keys : v.hint = keys[b]
    BY <2>1 DEF Range
  <2>3. KeysAreDistinct /\ offered = BaseSets
    BY <1>2 DEF IInv, Planned
  <2>4. v.hint.id # NoId
    BY <2>2, <2>3 DEF KeysAreDistinct
  <2> HIDE DEF v
  <2>5. LET p == Placed(keys, TRUE, BaseSets, v)
        IN p.settled /\ p.bucket \in DOMAIN keys /\ keys[p.bucket] = v.hint
    <3>1. /\ DOMAIN keys \subseteq Nat
          /\ \A d, e \in DOMAIN keys : keys[d] = keys[e] => d = e
      BY <2>3 DEF KeysAreDistinct
    <3>2. v.cand \in Cand /\ SpanOf[v.cand] \in v.hint.anchors
      BY <2>1
    <3>3. QED
      BY <2>2, <2>4, <3>1, <3>2, OwnKeyWins, ZenonT(30)
  <2> QED BY <2>3, <2>5 DEF v
<1> QED BY <1>1, <1>2

LEMMA InitEstablishes == Init => IInv
<1>1. <<>> \in Seq({})
  BY EmptySeq
<1> QED BY <1>1 DEF Init, IInv, Unread, Planned, Unplanned, IsSeq

-----------------------------------------------------------------------------
(* Planning *)

LEMMA FieldsAreNumbered == Len(Fields) \in Nat /\ Field = 1..Len(Fields)
BY FieldsAssumption, LenProperties DEF Field

LEMMA BaseSetsAreMenus == BaseSets \in Seq(Menus)
<1>1. \A f \in 1..Len(Fields) : BaseSet(f) \in Menus
  BY DEF BaseSet, CandidateSet, Menus
<1>2. BaseSets = [f \in 1..Len(Fields) |-> BaseSet(f)]
  BY FieldsAreNumbered DEF BaseSets
<1>3. BaseSets \in [1..Len(Fields) -> Menus]
  BY <1>1, <1>2
<1> QED BY <1>3, FieldsAreNumbered, SeqDef

\* the line candidates the proposer picks are numbered, and anchored on what
\* they hold
LEMMA LinesHoldTheirAnchors ==
  ASSUME NEW x \in InstanceCandidates
  PROVE  /\ x.id # NoId
         /\ x.ids \subseteq Cand
         /\ \A c \in x.ids : SpanOf[c] \in x.anchors
<1>1. PICK s :
        x = [id      |-> InstanceId(
                           Cardinality({t \in {LineOf(c) : c \in Cand} : t < s})),
             ids     |-> {c \in Cand : LineOf(c) = s},
             anchors |-> {SpanOf[c] : c \in {d \in Cand : LineOf(d) = s}}]
  BY Zenon DEF InstanceCandidates
<1>2. \A n : InstanceId(n).tag = "inst"
  BY DEF InstanceId, GroupId
<1>3. NoId.tag = "none"
  BY DEF NoId, GroupId
<1>4. x.id # NoId
  BY <1>1, <1>2, <1>3
<1> QED BY <1>1, <1>4

LEMMA SetForLine ==
  ASSUME NEW f, NEW key
  PROVE  SetForInstance(BaseSet(f), key)
           = [field |-> f, hint |-> key,
              ids |-> {c \in Cand : FieldOf[c] = f} \cap Proposed(key.id).ids]
BY DEF SetForInstance, BaseSet, CandidateSet

LEMMA PickedLinesArePlanned ==
  ASSUME NEW answer \in Ids({x.id : x \in InstanceCandidates} \cup {NoId}),
         ~ProposerConflict(answer)
  PROVE  /\ Len(answer) \in Nat \ {0}
         /\ DOMAIN answer = 1..Len(answer)
         /\ \A i \in DOMAIN answer : /\ Proposed(answer[i]) \in InstanceCandidates
                                    /\ Proposed(answer[i]).id = answer[i]
         /\ \A i, j \in DOMAIN answer : answer[i] = answer[j] => i = j
<1>1. PICK k \in 0..MaxIds : answer \in [1..k -> {x.id : x \in InstanceCandidates} \cup {NoId}]
  BY DEF Ids
<1>2. k \in Nat
  BY <1>1, MaxIdsAssumption
<1>3. answer \in Seq({x.id : x \in InstanceCandidates} \cup {NoId})
  BY <1>1, <1>2, SeqDef
<1>4. Len(answer) \in Nat \ {0} /\ DOMAIN answer = 1..Len(answer)
  BY <1>3, EmptySeq, LenProperties DEF ProposerConflict
<1>5. ASSUME NEW i \in DOMAIN answer
      PROVE  /\ Proposed(answer[i]) \in InstanceCandidates
             /\ Proposed(answer[i]).id = answer[i]
  <2>1. answer[i] \in Range(answer)
    BY DEF Range
  <2>2. PICK x \in InstanceCandidates : x.id = answer[i]
    BY <2>1 DEF ProposerConflict
  <2> QED BY <2>2 DEF Proposed
<1>6. \A i, j \in DOMAIN answer : answer[i] = answer[j] => i = j
  BY DEF ProposerConflict
<1> QED BY <1>4, <1>5, <1>6

LEMMA ReadWholeKeeps ==
  ASSUME IInv, ReadWhole
  PROVE  IInv'
<1>1. values = <<>> /\ proposed = <<>>
  BY DEF IInv, Unread, ReadWhole
<1>2. Unplanned'
  <2>1. todo' \in Seq(Menus) /\ values' = <<>> /\ proposed' = <<>>
    BY <1>1, BaseSetsAreMenus DEF ReadWhole
  <2> QED BY <2>1, EmptySeq DEF Unplanned, IsSeq
<1> QED BY <1>1, <1>2 DEF IInv, Unread, Planned, ReadWhole, IsSeq

LEMMA ProposeKeeps ==
  ASSUME IInv, Propose
  PROVE  IInv'
<1>1. stage = "plan" /\ values = <<>> /\ proposed = <<>> /\ mode = "unplanned"
  BY DEF IInv, Unread, Propose
<1>2. PICK answer \in Ids({x.id : x \in InstanceCandidates} \cup {NoId}) :
        IF ProposerConflict(answer) THEN Stop
        ELSE LET plan == KeysFromResponse(answer)
             IN /\ mode' = "proposed" /\ stage' = "select"
                /\ keys' = plan
                /\ offered' = BaseSets
                /\ todo' = SetsForInstances(plan)
                /\ UNCHANGED <<backed, proposed, values, instances>>
  BY DEF Propose
<1>3. CASE ProposerConflict(answer)
  BY <1>1, <1>2, <1>3 DEF Stop, IInv, Unread, Planned, Unplanned, IsSeq
<1>4. CASE ~ProposerConflict(answer)
  <2> DEFINE plan == KeysFromResponse(answer)
             n == Len(answer)
             size == Len(Fields) * n
  <2>1. /\ mode' = "proposed" /\ stage' = "select" /\ keys' = plan
        /\ offered' = BaseSets /\ todo' = SetsForInstances(plan)
        /\ proposed' = <<>> /\ values' = <<>>
    BY <1>1, <1>2, <1>4
  <2>2. /\ n \in Nat \ {0}
        /\ DOMAIN answer = 1..n
        /\ \A i \in 1..n : /\ Proposed(answer[i]) \in InstanceCandidates
                          /\ Proposed(answer[i]).id = answer[i]
        /\ \A i, j \in 1..n : answer[i] = answer[j] => i = j
    BY <1>4, PickedLinesArePlanned
  <2>3. plan = [i \in 1..n |-> Key(answer[i], i - 1, Proposed(answer[i]).anchors)]
    BY <2>2 DEF KeysFromResponse
  <2>4. Len(plan) = n
    BY <2>2, <2>3
  <2>5. ASSUME NEW i \in 1..n
        PROVE  plan[i].id = answer[i] /\ plan[i].anchors = Proposed(answer[i]).anchors
    BY <2>3 DEF Key
  <2>6. KeysAreDistinct'
    <3>1. DOMAIN keys' = 1..n
      BY <2>1, <2>3
    <3>2. \A i \in 1..n : keys'[i].id = answer[i] /\ answer[i] # NoId
      BY <2>1, <2>2, <2>5, LinesHoldTheirAnchors
    <3>3. \A i, j \in 1..n : keys'[i] = keys'[j] => i = j
      BY <2>2, <3>2
    <3> QED BY <2>2, <3>1, <3>2, <3>3 DEF KeysAreDistinct
  <2>7. todo' \in Seq(OwnMenus')
    <3>1. size \in Nat
      BY <2>2, FieldsAreNumbered
    <3> HIDE DEF size
    <3>2. todo' = [u \in 1..size |->
                     SetForInstance(BaseSet(((u - 1) \div n) + 1), plan[((u - 1) % n) + 1])]
      BY <2>1, <2>4 DEF SetsForInstances, size
    <3>3. ASSUME NEW u \in 1..size
          PROVE  SetForInstance(BaseSet(((u - 1) \div n) + 1), plan[((u - 1) % n) + 1])
                   \in OwnMenus'
      <4> DEFINE f == ((u - 1) \div n) + 1
                 i == ((u - 1) % n) + 1
      <4>1. f \in Int /\ i \in 1..n
        BY <2>2, <3>1
      <4> HIDE DEF f, i
      <4>2. plan[i] \in Range(keys')
        BY <2>1, <2>3, <4>1 DEF Range
      <4>3. plan[i].id = answer[i] /\ plan[i].anchors = Proposed(answer[i]).anchors
        BY <2>5, <4>1
      <4>4. SetForInstance(BaseSet(f), plan[i])
              = [field |-> f, hint |-> plan[i],
                 ids |-> {c \in Cand : FieldOf[c] = f} \cap Proposed(answer[i]).ids]
        <5> HIDE DEF plan
        <5>1. QED
          BY <4>3, SetForLine, ZenonT(30)
      <4>5. \A c \in Proposed(answer[i]).ids : SpanOf[c] \in plan[i].anchors
        BY <2>2, <4>1, <4>3, LinesHoldTheirAnchors
      <4> HIDE DEF plan
      <4>6. SetForInstance(BaseSet(f), plan[i]) \in OwnMenus'
        BY <4>1, <4>2, <4>4, <4>5 DEF OwnMenus
      <4> QED BY <4>6 DEF f, i
    <3>4. todo' \in [1..size -> OwnMenus']
      BY <3>2, <3>3
    <3> QED BY <3>1, <3>4, SeqDef
  <2>8. Planned'
    <3>1. <<>> \in Seq(OwnProposals')
      BY EmptySeq
    <3>2. offered' = BaseSets'
      BY <2>1 DEF BaseSets
    <3> QED BY <2>1, <2>6, <2>7, <3>1, <3>2 DEF Planned
  <2> QED BY <1>1, <2>1, <2>8 DEF IInv, Unread, Unplanned, IsSeq
<1> QED BY <1>3, <1>4

LEMMA PlanStructurallyKeeps ==
  ASSUME IInv, PlanStructurally
  PROVE  IInv'
<1>1. stage = "plan" /\ values = <<>> /\ proposed = <<>> /\ mode = "unplanned"
  BY DEF IInv, Unread, PlanStructurally
<1>2. values' = <<>> /\ stage' # "plan" /\ mode' \in {"unplanned", "structural"}
  BY <1>1 DEF PlanStructurally, Stop
<1> QED BY <1>2, EmptySeq DEF IInv, Unread, Planned, Unplanned, IsSeq

-----------------------------------------------------------------------------
(* Selection and validation *)

LEMMA AnswersAreSequences ==
  ASSUME NEW set, NEW id, NEW o \in Observations(set, id), ~SelectionBroken(o, set)
  PROVE  o.id = id /\ o.ids \in Seq(set.ids)
<1>1. o.id = id
  BY DEF Observations, Observation
<1>2. \E S : o.ids \in Seq(S)
  <2>1. CASE o \in {Observation("SELECTED", ids, id) : ids \in Ids(set.ids)}
    <3>1. PICK k \in 0..MaxIds : o.ids \in [1..k -> set.ids]
      BY <2>1 DEF Observation, Ids
    <3>2. k \in Nat
      BY MaxIdsAssumption
    <3>3. o.ids \in Seq(set.ids)
      BY <3>1, <3>2, SeqDef
    <3> QED BY <3>3
  <2>2. CASE o = Observation("ABSTAINED", <<>>, id)
    BY <2>2, EmptySeq DEF Observation
  <2>3. CASE \E c \in set.ids : o = Observation("AMBIGUOUS", <<c>>, id)
    <3>1. PICK c \in set.ids : o.ids = <<c>>
      BY <2>3 DEF Observation
    <3>2. <<c>> \in Seq({c})
      OBVIOUS
    <3> QED BY <3>1, <3>2
  <2> QED BY <2>1, <2>2, <2>3 DEF Observations
<1>3. PICK S : o.ids \in Seq(S)
  BY <1>2
<1>4. /\ Len(o.ids) \in Nat /\ DOMAIN o.ids = 1..Len(o.ids)
      /\ o.ids \in [1..Len(o.ids) -> S]
  BY <1>3, LenProperties
<1>5. \A i \in 1..Len(o.ids) : o.ids[i] \in set.ids
  BY <1>4 DEF SelectionBroken, Range
<1>6. o.ids \in [1..Len(o.ids) -> set.ids]
  BY <1>4, <1>5
<1> QED BY <1>1, <1>4, <1>6, SeqDef

LEMMA SelectKeeps ==
  ASSUME IInv, Select
  PROVE  IInv'
<1> DEFINE set == Head(todo)
<1> DEFINE Answered(o) ==
        IF SelectionBroken(o, set) THEN Stop
        ELSE /\ todo' = Tail(todo)
             /\ proposed' = IF SelectionRefused(o, set) # "" THEN <<>>
                            ELSE [i \in DOMAIN o.ids |-> Proposal(o, set, o.ids[i])]
             /\ UNCHANGED <<stage, backed, mode, keys, offered, values, instances>>
<1>0. PICK id \in ObservedIds(set) : \E o \in Observations(set, id) : Answered(o)
  BY DEF Select
<1>1. PICK o \in Observations(set, id) : Answered(o)
  BY <1>0
<1>2. CASE SelectionBroken(o, set)
  BY <1>1, <1>2 DEF Stop, IInv, Unread, Planned, KeysAreDistinct, OwnMenus,
                    OwnProposals, Unplanned, IsSeq, BaseSets
<1>3. CASE ~SelectionBroken(o, set)
  <2>1. /\ todo' = Tail(todo)
        /\ proposed' = <<>>
             \/ proposed' = [i \in DOMAIN o.ids |-> Proposal(o, set, o.ids[i])]
        /\ UNCHANGED <<stage, mode, keys, offered, values>>
    BY <1>1, <1>3
  <2>2. stage = "select" /\ todo # <<>>
    BY DEF Select
  <2>3. o.id = id /\ o.ids \in Seq(set.ids)
    BY <1>3, AnswersAreSequences
  <2>4. Len(o.ids) \in Nat /\ DOMAIN o.ids = 1..Len(o.ids)
        /\ \A i \in DOMAIN o.ids : o.ids[i] \in set.ids
    BY <2>3, LenProperties, ElementOfSeq
  <2>5. ASSUME NEW T, \A i \in DOMAIN o.ids : Proposal(o, set, o.ids[i]) \in T
        PROVE  proposed' \in Seq(T)
    <3>1. [i \in DOMAIN o.ids |-> Proposal(o, set, o.ids[i])] \in [1..Len(o.ids) -> T]
      BY <2>4, <2>5
    <3>2. [i \in DOMAIN o.ids |-> Proposal(o, set, o.ids[i])] \in Seq(T)
      BY <2>4, <3>1, SeqDef
    <3>3. <<>> \in Seq(T)
      BY EmptySeq
    <3> HIDE DEF set
    <3> QED BY <2>1, <3>2, <3>3
  <2>6. ASSUME mode = "proposed"
        PROVE  todo' \in Seq(OwnMenus) /\ proposed' \in Seq(OwnProposals)
    <3>1. todo \in Seq(OwnMenus) /\ KeysAreDistinct
      BY <2>6 DEF IInv, Planned
    <3>2. set \in OwnMenus /\ Tail(todo) \in Seq(OwnMenus)
      BY <2>2, <3>1, HeadTailProperties
    <3>3. set.hint.id # NoId
      BY <3>1, <3>2 DEF OwnMenus, KeysAreDistinct, Range
    <3>4. set.hint # NoKey
      BY <3>3 DEF NoKey, Key
    <3>5. o.id = set.hint.id
      BY <2>3, <2>6, <3>4 DEF ObservedIds
    <3>6. ASSUME NEW i \in DOMAIN o.ids
          PROVE  Proposal(o, set, o.ids[i]) \in OwnProposals
      <4>1. o.ids[i] \in set.ids
        BY <2>4
      <4>2. Proposal(o, set, o.ids[i]) = [cand |-> o.ids[i], hint |-> set.hint]
        BY <3>4, <3>5 DEF Proposal, TentativeKey
      <4> HIDE DEF set
      <4> QED BY <3>2, <4>1, <4>2 DEF OwnMenus, OwnProposals
    <3> QED BY <2>1, <2>5, <3>2, <3>6
  <2>7. ASSUME mode = "whole"
        PROVE  /\ todo' \in Seq(Menus)
               /\ IsSeq(proposed')
               /\ \A i \in DOMAIN proposed' : proposed'[i].cand \in Cand
    <3>1. set \in Menus /\ Tail(todo) \in Seq(Menus)
      BY <2>2, <2>7, HeadTailProperties DEF IInv, Unplanned
    <3>2. \A i \in DOMAIN o.ids : /\ Proposal(o, set, o.ids[i]).cand = o.ids[i]
                                 /\ o.ids[i] \in Cand
      BY <2>4, <3>1 DEF Proposal, Menus
    <3>3. proposed' \in Seq({Proposal(o, set, o.ids[i]) : i \in DOMAIN o.ids})
      BY <2>5
    <3>4. \A i \in DOMAIN proposed' : proposed'[i].cand \in Cand
      BY <2>1, <3>2
    <3> QED BY <2>1, <3>1, <3>3, <3>4 DEF IsSeq
  <2>8. Planned'
    <3> SUFFICES ASSUME mode = "proposed"
                 PROVE  Planned'
      BY <2>1 DEF Planned
    <3>1. OwnMenus' = OwnMenus /\ OwnProposals' = OwnProposals
      BY <2>1 DEF OwnMenus, OwnProposals
    <3> QED BY <2>1, <2>6, <3>1 DEF IInv, Planned, KeysAreDistinct, BaseSets
  <2>9. Unplanned'
    BY <2>1, <2>7 DEF IInv, Unplanned
  <2> QED BY <2>1, <2>2, <2>8, <2>9 DEF IInv, Unread
<1> QED BY <1>2, <1>3

LEMMA ValidateKeeps ==
  ASSUME IInv, Validate
  PROVE  IInv'
<1> DEFINE p == Head(proposed)
           f == FieldOf[p.cand]
           x == IF p.cand \in Layer1Bad THEN Refused
                ELSE Normalized(backed, f, TextOf[p.cand])
           value == [cand |-> p.cand, hint |-> p.hint, value |-> x]
<1>1. stage = "select" /\ proposed # <<>>
  BY DEF Validate
<1>2. \/ Stop
      \/ /\ proposed' = Tail(proposed)
         /\ values' = values \/ values' = Append(values, value)
         /\ UNCHANGED <<stage, mode, keys, todo, offered>>
  BY DEF Validate
<1>3. CASE Stop
  BY <1>3 DEF Stop, IInv, Unread, Planned, KeysAreDistinct, OwnMenus,
              OwnProposals, Unplanned, IsSeq, BaseSets
<1>4. ASSUME proposed' = Tail(proposed),
             values' = values \/ values' = Append(values, value),
             UNCHANGED <<stage, mode, keys, todo, offered>>
      PROVE  IInv'
  <2> DEFINE all == Range(values) \cup {value}
  <2> HIDE DEF x
  <2>1. values \in Seq(all) /\ DOMAIN values = 1..Len(values) /\ Len(values) \in Nat
    <3>1. PICK S : values \in Seq(S)
      BY DEF IInv, IsSeq
    <3>2. Len(values) \in Nat /\ DOMAIN values = 1..Len(values)
          /\ values \in [1..Len(values) -> S]
      BY <3>1, LenProperties
    <3>3. values \in [1..Len(values) -> all]
      BY <3>2 DEF Range
    <3> QED BY <3>2, <3>3, SeqDef
  <2>2. values' \in Seq(all)
    BY <1>4, <2>1
  <2>3. \A i \in DOMAIN values' : \/ i \in DOMAIN values /\ values'[i] = values[i]
                                 \/ values'[i] = value
    <3> HIDE DEF value
    <3> QED BY <1>4, <2>1
  <2>4. value.cand = p.cand /\ value.hint = p.hint
    OBVIOUS
  <2> HIDE DEF value, p
  <2>5. Planned'
    <3> SUFFICES ASSUME mode = "proposed"
                 PROVE  Planned'
      BY <1>4 DEF Planned
    <3>1. /\ OwnMenus' = OwnMenus /\ OwnProposals' = OwnProposals
          /\ KeysAreDistinct' = KeysAreDistinct
      BY <1>4 DEF OwnMenus, OwnProposals, KeysAreDistinct
    <3>2. p \in OwnProposals /\ Tail(proposed) \in Seq(OwnProposals)
      BY <1>1, HeadTailProperties DEF IInv, Planned, p
    <3>3. /\ value.cand \in Cand /\ value.hint \in Range(keys)
          /\ SpanOf[value.cand] \in value.hint.anchors
      BY <2>4, <3>2 DEF OwnProposals
    <3>4. \A i \in DOMAIN values' : /\ values'[i].cand \in Cand
                                   /\ values'[i].hint \in Range(keys)
                                   /\ SpanOf[values'[i].cand] \in values'[i].hint.anchors
      BY <2>3, <3>3 DEF IInv, Planned
    <3> QED BY <1>4, <3>1, <3>2, <3>4 DEF IInv, Planned, BaseSets
  <2>6. Unplanned'
    <3> SUFFICES ASSUME mode = "whole"
                 PROVE  Unplanned'
      BY <1>4 DEF Unplanned
    <3>1. PICK S : proposed \in Seq(S)
      BY DEF IInv, Unplanned, IsSeq
    <3>2. /\ p = proposed[1] /\ 1 \in DOMAIN proposed
          /\ Tail(proposed) \in Seq(S)
          /\ \A i \in DOMAIN Tail(proposed) : i + 1 \in DOMAIN proposed
                                             /\ Tail(proposed)[i] = proposed[i + 1]
      BY <1>1, <3>1, EmptySeq, LenProperties, HeadTailProperties DEF p
    <3>3. value.cand \in Cand
      BY <2>4, <3>2 DEF IInv, Unplanned
    <3> QED BY <1>4, <2>3, <3>2, <3>3 DEF IInv, Unplanned, IsSeq
  <2> QED BY <1>1, <1>4, <2>2, <2>5, <2>6 DEF IInv, Unread, IsSeq
<1> QED BY <1>2, <1>3, <1>4

-----------------------------------------------------------------------------
LEMMA NextKeeps ==
  ASSUME IInv, [Next]_vars
  PROVE  IInv'
<1>1. ASSUME UNCHANGED <<mode, keys, todo, proposed, offered, values>>,
             stage' # "plan" \/ stage' = stage
      PROVE  IInv'
  BY <1>1 DEF IInv, Unread, Planned, KeysAreDistinct, OwnMenus, OwnProposals,
              Unplanned, IsSeq, BaseSets
<1>2. CASE Resolve
  BY <1>1, <1>2 DEF Resolve
<1>3. CASE Judge
  BY <1>1, <1>3 DEF Judge
<1>4. CASE UNCHANGED vars
  BY <1>1, <1>4 DEF vars
<1> QED BY <1>2, <1>3, <1>4, ReadWholeKeeps, ProposeKeeps, PlanStructurallyKeeps,
           SelectKeeps, ValidateKeeps DEF Next

(* In every run of the executor, whatever the proposer and the selectors   *)
(* answer and wherever the candidates stand, what was selected for a scope *)
(* is resolved there: overlapping anchors of another instance never claim  *)
(* it, and nothing is ambiguous (DeterministicInstanceResolver.resolve,    *)
(* _assign_fields).                                                        *)
THEOREM ScopesDecide == Spec => []SelectedScopeDecides
<1>1. IInv => SelectedScopeDecides
  BY InvImpliesScopes
<1>2. Init => IInv
  BY InitEstablishes
<1>3. IInv /\ [Next]_vars => IInv'
  BY NextKeeps
<1> QED BY <1>1, <1>2, <1>3, PTL DEF Spec

-----------------------------------------------------------------------------
(* Where a value goes                                                      *)

\* every value is filed at one of the keys, undecided ones too
LEMMA FiledAtAKey ==
  ASSUME NEW K, NEW n \in Nat \ {0}, DOMAIN K = 1..n, NEW used, NEW sets, NEW v
  PROVE  /\ Placed(K, used, sets, v).of = v
         /\ Placed(K, used, sets, v).bucket \in 1..n
<1> DEFINE ladder == Ladder(K, used, sets, v)
           decisive == Decisive(ladder)
           partial == {a \in 2..4 : ladder[a] # {}}
           strong == IF decisive # {} THEN Min(decisive)
                     ELSE IF partial # {} THEN Min(partial) ELSE 0
<1>1. /\ BoundaryDefining(K, v) \subseteq 1..n
      /\ AnchorContinuity(K, v) \subseteq 1..n
      /\ Cooccurrence(K, sets, v) \subseteq 1..n
      /\ PlanPrior(K, used, v) \subseteq 1..n
  BY DEF BoundaryDefining, AnchorContinuity, Cooccurrence, PlanPrior, Hinted
<1>2. \A a \in 1..4 : ladder[a] \subseteq 1..n
  BY <1>1 DEF Ladder
<1> HIDE DEF ladder
<1>3. decisive \subseteq 1..4 /\ \A a \in decisive : ladder[a] # {}
  BY DEF Decisive
<1> HIDE DEF decisive
<1>4. strong = 0 \/ (strong \in 1..4 /\ ladder[strong] # {})
  <2>1. decisive # {} => Min(decisive) \in decisive
    BY <1>3, MinOfAuthorities
  <2>2. partial # {} => Min(partial) \in partial
    <3>1. partial \subseteq 1..4
      OBVIOUS
    <3> HIDE DEF partial
    <3>2. QED
      BY <3>1, MinOfAuthorities
  <2>3. \A a \in partial : a \in 1..4 /\ ladder[a] # {}
    OBVIOUS
  <2> HIDE DEF partial
  <2>4. CASE decisive # {}
    <3>1. strong = Min(decisive)
      BY <2>4
    <3> HIDE DEF strong
    <3>2. QED
      BY <1>3, <2>1, <2>4, <3>1
  <2>5. CASE decisive = {} /\ partial # {}
    <3>1. strong = Min(partial)
      BY <2>5
    <3> HIDE DEF strong
    <3>2. QED
      BY <2>2, <2>3, <2>5, <3>1
  <2>6. CASE decisive = {} /\ partial = {}
    <3>1. strong = 0
      BY <2>6
    <3> HIDE DEF strong
    <3>2. QED
      BY <3>1
  <2>7. QED
    BY <2>4, <2>5, <2>6
<1>5. strong # 0 => Min(ladder[strong]) \in 1..n
  <2> HIDE DEF strong
  <2>1. strong # 0 => ladder[strong] \in SUBSET Nat /\ ladder[strong] # {}
    BY <1>2, <1>4
  <2>2. strong # 0 => Min(ladder[strong]) \in ladder[strong]
    BY <2>1, MinIsOne
  <2>3. QED
    BY <1>2, <1>4, <2>2
<1>6. /\ Placed(K, used, sets, v).of = v
      /\ Placed(K, used, sets, v).bucket = IF strong = 0 THEN 1 ELSE Min(ladder[strong])
  BY DEF Placed, ladder, decisive
<1> HIDE DEF strong
<1>7. QED
  BY <1>5, <1>6

\* no other value is the same
Single(P, i) == \A j \in DOMAIN P : P[j].of = P[i].of => j = i

Occurrences(evidence, v) == {q \in DOMAIN evidence : evidence[q] = v}

\* The evidence of an instance is what survives there, every value once.
LEMMA EvidenceIs ==
  ASSUME NEW N \in Nat, NEW P, DOMAIN P = 1..N,
         \A i \in 1..N : P[i].of.cand \in Cand, NEW b
  PROVE  LET evidence == EvidenceAt(P, b)
         IN /\ Range(evidence) = {P[i].of : i \in Survivors(P, b)}
            /\ \A i \in Survivors(P, b) :
                 Single(P, i) => \E q : Occurrences(evidence, P[i].of) = {q}
<1> DEFINE Mine(f) == {i \in Survivors(P, b) : FieldAt(P, i) = f}
           mine(f) == InOrder(Mine(f))
           Of == {P[i].of : i \in 1..N}
           told(f) == [k \in DOMAIN mine(f) |-> P[mine(f)[k]].of]
           seqs == [f \in Field |-> told(f)]
           flat == FlattenSeq(seqs)
<1>1. Survivors(P, b) \subseteq 1..N
  BY DEF Survivors
<1>2. ASSUME NEW f
      PROVE  /\ Cardinality(Mine(f)) \in Nat
             /\ mine(f) \in [1..Cardinality(Mine(f)) -> Mine(f)]
             /\ \A i \in Mine(f) : \E k \in 1..Cardinality(Mine(f)) : mine(f)[k] = i
             /\ \A k, l \in 1..Cardinality(Mine(f)) : mine(f)[k] = mine(f)[l] => k = l
  <2>1. Mine(f) \in SUBSET (1..N) /\ Mine(f) \in SUBSET Nat
    BY <1>1
  <2>2. IsFiniteSet(1..N)
    BY FS_Interval
  <2>3. IsFiniteSet(Mine(f))
    BY <2>1, <2>2, FS_Subset
  <2> HIDE DEF Mine
  <2>4. QED
    BY <2>1, <2>3, InOrderIs
<1>3. \A i \in Survivors(P, b) : FieldAt(P, i) \in Field /\ i \in Mine(FieldAt(P, i))
  BY <1>1, CandidatesAssumption DEF FieldAt
<1>4. \A f : Mine(f) \subseteq 1..N /\ \A i \in Mine(f) : i \in Survivors(P, b) /\ FieldAt(P, i) = f
  BY <1>1
<1> HIDE DEF Mine, mine
<1>5. ASSUME NEW f
      PROVE  /\ told(f) \in Seq(Of)
             /\ Len(told(f)) = Cardinality(Mine(f))
             /\ \A k \in 1..Cardinality(Mine(f)) : told(f)[k] = P[mine(f)[k]].of
  <2>1. /\ DOMAIN mine(f) = 1..Cardinality(Mine(f))
        /\ \A k \in 1..Cardinality(Mine(f)) : mine(f)[k] \in 1..N
    BY <1>2, <1>4
  <2>2. told(f) \in [1..Cardinality(Mine(f)) -> Of]
    BY <2>1
  <2> HIDE DEF Of
  <2>3. told(f) \in Seq(Of) /\ Len(told(f)) = Cardinality(Mine(f))
    BY <1>2, <2>2, FunctionIsSeq
  <2>4. QED
    BY <2>1, <2>3
<1> HIDE DEF told, Of
<1>6. /\ seqs \in Seq(Seq(Of)) /\ Len(seqs) = Len(Fields)
      /\ \A f \in Field : seqs[f] = told(f)
  <2>1. seqs \in [1..Len(Fields) -> Seq(Of)]
    BY <1>5, FieldsAreNumbered
  <2>2. \A f \in Field : seqs[f] = told(f)
    OBVIOUS
  <2> HIDE DEF seqs
  <2>3. QED
    BY <2>1, <2>2, FieldsAreNumbered, FunctionIsSeq
<1>7. EvidenceAt(P, b) = flat
  BY DEF EvidenceAt, Mine, mine, told
<1> HIDE DEF seqs
<1>8. Range(flat) = {P[i].of : i \in Survivors(P, b)}
  <2>1. Range(flat) = UNION {Range(seqs[f]) : f \in 1..Len(seqs)}
    BY <1>6, FlattenSeqRange
  <2>2. \A f \in Field : Range(seqs[f]) = {told(f)[k] : k \in 1..Len(told(f))}
    BY <1>5, <1>6, RangeIsSet
  <2>3. ASSUME NEW f \in Field
        PROVE  Range(seqs[f]) = {P[i].of : i \in Mine(f)}
    <3>1. \A k \in 1..Cardinality(Mine(f)) : mine(f)[k] \in Mine(f)
      BY <1>2
    <3>2. Range(seqs[f]) = {P[mine(f)[k]].of : k \in 1..Cardinality(Mine(f))}
      <4>1. Range(seqs[f]) = {told(f)[k] : k \in 1..Cardinality(Mine(f))}
        BY <1>5, <2>2
      <4>2. \A k \in 1..Cardinality(Mine(f)) : told(f)[k] = P[mine(f)[k]].of
        BY <1>5
      <4>3. QED
        BY <4>1, <4>2
    <3>3. \A i \in Mine(f) : \E k \in 1..Cardinality(Mine(f)) : mine(f)[k] = i
      BY <1>2
    <3>4. QED
      BY <3>1, <3>2, <3>3
  <2>4. ASSUME NEW i \in Survivors(P, b) PROVE P[i].of \in Range(flat)
    <3>1. PICK f \in Field : i \in Mine(f)
      BY <1>3
    <3>2. P[i].of \in Range(seqs[f])
      BY <2>3, <3>1
    <3>3. QED
      BY <1>6, <2>1, <3>2, FieldsAreNumbered
  <2>5. ASSUME NEW x \in Range(flat) PROVE \E i \in Survivors(P, b) : x = P[i].of
    <3>1. PICK f \in Field : x \in Range(seqs[f])
      BY <1>6, <2>1, FieldsAreNumbered
    <3>2. PICK i \in Mine(f) : x = P[i].of
      BY <2>3, <3>1
    <3>3. QED
      BY <1>4, <3>2
  <2>6. QED
    BY <2>4, <2>5
<1>9. ASSUME NEW i \in Survivors(P, b), Single(P, i)
      PROVE  \E q : Occurrences(flat, P[i].of) = {q}
  <2> DEFINE f == FieldAt(P, i)
  <2>1. f \in 1..Len(seqs) /\ i \in Mine(f)
    BY <1>3, <1>6, FieldsAreNumbered
  <2> HIDE DEF f
  <2>2. PICK l \in 1..Cardinality(Mine(f)) : mine(f)[l] = i
    BY <1>2, <2>1
  <2>3. flat \in Seq(Of)
    BY <1>6, FlattenSeqLays
  <2>4. PICK at \in [1..Len(seqs) -> Nat] : Laid(seqs, Len(seqs), at, flat)
    BY <1>6, FlattenSeqLays
  <2> HIDE DEF flat
  <2>5. \A g \in 1..Len(seqs) :
          /\ Len(seqs[g]) = Cardinality(Mine(g))
          /\ \A k \in 1..Len(seqs[g]) : seqs[g][k] = P[mine(g)[k]].of
    <3>1. ASSUME NEW g \in 1..Len(seqs) PROVE seqs[g] = told(g)
      BY <1>6, FieldsAreNumbered
    <3>2. ASSUME NEW g \in 1..Len(seqs)
          PROVE  /\ Len(seqs[g]) = Cardinality(Mine(g))
                 /\ \A k \in 1..Len(seqs[g]) : seqs[g][k] = P[mine(g)[k]].of
      <4>1. /\ Len(told(g)) = Cardinality(Mine(g))
            /\ \A k \in 1..Cardinality(Mine(g)) : told(g)[k] = P[mine(g)[k]].of
        BY <1>5
      <4> HIDE DEF seqs
      <4>2. QED
        BY <3>1, <4>1
    <3>3. QED
      BY <3>2
  <2>6. DOMAIN flat = 1..Len(flat)
    BY <2>3
  <2>7. at[f] + l \in DOMAIN flat /\ flat[at[f] + l] = P[i].of
    <3>1. l \in 1..Len(seqs[f]) /\ seqs[f][l] = P[mine(f)[l]].of
      BY <2>1, <2>5
    <3>2. at[f] + l \in 1..Len(flat) /\ flat[at[f] + l] = seqs[f][l]
      BY <2>1, <2>4, <3>1 DEF Laid
    <3>3. QED
      BY <2>2, <2>6, <3>1, <3>2
  <2>8. ASSUME NEW r \in DOMAIN flat, flat[r] = P[i].of
        PROVE  r = at[f] + l
    <3>1. PICK g \in 1..Len(seqs) : \E k \in 1..Len(seqs[g]) : r = at[g] + k
      BY <2>4, <2>6 DEF Laid
    <3>2. PICK k \in 1..Len(seqs[g]) : r = at[g] + k
      BY <3>1
    <3>3. P[mine(g)[k]].of = P[i].of
      BY <2>4, <2>5, <2>8, <3>2 DEF Laid
    <3>4. mine(g)[k] \in Mine(g) /\ mine(g)[k] \in 1..N
      <4>1. k \in 1..Cardinality(Mine(g))
        BY <2>5
      <4>2. mine(g)[k] \in Mine(g)
        BY <1>2, <4>1
      <4>3. QED
        BY <1>4, <4>2
    <3>5. mine(g)[k] = i
      BY <1>9, <3>3, <3>4 DEF Single
    <3>6. g = f
      BY <1>4, <3>4, <3>5 DEF f
    <3>7. k = l
      BY <1>2, <2>2, <2>5, <3>5, <3>6
    <3>8. QED
      BY <3>2, <3>6, <3>7
  <2>9. Occurrences(flat, P[i].of) = {at[f] + l}
    BY <2>7, <2>8 DEF Occurrences
  <2>10. QED
    BY <2>9
<1>10. QED
  BY <1>7, <1>8, <1>9

-----------------------------------------------------------------------------
(* Nothing vanishes in the resolver                                        *)

Places(r, v) == UNION {{m} \X Occurrences(r[m].evidence, v) : m \in DOMAIN r}

Reports(r, m, v) == \E x \in r[m].negatives : x.field = FieldOf[v.cand]

\* a value is evidence once, or some instance reports the refusal of its
\* field; own says that it is the instance with the given id
Accounted(r, v, own, id) ==
  \/ \E p : Places(r, v) = {p}
  \/ /\ Places(r, v) = {}
     /\ \E m \in DOMAIN r : Reports(r, m, v) /\ (own => r[m].key.id = id)

\* What does not survive is reported at its key: each clause of the
\* cardinality policy files its refusal where the value was filed.
LEMMA RefusedIsReported ==
  ASSUME NEW P, NEW i \in DOMAIN P, P[i].of.cand \in Cand, ~Survives(P, i)
  PROVE  \E x \in NegativesAt(P, P[i].bucket) : x.field = FieldOf[P[i].of.cand]
<1> DEFINE f == FieldAt(P, i)
           b == P[i].bucket
<1>1. f \in Field /\ f = FieldOf[P[i].of.cand]
  BY CandidatesAssumption DEF FieldAt
<1>2. \A code, hint : Refusal(code, f, hint).field = f
  BY DEF Refusal
<1>3. CASE ~P[i].settled
  <2>1. Refusal("ambiguous_grouping", f, P[i].of.hint) \in AmbiguityNegatives(P, b)
    BY <1>3 DEF AmbiguityNegatives
  <2>2. QED
    BY <1>1, <1>2, <2>1 DEF NegativesAt
<1>4. CASE P[i].settled
  <2>1. i \in Claims(P, f, b)
    BY <1>4 DEF Claims, Settled
  <2> DEFINE at == P[Min(Claims(P, f, b))].of.hint
  <2>2. CASE Spread(P, f)
    <3>1. Refusal("one_multiple_instances", f, at) \in CardinalityNegatives(P, b)
      BY <1>1, <2>1, <2>2 DEF CardinalityNegatives
    <3>2. QED
      BY <1>1, <1>2, <3>1 DEF NegativesAt
  <2>3. CASE Crowded(P, f, b)
    <3>1. Refusal("per_instance_multi_in_instance", f, at) \in CardinalityNegatives(P, b)
      BY <1>1, <2>3 DEF CardinalityNegatives
    <3>2. QED
      BY <1>1, <1>2, <3>1 DEF NegativesAt
  <2>4. QED
    BY <1>4, <2>2, <2>3 DEF Survives
<1>5. QED
  BY <1>3, <1>4

KeptKeys(P, n) ==
  {b \in 1..n : Survivors(P, b) # {} \/ NegativesAt(P, b) # {}}

\* the m-th instance, made of the key at b
InstanceFor(P, K, used, m, b) ==
  LET anchors == FinalAnchors(P, K[b], b)
      id == IF used THEN K[b].id ELSE GroupId("resolved", m - 1, anchors)
  IN [key       |-> Key(id, m - 1, anchors),
      outcome   |-> IF NegativesAt(P, b) = {} THEN "complete" ELSE "partial",
      evidence  |-> EvidenceAt(P, b),
      negatives |-> NegativesAt(P, b)]

\* one instance for each of the kept keys, and in their order
InstancesOf(P, K, used, kept, r) ==
  LET c == Cardinality(kept)
  IN /\ c \in Nat /\ DOMAIN r = 1..c
     /\ InOrder(kept) \in [1..c -> kept]
     /\ \A b \in kept : \E m \in 1..c : InOrder(kept)[m] = b
     /\ \A m, l \in 1..c : InOrder(kept)[m] = InOrder(kept)[l] => m = l
     /\ \A m \in 1..c : r[m] = InstanceFor(P, K, used, m, InOrder(kept)[m])

LEMMA ComposedIs ==
  ASSUME NEW n \in Nat, NEW P, NEW K, DOMAIN K = 1..n, NEW used
  PROVE  InstancesOf(P, K, used, KeptKeys(P, n), Composed(P, K, used))
<1> DEFINE kept == InOrder(KeptKeys(P, n))
           c == Cardinality(KeptKeys(P, n))
<1>1. KeptKeys(P, n) \in SUBSET (1..n) /\ KeptKeys(P, n) \in SUBSET Nat
  BY DEF KeptKeys
<1>2. IsFiniteSet(KeptKeys(P, n))
  BY <1>1, FS_Interval, FS_Subset
<1>3. /\ c \in Nat
      /\ kept \in [1..c -> KeptKeys(P, n)]
      /\ \A b \in KeptKeys(P, n) : \E m \in 1..c : kept[m] = b
      /\ \A m, l \in 1..c : kept[m] = kept[l] => m = l
  BY <1>1, <1>2, InOrderIs
<1>4. kept = Kept(P, K)
  BY DEF Kept, KeptKeys
<1> HIDE DEF kept, c
<1>5. DOMAIN kept = 1..c
  BY <1>3
<1>6. Composed(P, K, used) = [m \in DOMAIN kept |-> InstanceFor(P, K, used, m, kept[m])]
  BY <1>4 DEF Composed, InstanceFor
<1>7. QED
  BY <1>3, <1>5, <1>6 DEF kept, c, InstancesOf

LEMMA ComposedAccounts ==
  ASSUME NEW n \in Nat, NEW N \in Nat, NEW P, NEW K, NEW used,
         DOMAIN P = 1..N, DOMAIN K = 1..n,
         \A i \in 1..N : P[i].of.cand \in Cand /\ P[i].bucket \in 1..n,
         NEW i \in 1..N, Single(P, i)
  PROVE  Accounted(Composed(P, K, used), P[i].of, used, K[P[i].bucket].id)
<1> DEFINE r == Composed(P, K, used)
           kept == InOrder(KeptKeys(P, n))
           c == Cardinality(KeptKeys(P, n))
           v == P[i].of
           b == P[i].bucket
<1>0. InstancesOf(P, K, used, KeptKeys(P, n), r)
  BY ComposedIs
<1> HIDE DEF r
<1>1. /\ DOMAIN r = 1..c
      /\ kept \in [1..c -> KeptKeys(P, n)]
      /\ \A d \in KeptKeys(P, n) : \E m \in 1..c : kept[m] = d
      /\ \A m, l \in 1..c : kept[m] = kept[l] => m = l
  BY <1>0 DEF InstancesOf
<1>2. \A m \in 1..c : /\ r[m].evidence = EvidenceAt(P, kept[m])
                      /\ r[m].negatives = NegativesAt(P, kept[m])
                      /\ used => r[m].key.id = K[kept[m]].id
  <2> TAKE m \in 1..c
  <2>1. r[m] = InstanceFor(P, K, used, m, kept[m])
    BY <1>0 DEF InstancesOf
  <2> HIDE DEF kept
  <2>2. QED
    BY <2>1 DEF InstanceFor, Key
<1> HIDE DEF kept, c
<1>3. ASSUME NEW m \in 1..c, Occurrences(r[m].evidence, v) # {}
      PROVE  Survives(P, i) /\ kept[m] = b
  <2> DEFINE ev == EvidenceAt(P, kept[m])
  <2>1. v \in Range(ev)
    BY <1>2, <1>3 DEF Occurrences, Range
  <2>2. Range(ev) = {P[j].of : j \in Survivors(P, kept[m])}
    BY EvidenceIs
  <2>3. PICK j \in Survivors(P, kept[m]) : P[j].of = v
    BY <2>1, <2>2
  <2>4. j \in DOMAIN P /\ P[j].bucket = kept[m] /\ Survives(P, j)
    BY DEF Survivors
  <2>5. j = i
    BY <2>3, <2>4 DEF Single
  <2>6. QED
    BY <2>4, <2>5
<1>4. CASE Survives(P, i)
  <2>1. i \in Survivors(P, b) /\ b \in KeptKeys(P, n)
    BY <1>4 DEF Survivors, KeptKeys
  <2>2. PICK m \in 1..c : kept[m] = b
    BY <1>1, <2>1
  <2>3. PICK q : Occurrences(EvidenceAt(P, b), v) = {q}
    BY <2>1, EvidenceIs
  <2>4. Occurrences(r[m].evidence, v) = {q}
    BY <1>2, <2>2, <2>3
  <2>5. \A l \in 1..c : l # m => Occurrences(r[l].evidence, v) = {}
    BY <1>1, <1>3, <2>2
  <2>6. Places(r, v) = {<<m, q>>}
    <3>1. <<m, q>> \in Places(r, v)
      BY <1>1, <2>4 DEF Places
    <3>2. ASSUME NEW x \in Places(r, v) PROVE x = <<m, q>>
      <4>1. PICK l \in 1..c : x \in {l} \X Occurrences(r[l].evidence, v)
        BY <1>1 DEF Places
      <4>2. l = m
        BY <2>5, <4>1
      <4>3. QED
        BY <2>4, <4>1, <4>2
    <3>3. QED
      BY <3>1, <3>2
  <2>7. QED
    BY <2>6 DEF Accounted, r
<1>5. CASE ~Survives(P, i)
  <2>1. Places(r, v) = {}
    BY <1>1, <1>3, <1>5 DEF Places
  <2>2. PICK x \in NegativesAt(P, b) : x.field = FieldOf[v.cand]
    BY <1>5, RefusedIsReported
  <2>3. b \in KeptKeys(P, n)
    BY <2>2 DEF KeptKeys
  <2>4. PICK m \in 1..c : kept[m] = b
    BY <1>1, <2>3
  <2>5. Reports(r, m, v) /\ (used => r[m].key.id = K[b].id)
    BY <1>2, <2>2, <2>4 DEF Reports
  <2>6. QED
    BY <1>1, <2>1, <2>5 DEF Accounted, r
<1>6. QED
  BY <1>4, <1>5

WhollyMade(r) ==
  \A m \in DOMAIN r :
    r[m] = [key |-> r[m].key, outcome |-> r[m].outcome, evidence |-> r[m].evidence,
            negatives |-> r[m].negatives]

LEMMA ResolvedIsMade ==
  ASSUME NEW n \in Nat, NEW V, NEW K, NEW used \in BOOLEAN, used => DOMAIN K = 1..n, NEW sets
  PROVE  WhollyMade(Resolved(V, K, used, sets))
<1>1. CASE V = <<>>
  BY <1>1 DEF Resolved, WhollyMade
<1>2. CASE V # <<>>
  <2> DEFINE at == IF used THEN K ELSE DocumentKeys(V)
             P == PlacedAll(V, at, used, sets)
             r == Composed(P, at, used)
  <2>1. PICK k \in Nat : DOMAIN at = 1..k
    <3>1. DOMAIN DocumentKeys(V) = 1..1
      BY DEF DocumentKeys
    <3>2. QED
      BY <3>1
  <2> HIDE DEF at, P
  <2>2. InstancesOf(P, at, used, KeptKeys(P, k), r)
    BY <2>1, ComposedIs
  <2> HIDE DEF r
  <2>3. \A m \in DOMAIN r : \E b : r[m] = InstanceFor(P, at, used, m, b)
    BY <2>2 DEF InstancesOf
  <2>4. WhollyMade(r)
    BY <2>3 DEF InstanceFor, WhollyMade
  <2>5. QED
    BY <1>2, <2>4 DEF Resolved, at, P, r
<1>3. QED
  BY <1>1, <1>2

LEMMA ResolvedAccounts ==
  ASSUME NEW n \in Nat \ {0}, NEW N \in Nat, NEW V, DOMAIN V = 1..N,
         NEW K, NEW used \in BOOLEAN, used => DOMAIN K = 1..n, NEW sets,
         \A i \in 1..N : V[i].cand \in Cand,
         NEW i \in 1..N, \A j \in 1..N : V[j] = V[i] => j = i
  PROVE  Accounted(Resolved(V, K, used, sets), V[i], used,
                   K[Placed(K, used, sets, V[i]).bucket].id)
<1> DEFINE at == IF used THEN K ELSE DocumentKeys(V)
           P == PlacedAll(V, at, used, sets)
           r == Composed(P, at, used)
<1>1. PICK k \in Nat \ {0} : DOMAIN at = 1..k
  <2>1. DOMAIN DocumentKeys(V) = 1..1
    BY DEF DocumentKeys
  <2>2. CASE used
    <3>1. DOMAIN at = 1..n
      BY <2>2
    <3>2. QED
      BY <3>1
  <2>3. CASE ~used
    <3>1. DOMAIN at = 1..1 /\ 1 \in Nat \ {0}
      BY <2>1, <2>3
    <3>2. QED
      BY <3>1
  <2>4. QED
    BY <2>2, <2>3
<1>2. used => at = K
  OBVIOUS
<1> HIDE DEF at
<1>3. /\ DOMAIN P = 1..N
      /\ \A j \in 1..N : P[j] = Placed(at, used, sets, V[j])
  BY DEF PlacedAll
<1> HIDE DEF P
<1>4. \A j \in 1..N : P[j].of = V[j] /\ P[j].bucket \in 1..k
  BY <1>1, <1>3, FiledAtAKey
<1>5. Single(P, i)
  BY <1>3, <1>4 DEF Single
<1>6. Accounted(r, P[i].of, used, at[P[i].bucket].id)
  BY <1>1, <1>3, <1>4, <1>5, ComposedAccounts
<1>7. Resolved(V, K, used, sets) = r
  <2>1. V # <<>>
    <3>1. DOMAIN <<>> = 1..0
      OBVIOUS
    <3>2. QED
      BY <3>1
  <2>2. QED
    BY <2>1 DEF Resolved, at, P
<1> HIDE DEF r
<1>8. CASE used
  <2>1. at[P[i].bucket].id = K[Placed(K, used, sets, V[i]).bucket].id
    BY <1>2, <1>3, <1>8
  <2>2. QED
    BY <1>4, <1>6, <1>7, <2>1
<1>9. CASE ~used
  BY <1>4, <1>6, <1>7, <1>9 DEF Accounted
<1>10. QED
  BY <1>8, <1>9

\* layer 3 adds a negative and takes nothing
LEMMA JudgingAccounts ==
  ASSUME NEW r, WhollyMade(r), NEW by, NEW v, NEW own, NEW id, Accounted(r, v, own, id)
  PROVE  Accounted([m \in DOMAIN r |-> Judged(by, r[m])], v, own, id)
<1> DEFINE s == [m \in DOMAIN r |-> Judged(by, r[m])]
<1>1. DOMAIN s = DOMAIN r /\ \A m \in DOMAIN r : s[m] = Judged(by, r[m])
  OBVIOUS
<1> HIDE DEF s
<1>2. ASSUME NEW m \in DOMAIN r
      PROVE  /\ s[m].key = r[m].key
             /\ s[m].evidence = r[m].evidence
             /\ r[m].negatives \subseteq s[m].negatives
  <2> DEFINE failure == InstanceFailure(by, r[m])
             outcome == IF failure = {} THEN r[m].outcome ELSE "partial"
             negatives == r[m].negatives \cup failure
  <2>1. s[m] = [r[m] EXCEPT !.outcome = outcome, !.negatives = negatives]
    BY <1>1 DEF Judged
  <2>2. r[m] = [key |-> r[m].key, outcome |-> r[m].outcome, evidence |-> r[m].evidence,
                negatives |-> r[m].negatives]
    BY DEF WhollyMade
  <2>3. r[m].negatives \subseteq negatives
    OBVIOUS
  <2> HIDE DEF outcome, negatives
  <2>4. PICK q : q = [r[m] EXCEPT !.outcome = outcome]
    OBVIOUS
  <2>5. q = [key |-> r[m].key, outcome |-> outcome, evidence |-> r[m].evidence,
             negatives |-> r[m].negatives]
    BY <2>2, <2>4
  <2>6. s[m] = [q EXCEPT !.negatives = negatives]
    BY <2>1, <2>4
  <2>7. s[m] = [key |-> r[m].key, outcome |-> outcome, evidence |-> r[m].evidence,
                negatives |-> negatives]
    BY <2>5, <2>6
  <2>8. QED
    BY <2>3, <2>7
<1>3. Places(s, v) = Places(r, v)
  BY <1>1, <1>2 DEF Places
<1>4. \A m \in DOMAIN r : Reports(r, m, v) => Reports(s, m, v)
  BY <1>2 DEF Reports
<1>5. Accounted(s, v, own, id)
  BY <1>1, <1>2, <1>3, <1>4 DEF Accounted
<1>6. QED
  BY <1>5 DEF s

-----------------------------------------------------------------------------
(* No value twice. A value tells what it was selected from: its field and, *)
(* if that set was offered for an instance, the instance. No two sets to   *)
(* select from can yield the same, and none can yield what there is.       *)

\* what a proposal or a value may have been selected from
From(set, v) ==
  FieldOf[v.cand] = set.field /\ (set.hint = NoKey \/ v.hint = set.hint)

SameClaim(x, y) == x.cand = y.cand /\ x.hint = y.hint

MenusApart(sets) ==
  /\ IsSeq(sets)
  /\ \A i \in DOMAIN sets : \A c \in sets[i].ids : c \in Cand /\ FieldOf[c] = sets[i].field
  /\ \A i, j \in DOMAIN sets :
       i # j /\ sets[i].field = sets[j].field =>
         sets[i].hint # sets[j].hint /\ sets[i].hint # NoKey

NoneTwice(s) ==
  /\ IsSeq(s)
  /\ \A i \in DOMAIN s : s[i].cand \in Cand
  /\ \A i, j \in DOMAIN s : i # j => ~SameClaim(s[i], s[j])

ClaimsApart ==
  /\ MenusApart(todo)
  /\ NoneTwice(proposed) /\ NoneTwice(values)
  /\ \A i \in DOMAIN todo, j \in DOMAIN proposed : ~From(todo[i], proposed[j])
  /\ \A i \in DOMAIN todo, j \in DOMAIN values : ~From(todo[i], values[j])
  /\ \A i \in DOMAIN values, j \in DOMAIN proposed : ~SameClaim(values[i], proposed[j])

NumberedKeys == \E n \in Nat \ {0} : DOMAIN keys = 1..n

\* what the instances are, once there are any
StageInv ==
  /\ stage = "plan" => todo = <<>> /\ proposed = <<>> /\ values = <<>>
  /\ stage \notin {"plan", "raised"} =>
       mode = "whole" \/ (mode \in {"proposed", "structural"} /\ NumberedKeys)
  /\ stage = "judge" => instances = Resolved(values, keys, mode # "whole", offered)
  /\ stage = "done" =>
       LET r == Resolved(values, keys, mode # "whole", offered)
       IN instances = [m \in DOMAIN r |-> Judged(backed, r[m])]

ValueInv == ClaimsApart /\ StageInv

LEMMA InitValues == Init => ValueInv
<1>1. <<>> \in Seq({}) /\ DOMAIN <<>> = {}
  BY EmptySeq
<1>2. QED
  BY <1>1 DEF Init, ValueInv, ClaimsApart, StageInv, MenusApart, NoneTwice, IsSeq

LEMMA EmptyClaims == NoneTwice(<<>>)
<1>1. <<>> \in Seq({}) /\ DOMAIN <<>> = {}
  BY EmptySeq
<1>2. QED
  BY <1>1 DEF NoneTwice, IsSeq

\* menus that were just planned
LEMMA FreshMenus ==
  ASSUME MenusApart(todo)', proposed' = <<>>, values' = <<>>
  PROVE  ClaimsApart'
<1>1. DOMAIN <<>> = {}
  BY EmptySeq
<1>2. QED
  BY <1>1, EmptyClaims DEF ClaimsApart

LEMMA WholeIsApart ==
  ASSUME ValueInv, ReadWhole
  PROVE  ValueInv'
<1>1. stage = "plan" /\ todo = <<>> /\ proposed = <<>> /\ values = <<>>
  BY DEF ReadWhole, ValueInv, StageInv
<1>2. /\ todo' = BaseSets /\ proposed' = <<>> /\ values' = <<>>
      /\ mode' = "whole" /\ stage' = "select"
  BY <1>1 DEF ReadWhole
<1>3. /\ DOMAIN BaseSets = Field
      /\ \A f \in Field : /\ BaseSets[f].field = f
                          /\ BaseSets[f].ids = {c \in Cand : FieldOf[c] = f}
  BY DEF BaseSets, BaseSet, CandidateSet
<1>4. MenusApart(BaseSets)
  BY <1>3, BaseSetsAreMenus DEF MenusApart, IsSeq
<1>5. ClaimsApart'
  BY <1>2, <1>4, FreshMenus DEF MenusApart
<1>6. StageInv'
  BY <1>2 DEF StageInv
<1>7. QED
  BY <1>5, <1>6 DEF ValueInv

LEMMA StoppedIsApart ==
  ASSUME ValueInv, Stop
  PROVE  ValueInv'
BY DEF Stop, ValueInv, ClaimsApart, MenusApart, NoneTwice, StageInv

LEMMA SameQuotientAndRest ==
  ASSUME NEW n \in Nat \ {0}, NEW u \in Nat, NEW w \in Nat,
         u \div n = w \div n, u % n = w % n
  PROVE  u = w
<1>1. u = n * (u \div n) + (u % n) /\ w = n * (w \div n) + (w % n)
  OBVIOUS
<1>2. QED
  BY <1>1

\* the menus of a plan: every field for every key
LEMMA PlannedMenusAreApart ==
  ASSUME NEW n \in Nat \ {0}, NEW plan, DOMAIN plan = 1..n, Len(plan) = n,
         \A i, j \in 1..n : plan[i] = plan[j] => i = j,
         \A i \in 1..n : plan[i] # NoKey /\ Proposed(plan[i].id).ids \subseteq Cand
  PROVE  MenusApart(SetsForInstances(plan))
<1> DEFINE size == Len(Fields) * n
           f(u) == ((u - 1) \div n) + 1
           i(u) == ((u - 1) % n) + 1
           menus == SetsForInstances(plan)
<1>1. size \in Nat
  BY FieldsAreNumbered
<1> HIDE DEF size
<1>2. /\ DOMAIN menus = 1..size
      /\ \A u \in 1..size : menus[u] = SetForInstance(BaseSet(f(u)), plan[i(u)])
  BY DEF SetsForInstances, size
<1> HIDE DEF menus
<1>3. \A u \in 1..size : f(u) \in Int /\ i(u) \in 1..n
  BY <1>1
<1>4. ASSUME NEW u \in 1..size, NEW w \in 1..size, f(u) = f(w), i(u) = i(w)
      PROVE  u = w
  <2>1. u - 1 \in Nat /\ w - 1 \in Nat
    BY <1>1
  <2>2. (u - 1) \div n \in Int /\ (w - 1) \div n \in Int /\ (u - 1) % n \in Int /\ (w - 1) % n \in Int
    BY <2>1
  <2>3. (u - 1) \div n = (w - 1) \div n /\ (u - 1) % n = (w - 1) % n
    BY <1>4, <2>2
  <2>4. u - 1 = w - 1
    BY <2>1, <2>3, SameQuotientAndRest
  <2>5. QED
    BY <1>1, <2>4
<1> HIDE DEF f, i
<1>5. \A u \in 1..size : /\ menus[u].field = f(u)
                         /\ menus[u].hint = plan[i(u)]
                         /\ menus[u].ids \subseteq {c \in Cand : FieldOf[c] = f(u)}
  BY <1>2, SetForLine
<1>6. IsSeq(menus)
  <2>1. menus = [u \in 1..size |-> menus[u]]
    <3>1. menus = [u \in 1..size |-> SetForInstance(BaseSet(f(u)), plan[i(u)])]
      BY DEF menus, SetsForInstances, size, f, i
    <3>2. QED
      BY <3>1
  <2>2. menus \in [1..size -> {menus[u] : u \in 1..size}]
    BY <2>1
  <2>3. menus \in Seq({menus[u] : u \in 1..size})
    BY <1>1, <2>2, FunctionIsSeq
  <2>4. QED
    BY <2>3 DEF IsSeq
<1>7. \A u, w \in 1..size :
        u # w /\ f(u) = f(w) => plan[i(u)] # plan[i(w)] /\ plan[i(u)] # NoKey
  BY <1>3, <1>4
<1>8. MenusApart(menus)
  BY <1>2, <1>5, <1>6, <1>7 DEF MenusApart
<1>9. QED
  BY <1>8 DEF menus

LEMMA ProposalIsApart ==
  ASSUME ValueInv, Propose
  PROVE  ValueInv'
<1>1. stage = "plan" /\ todo = <<>> /\ proposed = <<>> /\ values = <<>>
  BY DEF Propose, ValueInv, StageInv
<1>2. PICK answer \in Ids({x.id : x \in InstanceCandidates} \cup {NoId}) :
        IF ProposerConflict(answer) THEN Stop
        ELSE LET plan == KeysFromResponse(answer)
             IN /\ mode' = "proposed" /\ stage' = "select"
                /\ keys' = plan
                /\ offered' = BaseSets
                /\ todo' = SetsForInstances(plan)
                /\ UNCHANGED <<backed, proposed, values, instances>>
  BY DEF Propose
<1>3. CASE ProposerConflict(answer)
  BY <1>2, <1>3, StoppedIsApart
<1>4. CASE ~ProposerConflict(answer)
  <2> DEFINE plan == KeysFromResponse(answer)
             n == Len(answer)
  <2>1. /\ mode' = "proposed" /\ stage' = "select" /\ keys' = plan
        /\ todo' = SetsForInstances(plan) /\ proposed' = <<>> /\ values' = <<>>
    BY <1>1, <1>2, <1>4
  <2>2. /\ n \in Nat \ {0}
        /\ DOMAIN answer = 1..n
        /\ \A i \in 1..n : /\ Proposed(answer[i]) \in InstanceCandidates
                          /\ Proposed(answer[i]).id = answer[i]
        /\ \A i, j \in 1..n : answer[i] = answer[j] => i = j
    BY <1>4, PickedLinesArePlanned
  <2>3. plan = [i \in 1..n |-> Key(answer[i], i - 1, Proposed(answer[i]).anchors)]
    BY <2>2 DEF KeysFromResponse
  <2>4. DOMAIN plan = 1..n /\ Len(plan) = n
    BY <2>2, <2>3
  <2>5. \A i \in 1..n : plan[i].id = answer[i]
    BY <2>3 DEF Key
  <2> HIDE DEF plan, n
  <2>6. \A i \in 1..n : answer[i] # NoId /\ Proposed(answer[i]).ids \subseteq Cand
    BY <2>2, LinesHoldTheirAnchors
  <2>7. \A i \in 1..n : plan[i] # NoKey /\ Proposed(plan[i].id).ids \subseteq Cand
    BY <2>5, <2>6 DEF NoKey, Key
  <2>8. \A i, j \in 1..n : plan[i] = plan[j] => i = j
    BY <2>2, <2>5
  <2>9. MenusApart(SetsForInstances(plan))
    BY <2>2, <2>4, <2>7, <2>8, PlannedMenusAreApart
  <2>10. ClaimsApart'
    BY <2>1, <2>9, FreshMenus DEF MenusApart
  <2>11. StageInv'
    BY <2>1, <2>2, <2>4 DEF StageInv, NumberedKeys
  <2>12. QED
    BY <2>10, <2>11 DEF ValueInv
<1>5. QED
  BY <1>3, <1>4

\* the menus a caller offers: a field once, or for every key
LEMMA OfferedMenusAreApart ==
  ASSUME NEW n \in Nat, NEW plan, DOMAIN plan = 1..n,
         \A i, j \in 1..n : plan[i] = plan[j] => i = j,
         \A i \in 1..n : plan[i] # NoKey,
         NEW scopes
  PROVE  MenusApart(SetsAsOffered(plan, scopes))
<1> DEFINE for(f) == [i \in DOMAIN plan |-> [BaseSet(f) EXCEPT !.hint = plan[i]]]
           own(f) == IF scopes[f] = "document" THEN <<BaseSet(f)>> ELSE for(f)
           seqs == [f \in Field |-> own(f)]
           flat == FlattenSeq(seqs)
           ids(f) == {c \in Cand : FieldOf[c] = f}
           T == [field : Field, hint : {NoKey} \cup {plan[i] : i \in 1..n}, ids : SUBSET Cand]
<1>1. \A f \in Field : BaseSet(f) = [field |-> f, hint |-> NoKey, ids |-> ids(f)]
  BY DEF BaseSet, CandidateSet
<1>2. ASSUME NEW f \in Field
      PROVE  for(f) = [i \in 1..n |-> [field |-> f, hint |-> plan[i], ids |-> ids(f)]]
  <2> HIDE DEF ids
  <2>1. \A i \in 1..n : [BaseSet(f) EXCEPT !.hint = plan[i]]
                           = [field |-> f, hint |-> plan[i], ids |-> ids(f)]
    BY <1>1
  <2>2. QED
    BY <2>1
<1>3. ASSUME NEW f \in Field
      PROVE  /\ own(f) \in Seq(T)
             /\ \A l \in 1..Len(own(f)) : own(f)[l].field = f /\ own(f)[l].ids = ids(f)
             /\ \A l, k \in 1..Len(own(f)) :
                  l # k => own(f)[l].hint # own(f)[k].hint /\ own(f)[l].hint # NoKey
  <2>1. CASE scopes[f] = "document"
    <3>1. own(f) = <<BaseSet(f)>> /\ BaseSet(f) \in T
      BY <1>1, <2>1
    <3> HIDE DEF own, T
    <3>2. own(f) \in Seq(T) /\ Len(own(f)) = 1 /\ own(f)[1] = BaseSet(f)
      BY <3>1
    <3>3. \A l \in 1..Len(own(f)) : l = 1
      BY <3>2
    <3>4. QED
      BY <1>1, <3>2, <3>3
  <2>2. CASE scopes[f] # "document"
    <3>1. own(f) = for(f)
      BY <2>2
    <3> HIDE DEF own
    <3>0. ids(f) \in SUBSET Cand
      OBVIOUS
    <3> HIDE DEF for, ids
    <3>a. \A l \in 1..n : [field |-> f, hint |-> plan[l], ids |-> ids(f)] \in T
      BY <3>0
    <3>2. own(f) \in [1..n -> T]
      <4> HIDE DEF T
      <4>1. QED
        BY <1>2, <3>1, <3>a
    <3>3. \A l \in 1..n : own(f)[l] = [field |-> f, hint |-> plan[l], ids |-> ids(f)]
      BY <1>2, <3>1
    <3> HIDE DEF T
    <3>4. own(f) \in Seq(T) /\ Len(own(f)) = n
      BY <3>2, FunctionIsSeq
    <3>5. QED
      BY <3>3, <3>4
  <2>3. QED
    BY <2>1, <2>2
<1> HIDE DEF T, own, ids
<1>4. /\ seqs \in Seq(Seq(T)) /\ Len(seqs) = Len(Fields)
      /\ \A f \in Field : seqs[f] = own(f)
  <2>1. seqs \in [1..Len(Fields) -> Seq(T)]
    BY <1>3, FieldsAreNumbered
  <2>2. \A f \in Field : seqs[f] = own(f)
    OBVIOUS
  <2> HIDE DEF seqs
  <2>3. QED
    BY <2>1, <2>2, FieldsAreNumbered, FunctionIsSeq
<1>5. SetsAsOffered(plan, scopes) = flat
  BY DEF SetsAsOffered, own
<1> HIDE DEF seqs
<1>6. flat \in Seq(T)
  BY <1>4, FlattenSeqLays
<1>7. PICK at \in [1..Len(seqs) -> Nat] : Laid(seqs, Len(seqs), at, flat)
  BY <1>4, FlattenSeqLays
<1> HIDE DEF flat
<1>8. ASSUME NEW k \in DOMAIN flat
      PROVE  \E f \in Field : \E l \in 1..Len(own(f)) : k = at[f] + l /\ flat[k] = own(f)[l]
  <2>1. k \in 1..Len(flat)
    BY <1>6
  <2>2. PICK f \in 1..Len(seqs) : \E l \in 1..Len(seqs[f]) : k = at[f] + l
    BY <1>7, <2>1 DEF Laid
  <2>3. PICK l \in 1..Len(seqs[f]) : k = at[f] + l
    BY <2>2
  <2>4. flat[k] = seqs[f][l]
    BY <1>7, <2>3 DEF Laid
  <2>5. f \in Field /\ seqs[f] = own(f)
    BY <1>4, FieldsAreNumbered
  <2>6. QED
    BY <2>3, <2>4, <2>5
<1>9. \A k \in DOMAIN flat : \A c \in flat[k].ids : c \in Cand /\ FieldOf[c] = flat[k].field
  <2>1. ASSUME NEW k \in DOMAIN flat
        PROVE  \A c \in flat[k].ids : c \in Cand /\ FieldOf[c] = flat[k].field
    <3>1. PICK f \in Field : \E l \in 1..Len(own(f)) : flat[k] = own(f)[l]
      BY <1>8
    <3>2. flat[k].field = f /\ flat[k].ids = ids(f)
      BY <1>3, <3>1
    <3>3. QED
      BY <3>2 DEF ids
  <2>2. QED
    BY <2>1
<1>10. ASSUME NEW j \in DOMAIN flat, NEW k \in DOMAIN flat, j # k, flat[j].field = flat[k].field
       PROVE  flat[j].hint # flat[k].hint /\ flat[j].hint # NoKey
  <2>1. PICK f \in Field : \E l \in 1..Len(own(f)) : j = at[f] + l /\ flat[j] = own(f)[l]
    BY <1>8
  <2>2. PICK l \in 1..Len(own(f)) : j = at[f] + l /\ flat[j] = own(f)[l]
    BY <2>1
  <2>3. PICK g \in Field : \E m \in 1..Len(own(g)) : k = at[g] + m /\ flat[k] = own(g)[m]
    BY <1>8
  <2>4. PICK m \in 1..Len(own(g)) : k = at[g] + m /\ flat[k] = own(g)[m]
    BY <2>3
  <2>5. f = g
    BY <1>3, <1>10, <2>2, <2>4
  <2>6. l # m
    BY <1>10, <2>2, <2>4, <2>5
  <2>7. QED
    BY <1>3, <2>2, <2>4, <2>5, <2>6
<1>11. MenusApart(flat)
  BY <1>6, <1>9, <1>10 DEF MenusApart, IsSeq
<1>12. QED
  BY <1>5, <1>11

LEMMA ObservedIdsAreSequences ==
  ASSUME NEW set, NEW id, NEW o \in Observations(set, id)
  PROVE  o.ids \in Seq(set.ids)
<1>1. CASE o \in {Observation("SELECTED", ids, id) : ids \in Ids(set.ids)}
  <2>1. PICK k \in 0..MaxIds : o.ids \in [1..k -> set.ids]
    BY <1>1 DEF Observation, Ids
  <2>2. k \in Nat
    BY MaxIdsAssumption
  <2>3. QED
    BY <2>1, <2>2, FunctionIsSeq
<1>2. CASE o = Observation("ABSTAINED", <<>>, id)
  BY <1>2, EmptySeq DEF Observation
<1>3. CASE \E c \in set.ids : o = Observation("AMBIGUOUS", <<c>>, id)
  <2>1. PICK c \in set.ids : o.ids = <<c>>
    BY <1>3 DEF Observation
  <2>2. PICK S : S = set.ids
    OBVIOUS
  <2>3. c \in S
    BY <2>2
  <2>4. <<c>> \in [1..1 -> S] /\ 1 \in Nat
    BY <2>3
  <2>5. <<c>> \in Seq(S)
    BY <2>4, FunctionIsSeq
  <2>6. QED
    BY <2>1, <2>2, <2>5
<1>4. QED
  BY <1>1, <1>2, <1>3 DEF Observations

\* A structural plan that is not refused has numbered keys, none of them NoKey.
LEMMA StructuralKeysAreNumbered ==
  ASSUME NEW observed \in [DOMAIN BoundaryFields ->
                             UNION {Observations(BaseSet(f), NoId) : f \in Field}],
         ~StructuralPlanRefused(PlannedAnchors(AdvisoryAnchors(observed)))
  PROVE  LET plan == StructuralKeys(PlannedAnchors(AdvisoryAnchors(observed)))
         IN /\ \E n \in Nat \ {0} : DOMAIN plan = 1..n
            /\ \A i, j \in DOMAIN plan : plan[i] = plan[j] => i = j
            /\ \A i \in DOMAIN plan : plan[i] # NoKey
<1> DEFINE T == {SpanOf[c] : c \in Cand}
           boundary == {f \in Field : Fields[f].role = "boundary_defining"}
           own(i) == IF observed[i].outcome \in {"SELECTED", "AMBIGUOUS"}
                     THEN [j \in DOMAIN observed[i].ids |-> SpanOf[observed[i].ids[j]]]
                     ELSE <<>>
           seqs == [i \in DOMAIN observed |-> own(i)]
           advisory == AdvisoryAnchors(observed)
           anchors == PlannedAnchors(advisory)
           plan == StructuralKeys(anchors)
<1>1. PICK m \in Nat : DOMAIN observed = 1..m
  <2>1. boundary \in SUBSET (1..Len(Fields)) /\ IsFiniteSet(1..Len(Fields))
    BY FieldsAreNumbered, FS_Interval
  <2>2. Cardinality(boundary) \in Nat
    <3> HIDE DEF boundary
    <3>1. QED
      BY <2>1, FS_Subset, FS_CardinalityType
  <2>3. DOMAIN observed = 1..Cardinality(boundary)
    BY DEF BoundaryFields
  <2>4. QED
    BY <2>2, <2>3
<1>2. \A i \in 1..m : own(i) \in Seq(T)
  <2> SUFFICES ASSUME NEW i \in 1..m PROVE own(i) \in Seq(T)
    OBVIOUS
  <2>1. PICK f \in Field : observed[i] \in Observations(BaseSet(f), NoId)
    BY <1>1
  <2>2. BaseSet(f).ids \subseteq Cand
    BY DEF BaseSet, CandidateSet
  <2>3. PICK ids : ids = observed[i].ids
    OBVIOUS
  <2>4. ids \in Seq(BaseSet(f).ids)
    BY <2>1, <2>3, ObservedIdsAreSequences
  <2>5. Len(ids) \in Nat /\ DOMAIN ids = 1..Len(ids) /\ \A j \in 1..Len(ids) : ids[j] \in Cand
    BY <2>2, <2>4, LenProperties, ElementOfSeq
  <2>6. [j \in DOMAIN ids |-> SpanOf[ids[j]]] \in [1..Len(ids) -> T]
    BY <2>5
  <2> HIDE DEF T
  <2>7. [j \in DOMAIN ids |-> SpanOf[ids[j]]] \in Seq(T)
    BY <2>5, <2>6, FunctionIsSeq
  <2>8. <<>> \in Seq(T)
    BY EmptySeq
  <2>9. QED
    BY <2>3, <2>7, <2>8
<1> HIDE DEF T, own
<1>3. advisory \in Seq(T)
  <2>1. seqs \in [1..m -> Seq(T)]
    BY <1>1, <1>2
  <2>2. advisory = FlattenSeq(seqs)
    BY DEF AdvisoryAnchors, own
  <2> HIDE DEF seqs, advisory
  <2>3. seqs \in Seq(Seq(T))
    BY <2>1, FunctionIsSeq
  <2>4. QED
    BY <2>2, <2>3, FlattenSeqLays
<1> HIDE DEF advisory
<1>4. PICK n \in Nat \ {0} : DOMAIN anchors = 1..n
  <2>1. Len(anchors) \in 1..MaxInstances
    BY DEF StructuralPlanRefused, advisory
  <2>2. \E k \in Nat : DOMAIN Deduplicated(advisory) = 1..k /\ Deduplicated(advisory) \in Seq(T)
    <3> DEFINE first == {i \in DOMAIN advisory :
                           \A j \in DOMAIN advisory : advisory[j] = advisory[i] => i <= j}
               k == Cardinality(first)
    <3>1. first \in SUBSET (1..Len(advisory)) /\ first \in SUBSET Nat
      BY <1>3
    <3>2. Len(advisory) \in Nat
      BY <1>3
    <3>3. IsFiniteSet(1..Len(advisory))
      BY <3>2, FS_Interval
    <3>4. Deduplicated(advisory) = [l \in DOMAIN InOrder(first) |-> advisory[InOrder(first)[l]]]
      BY DEF Deduplicated
    <3> HIDE DEF first
    <3>5. k \in Nat /\ InOrder(first) \in [1..k -> first]
      BY <3>1, <3>3, FS_Subset, InOrderIs
    <3> HIDE DEF k
    <3>6. \A i \in first : advisory[i] \in T
      BY <1>3, <3>1
    <3>7. Deduplicated(advisory) \in [1..k -> T]
      BY <3>4, <3>5, <3>6
    <3>8. QED
      BY <3>5, <3>7, FunctionIsSeq
  <2>3. anchors = <<>> \/ (\E x : anchors = <<x>>) \/ anchors = Deduplicated(advisory)
    BY DEF PlannedAnchors
  <2> HIDE DEF anchors
  <2>4. \E S : anchors \in Seq(S)
    <3>1. <<>> \in Seq({}) /\ \A x : <<x>> \in Seq({x})
      OBVIOUS
    <3>2. QED
      BY <2>2, <2>3, <3>1
  <2>5. Len(anchors) \in Nat /\ DOMAIN anchors = 1..Len(anchors)
    BY <2>4, LenProperties
  <2>6. Len(anchors) # 0
    BY <2>1, MaxInstancesAssumption
  <2>7. QED
    BY <2>5, <2>6
<1> HIDE DEF anchors
<1>5. /\ DOMAIN plan = 1..n
      /\ \A i \in 1..n : plan[i].ordinal = i - 1 /\ plan[i].id.tag = "structural"
  BY <1>4 DEF StructuralKeys, Key, GroupId
<1> HIDE DEF plan
<1>6. NoKey.id.tag = "none"
  BY DEF NoKey, Key, NoId, GroupId
<1>7. \A i \in 1..n : plan[i] # NoKey
  BY <1>5, <1>6
<1>8. \A i, j \in 1..n : plan[i] = plan[j] => i = j
  BY <1>5
<1>9. QED
  BY <1>5, <1>7, <1>8 DEF plan, anchors, advisory

LEMMA StructureIsApart ==
  ASSUME ValueInv, PlanStructurally
  PROVE  ValueInv'
<1>1. stage = "plan" /\ todo = <<>> /\ proposed = <<>> /\ values = <<>>
  BY DEF PlanStructurally, ValueInv, StageInv
<1>2. PICK observed \in [DOMAIN BoundaryFields ->
                           UNION {Observations(BaseSet(f), NoId) : f \in Field}] :
        LET anchors == PlannedAnchors(AdvisoryAnchors(observed))
            plan    == StructuralKeys(anchors)
        IN IF StructuralPlanRefused(anchors) THEN Stop
           ELSE \E scopes \in [Field -> {"document", "instances"}] :
                  /\ mode' = "structural" /\ stage' = "select"
                  /\ keys' = plan
                  /\ todo' = SetsAsOffered(plan, scopes)
                  /\ offered' = todo'
                  /\ UNCHANGED <<backed, proposed, values, instances>>
  BY DEF PlanStructurally
<1> DEFINE anchors == PlannedAnchors(AdvisoryAnchors(observed))
           plan == StructuralKeys(anchors)
<1>3. CASE StructuralPlanRefused(anchors)
  BY <1>2, <1>3, StoppedIsApart
<1>4. CASE ~StructuralPlanRefused(anchors)
  <2>1. /\ \E n \in Nat \ {0} : DOMAIN plan = 1..n
        /\ \A i, j \in DOMAIN plan : plan[i] = plan[j] => i = j
        /\ \A i \in DOMAIN plan : plan[i] # NoKey
    BY <1>4, StructuralKeysAreNumbered
  <2>2. PICK scopes \in [Field -> {"document", "instances"}] :
          /\ mode' = "structural" /\ stage' = "select"
          /\ keys' = plan
          /\ todo' = SetsAsOffered(plan, scopes)
          /\ proposed' = proposed /\ values' = values
    BY <1>2, <1>4
  <2> HIDE DEF plan
  <2>3. PICK n \in Nat \ {0} : DOMAIN plan = 1..n
    BY <2>1
  <2>4. MenusApart(SetsAsOffered(plan, scopes))
    BY <2>1, <2>3, OfferedMenusAreApart
  <2>5. ClaimsApart'
    BY <1>1, <2>2, <2>4, FreshMenus DEF MenusApart
  <2>6. StageInv'
    BY <2>2, <2>3 DEF StageInv, NumberedKeys
  <2>7. QED
    BY <2>5, <2>6 DEF ValueInv
<1>5. QED
  BY <1>3, <1>4

LEMMA TailOfMenus ==
  ASSUME NEW sets, IsSeq(sets), sets # <<>>
  PROVE  /\ IsSeq(Tail(sets)) /\ 1 \in DOMAIN sets /\ Head(sets) = sets[1]
         /\ \A i \in DOMAIN Tail(sets) : /\ i \in Int /\ i + 1 \in DOMAIN sets /\ i + 1 # 1
                                         /\ Tail(sets)[i] = sets[i + 1]
<1>1. PICK S : sets \in Seq(S)
  BY DEF IsSeq
<1>2. /\ Tail(sets) \in Seq(S) /\ 1 \in DOMAIN sets /\ Head(sets) = sets[1]
      /\ \A i \in DOMAIN Tail(sets) : /\ i \in Int /\ i + 1 \in DOMAIN sets /\ i + 1 # 1
                                      /\ Tail(sets)[i] = sets[i + 1]
  BY <1>1, EmptySeq, LenProperties, HeadTailProperties
<1>3. QED
  BY <1>2 DEF IsSeq

\* A selected candidate claims the field and the instance of its menu.
LEMMA ProposalIsFrom ==
  ASSUME NEW set, NEW id \in ObservedIds(set), NEW o \in Observations(set, id),
         ~SelectionBroken(o, set), NEW c \in set.ids, FieldOf[c] = set.field
  PROVE  From(set, Proposal(o, set, c))
<1>1. o.id = id
  BY AnswersAreSequences
<1>2. set.hint # NoKey => o.id \in {set.hint.id, NoId}
  BY <1>1 DEF ObservedIds
<1>3. set.hint # NoKey => TentativeKey(o, set, c) = set.hint
  BY <1>2 DEF TentativeKey
<1>4. QED
  BY <1>3 DEF From, Proposal

LEMMA SelectionIsApart ==
  ASSUME ValueInv, Select
  PROVE  ValueInv'
<1> DEFINE set == Head(todo)
           Answered(o) ==
             IF SelectionBroken(o, set) THEN Stop
             ELSE /\ todo' = Tail(todo)
                  /\ proposed' = IF SelectionRefused(o, set) # "" THEN <<>>
                                 ELSE [i \in DOMAIN o.ids |-> Proposal(o, set, o.ids[i])]
                  /\ UNCHANGED <<stage, backed, mode, keys, offered, values, instances>>
<1>1. PICK id \in ObservedIds(set) : \E o \in Observations(set, id) : Answered(o)
  BY DEF Select
<1>2. PICK o \in Observations(set, id) : Answered(o)
  BY <1>1
<1>3. CASE SelectionBroken(o, set)
  BY <1>2, <1>3, StoppedIsApart
<1>4. CASE ~SelectionBroken(o, set)
  <2>1. /\ todo' = Tail(todo)
        /\ \/ proposed' = <<>>
           \/ proposed' = [i \in DOMAIN o.ids |-> Proposal(o, set, o.ids[i])]
        /\ UNCHANGED <<stage, backed, mode, keys, offered, values, instances>>
    BY <1>2, <1>4
  <2>2. stage = "select" /\ todo # <<>>
    BY DEF Select
  <2>3. MenusApart(todo) /\ NoneTwice(values)
    BY DEF ValueInv, ClaimsApart
  <2>4. /\ IsSeq(Tail(todo)) /\ 1 \in DOMAIN todo /\ set = todo[1]
        /\ \A i \in DOMAIN Tail(todo) : /\ i \in Int /\ i + 1 \in DOMAIN todo /\ i + 1 # 1
                                        /\ Tail(todo)[i] = todo[i + 1]
    BY <2>2, <2>3, TailOfMenus DEF MenusApart
  <2>5. MenusApart(Tail(todo))
    <3>1. \A i \in DOMAIN Tail(todo) : \A c \in Tail(todo)[i].ids :
            c \in Cand /\ FieldOf[c] = Tail(todo)[i].field
      BY <2>3, <2>4 DEF MenusApart
    <3>2. ASSUME NEW i \in DOMAIN Tail(todo), NEW j \in DOMAIN Tail(todo),
                 i # j, Tail(todo)[i].field = Tail(todo)[j].field
          PROVE  Tail(todo)[i].hint # Tail(todo)[j].hint /\ Tail(todo)[i].hint # NoKey
      <4>1. i + 1 # j + 1
        BY <2>4, <3>2
      <4>2. QED
        BY <2>3, <2>4, <3>2, <4>1 DEF MenusApart
    <3>3. QED
      BY <2>4, <3>1, <3>2 DEF MenusApart
  <2>6. /\ o.ids \in Seq(set.ids) /\ DOMAIN o.ids = 1..Len(o.ids) /\ Len(o.ids) \in Nat
        /\ \A i \in DOMAIN o.ids : o.ids[i] \in set.ids
    <3>1. o.ids \in Seq(set.ids)
      BY ObservedIdsAreSequences
    <3>2. QED
      BY <3>1, LenProperties, ElementOfSeq
  <2>7. \A c \in set.ids : c \in Cand /\ FieldOf[c] = set.field
    BY <2>3, <2>4 DEF MenusApart
  <2>8. ASSUME NEW i \in DOMAIN proposed'
        PROVE  /\ i \in DOMAIN o.ids
               /\ proposed'[i].cand = o.ids[i]
               /\ o.ids[i] \in Cand
               /\ From(set, proposed'[i])
    <3>1. DOMAIN <<>> = {}
      OBVIOUS
    <3>2. i \in DOMAIN o.ids /\ proposed'[i] = Proposal(o, set, o.ids[i])
      BY <2>1, <3>1
    <3>3. o.ids[i] \in set.ids /\ o.ids[i] \in Cand /\ FieldOf[o.ids[i]] = set.field
      BY <2>6, <2>7, <3>2
    <3>4. From(set, Proposal(o, set, o.ids[i]))
      BY <1>4, <3>3, ProposalIsFrom
    <3>5. Proposal(o, set, o.ids[i]).cand = o.ids[i]
      BY DEF Proposal
    <3>6. QED
      BY <3>2, <3>3, <3>4, <3>5
  <2>9. NoneTwice(proposed')
    <3>1. IsSeq(proposed')
      <4>1. <<>> \in Seq({})
        OBVIOUS
      <4> DEFINE made == [i \in DOMAIN o.ids |-> Proposal(o, set, o.ids[i])]
      <4>2. PICK T : T = {Proposal(o, set, o.ids[i]) : i \in DOMAIN o.ids}
        OBVIOUS
      <4>3. made \in [1..Len(o.ids) -> T]
        BY <2>6, <4>2
      <4>4. proposed' = <<>> \/ proposed' = made
        BY <2>1
      <4> HIDE DEF made
      <4>5. made \in Seq(T)
        BY <2>6, <4>3, FunctionIsSeq
      <4>6. QED
        BY <4>1, <4>4, <4>5 DEF IsSeq
    <3>2. \A i, j \in DOMAIN o.ids : i # j => o.ids[i] # o.ids[j]
      BY <1>4 DEF SelectionBroken
    <3>3. \A i, j \in DOMAIN proposed' : i # j => ~SameClaim(proposed'[i], proposed'[j])
      BY <2>8, <3>2 DEF SameClaim
    <3>4. QED
      BY <2>8, <3>1, <3>3 DEF NoneTwice
  <2>10. ASSUME NEW i \in DOMAIN todo', NEW j \in DOMAIN proposed'
         PROVE  ~From(todo'[i], proposed'[j])
    <3> SUFFICES ASSUME From(todo'[i], proposed'[j]) PROVE FALSE
      OBVIOUS
    <3>1. /\ i + 1 \in DOMAIN todo /\ i + 1 # 1 /\ todo'[i] = todo[i + 1]
      BY <2>1, <2>4
    <3>2. From(todo[1], proposed'[j]) /\ From(todo[i + 1], proposed'[j])
      BY <2>4, <2>8, <3>1
    <3>3. todo[1].field = todo[i + 1].field
      BY <3>2 DEF From
    <3>4. /\ todo[1].hint # todo[i + 1].hint
          /\ todo[1].hint # NoKey /\ todo[i + 1].hint # NoKey
      BY <2>3, <2>4, <3>1, <3>3 DEF MenusApart
    <3>5. QED
      BY <3>2, <3>4 DEF From
  <2>11. \A i \in DOMAIN todo', j \in DOMAIN values : ~From(todo'[i], values[j])
    BY <2>1, <2>4 DEF ValueInv, ClaimsApart
  <2>12. ASSUME NEW i \in DOMAIN values, NEW j \in DOMAIN proposed'
         PROVE  ~SameClaim(values[i], proposed'[j])
    <3>1. ~From(set, values[i])
      BY <2>4 DEF ValueInv, ClaimsApart
    <3>2. From(set, proposed'[j])
      BY <2>8
    <3> HIDE DEF set
    <3>3. QED
      BY <3>1, <3>2 DEF From, SameClaim
  <2>13. ClaimsApart'
    <3>1. values' = values /\ todo' = Tail(todo)
      BY <2>1
    <3>2. MenusApart(todo') /\ NoneTwice(values')
      BY <2>3, <2>5, <3>1
    <3>3. QED
      BY <2>9, <2>10, <2>11, <2>12, <3>1, <3>2 DEF ClaimsApart, MenusApart, NoneTwice
  <2>14. StageInv'
    BY <2>1, <2>2 DEF ValueInv, StageInv, NumberedKeys
  <2>15. QED
    BY <2>13, <2>14 DEF ValueInv
<1>5. QED
  BY <1>3, <1>4

LEMMA ValidationIsApart ==
  ASSUME ValueInv, Validate
  PROVE  ValueInv'
<1> DEFINE p == Head(proposed)
           x == IF p.cand \in Layer1Bad THEN Refused
                ELSE Normalized(backed, FieldOf[p.cand], TextOf[p.cand])
           value == [cand |-> p.cand, hint |-> p.hint, value |-> x]
<1>1. stage = "select" /\ proposed # <<>>
  BY DEF Validate
<1>2. \/ Stop
      \/ /\ proposed' = Tail(proposed)
         /\ values' = values \/ values' = Append(values, value)
         /\ UNCHANGED <<stage, backed, mode, keys, todo, offered, instances>>
  BY DEF Validate
<1>3. ASSUME proposed' = Tail(proposed),
             values' = values \/ values' = Append(values, value),
             UNCHANGED <<stage, backed, mode, keys, todo, offered, instances>>
      PROVE  ValueInv'
  <2>1. value.cand = p.cand /\ value.hint = p.hint
    BY DEF value
  <2>2. /\ IsSeq(Tail(proposed)) /\ 1 \in DOMAIN proposed /\ p = proposed[1]
        /\ \A i \in DOMAIN Tail(proposed) : /\ i \in Int /\ i + 1 \in DOMAIN proposed /\ i + 1 # 1
                                            /\ Tail(proposed)[i] = proposed[i + 1]
    BY <1>1, TailOfMenus DEF ValueInv, ClaimsApart, NoneTwice
  <2> HIDE DEF p, x, value
  <2>3. /\ value.cand \in Cand
        /\ \A i \in DOMAIN todo : ~From(todo[i], value)
        /\ \A i \in DOMAIN values : ~SameClaim(values[i], value)
        /\ \A i \in DOMAIN proposed' : ~SameClaim(value, proposed'[i])
    <3>1. /\ p.cand \in Cand
          /\ \A i \in DOMAIN todo : ~From(todo[i], p)
          /\ \A i \in DOMAIN values : ~SameClaim(values[i], p)
      BY <2>2 DEF ValueInv, ClaimsApart, NoneTwice
    <3>2. \A i \in DOMAIN proposed' : ~SameClaim(p, proposed'[i])
      BY <1>3, <2>2 DEF ValueInv, ClaimsApart, NoneTwice
    <3>3. QED
      BY <2>1, <3>1, <3>2 DEF From, SameClaim
  <2>4. NoneTwice(proposed')
    <3>1. \A i, j \in DOMAIN Tail(proposed) : i # j => i + 1 # j + 1
      BY <2>2
    <3>2. QED
      BY <1>3, <2>2, <3>1 DEF ValueInv, ClaimsApart, NoneTwice
  <2>5. /\ IsSeq(values')
        /\ \A i \in DOMAIN values' :
             \/ i \in DOMAIN values /\ values'[i] = values[i]
             \/ values'[i] = value /\ i \notin DOMAIN values
        /\ \A i, j \in DOMAIN values' \ DOMAIN values : i = j
    <3>1. PICK S : values \in Seq(S)
      BY DEF ValueInv, ClaimsApart, NoneTwice, IsSeq
    <3>2. Len(values) \in Nat /\ DOMAIN values = 1..Len(values)
      BY <3>1
    <3>3. CASE values' = values
      BY <3>3 DEF ValueInv, ClaimsApart, NoneTwice
    <3>4. CASE values' = Append(values, value)
      <4>1. values \in Seq(S \cup {value}) /\ value \in S \cup {value}
        BY <3>1
      <4>2. /\ values' \in Seq(S \cup {value})
            /\ DOMAIN values' = 1..Len(values) + 1
            /\ \A i \in 1..Len(values) : values'[i] = values[i]
            /\ values'[Len(values) + 1] = value
        BY <3>2, <3>4, <4>1
      <4>3. \A i \in DOMAIN values' : i \in 1..Len(values) \/ i = Len(values) + 1
        BY <3>2, <4>2
      <4>4. QED
        BY <3>2, <4>2, <4>3 DEF IsSeq
    <3>5. QED
      BY <1>3, <3>3, <3>4
  <2>6. NoneTwice(values')
    <3>1. \A i \in DOMAIN values' : values'[i].cand \in Cand
      BY <2>3, <2>5 DEF ValueInv, ClaimsApart, NoneTwice
    <3>2. ASSUME NEW i \in DOMAIN values', NEW j \in DOMAIN values', i # j
          PROVE  ~SameClaim(values'[i], values'[j])
      <4>1. CASE i \in DOMAIN values /\ j \in DOMAIN values
        <5>1. values'[i] = values[i] /\ values'[j] = values[j]
          BY <2>5, <4>1
        <5>2. QED
          BY <3>2, <4>1, <5>1 DEF ValueInv, ClaimsApart, NoneTwice
      <4>2. CASE i \notin DOMAIN values
        <5>1. values'[i] = value /\ j \in DOMAIN values /\ values'[j] = values[j]
          BY <2>5, <3>2, <4>2
        <5>2. QED
          BY <2>3, <5>1 DEF SameClaim
      <4>3. CASE j \notin DOMAIN values
        <5>1. values'[j] = value /\ i \in DOMAIN values /\ values'[i] = values[i]
          BY <2>5, <3>2, <4>3
        <5>2. QED
          BY <2>3, <5>1 DEF SameClaim
      <4>4. QED
        BY <4>1, <4>2, <4>3
    <3>3. QED
      BY <2>5, <3>1, <3>2 DEF NoneTwice
  <2>7. \A i \in DOMAIN todo, j \in DOMAIN values' : ~From(todo[i], values'[j])
    BY <2>3, <2>5 DEF ValueInv, ClaimsApart
  <2>8. \A i \in DOMAIN todo, j \in DOMAIN proposed' : ~From(todo[i], proposed'[j])
    BY <1>3, <2>2 DEF ValueInv, ClaimsApart
  <2>9. \A i \in DOMAIN values', j \in DOMAIN proposed' : ~SameClaim(values'[i], proposed'[j])
    <3>1. \A i \in DOMAIN values, j \in DOMAIN proposed' : ~SameClaim(values[i], proposed'[j])
      BY <1>3, <2>2 DEF ValueInv, ClaimsApart
    <3>2. QED
      BY <2>3, <2>5, <3>1
  <2>10. ClaimsApart'
    <3>1. todo' = todo /\ MenusApart(todo)
      BY <1>3 DEF ValueInv, ClaimsApart
    <3>2. MenusApart(todo')
      BY <3>1
    <3>3. QED
      BY <2>4, <2>6, <2>7, <2>8, <2>9, <3>1, <3>2 DEF ClaimsApart, MenusApart, NoneTwice
  <2>11. StageInv'
    BY <1>1, <1>3 DEF ValueInv, StageInv, NumberedKeys
  <2>12. QED
    BY <2>10, <2>11 DEF ValueInv
<1>4. QED
  BY <1>2, <1>3, StoppedIsApart

LEMMA ResolutionIsApart ==
  ASSUME ValueInv, Resolve
  PROVE  ValueInv'
<1>1. /\ stage = "select" /\ stage' = "judge"
      /\ instances' = Resolved(values, keys, mode # "whole", offered)
      /\ UNCHANGED <<backed, mode, keys, todo, proposed, offered, values>>
  BY DEF Resolve
<1>2. ClaimsApart'
  BY <1>1 DEF ValueInv, ClaimsApart, MenusApart, NoneTwice
<1>3. instances' = Resolved(values', keys', mode' # "whole", offered')
  BY <1>1
<1>4. StageInv'
  BY <1>1, <1>3 DEF ValueInv, StageInv, NumberedKeys
<1>5. QED
  BY <1>2, <1>4 DEF ValueInv

LEMMA JudgementIsApart ==
  ASSUME ValueInv, Judge
  PROVE  ValueInv'
<1>1. /\ stage = "judge" /\ stage' = "done"
      /\ instances' = [m \in DOMAIN instances |-> Judged(backed, instances[m])]
      /\ UNCHANGED <<backed, mode, keys, todo, proposed, offered, values>>
  BY DEF Judge
<1>2. ClaimsApart'
  BY <1>1 DEF ValueInv, ClaimsApart, MenusApart, NoneTwice
<1>3. PICK r : r = Resolved(values, keys, mode # "whole", offered)
  OBVIOUS
<1>4. r = Resolved(values', keys', mode' # "whole", offered')
  BY <1>1, <1>3
<1>5. instances' = [m \in DOMAIN r |-> Judged(backed', r[m])]
  BY <1>1, <1>3 DEF ValueInv, StageInv
<1>6. StageInv'
  BY <1>1, <1>4, <1>5 DEF ValueInv, StageInv, NumberedKeys
<1>7. QED
  BY <1>2, <1>6 DEF ValueInv

LEMMA NextIsApart == ValueInv /\ [Next]_vars => ValueInv'
<1> SUFFICES ASSUME ValueInv, [Next]_vars PROVE ValueInv'
  OBVIOUS
<1>1. CASE Propose
  BY <1>1, ProposalIsApart
<1>2. CASE PlanStructurally
  BY <1>2, StructureIsApart
<1>3. CASE UNCHANGED vars
  BY <1>3 DEF vars, ValueInv, ClaimsApart, MenusApart, NoneTwice, StageInv, NumberedKeys
<1>4. QED
  BY <1>1, <1>2, <1>3, WholeIsApart, SelectionIsApart, ValidationIsApart,
     ResolutionIsApart, JudgementIsApart DEF Next

LEMMA InvImpliesKept ==
  ASSUME IInv, ValueInv
  PROVE  NothingVanishes
<1> SUFFICES ASSUME Assembled, NEW i \in DOMAIN values
             PROVE  LET v  == values[i]
                        at == UNION {{n} \X Occurrences(instances[n].evidence, v) :
                                       n \in DOMAIN instances}
                    IN \/ Cardinality(at) = 1
                       \/ /\ at = {}
                          /\ \E n \in DOMAIN instances :
                               /\ \E x \in instances[n].negatives : x.field = FieldOf[v.cand]
                               /\ mode = "proposed" => instances[n].key.id = v.hint.id
  BY DEF NothingVanishes, Occurrences
<1> DEFINE v == values[i]
           used == mode # "whole"
           r == Resolved(values, keys, used, offered)
           id == keys[Placed(keys, used, offered, v).bucket].id
<1>1. PICK N \in Nat : DOMAIN values = 1..N
  <2>1. PICK S : values \in Seq(S)
    BY DEF ValueInv, ClaimsApart, NoneTwice, IsSeq
  <2>2. QED
    BY <2>1
<1>2. PICK n \in Nat \ {0} : used => DOMAIN keys = 1..n
  <2>1. stage \notin {"plan", "raised"}
    BY DEF Assembled
  <2>2. used => NumberedKeys
    BY <2>1 DEF ValueInv, StageInv
  <2>3. 1 \in Nat \ {0}
    OBVIOUS
  <2>4. QED
    BY <2>2, <2>3 DEF NumberedKeys
<1>3. /\ \A j \in 1..N : values[j].cand \in Cand
      /\ \A j \in 1..N : values[j] = v => j = i
  BY <1>1 DEF ValueInv, ClaimsApart, NoneTwice, SameClaim
<1>4. used \in BOOLEAN /\ i \in 1..N
  BY <1>1
<1>5. Accounted(r, v, used, id)
  <2> HIDE DEF used
  <2>1. QED
    BY <1>1, <1>2, <1>3, <1>4, ResolvedAccounts
<1>6. WhollyMade(r)
  <2> HIDE DEF used
  <2>1. QED
    BY <1>2, <1>4, ResolvedIsMade
<1>7. mode = "proposed" => used /\ id = v.hint.id
  <2>1. SelectedScopeDecides
    BY InvImpliesScopes
  <2>2. mode = "proposed" => keys[Placed(keys, TRUE, offered, v).bucket] = v.hint
    BY <2>1 DEF SelectedScopeDecides
  <2>3. QED
    BY <2>2
<1> HIDE DEF r, id, v, used
<1>8. Accounted(instances, v, used, id)
  <2>1. CASE stage = "judge"
    BY <1>5, <2>1 DEF ValueInv, StageInv, r, used
  <2>2. CASE stage = "done"
    <3>1. instances = [m \in DOMAIN r |-> Judged(backed, r[m])]
      BY <2>2 DEF ValueInv, StageInv, r, used
    <3>2. QED
      BY <1>5, <1>6, <3>1, JudgingAccounts
  <2>3. QED
    BY <2>1, <2>2 DEF Assembled
<1>9. CASE \E p : Places(instances, v) = {p}
  <2>1. Cardinality(Places(instances, v)) = 1
    BY <1>9, FS_Singleton
  <2>2. QED
    BY <2>1 DEF Places, v
<1>10. CASE /\ Places(instances, v) = {}
            /\ \E m \in DOMAIN instances :
                 Reports(instances, m, v) /\ (used => instances[m].key.id = id)
  BY <1>7, <1>10 DEF Places, Reports, v
<1>11. QED
  BY <1>8, <1>9, <1>10 DEF Accounted

(* Whatever is selected, validated and resolved, by the executor or with a *)
(* plan of the caller's: a validated value is evidence once, in one        *)
(* instance, before and after layer 3, or an instance reports the refusal  *)
(* of its field, and it is the instance of the value's own line when the   *)
(* instances were lines (_apply_cardinality_policy, _compose_results,      *)
(* _apply_layer3_validation).                                              *)
THEOREM NoValueVanishes == Spec => []NothingVanishes
<1>1. IInv /\ ValueInv => NothingVanishes
  BY InvImpliesKept
<1>2. Init => IInv /\ ValueInv
  BY InitEstablishes, InitValues
<1>3. IInv /\ [Next]_vars => IInv'
  BY NextKeeps
<1>4. ValueInv /\ [Next]_vars => ValueInv'
  BY NextIsApart
<1>5. QED
  BY <1>1, <1>2, <1>3, <1>4, PTL DEF Spec

-----------------------------------------------------------------------------
(* The order of the values decides nothing                                 *)

\* the same placements, in an order that pi exchanges
Exchanged(P, Q, N, pi) ==
  /\ DOMAIN P = 1..N /\ DOMAIN Q = 1..N
  /\ pi \in [1..N -> 1..N]
  /\ \A k \in 1..N : pi[pi[k]] = k /\ Q[k] = P[pi[k]]

Codes(P, b) == {<<x.code, x.field>> : x \in NegativesAt(P, b)}

EvidenceOf(P, b) == {P[i].of : i \in Survivors(P, b)}

LEMMA ExchangeIsMutual ==
  ASSUME NEW P, NEW Q, NEW N, NEW pi, Exchanged(P, Q, N, pi)
  PROVE  Exchanged(Q, P, N, pi)
BY DEF Exchanged

LEMMA ClaimsExchange ==
  ASSUME NEW P, NEW Q, NEW N, NEW pi, Exchanged(P, Q, N, pi), NEW f, NEW b
  PROVE  /\ \A k \in Claims(Q, f, b) : pi[k] \in Claims(P, f, b) /\ k \in 1..N
         /\ Spread(Q, f) => Spread(P, f)
         /\ Crowded(Q, f, b) => Crowded(P, f, b)
<1>1. \A d : \A k \in Claims(Q, f, d) : /\ pi[k] \in Claims(P, f, d)
                                         /\ k \in 1..N /\ pi[pi[k]] = k
  BY DEF Exchanged, Claims, Settled, FieldAt
<1>2. ASSUME Spread(Q, f)
      PROVE  Spread(P, f)
  <2>1. PICK d, e \in {Q[i].bucket : i \in Settled(Q)} :
          d # e /\ Claims(Q, f, d) # {} /\ Claims(Q, f, e) # {}
    BY <1>2 DEF Spread
  <2>2. Claims(P, f, d) # {} /\ Claims(P, f, e) # {}
    BY <1>1, <2>1
  <2>3. d \in {P[i].bucket : i \in Settled(P)} /\ e \in {P[i].bucket : i \in Settled(P)}
    BY <2>2 DEF Claims
  <2>4. QED
    BY <1>2, <2>1, <2>2, <2>3 DEF Spread
<1>3. ASSUME Crowded(Q, f, b)
      PROVE  Crowded(P, f, b)
  <2>1. PICK i, j \in Claims(Q, f, b) : i # j
    BY <1>3 DEF Crowded
  <2>2. pi[i] # pi[j] /\ pi[i] \in Claims(P, f, b) /\ pi[j] \in Claims(P, f, b)
    BY <1>1, <2>1
  <2>3. QED
    BY <1>3, <2>2 DEF Crowded
<1>4. QED
  BY <1>1, <1>2, <1>3

LEMMA SurvivorsExchange ==
  ASSUME NEW P, NEW Q, NEW N, NEW pi, Exchanged(P, Q, N, pi), NEW b
  PROVE  \A k \in Survivors(Q, b) : pi[k] \in Survivors(P, b) /\ Q[k] = P[pi[k]]
<1> SUFFICES ASSUME NEW k \in Survivors(Q, b)
             PROVE  pi[k] \in Survivors(P, b) /\ Q[k] = P[pi[k]]
  OBVIOUS
<1>1. /\ k \in 1..N /\ Q[k].bucket = b /\ Q[k].settled
      /\ ~Spread(Q, FieldAt(Q, k)) /\ ~Crowded(Q, FieldAt(Q, k), Q[k].bucket)
  BY DEF Survivors, Survives, Exchanged
<1>2. pi[k] \in 1..N /\ Q[k] = P[pi[k]] /\ DOMAIN P = 1..N
  BY <1>1 DEF Exchanged
<1>3. FieldAt(P, pi[k]) = FieldAt(Q, k)
  BY <1>2 DEF FieldAt
<1>4. ~Spread(P, FieldAt(Q, k)) /\ ~Crowded(P, FieldAt(Q, k), Q[k].bucket)
  BY <1>1, ExchangeIsMutual, ClaimsExchange
<1>5. QED
  BY <1>1, <1>2, <1>3, <1>4 DEF Survivors, Survives

LEMMA CodesExchange ==
  ASSUME NEW P, NEW Q, NEW N, NEW pi, Exchanged(P, Q, N, pi), NEW b
  PROVE  Codes(Q, b) \subseteq Codes(P, b)
<1> SUFFICES ASSUME NEW x \in NegativesAt(Q, b)
             PROVE  \E y \in NegativesAt(P, b) : y.code = x.code /\ y.field = x.field
  BY DEF Codes
<1>1. \A code, f, hint : Refusal(code, f, hint).code = code /\ Refusal(code, f, hint).field = f
  BY DEF Refusal
<1>2. CASE x \in AmbiguityNegatives(Q, b)
  <2>1. PICK k \in DOMAIN Q : /\ ~Q[k].settled /\ Q[k].bucket = b
                              /\ x = Refusal("ambiguous_grouping", FieldAt(Q, k), Q[k].of.hint)
    BY <1>2 DEF AmbiguityNegatives
  <2>2. pi[k] \in DOMAIN P /\ Q[k] = P[pi[k]]
    BY DEF Exchanged
  <2>3. Refusal("ambiguous_grouping", FieldAt(P, pi[k]), P[pi[k]].of.hint)
          \in AmbiguityNegatives(P, b)
    BY <2>1, <2>2 DEF AmbiguityNegatives
  <2>4. FieldAt(P, pi[k]) = FieldAt(Q, k)
    BY <2>2 DEF FieldAt
  <2>5. QED
    BY <1>1, <2>1, <2>3, <2>4 DEF NegativesAt
<1>3. CASE x \in CardinalityNegatives(Q, b)
  <2> DEFINE at(R, f) == R[Min(Claims(R, f, b))].of.hint
  <2>1. PICK f \in Field :
          \/ /\ Spread(Q, f) /\ Claims(Q, f, b) # {}
             /\ x = Refusal("one_multiple_instances", f, at(Q, f))
          \/ /\ Crowded(Q, f, b)
             /\ x = Refusal("per_instance_multi_in_instance", f, at(Q, f))
    BY <1>3 DEF CardinalityNegatives
  <2>2. CASE /\ Spread(Q, f) /\ Claims(Q, f, b) # {}
             /\ x = Refusal("one_multiple_instances", f, at(Q, f))
    <3>1. Spread(P, f) /\ Claims(P, f, b) # {}
      BY <2>2, ClaimsExchange
    <3>2. Refusal("one_multiple_instances", f, at(P, f)) \in CardinalityNegatives(P, b)
      BY <3>1 DEF CardinalityNegatives
    <3>3. QED
      BY <1>1, <2>2, <3>2 DEF NegativesAt
  <2>3. CASE /\ Crowded(Q, f, b)
             /\ x = Refusal("per_instance_multi_in_instance", f, at(Q, f))
    <3>1. Crowded(P, f, b)
      BY <2>3, ClaimsExchange
    <3>2. Refusal("per_instance_multi_in_instance", f, at(P, f)) \in CardinalityNegatives(P, b)
      BY <3>1 DEF CardinalityNegatives
    <3>3. QED
      BY <1>1, <2>3, <3>2 DEF NegativesAt
  <2>4. QED
    BY <2>1, <2>2, <2>3
<1>4. QED
  BY <1>2, <1>3 DEF NegativesAt

LEMMA AnchorsExchange ==
  ASSUME NEW P, NEW Q, NEW N, NEW pi, Exchanged(P, Q, N, pi), NEW b, NEW key
  PROVE  FinalAnchors(Q, key, b) = FinalAnchors(P, key, b)
<1> DEFINE Spans(R, S) == {SpanOf[R[i].of.cand] : i \in S}
           Boundary(R) == {i \in Survivors(R, b) : RoleOf(R[i].of) = "boundary_defining"}
<1>1. /\ \A k \in Survivors(Q, b) : pi[k] \in Survivors(P, b) /\ Q[k] = P[pi[k]]
      /\ \A k \in Survivors(P, b) : pi[k] \in Survivors(Q, b) /\ P[k] = Q[pi[k]]
  BY ExchangeIsMutual, SurvivorsExchange
<1>2. /\ \A k \in Boundary(Q) : pi[k] \in Boundary(P) /\ Q[k] = P[pi[k]]
      /\ \A k \in Boundary(P) : pi[k] \in Boundary(Q) /\ P[k] = Q[pi[k]]
  BY <1>1
<1>3. Spans(Q, Survivors(Q, b)) = Spans(P, Survivors(P, b))
  BY <1>1
<1>4. Spans(Q, Boundary(Q)) = Spans(P, Boundary(P)) /\ (Boundary(Q) = {} <=> Boundary(P) = {})
  BY <1>2
<1>5. \A R : FinalAnchors(R, key, b) = IF Boundary(R) # {} THEN Spans(R, Boundary(R))
                                       ELSE IF key.anchors # {} THEN key.anchors
                                       ELSE Spans(R, Survivors(R, b))
  BY DEF FinalAnchors
<1> HIDE DEF Spans, Boundary
<1>6. QED
  BY <1>3, <1>4, <1>5

LEMMA ExchangeAgrees ==
  ASSUME NEW P, NEW Q, NEW N, NEW pi, Exchanged(P, Q, N, pi), NEW b
  PROVE  /\ EvidenceOf(Q, b) = EvidenceOf(P, b)
         /\ Codes(Q, b) = Codes(P, b)
         /\ Survivors(Q, b) = {} <=> Survivors(P, b) = {}
         /\ NegativesAt(Q, b) = {} <=> NegativesAt(P, b) = {}
<1>1. /\ \A k \in Survivors(Q, b) : pi[k] \in Survivors(P, b) /\ Q[k] = P[pi[k]]
      /\ \A k \in Survivors(P, b) : pi[k] \in Survivors(Q, b) /\ P[k] = Q[pi[k]]
  BY ExchangeIsMutual, SurvivorsExchange
<1>2. EvidenceOf(Q, b) = EvidenceOf(P, b)
  BY <1>1 DEF EvidenceOf
<1>3. Codes(Q, b) = Codes(P, b)
  BY ExchangeIsMutual, CodesExchange
<1>4. \A R : NegativesAt(R, b) = {} <=> Codes(R, b) = {}
  BY DEF Codes
<1>5. QED
  BY <1>1, <1>2, <1>3, <1>4

\* what an instance tells, the order of its evidence left out
ToldOf(x) ==
  [key      |-> x.key,
   outcome  |-> x.outcome,
   evidence |-> Range(x.evidence),
   refusals |-> {<<y.code, y.field>> : y \in x.negatives}]

Told(r) == [m \in DOMAIN r |-> ToldOf(r[m])]

LEMMA ComposedToldAlike ==
  ASSUME NEW n \in Nat, NEW N \in Nat, NEW P, NEW Q, NEW K, NEW used, NEW pi,
         DOMAIN K = 1..n, Exchanged(P, Q, N, pi),
         \A i \in 1..N : P[i].of.cand \in Cand
  PROVE  Told(Composed(Q, K, used)) = Told(Composed(P, K, used))
<1> DEFINE kept == KeptKeys(P, n)
           c == Cardinality(kept)
<1>1. KeptKeys(Q, n) = kept
  BY ExchangeAgrees DEF KeptKeys
<1>2. /\ InstancesOf(P, K, used, kept, Composed(P, K, used))
      /\ InstancesOf(Q, K, used, kept, Composed(Q, K, used))
  BY <1>1, ComposedIs
<1> HIDE DEF kept
<1>3. /\ DOMAIN Composed(P, K, used) = 1..c
      /\ DOMAIN Composed(Q, K, used) = 1..c
  BY <1>2 DEF InstancesOf
<1>4. ASSUME NEW m \in 1..c
      PROVE  ToldOf(Composed(Q, K, used)[m]) = ToldOf(Composed(P, K, used)[m])
  <2>1. PICK b : b = InOrder(kept)[m]
    OBVIOUS
  <2>2. /\ Composed(P, K, used)[m] = InstanceFor(P, K, used, m, b)
        /\ Composed(Q, K, used)[m] = InstanceFor(Q, K, used, m, b)
    BY <1>2, <2>1 DEF InstancesOf
  <2>3. /\ DOMAIN P = 1..N /\ DOMAIN Q = 1..N
        /\ \A i \in 1..N : Q[i].of.cand \in Cand
    BY DEF Exchanged
  <2>4. Range(EvidenceAt(P, b)) = EvidenceOf(P, b)
    BY <2>3, EvidenceIs DEF EvidenceOf
  <2>5. Range(EvidenceAt(Q, b)) = EvidenceOf(Q, b)
    BY <2>3, EvidenceIs DEF EvidenceOf
  <2>6. Range(EvidenceAt(Q, b)) = Range(EvidenceAt(P, b))
    BY <2>4, <2>5, ExchangeAgrees
  <2>7. FinalAnchors(Q, K[b], b) = FinalAnchors(P, K[b], b)
    BY AnchorsExchange
  <2>8. /\ InstanceFor(Q, K, used, m, b).key = InstanceFor(P, K, used, m, b).key
        /\ InstanceFor(Q, K, used, m, b).outcome = InstanceFor(P, K, used, m, b).outcome
    BY <2>7, ExchangeAgrees DEF InstanceFor
  <2>9. \A R : /\ InstanceFor(R, K, used, m, b).evidence = EvidenceAt(R, b)
               /\ {<<y.code, y.field>> : y \in InstanceFor(R, K, used, m, b).negatives}
                    = Codes(R, b)
    BY DEF InstanceFor, Codes
  <2>10. Codes(Q, b) = Codes(P, b)
    BY ExchangeAgrees
  <2>11. QED
    BY <2>2, <2>6, <2>8, <2>9, <2>10 DEF ToldOf
<1>5. QED
  BY <1>3, <1>4 DEF Told

LEMMA ResolvedToldAlike ==
  ASSUME NEW n \in Nat \ {0}, NEW N \in Nat \ {0}, NEW V, NEW W, NEW pi,
         Exchanged(V, W, N, pi),
         NEW K, NEW used \in BOOLEAN, used => DOMAIN K = 1..n, NEW sets,
         \A i \in 1..N : V[i].cand \in Cand
  PROVE  Told(Resolved(W, K, used, sets)) = Told(Resolved(V, K, used, sets))
<1>1. /\ DOMAIN V = 1..N /\ DOMAIN W = 1..N
      /\ \A k \in 1..N : pi[k] \in 1..N /\ pi[pi[k]] = k /\ W[k] = V[pi[k]]
  BY DEF Exchanged
<1>2. DocumentKeys(W) = DocumentKeys(V)
  <2> DEFINE Spans(R) == {SpanOf[R[i].cand] : i \in DOMAIN R}
  <2>1. Spans(W) = Spans(V)
    BY <1>1
  <2>2. \A R : DocumentKeys(R) = <<Key(GroupId("document_scope", 0, Spans(R)), 0, Spans(R))>>
    BY DEF DocumentKeys
  <2> HIDE DEF Spans
  <2>3. QED
    BY <2>1, <2>2
<1> DEFINE at == IF used THEN K ELSE DocumentKeys(V)
           P == PlacedAll(V, at, used, sets)
           Q == PlacedAll(W, at, used, sets)
<1>3. PICK k \in Nat \ {0} : DOMAIN at = 1..k
  <2>1. DOMAIN DocumentKeys(V) = 1..1 /\ 1 \in Nat \ {0}
    BY DEF DocumentKeys
  <2>2. CASE used
    BY <2>2
  <2>3. CASE ~used
    BY <2>1, <2>3
  <2>4. QED
    BY <2>2, <2>3
<1>4. \A R : Resolved(R, K, used, sets) =
               IF R = <<>> THEN <<>>
               ELSE LET a == IF used THEN K ELSE DocumentKeys(R)
                    IN Composed(PlacedAll(R, a, used, sets), a, used)
  BY DEF Resolved
<1>5. (IF used THEN K ELSE DocumentKeys(W)) = at
  BY <1>2
<1> HIDE DEF at
<1>6. /\ DOMAIN P = 1..N /\ DOMAIN Q = 1..N
      /\ \A i \in 1..N : P[i] = Placed(at, used, sets, V[i])
      /\ \A i \in 1..N : Q[i] = Placed(at, used, sets, W[i])
  BY <1>1 DEF PlacedAll
<1> HIDE DEF P, Q
<1>7. \A i \in 1..N : P[i].of = V[i]
  BY <1>3, <1>6, FiledAtAKey
<1>8. Exchanged(P, Q, N, pi)
  BY <1>1, <1>6 DEF Exchanged
<1>9. Told(Composed(Q, at, used)) = Told(Composed(P, at, used))
  BY <1>3, <1>7, <1>8, ComposedToldAlike
<1>10. V # <<>> /\ W # <<>>
  <2>1. DOMAIN <<>> = {} /\ 1 \in 1..N
    OBVIOUS
  <2>2. QED
    BY <1>1, <2>1
<1>11. /\ Resolved(V, K, used, sets) = Composed(P, at, used)
       /\ Resolved(W, K, used, sets) = Composed(Q, at, used)
  BY <1>4, <1>5, <1>10 DEF at, P, Q
<1>12. QED
  BY <1>9, <1>11

LEMMA InvImpliesOrderless ==
  ASSUME ValueInv
  PROVE  OrderDoesNotDecide
<1> DEFINE swapped(i) == [values EXCEPT ![i] = values[i + 1], ![i + 1] = values[i]]
           used == mode # "whole"
<1> SUFFICES ASSUME stage = "judge", NEW i \in 1..(Len(values) - 1)
             PROVE  Told(Resolved(swapped(i), keys, used, offered)) = Told(instances)
  BY DEF OrderDoesNotDecide, Told, ToldOf
<1>1. Len(values) \in Nat /\ DOMAIN values = 1..Len(values)
  <2>1. PICK S : values \in Seq(S)
    BY DEF ValueInv, ClaimsApart, NoneTwice, IsSeq
  <2>2. QED
    BY <2>1
<1>2. PICK N \in Nat \ {0} : N = Len(values)
  <2>1. Len(values) \in Nat \ {0}
    BY <1>1
  <2>2. QED
    BY <2>1
<1>3. i \in 1..N /\ i + 1 \in 1..N /\ i # i + 1 /\ i \in Int
  BY <1>2
<1> DEFINE pi == [k \in 1..N |-> IF k = i THEN i + 1 ELSE IF k = i + 1 THEN i ELSE k]
<1>4. Exchanged(values, swapped(i), N, pi)
  <2>1. pi \in [1..N -> 1..N] /\ \A k \in 1..N : pi[pi[k]] = k
    BY <1>3
  <2>2. PICK first : first = [values EXCEPT ![i] = values[i + 1]]
    OBVIOUS
  <2>3. PICK both : both = [first EXCEPT ![i + 1] = values[i]]
    OBVIOUS
  <2>4. both = swapped(i)
    BY <2>2, <2>3
  <2>5. DOMAIN values = 1..N
    BY <1>1, <1>2
  <2>6. DOMAIN first = 1..N /\ \A k \in 1..N : first[k] = IF k = i THEN values[i + 1]
                                                          ELSE values[k]
    BY <2>2, <2>5
  <2>7. DOMAIN both = 1..N /\ \A k \in 1..N : both[k] = IF k = i + 1 THEN values[i]
                                                        ELSE first[k]
    BY <2>3, <2>6
  <2>8. \A k \in 1..N : both[k] = values[pi[k]]
    BY <1>3, <2>6, <2>7
  <2> HIDE DEF pi, swapped
  <2>9. QED
    BY <2>1, <2>4, <2>5, <2>7, <2>8 DEF Exchanged
<1> HIDE DEF pi, swapped
<1>5. PICK n \in Nat \ {0} : used => DOMAIN keys = 1..n
  <2>1. used => NumberedKeys
    BY DEF ValueInv, StageInv
  <2>2. 1 \in Nat \ {0}
    OBVIOUS
  <2>3. QED
    BY <2>1, <2>2 DEF NumberedKeys
<1>6. \A k \in 1..N : values[k].cand \in Cand
  BY <1>1, <1>2 DEF ValueInv, ClaimsApart, NoneTwice
<1>7. used \in BOOLEAN
  OBVIOUS
<1>8. instances = Resolved(values, keys, used, offered)
  BY DEF ValueInv, StageInv
<1> HIDE DEF used
<1>9. QED
  BY <1>4, <1>5, <1>6, <1>7, <1>8, ResolvedToldAlike

(* The order in which the fields were selected and validated decides       *)
(* nothing: with two neighbours exchanged the resolver makes the same      *)
(* instances of them, holding the same evidence and refusing the same      *)
(* fields; where two claims meet it takes neither, and the first has no    *)
(* advantage (DeterministicInstanceResolver.resolve, _assign_fields,       *)
(* _apply_cardinality_policy, _compose_results).                           *)
THEOREM OrderIsIndifferent == Spec => []OrderDoesNotDecide
<1>1. ValueInv => OrderDoesNotDecide
  BY InvImpliesOrderless
<1>2. Init => ValueInv
  BY InitValues
<1>3. ValueInv /\ [Next]_vars => ValueInv'
  BY NextIsApart
<1>4. QED
  BY <1>1, <1>2, <1>3, PTL DEF Spec
=============================================================================
