-------------------------- MODULE InstanceGrouping --------------------------
(***************************************************************************)
(* How the instances of a document are planned, and where a value belongs  *)
(* among them: source spans, grouping keys, the instance proposer, the     *)
(* structural planner with its boundary helpers, and the four authorities  *)
(* of the resolver.                                                        *)
(*                                                                         *)
(*   instances/proposer.py    instances/planners/structural.py             *)
(*   instances/boundary.py    instances/precedence.py                      *)
(*                                                                         *)
(* The order of the anchors inside one grouping key is abstracted: anchors *)
(* are a set. A hashed group_id is the tuple it is the hash of.            *)
(***************************************************************************)
EXTENDS Integers, Sequences, FiniteSets, SequencesExt, Ordered

CONSTANTS
  Fields,        \* spec.fields: role, card and priority of each, in order
  Cand,          \* the candidates
  FieldOf,       \* the field whose generator emitted the candidate
  SpanOf,        \* its source span
  Newlines,      \* the byte offsets of the line ends of the text
  TextEnd,       \* its length in bytes
  Whole,         \* (source_ref, anchor space) of the document's own spans
  MaxInstances   \* GroupingPolicy.max_instances

Field == DOMAIN Fields



ASSUME FieldsAssumption ==
  Fields \in Seq([role     : {"boundary_defining", "boundary_consuming", "neutral"},
                  card     : {"one", "per_instance", "optional", "many"},
                  priority : Int])

ASSUME MaxInstancesAssumption == MaxInstances \in Int

ASSUME CandidatesAssumption ==
  /\ FieldOf \in [Cand -> Field]
  /\ \A c \in Cand : /\ SpanOf[c].from \in Int
                     /\ SpanOf[c].to \in Int
                     /\ SpanOf[c].from <= SpanOf[c].to

-----------------------------------------------------------------------------
(* Grouping keys *)

GroupId(tag, n, anchors) == [tag |-> tag, n |-> n, anchors |-> anchors]
InstanceId(n) == GroupId("inst", n, {})
NoId == GroupId("none", 0, {})

Key(id, ordinal, anchors) ==
  [id |-> id, ordinal |-> ordinal, anchors |-> anchors]
NoKey == Key(NoId, 0, {})

\* a candidate set before selection: the candidates and the instance they
\* are offered for
CandidateSet(f, hint, ids) == [field |-> f, hint |-> hint, ids |-> ids]
BaseSet(f) == CandidateSet(f, NoKey, {c \in Cand : FieldOf[c] = f})

-----------------------------------------------------------------------------
(* The instance proposer: one instance candidate per line of text *)

LineStart(offset) == Max({0} \cup {n + 1 : n \in {m \in Newlines : m < offset}})

LineOf(c) == LineStart(SpanOf[c].from)

InstanceCandidates ==
  LET starts == {LineOf(c) : c \in Cand}
      On(s)  == {c \in Cand : LineOf(c) = s}
  IN {[id      |-> InstanceId(Cardinality({t \in starts : t < s})),
       ids     |-> On(s),
       anchors |-> {SpanOf[c] : c \in On(s)}] : s \in starts}

ProposerConflict(answer) ==
  \/ answer = <<>>
  \/ Range(answer) \ {x.id : x \in InstanceCandidates} # {}
  \/ \E i, j \in DOMAIN answer : i # j /\ answer[i] = answer[j]

Proposed(id) == CHOOSE x \in InstanceCandidates : x.id = id

KeysFromResponse(answer) ==
  [i \in DOMAIN answer |-> Key(answer[i], i - 1, Proposed(answer[i]).anchors)]

\* (mutant) every instance is offered the candidates of the document
SetForInstanceUnfiltered(set, key) == [set EXCEPT !.hint = key]

SetForInstance(set, key) ==
  CandidateSet(set.field, key, set.ids \cap Proposed(key.id).ids)

-----------------------------------------------------------------------------
(* The structural planner: one instance per distinct boundary anchor *)

\* order_boundary_defining_fields: by priority, then as they are declared
BoundaryFields ==
  LET S == {f \in Field : Fields[f].role = "boundary_defining"}
      Before(f) == {g \in S : \/ Fields[g].priority > Fields[f].priority
                              \/ /\ Fields[g].priority = Fields[f].priority
                                 /\ g < f}
  IN [k \in 1..Cardinality(S) |-> CHOOSE f \in S : Cardinality(Before(f)) = k - 1]

\* collect_advisory_anchors, of what was observed of each boundary field
AdvisoryAnchors(observed) ==
  FlattenSeq([i \in DOMAIN observed |->
    IF observed[i].outcome \in {"SELECTED", "AMBIGUOUS"}
    THEN [j \in DOMAIN observed[i].ids |-> SpanOf[observed[i].ids[j]]]
    ELSE <<>>])

Deduplicated(spans) ==
  LET first == InOrder({i \in DOMAIN spans :
                          \A j \in DOMAIN spans : spans[j] = spans[i] => i <= j})
  IN [k \in DOMAIN first |-> spans[first[k]]]

\* the boundary anchors, else the whole of a text that is not empty
PlannedAnchors(advisory) ==
  IF advisory # <<>> THEN Deduplicated(advisory)
  ELSE IF TextEnd = 0 THEN <<>>
  ELSE <<[frame |-> Whole, from |-> 0, to |-> TextEnd]>>

StructuralPlanRefused(anchors) == Len(anchors) \notin 1..MaxInstances

StructuralKeys(anchors) ==
  [i \in DOMAIN anchors |->
     Key(GroupId("structural", i - 1, {anchors[i]}), i - 1, {anchors[i]})]

-----------------------------------------------------------------------------
(* The four authorities: the tentative keys each would give a value to. A  *)
(* value is a validated field [cand, hint, value].                         *)

SharesFrame(left, right) == left.frame = right.frame

Overlap(left, right) ==
  /\ SharesFrame(left, right)
  /\ \/ /\ left.from = left.to /\ right.from = right.to
        /\ left.from = right.from
     \/ /\ left.from < left.to /\ right.from < right.to
        /\ left.from < right.to /\ right.from < left.to

MinByteGap(left, right) ==
  IF Overlap(left, right) THEN 0
  ELSE IF left.to <= right.from THEN right.from - left.to
  ELSE left.from - right.to

RoleOf(v) == Fields[FieldOf[v.cand]].role

Hinted(keys, v) == {b \in DOMAIN keys : v.hint # NoKey /\ keys[b] = v.hint}

BoundaryDefining(keys, v) ==
  IF RoleOf(v) = "boundary_defining" THEN Hinted(keys, v) ELSE {}

AnchorContinuity(keys, v) ==
  {b \in DOMAIN keys : \E a \in keys[b].anchors : Overlap(a, SpanOf[v.cand])}

\* the gaps between a key's anchors and the candidate, where they compare
Gaps(key, c) == {MinByteGap(a, SpanOf[c]) :
                   a \in {s \in key.anchors : SharesFrame(s, SpanOf[c])}}

\* the candidate set the value was selected from, if the resolver has it
MatchingSets(sets, v) ==
  {i \in DOMAIN sets : sets[i].field = FieldOf[v.cand] /\ sets[i].hint = v.hint}

Cooccurrence(keys, sets, v) ==
  LET found == MatchingSets(sets, v)
      near  == {b \in DOMAIN keys : Gaps(keys[b], v.cand) # {}}
  IN IF found = {} \/ v.cand \notin sets[Min(found)].ids THEN {}
     ELSE {b \in near : \A d \in near :
             \E g \in Gaps(keys[b], v.cand) :
               \A h \in Gaps(keys[d], v.cand) : g <= h}

PlanPrior(keys, used, v) == IF used THEN Hinted(keys, v) ELSE {}
=============================================================================
