-------------------------- MODULE InstanceAssembly --------------------------
(***************************************************************************)
(* From candidates to instances: the instances are planned, each field is  *)
(* selected for in each planned scope, every selected candidate becomes a  *)
(* proposal and is validated, the resolver assembles the instances and     *)
(* layer 3 judges them one by one.                                         *)
(*                                                                         *)
(* The executor plans in two ways: one scope for the whole document, or    *)
(* the lines an instance proposer picks. The structural planner and the    *)
(* resolver are also public: a caller plans from boundary anchors, offers  *)
(* the fields of the document for whichever planned instance it likes and  *)
(* resolves with that plan.                                                *)
(***************************************************************************)
EXTENDS InstanceResolver, FieldValidation

CONSTANTS MaxIds   \* the longest selection and proposer answer to consider

ASSUME MaxIdsAssumption == MaxIds \in Nat

VARIABLES
  stage,    \* where the assembly is
  backed,   \* whether the spec has a schema class
  mode,     \* how the instances were planned
  keys,     \* the tentative keys of the plan, none without one
  todo,     \* the candidate sets that are still to be selected from
  proposed, \* the proposals that are still to be validated
  offered,  \* the candidate sets the resolver is given
  values,   \* validated fields, in the order they were validated
  instances \* the assembled instances

vars == <<stage, backed, mode, keys, todo, proposed, offered, values,
          instances>>

Ids(S) == UNION {[1..k -> S] : k \in 0..MaxIds}

Observation(outcome, ids, id) == [outcome |-> outcome, ids |-> ids, id |-> id]

\* what a selector may answer: seam D lets through any outcome, but the ids it
\* returns should be of the set, and distinct
Observations(set, id) ==
  {Observation("SELECTED", ids, id) : ids \in Ids(set.ids)}
    \cup {Observation("ABSTAINED", <<>>, id)}
    \cup {Observation("AMBIGUOUS", <<c>>, id) : c \in set.ids}

Init ==
  /\ stage = "plan" /\ mode = "unplanned"
  /\ backed \in BOOLEAN
  /\ keys = <<>> /\ todo = <<>> /\ proposed = <<>> /\ offered = <<>>
  /\ values = <<>> /\ instances = <<>>

BaseSets == [f \in Field |-> BaseSet(f)]

Stop == /\ stage' = "raised"
        /\ UNCHANGED <<backed, mode, keys, todo, proposed, offered, values, instances>>

-----------------------------------------------------------------------------
(* Planning *)

\* Cardinality.ONE: the document is one scope
ReadWhole ==
  /\ stage = "plan"
  /\ mode' = "whole" /\ stage' = "select"
  /\ todo' = BaseSets /\ offered' = BaseSets
  /\ UNCHANGED <<backed, keys, proposed, values, instances>>

\* field by field, and for each field instance by instance
SetsForInstances(plan) ==
  LET n == Len(plan)
  IN [u \in 1..(Len(Fields) * n) |->
        SetForInstance(BaseSet(((u - 1) \div n) + 1), plan[((u - 1) % n) + 1])]

\* Cardinality.MANY: the lines the proposer picks are the instances
Propose ==
  /\ stage = "plan"
  /\ \E answer \in Ids({x.id : x \in InstanceCandidates} \cup {NoId}) :
       IF ProposerConflict(answer) THEN Stop
       ELSE LET plan == KeysFromResponse(answer)
            IN /\ mode' = "proposed" /\ stage' = "select"
               /\ keys' = plan
               /\ offered' = BaseSets
               /\ todo' = SetsForInstances(plan)
               /\ UNCHANGED <<backed, proposed, values, instances>>

\* a field is offered once, for no instance in particular, or for each one
SetsAsOffered(plan, scopes) ==
  FlattenSeq([f \in Field |->
    IF scopes[f] = "document" THEN <<BaseSet(f)>>
    ELSE [i \in DOMAIN plan |-> [BaseSet(f) EXCEPT !.hint = plan[i]]]])

\* a caller observes the boundary fields and plans
PlanStructurally ==
  /\ stage = "plan"
  /\ \E observed \in [DOMAIN BoundaryFields ->
                       UNION {Observations(BaseSet(f), NoId) : f \in Field}] :
       /\ \A i \in DOMAIN observed :
            observed[i] \in Observations(BaseSet(BoundaryFields[i]), NoId)
       /\ LET anchors == PlannedAnchors(AdvisoryAnchors(observed))
              plan    == StructuralKeys(anchors)
          IN IF StructuralPlanRefused(anchors) THEN Stop
             ELSE \E scopes \in [Field -> {"document", "instances"}] :
                    /\ mode' = "structural" /\ stage' = "select"
                    /\ keys' = plan
                    /\ todo' = SetsAsOffered(plan, scopes)
                    /\ offered' = todo'
                    /\ UNCHANGED <<backed, proposed, values, instances>>

-----------------------------------------------------------------------------
(* Selection, adaptation and layers 1 and 2 for the next candidate set *)

\* the instance that is asked for; a caller need not name one
ObservedIds(set) ==
  {IF set.hint = NoKey THEN InstanceId(0) ELSE set.hint.id}
    \cup (IF mode = "structural" THEN {NoId} ELSE {})

Proposal(o, set, c) == [cand |-> c, hint |-> TentativeKey(o, set, c)]

Select ==
  /\ stage = "select" /\ todo # <<>> /\ proposed = <<>>
  /\ \E id \in ObservedIds(Head(todo)) : \E o \in Observations(Head(todo), id) :
       LET set == Head(todo)
           why == SelectionRefused(o, set)
       IN IF SelectionBroken(o, set) THEN Stop
          ELSE /\ todo' = Tail(todo)
               /\ proposed' = IF why # "" THEN <<>>
                              ELSE [i \in DOMAIN o.ids |-> Proposal(o, set, o.ids[i])]
               /\ UNCHANGED <<stage, backed, mode, keys, offered, values, instances>>

\* the next proposal passes the layers, is refused, or meets no binding
Validate ==
  /\ stage = "select" /\ proposed # <<>>
  /\ LET p == Head(proposed)
         f == FieldOf[p.cand]
         x == IF p.cand \in Layer1Bad THEN Refused
              ELSE Normalized(backed, f, TextOf[p.cand])
     IN IF p.cand \notin Layer1Bad /\ Unbound(backed, f) THEN Stop
        ELSE /\ proposed' = Tail(proposed)
             /\ values' = IF x = Refused THEN values
                          ELSE Append(values, [cand |-> p.cand, hint |-> p.hint,
                                               value |-> x])
             /\ UNCHANGED <<stage, backed, mode, keys, todo, offered, instances>>

-----------------------------------------------------------------------------
(* Resolution and layer 3 *)

Resolve ==
  /\ stage = "select" /\ todo = <<>> /\ proposed = <<>>
  /\ instances' = Resolved(values, keys, mode # "whole", offered)
  /\ stage' = "judge"
  /\ UNCHANGED <<backed, mode, keys, todo, proposed, offered, values>>

\* _apply_layer3_validation
Judge ==
  /\ stage = "judge"
  /\ instances' = [i \in DOMAIN instances |-> Judged(backed, instances[i])]
  /\ stage' = "done"
  /\ UNCHANGED <<backed, mode, keys, todo, proposed, offered, values>>

Next == \/ ReadWhole \/ Propose \/ PlanStructurally
        \/ Select \/ Validate \/ Resolve \/ Judge

Spec == Init /\ [][Next]_vars

-----------------------------------------------------------------------------
Assembled == stage \in {"judge", "done"}

\* In a run of the executor the scope a value was selected for decides where
\* it ends, whatever its span overlaps: alone in the document's one instance,
\* or in the planned instance it was offered for. Nothing the executor
\* resolves is ambiguous (_assign_fields, _tentative_instance_key).
SelectedScopeDecides ==
  \A i \in DOMAIN values :
    LET v == values[i]
        p == Placed(keys, TRUE, offered, v)
        d == Placed(DocumentKeys(values), FALSE, offered, v)
    IN /\ mode = "whole" => d.settled
       /\ mode = "proposed" => p.settled /\ keys[p.bucket] = v.hint

\* No validated value vanishes: it is evidence once, in one instance, or an
\* instance reports the refusal of its field; with planned lines it is the
\* instance of its own line that does (_apply_cardinality_policy,
\* _compose_results).
NothingVanishes ==
  Assembled => \A i \in DOMAIN values :
    LET v     == values[i]
        In(n) == {q \in DOMAIN instances[n].evidence : instances[n].evidence[q] = v}
        at    == UNION {{n} \X In(n) : n \in DOMAIN instances}
    IN \/ Cardinality(at) = 1
       \/ /\ at = {}
          /\ \E n \in DOMAIN instances :
               /\ \E x \in instances[n].negatives : x.field = FieldOf[v.cand]
               /\ mode = "proposed" => instances[n].key.id = v.hint.id

\* The order in which the fields were validated decides nothing: exchanging
\* two neighbours gives the same instances, holding the same evidence and
\* refusing the same fields ("it does not invent a winner").
OrderDoesNotDecide ==
  LET told(r) == [n \in DOMAIN r |->
        [key      |-> r[n].key,
         outcome  |-> r[n].outcome,
         evidence |-> Range(r[n].evidence),
         refusals |-> {<<x.code, x.field>> : x \in r[n].negatives}]]
      swapped(i) == [values EXCEPT ![i] = values[i + 1], ![i + 1] = values[i]]
  IN stage = "judge" =>
       \A i \in 1..(Len(values) - 1) :
         told(Resolved(swapped(i), keys, mode # "whole", offered)) = told(instances)
=============================================================================
