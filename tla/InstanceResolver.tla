-------------------------- MODULE InstanceResolver --------------------------
(***************************************************************************)
(* The deterministic instance resolver, a pure function of the validated   *)
(* fields, the candidate sets and the instance plan: every value goes to   *)
(* the tentative key that the first decisive authority names, cardinality  *)
(* refuses what an instance may not hold, and the keys that are left       *)
(* become the instances.                                                   *)
(*                                                                         *)
(*   instances/resolvers/deterministic.py                                  *)
(***************************************************************************)
EXTENDS InstanceGrouping

\* without a plan: one key, anchored on everything that was validated
DocumentKeys(values) ==
  LET anchors == {SpanOf[values[i].cand] : i \in DOMAIN values}
  IN <<Key(GroupId("document_scope", 0, anchors), 0, anchors)>>

Ladder(keys, used, sets, v) ==
  <<BoundaryDefining(keys, v), AnchorContinuity(keys, v),
    Cooccurrence(keys, sets, v), PlanPrior(keys, used, v)>>

Decisive(ladder) == {a \in 1..4 : \E b \in ladder[a] : ladder[a] = {b}}

\* _assign_fields, one turn of its loop: a value nobody decides on is
\* reported at the key of the strongest authority that named several
Placed(keys, used, sets, v) ==
  LET ladder   == Ladder(keys, used, sets, v)
      decisive == Decisive(ladder)
      partial  == {a \in 2..4 : ladder[a] # {}}
      strong   == IF decisive # {} THEN Min(decisive)
                  ELSE IF partial # {} THEN Min(partial) ELSE 0
  IN [of      |-> v,
      bucket  |-> IF strong = 0 THEN 1 ELSE Min(ladder[strong]),
      by      |-> strong,
      settled |-> decisive # {}]

-----------------------------------------------------------------------------
(* _apply_cardinality_policy; placed is the sequence of the placements *)

FieldAt(placed, i) == FieldOf[placed[i].of.cand]
Settled(placed) == {i \in DOMAIN placed : placed[i].settled}

Claims(placed, f, b) ==
  {i \in Settled(placed) : FieldAt(placed, i) = f /\ placed[i].bucket = b}

Spread(placed, f) ==
  /\ Fields[f].card = "one"
  /\ \E b, d \in {placed[i].bucket : i \in Settled(placed)} :
       b # d /\ Claims(placed, f, b) # {} /\ Claims(placed, f, d) # {}

Crowded(placed, f, b) ==
  /\ Fields[f].card = "per_instance"
  /\ \E i, j \in Claims(placed, f, b) : i # j

\* (mutant) the first of several claims stays
SurvivesAsFirst(placed, i) ==
  /\ placed[i].settled
  /\ ~Spread(placed, FieldAt(placed, i))
  /\ Crowded(placed, FieldAt(placed, i), placed[i].bucket)
       => i = Min(Claims(placed, FieldAt(placed, i), placed[i].bucket))

Survives(placed, i) ==
  /\ placed[i].settled
  /\ ~Spread(placed, FieldAt(placed, i))
  /\ ~Crowded(placed, FieldAt(placed, i), placed[i].bucket)

Refusal(code, f, hint) ==
  [code |-> code, field |-> f, hint |-> hint, implicates |-> {}]

\* (mutant) the refusal is filed under the first instance only
CardinalityNegativesAtFirst(placed, b) ==
  {Refusal("one_multiple_instances", f, placed[Min(Claims(placed, f, b))].of.hint) :
     f \in {g \in Field : /\ Spread(placed, g) /\ Claims(placed, g, b) # {}
                          /\ b = 1}}

CardinalityNegatives(placed, b) ==
  LET at(f) == placed[Min(Claims(placed, f, b))].of.hint
  IN {Refusal("one_multiple_instances", f, at(f)) :
        f \in {g \in Field : Spread(placed, g) /\ Claims(placed, g, b) # {}}}
     \cup {Refusal("per_instance_multi_in_instance", f, at(f)) :
             f \in {g \in Field : Crowded(placed, g, b)}}

AmbiguityNegatives(placed, b) ==
  {Refusal("ambiguous_grouping", FieldAt(placed, i), placed[i].of.hint) :
     i \in {j \in DOMAIN placed : ~placed[j].settled /\ placed[j].bucket = b}}

-----------------------------------------------------------------------------
(* _compose_results *)

Survivors(placed, b) ==
  {i \in DOMAIN placed : placed[i].bucket = b /\ Survives(placed, i)}

\* in declaration order, and within a field in the order of selection
EvidenceAt(placed, b) ==
  FlattenSeq([f \in Field |->
    LET mine == InOrder({i \in Survivors(placed, b) : FieldAt(placed, i) = f})
    IN [n \in DOMAIN mine |-> placed[mine[n]].of]])

FinalAnchors(placed, key, b) ==
  LET spans(S) == {SpanOf[placed[i].of.cand] : i \in S}
      boundary == {i \in Survivors(placed, b) :
                     RoleOf(placed[i].of) = "boundary_defining"}
  IN IF boundary # {} THEN spans(boundary)
     ELSE IF key.anchors # {} THEN key.anchors
     ELSE spans(Survivors(placed, b))

NegativesAt(placed, b) ==
  AmbiguityNegatives(placed, b) \cup CardinalityNegatives(placed, b)

\* a key that holds nothing and refused nothing is no instance
Kept(placed, keys) ==
  InOrder({b \in DOMAIN keys : Survivors(placed, b) # {} \/ NegativesAt(placed, b) # {}})

Composed(placed, keys, used) ==
  LET kept == Kept(placed, keys)
  IN [n \in DOMAIN kept |->
        LET b       == kept[n]
            anchors == FinalAnchors(placed, keys[b], b)
            id      == IF used THEN keys[b].id
                       ELSE GroupId("resolved", n - 1, anchors)
        IN [key       |-> Key(id, n - 1, anchors),
            outcome   |-> IF NegativesAt(placed, b) = {} THEN "complete"
                                                         ELSE "partial",
            evidence  |-> EvidenceAt(placed, b),
            negatives |-> NegativesAt(placed, b)]]

PlacedAll(values, keys, used, sets) ==
  [i \in DOMAIN values |-> Placed(keys, used, sets, values[i])]

Resolved(values, keys, used, sets) ==
  IF values = <<>> THEN <<>>
  ELSE LET at == IF used THEN keys ELSE DocumentKeys(values)
       IN Composed(PlacedAll(values, at, used, sets), at, used)
=============================================================================
