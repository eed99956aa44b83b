-------------------------- MODULE FieldValidation --------------------------
(***************************************************************************)
(* The selection adapter, which turns an observation into proposals, and   *)
(* the proposal validator: layer 2, which normalizes and checks one value  *)
(* by the pydantic schema or by the field's manual binding, and layer 3,   *)
(* which judges an assembled instance. Layer 1 compares a span with the    *)
(* anchor map; here it is the set of the candidates it refuses.            *)
(*                                                                         *)
(*   proposals/adapter.py    proposals/validation.py                       *)
(***************************************************************************)
EXTENDS InstanceGrouping

CONSTANTS
  TextOf,       \* the text of a candidate, a value
  Refused,      \* raised by a coercion, a normalizer or a validator
  None,         \* Python's None
  Layer1Bad,    \* candidates that layer 1 refuses
  SchemaFields, \* the fields the schema class declares
  ListFields,   \* those it annotates as list[...]
  Coerce,       \* TypeAdapter of the element annotation of each field
  BoundFields,  \* the fields with a manual ValidationBinding
  Normalize,    \* their normalizers
  Validators,   \* the field validators of each field, in declaration order
  AfterRejects(_, _),  \* whether after-validator k refuses a view
  NumAfter,
  IssuesOf(_, _),      \* the issues object validator k finds in a view
  NumObject,
  Implicates    \* the fields each object validator declares

-----------------------------------------------------------------------------
(* The adapter *)

\* an observation that seam D should not have let through
SelectionBroken(o, set) ==
  \/ Range(o.ids) \ set.ids # {}
  \/ \E i, j \in DOMAIN o.ids : i # j /\ o.ids[i] = o.ids[j]

\* the cardinality dispatch of a SELECTED observation; "" lets it pass
SelectionRefused(o, set) ==
  LET card == Fields[set.field].card
      k    == Len(o.ids)
  IN CASE o.outcome # "SELECTED" -> o.outcome
       [] o.outcome = "SELECTED" /\ card = "many" -> ""
       [] o.outcome = "SELECTED" /\ card # "many" /\ k = 1 -> ""
       [] o.outcome = "SELECTED" /\ card = "optional" /\ k = 0 -> "ABSTAINED"
       [] o.outcome = "SELECTED" /\ card \in {"one", "per_instance"} /\ k = 0
            -> "empty_selection"
       [] OTHER -> "many_selected"

\* the instance a proposal claims: the one it was offered for, or the one the
\* observation names, anchored on the candidate itself
TentativeKey(o, set, c) ==
  IF o.id = NoId \/ (set.hint # NoKey /\ set.hint.id = o.id) THEN set.hint
  ELSE Key(o.id, 0, {SpanOf[c]})

-----------------------------------------------------------------------------
(* Layer 2 *)

\* _validation_annotation: only a "many" field's list is unwrapped
Coerced(f, x) ==
  IF f \in ListFields /\ Fields[f].card # "many" THEN Refused ELSE Coerce[f][x]

\* a manual validator that answers None leaves the value; the schema's
\* answer is taken whatever it is
Checked(backed, x, validator) ==
  IF x = Refused THEN Refused
  ELSE IF validator[x] = None /\ ~backed THEN x
  ELSE validator[x]

Unbound(backed, f) == f \notin (IF backed THEN SchemaFields ELSE BoundFields)

Normalized(backed, f, x) ==
  FoldLeft(LAMBDA value, validator : Checked(backed, value, validator),
           IF backed THEN Coerced(f, x) ELSE Normalize[f][x],
           Validators[f])

-----------------------------------------------------------------------------
(* Layer 3. An object validator sees one value of every field: of several, *)
(* the last one.                                                           *)

ViewOf(evidence) ==
  LET last(f) == CHOOSE i \in DOMAIN evidence :
                   /\ FieldOf[evidence[i].cand] = f
                   /\ \A j \in DOMAIN evidence :
                        FieldOf[evidence[j].cand] = f => j <= i
  IN [f \in {FieldOf[evidence[i].cand] : i \in DOMAIN evidence} |->
        evidence[last(f)].value]

\* an issue that implicates nobody implicates the validator's fields
Defaulted(k, issue) ==
  IF issue.implicates # {} THEN issue
  ELSE [issue EXCEPT !.implicates = Implicates[k]]

BlockingIssues(view) ==
  {issue \in UNION {{Defaulted(k, x) : x \in IssuesOf(k, view)} : k \in 1..NumObject} :
     issue.severity = "error"}

\* the first after-validator that refuses answers alone; manual specs have no
\* object validators
InstanceFailure(backed, instance) ==
  LET view  == ViewOf(instance.evidence)
      after == {k \in 1..NumAfter : AfterRejects(k, view)}
  IN IF ~backed \/ (after = {} /\ BlockingIssues(view) = {}) THEN {}
     ELSE {[code |-> "instance_failure", field |-> 0, hint |-> instance.key,
            implicates |-> IF after # {} THEN {}
                           ELSE UNION {x.implicates : x \in BlockingIssues(view)}]}

Judged(backed, instance) ==
  LET failure == InstanceFailure(backed, instance)
  IN [instance EXCEPT !.outcome   = IF failure = {} THEN @ ELSE "partial",
                      !.negatives = @ \cup failure]
=============================================================================
