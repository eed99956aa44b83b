--------------------------- MODULE SelectorAnswers ---------------------------
(***************************************************************************)
(* From what a language model answers to the observations that cross       *)
(* seam D (extras/pydantic_ai/selector.py, selection/selector.py).         *)
(*                                                                         *)
(* A menu [field, card, ids] is what one call shows of a field: the        *)
(* candidates offered, in order.  The model sees none of their ids but     *)
(* local ones, <<field, position>>, which mean something in that call      *)
(* only.  A reply is a sequence of records [field, instance, evidence,     *)
(* selected, abstain].  What a step comes to is a record [why, value]: why *)
(* is "none", or the error the code raises.                                *)
(***************************************************************************)
EXTENDS Naturals, Sequences, SequencesExt, FiniteSets, Ordered

CONSTANTS NoId,        \* no evidence id
          UnknownField \* a field the call does not show, and the spec does not have

ASSUME NoIdAssumption == NoId \notin Nat /\ NoId \notin STRING \X Nat

Instance0 == "inst_0"

Fine(value) == [why |-> "none", value |-> value]
Raised(why) == [why |-> why, value |-> <<>>]

MenuOf(menus, field) == CHOOSE m \in Range(menus) : m.field = field
Shown(menus, field) == \E m \in Range(menus) : m.field = field

(* ------------------------------ the reply ----------------------------- *)
\* no valid SelectorObservationResponse
Malformed(r) == r.abstain /\ (r.evidence # NoId \/ r.selected # <<>>)

\* (mutant) an evidence id alone selects nothing
CompletedBarely(r) == r

\* (mutant) the evidence id is believed before the selected ones
CompletedByEvidence(r) ==
  IF ~r.abstain /\ r.evidence # NoId THEN [r EXCEPT !.selected = <<r.evidence>>] ELSE r

\* a valid one completes itself
Completed(r) ==
  IF r.abstain THEN r
  ELSE IF r.evidence # NoId /\ r.selected = <<>>
       THEN [r EXCEPT !.selected = <<r.evidence>>]
  ELSE IF r.evidence = NoId /\ Len(r.selected) = 1
       THEN [r EXCEPT !.evidence = r.selected[1]]
  ELSE r

Known(menu, id) == id[1] = menu.field /\ id[2] \in DOMAIN menu.ids

Untranslatable(menus, r) ==
  /\ ~r.abstain
  /\ Shown(menus, r.field)
  /\ \E id \in Range(r.selected) \cup ({r.evidence} \ {NoId}) :
       ~Known(MenuOf(menus, r.field), id)

Means(menu, id) == menu.ids[id[2]]

\* _translate_batch_prompt_response_ids: local ids become candidate ids
Translated(menus, r) ==
  IF r.abstain \/ ~Shown(menus, r.field) THEN r
  ELSE LET menu == MenuOf(menus, r.field)
       IN [r EXCEPT !.evidence = IF @ = NoId THEN NoId ELSE Means(menu, @),
                    !.selected = [i \in DOMAIN @ |-> Means(menu, @[i])]]

Key(r) == <<r.field, r.instance>>

Dedupe(s) == Picked(s, {i \in DOMAIN s : \A j \in 1..(i - 1) : s[j] # s[i]})

\* the places of the answers under one key
Under(key, rs) == {i \in DOMAIN rs : Key(rs[i]) = key}

IsMixed(key, rs) == \E i, j \in Under(key, rs) : rs[i].abstain # rs[j].abstain

\* (mutant) the last of the repeated answers counts
MergedToLast(items) == Last(items)

\* repeated answers for a MANY field
Merged(items) ==
  LET ids == Dedupe(FlattenSeq([i \in DOMAIN items |-> items[i].selected]))
  IN [items[1] EXCEPT !.selected = ids, !.evidence = IF ids = <<>> THEN NoId ELSE ids[1]]

Repeated(menus, rs) ==
  {key \in {Key(rs[i]) : i \in DOMAIN rs} :
     /\ MenuOf(menus, key[1]).card = "MANY"
     /\ \E i, j \in Under(key, rs) : i # j}

\* _coalesce_many_cardinality_batch_response: one answer for each field and
\* instance, if the field is MANY
Coalesced(menus, rs) ==
  LET keys == Dedupe([i \in DOMAIN rs |-> Key(rs[i])])
      Items(k) == Picked(rs, Under(keys[k], rs))
  IN FlattenSeq([k \in DOMAIN keys |-> IF keys[k] \in Repeated(menus, rs)
                                       THEN <<Merged(Items(k))>> ELSE Items(k)])

(* --------------------------- the observation -------------------------- *)
Observation(r, outcome, evidence) ==
  [field |-> r.field, instance |-> r.instance, outcome |-> outcome,
   selected |-> r.selected, evidence |-> evidence]

Stray(r) == r.evidence # NoId /\ r.evidence \notin Range(r.selected) /\ Len(r.selected) # 1

\* _response_to_observation: why it raises, or "none"
Objection(card, r) ==
  IF r.abstain THEN "none"
  ELSE IF r.selected = <<>> /\ card # "MANY" THEN "output_malformed"
  ELSE IF Stray(r) THEN "contract"
  ELSE "none"

\* an evidence id beside the sole selected one gives way to it
Observed(r) ==
  IF r.abstain THEN Observation(r, "ABSTAINED", NoId)
  ELSE Observation(r, "SELECTED", IF Len(r.selected) = 1 THEN r.selected[1] ELSE r.evidence)

Of(menu, observations) ==
  Picked(observations, {i \in DOMAIN observations : observations[i].field = menu.field})

\* enforce_batch_observation_contract
Breach(menus, observations) ==
  \/ \E i \in DOMAIN observations :
       \/ ~Shown(menus, observations[i].field)
       \/ ~(Range(observations[i].selected) \subseteq
               Range(MenuOf(menus, observations[i].field).ids))
  \/ \E i, j \in DOMAIN observations : i # j /\ Key(observations[i]) = Key(observations[j])
  \/ \E m \in Range(menus) : Of(m, observations) = <<>>

\* every field once, in order; of several answers under different instance ids
\* the last is kept
Enforced(menus, observations) ==
  [i \in DOMAIN menus |-> Last(Of(menus[i], observations))]

(* ------------------------------ the calls ----------------------------- *)
FirstObjection(menus, rs) ==
  LET Why(i) == Objection(MenuOf(menus, rs[i].field).card, rs[i])
      raising == {i \in DOMAIN rs : Why(i) # "none"}
  IN IF raising = {} THEN "none" ELSE Why(Min(raising))

\* _observations_from_batch_response, rs being translated
FromBatch(menus, rs) ==
  IF \E i \in DOMAIN rs : rs[i].field = UnknownField THEN Raised("contract")
  ELSE IF \E key \in Repeated(menus, rs) : IsMixed(key, rs)
  THEN Raised("contract")
  ELSE LET merged == Coalesced(menus, rs)
           observations == [i \in DOMAIN merged |-> Observed(merged[i])]
           why == FirstObjection(menus, merged)
       IN IF why # "none" THEN Raised(why)
          ELSE IF Breach(menus, observations) THEN Raised("contract")
          ELSE Fine(Enforced(menus, observations))

\* select_many, and observations_from_soft_call_response for a recorded reply
SelectMany(menus, reply) ==
  LET completed == [i \in DOMAIN reply |-> Completed(reply[i])]
  IN IF \E i \in DOMAIN reply : Malformed(reply[i]) THEN Raised("output_malformed")
     ELSE IF \E i \in DOMAIN reply : Untranslatable(menus, completed[i]) THEN Raised("contract")
     ELSE FromBatch(menus, [i \in DOMAIN reply |-> Translated(menus, completed[i])])

\* PydanticAISelector.select: one field, one instance, one answer
SelectSingle(menu, instance, reply) ==
  LET r == Completed(reply)
      translated == Translated(<<menu>>, r)
  IN IF menu.ids = <<>>
     THEN Fine(<<[field |-> menu.field, instance |-> instance, outcome |-> "NO_CANDIDATES",
                  selected |-> <<>>, evidence |-> NoId]>>)
     ELSE IF Malformed(reply) THEN Raised("output_malformed")
     ELSE IF Untranslatable(<<menu>>, r) \/ r.field # menu.field \/ r.instance # instance
     THEN Raised("contract")
     ELSE IF Objection(menu.card, translated) # "none"
     THEN Raised(Objection(menu.card, translated))
     ELSE Fine(<<Observed(translated)>>)
=============================================================================
