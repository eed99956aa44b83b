---------------------------- MODULE SelectorCalls ----------------------------
(***************************************************************************)
(* The execution of one selector plan (execution/strategies/               *)
(* independent.py: _select_budgeted_batches and what it calls): a packed   *)
(* call, a document read in windows, or a field whose candidates go out in *)
(* shards, whose winners are selected from again until one call can hold   *)
(* them.  An action is one selector call or one branch of the reduction.   *)
(*                                                                         *)
(* Candidates are numbers in source order.  The language model decides     *)
(* what it wants of a menu and then puts that into words; the words may be *)
(* clumsy or wrong.                                                        *)
(***************************************************************************)
EXTENDS SelectorAnswers

CONSTANT Inputs

(* An input is a record
     kind        "single", "packed", "windows" or "shards"
     fields      the plan's fields, [name, card, size], only one unless packed
     windows     for windows: how many
     strategy    for windows: "union" or "priority"
     priority    for windows: the candidates by the policy's priority, not
                 necessarily all
     base        characters of a prompt without candidates
     context     characters of the field's classification context
     weights     characters of every candidate
     budget      max_prompt_chars
     wants       what the model wants: in call i of a windowed plan wants[i],
                 else wants[field]
     picks       which of several wanted candidates it prefers, if it picks one
     steady      whether it always wants the same *)

Cards == {"ONE", "OPTIONAL", "PER_INSTANCE", "MANY"}
Kinds == {"single", "packed", "windows", "shards"}
FieldSpecs == [name : STRING \ {UnknownField}, card : Cards, size : Nat]

\* a field without candidates is settled before a call is planned, and is only
\* met here as a single selector's
InputsAreSound(inp) ==
  /\ inp.kind \in Kinds
  /\ inp.fields \in Seq(FieldSpecs) \ {<<>>}
  /\ inp.kind # "packed" => Len(inp.fields) = 1
  /\ inp.kind # "single" => \A i \in DOMAIN inp.fields : inp.fields[i].size > 0
  /\ \A i, j \in DOMAIN inp.fields : i # j => inp.fields[i].name # inp.fields[j].name
  /\ inp.windows \in Nat \ {0}
  /\ inp.strategy \in {"union", "priority"}
  /\ inp.priority \in Seq(Nat)
  /\ inp.base \in Nat /\ inp.context \in Nat /\ inp.budget \in Nat
  /\ inp.weights \in Seq(Nat)
  /\ inp.picks \in Seq(Nat)
  /\ \A c, d \in DOMAIN inp.picks : c # d => inp.picks[c] # inp.picks[d]
  /\ inp.picks # <<>> => \A i \in DOMAIN inp.fields : inp.fields[i].size <= Len(inp.picks)
  /\ inp.steady \in BOOLEAN

ASSUME InputsAssumption == \A inp \in Inputs : InputsAreSound(inp)

VARIABLES input,   \* the plan and the model
          pc,
          offered, \* the field's candidates of this round, in source order
          todo,    \* the menus of the calls this round still has to make
          heard,   \* the observations of this round
          calls,   \* history: of every call, what the round and the call offered
                   \* and what the model wished for, of the first field if it is
                   \* a packed one
          slipped, \* history: whether the model got something wrong
          result   \* the plan's observations

vars == <<input, pc, offered, todo, heard, calls, slipped, result>>

Field1 == input.fields[1]
Menu(field, ids) == [field |-> field.name, card |-> field.card, ids |-> ids]
AllOf(field) == [i \in 1..field.size |-> i]

(* ------------------------------ planning ------------------------------ *)
\* the characters of the candidates of a prompt
Weight(cands) ==
  LET sum[c \in 0..Len(input.weights)] ==
        IF c = 0 THEN 0 ELSE sum[c - 1] + (IF c \in cands THEN input.weights[c] ELSE 0)
  IN sum[Len(input.weights)]

Cost(ids, context) == input.base + context + Weight(Range(ids))

\* the estimates of its candidates added up, each of a prompt of its own
Estimate(ids, context) ==
  LET sum[i \in 0..Len(ids)] == IF i = 0 THEN 0 ELSE sum[i - 1] + Cost(<<ids[i]>>, context)
  IN sum[Len(ids)]

Joins(shard, id, context) ==
  Estimate(shard, context) + Cost(<<id>>, context) <= input.budget

\* (mutant) what does not fit behind two candidates is dropped
PlacedOrDropped(shards, id, context) ==
  IF shards = <<>> THEN <<<<id>>>>
  ELSE IF Joins(Last(shards), id, context)
       THEN Append(Front(shards), Append(Last(shards), id))
  ELSE IF Len(Last(shards)) > 1 THEN shards
  ELSE Append(shards, <<id>>)

Placed(shards, id, context) ==
  IF shards # <<>> /\ Joins(Last(shards), id, context)
  THEN Append(Front(shards), Append(Last(shards), id))
  ELSE Append(shards, <<id>>)

\* plan_candidate_shards, whose loop is SelectorPlanner's
Shards(ids, context) ==
  LET cut[i \in 0..Len(ids)] == IF i = 0 THEN <<>> ELSE Placed(cut[i - 1], ids[i], context)
  IN cut[Len(ids)]

(* ------------------------------ the model ----------------------------- *)
\* what it would have of these candidates in call i
Wanted(i, field, ids) ==
  LET liked == Range(ids) \cap input.wants[IF input.kind = "windows" THEN i ELSE field.name]
  IN IF field.card = "MANY" \/ input.picks = <<>> \/ liked = {} THEN liked
     ELSE {c \in liked : \A d \in liked : input.picks[c] <= input.picks[d]}

Wishes(i, field, ids) ==
  IF input.steady THEN {Wanted(i, field, ids)}
  ELSE {s \in SUBSET Range(ids) : field.card = "MANY" \/ Cardinality(s) <= 1}

\* its positions in a menu
Local(menu, wish) ==
  Picked([i \in DOMAIN menu.ids |-> <<menu.field, i>>], {i \in DOMAIN menu.ids : menu.ids[i] \in wish})

Reply(menu, evidence, selected) ==
  [field |-> menu.field, instance |-> Instance0, evidence |-> evidence,
   selected |-> selected, abstain |-> FALSE]
Abstain(menu) == [Reply(menu, NoId, <<>>) EXCEPT !.abstain = TRUE]

\* ways to say it: complete, with the parts that can be left out left out, and
\* a MANY answer in pieces
Phrasings(menu, wish) ==
  LET ids == Local(menu, wish)
  IN IF ids = <<>>
     THEN {<<Abstain(menu)>>} \cup
          IF menu.card = "MANY" THEN {<<Reply(menu, NoId, <<>>)>>} ELSE {}
     ELSE {<<Reply(menu, ids[1], ids)>>, <<Reply(menu, NoId, ids)>>} \cup
          (IF Len(ids) = 1 THEN {<<Reply(menu, ids[1], <<>>)>>} ELSE {}) \cup
          (IF menu.card = "MANY"
           THEN {[i \in DOMAIN ids |-> Reply(menu, NoId, <<ids[i]>>)]} ELSE {})

\* ways to get it wrong
Slips(menu, wish) ==
  LET ids == Local(menu, wish)
      beyond == <<menu.field, Len(menu.ids) + 1>>
      other == <<menu.field, 1>>
  IN (IF ids = <<>> THEN {} ELSE {<<Reply(menu, other, ids)>>}) \cup
     {<<>>, <<[Abstain(menu) EXCEPT !.selected = <<other>>]>>,
      <<Reply(menu, NoId, <<beyond>>)>>,
      <<Reply(menu, NoId, ids), [Reply(menu, NoId, ids) EXCEPT !.field = UnknownField]>>,
      <<Reply(menu, NoId, ids), Reply(menu, NoId, ids)>>,
      <<Reply(menu, NoId, ids), Abstain(menu)>>,
      <<[Reply(menu, NoId, ids) EXCEPT !.instance = "inst_1"]>>}

(* ------------------------------- actions ------------------------------ *)
Single(field, ids) == <<Menu(field, ids)>>

\* a field is put into shards because one call cannot hold it
TooLong == Cost(AllOf(Field1), input.context) > input.budget

Init ==
  /\ input \in Inputs
  /\ input.kind = "shards" => TooLong
  /\ pc = "calling"
  /\ offered = AllOf(input.fields[1])
  /\ todo = LET f == input.fields[1]
            IN CASE input.kind \in {"single", "packed"} ->
                      <<[i \in DOMAIN input.fields |-> Menu(input.fields[i], AllOf(input.fields[i]))]>>
                 [] input.kind = "windows" -> [w \in 1..input.windows |-> Single(f, AllOf(f))]
                 [] input.kind = "shards" ->
                      LET shards == Shards(AllOf(f), input.context)
                      IN [s \in DOMAIN shards |-> Single(f, shards[s])]
  /\ heard = <<>>
  /\ calls = {}
  /\ slipped = FALSE
  /\ result = <<>>

Failed(why) ==
  /\ pc' = why
  /\ UNCHANGED <<input, offered, todo, heard, calls, result>>

Refused(why) == Failed(why) /\ UNCHANGED slipped

Finished(observations) ==
  /\ pc' = "done"
  /\ result' = observations
  /\ UNCHANGED <<input, offered, todo, heard, calls, slipped>>

Index == Len(heard) + 1

Answered(menus, reply) ==
  IF input.kind = "single" THEN SelectSingle(menus[1], Instance0, Head(reply))
                           ELSE SelectMany(menus, reply)

Told(menus, wishes, reply) ==
  \E got \in {Answered(menus, reply)} :
     IF got.why # "none" THEN Failed(got.why)
     ELSE /\ todo' = Tail(todo)
          /\ heard' = heard \o got.value
          /\ calls' = calls \cup {[offered |-> offered, menu |-> menus[1].ids,
                                 wish |-> wishes[1]]}
          /\ pc' = IF Len(todo) > 1 THEN "calling" ELSE "reducing"
          /\ UNCHANGED <<input, offered, result>>

WishLists(menus) ==
  LET Options(i) == Wishes(Index, input.fields[i], menus[i].ids)
  IN {w \in [DOMAIN menus -> UNION {Options(i) : i \in DOMAIN menus}] :
        \A i \in DOMAIN menus : w[i] \in Options(i)}

\* the plainest reply, with field i put in the words said
Worded(menus, wishes, i, said) ==
  LET Plain(j) == IF wishes[j] = {} THEN <<Abstain(menus[j])>>
                  ELSE <<Reply(menus[j], NoId, Local(menus[j], wishes[j]))>>
  IN FlattenSeq([j \in DOMAIN menus |-> IF j = i THEN said ELSE Plain(j)])

\* a single field's reply is one record and not a list
Sayable(replies) == {r \in replies : input.kind = "single" => Len(r) = 1}

\* one selector call, put well or badly for one of its fields
Call ==
  /\ pc = "calling"
  /\ LET menus == Head(todo)
     IN \E wishes \in WishLists(menus), i \in DOMAIN menus :
          \/ /\ slipped' = slipped
             /\ \E said \in Sayable(Phrasings(menus[i], wishes[i])) :
                  Told(menus, wishes, Worded(menus, wishes, i, said))
          \/ /\ slipped' = TRUE
             /\ \E said \in Sayable(Slips(menus[i], wishes[i])) :
                  Told(menus, wishes, Worded(menus, wishes, i, said))

Selected == UNION {Range(o.selected) : o \in Range(heard)}

\* _selected_candidate_ids_in_source_order
Within(s, cands) == Picked(s, {i \in DOMAIN s : s[i] \in cands})

SelectedInSourceOrder == Within(offered, Selected)

Reduced(outcome, selected) ==
  [field |-> Field1.name, instance |-> Instance0, outcome |-> outcome, selected |-> selected,
   evidence |-> IF selected = <<>> THEN NoId ELSE selected[1]]

\* a packed call's observations are the plan's
KeepPacked ==
  /\ pc = "reducing" /\ input.kind \in {"single", "packed"}
  /\ Finished(heard)

\* a reducer policy that does not fit the field, found out after the calls
WrongStrategy ==
  /\ pc = "reducing" /\ input.kind = "windows"
  /\ (input.strategy = "union") # (Field1.card = "MANY")
  /\ Refused("cardinality_mismatch")

UnionWindows ==
  /\ pc = "reducing" /\ input.kind = "windows" /\ input.strategy = "union"
  /\ Field1.card = "MANY"
  /\ Finished(<<Reduced("SELECTED", SelectedInSourceOrder)>>)

\* _priority_winner_candidate_id
Ranked == Within(input.priority, Selected)

PriorityWindows ==
  /\ pc = "reducing" /\ input.kind = "windows" /\ input.strategy = "priority"
  /\ Field1.card # "MANY"
  /\ IF Selected = {} THEN Finished(<<Reduced("ABSTAINED", <<>>)>>)
     ELSE IF Ranked = <<>> THEN Refused("no_ranked_selection")
     ELSE Finished(<<Reduced("SELECTED", <<Ranked[1]>>)>>)

Reducing == pc = "reducing" /\ input.kind = "shards"

AllAbstained ==
  /\ Reducing
  /\ Selected = {}
  /\ Finished(<<Reduced("ABSTAINED", <<>>)>>)

UnionShards ==
  /\ Reducing
  /\ Selected # {}
  /\ Field1.card = "MANY"
  /\ Finished(<<Reduced("SELECTED", SelectedInSourceOrder)>>)

Winning == Picked(heard, {i \in DOMAIN heard : heard[i].selected # <<>>})

SoleWinner ==
  /\ Reducing
  /\ Field1.card # "MANY"
  /\ Len(Winning) = 1
  /\ Finished(Winning)

Contested == Reducing /\ Field1.card # "MANY" /\ Len(Winning) > 1

\* the next round's calls are over the winners of this one; a single call over
\* all of them is the round of a reducer call, whose answer is final
NextRound(shards) ==
  /\ offered' = SelectedInSourceOrder
  /\ todo' = [s \in DOMAIN shards |-> Single(Field1, shards[s])]
  /\ heard' = <<>>
  /\ pc' = "calling"
  /\ UNCHANGED <<input, calls, slipped, result>>

ReducerCall ==
  /\ Contested
  /\ Cost(SelectedInSourceOrder, input.context) <= input.budget
  /\ NextRound(<<SelectedInSourceOrder>>)

\* (mutant) a round that shrinks nothing is tried again
StuckNever == FALSE

Stuck == Len(SelectedInSourceOrder) >= Len(offered)

NoProgress ==
  /\ Contested
  /\ Cost(SelectedInSourceOrder, input.context) > input.budget
  /\ Stuck
  /\ Refused("no_progress")

\* _select_sharded_winners: the estimator it plans with leaves the
\* classification context out
WinnerShards == Shards(SelectedInSourceOrder, 0)

Hopeless(shards) ==
  \/ \E s \in DOMAIN shards : Len(shards[s]) = 1 /\ Cost(shards[s], 0) > input.budget
  \/ \A s \in DOMAIN shards : Len(shards[s]) = 1

Reshard ==
  /\ Contested
  /\ Cost(SelectedInSourceOrder, input.context) > input.budget
  /\ ~Stuck
  /\ IF Hopeless(WinnerShards) THEN Refused("reducer_budget") ELSE NextRound(WinnerShards)

Next ==
  \/ Call
  \/ KeepPacked \/ WrongStrategy \/ UnionWindows \/ PriorityWindows
  \/ AllAbstained \/ UnionShards \/ SoleWinner
  \/ ReducerCall \/ NoProgress \/ Reshard

\* weak fairness of Next, spelled out: while a call or a reduction is due, some
\* step is taken
Goes == []<>(pc \notin {"calling", "reducing"}) \/ []<><<TRUE>>_vars

Spec == Init /\ [][Next]_vars /\ Goes

(* ----------------------------- properties ----------------------------- *)
Errors == {"contract", "output_malformed", "cardinality_mismatch", "no_ranked_selection",
           "no_progress", "reducer_budget"}

\* what the model would have if it could be shown everything in one call
Ideal(field) ==
  CASE input.kind = "windows" ->
         LET chosen == UNION {Wanted(w, field, AllOf(field)) : w \in 1..input.windows}
         IN IF input.strategy = "union" \/ chosen = {} THEN chosen
            ELSE {input.priority[Min({i \in DOMAIN input.priority : input.priority[i] \in chosen})]}
    [] OTHER -> Wanted(1, field, AllOf(field))

\* Cutting a field into shards, a document into windows or a batch into calls
\* changes nothing: a model that always wants the same gets what it would have
\* got in one call, in whatever words it answers and whatever it gets wrong on
\* the way (_select_sharded_field, _reduce_document_window_observations,
\* _observations_from_batch_response).
SameAsOneCall ==
  (pc = "done" /\ input.steady) =>
    \A i \in DOMAIN result : Range(result[i].selected) = Ideal(input.fields[i])

\* What a sharded field that is not MANY ends with was wanted in every round it
\* took to decide, by a call it was offered in, also if the model changes its
\* mind: no round's answer is taken for another's.
EveryRoundAgreed ==
  (pc = "done" /\ input.kind = "shards" /\ Field1.card # "MANY") =>
    \A c \in Range(result[1].selected), x \in calls :
      \E y \in calls : y.offered = x.offered /\ c \in y.wish \cap Range(y.menu)

\* Before a round is reduced, each candidate of the round was offered in exactly
\* one call of it, and each winner of a round is a candidate of the next.
NoCandidateLeftOut ==
  (pc = "reducing" /\ input.kind = "shards") =>
    LET now == {x \in calls : x.offered = offered}
        before == {x \in calls : Len(x.offered) > Len(offered)}
        last == {x \in before : \A y \in before : Len(x.offered) <= Len(y.offered)}
    IN /\ \A c \in Range(offered) : Cardinality({x \in now : c \in Range(x.menu)}) = 1
       /\ before # {} => Range(offered) = UNION {x.wish : x \in last}

\* A reply in any of the accepted wordings is never refused, and a field whose
\* wanted candidates fit into one call is never given up for its budget.
RefusedForCause ==
  /\ pc \in {"contract", "output_malformed"} => slipped
  /\ (pc \in {"no_progress", "reducer_budget"} /\ input.steady) =>
       Cost(Within(AllOf(Field1), input.wants[Field1.name]), input.context) > input.budget

\* The rounds come to an end, because each has fewer candidates than the last or
\* is given up (selector_prompt_reducer_no_progress).
Terminates == <>(pc \in {"done"} \cup Errors)

=============================================================================
