--------------------------- MODULE MCSelectorCalls ---------------------------
(***************************************************************************)
(* Plans of every kind.  Six candidates of which a shard holds two take    *)
(* two rounds of shards and a last call; heavy candidates make a round     *)
(* that cannot go on, and light ones a call that holds more than a shard.  *)
(***************************************************************************)
EXTENDS SelectorCalls

Field(name, card, size) == [name |-> name, card |-> card, size |-> size]
F(card, size) == Field("f", card, size)

Plan(kind, fields) ==
  [kind |-> kind, fields |-> fields, windows |-> 2, strategy |-> "union", priority |-> <<>>,
   base |-> 1, context |-> 0, weights |-> <<2, 2, 2, 2, 2, 2>>, budget |-> 6,
   wants |-> <<>>, picks |-> <<>>, steady |-> TRUE]

Picks == {<<>>, <<1, 2, 3, 4, 5, 6>>, <<4, 1, 6, 3, 5, 2>>}
Wants(n) == {"f" :> s : s \in SUBSET (1..n)}

Sharded ==
  {[Plan("shards", <<F(card, 6)>>) EXCEPT !.wants = w, !.picks = p, !.weights = ws] :
     card \in {"ONE", "MANY"}, w \in Wants(6), p \in Picks,
     ws \in {<<2, 2, 2, 2, 2, 2>>, <<2, 2, 3, 2, 2, 3>>, <<1, 1, 1, 2, 2, 2>>}}

Fickle ==
  {[Plan("shards", <<F(card, 5)>>) EXCEPT !.steady = FALSE, !.budget = b] :
     card \in {"ONE", "MANY"}, b \in {6, 8}}

InContext ==
  {[Plan("shards", <<F("ONE", 6)>>) EXCEPT !.wants = w, !.picks = p, !.context = 1, !.budget = 7] :
     w \in Wants(6), p \in Picks}

Windowed ==
  {[Plan("windows", <<F(x[1], 3)>>) EXCEPT !.strategy = x[2], !.wants = <<v, w>>, !.picks = p,
                                           !.priority = <<3, 1>>] :
     x \in {<<"MANY", "union">>, <<"ONE", "priority">>, <<"ONE", "union">>},
     v \in SUBSET (1..3), w \in SUBSET (1..3), p \in Picks}

Packed ==
  {[Plan("packed", <<Field("f", x[1], 2), Field("g", x[2], 2)>>) EXCEPT
       !.wants = ("f" :> v) @@ ("g" :> w), !.picks = p] :
     x \in {<<"ONE", "MANY">>, <<"MANY", "ONE">>}, v \in SUBSET (1..2), w \in SUBSET (1..2),
     p \in Picks}

Alone ==
  {[Plan("single", <<F(card, n)>>) EXCEPT !.wants = w, !.picks = p] :
     card \in {"ONE", "MANY"}, n \in {0, 2}, w \in Wants(2), p \in Picks}

MCInputs == Sharded \cup Fickle \cup InContext \cup Windowed \cup Packed \cup Alone
=============================================================================
