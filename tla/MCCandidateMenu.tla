-------------------------- MODULE MCCandidateMenu --------------------------
(***************************************************************************)
(* Documents of up to four bytes, with characters of one and two bytes; a  *)
(* reference is two or three characters long in the source, a tag one.     *)
(* The windows of a field's bindings differ.                               *)
(***************************************************************************)
EXTENDS CandidateMenu

MCDocuments ==
  {<<>>, <<Data(<<1, 1, 1, 1>>)>>, <<Data(<<2, 1>>)>>,
   <<Data(<<1>>), Ref(<<1, 1>>, <<1>>), Data(<<1>>)>>,
   <<Data(<<1>>), Tag(<<1>>), Data(<<1>>)>>,
   <<Ref(<<1, 1, 1>>, <<2>>)>>,
   <<Data(<<1>>), Ref(<<1, 1, 1>>, <<1, 1>>)>>}

MCLiterals == <<"x">>

Regex(window) == [name |-> "regex", window |-> window]
Ner(window) == [name |-> "ner", window |-> window]
LiteralSet == [name |-> "literal_set", window |-> 0]   \* it has none

MCBindings ==
  {<<Regex(0)>>, <<Regex(1)>>, <<Ner(0)>>, <<Ner(1)>>, <<LiteralSet>>,
   <<Regex(0), Ner(1)>>, <<Regex(1), Ner(0)>>,
   <<Regex(0), Regex(1)>>, <<Regex(1), Regex(0)>>,
   <<LiteralSet, Regex(0)>>, <<LiteralSet, Regex(1)>>}

\* values and three patterns, whose matches may share text
MCManyPatterns == {<<LiteralSet, Regex(0), Regex(0), Regex(0)>>}

Near(op) == [op |-> op, label |-> "any"]
MCFilters ==
  {{{[expr |-> Near("contained_by"), negated |-> TRUE]}},
   {{[expr |-> [op |-> "label_in", labels |-> {"A"}], negated |-> FALSE]},
    {[expr |-> [op |-> "label_not_in", labels |-> {"A"}], negated |-> FALSE],
     [expr |-> Near("contains"), negated |-> FALSE]}}}
=============================================================================
