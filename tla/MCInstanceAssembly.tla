------------------------- MODULE MCInstanceAssembly -------------------------
(***************************************************************************)
(* Four fields over a document of two lines. The name is the boundary of   *)
(* an instance and occurs on both lines; the total is a field of the       *)
(* document; the notes may be many, and the first of them runs over the    *)
(* line end, so that it touches the anchors of both lines, and the second  *)
(* is the empty point at the document head that a literal value stands on. *)
(***************************************************************************)
EXTENDS InstanceAssembly

MCFields == <<[role |-> "boundary_defining", card |-> "per_instance", priority |-> 1],
              [role |-> "boundary_consuming", card |-> "one", priority |-> 0],
              [role |-> "neutral", card |-> "per_instance", priority |-> 0],
              [role |-> "neutral", card |-> "many", priority |-> 0]>>

CONSTANTS n1, n2, t1, t2, m1, w1
MCCand == {n1, n2, t1, t2, m1, w1}
MCFieldOf == [c \in MCCand |-> CASE c \in {n1, n2} -> 1
                                 [] c \in {t1, t2} -> 2
                                 [] c = m1 -> 3
                                 [] c = w1 -> 4]

MCWhole == <<"document", "source_bytes">>
Bytes(a, b) == [frame |-> MCWhole, from |-> a, to |-> b]
\* bytes 0..9 are the first line, 10..19 the second
MCSpanOf == [c \in MCCand |-> CASE c = n1 -> Bytes(0, 2)
                                [] c = n2 -> Bytes(10, 12)
                                [] c = t1 -> Bytes(4, 6)
                                [] c = t2 -> Bytes(14, 15)
                                [] c = m1 -> Bytes(7, 11)
                                [] c = w1 -> [frame |-> <<"document", "normalized_text">>,
                                              from |-> 0, to |-> 0]]
MCNewlines == {9}

\* the values a text is taken for: itself, a normal form, or nothing
CONSTANTS raw, odd, norm, MCRefused, MCNone
MCTextOf == [c \in MCCand |-> IF c = t2 THEN odd ELSE raw]
Identity == [x \in {raw, odd, norm, MCNone} |-> x]
MCCoerce == [f \in 1..4 |-> Identity]
MCNormalize == [f \in 1..4 |-> [x \in {raw, odd, norm, MCNone} |->
                               IF x = raw THEN norm ELSE x]]
Refusing(y) == [x \in {raw, odd, norm, MCNone} |-> IF x = y THEN MCRefused ELSE x]
Silent == [x \in {raw, odd, norm, MCNone} |-> MCNone]
MCValidators == <<<<Silent>>, <<Refusing(MCNone)>>, <<>>, <<Refusing(odd)>>>>

\* an instance needs its total; a note without a name is worth a warning
MCAfterRejects(k, view) == 1 \in DOMAIN view /\ 2 \notin DOMAIN view
MCIssuesOf(k, view) ==
  IF 3 \in DOMAIN view
  THEN {[severity |-> IF 1 \in DOMAIN view THEN "warning" ELSE "error", implicates |-> {}]}
  ELSE {}
MCImplicates == <<{1}>>
=============================================================================
