------------------------- MODULE MCDocumentWindows -------------------------
(***************************************************************************)
(* Texts of up to six characters, each plain or escaped (four characters   *)
(* in the prompt), in a prompt of three characters otherwise.              *)
(***************************************************************************)
EXTENDS DocumentWindows, SequencesExt

Base == 3

Texts == UNION {[1..n -> {1, 4}] : n \in {0, 1, 3, 5, 6}}

Size(t, a, b) == IF a < b THEN Base + FoldSeq(+, 0, SubSeq(t, a + 1, b)) ELSE Base

\* six leaves room for one character after the slack, nine for four
MCInputs ==
  {in \in {[len |-> Len(t), max |-> m, overlap |-> o, one |-> Base + 1,
            estimate |-> [p \in (0..Len(t)) \X (0..Len(t)) |-> Size(t, p[1], p[2])]] :
             t \in Texts, m \in {2, 5, 6, 7, 8, 9, 10}, o \in {0, 1, 2, 5}} :
     in.estimate[<<0, in.len>>] > in.max}
=============================================================================
