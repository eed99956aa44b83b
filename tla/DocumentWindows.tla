--------------------------- MODULE DocumentWindows ---------------------------
(***************************************************************************)
(* How a document too long for the prompt budget is cut into overlapping   *)
(* windows, one loop iteration at a time.                                  *)
(*                                                                         *)
(*   execution/strategies/independent.py  _plan_document_windows           *)
(*                                        _document_windows_for_text       *)
(*                                                                         *)
(* What the prompt estimator says of a stretch of text is part of the      *)
(* input: rendering escapes characters, so that equally long windows may   *)
(* be of any different sizes.                                              *)
(***************************************************************************)
EXTENDS Integers, Sequences

CONSTANTS
  Slack,        \* room left for estimator drift, 256 in the code
  Inputs        \* the inputs to start from

\* estimate[<<a, b>>] is the prompt with text[a:b] for the document, one the
\* prompt with the text "x", overlap the policy's document_window_overlap_chars
WellFormed(in) ==
  /\ in.len \in Nat /\ in.max \in Nat /\ in.overlap \in Nat /\ in.one \in Nat
  /\ in.estimate \in [(0..in.len) \X (0..in.len) -> Nat]

\* only what does not fit whole is cut; no text makes no longer prompt than "x"
ASSUME WindowAssumption ==
  /\ Slack \in Nat
  /\ \A in \in Inputs :
       /\ WellFormed(in)
       /\ in.estimate[<<0, in.len>>] > in.max
       /\ in.estimate[<<0, 0>>] <= in.one

-----------------------------------------------------------------------------
VARIABLES
  pc,           \* the loop that runs
  input,        \* what the planner was called with
  budget,       \* budgeted_text_chars
  overlap,      \* overlap
  start,        \* where _document_windows_for_text cuts next
  windows,      \* the windows it has cut
  measured      \* how many of them have been estimated

vars == <<pc, input, budget, overlap, start, windows, measured>>

Lesser(a, b) == IF a <= b THEN a ELSE b
Greater(a, b) == IF a >= b THEN a ELSE b

\* what the budget leaves for the text
Room == input.max - input.one + 1 - Slack

\* the windows are cut (again) for the budget
CutFor(b, o) ==
  /\ budget' = b
  /\ overlap' = Lesser(o, b - 1)
  /\ start' = 0
  /\ windows' = <<>>
  /\ measured' = 0
  /\ pc' = "cut"

Begin ==
  /\ pc = "begin"
  /\ IF Room > 0
     THEN CutFor(Room, input.overlap)
     ELSE /\ pc' = "refused"
          /\ UNCHANGED <<budget, overlap, start, windows, measured>>
  /\ UNCHANGED input

NextStart(end) == Greater(end - overlap, start + 1)

\* mutant: the text that is left over is taken to be in the overlap
IsLastNear(end) == end + overlap >= input.len

IsLast(end) == end >= input.len

Cut ==
  /\ pc = "cut"
  /\ start < input.len
  /\ LET end == Lesser(input.len, start + budget)
     IN  /\ windows' = Append(windows, [start |-> start, end |-> end])
         /\ IF IsLast(end)
            THEN pc' = "measure" /\ UNCHANGED start
            ELSE start' = NextStart(end) /\ UNCHANGED pc
  /\ UNCHANGED <<input, budget, overlap, measured>>

Estimate(w) == input.estimate[<<w.start, w.end>>]

Fits(w) == Estimate(w) <= input.max

Measuring == pc = "measure" /\ measured < Len(windows)

Measure ==
  /\ Measuring
  /\ Fits(windows[measured + 1])
  /\ measured' = measured + 1
  /\ UNCHANGED <<pc, input, budget, overlap, start, windows>>

\* mutant: windows of one character are halved again
HalfRoundedUp == (budget + 1) \div 2

Half == budget \div 2

\* mutant: the halved windows do not overlap
HalveApart ==
  /\ Measuring
  /\ ~Fits(windows[measured + 1])
  /\ Half > 0
  /\ CutFor(Half, 0)
  /\ UNCHANGED input

\* a window is oversized: all is cut again, half as long
Halve ==
  /\ Measuring
  /\ ~Fits(windows[measured + 1])
  /\ Half > 0
  /\ CutFor(Half, overlap)
  /\ UNCHANGED input

\* "selector_prompt_document_window_budget_exceeded"
Refuse ==
  /\ Measuring
  /\ ~Fits(windows[measured + 1])
  /\ Half = 0
  /\ pc' = "refused"
  /\ UNCHANGED <<input, budget, overlap, start, windows, measured>>

Finish ==
  /\ pc = "measure" /\ measured = Len(windows)
  /\ pc' = "done"
  /\ UNCHANGED <<input, budget, overlap, start, windows, measured>>

Ended ==
  /\ pc \in {"done", "refused"}
  /\ UNCHANGED vars

Init ==
  /\ pc = "begin"
  /\ input \in Inputs
  /\ budget = 0 /\ overlap = 0
  /\ start = 0 /\ windows = <<>> /\ measured = 0

Next == Begin \/ Cut \/ Measure \/ Halve \/ Refuse \/ Finish \/ Ended

\* a loop that can go on does
Spec == Init /\ [][Next]_vars /\ WF_vars(Next)

-----------------------------------------------------------------------------
(* Properties                                                              *)

\* The type of every variable; a window is a stretch of the text.
TypeOK ==
  /\ pc \in {"begin", "cut", "measure", "done", "refused"}
  /\ WellFormed(input)
  /\ budget \in Nat /\ overlap \in Nat /\ start \in 0..input.len
  /\ windows \in Seq([start : 0..input.len, end : 0..input.len])
  /\ measured \in 0..Len(windows)

\* Every window of a plan fits, and together they are the text: the first
\* starts at its start and the last ends at its end, and each starts no later
\* than the one before ends, which it leaves behind at both ends.
TextIsCovered ==
  pc = "done" =>
    /\ windows # <<>>
    /\ windows[1].start = 0 /\ windows[Len(windows)].end = input.len
    /\ \A k \in 1..Len(windows) :
         Fits(windows[k]) /\ windows[k].start < windows[k].end
    /\ \A k \in 1..(Len(windows) - 1) :
         /\ windows[k].start < windows[k + 1].start
         /\ windows[k + 1].start <= windows[k].end
         /\ windows[k].end < windows[k + 1].end

\* the overlap the policy asks for, as far as windows of this size have room
PolicyOverlap == Lesser(input.overlap, budget - 1)

\* text[a:b] is whole in some window
Whole(a, b) == \E k \in 1..Len(windows) :
                 windows[k].start <= a /\ b <= windows[k].end

\* What the overlap is for: a stretch of text of up to one character more than
\* the policy's overlap is never cut in two, however often windows were halved.
PhrasesSurvive ==
  pc = "done" =>
    \A a \in 0..(input.len - 1) : \A b \in (a + 1)..input.len :
      b - a <= PolicyOverlap + 1 => Whole(a, b)

\* A document is refused only when the prompt has no room for text at all or a
\* single character of it does not fit.
RefusedForCause ==
  pc = "refused" =>
    \/ Room <= 0
    \/ \E a \in 0..(input.len - 1) : input.estimate[<<a, a + 1>>] > input.max

\* Cutting and halving end.
Terminates == <>(pc \in {"done", "refused"})
=============================================================================
