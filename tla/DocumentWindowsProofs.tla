------------------------ MODULE DocumentWindowsProofs ------------------------
(***************************************************************************)
(* Proofs about DocumentWindows, for texts, estimators, budgets and        *)
(* overlaps of any size.                                                   *)
(***************************************************************************)
EXTENDS DocumentWindows, TLAPS

Window == [start : 0..input.len, end : 0..input.len]

LEMMA InputTypes ==
  ASSUME WellFormed(input)
  PROVE  /\ input.len \in Nat /\ input.max \in Nat /\ input.overlap \in Nat
         /\ input.one \in Nat /\ Room \in Int /\ Slack \in Nat
         /\ \A a, b \in 0..input.len : input.estimate[<<a, b>>] \in Nat
BY WindowAssumption DEF WellFormed, Room

-----------------------------------------------------------------------------
(* The invariant                                                           *)

\* the windows cut so far, one after the other without a gap
Chained ==
  /\ windows # <<>> => windows[1].start = 0
  /\ \A k \in 1..Len(windows) :
       /\ windows[k].start < windows[k].end
       /\ windows[k].end <= windows[k].start + budget
  /\ \A k \in 1..(Len(windows) - 1) :
       /\ windows[k].start < windows[k + 1].start
       /\ windows[k + 1].start <= windows[k].end
       /\ windows[k].end < windows[k + 1].end

\* every phrase that starts before n is whole in a window
SurviveTo(n) ==
  \A a \in 0..(input.len - 1) : \A b \in (a + 1)..input.len :
    a < n /\ b - a <= overlap + 1 => Whole(a, b)

CutInv ==
  /\ input \in Inputs
  /\ pc # "begin" /\ pc # "refused" =>
       /\ budget > 0 /\ overlap = PolicyOverlap
       /\ Chained
  /\ pc = "cut" =>
       /\ measured = 0
       /\ start < input.len /\ SurviveTo(start)
       /\ windows = <<>> => start = 0
       /\ windows # <<>> =>
            /\ windows[Len(windows)].end < input.len
            /\ start = windows[Len(windows)].end - overlap
            /\ windows[Len(windows)].start < start
  /\ pc \in {"measure", "done"} =>
       /\ windows # <<>> /\ windows[Len(windows)].end = input.len
       /\ SurviveTo(input.len)
       /\ \A k \in 1..measured : Fits(windows[k])
  /\ pc = "done" => measured = Len(windows)
  /\ RefusedForCause

-----------------------------------------------------------------------------
(* What a cut does                                                         *)

LEMMA NoTextNoRoom == WellFormed(input) /\ input \in Inputs /\ Room > 0 => input.len > 0
<1> SUFFICES ASSUME WellFormed(input), input \in Inputs, input.len = 0
             PROVE  ~(Room > 0)
  BY InputTypes
<1>1. input.estimate[<<0, 0>>] > input.max /\ input.estimate[<<0, 0>>] <= input.one
  BY WindowAssumption
<1>2. input.estimate[<<0, 0>>] \in Nat
  BY InputTypes
<1> QED
  BY <1>1, <1>2, InputTypes DEF Room

LEMMA CutStarts ==
  ASSUME WellFormed(input), input \in Inputs, UNCHANGED input, input.len > 0,
         NEW b \in Nat, b > 0, NEW o \in Nat, CutFor(b, o),
         Lesser(o, b - 1) = Lesser(input.overlap, b - 1)
  PROVE  TypeOK' /\ CutInv'
<1>1. /\ budget' = b /\ overlap' = Lesser(input.overlap, b - 1) /\ start' = 0
      /\ windows' = <<>> /\ measured' = 0 /\ pc' = "cut"
      /\ overlap' \in Nat
  BY InputTypes DEF CutFor, Lesser
<1>2. TypeOK'
  <2>1. WellFormed(input)'
    BY DEF WellFormed
  <2>2. windows' \in Seq([start : 0..input'.len, end : 0..input'.len])
    BY <1>1
  <2> QED
    BY <1>1, <2>1, <2>2, InputTypes DEF TypeOK
<1>3. Chained' /\ SurviveTo(0)'
  BY <1>1 DEF Chained, SurviveTo
<1>4. overlap' = PolicyOverlap'
  BY <1>1 DEF PolicyOverlap
<1>5. input' \in Inputs /\ 0 < input'.len /\ budget' > 0 /\ SurviveTo(start)'
  BY <1>1, <1>3 DEF SurviveTo
<1>6. CutInv'
  BY <1>1, <1>3, <1>4, <1>5 DEF CutInv, RefusedForCause
<1> QED
  BY <1>2, <1>6

LEMMA OverlapBounds ==
  ASSUME TypeOK, CutInv, pc \in {"cut", "measure"}
  PROVE  /\ budget \in Nat /\ budget > 0 /\ overlap \in 0..(budget - 1)
         /\ overlap = Lesser(input.overlap, budget - 1)
<1>1. input.overlap \in Nat
  BY InputTypes DEF TypeOK
<1> QED
  BY <1>1 DEF TypeOK, CutInv, PolicyOverlap, Lesser

\* one more window: from start, a budget long or to the end of the text
LEMMA WindowAdded ==
  ASSUME TypeOK, CutInv, Cut
  PROVE  LET end == Lesser(input.len, start + budget)
         IN  /\ end \in (start + 1)..input.len
             /\ windows' \in Seq(Window) /\ Len(windows') = Len(windows) + 1
             /\ windows'[Len(windows')] = [start |-> start, end |-> end]
             /\ Chained'
             /\ \A n \in 0..input.len :
                  n <= end - overlap \/ end = input.len => SurviveTo(n)'
<1> DEFINE end == Lesser(input.len, start + budget)
           w == [start |-> start, end |-> end]
           n0 == Len(windows)
<1>1. /\ pc = "cut" /\ start < input.len /\ start \in Nat /\ input.len \in Nat
      /\ budget \in Nat /\ budget > 0 /\ overlap \in 0..(budget - 1)
      /\ windows \in Seq(Window) /\ windows' = Append(windows, w)
      /\ UNCHANGED <<input, budget, overlap>>
  BY OverlapBounds, InputTypes DEF Cut, TypeOK, Window
<1>2. /\ end \in (start + 1)..input.len /\ end <= start + budget
      /\ end < input.len => end = start + budget
  BY <1>1 DEF Lesser
<1>3. w \in Window /\ w.start = start /\ w.end = end
  BY <1>1, <1>2 DEF Window
<1> HIDE DEF end, w
<1>4. /\ n0 \in Nat /\ Len(windows') = n0 + 1 /\ windows'[n0 + 1] = w
      /\ \A k \in 1..n0 : windows'[k] = windows[k]
      /\ windows' \in Seq(Window)
      /\ n0 = 0 <=> windows = <<>>
  BY <1>1, <1>3
<1> HIDE DEF n0
<1>5. Chained
  BY <1>1 DEF CutInv
<1>6. \A k \in 1..n0 : windows[k].start \in Nat /\ windows[k].end \in Nat
  <2> SUFFICES ASSUME NEW k \in 1..n0
               PROVE  windows[k].start \in Nat /\ windows[k].end \in Nat
    OBVIOUS
  <2>1. windows[k] \in Window
    BY <1>1 DEF n0
  <2> QED
    BY <1>1, <2>1, SMTT(30) DEF Window
<1>7. Chained'
  <2>1. windows'[1].start = 0
    <3>1. CASE n0 = 0
      BY <1>1, <1>3, <1>4, <3>1 DEF CutInv
    <3>2. CASE n0 # 0
      BY <1>4, <1>5, <3>2 DEF Chained
    <3> QED
      BY <3>1, <3>2
  <2>2. ASSUME NEW k \in 1..(n0 + 1)
        PROVE  /\ windows'[k].start < windows'[k].end
               /\ windows'[k].end <= windows'[k].start + budget
    <3>1. CASE k = n0 + 1
      BY <1>1, <1>2, <1>3, <1>4, <3>1
    <3>2. CASE k \in 1..n0
      BY <1>4, <1>5, <3>2 DEF Chained, n0
    <3> QED
      BY <1>4, <3>1, <3>2
  <2>3. ASSUME NEW k \in 1..n0
        PROVE  /\ windows'[k].start < windows'[k + 1].start
               /\ windows'[k + 1].start <= windows'[k].end
               /\ windows'[k].end < windows'[k + 1].end
    <3>1. CASE k = n0
      <4>1. /\ windows[n0].end < input.len
            /\ start = windows[n0].end - overlap
            /\ windows[n0].start < start
        BY <1>1, <1>4, <3>1 DEF CutInv, n0
      <4>2. windows[n0].end \in Nat /\ windows[n0].start \in Nat
        BY <1>6, <3>1
      <4>3. windows[n0].end < end
        <5>1. \A e, s, f, l, v, g \in Int :
                /\ e < l /\ s = e - v /\ v < g
                /\ f <= l /\ (f < l => f = s + g)
                => e < f
          OBVIOUS
        <5>2. end \in Int /\ end <= input.len /\ overlap \in Int /\ overlap < budget
          BY <1>1, <1>2
        <5>3. /\ windows[n0].end \in Int /\ start \in Int
              /\ input.len \in Int /\ budget \in Int
          BY <1>1, <4>2
        <5> QED
          BY <1>2, <4>1, <5>1, <5>2, <5>3
      <4> QED
        BY <1>1, <1>3, <1>4, <3>1, <4>1, <4>2, <4>3
    <3>2. CASE k \in 1..(n0 - 1)
      <4>1. k + 1 \in 1..n0
        BY <1>4, <3>2
      <4> QED
        BY <1>4, <1>5, <3>2, <4>1 DEF Chained, n0
    <3> QED
      BY <1>4, <3>1, <3>2
  <2> QED
    BY <1>1, <1>4, <2>1, <2>2, <2>3 DEF Chained
<1>8. ASSUME NEW n \in 0..input.len, n <= end - overlap \/ end = input.len
      PROVE  SurviveTo(n)'
  <2> SUFFICES ASSUME NEW a \in 0..(input.len - 1), NEW b \in (a + 1)..input.len,
                      a < n, b - a <= overlap + 1
               PROVE  Whole(a, b)'
    BY <1>1 DEF SurviveTo
  <2>1. CASE a < start
    <3>1. Whole(a, b)
      BY <1>1, <2>1 DEF CutInv, SurviveTo
    <3>2. PICK k \in 1..n0 : windows[k].start <= a /\ b <= windows[k].end
      BY <3>1 DEF Whole, n0
    <3>3. k \in 1..Len(windows') /\ windows'[k] = windows[k]
      BY <1>4
    <3> QED
      BY <3>2, <3>3 DEF Whole
  <2>2. CASE ~(a < start)
    <3>1. start <= a /\ b <= end
      BY <1>1, <1>2, <1>8, <2>2
    <3>2. n0 + 1 \in 1..Len(windows')
      BY <1>4
    <3> QED
      BY <1>3, <1>4, <3>1, <3>2 DEF Whole
  <2> QED
    BY <2>1, <2>2
<1> QED
  BY <1>2, <1>4, <1>7, <1>8 DEF end, w, n0

-----------------------------------------------------------------------------
(* Every step                                                              *)

\* what is said of the windows outlives a step that keeps them
SamePlan == UNCHANGED <<input, budget, overlap, windows>>

LEMMA PlanKept ==
  ASSUME SamePlan
  PROVE  /\ (Chained' <=> Chained) /\ PolicyOverlap' = PolicyOverlap
         /\ \A n : SurviveTo(n)' <=> SurviveTo(n)
         /\ \A w : Fits(w)' <=> Fits(w)
         /\ Room' = Room
BY DEF SamePlan, Chained, PolicyOverlap, SurviveTo, Whole, Fits, Estimate, Room

LEMMA TextIsThere ==
  ASSUME TypeOK, CutInv, pc = "measure"
  PROVE  input.len > 0
<1>1. Len(windows) \in 1..Len(windows) /\ windows \in Seq(Window)
  BY DEF TypeOK, CutInv, Window
<1>2. windows[Len(windows)] \in Window
  BY <1>1
<1> QED
  BY <1>1, <1>2, InputTypes, SMTT(30) DEF CutInv, Chained, Window, TypeOK

LEMMA CutStep == TypeOK /\ CutInv /\ [Next]_vars => TypeOK' /\ CutInv'
<1> SUFFICES ASSUME TypeOK, CutInv, [Next]_vars PROVE TypeOK' /\ CutInv'
  OBVIOUS
<1>a. /\ WellFormed(input) /\ input \in Inputs /\ input.len \in Nat
      /\ windows \in Seq(Window) /\ Len(windows) \in Nat
      /\ measured \in 0..Len(windows)
  BY InputTypes DEF TypeOK, CutInv, Window
<1>1. CASE Begin
  <2>1. CASE Room > 0
    <3>1. CutFor(Room, input.overlap) /\ UNCHANGED input
      BY <1>1, <2>1 DEF Begin
    <3>2. input.len > 0 /\ Room \in Nat /\ input.overlap \in Nat
      BY <1>a, <2>1, InputTypes, NoTextNoRoom
    <3> QED
      BY <1>a, <2>1, <3>1, <3>2, CutStarts
  <2>2. CASE ~(Room > 0)
    <3>1. /\ pc' = "refused"
          /\ UNCHANGED <<input, budget, overlap, start, windows, measured>>
      BY <1>1, <2>2 DEF Begin
    <3>2. Room <= 0
      BY <1>a, <2>2, InputTypes
    <3>3. Room' = Room
      BY <3>1 DEF Room
    <3> QED
      BY <1>a, <3>1, <3>2, <3>3 DEF TypeOK, CutInv, RefusedForCause, WellFormed
  <2> QED
    BY <2>1, <2>2
<1>2. CASE Cut
  <2> DEFINE end == Lesser(input.len, start + budget)
  <2>1. /\ end \in (start + 1)..input.len
        /\ windows' \in Seq(Window) /\ Len(windows') = Len(windows) + 1
        /\ windows'[Len(windows')] = [start |-> start, end |-> end]
        /\ Chained'
        /\ \A n \in 0..input.len :
             n <= end - overlap \/ end = input.len => SurviveTo(n)'
    BY <1>2, WindowAdded
  <2>2. /\ budget \in Nat /\ budget > 0 /\ overlap \in 0..(budget - 1)
        /\ start \in Nat /\ pc = "cut" /\ overlap = PolicyOverlap
    BY <1>2, OverlapBounds DEF Cut, TypeOK, CutInv
  <2>3. /\ UNCHANGED <<input, budget, overlap, measured>>
        /\ IF end >= input.len THEN pc' = "measure" /\ start' = start
           ELSE start' = NextStart(end) /\ pc' = "cut"
    BY <1>2 DEF Cut, IsLast
  <2>4. /\ windows' # <<>> /\ WellFormed(input)'
        /\ windows' \in Seq([start : 0..input'.len, end : 0..input'.len])
        /\ PolicyOverlap' = PolicyOverlap
        /\ measured' \in 0..Len(windows')
    BY <1>a, <2>1, <2>3 DEF Window, WellFormed, PolicyOverlap
  <2>5. measured = 0
    BY <1>2 DEF Cut, CutInv
  <2> HIDE DEF end
  <2>6. CASE end >= input.len
    <3>1. end = input.len /\ pc' = "measure" /\ start' = start
      BY <1>a, <2>1, <2>2, <2>3, <2>6
    <3>2. SurviveTo(input.len)'
      <4>1. PICK n \in 0..input.len : n = input.len
        BY <1>a
      <4>2. SurviveTo(n)' /\ n = input'.len
        BY <2>1, <2>3, <3>1, <4>1
      <4> QED
        BY <4>2 DEF SurviveTo
    <3> QED
      BY <1>a, <2>1, <2>2, <2>3, <2>4, <2>5, <3>1, <3>2
         DEF TypeOK, CutInv, RefusedForCause
  <2>7. CASE ~(end >= input.len)
    <3>1. end < input.len /\ end = start + budget
      BY <1>a, <2>1, <2>2, <2>7 DEF end, Lesser
    <3>2. pc' = "cut" /\ start' = end - overlap /\ start < start'
      BY <1>a, <2>1, <2>2, <2>3, <2>7, <3>1 DEF NextStart, Greater
    <3>3. start' \in 0..input.len /\ start' < input.len
      BY <1>a, <2>2, <3>1, <3>2
    <3>4. SurviveTo(start)'
      <4>1. PICK n \in 0..input.len : n = start'
        BY <3>3
      <4>2. SurviveTo(n)'
        BY <2>1, <3>2, <4>1
      <4> QED
        BY <4>1, <4>2 DEF SurviveTo
    <3> QED
      BY <1>a, <2>1, <2>2, <2>3, <2>4, <3>1, <3>2, <3>3, <3>4
         DEF TypeOK, CutInv, RefusedForCause
  <2> QED
    BY <2>6, <2>7
<1>3. CASE Measure
  <2>1. /\ pc = "measure" /\ measured < Len(windows)
        /\ Fits(windows[measured + 1]) /\ measured' = measured + 1
        /\ UNCHANGED <<pc, input, budget, overlap, start, windows>>
    BY <1>3 DEF Measure, Measuring
  <2>2. \A k \in 1..(measured + 1) : k \in 1..measured \/ k = measured + 1
    BY <1>a
  <2>3. \A k \in 1..measured' : Fits(windows[k])
    BY <2>1, <2>2 DEF CutInv
  <2>4. SamePlan
    BY <2>1 DEF SamePlan
  <2>5. measured' \in 0..Len(windows)
    BY <1>a, <2>1
  <2> QED
    <3>1. TypeOK'
      BY <2>1, <2>5 DEF TypeOK, WellFormed
    <3>2. /\ Chained' /\ overlap' = PolicyOverlap' /\ budget' > 0
          /\ windows' # <<>> /\ windows'[Len(windows')].end = input'.len
      BY <2>1, <2>4, PlanKept DEF CutInv
    <3>3. SurviveTo(input.len)'
      <4>1. SurviveTo(input.len)
        BY <2>1 DEF CutInv
      <4> QED
        BY <2>1, <4>1 DEF SurviveTo, Whole
    <3>4. \A k \in 1..measured' : Fits(windows[k])'
      BY <2>1, <2>3 DEF Fits, Estimate
    <3>5. CutInv'
      BY <1>a, <2>1, <3>2, <3>3, <3>4 DEF CutInv, RefusedForCause
    <3> QED
      BY <3>1, <3>5
<1>4. CASE Halve
  <2>1. /\ pc = "measure" /\ Half > 0 /\ CutFor(Half, overlap) /\ UNCHANGED input
    BY <1>4 DEF Halve, Measuring
  <2>2. /\ budget \in Nat /\ budget > 0 /\ overlap \in 0..(budget - 1)
        /\ overlap = Lesser(input.overlap, budget - 1)
    BY <2>1, OverlapBounds
  <2>3. Half \in Nat /\ Half <= budget
    BY <2>2 DEF Half
  <2>4. input.overlap \in Nat
    BY <1>a, InputTypes
  <2>5. Lesser(overlap, Half - 1) = Lesser(input.overlap, Half - 1)
    BY <2>2, <2>3, <2>4 DEF Lesser
  <2>6. input.len > 0
    BY <1>a, <2>1, TextIsThere
  <2> QED
    BY <1>a, <2>1, <2>2, <2>3, <2>5, <2>6, CutStarts
<1>5. CASE Refuse
  <2> DEFINE w == windows[measured + 1]
  <2>1. /\ pc = "measure" /\ measured < Len(windows) /\ ~Fits(w) /\ Half = 0
        /\ pc' = "refused"
        /\ UNCHANGED <<input, budget, overlap, start, windows, measured>>
    BY <1>5 DEF Refuse, Measuring
  <2>2. measured + 1 \in 1..Len(windows)
    BY <1>a, <2>1
  <2>3. /\ w.start \in 0..input.len /\ w.end \in 0..input.len
        /\ w.start < w.end /\ w.end <= w.start + budget
    <3>1. w \in Window
      BY <1>a, <2>2
    <3>2. Chained
      BY <2>1 DEF CutInv
    <3>3. w.start < w.end /\ w.end <= w.start + budget
      BY <2>2, <3>2 DEF Chained
    <3> QED
      BY <3>1, <3>3 DEF Window
  <2>4. budget = 1
    BY <2>1, OverlapBounds DEF Half
  <2>5. /\ w.start \in 0..(input.len - 1) /\ w.end = w.start + 1
    BY <1>a, <2>3, <2>4, SMTT(30)
  <2>6. input.estimate[<<w.start, w.end>>] > input.max
    <3>1. /\ input.estimate[<<w.start, w.end>>] \in Nat
          /\ input.max \in Nat
      BY <1>a, <2>3, InputTypes
    <3>2. ~(input.estimate[<<w.start, w.end>>] <= input.max)
      BY <2>1 DEF Fits, Estimate
    <3> QED
      BY <3>1, <3>2
  <2> HIDE DEF w
  <2>7. \E a \in 0..(input.len - 1) : input.estimate[<<a, a + 1>>] > input.max
    BY <2>5, <2>6
  <2> QED
    BY <1>a, <2>1, <2>7 DEF TypeOK, CutInv, RefusedForCause, WellFormed
<1>6. CASE Finish
  <2>1. /\ pc = "measure" /\ measured = Len(windows) /\ pc' = "done"
        /\ UNCHANGED <<input, budget, overlap, start, windows, measured>>
    BY <1>6 DEF Finish
  <2>2. SamePlan
    BY <2>1 DEF SamePlan
  <2> QED
    BY <1>a, <2>1, <2>2, PlanKept DEF TypeOK, CutInv, RefusedForCause, WellFormed
<1>7. CASE UNCHANGED vars
  <2>1. SamePlan /\ start' = start /\ measured' = measured /\ pc' = pc
    BY <1>7 DEF vars, SamePlan
  <2> QED
    <3>1. TypeOK'
      BY <2>1 DEF TypeOK, SamePlan, WellFormed
    <3>2. /\ Chained' <=> Chained
          /\ PolicyOverlap' = PolicyOverlap /\ RefusedForCause' <=> RefusedForCause
      BY <2>1, PlanKept DEF SamePlan, RefusedForCause
    <3>3. SurviveTo(start)' <=> SurviveTo(start)
      BY <2>1 DEF SamePlan, SurviveTo, Whole
    <3>4. SurviveTo(input.len)' <=> SurviveTo(input.len)
      BY <2>1 DEF SamePlan, SurviveTo, Whole
    <3>5. (\A k \in 1..measured : Fits(windows[k]))'
            <=> (\A k \in 1..measured : Fits(windows[k]))
      BY <2>1 DEF SamePlan, Fits, Estimate
    <3>6. CutInv'
      BY <2>1, <3>2, <3>3, <3>4, <3>5 DEF SamePlan, CutInv
    <3> QED
      BY <3>1, <3>6
<1> QED
  BY <1>1, <1>2, <1>3, <1>4, <1>5, <1>6, <1>7 DEF Next, Ended

LEMMA CutHolds == Spec => [](TypeOK /\ CutInv)
<1>1. Init => TypeOK /\ CutInv
  <2> SUFFICES ASSUME Init PROVE TypeOK /\ CutInv
    OBVIOUS
  <2>1. WellFormed(input) /\ input.len \in Nat
    BY WindowAssumption, InputTypes DEF Init
  <2> QED
    BY <2>1 DEF Init, TypeOK, CutInv, RefusedForCause
<1> QED
  BY <1>1, CutStep, PTL DEF Spec

\* Every variable has its type: no window reaches beyond the text.
THEOREM WindowsTyped == Spec => []TypeOK
  BY CutHolds, PTL

\* The windows of a plan fit, start where the text starts, follow one another
\* without a gap, each beyond the last, and end where the text ends.
THEOREM WindowsCoverTheText == Spec => []TextIsCovered
<1>1. TypeOK /\ CutInv => TextIsCovered
  BY DEF TypeOK, CutInv, Chained, TextIsCovered
<1> QED
  BY <1>1, CutHolds, PTL

\* No stretch of text up to one character longer than the policy's overlap is
\* cut in two.
THEOREM PhrasesStayWhole == Spec => []PhrasesSurvive
<1>1. TypeOK /\ CutInv => PhrasesSurvive
  <2> SUFFICES ASSUME TypeOK, CutInv, pc = "done",
                      NEW a \in 0..(input.len - 1), NEW b \in (a + 1)..input.len,
                      b - a <= PolicyOverlap + 1
               PROVE  Whole(a, b)
    BY DEF PhrasesSurvive
  <2>1. input.len \in Nat
    BY InputTypes DEF TypeOK
  <2>2. SurviveTo(input.len) /\ overlap = PolicyOverlap
    BY DEF CutInv
  <2>3. a < input.len
    BY <2>1
  <2> QED
    BY <2>2, <2>3 DEF SurviveTo
<1> QED
  BY <1>1, CutHolds, PTL

\* Only a prompt without room, or a character that does not fit alone, stops
\* a document from being cut.
THEOREM WindowRefusalsHaveACause == Spec => []RefusedForCause
<1>1. CutInv => RefusedForCause
  BY DEF CutInv
<1> QED
  BY <1>1, CutHolds, PTL
=============================================================================
