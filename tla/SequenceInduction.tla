-------------------------- MODULE SequenceInduction --------------------------
(***************************************************************************)
(* Induction over the natural numbers for a set instead of a predicate,    *)
(* and what it shows of the operators on sequences that the other modules  *)
(* are written with.                                                       *)
(***************************************************************************)
EXTENDS Naturals, Sequences, SequencesExt, FiniteSets, Ordered, FiniteSetTheorems,
        FunctionTheorems, WellFoundedInduction, TLAPS

LEMMA NatLess == IsWellFoundedOn({s \in Nat \X Nat : s[1] < s[2]}, Nat)
  BY NatLessThanWellFounded, Zenon DEF OpToRel

\* A set of natural numbers has a least one, if it has any.
LEMMA LeastNat ==
  ASSUME NEW T \in SUBSET Nat, T # {}
  PROVE  \E x \in T : \A y \in T : x <= y
<1> DEFINE R == {s \in Nat \X Nat : s[1] < s[2]}
<1>1. IsWellFoundedOn(R, Nat)
  BY NatLess
<1>2. PICK x \in T : \A y \in T : ~(<<y, x>> \in R)
  <2> HIDE DEF R
  <2>1. QED
    BY <1>1, WFMin
<1>3. ASSUME NEW y \in T PROVE x <= y
  <2>1. x \in Nat /\ y \in Nat
    OBVIOUS
  <2>2. y < x => <<y, x>> \in R
    BY <2>1
  <2>3. QED
    BY <1>2, <2>1, <2>2
<1>4. QED
  BY <1>3

\* A set that holds 0, and with every number the next, holds them all.
LEMMA NatSetInduction ==
  ASSUME NEW S, 0 \in S, \A n \in Nat : n \in S => n + 1 \in S
  PROVE  Nat \subseteq S
<1>1. SUFFICES ASSUME Nat \ S # {} PROVE FALSE
  OBVIOUS
<1>2. PICK x \in Nat \ S : \A y \in Nat \ S : x <= y
  BY <1>1, LeastNat
<1>3. x # 0 /\ x - 1 \in Nat /\ (x - 1) + 1 = x /\ ~(x <= x - 1)
  BY <1>2
<1>4. x - 1 \in S
  BY <1>2, <1>3
<1>5. QED
  BY <1>2, <1>3, <1>4

\* The largest of some positions of a sequence is one of them.
LEMMA MaxIsOne ==
  ASSUME NEW n \in Nat, NEW T \in SUBSET (1..n), T # {}
  PROVE  Max(T) \in T /\ \A y \in T : y <= Max(T)
<1> DEFINE D == {n - x : x \in T}
<1>1. D \in SUBSET Nat /\ D # {}
  <2>1. \A x \in T : n - x \in Nat
    OBVIOUS
  <2>2. QED
    BY <2>1
<1>2. PICK d \in D : \A e \in D : d <= e
  BY <1>1, LeastNat
<1>3. PICK x \in T : d = n - x
  BY <1>2
<1>4. ASSUME NEW y \in T PROVE x >= y
  <2>1. d <= n - y
    BY <1>2
  <2>2. QED
    BY <1>3, <2>1
<1>5. QED
  BY <1>4 DEF Max

LEMMA MinIsOne ==
  ASSUME NEW T \in SUBSET Nat, T # {}
  PROVE  Min(T) \in T /\ \A y \in T : Min(T) <= y
  BY LeastNat DEF Min

------------------------------------------------------------------------------
\* flat holds the first n of seqs, the i-th after the first at[i] elements
Laid(seqs, n, at, flat) ==
  /\ \A i \in 1..n : \A l \in 1..Len(seqs[i]) :
       /\ at[i] + l \in 1..Len(flat)
       /\ flat[at[i] + l] = seqs[i][l]
  /\ \A k \in 1..Len(flat) : \E i \in 1..n : \E l \in 1..Len(seqs[i]) : k = at[i] + l

LEMMA LaidFurther ==
  ASSUME NEW S, NEW seqs \in Seq(Seq(S)), NEW n \in Nat, n + 1 <= Len(seqs),
         NEW flat \in Seq(S), NEW at \in [1..n -> Nat], Laid(seqs, n, at, flat)
  PROVE  \E more \in [1..n + 1 -> Nat] : Laid(seqs, n + 1, more, flat \o seqs[n + 1])
<1> DEFINE more == [i \in 1..n + 1 |-> IF i = n + 1 THEN Len(flat) ELSE at[i]]
           all == flat \o seqs[n + 1]
<1>1. /\ seqs[n + 1] \in Seq(S)
      /\ \A i \in 1..n + 1 : seqs[i] \in Seq(S)
  OBVIOUS
<1>2. /\ all \in Seq(S)
      /\ Len(all) = Len(flat) + Len(seqs[n + 1])
      /\ \A k \in 1..Len(flat) : all[k] = flat[k]
      /\ \A l \in 1..Len(seqs[n + 1]) : all[Len(flat) + l] = seqs[n + 1][l]
  BY <1>1
<1>3. more \in [1..n + 1 -> Nat]
  OBVIOUS
<1>4. \A i \in 1..n : more[i] = at[i]
  OBVIOUS
<1>5. more[n + 1] = Len(flat)
  OBVIOUS
<1> HIDE DEF more, all
<1>9. Len(flat) \in Nat /\ Len(seqs[n + 1]) \in Nat
  BY <1>1
<1>6. ASSUME NEW i \in 1..n + 1, NEW l \in 1..Len(seqs[i])
      PROVE  more[i] + l \in 1..Len(all) /\ all[more[i] + l] = seqs[i][l]
  <2>1. CASE i = n + 1
    <3>1. l \in 1..Len(seqs[n + 1]) /\ more[i] = Len(flat)
      BY <1>5, <2>1
    <3>2. Len(flat) + l \in 1..Len(all)
      BY <1>2, <1>9, <3>1, SMTT(30)
    <3>3. QED
      BY <1>2, <2>1, <3>1, <3>2
  <2>2. CASE i \in 1..n
    <3>1. at[i] + l \in 1..Len(flat) /\ flat[at[i] + l] = seqs[i][l]
      BY <2>2 DEF Laid
    <3>2. QED
      <4>1. more[i] + l \in 1..Len(flat) /\ flat[more[i] + l] = seqs[i][l]
        BY <1>4, <2>2, <3>1
      <4>2. more[i] + l \in 1..Len(all)
        BY <1>2, <1>9, <4>1, SMTT(30)
      <4>3. QED
        BY <1>2, <4>1, <4>2
  <2>3. QED
    BY <2>1, <2>2
<1>7. ASSUME NEW k \in 1..Len(all)
      PROVE  \E i \in 1..n + 1 : \E l \in 1..Len(seqs[i]) : k = more[i] + l
  <2>1. CASE k \in 1..Len(flat)
    <3>1. PICK i \in 1..n : \E l \in 1..Len(seqs[i]) : k = at[i] + l
      BY <2>1 DEF Laid
    <3>2. i \in 1..n + 1 /\ more[i] = at[i]
      BY <1>4
    <3>3. QED
      BY <3>1, <3>2
  <2>2. CASE k \notin 1..Len(flat)
    <3> DEFINE l == k - Len(flat)
    <3>1. l \in 1..Len(seqs[n + 1]) /\ k = Len(flat) + l
      BY <1>2, <1>9, <2>2
    <3> HIDE DEF l
    <3>2. n + 1 \in 1..n + 1
      OBVIOUS
    <3>3. k = more[n + 1] + l
      BY <1>5, <3>1
    <3>4. QED
      BY <3>1, <3>2, <3>3
  <2>3. QED
    BY <2>1, <2>2
<1>8. QED
  BY <1>3, <1>6, <1>7 DEF Laid, all

FlattenStep(seqs, f, i) == IF i = 1 THEN seqs[i] ELSE f[i - 1] \o seqs[i]
Flattens(seqs, f, n) == f = [i \in 1..n |-> FlattenStep(seqs, f, i)]
Flattenable(S, seqs, n) ==
  n <= Len(seqs) => \E f \in [1..n -> Seq(S)] : Flattens(seqs, f, n)

LEMMA FlattensAt ==
  ASSUME NEW seqs, NEW f, NEW n, Flattens(seqs, f, n), NEW i \in 1..n
  PROVE  f[i] = FlattenStep(seqs, f, i)
<1> DEFINE g == [j \in 1..n |-> FlattenStep(seqs, f, j)]
<1>1. g[i] = FlattenStep(seqs, f, i)
  OBVIOUS
<1>2. f = g
  BY DEF Flattens
<1> HIDE DEF g
<1>3. QED
  BY <1>1, <1>2

LEMMA SomethingFlattens ==
  ASSUME NEW S, NEW seqs \in Seq(Seq(S))
  PROVE  \E f \in [1..Len(seqs) -> Seq(S)] : Flattens(seqs, f, Len(seqs))
<1>1. Len(seqs) \in Nat /\ \A i \in 1..Len(seqs) : seqs[i] \in Seq(S)
  OBVIOUS
<1>2. Flattenable(S, seqs, 0)
  <2> DEFINE none == [i \in 1..0 |-> <<>>]
  <2>1. none \in [1..0 -> Seq(S)] /\ Flattens(seqs, none, 0)
    BY DEF Flattens
  <2>2. QED
    BY <2>1 DEF Flattenable
<1>3. ASSUME NEW n \in Nat, Flattenable(S, seqs, n) PROVE Flattenable(S, seqs, n + 1)
  <2> SUFFICES ASSUME n + 1 <= Len(seqs)
               PROVE  \E f \in [1..n + 1 -> Seq(S)] : Flattens(seqs, f, n + 1)
    BY DEF Flattenable
  <2>1. PICK g \in [1..n -> Seq(S)] : Flattens(seqs, g, n)
    BY <1>1, <1>3 DEF Flattenable
  <2> DEFINE f == [i \in 1..n + 1 |-> IF i = n + 1 THEN FlattenStep(seqs, g, i) ELSE g[i]]
  <2>2. FlattenStep(seqs, g, n + 1) \in Seq(S)
    <3>1. seqs[n + 1] \in Seq(S)
      BY <1>1
    <3>2. n # 0 => g[(n + 1) - 1] \in Seq(S)
      OBVIOUS
    <3>3. QED
      BY <3>1, <3>2 DEF FlattenStep
  <2>3. f \in [1..n + 1 -> Seq(S)]
    BY <2>2
  <2>4. ASSUME NEW i \in 1..n + 1 PROVE f[i] = FlattenStep(seqs, f, i)
    <3>1. i # 1 => i - 1 \in 1..n /\ f[i - 1] = g[i - 1]
      OBVIOUS
    <3>2. FlattenStep(seqs, f, i) = FlattenStep(seqs, g, i)
      BY <3>1 DEF FlattenStep
    <3>3. i # n + 1 => i \in 1..n
      OBVIOUS
    <3>4. i \in 1..n => g[i] = FlattenStep(seqs, g, i)
      BY <2>1, FlattensAt, Zenon
    <3>5. QED
      BY <3>2, <3>3, <3>4
  <2>5. Flattens(seqs, f, n + 1)
    <3> HIDE DEF f
    <3>1. f = [i \in 1..n + 1 |-> f[i]]
      BY <2>3
    <3>2. QED
      BY <2>4, <3>1 DEF Flattens
  <2>6. QED
    BY <2>3, <2>5
<1>4. Flattenable(S, seqs, Len(seqs))
  <2> DEFINE T == {n \in Nat : Flattenable(S, seqs, n)}
  <2>1. 0 \in T /\ \A n \in Nat : n \in T => n + 1 \in T
    BY <1>2, <1>3
  <2> HIDE DEF T
  <2>2. Nat \subseteq T
    BY <2>1, NatSetInduction
  <2>3. QED
    BY <1>1, <2>2 DEF T
<1>5. QED
  BY <1>1, <1>4 DEF Flattenable

\* the first n sequences are laid in f[n]
LaidUpTo(S, seqs, f, n) ==
  n \in 1..Len(seqs) =>
    /\ f[n] \in Seq(S)
    /\ \E at \in [1..n -> Nat] : Laid(seqs, n, at, f[n])

LEMMA FlattensLays ==
  ASSUME NEW S, NEW seqs \in Seq(Seq(S)), NEW f, Flattens(seqs, f, Len(seqs)),
         NEW m \in 1..Len(seqs)
  PROVE  LaidUpTo(S, seqs, f, m)
<1>1. /\ Len(seqs) \in Nat
      /\ \A i \in 1..Len(seqs) : seqs[i] \in Seq(S) /\ f[i] = FlattenStep(seqs, f, i)
  BY FlattensAt
<1>2. ASSUME NEW n \in Nat, LaidUpTo(S, seqs, f, n) PROVE LaidUpTo(S, seqs, f, n + 1)
  <2> SUFFICES ASSUME n + 1 \in 1..Len(seqs)
               PROVE  /\ f[n + 1] \in Seq(S)
                      /\ \E at \in [1..n + 1 -> Nat] : Laid(seqs, n + 1, at, f[n + 1])
    BY DEF LaidUpTo
  <2>1. CASE n = 0
    <3>1. f[1] = seqs[1] /\ seqs[1] \in Seq(S)
      BY <1>1, <2>1 DEF FlattenStep
    <3> DEFINE at == [i \in 1..1 |-> 0]
    <3>2. at \in [1..1 -> Nat] /\ at[1] = 0
      OBVIOUS
    <3> HIDE DEF at
    <3>3. Laid(seqs, 1, at, seqs[1])
      <4>1. \A i \in 1..1 : i = 1
        OBVIOUS
      <4>2. 1 \in 1..1 /\ \A l \in 1..Len(seqs[1]) : at[1] + l = l
        BY <3>1, <3>2
      <4>3. QED
        BY <4>1, <4>2 DEF Laid
    <3>4. QED
      BY <2>1, <3>1, <3>2, <3>3
  <2>2. CASE n # 0
    <3>1. n \in 1..Len(seqs) /\ n + 1 <= Len(seqs) /\ n + 1 # 1 /\ (n + 1) - 1 = n
      BY <1>1, <2>2
    <3>2. /\ f[n] \in Seq(S)
          /\ \E at \in [1..n -> Nat] : Laid(seqs, n, at, f[n])
      BY <1>2, <3>1 DEF LaidUpTo
    <3>3. f[n + 1] = f[n] \o seqs[n + 1] /\ seqs[n + 1] \in Seq(S)
      BY <1>1, <3>1 DEF FlattenStep
    <3>4. PICK at \in [1..n -> Nat] : Laid(seqs, n, at, f[n])
      BY <3>2
    <3>5. \E more \in [1..n + 1 -> Nat] : Laid(seqs, n + 1, more, f[n] \o seqs[n + 1])
      BY <3>1, <3>2, <3>4, LaidFurther
    <3>6. f[n] \o seqs[n + 1] \in Seq(S)
      BY <3>2, <3>3
    <3>7. QED
      BY <3>3, <3>5, <3>6
  <2>3. QED
    BY <2>1, <2>2
<1>3. LaidUpTo(S, seqs, f, 0)
  BY DEF LaidUpTo
<1>4. QED
  <2> DEFINE T == {n \in Nat : LaidUpTo(S, seqs, f, n)}
  <2>1. 0 \in T /\ \A n \in Nat : n \in T => n + 1 \in T
    BY <1>2, <1>3
  <2> HIDE DEF T
  <2>2. Nat \subseteq T
    BY <2>1, NatSetInduction
  <2>3. m \in T
    BY <1>1, <2>2
  <2>4. QED
    BY <2>3 DEF T

\* FlattenSeq lays the sequences one after the other, and holds nothing else.
LEMMA FlattenSeqLays ==
  ASSUME NEW S, NEW seqs \in Seq(Seq(S))
  PROVE  /\ FlattenSeq(seqs) \in Seq(S)
         /\ \E at \in [1..Len(seqs) -> Nat] : Laid(seqs, Len(seqs), at, FlattenSeq(seqs))
<1>1. CASE Len(seqs) = 0
  <2>1. FlattenSeq(seqs) = <<>>
    BY <1>1 DEF FlattenSeq
  <2> DEFINE at == [i \in 1..0 |-> 0]
  <2>2. at \in [1..0 -> Nat] /\ Laid(seqs, 0, at, <<>>)
    BY DEF Laid
  <2> HIDE DEF at
  <2>3. <<>> \in Seq(S)
    OBVIOUS
  <2>4. QED
    BY <1>1, <2>1, <2>2, <2>3
<1>2. CASE Len(seqs) # 0
  <2> DEFINE flatten == CHOOSE f : Flattens(seqs, f, Len(seqs))
  <2>1. Flattens(seqs, flatten, Len(seqs))
    BY SomethingFlattens
  <2>2. FlattenSeq(seqs) = flatten[Len(seqs)]
    BY <1>2 DEF FlattenSeq, Flattens, FlattenStep
  <2> HIDE DEF flatten
  <2>3. Len(seqs) \in 1..Len(seqs)
    BY <1>2
  <2>4. LaidUpTo(S, seqs, flatten, Len(seqs))
    BY <2>1, <2>3, FlattensLays
  <2>5. QED
    BY <2>2, <2>3, <2>4 DEF LaidUpTo
<1>3. QED
  BY <1>1, <1>2

LEMMA RangeIsSet ==
  ASSUME NEW S, NEW seq \in Seq(S)
  PROVE  Range(seq) = {seq[l] : l \in 1..Len(seq)} /\ Range(seq) \subseteq S
  BY DEF Range

LEMMA FlattenSeqRange ==
  ASSUME NEW S, NEW seqs \in Seq(Seq(S))
  PROVE  Range(FlattenSeq(seqs)) = UNION {Range(seqs[i]) : i \in 1..Len(seqs)}
<1> DEFINE flat == FlattenSeq(seqs)
<1>1. flat \in Seq(S) /\ \A i \in 1..Len(seqs) : seqs[i] \in Seq(S)
  BY FlattenSeqLays
<1>2. PICK at \in [1..Len(seqs) -> Nat] : Laid(seqs, Len(seqs), at, flat)
  BY FlattenSeqLays
<1> HIDE DEF flat
<1>3. Range(flat) = {flat[k] : k \in 1..Len(flat)}
  BY <1>1, RangeIsSet
<1>4. \A i \in 1..Len(seqs) : Range(seqs[i]) = {seqs[i][l] : l \in 1..Len(seqs[i])}
  BY <1>1, RangeIsSet
<1>5. ASSUME NEW x \in Range(flat) PROVE \E i \in 1..Len(seqs) : x \in Range(seqs[i])
  <2>1. PICK k \in 1..Len(flat) : x = flat[k]
    BY <1>3
  <2>2. PICK i \in 1..Len(seqs) : \E l \in 1..Len(seqs[i]) : k = at[i] + l
    BY <1>2 DEF Laid
  <2>3. PICK l \in 1..Len(seqs[i]) : k = at[i] + l
    BY <2>2
  <2>4. x = seqs[i][l]
    BY <1>2, <2>1, <2>3 DEF Laid
  <2>5. QED
    BY <1>4, <2>4
<1>6. ASSUME NEW i \in 1..Len(seqs), NEW x \in Range(seqs[i]) PROVE x \in Range(flat)
  <2>1. PICK l \in 1..Len(seqs[i]) : x = seqs[i][l]
    BY <1>4
  <2>2. at[i] + l \in 1..Len(flat) /\ flat[at[i] + l] = x
    BY <1>2, <2>1 DEF Laid
  <2>3. QED
    BY <1>3, <2>2
<1>7. QED
  BY <1>5, <1>6 DEF flat

\* SetToSeq puts every element of a finite set into a place of its own.
LEMMA SetToSeqOrders ==
  ASSUME NEW T, IsFiniteSet(T)
  PROVE  SetToSeq(T) \in Seq(T) /\ Range(SetToSeq(T)) = T
<1> DEFINE n == Cardinality(T)
           order == SetToSeq(T)
<1>1. n \in Nat /\ ExistsBijection(1..n, T)
  BY FS_CardinalityType
<1>2. PICK f \in Bijection(1..n, T) : TRUE
  BY <1>1 DEF ExistsBijection
<1>3. f \in [1..n -> T] /\ IsInjective(f)
  BY <1>2 DEF Bijection, Injection
<1>4. order \in [1..n -> T] /\ IsInjective(order)
  BY <1>3 DEF SetToSeq
<1>5. order \in Injection(1..n, T)
  BY <1>4 DEF Injection
<1>6. IsFiniteSet(1..n) /\ Cardinality(1..n) = n
  BY <1>1, FS_Interval
<1>7. order \in Surjection(1..n, T)
  BY <1>5, <1>6, FS_Injection
<1>8. Range(order) = T
  BY <1>7, Fun_SurjectionProperties
<1>9. order \in Seq(T)
  BY <1>1, <1>4
<1>10. QED
  BY <1>8, <1>9

LEMMA FunctionIsSeq ==
  ASSUME NEW S, NEW n \in Nat, NEW f \in [1..n -> S]
  PROVE  f \in Seq(S) /\ Len(f) = n
  OBVIOUS
------------------------------------------------------------------------------
(* The numbers of a set in order, and what is picked by its position *)

\* InOrder puts every number of the set into a place of its own.
LEMMA InOrderIs ==
  ASSUME NEW S \in SUBSET Nat, IsFiniteSet(S)
  PROVE  /\ Cardinality(S) \in Nat
         /\ InOrder(S) \in [1..Cardinality(S) -> S]
         /\ \A i \in S : \E k \in 1..Cardinality(S) : InOrder(S)[k] = i
         /\ \A k, l \in 1..Cardinality(S) : InOrder(S)[k] = InOrder(S)[l] => k = l
<1> DEFINE n == Cardinality(S)
           Below(i) == {j \in S : j < i}
           rank == [i \in S |-> Cardinality(Below(i)) + 1]
<1>1. n \in Nat
  BY FS_CardinalityType
<1>2. ASSUME NEW i \in S
      PROVE  IsFiniteSet(Below(i)) /\ Cardinality(Below(i)) + 1 \in 1..n
  <2>1. Below(i) \in SUBSET (S \ {i})
    OBVIOUS
  <2>2. IsFiniteSet(S \ {i}) /\ Cardinality(S \ {i}) = n - 1
    BY FS_RemoveElement
  <2>3. IsFiniteSet(Below(i)) /\ Cardinality(Below(i)) <= n - 1
    BY <2>1, <2>2, FS_Subset
  <2>4. Cardinality(Below(i)) \in Nat
    BY <2>3, FS_CardinalityType
  <2>5. QED
    BY <1>1, <2>3, <2>4
<1>3. ASSUME NEW i \in S, NEW j \in S, i < j
      PROVE  Cardinality(Below(i)) # Cardinality(Below(j))
  <2>0. \A h \in S : h \in Nat
    OBVIOUS
  <2>1. Below(i) \in SUBSET Below(j) /\ i \in Below(j) /\ i \notin Below(i)
    <3>1. \A h \in S : h < i => h < j
      BY <1>3, <2>0
    <3>2. ~(i < i)
      BY <2>0
    <3>3. QED
      BY <1>3, <3>1, <3>2
  <2>2. QED
    BY <1>2, <2>1, FS_Subset
<1>4. rank \in [S -> 1..n]
  BY <1>2
<1>5. \A i \in S : rank[i] = Cardinality(Below(i)) + 1 /\ Cardinality(Below(i)) \in Nat
  BY <1>2, FS_CardinalityType
<1>6. \A i, j \in S : rank[i] = rank[j] => i = j
  <2> SUFFICES ASSUME NEW i \in S, NEW j \in S, i # j PROVE rank[i] # rank[j]
    OBVIOUS
  <2>1. i < j \/ j < i
    OBVIOUS
  <2>2. QED
    BY <1>3, <1>5, <2>1
<1> HIDE DEF rank
<1>7. \A k \in 1..n : \E i \in S : rank[i] = k
  <2>1. rank \in Injection(S, 1..n)
    BY <1>4, <1>6 DEF Injection, IsInjective
  <2>2. IsFiniteSet(1..n) /\ Cardinality(1..n) = n
    BY <1>1, FS_Interval
  <2>3. rank \in Surjection(S, 1..n)
    BY <2>1, <2>2, FS_Injection
  <2>4. QED
    BY <2>3 DEF Surjection
<1>8. ASSUME NEW k \in 1..n
      PROVE  InOrder(S)[k] \in S /\ rank[InOrder(S)[k]] = k
  <2>1. InOrder(S)[k] = CHOOSE i \in S : Cardinality(Below(i)) = k - 1
    BY DEF InOrder
  <2>2. PICK i \in S : rank[i] = k
    BY <1>7
  <2>3. Cardinality(Below(i)) = k - 1
    BY <1>5, <2>2
  <2> DEFINE c == CHOOSE j \in S : Cardinality(Below(j)) = k - 1
  <2>4. c \in S /\ Cardinality(Below(c)) = k - 1
    BY <2>3
  <2> HIDE DEF c, Below
  <2>5. rank[c] = k
    BY <1>1, <1>5, <2>4
  <2>6. QED
    BY <2>1, <2>4, <2>5 DEF c
<1>9. InOrder(S) \in [1..n -> S]
  <2>1. \A k \in 1..n : InOrder(S)[k] \in S
    BY <1>8
  <2> DEFINE At(k) == CHOOSE i \in S : Cardinality(Below(i)) = k - 1
  <2>2. InOrder(S) = [k \in 1..n |-> At(k)]
    BY DEF InOrder
  <2> HIDE DEF At
  <2>3. QED
    BY <2>1, <2>2
<1>10. \A i \in S : InOrder(S)[rank[i]] = i
  BY <1>4, <1>6, <1>8
<1>11. QED
  BY <1>1, <1>4, <1>8, <1>9, <1>10

\* What is picked is what stands at the positions, as often as it stands there.
LEMMA PickedIs ==
  ASSUME NEW S, NEW s \in Seq(S), NEW at \in SUBSET DOMAIN s
  PROVE  /\ Picked(s, at) \in Seq(S)
         /\ IsFiniteSet(at)
         /\ Len(Picked(s, at)) = Cardinality(at) /\ Cardinality(at) \in Nat
         /\ Range(Picked(s, at)) = {s[i] : i \in at}
         /\ \E place \in [1..Cardinality(at) -> at] :
              /\ \A i \in at : \E k \in 1..Cardinality(at) : place[k] = i
              /\ \A k, l \in 1..Cardinality(at) : place[k] = place[l] => k = l
              /\ \A k \in 1..Cardinality(at) : Picked(s, at)[k] = s[place[k]]
<1>1. at \in SUBSET Nat /\ at \in SUBSET (1..Len(s))
  OBVIOUS
<1>2. IsFiniteSet(at)
  BY <1>1, FS_Interval, FS_Subset
<1> DEFINE c == Cardinality(at)
<1>3. PICK place : place = InOrder(at)
  OBVIOUS
<1>4. /\ c \in Nat
      /\ place \in [1..c -> at]
      /\ \A i \in at : \E k \in 1..c : place[k] = i
      /\ \A k, l \in 1..c : place[k] = place[l] => k = l
  BY <1>1, <1>2, <1>3, InOrderIs
<1>5. Picked(s, at) = [k \in 1..c |-> s[place[k]]]
  BY <1>3, <1>4 DEF Picked
<1> HIDE DEF c
<1>6. \A k \in 1..c : s[place[k]] \in S
  BY <1>1, <1>4
<1>7. Picked(s, at) \in Seq(S) /\ Len(Picked(s, at)) = c
  BY <1>4, <1>5, <1>6
<1>8. \A k \in 1..c : Picked(s, at)[k] = s[place[k]]
  BY <1>5
<1>9. Range(Picked(s, at)) = {s[i] : i \in at}
  <2>1. Range(Picked(s, at)) = {Picked(s, at)[k] : k \in 1..c}
    BY <1>4, <1>7, RangeIsSet
  <2>2. QED
    BY <1>4, <1>8, <2>1
<1>10. QED
  BY <1>2, <1>4, <1>7, <1>8, <1>9 DEF c

-----------------------------------------------------------------------------
(* A loop over 1..n *)

\* f is what a loop of n turns has after every turn
Iterates(f, start, step, n) == f[0] = start /\ \A i \in 1..n : f[i] = step[<<i, f[i - 1]>>]

\* What a loop computes, turn by turn, is a function of the turn.
LEMMA SomethingIterates ==
  ASSUME NEW S, NEW start \in S, NEW step \in [Nat \X S -> S], NEW n \in Nat
  PROVE  \E f \in [0..n -> S] : Iterates(f, start, step, n)
<1> DEFINE T == {m \in Nat : \E f \in [0..m -> S] :
                   f[0] = start /\ \A i \in 1..m : f[i] = step[<<i, f[i - 1]>>]}
<1>1. 0 \in T
  <2> DEFINE f == [i \in 0..0 |-> start]
  <2>1. f \in [0..0 -> S] /\ f[0] = start /\ \A i \in 1..0 : f[i] = step[<<i, f[i - 1]>>]
    OBVIOUS
  <2>2. QED
    BY <2>1
<1>2. ASSUME NEW m \in Nat, m \in T PROVE m + 1 \in T
  <2>1. PICK f \in [0..m -> S] : f[0] = start /\ \A i \in 1..m : f[i] = step[<<i, f[i - 1]>>]
    BY <1>2
  <2> DEFINE g == [i \in 0..m + 1 |-> IF i = m + 1 THEN step[<<m + 1, f[m]>>] ELSE f[i]]
  <2>2. f[m] \in S /\ step[<<m + 1, f[m]>>] \in S
    BY <2>1
  <2>3. g \in [0..m + 1 -> S]
    BY <2>1, <2>2
  <2>4. g[0] = start /\ \A i \in 0..m : g[i] = f[i]
    BY <2>1
  <2>5. g[m + 1] = step[<<m + 1, f[m]>>]
    OBVIOUS
  <2> HIDE DEF g
  <2>6. ASSUME NEW i \in 1..m + 1 PROVE g[i] = step[<<i, g[i - 1]>>]
    <3>1. CASE i = m + 1
      BY <2>4, <2>5, <3>1, SMTT(30)
    <3>2. CASE i # m + 1
      <4>1. i \in 1..m /\ i \in 0..m /\ i - 1 \in 0..m
        BY <3>2
      <4>2. QED
        BY <2>1, <2>4, <4>1
    <3>3. QED
      BY <3>1, <3>2
  <2>7. QED
    BY <2>3, <2>4, <2>6
<1> HIDE DEF T
<1>3. Nat \subseteq T
  BY <1>1, <1>2, NatSetInduction
<1>4. n \in T
  BY <1>3
<1>5. QED
  BY <1>4 DEF T, Iterates

\* What is picked first is picked at the first of the places.
LEMMA PickedFirst ==
  ASSUME NEW S, NEW s \in Seq(S), NEW at \in SUBSET DOMAIN s, at # {}
  PROVE  /\ Min(at) \in at
         /\ Picked(s, at)[1] = s[Min(at)]
         /\ Len(Picked(s, at)) >= 1
<1>1. at \in SUBSET Nat /\ DOMAIN s = 1..Len(s) /\ Len(s) \in Nat
  OBVIOUS
<1>2. PICK m \in at : m = Min(at) /\ \A y \in at : m <= y
  BY <1>1, MinIsOne
<1>3. IsFiniteSet(at) /\ Cardinality(at) \in Nat
  BY PickedIs
<1>4. Cardinality(at) >= 1
  <2>1. Cardinality(at) # 0
    BY <1>3, FS_EmptySet
  <2>2. QED
    BY <1>3, <2>1
<1> DEFINE Below(i) == {j \in at : j < i}
<1>5. \A i \in at : Cardinality(Below(i)) = 0 => i = m
  <2> SUFFICES ASSUME NEW i \in at, Cardinality(Below(i)) = 0 PROVE i = m
    OBVIOUS
  <2>1. Below(i) \in SUBSET at
    OBVIOUS
  <2>2. IsFiniteSet(Below(i))
    BY <1>3, <2>1, FS_Subset
  <2>3. Below(i) = {}
    BY <2>2, FS_EmptySet
  <2>4. ~(m < i)
    BY <2>3
  <2>5. QED
    BY <1>1, <1>2, <2>4
<1>6. Cardinality(Below(m)) = 0
  <2>1. Below(m) = {}
    BY <1>1, <1>2
  <2>2. QED
    BY <2>1, FS_EmptySet
<1> DEFINE Nth(k) == CHOOSE i \in at : Cardinality(Below(i)) = k - 1
<1>8. PICK order : order = InOrder(at)
  OBVIOUS
<1>9. order = [k \in 1..Cardinality(at) |-> Nth(k)]
  BY <1>8 DEF InOrder
<1> HIDE DEF Below
<1>7. Nth(1) = m
  BY <1>5, <1>6
<1> HIDE DEF Nth
<1>10. order[1] = m /\ DOMAIN order = 1..Cardinality(at)
  BY <1>3, <1>4, <1>7, <1>9
<1>11. Picked(s, at) = [k \in DOMAIN order |-> s[order[k]]]
  BY <1>8 DEF Picked
<1>12. Picked(s, at)[1] = s[m]
  BY <1>3, <1>4, <1>10, <1>11
<1>13. Len(Picked(s, at)) >= 1
  BY <1>4, PickedIs
<1>14. QED
  BY <1>2, <1>12, <1>13
==============================================================================
