------------------------- MODULE SelectorCallsProofs -------------------------
(***************************************************************************)
(* What a plan's calls are proved to come to, for every plan, every model  *)
(* and every budget:                                                       *)
(*                                                                         *)
(*   SelectionIsUndivided      cutting a selection into calls does not     *)
(*                             change it                                   *)
(*   WinnersWereWantedAlways   no round's answer is taken for another's    *)
(*   EveryCandidateIsAsked     no round leaves a candidate out             *)
(*   RefusalsHaveACause        a well-put answer is taken, and a budget    *)
(*                             that suffices is not the reason to give up  *)
(***************************************************************************)
EXTENDS SelectorCalls, SequenceInduction, TLAPS

-----------------------------------------------------------------------------
(* Answers and their keys *)

\* a reply's record once its ids are the candidates'
Instances == {"inst_0", "inst_1"}
Tellings ==
  [field : STRING \cup {UnknownField}, instance : Instances, evidence : Nat \cup {NoId},
   selected : Seq(Nat), abstain : BOOLEAN]

\* Each element is kept, once.
LEMMA DedupeIs ==
  ASSUME NEW S, NEW s \in Seq(S)
  PROVE  /\ Dedupe(s) \in Seq(S)
         /\ Range(Dedupe(s)) = Range(s)
         /\ \A k, l \in 1..Len(Dedupe(s)) : Dedupe(s)[k] = Dedupe(s)[l] => k = l
<1> DEFINE first == {i \in DOMAIN s : \A j \in 1..(i - 1) : s[j] # s[i]}
<1>1. first \in SUBSET DOMAIN s /\ first \in SUBSET (1..Len(s)) /\ Len(s) \in Nat
  OBVIOUS
<1>2. \A i, j \in first : s[i] = s[j] => i = j
  <2> SUFFICES ASSUME NEW i \in first, NEW j \in first, i < j PROVE s[i] # s[j]
    BY <1>1
  <2>1. i \in 1..(j - 1)
    BY <1>1
  <2>2. QED
    BY <2>1
<1>3. \A i \in 1..Len(s) : \E j \in first : s[j] = s[i]
  <2> SUFFICES ASSUME NEW i \in 1..Len(s) PROVE \E j \in first : s[j] = s[i]
    OBVIOUS
  <2> DEFINE same == {j \in 1..Len(s) : s[j] = s[i]}
  <2>1. same \in SUBSET Nat /\ same # {}
    OBVIOUS
  <2>2. PICK j \in same : \A h \in same : j <= h
    BY <2>1, LeastNat
  <2>3. \A h \in 1..(j - 1) : s[h] # s[j]
    BY <2>2
  <2>4. QED
    BY <2>2, <2>3
<1>4. Dedupe(s) = Picked(s, first)
  BY DEF Dedupe
<1> HIDE DEF first
<1>0. PICK c : c = Cardinality(first)
  OBVIOUS
<1>5. /\ Picked(s, first) \in Seq(S)
      /\ Len(Picked(s, first)) = c /\ c \in Nat
      /\ Range(Picked(s, first)) = {s[i] : i \in first}
  BY <1>0, <1>1, PickedIs
<1>6. PICK place \in [1..c -> first] :
        /\ \A k, l \in 1..c : place[k] = place[l] => k = l
        /\ \A k \in 1..c : Picked(s, first)[k] = s[place[k]]
  BY <1>0, <1>1, PickedIs
<1>7. \A k, l \in 1..c : Picked(s, first)[k] = Picked(s, first)[l] => k = l
  <2> SUFFICES ASSUME NEW k \in 1..c, NEW l \in 1..c,
                      Picked(s, first)[k] = Picked(s, first)[l]
               PROVE  k = l
    OBVIOUS
  <2>1. place[k] \in first /\ place[l] \in first /\ s[place[k]] = s[place[l]]
    BY <1>6
  <2>2. QED
    BY <1>2, <1>6, <2>1
<1>8. Range(s) = {s[i] : i \in first}
  <2>1. Range(s) = {s[i] : i \in 1..Len(s)}
    BY RangeIsSet
  <2>2. QED
    BY <1>1, <1>3, <2>1
<1>9. QED
  BY <1>4, <1>5, <1>7, <1>8

\* What the records of one key say together.
LEMMA MergedIs ==
  ASSUME NEW items \in Seq(Tellings), items # <<>>
  PROVE  /\ Merged(items) \in Tellings
         /\ Merged(items).field = items[1].field
         /\ Merged(items).instance = items[1].instance
         /\ Merged(items).abstain = items[1].abstain
         /\ Range(Merged(items).selected) = UNION {Range(items[i].selected) : i \in 1..Len(items)}
         /\ ~Stray(Merged(items))
<1> DEFINE lists == [i \in DOMAIN items |-> items[i].selected]
           all == FlattenSeq(lists)
           ids == Dedupe(all)
           evidence == IF ids = <<>> THEN NoId ELSE ids[1]
<1>1. items[1] \in Tellings /\ Len(items) \in Nat /\ DOMAIN items = 1..Len(items)
  OBVIOUS
<1>2. lists \in Seq(Seq(Nat)) /\ Len(lists) = Len(items)
      /\ \A i \in 1..Len(items) : lists[i] = items[i].selected
  <2>1. \A i \in 1..Len(items) : items[i] \in Tellings
    BY <1>1
  <2>2. \A i \in 1..Len(items) : items[i].selected \in Seq(Nat)
    BY <2>1 DEF Tellings
  <2>3. PICK S : S = Seq(Nat)
    OBVIOUS
  <2>4. lists \in [1..Len(items) -> S]
    BY <1>1, <2>2, <2>3
  <2>5. \A i \in 1..Len(items) : lists[i] = items[i].selected
    BY <1>1
  <2> HIDE DEF lists
  <2>6. lists \in Seq(S) /\ Len(lists) = Len(items)
    BY <1>1, <2>4, FunctionIsSeq
  <2>7. QED
    BY <2>3, <2>5, <2>6
<1>3. Merged(items) = [[items[1] EXCEPT !.selected = ids] EXCEPT !.evidence = evidence]
  BY DEF Merged
<1> HIDE DEF lists
<1>4. all \in Seq(Nat) /\ Range(all) = UNION {Range(lists[i]) : i \in 1..Len(lists)}
  BY <1>2, FlattenSeqLays, FlattenSeqRange
<1> HIDE DEF all
<1>5. ids \in Seq(Nat) /\ Range(ids) = Range(all)
  BY <1>4, DedupeIs
<1> HIDE DEF ids
<1>6. evidence \in Nat \cup {NoId}
  BY <1>5
<1>7. evidence = NoId \/ evidence \in Range(ids)
  BY <1>5 DEF Range
<1> HIDE DEF evidence
<1>8. PICK r \in Tellings : r = items[1]
  BY <1>1
<1>9. PICK m : m = [[r EXCEPT !.selected = ids] EXCEPT !.evidence = evidence]
  OBVIOUS
<1>10. r = [field |-> r.field, instance |-> r.instance, evidence |-> r.evidence,
            selected |-> r.selected, abstain |-> r.abstain]
  BY DEF Tellings
<1>11. m = [field |-> r.field, instance |-> r.instance, evidence |-> evidence,
            selected |-> ids, abstain |-> r.abstain]
  BY <1>9, <1>10
<1>12. m \in Tellings /\ m.field = r.field /\ m.instance = r.instance /\ m.abstain = r.abstain
       /\ m.selected = ids /\ m.evidence = evidence
  BY <1>5, <1>6, <1>11 DEF Tellings
<1>13. Range(ids) = UNION {Range(items[i].selected) : i \in 1..Len(items)}
  BY <1>2, <1>4, <1>5
<1>14. Merged(items) = m
  BY <1>3, <1>8, <1>9
<1>15. QED
  BY <1>7, <1>8, <1>12, <1>13, <1>14 DEF Stray

LEMMA AboveOne ==
  ASSUME NEW n \in Nat, n # 0, n # 1
  PROVE  n > 1
OBVIOUS

LEMMA MoreThanOne ==
  ASSUME NEW S, NEW s \in Seq(S), s # <<>>, Len(s) # 1
  PROVE  Len(s) > 1
<1>1. Len(s) \in Nat /\ Len(s) # 0
  OBVIOUS
<1>2. QED
  BY <1>1, AboveOne, Zenon

\* the keys of a reply, and what becomes of the records of one
KeysOf(rs) == {Key(rs[i]) : i \in DOMAIN rs}
Keys(rs) == Dedupe([i \in DOMAIN rs |-> Key(rs[i])])
ItemsOf(rs, key) == Picked(rs, Under(key, rs))
MergedOf(rs, key) == Merged(ItemsOf(rs, key))
Piece(menus, rs, key) ==
  IF key \in Repeated(menus, rs) THEN <<MergedOf(rs, key)>> ELSE ItemsOf(rs, key)

LEMMA KeysAre ==
  ASSUME NEW rs \in Seq(Tellings)
  PROVE  /\ \E K : Keys(rs) \in Seq(K)
         /\ Range(Keys(rs)) = KeysOf(rs)
         /\ \A k, l \in 1..Len(Keys(rs)) : Keys(rs)[k] = Keys(rs)[l] => k = l
<1> DEFINE all == [i \in DOMAIN rs |-> Key(rs[i])]
<1>1. PICK K : K = KeysOf(rs)
  OBVIOUS
<1>2. Len(rs) \in Nat /\ DOMAIN rs = 1..Len(rs)
  OBVIOUS
<1>3. all \in [1..Len(rs) -> K]
  BY <1>1, <1>2 DEF KeysOf
<1>4. DOMAIN all = DOMAIN rs /\ \A i \in DOMAIN rs : all[i] = Key(rs[i])
  OBVIOUS
<1>5. Keys(rs) = Dedupe(all)
  BY DEF Keys
<1> HIDE DEF all
<1>6. all \in Seq(K)
  BY <1>2, <1>3, FunctionIsSeq
<1>7. Range(all) = KeysOf(rs)
  BY <1>4 DEF Range, KeysOf
<1>8. QED
  BY <1>5, <1>6, <1>7, DedupeIs

LEMMA UnderIs ==
  ASSUME NEW rs \in Seq(Tellings), NEW key \in KeysOf(rs)
  PROVE  /\ Under(key, rs) \in SUBSET DOMAIN rs
         /\ Under(key, rs) # {}
         /\ \A p \in Under(key, rs) : p \in 1..Len(rs) /\ rs[p] \in Tellings /\ Key(rs[p]) = key
<1>1. DOMAIN rs = 1..Len(rs) /\ \A p \in 1..Len(rs) : rs[p] \in Tellings
  OBVIOUS
<1>2. QED
  BY <1>1 DEF KeysOf, Under

\* The records of a key in a row.
LEMMA ItemsAre ==
  ASSUME NEW rs \in Seq(Tellings), NEW key \in KeysOf(rs)
  PROVE  /\ ItemsOf(rs, key) \in Seq(Tellings) /\ ItemsOf(rs, key) # <<>>
         /\ \A l \in 1..Len(ItemsOf(rs, key)) : \E p \in Under(key, rs) : ItemsOf(rs, key)[l] = rs[p]
         /\ \A p \in Under(key, rs) : \E l \in 1..Len(ItemsOf(rs, key)) : ItemsOf(rs, key)[l] = rs[p]
         /\ (\E p, q \in Under(key, rs) : p # q) => Len(ItemsOf(rs, key)) > 1
         /\ (\A p, q \in Under(key, rs) : p = q) => Len(ItemsOf(rs, key)) = 1
<1>1. PICK at : at = Under(key, rs)
  OBVIOUS
<1>2. at \in SUBSET DOMAIN rs /\ at # {}
  BY <1>1, UnderIs
<1>3. PICK c : c = Cardinality(at)
  OBVIOUS
<1>0. PICK items : items = Picked(rs, at)
  OBVIOUS
<1>4. items \in Seq(Tellings) /\ IsFiniteSet(at) /\ Len(items) = c /\ c \in Nat
  BY <1>0, <1>2, <1>3, PickedIs
<1>5. PICK place \in [1..c -> at] :
        /\ \A i \in at : \E k \in 1..c : place[k] = i
        /\ \A k, l \in 1..c : place[k] = place[l] => k = l
        /\ \A k \in 1..c : items[k] = rs[place[k]]
  BY <1>0, <1>2, <1>3, PickedIs
<1>6. \A l \in 1..c : \E p \in at : items[l] = rs[p]
  BY <1>5
<1>7. \A p \in at : \E l \in 1..c : items[l] = rs[p]
  BY <1>5
<1>8. items # <<>>
  <2>1. PICK p \in at : TRUE
    BY <1>2
  <2>2. PICK l \in 1..c : place[l] = p
    BY <1>5, <2>1
  <2>3. QED
    BY <1>4, <2>2
<1>9. (\E p, q \in at : p # q) => c > 1
  <2> SUFFICES ASSUME NEW p \in at, NEW q \in at, p # q PROVE c > 1
    OBVIOUS
  <2>1. PICK k \in 1..c : place[k] = p
    BY <1>5
  <2>2. PICK l \in 1..c : place[l] = q
    BY <1>5
  <2>3. QED
    BY <1>4, <2>1, <2>2
<1>10. (\A p, q \in at : p = q) => c = 1
  <2> SUFFICES ASSUME \A p, q \in at : p = q PROVE c = 1
    OBVIOUS
  <2>1. c >= 1
    BY <1>4, <1>8
  <2>2. ASSUME c > 1 PROVE FALSE
    <3>1. 1 \in 1..c /\ 2 \in 1..c
      BY <1>4, <2>2
    <3>2. place[1] = place[2]
      BY <1>5, <3>1
    <3>3. QED
      BY <1>5, <3>1, <3>2
  <2>3. QED
    BY <1>4, <2>1, <2>2
<1>11. ItemsOf(rs, key) = items
  BY <1>0, <1>1 DEF ItemsOf
<1>12. QED
  BY <1>1, <1>11, <1>4, <1>6, <1>7, <1>8, <1>9, <1>10

LEMMA MergedOfIs ==
  ASSUME NEW rs \in Seq(Tellings), NEW key \in KeysOf(rs)
  PROVE  /\ MergedOf(rs, key) \in Tellings
         /\ Key(MergedOf(rs, key)) = key
         /\ \E p \in Under(key, rs) : MergedOf(rs, key).abstain = rs[p].abstain
         /\ Range(MergedOf(rs, key).selected) = UNION {Range(rs[p].selected) : p \in Under(key, rs)}
         /\ ~Stray(MergedOf(rs, key))
<1>1. PICK items : items = ItemsOf(rs, key)
  OBVIOUS
<1>2. /\ items \in Seq(Tellings) /\ items # <<>>
      /\ \A l \in 1..Len(items) : \E p \in Under(key, rs) : items[l] = rs[p]
      /\ \A p \in Under(key, rs) : \E l \in 1..Len(items) : items[l] = rs[p]
  BY <1>1, ItemsAre
<1>3. PICK m : m = Merged(items)
  OBVIOUS
<1>4. /\ m \in Tellings /\ m.field = items[1].field
      /\ m.instance = items[1].instance /\ m.abstain = items[1].abstain
      /\ Range(m.selected) = UNION {Range(items[i].selected) : i \in 1..Len(items)}
      /\ ~Stray(m)
  BY <1>2, <1>3, MergedIs
<1>5. 1 \in 1..Len(items)
  BY <1>2
<1>6. PICK p \in Under(key, rs) : items[1] = rs[p]
  BY <1>2, <1>5
<1>7. Key(rs[p]) = key
  BY UnderIs
<1>8. Key(m) = key
  BY <1>4, <1>6, <1>7 DEF Key
<1>9. {Range(items[i].selected) : i \in 1..Len(items)}
        = {Range(rs[q].selected) : q \in Under(key, rs)}
  BY <1>2, ZenonT(40)
<1>10. MergedOf(rs, key) = m
  BY <1>1, <1>3 DEF MergedOf
<1>11. QED
  BY <1>4, <1>6, <1>8, <1>9, <1>10

LEMMA PieceIs ==
  ASSUME NEW menus, NEW rs \in Seq(Tellings), NEW key \in KeysOf(rs)
  PROVE  /\ Piece(menus, rs, key) \in Seq(Tellings) /\ Piece(menus, rs, key) # <<>>
         /\ \A l \in 1..Len(Piece(menus, rs, key)) : Key(Piece(menus, rs, key)[l]) = key
         /\ key \in Repeated(menus, rs) => Len(Piece(menus, rs, key)) = 1 /\ Piece(menus, rs, key)[1] = MergedOf(rs, key)
         /\ key \notin Repeated(menus, rs) =>
              /\ \A l \in 1..Len(Piece(menus, rs, key)) : \E p \in Under(key, rs) : Piece(menus, rs, key)[l] = rs[p]
              /\ (\E p, q \in Under(key, rs) : p # q) => Len(Piece(menus, rs, key)) > 1
              /\ (\A p, q \in Under(key, rs) : p = q) => Len(Piece(menus, rs, key)) = 1
<1>0. PICK piece : piece = Piece(menus, rs, key)
  OBVIOUS
<1>1. CASE key \in Repeated(menus, rs)
  <2>1. PICK m : m = MergedOf(rs, key)
    OBVIOUS
  <2>2. m \in Tellings /\ Key(m) = key
    BY <2>1, MergedOfIs
  <2>3. piece = <<m>>
    BY <1>0, <1>1, <2>1 DEF Piece
  <2>4. QED
    BY <1>0, <1>1, <2>1, <2>2, <2>3
<1>2. CASE key \notin Repeated(menus, rs)
  <2>1. piece = ItemsOf(rs, key)
    BY <1>0, <1>2 DEF Piece
  <2>2. /\ piece \in Seq(Tellings) /\ piece # <<>>
        /\ \A l \in 1..Len(piece) : \E p \in Under(key, rs) : piece[l] = rs[p]
        /\ (\E p, q \in Under(key, rs) : p # q) => Len(piece) > 1
        /\ (\A p, q \in Under(key, rs) : p = q) => Len(piece) = 1
    BY <2>1, ItemsAre
  <2>3. \A l \in 1..Len(piece) : Key(piece[l]) = key
    BY <2>2, UnderIs
  <2>4. QED
    BY <1>0, <1>2, <2>2, <2>3
<1>3. QED
  BY <1>1, <1>2

\* Coalescing leaves every key, with one record if it may be repeated.
LEMMA CoalescedIs ==
  ASSUME NEW menus, NEW rs \in Seq(Tellings)
  PROVE  /\ Coalesced(menus, rs) \in Seq(Tellings)
         /\ \A q \in 1..Len(Coalesced(menus, rs)) : \E key \in KeysOf(rs) :
              \E l \in 1..Len(Piece(menus, rs, key)) :
                Coalesced(menus, rs)[q] = Piece(menus, rs, key)[l]
         /\ \A key \in KeysOf(rs) : \E q \in 1..Len(Coalesced(menus, rs)) :
              Key(Coalesced(menus, rs)[q]) = key
         /\ \A key \in KeysOf(rs) : Len(Piece(menus, rs, key)) > 1 =>
              \E q, r \in 1..Len(Coalesced(menus, rs)) :
                /\ q # r
                /\ Key(Coalesced(menus, rs)[q]) = key
                /\ Key(Coalesced(menus, rs)[r]) = key
         /\ (\A key \in KeysOf(rs) : Len(Piece(menus, rs, key)) = 1) =>
              \A q, r \in 1..Len(Coalesced(menus, rs)) :
                Key(Coalesced(menus, rs)[q]) = Key(Coalesced(menus, rs)[r]) => q = r
<1>1. PICK keys : keys = Keys(rs)
  OBVIOUS
<1>2. PICK K : keys \in Seq(K)
  BY <1>1, KeysAre
<1>3. PICK n \in Nat : n = Len(keys)
  BY <1>2
<1>4. /\ DOMAIN keys = 1..n
      /\ \A k \in 1..n : keys[k] \in KeysOf(rs)
      /\ \A key \in KeysOf(rs) : \E k \in 1..n : keys[k] = key
      /\ \A k, l \in 1..n : keys[k] = keys[l] => k = l
  <2>1. Range(keys) = {keys[k] : k \in 1..n}
    BY <1>2, <1>3, RangeIsSet
  <2>2. Range(keys) = KeysOf(rs)
    BY <1>1, KeysAre
  <2>3. \A k, l \in 1..n : keys[k] = keys[l] => k = l
    BY <1>1, <1>3, KeysAre
  <2>4. DOMAIN keys = 1..n
    BY <1>2, <1>3
  <2>5. QED
    BY <2>1, <2>2, <2>3, <2>4
<1> DEFINE P(key) == Piece(menus, rs, key)
           seqs == [k \in 1..n |-> P(keys[k])]
<1>5. \A key \in KeysOf(rs) :
        P(key) \in Seq(Tellings) /\ P(key) # <<>> /\ \A l \in 1..Len(P(key)) : Key(P(key)[l]) = key
  BY PieceIs
<1>6. Coalesced(menus, rs) = FlattenSeq(seqs)
  <2>1. Keys(rs) = Dedupe([i \in DOMAIN rs |-> Key(rs[i])])
    BY DEF Keys
  <2>2. Coalesced(menus, rs) = FlattenSeq([k \in DOMAIN Keys(rs) |-> Piece(menus, rs, Keys(rs)[k])])
    BY Zenon DEF Coalesced, Piece, Keys, ItemsOf, MergedOf
  <2>3. QED
    BY <1>1, <1>4, <2>2
<1> HIDE DEF P
<1>7. PICK S : S = Seq(Tellings)
  OBVIOUS
<1>8. seqs \in [1..n -> S] /\ \A k \in 1..n : seqs[k] = P(keys[k])
  BY <1>4, <1>5, <1>7
<1> HIDE DEF seqs
<1>9. seqs \in Seq(Seq(Tellings)) /\ Len(seqs) = n
  BY <1>7, <1>8, FunctionIsSeq
<1>10. PICK m : m = FlattenSeq(seqs)
  OBVIOUS
<1>11. m \in Seq(Tellings)
  BY <1>9, <1>10, FlattenSeqLays
<1>12. PICK at \in [1..n -> Nat] : Laid(seqs, n, at, m)
  BY <1>9, <1>10, FlattenSeqLays
<1>13. \A k \in 1..n : \A l \in 1..Len(P(keys[k])) :
         at[k] + l \in 1..Len(m) /\ m[at[k] + l] = P(keys[k])[l]
  <2>1. \A k \in 1..n : \A l \in 1..Len(seqs[k]) :
          at[k] + l \in 1..Len(m) /\ m[at[k] + l] = seqs[k][l]
    BY <1>12 DEF Laid
  <2> TAKE k \in 1..n
  <2>2. seqs[k] = P(keys[k])
    BY <1>8
  <2>3. QED
    BY <2>1, <2>2
<1>14. \A q \in 1..Len(m) : \E k \in 1..n : \E l \in 1..Len(P(keys[k])) :
         q = at[k] + l /\ m[q] = P(keys[k])[l]
  <2> SUFFICES ASSUME NEW q \in 1..Len(m)
               PROVE  \E k \in 1..n : \E l \in 1..Len(P(keys[k])) :
                        q = at[k] + l /\ m[q] = P(keys[k])[l]
    OBVIOUS
  <2>1. PICK k \in 1..n : \E l \in 1..Len(seqs[k]) : q = at[k] + l
    BY <1>12 DEF Laid
  <2>2. PICK l \in 1..Len(P(keys[k])) : q = at[k] + l
    BY <1>8, <2>1
  <2>3. m[q] = P(keys[k])[l]
    BY <1>13, <2>2
  <2>4. QED
    BY <2>2, <2>3
<1>15. \A q \in 1..Len(m) : \E key \in KeysOf(rs) : \E l \in 1..Len(P(key)) : m[q] = P(key)[l]
  <2> TAKE q \in 1..Len(m)
  <2>1. PICK k \in 1..n : \E l \in 1..Len(P(keys[k])) : q = at[k] + l /\ m[q] = P(keys[k])[l]
    BY <1>14
  <2>2. PICK key \in KeysOf(rs) : key = keys[k]
    BY <1>4
  <2>3. \E l \in 1..Len(P(key)) : m[q] = P(key)[l]
    BY <2>1, <2>2
  <2>4. QED
    BY <2>3
<1>16. ASSUME NEW key \in KeysOf(rs)
       PROVE  /\ \E q \in 1..Len(m) : Key(m[q]) = key
              /\ Len(P(key)) > 1 =>
                   \E q, r \in 1..Len(m) : q # r /\ Key(m[q]) = key /\ Key(m[r]) = key
  <2>1. PICK k \in 1..n : keys[k] = key
    BY <1>4
  <2>2. P(key) \in Seq(Tellings) /\ P(key) # <<>> /\ \A l \in 1..Len(P(key)) : Key(P(key)[l]) = key
    BY <1>5
  <2>3. Len(P(key)) \in Nat /\ Len(P(key)) >= 1
    BY <2>2
  <2>4. at[k] + 1 \in 1..Len(m) /\ Key(m[at[k] + 1]) = key
    BY <1>13, <2>1, <2>2, <2>3
  <2>5. ASSUME Len(P(key)) > 1
        PROVE  \E q, r \in 1..Len(m) : q # r /\ Key(m[q]) = key /\ Key(m[r]) = key
    <3>0. 2 \in 1..Len(P(key))
      BY <2>3, <2>5
    <3>1. at[k] + 2 \in 1..Len(m) /\ Key(m[at[k] + 2]) = key
      BY <1>13, <2>1, <2>2, <3>0
    <3>2. at[k] + 1 # at[k] + 2
      OBVIOUS
    <3>3. QED
      BY <2>4, <3>1, <3>2
  <2>6. QED
    BY <2>4, <2>5
<1>17. ASSUME \A key \in KeysOf(rs) : Len(P(key)) = 1
       PROVE  \A q, r \in 1..Len(m) : Key(m[q]) = Key(m[r]) => q = r
  <2> SUFFICES ASSUME NEW q \in 1..Len(m), NEW r \in 1..Len(m), Key(m[q]) = Key(m[r])
               PROVE  q = r
    OBVIOUS
  <2>1. PICK k \in 1..n : \E l \in 1..Len(P(keys[k])) : q = at[k] + l /\ m[q] = P(keys[k])[l]
    BY <1>14
  <2>2. PICK h \in 1..n : \E l \in 1..Len(P(keys[h])) : r = at[h] + l /\ m[r] = P(keys[h])[l]
    BY <1>14
  <2>3. q = at[k] + 1 /\ m[q] = P(keys[k])[1] /\ 1 \in 1..Len(P(keys[k]))
    BY <1>4, <1>17, <2>1
  <2>4. r = at[h] + 1 /\ m[r] = P(keys[h])[1] /\ 1 \in 1..Len(P(keys[h]))
    BY <1>4, <1>17, <2>2
  <2>5. keys[k] = keys[h]
    BY <1>4, <1>5, <2>3, <2>4
  <2>6. QED
    BY <1>4, <2>3, <2>4, <2>5
<1>18. Coalesced(menus, rs) = m
  BY <1>6, <1>10
<1>19. /\ m \in Seq(Tellings)
       /\ \A q \in 1..Len(m) : \E key \in KeysOf(rs) :
            \E l \in 1..Len(Piece(menus, rs, key)) : m[q] = Piece(menus, rs, key)[l]
       /\ \A key \in KeysOf(rs) : \E q \in 1..Len(m) : Key(m[q]) = key
       /\ \A key \in KeysOf(rs) : Len(Piece(menus, rs, key)) > 1 =>
            \E q, r \in 1..Len(m) : q # r /\ Key(m[q]) = key /\ Key(m[r]) = key
       /\ (\A key \in KeysOf(rs) : Len(Piece(menus, rs, key)) = 1) =>
            \A q, r \in 1..Len(m) : Key(m[q]) = Key(m[r]) => q = r
  BY <1>11, <1>15, <1>16, <1>17 DEF P
<1>20. QED
  BY <1>18, <1>19

-----------------------------------------------------------------------------
(* From the records to the observations *)

Menus == [field : STRING \ {UnknownField}, card : Cards, ids : Seq(Nat)]
MenuLists ==
  {ms \in Seq(Menus) : /\ ms # <<>>
                       /\ \A i, j \in DOMAIN ms : ms[i].field = ms[j].field => i = j}
Outcomes == {"NO_CANDIDATES", "ABSTAINED", "SELECTED"}
Observations ==
  [field : STRING \cup {UnknownField}, instance : Instances, outcome : Outcomes,
   selected : Seq(Nat), evidence : Nat \cup {NoId}]

LEMMA MenuOfIs ==
  ASSUME NEW menus \in MenuLists
  PROVE  /\ menus \in Seq(Menus) /\ Len(menus) \in Nat /\ Len(menus) > 0
         /\ DOMAIN menus = 1..Len(menus)
         /\ Range(menus) = {menus[j] : j \in 1..Len(menus)}
         /\ \A j \in 1..Len(menus) :
              /\ menus[j] \in Menus
              /\ MenuOf(menus, menus[j].field) = menus[j]
              /\ Shown(menus, menus[j].field)
         /\ \A f : Shown(menus, f) => \E j \in 1..Len(menus) : menus[j].field = f
         /\ \A i, j \in 1..Len(menus) : menus[i].field = menus[j].field => i = j
<1>1. menus \in Seq(Menus) /\ menus # <<>>
      /\ \A i, j \in DOMAIN menus : menus[i].field = menus[j].field => i = j
  BY DEF MenuLists
<1>2. Len(menus) \in Nat /\ Len(menus) > 0 /\ DOMAIN menus = 1..Len(menus)
      /\ \A j \in 1..Len(menus) : menus[j] \in Menus
  BY <1>1
<1>3. Range(menus) = {menus[j] : j \in 1..Len(menus)}
  BY <1>1, RangeIsSet
<1>4. ASSUME NEW j \in 1..Len(menus)
      PROVE  MenuOf(menus, menus[j].field) = menus[j] /\ Shown(menus, menus[j].field)
  <2>1. menus[j] \in Range(menus)
    BY <1>3
  <2>2. \A m \in Range(menus) : m.field = menus[j].field => m = menus[j]
    BY <1>1, <1>2, <1>3
  <2> DEFINE c == CHOOSE m \in Range(menus) : m.field = menus[j].field
  <2>3. c \in Range(menus) /\ c.field = menus[j].field
    BY <2>1
  <2>4. c = menus[j]
    BY <2>2, <2>3
  <2>5. QED
    BY <2>1, <2>4 DEF MenuOf, Shown
<1>5. \A f : Shown(menus, f) => \E j \in 1..Len(menus) : menus[j].field = f
  BY <1>3 DEF Shown
<1>6. QED
  BY <1>1, <1>2, <1>3, <1>4, <1>5

LEMMA ObservedIs ==
  ASSUME NEW r \in Tellings
  PROVE  /\ Observed(r) \in Observations
         /\ Observed(r).field = r.field /\ Observed(r).instance = r.instance
         /\ Observed(r).selected = r.selected
         /\ Key(Observed(r)) = Key(r)
<1>1. r.selected \in Seq(Nat) /\ r.evidence \in Nat \cup {NoId}
      /\ r.field \in STRING \cup {UnknownField} /\ r.instance \in Instances
  BY DEF Tellings
<1>2. PICK e : e = IF r.abstain THEN NoId ELSE IF Len(r.selected) = 1 THEN r.selected[1] ELSE r.evidence
  OBVIOUS
<1>3. e \in Nat \cup {NoId}
  BY <1>1, <1>2
<1>4. PICK out : out = IF r.abstain THEN "ABSTAINED" ELSE "SELECTED"
  OBVIOUS
<1>10. out \in Outcomes
  BY <1>4 DEF Outcomes
<1>5. Observed(r) = Observation(r, out, e)
  BY <1>2, <1>4 DEF Observed
<1>6. PICK o : o = Observation(r, out, e)
  OBVIOUS
<1>7. o \in Observations /\ o.field = r.field /\ o.instance = r.instance /\ o.selected = r.selected
  BY <1>1, <1>3, <1>6, <1>10 DEF Observation, Observations
<1>8. QED
  BY <1>5, <1>6, <1>7 DEF Key

LEMMA EnforcedIs ==
  ASSUME NEW menus \in MenuLists, NEW os \in Seq(Observations), ~Breach(menus, os)
  PROVE  /\ Enforced(menus, os) \in Seq(Observations)
         /\ Len(Enforced(menus, os)) = Len(menus)
         /\ \A j \in 1..Len(menus) : \E q \in 1..Len(os) :
              Enforced(menus, os)[j] = os[q] /\ os[q].field = menus[j].field
<1>1. /\ Len(menus) \in Nat /\ DOMAIN menus = 1..Len(menus)
      /\ \A j \in 1..Len(menus) : menus[j] \in Range(menus)
  BY MenuOfIs
<1>2. ASSUME NEW j \in 1..Len(menus)
      PROVE  /\ Last(Of(menus[j], os)) \in Observations
             /\ \E q \in 1..Len(os) : Last(Of(menus[j], os)) = os[q] /\ os[q].field = menus[j].field
  <2>1. PICK at : at = {i \in DOMAIN os : os[i].field = menus[j].field}
    OBVIOUS
  <2>2. PICK mine : mine = Of(menus[j], os)
    OBVIOUS
  <2>3. mine = Picked(os, at) /\ at \in SUBSET DOMAIN os
    BY <2>1, <2>2 DEF Of
  <2>4. mine \in Seq(Observations) /\ Range(mine) = {os[i] : i \in at}
    BY <2>3, PickedIs
  <2>5. mine # <<>>
    BY <1>1, <2>2 DEF Breach
  <2>6. Len(mine) \in 1..Len(mine)
    BY <2>4, <2>5
  <2>10. mine[Len(mine)] \in Range(mine)
    BY <2>4, <2>6 DEF Range
  <2>7. PICK i \in at : mine[Len(mine)] = os[i]
    BY <2>4, <2>10
  <2>8. Last(mine) = mine[Len(mine)]
    BY DEF Last
  <2>9. QED
    BY <2>1, <2>2, <2>4, <2>6, <2>7, <2>8
<1> DEFINE en == [i \in DOMAIN menus |-> Last(Of(menus[i], os))]
<1>3. en \in [1..Len(menus) -> Observations] /\ \A j \in 1..Len(menus) : en[j] = Last(Of(menus[j], os))
  BY <1>1, <1>2
<1>4. Enforced(menus, os) = en
  BY DEF Enforced
<1> HIDE DEF en
<1>5. en \in Seq(Observations) /\ Len(en) = Len(menus)
  BY <1>1, <1>3, FunctionIsSeq
<1>6. QED
  BY <1>2, <1>3, <1>4, <1>5

ObservedAll(rs) == [i \in DOMAIN rs |-> Observed(rs[i])]

LEMMA ObservedAllIs ==
  ASSUME NEW rs \in Seq(Tellings)
  PROVE  /\ ObservedAll(rs) \in Seq(Observations)
         /\ Len(ObservedAll(rs)) = Len(rs)
         /\ \A i \in 1..Len(rs) : ObservedAll(rs)[i] = Observed(rs[i])
<1>1. Len(rs) \in Nat /\ DOMAIN rs = 1..Len(rs) /\ \A i \in 1..Len(rs) : rs[i] \in Tellings
  OBVIOUS
<1>2. \A i \in 1..Len(rs) : Observed(rs[i]) \in Observations
  BY <1>1, ObservedIs
<1> DEFINE all == [i \in DOMAIN rs |-> Observed(rs[i])]
<1>3. all \in [1..Len(rs) -> Observations] /\ \A i \in 1..Len(rs) : all[i] = Observed(rs[i])
  BY <1>1, <1>2
<1>4. ObservedAll(rs) = all
  BY DEF ObservedAll
<1> HIDE DEF all
<1>5. QED
  BY <1>1, <1>3, <1>4, FunctionIsSeq

\* Why a batch of answers is taken.
LEMMA TakenBecause ==
  ASSUME NEW menus, NEW rs, FromBatch(menus, rs).why = "none"
  PROVE  /\ \A i \in DOMAIN rs : rs[i].field # UnknownField
         /\ ~Breach(menus, ObservedAll(Coalesced(menus, rs)))
         /\ FromBatch(menus, rs).value = Enforced(menus, ObservedAll(Coalesced(menus, rs)))
<1>1. PICK why : why = FirstObjection(menus, Coalesced(menus, rs))
  OBVIOUS
<1>2. PICK os : os = ObservedAll(Coalesced(menus, rs))
  OBVIOUS
<1>3. FromBatch(menus, rs) =
        IF \E i \in DOMAIN rs : rs[i].field = UnknownField THEN Raised("contract")
        ELSE IF \E key \in Repeated(menus, rs) : IsMixed(key, rs) THEN Raised("contract")
        ELSE IF why # "none" THEN Raised(why)
        ELSE IF Breach(menus, os) THEN Raised("contract")
        ELSE Fine(Enforced(menus, os))
  BY <1>1, <1>2 DEF FromBatch, ObservedAll
<1>4. Raised("contract").why # "none" /\ (why # "none" => Raised(why).why # "none")
  BY DEF Raised
<1>5. FromBatch(menus, rs) = Fine(Enforced(menus, os))
      /\ (\A i \in DOMAIN rs : rs[i].field # UnknownField) /\ ~Breach(menus, os)
  BY <1>3, <1>4
<1>6. Fine(Enforced(menus, os)).value = Enforced(menus, os)
  BY DEF Fine
<1>7. QED
  BY <1>2, <1>5, <1>6

LEMMA CoalescedKeepsKeys ==
  ASSUME NEW menus, NEW rs \in Seq(Tellings)
  PROVE  \A k \in KeysOf(rs) : \E q \in 1..Len(Coalesced(menus, rs)) :
           Key(Coalesced(menus, rs)[q]) = k
  BY CoalescedIs

\* all that the records of a field select
SaidOf(rs, f) == UNION {Range(rs[p].selected) : p \in {i \in DOMAIN rs : rs[i].field = f}}

\* A batch that is taken tells, of each field, all that its records select, if
\* they are all about one instance.
LEMMA FromBatchTells ==
  ASSUME NEW menus \in MenuLists, NEW rs \in Seq(Tellings), FromBatch(menus, rs).why = "none",
         \A p, q \in 1..Len(rs) : rs[p].field = rs[q].field => rs[p].instance = rs[q].instance
  PROVE  /\ FromBatch(menus, rs).value \in Seq(Observations)
         /\ Len(FromBatch(menus, rs).value) = Len(menus)
         /\ \A j \in 1..Len(menus) :
              /\ FromBatch(menus, rs).value[j].field = menus[j].field
              /\ \E p \in 1..Len(rs) : rs[p].field = menus[j].field
              /\ Range(FromBatch(menus, rs).value[j].selected) = SaidOf(rs, menus[j].field)
<1>1. PICK m : m = Coalesced(menus, rs)
  OBVIOUS
<1>2. PICK os : os = ObservedAll(m)
  OBVIOUS
<1>3. PICK value : value = FromBatch(menus, rs).value
  OBVIOUS
<1>4. ~Breach(menus, os) /\ value = Enforced(menus, os)
  BY <1>1, <1>2, <1>3, TakenBecause
<1>5a. /\ Coalesced(menus, rs) \in Seq(Tellings)
       /\ \A q \in 1..Len(Coalesced(menus, rs)) : \E key \in KeysOf(rs) :
            \E l \in 1..Len(Piece(menus, rs, key)) :
              Coalesced(menus, rs)[q] = Piece(menus, rs, key)[l]
  BY CoalescedIs
<1>5. m \in Seq(Tellings) /\ \A q \in 1..Len(m) : m[q] \in Tellings
  <2>1. m \in Seq(Tellings)
    BY <1>1, <1>5a
  <2>2. QED
    BY <2>1
<1>6. os \in Seq(Observations) /\ Len(os) = Len(m) /\ \A q \in 1..Len(m) : os[q] = Observed(m[q])
  BY <1>2, <1>5, ObservedAllIs
<1>7. value \in Seq(Observations) /\ Len(value) = Len(menus)
      /\ \A j \in 1..Len(menus) : \E q \in 1..Len(os) :
           value[j] = os[q] /\ os[q].field = menus[j].field
  BY <1>4, <1>6, EnforcedIs
<1>8. \A key \in KeysOf(rs) : Len(Piece(menus, rs, key)) = 1
  <2> SUFFICES ASSUME NEW key \in KeysOf(rs), Len(Piece(menus, rs, key)) # 1 PROVE FALSE
    OBVIOUS
  <2>1. Piece(menus, rs, key) \in Seq(Tellings) /\ Piece(menus, rs, key) # <<>>
    BY PieceIs
  <2>2. Len(Piece(menus, rs, key)) > 1
    BY <2>1, MoreThanOne
  <2>7. \A k \in KeysOf(rs) : Len(Piece(menus, rs, k)) > 1 =>
          \E q, r \in 1..Len(Coalesced(menus, rs)) :
            /\ q # r
            /\ Key(Coalesced(menus, rs)[q]) = k
            /\ Key(Coalesced(menus, rs)[r]) = k
    BY CoalescedIs, ZenonT(40)
  <2>3. PICK q, r \in 1..Len(m) : q # r /\ Key(m[q]) = key /\ Key(m[r]) = key
    BY <1>1, <2>2, <2>7
  <2>4. Key(os[q]) = Key(os[r])
    BY <1>5, <1>6, <2>3, ObservedIs
  <2>5. q \in DOMAIN os /\ r \in DOMAIN os
    BY <1>6, <2>3
  <2>6. QED
    BY <1>4, <2>3, <2>4, <2>5 DEF Breach
<1>9. ASSUME NEW j \in 1..Len(menus)
      PROVE  /\ value[j].field = menus[j].field
             /\ \E p \in 1..Len(rs) : rs[p].field = menus[j].field
             /\ Range(value[j].selected) = SaidOf(rs, menus[j].field)
  <2>1. PICK q \in 1..Len(m) : value[j] = os[q] /\ os[q].field = menus[j].field
    BY <1>6, <1>7
  <2>2. value[j].selected = m[q].selected /\ m[q].field = menus[j].field
    BY <1>5, <1>6, <2>1, ObservedIs
  <2>3. PICK key \in KeysOf(rs) : \E l \in 1..Len(Piece(menus, rs, key)) : m[q] = Piece(menus, rs, key)[l]
    BY <1>1, <1>5a
  <2>4. PICK piece : piece = Piece(menus, rs, key)
    OBVIOUS
  <2>5. Len(piece) = 1 /\ m[q] = piece[1] /\ Key(piece[1]) = key
    <3>1. Len(piece) = 1
      BY <1>8, <2>4
    <3>2. m[q] = piece[1]
      BY <2>3, <2>4, <3>1
    <3>3. \A l \in 1..Len(piece) : Key(piece[l]) = key
      <4>1. \A l \in 1..Len(Piece(menus, rs, key)) : Key(Piece(menus, rs, key)[l]) = key
        BY PieceIs
      <4>2. QED
        BY <2>4, <4>1
    <3>4. QED
      BY <3>1, <3>2, <3>3
  <2>6. PICK p0 \in Under(key, rs) : p0 \in 1..Len(rs) /\ Key(rs[p0]) = key
    BY UnderIs
  <2>7. rs[p0].field = menus[j].field
    BY <2>2, <2>5, <2>6 DEF Key
  <2>8. Under(key, rs) = {i \in DOMAIN rs : rs[i].field = menus[j].field}
    <3>1. \A i \in DOMAIN rs : Key(rs[i]) = key <=> rs[i].field = menus[j].field
      BY <2>6, <2>7 DEF Key
    <3>2. QED
      BY <3>1 DEF Under
  <2>9. Range(m[q].selected) = UNION {Range(rs[p].selected) : p \in Under(key, rs)}
    <3>1. CASE key \in Repeated(menus, rs)
      <4>1. m[q] = MergedOf(rs, key)
        BY <2>4, <2>5, <3>1, PieceIs
      <4>2. QED
        BY <4>1, MergedOfIs
    <3>2. CASE key \notin Repeated(menus, rs)
      <4>1. PICK p \in Under(key, rs) : m[q] = rs[p]
        BY <2>4, <2>5, <3>2, PieceIs
      <4>2. \A i \in Under(key, rs) : i = p
        BY <2>4, <2>5, <3>2, PieceIs
      <4>3. {Range(rs[i].selected) : i \in Under(key, rs)} = {Range(m[q].selected)}
        BY <4>1, <4>2
      <4>4. QED
        BY <4>3
    <3>3. QED
      BY <3>1, <3>2
  <2>10. QED
    BY <2>1, <2>2, <2>6, <2>7, <2>8, <2>9 DEF SaidOf
<1>10. QED
  BY <1>3, <1>7, <1>9

\* an answer there is nothing to say against
Sound(menus, r) ==
  \E j \in 1..Len(menus) : /\ r.field = menus[j].field
                           /\ Range(r.selected) \subseteq Range(menus[j].ids)
                           /\ Objection(menus[j].card, r) = "none"

\* only what is MANY is said in pieces, and no piece of it is an abstention
Repeatable(menus, rs) ==
  \A p, q \in 1..Len(rs) : (p # q /\ Key(rs[p]) = Key(rs[q])) =>
    /\ ~rs[p].abstain /\ ~rs[q].abstain
    /\ \A j \in 1..Len(menus) : menus[j].field = rs[p].field => menus[j].card = "MANY"

Complete(menus, rs) == \A j \in 1..Len(menus) : \E p \in 1..Len(rs) : rs[p].field = menus[j].field

LEMMA SoundStays ==
  ASSUME NEW menus \in MenuLists, NEW rs \in Seq(Tellings), NEW key \in KeysOf(rs),
         \A p \in 1..Len(rs) : Sound(menus, rs[p]),
         key \in Repeated(menus, rs)
  PROVE  Sound(menus, MergedOf(rs, key))
<1>1. PICK r : r = MergedOf(rs, key)
  OBVIOUS
<1>2. /\ r \in Tellings /\ Key(r) = key /\ ~Stray(r)
      /\ Range(r.selected) = UNION {Range(rs[p].selected) : p \in Under(key, rs)}
  BY <1>1, MergedOfIs
<1>3. PICK p \in Under(key, rs) : p \in 1..Len(rs) /\ Key(rs[p]) = key
  BY UnderIs
<1>4. PICK j \in 1..Len(menus) : rs[p].field = menus[j].field
  BY <1>3 DEF Sound
<1>5. r.field = menus[j].field /\ key[1] = menus[j].field
  BY <1>2, <1>3, <1>4 DEF Key
<1>6. MenuOf(menus, menus[j].field) = menus[j]
      /\ \A i \in 1..Len(menus) : menus[i].field = menus[j].field => i = j
  BY MenuOfIs
<1>7. menus[j].card = "MANY"
  BY <1>5, <1>6 DEF Repeated
<1>8. ASSUME NEW q \in Under(key, rs)
      PROVE  Range(rs[q].selected) \subseteq Range(menus[j].ids)
  <2>1. q \in 1..Len(rs) /\ Key(rs[q]) = key
    BY UnderIs
  <2>2. rs[q].field = menus[j].field
    BY <1>5, <2>1 DEF Key
  <2>3. PICK i \in 1..Len(menus) : /\ rs[q].field = menus[i].field
                                   /\ Range(rs[q].selected) \subseteq Range(menus[i].ids)
    BY <2>1 DEF Sound
  <2>4. i = j
    BY <1>6, <2>2, <2>3
  <2>5. QED
    BY <2>3, <2>4
<1>9. Range(r.selected) \subseteq Range(menus[j].ids)
  BY <1>2, <1>8
<1>10. Objection(menus[j].card, r) = "none"
  BY <1>2, <1>7 DEF Objection
<1>11. QED
  BY <1>1, <1>5, <1>9, <1>10 DEF Sound

LEMMA FromBatchIsFine ==
  ASSUME NEW menus \in MenuLists, NEW rs \in Seq(Tellings),
         \A p \in 1..Len(rs) : Sound(menus, rs[p]),
         Repeatable(menus, rs), Complete(menus, rs)
  PROVE  FromBatch(menus, rs).why = "none"
<1>0. DOMAIN rs = 1..Len(rs) /\ \A p \in 1..Len(rs) : rs[p] \in Tellings
  OBVIOUS
<1>1. ~ \E i \in DOMAIN rs : rs[i].field = UnknownField
  <2> SUFFICES ASSUME NEW i \in 1..Len(rs) PROVE rs[i].field # UnknownField
    BY <1>0
  <2>1. PICK j \in 1..Len(menus) : rs[i].field = menus[j].field
    BY DEF Sound
  <2>2. menus[j] \in Menus
    BY MenuOfIs
  <2>3. QED
    BY <2>1, <2>2 DEF Menus
<1>2. ~ \E key \in Repeated(menus, rs) : IsMixed(key, rs)
  <2> SUFFICES ASSUME NEW key \in Repeated(menus, rs), NEW i \in Under(key, rs),
                      NEW j \in Under(key, rs), rs[i].abstain # rs[j].abstain
               PROVE  FALSE
    BY DEF IsMixed
  <2>1. i \in 1..Len(rs) /\ j \in 1..Len(rs) /\ Key(rs[i]) = Key(rs[j])
    BY <1>0 DEF Under
  <2>2. i # j
    OBVIOUS
  <2>3. ~rs[i].abstain /\ ~rs[j].abstain
    BY <2>1, <2>2 DEF Repeatable
  <2>4. rs[i].abstain \in BOOLEAN /\ rs[j].abstain \in BOOLEAN
    BY <1>0, <2>1 DEF Tellings
  <2>5. rs[i].abstain = FALSE /\ rs[j].abstain = FALSE
    BY <2>3, <2>4
  <2>6. QED
    BY <2>5
<1>3. ASSUME NEW key \in KeysOf(rs)
      PROVE  Len(Piece(menus, rs, key)) = 1
  <2>1. CASE key \in Repeated(menus, rs)
    BY <2>1, PieceIs
  <2>2. CASE key \notin Repeated(menus, rs)
    <3>1. \A p, q \in Under(key, rs) : p = q
      <4> SUFFICES ASSUME NEW p \in Under(key, rs), NEW q \in Under(key, rs), p # q
                   PROVE  key \in Repeated(menus, rs)
        BY <2>2
      <4>1. p \in 1..Len(rs) /\ q \in 1..Len(rs) /\ Key(rs[p]) = key /\ Key(rs[q]) = key
        BY UnderIs
      <4>2. PICK j \in 1..Len(menus) : rs[p].field = menus[j].field
        BY <4>1 DEF Sound
      <4>3. menus[j].card = "MANY"
        BY <4>1, <4>2 DEF Repeatable
      <4>4. key[1] = menus[j].field
        BY <4>1, <4>2 DEF Key
      <4>5. MenuOf(menus, key[1]).card = "MANY"
        BY <4>3, <4>4, MenuOfIs
      <4>6. QED
        BY <4>5 DEF Repeated, KeysOf
    <3>2. QED
      BY <2>2, <3>1, PieceIs
  <2>3. QED
    BY <2>1, <2>2
<1>4. PICK m : m = Coalesced(menus, rs)
  OBVIOUS
<1>3a. /\ Coalesced(menus, rs) \in Seq(Tellings)
       /\ \A q \in 1..Len(Coalesced(menus, rs)) : \E key \in KeysOf(rs) :
            \E l \in 1..Len(Piece(menus, rs, key)) :
              Coalesced(menus, rs)[q] = Piece(menus, rs, key)[l]
  BY CoalescedIs
<1>5. /\ m \in Seq(Tellings)
      /\ \A q \in 1..Len(m) : \E key \in KeysOf(rs) :
           \E l \in 1..Len(Piece(menus, rs, key)) : m[q] = Piece(menus, rs, key)[l]
  BY <1>3a, <1>4
<1>6. \A q \in 1..Len(m) : m[q] \in Tellings /\ q \in DOMAIN m
  BY <1>5
<1>7. ASSUME NEW q \in 1..Len(m)
      PROVE  Sound(menus, m[q])
  <2>1. PICK key \in KeysOf(rs) : \E l \in 1..Len(Piece(menus, rs, key)) : m[q] = Piece(menus, rs, key)[l]
    BY <1>5
  <2>2. PICK piece : piece = Piece(menus, rs, key)
    OBVIOUS
  <2>3. Len(piece) = 1
    BY <1>3, <2>2
  <2>4. m[q] = piece[1] /\ 1 \in 1..Len(piece)
    BY <2>1, <2>2, <2>3
  <2>5. CASE key \in Repeated(menus, rs)
    <3>1. m[q] = MergedOf(rs, key)
      BY <2>2, <2>4, <2>5, PieceIs
    <3>2. QED
      BY <2>5, <3>1, SoundStays
  <2>6. CASE key \notin Repeated(menus, rs)
    <3>1. PICK p \in Under(key, rs) : m[q] = rs[p]
      BY <2>2, <2>4, <2>6, PieceIs
    <3>2. p \in 1..Len(rs)
      BY UnderIs
    <3>3. QED
      BY <3>1, <3>2
  <2>7. QED
    BY <2>5, <2>6
<1>8. FirstObjection(menus, m) = "none"
  <2>1. \A q \in 1..Len(m) : Objection(MenuOf(menus, m[q].field).card, m[q]) = "none"
    BY <1>7, MenuOfIs DEF Sound
  <2>2. DOMAIN m = 1..Len(m)
    BY <1>5
  <2>3. QED
    BY <2>1, <2>2 DEF FirstObjection
<1>9. PICK os : os = ObservedAll(m)
  OBVIOUS
<1>10. os \in Seq(Observations) /\ Len(os) = Len(m) /\ \A q \in 1..Len(m) : os[q] = Observed(m[q])
  BY <1>5, <1>9, ObservedAllIs
<1>11. /\ DOMAIN os = 1..Len(m)
       /\ \A q \in 1..Len(m) : /\ os[q].field = m[q].field
                               /\ os[q].selected = m[q].selected
                               /\ Key(os[q]) = Key(m[q])
  <2>1. DOMAIN os = 1..Len(m)
    BY <1>10
  <2>2. QED
    BY <1>6, <1>10, <2>1, ObservedIs
<1>12. ASSUME NEW q \in 1..Len(m)
       PROVE  /\ Shown(menus, os[q].field)
              /\ Range(os[q].selected) \subseteq Range(MenuOf(menus, os[q].field).ids)
  <2>1. PICK j \in 1..Len(menus) : /\ m[q].field = menus[j].field
                                   /\ Range(m[q].selected) \subseteq Range(menus[j].ids)
    BY <1>7 DEF Sound
  <2>2. MenuOf(menus, menus[j].field) = menus[j] /\ Shown(menus, menus[j].field)
    BY MenuOfIs
  <2>3. QED
    BY <1>11, <2>1, <2>2
<1>13. \A q, r \in 1..Len(m) : Key(m[q]) = Key(m[r]) => q = r
  BY <1>3, <1>4, CoalescedIs
<1>14. \A i \in Range(menus) : Of(i, os) # <<>>
  <2> SUFFICES ASSUME NEW j \in 1..Len(menus) PROVE Of(menus[j], os) # <<>>
    BY MenuOfIs
  <2>1. PICK p \in 1..Len(rs) : rs[p].field = menus[j].field
    BY DEF Complete
  <2>2. PICK key \in KeysOf(rs) : key = Key(rs[p])
    BY <1>0 DEF KeysOf
  <2>12. \A k \in KeysOf(rs) : \E q \in 1..Len(Coalesced(menus, rs)) :
           Key(Coalesced(menus, rs)[q]) = k
    BY CoalescedKeepsKeys
  <2>3. PICK q \in 1..Len(m) : Key(m[q]) = key
    BY <1>4, <2>12
  <2>4. os[q].field = menus[j].field
    BY <1>11, <2>1, <2>2, <2>3 DEF Key
  <2>5. PICK at : at = {i \in DOMAIN os : os[i].field = menus[j].field}
    OBVIOUS
  <2>6. at \in SUBSET DOMAIN os /\ q \in at
    BY <1>11, <2>4, <2>5
  <2>7. PICK mine : mine = Picked(os, at)
    OBVIOUS
  <2>8. Range(mine) = {os[i] : i \in at}
    BY <1>10, <2>6, <2>7, PickedIs
  <2>9. os[q] \in Range(mine)
    BY <2>6, <2>8
  <2>10. mine # <<>>
    BY <2>9 DEF Range
  <2>11. QED
    BY <2>5, <2>7, <2>10 DEF Of
<1>15. ~Breach(menus, os)
  BY <1>11, <1>12, <1>13, <1>14 DEF Breach
<1>16. FromBatch(menus, rs) = Fine(Enforced(menus, os))
  BY <1>1, <1>2, <1>4, <1>8, <1>9, <1>15 DEF FromBatch, ObservedAll
<1>17. QED
  BY <1>16 DEF Fine

-----------------------------------------------------------------------------
(* What a record of a reply points at *)

LocalIds == STRING \X Nat
Replies ==
  [field : STRING \cup {UnknownField}, instance : Instances, evidence : LocalIds \cup {NoId},
   selected : Seq(LocalIds), abstain : BOOLEAN]

\* the local ids of a record once it is completed
Points(r) ==
  IF ~r.abstain /\ r.evidence # NoId /\ r.selected = <<>> THEN {r.evidence} ELSE Range(r.selected)

\* no call would refuse to read this record as one of the menu's field
Takeable(menu, r) ==
  /\ r.field = menu.field
  /\ ~Malformed(r)
  /\ ~r.abstain => \A id \in Points(r) \cup ({r.evidence} \ {NoId}) : Known(menu, id)

PointedAt(menu, r) == {menu.ids[id[2]] : id \in Points(r)}

\* nor refuse it for what it selects
WellPut(card, r) ==
  \/ r.abstain
  \/ /\ Points(r) # {} \/ card = "MANY"
     /\ r.evidence = NoId \/ r.evidence \in Points(r)

LEMMA CompletedIs ==
  ASSUME NEW r \in Replies
  PROVE  /\ Completed(r) \in Replies
         /\ Completed(r).field = r.field /\ Completed(r).instance = r.instance
         /\ Completed(r).abstain = r.abstain
         /\ r.abstain => Completed(r) = r
         /\ Range(Completed(r).selected) = Points(r)
         /\ Completed(r).evidence = r.evidence
              \/ (r.evidence = NoId /\ Completed(r).evidence \in Points(r))
<1>1. r = [field |-> r.field, instance |-> r.instance, evidence |-> r.evidence,
           selected |-> r.selected, abstain |-> r.abstain]
      /\ r.field \in STRING \cup {UnknownField} /\ r.instance \in Instances
      /\ r.evidence \in LocalIds \cup {NoId} /\ r.selected \in Seq(LocalIds) /\ r.abstain \in BOOLEAN
  BY DEF Replies
<1>2. CASE ~r.abstain /\ r.evidence # NoId /\ r.selected = <<>>
  <2>1. PICK s : s = <<r.evidence>>
    OBVIOUS
  <2>2. s \in Seq(LocalIds) /\ Range(s) = {r.evidence}
    BY <1>1, <1>2, <2>1 DEF Range
  <2>3. Completed(r) = [r EXCEPT !.selected = s]
    BY <1>2, <2>1 DEF Completed
  <2>4. [r EXCEPT !.selected = s] = [field |-> r.field, instance |-> r.instance,
           evidence |-> r.evidence, selected |-> s, abstain |-> r.abstain]
    BY <1>1
  <2>5. PICK c : c = [field |-> r.field, instance |-> r.instance,
           evidence |-> r.evidence, selected |-> s, abstain |-> r.abstain]
    OBVIOUS
  <2>6. c \in Replies /\ c.field = r.field /\ c.instance = r.instance /\ c.abstain = r.abstain
        /\ c.selected = s /\ c.evidence = r.evidence
    BY <1>1, <2>2, <2>5 DEF Replies
  <2>7. Points(r) = {r.evidence}
    BY <1>2 DEF Points
  <2>8. QED
    BY <1>2, <2>2, <2>3, <2>4, <2>5, <2>6, <2>7
<1>3. CASE ~r.abstain /\ r.evidence = NoId /\ Len(r.selected) = 1
  <2>1. PICK e : e = r.selected[1]
    OBVIOUS
  <2>2. e \in LocalIds /\ e \in Range(r.selected) /\ r.selected # <<>>
    BY <1>1, <1>3, <2>1 DEF Range
  <2>3. Completed(r) = [r EXCEPT !.evidence = e]
    BY <1>3, <2>1, <2>2 DEF Completed
  <2>4. [r EXCEPT !.evidence = e] = [field |-> r.field, instance |-> r.instance,
           evidence |-> e, selected |-> r.selected, abstain |-> r.abstain]
    BY <1>1
  <2>5. PICK c : c = [field |-> r.field, instance |-> r.instance,
           evidence |-> e, selected |-> r.selected, abstain |-> r.abstain]
    OBVIOUS
  <2>6. c \in Replies /\ c.field = r.field /\ c.instance = r.instance /\ c.abstain = r.abstain
        /\ c.selected = r.selected /\ c.evidence = e
    BY <1>1, <2>2, <2>5 DEF Replies
  <2>7. Points(r) = Range(r.selected)
    BY <1>3 DEF Points
  <2>8. QED
    BY <1>3, <2>2, <2>3, <2>4, <2>5, <2>6, <2>7
<1>4. CASE ~(~r.abstain /\ r.evidence # NoId /\ r.selected = <<>>)
           /\ ~(~r.abstain /\ r.evidence = NoId /\ Len(r.selected) = 1)
  <2>1. Completed(r) = r
    BY <1>4 DEF Completed
  <2>2. Points(r) = Range(r.selected)
    BY <1>4 DEF Points
  <2>3. QED
    BY <2>1, <2>2
<1>5. r.abstain => Completed(r) = r
  BY DEF Completed
<1>6. QED
  BY <1>2, <1>3, <1>4, <1>5

\* A record that can be read comes to the candidates it points at.
LEMMA TranslatedIs ==
  ASSUME NEW menus \in MenuLists, NEW j \in 1..Len(menus), NEW r \in Replies,
         Takeable(menus[j], r), NEW t, t = Translated(menus, Completed(r))
  PROVE  /\ t \in Tellings
         /\ t.field = r.field /\ t.instance = r.instance /\ t.abstain = r.abstain
         /\ Range(t.selected) = PointedAt(menus[j], r)
         /\ Range(t.selected) \subseteq Range(menus[j].ids)
         /\ WellPut(menus[j].card, r) => Objection(menus[j].card, t) = "none"
<1>1. PICK menu \in Menus : menu = menus[j] /\ MenuOf(menus, menu.field) = menu /\ Shown(menus, menu.field)
  BY MenuOfIs
<1>2. PICK c \in Replies : c = Completed(r)
  BY CompletedIs
<1>3. /\ c.field = r.field /\ c.instance = r.instance /\ c.abstain = r.abstain
      /\ r.abstain => c = r
      /\ Range(c.selected) = Points(r)
      /\ c.evidence = r.evidence \/ (r.evidence = NoId /\ c.evidence \in Points(r))
  BY <1>2, CompletedIs
<1>4. r.field = menu.field /\ ~Malformed(r)
      /\ (~r.abstain => \A id \in Points(r) \cup ({r.evidence} \ {NoId}) : Known(menu, id))
  BY <1>1 DEF Takeable
<1>5. c = [field |-> c.field, instance |-> c.instance, evidence |-> c.evidence,
           selected |-> c.selected, abstain |-> c.abstain]
      /\ c.field \in STRING \cup {UnknownField} /\ c.instance \in Instances
      /\ c.evidence \in LocalIds \cup {NoId} /\ c.selected \in Seq(LocalIds) /\ c.abstain \in BOOLEAN
  BY DEF Replies
<1>6. menu.ids \in Seq(Nat)
  BY DEF Menus
<1>7. CASE r.abstain
  <2>1. r.evidence = NoId /\ r.selected = <<>>
    BY <1>4, <1>7 DEF Malformed
  <2>2. t = r
    BY <1>2, <1>3, <1>7 DEF Translated
  <2>3. c = r
    BY <1>3, <1>7
  <2>4. r \in Tellings
    <3>1. r = [field |-> r.field, instance |-> r.instance, evidence |-> NoId,
               selected |-> r.selected, abstain |-> r.abstain]
      BY <1>5, <2>1, <2>3
    <3>2. r.selected \in Seq(Nat)
      BY <2>1
    <3>3. QED
      BY <1>5, <2>3, <3>1, <3>2 DEF Tellings
  <2>5. Range(r.selected) = {}
    BY <2>1 DEF Range
  <2>6. PointedAt(menu, r) = {}
    BY <1>7, <2>5 DEF PointedAt, Points
  <2>7. Objection(menu.card, t) = "none"
    BY <1>7, <2>2 DEF Objection
  <2>8. QED
    BY <1>1, <2>2, <2>4, <2>5, <2>6, <2>7
<1>8. CASE ~r.abstain
  <2> DEFINE sel == [i \in DOMAIN c.selected |-> Means(menu, c.selected[i])]
  <2>1. PICK e : e = IF c.evidence = NoId THEN NoId ELSE Means(menu, c.evidence)
    OBVIOUS
  <2>2. t = [[c EXCEPT !.evidence = e] EXCEPT !.selected = sel]
    <3>1. ~(c.abstain \/ ~Shown(menus, c.field)) /\ MenuOf(menus, c.field) = menu
      BY <1>1, <1>3, <1>4, <1>8
    <3>2. t = LET m == MenuOf(menus, c.field)
              IN [c EXCEPT !.evidence = IF @ = NoId THEN NoId ELSE Means(m, @),
                           !.selected = [i \in DOMAIN @ |-> Means(m, @[i])]]
      BY <1>2, <3>1 DEF Translated
    <3>3. t = [c EXCEPT !.evidence = IF c.evidence = NoId THEN NoId ELSE Means(menu, c.evidence),
                        !.selected = [i \in DOMAIN c.selected |-> Means(menu, c.selected[i])]]
      BY <1>5, <3>1, <3>2
    <3>4. QED
      BY <1>5, <2>1, <3>3
  <2>3. \A id \in Points(r) : id[2] \in DOMAIN menu.ids /\ Means(menu, id) = menu.ids[id[2]]
                              /\ Means(menu, id) \in Nat
    <3>1. \A id \in Points(r) : id[2] \in DOMAIN menu.ids
      BY <1>4, <1>8 DEF Known
    <3>2. QED
      BY <1>6, <3>1 DEF Means
  <2>4. DOMAIN c.selected = 1..Len(c.selected) /\ Len(c.selected) \in Nat
        /\ \A i \in 1..Len(c.selected) : c.selected[i] \in Points(r)
    BY <1>3, <1>5 DEF Range
  <2>5. sel \in [1..Len(c.selected) -> Nat]
        /\ \A i \in 1..Len(c.selected) : sel[i] = menu.ids[c.selected[i][2]]
    BY <2>3, <2>4
  <2> HIDE DEF sel
  <2>6. sel \in Seq(Nat) /\ Len(sel) = Len(c.selected)
    BY <2>4, <2>5, FunctionIsSeq
  <2>7. Range(sel) = PointedAt(menu, r)
    <3>1. Range(sel) = {sel[i] : i \in 1..Len(c.selected)}
      BY <2>6, RangeIsSet
    <3>2. Points(r) = {c.selected[i] : i \in 1..Len(c.selected)}
      BY <1>3, <1>5, RangeIsSet
    <3>3. PointedAt(menu, r) = {menu.ids[c.selected[i][2]] : i \in 1..Len(c.selected)}
      BY <3>2 DEF PointedAt
    <3>4. QED
      BY <2>5, <3>1, <3>3
  <2>8. PointedAt(menu, r) \subseteq Range(menu.ids)
    BY <2>3 DEF PointedAt, Range
  <2>9. e \in Nat \cup {NoId} /\ (e = NoId \/ (c.evidence # NoId /\ e = Means(menu, c.evidence)))
    <3>1. c.evidence # NoId => Known(menu, c.evidence)
      BY <1>3, <1>4, <1>8
    <3>2. c.evidence # NoId => Means(menu, c.evidence) \in Nat
      BY <1>6, <3>1, SMTT(30) DEF Known, Means
    <3>3. CASE c.evidence = NoId
      <4>1. e = NoId
        BY <2>1, <3>3
      <4>2. QED
        BY <4>1
    <3>4. CASE c.evidence # NoId
      <4>1. e = Means(menu, c.evidence)
        BY <2>1, <3>4
      <4>2. QED
        BY <3>2, <3>4, <4>1
    <3>5. QED
      BY <3>3, <3>4
  <2>10. t = [field |-> c.field, instance |-> c.instance, evidence |-> e,
              selected |-> sel, abstain |-> c.abstain]
    BY <1>5, <2>2
  <2>11. t \in Tellings /\ t.field = c.field /\ t.instance = c.instance /\ t.evidence = e
         /\ t.selected = sel /\ t.abstain = c.abstain
    BY <1>5, <2>6, <2>9, <2>10 DEF Tellings
  <2>12. ASSUME WellPut(menu.card, r) PROVE Objection(menu.card, t) = "none"
    <3>1. Points(r) # {} \/ menu.card = "MANY"
      BY <1>8, <2>12 DEF WellPut
    <3>2. t.selected = <<>> => menu.card = "MANY"
      <4>1. sel = <<>> => Points(r) = {}
        BY <2>4, <2>6, <1>3 DEF Range
      <4>2. QED
        BY <2>11, <3>1, <4>1
    <3>3. e = NoId \/ e \in Range(sel)
      <4>1. c.evidence = NoId \/ c.evidence \in Points(r)
        BY <1>3, <1>8, <2>12 DEF WellPut
      <4>2. c.evidence \in Points(r) => Means(menu, c.evidence) \in PointedAt(menu, r)
        BY <2>3 DEF PointedAt
      <4>3. QED
        BY <2>7, <2>9, <4>1, <4>2
    <3>4. ~Stray(t)
      BY <2>11, <3>3 DEF Stray
    <3>5. ~t.abstain
      BY <1>3, <1>8, <2>11
    <3>6. QED
      BY <3>2, <3>4, <3>5 DEF Objection
  <2>13. QED
    BY <1>1, <1>3, <2>7, <2>8, <2>11, <2>12
<1>9. QED
  BY <1>7, <1>8

-----------------------------------------------------------------------------
(* What is said of one field *)

Tells(menu, wish, said) ==
  /\ UNION {PointedAt(menu, said[k]) : k \in 1..Len(said)} = wish
  /\ \A k, l \in 1..Len(said) : said[k].instance = said[l].instance

Readable(menu, said) == said # <<>> /\ \A k \in 1..Len(said) : Takeable(menu, said[k])

Accepted(menu, wish, said) ==
  /\ Readable(menu, said)
  /\ Tells(menu, wish, said)
  /\ \A k \in 1..Len(said) : WellPut(menu.card, said[k]) /\ said[k].instance = Instance0
  /\ Len(said) > 1 => menu.card = "MANY" /\ \A k \in 1..Len(said) : ~said[k].abstain

LEMMA LocalIs ==
  ASSUME NEW menu \in Menus, NEW wish \in SUBSET Range(menu.ids)
  PROVE  /\ Local(menu, wish) \in Seq(LocalIds)
         /\ \A id \in Range(Local(menu, wish)) : Known(menu, id)
         /\ {menu.ids[id[2]] : id \in Range(Local(menu, wish))} = wish
         /\ Local(menu, wish) = <<>> <=> wish = {}
         /\ \A k \in 1..Len(Local(menu, wish)) : Local(menu, wish)[k] \in Range(Local(menu, wish))
<1>1. menu.ids \in Seq(Nat) /\ menu.field \in STRING
  BY DEF Menus
<1>2. PICK n \in Nat : n = Len(menu.ids) /\ DOMAIN menu.ids = 1..n
  BY <1>1
<1> DEFINE places == [i \in DOMAIN menu.ids |-> <<menu.field, i>>]
<1>3. places \in [1..n -> LocalIds] /\ \A i \in 1..n : places[i] = <<menu.field, i>>
  BY <1>1, <1>2 DEF LocalIds
<1>4. PICK at : at = {i \in DOMAIN menu.ids : menu.ids[i] \in wish}
  OBVIOUS
<1>5. Local(menu, wish) = Picked(places, at)
  BY <1>4 DEF Local
<1> HIDE DEF places
<1>6. places \in Seq(LocalIds) /\ Len(places) = n
  BY <1>3, FunctionIsSeq
<1>7. at \in SUBSET DOMAIN places /\ at \subseteq 1..n
  BY <1>2, <1>4, <1>6
<1>8. PICK ids : ids = Picked(places, at)
  OBVIOUS
<1>9. ids \in Seq(LocalIds) /\ Range(ids) = {places[i] : i \in at}
  BY <1>6, <1>7, <1>8, PickedIs
<1>10. Range(ids) = {<<menu.field, i>> : i \in at}
  BY <1>3, <1>7, <1>9
<1>11. \A id \in Range(ids) : Known(menu, id)
  <2> SUFFICES ASSUME NEW i \in at PROVE Known(menu, <<menu.field, i>>)
    BY <1>10
  <2>1. i \in DOMAIN menu.ids
    BY <1>4
  <2>2. QED
    BY <2>1 DEF Known
<1>12. {menu.ids[id[2]] : id \in Range(ids)} = {menu.ids[i] : i \in at}
  <2>1. \A i \in at : <<menu.field, i>> \in Range(ids) /\ <<menu.field, i>>[2] = i
    BY <1>10
  <2>2. \A id \in Range(ids) : id[2] \in at
    BY <1>10
  <2>3. \A i \in at : \E id \in Range(ids) : menu.ids[id[2]] = menu.ids[i]
    BY <2>1
  <2>4. QED
    BY <2>2, <2>3
<1>13. {menu.ids[i] : i \in at} = wish
  BY <1>4 DEF Range
<1>14. ids = <<>> <=> wish = {}
  <2>1. ids = <<>> => Range(ids) = {}
    BY DEF Range
  <2>2. Range(ids) = {} => ids = <<>>
    BY <1>9 DEF Range
  <2>3. Range(ids) = {} <=> at = {}
    BY <1>10
  <2>4. at = {} <=> wish = {}
    BY <1>13
  <2>5. QED
    BY <2>1, <2>2, <2>3, <2>4
<1>15. \A k \in 1..Len(ids) : ids[k] \in Range(ids)
  BY <1>9 DEF Range
<1>16. QED
  BY <1>5, <1>8, <1>9, <1>11, <1>12, <1>13, <1>14, <1>15

LEMMA NoIdIsNoLocal == NoId \notin LocalIds
  BY NoIdAssumption DEF LocalIds

Wholly(f, i, e, s, a) ==
  [field |-> f, instance |-> i, evidence |-> e, selected |-> s, abstain |-> a]

\* what is no abstention
Recorded(f, i, e, s) ==
  [field |-> f, instance |-> i, evidence |-> e, selected |-> s, abstain |-> FALSE]

LEMMA RecordedIs ==
  ASSUME NEW e \in LocalIds \cup {NoId}, NEW s \in Seq(LocalIds),
         NEW f \in STRING \cup {UnknownField}, NEW i \in Instances
  PROVE  /\ Recorded(f, i, e, s) \in Replies /\ Recorded(f, i, e, s).field = f
         /\ Recorded(f, i, e, s).instance = i /\ ~Recorded(f, i, e, s).abstain
         /\ Recorded(f, i, e, s).evidence = e /\ ~Malformed(Recorded(f, i, e, s))
         /\ Points(Recorded(f, i, e, s)) = IF e # NoId /\ s = <<>> THEN {e} ELSE Range(s)
<1>0. PICK r : r = Recorded(f, i, e, s)
  OBVIOUS
<1>1. r \in Replies /\ r.field = f /\ r.instance = i /\ r.evidence = e /\ r.selected = s
      /\ r.abstain = FALSE
  BY <1>0 DEF Replies, Recorded
<1>2. ~Malformed(r)
  BY <1>1 DEF Malformed
<1>3. Points(r) = IF e # NoId /\ s = <<>> THEN {e} ELSE Range(s)
  BY <1>1 DEF Points
<1>4. QED
  BY <1>0, <1>1, <1>2, <1>3

LEMMA RecordedIsAReply ==
  ASSUME NEW e \in LocalIds \cup {NoId}, NEW s \in Seq(LocalIds),
         NEW f \in STRING \cup {UnknownField}, NEW i \in Instances
  PROVE  Recorded(f, i, e, s) \in Replies /\ Recorded(f, i, e, s).field = f
BY DEF Replies, Recorded

LEMMA ReplySays ==
  ASSUME NEW menu \in Menus, NEW e \in LocalIds \cup {NoId}, NEW s \in Seq(LocalIds),
         NEW f \in STRING \cup {UnknownField}, NEW i \in Instances
  PROVE  Takeable(menu, Recorded(f, i, e, s)) <=>
           (f = menu.field /\ \A id \in Range(s) \cup ({e} \ {NoId}) : Known(menu, id))
<1>1. PICK r : r = Recorded(f, i, e, s)
  OBVIOUS
<1>2. /\ r.field = f /\ r.evidence = e /\ ~r.abstain /\ ~Malformed(r)
      /\ Points(r) = IF e # NoId /\ s = <<>> THEN {e} ELSE Range(s)
  BY <1>1, RecordedIs
<1>3. s = <<>> => Range(s) = {}
  BY DEF Range
<1>4. Points(r) \cup ({e} \ {NoId}) = Range(s) \cup ({e} \ {NoId})
  BY <1>2, <1>3
<1>5. QED
  BY <1>1, <1>2, <1>4 DEF Takeable

LEMMA AbstainSays ==
  ASSUME NEW menu \in Menus
  PROVE  /\ Abstain(menu) \in Replies /\ Abstain(menu).instance = Instance0
         /\ Abstain(menu) = [field |-> menu.field, instance |-> Instance0, evidence |-> NoId,
                             selected |-> <<>>, abstain |-> TRUE]
         /\ PointedAt(menu, Abstain(menu)) = {}
         /\ Takeable(menu, Abstain(menu)) /\ WellPut(menu.card, Abstain(menu))
<1>1. Abstain(menu) = [field |-> menu.field, instance |-> Instance0, evidence |-> NoId,
                       selected |-> <<>>, abstain |-> TRUE]
  <2>1. PICK x : x = Reply(menu, NoId, <<>>)
    OBVIOUS
  <2>2. PICK no, yes : no = FALSE /\ yes = TRUE
    OBVIOUS
  <2>3. x = Wholly(menu.field, Instance0, NoId, <<>>, no)
    BY <2>1, <2>2 DEF Reply, Wholly
  <2>4. [x EXCEPT !.abstain = yes] = Wholly(menu.field, Instance0, NoId, <<>>, yes)
    BY <2>3 DEF Wholly
  <2>5. QED
    BY <2>1, <2>2, <2>4 DEF Abstain, Wholly
<1>2. PICK r : r = [field |-> menu.field, instance |-> Instance0, evidence |-> NoId,
                    selected |-> <<>>, abstain |-> TRUE]
  OBVIOUS
<1>3. menu.field \in STRING /\ <<>> \in Seq(LocalIds) /\ Instance0 \in Instances
  BY DEF Menus, Instance0, Instances
<1>4. r \in Replies /\ r.field = menu.field /\ r.instance = Instance0 /\ r.evidence = NoId
      /\ r.selected = <<>> /\ r.abstain = TRUE
  BY <1>2, <1>3 DEF Replies
<1>5. Range(<<>>) = {}
  BY DEF Range
<1>6. Points(r) = {}
  BY <1>4, <1>5 DEF Points
<1>7. PointedAt(menu, r) = {}
  BY <1>6 DEF PointedAt
<1>8. Takeable(menu, r) /\ WellPut(menu.card, r)
  BY <1>4 DEF Takeable, WellPut, Malformed
<1>9. QED
  BY <1>1, <1>2, <1>4, <1>7, <1>8

LEMMA OneSays ==
  ASSUME NEW menu, NEW wish, NEW r \in Replies, PointedAt(menu, r) = wish
  PROVE  /\ <<r>> \in Seq(Replies) /\ <<r>> # <<>>
         /\ Tells(menu, wish, <<r>>)
         /\ (Takeable(menu, r) /\ WellPut(menu.card, r) /\ r.instance = Instance0) =>
              Accepted(menu, wish, <<r>>)
<1>1. PICK said : said = <<r>>
  OBVIOUS
<1>2. said \in Seq(Replies) /\ Len(said) = 1 /\ said # <<>> /\ \A k \in 1..Len(said) : said[k] = r
  BY <1>1
<1>3. 1 \in 1..Len(said)
  BY <1>2
<1>4. {PointedAt(menu, said[k]) : k \in 1..Len(said)} = {wish}
  BY <1>2, <1>3
<1>5. Tells(menu, wish, said)
  BY <1>2, <1>4 DEF Tells
<1>6. (Takeable(menu, r) /\ WellPut(menu.card, r) /\ r.instance = Instance0) =>
         Accepted(menu, wish, said)
  BY <1>2, <1>5 DEF Accepted, Readable
<1>7. QED
  BY <1>1, <1>2, <1>5, <1>6

LEMMA ReplyIs ==
  ASSUME NEW menu \in Menus, NEW e \in LocalIds \cup {NoId}, NEW s \in Seq(LocalIds)
  PROVE  /\ Reply(menu, e, s) \in Replies /\ Reply(menu, e, s).field = menu.field
         /\ Reply(menu, e, s).instance = Instance0 /\ ~Reply(menu, e, s).abstain
         /\ Reply(menu, e, s) = Recorded(menu.field, Instance0, e, s)
         /\ s # <<>> \/ e = NoId => Points(Reply(menu, e, s)) = Range(s)
         /\ e # NoId /\ s = <<>> => Points(Reply(menu, e, s)) = {e}
         /\ Takeable(menu, Reply(menu, e, s)) <=>
              \A id \in Range(s) \cup ({e} \ {NoId}) : Known(menu, id)
         /\ ((e = NoId \/ e \in Range(s) \/ s = <<>>) /\ (e # NoId \/ s # <<>> \/ menu.card = "MANY")) =>
              WellPut(menu.card, Reply(menu, e, s))
<1>1. PICK r : r = Reply(menu, e, s)
  OBVIOUS
<1>2. r = Recorded(menu.field, Instance0, e, s)
  BY <1>1 DEF Reply, Recorded
<1>3. menu.field \in STRING \cup {UnknownField} /\ Instance0 \in Instances
  BY DEF Menus, Instance0, Instances
<1>13. PICK f \in STRING \cup {UnknownField}, i \in Instances : f = menu.field /\ i = Instance0
  BY <1>3
<1>14. r = Recorded(f, i, e, s)
  BY <1>2, <1>13
<1>15. r \in Replies /\ r.field = f /\ r.instance = i /\ ~r.abstain
  BY <1>14, RecordedIs
<1>10. r \in Replies /\ r.field = menu.field /\ r.instance = Instance0 /\ ~r.abstain
  BY <1>13, <1>15
<1>11. Points(r) = IF e # NoId /\ s = <<>> THEN {e} ELSE Range(s)
  BY <1>14, RecordedIs
<1>4. /\ r \in Replies /\ r.field = menu.field /\ r.instance = Instance0 /\ ~r.abstain
      /\ s # <<>> => Points(r) = Range(s)
      /\ e = NoId => Points(r) = Range(s)
      /\ e # NoId /\ s = <<>> => Points(r) = {e}
  BY <1>10, <1>11
<1>5. Takeable(menu, r) => \A id \in Range(s) \cup ({e} \ {NoId}) : Known(menu, id)
  BY <1>2, <1>3, ReplySays
<1>6. (\A id \in Range(s) \cup ({e} \ {NoId}) : Known(menu, id)) => Takeable(menu, r)
  BY <1>2, <1>3, ReplySays
<1>7. r.evidence = e
  BY <1>2 DEF Recorded
<1>8. ASSUME e = NoId \/ e \in Range(s) \/ s = <<>>, e # NoId \/ s # <<>> \/ menu.card = "MANY"
      PROVE  WellPut(menu.card, r)
  <2>1. s # <<>> => 1 \in DOMAIN s /\ s[1] \in Range(s)
    BY DEF Range
  <2>2. Points(r) # {} \/ menu.card = "MANY"
    BY <1>4, <1>8, <2>1
  <2>3. e = NoId \/ e \in Points(r)
    BY <1>4, <1>8
  <2>4. QED
    BY <1>7, <2>2, <2>3 DEF WellPut
<1>9. QED
  BY <1>1, <1>2, <1>4, <1>5, <1>6, <1>8

\* A wish in any of the accepted wordings.
LEMMA PhrasingIsAccepted ==
  ASSUME NEW menu \in Menus, NEW wish \in SUBSET Range(menu.ids),
         NEW said \in Phrasings(menu, wish)
  PROVE  said \in Seq(Replies) /\ Accepted(menu, wish, said)
<1>1. PICK ids : ids = Local(menu, wish)
  OBVIOUS
<1>2. /\ ids \in Seq(LocalIds)
      /\ \A id \in Range(ids) : Known(menu, id)
      /\ {menu.ids[id[2]] : id \in Range(ids)} = wish
      /\ ids = <<>> <=> wish = {}
      /\ \A k \in 1..Len(ids) : ids[k] \in Range(ids)
  BY <1>1, LocalIs
<1>3. CASE ids = <<>>
  <2>1. said = <<Abstain(menu)>> \/ (menu.card = "MANY" /\ said = <<Reply(menu, NoId, <<>>)>>)
    BY <1>1, <1>3 DEF Phrasings
  <2>2. CASE said = <<Abstain(menu)>>
    <3>1. PointedAt(menu, Abstain(menu)) = wish
      BY <1>2, <1>3, AbstainSays
    <3>2. QED
      BY <2>2, <3>1, AbstainSays, OneSays
  <2>3. CASE menu.card = "MANY" /\ said = <<Reply(menu, NoId, <<>>)>>
    <3>1. PICK s : s = <<>>
      OBVIOUS
    <3>2. s \in Seq(LocalIds) /\ Range(s) = {}
      BY <3>1 DEF Range
    <3>3. PICK r : r = Reply(menu, NoId, s)
      OBVIOUS
    <3>4. r \in Replies /\ r.instance = Instance0 /\ Points(r) = {}
          /\ Takeable(menu, r) /\ WellPut(menu.card, r)
      BY <2>3, <3>2, <3>3, ReplyIs
    <3>5. PointedAt(menu, r) = wish
      BY <1>2, <1>3, <3>4 DEF PointedAt
    <3>6. QED
      BY <2>3, <3>1, <3>3, <3>4, <3>5, OneSays
  <2>4. QED
    BY <2>1, <2>2, <2>3
<1>4. CASE ids # <<>>
  <2>1. \/ said = <<Reply(menu, ids[1], ids)>> \/ said = <<Reply(menu, NoId, ids)>>
        \/ (Len(ids) = 1 /\ said = <<Reply(menu, ids[1], <<>>)>>)
        \/ (menu.card = "MANY" /\ said = [i \in DOMAIN ids |-> Reply(menu, NoId, <<ids[i]>>)])
    <3>1. Phrasings(menu, wish) =
            {<<Reply(menu, ids[1], ids)>>, <<Reply(menu, NoId, ids)>>} \cup
            (IF Len(ids) = 1 THEN {<<Reply(menu, ids[1], <<>>)>>} ELSE {}) \cup
            (IF menu.card = "MANY"
             THEN {[i \in DOMAIN ids |-> Reply(menu, NoId, <<ids[i]>>)]} ELSE {})
      BY <1>1, <1>4 DEF Phrasings
    <3>2. QED
      BY <3>1, Zenon
  <2>2. 1 \in 1..Len(ids) /\ ids[1] \in Range(ids) /\ ids[1] \in LocalIds /\ ids[1] # NoId
    BY <1>2, <1>4, NoIdIsNoLocal
  <2>3. CASE \/ said = <<Reply(menu, ids[1], ids)>> \/ said = <<Reply(menu, NoId, ids)>>
             \/ (Len(ids) = 1 /\ said = <<Reply(menu, ids[1], <<>>)>>)
    <3>1. PICK r : /\ said = <<r>>
                   /\ \/ r = Reply(menu, ids[1], ids) \/ r = Reply(menu, NoId, ids)
                      \/ (Len(ids) = 1 /\ r = Reply(menu, ids[1], <<>>))
      BY <2>3
    <3>2. /\ r \in Replies /\ r.instance = Instance0 /\ Points(r) = Range(ids)
          /\ Takeable(menu, r) /\ WellPut(menu.card, r)
      <4>1. CASE r = Reply(menu, ids[1], ids)
        BY <1>2, <1>4, <2>2, <4>1, ReplyIs
      <4>2. CASE r = Reply(menu, NoId, ids)
        BY <1>2, <1>4, <2>2, <4>2, ReplyIs
      <4>3. CASE Len(ids) = 1 /\ r = Reply(menu, ids[1], <<>>)
        <5>1. Range(ids) = {ids[1]}
          BY <1>2, <4>3 DEF Range
        <5>2. PICK s : s = <<>>
          OBVIOUS
        <5>3. s \in Seq(LocalIds) /\ Range(s) = {}
          BY <5>2 DEF Range
        <5>4. r = Reply(menu, ids[1], s)
          BY <4>3, <5>2
        <5>5. PICK e \in LocalIds : e = ids[1] /\ e # NoId
          BY <2>2
        <5>6. r \in Replies /\ r.instance = Instance0
          BY <5>3, <5>4, <5>5, ReplyIs
        <5>7. Points(r) = {e}
          <6>1. r.evidence = e /\ r.selected = s /\ ~r.abstain
            BY <5>4, <5>5 DEF Reply
          <6>2. QED
            BY <5>2, <5>5, <6>1 DEF Points
        <5>8. \A id \in Range(s) \cup ({e} \ {NoId}) : Known(menu, id)
          BY <1>2, <2>2, <5>3, <5>5
        <5>9. Takeable(menu, r)
          BY <5>3, <5>4, <5>5, <5>8, ReplyIs
        <5>12. r.evidence = e
          BY <5>4, <5>5 DEF Reply
        <5>10. WellPut(menu.card, r)
          BY <5>7, <5>12 DEF WellPut
        <5>11. QED
          BY <5>1, <5>5, <5>6, <5>7, <5>9, <5>10
      <4>4. QED
        BY <3>1, <4>1, <4>2, <4>3
    <3>3. PointedAt(menu, r) = wish
      BY <1>2, <3>2 DEF PointedAt
    <3>4. QED
      BY <3>1, <3>2, <3>3, OneSays
  <2>4. CASE menu.card = "MANY" /\ said = [i \in DOMAIN ids |-> Reply(menu, NoId, <<ids[i]>>)]
    <3>1. PICK n \in Nat : n = Len(ids) /\ DOMAIN ids = 1..n
      BY <1>2
    <3>2. ASSUME NEW k \in 1..n
          PROVE  /\ Reply(menu, NoId, <<ids[k]>>) \in Replies
                 /\ Reply(menu, NoId, <<ids[k]>>).instance = Instance0
                 /\ ~Reply(menu, NoId, <<ids[k]>>).abstain
                 /\ PointedAt(menu, Reply(menu, NoId, <<ids[k]>>)) = {menu.ids[ids[k][2]]}
                 /\ Takeable(menu, Reply(menu, NoId, <<ids[k]>>))
                 /\ WellPut(menu.card, Reply(menu, NoId, <<ids[k]>>))
      <4>1. ids[k] \in LocalIds /\ Known(menu, ids[k])
        BY <1>2, <3>1
      <4>2. PICK s : s = <<ids[k]>>
        OBVIOUS
      <4>3. s \in Seq(LocalIds) /\ Range(s) = {ids[k]}
        BY <4>1, <4>2 DEF Range
      <4>4. PICK r : r = Reply(menu, NoId, s)
        OBVIOUS
      <4>8. r \in Replies /\ r.instance = Instance0 /\ ~r.abstain /\ Points(r) = {ids[k]}
        BY <4>3, <4>4, ReplyIs
      <4>9. \A id \in Range(s) \cup ({NoId} \ {NoId}) : Known(menu, id)
        BY <4>1, <4>3
      <4>10. Takeable(menu, r)
        BY <4>3, <4>4, <4>9, ReplyIs
      <4>11. WellPut(menu.card, r)
        BY <2>4, <4>3, <4>4, ReplyIs
      <4>5. r \in Replies /\ r.instance = Instance0 /\ ~r.abstain /\ Points(r) = {ids[k]}
            /\ Takeable(menu, r) /\ WellPut(menu.card, r)
        BY <4>8, <4>10, <4>11
      <4>6. PointedAt(menu, r) = {menu.ids[ids[k][2]]}
        BY <4>5 DEF PointedAt
      <4>7. QED
        BY <4>2, <4>4, <4>5, <4>6
    <3>3. said \in [1..n -> Replies] /\ \A k \in 1..n : said[k] = Reply(menu, NoId, <<ids[k]>>)
      BY <2>4, <3>1, <3>2
    <3>4. said \in Seq(Replies) /\ Len(said) = n
      BY <3>3, FunctionIsSeq
    <3>5. said # <<>>
      BY <1>2, <1>4, <3>1, <3>4
    <3>6. UNION {PointedAt(menu, said[k]) : k \in 1..n} = wish
      <4>1. Range(ids) = {ids[k] : k \in 1..n}
        BY <1>2, <3>1, RangeIsSet
      <4>2. wish = {menu.ids[ids[k][2]] : k \in 1..n}
        BY <1>2, <4>1
      <4>3. \A k \in 1..n : PointedAt(menu, said[k]) = {menu.ids[ids[k][2]]}
        BY <3>2, <3>3
      <4>4. QED
        BY <4>2, <4>3
    <3>7. Tells(menu, wish, said)
      BY <3>2, <3>3, <3>4, <3>6 DEF Tells
    <3>8. QED
      BY <2>4, <3>2, <3>3, <3>4, <3>5, <3>7 DEF Accepted, Readable
  <2>5. QED
    BY <2>1, <2>3, <2>4
<1>5. QED
  BY <1>3, <1>4

LEMMA TwoSay ==
  ASSUME NEW menu, NEW wish, NEW r \in Replies, NEW q \in Replies,
         PointedAt(menu, r) = wish, PointedAt(menu, q) \subseteq wish, r.instance = q.instance
  PROVE  <<r, q>> \in Seq(Replies) /\ Tells(menu, wish, <<r, q>>)
<1>1. PICK said : said = <<r, q>>
  OBVIOUS
<1>2. said \in Seq(Replies) /\ Len(said) = 2 /\ said[1] = r /\ said[2] = q
  BY <1>1
<1>3. \A k \in 1..2 : k = 1 \/ k = 2
  OBVIOUS
<1>4. {PointedAt(menu, said[k]) : k \in 1..2} = {PointedAt(menu, r), PointedAt(menu, q)}
  BY <1>2, <1>3
<1>5. UNION {PointedAt(menu, said[k]) : k \in 1..2} = wish
  BY <1>4
<1>6. \A k, l \in 1..2 : said[k].instance = said[l].instance
  BY <1>2, <1>3
<1>7. QED
  BY <1>1, <1>2, <1>5, <1>6 DEF Tells

\* A record of a MANY reply, put somewhere else.
LEMMA Elsewhere ==
  ASSUME NEW menu \in Menus, NEW s \in Seq(LocalIds), NEW f, NEW i
  PROVE  /\ [Reply(menu, NoId, s) EXCEPT !.field = f] = Recorded(f, Instance0, NoId, s)
         /\ [Reply(menu, NoId, s) EXCEPT !.instance = i] = Recorded(menu.field, i, NoId, s)
<1>1. PICK x : x = Reply(menu, NoId, s)
  OBVIOUS
<1>2. PICK no : no = FALSE
  OBVIOUS
<1>3. x = Wholly(menu.field, Instance0, NoId, s, no)
  BY <1>1, <1>2 DEF Reply, Wholly
<1>4. /\ [x EXCEPT !.field = f] = Wholly(f, Instance0, NoId, s, no)
      /\ [x EXCEPT !.instance = i] = Wholly(menu.field, i, NoId, s, no)
  BY <1>3 DEF Wholly
<1>5. QED
  BY <1>1, <1>2, <1>4 DEF Recorded, Wholly

LEMMA AbstainSelecting ==
  ASSUME NEW menu \in Menus, NEW s \in Seq(LocalIds), s # <<>>, NEW r,
         r = [Abstain(menu) EXCEPT !.selected = s]
  PROVE  r \in Replies /\ r.field = menu.field /\ Malformed(r)
<1>1. PICK yes : yes = TRUE
  OBVIOUS
<1>2. PICK x, none : x = Abstain(menu) /\ none = <<>>
  OBVIOUS
<1>3. x = Wholly(menu.field, Instance0, NoId, none, yes)
  BY <1>1, <1>2, AbstainSays DEF Wholly
<1>4. [x EXCEPT !.selected = s] = Wholly(menu.field, Instance0, NoId, s, yes)
  BY <1>3 DEF Wholly
<1>5. r = [field |-> menu.field, instance |-> Instance0, evidence |-> NoId,
           selected |-> s, abstain |-> TRUE]
  BY <1>1, <1>2, <1>4 DEF Wholly
<1>6. menu.field \in STRING /\ Instance0 \in Instances
  BY DEF Menus, Instance0, Instances
<1>7. r.field = menu.field /\ r.instance = Instance0 /\ r.evidence = NoId /\ r.selected = s
      /\ r.abstain = TRUE
  BY <1>5
<1>8. Malformed(r)
  BY <1>7 DEF Malformed
<1>9. r \in Replies
  <2>1. PICK f \in STRING \cup {UnknownField}, i \in Instances, e \in LocalIds \cup {NoId},
             b \in BOOLEAN : f = menu.field /\ i = Instance0 /\ e = NoId /\ b = TRUE
    BY <1>6
  <2>2. PICK q : q = [field |-> f, instance |-> i, evidence |-> e, selected |-> s, abstain |-> b]
    OBVIOUS
  <2>3. q \in Replies
    BY <2>2 DEF Replies
  <2>4. QED
    BY <1>5, <2>1, <2>2, <2>3
<1>10. QED
  BY <1>7, <1>8, <1>9

\* A slip that no call refuses to read is none.
LEMMA SlipTells ==
  ASSUME NEW menu \in Menus, NEW wish \in SUBSET Range(menu.ids), NEW said \in Slips(menu, wish)
  PROVE  /\ said \in Seq(Replies)
         /\ \A k \in 1..Len(said) : said[k].field \in {menu.field, UnknownField}
         /\ Readable(menu, said) => Tells(menu, wish, said)
<1>1. PICK ids : ids = Local(menu, wish)
  OBVIOUS
<1>2. /\ ids \in Seq(LocalIds)
      /\ {menu.ids[id[2]] : id \in Range(ids)} = wish
  BY <1>1, LocalIs
<1>3. menu.field \in STRING /\ menu.field # UnknownField /\ menu.ids \in Seq(Nat)
      /\ menu.field \in STRING \cup {UnknownField} /\ UnknownField \in STRING \cup {UnknownField}
      /\ Instance0 \in Instances /\ "inst_1" \in Instances
  BY DEF Menus, Instance0, Instances
<1>4. PICK other, beyond : other = <<menu.field, 1>> /\ beyond = <<menu.field, Len(menu.ids) + 1>>
  OBVIOUS
<1>5. other \in LocalIds /\ beyond \in LocalIds
  BY <1>3, <1>4 DEF LocalIds
<1>6. ~Known(menu, beyond)
  BY <1>3, <1>4 DEF Known
<1>7. PICK R : R = Reply(menu, NoId, ids)
  OBVIOUS
<1>8. R \in Replies /\ R.field = menu.field /\ R.instance = Instance0 /\ PointedAt(menu, R) = wish
  <2>0. PICK e \in LocalIds \cup {NoId} : e = NoId
    OBVIOUS
  <2>1. R \in Replies /\ R.field = menu.field /\ R.instance = Instance0 /\ Points(R) = Range(ids)
    BY <1>2, <1>7, <2>0, ReplyIs, ZenonT(40)
  <2>2. QED
    BY <1>2, <2>1 DEF PointedAt
<1>9. \/ (ids # <<>> /\ said = <<Reply(menu, other, ids)>>)
      \/ said = <<>>
      \/ said = <<[Abstain(menu) EXCEPT !.selected = <<other>>]>>
      \/ said = <<Reply(menu, NoId, <<beyond>>)>>
      \/ said = <<R, [R EXCEPT !.field = UnknownField]>>
      \/ said = <<R, R>>
      \/ said = <<R, Abstain(menu)>>
      \/ said = <<[R EXCEPT !.instance = "inst_1"]>>
  <2>1. Slips(menu, wish) =
          (IF ids = <<>> THEN {} ELSE {<<Reply(menu, other, ids)>>}) \cup
          {<<>>, <<[Abstain(menu) EXCEPT !.selected = <<other>>]>>,
           <<Reply(menu, NoId, <<beyond>>)>>,
           <<R, [R EXCEPT !.field = UnknownField]>>,
           <<R, R>>,
           <<R, Abstain(menu)>>,
           <<[R EXCEPT !.instance = "inst_1"]>>}
    BY <1>1, <1>4, <1>7 DEF Slips
  <2>2. QED
    BY <2>1, Zenon
<1>10. CASE ids # <<>> /\ said = <<Reply(menu, other, ids)>>
  <2>1. PICK r : r = Reply(menu, other, ids)
    OBVIOUS
  <2>2. r \in Replies /\ r.field = menu.field /\ Points(r) = Range(ids)
    BY <1>2, <1>5, <1>10, <2>1, ReplyIs
  <2>3. PointedAt(menu, r) = wish
    BY <1>2, <2>2 DEF PointedAt
  <2>4. said \in Seq(Replies) /\ Tells(menu, wish, said)
    BY <1>10, <2>1, <2>2, <2>3, OneSays
  <2>5. Len(said) = 1 /\ said[1] = r
    BY <1>10, <2>1
  <2>6. QED
    BY <2>2, <2>4, <2>5
<1>11. CASE said = <<>>
  BY <1>11 DEF Readable
<1>12. CASE said = <<[Abstain(menu) EXCEPT !.selected = <<other>>]>>
  <2>1. PICK s : s = <<other>>
    OBVIOUS
  <2>2. s \in Seq(LocalIds) /\ s # <<>>
    BY <1>5, <2>1
  <2>3. PICK r : r = [Abstain(menu) EXCEPT !.selected = s]
    OBVIOUS
  <2>4. r \in Replies /\ r.field = menu.field /\ Malformed(r)
    BY <2>2, <2>3, AbstainSelecting
  <2>5. said = <<r>> /\ Len(said) = 1 /\ said[1] = r
    BY <1>12, <2>1, <2>3
  <2>6. ~Takeable(menu, r)
    BY <2>4 DEF Takeable
  <2>7. QED
    BY <2>4, <2>5, <2>6 DEF Readable
<1>13. CASE said = <<Reply(menu, NoId, <<beyond>>)>>
  <2>1. PICK s : s = <<beyond>>
    OBVIOUS
  <2>2. s \in Seq(LocalIds) /\ beyond \in Range(s)
    BY <1>5, <2>1 DEF Range
  <2>3. PICK r : r = Reply(menu, NoId, s)
    OBVIOUS
  <2>4. r \in Replies /\ r.field = menu.field
    BY <2>2, <2>3, ReplyIs
  <2>5. Takeable(menu, r) => Known(menu, beyond)
    BY <2>2, <2>3, ReplyIs
  <2>6. said = <<r>> /\ Len(said) = 1 /\ said[1] = r
    BY <1>13, <2>1, <2>3
  <2>7. QED
    BY <1>6, <2>4, <2>5, <2>6 DEF Readable
<1>14. CASE said = <<R, [R EXCEPT !.field = UnknownField]>>
  <2>1. PICK r : r = [R EXCEPT !.field = UnknownField]
    OBVIOUS
  <2>2. r = Recorded(UnknownField, Instance0, NoId, ids)
    BY <1>2, <1>7, <2>1, Elsewhere
  <2>0. PICK f \in STRING \cup {UnknownField}, i \in Instances, e \in LocalIds \cup {NoId} :
          f = UnknownField /\ i = Instance0 /\ e = NoId
    BY <1>3
  <2>9. r = Recorded(f, i, e, ids)
    BY <2>0, <2>2
  <2>10. r \in Replies /\ r.field = f
    <3>1. PICK s \in Seq(LocalIds) : s = ids
      BY <1>2
    <3>2. Recorded(f, i, e, s) \in Replies /\ Recorded(f, i, e, s).field = f
      BY RecordedIsAReply
    <3>3. QED
      BY <2>9, <3>1, <3>2
  <2>3. r \in Replies /\ r.field = UnknownField
    BY <2>0, <2>10
  <2>4. said = <<R, r>> /\ Len(said) = 2 /\ said[1] = R /\ said[2] = r /\ said \in Seq(Replies)
    BY <1>8, <1>14, <2>1, <2>3
  <2>5. ~Takeable(menu, r)
    BY <1>3, <2>3 DEF Takeable
  <2>6. \A k \in 1..Len(said) : k = 1 \/ k = 2
    BY <2>4
  <2>7. ~Readable(menu, said)
    BY <2>4, <2>5 DEF Readable
  <2>8. QED
    BY <1>8, <2>3, <2>4, <2>6, <2>7
<1>15. CASE said = <<R, R>>
  <2>1. said \in Seq(Replies) /\ Tells(menu, wish, said)
    BY <1>8, <1>15, TwoSay
  <2>2. Len(said) = 2 /\ said[1] = R /\ said[2] = R
    BY <1>15
  <2>3. \A k \in 1..Len(said) : k = 1 \/ k = 2
    BY <2>2
  <2>4. QED
    BY <1>8, <2>1, <2>2, <2>3
<1>16. CASE said = <<R, Abstain(menu)>>
  <2>1. PICK q : q = Abstain(menu)
    OBVIOUS
  <2>2. q \in Replies /\ q.field = menu.field /\ q.instance = Instance0 /\ PointedAt(menu, q) = {}
    <3>1. q \in Replies /\ q.instance = Instance0 /\ PointedAt(menu, q) = {} /\ Takeable(menu, q)
      BY <2>1, AbstainSays
    <3>2. QED
      BY <3>1 DEF Takeable
  <2>3. said \in Seq(Replies) /\ Tells(menu, wish, said)
    BY <1>8, <1>16, <2>1, <2>2, TwoSay
  <2>4. Len(said) = 2 /\ said[1] = R /\ said[2] = q
    BY <1>16, <2>1
  <2>5. \A k \in 1..Len(said) : k = 1 \/ k = 2
    BY <2>4
  <2>6. QED
    BY <1>8, <2>2, <2>3, <2>4, <2>5
<1>17. CASE said = <<[R EXCEPT !.instance = "inst_1"]>>
  <2>0. PICK i \in Instances : i = "inst_1"
    BY <1>3
  <2>1. PICK r : r = [R EXCEPT !.instance = i]
    OBVIOUS
  <2>2. r = Recorded(menu.field, i, NoId, ids)
    BY <1>2, <1>7, <2>1, Elsewhere
  <2>9. PICK f \in STRING \cup {UnknownField}, e \in LocalIds \cup {NoId} :
          f = menu.field /\ e = NoId
    BY <1>3
  <2>10. r = Recorded(f, i, e, ids)
    BY <2>2, <2>9
  <2>11. r \in Replies /\ r.field = f /\ r.evidence = e
    BY <1>2, <2>10, RecordedIs
  <2>12. Points(r) = IF e # NoId /\ ids = <<>> THEN {e} ELSE Range(ids)
    BY <1>2, <2>10, RecordedIs
  <2>3. r \in Replies /\ r.field = menu.field /\ Points(r) = Range(ids)
    BY <2>9, <2>11, <2>12
  <2>4. PointedAt(menu, r) = wish
    BY <1>2, <2>3 DEF PointedAt
  <2>5. said = <<r>>
    BY <1>17, <2>0, <2>1
  <2>6. said \in Seq(Replies) /\ Tells(menu, wish, said)
    BY <2>3, <2>4, <2>5, OneSays
  <2>7. Len(said) = 1 /\ said[1] = r
    BY <2>5
  <2>8. QED
    BY <2>3, <2>6, <2>7
<1>18. QED
  BY <1>9, <1>10, <1>11, <1>12, <1>13, <1>14, <1>15, <1>16, <1>17

-----------------------------------------------------------------------------
(* From the reply to the observations *)

CompletedAll(reply) == [i \in DOMAIN reply |-> Completed(reply[i])]
TranslatedAll(menus, reply) == [i \in DOMAIN reply |-> Translated(menus, Completed(reply[i]))]

LEMMA SelectManyIs ==
  ASSUME NEW menus, NEW reply
  PROVE  SelectMany(menus, reply) =
           IF \E i \in DOMAIN reply : Malformed(reply[i]) THEN Raised("output_malformed")
           ELSE IF \E i \in DOMAIN reply : Untranslatable(menus, Completed(reply[i]))
           THEN Raised("contract")
           ELSE FromBatch(menus, TranslatedAll(menus, reply))
<1>1. PICK c : c = CompletedAll(reply)
  OBVIOUS
<1>2. DOMAIN c = DOMAIN reply /\ \A i \in DOMAIN reply : c[i] = Completed(reply[i])
  BY <1>1 DEF CompletedAll
<1>3. (\E i \in DOMAIN reply : Untranslatable(menus, c[i])) <=>
        \E i \in DOMAIN reply : Untranslatable(menus, Completed(reply[i]))
  BY <1>2
<1>4. [i \in DOMAIN reply |-> Translated(menus, c[i])] = TranslatedAll(menus, reply)
  BY <1>2 DEF TranslatedAll
<1>5. SelectMany(menus, reply) =
        IF \E i \in DOMAIN reply : Malformed(reply[i]) THEN Raised("output_malformed")
        ELSE IF \E i \in DOMAIN reply : Untranslatable(menus, c[i]) THEN Raised("contract")
        ELSE FromBatch(menus, [i \in DOMAIN reply |-> Translated(menus, c[i])])
  BY <1>1 DEF SelectMany, CompletedAll
<1>6. QED
  BY <1>3, <1>4, <1>5

\* What a call does not know the meaning of it does not take for an answer.
LEMMA UnreadableIsRefused ==
  ASSUME NEW menus \in MenuLists, NEW reply \in Seq(Replies), SelectMany(menus, reply).why = "none",
         NEW j \in 1..Len(menus), NEW k \in 1..Len(reply),
         reply[k].field \in {menus[j].field, UnknownField}
  PROVE  Takeable(menus[j], reply[k])
<1>1. PICK r \in Replies : r = reply[k] /\ k \in DOMAIN reply
  OBVIOUS
<1>2. PICK ts : ts = TranslatedAll(menus, reply)
  OBVIOUS
<1>3. /\ ~Malformed(r)
      /\ ~Untranslatable(menus, Completed(r))
      /\ FromBatch(menus, ts).why = "none"
  BY <1>1, <1>2, SelectManyIs DEF Raised
<1>4. k \in DOMAIN ts /\ ts[k] = Translated(menus, Completed(r))
  BY <1>1, <1>2 DEF TranslatedAll
<1>5. ts[k].field # UnknownField
  BY <1>3, <1>4, TakenBecause
<1>6. PICK c : c = Completed(r)
  OBVIOUS
<1>7. /\ c \in Replies /\ c.field = r.field /\ c.abstain = r.abstain
      /\ Range(c.selected) = Points(r)
      /\ c.evidence = r.evidence \/ (r.evidence = NoId /\ c.evidence \in Points(r))
  BY <1>6, CompletedIs
<1>8. /\ menus[j].field # UnknownField /\ Shown(menus, menus[j].field)
      /\ MenuOf(menus, menus[j].field) = menus[j]
  BY MenuOfIs DEF Menus
<1>9. r.field = menus[j].field
  <2> SUFFICES ASSUME r.field = UnknownField PROVE FALSE
    BY <1>1
  <2>1. ~Shown(menus, c.field)
    <3>1. \A i \in 1..Len(menus) : menus[i].field # UnknownField
      BY MenuOfIs DEF Menus
    <3>2. \A f : Shown(menus, f) => \E i \in 1..Len(menus) : menus[i].field = f
      BY MenuOfIs
    <3>3. c.field = UnknownField
      BY <1>7
    <3>4. QED
      BY <3>1, <3>2, <3>3
  <2>2. Translated(menus, c) = c
    BY <2>1 DEF Translated
  <2>3. QED
    BY <1>4, <1>5, <1>6, <1>7, <2>2
<1>10. ~r.abstain => \A id \in Range(c.selected) \cup ({c.evidence} \ {NoId}) : Known(menus[j], id)
  BY <1>3, <1>6, <1>7, <1>8, <1>9 DEF Untranslatable
<1>11. Points(r) \cup ({r.evidence} \ {NoId}) \subseteq Range(c.selected) \cup ({c.evidence} \ {NoId})
  BY <1>7
<1>12. QED
  BY <1>1, <1>3, <1>9, <1>10, <1>11 DEF Takeable

LEMMA TranslatedAllIs ==
  ASSUME NEW menus \in MenuLists, NEW reply \in Seq(Replies),
         \A k \in 1..Len(reply) : \E j \in 1..Len(menus) : Takeable(menus[j], reply[k])
  PROVE  /\ TranslatedAll(menus, reply) \in Seq(Tellings)
         /\ Len(TranslatedAll(menus, reply)) = Len(reply)
         /\ \A k \in 1..Len(reply) :
              /\ TranslatedAll(menus, reply)[k] = Translated(menus, Completed(reply[k]))
              /\ TranslatedAll(menus, reply)[k] \in Tellings
<1>1. PICK n \in Nat : n = Len(reply) /\ DOMAIN reply = 1..n
  OBVIOUS
<1>2. ASSUME NEW k \in 1..n PROVE Translated(menus, Completed(reply[k])) \in Tellings
  <2>1. PICK j \in 1..Len(menus) : Takeable(menus[j], reply[k])
    BY <1>1
  <2>2. reply[k] \in Replies
    BY <1>1
  <2>3. QED
    BY <2>1, <2>2, TranslatedIs
<1>3. PICK ts : ts = TranslatedAll(menus, reply)
  OBVIOUS
<1>4. ts \in [1..n -> Tellings]
      /\ \A k \in 1..n : ts[k] = Translated(menus, Completed(reply[k]))
  BY <1>1, <1>2, <1>3 DEF TranslatedAll
<1>5. ts \in Seq(Tellings) /\ Len(ts) = n
  BY <1>4, FunctionIsSeq
<1>6. QED
  BY <1>1, <1>3, <1>4, <1>5

\* all that the records of a reply point at in a menu
PointedOf(menu, reply) ==
  UNION {PointedAt(menu, reply[k]) : k \in {i \in DOMAIN reply : reply[i].field = menu.field}}

\* A reply that is taken tells, of each field, all that its records point at.
LEMMA SelectManyTells ==
  ASSUME NEW menus \in MenuLists, NEW reply \in Seq(Replies), SelectMany(menus, reply).why = "none",
         \A k \in 1..Len(reply) : \E j \in 1..Len(menus) : Takeable(menus[j], reply[k]),
         \A p, q \in 1..Len(reply) : reply[p].field = reply[q].field =>
                                       reply[p].instance = reply[q].instance
  PROVE  /\ SelectMany(menus, reply).value \in Seq(Observations)
         /\ Len(SelectMany(menus, reply).value) = Len(menus)
         /\ \A j \in 1..Len(menus) :
              /\ \E k \in 1..Len(reply) : reply[k].field = menus[j].field
              /\ SelectMany(menus, reply).value[j].field = menus[j].field
              /\ Range(SelectMany(menus, reply).value[j].selected) = PointedOf(menus[j], reply)
<1>1. PICK ts : ts = TranslatedAll(menus, reply)
  OBVIOUS
<1>2. PICK n \in Nat : n = Len(reply) /\ DOMAIN reply = 1..n /\ \A k \in 1..n : reply[k] \in Replies
  OBVIOUS
<1>3. /\ ts \in Seq(Tellings) /\ Len(ts) = n /\ DOMAIN ts = 1..n
      /\ \A k \in 1..n : ts[k] = Translated(menus, Completed(reply[k])) /\ ts[k] \in Tellings
  BY <1>1, <1>2, TranslatedAllIs
<1>4. ASSUME NEW k \in 1..n
      PROVE  /\ ts[k].field = reply[k].field /\ ts[k].instance = reply[k].instance
             /\ \A j \in 1..Len(menus) : reply[k].field = menus[j].field =>
                  Range(ts[k].selected) = PointedAt(menus[j], reply[k])
  <2>1. PICK j \in 1..Len(menus) : Takeable(menus[j], reply[k])
    BY <1>2
  <2>2. /\ ts[k].field = reply[k].field /\ ts[k].instance = reply[k].instance
        /\ Range(ts[k].selected) = PointedAt(menus[j], reply[k])
    BY <1>2, <1>3, <2>1, TranslatedIs
  <2>3. \A i \in 1..Len(menus) : reply[k].field = menus[i].field => i = j
    <3>1. \A a, b \in 1..Len(menus) : menus[a].field = menus[b].field => a = b
      BY MenuOfIs
    <3>2. reply[k].field = menus[j].field
      BY <2>1 DEF Takeable
    <3>3. QED
      BY <3>1, <3>2
  <2>4. QED
    BY <2>2, <2>3
<1>5. SelectMany(menus, reply) = FromBatch(menus, ts)
  BY <1>1, SelectManyIs DEF Raised
<1>6. \A p, q \in 1..Len(ts) : ts[p].field = ts[q].field => ts[p].instance = ts[q].instance
  BY <1>2, <1>3, <1>4
<1>7. /\ FromBatch(menus, ts).value \in Seq(Observations)
      /\ Len(FromBatch(menus, ts).value) = Len(menus)
      /\ \A j \in 1..Len(menus) :
           /\ FromBatch(menus, ts).value[j].field = menus[j].field
           /\ \E p \in 1..Len(ts) : ts[p].field = menus[j].field
           /\ Range(FromBatch(menus, ts).value[j].selected) = SaidOf(ts, menus[j].field)
  <2>1. FromBatch(menus, ts).why = "none"
    BY <1>5
  <2>2. QED
    BY <1>3, <1>6, <2>1, FromBatchTells
<1>8. ASSUME NEW j \in 1..Len(menus)
      PROVE  SaidOf(ts, menus[j].field) = PointedOf(menus[j], reply)
  <2>1. PICK at : at = {i \in 1..n : reply[i].field = menus[j].field}
    OBVIOUS
  <2>2. at = {i \in DOMAIN ts : ts[i].field = menus[j].field}
    BY <1>3, <1>4, <2>1
  <2>3. at = {i \in DOMAIN reply : reply[i].field = menus[j].field}
    BY <1>2, <2>1
  <2>4. \A p \in at : Range(ts[p].selected) = PointedAt(menus[j], reply[p])
    BY <1>4, <2>1
  <2>5. SaidOf(ts, menus[j].field) = UNION {Range(ts[p].selected) : p \in at}
    BY <2>2 DEF SaidOf
  <2>6. PointedOf(menus[j], reply) = UNION {PointedAt(menus[j], reply[p]) : p \in at}
    BY <2>3 DEF PointedOf
  <2>7. {Range(ts[p].selected) : p \in at} = {PointedAt(menus[j], reply[p]) : p \in at}
    BY <2>4
  <2>8. QED
    BY <2>5, <2>6, <2>7
<1>9. \A j \in 1..Len(menus) : \E k \in 1..Len(reply) : reply[k].field = menus[j].field
  BY <1>2, <1>3, <1>4, <1>7
<1>10. QED
  BY <1>5, <1>7, <1>8, <1>9

LEMMA SelectManyIsFine ==
  ASSUME NEW menus \in MenuLists, NEW reply \in Seq(Replies),
         \A k \in 1..Len(reply) : \E j \in 1..Len(menus) :
            Takeable(menus[j], reply[k]) /\ WellPut(menus[j].card, reply[k]),
         Repeatable(menus, reply), Complete(menus, reply)
  PROVE  SelectMany(menus, reply).why = "none"
<1>1. PICK ts : ts = TranslatedAll(menus, reply)
  OBVIOUS
<1>2. PICK n \in Nat : n = Len(reply) /\ DOMAIN reply = 1..n /\ \A k \in 1..n : reply[k] \in Replies
  OBVIOUS
<1>3. /\ ts \in Seq(Tellings) /\ Len(ts) = n /\ DOMAIN ts = 1..n
      /\ \A k \in 1..n : ts[k] = Translated(menus, Completed(reply[k])) /\ ts[k] \in Tellings
  BY <1>1, <1>2, TranslatedAllIs
<1>4. ASSUME NEW k \in 1..n
      PROVE  /\ ts[k].field = reply[k].field /\ ts[k].instance = reply[k].instance
             /\ ts[k].abstain = reply[k].abstain
             /\ Sound(menus, ts[k])
             /\ ~Malformed(reply[k]) /\ ~Untranslatable(menus, Completed(reply[k]))
  <2>1. PICK j \in 1..Len(menus) : Takeable(menus[j], reply[k]) /\ WellPut(menus[j].card, reply[k])
    BY <1>2
  <2>2. PICK r \in Replies : r = reply[k]
    BY <1>2
  <2>3. PICK t : t = ts[k] /\ t = Translated(menus, Completed(r))
    BY <1>3, <2>2
  <2>4. /\ t.field = r.field /\ t.instance = r.instance /\ t.abstain = r.abstain
        /\ Range(t.selected) \subseteq Range(menus[j].ids)
        /\ Objection(menus[j].card, t) = "none"
    <3>1. Takeable(menus[j], r)
      BY <2>1, <2>2
    <3>2. WellPut(menus[j].card, r)
      BY <2>1, <2>2
    <3>3. t = Translated(menus, Completed(r))
      BY <2>3
    <3>4. /\ t.field = r.field /\ t.instance = r.instance /\ t.abstain = r.abstain
          /\ Range(t.selected) \subseteq Range(menus[j].ids)
          /\ WellPut(menus[j].card, r) => Objection(menus[j].card, t) = "none"
      BY <3>1, <3>3, TranslatedIs, SMTT(30)
    <3>5. QED
      BY <3>2, <3>4
  <2>5. r.field = menus[j].field /\ ~Malformed(r)
        /\ (~r.abstain => \A id \in Points(r) \cup ({r.evidence} \ {NoId}) : Known(menus[j], id))
    BY <2>1, <2>2 DEF Takeable
  <2>6. Sound(menus, t)
    BY <2>4, <2>5 DEF Sound
  <2>7. ~Untranslatable(menus, Completed(r))
    <3>1. PICK c : c = Completed(r)
      OBVIOUS
    <3>2. /\ c.field = r.field /\ c.abstain = r.abstain /\ Range(c.selected) = Points(r)
          /\ c.evidence = r.evidence \/ (r.evidence = NoId /\ c.evidence \in Points(r))
      BY <3>1, CompletedIs
    <3>3. MenuOf(menus, c.field) = menus[j]
      BY <2>5, <3>2, MenuOfIs
    <3>4. Range(c.selected) \cup ({c.evidence} \ {NoId}) \subseteq Points(r) \cup ({r.evidence} \ {NoId})
      BY <3>2
    <3>5. QED
      BY <2>5, <3>1, <3>2, <3>3, <3>4 DEF Untranslatable
  <2>8. QED
    BY <2>2, <2>3, <2>4, <2>5, <2>6, <2>7
<1>5. SelectMany(menus, reply) = FromBatch(menus, ts)
  BY <1>1, <1>2, <1>4, SelectManyIs
<1>6. \A p \in 1..n : Key(ts[p]) = Key(reply[p])
  BY <1>4 DEF Key
<1>7. Repeatable(menus, ts)
  BY <1>2, <1>3, <1>4, <1>6, ZenonT(40) DEF Repeatable
<1>8. Complete(menus, ts)
  BY <1>2, <1>3, <1>4 DEF Complete
<1>9. \A p \in 1..Len(ts) : Sound(menus, ts[p])
  BY <1>3, <1>4
<1>10. QED
  BY <1>3, <1>5, <1>7, <1>8, <1>9, FromBatchIsFine

-----------------------------------------------------------------------------
(* The reply a wish is worded in *)

Plainly(menu, wish) ==
  IF wish = {} THEN <<Abstain(menu)>> ELSE <<Reply(menu, NoId, Local(menu, wish))>>

\* the words for each field
Pieces(menus, wishes, i, said) ==
  [j \in DOMAIN menus |-> IF j = i THEN said ELSE Plainly(menus[j], wishes[j])]

LEMMA PlainlyIsAccepted ==
  ASSUME NEW menu \in Menus, NEW wish \in SUBSET Range(menu.ids)
  PROVE  /\ Plainly(menu, wish) \in Seq(Replies)
         /\ Accepted(menu, wish, Plainly(menu, wish))
<1>1. PICK ids : ids = Local(menu, wish)
  OBVIOUS
<1>2. ids = <<>> <=> wish = {}
  BY <1>1, LocalIs
<1>3. Plainly(menu, wish) \in Phrasings(menu, wish)
  <2>1. CASE wish = {}
    BY <1>1, <1>2, <2>1 DEF Plainly, Phrasings
  <2>2. CASE wish # {}
    BY <1>1, <1>2, <2>2 DEF Plainly, Phrasings
  <2>3. QED
    BY <2>1, <2>2
<1>4. QED
  BY <1>3, PhrasingIsAccepted

Wishings(menus) ==
  {w \in [1..Len(menus) -> SUBSET Nat] : \A j \in 1..Len(menus) : w[j] \subseteq Range(menus[j].ids)}

LEMMA PiecesAre ==
  ASSUME NEW menus \in MenuLists, NEW wishes \in Wishings(menus), NEW i \in 1..Len(menus),
         NEW said \in Seq(Replies)
  PROVE  /\ Pieces(menus, wishes, i, said) \in Seq(Seq(Replies))
         /\ Len(Pieces(menus, wishes, i, said)) = Len(menus)
         /\ Pieces(menus, wishes, i, said)[i] = said
         /\ \A j \in 1..Len(menus) : j # i =>
              /\ Accepted(menus[j], wishes[j], Pieces(menus, wishes, i, said)[j])
              /\ Pieces(menus, wishes, i, said)[j] \in Seq(Replies)
<1>1. PICK n \in Nat : n = Len(menus) /\ DOMAIN menus = 1..n
  BY MenuOfIs
<1>2. PICK S : S = Seq(Replies)
  OBVIOUS
<1>3. ASSUME NEW j \in 1..n
      PROVE  /\ Plainly(menus[j], wishes[j]) \in S
             /\ Accepted(menus[j], wishes[j], Plainly(menus[j], wishes[j]))
  <2>1. menus[j] \in Menus /\ wishes[j] \in SUBSET Range(menus[j].ids)
    BY <1>1, MenuOfIs DEF Wishings
  <2>2. QED
    BY <1>2, <2>1, PlainlyIsAccepted
<1>4. PICK ps : ps = Pieces(menus, wishes, i, said)
  OBVIOUS
<1>5. /\ ps \in [1..n -> S]
      /\ ps[i] = said
      /\ \A j \in 1..n : j # i => ps[j] = Plainly(menus[j], wishes[j])
  BY <1>1, <1>2, <1>3, <1>4 DEF Pieces
<1>6. ps \in Seq(S) /\ Len(ps) = n
  BY <1>1, <1>5, FunctionIsSeq
<1>7. \A j \in 1..n : j # i => Accepted(menus[j], wishes[j], ps[j]) /\ ps[j] \in S
  BY <1>3, <1>5
<1>8. QED
  BY <1>1, <1>2, <1>4, <1>5, <1>6, <1>7

\* The records of a reply are those of its pieces.
LEMMA WordedIs ==
  ASSUME NEW menus \in MenuLists, NEW wishes \in Wishings(menus), NEW i \in 1..Len(menus),
         NEW said \in Seq(Replies)
  PROVE  /\ Worded(menus, wishes, i, said) \in Seq(Replies)
         /\ \E at \in [1..Len(menus) -> Nat] :
              Laid(Pieces(menus, wishes, i, said), Len(menus), at, Worded(menus, wishes, i, said))
<1>1. Worded(menus, wishes, i, said) = FlattenSeq(Pieces(menus, wishes, i, said))
  BY DEF Worded, Pieces, Plainly
<1>2. PICK ps : ps = Pieces(menus, wishes, i, said)
  OBVIOUS
<1>3. ps \in Seq(Seq(Replies)) /\ Len(ps) = Len(menus)
  BY <1>2, PiecesAre
<1>4. QED
  BY <1>1, <1>2, <1>3, FlattenSeqLays

\* Every piece is about its menu's field, or about one the menus do not show.
LEMMA PiecesKeepApart ==
  ASSUME NEW menus \in MenuLists, NEW wishes \in Wishings(menus), NEW i \in 1..Len(menus),
         NEW said \in Seq(Replies),
         \A k \in 1..Len(said) : said[k].field \in {menus[i].field, UnknownField},
         NEW ps, ps = Pieces(menus, wishes, i, said)
  PROVE  \A j \in 1..Len(menus) : \A l \in 1..Len(ps[j]) :
           ps[j][l] \in Replies /\ ps[j][l].field \in {menus[j].field, UnknownField}
<1>1. ASSUME NEW j \in 1..Len(menus), NEW l \in 1..Len(ps[j])
      PROVE  ps[j][l] \in Replies /\ ps[j][l].field \in {menus[j].field, UnknownField}
  <2>1. CASE j = i
    <3>1. ps[j] = said
      BY <2>1, PiecesAre
    <3>2. QED
      BY <2>1, <3>1
  <2>2. CASE j # i
    <3>1. Accepted(menus[j], wishes[j], ps[j]) /\ ps[j] \in Seq(Replies)
      BY <2>2, PiecesAre
    <3>2. QED
      BY <3>1 DEF Accepted, Readable, Takeable
  <2>3. QED
    BY <2>1, <2>2
<1>2. QED
  BY <1>1

\* A reply that is taken tells the wishes it was worded from, however the one
\* field was put.
LEMMA WordsTell ==
  ASSUME NEW menus \in MenuLists, NEW wishes \in Wishings(menus), NEW i \in 1..Len(menus),
         NEW said \in Seq(Replies),
         \A k \in 1..Len(said) : said[k].field \in {menus[i].field, UnknownField},
         Readable(menus[i], said) => Tells(menus[i], wishes[i], said),
         SelectMany(menus, Worded(menus, wishes, i, said)).why = "none"
  PROVE  /\ SelectMany(menus, Worded(menus, wishes, i, said)).value \in Seq(Observations)
         /\ Len(SelectMany(menus, Worded(menus, wishes, i, said)).value) = Len(menus)
         /\ \A j \in 1..Len(menus) :
              /\ SelectMany(menus, Worded(menus, wishes, i, said)).value[j].field = menus[j].field
              /\ Range(SelectMany(menus, Worded(menus, wishes, i, said)).value[j].selected) = wishes[j]
<1>1. PICK reply \in Seq(Replies) : reply = Worded(menus, wishes, i, said)
  BY WordedIs
<1>2. PICK ps : ps = Pieces(menus, wishes, i, said)
  OBVIOUS
<1>3. PICK at \in [1..Len(menus) -> Nat] : Laid(ps, Len(menus), at, reply)
  BY <1>1, <1>2, WordedIs
<1>4. /\ \A j \in 1..Len(menus) : \A l \in 1..Len(ps[j]) :
           ps[j][l] \in Replies /\ ps[j][l].field \in {menus[j].field, UnknownField}
      /\ \A j, h \in 1..Len(menus) : \A l \in 1..Len(ps[j]) :
           ps[j][l].field = menus[h].field => j = h
  <2>1. \A j \in 1..Len(menus) : \A l \in 1..Len(ps[j]) :
          ps[j][l] \in Replies /\ ps[j][l].field \in {menus[j].field, UnknownField}
    BY <1>2, PiecesKeepApart
  <2>2. \A j, h \in 1..Len(menus) : menus[j].field = menus[h].field => j = h
    BY MenuOfIs
  <2>3. \A h \in 1..Len(menus) : menus[h].field # UnknownField
    BY MenuOfIs DEF Menus
  <2>4. \A j, h \in 1..Len(menus) : \A l \in 1..Len(ps[j]) :
           ps[j][l].field = menus[h].field => j = h
    BY <2>1, <2>2, <2>3
  <2>5. QED
    BY <2>1, <2>4
<1>5. /\ \A j \in 1..Len(menus) : \A l \in 1..Len(ps[j]) :
           at[j] + l \in 1..Len(reply) /\ reply[at[j] + l] = ps[j][l]
      /\ \A k \in 1..Len(reply) : \E j \in 1..Len(menus) : \E l \in 1..Len(ps[j]) : k = at[j] + l
  BY <1>3 DEF Laid
<1>6. \A j \in 1..Len(menus) : \A l \in 1..Len(ps[j]) : Takeable(menus[j], ps[j][l])
  <2> SUFFICES ASSUME NEW j \in 1..Len(menus), NEW l \in 1..Len(ps[j])
               PROVE  Takeable(menus[j], ps[j][l])
    OBVIOUS
  <2>1. PICK k \in 1..Len(reply) : reply[k] = ps[j][l]
    BY <1>5
  <2>2. reply[k].field \in {menus[j].field, UnknownField}
    BY <1>4, <2>1
  <2>3. SelectMany(menus, reply).why = "none"
    BY <1>1
  <2>4. Takeable(menus[j], reply[k])
    BY <2>2, <2>3, UnreadableIsRefused
  <2>5. QED
    BY <2>1, <2>4
<1>7. ASSUME NEW j \in 1..Len(menus), ps[j] # <<>> PROVE Tells(menus[j], wishes[j], ps[j])
  <2>1. CASE j = i
    <3>1. ps[j] = said
      BY <1>2, <2>1, PiecesAre
    <3>2. Readable(menus[j], ps[j])
      BY <1>6, <1>7 DEF Readable
    <3>3. QED
      BY <2>1, <3>1, <3>2
  <2>2. CASE j # i
    <3>1. Accepted(menus[j], wishes[j], ps[j])
      BY <1>2, <2>2, PiecesAre
    <3>2. QED
      BY <3>1 DEF Accepted
  <2>3. QED
    BY <2>1, <2>2
<1>8. \A k \in 1..Len(reply) : \E j \in 1..Len(menus) : Takeable(menus[j], reply[k])
  <2> TAKE k \in 1..Len(reply)
  <2>1. PICK j \in 1..Len(menus) : \E l \in 1..Len(ps[j]) : k = at[j] + l
    BY <1>5
  <2>2. PICK l \in 1..Len(ps[j]) : k = at[j] + l
    BY <2>1
  <2>3. reply[k] = ps[j][l]
    BY <1>5, <2>2
  <2>4. QED
    BY <1>6, <2>3
<1>9. \A p, q \in 1..Len(reply) : reply[p].field = reply[q].field =>
                                    reply[p].instance = reply[q].instance
  <2> SUFFICES ASSUME NEW p \in 1..Len(reply), NEW q \in 1..Len(reply),
                      reply[p].field = reply[q].field
               PROVE  reply[p].instance = reply[q].instance
    OBVIOUS
  <2>1. PICK j \in 1..Len(menus) : \E l \in 1..Len(ps[j]) : p = at[j] + l
    BY <1>5
  <2>2. PICK l \in 1..Len(ps[j]) : p = at[j] + l
    BY <2>1
  <2>3. PICK h \in 1..Len(menus) : \E m \in 1..Len(ps[h]) : q = at[h] + m
    BY <1>5
  <2>4. PICK m \in 1..Len(ps[h]) : q = at[h] + m
    BY <2>3
  <2>5. reply[p] = ps[j][l] /\ reply[q] = ps[h][m]
    BY <1>5, <2>2, <2>4
  <2>6. ps[h][m].field = menus[h].field
    BY <1>6 DEF Takeable
  <2>7. j = h
    BY <1>4, <2>5, <2>6
  <2>8. Tells(menus[j], wishes[j], ps[j])
    <3>1. ps[j] # <<>>
      BY <2>2
    <3>2. QED
      BY <1>7, <3>1
  <2>9. QED
    BY <2>5, <2>7, <2>8 DEF Tells
<1>10. PICK got : got = SelectMany(menus, reply)
  OBVIOUS
<1>11. /\ got.value \in Seq(Observations) /\ Len(got.value) = Len(menus)
       /\ \A j \in 1..Len(menus) :
            /\ \E k \in 1..Len(reply) : reply[k].field = menus[j].field
            /\ got.value[j].field = menus[j].field
            /\ Range(got.value[j].selected) = PointedOf(menus[j], reply)
  <2>1. got.why = "none"
    BY <1>1, <1>10
  <2>2. QED
    BY <1>8, <1>9, <1>10, <2>1, SelectManyTells
<1>12. ASSUME NEW j \in 1..Len(menus) PROVE PointedOf(menus[j], reply) = wishes[j]
  <2>1. PICK mine : mine = {k \in DOMAIN reply : reply[k].field = menus[j].field}
    OBVIOUS
  <2>2. DOMAIN reply = 1..Len(reply)
    OBVIOUS
  <2>3. \A l \in 1..Len(ps[j]) : at[j] + l \in mine /\ reply[at[j] + l] = ps[j][l]
    BY <1>5, <1>6, <2>1, <2>2 DEF Takeable
  <2>4. ASSUME NEW k \in mine PROVE \E l \in 1..Len(ps[j]) : reply[k] = ps[j][l]
    <3>1. k \in 1..Len(reply) /\ reply[k].field = menus[j].field
      BY <2>1, <2>2
    <3>2. PICK h \in 1..Len(menus) : \E l \in 1..Len(ps[h]) : k = at[h] + l
      BY <1>5, <3>1
    <3>3. PICK l \in 1..Len(ps[h]) : k = at[h] + l
      BY <3>2
    <3>4. reply[k] = ps[h][l]
      BY <1>5, <3>3
    <3>5. h = j
      BY <1>4, <3>1, <3>4
    <3>6. QED
      BY <3>4, <3>5
  <2>5. {PointedAt(menus[j], reply[k]) : k \in mine}
          = {PointedAt(menus[j], ps[j][l]) : l \in 1..Len(ps[j])}
    BY <2>3, <2>4
  <2>6. PICK k \in mine : TRUE
    BY <1>11, <2>1, <2>2
  <2>7. ps[j] # <<>>
    BY <2>4
  <2>8. UNION {PointedAt(menus[j], ps[j][l]) : l \in 1..Len(ps[j])} = wishes[j]
    BY <1>7, <2>7 DEF Tells
  <2>9. QED
    BY <2>1, <2>5, <2>8 DEF PointedOf
<1>13. QED
  BY <1>1, <1>10, <1>11, <1>12

\* Words of the accepted kinds are taken.
LEMMA WordsAreTaken ==
  ASSUME NEW menus \in MenuLists, NEW wishes \in Wishings(menus), NEW i \in 1..Len(menus),
         NEW said \in Phrasings(menus[i], wishes[i])
  PROVE  SelectMany(menus, Worded(menus, wishes, i, said)).why = "none"
<1>0. said \in Seq(Replies) /\ Accepted(menus[i], wishes[i], said)
  <2>1. menus[i] \in Menus /\ wishes[i] \in SUBSET Range(menus[i].ids)
    BY MenuOfIs DEF Wishings
  <2>2. QED
    BY <2>1, PhrasingIsAccepted
<1>1. PICK reply \in Seq(Replies) : reply = Worded(menus, wishes, i, said)
  BY <1>0, WordedIs
<1>2. PICK ps : ps = Pieces(menus, wishes, i, said)
  OBVIOUS
<1>3. PICK at \in [1..Len(menus) -> Nat] : Laid(ps, Len(menus), at, reply)
  BY <1>0, <1>1, <1>2, WordedIs
<1>4. \A j \in 1..Len(menus) : Accepted(menus[j], wishes[j], ps[j]) /\ ps[j] \in Seq(Replies)
  BY <1>0, <1>2, PiecesAre
<1>5. /\ \A j \in 1..Len(menus) : \A l \in 1..Len(ps[j]) :
           at[j] + l \in 1..Len(reply) /\ reply[at[j] + l] = ps[j][l]
      /\ \A k \in 1..Len(reply) : \E j \in 1..Len(menus) : \E l \in 1..Len(ps[j]) : k = at[j] + l
  BY <1>3 DEF Laid
<1>6. \A j \in 1..Len(menus) : \A l \in 1..Len(ps[j]) :
         /\ Takeable(menus[j], ps[j][l]) /\ WellPut(menus[j].card, ps[j][l])
         /\ ps[j][l].field = menus[j].field
  BY <1>4 DEF Accepted, Readable, Takeable
<1>7. \A j, h \in 1..Len(menus) : menus[j].field = menus[h].field => j = h
  BY MenuOfIs
<1>8. \A k \in 1..Len(reply) : \E j \in 1..Len(menus) :
         Takeable(menus[j], reply[k]) /\ WellPut(menus[j].card, reply[k])
  <2> SUFFICES ASSUME NEW k \in 1..Len(reply)
               PROVE  \E j \in 1..Len(menus) :
                        Takeable(menus[j], reply[k]) /\ WellPut(menus[j].card, reply[k])
    OBVIOUS
  <2>1. PICK j \in 1..Len(menus) : \E l \in 1..Len(ps[j]) : k = at[j] + l
    BY <1>5
  <2>2. PICK l \in 1..Len(ps[j]) : k = at[j] + l
    BY <2>1
  <2>3. reply[k] = ps[j][l]
    BY <1>5, <2>2
  <2>4. Takeable(menus[j], ps[j][l]) /\ WellPut(menus[j].card, ps[j][l])
    BY <1>6
  <2>5. QED
    BY <2>3, <2>4
<1>9. Repeatable(menus, reply)
  <2> SUFFICES ASSUME NEW p \in 1..Len(reply), NEW q \in 1..Len(reply), p # q,
                      Key(reply[p]) = Key(reply[q])
               PROVE  /\ ~reply[p].abstain /\ ~reply[q].abstain
                      /\ \A j \in 1..Len(menus) : menus[j].field = reply[p].field =>
                           menus[j].card = "MANY"
    BY DEF Repeatable
  <2>1. PICK j \in 1..Len(menus) : \E l \in 1..Len(ps[j]) : p = at[j] + l
    BY <1>5
  <2>2. PICK l \in 1..Len(ps[j]) : p = at[j] + l
    BY <2>1
  <2>3. PICK h \in 1..Len(menus) : \E m \in 1..Len(ps[h]) : q = at[h] + m
    BY <1>5
  <2>4. PICK m \in 1..Len(ps[h]) : q = at[h] + m
    BY <2>3
  <2>5. reply[p] = ps[j][l] /\ reply[q] = ps[h][m]
    BY <1>5, <2>2, <2>4
  <2>6. reply[p].field = menus[j].field /\ reply[q].field = menus[h].field
    BY <1>6, <2>5
  <2>7. reply[p].field = reply[q].field
    BY DEF Key
  <2>8. j = h
    BY <1>7, <2>6, <2>7
  <2>9. l # m
    BY <2>2, <2>4, <2>8
  <2>10. Len(ps[j]) > 1
    BY <1>4, <2>8, <2>9
  <2>11. menus[j].card = "MANY" /\ \A k \in 1..Len(ps[j]) : ~ps[j][k].abstain
    BY <1>4, <2>10 DEF Accepted
  <2>12. QED
    BY <1>7, <2>5, <2>6, <2>8, <2>11
<1>10. Complete(menus, reply)
  <2> SUFFICES ASSUME NEW j \in 1..Len(menus)
               PROVE  \E p \in 1..Len(reply) : reply[p].field = menus[j].field
    BY DEF Complete
  <2>1. 1 \in 1..Len(ps[j])
    BY <1>4 DEF Accepted, Readable
  <2>2. at[j] + 1 \in 1..Len(reply) /\ reply[at[j] + 1] = ps[j][1]
    BY <1>5, <2>1
  <2>3. ps[j][1].field = menus[j].field
    BY <1>6, <2>1
  <2>4. QED
    BY <2>2, <2>3
<1>11. QED
  BY <1>1, <1>8, <1>9, <1>10, SelectManyIsFine

-----------------------------------------------------------------------------
(* A single selector's answer *)

LEMMA OneMenuIs ==
  ASSUME NEW menu \in Menus
  PROVE  <<menu>> \in MenuLists /\ Len(<<menu>>) = 1 /\ 1 \in 1..1 /\ <<menu>>[1] = menu
<1>1. PICK ms : ms = <<menu>>
  OBVIOUS
<1>2. ms \in Seq(Menus) /\ Len(ms) = 1 /\ DOMAIN ms = 1..1 /\ ms[1] = menu
  BY <1>1
<1>3. ms \in MenuLists
  <2>1. ms # <<>>
    BY <1>1
  <2>2. \A i, j \in DOMAIN ms : i = j
    BY <1>2
  <2>3. QED
    BY <1>2, <2>1, <2>2 DEF MenuLists
<1>4. QED
  BY <1>1, <1>2, <1>3

\* of a menu with candidates
SingleAnswer(menu, r) ==
  LET c == Completed(r)
      t == Translated(<<menu>>, c)
  IN IF Malformed(r) THEN Raised("output_malformed")
     ELSE IF Untranslatable(<<menu>>, c) \/ c.field # menu.field \/ c.instance # Instance0
     THEN Raised("contract")
     ELSE IF Objection(menu.card, t) # "none" THEN Raised(Objection(menu.card, t))
     ELSE Fine(<<Observed(t)>>)

LEMMA SelectSingleIs ==
  ASSUME NEW menu, NEW r
  PROVE  /\ menu.ids # <<>> => SelectSingle(menu, Instance0, r) = SingleAnswer(menu, r)
         /\ menu.ids = <<>> =>
              SelectSingle(menu, Instance0, r) =
                Fine(<<[field |-> menu.field, instance |-> Instance0, outcome |-> "NO_CANDIDATES",
                        selected |-> <<>>, evidence |-> NoId]>>)
  BY DEF SelectSingle, SingleAnswer

LEMMA SingleTells ==
  ASSUME NEW menu \in Menus, NEW wish \in SUBSET Range(menu.ids), NEW r \in Replies,
         SelectSingle(menu, Instance0, r).why = "none",
         Takeable(menu, r) => PointedAt(menu, r) = wish
  PROVE  /\ SelectSingle(menu, Instance0, r).value \in Seq(Observations)
         /\ Len(SelectSingle(menu, Instance0, r).value) = 1
         /\ SelectSingle(menu, Instance0, r).value[1].field = menu.field
         /\ Range(SelectSingle(menu, Instance0, r).value[1].selected) = wish
<1>0. PICK got : got = SelectSingle(menu, Instance0, r)
  OBVIOUS
<1>1. CASE menu.ids = <<>>
  <2>1. PICK o : o = [field |-> menu.field, instance |-> Instance0, outcome |-> "NO_CANDIDATES",
                      selected |-> <<>>, evidence |-> NoId]
    OBVIOUS
  <2>2. got.value = <<o>>
    BY <1>0, <1>1, <2>1, SelectSingleIs DEF Fine
  <2>3. Range(<<>>) = {}
    BY DEF Range
  <2>4. wish = {}
    BY <1>1, <2>3
  <2>5. menu.field \in STRING \cup {UnknownField} /\ Instance0 \in Instances /\ <<>> \in Seq(Nat)
    BY DEF Menus, Instance0, Instances
  <2>6. o \in Observations
    BY <2>1, <2>5 DEF Observations, Outcomes
  <2>7. o.field = menu.field /\ Range(o.selected) = wish
    BY <2>1, <2>3, <2>4
  <2>8. got.value \in Seq(Observations) /\ Len(got.value) = 1 /\ got.value[1] = o
    BY <2>2, <2>6
  <2>9. QED
    BY <1>0, <2>7, <2>8
<1>2. CASE menu.ids # <<>>
  <2>1. PICK c : c = Completed(r)
    OBVIOUS
  <2>2. PICK ms : ms = <<menu>>
    OBVIOUS
  <2>3. ms \in MenuLists /\ Len(ms) = 1 /\ ms[1] = menu /\ 1 \in 1..Len(ms)
    BY <2>2, OneMenuIs
  <2>4. PICK t : t = Translated(ms, c)
    OBVIOUS
  <2>5. /\ ~Malformed(r) /\ ~Untranslatable(ms, c) /\ c.field = menu.field
        /\ got.value = <<Observed(t)>>
    BY <1>0, <1>2, <2>1, <2>2, <2>4, SelectSingleIs DEF SingleAnswer, Raised, Fine
  <2>6. /\ c.field = r.field /\ c.abstain = r.abstain /\ Range(c.selected) = Points(r)
        /\ c.evidence = r.evidence \/ (r.evidence = NoId /\ c.evidence \in Points(r))
    BY <2>1, CompletedIs
  <2>7. MenuOf(ms, menu.field) = menu /\ Shown(ms, menu.field)
    BY <2>3, MenuOfIs
  <2>8. ~r.abstain => \A id \in Range(c.selected) \cup ({c.evidence} \ {NoId}) : Known(menu, id)
    BY <2>5, <2>6, <2>7 DEF Untranslatable
  <2>9. Takeable(menu, r)
    BY <2>5, <2>6, <2>8 DEF Takeable
  <2>10. t \in Tellings /\ t.field = menu.field /\ Range(t.selected) = wish
    <3>0. PICK j \in 1..Len(ms) : j = 1
      BY <2>3
    <3>1. Takeable(ms[j], r)
      BY <2>3, <2>9, <3>0
    <3>2. t = Translated(ms, Completed(r))
      BY <2>1, <2>4
    <3>9. ms \in MenuLists
      BY <2>3
    <3>3. t \in Tellings /\ t.field = r.field /\ Range(t.selected) = PointedAt(ms[j], r)
      BY <3>1, <3>2, <3>9, TranslatedIs
    <3>4. QED
      BY <2>3, <2>5, <2>6, <2>9, <3>0, <3>3
  <2>11. PICK o : o = Observed(t)
    OBVIOUS
  <2>12. o \in Observations /\ o.field = menu.field /\ Range(o.selected) = wish
    BY <2>10, <2>11, ObservedIs
  <2>13. got.value \in Seq(Observations) /\ Len(got.value) = 1 /\ got.value[1] = o
    BY <2>5, <2>11, <2>12
  <2>14. QED
    BY <1>0, <2>12, <2>13
<1>3. QED
  BY <1>1, <1>2

LEMMA SingleIsTaken ==
  ASSUME NEW menu \in Menus, NEW r \in Replies, Takeable(menu, r), WellPut(menu.card, r),
         r.instance = Instance0
  PROVE  SelectSingle(menu, Instance0, r).why = "none"
<1>1. CASE menu.ids = <<>>
  BY <1>1, SelectSingleIs DEF Fine
<1>2. CASE menu.ids # <<>>
  <2>1. PICK c : c = Completed(r)
    OBVIOUS
  <2>2. PICK ms : ms = <<menu>>
    OBVIOUS
  <2>3. ms \in MenuLists /\ Len(ms) = 1 /\ ms[1] = menu /\ 1 \in 1..Len(ms)
    BY <2>2, OneMenuIs
  <2>4. PICK t : t = Translated(ms, c)
    OBVIOUS
  <2>6. /\ c.field = r.field /\ c.instance = r.instance /\ c.abstain = r.abstain
        /\ Range(c.selected) = Points(r)
        /\ c.evidence = r.evidence \/ (r.evidence = NoId /\ c.evidence \in Points(r))
    BY <2>1, CompletedIs
  <2>7. MenuOf(ms, menu.field) = menu /\ Shown(ms, menu.field)
    BY <2>3, MenuOfIs
  <2>8. r.field = menu.field /\ ~Malformed(r)
        /\ (~r.abstain => \A id \in Points(r) \cup ({r.evidence} \ {NoId}) : Known(menu, id))
    BY DEF Takeable
  <2>9. Range(c.selected) \cup ({c.evidence} \ {NoId}) \subseteq Points(r) \cup ({r.evidence} \ {NoId})
    BY <2>6
  <2>10. ~Untranslatable(ms, c)
    BY <2>6, <2>7, <2>8, <2>9 DEF Untranslatable
  <2>11. Objection(menu.card, t) = "none"
    <3>0. PICK j \in 1..Len(ms) : j = 1
      BY <2>3
    <3>1. Takeable(ms[j], r)
      BY <2>3, <3>0
    <3>2. t = Translated(ms, Completed(r))
      BY <2>1, <2>4
    <3>9. ms \in MenuLists
      BY <2>3
    <3>3. WellPut(ms[j].card, r) => Objection(ms[j].card, t) = "none"
      BY <3>1, <3>2, <3>9, TranslatedIs
    <3>4. QED
      BY <2>3, <3>0, <3>3
  <2>12. SingleAnswer(menu, r) = Fine(<<Observed(t)>>)
    BY <2>1, <2>2, <2>4, <2>6, <2>8, <2>10, <2>11 DEF SingleAnswer
  <2>13. QED
    BY <1>2, <2>12, SelectSingleIs DEF Fine
<1>3. QED
  BY <1>1, <1>2

LEMMA SoleWordsAre ==
  ASSUME NEW menus \in MenuLists, NEW wishes \in Wishings(menus), Len(menus) = 1,
         NEW i \in 1..Len(menus), NEW said \in Seq(Replies), Len(said) = 1
  PROVE  Head(Worded(menus, wishes, i, said)) = said[1]
<1>1. PICK reply \in Seq(Replies) : reply = Worded(menus, wishes, i, said)
  BY WordedIs
<1>2. PICK ps : ps = Pieces(menus, wishes, i, said)
  OBVIOUS
<1>3. PICK at \in [1..Len(menus) -> Nat] : Laid(ps, Len(menus), at, reply)
  BY <1>1, <1>2, WordedIs
<1>12. i = 1 /\ 1 \in 1..Len(menus)
  OBVIOUS
<1>4. i = 1 /\ ps[1] = said /\ at[1] \in Nat
  <2>1. ps[i] = said
    BY <1>2, PiecesAre
  <2>2. QED
    BY <1>12, <2>1
<1>5. /\ \A j \in 1..Len(menus) : \A l \in 1..Len(ps[j]) :
           at[j] + l \in 1..Len(reply) /\ reply[at[j] + l] = ps[j][l]
      /\ \A k \in 1..Len(reply) : \E j \in 1..Len(menus) : \E l \in 1..Len(ps[j]) : k = at[j] + l
  BY <1>3 DEF Laid
<1>6. at[1] + 1 \in 1..Len(reply) /\ reply[at[1] + 1] = said[1]
  BY <1>4, <1>5, ZenonT(40)
<1>7. 1 \in 1..Len(reply)
  BY <1>4, <1>6
<1>8. PICK j \in 1..Len(menus) : \E l \in 1..Len(ps[j]) : 1 = at[j] + l
  BY <1>5, <1>7
<1>9. at[1] = 0
  BY <1>4, <1>8
<1>10. reply[1] = said[1]
  BY <1>6, <1>9
<1>11. QED
  BY <1>1, <1>10

\* An answer that is taken tells the wishes, however well it was put.
LEMMA AnswerTells ==
  ASSUME NEW menus \in MenuLists, NEW wishes \in Wishings(menus), NEW i \in 1..Len(menus),
         NEW said,
         said \in Phrasings(menus[i], wishes[i]) \/ said \in Slips(menus[i], wishes[i]),
         input.kind = "single" => Len(menus) = 1 /\ Len(said) = 1,
         NEW got, got = Answered(menus, Worded(menus, wishes, i, said)),
         got.why = "none"
  PROVE  /\ got.value \in Seq(Observations)
         /\ Len(got.value) = Len(menus)
         /\ \A j \in 1..Len(menus) : got.value[j].field = menus[j].field
                                     /\ Range(got.value[j].selected) = wishes[j]
<1>0. PICK menu \in Menus : menu = menus[i]
  BY MenuOfIs
<1>1. PICK wish \in SUBSET Range(menu.ids) : menu = menus[i] /\ wish = wishes[i]
  BY <1>0 DEF Wishings
<1>2. /\ said \in Seq(Replies)
      /\ \A k \in 1..Len(said) : said[k].field \in {menu.field, UnknownField}
      /\ Readable(menu, said) => Tells(menu, wish, said)
  <2>1. CASE said \in Slips(menus[i], wishes[i])
    <3>1. said \in Slips(menu, wish)
      BY <1>1, <2>1
    <3>2. QED
      BY <3>1, SlipTells
  <2>2. CASE said \in Phrasings(menus[i], wishes[i])
    <3>1. said \in Phrasings(menu, wish)
      BY <1>1, <2>2
    <3>2. said \in Seq(Replies) /\ Accepted(menu, wish, said)
      BY <3>1, PhrasingIsAccepted
    <3>3. QED
      BY <3>2 DEF Accepted, Readable, Takeable
  <2>3. QED
    BY <2>1, <2>2
<1>3. PICK reply : reply = Worded(menus, wishes, i, said)
  OBVIOUS
<1>4. CASE input.kind = "single"
  <2>0. Len(menus) = 1 /\ Len(said) = 1
    BY <1>4
  <2>1. Len(menus) = 1 /\ Len(said) = 1 /\ i = 1 /\ 1 \in 1..Len(said)
    BY <2>0
  <2>9. said[1] \in Replies
    <3>1. PICK S : S = Replies
      OBVIOUS
    <3>2. said \in Seq(S)
      BY <1>2, <3>1
    <3>3. said[1] \in S
      BY <2>1, <3>2, SMTT(30)
    <3>4. QED
      BY <3>1, <3>3
  <2>2. PICK r \in Replies : r = said[1] /\ 1 \in 1..Len(said)
    BY <2>1, <2>9
  <2>3. Head(reply) = r
    BY <1>2, <1>3, <2>1, <2>2, SoleWordsAre
  <2>4. got = SelectSingle(menu, Instance0, r)
    BY <1>1, <1>3, <1>4, <2>1, <2>3 DEF Answered
  <2>5. Takeable(menu, r) => PointedAt(menu, r) = wish
    <3>1. said # <<>> /\ \A k \in 1..Len(said) : said[k] = r
      BY <2>1, <2>2, SMTT(30)
    <3>2. Takeable(menu, r) => Tells(menu, wish, said)
      BY <1>2, <3>1 DEF Readable
    <3>3. UNION {PointedAt(menu, said[k]) : k \in 1..Len(said)} = PointedAt(menu, r)
      BY <2>1, <3>1
    <3>4. QED
      BY <3>2, <3>3 DEF Tells
  <2>6. /\ got.value \in Seq(Observations) /\ Len(got.value) = 1
        /\ got.value[1].field = menu.field /\ Range(got.value[1].selected) = wish
    BY <2>4, <2>5, SingleTells, ZenonT(40)
  <2>7. \A j \in 1..Len(menus) : j = 1
    BY <2>1
  <2>8. QED
    BY <1>1, <2>1, <2>6, <2>7
<1>5. CASE input.kind # "single"
  <2>1. got = SelectMany(menus, reply)
    BY <1>3, <1>5 DEF Answered
  <2>2. /\ \A k \in 1..Len(said) : said[k].field \in {menus[i].field, UnknownField}
        /\ Readable(menus[i], said) => Tells(menus[i], wishes[i], said)
    BY <1>1, <1>2
  <2>3. SelectMany(menus, Worded(menus, wishes, i, said)).why = "none"
    BY <1>3, <2>1
  <2>4. /\ got.value \in Seq(Observations)
        /\ Len(got.value) = Len(menus)
        /\ \A j \in 1..Len(menus) : got.value[j].field = menus[j].field
                                    /\ Range(got.value[j].selected) = wishes[j]
    BY <1>2, <1>3, <2>1, <2>2, <2>3, WordsTell
  <2>5. QED
    BY <2>4
<1>6. QED
  BY <1>4, <1>5

\* An answer in an accepted wording is taken.
LEMMA AnswerIsTaken ==
  ASSUME NEW menus \in MenuLists, NEW wishes \in Wishings(menus), NEW i \in 1..Len(menus),
         NEW said \in Phrasings(menus[i], wishes[i]),
         input.kind = "single" => Len(menus) = 1 /\ Len(said) = 1
  PROVE  Answered(menus, Worded(menus, wishes, i, said)).why = "none"
<1>0. PICK menu \in Menus : menu = menus[i]
  BY MenuOfIs
<1>1. PICK wish \in SUBSET Range(menu.ids) : menu = menus[i] /\ wish = wishes[i]
  BY <1>0 DEF Wishings
<1>2. said \in Seq(Replies) /\ Accepted(menu, wish, said)
  <2>1. said \in Phrasings(menu, wish)
    BY <1>1
  <2>2. QED
    BY <2>1, PhrasingIsAccepted
<1>3. PICK reply : reply = Worded(menus, wishes, i, said)
  OBVIOUS
<1>4. CASE input.kind = "single"
  <2>0. Len(menus) = 1 /\ Len(said) = 1
    BY <1>4
  <2>1. Len(menus) = 1 /\ Len(said) = 1 /\ i = 1 /\ 1 \in 1..Len(said)
    BY <2>0
  <2>9. said[1] \in Replies
    <3>1. PICK S : S = Replies
      OBVIOUS
    <3>2. said \in Seq(S)
      BY <1>2, <3>1
    <3>3. said[1] \in S
      BY <2>1, <3>2
    <3>4. QED
      BY <3>1, <3>3
  <2>2. PICK r \in Replies : r = said[1] /\ 1 \in 1..Len(said)
    BY <2>1, <2>9
  <2>3. Head(reply) = r
    BY <1>2, <1>3, <2>1, <2>2, SoleWordsAre
  <2>4. Answered(menus, reply) = SelectSingle(menu, Instance0, r)
    BY <1>1, <1>4, <2>1, <2>3 DEF Answered
  <2>5. Takeable(menu, r) /\ WellPut(menu.card, r) /\ r.instance = Instance0
    BY <1>2, <2>2 DEF Accepted, Readable
  <2>6. QED
    BY <1>3, <2>4, <2>5, SingleIsTaken
<1>5. CASE input.kind # "single"
  BY <1>5, WordsAreTaken DEF Answered
<1>6. QED
  BY <1>4, <1>5

-----------------------------------------------------------------------------
(* The characters of a prompt *)

WeightOf(c, cands) == IF c \in cands THEN input.weights[c] ELSE 0

LEMMA WeightIs ==
  ASSUME input \in Inputs, NEW cands
  PROVE  \E sum \in [0..Len(input.weights) -> Nat] :
           /\ sum[0] = 0
           /\ \A c \in 1..Len(input.weights) : sum[c] = sum[c - 1] + WeightOf(c, cands)
           /\ Weight(cands) = sum[Len(input.weights)]
<1>1. PICK n \in Nat : n = Len(input.weights)
  BY InputsAssumption DEF InputsAreSound
<1>2. \A c \in 1..n : WeightOf(c, cands) \in Nat
  BY <1>1, InputsAssumption DEF InputsAreSound, WeightOf
<1> DEFINE step == [p \in Nat \X Nat |-> p[2] + (IF p[1] \in 1..n THEN WeightOf(p[1], cands) ELSE 0)]
           Sum(g) == [c \in 0..n |-> IF c = 0 THEN 0 ELSE g[c - 1] + WeightOf(c, cands)]
           sum == CHOOSE g : g = Sum(g)
<1>3. step \in [Nat \X Nat -> Nat]
  BY <1>2
<1>4. \A c \in 1..n, x \in Nat : step[<<c, x>>] = x + WeightOf(c, cands)
  BY <1>1
<1> HIDE DEF step
<1>5. PICK f \in [0..n -> Nat] : f[0] = 0 /\ \A c \in 1..n : f[c] = step[<<c, f[c - 1]>>]
  <2>1. PICK S, start : S = Nat /\ start = 0
    OBVIOUS
  <2>0. start \in S
    BY <2>1
  <2>2. PICK st \in [Nat \X S -> S] : st = step
    BY <1>3, <2>1
  <2>3. \E f \in [0..n -> S] : Iterates(f, start, st, n)
    BY <1>1, <2>0, <2>2, SomethingIterates
  <2>4. QED
    BY <2>1, <2>2, <2>3 DEF Iterates
<1>6. \A c \in 0..n : f[c] = IF c = 0 THEN 0 ELSE f[c - 1] + WeightOf(c, cands)
  <2> SUFFICES ASSUME NEW c \in 1..n PROVE f[c] = f[c - 1] + WeightOf(c, cands)
    BY <1>1, <1>5
  <2>1. c - 1 \in 0..n /\ f[c - 1] \in Nat
    BY <1>1, <1>5
  <2>2. QED
    BY <1>4, <1>5, <2>1
<1>7. f = Sum(f)
  BY <1>5, <1>6
<1>8. sum = Sum(sum)
  BY <1>7
<1>9. Weight(cands) = sum[n]
  BY <1>1 DEF Weight, WeightOf
<1> HIDE DEF sum
<1>10. DOMAIN sum = 0..n /\ sum[0] = 0 /\ \A c \in 1..n : sum[c] = sum[c - 1] + WeightOf(c, cands)
  <2>1. DOMAIN sum = 0..n
    BY <1>8
  <2>2. \A c \in 0..n : sum[c] = IF c = 0 THEN 0 ELSE sum[c - 1] + WeightOf(c, cands)
    BY <1>8
  <2>3. QED
    BY <1>1, <2>1, <2>2
<1>11. \A c \in 0..n : sum[c] \in Nat
  <2> DEFINE T == {c \in Nat : c <= n => sum[c] \in Nat}
  <2>1. 0 \in T
    BY <1>10
  <2>2. ASSUME NEW c \in Nat, c \in T PROVE c + 1 \in T
    <3> SUFFICES ASSUME c + 1 <= n PROVE sum[c + 1] \in Nat
      OBVIOUS
    <3>1. c + 1 \in 1..n /\ sum[c] \in Nat /\ (c + 1) - 1 = c
      BY <1>1, <2>2
    <3>2. sum[c + 1] = sum[c] + WeightOf(c + 1, cands)
      BY <1>10, <3>1
    <3>3. QED
      BY <1>2, <3>1, <3>2
  <2> HIDE DEF T
  <2>3. Nat \subseteq T
    BY <2>1, <2>2, NatSetInduction
  <2>4. QED
    BY <1>1, <2>3 DEF T
<1>12. sum \in [0..n -> Nat]
  <2>1. sum = [c \in 0..n |-> sum[c]]
    BY <1>8
  <2>2. QED
    BY <1>11, <2>1
<1>13. QED
  BY <1>1, <1>9, <1>10, <1>12

\* More candidates are not shorter.
LEMMA WeightGrows ==
  ASSUME input \in Inputs, NEW S, NEW T, S \subseteq T
  PROVE  Weight(S) \in Nat /\ Weight(T) \in Nat /\ Weight(S) <= Weight(T)
<1>1. PICK n \in Nat : n = Len(input.weights)
  BY InputsAssumption DEF InputsAreSound
<1>2. \A c \in 1..n : /\ WeightOf(c, S) \in Nat /\ WeightOf(c, T) \in Nat
                      /\ WeightOf(c, S) <= WeightOf(c, T)
  BY <1>1, InputsAssumption DEF InputsAreSound, WeightOf
<1>3. PICK s \in [0..n -> Nat] : /\ s[0] = 0
                                 /\ \A c \in 1..n : s[c] = s[c - 1] + WeightOf(c, S)
                                 /\ Weight(S) = s[n]
  BY <1>1, WeightIs
<1>4. PICK t \in [0..n -> Nat] : /\ t[0] = 0
                                 /\ \A c \in 1..n : t[c] = t[c - 1] + WeightOf(c, T)
                                 /\ Weight(T) = t[n]
  BY <1>1, WeightIs
<1> DEFINE L == {c \in Nat : c <= n => s[c] <= t[c]}
<1>5. 0 \in L
  BY <1>3, <1>4
<1>6. ASSUME NEW c \in Nat, c \in L PROVE c + 1 \in L
  <2> SUFFICES ASSUME c + 1 <= n PROVE s[c + 1] <= t[c + 1]
    OBVIOUS
  <2>1. c + 1 \in 1..n /\ c \in 0..n /\ (c + 1) - 1 = c /\ s[c] <= t[c]
    BY <1>1, <1>6
  <2>2. s[c + 1] = s[c] + WeightOf(c + 1, S) /\ t[c + 1] = t[c] + WeightOf(c + 1, T)
    BY <1>3, <1>4, <2>1
  <2>3. s[c] \in Nat /\ t[c] \in Nat
    BY <2>1
  <2>4. QED
    BY <1>2, <2>1, <2>2, <2>3
<1> HIDE DEF L
<1>7. Nat \subseteq L
  BY <1>5, <1>6, NatSetInduction
<1>8. n \in 0..n /\ s[n] <= t[n]
  BY <1>1, <1>7 DEF L
<1>9. QED
  BY <1>3, <1>4, <1>8

LEMMA CostGrows ==
  ASSUME input \in Inputs, NEW s, NEW t, Range(s) \subseteq Range(t), NEW context \in Nat
  PROVE  /\ Cost(s, context) \in Nat /\ Cost(t, context) \in Nat
         /\ Cost(s, context) <= Cost(t, context)
<1>1. input.base \in Nat
  BY InputsAssumption DEF InputsAreSound
<1>2. /\ Weight(Range(s)) \in Nat /\ Weight(Range(t)) \in Nat
      /\ Weight(Range(s)) <= Weight(Range(t))
  BY WeightGrows
<1>3. QED
  BY <1>1, <1>2 DEF Cost

-----------------------------------------------------------------------------
(* The shards *)

Pile == Seq(Nat)

LEMMA PlacedIs ==
  ASSUME NEW shards \in Seq(Pile), NEW id \in Nat, NEW context, NEW m \in Nat, m = Len(shards),
         NEW got, got = Placed(shards, id, context)
  PROVE  /\ got \in Seq(Pile)
         /\ \/ /\ m > 0 /\ Joins(shards[m], id, context)
               /\ Len(got) = m
               /\ \A k \in 1..m : k # m => got[k] = shards[k]
               /\ got[m] = Append(shards[m], id)
            \/ /\ m = 0 \/ ~Joins(shards[m], id, context)
               /\ Len(got) = m + 1
               /\ \A k \in 1..m : got[k] = shards[k]
               /\ got[m + 1] = <<id>>
<1>1. shards # <<>> <=> m > 0
  OBVIOUS
<1>2. CASE m > 0 /\ Joins(shards[m], id, context)
  <2>1. Last(shards) = shards[m] /\ shards[m] \in Pile
    BY <1>2 DEF Last
  <2>2. PICK s : s = Append(shards[m], id)
    OBVIOUS
  <2>3. s \in Pile
    BY <2>1, <2>2 DEF Pile
  <2>4. PICK f : f = Front(shards)
    OBVIOUS
  <2>5. f \in Seq(Pile) /\ Len(f) = m - 1 /\ \A k \in 1..(m - 1) : f[k] = shards[k]
    BY <1>2, <2>4 DEF Front
  <2>6. got = Append(f, s)
    BY <1>1, <1>2, <2>1, <2>2, <2>4 DEF Placed
  <2>7. got \in Seq(Pile) /\ Len(got) = m /\ \A k \in 1..(m - 1) : got[k] = f[k]
    BY <1>2, <2>3, <2>5, <2>6
  <2>8. got[m] = s
    BY <1>2, <2>3, <2>5, <2>6
  <2>9. \A k \in 1..m : k # m => got[k] = shards[k]
    BY <2>5, <2>7
  <2>10. QED
    BY <1>2, <2>2, <2>7, <2>8, <2>9
<1>3. CASE ~(m > 0 /\ Joins(shards[m], id, context))
  <2>1. Last(shards) = shards[m]
    BY DEF Last
  <2>2. got = Append(shards, <<id>>)
    BY <1>1, <1>3, <2>1 DEF Placed
  <2>3. PICK s : s = <<id>>
    OBVIOUS
  <2>4. s \in Pile
    BY <2>3 DEF Pile
  <2>5. /\ got \in Seq(Pile) /\ Len(got) = m + 1 /\ got[m + 1] = s
        /\ \A k \in 1..m : got[k] = shards[k]
    BY <2>2, <2>3, <2>4
  <2>6. QED
    BY <1>3, <2>3, <2>5
<1>4. QED
  BY <1>2, <1>3

\* shards that hold each candidate of S once
Divided(shards, S) ==
  /\ \A k \in 1..Len(shards) : shards[k] # <<>>
  /\ \A k \in 1..Len(shards) : Range(shards[k]) \subseteq S
  /\ \A c \in S : \E k \in 1..Len(shards) : c \in Range(shards[k])
  /\ \A k, l \in 1..Len(shards) : \A c \in Range(shards[k]) : c \in Range(shards[l]) => k = l

LEMMA RangeOfAppend ==
  ASSUME NEW s \in Pile, NEW id \in Nat
  PROVE  Range(Append(s, id)) = Range(s) \cup {id} /\ Range(<<id>>) = {id}
         /\ Append(s, id) # <<>> /\ <<id>> # <<>>
<1>1. PICK n \in Nat : n = Len(s) /\ DOMAIN s = 1..n
  BY DEF Pile
<1>2. PICK t : t = Append(s, id)
  OBVIOUS
<1>3. DOMAIN t = 1..n + 1 /\ t[n + 1] = id /\ \A k \in 1..n : t[k] = s[k]
  BY <1>1, <1>2 DEF Pile
<1>4. Range(t) = Range(s) \cup {id}
  <2>1. Range(s) = {s[k] : k \in 1..n} /\ Range(t) = {t[k] : k \in 1..n + 1}
    BY <1>1, <1>3 DEF Range
  <2>2. \A k \in 1..n + 1 : k \in 1..n \/ k = n + 1
    OBVIOUS
  <2>3. \A k \in 1..n : k \in 1..n + 1
    OBVIOUS
  <2>4. n + 1 \in 1..n + 1
    OBVIOUS
  <2>5. QED
    BY <1>3, <2>1, <2>2, <2>3, <2>4
<1>5. Range(<<id>>) = {id}
  BY DEF Range
<1>6. t # <<>>
  BY <1>3
<1>7. QED
  BY <1>2, <1>4, <1>5, <1>6

LEMMA PlacedDivides ==
  ASSUME NEW shards \in Seq(Pile), NEW id \in Nat, NEW context, NEW S, Divided(shards, S),
         id \notin S
  PROVE  Divided(Placed(shards, id, context), S \cup {id})
<1>1. PICK m \in Nat : m = Len(shards)
  OBVIOUS
<1>2. PICK got : got = Placed(shards, id, context)
  OBVIOUS
<1>3. \A k \in 1..m : shards[k] \in Pile /\ shards[k] # <<>> /\ Range(shards[k]) \subseteq S
  BY <1>1 DEF Divided
<1>4. /\ \A c \in S : \E k \in 1..m : c \in Range(shards[k])
      /\ \A k, l \in 1..m : \A c \in Range(shards[k]) : c \in Range(shards[l]) => k = l
  BY <1>1 DEF Divided
<1>5. CASE /\ m > 0 /\ Len(got) = m
           /\ \A k \in 1..m : k # m => got[k] = shards[k]
           /\ got[m] = Append(shards[m], id)
  <2>1. m \in 1..m
    BY <1>5
  <2>2. Range(got[m]) = Range(shards[m]) \cup {id} /\ got[m] # <<>>
    BY <1>3, <1>5, <2>1, RangeOfAppend
  <2>3. \A k \in 1..m : k # m => Range(got[k]) = Range(shards[k]) /\ got[k] # <<>>
    BY <1>3, <1>5
  <2>4. \A k \in 1..m : got[k] # <<>> /\ Range(got[k]) \subseteq S \cup {id}
    BY <1>3, <2>1, <2>2, <2>3
  <2>5. \A c \in S \cup {id} : \E k \in 1..m : c \in Range(got[k])
    <3>1. \A k \in 1..m : Range(shards[k]) \subseteq Range(got[k])
      BY <2>1, <2>2, <2>3
    <3>2. QED
      BY <1>4, <2>1, <2>2, <3>1
  <2>6. \A k, l \in 1..m : \A c \in Range(got[k]) : c \in Range(got[l]) => k = l
    <3>1. \A k \in 1..m : id \in Range(got[k]) => k = m
      BY <1>3, <2>3
    <3>2. \A k \in 1..m : \A c \in Range(got[k]) : c # id => c \in Range(shards[k])
      BY <2>1, <2>2, <2>3
    <3> SUFFICES ASSUME NEW k \in 1..m, NEW l \in 1..m, NEW c,
                        c \in Range(got[k]), c \in Range(got[l])
                 PROVE  k = l
      OBVIOUS
    <3>3. CASE c = id
      BY <3>1, <3>3
    <3>4. CASE c # id
      <4>1. c \in Range(shards[k]) /\ c \in Range(shards[l])
        BY <3>2, <3>4
      <4>2. QED
        BY <1>4, <4>1
    <3>5. QED
      BY <3>3, <3>4
  <2>7. QED
    BY <1>2, <1>5, <2>4, <2>5, <2>6 DEF Divided
<1>6. CASE /\ Len(got) = m + 1
           /\ \A k \in 1..m : got[k] = shards[k]
           /\ got[m + 1] = <<id>>
  <2>1. Range(got[m + 1]) = {id} /\ got[m + 1] # <<>>
    <3>1. <<>> \in Pile
      BY DEF Pile
    <3>2. QED
      BY <1>6, <3>1, RangeOfAppend
  <2>2. \A k \in 1..m : Range(got[k]) = Range(shards[k]) /\ got[k] # <<>>
    BY <1>3, <1>6
  <2>3. \A k \in 1..(m + 1) : k \in 1..m \/ k = m + 1
    OBVIOUS
  <2>8. m + 1 \in 1..(m + 1) /\ \A k \in 1..m : k \in 1..(m + 1)
    OBVIOUS
  <2>4. \A k \in 1..(m + 1) : got[k] # <<>> /\ Range(got[k]) \subseteq S \cup {id}
    BY <1>3, <2>1, <2>2, <2>3
  <2>5. \A c \in S \cup {id} : \E k \in 1..(m + 1) : c \in Range(got[k])
    BY <1>4, <2>1, <2>2, <2>8
  <2>6. \A k, l \in 1..(m + 1) : \A c \in Range(got[k]) : c \in Range(got[l]) => k = l
    <3>1. \A k \in 1..m : id \notin Range(got[k])
      BY <1>3, <2>2
    <3> SUFFICES ASSUME NEW k \in 1..(m + 1), NEW l \in 1..(m + 1), NEW c,
                        c \in Range(got[k]), c \in Range(got[l])
                 PROVE  k = l
      OBVIOUS
    <3>2. CASE c = id
      BY <2>3, <3>1, <3>2
    <3>3. CASE c # id
      <4>1. k \in 1..m /\ l \in 1..m
        BY <2>1, <2>3, <3>3
      <4>2. c \in Range(shards[k]) /\ c \in Range(shards[l])
        BY <2>2, <4>1
      <4>3. QED
        BY <1>4, <4>1, <4>2
    <3>4. QED
      BY <3>2, <3>3
  <2>7. QED
    BY <1>2, <1>6, <2>4, <2>5, <2>6 DEF Divided
<1>7. QED
  BY <1>1, <1>2, <1>5, <1>6, PlacedIs

\* The loop of plan_candidate_shards, turn by turn.
LEMMA ShardsLoop ==
  ASSUME NEW ids \in Pile, NEW context
  PROVE  \E cut \in [0..Len(ids) -> Seq(Pile)] :
           /\ cut[0] = <<>>
           /\ \A i \in 1..Len(ids) : cut[i] = Placed(cut[i - 1], ids[i], context)
           /\ Shards(ids, context) = cut[Len(ids)]
<1>1. PICK n \in Nat : n = Len(ids) /\ \A i \in 1..n : ids[i] \in Nat
  BY DEF Pile
<1>2. PICK S : S = Seq(Pile)
  OBVIOUS
<1>3. PICK start : start = <<>>
  OBVIOUS
<1>4. start \in S
  BY <1>2, <1>3
<1> DEFINE step == [p \in Nat \X S |-> IF p[1] \in 1..n THEN Placed(p[2], ids[p[1]], context) ELSE start]
           Cut(g) == [i \in 0..n |-> IF i = 0 THEN <<>> ELSE Placed(g[i - 1], ids[i], context)]
           cut == CHOOSE g : g = Cut(g)
<1>5. \A s \in S : \A id \in Nat : Placed(s, id, context) \in S
  BY <1>2, PlacedIs
<1>6. step \in [Nat \X S -> S]
  BY <1>1, <1>4, <1>5
<1>7. \A i \in 1..n, s \in S : step[<<i, s>>] = Placed(s, ids[i], context)
  BY <1>1
<1> HIDE DEF step
<1>8. PICK f \in [0..n -> S] : f[0] = start /\ \A i \in 1..n : f[i] = step[<<i, f[i - 1]>>]
  <2>1. PICK st \in [Nat \X S -> S] : st = step
    BY <1>6
  <2>2. \E f \in [0..n -> S] : Iterates(f, start, st, n)
    BY <1>1, <1>4, <2>1, SomethingIterates
  <2>3. QED
    BY <2>1, <2>2 DEF Iterates
<1>9. \A i \in 0..n : f[i] = IF i = 0 THEN <<>> ELSE Placed(f[i - 1], ids[i], context)
  <2> SUFFICES ASSUME NEW i \in 1..n PROVE f[i] = Placed(f[i - 1], ids[i], context)
    BY <1>1, <1>3, <1>8
  <2>1. i - 1 \in 0..n /\ f[i - 1] \in S
    BY <1>1, <1>8
  <2>2. QED
    BY <1>7, <1>8, <2>1
<1>10. f = Cut(f)
  BY <1>8, <1>9
<1>11. cut = Cut(cut)
  BY <1>10
<1>12. Shards(ids, context) = cut[n]
  BY <1>1 DEF Shards
<1> HIDE DEF cut
<1>13. DOMAIN cut = 0..n /\ cut[0] = <<>>
       /\ \A i \in 1..n : cut[i] = Placed(cut[i - 1], ids[i], context)
  <2>1. DOMAIN cut = 0..n
    BY <1>11
  <2>2. \A i \in 0..n : cut[i] = IF i = 0 THEN <<>> ELSE Placed(cut[i - 1], ids[i], context)
    BY <1>11
  <2>3. QED
    BY <1>1, <2>1, <2>2
<1>14. \A i \in 0..n : cut[i] \in S
  <2> DEFINE T == {i \in Nat : i <= n => cut[i] \in S}
  <2>1. 0 \in T
    BY <1>3, <1>4, <1>13
  <2>2. ASSUME NEW i \in Nat, i \in T PROVE i + 1 \in T
    <3> SUFFICES ASSUME i + 1 <= n PROVE cut[i + 1] \in S
      OBVIOUS
    <3>1. i + 1 \in 1..n /\ cut[i] \in S /\ (i + 1) - 1 = i
      BY <1>1, <2>2
    <3>2. cut[i + 1] = Placed(cut[i], ids[i + 1], context)
      BY <1>13, <3>1
    <3>3. QED
      BY <1>1, <1>5, <3>1, <3>2
  <2> HIDE DEF T
  <2>3. Nat \subseteq T
    BY <2>1, <2>2, NatSetInduction
  <2>4. QED
    BY <1>1, <2>3 DEF T
<1>15. cut \in [0..n -> S]
  <2>1. cut = [i \in 0..n |-> cut[i]]
    BY <1>11
  <2>2. QED
    BY <1>14, <2>1
<1>16. QED
  BY <1>1, <1>2, <1>12, <1>13, <1>15

Distinct(ids) == \A k, l \in 1..Len(ids) : ids[k] = ids[l] => k = l

\* Every candidate is put into one shard.
LEMMA ShardsAre ==
  ASSUME input \in Inputs, NEW ids \in Pile, Distinct(ids), ids # <<>>, NEW context \in Nat
  PROVE  /\ Shards(ids, context) \in Seq(Pile) /\ Len(Shards(ids, context)) > 0
         /\ Divided(Shards(ids, context), Range(ids))
<1>1. PICK n \in Nat : n = Len(ids) /\ n > 0 /\ \A i \in 1..n : ids[i] \in Nat
  BY DEF Pile
<1>2. PICK cut \in [0..n -> Seq(Pile)] :
        /\ cut[0] = <<>>
        /\ \A i \in 1..n : cut[i] = Placed(cut[i - 1], ids[i], context)
        /\ Shards(ids, context) = cut[n]
  BY <1>1, ShardsLoop
<1> DEFINE First(i) == {ids[h] : h \in 1..i}
<1>3. /\ First(0) = {}
      /\ \A i \in 0..(n - 1) : First(i + 1) = First(i) \cup {ids[i + 1]} /\ ids[i + 1] \notin First(i)
      /\ \A i \in 0..n : First(i) \subseteq Range(ids)
      /\ First(n) = Range(ids)
  <2>1. First(0) = {}
    OBVIOUS
  <2>2. Range(ids) = First(n)
    BY <1>1, RangeIsSet DEF Pile
  <2>3. \A i \in 0..n : First(i) \subseteq First(n)
    BY <1>1
  <2>4. ASSUME NEW i \in 0..(n - 1)
        PROVE  First(i + 1) = First(i) \cup {ids[i + 1]} /\ ids[i + 1] \notin First(i)
    <3>1. \A h \in 1..(i + 1) : h \in 1..i \/ h = i + 1
      BY <1>1
    <3>2. i + 1 \in 1..(i + 1) /\ \A h \in 1..i : h \in 1..(i + 1) /\ h # i + 1
      BY <1>1
    <3>3. First(i + 1) = First(i) \cup {ids[i + 1]}
      BY <3>1, <3>2
    <3>4. \A h \in 1..i : ids[h] # ids[i + 1]
      BY <1>1, <3>2 DEF Distinct
    <3>5. QED
      BY <3>3, <3>4
  <2>5. QED
    BY <2>1, <2>2, <2>3, <2>4
<1> HIDE DEF First
<1>4. \A i \in 0..n : Divided(cut[i], First(i))
  <2> DEFINE T == {i \in Nat : i <= n => Divided(cut[i], First(i))}
  <2>1. 0 \in T
    <3>1. Len(cut[0]) = 0
      BY <1>2
    <3>2. Divided(cut[0], First(0))
      BY <1>3, <3>1 DEF Divided
    <3>3. QED
      BY <3>2
  <2>2. ASSUME NEW i \in Nat, i \in T PROVE i + 1 \in T
    <3> SUFFICES ASSUME i + 1 <= n PROVE Divided(cut[i + 1], First(i + 1))
      OBVIOUS
    <3>1. i + 1 \in 1..n /\ i \in 0..n /\ i \in 0..(n - 1) /\ (i + 1) - 1 = i
          /\ Divided(cut[i], First(i))
      BY <1>1, <2>2
    <3>2. cut[i + 1] = Placed(cut[i], ids[i + 1], context) /\ cut[i] \in Seq(Pile)
      BY <1>2, <3>1
    <3>3. PICK id \in Nat : id = ids[i + 1]
      BY <1>1, <3>1
    <3>4. PICK shards \in Seq(Pile) : shards = cut[i]
      BY <3>2
    <3>5. PICK S : S = First(i)
      OBVIOUS
    <3>6. Divided(Placed(shards, id, context), S \cup {id})
      BY <1>3, <3>1, <3>3, <3>4, <3>5, PlacedDivides
    <3>7. QED
      BY <1>3, <3>1, <3>2, <3>3, <3>4, <3>5, <3>6
  <2> HIDE DEF T
  <2>3. Nat \subseteq T
    BY <2>1, <2>2, NatSetInduction
  <2>4. QED
    BY <1>1, <2>3 DEF T
<1>5. /\ cut[n] \in Seq(Pile) /\ Divided(cut[n], Range(ids))
  BY <1>1, <1>2, <1>3, <1>4
<1>6. Len(cut[n]) > 0
  <2>1. ids[1] \in Range(ids)
    BY <1>1 DEF Range, Pile
  <2>2. \E k \in 1..Len(cut[n]) : ids[1] \in Range(cut[n][k])
    BY <1>5, <2>1 DEF Divided
  <2>3. QED
    BY <1>5, <2>2
<1>7. QED
  BY <1>2, <1>5, <1>6

-----------------------------------------------------------------------------
(* What the model wants *)

\* it takes all it likes
Greedy(card) == card = "MANY" \/ input.picks = <<>>

\* what it would have of the candidates C, if it likes those of W
Best(W, card, C) ==
  IF Greedy(card) THEN C \cap W
  ELSE {c \in C \cap W : \A d \in C \cap W : input.picks[c] <= input.picks[d]}

\* it can tell them apart
Ranks(C) == C \subseteq Nat /\ (input.picks # <<>> => C \subseteq DOMAIN input.picks)

LikedIn(i, field) == input.wants[IF input.kind = "windows" THEN i ELSE field.name]

LEMMA WantedIs ==
  ASSUME NEW i, NEW field, NEW ids
  PROVE  Wanted(i, field, ids) = Best(LikedIn(i, field), field.card, Range(ids))
<1>1. PICK liked : liked = Range(ids) \cap LikedIn(i, field)
  OBVIOUS
<1>2. Wanted(i, field, ids) =
        IF field.card = "MANY" \/ input.picks = <<>> \/ liked = {} THEN liked
        ELSE {c \in liked : \A d \in liked : input.picks[c] <= input.picks[d]}
  BY <1>1 DEF Wanted, LikedIn
<1>3. Best(LikedIn(i, field), field.card, Range(ids)) =
        IF Greedy(field.card) THEN liked
        ELSE {c \in liked : \A d \in liked : input.picks[c] <= input.picks[d]}
  BY <1>1 DEF Best
<1>4. QED
  BY <1>2, <1>3 DEF Greedy

LEMMA BestIs ==
  ASSUME input \in Inputs, NEW W, NEW card, NEW C, Ranks(C)
  PROVE  /\ Best(W, card, C) \subseteq C \cap W
         /\ Best(W, card, C) = {} => C \cap W = {}
<1>1. Best(W, card, C) \subseteq C \cap W
  BY DEF Best
<1>2. ASSUME C \cap W # {}, ~Greedy(card) PROVE Best(W, card, C) # {}
  <2>1. \A c \in C : input.picks[c] \in Nat
    BY <1>2, InputsAssumption DEF InputsAreSound, Ranks, Greedy
  <2> DEFINE ranks == {input.picks[c] : c \in C \cap W}
  <2>2. ranks \in SUBSET Nat /\ ranks # {}
    BY <1>2, <2>1
  <2>3. PICK r \in ranks : \A q \in ranks : r <= q
    BY <2>2, LeastNat
  <2>4. PICK c \in C \cap W : r = input.picks[c]
    BY <2>3
  <2>5. \A d \in C \cap W : input.picks[c] <= input.picks[d]
    BY <2>3, <2>4
  <2>6. QED
    BY <1>2, <2>5 DEF Best
<1>3. QED
  BY <1>1, <1>2 DEF Best

\* The best of the best of parts is the best of the whole.
LEMMA BestOfBests ==
  ASSUME input \in Inputs, NEW W, NEW card, NEW Parts, Ranks(UNION Parts)
  PROVE  Best(W, card, UNION {Best(W, card, p) : p \in Parts}) = Best(W, card, UNION Parts)
<1>1. PICK C, S : C = UNION Parts /\ S = UNION {Best(W, card, p) : p \in Parts}
  OBVIOUS
<1>2. \A p \in Parts : Ranks(p)
  BY DEF Ranks
<1>3. \A p \in Parts : Best(W, card, p) \subseteq p \cap W
  BY <1>2, BestIs
<1>4. S \subseteq C \cap W
  BY <1>1, <1>3
<1>5. CASE Greedy(card)
  <2>1. \A p \in Parts : Best(W, card, p) = p \cap W
    BY <1>5 DEF Best
  <2>2. S = C \cap W
    BY <1>1, <2>1
  <2>3. QED
    BY <1>1, <1>5, <2>2 DEF Best
<1>6. CASE ~Greedy(card)
  <2>1. \A c \in C : input.picks[c] \in Nat
    BY <1>1, <1>6, InputsAssumption DEF InputsAreSound, Ranks, Greedy
  <2>2. ASSUME NEW x \in Best(W, card, S) PROVE x \in Best(W, card, C)
    <3>1. x \in S \cap W /\ \A d \in S \cap W : input.picks[x] <= input.picks[d]
      BY <1>6, <2>2 DEF Best
    <3>2. ASSUME NEW c \in C \cap W PROVE input.picks[x] <= input.picks[c]
      <4>1. PICK p \in Parts : c \in p
        BY <1>1
      <4>2. PICK b : b \in Best(W, card, p)
        BY <1>2, <4>1, BestIs
      <4>3. b \in p \cap W /\ input.picks[b] <= input.picks[c]
        BY <1>6, <4>1, <4>2 DEF Best
      <4>4. b \in S \cap W
        BY <1>1, <4>2, <4>3
      <4>5. input.picks[x] <= input.picks[b]
        BY <3>1, <4>4
      <4>6. x \in C /\ b \in C /\ c \in C
        BY <1>4, <3>1, <4>4
      <4>7. input.picks[x] \in Nat /\ input.picks[b] \in Nat /\ input.picks[c] \in Nat
        BY <2>1, <4>6
      <4>8. QED
        BY <4>3, <4>5, <4>7
    <3>3. x \in C \cap W
      BY <1>4, <3>1
    <3>4. QED
      BY <1>6, <3>2, <3>3 DEF Best
  <2>3. ASSUME NEW x \in Best(W, card, C) PROVE x \in Best(W, card, S)
    <3>1. x \in C \cap W /\ \A d \in C \cap W : input.picks[x] <= input.picks[d]
      BY <1>6, <2>3 DEF Best
    <3>2. PICK p \in Parts : x \in p
      BY <1>1, <3>1
    <3>3. \A d \in p \cap W : d \in C \cap W
      BY <1>1
    <3>4. x \in Best(W, card, p)
      BY <1>6, <3>1, <3>2, <3>3 DEF Best
    <3>5. x \in S \cap W
      BY <1>1, <3>1, <3>4
    <3>6. \A d \in S \cap W : input.picks[x] <= input.picks[d]
      BY <1>4, <3>1
    <3>7. QED
      BY <1>6, <3>5, <3>6 DEF Best
  <2>4. QED
    BY <1>1, <2>2, <2>3
<1>7. QED
  BY <1>5, <1>6

\* Candidates among which there is nothing to like do not count.
LEMMA BestOfOne ==
  ASSUME input \in Inputs, NEW W, NEW card, NEW C, NEW p \in SUBSET C, C \cap W \subseteq p
  PROVE  Best(W, card, C) = Best(W, card, p)
<1>1. C \cap W = p \cap W
  OBVIOUS
<1>2. QED
  BY <1>1 DEF Best

LEMMA WishesAre ==
  ASSUME input \in Inputs, NEW i, NEW field, NEW ids, NEW wish \in Wishes(i, field, ids)
  PROVE  /\ wish \subseteq Range(ids)
         /\ input.steady => wish = Wanted(i, field, ids)
<1>1. input.steady \in BOOLEAN
  BY InputsAssumption DEF InputsAreSound
<1>2. Wanted(i, field, ids) \subseteq Range(ids)
  BY DEF Wanted
<1>3. QED
  BY <1>1, <1>2 DEF Wishes

-----------------------------------------------------------------------------
(* Candidates in source order *)

LEMMA WithinIs ==
  ASSUME NEW s \in Pile, NEW cands
  PROVE  /\ Within(s, cands) \in Pile
         /\ Range(Within(s, cands)) = Range(s) \cap cands
         /\ Distinct(s) => Distinct(Within(s, cands))
         /\ Len(Within(s, cands)) <= Len(s)
         /\ Len(Within(s, cands)) < Len(s) <=> ~(Range(s) \subseteq cands)
<1>1. s \in Seq(Nat)
  BY DEF Pile
<1>2. PICK n \in Nat : n = Len(s) /\ DOMAIN s = 1..n
  BY <1>1
<1>3. PICK at : at = {i \in DOMAIN s : s[i] \in cands}
  OBVIOUS
<1>4. at \in SUBSET DOMAIN s /\ at \in SUBSET (1..n)
  BY <1>2, <1>3
<1>5. PICK c : c = Cardinality(at)
  OBVIOUS
<1>6. PICK w : w = Picked(s, at)
  OBVIOUS
<1>7. w \in Seq(Nat) /\ Len(w) = c /\ c \in Nat /\ Range(w) = {s[i] : i \in at}
  <2>1. PICK S : S = Nat
    OBVIOUS
  <2>2. s \in Seq(S)
    BY <1>1, <2>1
  <2>3. w \in Seq(S) /\ Len(w) = c /\ c \in Nat /\ Range(w) = {s[i] : i \in at}
    BY <1>4, <1>5, <1>6, <2>2, PickedIs
  <2>4. QED
    BY <2>1, <2>3
<1>8. PICK place \in [1..c -> at] : /\ \A k, l \in 1..c : place[k] = place[l] => k = l
                                    /\ \A k \in 1..c : w[k] = s[place[k]]
  <2>1. PICK S : S = Nat
    OBVIOUS
  <2>2. s \in Seq(S)
    BY <1>1, <2>1
  <2>3. QED
    BY <1>4, <1>5, <1>6, <2>2, PickedIs
<1>9. Range(w) = Range(s) \cap cands
  BY <1>3, <1>7 DEF Range
<1>10. Distinct(s) => Distinct(w)
  <2> SUFFICES ASSUME Distinct(s), NEW k \in 1..c, NEW l \in 1..c, w[k] = w[l] PROVE k = l
    BY <1>7 DEF Distinct
  <2>1. place[k] \in 1..n /\ place[l] \in 1..n /\ s[place[k]] = s[place[l]]
    BY <1>4, <1>8
  <2>2. place[k] = place[l]
    BY <1>2, <2>1 DEF Distinct
  <2>3. QED
    BY <1>8, <2>2
<1>11. IsFiniteSet(1..n) /\ Cardinality(1..n) = n
  <2>1. IsFiniteSet(1..n) /\ Cardinality(1..n) = IF 1 > n THEN 0 ELSE n - 1 + 1
    <3>1. 1 \in Int /\ n \in Int
      OBVIOUS
    <3>2. QED
      BY <3>1, FS_Interval, Zenon
  <2>2. QED
    BY <2>1
<1>12. c <= n /\ (c = n => at = 1..n)
  BY <1>4, <1>5, <1>11, FS_Subset
<1>13. at = 1..n => Range(s) \subseteq cands
  BY <1>2, <1>3 DEF Range
<1>14. Range(s) \subseteq cands => at = 1..n
  BY <1>2, <1>3 DEF Range
<1>15. at = 1..n => c = n
  BY <1>5, <1>11
<1>16. c < n <=> ~(Range(s) \subseteq cands)
  BY <1>2, <1>7, <1>12, <1>13, <1>14, <1>15
<1>17. Within(s, cands) = w
  BY <1>3, <1>6 DEF Within
<1>18. QED
  BY <1>2, <1>7, <1>9, <1>10, <1>12, <1>16, <1>17 DEF Pile

LEMMA FieldsAre ==
  ASSUME input \in Inputs
  PROVE  /\ Len(input.fields) \in Nat /\ Len(input.fields) > 0
         /\ DOMAIN input.fields = 1..Len(input.fields)
         /\ \A i \in 1..Len(input.fields) : input.fields[i] \in FieldSpecs
         /\ input.kind # "packed" => Len(input.fields) = 1
         /\ \A i, j \in 1..Len(input.fields) :
              input.fields[i].name = input.fields[j].name => i = j
         /\ Field1 \in FieldSpecs
  BY InputsAssumption DEF InputsAreSound, Field1

LEMMA AllOfIs ==
  ASSUME input \in Inputs, NEW i \in 1..Len(input.fields)
  PROVE  /\ AllOf(input.fields[i]) \in Pile
         /\ Distinct(AllOf(input.fields[i]))
         /\ Range(AllOf(input.fields[i])) = 1..input.fields[i].size
         /\ Ranks(Range(AllOf(input.fields[i])))
         /\ input.kind # "single" => AllOf(input.fields[i]) # <<>>
<1>1. PICK n \in Nat : n = input.fields[i].size
  BY FieldsAre DEF FieldSpecs
<1>2. PICK a : a = AllOf(input.fields[i])
  OBVIOUS
<1>3. a = [k \in 1..n |-> k]
  BY <1>1, <1>2 DEF AllOf
<1>4. a \in [1..n -> Nat] /\ \A k \in 1..n : a[k] = k
  BY <1>3
<1>5. a \in Pile /\ Len(a) = n
  BY <1>4, FunctionIsSeq DEF Pile
<1>6. Distinct(a)
  BY <1>4, <1>5 DEF Distinct
<1>7. Range(a) = 1..n
  BY <1>3 DEF Range
<1>8. Ranks(1..n)
  <2>1. i \in DOMAIN input.fields
    BY FieldsAre
  <2>2. input.picks \in Seq(Nat) /\ (input.picks # <<>> => n <= Len(input.picks))
    BY <1>1, <2>1, InputsAssumption DEF InputsAreSound
  <2>3. QED
    BY <1>1, <2>2 DEF Ranks
<1>9. input.kind # "single" => n > 0
  <2>1. i \in DOMAIN input.fields
    BY FieldsAre
  <2>2. QED
    BY <1>1, <2>1, InputsAssumption DEF InputsAreSound
<1>10. n > 0 => a # <<>>
  BY <1>5
<1>11. QED
  BY <1>1, <1>2, <1>5, <1>6, <1>7, <1>8, <1>9, <1>10

-----------------------------------------------------------------------------
(* The inductive invariant *)

Active == pc \in {"calling", "reducing"}
OneField == input.kind \in {"windows", "shards"}

\* what the calls of the round offer, those made and those still to make
Round ==
  IF input.kind = "windows" THEN [w \in 1..input.windows |-> AllOf(Field1)]
  ELSE IF offered = AllOf(Field1) THEN Shards(offered, input.context)
  ELSE IF Cost(offered, input.context) <= input.budget THEN <<offered>>
  ELSE Shards(offered, 0)

AllMenus == [j \in DOMAIN input.fields |-> Menu(input.fields[j], AllOf(input.fields[j]))]

TypeInv ==
  /\ input \in Inputs
  /\ pc \in {"calling", "reducing", "done"} \cup Errors
  /\ heard \in Seq(Observations)
  /\ todo \in Seq(MenuLists)
  /\ pc = "calling" => todo # <<>>
  /\ pc = "reducing" => todo = <<>>

\* the one call of a single or packed plan
PackInv ==
  (Active /\ ~OneField) =>
    /\ pc = "calling" => heard = <<>> /\ Len(todo) = 1 /\ todo[1] = AllMenus
    /\ pc = "reducing" =>
         /\ Len(heard) = Len(input.fields)
         /\ \A j \in 1..Len(heard) :
              Range(heard[j].selected) \in Wishes(1, input.fields[j], AllOf(input.fields[j]))

\* a round's calls, of which so many are made
RoundInv ==
  (Active /\ OneField) =>
    /\ Len(heard) + Len(todo) = Len(Round)
    /\ \A t \in 1..Len(todo) : todo[t] = Single(Field1, Round[Len(heard) + t])
    /\ \A k \in 1..Len(heard) : Range(heard[k].selected) \in Wishes(k, Field1, Round[k])
    /\ input.kind = "windows" => offered = AllOf(Field1)

CallOf(k) == [offered |-> offered, menu |-> Round[k], wish |-> Range(heard[k].selected)]

\* the calls of the rounds before, and of the last of them
Before == {x \in calls : Len(x.offered) > Len(offered)}
LastOf(before) == {x \in before : \A y \in before : Len(x.offered) <= Len(y.offered)}

\* what the rounds have come to
ShardInv ==
  (Active /\ input.kind = "shards") =>
    /\ TooLong
    /\ offered \in Pile /\ offered # <<>> /\ Distinct(offered)
    /\ Range(offered) \subseteq Range(AllOf(Field1))
    /\ \A x \in calls : x.offered \in Pile
    /\ calls = Before \cup {CallOf(k) : k \in 1..Len(heard)}
    /\ Before # {} => Range(offered) = UNION {x.wish : x \in LastOf(Before)}
    /\ \A c \in Range(offered), x \in Before :
         \E y \in Before : y.offered = x.offered /\ c \in y.wish \cap Range(y.menu)
    /\ input.steady => Wanted(1, Field1, offered) = Wanted(1, Field1, AllOf(Field1))
    /\ Field1.card = "MANY" => offered = AllOf(Field1)

Inv ==
  /\ TypeInv /\ PackInv /\ RoundInv /\ ShardInv
  /\ SameAsOneCall /\ EveryRoundAgreed /\ RefusedForCause

\* the plan of a round of shards
LEMMA RoundIs ==
  ASSUME input \in Inputs, input.kind = "shards",
         offered \in Pile, offered # <<>>, Distinct(offered)
  PROVE  /\ Round \in Seq(Pile) /\ Len(Round) > 0
         /\ Divided(Round, Range(offered))
<1>1. input.context \in Nat
  BY InputsAssumption DEF InputsAreSound
<1>2. PICK ctx \in Nat : ctx = IF offered = AllOf(Field1) THEN input.context ELSE 0
  BY <1>1
<1>3. CASE Round = <<offered>>
  <2>1. PICK r : r = <<offered>>
    OBVIOUS
  <2>2. r \in Seq(Pile) /\ Len(r) = 1 /\ r[1] = offered
    BY <2>1
  <2>3. Divided(r, Range(offered))
    BY <2>2 DEF Divided
  <2>4. QED
    BY <1>3, <2>1, <2>2, <2>3
<1>4. CASE Round = Shards(offered, ctx)
  BY <1>4, ShardsAre
<1>5. Round = <<offered>> \/ Round = Shards(offered, ctx)
  BY <1>2 DEF Round
<1>6. QED
  BY <1>3, <1>4, <1>5

\* What a round puts into several calls does not fit into one.
LEMMA RoundIsTooLong ==
  ASSUME input \in Inputs, input.kind = "shards", offered \in Pile, TooLong, Len(Round) > 1
  PROVE  Cost(offered, input.context) > input.budget
<1>1. input.context \in Nat /\ input.budget \in Nat
  BY InputsAssumption DEF InputsAreSound
<1>2. Cost(offered, input.context) \in Nat
  BY <1>1, CostGrows
<1>3. CASE offered = AllOf(Field1)
  BY <1>3 DEF TooLong
<1>4. CASE offered # AllOf(Field1) /\ Cost(offered, input.context) <= input.budget
  <2>1. Round = <<offered>>
    BY <1>4 DEF Round
  <2>2. QED
    BY <2>1
<1>5. QED
  BY <1>1, <1>2, <1>3, <1>4

LEMMA MenuIs ==
  ASSUME input \in Inputs, NEW i \in 1..Len(input.fields), NEW ids \in Pile
  PROVE  /\ Menu(input.fields[i], ids) \in Menus
         /\ Menu(input.fields[i], ids).ids = ids
         /\ Menu(input.fields[i], ids).field = input.fields[i].name
<1>1. PICK f \in FieldSpecs : f = input.fields[i]
  BY FieldsAre
<1>2. f.name \in STRING \ {UnknownField} /\ f.card \in Cards
  BY DEF FieldSpecs
<1>3. ids \in Seq(Nat)
  BY DEF Pile
<1>4. PICK m : m = Menu(f, ids)
  OBVIOUS
<1>5. m \in Menus /\ m.ids = ids /\ m.field = f.name
  BY <1>2, <1>3, <1>4 DEF Menu, Menus
<1>6. QED
  BY <1>1, <1>4, <1>5

LEMMA SingleIs ==
  ASSUME input \in Inputs, NEW ids \in Pile
  PROVE  /\ Single(Field1, ids) \in MenuLists /\ Len(Single(Field1, ids)) = 1
         /\ Single(Field1, ids)[1].ids = ids
<1>1. 1 \in 1..Len(input.fields)
  BY FieldsAre
<1>2. PICK m \in Menus : m = Menu(Field1, ids) /\ m.ids = ids
  BY <1>1, MenuIs DEF Field1
<1>3. QED
  BY <1>2, OneMenuIs DEF Single

LEMMA AllMenusAre ==
  ASSUME input \in Inputs
  PROVE  /\ AllMenus \in MenuLists /\ Len(AllMenus) = Len(input.fields)
         /\ \A j \in 1..Len(input.fields) : AllMenus[j].ids = AllOf(input.fields[j])
<1>1. PICK n \in Nat : n = Len(input.fields) /\ n > 0 /\ DOMAIN input.fields = 1..n
  BY FieldsAre
<1>2. PICK ms : ms = AllMenus
  OBVIOUS
<1>3. ASSUME NEW j \in 1..n
      PROVE  /\ ms[j] \in Menus /\ ms[j].ids = AllOf(input.fields[j])
             /\ ms[j].field = input.fields[j].name
  <2>1. PICK a \in Pile : a = AllOf(input.fields[j])
    BY <1>1, AllOfIs
  <2>2. ms[j] = Menu(input.fields[j], a)
    BY <1>1, <1>2, <2>1 DEF AllMenus
  <2>3. QED
    BY <1>1, <2>1, <2>2, MenuIs
<1>4. ms = [j \in 1..n |-> ms[j]]
  BY <1>1, <1>2 DEF AllMenus
<1>5. ms \in [1..n -> Menus]
  BY <1>3, <1>4
<1>6. ms \in Seq(Menus) /\ Len(ms) = n /\ DOMAIN ms = 1..n
  BY <1>5, FunctionIsSeq
<1>7. \A i, j \in 1..n : ms[i].field = ms[j].field => i = j
  BY <1>1, <1>3, FieldsAre
<1>8. ms # <<>>
  BY <1>1, <1>6
<1>9. ms \in MenuLists
  BY <1>6, <1>7, <1>8 DEF MenuLists
<1>10. QED
  BY <1>1, <1>2, <1>3, <1>6, <1>9

\* the calls for these piles of candidates
CallsFor(piles) == [s \in DOMAIN piles |-> Single(Field1, piles[s])]

LEMMA CallsForAre ==
  ASSUME input \in Inputs, NEW piles \in Seq(Pile), Len(piles) > 0
  PROVE  /\ CallsFor(piles) \in Seq(MenuLists) /\ CallsFor(piles) # <<>>
         /\ Len(CallsFor(piles)) = Len(piles)
         /\ \A t \in 1..Len(piles) : CallsFor(piles)[t] = Single(Field1, piles[t])
<1>1. PICK n \in Nat : n = Len(piles) /\ n > 0 /\ DOMAIN piles = 1..n
  OBVIOUS
<1>2. PICK ts : ts = CallsFor(piles)
  OBVIOUS
<1>3. \A t \in 1..n : Single(Field1, piles[t]) \in MenuLists
  <2> SUFFICES ASSUME NEW t \in 1..n PROVE Single(Field1, piles[t]) \in MenuLists
    OBVIOUS
  <2>1. PICK p \in Pile : p = piles[t]
    BY <1>1
  <2>2. QED
    BY <2>1, SingleIs
<1>4. ts \in [1..n -> MenuLists] /\ \A t \in 1..n : ts[t] = Single(Field1, piles[t])
  BY <1>1, <1>2, <1>3 DEF CallsFor
<1>5. ts \in Seq(MenuLists) /\ Len(ts) = n
  BY <1>4, FunctionIsSeq
<1>6. ts # <<>>
  BY <1>1, <1>5
<1>7. QED
  BY <1>1, <1>2, <1>4, <1>5, <1>6

LEMMA WindowRound ==
  ASSUME input \in Inputs, input.kind = "windows"
  PROVE  /\ Round \in Seq(Pile) /\ Len(Round) = input.windows /\ Len(Round) > 0
         /\ \A w \in 1..Len(Round) : Round[w] = AllOf(Field1)
<1>1. PICK n \in Nat : n = input.windows /\ n > 0
  BY InputsAssumption DEF InputsAreSound
<1>2. PICK a \in Pile : a = AllOf(Field1)
  BY FieldsAre, AllOfIs DEF Field1
<1>3. PICK r : r = Round
  OBVIOUS
<1>4. r = [w \in 1..n |-> a]
  BY <1>1, <1>2, <1>3 DEF Round
<1>5. r \in [1..n -> Pile] /\ \A w \in 1..n : r[w] = a
  BY <1>4
<1>6. r \in Seq(Pile) /\ Len(r) = n
  BY <1>5, FunctionIsSeq
<1>7. QED
  BY <1>1, <1>2, <1>3, <1>5, <1>6

LEMMA FirstRound ==
  ASSUME input \in Inputs
  PROVE  /\ AllOf(Field1) \in Pile /\ Distinct(AllOf(Field1))
         /\ Ranks(Range(AllOf(Field1)))
         /\ OneField => AllOf(Field1) # <<>>
<1>1. 1 \in 1..Len(input.fields)
  BY FieldsAre
<1>2. PICK i \in 1..Len(input.fields) : i = 1
  BY <1>1
<1>3. Field1 = input.fields[i]
  BY <1>2 DEF Field1
<1>4. QED
  BY <1>3, AllOfIs DEF OneField

\* The first round is the plan's.
LEMMA InitHolds == Init => Inv
<1> SUFFICES ASSUME Init PROVE Inv
  OBVIOUS
<1>1. /\ input \in Inputs /\ pc = "calling" /\ offered = AllOf(Field1) /\ heard = <<>>
      /\ calls = {} /\ slipped = FALSE /\ result = <<>>
  BY DEF Init, Field1
<1>2. input.kind \in Kinds
  BY <1>1, InputsAssumption DEF InputsAreSound
<1>3. AllOf(Field1) \in Pile /\ Distinct(AllOf(Field1)) /\ (OneField => AllOf(Field1) # <<>>)
  BY <1>1, FirstRound
<1>4. input.kind \in {"single", "packed"} => todo = <<AllMenus>>
  BY DEF Init, AllMenus
<1>5. input.kind = "windows" => todo = CallsFor(Round)
  <2> SUFFICES ASSUME input.kind = "windows" PROVE todo = CallsFor(Round)
    OBVIOUS
  <2>1. todo = [w \in 1..input.windows |-> Single(Field1, AllOf(Field1))]
    BY DEF Init, Field1
  <2>2. Round = [w \in 1..input.windows |-> AllOf(Field1)]
    BY DEF Round
  <2>3. QED
    BY <2>1, <2>2 DEF CallsFor
<1>6. input.kind = "shards" => todo = CallsFor(Round)
  <2> SUFFICES ASSUME input.kind = "shards" PROVE todo = CallsFor(Round)
    OBVIOUS
  <2>1. Round = Shards(AllOf(Field1), input.context)
    BY <1>1 DEF Round
  <2>2. PICK shards : shards = Shards(AllOf(Field1), input.context)
    OBVIOUS
  <2>3. todo = [s \in DOMAIN shards |-> Single(Field1, shards[s])]
    BY <2>2 DEF Init, Field1
  <2>4. QED
    BY <2>1, <2>2, <2>3 DEF CallsFor
<1>7. OneField => Round \in Seq(Pile) /\ Len(Round) > 0
  <2>1. input.kind = "windows" => Round \in Seq(Pile) /\ Len(Round) > 0
    BY <1>1, WindowRound
  <2>2. input.kind = "shards" => Round \in Seq(Pile) /\ Len(Round) > 0
    BY <1>1, <1>3, RoundIs DEF OneField
  <2>3. QED
    BY <2>1, <2>2 DEF OneField
<1>8. OneField => /\ todo \in Seq(MenuLists) /\ todo # <<>> /\ Len(todo) = Len(Round)
                  /\ \A t \in 1..Len(Round) : todo[t] = Single(Field1, Round[t])
  <2> SUFFICES ASSUME OneField
               PROVE  /\ todo \in Seq(MenuLists) /\ todo # <<>> /\ Len(todo) = Len(Round)
                      /\ \A t \in 1..Len(Round) : todo[t] = Single(Field1, Round[t])
    OBVIOUS
  <2>1. PICK r \in Seq(Pile) : r = Round /\ Len(r) > 0
    BY <1>7
  <2>2. todo = CallsFor(r)
    BY <1>5, <1>6, <2>1 DEF OneField
  <2>3. QED
    BY <1>1, <2>1, <2>2, CallsForAre
<1>9. ~OneField => todo \in Seq(MenuLists) /\ todo # <<>> /\ Len(todo) = 1 /\ todo[1] = AllMenus
  <2> SUFFICES ASSUME ~OneField
               PROVE  todo \in Seq(MenuLists) /\ todo # <<>> /\ Len(todo) = 1 /\ todo[1] = AllMenus
    OBVIOUS
  <2>1. PICK ms \in MenuLists : ms = AllMenus
    BY <1>1, AllMenusAre
  <2>2. todo = <<ms>>
    BY <1>2, <1>4, <2>1 DEF OneField, Kinds
  <2>3. QED
    BY <2>1, <2>2
<1>10. TypeInv
  BY <1>1, <1>8, <1>9 DEF TypeInv
<1>11. PackInv
  BY <1>1, <1>9 DEF PackInv
<1>12. RoundInv
  <2> SUFFICES ASSUME OneField
               PROVE  /\ Len(heard) + Len(todo) = Len(Round)
                      /\ \A t \in 1..Len(todo) : todo[t] = Single(Field1, Round[Len(heard) + t])
                      /\ \A k \in 1..Len(heard) : Range(heard[k].selected) \in Wishes(k, Field1, Round[k])
    BY <1>1 DEF RoundInv
  <2>1. Len(heard) = 0 /\ Len(Round) \in Nat
    BY <1>1, <1>7
  <2>2. QED
    BY <1>8, <2>1
<1>13. ShardInv
  <2> SUFFICES ASSUME input.kind = "shards"
               PROVE  /\ TooLong
                      /\ offered \in Pile /\ offered # <<>> /\ Distinct(offered)
                      /\ calls = Before \cup {CallOf(k) : k \in 1..Len(heard)}
                      /\ Before = {}
    BY <1>1 DEF ShardInv
  <2>1. Before = {} /\ 1..Len(heard) = {}
    BY <1>1 DEF Before
  <2>2. TooLong
    BY DEF Init
  <2>3. QED
    BY <1>1, <1>3, <2>1, <2>2 DEF OneField
<1>14. SameAsOneCall /\ EveryRoundAgreed /\ RefusedForCause
  BY <1>1 DEF SameAsOneCall, EveryRoundAgreed, RefusedForCause
<1>15. QED
  BY <1>10, <1>11, <1>12, <1>13, <1>14 DEF Inv

-----------------------------------------------------------------------------
(* The steps *)

\* What the model would have does not change with the plan's progress.
LEMMA IdealStays ==
  ASSUME input' = input
  PROVE  \A i : Ideal(input.fields[i])' = Ideal(input.fields[i])
<1> SUFFICES ASSUME NEW i PROVE Ideal(input.fields[i])' = Ideal(input.fields[i])
  OBVIOUS
<1>1. input.fields[i]' = input.fields[i]
  OBVIOUS
<1>2. QED
  BY <1>1 DEF Ideal, Wanted, AllOf

\* Nor does what all of its candidates cost.
LEMMA TooLongStays ==
  ASSUME input' = input
  PROVE  TooLong' = TooLong
<1>1. ASSUME NEW cands PROVE Weight(cands)' = Weight(cands)
  BY DEF Weight
<1>2. Range(AllOf(Field1))' = Range(AllOf(Field1))
  BY DEF Field1, AllOf
<1>3. Cost(AllOf(Field1), input.context)' = Cost(AllOf(Field1), input.context)
  BY <1>1, <1>2 DEF Cost
<1>4. QED
  BY <1>3 DEF TooLong

\* Nor does what the wanted candidates of a plan of one field cost.
LEMMA NeedStays ==
  ASSUME input' = input
  PROVE  (Cost(Within(AllOf(Field1), input.wants[Field1.name]), input.context) > input.budget)'
           = (Cost(Within(AllOf(Field1), input.wants[Field1.name]), input.context) > input.budget)
<1>1. ASSUME NEW cands PROVE Weight(cands)' = Weight(cands)
  BY DEF Weight
<1>2. Range(Within(AllOf(Field1), input.wants[Field1.name]))'
        = Range(Within(AllOf(Field1), input.wants[Field1.name]))
  BY DEF Field1, AllOf, Within
<1>3. Cost(Within(AllOf(Field1), input.wants[Field1.name]), input.context)'
        = Cost(Within(AllOf(Field1), input.wants[Field1.name]), input.context)
  BY <1>1, <1>2 DEF Cost
<1>4. QED
  BY <1>3

LEMMA RefusedIs ==
  ASSUME TypeInv, NEW why \in Errors, Failed(why),
         why \in {"contract", "output_malformed"} => slipped',
         (why \in {"no_progress", "reducer_budget"} /\ input.steady) =>
           Cost(Within(AllOf(Field1), input.wants[Field1.name]), input.context) > input.budget
  PROVE  Inv'
<1>1. /\ input' = input /\ pc' = why /\ offered' = offered /\ todo' = todo
      /\ heard' = heard /\ calls' = calls /\ result' = result
  BY DEF Failed
<1>2. pc' \notin {"calling", "reducing", "done"}
  BY <1>1 DEF Errors
<1>3. TypeInv'
  BY <1>1, <1>2 DEF TypeInv
<1>4. PackInv' /\ RoundInv' /\ ShardInv'
  BY <1>2 DEF PackInv, RoundInv, ShardInv, Active
<1>5. SameAsOneCall' /\ EveryRoundAgreed'
  BY <1>2 DEF SameAsOneCall, EveryRoundAgreed
<1>6. RefusedForCause'
  <2>1. (pc \in {"contract", "output_malformed"} => slipped)'
    BY <1>1
  <2>2. ((pc \in {"no_progress", "reducer_budget"} /\ input.steady) =>
           Cost(Within(AllOf(Field1), input.wants[Field1.name]), input.context) > input.budget)'
    BY <1>1, NeedStays
  <2>3. QED
    BY <2>1, <2>2 DEF RefusedForCause
<1>7. QED
  BY <1>3, <1>4, <1>5, <1>6 DEF Inv

LEMMA DoneIs ==
  ASSUME TypeInv, NEW observations, Finished(observations),
         input.steady => \A i \in DOMAIN observations :
                           Range(observations[i].selected) = Ideal(input.fields[i]),
         (input.kind = "shards" /\ Field1.card # "MANY") =>
           \A c \in Range(observations[1].selected), x \in calls :
             \E y \in calls : y.offered = x.offered /\ c \in y.wish \cap Range(y.menu)
  PROVE  Inv'
<1>1. /\ input' = input /\ pc' = "done" /\ offered' = offered /\ todo' = todo
      /\ heard' = heard /\ calls' = calls /\ result' = observations
  BY DEF Finished
<1>2. TypeInv'
  BY <1>1 DEF TypeInv
<1>3. PackInv' /\ RoundInv' /\ ShardInv'
  BY <1>1 DEF PackInv, RoundInv, ShardInv, Active
<1>4. SameAsOneCall'
  <2>1. \A i : Ideal(input.fields[i])' = Ideal(input.fields[i])
    BY <1>1, IdealStays
  <2>2. QED
    BY <1>1, <2>1 DEF SameAsOneCall
<1>5. EveryRoundAgreed'
  BY <1>1 DEF EveryRoundAgreed, Field1
<1>6. RefusedForCause'
  BY <1>1 DEF RefusedForCause
<1>7. QED
  BY <1>2, <1>3, <1>4, <1>5, <1>6 DEF Inv

LEMMA StutterHolds ==
  ASSUME Inv, UNCHANGED vars
  PROVE  Inv'
<1>1. /\ input' = input /\ pc' = pc /\ offered' = offered /\ todo' = todo /\ heard' = heard
      /\ calls' = calls /\ slipped' = slipped /\ result' = result
  BY DEF vars
<1>2. Round' = Round
  BY <1>1 DEF Round, Shards, Placed, Joins, Estimate, Cost, Weight, Field1, AllOf
<1>3. TypeInv' /\ PackInv'
  BY <1>1 DEF Inv, TypeInv, PackInv, Active, OneField, AllMenus, Wishes, Wanted
<1>4. RoundInv'
  BY <1>1, <1>2 DEF Inv, RoundInv, Active, OneField, Wishes, Wanted, Field1
<1>5. ShardInv'
  <2>1. Before' = Before /\ (\A k : CallOf(k)' = CallOf(k)) /\ LastOf(Before)' = LastOf(Before)
    BY <1>1, <1>2 DEF Before, CallOf, LastOf
  <2>2. \A field : Wanted(1, field, offered)' = Wanted(1, field, offered)
    BY <1>1 DEF Wanted
  <2>3. Field1' = Field1 /\ AllOf(Field1)' = AllOf(Field1) /\ Wanted(1, Field1, AllOf(Field1))' = Wanted(1, Field1, AllOf(Field1)) /\ Wanted(1, Field1, offered)' = Wanted(1, Field1, offered)
    BY <1>1 DEF Wanted, Field1, AllOf
  <2>4. TooLong' = TooLong
    BY <1>1, TooLongStays
  <2>5. QED
    BY <1>1, <2>1, <2>3, <2>4 DEF Inv, ShardInv, Active
<1>6. SameAsOneCall' /\ EveryRoundAgreed'
  <2>1. \A i : Ideal(input.fields[i])' = Ideal(input.fields[i])
    BY <1>1, IdealStays
  <2>2. SameAsOneCall'
    BY <1>1, <2>1 DEF Inv, SameAsOneCall
  <2>3. EveryRoundAgreed'
    BY <1>1 DEF Inv, EveryRoundAgreed, Field1
  <2>4. QED
    BY <2>2, <2>3
<1>7. RefusedForCause'
  BY <1>1, NeedStays DEF Inv, RefusedForCause
<1>8. QED
  BY <1>3, <1>4, <1>5, <1>6, <1>7 DEF Inv

-----------------------------------------------------------------------------
(* The end of a round *)

\* the candidates call k selected
Chosen(k) == Range(heard[k].selected)

\* When a round is to be reduced, every call of it was made, and told what was
\* wished for of what it offered.
LEMMA RoundIsMade ==
  ASSUME Inv, pc = "reducing", OneField
  PROVE  /\ Len(Round) \in Nat /\ Len(heard) = Len(Round) /\ Len(heard) > 0
         /\ DOMAIN heard = 1..Len(heard)
         /\ Round \in Seq(Pile)
         /\ \A k \in 1..Len(heard) : /\ Chosen(k) \subseteq Range(Round[k])
                                     /\ input.steady => Chosen(k) = Wanted(k, Field1, Round[k])
                                     /\ Range(Round[k]) \subseteq Range(offered)
         /\ Selected = UNION {Chosen(k) : k \in 1..Len(heard)}
         /\ Selected \subseteq Range(offered)
         /\ Range(offered) \subseteq Range(AllOf(Field1))
         /\ offered \in Pile /\ Distinct(offered) /\ offered # <<>>
<1>1. input \in Inputs /\ heard \in Seq(Observations) /\ todo = <<>> /\ Active
  BY DEF Inv, TypeInv, Active
<1>2. offered \in Pile /\ Distinct(offered) /\ offered # <<>>
      /\ Range(offered) \subseteq Range(AllOf(Field1))
  <2>1. CASE input.kind = "windows"
    <3>1. offered = AllOf(Field1)
      BY <1>1, <2>1 DEF Inv, RoundInv
    <3>2. QED
      BY <1>1, <3>1, FirstRound
  <2>2. CASE input.kind = "shards"
    BY <1>1, <2>2 DEF Inv, ShardInv
  <2>3. QED
    BY <2>1, <2>2 DEF OneField
<1>3. PICK r : r = Round
  OBVIOUS
<1>4. /\ r \in Seq(Pile) /\ Len(r) > 0
      /\ \A k \in 1..Len(r) : Range(r[k]) \subseteq Range(offered)
  <2>1. CASE input.kind = "windows"
    <3>1. offered = AllOf(Field1)
      BY <1>1, <2>1 DEF Inv, RoundInv
    <3>2. QED
      BY <1>1, <1>3, <2>1, <3>1, WindowRound
  <2>2. CASE input.kind = "shards"
    <3>1. Round \in Seq(Pile) /\ Len(Round) > 0 /\ Divided(Round, Range(offered))
      BY <1>1, <1>2, <2>2, RoundIs
    <3>2. QED
      BY <1>3, <3>1 DEF Divided
  <2>3. QED
    BY <2>1, <2>2 DEF OneField
<1>5. PICK n \in Nat : n = Len(heard) /\ DOMAIN heard = 1..n
  BY <1>1
<1>6. n = Len(r)
  <2>1. Len(heard) + Len(todo) = Len(Round)
    BY <1>1 DEF Inv, RoundInv
  <2>2. QED
    BY <1>1, <1>3, <1>5, <2>1
<1>7. \A k \in 1..n : Chosen(k) \in Wishes(k, Field1, r[k])
  BY <1>1, <1>3, <1>5 DEF Inv, RoundInv, Chosen
<1>8. \A k \in 1..n : /\ Chosen(k) \subseteq Range(r[k])
                      /\ input.steady => Chosen(k) = Wanted(k, Field1, r[k])
  <2> SUFFICES ASSUME NEW k \in 1..n
               PROVE  /\ Chosen(k) \subseteq Range(r[k])
                      /\ input.steady => Chosen(k) = Wanted(k, Field1, r[k])
    OBVIOUS
  <2>1. PICK p : p = r[k]
    OBVIOUS
  <2>2. PICK wish : wish = Chosen(k)
    OBVIOUS
  <2>3. wish \in Wishes(k, Field1, p)
    BY <1>7, <2>1, <2>2
  <2>4. wish \subseteq Range(p) /\ (input.steady => wish = Wanted(k, Field1, p))
    BY <1>1, <2>3, WishesAre
  <2>5. QED
    BY <2>1, <2>2, <2>4
<1>9. Selected = UNION {Chosen(k) : k \in 1..n}
  <2>1. Range(heard) = {heard[k] : k \in 1..n}
    BY <1>5 DEF Range
  <2>2. QED
    BY <2>1 DEF Selected, Chosen
<1>10. Selected \subseteq Range(offered)
  BY <1>4, <1>6, <1>8, <1>9
<1>11. QED
  BY <1>2, <1>3, <1>4, <1>5, <1>6, <1>8, <1>9, <1>10

LEMMA InSourceOrder ==
  ASSUME offered \in Pile, Selected \subseteq Range(offered)
  PROVE  /\ SelectedInSourceOrder \in Pile
         /\ Range(SelectedInSourceOrder) = Selected
         /\ Distinct(offered) => Distinct(SelectedInSourceOrder)
         /\ Len(SelectedInSourceOrder) < Len(offered) <=> ~(Range(offered) \subseteq Selected)
<1>1. PICK cands : cands = Selected
  OBVIOUS
<1>2. PICK s \in Pile : s = offered
  OBVIOUS
<1>3. SelectedInSourceOrder = Within(s, cands)
  BY <1>1, <1>2 DEF SelectedInSourceOrder
<1>4. Range(s) \cap cands = cands
  BY <1>1, <1>2
<1>5. QED
  BY <1>1, <1>2, <1>3, <1>4, WithinIs

\* What the model wants of all of a round's shards together.
LEMMA WantedOfRound ==
  ASSUME Inv, pc = "reducing", input.kind = "shards", input.steady
  PROVE  /\ Ranks(Range(offered))
         /\ Wanted(1, Field1, AllOf(Field1)) = Best(LikedIn(1, Field1), Field1.card, Range(offered))
         /\ Selected = UNION {Best(LikedIn(1, Field1), Field1.card, p) :
                                p \in {Range(Round[k]) : k \in 1..Len(Round)}}
         /\ Range(offered) = UNION {Range(Round[k]) : k \in 1..Len(Round)}
         /\ Best(LikedIn(1, Field1), Field1.card, Selected)
              = Best(LikedIn(1, Field1), Field1.card, Range(offered))
<1>0. OneField /\ Active /\ input \in Inputs
  BY DEF OneField, Active, Inv, TypeInv
<1>1. PICK n \in Nat : n = Len(Round) /\ n = Len(heard)
  BY <1>0, RoundIsMade
<1>2. PICK W, card : W = LikedIn(1, Field1) /\ card = Field1.card
  OBVIOUS
<1>3. offered \in Pile /\ Distinct(offered) /\ offered # <<>>
      /\ Range(offered) \subseteq Range(AllOf(Field1))
      /\ Selected = UNION {Chosen(k) : k \in 1..n}
      /\ \A k \in 1..n : Chosen(k) = Wanted(k, Field1, Round[k])
  BY <1>0, <1>1, RoundIsMade
<1>4. Ranks(Range(offered))
  BY <1>0, <1>3, FirstRound DEF Ranks
<1>5. Wanted(1, Field1, offered) = Wanted(1, Field1, AllOf(Field1))
  BY <1>0 DEF Inv, ShardInv
<1>6. Wanted(1, Field1, offered) = Best(W, card, Range(offered))
  BY <1>2, WantedIs
<1>7. \A k \in 1..n : Chosen(k) = Best(W, card, Range(Round[k]))
  <2> SUFFICES ASSUME NEW k \in 1..n PROVE Chosen(k) = Best(W, card, Range(Round[k]))
    OBVIOUS
  <2>1. LikedIn(k, Field1) = W
    BY <1>2 DEF LikedIn
  <2>2. QED
    BY <1>2, <1>3, <2>1, WantedIs
<1>8. PICK Parts : Parts = {Range(Round[k]) : k \in 1..n}
  OBVIOUS
<1>9. Range(offered) = UNION Parts
  <2>1. Divided(Round, Range(offered))
    BY <1>0, <1>3, RoundIs
  <2>2. QED
    BY <1>1, <1>8, <2>1 DEF Divided
<1>10. Selected = UNION {Best(W, card, p) : p \in Parts}
  BY <1>3, <1>7, <1>8
<1>11. Best(W, card, Selected) = Best(W, card, UNION Parts)
  BY <1>0, <1>4, <1>9, <1>10, BestOfBests
<1>12. QED
  BY <1>1, <1>2, <1>4, <1>5, <1>6, <1>8, <1>9, <1>10, <1>11

LEMMA WinningIs ==
  ASSUME Inv, pc = "reducing", OneField
  PROVE  /\ Len(Winning) \in Nat /\ DOMAIN Winning = 1..Len(Winning)
         /\ Len(Winning) > 1 => Len(heard) > 1
         /\ Len(Winning) > 0 => Selected # {}
         /\ Len(Winning) = 1 => \E k \in 1..Len(heard) : Winning[1] = heard[k] /\ Selected = Chosen(k)
<1>1. PICK n \in Nat : n = Len(heard) /\ n > 0 /\ DOMAIN heard = 1..n
  BY RoundIsMade
<1>2. heard \in Seq(Observations) /\ Selected = UNION {Chosen(k) : k \in 1..n}
  BY <1>1, RoundIsMade DEF Inv, TypeInv
<1>3. PICK at : at = {i \in DOMAIN heard : heard[i].selected # <<>>}
  OBVIOUS
<1>4. at \in SUBSET DOMAIN heard /\ at \in SUBSET (1..n)
  BY <1>1, <1>3
<1>5. PICK c : c = Cardinality(at)
  OBVIOUS
<1>6. PICK w : w = Winning
  OBVIOUS
<1>7. w = Picked(heard, at)
  BY <1>3, <1>6 DEF Winning
<1>8. w \in Seq(Observations) /\ Len(w) = c /\ c \in Nat /\ IsFiniteSet(at)
      /\ Range(w) = {heard[i] : i \in at}
  BY <1>2, <1>4, <1>5, <1>7, PickedIs
<1>9. \A k \in 1..n : Chosen(k) # {} <=> k \in at
  <2> SUFFICES ASSUME NEW k \in 1..n PROVE Chosen(k) # {} <=> heard[k].selected # <<>>
    BY <1>1, <1>3
  <2>1. PICK o \in Observations : o = heard[k]
    BY <1>1, <1>2
  <2>2. PICK s \in Seq(Nat) : s = o.selected
    BY DEF Observations
  <2>3. Range(s) # {} <=> s # <<>>
    <3>1. PICK m \in Nat : m = Len(s) /\ DOMAIN s = 1..m /\ (m = 0 <=> s = <<>>)
      OBVIOUS
    <3>2. m > 0 => s[1] \in Range(s)
      BY <3>1 DEF Range
    <3>3. m = 0 => Range(s) = {}
      BY <3>1 DEF Range
    <3>4. QED
      BY <3>1, <3>2, <3>3
  <2>4. QED
    BY <2>1, <2>2, <2>3 DEF Chosen
<1>10. c > 1 => n > 1
  <2>1. IsFiniteSet(1..n) /\ Cardinality(1..n) = IF 1 > n THEN 0 ELSE n - 1 + 1
    <3>1. 1 \in Int /\ n \in Int
      OBVIOUS
    <3>2. QED
      BY <3>1, FS_Interval, Zenon
  <2>2. Cardinality(1..n) = n
    BY <1>1, <2>1
  <2>3. c <= n
    BY <1>4, <1>5, <2>1, <2>2, FS_Subset
  <2>4. QED
    BY <1>8, <2>3
<1>11. c > 0 => Selected # {}
  <2> SUFFICES ASSUME c > 0 PROVE Selected # {}
    OBVIOUS
  <2>1. at # {}
    BY <1>5, FS_EmptySet
  <2>2. PICK k \in at : TRUE
    BY <2>1
  <2>3. Chosen(k) # {}
    BY <1>4, <1>9, <2>2
  <2>4. QED
    BY <1>2, <1>4, <2>2, <2>3
<1>12. c = 1 => \E k \in 1..n : w[1] = heard[k] /\ Selected = Chosen(k)
  <2> SUFFICES ASSUME c = 1 PROVE \E k \in 1..n : w[1] = heard[k] /\ Selected = Chosen(k)
    OBVIOUS
  <2>1. PICK k : at = {k}
    BY <1>5, <1>8, FS_Singleton
  <2>2. k \in 1..n
    BY <1>4, <2>1
  <2>3. w[1] \in Range(w)
    BY <1>8 DEF Range
  <2>4. w[1] = heard[k]
    BY <1>8, <2>1, <2>3
  <2>5. \A l \in 1..n : l # k => Chosen(l) = {}
    BY <1>9, <2>1
  <2>6. Selected = Chosen(k)
    BY <1>2, <2>2, <2>5
  <2>7. QED
    BY <2>2, <2>4, <2>6
<1>13. QED
  BY <1>1, <1>6, <1>8, <1>10, <1>11, <1>12

\* Each winner of a round was wanted in every round up to it.
LEMMA WinnersAgreed ==
  ASSUME Inv, pc = "reducing", input.kind = "shards"
  PROVE  /\ calls = Before \cup {CallOf(k) : k \in 1..Len(heard)}
         /\ \A c \in Selected, x \in calls :
              \E y \in calls : y.offered = x.offered /\ c \in y.wish \cap Range(y.menu)
<1>1. Active /\ OneField
  BY DEF Active, OneField
<1>2. /\ calls = Before \cup {CallOf(k) : k \in 1..Len(heard)}
      /\ \A c \in Range(offered), x \in Before :
           \E y \in Before : y.offered = x.offered /\ c \in y.wish \cap Range(y.menu)
  BY <1>1 DEF Inv, ShardInv
<1>3. /\ Selected = UNION {Chosen(k) : k \in 1..Len(heard)} /\ Selected \subseteq Range(offered)
      /\ \A k \in 1..Len(heard) : Chosen(k) \subseteq Range(Round[k])
  BY <1>1, RoundIsMade
<1>4. ASSUME NEW c \in Selected, NEW x \in calls
      PROVE  \E y \in calls : y.offered = x.offered /\ c \in y.wish \cap Range(y.menu)
  <2>1. CASE x \in Before
    BY <1>2, <1>3, <2>1
  <2>2. CASE \E l \in 1..Len(heard) : x = CallOf(l)
    <3>1. PICK k \in 1..Len(heard) : c \in Chosen(k)
      BY <1>3
    <3>2. PICK y : y = CallOf(k)
      OBVIOUS
    <3>3. y \in calls
      BY <1>2, <3>2
    <3>4. y.offered = offered /\ y.wish = Chosen(k) /\ y.menu = Round[k]
      BY <3>2 DEF CallOf, Chosen
    <3>5. x.offered = offered
      BY <2>2 DEF CallOf
    <3>6. QED
      BY <1>3, <3>1, <3>3, <3>4, <3>5
  <2>3. QED
    BY <1>2, <2>1, <2>2
<1>5. QED
  BY <1>2, <1>4

LEMMA KeepPackedHolds ==
  ASSUME Inv, KeepPacked
  PROVE  Inv'
<1>1. pc = "reducing" /\ input.kind \in {"single", "packed"} /\ Finished(heard)
  BY DEF KeepPacked
<1>2. Active /\ ~OneField /\ input \in Inputs /\ heard \in Seq(Observations) /\ TypeInv
  BY <1>1 DEF Active, OneField, Inv, TypeInv
<1>3. PICK n \in Nat : n = Len(heard) /\ n = Len(input.fields) /\ DOMAIN heard = 1..n
  BY <1>1, <1>2 DEF Inv, PackInv
<1>4. ASSUME input.steady, NEW i \in DOMAIN heard
      PROVE  Range(heard[i].selected) = Ideal(input.fields[i])
  <2>1. Range(heard[i].selected) \in Wishes(1, input.fields[i], AllOf(input.fields[i]))
    BY <1>1, <1>2, <1>3, <1>4 DEF Inv, PackInv
  <2>2. Range(heard[i].selected) = Wanted(1, input.fields[i], AllOf(input.fields[i]))
    BY <1>2, <1>4, <2>1, WishesAre
  <2>3. QED
    BY <1>1, <2>2 DEF Ideal
<1>5. QED
  BY <1>1, <1>2, <1>4, DoneIs

\* one observation of the one field
LEMMA OneDone ==
  ASSUME Inv, NEW o, Finished(<<o>>),
         input.steady => Range(o.selected) = Ideal(Field1),
         (input.kind = "shards" /\ Field1.card # "MANY") =>
           \A c \in Range(o.selected), x \in calls :
             \E y \in calls : y.offered = x.offered /\ c \in y.wish \cap Range(y.menu)
  PROVE  Inv'
<1>1. PICK obs : obs = <<o>>
  OBVIOUS
<1>2. DOMAIN obs = {1} /\ obs[1] = o
  BY <1>1
<1>3. input.steady => \A i \in DOMAIN obs : Range(obs[i].selected) = Ideal(input.fields[i])
  BY <1>2 DEF Field1
<1>4. QED
  BY <1>1, <1>2, <1>3, DoneIs DEF Inv

\* What all windows together want.
LEMMA WantedOfWindows ==
  ASSUME Inv, pc = "reducing", input.kind = "windows", input.steady
  PROVE  Selected = UNION {Wanted(w, Field1, AllOf(Field1)) : w \in 1..input.windows}
<1>1. OneField /\ input \in Inputs
  BY DEF OneField, Inv, TypeInv
<1>2. PICK n \in Nat : n = Len(Round) /\ n = Len(heard)
  BY <1>1, RoundIsMade
<1>3. n = input.windows /\ \A w \in 1..n : Round[w] = AllOf(Field1)
  BY <1>1, <1>2, WindowRound
<1>4. Selected = UNION {Chosen(k) : k \in 1..n} /\ \A k \in 1..n : Chosen(k) = Wanted(k, Field1, Round[k])
  BY <1>1, <1>2, RoundIsMade
<1>5. \A k \in 1..n : Chosen(k) = Wanted(k, Field1, AllOf(Field1))
  BY <1>3, <1>4
<1>6. QED
  BY <1>3, <1>4, <1>5

LEMMA WrongStrategyHolds ==
  ASSUME Inv, WrongStrategy
  PROVE  Inv'
<1>1. Failed("cardinality_mismatch") /\ "cardinality_mismatch" \in Errors
  BY DEF WrongStrategy, Refused, Errors
<1>2. QED
  BY <1>1, RefusedIs DEF Inv

LEMMA UnionWindowsHolds ==
  ASSUME Inv, UnionWindows
  PROVE  Inv'
<1>1. /\ pc = "reducing" /\ input.kind = "windows" /\ input.strategy = "union" /\ OneField
      /\ Finished(<<Reduced("SELECTED", SelectedInSourceOrder)>>)
  BY DEF UnionWindows, OneField
<1>2. PICK o : o = Reduced("SELECTED", SelectedInSourceOrder)
  OBVIOUS
<1>3. offered \in Pile /\ Selected \subseteq Range(offered)
  BY <1>1, RoundIsMade
<1>4. o.selected = SelectedInSourceOrder /\ Range(o.selected) = Selected
  BY <1>2, <1>3, InSourceOrder DEF Reduced
<1>5. input.steady => Range(o.selected) = Ideal(Field1)
  BY <1>1, <1>4, WantedOfWindows DEF Ideal
<1>6. QED
  BY <1>1, <1>2, <1>5, OneDone

LEMMA PriorityWindowsHolds ==
  ASSUME Inv, PriorityWindows
  PROVE  Inv'
<1>1. pc = "reducing" /\ input.kind = "windows" /\ input.strategy = "priority" /\ input \in Inputs
  BY DEF PriorityWindows, Inv, TypeInv
<1>2. CASE Selected = {}
  <2>1. Finished(<<Reduced("ABSTAINED", <<>>)>>)
    BY <1>2 DEF PriorityWindows
  <2>2. PICK o : o = Reduced("ABSTAINED", <<>>)
    OBVIOUS
  <2>3. Range(o.selected) = {}
    BY <2>2 DEF Reduced, Range
  <2>4. input.steady => Ideal(Field1) = {}
    BY <1>1, <1>2, WantedOfWindows DEF Ideal
  <2>5. QED
    BY <1>1, <2>1, <2>2, <2>3, <2>4, OneDone
<1>3. CASE Selected # {} /\ Ranked = <<>>
  <2>1. Failed("no_ranked_selection") /\ "no_ranked_selection" \in Errors
    BY <1>3 DEF PriorityWindows, Refused, Errors
  <2>2. QED
    BY <2>1, RefusedIs DEF Inv
<1>4. CASE Selected # {} /\ Ranked # <<>>
  <2>1. Finished(<<Reduced("SELECTED", <<Ranked[1]>>)>>)
    BY <1>4 DEF PriorityWindows
  <2>2. PICK o : o = Reduced("SELECTED", <<Ranked[1]>>)
    OBVIOUS
  <2>3. Range(o.selected) = {Ranked[1]}
    BY <2>2 DEF Reduced, Range
  <2>4. PICK at : at = {i \in DOMAIN input.priority : input.priority[i] \in Selected}
    OBVIOUS
  <2>5. PICK p \in Seq(Nat) : p = input.priority
    BY <1>1, InputsAssumption DEF InputsAreSound
  <2>6. at \in SUBSET DOMAIN p /\ Ranked = Picked(p, at)
    BY <2>4, <2>5 DEF Ranked, Within
  <2>7. PICK S : S = Nat
    OBVIOUS
  <2>8. p \in Seq(S)
    BY <2>7
  <2>9. at # {}
    <3>1. PICK w \in Seq(S) : w = Ranked /\ Len(w) = Cardinality(at)
      BY <2>6, <2>8, PickedIs
    <3>2. ASSUME at = {} PROVE FALSE
      <4>1. Cardinality(at) = 0
        BY <3>2, FS_EmptySet
      <4>2. w = <<>>
        BY <3>1, <4>1
      <4>3. QED
        BY <1>4, <3>1, <4>2
    <3>3. QED
      BY <3>2
  <2>10. Ranked[1] = p[Min(at)]
    BY <2>6, <2>8, <2>9, PickedFirst
  <2>11. input.steady => Ideal(Field1) = {input.priority[Min(at)]}
    <3> SUFFICES ASSUME input.steady PROVE Ideal(Field1) = {input.priority[Min(at)]}
      OBVIOUS
    <3>1. PICK chosen : chosen = UNION {Wanted(w, Field1, AllOf(Field1)) : w \in 1..input.windows}
      OBVIOUS
    <3>2. chosen = Selected
      BY <1>1, <3>1, WantedOfWindows
    <3>3. Ideal(Field1) = IF input.strategy = "union" \/ chosen = {} THEN chosen
                          ELSE {input.priority[Min({i \in DOMAIN input.priority : input.priority[i] \in chosen})]}
      BY <1>1, <3>1 DEF Ideal
    <3>4. QED
      BY <1>1, <1>4, <2>4, <3>2, <3>3
  <2>12. QED
    BY <1>1, <2>1, <2>2, <2>3, <2>5, <2>10, <2>11, OneDone
<1>5. QED
  BY <1>2, <1>3, <1>4

\* What a round of shards has selected is what the model would have, if it can
\* be no better.
LEMMA IdealOfRound ==
  ASSUME Inv, pc = "reducing", input.kind = "shards", input.steady
  PROVE  Ideal(Field1) = Best(LikedIn(1, Field1), Field1.card, Selected)
<1>1. Ideal(Field1) = Wanted(1, Field1, AllOf(Field1))
  BY DEF Ideal
<1>2. QED
  BY <1>1, WantedOfRound

LEMMA AllAbstainedHolds ==
  ASSUME Inv, AllAbstained
  PROVE  Inv'
<1>1. /\ pc = "reducing" /\ input.kind = "shards" /\ Selected = {}
      /\ Finished(<<Reduced("ABSTAINED", <<>>)>>)
  BY DEF AllAbstained, Reducing
<1>2. PICK o : o = Reduced("ABSTAINED", <<>>)
  OBVIOUS
<1>3. Range(o.selected) = {}
  BY <1>2 DEF Reduced, Range
<1>4. input.steady => Ideal(Field1) = {}
  BY <1>1, IdealOfRound DEF Best
<1>5. QED
  BY <1>1, <1>2, <1>3, <1>4, OneDone

LEMMA UnionShardsHolds ==
  ASSUME Inv, UnionShards
  PROVE  Inv'
<1>1. /\ pc = "reducing" /\ input.kind = "shards" /\ Field1.card = "MANY" /\ OneField
      /\ Finished(<<Reduced("SELECTED", SelectedInSourceOrder)>>)
  BY DEF UnionShards, Reducing, OneField
<1>2. PICK o : o = Reduced("SELECTED", SelectedInSourceOrder)
  OBVIOUS
<1>3. offered \in Pile /\ Selected \subseteq Range(offered)
  BY <1>1, RoundIsMade
<1>4. Range(o.selected) = Selected
  BY <1>2, <1>3, InSourceOrder DEF Reduced
<1>5. input.steady => Ideal(Field1) = Selected
  <2> SUFFICES ASSUME input.steady PROVE Ideal(Field1) = Selected
    OBVIOUS
  <2>1. PICK W, card : W = LikedIn(1, Field1) /\ card = Field1.card
    OBVIOUS
  <2>2. PICK Parts : Parts = {Range(Round[k]) : k \in 1..Len(Round)}
    OBVIOUS
  <2>3. Selected = UNION {Best(W, card, p) : p \in Parts}
    BY <1>1, <2>1, <2>2, WantedOfRound
  <2>4. Selected \subseteq W
    BY <2>3 DEF Best
  <2>5. Best(W, card, Selected) = Selected
    BY <1>1, <2>1, <2>4 DEF Best, Greedy
  <2>6. QED
    BY <1>1, <2>1, <2>5, IdealOfRound
<1>6. QED
  BY <1>1, <1>2, <1>4, <1>5, OneDone

LEMMA SoleWinnerHolds ==
  ASSUME Inv, SoleWinner
  PROVE  Inv'
<1>1. /\ pc = "reducing" /\ input.kind = "shards" /\ OneField /\ Len(Winning) = 1
      /\ Finished(Winning) /\ input \in Inputs
  BY DEF SoleWinner, Reducing, OneField, Inv, TypeInv
<1>2. PICK o : o = Winning[1]
  OBVIOUS
<1>3. PICK k \in 1..Len(heard) : o = heard[k] /\ Selected = Chosen(k)
  BY <1>1, <1>2, WinningIs
<1>4. Range(o.selected) = Selected
  BY <1>3 DEF Chosen
<1>5. input.steady => Ideal(Field1) = Selected
  <2> SUFFICES ASSUME input.steady PROVE Ideal(Field1) = Selected
    OBVIOUS
  <2>1. PICK W, card : W = LikedIn(1, Field1) /\ card = Field1.card
    OBVIOUS
  <2>2. PICK C : C = Range(Round[k])
    OBVIOUS
  <2>3. Chosen(k) = Best(W, card, C)
    <3>1. Chosen(k) = Wanted(k, Field1, Round[k])
      BY <1>1, RoundIsMade
    <3>2. LikedIn(k, Field1) = W
      BY <1>1, <2>1 DEF LikedIn
    <3>3. QED
      BY <2>1, <2>2, <3>1, <3>2, WantedIs
  <2>4. Ranks(C)
    <3>1. Ranks(Range(offered)) /\ C \subseteq Range(offered)
      BY <1>1, <2>2, RoundIsMade, WantedOfRound
    <3>2. QED
      BY <3>1 DEF Ranks
  <2>5. Best(W, card, Best(W, card, C)) = Best(W, card, C)
    <3>1. PICK Parts : Parts = {C}
      OBVIOUS
    <3>2. UNION Parts = C /\ UNION {Best(W, card, p) : p \in Parts} = Best(W, card, C)
      BY <3>1
    <3>3. Best(W, card, UNION {Best(W, card, p) : p \in Parts}) = Best(W, card, UNION Parts)
      BY <1>1, <2>4, <3>2, BestOfBests
    <3>4. QED
      BY <3>2, <3>3
  <2>6. QED
    BY <1>1, <1>3, <2>1, <2>3, <2>5, IdealOfRound
<1>6. \A c \in Range(o.selected), x \in calls :
        \E y \in calls : y.offered = x.offered /\ c \in y.wish \cap Range(y.menu)
  BY <1>1, <1>4, WinnersAgreed
<1>7. DOMAIN Winning = {1}
  BY <1>1, WinningIs
<1>8. input.steady => \A i \in DOMAIN Winning : Range(Winning[i].selected) = Ideal(input.fields[i])
  BY <1>2, <1>4, <1>5, <1>7 DEF Field1
<1>9. QED
  BY <1>1, <1>2, <1>6, <1>8, DoneIs DEF Inv

LEMMA ShardsOfNext ==
  ASSUME NEW next, offered' = next, input' = input
  PROVE  Shards(offered, 0)' = Shards(next, 0)
  BY DEF Shards, Placed, Joins, Estimate, Cost, Weight

\* The winners of a round are the candidates of the next, which are fewer.
LEMMA NextRoundHolds ==
  ASSUME Inv, Contested, NEW next, next = SelectedInSourceOrder, ~(Range(offered) \subseteq Selected),
         NEW shards \in Seq(Pile), Len(shards) > 0, NextRound(shards),
         shards = IF Cost(next, input.context) <= input.budget THEN <<next>> ELSE Shards(next, 0)
  PROVE  Inv'
<1>1. /\ pc = "reducing" /\ input.kind = "shards" /\ Field1.card # "MANY" /\ Len(Winning) > 1
      /\ OneField /\ Active /\ input \in Inputs
  BY DEF Contested, Reducing, OneField, Active, Inv, TypeInv
<1>2. /\ offered' = next /\ todo' = CallsFor(shards) /\ heard' = <<>> /\ pc' = "calling"
      /\ input' = input /\ calls' = calls /\ slipped' = slipped /\ result' = result
  BY DEF NextRound, CallsFor
<1>3. /\ offered \in Pile /\ Distinct(offered) /\ Selected \subseteq Range(offered)
      /\ Range(offered) \subseteq Range(AllOf(Field1))
      /\ Selected = UNION {Chosen(k) : k \in 1..Len(heard)}
      /\ Len(heard) > 0 /\ Len(heard) \in Nat
  BY <1>1, RoundIsMade
<1>4. next \in Pile /\ Range(next) = Selected /\ Distinct(next) /\ Len(next) < Len(offered)
  BY <1>3, InSourceOrder
<1>5. Selected # {}
  BY <1>1, WinningIs
<1>6. next # <<>>
  <2>1. Range(<<>>) = {}
    BY DEF Range
  <2>2. QED
    BY <1>4, <1>5, <2>1
<1>7. next # AllOf(Field1)
  BY <1>3, <1>4
<1>8. Field1' = Field1 /\ AllOf(Field1)' = AllOf(Field1) /\ OneField' = OneField
  BY <1>2 DEF Field1, AllOf, OneField
<1>9. Round' = shards
  <2>1. Cost(offered, input.context)' = Cost(next, input.context)
    BY <1>2 DEF Cost, Weight
  <2>2. Shards(offered, 0)' = Shards(next, 0)
    BY <1>2, ShardsOfNext
  <2>3. (offered = AllOf(Field1))' = FALSE
    BY <1>2, <1>7, <1>8
  <2>4. Round' = IF Cost(next, input.context) <= input.budget THEN <<next>> ELSE Shards(next, 0)
    BY <1>1, <1>2, <2>1, <2>2, <2>3 DEF Round
  <2>5. QED
    BY <2>4
<1>10. /\ CallsFor(shards) \in Seq(MenuLists) /\ CallsFor(shards) # <<>>
       /\ Len(CallsFor(shards)) = Len(shards)
       /\ \A t \in 1..Len(shards) : CallsFor(shards)[t] = Single(Field1, shards[t])
  BY <1>1, CallsForAre
<1>11. TypeInv'
  BY <1>1, <1>2, <1>10 DEF TypeInv
<1>12. PackInv'
  BY <1>1, <1>8 DEF PackInv
<1>13. RoundInv'
  <2>1. Len(heard') = 0 /\ 1..Len(heard') = {} /\ Len(shards) \in Nat
    BY <1>2
  <2>2. (Len(heard) + Len(todo) = Len(Round))'
    BY <1>2, <1>9, <1>10, <2>1
  <2>3. (\A t \in 1..Len(todo) : todo[t] = Single(Field1, Round[Len(heard) + t]))'
    <3> SUFFICES ASSUME NEW t \in 1..Len(shards)
                 PROVE  todo'[t] = Single(Field1, shards[Len(heard') + t])
      BY <1>2, <1>8, <1>9, <1>10 DEF Single, Menu
    <3>1. Len(heard') + t = t
      BY <2>1
    <3>2. QED
      BY <1>2, <1>10, <3>1
  <2>4. (\A k \in 1..Len(heard) : Range(heard[k].selected) \in Wishes(k, Field1, Round[k]))'
    BY <2>1
  <2>5. QED
    BY <1>1, <1>2, <2>2, <2>3, <2>4 DEF RoundInv
<1>14. ShardInv'
  <2>0. calls = Before \cup {CallOf(k) : k \in 1..Len(heard)}
        /\ (\A x \in calls : x.offered \in Pile)
        /\ (input.steady => Wanted(1, Field1, offered) = Wanted(1, Field1, AllOf(Field1)))
    BY <1>1 DEF Inv, ShardInv
  <2>1. \A x \in calls : Len(x.offered) >= Len(offered) /\ Len(x.offered) \in Nat
    <3>1. \A x \in Before : Len(x.offered) > Len(offered)
      BY DEF Before
    <3>2. \A k \in 1..Len(heard) : CallOf(k).offered = offered
      BY DEF CallOf
    <3>3. Len(offered) \in Nat /\ \A x \in calls : Len(x.offered) \in Nat
      BY <1>3, <2>0 DEF Pile
    <3>4. QED
      BY <2>0, <3>1, <3>2, <3>3
  <2>2. Before' = calls
    <3>1. Len(next) \in Nat /\ Len(offered) \in Nat
      BY <1>3, <1>4 DEF Pile
    <3>2. \A x \in calls : Len(x.offered) > Len(next)
      BY <1>4, <2>1, <3>1
    <3>3. Before' = {x \in calls : Len(x.offered) > Len(next)}
      BY <1>2 DEF Before
    <3>4. QED
      BY <3>2, <3>3
  <2>3. LastOf(calls) = {CallOf(k) : k \in 1..Len(heard)}
    <3>1. CallOf(1) \in calls /\ CallOf(1).offered = offered
      <4>1. 1 \in 1..Len(heard)
        BY <1>3
      <4>2. QED
        BY <2>0, <4>1 DEF CallOf
    <3>2. \A x \in Before : x \notin LastOf(calls)
      <4>1. \A x \in Before : Len(x.offered) > Len(CallOf(1).offered) /\ x \in calls
        BY <3>1 DEF Before
      <4>2. \A x \in LastOf(calls) : Len(x.offered) <= Len(CallOf(1).offered)
        BY <3>1 DEF LastOf
      <4>3. \A x \in calls : Len(x.offered) \in Nat
        BY <2>1
      <4>4. QED
        BY <3>1, <4>1, <4>2, <4>3
    <3>3. \A k \in 1..Len(heard) : CallOf(k) \in LastOf(calls)
      <4>1. \A k \in 1..Len(heard) : CallOf(k).offered = offered /\ CallOf(k) \in calls
        BY <2>0 DEF CallOf
      <4>2. \A y \in calls : Len(offered) <= Len(y.offered)
        BY <1>3, <2>1 DEF Pile
      <4>3. QED
        BY <4>1, <4>2 DEF LastOf
    <3>4. LastOf(calls) \subseteq calls
      BY DEF LastOf
    <3>5. QED
      BY <2>0, <3>2, <3>3, <3>4
  <2>4. UNION {x.wish : x \in LastOf(calls)} = Selected
    <3>1. \A k \in 1..Len(heard) : CallOf(k).wish = Chosen(k)
      BY DEF CallOf, Chosen
    <3>2. QED
      BY <1>3, <2>3, <3>1
  <2>5. \A c \in Selected, x \in calls :
          \E y \in calls : y.offered = x.offered /\ c \in y.wish \cap Range(y.menu)
    BY <1>1, WinnersAgreed
  <2>6. input.steady => Wanted(1, Field1, next) = Wanted(1, Field1, AllOf(Field1))
    BY <1>1, <1>4, WantedOfRound, WantedIs
  <2>7. LastOf(Before)' = LastOf(calls)
    BY <2>2 DEF LastOf
  <2>8. {CallOf(k) : k \in 1..Len(heard)}' = {}
    BY <1>2
  <2>9. (Wanted(1, Field1, offered) = Wanted(1, Field1, AllOf(Field1)))' =
          (Wanted(1, Field1, next) = Wanted(1, Field1, AllOf(Field1)))
    BY <1>2, <1>8 DEF Wanted
  <2>10. /\ next \in Pile /\ next # <<>> /\ Distinct(next)
         /\ Range(next) \subseteq Range(AllOf(Field1))
         /\ Range(next) = UNION {x.wish : x \in LastOf(calls)}
    BY <1>3, <1>4, <1>6, <2>4
  <2>11. (\A c \in Range(offered), x \in Before :
            \E y \in Before : y.offered = x.offered /\ c \in y.wish \cap Range(y.menu))'
    BY <1>2, <1>4, <2>2, <2>5
  <2>12. /\ (calls = Before \cup {CallOf(k) : k \in 1..Len(heard)})'
         /\ (\A x \in calls : x.offered \in Pile)'
         /\ (Before # {} => Range(offered) = UNION {x.wish : x \in LastOf(Before)})'
    BY <1>2, <2>0, <2>2, <2>7, <2>8, <2>10
  <2>13. /\ (offered \in Pile /\ offered # <<>> /\ Distinct(offered))'
         /\ (Range(offered) \subseteq Range(AllOf(Field1)))'
         /\ (input.steady => Wanted(1, Field1, offered) = Wanted(1, Field1, AllOf(Field1)))'
         /\ (Field1.card = "MANY" => offered = AllOf(Field1))'
    BY <1>1, <1>2, <1>8, <2>6, <2>9, <2>10
  <2>14. TooLong'
    BY <1>1, <1>2, TooLongStays DEF Inv, ShardInv
  <2>15. QED
    BY <2>11, <2>12, <2>13, <2>14 DEF ShardInv
<1>15. SameAsOneCall' /\ EveryRoundAgreed' /\ RefusedForCause'
  BY <1>2 DEF SameAsOneCall, EveryRoundAgreed, RefusedForCause
<1>16. QED
  BY <1>11, <1>12, <1>13, <1>14, <1>15 DEF Inv

\* If one call could not hold the round's candidates, it can hold their winners
\* only if they are fewer.
LEMMA FewerFit ==
  ASSUME Inv, Contested, Cost(SelectedInSourceOrder, input.context) <= input.budget
  PROVE  ~(Range(offered) \subseteq Selected)
<1>1. /\ pc = "reducing" /\ input.kind = "shards" /\ Len(Winning) > 1 /\ OneField
      /\ input \in Inputs
  BY DEF Contested, Reducing, OneField, Inv, TypeInv
<1>2. PICK n \in Nat : n = Len(Round) /\ n = Len(heard) /\ n > 1
  BY <1>1, RoundIsMade, WinningIs
<1>3. offered \in Pile /\ offered # <<>> /\ Distinct(offered) /\ Selected \subseteq Range(offered)
  BY <1>1, RoundIsMade
<1>4. Cost(offered, input.context) > input.budget
  <2>1. TooLong
    BY <1>1 DEF Inv, ShardInv, Active
  <2>2. QED
    BY <1>1, <1>2, <1>3, <2>1, RoundIsTooLong
<1>5. input.context \in Nat /\ input.budget \in Nat
  BY <1>1, InputsAssumption DEF InputsAreSound
<1>6. PICK next : next = SelectedInSourceOrder
  OBVIOUS
<1>7. Range(next) = Selected
  BY <1>3, <1>6, InSourceOrder
<1>8. ASSUME Range(offered) \subseteq Selected PROVE FALSE
  <2>1. PICK ctx \in Nat : ctx = input.context
    BY <1>5
  <2>2. PICK s : s = offered
    OBVIOUS
  <2>3. Range(s) \subseteq Range(next)
    BY <1>7, <1>8, <2>2
  <2>4. Cost(s, ctx) \in Nat /\ Cost(next, ctx) \in Nat /\ Cost(s, ctx) <= Cost(next, ctx)
    BY <1>1, <2>3, CostGrows
  <2>5. Cost(s, ctx) > input.budget /\ Cost(next, ctx) <= input.budget
    BY <1>4, <1>6, <2>1, <2>2
  <2>6. QED
    BY <1>5, <2>4, <2>5
<1>9. QED
  BY <1>8

\* A model that always wants the same has not selected more than it wants.
LEMMA TooMuchIsWanted ==
  ASSUME Inv, Contested, Cost(SelectedInSourceOrder, input.context) > input.budget, input.steady
  PROVE  Cost(Within(AllOf(Field1), input.wants[Field1.name]), input.context) > input.budget
<1>1. pc = "reducing" /\ input.kind = "shards" /\ OneField /\ input \in Inputs
  BY DEF Contested, Reducing, OneField, Inv, TypeInv
<1>2. /\ offered \in Pile /\ Selected \subseteq Range(offered)
      /\ Range(offered) \subseteq Range(AllOf(Field1))
      /\ Selected = UNION {Chosen(k) : k \in 1..Len(heard)}
      /\ \A k \in 1..Len(heard) : Chosen(k) = Wanted(k, Field1, Round[k])
  BY <1>1, RoundIsMade
<1>3. PICK W : W = input.wants[Field1.name]
  OBVIOUS
<1>4. \A k \in 1..Len(heard) : Chosen(k) \subseteq W
  <2>1. \A k \in 1..Len(heard) : Wanted(k, Field1, Round[k]) \subseteq W
    BY <1>1, <1>3 DEF Wanted
  <2>2. QED
    BY <1>2, <2>1
<1>5. Selected \subseteq Range(AllOf(Field1)) \cap W
  BY <1>2, <1>4
<1>6. PICK s, t : s = SelectedInSourceOrder /\ t = Within(AllOf(Field1), W)
  OBVIOUS
<1>7. Range(s) \subseteq Range(t)
  <2>1. PICK a \in Pile : a = AllOf(Field1)
    BY <1>1, FirstRound
  <2>2. Range(t) = Range(AllOf(Field1)) \cap W
    BY <1>6, <2>1, WithinIs
  <2>3. Range(s) = Selected
    BY <1>2, <1>6, InSourceOrder
  <2>4. QED
    BY <1>5, <2>2, <2>3
<1>8. input.context \in Nat /\ input.budget \in Nat
  BY <1>1, InputsAssumption DEF InputsAreSound
<1>9. PICK ctx \in Nat : ctx = input.context
  BY <1>8
<1>10. Cost(s, ctx) \in Nat /\ Cost(t, ctx) \in Nat /\ Cost(s, ctx) <= Cost(t, ctx)
  BY <1>1, <1>7, CostGrows
<1>11. Cost(s, ctx) > input.budget
  BY <1>6, <1>9
<1>12. Cost(t, ctx) > input.budget
  BY <1>8, <1>10, <1>11
<1>13. QED
  BY <1>3, <1>6, <1>9, <1>12

LEMMA GivenUpHolds ==
  ASSUME Inv, Contested, Cost(SelectedInSourceOrder, input.context) > input.budget,
         NEW why \in {"no_progress", "reducer_budget"}, Refused(why)
  PROVE  Inv'
<1>1. Failed(why) /\ why \in Errors /\ why \notin {"contract", "output_malformed"}
  BY DEF Refused, Errors
<1>2. QED
  BY <1>1, RefusedIs, TooMuchIsWanted DEF Inv

LEMMA NoProgressHolds ==
  ASSUME Inv, NoProgress
  PROVE  Inv'
  BY GivenUpHolds DEF NoProgress

LEMMA ReducerCallHolds ==
  ASSUME Inv, ReducerCall
  PROVE  Inv'
<1>1. /\ Contested /\ Cost(SelectedInSourceOrder, input.context) <= input.budget
      /\ NextRound(<<SelectedInSourceOrder>>)
  BY DEF ReducerCall
<1>2. offered \in Pile /\ Selected \subseteq Range(offered)
  BY <1>1, RoundIsMade DEF Contested, Reducing, OneField
<1>3. PICK next \in Pile : next = SelectedInSourceOrder
  BY <1>2, InSourceOrder
<1>4. PICK shards : shards = <<next>>
  OBVIOUS
<1>5. shards \in Seq(Pile) /\ Len(shards) > 0
  BY <1>4
<1>6. ~(Range(offered) \subseteq Selected)
  BY <1>1, FewerFit
<1>7. NextRound(shards) /\ Cost(next, input.context) <= input.budget
  BY <1>1, <1>3, <1>4
<1>8. shards = IF Cost(next, input.context) <= input.budget THEN <<next>> ELSE Shards(next, 0)
  BY <1>4, <1>7
<1>9. QED
  BY <1>1, <1>3, <1>5, <1>6, <1>7, <1>8, NextRoundHolds

LEMMA ReshardHolds ==
  ASSUME Inv, Reshard
  PROVE  Inv'
<1>1. /\ Contested /\ Cost(SelectedInSourceOrder, input.context) > input.budget /\ ~Stuck
      /\ \/ Refused("reducer_budget")
         \/ NextRound(WinnerShards)
  BY DEF Reshard
<1>2. CASE Refused("reducer_budget")
  BY <1>1, <1>2, GivenUpHolds
<1>3. CASE NextRound(WinnerShards)
  <2>1. /\ input \in Inputs /\ pc = "reducing" /\ OneField /\ Len(Winning) > 1
    BY <1>1 DEF Contested, Reducing, OneField, Inv, TypeInv
  <2>2. offered \in Pile /\ Distinct(offered) /\ Selected \subseteq Range(offered)
    BY <2>1, RoundIsMade
  <2>3. PICK next \in Pile : next = SelectedInSourceOrder /\ Distinct(next) /\ Range(next) = Selected
    BY <2>2, InSourceOrder
  <2>4. Len(next) < Len(offered)
    <3>1. Len(next) \in Nat /\ Len(offered) \in Nat
      BY <2>2 DEF Pile
    <3>2. QED
      BY <1>1, <2>3, <3>1 DEF Stuck
  <2>5. ~(Range(offered) \subseteq Selected)
    BY <2>2, <2>3, <2>4, InSourceOrder
  <2>6. next # <<>>
    <3>1. Selected # {} /\ Range(<<>>) = {}
      BY <2>1, WinningIs DEF Range
    <3>2. QED
      BY <2>3, <3>1
  <2>7. PICK shards : shards = Shards(next, 0)
    OBVIOUS
  <2>8. shards \in Seq(Pile) /\ Len(shards) > 0
    <3>1. PICK zero \in Nat : zero = 0
      OBVIOUS
    <3>2. QED
      BY <2>1, <2>3, <2>6, <2>7, <3>1, ShardsAre
  <2>9. ~(Cost(next, input.context) <= input.budget)
    <3>1. input.context \in Nat /\ input.budget \in Nat
      BY <2>1, InputsAssumption DEF InputsAreSound
    <3>2. PICK ctx \in Nat : ctx = input.context
      BY <3>1
    <3>3. Cost(next, ctx) \in Nat
      BY <2>1, CostGrows
    <3>4. Cost(next, ctx) > input.budget
      BY <1>1, <2>3, <3>2
    <3>5. QED
      BY <3>1, <3>2, <3>3, <3>4
  <2>10. NextRound(shards)
    BY <1>3, <2>3, <2>7 DEF WinnerShards
  <2>11. shards = IF Cost(next, input.context) <= input.budget THEN <<next>> ELSE Shards(next, 0)
    BY <2>7, <2>9
  <2>12. QED
    BY <1>1, <2>3, <2>5, <2>8, <2>10, <2>11, NextRoundHolds
<1>4. QED
  BY <1>1, <1>2, <1>3

LEMMA WhyIs ==
  ASSUME NEW menus, NEW reply, NEW got, got = Answered(menus, reply)
  PROVE  got.why \in {"none", "contract", "output_malformed"}
<1>1. \A card, r : Objection(card, r) \in {"none", "contract", "output_malformed"}
  BY DEF Objection
<1>2. \A rs : FirstObjection(menus, rs) \in {"none", "contract", "output_malformed"}
  BY <1>1 DEF FirstObjection
<1>3. \A rs : FromBatch(menus, rs).why \in {"none", "contract", "output_malformed"}
  BY <1>2 DEF FromBatch, Raised, Fine
<1>4. SelectMany(menus, reply).why \in {"none", "contract", "output_malformed"}
  BY <1>3 DEF SelectMany, Raised
<1>5. SelectSingle(menus[1], Instance0, Head(reply)).why \in {"none", "contract", "output_malformed"}
  BY <1>1 DEF SelectSingle, Raised, Fine
<1>6. QED
  BY <1>4, <1>5 DEF Answered

\* the menus of the next call
LEMMA MenusDue ==
  ASSUME Inv, pc = "calling", NEW menus, menus = Head(todo)
  PROVE  /\ menus \in MenuLists
         /\ input.kind = "single" => Len(menus) = 1
         /\ ~OneField => heard = <<>> /\ Len(todo) = 1 /\ menus = AllMenus
         /\ OneField => /\ Len(heard) + 1 \in 1..Len(Round) /\ Len(menus) = 1
                        /\ menus[1].ids = Round[Len(heard) + 1]
<1>1. Active /\ input \in Inputs /\ todo \in Seq(MenuLists) /\ todo # <<>> /\ heard \in Seq(Observations)
  BY DEF Inv, TypeInv, Active
<1>2. menus = todo[1] /\ menus \in MenuLists /\ Len(todo) \in Nat /\ Len(todo) > 0
  BY <1>1
<1>3. ~OneField => heard = <<>> /\ Len(todo) = 1 /\ menus = AllMenus
  BY <1>1, <1>2 DEF Inv, PackInv
<1>4. input.kind = "single" => Len(menus) = 1
  BY <1>1, <1>3, FieldsAre, AllMenusAre DEF OneField
<1>5. ASSUME OneField
      PROVE  /\ Len(heard) + 1 \in 1..Len(Round) /\ Len(menus) = 1
             /\ menus[1].ids = Round[Len(heard) + 1]
  <2>1. PICK n \in Nat : n = Len(heard)
    BY <1>1
  <2>2. n + Len(todo) = Len(Round) /\ \A t \in 1..Len(todo) : todo[t] = Single(Field1, Round[n + t])
    BY <1>1, <1>5, <2>1 DEF Inv, RoundInv
  <2>3. menus = Single(Field1, Round[n + 1])
    BY <1>2, <2>2
  <2>4. n + 1 \in 1..Len(Round)
    BY <1>2, <2>2
  <2>5. PICK r \in Seq(Pile) : r = Round
    <3>1. input.kind = "windows" => Round \in Seq(Pile)
      BY <1>1, WindowRound
    <3>2. input.kind = "shards" => Round \in Seq(Pile)
      <4>1. input.kind = "shards" => offered \in Pile /\ offered # <<>> /\ Distinct(offered)
        BY <1>1 DEF Inv, ShardInv
      <4>2. QED
        BY <1>1, <4>1, RoundIs
    <3>3. QED
      BY <1>5, <3>1, <3>2 DEF OneField
  <2>6. PICK p \in Pile : p = r[n + 1]
    BY <2>4, <2>5
  <2>7. QED
    BY <1>1, <2>1, <2>3, <2>4, <2>5, <2>6, SingleIs
<1>6. QED
  BY <1>2, <1>3, <1>4, <1>5

\* What the model wishes for is on the menus.
LEMMA WishListsAre ==
  ASSUME input \in Inputs, NEW menus \in MenuLists, NEW wishes \in WishLists(menus)
  PROVE  /\ wishes \in Wishings(menus)
         /\ \A j \in 1..Len(menus) : wishes[j] \in Wishes(Index, input.fields[j], menus[j].ids)
<1>1. PICK n \in Nat : n = Len(menus) /\ DOMAIN menus = 1..n
  BY DEF MenuLists
<1>2. /\ DOMAIN wishes = 1..n /\ wishes = [j \in 1..n |-> wishes[j]]
      /\ \A j \in 1..n : wishes[j] \in Wishes(Index, input.fields[j], menus[j].ids)
  BY <1>1 DEF WishLists
<1>3. ASSUME NEW j \in 1..n PROVE wishes[j] \subseteq Range(menus[j].ids) /\ wishes[j] \in SUBSET Nat
  <2>1. PICK m \in Menus : m = menus[j]
    BY <1>1 DEF MenuLists
  <2>2. PICK wish : wish = wishes[j]
    OBVIOUS
  <2>3. PICK i, field, ids : i = Index /\ field = input.fields[j] /\ ids = m.ids
    OBVIOUS
  <2>4. wish \in Wishes(i, field, ids)
    BY <1>2, <2>1, <2>2, <2>3
  <2>5. wish \subseteq Range(ids)
    BY <2>4, WishesAre
  <2>6. ids \in Seq(Nat)
    BY <2>3 DEF Menus
  <2>7. Range(ids) \subseteq Nat
    BY <2>6 DEF Range
  <2>8. QED
    BY <2>1, <2>2, <2>3, <2>5, <2>7
<1>4. wishes \in [1..n -> SUBSET Nat]
  BY <1>2, <1>3
<1>5. QED
  BY <1>1, <1>2, <1>3, <1>4 DEF Wishings

LEMMA RoundStays ==
  ASSUME input' = input, offered' = offered
  PROVE  Round' = Round
  BY DEF Round, Shards, Placed, Joins, Estimate, Cost, Weight, Field1, AllOf

LEMMA RestOf ==
  ASSUME NEW S, NEW rest \in Seq(S), NEW m \in Nat, m > 0, Len(rest) = m - 1
  PROVE  (m > 1 => rest # <<>>) /\ (m = 1 => rest = <<>>)
<1>1. rest = <<>> <=> Len(rest) = 0
  OBVIOUS
<1>2. QED
  BY <1>1

\* A call that is answered is one more call of the round.
LEMMA HeardHolds ==
  ASSUME Inv, pc = "calling", OneField, NEW menus, menus = Head(todo),
         NEW wishes \in WishLists(menus),
         NEW value \in Seq(Observations), Len(value) = Len(menus),
         \A j \in 1..Len(menus) : Range(value[j].selected) = wishes[j],
         todo' = Tail(todo), heard' = heard \o value,
         calls' = calls \cup {[offered |-> offered, menu |-> menus[1].ids, wish |-> wishes[1]]},
         pc' = IF Len(todo) > 1 THEN "calling" ELSE "reducing",
         input' = input, offered' = offered
  PROVE  Inv'
<1>1. Active /\ input \in Inputs /\ todo \in Seq(MenuLists) /\ todo # <<>> /\ heard \in Seq(Observations)
  BY DEF Inv, TypeInv, Active
<1>2. /\ menus \in MenuLists /\ Len(menus) = 1
      /\ Len(heard) + 1 \in 1..Len(Round) /\ menus[1].ids = Round[Len(heard) + 1]
  BY MenusDue
<1>3. PICK n \in Nat : n = Len(heard)
  BY <1>1
<1>4. PICK o \in Observations : o = value[1] /\ Range(o.selected) = wishes[1]
  BY <1>2
<1>5. /\ heard' \in Seq(Observations) /\ Len(heard') = n + 1 /\ heard'[n + 1] = o
      /\ \A k \in 1..n : heard'[k] = heard[k]
  <2>1. PICK S : S = Observations
    OBVIOUS
  <2>2. PICK h, v \in Seq(S) : h = heard /\ v = value
    BY <1>1, <2>1
  <2>3. Len(h) = n /\ Len(v) = 1 /\ v[1] = o
    BY <1>2, <1>3, <1>4, <2>2
  <2>4. PICK u : u = h \o v
    OBVIOUS
  <2>5. u \in Seq(S) /\ Len(u) = n + 1 /\ u[n + 1] = o /\ \A k \in 1..n : u[k] = h[k]
    <3>1. u \in Seq(S) /\ Len(u) = Len(h) + Len(v)
      BY <2>2, <2>4
    <3>2. \A k \in 1..Len(h) : u[k] = h[k]
      BY <2>2, <2>4
    <3>3. \A k \in 1..Len(v) : u[Len(h) + k] = v[k]
      BY <2>2, <2>4
    <3>4. QED
      BY <2>3, <3>1, <3>2, <3>3
  <2>6. heard' = u
    BY <2>2, <2>4
  <2>7. QED
    BY <2>1, <2>2, <2>5, <2>6
<1>6. PICK m \in Nat : m = Len(todo) /\ m > 0
  BY <1>1
<1>7. /\ todo' \in Seq(MenuLists) /\ Len(todo') = m - 1
      /\ \A t \in 1..(m - 1) : todo'[t] = todo[t + 1]
  BY <1>1, <1>6
<1>8. Field1' = Field1 /\ AllOf(Field1)' = AllOf(Field1) /\ OneField' = OneField /\ Round' = Round
  BY RoundStays DEF Field1, AllOf, OneField
<1>9. TypeInv'
  <2>1. pc' = "calling" => m > 1
    BY <1>6
  <2>2. pc' = "reducing" => m = 1
    BY <1>6
  <2>3. pc' \in {"calling", "reducing"}
    OBVIOUS
  <2>4. (m > 1 => todo' # <<>>) /\ (m = 1 => todo' = <<>>)
    <3>1. PICK S : S = MenuLists
      OBVIOUS
    <3>2. PICK rest \in Seq(S) : rest = todo' /\ Len(rest) = m - 1
      BY <1>7, <3>1
    <3>3. (m > 1 => rest # <<>>) /\ (m = 1 => rest = <<>>)
      BY <1>6, <3>2, RestOf
    <3>4. QED
      BY <3>2, <3>3
  <2>5. QED
    BY <1>1, <1>5, <1>7, <2>1, <2>2, <2>3, <2>4 DEF TypeInv
<1>10. PackInv'
  BY <1>8 DEF PackInv
<1>11. PICK wish : wish = wishes[1]
  OBVIOUS
<1>12. wish \in Wishes(n + 1, Field1, Round[n + 1])
  <2>1. 1 \in 1..Len(menus)
    BY <1>2
  <2>2. wishes[1] \in Wishes(Index, input.fields[1], menus[1].ids)
    BY <1>1, <1>2, <2>1, WishListsAre
  <2>3. QED
    BY <1>2, <1>3, <1>11, <2>2 DEF Index, Field1
<1>13. RoundInv'
  <2>0. /\ n + m = Len(Round)
        /\ \A t \in 1..m : todo[t] = Single(Field1, Round[n + t])
        /\ \A k \in 1..n : Range(heard[k].selected) \in Wishes(k, Field1, Round[k])
        /\ input.kind = "windows" => offered = AllOf(Field1)
    BY <1>1, <1>3, <1>6 DEF Inv, RoundInv
  <2>1. (n + 1) + (m - 1) = Len(Round)
    <3>1. (n + 1) + (m - 1) = n + m
      OBVIOUS
    <3>2. QED
      BY <2>0, <3>1, Zenon
  <2>2. \A t \in 1..(m - 1) : todo'[t] = Single(Field1, Round[(n + 1) + t])
    <3> SUFFICES ASSUME NEW t \in 1..(m - 1) PROVE todo'[t] = Single(Field1, Round[(n + 1) + t])
      OBVIOUS
    <3>1. t + 1 \in 1..m /\ (n + 1) + t = n + (t + 1)
      BY <1>6
    <3>2. QED
      BY <1>7, <2>0, <3>1
  <2>3. \A k \in 1..(n + 1) : Range(heard'[k].selected) \in Wishes(k, Field1, Round[k])
    <3> SUFFICES ASSUME NEW k \in 1..(n + 1)
                 PROVE  Range(heard'[k].selected) \in Wishes(k, Field1, Round[k])
      OBVIOUS
    <3>1. CASE k \in 1..n
      BY <1>5, <2>0, <3>1
    <3>2. CASE k = n + 1
      BY <1>4, <1>5, <1>11, <1>12, <3>2
    <3>3. k \in 1..n \/ k = n + 1
      OBVIOUS
    <3>4. QED
      BY <3>1, <3>2, <3>3, Zenon
  <2>4. \A k : Wishes(k, Field1, Round[k])' = Wishes(k, Field1, Round[k])
    BY <1>8 DEF Wishes, Wanted
  <2>5. \A p : Single(Field1, p)' = Single(Field1, p)
    BY <1>8 DEF Single, Menu
  <2>6. (\A t \in 1..Len(todo) : todo[t] = Single(Field1, Round[Len(heard) + t]))'
    BY <1>5, <1>7, <1>8, <2>2 DEF Single, Menu
  <2>7. (\A k \in 1..Len(heard) : Range(heard[k].selected) \in Wishes(k, Field1, Round[k]))'
    BY <1>5, <2>3, <2>4
  <2>8. (Len(heard) + Len(todo) = Len(Round))'
    BY <1>5, <1>7, <1>8, <2>1
  <2>9. (input.kind = "windows" => offered = AllOf(Field1))'
    BY <1>8, <2>0
  <2>10. QED
    BY <2>6, <2>7, <2>8, <2>9 DEF RoundInv
<1>14. ShardInv'
  <2> SUFFICES ASSUME input.kind = "shards" PROVE ShardInv'
    BY DEF ShardInv
  <2>0. /\ offered \in Pile /\ offered # <<>> /\ Distinct(offered)
        /\ Range(offered) \subseteq Range(AllOf(Field1))
        /\ \A x \in calls : x.offered \in Pile
        /\ calls = Before \cup {CallOf(k) : k \in 1..n}
        /\ Before # {} => Range(offered) = UNION {x.wish : x \in LastOf(Before)}
        /\ \A c \in Range(offered), x \in Before :
             \E y \in Before : y.offered = x.offered /\ c \in y.wish \cap Range(y.menu)
        /\ input.steady => Wanted(1, Field1, offered) = Wanted(1, Field1, AllOf(Field1))
        /\ Field1.card = "MANY" => offered = AllOf(Field1)
    BY <1>1, <1>3 DEF Inv, ShardInv
  <2>1. PICK call : call = [offered |-> offered, menu |-> menus[1].ids, wish |-> wish]
    OBVIOUS
  <2>2. calls' = calls \cup {call} /\ call.offered = offered
    BY <1>11, <2>1
  <2>3. \A k \in 1..n : CallOf(k)' = CallOf(k)
    BY <1>5, <1>8 DEF CallOf
  <2>4. CallOf(n + 1)' = call
    BY <1>2, <1>3, <1>4, <1>5, <1>8, <1>11, <2>1 DEF CallOf
  <2>5. {CallOf(k) : k \in 1..Len(heard)}' = {CallOf(k) : k \in 1..n} \cup {call}
    <3>1. {CallOf(k) : k \in 1..Len(heard)}' = {CallOf(k)' : k \in 1..(n + 1)}
      BY <1>5
    <3>2. \A k \in 1..(n + 1) : k \in 1..n \/ k = n + 1
      OBVIOUS
    <3>3. n + 1 \in 1..(n + 1) /\ \A k \in 1..n : k \in 1..(n + 1)
      OBVIOUS
    <3>4. QED
      BY <2>3, <2>4, <3>1, <3>2, <3>3
  <2>6. Before' = Before
    <3>1. Before' = {x \in calls \cup {call} : Len(x.offered) > Len(offered)}
      BY <2>2 DEF Before
    <3>2. ~(Len(call.offered) > Len(offered))
      <4>1. Len(offered) \in Nat
        BY <2>0 DEF Pile
      <4>2. QED
        BY <2>2, <4>1
    <3>3. QED
      BY <3>1, <3>2 DEF Before
  <2>7. LastOf(Before)' = LastOf(Before)
    BY <2>6 DEF LastOf
  <2>8. /\ Wanted(1, Field1, offered)' = Wanted(1, Field1, offered)
        /\ Wanted(1, Field1, AllOf(Field1))' = Wanted(1, Field1, AllOf(Field1))
    BY <1>8 DEF Wanted
  <2>9. (\A x \in calls : x.offered \in Pile)'
    BY <2>0, <2>2
  <2>10. (calls = Before \cup {CallOf(k) : k \in 1..Len(heard)})'
    BY <2>0, <2>2, <2>5, <2>6
  <2>11. /\ (Before # {} => Range(offered) = UNION {x.wish : x \in LastOf(Before)})'
         /\ (\A c \in Range(offered), x \in Before :
               \E y \in Before : y.offered = x.offered /\ c \in y.wish \cap Range(y.menu))'
    BY <2>0, <2>6, <2>7
  <2>12. /\ (offered \in Pile /\ offered # <<>> /\ Distinct(offered))'
         /\ (Range(offered) \subseteq Range(AllOf(Field1)))'
         /\ (input.steady => Wanted(1, Field1, offered) = Wanted(1, Field1, AllOf(Field1)))'
         /\ (Field1.card = "MANY" => offered = AllOf(Field1))'
    BY <1>8, <2>0, <2>8
  <2>13. TooLong'
    BY <1>1, <1>3, <1>8, TooLongStays DEF Inv, ShardInv
  <2>14. QED
    BY <2>9, <2>10, <2>11, <2>12, <2>13 DEF ShardInv
<1>15. SameAsOneCall' /\ EveryRoundAgreed' /\ RefusedForCause'
  BY DEF SameAsOneCall, EveryRoundAgreed, RefusedForCause
<1>16. QED
  BY <1>9, <1>10, <1>13, <1>14, <1>15 DEF Inv

\* The one call of a packed plan, answered, is reduced next.
LEMMA PackedHolds ==
  ASSUME Inv, pc = "calling", ~OneField, NEW menus, menus = Head(todo),
         NEW wishes \in WishLists(menus),
         NEW value \in Seq(Observations), Len(value) = Len(menus),
         \A j \in 1..Len(menus) : Range(value[j].selected) = wishes[j],
         todo' = Tail(todo), heard' = heard \o value,
         pc' = IF Len(todo) > 1 THEN "calling" ELSE "reducing",
         input' = input
  PROVE  Inv'
<1>1. input \in Inputs /\ todo \in Seq(MenuLists)
  BY DEF Inv, TypeInv
<1>2. menus \in MenuLists /\ heard = <<>> /\ Len(todo) = 1 /\ menus = AllMenus
  BY MenusDue
<1>3. pc' = "reducing" /\ todo' = <<>> /\ heard' = value /\ OneField' = OneField
  BY <1>1, <1>2 DEF OneField
<1>4. PICK n \in Nat : n = Len(input.fields) /\ n = Len(menus)
  BY <1>1, <1>2, FieldsAre, AllMenusAre
<1>5. ASSUME NEW j \in 1..n
      PROVE  Range(value[j].selected) \in Wishes(1, input.fields[j], AllOf(input.fields[j]))
  <2>1. menus[j].ids = AllOf(input.fields[j])
    BY <1>1, <1>2, <1>4, AllMenusAre
  <2>2. Index = 1
    BY <1>2 DEF Index
  <2>3. wishes[j] \in Wishes(Index, input.fields[j], menus[j].ids)
    BY <1>1, <1>2, <1>4, WishListsAre
  <2>4. QED
    BY <1>4, <2>1, <2>2, <2>3
<1>6. TypeInv'
  <2>1. PICK S : S = MenuLists
    OBVIOUS
  <2>2. PICK none : none = <<>>
    OBVIOUS
  <2>3. none \in Seq(S)
    BY <2>2
  <2>4. todo' \in Seq(MenuLists) /\ heard' \in Seq(Observations)
    BY <1>3, <2>1, <2>2, <2>3
  <2>5. QED
    BY <1>1, <1>3, <2>4 DEF TypeInv
<1>7. PackInv'
  <2>1. \A j : Wishes(1, input.fields[j], AllOf(input.fields[j]))' = Wishes(1, input.fields[j], AllOf(input.fields[j]))
    BY DEF Wishes, Wanted, AllOf
  <2>2. (\A j \in 1..Len(heard) :
           Range(heard[j].selected) \in Wishes(1, input.fields[j], AllOf(input.fields[j])))'
    BY <1>3, <1>4, <1>5, <2>1
  <2>3. (Len(heard) = Len(input.fields))'
    BY <1>3, <1>4
  <2>4. QED
    BY <1>3, <2>2, <2>3 DEF PackInv
<1>8. RoundInv' /\ ShardInv'
  BY <1>3 DEF RoundInv, ShardInv, OneField
<1>9. SameAsOneCall' /\ EveryRoundAgreed' /\ RefusedForCause'
  BY <1>3 DEF SameAsOneCall, EveryRoundAgreed, RefusedForCause
<1>10. QED
  BY <1>6, <1>7, <1>8, <1>9 DEF Inv

LEMMA CallHolds ==
  ASSUME Inv, Call
  PROVE  Inv'
<1>1. pc = "calling" /\ input \in Inputs
  BY DEF Call, Inv, TypeInv
<1>2. PICK menus : menus = Head(todo)
  OBVIOUS
<1>3. menus \in MenuLists /\ (input.kind = "single" => Len(menus) = 1) /\ DOMAIN menus = 1..Len(menus)
  BY <1>1, <1>2, MenusDue DEF MenuLists
<1>4. PICK wishes \in WishLists(menus) : \E i \in DOMAIN menus :
        \/ /\ slipped' = slipped
           /\ \E said \in Sayable(Phrasings(menus[i], wishes[i])) :
                Told(menus, wishes, Worded(menus, wishes, i, said))
        \/ /\ slipped' = TRUE
           /\ \E said \in Sayable(Slips(menus[i], wishes[i])) :
                Told(menus, wishes, Worded(menus, wishes, i, said))
  BY <1>2 DEF Call
<1>5. PICK i \in 1..Len(menus) :
        \/ /\ slipped' = slipped
           /\ \E said \in Sayable(Phrasings(menus[i], wishes[i])) :
                Told(menus, wishes, Worded(menus, wishes, i, said))
        \/ /\ slipped' = TRUE
           /\ \E said \in Sayable(Slips(menus[i], wishes[i])) :
                Told(menus, wishes, Worded(menus, wishes, i, said))
  BY <1>3, <1>4
<1>6. PICK said : /\ \/ said \in Phrasings(menus[i], wishes[i])
                     \/ said \in Slips(menus[i], wishes[i]) /\ slipped'
                  /\ input.kind = "single" => Len(said) = 1
                  /\ Told(menus, wishes, Worded(menus, wishes, i, said))
  BY <1>5 DEF Sayable
<1>7. PICK got : got = Answered(menus, Worded(menus, wishes, i, said))
  OBVIOUS
<1>8. \/ got.why # "none" /\ Failed(got.why)
      \/ /\ got.why = "none"
         /\ todo' = Tail(todo) /\ heard' = heard \o got.value
         /\ calls' = calls \cup {[offered |-> offered, menu |-> menus[1].ids, wish |-> wishes[1]]}
         /\ pc' = IF Len(todo) > 1 THEN "calling" ELSE "reducing"
         /\ input' = input /\ offered' = offered
  BY <1>6, <1>7 DEF Told
<1>9. wishes \in Wishings(menus)
  BY <1>1, <1>3, WishListsAre
<1>10. CASE got.why # "none" /\ Failed(got.why)
  <2>1. got.why \in {"contract", "output_malformed"}
    BY <1>7, <1>10, WhyIs
  <2>2. said \notin Phrasings(menus[i], wishes[i])
    <3>1. ASSUME said \in Phrasings(menus[i], wishes[i]) PROVE FALSE
      <4>1. Answered(menus, Worded(menus, wishes, i, said)).why = "none"
        BY <1>3, <1>6, <1>9, <3>1, AnswerIsTaken
      <4>2. QED
        BY <1>7, <1>10, <4>1
    <3>2. QED
      BY <3>1
  <2>3. slipped'
    BY <1>6, <2>2
  <2>4. PICK why \in {"contract", "output_malformed"} : why = got.why
    BY <2>1
  <2>5. Failed(why) /\ why \in Errors /\ why \notin {"no_progress", "reducer_budget"}
    BY <1>10, <2>4 DEF Errors
  <2>6. QED
    BY <2>3, <2>5, RefusedIs DEF Inv
<1>11. CASE /\ got.why = "none"
            /\ todo' = Tail(todo) /\ heard' = heard \o got.value
            /\ calls' = calls \cup {[offered |-> offered, menu |-> menus[1].ids, wish |-> wishes[1]]}
            /\ pc' = IF Len(todo) > 1 THEN "calling" ELSE "reducing"
            /\ input' = input /\ offered' = offered
  <2>1. /\ got.value \in Seq(Observations) /\ Len(got.value) = Len(menus)
        /\ \A j \in 1..Len(menus) : Range(got.value[j].selected) = wishes[j]
    <3>1. said \in Phrasings(menus[i], wishes[i]) \/ said \in Slips(menus[i], wishes[i])
      BY <1>6
    <3>2. input.kind = "single" => Len(menus) = 1 /\ Len(said) = 1
      BY <1>3, <1>6
    <3>3. got.why = "none"
      BY <1>11
    <3>4. menus \in MenuLists
      BY <1>3
    <3>5. /\ got.value \in Seq(Observations)
          /\ Len(got.value) = Len(menus)
          /\ \A j \in 1..Len(menus) : got.value[j].field = menus[j].field
                                      /\ Range(got.value[j].selected) = wishes[j]
      BY <1>7, <1>9, <3>1, <3>2, <3>3, <3>4, AnswerTells
    <3>6. QED
      BY <3>5
  <2>2. PICK value \in Seq(Observations) : value = got.value
    BY <2>1
  <2>3. Len(value) = Len(menus) /\ heard' = heard \o value
        /\ \A j \in 1..Len(menus) : Range(value[j].selected) = wishes[j]
    BY <1>11, <2>1, <2>2
  <2>4. CASE OneField
    BY <1>1, <1>2, <1>4, <1>11, <2>3, <2>4, HeardHolds
  <2>5. CASE ~OneField
    BY <1>1, <1>2, <1>4, <1>11, <2>3, <2>5, PackedHolds
  <2>6. QED
    BY <2>4, <2>5
<1>12. QED
  BY <1>8, <1>10, <1>11

-----------------------------------------------------------------------------
(* The theorems *)

LEMMA StepHolds ==
  ASSUME Inv, [Next]_vars
  PROVE  Inv'
<1>1. CASE Call
  BY <1>1, CallHolds
<1>2. CASE KeepPacked
  BY <1>2, KeepPackedHolds
<1>3. CASE WrongStrategy
  BY <1>3, WrongStrategyHolds
<1>4. CASE UnionWindows
  BY <1>4, UnionWindowsHolds
<1>5. CASE PriorityWindows
  BY <1>5, PriorityWindowsHolds
<1>6. CASE AllAbstained
  BY <1>6, AllAbstainedHolds
<1>7. CASE UnionShards
  BY <1>7, UnionShardsHolds
<1>8. CASE SoleWinner
  BY <1>8, SoleWinnerHolds
<1>9. CASE ReducerCall
  BY <1>9, ReducerCallHolds
<1>10. CASE NoProgress
  BY <1>10, NoProgressHolds
<1>11. CASE Reshard
  BY <1>11, ReshardHolds
<1>12. CASE UNCHANGED vars
  BY <1>12, StutterHolds
<1>13. QED
  BY <1>1, <1>2, <1>3, <1>4, <1>5, <1>6, <1>7, <1>8, <1>9, <1>10, <1>11, <1>12 DEF Next

LEMMA InvHolds == Spec => []Inv
<1>1. Init => Inv
  BY InitHolds
<1>2. Inv /\ [Next]_vars => Inv'
  BY StepHolds
<1>3. QED
  BY <1>1, <1>2, PTL DEF Spec

LEMMA NoneIsLeftOut == Inv => NoCandidateLeftOut
<1> SUFFICES ASSUME Inv, pc = "reducing", input.kind = "shards",
                    NEW now, now = {x \in calls : x.offered = offered}
             PROVE  /\ \A c \in Range(offered) : Cardinality({x \in now : c \in Range(x.menu)}) = 1
                    /\ Before # {} => Range(offered) = UNION {x.wish : x \in LastOf(Before)}
  BY DEF NoCandidateLeftOut, Before, LastOf
<1>1. Active /\ OneField /\ input \in Inputs
  BY DEF Active, OneField, Inv, TypeInv
<1>2. /\ calls = Before \cup {CallOf(k) : k \in 1..Len(heard)}
      /\ Before # {} => Range(offered) = UNION {x.wish : x \in LastOf(Before)}
  BY <1>1 DEF Inv, ShardInv
<1>3. PICK n \in Nat : n = Len(heard) /\ n = Len(Round)
  BY <1>1, RoundIsMade
<1>4. offered \in Pile /\ offered # <<>> /\ Distinct(offered)
  BY <1>1, RoundIsMade
<1>5. Divided(Round, Range(offered))
  BY <1>1, <1>4, RoundIs
<1>6. now = {CallOf(k) : k \in 1..n}
  <2>1. \A x \in Before : x.offered # offered
    <3>1. Len(offered) \in Nat
      BY <1>4 DEF Pile
    <3>2. QED
      BY <3>1 DEF Before
  <2>2. \A k \in 1..n : CallOf(k).offered = offered
    BY DEF CallOf
  <2>3. QED
    BY <1>2, <1>3, <2>1, <2>2
<1>7. ASSUME NEW c \in Range(offered)
      PROVE  Cardinality({x \in now : c \in Range(x.menu)}) = 1
  <2>1. PICK k \in 1..n : c \in Range(Round[k])
    BY <1>3, <1>5, <1>7 DEF Divided
  <2>2. \A l \in 1..n : c \in Range(Round[l]) => k = l
    BY <1>3, <1>5, <2>1 DEF Divided
  <2>3. \A l \in 1..n : CallOf(l).menu = Round[l]
    BY DEF CallOf
  <2>4. {x \in now : c \in Range(x.menu)} = {CallOf(k)}
    BY <1>6, <2>1, <2>2, <2>3
  <2>5. QED
    BY <2>4, FS_Singleton
<1>8. QED
  BY <1>2, <1>7

(* Cutting a field into shards, a document into windows or a batch into     *)
(* calls changes nothing: what a plan comes to is what one call over all    *)
(* candidates would have brought, for every plan, budget and wording        *)
(* (_select_sharded_field, _reduce_document_window_observations,            *)
(* _observations_from_batch_response).                                      *)
THEOREM SelectionIsUndivided == Spec => []SameAsOneCall
<1>1. Inv => SameAsOneCall
  BY DEF Inv
<1>2. QED
  BY <1>1, InvHolds, PTL

(* The winner of a sharded field was wanted in every round, whatever the    *)
(* model changes its mind to (_select_sharded_winners).                     *)
THEOREM WinnersWereWantedAlways == Spec => []EveryRoundAgreed
<1>1. Inv => EveryRoundAgreed
  BY DEF Inv
<1>2. QED
  BY <1>1, InvHolds, PTL

(* Before a round is reduced, each of its candidates was offered in exactly *)
(* one call, and the candidates of a round are the winners of the last one  *)
(* (plan_candidate_shards, _select_sharded_winners).                        *)
THEOREM EveryCandidateIsAsked == Spec => []NoCandidateLeftOut
<1>1. Inv => NoCandidateLeftOut
  BY NoneIsLeftOut
<1>2. QED
  BY <1>1, InvHolds, PTL

(* An answer in an accepted wording is never refused, and a field whose     *)
(* wanted candidates fit into one call is never given up for its budget     *)
(* (_select_sharded_winners, PydanticAISelector.select and select_many).    *)
THEOREM RefusalsHaveACause == Spec => []RefusedForCause
<1>1. Inv => RefusedForCause
  BY DEF Inv
<1>2. QED
  BY <1>1, InvHolds, PTL
=============================================================================
