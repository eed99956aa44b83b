--------------------------- MODULE DeferredPromise ---------------------------
(***************************************************************************)
(* What deferred extraction promises, without rendering, polling or        *)
(* manifests: questions are asked in batches, each batch is answered once, *)
(* and an extraction rests on answers given in one batch to questions      *)
(* asked in it, one answer for each.                                       *)
(***************************************************************************)
CONSTANTS Key, Batch, None

VARIABLES asked,     \* the questions asked in each batch
          answers,   \* the answers given in each batch, pairs <<question, says>>
          delivered  \* what the extraction just delivered to a key rests on, or None

vars == <<asked, answers, delivered>>

Init ==
  /\ asked = [b \in Batch |-> {}]
  /\ answers = [b \in Batch |-> {}]
  /\ delivered = [k \in Key |-> None]

Questions(A) == {a[1] : a \in A}

Ask(b) ==
  /\ asked[b] = {}
  /\ asked'[b] # {}
  /\ asked' = [asked EXCEPT ![b] = asked'[b]]
  /\ delivered' = [k \in Key |-> None]
  /\ UNCHANGED answers

Answer(b) ==
  /\ answers[b] = {}
  /\ Questions(answers'[b]) \subseteq asked[b]
  /\ answers' = [answers EXCEPT ![b] = answers'[b]]
  /\ delivered' = [k \in Key |-> None]
  /\ UNCHANGED asked

Rests(d) ==
  /\ d.answers \subseteq answers[d.batch]
  /\ \A x, y \in d.answers : x[1] = y[1] => x = y

\* a key is collected, or refused
Deliver(k) ==
  /\ delivered'[k] = None \/ Rests(delivered'[k])
  /\ \A other \in Key \ {k} : delivered'[other] = None
  /\ UNCHANGED <<asked, answers>>

Next == (\E b \in Batch : Ask(b) \/ Answer(b)) \/ \E k \in Key : Deliver(k)

Spec == Init /\ [][Next]_vars
=============================================================================
