--------------------------- MODULE SerialRunProofs ---------------------------
(***************************************************************************)
(* What holds of SerialRun for every spec, every candidate universe, every *)
(* validator and every policy.                                             *)
(***************************************************************************)
EXTENDS SerialRun, TLAPS

Decision == [outcome : {"selected", "ambiguous", "abstained",
                        "no_candidates"},
             ids : SUBSET Cand]

-----------------------------------------------------------------------------
(* Types of what the components return                                     *)

LEMMA FieldIsRef == Field \subseteq FieldRef
  BY SpecAssumption DEF Field, FieldRef

\* The candidates offered to a selector are candidates.
LEMMA CandidateSetType ==
  ASSUME candidateSets \in [Field -> SUBSET Cand],
         NEW f \in Field, NEW i \in Instance
  PROVE  CandidateSet(f, i) \subseteq Cand
  BY DEF CandidateSet

\* A selector, or the gate, decides with candidates of the set.
LEMMA DecisionType ==
  ASSUME candidateSets \in [Field -> SUBSET Cand],
         NEW f \in Field, NEW i \in Instance, NEW d \in Decisions(f, i)
  PROVE  d \in Decision
<1>1. CandidateSet(f, i) \subseteq Cand
  BY CandidateSetType
<1>2. AutoSelected(CandidateSet(f, i)) \subseteq Cand
  BY <1>1 DEF AutoSelected
<1>3. Answers(CandidateSet(f, i)) \subseteq Decision
  BY <1>1 DEF Answers, Decision
<1>4. QED
  BY <1>2, <1>3 DEF Decisions, Decision

\* A recorded decision is an observation.
LEMMA ObserveType ==
  ASSUME NEW f \in Field, NEW i \in Instance, NEW r \in 0..2,
         NEW d \in Decision
  PROVE  /\ Observe(f, i, r, d) \in Observation
         /\ Observe(f, i, r, d).field = f
         /\ Observe(f, i, r, d).inst = i
         /\ Observe(f, i, r, d).round = r
  BY DEF Observe, Observation, Decision

\* Every negative built by a component is a negative outcome.
LEMMA RefusalType ==
  ASSUME NEW kind \in {"ambiguous", "abstained", "no_candidates",
                       "empty_selection", "many_selected",
                       "candidate_failure", "field_failure",
                       "one_multiple_instances", "per_instance_multi"},
         NEW f \in Field, NEW i \in Instance \cup {NoInstance},
         NEW c \in Cand \cup {NoCand}
  PROVE  /\ Refusal(kind, f, i, c) \in FieldNegative
         /\ Refusal(kind, f, i, c).field = f
         /\ Refusal(kind, f, i, c).kind = kind
  BY FieldIsRef DEF Refusal, Negative, FieldNegative

\* The adapter refuses with one negative of the observed field, or not at all.
LEMMA AdaptRefusalType ==
  ASSUME NEW o \in Observation
  PROVE  /\ AdaptRefusal(o) \subseteq FieldNegative
         /\ \A n \in AdaptRefusal(o) : n.field = o.field
<1>1. /\ o.field \in Field
      /\ Hint(o.inst) \in Instance \cup {NoInstance}
      /\ o.outcome \in {"selected", "ambiguous", "abstained",
                        "no_candidates"}
  BY DEF Observation, Hint
<1>2. AdaptRefusalKinds(o) \subseteq
        {"ambiguous", "abstained", "no_candidates", "empty_selection",
         "many_selected"}
  BY <1>1 DEF AdaptRefusalKinds
<1>3. \A kind \in AdaptRefusalKinds(o) :
        LET n == Refusal(kind, o.field, Hint(o.inst), NoCand)
        IN  n \in FieldNegative /\ n.field = o.field
  BY <1>1, <1>2, RefusalType
<1>4. QED
  BY <1>2, <1>3 DEF AdaptRefusal

\* Adaptation and validation of an observation speak of its unit only.
LEMMA KeptType ==
  ASSUME NEW o \in Observation
  PROVE  /\ Kept(o) \subseteq Validated
         /\ \A v \in Kept(o) :
              /\ v.field = o.field /\ v.inst = o.inst
              /\ v.cand \in o.ids /\ o.outcome = "selected"
              /\ v.cand \notin Layer1Bad \cup Layer2Bad
  BY DEF Kept, Proposed, Observation, Validated

LEMMA RefusedType ==
  ASSUME NEW o \in Observation
  PROVE  /\ Refused(o) \subseteq FieldNegative
         /\ \A n \in Refused(o) : n.field = o.field
<1>1. /\ o.field \in Field /\ o.inst \in Instance
      /\ Proposed(o) \subseteq Cand
  BY DEF Observation, Proposed
<1>2. \A c \in Cand :
        LET n == Refusal("candidate_failure", o.field, o.inst, c)
        IN  n \in FieldNegative /\ n.field = o.field
  BY <1>1, RefusalType
<1>3. ASSUME NEW c \in Cand
      PROVE  LET n == Refusal("field_failure", o.field, NoInstance, c)
             IN  n \in FieldNegative /\ n.field = o.field
  BY <1>1, FieldIsRef DEF Refusal, Negative, FieldNegative
<1>4. QED
  BY <1>1, <1>2, <1>3, AdaptRefusalType DEF Refused

\* The resolver returns instances that hold what it was given.
LEMMA ResolveType ==
  ASSUME NEW V \in SUBSET Validated
  PROVE  /\ Resolve(V) \subseteq InstanceOutcome
         /\ \A x \in Resolve(V) :
              /\ x.evidence \subseteq V
              /\ x.negatives \subseteq FieldNegative
              /\ x.outcome = "complete" <=> x.negatives = {}
<1>1. ASSUME NEW i \in Instance
      PROVE  CardinalityRefused(V, i) \subseteq FieldNegative
  <2>1. \A f \in Field :
          LET n == Refusal("one_multiple_instances", f, i, NoCand)
              m == Refusal("per_instance_multi", f, i, NoCand)
          IN  n \in FieldNegative /\ m \in FieldNegative
    BY RefusalType
  <2>2. QED
    BY <2>1 DEF CardinalityRefused
<1>2. \A v \in V : v.inst \in Instance
  BY DEF Validated
<1>3. QED
  BY <1>1, <1>2 DEF Resolve, InstanceOutcome, FieldNegative

\* The verdict on an instance is a verdict.
LEMMA ObjectVerdictType ==
  ASSUME NEW x \in InstanceOutcome
  PROVE  /\ ObjectVerdict(x) \in Verdict
         /\ InstanceFailure(x) \in Negative
         /\ InstanceFailure(x).kind = "instance_failure"
<1>1. {v.cand : v \in x.evidence} \in SUBSET Cand
  BY DEF InstanceOutcome, Validated
<1>2. ObjectVerdict(x) \in Verdict
  BY <1>1, Layer3Assumption DEF ObjectVerdict
<1>3. x.inst \in Instance /\ 0 \in FieldRef
  BY SpecAssumption DEF InstanceOutcome, FieldRef
<1>4. QED
  BY <1>2, <1>3 DEF InstanceFailure, Negative, Verdict

LEMMA Validate3Type ==
  ASSUME NEW X \in SUBSET InstanceOutcome
  PROVE  Validate3(X) \subseteq InstanceOutcome
<1>1. ASSUME NEW x \in X
      PROVE  [x EXCEPT !.outcome = "partial",
                       !.negatives = @ \cup {InstanceFailure(x)}]
               \in InstanceOutcome
  <2>1. InstanceFailure(x) \in Negative
    BY ObjectVerdictType
  <2>2. QED
    BY <2>1 DEF InstanceOutcome
<1>2. QED
  BY <1>1 DEF Validate3

-----------------------------------------------------------------------------
(* Type correctness                                                        *)

LEMMA InitType == Init => TypeOK
<1> SUFFICES ASSUME Init PROVE TypeOK
  OBVIOUS
<1>2. candidateSets \in [Field -> SUBSET Cand]
  BY DEF Init
<1>3. NoRepair \in Repair
  BY DEF NoRepair, Repair
<1>4. NoReport \in Report
  BY DEF NoReport, Report
<1>5. QED
  BY <1>2, <1>3, <1>4, SetupAssumption DEF Init, TypeOK

\* A unit of the plan selects, in the first pass or in a repair round.
LEMMA SelectionType ==
  ASSUME TypeOK, NEW f \in Field, NEW i \in Instance, NEW r \in 0..2,
         NEW d \in Decisions(f, i)
  PROVE  LET o == Observe(f, i, r, d)
         IN  /\ o \in Observation
             /\ Kept(o) \subseteq Validated
             /\ Refused(o) \subseteq FieldNegative
<1>1. d \in Decision
  BY DecisionType DEF TypeOK
<1>2. Observe(f, i, r, d) \in Observation
  BY <1>1, ObserveType
<1>3. QED
  BY <1>2, KeptType, RefusedType

LEMMA DocumentIsInstance == Document \in Instance
  BY DEF Instance

\* The first pass of a batch run, decision by decision.
LEMMA BatchType ==
  ASSUME TypeOK, SelectBatch
  PROVE  /\ observations' \subseteq Observation
         /\ validatedFields' \subseteq Validated
         /\ preResolverNegatives' \subseteq FieldNegative
<1>1. PICK d \in [Field -> UNION {Decisions(g, Document) : g \in Field}] :
        LET O == {Observe(f, Document, 0, d[f]) : f \in Field}
        IN  /\ observations' = O
            /\ validatedFields' = UNION {Kept(o) : o \in O}
            /\ preResolverNegatives' = UNION {Refused(o) : o \in O}
  BY DEF SelectBatch
<1> DEFINE O == {Observe(f, Document, 0, d[f]) : f \in Field}
<1>2. ASSUME NEW f \in Field
      PROVE  Observe(f, Document, 0, d[f]) \in Observation
  <2>1. PICK g \in Field : d[f] \in Decisions(g, Document)
    OBVIOUS
  <2>2. d[f] \in Decision
    BY <2>1, DecisionType, DocumentIsInstance DEF TypeOK
  <2>3. QED
    BY <2>2, ObserveType, DocumentIsInstance
<1>3. O \subseteq Observation
  BY <1>2
<1>4. \A o \in O : Kept(o) \subseteq Validated /\ Refused(o) \subseteq FieldNegative
  BY <1>3, KeptType, RefusedType
<1>5. QED
  BY <1>1, <1>3, <1>4

\* Every step keeps the type of every variable.
LEMMA NextType == TypeOK /\ [Next]_vars => TypeOK'
<1> SUFFICES ASSUME TypeOK, [Next]_vars PROVE TypeOK'
  OBVIOUS
<1>1. CASE Gate
  BY <1>1 DEF TypeOK, Gate
<1>2. CASE GenerateCandidates
  BY <1>2, DocumentIsInstance DEF TypeOK, GenerateCandidates, StartSelecting
<1>3. CASE Propose
  <2>1. InstanceCandidates \subseteq Instance
    BY DEF TypeOK, InstanceCandidates, Instance, Line
  <2>2. plan' \subseteq Instance /\ pending' \subseteq Field \X Instance
    BY <1>3, <2>1 DEF Propose, StartSelecting
  <2>3. QED
    BY <1>3, <2>2 DEF TypeOK, Propose, StartSelecting
<1>4. CASE ProposeRefused
  BY <1>4 DEF TypeOK, ProposeRefused, Raise
<1>5. CASE SelectOne
  <2> DEFINE Unit(u, d) ==
               LET o == Observe(u[1], u[2], 0, d)
               IN  /\ observations' = observations \cup {o}
                   /\ validatedFields' = validatedFields \cup Kept(o)
                   /\ preResolverNegatives' =
                        preResolverNegatives \cup Refused(o)
  <2>0. PICK u \in NextUnits :
          /\ \E d \in Decisions(u[1], u[2]) : Unit(u, d)
          /\ pending' = pending \ {u}
    BY <1>5 DEF SelectOne
  <2>1. PICK d \in Decisions(u[1], u[2]) : Unit(u, d)
    BY <2>0
  <2>2. u[1] \in Field /\ u[2] \in Instance
    BY DEF NextUnits, TypeOK
  <2>3. /\ observations' \subseteq Observation
        /\ validatedFields' \subseteq Validated
        /\ preResolverNegatives' \subseteq FieldNegative
    BY <2>1, <2>2, SelectionType DEF TypeOK
  <2>4. QED
    BY <1>5, <2>0, <2>3 DEF TypeOK, SelectOne
<1>6. CASE SelectBatch
  BY <1>6, BatchType DEF TypeOK, SelectBatch
<1>7. CASE SelectorFails
  BY <1>7 DEF TypeOK, SelectorFails, Raise
<1>8. CASE ResolveFirst
  <2>1. finalInstances' \subseteq InstanceOutcome
    BY <1>8, ResolveType DEF ResolveFirst, TypeOK
  <2>2. QED
    BY <1>8, <2>1 DEF TypeOK, ResolveFirst
<1>9. ASSUME NEW round \in 0..2, NEW fields \in SUBSET Field,
             StartRepair(round, fields),
             pc' \in {"layer3", "retry", "assemble"}
      PROVE  TypeOK'
  <2>1. repair' \in Repair
    BY <1>9 DEF StartRepair, Repair
  <2>2. QED
    BY <1>9, <2>1 DEF TypeOK, StartRepair
<1>10. CASE RepairFieldFailures
  <2>1. FailedFields \in SUBSET Field
    BY DEF FailedFields, TypeOK, FieldNegative
  <2>2. QED
    BY <1>9, <1>10, <2>1 DEF RepairFieldFailures
<1>11. CASE RepairLayer3
  <2>1. ImplicatedFields \in SUBSET Field
    BY DEF ImplicatedFields
  <2>2. QED
    BY <1>9, <1>11, <2>1 DEF RepairLayer3
<1>12. CASE RetryField
  <2> DEFINE Retry(f, d) ==
               LET o == Observe(f, Document, repair.round, d)
               IN  /\ observations' = observations \cup {o}
                   /\ repair' = [repair EXCEPT !.queue = @ \ {f},
                                               !.kept = @ \cup Kept(o),
                                               !.refused = @ \cup Refused(o)]
  <2>0. PICK f \in NextRetries :
          /\ \E d \in Decisions(f, Document) : Retry(f, d)
    BY <1>12 DEF RetryField
  <2>1. PICK d \in Decisions(f, Document) : Retry(f, d)
    BY <2>0
  <2>2. f \in Field /\ repair.round \in 0..2
    BY DEF NextRetries, TypeOK, Repair
  <2>3. LET o == Observe(f, Document, repair.round, d)
        IN  /\ o \in Observation
            /\ Kept(o) \subseteq Validated
            /\ Refused(o) \subseteq FieldNegative
    BY <2>2, SelectionType, DocumentIsInstance
  <2>4. observations' \subseteq Observation
    BY <2>1, <2>3 DEF TypeOK
  <2>5. repair' \in Repair
    BY <2>1, <2>3 DEF TypeOK, Repair
  <2>6. QED
    BY <1>12, <2>4, <2>5 DEF TypeOK, RetryField
<1>13. CASE FinishRepair
  <2> DEFINE V == Replaced(validatedFields, repair.fields, repair.kept)
  <2>1. V \subseteq Validated
    BY DEF TypeOK, Repair, Replaced
  <2>2. preResolverNegatives' \subseteq FieldNegative
    BY <1>13 DEF FinishRepair, TypeOK, Repair, Replaced
  <2>3. Resolve(V) \subseteq InstanceOutcome
    BY <2>1, ResolveType
  <2>4. layer3Instances' \subseteq InstanceOutcome
    BY <1>13, <2>3, Validate3Type DEF FinishRepair, AfterRepair, TypeOK
  <2>5. QED
    BY <1>13, <2>1, <2>2, <2>3, <2>4 DEF TypeOK, FinishRepair
<1>14. CASE ApplyLayer3
  <2>1. layer3Instances' \subseteq InstanceOutcome
    BY <1>14, Validate3Type DEF ApplyLayer3, TypeOK
  <2>2. QED
    BY <1>14, <2>1 DEF TypeOK, ApplyLayer3
<1>15. CASE AssembleFailed
  <2>1. result' \in Report
    BY <1>15 DEF AssembleFailed, Report, TypeOK, FieldNegative
  <2>2. QED
    BY <1>15, <2>1 DEF TypeOK, AssembleFailed
<1>16. CASE Assemble
  <2>1. Attached \subseteq InstanceOutcome
    <3>1. ASSUME NEW x \in layer3Instances
          PROVE  [x EXCEPT !.outcome = "partial",
                           !.negatives = @ \cup preResolverNegatives]
                   \in InstanceOutcome
      BY DEF TypeOK, InstanceOutcome, FieldNegative
    <3>2. QED
      BY <3>1 DEF Attached, TypeOK
  <2>2. RollUp(Attached) \in {"partial", "complete"}
    BY DEF RollUp
  <2>3. result' \in Report
    BY <1>16, <2>1, <2>2 DEF Assemble, Report, TypeOK
  <2>4. QED
    BY <1>16, <2>3 DEF TypeOK, Assemble
<1>17. CASE AssembleRefused
  BY <1>17 DEF TypeOK, AssembleRefused, Raise
<1>18. CASE BuildArtifact
  <2>1. artifact' \in Report
    BY <1>18 DEF BuildArtifact, ArtifactInstances, Report, TypeOK
  <2>2. QED
    BY <1>18, <2>1 DEF TypeOK, BuildArtifact
<1>19. CASE Finished \/ UNCHANGED vars
  BY <1>19 DEF Finished, TypeOK, vars
<1>20. QED
  BY <1>1, <1>2, <1>3, <1>4, <1>5, <1>6, <1>7, <1>8, <1>10, <1>11, <1>12,
     <1>13, <1>14, <1>15, <1>16, <1>17, <1>18, <1>19 DEF Next

\* Whatever the components answer, every variable keeps its type.
THEOREM TypeCorrect == Spec => []TypeOK
  BY InitType, NextType, PTL DEF Spec

-----------------------------------------------------------------------------
(* What the instances hold                                                 *)

\* the instances the run stands on: the resolver's, layer 3's, the report's
Held ==
  IF pc \in {"field_repair", "layer3"} THEN finalInstances
  ELSE IF pc \in {"object_repair", "assemble"} THEN layer3Instances
  ELSE IF Reported THEN result.instances
  ELSE {}

\* X holds evidence of V, a ONE field's for one instance
Sound(X, V) ==
  /\ \A x \in X : x.evidence \subseteq V
  /\ \A x, y \in X : \A v \in x.evidence, w \in y.evidence :
       v.field = w.field /\ FieldCard[v.field] = "one" => v.inst = w.inst

InstanceInv ==
  /\ Sound(Held, validatedFields)
  /\ pc \in {"field_repair", "layer3"} =>
       \A x \in finalInstances : x.negatives \subseteq FieldNegative
  /\ pc \notin {"field_repair", "layer3"} => \A x \in Held : Fresh(x)

LEMMA ResolveSound ==
  ASSUME NEW V \in SUBSET Validated
  PROVE  /\ Sound(Resolve(V), V)
         /\ \A x \in Resolve(V) : x.negatives \subseteq FieldNegative
<1>1. \A x \in Resolve(V) : \A v \in x.evidence : v \in V /\ ~Spread(V, v.field)
  BY DEF Resolve
<1>2. ASSUME NEW x \in Resolve(V), NEW y \in Resolve(V),
             NEW v \in x.evidence, NEW w \in y.evidence,
             v.field = w.field, FieldCard[v.field] = "one"
      PROVE  v.inst = w.inst
  <2>1. v \in V /\ w \in V /\ ~Spread(V, v.field)
    BY <1>1
  <2>2. QED
    BY <1>2, <2>1 DEF Spread
<1>3. QED
  BY <1>1, <1>2, ResolveType DEF Sound

\* Layer 3 leaves the evidence alone and marks exactly what fails.
LEMMA Validate3Sound ==
  ASSUME NEW X \in SUBSET InstanceOutcome, NEW V, Sound(X, V),
         \A x \in X : x.negatives \subseteq FieldNegative
  PROVE  /\ Sound(Validate3(X), V)
         /\ \A x \in Validate3(X) : Fresh(x)
<1> DEFINE marked(x) == [x EXCEPT !.outcome = "partial",
                                  !.negatives = @ \cup {InstanceFailure(x)}]
<1>1. ASSUME NEW x \in X
      PROVE  /\ marked(x).evidence = x.evidence
             /\ ObjectVerdict(marked(x)) = ObjectVerdict(x)
             /\ \E n \in marked(x).negatives : n.kind = "instance_failure"
             /\ ~\E n \in x.negatives : n.kind = "instance_failure"
  <2>1. /\ marked(x).evidence = x.evidence
        /\ marked(x).negatives = x.negatives \cup {InstanceFailure(x)}
    BY DEF InstanceOutcome
  <2>2. InstanceFailure(x).kind = "instance_failure"
    BY DEF InstanceFailure
  <2>3. QED
    BY <2>1, <2>2 DEF ObjectVerdict, FieldNegative
<1>2. \A y \in Validate3(X) : \E x \in X : y.evidence = x.evidence
  BY <1>1 DEF Validate3
<1>3. Sound(Validate3(X), V)
  BY <1>2 DEF Sound
<1>4. ASSUME NEW y \in Validate3(X)
      PROVE  Fresh(y)
  <2>1. PICK x \in X : y = IF ObjectVerdict(x).fails THEN marked(x) ELSE x
    BY DEF Validate3
  <2>2. QED
    BY <1>1, <2>1 DEF Fresh
<1>5. QED
  BY <1>3, <1>4

\* Attaching field negatives changes neither evidence nor object failures.
LEMMA AttachedSound ==
  ASSUME TypeOK, NEW V, Sound(layer3Instances, V),
         \A x \in layer3Instances : Fresh(x)
  PROVE  Sound(Attached, V) /\ \A x \in Attached : Fresh(x)
<1> DEFINE attached(x) == [x EXCEPT !.outcome = "partial",
                                    !.negatives = @ \cup preResolverNegatives]
<1>1. ASSUME NEW x \in layer3Instances
      PROVE  attached(x).evidence = x.evidence /\ Fresh(attached(x))
  <2>1. /\ attached(x).evidence = x.evidence
        /\ attached(x).negatives = x.negatives \cup preResolverNegatives
    BY DEF InstanceOutcome, TypeOK
  <2>2. \A n \in preResolverNegatives : n.kind # "instance_failure"
    BY DEF TypeOK, FieldNegative
  <2>3. QED
    BY <2>1, <2>2 DEF Fresh, ObjectVerdict
<1>2. \A y \in Attached : \E x \in layer3Instances : y.evidence = x.evidence
  BY <1>1 DEF Attached
<1>3. Sound(Attached, V)
  BY <1>2 DEF Sound
<1>4. \A y \in Attached : Fresh(y)
  BY <1>1 DEF Attached
<1>5. QED
  BY <1>3, <1>4

LEMMA InstanceStep == TypeOK /\ InstanceInv /\ [Next]_vars => InstanceInv'
<1> SUFFICES ASSUME TypeOK, InstanceInv, [Next]_vars PROVE InstanceInv'
  OBVIOUS
<1> USE DEF Held, Reported
<1>0. ASSUME Held' = {}, pc' \notin {"field_repair", "layer3"}
      PROVE  InstanceInv'
  BY <1>0 DEF InstanceInv, Sound
<1>1. CASE Gate \/ GenerateCandidates \/ Propose \/ ProposeRefused
             \/ SelectOne \/ SelectBatch \/ SelectorFails \/ RetryField
             \/ AssembleRefused
  BY <1>0, <1>1 DEF Gate, GenerateCandidates, StartSelecting, Propose,
     ProposeRefused, SelectOne, SelectBatch, SelectorFails, RetryField,
     AssembleRefused, Raise
<1>2. CASE ResolveFirst
  <2>1. /\ Sound(Resolve(validatedFields), validatedFields)
        /\ \A x \in Resolve(validatedFields) :
             x.negatives \subseteq FieldNegative
    BY ResolveSound DEF TypeOK
  <2>2. QED
    BY <1>2, <2>1 DEF ResolveFirst, InstanceInv
<1>3. CASE RepairFieldFailures
  BY <1>0, <1>3 DEF RepairFieldFailures, StartRepair, InstanceInv, Sound
<1>4. CASE RepairLayer3
  BY <1>0, <1>4 DEF RepairLayer3, StartRepair, InstanceInv, Sound, Fresh
<1>5. CASE FinishRepair
  <2> DEFINE V == Replaced(validatedFields, repair.fields, repair.kept)
  <2>1. V \in SUBSET Validated
    BY DEF Replaced, TypeOK, Repair
  <2>2. /\ Sound(Resolve(V), V)
        /\ \A x \in Resolve(V) : x.negatives \subseteq FieldNegative
    BY <2>1, ResolveSound
  <2>3. Resolve(V) \in SUBSET InstanceOutcome
    BY <2>1, ResolveType
  <2>4. Sound(Validate3(Resolve(V)), V)
          /\ \A x \in Validate3(Resolve(V)) : Fresh(x)
    BY <2>2, <2>3, Validate3Sound
  <2>5. CASE repair.round = 1
    BY <1>5, <2>2, <2>5 DEF FinishRepair, InstanceInv
  <2>6. CASE repair.round # 1
    BY <1>5, <2>4, <2>6 DEF FinishRepair, AfterRepair, InstanceInv
  <2>7. QED
    BY <2>5, <2>6
<1>6. CASE ApplyLayer3
  <2>1. Sound(Validate3(finalInstances), validatedFields)
          /\ \A x \in Validate3(finalInstances) : Fresh(x)
    BY <1>6, Validate3Sound DEF ApplyLayer3, InstanceInv, TypeOK
  <2>2. QED
    BY <1>6, <2>1 DEF ApplyLayer3, InstanceInv
<1>7. CASE AssembleFailed
  BY <1>7 DEF AssembleFailed, InstanceInv, Sound
<1>8. CASE Assemble
  <2>1. Sound(Attached, validatedFields) /\ \A x \in Attached : Fresh(x)
    BY <1>8, AttachedSound DEF Assemble, InstanceInv
  <2>2. QED
    BY <1>8, <2>1 DEF Assemble, InstanceInv
<1>9. CASE BuildArtifact
  BY <1>9 DEF BuildArtifact, InstanceInv
<1>10. CASE Finished \/ UNCHANGED vars
  BY <1>10 DEF Finished, vars, InstanceInv, Sound
<1>11. QED
  BY <1>1, <1>2, <1>3, <1>4, <1>5, <1>6, <1>7, <1>8, <1>9, <1>10 DEF Next

LEMMA InitInstances == Init => InstanceInv
  BY DEF Init, InstanceInv, Held, Reported, Sound

\* A reported instance carries an object failure iff its evidence fails.
THEOREM ObjectVerdictsAreFresh == Spec => []Layer3IsFresh
<1>1. InstanceInv => Layer3IsFresh
  BY DEF InstanceInv, Layer3IsFresh, Held, Reported
<1>2. QED
  BY <1>1, InitType, NextType, InitInstances, InstanceStep, PTL DEF Spec

\* No document-level field is reported in two instances.
THEOREM OneInstancePerDocumentField == Spec => []OneFieldOneInstance
<1>1. InstanceInv => OneFieldOneInstance
  BY DEF InstanceInv, OneFieldOneInstance, Held, Reported, Sound,
         ReportedEvidence
<1>2. QED
  BY <1>1, InitType, NextType, InitInstances, InstanceStep, PTL DEF Spec

-----------------------------------------------------------------------------
(* Where the evidence comes from                                           *)

\* v is what validation kept of the last observation of its unit
Backed(v) == \E o \in observations : IsLatest(o) /\ v \in Kept(o)

\* the fields the round under way has already retried
Retried == IF pc = "retry" THEN repair.fields \ repair.queue ELSE {}

RoundInv ==
  /\ \A o \in observations : o.round <= repair.round
  /\ pc \in {"gate", "generate", "propose", "select", "field_repair"} =>
       repair.round = 0
  /\ pc \in {"layer3", "object_repair"} => repair.round <= 1
  /\ repair.queue \subseteq repair.fields

\* While a round is under way its fields have their old values in
\* validatedFields and the new ones in repair.kept.
BackedInv ==
  /\ pc # "raised" =>
       \A v \in validatedFields : v.field \in Retried \/ Backed(v)
  /\ pc = "retry" =>
       /\ \A k \in repair.kept : k.field \in Retried /\ Backed(k)
       /\ \A n \in repair.refused : n.field \in repair.fields

LEMMA RoundStep == TypeOK /\ RoundInv /\ [Next]_vars => RoundInv'
<1> SUFFICES ASSUME TypeOK, RoundInv, [Next]_vars PROVE RoundInv'
  OBVIOUS
<1> USE DEF RoundInv
<1>1. CASE Gate \/ GenerateCandidates \/ Propose \/ ProposeRefused
             \/ ResolveFirst \/ SelectorFails
  BY <1>1 DEF Gate, GenerateCandidates, StartSelecting, Propose,
     ProposeRefused, ResolveFirst, SelectorFails, Raise
<1>2. CASE SelectOne
  <2>1. PICK u \in NextUnits :
          \E d \in Decisions(u[1], u[2]) :
            observations' = observations \cup {Observe(u[1], u[2], 0, d)}
    BY <1>2 DEF SelectOne
  <2>2. \A o \in observations' : o.round <= 0
    BY <1>2, <2>1 DEF SelectOne, Observe
  <2>3. QED
    BY <1>2, <2>2 DEF SelectOne
<1>3. CASE SelectBatch
  <2>1. \A o \in observations' : o.round = 0
    BY <1>3 DEF SelectBatch, Observe
  <2>2. QED
    BY <1>3, <2>1 DEF SelectBatch
<1>4. CASE RepairFieldFailures
  BY <1>4 DEF RepairFieldFailures, StartRepair, TypeOK, Observation
<1>5. CASE RepairLayer3
  BY <1>5 DEF RepairLayer3, StartRepair, TypeOK, Observation
<1>6. CASE RetryField
  <2>1. PICK f \in NextRetries :
          \E d \in Decisions(f, Document) :
            /\ observations' = observations
                                 \cup {Observe(f, Document, repair.round, d)}
            /\ repair'.round = repair.round
            /\ repair'.fields = repair.fields
            /\ repair'.queue = repair.queue \ {f}
    BY <1>6 DEF RetryField, TypeOK, Repair
  <2>2. repair.round \in 0..2
    BY DEF TypeOK, Repair
  <2>3. \A o \in observations' : o.round <= repair.round
    BY <2>1, <2>2 DEF Observe
  <2>4. QED
    BY <1>6, <2>1, <2>3 DEF RetryField
<1>7. CASE FinishRepair \/ ApplyLayer3 \/ AssembleFailed \/ Assemble
             \/ AssembleRefused \/ BuildArtifact
  BY <1>7 DEF FinishRepair, ApplyLayer3, AssembleFailed, Assemble,
     AssembleRefused, BuildArtifact, Raise, TypeOK, Repair
<1>8. CASE Finished \/ UNCHANGED vars
  BY <1>8 DEF Finished, vars
<1>9. QED
  BY <1>1, <1>2, <1>3, <1>4, <1>5, <1>6, <1>7, <1>8 DEF Next

\* A new observation backs what is kept of it when no earlier one is of a later
\* round, and leaves the values of other units backed; of its own unit too when
\* it is of the first pass.
LEMMA ObservationBacks ==
  ASSUME observations \subseteq Observation, NEW o \in Observation,
         observations' = observations \cup {o},
         \A p \in observations : p.round <= o.round
  PROVE  /\ \A v \in Kept(o) : Backed(v)'
         /\ \A v \in Validated :
              Backed(v) /\ (v.field # o.field \/ o.round = 0) => Backed(v)'
<1>1. IsLatest(o)'
  BY DEF IsLatest, Observation
<1>2. \A v \in Kept(o) : Backed(v)'
  BY <1>1 DEF Backed, IsLatest
<1>3. ASSUME NEW v \in Validated, Backed(v),
             v.field # o.field \/ o.round = 0
      PROVE  Backed(v)'
  <2>1. PICK p \in observations : IsLatest(p) /\ v \in Kept(p)
    BY <1>3 DEF Backed
  <2>2. p.field = v.field /\ p.round \in 0..2
    BY <2>1, KeptType DEF Observation
  <2>3. IsLatest(p)'
    BY <1>3, <2>1, <2>2 DEF IsLatest, Observation
  <2>4. QED
    BY <2>1, <2>3 DEF Backed
<1>4. QED
  BY <1>2, <1>3

LEMMA SameObservationsBack ==
  ASSUME UNCHANGED observations
  PROVE  \A v : Backed(v) <=> Backed(v)'
BY DEF Backed, IsLatest

LEMMA BackedStep ==
  TypeOK /\ RoundInv /\ BackedInv /\ [Next]_vars => BackedInv'
<1> SUFFICES ASSUME TypeOK, RoundInv, BackedInv, [Next]_vars PROVE BackedInv'
  OBVIOUS
<1>1. ASSUME UNCHANGED <<observations, validatedFields>>,
             pc # "raised", pc # "retry", pc' # "retry"
      PROVE  BackedInv'
  BY <1>1, SameObservationsBack DEF BackedInv, Retried
<1>2. CASE Gate \/ GenerateCandidates \/ Propose \/ ResolveFirst
             \/ ApplyLayer3 \/ AssembleFailed \/ Assemble \/ BuildArtifact
  BY <1>1, <1>2 DEF Gate, GenerateCandidates, StartSelecting, Propose,
     ResolveFirst, ApplyLayer3, AssembleFailed, Assemble, BuildArtifact
<1>3. CASE ProposeRefused \/ SelectorFails \/ AssembleRefused
  BY <1>3 DEF ProposeRefused, SelectorFails, AssembleRefused, Raise,
     BackedInv
<1>4. CASE SelectOne
  <2>1. PICK u \in NextUnits :
          \E d \in Decisions(u[1], u[2]) :
            LET o == Observe(u[1], u[2], 0, d)
            IN  /\ observations' = observations \cup {o}
                /\ validatedFields' = validatedFields \cup Kept(o)
    BY <1>4 DEF SelectOne
  <2>2. PICK d \in Decisions(u[1], u[2]) :
          LET o == Observe(u[1], u[2], 0, d)
          IN  /\ observations' = observations \cup {o}
              /\ validatedFields' = validatedFields \cup Kept(o)
    BY <2>1
  <2> DEFINE o == Observe(u[1], u[2], 0, d)
  <2>3. u[1] \in Field /\ u[2] \in Instance
    BY DEF NextUnits, TypeOK
  <2>4. o \in Observation /\ o.round = 0
    BY <2>3, SelectionType DEF Observe
  <2>5. \A p \in observations : p.round <= o.round
    BY <1>4, <2>4 DEF RoundInv, SelectOne
  <2> HIDE DEF o
  <2>6. \A v \in validatedFields' : Backed(v)'
    <3>1. \A v \in validatedFields : Backed(v) /\ v \in Validated
      BY <1>4 DEF SelectOne, BackedInv, Retried, TypeOK
    <3>2. observations' = observations \cup {o}
          /\ validatedFields' = validatedFields \cup Kept(o)
      BY <2>2 DEF o
    <3>3. QED
      BY <2>4, <2>5, <3>1, <3>2, ObservationBacks DEF TypeOK
  <2>7. QED
    BY <1>4, <2>6 DEF SelectOne, BackedInv
<1>5. CASE SelectBatch
  <2>1. PICK O :
          /\ observations' = O
          /\ validatedFields' = UNION {Kept(o) : o \in O}
          /\ \A o \in O : o.round = 0
    BY <1>5 DEF SelectBatch, Observe
  <2>2. \A o \in O : IsLatest(o)'
    BY <2>1 DEF IsLatest
  <2>3. \A v \in validatedFields' : Backed(v)'
    BY <2>1, <2>2 DEF Backed
  <2>4. QED
    BY <1>5, <2>3 DEF SelectBatch, BackedInv
<1>6. CASE RepairFieldFailures \/ RepairLayer3
  <2>1. pc # "raised" /\ Retried = {} /\ Retried' = {}
    BY <1>6 DEF RepairFieldFailures, RepairLayer3, StartRepair, Retried
  <2>2. QED
    BY <1>6, <2>1, SameObservationsBack DEF BackedInv, RepairFieldFailures,
       RepairLayer3, StartRepair
<1>7. CASE RetryField
  <2>1. PICK f \in NextRetries :
          \E d \in Decisions(f, Document) :
            LET o == Observe(f, Document, repair.round, d)
            IN  /\ observations' = observations \cup {o}
                /\ repair' = [repair EXCEPT !.queue = @ \ {f},
                                            !.kept = @ \cup Kept(o),
                                            !.refused = @ \cup Refused(o)]
    BY <1>7 DEF RetryField
  <2>2. PICK d \in Decisions(f, Document) :
          LET o == Observe(f, Document, repair.round, d)
          IN  /\ observations' = observations \cup {o}
              /\ repair' = [repair EXCEPT !.queue = @ \ {f},
                                          !.kept = @ \cup Kept(o),
                                          !.refused = @ \cup Refused(o)]
    BY <2>1
  <2> DEFINE o == Observe(f, Document, repair.round, d)
  <2>3. /\ f \in repair.queue /\ f \in Field /\ f \in repair.fields
        /\ repair.round \in 0..2
    BY DEF NextRetries, TypeOK, Repair, RoundInv
  <2>4. o \in Observation /\ o.round = repair.round /\ o.field = f
    BY <2>3, SelectionType, DocumentIsInstance DEF Observe
  <2>5. /\ observations' = observations \cup {o}
        /\ repair'.queue = repair.queue \ {f}
        /\ repair'.kept = repair.kept \cup Kept(o)
        /\ repair'.refused = repair.refused \cup Refused(o)
        /\ repair'.fields = repair.fields
    BY <2>2 DEF TypeOK, Repair
  <2> HIDE DEF o
  <2>6. /\ \A v \in Kept(o) : Backed(v)'
        /\ \A v \in Validated : Backed(v) /\ v.field # f => Backed(v)'
    BY <2>4, <2>5, ObservationBacks DEF TypeOK, RoundInv
  <2>7. pc = "retry" /\ pc' = "retry" /\ validatedFields' = validatedFields
    BY <1>7 DEF RetryField
  <2>8. Retried' = Retried \cup {f} /\ f \notin Retried
    BY <2>3, <2>5, <2>7 DEF Retried
  <2>9. \A v \in validatedFields' : v.field \in Retried' \/ Backed(v)'
    BY <2>6, <2>7, <2>8 DEF BackedInv, TypeOK
  <2>10. \A k \in repair'.kept : k.field \in Retried' /\ Backed(k)'
    <3>1. \A k \in Kept(o) : k.field = f
      BY <2>4, KeptType
    <3>2. \A k \in repair.kept : k \in Validated
      BY DEF TypeOK, Repair
    <3>3. \A k \in repair.kept : k.field \in Retried /\ Backed(k)
      BY <2>7 DEF BackedInv
    <3>4. QED
      BY <2>5, <2>6, <2>8, <3>1, <3>2, <3>3
  <2>11. \A n \in repair'.refused : n.field \in repair'.fields
    <3>1. \A n \in Refused(o) : n.field = f
      BY <2>4, RefusedType
    <3>2. QED
      BY <2>3, <2>5, <2>7, <3>1 DEF BackedInv
  <2>12. QED
    BY <2>9, <2>10, <2>11 DEF BackedInv
<1>8. CASE FinishRepair
  <2>1. \A v \in validatedFields' : Backed(v)
    BY <1>8 DEF FinishRepair, Replaced, BackedInv, Retried
  <2>2. \A v \in validatedFields' : Backed(v)'
    BY <1>8, <2>1, SameObservationsBack DEF FinishRepair
  <2>3. QED
    BY <1>8, <2>2 DEF FinishRepair, BackedInv
<1>9. CASE Finished \/ UNCHANGED vars
  BY <1>9, SameObservationsBack DEF Finished, vars, BackedInv, Retried
<1>10. QED
  BY <1>2, <1>3, <1>4, <1>5, <1>6, <1>7, <1>8, <1>9 DEF Next

LEMMA InitBacked == Init => RoundInv /\ BackedInv
  BY DEF Init, RoundInv, BackedInv, Retried, NoRepair

\* Evidence comes from the last observation of its unit.
THEOREM ReportedEvidenceIsCurrent == Spec => []EvidenceIsCurrent
<1>1. ASSUME TypeOK, InstanceInv, BackedInv PROVE EvidenceIsCurrent
  <2> SUFFICES ASSUME Reported, NEW v \in ReportedEvidence
               PROVE  /\ v.cand \notin Layer1Bad \cup Layer2Bad
                      /\ \E o \in observations :
                           /\ IsLatest(o)
                           /\ o.field = v.field /\ o.inst = v.inst
                           /\ o.outcome = "selected" /\ v.cand \in o.ids
    BY DEF EvidenceIsCurrent
  <2>1. v \in validatedFields
    BY <1>1 DEF ReportedEvidence, InstanceInv, Sound, Held, Reported
  <2>2. Backed(v)
    BY <1>1, <2>1 DEF BackedInv, Retried, Reported
  <2>3. PICK o \in observations : IsLatest(o) /\ v \in Kept(o)
    BY <2>2 DEF Backed
  <2>4. o \in Observation
    BY <1>1, <2>3 DEF TypeOK
  <2>5. QED
    BY <2>3, <2>4, KeptType
<1>2. QED
  BY <1>1, InitType, NextType, InitInstances, InstanceStep, InitBacked,
     RoundStep, BackedStep, PTL DEF Spec

\* A repair round disturbs only the fields it was asked to retry.
THEOREM RepairsAreConfined == Spec => RepairIsConfined
<1>1. ASSUME TypeOK, BackedInv, [Next]_vars PROVE [RepairConfined]_vars
  <2>1. SUFFICES ASSUME pc = "retry", pc' \in {"layer3", "assemble"}
                 PROVE  RepairConfined
    BY DEF RepairConfined
  <2>2. FinishRepair
    BY <1>1, <2>1 DEF Next, Gate, GenerateCandidates, StartSelecting, Propose,
       ProposeRefused, SelectOne, SelectBatch, SelectorFails, ResolveFirst,
       RepairFieldFailures, RetryField, ApplyLayer3, RepairLayer3,
       AssembleFailed, Assemble, AssembleRefused, BuildArtifact, Finished,
       Raise, vars
  <2>3. /\ \A k \in repair.kept : k.field \in repair.fields
        /\ \A n \in repair.refused : n.field \in repair.fields
    BY <1>1, <2>1 DEF BackedInv, Retried
  <2>4. QED
    BY <2>2, <2>3 DEF FinishRepair, Replaced, RepairConfined
<1>2. QED
  BY <1>1, InitType, NextType, InitBacked, RoundStep, BackedStep, PTL
     DEF Spec, RepairIsConfined

(***************************************************************************)
(* What the report of a run tells about everything the run decided: where  *)
(* each decision of a selector is accounted for at every step, and how the *)
(* report and the replay artifact follow from what is accounted for.       *)
(***************************************************************************)
-----------------------------------------------------------------------------
(* The shape of a run                                                      *)

BeforeSelection == {"gate", "rejected", "generate", "propose"}

\* The gate lets repair and batch selection through for one instance only, and
\* what comes after the first pass finds no unit pending.
PlanInv ==
  /\ pc \notin {"gate", "rejected"} => Supported
  /\ pc = "propose" => setup.many
  /\ pc \in BeforeSelection => observations = {}
  /\ pc \notin BeforeSelection \cup {"raised"} /\ ~setup.many =>
       plan = {Document}
  /\ pc \in {"field_repair", "retry", "object_repair"} => RepairEnabled
  /\ pc \notin BeforeSelection \cup {"select", "raised"} => pending = {}

LEMMA InitPlan == Init => PlanInv
  BY DEF Init, PlanInv, BeforeSelection

LEMMA PlanStep == TypeOK /\ PlanInv /\ [Next]_vars => PlanInv'
<1> SUFFICES ASSUME TypeOK, PlanInv, [Next]_vars PROVE PlanInv'
  OBVIOUS
<1> USE DEF PlanInv, BeforeSelection
<1>1. ASSUME UNCHANGED setup
      PROVE  (Supported <=> Supported') /\ (RepairEnabled <=> RepairEnabled')
  BY <1>1 DEF Supported, RepairEnabled
<1>2. CASE Gate
  BY <1>1, <1>2 DEF Gate
<1>3. CASE GenerateCandidates \/ Propose \/ ProposeRefused
  BY <1>1, <1>3 DEF GenerateCandidates, StartSelecting, Propose,
     ProposeRefused, Raise
<1>4. CASE SelectOne
  BY <1>1, <1>4 DEF SelectOne
<1>5. CASE SelectBatch
  BY <1>1, <1>5 DEF SelectBatch
<1>6. CASE SelectorFails
  BY <1>1, <1>6 DEF SelectorFails, Raise
<1>7. CASE ResolveFirst
  BY <1>1, <1>7 DEF ResolveFirst
<1>8. CASE RepairFieldFailures \/ RepairLayer3
  BY <1>1, <1>8 DEF RepairFieldFailures, RepairLayer3, StartRepair
<1>9. CASE RetryField
  BY <1>1, <1>9 DEF RetryField
<1>10. CASE FinishRepair \/ ApplyLayer3
  BY <1>1, <1>10 DEF FinishRepair, ApplyLayer3
<1>11. CASE AssembleFailed \/ Assemble \/ AssembleRefused \/ BuildArtifact
  BY <1>1, <1>11 DEF AssembleFailed, Assemble, AssembleRefused, Raise,
     BuildArtifact
<1>12. CASE Finished \/ UNCHANGED vars
  BY <1>1, <1>12 DEF Finished, vars
<1>13. QED
  BY <1>2, <1>3, <1>4, <1>5, <1>6, <1>7, <1>8, <1>9, <1>10, <1>11, <1>12
     DEF Next

\* A run that selects in batches or repairs has one instance, the document.
LEMMA OneDocument ==
  ASSUME PlanInv, pc \notin BeforeSelection \cup {"raised"},
         setup.strategy = "batch" \/ RepairEnabled
  PROVE  plan = {Document}
  BY DEF PlanInv, Supported, BeforeSelection

-----------------------------------------------------------------------------
(* One observation of a unit in a round                                    *)

\* no unit is asked twice in a round
UniqueInv ==
  /\ \A o, p \in observations :
       o.field = p.field /\ o.inst = p.inst /\ o.round = p.round => o = p
  /\ pc = "select" =>
       \A o \in observations : <<o.field, o.inst>> \notin pending
  /\ pc = "retry" =>
       \A o \in observations :
         o.round = repair.round => o.field \notin repair.queue

LEMMA InitUnique == Init => UniqueInv
  BY DEF Init, UniqueInv

LEMMA UniqueStep ==
  TypeOK /\ RoundInv /\ PlanInv /\ UniqueInv /\ [Next]_vars => UniqueInv'
<1> SUFFICES ASSUME TypeOK, RoundInv, PlanInv, UniqueInv, [Next]_vars
             PROVE  UniqueInv'
  OBVIOUS
<1>1. CASE Gate \/ GenerateCandidates \/ Propose \/ ProposeRefused
  BY <1>1 DEF Gate, GenerateCandidates, StartSelecting, Propose,
     ProposeRefused, Raise, PlanInv, BeforeSelection, UniqueInv
<1>2. CASE SelectOne
  <2>1. PICK u \in NextUnits :
          /\ \E d \in Decisions(u[1], u[2]) :
               observations' = observations \cup {Observe(u[1], u[2], 0, d)}
          /\ pending' = pending \ {u}
    BY <1>2 DEF SelectOne
  <2>2. PICK d \in Decisions(u[1], u[2]) :
          observations' = observations \cup {Observe(u[1], u[2], 0, d)}
    BY <2>1
  <2> DEFINE o == Observe(u[1], u[2], 0, d)
  <2>3. u = <<u[1], u[2]>> /\ u \in pending
    BY DEF NextUnits, TypeOK
  <2>4. o.field = u[1] /\ o.inst = u[2]
    BY DEF Observe
  <2> HIDE DEF o
  <2>5. \A p \in observations : <<p.field, p.inst>> # u
    BY <1>2, <2>3 DEF SelectOne, UniqueInv
  <2>6. observations' = observations \cup {o}
    BY <2>2 DEF o
  <2>7. \A p \in observations' : <<p.field, p.inst>> \notin pending'
    BY <1>2, <2>1, <2>3, <2>4, <2>6 DEF SelectOne, UniqueInv
  <2>8. \A p, q \in observations' :
          p.field = q.field /\ p.inst = q.inst /\ p.round = q.round => p = q
    BY <2>3, <2>4, <2>5, <2>6 DEF UniqueInv
  <2>9. QED
    BY <1>2, <2>7, <2>8 DEF SelectOne, UniqueInv
<1>3. CASE SelectBatch
  <2>1. PICK d \in [Field -> UNION {Decisions(f, Document) : f \in Field}] :
          observations' = {Observe(f, Document, 0, d[f]) : f \in Field}
    BY <1>3 DEF SelectBatch
  <2>2. \A p \in observations' : p = Observe(p.field, Document, 0, d[p.field])
    BY <2>1 DEF Observe
  <2>3. \A p, q \in observations' : p.field = q.field => p = q
    BY <2>2
  <2>4. QED
    BY <1>3, <2>3 DEF SelectBatch, UniqueInv
<1>4. CASE SelectorFails \/ ResolveFirst
  BY <1>4 DEF SelectorFails, Raise, ResolveFirst, UniqueInv
<1>5. CASE RepairFieldFailures \/ RepairLayer3
  <2>1. \A o \in observations : o.round \in 0..2 /\ o.round <= repair.round
    BY DEF TypeOK, Observation, RoundInv
  <2>2. /\ UNCHANGED observations
        /\ pc' # "select"
        /\ repair.round < repair'.round
    BY <1>5 DEF RepairFieldFailures, RepairLayer3, StartRepair, RoundInv,
       TypeOK, Repair
  <2>3. repair.round \in 0..2
    BY DEF TypeOK, Repair
  <2>4. \A o \in observations : o.round # repair'.round
    BY <2>1, <2>2, <2>3
  <2>5. QED
    BY <2>2, <2>4 DEF UniqueInv
<1>6. CASE RetryField
  <2>1. PICK f \in NextRetries :
          \E d \in Decisions(f, Document) :
            /\ observations' = observations
                                 \cup {Observe(f, Document, repair.round, d)}
            /\ repair'.round = repair.round
            /\ repair'.queue = repair.queue \ {f}
    BY <1>6 DEF RetryField, TypeOK, Repair
  <2>2. PICK d \in Decisions(f, Document) :
          observations' = observations
                            \cup {Observe(f, Document, repair.round, d)}
    BY <2>1
  <2> DEFINE o == Observe(f, Document, repair.round, d)
  <2>3. o.field = f /\ o.round = repair.round
    BY DEF Observe
  <2>4. observations' = observations \cup {o}
    BY <2>2
  <2> HIDE DEF o
  <2>5. f \in repair.queue
    BY DEF NextRetries
  <2>6. \A p \in observations : p.round = repair.round => p.field # f
    BY <1>6, <2>5 DEF RetryField, UniqueInv
  <2>7. \A p, q \in observations' :
          p.field = q.field /\ p.inst = q.inst /\ p.round = q.round => p = q
    BY <2>3, <2>4, <2>6 DEF UniqueInv
  <2>8. \A p \in observations' :
          p.round = repair'.round => p.field \notin repair'.queue
    BY <1>6, <2>1, <2>3, <2>4 DEF RetryField, UniqueInv
  <2>9. QED
    BY <1>6, <2>7, <2>8 DEF RetryField, UniqueInv
<1>7. CASE FinishRepair \/ ApplyLayer3 \/ AssembleFailed \/ Assemble
             \/ AssembleRefused \/ BuildArtifact
  BY <1>7 DEF FinishRepair, ApplyLayer3, AssembleFailed, Assemble,
     AssembleRefused, BuildArtifact, Raise, UniqueInv
<1>8. CASE Finished \/ UNCHANGED vars
  BY <1>8 DEF Finished, vars, UniqueInv
<1>9. QED
  BY <1>1, <1>2, <1>3, <1>4, <1>5, <1>6, <1>7, <1>8 DEF Next

-----------------------------------------------------------------------------
(* Every decision is accounted for                                         *)

\* what was kept and what was refused of an observation stand where the next
\* resolution will find them: with the run, or with the round under way
Accounted(o) ==
  /\ Kept(o) \subseteq (IF o.field \in Retried THEN repair.kept
                                               ELSE validatedFields)
  /\ Refused(o) \subseteq (IF o.field \in Retried THEN repair.refused
                                                  ELSE preResolverNegatives)

\* the last word on a unit is accounted for
Settled(f, i) ==
  \E o \in observations :
    IsLatest(o) /\ o.field = f /\ o.inst = i /\ Accounted(o)

CoverInv ==
  pc \notin BeforeSelection \cup {"raised"} =>
    \A f \in Field, i \in plan : <<f, i>> \in pending \/ Settled(f, i)

LEMMA InitCover == Init => CoverInv
  BY DEF Init, CoverInv, BeforeSelection

\* A step that leaves the observations alone and loses nothing of what a field
\* kept and refused leaves every unit settled.
LEMMA SettledStays ==
  ASSUME UNCHANGED observations,
         NEW f \in Field, NEW i, Settled(f, i), TypeOK,
         \A v \in Validated :
           /\ v.field = f
           /\ v \in (IF f \in Retried THEN repair.kept ELSE validatedFields)
           => v \in (IF f \in Retried THEN repair.kept ELSE validatedFields)',
         \A n \in FieldNegative :
           /\ n.field = f
           /\ n \in (IF f \in Retried THEN repair.refused
                                      ELSE preResolverNegatives)
           => n \in (IF f \in Retried THEN repair.refused
                                      ELSE preResolverNegatives)'
  PROVE  Settled(f, i)'
<1>1. PICK o \in observations :
        IsLatest(o) /\ o.field = f /\ o.inst = i /\ Accounted(o)
  BY DEF Settled
<1>2. o \in Observation
  BY DEF TypeOK
<1>3. \A v \in Kept(o) : v \in Validated /\ v.field = f
  BY <1>1, <1>2, KeptType
<1>4. \A n \in Refused(o) : n \in FieldNegative /\ n.field = f
  BY <1>1, <1>2, RefusedType
<1>5. IsLatest(o)'
  BY <1>1 DEF IsLatest
<1>6. Kept(o) \subseteq (IF f \in Retried THEN repair.kept
                                          ELSE validatedFields)'
  BY <1>1, <1>3 DEF Accounted
<1>7. Refused(o) \subseteq (IF f \in Retried THEN repair.refused
                                             ELSE preResolverNegatives)'
  BY <1>1, <1>4 DEF Accounted
<1>8. Accounted(o)'
  BY <1>1, <1>6, <1>7 DEF Accounted
<1>9. QED
  BY <1>1, <1>5, <1>8 DEF Settled

\* A new observation, of no earlier round than any other, is the last of its
\* unit, and the last of any other unit remains so.
LEMMA NewObservationIsLatest ==
  ASSUME observations \subseteq Observation, NEW o \in Observation,
         observations' = observations \cup {o},
         \A p \in observations : p.round <= o.round
  PROVE  /\ IsLatest(o)'
         /\ \A p \in observations :
              /\ IsLatest(p)
              /\ p.field # o.field \/ p.inst # o.inst
              => IsLatest(p)'
  BY DEF IsLatest, Observation

LEMMA CoverStep ==
  TypeOK /\ RoundInv /\ PlanInv /\ CoverInv /\ [Next]_vars => CoverInv'
<1> SUFFICES ASSUME TypeOK, RoundInv, PlanInv, CoverInv, [Next]_vars
             PROVE  CoverInv'
  OBVIOUS
<1>1. ASSUME UNCHANGED <<observations, plan, pending, validatedFields,
                         preResolverNegatives>>,
             Retried = {}, Retried' = {},
             pc \notin BeforeSelection \cup {"raised"}
      PROVE  CoverInv'
  <2>1. ASSUME NEW f \in Field, NEW i \in plan, <<f, i>> \notin pending
        PROVE  Settled(f, i)'
    <3>1. Settled(f, i)
      BY <1>1, <2>1 DEF CoverInv
    <3>2. QED
      BY <1>1, <3>1, SettledStays
  <2>2. QED
    BY <1>1, <2>1 DEF CoverInv
<1>2. CASE Gate \/ ProposeRefused \/ SelectorFails \/ AssembleRefused
  BY <1>2 DEF Gate, ProposeRefused, SelectorFails, AssembleRefused, Raise,
     CoverInv, BeforeSelection
<1>3. CASE GenerateCandidates \/ Propose
  <2>1. \/ pc' = "propose"
        \/ pending' = Field \X plan'
    BY <1>3 DEF GenerateCandidates, Propose, StartSelecting
  <2>2. QED
    BY <2>1 DEF CoverInv, BeforeSelection
<1>4. CASE SelectOne
  <2>1. PICK u \in NextUnits :
          /\ \E d \in Decisions(u[1], u[2]) :
               LET o == Observe(u[1], u[2], 0, d)
               IN  /\ observations' = observations \cup {o}
                   /\ validatedFields' = validatedFields \cup Kept(o)
                   /\ preResolverNegatives' =
                        preResolverNegatives \cup Refused(o)
          /\ pending' = pending \ {u}
    BY <1>4 DEF SelectOne
  <2>2. PICK d \in Decisions(u[1], u[2]) :
          LET o == Observe(u[1], u[2], 0, d)
          IN  /\ observations' = observations \cup {o}
              /\ validatedFields' = validatedFields \cup Kept(o)
              /\ preResolverNegatives' = preResolverNegatives \cup Refused(o)
    BY <2>1
  <2> DEFINE o == Observe(u[1], u[2], 0, d)
  <2>3. u[1] \in Field /\ u[2] \in Instance /\ u = <<u[1], u[2]>>
    BY DEF NextUnits, TypeOK
  <2>4. /\ o \in Observation /\ o.round = 0
        /\ o.field = u[1] /\ o.inst = u[2]
    BY <2>3, SelectionType DEF Observe
  <2>5. /\ observations' = observations \cup {o}
        /\ validatedFields' = validatedFields \cup Kept(o)
        /\ preResolverNegatives' = preResolverNegatives \cup Refused(o)
    BY <2>2
  <2> HIDE DEF o
  <2>6. /\ pc = "select" /\ pc' = "select" /\ plan' = plan
        /\ Retried = {} /\ Retried' = {}
    BY <1>4 DEF SelectOne, Retried
  <2>7. \A p \in observations : p.round <= o.round
    BY <2>4, <2>6 DEF RoundInv
  <2>8. /\ IsLatest(o)'
        /\ \A p \in observations :
             IsLatest(p) /\ (p.field # o.field \/ p.inst # o.inst)
               => IsLatest(p)'
    BY <2>4, <2>5, <2>7, NewObservationIsLatest DEF TypeOK
  <2>9. Accounted(o)'
    BY <2>5, <2>6 DEF Accounted
  <2>10. Settled(u[1], u[2])'
    BY <2>4, <2>5, <2>8, <2>9 DEF Settled
  <2>11. ASSUME NEW f \in Field, NEW i \in plan,
                <<f, i>> \notin pending, <<f, i>> # u
         PROVE  Settled(f, i)'
    <3>1. PICK p \in observations :
            IsLatest(p) /\ p.field = f /\ p.inst = i /\ Accounted(p)
      BY <2>6, <2>11 DEF CoverInv, BeforeSelection, Settled
    <3>2. IsLatest(p)'
      BY <2>3, <2>4, <2>8, <2>11, <3>1
    <3>3. Accounted(p)'
      BY <2>5, <2>6, <3>1 DEF Accounted
    <3>4. QED
      BY <2>5, <3>1, <3>2, <3>3 DEF Settled
  <2>12. ASSUME NEW f \in Field, NEW i \in plan
         PROVE  <<f, i>> \in pending' \/ Settled(f, i)'
    BY <2>1, <2>3, <2>10, <2>11
  <2>13. QED
    BY <2>6, <2>12 DEF CoverInv
<1>5. CASE SelectBatch
  <2>1. plan = {Document}
    BY <1>5, OneDocument DEF SelectBatch, BeforeSelection
  <2>2. PICK d \in [Field -> UNION {Decisions(f, Document) : f \in Field}] :
          LET O == {Observe(f, Document, 0, d[f]) : f \in Field}
          IN  /\ observations' = O
              /\ validatedFields' = UNION {Kept(o) : o \in O}
              /\ preResolverNegatives' = UNION {Refused(o) : o \in O}
    BY <1>5 DEF SelectBatch
  <2>3. Retried' = {}
    BY <1>5 DEF SelectBatch, Retried
  <2>4. ASSUME NEW f \in Field PROVE Settled(f, Document)'
    <3> DEFINE o == Observe(f, Document, 0, d[f])
    <3>1. o \in observations' /\ o.field = f /\ o.inst = Document
      BY <2>2 DEF Observe
    <3>2. \A p \in observations' : p.round = 0
      BY <2>2 DEF Observe
    <3> HIDE DEF o
    <3>3. IsLatest(o)'
      BY <3>1, <3>2 DEF IsLatest
    <3>4. Kept(o) \subseteq validatedFields'
          /\ Refused(o) \subseteq preResolverNegatives'
      BY <2>2, <3>1
    <3>5. Accounted(o)'
      BY <2>3, <3>4 DEF Accounted
    <3>6. QED
      BY <3>1, <3>3, <3>5 DEF Settled
  <2>5. plan' = {Document}
    BY <1>5, <2>1 DEF SelectBatch
  <2>6. QED
    BY <2>4, <2>5 DEF CoverInv
<1>6. CASE ResolveFirst \/ RepairFieldFailures \/ RepairLayer3 \/ ApplyLayer3
             \/ AssembleFailed \/ Assemble \/ BuildArtifact
  BY <1>1, <1>6 DEF ResolveFirst, RepairFieldFailures, RepairLayer3,
     StartRepair, ApplyLayer3, AssembleFailed, Assemble, BuildArtifact,
     Retried, BeforeSelection
<1>7. CASE RetryField
  <2>1. PICK f \in NextRetries :
          \E d \in Decisions(f, Document) :
            LET o == Observe(f, Document, repair.round, d)
            IN  /\ observations' = observations \cup {o}
                /\ repair' = [repair EXCEPT !.queue = @ \ {f},
                                            !.kept = @ \cup Kept(o),
                                            !.refused = @ \cup Refused(o)]
    BY <1>7 DEF RetryField
  <2>2. PICK d \in Decisions(f, Document) :
          LET o == Observe(f, Document, repair.round, d)
          IN  /\ observations' = observations \cup {o}
              /\ repair' = [repair EXCEPT !.queue = @ \ {f},
                                          !.kept = @ \cup Kept(o),
                                          !.refused = @ \cup Refused(o)]
    BY <2>1
  <2>3. /\ f \in repair.queue /\ f \in Field /\ f \in repair.fields
        /\ repair.round \in 0..2
    BY DEF NextRetries, TypeOK, Repair, RoundInv
  <2>4. PICK o \in Observation : o = Observe(f, Document, repair.round, d)
    BY <2>3, SelectionType, DocumentIsInstance
  <2>5. /\ o.round = repair.round /\ o.field = f /\ o.inst = Document
        /\ observations' = observations \cup {o}
        /\ repair'.queue = repair.queue \ {f}
        /\ repair'.kept = repair.kept \cup Kept(o)
        /\ repair'.refused = repair.refused \cup Refused(o)
        /\ repair'.fields = repair.fields
    <3>1. o.round = repair.round /\ o.field = f /\ o.inst = Document
      BY <2>4 DEF Observe
    <3>2. QED
      BY <2>2, <2>4, <3>1 DEF TypeOK, Repair
  <2>6. /\ pc = "retry" /\ pc' = "retry" /\ plan' = plan
        /\ pending' = pending /\ validatedFields' = validatedFields
        /\ preResolverNegatives' = preResolverNegatives
    BY <1>7 DEF RetryField
  <2>7. Retried' = Retried \cup {f}
    BY <2>3, <2>5, <2>6 DEF Retried
  <2>8. /\ IsLatest(o)'
        /\ \A p \in observations :
             IsLatest(p) /\ (p.field # o.field \/ p.inst # o.inst)
               => IsLatest(p)'
    BY <2>5, NewObservationIsLatest DEF TypeOK, RoundInv
  <2>9. Accounted(o)'
    BY <2>5, <2>7 DEF Accounted
  <2>10. Settled(f, Document)'
    BY <2>5, <2>8, <2>9 DEF Settled
  <2>11. ASSUME NEW g \in Field, NEW i \in plan, <<g, i>> \notin pending,
                g # f
         PROVE  Settled(g, i)'
    <3>1. PICK p \in observations :
            IsLatest(p) /\ p.field = g /\ p.inst = i /\ Accounted(p)
      BY <2>6, <2>11 DEF CoverInv, BeforeSelection, Settled
    <3>2. IsLatest(p)'
      BY <2>5, <2>8, <2>11, <3>1
    <3>3. p.field \in Retried' <=> p.field \in Retried
      BY <2>7, <2>11, <3>1
    <3>4. Accounted(p)'
      BY <2>5, <2>6, <3>1, <3>3 DEF Accounted
    <3>5. QED
      BY <2>5, <3>1, <3>2, <3>4 DEF Settled
  <2>12. plan = {Document}
    BY <2>6, OneDocument DEF PlanInv, BeforeSelection
  <2>13. ASSUME NEW g \in Field, NEW i \in plan
         PROVE  <<g, i>> \in pending' \/ Settled(g, i)'
    BY <2>6, <2>10, <2>11, <2>12
  <2>14. QED
    BY <2>6, <2>13 DEF CoverInv
<1>8. CASE FinishRepair
  <2>1. /\ pc = "retry" /\ repair.queue = {} /\ Retried = repair.fields
        /\ Retried' = {} /\ plan' = plan /\ pending' = pending
        /\ UNCHANGED observations
    BY <1>8 DEF FinishRepair, Retried
  <2>2. /\ validatedFields' =
             Replaced(validatedFields, repair.fields, repair.kept)
        /\ preResolverNegatives' =
             Replaced(preResolverNegatives, repair.fields, repair.refused)
    BY <1>8 DEF FinishRepair
  <2>3. ASSUME NEW f \in Field, NEW i \in plan, <<f, i>> \notin pending
        PROVE  Settled(f, i)'
    <3>1. Settled(f, i)
      BY <2>1, <2>3 DEF CoverInv, BeforeSelection
    <3>2. \A v \in Validated :
            /\ v.field = f
            /\ v \in (IF f \in Retried THEN repair.kept ELSE validatedFields)
            => v \in validatedFields'
      BY <2>1, <2>2 DEF Replaced
    <3>3. \A n \in FieldNegative :
            /\ n.field = f
            /\ n \in (IF f \in Retried THEN repair.refused
                                       ELSE preResolverNegatives)
            => n \in preResolverNegatives'
      BY <2>1, <2>2 DEF Replaced
    <3>4. QED
      BY <2>1, <3>1, <3>2, <3>3, SettledStays
  <2>4. QED
    BY <2>1, <2>3 DEF CoverInv
<1>9. CASE Finished \/ UNCHANGED vars
  <2>1. CoverInv <=> CoverInv'
    BY <1>9 DEF Finished, vars, CoverInv, Settled, IsLatest, Accounted,
       Retried
  <2>2. QED
    BY <2>1
<1>10. QED
  BY <1>2, <1>3, <1>4, <1>5, <1>6, <1>7, <1>8, <1>9 DEF Next

-----------------------------------------------------------------------------
(* What the report is made of                                              *)

\* The instances at hand are the resolution of the validated fields as they
\* stand; the report and the artifact are made from nothing else.
ReportInv ==
  /\ pc \in {"field_repair", "layer3"} =>
       finalInstances = Resolve(validatedFields)
  /\ pc \in {"object_repair", "assemble", "persist", "done"} =>
       layer3Instances = Validate3(Resolve(validatedFields))
  /\ Reported /\ layer3Instances = {} =>
       /\ result.outcome = "failed"
       /\ result.instances = {}
       /\ result.events = preResolverNegatives
  /\ Reported /\ layer3Instances # {} =>
       /\ Attachable
       /\ result.outcome = RollUp(Attached)
       /\ result.instances = Attached
       /\ result.events = {}
  /\ pc = "done" /\ setup.storage =>
       /\ artifact.outcome = result.outcome
       /\ artifact.events = result.events
       /\ artifact.instances = layer3Instances

LEMMA InitReport == Init => ReportInv
  BY DEF Init, ReportInv, Reported

LEMMA ReportStep == ReportInv /\ [Next]_vars => ReportInv'
<1> SUFFICES ASSUME ReportInv, [Next]_vars PROVE ReportInv'
  OBVIOUS
<1>1. ASSUME pc' \notin {"field_repair", "layer3", "object_repair",
                         "assemble", "persist", "done"}
      PROVE  ReportInv'
  BY <1>1 DEF ReportInv, Reported
<1>2. CASE Gate \/ GenerateCandidates \/ Propose \/ ProposeRefused
             \/ SelectOne \/ SelectBatch \/ SelectorFails \/ RetryField
             \/ AssembleRefused
  BY <1>1, <1>2 DEF Gate, GenerateCandidates, StartSelecting, Propose,
     ProposeRefused, SelectOne, SelectBatch, SelectorFails, RetryField,
     AssembleRefused, Raise
<1>3. CASE ResolveFirst
  BY <1>3 DEF ResolveFirst, ReportInv, Reported
<1>4. CASE RepairFieldFailures \/ RepairLayer3
  BY <1>4 DEF RepairFieldFailures, RepairLayer3, StartRepair, ReportInv,
     Reported
<1>5. CASE FinishRepair
  BY <1>5 DEF FinishRepair, AfterRepair, ReportInv, Reported
<1>6. CASE ApplyLayer3
  BY <1>6 DEF ApplyLayer3, ReportInv, Reported
<1>7. CASE AssembleFailed \/ Assemble
  <2>1. /\ UNCHANGED <<layer3Instances, preResolverNegatives, setup,
                       validatedFields>>
        /\ pc = "assemble"
        /\ pc' = IF setup.storage THEN "persist" ELSE "done"
    BY <1>7 DEF AssembleFailed, Assemble
  <2>2. (Attachable <=> Attachable') /\ Attached = Attached'
    BY <2>1 DEF Attachable, Attached
  <2>3. RollUp(Attached)' = RollUp(Attached)
    BY <2>2 DEF RollUp
  <2>4. \/ /\ layer3Instances = {}
           /\ result'.outcome = "failed"
           /\ result'.instances = {}
           /\ result'.events = preResolverNegatives
        \/ /\ layer3Instances # {} /\ Attachable
           /\ result'.outcome = RollUp(Attached)
           /\ result'.instances = Attached
           /\ result'.events = {}
    BY <1>7 DEF AssembleFailed, Assemble
  <2>5. QED
    BY <2>1, <2>2, <2>3, <2>4 DEF ReportInv, Reported
<1>8. CASE BuildArtifact
  <2>1. /\ UNCHANGED <<layer3Instances, preResolverNegatives, setup, result,
                       validatedFields>>
        /\ pc = "persist" /\ pc' = "done"
        /\ artifact'.outcome = result.outcome
        /\ artifact'.events = result.events
        /\ artifact'.instances = layer3Instances
    BY <1>8 DEF BuildArtifact, ArtifactInstances
  <2>2. /\ Attachable <=> Attachable'
        /\ Attached = Attached'
        /\ RollUp(Attached) = RollUp(Attached)'
    BY <2>1 DEF Attachable, Attached, RollUp
  <2>3. QED
    BY <2>1, <2>2 DEF ReportInv, Reported
<1>9. CASE Finished \/ UNCHANGED vars
  <2>1. /\ Attachable <=> Attachable'
        /\ Attached = Attached'
        /\ RollUp(Attached) = RollUp(Attached)'
    BY <1>9 DEF Finished, vars, Attachable, Attached, RollUp
  <2>2. QED
    BY <1>9, <2>1 DEF Finished, vars, ReportInv, Reported
<1>10. QED
  BY <1>2, <1>3, <1>4, <1>5, <1>6, <1>7, <1>8, <1>9 DEF Next

\* Everything the theorems about the report rest on.
AccountInv ==
  TypeOK /\ RoundInv /\ BackedInv /\ InstanceInv
    /\ PlanInv /\ UniqueInv /\ CoverInv /\ ReportInv

LEMMA AccountHolds == Spec => []AccountInv
<1>1. Init => AccountInv
  BY InitType, InitBacked, InitInstances, InitPlan, InitUnique, InitCover,
     InitReport DEF AccountInv
<1>2. AccountInv /\ [Next]_vars => AccountInv'
  BY NextType, RoundStep, BackedStep, InstanceStep, PlanStep, UniqueStep,
     CoverStep, ReportStep DEF AccountInv
<1>3. QED
  BY <1>1, <1>2, PTL DEF Spec

-----------------------------------------------------------------------------
(* From the validated fields to the report                                 *)

\* What an instance of layer 3 keeps of the resolver's.
LEMMA Validate3Keeps ==
  ASSUME NEW X \in SUBSET InstanceOutcome
  PROVE  /\ \A x \in X : \E y \in Validate3(X) :
              /\ y.inst = x.inst /\ y.evidence = x.evidence
              /\ x.negatives \subseteq y.negatives
         /\ \A y \in Validate3(X) : y.outcome = "complete" => y \in X
<1> DEFINE marked(x) == [x EXCEPT !.outcome = "partial",
                                  !.negatives = @ \cup {InstanceFailure(x)}]
<1>1. ASSUME NEW x \in X
      PROVE  /\ marked(x).inst = x.inst
             /\ marked(x).evidence = x.evidence
             /\ marked(x).outcome = "partial"
             /\ marked(x).negatives = x.negatives \cup {InstanceFailure(x)}
  BY DEF InstanceOutcome
<1>2. Validate3(X) =
        {IF ObjectVerdict(x).fails THEN marked(x) ELSE x : x \in X}
  BY DEF Validate3
<1> HIDE DEF marked
<1>3. \A x \in X :
        LET y == IF ObjectVerdict(x).fails THEN marked(x) ELSE x
        IN  /\ y \in Validate3(X)
            /\ y.inst = x.inst /\ y.evidence = x.evidence
            /\ x.negatives \subseteq y.negatives
  BY <1>1, <1>2
<1>4. ASSUME NEW y \in Validate3(X), y.outcome = "complete"
      PROVE  y \in X
  BY <1>1, <1>2, <1>4
<1>5. QED
  BY <1>3, <1>4

\* What an instance of the report keeps of layer 3's.
LEMMA AttachedKeeps ==
  ASSUME TypeOK
  PROVE  \A x \in layer3Instances : \E y \in Attached :
           /\ y.inst = x.inst /\ y.evidence = x.evidence
           /\ x.negatives \subseteq y.negatives
           /\ preResolverNegatives \subseteq y.negatives
<1> DEFINE attached(x) == [x EXCEPT !.outcome = "partial",
                                    !.negatives = @ \cup preResolverNegatives]
<1>1. ASSUME NEW x \in layer3Instances
      PROVE  /\ attached(x).inst = x.inst
             /\ attached(x).evidence = x.evidence
             /\ attached(x).negatives = x.negatives \cup preResolverNegatives
  BY DEF InstanceOutcome, TypeOK
<1>2. Attached = IF preResolverNegatives = {} THEN layer3Instances
                 ELSE {attached(x) : x \in layer3Instances}
  BY DEF Attached
<1> HIDE DEF attached
<1>3. CASE preResolverNegatives = {}
  BY <1>2, <1>3
<1>4. CASE preResolverNegatives # {}
  BY <1>1, <1>2, <1>4
<1>5. QED
  BY <1>3, <1>4

\* A validated field is evidence of its instance, or the resolver refused it
\* there for its cardinality.
LEMMA ResolveAccounts ==
  ASSUME NEW V \in SUBSET Validated, NEW v \in V
  PROVE  \E x \in Resolve(V) :
           /\ x.inst = v.inst
           /\ \/ v \in x.evidence
              \/ \E n \in x.negatives :
                   n.field = v.field /\ n.inst = v.inst /\ n.cand = NoCand
<1> DEFINE i == v.inst
           x == [inst      |-> i,
                 outcome   |-> IF CardinalityRefused(V, i) = {} THEN "complete"
                                                                ELSE "partial",
                 evidence  |-> {w \in V : /\ w.inst = i
                                          /\ ~Spread(V, w.field)
                                          /\ ~Crowded(V, w.field, i)},
                 negatives |-> CardinalityRefused(V, i)]
<1>1. x \in Resolve(V)
  BY DEF Resolve
<1>2. v.field \in Field
  BY DEF Validated
<1>3. CASE Spread(V, v.field)
  <2>1. Refusal("one_multiple_instances", v.field, i, NoCand) \in x.negatives
    BY <1>2, <1>3 DEF CardinalityRefused
  <2>2. QED
    BY <1>1, <2>1 DEF Refusal
<1>4. CASE Crowded(V, v.field, i)
  <2>1. Refusal("per_instance_multi", v.field, i, NoCand) \in x.negatives
    BY <1>2, <1>4 DEF CardinalityRefused
  <2>2. QED
    BY <1>1, <2>1 DEF Refusal
<1>5. CASE ~Spread(V, v.field) /\ ~Crowded(V, v.field, i)
  BY <1>1, <1>5
<1>6. QED
  BY <1>3, <1>4, <1>5

\* An observation the adapter lets through is a selection: of one candidate,
\* or of any number for a MANY field.
LEMMA AdapterAccepts ==
  ASSUME NEW o \in Observation, AdaptRefusal(o) = {}
  PROVE  /\ o.outcome = "selected"
         /\ FieldCard[o.field] = "many" \/ \E c \in o.ids : o.ids = {c}
         /\ Proposed(o) = o.ids
<1>1. AdaptRefusalKinds(o) = {}
  BY DEF AdaptRefusal
<1>2. QED
  BY <1>1 DEF AdaptRefusalKinds, Proposed

\* What the run stands on when it reports: the pre-resolver negatives are
\* reported, and so is what layer 3 left of every resolved instance.
LEMMA ReportAccounts ==
  ASSUME AccountInv, Reported
  PROVE  /\ preResolverNegatives \subseteq ReportedNegatives
         /\ \A x \in Resolve(validatedFields) :
              /\ x.evidence \subseteq ReportedEvidence
              /\ x.negatives \subseteq ReportedNegatives
<1>1. /\ TypeOK /\ ReportInv
      /\ layer3Instances = Validate3(Resolve(validatedFields))
  BY DEF AccountInv, ReportInv, Reported
<1>2. Resolve(validatedFields) \in SUBSET InstanceOutcome
  BY <1>1, ResolveType DEF TypeOK
<1>3. \A x \in Resolve(validatedFields) : \E y \in layer3Instances :
        y.evidence = x.evidence /\ x.negatives \subseteq y.negatives
  BY <1>1, <1>2, Validate3Keeps
<1>4. CASE layer3Instances = {}
  <2>1. result.events = preResolverNegatives
    BY <1>1, <1>4 DEF ReportInv
  <2>2. QED
    BY <1>3, <1>4, <2>1 DEF ReportedNegatives
<1>5. CASE layer3Instances # {}
  <2>1. result.instances = Attached
    BY <1>1, <1>5 DEF ReportInv
  <2>2. \A x \in layer3Instances : \E y \in result.instances :
          /\ y.evidence = x.evidence
          /\ x.negatives \subseteq y.negatives
          /\ preResolverNegatives \subseteq y.negatives
    BY <1>1, <2>1, AttachedKeeps
  <2>3. preResolverNegatives \subseteq ReportedNegatives
    BY <1>5, <2>2 DEF ReportedNegatives
  <2>4. ASSUME NEW x \in Resolve(validatedFields)
        PROVE  /\ x.evidence \subseteq ReportedEvidence
               /\ x.negatives \subseteq ReportedNegatives
    <3>1. PICK y \in layer3Instances :
            y.evidence = x.evidence /\ x.negatives \subseteq y.negatives
      BY <1>3
    <3>2. PICK z \in result.instances :
            y.evidence = z.evidence /\ y.negatives \subseteq z.negatives
      BY <2>2
    <3>3. QED
      BY <3>1, <3>2 DEF ReportedEvidence, ReportedNegatives
  <2>5. QED
    BY <2>3, <2>4
<1>6. QED
  BY <1>4, <1>5

\* When a run reports, every unit has a last observation, all of whose
\* consequences stand.
LEMMA ReportedUnits ==
  ASSUME AccountInv, Reported, NEW f \in Field, NEW i \in plan
  PROVE  \E o \in observations :
           /\ IsLatest(o) /\ o.field = f /\ o.inst = i
           /\ Kept(o) \subseteq validatedFields
           /\ Refused(o) \subseteq preResolverNegatives
<1>1. Settled(f, i) /\ Retried = {}
  BY DEF AccountInv, PlanInv, CoverInv, BeforeSelection, Reported, Retried
<1>2. QED
  BY <1>1 DEF Settled, Accounted

-----------------------------------------------------------------------------
(* The theorems                                                            *)

\* What the run decided about every unit shows in its report.
THEOREM DecisionsAreReported == Spec => []NothingVanishes
<1>1. ASSUME AccountInv PROVE NothingVanishes
  <2> SUFFICES ASSUME Reported, NEW f \in Field, NEW i \in plan
               PROVE
                 \E o \in observations :
                   /\ IsLatest(o) /\ o.field = f /\ o.inst = i
                   /\ \/ \E n \in ReportedNegatives :
                           n.field = f /\ n.inst \in {i, NoInstance}
                                       /\ n.cand = NoCand
                      \/ /\ o.outcome = "selected"
                         /\ o.ids = {} => FieldCard[f] = "many"
                         /\ \A c \in o.ids :
                              \/ \E v \in ReportedEvidence :
                                   v.field = f /\ v.inst = i /\ v.cand = c
                              \/ \E n \in ReportedNegatives :
                                   n.field = f /\ n.cand = c
    BY DEF NothingVanishes
  <2>1. PICK o \in observations :
          /\ IsLatest(o) /\ o.field = f /\ o.inst = i
          /\ Kept(o) \subseteq validatedFields
          /\ Refused(o) \subseteq preResolverNegatives
    BY <1>1, ReportedUnits
  <2>2. o \in Observation
    BY <1>1 DEF AccountInv, TypeOK
  <2>3. Refused(o) \subseteq ReportedNegatives
    BY <1>1, <2>1, ReportAccounts
  <2>4. CASE AdaptRefusal(o) # {}
    <3>1. PICK kind \in AdaptRefusalKinds(o) :
            Refusal(kind, f, Hint(i), NoCand) \in Refused(o)
      BY <2>1, <2>4 DEF AdaptRefusal, Refused
    <3>2. QED
      BY <2>1, <2>3, <3>1 DEF Refusal, Hint
  <2>5. CASE AdaptRefusal(o) = {}
    <3>1. /\ o.outcome = "selected"
          /\ o.ids = {} => FieldCard[f] = "many"
          /\ Proposed(o) = o.ids
      BY <2>1, <2>2, <2>5, AdapterAccepts
    <3>2. ASSUME NEW c \in o.ids, c \in Layer1Bad
          PROVE  \E n \in ReportedNegatives : n.field = f /\ n.cand = c
      <4>1. Refusal("candidate_failure", f, i, c) \in Refused(o)
        BY <2>1, <3>1, <3>2 DEF Refused
      <4>2. QED
        BY <2>3, <4>1 DEF Refusal
    <3>3. ASSUME NEW c \in o.ids, c \in Layer2Bad \ Layer1Bad
          PROVE  \E n \in ReportedNegatives : n.field = f /\ n.cand = c
      <4>1. Refusal("field_failure", f, NoInstance, c) \in Refused(o)
        BY <2>1, <3>1, <3>3 DEF Refused
      <4>2. QED
        BY <2>3, <4>1 DEF Refusal
    <3>4. ASSUME NEW c \in o.ids, c \notin Layer1Bad \cup Layer2Bad
          PROVE  \/ \E v \in ReportedEvidence :
                      v.field = f /\ v.inst = i /\ v.cand = c
                 \/ \E n \in ReportedNegatives :
                      /\ n.field = f /\ n.inst \in {i, NoInstance}
                      /\ n.cand = NoCand
      <4> DEFINE v == [field |-> f, inst |-> i, cand |-> c]
      <4>1. v \in validatedFields
        BY <2>1, <3>1, <3>4 DEF Kept
      <4>2. v.field = f /\ v.inst = i /\ v.cand = c
        OBVIOUS
      <4> HIDE DEF v
      <4>3. PICK x \in Resolve(validatedFields) :
              /\ x.inst = v.inst
              /\ \/ v \in x.evidence
                 \/ \E n \in x.negatives :
                      n.field = v.field /\ n.inst = v.inst /\ n.cand = NoCand
        BY <1>1, <4>1, ResolveAccounts DEF AccountInv, TypeOK
      <4>4. /\ x.evidence \subseteq ReportedEvidence
            /\ x.negatives \subseteq ReportedNegatives
        BY <1>1, ReportAccounts
      <4>5. QED
        BY <4>2, <4>3, <4>4
    <3>5. CASE \E n \in ReportedNegatives :
                 n.field = f /\ n.inst \in {i, NoInstance} /\ n.cand = NoCand
      BY <2>1, <3>5
    <3>6. CASE ~\E n \in ReportedNegatives :
                  n.field = f /\ n.inst \in {i, NoInstance} /\ n.cand = NoCand
      <4>1. \A c \in o.ids :
              \/ \E v \in ReportedEvidence :
                   v.field = f /\ v.inst = i /\ v.cand = c
              \/ \E n \in ReportedNegatives : n.field = f /\ n.cand = c
        BY <3>2, <3>3, <3>4, <3>6
      <4>2. QED
        BY <2>1, <3>1, <4>1
    <3>7. QED
      BY <3>5, <3>6
  <2>6. QED
    BY <2>4, <2>5
<1>2. QED
  BY <1>1, AccountHolds, PTL

\* An instance that is reported complete is one the resolver left complete,
\* and no negative was attached to it.
LEMMA CompleteIsResolved ==
  ASSUME AccountInv, Reported, result.outcome = "complete"
  PROVE  /\ preResolverNegatives = {}
         /\ result.events = {}
         /\ \A x \in result.instances :
              x \in Resolve(validatedFields) /\ x.negatives = {}
<1>1. /\ TypeOK /\ ReportInv
      /\ layer3Instances = Validate3(Resolve(validatedFields))
  BY DEF AccountInv, ReportInv, Reported
<1>2. /\ layer3Instances # {}
      /\ RollUp(Attached) = "complete"
      /\ result.instances = Attached
      /\ result.events = {}
  BY <1>1 DEF ReportInv
<1>3. \A x \in Attached : x.outcome = "complete"
  BY <1>2 DEF RollUp
<1>4. preResolverNegatives = {}
  <2>1. SUFFICES ASSUME preResolverNegatives # {} PROVE FALSE
    OBVIOUS
  <2>2. PICK x \in layer3Instances : TRUE
    BY <1>2
  <2> DEFINE y == [x EXCEPT !.outcome = "partial",
                            !.negatives = @ \cup preResolverNegatives]
  <2>3. y \in Attached
    BY <2>1, <2>2 DEF Attached
  <2>4. y.outcome = "partial"
    BY <2>2 DEF TypeOK, InstanceOutcome
  <2>5. QED
    BY <1>3, <2>3, <2>4
<1>5. Attached = layer3Instances
  BY <1>4 DEF Attached
<1>6. Resolve(validatedFields) \in SUBSET InstanceOutcome
  BY <1>1, ResolveType DEF TypeOK
<1>7. \A x \in result.instances : x \in Resolve(validatedFields)
  BY <1>1, <1>2, <1>3, <1>5, <1>6, Validate3Keeps
<1>8. \A x \in Resolve(validatedFields) :
        x.outcome = "complete" => x.negatives = {}
  BY <1>1, ResolveType DEF TypeOK
<1>9. QED
  BY <1>2, <1>3, <1>4, <1>7, <1>8

\* A complete extraction holds one value of every field that is not MANY.
THEOREM CompleteExtractionsAreWhole == Spec => []CompleteMeansWhole
<1>1. ASSUME AccountInv PROVE CompleteMeansWhole
  <2> SUFFICES ASSUME Reported, result.outcome = "complete"
               PROVE  /\ ReportedNegatives = {}
                      /\ \A f \in Field, i \in plan :
                           FieldCard[f] # "many" =>
                             \E v \in ReportedEvidence :
                               /\ v.field = f /\ v.inst = i
                               /\ \A w \in ReportedEvidence :
                                    w.field = f /\ w.inst = i => w = v
    BY DEF CompleteMeansWhole
  <2>1. preResolverNegatives = {}
    BY <1>1, CompleteIsResolved
  <2>2. ReportedNegatives = {}
    BY <1>1, CompleteIsResolved DEF ReportedNegatives
  <2>3. ASSUME NEW f \in Field, NEW i \in plan, FieldCard[f] # "many"
        PROVE  \E v \in ReportedEvidence :
                 /\ v.field = f /\ v.inst = i
                 /\ \A w \in ReportedEvidence :
                      w.field = f /\ w.inst = i => w = v
    <3>1. PICK o \in observations :
            /\ IsLatest(o) /\ o.field = f /\ o.inst = i
            /\ Kept(o) \subseteq validatedFields
            /\ Refused(o) \subseteq preResolverNegatives
      BY <1>1, ReportedUnits
    <3>2. o \in Observation
      BY <1>1 DEF AccountInv, TypeOK
    <3>3. Refused(o) = {}
      BY <2>1, <3>1
    <3>4. AdaptRefusal(o) = {}
      BY <3>3 DEF Refused
    <3>5. PICK c \in o.ids : o.ids = {c}
      BY <2>3, <3>1, <3>2, <3>4, AdapterAccepts
    <3>6. Proposed(o) = {c}
      BY <3>2, <3>4, <3>5, AdapterAccepts
    <3>7. c \notin Layer1Bad /\ c \notin Layer2Bad
      <4>1. Proposed(o) \cap Layer1Bad = {}
        BY <3>3 DEF Refused
      <4>2. Proposed(o) \cap (Layer2Bad \ Layer1Bad) = {}
        BY <3>3 DEF Refused
      <4>3. QED
        BY <3>6, <4>1, <4>2
    <3> DEFINE v == [field |-> f, inst |-> i, cand |-> c]
    <3>8. Kept(o) = {v}
      BY <3>1, <3>6, <3>7 DEF Kept
    <3>9. v.field = f /\ v.inst = i
      OBVIOUS
    <3> HIDE DEF v
    <3>10. v \in ReportedEvidence
      <4>1. PICK x \in Resolve(validatedFields) :
              /\ x.inst = v.inst
              /\ \/ v \in x.evidence
                 \/ \E n \in x.negatives :
                      n.field = v.field /\ n.inst = v.inst /\ n.cand = NoCand
        BY <1>1, <3>1, <3>8, ResolveAccounts DEF AccountInv, TypeOK
      <4>2. /\ x.evidence \subseteq ReportedEvidence
            /\ x.negatives \subseteq ReportedNegatives
        BY <1>1, ReportAccounts
      <4>3. QED
        BY <2>2, <4>1, <4>2
    <3>11. ASSUME NEW w \in ReportedEvidence, w.field = f, w.inst = i
           PROVE  w = v
      <4>1. w \in validatedFields
        BY <1>1 DEF ReportedEvidence, AccountInv, InstanceInv, Sound, Held,
           Reported
      <4>2. Backed(w)
        BY <1>1, <4>1 DEF AccountInv, BackedInv, Retried, Reported
      <4>3. PICK p \in observations : IsLatest(p) /\ w \in Kept(p)
        BY <4>2 DEF Backed
      <4>4. p \in Observation /\ p.field = f /\ p.inst = i
        BY <1>1, <3>11, <4>3, KeptType DEF AccountInv, TypeOK
      <4>5. o.round <= p.round /\ p.round <= o.round
        BY <3>1, <4>3, <4>4 DEF IsLatest
      <4>6. o.round = p.round
        BY <3>2, <4>4, <4>5 DEF Observation
      <4>7. o = p
        BY <1>1, <3>1, <4>4, <4>6 DEF AccountInv, UniqueInv
      <4>8. QED
        BY <3>8, <4>3, <4>7
    <3>12. QED
      BY <3>9, <3>10, <3>11
  <2>4. QED
    BY <2>2, <2>3
<1>2. QED
  BY <1>1, AccountHolds, PTL

\* What is attached for the report leaves the artifact's instances as they
\* are, and adds no object failure to theirs.
LEMMA AttachedComesFrom ==
  ASSUME TypeOK, NEW y \in Attached
  PROVE  \E x \in layer3Instances :
           /\ x.inst = y.inst /\ x.evidence = y.evidence
           /\ \A n \in y.negatives :
                n.kind = "instance_failure" => n \in x.negatives
<1>1. CASE preResolverNegatives = {}
  BY <1>1 DEF Attached
<1>2. CASE preResolverNegatives # {}
  <2>1. PICK x \in layer3Instances :
          y = [x EXCEPT !.outcome = "partial",
                        !.negatives = @ \cup preResolverNegatives]
    BY <1>2 DEF Attached
  <2>2. /\ y.inst = x.inst /\ y.evidence = x.evidence
        /\ y.negatives = x.negatives \cup preResolverNegatives
    BY <2>1 DEF TypeOK, InstanceOutcome
  <2>3. \A n \in preResolverNegatives : n.kind # "instance_failure"
    BY DEF TypeOK, FieldNegative
  <2>4. QED
    BY <2>2, <2>3
<1>3. QED
  BY <1>1, <1>2

\* The artifact has the report's outcome, evidence and object failures.
THEOREM ArtifactsKeepEvidence == Spec => []ArtifactKeepsEvidence
<1>1. ASSUME AccountInv PROVE ArtifactKeepsEvidence
  <2> SUFFICES ASSUME pc = "done", setup.storage
               PROVE  /\ artifact.outcome = result.outcome
                      /\ artifact.events = result.events
                      /\ \A x \in result.instances :
                           \E y \in artifact.instances :
                             /\ y.inst = x.inst /\ y.evidence = x.evidence
                             /\ \A n \in x.negatives :
                                  n.kind = "instance_failure"
                                    => n \in y.negatives
    BY DEF ArtifactKeepsEvidence
  <2>1. TypeOK /\ ReportInv /\ Reported
    BY <1>1 DEF AccountInv, Reported
  <2>2. /\ artifact.outcome = result.outcome
        /\ artifact.events = result.events
        /\ artifact.instances = layer3Instances
    BY <2>1 DEF ReportInv
  <2>3. result.instances = {} \/ result.instances = Attached
    BY <2>1 DEF ReportInv
  <2>4. QED
    BY <2>1, <2>2, <2>3, AttachedComesFrom
<1>2. QED
  BY <1>1, AccountHolds, PTL

-----------------------------------------------------------------------------
(* Failures and their retries                                              *)

\* n is what was refused of the last observation of its unit
Told(n) == \E o \in observations : IsLatest(o) /\ n \in Refused(o)

\* While a round is under way its fields have their old negatives in
\* preResolverNegatives and the new ones in repair.refused.
ToldInv ==
  /\ pc # "raised" =>
       \A n \in preResolverNegatives : n.field \in Retried \/ Told(n)
  /\ pc = "retry" =>
       \A n \in repair.refused : n.field \in Retried /\ Told(n)

\* As ObservationBacks, for what is refused.
LEMMA ObservationTells ==
  ASSUME observations \subseteq Observation, NEW o \in Observation,
         observations' = observations \cup {o},
         \A p \in observations : p.round <= o.round
  PROVE  /\ \A n \in Refused(o) : Told(n)'
         /\ \A n \in FieldNegative :
              Told(n) /\ (n.field # o.field \/ o.round = 0) => Told(n)'
<1>1. IsLatest(o)'
  BY DEF IsLatest, Observation
<1>2. \A n \in Refused(o) : Told(n)'
  BY <1>1 DEF Told, IsLatest
<1>3. ASSUME NEW n \in FieldNegative, Told(n),
             n.field # o.field \/ o.round = 0
      PROVE  Told(n)'
  <2>1. PICK p \in observations : IsLatest(p) /\ n \in Refused(p)
    BY <1>3 DEF Told
  <2>2. p.field = n.field /\ p.round \in 0..2
    BY <2>1, RefusedType DEF Observation
  <2>3. IsLatest(p)'
    BY <1>3, <2>1, <2>2 DEF IsLatest, Observation
  <2>4. QED
    BY <2>1, <2>3 DEF Told
<1>4. QED
  BY <1>2, <1>3

LEMMA SameObservationsTell ==
  ASSUME UNCHANGED observations
  PROVE  \A n : Told(n) <=> Told(n)'
BY DEF Told, IsLatest

LEMMA ToldStep ==
  TypeOK /\ RoundInv /\ ToldInv /\ [Next]_vars => ToldInv'
<1> SUFFICES ASSUME TypeOK, RoundInv, ToldInv, [Next]_vars PROVE ToldInv'
  OBVIOUS
<1>1. ASSUME UNCHANGED <<observations, preResolverNegatives>>,
             pc # "raised", pc # "retry", pc' # "retry"
      PROVE  ToldInv'
  BY <1>1, SameObservationsTell DEF ToldInv, Retried
<1>2. CASE Gate \/ GenerateCandidates \/ Propose \/ ResolveFirst
             \/ ApplyLayer3 \/ AssembleFailed \/ Assemble \/ BuildArtifact
  BY <1>1, <1>2 DEF Gate, GenerateCandidates, StartSelecting, Propose,
     ResolveFirst, ApplyLayer3, AssembleFailed, Assemble, BuildArtifact
<1>3. CASE ProposeRefused \/ SelectorFails \/ AssembleRefused
  BY <1>3 DEF ProposeRefused, SelectorFails, AssembleRefused, Raise,
     ToldInv
<1>4. CASE SelectOne
  <2>1. PICK u \in NextUnits :
          \E d \in Decisions(u[1], u[2]) :
            LET o == Observe(u[1], u[2], 0, d)
            IN  /\ observations' = observations \cup {o}
                /\ preResolverNegatives' = preResolverNegatives \cup Refused(o)
    BY <1>4 DEF SelectOne
  <2>2. PICK d \in Decisions(u[1], u[2]) :
          LET o == Observe(u[1], u[2], 0, d)
          IN  /\ observations' = observations \cup {o}
              /\ preResolverNegatives' = preResolverNegatives \cup Refused(o)
    BY <2>1
  <2> DEFINE o == Observe(u[1], u[2], 0, d)
  <2>3. u[1] \in Field /\ u[2] \in Instance
    BY DEF NextUnits, TypeOK
  <2>4. o \in Observation /\ o.round = 0
    BY <2>3, SelectionType DEF Observe
  <2>5. \A p \in observations : p.round <= o.round
    BY <1>4, <2>4 DEF RoundInv, SelectOne
  <2>6. /\ observations' = observations \cup {o}
        /\ preResolverNegatives' = preResolverNegatives \cup Refused(o)
    BY <2>2
  <2> HIDE DEF o
  <2>7. \A n \in preResolverNegatives' : Told(n)'
    <3>1. \A n \in preResolverNegatives : Told(n) /\ n \in FieldNegative
      BY <1>4 DEF SelectOne, ToldInv, Retried, TypeOK
    <3>2. QED
      BY <2>4, <2>5, <2>6, <3>1, ObservationTells DEF TypeOK
  <2>8. QED
    BY <1>4, <2>7 DEF SelectOne, ToldInv
<1>5. CASE SelectBatch
  <2>1. PICK O :
          /\ observations' = O
          /\ preResolverNegatives' = UNION {Refused(o) : o \in O}
          /\ \A o \in O : o.round = 0
    BY <1>5 DEF SelectBatch, Observe
  <2>2. \A o \in O : IsLatest(o)'
    BY <2>1 DEF IsLatest
  <2>3. \A n \in preResolverNegatives' : Told(n)'
    BY <2>1, <2>2 DEF Told
  <2>4. QED
    BY <1>5, <2>3 DEF SelectBatch, ToldInv
<1>6. CASE RepairFieldFailures \/ RepairLayer3
  <2>1. pc # "raised" /\ Retried = {} /\ Retried' = {}
    BY <1>6 DEF RepairFieldFailures, RepairLayer3, StartRepair, Retried
  <2>2. QED
    BY <1>6, <2>1, SameObservationsTell DEF ToldInv, RepairFieldFailures,
       RepairLayer3, StartRepair
<1>7. CASE RetryField
  <2>1. PICK f \in NextRetries :
          \E d \in Decisions(f, Document) :
            LET o == Observe(f, Document, repair.round, d)
            IN  /\ observations' = observations \cup {o}
                /\ repair' = [repair EXCEPT !.queue = @ \ {f},
                                            !.kept = @ \cup Kept(o),
                                            !.refused = @ \cup Refused(o)]
    BY <1>7 DEF RetryField
  <2>2. PICK d \in Decisions(f, Document) :
          LET o == Observe(f, Document, repair.round, d)
          IN  /\ observations' = observations \cup {o}
              /\ repair' = [repair EXCEPT !.queue = @ \ {f},
                                          !.kept = @ \cup Kept(o),
                                          !.refused = @ \cup Refused(o)]
    BY <2>1
  <2> DEFINE o == Observe(f, Document, repair.round, d)
  <2>3. /\ f \in repair.queue /\ f \in Field /\ f \in repair.fields
        /\ repair.round \in 0..2
    BY DEF NextRetries, TypeOK, Repair, RoundInv
  <2>4. o \in Observation /\ o.round = repair.round /\ o.field = f
    BY <2>3, SelectionType, DocumentIsInstance DEF Observe
  <2>5. /\ observations' = observations \cup {o}
        /\ repair'.queue = repair.queue \ {f}
        /\ repair'.refused = repair.refused \cup Refused(o)
        /\ repair'.fields = repair.fields
    BY <2>2 DEF TypeOK, Repair
  <2> HIDE DEF o
  <2>6. /\ \A n \in Refused(o) : Told(n)'
        /\ \A n \in FieldNegative : Told(n) /\ n.field # f => Told(n)'
    BY <2>4, <2>5, ObservationTells DEF TypeOK, RoundInv
  <2>7. /\ pc = "retry" /\ pc' = "retry"
        /\ preResolverNegatives' = preResolverNegatives
    BY <1>7 DEF RetryField
  <2>8. Retried' = Retried \cup {f} /\ f \notin Retried
    BY <2>3, <2>5, <2>7 DEF Retried
  <2>9. \A n \in preResolverNegatives' : n.field \in Retried' \/ Told(n)'
    BY <2>6, <2>7, <2>8 DEF ToldInv, TypeOK
  <2>10. \A n \in repair'.refused : n.field \in Retried' /\ Told(n)'
    <3>1. \A n \in Refused(o) : n.field = f
      BY <2>4, RefusedType
    <3>2. \A n \in repair.refused : n \in FieldNegative
      BY DEF TypeOK, Repair
    <3>3. \A n \in repair.refused : n.field \in Retried /\ Told(n)
      BY <2>7 DEF ToldInv
    <3>4. QED
      BY <2>5, <2>6, <2>8, <3>1, <3>2, <3>3
  <2>11. QED
    BY <2>7, <2>9, <2>10 DEF ToldInv
<1>8. CASE FinishRepair
  <2>1. \A n \in preResolverNegatives' : Told(n)
    BY <1>8 DEF FinishRepair, Replaced, ToldInv, Retried
  <2>2. \A n \in preResolverNegatives' : Told(n)'
    BY <1>8, <2>1, SameObservationsTell DEF FinishRepair
  <2>3. QED
    BY <1>8, <2>2 DEF FinishRepair, ToldInv
<1>9. CASE Finished \/ UNCHANGED vars
  BY <1>9, SameObservationsTell DEF Finished, vars, ToldInv, Retried
<1>10. QED
  BY <1>2, <1>3, <1>4, <1>5, <1>6, <1>7, <1>8, <1>9 DEF Next

\* some observation of the field is of a repair round
TriedAgain(f) == \E o \in observations : o.field = f /\ o.round > 0

\* the object failures at hand name no field that could be retried
NothingToBlame ==
  \A x \in layer3Instances : \A n \in x.negatives :
    n.kind = "instance_failure" => n.implicates \cap Field = {}

\* A round that is under way has a field and has asked those it is done with;
\* after the field round every failed field was tried again, after the object
\* round there was one, or nothing to hold it for.
RetryInv ==
  /\ ~setup.many => /\ pending \subseteq Field \X {Document}
                    /\ \A o \in observations : o.inst = Document
  /\ pc = "retry" =>
       /\ repair.round > 0 /\ repair.fields # {}
       /\ \A f \in Retried : \E o \in observations :
            o.field = f /\ o.round = repair.round
  /\ RepairEnabled /\ pc \in {"retry", "layer3", "object_repair", "assemble",
                              "persist", "done"} =>
       \A n \in preResolverNegatives :
         n.kind = "field_failure" =>
           \/ pc = "retry" /\ repair.round = 1 /\ n.field \in repair.fields
           \/ TriedAgain(n.field)
  /\ RepairEnabled /\ pc \in {"assemble", "persist", "done"} =>
       NothingToBlame \/ \E o \in observations : o.round = 2

LEMMA InitRetry == Init => ToldInv /\ RetryInv
  BY DEF Init, ToldInv, RetryInv, Retried

LEMMA RetryStep ==
  TypeOK /\ RoundInv /\ PlanInv /\ ToldInv /\ RetryInv /\ [Next]_vars
    => RetryInv'
<1> SUFFICES ASSUME TypeOK, RoundInv, PlanInv, ToldInv, RetryInv, [Next]_vars
             PROVE  RetryInv'
  OBVIOUS
<1>0. ASSUME UNCHANGED setup PROVE RepairEnabled' <=> RepairEnabled
  BY <1>0 DEF RepairEnabled
<1>1. ASSUME UNCHANGED observations
      PROVE  \A f : TriedAgain(f)' <=> TriedAgain(f)
  BY <1>1 DEF TriedAgain
<1>2. CASE Gate \/ GenerateCandidates \/ Propose \/ ProposeRefused
             \/ SelectorFails \/ ResolveFirst \/ AssembleRefused
  <2>1. CASE GenerateCandidates
    BY <2>1 DEF GenerateCandidates, StartSelecting, RetryInv
  <2>2. CASE Propose
    BY <2>2 DEF Propose, StartSelecting, PlanInv, RetryInv
  <2>3. CASE ResolveFirst
    BY <1>0, <2>3 DEF ResolveFirst, RetryInv
  <2>4. CASE Gate \/ ProposeRefused \/ SelectorFails \/ AssembleRefused
    BY <2>4 DEF Gate, ProposeRefused, SelectorFails, AssembleRefused, Raise,
       RetryInv
  <2>5. QED
    BY <1>2, <2>1, <2>2, <2>3, <2>4
<1>3. CASE SelectOne
  <2>1. PICK u \in NextUnits :
          /\ \E d \in Decisions(u[1], u[2]) :
               observations' = observations \cup {Observe(u[1], u[2], 0, d)}
          /\ pending' = pending \ {u}
    BY <1>3 DEF SelectOne
  <2>2. PICK d \in Decisions(u[1], u[2]) :
          observations' = observations \cup {Observe(u[1], u[2], 0, d)}
    BY <2>1
  <2>3. ~setup.many => u[2] = Document
    BY DEF NextUnits, RetryInv
  <2>4. Observe(u[1], u[2], 0, d).inst = u[2]
    BY DEF Observe
  <2>5. QED
    BY <1>3, <2>1, <2>2, <2>3, <2>4 DEF SelectOne, RetryInv
<1>4. CASE SelectBatch
  BY <1>4 DEF SelectBatch, Observe, RetryInv
<1>5. CASE RepairFieldFailures
  <2>1. /\ UNCHANGED <<observations, preResolverNegatives, setup, pending>>
        /\ pc = "field_repair"
        /\ pc' = IF FailedFields = {} THEN "layer3" ELSE "retry"
        /\ repair'.round = 1 /\ repair'.fields = FailedFields
        /\ repair'.queue = FailedFields
    BY <1>5 DEF RepairFieldFailures, StartRepair
  <2>2. \A n \in preResolverNegatives :
          n.kind = "field_failure" => n.field \in FailedFields
    BY DEF FailedFields
  <2>3. Retried' = {}
    BY <2>1 DEF Retried
  <2>4. QED
    BY <2>1, <2>2, <2>3 DEF RetryInv
<1>6. CASE RepairLayer3
  <2>1. /\ UNCHANGED <<observations, preResolverNegatives, setup, pending,
                       layer3Instances>>
        /\ pc = "object_repair"
        /\ pc' = IF ImplicatedFields = {} THEN "assemble" ELSE "retry"
        /\ repair'.round = 2 /\ repair'.fields = ImplicatedFields
        /\ repair'.queue = ImplicatedFields
    BY <1>6 DEF RepairLayer3, StartRepair
  <2>2. ImplicatedFields = {} => NothingToBlame'
    BY <2>1 DEF ImplicatedFields, NothingToBlame
  <2>3. Retried' = {}
    BY <2>1 DEF Retried
  <2>4. \A n \in preResolverNegatives :
          RepairEnabled /\ n.kind = "field_failure" => TriedAgain(n.field)'
    BY <1>1, <2>1 DEF RetryInv
  <2>5. QED
    BY <1>0, <2>1, <2>2, <2>3, <2>4 DEF RetryInv
<1>7. CASE RetryField
  <2>1. PICK f \in NextRetries :
          \E d \in Decisions(f, Document) :
            /\ observations' = observations
                                 \cup {Observe(f, Document, repair.round, d)}
            /\ repair'.round = repair.round
            /\ repair'.fields = repair.fields
            /\ repair'.queue = repair.queue \ {f}
    BY <1>7 DEF RetryField, TypeOK, Repair
  <2>0. PICK d \in Decisions(f, Document) :
          observations' = observations
                            \cup {Observe(f, Document, repair.round, d)}
    BY <2>1
  <2> DEFINE o == Observe(f, Document, repair.round, d)
  <2>2. /\ observations' = observations \cup {o}
        /\ o.field = f /\ o.inst = Document /\ o.round = repair.round
    BY <2>0 DEF Observe
  <2> HIDE DEF o
  <2>3. /\ UNCHANGED <<preResolverNegatives, setup, pending>>
        /\ pc = "retry" /\ pc' = "retry"
    BY <1>7 DEF RetryField
  <2>4. Retried' \subseteq Retried \cup {f}
    BY <2>1, <2>3 DEF Retried
  <2>5. \A g : TriedAgain(g) => TriedAgain(g)'
    BY <2>2 DEF TriedAgain
  <2>6. \A g \in Retried' : \E p \in observations' :
          p.field = g /\ p.round = repair'.round
    BY <2>1, <2>2, <2>3, <2>4 DEF RetryInv
  <2>7. QED
    BY <1>0, <2>1, <2>2, <2>3, <2>5, <2>6 DEF RetryInv
<1>8. CASE FinishRepair
  <2>1. /\ UNCHANGED <<observations, setup, pending, repair>>
        /\ pc = "retry" /\ repair.queue = {}
        /\ preResolverNegatives' =
             {n \in preResolverNegatives : n.field \notin repair.fields}
               \cup repair.refused
        /\ pc' = IF repair.round = 1 THEN "layer3" ELSE "assemble"
    BY <1>8 DEF FinishRepair, Replaced
  <2>2. repair.round \in 1..2
    BY <2>1 DEF RetryInv, TypeOK, Repair
  <2>3. Retried = repair.fields
    BY <2>1 DEF Retried
  <2>4. \A f \in repair.fields : \E o \in observations :
          o.field = f /\ o.round = repair.round
    BY <2>1, <2>3 DEF RetryInv
  <2>5. \A n \in repair.refused : n.field \in repair.fields
    BY <2>1, <2>3 DEF ToldInv
  <2>6. \A n \in repair.refused : TriedAgain(n.field)
    BY <2>2, <2>4, <2>5 DEF TriedAgain
  <2>7. RepairEnabled =>
          \A n \in preResolverNegatives' :
            n.kind = "field_failure" => TriedAgain(n.field)'
    BY <1>1, <2>1, <2>6 DEF RetryInv
  <2>8. repair.round # 1 => \E o \in observations' : o.round = 2
    BY <2>1, <2>2, <2>4 DEF RetryInv
  <2>9. QED
    BY <1>0, <2>1, <2>7, <2>8 DEF RetryInv
<1>9. CASE ApplyLayer3
  <2>1. /\ UNCHANGED <<observations, preResolverNegatives, setup, pending>>
        /\ pc = "layer3"
        /\ pc' = IF RepairEnabled THEN "object_repair" ELSE "assemble"
    BY <1>9 DEF ApplyLayer3
  <2>2. QED
    BY <1>0, <1>1, <2>1 DEF RetryInv
<1>10. CASE AssembleFailed \/ Assemble \/ BuildArtifact
  <2>1. /\ UNCHANGED <<observations, preResolverNegatives, setup, pending,
                       layer3Instances>>
        /\ pc \in {"assemble", "persist"} /\ pc' \in {"persist", "done"}
    BY <1>10 DEF AssembleFailed, Assemble, BuildArtifact
  <2>2. NothingToBlame' <=> NothingToBlame
    BY <2>1 DEF NothingToBlame
  <2>3. QED
    BY <1>0, <1>1, <2>1, <2>2 DEF RetryInv
<1>11. CASE Finished \/ UNCHANGED vars
  <2>1. UNCHANGED vars
    BY <1>11 DEF Finished
  <2>2. /\ NothingToBlame' <=> NothingToBlame
        /\ Retried' = Retried
    BY <2>1 DEF NothingToBlame, Retried, vars
  <2>3. QED
    BY <1>0, <1>1, <2>1, <2>2 DEF vars, RetryInv
<1>12. QED
  BY <1>2, <1>3, <1>4, <1>5, <1>6, <1>7, <1>8, <1>9, <1>10, <1>11 DEF Next

\* A field failure is refused of a candidate that was selected.
LEMMA FieldFailureType ==
  ASSUME NEW o \in Observation, NEW n \in Refused(o),
         n.kind = "field_failure"
  PROVE  o.outcome = "selected" /\ n.cand \in o.ids
<1>1. \A m \in AdaptRefusal(o) : m.kind # "field_failure"
  BY DEF AdaptRefusal, AdaptRefusalKinds, Refusal, Observation
<1>2. PICK c \in Proposed(o) : n.cand = c
  BY <1>1 DEF Refused, Refusal
<1>3. QED
  BY <1>2 DEF Proposed

\* What a report says against an instance stands before the instances, or is
\* said by one; and no instance speaks of a field failure.
LEMMA ReportedFrom ==
  ASSUME AccountInv, Reported, NEW n \in ReportedNegatives
  PROVE  /\ n.kind = "field_failure" => n \in preResolverNegatives
         /\ n.kind = "instance_failure" =>
              \E x \in layer3Instances : n \in x.negatives
<1>1. \A m \in preResolverNegatives : m.kind # "instance_failure"
  BY DEF AccountInv, TypeOK, FieldNegative
<1>2. \A x \in Resolve(validatedFields) : \A m \in x.negatives :
        m.kind \in {"one_multiple_instances", "per_instance_multi"}
  BY DEF Resolve, CardinalityRefused, Refusal
<1>3. layer3Instances = Validate3(Resolve(validatedFields))
  BY DEF AccountInv, ReportInv, Reported
<1>4. Resolve(validatedFields) \subseteq InstanceOutcome
  BY ResolveType DEF AccountInv, TypeOK
<1>5. \A x \in layer3Instances : \A m \in x.negatives :
        m.kind # "field_failure"
  <2> DEFINE marked(x) == [x EXCEPT !.outcome = "partial",
                                    !.negatives = @ \cup {InstanceFailure(x)}]
  <2>1. \A x \in Resolve(validatedFields) :
          marked(x).negatives = x.negatives \cup {InstanceFailure(x)}
    BY <1>4 DEF InstanceOutcome
  <2>2. \A x : InstanceFailure(x).kind = "instance_failure"
    BY DEF InstanceFailure
  <2>3. layer3Instances =
          {IF ObjectVerdict(x).fails THEN marked(x) ELSE x :
             x \in Resolve(validatedFields)}
    BY <1>3 DEF Validate3
  <2> HIDE DEF marked
  <2>4. \A y \in layer3Instances : \E x \in Resolve(validatedFields) :
          y.negatives \subseteq x.negatives \cup {InstanceFailure(x)}
    BY <2>1, <2>3
  <2>5. QED
    BY <1>2, <2>2, <2>4
<1>6. CASE layer3Instances = {}
  BY <1>1, <1>6 DEF AccountInv, ReportInv, ReportedNegatives
<1>7. CASE layer3Instances # {}
  <2>1. PICK y \in Attached : n \in y.negatives
    BY <1>7 DEF AccountInv, ReportInv, ReportedNegatives
  <2>2. \E x \in layer3Instances :
          n \in x.negatives \/ n \in preResolverNegatives
    <3>1. CASE preResolverNegatives = {}
      BY <2>1, <3>1 DEF Attached
    <3>2. CASE preResolverNegatives # {}
      <4>1. PICK x \in layer3Instances :
              y = [x EXCEPT !.outcome = "partial",
                            !.negatives = @ \cup preResolverNegatives]
        BY <2>1, <3>2 DEF Attached
      <4>2. y.negatives = x.negatives \cup preResolverNegatives
        BY <4>1 DEF AccountInv, TypeOK, InstanceOutcome
      <4>3. QED
        BY <2>1, <4>2
    <3>3. QED
      BY <3>1, <3>2
  <2>3. QED
    BY <1>1, <1>5, <2>2
<1>8. QED
  BY <1>6, <1>7

\* With repair enabled a failure is reported only of a retry, or after one.
THEOREM FailuresWereRetried == Spec => []FailuresAreRetried
<1>1. ASSUME AccountInv, ToldInv, RetryInv PROVE FailuresAreRetried
  <2> SUFFICES ASSUME Reported, RepairEnabled, NEW n \in ReportedNegatives
               PROVE
                 /\ n.kind = "field_failure" =>
                      \E o \in observations :
                        /\ IsLatest(o) /\ o.round > 0 /\ o.field = n.field
                        /\ o.outcome = "selected" /\ n.cand \in o.ids
                 /\ /\ n.kind = "instance_failure"
                    /\ n.implicates \cap Field # {}
                    => \E o \in observations : o.round = 2
    BY DEF FailuresAreRetried
  <2>1. /\ n.kind = "field_failure" => n \in preResolverNegatives
        /\ n.kind = "instance_failure" =>
             \E x \in layer3Instances : n \in x.negatives
    BY <1>1, ReportedFrom
  <2>2. \A o \in observations : o \in Observation /\ o.inst = Document
    BY <1>1 DEF AccountInv, TypeOK, PlanInv, Supported, RetryInv, Reported
  <2>3. ASSUME n.kind = "field_failure"
        PROVE  \E o \in observations :
                 /\ IsLatest(o) /\ o.round > 0 /\ o.field = n.field
                 /\ o.outcome = "selected" /\ n.cand \in o.ids
    <3>1. n \in preResolverNegatives
      BY <2>1, <2>3
    <3>2. Told(n) /\ TriedAgain(n.field)
      BY <1>1, <2>3, <3>1 DEF ToldInv, RetryInv, Retried, Reported
    <3>3. PICK o \in observations : IsLatest(o) /\ n \in Refused(o)
      BY <3>2 DEF Told
    <3>4. PICK p \in observations : p.field = n.field /\ p.round > 0
      BY <3>2 DEF TriedAgain
    <3>5. o.field = n.field
      BY <2>2, <3>3, RefusedType
    <3>6. p.round <= o.round
      BY <2>2, <3>3, <3>4, <3>5 DEF IsLatest
    <3>7. o.round > 0
      BY <2>2, <3>4, <3>6 DEF Observation
    <3>8. o.outcome = "selected" /\ n.cand \in o.ids
      BY <2>2, <2>3, <3>3, FieldFailureType
    <3>9. QED
      BY <3>3, <3>5, <3>7, <3>8
  <2>4. ASSUME n.kind = "instance_failure", n.implicates \cap Field # {}
        PROVE  \E o \in observations : o.round = 2
    BY <1>1, <2>1, <2>4 DEF RetryInv, NothingToBlame, Reported
  <2>5. QED
    BY <2>3, <2>4
<1>2. ToldInv /\ RetryInv /\ AccountInv /\ [Next]_vars => ToldInv' /\ RetryInv'
  BY ToldStep, RetryStep DEF AccountInv
<1>3. QED
  BY <1>1, <1>2, InitRetry, AccountHolds, PTL DEF Spec
=============================================================================
