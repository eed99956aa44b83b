------------------------------ MODULE SerialRun ------------------------------
(***************************************************************************)
(* One immediate run of the serial executor: the pre-run gate, candidate   *)
(* generation, the instance proposer, selection, adaptation and field      *)
(* validation, instance resolution, the bounded field-repair round, layer  *)
(* 3 (object) validation, the bounded object-repair round, the assembly of *)
(* the Extraction and of the replay artifact.                              *)
(*                                                                         *)
(*   execution/executor/serial.py         SerialExecutor.execute           *)
(*   execution/strategies/independent.py  IndependentStrategy.run          *)
(*                                                                         *)
(* The executor is single threaded, so every action is one component call  *)
(* and all that the executor does with its answer. What a component may    *)
(* answer is nondeterministic (a selector is a language model); what a     *)
(* pure component computes (validators, gate) is fixed by the constants.   *)
(***************************************************************************)
EXTENDS Naturals

CONSTANTS
  NumFields,      \* spec.fields: field f is the f-th declared one
  FieldCard,      \* FieldSpec.cardinality of every field
  Cand,           \* every candidate some generator can emit
  FieldOf,        \* the field whose generator emits the candidate
  LineOf,         \* the text line the candidate starts on
  Structured,     \* candidates that passed a structured-source contract
  Layer1Bad,      \* candidates the candidate-level checks refuse
  Layer2Bad,      \* candidates the field validators refuse
  Layer3,         \* verdict of the object validators on a set of candidates
  Document,       \* the scope of a single-instance run ("inst_0")
  NoInstance,     \* instance_key = None
  NoCand,         \* a negative outcome that concerns no one candidate
  Setups          \* the (policy, spec cardinality, storage) to start from

Field == 1..NumFields

\* FieldRef.field_id inside an object issue; 0 names no declared field
FieldRef == 0..NumFields

Line == {LineOf[c] : c \in Cand}

Setup == [strategy : {"independent", "iterative", "batch"},
          repair   : {"unset", "on", "off"},
          capture  : BOOLEAN,
          many     : BOOLEAN,
          storage  : BOOLEAN]

Verdict == [fails : BOOLEAN, implicates : SUBSET FieldRef]

ASSUME SpecAssumption ==
  /\ NumFields \in Nat
  /\ FieldCard \in [Field -> {"one", "per_instance", "optional", "many"}]

ASSUME CandidateAssumption ==
  /\ FieldOf \in [Cand -> Field]
  /\ LineOf \in [Cand -> Line]
  /\ Structured \subseteq Cand
  /\ Layer1Bad \subseteq Cand
  /\ Layer2Bad \subseteq Cand
  /\ Document \notin Line
  /\ NoInstance \notin Line \cup {Document}
  /\ NoCand \notin Cand

\* an object validator that passes raises no issue
ASSUME Layer3Assumption ==
  /\ Layer3 \in [SUBSET Cand -> Verdict]
  /\ \A S \in SUBSET Cand : ~Layer3[S].fails => Layer3[S].implicates = {}

ASSUME SetupAssumption == Setups \subseteq Setup

-----------------------------------------------------------------------------
VARIABLES
  pc,                   \* where SerialExecutor.execute is
  setup,                \* policy, spec.instance_cardinality, storage binding
  candidateSets,        \* StrategyOutput.candidate_sets
  plan,                 \* the instances the run selects for
  pending,              \* (field, instance) units the first pass still owes
  observations,         \* StrategyOutput.observations
  validatedFields,      \* StrategyOutput.validated_fields
  preResolverNegatives, \* StrategyOutput.pre_resolver_negatives
  finalInstances,       \* StrategyOutput.final_instances
  layer3Instances,      \* the instances after layer 3
  repair,               \* the repair round under way
  result,               \* the Extraction handed to the caller
  artifact,             \* the ReplayArtifact of the run
  fault                 \* why the run raised, if it did

vars == <<pc, setup, candidateSets, plan, pending, observations,
          validatedFields, preResolverNegatives, finalInstances,
          layer3Instances, repair, result, artifact, fault>>

Instance == Line \cup {Document}

Observation ==
  [field : Field, inst : Instance, round : 0..2,
   outcome : {"selected", "ambiguous", "abstained", "no_candidates"},
   ids : SUBSET Cand]

Validated == [field : Field, inst : Instance, cand : Cand]

Negative ==
  [kind : {"ambiguous", "abstained", "no_candidates", "empty_selection",
           "many_selected", "candidate_failure", "field_failure",
           "one_multiple_instances", "per_instance_multi",
           "instance_failure"},
   field : FieldRef, inst : Instance \cup {NoInstance},
   cand : Cand \cup {NoCand}, implicates : SUBSET FieldRef]

\* what the steps before layer 3 refuse concerns a declared field
FieldNegative == {n \in Negative : /\ n.field \in Field
                                   /\ n.kind # "instance_failure"}

\* an instance of the result; instance_key is its planned scope
InstanceOutcome ==
  [inst : Instance, outcome : {"complete", "partial"},
   evidence : SUBSET Validated, negatives : SUBSET Negative]

NoRepair == [round |-> 0, fields |-> {}, queue |-> {},
             kept |-> {}, refused |-> {}]

NoReport == [outcome |-> "none", instances |-> {}, events |-> {}]

RepairEnabled ==
  \/ setup.repair = "on"
  \/ setup.repair = "unset" /\ setup.strategy = "iterative"

Refusal(kind, f, i, c) ==
  [kind |-> kind, field |-> f, inst |-> i, cand |-> c, implicates |-> {}]

-----------------------------------------------------------------------------
(* Components the executor calls                                           *)

\* the candidates the selector may choose from for a field in an instance
CandidateSet(f, i) ==
  IF i = Document THEN candidateSets[f]
                  ELSE {c \in candidateSets[f] : LineOf[c] = i}

\* the selection gate: the sole structured candidate, or none
AutoSelected(S) ==
  {c \in S \cap Structured : S \cap Structured = {c}}

\* what a selector that keeps the seam-D contract may answer for S
Answers(S) ==
  [outcome : {"selected"}, ids : SUBSET S]
    \cup [outcome : {"ambiguous"}, ids : SUBSET S \ {{}}]
    \cup [outcome : {"abstained"}, ids : {{}}]
    \cup (IF S = {} THEN [outcome : {"no_candidates"}, ids : {{}}] ELSE {})

\* the gate decides alone, or the selector is called
Decisions(f, i) ==
  LET auto == AutoSelected(CandidateSet(f, i))
  IN  IF auto # {} THEN {[outcome |-> "selected", ids |-> auto]}
                   ELSE Answers(CandidateSet(f, i))

CallsSelector(f, i) == AutoSelected(CandidateSet(f, i)) = {}

Observe(f, i, r, d) ==
  [field |-> f, inst |-> i, round |-> r, outcome |-> d.outcome, ids |-> d.ids]

\* the instance_key a negative of the unit carries: the candidate set's hint
Hint(i) == IF i = Document THEN NoInstance ELSE i

\* CardinalitySelectionAdapter.adapt: why it refuses an observation, if it does
AdaptRefusalKinds(o) ==
  IF o.outcome # "selected" THEN {o.outcome}
  ELSE IF FieldCard[o.field] = "many" \/ (\E c \in o.ids : o.ids = {c}) THEN {}
  ELSE IF o.ids # {} THEN {"many_selected"}
  ELSE IF FieldCard[o.field] = "optional" THEN {"abstained"}
  ELSE {"empty_selection"}

AdaptRefusal(o) ==
  {Refusal(kind, o.field, Hint(o.inst), NoCand) : kind \in AdaptRefusalKinds(o)}

Proposed(o) ==
  IF o.outcome = "selected" /\ AdaptRefusal(o) = {} THEN o.ids ELSE {}

\* adapt_and_validate: what an observation contributes to validated_fields
Kept(o) ==
  {[field |-> o.field, inst |-> o.inst, cand |-> c] :
     c \in Proposed(o) \ (Layer1Bad \cup Layer2Bad)}

\* ... and to pre_resolver_negatives: candidate checks come before the
\* field validators, whose escalated failure drops the instance_key
Refused(o) ==
  AdaptRefusal(o)
    \cup {Refusal("candidate_failure", o.field, o.inst, c) :
            c \in Proposed(o) \cap Layer1Bad}
    \cup {Refusal("field_failure", o.field, NoInstance, c) :
            c \in Proposed(o) \cap (Layer2Bad \ Layer1Bad)}

\* DeterministicInstanceResolver.resolve on what the executor hands it: every
\* validated field falls in the bucket of the instance it was selected for
\* (module InstanceResolver has the authority ladder that decides this)
SpreadNever(V, f) == FALSE    \* mutant: ONE is not checked across buckets

Spread(V, f) ==
  /\ FieldCard[f] = "one"
  /\ \E v, w \in V : v.field = f /\ w.field = f /\ v.inst # w.inst

Crowded(V, f, i) ==
  /\ FieldCard[f] = "per_instance"
  /\ \E v, w \in V : /\ v.field = f /\ w.field = f /\ v.inst = i /\ w.inst = i
                     /\ v # w

CardinalityRefused(V, i) ==
  LET present == {f \in Field : \E v \in V : v.field = f /\ v.inst = i}
  IN  {Refusal("one_multiple_instances", f, i, NoCand) :
         f \in {g \in present : Spread(V, g)}}
        \cup {Refusal("per_instance_multi", f, i, NoCand) :
                f \in {g \in present : Crowded(V, g, i)}}

Resolve(V) ==
  {[inst      |-> i,
    outcome   |-> IF CardinalityRefused(V, i) = {} THEN "complete"
                                                   ELSE "partial",
    evidence  |-> {v \in V : /\ v.inst = i
                             /\ ~Spread(V, v.field)
                             /\ ~Crowded(V, v.field, i)},
    negatives |-> CardinalityRefused(V, i)] : i \in {v.inst : v \in V}}

\* the object validators see the candidates an instance's evidence holds
ObjectVerdict(x) == Layer3[{v.cand : v \in x.evidence}]

InstanceFailure(x) ==
  [kind |-> "instance_failure", field |-> 0, inst |-> x.inst,
   cand |-> NoCand, implicates |-> ObjectVerdict(x).implicates]

\* _apply_layer3_validation and _escalate_layer3_failure
Validate3(X) ==
  {IF ObjectVerdict(x).fails
   THEN [x EXCEPT !.outcome = "partial",
                  !.negatives = @ \cup {InstanceFailure(x)}]
   ELSE x : x \in X}

\* _field_repair_feedback and _object_repair_feedback: the declared fields to
\* retry
FailedInPlace ==    \* mutant: an escalated failure, which has lost its
                    \* instance_key, is not found
  {n.field : n \in {m \in preResolverNegatives :
                      m.kind = "field_failure" /\ m.inst # NoInstance}}

FailedFields == {n.field : n \in {m \in preResolverNegatives :
                                    m.kind = "field_failure"}}

\* mutant: names no field of the spec declares are retried too
ImplicatedUnfiltered ==
  UNION {n.implicates :
           n \in {m \in UNION {x.negatives : x \in layer3Instances} :
                    m.kind = "instance_failure"}}

ImplicatedFields ==
  Field \cap UNION {n.implicates :
                      n \in {m \in UNION {x.negatives : x \in layer3Instances} :
                               m.kind = "instance_failure"}}

\* mutants: the first pass survives its retry; the other fields do not
ReplacedNothing(original, fields, repaired) == original \cup repaired
ReplacedAll(original, fields, repaired) == repaired

\* the retried fields give way to what the retry kept; others stay
Replaced(original, fields, repaired) ==
  {v \in original : v.field \notin fields} \cup repaired

-----------------------------------------------------------------------------
(* The steps of execute                                                    *)

\* mutant: repair and batch are let through for several instances
SupportedMany == ~setup.capture

Supported ==
  /\ ~setup.capture
  /\ setup.many => ~RepairEnabled /\ setup.strategy # "batch"

Gate ==
  /\ pc = "gate"
  /\ pc' = IF Supported THEN "generate" ELSE "rejected"
  /\ UNCHANGED <<setup, candidateSets, plan, pending, observations,
                 validatedFields, preResolverNegatives, finalInstances,
                 layer3Instances, repair, result, artifact, fault>>

\* the first pass of every field over every selected instance
StartSelecting(insts) ==
  /\ plan' = insts
  /\ pending' = Field \X insts
  /\ pc' = "select"

GenerateCandidates ==
  /\ pc = "generate"
  /\ candidateSets' \in [Field -> SUBSET Cand]
  /\ \A f \in Field : \A c \in candidateSets'[f] : FieldOf[c] = f
  /\ IF setup.many THEN pc' = "propose" /\ UNCHANGED <<plan, pending>>
                   ELSE StartSelecting({Document})
  /\ UNCHANGED <<setup, observations, validatedFields, preResolverNegatives,
                 finalInstances, layer3Instances, repair, result, artifact,
                 fault>>

Raise(why) ==
  /\ pc' = "raised"
  /\ fault' = why
  /\ UNCHANGED <<setup, candidateSets, plan, pending, observations,
                 validatedFields, preResolverNegatives, finalInstances,
                 layer3Instances, repair, result, artifact>>

\* one instance candidate per text line that holds a candidate
InstanceCandidates == {LineOf[c] : c \in UNION {candidateSets[f] : f \in Field}}

Propose ==
  /\ pc = "propose"
  /\ \E insts \in SUBSET InstanceCandidates \ {{}} : StartSelecting(insts)
  /\ UNCHANGED <<setup, candidateSets, observations, validatedFields,
                 preResolverNegatives, finalInstances, layer3Instances,
                 repair, result, artifact, fault>>

\* an empty, duplicated or unknown selection is refused
ProposeRefused ==
  /\ pc = "propose"
  /\ Raise("proposer")

\* units of the first field in declaration order that still has one; within a
\* field, instances come in the proposer's order, which may be any
NextUnits == {u \in pending : \A w \in pending : u[1] <= w[1]}

\* _select_validate_independent, one unit
SelectOne ==
  /\ pc = "select"
  /\ setup.strategy # "batch"
  /\ \E u \in NextUnits :
       /\ \E d \in Decisions(u[1], u[2]) :
            LET o == Observe(u[1], u[2], 0, d)
            IN  /\ observations' = observations \cup {o}
                /\ validatedFields' = validatedFields \cup Kept(o)
                /\ preResolverNegatives' = preResolverNegatives \cup Refused(o)
       /\ pending' = pending \ {u}
  /\ UNCHANGED <<pc, setup, candidateSets, plan, finalInstances,
                 layer3Instances, repair, result, artifact, fault>>

\* fields the batch selector is called for: not gated, not empty
SoftFields == {f \in Field : /\ CallsSelector(f, Document)
                             /\ candidateSets[f] # {}}

\* _select_validate_batch: all fields; module SelectorPlanner has the calls
SelectBatch ==
  /\ pc = "select"
  /\ setup.strategy = "batch"
  /\ pending # {}
  /\ \E d \in [Field -> UNION {Decisions(f, Document) : f \in Field}] :
       LET O == {Observe(f, Document, 0, d[f]) : f \in Field}
       IN  /\ \A f \in Field :
                IF candidateSets[f] = {} THEN d[f].outcome = "no_candidates"
                                         ELSE d[f] \in Decisions(f, Document)
           /\ observations' = O
           /\ validatedFields' = UNION {Kept(o) : o \in O}
           /\ preResolverNegatives' = UNION {Refused(o) : o \in O}
  /\ pending' = {}
  /\ UNCHANGED <<pc, setup, candidateSets, plan, finalInstances,
                 layer3Instances, repair, result, artifact, fault>>

\* the first field of the repair round that has not been retried yet
NextRetries == {f \in repair.queue : \A g \in repair.queue : f <= g}

\* a selector breaks its contract or its provider fails
SelectorFails ==
  /\ \/ /\ pc = "select" /\ setup.strategy # "batch"
        /\ \E u \in NextUnits : CallsSelector(u[1], u[2])
     \/ /\ pc = "select" /\ setup.strategy = "batch"
        /\ pending # {} /\ SoftFields # {}
     \/ /\ pc = "retry"
        /\ \E f \in NextRetries : CallsSelector(f, Document)
  /\ Raise("selector")

ResolveFirst ==
  /\ pc = "select"
  /\ pending = {}
  /\ finalInstances' = Resolve(validatedFields)
  /\ pc' = IF RepairEnabled THEN "field_repair" ELSE "layer3"
  /\ UNCHANGED <<setup, candidateSets, plan, pending, observations,
                 validatedFields, preResolverNegatives, layer3Instances,
                 repair, result, artifact, fault>>

StartRepair(round, fields) ==
  /\ repair' = [round |-> round, fields |-> fields, queue |-> fields,
                kept |-> {}, refused |-> {}]
  /\ UNCHANGED <<setup, candidateSets, plan, pending, observations,
                 validatedFields, preResolverNegatives, finalInstances,
                 layer3Instances, result, artifact, fault>>

\* _repair_field_failures_once, up to the retries
RepairFieldFailures ==
  /\ pc = "field_repair"
  /\ pc' = IF FailedFields = {} THEN "layer3" ELSE "retry"
  /\ StartRepair(1, FailedFields)

\* _repair_layer3_once, up to the retries
RepairLayer3 ==
  /\ pc = "object_repair"
  /\ pc' = IF ImplicatedFields = {} THEN "assemble" ELSE "retry"
  /\ StartRepair(2, ImplicatedFields)

\* one field again over its original candidate set, gate included
RetryField ==
  /\ pc = "retry"
  /\ \E f \in NextRetries :
       /\ \E d \in Decisions(f, Document) :
            LET o == Observe(f, Document, repair.round, d)
            IN  /\ observations' = observations \cup {o}
                /\ repair' = [repair EXCEPT !.queue = @ \ {f},
                                            !.kept = @ \cup Kept(o),
                                            !.refused = @ \cup Refused(o)]
  /\ UNCHANGED <<pc, setup, candidateSets, plan, pending, validatedFields,
                 preResolverNegatives, finalInstances, layer3Instances,
                 result, artifact, fault>>

\* the object round validates what it resolved anew
AfterRepairUnchecked(X) ==    \* mutant: layer 3 is not run again
  IF repair.round = 1 THEN layer3Instances ELSE X
AfterRepair(X) ==
  IF repair.round = 1 THEN layer3Instances ELSE Validate3(X)

\* the retries replace the fields' outcome and everything is resolved again
FinishRepair ==
  /\ pc = "retry"
  /\ repair.queue = {}
  /\ LET V == Replaced(validatedFields, repair.fields, repair.kept)
     IN  /\ validatedFields' = V
         /\ preResolverNegatives' =
              Replaced(preResolverNegatives, repair.fields, repair.refused)
         /\ finalInstances' = Resolve(V)
         /\ layer3Instances' = AfterRepair(Resolve(V))
  /\ pc' = IF repair.round = 1 THEN "layer3" ELSE "assemble"
  /\ UNCHANGED <<setup, candidateSets, plan, pending, observations, repair,
                 result, artifact, fault>>

ApplyLayer3 ==
  /\ pc = "layer3"
  /\ layer3Instances' = Validate3(finalInstances)
  /\ pc' = IF RepairEnabled THEN "object_repair" ELSE "assemble"
  /\ UNCHANGED <<setup, candidateSets, plan, pending, observations,
                 validatedFields, preResolverNegatives, finalInstances,
                 repair, result, artifact, fault>>

\* mutant: the negatives land but the instance stays complete
AttachedQuietly ==
  {[x EXCEPT !.negatives = @ \cup preResolverNegatives] :
     x \in layer3Instances}

\* _attach_pre_resolver_negatives on the sole instance
Attached ==
  IF preResolverNegatives = {} THEN layer3Instances
  ELSE {[x EXCEPT !.outcome = "partial",
                  !.negatives = @ \cup preResolverNegatives] :
          x \in layer3Instances}

RollUp(X) == IF \A x \in X : x.outcome = "complete" THEN "complete"
                                                   ELSE "partial"

Attachable == \/ preResolverNegatives = {}
              \/ \E x \in layer3Instances : layer3Instances = {x}

AssembleFailed ==
  /\ pc = "assemble"
  /\ layer3Instances = {}
  /\ result' = [outcome |-> "failed", instances |-> {},
                events |-> preResolverNegatives]
  /\ pc' = IF setup.storage THEN "persist" ELSE "done"
  /\ UNCHANGED <<setup, candidateSets, plan, pending, observations,
                 validatedFields, preResolverNegatives, finalInstances,
                 layer3Instances, repair, artifact, fault>>

Assemble ==
  /\ pc = "assemble"
  /\ layer3Instances # {}
  /\ Attachable
  /\ result' = [outcome |-> RollUp(Attached), instances |-> Attached,
                events |-> {}]
  /\ pc' = IF setup.storage THEN "persist" ELSE "done"
  /\ UNCHANGED <<setup, candidateSets, plan, pending, observations,
                 validatedFields, preResolverNegatives, finalInstances,
                 layer3Instances, repair, artifact, fault>>

\* "negative attachment is undefined for multi-instance runs"
AssembleRefused ==
  /\ pc = "assemble"
  /\ layer3Instances # {}
  /\ ~Attachable
  /\ Raise("attachment")

\* ReplayArtifact.final_instances: what layer 3 left, nothing attached yet
ArtifactUnvalidated == finalInstances   \* mutant: what the resolver left
ArtifactInstances == layer3Instances

\* _build_replay_artifact; the writes are in module RunStore
BuildArtifact ==
  /\ pc = "persist"
  /\ artifact' = [outcome |-> result.outcome, instances |-> ArtifactInstances,
                  events |-> result.events]
  /\ pc' = "done"
  /\ UNCHANGED <<setup, candidateSets, plan, pending, observations,
                 validatedFields, preResolverNegatives, finalInstances,
                 layer3Instances, repair, result, fault>>

Finished ==
  /\ pc \in {"done", "rejected", "raised"}
  /\ UNCHANGED vars

-----------------------------------------------------------------------------
Init ==
  /\ pc = "gate"
  /\ setup \in Setups
  /\ candidateSets = [f \in Field |-> {}]
  /\ plan = {}
  /\ pending = {}
  /\ observations = {}
  /\ validatedFields = {}
  /\ preResolverNegatives = {}
  /\ finalInstances = {}
  /\ layer3Instances = {}
  /\ repair = NoRepair
  /\ result = NoReport
  /\ artifact = NoReport
  /\ fault = "none"

Next ==
  \/ Gate \/ GenerateCandidates
  \/ Propose \/ ProposeRefused
  \/ SelectOne \/ SelectBatch \/ SelectorFails
  \/ ResolveFirst
  \/ RepairFieldFailures \/ RetryField \/ FinishRepair
  \/ ApplyLayer3 \/ RepairLayer3
  \/ AssembleFailed \/ Assemble \/ AssembleRefused
  \/ BuildArtifact
  \/ Finished

Spec == Init /\ [][Next]_vars

-----------------------------------------------------------------------------
(* Properties                                                              *)

Repair == [round : 0..2, fields : SUBSET Field, queue : SUBSET Field,
           kept : SUBSET Validated, refused : SUBSET FieldNegative]

Report == [outcome : {"none", "failed", "partial", "complete"},
           instances : SUBSET InstanceOutcome, events : SUBSET Negative]

\* The type of every variable.
TypeOK ==
  /\ pc \in {"gate", "rejected", "generate", "propose", "select",
             "field_repair", "retry", "layer3", "object_repair", "assemble",
             "persist", "done", "raised"}
  /\ setup \in Setup
  /\ candidateSets \in [Field -> SUBSET Cand]
  /\ plan \subseteq Instance
  /\ pending \subseteq Field \X Instance
  /\ observations \subseteq Observation
  /\ validatedFields \subseteq Validated
  /\ preResolverNegatives \subseteq FieldNegative
  /\ finalInstances \subseteq InstanceOutcome
  /\ layer3Instances \subseteq InstanceOutcome
  /\ repair \in Repair
  /\ result \in Report
  /\ artifact \in Report
  /\ fault \in {"none", "proposer", "selector", "attachment"}

Reported == pc \in {"persist", "done"}

ReportedEvidence == UNION {x.evidence : x \in result.instances}

ReportedNegatives ==
  result.events \cup UNION {x.negatives : x \in result.instances}

\* the last word of the selectors on a (field, instance) unit
IsLatest(o) ==
  /\ o \in observations
  /\ \A p \in observations :
       p.field = o.field /\ p.inst = o.inst => p.round <= o.round

\* Evidence comes from the last observation of its unit, never from one that
\* a repair round superseded, and only from candidates validation accepts.
EvidenceIsCurrent ==
  Reported =>
    \A v \in ReportedEvidence :
      /\ v.cand \notin Layer1Bad \cup Layer2Bad
      /\ \E o \in observations :
           /\ IsLatest(o)
           /\ o.field = v.field /\ o.inst = v.inst
           /\ o.outcome = "selected" /\ v.cand \in o.ids

\* Nothing a run decided disappears: when it reports, the last observation of
\* every unit shows, each candidate it selected as evidence or through a
\* negative of its field; only an empty selection for a MANY field is silent.
NothingVanishes ==
  Reported =>
    \A f \in Field, i \in plan :
      \E o \in observations :
        /\ IsLatest(o) /\ o.field = f /\ o.inst = i
        /\ \/ \E n \in ReportedNegatives :
                n.field = f /\ n.inst \in {i, NoInstance}
                            /\ n.cand = NoCand
           \/ /\ o.outcome = "selected"
              /\ o.ids = {} => FieldCard[f] = "many"
              /\ \A c \in o.ids :
                   \/ \E v \in ReportedEvidence :
                        v.field = f /\ v.inst = i /\ v.cand = c
                   \/ \E n \in ReportedNegatives : n.field = f /\ n.cand = c

\* A complete extraction reports no negative and holds exactly one value of
\* every field that is not MANY in every instance it was asked for.
CompleteMeansWhole ==
  Reported /\ result.outcome = "complete" =>
    /\ ReportedNegatives = {}
    /\ \A f \in Field, i \in plan :
         FieldCard[f] # "many" =>
           \E v \in ReportedEvidence :
             /\ v.field = f /\ v.inst = i
             /\ \A w \in ReportedEvidence :
                  w.field = f /\ w.inst = i => w = v

\* the instance carries an object failure iff its evidence deserves one
Fresh(x) ==
  ObjectVerdict(x).fails <=> \E n \in x.negatives : n.kind = "instance_failure"

\* Layer 3 spoke about the evidence that is reported, not about evidence a
\* repair round replaced: an instance carries the failure iff it fails.
Layer3IsFresh ==
  Reported => \A x \in result.instances : Fresh(x)

\* A document-level (ONE) field never has values in two reported instances.
OneFieldOneInstance ==
  Reported =>
    \A v, w \in ReportedEvidence :
      v.field = w.field /\ FieldCard[v.field] = "one" => v.inst = w.inst

RepairConfined ==
  pc = "retry" /\ pc' \in {"layer3", "assemble"} =>
    \A f \in Field \ repair.fields :
      /\ {v \in validatedFields' : v.field = f}
           = {v \in validatedFields : v.field = f}
      /\ {n \in preResolverNegatives' : n.field = f}
           = {n \in preResolverNegatives : n.field = f}

\* A repair round disturbs only the fields it was asked to retry.
RepairIsConfined == [][RepairConfined]_vars

\* With repair enabled no failure is given up at the first attempt, and none
\* outlives its retry: a field failure is reported for a candidate that the
\* field's last observation selected, in a repair round, and an object failure
\* that names declared fields only after the object round has been held.
FailuresAreRetried ==
  Reported /\ RepairEnabled =>
    \A n \in ReportedNegatives :
      /\ n.kind = "field_failure" =>
           \E o \in observations :
             /\ IsLatest(o) /\ o.round > 0 /\ o.field = n.field
             /\ o.outcome = "selected" /\ n.cand \in o.ids
      /\ n.kind = "instance_failure" /\ n.implicates \cap Field # {} =>
           \E o \in observations : o.round = 2

\* The artifact keeps the report's outcome, evidence and object failures.
ArtifactKeepsEvidence ==
  pc = "done" /\ setup.storage =>
    /\ artifact.outcome = result.outcome
    /\ artifact.events = result.events
    /\ \A x \in result.instances :
         \E y \in artifact.instances :
           /\ y.inst = x.inst /\ y.evidence = x.evidence
           /\ \A n \in x.negatives :
                n.kind = "instance_failure" => n \in y.negatives

\* reconstruct_extraction, on the fields the Extraction shares with it
Reconstructed(a) == a

\* replay/engine.py and tests/replay: the Extraction rebuilt from the
\* artifact is the Extraction the caller got.
ArtifactReconstructs ==
  pc = "done" /\ setup.storage => Reconstructed(artifact) = result
=============================================================================
