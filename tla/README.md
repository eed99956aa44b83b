# A specification of extractx

extractx turns a document into typed, evidence-backed instances of a pydantic
schema. Candidates are generated from the text, a selector (usually a language
model) chooses among candidate ids, and deterministic code adapts, validates,
groups, repairs, reports and persists the outcome. This directory holds TLA+ modules
for the parts of that pipeline whose correctness depends on more than one step, the
TLC configurations that check them on small instances, and TLAPS proofs of what
matters most for every instance.

Source paths below are relative to `src/extractx/`.

## 1. The system

| component | state | operations | talks to |
|---|---|---|---|
| serial executor (`execution/executor/serial.py`) | the run in progress: strategy output, instances before and after layer 3, the result | `execute`, two bounded repair rounds, layer 3, assembly, `_persist_run`; `render`/`collect` of deferred submissions | strategy, validators, store |
| independent strategy (`execution/strategies/independent.py`) | candidate sets, observations, validated fields, negatives | `run`, `select_observation`, batch selection with packing, windows and shards, `adapt_and_validate`, `resolve_instances` | generators, proposer, selectors, adapter, validator, resolver |
| selector task planner (`execution/selector_planner.py`) | the batch being packed | `plan`, `plan_candidate_shards` | strategy |
| selection contract and gate (`selection/selector.py`, `candidates/selection_gate.py`) | none | contract enforcement, deterministic auto-selection | strategy |
| adapter and validation (`proposals/`) | none | cardinality table, candidate and field validation (layers 1, 2), object validation (layer 3) | strategy, executor |
| instance resolver (`instances/resolvers/deterministic.py`) | buckets of validated fields | authority ladder, cardinality rules | strategy |
| deferred lifecycle (`execution/deferred.py`, `extras/pydantic_ai/openai_deferred.py`) | manifests, handles, provider jobs | render, submit, poll, collect, aggregate | strategy, provider |
| artifact storage (`storage/local.py`, `execution/manifest.py`) | files under the store's root | `put_object`, `put_manifest`, reads | executor, other processes |
| replay (`replay/`) | artifacts | write, read, reconstruct, re-execute behind a drift gate | store, executor |
| runtime and budget (`execution/runtime.py`, `execution/budget.py`) | usage, which nothing reads | `record`; `check`, which nothing calls | strategy |
| instance proposer and planners (`instances/`) | none | one candidate per text line, plan from the answer; plan from boundary anchors | strategy, resolver |
| LLM selectors (`extras/pydantic_ai/selector.py`) | none | one model call per selector call, normalisation and checks of the answer | strategy |
| source adapters and anchors (`source/`, `core/anchors.py`) | none | text, markdown and HTML views, spans from text to source and back | generators, validator |
| candidate generators and prompts (`candidates/`, `selection/prompts/`) | none | regex, NER, literals, merge, filter, prompt contexts | strategy, selectors |
| schema compiler | none | compile pydantic models | everything |

The whole list, with what is modelled of each part, is `components` in
`PROJECT.json`.

### What is hard, and what has to be true

* **Repair over stale data.** A run selects, validates, resolves, and may then
  select some fields again, twice, for two different reasons. The report must speak
  about the last selection of every field, layer 3 must have judged the evidence
  that is reported, a repair must leave the fields it did not retry alone, and
  nothing decided on the way may vanish.
* **Failures become data.** Past the gate, problems are to be typed negatives and
  not exceptions; the negatives travel by several channels and meet at the assembly.
* **Two records of one run.** The report goes to the caller, the artifact to the
  store, and a replay compares them.
* **A store shared by processes, without locks.** Objects are shared by content
  hash, writes can fail or stop anywhere, a manifest must never dangle, and a reader
  must never see part of a file.
* **Budgets in characters.** Selection work is packed, windowed and sharded by
  estimates; no field and no candidate may fall between two calls.
* **Calls answered days later.** Deferred responses are matched, in another process,
  against requests that are rendered anew.
* **Many calls for one answer.** A sharded field is selected for again among the
  winners of its shards; whatever the model words clumsily on the way, the outcome
  should be the one of a single call.
* **Two coordinate systems.** A candidate has a span of the normalized text and one
  of the source, in bytes; patterns and recognizers count characters, and HTML
  references and tags make the two texts differ.
* **Which instance a value belongs to.** Four authorities may disagree, values may
  lie on the anchors of several instances, and cardinality may refuse what they
  decide.

`hazards` in `PROJECT.json` lists these at the lines where they bite, with the
properties that would notice.

## 2. The plan

| | modules | proofs |
|---|---|---|
| 1 | `SerialRun`: the immediate run | `SerialRunProofs` |
| 2 | `RunStore` and the abstract `RunArchive`: persistence | `RunStoreProofs` |
| 3 | `SelectorPlanner` (packing, candidate shards) and `DocumentWindows` | `SelectorPlannerProofs`, `DocumentWindowsProofs` |
| 4 | `SelectorAnswers` and `SelectorCalls`, which composes with it: a plan's calls and their reduction | `SelectorCallsProofs` |
| 5 | `OpenAIBatch`, `DeferredLifecycle` and the abstract `DeferredPromise` | `DeferredProofs` |
| 6 | `InstanceGrouping`, `InstanceResolver`, `FieldValidation`, and `InstanceAssembly`, which composes them | `InstanceAssemblyProofs` |
| 7 | `AnchoredText`, `CandidateSources`, `PromptContexts`, and `CandidateMenu`, which composes them | |

What is left to model: the replay engine with its drift gate, and the schema
compiler (section 11 says what else is not modelled and why).

`SequenceInduction` holds the lemmas about sequences and least elements that the
proofs share. The provers cannot instantiate an induction theorem whose parameter is
an operator, so it derives one whose parameter is a set of naturals
(`NatSetInduction`), and from it what `FlattenSeq` and `SetToSeq` of the community
modules compute. `Ordered` holds the two operators, used by several modules, that
loops of the form `for x in xs: if ...: append` come to; they are functions of a set
of places and not folds, so that they can be reasoned about.

Theorems worth proving next: `FoundIsOfferedOnce` of `CandidateMenu` (7), from what
the merge keeps of each strategy's set.

## 3. SerialRun

One call of `SerialExecutor.execute` on the immediate path. The executor is a
coroutine that does not await anything on this path, so an action is one component
call with everything the executor does with its answer; `pc` says which comes next.

| action | code |
|---|---|
| `Gate` | `_validate_supported_policy`, `_validate_supported_spec` |
| `GenerateCandidates` | candidate generation in `IndependentStrategy.run` |
| `Propose`, `ProposeRefused` | the instance proposer and its contract |
| `SelectOne`, `SelectBatch`, `SelectorFails` | `_select_validate_independent`, `_select_validate_batch`, contract breaches |
| `ResolveFirst` | `resolve_instances` |
| `RepairFieldFailures`, `RetryField`, `FinishRepair` | `_repair_field_failures_once`, `_retry_fields_once` |
| `ApplyLayer3`, `RepairLayer3` | `_apply_layer3_validation`, `_repair_layer3_once` |
| `Assemble`, `AssembleFailed`, `AssembleRefused` | `_assemble_result`, `_attach_pre_resolver_negatives` |
| `BuildArtifact` | `_build_replay_artifact` |

What a component may answer is nondeterministic where the code cannot know it:
candidate sets are any sets that respect a candidate's field, a selector gives any
answer the seam-D contract lets through (`Answers`) or breaks the contract. What a
component computes is fixed: the gate's auto-selection, the adapter's cardinality
table (`AdaptRefusalKinds`), which candidates the two field layers refuse
(`Layer1Bad`, `Layer2Bad`) and what the object validators say of a set of candidates
(`Layer3`) are constants or operators of constants, because the validators are pure
functions of their input.

Abstracted: values (a candidate stands for its value), text of reasons, traces,
prompts, diagnostics and usage, which is written and never read; a negative keeps
its kind, field, instance, candidate and the fields it implicates. The calls of a
batch are one action; how they are packed and executed are `SelectorPlanner` and
`SelectorCalls`. Deferred execution is `DeferredLifecycle`; the resolver on inputs
with hints the executor never produces is `InstanceAssembly`. Dependencies between
fields are not covered: the gate refuses them.

### Runs

The run `serial_run` has three fields, ONE, OPTIONAL and MANY, with two, two and
three candidates, of which the field validators refuse two, one each. Runs over one
scope are independent, iterative and batch, with the default repair, and batch with
repair on; runs over several instances are over two lines of text, under the policy
that runs and those the gate refuses. Three fields are needed for an object
validator to implicate one, two, none or an undeclared one of those it read; two
candidates per field for a retry to choose differently, the third so that a MANY
field can keep one value and have one refused; two lines for a document-level field
to be answered in two instances, and for a value to be in the wrong one.

It checks `TypeOK`, and that reported evidence is of the last observation and passed
the field validators (`EvidenceIsCurrent`); a complete report has no negative and
every required value (`CompleteMeansWhole`); object failures are those of the
evidence they are reported with (`Layer3IsFresh`); with repair enabled no failure is
given up at the first attempt or outlives its retry (`FailuresAreRetried`); every
selected candidate is evidence or refused by name (`NothingVanishes`); a ONE field
is in one instance at most (`OneFieldOneInstance`); the artifact keeps what the
report has (`ArtifactKeepsEvidence`); and a repair leaves alone what it does not
retry (`RepairIsConfined`).

The run `serial_reconstruct` is a disagreement, section 12.

That a run ends needs no property: there are two repair rounds because the code is
straight-line, one after the other. So no fairness is assumed.

### Proved (SerialRunProofs)

For every spec, candidate universe, validator table and policy that meets the named
assumptions of `SerialRun`:

* `TypeCorrect`: `[]TypeOK`, which is inductive by itself.
* `ObjectVerdictsAreFresh`, `OneInstancePerDocumentField`: `InstanceInv` follows the
  instances from the resolver through layer 3 to the report: they hold only
  validated fields, in one instance per ONE field, and carry an object failure
  exactly when the evidence they hold fails. It is needed because the two facts are
  established steps before the report, and the object repair replaces both instances
  and verdicts.
* `ReportedEvidenceIsCurrent`: `RoundInv` orders the repair rounds (no observation
  is newer than the round under way, none of the round exists for a field still
  queued) and `BackedInv` says every validated field is backed by the last
  observation of its unit, except those that a repair is about to replace.
* `RepairsAreConfined`: the action property, from `TypeOK` and `BackedInv`'s part
  about what a round has kept.

The second part goes on to what the report tells about everything that was decided.
A decision travels from a selector to the report through several sets that later
steps replace, so `AccountInv` says at every step where it is:

* `PlanInv`: repair and batch selection happen in runs with one instance only, and
  nothing is pending after the first pass.
* `UniqueInv`: no unit is asked twice in a round, so "the last observation" of a
  unit is one observation.
* `CoverInv`: every planned unit that is not pending has a last observation, and
  what the adapter and the validators made of it is with the run, or with the repair
  round that is about to be merged into the run.
* `ReportInv`: the instances at hand are the resolution of the validated fields as
  they stand, and report and artifact are made from nothing else.

From it follow

* `DecisionsAreReported`: `[]NothingVanishes`. `ResolveAccounts` and
  `ReportAccounts` show that resolution, layer 3 and the attachment of negatives
  lose nothing that is accounted for.
* `CompleteExtractionsAreWhole`: `[]CompleteMeansWhole`; a report without a negative
  leaves every required field only the case in which it has evidence.
* `ArtifactsKeepEvidence`: `[]ArtifactKeepsEvidence`, which needs that attaching
  negatives leaves evidence alone (`AttachedKeeps`, `AttachedComesFrom`).
* `FailuresWereRetried`: `[]FailuresAreRetried`. It takes the reverse of the
  account: `ToldInv` says that every negative kept comes from the last observation
  of its unit, or is of a field the round under way has yet to replace; `RetryInv`
  that every failed field was asked again once the field round is over, and that the
  object round was held if the verdict names a field it could be held for.

## 4. RunStore and RunArchive

`RunStore` is `_persist_run` on a `LocalFilesystemStore`, system call by system
call. A file is an inode with a directory entry: `open("wb")` truncates the inode
that `<path>.tmp` names or makes one, the write fills it, and `os.replace` moves the
entry. An attempt puts source, its `.meta.json`, spec summary, replay artifact and
manifest in that order (`After`); `Look`, `Compare` and `Collide` are `put_object`'s
branches, `Open`, `Write`, `Replace` and `ReplaceStray` `_atomic_write`'s. The
faults are `IOFails`, `ReplaceFails` (which unlinks the tmp file), `SummaryRefused`
and `Die`; files stay as they are when a process dies. Contents are a function of
the path, since an object's id is the hash of its bytes. (A spec summary is filed
under the spec's version, not its own hash; two spec objects with one version and
different summaries are not modelled.)

`RunArchive` is the promise: objects appear whole and stay, and a manifest appears
only when every object it refers to is there. `RunStore!ImplementsArchive`
instantiates it with the readable files.

The constant `Overlap` says whether attempts may persist at the same time. The code
has no lock, so both are real: one process that runs one extraction after another,
and several processes on one store.

### Runs

* `store_solo`: three attempts one after the other, two with the same document and
  result, the third sharing the spec only. Three are needed for one to die, a second
  to find its leavings, and a third to find what the second made of them.
  `VisibleIsWhole`, `ManifestResolves`, `PutsAreIdempotent`, `ImplementsArchive`.
  Nothing interleaves here: the hazards of processes that share a path are those of
  the other run.
* `store_crowd`: three attempts at once that contend for one spec summary. It takes
  a third to read a file that a second has truncated after the first published it
  (`Collide`). What is left then: `TearsHeal` (when all have ended and none died or
  failed, every file is whole), `NothingIsDeleted`, and `RefusedByOverlap`: between
  the look at a path and the comparison or the `os.replace` others come, but a put
  is refused only for what another attempt did to the very same file (it is
  rewriting it or broke off doing so; it has moved the tmp file, or unlinked it).
  That the properties of `store_solo` do not hold here is noted in section 12.

A persist is a fixed sequence of file operations without a loop or a wait. That it
ends needs no property, and no fairness is assumed.

### Proved (RunStoreProofs)

With `~Overlap`, for any number of attempts and any sharing of objects:
`FilesAreWhole`, `ManifestsResolve`, `PutsAreNeverRefused` and
`StoreImplementsArchive`, the refinement. The invariant `StoreInv` adds what the
properties do not say: only one attempt is active (`Alone`), an inode belongs to one
path (`OwnInodes`), whoever writes writes a path that is not there yet, into the tmp
inode it opened, and that inode is whole when it is moved (`WritesNew`), and an
attempt has put everything before the kind it is at (`PutSoFar`, `ManifestLast`).
`OwnInodes` is what makes `Open`'s truncation harmless: the inode it truncates is
named by no final path. The refinement then needs one case per kind that
`os.replace` can make visible; every other step stutters.

Whether or not attempts overlap: `OverlapHeals` (`[]TearsHeal`), `FilesStay`
(`NothingIsDeleted`) and `RefusalsComeFromOverlap` (`RefusedByOverlap`). The
invariant of the first is `HealInv`: an inode that a path or its tmp file names
holds its bytes, or some attempt is about to write them, or an attempt has failed or
died. When a second writer truncates the inode that the first has just published,
the first conjunct gives way to the second, and the write that restores it is still
to come; nothing weaker survives the interleavings of `open`, `write` and
`os.replace`. `OpenInv` adds that who writes has an inode. The last theorem needs
two more: whoever is about to compare looks at a path that is there, and it is whole
unless somebody has it open (`CompareInv`); whoever is about to replace has its tmp
file unless it is the published file by now, or was unlinked (`TmpInv`).

## 5. SelectorPlanner

Prompts have a budget in characters. `SelectorPlanner` is how batch selection is
packed into calls below it, an action per loop iteration or branch, so that the
interplay of three nested loops is what is checked. Tasks and candidates are numbers
in declaration and source order.

| action | code |
|---|---|
| `PlanUnlimited`, `Collect`, `Flush`, `PlanWindows`, `Finish` | `_plan_batch_selector_calls`: no budget, a task that waits, `flush_pending`, a windowed task, the end |
| `PackOversize`, `PackJoin`, `PackFull`, `PackEnd` | `BudgetedBatchSelectorPlanner.plan`: the branches of the loop and what follows it |
| `ShardRefused`, `ShardJoin`, `ShardFull`, `ShardEnd` | `plan_candidate_shards`, likewise |

`queue`, `batch` and `shard` are the locals `tasks` still to come, `current_tasks`
and `current_candidates`; `pc` names the loop that runs. The prompt estimator
renders text, which is abstracted to what the planner does with the result:
`input.cost` and `input.candidateCost` are any numbers, and the proofs assume
nothing of them, not even that a task costs as much as its candidates (estimates are
not additive). Whether the windows of a document can be planned (`input.fits`) is
`DocumentWindows`' outcome.

The run `planner_pack` has every combination of three tasks of one to three
candidates with weights one and two, budgets none, 2, 4 and 5, and document
classifiers nowhere, in the middle or at both ends. Two is too little for some
single candidates, four and five split batches and shards in different places; three
tasks are the fewest with a flush before, between and after. It checks that

* the plans take up every task once and in order (`TasksInOrder`), and the shards of
  a task are consecutive slices of its candidates (`ShardsInOrder`);
* nothing packed is over the budget (`CallsFit`), and a call or shard ends only
  where the next would not have fitted (`NoNeedlessSplit`).

Proved in `SelectorPlannerProofs`, for any number of tasks, candidates and any
estimates: `PlansCoverTheTasks` from `OrderInv` (plans made, batch, queue and
pending tasks, in this order, list exactly the tasks before `next`, which is what
the three loops hand to each other), `CallsStayInBudget` from `FitInv` (what is
under way fits as well), `ShardsCoverTheCandidates` from `SliceInv` (the same
argument as `OrderInv` for candidates), `CallsAreFilled` from `SplitInv` (what is
under way did not fit into the last packed call, and `plan()` runs only before a
windowed task or at the end, so that no packed call of its next run can follow its
last), and `RefusalsHaveACause` from `CauseInv` (nothing planned or under way is
hopeless): planning is refused exactly for a task that fits in no way. The
specification's `WF(Next)`, that sequential code goes on, is not used by any of
these.

## 6. DocumentWindows

A document classifier that is over the budget reads its document in overlapping
windows. `Begin` computes what the budget leaves for text
(`_plan_document_windows`), `Cut` is an iteration of `_document_windows_for_text`,
`Measure`, `Halve`, `Refuse` and `Finish` are the estimation of the windows that
were cut: one that is oversized makes the code cut everything again, half as long,
and clamp the overlap. The missing-reducer error before the first estimate is a
configuration error and left out. `Slack` is the 256 characters the code sets aside;
the estimate of every stretch of text is part of the input, because rendering
escapes characters and equally long windows render at different lengths.
`WindowAssumption` states what is assumed of it: the whole document is over the
budget (`_is_budgeted_document_classifier` and the check before it), and a prompt
without text is no longer than one with "x", from which it follows that a document
that comes this far is not empty.

The run `windows` takes every text of 1, 3, 5 and 6 characters (and none), each
plain or escaped to four, seven budgets on both sides of the smallest that leaves
room, and overlaps of 0, 1, 2 and 5. Windows are then cut one to five characters
long, halved once, twice or not, and the overlap is clamped or not. It checks that

* a finished plan's windows fit and cover the text without a gap, each beyond the
  last (`TextIsCovered`);
* a stretch of text of up to one character more than the overlap is whole in some
  window, however often windows were halved (`PhrasesSurvive`), which is what an
  overlap is for;
* the halving ends (`Terminates`, under `WF(Next)`: the planner is sequential code).

`DocumentWindowsProofs` proves the first two for texts, estimators, budgets and
overlaps of any size, and that only a prompt without room, or a single character
that does not fit, is refused (`WindowRefusalsHaveACause`). The invariant `CutInv`
says the windows so far are chained, that the next one starts exactly `overlap`
before the last ends (`NextStart`'s maximum never takes its other branch, because
the overlap is always below the window), and that every phrase that begins before it
is already whole in a window (`SurviveTo`); the overlap in force is the policy's
clamped to the present window although the code clamps step by step.

## 7. SelectorAnswers and SelectorCalls

What happens to one selector plan, from the calls the planner laid out to one
observation per field. `SelectorAnswers` is `extras/pydantic_ai/selector.py`: what a
reply of the language model becomes. It is completed (a lone selection is its own
evidence, and the reverse), translated from the local ids of the prompt to candidate
ids, merged with the other items for the same field and instance, and checked; it
raises with an error of the provider's contract, or yields observations.
`SelectorCalls` makes the calls.

| action | code |
|---|---|
| `Call` | one selector call of the plan, with all that becomes of its reply |
| `KeepPacked` | the observations of a packed call, or of a field on its own |
| `WrongStrategy`, `UnionWindows`, `PriorityWindows` | `_reduce_document_window_observations` |
| `AllAbstained`, `UnionShards`, `SoleWinner` | the ends of `_select_sharded_field` |
| `ReducerCall`, `Reshard`, `NoProgress` | the selection among winners: a last call, another round of shards, or `selector_prompt_reducer_no_progress` |

The model that is asked is split in two. What it wants of a menu is part of the
input, if it is steady, or any choice at every call if it is fickle. How it puts
that into words is any of the accepted wordings (`Phrasings`) or one of the things
it can get wrong (`Slips`): an unknown id, field or instance, a repeated item, a
selection that contradicts its evidence. So what the code owes does not depend on
the model being good: the properties quantify over all of it.

A call costs a base, the context and its candidates. A shard is filled as
`plan_candidate_shards` fills it, by the estimates of single candidates added up
(`Estimate`), each of a prompt of its own with its own base; only whether a last
call can be made is decided by the estimate of the whole call (`Cost`), as it is
whether a field is put into shards to begin with (`TooLong`).

The run `calls` has sharded fields of six candidates of which a shard holds two, so
that it takes two rounds and a last call to decide, with every set of wanted
candidates and three orders of preference; some candidates heavier, so that a round
cannot go on, or lighter, so that a last call holds more than a shard did; a fickle
model; a classification context; windows with either strategy, packed calls with two
fields, and single calls with no candidate and with two. It checks that

* a steady model gets what it would have got in one call, whatever is cut and
  however it words its answers (`SameAsOneCall`), which is the abstract
  specification of this part;
* a fickle one gets only what was wanted in every round it took
  (`EveryRoundAgreed`);
* no candidate falls between two calls of a round, or between two rounds
  (`NoCandidateLeftOut`);
* an accepted wording is never refused, and a field is given up for its budget only
  if what the model wants does not fit into one call (`RefusedForCause`);
* the rounds end (`Terminates`), under weak fairness of `Next`, which `Goes` spells
  out: while a call or a reduction is due, some step is taken. The code awaits its
  calls one after the other.

### Proved (SelectorCallsProofs)

All four invariants, for every plan and budget, any number of fields, windows,
candidates and rounds, every set of wanted candidates and order of preference, every
wording and every slip: `SelectionIsUndivided` (`[]SameAsOneCall`),
`WinnersWereWantedAlways` (`[]EveryRoundAgreed`), `EveryCandidateIsAsked`
(`[]NoCandidateLeftOut`) and `RefusalsHaveACause` (`[]RefusedForCause`).

Assumed are `NoIdAssumption`, that no evidence is not an id, and `InputsAssumption`:
that the inputs are records of the right types, the fields of a plan have different
names, a plan that is not packed has one field, a field without candidates is met
only by a single selector (the planner settles it before), a document has a window,
and preferences rank every candidate and no two alike. Nothing is assumed of what is
wanted, nor that the priority list of a policy names every candidate.

There are three layers.

*A reply.* The proof follows a record through completion (`CompletedIs`) and
translation (`TranslatedIs`) to its observation. `PhrasingIsAccepted`: each accepted
wording of a wish passes, and its records select what was wished for. `SlipTells`:
where a wrong record is not refused, it selects what was wished for all the same.
For a call with several fields, `FromBatchTells` says that merging keeps the answers
of different fields apart and loses no selected id, so `AnswerTells`: an answer that
is taken has one observation per menu, in order, selecting the wish for that menu;
and `AnswerIsTaken`: an accepted wording is not refused.

*A cut.* `ShardsAre` is about the loop of `plan_candidate_shards`: the shards are
not empty, hold each candidate once and no others, and there is only one if the
candidates fit. `BestOfBests`: the best of what is best in each part is the best of
the whole, which is why rounds may select among winners.

*The rounds.* The inductive invariant `Inv` has `Round`, the calls of the round that
goes on, as a function of the candidates it began with, and says that the calls made
and those still to make are together `Round` (`RoundInv`); that what a call was
heard to select was wished for; that all rounds before were larger, the candidates
of this one are what the last of them selected, and each was wished for in every one
of them (`ShardInv`); and that what the model wants of the candidates left is what
it wants of all. A round of shards does not fit into one call: a field comes there
because it does not, and another round is begun only for winners that do not
(`TooLong`, `RoundIsTooLong`). So the reducer call, whose candidates do fit, is over
fewer (`FewerFit`), and a round of shards is begun only if it is over fewer: this
makes a round known by its candidates, so that its calls are not confused with those
of another round.

## 8. OpenAIBatch, DeferredLifecycle and DeferredPromise

Deferred extraction renders the calls of some documents, submits them as one batch,
polls it, cuts its results up by document and collects each document against calls
that are rendered anew, possibly in another process and another world.

| action | code |
|---|---|
| `Render` | `render_deferred_submission` |
| `SubmitAggregate`, `SubmitLost` | `submit_deferred_aggregate`, and the same with its answer lost |
| `SubmitOne` | `SerialExecutor._execute_deferred`: one document, rendered and submitted |
| `Poll` | the provider's `poll` |
| `Cancel` | the provider's `cancel` |
| `Collect` | `collect_deferred_submission`, with or without `deferred_results_for_document` |
| `Finish`, `Rename` | the provider: a batch ends with any of its possible files, or takes a status the code does not know (external) |
| `Edit`, `Respecify`, `Upgrade`, `Damage` | a document, the spec or the deterministic setup is another one; a kept manifest has lost a request |

`OpenAIBatch` is `openai_deferred.py` with the part of the Batch API it uses:
statuses, the files a batch ends with, and the reading of their lines. What is
rendered for a document under a setup is the constant `Work`: plans of packed,
windowed and sharded calls, with the text of every prompt as a value. A request's id
is made of the content (a document's id is the hash of its bytes), the routing, the
spec version and the prompt; the request has more in it than its id covers. Nothing
here remembers what was answered: `question` in a line of a file says, for the
properties only, which request the provider answered with it.

The run `deferred` has two keys (a memo with one sharded field, a form with a packed
call and a windowed field), two contents, spec versions, setups and batches, and one
mishap. Setup 2 decides the memo's field without a call, and changes of the form's
requests only what their ids do not cover. The first batch may be of the memo or of
both, so that siblings can spoil each other; the second resubmits the memo, so that
there are results of another batch to collect with. Its first request may be
answered with an error, twice, illegibly or not at all, and its last illegibly or
not at all. One mishap is enough for each kind of stale manifest; two would only
combine reasons for a refusal. It checks that

* an extraction rests on exactly the calls that the present document, spec and setup
  give rise to, each answered in reply to that request (`AnswersMatchQuestions`);
* duplicate request ids are never submitted, not even through two keys with the same
  bytes (`DuplicatesNeverSubmitted`);
* a collect is refused only for what concerns its own document, not for what
  happened to its siblings (`RefusedForOwnCause`);
* the lifecycle implements `DeferredPromise` (`ImplementsPromise`): questions are
  asked in batches, and a document is delivered answers of one batch to questions
  asked in it, one for each;
* whoever keeps polling and collecting learns what became of a submission
  (`Settles`).

`AnswersMatchQuestions` holds of a collect whose setup needs all that was submitted
or less: one that renders fewer calls succeeds and leaves the other answers unread.
It says nothing of answers that nothing asks for anymore.

Fairness, spelled out because it is weak fairness of steps with parameters: a batch
ends (`FairFinish`; the provider's completion window), the consumer polls what it
knows of until the answer is that of the batch as it is (`FairPoll`), and collects
what it has polled (`FairCollect`). Nothing else has to happen; a lost submission
stays lost. The run does not check deadlock, because everything may be submitted,
ended and collected.

Collecting is stated as what it comes to and not as the loop that computes it: the
first plan, and in it the first call, that goes wrong is the reason for a refusal,
and otherwise every answer is used. The code goes through the plans one by one and
raises at the first failure, and a field is planned once, so that the dictionary of
observations it fills does not depend on the order.

### Proved (DeferredProofs)

For any keys, contents, setups, batches and number of mishaps, and for any rendering
and any files a batch may end with that meet the module's named assumptions:

* `WorkAssumption`: a packed plan is one call, a field is in one plan of a setup,
  and no two packed plans have the same prompt. The planner takes every task into
  one plan (section 5), and the prompt names the fields it asks about.
* `DeliveriesAssumption`: a line of a batch's files carries the id of a request of
  that batch and was given for it (external, the provider's contract). Lines may be
  missing, repeated, illegible, or errors.
* `WorldAssumption` and `NothingAssumption`: the constants are of the right kind.

The inductive invariant is `LifecycleInv`: a rendered submission was rendered under
some document, spec and setup (`RenderedInv`); a batch asks nothing twice, and its
files are empty or ones that its very requests can end with (`BatchInv`); a manifest
names the batch it was submitted as, and lists requests of that batch without
repetition, a damaged one too (`ManifestInv`); results that were read to the end are
what the batch holds now (`ResultsInv`), because a batch that has ended does not
change. The theorems are

* `BatchesAskOnce`: `[]DuplicatesNeverSubmitted`. For aggregates the code checks it;
  for `SubmitOne`, which does not, it takes `CallsApart`: the ids of one document's
  requests differ because their routings or prompts do.
* `AnswersFitQuestions`: `[]AnswersMatchQuestions`. Ids alone would not do, since
  they do not cover all of a request. `CallsGoRight` uses the comparison of whole
  requests, and that ids in a batch are unique: the response under a request's id
  was then given to this request.
* `RefusalsHaveOwnCause`: `[]RefusedForOwnCause`, branch by branch of the contract.
  `AnsweredIsRead` and `AnsweredIsKept` say that a request answered once and legibly
  is among the successful results, before and after they are cut up by document.
* `LifecycleKeepsPromise`: the refinement `Spec => ImplementsPromise`. A submission
  maps to asking, the end of a batch to answering, a collect that succeeds to a
  delivery (`HandOver`); polls, mishaps and refusals stutter.

`Settles` rests on fairness and is checked by TLC only.

## 9. InstanceGrouping, InstanceResolver, FieldValidation and InstanceAssembly

From candidates to instances. `InstanceGrouping` is where instances come from (one
per line of text that an instance proposer picks, or one per boundary anchor) and
what each of the four authorities says of a value. `InstanceResolver` is
`DeterministicInstanceResolver`: the first authority that names exactly one key
decides, cardinality refuses what an instance may not hold, and the keys that are
left become the instances. `FieldValidation` is the selection adapter and layers 2
and 3, by schema and by manual binding. They are operators without state, the
resolver being a pure function; `InstanceAssembly` runs them.

| action | code |
|---|---|
| `ReadWhole` | one scope for the document (`Cardinality.ONE`) |
| `Propose` | one candidate set per field and picked line (`enforce_instance_proposer_contract`, `instance_plan_from_response`, `candidate_set_for_instance`) |
| `PlanStructurally` | a caller of the public `StructuralInstancePlanner` and `collect_advisory_anchors`, who may then offer every field once or per instance |
| `Select` | an answer, the adapter's invariants, cardinality table and tentative key |
| `Validate` | layers 1 and 2 for one proposal |
| `Resolve`, `Judge` | `resolve_instances`, `_apply_layer3_validation` |

The run `assembly` has four fields, one of every cardinality but OPTIONAL and one of
every role, over two lines of text: a boundary field on both lines, a note that runs
over the line end and so touches the anchors of both, and a literal that is an empty
point in the other coordinate space. Selectors return up to two of their candidates,
in either order (`MaxIds`), and the planner may plan two instances (`MaxInstances`),
one fewer than the boundary field's observations can ask for. It checks that

* in a run of the executor, the scope a value was selected for decides where it ends
  (`SelectedScopeDecides`), although a stronger authority looks at overlap;
* no validated value vanishes: it is evidence once, or its refusal is reported, at
  the instance it belongs to (`NothingVanishes`);
* the order of the validated fields decides nothing (`OrderDoesNotDecide`), which is
  what the resolver's documentation means by not inventing a winner. It is meant for
  all three kinds of plan; a structural plan is where authorities differ.

Deadlock is not checked: `raised` and `done` are ends.

### Proved (InstanceAssemblyProofs)

The constants are assumed to be what the code types them as: `FieldsAssumption`
(each field has a role, a cardinality and a priority), `CandidatesAssumption` (a
candidate has a field and a span that does not end before it begins),
`MaxInstancesAssumption` and `MaxIdsAssumption`.

`ScopesDecide`: `[]SelectedScopeDecides`, for every document, field list, number of
ids and answer of proposer and selectors. The invariant `IInv` follows the hint of a
planned line: what is offered for a line, proposed from it and validated stands on
one of the line's own anchors (`Planned`), and the keys of the plan differ and have
ids (`KeysAreDistinct`, from the proposer's contract, without which two picked lines
could share a key). `OwnKeyWins` is then the argument about the ladder: the
authorities that look at the hint can name only the value's own key; continuity
names that key, and either it alone or nobody alone, since the value's span overlaps
itself; co-occurrence is silent because the executor hands the resolver sets without
a hint. `DocumentIsDecisive` is the same for a whole document, whose one key is
anchored on everything. Of a structural plan nothing is claimed: there, values can
be ambiguous.

`NoValueVanishes`: `[]NothingVanishes`, for all three kinds of plan. That a value is
evidence *once* needs more than the resolver: no two validated fields may be the
same, which is a fact about everything before it. `ValueInv` says why. A proposal
tells the field it was selected for and, if its candidate set was offered for an
instance, that instance (`From`); no two sets still to be selected from can yield
the same (`MenusApart`), no set can yield what is proposed or validated already, and
no two proposals or values agree in candidate and hint (`ClaimsApart`). Each way of
planning has to be shown to offer sets that are apart (`PlannedMenusAreApart` for
fields times lines, `OfferedMenusAreApart` for a caller's mix of sets with and
without an instance), and the adapter's refusal of repeated ids does the rest. The
resolver's part is `ComposedAccounts`: every value is filed at one key
(`FiledAtAKey`); what survives the cardinality policy is evidence there and only
there (`EvidenceIs`), and each clause that refuses a value files its refusal at that
value's key (`RefusedIsReported`), so the key becomes an instance. Layer 3 adds and
takes nothing (`JudgingAccounts`).

`OrderIsIndifferent`: `[]OrderDoesNotDecide`. An exchange of two neighbours carries
the claims on a key over to the claims on it (`ClaimsExchange`), and with them what
is spread, crowded, refused and kept. The hints that refusals carry do depend on the
order, they are those of the first claim, and the property leaves them out.

## 10. AnchoredText, CandidateSources, PromptContexts and CandidateMenu

From a document to the menu a selector sees. In `AnchoredText` a document is a
sequence of tokens of its HTML reading (data, references, tags), a character is the
number of its bytes, all characters of a text differ, and a byte of the text knows
which source bytes it was read from, so that the anchor map can be compared with
what it should say. `CandidateSources` are the regex, NER and literal strategies,
the merge of several strategies and the filters; what a pattern matches and what
spaCy recognizes is given. `PromptContexts` is `intern_prompt_contexts`: windows
around candidates that overlap are shown once, with the candidates marked, and
without windows the contexts are compared as strings.

| action of `CandidateMenu` | code |
|---|---|
| `Adapt` | text and HTML source adapters |
| `MatchRegex`, `Recognize`, `ListLiterals` | the strategies; each raises or adds its candidate set |
| `Merge` | `_merge_candidate_sets` |
| `Filter` | the field's filter on the merged set, if it has one |

`Contexts(menu)` is what the prompt of the menu that is offered shows.

The run `candidates` takes seven documents of at most four bytes, plain, with
characters of two bytes, and with a reference (to one character, or to two) or a
tag, as text and as HTML; one literal; bindings of one or two strategies, each with
a context window of its own, of none or of one byte, so that windows of both widths
meet in one menu; up to three matches or entities (`MaxFound`) anywhere in the text;
NER chunks of two characters that overlap by one, so that an entity can be cut; and
two filters. Tags of a context are shortened to three bytes. It checks that

* the source bytes a candidate points at are those its text was read from, and layer
  1 does not refuse them (`EvidenceIsTheText`): of what a pattern matches in any
  view, of what is recognized only in a view that copies its source, see section 12;
* every candidate of every strategy is in the merged set once and names all that
  found it, and so is every phrase the recognizer knows that is no longer than the
  overlap and one character, however many chunks it is in (`FoundIsOfferedOnce`),
  except that two phrases within one reference have the same source bytes, so that
  the second is dropped for the first;
* every candidate with a context is in exactly one context of the prompt, which
  shows it (`ContextsShowCandidates`). With windows its tags stand around its text
  and the context is otherwise the text, provided that no window cuts a character
  and no candidates share text (`NothingIsCut`, `Apart`); without, its context is
  part of the one shown, provided that no context is part of two others (`Nested`).
  These are the cases in which the code can go wrong, and each has a run of its own.

Deadlock is not checked: `raised` and `offered` are ends. The runs `prompt_anchors`
and `prompt_contexts` are disagreements, section 12. The second has a literal, so
that the menu has no windows, and three patterns of one field, which may match
overlapping texts.

## 11. What is not proved and not modelled

Liveness (`Terminates` of `DocumentWindows` and `SelectorCalls`, `Settles`) is
checked by TLC only: the provers do not reason about fairness. Nothing is proved of
section 10. `CandidateMenu` computes with folds and sorted sequences (`FoldLeft`,
`SelectSeq`, `SortSeq`), of which the provers know nothing: lemmas like those of
`SequenceInduction` have to come first. Type correctness is checked and proved of
`SerialRun`; `RunStore`, `SelectorPlanner` and `DocumentWindows` state a `TypeOK`
and `DeferredProofs` and `SelectorCallsProofs` a `TypeInv` for their proofs;
elsewhere the comments at the variables say what they hold. No module uses recursive
operators that a theorem is about.

Not modelled:

* the replay engine's re-execution and drift gate, which compares recorded with live
  versions of components and has no state;
* the schema compiler and the public API around it: a pure translation of pydantic
  models;
* numeric filters, parameters of strategies and patterns themselves: data to the
  properties;
* white space: none of the documents has any, so the collapsing that
  `intern_prompt_contexts` does before it compares strings is the identity;
* references whose text is as long as themselves in UTF-8 are read as copies, as the
  adapter does; how `HTMLParser` tokenizes (`a&b` in some Python versions) is given;
* algorithmic and instance-proposing selectors beyond their contracts, traces and
  diagnostics;
* usage: the budget's ledger and the report's events are added to together and read
  by nothing. A call whose answer breaks its contract was paid for and is recorded
  in neither, because usage is recorded after the contract is enforced
  (`execution/strategies/independent.py:1318`);
* the evaluation package (`packages/extractx_eval`), which scores finished runs, and
  the type stubs.

## 12. Disagreements between the code and its documentation

Checked by a run that TLC finds violated:

1. `serial_reconstruct`: the artifact's `final_instances` are taken before
   field-level negatives are attached, the extraction's after, so the rebuilt
   extraction differs in outcome and negatives, against `replay/artifact.py:92`,
   `replay/engine.py:280` and `tests/replay/test_three_named_equalities.py:9`.
2. `prompt_anchors`: the tags of a prompt are inserted at offsets of the text
   without tags, from the last start to the first
   (`selection/prompts/selection.py:411`), so that the tags of candidates that share
   text end up inside one another's, and a window that cuts a character is decoded
   with a longer replacement, after which every offset is off; against
   `docs/adr/0024-readable-bounded-id-selector-prompts.md:211` and `:251`.
3. `prompt_contexts`: without windows, a context that is part of another one joins
   it and stays known by its name; a later one that has it as a part then replaces
   the shared text (`selection/prompts/selection.py:516-525`). With the contexts ab,
   b and bc the candidate of ab is referred to the text bc, against the same
   document, `:32`: each candidate id appears next to "the candidate text and
   context it names". What `ContextsShowCandidates` says of contexts without windows
   is about menus in which no context is part of two others.

Met while modelling, without a run of their own:

* With two resolved instances and a field-level negative the executor raises
  (`execution/executor/serial.py:1376`), against the docstring at `:203`.
* In the store, the tmp name is shared by all writers of a path, so a write in one
  process can truncate the file another has just published (`storage/local.py:165`,
  against `:156`), and a put of identical bytes can be refused (against
  `storage/protocol.py:22`). A failure between a source and its `.meta.json` is
  never repaired, because the next put of the source returns early
  (`storage/local.py:94`).
* One unreadable line in a batch's output makes `poll` raise for all documents of
  the aggregate, although `docs/adr/0029-aggregate-deferred-submissions.md:75` says
  that one document's provider failure must not fail its siblings. The model has it:
  `Poll` then leaves a refusal, and `Settles` counts it. `RefusedForOwnCause` is
  about the refusals of a collect only.
* A deferred sharded field whose shards have two winners cannot be collected, since
  the protocol has no second round (`execution/strategies/independent.py:1140`). The
  document is refused with `reducer_required`, which `RefusedForOwnCause` admits.
* The aggregate's manifests are built only after the provider has been paid;
  identical bytes under two keys refuse the whole aggregate.
* A field is planned for its winners' call without its classification context
  (`execution/strategies/independent.py:2330`), so that call can exceed
  `max_prompt_chars`.
* "SELECTED with ()" of a MANY field becomes ABSTAINED when it is sharded, while a
  union of windows that all abstained becomes SELECTED and empty.
* The resolver's docstring derives every `group_id` from ("resolved", ordinal); with
  a plan the tentative id stays.
* `_min_byte_gap` says "non-negative", but an empty span inside an anchor gets a
  negative gap (`instances/precedence.py:85`).
* A manual validator that returns `None` leaves the value, a pydantic one replaces
  it; an object validator sees only the last value of a MANY field.
* A regex match that crosses an HTML entity raises
  (`candidates/generators/regex.py:376`), and a zero-length match inside a segment
  is emitted although the comment at `:493` says it is dropped. For NER, an entity
  that ends right before a tag raises (`candidates/generators/ner.py:390`).

## 13. Running it

    tlc -workers 2 -config MCRunStore_solo.cfg MCRunStore
    tlapm RunStoreProofs.tla

`PROJECT.json` lists every run, the mutation each property was seen to catch (a
definition marked "mutant" in the module, put in the place of the one it is named
after), and the lines each definition models.
