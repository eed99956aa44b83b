-------------------------- MODULE DeferredLifecycle --------------------------
(***************************************************************************)
(* Deferred extraction (execution/deferred.py and the deferred halves of   *)
(* execution/executor/serial.py, execution/strategies/independent.py): the *)
(* soft calls of some documents are rendered and submitted as one batch,   *)
(* the batch is polled later, its results are cut up by document, and each *)
(* document is collected against calls that are rendered anew.             *)
(*                                                                         *)
(* Between those steps the world may change: a document is edited, the     *)
(* spec is replaced, or the deterministic setup (generators, context       *)
(* providers, selector settings) is another one.  What the setup renders   *)
(* is the constant Work.  A document is named by its content, because its  *)
(* id is derived from the hash of its bytes.                               *)
(***************************************************************************)
EXTENDS OpenAIBatch

CONSTANTS Key,          \* the consumer's names for its documents
          Content, SpecVersion, Setup,
          Work,         \* Work[<<c, u>>]: what is decided and called for c under setup u
          Deliveries,   \* Deliveries[<<b, r>>]: files that batch b, of the requests r, may end with
          Batch,        \* batches that may come to be, numbered
          Submissions,  \* bound: Submissions[b] are the sets of keys b may be submitted for
          FirstContent, \* what every key names at first
          MaxMishaps,   \* bound on changes of the world, damage and lost answers
          Nothing

ASSUME WorldAssumption ==
  /\ SpecVersion # {}
  /\ Setup # {} /\ Setup \subseteq Nat
  /\ FirstContent \in [Key -> Content]
  /\ IsFiniteSet(Key)

\* A packed plan is one call.  A field is planned once, and a packed prompt
\* names the fields it is about.
ASSUME WorkAssumption ==
  \A c \in Content, u \in Setup :
    LET plans == Work[<<c, u>>].plans
    IN /\ plans \in Seq(Range(plans))
       /\ \A p \in DOMAIN plans :
            /\ plans[p].prompts \in Seq(Range(plans[p].prompts))
            /\ plans[p].kind = "packed" => Len(plans[p].prompts) = 1
       /\ \A p, q \in DOMAIN plans : p # q =>
            /\ plans[p].fields # plans[q].fields
            /\ (plans[p].kind = "packed" /\ plans[q].kind = "packed") =>
                 plans[p].prompts[1] # plans[q].prompts[1]

VARIABLES world,     \* what documents, spec and setup are now
          rendered,  \* the consumer's rendered submission of each key, not yet submitted
          manifest,  \* the manifest of the key's last submission
          batch,     \* the provider's batches
          results,   \* what the last poll of each batch came to
          outcome    \* what the step just taken collected, or Nothing

vars == <<world, rendered, manifest, batch, results, outcome>>

(* ------------------------------ requests ------------------------------ *)
\* A plan is a record [kind, fields, prompts, meta]: a packed call has one
\* prompt, a windowed or sharded field one for each window or shard.  The id
\* covers the prompt's text and the routing, the request covers meta as well.
Routing(c, plan, i) ==
  IF plan.kind = "packed" THEN [content |-> c]
  ELSE [content |-> c, fields |-> plan.fields, index |-> i, count |-> Len(plan.prompts)]

Request(c, v, plan, i) ==
  [id |-> [identity |-> plan.prompts[i], spec |-> v, routing |-> Routing(c, plan, i)],
   meta |-> plan.meta]

PlanRequests(c, v, plan) == [i \in DOMAIN plan.prompts |-> Request(c, v, plan, i)]

Origin == Content \X SpecVersion \X Setup

RequestsOf ==
  [x \in Origin |->
     LET plans == Work[<<x[1], x[3]>>].plans
     IN FlattenSeq([p \in DOMAIN plans |-> PlanRequests(x[1], x[2], plans[p])])]

\* what is asked for some keys, one key's requests after another's
Together(requests) ==
  LET order == SetToSeq(DOMAIN requests)
  IN FlattenSeq([i \in DOMAIN order |-> requests[order[i]]])

\* what a batch may be submitted with
Askable ==
  ({RequestsOf[x] : x \in Origin} \cup
   UNION {{Together([k \in keys |-> RequestsOf[origin[k]]]) : origin \in [keys -> Origin]} :
            keys \in SUBSET Key}) \ {<<>>}

\* A line answers a request of its batch, and names it.
ASSUME DeliveriesAssumption ==
  \A b \in Batch, requests \in Askable : \A files \in Deliveries[<<b, requests>>] :
    LET lines == files.output \o files.error
    IN /\ files.output \in Seq(Range(files.output))
       /\ files.error \in Seq(Range(files.error))
       /\ \A i \in DOMAIN lines :
            lines[i].question \in Range(requests) /\ lines[i].id = lines[i].question.id

Files ==
  {<<>>} \cup
  UNION {UNION {{files.output, files.error} : files \in Deliveries[<<b, requests>>]} :
           b \in Batch, requests \in Askable}

Status == PendingStatus \cup {"completed", "unknown"}

ASSUME NothingAssumption ==
  Nothing \notin [requests : Askable, status : Status, output : Files, error : Files]

RenderedNow(k) ==
  [content |-> world.content[k], spec |-> world.spec,
   requests |-> RequestsOf[<<world.content[k], world.spec, world.setup>>]]

Ids(requests) == {requests[i].id : i \in DOMAIN requests}

HasDuplicates(requests) ==
  \E i, j \in DOMAIN requests : i # j /\ requests[i].id = requests[j].id

Fingerprint(r, handle) ==
  [content |-> r.content, spec |-> r.spec, requests |-> r.requests, handle |-> handle]

ManifestFrom(r, handle) ==
  [content |-> r.content, spec |-> r.spec, requests |-> r.requests, handle |-> handle,
   fingerprint |-> Fingerprint(r, handle)]

(* ------------------------------ contract ------------------------------ *)
OnlyIds(entries, ids) == [id \in DOMAIN entries \cap ids |-> entries[id]]

\* (mutant) any batch's results will do
ContractRefusalAnyHandle(m, res, c, v) ==
  LET expected == Ids(m.requests)
      answered == DOMAIN res.successful
      failed == DOMAIN res.failed
  IN IF m.fingerprint # Fingerprint(m, m.handle) THEN "manifest_fingerprint_mismatch"
     ELSE IF m.spec # v \/ m.content # c THEN "stale_manifest"
     ELSE IF (answered \cup failed) \ expected # {} THEN "unknown_result_request_ids"
     ELSE IF expected \ (answered \cup failed) # {} THEN "missing_result_request_ids"
     ELSE "none"

\* validate_deferred_collect_contract: the reason it refuses for, or "none"
ContractRefusal(m, res, c, v) ==
  LET expected == Ids(m.requests)
      answered == DOMAIN res.successful
      failed == DOMAIN res.failed
  IN IF m.fingerprint # Fingerprint(m, m.handle) THEN "manifest_fingerprint_mismatch"
     ELSE IF m.spec # v \/ m.content # c THEN "stale_manifest"
     ELSE IF res.handle # m.handle THEN "handle_mismatch"
     ELSE IF HasDuplicates(m.requests) THEN "duplicate_manifest_request_ids"
     ELSE IF answered \cap failed # {} THEN "duplicate_result_request_ids"
     ELSE IF (answered \cup failed) \ expected # {} THEN "unknown_result_request_ids"
     ELSE IF expected \ (answered \cup failed) # {} THEN "missing_result_request_ids"
     ELSE IF \E id \in answered : res.successful[id].id # id THEN "response_request_id_mismatch"
     ELSE IF \E id \in failed : res.failed[id].id # id THEN "error_request_id_mismatch"
     ELSE "none"

\* (mutant) the siblings' failures stay in
SliceOfAnswers(m, res) ==
  [res EXCEPT !.successful = OnlyIds(@, Ids(m.requests))]

\* deferred_results_for_document, before its contract is checked
Slice(m, res) ==
  LET ids == Ids(m.requests)
  IN [res EXCEPT !.successful = OnlyIds(@, ids), !.failed = OnlyIds(@, ids)]

(* ------------------------------ collecting ---------------------------- *)
\* what a collect comes to: why it fails, the questions and answers used, and
\* what was decided of each field
Refused(why) == [why |-> why, used |-> {}, decided |-> NoEntry]

\* (mutant) the id alone is compared
RequestIdMatches(r, m) == r.id \in Ids(m.requests)

RequestMatches(r, m) == r \in Range(m.requests)

\* _collect_deferred_batch_response: what is wrong with one call
CallWrong(r, m, res) ==
  IF ~RequestMatches(r, m) THEN "request_mismatch"
  ELSE IF res.successful[r.id].says = "bad" THEN "output_malformed"
  ELSE "none"

\* the calls of a plan whose answer selects something
Picks(requests, res) ==
  {i \in DOMAIN requests : res.successful[requests[i].id].says = "pick"}

\* a plan's calls are taken in order, and then their answers are reduced
PlanWrong(plan, requests, m, res) ==
  LET wrong == {i \in DOMAIN requests : CallWrong(requests[i], m, res) # "none"}
  IN CASE wrong # {} -> CallWrong(requests[Min(wrong)], m, res)
       [] wrong = {} /\ plan.kind = "one_shards" /\ Cardinality(Picks(requests, res)) > 1 ->
            "reducer_required"
       [] OTHER -> "none"

\* what the answers of a plan's calls decide of its fields
Decided(plan, requests, res) ==
  IF plan.kind = "union_windows" \/ Picks(requests, res) # {} THEN "selected" ELSE "abstained"

\* what the selection gate and empty candidate sets decide without a call
AutoObservations(c, u) == Work[<<c, u>>].auto

\* collect_deferred_batch_soft_calls: the first plan that fails ends it
CollectCalls(c, v, u, m, res) ==
  LET plans == Work[<<c, u>>].plans
      calls == [p \in DOMAIN plans |-> PlanRequests(c, v, plans[p])]
      wrong == {p \in DOMAIN plans : PlanWrong(plans[p], calls[p], m, res) # "none"}
      asked == UNION {Range(calls[p]) : p \in DOMAIN plans}
      planOf == [f \in UNION {plans[p].fields : p \in DOMAIN plans} |->
                   CHOOSE p \in DOMAIN plans : f \in plans[p].fields]
  IN IF wrong # {} THEN Refused(PlanWrong(plans[Min(wrong)], calls[Min(wrong)], m, res))
     ELSE [why |-> "none",
           used |-> {[request |-> r, response |-> res.successful[r.id]] : r \in asked},
           decided |-> AutoObservations(c, u) @@
             [f \in DOMAIN planOf |-> Decided(plans[planOf[f]], calls[planOf[f]], res)]]

\* collect_deferred_submission
CollectNow(k, m, res) ==
  LET c == world.content[k]
      refusal == ContractRefusal(m, res, c, world.spec)
  IN CASE DOMAIN res.failed # {} -> Refused("partial_results_unsupported")
       [] DOMAIN res.failed = {} /\ refusal # "none" -> Refused(refusal)
       [] OTHER -> CollectCalls(c, world.spec, world.setup, m, res)

\* the consumer cuts aggregate results up before it collects
SliceAndCollect(k, m, res) ==
  LET mine == Slice(m, res)
      refusal == ContractRefusal(m, mine, m.content, m.spec)
  IN IF refusal # "none" THEN Refused(refusal) ELSE CollectNow(k, m, mine)

(* ------------------------------- actions ------------------------------ *)
Snapshot(k) ==
  [content |-> world.content[k], spec |-> world.spec, setup |-> world.setup]

Init ==
  /\ world = [content |-> FirstContent, spec |-> CHOOSE v \in SpecVersion : TRUE,
              setup |-> CHOOSE u \in Setup : \A w \in Setup : u <= w, mishaps |-> 0]
  /\ rendered = [k \in Key |-> Nothing]
  /\ manifest = [k \in Key |-> Nothing]
  /\ batch = [b \in Batch |-> Nothing]
  /\ results = [b \in Batch |-> Nothing]
  /\ outcome = Nothing

Mishap == world.mishaps < MaxMishaps

\* a change before anything is rendered only makes another first world
Changes ==
  /\ Mishap
  /\ \E k \in Key : rendered[k] # Nothing \/ manifest[k] # Nothing

Edit(k) ==
  /\ Changes
  /\ \E c \in Content \ {world.content[k]} :
       world' = [world EXCEPT !.content[k] = c, !.mishaps = @ + 1]
  /\ UNCHANGED <<rendered, manifest, batch, results>>
  /\ outcome' = Nothing

Respecify ==
  /\ Changes
  /\ \E v \in SpecVersion \ {world.spec} :
       world' = [world EXCEPT !.spec = v, !.mishaps = @ + 1]
  /\ UNCHANGED <<rendered, manifest, batch, results>>
  /\ outcome' = Nothing

Upgrade ==
  /\ Changes
  /\ \E u \in Setup \ {world.setup} :
       world' = [world EXCEPT !.setup = u, !.mishaps = @ + 1]
  /\ UNCHANGED <<rendered, manifest, batch, results>>
  /\ outcome' = Nothing

\* render_deferred_submission
Render(k) ==
  /\ rendered[k] = Nothing
  /\ rendered' = [rendered EXCEPT ![k] = RenderedNow(k)]
  /\ UNCHANGED <<world, manifest, batch, results>>
  /\ outcome' = Nothing

Requests(keys) == Together([k \in keys |-> rendered[k].requests])

\* (mutant) duplicates are looked for in every document, not across them
SubmittableApart(keys) ==
  /\ keys # {}
  /\ \A k \in keys : rendered[k] # Nothing
  /\ Accepts(Requests(keys))
  /\ \A k \in keys : ~HasDuplicates(rendered[k].requests)

\* submit_deferred_aggregate up to the provider's answer: empty and repeated
\* requests are refused first
Submittable(keys) ==
  /\ keys # {}
  /\ \A k \in keys : rendered[k] # Nothing
  /\ Accepts(Requests(keys))
  /\ ~HasDuplicates(Requests(keys))

Start(b, keys, requests) ==
  /\ batch[b] = Nothing
  /\ keys \in Submissions[b]
  /\ \A earlier \in Batch : earlier < b => batch[earlier] # Nothing
  /\ batch' = [batch EXCEPT ![b] = NewBatch(requests)]

SubmitAggregate(b, keys) ==
  /\ Submittable(keys)
  /\ Start(b, keys, Requests(keys))
  /\ LET handle == HandleOf(b, NewBatch(Requests(keys)))
     IN manifest' = [k \in Key |-> IF k \in keys THEN ManifestFrom(rendered[k], handle)
                                                 ELSE manifest[k]]
  /\ rendered' = [k \in Key |-> IF k \in keys THEN Nothing ELSE rendered[k]]
  /\ UNCHANGED <<world, results>>
  /\ outcome' = Nothing

\* _execute_deferred renders and submits in one call, without those checks
SubmitOne(b, k) ==
  LET now == RenderedNow(k)
  IN /\ Accepts(now.requests)
     /\ Start(b, {k}, now.requests)
     /\ manifest' = [manifest EXCEPT ![k] =
                       ManifestFrom(now, HandleOf(b, NewBatch(now.requests)))]
     /\ UNCHANGED <<world, rendered, results>>
     /\ outcome' = Nothing

\* the batch exists, but the answer is lost or the process ends before the
\* manifest is kept
SubmitLost(b, keys) ==
  /\ Mishap
  /\ Submittable(keys)
  /\ Start(b, keys, Requests(keys))
  /\ world' = [world EXCEPT !.mishaps = @ + 1]
  /\ outcome' = Nothing
  /\ UNCHANGED <<rendered, manifest, results>>

\* the provider ends a batch, with any files it may end with
Finish(b) ==
  /\ batch[b] # Nothing
  /\ batch[b].status # "completed"
  /\ \E files \in Deliveries[<<b, batch[b].requests>>] :
       batch' = [batch EXCEPT ![b] = Ended(@, files)]
  /\ outcome' = Nothing
  /\ UNCHANGED <<world, rendered, manifest, results>>

Rename(b) ==
  /\ Mishap
  /\ batch[b] # Nothing
  /\ batch[b].status = "in_progress"
  /\ batch' = [batch EXCEPT ![b] = Unheard(@)]
  /\ world' = [world EXCEPT !.mishaps = @ + 1]
  /\ outcome' = Nothing
  /\ UNCHANGED <<rendered, manifest, results>>

Known(b) == \E k \in Key : manifest[k] # Nothing /\ manifest[k].handle.batch = b

Cancel(b) ==
  /\ Known(b)
  /\ batch' = [batch EXCEPT ![b] = Cancelled(@)]
  /\ UNCHANGED <<world, rendered, manifest, results>>
  /\ outcome' = Nothing

\* (mutant) a batch without an output file is taken for one that goes on
PollAnswerPatient(b) ==
  LET read == ParseFiles(batch[b].output, batch[b].error)
  IN IF batch[b].output = <<>> THEN Nothing
     ELSE IF read.malformed THEN [kind |-> "refused", why |-> "output_malformed"]
     ELSE [kind |-> "done", handle |-> HandleOf(b, batch[b]),
           successful |-> read.successful, failed |-> read.failed]

\* what poll answers; a pending batch or a provider that cannot be reached
\* changes nothing the consumer has
PollAnswer(b) ==
  LET read == ParseFiles(batch[b].output, batch[b].error)
  IN IF batch[b].status \notin TerminalStatus THEN [kind |-> "refused", why |-> "unknown_status"]
     ELSE IF read.malformed THEN [kind |-> "refused", why |-> "output_malformed"]
     ELSE [kind |-> "done", handle |-> HandleOf(b, batch[b]),
           successful |-> read.successful, failed |-> read.failed]

Poll(b) ==
  /\ Known(b)
  /\ batch[b].status \notin PendingStatus
  /\ results' = [results EXCEPT ![b] = PollAnswer(b)]
  /\ UNCHANGED <<world, rendered, manifest, batch>>
  /\ outcome' = Nothing

\* the consumer's copy of a manifest loses a request
Damage(k) ==
  /\ Mishap
  /\ manifest[k] # Nothing
  /\ Len(manifest[k].requests) > 1
  /\ manifest' = [manifest EXCEPT ![k].requests = Tail(@)]
  /\ world' = [world EXCEPT !.mishaps = @ + 1]
  /\ outcome' = Nothing
  /\ UNCHANGED <<rendered, batch, results>>

\* the consumer collects a document with the results of some batch, cut up or not
Collect(k, b, sliced) ==
  /\ manifest[k] # Nothing
  /\ results[b] # Nothing
  /\ results[b].kind = "done"
  /\ LET got == IF sliced THEN SliceAndCollect(k, manifest[k], results[b])
                          ELSE CollectNow(k, manifest[k], results[b])
     IN outcome' =
          [key |-> k, why |-> got.why, at |-> Snapshot(k), manifest |-> manifest[k], batch |-> b,
           sliced |-> sliced, used |-> got.used, decided |-> got.decided]
  /\ UNCHANGED <<world, rendered, manifest, batch, results>>

World == Respecify \/ Upgrade \/ \E k \in Key : Edit(k)
Consumer ==
  \/ \E k \in Key : Render(k) \/ Damage(k)
  \/ \E b \in Batch : Poll(b) \/ Cancel(b)
  \/ \E b \in Batch, keys \in SUBSET Key : SubmitAggregate(b, keys) \/ SubmitLost(b, keys)
  \/ \E b \in Batch, k \in Key : SubmitOne(b, k)
  \/ \E k \in Key, b \in Batch, sliced \in BOOLEAN : Collect(k, b, sliced)
Provider == \E b \in Batch : Finish(b) \/ Rename(b)

Next == World \/ Consumer \/ Provider

Ready(k) ==
  \E b \in Batch : /\ manifest[k] # Nothing
                   /\ manifest[k].handle.batch = b
                   /\ results[b] # Nothing
                   /\ results[b].kind = "done"

Collected(k) ==
  /\ outcome # Nothing /\ outcome.key = k
  /\ outcome.batch = manifest[k].handle.batch

Pollable(b) == batch[b] # Nothing /\ Known(b) /\ batch[b].status \notin PendingStatus

\* weak fairness of finishing b, of polling b, and of collecting k with the
\* results of its own batch, spelled out: []<> the step is not possible, or
\* []<> what it leaves behind
FairFinish(b) == []<>(batch[b] = Nothing \/ batch[b].status = "completed")
FairPoll(b) == []<>~Pollable(b) \/ []<>(Pollable(b) /\ results[b] = PollAnswer(b))
FairCollect(k) == []<>~Ready(k) \/ []<>Collected(k)

\* a batch ends within its completion window; the consumer polls what it
\* knows and collects what it has polled
Spec ==
  /\ Init /\ [][Next]_vars
  /\ \A b \in Batch : FairFinish(b) /\ FairPoll(b)
  /\ \A k \in Key : FairCollect(k)

(* ----------------------------- properties ----------------------------- *)

Extracted == outcome # Nothing /\ outcome.why = "none"

\* An extraction rests on exactly the calls that the document, the spec and the
\* setup it was collected under give rise to, each answered in reply to that
\* very request and not to an earlier or a sibling's version of it
\* (_collect_deferred_batch_response compares the whole request).
AnswersMatchQuestions ==
  Extracted =>
    LET o == outcome
    IN /\ {u.request : u \in o.used} = Range(RequestsOf[<<o.at.content, o.at.spec, o.at.setup>>])
       /\ \A u \in o.used : u.response.question = u.request

\* No batch asks the same request id twice, not even for two keys that name
\* the same bytes: a batch whose answers cannot be told apart is never paid for
\* (submit_deferred_aggregate).
DuplicatesNeverSubmitted ==
  \A b \in Batch : batch[b] # Nothing => ~HasDuplicates(batch[b].requests)

Lines(b, id) ==
  {i \in DOMAIN (batch[b].output \o batch[b].error) :
     (batch[b].output \o batch[b].error)[i].id = id}

\* the provider answered this request, and answered it only
Answered(b, r) ==
  /\ Lines(b, r.id) # {}
  /\ \A i \in Lines(b, r.id) :
       LET line == (batch[b].output \o batch[b].error)[i]
       IN line.kind = "answer" /\ line.says # "bad"

\* what the document itself gives a collect to refuse for
OwnCause ==
  LET o == outcome
      m == o.manifest
  IN \/ m.content # o.at.content \/ m.spec # o.at.spec
     \/ ~(Range(RequestsOf[<<o.at.content, o.at.spec, o.at.setup>>]) \subseteq Range(m.requests))
     \/ m.fingerprint # Fingerprint(m, m.handle)
     \/ m.handle.batch # o.batch
     \/ ~o.sliced /\ Range(m.requests) # Range(batch[o.batch].requests)
     \/ \E r \in Range(m.requests) : ~Answered(o.batch, r)
     \/ o.why = "reducer_required"

\* A collect is refused only for something that concerns its own document: a
\* stale or damaged manifest, another batch's results, an own request without a
\* usable answer, or shards that need a second call.  What the provider did to
\* the other documents of the aggregate is no reason
\* (deferred_results_for_document).
RefusedForOwnCause ==
  (outcome # Nothing /\ ~Extracted) => OwnCause

Settled(k) ==
  /\ manifest[k] # Nothing
  /\ \/ Collected(k)
     \/ \E b \in Batch : /\ manifest[k].handle.batch = b
                         /\ results[b] # Nothing
                         /\ results[b].kind = "refused"

\* Whoever has a manifest, keeps polling and keeps collecting learns what became
\* of the submission, whatever changed in between, was cancelled or was lost.
Settles == \A k \in Key : manifest[k] # Nothing ~> Settled(k)

Replies(x) ==
  IF x = Nothing THEN {}
  ELSE {<<line.question, line.says>> :
          line \in {l \in Range(x.output \o x.error) : l.kind = "answer"}}

Promise == INSTANCE DeferredPromise WITH
  None <- Nothing,
  asked <- [b \in Batch |-> IF batch[b] = Nothing THEN {} ELSE Range(batch[b].requests)],
  answers <- [b \in Batch |-> Replies(batch[b])],
  delivered <- [k \in Key |->
    IF Extracted /\ outcome.key = k
    THEN [batch |-> outcome.manifest.handle.batch,
          answers |-> {<<u.request, u.response.says>> : u \in outcome.used}]
    ELSE Nothing]

\* Deferred extraction implements its promise: answers of two submissions are
\* never mixed, and none is used that was not given to a question asked with it.
ImplementsPromise == Promise!Spec
=============================================================================
