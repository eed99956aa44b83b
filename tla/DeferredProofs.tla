---------------------------- MODULE DeferredProofs ----------------------------
(***************************************************************************)
(* What is proved of DeferredLifecycle, for any documents, plans, batches, *)
(* deliveries and mishaps that its assumptions allow.                      *)
(***************************************************************************)
EXTENDS DeferredLifecycle, SequenceInduction

(* ------------------------------ requests ------------------------------ *)
Apart(seqs) ==
  \A i, j \in 1..Len(seqs) : \A l \in 1..Len(seqs[i]), m \in 1..Len(seqs[j]) :
    seqs[i][l].id = seqs[j][m].id => i = j /\ l = m

\* What has an id of its own in its place has it wherever it is laid.
LEMMA FlattenApart ==
  ASSUME NEW S, NEW seqs \in Seq(Seq(S)), Apart(seqs)
  PROVE  ~HasDuplicates(FlattenSeq(seqs))
<1> DEFINE flat == FlattenSeq(seqs)
<1>1. flat \in Seq(S)
  BY FlattenSeqLays
<1>2. PICK at \in [1..Len(seqs) -> Nat] : Laid(seqs, Len(seqs), at, flat)
  BY FlattenSeqLays
<1> HIDE DEF flat
<1>3. DOMAIN flat = 1..Len(flat)
  BY <1>1
<1>4. ASSUME NEW k \in DOMAIN flat, NEW n \in DOMAIN flat, flat[k].id = flat[n].id
      PROVE  k = n
  <2>1. PICK i \in 1..Len(seqs) : \E l \in 1..Len(seqs[i]) : k = at[i] + l
    BY <1>2, <1>3 DEF Laid
  <2>2. PICK l \in 1..Len(seqs[i]) : k = at[i] + l
    BY <2>1
  <2>3. PICK j \in 1..Len(seqs) : \E m \in 1..Len(seqs[j]) : n = at[j] + m
    BY <1>2, <1>3 DEF Laid
  <2>4. PICK m \in 1..Len(seqs[j]) : n = at[j] + m
    BY <2>3
  <2>5. flat[k] = seqs[i][l] /\ flat[n] = seqs[j][m]
    BY <1>2, <2>2, <2>4 DEF Laid
  <2>6. QED
    BY <1>4, <2>2, <2>4, <2>5 DEF Apart
<1>5. QED
  BY <1>4 DEF HasDuplicates, flat

LEMMA FlattenPart ==
  ASSUME NEW S, NEW seqs \in Seq(Seq(S)), ~HasDuplicates(FlattenSeq(seqs)),
         NEW i \in 1..Len(seqs)
  PROVE  ~HasDuplicates(seqs[i])
<1> DEFINE flat == FlattenSeq(seqs)
<1>1. flat \in Seq(S)
  BY FlattenSeqLays
<1>2. PICK at \in [1..Len(seqs) -> Nat] : Laid(seqs, Len(seqs), at, flat)
  BY FlattenSeqLays
<1>3. ~HasDuplicates(flat)
  OBVIOUS
<1> HIDE DEF flat
<1>4. DOMAIN flat = 1..Len(flat) /\ DOMAIN seqs[i] = 1..Len(seqs[i]) /\ at[i] \in Nat
  <2>1. \A s \in Seq(S) : DOMAIN s = 1..Len(s)
    OBVIOUS
  <2>2. \A s \in Seq(Seq(S)) : \A j \in 1..Len(s) : s[j] \in Seq(S)
    OBVIOUS
  <2>3. QED
    BY <1>1, <2>1, <2>2
<1>5. ASSUME NEW l \in DOMAIN seqs[i], NEW m \in DOMAIN seqs[i], l # m
      PROVE  seqs[i][l].id # seqs[i][m].id
  <2>1. /\ at[i] + l \in DOMAIN flat /\ flat[at[i] + l] = seqs[i][l]
        /\ at[i] + m \in DOMAIN flat /\ flat[at[i] + m] = seqs[i][m]
    BY <1>2, <1>4 DEF Laid
  <2>2. at[i] + l # at[i] + m
    BY <1>4, <1>5
  <2>3. QED
    BY <1>3, <2>1, <2>2 DEF HasDuplicates
<1>6. QED
  BY <1>5 DEF HasDuplicates

CallsOf(x) ==
  LET plans == Work[<<x[1], x[3]>>].plans
  IN [p \in 1..Len(plans) |-> PlanRequests(x[1], x[2], plans[p])]

Requestable(x) == UNION {Range(CallsOf(x)[p]) : p \in 1..Len(CallsOf(x))}

LEMMA PlansOf ==
  ASSUME NEW x \in Origin
  PROVE  LET plans == Work[<<x[1], x[3]>>].plans
         IN /\ Len(plans) \in Nat /\ DOMAIN plans = 1..Len(plans)
            /\ \A p \in 1..Len(plans) :
                 /\ Len(plans[p].prompts) \in Nat
                 /\ DOMAIN plans[p].prompts = 1..Len(plans[p].prompts)
                 /\ plans[p].kind = "packed" => Len(plans[p].prompts) = 1
            /\ \A p, q \in 1..Len(plans) : p # q =>
                 /\ plans[p].fields # plans[q].fields
                 /\ (plans[p].kind = "packed" /\ plans[q].kind = "packed") =>
                      plans[p].prompts[1] # plans[q].prompts[1]
<1> DEFINE c == x[1]
           u == x[3]
           plans == Work[<<c, u>>].plans
<1>1. c \in Content /\ u \in Setup
  BY DEF Origin
<1>2. /\ plans \in Seq(Range(plans))
      /\ \A p \in DOMAIN plans :
           /\ plans[p].prompts \in Seq(Range(plans[p].prompts))
           /\ plans[p].kind = "packed" => Len(plans[p].prompts) = 1
      /\ \A p, q \in DOMAIN plans : p # q =>
           /\ plans[p].fields # plans[q].fields
           /\ (plans[p].kind = "packed" /\ plans[q].kind = "packed") =>
                plans[p].prompts[1] # plans[q].prompts[1]
  BY <1>1, WorkAssumption
<1> HIDE DEF plans
<1>3. Len(plans) \in Nat /\ DOMAIN plans = 1..Len(plans)
  BY <1>2
<1>4. ASSUME NEW p \in DOMAIN plans
      PROVE  /\ Len(plans[p].prompts) \in Nat
             /\ DOMAIN plans[p].prompts = 1..Len(plans[p].prompts)
  BY <1>2
<1>5. QED
  BY <1>2, <1>3, <1>4 DEF plans

LEMMA CallsAreSequences ==
  ASSUME NEW x \in Origin
  PROVE  /\ CallsOf(x) \in Seq(Seq(Requestable(x)))
         /\ Len(CallsOf(x)) = Len(Work[<<x[1], x[3]>>].plans)
         /\ RequestsOf[x] = FlattenSeq(CallsOf(x))
<1> DEFINE plans == Work[<<x[1], x[3]>>].plans
           calls == CallsOf(x)
<1>1. Len(plans) \in Nat /\ DOMAIN plans = 1..Len(plans)
  BY PlansOf
<1>2. \A p \in 1..Len(plans) :
        /\ Len(plans[p].prompts) \in Nat
        /\ DOMAIN plans[p].prompts = 1..Len(plans[p].prompts)
  BY PlansOf
<1>3. calls = [p \in 1..Len(plans) |-> PlanRequests(x[1], x[2], plans[p])]
  BY DEF CallsOf
<1>4. DOMAIN calls = 1..Len(plans) /\ Len(calls) = Len(plans)
  BY <1>1, <1>3
<1>5. ASSUME NEW p \in 1..Len(plans) PROVE calls[p] \in Seq(Requestable(x))
  <2>1. calls[p] = [i \in 1..Len(plans[p].prompts) |-> Request(x[1], x[2], plans[p], i)]
    BY <1>2, <1>3 DEF PlanRequests
  <2>2. \A i \in 1..Len(plans[p].prompts) : calls[p][i] \in Range(calls[p])
    BY <2>1 DEF Range
  <2>3. Range(calls[p]) \subseteq Requestable(x)
    BY <1>4 DEF Requestable
  <2>4. calls[p] \in [1..Len(plans[p].prompts) -> Requestable(x)]
    BY <2>1, <2>2, <2>3
  <2>5. QED
    BY <1>2, <2>4, FunctionIsSeq
<1>6. calls \in Seq(Seq(Requestable(x)))
  <2>1. calls \in [1..Len(plans) -> Seq(Requestable(x))]
    BY <1>3, <1>5
  <2>2. QED
    BY <1>1, <2>1, FunctionIsSeq
<1>7. RequestsOf[x] = FlattenSeq(calls)
  <2>2. RequestsOf[x] =
          FlattenSeq([p \in DOMAIN plans |-> PlanRequests(x[1], x[2], plans[p])])
    BY DEF RequestsOf
  <2>3. QED
    BY <1>1, <1>3, <2>2
<1>8. QED
  BY <1>4, <1>6, <1>7

LEMMA RoutingsDiffer ==
  ASSUME NEW c, NEW p, NEW q, NEW i, NEW j, Routing(c, p, i) = Routing(c, q, j)
  PROVE  \/ p.kind = "packed" /\ q.kind = "packed"
         \/ /\ p.kind # "packed" /\ q.kind # "packed"
            /\ p.fields = q.fields /\ i = j
<1> DEFINE short == [content |-> c]
           long(r, n) == [content |-> c, fields |-> r.fields, index |-> n,
                          count |-> Len(r.prompts)]
<1>1. \A r, n : short # long(r, n)
  <2>1. \A r, n : "index" \in DOMAIN long(r, n)
    OBVIOUS
  <2>2. "index" \notin DOMAIN short
    OBVIOUS
  <2>3. QED
    BY <2>1, <2>2
<1>2. long(p, i) = long(q, j) => p.fields = q.fields /\ i = j
  <2>1. long(p, i).fields = p.fields /\ long(p, i).index = i
    OBVIOUS
  <2>2. long(q, j).fields = q.fields /\ long(q, j).index = j
    OBVIOUS
  <2> HIDE DEF long
  <2>3. QED
    BY <2>1, <2>2
<1>3. /\ Routing(c, p, i) = IF p.kind = "packed" THEN short ELSE long(p, i)
      /\ Routing(c, q, j) = IF q.kind = "packed" THEN short ELSE long(q, j)
  BY DEF Routing
<1> HIDE DEF short, long
<1>4. QED
  BY <1>1, <1>2, <1>3

LEMMA CallsApart == ASSUME NEW x \in Origin PROVE Apart(CallsOf(x))
<1> DEFINE plans == Work[<<x[1], x[3]>>].plans
           calls == CallsOf(x)
<1>1. /\ Len(plans) \in Nat /\ DOMAIN plans = 1..Len(plans)
      /\ \A p \in 1..Len(plans) :
           /\ DOMAIN plans[p].prompts = 1..Len(plans[p].prompts)
           /\ plans[p].kind = "packed" => Len(plans[p].prompts) = 1
      /\ \A p, q \in 1..Len(plans) : p # q =>
           /\ plans[p].fields # plans[q].fields
           /\ (plans[p].kind = "packed" /\ plans[q].kind = "packed") =>
                plans[p].prompts[1] # plans[q].prompts[1]
  BY PlansOf
<1>2. Len(calls) = Len(plans) /\ calls \in Seq(Seq(Requestable(x)))
  BY CallsAreSequences
<1>3. ASSUME NEW p \in 1..Len(plans)
      PROVE  /\ Len(calls[p]) = Len(plans[p].prompts)
             /\ \A i \in 1..Len(calls[p]) : calls[p][i] = Request(x[1], x[2], plans[p], i)
  <2>1. calls[p] = [i \in 1..Len(plans[p].prompts) |-> Request(x[1], x[2], plans[p], i)]
    BY <1>1 DEF CallsOf, PlanRequests
  <2>2. calls[p] \in Seq(Requestable(x))
    BY <1>2
  <2>3. Len(plans[p].prompts) \in Nat
    BY PlansOf
  <2>4. Len(calls[p]) = Len(plans[p].prompts)
    BY <2>1, <2>3
  <2>5. QED
    BY <2>1, <2>4
<1> HIDE DEF plans, calls
<1>4. ASSUME NEW p \in 1..Len(plans), NEW i \in 1..Len(calls[p]),
             NEW q \in 1..Len(plans), NEW j \in 1..Len(calls[q]),
             calls[p][i].id = calls[q][j].id
      PROVE  p = q /\ i = j
  <2>1. /\ calls[p][i].id = [identity |-> plans[p].prompts[i], spec |-> x[2],
                             routing |-> Routing(x[1], plans[p], i)]
        /\ calls[q][j].id = [identity |-> plans[q].prompts[j], spec |-> x[2],
                             routing |-> Routing(x[1], plans[q], j)]
    <3>1. /\ calls[p][i] = Request(x[1], x[2], plans[p], i)
          /\ calls[q][j] = Request(x[1], x[2], plans[q], j)
      BY <1>3
    <3>2. QED
      BY <3>1 DEF Request
  <2>2. /\ plans[p].prompts[i] = plans[q].prompts[j]
        /\ Routing(x[1], plans[p], i) = Routing(x[1], plans[q], j)
    <3>1. /\ calls[p][i].id.identity = plans[p].prompts[i]
          /\ calls[p][i].id.routing = Routing(x[1], plans[p], i)
      BY <2>1
    <3>2. /\ calls[q][j].id.identity = plans[q].prompts[j]
          /\ calls[q][j].id.routing = Routing(x[1], plans[q], j)
      BY <2>1
    <3>3. QED
      BY <1>4, <3>1, <3>2
  <2>3. CASE plans[p].kind = "packed" /\ plans[q].kind = "packed"
    <3>1. i = 1 /\ j = 1
      <4>1. Len(calls[p]) = 1 /\ Len(calls[q]) = 1
        BY <1>1, <1>3, <2>3
      <4>2. QED
        BY <4>1
    <3>2. QED
      BY <1>1, <2>2, <2>3, <3>1
  <2>4. CASE ~(plans[p].kind = "packed" /\ plans[q].kind = "packed")
    <3>1. plans[p].fields = plans[q].fields /\ i = j
      BY <2>2, <2>4, RoutingsDiffer
    <3>2. QED
      BY <1>1, <3>1
  <2>5. QED
    BY <2>3, <2>4
<1>5. QED
  BY <1>2, <1>4 DEF Apart, calls

\* What a document's calls are, one after the other: they are told apart by
\* their ids.
LEMMA RequestsAreApart ==
  ASSUME NEW x \in Origin
  PROVE  /\ RequestsOf[x] \in Seq(Requestable(x))
         /\ Range(RequestsOf[x]) = Requestable(x)
         /\ ~HasDuplicates(RequestsOf[x])
<1>1. CallsOf(x) \in Seq(Seq(Requestable(x))) /\ RequestsOf[x] = FlattenSeq(CallsOf(x))
  BY CallsAreSequences
<1>2. RequestsOf[x] \in Seq(Requestable(x))
  BY <1>1, FlattenSeqLays
<1>3. ~HasDuplicates(RequestsOf[x])
  BY <1>1, CallsApart, FlattenApart
<1>4. Range(RequestsOf[x]) = Requestable(x)
  BY <1>1, FlattenSeqRange DEF Requestable
<1>5. QED
  BY <1>2, <1>3, <1>4

AllRequests == UNION {Requestable(x) : x \in Origin}

LEMMA TogetherHolds ==
  ASSUME NEW S, NEW of, IsFiniteSet(DOMAIN of), of \in [DOMAIN of -> Seq(S)]
  PROVE  /\ Together(of) \in Seq(S)
         /\ \A k \in DOMAIN of :
              /\ Range(of[k]) \subseteq Range(Together(of))
              /\ ~HasDuplicates(Together(of)) => ~HasDuplicates(of[k])
<1> DEFINE order == SetToSeq(DOMAIN of)
           parts == [i \in DOMAIN order |-> of[order[i]]]
<1>1. order \in Seq(DOMAIN of) /\ Range(order) = DOMAIN of
  BY SetToSeqOrders
<1>2. Together(of) = FlattenSeq(parts)
  BY DEF Together
<1> HIDE DEF order
<1>3. Len(order) \in Nat /\ DOMAIN order = 1..Len(order)
  BY <1>1
<1>4. parts \in [1..Len(order) -> Seq(S)]
  <2>1. \A i \in 1..Len(order) : order[i] \in DOMAIN of
    BY <1>1
  <2>2. QED
    BY <1>3, <2>1
<1>5. parts \in Seq(Seq(S)) /\ Len(parts) = Len(order)
  BY <1>3, <1>4, FunctionIsSeq
<1>6. ASSUME NEW k \in DOMAIN of PROVE \E i \in 1..Len(parts) : parts[i] = of[k]
  <2>1. PICK i \in DOMAIN order : order[i] = k
    BY <1>1 DEF Range
  <2>2. QED
    BY <1>3, <1>5, <2>1
<1> HIDE DEF parts
<1>7. FlattenSeq(parts) \in Seq(S)
  BY <1>5, FlattenSeqLays
<1>8. Range(FlattenSeq(parts)) = UNION {Range(parts[i]) : i \in 1..Len(parts)}
  BY <1>5, FlattenSeqRange
<1>9. ASSUME NEW k \in DOMAIN of
      PROVE  /\ Range(of[k]) \subseteq Range(FlattenSeq(parts))
             /\ ~HasDuplicates(FlattenSeq(parts)) => ~HasDuplicates(of[k])
  <2>1. PICK i \in 1..Len(parts) : parts[i] = of[k]
    BY <1>6
  <2>2. Range(parts[i]) \subseteq Range(FlattenSeq(parts))
    BY <1>8
  <2>3. ~HasDuplicates(FlattenSeq(parts)) => ~HasDuplicates(parts[i])
    BY <1>5, FlattenPart
  <2>4. QED
    BY <2>1, <2>2, <2>3
<1>10. QED
  BY <1>2, <1>7, <1>9

LEMMA AskableAreSequences ==
  ASSUME NEW r \in Askable
  PROVE  r \in Seq(AllRequests) /\ r # <<>>
<1>1. \A x \in Origin : RequestsOf[x] \in Seq(AllRequests)
  <2>1. ASSUME NEW x \in Origin PROVE RequestsOf[x] \in Seq(AllRequests)
    <3>1. Requestable(x) \subseteq AllRequests
      BY DEF AllRequests
    <3>2. QED
      BY <3>1, RequestsAreApart
  <2>2. QED
    BY <2>1
<1>2. CASE \E x \in Origin : r = RequestsOf[x]
  BY <1>1, <1>2 DEF Askable
<1>3. ASSUME NEW keys \in SUBSET Key, NEW origin \in [keys -> Origin],
             r = Together([k \in keys |-> RequestsOf[origin[k]]])
      PROVE  r \in Seq(AllRequests)
  <2> DEFINE of == [k \in keys |-> RequestsOf[origin[k]]]
  <2>1. of \in [keys -> Seq(AllRequests)] /\ DOMAIN of = keys
    BY <1>1
  <2>2. IsFiniteSet(keys)
    BY WorldAssumption, FS_Subset
  <2> HIDE DEF of
  <2>3. Together(of) \in Seq(AllRequests)
    BY <2>1, <2>2, TogetherHolds
  <2>4. QED
    BY <1>3, <2>3 DEF of
<1>4. /\ r # <<>>
      /\ \/ \E x \in Origin : r = RequestsOf[x]
         \/ \E keys \in SUBSET Key : \E origin \in [keys -> Origin] :
              r = Together([k \in keys |-> RequestsOf[origin[k]]])
  BY Zenon DEF Askable
<1>5. QED
  BY <1>2, <1>3, <1>4

(* ------------------------------ files --------------------------------- *)
Told(x) == x.output \o x.error

\* Every line that counts is read, and nothing that no line says.
Reads(lines, read) ==
  /\ \A i \in 1..Len(lines) : lines[i].kind = "answer" =>
       lines[i].id \in DOMAIN read.successful
  /\ \A id \in DOMAIN read.successful : \E i \in 1..Len(lines) :
       /\ lines[i].kind = "answer" /\ lines[i].id = id
       /\ read.successful[id] = ResponseOf(lines[i])
  /\ \A id \in DOMAIN read.failed : \E i \in 1..Len(lines) :
       /\ lines[i].kind # "answer" /\ lines[i].id = id
       /\ read.failed[id].id = id

LEMMA ParseReads ==
  ASSUME NEW S, NEW output \in Seq(S), NEW error \in Seq(S)
  PROVE  Reads(output \o error, ParseFiles(output, error))
<1> DEFINE lines == output \o error
           answers == {i \in DOMAIN lines : lines[i].kind = "answer"}
           errors == {i \in DOMAIN lines : lines[i].kind \notin {"answer", "garbled"}}
           ids(rows) == {lines[i].id : i \in rows}
           at(rows, id) == Max({i \in rows : lines[i].id = id})
           read == ParseFiles(output, error)
<1>1. lines \in Seq(S)
  OBVIOUS
<1>2. /\ DOMAIN read.successful = ids(answers)
      /\ \A id \in ids(answers) : read.successful[id] = ResponseOf(lines[at(answers, id)])
  BY DEF ParseFiles, ResponseOf
<1>3. /\ DOMAIN read.failed = ids(errors)
      /\ \A id \in ids(errors) : read.failed[id] = ErrorOf(lines[at(errors, id)])
  BY DEF ParseFiles, ErrorOf
<1> HIDE DEF lines, read
<1>4. Len(lines) \in Nat /\ DOMAIN lines = 1..Len(lines)
  BY <1>1
<1>5. ASSUME NEW rows \in SUBSET DOMAIN lines, NEW id \in ids(rows)
      PROVE  at(rows, id) \in rows /\ lines[at(rows, id)].id = id
  <2> DEFINE own == {i \in rows : lines[i].id = id}
  <2>1. own # {} /\ own \in SUBSET (1..Len(lines))
    BY <1>4
  <2> HIDE DEF own
  <2>2. Max(own) \in own
    BY <1>4, <2>1, MaxIsOne
  <2>3. QED
    BY <2>2 DEF own
<1>6. ASSUME NEW id \in DOMAIN read.successful
      PROVE  \E i \in 1..Len(lines) :
               /\ lines[i].kind = "answer" /\ lines[i].id = id
               /\ read.successful[id] = ResponseOf(lines[i])
  <2>1. answers \in SUBSET DOMAIN lines /\ id \in ids(answers)
    BY <1>2
  <2>2. at(answers, id) \in answers /\ lines[at(answers, id)].id = id
    BY <1>5, <2>1
  <2> HIDE DEF at
  <2>3. QED
    BY <1>2, <1>4, <2>2
<1>7. ASSUME NEW id \in DOMAIN read.failed
      PROVE  \E i \in 1..Len(lines) :
               /\ lines[i].kind # "answer" /\ lines[i].id = id
               /\ read.failed[id].id = id
  <2>1. errors \in SUBSET DOMAIN lines /\ id \in ids(errors)
    BY <1>3
  <2>2. at(errors, id) \in errors /\ lines[at(errors, id)].id = id
    BY <1>5, <2>1
  <2> HIDE DEF at
  <2>3. read.failed[id].id = id
    <3>1. read.failed[id] = ErrorOf(lines[at(errors, id)])
      BY <1>3, <2>1
    <3>2. ErrorOf(lines[at(errors, id)]).id = lines[at(errors, id)].id
      BY DEF ErrorOf
    <3>3. QED
      BY <2>2, <3>1, <3>2
  <2>4. QED
    BY <1>4, <2>2, <2>3
<1>8. QED
  BY <1>2, <1>4, <1>6, <1>7 DEF lines, read, Reads

\* what the files of a batch are once it has ended, and before
EndedWell(b, x) ==
  IF x.status = "completed"
  THEN \E files \in Deliveries[<<b, x.requests>>] :
         x.output = files.output /\ x.error = files.error
  ELSE x.output = <<>> /\ x.error = <<>>

LEMMA LinesAnswer ==
  ASSUME NEW b \in Batch, NEW x, x.requests \in Askable, EndedWell(b, x)
  PROVE  \E S : /\ x.output \in Seq(S) /\ x.error \in Seq(S) /\ Told(x) \in Seq(S)
                /\ \A i \in 1..Len(Told(x)) :
                     /\ Told(x)[i].question \in Range(x.requests)
                     /\ Told(x)[i].id = Told(x)[i].question.id
<1>1. CASE x.status = "completed"
  <2>1. PICK files \in Deliveries[<<b, x.requests>>] :
          x.output = files.output /\ x.error = files.error
    BY <1>1 DEF EndedWell
  <2>2. /\ files.output \in Seq(Range(files.output))
        /\ files.error \in Seq(Range(files.error))
        /\ \A i \in DOMAIN (files.output \o files.error) :
             /\ (files.output \o files.error)[i].question \in Range(x.requests)
             /\ (files.output \o files.error)[i].id =
                  (files.output \o files.error)[i].question.id
    BY DeliveriesAssumption
  <2> DEFINE S == Range(files.output) \cup Range(files.error)
  <2>3. files.output \in Seq(S) /\ files.error \in Seq(S)
    <3>1. \A R : R \subseteq S => Seq(R) \subseteq Seq(S)
      OBVIOUS
    <3>2. QED
      BY <2>2, <3>1
  <2> HIDE DEF S
  <2>4. Told(x) = files.output \o files.error /\ Told(x) \in Seq(S)
    BY <2>1, <2>3 DEF Told
  <2>5. DOMAIN Told(x) = 1..Len(Told(x))
    BY <2>4
  <2>6. QED
    BY <2>1, <2>2, <2>3, <2>4, <2>5
<1>2. CASE x.status # "completed"
  <2>1. x.output = <<>> /\ x.error = <<>> /\ Told(x) = <<>>
    BY <1>2 DEF EndedWell, Told
  <2>2. <<>> \in Seq({}) /\ Len(<<>>) = 0
    OBVIOUS
  <2>3. QED
    BY <2>1, <2>2
<1>3. QED
  BY <1>1, <1>2

(* ------------------------------ invariant ----------------------------- *)
Batches == [requests : Askable, status : Status, output : Files, error : Files]

TypeInv ==
  /\ world \in [content : [Key -> Content], spec : SpecVersion, setup : Setup, mishaps : Nat]
  /\ rendered = [k \in Key |-> rendered[k]]
  /\ manifest = [k \in Key |-> manifest[k]]
  /\ batch \in [Batch -> Batches \cup {Nothing}]
  /\ results = [b \in Batch |-> results[b]]

\* a submission was rendered from some document, spec and setup
RenderedInv ==
  \A k \in Key : rendered[k] # Nothing => \E x \in Origin : rendered[k].requests = RequestsOf[x]

\* a batch asks nothing twice, and its files are the ones it was ended with
BatchInv ==
  \A b \in Batch : batch[b] # Nothing =>
    ~HasDuplicates(batch[b].requests) /\ EndedWell(b, batch[b])

Holds(m, b, x) ==
  /\ m.handle = HandleOf(b, x)
  /\ m.requests \in Seq(Range(x.requests))
  /\ ~HasDuplicates(m.requests)
  /\ m = [content |-> m.content, spec |-> m.spec, requests |-> m.requests,
          handle |-> m.handle, fingerprint |-> m.fingerprint]

\* a manifest names a batch that was asked what the manifest lists
ManifestInv ==
  \A k \in Key : manifest[k] # Nothing =>
    \E b \in Batch : batch[b] # Nothing /\ Holds(manifest[k], b, batch[b])

\* results that were read to the end are what the batch holds now
ResultsInv ==
  \A b \in Batch : (results[b] # Nothing /\ results[b].kind = "done") =>
    /\ batch[b] # Nothing
    /\ batch[b].status = "completed"
    /\ results[b] = PollAnswer(b)

LifecycleInv == TypeInv /\ RenderedInv /\ BatchInv /\ ManifestInv /\ ResultsInv

LEMMA InitLifecycle == Init => LifecycleInv
<1> SUFFICES ASSUME Init PROVE LifecycleInv
  OBVIOUS
<1>1. \E v \in SpecVersion : TRUE
  BY WorldAssumption
<1>2. \E u \in Setup : \A w \in Setup : u <= w
  BY WorldAssumption, LeastNat
<1>3. world \in [content : [Key -> Content], spec : SpecVersion, setup : Setup, mishaps : Nat]
  BY <1>1, <1>2, WorldAssumption DEF Init
<1>4. TypeInv
  BY <1>3 DEF Init, TypeInv
<1>5. QED
  BY <1>4 DEF Init, LifecycleInv, RenderedInv, BatchInv, ManifestInv, ResultsInv

LEMMA BatchesAreSomething == \A x \in Batches : x # Nothing
  BY NothingAssumption DEF Batches

LEMMA NewBatches ==
  ASSUME NEW r \in Askable
  PROVE  NewBatch(r) \in Batches /\ NewBatch(r).requests = r
  BY DEF NewBatch, Batches, Status, Files, PendingStatus

LEMMA RequestsAreSequences ==
  ASSUME NEW x \in Batches
  PROVE  /\ x.requests \in Askable
         /\ x.requests \in Seq(AllRequests)
         /\ x.requests # <<>>
         /\ x = [requests |-> x.requests, status |-> x.status, output |-> x.output,
                 error |-> x.error]
  BY AskableAreSequences DEF Batches

(* ------------------------------ submitting ---------------------------- *)
RenderedOf(keys) == [k \in keys |-> rendered[k].requests]

LEMMA SubmittableIsAskable ==
  ASSUME TypeInv, RenderedInv, NEW keys \in SUBSET Key, Submittable(keys)
  PROVE  /\ Requests(keys) \in Askable
         /\ ~HasDuplicates(Requests(keys))
         /\ \A k \in keys : /\ rendered[k].requests \in Seq(Range(Requests(keys)))
                            /\ ~HasDuplicates(rendered[k].requests)
<1> DEFINE of == RenderedOf(keys)
<1>1. \A k \in keys : \E x \in Origin : rendered[k].requests = RequestsOf[x]
  BY DEF Submittable, RenderedInv
<1>2. PICK origin \in [keys -> Origin] : \A k \in keys : rendered[k].requests = RequestsOf[origin[k]]
  <2> DEFINE origin == [k \in keys |-> CHOOSE x \in Origin : rendered[k].requests = RequestsOf[x]]
  <2>1. origin \in [keys -> Origin] /\ \A k \in keys : rendered[k].requests = RequestsOf[origin[k]]
    BY <1>1
  <2>2. QED
    BY <2>1
<1>3. of = [k \in keys |-> RequestsOf[origin[k]]] /\ DOMAIN of = keys
  BY <1>2 DEF RenderedOf
<1>4. Requests(keys) = Together(of)
  BY DEF Requests, RenderedOf
<1>5. Requests(keys) # <<>> /\ ~HasDuplicates(Requests(keys))
  BY DEF Submittable, Accepts
<1>6. Requests(keys) \in Askable
  <2>1. Together([k \in keys |-> RequestsOf[origin[k]]]) # <<>>
    BY <1>3, <1>4, <1>5
  <2>2. Together([k \in keys |-> RequestsOf[origin[k]]]) \in Askable
    <3> DEFINE asked(f, T) == Together([k \in T |-> RequestsOf[f[k]]])
               some(T) == {asked(f, T) : f \in [T -> Origin]}
    <3>1. asked(origin, keys) \in some(keys)
      OBVIOUS
    <3> HIDE DEF some, asked
    <3>2. asked(origin, keys) \in UNION {some(T) : T \in SUBSET Key}
      BY <3>1
    <3>3. Askable = ({RequestsOf[x] : x \in Origin} \cup
                     UNION {some(T) : T \in SUBSET Key}) \ {<<>>}
      BY DEF Askable, some, asked
    <3>4. asked(origin, keys) # <<>>
      BY <2>1 DEF asked
    <3>5. asked(origin, keys) \in Askable
      BY <3>2, <3>3, <3>4
    <3>6. QED
      BY <3>5 DEF asked
  <2>3. QED
    BY <1>3, <1>4, <2>2
<1>7. ASSUME NEW k \in keys PROVE of[k] \in Seq(AllRequests) /\ of[k] = rendered[k].requests
  <2>1. origin[k] \in Origin /\ of[k] = RequestsOf[origin[k]]
    BY <1>3
  <2>2. Requestable(origin[k]) \subseteq AllRequests
    BY <2>1 DEF AllRequests
  <2>3. of[k] \in Seq(AllRequests)
    BY <2>1, <2>2, RequestsAreApart
  <2>4. QED
    BY <2>3 DEF RenderedOf
<1> HIDE DEF of
<1>8. of \in [DOMAIN of -> Seq(AllRequests)] /\ IsFiniteSet(DOMAIN of)
  <2>1. IsFiniteSet(keys)
    BY WorldAssumption, FS_Subset
  <2>2. of = [k \in keys |-> of[k]]
    BY DEF of, RenderedOf
  <2>3. QED
    BY <1>3, <1>7, <2>1, <2>2
<1>9. ASSUME NEW k \in keys
      PROVE  of[k] \in Seq(Range(Together(of))) /\ ~HasDuplicates(of[k])
  <2>1. Range(of[k]) \subseteq Range(Together(of)) /\ ~HasDuplicates(of[k])
    BY <1>3, <1>4, <1>5, <1>8, TogetherHolds
  <2>2. of[k] \in Seq(Range(of[k]))
    BY <1>7 DEF Range
  <2>3. QED
    BY <2>1, <2>2
<1>10. QED
  BY <1>4, <1>5, <1>6, <1>7, <1>9

LEMMA NowIsAskable ==
  ASSUME TypeInv, NEW k \in Key
  PROVE  /\ \E x \in Origin : RenderedNow(k).requests = RequestsOf[x]
         /\ RenderedNow(k).requests \in Seq(Range(RenderedNow(k).requests))
         /\ ~HasDuplicates(RenderedNow(k).requests)
         /\ Accepts(RenderedNow(k).requests) => RenderedNow(k).requests \in Askable
<1> DEFINE x == <<world.content[k], world.spec, world.setup>>
<1>1. x \in Origin
  BY DEF TypeInv, Origin
<1>2. RenderedNow(k).requests = RequestsOf[x]
  BY DEF RenderedNow
<1> HIDE DEF x
<1>3. RequestsOf[x] \in Seq(Requestable(x)) /\ ~HasDuplicates(RequestsOf[x])
  BY <1>1, RequestsAreApart
<1>4. RequestsOf[x] \in Seq(Range(RequestsOf[x]))
  BY <1>3 DEF Range
<1>5. Accepts(RequestsOf[x]) => RequestsOf[x] \in Askable
  BY <1>1, Zenon DEF Accepts, Askable
<1>6. QED
  BY <1>1, <1>2, <1>3, <1>4, <1>5

(* -------------------------- how a batch changes ----------------------- *)
Submitted(b, r) ==
  batch[b] = Nothing /\ r \in Askable /\ ~HasDuplicates(r) /\ batch'[b] = NewBatch(r)

Going(b) == batch[b] # Nothing /\ batch[b].status # "completed"

BatchMove(b) ==
  \/ batch'[b] = batch[b]
  \/ \E r \in Askable : Submitted(b, r)
  \/ /\ Going(b)
     /\ \E files \in Deliveries[<<b, batch[b].requests>>] : batch'[b] = Ended(batch[b], files)
  \/ /\ Going(b)
     /\ \E s \in Status \ {"completed"} : batch'[b] = [batch[b] EXCEPT !.status = s]

BatchMoves == batch' = [b \in Batch |-> batch'[b]] /\ \A b \in Batch : BatchMove(b)

LEMMA StartMoves ==
  ASSUME TypeInv, NEW b \in Batch, NEW keys, NEW r \in Askable, ~HasDuplicates(r),
         Start(b, keys, r)
  PROVE  BatchMoves /\ Submitted(b, r) /\ \A other \in Batch \ {b} : batch'[other] = batch[other]
  BY DEF TypeInv, Start, BatchMoves, BatchMove, Submitted

LEMMA ProviderMoves ==
  ASSUME LifecycleInv, NEW b \in Batch, Finish(b) \/ Rename(b) \/ Cancel(b)
  PROVE  BatchMoves
<1>1. TypeInv /\ ManifestInv
  BY DEF LifecycleInv
<1>2. CASE Finish(b)
  <2>1. PICK files \in Deliveries[<<b, batch[b].requests>>] :
          batch' = [batch EXCEPT ![b] = Ended(@, files)]
    BY <1>2 DEF Finish
  <2>2. /\ batch' = [c \in Batch |-> batch'[c]] /\ batch'[b] = Ended(batch[b], files)
        /\ \A c \in Batch \ {b} : batch'[c] = batch[c]
    BY <1>1, <2>1 DEF TypeInv
  <2>3. Going(b)
    BY <1>2 DEF Finish, Going
  <2>4. QED
    BY <2>2, <2>3 DEF BatchMoves, BatchMove
<1>3. CASE Rename(b)
  BY <1>1, <1>3 DEF TypeInv, Rename, Unheard, BatchMoves, BatchMove, Going, Status
<1>4. CASE Cancel(b)
  <2>1. batch' = [batch EXCEPT ![b] = Cancelled(@)]
    BY <1>4 DEF Cancel
  <2>2. batch' = [c \in Batch |-> batch'[c]] /\ batch'[b] = Cancelled(batch[b])
        /\ \A c \in Batch \ {b} : batch'[c] = batch[c]
    BY <1>1, <2>1 DEF TypeInv
  <2>3. batch[b] # Nothing
    <3>1. PICK k \in Key : manifest[k] # Nothing /\ manifest[k].handle.batch = b
      BY <1>4 DEF Cancel, Known
    <3>2. PICK c \in Batch : batch[c] # Nothing /\ Holds(manifest[k], c, batch[c])
      BY <1>1, <3>1 DEF ManifestInv
    <3>3. manifest[k].handle.batch = c
      BY <3>2 DEF Holds, HandleOf
    <3>4. QED
      BY <3>1, <3>2, <3>3
  <2>4. BatchMove(b)
    BY <2>2, <2>3 DEF Cancelled, BatchMove, Going, Status, PendingStatus
  <2>5. QED
    BY <2>2, <2>4 DEF BatchMoves, BatchMove
<1>5. QED
  BY <1>2, <1>3, <1>4

LEMMA OnlyBatchMoves ==
  ASSUME LifecycleInv, [Next]_vars
  PROVE  BatchMoves
<1>1. TypeInv /\ RenderedInv
  BY DEF LifecycleInv
<1>2. CASE UNCHANGED batch
  BY <1>1, <1>2 DEF BatchMoves, BatchMove, TypeInv
<1>3. ASSUME NEW b \in Batch, Finish(b) \/ Rename(b) \/ Cancel(b) PROVE BatchMoves
  BY <1>3, ProviderMoves
<1>4. ASSUME NEW b \in Batch, NEW keys \in SUBSET Key,
             SubmitAggregate(b, keys) \/ SubmitLost(b, keys)
      PROVE  BatchMoves
  <2>1. Submittable(keys) /\ Start(b, keys, Requests(keys))
    BY <1>4 DEF SubmitAggregate, SubmitLost
  <2>2. QED
    BY <1>1, <2>1, SubmittableIsAskable, StartMoves
<1>5. ASSUME NEW b \in Batch, NEW k \in Key, SubmitOne(b, k) PROVE BatchMoves
  <2>1. Accepts(RenderedNow(k).requests) /\ Start(b, {k}, RenderedNow(k).requests)
    BY <1>5 DEF SubmitOne
  <2>2. QED
    BY <1>1, <2>1, NowIsAskable, StartMoves
<1>6. World \/ (\E k \in Key : Render(k) \/ Damage(k)) \/ (\E b \in Batch : Poll(b))
        \/ (\E k \in Key, b \in Batch, sliced \in BOOLEAN : Collect(k, b, sliced))
        \/ UNCHANGED vars
      => UNCHANGED batch
  BY DEF World, Edit, Respecify, Upgrade, Render, Damage, Poll, Collect, vars
<1>7. QED
  BY <1>2, <1>3, <1>4, <1>5, <1>6 DEF Next, Consumer, Provider

\* What a batch was asked stays, and so does all of a batch that has ended.
LEMMA BatchesKeep ==
  ASSUME LifecycleInv, BatchMoves, NEW b \in Batch, batch[b] # Nothing
  PROVE  /\ batch'[b] # Nothing
         /\ batch'[b] \in Batches
         /\ batch'[b].requests = batch[b].requests
         /\ batch[b].status = "completed" => batch'[b] = batch[b]
         /\ EndedWell(b, batch'[b])
<1>1. /\ batch[b] \in Batches
      /\ batch[b] = [requests |-> batch[b].requests, status |-> batch[b].status,
                     output |-> batch[b].output, error |-> batch[b].error]
      /\ batch[b].requests \in Askable
      /\ EndedWell(b, batch[b])
  BY RequestsAreSequences DEF LifecycleInv, TypeInv, BatchInv
<1>2. CASE batch'[b] = batch[b]
  BY <1>1, <1>2
<1>3. ASSUME NEW files \in Deliveries[<<b, batch[b].requests>>],
             Going(b), batch'[b] = Ended(batch[b], files)
      PROVE  /\ batch'[b] \in Batches
             /\ batch'[b].requests = batch[b].requests
             /\ EndedWell(b, batch'[b])
  <2>1. files.output \in Files /\ files.error \in Files
    <3> DEFINE told(c, r) == UNION {{f.output, f.error} : f \in Deliveries[<<c, r>>]}
    <3>1. files.output \in told(b, batch[b].requests) /\ files.error \in told(b, batch[b].requests)
      OBVIOUS
    <3>2. Files = {<<>>} \cup UNION {told(c, r) : c \in Batch, r \in Askable}
      BY DEF Files
    <3> HIDE DEF told
    <3>3. QED
      BY <1>1, <3>1, <3>2
  <2>2. batch'[b] = [requests |-> batch[b].requests, status |-> "completed",
                     output |-> files.output, error |-> files.error]
    BY <1>1, <1>3 DEF Ended
  <2>3. batch'[b] \in Batches
    BY <1>1, <2>1, <2>2 DEF Batches, Status
  <2>4. QED
    BY <2>2, <2>3 DEF EndedWell
<1>4. ASSUME NEW s \in Status \ {"completed"}, Going(b),
             batch'[b] = [batch[b] EXCEPT !.status = s]
      PROVE  /\ batch'[b] \in Batches
             /\ batch'[b].requests = batch[b].requests
             /\ EndedWell(b, batch'[b])
  <2>1. batch'[b] = [requests |-> batch[b].requests, status |-> s,
                     output |-> batch[b].output, error |-> batch[b].error]
    BY <1>1, <1>4
  <2>2. batch'[b] \in Batches
    BY <1>1, <2>1 DEF Batches
  <2>3. QED
    BY <1>1, <1>4, <2>1, <2>2 DEF EndedWell, Going
<1>5. BatchMove(b) /\ ~\E r \in Askable : Submitted(b, r)
  BY DEF BatchMoves, Submitted
<1>6. QED
  BY <1>1, <1>2, <1>3, <1>4, <1>5, BatchesAreSomething DEF BatchMove, Going

LEMMA BatchStep ==
  ASSUME LifecycleInv, BatchMoves
  PROVE  /\ batch' \in [Batch -> Batches \cup {Nothing}]
         /\ BatchInv'
<1>1. ASSUME NEW b \in Batch
      PROVE  /\ batch'[b] \in Batches \cup {Nothing}
             /\ batch'[b] # Nothing =>
                  ~HasDuplicates(batch'[b].requests) /\ EndedWell(b, batch'[b])
  <2>1. CASE batch[b] # Nothing
    <3>1. ~HasDuplicates(batch[b].requests)
      BY <2>1 DEF LifecycleInv, BatchInv
    <3>2. QED
      BY <2>1, <3>1, BatchesKeep
  <2>2. CASE batch[b] = Nothing /\ batch'[b] # batch[b]
    <3>1. PICK r \in Askable : Submitted(b, r)
      BY <2>2 DEF BatchMoves, BatchMove, Going
    <3>2. batch'[b] = NewBatch(r) /\ ~HasDuplicates(r)
      BY <3>1 DEF Submitted
    <3>3. NewBatch(r) \in Batches /\ NewBatch(r).requests = r
      BY NewBatches
    <3>4. EndedWell(b, NewBatch(r))
      BY DEF EndedWell, NewBatch
    <3>5. QED
      BY <3>2, <3>3, <3>4
  <2>3. QED
    BY <2>1, <2>2
<1>2. batch' = [b \in Batch |-> batch'[b]]
  BY DEF BatchMoves
<1>3. batch' \in [Batch -> Batches \cup {Nothing}]
  BY <1>1, <1>2
<1>4. BatchInv'
  BY <1>1 DEF BatchInv
<1>5. QED
  BY <1>3, <1>4

(* ------------------------------ every step ---------------------------- *)
LEMMA TypeStep ==
  ASSUME LifecycleInv, [Next]_vars, BatchMoves
  PROVE  TypeInv'
<1>1. TypeInv
  BY DEF LifecycleInv
<1>2. world' \in [content : [Key -> Content], spec : SpecVersion, setup : Setup, mishaps : Nat]
  <2>1. CASE UNCHANGED world
    BY <1>1, <2>1 DEF TypeInv
  <2>2. ASSUME NEW k \in Key, NEW c \in Content,
               world' = [world EXCEPT !.content[k] = c, !.mishaps = @ + 1]
        PROVE  world' \in [content : [Key -> Content], spec : SpecVersion, setup : Setup,
                           mishaps : Nat]
    <3>1. world' = [content |-> [world.content EXCEPT ![k] = c], spec |-> world.spec,
                   setup |-> world.setup, mishaps |-> world.mishaps + 1]
      BY <1>1, <2>2 DEF TypeInv
    <3>2. QED
      BY <1>1, <3>1 DEF TypeInv
  <2>3. ASSUME NEW v \in SpecVersion, world' = [world EXCEPT !.spec = v, !.mishaps = @ + 1]
        PROVE  world' \in [content : [Key -> Content], spec : SpecVersion, setup : Setup,
                           mishaps : Nat]
    <3>1. world' = [content |-> world.content, spec |-> v,
                   setup |-> world.setup, mishaps |-> world.mishaps + 1]
      BY <1>1, <2>3 DEF TypeInv
    <3>2. QED
      BY <1>1, <3>1 DEF TypeInv
  <2>4. ASSUME NEW u \in Setup, world' = [world EXCEPT !.setup = u, !.mishaps = @ + 1]
        PROVE  world' \in [content : [Key -> Content], spec : SpecVersion, setup : Setup,
                           mishaps : Nat]
    <3>1. world' = [content |-> world.content, spec |-> world.spec,
                   setup |-> u, mishaps |-> world.mishaps + 1]
      BY <1>1, <2>4 DEF TypeInv
    <3>2. QED
      BY <1>1, <3>1 DEF TypeInv
  <2>5. CASE world' = [world EXCEPT !.mishaps = @ + 1]
    BY <1>1, <2>5 DEF TypeInv
  <2>6. CASE World
    BY <2>2, <2>3, <2>4, <2>6 DEF World, Edit, Respecify, Upgrade
  <2>7. CASE Consumer \/ Provider \/ UNCHANGED vars
    BY <2>1, <2>5, <2>7 DEF Consumer, Provider, Render, Damage, Poll, Cancel, SubmitAggregate,
       SubmitLost, SubmitOne, Collect, Finish, Rename, vars
  <2>8. QED
    BY <2>6, <2>7 DEF Next
<1>3. rendered' = [k \in Key |-> rendered'[k]]
  BY <1>1 DEF TypeInv, Next, World, Consumer, Provider, Edit, Respecify, Upgrade, Render, Damage,
     Poll, Cancel, SubmitAggregate, SubmitLost, SubmitOne, Collect, Finish, Rename, vars
<1>4. manifest' = [k \in Key |-> manifest'[k]]
  BY <1>1 DEF TypeInv, Next, World, Consumer, Provider, Edit, Respecify, Upgrade, Render, Damage,
     Poll, Cancel, SubmitAggregate, SubmitLost, SubmitOne, Collect, Finish, Rename, vars
<1>5. results' = [b \in Batch |-> results'[b]]
  BY <1>1 DEF TypeInv, Next, World, Consumer, Provider, Edit, Respecify, Upgrade, Render, Damage,
     Poll, Cancel, SubmitAggregate, SubmitLost, SubmitOne, Collect, Finish, Rename, vars
<1>6. QED
  BY <1>2, <1>3, <1>4, <1>5, BatchStep DEF TypeInv

LEMMA RenderedStep ==
  ASSUME LifecycleInv, [Next]_vars
  PROVE  RenderedInv'
<1>1. TypeInv /\ RenderedInv
  BY DEF LifecycleInv
<1>2. ASSUME \A k \in Key : rendered'[k] = rendered[k] \/ rendered'[k] = Nothing
      PROVE  RenderedInv'
  BY <1>1, <1>2 DEF RenderedInv
<1>3. ASSUME NEW k \in Key, Render(k) PROVE RenderedInv'
  <2>1. rendered' = [rendered EXCEPT ![k] = RenderedNow(k)]
    BY <1>3 DEF Render
  <2>2. \E x \in Origin : RenderedNow(k).requests = RequestsOf[x]
    BY <1>1, NowIsAskable
  <2>3. QED
    BY <1>1, <2>1, <2>2 DEF TypeInv, RenderedInv
<1>4. CASE ~\E k \in Key : Render(k)
  <2>1. \A k \in Key : rendered'[k] = rendered[k] \/ rendered'[k] = Nothing
    BY <1>1, <1>4 DEF TypeInv, Next, World, Consumer, Provider, Edit, Respecify, Upgrade, Damage,
       Poll, Cancel, SubmitAggregate, SubmitLost, SubmitOne, Collect, Finish, Rename, vars
  <2>2. QED
    BY <1>2, <2>1
<1>5. QED
  BY <1>3, <1>4

LEMMA ManifestKept ==
  ASSUME LifecycleInv, BatchMoves, NEW k \in Key, manifest[k] # Nothing
  PROVE  \E b \in Batch : batch'[b] # Nothing /\ Holds(manifest[k], b, batch'[b])
<1>1. PICK b \in Batch : batch[b] # Nothing /\ Holds(manifest[k], b, batch[b])
  BY DEF LifecycleInv, ManifestInv
<1>2. batch'[b] # Nothing /\ batch'[b].requests = batch[b].requests
  BY <1>1, BatchesKeep
<1>3. Holds(manifest[k], b, batch'[b])
  BY <1>1, <1>2 DEF Holds, HandleOf
<1>4. QED
  BY <1>2, <1>3

LEMMA ManifestMade ==
  ASSUME NEW b \in Batch, NEW r \in Askable, NEW sub, sub.requests \in Seq(Range(r)),
         ~HasDuplicates(sub.requests)
  PROVE  Holds(ManifestFrom(sub, HandleOf(b, NewBatch(r))), b, NewBatch(r))
  BY DEF ManifestFrom, HandleOf, NewBatch, Holds

LEMMA TailIsApart ==
  ASSUME NEW S, NEW r \in Seq(S), ~HasDuplicates(r), Len(r) > 1
  PROVE  Tail(r) \in Seq(S) /\ ~HasDuplicates(Tail(r))
<1>1. /\ Tail(r) \in Seq(S) /\ DOMAIN Tail(r) = 1..Len(r) - 1 /\ DOMAIN r = 1..Len(r)
      /\ \A i \in 1..Len(r) - 1 : Tail(r)[i] = r[i + 1]
  OBVIOUS
<1>2. \A i \in 1..Len(r) - 1 : i + 1 \in DOMAIN r
  BY <1>1
<1>3. QED
  BY <1>1, <1>2 DEF HasDuplicates

LEMMA ManifestStep ==
  ASSUME LifecycleInv, [Next]_vars, BatchMoves
  PROVE  ManifestInv'
<1>1. TypeInv /\ RenderedInv /\ ManifestInv
  BY DEF LifecycleInv
<1>2. ASSUME NEW k \in Key, manifest'[k] = manifest[k], manifest[k] # Nothing
      PROVE  \E b \in Batch : batch'[b] # Nothing /\ Holds(manifest'[k], b, batch'[b])
  BY <1>2, ManifestKept
<1>3. ASSUME NEW b \in Batch, NEW keys \in SUBSET Key, SubmitAggregate(b, keys)
      PROVE  ManifestInv'
  <2>1. Submittable(keys) /\ Start(b, keys, Requests(keys))
    BY <1>3 DEF SubmitAggregate
  <2>2. /\ Requests(keys) \in Askable /\ ~HasDuplicates(Requests(keys))
        /\ \A k \in keys : /\ rendered[k].requests \in Seq(Range(Requests(keys)))
                           /\ ~HasDuplicates(rendered[k].requests)
    BY <1>1, <2>1, SubmittableIsAskable
  <2>3. batch'[b] = NewBatch(Requests(keys)) /\ batch'[b] # Nothing
    <3>1. batch'[b] = NewBatch(Requests(keys))
      BY <1>1, <2>1, <2>2, StartMoves DEF Submitted
    <3>2. QED
      BY <2>2, <3>1, NewBatches, BatchesAreSomething
  <2>4. \A k \in Key : manifest'[k] =
          IF k \in keys THEN ManifestFrom(rendered[k], HandleOf(b, NewBatch(Requests(keys))))
                        ELSE manifest[k]
    BY <1>3 DEF SubmitAggregate
  <2>5. ASSUME NEW k \in keys PROVE Holds(manifest'[k], b, batch'[b])
    BY <2>2, <2>3, <2>4, ManifestMade
  <2>6. QED
    BY <1>2, <2>3, <2>4, <2>5 DEF ManifestInv
<1>4. ASSUME NEW b \in Batch, NEW k \in Key, SubmitOne(b, k) PROVE ManifestInv'
  <2>1. PICK now : now = RenderedNow(k)
    OBVIOUS
  <2>2. now.requests \in Askable /\ now.requests \in Seq(Range(now.requests))
        /\ ~HasDuplicates(now.requests) /\ Start(b, {k}, now.requests)
    BY <1>1, <1>4, <2>1, NowIsAskable DEF SubmitOne
  <2>3. batch'[b] = NewBatch(now.requests) /\ batch'[b] # Nothing
    <3>1. batch'[b] = NewBatch(now.requests)
      BY <1>1, <2>2, StartMoves DEF Submitted
    <3>2. QED
      BY <2>2, <3>1, NewBatches, BatchesAreSomething
  <2>4. manifest' = [manifest EXCEPT ![k] =
                       ManifestFrom(now, HandleOf(b, NewBatch(now.requests)))]
    BY <1>4, <2>1 DEF SubmitOne
  <2>5. Holds(manifest'[k], b, batch'[b])
    <3>1. manifest'[k] = ManifestFrom(now, HandleOf(b, NewBatch(now.requests)))
      BY <1>1, <2>4 DEF TypeInv
    <3>2. QED
      BY <2>2, <2>3, <3>1, ManifestMade
  <2>6. \A other \in Key \ {k} : manifest'[other] = manifest[other]
    BY <1>1, <2>4 DEF TypeInv
  <2>7. QED
    BY <1>2, <2>3, <2>5, <2>6 DEF ManifestInv
<1>5. ASSUME NEW k \in Key, Damage(k) PROVE ManifestInv'
  <2>1. /\ manifest[k] # Nothing /\ Len(manifest[k].requests) > 1
        /\ manifest' = [manifest EXCEPT ![k].requests = Tail(@)]
    BY <1>5 DEF Damage
  <2>2. PICK b \in Batch : batch'[b] # Nothing /\ Holds(manifest[k], b, batch'[b])
    BY <2>1, ManifestKept
  <2>3. PICK x : x = batch'[b]
    OBVIOUS
  <2>4. manifest'[k] = [content |-> manifest[k].content, spec |-> manifest[k].spec,
                        requests |-> Tail(manifest[k].requests), handle |-> manifest[k].handle,
                        fingerprint |-> manifest[k].fingerprint]
    BY <1>1, <2>1, <2>2 DEF TypeInv, Holds
  <2>5. /\ Tail(manifest[k].requests) \in Seq(Range(x.requests))
        /\ ~HasDuplicates(Tail(manifest[k].requests))
    BY <2>1, <2>2, <2>3, TailIsApart DEF Holds
  <2>6. Holds(manifest'[k], b, x)
    BY <2>2, <2>3, <2>4, <2>5 DEF Holds
  <2>7. \A other \in Key \ {k} : manifest'[other] = manifest[other]
    BY <1>1, <2>1 DEF TypeInv
  <2>8. QED
    BY <1>2, <2>2, <2>3, <2>6, <2>7 DEF ManifestInv
<1>6. CASE UNCHANGED manifest
  BY <1>2, <1>6 DEF ManifestInv
<1>7. QED
  BY <1>3, <1>4, <1>5, <1>6 DEF Next, World, Consumer, Provider, Edit, Respecify, Upgrade, Render,
     Poll, Cancel, SubmitLost, Collect, Finish, Rename, vars

LEMMA ResultsStep ==
  ASSUME LifecycleInv, [Next]_vars, BatchMoves
  PROVE  ResultsInv'
<1>1. TypeInv /\ ManifestInv /\ ResultsInv
  BY DEF LifecycleInv
<1>2. ASSUME NEW b \in Batch, results'[b] = results[b], results[b] # Nothing,
             results[b].kind = "done"
      PROVE  /\ batch'[b] # Nothing /\ batch'[b].status = "completed"
             /\ results'[b] = PollAnswer(b)'
  <2>1. batch[b] # Nothing /\ batch[b].status = "completed" /\ results[b] = PollAnswer(b)
    BY <1>1, <1>2 DEF ResultsInv
  <2>2. batch'[b] = batch[b]
    BY <2>1, BatchesKeep
  <2>3. PollAnswer(b)' = PollAnswer(b)
    BY <2>2 DEF PollAnswer
  <2>4. QED
    BY <1>2, <2>1, <2>2, <2>3
<1>3. ASSUME NEW b \in Batch, Poll(b) PROVE ResultsInv'
  <2>1. /\ batch[b].status \notin PendingStatus /\ UNCHANGED batch
        /\ results' = [results EXCEPT ![b] = PollAnswer(b)]
    BY <1>3 DEF Poll
  <2>2. batch[b] # Nothing
    <3>1. PICK k \in Key : manifest[k] # Nothing /\ manifest[k].handle.batch = b
      BY <1>3 DEF Poll, Known
    <3>2. PICK c \in Batch : batch[c] # Nothing /\ Holds(manifest[k], c, batch[c])
      BY <1>1, <3>1 DEF ManifestInv
    <3>3. manifest[k].handle.batch = c
      BY <3>2 DEF Holds, HandleOf
    <3>4. QED
      BY <3>1, <3>2, <3>3
  <2>3. batch[b].status \in Status
    BY <1>1, <2>2 DEF TypeInv, Batches
  <2>4. results'[b] = PollAnswer(b) /\ \A c \in Batch \ {b} : results'[c] = results[c]
    BY <1>1, <2>1 DEF TypeInv
  <2>5. PollAnswer(b)' = PollAnswer(b)
    BY <2>1 DEF PollAnswer
  <2>6. PollAnswer(b).kind = "done" => batch[b].status = "completed"
    <3>1. PollAnswer(b).kind = "done" => batch[b].status \in TerminalStatus
      BY DEF PollAnswer
    <3>2. QED
      BY <2>3, <3>1 DEF Status, PendingStatus, TerminalStatus
  <2>7. QED
    BY <1>2, <2>1, <2>2, <2>4, <2>5, <2>6 DEF ResultsInv
<1>4. CASE UNCHANGED results
  BY <1>2, <1>4 DEF ResultsInv
<1>5. QED
  BY <1>3, <1>4 DEF Next, World, Consumer, Provider, Edit, Respecify, Upgrade, Render, Damage,
     Cancel, SubmitAggregate, SubmitLost, SubmitOne, Collect, Finish, Rename, vars

LEMMA LifecycleStep == LifecycleInv /\ [Next]_vars => LifecycleInv'
<1> SUFFICES ASSUME LifecycleInv, [Next]_vars PROVE LifecycleInv'
  OBVIOUS
<1>1. BatchMoves
  BY OnlyBatchMoves
<1>2. TypeInv' /\ RenderedInv' /\ BatchInv' /\ ManifestInv' /\ ResultsInv'
  BY <1>1, TypeStep, RenderedStep, BatchStep, ManifestStep, ResultsStep
<1>3. QED
  BY <1>2 DEF LifecycleInv

(* ------------------------------ collecting ---------------------------- *)
Cut(m, res) == [id \in DOMAIN res.successful \cap Ids(m.requests) |-> res.successful[id]]

\* What the contract has checked when it refuses nothing.
Kept(m, res, c, v) ==
  /\ m.fingerprint = Fingerprint(m, m.handle)
  /\ m.spec = v /\ m.content = c
  /\ res.handle = m.handle
  /\ ~HasDuplicates(m.requests)
  /\ DOMAIN res.successful \cap DOMAIN res.failed = {}
  /\ DOMAIN res.successful \cup DOMAIN res.failed = Ids(m.requests)
  /\ \A id \in DOMAIN res.successful : res.successful[id].id = id
  /\ \A id \in DOMAIN res.failed : res.failed[id].id = id

LEMMA ContractChecks ==
  ASSUME NEW m, NEW res, NEW c, NEW v
  PROVE  ContractRefusal(m, res, c, v) = "none" <=> Kept(m, res, c, v)
  BY DEF ContractRefusal, Kept

LEMMA CallsOfOrigin ==
  ASSUME NEW c \in Content, NEW v \in SpecVersion, NEW u \in Setup
  PROVE  LET plans == Work[<<c, u>>].plans
         IN /\ <<c, v, u>> \in Origin
            /\ DOMAIN plans \subseteq Nat
            /\ Requestable(<<c, v, u>>) =
                 UNION {Range(PlanRequests(c, v, plans[p])) : p \in DOMAIN plans}
            /\ \A p \in DOMAIN plans : DOMAIN PlanRequests(c, v, plans[p]) \subseteq Nat
<1> DEFINE x == <<c, v, u>>
           plans == Work[<<c, u>>].plans
<1>1. x \in Origin /\ x[1] = c /\ x[2] = v /\ x[3] = u
  BY DEF Origin
<1>2. Len(plans) \in Nat /\ DOMAIN plans = 1..Len(plans)
      /\ \A p \in 1..Len(plans) : DOMAIN plans[p].prompts = 1..Len(plans[p].prompts)
  BY <1>1, PlansOf
<1>3. CallsOf(x) = [p \in 1..Len(plans) |-> PlanRequests(c, v, plans[p])]
  BY <1>1 DEF CallsOf
<1>4. Len(CallsOf(x)) = Len(plans)
  BY <1>1, CallsAreSequences
<1>5. Requestable(x) = UNION {Range(PlanRequests(c, v, plans[p])) : p \in 1..Len(plans)}
  <2>1. \A p \in 1..Len(plans) : CallsOf(x)[p] = PlanRequests(c, v, plans[p])
    BY <1>3
  <2>2. QED
    BY <1>4, <2>1 DEF Requestable
<1>6. \A n \in Nat : 1..n \subseteq Nat
  OBVIOUS
<1>7. \A p \in 1..Len(plans) : DOMAIN PlanRequests(c, v, plans[p]) \subseteq Nat
  BY <1>1, <1>2, <1>6, PlansOf DEF PlanRequests
<1>8. QED
  BY <1>1, <1>2, <1>5, <1>6, <1>7

LEMMA CallsGoRight ==
  ASSUME NEW plan, NEW requests, NEW m, NEW res, DOMAIN requests \subseteq Nat
  PROVE  /\ PlanWrong(plan, requests, m, res) = "none" => Range(requests) \subseteq Range(m.requests)
         /\ (\A i \in DOMAIN requests : /\ requests[i] \in Range(m.requests)
                                        /\ res.successful[requests[i].id].says # "bad")
              => PlanWrong(plan, requests, m, res) \in {"none", "reducer_required"}
<1> DEFINE wrong == {i \in DOMAIN requests : CallWrong(requests[i], m, res) # "none"}
<1>1. wrong # {} => Min(wrong) \in wrong
  <2>1. wrong \in SUBSET Nat
    OBVIOUS
  <2> HIDE DEF wrong
  <2>2. QED
    BY <2>1, MinIsOne
<1>2. wrong # {} => /\ PlanWrong(plan, requests, m, res) = CallWrong(requests[Min(wrong)], m, res)
                    /\ PlanWrong(plan, requests, m, res) # "none"
  BY <1>1 DEF PlanWrong
<1>3. wrong = {} => PlanWrong(plan, requests, m, res) \in {"none", "reducer_required"}
  BY DEF PlanWrong
<1>4. \A i \in DOMAIN requests : i \notin wrong => requests[i] \in Range(m.requests)
  BY DEF CallWrong, RequestMatches
<1>5. \A i \in DOMAIN requests :
        (/\ requests[i] \in Range(m.requests)
         /\ res.successful[requests[i].id].says # "bad") => i \notin wrong
  BY DEF CallWrong, RequestMatches
<1>6. Range(requests) = {requests[i] : i \in DOMAIN requests} /\ wrong \subseteq DOMAIN requests
  BY DEF Range
<1> HIDE DEF wrong
<1>7. QED
  BY <1>2, <1>3, <1>4, <1>5, <1>6

LEMMA CollectsEverything ==
  ASSUME NEW c \in Content, NEW v \in SpecVersion, NEW u \in Setup, NEW m, NEW res
  PROVE  LET got == CollectCalls(c, v, u, m, res)
             asked == Requestable(<<c, v, u>>)
         IN /\ got.why = "none" =>
                 /\ asked \subseteq Range(m.requests)
                 /\ got.used = {[request |-> r, response |-> res.successful[r.id]] : r \in asked}
            /\ (\A r \in asked : r \in Range(m.requests) /\ res.successful[r.id].says # "bad")
                 => got.why \in {"none", "reducer_required"}
<1> DEFINE plans == Work[<<c, u>>].plans
           calls == [p \in DOMAIN plans |-> PlanRequests(c, v, plans[p])]
           how(p) == PlanWrong(plans[p], calls[p], m, res)
           wrong == {p \in DOMAIN plans : how(p) # "none"}
           got == CollectCalls(c, v, u, m, res)
           asked == UNION {Range(calls[p]) : p \in DOMAIN plans}
<1>1. /\ DOMAIN plans \subseteq Nat
      /\ Requestable(<<c, v, u>>) =
           UNION {Range(PlanRequests(c, v, plans[p])) : p \in DOMAIN plans}
      /\ \A p \in DOMAIN plans : DOMAIN PlanRequests(c, v, plans[p]) \subseteq Nat
  BY CallsOfOrigin
<1>2. asked = Requestable(<<c, v, u>>)
  BY <1>1
<1>3. wrong # {} => got = Refused(how(Min(wrong)))
  BY DEF CollectCalls
<1>4. wrong = {} =>
        /\ got.why = "none"
        /\ got.used = {[request |-> r, response |-> res.successful[r.id]] : r \in asked}
  BY DEF CollectCalls
<1>5. wrong # {} => Min(wrong) \in wrong /\ how(Min(wrong)) # "none"
  <2>1. wrong \subseteq DOMAIN plans
    OBVIOUS
  <2>2. DOMAIN plans \subseteq Nat
    BY <1>1
  <2>3. \A p \in wrong : how(p) # "none"
    OBVIOUS
  <2> HIDE DEF wrong, how
  <2>4. wrong # {} => Min(wrong) \in wrong
    BY <2>1, <2>2, MinIsOne
  <2>5. QED
    BY <2>3, <2>4
<1>6. ASSUME NEW p \in DOMAIN plans
      PROVE  /\ how(p) = "none" => Range(calls[p]) \subseteq Range(m.requests)
             /\ (\A r \in Range(calls[p]) : /\ r \in Range(m.requests)
                                            /\ res.successful[r.id].says # "bad")
                  => how(p) \in {"none", "reducer_required"}
  <2>1. calls[p] = PlanRequests(c, v, plans[p]) /\ DOMAIN calls[p] \subseteq Nat
    BY <1>1
  <2> HIDE DEF calls, plans
  <2>2. \A i \in DOMAIN calls[p] : calls[p][i] \in Range(calls[p])
    BY DEF Range
  <2>3. QED
    BY <2>1, <2>2, CallsGoRight
<1>7. wrong # {} => got.why = how(Min(wrong)) /\ got.why # "none"
  <2> HIDE DEF wrong, got, how
  <2>1. QED
    BY <1>3, <1>5 DEF Refused
<1>8. \A p \in DOMAIN plans : p \notin wrong => how(p) = "none"
  OBVIOUS
<1>9. wrong \subseteq DOMAIN plans
  OBVIOUS
<1> HIDE DEF wrong, got, calls, plans, how
<1>10. QED
  <2>1. got.why = "none" => wrong = {}
    BY <1>7
  <2>2. wrong = {} => asked \subseteq Range(m.requests)
    BY <1>6, <1>8
  <2>3. ASSUME \A r \in asked : r \in Range(m.requests) /\ res.successful[r.id].says # "bad",
               wrong # {}
        PROVE  how(Min(wrong)) \in {"none", "reducer_required"}
    <3>1. Min(wrong) \in DOMAIN plans
      BY <1>5, <1>9, <2>3
    <3>2. \A r \in Range(calls[Min(wrong)]) : r \in asked
      BY <3>1
    <3>3. QED
      BY <1>6, <2>3, <3>1, <3>2
  <2>4. QED
    BY <1>2, <1>4, <1>7, <2>1, <2>2, <2>3 DEF got

\* what is collected from: the results of b as they were polled, or m's part
Given(m, b, sliced) == IF sliced THEN Slice(m, results[b]) ELSE results[b]

PartOf(res, all, ids, sliced) ==
  /\ DOMAIN res.successful = DOMAIN all.successful \cap (IF sliced THEN ids ELSE DOMAIN all.successful)
  /\ DOMAIN res.failed = DOMAIN all.failed \cap (IF sliced THEN ids ELSE DOMAIN all.failed)
  /\ \A id \in DOMAIN res.successful : res.successful[id] = all.successful[id]
  /\ \A id \in DOMAIN res.failed : res.failed[id] = all.failed[id]

LEMMA GivenIs ==
  ASSUME LifecycleInv, NEW m, NEW b \in Batch, NEW sliced \in BOOLEAN,
         results[b] # Nothing, results[b].kind = "done"
  PROVE  /\ Given(m, b, sliced).handle = HandleOf(b, batch[b])
         /\ PartOf(Given(m, b, sliced), ParseFiles(batch[b].output, batch[b].error),
                   Ids(m.requests), sliced)
<1> DEFINE all == ParseFiles(batch[b].output, batch[b].error)
<1>1. PollAnswer(b).kind = "done" =>
        PollAnswer(b) = [kind |-> "done", handle |-> HandleOf(b, batch[b]),
                         successful |-> all.successful, failed |-> all.failed]
  BY DEF PollAnswer
<1>2. results[b] = [kind |-> "done", handle |-> HandleOf(b, batch[b]),
                    successful |-> all.successful, failed |-> all.failed]
  BY <1>1 DEF LifecycleInv, ResultsInv
<1> HIDE DEF all
<1>3. CASE ~sliced
  BY <1>2, <1>3 DEF Given, PartOf, all
<1>4. CASE sliced
  <2> DEFINE ids == Ids(m.requests)
             successful == OnlyIds(all.successful, ids)
             failed == OnlyIds(all.failed, ids)
  <2>1. PICK r : r = results[b]
    OBVIOUS
  <2>2. Given(m, b, sliced) = [r EXCEPT !.successful = OnlyIds(@, ids), !.failed = OnlyIds(@, ids)]
    BY <1>4, <2>1 DEF Given, Slice
  <2>3. /\ r = [kind |-> "done", handle |-> r.handle, successful |-> r.successful,
                failed |-> r.failed]
        /\ r.handle = HandleOf(b, batch[b])
        /\ r.successful = all.successful /\ r.failed = all.failed
    BY <1>2, <2>1
  <2>4. [r EXCEPT !.successful = OnlyIds(@, ids), !.failed = OnlyIds(@, ids)] =
          [kind |-> "done", handle |-> r.handle, successful |-> OnlyIds(r.successful, ids),
           failed |-> OnlyIds(r.failed, ids)]
    <3> HIDE DEF ids
    <3>1. PICK h, f, e : h = r.handle /\ f = r.successful /\ e = r.failed
      OBVIOUS
    <3>2. PICK fi, ei : fi = OnlyIds(f, ids) /\ ei = OnlyIds(e, ids)
      OBVIOUS
    <3>3. r = [kind |-> "done", handle |-> h, successful |-> f, failed |-> e]
      BY <2>3, <3>1
    <3>4. [r EXCEPT !.successful = OnlyIds(@, ids), !.failed = OnlyIds(@, ids)] =
            [r EXCEPT !.successful = fi, !.failed = ei]
      BY <3>1, <3>2
    <3>5. [r EXCEPT !.successful = fi, !.failed = ei] =
            [kind |-> "done", handle |-> h, successful |-> fi, failed |-> ei]
      <4>1. PICK q : q = [r EXCEPT !.successful = fi]
        OBVIOUS
      <4>2. q = [kind |-> "done", handle |-> h, successful |-> fi, failed |-> e]
        BY <3>3, <4>1
      <4>3. [q EXCEPT !.failed = ei] =
              [kind |-> "done", handle |-> h, successful |-> fi, failed |-> ei]
        BY <4>2
      <4>4. [r EXCEPT !.successful = fi, !.failed = ei] = [q EXCEPT !.failed = ei]
        BY <4>1
      <4>5. QED
        BY <4>3, <4>4
    <3>6. QED
      BY <3>1, <3>2, <3>4, <3>5
  <2> HIDE DEF ids
  <2>5. PICK g : g = Given(m, b, sliced)
    OBVIOUS
  <2>6. g = [kind |-> "done", handle |-> r.handle, successful |-> OnlyIds(r.successful, ids),
             failed |-> OnlyIds(r.failed, ids)]
    BY <2>2, <2>4, <2>5
  <2>7. /\ g.handle = HandleOf(b, batch[b])
        /\ g.successful = successful
        /\ g.failed = failed
    BY <2>3, <2>6
  <2>8. \A entries : /\ DOMAIN OnlyIds(entries, ids) = DOMAIN entries \cap ids
                     /\ \A id \in DOMAIN entries \cap ids : OnlyIds(entries, ids)[id] = entries[id]
    BY DEF OnlyIds
  <2>9. /\ DOMAIN g.successful = DOMAIN all.successful \cap ids
        /\ DOMAIN g.failed = DOMAIN all.failed \cap ids
        /\ \A id \in DOMAIN g.successful : g.successful[id] = all.successful[id]
        /\ \A id \in DOMAIN g.failed : g.failed[id] = all.failed[id]
    <3>1. /\ DOMAIN g.successful = DOMAIN all.successful \cap ids
          /\ \A id \in DOMAIN all.successful \cap ids : g.successful[id] = all.successful[id]
      BY <2>7, <2>8
    <3>2. /\ DOMAIN g.failed = DOMAIN all.failed \cap ids
          /\ \A id \in DOMAIN all.failed \cap ids : g.failed[id] = all.failed[id]
      BY <2>7, <2>8
    <3>3. QED
      BY <3>1, <3>2
  <2>10. QED
    BY <1>4, <2>5, <2>7, <2>9 DEF PartOf, all, ids
<1>5. QED
  BY <1>3, <1>4

LEMMA OutcomeIs ==
  ASSUME NEW k \in Key, NEW b \in Batch, NEW sliced \in BOOLEAN, Collect(k, b, sliced)
  PROVE  LET m == manifest[k]
             res == Given(m, b, sliced)
             got == CollectNow(k, m, res)
         IN /\ outcome'.key = k /\ outcome'.at = Snapshot(k) /\ outcome'.manifest = m
            /\ outcome'.batch = b /\ outcome'.sliced = sliced
            /\ \/ outcome'.why = got.why /\ outcome'.used = got.used
               \/ /\ sliced /\ outcome'.why # "none"
                  /\ outcome'.why = ContractRefusal(m, res, m.content, m.spec)
<1> DEFINE m == manifest[k]
           res == Given(m, b, sliced)
           got == IF sliced THEN SliceAndCollect(k, m, results[b])
                            ELSE CollectNow(k, m, results[b])
<1>1. outcome' = [key |-> k, why |-> got.why, at |-> Snapshot(k), manifest |-> m, batch |-> b,
                  sliced |-> sliced, used |-> got.used, decided |-> got.decided]
  BY DEF Collect
<1>2. ~sliced => got = CollectNow(k, m, res)
  BY DEF Given
<1>3. sliced =>
        \/ got = CollectNow(k, m, res)
        \/ /\ ContractRefusal(m, res, m.content, m.spec) # "none"
           /\ got.why = ContractRefusal(m, res, m.content, m.spec)
  BY DEF Given, SliceAndCollect, Refused
<1> HIDE DEF got
<1>4. QED
  BY <1>1, <1>2, <1>3

\* the lines of the batch that say something of this request, say it of no other
LEMMA OwnLines ==
  ASSUME LifecycleInv, NEW b \in Batch, batch[b] # Nothing,
         NEW r \in Range(batch[b].requests), NEW i \in 1..Len(Told(batch[b])),
         Told(batch[b])[i].id = r.id
  PROVE  Told(batch[b])[i].question = r
<1>1. /\ batch[b].requests \in Askable /\ batch[b].requests \in Seq(AllRequests)
      /\ EndedWell(b, batch[b]) /\ ~HasDuplicates(batch[b].requests)
  BY RequestsAreSequences DEF LifecycleInv, TypeInv, BatchInv
<1>2. /\ Told(batch[b])[i].question \in Range(batch[b].requests)
      /\ Told(batch[b])[i].id = Told(batch[b])[i].question.id
  BY <1>1, LinesAnswer
<1>3. \A p, q \in Range(batch[b].requests) : p.id = q.id => p = q
  BY <1>1 DEF Range, HasDuplicates
<1>4. QED
  BY <1>2, <1>3

LEMMA ReadFromBatch ==
  ASSUME LifecycleInv, NEW b \in Batch, batch[b] # Nothing
  PROVE  /\ Reads(Told(batch[b]), ParseFiles(batch[b].output, batch[b].error))
         /\ DOMAIN Told(batch[b]) = 1..Len(Told(batch[b]))
<1>1. /\ batch[b].requests \in Askable
      /\ EndedWell(b, batch[b])
  BY RequestsAreSequences DEF LifecycleInv, TypeInv, BatchInv
<1>2. PICK S : /\ batch[b].output \in Seq(S) /\ batch[b].error \in Seq(S)
               /\ Told(batch[b]) \in Seq(S)
  BY <1>1, LinesAnswer
<1>3. Reads(batch[b].output \o batch[b].error, ParseFiles(batch[b].output, batch[b].error))
  BY <1>2, ParseReads
<1>4. DOMAIN Told(batch[b]) = 1..Len(Told(batch[b]))
  BY <1>2
<1>5. QED
  BY <1>3, <1>4 DEF Told

(* ------------------------------ extraction ---------------------------- *)
LEMMA CollectNowIs ==
  ASSUME NEW k, NEW m, NEW res, CollectNow(k, m, res).why = "none"
  PROVE  /\ DOMAIN res.failed = {}
         /\ Kept(m, res, world.content[k], world.spec)
         /\ CollectNow(k, m, res) = CollectCalls(world.content[k], world.spec, world.setup, m, res)
<1> DEFINE c == world.content[k]
           v == world.spec
           got == CollectNow(k, m, res)
           calls == CollectCalls(c, v, world.setup, m, res)
           refusal == ContractRefusal(m, res, c, v)
<1>1. /\ DOMAIN res.failed # {} => got = Refused("partial_results_unsupported")
      /\ DOMAIN res.failed = {} /\ refusal # "none" => got = Refused(refusal)
      /\ DOMAIN res.failed = {} /\ refusal = "none" => got = calls
  <2> HIDE DEF refusal, calls
  <2>1. QED
    BY DEF CollectNow, refusal, calls
<1>2. \A why : Refused(why).why = why
  BY DEF Refused
<1> HIDE DEF got, calls
<1>3. DOMAIN res.failed = {}
  BY <1>1, <1>2 DEF got
<1>4. refusal = "none"
  BY <1>1, <1>2, <1>3 DEF got
<1>5. QED
  BY <1>1, <1>3, <1>4, ContractChecks DEF got, calls

LEMMA OwnBatch ==
  ASSUME LifecycleInv, NEW k \in Key, manifest[k] # Nothing, NEW b \in Batch,
         manifest[k].handle.batch = b
  PROVE  /\ batch[b] # Nothing
         /\ Holds(manifest[k], b, batch[b])
         /\ Range(manifest[k].requests) \subseteq Range(batch[b].requests)
<1>1. PICK o \in Batch : batch[o] # Nothing /\ Holds(manifest[k], o, batch[o])
  BY DEF LifecycleInv, ManifestInv
<1>2. o = b
  BY <1>1 DEF Holds, HandleOf
<1>3. \A S, s : s \in Seq(S) => Range(s) \subseteq S
  BY DEF Range
<1>4. QED
  BY <1>1, <1>2, <1>3 DEF Holds

\* an answer that was read to a request of the batch is that request's own
LEMMA OwnAnswer ==
  ASSUME LifecycleInv, NEW b \in Batch, batch[b] # Nothing,
         NEW r \in Range(batch[b].requests),
         r.id \in DOMAIN ParseFiles(batch[b].output, batch[b].error).successful
  PROVE  LET response == ParseFiles(batch[b].output, batch[b].error).successful[r.id]
         IN /\ response.id = r.id
            /\ response.question = r
            /\ <<r, response.says>> \in Replies(batch[b])
<1> DEFINE read == ParseFiles(batch[b].output, batch[b].error)
           lines == Told(batch[b])
           response == read.successful[r.id]
<1>1. Reads(lines, read) /\ DOMAIN lines = 1..Len(lines)
  BY ReadFromBatch
<1> HIDE DEF read
<1>2. PICK i \in 1..Len(lines) : /\ lines[i].kind = "answer" /\ lines[i].id = r.id
                                 /\ response = ResponseOf(lines[i])
  BY <1>1 DEF Reads, read
<1>3. lines[i].question = r
  BY <1>2, OwnLines
<1>4. response.id = r.id /\ response.question = r /\ response.says = lines[i].says
  BY <1>2, <1>3 DEF ResponseOf
<1>5. <<r, lines[i].says>> \in Replies(batch[b])
  <2>1. lines[i] \in Range(batch[b].output \o batch[b].error)
    BY <1>1 DEF Told, Range
  <2>2. QED
    BY <1>2, <1>3, <2>1 DEF Replies
<1>6. QED
  BY <1>4, <1>5 DEF read

LEMMA RangesAreIds ==
  ASSUME NEW S, NEW s \in Seq(S)
  PROVE  /\ Ids(s) = {r.id : r \in Range(s)}
         /\ ~HasDuplicates(s) => \A p, q \in Range(s) : p.id = q.id => p = q
  BY DEF Ids, Range, HasDuplicates

\* used is one answer out of replies for each request of asked
RestsOn(used, asked, replies) ==
  /\ {u.request : u \in used} = asked
  /\ \A u \in used : u.response.question = u.request /\ <<u.request, u.response.says>> \in replies
  /\ \A t, u \in used : t.request = u.request => t = u

\* what a successful collect rests on
LEMMA CollectedRests ==
  ASSUME LifecycleInv, NEW k \in Key, NEW b \in Batch, NEW sliced \in BOOLEAN,
         Collect(k, b, sliced), outcome'.why = "none"
  PROVE  /\ manifest[k].handle.batch = b
         /\ RestsOn(outcome'.used,
                    Range(RequestsOf[<<world.content[k], world.spec, world.setup>>]),
                    Replies(batch[b]))
<1> DEFINE m == manifest[k]
           res == Given(m, b, sliced)
           c == world.content[k]
           x == <<c, world.spec, world.setup>>
           read == ParseFiles(batch[b].output, batch[b].error)
<1>1. /\ m # Nothing /\ results[b] # Nothing /\ results[b].kind = "done"
      /\ batch[b] # Nothing
  BY DEF Collect, LifecycleInv, ResultsInv
<1>2. /\ CollectNow(k, m, res).why = "none"
      /\ outcome'.used = CollectNow(k, m, res).used
  BY OutcomeIs
<1>3. /\ DOMAIN res.failed = {}
      /\ Kept(m, res, c, world.spec)
      /\ CollectNow(k, m, res) = CollectCalls(c, world.spec, world.setup, m, res)
  BY <1>2, CollectNowIs
<1>4. /\ c \in Content /\ world.spec \in SpecVersion /\ world.setup \in Setup /\ x \in Origin
  BY DEF LifecycleInv, TypeInv, Origin
<1>5. /\ Requestable(x) \subseteq Range(m.requests)
      /\ outcome'.used = {[request |-> r, response |-> res.successful[r.id]] : r \in Requestable(x)}
  BY <1>2, <1>3, <1>4, CollectsEverything
<1>6. m.handle.batch = b
  <2>1. res.handle = HandleOf(b, batch[b])
    BY <1>1, GivenIs
  <2>2. QED
    BY <1>3, <2>1 DEF Kept, HandleOf
<1>7. /\ Range(m.requests) \subseteq Range(batch[b].requests)
      /\ Ids(m.requests) = {r.id : r \in Range(m.requests)}
  BY <1>1, <1>6, OwnBatch, RangesAreIds DEF Holds
<1>8. ASSUME NEW r \in Requestable(x)
      PROVE  /\ res.successful[r.id].question = r
             /\ <<r, res.successful[r.id].says>> \in Replies(batch[b])
  <2>1. r.id \in DOMAIN res.successful
    BY <1>3, <1>5, <1>7, <1>8 DEF Kept
  <2>2. /\ r.id \in DOMAIN read.successful
        /\ res.successful[r.id] = read.successful[r.id]
    <3>1. PartOf(res, read, Ids(m.requests), sliced)
      BY <1>1, GivenIs
    <3> HIDE DEF res, read
    <3>2. QED
      BY <2>1, <3>1 DEF PartOf
  <2>3. QED
    <3>1. r \in Range(batch[b].requests)
      BY <1>5, <1>7, <1>8
    <3>2. /\ read.successful[r.id].question = r
          /\ <<r, read.successful[r.id].says>> \in Replies(batch[b])
      BY <1>1, <2>2, <3>1, OwnAnswer
    <3> HIDE DEF res, read
    <3>3. QED
      BY <2>2, <3>2
<1>9. Requestable(x) = Range(RequestsOf[x])
  BY <1>4, RequestsAreApart
<1> HIDE DEF res, x, read
<1>10. {u.request : u \in outcome'.used} = Requestable(x)
  <2>1. PICK asked : asked = Requestable(x)
    OBVIOUS
  <2>2. PICK used : used = outcome'.used
    OBVIOUS
  <2>3. PICK says : says = [r \in asked |-> res.successful[r.id]]
    OBVIOUS
  <2>4. used = {[request |-> r, response |-> says[r]] : r \in asked}
    BY <1>5, <2>1, <2>2, <2>3
  <2>5. /\ \A u \in used : u.request \in asked
        /\ \A r \in asked : [request |-> r, response |-> says[r]] \in used
    BY <2>4
  <2>6. {u.request : u \in used} = asked
    <3>1. \A r \in asked : [request |-> r, response |-> says[r]].request = r
      OBVIOUS
    <3>2. QED
      BY <2>5, <3>1
  <2>7. QED
    BY <2>1, <2>2, <2>6
<1>11. \A u \in outcome'.used : /\ u.response.question = u.request
                               /\ <<u.request, u.response.says>> \in Replies(batch[b])
  BY <1>5, <1>8
<1>12. \A t, u \in outcome'.used : t.request = u.request => t = u
  BY <1>5
<1>13. QED
  BY <1>6, <1>9, <1>10, <1>11, <1>12 DEF x, RestsOn

\* only a collect leaves an outcome
LEMMA OutcomeStep ==
  ASSUME [Next]_vars, outcome' # Nothing, ~UNCHANGED vars
  PROVE  \E k \in Key, b \in Batch, sliced \in BOOLEAN : Collect(k, b, sliced)
  BY DEF Next, World, Consumer, Provider, vars, Edit, Respecify, Upgrade, Render, Damage, Poll,
         Cancel, SubmitAggregate, SubmitLost, SubmitOne, Finish, Rename

LEMMA LifecycleHolds == Spec => []LifecycleInv
  BY InitLifecycle, LifecycleStep, PTL DEF Spec

(***************************************************************************)
(* No batch asks the same request id twice, across the documents of an     *)
(* aggregate as within one (submit_deferred_aggregate; the ids of one      *)
(* document differ by prompt or by routing).                               *)
(***************************************************************************)
THEOREM BatchesAskOnce == Spec => []DuplicatesNeverSubmitted
<1>1. LifecycleInv => DuplicatesNeverSubmitted
  BY DEF LifecycleInv, BatchInv, DuplicatesNeverSubmitted
<1>2. QED
  BY <1>1, LifecycleHolds, PTL

(***************************************************************************)
(* Whatever changed between rendering and collecting, what is extracted    *)
(* rests on the calls that are rendered now and on answers given to them   *)
(* (_collect_deferred_batch_response).                                     *)
(***************************************************************************)
THEOREM AnswersFitQuestions == Spec => []AnswersMatchQuestions
<1>1. Init => AnswersMatchQuestions
  BY DEF Init, AnswersMatchQuestions, Extracted
<1>2. LifecycleInv /\ AnswersMatchQuestions /\ [Next]_vars => AnswersMatchQuestions'
  <2> SUFFICES ASSUME LifecycleInv, AnswersMatchQuestions, [Next]_vars, Extracted'
               PROVE  AnswersMatchQuestions'
    BY DEF AnswersMatchQuestions
  <2>1. CASE UNCHANGED vars
    BY <2>1 DEF AnswersMatchQuestions, Extracted, vars
  <2>2. ASSUME NEW k \in Key, NEW b \in Batch, NEW sliced \in BOOLEAN, Collect(k, b, sliced)
        PROVE  AnswersMatchQuestions'
    <3>1. outcome'.at = Snapshot(k)
      BY <2>2, OutcomeIs
    <3>2. outcome'.why = "none"
      BY DEF Extracted
    <3>3. RestsOn(outcome'.used,
                  Range(RequestsOf[<<world.content[k], world.spec, world.setup>>]),
                  Replies(batch[b]))
      BY <2>2, <3>2, CollectedRests
    <3>4. /\ outcome'.at.content = world.content[k]
          /\ outcome'.at.spec = world.spec
          /\ outcome'.at.setup = world.setup
      BY <3>1 DEF Snapshot
    <3>5. PICK used : used = outcome'.used
      OBVIOUS
    <3>6. PICK asked : asked = Range(RequestsOf[<<world.content[k], world.spec, world.setup>>])
      OBVIOUS
    <3>7. {u.request : u \in used} = asked /\ \A u \in used : u.response.question = u.request
      BY <3>3, <3>5, <3>6 DEF RestsOn
    <3>8. asked = Range(RequestsOf[<<outcome'.at.content, outcome'.at.spec, outcome'.at.setup>>])
      BY <3>4, <3>6
    <3>9. QED
      BY <3>5, <3>7, <3>8 DEF AnswersMatchQuestions
  <2>3. QED
    BY <2>1, <2>2, OutcomeStep DEF Extracted
<1>3. QED
  BY <1>1, <1>2, LifecycleHolds, PTL DEF Spec

(* ------------------------------- refusal ------------------------------ *)
LEMMA AnsweredIsRead ==
  ASSUME LifecycleInv, NEW b \in Batch, batch[b] # Nothing,
         NEW r \in Range(batch[b].requests), Answered(b, r)
  PROVE  LET read == ParseFiles(batch[b].output, batch[b].error)
         IN /\ r.id \in DOMAIN read.successful
            /\ r.id \notin DOMAIN read.failed
            /\ read.successful[r.id].id = r.id
            /\ read.successful[r.id].says # "bad"
<1> DEFINE read == ParseFiles(batch[b].output, batch[b].error)
           lines == Told(batch[b])
<1>1. Reads(lines, read) /\ DOMAIN lines = 1..Len(lines)
  BY ReadFromBatch
<1>2. /\ Lines(b, r.id) = {i \in DOMAIN lines : lines[i].id = r.id}
      /\ Lines(b, r.id) # {}
      /\ \A i \in Lines(b, r.id) : lines[i].kind = "answer" /\ lines[i].says # "bad"
  BY DEF Answered, Lines, Told
<1> HIDE DEF read, lines
<1>3. r.id \in DOMAIN read.successful
  <2>1. PICK i \in 1..Len(lines) : lines[i].id = r.id /\ lines[i].kind = "answer"
    BY <1>1, <1>2
  <2>2. QED
    BY <1>1, <2>1 DEF Reads
<1>4. r.id \notin DOMAIN read.failed
  BY <1>1, <1>2 DEF Reads
<1>5. PICK i \in 1..Len(lines) : /\ lines[i].id = r.id
                                 /\ read.successful[r.id] = ResponseOf(lines[i])
  BY <1>1, <1>3 DEF Reads
<1>6. lines[i].says # "bad"
  BY <1>1, <1>2, <1>5
<1>7. read.successful[r.id].id = r.id /\ read.successful[r.id].says # "bad"
  BY <1>5, <1>6 DEF ResponseOf
<1>8. QED
  BY <1>3, <1>4, <1>7 DEF read

LEMMA ReadWasAsked ==
  ASSUME LifecycleInv, NEW b \in Batch, batch[b] # Nothing, NEW id,
         \/ id \in DOMAIN ParseFiles(batch[b].output, batch[b].error).successful
         \/ id \in DOMAIN ParseFiles(batch[b].output, batch[b].error).failed
  PROVE  \E r \in Range(batch[b].requests) : r.id = id
<1>1. batch[b].requests \in Askable /\ EndedWell(b, batch[b])
  BY RequestsAreSequences DEF LifecycleInv, TypeInv, BatchInv
<1>2. \A i \in 1..Len(Told(batch[b])) :
        /\ Told(batch[b])[i].question \in Range(batch[b].requests)
        /\ Told(batch[b])[i].id = Told(batch[b])[i].question.id
  BY <1>1, LinesAnswer
<1>3. \E i \in 1..Len(Told(batch[b])) : Told(batch[b])[i].id = id
  <2>1. PICK read : read = ParseFiles(batch[b].output, batch[b].error)
    OBVIOUS
  <2>2. PICK lines : lines = Told(batch[b])
    OBVIOUS
  <2>3. Reads(lines, read)
    BY <2>1, <2>2, ReadFromBatch
  <2>4. id \in DOMAIN read.successful \/ id \in DOMAIN read.failed
    BY <2>1
  <2>5. QED
    BY <2>2, <2>3, <2>4 DEF Reads
<1>4. QED
  BY <1>2, <1>3

LEMMA AnsweredIsKept ==
  ASSUME LifecycleInv, NEW k \in Key, NEW b \in Batch, NEW sliced \in BOOLEAN,
         manifest[k] # Nothing, results[b] # Nothing, results[b].kind = "done",
         manifest[k].content = world.content[k], manifest[k].spec = world.spec,
         manifest[k].fingerprint = Fingerprint(manifest[k], manifest[k].handle),
         manifest[k].handle.batch = b,
         sliced \/ Range(manifest[k].requests) = Range(batch[b].requests),
         \A r \in Range(manifest[k].requests) : Answered(b, r)
  PROVE  LET m == manifest[k]
             res == Given(m, b, sliced)
         IN /\ Kept(m, res, world.content[k], world.spec)
            /\ DOMAIN res.failed = {}
            /\ \A r \in Range(m.requests) : res.successful[r.id].says # "bad"
<1> DEFINE m == manifest[k]
           res == Given(m, b, sliced)
           read == ParseFiles(batch[b].output, batch[b].error)
           own == Range(m.requests)
<1>1. /\ batch[b] # Nothing /\ Holds(m, b, batch[b]) /\ own \subseteq Range(batch[b].requests)
  BY OwnBatch
<1>2. /\ res.handle = HandleOf(b, batch[b])
      /\ PartOf(res, read, Ids(m.requests), sliced)
  BY GivenIs
<1>3. m.handle = HandleOf(b, batch[b]) /\ ~HasDuplicates(m.requests)
  BY <1>1 DEF Holds
<1>4. Ids(m.requests) = {r.id : r \in own}
  BY <1>1, RangesAreIds DEF Holds
<1>5. \A r \in own : /\ r.id \in DOMAIN read.successful
                     /\ r.id \notin DOMAIN read.failed
                     /\ read.successful[r.id].id = r.id
                     /\ read.successful[r.id].says # "bad"
  BY <1>1, AnsweredIsRead
<1>6. ASSUME ~sliced, NEW id, id \in DOMAIN read.successful \/ id \in DOMAIN read.failed
      PROVE  \E r \in own : r.id = id
  BY <1>1, <1>6, ReadWasAsked
<1> HIDE DEF res, read, own
<1>7. DOMAIN res.failed = {}
  <2> SUFFICES ASSUME NEW id \in DOMAIN res.failed PROVE FALSE
    OBVIOUS
  <2>1. id \in DOMAIN read.failed /\ (sliced => id \in Ids(m.requests))
    BY <1>2 DEF PartOf
  <2>2. PICK r \in own : r.id = id
    BY <1>4, <1>6, <2>1
  <2>3. QED
    BY <1>5, <2>1, <2>2
<1>8. DOMAIN res.successful = Ids(m.requests)
  <2>1. ASSUME NEW id \in DOMAIN res.successful PROVE id \in Ids(m.requests)
    <3>1. id \in DOMAIN read.successful /\ (sliced => id \in Ids(m.requests))
      BY <1>2 DEF PartOf
    <3>2. QED
      BY <1>4, <1>6, <3>1
  <2>2. ASSUME NEW r \in own PROVE r.id \in DOMAIN res.successful
    BY <1>2, <1>4, <1>5 DEF PartOf
  <2>3. QED
    BY <1>4, <2>1, <2>2
<1>9. \A r \in own : res.successful[r.id] = read.successful[r.id]
  BY <1>2, <1>4, <1>8 DEF PartOf
<1>10. \A id \in DOMAIN res.successful : res.successful[id].id = id
  BY <1>4, <1>5, <1>8, <1>9
<1>11. Kept(m, res, world.content[k], world.spec)
  BY <1>2, <1>3, <1>7, <1>8, <1>10 DEF Kept
<1>12. QED
  BY <1>5, <1>7, <1>9, <1>11 DEF res, own

(***************************************************************************)
(* A collect that is refused has a cause of its own document's to be:      *)
(* without one the contract is kept, and every call is answered            *)
(* (deferred_results_for_document, validate_deferred_collect_contract).    *)
(***************************************************************************)
LEMMA RefusedCollect ==
  ASSUME LifecycleInv, NEW k \in Key, NEW b \in Batch, NEW sliced \in BOOLEAN,
         Collect(k, b, sliced), outcome'.why # "none"
  PROVE  OwnCause'
<1> DEFINE m == manifest[k]
           res == Given(m, b, sliced)
           c == world.content[k]
           x == <<c, world.spec, world.setup>>
           cause ==
             \/ m.content # c \/ m.spec # world.spec
             \/ ~(Range(RequestsOf[x]) \subseteq Range(m.requests))
             \/ m.fingerprint # Fingerprint(m, m.handle)
             \/ m.handle.batch # b
             \/ ~sliced /\ Range(m.requests) # Range(batch[b].requests)
             \/ \E r \in Range(m.requests) : ~Answered(b, r)
             \/ outcome'.why = "reducer_required"
<1>1. /\ m # Nothing /\ results[b] # Nothing /\ results[b].kind = "done"
      /\ batch' = batch
  BY DEF Collect
<1>2. /\ outcome'.at = Snapshot(k) /\ outcome'.manifest = m
      /\ outcome'.batch = b /\ outcome'.sliced = sliced
      /\ \/ outcome'.why = CollectNow(k, m, res).why
         \/ outcome'.why = ContractRefusal(m, res, m.content, m.spec)
  BY OutcomeIs
<1>3. /\ c \in Content /\ world.spec \in SpecVersion /\ world.setup \in Setup /\ x \in Origin
  BY DEF LifecycleInv, TypeInv, Origin
<1>4. cause
  <2> SUFFICES ASSUME ~cause PROVE FALSE
    OBVIOUS
  <2>1. /\ Kept(m, res, c, world.spec)
        /\ DOMAIN res.failed = {}
        /\ \A r \in Range(m.requests) : res.successful[r.id].says # "bad"
    BY <1>1, AnsweredIsKept
  <2>2. /\ m.content = c /\ m.spec = world.spec
        /\ Range(RequestsOf[x]) \subseteq Range(m.requests)
        /\ outcome'.why # "reducer_required"
    OBVIOUS
  <2>3. Range(RequestsOf[x]) = Requestable(x)
    BY <1>3, RequestsAreApart
  <2> HIDE DEF m, res, c, x, cause
  <2>4. /\ ContractRefusal(m, res, c, world.spec) = "none"
        /\ ContractRefusal(m, res, m.content, m.spec) = "none"
    BY <2>1, <2>2, ContractChecks
  <2>5. CollectNow(k, m, res) = CollectCalls(c, world.spec, world.setup, m, res)
    BY <2>1, <2>4 DEF CollectNow, c
  <2>6. CollectCalls(c, world.spec, world.setup, m, res).why \in {"none", "reducer_required"}
    BY <1>3, <2>1, <2>2, <2>3, CollectsEverything DEF x
  <2>7. QED
    BY <1>2, <2>2, <2>4, <2>5, <2>6
<1>5. \A r : Answered(b, r)' <=> Answered(b, r)
  BY <1>1 DEF Answered, Lines
<1>6. PICK o : o = outcome'
  OBVIOUS
<1>7. /\ o.at.content = c /\ o.at.spec = world.spec /\ o.at.setup = world.setup
      /\ o.manifest = m /\ o.batch = b /\ o.sliced = sliced
  BY <1>2, <1>6 DEF Snapshot
<1>8. \/ m.content # o.at.content \/ m.spec # o.at.spec
      \/ ~(Range(RequestsOf[<<o.at.content, o.at.spec, o.at.setup>>]) \subseteq Range(m.requests))
      \/ m.fingerprint # Fingerprint(m, m.handle)
      \/ m.handle.batch # o.batch
      \/ ~o.sliced /\ Range(m.requests) # Range(batch'[o.batch].requests)
      \/ \E r \in Range(m.requests) : ~Answered(o.batch, r)'
      \/ o.why = "reducer_required"
  BY <1>1, <1>4, <1>5, <1>6, <1>7
<1>9. QED
  BY <1>6, <1>7, <1>8 DEF OwnCause

(***************************************************************************)
(* What the provider did to the other documents of an aggregate is never   *)
(* why a document is refused.                                              *)
(***************************************************************************)
THEOREM RefusalsHaveOwnCause == Spec => []RefusedForOwnCause
<1>1. Init => RefusedForOwnCause
  BY DEF Init, RefusedForOwnCause
<1>2. LifecycleInv /\ RefusedForOwnCause /\ [Next]_vars => RefusedForOwnCause'
  <2> SUFFICES ASSUME LifecycleInv, RefusedForOwnCause, [Next]_vars,
                      outcome' # Nothing, outcome'.why # "none"
               PROVE  OwnCause'
    BY DEF RefusedForOwnCause, Extracted
  <2>1. CASE UNCHANGED vars
    <3>1. OwnCause
      BY <2>1 DEF RefusedForOwnCause, Extracted, vars
    <3>2. outcome' = outcome /\ batch' = batch
      BY <2>1 DEF vars
    <3>3. \A x, r : Answered(x, r)' <=> Answered(x, r)
      BY <3>2 DEF Answered, Lines
    <3>4. QED
      BY <3>1, <3>2, <3>3, Zenon DEF OwnCause
  <2>2. ASSUME NEW k \in Key, NEW b \in Batch, NEW sliced \in BOOLEAN, Collect(k, b, sliced)
        PROVE  OwnCause'
    BY <2>2, RefusedCollect
  <2>3. QED
    BY <2>1, <2>2, OutcomeStep
<1>3. QED
  BY <1>1, <1>2, LifecycleHolds, PTL DEF Spec

(* ------------------------------- promise ------------------------------ *)
AskedOf(x) == IF x = Nothing THEN {} ELSE Range(x.requests)
AskedIn == [b \in Batch |-> IF batch[b] = Nothing THEN {} ELSE Range(batch[b].requests)]
RepliesIn == [b \in Batch |-> Replies(batch[b])]
HandedOver ==
  [k \in Key |->
    IF Extracted /\ outcome.key = k
    THEN [batch |-> outcome.manifest.handle.batch,
          answers |-> {<<u.request, u.response.says>> : u \in outcome.used}]
    ELSE Nothing]

LEMMA RepliesToAsked ==
  ASSUME NEW b \in Batch, NEW x \in Batches, EndedWell(b, x)
  PROVE  /\ \A a \in Replies(x) : a[1] \in AskedOf(x)
         /\ x.status # "completed" => Replies(x) = {}
<1>1. x.requests \in Askable /\ x # Nothing
  BY RequestsAreSequences, BatchesAreSomething
<1>2. PICK S : /\ Told(x) \in Seq(S)
               /\ \A i \in 1..Len(Told(x)) : Told(x)[i].question \in Range(x.requests)
  BY <1>1, LinesAnswer
<1>3. \A line \in Range(Told(x)) : line.question \in Range(x.requests)
  BY <1>2 DEF Range
<1>4. \A a \in Replies(x) : a[1] \in AskedOf(x)
  BY <1>1, <1>3 DEF Replies, AskedOf, Told
<1>5. x.status # "completed" => Replies(x) = {}
  <2> SUFFICES ASSUME x.status # "completed" PROVE Replies(x) = {}
    OBVIOUS
  <2>1. x.output = <<>> /\ x.error = <<>>
    BY DEF EndedWell
  <2>2. <<>> \o <<>> = <<>> /\ Range(<<>>) = {}
    BY DEF Range
  <2>3. QED
    BY <2>1, <2>2 DEF Replies
<1>6. QED
  BY <1>4, <1>5

\* A batch is asked once and answered once.
LEMMA BatchPromises ==
  ASSUME LifecycleInv, BatchMoves, NEW b \in Batch
  PROVE  LET old == batch[b]
             new == batch'[b]
         IN \/ AskedOf(new) = AskedOf(old) /\ Replies(new) = Replies(old)
            \/ AskedOf(old) = {} /\ AskedOf(new) # {} /\ Replies(new) = Replies(old)
            \/ /\ AskedOf(new) = AskedOf(old) /\ Replies(old) = {}
               /\ \A a \in Replies(new) : a[1] \in AskedOf(old)
<1>1. CASE batch[b] = Nothing
  <2>1. CASE batch'[b] = batch[b]
    BY <2>1
  <2>2. ASSUME NEW r \in Askable, Submitted(b, r)
        PROVE  /\ AskedOf(batch[b]) = {} /\ AskedOf(batch'[b]) # {}
               /\ Replies(batch'[b]) = Replies(batch[b])
    <3>1. batch'[b] \in Batches /\ batch'[b].requests = r /\ batch'[b] = NewBatch(r)
      BY <2>2, NewBatches DEF Submitted
    <3>2. r \in Seq(AllRequests) /\ r # <<>>
      BY AskableAreSequences
    <3>3. Range(r) # {}
      <4>1. Len(r) # 0 /\ Len(r) \in Nat /\ DOMAIN r = 1..Len(r)
        BY <3>2
      <4>2. 1 \in DOMAIN r
        BY <4>1
      <4>3. QED
        BY <4>2 DEF Range
    <3>4. batch'[b].output = <<>> /\ batch'[b].error = <<>> /\ batch'[b].status # "completed"
      BY <3>1 DEF NewBatch
    <3>5. Replies(batch'[b]) = {}
      BY <3>1, <3>4, RepliesToAsked DEF EndedWell
    <3>6. QED
      BY <1>1, <3>1, <3>3, <3>5, BatchesAreSomething DEF AskedOf, Replies
  <2>3. QED
    BY <1>1, <2>1, <2>2 DEF BatchMoves, BatchMove, Going
<1>2. CASE batch[b] # Nothing
  <2>1. /\ batch[b] \in Batches /\ batch'[b] \in Batches
        /\ batch'[b].requests = batch[b].requests
        /\ batch[b].status = "completed" => batch'[b] = batch[b]
        /\ EndedWell(b, batch[b]) /\ EndedWell(b, batch'[b])
    BY <1>2, BatchesKeep DEF LifecycleInv, TypeInv, BatchInv
  <2>2. AskedOf(batch'[b]) = AskedOf(batch[b])
    BY <2>1, BatchesAreSomething DEF AskedOf
  <2>3. /\ batch[b].status # "completed" => Replies(batch[b]) = {}
        /\ \A a \in Replies(batch'[b]) : a[1] \in AskedOf(batch'[b])
    BY <2>1, RepliesToAsked
  <2>4. QED
    BY <2>1, <2>2, <2>3
<1>3. QED
  BY <1>1, <1>2

\* A batch changes alone, and nothing is collected meanwhile.
LEMMA OneBatchChanges ==
  ASSUME LifecycleInv, [Next]_vars, batch' # batch
  PROVE  /\ outcome' = Nothing
         /\ \E b \in Batch : \A other \in Batch \ {b} : batch'[other] = batch[other]
<1>1. batch = [b \in Batch |-> batch[b]]
  BY DEF LifecycleInv, TypeInv
<1>2. ASSUME NEW b \in Batch, NEW x, batch' = [batch EXCEPT ![b] = x]
      PROVE  \A other \in Batch \ {b} : batch'[other] = batch[other]
  BY <1>1, <1>2
<1>3. \/ \E b \in Batch : Finish(b) \/ Rename(b) \/ Cancel(b)
      \/ \E b \in Batch, keys \in SUBSET Key : SubmitAggregate(b, keys) \/ SubmitLost(b, keys)
      \/ \E b \in Batch, k \in Key : SubmitOne(b, k)
  BY DEF Next, World, Consumer, Provider, Edit, Respecify, Upgrade, Render, Damage, Poll,
         Collect, vars
<1>4. ASSUME NEW b \in Batch, Finish(b) \/ Rename(b) \/ Cancel(b)
      PROVE  outcome' = Nothing /\ \E x : batch' = [batch EXCEPT ![b] = x]
  BY <1>4 DEF Finish, Rename, Cancel
<1>5. ASSUME NEW b \in Batch, NEW keys \in SUBSET Key,
             SubmitAggregate(b, keys) \/ SubmitLost(b, keys)
      PROVE  outcome' = Nothing /\ \E x : batch' = [batch EXCEPT ![b] = x]
  BY <1>5 DEF SubmitAggregate, SubmitLost, Start
<1>6. ASSUME NEW b \in Batch, NEW k \in Key, SubmitOne(b, k)
      PROVE  outcome' = Nothing /\ \E x : batch' = [batch EXCEPT ![b] = x]
  BY <1>6 DEF SubmitOne, Start
<1>7. QED
  BY <1>2, <1>3, <1>4, <1>5, <1>6

LEMMA PromiseInit == Init => Promise!Init
<1> SUFFICES ASSUME Init PROVE Promise!Init
  OBVIOUS
<1>1. \A b \in Batch : batch[b] = Nothing /\ Replies(batch[b]) = {}
  BY DEF Init, Replies
<1>2. ~Extracted
  BY DEF Init, Extracted
<1>3. QED
  BY <1>1, <1>2 DEF Promise!Init

\* what a step has to do to the three functions the promise is about
LEMMA PromiseKept ==
  ASSUME \/ UNCHANGED <<AskedIn, RepliesIn, HandedOver>>
         \/ \E b \in Batch :
              /\ AskedIn[b] = {} /\ AskedIn'[b] # {}
              /\ AskedIn' = [AskedIn EXCEPT ![b] = AskedIn'[b]]
              /\ HandedOver' = [k \in Key |-> Nothing] /\ RepliesIn' = RepliesIn
         \/ \E b \in Batch :
              /\ RepliesIn[b] = {}
              /\ {a[1] : a \in RepliesIn'[b]} \subseteq AskedIn[b]
              /\ RepliesIn' = [RepliesIn EXCEPT ![b] = RepliesIn'[b]]
              /\ HandedOver' = [k \in Key |-> Nothing] /\ AskedIn' = AskedIn
         \/ \E k \in Key :
              /\ \/ HandedOver'[k] = Nothing
                 \/ /\ HandedOver'[k].answers \subseteq RepliesIn[HandedOver'[k].batch]
                    /\ \A x, y \in HandedOver'[k].answers : x[1] = y[1] => x = y
              /\ \A other \in Key \ {k} : HandedOver'[other] = Nothing
              /\ UNCHANGED <<AskedIn, RepliesIn>>
  PROVE  [Promise!Next]_(Promise!vars)
<1>1. CASE UNCHANGED <<AskedIn, RepliesIn, HandedOver>>
  BY <1>1 DEF AskedIn, RepliesIn, HandedOver, Promise!vars
<1>2. ASSUME NEW b \in Batch, AskedIn[b] = {}, AskedIn'[b] # {},
             AskedIn' = [AskedIn EXCEPT ![b] = AskedIn'[b]],
             HandedOver' = [k \in Key |-> Nothing], RepliesIn' = RepliesIn
      PROVE  Promise!Ask(b)
  BY <1>2, Zenon DEF AskedIn, RepliesIn, HandedOver, Promise!Ask
<1>3. ASSUME NEW b \in Batch, RepliesIn[b] = {},
             {a[1] : a \in RepliesIn'[b]} \subseteq AskedIn[b],
             RepliesIn' = [RepliesIn EXCEPT ![b] = RepliesIn'[b]],
             HandedOver' = [k \in Key |-> Nothing], AskedIn' = AskedIn
      PROVE  Promise!Answer(b)
  BY <1>3, Zenon DEF AskedIn, RepliesIn, HandedOver, Promise!Answer, Promise!Questions
<1>4. ASSUME NEW k \in Key,
             \/ HandedOver'[k] = Nothing
             \/ /\ HandedOver'[k].answers \subseteq RepliesIn[HandedOver'[k].batch]
                /\ \A x, y \in HandedOver'[k].answers : x[1] = y[1] => x = y,
             \A other \in Key \ {k} : HandedOver'[other] = Nothing,
             UNCHANGED <<AskedIn, RepliesIn>>
      PROVE  Promise!Deliver(k)
  BY <1>4, Zenon DEF AskedIn, RepliesIn, HandedOver, Promise!Deliver, Promise!Rests
<1>5. QED
  BY <1>1, <1>2, <1>3, <1>4 DEF Promise!Next

\* what is handed over when k is collected from b
LEMMA HandOver ==
  ASSUME LifecycleInv, NEW k \in Key, NEW b \in Batch, NEW sliced \in BOOLEAN,
         Collect(k, b, sliced)
  PROVE  /\ \/ HandedOver'[k] = Nothing
            \/ /\ HandedOver'[k].answers \subseteq RepliesIn[HandedOver'[k].batch]
               /\ \A x, y \in HandedOver'[k].answers : x[1] = y[1] => x = y
         /\ \A other \in Key \ {k} : HandedOver'[other] = Nothing
<1>1. outcome'.key = k /\ outcome'.manifest = manifest[k]
  BY OutcomeIs
<1>2. \A other \in Key \ {k} : HandedOver'[other] = Nothing
  BY <1>1 DEF HandedOver
<1>3. CASE ~Extracted'
  BY <1>2, <1>3 DEF HandedOver
<1>4. CASE Extracted'
  <2>1. PICK used : used = outcome'.used
    OBVIOUS
  <2>2. PICK asked : RestsOn(used, asked, Replies(batch[b])) /\ manifest[k].handle.batch = b
    BY <1>4, <2>1, CollectedRests DEF Extracted
  <2>3. HandedOver'[k] = [batch |-> outcome'.manifest.handle.batch,
                          answers |-> {<<u.request, u.response.says>> : u \in outcome'.used}]
    BY <1>1, <1>4, Zenon DEF HandedOver
  <2>4. PICK d : d = HandedOver'[k]
    OBVIOUS
  <2>5. d = [batch |-> b, answers |-> {<<u.request, u.response.says>> : u \in used}]
    BY <1>1, <2>1, <2>2, <2>3, <2>4
  <2>6. d.batch = b /\ d.answers = {<<u.request, u.response.says>> : u \in used}
    BY <2>5
  <2>7. d.answers \subseteq Replies(batch[b])
    BY <2>2, <2>6 DEF RestsOn
  <2>8. \A x, y \in d.answers : x[1] = y[1] => x = y
    BY <2>2, <2>6 DEF RestsOn
  <2>9. RepliesIn[d.batch] = Replies(batch[b])
    BY <2>6 DEF RepliesIn
  <2>10. QED
    BY <1>2, <2>4, <2>7, <2>8, <2>9
<1>5. QED
  BY <1>3, <1>4

LEMMA PromiseStep ==
  ASSUME LifecycleInv, [Next]_vars
  PROVE  [Promise!Next]_(Promise!vars)
<1>1. BatchMoves
  BY OnlyBatchMoves
<1>2. /\ AskedIn = [b \in Batch |-> AskedOf(batch[b])]
      /\ AskedIn' = [b \in Batch |-> AskedOf(batch'[b])]
      /\ RepliesIn = [b \in Batch |-> Replies(batch[b])]
      /\ RepliesIn' = [b \in Batch |-> Replies(batch'[b])]
  BY DEF AskedIn, AskedOf, RepliesIn, Replies
<1>3. outcome' = Nothing => HandedOver' = [k \in Key |-> Nothing]
  BY DEF HandedOver, Extracted
<1>4. CASE batch' # batch
  <2>1. HandedOver' = [k \in Key |-> Nothing]
    BY <1>3, <1>4, OneBatchChanges
  <2>2. PICK b \in Batch : \A other \in Batch \ {b} : batch'[other] = batch[other]
    BY <1>4, OneBatchChanges
  <2>3. /\ AskedIn' = [AskedIn EXCEPT ![b] = AskedIn'[b]]
        /\ RepliesIn' = [RepliesIn EXCEPT ![b] = RepliesIn'[b]]
    BY <1>2, <2>2
  <2>4. /\ AskedIn[b] = AskedOf(batch[b]) /\ AskedIn'[b] = AskedOf(batch'[b])
        /\ RepliesIn[b] = Replies(batch[b]) /\ RepliesIn'[b] = Replies(batch'[b])
    BY <1>2
  <2>5. CASE AskedIn'[b] = AskedIn[b] /\ RepliesIn'[b] = RepliesIn[b]
    <3>1. UNCHANGED <<AskedIn, RepliesIn>>
      BY <1>2, <2>3, <2>5
    <3>2. CASE Key = {}
      <4>1. HandedOver' = HandedOver
        BY <3>2 DEF HandedOver
      <4>2. QED
        BY <3>1, <4>1, PromiseKept
    <3>3. CASE Key # {}
      <4>1. PICK k \in Key : TRUE
        BY <3>3
      <4>2. QED
        BY <2>1, <3>1, <4>1, PromiseKept
    <3>4. QED
      BY <3>2, <3>3
  <2>6. CASE AskedIn[b] = {} /\ AskedIn'[b] # {} /\ RepliesIn'[b] = RepliesIn[b]
    <3>1. RepliesIn' = RepliesIn
      BY <1>2, <2>3, <2>6
    <3>2. QED
      BY <2>1, <2>3, <2>6, <3>1, PromiseKept
  <2>7. CASE /\ AskedIn'[b] = AskedIn[b] /\ RepliesIn[b] = {}
             /\ \A a \in RepliesIn'[b] : a[1] \in AskedIn[b]
    <3>1. AskedIn' = AskedIn
      BY <1>2, <2>3, <2>7
    <3>2. {a[1] : a \in RepliesIn'[b]} \subseteq AskedIn[b]
      BY <2>7
    <3>3. QED
      BY <2>1, <2>3, <2>7, <3>1, <3>2, PromiseKept
  <2>8. QED
    BY <1>1, <2>4, <2>5, <2>6, <2>7, BatchPromises
<1>5. CASE batch' = batch
  <2>1. UNCHANGED <<AskedIn, RepliesIn>>
    BY <1>2, <1>5
  <2>2. CASE UNCHANGED vars
    <3>1. HandedOver' = HandedOver
      BY <2>2 DEF HandedOver, Extracted, vars
    <3>2. QED
      BY <2>1, <3>1, PromiseKept
  <2>3. ASSUME NEW k \in Key, NEW b \in Batch, NEW sliced \in BOOLEAN, Collect(k, b, sliced)
        PROVE  [Promise!Next]_(Promise!vars)
    BY <2>1, <2>3, HandOver, PromiseKept
  <2>4. CASE outcome' = Nothing /\ Key # {}
    <3>1. PICK k \in Key : TRUE
      BY <2>4
    <3>2. \A other \in Key : HandedOver'[other] = Nothing
      BY <1>3, <2>4
    <3>3. QED
      BY <2>1, <3>1, <3>2, PromiseKept
  <2>5. CASE Key = {}
    <3>1. HandedOver' = HandedOver
      BY <2>5 DEF HandedOver
    <3>2. QED
      BY <2>1, <3>1, PromiseKept
  <2>6. QED
    BY <2>2, <2>3, <2>4, <2>5, OutcomeStep
<1>6. QED
  BY <1>4, <1>5

(***************************************************************************)
(* Read as questions, answers and deliveries, every step of the deferred   *)
(* extraction is one the promise allows or changes none of the three.      *)
(***************************************************************************)
THEOREM LifecycleKeepsPromise == Spec => ImplementsPromise
<1>1. LifecycleInv /\ [Next]_vars => [Promise!Next]_(Promise!vars)
  BY PromiseStep
<1>2. QED
  BY <1>1, PromiseInit, LifecycleHolds, PTL DEF Spec, ImplementsPromise, Promise!Spec
=============================================================================
