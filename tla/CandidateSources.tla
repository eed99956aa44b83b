-------------------------- MODULE CandidateSources --------------------------
(***************************************************************************)
(* Candidates for a field: what the regex, the entity and the literal      *)
(* strategies make of a document view, how the sets of several strategies  *)
(* are merged, and how a filter thins the merged set.                      *)
(*                                                                         *)
(*   candidates/generators/{regex,ner,literal_set}.py                      *)
(*   candidates/{candidate_set,context,filters}.py                         *)
(*   execution/strategies/independent.py (_merge_candidate_sets)           *)
(*                                                                         *)
(* What a pattern matches and what spaCy recognizes is given: byte ranges, *)
(* or character ranges of a chunk. A hash is the tuple it is the hash of.  *)
(***************************************************************************)
EXTENDS AnchoredText

\* a half-open range of normalized bytes, or of characters
Span0(from, to) == [from |-> from, to |-> to]
RangesOf(n) == {r \in [from : 0..n, to : 0..n] : r.from <= r.to}

SliceOf(text, r) == SubSeq(text, r.from + 1, r.to)

\* the parts from..to of the character of the i-th byte are in their places
PartsAt(bytes, i, from, to) ==
  \A k \in from..to :
    LET j == i - bytes[i].part + k
    IN /\ j \in DOMAIN bytes
       /\ bytes[j].char = bytes[i].char /\ bytes[j].part = k

Whole(bytes, i) == PartsAt(bytes, i, 1, bytes[i].of)

Decodes(bytes) == \A i \in DOMAIN bytes : Whole(bytes, i)

\* U+FFFD is three bytes long
Replacement == [k \in 1..3 |-> [char |-> 0, part |-> k, of |-> 3, origin |-> {}]]

\* decode("utf-8", errors="replace"): the first bytes of a character that is
\* not whole become one replacement character, any other byte of it one each
Replaced(bytes) ==
  FlattenSeq([i \in DOMAIN bytes |->
    IF Whole(bytes, i) THEN <<bytes[i]>>
    ELSE IF bytes[i].part > 1 /\ PartsAt(bytes, i, 1, bytes[i].part) THEN <<>>
    ELSE Replacement])

-----------------------------------------------------------------------------
(* Candidates *)

\* a strategy with its parameters, which differ between the bindings of a field
Strategy(name, binding) == [name |-> name, binding |-> binding]

\* candidate_id_for
CandidateId(strategy, span, evidence, payload) ==
  [strategy |-> strategy, span |-> span, evidence |-> evidence, payload |-> payload]

\* ByteWindowCandidateContextBuilder, window bytes on either side
WindowOf(text, r, window) ==
  Span("normalized_text", Max({0, r.from - window}),
                          Min({Len(text), r.to + window}))

NoSpan == Span("none", 0, 0)

TextCandidate(view, strategy, r, span, evidence, label, payload, window) ==
  LET around == WindowOf(view.text, r, window)
  IN [id       |-> CandidateId(strategy, span, evidence, payload),
      text     |-> SliceOf(view.text, r),
      kind     |-> "text",
      source   |-> <<strategy>>,
      span     |-> span,
      evidence |-> evidence,
      context  |-> Replaced(SliceOf(view.text, Span0(around.from, around.to))),
      window   |-> around,
      normal   |-> Span("normalized_text", r.from, r.to),
      label    |-> label,
      hint     |-> "none"]

\* build_candidate_set refuses two candidates of one id
Duplicates(candidates) ==
  \E i, j \in DOMAIN candidates : i # j /\ candidates[i].id = candidates[j].id

-----------------------------------------------------------------------------
(* The regex strategy: a match, or a group of it, is mapped segment by     *)
(* segment                                                                 *)

\* (mutant) a reference is cut in the middle
SliceIntoCut(view, r, i) ==
  LET e == view.entries[i]
  IN Span("source_bytes", e.span.from + (Max({r.from, e.norm}) - e.norm),
                          e.span.from + (Min({r.to, NormEnd(view, i)}) - e.norm))

SliceInto(view, r, i) ==
  LET e    == view.entries[i]
      from == Max({r.from, e.norm})
      to   == Min({r.to, NormEnd(view, i)})
  IN IF Copies(view, i)
     THEN Span("source_bytes", e.span.from + (from - e.norm),
                               e.span.from + (to - e.norm))
     ELSE e.span

\* _match_to_source_slices: what touches is one slice
SourceSlices(view, r) ==
  LET met == SelectSeq([i \in DOMAIN view.entries |-> i],
                       LAMBDA i : /\ NormEnd(view, i) > r.from
                                  /\ view.entries[i].norm < r.to)
  IN FoldLeft(LAMBDA out, i :
                LET s == SliceInto(view, r, i)
                IN IF out # <<>> /\ s.from = Last(out).to
                   THEN [out EXCEPT ![Len(out)].to = s.to]
                   ELSE Append(out, s),
              <<>>, met)

\* a match that meets no segment is dropped
Emitted(view, matches) ==
  SelectSeq(matches, LAMBDA r : SourceSlices(view, r) # <<>>)

RegexRaises(view, matches) ==
  \E i \in DOMAIN Emitted(view, matches) :
    LET r      == Emitted(view, matches)[i]
        slices == SourceSlices(view, r)
    IN \/ \E k \in DOMAIN slices : ~SpanIsValid(view, slices[k])
       \/ ~Decodes(SliceOf(view.text, r))

RegexCandidates(view, strategy, matches, label, window) ==
  LET met == Emitted(view, matches)
  IN [i \in DOMAIN met |->
        LET slices == SourceSlices(view, met[i])
        IN TextCandidate(view, strategy, met[i], Head(slices), Tail(slices),
                         label, "none", window)]

-----------------------------------------------------------------------------
(* The entity strategy: the text is read in overlapping chunks *)

CharsOf(text) == Cardinality({text[i].char : i \in DOMAIN text})

\* _char_offset_to_utf8_byte
ByteAt(text, n) == Cardinality({i \in DOMAIN text : text[i].char <= n})

\* (mutant) the next chunk starts where this one ends
NextChunkApart(start, end, overlap) == end

NextChunk(start, end, overlap) ==
  LET next == Max({0, end - overlap})
  IN IF next <= start THEN end ELSE next

\* _iter_text_chunks
Chunks(n, longest, overlap) ==
  LET From[start \in 0..n] ==
        LET end == Min({n, start + longest})
        IN <<Span0(start, end)>>
             \o (IF end = n THEN <<>> ELSE From[NextChunk(start, end, overlap)])
  IN From[0]

\* _normalized_range_to_source_span
SourceSpanOf(view, r) ==
  LET start == LookedUp(view, r.from)
      end   == LookedUp(view, r.to)
  IN IF start.space # end.space \/ start.space # "source_bytes"
     THEN Span("normalized_text", r.from, r.to)
     ELSE Span("source_bytes", start.from, end.from)

\* entities: character ranges, in the order the chunks give them
ByteRanges(view, entities) ==
  SelectSeq([i \in DOMAIN entities |-> Span0(ByteAt(view.text, entities[i].from),
                                             ByteAt(view.text, entities[i].to))],
            LAMBDA r : r.from # r.to)

NerRaises(view, entities) ==
  \E i \in DOMAIN ByteRanges(view, entities) :
    LET r == ByteRanges(view, entities)[i]
    IN \/ LookupFails(view, r.from) \/ LookupFails(view, r.to)
       \/ SourceSpanOf(view, r).to < SourceSpanOf(view, r).from
       \/ ~SpanIsValid(view, SourceSpanOf(view, r))

\* what two chunks find is one candidate
NerCandidates(view, strategy, entities, label, window) ==
  FoldLeft(LAMBDA out, r :
             LET c == TextCandidate(view, strategy, r, SourceSpanOf(view, r), <<>>,
                                    label, label, window)
             IN IF \E i \in DOMAIN out : out[i].id = c.id THEN out
                ELSE Append(out, c),
           <<>>, ByteRanges(view, entities))

-----------------------------------------------------------------------------
(* The literal strategy: a candidate for each value of the type, at the    *)
(* head of the document                                                    *)

LiteralCandidates(strategy, literals) ==
  [i \in DOMAIN literals |->
     [id       |-> CandidateId(strategy, DocumentHead, <<>>, literals[i]),
      text     |-> <<literals[i]>>,
      kind     |-> "structured",
      source   |-> <<strategy>>,
      span     |-> DocumentHead,
      evidence |-> <<>>,
      context  |-> <<>>,
      window   |-> NoSpan,
      normal   |-> NoSpan,
      label    |-> "none",
      hint     |-> literals[i]]]

-----------------------------------------------------------------------------
(* Merging the sets of several strategies *)

\* _candidate_merge_key
MergeKey(c) == <<c.kind, c.label, c.span, c.evidence, c.hint, c.text>>

\* the first of several stays, and names everyone who found it
Joined(out, c) ==
  LET at == {i \in DOMAIN out : MergeKey(out[i]) = MergeKey(c)}
  IN IF at = {} THEN Append(out, c)
     ELSE LET i == Min(at)
          IN IF Head(c.source) \in ToSet(out[i].source) THEN out
             ELSE [out EXCEPT ![i].source = Append(@, Head(c.source))]

\* _merge_candidate_sets; a single set is left as it is
MergedSet(sets) ==
  IF Len(sets) = 1 THEN sets[1] ELSE FoldLeft(Joined, <<>>, FlattenSeq(sets))

-----------------------------------------------------------------------------
(* Filters, over the set as it was before any of it was dropped *)

\* _span_contains
Encloses(outer, inner) ==
  /\ outer.span.space = inner.span.space
  /\ outer.span.from <= inner.span.from /\ outer.span.to >= inner.span.to
  /\ outer.span # inner.span

LabelFits(c, label) == label = "any" \/ c.label = label

Passes(expr, c, set) ==
  LET others == {j \in DOMAIN set : set[j].id # c.id}
  IN CASE expr.op = "label_in"     -> c.label \in expr.labels
       [] expr.op = "label_not_in" -> c.label \notin expr.labels
       [] expr.op = "contained_by" ->
            \E j \in others : LabelFits(set[j], expr.label) /\ Encloses(set[j], c)
       [] expr.op = "contains"     ->
            \E j \in others : LabelFits(set[j], expr.label) /\ Encloses(c, set[j])

\* filter_candidate_set; And, Or and Not nest at will in the code, here they
\* are given as a disjunction of conjunctions of tests, negated or not
FilteredSet(set, cases) ==
  SelectSeq(set, LAMBDA c : \E tests \in cases : \A t \in tests :
                              Passes(t.expr, c, set) = ~t.negated)
=============================================================================
