--------------------------- MODULE CandidateMenu ---------------------------
(***************************************************************************)
(* From a document to the menu a selector sees: a source adapter makes the *)
(* view, the strategies of the field generate, their sets are merged and   *)
(* filtered, and the prompt shows the menu in its contexts.                *)
(*                                                                         *)
(* The executor adapts every document as text; the HTML adapter is the     *)
(* caller's choice.                                                        *)
(***************************************************************************)
EXTENDS PromptContexts

CONSTANTS
  Documents,    \* the documents to consider
  Bindings,     \* the strategies of a field: sequences of records, the name
                \* of a strategy and its window, context_window_bytes
  Literals,     \* the literal values of the field's type
  Filters,      \* the filters of a field, as FilteredSet takes them
  ChunkLength,  \* max_chars_per_chunk
  Overlap,      \* chunk_overlap_chars
  MaxFound      \* most matches and entities of a document

ASSUME ChunkAssumption == ChunkLength \in Nat \ {0} /\ Overlap \in 0..(ChunkLength - 1)

VARIABLES
  stage,   \* where the field is
  doc,     \* the document
  view,    \* what the adapter made of it
  todo,    \* the strategies that have not run yet
  sets,    \* the candidate sets that were generated
  phrases, \* what the recognizer knows, [from, to] in characters (history)
  menu     \* the candidates that are offered

vars == <<stage, doc, view, todo, sets, phrases, menu>>

Init ==
  /\ stage = "adapt"
  /\ doc \in Documents /\ todo \in Bindings
  /\ view = View(<<>>, <<>>)
  /\ sets = <<>> /\ phrases = {} /\ menu = <<>>

Adapt ==
  /\ stage = "adapt"
  /\ view' \in {TextView(doc), HtmlView(doc)}
  /\ stage' = IF Total(view') THEN "generate" ELSE "raised"
  /\ UNCHANGED <<doc, todo, sets, phrases, menu>>

-----------------------------------------------------------------------------
Found == TotalOf([i \in DOMAIN sets |-> Len(sets[i])])

Labels == {"A", "B"}

\* a strategy either raises or adds its set
Generate(raises, candidates) ==
  /\ IF raises \/ Duplicates(candidates)
     THEN stage' = "raised" /\ UNCHANGED <<todo, sets>>
     ELSE /\ todo' = Tail(todo)
          /\ sets' = Append(sets, candidates)
          /\ UNCHANGED stage
  /\ UNCHANGED <<doc, view, menu>>

\* the strategy whose turn it is
Running == Strategy(Head(todo).name, Len(sets) + 1)
Window == Head(todo).window

Turn(name) == stage = "generate" /\ todo # <<>> /\ Head(todo).name = name

\* what a pattern finds: the matches of finditer begin one after the other,
\* the groups of them need not
MatchRegex ==
  /\ Turn("regex")
  /\ \E k \in 0..(MaxFound - Found) :
       \E matches \in [1..k -> RangesOf(Len(view.text))], label \in Labels :
         Generate(RegexRaises(view, matches),
                  RegexCandidates(view, Running, matches, label, Window))
  /\ UNCHANGED phrases

\* what the recognizer finds in a chunk: the phrases that are whole in it
InChunk(known, chunk) ==
  LET whole == {p \in known : p.from >= chunk.from /\ p.to <= chunk.to}
      rank(p) == 1 + Cardinality({q \in whole : q.from < p.from})
  IN [r \in 1..Cardinality(whole) |-> CHOOSE p \in whole : rank(p) = r]

Entities(known) ==
  LET chunks == Chunks(CharsOf(view.text), ChunkLength, Overlap)
  IN FlattenSeq([i \in DOMAIN chunks |-> InChunk(known, chunks[i])])

\* spaCy's entities are not empty and do not overlap; up to two of them
PhraseSets ==
  LET n     == CharsOf(view.text)
      some  == {r \in RangesOf(n) : r.from < r.to}
      apart == {pq \in some \X some : pq[1] = pq[2] \/ pq[1].to <= pq[2].from}
      oneOrTwo == {{}} \cup {{pq[1], pq[2]} : pq \in apart}
  IN {known \in oneOrTwo : Cardinality(known) <= MaxFound - Found}

Recognize ==
  /\ Turn("ner")
  /\ \E known \in PhraseSets :
       /\ phrases' = known
       /\ Generate(NerRaises(view, Entities(known)),
                   NerCandidates(view, Running, Entities(known), "A", Window))

ListLiterals ==
  /\ Turn("literal_set")
  /\ Generate(FALSE, LiteralCandidates(Running, Literals))
  /\ UNCHANGED phrases

-----------------------------------------------------------------------------
\* the merged set is a candidate set too
Merge ==
  /\ stage = "generate" /\ todo = <<>>
  /\ menu' = MergedSet(sets)
  /\ stage' = IF Len(sets) > 1 /\ Duplicates(menu') THEN "raised" ELSE "merged"
  /\ UNCHANGED <<doc, view, todo, sets, phrases>>

\* a field may have no filter
Filter ==
  /\ stage = "merged"
  /\ \/ UNCHANGED menu
     \/ \E cases \in Filters : menu' = FilteredSet(menu, cases)
  /\ stage' = "offered"
  /\ UNCHANGED <<doc, view, todo, sets, phrases>>

Next == \/ Adapt \/ MatchRegex \/ Recognize \/ ListLiterals \/ Merge \/ Filter

Spec == Init /\ [][Next]_vars

-----------------------------------------------------------------------------
Merged == stage \in {"merged", "offered"}

SpansOf(c) == <<c.span>> \o c.evidence

OffsetsOf(spans) == UNION {Range0(spans[i].from, spans[i].to) : i \in DOMAIN spans}

OriginOf(bytes) == UNION {bytes[i].origin : i \in DOMAIN bytes}

\* the view is a plain copy of its source, as the executor's always is
CopiesSource == Len(view.entries) = 1 /\ Copies(view, 1)

\* The spans of a candidate are the source of its text, all of it and nothing
\* else, and layer 1 will not refuse them: whatever a pattern matches in text
\* or in HTML, and whatever is recognized in a view that copies its source
\* (_match_to_source_slices, _normalized_range_to_source_span, _layer1_check).
EvidenceIsTheText ==
  Merged => \A i \in DOMAIN menu :
    LET c == menu[i]
    IN /\ ~Layer1Refuses(view, SpansOf(c))
       /\ c.kind = "text" /\ c.text # <<>>
            /\ (Head(c.source).name = "regex" \/ CopiesSource)
            => OffsetsOf(SpansOf(c)) = OriginOf(c.text)

\* What was found is offered once and names everyone who found it: every
\* candidate of every strategy, and every phrase the recognizer knows that is
\* no longer than the overlap of the chunks and one character, however many
\* chunks it is in (_iter_text_chunks, generate, _merge_candidate_sets). Two
\* phrases within one reference have one source, and are one candidate.
FoundIsOfferedOnce ==
  stage = "merged" =>
    LET like(c) == {i \in DOMAIN menu : MergeKey(menu[i]) = MergeKey(c)}
        holds(p) == {i \in DOMAIN menu :
                       /\ "ner" \in {x.name : x \in ToSet(menu[i].source)}
                       /\ menu[i].normal = Span("normalized_text",
                                                ByteAt(view.text, p.from),
                                                ByteAt(view.text, p.to))}
        sourceOf(p) == SourceSpanOf(view, Span0(ByteAt(view.text, p.from),
                                                ByteAt(view.text, p.to)))
    IN /\ \A s \in DOMAIN sets : \A k \in DOMAIN sets[s] :
            \E i \in DOMAIN menu : /\ like(sets[s][k]) = {i}
                                   /\ Head(sets[s][k].source) \in ToSet(menu[i].source)
       /\ \A p \in phrases :
            p.to - p.from <= Overlap + 1 =>
              \E q \in phrases : /\ sourceOf(q) = sourceOf(p)
                                 /\ Cardinality(holds(q)) = 1

-----------------------------------------------------------------------------
\* the tags of a candidate stand around its text
AnchorIn(text, n, c) ==
  IsPartOf(Open(n) \o c.text \o Close(n), text)

\* no window and no empty match cuts a character
NothingIsCut ==
  \A i \in DOMAIN menu :
    /\ FitsText(view, menu[i].window)
    /\ FitsText(view, menu[i].normal)

\* no two candidates share text or begin together
Apart ==
  \A i, j \in DOMAIN menu :
    \/ i = j
    \/ /\ menu[i].normal.to <= menu[j].normal.from
       /\ menu[i].normal.from < menu[j].normal.from
    \/ /\ menu[j].normal.to <= menu[i].normal.from
       /\ menu[j].normal.from < menu[i].normal.from

\* no context is part of two others, unless one of these is part of the other
Nested ==
  \A i, j, k \in DOMAIN menu :
    /\ IsPartOf(menu[i].context, menu[j].context)
    /\ IsPartOf(menu[i].context, menu[k].context)
      => \/ menu[i].context = <<>>
         \/ IsPartOf(menu[j].context, menu[k].context)
         \/ IsPartOf(menu[k].context, menu[j].context)

\* Every candidate with a context is in one context of the prompt, and that
\* one shows it. With windows its tags stand around its text, and the context
\* is the text of its span, as long as no window cuts a character and no two
\* candidates share text. Without, its context is part of what is shown, as
\* long as no context is part of two others; if one is, see ContextsAreKept
\* (_intern_span_contexts, _merged_context_with_inline_anchors, _context_id_for).
ContextsShowCandidates ==
  stage = "offered" =>
    LET contexts == Contexts(menu)
        shown(i, w) ==
          IF HaveWindows(menu)
          THEN /\ contexts[w].from <= menu[i].window.from
               /\ contexts[w].to >= menu[i].window.to
               /\ NothingIsCut /\ Apart =>
                    /\ AnchorIn(contexts[w].text, i, menu[i])
                    /\ SelectSeq(contexts[w].text, LAMBDA b : b.char >= 0)
                         = SliceOf(view.text, contexts[w])
          ELSE Nested => IsPartOf(menu[i].context, contexts[w].text)
    IN \A i \in DOMAIN menu :
         menu[i].context # <<>> =>
           \E w \in DOMAIN contexts :
             /\ {v \in DOMAIN contexts : i \in ToSet(contexts[v].who)} = {w}
             /\ shown(i, w)

\* "insert inline anchors at each selected candidate span"
\* (docs/adr/0024-readable-bounded-id-selector-prompts.md:211): so it does not
\* do when the candidates overlap, or when a window cuts a character
AnchorsAreAccurate ==
  stage = "offered" /\ HaveWindows(menu) =>
    LET contexts == Contexts(menu)
    IN \A w \in DOMAIN contexts : \A k \in DOMAIN contexts[w].who :
         AnchorIn(contexts[w].text, contexts[w].who[k], menu[contexts[w].who[k]])

\* "each selectable candidate id appears next to the candidate text and context
\* it names" (docs/adr/0024-readable-bounded-id-selector-prompts.md:32-33): so
\* it does not when a context without a window is part of two others; the later
\* of them takes the place of the text that the candidates of the earlier name
ContextsAreKept ==
  stage = "offered" /\ ~HaveWindows(menu) =>
    LET contexts == Contexts(menu)
    IN \A w \in DOMAIN contexts : \A k \in DOMAIN contexts[w].who :
         IsPartOf(menu[contexts[w].who[k]].context, contexts[w].text)
=============================================================================
