---------------------------- MODULE AnchoredText ----------------------------
(***************************************************************************)
(* Text with a way back to its source: what the source adapters make of a  *)
(* document, the anchor map between the bytes of the normalized text and   *)
(* the bytes of the source, and the checks made of spans of either.        *)
(*                                                                         *)
(*   source/adapters/{text,markdown,html}.py    source/document_view.py    *)
(*   core/anchors.py    proposals/validation.py (layer 1)                  *)
(*                                                                         *)
(* A document is a sequence of tokens of its HTML reading: data, character *)
(* references and tags. A character is the number of its bytes; all the    *)
(* characters of a text differ. A byte of the text is a record that says   *)
(* which byte of which character it is, and which source bytes the         *)
(* character was read from.                                                *)
(***************************************************************************)
EXTENDS Integers, Sequences, FiniteSets, SequencesExt

\* chars: the widths of the characters in the source; shown: in the text
Token(kind, chars, shown) == [kind |-> kind, chars |-> chars, shown |-> shown]
Data(chars) == Token("data", chars, chars)
Ref(chars, shown) == Token("ref", chars, shown)
Tag(chars) == Token("tag", chars, <<>>)

TotalOf(widths) == FoldLeft(+, 0, widths)

\* the widths of the characters of a document
SourceChars(doc) == FlattenSeq([t \in DOMAIN doc |-> doc[t].chars])

\* _char_to_byte_table
ByteOfChar(doc, n) == TotalOf(SubSeq(SourceChars(doc), 1, n))

CharStart(doc, t) == Len(SourceChars(SubSeq(doc, 1, t - 1)))

Span(space, from, to) == [space |-> space, from |-> from, to |-> to]

\* the bytes of a text of these widths, whose n-th character was read from
\* the source bytes from[n] (offsets, counted from zero)
TextBytes(widths, from) ==
  FlattenSeq([n \in DOMAIN widths |->
    [k \in 1..widths[n] |-> [char |-> n, part |-> k, of |-> widths[n],
                             origin |-> from[n]]]])

Range0(from, to) == from..(to - 1)

-----------------------------------------------------------------------------
(* Adapters *)

\* LinearSegment
Segment(norm, source, normLength, sourceLength) ==
  [norm |-> norm, source |-> source, normLength |-> normLength,
   sourceLength |-> sourceLength]

\* build_linearizable_anchor_map
AnchorMap(segments) ==
  [i \in DOMAIN segments |->
     [norm |-> segments[i].norm,
      span |-> Span("source_bytes", segments[i].source,
                    segments[i].source + segments[i].sourceLength)]]

View(text, entries) == [text |-> text, entries |-> entries]

\* TextAdapter and MarkdownAdapter: every token is text, markup included
TextView(doc) ==
  LET chars == SourceChars(doc)
      n     == TotalOf(chars)
      from  == [i \in DOMAIN chars |->
                  Range0(ByteOfChar(doc, i - 1), ByteOfChar(doc, i))]
  IN View(TextBytes(chars, from),
          IF n = 0 THEN <<>> ELSE AnchorMap(<<Segment(0, 0, n, n)>>))

\* HtmlAdapter: an event for each data and each reference token, which lasts
\* until the next event, the next tag, or the end
Events(doc) == SelectSeq([t \in DOMAIN doc |-> t], LAMBDA t : doc[t].kind # "tag")

EventEnd(doc, t) ==
  Min({CharStart(doc, u) : u \in (t + 1)..Len(doc)} \cup {Len(SourceChars(doc))})

Kept(doc) ==
  SelectSeq(Events(doc), LAMBDA t : /\ EventEnd(doc, t) > CharStart(doc, t)
                                    /\ doc[t].shown # <<>>)

HtmlView(doc) ==
  LET kept    == Kept(doc)
      bytes   == [i \in DOMAIN kept |-> TotalOf(doc[kept[i]].shown)]
      from(i) == ByteOfChar(doc, CharStart(doc, kept[i]))
      to(i)   == ByteOfChar(doc, EventEnd(doc, kept[i]))
      cursor(i) == TotalOf(SubSeq(bytes, 1, i - 1))
      origin(i) == LET shown == doc[kept[i]].shown
                   IN [c \in DOMAIN shown |->
                         IF doc[kept[i]].kind = "ref" THEN Range0(from(i), to(i))
                         ELSE Range0(from(i) + TotalOf(SubSeq(shown, 1, c - 1)),
                                     from(i) + TotalOf(SubSeq(shown, 1, c)))]
  IN View(TextBytes(FlattenSeq([i \in DOMAIN kept |-> doc[kept[i]].shown]),
                    FlattenSeq([i \in DOMAIN kept |-> origin(i)])),
          AnchorMap([i \in DOMAIN kept |->
                       Segment(cursor(i), from(i), bytes[i], to(i) - from(i))]))

-----------------------------------------------------------------------------
(* Anchors *)

\* is_utf8_aligned
Aligned(text, offset) ==
  \/ offset = 0
  \/ offset = Len(text)
  \/ offset \in 1..(Len(text) - 1) /\ text[offset + 1].part = 1

\* anchor_validate_total
Total(view) ==
  IF view.entries = <<>> THEN view.text = <<>>
  ELSE /\ view.entries[1].norm = 0
       /\ \A i \in DOMAIN view.entries :
            /\ Aligned(view.text, view.entries[i].norm)
            /\ i > 1 => view.entries[i].norm > view.entries[i - 1].norm
       /\ view.entries[Len(view.entries)].norm <= Len(view.text)

NormEnd(view, i) ==
  IF i < Len(view.entries) THEN view.entries[i + 1].norm ELSE Len(view.text)

\* the segment copies its source, byte for byte
Copies(view, i) ==
  LET e == view.entries[i]
  IN NormEnd(view, i) - e.norm = e.span.to - e.span.from

\* _find_segment_index: an offset between two segments is of the second
SegmentAt(view, offset) ==
  Max({i \in DOMAIN view.entries : view.entries[i].norm <= offset})

\* anchor_lookup: a point of a copy, the whole of anything else
LookedUp(view, offset) ==
  LET i == SegmentAt(view, offset)
      e == view.entries[i]
      point == e.span.from + (offset - e.norm)
  IN IF Copies(view, i) THEN [e.span EXCEPT !.from = point, !.to = point]
     ELSE e.span

LookupFails(view, offset) ==
  \/ view.entries = <<>>
  \/ offset > Len(view.text)
  \/ ~Aligned(view.text, offset)

\* anchor_invert succeeds: one segment covers the span
Inverts(view, span) ==
  /\ span.space = "source_bytes"
  /\ \E i \in DOMAIN view.entries :
       /\ view.entries[i].span.space = "source_bytes"
       /\ span.from >= view.entries[i].span.from
       /\ span.to <= view.entries[i].span.to

\* check_normalized_text_span
FitsText(view, span) ==
  /\ span.space = "normalized_text"
  /\ span.to <= Len(view.text)
  /\ Aligned(view.text, span.from)
  /\ Aligned(view.text, span.to)

\* validate_source_span_against_view
SpanIsValid(view, span) ==
  IF span.space = "normalized_text" THEN FitsText(view, span)
                                    ELSE Inverts(view, span)

-----------------------------------------------------------------------------
(* Layer 1 of the proposal validator, for the spans of a proposal *)

DocumentHead == Span("normalized_text", 0, 0)

\* _adapter_subcontract_space; NoSpace when the anchor map declares none
NoSpace == "undeclared"

DeclaredSpace(view) ==
  LET spaces == {view.entries[i].span.space : i \in DOMAIN view.entries}
  IN IF Cardinality(spaces) = 1 THEN CHOOSE s \in spaces : TRUE ELSE NoSpace

Layer1Refuses(view, spans) ==
  \E i \in DOMAIN spans :
    \/ /\ DeclaredSpace(view) \notin {NoSpace, spans[i].space}
       /\ spans[i] # DocumentHead
    \/ ~SpanIsValid(view, spans[i])
=============================================================================
