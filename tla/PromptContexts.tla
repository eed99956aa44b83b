--------------------------- MODULE PromptContexts ---------------------------
(***************************************************************************)
(* The contexts of a selection prompt. Every candidate comes with a window *)
(* of text around it. Windows that overlap are shown once, with the        *)
(* candidates marked where they stand; when a candidate has no window, the *)
(* contexts of the others are compared as strings, and a context that is   *)
(* part of another is not shown twice.                                     *)
(*                                                                         *)
(*   selection/prompts/selection.py (intern_prompt_contexts)               *)
(*                                                                         *)
(* No character of a context is white space, which the comparison of the   *)
(* strings would collapse.                                                 *)
(***************************************************************************)
EXTENDS CandidateSources

CONSTANTS
  OpenLength,   \* bytes of <cand id="...">
  CloseLength   \* bytes of </cand>

\* The tags around the n-th candidate of the menu. Each byte of a tag is a
\* character; no byte of a text is negative.
TagBytes(n, from, to) ==
  [k \in 1..(to - from + 1) |-> [char |-> -n, part |-> 1, of |-> 1,
                                 origin |-> {from + k - 1}]]

Open(n) == TagBytes(n, 1, OpenLength)
Close(n) == TagBytes(n, OpenLength + 1, OpenLength + CloseLength)

-----------------------------------------------------------------------------
(* Windows: a context has text, the span of it, and its candidates, which  *)
(* are positions of the menu                                               *)

\* the menu in the order of the windows, the first of equals first
ByWindow(menu) ==
  LET before(i, j) ==
        \/ menu[i].window.from < menu[j].window.from
        \/ /\ menu[i].window.from = menu[j].window.from
           /\ \/ menu[i].window.to < menu[j].window.to
              \/ menu[i].window.to = menu[j].window.to /\ i < j
      rank(i) == 1 + Cardinality({j \in DOMAIN menu : before(j, i)})
  IN [r \in DOMAIN menu |-> CHOOSE i \in DOMAIN menu : rank(i) = r]

\* _merge_overlapping_context_text
MergedText(current, c) ==
  IF c.window.to <= current.to THEN current.text
  ELSE Replaced(current.text
         \o SubSeq(c.context, Max({0, current.to - c.window.from}) + 1, Len(c.context)))

\* (mutant) the end of the last window is the end of the context
WidenedToLast(current, menu, i) ==
  [current EXCEPT !.text = MergedText(current, menu[i]),
                  !.to = menu[i].window.to,
                  !.who = Append(@, i)]

Widened(current, menu, i) ==
  [current EXCEPT !.text = MergedText(current, menu[i]),
                  !.to = Max({@, menu[i].window.to}),
                  !.who = Append(@, i)]

Opened(menu, i) ==
  [from |-> menu[i].window.from, to |-> menu[i].window.to,
   text |-> menu[i].context, who |-> <<i>>]

Windows(menu) ==
  FoldLeft(LAMBDA out, i :
             IF out # <<>> /\ menu[i].window.from <= Last(out).to
             THEN [out EXCEPT ![Len(out)] = Widened(@, menu, i)]
             ELSE Append(out, Opened(menu, i)),
           <<>>, ByWindow(menu))

\* where a candidate stands in the text of its context
LocalSpan(context, c) ==
  Span0(c.normal.from - context.from, c.normal.to - context.from)

MarkedAt(text, r, n) ==
  SubSeq(text, 1, r.from) \o Open(n) \o SubSeq(text, r.from + 1, r.to)
    \o Close(n) \o SubSeq(text, r.to + 1, Len(text))

\* the candidates to mark, from the last to the first of them; of those that
\* start together the one with the earlier window first
Edits(context, menu) ==
  LET local(i) == LocalSpan(context, menu[context.who[i]])
      fit  == {i \in DOMAIN context.who :
                 local(i).from >= 0 /\ local(i).to <= Len(context.text)}
      rank(i) == 1 + Cardinality({j \in fit :
                       \/ local(j).from > local(i).from
                       \/ local(j).from = local(i).from /\ j < i})
  IN [r \in 1..Cardinality(fit) |-> context.who[CHOOSE i \in fit : rank(i) = r]]

\* _merged_context_with_inline_anchors
Marked(context, menu) ==
  Replaced(FoldLeft(LAMBDA text, n : MarkedAt(text, LocalSpan(context, menu[n]), n),
                    context.text, Edits(context, menu)))

SpanContexts(menu) ==
  LET windows == Windows(menu)
  IN [w \in DOMAIN windows |-> [windows[w] EXCEPT !.text = Marked(windows[w], menu)]]

-----------------------------------------------------------------------------
(* Strings *)

IsPartOf(s, t) == \E i \in 0..(Len(t) - Len(s)) : SubSeq(t, i + 1, i + Len(s)) = s

\* known: the strings met so far, in order, with the context each stands for
Interned(state, menu, i) ==
  LET new   == menu[i].context
      known == state.known
      equal == {k \in DOMAIN known : known[k].string = new}
      near  == {k \in DOMAIN known : \/ IsPartOf(new, known[k].string)
                                     \/ IsPartOf(known[k].string, new)}
      first == known[Min(near)]
      join(k) == [state.contexts EXCEPT ![known[k].at].who = Append(@, i)]
  IN IF equal # {} THEN [state EXCEPT !.contexts = join(Min(equal))]
     ELSE IF near = {}
     THEN [known    |-> Append(known, [string |-> new, at |-> Len(state.contexts) + 1]),
           contexts |-> Append(state.contexts, [text |-> new, who |-> <<i>>])]
     ELSE IF IsPartOf(new, first.string)
     THEN [known    |-> Append(known, [string |-> new, at |-> first.at]),
           contexts |-> join(Min(near))]
     ELSE [known    |-> Append(RemoveAt(known, Min(near)),
                               [string |-> new, at |-> first.at]),
           contexts |-> [join(Min(near)) EXCEPT ![first.at].text = new]]

StringContexts(menu) ==
  FoldLeft(LAMBDA state, i : IF menu[i].context = <<>> THEN state
                             ELSE Interned(state, menu, i),
           [known |-> <<>>, contexts |-> <<>>],
           [i \in DOMAIN menu |-> i]).contexts

-----------------------------------------------------------------------------
\* every candidate has a window and text in it (_intern_span_contexts)
HaveWindows(menu) ==
  \A i \in DOMAIN menu : menu[i].window # NoSpan /\ menu[i].context # <<>>

\* intern_prompt_contexts
Contexts(menu) ==
  IF HaveWindows(menu) THEN SpanContexts(menu) ELSE StringContexts(menu)
=============================================================================
