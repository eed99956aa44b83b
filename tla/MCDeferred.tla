----------------------------- MODULE MCDeferred -----------------------------
(***************************************************************************)
(* Two keys.  The memo has one sharded field, the form a packed call and a *)
(* windowed field.  Setup 2 decides the memo's field without a call and    *)
(* changes no prompt of the form, but what is recorded with it.            *)
(***************************************************************************)
EXTENDS DeferredLifecycle

Memo(u) ==
  IF u = 2 THEN [auto |-> "topic" :> "selected", plans |-> <<>>]
  ELSE [auto |-> NoEntry,
        plans |-> <<[kind |-> "one_shards", fields |-> {"topic"}, meta |-> 1,
                     prompts |-> <<"m1", "m2">>]>>]

Form(u) ==
  [auto |-> "date" :> "no_candidates",
   plans |-> <<[kind |-> "packed", fields |-> {"name", "sum"}, meta |-> u,
                prompts |-> <<"f1">>],
               [kind |-> "union_windows", fields |-> {"class"}, meta |-> u,
                prompts |-> <<"w1">>]>>]

MCWork == [x \in {"memo", "form"} \X (1..2) |->
             IF x[1] = "memo" THEN Memo(x[2]) ELSE Form(x[2])]

MCFirstContent == [k \in Key |-> IF k = "k1" THEN "memo" ELSE "form"]

\* first the memo, alone or with the form, then the memo again
MCSubmissions == <<{{"k1"}, {"k1", "k2"}}, {{"k1"}}>>

Line(r, kind, says) == [id |-> r.id, kind |-> kind, question |-> r, says |-> says]
Output(s) == [output |-> s, error |-> <<>>]
Error(s) == [output |-> <<>>, error |-> s]

Picked(r) == Output(<<Line(r, "answer", "pick")>>)
None(r) == Output(<<Line(r, "answer", "none")>>)

\* two answers, an answer and an error, and every other line
Odd(r) ==
  {None(r), Error(<<Line(r, "error", "none")>>),
   Output(<<Line(r, "garbled", "none")>>), Output(<<Line(r, "answer", "bad")>>),
   Output(<<Line(r, "answer", "none"), Line(r, "answer", "pick")>>),
   [output |-> <<Line(r, "answer", "pick")>>, error |-> <<Line(r, "refused", "none")>>]}

Unread(r) == {Output(<<>>), Output(<<Line(r, "garbled", "none")>>)}

Joined(parts) ==
  [output |-> FlattenSeq([i \in DOMAIN parts |-> parts[i].output]),
   error |-> FlattenSeq([i \in DOMAIN parts |-> parts[i].error])]

\* in the first batch its first request may be answered oddly, its last not or
\* illegibly, or there may be no answer at all; the second batch only
\* supplies results of its own
FilesFor(b, requests) ==
  LET picked == [i \in DOMAIN requests |-> Picked(requests[i])]
  IN {Joined(picked)} \cup
     (IF b = 2 THEN {}
      ELSE {Output(<<>>)} \cup
           {Joined([picked EXCEPT ![1] = o]) : o \in Odd(requests[1])} \cup
           {Joined([picked EXCEPT ![Len(requests)] = o]) : o \in Unread(requests[Len(requests)])})

Single == {RequestsOf[x] : x \in Content \X SpecVersion \X Setup} \ {<<>>}
MCDeliveries ==
  [b \in Batch, requests \in Single \cup {s \o t : s, t \in Single} |-> FilesFor(b, requests)]
=============================================================================
