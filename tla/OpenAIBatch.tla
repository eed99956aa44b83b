---------------------------- MODULE OpenAIBatch ----------------------------
(***************************************************************************)
(* The OpenAI batch behind OpenAIDeferredProvider                          *)
(* (extras/pydantic_ai/openai_deferred.py): what a batch is, and how poll  *)
(* reads its files.  A line of a file is a record [id, kind, question,     *)
(* says]: the custom id it names, what is found on it, the request that it *)
(* answers and what the answer says.  JSON and HTTP are abstracted to the  *)
(* kind of line they lead to.                                              *)
(***************************************************************************)
EXTENDS Naturals, Sequences, SequencesExt, FiniteSets, TLC

PendingStatus == {"in_progress", "cancelling"}
TerminalStatus == {"completed", "failed", "expired", "cancelled"}

NoEntry == [id \in {} |-> id]

\* An "answer" is a JSON object in a response with status 200, an "error" the
\* row's own error, "empty" neither error nor response, "refused" a response
\* with another status, "garbled" no JSON, no custom id or a body without JSON.
ResponseOf(line) == [id |-> line.id, question |-> line.question, says |-> line.says]
ErrorOf(line) == [id |-> line.id, type |-> line.kind]

\* The output file is read before the error file; a file there is none of is
\* <<>>.  One garbled line spoils the whole; of several lines of one id in one
\* dict the last is kept.
ParseFiles(output, error) ==
  LET lines == output \o error
      answers == {i \in DOMAIN lines : lines[i].kind = "answer"}
      errors == {i \in DOMAIN lines : lines[i].kind \notin {"answer", "garbled"}}
      ids(rows) == {lines[i].id : i \in rows}
      last(rows, id) == lines[Max({i \in rows : lines[i].id = id})]
  IN [malformed |-> \E i \in DOMAIN lines : lines[i].kind = "garbled",
      successful |-> [id \in ids(answers) |-> ResponseOf(last(answers, id))],
      failed |-> [id \in ids(errors) |-> ErrorOf(last(errors, id))]]

NewBatch(requests) ==
  [requests |-> requests, status |-> "in_progress", output |-> <<>>, error |-> <<>>]

HandleOf(b, batch) == [batch |-> b, requestCount |-> Len(batch.requests)]

\* submit refuses an empty batch before it uploads anything
Accepts(requests) == requests # <<>>

\* cancelling is best effort: a batch that has ended stays as it is
Cancelled(batch) ==
  IF batch.status \in PendingStatus THEN [batch EXCEPT !.status = "cancelling"]
  ELSE batch

\* a batch that failed, expired or was cancelled is read like one that completed
Ended(batch, files) ==
  [batch EXCEPT !.status = "completed", !.output = files.output, !.error = files.error]

\* a status the adapter does not know, which may appear while the batch is pending
Unheard(batch) == [batch EXCEPT !.status = "unknown"]
=============================================================================
