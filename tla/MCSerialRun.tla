---------------------------- MODULE MCSerialRun ----------------------------
(***************************************************************************)
(* Small instances of SerialRun.  Candidates are strings; a candidate's    *)
(* field, line and verdicts are the constants below.                       *)
(***************************************************************************)
EXTENDS SerialRun

MCFieldOf == [c \in Cand |-> CASE c \in {"a1", "a2"} -> 1
                               [] c \in {"b1", "b2"} -> 2
                               [] OTHER -> 3]

MCLineOf == [c \in Cand |-> IF c \in {"a1", "b1", "c3"} THEN "L1" ELSE "L2"]

MCFieldCard == <<"one", "optional", "many">>

\* a1 with b1 fails and implicates both their fields; a1 with c2 fails and
\* implicates only the latter's; b1 with c2 fails in a model validator, which
\* names no field; b2 fails and implicates a name the spec does not declare
MCLayer3 ==
  [S \in SUBSET Cand |->
     IF {"a1", "b1"} \subseteq S THEN [fails |-> TRUE, implicates |-> {1, 2}]
     ELSE IF {"a1", "c2"} \subseteq S THEN [fails |-> TRUE, implicates |-> {3}]
     ELSE IF {"b1", "c2"} \subseteq S THEN [fails |-> TRUE, implicates |-> {}]
     ELSE IF "b2" \in S THEN [fails |-> TRUE, implicates |-> {0}]
     ELSE [fails |-> FALSE, implicates |-> {}]]

\* one scope: every strategy with its default repair, batch with it on as well
SoleSetups ==
  {s \in Setup : ~s.many /\ ~s.capture /\ s.storage /\ s.repair = "unset"}
    \cup {s \in Setup : /\ ~s.many /\ ~s.capture /\ s.storage
                        /\ s.repair = "on" /\ s.strategy = "batch"}

\* several instances: the policy that runs and those the gate refuses (a
\* repair that is off by choice is one that is off by default)
ManySetups == {s \in Setup : s.many /\ s.storage /\ s.repair # "off"}

MCSetups == SoleSetups \cup ManySetups
=============================================================================
