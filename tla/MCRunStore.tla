----------------------------- MODULE MCRunStore -----------------------------
(***************************************************************************)
(* Three attempts on two documents under one spec.  "r1" and "r2" extract  *)
(* the same document with the same outcome, so that all their objects are  *)
(* the same; "r3" shares only the spec.                                    *)
(***************************************************************************)
EXTENDS RunStore

MCSourceOf == [r \in Run |-> IF r = "r3" THEN "docB" ELSE "docA"]
MCSpecOf == [r \in Run |-> "spec"]
MCArtifactOf == [r \in Run |-> IF r = "r3" THEN "artB" ELSE "artA"]

NoObject == {}
\* all that an earlier attempt on each document left, but the spec summary
AllButSpec == {<<"source", "docA">>, <<"meta", "docA">>, <<"replay", "artA">>,
               <<"source", "docB">>, <<"meta", "docB">>, <<"replay", "artB">>}
=============================================================================
