----------------------------- MODULE RunArchive -----------------------------
(***************************************************************************)
(* What the store promises a run (storage/protocol.py, ADR-0007): objects  *)
(* are immutable and appear whole, and a run's manifest appears only when  *)
(* every object it refers to is there.                                     *)
(***************************************************************************)
CONSTANTS
  Run,          \* execution attempts, each with its own run_id
  Object,       \* (kind, content_id) keys
  Refs(_)       \* the objects a run's manifest refers to

VARIABLES
  objects,      \* the keys get_object answers for
  manifests     \* the run_ids get_manifest answers for

vars == <<objects, manifests>>

Init == objects \in SUBSET Object /\ manifests = {}

\* put_object, of a new key
Store(o) ==
  /\ objects' = objects \cup {o}
  /\ UNCHANGED manifests

\* put_manifest
Publish(r) ==
  /\ Refs(r) \subseteq objects
  /\ manifests' = manifests \cup {r}
  /\ UNCHANGED objects

Next == \/ \E o \in Object : Store(o)
        \/ \E r \in Run : Publish(r)

Spec == Init /\ [][Next]_vars
=============================================================================
