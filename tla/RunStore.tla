------------------------------ MODULE RunStore ------------------------------
(***************************************************************************)
(* How runs persist themselves in a shared LocalFilesystemStore, one file  *)
(* operation at a time.                                                    *)
(*                                                                         *)
(*   execution/executor/serial.py   _persist_run                           *)
(*   storage/local.py               put_object, put_manifest, _atomic_write*)
(*                                                                         *)
(* A file is an inode with a directory entry: open("wb") truncates the     *)
(* inode its path names, or makes a new one, and os.replace moves a        *)
(* directory entry, not the contents.  Runs are execution attempts of      *)
(* processes that share the store's root; a process may die at any point   *)
(* and any write may fail.                                                 *)
(***************************************************************************)
CONSTANTS
  Run,            \* execution attempts; the run_id is the attempt
  SourceOf,       \* SourceRef.content_hash of the attempt's document
  SpecOf,         \* ExtractionSpec.version of the attempt
  ArtifactOf,     \* sha256 of the attempt's serialized ReplayArtifact
  Preloaded,      \* objects the store held before the first attempt
  Overlap,        \* whether attempts may persist at the same time
  NoFile          \* no such directory entry

Kind == {"source", "meta", "spec", "replay", "run"}

\* the content id of what an attempt writes under a kind; the contents are a
\* function of the path: an object's id is the hash of its bytes, and a
\* manifest's run_id is a fresh uuid4
ContentId(r, kind) ==
  IF kind = "run" THEN r
  ELSE IF kind = "replay" THEN ArtifactOf[r]
  ELSE IF kind = "spec" THEN SpecOf[r]
  ELSE SourceOf[r]

Target(r, kind) == <<kind, ContentId(r, kind)>>

Path == {Target(r, kind) : r \in Run, kind \in Kind} \cup Preloaded

\* an attempt opens a path at most once, so it names the inode it creates
Inode == (Run \X Path) \cup ({NoFile} \X Preloaded)

ASSUME PreloadedAssumption ==
  /\ \A p \in Preloaded : p[1] \in {"source", "meta", "spec", "replay"}
  /\ NoFile \notin Run \cup Inode

ASSUME OverlapAssumption == Overlap \in BOOLEAN

-----------------------------------------------------------------------------
VARIABLES
  entry,      \* path -> inode: the final name of every file
  tmp,        \* path -> inode: its "<path>.tmp" sibling
  whole,      \* the inodes that hold the bytes their path stands for
  at,         \* the kind an attempt is putting
  step,       \* where in that put it is
  handle      \* the inode it has open for writing

vars == <<entry, tmp, whole, at, step, handle>>

\* "collision" and "stray" are put_object's and os.replace's refusals, "failed"
\* an I/O error or a refused summary, "dead" the end of the process
Ended == {"idle", "done", "collision", "stray", "failed", "dead"}

Active(r) == step[r] \notin Ended

Exists(p) == entry[p] # NoFile

Readable(p) == Exists(p) /\ entry[p] \in whole

\* mutant: the manifest is written before the artifact it refers to
ManifestFirst(kind) ==
  IF kind = "source" THEN "meta"
  ELSE IF kind = "meta" THEN "spec"
  ELSE IF kind = "spec" THEN "run"
  ELSE "replay"

\* what _persist_run puts after a kind
After(kind) ==
  IF kind = "source" THEN "meta"
  ELSE IF kind = "meta" THEN "spec"
  ELSE IF kind = "spec" THEN "replay"
  ELSE "run"

\* the put of a kind returns; put_object looks before it writes, put_manifest
\* does not
GoOn(r, kind) ==
  IF kind = "run"
  THEN /\ step' = [step EXCEPT ![r] = "done"]
       /\ UNCHANGED at
  ELSE /\ at' = [at EXCEPT ![r] = After(kind)]
       /\ step' = [step EXCEPT ![r] =
                     IF After(kind) = "run" THEN "open" ELSE "look"]

StepTo(r, next) ==
  /\ step' = [step EXCEPT ![r] = next]
  /\ UNCHANGED at

-----------------------------------------------------------------------------
\* the extraction is over and _persist_run begins
Start(r) ==
  /\ step[r] = "idle"
  /\ Overlap \/ \A q \in Run : ~Active(q)
  /\ step' = [step EXCEPT ![r] = "look"]
  /\ UNCHANGED <<entry, tmp, whole, at, handle>>

\* path.exists(); a .meta.json that is there is left alone
Look(r) ==
  /\ step[r] = "look"
  /\ IF ~Exists(Target(r, at[r])) THEN StepTo(r, "open")
     ELSE IF at[r] = "meta" THEN GoOn(r, "meta")
     ELSE StepTo(r, "compare")
  /\ UNCHANGED <<entry, tmp, whole, handle>>

\* mutant: a put that finds its bytes there skips the next one
CompareSkips(r) ==
  /\ step[r] = "compare"
  /\ Readable(Target(r, at[r]))
  /\ GoOn(r, IF at[r] = "source" THEN "spec" ELSE at[r])
  /\ UNCHANGED <<entry, tmp, whole, handle>>

\* the bytes that are there are the attempt's: an idempotent put, which ends
\* the put of a source before its .meta.json
Compare(r) ==
  /\ step[r] = "compare"
  /\ Readable(Target(r, at[r]))
  /\ GoOn(r, IF at[r] = "source" THEN "meta" ELSE at[r])
  /\ UNCHANGED <<entry, tmp, whole, handle>>

\* mutant: whatever is there collides
CollideAlways(r) ==
  /\ step[r] = "compare"
  /\ StepTo(r, "collision")
  /\ UNCHANGED <<entry, tmp, whole, handle>>

\* "storage.collision"
Collide(r) ==
  /\ step[r] = "compare"
  /\ ~Readable(Target(r, at[r]))
  /\ StepTo(r, "collision")
  /\ UNCHANGED <<entry, tmp, whole, handle>>

\* summarize_spec refuses a binding whose params are not JSON-safe
SummaryRefused(r) ==
  /\ step[r] = "look"
  /\ at[r] = "spec"
  /\ StepTo(r, "failed")
  /\ UNCHANGED <<entry, tmp, whole, handle>>

\* mutant: the final path itself is opened for writing
OpenInPlace(r) ==
  LET p == Target(r, at[r])
      i == IF Exists(p) THEN entry[p] ELSE <<r, p>>
  IN  /\ step[r] = "open"
      /\ entry' = [entry EXCEPT ![p] = i]
      /\ tmp' = [tmp EXCEPT ![p] = i]
      /\ whole' = whole \ {i}
      /\ handle' = [handle EXCEPT ![r] = i]
      /\ StepTo(r, "write")

\* tmp_path.open("wb"): an entry left by a dead or failed put is reused
Open(r) ==
  LET p == Target(r, at[r])
      i == IF tmp[p] # NoFile THEN tmp[p] ELSE <<r, p>>
  IN  /\ step[r] = "open"
      /\ tmp' = [tmp EXCEPT ![p] = i]
      /\ whole' = whole \ {i}
      /\ handle' = [handle EXCEPT ![r] = i]
      /\ StepTo(r, "write")
      /\ UNCHANGED entry

\* mutant: the bytes never leave the buffer
WriteUnflushed(r) ==
  /\ step[r] = "write"
  /\ StepTo(r, "replace")
  /\ UNCHANGED <<entry, tmp, whole, handle>>

\* write, flush and fsync
Write(r) ==
  /\ step[r] = "write"
  /\ whole' = whole \cup {handle[r]}
  /\ StepTo(r, "replace")
  /\ UNCHANGED <<entry, tmp, handle>>

\* "storage.write_failed", also of a read: the tmp file stays as it is
IOFails(r) ==
  /\ step[r] \in {"compare", "open", "write"}
  /\ StepTo(r, "failed")
  /\ UNCHANGED <<entry, tmp, whole, handle>>

\* os.replace(tmp_path, path)
Replace(r) ==
  LET p == Target(r, at[r])
  IN  /\ step[r] = "replace"
      /\ tmp[p] # NoFile
      /\ entry' = [entry EXCEPT ![p] = tmp[p]]
      /\ tmp' = [tmp EXCEPT ![p] = NoFile]
      /\ GoOn(r, at[r])
      /\ UNCHANGED <<whole, handle>>

\* "storage.atomic_violation" because another attempt took the tmp file away
ReplaceStray(r) ==
  /\ step[r] = "replace"
  /\ tmp[Target(r, at[r])] = NoFile
  /\ StepTo(r, "stray")
  /\ UNCHANGED <<entry, tmp, whole, handle>>

\* mutant: cleaning up takes the final file along
ReplaceFailsWide(r) ==
  /\ step[r] = "replace"
  /\ tmp' = [tmp EXCEPT ![Target(r, at[r])] = NoFile]
  /\ entry' = [entry EXCEPT ![Target(r, at[r])] = NoFile]
  /\ StepTo(r, "failed")
  /\ UNCHANGED <<whole, handle>>

\* "storage.atomic_violation" for any other reason: the tmp file is unlinked
ReplaceFails(r) ==
  /\ step[r] = "replace"
  /\ tmp' = [tmp EXCEPT ![Target(r, at[r])] = NoFile]
  /\ StepTo(r, "failed")
  /\ UNCHANGED <<entry, whole, handle>>

\* the process dies; its files stay as they are
Die(r) ==
  /\ Active(r)
  /\ StepTo(r, "dead")
  /\ UNCHANGED <<entry, tmp, whole, handle>>

AllEnded ==
  /\ \A r \in Run : step[r] \in Ended \ {"idle"}
  /\ UNCHANGED vars

-----------------------------------------------------------------------------
Init ==
  /\ entry = [p \in Path |-> IF p \in Preloaded THEN <<NoFile, p>> ELSE NoFile]
  /\ tmp = [p \in Path |-> NoFile]
  /\ whole = {NoFile} \X Preloaded
  /\ at = [r \in Run |-> "source"]
  /\ step = [r \in Run |-> "idle"]
  /\ handle = [r \in Run |-> NoFile]

\* what an attempt does of its own accord
Persist(r) == \/ Look(r) \/ Compare(r) \/ Collide(r)
              \/ Open(r) \/ Write(r) \/ Replace(r) \/ ReplaceStray(r)

Fault(r) == SummaryRefused(r) \/ IOFails(r) \/ ReplaceFails(r) \/ Die(r)

Next == (\E r \in Run : Start(r) \/ Persist(r) \/ Fault(r)) \/ AllEnded

Spec == Init /\ [][Next]_vars

-----------------------------------------------------------------------------
(* Properties                                                              *)

\* The type of every variable.
TypeOK ==
  /\ entry \in [Path -> Inode \cup {NoFile}]
  /\ tmp \in [Path -> Inode \cup {NoFile}]
  /\ whole \subseteq Inode
  /\ at \in [Run -> Kind]
  /\ step \in [Run -> Ended \cup {"look", "compare", "open", "write",
                                  "replace"}]
  /\ handle \in [Run -> Inode \cup {NoFile}]

\* _atomic_write: whoever looks at a final path sees all its bytes or no file,
\* wherever a put was interrupted.
VisibleIsWhole == \A p \in Path : Exists(p) => entry[p] \in whole

Refs(r) == {Target(r, kind) : kind \in {"source", "spec", "replay"}}

\* _persist_run: a manifest that can be read leads to its source, its spec
\* summary and its replay artifact.
ManifestResolves ==
  \A r \in Run : Exists(Target(r, "run")) => \A p \in Refs(r) : Readable(p)

\* put_object: putting again what an earlier attempt put, completed or not, is
\* never refused.
PutsAreIdempotent == \A r \in Run : step[r] \notin {"collision", "stray"}

\* Attempts that overlap tear each other's shared files, but only for a while:
\* when all have ended and none died or failed, every file is whole.
TearsHeal ==
  (\A r \in Run : step[r] \in {"idle", "done", "collision", "stray"}) =>
    VisibleIsWhole

\* r is about to be refused at p: the file it compares is one that another
\* attempt is rewriting, or broke off rewriting; the tmp file it misses became
\* the file, or was unlinked by a replace that failed
TornByOther(r, p) ==
  \E q \in Run \ {r} : /\ handle[q] = entry[p]
                        /\ step[q] \in {"write", "failed", "dead"}

TakenByOther(r, p) ==
  Exists(p) \/ \E q \in Run \ {r} : step[q] = "failed" /\ Target(q, at[q]) = p

\* put_object and os.replace, between whose looks and writes others come: a put
\* is refused only for what another attempt did to the very same file.
RefusedByOverlap ==
  [][\A r \in Run :
       LET p == Target(r, at[r])
       IN  /\ step[r] = "compare" /\ step'[r] = "collision"
                => TornByOther(r, p)
           /\ step[r] = "replace" /\ step'[r] = "stray"
                => TakenByOther(r, p)]_vars

\* No file of the store is ever taken away.
NothingIsDeleted ==
  [][\A p \in Path : Exists(p) => Exists(p)']_vars

\* The files, read as the objects and manifests they stand for, keep what the
\* store promises.
Archive ==
  INSTANCE RunArchive
    WITH Object    <- {p \in Path : p[1] \in {"source", "spec", "replay"}},
         objects   <- {p \in Path : /\ p[1] \in {"source", "spec", "replay"}
                                    /\ Readable(p)},
         manifests <- {r \in Run : Readable(Target(r, "run"))}

ImplementsArchive == Archive!Spec
=============================================================================
