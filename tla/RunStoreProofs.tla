--------------------------- MODULE RunStoreProofs ---------------------------
(***************************************************************************)
(* What holds of RunStore for every set of attempts and every sharing of   *)
(* objects among them, whatever fails and whoever dies: first as long as   *)
(* no two attempts persist at the same time, then however they overlap.    *)
(***************************************************************************)
EXTENDS RunStore, TLAPS

Writing == {"open", "write", "replace"}

\* at most one attempt is between its first and its last step
Alone == \A r, q \in Run : Active(r) /\ Active(q) => r = q

\* an inode belongs to the path it was made for
OwnInodes ==
  \A p \in Path : /\ Exists(p) => entry[p][2] = p
                  /\ tmp[p] # NoFile => tmp[p][2] = p

\* who writes writes what is not there yet, into the tmp file it opened
WritesNew ==
  \A r \in Run :
    /\ step[r] \in Writing => ~Exists(Target(r, at[r]))
    /\ step[r] \in {"write", "replace"} =>
         tmp[Target(r, at[r])] = handle[r] /\ handle[r] \in Inode
    /\ step[r] = "replace" => handle[r] \in whole
    /\ step[r] # "done" => ~Exists(Target(r, "run"))
    /\ at[r] = "run" => step[r] \notin {"look", "compare"}
    /\ step[r] = "compare" => Exists(Target(r, at[r]))

\* what an attempt has put before the kind it is at
PutSoFar ==
  \A r \in Run :
    /\ step[r] = "idle" => at[r] = "source"
    /\ at[r] # "source" => Exists(Target(r, "source"))
    /\ at[r] \in {"replay", "run"} => Exists(Target(r, "spec"))
    /\ at[r] = "run" => Exists(Target(r, "replay"))

ManifestLast ==
  \A r \in Run : Exists(Target(r, "run")) => \A p \in Refs(r) : Exists(p)

StoreInv ==
  /\ TypeOK
  /\ Alone
  /\ VisibleIsWhole
  /\ OwnInodes
  /\ WritesNew
  /\ PutSoFar
  /\ ManifestLast
  /\ PutsAreIdempotent

-----------------------------------------------------------------------------
(* Paths and inodes                                                        *)

LEMMA TargetPath ==
  ASSUME NEW r \in Run, NEW kind \in Kind
  PROVE  /\ Target(r, kind) \in Path
         /\ Target(r, kind)[1] = kind
         /\ <<r, Target(r, kind)>> \in Inode
         /\ <<r, Target(r, kind)>>[2] = Target(r, kind)
<1>1. Target(r, kind) \in Path
  BY DEF Path
<1>2. QED
  BY <1>1 DEF Target, Inode

\* Only the attempt itself writes its manifest.
LEMMA ManifestIsOwn ==
  ASSUME NEW r \in Run, NEW q \in Run, NEW kind \in Kind,
         Target(r, kind) = Target(q, "run")
  PROVE  r = q /\ kind = "run"
BY DEF Target, ContentId, Kind

LEMMA KindFacts ==
  /\ "source" \in Kind /\ "meta" \in Kind /\ "spec" \in Kind
  /\ "replay" \in Kind /\ "run" \in Kind
  /\ \A kind \in Kind : After(kind) \in Kind /\ After(kind) # "source"
BY DEF Kind, After

LEMMA RefsArePaths ==
  ASSUME NEW r \in Run
  PROVE  \A p \in Refs(r) : p \in Path /\ p[1] \in {"source", "spec", "replay"}
<1>1. ASSUME NEW kind \in {"source", "spec", "replay"}
      PROVE  Target(r, kind) \in Path /\ Target(r, kind)[1] = kind
  BY TargetPath DEF Kind
<1>2. QED
  BY <1>1 DEF Refs

LEMMA NoFileFresh == NoFile \notin Inode /\ NoFile \notin Run
BY PreloadedAssumption

LEMMA InitStore == Init => StoreInv
<1> SUFFICES ASSUME Init PROVE StoreInv
  OBVIOUS
<1>1. \A p \in Path : entry[p] = IF p \in Preloaded THEN <<NoFile, p>>
                                                   ELSE NoFile
  BY DEF Init
<1>2. \A p \in Preloaded : /\ <<NoFile, p>> \in Inode
                           /\ <<NoFile, p>>[2] = p
                           /\ p[1] # "run"
  BY PreloadedAssumption DEF Inode
<1>3. TypeOK
  BY <1>1, <1>2 DEF Init, TypeOK, Kind, Ended, Inode
<1>4. \A r \in Run : ~Exists(Target(r, "run"))
  BY <1>1, <1>2, TargetPath, KindFacts DEF Exists
<1>5. VisibleIsWhole /\ OwnInodes
  BY <1>1, <1>2 DEF Init, VisibleIsWhole, OwnInodes, Exists
<1>6. /\ Alone /\ WritesNew /\ PutSoFar /\ ManifestLast
      /\ PutsAreIdempotent
  BY <1>4 DEF Init, Alone, Active, Ended, WritesNew, Writing, PutSoFar,
              ManifestLast, PutsAreIdempotent
<1>7. QED
  BY <1>3, <1>5, <1>6 DEF StoreInv

-----------------------------------------------------------------------------
(* Steps that leave the files alone                                        *)

Steps == Ended \cup {"look", "compare", "open", "write", "replace"}

\* While r persists nobody else does.
LEMMA OthersEnded ==
  ASSUME StoreInv, NEW r \in Run, Active(r)
  PROVE  \A q \in Run \ {r} : step[q] \in Ended
BY DEF StoreInv, Alone, Active

\* An attempt that only stops, or goes on to compare, disturbs nothing.
LEMMA StepToStore ==
  ASSUME StoreInv, NEW r \in Run, Active(r),
         NEW next \in {"compare", "failed", "dead"},
         next = "compare" => step[r] = "look" /\ Exists(Target(r, at[r])),
         StepTo(r, next), UNCHANGED <<entry, whole, handle>>,
         \/ UNCHANGED tmp
         \/ tmp' = [tmp EXCEPT ![Target(r, at[r])] = NoFile]
  PROVE  StoreInv'
<1>0. \A q \in Run \ {r} : step[q] \in Ended
  BY OthersEnded
<1> USE DEF StoreInv
<1>1. /\ step' \in [Run -> Steps] /\ step'[r] = next
      /\ \A q \in Run \ {r} : step'[q] = step[q] /\ step[q] \in Ended
      /\ UNCHANGED at
  <2>1. next \in Steps
    BY DEF Steps, Ended
  <2>2. step' = [step EXCEPT ![r] = next] /\ UNCHANGED at
    BY DEF StepTo
  <2>3. QED
    BY <1>0, <2>1, <2>2 DEF TypeOK, Steps
<1>2. TypeOK'
  BY <1>1 DEF TypeOK, Steps
<1>3. Alone' /\ PutsAreIdempotent'
  BY <1>1 DEF Alone, Active, PutsAreIdempotent
<1>4. ASSUME NEW p \in Path, tmp'[p] # NoFile
      PROVE  tmp'[p] = tmp[p]
  <2>1. tmp \in [Path -> Inode \cup {NoFile}]
    BY DEF TypeOK
  <2>2. CASE tmp' = [tmp EXCEPT ![Target(r, at[r])] = NoFile]
    BY <1>4, <2>1, <2>2
  <2>3. CASE UNCHANGED tmp
    BY <2>3
  <2>4. QED
    BY <2>2, <2>3
<1>5. VisibleIsWhole' /\ OwnInodes' /\ ManifestLast'
  BY <1>4 DEF VisibleIsWhole, OwnInodes, ManifestLast, Exists, Refs
<1>6. WritesNew'
  BY <1>1 DEF WritesNew, Writing, Exists, Ended, Active
<1>7. PutSoFar'
  BY <1>1 DEF PutSoFar, Exists, Active, Ended
<1>8. QED
  BY <1>2, <1>3, <1>5, <1>6, <1>7

\* A put that is over lets the attempt go on to the next kind.
LEMMA GoOnStore ==
  ASSUME StoreInv, NEW r \in Run, step[r] \in {"look", "compare"},
         NEW kind \in Kind \ {"run"},
         \/ kind = at[r]
         \/ at[r] = "source" /\ kind = "meta",
         Exists(Target(r, at[r])),
         GoOn(r, kind), UNCHANGED <<entry, tmp, whole, handle>>
  PROVE  StoreInv'
<1> USE DEF StoreInv
<1>1. /\ at' = [at EXCEPT ![r] = After(kind)]
      /\ step' = [step EXCEPT ![r] = IF After(kind) = "run" THEN "open"
                                                            ELSE "look"]
  BY DEF GoOn
<1>2. Active(r)
  BY DEF Active, Ended
<1>3. /\ at'[r] = After(kind)
      /\ step'[r] = IF After(kind) = "run" THEN "open" ELSE "look"
      /\ \A q \in Run \ {r} : /\ step'[q] = step[q] /\ at'[q] = at[q]
                              /\ step[q] \in Ended
  BY <1>1, <1>2, OthersEnded DEF TypeOK
<1>4. TypeOK'
  BY <1>1, KindFacts DEF TypeOK, Steps
<1>5. Alone' /\ PutsAreIdempotent'
  BY <1>3 DEF Alone, Active, PutsAreIdempotent
<1>6. VisibleIsWhole' /\ OwnInodes' /\ ManifestLast'
  BY DEF VisibleIsWhole, OwnInodes, ManifestLast, Exists, Refs
<1>7. WritesNew'
  BY <1>3 DEF WritesNew, Writing, Exists, Ended
<1>8. PutSoFar'
  BY <1>3 DEF PutSoFar, Exists, After, Kind, Ended
<1>9. QED
  BY <1>4, <1>5, <1>6, <1>7, <1>8

-----------------------------------------------------------------------------
(* Steps that change the files                                             *)

\* What r's step changes: its own step, to one that is not "idle" or "done",
\* and nobody else's.
LEMMA OwnStep ==
  ASSUME StoreInv, NEW r \in Run, NEW next \in Steps, StepTo(r, next)
  PROVE  /\ step' \in [Run -> Steps] /\ step'[r] = next
         /\ \A q \in Run \ {r} : step'[q] = step[q]
         /\ at' = at
BY DEF StoreInv, TypeOK, StepTo, Steps

LEMMA StartStore ==
  ASSUME ~Overlap, StoreInv, NEW r \in Run, Start(r)
  PROVE  StoreInv'
<1>1. /\ step' \in [Run -> Steps] /\ step'[r] = "look" /\ step[r] = "idle"
      /\ \A q \in Run \ {r} : step'[q] = step[q]
      /\ \A q \in Run : step[q] \in Ended
      /\ UNCHANGED <<entry, tmp, whole, at, handle>>
  BY DEF Start, StoreInv, TypeOK, Steps, Active
<1> USE DEF StoreInv
<1>2. TypeOK' /\ Alone' /\ PutsAreIdempotent'
  BY <1>1 DEF TypeOK, Steps, Alone, Active, PutsAreIdempotent
<1>3. VisibleIsWhole' /\ OwnInodes' /\ ManifestLast'
  BY <1>1 DEF VisibleIsWhole, OwnInodes, ManifestLast, Exists, Refs
<1>4. WritesNew' /\ PutSoFar'
  BY <1>1 DEF WritesNew, PutSoFar, Writing, Exists, Ended
<1>5. QED
  BY <1>2, <1>3, <1>4

LEMMA LookStore ==
  ASSUME StoreInv, NEW r \in Run, Look(r)
  PROVE  StoreInv'
<1>1. Active(r) /\ at[r] # "run" /\ at[r] \in Kind
  BY DEF Look, Active, Ended, StoreInv, WritesNew, TypeOK
<1>2. CASE Exists(Target(r, at[r])) /\ at[r] = "meta"
  BY <1>1, <1>2, GoOnStore DEF Look
<1>3. CASE Exists(Target(r, at[r])) /\ at[r] # "meta"
  BY <1>1, <1>3, StepToStore DEF Look
<1>4. CASE ~Exists(Target(r, at[r]))
  <2>1. StepTo(r, "open") /\ UNCHANGED <<entry, tmp, whole, handle>>
    BY <1>4 DEF Look
  <2>2. /\ step' \in [Run -> Steps] /\ step'[r] = "open" /\ step[r] = "look"
        /\ \A q \in Run \ {r} : step'[q] = step[q] /\ step[q] \in Ended
        /\ at' = at
    BY <1>1, <2>1, OwnStep, OthersEnded DEF Steps, Look
  <2> USE DEF StoreInv
  <2>3. TypeOK' /\ Alone' /\ PutsAreIdempotent'
    BY <2>1, <2>2 DEF TypeOK, Steps, Alone, Active, PutsAreIdempotent
  <2>4. VisibleIsWhole' /\ OwnInodes' /\ ManifestLast'
    BY <2>1 DEF VisibleIsWhole, OwnInodes, ManifestLast, Exists, Refs
  <2>5. WritesNew' /\ PutSoFar'
    BY <1>1, <1>4, <2>1, <2>2 DEF WritesNew, PutSoFar, Writing, Exists, Ended
  <2>6. QED
    BY <2>3, <2>4, <2>5
<1>5. QED
  BY <1>2, <1>3, <1>4

\* The inode that is truncated is named by no final path.
LEMMA OpenStore ==
  ASSUME StoreInv, NEW r \in Run, Open(r)
  PROVE  StoreInv'
<1> DEFINE p == Target(r, at[r])
           i == IF tmp[p] # NoFile THEN tmp[p] ELSE <<r, p>>
<1>1. /\ step[r] = "open" /\ Active(r) /\ at[r] \in Kind
      /\ tmp' = [tmp EXCEPT ![p] = i]
      /\ whole' = whole \ {i}
      /\ handle' = [handle EXCEPT ![r] = i]
      /\ StepTo(r, "write") /\ UNCHANGED entry
  BY DEF Open, Active, Ended, StoreInv, TypeOK
<1>2. p \in Path /\ <<r, p>> \in Inode /\ <<r, p>>[2] = p
  BY <1>1, TargetPath
<1>3. i \in Inode /\ i[2] = p /\ ~Exists(p)
  BY <1>1, <1>2 DEF StoreInv, TypeOK, OwnInodes, WritesNew, Writing
<1> HIDE DEF p, i
<1>4. \A q \in Path : Exists(q) => entry[q] # i
  BY <1>3 DEF StoreInv, OwnInodes
<1>5. /\ step' \in [Run -> Steps] /\ step'[r] = "write"
      /\ \A q \in Run \ {r} : step'[q] = step[q] /\ step[q] \in Ended
      /\ at' = at
  BY <1>1, OwnStep, OthersEnded DEF Steps
<1>6. /\ tmp' \in [Path -> Inode \cup {NoFile}] /\ tmp'[p] = i
      /\ \A q \in Path \ {p} : tmp'[q] = tmp[q]
      /\ handle' \in [Run -> Inode \cup {NoFile}] /\ handle'[r] = i
  BY <1>1, <1>2, <1>3 DEF StoreInv, TypeOK
<1> USE DEF StoreInv
<1>7. TypeOK' /\ Alone' /\ PutsAreIdempotent'
  BY <1>1, <1>5, <1>6 DEF TypeOK, Steps, Alone, Active, PutsAreIdempotent
<1>8. VisibleIsWhole' /\ OwnInodes' /\ ManifestLast'
  BY <1>1, <1>3, <1>4, <1>6 DEF VisibleIsWhole, OwnInodes, ManifestLast,
     Exists, Refs
<1>9. p = Target(r, at[r]) /\ i # NoFile
  BY <1>3, NoFileFresh DEF p
<1>10. WritesNew'
  BY <1>1, <1>3, <1>5, <1>6, <1>9 DEF WritesNew, Writing, Exists, Ended
<1>11. PutSoFar'
  BY <1>1, <1>5 DEF PutSoFar, Exists, Ended
<1>12. QED
  BY <1>7, <1>8, <1>10, <1>11

LEMMA WriteStore ==
  ASSUME StoreInv, NEW r \in Run, Write(r)
  PROVE  StoreInv'
<1>1. /\ step[r] = "write" /\ Active(r) /\ handle[r] \in Inode
      /\ whole' = whole \cup {handle[r]}
      /\ StepTo(r, "replace") /\ UNCHANGED <<entry, tmp, handle>>
  BY DEF Write, Active, Ended, StoreInv, WritesNew
<1>2. /\ step' \in [Run -> Steps] /\ step'[r] = "replace"
      /\ \A q \in Run \ {r} : step'[q] = step[q] /\ step[q] \in Ended
      /\ at' = at
  BY <1>1, OwnStep, OthersEnded DEF Steps
<1> USE DEF StoreInv
<1>3. TypeOK' /\ Alone' /\ PutsAreIdempotent'
  BY <1>1, <1>2 DEF TypeOK, Steps, Alone, Active, PutsAreIdempotent
<1>4. VisibleIsWhole' /\ OwnInodes' /\ ManifestLast'
  BY <1>1 DEF VisibleIsWhole, OwnInodes, ManifestLast, Exists, Refs
<1>5. WritesNew' /\ PutSoFar'
  BY <1>1, <1>2 DEF WritesNew, PutSoFar, Writing, Exists, Ended
<1>6. QED
  BY <1>3, <1>4, <1>5

\* What os.replace does when r writes what is not there yet.
LEMMA ReplaceFiles ==
  ASSUME StoreInv, NEW r \in Run, Replace(r), NEW p, p = Target(r, at[r])
  PROVE  /\ p \in Path /\ ~Exists(p)
         /\ entry' \in [Path -> Inode \cup {NoFile}]
         /\ tmp' \in [Path -> Inode \cup {NoFile}]
         /\ entry'[p] \in whole /\ entry'[p] # NoFile /\ entry'[p][2] = p
         /\ tmp'[p] = NoFile
         /\ \A q \in Path \ {p} : entry'[q] = entry[q] /\ tmp'[q] = tmp[q]
         /\ UNCHANGED <<whole, handle>>
<1>1. /\ step[r] = "replace" /\ tmp[p] # NoFile /\ at[r] \in Kind
      /\ entry' = [entry EXCEPT ![p] = tmp[p]]
      /\ tmp' = [tmp EXCEPT ![p] = NoFile]
      /\ UNCHANGED <<whole, handle>>
  BY DEF Replace, StoreInv, TypeOK
<1>2. p \in Path
  BY <1>1, TargetPath
<1>3. /\ ~Exists(p) /\ tmp[p] \in whole /\ tmp[p] \in Inode
      /\ tmp[p][2] = p
  BY <1>1, <1>2 DEF StoreInv, WritesNew, Writing, OwnInodes
<1>4. /\ entry' \in [Path -> Inode \cup {NoFile}]
      /\ tmp' \in [Path -> Inode \cup {NoFile}]
      /\ entry'[p] = tmp[p]
      /\ tmp'[p] = NoFile
      /\ \A q \in Path \ {p} : entry'[q] = entry[q] /\ tmp'[q] = tmp[q]
  BY <1>1, <1>2, <1>3 DEF StoreInv, TypeOK
<1>5. QED
  BY <1>1, <1>2, <1>3, <1>4

LEMMA ReplaceStore ==
  ASSUME StoreInv, NEW r \in Run, Replace(r)
  PROVE  StoreInv'
<1>0. PICK p : p = Target(r, at[r])
  OBVIOUS
<1>1. /\ step[r] = "replace" /\ Active(r) /\ at[r] \in Kind
      /\ GoOn(r, at[r])
  BY DEF Replace, Active, Ended, StoreInv, TypeOK
<1>2. /\ p \in Path /\ ~Exists(p)
      /\ entry' \in [Path -> Inode \cup {NoFile}]
      /\ tmp' \in [Path -> Inode \cup {NoFile}]
      /\ entry'[p] \in whole /\ entry'[p] # NoFile /\ entry'[p][2] = p
      /\ tmp'[p] = NoFile
      /\ \A q \in Path \ {p} : entry'[q] = entry[q] /\ tmp'[q] = tmp[q]
      /\ UNCHANGED <<whole, handle>>
  BY <1>0, ReplaceFiles
<1>3. /\ \A q \in Run \ {r} : /\ step'[q] = step[q] /\ at'[q] = at[q]
                              /\ step[q] \in Ended
      /\ at[r] = "run" => step'[r] = "done" /\ at'[r] = "run"
      /\ at[r] # "run" =>
           /\ at'[r] = After(at[r])
           /\ step'[r] = IF After(at[r]) = "run" THEN "open" ELSE "look"
      /\ at' \in [Run -> Kind] /\ step' \in [Run -> Steps]
  BY <1>1, OthersEnded, KindFacts DEF GoOn, StoreInv, TypeOK, Steps, Ended
<1>4. \A q \in Path : Exists(q)' <=> Exists(q) \/ q = p
  BY <1>2 DEF Exists
<1>5. \A q \in Run, kind \in Kind : Target(q, kind) \in Path
  BY TargetPath
<1>6. \A q \in Run : Target(q, "run") = p => q = r /\ at[r] = "run"
  BY <1>0, <1>1, ManifestIsOwn
<1> USE DEF StoreInv
<1>8. TypeOK' /\ Alone' /\ PutsAreIdempotent'
  BY <1>2, <1>3 DEF TypeOK, Steps, Alone, Active, PutsAreIdempotent
<1>9. VisibleIsWhole' /\ OwnInodes'
  BY <1>2, <1>4 DEF VisibleIsWhole, OwnInodes, Exists, Readable
<1>10. PutSoFar'
  BY <1>0, <1>1, <1>3, <1>4, <1>5, KindFacts DEF PutSoFar, After, Kind, Ended
<1>11. WritesNew'
  <2>1. \A q \in Run : step'[q] # "done" => ~Exists(Target(q, "run"))'
    BY <1>1, <1>3, <1>4, <1>5, <1>6, KindFacts DEF WritesNew, Ended
  <2>2. \A q \in Run : /\ at'[q] = "run" => step'[q] # "look"
                       /\ step'[q] # "compare"
    BY <1>3 DEF Ended
  <2>3. \A q \in Run : step'[q] \in Writing => q = r /\ step'[r] = "open"
                                                     /\ at'[r] = "run"
    BY <1>3 DEF Writing, Ended
  <2>4. QED
    BY <2>1, <2>2, <2>3 DEF WritesNew, Writing
<1>12. ManifestLast'
  <2>1. \A q \in Run : \A x \in Refs(q) : x \in Path
    BY RefsArePaths
  <2>2. SUFFICES ASSUME NEW q \in Run, Exists(Target(q, "run"))',
                        NEW x \in Refs(q)
                 PROVE  Exists(x)'
    BY DEF ManifestLast, Refs
  <2>3. CASE Exists(Target(q, "run"))
    BY <1>4, <2>1, <2>3 DEF ManifestLast
  <2>4. CASE ~Exists(Target(q, "run"))
    <3>1. q = r /\ at[r] = "run"
      BY <1>4, <1>5, <1>6, <2>2, <2>4, KindFacts
    <3>2. Exists(x)
      BY <3>1 DEF PutSoFar, Refs
    <3>3. QED
      BY <1>4, <2>1, <3>2
  <2>5. QED
    BY <2>3, <2>4
<1>13. QED
  BY <1>8, <1>9, <1>10, <1>11, <1>12

LEMMA StoreStep == ~Overlap /\ StoreInv /\ [Next]_vars => StoreInv'
<1> SUFFICES ASSUME ~Overlap, StoreInv, [Next]_vars PROVE StoreInv'
  OBVIOUS
<1>1. CASE AllEnded \/ UNCHANGED vars
  BY <1>1 DEF AllEnded, vars, StoreInv, TypeOK, Alone, Active,
     VisibleIsWhole, OwnInodes, WritesNew, PutSoFar, ManifestLast, Exists,
     Refs, PutsAreIdempotent
<1>2. ASSUME NEW r \in Run, Start(r) \/ Persist(r) \/ Fault(r)
      PROVE  StoreInv'
  <2>1. CASE Start(r)
    BY <2>1, StartStore
  <2>2. CASE Look(r)
    BY <2>2, LookStore
  <2>3. CASE Compare(r)
    <3>1. /\ step[r] = "compare" /\ Exists(Target(r, at[r]))
          /\ at[r] \in Kind \ {"run"}
      BY <2>3 DEF Compare, Readable, StoreInv, TypeOK, WritesNew
    <3>2. QED
      BY <2>3, <3>1, GoOnStore, KindFacts DEF Compare
  <2>4. CASE SummaryRefused(r) \/ IOFails(r) \/ Die(r) \/ ReplaceFails(r)
    <3>1. Active(r)
      BY <2>4 DEF SummaryRefused, IOFails, Die, ReplaceFails, Active, Ended
    <3>2. QED
      BY <2>4, <3>1, StepToStore DEF SummaryRefused, IOFails, Die,
         ReplaceFails
  <2>9. ~Collide(r) /\ ~ReplaceStray(r)
    BY TargetPath, NoFileFresh DEF Collide, ReplaceStray, Readable, StoreInv,
       WritesNew, VisibleIsWhole, TypeOK
  <2>5. CASE Open(r)
    BY <2>5, OpenStore
  <2>6. CASE Write(r)
    BY <2>6, WriteStore
  <2>7. CASE Replace(r)
    BY <2>7, ReplaceStore
  <2>8. QED
    BY <1>2, <2>1, <2>2, <2>3, <2>4, <2>5, <2>6, <2>7, <2>9 DEF Persist, Fault
<1>3. QED
  BY <1>1, <1>2 DEF Next

-----------------------------------------------------------------------------
(* The results                                                             *)

\* The invariant holds of every behaviour in which attempts do not overlap.
LEMMA StoreInvariant == ASSUME ~Overlap PROVE Spec => []StoreInv
<1>1. ~Overlap
  OBVIOUS
<1>2. QED
  BY <1>1, InitStore, StoreStep, PTL DEF Spec

\* No interruption of a put, of whatever kind, leaves a torn file behind.
THEOREM FilesAreWhole == ASSUME ~Overlap PROVE Spec => []VisibleIsWhole
<1>1. StoreInv => VisibleIsWhole
  BY DEF StoreInv
<1>2. QED
  BY <1>1, StoreInvariant, PTL

\* Whatever earlier attempts put, completed or interrupted, and whatever is
\* shared with them, a put never collides and never misses its tmp file.
THEOREM PutsAreNeverRefused == ASSUME ~Overlap PROVE Spec => []PutsAreIdempotent
<1>1. StoreInv => PutsAreIdempotent
  BY DEF StoreInv
<1>2. QED
  BY <1>1, StoreInvariant, PTL

\* A manifest that can be found leads to whole objects.
THEOREM ManifestsResolve == ASSUME ~Overlap PROVE Spec => []ManifestResolves
<1>1. StoreInv => ManifestResolves
  BY RefsArePaths DEF StoreInv, ManifestLast, VisibleIsWhole,
     ManifestResolves, Readable
<1>2. QED
  BY <1>1, StoreInvariant, PTL

-----------------------------------------------------------------------------
(* The files implement the archive                                         *)

\* Nothing but os.replace changes a final path.
LEMMA OnlyReplaceShows ==
  ASSUME [Next]_vars, \A r \in Run : ~Replace(r)
  PROVE  UNCHANGED entry
BY DEF Next, vars, Start, Persist, Fault, Look, Compare, Collide, Open, Write,
   ReplaceStray, SummaryRefused, IOFails, ReplaceFails, Die, AllEnded

\* With no torn file to be seen, to be there is to be readable.
LEMMA ReadableExists ==
  ASSUME StoreInv
  PROVE  /\ \A p \in Path : Readable(p) <=> Exists(p)
         /\ \A r \in Run : /\ Target(r, "run") \in Path
                           /\ Readable(Target(r, "run")) <=>
                                Exists(Target(r, "run"))
BY TargetPath, KindFacts DEF StoreInv, VisibleIsWhole, Readable

LEMMA ArchiveInit == Init => Archive!Init
<1> SUFFICES ASSUME Init PROVE Archive!Init
  OBVIOUS
<1>1. StoreInv
  BY InitStore
<1>2. \A r \in Run : ~Readable(Target(r, "run"))
  BY <1>1, ReadableExists DEF Init, StoreInv, WritesNew
<1>3. QED
  BY <1>2 DEF Archive!Init

LEMMA ArchiveStep ==
  ASSUME ~Overlap, StoreInv, [Next]_vars
  PROVE  [Archive!Next]_(Archive!vars)
<1> DEFINE Shown == {p \in Path : /\ p[1] \in {"source", "spec", "replay"}
                                 /\ Exists(p)}
           Listed == {r \in Run : Exists(Target(r, "run"))}
<1>1. StoreInv'
  BY StoreStep
<1>2. /\ {p \in Path : /\ p[1] \in {"source", "spec", "replay"}
                       /\ Readable(p)} = Shown
      /\ {r \in Run : Readable(Target(r, "run"))} = Listed
  BY ReadableExists
<1>3. /\ {p \in Path : /\ p[1] \in {"source", "spec", "replay"}
                       /\ Readable(p)}' = Shown'
      /\ {r \in Run : Readable(Target(r, "run"))}' = Listed'
  <2>1. /\ \A p \in Path : Readable(p)' <=> Exists(p)'
        /\ \A r \in Run : Readable(Target(r, "run"))' <=>
                           Exists(Target(r, "run"))'
    BY <1>1, TargetPath, KindFacts
       DEF StoreInv, VisibleIsWhole, Readable, Exists
  <2>2. QED
    BY <2>1
<1>4. CASE \A r \in Run : ~Replace(r)
  <2>1. Shown' = Shown /\ Listed' = Listed
    BY <1>4, OnlyReplaceShows DEF Exists
  <2>2. QED
    BY <1>2, <1>3, <2>1 DEF Archive!vars
<1>5. ASSUME NEW r \in Run, Replace(r)
      PROVE  [Archive!Next]_(Archive!vars)
  <2>1. PICK p : p = Target(r, at[r])
    OBVIOUS
  <2>2. /\ p \in Path /\ ~Exists(p)
        /\ entry'[p] # NoFile
        /\ \A q \in Path \ {p} : entry'[q] = entry[q]
    BY <1>5, <2>1, ReplaceFiles
  <2>3. \A q \in Path : Exists(q)' <=> Exists(q) \/ q = p
    BY <2>2 DEF Exists
  <2>4. at[r] \in Kind /\ p[1] = at[r]
    BY <2>1, TargetPath DEF StoreInv, TypeOK
  <2>5. \A q \in Run : /\ Target(q, "run") \in Path
                       /\ Target(q, "run") = p <=> q = r /\ at[r] = "run"
    <3>1. \A q \in Run : Target(q, "run") \in Path
      BY TargetPath, KindFacts
    <3>2. \A q \in Run : Target(q, "run") = p => q = r /\ at[r] = "run"
      BY <2>1, <2>4, ManifestIsOwn
    <3>3. QED
      BY <2>1, <3>1, <3>2
  <2>6. CASE at[r] \in {"source", "spec", "replay"}
    <3>1. Shown' = Shown \cup {p}
      BY <2>2, <2>3, <2>4, <2>6
    <3>2. Listed' = Listed
      BY <2>3, <2>5, <2>6
    <3>3. QED
      BY <1>2, <1>3, <2>2, <2>4, <2>6, <3>1, <3>2
         DEF Archive!Next, Archive!Store
  <2>7. CASE at[r] = "meta"
    <3>1. Shown' = Shown /\ Listed' = Listed
      BY <2>3, <2>4, <2>5, <2>7
    <3>2. QED
      BY <1>2, <1>3, <3>1 DEF Archive!vars
  <2>8. CASE at[r] = "run"
    <3>1. Shown' = Shown
      BY <2>3, <2>4, <2>8
    <3>2. Listed' = Listed \cup {r}
      BY <2>3, <2>5, <2>8
    <3>3. Refs(r) \subseteq Shown
      BY <2>8, RefsArePaths DEF Refs, StoreInv, PutSoFar
    <3>4. QED
      BY <1>2, <1>3, <3>1, <3>2, <3>3 DEF Archive!Next, Archive!Publish
  <2>9. QED
    BY <2>4, <2>6, <2>7, <2>8 DEF Kind
<1>6. QED
  BY <1>4, <1>5

\* Read as the objects and manifests they stand for, the files change only as
\* the store promises: an object appears whole and stays, and a manifest
\* appears when every object it refers to is there.
THEOREM StoreImplementsArchive ==
  ASSUME ~Overlap PROVE Spec => ImplementsArchive
<1>1. ~Overlap
  OBVIOUS
<1>2. StoreInv /\ [Next]_vars => [Archive!Next]_(Archive!vars)
  BY <1>1, ArchiveStep
<1>3. QED
  BY <1>2, ArchiveInit, StoreInvariant, PTL
     DEF Spec, ImplementsArchive, Archive!Spec

-----------------------------------------------------------------------------
(* Attempts that overlap                                                   *)

\* the types, and that who writes has an inode to write
OpenInv ==
  /\ TypeOK
  /\ \A r \in Run : step[r] \in {"write", "replace"} => handle[r] \in Inode

\* An inode that a path or its tmp file names holds its bytes, or someone is
\* about to write them, or was and has failed or died.
Writer(i) ==
  \E r \in Run : step[r] \in {"write", "failed", "dead"} /\ handle[r] = i

Healing(i) == i \in whole \/ Writer(i)

HealInv ==
  \A p \in Path : /\ entry[p] # NoFile => Healing(entry[p])
                  /\ tmp[p] # NoFile => Healing(tmp[p])

LEMMA InitHeal == Init => OpenInv /\ HealInv
<1> SUFFICES ASSUME Init PROVE OpenInv /\ HealInv
  OBVIOUS
<1>1. StoreInv
  BY InitStore
<1>2. QED
  BY <1>1 DEF Init, StoreInv, OpenInv, HealInv, VisibleIsWhole, Exists,
     Healing

\* The steps of an attempt after which its path names the inodes it named
\* before and every inode holds what it held: all but three.
LEMMA QuietStep ==
  ASSUME NEW r \in Run, OpenInv,
         Start(r) \/ Persist(r) \/ Fault(r),
         ~Open(r), ~Write(r), ~Replace(r)
  PROVE  /\ UNCHANGED <<entry, whole, handle>>
         /\ tmp' \in [Path -> Inode \cup {NoFile}]
         /\ \A p \in Path : tmp'[p] # NoFile => tmp'[p] = tmp[p]
         /\ at' \in [Run -> Kind]
         /\ step' \in [Run -> Steps]
         /\ step'[r] \in Steps \ {"write", "replace"}
         /\ step[r] \notin {"failed", "dead"}
         /\ step[r] = "write" => step'[r] \in {"failed", "dead"}
         /\ \A q \in Run \ {r} : step'[q] = step[q]
<1>0. TypeOK
  BY DEF OpenInv
<1>1. ASSUME NEW kind \in Kind, GoOn(r, kind)
      PROVE  /\ at' \in [Run -> Kind]
             /\ step' \in [Run -> Steps]
             /\ step'[r] \in {"done", "open", "look"}
             /\ \A q \in Run \ {r} : step'[q] = step[q]
  BY <1>0, <1>1, KindFacts DEF GoOn, TypeOK, Steps, Ended
<1>2. ASSUME NEW next \in Steps, StepTo(r, next)
      PROVE  /\ at' \in [Run -> Kind]
             /\ step' \in [Run -> Steps]
             /\ step'[r] = next
             /\ \A q \in Run \ {r} : step'[q] = step[q]
  BY <1>0, <1>2 DEF StepTo, TypeOK, Steps
<1>3. at[r] \in Kind
  BY <1>0 DEF TypeOK
<1>4. CASE Start(r)
  BY <1>0, <1>4 DEF Start, TypeOK, Steps, Ended
<1>5. CASE Look(r)
  <2>1. /\ UNCHANGED <<entry, tmp, whole, handle>> /\ step[r] = "look"
        /\ \/ StepTo(r, "open") \/ StepTo(r, "compare") \/ GoOn(r, "meta")
    BY <1>5 DEF Look
  <2>2. QED
    BY <1>0, <1>1, <1>2, <2>1, KindFacts DEF TypeOK, Steps, Ended
<1>6. CASE Compare(r)
  <2>1. /\ UNCHANGED <<entry, tmp, whole, handle>> /\ step[r] = "compare"
        /\ \E kind \in Kind : GoOn(r, kind)
    BY <1>3, <1>6, KindFacts DEF Compare
  <2>2. QED
    BY <1>0, <1>1, <2>1 DEF TypeOK, Steps, Ended
<1>7. CASE Collide(r) \/ ReplaceStray(r) \/ SummaryRefused(r) \/ IOFails(r)
  <2>1. /\ UNCHANGED <<entry, tmp, whole, handle>>
        /\ step[r] \in {"compare", "replace", "look", "open", "write"}
        /\ \/ StepTo(r, "collision") /\ step[r] # "write"
           \/ StepTo(r, "stray") /\ step[r] # "write"
           \/ StepTo(r, "failed")
    BY <1>7 DEF Collide, ReplaceStray, SummaryRefused, IOFails
  <2>2. QED
    BY <1>0, <1>2, <2>1 DEF TypeOK, Steps, Ended
<1>8. CASE ReplaceFails(r)
  <2>1. /\ UNCHANGED <<entry, whole, handle>> /\ step[r] = "replace"
        /\ tmp' = [tmp EXCEPT ![Target(r, at[r])] = NoFile]
        /\ StepTo(r, "failed")
    BY <1>8 DEF ReplaceFails
  <2>2. /\ tmp' \in [Path -> Inode \cup {NoFile}]
        /\ \A p \in Path : tmp'[p] # NoFile => tmp'[p] = tmp[p]
    BY <1>0, <2>1 DEF TypeOK
  <2>3. QED
    BY <1>2, <2>1, <2>2 DEF Steps, Ended
<1>9. CASE Die(r)
  <2>1. /\ UNCHANGED <<entry, tmp, whole, handle>>
        /\ step[r] \notin {"failed", "dead"}
        /\ StepTo(r, "dead")
    BY <1>9 DEF Die, Active, Ended
  <2>2. QED
    BY <1>0, <1>2, <2>1 DEF TypeOK, Steps, Ended
<1>10. QED
  BY <1>4, <1>5, <1>6, <1>7, <1>8, <1>9 DEF Persist, Fault

LEMMA QuietHeals ==
  ASSUME NEW r \in Run, OpenInv, HealInv,
         Start(r) \/ Persist(r) \/ Fault(r),
         ~Open(r), ~Write(r), ~Replace(r)
  PROVE  OpenInv' /\ HealInv'
<1>1. /\ UNCHANGED <<entry, whole, handle>>
      /\ tmp' \in [Path -> Inode \cup {NoFile}]
      /\ \A p \in Path : tmp'[p] # NoFile => tmp'[p] = tmp[p]
      /\ at' \in [Run -> Kind]
      /\ step' \in [Run -> Steps]
      /\ step'[r] \in Steps \ {"write", "replace"}
      /\ step[r] \notin {"failed", "dead"}
      /\ step[r] = "write" => step'[r] \in {"failed", "dead"}
      /\ \A q \in Run \ {r} : step'[q] = step[q]
  BY QuietStep
<1>2. OpenInv'
  BY <1>1 DEF OpenInv, TypeOK, Steps
<1>3. ASSUME NEW i, Healing(i)
      PROVE  Healing(i)'
  <2>1. CASE i \in whole
    BY <1>1, <2>1 DEF Healing
  <2>2. CASE Writer(i)
    <3>1. PICK q \in Run :
            step[q] \in {"write", "failed", "dead"} /\ handle[q] = i
      BY <2>2 DEF Writer
    <3>2. step'[q] \in {"write", "failed", "dead"} /\ handle'[q] = i
      BY <1>1, <3>1
    <3>3. QED
      BY <3>2 DEF Healing, Writer
  <2>3. QED
    BY <1>3, <2>1, <2>2 DEF Healing
<1>4. HealInv'
  BY <1>1, <1>3 DEF HealInv
<1>5. QED
  BY <1>2, <1>4

\* Who truncates an inode is the one who will write it.
LEMMA OpenHeals ==
  ASSUME NEW r \in Run, OpenInv, HealInv, Open(r)
  PROVE  OpenInv' /\ HealInv'
<1>a. PICK p : p = Target(r, at[r])
  OBVIOUS
<1>b. PICK i : i = IF tmp[p] # NoFile THEN tmp[p] ELSE <<r, p>>
  OBVIOUS
<1>1. /\ TypeOK /\ step[r] = "open" /\ at[r] \in Kind
      /\ tmp' = [tmp EXCEPT ![p] = i]
      /\ whole' = whole \ {i}
      /\ handle' = [handle EXCEPT ![r] = i]
      /\ StepTo(r, "write") /\ UNCHANGED entry
  BY <1>a, <1>b DEF Open, OpenInv, TypeOK
<1>2. p \in Path /\ <<r, p>> \in Inode
  BY <1>1, <1>a, TargetPath
<1>3. i \in Inode
  BY <1>1, <1>2, <1>b DEF TypeOK
<1>4. /\ tmp' \in [Path -> Inode \cup {NoFile}] /\ tmp'[p] = i
      /\ \A q \in Path \ {p} : tmp'[q] = tmp[q]
      /\ handle' \in [Run -> Inode \cup {NoFile}] /\ handle'[r] = i
      /\ \A q \in Run \ {r} : handle'[q] = handle[q]
      /\ step' \in [Run -> Steps] /\ step'[r] = "write"
      /\ \A q \in Run \ {r} : step'[q] = step[q]
      /\ UNCHANGED at
  BY <1>1, <1>2, <1>3 DEF TypeOK, StepTo, Steps
<1>5. OpenInv'
  BY <1>1, <1>3, <1>4 DEF OpenInv, TypeOK, Steps
<1>6. Healing(i)'
  BY <1>4 DEF Healing, Writer
<1>7. ASSUME NEW j, Healing(j)
      PROVE  Healing(j)'
  <2>1. CASE j \in whole
    BY <1>1, <1>6, <2>1 DEF Healing
  <2>2. CASE Writer(j)
    BY <1>1, <1>4, <2>2 DEF Writer, Healing
  <2>3. QED
    BY <1>7, <2>1, <2>2 DEF Healing
<1>8. HealInv'
  BY <1>1, <1>4, <1>6, <1>7 DEF HealInv
<1>9. QED
  BY <1>5, <1>8

LEMMA WriteHeals ==
  ASSUME NEW r \in Run, OpenInv, HealInv, Write(r)
  PROVE  OpenInv' /\ HealInv'
<1>1. /\ TypeOK /\ step[r] = "write" /\ handle[r] \in Inode
      /\ whole' = whole \cup {handle[r]}
      /\ StepTo(r, "replace") /\ UNCHANGED <<entry, tmp, handle>>
  BY DEF Write, OpenInv
<1>2. /\ step' \in [Run -> Steps] /\ step'[r] = "replace"
      /\ \A q \in Run \ {r} : step'[q] = step[q]
      /\ UNCHANGED at
  BY <1>1 DEF StepTo, TypeOK, Steps
<1>3. OpenInv'
  BY <1>1, <1>2 DEF OpenInv, TypeOK, Steps
<1>4. ASSUME NEW j, Healing(j)
      PROVE  Healing(j)'
  <2>1. CASE j \in whole
    BY <1>1, <2>1 DEF Healing
  <2>2. CASE Writer(j)
    BY <1>1, <1>2, <2>2 DEF Writer, Healing
  <2>3. QED
    BY <1>4, <2>1, <2>2 DEF Healing
<1>5. HealInv'
  BY <1>1, <1>4 DEF HealInv
<1>6. QED
  BY <1>3, <1>5

\* os.replace may show an inode that someone else is writing.
LEMMA ReplaceHeals ==
  ASSUME NEW r \in Run, OpenInv, HealInv, Replace(r)
  PROVE  OpenInv' /\ HealInv'
<1> DEFINE p == Target(r, at[r])
<1>1. /\ TypeOK /\ step[r] = "replace" /\ at[r] \in Kind
      /\ tmp[p] # NoFile
      /\ entry' = [entry EXCEPT ![p] = tmp[p]]
      /\ tmp' = [tmp EXCEPT ![p] = NoFile]
      /\ GoOn(r, at[r])
      /\ UNCHANGED <<whole, handle>>
  BY DEF Replace, OpenInv, TypeOK
<1>2. p \in Path
  BY <1>1, TargetPath
<1> HIDE DEF p
<1>3. /\ entry' \in [Path -> Inode \cup {NoFile}]
      /\ tmp' \in [Path -> Inode \cup {NoFile}]
      /\ entry'[p] = tmp[p] /\ tmp'[p] = NoFile
      /\ \A q \in Path \ {p} : entry'[q] = entry[q] /\ tmp'[q] = tmp[q]
  BY <1>1, <1>2 DEF TypeOK
<1>4. /\ at' \in [Run -> Kind] /\ step' \in [Run -> Steps]
      /\ step'[r] \in {"done", "open", "look"}
      /\ \A q \in Run \ {r} : step'[q] = step[q]
  BY <1>1, KindFacts DEF GoOn, TypeOK, Steps, Ended
<1>5. OpenInv'
  BY <1>1, <1>3, <1>4 DEF OpenInv, TypeOK, Steps
<1>6. ASSUME NEW j, Healing(j)
      PROVE  Healing(j)'
  BY <1>1, <1>4, <1>6 DEF Healing, Writer
<1>7. HealInv'
  BY <1>1, <1>2, <1>3, <1>6 DEF HealInv
<1>8. QED
  BY <1>5, <1>7

LEMMA HealStep == OpenInv /\ HealInv /\ [Next]_vars => OpenInv' /\ HealInv'
<1> SUFFICES ASSUME OpenInv, HealInv, [Next]_vars PROVE OpenInv' /\ HealInv'
  OBVIOUS
<1>1. CASE AllEnded \/ UNCHANGED vars
  BY <1>1 DEF AllEnded, vars, OpenInv, TypeOK, HealInv, Healing, Writer
<1>2. ASSUME NEW r \in Run, Start(r) \/ Persist(r) \/ Fault(r)
      PROVE  OpenInv' /\ HealInv'
  BY <1>2, QuietHeals, OpenHeals, WriteHeals, ReplaceHeals
<1>3. QED
  BY <1>1, <1>2 DEF Next

\* However attempts overlap, what they tear is whole again when all of them
\* have ended and none has failed or died.
THEOREM OverlapHeals == Spec => []TearsHeal
<1>1. HealInv => TearsHeal
  BY DEF HealInv, Healing, Writer, TearsHeal, VisibleIsWhole, Exists
<1>2. QED
  BY <1>1, InitHeal, HealStep, PTL DEF Spec

\* No step takes a file away.
LEMMA ShownStays ==
  ASSUME OpenInv, [Next]_vars
  PROVE  \A p \in Path : Exists(p) => Exists(p)'
<1>1. CASE \A r \in Run : ~Replace(r)
  BY <1>1, OnlyReplaceShows DEF Exists
<1>2. ASSUME NEW r \in Run, Replace(r), NEW p \in Path, Exists(p)
      PROVE  Exists(p)'
  BY <1>2 DEF Replace, Exists, OpenInv, TypeOK
<1>3. QED
  BY <1>1, <1>2

\* However attempts overlap, and whoever fails or dies, a file that is there
\* stays there.
THEOREM FilesStay == Spec => NothingIsDeleted
<1>1. OpenInv /\ [Next]_vars => \A p \in Path : Exists(p) => Exists(p)'
  BY ShownStays
<1>2. QED
  BY <1>1, InitHeal, HealStep, PTL DEF Spec, NothingIsDeleted

-----------------------------------------------------------------------------
(* Refusals among attempts that overlap                                    *)

\* a replace of the file failed, and unlinked its tmp file
Unlinked(p) == \E q \in Run : step[q] = "failed" /\ Target(q, at[q]) = p

\* The tmp file that an attempt has opened is there until someone makes it the
\* file or a replace of it fails.
TmpInv ==
  \A r \in Run :
    step[r] \in {"write", "replace"} =>
      LET p == Target(r, at[r]) IN tmp[p] # NoFile \/ Exists(p) \/ Unlinked(p)

\* An attempt moves itself alone, and never once it has failed.
LEMMA MovesItself ==
  ASSUME NEW r \in Run, OpenInv, Start(r) \/ Persist(r) \/ Fault(r)
  PROVE  /\ step[r] # "failed"
         /\ \A q \in Run \ {r} : step'[q] = step[q] /\ at'[q] = at[q]
<1>1. TypeOK
  BY DEF OpenInv
<1>2. ASSUME NEW next, StepTo(r, next)
      PROVE  \A q \in Run \ {r} : step'[q] = step[q] /\ at'[q] = at[q]
  BY <1>1, <1>2 DEF StepTo, TypeOK
<1>3. ASSUME NEW kind, GoOn(r, kind)
      PROVE  \A q \in Run \ {r} : step'[q] = step[q] /\ at'[q] = at[q]
  BY <1>1, <1>3 DEF GoOn, TypeOK
<1>4. CASE Start(r)
  BY <1>1, <1>4 DEF Start, TypeOK
<1>5. CASE Look(r) \/ Compare(r) \/ Replace(r)
  BY <1>2, <1>3, <1>5 DEF Look, Compare, Replace
<1>6. CASE Collide(r) \/ Open(r) \/ Write(r) \/ ReplaceStray(r)
  BY <1>2, <1>6 DEF Collide, Open, Write, ReplaceStray
<1>7. CASE Fault(r)
  BY <1>2, <1>7 DEF Fault, SummaryRefused, IOFails, ReplaceFails, Die, Active,
     Ended
<1>8. QED
  BY <1>4, <1>5, <1>6, <1>7 DEF Persist

LEMMA TmpStep == OpenInv /\ TmpInv /\ [Next]_vars => TmpInv'
<1> SUFFICES ASSUME OpenInv, TmpInv, [Next]_vars PROVE TmpInv'
  OBVIOUS
<1>1. CASE AllEnded \/ UNCHANGED vars
  BY <1>1 DEF AllEnded, vars, TmpInv, Exists, Unlinked, Target, ContentId
<1>2. ASSUME NEW r \in Run, Start(r) \/ Persist(r) \/ Fault(r)
      PROVE  TmpInv'
  <2>1. /\ step[r] # "failed"
        /\ \A q \in Run \ {r} : step'[q] = step[q] /\ at'[q] = at[q]
    BY <1>2, MovesItself
  <2>2. TypeOK /\ at[r] \in Kind
    BY DEF OpenInv, TypeOK
  <2>3. \A p : Unlinked(p) => Unlinked(p)'
    BY <2>1 DEF Unlinked, Target, ContentId
  <2>4. \A q \in Run \ {r} : Target(q, at[q])' = Target(q, at[q])
    BY <2>1 DEF Target, ContentId
  <2>5. \A q \in Run : Target(q, at[q]) \in Path
    BY <2>2, TargetPath DEF TypeOK
  <2>6. ASSUME step'[r] \notin {"write", "replace"},
               \A p \in Path :
                 \/ tmp'[p] = tmp[p] /\ entry'[p] = entry[p]
                 \/ Exists(p)'
                 \/ Unlinked(p)'
        PROVE  TmpInv'
    <3>1. ASSUME NEW q \in Run, step'[q] \in {"write", "replace"}
          PROVE  LET p == Target(q, at[q])
                 IN  (tmp[p] # NoFile \/ Exists(p) \/ Unlinked(p))'
      <4>1. q # r
        BY <2>6, <3>1
      <4>2. PICK p \in Path : p = Target(q, at[q]) /\ p = Target(q, at[q])'
        BY <2>4, <2>5, <4>1
      <4>3. tmp[p] # NoFile \/ Exists(p) \/ Unlinked(p)
        BY <2>1, <3>1, <4>1, <4>2 DEF TmpInv
      <4>4. tmp'[p] # NoFile \/ Exists(p)' \/ Unlinked(p)'
        BY <2>3, <2>6, <4>3 DEF Exists
      <4>5. QED
        BY <4>2, <4>4
    <3>2. QED
      BY <3>1 DEF TmpInv
  <2>7. CASE Open(r) \/ Write(r)
    <3>1. PICK p \in Path : p = Target(r, at[r])
      BY <2>5
    <3>2. UNCHANGED <<at, entry>> /\ step[r] \in {"open", "write"}
      BY <2>7 DEF Open, Write, StepTo
    <3>3. \A q \in Run : Target(q, at[q])' = Target(q, at[q])
      BY <3>2 DEF Target, ContentId
    <3>4. /\ \A o \in Path : tmp[o] # NoFile => tmp'[o] # NoFile
          /\ step[r] = "open" => tmp'[p] # NoFile
      <4>1. CASE Write(r)
        BY <4>1 DEF Write
      <4>2. CASE Open(r)
        <5>1. PICK i : i = IF tmp[p] # NoFile THEN tmp[p] ELSE <<r, p>>
          OBVIOUS
        <5>2. tmp' = [tmp EXCEPT ![p] = i]
          BY <3>1, <4>2, <5>1 DEF Open
        <5>3. <<r, p>> \in Inode
          BY <2>2, <3>1, TargetPath
        <5>4. i # NoFile
          BY <5>1, <5>3, NoFileFresh
        <5>5. QED
          BY <2>2, <5>2, <5>4 DEF TypeOK
      <4>3. QED
        BY <2>7, <4>1, <4>2
    <3>5. \A o \in Path : Exists(o) => Exists(o)'
      BY <3>2 DEF Exists
    <3>6. ASSUME NEW q \in Run, step'[q] \in {"write", "replace"}
          PROVE  LET o == Target(q, at[q])
                 IN  (tmp[o] # NoFile \/ Exists(o) \/ Unlinked(o))'
      <4>1. PICK o \in Path : o = Target(q, at[q]) /\ o = Target(q, at[q])'
        BY <2>5, <3>3
      <4>2. CASE q = r /\ step[r] = "open"
        BY <3>1, <3>4, <4>1, <4>2
      <4>3. CASE q # r \/ step[r] = "write"
        <5>1. step[q] \in {"write", "replace"}
          BY <2>1, <3>6, <4>3
        <5>2. tmp[o] # NoFile \/ Exists(o) \/ Unlinked(o)
          BY <4>1, <5>1 DEF TmpInv
        <5>3. tmp'[o] # NoFile \/ Exists(o)' \/ Unlinked(o)'
          BY <2>3, <3>4, <3>5, <5>2
        <5>4. QED
          BY <4>1, <5>3
      <4>4. QED
        BY <3>2, <4>2, <4>3
    <3>7. QED
      BY <3>6 DEF TmpInv
  <2>8. CASE Replace(r)
    <3>1. PICK p \in Path : p = Target(r, at[r])
      BY <2>5
    <3>2. /\ tmp[p] # NoFile
          /\ entry' = [entry EXCEPT ![p] = tmp[p]]
          /\ tmp' = [tmp EXCEPT ![p] = NoFile]
      BY <2>8, <3>1 DEF Replace
    <3>3. step'[r] \notin {"write", "replace"}
      BY <2>2, <2>8 DEF Replace, GoOn, TypeOK
    <3>4. \A o \in Path :
            \/ tmp'[o] = tmp[o] /\ entry'[o] = entry[o]
            \/ Exists(o)'
      BY <2>2, <3>2 DEF TypeOK, Exists
    <3>5. QED
      BY <2>6, <3>3, <3>4
  <2>9. CASE ReplaceFails(r)
    <3>1. PICK p \in Path : p = Target(r, at[r])
      BY <2>5
    <3>2. /\ tmp' = [tmp EXCEPT ![p] = NoFile]
          /\ StepTo(r, "failed") /\ UNCHANGED entry
      BY <2>9, <3>1 DEF ReplaceFails
    <3>3. step'[r] = "failed" /\ at' = at
      BY <2>2, <3>2 DEF StepTo, TypeOK
    <3>4. Unlinked(p)'
      BY <3>1, <3>3 DEF Unlinked, Target, ContentId
    <3>5. \A o \in Path :
            \/ tmp'[o] = tmp[o] /\ entry'[o] = entry[o]
            \/ Unlinked(o)'
      BY <2>2, <3>2, <3>4 DEF TypeOK
    <3>6. QED
      BY <2>6, <3>3, <3>5
  <2>10. CASE ~Open(r) /\ ~Write(r) /\ ~Replace(r) /\ ~ReplaceFails(r)
    <3>1. UNCHANGED <<entry, tmp>>
      BY <1>2, <2>10 DEF Start, Persist, Fault, Look, Compare, Collide,
         ReplaceStray, SummaryRefused, IOFails, Die
    <3>2. step'[r] \notin {"write", "replace"}
      BY <1>2, <2>10, QuietStep
    <3>3. QED
      BY <2>6, <3>1, <3>2
  <2>11. QED
    BY <2>7, <2>8, <2>9, <2>10
<1>3. QED
  BY <1>1, <1>2 DEF Next

\* Who compares compares a file that is there.
CompareInv ==
  \A r \in Run : step[r] = "compare" => Exists(Target(r, at[r]))

LEMMA CompareStep ==
  OpenInv /\ CompareInv /\ [Next]_vars => CompareInv'
<1> SUFFICES ASSUME OpenInv, CompareInv, [Next]_vars PROVE CompareInv'
  OBVIOUS
<1>1. CASE AllEnded \/ UNCHANGED vars
  BY <1>1 DEF AllEnded, vars, CompareInv, Exists, Target, ContentId
<1>2. ASSUME NEW r \in Run, Start(r) \/ Persist(r) \/ Fault(r)
      PROVE  CompareInv'
  <2>1. \A q \in Run \ {r} : step'[q] = step[q] /\ at'[q] = at[q]
    BY <1>2, MovesItself
  <2>2. TypeOK
    BY DEF OpenInv
  <2>3. \A q \in Run : Target(q, at[q]) \in Path
    BY <2>2, TargetPath DEF TypeOK
  <2>4. ASSUME NEW q \in Run \ {r}, step'[q] = "compare"
        PROVE  Exists(Target(q, at[q]))'
    <3>1. PICK p \in Path : p = Target(q, at[q]) /\ p = Target(q, at[q])'
      BY <2>1, <2>3 DEF Target, ContentId
    <3>2. Exists(p)
      BY <2>1, <2>4, <3>1 DEF CompareInv
    <3>3. Exists(p)'
      BY <3>2, ShownStays
    <3>4. QED
      BY <3>1, <3>3 DEF Exists
  <2>5. ASSUME step'[r] = "compare"
        PROVE  Exists(Target(r, at[r]))'
    <3>1. ASSUME NEW kind, GoOn(r, kind) PROVE FALSE
      BY <2>2, <2>5, <3>1 DEF GoOn, TypeOK
    <3>2. ASSUME NEW next, StepTo(r, next) PROVE next = "compare"
      BY <2>2, <2>5, <3>2 DEF StepTo, TypeOK
    <3>3. CASE Look(r)
      <4>1. Exists(Target(r, at[r]))
        BY <3>1, <3>2, <3>3 DEF Look
      <4>2. UNCHANGED <<entry, at>>
        BY <3>1, <3>3 DEF Look, StepTo
      <4>3. QED
        BY <4>1, <4>2 DEF Exists, Target, ContentId
    <3>4. CASE Start(r)
      BY <2>2, <2>5, <3>4 DEF Start, TypeOK
    <3>5. CASE Compare(r) \/ Replace(r)
      BY <3>1, <3>5 DEF Compare, Replace
    <3>6. CASE Collide(r) \/ Open(r) \/ Write(r) \/ ReplaceStray(r)
      BY <3>2, <3>6 DEF Collide, Open, Write, ReplaceStray
    <3>7. CASE Fault(r)
      BY <3>2, <3>7 DEF Fault, SummaryRefused, IOFails, ReplaceFails, Die
    <3>8. QED
      BY <1>2, <3>3, <3>4, <3>5, <3>6, <3>7 DEF Persist
  <2>6. QED
    BY <2>4, <2>5 DEF CompareInv
<1>3. QED
  BY <1>1, <1>2 DEF Next

\* Who collides compared a file that someone else had begun to write, or to
\* write again, and not finished.
LEMMA CollisionStep ==
  ASSUME OpenInv, HealInv, CompareInv, [Next]_vars,
         NEW r \in Run, step[r] = "compare", step'[r] = "collision"
  PROVE  TornByOther(r, Target(r, at[r]))
<1>1. TypeOK
  BY DEF OpenInv
<1>2. PICK p \in Path : p = Target(r, at[r])
  BY <1>1, TargetPath DEF TypeOK
<1>3. Start(r) \/ Persist(r) \/ Fault(r)
  <2>1. ~AllEnded /\ vars' # vars
    BY DEF AllEnded, vars
  <2>2. PICK q \in Run : Start(q) \/ Persist(q) \/ Fault(q)
    BY <2>1 DEF Next
  <2>3. q = r
    BY <2>2, MovesItself
  <2>4. QED
    BY <2>2, <2>3
<1>4. Collide(r)
  <2>1. ASSUME NEW kind, GoOn(r, kind) PROVE FALSE
    BY <1>1, <2>1 DEF GoOn, TypeOK
  <2>2. ASSUME NEW next, StepTo(r, next) PROVE next = "collision"
    BY <1>1, <2>2 DEF StepTo, TypeOK
  <2>3. CASE Persist(r)
    BY <2>1, <2>3 DEF Persist, Look, Compare, Open, Write, Replace, ReplaceStray
  <2>4. CASE Fault(r)
    BY <2>2, <2>4 DEF Fault, SummaryRefused, IOFails, ReplaceFails, Die
  <2>5. QED
    BY <1>3, <2>3, <2>4 DEF Start
<1>5. entry[p] # NoFile /\ entry[p] \notin whole
  BY <1>2, <1>4 DEF CompareInv, Collide, Readable, Exists
<1>6. PICK q \in Run : step[q] \in {"write", "failed", "dead"}
                       /\ handle[q] = entry[p]
  BY <1>5 DEF HealInv, Healing, Writer
<1>7. QED
  BY <1>2, <1>6 DEF TornByOther

\* Who misses its tmp file lost it to a replace of the same file.
LEMMA StrayStep ==
  ASSUME OpenInv, TmpInv, [Next]_vars,
         NEW r \in Run, step[r] = "replace", step'[r] = "stray"
  PROVE  TakenByOther(r, Target(r, at[r]))
<1>1. TypeOK
  BY DEF OpenInv
<1>2. PICK p : p = Target(r, at[r])
  OBVIOUS
<1>3. Start(r) \/ Persist(r) \/ Fault(r)
  <2>1. ~AllEnded /\ vars' # vars
    BY DEF AllEnded, vars
  <2>2. PICK q \in Run : Start(q) \/ Persist(q) \/ Fault(q)
    BY <2>1 DEF Next
  <2>3. q = r
    BY <2>2, MovesItself
  <2>4. QED
    BY <2>2, <2>3
<1>4. tmp[p] = NoFile
  <2>1. ASSUME NEW kind, GoOn(r, kind) PROVE FALSE
    BY <1>1, <2>1 DEF GoOn, TypeOK
  <2>2. ASSUME NEW next, StepTo(r, next) PROVE next = "stray"
    BY <1>1, <2>2 DEF StepTo, TypeOK
  <2>3. CASE Persist(r)
    BY <1>2, <2>1, <2>2, <2>3
       DEF Persist, Look, Compare, Collide, Open, Write, Replace, ReplaceStray
  <2>4. CASE Fault(r)
    BY <2>2, <2>4 DEF Fault, SummaryRefused, IOFails, ReplaceFails, Die
  <2>5. QED
    BY <1>3, <2>3, <2>4 DEF Start
<1>5. Exists(p) \/ Unlinked(p)
  BY <1>2, <1>4 DEF TmpInv
<1>6. QED
  BY <1>2, <1>5 DEF TakenByOther, Unlinked

\* However attempts overlap, and whoever fails or dies, a put is refused only
\* for what another attempt did to the very same file.
THEOREM RefusalsComeFromOverlap == Spec => RefusedByOverlap
<1>1. Init => TmpInv /\ CompareInv
  BY DEF Init, TmpInv, CompareInv
<1>2. ASSUME OpenInv, HealInv, TmpInv, CompareInv, [Next]_vars
      PROVE  \A r \in Run :
               LET p == Target(r, at[r])
               IN  /\ step[r] = "compare" /\ step'[r] = "collision"
                        => TornByOther(r, p)
                   /\ step[r] = "replace" /\ step'[r] = "stray"
                        => TakenByOther(r, p)
  BY <1>2, CollisionStep, StrayStep
<1>3. QED
  BY <1>1, <1>2, InitHeal, HealStep, TmpStep, CompareStep, PTL
     DEF Spec, RefusedByOverlap
=============================================================================
