-------------------------------- MODULE LabProofs --------------------------------
(* Proofs about Lab, for any patterns, scores, thresholds and bounds, and for    *)
(* any max_versions_kept above one.                                              *)
EXTENDS Lab, FiniteSetTheorems, TLAPS

--------------------------------------------------------------------------------
(* Types *)

LEMMA NothingTyped == Nothing \in Contents /\ NoPatch \in Patch
<1>1. Nothing \in Contents
  BY StoreConstants DEF Nothing, Contents
<1>2. QED
  BY <1>1 DEF NoPatch, Patch, Kinds

LEMMA FreshTyped ==
    /\ Fresh \in LabState
    /\ Fresh.pc = "idle" /\ Fresh.tag = NoTag /\ Fresh.doomed = {} /\ Fresh.passed = FALSE
    /\ \A n \in Nat : [Fresh EXCEPT !.pc = "gap", !.gaps = n] \in LabState
BY NothingTyped DEF Fresh, LabState, LabSteps, NoCause, NoTag

LEMMA GapDoneTyped ==
    ASSUME lab \in LabState
    PROVE  /\ GapDone \in LabState
           /\ GapDone.pc = "gap" /\ GapDone.tag = NoTag
           /\ GapDone.doomed = {} /\ GapDone.passed = FALSE
<1>1. lab.gaps \in Nat
  BY DEF LabState
<1>2. QED
  BY <1>1, FreshTyped DEF GapDone, Fresh

LEMMA ParsedTyped ==
    ASSUME NEW f \in Contents \cup {Torn}
    PROVE  Parsed(f) \in Contents
BY NothingTyped DEF Parsed

LEMMA AppliedTyped ==
    ASSUME NEW f \in Contents, NEW patch \in Patch
    PROVE  Applied(f, patch) \in Contents
<1>1. patch.raised \in [Patterns -> 0 .. Top] /\ f \in [Patterns -> 0 .. Top]
  BY DEF Patch, Contents
<1>2. \A p \in Patterns : patch.raised[p] \in 0 .. Top /\ f[p] \in 0 .. Top
  BY <1>1
<1>3. 1 \in 0 .. Top
  BY StoreConstants
<1> DEFINE a(p) == CASE f[p] # 0 /\ patch.raised[p] # 0 -> patch.raised[p]
                     [] f[p] = 0 /\ p \in patch.added   -> 1
                     [] OTHER                           -> f[p]
<1>4. \A p \in Patterns : a(p) \in 0 .. Top
  BY <1>2, <1>3
<1>5. Applied(f, patch) = [p \in Patterns |-> a(p)]
  BY DEF Applied
<1> HIDE DEF a
<1>6. QED
  BY <1>4, <1>5 DEF Contents

LEMMA RootsTyped ==
    ASSUME NEW c \in Causes
    PROVE  RootCause[c].fix \in Kinds /\ RootCause[c].severity \in {"low", "medium", "high"}
BY LabConstants DEF RootCause, Kinds

LEMMA PatchesTyped ==
    ASSUME NEW f \in Contents, NEW c \in Causes, NEW patch \in Patches(f, c)
    PROVE  patch \in Patch
<1> DEFINE fix == RootCause[c].fix
           sev == RootCause[c].severity
           raise(fired) == [p \in Patterns |-> IF p \notin fired \/ f[p] = 0 THEN 0
                                               ELSE IF f[p] < Top THEN f[p] + 1 ELSE Top]
           one(k, added, raised) == [kind |-> k, severity |-> sev, added |-> added,
                                     raised |-> raised]
<1>1. fix \in Kinds /\ sev \in {"low", "medium", "high"}
  BY RootsTyped
<1>2. \A S : raise(S) \in Contents
  <2> SUFFICES ASSUME NEW S, NEW p \in Patterns
               PROVE  (IF p \notin S \/ f[p] = 0 THEN 0
                       ELSE IF f[p] < Top THEN f[p] + 1 ELSE Top) \in 0 .. Top
    BY DEF Contents
  <2>1. f[p] \in 0 .. Top /\ Top \in Nat
    BY StoreConstants DEF Contents
  <2>2. QED
    BY <2>1
<1>3. \A k \in Kinds, added \in SUBSET Patterns, raised \in Contents :
         one(k, added, raised) \in Patch
  BY <1>1 DEF Patch
<1>4. \/ \E S \in SUBSET Patterns : patch = one(fix, {}, raise(S))
      \/ \E p \in Patterns : patch = one(fix, {p}, Nothing)
      \/ patch = one(fix, {}, Nothing)
      \/ \E p \in Patterns : patch = one("llm_generated", {p}, Nothing)
  BY DEF Patches
<1>5. "llm_generated" \in Kinds
  BY DEF Kinds
<1> HIDE DEF one, raise, fix
<1>6. CASE \E S \in SUBSET Patterns : patch = one(fix, {}, raise(S))
  BY <1>1, <1>2, <1>3, <1>6
<1>7. CASE \E p \in Patterns : patch = one(fix, {p}, Nothing)
  BY <1>1, <1>3, <1>7, NothingTyped
<1>8. CASE patch = one(fix, {}, Nothing)
  BY <1>1, <1>3, <1>8, NothingTyped
<1>9. CASE \E p \in Patterns : patch = one("llm_generated", {p}, Nothing)
  BY <1>3, <1>5, <1>9, NothingTyped
<1>10. QED
  BY <1>4, <1>6, <1>7, <1>8, <1>9

LEMMA DoomedTyped ==
    ASSUME NEW S \in SUBSET Tags, NEW t, NEW age
    PROVE  Doomed(S, t, age) \in SUBSET Tags
BY DEF Doomed

\* A gap that is being patched has a cause, a snapshot that is being made a tag.
Placed ==
    /\ lab.pc \in {"generate", "load", "truncate", "write", "refire"} => lab.cause \in Causes
    /\ lab.pc \in {"copy", "meta", "trim", "symlink"} => lab.tag \in Tags

\* The actions of the lab write its local variables as a whole.
LEMMA HandleGapTyped ==
    ASSUME TypeOK, Placed, HandleGap
    PROVE  lab' \in LabState /\ Placed'
<1> USE DEF TypeOK, At
<1> DEFINE idle == lab' \in LabState /\ Placed'
<1>0. lab' = GapDone => idle
  BY GapDoneTyped DEF Placed
<1>1. CASE Generate
  <2>1. CASE lab' = [lab EXCEPT !.pc = "judge"]
    BY <1>1, <2>1 DEF Generate, LabState, LabSteps, Placed
  <2>2. CASE lab' # [lab EXCEPT !.pc = "judge"]
    <3>1. PICK patch \in Patches(Parsed(file), lab.cause) :
             lab' = [lab EXCEPT !.pc = "load", !.patch = patch]
      BY <1>1, <2>2 DEF Generate
    <3>2. lab.cause \in Causes
      BY <1>1 DEF Generate, Placed
    <3>3. patch \in Patch
      BY <3>2, ParsedTyped, PatchesTyped DEF StoreTypeOK
    <3>4. QED
      BY <3>1, <3>2, <3>3 DEF LabState, LabSteps, Placed
  <2>3. QED
    BY <2>1, <2>2
<1>2. CASE LoadPatterns
  <2>1. Parsed(file) \in Contents
    BY ParsedTyped DEF StoreTypeOK
  <2>2. QED
    BY <1>2, <2>1 DEF LoadPatterns, LabState, LabSteps, Placed
<1>3. CASE TruncateFile
  BY <1>3, NothingTyped DEF TruncateFile, LabState, LabSteps, Placed
<1>4. CASE WriteFile
  BY <1>4, NothingTyped DEF WriteFile, LabState, LabSteps, Placed
<1>5. CASE Refire
  <2>1. CASE lab' = GapDone
    BY <1>0, <2>1
  <2>2. CASE lab' = [lab EXCEPT !.pc = "judge", !.attempt = 0, !.passed = TRUE]
    BY <2>2 DEF LabState, LabSteps, Placed
  <2>3. CASE lab' = [lab EXCEPT !.pc = "generate", !.attempt = @ + 1]
    <3>1. lab.pc = "refire" /\ lab.cause \in Causes /\ lab.attempt \in Nat
      BY <1>5 DEF Refire, Placed, LabState
    <3>2. lab.attempt + 1 \in Nat
      BY <3>1
    <3>3. QED
      BY <2>3, <3>1, <3>2 DEF LabState, LabSteps, Placed
  <2>4. QED
    BY <1>5, <2>1, <2>2, <2>3 DEF Refire
<1>6. CASE Judge
  BY <1>0, <1>6 DEF Judge, LabState, LabSteps, Placed
<1>7. CASE Snapshot
  <2>1. CASE lab' = GapDone
    BY <1>0, <2>1
  <2>2. CASE lab' # GapDone
    <3>1. PICK t \in Tags : lab' = [lab EXCEPT !.pc = "copy", !.tag = t]
      BY <1>7, <2>2 DEF Snapshot
    <3>2. QED
      BY <3>1 DEF LabState, LabSteps, Placed
  <2>3. QED
    BY <2>1, <2>2
<1>8. CASE CopyPatterns
  BY <1>8 DEF CopyPatterns, LabState, LabSteps, Placed
<1>9. CASE WriteMeta
  <2>1. listed' \in SUBSET Tags /\ lab.tag \in Tags
    BY <1>9 DEF WriteMeta, Placed
  <2>2. lab' = [lab EXCEPT !.pc = "trim", !.doomed = Doomed(listed', current, born')]
    BY <1>9 DEF WriteMeta
  <2>3. Doomed(listed', current, born') \in SUBSET Tags
    BY <2>1, DoomedTyped
  <2>4. QED
    BY <2>1, <2>2, <2>3 DEF LabState, LabSteps, Placed
<1>10. CASE \E t \in Tags : RemoveVersion(t)
  <2>1. lab' = lab \/ \E t \in Tags : lab' = [lab EXCEPT !.doomed = @ \ {t}]
    BY <1>10 DEF RemoveVersion
  <2>2. QED
    BY <2>1 DEF LabState, LabSteps, Placed
<1>11. CASE MarkCurrent
  BY <1>11 DEF MarkCurrent, LabState, LabSteps, Placed
<1>12. CASE LinkCurrent
  BY <1>0, <1>12 DEF LinkCurrent
<1>13. CASE LabThrows
  BY <1>0, <1>13 DEF LabThrows
<1>14. QED
  BY <1>1, <1>2, <1>3, <1>4, <1>5, <1>6, <1>7, <1>8, <1>9, <1>10, <1>11, <1>12, <1>13
     DEF HandleGap

LEMMA WrittenTyped ==
    ASSUME NEW f \in Contents \cup {Torn}, NEW g \in Written(f)
    PROVE  g \in Contents \cup {Torn}
BY DEF Written

\* A rollback command that runs has a version.
CliPlaced == cli.pc # "off" => cli.tag \in Tags

LEMMA RollbackTyped ==
    ASSUME TypeOK, CliPlaced, Rollback \/ CliDies
    PROVE  TypeOK' /\ CliPlaced'
<1> USE DEF TypeOK, StoreTypeOK, store, memory, bounds, CliPlaced
<1>0. Off \in CliState /\ Off.pc = "off"
  BY DEF Off, CliState, CliSteps
<1>1. CASE \E t \in Tags : StartRollback(t)
  <2>1. PICK t \in Tags : StartRollback(t)
    BY <1>1
  <2>2. cli' \in CliState
    BY <1>0, <2>1 DEF StartRollback, CliState, CliSteps, Off
  <2>3. QED
    BY <2>1, <2>2 DEF StartRollback
<1>2. CASE OpenCopy
  <2>1. CASE pats[cli.tag] = Absent
    BY <1>0, <1>2, <2>1 DEF OpenCopy
  <2>2. CASE pats[cli.tag] # Absent
    <3>1. pats[cli.tag] \in Contents \cup {Torn}
      <4>1. cli.tag \in Tags
        BY <1>2, <2>2 DEF OpenCopy
      <4>2. QED
        BY <2>2, <4>1
    <3>2. cli' \in CliState
      BY <1>2, <2>2, <3>1 DEF OpenCopy, CliState, CliSteps
    <3>3. cli.tag \in Tags /\ cli'.tag = cli.tag
      BY <1>2, <2>2 DEF OpenCopy, CliState
    <3>4. file' = Torn
      BY <1>2, <2>2 DEF OpenCopy
    <3>5. QED
      BY <1>2, <3>2, <3>3, <3>4 DEF OpenCopy
  <2>3. QED
    BY <2>1, <2>2
<1>3. CASE FillCopy
  <2>1. file' \in Contents \cup {Torn} /\ cli' \in CliState
    BY <1>3, WrittenTyped DEF FillCopy, CliState, CliSteps
  <2>2. QED
    BY <1>3, <2>1 DEF FillCopy
<1>4. CASE Unlink
  <2>1. cli' \in CliState /\ link' \in Tags \cup {NoTag}
    BY <1>4 DEF Unlink, CliState, CliSteps, NoTag
  <2>2. QED
    BY <1>4, <2>1 DEF Unlink
<1>5. CASE LinkRestored
  <2>1. cli.tag \in Tags
    BY <1>5 DEF LinkRestored
  <2>2. link' \in Tags \cup {NoTag} /\ stray' \in BOOLEAN
    BY <1>5, <2>1 DEF LinkRestored
  <2>3. cli' = Off
    BY <1>5 DEF LinkRestored
  <2>4. QED
    BY <1>0, <1>5, <2>2, <2>3 DEF LinkRestored
<1>6. CASE CliDies
  BY <1>0, <1>6 DEF CliDies
<1>7. QED
  BY <1>1, <1>2, <1>3, <1>4, <1>5, <1>6 DEF Rollback

LEMMA LabTyped ==
    ASSUME TypeOK, Placed, FindGaps \/ NextGap \/ HandleGap \/ LabRestarts
    PROVE  TypeOK' /\ Placed' /\ cli' = cli
<1> USE DEF TypeOK, StoreTypeOK, store, memory, bounds
<1>1. CASE FindGaps
  <2>1. PICK n \in 1 .. MaxGaps : lab' = [lab EXCEPT !.pc = "gap", !.gaps = n]
    BY <1>1 DEF FindGaps
  <2>2. n \in Nat
    BY LabConstants
  <2>3. lab' \in LabState /\ Placed'
    BY <2>1, <2>2 DEF LabState, LabSteps, Placed
  <2>4. QED
    BY <1>1, <2>3 DEF FindGaps
<1>2. CASE NextGap
  <2>1. lab' \in LabState /\ Placed' /\ overlap' \in BOOLEAN
    <3>1. CASE lab' = Fresh /\ overlap' = overlap
      BY <3>1, FreshTyped DEF Placed
    <3>2. CASE ~(lab' = Fresh /\ overlap' = overlap)
      <4>1. lab.gaps > 0 /\ overlap' = (overlap \/ cli.pc # "off")
        BY <1>2, <3>2 DEF NextGap
      <4>2. PICK c \in Causes : lab' = [lab EXCEPT !.pc = "generate", !.gaps = @ - 1,
                                                   !.cause = c, !.attempt = 1]
        BY <1>2, <3>2 DEF NextGap
      <4>3. lab.gaps - 1 \in Nat
        BY <4>1 DEF LabState
      <4>4. QED
        BY <4>1, <4>2, <4>3 DEF LabState, LabSteps, Placed
    <3>3. QED
      BY <3>1, <3>2
  <2>2. QED
    BY <1>2, <2>1 DEF NextGap
<1>3. CASE LabRestarts
  <2>1. OnDisk \subseteq Tags /\ LinkedVersion \in Tags \cup {NoTag}
    BY DEF OnDisk, LinkedVersion
  <2>2. lab' \in LabState /\ Placed'
    BY <1>3, FreshTyped DEF LabRestarts, Placed
  <2>3. QED
    BY <1>3, <2>1, <2>2 DEF LabRestarts
<1>4. CASE HandleGap
  <2>1. lab' \in LabState /\ Placed'
    BY <1>4, HandleGapTyped
  <2>2. CASE Generate \/ LoadPatterns \/ Refire \/ Judge \/ LabThrows
    BY <2>1, <2>2 DEF Generate, LoadPatterns, Refire, Judge, LabThrows
  <2>3. CASE TruncateFile
    BY <2>1, <2>3 DEF TruncateFile
  <2>4. CASE WriteFile
    <3>1. lab.loaded \in Contents /\ lab.patch \in Patch
      BY DEF LabState
    <3>2. file' \in Contents \cup {Torn}
      BY <2>4, <3>1, AppliedTyped, WrittenTyped DEF WriteFile
    <3>3. QED
      BY <2>1, <2>4, <3>2 DEF WriteFile
  <2>5. CASE Snapshot
    <3>1. CASE UNCHANGED <<store, clock>>
      BY <2>1, <2>5, <3>1 DEF Snapshot
    <3>2. CASE ~UNCHANGED <<store, clock>>
      <4>1. PICK t \in Tags : /\ pats' = [pats EXCEPT ![t] = Torn] /\ clock' = clock + 1
                             /\ UNCHANGED <<file, meta, born, link>>
        BY <2>5, <3>2 DEF Snapshot
      <4>2. pats' \in [Tags -> Contents \cup {Torn, Absent}] /\ clock' \in Nat
        BY <4>1
      <4>3. QED
        BY <2>1, <2>5, <4>1, <4>2 DEF Snapshot
    <3>3. QED
      BY <3>1, <3>2
  <2>6. CASE CopyPatterns
    BY <2>1, <2>6 DEF CopyPatterns
  <2>7. CASE WriteMeta
    <3>1. lab.tag \in Tags /\ lab.patch \in Patch /\ lab.passed \in BOOLEAN
      BY <2>7 DEF WriteMeta, Placed, At, LabState
    <3>2. [patch |-> lab.patch, passed |-> lab.passed] \in Meta
      BY <3>1 DEF Meta
    <3>3. meta' \in [Tags -> Meta \cup {NoMeta}] /\ born' \in [Tags -> Nat]
          /\ listed' \subseteq Tags
      BY <2>7, <3>1, <3>2 DEF WriteMeta
    <3>4. QED
      BY <2>1, <2>7, <3>3 DEF WriteMeta
  <2>8. CASE \E t \in Tags : RemoveVersion(t)
    <3>1. /\ pats' \in [Tags -> Contents \cup {Torn, Absent}]
          /\ meta' \in [Tags -> Meta \cup {NoMeta}] /\ born' \in [Tags -> Nat]
          /\ listed' \subseteq Tags
      BY <2>8 DEF RemoveVersion
    <3>2. QED
      BY <2>1, <2>8, <3>1 DEF RemoveVersion
  <2>9. CASE MarkCurrent
    <3>1. lab.tag \in Tags
      BY <2>9 DEF MarkCurrent, Placed, At
    <3>2. QED
      BY <2>1, <2>9, <3>1 DEF MarkCurrent, NoTag
  <2>10. CASE LinkCurrent
    <3>1. link' \in Tags \cup {NoTag} /\ stray' \in BOOLEAN
      BY <2>10 DEF LinkCurrent, Placed, At
    <3>2. QED
      BY <2>1, <2>10, <3>1 DEF LinkCurrent
  <2>11. QED
    BY <1>4, <2>2, <2>3, <2>4, <2>5, <2>6, <2>7, <2>8, <2>9, <2>10 DEF HandleGap
<1>5. QED
  BY <1>1, <1>2, <1>3, <1>4

Typed == TypeOK /\ Placed /\ CliPlaced

LEMMA TypedStep == Typed /\ [Next]_vars => Typed'
<1>1. ASSUME Typed, FindGaps \/ NextGap \/ HandleGap \/ LabRestarts
      PROVE  Typed'
  BY <1>1, LabTyped DEF Typed, CliPlaced
<1>2. ASSUME Typed, Rollback \/ CliDies
      PROVE  Typed'
  <2>1. lab' = lab
    BY <1>2 DEF Rollback, CliDies, StartRollback, OpenCopy, FillCopy, Unlink, LinkRestored
  <2>2. QED
    BY <1>2, <2>1, RollbackTyped DEF Typed, Placed
<1>3. ASSUME Typed, UNCHANGED vars
      PROVE  Typed'
  BY <1>3 DEF Typed, TypeOK, StoreTypeOK, Placed, CliPlaced, vars, store
<1>4. QED
  BY <1>1, <1>2, <1>3 DEF Next

LEMMA TypedInit == Init => Typed
<1> SUFFICES ASSUME Init PROVE Typed
  OBVIOUS
<1>1. StoreTypeOK
  BY DEF Init, StoreInit, StoreTypeOK, NoTag
<1>2. Off \in CliState /\ Off.pc = "off"
  BY DEF Off, CliState, CliSteps
<1>3. QED
  BY <1>1, <1>2, FreshTyped DEF Init, Typed, TypeOK, Placed, CliPlaced

\* Every variable keeps its type, and every step that needs a cause or a tag has one.
THEOREM TypeCorrect == Spec => []TypeOK
<1>1. Typed => TypeOK
  BY DEF Typed
<1>2. QED
  BY <1>1, TypedInit, TypedStep, PTL DEF Spec

--------------------------------------------------------------------------------
(* The store: numbers, metadata, what is trimmed                               *)

\* No metadata outside the list; a snapshot in the making has a number outside it and
\* is younger than all others; neither the version being marked nor the current one
\* is among those to be trimmed.
Kept ==
    /\ \A t \in Tags \ listed : meta[t] = NoMeta
    /\ \A t \in Tags : born[t] <= clock
    /\ lab.pc \in {"copy", "meta"} => lab.tag \notin listed /\ \A t \in Tags : born[t] < clock
    /\ lab.pc \in {"health", "copy", "meta"} => lab.passed
    /\ lab.pc \in {"trim", "symlink"} => lab.tag \in listed \ lab.doomed /\ meta[lab.tag] # NoMeta
    /\ lab.doomed # {} => lab.pc = "trim"
    /\ current # NoTag => current \in listed \ lab.doomed /\ meta[current] # NoMeta
    /\ \A t \in Tags : meta[t] # NoMeta => meta[t].passed

\* A new version is not trimmed by the snapshot that made it.
LEMMA NewestStays ==
    ASSUME NEW S \in SUBSET Tags, NEW t \in Tags \ S, NEW c, NEW age,
           \A u \in S : age[u] < age[t]
    PROVE  t \notin Doomed(S \cup {t}, c, age)
<1> SUFFICES ASSUME t \in Doomed(S \cup {t}, c, age)
             PROVE  FALSE
  OBVIOUS
<1> DEFINE others == (S \cup {t}) \ {c}
           older == {u \in others : age[u] < age[t]}
<1>1. IsFiniteSet(Tags)
  BY StoreConstants, FS_Interval DEF Tags
<1>2. IsFiniteSet(S)
  BY <1>1, FS_Subset
<1>3. Cardinality(S \cup {t}) = Cardinality(S) + 1 /\ Cardinality(S) \in Nat
  BY <1>2, FS_AddElement, FS_CardinalityType
<1>4. S \ {c} \subseteq older
  OBVIOUS
<1>5. IsFiniteSet(older)
  BY <1>1, FS_Subset
<1>6. Cardinality(S \ {c}) <= Cardinality(older) /\ Cardinality(older) \in Nat
  BY <1>4, <1>5, FS_Subset, FS_CardinalityType
<1>7. Cardinality(S) - 1 <= Cardinality(S \ {c}) /\ Cardinality(S \ {c}) \in Nat
  BY <1>2, <1>3, FS_RemoveElement, FS_CardinalityType, FS_Subset
<1>8. Cardinality(older) < Cardinality(S \cup {t}) - MaxKept
  BY DEF Doomed
<1> HIDE DEF older
<1>9. QED
  BY <1>3, <1>6, <1>7, <1>8, StoreConstants, LabConstants

\* Steps of the lab outside the deployment.
LEMMA KeptAside ==
    ASSUME Typed, Kept, UNCHANGED <<meta, born, listed, current, clock>>, lab'.doomed = {},
           lab'.pc \notin {"health", "copy", "meta", "trim", "symlink"}
    PROVE  Kept'
BY DEF Kept

LEMMA KeptQuiet ==
    ASSUME Typed, Kept,
           \/ FindGaps \/ NextGap \/ Generate \/ LoadPatterns \/ TruncateFile \/ WriteFile
           \/ Refire \/ LinkCurrent \/ LabThrows
    PROVE  Kept'
<1> USE DEF Typed, TypeOK, store, memory, At
<1>0. GapDone.pc = "gap" /\ GapDone.doomed = {} /\ Fresh.pc = "idle" /\ Fresh.doomed = {}
  BY GapDoneTyped, FreshTyped
<1>1. UNCHANGED <<meta, born, listed, current, clock>>
  BY DEF FindGaps, NextGap, Generate, LoadPatterns, TruncateFile, WriteFile, Refire,
         LinkCurrent, LabThrows
<1>2. lab.doomed = {} \/ LinkCurrent \/ LabThrows
  BY DEF Kept, FindGaps, NextGap, Generate, LoadPatterns, TruncateFile, WriteFile, Refire
<1>3. lab'.doomed = {} /\ lab'.pc \notin {"health", "copy", "meta", "trim", "symlink"}
  <2>1. CASE LinkCurrent \/ LabThrows
    BY <1>0, <2>1 DEF LinkCurrent, LabThrows
  <2>2. CASE FindGaps \/ NextGap
    BY <1>0, <1>2, <2>2 DEF FindGaps, NextGap, LabState, LinkCurrent, LabThrows
  <2>3. CASE Generate
    <3>1. lab.doomed = {} /\ lab.pc = "generate"
      BY <1>2, <2>3 DEF Generate, LinkCurrent, Kept
    <3>2. CASE lab' = [lab EXCEPT !.pc = "judge"]
      BY <3>1, <3>2 DEF LabState
    <3>3. CASE lab' # [lab EXCEPT !.pc = "judge"]
      <4>1. PICK patch : lab' = [lab EXCEPT !.pc = "load", !.patch = patch]
        BY <2>3, <3>3 DEF Generate
      <4>2. QED
        BY <3>1, <4>1 DEF LabState
    <3>4. QED
      BY <3>2, <3>3
  <2>7. CASE LoadPatterns
    BY <1>2, <2>7 DEF LoadPatterns, LabState, LinkCurrent, LabThrows
  <2>4. CASE TruncateFile \/ WriteFile
    BY <1>2, <2>4 DEF TruncateFile, WriteFile, LabState, LinkCurrent, LabThrows
  <2>5. CASE Refire
    BY <1>0, <1>2, <2>5 DEF Refire, LabState, LinkCurrent, LabThrows
  <2>6. QED
    BY <2>1, <2>2, <2>3, <2>4, <2>5, <2>7
<1>4. QED
  BY <1>1, <1>3, KeptAside

\* A patch is handed on for deployment only with a passed verification.
LEMMA KeptJudge == ASSUME Typed, Kept, Judge PROVE Kept'
<1>1. CASE lab' = GapDone
  BY <1>1, GapDoneTyped, KeptAside DEF Judge, Typed, TypeOK, store, memory
<1>2. CASE lab' # GapDone
  BY <1>2 DEF Judge, Kept, At, Typed, TypeOK, LabState, store, memory
<1>3. QED
  BY <1>1, <1>2

LEMMA KeptSnapshot == ASSUME Typed, Kept, Snapshot PROVE Kept'
<1> USE DEF Typed, TypeOK, StoreTypeOK, store, memory
<1>1. CASE lab' = GapDone /\ UNCHANGED <<store, clock>>
  BY <1>1, GapDoneTyped, KeptAside DEF Snapshot
<1>2. CASE ~(lab' = GapDone /\ UNCHANGED <<store, clock>>)
  <2>1. PICK t \in Tags : /\ IsNextTag(t, listed)
                          /\ lab' = [lab EXCEPT !.pc = "copy", !.tag = t]
                          /\ clock' = clock + 1
                          /\ UNCHANGED <<meta, born>>
    BY <1>2 DEF Snapshot
  <2>2. UNCHANGED <<listed, current>> /\ lab.pc = "health"
    BY DEF Snapshot, At
  <2>3. t \notin listed
    BY <2>1 DEF IsNextTag
  <2>4. \A u \in Tags : born[u] < clock'
    <3> SUFFICES ASSUME NEW u \in Tags PROVE born[u] < clock + 1
      BY <2>1
    <3>1. born[u] \in Nat /\ clock \in Nat /\ born[u] <= clock
      BY DEF Kept
    <3>2. QED
      BY <3>1
  <2>5. \A u \in Tags : born[u] \in Nat /\ clock' \in Nat
    BY <2>1
  <2>6. \A u \in Tags : born[u] <= clock'
    BY <2>4, <2>5
  <2>7. /\ lab'.pc = "copy" /\ lab'.tag = t /\ lab'.passed = lab.passed
        /\ lab'.doomed = lab.doomed
    BY <2>1 DEF LabState
  <2>8. QED
    BY <2>1, <2>2, <2>3, <2>4, <2>6, <2>7 DEF Kept
<1>3. QED
  BY <1>1, <1>2

LEMMA KeptCopy == ASSUME Typed, Kept, CopyPatterns PROVE Kept'
BY DEF CopyPatterns, Kept, At, Typed, TypeOK, LabState, memory

LEMMA KeptMeta == ASSUME Typed, Kept, WriteMeta PROVE Kept'
<1> USE DEF Typed, TypeOK, StoreTypeOK
<1> DEFINE t == lab.tag
           m == [patch |-> lab.patch, passed |-> lab.passed]
<1>1. lab.pc = "meta" /\ t \in Tags \ listed /\ lab.passed
  BY DEF WriteMeta, At, Placed, Kept
<1>2. /\ meta' = [meta EXCEPT ![t] = m] /\ born' = [born EXCEPT ![t] = clock]
      /\ listed' = listed \cup {t} /\ current' = current /\ clock' = clock
      /\ lab' = [lab EXCEPT !.pc = "trim", !.doomed = Doomed(listed', current, born')]
  BY DEF WriteMeta
<1>3. m \in Meta /\ m.passed
  BY <1>1 DEF Meta, LabState
<1>4. m # NoMeta
  BY <1>3, StoreConstants
<1>5. /\ meta'[t] = m /\ born'[t] = clock
      /\ \A u \in Tags \ {t} : meta'[u] = meta[u] /\ born'[u] = born[u]
  BY <1>1, <1>2
<1>6. \A u \in listed : born'[u] < born'[t]
  BY <1>1, <1>5 DEF Kept
<1>7. t \notin Doomed(listed', current, born')
  BY <1>1, <1>2, <1>6, NewestStays
<1>8. current \notin Doomed(listed', current, born')
  BY DEF Doomed
<1>9. /\ lab'.pc = "trim" /\ lab'.tag = t
      /\ lab'.doomed = Doomed(listed', current, born')
  BY <1>2 DEF LabState
<1>10. \A u \in Tags : born'[u] <= clock'
  <2> SUFFICES ASSUME NEW u \in Tags PROVE born'[u] <= clock
    BY <1>2
  <2>1. CASE u = t
    BY <1>5, <2>1
  <2>2. CASE u # t
    BY <1>5, <2>2 DEF Kept
  <2>3. QED
    BY <2>1, <2>2
<1> HIDE DEF m
<1>11. \A u \in Tags \ listed' : meta'[u] = NoMeta
  BY <1>2, <1>5 DEF Kept
<1>12. \A u \in Tags : meta'[u] # NoMeta => meta'[u].passed
  BY <1>3, <1>5 DEF Kept
<1>13. current' # NoTag => current' \in listed' \ lab'.doomed /\ meta'[current'] # NoMeta
  BY <1>1, <1>2, <1>4, <1>5, <1>8, <1>9 DEF Kept
<1>14. lab'.tag \in listed' \ lab'.doomed /\ meta'[lab'.tag] # NoMeta
  <2>1. lab'.tag \in listed'
    BY <1>2, <1>9
  <2>2. lab'.tag \notin lab'.doomed
    BY <1>7, <1>9
  <2>3. meta'[lab'.tag] # NoMeta
    BY <1>4, <1>5, <1>9
  <2>4. QED
    BY <2>1, <2>2, <2>3
<1>15. QED
  BY <1>9, <1>10, <1>11, <1>12, <1>13, <1>14 DEF Kept

LEMMA KeptRemove ==
    ASSUME Typed, Kept, NEW t \in Tags, RemoveVersion(t)
    PROVE  Kept'
<1> USE DEF Typed, TypeOK, StoreTypeOK
<1>1. /\ lab.pc = "trim" /\ t \in lab.doomed /\ current' = current /\ clock' = clock
      /\ (t # current \/ current = NoTag)
  BY DEF RemoveVersion, At, Kept
<1>2. t # lab.tag
  BY <1>1 DEF Kept
<1>3. /\ lab'.pc = "trim" /\ lab'.tag = lab.tag /\ lab'.passed = lab.passed
      /\ lab'.doomed \subseteq lab.doomed
  <2>1. lab' = lab \/ lab' = [lab EXCEPT !.doomed = @ \ {t}]
    BY DEF RemoveVersion
  <2>2. QED
    BY <1>1, <2>1 DEF LabState
<1>4. \A u \in Tags \ {t} : meta'[u] = meta[u] /\ born'[u] = born[u]
  BY DEF RemoveVersion
<1>5. meta'[t] \in {meta[t], NoMeta} /\ born'[t] \in {born[t], 0}
  BY DEF RemoveVersion
<1>6. /\ listed' = listed \/ (listed' = listed \ {t} /\ meta'[t] = NoMeta)
  BY DEF RemoveVersion
<1>7. \A u \in Tags \ listed' : meta'[u] = NoMeta
  BY <1>4, <1>5, <1>6 DEF Kept
<1>8. \A u \in Tags : born'[u] <= clock'
  <2> SUFFICES ASSUME NEW u \in Tags PROVE born'[u] <= clock
    BY <1>1
  <2>1. born[u] <= clock /\ clock \in Nat
    BY DEF Kept
  <2>2. born'[u] = born[u] \/ born'[u] = 0
    BY <1>4, <1>5
  <2>3. QED
    BY <2>1, <2>2
<1>9. lab'.tag \in listed' \ lab'.doomed /\ meta'[lab'.tag] # NoMeta
  <2>1. lab.tag \in Tags /\ lab.tag \in listed \ lab.doomed /\ meta[lab.tag] # NoMeta
    BY <1>1 DEF Kept, Placed
  <2>2. QED
    BY <1>2, <1>3, <1>4, <1>6, <2>1
<1>10. current' # NoTag => current' \in listed' \ lab'.doomed /\ meta'[current'] # NoMeta
  <2> SUFFICES ASSUME current # NoTag
               PROVE  current \in listed' \ lab'.doomed /\ meta'[current] # NoMeta
    BY <1>1
  <2>1. current \in Tags /\ current \in listed \ lab.doomed /\ meta[current] # NoMeta
    BY DEF Kept
  <2>2. t # current
    BY <1>1, <2>1
  <2>3. QED
    BY <1>3, <1>4, <1>6, <2>1, <2>2
<1>11. \A u \in Tags : meta'[u] # NoMeta => meta'[u].passed
  BY <1>4, <1>5 DEF Kept
<1>12. QED
  BY <1>3, <1>7, <1>8, <1>9, <1>10, <1>11 DEF Kept

LEMMA KeptMark == ASSUME Typed, Kept, MarkCurrent PROVE Kept'
<1>1. /\ lab'.pc = "symlink" /\ lab'.tag = lab.tag /\ lab'.doomed = {} /\ lab.pc = "trim"
      /\ lab.doomed = {} /\ current' = lab.tag
      /\ UNCHANGED <<meta, born, listed, clock>>
  BY DEF MarkCurrent, At, Typed, TypeOK, LabState
<1>2. lab.tag \in listed /\ meta[lab.tag] # NoMeta
  BY <1>1 DEF Kept
<1>3. QED
  BY <1>1, <1>2 DEF Kept

LEMMA KeptRestart == ASSUME Typed, Kept, LabRestarts PROVE Kept'
<1>1. /\ lab'.pc = "idle" /\ lab'.doomed = {} /\ UNCHANGED <<meta, born, clock>>
      /\ listed' = OnDisk /\ current' = LinkedVersion
  BY FreshTyped DEF LabRestarts, store
<1>2. current' # NoTag => current' \in OnDisk /\ meta'[current'] # NoMeta
  BY <1>1 DEF LinkedVersion, OnDisk
<1>3. \A t \in Tags \ OnDisk : meta'[t] = NoMeta
  BY <1>1 DEF OnDisk
<1>4. QED
  BY <1>1, <1>2, <1>3 DEF Kept

LEMMA KeptRollback ==
    ASSUME Kept, Rollback \/ CliDies \/ UNCHANGED vars
    PROVE  Kept'
<1>1. UNCHANGED <<meta, born, listed, current, clock, lab>>
  BY DEF Rollback, CliDies, StartRollback, OpenCopy, FillCopy, Unlink, LinkRestored,
         store, memory, vars
<1>2. QED
  BY <1>1 DEF Kept

LEMMA KeptStep == Typed /\ Kept /\ [Next]_vars => Kept'
<1> SUFFICES ASSUME Typed, Kept, [Next]_vars
             PROVE  Kept'
  OBVIOUS
<1>1. CASE FindGaps \/ NextGap
  BY <1>1, KeptQuiet
<1>2. CASE HandleGap
  BY <1>2, KeptQuiet, KeptJudge, KeptSnapshot, KeptCopy, KeptMeta, KeptRemove, KeptMark
     DEF HandleGap
<1>3. CASE LabRestarts
  BY <1>3, KeptRestart
<1>4. CASE Rollback \/ CliDies \/ UNCHANGED vars
  BY <1>4, KeptRollback
<1>5. QED
  BY <1>1, <1>2, <1>3, <1>4 DEF Next

LEMMA KeptInit == Init => Kept
<1> SUFFICES ASSUME Init PROVE Kept
  OBVIOUS
<1>1. lab.pc = "idle" /\ lab.doomed = {}
  BY FreshTyped DEF Init
<1>2. /\ current = NoTag /\ clock = 0
      /\ \A t \in Tags : meta[t] = NoMeta /\ born[t] = 0
  BY DEF Init, StoreInit
<1>3. QED
  BY <1>1, <1>2 DEF Kept

LEMMA StoreKept == Spec => [](Typed /\ Kept)
BY TypedInit, TypedStep, KeptInit, KeptStep, PTL DEF Spec

\* A patch that no re-fire has stopped never becomes a version.
THEOREM Verified == Spec => []VersionsWereVerified
<1>1. Kept => VersionsWereVerified
  BY DEF Kept, VersionsWereVerified, OnDisk
<1>2. QED
  BY <1>1, StoreKept, PTL

\* The version the lab takes for current is on its list, however many have been trimmed.
THEOREM CurrentStays == Spec => []CurrentIsKept
<1>1. Kept => CurrentIsKept
  BY DEF Kept, CurrentIsKept
<1>2. QED
  BY <1>1, StoreKept, PTL

\* What one step may do to a version.
Frozen == \A t \in Tags : meta[t] # NoMeta /\ meta'[t] # NoMeta =>
             meta'[t] = meta[t] /\ pats'[t] \in {pats[t], Absent}

LEMMA FrozenStep == Typed /\ Kept /\ [Next]_vars => Frozen
<1> SUFFICES ASSUME Typed, Kept, [Next]_vars, NEW t \in Tags,
                    meta[t] # NoMeta, meta'[t] # NoMeta
             PROVE  meta'[t] = meta[t] /\ pats'[t] \in {pats[t], Absent}
  BY DEF Frozen
<1> USE DEF Typed, TypeOK, StoreTypeOK, store
<1>0. t \in listed
  BY DEF Kept
<1>1. CASE Snapshot
  <2>1. CASE UNCHANGED <<store, clock>>
    BY <2>1
  <2>2. CASE ~UNCHANGED <<store, clock>>
    <3>1. PICK u \in Tags : /\ IsNextTag(u, listed) /\ pats' = [pats EXCEPT ![u] = Torn]
                            /\ meta' = meta
      BY <1>1, <2>2 DEF Snapshot
    <3>2. u # t
      BY <1>0, <3>1 DEF IsNextTag
    <3>3. QED
      BY <3>1, <3>2
  <2>3. QED
    BY <2>1, <2>2
<1>2. CASE CopyPatterns
  <2>1. lab.tag # t
    BY <1>0, <1>2 DEF CopyPatterns, At, Kept
  <2>2. QED
    BY <1>2, <2>1 DEF CopyPatterns
<1>3. CASE WriteMeta
  <2>1. lab.tag # t
    BY <1>0, <1>3 DEF WriteMeta, At, Kept
  <2>2. QED
    BY <1>3, <2>1 DEF WriteMeta
<1>4. CASE \E u \in Tags : RemoveVersion(u)
  <2>1. PICK u \in Tags : RemoveVersion(u)
    BY <1>4
  <2>2. QED
    BY <2>1 DEF RemoveVersion
<1>5. CASE ~(Snapshot \/ CopyPatterns \/ WriteMeta \/ \E u \in Tags : RemoveVersion(u))
  <2>1. pats' = pats /\ meta' = meta
    BY <1>5 DEF Next, FindGaps, NextGap, HandleGap, Generate, LoadPatterns, TruncateFile,
         WriteFile, Refire, Judge, MarkCurrent, LinkCurrent, LabThrows, LabRestarts,
         Rollback, CliDies, StartRollback, OpenCopy, FillCopy, Unlink, LinkRestored, vars
  <2>2. QED
    BY <2>1
<1>6. QED
  BY <1>1, <1>2, <1>3, <1>4, <1>5

\* A tagged copy is never written again: a new snapshot takes a number that no version
\* has, also after trims and restarts.
THEOREM CopiesFrozen == Spec => SnapshotsFrozen
<1>1. Typed /\ Kept /\ [Next]_vars => [Frozen]_vars
  BY FrozenStep
<1>2. QED
  BY <1>1, StoreKept, PTL DEF SnapshotsFrozen, Frozen, Spec

--------------------------------------------------------------------------------
(* One patterns.json for both proxies and two processes: what becomes of a patch *)

\* f has every entry whose score the patch changes.
Covers(f, patch) == \A p \in Patterns : patch.raised[p] # 0 => f[p] # 0

Busy == lab.pc \notin {"idle", "gap"}
\* From the write on, the patch is in patterns.json.
Live == lab.pc = "refire" \/ lab.passed

\* Without an overlap the two processes take turns ...
Alone == ~overlap /\ Busy => cli.pc = "off"

\* ... so the file that the lab patches keeps its patch until the copy is linked ...
Patched ==
    /\ lab.passed => lab.pc \in {"judge", "health", "copy", "meta", "trim", "symlink"}
    /\ ~overlap =>
          /\ lab.pc = "load" => Covers(Parsed(file), lab.patch)
          /\ lab.pc \in {"truncate", "write"} => Covers(lab.loaded, lab.patch)
          /\ lab.pc = "write" => file = Torn
          /\ lab.pc = "write" \/ Live => stray
          /\ Live => file # Torn /\ Holds(file, lab.patch)
          /\ lab.pc \in {"meta", "trim", "symlink"} => pats[lab.tag] = file

\* ... and the version that is linked is the one whose copy was last put there.
Linked ==
    ~overlap =>
        /\ cli.pc \in {"off", "restore"} /\ link # NoTag => stray \/ pats[link] \in {file, Absent}
        /\ cli.pc = "write" => file = Torn /\ cli.copied = pats[cli.tag]
        /\ cli.pc \in {"unlink", "symlink"} => file = pats[cli.tag]
        /\ cli.pc = "symlink" => link = NoTag

LEMMA PatchCovers ==
    ASSUME NEW f \in Contents, NEW c \in Causes, NEW patch \in Patches(f, c)
    PROVE  Covers(f, patch)
<1> DEFINE raise(fired) == [p \in Patterns |-> IF p \notin fired \/ f[p] = 0 THEN 0
                                               ELSE IF f[p] < Top THEN f[p] + 1 ELSE Top]
<1>1. patch.raised = Nothing \/ \E S \in SUBSET Patterns : patch.raised = raise(S)
  BY DEF Patches
<1>2. CASE patch.raised = Nothing
  BY <1>2 DEF Covers, Nothing
<1>3. CASE \E S \in SUBSET Patterns : patch.raised = raise(S)
  BY <1>3 DEF Covers
<1>4. QED
  BY <1>1, <1>2, <1>3

\* What apply_to_green saves holds the patch if the file it loaded had the entries that
\* the patch raises.
LEMMA AppliedHolds ==
    ASSUME NEW f \in Contents, NEW patch \in Patch, Covers(f, patch)
    PROVE  Holds(Applied(f, patch), patch)
<1>1. \A p \in Patterns :
         Applied(f, patch)[p] = CASE f[p] # 0 /\ patch.raised[p] # 0 -> patch.raised[p]
                                  [] f[p] = 0 /\ p \in patch.added   -> 1
                                  [] OTHER                           -> f[p]
  BY DEF Applied
<1>2. patch.added \subseteq Patterns
  BY DEF Patch
<1>3. \A p \in patch.added : Applied(f, patch)[p] # 0
  BY <1>1, <1>2
<1>4. \A p \in Patterns : patch.raised[p] # 0 => Applied(f, patch)[p] = patch.raised[p]
  BY <1>1 DEF Covers
<1>5. QED
  BY <1>3, <1>4 DEF Holds

Traced == Alone /\ Patched /\ Linked /\ SnapshotHoldsPatch
Known == Typed /\ Kept /\ Traced

\* Once the processes have overlapped, nothing is claimed but that a verification is
\* never left over for the next gap.
LEMMA PassedPlace ==
    ASSUME Known, [Next]_vars
    PROVE  lab'.passed => lab'.pc \in {"judge", "health", "copy", "meta", "trim", "symlink"}
<1> USE DEF Known, Typed, TypeOK, Traced, Patched, At
<1>0. /\ ~GapDone.passed /\ ~Fresh.passed
      /\ lab.passed => lab.pc \in {"judge", "health", "copy", "meta", "trim", "symlink"}
  BY GapDoneTyped, FreshTyped
<1>1. CASE FindGaps \/ NextGap
  BY <1>0, <1>1 DEF FindGaps, NextGap, LabState
<1>2. CASE Generate \/ LoadPatterns \/ TruncateFile \/ WriteFile
  BY <1>0, <1>2 DEF Generate, LoadPatterns, TruncateFile, WriteFile, LabState
<1>3. CASE Refire \/ Judge
  BY <1>0, <1>3 DEF Refire, Judge, LabState
<1>4. CASE Snapshot \/ CopyPatterns \/ WriteMeta \/ MarkCurrent
  BY <1>0, <1>4 DEF Snapshot, CopyPatterns, WriteMeta, MarkCurrent, LabState
<1>5. CASE \E t \in Tags : RemoveVersion(t)
  BY <1>0, <1>5 DEF RemoveVersion, LabState
<1>6. CASE LinkCurrent \/ LabThrows \/ LabRestarts
  BY <1>0, <1>6 DEF LinkCurrent, LabThrows, LabRestarts
<1>7. CASE Rollback \/ CliDies \/ UNCHANGED vars
  BY <1>0, <1>7 DEF Rollback, CliDies, StartRollback, OpenCopy, FillCopy, Unlink, LinkRestored,
                    vars
<1>8. QED
  BY <1>1, <1>2, <1>3, <1>4, <1>5, <1>6, <1>7 DEF Next, HandleGap

LEMMA Disturbed ==
    ASSUME Known, [Next]_vars, overlap'
    PROVE  Traced'
BY PassedPlace DEF Traced, Alone, Patched, Linked, SnapshotHoldsPatch

LEMMA OverlapStays == Typed /\ [Next]_vars /\ overlap => overlap'
BY DEF Typed, TypeOK, Next, FindGaps, NextGap, HandleGap, Generate, LoadPatterns, TruncateFile,
       WriteFile, Refire, Judge, Snapshot, CopyPatterns, WriteMeta, RemoveVersion, MarkCurrent,
       LinkCurrent, LabThrows, LabRestarts, Rollback, CliDies, StartRollback, OpenCopy, FillCopy,
       Unlink, LinkRestored, vars

\* Steps of the lab that leave the files alone and carry no verified patch.
LEMMA TracedQuiet ==
    ASSUME Known, ~overlap, UNCHANGED <<store, cli>>, stray => stray',
           Busy' => cli.pc = "off",
           ~lab'.passed, lab'.pc \notin {"load", "truncate", "write", "refire", "meta", "trim", "symlink"}
    PROVE  Traced'
<1> USE DEF Known, Typed, TypeOK, Traced, Patched, store
<1>1. Alone'
  BY DEF Alone, Busy
<1>2. Patched'
  BY DEF Live
<1>3. Linked'
  BY DEF Linked
<1>4. SnapshotHoldsPatch'
  <2> SUFFICES ASSUME NEW t \in Tags, meta[t] # NoMeta
               PROVE  \/ overlap' \/ pats[t] = Absent
                      \/ (pats[t] # Torn /\ Holds(pats[t], meta[t].patch))
    BY DEF SnapshotHoldsPatch, OnDisk, Holds
  <2>1. QED
    BY DEF SnapshotHoldsPatch, OnDisk
<1>5. QED
  BY <1>1, <1>2, <1>3, <1>4

LEMMA TracedFind ==
    ASSUME Known, ~overlap', FindGaps \/ NextGap \/ LabThrows \/ LabRestarts \/ Judge
    PROVE  Traced' \/ (Judge /\ lab' # GapDone)
<1> USE DEF At
<1>0. /\ GapDone.pc = "gap" /\ ~GapDone.passed /\ Fresh.pc = "idle" /\ ~Fresh.passed
  BY GapDoneTyped, FreshTyped DEF Known, Typed, TypeOK
<1>1. ~overlap /\ UNCHANGED <<store, cli, stray>>
  BY DEF FindGaps, NextGap, LabThrows, LabRestarts, Judge, Known, Typed, TypeOK
<1>2. CASE FindGaps
  <2>1. lab'.pc = "gap" /\ ~lab'.passed
    BY <1>2 DEF FindGaps, Known, Typed, TypeOK, LabState, Traced, Patched
  <2>2. QED
    BY <1>1, <2>1, TracedQuiet DEF Busy
<1>3. CASE NextGap
  <2>1. ~lab.passed
    BY <1>3 DEF NextGap, Known, Traced, Patched
  <2>2. \/ lab'.pc = "idle" /\ ~lab'.passed
        \/ lab'.pc = "generate" /\ ~lab'.passed /\ overlap' = (overlap \/ cli.pc # "off")
    BY <1>0, <1>3, <2>1 DEF NextGap, Known, Typed, TypeOK, LabState
  <2>3. QED
    BY <1>1, <2>2, TracedQuiet DEF Busy
<1>4. CASE LabThrows \/ LabRestarts \/ (Judge /\ lab' = GapDone)
  <2>1. lab'.pc \in {"idle", "gap"} /\ ~lab'.passed
    BY <1>0, <1>4 DEF LabThrows, LabRestarts
  <2>2. QED
    BY <1>1, <2>1, TracedQuiet DEF Busy
<1>5. QED
  BY <1>2, <1>3, <1>4

\* While the lab handles a gap the command does not run.
LEMMA Turns ==
    ASSUME Known, ~overlap, HandleGap
    PROVE  cli.pc = "off" /\ cli' = cli /\ overlap' = overlap
<1>1. cli' = cli /\ overlap' = overlap
  BY DEF HandleGap, Generate, LoadPatterns, TruncateFile, WriteFile, Refire, Judge, Snapshot,
         CopyPatterns, WriteMeta, RemoveVersion, MarkCurrent, LinkCurrent, LabThrows
<1>2. Busy
  BY DEF HandleGap, Generate, LoadPatterns, TruncateFile, WriteFile, Refire, Judge, Snapshot, At,
         CopyPatterns, WriteMeta, RemoveVersion, MarkCurrent, LinkCurrent, LabThrows, Busy
<1>3. QED
  BY <1>1, <1>2 DEF Known, Traced, Alone

\* The versions while none of them changes.
LEMMA VersionsSame ==
    ASSUME Known, ~overlap, pats' = pats, meta' = meta
    PROVE  SnapshotHoldsPatch'
<1> SUFFICES ASSUME NEW t \in Tags, meta[t] # NoMeta
             PROVE  \/ pats[t] = Absent
                    \/ (pats[t] # Torn /\ Holds(pats[t], meta[t].patch))
  BY DEF SnapshotHoldsPatch, OnDisk, Holds
<1>1. QED
  BY DEF Known, Traced, SnapshotHoldsPatch, OnDisk

LEMMA TracedGenerate ==
    ASSUME Known, ~overlap, Generate
    PROVE  Traced'
<1>1. cli.pc = "off" /\ UNCHANGED <<store, cli, stray, overlap>> /\ ~lab.passed
  BY Turns DEF HandleGap, Generate, At, Known, Traced, Patched
<1>2. CASE lab' = [lab EXCEPT !.pc = "judge"]
  <2>1. lab'.pc = "judge" /\ ~lab'.passed
    BY <1>1, <1>2 DEF Known, Typed, TypeOK, LabState
  <2>2. QED
    BY <1>1, <2>1, TracedQuiet
<1>3. CASE lab' # [lab EXCEPT !.pc = "judge"]
  <2>1. PICK patch \in Patches(Parsed(file), lab.cause) :
           lab' = [lab EXCEPT !.pc = "load", !.patch = patch]
    BY <1>3 DEF Generate
  <2>2. lab.cause \in Causes /\ Parsed(file) \in Contents
    BY ParsedTyped DEF Generate, At, Known, Typed, TypeOK, StoreTypeOK, Placed
  <2>3. Covers(Parsed(file), patch)
    BY <2>1, <2>2, PatchCovers
  <2>4. lab'.pc = "load" /\ lab'.patch = patch /\ ~lab'.passed
    BY <1>1, <2>1 DEF Known, Typed, TypeOK, LabState
  <2>5. Parsed(file)' = Parsed(file)
    BY <1>1 DEF store, Parsed
  <2>6. Patched'
    BY <2>3, <2>4, <2>5 DEF Patched, Live, Covers
  <2>7. Alone' /\ Linked'
    BY <1>1 DEF Alone, Linked, Known, Traced, store
  <2>8. QED
    BY <1>1, <2>6, <2>7, VersionsSame DEF Traced, store
<1>4. QED
  BY <1>2, <1>3

LEMMA TracedLoad ==
    ASSUME Known, ~overlap, LoadPatterns
    PROVE  Traced'
<1>1. cli.pc = "off" /\ UNCHANGED <<store, cli, stray, overlap>> /\ ~lab.passed
  BY Turns DEF HandleGap, LoadPatterns, At, Known, Traced, Patched
<1>2. Covers(Parsed(file), lab.patch)
  BY DEF LoadPatterns, At, Known, Traced, Patched
<1>3. /\ lab'.pc = "truncate" /\ lab'.patch = lab.patch /\ ~lab'.passed
      /\ lab'.loaded = Parsed(file)
  BY <1>1 DEF LoadPatterns, Known, Typed, TypeOK, LabState
<1>4. Patched'
  BY <1>2, <1>3 DEF Patched, Live, Covers
<1>5. Alone' /\ Linked'
  BY <1>1 DEF Alone, Linked, Known, Traced, store
<1>6. QED
  BY <1>1, <1>4, <1>5, VersionsSame DEF Traced, store

LEMMA TracedTruncate ==
    ASSUME Known, ~overlap, TruncateFile
    PROVE  Traced'
<1>1. /\ cli.pc = "off" /\ UNCHANGED <<pats, meta, link, cli, overlap>> /\ ~lab.passed
      /\ Covers(lab.loaded, lab.patch)
  BY Turns DEF HandleGap, TruncateFile, At, Known, Traced, Patched
<1>2. CASE lab' = [lab EXCEPT !.pc = "write"] /\ file' = Torn /\ stray' = TRUE
  <2>1. lab'.pc = "write" /\ lab'.patch = lab.patch /\ ~lab'.passed /\ lab'.loaded = lab.loaded
    BY <1>1, <1>2 DEF Known, Typed, TypeOK, LabState
  <2>2. Patched'
    BY <1>1, <1>2, <2>1 DEF Patched, Live, Covers
  <2>3. Alone' /\ Linked'
    BY <1>1, <1>2 DEF Alone, Linked
  <2>4. QED
    BY <1>1, <2>2, <2>3, VersionsSame DEF Traced
<1>3. CASE lab' = [lab EXCEPT !.pc = "judge", !.loaded = Nothing] /\ UNCHANGED <<file, stray>>
  <2>1. lab'.pc = "judge" /\ ~lab'.passed
    BY <1>1, <1>3 DEF Known, Typed, TypeOK, LabState
  <2>2. UNCHANGED store
    BY <1>3 DEF TruncateFile, store
  <2>3. QED
    BY <1>1, <1>3, <2>1, <2>2, TracedQuiet
<1>4. QED
  BY <1>2, <1>3 DEF TruncateFile

LEMMA TracedWrite ==
    ASSUME Known, ~overlap, WriteFile
    PROVE  Traced'
<1>1. /\ cli.pc = "off" /\ UNCHANGED <<pats, meta, link, cli, stray, overlap>> /\ ~lab.passed
      /\ Covers(lab.loaded, lab.patch) /\ file = Torn /\ stray
  BY Turns DEF HandleGap, WriteFile, At, Known, Traced, Patched
<1>2. CASE /\ file' \in Written(Applied(lab.loaded, lab.patch))
           /\ lab' = [lab EXCEPT !.pc = "refire", !.loaded = Nothing]
  <2>1. lab'.pc = "refire" /\ lab'.patch = lab.patch /\ ~lab'.passed
    BY <1>1, <1>2 DEF Known, Typed, TypeOK, LabState
  <2>2. lab.loaded \in Contents /\ lab.patch \in Patch
    BY DEF Known, Typed, TypeOK, LabState
  <2>3. file' = Applied(lab.loaded, lab.patch)
    BY <1>1, <1>2 DEF Written
  <2>4. file' # Torn
    BY <2>2, <2>3, AppliedTyped, StoreConstants
  <2>5. Holds(file', lab'.patch)
    BY <1>1, <2>1, <2>2, <2>3, AppliedHolds
  <2>6. Patched'
    BY <1>1, <2>1, <2>4, <2>5 DEF Patched, Live, Holds
  <2>7. Alone' /\ Linked'
    BY <1>1 DEF Alone, Linked
  <2>8. QED
    BY <1>1, <2>6, <2>7, VersionsSame DEF Traced
<1>3. CASE lab' = [lab EXCEPT !.pc = "judge", !.loaded = Nothing] /\ file' = file
  <2>1. lab'.pc = "judge" /\ ~lab'.passed
    BY <1>1, <1>3 DEF Known, Typed, TypeOK, LabState
  <2>2. UNCHANGED store
    BY <1>3 DEF WriteFile, store
  <2>3. QED
    BY <1>1, <1>3, <2>1, <2>2, TracedQuiet
<1>4. QED
  BY <1>2, <1>3 DEF WriteFile

\* A verified patch on its way to the snapshot.
LEMMA TracedCarried ==
    ASSUME Known, ~overlap, HandleGap, UNCHANGED <<file, meta, link, stray>>, Live,
           lab'.passed, lab'.pc \in {"judge", "health", "copy"}, lab'.patch = lab.patch,
           SnapshotHoldsPatch'
    PROVE  Traced'
<1>1. cli.pc = "off" /\ UNCHANGED <<cli, overlap>>
  BY Turns
<1>2. stray /\ file # Torn /\ Holds(file, lab.patch)
  BY DEF Known, Traced, Patched
<1>3. Patched'
  BY <1>2 DEF Patched, Live, Holds
<1>4. Alone' /\ Linked'
  BY <1>1, <1>2 DEF Alone, Linked
<1>5. QED
  BY <1>3, <1>4 DEF Traced

LEMMA TracedRefire ==
    ASSUME Known, ~overlap, Refire
    PROVE  Traced'
<1> USE DEF At
<1>1. /\ cli.pc = "off" /\ UNCHANGED <<store, cli, stray, overlap>> /\ ~lab.passed
      /\ lab.pc = "refire"
  BY Turns DEF HandleGap, Refire, Known, Traced, Patched
<1>2. CASE lab' = [lab EXCEPT !.pc = "judge", !.attempt = 0, !.passed = TRUE]
  <2>1. lab'.pc = "judge" /\ lab'.patch = lab.patch /\ lab'.passed
    BY <1>2 DEF Known, Typed, TypeOK, LabState
  <2>2. SnapshotHoldsPatch'
    BY <1>1, VersionsSame DEF store
  <2>3. QED
    BY <1>1, <2>1, <2>2, TracedCarried DEF HandleGap, Live, store
<1>3. CASE lab' # [lab EXCEPT !.pc = "judge", !.attempt = 0, !.passed = TRUE]
  <2>1. lab'.pc \in {"generate", "gap"} /\ ~lab'.passed
    BY <1>1, <1>3, GapDoneTyped DEF Refire, Known, Typed, TypeOK, LabState
  <2>2. QED
    BY <1>1, <2>1, TracedQuiet
<1>4. QED
  BY <1>2, <1>3

LEMMA TracedJudge ==
    ASSUME Known, ~overlap, Judge, lab' # GapDone
    PROVE  Traced'
<1>1. UNCHANGED <<store, stray>> /\ lab.passed /\ lab' = [lab EXCEPT !.pc = "health"]
  BY DEF Judge
<1>2. lab'.pc = "health" /\ lab'.patch = lab.patch /\ lab'.passed
  BY <1>1 DEF Known, Typed, TypeOK, LabState
<1>3. SnapshotHoldsPatch'
  BY <1>1, VersionsSame DEF store
<1>4. QED
  BY <1>1, <1>2, <1>3, TracedCarried DEF HandleGap, Live, store

LEMMA TracedSnapshot ==
    ASSUME Known, ~overlap, Snapshot
    PROVE  Traced'
<1>1. CASE lab' = GapDone /\ UNCHANGED <<store, clock>>
  <2>1. cli.pc = "off" /\ UNCHANGED <<cli, stray>>
    BY Turns DEF HandleGap, Snapshot
  <2>2. lab'.pc = "gap" /\ ~lab'.passed
    BY <1>1, GapDoneTyped DEF Known, Typed, TypeOK
  <2>3. QED
    BY <1>1, <2>1, <2>2, TracedQuiet
<1>2. CASE ~(lab' = GapDone /\ UNCHANGED <<store, clock>>)
  <2>1. PICK t \in Tags : /\ IsNextTag(t, listed)
                          /\ lab' = [lab EXCEPT !.pc = "copy", !.tag = t]
                          /\ pats' = [pats EXCEPT ![t] = Torn]
                          /\ UNCHANGED <<file, meta, link>>
    BY <1>2 DEF Snapshot
  <2>2. lab.passed /\ meta[t] = NoMeta /\ UNCHANGED <<stray, overlap>>
    BY <2>1 DEF Snapshot, At, Known, Kept, IsNextTag
  <2>3. lab'.pc = "copy" /\ lab'.patch = lab.patch /\ lab'.passed
    BY <2>1, <2>2 DEF Known, Typed, TypeOK, LabState
  <2>4. SnapshotHoldsPatch'
    <3> SUFFICES ASSUME NEW u \in Tags, meta[u] # NoMeta
                 PROVE  \/ pats'[u] = Absent
                        \/ (pats'[u] # Torn /\ Holds(pats'[u], meta[u].patch))
      BY <2>1 DEF SnapshotHoldsPatch, OnDisk, Holds
    <3>1. pats'[u] = pats[u]
      BY <2>1, <2>2 DEF Known, Typed, TypeOK, StoreTypeOK
    <3>2. QED
      BY <3>1 DEF Known, Traced, SnapshotHoldsPatch, OnDisk
  <2>5. QED
    BY <2>1, <2>2, <2>3, <2>4, TracedCarried DEF HandleGap, Live
<1>3. QED
  BY <1>1, <1>2

LEMMA TracedCopy ==
    ASSUME Known, ~overlap, CopyPatterns
    PROVE  Traced'
<1>1. /\ cli.pc = "off" /\ UNCHANGED <<file, meta, link, cli, stray, overlap>>
      /\ pats' = [pats EXCEPT ![lab.tag] = file]
  BY Turns DEF HandleGap, CopyPatterns
<1>2. lab.tag \in Tags /\ meta[lab.tag] = NoMeta /\ lab.passed
  BY DEF CopyPatterns, At, Known, Kept, Typed, Placed
<1>3. stray /\ file # Torn /\ Holds(file, lab.patch)
  BY <1>2 DEF Known, Traced, Patched, Live
<1>4. /\ lab'.pc = "meta" /\ lab'.patch = lab.patch /\ lab'.tag = lab.tag
      /\ lab'.passed
  BY <1>2 DEF CopyPatterns, Known, Typed, TypeOK, LabState
<1>5. pats'[lab.tag] = file /\ \A u \in Tags \ {lab.tag} : pats'[u] = pats[u]
  BY <1>1, <1>2 DEF Known, Typed, TypeOK, StoreTypeOK
<1>6. Patched'
  BY <1>1, <1>3, <1>4, <1>5 DEF Patched, Live, Holds
<1>7. Alone' /\ Linked'
  BY <1>1, <1>3 DEF Alone, Linked
<1>8. SnapshotHoldsPatch'
  <2> SUFFICES ASSUME NEW u \in Tags, meta[u] # NoMeta
               PROVE  \/ pats'[u] = Absent
                      \/ (pats'[u] # Torn /\ Holds(pats'[u], meta[u].patch))
    BY <1>1 DEF SnapshotHoldsPatch, OnDisk, Holds
  <2>1. pats'[u] = pats[u]
    BY <1>2, <1>5
  <2>2. QED
    BY <2>1 DEF Known, Traced, SnapshotHoldsPatch, OnDisk
<1>9. QED
  BY <1>6, <1>7, <1>8 DEF Traced

LEMMA TracedMeta ==
    ASSUME Known, ~overlap, WriteMeta
    PROVE  Traced'
<1> DEFINE m == [patch |-> lab.patch, passed |-> lab.passed]
<1>1. /\ cli.pc = "off" /\ UNCHANGED <<file, pats, link, cli, stray, overlap>>
      /\ meta' = [meta EXCEPT ![lab.tag] = m]
  BY Turns DEF HandleGap, WriteMeta
<1>2. lab.tag \in Tags /\ lab.passed /\ pats[lab.tag] = file
  BY DEF WriteMeta, At, Known, Kept, Typed, Placed, Traced, Patched
<1>3. stray /\ file # Torn /\ Holds(file, lab.patch)
  BY <1>2 DEF Known, Traced, Patched, Live
<1>4. lab'.pc = "trim" /\ lab'.patch = lab.patch /\ lab'.tag = lab.tag
  BY DEF WriteMeta, Known, Typed, TypeOK, LabState
<1>5. Patched'
  BY <1>1, <1>2, <1>3, <1>4 DEF Patched, Live, Holds
<1>6. Alone' /\ Linked'
  BY <1>1, <1>3 DEF Alone, Linked
<1>7. SnapshotHoldsPatch'
  <2> SUFFICES ASSUME NEW u \in Tags, meta'[u] # NoMeta
               PROVE  \/ pats[u] = Absent
                      \/ (pats[u] # Torn /\ Holds(pats[u], meta'[u].patch))
    BY <1>1 DEF SnapshotHoldsPatch, OnDisk, Holds
  <2>1. CASE u = lab.tag
    <3>1. meta'[u].patch = lab.patch
      BY <1>1, <1>2, <2>1 DEF Known, Typed, TypeOK, StoreTypeOK
    <3>2. QED
      BY <1>2, <1>3, <2>1, <3>1
  <2>2. CASE u # lab.tag
    <3>1. meta'[u] = meta[u]
      BY <1>1, <2>2 DEF Known, Typed, TypeOK, StoreTypeOK
    <3>2. QED
      BY <3>1 DEF Known, Traced, SnapshotHoldsPatch, OnDisk
  <2>3. QED
    BY <2>1, <2>2
<1>8. QED
  BY <1>5, <1>6, <1>7 DEF Traced

LEMMA TracedRemove ==
    ASSUME Known, ~overlap, NEW t \in Tags, RemoveVersion(t)
    PROVE  Traced'
<1> USE DEF Known, Typed, TypeOK, StoreTypeOK
<1>1. cli.pc = "off" /\ UNCHANGED <<file, link, cli, stray, overlap>>
  BY Turns DEF HandleGap, RemoveVersion
<1>2. lab.pc = "trim" /\ t # lab.tag /\ lab.tag \in Tags
  BY DEF RemoveVersion, At, Kept, Placed
<1>3. /\ \A u \in Tags : pats'[u] \in {pats[u], Absent} /\ meta'[u] \in {meta[u], NoMeta}
      /\ pats'[lab.tag] = pats[lab.tag]
  BY <1>2 DEF RemoveVersion
<1>4. lab'.pc = "trim" /\ lab'.patch = lab.patch /\ lab'.tag = lab.tag /\ lab'.passed = lab.passed
  <2>1. lab' = lab \/ lab' = [lab EXCEPT !.doomed = @ \ {t}]
    BY DEF RemoveVersion
  <2>2. QED
    BY <1>2, <2>1 DEF LabState
<1>5. Patched'
  BY <1>1, <1>2, <1>3, <1>4 DEF Patched, Live, Holds, Traced
<1>6. Alone'
  BY <1>1 DEF Alone
<1>7. Linked'
  <2> SUFFICES ASSUME link # NoTag
               PROVE  stray \/ pats'[link] \in {file, Absent}
    BY <1>1 DEF Linked
  <2>1. link \in Tags /\ (stray \/ pats[link] \in {file, Absent})
    BY <1>1 DEF Linked, Traced
  <2>2. QED
    BY <1>3, <2>1
<1>8. SnapshotHoldsPatch'
  <2> SUFFICES ASSUME NEW u \in Tags, meta'[u] # NoMeta
               PROVE  \/ pats'[u] = Absent
                      \/ (pats'[u] # Torn /\ Holds(pats'[u], meta'[u].patch))
    BY <1>1 DEF SnapshotHoldsPatch, OnDisk, Holds
  <2>1. meta'[u] = meta[u] /\ pats'[u] \in {pats[u], Absent}
    BY <1>3
  <2>2. QED
    BY <2>1 DEF Traced, SnapshotHoldsPatch, OnDisk
<1>9. QED
  BY <1>5, <1>6, <1>7, <1>8 DEF Traced

LEMMA TracedMark ==
    ASSUME Known, ~overlap, MarkCurrent
    PROVE  Traced'
<1>1. /\ cli.pc = "off" /\ UNCHANGED <<file, pats, meta, cli, stray, overlap>>
      /\ link' = NoTag /\ lab.pc = "trim"
  BY Turns DEF HandleGap, MarkCurrent, At
<1>2. /\ lab'.pc = "symlink" /\ lab'.patch = lab.patch /\ lab'.tag = lab.tag
      /\ lab'.passed = lab.passed
  BY DEF MarkCurrent, Known, Typed, TypeOK, LabState
<1>3. Patched'
  BY <1>1, <1>2 DEF Patched, Live, Holds, Known, Traced
<1>4. Alone' /\ Linked'
  BY <1>1 DEF Alone, Linked
<1>5. QED
  BY <1>1, <1>3, <1>4, VersionsSame DEF Traced

LEMMA TracedLink ==
    ASSUME Known, ~overlap, LinkCurrent
    PROVE  Traced'
<1>1. /\ cli.pc = "off" /\ UNCHANGED <<file, pats, meta, cli, overlap>>
      /\ lab.pc = "symlink"
  BY Turns DEF HandleGap, LinkCurrent, At
<1>2. lab'.pc = "gap" /\ ~lab'.passed
  BY GapDoneTyped DEF LinkCurrent, Known, Typed, TypeOK
<1>3. pats[lab.tag] = file
  BY <1>1 DEF Known, Traced, Patched
<1>4. \/ link' = lab.tag /\ stray' = FALSE
      \/ UNCHANGED <<link, stray>>
  BY DEF LinkCurrent
<1>5. Patched'
  BY <1>2 DEF Patched, Live
<1>6. Linked'
  BY <1>1, <1>3, <1>4 DEF Linked, Known, Traced
<1>7. Alone'
  BY <1>1 DEF Alone
<1>8. QED
  BY <1>1, <1>5, <1>6, <1>7, VersionsSame DEF Traced

LEMMA TracedRollback ==
    ASSUME Known, ~overlap', Rollback \/ CliDies
    PROVE  Traced'
<1> USE DEF Known, Typed, TypeOK, StoreTypeOK, Traced
<1>1. ~overlap /\ lab' = lab /\ pats' = pats /\ meta' = meta
  BY DEF Rollback, CliDies, StartRollback, OpenCopy, FillCopy, Unlink, LinkRestored, store
<1>2. SnapshotHoldsPatch'
  BY <1>1, VersionsSame
<1>3. lab.pc \in {"idle", "gap"}
  BY <1>1 DEF Rollback, CliDies, StartRollback, OpenCopy, FillCopy, Unlink, LinkRestored,
              Alone, Busy
<1>4. ~lab.passed
  BY <1>3 DEF Patched
<1>5. Patched' /\ Alone'
  BY <1>1, <1>3, <1>4 DEF Patched, Alone, Busy, Live
<1>6. Linked'
  <2>1. CASE \E t \in Tags : StartRollback(t)
    <3>1. PICK t \in Tags : StartRollback(t)
      BY <2>1
    <3>2. cli'.pc = "restore" /\ cli.pc = "off" /\ UNCHANGED <<store, stray>>
      BY <3>1 DEF StartRollback, Off
    <3>3. QED
      BY <1>1, <3>2 DEF Linked, store
  <2>2. CASE OpenCopy
    <3>1. cli.pc = "restore" /\ cli.tag \in Tags /\ UNCHANGED <<link, stray>>
      BY <2>2 DEF OpenCopy, CliPlaced
    <3>2. CASE cli' = Off /\ UNCHANGED file
      BY <1>1, <3>1, <3>2 DEF Linked, Off
    <3>3. CASE ~(cli' = Off /\ UNCHANGED file)
      <4>1. /\ cli' = [cli EXCEPT !.pc = "write", !.copied = pats[cli.tag]]
            /\ file' = Torn
        BY <2>2, <3>3 DEF OpenCopy
      <4>2. cli'.pc = "write" /\ cli'.tag = cli.tag /\ cli'.copied = pats[cli.tag]
        BY <4>1 DEF CliState
      <4>3. QED
        BY <1>1, <4>1, <4>2 DEF Linked
    <3>4. QED
      BY <3>2, <3>3
  <2>3. CASE FillCopy
    <3>1. cli'.pc = "unlink" /\ cli'.tag = cli.tag
      BY <2>3 DEF FillCopy, CliState
    <3>2. file' = pats[cli.tag]
      BY <1>1, <2>3 DEF FillCopy, Written, Linked
    <3>3. QED
      BY <1>1, <3>1, <3>2 DEF Linked
  <2>4. CASE Unlink
    <3>1. cli'.pc = "symlink" /\ cli'.tag = cli.tag /\ link' = NoTag /\ file' = file
      BY <2>4 DEF Unlink, CliState
    <3>2. file = pats[cli.tag]
      BY <1>1, <2>4 DEF Unlink, Linked
    <3>3. QED
      BY <1>1, <3>1, <3>2 DEF Linked
  <2>5. CASE LinkRestored
    <3>1. cli' = Off /\ file' = file
      BY <2>5 DEF LinkRestored
    <3>2. file = pats[cli.tag] /\ link = NoTag
      BY <1>1, <2>5 DEF LinkRestored, Linked
    <3>3. link' = cli.tag
      BY <2>5, <3>2 DEF LinkRestored
    <3>4. QED
      BY <1>1, <3>1, <3>2, <3>3 DEF Linked, Off
  <2>6. CASE CliDies
    BY <2>6 DEF CliDies, Linked, Off
  <2>7. QED
    BY <2>1, <2>2, <2>3, <2>4, <2>5, <2>6 DEF Rollback
<1>7. QED
  BY <1>2, <1>5, <1>6

LEMMA TracedStep == Known /\ [Next]_vars => Traced'
<1> SUFFICES ASSUME Known, [Next]_vars
             PROVE  Traced'
  OBVIOUS
<1>1. CASE overlap'
  BY <1>1, Disturbed
<1>2. CASE ~overlap'
  <2>1. ~overlap
    BY <1>2, OverlapStays DEF Known
  <2>2. CASE FindGaps \/ NextGap \/ LabRestarts \/ LabThrows \/ Judge
    BY <1>2, <2>1, <2>2, TracedFind, TracedJudge
  <2>3. CASE HandleGap
    BY <2>1, <2>2, <2>3, TracedGenerate, TracedLoad, TracedTruncate, TracedWrite, TracedRefire,
       TracedSnapshot, TracedCopy, TracedMeta, TracedRemove, TracedMark, TracedLink
       DEF HandleGap
  <2>4. CASE Rollback \/ CliDies
    BY <1>2, <2>4, TracedRollback
  <2>5. CASE UNCHANGED vars
    <3>1. SnapshotHoldsPatch'
      BY <2>1, <2>5, VersionsSame DEF vars, store
    <3>2. Alone' /\ Patched' /\ Linked'
      BY <2>5 DEF vars, store, Known, Traced, Alone, Busy, Patched, Live, Linked, Covers, Holds,
                  Parsed
    <3>3. QED
      BY <3>1, <3>2 DEF Traced
  <2>6. QED
    BY <2>2, <2>3, <2>4, <2>5 DEF Next
<1>3. QED
  BY <1>1, <1>2

LEMMA TracedInit == Init => Traced
<1> SUFFICES ASSUME Init PROVE Traced
  OBVIOUS
<1>1. lab.pc = "idle" /\ ~lab.passed /\ cli.pc = "off" /\ link = NoTag
  BY FreshTyped DEF Init, StoreInit, Off
<1>2. \A t \in Tags : meta[t] = NoMeta
  BY DEF Init, StoreInit
<1>3. QED
  BY <1>1, <1>2 DEF Traced, Alone, Busy, Patched, Live, Linked, SnapshotHoldsPatch, OnDisk

LEMMA LabKnown == Spec => []Known
<1>1. Init => Known
  BY TypedInit, KeptInit, TracedInit DEF Known
<1>2. Known /\ [Next]_vars => Known'
  BY TypedStep, KeptStep, TracedStep DEF Known
<1>3. QED
  BY <1>1, <1>2, PTL DEF Spec

\* A version holds the patch it was made for, whole, if no rollback ran meanwhile.
THEOREM SnapshotsHold == Spec => []SnapshotHoldsPatch
<1>1. Known => SnapshotHoldsPatch
  BY DEF Known, Traced
<1>2. QED
  BY <1>1, LabKnown, PTL

\* At rest the link names the version that is live, as long as no patch was left over and
\* the processes took turns.
THEOREM LinkTrue == Spec => []LinkIsTrue
<1>1. Known => LinkIsTrue
  BY DEF Known, Traced, Linked, LinkIsTrue
<1>2. QED
  BY <1>1, LabKnown, PTL

--------------------------------------------------------------------------------
(* Refinement of VersionHistory *)

\* Before its metadata are written, the copy of a snapshot is there.
Copied == At("meta") => pats[lab.tag] # Absent

LEMMA CopiedStep == Typed /\ Copied /\ [Next]_vars => Copied'
<1> SUFFICES ASSUME Typed, Copied, [Next]_vars, lab'.pc = "meta"
             PROVE  pats'[lab'.tag] # Absent
  BY DEF Copied, At
<1> USE DEF Typed, TypeOK, StoreTypeOK
<1>1. CASE CopyPatterns
  <2>1. lab.tag \in Tags /\ lab'.tag = lab.tag
    BY <1>1 DEF CopyPatterns, At, Placed, LabState
  <2>2. QED
    BY <1>1, <2>1, StoreConstants DEF CopyPatterns
<1>2. CASE Rollback \/ CliDies \/ UNCHANGED vars
  <2>1. UNCHANGED <<lab, pats>>
    BY <1>2 DEF Rollback, CliDies, StartRollback, OpenCopy, FillCopy, Unlink, LinkRestored,
                store, vars
  <2>2. QED
    BY <2>1 DEF Copied, At
<1>3. CASE FindGaps \/ NextGap \/ LabRestarts \/ LabThrows \/ LinkCurrent \/ Judge \/ Refire
  <2>1. lab'.pc # "meta"
    BY <1>3, FreshTyped, GapDoneTyped DEF FindGaps, NextGap, LabRestarts, LabThrows, LinkCurrent,
       Judge, Refire, LabState
  <2>2. QED
    BY <2>1
<1>4. CASE Generate \/ LoadPatterns \/ TruncateFile \/ WriteFile
  <2>1. lab'.pc # "meta"
    BY <1>4 DEF Generate, LoadPatterns, TruncateFile, WriteFile, LabState
  <2>2. QED
    BY <2>1
<1>5. CASE Snapshot \/ WriteMeta \/ MarkCurrent
  <2>1. lab'.pc # "meta"
    BY <1>5, GapDoneTyped DEF Snapshot, WriteMeta, MarkCurrent, LabState
  <2>2. QED
    BY <2>1
<1>6. CASE \E t \in Tags : RemoveVersion(t)
  <2>1. lab'.pc = lab.pc /\ lab.pc = "trim"
    BY <1>6 DEF RemoveVersion, At, LabState
  <2>2. QED
    BY <2>1
<1>7. QED
  BY <1>1, <1>2, <1>3, <1>4, <1>5, <1>6 DEF Next, HandleGap

LEMMA StoreCopied == Spec => [](Typed /\ Kept /\ Copied)
<1>1. Init => Copied
  BY FreshTyped DEF Init, Copied, At
<1>2. QED
  BY <1>1, TypedInit, TypedStep, KeptInit, KeptStep, CopiedStep, PTL DEF Spec

\* What a reader of the versions can see of a step that publishes and removes nothing.
LEMMA CopiesSame ==
    ASSUME UNCHANGED <<meta, current>>,
           \A t \in Tags : meta[t] # NoMeta => pats'[t] = pats[t]
    PROVE  UNCHANGED History!vars
<1>1. Copies' = Copies
  BY DEF Copies
<1>2. QED
  BY <1>1 DEF History!vars

\* The directory that a snapshot is copied into is no version yet.
LEMMA CopyUnseen ==
    ASSUME Typed, Kept, Snapshot \/ CopyPatterns
    PROVE  UNCHANGED History!vars
<1> USE DEF Typed, TypeOK, StoreTypeOK
<1>1. UNCHANGED <<meta, current>>
  BY DEF Snapshot, CopyPatterns, memory, store
<1>2. ASSUME NEW t \in Tags, meta[t] # NoMeta
      PROVE  pats'[t] = pats[t]
  <2>1. t \in listed
    BY <1>2 DEF Kept
  <2>2. CASE CopyPatterns
    <3>1. lab.tag # t
      BY <2>1, <2>2 DEF CopyPatterns, At, Kept
    <3>2. QED
      BY <2>2, <3>1 DEF CopyPatterns
  <2>3. CASE Snapshot
    <3>1. CASE UNCHANGED store
      BY <3>1 DEF store
    <3>2. CASE ~UNCHANGED store
      <4>1. PICK u \in Tags : IsNextTag(u, listed) /\ pats' = [pats EXCEPT ![u] = Torn]
        BY <2>3, <3>2 DEF Snapshot
      <4>2. u # t
        BY <2>1, <4>1 DEF IsNextTag
      <4>3. QED
        BY <4>1, <4>2
    <3>3. QED
      BY <3>1, <3>2
  <2>4. QED
    BY <2>2, <2>3
<1>3. QED
  BY <1>1, <1>2, CopiesSame

\* Writing the metadata publishes a version: verified, whole, under a free number.
LEMMA MetaPublishes ==
    ASSUME Typed, Kept, Copied, WriteMeta
    PROVE  History!Publish(lab.tag) /\ lab.tag \in Tags
<1> USE DEF Typed, TypeOK, StoreTypeOK
<1> DEFINE t == lab.tag
           m == [patch |-> lab.patch, passed |-> lab.passed]
<1>1. lab.pc = "meta" /\ t \in Tags \ listed /\ lab.passed /\ pats[t] # Absent
  BY DEF WriteMeta, At, Placed, Kept, Copied
<1>2. meta' = [meta EXCEPT ![t] = m] /\ UNCHANGED <<pats, current>>
  BY DEF WriteMeta
<1>3. m \in Meta /\ m.passed
  BY <1>1 DEF Meta, LabState
<1>4. m # NoMeta /\ meta[t] = NoMeta
  BY <1>1, <1>3, StoreConstants DEF Kept
<1>5. pats[t] \in Contents \cup {Torn}
  BY <1>1
<1> HIDE DEF m
<1>6. meta'[t] = m /\ \A u \in Tags \ {t} : meta'[u] = meta[u]
  BY <1>1, <1>2
<1>7. Copies' = [Copies EXCEPT ![t] = pats[t]]
  BY <1>1, <1>2, <1>4, <1>6 DEF Copies
<1>8. QED
  BY <1>1, <1>2, <1>3, <1>4, <1>5, <1>7 DEF History!Publish

\* Trimming takes the rules or the number from a version that is not in use.
LEMMA RemoveRetires ==
    ASSUME Typed, Kept, NEW t \in Tags, RemoveVersion(t)
    PROVE  History!LoseRules(t) \/ History!Retire(t) \/ UNCHANGED History!vars
<1> USE DEF Typed, TypeOK, StoreTypeOK
<1>1. current' = current /\ t # current
  BY DEF RemoveVersion, Kept, NoTag, Tags
<1>2. CASE UNCHANGED <<pats, meta>>
  BY <1>1, <1>2, CopiesSame
<1>3. CASE pats' = [pats EXCEPT ![t] = Absent] /\ meta' = meta
  <2>1. Copies' = [Copies EXCEPT ![t] = Absent]
    BY <1>3 DEF Copies
  <2>2. QED
    BY <1>1, <1>3, <2>1 DEF History!LoseRules
<1>4. CASE meta' = [meta EXCEPT ![t] = NoMeta] /\ pats' = pats
  <2>1. Copies' = [Copies EXCEPT ![t] = Absent]
    BY <1>4 DEF Copies
  <2>2. QED
    BY <1>1, <1>4, <2>1 DEF History!Retire
<1>5. QED
  BY <1>2, <1>3, <1>4 DEF RemoveVersion

\* The version marked is one that is published; so is the one a new process finds linked.
LEMMA MarkUses ==
    ASSUME Typed, Kept, MarkCurrent
    PROVE  History!Use(lab.tag) /\ lab.tag \in Tags
<1>1. lab.tag \in Tags /\ meta[lab.tag] # NoMeta
  BY DEF MarkCurrent, At, Kept, Typed, Placed
<1>2. Copies' = Copies /\ meta' = meta /\ current' = lab.tag
  BY DEF MarkCurrent, Copies
<1>3. QED
  BY <1>1, <1>2 DEF History!Use

LEMMA RestartUses ==
    ASSUME LabRestarts
    PROVE  (\E t \in Tags : History!Use(t)) \/ History!Forget
<1>1. Copies' = Copies /\ meta' = meta /\ current' = LinkedVersion
  BY DEF LabRestarts, Copies, store
<1>2. CASE link \in OnDisk
  <2>1. link \in Tags /\ meta[link] # NoMeta /\ current' = link
    BY <1>1, <1>2 DEF OnDisk, LinkedVersion
  <2>2. History!Use(link)
    BY <1>1, <2>1 DEF History!Use
  <2>3. QED
    BY <2>1, <2>2
<1>3. CASE link \notin OnDisk
  BY <1>1, <1>3 DEF LinkedVersion, History!Forget, NoTag
<1>4. QED
  BY <1>2, <1>3

LEMMA HistoryStep == Typed /\ Kept /\ Copied /\ [Next]_vars => [History!Next]_(History!vars)
<1> SUFFICES ASSUME Typed, Kept, Copied, [Next]_vars
             PROVE  [History!Next]_(History!vars)
  OBVIOUS
<1>1. CASE Snapshot \/ CopyPatterns
  BY <1>1, CopyUnseen
<1>2. CASE WriteMeta
  BY <1>2, MetaPublishes DEF History!Next
<1>3. CASE \E t \in Tags : RemoveVersion(t)
  BY <1>3, RemoveRetires DEF History!Next
<1>4. CASE MarkCurrent
  BY <1>4, MarkUses DEF History!Next
<1>5. CASE LabRestarts
  BY <1>5, RestartUses DEF History!Next
<1>6. CASE \/ FindGaps \/ NextGap \/ Generate \/ LoadPatterns \/ TruncateFile \/ WriteFile
           \/ Refire \/ Judge \/ LinkCurrent \/ LabThrows \/ Rollback \/ CliDies
           \/ UNCHANGED vars
  <2>1. UNCHANGED <<pats, meta, current>>
    BY <1>6 DEF FindGaps, NextGap, Generate, LoadPatterns, TruncateFile, WriteFile, Refire, Judge,
         LinkCurrent, LabThrows, Rollback, CliDies, StartRollback, OpenCopy, FillCopy, Unlink,
         LinkRestored, store, memory, vars
  <2>2. QED
    BY <2>1, CopiesSame
<1>7. QED
  BY <1>1, <1>2, <1>3, <1>4, <1>5, <1>6 DEF Next, HandleGap

LEMMA HistoryBegins == Init => History!Init
<1> SUFFICES ASSUME Init PROVE History!Init
  OBVIOUS
<1>1. meta = [t \in Tags |-> NoMeta] /\ current = NoTag
  BY DEF Init, StoreInit
<1>2. Copies = [t \in Tags |-> Absent]
  BY <1>1 DEF Copies
<1>3. QED
  BY <1>1, <1>2 DEF History!Init

\* The lab, with its files, links, trims, deaths and rollbacks, refines VersionHistory.
THEOREM LabImplements == Spec => ImplementsHistory
  BY HistoryBegins, HistoryStep, StoreCopied, PTL DEF Spec, ImplementsHistory, History!Spec
=============================================================================
