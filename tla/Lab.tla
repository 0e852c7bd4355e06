----------------------------------- MODULE Lab -----------------------------------
(* agentguard/Exploitation_Lab: core/engine.py, the patcher and the deployment.  *)
(* One process handles the gaps a cycle found, one after the other, and keeps    *)
(* the versions in memory; `exploitation_lab.py --rollback` is another process   *)
(* that restores one.  Either can die, and the lab's container restarts it.      *)
EXTENDS VersionStore

CONSTANTS
    Causes,           \* the root causes that gaps may have
    MaxAttempts,      \* settings.max_patch_iterations
    AutoThreshold,    \* settings.confidence_auto_threshold, in percent
    MaxGaps,          \* bound: gaps of one cycle
    MaxVersions,      \* bound: snapshots begun
    MaxRollbacks,     \* bound: rollback commands
    MaxCrashes        \* bound: deaths of either process

\* exploit_analyzer: the fix and the severity of each root cause.
RootCause == [threshold  |-> [fix |-> "adjust_score", severity |-> "low"],
              semantic   |-> [fix |-> "add_pattern", severity |-> "medium"],
              encoding   |-> [fix |-> "add_decoder", severity |-> "medium"],
              zero_width |-> [fix |-> "add_normalization", severity |-> "medium"],
              structural |-> [fix |-> "add_normalization", severity |-> "high"],
              protocol   |-> [fix |-> "add_scanner_coverage", severity |-> "high"]]

\* MaxKept: with 1, trimming removes the version that is about to be marked.
ASSUME LabConstants ==
    /\ MaxKept > 1
    /\ Causes \subseteq DOMAIN RootCause
    /\ MaxAttempts \in Nat \ {0} /\ AutoThreshold \in Nat /\ MaxGaps \in Nat
    /\ MaxVersions \in Nat /\ MaxRollbacks \in Nat /\ MaxCrashes \in Nat

VARIABLES
    listed,      \* _versions of the lab
    current,     \* the one with is_current
    lab,         \* the lab's position and local variables
    cli,         \* those of the rollback command
    clock,       \* snapshots begun: time.time()
    rollbacks, crashes,
    stray,       \* history: patterns.json was patched since a version was linked
    overlap      \* history: a rollback ran while the lab handled a gap

vars == <<store, listed, current, lab, cli, clock, rollbacks, crashes, stray, overlap>>

LabSteps == {"idle", "gap", "generate", "load", "truncate", "write", "refire", "judge",
             "health", "copy", "meta", "trim", "symlink"}
CliSteps == {"off", "restore", "write", "unlink", "symlink"}

NoCause == "none"
NoPatch == [kind |-> "add_decoder", severity |-> "medium", added |-> {}, raised |-> Nothing]

LabState == [pc : LabSteps, gaps : Nat, cause : Causes \cup {NoCause}, attempt : Nat,
             patch : Patch, loaded : Contents, passed : BOOLEAN, tag : Tags \cup {NoTag},
             doomed : SUBSET Tags]
CliState == [pc : CliSteps, tag : Tags \cup {NoTag}, copied : Contents \cup {Torn}]

TypeOK ==
    /\ StoreTypeOK
    /\ listed \subseteq Tags /\ current \in Tags \cup {NoTag}
    /\ lab \in LabState /\ cli \in CliState
    /\ clock \in Nat /\ rollbacks \in Nat /\ crashes \in Nat
    /\ stray \in BOOLEAN /\ overlap \in BOOLEAN

Fresh == [pc |-> "idle", gaps |-> 0, cause |-> NoCause, attempt |-> 0, patch |-> NoPatch,
          loaded |-> Nothing, passed |-> FALSE, tag |-> NoTag, doomed |-> {}]
Off == [pc |-> "off", tag |-> NoTag, copied |-> Torn]

Init ==
    /\ StoreInit
    /\ listed = {} /\ current = NoTag /\ lab = Fresh /\ cli = Off
    /\ clock = 0 /\ rollbacks = 0 /\ crashes = 0
    /\ stray = TRUE /\ overlap = FALSE

bounds == <<rollbacks, crashes>>
memory == <<listed, current>>

At(step) == lab.pc = step
\* The end of _handle_gap, by return or by an exception that run_cycle catches.
GapDone == [Fresh EXCEPT !.pc = "gap", !.gaps = lab.gaps]

(* ------------------------------ one cycle -------------------------------- *)

\* run_cycle up to step 4: of the collected and mutated attacks, n slipped through.
FindGaps ==
    /\ At("idle")
    /\ \E n \in 1 .. MaxGaps : lab' = [lab EXCEPT !.pc = "gap", !.gaps = n]
    /\ UNCHANGED <<store, memory, cli, clock, bounds, stray, overlap>>

MutNextGap ==
    /\ At("gap")
    /\ \E c \in Causes :
          lab' = [lab EXCEPT !.pc = "generate", !.gaps = @ - 1, !.cause = c, !.attempt = 1]
    /\ overlap' = (overlap \/ cli.pc # "off")
    /\ UNCHANGED <<store, memory, cli, clock, bounds, stray>>

\* The loop over the gaps, and analyze().
NextGap ==
    /\ At("gap")
    /\ \/ lab.gaps = 0 /\ lab' = Fresh /\ overlap' = overlap
       \/ /\ lab.gaps > 0
          /\ \E c \in Causes :
                lab' = [lab EXCEPT !.pc = "generate", !.gaps = @ - 1, !.cause = c, !.attempt = 1]
          /\ overlap' = (overlap \/ cli.pc # "off")
    /\ UNCHANGED <<store, memory, cli, clock, bounds, stray>>

\* generate(): a severe gap is given to the language model first, which answers with
\* some pattern or fails; adjust_score raises the entries that fired by one step.
Patches(f, c) ==
    LET root == RootCause[c]
        changes(added, raised) == {[kind |-> root.fix, severity |-> root.severity,
                                    added |-> added, raised |-> raised]}
        raise(fired) == [p \in Patterns |-> IF p \notin fired \/ f[p] = 0 THEN 0
                                            ELSE IF f[p] < Top THEN f[p] + 1 ELSE Top]
        byRule ==
            CASE root.fix = "adjust_score" ->
                    UNION {changes({}, raise(fired)) :
                             fired \in {S \in SUBSET Patterns : \E p \in S : f[p] # 0}}
              [] root.fix = "add_pattern" -> UNION {changes({p}, Nothing) : p \in Patterns}
              [] OTHER -> changes({}, Nothing)
        byModel == {[kind |-> "llm_generated", severity |-> root.severity,
                     added |-> {p}, raised |-> Nothing] : p \in Patterns}
    IN  byRule \cup (IF root.severity = "high" THEN byModel ELSE {})

\* No patch: return on the first attempt; later the loop ends with `verification`
\* of the attempt before.
Generate ==
    /\ At("generate")
    /\ \/ \E patch \in Patches(Parsed(file), lab.cause) :
             lab' = [lab EXCEPT !.pc = "load", !.patch = patch]
       \/ /\ RootCause[lab.cause].fix \in {"adjust_score", "add_pattern"}
          /\ lab' = [lab EXCEPT !.pc = "judge"]
    /\ UNCHANGED <<store, memory, cli, clock, bounds, stray, overlap>>

(* apply_to_green, on the one patterns.json that the live proxy has too.       *)
LoadPatterns ==
    /\ At("load")
    /\ lab' = [lab EXCEPT !.pc = "truncate", !.loaded = Parsed(file)]
    /\ UNCHANGED <<store, memory, cli, clock, bounds, stray, overlap>>

\* write_text opens the file, which empties it; an error makes apply_to_green false.
TruncateFile ==
    /\ At("truncate")
    /\ \/ lab' = [lab EXCEPT !.pc = "write"] /\ file' = Torn /\ stray' = TRUE
       \/ lab' = [lab EXCEPT !.pc = "judge", !.loaded = Nothing]
          /\ UNCHANGED <<file, stray>>
    /\ UNCHANGED <<pats, meta, born, link, memory, cli, clock, bounds, overlap>>

WriteFile ==
    /\ At("write")
    /\ \/ /\ file' \in Written(Applied(lab.loaded, lab.patch))
          /\ lab' = [lab EXCEPT !.pc = "refire", !.loaded = Nothing]
       \/ lab' = [lab EXCEPT !.pc = "judge", !.loaded = Nothing] /\ file' = file
    /\ UNCHANGED <<pats, meta, born, link, memory, cli, clock, bounds, stray, overlap>>

\* verify(): blocked, or no answer at all, passes; an attempt that fails is followed
\* by the next one or, after the last, by the escalation.
Refire ==
    /\ At("refire")
    /\ \/ lab' = [lab EXCEPT !.pc = "judge", !.attempt = 0, !.passed = TRUE]
       \/ lab.attempt < MaxAttempts /\ lab' = [lab EXCEPT !.pc = "generate", !.attempt = @ + 1]
       \/ lab.attempt = MaxAttempts /\ lab' = GapDone
    /\ UNCHANGED <<store, memory, cli, clock, bounds, stray, overlap>>

\* confidence_checker.check in percent; fp: benign requests of twenty that were blocked.
Confidence(patch, fp) ==
    LET least(a, b) == IF a < b THEN a ELSE b
        clean == IF fp > 1 THEN 60 ELSE IF fp = 1 THEN 80 ELSE 100
        usual == CASE patch.kind = "add_pattern" -> 85
                   [] patch.kind = "adjust_score" -> 90
                   [] patch.kind = "add_normalization" -> 70
                   [] patch.kind = "add_scanner_coverage" -> 60
                   [] OTHER -> 75
    IN  least(least(clean, usual), IF patch.severity = "high" THEN 80 ELSE 100)

\* After the loop: without a passed verification return; a confident patch is
\* deployed, the others go to people.
Judge ==
    /\ At("judge")
    /\ \/ /\ lab.passed
          /\ \E fp \in 0 .. 2 : Confidence(lab.patch, fp) >= AutoThreshold
          /\ lab' = [lab EXCEPT !.pc = "health"]
       \/ /\ lab.passed => \E fp \in 0 .. 2 : Confidence(lab.patch, fp) < AutoThreshold
          /\ lab' = GapDone
    /\ UNCHANGED <<store, memory, cli, clock, bounds, stray, overlap>>

(* ------------------------- switch, snapshot, mark ------------------------- *)

MutSnapshot ==
    /\ At("health") /\ clock < MaxVersions
    /\ \/ lab' = GapDone /\ UNCHANGED <<store, clock>>
       \/ \E t \in Tags :
             /\ IsNextTag(t, listed)
             /\ lab' = [lab EXCEPT !.pc = "copy", !.tag = t]
             /\ pats' = [pats EXCEPT ![t] = Torn]
             /\ meta' = [meta EXCEPT ![t] = [patch |-> lab.patch, passed |-> lab.passed]]
             /\ clock' = clock + 1
             /\ UNCHANGED <<file, born, link>>
    /\ UNCHANGED <<memory, cli, bounds, stray, overlap>>

\* switch(): GREEN's health decides whether to go on; snapshot() then picks the tag,
\* makes the directory and begins to copy patterns.json into it.
Snapshot ==
    /\ At("health") /\ clock < MaxVersions
    /\ \/ lab' = GapDone /\ UNCHANGED <<store, clock>>
       \/ \E t \in Tags :
             /\ IsNextTag(t, listed)
             /\ lab' = [lab EXCEPT !.pc = "copy", !.tag = t]
             /\ pats' = [pats EXCEPT ![t] = Torn]
             /\ clock' = clock + 1
             /\ UNCHANGED <<file, meta, born, link>>
    /\ UNCHANGED <<memory, cli, bounds, stray, overlap>>

CopyPatterns ==
    /\ At("copy")
    /\ lab' = [lab EXCEPT !.pc = "meta"]
    /\ pats' = [pats EXCEPT ![lab.tag] = file]
    /\ UNCHANGED <<file, meta, born, link, memory, cli, clock, bounds, stray, overlap>>

\* metadata.json, the entry of _versions, and the versions to remove.
WriteMeta ==
    /\ At("meta")
    /\ meta' = [meta EXCEPT ![lab.tag] = [patch |-> lab.patch, passed |-> lab.passed]]
    /\ born' = [born EXCEPT ![lab.tag] = clock]
    /\ listed' = listed \cup {lab.tag}
    /\ lab' = [lab EXCEPT !.pc = "trim", !.doomed = Doomed(listed', current, born')]
    /\ UNCHANGED <<file, pats, link, current, cli, clock, bounds, stray, overlap>>

\* rmtree of a version: its files go in any order, then it leaves the list; after an
\* error it stays on the list with what is left of it.
RemoveVersion(t) ==
    /\ At("trim") /\ t \in lab.doomed
    /\ \/ /\ pats[t] # Absent
          /\ pats' = [pats EXCEPT ![t] = Absent]
          /\ UNCHANGED <<meta, born, listed, lab>>
       \/ /\ meta[t] # NoMeta
          /\ meta' = [meta EXCEPT ![t] = NoMeta]
          /\ UNCHANGED <<pats, born, listed, lab>>
       \/ /\ pats[t] = Absent /\ meta[t] = NoMeta
          /\ listed' = listed \ {t} /\ born' = [born EXCEPT ![t] = 0]
          /\ lab' = [lab EXCEPT !.doomed = @ \ {t}]
          /\ UNCHANGED <<pats, meta>>
       \/ /\ lab' = [lab EXCEPT !.doomed = @ \ {t}]
          /\ UNCHANGED <<pats, meta, born, listed>>
    /\ UNCHANGED <<file, link, current, cli, clock, bounds, stray, overlap>>

\* The flip of the traffic does nothing (one file serves both proxies).
\* mark_current: the flag in memory, then the link is removed ...
MarkCurrent ==
    /\ At("trim") /\ lab.doomed = {}
    /\ current' = lab.tag /\ link' = NoTag
    /\ lab' = [lab EXCEPT !.pc = "symlink"]
    /\ UNCHANGED <<file, pats, meta, born, listed, cli, clock, bounds, stray, overlap>>

\* ... and made again, which fails when somebody else was faster.
LinkCurrent ==
    /\ At("symlink")
    /\ lab' = GapDone
    /\ IF link = NoTag THEN link' = lab.tag /\ stray' = FALSE ELSE UNCHANGED <<link, stray>>
    /\ UNCHANGED <<file, pats, meta, born, memory, cli, clock, bounds, overlap>>

\* An error of a request or of the disk: run_cycle logs it and takes the next gap.
LabThrows ==
    /\ lab.pc \in {"generate", "copy", "meta", "symlink"}
    /\ lab' = GapDone
    /\ UNCHANGED <<store, memory, cli, clock, bounds, stray, overlap>>

\* The process dies; its successor reads the store (_load_existing).
LabRestarts ==
    /\ crashes < MaxCrashes
    /\ crashes' = crashes + 1
    /\ lab' = Fresh /\ listed' = OnDisk /\ current' = LinkedVersion
    /\ UNCHANGED <<store, cli, clock, rollbacks, stray, overlap>>

(* -------------------------- the rollback command -------------------------- *)

\* rollback_to(tag): a version on disk whose patterns.json exists.
StartRollback(t) ==
    /\ cli.pc = "off" /\ rollbacks < MaxRollbacks
    /\ t \in OnDisk /\ pats[t] # Absent
    /\ cli' = [Off EXCEPT !.pc = "restore", !.tag = t]
    /\ rollbacks' = rollbacks + 1
    /\ overlap' = (overlap \/ lab.pc \notin {"idle", "gap"})
    /\ UNCHANGED <<store, memory, lab, clock, crashes, stray>>

MutOpenCopy ==
    /\ cli.pc = "restore"
    /\ cli' = [cli EXCEPT !.pc = "unlink"]
    /\ UNCHANGED <<store, memory, lab, clock, bounds, stray, overlap>>

\* restore(): copy2 opens the version's file and empties patterns.json ...
OpenCopy ==
    /\ cli.pc = "restore"
    /\ IF pats[cli.tag] = Absent
       THEN cli' = Off /\ UNCHANGED file
       ELSE cli' = [cli EXCEPT !.pc = "write", !.copied = pats[cli.tag]] /\ file' = Torn
    /\ UNCHANGED <<pats, meta, born, link, memory, lab, clock, bounds, stray, overlap>>

\* ... fills it ...
FillCopy ==
    /\ cli.pc = "write"
    /\ file' \in Written(cli.copied)
    /\ cli' = [cli EXCEPT !.pc = "unlink", !.copied = Torn]
    /\ UNCHANGED <<pats, meta, born, link, memory, lab, clock, bounds, stray, overlap>>

\* ... and mark_current moves the link.
Unlink ==
    /\ cli.pc = "unlink"
    /\ link' = NoTag
    /\ cli' = [cli EXCEPT !.pc = "symlink"]
    /\ UNCHANGED <<file, pats, meta, born, memory, lab, clock, bounds, stray, overlap>>

LinkRestored ==
    /\ cli.pc = "symlink"
    /\ cli' = Off
    /\ IF link = NoTag THEN link' = cli.tag /\ stray' = FALSE ELSE UNCHANGED <<link, stray>>
    /\ UNCHANGED <<file, pats, meta, born, memory, lab, clock, bounds, overlap>>

\* The command dies, by a signal or an error of the disk.
CliDies ==
    /\ cli.pc # "off" /\ crashes < MaxCrashes
    /\ crashes' = crashes + 1
    /\ cli' = Off /\ stray' = TRUE
    /\ UNCHANGED <<store, memory, lab, clock, rollbacks, overlap>>

HandleGap ==
    \/ Generate \/ LoadPatterns \/ TruncateFile \/ WriteFile \/ Refire \/ Judge \/ Snapshot
    \/ CopyPatterns \/ WriteMeta \/ (\E t \in Tags : RemoveVersion(t)) \/ MarkCurrent
    \/ LinkCurrent \/ LabThrows

Rollback == (\E t \in Tags : StartRollback(t)) \/ OpenCopy \/ FillCopy \/ Unlink \/ LinkRestored

Next == FindGaps \/ NextGap \/ HandleGap \/ LabRestarts \/ Rollback \/ CliDies

Spec == Init /\ [][Next]_vars

(* ------------------------------- properties ------------------------------- *)

\* version_manager.py:4 "the current state is snapshotted and tagged": while a tag has
\* metadata, neither they nor the copy it stands for are ever written again, across
\* trims, reused numbers and restarts; at most the copy is removed.
SnapshotsFrozen ==
    [][\A t \in Tags : meta[t] # NoMeta /\ meta'[t] # NoMeta =>
          meta'[t] = meta[t] /\ pats'[t] \in {pats[t], Absent}]_vars

\* Unless a rollback ran at the same time, a version holds a whole file with the patch
\* its metadata name, although the patched file had been shared all the time.
SnapshotHoldsPatch ==
    \A t \in OnDisk :
        overlap \/ pats[t] = Absent \/ (pats[t] # Torn /\ Holds(pats[t], meta[t].patch))

\* What the loop of _handle_gap leaves in `verification` never lets a patch become a
\* version whose exploit was not stopped, or which no re-fire has judged.
VersionsWereVerified == \A t \in OnDisk : meta[t].passed

\* The version the lab believes to be live is in its list and was not trimmed.
CurrentIsKept == current # NoTag => current \in listed /\ meta[current] # NoMeta

\* When both processes rest, `current` names the version whose copy is live, unless a
\* patch was written that nobody tagged (stray) or the two got in each other's way.
LinkIsTrue ==
    At("idle") /\ cli.pc = "off" /\ link # NoTag =>
        stray \/ overlap \/ pats[link] \in {file, Absent}

\* Until its metadata are written a directory is no version, whatever is in it.
Copies == [t \in Tags |-> IF meta[t] = NoMeta THEN Absent ELSE pats[t]]

History == INSTANCE VersionHistory WITH
               stands <- meta, saved <- Copies, inUse <- current,
               Verified <- {m \in Meta : m.passed}, Rules <- Contents \cup {Torn}

\* The lab keeps the promise of its versions, through every trim, death and rollback:
\* one is published with its rules, verified and under a free number, stands for the same until
\* it is retired, and the one in use keeps its rules and its number.
ImplementsHistory == History!Spec
=============================================================================
