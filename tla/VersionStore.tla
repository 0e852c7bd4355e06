------------------------------ MODULE VersionStore ------------------------------
(* agentguard/Exploitation_Lab, what is on disk: patterns.json and             *)
(* deployment/version_manager.py's store of tagged copies of it.  The lab and  *)
(* a `--rollback` command are two processes on the same files.                 *)
EXTENDS Integers, FiniteSets

CONSTANTS
    Patterns,      \* entries that patterns.json may hold
    Top,           \* the highest score of an entry
    Torn,          \* a file that is truncated, half written or a mixture
    Absent,        \* a file that is not there
    NoMeta,        \* metadata.json missing or unreadable
    MaxTag,        \* bound: tags v1 .. v<MaxTag>
    MaxKept        \* settings.max_versions_kept

Tags == 1 .. MaxTag
NoTag == 0
\* A readable patterns.json: the score of every entry, 0 for an entry it does not have.
Contents == [Patterns -> 0 .. Top]

\* patch_type: what confidence_checker knows; severity: without "critical", which
\* exploit_analyzer never gives.
Kinds == {"add_pattern", "adjust_score", "add_normalization", "add_decoder",
          "add_scanner_coverage", "llm_generated"}
\* patterns_added, and the new score of patterns_modified, 0 for the others.
Patch == [kind : Kinds, severity : {"low", "medium", "high"},
          added : SUBSET Patterns, raised : Contents]
\* metadata.json: the patch, and whether its exploit was stopped when last fired.
Meta == [patch : Patch, passed : BOOLEAN]

ASSUME StoreConstants ==
    /\ Top \in Nat \ {0} /\ MaxTag \in Nat /\ MaxKept \in Nat
    /\ Torn \notin Contents /\ Absent \notin Contents \cup {Torn}
    /\ NoMeta \notin Meta

VARIABLES
    file,      \* patterns.json
    pats,      \* pats[t]: versions/v<t>/patterns.json
    meta,      \* meta[t]: versions/v<t>/metadata.json
    born,      \* born[t]: its created_at
    link       \* the version that versions/current names, NoTag without a link

store == <<file, pats, meta, born, link>>

StoreTypeOK ==
    /\ file \in Contents \cup {Torn}
    /\ pats \in [Tags -> Contents \cup {Torn, Absent}]
    /\ meta \in [Tags -> Meta \cup {NoMeta}]
    /\ born \in [Tags -> Nat]
    /\ link \in Tags \cup {NoTag}

StoreInit ==
    /\ file \in Contents
    /\ pats = [t \in Tags |-> Absent]
    /\ meta = [t \in Tags |-> NoMeta]
    /\ born = [t \in Tags |-> 0]
    /\ link = NoTag

Nothing == [p \in Patterns |-> 0]

\* _load_patterns: whatever cannot be parsed counts as an empty list.
Parsed(f) == IF f = Torn THEN Nothing ELSE f

\* apply_to_green between load and save: an entry is added if it is not there,
\* a score is changed if its entry is there.
Applied(f, patch) ==
    [p \in Patterns |->
        CASE f[p] # 0 /\ patch.raised[p] # 0 -> patch.raised[p]
          [] f[p] = 0 /\ p \in patch.added   -> 1
          [] OTHER                           -> f[p]]

\* f contains what the patch changes.
Holds(f, patch) ==
    /\ \A p \in patch.added : f[p] # 0
    /\ \A p \in Patterns : patch.raised[p] # 0 => f[p] = patch.raised[p]

\* The file after a write that began with its truncation: when somebody else has
\* written in between, the shorter text leaves the end of the longer one behind.
Written(f) == {f} \cup (IF file = Torn THEN {} ELSE {Torn})

\* _load_existing: the versions a new process finds, and the one it calls current.
OnDisk == {t \in Tags : meta[t] # NoMeta}
LinkedVersion == IF link \in OnDisk THEN link ELSE NoTag

MutIsNextTag(t, listed) == t = Cardinality(listed) + 1 /\ t \in Tags

\* _next_tag: the first number that no listed version has.
IsNextTag(t, listed) == t \in Tags \ listed /\ \A u \in Tags : u < t => u \in listed

MutDoomed(listed, current, age) ==
    {t \in listed :
       Cardinality({u \in listed : age[u] < age[t]}) < Cardinality(listed) - MaxKept}

\* _trim_old_versions: the oldest of the versions that are not current, as many as
\* the list is too long.
Doomed(listed, current, age) ==
    LET others == listed \ {current}
    IN  {t \in others :
           Cardinality({u \in others : age[u] < age[t]}) < Cardinality(listed) - MaxKept}

=============================================================================
