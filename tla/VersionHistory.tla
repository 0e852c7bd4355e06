----------------------------- MODULE VersionHistory -----------------------------
(* What the lab's store of versions promises to whoever reads or restores one, *)
(* without files, links, lists and trimming.  A version is published with      *)
(* its rules, under a number that no other one has, for a patch seen to stop   *)
(* its exploit.  What a number stands for stays while it is published; the     *)
(* rules saved under it can be lost, not altered.  The version in use is one   *)
(* that was published, and keeps its rules and its number.                     *)
CONSTANTS
    Tags, NoTag,       \* the numbers, and none of them
    Verified, NoMeta,  \* what a version may stand for, and nothing
    Rules, Absent      \* what may be saved under it, and nothing

VARIABLES
    stands,     \* stands[t]: the patch and the verdict that t is published for
    saved,      \* saved[t]: the rules that a rollback to t would restore
    inUse       \* the version the lab takes for the live one

vars == <<stands, saved, inUse>>

Init ==
    /\ stands = [t \in Tags |-> NoMeta] /\ saved = [t \in Tags |-> Absent]
    /\ inUse = NoTag

Publish(t) ==
    /\ stands[t] = NoMeta
    /\ \E rules \in Rules : saved' = [saved EXCEPT ![t] = rules]
    /\ \E m \in Verified : stands' = [stands EXCEPT ![t] = m]
    /\ UNCHANGED inUse

LoseRules(t) ==
    /\ t # inUse
    /\ saved' = [saved EXCEPT ![t] = Absent]
    /\ UNCHANGED <<stands, inUse>>

Retire(t) ==
    /\ t # inUse
    /\ stands' = [stands EXCEPT ![t] = NoMeta] /\ saved' = [saved EXCEPT ![t] = Absent]
    /\ UNCHANGED inUse

Use(t) ==
    /\ stands[t] # NoMeta
    /\ inUse' = t
    /\ UNCHANGED <<stands, saved>>

\* A new process finds no version that it can call the live one.
Forget == inUse' = NoTag /\ UNCHANGED <<stands, saved>>

Next ==
    \/ \E t \in Tags : Publish(t) \/ LoseRules(t) \/ Retire(t) \/ Use(t)
    \/ Forget

Spec == Init /\ [][Next]_vars
=================================================================================
