------------------------------ MODULE MCLifecycle ------------------------------
(* One run at a time is enough for TLC: runs share nothing but the topic, and  *)
(* LifecycleProofs proves the safety properties for any number of them.        *)
EXTENDS Lifecycle
================================================================================
