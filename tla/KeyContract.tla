---------------------------- MODULE KeyContract ----------------------------
(***************************************************************************)
(* What keyVaultService promises about one hollow key's secret, with no    *)
(* caches, stores or messages: a key is issued once and revoked for good;  *)
(* its secret can be lost but not regained; only a key that still has its  *)
(* secret can be lent to a request; and a revocation is confirmed only     *)
(* when the secret is gone.                                                *)
(***************************************************************************)
CONSTANTS Keys, Requests

VARIABLES
  life,     \* life[k]: "none", "ACTIVE" or "DEACTIVATED"
  secret,   \* the issued keys whose real API key can be reconstructed
  lent,     \* <<r, k>>: request r holds the real API key of k
  final     \* the keys with a confirmed revocation

vars == <<life, secret, lent, final>>

Init ==
  /\ life = [k \in Keys |-> "none"]
  /\ secret = {} /\ lent = {} /\ final = {}

\* The secret may be lost before the key is even visible.
Issue(k) ==
  /\ life[k] = "none"
  /\ life' = [life EXCEPT ![k] = "ACTIVE"]
  /\ secret' \in {secret, secret \cup {k}}
  /\ UNCHANGED <<lent, final>>

Revoke(k) ==
  /\ life[k] = "ACTIVE"
  /\ life' = [life EXCEPT ![k] = "DEACTIVATED"]
  /\ UNCHANGED <<secret, lent, final>>

Lose(k) ==
  /\ secret' = secret \ {k}
  /\ UNCHANGED <<life, lent, final>>

Lend(r, k) ==
  /\ k \in secret
  /\ lent' = lent \cup {<<r, k>>}
  /\ UNCHANGED <<life, secret, final>>

GiveBack(r, k) ==
  /\ lent' = lent \ {<<r, k>>}
  /\ UNCHANGED <<life, secret, final>>

Confirm(k) ==
  /\ life[k] = "DEACTIVATED" /\ k \notin secret
  /\ final' = final \cup {k}
  /\ UNCHANGED <<life, secret, lent>>

Next == \E k \in Keys :
  \/ Issue(k) \/ Revoke(k) \/ Lose(k) \/ Confirm(k)
  \/ \E r \in Requests : Lend(r, k) \/ GiveBack(r, k)

Spec == Init /\ [][Next]_vars
=============================================================================
