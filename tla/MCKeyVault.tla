----------------------------- MODULE MCKeyVault -----------------------------
(* Instances of KeyVault for TLC. *)
EXTENDS KeyVault, TLC

Symmetry == Permutations(Requests) \cup Permutations(Users)
=============================================================================
