----------------------------- MODULE MCAccounts -----------------------------
(* Small instances of Accounts for TLC. *)
EXTENDS Accounts, TLC

Symmetry ==
  Permutations(User) \cup Permutations(Email) \cup Permutations(Req) \cup Permutations(Node)
=============================================================================
