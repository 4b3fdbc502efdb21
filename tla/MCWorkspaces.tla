----------------------------- MODULE MCWorkspaces -----------------------------
(* Workspaces for TLC: users, memberships and requests may change places.  *)
EXTENDS Workspaces, TLC

Interchange == Permutations(Members) \union Permutations(Rows) \union Permutations(Requests)
===============================================================================
