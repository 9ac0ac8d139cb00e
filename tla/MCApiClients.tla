---------------------------- MODULE MCApiClients ----------------------------
(* A small instance of ApiClients for TLC. *)
EXTENDS ApiClients

CONSTANTS m1, m2

NoFavorites == <<>>
MCLists == {<<m2, m1>>}

Symmetry == Permutations(Slots) \cup Permutations(Tokens \ Earlier)

=============================================================================
