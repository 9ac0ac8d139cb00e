----------------------------- MODULE MCWebsite -----------------------------
(* Small instances of Website for TLC. *)
EXTENDS Website

CONSTANTS m1, m2

NoFavorites == <<>>
OneFavorite == <<m1>>

Symmetry == Permutations(Slots) \cup Permutations(Tabs) \cup Permutations(Browsers)
                \cup Permutations(Tokens \ Earlier)

=============================================================================
