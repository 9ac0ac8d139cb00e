-------------------------- MODULE SharedCatalogue --------------------------
(***************************************************************************)
(* What classification and filtering rely on (genre_catalog.py: "One       *)
(* validated MCP catalog shared by classification and filtering"): there   *)
(* is at most one catalogue, it never changes, and every search is told    *)
(* that one.                                                               *)
(***************************************************************************)
CONSTANTS Searches, Catalogues, Nothing

VARIABLES shared,    \* the catalogue, or Nothing
          told       \* told[s]: the catalogue search s was told, or Nothing

sharedVars == <<shared, told>>

SharedInit == shared = Nothing /\ told = [s \in Searches |-> Nothing]

Agree == IF shared = Nothing THEN shared' \in Catalogues ELSE shared' = shared

Tell(s) == Agree /\ told' = [told EXCEPT ![s] = shared']

Forget(s) == told' = [told EXCEPT ![s] = Nothing] /\ UNCHANGED shared

SharedNext == \E s \in Searches : Tell(s) \/ Forget(s)

SharedSpec == SharedInit /\ [][SharedNext]_sharedVars

=============================================================================
