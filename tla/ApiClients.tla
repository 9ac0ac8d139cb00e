----------------------------- MODULE ApiClients -----------------------------
(***************************************************************************)
(* The server of AccountApi under a few requests of any clients: ApiSpec   *)
(* with the requests of a behaviour counted.                               *)
(***************************************************************************)
EXTENDS AccountApi

CONSTANTS Lists,         \* bound: the favorite_ids of a body
          MaxRequests    \* bound: requests of a behaviour
ASSUME ListsAssumption == Lists \subseteq Seq(Movies) /\ MaxRequests \in Nat

VARIABLE sent    \* requests so far
vars == <<apiVars, sent>>

Init == ApiInit /\ sent = 0

Next ==
    \/ Call(Lists) /\ sent < MaxRequests /\ sent' = sent + 1
    \/ ApiStep /\ UNCHANGED sent

Spec == Init /\ [][Next]_vars

=============================================================================
