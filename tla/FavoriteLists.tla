--------------------------- MODULE FavoriteLists ---------------------------
(***************************************************************************)
(* What the account store promises about favourites, whatever the number   *)
(* of tabs and backend processes: every account has one ordered list of    *)
(* at most MaxFavorites movies; a list only grows at its end, loses one    *)
(* movie at a time without disturbing the others, and vanishes with its    *)
(* account for good.  A list is a set of movies with the order             *)
(* "comes before".                                                         *)
(***************************************************************************)
EXTENDS Naturals, FiniteSets

CONSTANTS Ids,           \* account identifiers
          Movies,        \* movie identifiers
          MaxFavorites   \* the limit, 20 in the code

VARIABLES members,       \* members[i]: the favourites of account i
          before,        \* before[i]: pairs <<m, n>>, m listed before n
          gone           \* accounts that were deleted

listVars == <<members, before, gone>>

\* o lists each movie of N once.
Orders(o, N) ==
    /\ o \subseteq N \X N
    /\ \A m \in N : <<m, m>> \notin o
    /\ \A m, n \in N : m # n => (<<m, n>> \in o \/ <<n, m>> \in o)
    /\ \A m, n, p \in N : <<m, n>> \in o /\ <<n, p>> \in o => <<m, p>> \in o

\* There may be lists from before.
Init ==
    /\ members \in [Ids -> SUBSET Movies]
    /\ before \in [Ids -> SUBSET (Movies \X Movies)]
    /\ gone \in SUBSET Ids
    /\ \A i \in Ids : Orders(before[i], members[i]) /\ Cardinality(members[i]) <= MaxFavorites
    /\ \A i \in gone : members[i] = {}

\* The movies N, in the order o, join the end of the list of account i.
Extend(i) ==
    /\ i \notin gone /\ UNCHANGED gone
    /\ \E N \in SUBSET (Movies \ members[i]) : \E o \in SUBSET (N \X N) :
          /\ Orders(o, N)
          /\ Cardinality(members[i] \cup N) <= MaxFavorites
          /\ members' = [members EXCEPT ![i] = members[i] \cup N]
          /\ before' = [before EXCEPT ![i] = before[i] \cup o \cup (members[i] \X N)]

Withdraw(i, m) ==
    /\ UNCHANGED gone
    /\ members' = [members EXCEPT ![i] = members[i] \ {m}]
    /\ before' = [before EXCEPT ![i] = {p \in before[i] : p[1] # m /\ p[2] # m}]

Clear(i) ==
    /\ gone' = gone \cup {i}
    /\ members' = [members EXCEPT ![i] = {}]
    /\ before' = [before EXCEPT ![i] = {}]

Next ==
    \E i \in Ids :
        \/ Extend(i)
        \/ \E m \in Movies : Withdraw(i, m)
        \/ Clear(i)

Spec == Init /\ [][Next]_listVars

=============================================================================
