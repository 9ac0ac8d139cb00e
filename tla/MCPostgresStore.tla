-------------------------- MODULE MCPostgresStore --------------------------
(* A small instance of PostgresStore for TLC. *)
EXTENDS PostgresStore, TLC

CONSTANTS m1, m2, m3

\* Lists a browser may send: in either order, repeated, and one over the limit of two.
MCLists == {<<>>, <<m1, m2>>, <<m2, m1>>, <<m3, m3, m1>>}
MCListsLong == MCLists \cup {<<m1, m2, m3>>}

=============================================================================
