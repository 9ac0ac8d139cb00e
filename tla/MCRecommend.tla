---------------------------- MODULE MCRecommend ----------------------------
(* A small instance of Recommend for TLC. *)
EXTENDS Recommend

CONSTANTS m1, m2, m3, m4

MCYear == m1 :> 2010 @@ m2 :> 2011 @@ m3 :> 2012 @@ m4 :> None

\* short, long, overlapping, with a duplicate, with an item without id, empty
MCAnswers == {<<>>, <<m2>>, <<m1, m2, m3>>, <<m3, m3, NoId, m1>>, <<m4, m3>>}

NoRange == [minimum |-> None, maximum |-> None,
            minimum_inclusive |-> TRUE, maximum_inclusive |-> TRUE]
After2010 == [NoRange EXCEPT !.minimum = 2010, !.minimum_inclusive = FALSE]
In2010To2012 == [NoRange EXCEPT !.minimum = 2010, !.maximum = 2012, !.maximum_inclusive = FALSE]
MoreThanOne == [NoRange EXCEPT !.minimum = 1, !.minimum_inclusive = FALSE]

Plain == [names |-> 0, similar_to |-> 0, titles |-> 0, preferred |-> FALSE,
          crosscheck |-> FALSE, year |-> NoRange, imdb |-> NoRange,
          prefersImdb |-> FALSE, byImdb |-> FALSE, favorites |-> 0, omdb |-> TRUE]

\* every source of candidates, with and without the check against discovery
Sources ==
    {[Plain EXCEPT !.similar_to = s, !.titles = t, !.preferred = p,
                   !.crosscheck = c, !.names = IF c THEN 1 ELSE 0, !.year = y] :
        s \in 0..2, t \in {0, 2}, p \in BOOLEAN, c \in BOOLEAN, y \in {NoRange, In2010To2012}}

\* every way to filter and rank what discovery lists
Rankings ==
    {[Plain EXCEPT !.year = y, !.imdb = r, !.byImdb = b, !.favorites = f, !.names = 2] :
        y \in {NoRange, After2010, In2010To2012}, r \in {NoRange, MoreThanOne},
        b \in BOOLEAN, f \in {0, 3}}

\* without a key for OMDb
Unrated == {[Plain EXCEPT !.imdb = r, !.prefersImdb = TRUE, !.omdb = FALSE] :
                r \in {NoRange, MoreThanOne}}

MCRequests == Sources \cup Rankings \cup Unrated
=============================================================================
