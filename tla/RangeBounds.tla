----------------------------- MODULE RangeBounds -----------------------------
(***************************************************************************)
(* The numeric ranges of an intent (schemas/intents.py) and what           *)
(* services/movie_service.py does with them: the exact test of a value,    *)
(* and the inclusive bounds that discover_movies is asked for.  Ratings    *)
(* are counted in tenths, so that they are integers here too.              *)
(***************************************************************************)
EXTENDS Integers

CONSTANT None      \* Python's None: an absent bound, an unknown value

ASSUME NoneAssumption == None \notin Int

IntRange == [minimum : Int \cup {None}, maximum : Int \cup {None},
             minimum_inclusive : BOOLEAN, maximum_inclusive : BOOLEAN]

HasBounds(r) == r.minimum # None \/ r.maximum # None

AboveMinimum(r, v) == \/ r.minimum = None
                      \/ v > r.minimum
                      \/ v = r.minimum /\ r.minimum_inclusive

BelowMaximum(r, v) == \/ r.maximum = None
                      \/ v < r.maximum
                      \/ v = r.maximum /\ r.maximum_inclusive

RangeContains(r, v) ==
    HasBounds(r) => v # None /\ AboveMinimum(r, v) /\ BelowMaximum(r, v)

LowerBoundTooHigh(r) == IF r.minimum = None THEN None ELSE r.minimum + 1
IntegerLowerBound(r) ==
    IF r.minimum = None THEN None
    ELSE IF r.minimum_inclusive THEN r.minimum ELSE r.minimum + 1

IntegerUpperBound(r) ==
    IF r.maximum = None THEN None
    ELSE IF r.maximum_inclusive THEN r.maximum ELSE r.maximum - 1

\* discover_movies keeps a movie whose value is between two inclusive bounds
Between(lower, upper, v) ==
    /\ lower # None => v # None /\ v >= lower
    /\ upper # None => v # None /\ v <= upper
=============================================================================
