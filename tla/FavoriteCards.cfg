SPECIFICATION Spec
CONSTANTS
    Movies = {m1, m2}
    NoMovie = NoMovie
    MaxEvents = 6
INVARIANTS LoadingIsReal
PROPERTIES ErrorsAreCurrent CardsArrive
CHECK_DEADLOCK FALSE
