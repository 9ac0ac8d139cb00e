SPECIFICATION Spec
CONSTANTS
    Movies = {m1, m2}
    NoMovie = NoMovie
    MaxEvents = 2
PROPERTY LoadingEnds
CHECK_DEADLOCK FALSE
