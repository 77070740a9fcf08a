SPECIFICATION FairSpec
CONSTANTS
    Tasks = {a, b, c}
    Stoppers = {s1, s2}
    NoTask = NoTask
INVARIANTS
    TypeOK WakeupComes NothingLeftBehind
PROPERTIES
    RunsInSeries FutureAnswered DestructorReturns
CHECK_DEADLOCK FALSE
