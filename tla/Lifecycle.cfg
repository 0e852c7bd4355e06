CONSTANTS
    Runs = {r1}
    Partitions = {p1, p2}
    MaxRestarts = 2
SPECIFICATION FairSpec
INVARIANTS TypeOK LeftoverHasCause NothingSkipped AlarmIsTrue NobodyIsStuck
PROPERTIES ImplementsContract RunsEnd AlarmRings
CHECK_DEADLOCK FALSE
