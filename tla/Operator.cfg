CONSTANTS
    Names = {"a"}
    Specs <- MCSpecs
    Counts = {3}
    Absent = Absent
    MaxDisturbances = 3
SPECIFICATION FairSpec
CHECK_DEADLOCK FALSE
INVARIANTS TypeOK NeverForgotten
PROPERTIES NoLostUpdate Converges StatusCatchesUp WritesCease
