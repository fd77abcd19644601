CONSTANTS
    Names = {"a"}
    Specs <- MCSpecs
    Counts = {3}
    Absent = Absent
    MaxDisturbances = 1
SPECIFICATION Spec
CHECK_DEADLOCK FALSE
INVARIANTS ScalingsAreTimed
