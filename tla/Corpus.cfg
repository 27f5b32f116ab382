SPECIFICATION Spec
CONSTANTS
    Drivers = {"S3", "S4", "S5"}
    Files <- MCFiles
    Texts <- MCTexts
    Faults = {"raise", "timeout"}
INVARIANTS PassIsARepair VerdictIsComplete ValidEditApplies
CHECK_DEADLOCK FALSE
