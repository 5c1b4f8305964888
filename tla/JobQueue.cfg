SPECIFICATION Spec
CONSTANTS
    Job = {"j"}
    Worker = {"v", "w"}
    MaxAttempts = 2
    MaxFaults = 2
    Faults = {"crash", "dbError", "slow"}
INVARIANTS
    TypeOK
    OneRunner
    AttemptsBounded
    DoneMeansDelivered
PROPERTY
    JobFinishes
CHECK_DEADLOCK FALSE
