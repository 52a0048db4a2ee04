SPECIFICATION FairSpec
CONSTANTS
    Starters = {"ann", "ben", "cat"}
    None = "none"
INVARIANTS TypeOK  FailedByRivals  ReadyBeforeCopy
PROPERTY RefusedServed
CHECK_DEADLOCK FALSE
