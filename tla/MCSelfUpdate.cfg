\* A binary that does not start ends the story: the system may stop.
CONSTANTS
    s1 = s1  s2 = s2  None = None
    MaxVersion = 3  Dead <- OneDead  Serves <- OneServe
    Shell = TRUE  Overlap = FALSE
    Faults <- AllFaults  MaxFaults = 1
SPECIFICATION LiveSpec
INVARIANTS StartableStays UncheckedIsPending BadNotInForce
PROPERTIES BadStaysOut Settles
CHECK_DEADLOCK FALSE
