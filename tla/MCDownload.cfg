CONSTANTS
    origin = origin  older = older  longer = longer
    None = None
    Copies <- AllCopies  Length <- Lengths  Tag <- Tags  Serves <- Served
    HasB = TRUE  MaxSwitches = 3  ProbeWindow = 2  BigFile = 3
    Quirks <- NoTotal
SPECIFICATION FairSpec
INVARIANTS Intact
PROPERTIES Implements
CHECK_DEADLOCK FALSE
