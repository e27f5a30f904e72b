CONSTANTS
    origin = origin  older = older  longer = longer
    None = None
    Copies <- AllCopies  Length <- Lengths  Tag <- Tags  Serves <- Served
    HasB = TRUE  MaxSwitches = 3  ProbeWindow = 2  BigFile = 3
    Quirks <- NoRange
SPECIFICATION Spec
INVARIANTS Intact
CHECK_DEADLOCK FALSE
