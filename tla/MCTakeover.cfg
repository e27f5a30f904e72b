CONSTANTS
    s1 = s1  s2 = s2  None = None
    Serves <- TwoServes  MaxKills = 1  Back = "near"  Faults = {"partial", "store"}
SPECIFICATION LiveSpec
CONSTRAINT NotLost
INVARIANTS OriginalNeverLost
PROPERTIES LeavingRestores Heals
