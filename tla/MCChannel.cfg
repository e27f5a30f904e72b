CONSTANTS
    loop = loop  api = api
    Doctors <- Both  Loop = loop
    Overrides <- Auto
    WindowSize = 2  MinSamples = 2  FailThreshold = 50
    OpenCooldown = 2  BackoffMax = 3  BHealthTTL = 1
    Half = 4  DoctorLag = 1  BackoffCap = 2
SPECIFICATION LiveSpec
INVARIANTS TypeOK ClosedMeansWindowOK BackoffEndsWithOutage
PROPERTIES CooldownKept EvidenceOnly Recovers
