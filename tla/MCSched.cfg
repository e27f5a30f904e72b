CONSTANTS
    a1 = a1  a2 = a2  a3 = a3
    None = None
    IPs <- TwoIPs
    Cooldown = 1  Quarantine = 2  Sticky = 2
    CooldownMax = 2  CountCap = 2
    ProbeTimeout = 5000  Alpha = 0  TopN = 1
    RTTs <- OneRTT
SPECIFICATION Spec
SYMMETRY Sym2
INVARIANTS StickyIsActive ClaimIffProbing CountMatchesState
PROPERTIES IsolationHolds
