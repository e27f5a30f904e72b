CONSTANTS
    a1 = a1  a2 = a2  a3 = a3  c1 = c1  c2 = c2  c3 = c3
    None = None
    IPs <- OneIP  Conns <- TwoConns  Width = 1  Verifying = 1
    Cooldown = 1  Quarantine = 1  Sticky = 1
    CooldownMax = 2  CountCap = 2
    ProbeTimeout = 5000  Alpha = 0  TopN = 1
    RTTs <- OneRTT
SPECIFICATION LiveSpec
PROPERTIES Answered
