CONSTANTS
    MaxVersion = 3  Ships <- FirstOnly  Steps = 2
    Faults <- AnyFault  MaxFaults = 1
SPECIFICATION LiveSpec
INVARIANTS FloorCoversRules
PROPERTIES NoReplay CountersKept Converges
