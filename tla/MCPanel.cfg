CONSTANTS
    Nil = Nil
    c1 = c1  c2 = c2
    Conns = {c1, c2}
    MaxSubs = 1  Buf = 1
    MaxTasks = 1  MaxRuns = 2  MaxFaults = 1
SPECIFICATION PanelSpec
INVARIANTS DownloadShown UpdateSettles
PROPERTIES ShownTrue SlotsFreed
CHECK_DEADLOCK FALSE
