CONSTANTS
    None = None  Torn = Torn
    Scheds = {"serve", "update"}  Oneshot = {"update"}  Owner <- InServe
    Addrs = {"a", "b"}  List <- TwoLists
    MaxStarts = 3
SPECIFICATION Spec
INVARIANTS CacheWhole EveryLevelCounts OneshotChecked
CHECK_DEADLOCK FALSE
