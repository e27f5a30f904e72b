CONSTANTS
    None = None
    Agents = {"cli", "api"}
    Options <- SomeOpts  UserGits <- SomeGits
    UserFiles <- SomeFiles  GithubTexts = {"github"}
    MaxCmds = 3
    Faults = {"crash", "fail", "overlap", "edit"}
SPECIFICATION Spec
INVARIANTS ForeignKept GitRestored SshRestored
CHECK_DEADLOCK FALSE
