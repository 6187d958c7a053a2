\* Two jobs, one slot of each class, all commands, a crash.
CONSTANTS
    j1 = j1
    j2 = j2
    Jobs <- MCJobs
    QueueLimit = 2
    Limits = {0, 1}
    Pairs <- MCPairs
    Commands = {"admission", "mode", "ram", "job", "finish", "drain", "hold", "update"}
    Failures = {"process", "rollback", "worker"}
    Primary = "gpu"
    StartLimit = 1
    StartMode = "finish"
    StartRAM = FALSE
    MaxInt = 3
SPECIFICATION Spec
INVARIANTS TypeOK Accounted HoldsAgree
PROPERTIES WaitingStarts DrainCompletes
CHECK_DEADLOCK FALSE
CONSTANTS
    MaxCommands = 2
    MaxRestarts = 1
