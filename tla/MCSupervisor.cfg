SPECIFICATION Spec
CONSTANTS
    Commands = {"configure", "limits", "ram", "shutdown", "setup", "update", "remote"}
    MaxCommands = 2
    Disturbances = {"worker", "service", "call", "server", "save", "power", "update"}
    MaxFaults = 1
INVARIANTS TypeOK ShutdownCancelled ReplacedWhenIdle
PROPERTIES ShutdownSafe Settles
