SPECIFICATION Spec
CONSTANTS
    Newest = 4
    Bad = {3}
    Prompt = TRUE
    Disturbances = {"reboot", "service", "helper", "setup", "health", "download", "journal", "task", "restart"}
    MaxFaults = 3
INVARIANTS TypeOK Recoverable BarrierKept
PROPERTIES AtomicSpec Resolves
