SPECIFICATION Spec
CONSTANTS
    Saved <- MCSaved
    Actions = {"stop-after-current", "resume-queue", "pause-encodes", "resume-encodes", "pause-job"}
    Locals = {"limits", "admission", "finish", "drain", "ram", "mode"}
    MaxControls = 2
    MaxOthers = 1
    Primary = "gpu"
    StartLimit = 1
    StartMode = "finish"
    StartRAM = FALSE
    MaxInt = 3
INVARIANTS TypeOK ExecutedOnce AppliedIsTrue
PROPERTIES Converges
