SPECIFICATION Spec
CONSTANTS
    w1 = w1
    w2 = w2
    j1 = j1
    j2 = j2
    encode = encode
    download = download
    Jobs = {j1}
    Workers = {w1}
    Server = Server
    Steps = {download, encode}
    FirstStep = download
    EncodeStep = encode
    After <- TwoSteps
    FailureBudget = 1
    AcceptLimit = 2
    DeleteSource = TRUE
    UserFlags <- ForceCompleted
    Disturbances = {"maintenance", "lost", "late", "remove", "missing", "database", "refused", "restart"}
    MaxEvents = 9
INVARIANTS Gapless SourceSafe
