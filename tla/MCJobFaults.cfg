SPECIFICATION Spec
CONSTANTS
    w1 = w1
    w2 = w2
    j1 = j1
    j2 = j2
    encode = encode
    download = download
    Jobs = {j1}
    Workers = {w1, w2}
    Server = Server
    Steps = {encode}
    FirstStep = encode
    EncodeStep = encode
    After <- OneStep
    FailureBudget = 1
    AcceptLimit = 1
    DeleteSource = FALSE
    UserFlags <- NoFlags
    Disturbances = {"cancel", "crash"}
    MaxEvents = 5
SYMMETRY WorkerSymmetry
INVARIANTS Fenced ContextsRecorded
