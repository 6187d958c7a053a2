SPECIFICATION Spec
CONSTANTS
    w1 = w1
    w2 = w2
    j1 = j1
    j2 = j2
    encode = encode
    download = download
    Jobs = {j1}
    Workers = {w1}
    Server = Server
    Steps = {encode}
    FirstStep = encode
    EncodeStep = encode
    After <- OneStep
    FailureBudget = 1
    AcceptLimit = 2
    DeleteSource = FALSE
    UserFlags <- NoFlags
    Disturbances = {"maintenance", "missing"}
    MaxEvents = 5
PROPERTIES AssignsQueued
