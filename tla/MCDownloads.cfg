SPECIFICATION Spec
CONSTANTS
    MaxRelease = 2
    Workers = {w1, w2}
    Nobody = Nobody
    Streams = {1, 2, 3}
    Chunks = 2
    MaxVersion = 2
    MaxAttempts = 8
    Disturbances = {"cut", "reassign", "replace", "remove", "race", "crash", "slow", "releases", "asset"}
    MaxFaults = 2
INVARIANTS TypeOK Intact
PROPERTIES Downloaded UpToDate
