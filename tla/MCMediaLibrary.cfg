SPECIFICATION Spec
CONSTANTS
    film = film
    encoded = encoded
    none = none
    NoFile = none
    Files = {film, encoded}
    Target <- Encodes
    MaxVersion = 2
    Small = {}
    Wanted = {1, 2}
    Operations = {1, 2, 3}
    Running = 2
    Kept = 2
    Probes = 1
    MaxCandidates = 2
    Retries = {{}, {"failed", "canceled"}}
    Disturbances = {"change", "remove", "intake", "info", "cancel", "timeout", "expiry", "database", "restart"}
    MaxFaults = 1
INVARIANTS TypeOK CacheTrue
PROPERTIES QueuedAsReviewed TargetKept OperationsEnd
CHECK_DEADLOCK FALSE
