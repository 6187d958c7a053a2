SPECIFICATION Spec
CONSTANTS
    j1 = j1
    w1 = w1
    w2 = w2
    bytes1 = bytes1
    bytes2 = bytes2
    film = film
    film_encoded = film_encoded
    film_encoded2 = film_encoded2
    Jobs = {j1, j2}
    Workers = {w1, w2, w3}
    NoWorker = NoWorker
    Inodes = {i1, i2, i3}
    Contents = {bytes1, Foreign}
    Foreign = Foreign
    Videos = {bytes1}
    Names = {film, film_encoded, film_encoded2}
    Outputs <- SameNames
    Provisional <- FirstName
    NoFile = NoFile
    Disturbances = {"cancel", "review", "database", "restart"}
    MaxTurns = 2
SYMMETRY Symmetry
INVARIANTS CompletedNotLost
CHECK_DEADLOCK FALSE
