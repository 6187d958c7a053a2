SPECIFICATION Spec
CONSTANTS
    Newest = 2
    Bad = {}
    Prompt = TRUE
    Disturbances = {"service"}
    MaxFaults = 1
PROPERTIES NeverOrphaned
