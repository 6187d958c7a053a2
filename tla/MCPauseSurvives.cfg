SPECIFICATION Spec
CONSTANTS
    Commands = {"configure","shutdown"}
    MaxCommands = 2
    Disturbances = {"service"}
    MaxFaults = 1
INVARIANTS PauseSurvives
