SPECIFICATION Spec
CONSTANTS
    Commands = {"configure"}
    MaxCommands = 1
    Disturbances = {"service"}
    MaxFaults = 1
PROPERTIES ChangesWait
