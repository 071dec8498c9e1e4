SPECIFICATION Spec
CONSTANTS
    Ids = {1, 2, 3}
    Requests = {r1}
    MaxTries = 1
    MaxRotations = 1
    RecoveryCodes = 1
PROPERTY NewCodeEndsSessions
CHECK_DEADLOCK FALSE
