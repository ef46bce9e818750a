SPECIFICATION Spec
CONSTANTS
    Velocities = {forward, left}
    Rest = rest
    Duration = 2
    Lag = 1
    MaxMotions = 3
    MaxTime = 3
INVARIANTS RestWhenIdle MovesBriefly
CHECK_DEADLOCK FALSE
