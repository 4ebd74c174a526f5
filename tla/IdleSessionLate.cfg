CONSTANTS
    Modulus = 12
    IdleTicks = 4
    GraceTicks = 2
    MaxIteration = 3
    MaxBle = 0
SPECIFICATION IdleSpec
PROPERTY EndsOnlyWhenIdle
