SPECIFICATION Spec
CONSTANTS
    M = 25
    REGS = 1
    FRAMES = 2
    COMSZ = 8
    Ram = {1, 2}
    Rom = 0
    Statuses = {1}
    TSTG <- MCTSTG
    Registers <- MCRegisters
    Noise <- MCNoise
    Requests <- MCRequests
INVARIANTS
    TypeOK
    GarbledRefused
    WholeServed
PROPERTY PromiseKept
CHECK_DEADLOCK FALSE
