CONSTANTS
    Reg <- SessionReg
    NoReg <- NoRegister
    SubRegister <- NoSub
    SpReg = 4
    FpReg = 5
    RetReg = 0
    Clobbered = {0}
    WordSize = 8
    Modulus <- SessionModulus
    MaxPushes = 3
    MaxSkips = 2
    Heads = {1, 2, 3, 4, 5}
    Callee = {1, 4}
    NoFunc = 0
    MaxEntries = 2
    MaxBlocks = 1
    MaxEdits = 2
    BuiltIn <- DefaultRegistry
    Worlds <- AllWorlds
SPECIFICATION Spec
INVARIANTS TypeOK KeepsRecent CachedIsTrue FreshScanIsRight BestLocatorAnswers
PROPERTIES StaleWithinBounds CallsReturn
