CONSTANTS
    Reg <- AsmReg
    NoReg = "none"
    SubRegister <- AsmSubRegister
    SpReg = "esp"
    FpReg = "ebp"
    RetReg = "eax"
    Clobbered <- AsmClobbered
    WordSize = 4
    Modulus <- AsmModulus
    Block <- EngineBlock
    NoBlock = 0
    Programs <- EnginePrograms
    Queries <- EngineQueries
    MaxInstructions = 8
    MaxBlockVisits = 3
    LoopWidenAfter = 2
SPECIFICATION Spec
INVARIANTS
    TypeOK
    UnsettledIsScheduled
    UntouchedArgumentKept
    FinalWalkFits
PROPERTIES
    OnlyLosesInformation
    Termination
\* The query is answered once and the call returns.
CHECK_DEADLOCK FALSE
