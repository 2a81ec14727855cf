CONSTANTS
    Reg <- AsmReg
    NoReg = "none"
    SubRegister <- AsmSubRegister
    SpReg = "esp"
    FpReg = "ebp"
    RetReg = "eax"
    Clobbered <- AsmClobbered
    WordSize = 4
    Modulus <- AsmModulus
    Block <- ResolverBlock
    Programs <- ResolverPrograms
    Queries <- ResolverQueries
    Image <- ResolverImage
    MaxSteps = 12
    MaxBlocks = 4
SPECIFICATION Spec
INVARIANTS
    TypeOK
    SentinelsStayInWalks
    FailsClosed
    DepthWithinBudget
    DefinedBeforeLoopResolves
PROPERTY Termination
\* The query is answered once and the call returns.
CHECK_DEADLOCK FALSE
