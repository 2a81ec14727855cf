CONSTANTS
    Reg <- AsmReg
    NoReg = "none"
    SubRegister <- AsmSubRegister
    SpReg = "esp"
    FpReg = "ebp"
    RetReg = "eax"
    Clobbered <- AsmClobbered
    WordSize = 4
    Modulus <- AsmModulus
    Block <- SoundBlock
    NoBlock = 0
    Programs <- SoundPrograms
    Queries <- SoundQueries
    MaxInstructions = 40
    MaxBlockVisits = 8
    LoopWidenAfter = 3
    Cells <- SoundCells
    FpOffset = 8
    Loaded <- SoundImage
SPECIFICATION SoundSpec
\* The query is answered once and the call returns.
CHECK_DEADLOCK FALSE
INVARIANTS
    NeverGuess
    AnswersFromFixpoint
