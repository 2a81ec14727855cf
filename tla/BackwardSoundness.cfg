CONSTANTS
    Reg <- AsmReg
    NoReg = "none"
    SubRegister <- AsmSubRegister
    SpReg = "esp"
    FpReg = "ebp"
    RetReg = "eax"
    Clobbered <- AsmClobbered
    WordSize = 4
    Modulus <- AsmModulus
    Block <- SoundBlock
    Programs <- SoundPrograms
    Queries <- SoundQueries
    Image <- SoundImage
    MaxSteps = 40
    MaxBlocks = 16
    Cells <- SoundCells
    FpOffset = 8
    Loaded <- SoundImage
SPECIFICATION SoundSpec
INVARIANTS NeverGuess WithinApproximations
\* The query is answered once and the call returns.
CHECK_DEADLOCK FALSE
