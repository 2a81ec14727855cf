CONSTANTS
    Reg <- AsmReg
    NoReg = "none"
    SubRegister <- AsmSubRegister
    SpReg = "esp"
    FpReg = "ebp"
    RetReg = "eax"
    Clobbered <- AsmClobbered
    WordSize = 4
    Modulus <- AsmModulus
    MaxPushes = 3
    MaxSkips = 2
    CStrings = {1}
    WideStrings = {3}
    Words <- WordsRead
    Requests <- BranchRequests
SPECIFICATION Spec
INVARIANT RightWord
\* One request is answered once.
CHECK_DEADLOCK FALSE
