---------------------------- MODULE Instructions ----------------------------
(****************************************************************************)
(* The instruction model the engines work on (core/insn_model.py), the      *)
(* register views the adapter answers with (core/ida_types.py,              *)
(* adapters/ida_port_impl.py), and which built-in locator the registry of   *)
(* locators/base.py finds for an instruction.                               *)
(*                                                                          *)
(* An operand carries its own written/read flags instead of the two tuples  *)
(* parallel to the operands.  Mnemonics are the classes the code tells      *)
(* apart; "other" is any instruction no locator knows.                      *)
(****************************************************************************)
EXTENDS ValueLattice

CONSTANTS
    Reg,          \* register numbers
    NoReg,        \* a missing register (None)
    SubRegister,  \* narrow register -> [parent, offset]: al, ah, ... of x86
    SpReg, FpReg, \* stack and frame pointer
    RetReg,       \* the register a call returns its result in
    Clobbered,    \* the registers a call destroys
    WordSize,     \* pointer size in bytes
    Modulus       \* [1..8 -> Nat]: bit patterns of a register of n bytes

ASSUME RegistersAssumption ==
    /\ NoReg \notin Reg
    /\ DOMAIN SubRegister \subseteq Reg
    /\ \A r \in DOMAIN SubRegister :
          SubRegister[r] \in [parent : Reg, offset : Nat]
    /\ {SpReg, FpReg, RetReg} \subseteq Reg
    /\ Clobbered \subseteq Reg

ASSUME WidthAssumption ==
    /\ WordSize \in 1..8
    /\ Modulus \in [1..8 -> Nat \ {0}]

OperandKind == {"REG", "IMMEDIATE", "MEM_DIRECT", "MEM_PHRASE", "MEM_DISPL", "NEAR"}

Moves == {"mov", "movzx"}
Mnemonic == Moves \cup {"lea", "xchg", "cmov", "add", "sub", "xor", "push",
                        "call", "jmp", "other"}

\* imm stands for imm_value of an immediate and for addr of a direct operand;
\* index and seg say whether there is an index register or an fs:/gs: override.
Operand == [kind : OperandKind, reg : Reg \cup {NoReg}, size : 0..8, imm : Int,
            disp : Int, index : BOOLEAN, seg : BOOLEAN,
            written : BOOLEAN, read : BOOLEAN]

IsWellFormed(op) ==
    /\ op \in Operand
    /\ op.kind = "REG" => op.reg \in Reg

\* delta is the adapter's get_sp_delta at this address: <<d>>, or <<>> for None.
\* implicit is what the processor writes beyond the operands; no code sees it.
IsInstruction(i) ==
    /\ i = [ea |-> i.ea, mnem |-> i.mnem, ops |-> i.ops, delta |-> i.delta,
            implicit |-> i.implicit]
    /\ i.ea \in Int /\ i.mnem \in Mnemonic
    /\ i.ops \in Seq(Operand) /\ \A n \in DOMAIN i.ops : IsWellFormed(i.ops[n])
    \* An exchange has the two operands it swaps.
    /\ i.mnem = "xchg" => Len(i.ops) = 2
    /\ i.delta \in Seq(Int) /\ Len(i.delta) <= 1
    /\ i.implicit \subseteq Reg

IsReg(op) == op.kind = "REG"
IsImm(op) == op.kind = "IMMEDIATE"
IsMem(op) == op.kind \in {"MEM_DIRECT", "MEM_PHRASE", "MEM_DISPL"}
IsBased(op) == op.kind \in {"MEM_PHRASE", "MEM_DISPL"} /\ op.reg # NoReg

\* Mutant of PureDefinition: an operand the instruction also reads counts.
PureDefinition_AnyWrite(op) == op.written

\* is_pure_definition_of: written without being read.
PureDefinition(op) == op.written /\ ~op.read

Wrap(n, size) == n % Modulus[IF size \in 1..8 THEN size ELSE 8]

\* A constant adjustment of v: only a Concrete can be folded.
Adjusted(v, delta, size, kind) ==
    CASE v.tag = "Concrete" -> Concrete(Wrap(v.value + delta, size), kind)
      [] IsUnknown(v)       -> v
      [] OTHER              -> Unknown("UNSUPPORTED_OPERAND_SHAPE")

\* register_view(r, size): which bits of which whole register r names, and
\* whether writing them determines the whole register.
RegisterView(r, size) ==
    IF r \in DOMAIN SubRegister
      THEN [parent |-> SubRegister[r].parent, offset |-> SubRegister[r].offset,
            bits |-> 8, definesParent |-> FALSE]
      ELSE LET bits == 8 * (IF size = 0 THEN WordSize ELSE size)
           IN  [parent |-> r, offset |-> 0, bits |-> bits,
                definesParent |-> \/ bits >= 8 * WordSize
                                  \/ bits = 32 /\ WordSize = 8]

-----------------------------------------------------------------------------
\* LocatorRegistry.match over default_registry().  At most one built-in locator
\* matches an instruction, so their order decides nothing.
LocatorOfBinary(mnem, dst, src) ==
    CASE mnem \in Moves /\ IsReg(dst) /\ IsReg(src)   -> "mov_reg_reg"
      [] mnem \in Moves /\ IsReg(dst) /\ IsMem(src)   -> "mov_reg_mem"
      [] mnem = "mov" /\ IsReg(dst) /\ IsImm(src)     -> "mov_reg_imm"
      [] mnem = "mov" /\ IsMem(dst) /\ IsImm(src)     -> "mov_mem_imm"
      [] mnem = "mov" /\ IsMem(dst) /\ IsReg(src)     -> "mov_mem_reg"
      [] mnem = "lea" /\ IsReg(dst) /\ src.kind = "MEM_DIRECT" -> "lea_reg_addr"
      [] mnem = "lea" /\ IsReg(dst) /\ IsBased(src) /\ ~src.index -> "lea_reg_displ"
      [] mnem = "xchg" /\ IsReg(dst) /\ IsReg(src)    -> "xchg_reg_reg"
      [] mnem = "cmov" /\ IsReg(dst)                  -> "cmov_reg_reg"
      [] mnem \in {"add", "sub"} /\ IsReg(dst) /\ IsImm(src) -> "add_sub_reg_imm"
      [] mnem \in {"xor", "sub"} /\ IsReg(dst) /\ IsReg(src) /\ dst.reg = src.reg
                                                      -> "zero_idiom"
      [] OTHER -> "none"

LocatorOf(i) ==
    IF i.mnem = "call" THEN "call_return"
    ELSE IF i.mnem = "push" /\ Len(i.ops) >= 1 THEN "push"
    ELSE IF Len(i.ops) >= 2 THEN LocatorOfBinary(i.mnem, i.ops[1], i.ops[2])
    ELSE "none"

=============================================================================
