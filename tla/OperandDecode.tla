---------------------------- MODULE OperandDecode ----------------------------
(****************************************************************************)
(* How the adapter turns IDA's x86-64 instruction records into the          *)
(* Instruction of the engines (adapters/ida_operand_decode.py, and          *)
(* _convert_instruction and _convert_operand of adapters/ida_port_impl.py), *)
(* beside how the processor's encoding and IDA arrive at those records.     *)
(* Registers are numbered 0..15.  An operand here keeps the number of its   *)
(* index register and its scale; IDA's 64-bit words count Modulus[8]        *)
(* patterns.                                                                *)
(****************************************************************************)
EXTENDS PushSequence

ASSUME EncodingAssumption ==
    /\ Reg = 0..15 /\ NoReg \in Int /\ NoReg < 0
    /\ \A size \in 1..8 : Modulus[8] % Modulus[size] = 0

NoIndex == [index |-> NoReg, scale |-> 1]

\* What an operand says in truth, and should say once decoded.
TrueOperand(kind, r, x, imm, disp, size, written) ==
    [kind |-> kind, reg |-> r, index |-> x.index, scale |-> x.scale, imm |-> imm,
     disp |-> disp, size |-> size, written |-> written]

NoInsn == Undecodable

-----------------------------------------------------------------------------
\* ida_operand_decode.py.
HasBit(n, mask) == (n \div mask) % 2 = 1

RexBits(prefix) == IF prefix \div 16 = 4 THEN prefix ELSE 0

\* Mutant of DecodeSib: REX.X does not turn "no index" into r12.
DecodeSib_IgnoreRexX(sib, rex) ==
    LET index == (sib \div 8) % 8
        extended(bits, mask) == bits + (IF HasBit(rex, mask) THEN 8 ELSE 0)
    IN  [base |-> extended(sib % 8, 1), scale |-> 2 ^ (sib \div 64),
         index |-> IF index = 4 THEN NoReg ELSE extended(index, 2)]

\* decode_sib: index 4 means none, unless REX.X makes it r12.
DecodeSib(sib, rex) ==
    LET index == (sib \div 8) % 8
        extended(bits, mask) == bits + (IF HasBit(rex, mask) THEN 8 ELSE 0)
    IN  [base |-> extended(sib % 8, 1), scale |-> 2 ^ (sib \div 64),
         index |-> IF index = 4 /\ ~HasBit(rex, 2) THEN NoReg ELSE extended(index, 2)]

\* memory_operand_addressing.
\* Mutant of Addressing: the SIB byte is not looked at.
Addressing_NoSib(op, prefix) == [base |-> op.reg, scale |-> 1, index |-> NoReg]

\* memory_operand_addressing.
Addressing(op, prefix) ==
    IF op.has_sib THEN DecodeSib(op.sib, RexBits(prefix))
    ELSE [base |-> op.reg, scale |-> 1, index |-> NoReg]

SignExtend(v) ==
    LET w == v % Modulus[8] IN IF 2 * w >= Modulus[8] THEN w - Modulus[8] ELSE w

UnsignedOfWidth(v, size) == IF size \in 1..8 THEN v % Modulus[size] ELSE v

\* _convert_operand: op is [type, reg, has_sib, sib, addr, value, size].
ConvertOperand(op, prefix, written) ==
    LET a == Addressing(op, prefix)
        to(kind, r, x, imm, disp) == TrueOperand(kind, r, x, imm, disp, op.size, written)
    IN  CASE op.type = "o_reg" -> to("REG", op.reg, NoIndex, 0, 0)
          [] op.type = "o_imm" -> to("IMMEDIATE", NoReg, NoIndex, UnsignedOfWidth(op.value, op.size), 0)
          [] op.type = "o_mem" -> to("MEM_DIRECT", NoReg, NoIndex, op.addr, 0)
          [] op.type = "o_phrase" -> to("MEM_PHRASE", a.base, a, 0, 0)
          [] op.type = "o_displ" -> to("MEM_DISPL", a.base, a, 0, SignExtend(op.addr))
          [] op.type = "o_near" -> to("NEAR", NoReg, NoIndex, op.addr, 0)

\* _convert_instruction; no instruction for an address that does not decode.
\* Whether it transfers control is told by its mnemonic.
Convert(insn) ==
    IF insn = NoInsn THEN NoInsn
    ELSE [mnem |-> insn.mnem,
          ops |-> [n \in DOMAIN insn.ops |->
                     ConvertOperand(insn.ops[n], insn.insnpref, insn.changes[n])]]

-----------------------------------------------------------------------------
\* The encoder: a SIB byte where there is an index or the base is rsp or r12,
\* and IDA's own record of it.
NeedsSib(op) == IsMem(op) /\ op.kind # "MEM_DIRECT" /\ (op.index # NoReg \/ op.reg % 8 = 4)

ScaleBits(scale) == CHOOSE n \in 0..3 : 2 ^ n = scale

SibOf(op) ==
    64 * ScaleBits(op.scale) + 8 * (IF op.index = NoReg THEN 4 ELSE op.index % 8) + (op.reg % 8)

RexOf(op) ==
    IF ~IsMem(op) THEN 0
    ELSE LET b == IF op.reg >= 8 THEN 1 ELSE 0
             x == IF op.index >= 8 THEN 2 ELSE 0
         IN  IF b + x = 0 THEN 0 ELSE 64 + b + x

Widened(v, size) ==
    IF size \notin 1..8 THEN v
    ELSE (IF 2 * v >= Modulus[size] THEN v - Modulus[size] ELSE v) % Modulus[8]

IdaType(kind) ==
    CASE kind = "REG" -> "o_reg" [] kind = "IMMEDIATE" -> "o_imm"
      [] kind = "MEM_DIRECT" -> "o_mem" [] kind = "MEM_PHRASE" -> "o_phrase"
      [] kind = "MEM_DISPL" -> "o_displ" [] kind = "NEAR" -> "o_near"

EncodeOperand(op) ==
    [type |-> IdaType(op.kind), size |-> op.size, has_sib |-> NeedsSib(op),
     reg |-> IF NeedsSib(op) THEN 4 + (IF op.reg >= 8 THEN 8 ELSE 0) ELSE op.reg,
     sib |-> IF NeedsSib(op) THEN SibOf(op) ELSE 0,
     addr |-> IF op.kind = "MEM_DISPL" THEN op.disp % Modulus[8] ELSE op.imm,
     value |-> IF op.kind = "IMMEDIATE" THEN Widened(op.imm, op.size) ELSE 0]

\* The operands the processor can encode: rsp is no index, an address has no
\* more than 64 bits of displacement, an immediate is of its width.
IsEncodableOperand(op) ==
    /\ op = TrueOperand(op.kind, op.reg, op, op.imm, op.disp, op.size, op.written)
    /\ op.kind \in OperandKind /\ op.imm \in Int /\ op.disp \in Int
    /\ IF op.kind \in {"MEM_PHRASE", "MEM_DISPL"}
         THEN /\ op.reg \in Reg /\ op.index \in (Reg \ {4}) \cup {NoReg}
              /\ \E n \in 0..3 : op.scale = 2 ^ n /\ (op.index = NoReg => n = 0)
              /\ op.imm = 0
         ELSE op.index = NoReg /\ op.scale = 1 /\ op.disp = 0
    /\ CASE op.kind = "REG"        -> op.reg \in Reg /\ op.imm = 0
         [] op.kind = "IMMEDIATE"  -> /\ op.reg = NoReg
                                      /\ op.size \in 1..8 => op.imm \in 0..(Modulus[op.size] - 1)
         [] op.kind = "MEM_PHRASE" -> op.disp = 0
         [] op.kind = "MEM_DISPL"  -> -Modulus[8] <= 2 * op.disp /\ 2 * op.disp < Modulus[8]
         [] op.kind \in {"MEM_DIRECT", "NEAR"} -> op.reg = NoReg

\* ... and the instructions: at most one operand is in memory.
IsEncodable(insn) ==
    \/ insn = NoInsn
    \/ /\ insn = [mnem |-> insn.mnem, ops |-> insn.ops] /\ insn.mnem \in Mnemonic
       /\ insn.ops \in Seq({insn.ops[n] : n \in DOMAIN insn.ops})
       /\ \A n \in DOMAIN insn.ops : IsEncodableOperand(insn.ops[n])
       /\ \A m, n \in DOMAIN insn.ops : IsMem(insn.ops[m]) /\ IsMem(insn.ops[n]) => m = n

Encode(insn) ==
    IF insn = NoInsn THEN NoInsn
    ELSE [mnem |-> insn.mnem,
          ops |-> [n \in DOMAIN insn.ops |-> EncodeOperand(insn.ops[n])],
          changes |-> [n \in DOMAIN insn.ops |-> insn.ops[n].written],
          insnpref |-> LET rex == {RexOf(insn.ops[n]) : n \in DOMAIN insn.ops}
                       IN  IF rex \subseteq {0} THEN 0 ELSE Greatest(rex)]

\* decode_at on an address where the program has this instruction.
DecodeAt(insn) == Convert(Encode(insn))

=============================================================================
