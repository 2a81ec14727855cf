--------------------------------- MODULE Asm ---------------------------------
(****************************************************************************)
(* A small assembler for model instances: the instructions and functions    *)
(* the runs analyse, over the 32-bit x86 registers eax, ecx, esp and ebp    *)
(* with al the low byte of eax.  A byte counts Modulus[1] bit patterns and  *)
(* a register Modulus[4], scaled down from 2^8 and 2^32.                    *)
(****************************************************************************)
EXTENDS Integers, Sequences, FiniteSets

AsmReg == {"eax", "ecx", "esp", "ebp", "al"}
AsmSubRegister == [r \in {"al"} |-> [parent |-> "eax", offset |-> 0]]
AsmClobbered == {"eax", "ecx"}
AsmModulus == [n \in 1..8 |-> IF n = 1 THEN 2 ELSE 4]

Opnd(kind, r, imm, disp, written, read) ==
    [kind |-> kind, reg |-> r, size |-> IF r = "al" THEN 1 ELSE 4, imm |-> imm,
     disp |-> disp, index |-> FALSE, seg |-> FALSE, written |-> written, read |-> read]
R(r, written, read)  == Opnd("REG", r, 0, 0, written, read)
I(n)                 == Opnd("IMMEDIATE", "none", n, 0, FALSE, TRUE)
M(r, d, written, read) == Opnd("MEM_DISPL", r, 0, d, written, read)
G(n, written, read)  == Opnd("MEM_DIRECT", "none", n, 0, written, read)
Indexed(op) == [op EXCEPT !.index = TRUE]

Insn(mnem, ops) == [ea |-> 0, mnem |-> mnem, ops |-> ops, delta |-> <<0>>, implicit |-> {}]

MovRI(r, n)   == Insn("mov", <<R(r, TRUE, FALSE), I(n)>>)
MovRR(r, q)   == Insn("mov", <<R(r, TRUE, FALSE), R(q, FALSE, TRUE)>>)
AddRI(r, n)   == Insn("add", <<R(r, TRUE, TRUE), I(n)>>)
SubRI(r, n)   == Insn("sub", <<R(r, TRUE, TRUE), I(n)>>)
XorRR(r)      == Insn("xor", <<R(r, TRUE, TRUE), R(r, FALSE, TRUE)>>)
Lea(r, q, d)  == Insn("lea", <<R(r, TRUE, FALSE), M(q, d, FALSE, TRUE)>>)
Xchg(r, q)    == Insn("xchg", <<R(r, TRUE, TRUE), R(q, TRUE, TRUE)>>)
Cmov(r, q)    == Insn("cmov", <<R(r, TRUE, TRUE), R(q, FALSE, TRUE)>>)
CmovM(r, q)   == Insn("cmov", <<R(r, TRUE, TRUE), M(q, 0, FALSE, TRUE)>>)
Load(r, b, d)  == Insn("mov", <<R(r, TRUE, FALSE), M(b, d, FALSE, TRUE)>>)
Store(b, d, r) == Insn("mov", <<M(b, d, TRUE, FALSE), R(r, FALSE, TRUE)>>)
StoreI(b, d, n) == Insn("mov", <<M(b, d, TRUE, FALSE), I(n)>>)
LoadAt(r, a)    == Insn("mov", <<R(r, TRUE, FALSE), G(a, FALSE, TRUE)>>)
StoreAt(a, r)   == Insn("mov", <<G(a, TRUE, FALSE), R(r, FALSE, TRUE)>>)
AddMR(b, d, r) == Insn("add", <<M(b, d, TRUE, TRUE), R(r, FALSE, TRUE)>>)
AddRM(r, b, d) == Insn("add", <<R(r, TRUE, TRUE), M(b, d, FALSE, TRUE)>>)
XchgMR(b, d, r) == Insn("xchg", <<M(b, d, TRUE, TRUE), R(r, TRUE, TRUE)>>)
StoreAnywhere(b, r) == Insn("mov", <<Indexed(M(b, 0, TRUE, FALSE)), R(r, FALSE, TRUE)>>)
Unsupported(r) == Insn("other", <<R(r, TRUE, TRUE)>>)
Clobbers(r)    == [Insn("other", <<>>) EXCEPT !.implicit = {r}]
Push(op)       == Insn("push", <<op>>)
Call           == Insn("call", <<Opnd("NEAR", "none", 0, 0, FALSE, TRUE)>>)
Jump           == Insn("jmp", <<Opnd("NEAR", "none", 0, 0, FALSE, TRUE)>>)

\* What the pushes before instruction k of a block did to the stack pointer.
SpDelta(code, k) == -4 * Cardinality({j \in 1..(k - 1) : code[j].mnem = "push"})

\* The function with these blocks' code and successors, entered at block 1.
Function(code, succ) ==
    LET n == Len(code)
    IN  [blocks |-> 1..n, entry |-> 1, succ |-> succ,
         code |-> [b \in 1..n |->
                     [k \in DOMAIN code[b] |-> [code[b][k] EXCEPT !.ea = 10 * b + k, !.delta = <<SpDelta(code[b], k)>>]]],
         pred |-> [b \in 1..n |->
                     SelectSeq([p \in 1..n |-> p],
                               LAMBDA p : \E k \in DOMAIN succ[p] : succ[p][k] = b)]]

Owned(p, owned) == [blocks |-> p.blocks, entry |-> p.entry, code |-> p.code,
                    pred |-> p.pred, succ |-> p.succ, owned |-> owned]

Straight  == << <<2>>, <<3>>, <<>> >>
Diamond   == << <<2, 3>>, <<4>>, <<4>>, <<>> >>
SelfLoop  == << <<2>>, <<2, 3>>, <<>> >>
While     == << <<2>>, <<3, 4>>, <<2>>, <<>> >>
Detour    == << <<2, 3, 4>>, <<5>>, <<5>>, <<6>>, <<>>, <<5>> >>
DetourLoop == << <<2, 3, 4>>, <<5>>, <<5>>, <<6>>, <<5>>, <<5>> >>
EntryLoop == << <<1, 2>>, <<>> >>
Unreached == << <<3>>, <<3>>, <<>> >>

=============================================================================
