------------------------- MODULE BackwardDefinitions -------------------------
(****************************************************************************)
(* What the backward walk makes of one instruction                          *)
(* (core/engine_backward.py): whether it defines the tracked register or    *)
(* memory cell, and how the locator that knows the instruction obtains the  *)
(* value it defines it with (the extract of the locators).                  *)
(*                                                                          *)
(* A program point is a block and the position of an instruction in it; the *)
(* code's before_ea.  The processor's stack, frame and return registers are *)
(* known to the adapter, so the branches for a missing one are left out.    *)
(****************************************************************************)
EXTENDS Instructions

\* _memory_location: the region a reference is relative to, and the cell in it.
Location(i, base, disp) ==
    CASE base = NoReg -> [space |-> <<"abs">>, off |-> disp]
      [] base = SpReg /\ i.delta = <<>> ->
            [space |-> <<"sp-unknown", i.ea>>, off |-> disp]
      [] base = SpReg /\ i.delta # <<>> ->
            [space |-> <<"sp">>, off |-> i.delta[1] + disp]
      [] base = FpReg /\ base # SpReg -> [space |-> <<"fp">>, off |-> disp]
      [] OTHER -> [space |-> <<"reg", base>>, off |-> disp]

\* The cell a memory operand names, ignoring its index.
CellOf(i, op) ==
    LET loc == IF op.kind = "MEM_DIRECT" THEN Location(i, NoReg, op.imm)
                                         ELSE Location(i, op.reg, op.disp)
    IN  [space |-> IF op.seg THEN <<"seg">> \o loc.space ELSE loc.space,
         off |-> loc.off]

\* What is tracked.
RegisterKey(r) == [of |-> "register", reg |-> r]
MemoryKey(loc) == [of |-> "memory", cell |-> loc]

\* The outcomes of looking at an instruction.
Pass          == [is |-> "pass"]
Stop(reason)  == [is |-> "stop", reason |-> reason]
Definition(n) == [is |-> "definition", operand |-> n]

-----------------------------------------------------------------------------
\* Mutant of MatchRegister: a call leaves every register but the result alone.
MatchRegister_NoClobber(i, reg) ==
    LET view(n) == RegisterView(i.ops[n].reg, i.ops[n].size)
        query == RegisterView(reg, 0)
        hits == {n \in DOMAIN i.ops : /\ IsReg(i.ops[n]) /\ i.ops[n].written
                                      /\ view(n).parent = query.parent}
        write == view(Least(hits))
    IN  CASE i.mnem = "call" /\ reg = RetReg -> Definition(1)
          [] ~(i.mnem = "call" /\ reg = RetReg) /\ hits = {} -> Pass
          [] OTHER ->
                IF write.definesParent \/ (write.offset = 0 /\ write.bits >= query.bits)
                  THEN Definition(Least(hits)) ELSE Stop("UNSUPPORTED_OPERAND_SHAPE")

\* _match_register_definition: a call defines the result register and destroys
\* the caller-saved ones; otherwise the first written operand that is a part of
\* the tracked register decides.
MatchRegister(i, reg) ==
    LET view(n) == RegisterView(i.ops[n].reg, i.ops[n].size)
        query == RegisterView(reg, 0)
        hits == {n \in DOMAIN i.ops : /\ IsReg(i.ops[n]) /\ i.ops[n].written
                                      /\ view(n).parent = query.parent}
        write == view(Least(hits))
        clobbered == {reg, query.parent} \cap Clobbered # {}
    IN  IF i.mnem = "call" /\ reg = RetReg THEN Definition(1)
        ELSE IF i.mnem = "call" /\ clobbered THEN Stop("NO_DEFINITION_FOUND")
        ELSE IF hits = {} THEN Pass
        ELSE IF write.definesParent \/ (write.offset = 0 /\ write.bits >= query.bits)
          THEN Definition(Least(hits))
        ELSE Stop("UNSUPPORTED_OPERAND_SHAPE")

\* _match_memory_definition: the first written memory operand that names the
\* cell, or may name it because its index is only known at run time.
MatchMemory(i, cell) ==
    LET hits == {n \in DOMAIN i.ops :
                   /\ IsMem(i.ops[n]) /\ i.ops[n].written
                   /\ i.ops[n].kind = "MEM_DIRECT" \/ i.ops[n].reg # NoReg
                   /\ IF i.ops[n].index THEN CellOf(i, i.ops[n]).space = cell.space
                                        ELSE CellOf(i, i.ops[n]) = cell}
    IN  IF hits = {} THEN Pass
        ELSE IF i.ops[Least(hits)].index THEN Stop("UNSUPPORTED_OPERAND_SHAPE")
        ELSE Definition(Least(hits))

Match(i, key) ==
    IF key.of = "register" THEN MatchRegister(i, key.reg) ELSE MatchMemory(i, key.cell)

-----------------------------------------------------------------------------
\* What the resolver is about to do, at a program point.
Returning(v)                   == [do |-> "return", value |-> v]
ResolveRegister(r, b, n)       == [do |-> "register", reg |-> r, block |-> b, pc |-> n]
ResolveMemory(base, disp, b, n) ==
    [do |-> "memory", base |-> base, disp |-> disp, block |-> b, pc |-> n]

\* load_memory_operand: an operand with a run-time index or a segment base has
\* no single static address.
LoadOperand(op, b, n) ==
    IF op.index \/ op.seg \/ (op.kind # "MEM_DIRECT" /\ op.reg = NoReg)
      THEN Returning(Unknown("UNSUPPORTED_OPERAND_SHAPE"))
    ELSE IF op.kind = "MEM_DIRECT" THEN ResolveMemory(NoReg, op.imm, b, n)
    ELSE ResolveMemory(op.reg, op.disp, b, n)

\* PushLocator.extract
Pushed(op, b, n) ==
    CASE IsReg(op) -> ResolveRegister(op.reg, b, n)
      [] IsImm(op) -> Returning(Concrete(op.imm, "INT"))
      [] IsMem(op) -> LoadOperand(op, b, n)
      [] OTHER     -> Returning(Unknown("UNSUPPORTED_OPERAND_SHAPE"))

\* _interpret_definition of operand n of the instruction at a program point:
\* the value at once, or the question whose answer yields it.
Interpret(i, n, b, pc) ==
    LET name == LocatorOf(i)
        dst  == i.ops[1]
        src  == i.ops[2]
    IN  CASE name \in {"mov_reg_reg", "mov_mem_reg", "lea_reg_displ"} ->
                ResolveRegister(src.reg, b, pc)
          [] name = "add_sub_reg_imm" -> ResolveRegister(dst.reg, b, pc)
          [] name = "xchg_reg_reg"    -> ResolveRegister(i.ops[3 - n].reg, b, pc)
          [] name = "mov_reg_mem"     -> LoadOperand(src, b, pc)
          [] name = "push"            -> Pushed(dst, b, pc)
          [] name \in {"mov_reg_imm", "mov_mem_imm"} ->
                Returning(Concrete(src.imm, "INT"))
          [] name = "lea_reg_addr"    -> Returning(Concrete(src.imm, "POINTER"))
          [] name = "zero_idiom"      -> Returning(Concrete(0, "INT"))
          [] name = "call_return"     -> Returning(Symbolic(<<"ret", i.ea>>))
          [] name = "cmov_reg_reg"    -> Returning(Unknown("DIVERGENT_PATHS"))
          [] OTHER                    -> Returning(Unknown("UNSUPPORTED_INSTRUCTION"))

\* What the locator still does with the answer to that question.
Adjustment(i) ==
    LET name == LocatorOf(i)
        dst  == i.ops[1]
        src  == i.ops[2]
    IN  CASE name = "lea_reg_displ" ->
                <<[for |-> "lea", delta |-> src.disp, size |-> dst.size]>>
          [] name = "add_sub_reg_imm" ->
                <<[for |-> "add", size |-> dst.size,
                   delta |-> IF i.mnem = "add" THEN src.imm ELSE -src.imm]>>
          [] OTHER -> <<>>

\* AddSubRegImmLocator.extract folds a constant and passes anything else on.
AddedTo(v, delta, size) ==
    IF v.tag = "Concrete" THEN Adjusted(v, delta, size, "INT") ELSE v

=============================================================================
