--------------------------- MODULE ForwardTransfer ---------------------------
(****************************************************************************)
(* The abstract state of the forward engine (core/state.py) and the effect  *)
(* one instruction has on it (core/engine_forward.py, _step, with the       *)
(* apply_forward of the locators it dispatches to).                         *)
(****************************************************************************)
EXTENDS Instructions

\* A stack slot: ("sp", offset from the entry stack pointer) or ("fp", disp).
Slot == {"sp", "fp"} \X Int

\* AbstractState: two dictionaries; what they do not mention reads as Unknown.
IsState(s) ==
    /\ s = [registers |-> s.registers, stack |-> s.stack]
    /\ DOMAIN s.registers \subseteq Reg
    /\ DOMAIN s.stack \subseteq Slot
    /\ \A r \in DOMAIN s.registers : s.registers[r] \in Value
    /\ \A k \in DOMAIN s.stack : s.stack[k] \in Value

EmptyState == [registers |-> <<>>, stack |-> <<>>]

Read(dict, key) ==
    IF key \in DOMAIN dict THEN dict[key] ELSE Unknown("NO_DEFINITION_FOUND")
GetReg(s, r)  == Read(s.registers, r)
GetSlot(s, k) == Read(s.stack, k)

Put(dict, keys, v) ==
    [x \in DOMAIN dict \cup keys |-> IF x \in keys THEN v ELSE dict[x]]
SetReg(s, r, v)  == [registers |-> Put(s.registers, {r}, v), stack |-> s.stack]
SetSlot(s, k, v) == [registers |-> s.registers, stack |-> Put(s.stack, {k}, v)]
Forget(s, regs, reason) ==
    [registers |-> Put(s.registers, regs, Unknown(reason)), stack |-> s.stack]

-----------------------------------------------------------------------------
WrittenRegs(i) ==
    {i.ops[n].reg : n \in {m \in DOMAIN i.ops : IsReg(i.ops[m]) /\ i.ops[m].written}}

\* _stack_key: <<k>> for the one slot a memory operand names, <<>> for None.
SlotOf(i, op) ==
    IF ~IsBased(op) \/ op.index \/ op.seg THEN <<>>
    ELSE IF op.reg = SpReg
      THEN IF i.delta = <<>> THEN <<>> ELSE << <<"sp", i.delta[1] + op.disp>> >>
    ELSE IF op.reg = FpReg THEN << <<"fp", op.disp>> >>
    ELSE <<>>

\* _other_operand and _value_of_source.
SourceValue(i, n, s) ==
    LET others == DOMAIN i.ops \ {n}
        src == i.ops[Least(others)]
    IN  IF others # {} /\ IsReg(src) THEN GetReg(s, src.reg)
        ELSE IF others # {} /\ IsImm(src) THEN Concrete(src.imm, "INT")
        ELSE Unknown("UNSUPPORTED_OPERAND_SHAPE")

\* _invalidate_possibly_aliased_stack
ForgetStack(op, s) ==
    IF op.reg \notin {SpReg, FpReg} THEN s
    ELSE [registers |-> s.registers,
          stack |-> Put(s.stack, DOMAIN s.stack, Unknown("MUTATED_MEMORY_CONTENT"))]

ApplyStore(i, n, s) ==
    LET op == i.ops[n]
        slot == SlotOf(i, op)
    IN  IF slot = <<>> THEN ForgetStack(op, s)
        ELSE SetSlot(s, slot[1], IF PureDefinition(op) THEN SourceValue(i, n, s)
                                 ELSE Unknown("UNSUPPORTED_INSTRUCTION"))

ApplyLoad(i, n, s) ==
    LET dsts == {m \in DOMAIN i.ops : IsReg(i.ops[m]) /\ i.ops[m].written}
        dst  == i.ops[Least(dsts)]
        slot == SlotOf(i, i.ops[n])
    IN  IF dsts = {} THEN s
        ELSE IF PureDefinition(dst) /\ slot # <<>>
          THEN SetReg(s, dst.reg, GetSlot(s, slot[1]))
          ELSE Forget(s, {dst.reg}, "UNSUPPORTED_INSTRUCTION")

ApplyCall(i, s) ==
    SetReg(Forget(s, Clobbered, "INDIRECT_CONTROL_FLOW"), RetReg,
           Symbolic(<<"ret", i.ea>>))

-----------------------------------------------------------------------------
\* The locators whose apply_forward is more than Locator's default.
ForwardLocators == {"mov_reg_reg", "mov_reg_imm", "lea_reg_addr", "xchg_reg_reg",
                    "cmov_reg_reg", "lea_reg_displ", "add_sub_reg_imm", "zero_idiom"}

\* What IDA reports of the instructions they handle: the registers they set are
\* operands marked as written.
MarksWrites(i) ==
    /\ LocatorOf(i) \in ForwardLocators => i.ops[1].reg \in WrittenRegs(i)
    /\ LocatorOf(i) = "xchg_reg_reg" => i.ops[2].reg \in WrittenRegs(i)

ApplyLocator(i, s) ==
    LET name == LocatorOf(i)
        dst  == i.ops[1]
        src  == i.ops[2]
        d    == GetReg(s, dst.reg)
        v    == GetReg(s, src.reg)
    IN  CASE name = "mov_reg_reg"  -> SetReg(s, dst.reg, v)
          [] name = "mov_reg_imm"  -> SetReg(s, dst.reg, Concrete(src.imm, "INT"))
          [] name = "lea_reg_addr" -> SetReg(s, dst.reg, Concrete(src.imm, "POINTER"))
          [] name = "xchg_reg_reg" -> SetReg(SetReg(s, dst.reg, v), src.reg, d)
          [] name = "cmov_reg_reg" -> SetReg(s, dst.reg, Join(d, v))
          [] name = "lea_reg_displ" ->
                SetReg(s, dst.reg, Adjusted(v, src.disp, dst.size, "POINTER"))
          [] name = "add_sub_reg_imm" ->
                SetReg(s, dst.reg,
                       Adjusted(d, IF i.mnem = "add" THEN src.imm ELSE -src.imm,
                                dst.size, "INT"))
          [] name = "zero_idiom"   -> SetReg(s, dst.reg, Concrete(0, "INT"))

\* _step_transfer: call, then a locator with forward semantics, then memory
\* stores and loads by shape (of the last such operand); everything else clobbers
\* what it writes.
Transfer(i, s) ==
    LET mems == {n \in DOMAIN i.ops : IsMem(i.ops[n])}
        stores == {n \in mems : i.ops[n].written}
    IN  IF i.mnem = "call" THEN ApplyCall(i, s)
        ELSE IF LocatorOf(i) \in ForwardLocators THEN ApplyLocator(i, s)
        ELSE IF stores # {} THEN ApplyStore(i, Greatest(stores), s)
        ELSE IF mems # {} THEN ApplyLoad(i, Greatest(mems), s)
        ELSE Forget(s, WrittenRegs(i), "UNSUPPORTED_INSTRUCTION")

\* _invalidate_partial_register_writes: a write that leaves part of its register
\* as it was makes both names of the register Unknown.
PartiallyWritten(i) ==
    LET partial == {n \in DOMAIN i.ops :
                      /\ IsReg(i.ops[n]) /\ i.ops[n].written
                      /\ ~RegisterView(i.ops[n].reg, i.ops[n].size).definesParent}
    IN  {i.ops[n].reg : n \in partial}
          \cup {RegisterView(i.ops[n].reg, i.ops[n].size).parent : n \in partial}

StepEffect(i, s) ==
    Forget(Transfer(i, s), PartiallyWritten(i), "UNSUPPORTED_OPERAND_SHAPE")

=============================================================================
