------------------------ MODULE ForwardEngine_proofs ------------------------
(****************************************************************************)
(* Theorems about ForwardSymbolicEngine.resolve_at, for every set of        *)
(* functions and queries and all bounds: first about what one instruction   *)
(* does to an abstract state, then about the fixpoint and the final walk.   *)
(****************************************************************************)
EXTENDS ForwardEngine, ValueLattice_proofs

-----------------------------------------------------------------------------
(* The transfer function *)

\* A dictionary of values keeps its type under assignment.
LEMMA ReadIsValue ==
    ASSUME NEW s, IsState(s)
    PROVE  /\ \A r : GetReg(s, r) \in Value
           /\ \A k : GetSlot(s, k) \in Value
  BY UnknownIsValue DEF IsState, GetReg, GetSlot, Read, Reason

\* The state that knows nothing is an abstract state.
LEMMA EmptyStateIsState == IsState(EmptyState)
<1>1. DOMAIN (<<>>) = {}
  OBVIOUS
<1> QED
  BY <1>1 DEF IsState, EmptyState

\* Setting a register keeps it one ...
LEMMA SetRegIsState ==
    ASSUME NEW s, IsState(s), NEW r \in Reg, NEW v \in Value
    PROVE  IsState(SetReg(s, r, v))
  BY DEF IsState, SetReg, Put

\* ... and so do setting a stack slot ...
LEMMA SetSlotIsState ==
    ASSUME NEW s, IsState(s), NEW k \in Slot, NEW v \in Value
    PROVE  IsState(SetSlot(s, k, v))
  BY DEF IsState, SetSlot, Put

\* ... and forgetting registers.
LEMMA ForgetIsState ==
    ASSUME NEW s, IsState(s), NEW regs \in SUBSET Reg, NEW reason \in Reason
    PROVE  IsState(Forget(s, regs, reason))
  BY UnknownIsValue DEF IsState, Forget, Put

-----------------------------------------------------------------------------
\* The operands of an instruction name registers where they need them.
LEMMA OperandsAreWellFormed ==
    ASSUME NEW i, IsInstruction(i), NEW n \in DOMAIN i.ops
    PROVE  /\ n \in Nat \ {0}
           /\ i.ops[n] \in Operand
           /\ IsReg(i.ops[n]) => i.ops[n].reg \in Reg
<1>1. i.ops \in Seq(Operand) /\ IsWellFormed(i.ops[n])
  BY DEF IsInstruction
<1>2. DOMAIN i.ops = 1..Len(i.ops) /\ Len(i.ops) \in Nat
  BY <1>1
<1> QED
  BY <1>1, <1>2 DEF IsWellFormed, IsReg

\* What an instruction writes are registers ...
LEMMA WrittenRegsAreRegs ==
    ASSUME NEW i, IsInstruction(i)
    PROVE  WrittenRegs(i) \in SUBSET Reg
  BY OperandsAreWellFormed DEF WrittenRegs

\* ... and so is what it writes a part of.
LEMMA PartiallyWrittenAreRegs ==
    ASSUME NEW i, IsInstruction(i)
    PROVE  PartiallyWritten(i) \in SUBSET Reg
<1>1. ASSUME NEW n \in DOMAIN i.ops, IsReg(i.ops[n])
      PROVE  RegisterView(i.ops[n].reg, i.ops[n].size).parent \in Reg
  BY <1>1, OperandsAreWellFormed, RegistersAssumption DEF RegisterView
<1> QED
  BY <1>1, OperandsAreWellFormed DEF PartiallyWritten

\* A stack key is <<>> or names one slot.
LEMMA SlotOfIsSlot ==
    ASSUME NEW i, IsInstruction(i), NEW n \in DOMAIN i.ops,
           SlotOf(i, i.ops[n]) # <<>>
    PROVE  SlotOf(i, i.ops[n])[1] \in Slot
<1> DEFINE op == i.ops[n]
<1>1. op.disp \in Int
  BY OperandsAreWellFormed DEF Operand
<1>2. CASE op.reg = SpReg
  <2>1. i.delta # <<>> /\ SlotOf(i, op) = << <<"sp", i.delta[1] + op.disp>> >>
    BY <1>2 DEF SlotOf
  <2>2. i.delta \in Seq(Int) /\ Len(i.delta) # 0
    BY <2>1 DEF IsInstruction
  <2>3. i.delta[1] \in Int
    BY <2>2
  <2> QED
    BY <1>1, <2>1, <2>3 DEF Slot
<1>3. CASE op.reg # SpReg
  <2>1. SlotOf(i, op) = << <<"fp", op.disp>> >>
    BY <1>3 DEF SlotOf
  <2> QED
    BY <1>1, <2>1 DEF Slot
<1> QED
  BY <1>2, <1>3

\* The value of a source operand is a tracked value.
LEMMA SourceIsValue ==
    ASSUME NEW i, IsInstruction(i), NEW n, NEW s, IsState(s)
    PROVE  SourceValue(i, n, s) \in Value
<1> DEFINE others == DOMAIN i.ops \ {n}
           src == i.ops[Least(others)]
<1>1. ASSUME others # {}
      PROVE  src.imm \in Int
  <2>1. others \in SUBSET Nat
    BY OperandsAreWellFormed
  <2>2. Least(others) \in DOMAIN i.ops
    BY <1>1, <2>1, LeastIsLeast
  <2> QED
    BY <2>2, OperandsAreWellFormed DEF Operand
<1>2. CASE others # {} /\ IsReg(src)
  <2>1. SourceValue(i, n, s) = GetReg(s, src.reg)
    BY <1>2 DEF SourceValue
  <2> QED
    BY <2>1, ReadIsValue
<1>3. CASE others # {} /\ IsImm(src) /\ ~IsReg(src)
  <2>1. SourceValue(i, n, s) = Concrete(src.imm, "INT")
    BY <1>3 DEF SourceValue
  <2> QED
    BY <1>1, <1>3, <2>1, ConcreteIsValue DEF Kind
<1>4. CASE ~(others # {} /\ IsReg(src)) /\ ~(others # {} /\ IsImm(src))
  <2>1. SourceValue(i, n, s) = Unknown("UNSUPPORTED_OPERAND_SHAPE")
    BY <1>4 DEF SourceValue
  <2> QED
    BY <2>1, UnknownIsValue DEF Reason
<1> QED
  BY <1>2, <1>3, <1>4

-----------------------------------------------------------------------------
\* Forgetting the slots a store may alias keeps an abstract state one ...
LEMMA ForgetStackIsState ==
    ASSUME NEW s, IsState(s), NEW op
    PROVE  IsState(ForgetStack(op, s))
  BY UnknownIsValue DEF IsState, ForgetStack, Put, Reason

\* ... and so do a store ...
LEMMA ApplyStoreIsState ==
    ASSUME NEW i, IsInstruction(i), NEW n \in DOMAIN i.ops, NEW s, IsState(s)
    PROVE  IsState(ApplyStore(i, n, s))
<1> DEFINE slot == SlotOf(i, i.ops[n])
           v == IF PureDefinition(i.ops[n]) THEN SourceValue(i, n, s)
                ELSE Unknown("UNSUPPORTED_INSTRUCTION")
<1>1. CASE slot = <<>>
  BY <1>1, ForgetStackIsState DEF ApplyStore
<1>2. CASE slot # <<>>
  <2>1. ApplyStore(i, n, s) = SetSlot(s, slot[1], v)
    BY <1>2 DEF ApplyStore
  <2>2. slot[1] \in Slot
    BY <1>2, SlotOfIsSlot
  <2>3. v \in Value
    BY SourceIsValue, UnknownIsValue DEF Reason
  <2> QED
    BY <2>1, <2>2, <2>3, SetSlotIsState
<1> QED
  BY <1>1, <1>2

\* ... a load ...
LEMMA ApplyLoadIsState ==
    ASSUME NEW i, IsInstruction(i), NEW n \in DOMAIN i.ops, NEW s, IsState(s)
    PROVE  IsState(ApplyLoad(i, n, s))
<1> DEFINE dsts == {m \in DOMAIN i.ops : IsReg(i.ops[m]) /\ i.ops[m].written}
           dst  == i.ops[Least(dsts)]
           slot == SlotOf(i, i.ops[n])
<1>1. CASE dsts = {}
  BY <1>1 DEF ApplyLoad
<1>2. CASE dsts # {}
  <2>1. dsts \in SUBSET Nat
    BY OperandsAreWellFormed
  <2>2. Least(dsts) \in dsts
    BY <1>2, <2>1, LeastIsLeast
  <2>3. dst.reg \in Reg
    BY <2>2, OperandsAreWellFormed
  <2>4. CASE PureDefinition(dst) /\ slot # <<>>
    <3>1. ApplyLoad(i, n, s) = SetReg(s, dst.reg, GetSlot(s, slot[1]))
      BY <1>2, <2>4 DEF ApplyLoad
    <3>2. GetSlot(s, slot[1]) \in Value
      BY ReadIsValue
    <3> QED
      BY <2>3, <3>1, <3>2, SetRegIsState
  <2>5. CASE ~(PureDefinition(dst) /\ slot # <<>>)
    <3>1. ApplyLoad(i, n, s) = Forget(s, {dst.reg}, "UNSUPPORTED_INSTRUCTION")
      BY <1>2, <2>5 DEF ApplyLoad
    <3>2. {dst.reg} \in SUBSET Reg
      BY <2>3
    <3> QED
      BY <3>1, <3>2, ForgetIsState DEF Reason
  <2> QED
    BY <2>4, <2>5
<1> QED
  BY <1>1, <1>2

\* ... and a call.
LEMMA ApplyCallIsState ==
    ASSUME NEW i, IsInstruction(i), NEW s, IsState(s)
    PROVE  IsState(ApplyCall(i, s))
<1>1. IsState(Forget(s, Clobbered, "INDIRECT_CONTROL_FLOW"))
  BY ForgetIsState, RegistersAssumption DEF Reason
<1>2. Symbolic(<<"ret", i.ea>>) \in Value
  BY SymbolicIsValue DEF Expr, IsInstruction
<1>3. RetReg \in Reg
  BY RegistersAssumption
<1> QED
  BY <1>1, <1>2, <1>3, SetRegIsState DEF ApplyCall

\* An adjusted value is a tracked value.
LEMMA AdjustedIsValue ==
    ASSUME NEW v \in Value, NEW delta \in Int, NEW size, NEW kind \in Kind
    PROVE  Adjusted(v, delta, size, kind) \in Value
<1>1. CASE v.tag = "Concrete"
  <2>1. v.value \in Int
    BY <1>1, ValueCases
  <2>2. Modulus[IF size \in 1..8 THEN size ELSE 8] \in Nat \ {0}
    BY WidthAssumption
  <2>3. Wrap(v.value + delta, size) \in Int
    BY <2>1, <2>2 DEF Wrap
  <2>4. Adjusted(v, delta, size, kind) = Concrete(Wrap(v.value + delta, size), kind)
    BY <1>1 DEF Adjusted, IsUnknown
  <2> QED
    BY <2>3, <2>4, ConcreteIsValue
<1>2. CASE v.tag # "Concrete"
  <2>1. Adjusted(v, delta, size, kind) \in {v, Unknown("UNSUPPORTED_OPERAND_SHAPE")}
    BY <1>2 DEF Adjusted
  <2> QED
    BY <2>1, UnknownIsValue DEF Reason
<1> QED
  BY <1>1, <1>2

\* A locator with forward semantics only matches an instruction with a register
\* as its first operand (for xchg, as its second too).
LEMMA ForwardLocatorShape ==
    ASSUME NEW i, LocatorOf(i) \in ForwardLocators
    PROVE  /\ Len(i.ops) >= 2
           /\ IsReg(i.ops[1])
           /\ LocatorOf(i) = "xchg_reg_reg" => IsReg(i.ops[2])
<1>1. Len(i.ops) >= 2 /\ LocatorOf(i) = LocatorOfBinary(i.mnem, i.ops[1], i.ops[2])
  BY DEF LocatorOf, ForwardLocators
<1> QED
  BY <1>1 DEF LocatorOfBinary, ForwardLocators

\* The effect of each locator with forward semantics is an abstract state.
LEMMA ApplyLocatorIsState ==
    ASSUME NEW i, IsInstruction(i), NEW s, IsState(s), LocatorOf(i) \in ForwardLocators
    PROVE  IsState(ApplyLocator(i, s))
<1> DEFINE dst == i.ops[1]
           src == i.ops[2]
           d   == GetReg(s, dst.reg)
           v   == GetReg(s, src.reg)
<1>1. 1 \in DOMAIN i.ops /\ 2 \in DOMAIN i.ops
  <2>1. i.ops \in Seq(Operand)
    BY DEF IsInstruction
  <2> QED
    BY <2>1, ForwardLocatorShape
<1>2. dst.reg \in Reg
  BY <1>1, ForwardLocatorShape, OperandsAreWellFormed
<1>3. src.imm \in Int /\ src.disp \in Int
  BY <1>1, OperandsAreWellFormed DEF Operand
<1>4. d \in Value /\ v \in Value
  BY ReadIsValue
<1>5. \A w \in Value : IsState(SetReg(s, dst.reg, w))
  BY <1>2, SetRegIsState
<1>6. CASE LocatorOf(i) = "mov_reg_reg"
  BY <1>4, <1>5, <1>6 DEF ApplyLocator
<1>7. CASE LocatorOf(i) = "mov_reg_imm"
  <2>1. Concrete(src.imm, "INT") \in Value
    BY <1>3, ConcreteIsValue DEF Kind
  <2> QED
    BY <1>5, <1>7, <2>1 DEF ApplyLocator
<1>8. CASE LocatorOf(i) = "lea_reg_addr"
  <2>1. Concrete(src.imm, "POINTER") \in Value
    BY <1>3, ConcreteIsValue DEF Kind
  <2> QED
    BY <1>5, <1>8, <2>1 DEF ApplyLocator
<1>9. CASE LocatorOf(i) = "xchg_reg_reg"
  <2>1. src.reg \in Reg
    BY <1>1, <1>9, ForwardLocatorShape, OperandsAreWellFormed
  <2>2. IsState(SetReg(SetReg(s, dst.reg, v), src.reg, d))
    BY <1>4, <1>5, <2>1, SetRegIsState
  <2> QED
    BY <1>9, <2>2 DEF ApplyLocator
<1>10. CASE LocatorOf(i) = "cmov_reg_reg"
  <2>1. Join(d, v) \in Value
    BY <1>4, JoinIsScalarJoin, ScalarJoinIsValue
  <2> QED
    BY <1>5, <1>10, <2>1 DEF ApplyLocator
<1>11. CASE LocatorOf(i) = "lea_reg_displ"
  <2>1. Adjusted(v, src.disp, dst.size, "POINTER") \in Value
    BY <1>3, <1>4, AdjustedIsValue DEF Kind
  <2> QED
    BY <1>5, <1>11, <2>1 DEF ApplyLocator
<1>12. CASE LocatorOf(i) = "add_sub_reg_imm"
  <2> DEFINE delta == IF i.mnem = "add" THEN src.imm ELSE -src.imm
  <2>1. delta \in Int
    BY <1>3
  <2>2. Adjusted(d, delta, dst.size, "INT") \in Value
    BY <1>4, <2>1, AdjustedIsValue DEF Kind
  <2> QED
    BY <1>5, <1>12, <2>2 DEF ApplyLocator
<1>13. CASE LocatorOf(i) = "zero_idiom"
  <2>1. Concrete(0, "INT") \in Value
    BY ConcreteIsValue DEF Kind
  <2> QED
    BY <1>5, <1>13, <2>1 DEF ApplyLocator
<1> QED
  BY <1>6, <1>7, <1>8, <1>9, <1>10, <1>11, <1>12, <1>13 DEF ForwardLocators

\* Greatest of a nonempty set of operand positions is one of them.
LEMMA GreatestOperand ==
    ASSUME NEW i, IsInstruction(i), NEW S \in SUBSET DOMAIN i.ops, S # {}
    PROVE  Greatest(S) \in S
<1>1. Len(i.ops) \in Nat /\ DOMAIN i.ops \subseteq 0..Len(i.ops)
  <2>1. i.ops \in Seq(Operand)
    BY DEF IsInstruction
  <2> QED
    BY <2>1
<1> QED
  BY <1>1, GreatestIsGreatest

\* Whatever the instruction, one step maps abstract states to abstract states.
THEOREM StepEffectIsState ==
    ASSUME NEW i, IsInstruction(i), NEW s, IsState(s)
    PROVE  IsState(StepEffect(i, s))
<1> DEFINE mems == {n \in DOMAIN i.ops : IsMem(i.ops[n])}
           stores == {n \in mems : i.ops[n].written}
<1>1. IsState(Transfer(i, s))
  <2>1. CASE i.mnem = "call"
    BY <2>1, ApplyCallIsState DEF Transfer
  <2>2. CASE i.mnem # "call" /\ LocatorOf(i) \in ForwardLocators
    BY <2>2, ApplyLocatorIsState DEF Transfer
  <2>3. CASE i.mnem # "call" /\ LocatorOf(i) \notin ForwardLocators
    <3>1. CASE stores # {}
      <4>1. Greatest(stores) \in DOMAIN i.ops
        BY <3>1, GreatestOperand
      <4>2. Transfer(i, s) = ApplyStore(i, Greatest(stores), s)
        BY <2>3, <3>1 DEF Transfer
      <4> QED
        BY <4>1, <4>2, ApplyStoreIsState
    <3>2. CASE stores = {} /\ mems # {}
      <4>1. Greatest(mems) \in DOMAIN i.ops
        BY <3>2, GreatestOperand
      <4>2. Transfer(i, s) = ApplyLoad(i, Greatest(mems), s)
        BY <2>3, <3>2 DEF Transfer
      <4> QED
        BY <4>1, <4>2, ApplyLoadIsState
    <3>3. CASE stores = {} /\ mems = {}
      <4>1. Transfer(i, s) = Forget(s, WrittenRegs(i), "UNSUPPORTED_INSTRUCTION")
        BY <2>3, <3>3 DEF Transfer
      <4> QED
        BY <4>1, WrittenRegsAreRegs, ForgetIsState DEF Reason
    <3> QED
      BY <3>1, <3>2, <3>3
  <2> QED
    BY <2>1, <2>2, <2>3
<1> QED
  BY <1>1, PartiallyWrittenAreRegs, ForgetIsState DEF StepEffect, Reason

-----------------------------------------------------------------------------
(* What a step leaves alone *)

\* Reading what was just put, or something else.
LEMMA ReadPut ==
    ASSUME NEW dict, NEW keys, NEW v, NEW x
    PROVE  Read(Put(dict, keys, v), x) = IF x \in keys THEN v ELSE Read(dict, x)
  BY DEF Read, Put

\* Reading after a register was set ...
LEMMA ReadAfterSet ==
    ASSUME NEW s, NEW r, NEW v
    PROVE  /\ \A x : GetReg(SetReg(s, r, v), x) = IF x = r THEN v ELSE GetReg(s, x)
           /\ \A k : GetSlot(SetReg(s, r, v), k) = GetSlot(s, k)
  BY ReadPut DEF GetReg, GetSlot, SetReg

\* ... after some were forgotten ...
LEMMA ReadAfterForget ==
    ASSUME NEW s, NEW regs, NEW reason
    PROVE  /\ \A x : GetReg(Forget(s, regs, reason), x)
                       = IF x \in regs THEN Unknown(reason) ELSE GetReg(s, x)
           /\ \A k : GetSlot(Forget(s, regs, reason), k) = GetSlot(s, k)
  BY ReadPut DEF GetReg, GetSlot, Forget

\* ... and after a slot was set.
LEMMA ReadAfterStore ==
    ASSUME NEW s, NEW k, NEW v
    PROVE  /\ \A x : GetSlot(SetSlot(s, k, v), x) = IF x = k THEN v ELSE GetSlot(s, x)
           /\ \A r : GetReg(SetSlot(s, k, v), r) = GetReg(s, r)
  BY ReadPut DEF GetReg, GetSlot, SetSlot

\* A store changes no register.
LEMMA StoreLeavesRegisters ==
    ASSUME NEW i, NEW n, NEW s, NEW r
    PROVE  GetReg(ApplyStore(i, n, s), r) = GetReg(s, r)
<1>1. GetReg(ForgetStack(i.ops[n], s), r) = GetReg(s, r)
  BY DEF ForgetStack, GetReg
<1>2. \/ ApplyStore(i, n, s) = ForgetStack(i.ops[n], s)
      \/ \E k, v : ApplyStore(i, n, s) = SetSlot(s, k, v)
  BY DEF ApplyStore
<1> QED
  BY <1>1, <1>2, ReadAfterStore

\* A locator changes the register of its destination, and xchg that of its source.
LEMMA LocatorLeavesOthers ==
    ASSUME NEW i, LocatorOf(i) \in ForwardLocators, NEW s, NEW r, r # i.ops[1].reg,
           LocatorOf(i) = "xchg_reg_reg" => r # i.ops[2].reg
    PROVE  GetReg(ApplyLocator(i, s), r) = GetReg(s, r)
<1>1. CASE LocatorOf(i) = "xchg_reg_reg"
  BY <1>1, ReadAfterSet DEF ApplyLocator
<1>2. CASE LocatorOf(i) # "xchg_reg_reg"
  <2>1. \E v : ApplyLocator(i, s) = SetReg(s, i.ops[1].reg, v)
    BY <1>2 DEF ApplyLocator, ForwardLocators
  <2> QED
    BY <2>1, ReadAfterSet
<1> QED
  BY <1>1, <1>2

\* A load changes a register it is marked to write.
LEMMA LoadLeavesOthers ==
    ASSUME NEW i, IsInstruction(i), NEW n, NEW s, NEW r, r \notin WrittenRegs(i)
    PROVE  GetReg(ApplyLoad(i, n, s), r) = GetReg(s, r)
<1> DEFINE dsts == {m \in DOMAIN i.ops : IsReg(i.ops[m]) /\ i.ops[m].written}
           dst  == i.ops[Least(dsts)]
<1>1. CASE dsts = {}
  BY <1>1 DEF ApplyLoad
<1>2. CASE dsts # {}
  <2>1. dsts \in SUBSET Nat
    BY OperandsAreWellFormed
  <2>2. Least(dsts) \in dsts
    BY <1>2, <2>1, LeastIsLeast
  <2>3. PICK q : q = dst.reg /\ r # q
    BY <2>2 DEF WrittenRegs
  <2>4. \/ \E v : ApplyLoad(i, n, s) = SetReg(s, q, v)
        \/ ApplyLoad(i, n, s) = Forget(s, {q}, "UNSUPPORTED_INSTRUCTION")
    BY <1>2, <2>3 DEF ApplyLoad
  <2>5. \A v : GetReg(SetReg(s, q, v), r) = GetReg(s, r)
    BY <2>3, ReadAfterSet
  <2>6. r \notin {q}
    BY <2>3
  <2>7. GetReg(Forget(s, {q}, "UNSUPPORTED_INSTRUCTION"), r) = GetReg(s, r)
    BY <2>6, ReadAfterForget
  <2> QED
    BY <2>4, <2>5, <2>7
<1> QED
  BY <1>1, <1>2

\* A register an instruction is not marked to write, as a whole or in part, and
\* that is not one of a call's, is not touched by the instruction's effect.
THEOREM StepEffectLeavesOthers ==
    ASSUME NEW i, IsInstruction(i), MarksWrites(i), NEW s,
           NEW r, r \notin WrittenRegs(i) \cup PartiallyWritten(i),
           i.mnem = "call" => r \notin Clobbered \cup {RetReg}
    PROVE  GetReg(StepEffect(i, s), r) = GetReg(s, r)
<1> DEFINE mems == {n \in DOMAIN i.ops : IsMem(i.ops[n])}
           stores == {n \in mems : i.ops[n].written}
<1>1. GetReg(Transfer(i, s), r) = GetReg(s, r)
  <2>1. CASE i.mnem = "call"
    <3> DEFINE forgot == Forget(s, Clobbered, "INDIRECT_CONTROL_FLOW")
               v == Symbolic(<<"ret", i.ea>>)
    <3>1. Transfer(i, s) = SetReg(forgot, RetReg, v)
      BY <2>1 DEF Transfer, ApplyCall
    <3>2. GetReg(SetReg(forgot, RetReg, v), r) = GetReg(forgot, r)
      BY <2>1, ReadAfterSet
    <3>3. GetReg(forgot, r) = GetReg(s, r)
      BY <2>1, ReadAfterForget
    <3> QED
      BY <3>1, <3>2, <3>3
  <2>2. CASE i.mnem # "call" /\ LocatorOf(i) \in ForwardLocators
    BY <2>2, LocatorLeavesOthers DEF Transfer, MarksWrites
  <2>3. CASE i.mnem # "call" /\ LocatorOf(i) \notin ForwardLocators
    <3>1. \/ Transfer(i, s) = ApplyStore(i, Greatest(stores), s)
          \/ Transfer(i, s) = ApplyLoad(i, Greatest(mems), s)
          \/ Transfer(i, s) = Forget(s, WrittenRegs(i), "UNSUPPORTED_INSTRUCTION")
      BY <2>3 DEF Transfer
    <3> QED
      BY <3>1, StoreLeavesRegisters, LoadLeavesOthers, ReadAfterForget
  <2> QED
    BY <2>1, <2>2, <2>3
<1> QED
  BY <1>1, ReadAfterForget DEF StepEffect

-----------------------------------------------------------------------------
(* A step of less knowledge yields less *)

\* v says no more than w: what v knows, w is.
Below(v, w) == IsKnown(v) => w = v

\* a says no more than b of any register or slot.
StateBelow(a, b) ==
    /\ \A r : Below(GetReg(a, r), GetReg(b, r))
    /\ \A k : Below(GetSlot(a, k), GetSlot(b, k))

\* An unknown says nothing.
LEMMA UnknownIsBelow ==
    ASSUME NEW reason, NEW w
    PROVE  Below(Unknown(reason), w)
  BY DEF Below, Unknown, Because, IsKnown

\* The order is reflexive and transitive ...
LEMMA BelowIsPreorder ==
    /\ \A a : StateBelow(a, a)
    /\ \A a, b, c : StateBelow(a, b) /\ StateBelow(b, c) => StateBelow(a, c)
<1>1. \A a : StateBelow(a, a)
  BY DEF StateBelow, Below
<1>2. ASSUME NEW a, NEW b, NEW c, StateBelow(a, b), StateBelow(b, c)
      PROVE  StateBelow(a, c)
  <2>1. ASSUME NEW u, NEW v, NEW w, Below(u, v), Below(v, w)
        PROVE  Below(u, w)
    BY <2>1 DEF Below
  <2> QED
    BY <1>2, <2>1 DEF StateBelow
<1> QED
  BY <1>1, <1>2

\* ... and setting a register to less keeps it ...
LEMMA SetBelow ==
    ASSUME NEW a, NEW b, StateBelow(a, b), NEW r, NEW v, NEW w, Below(v, w)
    PROVE  StateBelow(SetReg(a, r, v), SetReg(b, r, w))
<1>1. ASSUME NEW x PROVE Below(GetReg(SetReg(a, r, v), x), GetReg(SetReg(b, r, w), x))
  <2>1. CASE x = r
    BY <2>1, ReadAfterSet
  <2>2. CASE x # r
    BY <2>2, ReadAfterSet DEF StateBelow
  <2> QED
    BY <2>1, <2>2
<1>2. ASSUME NEW k PROVE Below(GetSlot(SetReg(a, r, v), k), GetSlot(SetReg(b, r, w), k))
  BY ReadAfterSet DEF StateBelow
<1> QED
  BY <1>1, <1>2 DEF StateBelow

\* ... as do forgetting registers ...
LEMMA ForgetBelow ==
    ASSUME NEW a, NEW b, StateBelow(a, b), NEW regs, NEW reason
    PROVE  StateBelow(Forget(a, regs, reason), Forget(b, regs, reason))
<1>1. ASSUME NEW x
      PROVE  Below(GetReg(Forget(a, regs, reason), x), GetReg(Forget(b, regs, reason), x))
  <2>1. CASE x \in regs
    BY <2>1, ReadAfterForget, UnknownIsBelow
  <2>2. CASE x \notin regs
    BY <2>2, ReadAfterForget DEF StateBelow
  <2> QED
    BY <2>1, <2>2
<1>2. ASSUME NEW k
      PROVE  Below(GetSlot(Forget(a, regs, reason), k), GetSlot(Forget(b, regs, reason), k))
  BY ReadAfterForget DEF StateBelow
<1> QED
  BY <1>1, <1>2 DEF StateBelow

\* ... setting a slot to less ...
LEMMA StoreBelow ==
    ASSUME NEW a, NEW b, StateBelow(a, b), NEW k, NEW v, NEW w, Below(v, w)
    PROVE  StateBelow(SetSlot(a, k, v), SetSlot(b, k, w))
<1>1. ASSUME NEW x PROVE Below(GetSlot(SetSlot(a, k, v), x), GetSlot(SetSlot(b, k, w), x))
  <2>1. CASE x = k
    BY <2>1, ReadAfterStore
  <2>2. CASE x # k
    BY <2>2, ReadAfterStore DEF StateBelow
  <2> QED
    BY <2>1, <2>2
<1>2. ASSUME NEW r PROVE Below(GetReg(SetSlot(a, k, v), r), GetReg(SetSlot(b, k, w), r))
  BY ReadAfterStore DEF StateBelow
<1> QED
  BY <1>1, <1>2 DEF StateBelow

\* ... and forgetting the stack, which leaves nothing known there.
LEMMA ForgetStackBelow ==
    ASSUME NEW op, NEW a, NEW b, StateBelow(a, b)
    PROVE  StateBelow(ForgetStack(op, a), ForgetStack(op, b))
<1>1. CASE op.reg \notin {SpReg, FpReg}
  BY <1>1 DEF ForgetStack
<1>2. CASE op.reg \in {SpReg, FpReg}
  <2>1. ASSUME NEW r
        PROVE  Below(GetReg(ForgetStack(op, a), r), GetReg(ForgetStack(op, b), r))
    BY <1>2 DEF ForgetStack, GetReg, StateBelow
  <2>2. ASSUME NEW k
        PROVE  \E reason : GetSlot(ForgetStack(op, a), k) = Unknown(reason)
    BY <1>2 DEF ForgetStack, GetSlot, Read, Put
  <2> QED
    BY <2>1, <2>2, UnknownIsBelow DEF StateBelow
<1> QED
  BY <1>1, <1>2

\* An adjustment of less is less ...
LEMMA AdjustedBelow ==
    ASSUME NEW v \in Value, NEW w \in Value, Below(v, w), NEW delta, NEW size, NEW kind
    PROVE  Below(Adjusted(v, delta, size, kind), Adjusted(w, delta, size, kind))
<1>1. CASE IsKnown(v)
  BY <1>1 DEF Below
<1>2. CASE ~IsKnown(v)
  BY <1>2 DEF Below, IsKnown, Adjusted, IsUnknown
<1> QED
  BY <1>1, <1>2

\* ... and so is a join of less.
LEMMA JoinBelow ==
    ASSUME NEW v \in Value, NEW w \in Value, Below(v, w),
           NEW x \in Value, NEW y \in Value, Below(x, y)
    PROVE  Below(Join(v, x), Join(w, y))
<1> SUFFICES ASSUME IsKnown(Join(v, x))
             PROVE  Join(w, y) = Join(v, x)
  BY DEF Below
<1>1. v = Join(v, x) /\ x = Join(v, x)
  BY JoinIsScalarJoin, ScalarJoinNeverGuesses
<1>2. w = v /\ y = x
  BY <1>1 DEF Below
<1> QED
  BY <1>2

\* What a source operand reads of less is less.
LEMMA SourceBelow ==
    ASSUME NEW i, NEW n, NEW a, NEW b, StateBelow(a, b)
    PROVE  Below(SourceValue(i, n, a), SourceValue(i, n, b))
<1> DEFINE others == DOMAIN i.ops \ {n}
           src == i.ops[Least(others)]
<1>1. CASE others # {} /\ IsReg(src)
  BY <1>1 DEF SourceValue, StateBelow
<1>2. CASE ~(others # {} /\ IsReg(src))
  <2>1. SourceValue(i, n, a) = SourceValue(i, n, b)
    BY <1>2 DEF SourceValue
  <2> QED
    BY <2>1 DEF Below
<1> QED
  BY <1>1, <1>2

\* Each locator with forward semantics keeps the order ...
LEMMA LocatorBelow ==
    ASSUME NEW i, LocatorOf(i) \in ForwardLocators,
           NEW a, IsState(a), NEW b, IsState(b), StateBelow(a, b)
    PROVE  StateBelow(ApplyLocator(i, a), ApplyLocator(i, b))
<1> DEFINE dst == i.ops[1]
           src == i.ops[2]
           delta == IF i.mnem = "add" THEN src.imm ELSE -src.imm
<1>1. PICK da, va, db, vb : /\ da = GetReg(a, dst.reg) /\ va = GetReg(a, src.reg)
                            /\ db = GetReg(b, dst.reg) /\ vb = GetReg(b, src.reg)
  OBVIOUS
<1>2. /\ da \in Value /\ va \in Value /\ db \in Value /\ vb \in Value
      /\ Below(da, db) /\ Below(va, vb)
  BY <1>1, ReadIsValue DEF StateBelow
<1>3. \A v, w : Below(v, w) => StateBelow(SetReg(a, dst.reg, v), SetReg(b, dst.reg, w))
  BY SetBelow
<1>4. \A v : Below(v, v)
  BY DEF Below
<1>5. CASE LocatorOf(i) = "mov_reg_reg"
  BY <1>1, <1>2, <1>3, <1>5 DEF ApplyLocator
<1>6. CASE LocatorOf(i) \in {"mov_reg_imm", "lea_reg_addr", "zero_idiom"}
  <2>1. \E v : ApplyLocator(i, a) = SetReg(a, dst.reg, v) /\ ApplyLocator(i, b) = SetReg(b, dst.reg, v)
    BY <1>6 DEF ApplyLocator
  <2> QED
    BY <1>3, <1>4, <2>1
<1>7. CASE LocatorOf(i) = "xchg_reg_reg"
  <2>1. StateBelow(SetReg(a, dst.reg, va), SetReg(b, dst.reg, vb))
    BY <1>2, <1>3
  <2>2. StateBelow(SetReg(SetReg(a, dst.reg, va), src.reg, da),
                   SetReg(SetReg(b, dst.reg, vb), src.reg, db))
    BY <1>2, <2>1, SetBelow
  <2> QED
    BY <1>1, <1>7, <2>2 DEF ApplyLocator
<1>8. CASE LocatorOf(i) = "cmov_reg_reg"
  <2>1. Below(Join(da, va), Join(db, vb))
    BY <1>2, JoinBelow
  <2> QED
    BY <1>1, <1>3, <1>8, <2>1 DEF ApplyLocator
<1>9. CASE LocatorOf(i) = "lea_reg_displ"
  <2>1. Below(Adjusted(va, src.disp, dst.size, "POINTER"), Adjusted(vb, src.disp, dst.size, "POINTER"))
    BY <1>2, AdjustedBelow
  <2> QED
    BY <1>1, <1>3, <1>9, <2>1 DEF ApplyLocator
<1>10. CASE LocatorOf(i) = "add_sub_reg_imm"
  <2>1. Below(Adjusted(da, delta, dst.size, "INT"), Adjusted(db, delta, dst.size, "INT"))
    BY <1>2, AdjustedBelow
  <2> QED
    BY <1>1, <1>3, <1>10, <2>1 DEF ApplyLocator
<1> QED
  BY <1>5, <1>6, <1>7, <1>8, <1>9, <1>10 DEF ForwardLocators

\* ... and so do a store ...
LEMMA ApplyStoreBelow ==
    ASSUME NEW i, NEW n, NEW a, NEW b, StateBelow(a, b)
    PROVE  StateBelow(ApplyStore(i, n, a), ApplyStore(i, n, b))
<1> DEFINE slot == SlotOf(i, i.ops[n])
<1>1. CASE slot = <<>>
  BY <1>1, ForgetStackBelow DEF ApplyStore
<1>2. CASE slot # <<>> /\ PureDefinition(i.ops[n])
  <2>1. StateBelow(SetSlot(a, slot[1], SourceValue(i, n, a)), SetSlot(b, slot[1], SourceValue(i, n, b)))
    BY SourceBelow, StoreBelow
  <2> QED
    BY <1>2, <2>1 DEF ApplyStore
<1>3. CASE slot # <<>> /\ ~PureDefinition(i.ops[n])
  <2> DEFINE v == Unknown("UNSUPPORTED_INSTRUCTION")
  <2>1. StateBelow(SetSlot(a, slot[1], v), SetSlot(b, slot[1], v))
    BY UnknownIsBelow, StoreBelow
  <2> QED
    BY <1>3, <2>1 DEF ApplyStore
<1> QED
  BY <1>1, <1>2, <1>3

\* ... a load ...
LEMMA ApplyLoadBelow ==
    ASSUME NEW i, NEW n, NEW a, NEW b, StateBelow(a, b)
    PROVE  StateBelow(ApplyLoad(i, n, a), ApplyLoad(i, n, b))
<1> DEFINE dsts == {m \in DOMAIN i.ops : IsReg(i.ops[m]) /\ i.ops[m].written}
           dst  == i.ops[Least(dsts)]
           slot == SlotOf(i, i.ops[n])
<1>1. CASE dsts = {}
  BY <1>1 DEF ApplyLoad
<1>2. CASE dsts # {} /\ PureDefinition(dst) /\ slot # <<>>
  <2>1. Below(GetSlot(a, slot[1]), GetSlot(b, slot[1]))
    BY DEF StateBelow
  <2>2. StateBelow(SetReg(a, dst.reg, GetSlot(a, slot[1])), SetReg(b, dst.reg, GetSlot(b, slot[1])))
    BY <2>1, SetBelow
  <2> QED
    BY <1>2, <2>2 DEF ApplyLoad
<1>3. CASE dsts # {} /\ ~(PureDefinition(dst) /\ slot # <<>>)
  <2>1. PICK regs : regs = {dst.reg}
    OBVIOUS
  <2>2. StateBelow(Forget(a, regs, "UNSUPPORTED_INSTRUCTION"), Forget(b, regs, "UNSUPPORTED_INSTRUCTION"))
    BY ForgetBelow
  <2>3. ApplyLoad(i, n, a) = Forget(a, {dst.reg}, "UNSUPPORTED_INSTRUCTION")
    BY <1>3 DEF ApplyLoad
  <2>4. ApplyLoad(i, n, b) = Forget(b, {dst.reg}, "UNSUPPORTED_INSTRUCTION")
    BY <1>3 DEF ApplyLoad
  <2> QED
    BY <2>1, <2>2, <2>3, <2>4
<1> QED
  BY <1>1, <1>2, <1>3

\* ... and a call: whatever the instruction, a step taken with less knowledge
\* ends with no more.
THEOREM StepEffectBelow ==
    ASSUME NEW i, NEW a, IsState(a), NEW b, IsState(b), StateBelow(a, b)
    PROVE  StateBelow(StepEffect(i, a), StepEffect(i, b))
<1> DEFINE mems == {n \in DOMAIN i.ops : IsMem(i.ops[n])}
           stores == {n \in mems : i.ops[n].written}
<1>1. StateBelow(Transfer(i, a), Transfer(i, b))
  <2>1. CASE i.mnem = "call"
    <3> DEFINE v == Symbolic(<<"ret", i.ea>>)
               forgot(s) == Forget(s, Clobbered, "INDIRECT_CONTROL_FLOW")
    <3>1. StateBelow(forgot(a), forgot(b)) /\ Below(v, v)
      BY ForgetBelow DEF Below
    <3>2. StateBelow(SetReg(forgot(a), RetReg, v), SetReg(forgot(b), RetReg, v))
      BY <3>1, SetBelow
    <3> QED
      BY <2>1, <3>2 DEF Transfer, ApplyCall
  <2>2. CASE i.mnem # "call" /\ LocatorOf(i) \in ForwardLocators
    BY <2>2, LocatorBelow DEF Transfer
  <2>3. CASE i.mnem # "call" /\ LocatorOf(i) \notin ForwardLocators /\ stores # {}
    BY <2>3, ApplyStoreBelow DEF Transfer
  <2>4. CASE i.mnem # "call" /\ LocatorOf(i) \notin ForwardLocators /\ stores = {} /\ mems # {}
    BY <2>4, ApplyLoadBelow DEF Transfer
  <2>5. CASE i.mnem # "call" /\ LocatorOf(i) \notin ForwardLocators /\ stores = {} /\ mems = {}
    BY <2>5, ForgetBelow DEF Transfer
  <2> QED
    BY <2>1, <2>2, <2>3, <2>4, <2>5
<1> QED
  BY <1>1, ForgetBelow DEF StepEffect

-----------------------------------------------------------------------------
(* The analysis *)

\* What TypeOK needs besides itself to be inductive: the question does not
\* change, the worklist is a queue of blocks, and a walk only starts with a
\* register to follow and an entry block to start from.
WellTyped ==
    /\ prog \in Programs
    /\ query \in Queries
    /\ worklist \in Seq(prog.blocks)
    /\ phase \in {"loop", "simulate", "finish"}
         => query.reg \in Reg /\ prog.entry \in prog.blocks
    /\ phase = "start" => worklist = <<>> /\ DOMAIN outStates = {}
    /\ phase = "finish" => at = query.block

TypeInv == TypeOK /\ WellTyped

-----------------------------------------------------------------------------
(* The flow graph and its code *)

\* A block is a sequence of instructions.
LEMMA CodeOfBlock ==
    ASSUME prog \in Programs, NEW b \in prog.blocks
    PROVE  /\ Len(prog.code[b]) \in Nat
           /\ \A n \in 1..Len(prog.code[b]) : IsInstruction(prog.code[b][n])
           /\ prog.succ[b] \in Seq(prog.blocks)
           /\ prog.pred[b] \in Seq(prog.blocks)
<1>1. IsProgram(prog)
  BY ProgramsAssumption
<1> DEFINE S == {prog.code[b][n] : n \in DOMAIN prog.code[b]}
<1>2. prog.code[b] \in Seq(S)
  BY <1>1 DEF IsProgram
<1>3. Len(prog.code[b]) \in Nat /\ DOMAIN prog.code[b] = 1..Len(prog.code[b])
  BY <1>2
<1> QED
  BY <1>1, <1>3 DEF IsProgram

\* Successors and predecessors are two views of the same edges.
LEMMA EdgeHasBothEnds ==
    ASSUME prog \in Programs, NEW p \in prog.blocks, NEW b \in Succs(p)
    PROVE  /\ b \in prog.blocks
           /\ \E n \in DOMAIN prog.pred[b] : prog.pred[b][n] = p
<1>1. IsProgram(prog)
  BY ProgramsAssumption
<1>2. PICK n \in DOMAIN prog.succ[p] : prog.succ[p][n] = b
  BY DEF Succs
<1>3. prog.succ[p] \in Seq(prog.blocks)
  BY CodeOfBlock
<1>4. b \in prog.blocks
  BY <1>2, <1>3
<1> QED
  BY <1>1, <1>2, <1>4 DEF IsProgram

-----------------------------------------------------------------------------
(* The states the worklist loop computes *)

\* The state the function is entered with is one.
LEMMA InitialStateIsState ==
    ASSUME query.reg \in Reg
    PROVE  IsState(InitialState)
<1>1. Symbolic(<<"arg", 0>>) \in Value
  BY SymbolicIsValue DEF Expr
<1> QED
  BY <1>1, EmptyStateIsState, SetRegIsState DEF InitialState

\* The predecessors a join uses have been simulated.
LEMMA AvailableOut ==
    ASSUME TypeInv, NEW b \in prog.blocks
    PROVE  /\ Available(b) \in SUBSET Nat
           /\ \A n \in Available(b) : IsState(outStates[prog.pred[b][n]])
<1>1. prog.pred[b] \in Seq(prog.blocks)
  BY CodeOfBlock DEF TypeInv, WellTyped
<1>2. DOMAIN prog.pred[b] \in SUBSET Nat
  BY <1>1
<1> QED
  BY <1>2 DEF TypeInv, TypeOK, Available

\* The join of abstract states is an abstract state ...
LEMMA JoinStatesIsState ==
    ASSUME TypeInv, NEW b \in prog.blocks
    PROVE  IsState(JoinStates(b, Available(b)))
<1> DEFINE I == Available(b)
           out(n) == outStates[prog.pred[b][n]]
           R == UNION {DOMAIN out(n).registers : n \in I}
           K == UNION {DOMAIN out(n).stack : n \in I}
           reg(r)  == [n \in I |-> GetReg(out(n), r)]
           slot(k) == [n \in I |-> GetSlot(out(n), k)]
<1>1. I \in SUBSET Nat /\ \A n \in I : IsState(out(n))
  BY AvailableOut
<1> HIDE DEF I, out
<1>2. R \in SUBSET Reg /\ K \in SUBSET Slot
  BY <1>1 DEF IsState
<1>3. \A r : JoinOver(I, reg(r)) \in Value
  BY <1>1, ReadIsValue, JoinOverIsValue
<1>4. \A k : JoinOver(I, slot(k)) \in Value
  BY <1>1, ReadIsValue, JoinOverIsValue
<1>5. JoinStates(b, I) = [registers |-> [r \in R |-> JoinOver(I, reg(r))],
                          stack |-> [k \in K |-> JoinOver(I, slot(k))]]
  BY DEF JoinStates, out
<1> HIDE DEF R, K, reg, slot
<1>6. IsState([registers |-> [r \in R |-> JoinOver(I, reg(r))],
               stack |-> [k \in K |-> JoinOver(I, slot(k))]])
  BY <1>2, <1>3, <1>4 DEF IsState
<1> QED
  BY <1>5, <1>6 DEF I

\* ... the widening of one by another is one ...
LEMMA WidenIsState ==
    ASSUME NEW old, IsState(old), NEW new, IsState(new)
    PROVE  IsState(Widen(old, new))
  BY UnknownIsValue DEF IsState, Widen, Read, Reason

\* ... and so is the state a block is entered with.
LEMMA ComputedInIsState ==
    ASSUME TypeInv, phase = "loop", NEW b \in prog.blocks, NEW v
    PROVE  IsState(ComputedIn(b, v))
<1>1. IsState(JoinedIn(b))
  BY InitialStateIsState, JoinStatesIsState DEF JoinedIn, TypeInv, WellTyped
<1>2. b \in DOMAIN inStates => IsState(inStates[b])
  BY DEF TypeInv, TypeOK
<1> QED
  BY <1>1, <1>2, WidenIsState DEF ComputedIn

-----------------------------------------------------------------------------
(* Type correctness *)

\* The analysis begins with nothing scheduled and nothing known.
LEMMA TypeInit == Init => TypeInv
<1> SUFFICES ASSUME Init
             PROVE  TypeInv
  OBVIOUS
<1>1. DOMAIN (<<>>) = {} /\ <<>> \in Seq(prog.blocks)
  OBVIOUS
<1>2. IsState(EmptyState) /\ Pending \in Value
  BY EmptyStateIsState, UnknownIsValue DEF Pending, Reason
<1>3. visits \in [prog.blocks -> 0..(MaxBlockVisits + 1)] /\ used \in 0..MaxInstructions
  BY BoundsAssumption DEF Init
<1>4. TypeOK
  BY <1>1, <1>2, <1>3 DEF Init, TypeOK, Simulating
<1>5. WellTyped
  BY <1>1 DEF Init, WellTyped
<1> QED
  BY <1>4, <1>5 DEF TypeInv

\* What is in the worklist is what was put there ...
LEMMA QueueElements ==
    ASSUME NEW S, NEW q \in Seq(S)
    PROVE  \A n \in DOMAIN q : q[n] \in S
  OBVIOUS

\* ... be it one block ...
LEMMA QueueOfOne ==
    ASSUME NEW S, NEW e \in S
    PROVE  <<e>> \in Seq(S)
  OBVIOUS

\* ... or several behind the ones that wait, which stay.
LEMMA QueueAppended ==
    ASSUME NEW S, NEW q \in Seq(S), NEW more \in Seq(S)
    PROVE  /\ q \o more \in Seq(S)
           /\ \A n \in DOMAIN q : \E m \in DOMAIN (q \o more) : (q \o more)[m] = q[n]
<1>1. q \o more \in Seq(S) /\ DOMAIN (q \o more) = 1..(Len(q) + Len(more))
  OBVIOUS
<1>2. ASSUME NEW n \in DOMAIN q
      PROVE  \E m \in DOMAIN (q \o more) : (q \o more)[m] = q[n]
  <2>1. n \in DOMAIN (q \o more) /\ (q \o more)[n] = q[n]
    OBVIOUS
  <2> QED
    BY <2>1
<1> QED
  BY <1>1, <1>2

\* What remains of a queue after its head is taken.
LEMMA QueueTail ==
    ASSUME NEW S, NEW q \in Seq(S), q # <<>>
    PROVE  \A n \in DOMAIN q : \/ q[n] = Head(q)
                               \/ \E m \in DOMAIN Tail(q) : Tail(q)[m] = q[n]
<1> SUFFICES ASSUME NEW n \in DOMAIN q, n # 1
             PROVE  \E m \in DOMAIN Tail(q) : Tail(q)[m] = q[n]
  OBVIOUS
<1>1. n - 1 \in DOMAIN Tail(q) /\ Tail(q)[n - 1] = q[n]
  OBVIOUS
<1> QED
  BY <1>1

\* The next block of the worklist is one, and so are the others.
LEMMA HeadIsBlock ==
    ASSUME TypeInv, worklist # <<>>
    PROVE  /\ Head(worklist) \in prog.blocks
           /\ Tail(worklist) \in Seq(prog.blocks)
           /\ \A n \in DOMAIN Tail(worklist) : Tail(worklist)[n] \in prog.blocks
<1>1. worklist \in Seq(prog.blocks)
  BY DEF TypeInv, WellTyped
<1>2. Tail(worklist) \in Seq(prog.blocks)
  BY <1>1
<1> QED
  BY <1>1, <1>2

\* A count of visits stays below one more than its cap.
LEMMA NextVisitInRange ==
    ASSUME TypeInv, NEW b \in prog.blocks
    PROVE  [visits EXCEPT ![b] = NextVisit(b)] \in [prog.blocks -> 0..(MaxBlockVisits + 1)]
  BY BoundsAssumption DEF TypeInv, TypeOK, NextVisit

\* A map to abstract states stays one with another entry.
LEMMA PutIsTyped ==
    ASSUME NEW f, NEW S, DOMAIN f \subseteq S, \A x \in DOMAIN f : IsState(f[x]),
           NEW b \in S, NEW s, IsState(s)
    PROVE  /\ DOMAIN Put(f, {b}, s) \subseteq S
           /\ \A x \in DOMAIN Put(f, {b}, s) : IsState(Put(f, {b}, s)[x])
  BY DEF Put

\* What a step applies is an instruction of the block it is in.
LEMMA StepIsInstruction ==
    ASSUME TypeInv, Step
    PROVE  at \in prog.blocks /\ pc \in 1..Len(prog.code[at]) /\ IsInstruction(prog.code[at][pc])
<1> USE DEF TypeInv
<1>1. Simulating /\ at \in prog.blocks /\ pc \in 1..(Len(prog.code[at]) + 1)
  BY DEF Step, TypeOK
<1>2. Len(prog.code[at]) \in Nat
  BY <1>1, CodeOfBlock DEF WellTyped
<1>3. pc <= Len(prog.code[at])
  <2>1. CASE phase = "simulate"
    BY <2>1 DEF Step, Limit
  <2>2. CASE phase = "finish"
    <3>1. pc <= query.index - 1 /\ at = query.block
      BY <2>2 DEF Step, Limit, WellTyped
    <3>2. query.index \in Nat /\ query.index <= Len(prog.code[at])
      BY <1>1, <3>1, QueriesAssumption DEF WellTyped
    <3> QED
      BY <1>1, <1>2, <3>1, <3>2
  <2> QED
    BY <1>1, <2>1, <2>2 DEF Simulating
<1> QED
  BY <1>1, <1>2, <1>3, CodeOfBlock DEF WellTyped

\* Every step keeps the engine's state well formed.
LEMMA TypeNext == TypeInv /\ [Next]_vars => TypeInv'
<1> SUFFICES ASSUME TypeInv, [Next]_vars
             PROVE  TypeInv'
  OBVIOUS
<1> USE DEF TypeInv
<1>1. CASE Reject
  <2>1. answer' \in Value
    BY <1>1, UnknownIsValue DEF Reject, Reason
  <2> QED
    BY <1>1, <2>1 DEF Reject, TypeOK, WellTyped, Simulating
<1>2. CASE Seed
  <2>1. query.reg \in Reg /\ prog.entry \in prog.blocks
    BY <1>2, QueriesAssumption DEF Seed, WellTyped
  <2>2. worklist' \in Seq(prog.blocks)
    BY <1>2, <2>1, QueueOfOne DEF Seed
  <2>3. \A n \in DOMAIN worklist' : worklist'[n] \in prog.blocks
    BY <2>2, QueueElements
  <2> QED
    BY <1>2, <2>1, <2>2, <2>3 DEF Seed, TypeOK, WellTyped, Simulating
<1>3. CASE PassOn
  <2> DEFINE b == Head(worklist)
  <2>1. b \in prog.blocks /\ worklist' = Tail(worklist)
    BY <1>3, HeadIsBlock DEF PassOn
  <2>2. visits' \in [prog.blocks -> 0..(MaxBlockVisits + 1)]
    BY <1>3, <2>1, NextVisitInRange DEF PassOn
  <2> QED
    BY <1>3, <2>1, <2>2, HeadIsBlock DEF PassOn, TypeOK, WellTyped, Simulating
<1>4. CASE Enter
  <2> DEFINE b == Head(worklist)
             in == ComputedIn(b, NextVisit(b))
  <2>1. b \in prog.blocks /\ worklist' = Tail(worklist)
    BY <1>4, HeadIsBlock DEF Enter
  <2>2. visits' \in [prog.blocks -> 0..(MaxBlockVisits + 1)]
    BY <1>4, <2>1, NextVisitInRange DEF Enter
  <2>3. IsState(in)
    BY <1>4, <2>1, ComputedInIsState DEF Enter
  <2>4. /\ DOMAIN inStates' \subseteq prog.blocks
        /\ \A x \in DOMAIN inStates' : IsState(inStates'[x])
    BY <1>4, <2>1, <2>3, PutIsTyped DEF Enter, TypeOK
  <2>5. Len(prog.code[b]) \in Nat
    BY <2>1, CodeOfBlock DEF WellTyped
  <2>6. pc' \in 1..(Len(prog.code[at']) + 1)
    BY <1>4, <2>5 DEF Enter
  <2> QED
    BY <1>4, <2>1, <2>2, <2>3, <2>4, <2>6, HeadIsBlock DEF Enter, TypeOK, WellTyped, Simulating
<1>5. CASE Step
  <2>1. Simulating /\ at \in prog.blocks /\ pc \in 1..(Len(prog.code[at]) + 1)
    BY <1>5 DEF Step, TypeOK
  <2>2. Len(prog.code[at]) \in Nat
    BY <2>1, CodeOfBlock DEF WellTyped
  <2>4. pc \in 1..Len(prog.code[at]) /\ pc' \in 1..(Len(prog.code[at]) + 1)
    BY <1>5, <2>1, <2>2, StepIsInstruction DEF Step
  <2>5. IsState(st')
    BY <1>5, <2>1, <2>4, CodeOfBlock, StepEffectIsState DEF Step, TypeOK, WellTyped
  <2>6. used' \in 0..MaxInstructions
    BY <1>5, BoundsAssumption DEF Step, TypeOK
  <2> QED
    BY <1>5, <2>1, <2>4, <2>5, <2>6 DEF Step, TypeOK, WellTyped, Simulating
<1>6. CASE Exhaust
  <2>1. at \in prog.blocks /\ IsState(st)
    BY <1>6 DEF Exhaust, TypeOK
  <2>2. /\ DOMAIN outStates' \subseteq prog.blocks
        /\ \A x \in DOMAIN outStates' : IsState(outStates'[x])
    BY <1>6, <2>1, PutIsTyped DEF Exhaust, TypeOK
  <2>3. answer' \in Value
    BY <1>6, UnknownIsValue DEF Exhaust, Reason
  <2> QED
    BY <1>6, <2>2, <2>3 DEF Exhaust, TypeOK, WellTyped, Simulating
<1>7. CASE Leave
  <2>1. at \in prog.blocks /\ IsState(st)
    BY <1>7 DEF Leave, TypeOK, Simulating
  <2>2. /\ DOMAIN outStates' \subseteq prog.blocks
        /\ \A x \in DOMAIN outStates' : IsState(outStates'[x])
    BY <1>7, <2>1, PutIsTyped DEF Leave, TypeOK
  <2>3. worklist' \in Seq(prog.blocks)
    <3>1. worklist \in Seq(prog.blocks) /\ prog.succ[at] \in Seq(prog.blocks)
      BY <2>1, CodeOfBlock DEF WellTyped
    <3> QED
      BY <1>7, <3>1, QueueAppended DEF Leave
  <2>4. \A n \in DOMAIN worklist' : worklist'[n] \in prog.blocks
    BY <2>3, QueueElements
  <2> QED
    BY <1>7, <2>1, <2>2, <2>3, <2>4 DEF Leave, TypeOK, WellTyped, Simulating
<1>8. CASE NotReached
  <2>1. answer' \in Value
    BY <1>8, UnknownIsValue DEF NotReached, Reason
  <2> QED
    BY <1>8, <2>1 DEF NotReached, TypeOK, WellTyped, Simulating
<1>9. CASE Finish
  <2>1. query.block \in prog.blocks /\ IsState(inStates[query.block])
    BY <1>9 DEF Finish, TypeOK
  <2>2. Len(prog.code[query.block]) \in Nat
    BY <2>1, CodeOfBlock DEF WellTyped
  <2>3. pc' \in 1..(Len(prog.code[at']) + 1) /\ used' \in 0..MaxInstructions
    BY <1>9, <2>2, BoundsAssumption DEF Finish
  <2> QED
    BY <1>9, <2>1, <2>3 DEF Finish, TypeOK, WellTyped, Simulating
<1>10. CASE Answer
  <2>1. answer' \in Value
    BY <1>10, ReadIsValue DEF Answer, TypeOK
  <2> QED
    BY <1>10, <2>1 DEF Answer, TypeOK, WellTyped, Simulating
<1>11. CASE UNCHANGED vars
  BY <1>11 DEF vars, TypeOK, WellTyped, Simulating
<1> QED
  BY <1>1, <1>2, <1>3, <1>4, <1>5, <1>6, <1>7, <1>8, <1>9, <1>10, <1>11 DEF Next

\* Every reachable state of resolve_at is well typed, whatever is analysed.
THEOREM TypeCorrect == Spec => []TypeOK
<1>1. TypeInv => TypeOK
  BY DEF TypeInv
<1> QED
  BY <1>1, TypeInit, TypeNext, PTL DEF Spec

-----------------------------------------------------------------------------
(* The budget of the final simulation *)

\* Every block that was simulated to its end fits the instruction budget, since
\* the loop counted all its instructions against the same bound.
BudgetInv ==
    /\ \A b \in DOMAIN inStates :
          \/ Len(prog.code[b]) <= MaxInstructions
          \/ phase = "simulate" /\ at = b
          \/ phase = "done"
    /\ phase = "simulate" => pc - 1 <= used
    /\ phase = "finish" => used = pc - 1 /\ Len(prog.code[at]) <= MaxInstructions

\* No simulation uses more than its budget.
LEMMA BudgetNext == TypeInv /\ BudgetInv /\ [Next]_vars => BudgetInv'
<1> SUFFICES ASSUME TypeInv, BudgetInv, [Next]_vars
             PROVE  BudgetInv'
  OBVIOUS
<1>1. CASE Reject
  BY <1>1 DEF Reject, BudgetInv
<1>2. CASE Seed
  BY <1>2 DEF Seed, BudgetInv
<1>3. CASE PassOn
  BY <1>3 DEF PassOn, BudgetInv
<1>4. CASE Enter
  <2>1. phase' = "simulate" /\ pc' - 1 = 0 /\ used' = used /\ prog' = prog
    BY <1>4 DEF Enter
  <2>2. \A b \in DOMAIN inStates' : b \in DOMAIN inStates \/ b = at'
    BY <1>4 DEF Enter, Put
  <2>3. \A b \in DOMAIN inStates : Len(prog.code[b]) <= MaxInstructions
    BY <1>4 DEF Enter, BudgetInv
  <2>4. 0 <= used
    BY DEF TypeInv, TypeOK
  <2> QED
    BY <2>1, <2>2, <2>3, <2>4 DEF BudgetInv
<1>5. CASE Step
  <2>1. pc \in Int /\ used \in Int
    BY <1>5 DEF Step, TypeInv, TypeOK
  <2> QED
    BY <1>5, <2>1 DEF Step, BudgetInv
<1>6. CASE Exhaust
  BY <1>6 DEF Exhaust, BudgetInv
<1>7. CASE Leave
  <2>1. at \in prog.blocks /\ pc \in Int /\ used <= MaxInstructions /\ used \in Int
    BY <1>7, BoundsAssumption DEF Leave, TypeInv, TypeOK, Simulating
  <2>2. Len(prog.code[at]) \in Nat
    BY <2>1, CodeOfBlock DEF TypeInv, WellTyped
  <2>3. Len(prog.code[at]) <= MaxInstructions
    BY <1>7, <2>1, <2>2, BoundsAssumption DEF Leave, Limit, BudgetInv
  <2> QED
    BY <1>7, <2>3 DEF Leave, BudgetInv
<1>8. CASE NotReached
  BY <1>8 DEF NotReached, BudgetInv
<1>9. CASE Finish
  BY <1>9 DEF Finish, BudgetInv
<1>10. CASE Answer
  BY <1>10 DEF Answer, BudgetInv
<1>11. CASE UNCHANGED vars
  BY <1>11 DEF vars, BudgetInv
<1> QED
  BY <1>1, <1>2, <1>3, <1>4, <1>5, <1>6, <1>7, <1>8, <1>9, <1>10, <1>11 DEF Next

\* A final walk that begins within the budget ends within it.
LEMMA BudgetFits == TypeInv /\ BudgetInv => FinalWalkFits
<1> SUFFICES ASSUME TypeInv, BudgetInv, phase = "finish"
             PROVE  used + (Limit + 1 - pc) <= MaxInstructions
  BY DEF FinalWalkFits
<1>1. at \in prog.blocks /\ at = query.block /\ pc \in Int
  BY DEF TypeInv, TypeOK, WellTyped, Simulating
<1>2. Len(prog.code[at]) \in Nat
  BY <1>1, CodeOfBlock DEF TypeInv, WellTyped
<1>3. query.index \in Nat /\ query.index <= Len(prog.code[at])
  BY <1>1, QueriesAssumption DEF TypeInv, WellTyped
<1>4. Limit = query.index - 1
  BY DEF Limit
<1>5. used = pc - 1 /\ Len(prog.code[at]) <= MaxInstructions
  BY DEF BudgetInv
<1> QED
  BY <1>1, <1>2, <1>3, <1>4, <1>5, BoundsAssumption

\* The budget check after the final simulation (engine_forward.py:151-155) is
\* dead code: that walk is a prefix of one the loop already paid for.
THEOREM FinalWalkNeverExhausts == Spec => []FinalWalkFits
<1>1. Init => BudgetInv
  <2>1. DOMAIN (<<>>) = {}
    OBVIOUS
  <2> QED
    BY <2>1 DEF Init, BudgetInv
<1>2. TypeInv /\ BudgetInv /\ [Next]_vars => (TypeInv /\ BudgetInv)'
  BY TypeNext, BudgetNext
<1> QED
  BY <1>1, <1>2, TypeInit, BudgetFits, PTL DEF Spec

-----------------------------------------------------------------------------
(* No work is lost *)

\* What a block is entered with is covered by every edge that flows in: join
\* and widen only keep a value all of them agree on.
LEMMA JoinStatesCovered ==
    ASSUME TypeInv, NEW b \in prog.blocks, NEW n \in Available(b)
    PROVE  Covers(JoinStates(b, Available(b)), outStates[prog.pred[b][n]])
<1> DEFINE I == Available(b)
           out(m) == outStates[prog.pred[b][m]]
           reg(r)  == [m \in I |-> GetReg(out(m), r)]
           slot(k) == [m \in I |-> GetSlot(out(m), k)]
           in == JoinStates(b, I)
<1>1. I \in SUBSET Nat /\ \A m \in I : IsState(out(m))
  BY AvailableOut
<1>2. ASSUME NEW r \in DOMAIN in.registers, IsKnown(in.registers[r])
      PROVE  GetReg(out(n), r) = in.registers[r]
  <2>1. in.registers[r] = JoinOver(I, reg(r))
    BY <1>2 DEF JoinStates
  <2>2. \A m \in I : reg(r)[m] \in Value
    BY <1>1, ReadIsValue
  <2>3. reg(r)[n] = JoinOver(I, reg(r))
    BY <1>1, <1>2, <2>1, <2>2, JoinNeverGuesses
  <2> QED
    BY <2>1, <2>3
<1>3. ASSUME NEW k \in DOMAIN in.stack, IsKnown(in.stack[k])
      PROVE  GetSlot(out(n), k) = in.stack[k]
  <2>1. in.stack[k] = JoinOver(I, slot(k))
    BY <1>3 DEF JoinStates
  <2>2. \A m \in I : slot(k)[m] \in Value
    BY <1>1, ReadIsValue
  <2>3. slot(k)[n] = JoinOver(I, slot(k))
    BY <1>1, <1>3, <2>1, <2>2, JoinNeverGuesses
  <2> QED
    BY <2>1, <2>3
<1> QED
  BY <1>2, <1>3 DEF Covers

\* A widened state claims no more than the state it was made from.
LEMMA WidenCovered ==
    ASSUME NEW old, NEW new, NEW out, Covers(new, out)
    PROVE  Covers(Widen(old, new), out)
<1> DEFINE w == Widen(old, new)
<1>1. ~IsKnown(Unknown("LOOP_NON_CONVERGENT")) /\ ~IsKnown(Unknown("NO_DEFINITION_FOUND"))
  BY UnknownIsValue DEF Reason
<1>2. ASSUME NEW r \in DOMAIN w.registers, IsKnown(w.registers[r])
      PROVE  GetReg(out, r) = w.registers[r]
  <2>1. w.registers[r] = Read(new.registers, r)
    BY <1>1, <1>2 DEF Widen
  <2>2. r \in DOMAIN new.registers /\ w.registers[r] = new.registers[r]
    BY <1>1, <1>2, <2>1 DEF Read
  <2> QED
    BY <1>2, <2>2 DEF Covers
<1>3. ASSUME NEW k \in DOMAIN w.stack, IsKnown(w.stack[k])
      PROVE  GetSlot(out, k) = w.stack[k]
  <2>1. w.stack[k] = Read(new.stack, k)
    BY <1>1, <1>3 DEF Widen
  <2>2. k \in DOMAIN new.stack /\ w.stack[k] = new.stack[k]
    BY <1>1, <1>3, <2>1 DEF Read
  <2> QED
    BY <1>3, <2>2 DEF Covers
<1> QED
  BY <1>2, <1>3 DEF Covers

\* The state a block is entered with claims no more than any predecessor left.
LEMMA ComputedInCovered ==
    ASSUME TypeInv, NEW b \in prog.blocks \ {prog.entry}, NEW v, NEW n \in Available(b)
    PROVE  Covers(ComputedIn(b, v), outStates[prog.pred[b][n]])
<1>1. Covers(JoinedIn(b), outStates[prog.pred[b][n]])
  BY JoinStatesCovered DEF JoinedIn
<1> QED
  BY <1>1, WidenCovered DEF ComputedIn

\* A predecessor that has been simulated flows into every block it leads to.
LEMMA EdgeIsAvailable ==
    ASSUME TypeInv, NEW p \in DOMAIN outStates, NEW b \in Succs(p)
    PROVE  /\ p \in prog.blocks /\ b \in prog.blocks
           /\ \E n \in Available(b) : prog.pred[b][n] = p
<1>1. p \in prog.blocks
  BY DEF TypeInv, TypeOK
<1>2. b \in prog.blocks /\ \E n \in DOMAIN prog.pred[b] : prog.pred[b][n] = p
  BY <1>1, EdgeHasBothEnds DEF TypeInv, WellTyped
<1> QED
  BY <1>1, <1>2 DEF Available

\* After a visit of b that simulates it or finds nothing new, the edges into b
\* from simulated blocks are settled.
LEMMA VisitSettles ==
    ASSUME TypeInv, NEW p \in DOMAIN outStates, NEW b \in Succs(p), b # prog.entry, NEW v
    PROVE  Covers(ComputedIn(b, v), outStates[p])
<1>1. b \in prog.blocks
  BY EdgeIsAvailable
<1>2. PICK n \in Available(b) : prog.pred[b][n] = p
  BY EdgeIsAvailable
<1> QED
  BY <1>1, <1>2, ComputedInCovered

\* The disjuncts of UnsettledIsScheduled, for one edge.
Scheduled(b) == \E n \in DOMAIN worklist : worklist[n] = b
EdgeIsFine(p, b) ==
    \/ EdgeSettled(p, b)
    \/ Scheduled(b)
    \/ phase = "simulate" /\ at = p
    \/ visits[b] > MaxBlockVisits
    \/ b = prog.entry

\* Passing over a block that would not change leaves no edge unscheduled ...
LEMMA PassOnSchedules ==
    ASSUME TypeInv, UnsettledIsScheduled, PassOn,
           NEW p \in DOMAIN outStates, NEW b \in Succs(p)
    PROVE  EdgeIsFine(p, b)'
<1> DEFINE head == Head(worklist)
<1>1. b \in prog.blocks /\ head \in prog.blocks /\ worklist \in Seq(prog.blocks)
  BY EdgeIsAvailable, HeadIsBlock DEF PassOn, TypeInv, WellTyped
<1>2. UNCHANGED <<prog, phase, inStates, outStates, at>> /\ worklist' = Tail(worklist)
      /\ phase = "loop" /\ worklist # <<>>
  BY DEF PassOn
<1>3. CASE b = prog.entry
  BY <1>2, <1>3 DEF EdgeIsFine
<1>4. CASE b = head /\ b # prog.entry
  <2> DEFINE v == NextVisit(b)
  <2>1. Verdict(b, v) # "simulate" /\ visits'[b] = v
    BY <1>1, <1>4 DEF PassOn, TypeInv, TypeOK
  <2>2. Available(b) # {}
    BY EdgeIsAvailable
  <2>3. v > MaxBlockVisits \/ (b \in DOMAIN inStates /\ inStates[b] = ComputedIn(b, v))
    <3>1. ~(v <= MaxBlockVisits /\ b # prog.entry /\ Available(b) = {})
      BY <2>2
    <3>2. v > MaxBlockVisits \/ Verdict(b, v) \in {"unchanged", "simulate"}
      BY <3>1 DEF Verdict
    <3> QED
      BY <2>1, <3>1, <3>2 DEF Verdict
  <2>4. CASE v > MaxBlockVisits
    BY <1>2, <2>1, <2>4 DEF EdgeIsFine
  <2>5. CASE b \in DOMAIN inStates /\ inStates[b] = ComputedIn(b, v)
    <3>1. EdgeSettled(p, b)
      BY <1>4, <2>5, VisitSettles DEF EdgeSettled
    <3> QED
      BY <1>2, <3>1 DEF EdgeIsFine, EdgeSettled, Covers
  <2> QED
    BY <2>3, <2>4, <2>5
<1>5. CASE b # head /\ b # prog.entry
  <2>1. EdgeSettled(p, b) \/ Scheduled(b) \/ visits[b] > MaxBlockVisits
    BY <1>2, <1>5 DEF UnsettledIsScheduled, Scheduled
  <2>2. Scheduled(b) => Scheduled(b)'
    BY <1>1, <1>2, <1>5, QueueTail DEF Scheduled
  <2>3. visits'[b] = visits[b]
    BY <1>1, <1>5 DEF PassOn, TypeInv, TypeOK
  <2>4. EdgeSettled(p, b) => EdgeSettled(p, b)'
    BY <1>2 DEF EdgeSettled, Covers
  <2> QED
    BY <2>1, <2>2, <2>3, <2>4 DEF EdgeIsFine
<1> QED
  BY <1>3, <1>4, <1>5

\* ... nor does entering one, whose edges are settled when it is left ...
LEMMA EnterSchedules ==
    ASSUME TypeInv, UnsettledIsScheduled, Enter,
           NEW p \in DOMAIN outStates, NEW b \in Succs(p)
    PROVE  EdgeIsFine(p, b)'
<1> DEFINE head == Head(worklist)
           v == NextVisit(head)
<1>1. b \in prog.blocks /\ head \in prog.blocks /\ worklist \in Seq(prog.blocks)
  BY EdgeIsAvailable, HeadIsBlock DEF Enter, TypeInv, WellTyped
<1>2. /\ UNCHANGED <<prog, outStates>> /\ worklist' = Tail(worklist)
      /\ phase = "loop" /\ worklist # <<>>
      /\ inStates' = Put(inStates, {head}, ComputedIn(head, v))
  BY DEF Enter
<1>3. CASE b = prog.entry
  BY <1>2, <1>3 DEF EdgeIsFine
<1>4. CASE b = head /\ b # prog.entry
  <2>1. b \in DOMAIN inStates' /\ inStates'[b] = ComputedIn(b, v)
    BY <1>2, <1>4 DEF Put
  <2>2. Covers(inStates'[b], outStates[p])
    BY <1>4, <2>1, VisitSettles
  <2>3. EdgeSettled(p, b)'
    BY <1>2, <2>1, <2>2 DEF EdgeSettled, Covers
  <2> QED
    BY <2>3 DEF EdgeIsFine
<1>5. CASE b # head /\ b # prog.entry
  <2>1. EdgeSettled(p, b) \/ Scheduled(b) \/ visits[b] > MaxBlockVisits
    BY <1>2, <1>5 DEF UnsettledIsScheduled, Scheduled
  <2>2. Scheduled(b) => Scheduled(b)'
    BY <1>1, <1>2, <1>5, QueueTail DEF Scheduled
  <2>3. visits'[b] = visits[b]
    BY <1>1, <1>5 DEF Enter, TypeInv, TypeOK
  <2>4. b \in DOMAIN inStates => b \in DOMAIN inStates' /\ inStates'[b] = inStates[b]
    BY <1>2, <1>5 DEF Put
  <2>5. EdgeSettled(p, b) => EdgeSettled(p, b)'
    BY <1>2, <2>4 DEF EdgeSettled, Covers
  <2> QED
    BY <2>1, <2>2, <2>3, <2>5 DEF EdgeIsFine
<1> QED
  BY <1>3, <1>4, <1>5

\* ... when all its successors are scheduled.
LEMMA LeaveSchedules ==
    ASSUME TypeInv, UnsettledIsScheduled, Leave,
           NEW p \in DOMAIN outStates', NEW b \in Succs(p)
    PROVE  EdgeIsFine(p, b)'
<1>1. /\ UNCHANGED <<prog, inStates, visits>> /\ phase = "simulate"
      /\ worklist' = worklist \o prog.succ[at]
      /\ outStates' = Put(outStates, {at}, st)
  BY DEF Leave
<1>2. at \in prog.blocks
  BY <1>1 DEF TypeInv, TypeOK, Simulating
<1>3. worklist \in Seq(prog.blocks) /\ prog.succ[at] \in Seq(prog.blocks)
  BY <1>2, CodeOfBlock DEF TypeInv, WellTyped
<1>4. CASE p = at
  <2>1. PICK n \in DOMAIN prog.succ[at] : prog.succ[at][n] = b
    BY <1>4 DEF Succs
  <2> DEFINE m == Len(worklist) + n
  <2>2. m \in DOMAIN worklist' /\ worklist'[m] = b
    BY <1>1, <1>3, <2>1
  <2>3. Scheduled(b)'
    BY <2>2 DEF Scheduled
  <2> QED
    BY <2>3 DEF EdgeIsFine, Scheduled
<1>5. CASE p # at
  <2>1. p \in DOMAIN outStates /\ outStates'[p] = outStates[p]
    BY <1>1, <1>5 DEF Put
  <2>2. EdgeSettled(p, b) \/ Scheduled(b) \/ visits[b] > MaxBlockVisits \/ b = prog.entry
    BY <1>1, <1>5, <2>1 DEF UnsettledIsScheduled, Scheduled
  <2>3. Scheduled(b) => Scheduled(b)'
    BY <1>1, <1>3, QueueAppended DEF Scheduled
  <2>4. EdgeSettled(p, b) => EdgeSettled(p, b)'
    BY <1>1, <2>1 DEF EdgeSettled, Covers
  <2> QED
    BY <1>1, <2>2, <2>3, <2>4 DEF EdgeIsFine
<1> QED
  BY <1>4, <1>5

\* Before the first step there is nothing to settle ...
LEMMA UnsettledInit == Init => UnsettledIsScheduled
<1>1. DOMAIN (<<>>) = {}
  OBVIOUS
<1> QED
  BY <1>1 DEF Init, UnsettledIsScheduled

\* ... and no step forgets an edge.
LEMMA UnsettledNext == TypeInv /\ UnsettledIsScheduled /\ [Next]_vars => UnsettledIsScheduled'
<1> SUFFICES ASSUME TypeInv, UnsettledIsScheduled, [Next]_vars
             PROVE  UnsettledIsScheduled'
  OBVIOUS
<1>1. CASE Reject
  BY <1>1 DEF Reject, UnsettledIsScheduled
<1>2. CASE Seed
  BY <1>2 DEF Seed, UnsettledIsScheduled, TypeInv, WellTyped
<1>3. CASE PassOn
  <2>1. UNCHANGED <<prog, outStates>>
    BY <1>3 DEF PassOn
  <2> QED
    BY <1>3, <2>1, PassOnSchedules DEF UnsettledIsScheduled, EdgeIsFine, Scheduled, Succs
<1>4. CASE Enter
  <2>1. UNCHANGED <<prog, outStates>>
    BY <1>4 DEF Enter
  <2> QED
    BY <1>4, <2>1, EnterSchedules DEF UnsettledIsScheduled, EdgeIsFine, Scheduled, Succs
<1>5. CASE Step
  BY <1>5 DEF Step, UnsettledIsScheduled, EdgeSettled, Covers, Succs, Simulating
<1>6. CASE Exhaust
  BY <1>6 DEF Exhaust, UnsettledIsScheduled
<1>7. CASE Leave
  <2>1. UNCHANGED prog
    BY <1>7 DEF Leave
  <2> QED
    BY <1>7, <2>1, LeaveSchedules DEF UnsettledIsScheduled, EdgeIsFine, Scheduled, Succs
<1>8. CASE NotReached
  BY <1>8 DEF NotReached, UnsettledIsScheduled
<1>9. CASE Finish
  BY <1>9 DEF Finish, UnsettledIsScheduled, EdgeSettled, Covers, Succs
<1>10. CASE Answer
  BY <1>10 DEF Answer, UnsettledIsScheduled
<1>11. CASE UNCHANGED vars
  BY <1>11 DEF vars, UnsettledIsScheduled, EdgeSettled, Covers, Succs
<1> QED
  BY <1>1, <1>2, <1>3, <1>4, <1>5, <1>6, <1>7, <1>8, <1>9, <1>10, <1>11 DEF Next

\* The worklist loop forgets no edge: one whose target was entered with more
\* than its source guarantees is always scheduled again, until max_block_visits.
THEOREM NoEdgeForgotten == Spec => []UnsettledIsScheduled
<1>1. Init => UnsettledIsScheduled
  BY UnsettledInit
<1>2. TypeInv /\ UnsettledIsScheduled /\ [Next]_vars => (TypeInv /\ UnsettledIsScheduled)'
  BY TypeNext, UnsettledNext
<1> QED
  BY <1>1, <1>2, TypeInit, PTL DEF Spec

-----------------------------------------------------------------------------
(* What the answer is read from *)

\* The final walk begins when nothing is scheduled.
WalkInv == phase = "finish" => worklist = <<>>

\* The loop ends on an empty worklist only, and nothing is scheduled after it.
LEMMA WalkNext == WalkInv /\ [Next]_vars => WalkInv'
<1> SUFFICES ASSUME WalkInv, [Next]_vars
             PROVE  WalkInv'
  OBVIOUS
<1>1. CASE Finish
  BY <1>1 DEF Finish, WalkInv
<1>2. CASE Step
  BY <1>2 DEF Step, WalkInv
<1>3. CASE UNCHANGED vars
  BY <1>3 DEF vars, WalkInv
<1>4. CASE Reject \/ Seed \/ PassOn \/ Enter \/ Exhaust \/ Leave \/ NotReached \/ Answer
  <2>1. phase' # "finish"
    BY <1>4 DEF Reject, Seed, PassOn, Enter, Exhaust, Leave, NotReached, Answer
  <2> QED
    BY <2>1 DEF WalkInv
<1> QED
  BY <1>1, <1>2, <1>3, <1>4 DEF Next

\* Unless max_block_visits stopped a block, a known answer is read from a
\* fixpoint, whatever the function and however small the instruction budget
\* (engine_forward.py:137-156).
THEOREM UncappedAnswersFromFixpoint ==
    Spec => []((\A b \in prog.blocks : visits[b] <= MaxBlockVisits) => AnswersFromFixpoint)
<1> DEFINE Uncapped == \A b \in prog.blocks : visits[b] <= MaxBlockVisits
           Inv == TypeInv /\ UnsettledIsScheduled /\ WalkInv
<1>1. Init => Inv
  <2>1. Init => UnsettledIsScheduled
    BY UnsettledInit
  <2>2. Init => WalkInv
    BY DEF Init, WalkInv
  <2> QED
    BY <2>1, <2>2, TypeInit
<1>2. Inv /\ [Next]_vars => Inv'
  BY TypeNext, UnsettledNext, WalkNext
<1>3. Inv => (Uncapped => AnswersFromFixpoint)
  <2> SUFFICES ASSUME Inv, Uncapped, phase = "finish",
                      NEW p \in DOMAIN outStates, NEW b \in Succs(p) \ {prog.entry}
               PROVE  EdgeSettled(p, b)
    BY DEF AnswersFromFixpoint
  <2>1. b \in prog.blocks
    BY EdgeIsAvailable
  <2>2. visits[b] \in Int /\ MaxBlockVisits \in Int /\ visits[b] <= MaxBlockVisits
    BY <2>1, BoundsAssumption DEF TypeInv, TypeOK
  <2>3. worklist = <<>>
    BY DEF WalkInv
  <2>4. DOMAIN worklist = {}
    BY <2>3
  <2> QED
    BY <2>2, <2>4 DEF UnsettledIsScheduled
<1> QED
  BY <1>1, <1>2, <1>3, PTL DEF Spec

-----------------------------------------------------------------------------
(* An untouched argument survives *)

\* No instruction of the function writes the register that is asked for.
Untouched ==
    \A b \in prog.blocks : \A n \in DOMAIN prog.code[b] : ~WritesQueried(prog.code[b][n])

\* A state in which that register holds the argument.
Holding(s) == GetReg(s, query.reg) = Symbolic(<<"arg", 0>>)

\* So does every state of the analysis, and so is what it answers.
KeptInv ==
    Untouched =>
      /\ \A b \in DOMAIN inStates : Holding(inStates[b])
      /\ \A b \in DOMAIN outStates : Holding(outStates[b])
      /\ Simulating => Holding(st)
      /\ phase = "start" => DOMAIN inStates = {}
      /\ phase = "done" /\ query.block \in DOMAIN inStates =>
            \/ answer = Symbolic(<<"arg", 0>>)
            \/ answer = Unknown("BUDGET_EXCEEDED")

\* The state a block is entered with.
LEMMA EnteredHolding ==
    ASSUME TypeInv, KeptInv, Untouched, phase = "loop", NEW b \in prog.blocks,
           b = prog.entry \/ Available(b) # {}, NEW v
    PROVE  Holding(ComputedIn(b, v))
<1> DEFINE arg == Symbolic(<<"arg", 0>>)
<1>1. arg \in Value /\ IsKnown(arg)
  BY SymbolicIsValue DEF Expr, Symbolic, IsKnown
<1>2. Holding(JoinedIn(b))
  <2>1. CASE b = prog.entry
    BY <2>1, ReadAfterSet DEF JoinedIn, InitialState, Holding
  <2>2. CASE b # prog.entry
    <3> DEFINE I == Available(b)
               out(n) == outStates[prog.pred[b][n]]
               reg(r) == [n \in I |-> GetReg(out(n), r)]
    <3>1. I \in SUBSET Nat /\ I # {}
      BY <2>2, AvailableOut
    <3>2. \A n \in I : GetReg(out(n), query.reg) = arg
      BY DEF KeptInv, Holding, Available
    <3>3. \A n \in I : query.reg \in DOMAIN out(n).registers
      BY <1>1, <3>2 DEF GetReg, Read, Unknown, Because, IsKnown
    <3>4. JoinOver(I, reg(query.reg)) = arg
      BY <1>1, <3>1, <3>2, JoinOfEqual
    <3>5. query.reg \in UNION {DOMAIN out(n).registers : n \in I}
      BY <3>1, <3>3
    <3>6. GetReg(JoinStates(b, I), query.reg) = arg
      BY <3>4, <3>5 DEF JoinStates, GetReg, Read
    <3> QED
      BY <2>2, <3>6 DEF JoinedIn, Holding
  <2> QED
    BY <2>1, <2>2
<1>3. CASE ComputedIn(b, v) = JoinedIn(b)
  BY <1>2, <1>3
<1>4. CASE b \in DOMAIN inStates /\ ComputedIn(b, v) = Widen(inStates[b], JoinedIn(b))
  <2>1. Holding(inStates[b])
    BY <1>4 DEF KeptInv
  <2>2. PICK old, new : old = inStates[b] /\ new = JoinedIn(b)
    OBVIOUS
  <2>3. Read(old.registers, query.reg) = arg /\ Read(new.registers, query.reg) = arg
    BY <1>2, <2>1, <2>2 DEF Holding, GetReg
  <2>4. query.reg \in DOMAIN old.registers
    BY <1>1, <2>3 DEF Read, Unknown, Because, IsKnown
  <2>5. Read(Widen(old, new).registers, query.reg) = arg
    BY <2>3, <2>4 DEF Widen, Read
  <2> QED
    BY <1>4, <2>2, <2>5 DEF Holding, GetReg
<1> QED
  BY <1>3, <1>4 DEF ComputedIn

\* Every step keeps the argument where it is.
LEMMA KeptNext ==
    ASSUME TypeInv, KeptInv, [Next]_vars
    PROVE  KeptInv'
<1>0. CASE UNCHANGED vars
  BY <1>0 DEF vars, KeptInv, Untouched, WritesQueried, Holding, Simulating
<1>1. CASE Next
  <2>1. UNCHANGED <<prog, query>>
    BY <1>1 DEF Next, Reject, Seed, PassOn, Enter, Step, Exhaust, Leave, NotReached, Finish, Answer
  <2>2. Untouched' = Untouched
    BY <2>1 DEF Untouched, WritesQueried
  <2> SUFFICES ASSUME Untouched
               PROVE  KeptInv'
    BY <2>2 DEF KeptInv
  <2>3. CASE Reject \/ Seed
    BY <2>1, <2>3 DEF Reject, Seed, KeptInv, Holding, Simulating
  <2>4. CASE PassOn
    BY <2>1, <2>4 DEF PassOn, KeptInv, Holding, Simulating
  <2>5. CASE Enter
    <3> DEFINE b == Head(worklist)
               in == ComputedIn(b, NextVisit(b))
    <3>1. /\ Verdict(b, NextVisit(b)) = "simulate" /\ phase = "loop" /\ worklist # <<>>
          /\ inStates' = Put(inStates, {b}, in) /\ st' = in
          /\ phase' = "simulate" /\ UNCHANGED outStates
      BY <2>5 DEF Enter
    <3>2. b \in prog.blocks
      BY <3>1, HeadIsBlock
    <3>3. b = prog.entry \/ Available(b) # {}
      <4>1. NextVisit(b) \in Int /\ MaxBlockVisits \in Int
        BY <3>2, BoundsAssumption DEF TypeInv, TypeOK, NextVisit
      <4> QED
        BY <3>1, <4>1 DEF Verdict
    <3>4. Holding(in)
      BY <3>1, <3>2, <3>3, EnteredHolding
    <3>5. \A x \in DOMAIN inStates' : Holding(inStates'[x])
      BY <3>1, <3>4 DEF Put, KeptInv
    <3> QED
      BY <2>1, <3>1, <3>4, <3>5 DEF KeptInv, Holding, Simulating
  <2>6. CASE Step
    <3> DEFINE i == prog.code[at][pc]
    <3>1. at \in prog.blocks /\ pc \in DOMAIN prog.code[at] /\ IsInstruction(i)
      BY <2>6, StepIsInstruction
    <3>2. ~WritesQueried(i) /\ MarksWrites(i)
      BY <3>1, FeaturesAssumption DEF Untouched, TypeInv, WellTyped
    <3>3. GetReg(StepEffect(i, st), query.reg) = GetReg(st, query.reg)
      BY <3>1, <3>2, StepEffectLeavesOthers DEF WritesQueried
    <3>4. Holding(st)'
      BY <2>1, <2>6, <3>3 DEF Step, KeptInv, Holding
    <3> QED
      BY <2>1, <2>6, <3>4 DEF Step, KeptInv, Holding, Simulating
  <2>7. CASE Exhaust
    BY <2>1, <2>7 DEF Exhaust, KeptInv, Holding, Simulating, Put
  <2>8. CASE Leave
    BY <2>1, <2>8 DEF Leave, KeptInv, Holding, Simulating, Put
  <2>9. CASE NotReached
    BY <2>1, <2>9 DEF NotReached, KeptInv, Holding, Simulating
  <2>10. CASE Finish
    BY <2>1, <2>10 DEF Finish, KeptInv, Holding, Simulating
  <2>11. CASE Answer
    BY <2>1, <2>11 DEF Answer, KeptInv, Holding, Simulating
  <2> QED
    BY <1>1, <2>3, <2>4, <2>5, <2>6, <2>7, <2>8, <2>9, <2>10, <2>11 DEF Next
<1> QED
  BY <1>0, <1>1

\* Joining and widening cost no precision where nothing happens: if no
\* instruction of the function writes the register asked for, the answer at any
\* block the loop reaches is the argument, or that the budget ran out.
THEOREM UntouchedArgumentSurvives == Spec => []UntouchedArgumentKept
<1>1. Init => KeptInv
  <2>1. DOMAIN (<<>>) = {}
    OBVIOUS
  <2> QED
    BY <2>1 DEF Init, KeptInv, Simulating
<1>2. TypeInv /\ KeptInv /\ [Next]_vars => (TypeInv /\ KeptInv)'
  BY TypeNext, KeptNext
<1>3. KeptInv => UntouchedArgumentKept
  BY DEF KeptInv, UntouchedArgumentKept, Untouched
<1> QED
  BY <1>1, <1>2, <1>3, TypeInit, PTL DEF Spec

-----------------------------------------------------------------------------
(* What a block is entered with only loses information *)

\* Covers is the order that transfer respects.
LEMMA CoversIsBelow ==
    ASSUME NEW a, NEW b
    PROVE  Covers(a, b) <=> StateBelow(a, b)
  BY DEF Covers, StateBelow, Below, GetReg, GetSlot, Read, Unknown, Because, IsKnown

\* The join says no more than any state it is a join of ...
LEMMA JoinIsLower ==
    ASSUME TypeInv, NEW b \in prog.blocks, NEW n \in Available(b)
    PROVE  StateBelow(JoinStates(b, Available(b)), outStates[prog.pred[b][n]])
  BY JoinStatesCovered, CoversIsBelow

\* ... in the next state as well ...
LEMMA JoinsStayLower ==
    (TypeInv => \A b \in prog.blocks : \A n \in Available(b) :
                   StateBelow(JoinStates(b, Available(b)), outStates[prog.pred[b][n]]))'
<1>1. TypeInv => \A b \in prog.blocks : \A n \in Available(b) :
                    StateBelow(JoinStates(b, Available(b)), outStates[prog.pred[b][n]])
  BY JoinIsLower
<1> QED
  BY <1>1, PTL

\* ... and everything that each of them says.
LEMMA JoinIsGreatest ==
    ASSUME TypeInv, NEW b \in prog.blocks, Available(b) # {}, NEW s,
           \A n \in Available(b) : StateBelow(s, outStates[prog.pred[b][n]])
    PROVE  StateBelow(s, JoinStates(b, Available(b)))
<1> DEFINE out(n) == outStates[prog.pred[b][n]]
<1>1. PICK I : I = Available(b)
  OBVIOUS
<1>2. I \in SUBSET Nat /\ I # {} /\ \A n \in I : IsState(out(n)) /\ StateBelow(s, out(n))
  BY <1>1, AvailableOut
<1> DEFINE reg(r)  == [n \in I |-> GetReg(out(n), r)]
           slot(k) == [n \in I |-> GetSlot(out(n), k)]
           R == UNION {DOMAIN out(n).registers : n \in I}
           K == UNION {DOMAIN out(n).stack : n \in I}
           J == JoinStates(b, I)
<1>3. J = [registers |-> [r \in R |-> JoinOver(I, reg(r))],
           stack |-> [k \in K |-> JoinOver(I, slot(k))]]
  BY DEF JoinStates
<1> HIDE DEF J, out
<1>4. ASSUME NEW r
      PROVE  Below(GetReg(s, r), GetReg(J, r))
  <2> SUFFICES ASSUME IsKnown(GetReg(s, r))
               PROVE  GetReg(J, r) = GetReg(s, r)
    BY DEF Below
  <2>1. PICK v : v = GetReg(s, r)
    OBVIOUS
  <2>2. \A n \in I : GetReg(out(n), r) = v
    BY <1>2, <2>1 DEF StateBelow, Below
  <2>3. v \in Value
    BY <1>2, <2>2, ReadIsValue
  <2>4. \A n \in I : r \in DOMAIN out(n).registers
    BY <2>1, <2>2 DEF GetReg, Read, Unknown, Because, IsKnown
  <2>5. r \in R
    BY <1>2, <2>4
  <2>6. \A n \in I : reg(r)[n] = v
    BY <2>2
  <2>7. JoinOver(I, reg(r)) = v
    BY <1>2, <2>3, <2>6, JoinOfEqual
  <2> QED
    BY <1>3, <2>1, <2>5, <2>7 DEF GetReg, Read
<1>5. ASSUME NEW k
      PROVE  Below(GetSlot(s, k), GetSlot(J, k))
  <2> SUFFICES ASSUME IsKnown(GetSlot(s, k))
               PROVE  GetSlot(J, k) = GetSlot(s, k)
    BY DEF Below
  <2>1. PICK v : v = GetSlot(s, k)
    OBVIOUS
  <2>2. \A n \in I : GetSlot(out(n), k) = v
    BY <1>2, <2>1 DEF StateBelow, Below
  <2>3. v \in Value
    BY <1>2, <2>2, ReadIsValue
  <2>4. \A n \in I : k \in DOMAIN out(n).stack
    BY <2>1, <2>2 DEF GetSlot, Read, Unknown, Because, IsKnown
  <2>5. k \in K
    BY <1>2, <2>4
  <2>6. \A n \in I : slot(k)[n] = v
    BY <2>2
  <2>7. JoinOver(I, slot(k)) = v
    BY <1>2, <2>3, <2>6, JoinOfEqual
  <2> QED
    BY <1>3, <2>1, <2>5, <2>7 DEF GetSlot, Read
<1> QED
  BY <1>1, <1>4, <1>5 DEF StateBelow, J

\* Widening only forgets.
LEMMA WidenIsLower ==
    ASSUME NEW old, NEW new
    PROVE  StateBelow(Widen(old, new), old)
  BY DEF Widen, StateBelow, Below, GetReg, GetSlot, Read, Unknown, Because, IsKnown

\* A simulation of block p up to its n-th instruction: the states before each.
IsRun(p, n, t) ==
    /\ \A k \in 1..n : IsState(t[k])
    /\ \A k \in 1..(n - 1) : t[k + 1] = StepEffect(prog.code[p][k], t[k])

End(p) == Len(prog.code[p]) + 1

\* A block ended where its in-state leads.  A block that is simulated again
\* says, at every instruction, no more than it did the last time.
RunsInv ==
    /\ DOMAIN outStates \subseteq DOMAIN inStates
    /\ phase = "simulate" => at \in DOMAIN inStates
    /\ phase = "simulate" => \E t : IsRun(at, pc, t) /\ t[1] = inStates[at] /\ t[pc] = st
    /\ \A p \in DOMAIN outStates :
          \/ phase = "simulate" /\ at = p
          \/ \E t : IsRun(p, End(p), t) /\ t[1] = inStates[p] /\ t[End(p)] = outStates[p]
    /\ phase = "simulate" /\ at \in DOMAIN outStates =>
          \E t : IsRun(at, End(at), t) /\ StateBelow(st, t[pc]) /\ t[End(at)] = outStates[at]

\* Until it is widened, a block has been entered with at least what flows in
\* now.  It is entered along an edge.
FlowInv ==
    \A b \in DOMAIN inStates :
      /\ b = prog.entry \/ Available(b) # {}
      /\ visits[b] <= LoopWidenAfter => StateBelow(JoinedIn(b), inStates[b])

DescendInv == phase # "done" => RunsInv /\ FlowInv

\* A block that is entered again is entered with less.
LEMMA EnterDescends ==
    ASSUME TypeInv, DescendInv, Enter, Head(worklist) \in DOMAIN inStates
    PROVE  StateBelow(ComputedIn(Head(worklist), NextVisit(Head(worklist))),
                      inStates[Head(worklist)])
<1>1. PICK b : b = Head(worklist)
  OBVIOUS
<1>2. PICK v : v = NextVisit(b)
  OBVIOUS
<1>3. phase = "loop" /\ b \in prog.blocks /\ b \in DOMAIN inStates /\ Verdict(b, v) = "simulate"
  BY <1>1, <1>2, HeadIsBlock DEF Enter
<1>4. /\ visits[b] \in Int /\ v \in Int /\ LoopWidenAfter \in Int /\ MaxBlockVisits \in Int
      /\ v = visits[b] \/ v = visits[b] + 1
  BY <1>2, <1>3, BoundsAssumption DEF TypeInv, TypeOK, NextVisit
<1>5. CASE v > LoopWidenAfter
  <2>1. ComputedIn(b, v) = Widen(inStates[b], JoinedIn(b))
    BY <1>3, <1>5 DEF ComputedIn
  <2> QED
    BY <1>1, <1>2, <2>1, WidenIsLower
<1>6. CASE ~(v > LoopWidenAfter)
  <2>1. ComputedIn(b, v) = JoinedIn(b)
    BY <1>6 DEF ComputedIn
  <2>2. visits[b] <= LoopWidenAfter
    BY <1>4, <1>6
  <2>3. StateBelow(JoinedIn(b), inStates[b])
    BY <1>3, <2>2 DEF DescendInv, FlowInv
  <2> QED
    BY <1>1, <1>2, <2>1, <2>3
<1> QED
  BY <1>5, <1>6

\* Entering a block starts a run from its new in-state.
LEMMA EnterRuns ==
    ASSUME TypeInv, DescendInv, Enter
    PROVE  RunsInv'
<1>1. PICK b : b = Head(worklist)
  OBVIOUS
<1>2. PICK in : in = ComputedIn(b, NextVisit(b))
  OBVIOUS
<1>3. /\ phase = "loop" /\ worklist # <<>> /\ b \in prog.blocks
      /\ inStates' = Put(inStates, {b}, in) /\ at' = b /\ pc' = 1 /\ st' = in
      /\ phase' = "simulate" /\ UNCHANGED <<prog, outStates>>
  BY <1>1, <1>2, HeadIsBlock DEF Enter
<1>4. IsState(in)
  BY <1>2, <1>3, ComputedInIsState
<1>5. RunsInv
  BY <1>3 DEF DescendInv
<1>6. /\ DOMAIN inStates' = DOMAIN inStates \cup {b} /\ inStates'[b] = in
      /\ \A p \in DOMAIN inStates : p # b => inStates'[p] = inStates[p]
  BY <1>3 DEF Put
<1>7. (DOMAIN outStates \subseteq DOMAIN inStates)' /\ (at \in DOMAIN inStates)'
  BY <1>3, <1>5, <1>6 DEF RunsInv
<1>8. (\E t : IsRun(at, pc, t) /\ t[1] = inStates[at] /\ t[pc] = st)'
  <2> DEFINE t == [k \in {1} |-> in]
  <2>1. (\A k \in 1..pc : IsState(t[k]))' /\ 1..(pc - 1)' = {}
    BY <1>3, <1>4
  <2>2. IsRun(at, pc, t)'
    BY <2>1 DEF IsRun
  <2> QED
    BY <1>3, <1>6, <2>2
<1>9. ASSUME NEW p \in DOMAIN outStates, p # b
      PROVE  (\E t : IsRun(p, End(p), t) /\ t[1] = inStates[p] /\ t[End(p)] = outStates[p])'
  <2>1. PICK t : IsRun(p, End(p), t) /\ t[1] = inStates[p] /\ t[End(p)] = outStates[p]
    BY <1>3, <1>5 DEF RunsInv
  <2>2. p \in DOMAIN inStates
    BY <1>5 DEF RunsInv
  <2> QED
    BY <1>3, <1>6, <1>9, <2>1, <2>2 DEF IsRun, End
<1>10. ASSUME b \in DOMAIN outStates
       PROVE  (\E t : IsRun(at, End(at), t) /\ StateBelow(st, t[pc]) /\ t[End(at)] = outStates[at])'
  <2>1. PICK t : IsRun(b, End(b), t) /\ t[1] = inStates[b] /\ t[End(b)] = outStates[b]
    BY <1>3, <1>5, <1>10 DEF RunsInv
  <2>2. b \in DOMAIN inStates
    BY <1>5, <1>10 DEF RunsInv
  <2>3. StateBelow(in, t[1])
    BY <1>1, <1>2, <2>1, <2>2, EnterDescends
  <2> QED
    BY <1>3, <2>1, <2>3 DEF IsRun, End
<1> QED
  BY <1>3, <1>7, <1>8, <1>9, <1>10 DEF RunsInv

\* Each instruction lengthens it.
LEMMA StepRuns ==
    ASSUME TypeInv, RunsInv, Step
    PROVE  RunsInv'
<1>1. /\ UNCHANGED <<prog, phase, inStates, outStates, at>>
      /\ pc' = pc + 1 /\ st' = StepEffect(prog.code[at][pc], st)
  BY DEF Step
<1>2. PICK n : n = pc
  OBVIOUS
<1>3. /\ at \in prog.blocks /\ n \in 1..Len(prog.code[at]) /\ IsInstruction(prog.code[at][n])
      /\ Len(prog.code[at]) \in Nat
  BY <1>2, StepIsInstruction, CodeOfBlock DEF TypeInv, WellTyped
<1>4. IsState(st) /\ IsState(st')
  BY <1>1, <1>2, <1>3, StepEffectIsState DEF TypeInv, TypeOK
<1>5. ASSUME phase = "simulate"
      PROVE  (\E t : IsRun(at, pc, t) /\ t[1] = inStates[at] /\ t[pc] = st)'
  <2>1. PICK t : IsRun(at, n, t) /\ t[1] = inStates[at] /\ t[n] = st
    BY <1>2, <1>5 DEF RunsInv
  <2>2. PICK u : u = [k \in 1..(n + 1) |-> IF k = n + 1 THEN st' ELSE t[k]]
    OBVIOUS
  <2>3. u[n + 1] = st' /\ \A k \in 1..n : u[k] = t[k]
    BY <1>3, <2>2
  <2>4. \A k \in 1..(n + 1) : IsState(u[k])
    <3>1. \A k \in 1..n : IsState(u[k])
      BY <2>1, <2>3 DEF IsRun
    <3>2. IsState(u[n + 1])
      BY <1>4, <2>3
    <3>3. \A k \in 1..(n + 1) : k \in 1..n \/ k = n + 1
      BY <1>3
    <3> QED
      BY <3>1, <3>2, <3>3
  <2>5. ASSUME NEW k \in 1..n
        PROVE  u[k + 1] = StepEffect(prog.code[at][k], u[k])
    <3>1. CASE k = n
      BY <1>1, <1>2, <2>1, <2>3, <3>1
    <3>2. CASE k # n
      <4>1. k \in 1..(n - 1) /\ k + 1 \in 1..n
        BY <1>3, <3>2
      <4> QED
        BY <2>1, <2>3, <4>1 DEF IsRun
    <3> QED
      BY <3>1, <3>2
  <2>6. IsRun(at, n + 1, u)
    <3>1. PICK m : m = n + 1
      OBVIOUS
    <3>2. 1..(m - 1) = 1..n
      BY <1>3, <3>1
    <3>3. \A k \in 1..m : IsState(u[k])
      BY <2>4, <3>1
    <3>4. \A k \in 1..(m - 1) : u[k + 1] = StepEffect(prog.code[at][k], u[k])
      BY <2>5, <3>2
    <3>5. IsRun(at, m, u)
      BY <3>3, <3>4 DEF IsRun
    <3> QED
      BY <3>1, <3>5
  <2>7. u[1] = inStates[at]
    BY <1>3, <2>1, <2>3
  <2> QED
    BY <1>1, <1>2, <2>3, <2>6, <2>7 DEF IsRun
<1>6. ASSUME phase = "simulate", at \in DOMAIN outStates
      PROVE  (\E t : IsRun(at, End(at), t) /\ StateBelow(st, t[pc]) /\ t[End(at)] = outStates[at])'
  <2>1. PICK t : IsRun(at, End(at), t) /\ StateBelow(st, t[n]) /\ t[End(at)] = outStates[at]
    BY <1>2, <1>6 DEF RunsInv
  <2>2. n \in 1..End(at) /\ n \in 1..(End(at) - 1)
    BY <1>3 DEF End
  <2>3. IsState(t[n]) /\ t[n + 1] = StepEffect(prog.code[at][n], t[n])
    BY <2>1, <2>2 DEF IsRun
  <2>4. StateBelow(st', t[n + 1])
    BY <1>1, <1>2, <1>4, <2>1, <2>3, StepEffectBelow
  <2> QED
    BY <1>1, <1>2, <2>1, <2>4 DEF IsRun, End
<1>7. ASSUME NEW p \in DOMAIN outStates
      PROVE  \/ phase = "simulate" /\ at = p
             \/ (\E t : IsRun(p, End(p), t) /\ t[1] = inStates[p] /\ t[End(p)] = outStates[p])'
  BY <1>1, <1>7 DEF RunsInv, IsRun, End
<1> QED
  BY <1>1, <1>5, <1>6, <1>7 DEF RunsInv

\* At the block's end the run is complete and ends in less than the last one.
LEMMA LeaveRuns ==
    ASSUME TypeInv, RunsInv, Leave
    PROVE  /\ RunsInv'
           /\ at \in DOMAIN outStates => StateBelow(st, outStates[at])
<1>1. /\ phase = "simulate" /\ phase' = "loop" /\ UNCHANGED <<prog, inStates, at>>
      /\ outStates' = Put(outStates, {at}, st)
  BY DEF Leave
<1>2. pc = End(at)
  <2>1. at \in prog.blocks /\ pc \in 1..(Len(prog.code[at]) + 1)
    BY <1>1 DEF TypeInv, TypeOK, Simulating
  <2>2. Len(prog.code[at]) \in Nat /\ pc > Len(prog.code[at])
    BY <1>1, <2>1, CodeOfBlock DEF Leave, Limit, TypeInv, WellTyped
  <2> QED
    BY <2>1, <2>2 DEF End
<1>3. /\ DOMAIN outStates' = DOMAIN outStates \cup {at} /\ outStates'[at] = st
      /\ \A p \in DOMAIN outStates : p # at => outStates'[p] = outStates[p]
  BY <1>1 DEF Put
<1>4. DOMAIN outStates' \subseteq DOMAIN inStates'
  BY <1>1, <1>3 DEF RunsInv
<1>5. (\E t : IsRun(at, End(at), t) /\ t[1] = inStates[at] /\ t[End(at)] = outStates[at])'
  BY <1>1, <1>2, <1>3 DEF RunsInv, IsRun, End
<1>6. ASSUME NEW p \in DOMAIN outStates, p # at
      PROVE  (\E t : IsRun(p, End(p), t) /\ t[1] = inStates[p] /\ t[End(p)] = outStates[p])'
  BY <1>1, <1>3, <1>6 DEF RunsInv, IsRun, End
<1>7. ASSUME NEW p \in DOMAIN outStates'
      PROVE  (\E t : IsRun(p, End(p), t) /\ t[1] = inStates[p] /\ t[End(p)] = outStates[p])'
  <2>1. CASE p = at
    BY <1>1, <1>5, <2>1
  <2>2. CASE p # at
    BY <1>3, <1>6, <1>7, <2>2
  <2> QED
    BY <2>1, <2>2
<1>8. ASSUME at \in DOMAIN outStates
      PROVE  StateBelow(st, outStates[at])
  BY <1>1, <1>2, <1>8 DEF RunsInv
<1> QED
  BY <1>1, <1>4, <1>7, <1>8 DEF RunsInv

\* What flows into a block descends with every simulation of a predecessor.
LEMMA LeaveFlows ==
    ASSUME TypeInv, TypeInv', RunsInv, FlowInv, Leave
    PROVE  FlowInv'
<1>1. /\ UNCHANGED <<prog, query, inStates, visits>>
      /\ outStates' = Put(outStates, {at}, st)
  BY DEF Leave
<1>2. at \in DOMAIN outStates => StateBelow(st, outStates[at])
  BY LeaveRuns
<1>3. \A p \in DOMAIN outStates : p \in DOMAIN outStates' /\ StateBelow(outStates'[p], outStates[p])
  BY <1>1, <1>2, BelowIsPreorder DEF Put
<1>4. ASSUME NEW b \in DOMAIN inStates, b # prog.entry
      PROVE  Available(b) # {} /\ Available(b)' # {} /\ StateBelow(JoinedIn(b)', JoinedIn(b))
  <2>1. b \in prog.blocks /\ Available(b) # {}
    BY <1>4 DEF FlowInv, TypeInv, TypeOK
  <2>2. PICK I, low : I = Available(b)' /\ low = JoinStates(b, Available(b))'
    OBVIOUS
  <2>3. \A n \in Available(b) : n \in I
    BY <1>1, <1>3, <2>2 DEF Available
  <2>4. ASSUME NEW n \in Available(b)
        PROVE  StateBelow(low, outStates[prog.pred[b][n]])
    <3>1. StateBelow(low, (outStates[prog.pred[b][n]])')
      <4>1. n \in Available(b)' /\ b \in prog.blocks'
        BY <1>1, <2>1, <2>2, <2>3
      <4> QED
        BY <2>2, <4>1, JoinsStayLower
    <3>2. prog.pred[b][n] \in DOMAIN outStates
      BY DEF Available
    <3> QED
      BY <1>1, <1>3, <3>1, <3>2, BelowIsPreorder
  <2>5. StateBelow(low, JoinStates(b, Available(b)))
    BY <2>1, <2>4, JoinIsGreatest
  <2>6. low = JoinedIn(b)' /\ JoinStates(b, Available(b)) = JoinedIn(b)
    BY <1>1, <1>4, <2>2 DEF JoinedIn
  <2> QED
    BY <2>1, <2>2, <2>3, <2>5, <2>6
<1>5. ASSUME NEW b \in DOMAIN inStates, b = prog.entry
      PROVE  JoinedIn(b)' = JoinedIn(b)
  BY <1>1, <1>5 DEF JoinedIn, InitialState
<1>6. ASSUME NEW b \in DOMAIN inStates, visits[b] <= LoopWidenAfter
      PROVE  StateBelow(JoinedIn(b)', inStates[b])
  <2>1. StateBelow(JoinedIn(b), inStates[b])
    BY <1>6 DEF FlowInv
  <2> QED
    BY <1>4, <1>5, <2>1, BelowIsPreorder
<1> QED
  BY <1>1, <1>4, <1>6 DEF FlowInv

\* Entering a block leaves the others' in-states and records its own.
LEMMA EnterFlows ==
    ASSUME TypeInv, FlowInv, Enter
    PROVE  FlowInv'
<1>1. PICK b : b = Head(worklist)
  OBVIOUS
<1>2. PICK v : v = NextVisit(b)
  OBVIOUS
<1>3. /\ phase = "loop" /\ worklist # <<>> /\ b \in prog.blocks
      /\ Verdict(b, v) = "simulate" /\ visits' = [visits EXCEPT ![b] = v]
      /\ inStates' = Put(inStates, {b}, ComputedIn(b, v))
      /\ UNCHANGED <<prog, query, outStates>>
  BY <1>1, <1>2, HeadIsBlock DEF Enter
<1>4. visits \in [prog.blocks -> Int] /\ v \in Int /\ MaxBlockVisits \in Int
  BY <1>2, <1>3, BoundsAssumption DEF TypeInv, TypeOK, NextVisit
<1>5. b = prog.entry \/ Available(b) # {}
  BY <1>3, <1>4 DEF Verdict
<1>6. \A c : JoinedIn(c)' = JoinedIn(c) /\ Available(c)' = Available(c)
  BY <1>3 DEF JoinedIn, JoinStates, Available, InitialState
<1>7. visits'[b] = v /\ inStates'[b] = ComputedIn(b, v)
  BY <1>3, <1>4 DEF Put
<1>8. v <= LoopWidenAfter => StateBelow(JoinedIn(b), ComputedIn(b, v))
  <2>1. LoopWidenAfter \in Int
    BY BoundsAssumption
  <2>2. v <= LoopWidenAfter => ComputedIn(b, v) = JoinedIn(b)
    BY <1>4, <2>1 DEF ComputedIn
  <2> QED
    BY <2>2, BelowIsPreorder
<1>9. ASSUME NEW c \in DOMAIN inStates, c # b
      PROVE  inStates'[c] = inStates[c] /\ visits'[c] = visits[c]
  BY <1>3, <1>4, <1>9 DEF Put, TypeInv, TypeOK
<1>10. DOMAIN inStates' = DOMAIN inStates \cup {b}
  BY <1>3 DEF Put
<1>11. ASSUME NEW c \in DOMAIN inStates'
       PROVE  /\ c = prog.entry \/ Available(c) # {}
              /\ visits'[c] <= LoopWidenAfter => StateBelow(JoinedIn(c), inStates'[c])
  <2>1. CASE c = b
    BY <1>5, <1>7, <1>8, <2>1
  <2>2. CASE c # b
    BY <1>9, <1>10, <1>11, <2>2 DEF FlowInv
  <2> QED
    BY <2>1, <2>2
<1> QED
  BY <1>3, <1>6, <1>11 DEF FlowInv

\* Steps outside a simulation do not touch what was simulated.
LEMMA NothingRuns ==
    ASSUME RunsInv, phase # "simulate", phase' # "simulate",
           UNCHANGED <<prog, inStates, outStates>>
    PROVE  RunsInv'
  BY DEF RunsInv, IsRun, End

\* What flows into a block depends on nothing else.
LEMMA NothingFlows ==
    ASSUME FlowInv, UNCHANGED <<prog, query, inStates, outStates, visits>>
    PROVE  FlowInv'
<1>1. \A c : JoinedIn(c)' = JoinedIn(c) /\ Available(c)' = Available(c)
  BY DEF JoinedIn, JoinStates, Available, InitialState
<1> QED
  BY <1>1 DEF FlowInv

\* Every step keeps runs and flows descending.
LEMMA DescendNext ==
    ASSUME TypeInv, TypeInv', DescendInv, [Next]_vars
    PROVE  DescendInv'
<1> SUFFICES ASSUME phase' # "done"
             PROVE  RunsInv' /\ FlowInv'
  BY DEF DescendInv
<1>1. CASE UNCHANGED vars
  <2>1. phase # "done" /\ RunsInv /\ FlowInv
    BY <1>1 DEF vars, DescendInv
  <2>2. RunsInv'
    BY <1>1, <2>1 DEF vars, RunsInv, IsRun, End
  <2>3. FlowInv'
    BY <1>1, <2>1, NothingFlows DEF vars
  <2> QED
    BY <2>2, <2>3
<1>2. CASE Seed
  BY <1>2, NothingRuns, NothingFlows DEF Seed, DescendInv
<1>3. CASE PassOn
  <2>1. /\ phase = "loop" /\ phase' = "loop" /\ RunsInv /\ FlowInv
        /\ UNCHANGED <<prog, query, inStates, outStates>>
    BY <1>3 DEF PassOn, DescendInv
  <2>2. RunsInv'
    BY <2>1, NothingRuns
  <2>3. \A c : JoinedIn(c)' = JoinedIn(c) /\ Available(c)' = Available(c)
    BY <2>1 DEF JoinedIn, JoinStates, Available, InitialState
  <2>4. \A c \in DOMAIN inStates : visits'[c] <= LoopWidenAfter => visits[c] <= LoopWidenAfter
    <3>1. PICK b : b = Head(worklist)
      OBVIOUS
    <3>2. b \in prog.blocks /\ visits' = [visits EXCEPT ![b] = NextVisit(b)]
      BY <1>3, <3>1, HeadIsBlock DEF PassOn
    <3>3. /\ visits \in [prog.blocks -> Int] /\ LoopWidenAfter \in Int
          /\ NextVisit(b) = visits[b] \/ NextVisit(b) = visits[b] + 1
          /\ DOMAIN inStates \subseteq prog.blocks
      BY <3>2, BoundsAssumption DEF TypeInv, TypeOK, NextVisit
    <3> QED
      BY <3>2, <3>3
  <2> QED
    BY <2>1, <2>2, <2>3, <2>4 DEF FlowInv
<1>4. CASE Enter
  BY <1>4, EnterRuns, EnterFlows DEF Enter, DescendInv
<1>5. CASE Step
  <2>1. RunsInv /\ FlowInv
    BY <1>5 DEF Step, Simulating, DescendInv
  <2>2. RunsInv'
    BY <1>5, <2>1, StepRuns
  <2>3. FlowInv'
    BY <1>5, <2>1, NothingFlows DEF Step
  <2> QED
    BY <2>2, <2>3
<1>6. CASE Leave
  BY <1>6, LeaveRuns, LeaveFlows DEF Leave, DescendInv
<1>7. CASE Finish
  BY <1>7, NothingRuns, NothingFlows DEF Finish, DescendInv
<1>8. CASE Reject \/ Exhaust \/ NotReached \/ Answer
  BY <1>8 DEF Reject, Exhaust, NotReached, Answer
<1> QED
  BY <1>1, <1>2, <1>3, <1>4, <1>5, <1>6, <1>7, <1>8 DEF Next

\* The analysis descends: no block is ever entered with something it was not
\* entered with before, whichever path is simulated next.  This is why joining
\* and widening converge (core/engine_forward.py:14-19).
THEOREM InStatesDescend == Spec => OnlyLosesInformation
<1> DEFINE Inv == TypeInv /\ DescendInv
           Lost == \A b \in DOMAIN inStates : Covers(inStates'[b], inStates[b])
<1>1. Init => DescendInv
  <2>1. DOMAIN (<<>>) = {}
    OBVIOUS
  <2> QED
    BY <2>1 DEF Init, DescendInv, RunsInv, FlowInv
<1>2. Inv /\ [Next]_vars => Inv'
  BY TypeNext, DescendNext
<1>3. Inv /\ [Next]_vars => [Lost]_inStates
  <2> SUFFICES ASSUME Inv, Next, inStates' # inStates
               PROVE  Lost
    BY DEF vars
  <2>1. Enter
    BY DEF Next, Reject, Seed, PassOn, Step, Exhaust, Leave, NotReached, Finish, Answer
  <2>2. PICK b : b = Head(worklist)
    OBVIOUS
  <2>3. PICK in : in = ComputedIn(b, NextVisit(b))
    OBVIOUS
  <2>4. inStates' = Put(inStates, {b}, in)
    BY <2>1, <2>2, <2>3 DEF Enter
  <2>5. b \in DOMAIN inStates => StateBelow(in, inStates[b])
    BY <2>1, <2>2, <2>3, EnterDescends
  <2>6. \A c \in DOMAIN inStates : StateBelow(inStates'[c], inStates[c])
    BY <2>4, <2>5, BelowIsPreorder DEF Put
  <2> QED
    BY <2>6, CoversIsBelow
<1> QED
  BY <1>1, <1>2, <1>3, TypeInit, PTL DEF Spec, OnlyLosesInformation

=============================================================================
