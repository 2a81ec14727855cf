----------------------- MODULE ForwardSoundness_proofs -----------------------
(****************************************************************************)
(* The forward engine never guesses: for every set of supported functions   *)
(* and queries, every processor and all bounds, whatever path is executed   *)
(* and however often.                                                       *)
(****************************************************************************)
EXTENDS ForwardSoundness, ForwardEngine_proofs

\* A word counts some bit patterns.
LEMMA WordModulus == Modulus[WordSize] \in Nat \ {0} /\ WordSize \in 1..8
  BY WidthAssumption

-----------------------------------------------------------------------------
(* Machines *)

\* The words a machine holds are never addresses of its stack: nothing the
\* instructions compute is one (lea of the stack pointer is of an opaque word).
IsWord(w) == w.base # <<"stack", 0>>

IsMachine(m) ==
    /\ m = [regs |-> m.regs, mem |-> m.mem]
    /\ DOMAIN m.regs = Reg /\ \A r \in Reg : IsWord(m.regs[r])
    /\ \A c \in DOMAIN m.mem : IsWord(m.mem[c])

\* Words are made from other words, numbers, the argument and results of calls.
LEMMA WordsAreWords ==
    /\ IsWord(Junk)
    /\ \A n : IsWord(Num(n))
    /\ \A k, n : IsWord(Word(<<"arg", k>>, n)) /\ IsWord(Word(<<"ret", k>>, n))
    /\ \A w, n : IsWord(w) => IsWord(Plus(w, n))
  BY DEF IsWord, Junk, Num, Word, Plus

\* A function is entered on a machine.
LEMMA EntryIsMachine == \A r : IsMachine(EntryMachine(r))
<1> SUFFICES ASSUME NEW r
             PROVE  IsMachine(EntryMachine(r))
  OBVIOUS
<1>1. PICK m : m = EntryMachine(r)
  OBVIOUS
<1>2. /\ m.regs = [q \in Reg |-> IF q = r THEN Word(<<"arg", 0>>, 0) ELSE Junk]
      /\ m.mem = <<>> /\ m = [regs |-> m.regs, mem |-> m.mem]
  BY <1>1 DEF EntryMachine
<1>3. DOMAIN m.mem = {}
  BY <1>2
<1>4. DOMAIN m.regs = Reg /\ \A q \in Reg : IsWord(m.regs[q])
  <2>1. PICK a : a = Word(<<"arg", 0>>, 0)
    OBVIOUS
  <2>2. IsWord(a) /\ IsWord(Junk)
    BY <2>1, WordsAreWords
  <2> QED
    BY <1>2, <2>1, <2>2
<1> QED
  BY <1>1, <1>2, <1>3, <1>4 DEF IsMachine

\* What a cell holds is a word.
LEMMA ContentIsWord ==
    ASSUME NEW m, IsMachine(m), NEW c
    PROVE  IsWord(Content(m, c))
  BY WordsAreWords DEF Content, IsMachine

\* What an operand may hold is a word.
LEMMA ReadsAreWords ==
    ASSUME NEW m, IsMachine(m), NEW i, NEW op, IsReg(op) => op.reg \in Reg,
           NEW w \in Reads(m, i, op)
    PROVE  IsWord(w)
<1>1. CASE IsReg(op)
  BY <1>1 DEF Reads, IsMachine, IsReg, IsImm, IsMem
<1>2. CASE IsImm(op)
  BY <1>2, WordsAreWords DEF Reads, IsReg, IsImm, IsMem
<1>3. CASE IsMem(op)
  <2>1. w = Junk \/ \E c : w = Content(m, c)
    BY <1>3 DEF Reads, IsReg, IsImm, IsMem
  <2> QED
    BY <2>1, ContentIsWord, WordsAreWords
<1>4. CASE ~IsReg(op) /\ ~IsImm(op) /\ ~IsMem(op)
  BY <1>4, WordsAreWords DEF Reads
<1> QED
  BY <1>1, <1>2, <1>3, <1>4

\* What setting a register does to the registers.
LEMMA AfterSetRegister ==
    ASSUME NEW m, IsMachine(m), NEW r \in Reg, NEW w, IsWord(w)
    PROVE  /\ IsMachine(SetRegister(m, r, w))
           /\ SetRegister(m, r, w).regs[r] = w
           /\ SetRegister(m, r, w).mem = m.mem
           /\ \A q \in WholeReg : 
                 q = r \/ SetRegister(m, r, w).regs[q] = m.regs[q]
                   \/ (r \in Narrow /\ q = SubRegister[r].parent)
<1> DEFINE parent(q) == IF q \in Narrow THEN SubRegister[q].parent ELSE q
           overlaps(q) == parent(q) = parent(r) /\ ~(q \in Narrow /\ r \in Narrow)
           regs == [q \in Reg |-> IF q = r THEN w ELSE IF overlaps(q) THEN Junk ELSE m.regs[q]]
<1>1. SetRegister(m, r, w) = [regs |-> regs, mem |-> m.mem]
  BY DEF SetRegister, IsMachine
<1>2. \A q \in Reg : IsWord(regs[q])
  BY WordsAreWords DEF IsMachine
<1>3. regs[r] = w /\ DOMAIN regs = Reg
  OBVIOUS
<1>4. ASSUME NEW q \in WholeReg, q # r, ~(r \in Narrow /\ q = SubRegister[r].parent)
      PROVE  regs[q] = m.regs[q]
  <2>1. q \in Reg /\ ~overlaps(q)
    BY <1>4 DEF WholeReg
  <2> QED
    BY <1>4, <2>1
<1> HIDE DEF regs
<1> QED
  BY <1>1, <1>2, <1>3, <1>4 DEF IsMachine

\* What storing in a cell does to the cells.
LEMMA AfterSetCell ==
    ASSUME NEW m, IsMachine(m), NEW c, NEW w, IsWord(w)
    PROVE  /\ IsMachine(SetCell(m, c, w))
           /\ SetCell(m, c, w).regs = m.regs
           /\ \A x : Content(SetCell(m, c, w), x) = IF x = c THEN w ELSE Content(m, x)
<1> DEFINE mem == [x \in DOMAIN m.mem \cup {c} |-> IF x = c THEN w ELSE m.mem[x]]
<1>1. SetCell(m, c, w) = [regs |-> m.regs, mem |-> mem]
  BY DEF SetCell, IsMachine
<1>2. \A x \in DOMAIN mem : IsWord(mem[x])
  BY DEF IsMachine
<1>3. /\ DOMAIN mem = DOMAIN m.mem \cup {c} /\ mem[c] = w
      /\ \A x \in DOMAIN m.mem : x # c => mem[x] = m.mem[x]
  OBVIOUS
<1> HIDE DEF mem
<1>4. IsMachine(SetCell(m, c, w))
  BY <1>1, <1>2 DEF IsMachine
<1>5. ASSUME NEW x
      PROVE  Content(SetCell(m, c, w), x) = IF x = c THEN w ELSE Content(m, x)
  BY <1>1, <1>3 DEF Content
<1> QED
  BY <1>1, <1>4, <1>5

\* Scrambling destroys registers and what is a part of them, and nothing else.
LEMMA AfterScramble ==
    ASSUME NEW m, IsMachine(m), NEW R
    PROVE  /\ IsMachine(Scramble(m, R))
           /\ Scramble(m, R).mem = m.mem
           /\ \A q \in WholeReg \ R : Scramble(m, R).regs[q] = m.regs[q]
<1> DEFINE regs == [r \in Reg |-> IF r \in R \/ (r \in Narrow /\ SubRegister[r].parent \in R)
                                    THEN Junk ELSE m.regs[r]]
<1>1. Scramble(m, R) = [regs |-> regs, mem |-> m.mem]
  BY DEF Scramble, IsMachine
<1>2. \A q \in Reg : IsWord(regs[q])
  BY WordsAreWords DEF IsMachine
<1>3. DOMAIN regs = Reg /\ \A q \in WholeReg \ R : regs[q] = m.regs[q]
  BY DEF WholeReg
<1> HIDE DEF regs
<1> QED
  BY <1>1, <1>2, <1>3 DEF IsMachine

-----------------------------------------------------------------------------
(* What a state of the analysis knows of a machine *)

\* Every known register but those in P, none of them a part of another, holds
\* what it is known to hold ...
RegistersHold(s, m, P) ==
    \A r \in Reg \ P :
       IsKnown(GetReg(s, r)) => r \in WholeReg /\ Denotes(GetReg(s, r), m.regs[r])

\* ... and so does the cell of every known slot of a set K of slots.
SlotsHold(s, m, K) ==
    \A k \in K : IsKnown(GetSlot(s, k)) => Denotes(GetSlot(s, k), Content(m, SlotCell(k)))

Holds(s, m, K) == RegistersHold(s, m, {}) /\ SlotsHold(s, m, K)

\* Slots that share no cell.
Separate(K) == \A k, l \in K : SlotCell(k) = SlotCell(l) => k = l

\* A word known to be a value may be known to be less.
KnownAs(v, w) == IsKnown(v) => Denotes(v, w)

\* An unknown is true of every word.
LEMMA UnknownDenotes == \A reason, w : KnownAs(Unknown(reason), w)
  BY DEF KnownAs, IsKnown, Unknown, Because

\* At function entry the register asked for holds the argument, and nothing else
\* is known.
LEMMA EntryHolds ==
    ASSUME query.reg \in WholeReg, NEW K
    PROVE  Holds(InitialState, EntryMachine(query.reg), K)
<1>1. PICK r : r = query.reg
  OBVIOUS
<1>2. PICK v : v = Symbolic(<<"arg", 0>>)
  OBVIOUS
<1>3. /\ \A q : GetReg(InitialState, q) = IF q = r THEN v ELSE GetReg(EmptyState, q)
      /\ \A k : GetSlot(InitialState, k) = GetSlot(EmptyState, k)
  BY <1>1, <1>2, ReadAfterSet DEF InitialState
<1>4. /\ \A q : ~IsKnown(GetReg(EmptyState, q))
      /\ \A k : ~IsKnown(GetSlot(EmptyState, k))
  BY DEF EmptyState, GetReg, GetSlot, Read, Unknown, Because, IsKnown
<1>5. r \in Reg /\ EntryMachine(r).regs[r] = Word(<<"arg", 0>>, 0)
  BY <1>1 DEF EntryMachine, WholeReg
<1>6. Denotes(v, Word(<<"arg", 0>>, 0))
  BY <1>2 DEF Denotes, Symbolic
<1> QED
  BY <1>1, <1>3, <1>4, <1>5, <1>6 DEF Holds, RegistersHold, SlotsHold

\* Who says less of registers and slots is right when the other is.
LEMMA HoldsBelow ==
    ASSUME NEW a, NEW b, StateBelow(a, b), NEW m, NEW K, Holds(b, m, K)
    PROVE  Holds(a, m, K)
  BY DEF StateBelow, Below, Holds, RegistersHold, SlotsHold

\* Setting a register that matters to what is known of the word it is set to.
\* Setting a part of a register destroys the whole.
LEMMA SetRegisterHolds ==
    ASSUME NEW s, NEW m, IsMachine(m), NEW P, RegistersHold(s, m, P),
           NEW r \in Reg, r \in Narrow => r \in P /\ SubRegister[r].parent \in P,
           NEW v, NEW w, IsWord(w), r \in P \/ KnownAs(v, w)
    PROVE  RegistersHold(SetReg(s, r, v), SetRegister(m, r, w), P)
<1>1. PICK n : n = SetRegister(m, r, w)
  OBVIOUS
<1> SUFFICES ASSUME NEW q \in Reg \ P, IsKnown(GetReg(SetReg(s, r, v), q))
             PROVE  q \in WholeReg /\ Denotes(GetReg(SetReg(s, r, v), q), n.regs[q])
  BY <1>1 DEF RegistersHold
<1>2. CASE q = r
  <2>1. q \in WholeReg
    BY <1>2 DEF WholeReg
  <2>2. n.regs[q] = w /\ GetReg(SetReg(s, r, v), q) = v
    BY <1>1, <1>2, AfterSetRegister, ReadAfterSet
  <2> QED
    BY <1>2, <2>1, <2>2 DEF KnownAs
<1>3. CASE q # r
  <2>1. GetReg(SetReg(s, r, v), q) = GetReg(s, q)
    BY <1>3, ReadAfterSet
  <2>2. q \in WholeReg /\ Denotes(GetReg(s, q), m.regs[q])
    BY <2>1 DEF RegistersHold
  <2>3. n.regs[q] = m.regs[q]
    BY <1>1, <1>3, <2>2, AfterSetRegister
  <2> QED
    BY <2>1, <2>2, <2>3
<1> QED
  BY <1>2, <1>3

\* Registers do not matter to the stack.
LEMMA SlotsHoldElsewhere ==
    ASSUME NEW s, NEW u, NEW m, NEW n, NEW K, SlotsHold(s, m, K),
           \A k \in K : GetSlot(u, k) = GetSlot(s, k), n.mem = m.mem
    PROVE  SlotsHold(u, n, K)
  BY DEF SlotsHold, Content

\* Storing in a cell that has no slot.
LEMMA OtherCellHolds ==
    ASSUME NEW s, NEW m, IsMachine(m), NEW K, SlotsHold(s, m, K),
           NEW c, \A k \in K : SlotCell(k) # c, NEW w, IsWord(w)
    PROVE  SlotsHold(s, SetCell(m, c, w), K)
<1>1. \A k \in K : Content(SetCell(m, c, w), SlotCell(k)) = Content(m, SlotCell(k))
  BY AfterSetCell
<1> QED
  BY <1>1 DEF SlotsHold

-----------------------------------------------------------------------------
(* Addresses *)

\* A slot of the analysis is the one cell its operand may access ...
LEMMA NamedCell ==
    ASSUME NEW i, IsInstruction(i), NEW j \in DOMAIN i.ops, NEW op, op = i.ops[j],
           SlotOf(i, op) # <<>>, NEW m
    PROVE  SlotOf(i, op) = <<SlotOf(i, op)[1]>> /\ CellsOf(m, i, op) = {SlotCell(SlotOf(i, op)[1])}
<1>1. IsBased(op) /\ ~op.index /\ ~op.seg /\ op.reg \in {SpReg, FpReg}
  BY DEF SlotOf
<1>2. op.disp \in Int
  BY OperandsAreWellFormed DEF Operand
<1>3. CASE op.reg = SpReg
  <2>1. i.delta # <<>> /\ SlotOf(i, op) = << <<"sp", i.delta[1] + op.disp>> >>
    BY <1>1, <1>3 DEF SlotOf
  <2>2. i.delta[1] \in Int
    BY <2>1 DEF IsInstruction
  <2>3. CellsOf(m, i, op) = {StackCell(op.disp + i.delta[1])}
    BY <1>1, <1>3, <2>1 DEF CellsOf
  <2>4. SlotCell(<<"sp", i.delta[1] + op.disp>>) = StackCell(i.delta[1] + op.disp + 0)
    BY DEF SlotCell
  <2>5. i.delta[1] + op.disp + 0 = op.disp + i.delta[1]
    BY <1>2, <2>2
  <2> QED
    BY <2>1, <2>3, <2>4, <2>5
<1>4. CASE op.reg # SpReg
  <2>1. SlotOf(i, op) = << <<"fp", op.disp>> >>
    BY <1>1, <1>4 DEF SlotOf
  <2>2. CellsOf(m, i, op) = {StackCell(op.disp + FpOffset)}
    BY <1>1, <1>4 DEF CellsOf
  <2>3. SlotCell(<<"fp", op.disp>>) = StackCell(op.disp + FpOffset)
    BY DEF SlotCell
  <2> QED
    BY <2>1, <2>2, <2>3
<1> QED
  BY <1>3, <1>4

\* ... and an operand relative to another register accesses no slot's cell.
LEMMA UnnamedCell ==
    ASSUME NEW i, IsInstruction(i), NEW j \in DOMAIN i.ops, NEW op, op = i.ops[j],
           IsMem(op), op.reg \notin {SpReg, FpReg} \/ ~IsBased(op),
           IsBased(op) /\ op.index => op.seg,
           NEW m, IsMachine(m), NEW c \in CellsOf(m, i, op), NEW k
    PROVE  SlotCell(k) # c
<1>1. SlotCell(k).base = <<"stack", 0>>
  BY DEF SlotCell, StackCell
<1>2. ~op.seg
  BY DEF CellsOf
<1>3. CASE ~IsBased(op)
  <2>1. c = Num(op.imm)
    BY <1>2, <1>3 DEF CellsOf
  <2> QED
    BY <1>1, <2>1, WordsAreWords DEF IsWord
<1>4. CASE IsBased(op)
  <2>1. op.reg \in Reg
    BY <1>4, OperandsAreWellFormed DEF Operand, IsBased
  <2>2. c = Plus(m.regs[op.reg], op.disp)
    BY <1>2, <1>4 DEF CellsOf
  <2>3. IsWord(c)
    BY <2>1, <2>2, WordsAreWords DEF IsMachine
  <2> QED
    BY <1>1, <2>3 DEF IsWord
<1> QED
  BY <1>3, <1>4

\* A forgotten stack is not known.
LEMMA ForgottenStack ==
    ASSUME NEW op, op.reg \in {SpReg, FpReg}, NEW s, NEW k
    PROVE  ~IsKnown(GetSlot(ForgetStack(op, s), k))
<1>1. ForgetStack(op, s).stack = Put(s.stack, DOMAIN s.stack, Unknown("MUTATED_MEMORY_CONTENT"))
  BY DEF ForgetStack
<1>2. GetSlot(ForgetStack(op, s), k) \in {Unknown("MUTATED_MEMORY_CONTENT"), Unknown("NO_DEFINITION_FOUND")}
  BY <1>1 DEF GetSlot, Read, Put
<1> QED
  BY <1>2 DEF Unknown, Because, IsKnown

\* A store, to whichever of the cells its operand may access: what is known of the
\* slots afterwards is true if what is stored in a slot's cell is what the slot
\* is set to.
LEMMA StoreHolds ==
    ASSUME NEW i, IsInstruction(i), NEW j \in DOMAIN i.ops, NEW op, op = i.ops[j], IsMem(op),
           IsBased(op) /\ op.index => op.seg \/ op.reg \in {SpReg, FpReg},
           NEW K, Separate(K), SlotOf(i, op) # <<>> => SlotOf(i, op)[1] \in K,
           NEW m, IsMachine(m), NEW s, SlotsHold(s, m, K),
           NEW n, \A c : c \notin CellsOf(m, i, op) => Content(n, c) = Content(m, c),
           PureDefinition(op) /\ SlotOf(i, op) # <<>> =>
             KnownAs(SourceValue(i, j, s), Content(n, SlotCell(SlotOf(i, op)[1])))
    PROVE  SlotsHold(ApplyStore(i, j, s), n, K)
<1>1. CASE SlotOf(i, op) # <<>>
  <2>1. PICK k : k = SlotOf(i, op)[1]
    OBVIOUS
  <2>2. k \in K /\ CellsOf(m, i, op) = {SlotCell(k)}
    BY <1>1, <2>1, NamedCell
  <2>3. PICK v : v = IF PureDefinition(op) THEN SourceValue(i, j, s)
                     ELSE Unknown("UNSUPPORTED_INSTRUCTION")
    OBVIOUS
  <2>4. ApplyStore(i, j, s) = SetSlot(s, k, v)
    BY <1>1, <2>1, <2>3 DEF ApplyStore
  <2>5. KnownAs(v, Content(n, SlotCell(k)))
    BY <1>1, <2>1, <2>3, UnknownDenotes
  <2>6. ASSUME NEW l \in K, IsKnown(GetSlot(SetSlot(s, k, v), l))
        PROVE  Denotes(GetSlot(SetSlot(s, k, v), l), Content(n, SlotCell(l)))
    <3>1. CASE l = k
      BY <2>5, <2>6, <3>1, ReadAfterStore DEF KnownAs
    <3>2. CASE l # k
      <4>1. SlotCell(l) # SlotCell(k)
        BY <2>2, <3>2 DEF Separate
      <4>2. Content(n, SlotCell(l)) = Content(m, SlotCell(l))
        BY <2>2, <4>1
      <4>3. GetSlot(SetSlot(s, k, v), l) = GetSlot(s, l)
        BY <3>2, ReadAfterStore
      <4> QED
        BY <2>6, <4>2, <4>3 DEF SlotsHold
    <3> QED
      BY <3>1, <3>2
  <2> QED
    BY <2>4, <2>6 DEF SlotsHold
<1>2. CASE SlotOf(i, op) = <<>> /\ op.reg \in {SpReg, FpReg}
  <2>1. ApplyStore(i, j, s) = ForgetStack(op, s)
    BY <1>2 DEF ApplyStore
  <2> QED
    BY <1>2, <2>1, ForgottenStack DEF SlotsHold
<1>3. CASE SlotOf(i, op) = <<>> /\ op.reg \notin {SpReg, FpReg}
  <2>1. ApplyStore(i, j, s) = s
    BY <1>3 DEF ApplyStore, ForgetStack
  <2>2. \A k \in K : SlotCell(k) \notin CellsOf(m, i, op)
    BY <1>3, UnnamedCell
  <2> QED
    BY <2>1, <2>2 DEF SlotsHold
<1> QED
  BY <1>1, <1>2, <1>3

-----------------------------------------------------------------------------
(* One instruction, in the analysis and on the machine *)

\* An instruction is about to be executed on a machine of which a state is true.
Facing(i, s, m, K) ==
    /\ IsInstruction(i) /\ Understood(i)
    /\ IsState(s) /\ IsMachine(m) /\ Holds(s, m, K) /\ Separate(K)
    /\ \A n \in DOMAIN i.ops : SlotOf(i, i.ops[n]) # <<>> => SlotOf(i, i.ops[n])[1] \in K
    /\ i.mnem = "push" => \A k \in K : SlotCell(k) # PushCell(i)

\* What the engine makes of it is true of the machine n it leads to, but for the
\* registers that were written in part.
Kept(i, s, n, K) ==
    /\ IsMachine(n)
    /\ RegistersHold(Transfer(i, s), n, PartiallyWritten(i))
    /\ SlotsHold(Transfer(i, s), n, K)

\* Those are forgotten at the end of the step.
LEMMA KeptHolds ==
    ASSUME NEW i, NEW s, NEW n, NEW K, Kept(i, s, n, K)
    PROVE  IsMachine(n) /\ Holds(StepEffect(i, s), n, K)
<1>1. PICK u, P : u = Transfer(i, s) /\ P = PartiallyWritten(i)
  OBVIOUS
<1>2. StepEffect(i, s) = Forget(u, P, "UNSUPPORTED_OPERAND_SHAPE")
  BY <1>1 DEF StepEffect
<1>3. /\ \A r : IsKnown(GetReg(StepEffect(i, s), r)) =>
                   r \notin P /\ GetReg(StepEffect(i, s), r) = GetReg(u, r)
      /\ \A k : GetSlot(StepEffect(i, s), k) = GetSlot(u, k)
  BY <1>2, ReadAfterForget DEF Unknown, Because, IsKnown
<1>4. RegistersHold(StepEffect(i, s), n, {})
  BY <1>1, <1>3 DEF Kept, RegistersHold
<1>5. SlotsHold(StepEffect(i, s), n, K)
  BY <1>1, <1>3 DEF Kept, SlotsHold
<1> QED
  BY <1>4, <1>5 DEF Kept, Holds

\* A register that is written without being determined is written in part ...
LEMMA PartIsForgotten ==
    ASSUME NEW i, NEW j \in Written(i), NEW op, op = i.ops[j], IsReg(op),
           ~RegisterView(op.reg, op.size).definesParent
    PROVE  op.reg \in PartiallyWritten(i) /\ RegisterView(op.reg, op.size).parent \in PartiallyWritten(i)
<1> DEFINE partial == {n \in DOMAIN i.ops :
                          /\ IsReg(i.ops[n]) /\ i.ops[n].written
                          /\ ~RegisterView(i.ops[n].reg, i.ops[n].size).definesParent}
<1>1. j \in partial
  BY DEF Written
<1>2. PartiallyWritten(i) = {i.ops[n].reg : n \in partial}
        \cup {RegisterView(i.ops[n].reg, i.ops[n].size).parent : n \in partial}
  BY DEF PartiallyWritten
<1> HIDE DEF partial
<1> QED
  BY <1>1, <1>2

\* ... as a narrow register is, and the one it is a part of.
LEMMA NarrowIsPart ==
    ASSUME NEW i, NEW j \in Written(i), NEW r, r = i.ops[j].reg, IsReg(i.ops[j]), r \in Narrow
    PROVE  r \in PartiallyWritten(i) /\ SubRegister[r].parent \in PartiallyWritten(i)
<1>1. PICK op : op = i.ops[j]
  OBVIOUS
<1>2. RegisterView(op.reg, op.size).parent = SubRegister[r].parent
      /\ ~RegisterView(op.reg, op.size).definesParent
  BY <1>1 DEF RegisterView, Narrow
<1> QED
  BY <1>1, <1>2, PartIsForgotten

\* A register set to what is known of the word it is set to ...
LEMMA SetRegisterKept ==
    ASSUME NEW i, NEW s, NEW m, NEW K, Facing(i, s, m, K),
           NEW j \in Written(i), NEW r, r = i.ops[j].reg, IsReg(i.ops[j]),
           NEW v, NEW w, IsWord(w), r \in PartiallyWritten(i) \/ KnownAs(v, w),
           Transfer(i, s) = SetReg(s, r, v)
    PROVE  Kept(i, s, SetRegister(m, r, w), K)
<1>1. r \in Reg
  BY OperandsAreWellFormed DEF Facing, Written
<1>2. PICK n : n = SetRegister(m, r, w)
  OBVIOUS
<1>3. IsMachine(n) /\ n.mem = m.mem
  BY <1>1, <1>2, AfterSetRegister DEF Facing
<1>4. RegistersHold(s, m, PartiallyWritten(i))
  BY DEF Facing, Holds, RegistersHold
<1>5. RegistersHold(SetReg(s, r, v), n, PartiallyWritten(i))
  BY <1>1, <1>2, <1>4, NarrowIsPart, SetRegisterHolds DEF Facing
<1>6. SlotsHold(SetReg(s, r, v), n, K)
  BY <1>3, SlotsHoldElsewhere, ReadAfterSet DEF Facing, Holds
<1> QED
  BY <1>2, <1>3, <1>5, <1>6 DEF Kept

\* ... memory stored to ...
LEMMA StoreKept ==
    ASSUME NEW i, NEW s, NEW m, NEW K, Facing(i, s, m, K),
           NEW j \in Written(i), NEW op, op = i.ops[j], IsMem(op),
           Transfer(i, s) = ApplyStore(i, j, s),
           NEW w, IsWord(w), PureDefinition(op) => KnownAs(SourceValue(i, j, s), w),
           NEW n \in Writes(m, i, op, w)
    PROVE  Kept(i, s, n, K)
<1>1. /\ j \in DOMAIN i.ops /\ IsInstruction(i) /\ IsMachine(m) /\ Holds(s, m, K) /\ Separate(K)
      /\ IsBased(op) /\ op.index => op.seg \/ op.reg \in {SpReg, FpReg}
      /\ SlotOf(i, op) # <<>> => SlotOf(i, op)[1] \in K
  BY DEF Facing, Understood, Written
<1>2. \/ n = m /\ CellsOf(m, i, op) = {}
      \/ \E c \in CellsOf(m, i, op) : n = SetCell(m, c, w)
  BY DEF Writes, IsReg, IsMem
<1>3. /\ IsMachine(n) /\ n.regs = m.regs
      /\ \A c : c \notin CellsOf(m, i, op) => Content(n, c) = Content(m, c)
  BY <1>1, <1>2, AfterSetCell
<1>4. SlotOf(i, op) # <<>> => Content(n, SlotCell(SlotOf(i, op)[1])) = w
  <2> SUFFICES ASSUME SlotOf(i, op) # <<>>
               PROVE  Content(n, SlotCell(SlotOf(i, op)[1])) = w
    OBVIOUS
  <2>1. CellsOf(m, i, op) = {SlotCell(SlotOf(i, op)[1])}
    BY <1>1, NamedCell
  <2>2. n = SetCell(m, SlotCell(SlotOf(i, op)[1]), w)
    BY <1>2, <2>1
  <2> QED
    BY <1>1, <2>2, AfterSetCell
<1>5. SlotsHold(ApplyStore(i, j, s), n, K)
  BY <1>1, <1>3, <1>4, StoreHolds DEF Holds
<1>6. RegistersHold(ApplyStore(i, j, s), n, PartiallyWritten(i))
  BY <1>1, <1>3, StoreLeavesRegisters DEF Holds, RegistersHold
<1> QED
  BY <1>3, <1>5, <1>6 DEF Kept

\* ... or nothing done to the machine at all.
LEMMA NothingKept ==
    ASSUME NEW i, NEW s, NEW m, NEW K, Facing(i, s, m, K), StateBelow(Transfer(i, s), s)
    PROVE  Kept(i, s, m, K)
<1>1. Holds(Transfer(i, s), m, K)
  BY HoldsBelow DEF Facing
<1> QED
  BY <1>1 DEF Facing, Holds, RegistersHold, Kept

\* An instruction that only writes its first operand.
LEMMA WritesKept ==
    ASSUME NEW i, NEW s, NEW m, NEW K, Facing(i, s, m, K), Written(i) = {1},
           NEW dst, dst = i.ops[1], NEW w, IsWord(w), NEW n \in Writes(m, i, dst, w),
           IsReg(dst) => \E v : /\ Transfer(i, s) = SetReg(s, dst.reg, v)
                                /\ dst.reg \in PartiallyWritten(i) \/ KnownAs(v, w),
           IsMem(dst) => /\ Transfer(i, s) = ApplyStore(i, 1, s)
                         /\ PureDefinition(dst) => KnownAs(SourceValue(i, 1, s), w),
           IsReg(dst) \/ IsMem(dst) \/ StateBelow(Transfer(i, s), s)
    PROVE  Kept(i, s, n, K)
<1>1. 1 \in Written(i)
  OBVIOUS
<1>2. CASE IsReg(dst)
  <2>1. n = SetRegister(m, dst.reg, w)
    BY <1>2 DEF Writes, IsReg, IsMem
  <2> QED
    BY <1>1, <1>2, <2>1, SetRegisterKept
<1>3. CASE IsMem(dst)
  BY <1>1, <1>3, StoreKept
<1>4. CASE ~IsReg(dst) /\ ~IsMem(dst)
  <2>1. n = m
    BY <1>4 DEF Writes
  <2> QED
    BY <1>4, <2>1, NothingKept
<1> QED
  BY <1>2, <1>3, <1>4

-----------------------------------------------------------------------------
(* What the transfer of each form of instruction is *)

Binary == Moves \cup {"lea", "cmov", "add", "sub", "xor"}

\* The operands of an instruction that writes its first one.
LEMMA BinaryShape ==
    ASSUME NEW i, IsInstruction(i), Understood(i), i.mnem \in Binary
    PROVE  /\ Len(i.ops) = 2 /\ DOMAIN i.ops = {1, 2}
           /\ Written(i) = {1} /\ i.ops[1].written /\ ~i.ops[2].written
           /\ i.mnem # "call" /\ i.mnem # "push"
           /\ LocatorOf(i) = LocatorOfBinary(i.mnem, i.ops[1], i.ops[2])
<1>1. Len(i.ops) = 2 /\ Written(i) = {1}
  BY DEF Understood, Binary
<1>2. DOMAIN i.ops = 1..Len(i.ops)
  BY DEF IsInstruction
<1>3. DOMAIN i.ops = {1, 2}
  BY <1>1, <1>2
<1>4. i.ops[1].written /\ ~i.ops[2].written
  BY <1>1, <1>3 DEF Written
<1>5. i.mnem # "call" /\ i.mnem # "push"
  BY DEF Binary, Moves
<1> QED
  BY <1>1, <1>3, <1>4, <1>5 DEF LocatorOf

\* A load sets the register it is marked to write; to nothing known, unless it is
\* a pure definition and names a slot, and then to what the slot's cell holds.
LEMMA LoadSets ==
    ASSUME NEW i, IsInstruction(i), Written(i) = {1}, DOMAIN i.ops = {1, 2},
           NEW dst, dst = i.ops[1], NEW src, src = i.ops[2], IsReg(dst), IsMem(src),
           NEW m, NEW s, NEW K, SlotsHold(s, m, K),
           SlotOf(i, src) # <<>> => SlotOf(i, src)[1] \in K
    PROVE  \E v : /\ ApplyLoad(i, 2, s) = SetReg(s, dst.reg, v)
                  /\ \A w \in Reads(m, i, src) : KnownAs(v, w)
                  /\ IsKnown(v) => PureDefinition(dst) /\ SlotOf(i, src) # <<>>
<1> DEFINE dsts == {n \in DOMAIN i.ops : IsReg(i.ops[n]) /\ i.ops[n].written}
<1>1. dsts = {1}
  BY DEF Written
<1>2. Least(dsts) = 1
  BY <1>1, LeastIsLeast
<1> HIDE DEF dsts
<1>3. ApplyLoad(i, 2, s) =
        IF PureDefinition(dst) /\ SlotOf(i, src) # <<>>
          THEN SetReg(s, dst.reg, GetSlot(s, SlotOf(i, src)[1]))
          ELSE Forget(s, {dst.reg}, "UNSUPPORTED_INSTRUCTION")
  BY <1>1, <1>2 DEF ApplyLoad, dsts
<1>4. CASE PureDefinition(dst) /\ SlotOf(i, src) # <<>>
  <2>1. PICK k : k = SlotOf(i, src)[1]
    OBVIOUS
  <2>2. CellsOf(m, i, src) = {SlotCell(k)}
    BY <1>4, <2>1, NamedCell
  <2>3. Reads(m, i, src) = {Content(m, SlotCell(k))}
    BY <2>2 DEF Reads, IsReg, IsImm, IsMem
  <2>4. KnownAs(GetSlot(s, k), Content(m, SlotCell(k)))
    BY <1>4, <2>1 DEF SlotsHold, KnownAs
  <2> QED
    BY <1>3, <1>4, <2>1, <2>3, <2>4
<1>5. CASE ~(PureDefinition(dst) /\ SlotOf(i, src) # <<>>)
  <2>1. ApplyLoad(i, 2, s) = SetReg(s, dst.reg, Unknown("UNSUPPORTED_INSTRUCTION"))
    BY <1>3, <1>5 DEF Forget, SetReg
  <2>2. ~IsKnown(Unknown("UNSUPPORTED_INSTRUCTION"))
    BY DEF IsKnown, Unknown, Because
  <2> QED
    BY <2>1, <2>2, UnknownDenotes
<1> QED
  BY <1>4, <1>5

\* The transfer of an instruction that writes its first operand and that no
\* locator takes: by the shape of its operands.
LEMMA TransferByShape ==
    ASSUME NEW i, IsInstruction(i), Understood(i), i.mnem \in Binary, NEW s,
           NEW dst, dst = i.ops[1], NEW src, src = i.ops[2]
    PROVE  /\ IsMem(dst) => Transfer(i, s) = ApplyStore(i, 1, s)
           /\ LocatorOf(i) \notin ForwardLocators =>
                /\ IsReg(dst) /\ IsMem(src) => Transfer(i, s) = ApplyLoad(i, 2, s)
                /\ IsReg(dst) /\ ~IsMem(src) =>
                     Transfer(i, s) = SetReg(s, dst.reg, Unknown("UNSUPPORTED_INSTRUCTION"))
           /\ IsReg(dst) \/ IsMem(dst) \/ StateBelow(Transfer(i, s), s)
<1> DEFINE mems == {n \in DOMAIN i.ops : IsMem(i.ops[n])}
           stores == {n \in mems : i.ops[n].written}
<1>1. /\ DOMAIN i.ops = {1, 2} /\ i.ops[1].written /\ ~i.ops[2].written /\ i.mnem # "call"
      /\ Written(i) = {1}
  BY BinaryShape
<1>2. Transfer(i, s) =
        IF LocatorOf(i) \in ForwardLocators THEN ApplyLocator(i, s)
        ELSE IF stores # {} THEN ApplyStore(i, Greatest(stores), s)
        ELSE IF mems # {} THEN ApplyLoad(i, Greatest(mems), s)
        ELSE Forget(s, WrittenRegs(i), "UNSUPPORTED_INSTRUCTION")
  BY <1>1 DEF Transfer
<1>3. \A n \in Nat : Greatest({n}) = n
  BY GreatestIsGreatest
<1>4. LocatorOf(i) \in ForwardLocators => IsReg(dst)
  BY ForwardLocatorShape
<1>5. ASSUME IsMem(dst) PROVE Transfer(i, s) = ApplyStore(i, 1, s)
  <2>1. ~IsReg(dst)
    BY <1>5 DEF IsReg, IsMem
  <2>2. stores = {1}
    BY <1>1, <1>5
  <2> QED
    BY <1>2, <1>3, <1>4, <2>1, <2>2
<1>6. ASSUME LocatorOf(i) \notin ForwardLocators, IsReg(dst), IsMem(src)
      PROVE  Transfer(i, s) = ApplyLoad(i, 2, s)
  <2>1. stores = {} /\ mems = {2}
    BY <1>1, <1>6 DEF IsReg, IsMem
  <2> QED
    BY <1>2, <1>3, <1>6, <2>1
<1>7. ASSUME LocatorOf(i) \notin ForwardLocators, IsReg(dst), ~IsMem(src)
      PROVE  Transfer(i, s) = SetReg(s, dst.reg, Unknown("UNSUPPORTED_INSTRUCTION"))
  <2>1. stores = {} /\ mems = {}
    BY <1>1, <1>7 DEF IsReg, IsMem
  <2>2. WrittenRegs(i) = {dst.reg}
    BY <1>1, <1>7 DEF WrittenRegs
  <2> QED
    BY <1>2, <1>7, <2>1, <2>2 DEF Forget, SetReg
<1>8. ASSUME ~IsReg(dst), ~IsMem(dst) PROVE StateBelow(Transfer(i, s), s)
  <2>1. stores = {}
    BY <1>1, <1>8
  <2>2. {n \in DOMAIN i.ops : IsReg(i.ops[n]) /\ i.ops[n].written} = {}
    BY <1>1, <1>8
  <2>3. WrittenRegs(i) = {}
    BY <2>2 DEF WrittenRegs
  <2>4. ApplyLoad(i, Greatest(mems), s) = s
    BY <2>2 DEF ApplyLoad
  <2>5. Transfer(i, s) = s \/ Transfer(i, s) = Forget(s, {}, "UNSUPPORTED_INSTRUCTION")
    BY <1>2, <1>4, <1>8, <2>1, <2>3, <2>4
  <2>6. \A a : StateBelow(a, a)
    BY BelowIsPreorder
  <2> QED
    BY <2>5, <2>6, ReadAfterForget DEF StateBelow, Below
<1> QED
  BY <1>5, <1>6, <1>7, <1>8

-----------------------------------------------------------------------------
(* One lemma per kind of instruction *)

\* What a state knows of a register is true of it.
LEMMA RegisterKnown ==
    ASSUME NEW s, NEW m, NEW K, Holds(s, m, K), NEW r \in Reg
    PROVE  KnownAs(GetReg(s, r), m.regs[r])
  BY DEF Holds, RegistersHold, KnownAs

\* A constant is true of its number, whatever its kind.
LEMMA ConcreteDenotes == \A n, kind : KnownAs(Concrete(n, kind), Num(n))
  BY DEF KnownAs, Denotes, Concrete

\* What the engine takes a store's source to be is true of what is stored.
LEMMA SourceKnown ==
    ASSUME NEW i, IsInstruction(i), DOMAIN i.ops = {1, 2}, NEW s, NEW m, NEW K, Holds(s, m, K),
           NEW w \in Reads(m, i, i.ops[2])
    PROVE  KnownAs(SourceValue(i, 1, s), w)
<1> DEFINE src == i.ops[2]
<1>1. DOMAIN i.ops \ {1} = {2} /\ Least({2}) = 2
  BY LeastIsLeast
<1>2. SourceValue(i, 1, s) =
        IF IsReg(src) THEN GetReg(s, src.reg)
        ELSE IF IsImm(src) THEN Concrete(src.imm, "INT")
        ELSE Unknown("UNSUPPORTED_OPERAND_SHAPE")
  BY <1>1 DEF SourceValue
<1>3. CASE IsReg(src)
  <2>1. w = m.regs[src.reg] /\ src.reg \in Reg
    BY <1>3, OperandsAreWellFormed DEF Reads, IsReg, IsImm, IsMem
  <2> QED
    BY <1>2, <1>3, <2>1, RegisterKnown
<1>4. CASE IsImm(src)
  <2>1. w = Num(src.imm) /\ ~IsReg(src)
    BY <1>4 DEF Reads, IsReg, IsImm, IsMem
  <2> QED
    BY <1>2, <1>4, <2>1, ConcreteDenotes
<1>5. CASE ~IsReg(src) /\ ~IsImm(src)
  BY <1>2, <1>5, UnknownDenotes
<1> QED
  BY <1>3, <1>4, <1>5

\* mov and movzx.
LEMMA MoveKept ==
    ASSUME NEW i, NEW s, NEW m, NEW K, Facing(i, s, m, K), i.mnem \in Moves,
           NEW n \in Execute(i, m)
    PROVE  Kept(i, s, n, K)
<1> DEFINE dst == i.ops[1]
           src == i.ops[2]
<1>1. /\ IsInstruction(i) /\ Understood(i) /\ Holds(s, m, K) /\ IsMachine(m) /\ i.mnem \in Binary
      /\ i.mnem \in {"mov", "movzx"}
  BY DEF Facing, Binary, Moves
<1>2. /\ DOMAIN i.ops = {1, 2} /\ Written(i) = {1} /\ i.mnem # "call"
      /\ LocatorOf(i) = LocatorOfBinary(i.mnem, dst, src)
  BY <1>1, BinaryShape
<1>3. Execute(i, m) = UNION {Writes(m, i, dst, w) : w \in Reads(m, i, src)}
  BY <1>1 DEF Execute, Assign, Moves
<1>4. PICK w \in Reads(m, i, src) : n \in Writes(m, i, dst, w)
  BY <1>3
<1>5. src.kind = "REG" => src.reg \in Reg
  BY <1>1, <1>2, OperandsAreWellFormed DEF IsReg
<1>6. IsWord(w)
  BY <1>1, <1>5, ReadsAreWords DEF IsReg
<1>7. ASSUME IsReg(dst)
      PROVE  \E v : Transfer(i, s) = SetReg(s, dst.reg, v) /\ KnownAs(v, w)
  <2>1. CASE IsReg(src)
    <3>1. LocatorOf(i) = "mov_reg_reg"
      BY <1>1, <1>2, <1>7, <2>1 DEF LocatorOfBinary, Moves, IsReg, IsMem, IsImm
    <3>2. Transfer(i, s) = SetReg(s, dst.reg, GetReg(s, src.reg))
      BY <1>2, <3>1 DEF Transfer, ApplyLocator, ForwardLocators
    <3>3. w = m.regs[src.reg]
      BY <2>1 DEF Reads, IsReg, IsImm, IsMem
    <3> QED
      BY <1>1, <1>5, <2>1, <3>2, <3>3, RegisterKnown DEF IsReg
  <2>2. CASE IsImm(src) /\ i.mnem = "mov"
    <3>1. LocatorOf(i) = "mov_reg_imm"
      BY <1>1, <1>2, <1>7, <2>2 DEF LocatorOfBinary, Moves, IsReg, IsMem, IsImm
    <3>2. Transfer(i, s) = SetReg(s, dst.reg, Concrete(src.imm, "INT"))
      BY <1>2, <3>1 DEF Transfer, ApplyLocator, ForwardLocators
    <3>3. w = Num(src.imm)
      BY <2>2 DEF Reads, IsReg, IsImm, IsMem
    <3> QED
      BY <3>2, <3>3, ConcreteDenotes
  <2>3. CASE IsMem(src)
    <3>1. LocatorOf(i) = "mov_reg_mem"
      BY <1>1, <1>2, <1>7, <2>3 DEF LocatorOfBinary, Moves, IsReg, IsMem, IsImm
    <3>2. Transfer(i, s) = ApplyLoad(i, 2, s)
      BY <1>1, <1>7, <2>3, <3>1, TransferByShape DEF ForwardLocators
    <3>3. SlotsHold(s, m, K) /\ (SlotOf(i, src) # <<>> => SlotOf(i, src)[1] \in K)
      BY <1>2 DEF Facing, Holds
    <3> QED
      BY <1>1, <1>2, <1>7, <2>3, <3>2, <3>3, LoadSets
  <2>4. CASE ~IsReg(src) /\ ~IsMem(src) /\ ~(IsImm(src) /\ i.mnem = "mov")
    <3>1. LocatorOf(i) = "none"
      BY <1>1, <1>2, <1>7, <2>4 DEF LocatorOfBinary, Moves, IsReg, IsMem, IsImm
    <3> QED
      BY <1>1, <1>7, <2>4, <3>1, TransferByShape, UnknownDenotes DEF ForwardLocators
  <2> QED
    BY <2>1, <2>2, <2>3, <2>4
<1>8. IsMem(dst) => Transfer(i, s) = ApplyStore(i, 1, s) /\ KnownAs(SourceValue(i, 1, s), w)
  BY <1>1, <1>2, TransferByShape, SourceKnown
<1>9. IsReg(dst) \/ IsMem(dst) \/ StateBelow(Transfer(i, s), s)
  BY <1>1, TransferByShape
<1> QED
  BY <1>2, <1>4, <1>6, <1>7, <1>8, <1>9, WritesKept

\* Adding a constant to a value at the width of a word adds it to the word.
LEMMA AdjustedDenotes ==
    ASSUME NEW v \in Value, NEW w, KnownAs(v, w), NEW d \in Int, NEW kind
    PROVE  KnownAs(Adjusted(v, d, WordSize, kind), Plus(w, d))
<1>1. CASE v.tag = "Concrete"
  <2>1. PICK M : M = Modulus[WordSize]
    OBVIOUS
  <2>2. M \in Nat \ {0} /\ WordSize \in 1..8 /\ v.value \in Int
    BY <1>1, <2>1, WordModulus, ValueCases
  <2>3. w = Num(v.value)
    BY <1>1 DEF KnownAs, IsKnown, Denotes
  <2>4. PICK a : a = (v.value + d) % M
    OBVIOUS
  <2>5. Adjusted(v, d, WordSize, kind) = Concrete(a, kind)
    BY <1>1, <2>1, <2>2, <2>4 DEF Adjusted, IsUnknown, Wrap
  <2>6. Plus(w, d) = [base |-> <<"int", 0>>, off |-> ((v.value % M) + d) % M]
    BY <2>1, <2>3 DEF Plus, Num, Word
  <2>7. Num(a) = [base |-> <<"int", 0>>, off |-> a % M]
    BY <2>1 DEF Num, Word
  <2>8. ((v.value % M) + d) % M = a
    BY <2>2, <2>4, ModPlus
  <2>9. a % M = a
    <3>1. v.value + d \in Int
      BY <2>2
    <3> QED
      BY <2>2, <2>4, <3>1, ModTwice
  <2>10. Plus(w, d) = Num(a)
    BY <2>6, <2>7, <2>8, <2>9
  <2> QED
    BY <2>5, <2>10, ConcreteDenotes
<1>2. CASE v.tag # "Concrete"
  <2>1. ~IsKnown(Adjusted(v, d, WordSize, kind))
    BY <1>2 DEF Adjusted, IsKnown, IsUnknown, Unknown, Because
  <2> QED
    BY <2>1 DEF KnownAs
<1> QED
  BY <1>1, <1>2

\* Registers hold words.
LEMMA RegisterIsWord ==
    ASSUME NEW i, IsInstruction(i), NEW j \in DOMAIN i.ops, NEW op, op = i.ops[j],
           IsReg(op) \/ IsBased(op), NEW m, IsMachine(m)
    PROVE  op.reg \in Reg /\ IsWord(m.regs[op.reg]) /\ op.disp \in Int /\ op.imm \in Int
<1>1. op \in Operand /\ op.reg \in Reg
  BY OperandsAreWellFormed DEF IsReg, IsBased, Operand
<1> QED
  BY <1>1 DEF IsMachine, Operand

\* lea.
LEMMA LeaKept ==
    ASSUME NEW i, NEW s, NEW m, NEW K, Facing(i, s, m, K), i.mnem = "lea",
           NEW n \in Execute(i, m)
    PROVE  Kept(i, s, n, K)
<1> DEFINE dst == i.ops[1]
           src == i.ops[2]
<1>1. /\ IsInstruction(i) /\ Understood(i) /\ Holds(s, m, K) /\ IsMachine(m) /\ i.mnem \in Binary
      /\ IsReg(dst) /\ ~IsMem(dst) /\ IsState(s)
  BY DEF Facing, Binary, Moves, Understood, IsReg, IsMem
<1>2. /\ DOMAIN i.ops = {1, 2} /\ Written(i) = {1} /\ i.mnem # "call"
      /\ LocatorOf(i) = LocatorOfBinary(i.mnem, dst, src)
  BY <1>1, BinaryShape
<1>3. PICK w : w = EffectiveAddress(m, src)
  OBVIOUS
<1>4. n \in Writes(m, i, dst, w)
  BY <1>3 DEF Execute, Moves
<1>5. CASE src.kind = "MEM_DIRECT"
  <2>1. LocatorOf(i) = "lea_reg_addr"
    BY <1>1, <1>2, <1>5 DEF LocatorOfBinary, Moves, IsReg, IsMem, IsImm, IsBased
  <2>2. Transfer(i, s) = SetReg(s, dst.reg, Concrete(src.imm, "POINTER"))
    BY <1>2, <2>1 DEF Transfer, ApplyLocator, ForwardLocators
  <2>3. w = Num(src.imm)
    BY <1>3, <1>5 DEF EffectiveAddress, IsBased
  <2> QED
    BY <1>1, <1>2, <1>4, <2>2, <2>3, ConcreteDenotes, WordsAreWords, WritesKept
<1>6. CASE IsBased(src) /\ ~src.index
  <2>1. src.kind # "MEM_DIRECT"
    BY <1>6 DEF IsBased
  <2>2. LocatorOf(i) = "lea_reg_displ"
    BY <1>1, <1>2, <1>6, <2>1 DEF LocatorOfBinary, Moves, IsReg, IsMem, IsImm
  <2>3. PICK v : v = GetReg(s, src.reg)
    OBVIOUS
  <2>4. PICK a : a = Adjusted(v, src.disp, dst.size, "POINTER")
    OBVIOUS
  <2>5. Transfer(i, s) = SetReg(s, dst.reg, a)
    BY <1>2, <2>2, <2>3, <2>4 DEF Transfer, ApplyLocator, ForwardLocators
  <2>6. src.reg \in Reg /\ src.disp \in Int /\ IsWord(m.regs[src.reg])
    BY <1>1, <1>2, <1>6, RegisterIsWord
  <2>7. v \in Value /\ KnownAs(v, m.regs[src.reg])
    BY <1>1, <2>3, <2>6, ReadIsValue, RegisterKnown DEF GetReg
  <2>8. w = Plus(m.regs[src.reg], src.disp)
    BY <1>3, <1>6, <2>1 DEF EffectiveAddress
  <2>9. IsWord(w)
    BY <2>6, <2>8, WordsAreWords
  <2>10. dst.reg \in PartiallyWritten(i) \/ KnownAs(a, w)
    <3>1. CASE dst.size = WordSize
      BY <2>4, <2>6, <2>7, <2>8, <3>1, AdjustedDenotes
    <3>2. CASE ~RegisterView(dst.reg, dst.size).definesParent
      BY <1>1, <1>2, <3>2, PartIsForgotten
    <3> QED
      BY <1>1, <3>1, <3>2 DEF Understood
  <2> QED
    BY <1>1, <1>2, <1>4, <2>5, <2>9, <2>10, WritesKept
<1>7. CASE src.kind # "MEM_DIRECT" /\ ~(IsBased(src) /\ ~src.index)
  <2>1. LocatorOf(i) = "none"
    BY <1>1, <1>2, <1>7 DEF LocatorOfBinary, Moves, IsReg, IsMem, IsImm
  <2>2. SlotOf(i, src) = <<>>
    BY <1>7 DEF SlotOf
  <2>3. \E v : Transfer(i, s) = SetReg(s, dst.reg, v) /\ KnownAs(v, w)
    <3>1. CASE IsMem(src)
      <4>1. Transfer(i, s) = ApplyLoad(i, 2, s)
        BY <1>1, <2>1, <3>1, TransferByShape DEF ForwardLocators
      <4>2. SlotsHold(s, m, K)
        BY <1>1 DEF Holds
      <4>3. PICK v : ApplyLoad(i, 2, s) = SetReg(s, dst.reg, v) /\ ~IsKnown(v)
        BY <1>1, <1>2, <2>2, <3>1, <4>2, LoadSets
      <4> QED
        BY <4>1, <4>3 DEF KnownAs
    <3>2. CASE ~IsMem(src)
      BY <1>1, <2>1, <3>2, TransferByShape, UnknownDenotes DEF ForwardLocators
    <3> QED
      BY <3>1, <3>2
  <2>4. IsWord(w)
    BY <1>3, <1>7, WordsAreWords DEF EffectiveAddress
  <2> QED
    BY <1>1, <1>2, <1>4, <2>3, <2>4, WritesKept
<1> QED
  BY <1>5, <1>6, <1>7

\* add, sub and xor.
LEMMA ArithmeticKept ==
    ASSUME NEW i, NEW s, NEW m, NEW K, Facing(i, s, m, K), i.mnem \in {"add", "sub", "xor"},
           NEW n \in Execute(i, m)
    PROVE  Kept(i, s, n, K)
<1> DEFINE dst == i.ops[1]
           src == i.ops[2]
           folds == i.mnem \in {"add", "sub"} /\ IsReg(dst) /\ IsImm(src)
           zeroes == i.mnem \in {"xor", "sub"} /\ IsReg(dst) /\ IsReg(src) /\ dst.reg = src.reg
<1>1. /\ IsInstruction(i) /\ Understood(i) /\ Holds(s, m, K) /\ IsMachine(m) /\ i.mnem \in Binary
      /\ IsState(s) /\ ~PureDefinition(dst)
  BY DEF Facing, Binary, Understood, PureDefinition
<1>2. /\ DOMAIN i.ops = {1, 2} /\ Written(i) = {1} /\ i.mnem # "call"
      /\ LocatorOf(i) = LocatorOfBinary(i.mnem, dst, src)
  BY <1>1, BinaryShape
<1>3. PICK w \in Arithmetic(m, i, dst, src) : n \in Writes(m, i, dst, w)
  BY DEF Execute, Assign, Moves
<1>4. CASE folds
  <2>1. ~IsReg(src) /\ ~IsMem(src) /\ ~IsMem(dst)
    BY <1>4 DEF IsReg, IsImm, IsMem
  <2>2. LocatorOf(i) = "add_sub_reg_imm"
    BY <1>2, <1>4, <2>1 DEF LocatorOfBinary, Moves
  <2>3. PICK v, d : v = GetReg(s, dst.reg) /\ d = IF i.mnem = "add" THEN src.imm ELSE -src.imm
    OBVIOUS
  <2>4. PICK a : a = Adjusted(v, d, dst.size, "INT")
    OBVIOUS
  <2>5. Transfer(i, s) = SetReg(s, dst.reg, a)
    BY <1>2, <2>2, <2>3, <2>4 DEF Transfer, ApplyLocator, ForwardLocators
  <2>6. dst.reg \in Reg /\ IsWord(m.regs[dst.reg])
    BY <1>1, <1>2, <1>4, RegisterIsWord
  <2>7. d \in Int
    <3>1. src.imm \in Int
      BY <1>1, <1>2, OperandsAreWellFormed DEF Operand
    <3> QED
      BY <2>3, <3>1
  <2>8. v \in Value /\ KnownAs(v, m.regs[dst.reg])
    BY <1>1, <2>3, <2>6, ReadIsValue, RegisterKnown DEF GetReg
  <2>9. Arithmetic(m, i, dst, src) = {Plus(u, d) : u \in Reads(m, i, dst)}
    BY <1>4, <2>1, <2>3 DEF Arithmetic
  <2>10. Reads(m, i, dst) = {m.regs[dst.reg]}
    BY <1>4 DEF Reads, IsReg, IsImm, IsMem
  <2>11. w = Plus(m.regs[dst.reg], d)
    BY <1>3, <2>9, <2>10
  <2>12. IsWord(w)
    BY <2>6, <2>11, WordsAreWords
  <2>13. dst.reg \in PartiallyWritten(i) \/ KnownAs(a, w)
    <3>1. CASE dst.size = WordSize
      BY <2>4, <2>7, <2>8, <2>11, <3>1, AdjustedDenotes
    <3>2. CASE ~RegisterView(dst.reg, dst.size).definesParent
      BY <1>2, <1>4, <3>2, PartIsForgotten
    <3> QED
      BY <1>1, <1>4, <3>1, <3>2 DEF Understood
  <2> QED
    BY <1>2, <1>3, <1>4, <2>1, <2>5, <2>12, <2>13, WritesKept
<1>5. CASE zeroes
  <2>1. ~IsImm(src) /\ ~IsMem(src) /\ ~IsMem(dst)
    BY <1>5 DEF IsReg, IsImm, IsMem
  <2>2. LocatorOf(i) = "zero_idiom"
    BY <1>2, <1>5, <2>1 DEF LocatorOfBinary, Moves
  <2>3. Transfer(i, s) = SetReg(s, dst.reg, Concrete(0, "INT"))
    BY <1>2, <2>2 DEF Transfer, ApplyLocator, ForwardLocators
  <2>4. w = Num(0)
    BY <1>3, <1>5, <2>1 DEF Arithmetic
  <2> QED
    BY <1>2, <1>3, <1>5, <2>1, <2>3, <2>4, ConcreteDenotes, WordsAreWords, WritesKept
<1>6. CASE ~folds /\ ~zeroes
  <2>1. w = Junk
    BY <1>3, <1>6 DEF Arithmetic
  <2>2. IsReg(dst) => \E v : Transfer(i, s) = SetReg(s, dst.reg, v) /\ KnownAs(v, w)
    <3> SUFFICES ASSUME IsReg(dst)
                 PROVE  \E v : Transfer(i, s) = SetReg(s, dst.reg, v) /\ KnownAs(v, w)
      OBVIOUS
    <3>1. LocatorOf(i) = "none"
      BY <1>2, <1>6 DEF LocatorOfBinary, Moves
    <3>2. CASE IsMem(src)
      <4>1. Transfer(i, s) = ApplyLoad(i, 2, s)
        BY <1>1, <3>1, <3>2, TransferByShape DEF ForwardLocators
      <4>2. SlotsHold(s, m, K) /\ (SlotOf(i, src) # <<>> => SlotOf(i, src)[1] \in K)
        BY <1>2 DEF Facing, Holds
      <4>3. PICK v : ApplyLoad(i, 2, s) = SetReg(s, dst.reg, v) /\ ~IsKnown(v)
        BY <1>1, <1>2, <3>2, <4>2, LoadSets
      <4> QED
        BY <4>1, <4>3 DEF KnownAs
    <3>3. CASE ~IsMem(src)
      BY <1>1, <3>1, <3>3, TransferByShape, UnknownDenotes DEF ForwardLocators
    <3> QED
      BY <3>2, <3>3
  <2>3. /\ IsMem(dst) => Transfer(i, s) = ApplyStore(i, 1, s)
        /\ IsReg(dst) \/ IsMem(dst) \/ StateBelow(Transfer(i, s), s)
    BY <1>1, TransferByShape
  <2> QED
    BY <1>1, <1>2, <1>3, <2>1, <2>2, <2>3, WordsAreWords, WritesKept
<1> QED
  BY <1>4, <1>5, <1>6

\* cmov: the state says what holds of both outcomes.
LEMMA CmovKept ==
    ASSUME NEW i, NEW s, NEW m, NEW K, Facing(i, s, m, K), i.mnem = "cmov",
           NEW n \in Execute(i, m)
    PROVE  Kept(i, s, n, K)
<1> DEFINE dst == i.ops[1]
           src == i.ops[2]
<1>1. /\ IsInstruction(i) /\ Understood(i) /\ Holds(s, m, K) /\ IsMachine(m) /\ i.mnem \in Binary
      /\ IsReg(dst) /\ ~IsMem(dst) /\ IsReg(src) /\ ~IsImm(src) /\ ~IsMem(src) /\ IsState(s)
  BY DEF Facing, Binary, Moves, Understood, IsReg, IsMem, IsImm
<1>2. /\ DOMAIN i.ops = {1, 2} /\ Written(i) = {1} /\ i.mnem # "call"
      /\ LocatorOf(i) = LocatorOfBinary(i.mnem, dst, src)
  BY <1>1, BinaryShape
<1>3. LocatorOf(i) = "cmov_reg_reg"
  BY <1>1, <1>2 DEF LocatorOfBinary, Moves
<1>4. PICK d, v : d = GetReg(s, dst.reg) /\ v = GetReg(s, src.reg)
  OBVIOUS
<1>5. Transfer(i, s) = SetReg(s, dst.reg, Join(d, v))
  BY <1>2, <1>3, <1>4 DEF Transfer, ApplyLocator, ForwardLocators
<1>6. d \in Value /\ v \in Value
  BY <1>1, <1>4, ReadIsValue DEF GetReg
<1>7. IsKnown(Join(d, v)) => d = Join(d, v) /\ v = Join(d, v)
  BY <1>6, JoinIsScalarJoin, ScalarJoinNeverGuesses
<1>8. PICK w : w = m.regs[src.reg]
  OBVIOUS
<1>9. Reads(m, i, src) = {w}
  BY <1>1, <1>8 DEF Reads
<1>10. n = m \/ n \in Writes(m, i, dst, w)
  BY <1>1, <1>9 DEF Execute, Assign, Moves
<1>11. CASE n = m
  <2>1. ASSUME NEW r PROVE Below(GetReg(Transfer(i, s), r), GetReg(s, r))
    <3>1. GetReg(Transfer(i, s), r) = IF r = dst.reg THEN Join(d, v) ELSE GetReg(s, r)
      BY <1>5, ReadAfterSet
    <3> QED
      BY <1>4, <1>7, <3>1 DEF Below
  <2>2. ASSUME NEW k PROVE Below(GetSlot(Transfer(i, s), k), GetSlot(s, k))
    BY <1>5, ReadAfterSet DEF Below
  <2>3. StateBelow(Transfer(i, s), s)
    BY <2>1, <2>2 DEF StateBelow
  <2> QED
    BY <1>11, <2>3, NothingKept
<1>12. CASE n \in Writes(m, i, dst, w)
  <2>1. src.reg \in Reg /\ IsWord(w)
    BY <1>1, <1>2, <1>8, RegisterIsWord
  <2>2. KnownAs(v, w)
    BY <1>1, <1>4, <1>8, <2>1, RegisterKnown
  <2>3. KnownAs(Join(d, v), w)
    BY <1>7, <2>2 DEF KnownAs
  <2> QED
    BY <1>1, <1>2, <1>5, <1>12, <2>1, <2>3, WritesKept
<1> QED
  BY <1>10, <1>11, <1>12

\* xchg of two registers.
LEMMA XchgKept ==
    ASSUME NEW i, NEW s, NEW m, NEW K, Facing(i, s, m, K), i.mnem = "xchg",
           NEW n \in Execute(i, m)
    PROVE  Kept(i, s, n, K)
<1> DEFINE dst == i.ops[1]
           src == i.ops[2]
<1>1. /\ IsInstruction(i) /\ Understood(i) /\ Holds(s, m, K) /\ IsMachine(m) /\ Written(i) = {1, 2}
      /\ IsReg(dst) /\ ~IsMem(dst) /\ IsReg(src) /\ ~IsImm(src) /\ ~IsMem(src) /\ ~IsImm(dst)
  BY DEF Facing, Binary, Moves, Understood, IsReg, IsMem, IsImm
<1>2. 1 \in DOMAIN i.ops /\ 2 \in DOMAIN i.ops /\ Len(i.ops) = 2
  BY <1>1 DEF Written, IsInstruction
<1>3. LocatorOf(i) = "xchg_reg_reg"
  BY <1>1, <1>2 DEF LocatorOf, LocatorOfBinary, Moves
<1>4. PICK d, v : d = GetReg(s, dst.reg) /\ v = GetReg(s, src.reg)
  OBVIOUS
<1>5. Transfer(i, s) = SetReg(SetReg(s, dst.reg, v), src.reg, d)
  BY <1>3, <1>4 DEF Transfer, ApplyLocator, ForwardLocators
<1>6. PICK a, b : a = m.regs[dst.reg] /\ b = m.regs[src.reg]
  OBVIOUS
<1>7. /\ dst.reg \in Reg /\ src.reg \in Reg /\ IsWord(a) /\ IsWord(b)
      /\ KnownAs(d, a) /\ KnownAs(v, b)
  BY <1>1, <1>2, <1>4, <1>6, RegisterIsWord, RegisterKnown
<1>8. Reads(m, i, src) = {b} /\ Reads(m, i, dst) = {a}
  BY <1>1, <1>6 DEF Reads
<1>9. PICK x : x = SetRegister(m, dst.reg, b)
  OBVIOUS
<1>10. Assign(m, i, dst, {b}) = {x}
  BY <1>1, <1>9 DEF Assign, Writes
<1>11. n = SetRegister(x, src.reg, a)
  <2>1. Execute(i, m) = UNION {Assign(y, i, src, {a}) : y \in {x}}
    BY <1>8, <1>10 DEF Execute, Moves
  <2>2. Execute(i, m) = Assign(x, i, src, {a})
    BY <2>1
  <2> QED
    BY <1>1, <2>2 DEF Assign, Writes
<1>12. PICK P : P = PartiallyWritten(i)
  OBVIOUS
<1>13. /\ dst.reg \in Narrow => dst.reg \in P /\ SubRegister[dst.reg].parent \in P
       /\ src.reg \in Narrow => src.reg \in P /\ SubRegister[src.reg].parent \in P
  BY <1>1, <1>12, NarrowIsPart
<1>14. RegistersHold(s, m, P)
  BY <1>1 DEF Holds, RegistersHold
<1>15. RegistersHold(SetReg(s, dst.reg, v), x, P) /\ IsMachine(x) /\ x.mem = m.mem
  BY <1>1, <1>7, <1>9, <1>13, <1>14, SetRegisterHolds, AfterSetRegister
<1>16. RegistersHold(Transfer(i, s), n, P) /\ IsMachine(n) /\ n.mem = m.mem
  BY <1>5, <1>7, <1>11, <1>13, <1>15, SetRegisterHolds, AfterSetRegister
<1>17. \A k : GetSlot(Transfer(i, s), k) = GetSlot(s, k)
  BY <1>5, ReadAfterSet
<1>18. SlotsHold(Transfer(i, s), n, K)
  BY <1>1, <1>16, <1>17, SlotsHoldElsewhere DEF Holds
<1> QED
  BY <1>12, <1>16, <1>18 DEF Kept

\* An instruction that writes no operand and has no locator changes nothing the
\* engine tracks.
LEMMA NothingWritten ==
    ASSUME NEW i, Written(i) = {}, i.mnem # "call", LocatorOf(i) \notin ForwardLocators, NEW s
    PROVE  StateBelow(Transfer(i, s), s)
<1> DEFINE mems == {n \in DOMAIN i.ops : IsMem(i.ops[n])}
           stores == {n \in mems : i.ops[n].written}
<1>1. stores = {} /\ {n \in DOMAIN i.ops : IsReg(i.ops[n]) /\ i.ops[n].written} = {}
  BY DEF Written
<1>2. WrittenRegs(i) = {} /\ ApplyLoad(i, Greatest(mems), s) = s
  BY <1>1 DEF WrittenRegs, ApplyLoad
<1>3. Transfer(i, s) = s \/ Transfer(i, s) = Forget(s, {}, "UNSUPPORTED_INSTRUCTION")
  BY <1>1, <1>2 DEF Transfer
<1>4. \A a : StateBelow(a, a)
  BY BelowIsPreorder
<1> QED
  BY <1>3, <1>4, ReadAfterForget DEF StateBelow, Below

\* push, of whatever: its cell has no slot.
LEMMA PushKept ==
    ASSUME NEW i, NEW s, NEW m, NEW K, Facing(i, s, m, K), i.mnem = "push",
           NEW n \in Execute(i, m)
    PROVE  Kept(i, s, n, K)
<1>1. /\ IsInstruction(i) /\ Holds(s, m, K) /\ IsMachine(m) /\ Written(i) = {} /\ i.ops # <<>>
  BY DEF Facing, Understood, Binary, Moves
<1>2. 1 \in DOMAIN i.ops /\ Len(i.ops) >= 1
  BY <1>1 DEF IsInstruction
<1>3. LocatorOf(i) = "push"
  BY <1>2 DEF LocatorOf
<1>4. StateBelow(Transfer(i, s), s)
  BY <1>1, <1>3, NothingWritten DEF ForwardLocators
<1>5. Holds(Transfer(i, s), m, K)
  BY <1>1, <1>4, HoldsBelow
<1>6. PICK w \in Reads(m, i, i.ops[1]) : n = SetCell(m, PushCell(i), w)
  BY DEF Execute, Moves, PushCell
<1>7. IsWord(w)
  BY <1>1, <1>2, <1>6, OperandsAreWellFormed, ReadsAreWords
<1>8. IsMachine(n) /\ n.regs = m.regs
  BY <1>1, <1>6, <1>7, AfterSetCell
<1>9. SlotsHold(Transfer(i, s), n, K)
  BY <1>1, <1>5, <1>6, <1>7, OtherCellHolds DEF Facing, Holds
<1>10. RegistersHold(Transfer(i, s), n, PartiallyWritten(i))
  BY <1>5, <1>8 DEF Holds, RegistersHold
<1> QED
  BY <1>8, <1>9, <1>10 DEF Kept

\* Jumps.
LEMMA JumpKept ==
    ASSUME NEW i, NEW s, NEW m, NEW K, Facing(i, s, m, K), i.mnem = "jmp",
           NEW n \in Execute(i, m)
    PROVE  Kept(i, s, n, K)
<1>1. Written(i) = {}
  BY DEF Facing, Understood
<1>2. LocatorOf(i) = "none"
  BY DEF LocatorOf, LocatorOfBinary, Moves
<1>3. n = m
  BY DEF Execute, Moves
<1> QED
  BY <1>1, <1>2, <1>3, NothingWritten, NothingKept DEF ForwardLocators

\* Calls, which the engine trusts to leave the stack alone.
LEMMA CallKept ==
    ASSUME NEW i, NEW s, NEW m, NEW K, Facing(i, s, m, K), i.mnem = "call",
           RetReg \in WholeReg, NEW n \in Execute(i, m)
    PROVE  Kept(i, s, n, K)
<1>1. Holds(s, m, K) /\ IsMachine(m) /\ RetReg \in Reg /\ RetReg \notin Narrow
  BY DEF Facing, WholeReg
<1>2. PICK w, v : w = Word(<<"ret", i.ea>>, 0) /\ v = Symbolic(<<"ret", i.ea>>)
  OBVIOUS
<1>3. PICK u, x : /\ u = Forget(s, Clobbered, "INDIRECT_CONTROL_FLOW")
                  /\ x = Scramble(m, Clobbered)
  OBVIOUS
<1>4. Transfer(i, s) = SetReg(u, RetReg, v) /\ n = SetRegister(x, RetReg, w)
  BY <1>2, <1>3 DEF Transfer, ApplyCall, Execute, Moves
<1>5. IsWord(w) /\ KnownAs(v, w)
  BY <1>2, WordsAreWords DEF KnownAs, Denotes, Symbolic
<1>6. IsMachine(x) /\ x.mem = m.mem /\ \A q \in WholeReg \ Clobbered : x.regs[q] = m.regs[q]
  BY <1>1, <1>3, AfterScramble
<1>7. RegistersHold(u, x, PartiallyWritten(i))
  <2> SUFFICES ASSUME NEW q \in Reg, IsKnown(GetReg(u, q))
               PROVE  q \in WholeReg /\ Denotes(GetReg(u, q), x.regs[q])
    BY DEF RegistersHold
  <2>1. q \notin Clobbered /\ GetReg(u, q) = GetReg(s, q)
    BY <1>3, ReadAfterForget DEF IsKnown, Unknown, Because
  <2>2. q \in WholeReg /\ Denotes(GetReg(s, q), m.regs[q])
    BY <1>1, <2>1 DEF Holds, RegistersHold
  <2> QED
    BY <1>6, <2>1, <2>2
<1>8. RegistersHold(Transfer(i, s), n, PartiallyWritten(i))
  BY <1>1, <1>4, <1>5, <1>6, <1>7, SetRegisterHolds
<1>9. IsMachine(n) /\ n.mem = m.mem
  BY <1>1, <1>4, <1>5, <1>6, AfterSetRegister
<1>10. \A k : GetSlot(Transfer(i, s), k) = GetSlot(s, k)
  BY <1>3, <1>4, ReadAfterSet, ReadAfterForget
<1>11. SlotsHold(Transfer(i, s), n, K)
  BY <1>1, <1>9, <1>10, SlotsHoldElsewhere DEF Holds
<1> QED
  BY <1>8, <1>9, <1>11 DEF Kept

\* What an instruction nobody knows does to the machine.
LEMMA AfterUnforeseen ==
    ASSUME NEW m, IsMachine(m), NEW i, i.implicit = {}, NEW n, n = Unforeseen(m, i)
    PROVE  /\ IsMachine(n)
           /\ \A q \in WholeReg :
                 (\A j \in Written(i) : IsReg(i.ops[j]) =>
                     RegisterView(i.ops[j].reg, i.ops[j].size).parent # q) => n.regs[q] = m.regs[q]
           /\ \A c : (\A j \in Written(i) : IsMem(i.ops[j]) => c \notin CellsOf(m, i, i.ops[j]))
                        => Content(n, c) = Content(m, c)
<1> DEFINE written == {i.ops[k] : k \in {j \in DOMAIN i.ops : i.ops[j].written}}
           regs  == {RegisterView(op.reg, op.size).parent : op \in {o \in written : IsReg(o)}}
           cells == UNION {CellsOf(m, i, op) : op \in {o \in written : IsMem(o)}}
           mem   == [c \in DOMAIN m.mem \cup cells |-> IF c \in cells THEN Junk ELSE m.mem[c]]
<1>1. \A q \in regs : \E j \in Written(i) :
         IsReg(i.ops[j]) /\ RegisterView(i.ops[j].reg, i.ops[j].size).parent = q
  BY DEF Written
<1>2. \A c \in cells : \E j \in Written(i) : IsMem(i.ops[j]) /\ c \in CellsOf(m, i, i.ops[j])
  BY DEF Written
<1>3. PICK x : x = Scramble(m, i.implicit \cup regs)
  OBVIOUS
<1>4. /\ IsMachine(x) /\ x.mem = m.mem
      /\ \A q \in WholeReg \ regs : x.regs[q] = m.regs[q]
  <2>1. i.implicit \cup regs = regs
    OBVIOUS
  <2> HIDE DEF regs
  <2> QED
    BY <1>3, <2>1, AfterScramble
<1>5. n = [x EXCEPT !.mem = [c \in DOMAIN @ \cup cells |-> IF c \in cells THEN Junk ELSE @[c]]]
  BY <1>3 DEF Unforeseen
<1> HIDE DEF cells, regs
<1>6. n = [regs |-> x.regs, mem |-> mem]
  BY <1>4, <1>5 DEF IsMachine
<1>7. /\ DOMAIN mem = DOMAIN m.mem \cup cells
      /\ \A c \in DOMAIN m.mem \ cells : mem[c] = m.mem[c]
      /\ \A c \in DOMAIN mem : IsWord(mem[c])
  BY WordsAreWords DEF IsMachine
<1> HIDE DEF mem
<1>8. IsMachine(n)
  BY <1>4, <1>6, <1>7 DEF IsMachine
<1>9. ASSUME NEW c, c \notin cells
      PROVE  Content(n, c) = Content(m, c)
  BY <1>6, <1>7, <1>9 DEF Content
<1> QED
  BY <1>1, <1>2, <1>4, <1>6, <1>8, <1>9

\* The engine forgets the registers such an instruction writes, and what it
\* stores to.
LEMMA OtherKept ==
    ASSUME NEW i, NEW s, NEW m, NEW K, Facing(i, s, m, K), i.mnem = "other",
           NEW n \in Execute(i, m)
    PROVE  Kept(i, s, n, K)
<1> DEFINE mems == {j \in DOMAIN i.ops : IsMem(i.ops[j])}
           stores == {j \in mems : i.ops[j].written}
<1>1. /\ IsInstruction(i) /\ Understood(i) /\ Holds(s, m, K) /\ IsMachine(m) /\ i.implicit = {}
      /\ n = Unforeseen(m, i)
  BY DEF Facing, Understood, Execute, Moves
<1>2. Transfer(i, s) =
        IF stores # {} THEN ApplyStore(i, Greatest(stores), s)
        ELSE IF mems # {} THEN ApplyLoad(i, Greatest(mems), s)
        ELSE Forget(s, WrittenRegs(i), "UNSUPPORTED_INSTRUCTION")
  <2>1. LocatorOf(i) = "none"
    BY DEF LocatorOf, LocatorOfBinary, Moves
  <2> QED
    BY <2>1 DEF Transfer, ForwardLocators
<1>3. IsMachine(n)
  BY <1>1, AfterUnforeseen
<1>4. PICK P : P = PartiallyWritten(i)
  OBVIOUS
<1>5. ASSUME NEW q \in WholeReg \ P, q \notin WrittenRegs(i)
      PROVE  n.regs[q] = m.regs[q]
  <2>1. ASSUME NEW j \in Written(i), IsReg(i.ops[j])
        PROVE  RegisterView(i.ops[j].reg, i.ops[j].size).parent # q
    <3>1. i.ops[j].reg # q
      BY <1>5, <2>1 DEF WrittenRegs, Written
    <3>2. CASE i.ops[j].reg \in Narrow
      <4>1. ~RegisterView(i.ops[j].reg, i.ops[j].size).definesParent
        BY <3>2 DEF RegisterView, Narrow
      <4> QED
        BY <1>4, <1>5, <2>1, <4>1, PartIsForgotten
    <3>3. CASE i.ops[j].reg \notin Narrow
      <4>1. RegisterView(i.ops[j].reg, i.ops[j].size).parent = i.ops[j].reg
        BY <3>3 DEF RegisterView, Narrow
      <4> QED
        BY <3>1, <4>1
    <3> QED
      BY <3>2, <3>3
  <2> QED
    BY <1>1, <2>1, AfterUnforeseen
<1>6. CASE stores # {}
  <2>1. PICK j : j \in stores
    BY <1>6
  <2>2. Written(i) = {j} /\ i.ops[j].read /\ j \in DOMAIN i.ops
    BY <1>1, <2>1 DEF Understood, Written
  <2>3. stores = {j} /\ j \in Nat
    BY <1>1, <2>1, <2>2 DEF Written, IsInstruction
  <2>4. Transfer(i, s) = ApplyStore(i, j, s)
    <3>1. Greatest({j}) = j
      BY <2>3, GreatestIsGreatest
    <3> HIDE DEF mems
    <3> QED
      BY <1>2, <2>3, <3>1
  <2>5. PICK op : op = i.ops[j]
    OBVIOUS
  <2>6. /\ IsMem(op) /\ ~IsReg(op) /\ ~PureDefinition(op)
        /\ IsBased(op) /\ op.index => op.seg \/ op.reg \in {SpReg, FpReg}
        /\ SlotOf(i, op) # <<>> => SlotOf(i, op)[1] \in K
    BY <1>1, <2>1, <2>2, <2>5 DEF IsMem, IsReg, PureDefinition, Understood, Facing
  <2>7. \A c : c \notin CellsOf(m, i, op) => Content(n, c) = Content(m, c)
    BY <1>1, <2>2, <2>5, AfterUnforeseen
  <2>8. SlotsHold(ApplyStore(i, j, s), n, K)
    BY <1>1, <2>2, <2>5, <2>6, <2>7, StoreHolds DEF Facing, Holds
  <2>9. WrittenRegs(i) = {}
    BY <2>2, <2>5, <2>6 DEF WrittenRegs, Written
  <2>10. RegistersHold(ApplyStore(i, j, s), n, P)
    BY <1>1, <1>5, <2>9, StoreLeavesRegisters DEF Holds, RegistersHold
  <2> QED
    BY <1>3, <1>4, <2>4, <2>8, <2>10 DEF Kept
<1>7. CASE stores = {}
  <2>1. \/ Transfer(i, s) = Forget(s, WrittenRegs(i), "UNSUPPORTED_INSTRUCTION")
        \/ Transfer(i, s) = s /\ WrittenRegs(i) = {}
    <3>1. CASE mems = {}
      BY <1>2, <1>7, <3>1
    <3>2. CASE mems # {}
      <4> DEFINE dsts == {j \in DOMAIN i.ops : IsReg(i.ops[j]) /\ i.ops[j].written}
      <4>1. Transfer(i, s) = ApplyLoad(i, Greatest(mems), s)
        BY <1>2, <1>7, <3>2
      <4>2. PICK g : g = Greatest(mems)
        OBVIOUS
      <4>3. CASE dsts = {}
        BY <4>1, <4>3 DEF ApplyLoad, WrittenRegs
      <4>4. CASE dsts # {}
        <5>1. PICK j : j \in dsts
          BY <4>4
        <5>2. Written(i) = {j} /\ i.ops[j].read
          BY <1>1, <3>2, <5>1 DEF Understood, Written
        <5>3. dsts = {j} /\ j \in Nat
          BY <1>1, <5>1, <5>2 DEF Written, IsInstruction
        <5>4. Least({j}) = j
          BY <5>3, LeastIsLeast
        <5>5. WrittenRegs(i) = {i.ops[j].reg}
          BY <5>3 DEF WrittenRegs
        <5>6. ~PureDefinition(i.ops[j])
          BY <5>2 DEF PureDefinition
        <5>7. ApplyLoad(i, g, s) = Forget(s, {i.ops[j].reg}, "UNSUPPORTED_INSTRUCTION")
          BY <5>3, <5>4, <5>6 DEF ApplyLoad
        <5> QED
          BY <4>1, <4>2, <5>5, <5>7
      <4> QED
        BY <4>3, <4>4
    <3> QED
      BY <3>1, <3>2
  <2>2. /\ \A r : IsKnown(GetReg(Transfer(i, s), r)) =>
              r \notin WrittenRegs(i) /\ GetReg(Transfer(i, s), r) = GetReg(s, r)
        /\ \A k : GetSlot(Transfer(i, s), k) = GetSlot(s, k)
    BY <2>1, ReadAfterForget DEF IsKnown, Unknown, Because
  <2>3. RegistersHold(Transfer(i, s), n, P)
    BY <1>1, <1>5, <2>2 DEF Holds, RegistersHold
  <2>4. \A j \in Written(i) : ~IsMem(i.ops[j])
    BY <1>7 DEF Written
  <2>5. \A c : Content(n, c) = Content(m, c)
    BY <1>1, <2>4, AfterUnforeseen
  <2>6. SlotsHold(Transfer(i, s), n, K)
    BY <1>1, <2>2, <2>5 DEF Holds, SlotsHold
  <2> QED
    BY <1>3, <1>4, <2>3, <2>6 DEF Kept
<1> QED
  BY <1>6, <1>7

\* Whatever an instruction does to a machine, the state the engine computes for
\* after it is true of the result if the one before was true of the machine
\* (core/engine_forward.py, _step).
THEOREM StepHolds ==
    ASSUME NEW i, NEW s, NEW m, NEW K, Facing(i, s, m, K), RetReg \in WholeReg,
           NEW n \in Execute(i, m)
    PROVE  IsMachine(n) /\ Holds(StepEffect(i, s), n, K)
<1>1. i.mnem \in Moves \cup {"lea", "xchg", "cmov", "add", "sub", "xor", "push",
                             "call", "jmp", "other"}
  BY DEF Facing, IsInstruction, Mnemonic
<1>2. Kept(i, s, n, K)
  BY <1>1, MoveKept, LeaKept, XchgKept, CmovKept, ArithmeticKept, PushKept, CallKept,
     JumpKept, OtherKept
<1> QED
  BY <1>2, KeptHolds

-----------------------------------------------------------------------------
(* The analysis a known answer is read from *)

\* max_block_visits stopped no block.
Uncapped == \A b \in prog.blocks : visits[b] <= MaxBlockVisits

\* The last simulation of block b, instruction by instruction.
Ran(b, t) == IsRun(b, End(b), t) /\ t[1] = inStates[b] /\ t[End(b)] = outStates[b]

\* A block that is entered is simulated to its end.
EndedInv ==
    /\ phase \in {"start", "loop", "finish"} => DOMAIN inStates \subseteq DOMAIN outStates
    /\ phase = "simulate" => DOMAIN inStates \subseteq DOMAIN outStates \cup {at}

\* The walk begins at the entry block, which is entered with no more than the
\* argument.
EntryInv ==
    /\ DOMAIN inStates # {} => prog.entry \in DOMAIN inStates
    /\ prog.entry \in DOMAIN inStates => StateBelow(inStates[prog.entry], InitialState)

\* The final simulation repeats the last one of its block.
FinalInv ==
    phase = "finish" =>
      /\ query.block \in DOMAIN outStates /\ pc <= query.index
      /\ \E t : Ran(query.block, t) /\ st = t[pc]

\* A known answer is read from runs of all blocks that were reached, of which
\* each begins with no more than any edge into it carries.
Fixed ==
    /\ prog.entry \in DOMAIN outStates
    /\ StateBelow(inStates[prog.entry], InitialState)
    /\ \A b \in DOMAIN outStates : \E t :
          Ran(b, t) /\ (b = query.block => answer = GetReg(t[query.index], query.reg))
    /\ Uncapped =>
          \A p \in DOMAIN outStates : \A b \in Succs(p) \ {prog.entry} :
             b \in DOMAIN outStates /\ StateBelow(inStates[b], outStates[p])

FixedInv == phase = "done" /\ IsKnown(answer) => Fixed

EngineInv ==
    /\ TypeInv /\ UnsettledIsScheduled /\ WalkInv /\ DescendInv
    /\ EndedInv /\ EntryInv /\ FinalInv /\ FixedInv

\* A block is simulated to its end before the next one is taken up.
LEMMA EndedNext == EndedInv /\ [Next]_vars => EndedInv'
<1> SUFFICES ASSUME EndedInv, [Next]_vars
             PROVE  EndedInv'
  OBVIOUS
<1>1. CASE Enter
  BY <1>1 DEF Enter, Put, EndedInv
<1>2. CASE Leave
  BY <1>2 DEF Leave, Put, EndedInv
<1>3. CASE Step
  BY <1>3 DEF Step, EndedInv
<1>4. CASE UNCHANGED vars
  BY <1>4 DEF vars, EndedInv
<1>5. CASE Seed \/ PassOn \/ Finish
  BY <1>5 DEF Seed, PassOn, Finish, EndedInv
<1>6. CASE Reject \/ Exhaust \/ NotReached \/ Answer
  BY <1>6 DEF Reject, Exhaust, NotReached, Answer, EndedInv
<1> QED
  BY <1>1, <1>2, <1>3, <1>4, <1>5, <1>6 DEF Next

\* No other block can be entered first, and the entry block is entered with less
\* and less.
LEMMA EntryNext == TypeInv /\ DescendInv /\ EntryInv /\ [Next]_vars => EntryInv'
<1> SUFFICES ASSUME TypeInv, DescendInv, EntryInv, [Next]_vars
             PROVE  EntryInv'
  OBVIOUS
<1>1. CASE Enter
  <2>1. PICK b : b = Head(worklist)
    OBVIOUS
  <2>2. PICK v : v = NextVisit(b)
    OBVIOUS
  <2>3. PICK in : in = ComputedIn(b, v)
    OBVIOUS
  <2>4. /\ phase = "loop" /\ b \in prog.blocks /\ Verdict(b, v) = "simulate"
        /\ inStates' = Put(inStates, {b}, in) /\ UNCHANGED <<prog, query>>
    BY <1>1, <2>1, <2>2, <2>3, HeadIsBlock DEF Enter
  <2>5. /\ DOMAIN inStates' = DOMAIN inStates \cup {b} /\ inStates'[b] = in
        /\ \A c \in DOMAIN inStates : c # b => inStates'[c] = inStates[c]
    BY <2>4 DEF Put
  <2>6. DOMAIN outStates \subseteq DOMAIN inStates
    BY <2>4 DEF DescendInv, RunsInv
  <2>7. b = prog.entry \/ DOMAIN inStates # {}
    <3>1. v \in Int /\ MaxBlockVisits \in Int
      BY <2>2, <2>4, BoundsAssumption DEF TypeInv, TypeOK, NextVisit
    <3>2. b = prog.entry \/ Available(b) # {}
      BY <2>4, <3>1 DEF Verdict
    <3> QED
      BY <2>6, <3>2 DEF Available
  <2>8. prog.entry \in DOMAIN inStates'
    BY <2>5, <2>7 DEF EntryInv
  <2>9. CASE b # prog.entry
    BY <2>4, <2>5, <2>7, <2>9 DEF EntryInv, InitialState
  <2>10. CASE b = prog.entry
    <3>1. StateBelow(in, InitialState)
      <4>1. CASE b \in DOMAIN inStates
        <5>1. StateBelow(in, inStates[b])
          BY <1>1, <2>1, <2>2, <2>3, <4>1, EnterDescends
        <5> QED
          BY <2>10, <4>1, <5>1, BelowIsPreorder DEF EntryInv
      <4>2. CASE b \notin DOMAIN inStates
        <5>1. in = InitialState
          BY <2>3, <2>10, <4>2 DEF ComputedIn, JoinedIn
        <5> QED
          BY <5>1, BelowIsPreorder
      <4> QED
        BY <4>1, <4>2
    <3> QED
      BY <2>4, <2>5, <2>8, <2>10, <3>1 DEF EntryInv, InitialState
  <2> QED
    BY <2>9, <2>10
<1>2. CASE UNCHANGED <<prog, query, inStates>>
  BY <1>2 DEF EntryInv, InitialState
<1>3. Enter \/ UNCHANGED <<prog, query, inStates>>
  BY DEF Next, vars, Reject, Seed, PassOn, Step, Exhaust, Leave, NotReached, Finish, Answer
<1> QED
  BY <1>1, <1>2, <1>3

\* Instruction by instruction, the final simulation computes what the last one did.
LEMMA FinalNext == TypeInv /\ DescendInv /\ EndedInv /\ FinalInv /\ [Next]_vars => FinalInv'
<1> SUFFICES ASSUME TypeInv, DescendInv, EndedInv, FinalInv, [Next]_vars
             PROVE  FinalInv'
  OBVIOUS
<1>1. CASE Finish
  <2>1. /\ phase = "loop" /\ query.block \in DOMAIN inStates /\ pc' = 1
        /\ st' = inStates[query.block] /\ UNCHANGED <<prog, query, inStates, outStates>>
    BY <1>1 DEF Finish
  <2>2. query.block \in DOMAIN outStates
    BY <2>1 DEF EndedInv
  <2>3. PICK t : Ran(query.block, t)
    BY <2>1, <2>2 DEF DescendInv, RunsInv, Ran
  <2>4. query.index \in Nat \ {0}
    BY QueriesAssumption DEF TypeInv, WellTyped
  <2>5. st' = t[pc']
    BY <2>1, <2>3 DEF Ran
  <2>6. Ran(query.block, t)'
    BY <2>1, <2>3 DEF Ran, IsRun, End
  <2> QED
    BY <2>1, <2>2, <2>4, <2>5, <2>6 DEF FinalInv
<1>2. CASE Step /\ phase = "finish"
  <2>1. PICK b, n : b = query.block /\ n = pc
    OBVIOUS
  <2>2. /\ at = b /\ UNCHANGED <<prog, query, inStates, outStates>> /\ n <= query.index - 1
        /\ pc' = n + 1 /\ st' = StepEffect(prog.code[b][n], st)
    BY <1>2, <2>1 DEF Step, Limit, TypeInv, WellTyped
  <2>3. PICK t : Ran(b, t) /\ st = t[n]
    BY <1>2, <2>1 DEF FinalInv
  <2>4. n \in 1..Len(prog.code[b]) /\ b \in prog.blocks
    BY <1>2, <2>1, <2>2, StepIsInstruction DEF TypeInv, WellTyped
  <2>5. Len(prog.code[b]) \in Nat
    BY <2>4, CodeOfBlock DEF TypeInv, WellTyped
  <2>6. n \in 1..(End(b) - 1)
    BY <2>4, <2>5 DEF End
  <2>7. st' = t[pc']
    BY <2>2, <2>3, <2>6 DEF Ran, IsRun
  <2>8. Ran(b, t)'
    BY <2>2, <2>3 DEF Ran, IsRun, End
  <2>9. query.index \in Nat /\ n \in Int
    BY <2>4, QueriesAssumption DEF TypeInv, WellTyped
  <2>10. pc' <= query.index
    BY <2>2, <2>9
  <2>11. b \in DOMAIN outStates
    BY <1>2, <2>1 DEF FinalInv
  <2> QED
    BY <2>1, <2>2, <2>7, <2>8, <2>10, <2>11 DEF FinalInv
<1>3. CASE UNCHANGED vars
  BY <1>3 DEF vars, FinalInv, Ran, IsRun, End
<1>4. Finish \/ (Step /\ phase = "finish") \/ UNCHANGED vars \/ phase' # "finish"
  BY DEF Next, Reject, Seed, PassOn, Enter, Step, Exhaust, Leave, NotReached, Answer
<1> QED
  BY <1>1, <1>2, <1>3, <1>4 DEF FinalInv

\* When the answer is read the walk is over: every block it reached has run to
\* its end, and, unless one was given up, every edge is settled.
LEMMA AnswerFixes ==
    ASSUME EngineInv, Answer
    PROVE  Fixed'
<1>1. /\ phase = "finish" /\ answer' = GetReg(st, query.reg)
      /\ UNCHANGED <<prog, query, inStates, outStates, visits, worklist>>
  BY DEF Answer
<1>2. TypeInv /\ RunsInv /\ UnsettledIsScheduled /\ EndedInv /\ EntryInv
  BY <1>1 DEF EngineInv, DescendInv
<1>3. PICK t : Ran(query.block, t) /\ st = t[pc]
  BY <1>1 DEF EngineInv, FinalInv
<1>4. query.block \in DOMAIN outStates /\ pc <= query.index
  BY <1>1 DEF EngineInv, FinalInv
<1>5. pc = query.index
  <2>1. pc > query.index - 1
    BY <1>1 DEF Answer, Limit
  <2>2. query.index \in Nat /\ pc \in Int
    BY <1>1, <1>2, QueriesAssumption DEF TypeInv, TypeOK, WellTyped, Simulating
  <2> QED
    BY <1>4, <2>1, <2>2
<1>6. answer' = GetReg(t[query.index], query.reg)
  BY <1>1, <1>3, <1>5
<1>7. ASSUME NEW b \in DOMAIN outStates
      PROVE  \E u : Ran(b, u) /\ (b = query.block => answer' = GetReg(u[query.index], query.reg))
  <2>1. CASE b = query.block
    BY <1>3, <1>6, <2>1
  <2>2. CASE b # query.block
    BY <1>1, <1>2, <2>2 DEF RunsInv, Ran
  <2> QED
    BY <2>1, <2>2
<1>8. prog.entry \in DOMAIN outStates /\ StateBelow(inStates[prog.entry], InitialState)
  <2>1. DOMAIN inStates # {} /\ DOMAIN inStates \subseteq DOMAIN outStates
    BY <1>1, <1>2, <1>4 DEF RunsInv, EndedInv
  <2> QED
    BY <1>2, <2>1 DEF EntryInv
<1>9. ASSUME Uncapped, NEW p \in DOMAIN outStates, NEW b \in Succs(p) \ {prog.entry}
      PROVE  b \in DOMAIN outStates /\ StateBelow(inStates[b], outStates[p])
  <2>1. b \in prog.blocks
    BY <1>2, EdgeIsAvailable
  <2>2. visits[b] \in Int /\ MaxBlockVisits \in Int /\ visits[b] <= MaxBlockVisits
    BY <1>2, <1>9, <2>1, BoundsAssumption DEF TypeInv, TypeOK, Uncapped
  <2>3. worklist = <<>>
    BY <1>1 DEF EngineInv, WalkInv
  <2>4. DOMAIN worklist = {}
    BY <2>3
  <2>5. EdgeSettled(p, b)
    BY <1>1, <1>2, <2>2, <2>4 DEF UnsettledIsScheduled
  <2> QED
    BY <1>1, <1>2, <2>5, CoversIsBelow DEF EdgeSettled, EndedInv
<1>10. Fixed'
  <2>1. Uncapped' = Uncapped /\ InitialState' = InitialState /\ \A p : Succs(p)' = Succs(p)
    BY <1>1 DEF Uncapped, InitialState, Succs
  <2>2. \A b, u : Ran(b, u) => Ran(b, u)'
    BY <1>1 DEF Ran, IsRun, End
  <2>3. (\A b \in DOMAIN outStates : \E u :
           Ran(b, u) /\ (b = query.block => answer = GetReg(u[query.index], query.reg)))'
    BY <1>1, <1>7, <2>2
  <2>4. (Uncapped =>
           \A p \in DOMAIN outStates : \A b \in Succs(p) \ {prog.entry} :
             b \in DOMAIN outStates /\ StateBelow(inStates[b], outStates[p]))'
    BY <1>1, <1>9, <2>1
  <2> QED
    BY <1>1, <1>8, <2>1, <2>3, <2>4 DEF Fixed
<1> QED
  BY <1>10

\* Only Answer answers with something known.
LEMMA FixedNext == EngineInv /\ [Next]_vars => FixedInv'
<1> SUFFICES ASSUME EngineInv, [Next]_vars, phase' = "done", IsKnown(answer')
             PROVE  Fixed'
  BY DEF FixedInv
<1>1. CASE UNCHANGED vars
  <2>1. Fixed
    BY <1>1 DEF vars, EngineInv, FixedInv
  <2> QED
    BY <1>1, <2>1 DEF vars, Fixed, Uncapped, InitialState, Succs, Ran, IsRun, End
<1>2. CASE Reject \/ Exhaust \/ NotReached
  BY <1>2 DEF Reject, Exhaust, NotReached, IsKnown, Unknown, Because
<1>3. Answer \/ UNCHANGED vars \/ Reject \/ Exhaust \/ NotReached
  BY DEF Next, Seed, PassOn, Enter, Step, Simulating, Leave, Finish
<1> QED
  BY <1>1, <1>2, <1>3, AnswerFixes

\* The invariant of the analysis.
LEMMA EngineInit == Init => EngineInv
<1> SUFFICES ASSUME Init
             PROVE  EngineInv
  OBVIOUS
<1>1. TypeInv /\ UnsettledIsScheduled
  BY TypeInit, UnsettledInit
<1>2. DOMAIN inStates = {} /\ DOMAIN outStates = {} /\ phase = "start"
  BY DEF Init
<1>3. DescendInv /\ EntryInv
  BY <1>2 DEF DescendInv, RunsInv, FlowInv, EntryInv
<1>4. WalkInv /\ EndedInv /\ FinalInv /\ FixedInv
  BY <1>2 DEF WalkInv, EndedInv, FinalInv, FixedInv
<1> QED
  BY <1>1, <1>3, <1>4 DEF EngineInv

\* Every step of the analysis keeps it.
LEMMA EngineNext == EngineInv /\ [Next]_vars => EngineInv'
  BY TypeNext, UnsettledNext, WalkNext, DescendNext, EndedNext, EntryNext, FinalNext, FixedNext
     DEF EngineInv

-----------------------------------------------------------------------------
(* The execution beside the analysis *)

\* Where an execution starts.
StartCpu == [block |-> prog.entry, pc |-> 1, machine |-> EntryMachine(query.reg)]

\* An execution stands at an instruction of a block that was reached, on a machine
\* of which the analysis' state before that instruction is true.
Standing(c) ==
    /\ c = [block |-> c.block, pc |-> c.pc, machine |-> c.machine]
    /\ c.block \in DOMAIN outStates /\ c.pc \in 1..End(c.block)
    /\ IsMachine(c.machine)
    /\ \E t : /\ Ran(c.block, t)
              /\ c.block = query.block => answer = GetReg(t[query.index], query.reg)
              /\ Holds(t[c.pc], c.machine, SlotsOf(prog))

\* It is at the start, or it stands somewhere the analysis knows of.
CpuInv ==
    \/ cpu = StartCpu
    \/ Running /\ (Uncapped /\ Supported(prog, query) => Standing(cpu))

\* The start is such a place.
LEMMA StartStands ==
    ASSUME TypeInv, Fixed, Supported(prog, query)
    PROVE  Standing(StartCpu)
<1>1. PICK b, c : b = prog.entry /\ c = StartCpu
  OBVIOUS
<1>2. c.block = b /\ c.pc = 1 /\ c.machine = EntryMachine(query.reg)
      /\ c = [block |-> c.block, pc |-> c.pc, machine |-> c.machine]
  BY <1>1 DEF StartCpu
<1>3. b \in DOMAIN outStates /\ b \in prog.blocks
  BY <1>1 DEF Fixed, TypeInv, TypeOK
<1>4. 1 \in 1..End(b)
  BY <1>3, CodeOfBlock DEF End, TypeInv, WellTyped
<1>5. PICK t : Ran(b, t) /\ (b = query.block => answer = GetReg(t[query.index], query.reg))
  BY <1>3 DEF Fixed
<1>6. StateBelow(t[1], InitialState)
  BY <1>1, <1>5 DEF Fixed, Ran
<1>7. PICK K : K = SlotsOf(prog)
  OBVIOUS
<1>8. Holds(InitialState, EntryMachine(query.reg), K)
  BY EntryHolds DEF Supported
<1>9. Holds(t[1], c.machine, K)
  BY <1>2, <1>6, <1>8, HoldsBelow
<1>10. IsMachine(c.machine)
  BY <1>2, EntryIsMachine
<1> QED
  BY <1>1, <1>2, <1>3, <1>4, <1>5, <1>7, <1>9, <1>10 DEF Standing

\* A function's instruction, with the slots the function names.
LEMMA ProgramFaces ==
    ASSUME TypeInv, Supported(prog, query), NEW b \in prog.blocks,
           NEW n \in 1..Len(prog.code[b]), NEW i, i = prog.code[b][n],
           NEW s, IsState(s), NEW m, IsMachine(m), Holds(s, m, SlotsOf(prog))
    PROVE  Facing(i, s, m, SlotsOf(prog))
<1>1. IsInstruction(i)
  BY CodeOfBlock DEF TypeInv, WellTyped
<1>2. i \in InstructionsOf(prog)
  <2>1. IsProgram(prog)
    BY ProgramsAssumption DEF TypeInv, WellTyped
  <2>2. DOMAIN prog.code[b] = 1..Len(prog.code[b])
    BY <2>1 DEF IsProgram
  <2> QED
    BY <2>2 DEF InstructionsOf
<1>3. Understood(i)
  BY <1>2 DEF Supported
<1>4. ASSUME NEW j \in DOMAIN i.ops, SlotOf(i, i.ops[j]) # <<>>
      PROVE  SlotOf(i, i.ops[j])[1] \in SlotsOf(prog)
  BY <1>2, <1>4 DEF SlotsOf
<1>5. Separate(SlotsOf(prog)) /\ (i.mnem = "push" => \A k \in SlotsOf(prog) : SlotCell(k) # PushCell(i))
  BY <1>2 DEF Supported, SeparateCells, Separate
<1> QED
  BY <1>1, <1>3, <1>4, <1>5 DEF Facing

\* An instruction leads from such a place to the next ...
LEMMA ExecuteStands ==
    ASSUME TypeInv, Supported(prog, query), NEW c, Standing(c), c.pc <= Len(prog.code[c.block]),
           NEW m \in Execute(prog.code[c.block][c.pc], c.machine)
    PROVE  Standing([block |-> c.block, pc |-> c.pc + 1, machine |-> m])
<1>1. PICK b, n, i : b = c.block /\ n = c.pc /\ i = prog.code[b][n]
  OBVIOUS
<1>2. b \in prog.blocks /\ n \in 1..End(b) /\ b \in DOMAIN outStates /\ IsMachine(c.machine)
      /\ c = [block |-> b, pc |-> n, machine |-> c.machine]
  BY <1>1 DEF Standing, TypeInv, TypeOK
<1>3. Len(prog.code[b]) \in Nat
  BY <1>2, CodeOfBlock DEF TypeInv, WellTyped
<1>4. n \in 1..Len(prog.code[b]) /\ n \in 1..(End(b) - 1) /\ n + 1 \in 1..End(b)
  BY <1>1, <1>2, <1>3 DEF End
<1>5. PICK t : /\ Ran(b, t) /\ (b = query.block => answer = GetReg(t[query.index], query.reg))
               /\ Holds(t[n], c.machine, SlotsOf(prog))
  BY <1>1 DEF Standing
<1>6. IsState(t[n]) /\ t[n + 1] = StepEffect(i, t[n])
  BY <1>1, <1>2, <1>4, <1>5 DEF Ran, IsRun
<1>7. Facing(i, t[n], c.machine, SlotsOf(prog))
  BY <1>1, <1>2, <1>4, <1>5, <1>6, ProgramFaces
<1>8. m \in Execute(i, c.machine) /\ RetReg \in WholeReg
  BY <1>1 DEF Supported
<1>9. IsMachine(m) /\ Holds(t[n + 1], m, SlotsOf(prog))
  BY <1>6, <1>7, <1>8, StepHolds
<1>10. PICK d : d = [block |-> b, pc |-> n + 1, machine |-> m]
  OBVIOUS
<1>11. d.block = b /\ d.pc = n + 1 /\ d.machine = m
  BY <1>10
<1> QED
  BY <1>1, <1>2, <1>4, <1>5, <1>9, <1>10, <1>11 DEF Standing

\* ... and so does a branch.
LEMMA BranchStands ==
    ASSUME TypeInv, Fixed, Uncapped, Supported(prog, query), NEW c, Standing(c),
           c.pc > Len(prog.code[c.block]), NEW b \in Succs(c.block)
    PROVE  Standing([block |-> b, pc |-> 1, machine |-> c.machine])
<1>1. PICK p, m : p = c.block /\ m = c.machine
  OBVIOUS
<1>2. p \in prog.blocks /\ c.pc \in 1..End(p) /\ p \in DOMAIN outStates /\ IsMachine(m)
      /\ c = [block |-> p, pc |-> c.pc, machine |-> m]
  BY <1>1 DEF Standing, TypeInv, TypeOK
<1>3. Len(prog.code[p]) \in Nat
  BY <1>2, CodeOfBlock DEF TypeInv, WellTyped
<1>4. c.pc = End(p)
  BY <1>1, <1>2, <1>3 DEF End
<1>5. Holds(outStates[p], m, SlotsOf(prog))
  BY <1>1, <1>4 DEF Standing, Ran
<1>6. b # prog.entry /\ b \in Succs(p)
  BY <1>1, <1>2 DEF Supported, Succs
<1>7. b \in DOMAIN outStates /\ b \in prog.blocks /\ StateBelow(inStates[b], outStates[p])
  BY <1>2, <1>6 DEF Fixed, TypeInv, TypeOK
<1>8. 1 \in 1..End(b)
  BY <1>7, CodeOfBlock DEF End, TypeInv, WellTyped
<1>9. PICK t : Ran(b, t) /\ (b = query.block => answer = GetReg(t[query.index], query.reg))
  BY <1>7 DEF Fixed
<1>10. Holds(t[1], m, SlotsOf(prog))
  BY <1>5, <1>7, <1>9, HoldsBelow DEF Ran
<1>11. PICK d : d = [block |-> b, pc |-> 1, machine |-> m]
  OBVIOUS
<1>12. d.block = b /\ d.pc = 1 /\ d.machine = m
  BY <1>11
<1> QED
  BY <1>1, <1>2, <1>7, <1>8, <1>9, <1>10, <1>11, <1>12 DEF Standing

\* An execution that has left the start follows a known answer.
LEMMA ExecutionStands ==
    ASSUME TypeInv, FixedInv, CpuInv, Running, Uncapped, Supported(prog, query)
    PROVE  Fixed /\ Standing(cpu)
<1>1. Fixed
  BY DEF FixedInv, Running
<1> QED
  BY <1>1, StartStands DEF CpuInv

\* Every step of the execution leads to such a place; the analysis leaves it at
\* the start.
LEMMA CpuNext == EngineInv /\ CpuInv /\ [SoundNext]_allVars => CpuInv'
<1> SUFFICES ASSUME EngineInv, CpuInv, [SoundNext]_allVars
             PROVE  CpuInv'
  OBVIOUS
<1>1. TypeInv /\ FixedInv
  BY DEF EngineInv
<1>2. ASSUME UNCHANGED vars
      PROVE  /\ StartCpu' = StartCpu /\ Running' = Running /\ Uncapped' = Uncapped
             /\ Supported(prog, query)' = Supported(prog, query)
             /\ \A c : Standing(c) => Standing(c)'
  <2>1. StartCpu' = StartCpu /\ Running' = Running /\ Uncapped' = Uncapped
    BY <1>2 DEF vars, StartCpu, Running, Uncapped
  <2>2. Supported(prog, query)' = Supported(prog, query)
    BY <1>2 DEF vars
  <2>3. \A c : Standing(c) => Standing(c)'
    BY <1>2 DEF vars, Standing, Ran, IsRun, End
  <2> QED
    BY <2>1, <2>2, <2>3
<1>3. CASE Analyse
  <2>1. ~Running /\ UNCHANGED <<prog, query, cpu>>
    BY <1>3 DEF Analyse, Next, Running, Reject, Seed, PassOn, Enter, Step, Simulating, Exhaust,
                Leave, NotReached, Finish, Answer
  <2> QED
    BY <2>1 DEF CpuInv, StartCpu
<1>4. CASE ExecuteOne
  <2>1. Running /\ UNCHANGED vars /\ cpu.pc <= Len(prog.code[cpu.block])
    BY <1>4 DEF ExecuteOne
  <2>2. PICK m \in Execute(prog.code[cpu.block][cpu.pc], cpu.machine) :
               cpu' = [block |-> cpu.block, pc |-> cpu.pc + 1, machine |-> m]
    BY <1>4 DEF ExecuteOne
  <2>3. ASSUME Uncapped, Supported(prog, query)
        PROVE  Standing(cpu')
    BY <1>1, <2>1, <2>2, <2>3, ExecutionStands, ExecuteStands
  <2>4. Running' /\ ((Uncapped /\ Supported(prog, query))' => Standing(cpu)')
    BY <1>2, <2>1, <2>3 DEF Standing, Ran, IsRun, End, vars
  <2> QED
    BY <2>4 DEF CpuInv
<1>5. CASE Branch
  <2>1. Running /\ UNCHANGED vars /\ cpu.pc > Len(prog.code[cpu.block])
    BY <1>5 DEF Branch
  <2>2. PICK b \in Succs(cpu.block) : cpu' = [block |-> b, pc |-> 1, machine |-> cpu.machine]
    BY <1>5 DEF Branch
  <2>3. ASSUME Uncapped, Supported(prog, query)
        PROVE  Standing(cpu')
    BY <1>1, <2>1, <2>2, <2>3, ExecutionStands, BranchStands
  <2>4. Running' /\ ((Uncapped /\ Supported(prog, query))' => Standing(cpu)')
    BY <1>2, <2>1, <2>3 DEF Standing, Ran, IsRun, End, vars
  <2> QED
    BY <2>4 DEF CpuInv
<1>6. CASE UNCHANGED allVars
  BY <1>2, <1>6 DEF allVars, CpuInv
<1> QED
  BY <1>3, <1>4, <1>5, <1>6 DEF SoundNext

\* The forward engine never guesses (core/merge.py:3-7): in a function of which
\* it looks at every effect, and unless max_block_visits gave a block up, a known
\* answer is what the register holds whenever an execution comes to the queried
\* address, along whatever path and however often.
THEOREM ForwardNeverGuesses ==
    SoundSpec =>
      []((Supported(prog, query) /\ \A b \in prog.blocks : visits[b] <= MaxBlockVisits)
            => NeverGuess)
<1> DEFINE Inv == EngineInv /\ CpuInv
           Sound == (Supported(prog, query) /\ \A b \in prog.blocks : visits[b] <= MaxBlockVisits)
                       => NeverGuess
<1>1. SoundInit => Inv
  BY EngineInit DEF SoundInit, CpuInv, StartCpu
<1>2. Inv /\ [SoundNext]_allVars => Inv'
  <2>1. [SoundNext]_allVars => [Next]_vars
    BY DEF SoundNext, Analyse, ExecuteOne, Branch, allVars
  <2> QED
    BY <2>1, EngineNext, CpuNext
<1>3. Inv => Sound
  <2> SUFFICES ASSUME Inv, Supported(prog, query), Uncapped,
                      Running, cpu.block = query.block, cpu.pc = query.index
               PROVE  Denotes(answer, cpu.machine.regs[query.reg])
    BY DEF NeverGuess, Uncapped
  <2>1. Standing(cpu)
    BY ExecutionStands DEF EngineInv
  <2>3. PICK t : answer = GetReg(t[query.index], query.reg)
                 /\ Holds(t[query.index], cpu.machine, SlotsOf(prog))
    BY <2>1 DEF Standing
  <2>4. query.reg \in Reg
    BY DEF Supported, WholeReg
  <2> QED
    BY <2>3, <2>4 DEF Holds, RegistersHold, Running
<1> QED
  BY <1>1, <1>2, <1>3, PTL DEF SoundSpec

=============================================================================
