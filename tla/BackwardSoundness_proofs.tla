---------------------- MODULE BackwardSoundness_proofs ----------------------
(****************************************************************************)
(* The backward resolver never guesses: for every set of supported          *)
(* functions and queries, every processor, image of the database and        *)
(* budget, whatever path is executed and however often.                     *)
(****************************************************************************)
EXTENDS BackwardSoundness, BackwardResolver_proofs

\* A word counts some bit patterns.
LEMMA WordModulus == Modulus[WordSize] \in Nat \ {0} /\ WordSize \in 1..8
  BY WidthAssumption

-----------------------------------------------------------------------------
(* Machines *)

\* The words there are, and the machines they make up.
Bases == Expr \cup {<<"int", 0>>, <<"junk", 0>>, <<"stack", 0>>}
Words == [base : Bases, off : Int]
Memories == UNION {[D -> Words] : D \in SUBSET Words}
Machines == [regs : [Reg -> Words], mem : Memories]

\* Numbers, cells of the stack, results of calls and sums are words.
LEMMA WordsAreMade ==
    /\ Junk \in Words
    /\ \A n \in Int : Num(n) \in Words /\ StackCell(n) \in Words
    /\ \A ea \in Int : Word(<<"ret", ea>>, 0) \in Words
    /\ \A w \in Words, n \in Int : Plus(w, n) \in Words
<1>1. \A n \in Int : n % Modulus[WordSize] \in Int
  <2> TAKE n \in Int
  <2>1. PICK M \in Nat \ {0} : M = Modulus[WordSize]
    BY WordModulus
  <2>2. n % M \in Int
    OBVIOUS
  <2> QED
    BY <2>1, <2>2
<1>2. \A b \in Bases, n \in Int : Word(b, n) \in Words
  BY <1>1 DEF Word, Words
<1>3. \A ea \in Int : <<"ret", ea>> \in Bases
  BY DEF Bases, Expr
<1>4. <<"int", 0>> \in Bases /\ <<"junk", 0>> \in Bases /\ <<"stack", 0>> \in Bases
  BY DEF Bases
<1>5. \A w \in Words, n \in Int : Plus(w, n) \in Words
  <2> TAKE w \in Words, n \in Int
  <2>1. w.base \in Bases /\ w.off + n \in Int
    BY DEF Words
  <2> QED
    BY <1>2, <2>1 DEF Plus
<1>6. Junk \in Words /\ \A n \in Int : Num(n) \in Words
  BY <1>2, <1>4 DEF Junk, Num
<1>7. \A n \in Int : StackCell(n) \in Words
  BY <1>4 DEF StackCell, Words
<1> QED
  BY <1>2, <1>3, <1>5, <1>6, <1>7

\* A number of the size of a word is not changed by being put in one.
LEMMA SmallNumber ==
    ASSUME NEW a \in 0..(Modulus[WordSize] - 1)
    PROVE  Num(a) = [base |-> <<"int", 0>>, off |-> a]
<1>1. PICK M \in Nat \ {0} : M = Modulus[WordSize]
  BY WordModulus
<1>2. a % M = a
  BY <1>1
<1> QED
  BY <1>1, <1>2 DEF Num, Word

\* Adding to a number gives the sum.
LEMMA PlusNum ==
    ASSUME NEW a \in Int, NEW d \in Int
    PROVE  Plus(Num(a), d) = Num(a + d)
<1>1. PICK M \in Nat \ {0} : M = Modulus[WordSize]
  BY WordModulus
<1>2. ((a % M) + d) % M = (a + d) % M
  BY ModPlus
<1> QED
  BY <1>1, <1>2 DEF Plus, Num, Word

\* A machine is its registers and its memory.
LEMMA MachineIsRecord == \A m \in Machines : m = [regs |-> m.regs, mem |-> m.mem]
  BY DEF Machines

\* The parts of a machine.
LEMMA MachineParts ==
    ASSUME NEW m \in Machines
    PROVE  /\ m = [regs |-> m.regs, mem |-> m.mem]
           /\ m.regs \in [Reg -> Words] /\ \A r \in Reg : m.regs[r] \in Words
           /\ m.mem = [c \in DOMAIN m.mem |-> m.mem[c]]
           /\ DOMAIN m.mem \subseteq Words /\ \A c \in DOMAIN m.mem : m.mem[c] \in Words
<1>1. PICK D \in SUBSET Words : m.mem \in [D -> Words]
  BY DEF Machines, Memories
<1>2. m = [regs |-> m.regs, mem |-> m.mem] /\ m.regs \in [Reg -> Words]
  BY DEF Machines
<1> QED
  BY <1>1, <1>2

\* A machine is made of registers and cells.
LEMMA MachineIsMade ==
    ASSUME NEW regs \in [Reg -> Words], NEW D \in SUBSET Words, NEW mem \in [D -> Words]
    PROVE  [regs |-> regs, mem |-> mem] \in Machines
<1>1. mem \in Memories
  BY DEF Memories
<1> QED
  BY <1>1 DEF Machines

\* A function is entered with nothing of interest in the registers, and no cell
\* written yet.
LEMMA EntryIsMachine ==
    /\ EntryMachine(NoReg) \in Machines
    /\ \A r \in Reg : EntryMachine(NoReg).regs[r] = Junk
    /\ DOMAIN EntryMachine(NoReg).mem = {}
<1>1. PICK regs : regs = [r \in Reg |-> IF r = NoReg THEN Word(<<"arg", 0>>, 0) ELSE Junk]
  OBVIOUS
<1>2. EntryMachine(NoReg) = [regs |-> regs, mem |-> <<>>]
  BY <1>1 DEF EntryMachine
<1>3. \A r \in Reg : regs[r] = Junk
  BY <1>1, RegistersAssumption
<1>4. regs \in [Reg -> Words]
  BY <1>1, <1>3, WordsAreMade
<1>5. <<>> \in [{} -> Words] /\ DOMAIN <<>> = {}
  OBVIOUS
<1>6. [regs |-> regs, mem |-> <<>>] \in Machines
  BY <1>4, <1>5, MachineIsMade
<1> QED
  BY <1>2, <1>3, <1>5, <1>6

\* What a cell holds is a word.
LEMMA ContentIsWord ==
    ASSUME NEW m \in Machines, NEW c
    PROVE  Content(m, c) \in Words
<1>1. c \in DOMAIN m.mem => m.mem[c] \in Words
  BY MachineParts
<1>2. c.off \in DOMAIN Loaded => Num(Loaded[c.off]) \in Words
  BY LoadedAssumption, ImageAssumption, WordsAreMade
<1> QED
  BY <1>1, <1>2, WordsAreMade DEF Content

\* What an operand may hold is a word.
LEMMA ReadsAreWords ==
    ASSUME NEW m \in Machines, NEW i, NEW op, IsReg(op) => op.reg \in Reg, op.imm \in Int,
           NEW w \in Reads(m, i, op)
    PROVE  w \in Words
<1>1. CASE IsReg(op)
  BY <1>1, MachineParts DEF Reads, IsReg, IsImm, IsMem
<1>2. CASE IsImm(op)
  BY <1>2, WordsAreMade DEF Reads, IsReg, IsImm, IsMem
<1>3. CASE IsMem(op)
  <2>1. w = Junk \/ \E c : w = Content(m, c)
    BY <1>3 DEF Reads, IsReg, IsImm, IsMem
  <2> QED
    BY <2>1, ContentIsWord, WordsAreMade
<1>4. CASE ~IsReg(op) /\ ~IsImm(op) /\ ~IsMem(op)
  BY <1>4, WordsAreMade DEF Reads
<1> QED
  BY <1>1, <1>2, <1>3, <1>4

\* What setting a register does.
LEMMA AfterSetRegister ==
    ASSUME NEW m \in Machines, NEW r \in Reg, NEW w \in Words
    PROVE  /\ SetRegister(m, r, w) \in Machines
           /\ SetRegister(m, r, w).regs[r] = w
           /\ SetRegister(m, r, w).mem = m.mem
           /\ \A q \in WholeReg :
                 q = r \/ SetRegister(m, r, w).regs[q] = m.regs[q]
                   \/ (r \in Narrow /\ q = SubRegister[r].parent)
           /\ \A q \in Reg : q = r \/ SetRegister(m, r, w).regs[q] \in {Junk, m.regs[q]}
<1> DEFINE parent(q) == IF q \in Narrow THEN SubRegister[q].parent ELSE q
           overlaps(q) == parent(q) = parent(r) /\ ~(q \in Narrow /\ r \in Narrow)
           regs == [q \in Reg |-> IF q = r THEN w ELSE IF overlaps(q) THEN Junk ELSE m.regs[q]]
<1>1. SetRegister(m, r, w) = [regs |-> regs, mem |-> m.mem]
  BY MachineIsRecord DEF SetRegister
<1>2. regs \in [Reg -> Words]
  BY WordsAreMade, MachineParts
<1>3. regs[r] = w /\ \A q \in Reg : q = r \/ regs[q] \in {Junk, m.regs[q]}
  OBVIOUS
<1>4. ASSUME NEW q \in WholeReg, q # r, ~(r \in Narrow /\ q = SubRegister[r].parent)
      PROVE  regs[q] = m.regs[q]
  <2>1. q \in Reg /\ ~overlaps(q)
    BY <1>4 DEF WholeReg
  <2> QED
    BY <1>4, <2>1
<1>5. PICK D \in SUBSET Words : m.mem \in [D -> Words]
  BY MachineParts
<1> HIDE DEF regs
<1>6. [regs |-> regs, mem |-> m.mem] \in Machines
  BY <1>2, <1>5, MachineIsMade
<1> QED
  BY <1>1, <1>3, <1>4, <1>6

\* What storing in a cell does.
LEMMA AfterSetCell ==
    ASSUME NEW m \in Machines, NEW c \in Words, NEW w \in Words
    PROVE  /\ SetCell(m, c, w) \in Machines
           /\ SetCell(m, c, w).regs = m.regs
           /\ DOMAIN SetCell(m, c, w).mem = DOMAIN m.mem \cup {c}
           /\ \A x : Content(SetCell(m, c, w), x) = IF x = c THEN w ELSE Content(m, x)
<1> DEFINE mem == [x \in DOMAIN m.mem \cup {c} |-> IF x = c THEN w ELSE m.mem[x]]
<1>1. SetCell(m, c, w) = [regs |-> m.regs, mem |-> mem]
  BY MachineIsRecord DEF SetCell
<1>2. mem \in [DOMAIN m.mem \cup {c} -> Words]
  BY MachineParts
<1>3. /\ DOMAIN mem = DOMAIN m.mem \cup {c} /\ mem[c] = w
      /\ \A x \in DOMAIN m.mem : x # c => mem[x] = m.mem[x]
  OBVIOUS
<1> HIDE DEF mem
<1>4. DOMAIN m.mem \cup {c} \in SUBSET Words
  BY MachineParts
<1>5. [regs |-> m.regs, mem |-> mem] \in Machines
  BY <1>2, <1>4, MachineParts, MachineIsMade
<1>6. ASSUME NEW x
      PROVE  Content(SetCell(m, c, w), x) = IF x = c THEN w ELSE Content(m, x)
  BY <1>1, <1>3 DEF Content
<1> QED
  BY <1>1, <1>3, <1>5, <1>6

\* Scrambling destroys registers and what is a part of them, and nothing else.
LEMMA AfterScramble ==
    ASSUME NEW m \in Machines, NEW R
    PROVE  /\ Scramble(m, R) \in Machines
           /\ Scramble(m, R).mem = m.mem
           /\ \A q \in WholeReg \ R : Scramble(m, R).regs[q] = m.regs[q]
           /\ \A q \in Reg : Scramble(m, R).regs[q] \in {Junk, m.regs[q]}
<1> DEFINE regs == [r \in Reg |-> IF r \in R \/ (r \in Narrow /\ SubRegister[r].parent \in R)
                                    THEN Junk ELSE m.regs[r]]
<1>1. Scramble(m, R) = [regs |-> regs, mem |-> m.mem]
  BY MachineIsRecord DEF Scramble
<1>2. regs \in [Reg -> Words]
  BY WordsAreMade, MachineParts
<1>3. /\ \A q \in WholeReg \ R : regs[q] = m.regs[q]
      /\ \A q \in Reg : regs[q] \in {Junk, m.regs[q]}
  BY DEF WholeReg
<1>4. PICK D \in SUBSET Words : m.mem \in [D -> Words]
  BY MachineParts
<1> HIDE DEF regs
<1>5. [regs |-> regs, mem |-> m.mem] \in Machines
  BY <1>2, <1>4, MachineIsMade
<1> QED
  BY <1>1, <1>3, <1>5


-----------------------------------------------------------------------------
(* What an instruction leaves alone *)

\* The whole registers an instruction writes a part of.
Touched(i) ==
    {RegisterView(i.ops[k].reg, i.ops[k].size).parent : k \in {j \in Written(i) : IsReg(i.ops[j])}}

\* The cells a supported store may go to, whatever the registers hold, and all
\* that an instruction may store to.
NamedCells(i, op) ==
    IF op.seg THEN {} ELSE IF ~IsBased(op) THEN {Num(op.imm)}
    ELSE IF op.index THEN {StackCell(n) : n \in Cells}
    ELSE {StackCell(op.disp + IF op.reg = SpReg THEN i.delta[1] ELSE FpOffset)}
PushedTo(i) == IF i.mnem = "push" THEN {StackCell(i.delta[1] - WordSize)} ELSE {}
Stored(i) ==
    PushedTo(i) \cup UNION {NamedCells(i, i.ops[k]) : k \in {j \in Written(i) : IsMem(i.ops[j])}}

\* An instruction may lead from machine m to n as far as these sets say.
Frame(i, m, n) ==
    /\ n \in Machines
    /\ \A r \in WholeReg \ Touched(i) : n.regs[r] = m.regs[r]
    /\ DOMAIN m.mem \subseteq DOMAIN n.mem /\ DOMAIN n.mem \subseteq DOMAIN m.mem \cup Stored(i)
    /\ \A c : c \notin Stored(i) => Content(n, c) = Content(m, c)

\* Doing nothing is within the frame, and so are two steps within it.
LEMMA FrameCompose ==
    ASSUME NEW i, NEW m \in Machines
    PROVE  /\ Frame(i, m, m)
           /\ \A n, k : Frame(i, m, n) /\ Frame(i, n, k) => Frame(i, m, k)
  BY DEF Frame

\* The written operands are operands.
LEMMA WrittenOperand ==
    ASSUME NEW i, IsInstruction(i), NEW k \in Written(i)
    PROVE  /\ k \in DOMAIN i.ops /\ i.ops[k].written
           /\ i.ops[k].imm \in Int /\ i.ops[k].disp \in Int
           /\ IsReg(i.ops[k]) => i.ops[k].reg \in Reg
  BY OperandOf DEF Written

\* The depth of the stack is a number.
LEMMA DepthIsNumber ==
    ASSUME NEW i, IsInstruction(i), i.delta # <<>>
    PROVE  i.delta[1] \in Int /\ i.delta[1] - WordSize \in Int
<1>1. i.delta[1] \in Int
  BY DEF IsInstruction
<1>2. WordSize \in Int
  BY WordModulus
<1> QED
  BY <1>1, <1>2

\* Where a supported store goes does not depend on the machine.
LEMMA StoresAreNamed ==
    ASSUME NEW i, IsInstruction(i), Understood(i), NEW k \in Written(i), IsMem(i.ops[k]), NEW m
    PROVE  /\ CellsOf(m, i, i.ops[k]) = NamedCells(i, i.ops[k])
           /\ NamedCells(i, i.ops[k]) \subseteq Stored(i)
           /\ NamedCells(i, i.ops[k]) \subseteq Words
<1>1. PICK op : op = i.ops[k]
  OBVIOUS
<1>2. /\ op.imm \in Int /\ op.disp \in Int
      /\ \/ op.seg \/ op.kind = "MEM_DIRECT"
         \/ /\ IsBased(op) /\ op.reg \in {SpReg, FpReg} /\ (op.reg = SpReg => i.delta # <<>>)
  BY <1>1, WrittenOperand DEF Understood, StoresOnStackOrFixed
<1>3. CellsOf(m, i, op) = NamedCells(i, op)
  BY <1>2 DEF CellsOf, NamedCells, IsBased
<1>4. NamedCells(i, op) \subseteq Words
  <2>1. CASE op.seg
    BY <2>1 DEF NamedCells
  <2>2. CASE ~op.seg /\ ~IsBased(op)
    BY <1>2, <2>2, WordsAreMade DEF NamedCells
  <2>3. CASE ~op.seg /\ IsBased(op) /\ op.index
    BY <2>3, WordsAreMade, CellsAssumption DEF NamedCells
  <2>4. CASE ~op.seg /\ IsBased(op) /\ ~op.index
    <3>1. op.reg \in {SpReg, FpReg} /\ (op.reg = SpReg => i.delta # <<>>)
      BY <1>2, <2>4 DEF IsBased
    <3>2. op.reg = SpReg => op.disp + i.delta[1] \in Int
      BY <1>2, <3>1, DepthIsNumber
    <3>3. op.disp + FpOffset \in Int
      BY <1>2, CellsAssumption
    <3> QED
      BY <2>4, <3>2, <3>3, WordsAreMade DEF NamedCells
  <2> QED
    BY <2>1, <2>2, <2>3, <2>4
<1> QED
  BY <1>1, <1>3, <1>4 DEF Stored

\* Writing an operand that is written is within the frame.
LEMMA WritesFrame ==
    ASSUME NEW i, IsInstruction(i), Understood(i), NEW k \in Written(i), NEW m \in Machines,
           NEW w \in Words, NEW n \in Writes(m, i, i.ops[k], w)
    PROVE  Frame(i, m, n)
<1>1. PICK op : op = i.ops[k]
  OBVIOUS
<1>2. CASE IsReg(op)
  <2>1. n = SetRegister(m, op.reg, w) /\ op.reg \in Reg
    <3>1. Writes(m, i, op, w) = {SetRegister(m, op.reg, w)}
      BY <1>2 DEF Writes, IsReg, IsMem
    <3> QED
      BY <1>1, <1>2, <3>1, WrittenOperand
  <2>2. /\ n \in Machines /\ n.mem = m.mem
        /\ \A q \in WholeReg : q = op.reg \/ n.regs[q] = m.regs[q]
                                 \/ (op.reg \in Narrow /\ q = SubRegister[op.reg].parent)
    BY <2>1, AfterSetRegister
  <2>3. RegisterView(op.reg, op.size).parent \in Touched(i)
    BY <1>1, <1>2 DEF Touched
  <2>4. \A q \in WholeReg \ Touched(i) : n.regs[q] = m.regs[q]
    BY <2>2, <2>3 DEF RegisterView, Narrow, WholeReg
  <2>5. \A c : Content(n, c) = Content(m, c)
    BY <2>2 DEF Content
  <2> QED
    BY <2>2, <2>4, <2>5 DEF Frame
<1>3. CASE IsMem(op) /\ CellsOf(m, i, op) # {}
  <2>1. PICK c \in CellsOf(m, i, op) : n = SetCell(m, c, w)
    BY <1>1, <1>3 DEF Writes, IsReg, IsMem
  <2>2. c \in Words /\ c \in Stored(i)
    BY <1>1, <1>3, <2>1, StoresAreNamed
  <2>3. /\ n \in Machines /\ n.regs = m.regs /\ DOMAIN n.mem = DOMAIN m.mem \cup {c}
        /\ \A x : Content(n, x) = IF x = c THEN w ELSE Content(m, x)
    BY <2>1, <2>2, AfterSetCell
  <2> QED
    BY <2>2, <2>3 DEF Frame
<1>4. CASE ~IsReg(op) /\ ~(IsMem(op) /\ CellsOf(m, i, op) # {})
  BY <1>1, <1>4, FrameCompose DEF Writes
<1> QED
  BY <1>2, <1>3, <1>4

\* So is assigning one of several words to it.
LEMMA AssignFrame ==
    ASSUME NEW i, IsInstruction(i), Understood(i), NEW k \in Written(i), NEW m \in Machines,
           NEW words \in SUBSET Words, NEW n \in Assign(m, i, i.ops[k], words)
    PROVE  Frame(i, m, n)
  BY WritesFrame DEF Assign

\* What arithmetic yields are words.
LEMMA ArithmeticIsWords ==
    ASSUME NEW i, IsInstruction(i), NEW m \in Machines,
           1 \in DOMAIN i.ops, 2 \in DOMAIN i.ops
    PROVE  Arithmetic(m, i, i.ops[1], i.ops[2]) \subseteq Words
<1>1. PICK dst, src : dst = i.ops[1] /\ src = i.ops[2]
  OBVIOUS
<1>2. dst.imm \in Int /\ src.imm \in Int /\ -src.imm \in Int /\ (IsReg(dst) => dst.reg \in Reg)
  <2>1. i.ops[1].imm \in Int /\ i.ops[2].imm \in Int /\ (IsReg(i.ops[1]) => i.ops[1].reg \in Reg)
    BY OperandOf
  <2> QED
    BY <1>1, <2>1
<1>3. Reads(m, i, dst) \subseteq Words
  BY <1>2, ReadsAreWords
<1>4. CASE i.mnem \in {"add", "sub"} /\ IsReg(dst) /\ IsImm(src)
  <2>1. Arithmetic(m, i, dst, src)
          = {Plus(w, IF i.mnem = "add" THEN src.imm ELSE -src.imm) : w \in Reads(m, i, dst)}
    BY <1>4 DEF Arithmetic, IsReg, IsImm
  <2>2. (IF i.mnem = "add" THEN src.imm ELSE -src.imm) \in Int
    BY <1>2
  <2> QED
    BY <1>1, <1>3, <2>1, <2>2, WordsAreMade
<1>5. CASE /\ ~(i.mnem \in {"add", "sub"} /\ IsReg(dst) /\ IsImm(src))
           /\ i.mnem \in {"xor", "sub"} /\ IsReg(dst) /\ IsReg(src) /\ dst.reg = src.reg
  <2>1. Arithmetic(m, i, dst, src) = {Num(0)}
    BY <1>5 DEF Arithmetic, IsReg, IsImm
  <2> QED
    BY <1>1, <2>1, WordsAreMade
<1>6. CASE /\ ~(i.mnem \in {"add", "sub"} /\ IsReg(dst) /\ IsImm(src))
           /\ ~(i.mnem \in {"xor", "sub"} /\ IsReg(dst) /\ IsReg(src) /\ dst.reg = src.reg)
  <2>1. Arithmetic(m, i, dst, src) = {Junk}
    BY <1>6 DEF Arithmetic
  <2> QED
    BY <1>1, <2>1, WordsAreMade
<1> QED
  BY <1>4, <1>5, <1>6

\* An unknown instruction is within the frame.
LEMMA UnforeseenFrame ==
    ASSUME NEW i, IsInstruction(i), Understood(i), NEW m \in Machines
    PROVE  Frame(i, m, Unforeseen(m, i))
<1> DEFINE written == {i.ops[k] : k \in {j \in DOMAIN i.ops : i.ops[j].written}}
           regs  == {RegisterView(op.reg, op.size).parent : op \in {o \in written : IsReg(o)}}
           cells == UNION {CellsOf(m, i, op) : op \in {o \in written : IsMem(o)}}
<1>1. PICK s : s = Scramble(m, i.implicit \cup regs)
  OBVIOUS
<1>2. i.implicit \cup regs = Touched(i)
  <2>1. i.implicit = {}
    BY DEF Understood
  <2> QED
    BY <2>1 DEF Touched, Written
<1>3. /\ s \in Machines /\ s.mem = m.mem
      /\ \A q \in WholeReg \ Touched(i) : s.regs[q] = m.regs[q]
  BY <1>1, <1>2, AfterScramble
<1>4. cells \subseteq Words /\ cells \subseteq Stored(i)
  BY StoresAreNamed DEF Written
<1> DEFINE mem == [c \in DOMAIN s.mem \cup cells |-> IF c \in cells THEN Junk ELSE s.mem[c]]
<1>5. Unforeseen(m, i) = [s EXCEPT !.mem = mem]
  BY <1>1 DEF Unforeseen
<1>6. Unforeseen(m, i) = [regs |-> s.regs, mem |-> mem]
  BY <1>3, <1>5, MachineIsRecord
<1>7. DOMAIN s.mem \cup cells \in SUBSET Words /\ mem \in [DOMAIN s.mem \cup cells -> Words]
  BY <1>3, <1>4, MachineParts, WordsAreMade
<1>8. /\ DOMAIN mem = DOMAIN s.mem \cup cells
      /\ \A c \in DOMAIN s.mem : c \notin cells => mem[c] = s.mem[c]
  OBVIOUS
<1> HIDE DEF mem, cells
<1>9. [regs |-> s.regs, mem |-> mem] \in Machines
  BY <1>3, <1>7, MachineParts, MachineIsMade
<1>10. ASSUME NEW c, c \notin Stored(i)
       PROVE  Content([regs |-> s.regs, mem |-> mem], c) = Content(m, c)
  BY <1>3, <1>4, <1>8, <1>10 DEF Content
<1> QED
  BY <1>3, <1>4, <1>6, <1>8, <1>9, <1>10 DEF Frame


\* What the instructions do, one kind at a time.
LEMMA ExecuteCases ==
    ASSUME NEW i, NEW m
    PROVE  /\ i.mnem \in Moves =>
                Execute(i, m) = Assign(m, i, i.ops[1], Reads(m, i, i.ops[2]))
           /\ i.mnem = "lea" =>
                Execute(i, m) = Writes(m, i, i.ops[1], EffectiveAddress(m, i.ops[2]))
           /\ i.mnem = "cmov" =>
                Execute(i, m) = {m} \cup Assign(m, i, i.ops[1], Reads(m, i, i.ops[2]))
           /\ i.mnem = "xchg" => \A n \in Execute(i, m) :
                \E s \in Assign(m, i, i.ops[1], Reads(m, i, i.ops[2])) :
                   n \in Assign(s, i, i.ops[2], Reads(m, i, i.ops[1]))
           /\ i.mnem \in {"add", "sub", "xor"} =>
                Execute(i, m) = Assign(m, i, i.ops[1], Arithmetic(m, i, i.ops[1], i.ops[2]))
           /\ i.mnem = "push" => \A n \in Execute(i, m) :
                \E w \in Reads(m, i, i.ops[1]) :
                   n = SetCell(m, StackCell(i.delta[1] - WordSize), w)
           /\ i.mnem = "call" =>
                Execute(i, m) = {SetRegister(Scramble(m, Clobbered), RetReg,
                                             Word(<<"ret", i.ea>>, 0))}
           /\ i.mnem = "jmp" => Execute(i, m) = {m}
           /\ i.mnem = "other" => Execute(i, m) = {Unforeseen(m, i)}
<1>1. i.mnem \in Moves =>
        Execute(i, m) = Assign(m, i, i.ops[1], Reads(m, i, i.ops[2]))
  BY DEF Execute, Moves
<1>2. i.mnem = "lea" =>
        Execute(i, m) = Writes(m, i, i.ops[1], EffectiveAddress(m, i.ops[2]))
  BY DEF Execute, Moves
<1>3. i.mnem = "cmov" =>
        Execute(i, m) = {m} \cup Assign(m, i, i.ops[1], Reads(m, i, i.ops[2]))
  BY DEF Execute, Moves
<1>4. i.mnem = "xchg" => \A n \in Execute(i, m) :
        \E s \in Assign(m, i, i.ops[1], Reads(m, i, i.ops[2])) :
           n \in Assign(s, i, i.ops[2], Reads(m, i, i.ops[1]))
  BY DEF Execute, Moves
<1>5. i.mnem \in {"add", "sub", "xor"} =>
        Execute(i, m) = Assign(m, i, i.ops[1], Arithmetic(m, i, i.ops[1], i.ops[2]))
  BY DEF Execute, Moves
<1>6. i.mnem = "push" => \A n \in Execute(i, m) :
        \E w \in Reads(m, i, i.ops[1]) :
           n = SetCell(m, StackCell(i.delta[1] - WordSize), w)
  BY DEF Execute, Moves
<1>7. i.mnem = "call" =>
        Execute(i, m) = {SetRegister(Scramble(m, Clobbered), RetReg, Word(<<"ret", i.ea>>, 0))}
  BY DEF Execute, Moves
<1>8. i.mnem = "jmp" => Execute(i, m) = {m}
  BY DEF Execute, Moves
<1>9. i.mnem = "other" => Execute(i, m) = {Unforeseen(m, i)}
  BY DEF Execute, Moves
<1> QED
  BY <1>1, <1>2, <1>3, <1>4, <1>5, <1>6, <1>7, <1>8, <1>9

\* The operands of an instruction that has them.
LEMMA UnderstoodOperands ==
    ASSUME NEW i, IsInstruction(i), Understood(i)
    PROVE  /\ i.mnem \in Moves \cup {"lea", "cmov", "add", "sub", "xor"} =>
                Written(i) = {1} /\ 1 \in DOMAIN i.ops /\ 2 \in DOMAIN i.ops
           /\ i.mnem = "xchg" => Written(i) = {1, 2} /\ 1 \in DOMAIN i.ops /\ 2 \in DOMAIN i.ops
           /\ i.mnem = "push" => i.delta # <<>> /\ 1 \in DOMAIN i.ops
           /\ i.mnem \in {"push", "call", "jmp"} => Written(i) = {}
           /\ i.mnem \in Moves \cup {"lea", "cmov", "add", "sub", "xor", "xchg", "push",
                                     "call", "jmp", "other"}
<1>1. i.ops \in Seq(Operand)
  BY DEF IsInstruction
<1>2. DOMAIN i.ops = 1..Len(i.ops) /\ Len(i.ops) \in Nat
  BY <1>1
<1>3. i.ops # <<>> => 1 \in DOMAIN i.ops
  BY <1>1
<1>4. Len(i.ops) = 2 => 1 \in DOMAIN i.ops /\ 2 \in DOMAIN i.ops
  BY <1>2
<1>5. i.mnem \in Mnemonic /\ (i.mnem = "xchg" => Len(i.ops) = 2)
  BY DEF IsInstruction
<1>6. i.mnem \in Moves \cup {"lea", "cmov", "add", "sub", "xor"} =>
        Len(i.ops) = 2 /\ Written(i) = {1}
  BY DEF Understood
<1>7. /\ i.mnem = "xchg" => Written(i) = {1, 2}
      /\ i.mnem \in {"push", "call", "jmp"} => Written(i) = {}
      /\ i.mnem = "push" => i.ops # <<>> /\ i.delta # <<>>
  BY DEF Understood
<1>8. i.mnem \in Moves \cup {"lea", "cmov", "add", "sub", "xor", "xchg", "push",
                             "call", "jmp", "other"}
  BY <1>5 DEF Mnemonic
<1> QED
  BY <1>3, <1>4, <1>5, <1>6, <1>7, <1>8

\* Every instruction but a call is within its frame.
LEMMA ExecuteFrame ==
    ASSUME NEW i, IsInstruction(i), Understood(i), NEW m \in Machines, NEW n \in Execute(i, m),
           i.mnem # "call"
    PROVE  Frame(i, m, n)
<1>1. ASSUME NEW k \in DOMAIN i.ops, NEW s \in Machines
      PROVE  Reads(s, i, i.ops[k]) \in SUBSET Words
  BY <1>1, OperandOf, ReadsAreWords
<1>2. CASE i.mnem \in Moves \cup {"cmov"}
  <2>1. 1 \in Written(i) /\ 2 \in DOMAIN i.ops
    BY <1>2, UnderstoodOperands
  <2>2. n = m \/ n \in Assign(m, i, i.ops[1], Reads(m, i, i.ops[2]))
    <3>1. CASE i.mnem \in Moves
      <4>1. Execute(i, m) = Assign(m, i, i.ops[1], Reads(m, i, i.ops[2]))
        BY <3>1, ExecuteCases
      <4> QED
        BY <4>1
    <3>2. CASE i.mnem = "cmov"
      <4>1. Execute(i, m) = {m} \cup Assign(m, i, i.ops[1], Reads(m, i, i.ops[2]))
        BY <3>2, ExecuteCases
      <4> QED
        BY <4>1
    <3> QED
      BY <1>2, <3>1, <3>2
  <2>3. Reads(m, i, i.ops[2]) \in SUBSET Words
    BY <1>1, <2>1
  <2> QED
    BY <2>1, <2>2, <2>3, AssignFrame, FrameCompose
<1>3. CASE i.mnem = "lea"
  <2>1. 1 \in Written(i) /\ 2 \in DOMAIN i.ops
    BY <1>3, UnderstoodOperands
  <2>2. n \in Writes(m, i, i.ops[1], EffectiveAddress(m, i.ops[2]))
    BY <1>3, ExecuteCases
  <2>3. i.ops[2].imm \in Int /\ i.ops[2].disp \in Int /\ i.ops[2].reg \in Reg \cup {NoReg}
    BY <2>1, OperandOf
  <2>4. EffectiveAddress(m, i.ops[2]) \in Words
    <3>1. PICK op : op = i.ops[2]
      OBVIOUS
    <3>2. CASE op.kind = "MEM_DIRECT"
      BY <2>3, <3>1, <3>2, WordsAreMade DEF EffectiveAddress, IsBased
    <3>3. CASE op.kind # "MEM_DIRECT" /\ IsBased(op) /\ ~op.index
      <4>1. op.reg \in Reg
        BY <2>3, <3>1, <3>3 DEF IsBased
      <4>2. m.regs[op.reg] \in Words
        BY <4>1, MachineParts
      <4> QED
        BY <2>3, <3>1, <3>3, <4>2, WordsAreMade DEF EffectiveAddress, IsBased
    <3>4. CASE op.kind # "MEM_DIRECT" /\ ~(IsBased(op) /\ ~op.index)
      BY <3>1, <3>4, WordsAreMade DEF EffectiveAddress
    <3> QED
      BY <3>2, <3>3, <3>4
  <2> QED
    BY <2>1, <2>2, <2>4, WritesFrame
<1>4. CASE i.mnem = "xchg"
  <2>1. 1 \in Written(i) /\ 2 \in Written(i) /\ 1 \in DOMAIN i.ops /\ 2 \in DOMAIN i.ops
    BY <1>4, UnderstoodOperands
  <2>2. PICK s \in Assign(m, i, i.ops[1], Reads(m, i, i.ops[2])) :
          n \in Assign(s, i, i.ops[2], Reads(m, i, i.ops[1]))
    BY <1>4, ExecuteCases
  <2>3. Frame(i, m, s)
    BY <1>1, <2>1, AssignFrame
  <2>4. s \in Machines
    BY <2>3 DEF Frame
  <2>5. Frame(i, s, n)
    BY <1>1, <2>1, <2>2, <2>4, AssignFrame
  <2> QED
    BY <2>3, <2>5, FrameCompose
<1>5. CASE i.mnem \in {"add", "sub", "xor"}
  <2>1. 1 \in Written(i) /\ 1 \in DOMAIN i.ops /\ 2 \in DOMAIN i.ops
    BY <1>5, UnderstoodOperands
  <2>2. n \in Assign(m, i, i.ops[1], Arithmetic(m, i, i.ops[1], i.ops[2]))
    BY <1>5, ExecuteCases
  <2> QED
    BY <2>1, <2>2, ArithmeticIsWords, AssignFrame
<1>6. CASE i.mnem = "push"
  <2>1. 1 \in DOMAIN i.ops /\ StackCell(i.delta[1] - WordSize) \in Words
    BY <1>6, UnderstoodOperands, DepthIsNumber, WordsAreMade
  <2>2. PICK w \in Reads(m, i, i.ops[1]) : n = SetCell(m, StackCell(i.delta[1] - WordSize), w)
    BY <1>6, ExecuteCases
  <2>3. w \in Words
    BY <1>1, <2>1
  <2>4. StackCell(i.delta[1] - WordSize) \in Stored(i)
    <3>1. StackCell(i.delta[1] - WordSize) \in PushedTo(i)
      BY <1>6 DEF PushedTo
    <3> QED
      BY <3>1 DEF Stored
  <2>5. PICK c : c = StackCell(i.delta[1] - WordSize)
    OBVIOUS
  <2>6. /\ n \in Machines /\ n.regs = m.regs /\ DOMAIN n.mem = DOMAIN m.mem \cup {c}
        /\ \A x : Content(n, x) = IF x = c THEN w ELSE Content(m, x)
    BY <2>1, <2>2, <2>3, <2>5, AfterSetCell
  <2> QED
    BY <2>4, <2>5, <2>6 DEF Frame
<1>7. CASE i.mnem = "jmp"
  <2>1. Execute(i, m) = {m}
    BY <1>7, ExecuteCases
  <2> QED
    BY <2>1, FrameCompose
<1>8. CASE i.mnem = "other"
  <2>1. Execute(i, m) = {Unforeseen(m, i)}
    BY <1>8, ExecuteCases
  <2> QED
    BY <2>1, UnforeseenFrame
<1> QED
  BY <1>2, <1>3, <1>4, <1>5, <1>6, <1>7, <1>8, UnderstoodOperands

\* A call destroys registers, and returns its result in one.
LEMMA ExecuteCall ==
    ASSUME NEW i, IsInstruction(i), NEW m \in Machines, NEW n \in Execute(i, m), i.mnem = "call",
           RetReg \in WholeReg
    PROVE  /\ n \in Machines /\ n.mem = m.mem
           /\ n.regs[RetReg] = Word(<<"ret", i.ea>>, 0)
           /\ \A q \in Reg : n.regs[q] \in {Word(<<"ret", i.ea>>, 0), Junk, m.regs[q]}
<1>1. PICK w : w = Word(<<"ret", i.ea>>, 0)
  OBVIOUS
<1>2. PICK s : s = Scramble(m, Clobbered)
  OBVIOUS
<1>3. n = SetRegister(s, RetReg, w)
  BY <1>1, <1>2, ExecuteCases
<1>4. w \in Words /\ RetReg \in Reg /\ RetReg \notin Narrow
  BY <1>1, WordsAreMade DEF IsInstruction, WholeReg
<1>5. /\ s \in Machines /\ s.mem = m.mem
      /\ \A q \in WholeReg \ Clobbered : s.regs[q] = m.regs[q]
      /\ \A q \in Reg : s.regs[q] \in {Junk, m.regs[q]}
  BY <1>2, AfterScramble
<1>6. /\ n \in Machines /\ n.mem = s.mem /\ n.regs[RetReg] = w
      /\ \A q \in WholeReg : q = RetReg \/ n.regs[q] = s.regs[q]
      /\ \A q \in Reg : q = RetReg \/ n.regs[q] \in {Junk, s.regs[q]}
  BY <1>3, <1>4, <1>5, AfterSetRegister
<1>7. \A q \in Reg : n.regs[q] \in {w, Junk, m.regs[q]}
  BY <1>5, <1>6
<1> QED
  BY <1>1, <1>5, <1>6, <1>7


-----------------------------------------------------------------------------
(* What an execution can come to *)

\* What is supposed of the function alone.
Analysable(p) ==
    /\ IsProgram(p) /\ IsFlowChart(p)
    /\ \A i \in InstructionsOf(p) : Understood(i)
    /\ SeparateCells(p)
    /\ {SpReg, FpReg, RetReg} \subseteq WholeReg /\ RetReg \in Clobbered /\ WordSize > 1

\* An execution that stands before instruction n of block b on machine m.
At(b, n, m) == [block |-> b, pc |-> n, machine |-> m]

\* The places an execution may stand at, and the steps it may take.
Place(p) ==
    {s \in [block : p.blocks, pc : Nat, machine : Machines] :
        s.pc \in 1..(Len(p.code[s.block]) + 1)}
Start(p) == At(p.entry, 1, EntryMachine(NoReg))
Executes(p, s, t) ==
    /\ s.pc <= Len(p.code[s.block])
    /\ \E m \in Execute(p.code[s.block][s.pc], s.machine) : t = At(s.block, s.pc + 1, m)
Jumps(p, s, t) ==
    /\ s.pc > Len(p.code[s.block])
    /\ \E n \in DOMAIN p.succ[s.block] : t = At(p.succ[s.block][n], 1, s.machine)

\* The places it does come to: those in every set of places that holds the start
\* and, with a place, whatever follows it.
Closed(p, I) ==
    /\ Start(p) \in I
    /\ \A s \in I : \A t : Executes(p, s, t) \/ Jumps(p, s, t) => t \in I
Reach(p) == {s \in Place(p) : \A I \in SUBSET Place(p) : Closed(p, I) => s \in I}

\* The machines before an instruction.
Before(p, b, n) == {m \in Machines : At(b, n, m) \in Reach(p)}

\* The blocks and instructions of a function.
LEMMA CodeOf ==
    ASSUME NEW p, Analysable(p), NEW b \in p.blocks
    PROVE  /\ Len(p.code[b]) \in Nat /\ DOMAIN p.code[b] = 1..Len(p.code[b])
           /\ \A n \in 1..Len(p.code[b]) :
                /\ IsInstruction(p.code[b][n]) /\ Understood(p.code[b][n])
                /\ p.code[b][n] \in InstructionsOf(p)
           /\ Len(p.pred[b]) \in Nat /\ DOMAIN p.pred[b] = 1..Len(p.pred[b])
           /\ \A n \in 1..Len(p.pred[b]) : p.pred[b][n] \in p.blocks
           /\ p.entry \in p.blocks
<1>1. /\ \A n \in DOMAIN p.code[b] : IsInstruction(p.code[b][n])
      /\ p.code[b] \in Seq({p.code[b][n] : n \in DOMAIN p.code[b]})
      /\ p.pred[b] \in Seq(p.blocks) /\ p.entry \in p.blocks
  BY DEF Analysable, IsProgram
<1>2. Len(p.code[b]) \in Nat /\ DOMAIN p.code[b] = 1..Len(p.code[b])
  BY <1>1
<1>3. /\ Len(p.pred[b]) \in Nat /\ DOMAIN p.pred[b] = 1..Len(p.pred[b])
      /\ \A n \in 1..Len(p.pred[b]) : p.pred[b][n] \in p.blocks
  BY <1>1
<1>4. \A n \in 1..Len(p.code[b]) : p.code[b][n] \in InstructionsOf(p)
  BY <1>2 DEF InstructionsOf
<1>5. \A i \in InstructionsOf(p) : Understood(i)
  BY DEF Analysable
<1> QED
  BY <1>1, <1>2, <1>3, <1>4, <1>5

\* Where control goes on after a block, and that it is known there.
LEMMA SuccessorOf ==
    ASSUME NEW p, Analysable(p), NEW b \in p.blocks, NEW n \in DOMAIN p.succ[b]
    PROVE  /\ p.succ[b][n] \in p.blocks
           /\ \E k \in DOMAIN p.pred[p.succ[b][n]] : p.pred[p.succ[b][n]][k] = b
  BY DEF Analysable, IsFlowChart

\* An instruction makes a machine of a machine.
LEMMA ExecuteIsMachine ==
    ASSUME NEW i, IsInstruction(i), Understood(i), NEW m \in Machines, NEW n \in Execute(i, m),
           RetReg \in WholeReg
    PROVE  n \in Machines
<1>1. CASE i.mnem = "call"
  BY <1>1, ExecuteCall
<1>2. CASE i.mnem # "call"
  BY <1>2, ExecuteFrame DEF Frame
<1> QED
  BY <1>1, <1>2

\* A place is a block, a position and a machine.
LEMMA PlaceParts ==
    ASSUME NEW p, Analysable(p), NEW s \in Place(p)
    PROVE  /\ s = At(s.block, s.pc, s.machine) /\ s.block \in p.blocks
           /\ s.pc \in 1..(Len(p.code[s.block]) + 1) /\ s.pc \in Nat
           /\ s.machine \in Machines
<1>1. s \in [block : p.blocks, pc : Nat, machine : Machines]
  BY DEF Place
<1>2. s.pc \in 1..(Len(p.code[s.block]) + 1)
  BY DEF Place
<1>3. s = [block |-> s.block, pc |-> s.pc, machine |-> s.machine]
  BY <1>1
<1> QED
  BY <1>1, <1>2, <1>3 DEF At

\* A block, a position and a machine make a place.
LEMMA PlaceIsMade ==
    ASSUME NEW p, NEW b \in p.blocks, NEW n \in Nat, n \in 1..(Len(p.code[b]) + 1),
           NEW m \in Machines
    PROVE  At(b, n, m) \in Place(p)
<1>1. PICK s : s = At(b, n, m)
  OBVIOUS
<1>2. s \in [block : p.blocks, pc : Nat, machine : Machines] /\ s.block = b /\ s.pc = n
  BY <1>1 DEF At
<1> QED
  BY <1>1, <1>2 DEF Place

\* An execution stays within the places.
LEMMA PlacesAreClosed ==
    ASSUME NEW p, Analysable(p)
    PROVE  Closed(p, Place(p))
<1>1. Start(p) \in Place(p)
  <2>1. p.entry \in p.blocks
    BY DEF Analysable, IsProgram
  <2>2. Len(p.code[p.entry]) \in Nat
    BY <2>1, CodeOf
  <2>3. 1 \in 1..(Len(p.code[p.entry]) + 1)
    BY <2>2
  <2> QED
    BY <2>1, <2>3, EntryIsMachine, PlaceIsMade DEF Start
<1>2. ASSUME NEW s \in Place(p), NEW t, Executes(p, s, t)
      PROVE  t \in Place(p)
  <2>1. s.block \in p.blocks /\ s.pc \in Nat /\ s.pc >= 1 /\ s.machine \in Machines
    BY PlaceParts
  <2>2. PICK L \in Nat : L = Len(p.code[s.block])
    BY <2>1, CodeOf
  <2>3. s.pc \in 1..L
    BY <1>2, <2>1, <2>2 DEF Executes
  <2>4. PICK i : i = p.code[s.block][s.pc]
    OBVIOUS
  <2>5. IsInstruction(i) /\ Understood(i)
    BY <2>1, <2>2, <2>3, <2>4, CodeOf
  <2>6. PICK m \in Execute(i, s.machine) : t = At(s.block, s.pc + 1, m)
    BY <1>2, <2>4 DEF Executes
  <2>7. m \in Machines
    BY <2>1, <2>5, ExecuteIsMachine DEF Analysable
  <2>8. s.pc + 1 \in Nat /\ s.pc + 1 \in 1..(L + 1)
    BY <2>3
  <2> QED
    BY <2>1, <2>2, <2>6, <2>7, <2>8, PlaceIsMade
<1>3. ASSUME NEW s \in Place(p), NEW t, Jumps(p, s, t)
      PROVE  t \in Place(p)
  <2>1. s.block \in p.blocks /\ s.machine \in Machines
    BY PlaceParts
  <2>2. PICK n \in DOMAIN p.succ[s.block] : t = At(p.succ[s.block][n], 1, s.machine)
    BY <1>3 DEF Jumps
  <2>3. p.succ[s.block][n] \in p.blocks
    BY <2>1, SuccessorOf
  <2>4. PICK L \in Nat : L = Len(p.code[p.succ[s.block][n]])
    BY <2>3, CodeOf
  <2>5. 1 \in 1..(L + 1)
    OBVIOUS
  <2> QED
    BY <2>1, <2>2, <2>3, <2>4, <2>5, PlaceIsMade
<1> QED
  BY <1>1, <1>2, <1>3 DEF Closed

\* What is reached is itself closed ...
LEMMA ReachIsClosed ==
    ASSUME NEW p, Analysable(p)
    PROVE  Closed(p, Reach(p)) /\ Reach(p) \subseteq Place(p)
<1>1. Closed(p, Place(p))
  BY PlacesAreClosed
<1>2. Start(p) \in Reach(p)
  BY <1>1 DEF Reach, Closed
<1>3. ASSUME NEW s \in Reach(p), NEW t, Executes(p, s, t) \/ Jumps(p, s, t)
      PROVE  t \in Reach(p)
  <2>1. s \in Place(p)
    BY DEF Reach
  <2>2. t \in Place(p)
    BY <1>1, <1>3, <2>1 DEF Closed
  <2>3. ASSUME NEW I \in SUBSET Place(p), Closed(p, I)
        PROVE  t \in I
    <3>1. s \in I
      BY <2>3 DEF Reach
    <3> QED
      BY <1>3, <2>3, <3>1 DEF Closed
  <2> QED
    BY <2>2, <2>3 DEF Reach
<1> QED
  BY <1>2, <1>3 DEF Closed, Reach

\* ... and the least such set: what holds at the start, and after a step if it
\* held before, holds wherever an execution comes.
LEMMA ReachInduction ==
    ASSUME NEW p, Analysable(p), NEW I \in SUBSET Reach(p), Start(p) \in I,
           \A b \in p.blocks, m \in Machines : \A n \in 1..Len(p.code[b]) :
              At(b, n, m) \in I =>
                 \A k \in Execute(p.code[b][n], m) :
                    At(b, n + 1, k) \in Reach(p) => At(b, n + 1, k) \in I,
           \A b \in p.blocks, m \in Machines : \A n \in DOMAIN p.succ[b] :
              At(b, Len(p.code[b]) + 1, m) \in I =>
                 (At(p.succ[b][n], 1, m) \in Reach(p) => At(p.succ[b][n], 1, m) \in I)
    PROVE  Reach(p) = I
<1>1. Closed(p, Reach(p)) /\ Reach(p) \subseteq Place(p)
  BY ReachIsClosed
<1>2. ASSUME NEW s \in I, NEW t, Executes(p, s, t)
      PROVE  t \in I
  <2>1. /\ s = At(s.block, s.pc, s.machine) /\ s.block \in p.blocks /\ s.machine \in Machines
        /\ s.pc \in Nat /\ s.pc >= 1
    BY <1>1, PlaceParts
  <2>2. PICK L \in Nat : L = Len(p.code[s.block])
    BY <2>1, CodeOf
  <2>3. s.pc \in 1..Len(p.code[s.block])
    BY <1>2, <2>1, <2>2 DEF Executes
  <2>4. PICK k \in Execute(p.code[s.block][s.pc], s.machine) : t = At(s.block, s.pc + 1, k)
    BY <1>2 DEF Executes
  <2>5. t \in Reach(p)
    BY <1>1, <1>2 DEF Closed
  <2> QED
    BY <2>1, <2>3, <2>4, <2>5
<1>3. ASSUME NEW s \in I, NEW t, Jumps(p, s, t)
      PROVE  t \in I
  <2>1. /\ s = At(s.block, s.pc, s.machine) /\ s.block \in p.blocks /\ s.machine \in Machines
        /\ s.pc \in 1..(Len(p.code[s.block]) + 1)
    BY <1>1, PlaceParts
  <2>2. PICK L \in Nat : L = Len(p.code[s.block])
    BY <2>1, CodeOf
  <2>3. s.pc = Len(p.code[s.block]) + 1
    BY <1>3, <2>1, <2>2 DEF Jumps
  <2>4. PICK n \in DOMAIN p.succ[s.block] : t = At(p.succ[s.block][n], 1, s.machine)
    BY <1>3 DEF Jumps
  <2>5. t \in Reach(p)
    BY <1>1, <1>3 DEF Closed
  <2> QED
    BY <2>1, <2>3, <2>4, <2>5
<1>4. Closed(p, I)
  BY <1>2, <1>3 DEF Closed
<1> QED
  BY <1>1, <1>4 DEF Reach


-----------------------------------------------------------------------------
(* What is so wherever an execution comes *)

\* Stack and frame pointer hold no number.
Pointers(m) ==
    m.regs[SpReg].base # <<"int", 0>> /\ m.regs[FpReg].base # <<"int", 0>>

\* Writing an operand keeps that, if what is written to them is no number.
LEMMA WriteKeepsPointers ==
    ASSUME NEW i, IsInstruction(i), Understood(i), NEW k \in Written(i),
           NEW m \in Machines, Pointers(m), NEW w \in Words,
           IsReg(i.ops[k]) /\ i.ops[k].reg \in {SpReg, FpReg} => w.base # <<"int", 0>>,
           NEW n \in Writes(m, i, i.ops[k], w)
    PROVE  n \in Machines /\ Pointers(n)
<1>1. n \in Machines
  BY WritesFrame DEF Frame
<1>2. PICK op : op = i.ops[k]
  OBVIOUS
<1>3. CASE IsReg(op)
  <2>1. Writes(m, i, op, w) = {SetRegister(m, op.reg, w)}
    BY <1>3 DEF Writes, IsReg, IsMem
  <2>2. n = SetRegister(m, op.reg, w) /\ op.reg \in Reg
    BY <1>2, <1>3, <2>1, WrittenOperand
  <2>3. n.regs[op.reg] = w /\ \A q \in Reg : q = op.reg \/ n.regs[q] \in {Junk, m.regs[q]}
    BY <2>2, AfterSetRegister
  <2>4. Junk.base # <<"int", 0>>
    BY DEF Junk, Word
  <2>5. SpReg \in Reg /\ FpReg \in Reg
    BY RegistersAssumption
  <2>6. ASSUME NEW q \in {SpReg, FpReg}
        PROVE  n.regs[q].base # <<"int", 0>>
    <3>1. CASE q = op.reg
      BY <1>2, <1>3, <2>3, <3>1
    <3>2. CASE q # op.reg
      BY <2>3, <2>4, <2>5, <3>2 DEF Pointers
    <3> QED
      BY <3>1, <3>2
  <2> QED
    BY <1>1, <2>6 DEF Pointers
<1>4. CASE IsMem(op) /\ CellsOf(m, i, op) # {}
  <2>1. PICK c \in CellsOf(m, i, op) : n = SetCell(m, c, w)
    BY <1>2, <1>4 DEF Writes, IsReg, IsMem
  <2>2. n.regs = m.regs
    BY <2>1, MachineIsRecord DEF SetCell
  <2> QED
    BY <1>1, <2>2 DEF Pointers
<1>5. CASE ~IsReg(op) /\ ~(IsMem(op) /\ CellsOf(m, i, op) # {})
  BY <1>1, <1>2, <1>5 DEF Writes
<1> QED
  BY <1>3, <1>4, <1>5

\* So does assigning one of several words.
LEMMA AssignKeepsPointers ==
    ASSUME NEW i, IsInstruction(i), Understood(i), NEW k \in Written(i),
           NEW m \in Machines, Pointers(m), NEW words \in SUBSET Words,
           IsReg(i.ops[k]) /\ i.ops[k].reg \in {SpReg, FpReg} =>
              \A w \in words : w.base # <<"int", 0>>,
           NEW n \in Assign(m, i, i.ops[k], words)
    PROVE  n \in Machines /\ Pointers(n)
<1>1. PICK w \in words : n \in Writes(m, i, i.ops[k], w)
  BY DEF Assign
<1> QED
  BY <1>1, WriteKeepsPointers

\* No instruction puts a number into the stack or the frame pointer.
LEMMA ExecuteKeepsPointers ==
    ASSUME NEW i, IsInstruction(i), Understood(i), NEW m \in Machines, Pointers(m),
           NEW n \in Execute(i, m), RetReg \in WholeReg
    PROVE  Pointers(n)
<1>1. ASSUME NEW k \in DOMAIN i.ops
      PROVE  Reads(m, i, i.ops[k]) \in SUBSET Words
  BY <1>1, OperandOf, ReadsAreWords
<1>2. /\ Junk.base # <<"int", 0>> /\ Word(<<"ret", i.ea>>, 0).base # <<"int", 0>>
      /\ SpReg \in Reg /\ FpReg \in Reg
  BY RegistersAssumption DEF Junk, Word
<1>3. KeepsStack(i)
  BY DEF Understood
<1>4. CASE i.mnem \in Moves \cup {"cmov"}
  <2>1. 1 \in Written(i) /\ 2 \in DOMAIN i.ops
    BY <1>4, UnderstoodOperands
  <2>2. n = m \/ n \in Assign(m, i, i.ops[1], Reads(m, i, i.ops[2]))
    <3>1. CASE i.mnem \in Moves
      <4>1. Execute(i, m) = Assign(m, i, i.ops[1], Reads(m, i, i.ops[2]))
        BY <3>1, ExecuteCases
      <4> QED
        BY <4>1
    <3>2. CASE i.mnem = "cmov"
      <4>1. Execute(i, m) = {m} \cup Assign(m, i, i.ops[1], Reads(m, i, i.ops[2]))
        BY <3>2, ExecuteCases
      <4> QED
        BY <4>1
    <3> QED
      BY <1>4, <3>1, <3>2
  <2>3. ASSUME IsReg(i.ops[1]), i.ops[1].reg \in {SpReg, FpReg},
               NEW w \in Reads(m, i, i.ops[2])
        PROVE  w.base # <<"int", 0>>
    <3>1. IsReg(i.ops[2]) /\ i.ops[2].reg \in {SpReg, FpReg}
      BY <1>3, <1>4, <2>1, <2>3 DEF KeepsStack, Moves
    <3>2. w = m.regs[i.ops[2].reg]
      BY <2>3, <3>1 DEF Reads, IsReg, IsImm, IsMem
    <3> QED
      BY <3>1, <3>2 DEF Pointers
  <2>4. Reads(m, i, i.ops[2]) \in SUBSET Words
    BY <1>1, <2>1
  <2> QED
    BY <2>1, <2>2, <2>3, <2>4, AssignKeepsPointers
<1>5. CASE i.mnem = "lea"
  <2>1. 1 \in Written(i) /\ 2 \in DOMAIN i.ops
    BY <1>5, UnderstoodOperands
  <2>2. PICK w : w = EffectiveAddress(m, i.ops[2])
    OBVIOUS
  <2>3. Execute(i, m) = Writes(m, i, i.ops[1], w)
    BY <1>5, <2>2, ExecuteCases
  <2>4. ASSUME IsReg(i.ops[1]), i.ops[1].reg \in {SpReg, FpReg}
        PROVE  w.base # <<"int", 0>>
    <3>1. IsBased(i.ops[2]) /\ i.ops[2].reg \in {SpReg, FpReg}
      BY <1>3, <1>5, <2>1, <2>4 DEF KeepsStack
    <3>2. w = Plus(m.regs[i.ops[2].reg], i.ops[2].disp) \/ w = Junk
      BY <2>2, <3>1 DEF EffectiveAddress, IsBased
    <3> QED
      BY <1>2, <3>1, <3>2 DEF Pointers, Plus, Word
  <2>5. w \in Words
    <3>1. /\ i.ops[2].imm \in Int /\ i.ops[2].disp \in Int /\ i.ops[2].reg \in Reg \cup {NoReg}
      BY <2>1, OperandOf
    <3>2. CASE i.ops[2].kind = "MEM_DIRECT"
      BY <2>2, <3>1, <3>2, WordsAreMade DEF EffectiveAddress, IsBased
    <3>3. CASE i.ops[2].kind # "MEM_DIRECT" /\ IsBased(i.ops[2]) /\ ~i.ops[2].index
      <4>1. i.ops[2].reg \in Reg
        BY <3>1, <3>3 DEF IsBased
      <4>2. m.regs[i.ops[2].reg] \in Words
        BY <4>1, MachineParts
      <4> QED
        BY <2>2, <3>1, <3>3, <4>2, WordsAreMade DEF EffectiveAddress, IsBased
    <3>4. CASE i.ops[2].kind # "MEM_DIRECT" /\ ~(IsBased(i.ops[2]) /\ ~i.ops[2].index)
      BY <2>2, <3>4, WordsAreMade DEF EffectiveAddress
    <3> QED
      BY <3>2, <3>3, <3>4
  <2> QED
    BY <2>1, <2>3, <2>4, <2>5, WriteKeepsPointers
<1>6. CASE i.mnem = "xchg"
  <2>1. 1 \in Written(i) /\ 2 \in Written(i) /\ 1 \in DOMAIN i.ops /\ 2 \in DOMAIN i.ops
    BY <1>6, UnderstoodOperands
  <2>2. PICK s \in Assign(m, i, i.ops[1], Reads(m, i, i.ops[2])) :
          n \in Assign(s, i, i.ops[2], Reads(m, i, i.ops[1]))
    BY <1>6, ExecuteCases
  <2>3. \A k \in {1, 2} : ~(IsReg(i.ops[k]) /\ i.ops[k].reg \in {SpReg, FpReg})
    BY <1>3, <1>6, <2>1 DEF KeepsStack
  <2>4. s \in Machines /\ Pointers(s)
    BY <1>1, <2>1, <2>3, AssignKeepsPointers
  <2> QED
    BY <1>1, <2>1, <2>2, <2>3, <2>4, AssignKeepsPointers
<1>7. CASE i.mnem \in {"add", "sub", "xor"}
  <2>1. 1 \in Written(i) /\ 1 \in DOMAIN i.ops /\ 2 \in DOMAIN i.ops
    BY <1>7, UnderstoodOperands
  <2>2. PICK words : words = Arithmetic(m, i, i.ops[1], i.ops[2])
    OBVIOUS
  <2>3. Execute(i, m) = Assign(m, i, i.ops[1], words) /\ words \in SUBSET Words
    BY <1>7, <2>1, <2>2, ExecuteCases, ArithmeticIsWords
  <2>4. ASSUME IsReg(i.ops[1]), i.ops[1].reg \in {SpReg, FpReg}, NEW w \in words
        PROVE  w.base # <<"int", 0>>
    <3>1. i.mnem \in {"add", "sub"} /\ IsImm(i.ops[2])
      BY <1>3, <1>7, <2>1, <2>4 DEF KeepsStack
    <3>2. words = {Plus(u, IF i.mnem = "add" THEN i.ops[2].imm ELSE -i.ops[2].imm) :
                     u \in Reads(m, i, i.ops[1])}
      BY <2>2, <2>4, <3>1 DEF Arithmetic, IsReg, IsImm
    <3>3. PICK u \in Reads(m, i, i.ops[1]) :
            w = Plus(u, IF i.mnem = "add" THEN i.ops[2].imm ELSE -i.ops[2].imm)
      BY <2>4, <3>2
    <3>4. u = m.regs[i.ops[1].reg]
      BY <2>4, <3>3 DEF Reads, IsReg, IsImm, IsMem
    <3> QED
      BY <2>4, <3>3, <3>4 DEF Pointers, Plus, Word
  <2> QED
    BY <2>1, <2>3, <2>4, AssignKeepsPointers
<1>8. CASE i.mnem = "push"
  <2>1. PICK w \in Reads(m, i, i.ops[1]) : n = SetCell(m, StackCell(i.delta[1] - WordSize), w)
    BY <1>8, ExecuteCases
  <2>2. n.regs = m.regs
    BY <2>1, MachineIsRecord DEF SetCell
  <2> QED
    BY <2>2 DEF Pointers
<1>9. CASE i.mnem = "call"
  <2>1. \A q \in Reg : n.regs[q] \in {Word(<<"ret", i.ea>>, 0), Junk, m.regs[q]}
    BY <1>9, ExecuteCall
  <2> QED
    BY <1>2, <2>1 DEF Pointers
<1>10. CASE i.mnem = "jmp"
  <2>1. Execute(i, m) = {m}
    BY <1>10, ExecuteCases
  <2> QED
    BY <2>1
<1>11. CASE i.mnem = "other"
  <2>1. Execute(i, m) = {Unforeseen(m, i)}
    BY <1>11, ExecuteCases
  <2>2. PICK R : Unforeseen(m, i).regs = Scramble(m, R).regs
    <3>1. PICK R, mem : Unforeseen(m, i) = [Scramble(m, R) EXCEPT !.mem = mem]
      BY DEF Unforeseen
    <3>2. Scramble(m, R) \in Machines
      BY AfterScramble
    <3>3. [Scramble(m, R) EXCEPT !.mem = mem].regs = Scramble(m, R).regs
      BY <3>2, MachineIsRecord
    <3> QED
      BY <3>1, <3>3
  <2>3. \A q \in Reg : n.regs[q] \in {Junk, m.regs[q]}
    BY <2>1, <2>2, AfterScramble
  <2> QED
    BY <1>2, <2>3 DEF Pointers
<1> QED
  BY <1>4, <1>5, <1>6, <1>7, <1>8, <1>9, <1>10, <1>11, UnderstoodOperands

\* Stores have gone to the stack and to the addresses that are named.
Where(p, c) == c.base = <<"stack", 0>> \/ \E a \in StoredTo(p) : c = Num(a)

\* What a supported instruction stores to is on the stack or named.
LEMMA StoredWhere ==
    ASSUME NEW p, NEW i \in InstructionsOf(p), IsInstruction(i), Understood(i), NEW c \in Stored(i)
    PROVE  Where(p, c)
<1>1. CASE c \in PushedTo(i)
  BY <1>1 DEF PushedTo, StackCell, Where
<1>2. CASE c \notin PushedTo(i)
  <2>1. PICK k \in Written(i) : IsMem(i.ops[k]) /\ c \in NamedCells(i, i.ops[k])
    BY <1>2 DEF Stored
  <2>2. CASE i.ops[k].kind = "MEM_DIRECT"
    <3>1. i.ops[k].imm \in StoredTo(p)
      BY <2>1, <2>2 DEF StoredTo
    <3>2. c = Num(i.ops[k].imm)
      BY <2>1, <2>2 DEF NamedCells, IsBased
    <3> QED
      BY <3>1, <3>2 DEF Where
  <2>3. CASE i.ops[k].kind # "MEM_DIRECT"
    <3>1. IsBased(i.ops[k]) /\ ~i.ops[k].seg
      BY <2>1, <2>3 DEF Understood, StoresOnStackOrFixed, NamedCells
    <3>2. \E d : c = StackCell(d)
      BY <2>1, <3>1 DEF NamedCells
    <3> QED
      BY <3>2 DEF Where, StackCell
  <2> QED
    BY <2>2, <2>3
<1> QED
  BY <1>1, <1>2

\* Both hold wherever an execution comes.
LEMMA EverywhereOn ==
    ASSUME NEW p, Analysable(p)
    PROVE  \A s \in Reach(p) :
              Pointers(s.machine) /\ \A c \in DOMAIN s.machine.mem : Where(p, c)
<1> DEFINE I == {s \in Reach(p) :
                   Pointers(s.machine) /\ \A c \in DOMAIN s.machine.mem : Where(p, c)}
<1>1. Start(p) \in I
  <2>1. Start(p) \in Reach(p)
    BY ReachIsClosed DEF Closed
  <2>2. Start(p).machine = EntryMachine(NoReg)
    BY DEF Start, At
  <2>3. Junk.base # <<"int", 0>> /\ SpReg \in Reg /\ FpReg \in Reg
    BY RegistersAssumption DEF Junk, Word
  <2> QED
    BY <2>1, <2>2, <2>3, EntryIsMachine DEF Pointers
<1>2. ASSUME NEW b \in p.blocks, NEW m \in Machines, NEW n \in 1..Len(p.code[b]),
             At(b, n, m) \in I, NEW k \in Execute(p.code[b][n], m),
             At(b, n + 1, k) \in Reach(p)
      PROVE  At(b, n + 1, k) \in I
  <2>1. PICK i : i = p.code[b][n]
    OBVIOUS
  <2>2. IsInstruction(i) /\ Understood(i) /\ i \in InstructionsOf(p) /\ RetReg \in WholeReg
    BY <2>1, CodeOf DEF Analysable
  <2>3. Pointers(m) /\ \A c \in DOMAIN m.mem : Where(p, c)
    BY <1>2 DEF At
  <2>4. Pointers(k)
    BY <1>2, <2>1, <2>2, <2>3, ExecuteKeepsPointers
  <2>5. DOMAIN k.mem \subseteq DOMAIN m.mem \cup Stored(i)
    <3>1. CASE i.mnem = "call"
      <4>1. k \in Execute(i, m)
        BY <2>1
      <4>2. k.mem = m.mem
        BY <2>2, <3>1, <4>1, ExecuteCall
      <4> QED
        BY <4>2
    <3>2. CASE i.mnem # "call"
      BY <1>2, <2>1, <2>2, <3>2, ExecuteFrame DEF Frame
    <3> QED
      BY <3>1, <3>2
  <2>6. \A c \in DOMAIN k.mem : Where(p, c)
    BY <2>2, <2>3, <2>5, StoredWhere
  <2> QED
    BY <1>2, <2>4, <2>6 DEF At
<1>3. ASSUME NEW b \in p.blocks, NEW m \in Machines, NEW n \in DOMAIN p.succ[b],
             At(b, Len(p.code[b]) + 1, m) \in I, At(p.succ[b][n], 1, m) \in Reach(p)
      PROVE  At(p.succ[b][n], 1, m) \in I
  BY <1>3 DEF At
<1>4. I \in SUBSET Reach(p)
  OBVIOUS
<1> HIDE DEF I
<1>5. Reach(p) = I
  BY <1>1, <1>2, <1>3, <1>4, ReachInduction
<1> QED
  BY <1>5 DEF I


-----------------------------------------------------------------------------
(* What is tracked, in the machine *)

\* A cell the resolver may track.
IsLocation(c) ==
    /\ c = [space |-> c.space, off |-> c.off] /\ c.off \in Int
    /\ c.space[1] # "seg"
    /\ c.space = <<"abs">> => c.off \in 0..(Modulus[WordSize] - 1)

\* Whole registers and such cells are tracked.
IsTracked(key) ==
    \/ key.of = "register" /\ key.reg \in WholeReg
    \/ key.of = "memory" /\ IsLocation(key.cell)

\* The cell of the machine, and the word that what is tracked holds.
Target(c) == IF OnStack(c) THEN StackCellOf(c) ELSE Num(c.off)
Holding(key, m) ==
    IF key.of = "register" THEN m.regs[key.reg] ELSE Content(m, Target(key.cell))

\* The region a reference is relative to.
LEMMA LocationSpace ==
    ASSUME NEW i, NEW base, NEW disp
    PROVE  /\ IsSequence(Location(i, base, disp).space)
           /\ Location(i, base, disp).space[1] \in {"abs", "sp-unknown", "sp", "fp", "reg"}
           /\ Location(i, base, disp)
                = [space |-> Location(i, base, disp).space, off |-> Location(i, base, disp).off]
           /\ base = NoReg => Location(i, base, disp) = [space |-> <<"abs">>, off |-> disp]
           /\ base # NoReg => Location(i, base, disp).space # <<"abs">>
           /\ base = SpReg /\ base # NoReg /\ i.delta # <<>> =>
                Location(i, base, disp) = [space |-> <<"sp">>, off |-> i.delta[1] + disp]
           /\ base = FpReg /\ base # SpReg /\ base # NoReg =>
                Location(i, base, disp) = [space |-> <<"fp">>, off |-> disp]
           /\ base \notin {NoReg, SpReg, FpReg} \/ (base # NoReg /\ base = SpReg /\ i.delta = <<>>)
                => Location(i, base, disp).space \notin {<<"abs">>, <<"sp">>, <<"fp">>}
<1>1. \A s : IsSequence(<<s>>) /\ \A t : IsSequence(<<s, t>>)
  <2>1. ASSUME NEW s, NEW t
        PROVE  IsSequence(<<s>>) /\ IsSequence(<<s, t>>)
    <3>1. <<s>> \in Seq({s, t}) /\ <<s, t>> \in Seq({s, t})
      OBVIOUS
    <3> QED
      BY <3>1, SequenceOfAnything
  <2> QED
    BY <2>1
<1>2. CASE base = NoReg
  <2>1. base # SpReg /\ base # FpReg
    BY <1>2, RegistersAssumption
  <2>2. Location(i, base, disp) = [space |-> <<"abs">>, off |-> disp]
    BY <1>2, <2>1 DEF Location
  <2> QED
    BY <1>1, <1>2, <2>1, <2>2
<1>3. CASE base # NoReg /\ base = SpReg /\ i.delta = <<>>
  BY <1>1, <1>3 DEF Location
<1>4. CASE base # NoReg /\ base = SpReg /\ i.delta # <<>>
  BY <1>1, <1>4 DEF Location
<1>5. CASE base # NoReg /\ base # SpReg /\ base = FpReg
  BY <1>1, <1>5 DEF Location
<1>6. CASE base # NoReg /\ base # SpReg /\ base # FpReg
  BY <1>1, <1>6 DEF Location
<1> QED
  BY <1>2, <1>3, <1>4, <1>5, <1>6

\* The cell asked for may be tracked.
LEMMA LocationIsTracked ==
    ASSUME NEW i, IsInstruction(i), NEW base, NEW disp \in Int,
           base = NoReg => disp \in 0..(Modulus[WordSize] - 1)
    PROVE  IsTracked(MemoryKey(Location(i, base, disp)))
<1>1. PICK c : c = Location(i, base, disp)
  OBVIOUS
<1>2. c = [space |-> c.space, off |-> c.off] /\ c.space[1] # "seg"
  BY <1>1, LocationSpace
<1>3. c.off \in Int
  BY <1>1, LocationIsCell
<1>4. c.space = <<"abs">> => c.off \in 0..(Modulus[WordSize] - 1)
  BY <1>1, LocationSpace
<1> QED
  BY <1>1, <1>2, <1>3, <1>4 DEF IsTracked, IsLocation, MemoryKey

\* A cell behind a segment base is none that is tracked.
LEMMA SegmentIsApart ==
    ASSUME NEW i, NEW op, op.seg
    PROVE  CellOf(i, op).space[1] = "seg"
<1>1. PICK loc : loc = IF op.kind = "MEM_DIRECT" THEN Location(i, NoReg, op.imm)
                                                 ELSE Location(i, op.reg, op.disp)
  OBVIOUS
<1>2. IsSequence(loc.space)
  BY <1>1, LocationSpace
<1>3. CellOf(i, op).space = <<"seg">> \o loc.space
  BY <1>1 DEF CellOf
<1> QED
  BY <1>2, <1>3, Calling

\* A store without index or segment base goes to the cell it names, which is at
\* an address or on the stack.
LEMMA FixedStore ==
    ASSUME NEW i, IsInstruction(i), Understood(i), NEW k \in Written(i), Fixed(i.ops[k]),
           NEW c, c = CellOf(i, i.ops[k])
    PROVE  /\ NamedCells(i, i.ops[k]) = {Target(c)}
           /\ c = [space |-> c.space, off |-> c.off]
           /\ \/ c.space = <<"abs">> /\ c.off = i.ops[k].imm /\ i.ops[k].kind = "MEM_DIRECT"
              \/ OnStack(c) /\ IsBased(i.ops[k])
<1>1. PICK op : op = i.ops[k]
  OBVIOUS
<1>2. ~op.seg /\ ~op.index /\ IsMem(op) /\ op.imm \in Int /\ op.disp \in Int
  BY <1>1, WrittenOperand DEF Fixed
<1>3. CASE op.kind = "MEM_DIRECT"
  <2>1. c = [space |-> <<"abs">>, off |-> op.imm]
    BY <1>1, <1>2, <1>3, LocationSpace DEF CellOf
  <2>2. NamedCells(i, op) = {Num(op.imm)}
    BY <1>2, <1>3 DEF NamedCells, IsBased
  <2>3. <<"abs">>[1] # <<"sp">>[1] /\ <<"abs">>[1] # <<"fp">>[1]
    OBVIOUS
  <2>4. Target(c) = Num(op.imm)
    BY <2>1, <2>3 DEF Target, OnStack
  <2> QED
    BY <1>1, <1>3, <2>1, <2>2, <2>4
<1>4. CASE op.kind # "MEM_DIRECT"
  <2>1. IsBased(op) /\ op.reg \in {SpReg, FpReg} /\ (op.reg = SpReg => i.delta # <<>>)
    BY <1>1, <1>2, <1>4 DEF Understood, StoresOnStackOrFixed, Fixed
  <2>2. op.reg # NoReg
    BY <2>1 DEF IsBased
  <2>3. PICK loc : loc = Location(i, op.reg, op.disp)
    OBVIOUS
  <2>4. c = [space |-> loc.space, off |-> loc.off]
    BY <1>1, <1>2, <1>4, <2>3 DEF CellOf
  <2>5. CASE op.reg = SpReg
    <3>1. loc = [space |-> <<"sp">>, off |-> i.delta[1] + op.disp]
      BY <2>1, <2>2, <2>3, <2>5, LocationSpace
    <3>2. i.delta[1] \in Int
      BY <2>1, <2>5, DepthIsNumber
    <3>3. <<"sp">>[1] # <<"fp">>[1]
      OBVIOUS
    <3>4. OnStack(c) /\ StackCellOf(c) = StackCell((i.delta[1] + op.disp) + 0)
      BY <2>4, <3>1, <3>3 DEF OnStack, StackCellOf
    <3>5. NamedCells(i, op) = {StackCell(op.disp + i.delta[1])}
      BY <1>2, <2>1, <2>5 DEF NamedCells
    <3>6. (i.delta[1] + op.disp) + 0 = op.disp + i.delta[1]
      BY <1>2, <3>2
    <3> QED
      BY <1>1, <2>1, <2>4, <3>4, <3>5, <3>6 DEF Target
  <2>6. CASE op.reg # SpReg
    <3>1. loc = [space |-> <<"fp">>, off |-> op.disp]
      BY <2>1, <2>2, <2>3, <2>6, LocationSpace
    <3>2. OnStack(c) /\ StackCellOf(c) = StackCell(op.disp + FpOffset)
      BY <2>4, <3>1 DEF OnStack, StackCellOf
    <3>3. NamedCells(i, op) = {StackCell(op.disp + FpOffset)}
      BY <1>2, <2>1, <2>6 DEF NamedCells
    <3> QED
      BY <1>1, <2>1, <2>4, <3>2, <3>3 DEF Target
  <2> QED
    BY <2>5, <2>6
<1> QED
  BY <1>3, <1>4

\* Such a cell is one of the function's ...
LEMMA StoreIsNamed ==
    ASSUME NEW p, NEW i \in InstructionsOf(p), NEW k \in Written(i), Fixed(i.ops[k])
    PROVE  CellOf(i, i.ops[k]) \in CellsStored(p)
  BY DEF CellsStored

\* ... and all of those are at an address or on the stack.
LEMMA CellStored ==
    ASSUME NEW p, Analysable(p), NEW c \in CellsStored(p)
    PROVE  c.space = <<"abs">> \/ OnStack(c)
<1>1. PICK i \in InstructionsOf(p) :
             \E k \in Written(i) : Fixed(i.ops[k]) /\ c = CellOf(i, i.ops[k])
  BY DEF CellsStored
<1>2. PICK k \in Written(i) : Fixed(i.ops[k]) /\ c = CellOf(i, i.ops[k])
  BY <1>1
<1>3. PICK b \in p.blocks : \E n \in DOMAIN p.code[b] : i = p.code[b][n]
  BY DEF InstructionsOf
<1>4. IsInstruction(i) /\ Understood(i)
  BY <1>3, CodeOf
<1> QED
  BY <1>2, <1>4, FixedStore


-----------------------------------------------------------------------------
(* Instructions that say nothing of what is tracked *)

\* What looking at an instruction says of a whole register.
LEMMA RegisterMatch ==
    ASSUME NEW i, IsInstruction(i), Understood(i), WordSize > 1,
           NEW key, key.of = "register", key.reg \in WholeReg
    PROVE  /\ Match(i, key).is = "pass" =>
                /\ i.mnem = "call" => key.reg \notin Clobbered \cup {RetReg}
                /\ i.mnem # "call" => key.reg \notin Touched(i)
           /\ Match(i, key).is = "definition" =>
                \/ i.mnem = "call" /\ key.reg = RetReg
                \/ /\ i.mnem # "call"
                   /\ Match(i, key).operand \in Written(i) /\ IsReg(i.ops[Match(i, key).operand])
                   /\ i.ops[Match(i, key).operand].reg = key.reg
                   /\ RegisterView(i.ops[Match(i, key).operand].reg,
                                   i.ops[Match(i, key).operand].size).definesParent
<1>1. key.reg \in Reg /\ key.reg \notin Narrow
  BY DEF WholeReg
<1> DEFINE view(n) == RegisterView(i.ops[n].reg, i.ops[n].size)
           whole == RegisterView(key.reg, 0)
           hits == {n \in DOMAIN i.ops : /\ IsReg(i.ops[n]) /\ i.ops[n].written
                                         /\ view(n).parent = whole.parent}
           write == view(Least(hits))
           defines == write.definesParent \/ (write.offset = 0 /\ write.bits >= whole.bits)
           clobbered == {key.reg, whole.parent} \cap Clobbered # {}
<1>2. Match(i, key) =
        IF i.mnem = "call" /\ key.reg = RetReg THEN Definition(1)
        ELSE IF i.mnem = "call" /\ clobbered THEN Stop("NO_DEFINITION_FOUND")
        ELSE IF hits = {} THEN Pass
        ELSE IF defines THEN Definition(Least(hits))
        ELSE Stop("UNSUPPORTED_OPERAND_SHAPE")
  BY DEF Match, MatchRegister
<1> HIDE DEF hits
<1>3. whole.parent = key.reg /\ whole.bits = 8 * WordSize
  BY <1>1 DEF RegisterView, Narrow
<1> HIDE DEF whole
<1>5. i.mnem = "call" => hits = {}
  <2>1. i.mnem = "call" => Written(i) = {}
    BY UnderstoodOperands
  <2> QED
    BY <2>1 DEF Written, hits
<1>6. hits = {} => key.reg \notin Touched(i)
  BY <1>3 DEF Touched, Written, hits
<1>7. clobbered <=> key.reg \in Clobbered
  BY <1>3
<1>8. hits \in SUBSET Nat /\ (hits # {} => Least(hits) \in hits)
  <2>1. hits \in SUBSET Nat
    BY OperandOf DEF hits
  <2> QED
    BY <2>1, LeastIsLeast
<1>9. ASSUME NEW h \in hits, NEW v, v = view(h),
              v.definesParent \/ (v.offset = 0 /\ v.bits >= whole.bits)
       PROVE  /\ h \in Written(i) /\ IsReg(i.ops[h]) /\ i.ops[h].reg = key.reg
              /\ RegisterView(i.ops[h].reg, i.ops[h].size).definesParent
  <2>1. PICK op : op = i.ops[h]
    OBVIOUS
  <2>2. /\ h \in DOMAIN i.ops /\ IsReg(op) /\ op.written /\ v = RegisterView(op.reg, op.size)
        /\ v.parent = key.reg
    BY <1>3, <1>9, <2>1 DEF hits
  <2>3. WordSize \in Nat /\ op.size \in 0..8
    <3>1. i.ops[h].size \in 0..8
      BY <2>2, OperandOf
    <3> QED
      BY <2>1, <3>1, WordModulus
  <2>4. op.reg \notin Narrow
    <3> SUFFICES ASSUME op.reg \in Narrow
                 PROVE  FALSE
      OBVIOUS
    <3>1. v.bits = 8 /\ ~v.definesParent
      BY <2>2 DEF RegisterView, Narrow
    <3>2. 8 >= 8 * WordSize
      BY <1>3, <1>9, <3>1
    <3> QED
      BY <2>3, <3>2
  <2>5. op.reg = key.reg
    BY <2>2, <2>4 DEF RegisterView, Narrow
  <2>6. v.bits >= 8 * WordSize => v.definesParent
    BY <2>2, <2>4 DEF RegisterView, Narrow
  <2>7. v.definesParent
    BY <1>3, <1>9, <2>6
  <2> QED
    BY <2>1, <2>2, <2>5, <2>7 DEF Written
<1>10. PICK h : h = Least(hits)
  OBVIOUS
<1>11. hits # {} /\ defines =>
         /\ h \in Written(i) /\ IsReg(i.ops[h]) /\ i.ops[h].reg = key.reg
         /\ RegisterView(i.ops[h].reg, i.ops[h].size).definesParent
  <2>1. hits # {} => h \in hits
    BY <1>8, <1>10
  <2>2. defines => \E v : /\ v = view(h)
                          /\ v.definesParent \/ (v.offset = 0 /\ v.bits >= whole.bits)
    BY <1>10
  <2> HIDE DEF defines, view
  <2> QED
    BY <1>9, <2>1, <2>2
<1> HIDE DEF defines, clobbered
<1>12. Match(i, key).is = "pass" =>
         hits = {} /\ (i.mnem = "call" => key.reg \notin Clobbered \cup {RetReg})
  <2>1. Match(i, key).is = "pass" => hits = {}
    BY <1>2, <1>5 DEF Definition, Stop, Pass
  <2>2. Match(i, key).is = "pass" /\ i.mnem = "call" => key.reg \notin Clobbered \cup {RetReg}
    BY <1>2, <1>7 DEF Definition, Stop, Pass
  <2> QED
    BY <2>1, <2>2
<1>13. Match(i, key).is = "definition" =>
         \/ i.mnem = "call" /\ key.reg = RetReg
         \/ hits # {} /\ defines /\ Match(i, key).operand = h
  BY <1>2, <1>10 DEF Definition, Stop, Pass
<1> QED
  BY <1>5, <1>6, <1>11, <1>12, <1>13

\* A call leaves a whole register alone that it does not destroy.
LEMMA CallKeeps ==
    ASSUME NEW i, IsInstruction(i), NEW m \in Machines, NEW n \in Execute(i, m), i.mnem = "call",
           RetReg \in WholeReg, NEW q \in WholeReg, q \notin Clobbered, q # RetReg
    PROVE  n.regs[q] = m.regs[q]
<1>1. PICK w : w = Word(<<"ret", i.ea>>, 0)
  OBVIOUS
<1>2. PICK s : s = Scramble(m, Clobbered)
  OBVIOUS
<1>3. n = SetRegister(s, RetReg, w)
  BY <1>1, <1>2, ExecuteCases
<1>4. w \in Words /\ RetReg \in Reg /\ RetReg \notin Narrow
  BY <1>1, WordsAreMade DEF IsInstruction, WholeReg
<1>5. s \in Machines /\ s.regs[q] = m.regs[q]
  BY <1>2, AfterScramble
<1>6. n.regs[q] = s.regs[q]
  BY <1>3, <1>4, <1>5, AfterSetRegister
<1> QED
  BY <1>5, <1>6

\* A whole register it says nothing of is left alone.
LEMMA QuietRegister ==
    ASSUME NEW i, IsInstruction(i), Understood(i), NEW r \in WholeReg,
           WordSize > 1, RetReg \in WholeReg,
           Match(i, RegisterKey(r)).is = "pass", NEW m \in Machines, NEW n \in Execute(i, m)
    PROVE  n.regs[r] = m.regs[r]
<1>1. /\ i.mnem = "call" => r \notin Clobbered \cup {RetReg}
      /\ i.mnem # "call" => r \notin Touched(i)
  <2>1. RegisterKey(r).of = "register" /\ RegisterKey(r).reg = r
    BY DEF RegisterKey
  <2> QED
    BY <2>1, RegisterMatch
<1>2. CASE i.mnem = "call"
  <2>1. r \notin Clobbered /\ r # RetReg
    BY <1>1, <1>2
  <2> QED
    BY <1>2, <2>1, CallKeeps
<1>3. CASE i.mnem # "call"
  BY <1>1, <1>3, ExecuteFrame DEF Frame
<1> QED
  BY <1>2, <1>3

\* What looking at an instruction says of a cell.
LEMMA MemoryMatch ==
    ASSUME NEW i, IsInstruction(i), NEW c, IsLocation(c),
           NEW found, found = Match(i, MemoryKey(c))
    PROVE  /\ found.is = "pass" =>
                \A k \in Written(i) :
                   IsMem(i.ops[k]) /\ (i.ops[k].kind = "MEM_DIRECT" \/ i.ops[k].reg # NoReg)
                     => IF i.ops[k].index THEN CellOf(i, i.ops[k]).space # c.space
                                          ELSE CellOf(i, i.ops[k]) # c
           /\ found.is = "definition" =>
                /\ found.operand \in Written(i) /\ Fixed(i.ops[found.operand])
                /\ CellOf(i, i.ops[found.operand]) = c
<1> DEFINE hits == {n \in DOMAIN i.ops :
                   /\ IsMem(i.ops[n]) /\ i.ops[n].written
                   /\ i.ops[n].kind = "MEM_DIRECT" \/ i.ops[n].reg # NoReg
                   /\ IF i.ops[n].index THEN CellOf(i, i.ops[n]).space = c.space
                                        ELSE CellOf(i, i.ops[n]) = c}
<1>1. found = IF hits = {} THEN Pass
              ELSE IF i.ops[Least(hits)].index THEN Stop("UNSUPPORTED_OPERAND_SHAPE")
              ELSE Definition(Least(hits))
  BY DEF Match, MatchMemory, MemoryKey
<1>2. hits \in SUBSET Nat
  BY OperandOf
<1>3. hits # {} => Least(hits) \in hits
  BY <1>2, LeastIsLeast
<1>4. ASSUME NEW k \in hits, ~i.ops[k].index
      PROVE  k \in Written(i) /\ Fixed(i.ops[k]) /\ CellOf(i, i.ops[k]) = c
  <2>1. ~i.ops[k].seg
    BY <1>4, SegmentIsApart DEF IsLocation
  <2> QED
    BY <1>4, <2>1 DEF Written, Fixed
<1>5. ASSUME hits = {}, NEW k \in Written(i), IsMem(i.ops[k]),
             i.ops[k].kind = "MEM_DIRECT" \/ i.ops[k].reg # NoReg
      PROVE  IF i.ops[k].index THEN CellOf(i, i.ops[k]).space # c.space
                               ELSE CellOf(i, i.ops[k]) # c
  BY <1>5 DEF Written
<1> HIDE DEF hits
<1>6. found.is = "pass" => hits = {}
  BY <1>1 DEF Definition, Stop, Pass
<1>7. found.is = "definition" =>
        hits # {} /\ found.operand = Least(hits) /\ ~i.ops[Least(hits)].index
  BY <1>1 DEF Definition, Stop, Pass
<1> QED
  BY <1>3, <1>4, <1>5, <1>6, <1>7

\* A cell it says nothing of is not stored to, if the function stores to it by
\* name or it is at an address.
LEMMA QuietCell ==
    ASSUME NEW p, Analysable(p), NEW i \in InstructionsOf(p), IsInstruction(i), Understood(i),
           NEW c, IsLocation(c), c.space = <<"abs">> \/ c \in CellsStored(p),
           Match(i, MemoryKey(c)).is = "pass"
    PROVE  Target(c) \notin Stored(i)
<1>1. \A k \in Written(i) :
         IsMem(i.ops[k]) /\ (i.ops[k].kind = "MEM_DIRECT" \/ i.ops[k].reg # NoReg)
           => IF i.ops[k].index THEN CellOf(i, i.ops[k]).space # c.space
                                ELSE CellOf(i, i.ops[k]) # c
  BY MemoryMatch
<1>2. c.space = <<"abs">> \/ (OnStack(c) /\ c \in CellsStored(p))
  BY CellStored
<1>3. /\ c.space = <<"abs">> => ~OnStack(c) /\ Target(c).base = <<"int", 0>>
      /\ OnStack(c) => Target(c) = StackCellOf(c) /\ Target(c).base = <<"stack", 0>>
  <2>1. <<"abs">>[1] # <<"sp">>[1] /\ <<"abs">>[1] # <<"fp">>[1]
    OBVIOUS
  <2> QED
    BY <2>1 DEF OnStack, Target, Num, Word, StackCellOf, StackCell
<1>4. <<"int", 0>> # <<"stack", 0>>
  OBVIOUS
<1>5. ASSUME Target(c) \in PushedTo(i)
      PROVE  FALSE
  <2>1. i.mnem = "push" /\ Target(c) = StackCell(i.delta[1] - WordSize)
    BY <1>5 DEF PushedTo
  <2>2. CASE OnStack(c) /\ c \in CellsStored(p)
    BY <1>3, <2>1, <2>2 DEF Analysable, SeparateCells
  <2>3. CASE c.space = <<"abs">>
    BY <1>3, <1>4, <2>1, <2>3 DEF StackCell
  <2> QED
    BY <1>2, <2>2, <2>3
<1>6. ASSUME NEW k \in Written(i), IsMem(i.ops[k]), Target(c) \in NamedCells(i, i.ops[k])
      PROVE  FALSE
  <2>1. PICK op : op = i.ops[k]
    OBVIOUS
  <2>2. ~op.seg
    BY <1>6, <2>1 DEF NamedCells
  <2>3. op.kind = "MEM_DIRECT" \/ (IsBased(op) /\ op.reg \in {SpReg, FpReg} /\ op.reg # NoReg)
    BY <1>6, <2>1, <2>2 DEF Understood, StoresOnStackOrFixed, IsBased
  <2>4. /\ op.index => CellOf(i, op).space # c.space
        /\ ~op.index => CellOf(i, op) # c
    BY <1>1, <1>6, <2>1, <2>3
  <2>5. CASE op.index /\ op.kind = "MEM_DIRECT"
    <3>1. CellOf(i, op).space = <<"abs">>
      BY <2>2, <2>5, LocationSpace DEF CellOf
    <3>2. NamedCells(i, op) = {Num(op.imm)}
      BY <2>2, <2>5 DEF NamedCells, IsBased
    <3>3. Num(op.imm).base = <<"int", 0>>
      BY DEF Num, Word
    <3> QED
      BY <1>2, <1>3, <1>4, <1>6, <2>1, <2>4, <2>5, <3>1, <3>2, <3>3
  <2>6. CASE op.index /\ op.kind # "MEM_DIRECT"
    <3>1. OnStack(c) => CellOf(i, op).space = c.space
      BY <1>2, <1>3, <2>1, <2>3, <2>6, <1>6 DEF Analysable, SeparateCells
    <3>2. \E d : Target(c) = StackCell(d)
      BY <1>6, <2>1, <2>2, <2>3, <2>6 DEF NamedCells
    <3>3. Target(c).base = <<"stack", 0>>
      BY <3>2 DEF StackCell
    <3> QED
      BY <1>2, <1>3, <1>4, <2>4, <2>6, <3>1, <3>3
  <2>7. CASE ~op.index
    <3>1. Fixed(op)
      BY <1>6, <2>1, <2>2, <2>7 DEF Fixed
    <3>2. PICK d : d = CellOf(i, op)
      OBVIOUS
    <3>3. /\ NamedCells(i, op) = {Target(d)} /\ d = [space |-> d.space, off |-> d.off]
          /\ \/ d.space = <<"abs">> /\ d.off = op.imm /\ op.kind = "MEM_DIRECT"
             \/ OnStack(d)
      BY <2>1, <3>1, <3>2, FixedStore
    <3>4. Target(c) = Target(d) /\ c # d
      BY <1>6, <2>1, <2>4, <2>7, <3>2, <3>3
    <3>5. CASE OnStack(d)
      <4>1. Target(d) = StackCellOf(d) /\ StackCellOf(d).base = <<"stack", 0>>
        BY <3>5 DEF Target, StackCellOf, StackCell
      <4>2. OnStack(c) /\ c \in CellsStored(p)
        BY <1>2, <1>3, <1>4, <3>4, <4>1
      <4>3. d \in CellsStored(p)
        BY <2>1, <3>1, <3>2, StoreIsNamed
      <4> QED
        BY <1>3, <3>4, <3>5, <4>1, <4>2, <4>3 DEF Analysable, SeparateCells
    <3>6. CASE d.space = <<"abs">> /\ d.off = op.imm /\ op.kind = "MEM_DIRECT"
      <4>1. op.imm \in 0..(Modulus[WordSize] - 1)
        BY <1>6, <2>1, <3>6 DEF Understood, Written
      <4>2. Target(d) = [base |-> <<"int", 0>>, off |-> op.imm]
        <5>1. <<"abs">>[1] # <<"sp">>[1] /\ <<"abs">>[1] # <<"fp">>[1]
          OBVIOUS
        <5>2. Target(d) = Num(op.imm)
          BY <3>6, <5>1 DEF Target, OnStack
        <5> QED
          BY <4>1, <5>2, SmallNumber
      <4>3. c.space = <<"abs">>
        BY <1>2, <1>3, <1>4, <3>4, <4>2
      <4>4. Target(c) = [base |-> <<"int", 0>>, off |-> c.off]
        <5>1. c.off \in 0..(Modulus[WordSize] - 1)
          BY <4>3 DEF IsLocation
        <5> QED
          BY <1>3, <4>3, <5>1, SmallNumber DEF Target
      <4>5. c.off = d.off
        BY <3>4, <3>6, <4>2, <4>4
      <4>6. c = [space |-> c.space, off |-> c.off]
        BY DEF IsLocation
      <4> QED
        BY <3>3, <3>4, <3>6, <4>3, <4>5, <4>6
    <3> QED
      BY <3>3, <3>5, <3>6
  <2> QED
    BY <2>5, <2>6, <2>7
<1> QED
  BY <1>5, <1>6 DEF Stored

\* Then it neither changes nor becomes one of those written.
LEMMA QuietMemory ==
    ASSUME NEW p, Analysable(p), NEW i \in InstructionsOf(p), IsInstruction(i), Understood(i),
           NEW c, IsLocation(c), c.space = <<"abs">> \/ c \in CellsStored(p),
           Match(i, MemoryKey(c)).is = "pass", NEW m \in Machines, NEW n \in Execute(i, m)
    PROVE  /\ Content(n, Target(c)) = Content(m, Target(c))
           /\ Target(c) \in DOMAIN n.mem => Target(c) \in DOMAIN m.mem
<1>1. Target(c) \notin Stored(i)
  BY QuietCell
<1>2. CASE i.mnem = "call"
  <2>1. RetReg \in WholeReg
    BY DEF Analysable
  <2>2. n.mem = m.mem
    BY <1>2, <2>1, ExecuteCall
  <2> QED
    BY <2>2 DEF Content
<1>3. CASE i.mnem # "call"
  <2>1. Frame(i, m, n)
    BY <1>3, ExecuteFrame
  <2> QED
    BY <1>1, <2>1 DEF Frame
<1> QED
  BY <1>2, <1>3


\* What looking at an instruction says depends on what is tracked alone.
LEMMA MatchByKind ==
    ASSUME NEW i, NEW key, IsTracked(key)
    PROVE  /\ key.of \in {"register", "memory"}
           /\ key.of = "register" =>
                key.reg \in WholeReg /\ Match(i, RegisterKey(key.reg)) = Match(i, key)
           /\ key.of = "memory" =>
                IsLocation(key.cell) /\ Match(i, MemoryKey(key.cell)) = Match(i, key)
  BY DEF IsTracked, Match, RegisterKey, MemoryKey

\* An instruction that says nothing of what is tracked leaves alone what it holds.
LEMMA QuietStep ==
    ASSUME NEW p, Analysable(p), NEW i \in InstructionsOf(p), IsInstruction(i), Understood(i),
           NEW key, IsTracked(key), Match(i, key).is = "pass",
           key.of = "memory" => key.cell.space = <<"abs">> \/ key.cell \in CellsStored(p),
           NEW m \in Machines, NEW n \in Execute(i, m)
    PROVE  /\ Holding(key, n) = Holding(key, m)
           /\ key.of = "memory" /\ Target(key.cell) \in DOMAIN n.mem =>
                Target(key.cell) \in DOMAIN m.mem
<1>1. WordSize > 1 /\ RetReg \in WholeReg
  BY DEF Analysable
<1>2. CASE key.of = "register"
  <2>1. key.reg \in WholeReg /\ Match(i, RegisterKey(key.reg)).is = "pass"
    BY <1>2, MatchByKind
  <2>2. n.regs[key.reg] = m.regs[key.reg]
    BY <1>1, <2>1, QuietRegister
  <2> QED
    BY <1>2, <2>2 DEF Holding
<1>3. CASE key.of = "memory"
  <2>1. PICK c : c = key.cell
    OBVIOUS
  <2>2. IsLocation(c) /\ Match(i, MemoryKey(c)).is = "pass"
    BY <1>3, <2>1, MatchByKind
  <2>3. c.space = <<"abs">> \/ c \in CellsStored(p)
    BY <1>3, <2>1
  <2>4. /\ Content(n, Target(c)) = Content(m, Target(c))
        /\ Target(c) \in DOMAIN n.mem => Target(c) \in DOMAIN m.mem
    BY <2>2, <2>3, QuietMemory
  <2> QED
    BY <1>3, <2>1, <2>4 DEF Holding
<1> QED
  BY <1>2, <1>3, MatchByKind

-----------------------------------------------------------------------------
(* What a walk may say *)

\* The values that are right for what is tracked just after instruction n of a
\* block; a cell gets one by name.
Gives(p, key, b, n) ==
    {v \in Known :
        /\ key.of = "memory" => key.cell \in CellsStored(p)
        /\ \A m \in Before(p, b, n) : \A k \in Execute(p.code[b][n], m) :
              Denotes(v, Holding(key, k))}

\* A set of points a walk may have come through on its way to the definitions of
\* v: each is right behind one, or the walk goes on from it to others of the set,
\* or comes from a block of V.
Region(p, key, v, V, R) ==
    \A b, n : <<b, n>> \in R =>
       /\ b \in p.blocks /\ n \in 0..Len(p.code[b])
       /\ n > 0 => \/ Match(p.code[b][n], key).is = "pass" /\ <<b, n - 1>> \in R
                   \/ v \in Gives(p, key, b, n)
       /\ n = 0 => \/ b \in V
                   \/ /\ p.pred[b] # <<>>
                      /\ \A k \in 1..Len(p.pred[b]) :
                           <<p.pred[b][k], Len(p.code[p.pred[b][k]])>> \in R
                   \/ p.pred[b] = <<>> /\ v = NotFound

\* The answers a walk from a point may give.
WalkOK(p, key, b, n, V) ==
    Failure \cup {v \in Outcome : /\ v = NotFound => key.of = "memory"
                                  /\ \E R : <<b, n>> \in R /\ Region(p, key, v, V, R)}

\* A known value is no sentinel, and no failure.
LEMMA KnownIsNoSentinel ==
    ASSUME NEW v \in Known
    PROVE  /\ v \notin Sentinel /\ v # NotFound /\ v # Cycle /\ ~IsUnknown(v)
           /\ v.tag \in {"Concrete", "Symbolic", "MemoryRef"}
           /\ v \in Result /\ v \in Outcome
<1>1. v.tag \in {"Concrete", "Symbolic", "MemoryRef"}
  BY DEF Known, Scalar
<1> QED
  BY <1>1, TagsTellApart DEF Sentinel, Result, Outcome, IsUnknown

\* A walk that found a known value found it wherever an execution can come from.
THEOREM WalkHolds ==
    ASSUME NEW p, Analysable(p), NEW key, IsTracked(key), NEW v \in Known,
           NEW R, Region(p, key, v, {}, R)
    PROVE  \A s \in Reach(p) : <<s.block, s.pc - 1>> \in R =>
              /\ Denotes(v, Holding(key, s.machine))
              /\ key.of = "memory" => key.cell \in CellsStored(p)
<1> DEFINE Found(s) == /\ Denotes(v, Holding(key, s.machine))
                       /\ key.of = "memory" => key.cell \in CellsStored(p)
           I == {s \in Reach(p) : <<s.block, s.pc - 1>> \in R => Found(s)}
<1>1. v # NotFound
  BY KnownIsNoSentinel
<1>2. Start(p) \in I
  <2>1. Start(p) \in Reach(p) /\ Start(p).block = p.entry /\ Start(p).pc - 1 = 0
    BY ReachIsClosed DEF Closed, Start, At
  <2>2. p.pred[p.entry] = <<>>
    BY DEF Analysable, IsFlowChart
  <2>3. <<p.entry, 0>> \notin R
    BY <1>1, <2>2 DEF Region
  <2> QED
    BY <2>1, <2>3
<1>3. ASSUME NEW b \in p.blocks, NEW m \in Machines, NEW n \in 1..Len(p.code[b]),
             At(b, n, m) \in I, NEW k \in Execute(p.code[b][n], m),
             At(b, n + 1, k) \in Reach(p)
      PROVE  At(b, n + 1, k) \in I
  <2>1. PICK i : i = p.code[b][n]
    OBVIOUS
  <2>2. IsInstruction(i) /\ Understood(i) /\ i \in InstructionsOf(p)
    BY <2>1, CodeOf
  <2>3. n \in Nat /\ n > 0 /\ (n + 1) - 1 = n
    BY CodeOf
  <2>4. At(b, n, m) \in Reach(p) /\ (<<b, n - 1>> \in R => Found(At(b, n, m)))
    BY <1>3 DEF At
  <2>5. m \in Before(p, b, n)
    BY <2>4 DEF Before
  <2>6. ASSUME <<b, n>> \in R
        PROVE  Found(At(b, n + 1, k))
    <3>1. \/ Match(i, key).is = "pass" /\ <<b, n - 1>> \in R
          \/ v \in Gives(p, key, b, n)
      BY <2>1, <2>3, <2>6 DEF Region
    <3>2. CASE Match(i, key).is = "pass" /\ <<b, n - 1>> \in R
      <4>1. /\ Denotes(v, Holding(key, m))
            /\ key.of = "memory" => key.cell \in CellsStored(p)
        BY <2>4, <3>2 DEF At
      <4>2. Holding(key, k) = Holding(key, m)
        BY <1>3, <2>1, <2>2, <3>2, <4>1, QuietStep
      <4> QED
        BY <4>1, <4>2 DEF At
    <3>3. CASE v \in Gives(p, key, b, n)
      BY <1>3, <2>5, <3>3 DEF Gives, At
    <3> QED
      BY <3>1, <3>2, <3>3
  <2> HIDE DEF Found
  <2>7. At(b, n + 1, k).block = b /\ At(b, n + 1, k).pc - 1 = n
    BY <2>3 DEF At
  <2> QED
    BY <1>3, <2>6, <2>7
<1>4. ASSUME NEW b \in p.blocks, NEW m \in Machines, NEW n \in DOMAIN p.succ[b],
             At(b, Len(p.code[b]) + 1, m) \in I, At(p.succ[b][n], 1, m) \in Reach(p)
      PROVE  At(p.succ[b][n], 1, m) \in I
  <2>1. PICK c : c = p.succ[b][n]
    OBVIOUS
  <2>2. c \in p.blocks
    BY <2>1, SuccessorOf
  <2>3. PICK k \in DOMAIN p.pred[c] : p.pred[c][k] = b
    BY <2>1, SuccessorOf
  <2>4. DOMAIN p.pred[c] = 1..Len(p.pred[c]) /\ Len(p.code[b]) \in Nat
    BY <2>2, CodeOf
  <2>5. p.pred[c] # <<>>
    BY <2>3
  <2>6. <<c, 0>> \in R => <<b, Len(p.code[b])>> \in R
    BY <1>1, <2>3, <2>4, <2>5 DEF Region
  <2>7. <<b, Len(p.code[b])>> \in R => Found(At(b, 1, m))
    <3>1. (Len(p.code[b]) + 1) - 1 = Len(p.code[b])
      BY <2>4
    <3> QED
      BY <1>4, <3>1 DEF At
  <2>8. <<c, 0>> \in R => Found(At(c, 1, m))
    BY <2>6, <2>7 DEF At
  <2>9. At(c, 1, m).block = c /\ At(c, 1, m).pc - 1 = 0
    BY DEF At
  <2> HIDE DEF Found
  <2> QED
    BY <1>4, <2>1, <2>8, <2>9
<1>5. I \in SUBSET Reach(p)
  OBVIOUS
<1> HIDE DEF I
<1>6. Reach(p) = I
  BY <1>2, <1>3, <1>4, <1>5, ReachInduction
<1> QED
  BY <1>6 DEF I

\* A walk for an address that found no definition says that nothing was stored
\* there.
LEMMA WalkMissing ==
    ASSUME NEW p, Analysable(p), NEW key, IsTracked(key), key.of = "memory",
           key.cell.space = <<"abs">>, NEW v \in Sentinel, NEW R, Region(p, key, v, {}, R)
    PROVE  \A s \in Reach(p) : <<s.block, s.pc - 1>> \in R =>
              Target(key.cell) \notin DOMAIN s.machine.mem
<1> DEFINE Missing(s) == Target(key.cell) \notin DOMAIN s.machine.mem
           I == {s \in Reach(p) : <<s.block, s.pc - 1>> \in R => Missing(s)}
<1>1. \A b, n : v \notin Gives(p, key, b, n)
  BY KnownIsNoSentinel DEF Gives
<1>2. Start(p) \in I
  <2>1. Start(p) \in Reach(p)
    BY ReachIsClosed DEF Closed
  <2>2. DOMAIN Start(p).machine.mem = {}
    BY EntryIsMachine DEF Start, At
  <2> QED
    BY <2>1, <2>2
<1>3. ASSUME NEW b \in p.blocks, NEW m \in Machines, NEW n \in 1..Len(p.code[b]),
             At(b, n, m) \in I, NEW k \in Execute(p.code[b][n], m),
             At(b, n + 1, k) \in Reach(p)
      PROVE  At(b, n + 1, k) \in I
  <2>1. PICK i : i = p.code[b][n]
    OBVIOUS
  <2>2. IsInstruction(i) /\ Understood(i) /\ i \in InstructionsOf(p)
    BY <2>1, CodeOf
  <2>3. n \in Nat /\ n > 0 /\ (n + 1) - 1 = n
    BY CodeOf
  <2>4. <<b, n - 1>> \in R => Missing(At(b, n, m))
    BY <1>3 DEF At
  <2>5. ASSUME <<b, n>> \in R
        PROVE  Missing(At(b, n + 1, k))
    <3>1. Match(i, key).is = "pass" /\ <<b, n - 1>> \in R
      BY <1>1, <2>1, <2>3, <2>5 DEF Region
    <3>2. Target(key.cell) \in DOMAIN k.mem => Target(key.cell) \in DOMAIN m.mem
      BY <1>3, <2>1, <2>2, <3>1, QuietStep
    <3> QED
      BY <2>4, <3>1, <3>2 DEF At
  <2> HIDE DEF Missing
  <2>6. At(b, n + 1, k).block = b /\ At(b, n + 1, k).pc - 1 = n
    BY <2>3 DEF At
  <2> QED
    BY <1>3, <2>5, <2>6
<1>4. ASSUME NEW b \in p.blocks, NEW m \in Machines, NEW n \in DOMAIN p.succ[b],
             At(b, Len(p.code[b]) + 1, m) \in I, At(p.succ[b][n], 1, m) \in Reach(p)
      PROVE  At(p.succ[b][n], 1, m) \in I
  <2>1. PICK c : c = p.succ[b][n]
    OBVIOUS
  <2>2. c \in p.blocks
    BY <2>1, SuccessorOf
  <2>3. PICK k \in DOMAIN p.pred[c] : p.pred[c][k] = b
    BY <2>1, SuccessorOf
  <2>4. DOMAIN p.pred[c] = 1..Len(p.pred[c]) /\ Len(p.code[b]) \in Nat
    BY <2>2, CodeOf
  <2>5. p.pred[c] # <<>>
    BY <2>3
  <2>6. <<c, 0>> \in R => <<b, Len(p.code[b])>> \in R
    BY <2>3, <2>4, <2>5 DEF Region
  <2>7. <<b, Len(p.code[b])>> \in R => Missing(At(b, 1, m))
    <3>1. (Len(p.code[b]) + 1) - 1 = Len(p.code[b])
      BY <2>4
    <3> QED
      BY <1>4, <3>1 DEF At
  <2>8. <<c, 0>> \in R => Missing(At(c, 1, m))
    BY <2>6, <2>7 DEF At
  <2>9. At(c, 1, m).block = c /\ At(c, 1, m).pc - 1 = 0
    BY DEF At
  <2> HIDE DEF Missing
  <2> QED
    BY <1>4, <2>1, <2>8, <2>9
<1>5. I \in SUBSET Reach(p)
  OBVIOUS
<1> HIDE DEF I
<1>6. Reach(p) = I
  BY <1>2, <1>3, <1>4, <1>5, ReachInduction
<1> QED
  BY <1>6 DEF I


-----------------------------------------------------------------------------
(* The join of several paths *)

\* The paths of a join that is known all hold what it says.
LEMMA ScalarsAgree ==
    ASSUME NEW I \in SUBSET Nat, I # {}, NEW vs, \A j \in I : vs[j].tag # "MutatedRegion",
           ~IsUnknown(ScalarJoinOver(I, vs))
    PROVE  \A j \in I : vs[j] = ScalarJoinOver(I, vs)
<1>1. PICK first : first = vs[Least(I)]
  OBVIOUS
<1>2. PICK apart : apart = {j \in I : ~Agrees(first, vs[j])}
  OBVIOUS
<1>3. ScalarJoinOver(I, vs) = IF apart = {} THEN first ELSE ScalarJoin(first, vs[Least(apart)])
  BY <1>1, <1>2 DEF ScalarJoinOver
<1>4. CASE apart = {}
  <2>1. \A j \in I : Agrees(first, vs[j])
    BY <1>2, <1>4
  <2>2. \A j \in I : first = vs[j]
    BY <2>1 DEF Agrees
  <2> QED
    BY <1>3, <1>4, <2>2
<1>5. CASE apart # {}
  <2>1. Least(apart) \in apart
    BY <1>2, <1>5, LeastIsLeast
  <2>2. ~Agrees(first, vs[Least(apart)])
    BY <1>2, <2>1
  <2>3. IsUnknown(ScalarJoin(first, vs[Least(apart)]))
    BY <2>2, ScalarJoinKeepsUnknown
  <2> QED
    BY <1>3, <1>5, <2>3
<1> QED
  BY <1>4, <1>5

\* Several reads of one cell join to one that is right where each of them is.
LEMMA CellJoinDenotes ==
    ASSUME NEW I \in SUBSET Nat, I # {}, NEW vs,
           \A j \in I : vs[j] \in Known /\ vs[j].tag = "MemoryRef",
           NEW k \in I, NEW w, Denotes(vs[k], w)
    PROVE  Denotes(CellJoinOver(I, vs), w)
<1>1. PICK cs : cs = [j \in I |-> vs[j].content]
  OBVIOUS
<1>2. PICK c : c = ScalarJoinOver(I, cs)
  OBVIOUS
<1>3. PICK J : J = CellJoinOver(I, vs)
  OBVIOUS
<1>4. J.tag = "MemoryRef" /\ J.content = c
  BY <1>1, <1>2, <1>3 DEF CellJoinOver, MemoryRef
<1>5. ASSUME c.tag = "Concrete"
      PROVE  w = Num(c.value)
  <2>1. ~IsUnknown(c)
    BY <1>5 DEF IsUnknown
  <2>2. \A j \in I : cs[j] \in Value
    <3>1. ASSUME NEW j \in I
          PROVE  vs[j].content \in Value
      BY <3>1, KnownIsNoSentinel, ResultCases
    <3> QED
      BY <1>1, <3>1
  <2>3. \A j \in I : cs[j].tag # "MutatedRegion"
    BY <2>2 DEF Value, Scalar, Opaque
  <2>4. cs[k] = c
    BY <1>2, <2>1, <2>3, ScalarsAgree
  <2>5. vs[k].content = c
    BY <1>1, <2>4
  <2> QED
    BY <1>5, <2>5 DEF Denotes
<1> QED
  BY <1>3, <1>4, <1>5 DEF Denotes

\* The join of known paths that is known is right where any one of them is.
LEMMA JoinDenotes ==
    ASSUME NEW I \in SUBSET Nat, I # {}, NEW vs, \A j \in I : vs[j] \in Known,
           ~IsUnknown(JoinOver(I, vs)), NEW k \in I, NEW w, Denotes(vs[k], w)
    PROVE  Denotes(JoinOver(I, vs), w)
<1>1. PICK first : first = vs[Least(I)]
  OBVIOUS
<1>2. PICK apart : apart = {i \in I : ~SameCell(first, vs[i])}
  OBVIOUS
<1>3. PICK j : j = Least(apart)
  OBVIOUS
<1>4. Least(I) \in I /\ first \in Known
  BY <1>1, LeastIsLeast
<1>5. CASE first.tag # "MemoryRef"
  <2>1. JoinOver(I, vs) = ScalarJoinOver(I, vs)
    BY <1>1, <1>5 DEF JoinOver
  <2>2. \A i \in I : vs[i].tag # "MutatedRegion"
    <3>1. \A i \in I : vs[i].tag \in {"Concrete", "Symbolic", "MemoryRef"}
      BY KnownIsNoSentinel
    <3> QED
      BY <3>1
  <2>3. vs[k] = ScalarJoinOver(I, vs)
    BY <2>1, <2>2, ScalarsAgree
  <2> QED
    BY <2>1, <2>3
<1>6. CASE first.tag = "MemoryRef" /\ apart = {}
  <2>1. JoinOver(I, vs) = CellJoinOver(I, vs)
    BY <1>1, <1>2, <1>6 DEF JoinOver
  <2>2. \A i \in I : vs[i].tag = "MemoryRef"
    BY <1>2, <1>6 DEF SameCell
  <2> QED
    BY <2>1, <2>2, CellJoinDenotes
<1>7. CASE first.tag = "MemoryRef" /\ apart # {}
  <2>1. PICK c : c = CellJoinOver({i \in I : i < j}, vs)
    OBVIOUS
  <2>2. JoinOver(I, vs) = ScalarJoin(c, vs[j])
    BY <1>1, <1>2, <1>3, <1>7, <2>1 DEF JoinOver
  <2>3. j \in apart /\ \A i \in apart : j <= i
    BY <1>2, <1>3, <1>7, LeastIsLeast
  <2>4. j \in I /\ ~SameCell(first, vs[j]) /\ vs[j].tag # "MutatedRegion"
    BY <1>2, <2>3, KnownIsNoSentinel
  <2>5. SameCell(first, first)
    BY <1>7 DEF SameCell
  <2>6. Least(I) \notin apart
    BY <1>1, <1>2, <2>5
  <2>7. PICK l \in Nat : l = Least(I)
    BY <1>4
  <2>8. l <= j /\ l # j
    BY <1>4, <2>3, <2>4, <2>6, <2>7, LeastIsLeast
  <2>9. j \in Nat
    BY <2>4
  <2>10. PICK B : B = {i \in I : i < j}
    OBVIOUS
  <2>11. l \in B /\ B \in SUBSET Nat
    <3>1. l \in I /\ l < j
      BY <1>4, <2>7, <2>8, <2>9
    <3>2. B \in SUBSET Nat
      BY <2>10
    <3> QED
      BY <2>10, <3>1, <3>2
  <2>12. \A i \in B : l <= i
    BY <2>7, <2>10, LeastIsLeast
  <2>13. PICK x : x = Least(B)
    OBVIOUS
  <2>14. x \in B /\ \A i \in B : x <= i
    BY <2>11, <2>13, LeastIsLeast
  <2>15. x = l
    <3>1. x \in Nat /\ x <= l /\ l <= x
      BY <2>11, <2>12, <2>14
    <3> QED
      BY <3>1
  <2>16. c.tag = "MemoryRef" /\ c.addr = first.addr
    BY <1>1, <2>1, <2>7, <2>10, <2>13, <2>15 DEF CellJoinOver, MemoryRef
  <2>17. ~Agrees(c, vs[j])
    BY <1>7, <2>4, <2>16 DEF Agrees, SameCell
  <2> QED
    BY <2>2, <2>17, ScalarJoinKeepsUnknown
<1> QED
  BY <1>5, <1>6, <1>7

\* A region for one answer is one for an answer that is right wherever it is.
LEMMA RegionWeakens ==
    ASSUME NEW p, NEW key, NEW u \in Outcome, NEW v \in Known \cup Sentinel, NEW V, NEW R,
           Region(p, key, u, V, R), u = v \/ u = Cycle
             \/ (u \in Known /\ v \in Known /\ \A w : Denotes(u, w) => Denotes(v, w))
    PROVE  Region(p, key, v, V, R)
<1>1. CASE u = v
  BY <1>1
<1>2. CASE u = Cycle
  <2>1. u # NotFound
    BY <1>2 DEF Cycle, NotFound
  <2>2. \A b, n : u \notin Gives(p, key, b, n)
    BY <1>2, KnownIsNoSentinel DEF Gives
  <2> QED
    BY <2>1, <2>2 DEF Region
<1>3. CASE u \in Known /\ v \in Known /\ \A w : Denotes(u, w) => Denotes(v, w)
  <2>1. u # NotFound
    BY <1>3, KnownIsNoSentinel
  <2>2. \A b, n : u \in Gives(p, key, b, n) => v \in Gives(p, key, b, n)
    BY <1>3 DEF Gives
  <2> QED
    BY <2>1, <2>2 DEF Region
<1> QED
  BY <1>1, <1>2, <1>3

\* The regions for an answer make up one together, which may hold a block that
\* the walk came through if it holds the ends of its predecessors.
LEMMA RegionsUnite ==
    ASSUME NEW p, Analysable(p), NEW b \in p.blocks, p.pred[b] # <<>>,
           NEW key, NEW v, NEW V,
           \A k \in 1..Len(p.pred[b]) :
              \E R : /\ <<p.pred[b][k], Len(p.code[p.pred[b][k]])>> \in R
                     /\ Region(p, key, v, V \cup {b}, R)
    PROVE  \E R : <<b, 0>> \in R /\ Region(p, key, v, V, R)
<1> DEFINE all == {x \in p.blocks \X Nat : \E S : x \in S /\ Region(p, key, v, V \cup {b}, S)}
           R == all \cup {<<b, 0>>}
<1>1. ASSUME NEW c, NEW n, NEW S, <<c, n>> \in S, Region(p, key, v, V \cup {b}, S)
      PROVE  <<c, n>> \in all /\ c \in p.blocks /\ n \in 0..Len(p.code[c])
  <2>1. c \in p.blocks /\ n \in 0..Len(p.code[c])
    BY <1>1 DEF Region
  <2>2. Len(p.code[c]) \in Nat
    BY <2>1, CodeOf
  <2>3. n \in Nat
    BY <2>1, <2>2
  <2> QED
    BY <1>1, <2>1, <2>3
<1>2. \A k \in 1..Len(p.pred[b]) : <<p.pred[b][k], Len(p.code[p.pred[b][k]])>> \in R
  <2>1. \A k \in 1..Len(p.pred[b]) : <<p.pred[b][k], Len(p.code[p.pred[b][k]])>> \in all
    <3> HIDE DEF all
    <3> QED
      BY <1>1
  <2> QED
    BY <2>1
<1>3. ASSUME NEW c, NEW n, <<c, n>> \in R
      PROVE  /\ c \in p.blocks /\ n \in 0..Len(p.code[c])
             /\ n > 0 => \/ Match(p.code[c][n], key).is = "pass" /\ <<c, n - 1>> \in R
                         \/ v \in Gives(p, key, c, n)
             /\ n = 0 => \/ c \in V
                         \/ /\ p.pred[c] # <<>>
                            /\ \A k \in 1..Len(p.pred[c]) :
                                 <<p.pred[c][k], Len(p.code[p.pred[c][k]])>> \in R
                         \/ p.pred[c] = <<>> /\ v = NotFound
  <2>1. CASE <<c, n>> = <<b, 0>>
    <3>1. c = b /\ n = 0
      BY <2>1
    <3>2. Len(p.code[b]) \in Nat
      BY CodeOf
    <3> HIDE DEF R
    <3> QED
      BY <1>2, <3>1, <3>2
  <2>2. CASE <<c, n>> # <<b, 0>>
    <3>1. <<c, n>> \in all
      BY <1>3, <2>2
    <3>2. PICK S : <<c, n>> \in S /\ Region(p, key, v, V \cup {b}, S)
      BY <3>1
    <3> HIDE DEF all
    <3>3. ASSUME NEW d, NEW k, <<d, k>> \in S
          PROVE  <<d, k>> \in all
      BY <1>1, <3>2, <3>3
    <3>4. \A d, k : <<d, k>> \in S => <<d, k>> \in R
      BY <3>3
    <3>5. c \in p.blocks /\ n \in 0..Len(p.code[c])
      BY <3>2 DEF Region
    <3>6. n > 0 => \/ Match(p.code[c][n], key).is = "pass" /\ <<c, n - 1>> \in S
                   \/ v \in Gives(p, key, c, n)
      BY <3>2 DEF Region
    <3>7. n = 0 => \/ c \in V \cup {b}
                   \/ /\ p.pred[c] # <<>>
                      /\ \A k \in 1..Len(p.pred[c]) :
                           <<p.pred[c][k], Len(p.code[p.pred[c][k]])>> \in S
                   \/ p.pred[c] = <<>> /\ v = NotFound
      BY <3>2 DEF Region
    <3>8. n = 0 => c # b
      BY <2>2
    <3> HIDE DEF R
    <3> QED
      BY <3>4, <3>5, <3>6, <3>7, <3>8
  <2> QED
    BY <2>1, <2>2
<1>4. Region(p, key, v, V, R)
  <2> HIDE DEF R
  <2> QED
    BY <1>3 DEF Region
<1>5. <<b, 0>> \in R
  OBVIOUS
<1> QED
  BY <1>4, <1>5

\* What a failed or a known outcome is.
LEMMA OutcomeCases ==
    ASSUME NEW v \in Outcome
    PROVE  /\ v \in Failure \/ v \in Known \/ v = Cycle \/ v = NotFound
           /\ IsUnknown(v) => v \in Failure
           /\ v \in Failure => IsUnknown(v) /\ v \notin Sentinel
<1>1. v \in Failure \/ v \in Known \/ v = Cycle \/ v = NotFound
  BY DEF Outcome, Result, Sentinel
<1>2. v \in Known => ~IsUnknown(v)
  BY KnownIsNoSentinel
<1>3. ~IsUnknown(Cycle) /\ ~IsUnknown(NotFound)
  BY DEF Cycle, NotFound, IsUnknown
<1>4. v \in Failure => v.tag = "Unknown"
  BY DEF Failure
<1> QED
  BY <1>1, <1>2, <1>3, <1>4, TagsTellApart DEF IsUnknown

\* Which failures there are.
LEMMA FailureIsMade == \A r \in Reason : Unknown(r) \in Failure
  BY DEF Failure, Unknown, Because

\* When every predecessor has been walked, the join is an answer of the walk.
LEMMA JoinIsAnswer ==
    ASSUME NEW p, Analysable(p), NEW b \in p.blocks, p.pred[b] # <<>>,
           NEW key, IsTracked(key), NEW V, NEW results, IsSequence(results),
           Len(results) = Len(p.pred[b]),
           \A k \in 1..Len(results) :
              results[k] \in WalkOK(p, key, p.pred[b][k], Len(p.code[p.pred[b][k]]), V \cup {b})
    PROVE  JoinPaths(results) \in WalkOK(p, key, b, 0, V)
<1>1. PICK v : v = JoinPaths(results)
  OBVIOUS
<1>2. DOMAIN results = 1..Len(results) /\ DOMAIN results \subseteq Nat
  BY Positions
<1>3. \A k \in DOMAIN results : results[k] \in Outcome
  BY <1>2 DEF WalkOK, Outcome, Result
<1>4. v \in Outcome
  BY <1>1, <1>3, JoinPathsIsOutcome
<1>5. CASE IsUnknown(v)
  BY <1>1, <1>4, <1>5, OutcomeCases DEF WalkOK
<1>6. CASE ~IsUnknown(v)
  <2>1. \A k \in DOMAIN results : ~IsUnknown(results[k])
    BY <1>1, <1>6, JoinPathsKeepsUnknown
  <2>2. \A k \in DOMAIN results :
           /\ results[k] = NotFound => key.of = "memory"
           /\ \E R : /\ <<p.pred[b][k], Len(p.code[p.pred[b][k]])>> \in R
                     /\ Region(p, key, results[k], V \cup {b}, R)
    BY <1>2, <1>3, <2>1, OutcomeCases DEF WalkOK
  <2>3. \A k \in DOMAIN results : results[k] \in Known \cup Sentinel
    BY <1>3, <2>1, OutcomeCases DEF Sentinel
  <2> DEFINE informative == {n \in DOMAIN results : results[n] # Cycle}
             found == {n \in informative : results[n] # NotFound}
  <2>4. v \in Known \cup Sentinel
    BY <1>4, <1>6, OutcomeCases DEF Sentinel
  <2>5. /\ v = NotFound => \E k \in DOMAIN results : results[k] = NotFound
        /\ \A k \in DOMAIN results : results[k] = v \/ results[k] = Cycle
             \/ /\ results[k] \in Known /\ v \in Known
                /\ \A w : Denotes(results[k], w) => Denotes(v, w)
    <3>1. CASE informative = {}
      <4>1. v = Cycle
        BY <1>1, <3>1 DEF JoinPaths
      <4>2. Cycle # NotFound
        BY DEF Cycle, NotFound
      <4> QED
        BY <3>1, <4>1, <4>2
    <3>2. CASE informative # {} /\ found = {}
      <4>1. v = NotFound
        BY <1>1, <3>2 DEF JoinPaths
      <4> QED
        BY <3>2, <4>1
    <3>3. CASE informative # {} /\ found # {} /\ found # informative
      <4>1. v = Unknown("DIVERGENT_PATHS")
        BY <1>1, <3>3 DEF JoinPaths
      <4> QED
        BY <1>6, <4>1 DEF IsUnknown, Unknown, Because
    <3>4. CASE informative # {} /\ found # {} /\ found = informative
      <4>1. v = JoinOver(found, results)
        BY <1>1, <3>4 DEF JoinPaths
      <4>2. found \in SUBSET Nat
        BY <1>2
      <4>3. \A k \in found : results[k] \in Known
        BY <2>3 DEF Sentinel
      <4>4. \A k \in DOMAIN results : results[k] = Cycle \/ k \in found
        BY <3>4
      <4>5. v \notin Sentinel
        BY <4>1, <4>2, <4>3, <3>4, KnownIsNoSentinel, JoinIsNoSentinel
      <4>6. v \in Known
        BY <2>4, <4>5
      <4> HIDE DEF found
      <4>7. \A k \in found : \A w : Denotes(results[k], w) => Denotes(v, w)
        BY <1>6, <3>4, <4>1, <4>2, <4>3, JoinDenotes
      <4> QED
        BY <4>3, <4>4, <4>5, <4>6, <4>7 DEF Sentinel
    <3> QED
      BY <3>1, <3>2, <3>3, <3>4
  <2>6. \A k \in DOMAIN results :
           \E R : /\ <<p.pred[b][k], Len(p.code[p.pred[b][k]])>> \in R
                  /\ Region(p, key, v, V \cup {b}, R)
    BY <1>3, <2>2, <2>4, <2>5, RegionWeakens
  <2>7. \E R : <<b, 0>> \in R /\ Region(p, key, v, V, R)
    BY <1>2, <2>6, RegionsUnite
  <2>8. v = NotFound => key.of = "memory"
    BY <2>2, <2>5
  <2> QED
    BY <1>1, <1>4, <2>7, <2>8 DEF WalkOK
<1> QED
  BY <1>5, <1>6


-----------------------------------------------------------------------------
(* The answers a question may get *)

\* Those of a question for a register, for a cell, and for a pushed operand.
RegOK(p, r, b, n) ==
    {v \in Result : IsKnown(v) => \A m \in Before(p, b, n) : Denotes(v, m.regs[r])}
MemOK(p, base, disp, b, n) ==
    LET i == p.code[b][n]
    IN  {v \in Result : IsKnown(v) =>
           /\ base # NoReg /\ base = SpReg /\ i.delta = <<>> => Before(p, b, n) = {}
           /\ \A m \in Before(p, b, n) : Denotes(v, Content(m, CellAt(m, i, base, disp)))}
PushOK(p, b, n) ==
    LET i == p.code[b][n]
    IN  {v \in Result : IsKnown(v) =>
           \A m \in Before(p, b, n) : \A w \in Reads(m, i, i.ops[1]) : Denotes(v, w)}
AnswerOK(p, q) ==
    IF q.do = "register" THEN RegOK(p, q.reg, q.block, q.pc)
    ELSE IF q.do = "memory" THEN MemOK(p, q.base, q.disp, q.block, q.pc)
    ELSE PushOK(p, q.block, q.pc)

\* Failures are always right.
LEMMA FailuresAreFine ==
    /\ Failure \subseteq Result /\ Result \subseteq Outcome /\ \A v \in Failure : ~IsKnown(v)
    /\ \A p, r, b, n : Failure \subseteq RegOK(p, r, b, n) /\ RegOK(p, r, b, n) \subseteq Outcome
    /\ \A p, base, disp, b, n :
          /\ Failure \subseteq MemOK(p, base, disp, b, n)
          /\ MemOK(p, base, disp, b, n) \subseteq Outcome
    /\ \A p, b, n : Failure \subseteq PushOK(p, b, n) /\ PushOK(p, b, n) \subseteq Outcome
    /\ \A p, key, b, n, V :
          Failure \subseteq WalkOK(p, key, b, n, V) /\ WalkOK(p, key, b, n, V) \subseteq Outcome
<1>1. Failure \subseteq Result /\ Result \subseteq Outcome /\ \A v \in Failure : ~IsKnown(v)
  BY DEF Failure, Result, Outcome, IsKnown
<1>2. \A p, r, b, n : Failure \subseteq RegOK(p, r, b, n) /\ RegOK(p, r, b, n) \subseteq Outcome
  BY <1>1 DEF RegOK
<1>3. \A p, base, disp, b, n :
        Failure \subseteq MemOK(p, base, disp, b, n) /\ MemOK(p, base, disp, b, n) \subseteq Outcome
  BY <1>1 DEF MemOK
<1>4. \A p, b, n : Failure \subseteq PushOK(p, b, n) /\ PushOK(p, b, n) \subseteq Outcome
  BY <1>1 DEF PushOK
<1>5. \A p, key, b, n, V :
        Failure \subseteq WalkOK(p, key, b, n, V) /\ WalkOK(p, key, b, n, V) \subseteq Outcome
  BY <1>1 DEF WalkOK
<1> QED
  BY <1>1, <1>2, <1>3, <1>4, <1>5

\* The machines before an instruction are some the execution comes to.
LEMMA BeforeIsReached ==
    ASSUME NEW p, NEW b, NEW n \in Nat \ {0}, NEW m \in Before(p, b, n)
    PROVE  /\ m \in Machines /\ At(b, n, m) \in Reach(p)
           /\ At(b, n, m).block = b /\ At(b, n, m).pc = n /\ At(b, n, m).machine = m
  BY DEF Before, At

\* The cell that is tracked for a reference is the one it names, if the function
\* stores to it by name; a stack cell has one only where the depth is known.
LEMMA TargetOf ==
    ASSUME NEW p, Analysable(p), NEW i, IsInstruction(i),
           NEW base \in WholeReg \cup {NoReg}, NEW disp \in Int,
           base = NoReg \/ Location(i, base, disp) \in CellsStored(p), NEW m
    PROVE  /\ Target(Location(i, base, disp)) = CellAt(m, i, base, disp)
           /\ base # NoReg /\ base = SpReg => i.delta # <<>>
<1>1. PICK c : c = Location(i, base, disp)
  OBVIOUS
<1>2. NoReg # SpReg /\ NoReg # FpReg
  BY RegistersAssumption
<1>3. <<"abs">>[1] # <<"sp">>[1] /\ <<"abs">>[1] # <<"fp">>[1] /\ <<"sp">>[1] # <<"fp">>[1]
  OBVIOUS
<1>4. CASE base = NoReg
  <2>1. c.space = <<"abs">> /\ c.off = disp
    BY <1>1, <1>4, LocationSpace
  <2>2. Target(c) = Num(disp)
    BY <1>3, <2>1 DEF Target, OnStack
  <2> QED
    BY <1>1, <1>2, <1>4, <2>2 DEF CellAt
<1>5. CASE base # NoReg
  <2>1. OnStack(c)
    <3>1. c.space # <<"abs">>
      BY <1>1, <1>5, LocationSpace
    <3> QED
      BY <1>1, <1>5, <3>1, CellStored
  <2>2. base \in {SpReg, FpReg} /\ (base = SpReg => i.delta # <<>>)
    BY <1>1, <1>5, <2>1, LocationSpace DEF OnStack
  <2>3. CASE base = SpReg
    <3>1. c.space = <<"sp">> /\ c.off = i.delta[1] + disp
      BY <1>1, <1>5, <2>2, <2>3, LocationSpace
    <3>2. i.delta[1] + disp \in Int
      BY <2>2, <2>3, DepthIsNumber
    <3>3. Target(c) = StackCell((i.delta[1] + disp) + 0)
      BY <1>3, <2>1, <3>1 DEF Target, StackCellOf
    <3>4. Target(c) = StackCell(i.delta[1] + disp)
      BY <3>2, <3>3
    <3>5. CellAt(m, i, base, disp) = StackCell(i.delta[1] + disp)
      BY <1>5, <2>3 DEF CellAt
    <3> QED
      BY <1>1, <2>2, <3>4, <3>5
  <2>4. CASE base # SpReg
    <3>1. c.space = <<"fp">> /\ c.off = disp
      BY <1>1, <1>5, <2>2, <2>4, LocationSpace
    <3>2. Target(c) = StackCell(disp + FpOffset)
      BY <2>1, <3>1 DEF Target, StackCellOf
    <3>3. FpOffset + disp = disp + FpOffset
      BY CellsAssumption
    <3>4. CellAt(m, i, base, disp) = StackCell(FpOffset + disp)
      BY <1>5, <2>2, <2>4 DEF CellAt
    <3> QED
      BY <1>1, <2>4, <3>2, <3>3, <3>4
  <2> QED
    BY <2>3, <2>4
<1> QED
  BY <1>4, <1>5

\* What a walk for a register finds before an instruction answers the question
\* for it.
LEMMA WalkAnswersRegister ==
    ASSUME NEW p, Analysable(p), NEW b, NEW n \in Nat \ {0}, NEW r \in WholeReg,
           NEW v \in WalkOK(p, RegisterKey(r), b, n - 1, {}), v # Cycle
    PROVE  v \in RegOK(p, r, b, n)
<1>1. PICK key : key = RegisterKey(r)
  OBVIOUS
<1>2. key.of = "register" /\ key.reg = r /\ IsTracked(key)
  BY <1>1 DEF RegisterKey, IsTracked
<1>3. CASE v \in Failure
  BY <1>3, FailuresAreFine
<1>4. CASE v \notin Failure
  <2>1. PICK R : <<b, n - 1>> \in R /\ Region(p, key, v, {}, R)
    BY <1>1, <1>4 DEF WalkOK
  <2>2. v \in Outcome /\ v # NotFound
    BY <1>1, <1>2, <1>4 DEF WalkOK
  <2>3. v \in Known
    BY <1>4, <2>2, OutcomeCases
  <2>4. ASSUME NEW m \in Before(p, b, n)
        PROVE  Denotes(v, m.regs[r])
    <3>1. Denotes(v, Holding(key, At(b, n, m).machine))
      BY <1>2, <2>1, <2>3, <2>4, BeforeIsReached, WalkHolds
    <3> QED
      BY <1>2, <2>4, <3>1, BeforeIsReached DEF Holding
  <2> QED
    BY <2>3, <2>4, KnownIsNoSentinel DEF RegOK
<1> QED
  BY <1>3, <1>4

\* So does what a walk for a cell finds ...
LEMMA WalkAnswersMemory ==
    ASSUME NEW p, Analysable(p), NEW b, NEW n \in Nat \ {0}, IsInstruction(p.code[b][n]),
           NEW base \in WholeReg \cup {NoReg}, NEW disp \in Int,
           base = NoReg => disp \in 0..(Modulus[WordSize] - 1),
           NEW v, v \notin Sentinel,
           v \in WalkOK(p, MemoryKey(Location(p.code[b][n], base, disp)), b, n - 1, {})
    PROVE  v \in MemOK(p, base, disp, b, n)
<1>1. PICK i : i = p.code[b][n]
  OBVIOUS
<1>2. PICK key : key = MemoryKey(Location(i, base, disp))
  OBVIOUS
<1>3. key.of = "memory" /\ key.cell = Location(i, base, disp) /\ IsTracked(key)
  BY <1>1, <1>2, LocationIsTracked DEF MemoryKey
<1>4. CASE v \in Failure
  BY <1>4, FailuresAreFine
<1>5. CASE v \notin Failure
  <2>1. PICK R : <<b, n - 1>> \in R /\ Region(p, key, v, {}, R)
    BY <1>1, <1>2, <1>5 DEF WalkOK
  <2>2. v \in Known
    BY <1>5, OutcomeCases DEF WalkOK, Sentinel
  <2>3. ASSUME NEW m \in Before(p, b, n)
        PROVE  /\ Denotes(v, Content(m, CellAt(m, i, base, disp)))
               /\ base # NoReg /\ base = SpReg => i.delta # <<>>
    <3>1. /\ Denotes(v, Holding(key, At(b, n, m).machine))
          /\ key.cell \in CellsStored(p)
      BY <1>3, <2>1, <2>2, <2>3, BeforeIsReached, WalkHolds
    <3>2. Denotes(v, Content(m, Target(key.cell)))
      BY <1>3, <2>3, <3>1, BeforeIsReached DEF Holding
    <3>3. IsInstruction(i) /\ Location(i, base, disp) \in CellsStored(p)
      BY <1>1, <1>3, <3>1
    <3>4. /\ Target(Location(i, base, disp)) = CellAt(m, i, base, disp)
          /\ base # NoReg /\ base = SpReg => i.delta # <<>>
      BY <3>3, TargetOf
    <3> QED
      BY <1>3, <3>2, <3>4
  <2> QED
    BY <1>1, <2>2, <2>3, KnownIsNoSentinel DEF MemOK
<1> QED
  BY <1>4, <1>5

\* What the database holds at an address.
Fetched(a) ==
    MemoryRef(a, IF a \in DOMAIN Image THEN Concrete(Image[a], "INT")
                 ELSE Unknown("MEMORY_READ_FAILED"))

\* It is a result.
LEMMA FetchedIsResult == \A a \in Int : Fetched(a) \in Result
<1> TAKE a \in Int
<1>1. PICK v : v = IF a \in DOMAIN Image THEN Concrete(Image[a], "INT")
                 ELSE Unknown("MEMORY_READ_FAILED")
  OBVIOUS
<1>2. v \in Value
  BY <1>1, ImageAssumption DEF Value, Scalar, Opaque, Detail, Kind, Reason, Concrete, Unknown,
                              Because
<1> QED
  BY <1>1, <1>2, ResultsAreMade DEF Fetched, Result

\* It is what the memory holds, if nothing was stored there.
LEMMA FetchedIsLoaded ==
    ASSUME NEW a \in Int, NEW m, Num(a) \notin DOMAIN m.mem
    PROVE  Denotes(Fetched(a), Content(m, Num(a)))
<1>1. PICK v : v = Fetched(a)
  OBVIOUS
<1>2. CASE a \in DOMAIN Image
  <2>1. v.tag = "MemoryRef" /\ v.content.tag = "Concrete" /\ v.content.value = Image[a]
    BY <1>1, <1>2 DEF Fetched, MemoryRef, Concrete
  <2>2. a \in 0..(Modulus[WordSize] - 1) /\ Loaded[a] = Image[a] /\ a \in DOMAIN Loaded
    BY <1>2, LoadedAssumption
  <2>3. Num(a).base = <<"int", 0>> /\ Num(a).off = a
    BY <2>2, SmallNumber
  <2>4. Content(m, Num(a)) = Num(Image[a])
    BY <2>2, <2>3 DEF Content
  <2> QED
    BY <1>1, <2>1, <2>4 DEF Denotes
<1>3. CASE a \notin DOMAIN Image
  <2>1. v.tag = "MemoryRef" /\ v.content.tag = "Unknown"
    BY <1>1, <1>3 DEF Fetched, MemoryRef, Unknown, Because
  <2> QED
    BY <1>1, <2>1 DEF Denotes
<1> QED
  BY <1>2, <1>3

\* An address that is not stored to by name has nothing stored at it, if the
\* database holds anything there.
LEMMA NothingStored ==
    ASSUME NEW p, Analysable(p), NEW s \in Reach(p), NEW a \in DOMAIN Image, a \notin StoredTo(p)
    PROVE  Num(a) \notin DOMAIN s.machine.mem
<1> SUFFICES ASSUME Num(a) \in DOMAIN s.machine.mem
             PROVE  FALSE
  OBVIOUS
<1>1. Where(p, Num(a))
  BY EverywhereOn
<1>2. Num(a).base = <<"int", 0>> /\ <<"int", 0>> # <<"stack", 0>>
  BY DEF Num, Word
<1>3. PICK d \in StoredTo(p) : Num(a) = Num(d)
  BY <1>1, <1>2 DEF Where
<1>4. PICK i \in InstructionsOf(p) : \E k \in Written(i) :
         i.ops[k].kind = "MEM_DIRECT" /\ d = i.ops[k].imm
  BY <1>3 DEF StoredTo
<1>5. PICK k \in Written(i) : i.ops[k].kind = "MEM_DIRECT" /\ d = i.ops[k].imm
  BY <1>4
<1>6. Understood(i)
  BY DEF Analysable
<1>7. d \in 0..(Modulus[WordSize] - 1)
  BY <1>5, <1>6 DEF Understood, Written
<1>8. a \in 0..(Modulus[WordSize] - 1)
  BY LoadedAssumption
<1>9. Num(a).off = a /\ Num(d).off = d
  BY <1>7, <1>8, SmallNumber
<1> QED
  BY <1>3, <1>9

\* ... and the database answers it where a walk for an address found nothing ...
LEMMA MissingIsLoaded ==
    ASSUME NEW p, Analysable(p), NEW b, NEW n \in Nat \ {0}, IsInstruction(p.code[b][n]),
           NEW disp \in 0..(Modulus[WordSize] - 1), NEW v \in Sentinel,
           v \in WalkOK(p, MemoryKey(Location(p.code[b][n], NoReg, disp)), b, n - 1, {})
    PROVE  Fetched(disp) \in MemOK(p, NoReg, disp, b, n)
<1>1. PICK i : i = p.code[b][n]
  OBVIOUS
<1>2. PICK key : key = MemoryKey(Location(i, NoReg, disp))
  OBVIOUS
<1>3. disp \in Int
  BY WordModulus
<1>4. /\ key.of = "memory" /\ key.cell = Location(i, NoReg, disp) /\ IsTracked(key)
      /\ key.cell.space = <<"abs">>
  BY <1>1, <1>2, <1>3, LocationIsTracked, LocationSpace DEF MemoryKey
<1>5. v \notin Failure
  BY OutcomeCases DEF Outcome
<1>6. PICK R : <<b, n - 1>> \in R /\ Region(p, key, v, {}, R)
  BY <1>1, <1>2, <1>5 DEF WalkOK
<1>7. ASSUME NEW m \in Before(p, b, n)
      PROVE  Denotes(Fetched(disp), Content(m, CellAt(m, i, NoReg, disp)))
  <2>1. Target(key.cell) \notin DOMAIN m.mem
    <3>1. PICK s : s = At(b, n, m)
      OBVIOUS
    <3>2. s \in Reach(p) /\ s.block = b /\ s.pc = n /\ s.machine = m
      BY <1>7, <3>1, BeforeIsReached
    <3>3. Target(key.cell) \notin DOMAIN s.machine.mem
      BY <1>4, <1>6, <3>2, WalkMissing
    <3> QED
      BY <3>2, <3>3
  <2>2. NoReg # SpReg /\ NoReg # FpReg
    BY RegistersAssumption
  <2>3. CellAt(m, i, NoReg, disp) = Num(disp)
    BY <2>2 DEF CellAt
  <2>4. Target(key.cell) = CellAt(m, i, NoReg, disp)
    <3>1. IsInstruction(i)
      BY <1>1
    <3>2. Target(Location(i, NoReg, disp)) = CellAt(m, i, NoReg, disp)
      BY <1>3, <3>1, TargetOf
    <3> QED
      BY <1>4, <3>2
  <2> QED
    BY <1>3, <2>1, <2>3, <2>4, FetchedIsLoaded
<1>8. Fetched(disp) \in Result
  BY <1>3, FetchedIsResult
<1> QED
  BY <1>1, <1>7, <1>8 DEF MemOK

\* ... or for one in a register that is not stored to by name.
LEMMA PointedToIsLoaded ==
    ASSUME NEW p, Analysable(p), NEW b, NEW n \in Nat \ {0}, IsInstruction(p.code[b][n]),
           NEW base \in WholeReg, NEW disp \in Int,
           NEW u \in RegOK(p, base, b, n), u.tag = "Concrete", u.value + disp \notin StoredTo(p)
    PROVE  Fetched(u.value + disp) \in MemOK(p, base, disp, b, n)
<1>1. PICK i : i = p.code[b][n]
  OBVIOUS
<1>2. u \in Result /\ u.value \in Int /\ IsKnown(u)
  BY ResultCases DEF RegOK, IsKnown
<1>3. PICK a \in Int : a = u.value + disp
  BY <1>2
<1>4. base # NoReg
  BY RegistersAssumption DEF WholeReg
<1>5. ASSUME NEW m \in Before(p, b, n)
      PROVE  base # SpReg /\ Denotes(Fetched(a), Content(m, CellAt(m, i, base, disp)))
  <2>1. m.regs[base] = Num(u.value)
    BY <1>2, <1>5 DEF RegOK, Denotes
  <2>2. Pointers(m) /\ At(b, n, m) \in Reach(p) /\ At(b, n, m).machine = m
    BY <1>5, BeforeIsReached, EverywhereOn
  <2>3. base # SpReg /\ base # FpReg
    BY <2>1, <2>2 DEF Pointers, Num, Word
  <2>4. CellAt(m, i, base, disp) = Plus(m.regs[base], disp)
    BY <1>4, <2>3 DEF CellAt
  <2>5. CellAt(m, i, base, disp) = Num(a)
    BY <1>2, <1>3, <2>1, <2>4, PlusNum
  <2>6. CASE a \in DOMAIN Image
    <3>1. Num(a) \notin DOMAIN m.mem
      BY <1>3, <2>2, <2>6, NothingStored
    <3> QED
      BY <2>3, <2>5, <3>1, FetchedIsLoaded
  <2>7. CASE a \notin DOMAIN Image
    <3>1. Fetched(a).tag = "MemoryRef" /\ Fetched(a).content.tag = "Unknown"
      BY <2>7 DEF Fetched, MemoryRef, Unknown, Because
    <3> QED
      BY <2>3, <3>1 DEF Denotes
  <2> QED
    BY <2>6, <2>7
<1>6. Fetched(a) \in Result
  BY FetchedIsResult
<1> QED
  BY <1>1, <1>3, <1>5, <1>6 DEF MemOK


\* The resolver is on its way to a value of A: what it is about to return is one,
\* and so is every answer to what it is about to ask that is right there.
Computes(p, next, A) ==
    /\ Failure \subseteq A
    /\ next.do = "return" => next.value \in A
    /\ next.do = "register" =>
         /\ next.reg \in WholeReg \cup {NoReg}
         /\ RegOK(p, next.reg, next.block, next.pc) \subseteq A
    /\ next.do = "memory" =>
         /\ next.base \in WholeReg \cup {NoReg}
         /\ next.base = NoReg => next.disp \in 0..(Modulus[WordSize] - 1)
         /\ MemOK(p, next.base, next.disp, next.block, next.pc) \subseteq A
    /\ next.do = "instruction" =>
         /\ p.code[next.block][next.pc].mnem = "push"
         /\ PushOK(p, next.block, next.pc) \subseteq A
    /\ next.do = "scan" =>
         /\ IsTracked(next.key)
         /\ WalkOK(p, next.key, next.block, next.pc, next.visited) \subseteq A
    /\ next.do = "dereference" => Fetched(next.addr) \in A

\* The database may be asked for what a register points to.
LoadsThrough(p, B, disp, A) ==
    \A u \in B : u.tag = "Concrete" /\ u.value + disp \notin StoredTo(p)
                   => Fetched(u.value + disp) \in A

\* A frame that gets a value of B hands on one of A.
Link(p, f, B, A) ==
    /\ Failure \subseteq A
    /\ f.for = "register" => B \ {Cycle} \subseteq A
    /\ f.for = "memory" =>
         /\ f.base \in WholeReg \cup {NoReg}
         /\ B \ Sentinel \subseteq A
         /\ f.base = NoReg /\ B \cap Sentinel # {} => Fetched(f.disp) \in A
         /\ f.base # NoReg => LoadsThrough(p, RegOK(p, f.base, f.block, f.pc), f.disp, A)
    /\ f.for = "base" => LoadsThrough(p, B, f.disp, A)
    /\ f.for = "lea" => \A v \in B : Adjusted(v, f.delta, f.size, "POINTER") \in A
    /\ f.for = "add" =>
         \A v \in B : v.tag \in {"Concrete", "Unknown"} => AddedTo(v, f.delta, f.size) \in A
    /\ f.for = "preds" =>
         /\ IsTracked(f.key) /\ f.block \in p.blocks \cap f.visited
         /\ IsSequence(f.results) /\ Len(f.results) < Len(p.pred[f.block])
         /\ \A k \in 1..Len(f.results) :
              f.results[k] \in WalkOK(p, f.key, p.pred[f.block][k],
                                      Len(p.code[p.pred[f.block][k]]), f.visited)
         /\ \A k \in 1..Len(p.pred[f.block]) : k = Len(f.results) + 1 =>
              B \subseteq WalkOK(p, f.key, p.pred[f.block][k],
                                 Len(p.code[p.pred[f.block][k]]), f.visited)
         /\ WalkOK(p, f.key, f.block, 0, f.visited \ {f.block}) \subseteq A

\* The frames of a stack hand a value of A on until it is one of G.
Expects(p, s, A, G) ==
    \E c \in [1..(Len(s) + 1) -> SUBSET Outcome] :
       /\ c[1] = A /\ c[Len(s) + 1] = G
       /\ \A n \in DOMAIN s : Link(p, s[n], c[n], c[n + 1])

\* Nobody waits: the value is the answer.
LEMMA ExpectsNothing ==
    ASSUME NEW p, NEW A, NEW G
    PROVE  /\ Expects(p, <<>>, A, G) => A = G
           /\ A = G /\ A \in SUBSET Outcome => Expects(p, <<>>, A, G)
<1>1. Len(<<>>) = 0 /\ DOMAIN <<>> = {}
  OBVIOUS
<1>2. ASSUME Expects(p, <<>>, A, G)
      PROVE  A = G
  BY <1>1, <1>2 DEF Expects
<1>3. ASSUME A = G, A \in SUBSET Outcome
      PROVE  Expects(p, <<>>, A, G)
  <2>1. PICK c : c = [n \in 1..1 |-> A]
    OBVIOUS
  <2>2. c \in [1..1 -> SUBSET Outcome] /\ c[1] = A /\ 0 + 1 = 1
    BY <1>3, <2>1
  <2>3. c \in [1..(Len(<<>>) + 1) -> SUBSET Outcome] /\ c[Len(<<>>) + 1] = G
    BY <1>1, <1>3, <2>2
  <2>4. \A n \in DOMAIN <<>> : Link(p, <<>>[n], c[n], c[n + 1])
    BY <1>1
  <2> QED
    BY <2>2, <2>3, <2>4 DEF Expects
<1> QED
  BY <1>2, <1>3

\* A question on behalf of a frame.
LEMMA ExpectsMore ==
    ASSUME NEW p, NEW s, IsSequence(s), NEW A, NEW G, Expects(p, s, A, G),
           NEW f, NEW B \in SUBSET Outcome, Link(p, f, B, A)
    PROVE  Expects(p, <<f>> \o s, B, G)
<1>1. PICK c \in [1..(Len(s) + 1) -> SUBSET Outcome] :
         /\ c[1] = A /\ c[Len(s) + 1] = G
         /\ \A n \in DOMAIN s : Link(p, s[n], c[n], c[n + 1])
  BY DEF Expects
<1>2. DOMAIN s = 1..Len(s) /\ Len(s) \in Nat
  BY Positions
<1>3. PICK t : t = <<f>> \o s
  OBVIOUS
<1>4. /\ IsSequence(t) /\ Len(t) = Len(s) + 1 /\ t[1] = f
      /\ \A n \in DOMAIN s : t[n + 1] = s[n]
  BY <1>3, Calling
<1>5. DOMAIN t = 1..(Len(s) + 1)
  BY <1>4, Positions
<1>6. PICK e : e = [n \in 1..(Len(s) + 2) |-> IF n = 1 THEN B ELSE c[n - 1]]
  OBVIOUS
<1>7. ASSUME NEW n \in 1..(Len(s) + 2)
      PROVE  e[n] \in SUBSET Outcome
  <2>1. CASE n = 1
    BY <1>6, <2>1
  <2>2. CASE n # 1
    <3>1. n - 1 \in 1..(Len(s) + 1)
      BY <1>2, <2>2
    <3> QED
      BY <1>6, <2>2, <3>1
  <2> QED
    BY <2>1, <2>2
<1>8. e \in [1..(Len(t) + 1) -> SUBSET Outcome]
  <2>1. Len(t) + 1 = Len(s) + 2
    BY <1>2, <1>4
  <2>2. e = [n \in 1..(Len(s) + 2) |-> e[n]]
    BY <1>6
  <2>3. e \in [1..(Len(s) + 2) -> SUBSET Outcome]
    BY <1>7, <2>2
  <2> QED
    BY <2>1, <2>3
<1>9. e[1] = B /\ e[Len(t) + 1] = G
  <2>1. Len(t) + 1 \in 1..(Len(s) + 2) /\ Len(t) + 1 # 1 /\ Len(t) + 1 - 1 = Len(s) + 1
    BY <1>2, <1>4
  <2>2. 1 \in 1..(Len(s) + 2)
    BY <1>2
  <2> QED
    BY <1>1, <1>6, <2>1, <2>2
<1>10. ASSUME NEW n \in DOMAIN t
       PROVE  Link(p, t[n], e[n], e[n + 1])
  <2>0. n \in 1..(Len(s) + 1) /\ n \in 1..(Len(s) + 2) /\ n + 1 \in 1..(Len(s) + 2)
        /\ n + 1 # 1 /\ n + 1 - 1 = n
    BY <1>2, <1>5
  <2>1. e[n + 1] = c[n]
    BY <1>6, <2>0
  <2>2. CASE n = 1
    <3>1. t[n] = f /\ e[n] = B /\ e[n + 1] = A
      BY <1>1, <1>4, <1>9, <2>1, <2>2
    <3> QED
      BY <3>1
  <2>3. CASE n # 1
    <3>1. n - 1 \in DOMAIN s /\ n - 1 + 1 = n
      BY <1>2, <2>0, <2>3
    <3>2. t[n] = s[n - 1]
      BY <1>4, <3>1
    <3>3. e[n] = c[n - 1]
      BY <1>6, <2>0, <2>3
    <3>4. Link(p, s[n - 1], c[n - 1], c[n])
      BY <1>1, <3>1
    <3> QED
      BY <2>1, <3>2, <3>3, <3>4
  <2> QED
    BY <2>2, <2>3
<1>11. Expects(p, t, B, G)
  BY <1>8, <1>9, <1>10 DEF Expects
<1> QED
  BY <1>3, <1>11

\* The frame on top gets what it waits for.
LEMMA ExpectsLess ==
    ASSUME NEW p, NEW s, IsSequence(s), s # <<>>, NEW B, NEW G, Expects(p, s, B, G)
    PROVE  \E A \in SUBSET Outcome : Link(p, Head(s), B, A) /\ Expects(p, Tail(s), A, G)
<1>1. PICK c \in [1..(Len(s) + 1) -> SUBSET Outcome] :
         /\ c[1] = B /\ c[Len(s) + 1] = G
         /\ \A n \in DOMAIN s : Link(p, s[n], c[n], c[n + 1])
  BY DEF Expects
<1>2. /\ IsSequence(Tail(s)) /\ Len(s) \in Nat /\ Len(s) >= 1 /\ Len(Tail(s)) = Len(s) - 1
      /\ Head(s) = s[1] /\ 1 \in DOMAIN s
      /\ \A n \in DOMAIN Tail(s) : n + 1 \in DOMAIN s /\ Tail(s)[n] = s[n + 1]
  BY Answering
<1>3. PICK t : t = Tail(s)
  OBVIOUS
<1>4. DOMAIN t = 1..Len(t) /\ Len(t) = Len(s) - 1
  BY <1>2, <1>3, Positions
<1>5. PICK e : e = [n \in 1..(Len(t) + 1) |-> c[n + 1]]
  OBVIOUS
<1>6. ASSUME NEW n \in 1..(Len(t) + 1)
      PROVE  n + 1 \in 1..(Len(s) + 1) /\ e[n] = c[n + 1] /\ e[n] \in SUBSET Outcome
  <2>1. n + 1 \in 1..(Len(s) + 1)
    BY <1>2, <1>4
  <2> QED
    BY <1>5, <2>1
<1>7. e \in [1..(Len(t) + 1) -> SUBSET Outcome]
  <2>1. e = [n \in 1..(Len(t) + 1) |-> e[n]]
    BY <1>5
  <2> QED
    BY <1>6, <2>1
<1>8. c[2] \in SUBSET Outcome /\ e[1] = c[2] /\ e[Len(t) + 1] = G
  <2>1. 1 \in 1..(Len(t) + 1) /\ Len(t) + 1 \in 1..(Len(t) + 1) /\ Len(t) + 1 + 1 = Len(s) + 1
    BY <1>2, <1>4
  <2> QED
    BY <1>1, <1>6, <2>1
<1>9. ASSUME NEW n \in DOMAIN t
      PROVE  Link(p, t[n], e[n], e[n + 1])
  <2>1. n + 1 \in DOMAIN s /\ t[n] = s[n + 1]
    BY <1>2, <1>3
  <2>2. n \in 1..(Len(t) + 1) /\ n + 1 \in 1..(Len(t) + 1)
    BY <1>2, <1>4
  <2>3. e[n] = c[n + 1] /\ e[n + 1] = c[n + 1 + 1]
    BY <1>6, <2>2
  <2>4. Link(p, s[n + 1], c[n + 1], c[n + 1 + 1])
    BY <1>1, <2>1
  <2> QED
    BY <2>1, <2>3, <2>4
<1>10. Link(p, Head(s), B, c[2])
  BY <1>1, <1>2
<1>11. Expects(p, t, c[2], G)
  BY <1>7, <1>8, <1>9 DEF Expects
<1> QED
  BY <1>3, <1>8, <1>10, <1>11


-----------------------------------------------------------------------------
(* What defines the location *)

\* The mnemonic and the operands a locator stands for.
LEMMA LocatorSays ==
    ASSUME NEW i, NEW name, name = LocatorOf(i)
    PROVE  /\ name \in TwoOperands \cup {"call_return", "push", "none"}
           /\ name = "mov_reg_reg" => i.mnem \in Moves /\ IsReg(i.ops[1]) /\ IsReg(i.ops[2])
           /\ name = "mov_reg_mem" => i.mnem \in Moves /\ IsReg(i.ops[1]) /\ IsMem(i.ops[2])
           /\ name = "mov_reg_imm" => i.mnem \in Moves /\ IsReg(i.ops[1]) /\ IsImm(i.ops[2])
           /\ name = "mov_mem_imm" => i.mnem \in Moves /\ IsMem(i.ops[1]) /\ IsImm(i.ops[2])
           /\ name = "mov_mem_reg" => i.mnem \in Moves /\ IsMem(i.ops[1]) /\ IsReg(i.ops[2])
           /\ name = "lea_reg_addr" =>
                i.mnem = "lea" /\ IsReg(i.ops[1]) /\ i.ops[2].kind = "MEM_DIRECT"
           /\ name = "lea_reg_displ" =>
                i.mnem = "lea" /\ IsReg(i.ops[1]) /\ IsBased(i.ops[2]) /\ ~i.ops[2].index
           /\ name = "xchg_reg_reg" => i.mnem = "xchg" /\ IsReg(i.ops[1]) /\ IsReg(i.ops[2])
           /\ name = "add_sub_reg_imm" =>
                i.mnem \in {"add", "sub"} /\ IsReg(i.ops[1]) /\ IsImm(i.ops[2])
           /\ name = "zero_idiom" =>
                /\ i.mnem \in {"xor", "sub"} /\ IsReg(i.ops[1]) /\ IsReg(i.ops[2])
                /\ i.ops[1].reg = i.ops[2].reg
           /\ name = "call_return" => i.mnem = "call"
           /\ name = "push" => i.mnem = "push"
           /\ i.mnem = "call" => name = "call_return"
           /\ i.mnem = "push" /\ Len(i.ops) >= 1 => name = "push"
<1>1. PICK dst, src : dst = i.ops[1] /\ src = i.ops[2]
  OBVIOUS
<1>2. PICK two : two = LocatorOfBinary(i.mnem, dst, src)
  OBVIOUS
<1>3. /\ two \in TwoOperands \cup {"none"}
      /\ two = "mov_reg_reg" => i.mnem \in Moves /\ IsReg(dst) /\ IsReg(src)
      /\ two = "mov_reg_mem" => i.mnem \in Moves /\ IsReg(dst) /\ IsMem(src)
      /\ two = "mov_reg_imm" => i.mnem \in Moves /\ IsReg(dst) /\ IsImm(src)
      /\ two = "mov_mem_imm" => i.mnem \in Moves /\ IsMem(dst) /\ IsImm(src)
      /\ two = "mov_mem_reg" => i.mnem \in Moves /\ IsMem(dst) /\ IsReg(src)
      /\ two = "lea_reg_addr" => i.mnem = "lea" /\ IsReg(dst) /\ src.kind = "MEM_DIRECT"
      /\ two = "lea_reg_displ" => i.mnem = "lea" /\ IsReg(dst) /\ IsBased(src) /\ ~src.index
      /\ two = "xchg_reg_reg" => i.mnem = "xchg" /\ IsReg(dst) /\ IsReg(src)
      /\ two = "add_sub_reg_imm" => i.mnem \in {"add", "sub"} /\ IsReg(dst) /\ IsImm(src)
      /\ two = "zero_idiom" =>
           i.mnem \in {"xor", "sub"} /\ IsReg(dst) /\ IsReg(src) /\ dst.reg = src.reg
  <2>1. two \in TwoOperands \cup {"none"}
    BY <1>2 DEF LocatorOfBinary, TwoOperands
  <2>2. ASSUME two = "mov_reg_reg"
        PROVE  i.mnem \in Moves /\ IsReg(dst) /\ IsReg(src)
    BY <1>2, <2>2 DEF LocatorOfBinary, Moves
  <2>3. ASSUME two = "mov_reg_mem"
        PROVE  i.mnem \in Moves /\ IsReg(dst) /\ IsMem(src)
    BY <1>2, <2>3 DEF LocatorOfBinary, Moves
  <2>4. ASSUME two = "mov_reg_imm"
        PROVE  i.mnem \in Moves /\ IsReg(dst) /\ IsImm(src)
    BY <1>2, <2>4 DEF LocatorOfBinary, Moves
  <2>5. ASSUME two = "mov_mem_imm"
        PROVE  i.mnem \in Moves /\ IsMem(dst) /\ IsImm(src)
    BY <1>2, <2>5 DEF LocatorOfBinary, Moves
  <2>6. ASSUME two = "mov_mem_reg"
        PROVE  i.mnem \in Moves /\ IsMem(dst) /\ IsReg(src)
    BY <1>2, <2>6 DEF LocatorOfBinary, Moves
  <2>7. ASSUME two = "lea_reg_addr"
        PROVE  i.mnem = "lea" /\ IsReg(dst) /\ src.kind = "MEM_DIRECT"
    BY <1>2, <2>7 DEF LocatorOfBinary, Moves
  <2>8. ASSUME two = "lea_reg_displ"
        PROVE  i.mnem = "lea" /\ IsReg(dst) /\ IsBased(src) /\ ~src.index
    BY <1>2, <2>8 DEF LocatorOfBinary, Moves
  <2>9. ASSUME two = "xchg_reg_reg"
        PROVE  i.mnem = "xchg" /\ IsReg(dst) /\ IsReg(src)
    BY <1>2, <2>9 DEF LocatorOfBinary, Moves
  <2>10. ASSUME two = "add_sub_reg_imm"
        PROVE  i.mnem \in {"add", "sub"} /\ IsReg(dst) /\ IsImm(src)
    BY <1>2, <2>10 DEF LocatorOfBinary, Moves
  <2>11. ASSUME two = "zero_idiom"
        PROVE  i.mnem \in {"xor", "sub"} /\ IsReg(dst) /\ IsReg(src) /\ dst.reg = src.reg
    BY <1>2, <2>11 DEF LocatorOfBinary, Moves
  <2> QED
    BY <2>1, <2>2, <2>3, <2>4, <2>5, <2>6, <2>7, <2>8, <2>9, <2>10, <2>11
<1>4. /\ i.mnem = "call" => name = "call_return"
      /\ i.mnem # "call" /\ i.mnem = "push" /\ Len(i.ops) >= 1 => name = "push"
      /\ i.mnem # "call" /\ ~(i.mnem = "push" /\ Len(i.ops) >= 1) => name = two \/ name = "none"
  BY <1>1, <1>2 DEF LocatorOf
<1>5. CASE name = two \/ name = "none"
  BY <1>1, <1>3, <1>4, <1>5 DEF TwoOperands
<1>6. CASE name = "call_return" /\ i.mnem = "call"
  BY <1>6
<1>7. CASE name = "push" /\ i.mnem = "push"
  BY <1>7
<1> QED
  BY <1>4, <1>5, <1>6, <1>7

\* Operand k of the instruction is the tracked location.
IsOperand(i, k, key) ==
    \/ key.of = "register" /\ key.reg \in WholeReg /\ IsReg(i.ops[k]) /\ i.ops[k].reg = key.reg
    \/ key.of = "memory" /\ Fixed(i.ops[k]) /\ CellOf(i, i.ops[k]) = key.cell

\* A word written to the operand is what the location holds afterwards.
LEMMA WriteHolds ==
    ASSUME NEW i, IsInstruction(i), Understood(i), NEW k \in Written(i), NEW key,
           IsOperand(i, k, key), NEW m \in Machines, NEW w \in Words,
           NEW n \in Writes(m, i, i.ops[k], w)
    PROVE  Holding(key, n) = w
<1>1. CASE key.of = "register" /\ key.reg \in WholeReg /\ IsReg(i.ops[k])
           /\ i.ops[k].reg = key.reg
  <2>1. n = SetRegister(m, key.reg, w)
    BY <1>1 DEF Writes, IsReg, IsMem
  <2>2. key.reg \in Reg
    BY <1>1 DEF WholeReg
  <2>3. n.regs[key.reg] = w
    BY <2>1, <2>2, AfterSetRegister
  <2> QED
    BY <1>1, <2>3 DEF Holding
<1>2. CASE key.of = "memory" /\ Fixed(i.ops[k]) /\ CellOf(i, i.ops[k]) = key.cell
  <2>1. PICK c : c = key.cell
    OBVIOUS
  <2>2. IsMem(i.ops[k]) /\ ~IsReg(i.ops[k])
    BY <1>2 DEF Fixed, IsMem, IsReg
  <2>3. /\ CellsOf(m, i, i.ops[k]) = NamedCells(i, i.ops[k])
        /\ NamedCells(i, i.ops[k]) \subseteq Words
    BY <2>2, StoresAreNamed
  <2>4. NamedCells(i, i.ops[k]) = {Target(c)}
    BY <1>2, <2>1, FixedStore
  <2>5. Target(c) \in Words /\ n = SetCell(m, Target(c), w)
    BY <2>2, <2>3, <2>4 DEF Writes, IsReg, IsMem
  <2>6. Content(n, Target(c)) = w
    BY <2>5, AfterSetCell
  <2>7. key.of # "register"
    BY <1>2
  <2> QED
    BY <2>1, <2>6, <2>7 DEF Holding
<1> QED
  BY <1>1, <1>2 DEF IsOperand

\* The operand that defines the location, and, where that is memory, that the
\* function stores to the cell.
LEMMA DefinedOperand ==
    ASSUME NEW p, Analysable(p), NEW i \in InstructionsOf(p), IsInstruction(i), Understood(i),
           NEW key, IsTracked(key), NEW found, found = Match(i, key), found.is = "definition"
    PROVE  /\ key.of = "memory" => key.cell \in CellsStored(p)
           /\ \/ i.mnem = "call" /\ key.of = "register" /\ key.reg = RetReg
              \/ /\ i.mnem # "call" /\ found.operand \in Written(i)
                 /\ IsOperand(i, found.operand, key)
                 /\ key.of = "register" =>
                      RegisterView(i.ops[found.operand].reg,
                                   i.ops[found.operand].size).definesParent
<1>1. key.of \in {"register", "memory"}
  BY MatchByKind
<1>2. CASE key.of = "register"
  <2>1. key.reg \in WholeReg /\ WordSize > 1
    BY <1>2, MatchByKind DEF Analysable
  <2>2. \/ i.mnem = "call" /\ key.reg = RetReg
        \/ /\ i.mnem # "call" /\ found.operand \in Written(i) /\ IsReg(i.ops[found.operand])
           /\ i.ops[found.operand].reg = key.reg
           /\ RegisterView(i.ops[found.operand].reg, i.ops[found.operand].size).definesParent
    BY <1>2, <2>1, RegisterMatch
  <2> QED
    BY <1>2, <2>1, <2>2 DEF IsOperand
<1>3. CASE key.of = "memory"
  <2>1. PICK c : c = key.cell
    OBVIOUS
  <2>2. IsLocation(c) /\ found = Match(i, MemoryKey(c))
    BY <1>3, <2>1, MatchByKind
  <2>3. /\ found.operand \in Written(i) /\ Fixed(i.ops[found.operand])
        /\ CellOf(i, i.ops[found.operand]) = c
    BY <2>2, MemoryMatch
  <2>4. c \in CellsStored(p)
    BY <2>3, StoreIsNamed
  <2>5. i.mnem # "call"
    BY <2>3, UnderstoodOperands
  <2> QED
    BY <1>3, <2>1, <2>3, <2>4, <2>5 DEF IsOperand
<1> QED
  BY <1>1, <1>2, <1>3


\* What the location holds after the instruction that defines it.
LEMMA DefinedWord ==
    ASSUME NEW i, IsInstruction(i), Understood(i), NEW k \in Written(i), NEW key,
           IsOperand(i, k, key), NEW m \in Machines, NEW n \in Execute(i, m)
    PROVE  /\ i.mnem \in Moves => Holding(key, n) \in Reads(m, i, i.ops[2])
           /\ i.mnem = "lea" /\ EffectiveAddress(m, i.ops[2]) \in Words =>
                Holding(key, n) = EffectiveAddress(m, i.ops[2])
           /\ i.mnem \in {"add", "sub", "xor"} =>
                Holding(key, n) \in Arithmetic(m, i, i.ops[1], i.ops[2])
<1>1. i.mnem \in Moves \cup {"lea", "cmov", "add", "sub", "xor"} =>
         Written(i) = {1} /\ 1 \in DOMAIN i.ops /\ 2 \in DOMAIN i.ops /\ k = 1
  BY UnderstoodOperands
<1>2. ASSUME i.mnem \in Moves
      PROVE  Holding(key, n) \in Reads(m, i, i.ops[2])
  <2>1. k = 1 /\ 2 \in DOMAIN i.ops
    BY <1>1, <1>2
  <2>2. Execute(i, m) = Assign(m, i, i.ops[1], Reads(m, i, i.ops[2]))
    BY <1>2, ExecuteCases
  <2>3. PICK w \in Reads(m, i, i.ops[2]) : n \in Writes(m, i, i.ops[k], w)
    BY <2>1, <2>2 DEF Assign
  <2>4. i.ops[2].imm \in Int /\ (IsReg(i.ops[2]) => i.ops[2].reg \in Reg)
    BY <2>1, OperandOf
  <2>5. w \in Words
    BY <2>4, ReadsAreWords
  <2> QED
    BY <2>3, <2>5, WriteHolds
<1>3. ASSUME i.mnem = "lea", EffectiveAddress(m, i.ops[2]) \in Words
      PROVE  Holding(key, n) = EffectiveAddress(m, i.ops[2])
  <2>1. k = 1
    BY <1>1, <1>3
  <2>2. Execute(i, m) = Writes(m, i, i.ops[1], EffectiveAddress(m, i.ops[2]))
    BY <1>3, ExecuteCases
  <2>3. n \in Writes(m, i, i.ops[k], EffectiveAddress(m, i.ops[2]))
    BY <2>1, <2>2
  <2> QED
    BY <1>3, <2>3, WriteHolds
<1>4. ASSUME i.mnem \in {"add", "sub", "xor"}
      PROVE  Holding(key, n) \in Arithmetic(m, i, i.ops[1], i.ops[2])
  <2>1. k = 1 /\ 1 \in DOMAIN i.ops /\ 2 \in DOMAIN i.ops
    BY <1>1, <1>4
  <2>2. Execute(i, m) = Assign(m, i, i.ops[1], Arithmetic(m, i, i.ops[1], i.ops[2]))
    BY <1>4, ExecuteCases
  <2>3. PICK w \in Arithmetic(m, i, i.ops[1], i.ops[2]) : n \in Writes(m, i, i.ops[k], w)
    BY <2>1, <2>2 DEF Assign
  <2>4. w \in Words
    BY <2>1, <2>3, ArithmeticIsWords
  <2> QED
    BY <2>3, <2>4, WriteHolds
<1> QED
  BY <1>2, <1>3, <1>4

\* An exchange of whole registers leaves in each what the other held.
LEMMA ExchangedWord ==
    ASSUME NEW i, IsInstruction(i), Understood(i), i.mnem = "xchg",
           IsReg(i.ops[1]), IsReg(i.ops[2]), NEW k \in Written(i), NEW key,
           IsOperand(i, k, key), NEW m \in Machines, NEW n \in Execute(i, m)
    PROVE  /\ k \in {1, 2} /\ i.ops[3 - k].reg \in WholeReg
           /\ Holding(key, n) = m.regs[i.ops[3 - k].reg]
<1>1. Written(i) = {1, 2} /\ 1 \in DOMAIN i.ops /\ 2 \in DOMAIN i.ops
  BY UnderstoodOperands
<1>2. PICK q, r : q = i.ops[1].reg /\ r = i.ops[2].reg
  OBVIOUS
<1>3. q \in Reg /\ r \in Reg
  BY <1>1, <1>2, OperandOf
<1>4. k \in {1, 2}
  BY <1>1
<1>5. ~IsMem(i.ops[k])
  BY <1>4 DEF IsReg, IsMem
<1>6. key.of = "register" /\ key.reg \in WholeReg /\ i.ops[k].reg = key.reg
  BY <1>5 DEF IsOperand, Fixed
<1>7. q \in WholeReg <=> r \in WholeReg
  BY <1>2 DEF Understood, TakesWholeRegisters
<1>8. q \in WholeReg /\ r \in WholeReg
  BY <1>2, <1>4, <1>6, <1>7
<1>9. Reads(m, i, i.ops[2]) = {m.regs[r]} /\ Reads(m, i, i.ops[1]) = {m.regs[q]}
  BY <1>2 DEF Reads, IsReg, IsImm, IsMem
<1>10. PICK s \in Assign(m, i, i.ops[1], {m.regs[r]}) :
          n \in Assign(s, i, i.ops[2], {m.regs[q]})
  BY <1>9, ExecuteCases
<1>11. s = SetRegister(m, q, m.regs[r]) /\ n = SetRegister(s, r, m.regs[q])
  BY <1>2, <1>10 DEF Assign, Writes, IsReg, IsMem
<1>12. m.regs[q] \in Words /\ m.regs[r] \in Words
  BY <1>3, MachineParts
<1>13. s \in Machines /\ s.regs[q] = m.regs[r]
  BY <1>3, <1>11, <1>12, AfterSetRegister
<1>14. /\ n.regs[r] = m.regs[q]
       /\ q = r \/ n.regs[q] = s.regs[q] \/ r \in Narrow
  BY <1>3, <1>8, <1>11, <1>12, <1>13, AfterSetRegister
<1>15. r \notin Narrow
  BY <1>8 DEF WholeReg
<1>16. CASE k = 1
  <2>1. 3 - k = 2 /\ key.reg = q
    BY <1>2, <1>6, <1>16
  <2>2. n.regs[q] = m.regs[r]
    BY <1>13, <1>14, <1>15
  <2>3. i.ops[3 - k].reg = r
    BY <1>2, <2>1
  <2> QED
    BY <1>4, <1>6, <1>8, <2>1, <2>2, <2>3 DEF Holding
<1>17. CASE k = 2
  <2>1. 3 - k = 1 /\ key.reg = r
    BY <1>2, <1>6, <1>17
  <2>2. i.ops[3 - k].reg = q
    BY <1>2, <2>1
  <2> QED
    BY <1>4, <1>6, <1>8, <1>14, <2>1, <2>2 DEF Holding
<1> QED
  BY <1>4, <1>16, <1>17

\* A value that denotes whatever the operand may hold is one of A.
Takes(p, op, b, n, A) ==
    /\ Failure \subseteq A
    /\ \A v \in Known :
         (\A m \in Before(p, b, n) : \A w \in Reads(m, p.code[b][n], op) : Denotes(v, w))
           => v \in A

\* A value of a result set is a failure, or it denotes what it has to.
LEMMA KnownOrFailure ==
    ASSUME NEW v \in Result
    PROVE  v \in Failure \/ (v \in Known /\ IsKnown(v))
BY KnownIsNoSentinel DEF Result, IsKnown, IsUnknown

\* The only cell such an operand accesses.
LEMMA DirectOrBased ==
    ASSUME NEW i, IsInstruction(i), NEW op, NEW m, op.imm \in Int, op.disp \in Int, IsMem(op),
           ~op.index, ~op.seg, op.kind = "MEM_DIRECT" \/ IsBased(op),
           NEW base, base = IF op.kind = "MEM_DIRECT" THEN NoReg ELSE op.reg,
           NEW disp, disp = IF op.kind = "MEM_DIRECT" THEN op.imm ELSE op.disp,
           ~(base # NoReg /\ base = SpReg /\ i.delta = <<>>)
    PROVE  CellsOf(m, i, op) = {CellAt(m, i, base, disp)}
<1>1. SpReg # NoReg /\ FpReg # NoReg
  BY RegistersAssumption
<1>2. CASE op.kind = "MEM_DIRECT"
  <2>1. ~IsBased(op)
    BY <1>2 DEF IsBased
  <2>2. CellsOf(m, i, op) = {Num(op.imm)}
    BY <2>1 DEF CellsOf
  <2>3. CellAt(m, i, base, disp) = Num(op.imm)
    BY <1>1, <1>2 DEF CellAt
  <2> QED
    BY <2>2, <2>3
<1>3. CASE IsBased(op)
  <2>1. base = op.reg /\ disp = op.disp /\ base # NoReg
    BY <1>3 DEF IsBased
  <2>2. CASE base \notin {SpReg, FpReg}
    BY <1>3, <2>1, <2>2 DEF CellsOf, CellAt
  <2>3. CASE base = SpReg
    <3>1. i.delta # <<>>
      BY <2>1, <2>3
    <3>2. i.delta[1] \in Int
      BY <3>1, DepthIsNumber
    <3>3. CellsOf(m, i, op) = {StackCell(op.disp + i.delta[1])}
      BY <1>3, <2>1, <2>3, <3>1 DEF CellsOf
    <3>4. CellAt(m, i, base, disp) = StackCell(i.delta[1] + disp)
      BY <1>1, <2>1, <2>3 DEF CellAt
    <3>5. op.disp + i.delta[1] = i.delta[1] + disp
      BY <2>1, <3>2
    <3> QED
      BY <3>3, <3>4, <3>5
  <2>4. CASE base = FpReg /\ base # SpReg
    <3>1. CellsOf(m, i, op) = {StackCell(op.disp + FpOffset)}
      BY <1>3, <2>1, <2>4 DEF CellsOf
    <3>2. CellAt(m, i, base, disp) = StackCell(FpOffset + disp)
      BY <1>1, <2>1, <2>4 DEF CellAt
    <3>3. op.disp + FpOffset = FpOffset + disp
      BY <2>1, CellsAssumption
    <3> QED
      BY <3>1, <3>2, <3>3
  <2> QED
    BY <2>2, <2>3, <2>4
<1> QED
  BY <1>2, <1>3

\* How the locators ask for an operand: a register, a constant or memory.
LEMMA OperandIsAsked ==
    ASSUME NEW p, NEW b, NEW n \in Nat \ {0}, NEW i, i = p.code[b][n], IsInstruction(i),
           NEW op, op.imm \in Int, op.disp \in Int, IsBased(op) => op.reg \in WholeReg,
           op.kind = "MEM_DIRECT" => op.imm \in 0..(Modulus[WordSize] - 1),
           NEW A, Takes(p, op, b, n, A)
    PROVE  /\ IsReg(op) /\ op.reg \in WholeReg => Computes(p, ResolveRegister(op.reg, b, n), A)
           /\ IsImm(op) => Computes(p, Returning(Concrete(op.imm, "INT")), A)
           /\ IsMem(op) => Computes(p, LoadOperand(op, b, n), A)
<1>2. Failure \subseteq A
  BY DEF Takes
<1>3. ASSUME IsReg(op), op.reg \in WholeReg
      PROVE  Computes(p, ResolveRegister(op.reg, b, n), A)
  <2>1. ASSUME NEW v \in RegOK(p, op.reg, b, n)
        PROVE  v \in A
    <3>1. v \in Result
      BY DEF RegOK
    <3>2. CASE v \in Failure
      BY <1>2, <3>2
    <3>3. CASE v \in Known /\ IsKnown(v)
      <4>1. ASSUME NEW m \in Before(p, b, n), NEW w \in Reads(m, i, op)
            PROVE  Denotes(v, w)
        <5>1. w = m.regs[op.reg]
          BY <1>3 DEF Reads, IsReg, IsImm, IsMem
        <5>2. Denotes(v, m.regs[op.reg])
          BY <3>3 DEF RegOK
        <5> QED
          BY <5>1, <5>2
      <4> QED
        BY <3>3, <4>1 DEF Takes
    <3> QED
      BY <3>1, <3>2, <3>3, KnownOrFailure
  <2> QED
    BY <1>2, <1>3, <2>1 DEF Computes, ResolveRegister
<1>4. ASSUME IsImm(op)
      PROVE  Computes(p, Returning(Concrete(op.imm, "INT")), A)
  <2>1. Concrete(op.imm, "INT") \in Known
    BY ResultsAreMade DEF Kind
  <2>2. ASSUME NEW m \in Before(p, b, n), NEW w \in Reads(m, i, op)
        PROVE  Denotes(Concrete(op.imm, "INT"), w)
    <3>1. w = Num(op.imm)
      BY <1>4 DEF Reads, IsReg, IsImm, IsMem
    <3> QED
      BY <3>1 DEF Denotes, Concrete
  <2>3. Concrete(op.imm, "INT") \in A
    BY <2>1, <2>2 DEF Takes
  <2> QED
    BY <1>2, <2>3 DEF Computes, Returning
<1>5. ASSUME IsMem(op)
      PROVE  Computes(p, LoadOperand(op, b, n), A)
  <2>1. CASE op.index \/ op.seg \/ (op.kind # "MEM_DIRECT" /\ op.reg = NoReg)
    <3>1. LoadOperand(op, b, n) = Returning(Unknown("UNSUPPORTED_OPERAND_SHAPE"))
      BY <2>1 DEF LoadOperand
    <3>2. Unknown("UNSUPPORTED_OPERAND_SHAPE") \in Failure
      BY FailureIsMade DEF Reason
    <3> QED
      BY <1>2, <3>1, <3>2 DEF Computes, Returning
  <2>2. CASE ~op.index /\ ~op.seg /\ (op.kind = "MEM_DIRECT" \/ op.reg # NoReg)
    <3>1. PICK base, disp :
             /\ base = IF op.kind = "MEM_DIRECT" THEN NoReg ELSE op.reg
             /\ disp = IF op.kind = "MEM_DIRECT" THEN op.imm ELSE op.disp
      OBVIOUS
    <3>2. LoadOperand(op, b, n) = ResolveMemory(base, disp, b, n)
      BY <2>2, <3>1 DEF LoadOperand
    <3>3. op.kind # "MEM_DIRECT" => IsBased(op) /\ op.reg \in WholeReg
      <4>1. op.kind # "MEM_DIRECT" => IsBased(op)
        BY <1>5, <2>2 DEF IsMem, IsBased
      <4> QED
        BY <4>1
    <3>4. op.kind = "MEM_DIRECT" => op.imm \in 0..(Modulus[WordSize] - 1)
      OBVIOUS
    <3>5. base \in WholeReg \cup {NoReg} /\ (base = NoReg => disp \in 0..(Modulus[WordSize] - 1))
      <4>1. NoReg \notin WholeReg
        BY RegistersAssumption DEF WholeReg
      <4> QED
        BY <3>1, <3>3, <3>4, <4>1
    <3>6. ASSUME NEW v \in MemOK(p, base, disp, b, n)
          PROVE  v \in A
      <4>1. v \in Result
        BY DEF MemOK
      <4>2. CASE v \in Failure
        BY <1>2, <4>2
      <4>3. CASE v \in Known /\ IsKnown(v)
        <5>1. ASSUME NEW m \in Before(p, b, n), NEW w \in Reads(m, i, op)
              PROVE  Denotes(v, w)
          <6>1. /\ ~(base # NoReg /\ base = SpReg /\ i.delta = <<>>)
                /\ Denotes(v, Content(m, CellAt(m, i, base, disp)))
            BY <4>3 DEF MemOK
          <6>2. CellsOf(m, i, op) = {CellAt(m, i, base, disp)}
            BY <1>5, <2>2, <3>1, <3>3, <6>1, DirectOrBased
          <6>3. w = Content(m, CellAt(m, i, base, disp))
            <7>1. ~IsReg(op) /\ ~IsImm(op)
              BY <1>5 DEF IsReg, IsImm, IsMem
            <7>2. Reads(m, i, op) = {Content(m, c) : c \in CellsOf(m, i, op)}
              BY <1>5, <6>2, <7>1 DEF Reads
            <7> QED
              BY <6>2, <7>2
          <6> QED
            BY <6>1, <6>3
        <5> QED
          BY <4>3, <5>1 DEF Takes
      <4> QED
        BY <4>1, <4>2, <4>3, KnownOrFailure
    <3> QED
      BY <1>2, <3>2, <3>5, <3>6 DEF Computes, ResolveMemory
  <2> QED
    BY <2>1, <2>2
<1> QED
  BY <1>3, <1>4, <1>5


\* Adding to a number adds to the word it stands for.
LEMMA AdjustedDenotes ==
    ASSUME NEW v \in Result, v.tag = "Concrete", NEW w, Denotes(v, w),
           NEW delta \in Int, NEW kind \in Kind
    PROVE  /\ Adjusted(v, delta, WordSize, kind) \in Known
           /\ Denotes(Adjusted(v, delta, WordSize, kind), Plus(w, delta))
<1>1. v.value \in Int
  BY ResultCases
<1>2. w = Num(v.value)
  BY DEF Denotes
<1>3. PICK x \in Int : x = v.value + delta
  BY <1>1
<1>4. Modulus[WordSize] \in Nat \ {0} /\ WordSize \in 1..8
  BY WordModulus
<1>5. PICK y : y = x % Modulus[WordSize]
  OBVIOUS
<1>6. y \in Int /\ y % Modulus[WordSize] = y
  <2>1. y \in Int
    BY <1>4, <1>5
  <2>2. (x % Modulus[WordSize]) % Modulus[WordSize] = x % Modulus[WordSize]
    BY <1>4, ModTwice
  <2> QED
    BY <1>5, <2>1, <2>2
<1>7. Adjusted(v, delta, WordSize, kind) = Concrete(y, kind)
  <2>1. Adjusted(v, delta, WordSize, kind) = Concrete(Wrap(v.value + delta, WordSize), kind)
    BY DEF Adjusted, IsUnknown
  <2>2. Wrap(x, WordSize) = y
    BY <1>4, <1>5 DEF Wrap
  <2> QED
    BY <1>3, <2>1, <2>2
<1>8. Plus(w, delta) = Num(x)
  BY <1>1, <1>2, <1>3, PlusNum
<1>9. Num(y) = Num(x)
  BY <1>5, <1>6 DEF Num, Word
<1>10. Denotes(Concrete(y, kind), Num(x))
  BY <1>9 DEF Denotes, Concrete
<1>11. Concrete(y, kind) \in Known
  BY <1>6, ResultsAreMade
<1> QED
  BY <1>7, <1>8, <1>10, <1>11

\* What cannot be adjusted, or is unknown already, becomes a failure.
LEMMA AdjustedFails ==
    ASSUME NEW v \in Result, v.tag # "Concrete", NEW delta, NEW size, NEW kind
    PROVE  Adjusted(v, delta, size, kind) \in Failure
<1>1. CASE IsUnknown(v)
  <2>1. v \in Failure
    BY <1>1, KnownIsNoSentinel DEF Result
  <2> QED
    BY <1>1, <2>1 DEF Adjusted
<1>2. CASE ~IsUnknown(v)
  <2>1. Unknown("UNSUPPORTED_OPERAND_SHAPE") \in Failure
    BY FailureIsMade DEF Reason
  <2> QED
    BY <1>2, <2>1 DEF Adjusted
<1> QED
  BY <1>1, <1>2

\* Operand h of the instruction at a program point defines the tracked location,
\* and a value that denotes what the location holds after it is one of A.
DefinedAt(p, b, n, i, h, key, A) ==
    /\ Analysable(p) /\ b \in p.blocks /\ n \in 1..Len(p.code[b]) /\ i = p.code[b][n]
    /\ h \in Written(i) /\ IsOperand(i, h, key)
    /\ key.of = "register" => RegisterView(i.ops[h].reg, i.ops[h].size).definesParent
    /\ Failure \subseteq A
    /\ \A v \in Known :
         (\A m \in Before(p, b, n) : \A k \in Execute(i, m) : Denotes(v, Holding(key, k)))
           => v \in A

\* What is known of such an instruction.
LEMMA DefinedFacts ==
    ASSUME NEW p, NEW b, NEW n, NEW i, NEW h, NEW key, NEW A, DefinedAt(p, b, n, i, h, key, A)
    PROVE  /\ n \in Nat \ {0} /\ IsInstruction(i) /\ Understood(i)
           /\ \A m \in Before(p, b, n) : m \in Machines
           /\ i.mnem \in Moves \cup {"lea", "cmov", "add", "sub", "xor"} =>
                Written(i) = {1} /\ 1 \in DOMAIN i.ops /\ 2 \in DOMAIN i.ops /\ h = 1
           /\ \A j \in DOMAIN i.ops :
                /\ i.ops[j].imm \in Int /\ i.ops[j].disp \in Int
                /\ IsReg(i.ops[j]) => i.ops[j].reg \in Reg
                /\ IsBased(i.ops[j]) => i.ops[j].reg \in WholeReg
                /\ i.ops[j].kind = "MEM_DIRECT" => i.ops[j].imm \in 0..(Modulus[WordSize] - 1)
           /\ i.mnem \in {"lea", "add", "sub"} /\ IsReg(i.ops[1]) =>
                /\ i.ops[1].size = WordSize /\ i.ops[1].reg \in WholeReg
           /\ i.mnem \in Moves /\ IsReg(i.ops[2]) => i.ops[2].reg \in WholeReg
<1>1. IsInstruction(i) /\ Understood(i) /\ n \in Nat \ {0}
  BY CodeOf DEF DefinedAt
<1>2. \A m \in Before(p, b, n) : m \in Machines
  BY DEF Before
<1>3. i.mnem \in Moves \cup {"lea", "cmov", "add", "sub", "xor"} =>
         Written(i) = {1} /\ 1 \in DOMAIN i.ops /\ 2 \in DOMAIN i.ops /\ h = 1
  BY <1>1, UnderstoodOperands DEF DefinedAt
<1>4. ASSUME NEW j \in DOMAIN i.ops
      PROVE  /\ i.ops[j].imm \in Int /\ i.ops[j].disp \in Int
             /\ IsReg(i.ops[j]) => i.ops[j].reg \in Reg
             /\ IsBased(i.ops[j]) => i.ops[j].reg \in WholeReg
             /\ i.ops[j].kind = "MEM_DIRECT" => i.ops[j].imm \in 0..(Modulus[WordSize] - 1)
  BY <1>1, OperandOf DEF Understood, TakesWholeRegisters
<1>5. IsOperand(i, h, key) /\ (IsReg(i.ops[h]) => key.of = "register" /\ key.reg = i.ops[h].reg
                                                  /\ key.reg \in WholeReg)
  <2>1. IsReg(i.ops[h]) => ~Fixed(i.ops[h])
    BY DEF Fixed, IsReg, IsMem
  <2> QED
    BY <2>1 DEF DefinedAt, IsOperand
<1>6. ASSUME i.mnem \in {"lea", "add", "sub"}, IsReg(i.ops[1])
      PROVE  i.ops[1].size = WordSize /\ i.ops[1].reg \in WholeReg
  <2>1. h = 1
    BY <1>3, <1>6
  <2>2. RegisterView(i.ops[1].reg, i.ops[1].size).definesParent
    BY <1>5, <1>6, <2>1 DEF DefinedAt
  <2>3. \/ i.ops[1].size = WordSize
        \/ ~RegisterView(i.ops[1].reg, i.ops[1].size).definesParent
    BY <1>1, <1>6 DEF Understood
  <2> QED
    BY <1>5, <1>6, <2>1, <2>2, <2>3
<1>7. ASSUME i.mnem \in Moves, IsReg(i.ops[2])
      PROVE  i.ops[2].reg \in WholeReg
  <2>1. h = 1
    BY <1>3, <1>7
  <2>2. IsMem(i.ops[1]) \/ i.ops[1].reg \in WholeReg
    <3>1. CASE Fixed(i.ops[1])
      BY <3>1 DEF Fixed
    <3>2. CASE ~Fixed(i.ops[1])
      BY <1>5, <2>1, <3>2 DEF IsOperand
    <3> QED
      BY <3>1, <3>2
  <2> QED
    BY <1>1, <1>7, <2>2 DEF Understood, TakesWholeRegisters
<1> QED
  BY <1>1, <1>2, <1>3, <1>4, <1>6, <1>7

\* A move: the locators ask for its source.
LEMMA MoveIsRight ==
    ASSUME NEW p, NEW b, NEW n, NEW i, NEW h, NEW key, NEW A, DefinedAt(p, b, n, i, h, key, A),
           NEW name, name = LocatorOf(i),
           name \in {"mov_reg_reg", "mov_reg_mem", "mov_reg_imm", "mov_mem_imm", "mov_mem_reg"}
    PROVE  Computes(p, Interpret(i, h, b, n), A)
<1>1. i.mnem \in Moves
  BY LocatorSays
<1>2. /\ n \in Nat \ {0} /\ IsInstruction(i) /\ Understood(i) /\ 2 \in DOMAIN i.ops
      /\ i.ops[2].imm \in Int /\ i.ops[2].disp \in Int
      /\ IsReg(i.ops[2]) => i.ops[2].reg \in WholeReg
      /\ IsBased(i.ops[2]) => i.ops[2].reg \in WholeReg
      /\ i.ops[2].kind = "MEM_DIRECT" => i.ops[2].imm \in 0..(Modulus[WordSize] - 1)
      /\ \A m \in Before(p, b, n) : m \in Machines
  BY <1>1, DefinedFacts
<1>3. PICK op : op = i.ops[2]
  OBVIOUS
<1>4. h \in Written(i) /\ IsOperand(i, h, key) /\ i = p.code[b][n]
  BY DEF DefinedAt
<1>5. ASSUME NEW m \in Before(p, b, n), NEW k \in Execute(i, m)
      PROVE  Holding(key, k) \in Reads(m, i, op)
  <2>1. m \in Machines
    BY <1>2
  <2> QED
    BY <1>1, <1>2, <1>3, <1>4, <2>1, DefinedWord
<1>6. ASSUME NEW v \in Known,
             \A m \in Before(p, b, n) : \A w \in Reads(m, p.code[b][n], op) : Denotes(v, w)
      PROVE  v \in A
  <2>1. ASSUME NEW m \in Before(p, b, n), NEW k \in Execute(i, m)
        PROVE  Denotes(v, Holding(key, k))
    BY <1>4, <1>5, <1>6
  <2> QED
    BY <2>1 DEF DefinedAt
<1>7. Takes(p, op, b, n, A)
  <2>1. Failure \subseteq A
    BY DEF DefinedAt
  <2> QED
    BY <1>6, <2>1 DEF Takes
<1>8. /\ IsReg(op) => Computes(p, ResolveRegister(op.reg, b, n), A)
      /\ IsImm(op) => Computes(p, Returning(Concrete(op.imm, "INT")), A)
      /\ IsMem(op) => Computes(p, LoadOperand(op, b, n), A)
  BY <1>2, <1>3, <1>4, <1>7, OperandIsAsked
<1>9. CASE name \in {"mov_reg_reg", "mov_mem_reg"}
  <2>1. IsReg(i.ops[2])
    BY <1>9, LocatorSays
  <2>2. Interpret(i, h, b, n) = ResolveRegister(i.ops[2].reg, b, n)
    BY <1>9 DEF Interpret
  <2> QED
    BY <1>3, <1>8, <2>1, <2>2
<1>10. CASE name \in {"mov_reg_imm", "mov_mem_imm"}
  <2>1. IsImm(i.ops[2])
    BY <1>10, LocatorSays
  <2>2. Interpret(i, h, b, n) = Returning(Concrete(i.ops[2].imm, "INT"))
    BY <1>10 DEF Interpret
  <2> QED
    BY <1>3, <1>8, <2>1, <2>2
<1>11. CASE name = "mov_reg_mem"
  <2>1. IsMem(i.ops[2])
    BY <1>11, LocatorSays
  <2>2. Interpret(i, h, b, n) = LoadOperand(i.ops[2], b, n)
    BY <1>11 DEF Interpret
  <2> QED
    BY <1>3, <1>8, <2>1, <2>2
<1> QED
  BY <1>9, <1>10, <1>11

\* An exchange: the locator asks for the other register.
LEMMA ExchangeIsRight ==
    ASSUME NEW p, NEW b, NEW n, NEW i, NEW h, NEW key, NEW A, DefinedAt(p, b, n, i, h, key, A),
           LocatorOf(i) = "xchg_reg_reg"
    PROVE  Computes(p, Interpret(i, h, b, n), A)
<1>1. i.mnem = "xchg" /\ IsReg(i.ops[1]) /\ IsReg(i.ops[2])
  BY LocatorSays
<1>2. /\ n \in Nat \ {0} /\ IsInstruction(i) /\ Understood(i)
      /\ \A m \in Before(p, b, n) : m \in Machines
  BY DefinedFacts
<1>3. PICK r : r = i.ops[3 - h].reg
  OBVIOUS
<1>4. h \in Written(i) /\ IsOperand(i, h, key) /\ Failure \subseteq A
  BY DEF DefinedAt
<1>5. ASSUME NEW m \in Before(p, b, n), NEW k \in Execute(i, m)
      PROVE  r \in WholeReg /\ Holding(key, k) = m.regs[r]
  <2>1. m \in Machines
    BY <1>2
  <2> QED
    BY <1>1, <1>2, <1>3, <1>4, <2>1, ExchangedWord
<1>6. r \in WholeReg
  <2>1. Written(i) = {1, 2} /\ 1 \in DOMAIN i.ops /\ 2 \in DOMAIN i.ops
    BY <1>1, <1>2, UnderstoodOperands
  <2>2. h \in {1, 2} /\ i.ops[h].reg \in WholeReg
    <3>1. h \in {1, 2}
      BY <1>4, <2>1
    <3>2. ~Fixed(i.ops[h])
      BY <1>1, <3>1 DEF IsReg, Fixed, IsMem
    <3> QED
      BY <1>4, <3>1, <3>2 DEF IsOperand
  <2>3. i.ops[1].reg \in WholeReg <=> i.ops[2].reg \in WholeReg
    BY <1>1, <1>2 DEF Understood, TakesWholeRegisters
  <2>4. CASE h = 1
    <3>1. 3 - h = 2
      BY <2>4
    <3> QED
      BY <1>3, <2>2, <2>3, <2>4, <3>1
  <2>5. CASE h = 2
    <3>1. 3 - h = 1
      BY <2>5
    <3> QED
      BY <1>3, <2>2, <2>3, <2>5, <3>1
  <2> QED
    BY <2>2, <2>4, <2>5
<1>7. ASSUME NEW v \in RegOK(p, r, b, n)
      PROVE  v \in A
  <2>1. v \in Result /\ (IsKnown(v) => \A m \in Before(p, b, n) : Denotes(v, m.regs[r]))
    BY DEF RegOK
  <2>2. CASE v \in Failure
    BY <1>4, <2>2
  <2>3. CASE v \in Known /\ IsKnown(v)
    <3>1. ASSUME NEW m \in Before(p, b, n), NEW k \in Execute(i, m)
          PROVE  Denotes(v, Holding(key, k))
      BY <1>5, <2>1, <2>3
    <3> QED
      BY <2>3, <3>1 DEF DefinedAt
  <2> QED
    BY <2>1, <2>2, <2>3, KnownOrFailure
<1>8. Interpret(i, h, b, n) = ResolveRegister(r, b, n)
  <2>1. Interpret(i, h, b, n) = ResolveRegister(i.ops[3 - h].reg, b, n)
    BY DEF Interpret
  <2> QED
    BY <1>3, <2>1
<1>9. Computes(p, ResolveRegister(r, b, n), A)
  BY <1>4, <1>6, <1>7 DEF Computes, ResolveRegister
<1> QED
  BY <1>8, <1>9


\* A constant: the address a lea loads, or the zero of an idiom.
LEMMA ConstantIsRight ==
    ASSUME NEW p, NEW b, NEW n, NEW i, NEW h, NEW key, NEW A, DefinedAt(p, b, n, i, h, key, A),
           NEW name, name = LocatorOf(i), name \in {"lea_reg_addr", "zero_idiom"}
    PROVE  Computes(p, Interpret(i, h, b, n), A)
<1>1. /\ IsInstruction(i) /\ Understood(i) /\ \A m \in Before(p, b, n) : m \in Machines
  BY DefinedFacts
<1>2. h \in Written(i) /\ IsOperand(i, h, key) /\ Failure \subseteq A
  BY DEF DefinedAt
<1>3. ASSUME NEW x \in Int, NEW kind \in Kind,
             \A m \in Before(p, b, n) : \A k \in Execute(i, m) : Holding(key, k) = Num(x)
      PROVE  Computes(p, Returning(Concrete(x, kind)), A)
  <2>1. Concrete(x, kind) \in Known
    BY ResultsAreMade
  <2>2. Denotes(Concrete(x, kind), Num(x))
    BY DEF Denotes, Concrete
  <2>3. Concrete(x, kind) \in A
    <3>1. ASSUME NEW m \in Before(p, b, n), NEW k \in Execute(i, m)
          PROVE  Denotes(Concrete(x, kind), Holding(key, k))
      BY <1>3, <2>2
    <3> QED
      BY <2>1, <3>1 DEF DefinedAt
  <2> QED
    BY <1>2, <2>3 DEF Computes, Returning
<1>4. CASE name = "lea_reg_addr"
  <2>1. i.mnem = "lea" /\ i.ops[2].kind = "MEM_DIRECT"
    BY <1>4, LocatorSays
  <2>2. 2 \in DOMAIN i.ops /\ i.ops[2].imm \in Int
    BY <2>1, DefinedFacts
  <2>3. ASSUME NEW m \in Before(p, b, n), NEW k \in Execute(i, m)
        PROVE  Holding(key, k) = Num(i.ops[2].imm)
    <3>1. EffectiveAddress(m, i.ops[2]) = Num(i.ops[2].imm)
      BY <2>1 DEF EffectiveAddress, IsBased
    <3>2. Num(i.ops[2].imm) \in Words /\ m \in Machines
      BY <1>1, <2>2, WordsAreMade
    <3> QED
      BY <1>1, <1>2, <2>1, <3>1, <3>2, DefinedWord
  <2>4. Interpret(i, h, b, n) = Returning(Concrete(i.ops[2].imm, "POINTER"))
    BY <1>4 DEF Interpret
  <2>5. Computes(p, Returning(Concrete(i.ops[2].imm, "POINTER")), A)
    BY <1>3, <2>2, <2>3 DEF Kind
  <2> QED
    BY <2>4, <2>5
<1>5. CASE name = "zero_idiom"
  <2>1. /\ i.mnem \in {"xor", "sub"} /\ IsReg(i.ops[1]) /\ IsReg(i.ops[2])
        /\ i.ops[1].reg = i.ops[2].reg
    BY <1>5, LocatorSays
  <2>2. ASSUME NEW m \in Before(p, b, n), NEW k \in Execute(i, m)
        PROVE  Holding(key, k) = Num(0)
    <3>1. Arithmetic(m, i, i.ops[1], i.ops[2]) = {Num(0)}
      BY <2>1 DEF Arithmetic, IsReg, IsImm
    <3>2. m \in Machines
      BY <1>1
    <3>3. Holding(key, k) \in Arithmetic(m, i, i.ops[1], i.ops[2])
      BY <1>1, <1>2, <2>1, <3>2, DefinedWord
    <3> QED
      BY <3>1, <3>3
  <2>3. Interpret(i, h, b, n) = Returning(Concrete(0, "INT"))
    BY <1>5 DEF Interpret
  <2>4. Computes(p, Returning(Concrete(0, "INT")), A)
    BY <1>3, <2>2 DEF Kind
  <2> QED
    BY <2>3, <2>4
<1> QED
  BY <1>4, <1>5

\* What is added to a register: the locators ask for it, and adjust the answer.
LEMMA AdjustmentIsRight ==
    ASSUME NEW p, NEW b, NEW n, NEW i, NEW h, NEW key, NEW A, DefinedAt(p, b, n, i, h, key, A),
           NEW r \in WholeReg, NEW delta \in Int, NEW kind \in Kind, NEW v \in RegOK(p, r, b, n),
           \A m \in Before(p, b, n) : \A k \in Execute(i, m) :
              Holding(key, k) = Plus(m.regs[r], delta)
    PROVE  /\ Adjusted(v, delta, WordSize, kind) \in A
           /\ v.tag = "Unknown" => v \in A
<1>1. v \in Result /\ (IsKnown(v) => \A m \in Before(p, b, n) : Denotes(v, m.regs[r]))
  BY DEF RegOK
<1>2. Failure \subseteq A
  BY DEF DefinedAt
<1>3. CASE v.tag = "Concrete"
  <2>1. \A m \in Before(p, b, n) : Denotes(v, m.regs[r])
    BY <1>1, <1>3 DEF IsKnown
  <2>2. ASSUME NEW m \in Before(p, b, n), NEW k \in Execute(i, m)
        PROVE  Denotes(Adjusted(v, delta, WordSize, kind), Holding(key, k))
    <3>1. Denotes(v, m.regs[r])
      BY <2>1
    <3>2. Denotes(Adjusted(v, delta, WordSize, kind), Plus(m.regs[r], delta))
      BY <1>1, <1>3, <3>1, AdjustedDenotes
    <3>3. Holding(key, k) = Plus(m.regs[r], delta)
      OBVIOUS
    <3> QED
      BY <3>2, <3>3
  <2>3. Adjusted(v, delta, WordSize, kind) \in Known
    <3>1. Denotes(v, Num(v.value))
      BY <1>3 DEF Denotes
    <3> QED
      BY <1>1, <1>3, <3>1, AdjustedDenotes
  <2>4. Adjusted(v, delta, WordSize, kind) \in A
    BY <2>2, <2>3 DEF DefinedAt
  <2> QED
    BY <1>3, <2>4
<1>4. CASE v.tag # "Concrete"
  <2>1. Adjusted(v, delta, WordSize, kind) \in Failure
    BY <1>1, <1>4, AdjustedFails
  <2>2. v.tag = "Unknown" => v \in Failure
    BY <1>1, KnownOrFailure DEF IsKnown
  <2> QED
    BY <1>2, <2>1, <2>2
<1> QED
  BY <1>3, <1>4

\* An address relative to a register.
LEMMA LeaIsRight ==
    ASSUME NEW p, NEW b, NEW n, NEW i, NEW h, NEW key, NEW A, DefinedAt(p, b, n, i, h, key, A),
           LocatorOf(i) = "lea_reg_displ", NEW B, B = RegOK(p, i.ops[2].reg, b, n)
    PROVE  /\ Computes(p, Interpret(i, h, b, n), B)
           /\ \E f : Adjustment(i) = <<f>> /\ Link(p, f, B, A)
<1>1. i.mnem = "lea" /\ IsReg(i.ops[1]) /\ IsBased(i.ops[2]) /\ ~i.ops[2].index
  BY LocatorSays
<1>2. /\ IsInstruction(i) /\ Understood(i) /\ \A m \in Before(p, b, n) : m \in Machines
      /\ 2 \in DOMAIN i.ops /\ i.ops[2].disp \in Int /\ i.ops[2].reg \in WholeReg
      /\ i.ops[1].size = WordSize
  BY <1>1, DefinedFacts
<1>3. h \in Written(i) /\ IsOperand(i, h, key) /\ Failure \subseteq A
  BY DEF DefinedAt
<1>4. PICK r, delta : r = i.ops[2].reg /\ delta = i.ops[2].disp
  OBVIOUS
<1>5. ASSUME NEW m \in Before(p, b, n), NEW k \in Execute(i, m)
      PROVE  Holding(key, k) = Plus(m.regs[r], delta)
  <2>1. i.ops[2].kind # "MEM_DIRECT"
    BY <1>1 DEF IsBased
  <2>2. EffectiveAddress(m, i.ops[2]) = Plus(m.regs[r], delta)
    BY <1>1, <1>4, <2>1 DEF EffectiveAddress
  <2>3. m \in Machines /\ r \in Reg /\ delta \in Int
    BY <1>2, <1>4 DEF WholeReg
  <2>4. Plus(m.regs[r], delta) \in Words
    BY <2>3, MachineParts, WordsAreMade
  <2> QED
    BY <1>1, <1>2, <1>3, <2>2, <2>3, <2>4, DefinedWord
<1>6. PICK f : f = [for |-> "lea", delta |-> i.ops[2].disp, size |-> i.ops[1].size]
  OBVIOUS
<1>7. ASSUME NEW v \in B
      PROVE  Adjusted(v, delta, WordSize, "POINTER") \in A
  <2>1. v \in RegOK(p, r, b, n) /\ r \in WholeReg /\ delta \in Int /\ "POINTER" \in Kind
    BY <1>2, <1>4, <1>7 DEF Kind
  <2> QED
    BY <1>5, <2>1, AdjustmentIsRight
<1>8. Link(p, f, B, A)
  <2>1. f.for = "lea" /\ f.delta = delta /\ f.size = WordSize
    BY <1>2, <1>4, <1>6
  <2> QED
    BY <1>3, <1>7, <2>1 DEF Link
<1>9. Adjustment(i) = <<f>>
  BY <1>6 DEF Adjustment
<1>10. Interpret(i, h, b, n) = ResolveRegister(i.ops[2].reg, b, n)
  BY DEF Interpret
<1>11. Computes(p, ResolveRegister(i.ops[2].reg, b, n), B)
  <2>1. Failure \subseteq B
    BY FailuresAreFine
  <2> QED
    BY <1>2, <2>1 DEF Computes, ResolveRegister
<1> QED
  BY <1>8, <1>9, <1>10, <1>11

\* A constant added to a register.
LEMMA AddIsRight ==
    ASSUME NEW p, NEW b, NEW n, NEW i, NEW h, NEW key, NEW A, DefinedAt(p, b, n, i, h, key, A),
           LocatorOf(i) = "add_sub_reg_imm", NEW B, B = RegOK(p, i.ops[1].reg, b, n)
    PROVE  /\ Computes(p, Interpret(i, h, b, n), B)
           /\ \E f : Adjustment(i) = <<f>> /\ Link(p, f, B, A)
<1>1. i.mnem \in {"add", "sub"} /\ IsReg(i.ops[1]) /\ IsImm(i.ops[2])
  BY LocatorSays
<1>2. /\ IsInstruction(i) /\ Understood(i) /\ \A m \in Before(p, b, n) : m \in Machines
      /\ 2 \in DOMAIN i.ops /\ i.ops[2].imm \in Int /\ i.ops[1].reg \in WholeReg
      /\ i.ops[1].size = WordSize
  BY <1>1, DefinedFacts
<1>3. h \in Written(i) /\ IsOperand(i, h, key) /\ Failure \subseteq A
  BY DEF DefinedAt
<1>4. PICK r, delta :
         r = i.ops[1].reg /\ delta = IF i.mnem = "add" THEN i.ops[2].imm ELSE -i.ops[2].imm
  OBVIOUS
<1>5. ASSUME NEW m \in Before(p, b, n), NEW k \in Execute(i, m)
      PROVE  Holding(key, k) = Plus(m.regs[r], delta)
  <2>1. Reads(m, i, i.ops[1]) = {m.regs[r]}
    BY <1>1, <1>4 DEF Reads, IsReg, IsImm, IsMem
  <2>2. Arithmetic(m, i, i.ops[1], i.ops[2]) = {Plus(w, delta) : w \in Reads(m, i, i.ops[1])}
    BY <1>1, <1>4 DEF Arithmetic, IsReg, IsImm
  <2>3. m \in Machines
    BY <1>2
  <2>4. Holding(key, k) \in Arithmetic(m, i, i.ops[1], i.ops[2])
    BY <1>1, <1>2, <1>3, <2>3, DefinedWord
  <2> QED
    BY <2>1, <2>2, <2>4
<1>6. PICK f : f = [for |-> "add", size |-> i.ops[1].size,
                    delta |-> IF i.mnem = "add" THEN i.ops[2].imm ELSE -i.ops[2].imm]
  OBVIOUS
<1>7. ASSUME NEW v \in B, v.tag \in {"Concrete", "Unknown"}
      PROVE  AddedTo(v, delta, WordSize) \in A
  <2>1. v \in RegOK(p, r, b, n) /\ r \in WholeReg /\ delta \in Int /\ "INT" \in Kind
    BY <1>2, <1>4, <1>7 DEF Kind
  <2>2. Adjusted(v, delta, WordSize, "INT") \in A /\ (v.tag = "Unknown" => v \in A)
    BY <1>5, <2>1, AdjustmentIsRight
  <2> QED
    BY <1>7, <2>2 DEF AddedTo
<1>8. Link(p, f, B, A)
  <2>1. f.for = "add" /\ f.delta = delta /\ f.size = WordSize
    BY <1>2, <1>4, <1>6
  <2> QED
    BY <1>3, <1>7, <2>1 DEF Link
<1>9. Adjustment(i) = <<f>>
  BY <1>6 DEF Adjustment
<1>10. Interpret(i, h, b, n) = ResolveRegister(i.ops[1].reg, b, n)
  BY DEF Interpret
<1>11. Computes(p, ResolveRegister(i.ops[1].reg, b, n), B)
  <2>1. Failure \subseteq B
    BY FailuresAreFine
  <2> QED
    BY <1>2, <2>1 DEF Computes, ResolveRegister
<1> QED
  BY <1>8, <1>9, <1>10, <1>11


\* What the locators ask of operand h of the instruction at a program point
\* yields a value of A.
LeadsTo(p, i, h, b, n, A) ==
    \E B \in SUBSET Outcome :
       /\ Computes(p, Interpret(i, h, b, n), B)
       /\ \/ Adjustment(i) = <<>> /\ B = A
          \/ \E f : Adjustment(i) = <<f>> /\ Link(p, f, B, A)

\* The instruction that defines the location leads to its value.
LEMMA DefinitionIsRight ==
    ASSUME NEW p, Analysable(p), NEW b \in p.blocks, NEW n \in 1..Len(p.code[b]),
           NEW i, i = p.code[b][n], NEW key, IsTracked(key), NEW found, found = Match(i, key),
           found.is = "definition", NEW A \in SUBSET Outcome,
           Failure \cup Gives(p, key, b, n) \subseteq A
    PROVE  LeadsTo(p, i, found.operand, b, n, A)
<1>1. i \in InstructionsOf(p) /\ IsInstruction(i) /\ Understood(i)
  BY CodeOf
<1>2. PICK h : h = found.operand
  OBVIOUS
<1>3. PICK name : name = LocatorOf(i)
  OBVIOUS
<1>4. /\ key.of = "memory" => key.cell \in CellsStored(p)
      /\ \/ i.mnem = "call" /\ key.of = "register" /\ key.reg = RetReg
         \/ /\ i.mnem # "call" /\ h \in Written(i) /\ IsOperand(i, h, key)
            /\ key.of = "register" => RegisterView(i.ops[h].reg, i.ops[h].size).definesParent
  BY <1>1, <1>2, DefinedOperand
<1>5. Failure \subseteq A
  OBVIOUS
<1>6. ASSUME NEW v \in Known,
             \A m \in Before(p, b, n) : \A k \in Execute(i, m) : Denotes(v, Holding(key, k))
      PROVE  v \in A
  <2>1. v \in Gives(p, key, b, n)
    BY <1>4, <1>6 DEF Gives
  <2> QED
    BY <2>1
<1>7. SUFFICES \E B \in SUBSET Outcome :
                  /\ Computes(p, Interpret(i, h, b, n), B)
                  /\ \/ Adjustment(i) = <<>> /\ B = A
                     \/ \E f : Adjustment(i) = <<f>> /\ Link(p, f, B, A)
  BY <1>2 DEF LeadsTo
<1>8. CASE i.mnem = "call" /\ key.of = "register" /\ key.reg = RetReg
  <2>1. name = "call_return"
    BY <1>3, <1>8, LocatorSays
  <2>2. PICK v : v = Symbolic(<<"ret", i.ea>>)
    OBVIOUS
  <2>3. v \in Known
    <3>1. <<"ret", i.ea>> \in Expr
      BY <1>1 DEF IsInstruction, Expr
    <3> QED
      BY <2>2, <3>1, ResultsAreMade
  <2>4. ASSUME NEW m \in Before(p, b, n), NEW k \in Execute(i, m)
        PROVE  Denotes(v, Holding(key, k))
    <3>1. m \in Machines /\ RetReg \in WholeReg
      BY DEF Before, Analysable
    <3>2. k.regs[RetReg] = Word(<<"ret", i.ea>>, 0)
      BY <1>1, <1>8, <3>1, ExecuteCall
    <3>3. Holding(key, k) = Word(<<"ret", i.ea>>, 0)
      BY <1>8, <3>2 DEF Holding
    <3> QED
      BY <2>2, <3>3 DEF Denotes, Symbolic
  <2>5. v \in A
    BY <1>6, <2>3, <2>4
  <2>6. Interpret(i, h, b, n) = Returning(v) /\ Adjustment(i) = <<>>
    BY <1>3, <2>1, <2>2 DEF Interpret, Adjustment
  <2>7. Computes(p, Returning(v), A)
    BY <1>5, <2>5 DEF Computes, Returning
  <2> QED
    BY <2>6, <2>7
<1>9. CASE /\ i.mnem # "call" /\ h \in Written(i) /\ IsOperand(i, h, key)
           /\ key.of = "register" => RegisterView(i.ops[h].reg, i.ops[h].size).definesParent
  <2>1. DefinedAt(p, b, n, i, h, key, A)
    BY <1>5, <1>6, <1>9 DEF DefinedAt
  <2>2. name \in TwoOperands \cup {"call_return", "push", "none"}
    BY <1>3, LocatorSays
  <2>3. name \notin {"call_return", "push"}
    <3>1. i.mnem # "push"
      BY <1>1, <1>9, UnderstoodOperands
    <3> QED
      BY <1>3, <1>9, <3>1, LocatorSays
  <2>4. CASE name \in {"mov_reg_reg", "mov_reg_mem", "mov_reg_imm", "mov_mem_imm", "mov_mem_reg"}
    <3>1. Computes(p, Interpret(i, h, b, n), A)
      BY <1>3, <2>1, <2>4, MoveIsRight
    <3>2. Adjustment(i) = <<>>
      BY <1>3, <2>4 DEF Adjustment
    <3> QED
      BY <3>1, <3>2
  <2>5. CASE name = "xchg_reg_reg"
    <3>1. Computes(p, Interpret(i, h, b, n), A)
      BY <1>3, <2>1, <2>5, ExchangeIsRight
    <3>2. Adjustment(i) = <<>>
      BY <1>3, <2>5 DEF Adjustment
    <3> QED
      BY <3>1, <3>2
  <2>6. CASE name \in {"lea_reg_addr", "zero_idiom"}
    <3>1. Computes(p, Interpret(i, h, b, n), A)
      BY <1>3, <2>1, <2>6, ConstantIsRight
    <3>2. Adjustment(i) = <<>>
      BY <1>3, <2>6 DEF Adjustment
    <3> QED
      BY <3>1, <3>2
  <2>7. CASE name = "lea_reg_displ"
    <3>1. PICK B : B = RegOK(p, i.ops[2].reg, b, n)
      OBVIOUS
    <3>2. B \in SUBSET Outcome
      BY <3>1, FailuresAreFine
    <3>3. /\ Computes(p, Interpret(i, h, b, n), B)
          /\ \E f : Adjustment(i) = <<f>> /\ Link(p, f, B, A)
      <4>1. LocatorOf(i) = "lea_reg_displ"
        BY <1>3, <2>7
      <4> QED
        BY <2>1, <3>1, <4>1, LeaIsRight
    <3> QED
      BY <3>2, <3>3
  <2>8. CASE name = "add_sub_reg_imm"
    <3>1. PICK B : B = RegOK(p, i.ops[1].reg, b, n)
      OBVIOUS
    <3>2. B \in SUBSET Outcome
      BY <3>1, FailuresAreFine
    <3>3. /\ Computes(p, Interpret(i, h, b, n), B)
          /\ \E f : Adjustment(i) = <<f>> /\ Link(p, f, B, A)
      <4>1. LocatorOf(i) = "add_sub_reg_imm"
        BY <1>3, <2>8
      <4> QED
        BY <2>1, <3>1, <4>1, AddIsRight
    <3> QED
      BY <3>2, <3>3
  <2>9. CASE name \in {"cmov_reg_reg", "none"}
    <3>1. PICK reason \in Reason : Interpret(i, h, b, n) = Returning(Unknown(reason))
      <4>1. CASE name = "cmov_reg_reg"
        <5>1. Interpret(i, h, b, n) = Returning(Unknown("DIVERGENT_PATHS"))
          BY <1>3, <4>1 DEF Interpret
        <5> QED
          BY <5>1 DEF Reason
      <4>2. CASE name = "none"
        <5>1. Interpret(i, h, b, n) = Returning(Unknown("UNSUPPORTED_INSTRUCTION"))
          BY <1>3, <4>2 DEF Interpret
        <5> QED
          BY <5>1 DEF Reason
      <4> QED
        BY <2>9, <4>1, <4>2
    <3>2. Adjustment(i) = <<>>
      BY <1>3, <2>9 DEF Adjustment
    <3>3. Unknown(reason) \in A
      BY <1>5, FailureIsMade
    <3>4. Computes(p, Returning(Unknown(reason)), A)
      BY <1>5, <3>3 DEF Computes, Returning
    <3> QED
      BY <3>1, <3>2, <3>4
  <2> QED
    BY <2>2, <2>3, <2>4, <2>5, <2>6, <2>7, <2>8, <2>9 DEF TwoOperands
<1> QED
  BY <1>4, <1>8, <1>9

\* A queried push leads to what it pushes.
LEMMA PushIsRight ==
    ASSUME NEW p, Analysable(p), NEW b \in p.blocks, NEW n \in 1..Len(p.code[b]),
           NEW i, i = p.code[b][n], i.mnem = "push", NEW A, Failure \subseteq A,
           PushOK(p, b, n) \subseteq A
    PROVE  Computes(p, Interpret(i, 1, b, n), A) /\ Adjustment(i) = <<>>
<1>1. IsInstruction(i) /\ Understood(i) /\ n \in Nat \ {0}
  BY CodeOf
<1>2. 1 \in DOMAIN i.ops /\ Len(i.ops) >= 1
  <2>1. i.ops \in Seq(Operand) /\ Len(i.ops) \in Nat
    BY <1>1 DEF IsInstruction
  <2>2. 1 \in DOMAIN i.ops
    BY <1>1, UnderstoodOperands
  <2> QED
    BY <2>1, <2>2
<1>3. LocatorOf(i) = "push"
  BY <1>2, LocatorSays
<1>4. PICK op : op = i.ops[1]
  OBVIOUS
<1>5. /\ op.imm \in Int /\ op.disp \in Int /\ (IsBased(op) => op.reg \in WholeReg)
      /\ op.kind = "MEM_DIRECT" => op.imm \in 0..(Modulus[WordSize] - 1)
      /\ IsReg(op) => op.reg \in WholeReg
  BY <1>1, <1>2, <1>4, OperandOf DEF Understood, TakesWholeRegisters
<1>6. Takes(p, op, b, n, A)
  <2>1. ASSUME NEW v \in Known,
               \A m \in Before(p, b, n) : \A w \in Reads(m, p.code[b][n], op) : Denotes(v, w)
        PROVE  v \in A
    <3>1. v \in Result
      BY KnownIsNoSentinel
    <3>2. v \in PushOK(p, b, n)
      BY <1>4, <2>1, <3>1 DEF PushOK
    <3> QED
      BY <3>2
  <2> QED
    BY <2>1 DEF Takes
<1>7. /\ IsReg(op) /\ op.reg \in WholeReg => Computes(p, ResolveRegister(op.reg, b, n), A)
      /\ IsImm(op) => Computes(p, Returning(Concrete(op.imm, "INT")), A)
      /\ IsMem(op) => Computes(p, LoadOperand(op, b, n), A)
  BY <1>1, <1>5, <1>6, OperandIsAsked
<1>8. Computes(p, Pushed(op, b, n), A)
  <2>1. CASE IsReg(op)
    BY <1>5, <1>7, <2>1 DEF Pushed
  <2>2. CASE ~IsReg(op) /\ IsImm(op)
    BY <1>7, <2>2 DEF Pushed
  <2>3. CASE ~IsReg(op) /\ ~IsImm(op) /\ IsMem(op)
    BY <1>7, <2>3 DEF Pushed
  <2>4. CASE ~IsReg(op) /\ ~IsImm(op) /\ ~IsMem(op)
    <3>1. Pushed(op, b, n) = Returning(Unknown("UNSUPPORTED_OPERAND_SHAPE"))
      BY <2>4 DEF Pushed
    <3>2. Unknown("UNSUPPORTED_OPERAND_SHAPE") \in A
      BY FailureIsMade DEF Reason
    <3> QED
      BY <3>1, <3>2 DEF Computes, Returning
  <2> QED
    BY <2>1, <2>2, <2>3, <2>4
<1>9. Interpret(i, 1, b, n) = Pushed(op, b, n) /\ Adjustment(i) = <<>>
  BY <1>3, <1>4 DEF Interpret, Adjustment
<1> QED
  BY <1>8, <1>9


-----------------------------------------------------------------------------
(* Every step of the resolver *)

\* The resolver is on its way to one of the answers G.
OnTheWay(p, G, s, next) ==
    \E A \in SUBSET Outcome : Computes(p, next, A) /\ Expects(p, s, A, G)

\* A failure may always be returned.
LEMMA MayFail ==
    ASSUME NEW p, NEW G, NEW s, NEW next, OnTheWay(p, G, s, next), NEW v \in Failure
    PROVE  OnTheWay(p, G, s, Returning(v))
<1>1. PICK A \in SUBSET Outcome : Computes(p, next, A) /\ Expects(p, s, A, G)
  BY DEF OnTheWay
<1>2. Failure \subseteq A
  BY <1>1 DEF Computes
<1>3. Computes(p, Returning(v), A)
  BY <1>2 DEF Computes, Returning
<1> QED
  BY <1>1, <1>3 DEF OnTheWay

\* Running out of budget is a failure.
LEMMA MayRunOut ==
    ASSUME NEW p, NEW G, OnTheWay(p, G, stack, now), OutOfBudget
    PROVE  OnTheWay(p, G, stack', now')
<1>1. Unknown("BUDGET_EXCEEDED") \in Failure
  BY FailureIsMade DEF Reason
<1>2. now' = Returning(Unknown("BUDGET_EXCEEDED")) /\ stack' = stack
  BY DEF OutOfBudget, Return
<1> QED
  BY <1>1, <1>2, MayFail

\* Asking on behalf of a new frame.
LEMMA MayAsk ==
    ASSUME NEW p, NEW G, NEW s, IsSequence(s), NEW A, Expects(p, s, A, G),
           NEW f, NEW B \in SUBSET Outcome, Link(p, f, B, A), NEW next, Computes(p, next, B)
    PROVE  OnTheWay(p, G, <<f>> \o s, next)
BY ExpectsMore DEF OnTheWay

\* resolve_register starts a walk whose answers are right for the register.
LEMMA StartRegisterIsRight ==
    ASSUME TypeInv, Analysable(prog), prog.owned, NEW G, OnTheWay(prog, G, stack, now),
           StartRegister
    PROVE  OnTheWay(prog, G, stack', now')
<1>1. PICK A \in SUBSET Outcome : Computes(prog, now, A) /\ Expects(prog, stack, A, G)
  BY DEF OnTheWay
<1>2. now.do = "register" /\ IsPoint(now.block, now.pc) /\ IsSequence(stack)
  BY CallIsTyped DEF StartRegister, TypeInv, Typed
<1>3. PICK r, b, n : r = now.reg /\ b = now.block /\ n = now.pc
  OBVIOUS
<1>4. /\ r \in WholeReg \cup {NoReg} /\ RegOK(prog, r, b, n) \subseteq A
      /\ Failure \subseteq A
  BY <1>1, <1>2, <1>3 DEF Computes
<1>5. CASE r = NoReg
  <2>1. now' = Returning(Unknown("UNSUPPORTED_OPERAND_SHAPE")) /\ stack' = stack
    BY <1>3, <1>5 DEF StartRegister, Return
  <2>2. Unknown("UNSUPPORTED_OPERAND_SHAPE") \in Failure
    BY FailureIsMade DEF Reason
  <2> QED
    BY <2>1, <2>2, MayFail
<1>6. CASE r # NoReg /\ ~StepLeft
  BY <1>3, <1>6, MayRunOut DEF StartRegister
<1>7. CASE r # NoReg /\ StepLeft
  <2>1. /\ now' = Scan(RegisterKey(r), b, n - 1, {})
        /\ stack' = <<[for |-> "register"]>> \o stack
    BY <1>3, <1>7 DEF StartRegister, CallWith
  <2>2. n \in Nat \ {0}
    <3>1. Len(prog.code[b]) \in Nat
      BY <1>2, <1>3, CodeOf DEF IsPoint
    <3> QED
      BY <1>2, <1>3, <3>1 DEF IsPoint
  <2>3. PICK B : B = WalkOK(prog, RegisterKey(r), b, n - 1, {})
    OBVIOUS
  <2>4. B \in SUBSET Outcome /\ Failure \subseteq B
    BY <2>3, FailuresAreFine
  <2>5. r \in WholeReg
    BY <1>4, <1>7
  <2>6. ASSUME NEW v \in B, v # Cycle
        PROVE  v \in A
    BY <1>4, <2>2, <2>3, <2>5, <2>6, WalkAnswersRegister
  <2>7. PICK f : f = [for |-> "register"]
    OBVIOUS
  <2>8. Link(prog, f, B, A)
    BY <1>4, <2>6, <2>7 DEF Link
  <2>9. Computes(prog, Scan(RegisterKey(r), b, n - 1, {}), B)
    <3>1. IsTracked(RegisterKey(r))
      BY <2>5 DEF IsTracked, RegisterKey
    <3> QED
      BY <2>3, <2>4, <3>1 DEF Computes, Scan
  <2>10. OnTheWay(prog, G, <<f>> \o stack, Scan(RegisterKey(r), b, n - 1, {}))
    BY <1>1, <1>2, <2>4, <2>8, <2>9, MayAsk
  <2> QED
    BY <2>1, <2>7, <2>10
<1> QED
  BY <1>5, <1>6, <1>7

\* resolve_memory starts a walk whose answers are right for the cell, and is
\* ready to ask the database if it finds no definition.
LEMMA StartMemoryIsRight ==
    ASSUME TypeInv, Analysable(prog), prog.owned, NEW G, OnTheWay(prog, G, stack, now),
           StartMemory
    PROVE  OnTheWay(prog, G, stack', now')
<1>1. PICK A \in SUBSET Outcome : Computes(prog, now, A) /\ Expects(prog, stack, A, G)
  BY DEF OnTheWay
<1>2. /\ now.do = "memory" /\ IsPoint(now.block, now.pc) /\ IsSequence(stack)
      /\ now.disp \in Int /\ IsInstruction(prog.code[now.block][now.pc])
  BY CallIsTyped DEF StartMemory, TypeInv, Typed, InsnAt
<1>3. PICK base, disp, b, n :
         base = now.base /\ disp = now.disp /\ b = now.block /\ n = now.pc
  OBVIOUS
<1>4. /\ base \in WholeReg \cup {NoReg}
      /\ base = NoReg => disp \in 0..(Modulus[WordSize] - 1)
      /\ MemOK(prog, base, disp, b, n) \subseteq A /\ Failure \subseteq A
  BY <1>1, <1>2, <1>3 DEF Computes
<1>5. CASE ~StepLeft
  BY <1>5, MayRunOut DEF StartMemory
<1>6. CASE StepLeft
  <2>1. PICK key : key = MemoryKey(Location(prog.code[b][n], base, disp))
    OBVIOUS
  <2>2. PICK f : f = [for |-> "memory", base |-> base, disp |-> disp, block |-> b, pc |-> n]
    OBVIOUS
  <2>3. now' = Scan(key, b, n - 1, {}) /\ stack' = <<f>> \o stack
    BY <1>3, <1>6, <2>1, <2>2 DEF StartMemory, CallWith, InsnAt
  <2>4. n \in Nat \ {0} /\ IsInstruction(prog.code[b][n]) /\ disp \in Int
    <3>1. Len(prog.code[b]) \in Nat
      BY <1>2, <1>3, CodeOf DEF IsPoint
    <3> QED
      BY <1>2, <1>3, <3>1 DEF IsPoint
  <2>5. PICK B : B = WalkOK(prog, key, b, n - 1, {})
    OBVIOUS
  <2>6. B \in SUBSET Outcome /\ Failure \subseteq B
    BY <2>5, FailuresAreFine
  <2>7. ASSUME NEW v \in B, v \notin Sentinel
        PROVE  v \in A
    <3>1. v \in MemOK(prog, base, disp, b, n)
      BY <1>4, <2>1, <2>4, <2>5, <2>7, WalkAnswersMemory
    <3> QED
      BY <1>4, <3>1
  <2>8. ASSUME base = NoReg, NEW v \in B, v \in Sentinel
        PROVE  Fetched(disp) \in A
    <3>1. v \in WalkOK(prog, MemoryKey(Location(prog.code[b][n], NoReg, disp)), b, n - 1, {})
      BY <2>1, <2>5, <2>8
    <3>2. Fetched(disp) \in MemOK(prog, NoReg, disp, b, n)
      BY <1>4, <2>4, <2>8, <3>1, MissingIsLoaded
    <3> QED
      BY <1>4, <2>8, <3>2
  <2>9. ASSUME base # NoReg
        PROVE  LoadsThrough(prog, RegOK(prog, base, b, n), disp, A)
    <3>1. base \in WholeReg
      BY <1>4, <2>9
    <3>2. ASSUME NEW u \in RegOK(prog, base, b, n), u.tag = "Concrete",
                 u.value + disp \notin StoredTo(prog)
          PROVE  Fetched(u.value + disp) \in A
      <4>1. Fetched(u.value + disp) \in MemOK(prog, base, disp, b, n)
        BY <2>4, <3>1, <3>2, PointedToIsLoaded
      <4> QED
        BY <1>4, <4>1
    <3> QED
      BY <3>2 DEF LoadsThrough
  <2>10. Link(prog, f, B, A)
    <3>1. /\ f.for = "memory" /\ f.base = base /\ f.disp = disp
          /\ f.block = b /\ f.pc = n
      BY <2>2
    <3>2. B \ Sentinel \subseteq A /\ (base = NoReg /\ B \cap Sentinel # {} => Fetched(disp) \in A)
      BY <2>7, <2>8
    <3> QED
      BY <1>4, <2>9, <3>1, <3>2 DEF Link
  <2>11. Computes(prog, Scan(key, b, n - 1, {}), B)
    <3>1. IsTracked(key)
      BY <1>4, <2>1, <2>4, LocationIsTracked
    <3> QED
      BY <2>5, <2>6, <3>1 DEF Computes, Scan
  <2>12. OnTheWay(prog, G, <<f>> \o stack, Scan(key, b, n - 1, {}))
    BY <1>1, <1>2, <2>6, <2>10, <2>11, MayAsk
  <2> QED
    BY <2>3, <2>12
<1> QED
  BY <1>5, <1>6

\* resolve_at_instruction asks for what the push pushes.
LEMMA StartInstructionIsRight ==
    ASSUME TypeInv, Analysable(prog), NEW G, OnTheWay(prog, G, stack, now), StartInstruction
    PROVE  OnTheWay(prog, G, stack', now')
<1>1. PICK A \in SUBSET Outcome : Computes(prog, now, A) /\ Expects(prog, stack, A, G)
  BY DEF OnTheWay
<1>2. now.do = "instruction" /\ IsPoint(now.block, now.pc) /\ IsSequence(stack)
  BY CallIsTyped DEF StartInstruction, TypeInv, Typed
<1>3. PICK b, n, i : b = now.block /\ n = now.pc /\ i = prog.code[b][n]
  OBVIOUS
<1>4. i.mnem = "push" /\ PushOK(prog, b, n) \subseteq A /\ Failure \subseteq A
  BY <1>1, <1>2, <1>3 DEF Computes
<1>5. CASE ~StepLeft
  BY <1>5, MayRunOut DEF StartInstruction
<1>6. CASE StepLeft
  <2>1. now' = Interpret(i, 1, b, n) /\ stack' = Adjustment(i) \o stack
    BY <1>3, <1>6 DEF StartInstruction, CallWith, InsnAt
  <2>2. Computes(prog, Interpret(i, 1, b, n), A) /\ Adjustment(i) = <<>>
    BY <1>2, <1>3, <1>4, PushIsRight DEF IsPoint
  <2>3. stack' = stack
    BY <1>2, <2>1, <2>2, NoCall
  <2> QED
    BY <1>1, <2>1, <2>2, <2>3 DEF OnTheWay
<1> QED
  BY <1>5, <1>6


\* Walking past an instruction that leaves the location alone, or finding it
\* defined there.
LEMMA WalkLooks ==
    ASSUME NEW p, NEW key, NEW b \in p.blocks, NEW n \in 1..Len(p.code[b]), NEW V,
           Len(p.code[b]) \in Nat
    PROVE  /\ Match(p.code[b][n], key).is = "pass" =>
                WalkOK(p, key, b, n - 1, V) \subseteq WalkOK(p, key, b, n, V)
           /\ Gives(p, key, b, n) \subseteq WalkOK(p, key, b, n, V)
<1>1. ASSUME Match(p.code[b][n], key).is = "pass", NEW v \in WalkOK(p, key, b, n - 1, V)
      PROVE  v \in WalkOK(p, key, b, n, V)
  <2>1. CASE v \in Failure
    BY <2>1 DEF WalkOK
  <2>2. CASE /\ v \in Outcome /\ (v = NotFound => key.of = "memory")
             /\ \E R : <<b, n - 1>> \in R /\ Region(p, key, v, V, R)
    <3>1. PICK R : <<b, n - 1>> \in R /\ Region(p, key, v, V, R)
      BY <2>2
    <3>2. PICK S : S = R \cup {<<b, n>>}
      OBVIOUS
    <3>3. ASSUME NEW c, NEW j, <<c, j>> \in S
          PROVE  /\ c \in p.blocks /\ j \in 0..Len(p.code[c])
                 /\ j > 0 => \/ Match(p.code[c][j], key).is = "pass" /\ <<c, j - 1>> \in S
                             \/ v \in Gives(p, key, c, j)
                 /\ j = 0 => \/ c \in V
                             \/ /\ p.pred[c] # <<>>
                                /\ \A k \in 1..Len(p.pred[c]) :
                                     <<p.pred[c][k], Len(p.code[p.pred[c][k]])>> \in S
                             \/ p.pred[c] = <<>> /\ v = NotFound
      <4>1. CASE <<c, j>> \in R
        BY <3>1, <3>2, <4>1 DEF Region
      <4>2. CASE c = b /\ j = n
        <5>1. <<c, j - 1>> \in S
          BY <3>1, <3>2, <4>2
        <5>2. j # 0 /\ j \in 0..Len(p.code[c])
          BY <4>2
        <5> QED
          BY <1>1, <4>2, <5>1, <5>2
      <4> QED
        BY <3>2, <3>3, <4>1, <4>2
    <3>4. <<b, n>> \in S /\ Region(p, key, v, V, S)
      BY <3>2, <3>3 DEF Region
    <3> QED
      BY <2>2, <3>4 DEF WalkOK
  <2> QED
    BY <1>1, <2>1, <2>2 DEF WalkOK
<1>2. ASSUME NEW v \in Gives(p, key, b, n)
      PROVE  v \in WalkOK(p, key, b, n, V)
  <2>1. v \in Known
    BY DEF Gives
  <2>2. v \in Outcome /\ v # NotFound
    BY <2>1, KnownIsNoSentinel
  <2>3. PICK R : R = {<<b, n>>}
    OBVIOUS
  <2>4. ASSUME NEW c, NEW j, <<c, j>> \in R
        PROVE  c = b /\ j = n
    BY <2>3, <2>4
  <2>5. n # 0 /\ n \in 0..Len(p.code[b])
    OBVIOUS
  <2>6. <<b, n>> \in R /\ Region(p, key, v, V, R)
    BY <2>3, <2>4, <2>5 DEF Region
  <2> QED
    BY <2>2, <2>6 DEF WalkOK
<1> QED
  BY <1>1, <1>2

\* What a walk may answer at the start of a block without going further back.
LEMMA WalkEnds ==
    ASSUME NEW p, NEW key, NEW b \in p.blocks, NEW V, Len(p.code[b]) \in Nat
    PROVE  /\ b \in V => Cycle \in WalkOK(p, key, b, 0, V)
           /\ p.pred[b] = <<>> /\ key.of = "memory" => NotFound \in WalkOK(p, key, b, 0, V)
<1>1. PICK R : R = {<<b, 0>>}
  OBVIOUS
<1>2. ASSUME NEW c, NEW j, <<c, j>> \in R
      PROVE  c = b /\ j = 0
  BY <1>1, <1>2
<1>3. ~(0 > 0) /\ 0 \in 0..Len(p.code[b]) /\ <<b, 0>> \in R
  BY <1>1
<1>4. ASSUME b \in V
      PROVE  Cycle \in WalkOK(p, key, b, 0, V)
  <2>1. Region(p, key, Cycle, V, R)
    BY <1>2, <1>3, <1>4 DEF Region
  <2>2. Cycle \in Outcome /\ Cycle # NotFound
    BY DEF Outcome, Sentinel, Cycle, NotFound
  <2> QED
    BY <1>3, <2>1, <2>2 DEF WalkOK
<1>5. ASSUME p.pred[b] = <<>>, key.of = "memory"
      PROVE  NotFound \in WalkOK(p, key, b, 0, V)
  <2>1. Region(p, key, NotFound, V, R)
    BY <1>2, <1>3, <1>5 DEF Region
  <2>2. NotFound \in Outcome
    BY DEF Outcome, Sentinel
  <2> QED
    BY <1>3, <1>5, <2>1, <2>2 DEF WalkOK
<1> QED
  BY <1>4, <1>5

\* A walk looks at one instruction.
LEMMA LookIsRight ==
    ASSUME TypeInv, Analysable(prog), NEW G, OnTheWay(prog, G, stack, now), Look
    PROVE  OnTheWay(prog, G, stack', now')
<1>1. PICK A \in SUBSET Outcome : Computes(prog, now, A) /\ Expects(prog, stack, A, G)
  BY DEF OnTheWay
<1>2. /\ now.do = "scan" /\ now = Scan(now.key, now.block, now.pc, now.visited)
      /\ now.block \in prog.blocks /\ now.pc \in 1..Len(prog.code[now.block])
      /\ Len(prog.code[now.block]) \in Nat /\ IsKey(now.key) /\ IsSequence(stack)
  BY CallIsTyped DEF Look, TypeInv, Typed
<1>3. PICK b, n, key, V, i :
         /\ b = now.block /\ n = now.pc /\ key = now.key /\ V = now.visited
         /\ i = prog.code[b][n]
  OBVIOUS
<1>4. PICK found : found = Match(i, key)
  OBVIOUS
<1>5. IsTracked(key) /\ WalkOK(prog, key, b, n, V) \subseteq A /\ Failure \subseteq A
  BY <1>1, <1>2, <1>3 DEF Computes
<1>6. b \in prog.blocks /\ n \in 1..Len(prog.code[b]) /\ Len(prog.code[b]) \in Nat
  BY <1>2, <1>3
<1>7. IsInstruction(i)
  BY <1>3, <1>6, CodeOf
<1>8. CASE ~StepLeft
  BY <1>8, MayRunOut DEF Look
<1>9. CASE StepLeft /\ found.is = "pass"
  <2>1. now' = [now EXCEPT !.pc = @ - 1] /\ stack' = stack
    BY <1>3, <1>4, <1>9 DEF Look, InsnAt
  <2>2. now' = Scan(key, b, n - 1, V)
    BY <1>2, <1>3, <2>1 DEF Scan
  <2>3. WalkOK(prog, key, b, n - 1, V) \subseteq A
    BY <1>3, <1>4, <1>5, <1>6, <1>9, WalkLooks
  <2>4. Computes(prog, Scan(key, b, n - 1, V), A)
    BY <1>5, <2>3 DEF Computes, Scan
  <2> QED
    BY <1>1, <2>1, <2>2, <2>4 DEF OnTheWay
<1>10. CASE StepLeft /\ found.is = "stop"
  <2>1. now' = Returning(Unknown(found.reason)) /\ stack' = stack
    BY <1>3, <1>4, <1>10 DEF Look, InsnAt, Return
  <2>2. found.reason \in Reason
    BY <1>2, <1>3, <1>4, <1>7, <1>10, MatchedOperand
  <2>3. Unknown(found.reason) \in Failure
    BY <2>2, FailureIsMade
  <2> QED
    BY <2>1, <2>3, MayFail
<1>11. CASE StepLeft /\ found.is = "definition"
  <2>0. PICK j : j = InsnAt(now.block, now.pc)
    OBVIOUS
  <2>1. now' = Interpret(i, found.operand, b, n) /\ stack' = Adjustment(i) \o stack
    <3>1. j = i /\ found = Match(j, now.key) /\ found.is # "pass" /\ found.is # "stop"
      BY <1>3, <1>4, <1>11, <2>0 DEF InsnAt
    <3>2. /\ now' = Interpret(j, Match(j, now.key).operand, now.block, now.pc)
          /\ stack' = Adjustment(j) \o stack
      BY <1>11, <2>0, <3>1 DEF Look, CallWith
    <3>3. /\ now' = Interpret(i, found.operand, now.block, now.pc)
          /\ stack' = Adjustment(i) \o stack
      BY <3>1, <3>2
    <3>4. now.block = b /\ now.pc = n
      BY <1>3
    <3> QED
      BY <3>3, <3>4
  <2>2. Failure \cup Gives(prog, key, b, n) \subseteq A
    BY <1>5, <1>6, WalkLooks
  <2>3. LeadsTo(prog, i, found.operand, b, n, A)
    <3>1. i = prog.code[b][n]
      BY <1>3
    <3>2. found.is = "definition"
      BY <1>11
    <3>3. IsTracked(key) /\ A \in SUBSET Outcome
      BY <1>1, <1>5
    <3> QED
      BY <1>4, <1>6, <2>2, <3>1, <3>2, <3>3, DefinitionIsRight
  <2>4. PICK B \in SUBSET Outcome :
           /\ Computes(prog, Interpret(i, found.operand, b, n), B)
           /\ \/ Adjustment(i) = <<>> /\ B = A
              \/ \E f : Adjustment(i) = <<f>> /\ Link(prog, f, B, A)
    BY <2>3 DEF LeadsTo
  <2>5. CASE Adjustment(i) = <<>> /\ B = A
    <3>1. stack' = stack
      BY <1>2, <2>1, <2>5, NoCall
    <3> QED
      BY <1>1, <2>1, <2>4, <2>5, <3>1 DEF OnTheWay
  <2>6. CASE \E f : Adjustment(i) = <<f>> /\ Link(prog, f, B, A)
    <3>1. PICK f : Adjustment(i) = <<f>> /\ Link(prog, f, B, A)
      BY <2>6
    <3>2. OnTheWay(prog, G, <<f>> \o stack, Interpret(i, found.operand, b, n))
      BY <1>1, <1>2, <2>4, <3>1, MayAsk
    <3> QED
      BY <2>1, <3>1, <3>2
  <2> QED
    BY <2>4, <2>5, <2>6
<1>12. found.is \in {"pass", "stop", "definition"}
  BY <1>2, <1>3, <1>4, <1>7, MatchedOperand
<1> QED
  BY <1>8, <1>9, <1>10, <1>11, <1>12

\* A block with predecessors has a first one.
LEMMA PredecessorsAreMany ==
    ASSUME NEW p, Analysable(p), NEW b \in p.blocks, p.pred[b] # <<>>
    PROVE  0 < Len(p.pred[b])
<1>1. p.pred[b] \in Seq(p.blocks)
  BY DEF Analysable, IsProgram
<1> QED
  BY <1>1

\* A walk leaves a block for its predecessors.
LEMMA LeaveBlockIsRight ==
    ASSUME TypeInv, Analysable(prog), NEW G, OnTheWay(prog, G, stack, now), LeaveBlock
    PROVE  OnTheWay(prog, G, stack', now')
<1>1. PICK A \in SUBSET Outcome : Computes(prog, now, A) /\ Expects(prog, stack, A, G)
  BY DEF OnTheWay
<1>2. /\ now.do = "scan" /\ now.pc = 0 /\ now.block \in prog.blocks /\ IsSequence(stack)
      /\ Len(prog.code[now.block]) \in Nat
  BY CallIsTyped DEF LeaveBlock, TypeInv, Typed
<1>3. PICK b, key, V : b = now.block /\ key = now.key /\ V = now.visited
  OBVIOUS
<1>4. IsTracked(key) /\ WalkOK(prog, key, b, 0, V) \subseteq A /\ Failure \subseteq A
  BY <1>1, <1>2, <1>3 DEF Computes
<1>5. b \in prog.blocks /\ Len(prog.code[b]) \in Nat
  BY <1>2, <1>3
<1>6. CASE b \in V
  <2>1. now' = Returning(Cycle) /\ stack' = stack
    BY <1>3, <1>6 DEF LeaveBlock, Return
  <2>2. Cycle \in A
    BY <1>4, <1>5, <1>6, WalkEnds
  <2>3. Computes(prog, Returning(Cycle), A)
    BY <1>4, <2>2 DEF Computes, Returning
  <2> QED
    BY <1>1, <2>1, <2>3 DEF OnTheWay
<1>7. CASE b \notin V /\ prog.pred[b] = <<>>
  <2>1. PICK v : v = IF key.of = "register" THEN Unknown("NO_DEFINITION_FOUND") ELSE NotFound
    OBVIOUS
  <2>2. now' = Returning(v) /\ stack' = stack
    BY <1>3, <1>7, <2>1 DEF LeaveBlock, Return
  <2>3. v \in A
    <3>1. key.of \in {"register", "memory"}
      BY <1>4, MatchByKind
    <3>2. Unknown("NO_DEFINITION_FOUND") \in Failure
      BY FailureIsMade DEF Reason
    <3>3. key.of = "memory" => NotFound \in A
      BY <1>4, <1>5, <1>7, WalkEnds
    <3> QED
      BY <1>4, <2>1, <3>1, <3>2, <3>3
  <2>4. Computes(prog, Returning(v), A)
    BY <1>4, <2>3 DEF Computes, Returning
  <2> QED
    BY <1>1, <2>2, <2>4 DEF OnTheWay
<1>8. CASE b \notin V /\ prog.pred[b] # <<>> /\ ~BlockLeft
  BY <1>3, <1>8, MayRunOut DEF LeaveBlock
<1>9. CASE b \notin V /\ prog.pred[b] # <<>> /\ BlockLeft
  <2>1. PICK c, W : c = prog.pred[b][1] /\ W = V \cup {b}
    OBVIOUS
  <2>2. PICK f : f = [for |-> "preds", key |-> key, block |-> b, visited |-> W, results |-> <<>>]
    OBVIOUS
  <2>3. now' = Scan(key, c, Len(prog.code[c]), W) /\ stack' = <<f>> \o stack
    BY <1>3, <1>9, <2>1, <2>2 DEF LeaveBlock, CallWith, ScanWhole
  <2>4. PICK B : B = WalkOK(prog, key, c, Len(prog.code[c]), W)
    OBVIOUS
  <2>5. B \in SUBSET Outcome /\ Failure \subseteq B
    BY <2>4, FailuresAreFine
  <2>6. Link(prog, f, B, A)
    <3>1. /\ f.for = "preds" /\ f.key = key /\ f.block = b /\ f.visited = W
          /\ f.results = <<>>
      BY <2>2
    <3>2. IsSequence(<<>>) /\ Len(<<>>) = 0
      BY EmptyStack
    <3>3. Len(prog.pred[b]) \in Nat /\ 0 < Len(prog.pred[b])
      BY <1>5, <1>9, CodeOf, PredecessorsAreMany
    <3>4. W \ {b} = V
      BY <1>9, <2>1
    <3>5. \A k \in 1..Len(prog.pred[b]) : k = 0 + 1 =>
             B \subseteq WalkOK(prog, key, prog.pred[b][k], Len(prog.code[prog.pred[b][k]]), W)
      BY <2>1, <2>4
    <3>6. b \in prog.blocks \cap W
      BY <1>5, <2>1
    <3>7. IsSequence(f.results) /\ Len(f.results) = 0
      BY <3>1, <3>2
    <3>8. /\ IsTracked(f.key) /\ f.block \in prog.blocks \cap f.visited
          /\ Len(f.results) < Len(prog.pred[f.block])
          /\ WalkOK(prog, f.key, f.block, 0, f.visited \ {f.block}) \subseteq A
      BY <1>4, <3>1, <3>3, <3>4, <3>6, <3>7
    <3>9. \A k \in 1..Len(prog.pred[f.block]) : k = Len(f.results) + 1 =>
             B \subseteq WalkOK(prog, f.key, prog.pred[f.block][k],
                                Len(prog.code[prog.pred[f.block][k]]), f.visited)
      BY <3>1, <3>5, <3>7
    <3>10. 1..Len(f.results) = {}
      BY <3>7
    <3> QED
      BY <1>4, <3>1, <3>7, <3>8, <3>9, <3>10 DEF Link
  <2>7. Computes(prog, Scan(key, c, Len(prog.code[c]), W), B)
    BY <1>4, <2>4, <2>5 DEF Computes, Scan
  <2>8. OnTheWay(prog, G, <<f>> \o stack, Scan(key, c, Len(prog.code[c]), W))
    BY <1>1, <1>2, <2>5, <2>6, <2>7, MayAsk
  <2> QED
    BY <2>3, <2>8
<1> QED
  BY <1>6, <1>7, <1>8, <1>9


\* The value that comes back is what the frame on top waits for.
LEMMA AnswerArrives ==
    ASSUME TypeInv, NEW p, NEW G, OnTheWay(p, G, stack, now),
           now.do = "return", stack # <<>>
    PROVE  \E B \in SUBSET Outcome : \E A \in SUBSET Outcome :
              /\ now.value \in B /\ Link(p, Head(stack), B, A)
              /\ Failure \subseteq A /\ Expects(p, Tail(stack), A, G)
<1>1. PICK B \in SUBSET Outcome : Computes(p, now, B) /\ Expects(p, stack, B, G)
  BY DEF OnTheWay
<1>2. IsSequence(stack)
  BY DEF TypeInv, Typed
<1>3. PICK A \in SUBSET Outcome : Link(p, Head(stack), B, A) /\ Expects(p, Tail(stack), A, G)
  BY <1>1, <1>2, ExpectsLess
<1>4. now.value \in B
  BY <1>1 DEF Computes
<1>5. Failure \subseteq A
  BY <1>3 DEF Link
<1> QED
  BY <1>3, <1>4, <1>5

\* A value that is handed on.
LEMMA MayAnswer ==
    ASSUME NEW p, NEW G, NEW s, NEW A \in SUBSET Outcome, Failure \subseteq A,
           Expects(p, s, A, G), NEW v \in A
    PROVE  OnTheWay(p, G, s, Returning(v))
<1>1. Computes(p, Returning(v), A)
  BY DEF Computes, Returning
<1> QED
  BY <1>1 DEF OnTheWay

\* The walk of a register answers, or met only its own cycle.
LEMMA FinishRegisterIsRight ==
    ASSUME TypeInv, NEW G, OnTheWay(prog, G, stack, now), FinishRegister
    PROVE  OnTheWay(prog, G, stack', now')
<1>1. now.do = "return" /\ stack # <<>> /\ Head(stack).for = "register"
  BY DEF FinishRegister, Waiting
<1>2. PICK B, A \in SUBSET Outcome :
         /\ now.value \in B /\ Link(prog, Head(stack), B, A)
         /\ Failure \subseteq A /\ Expects(prog, Tail(stack), A, G)
  BY <1>1, AnswerArrives
<1>3. PICK v : v = IF now.value = Cycle THEN Unknown("NO_DEFINITION_FOUND") ELSE now.value
  OBVIOUS
<1>4. now' = Returning(v) /\ stack' = Tail(stack)
  BY <1>3 DEF FinishRegister
<1>5. v \in A
  <2>1. B \ {Cycle} \subseteq A
    BY <1>1, <1>2 DEF Link
  <2>2. Unknown("NO_DEFINITION_FOUND") \in Failure
    BY FailureIsMade DEF Reason
  <2> QED
    BY <1>2, <1>3, <2>1, <2>2
<1> QED
  BY <1>2, <1>4, <1>5, MayAnswer

\* The walk of a cell answers, or the database is asked.
LEMMA FinishMemoryIsRight ==
    ASSUME TypeInv, NEW G, OnTheWay(prog, G, stack, now), FinishMemory
    PROVE  OnTheWay(prog, G, stack', now')
<1>1. now.do = "return" /\ stack # <<>> /\ Head(stack).for = "memory"
  BY DEF FinishMemory, Waiting
<1>2. PICK B, A \in SUBSET Outcome :
         /\ now.value \in B /\ Link(prog, Head(stack), B, A)
         /\ Failure \subseteq A /\ Expects(prog, Tail(stack), A, G)
  BY <1>1, AnswerArrives
<1>3. PICK f : f = Head(stack)
  OBVIOUS
<1>4. /\ f.base \in WholeReg \cup {NoReg}
      /\ B \ Sentinel \subseteq A
      /\ f.base = NoReg /\ B \cap Sentinel # {} => Fetched(f.disp) \in A
      /\ f.base # NoReg => LoadsThrough(prog, RegOK(prog, f.base, f.block, f.pc), f.disp, A)
  BY <1>1, <1>2, <1>3 DEF Link
<1>5. IsSequence(Tail(stack))
  BY <1>1, Answering DEF TypeInv, Typed
<1>6. CASE now.value \notin Sentinel
  <2>1. now' = now /\ stack' = Tail(stack)
    BY <1>6 DEF FinishMemory, Sentinel
  <2>2. now.value \in A
    BY <1>2, <1>4, <1>6
  <2>3. Computes(prog, now, A)
    BY <1>1, <1>2, <2>2 DEF Computes
  <2> QED
    BY <1>2, <2>1, <2>3 DEF OnTheWay
<1>7. CASE now.value \in Sentinel /\ f.base = NoReg
  <2>1. now' = [do |-> "dereference", addr |-> f.disp] /\ stack' = Tail(stack)
    BY <1>3, <1>7 DEF FinishMemory, Sentinel
  <2>2. Fetched(f.disp) \in A
    BY <1>2, <1>4, <1>7
  <2>3. Computes(prog, [do |-> "dereference", addr |-> f.disp], A)
    BY <1>2, <2>2 DEF Computes
  <2> QED
    BY <1>2, <2>1, <2>3 DEF OnTheWay
<1>8. CASE now.value \in Sentinel /\ f.base # NoReg
  <2>1. PICK g : g = [for |-> "base", disp |-> f.disp]
    OBVIOUS
  <2>2. now' = ResolveRegister(f.base, f.block, f.pc) /\ stack' = <<g>> \o Tail(stack)
    BY <1>3, <1>8, <2>1 DEF FinishMemory, Sentinel
  <2>3. PICK C : C = RegOK(prog, f.base, f.block, f.pc)
    OBVIOUS
  <2>4. C \in SUBSET Outcome /\ Failure \subseteq C
    BY <2>3, FailuresAreFine
  <2>5. Link(prog, g, C, A)
    <3>1. g.for = "base" /\ g.disp = f.disp
      BY <2>1
    <3>2. LoadsThrough(prog, C, f.disp, A)
      BY <1>4, <1>8, <2>3
    <3> QED
      BY <1>2, <3>1, <3>2 DEF Link
  <2>6. Computes(prog, ResolveRegister(f.base, f.block, f.pc), C)
    BY <1>4, <2>3, <2>4 DEF Computes, ResolveRegister
  <2>7. OnTheWay(prog, G, <<g>> \o Tail(stack), ResolveRegister(f.base, f.block, f.pc))
    BY <1>2, <1>5, <2>4, <2>5, <2>6, MayAsk
  <2> QED
    BY <2>2, <2>7
<1> QED
  BY <1>6, <1>7, <1>8

\* The database is asked for what the base register points to.
LEMMA FinishBaseIsRight ==
    ASSUME TypeInv, NEW G, OnTheWay(prog, G, stack, now), WithinApproximations, FinishBase
    PROVE  OnTheWay(prog, G, stack', now')
<1>1. now.do = "return" /\ stack # <<>> /\ Head(stack).for = "base" /\ Waiting("base")
  BY DEF FinishBase, Waiting
<1>2. PICK B, A \in SUBSET Outcome :
         /\ now.value \in B /\ Link(prog, Head(stack), B, A)
         /\ Failure \subseteq A /\ Expects(prog, Tail(stack), A, G)
  BY <1>1, AnswerArrives
<1>3. LoadsThrough(prog, B, Head(stack).disp, A)
  BY <1>1, <1>2 DEF Link
<1>4. CASE now.value.tag = "Concrete"
  <2>1. PICK a : a = now.value.value + Head(stack).disp
    OBVIOUS
  <2>2. a \notin StoredTo(prog)
    BY <1>1, <1>4, <2>1 DEF WithinApproximations
  <2>3. Fetched(a) \in A
    BY <1>2, <1>3, <1>4, <2>1, <2>2 DEF LoadsThrough
  <2>4. now' = [do |-> "dereference", addr |-> a] /\ stack' = Tail(stack)
    BY <1>4, <2>1 DEF FinishBase
  <2>5. Computes(prog, [do |-> "dereference", addr |-> a], A)
    BY <1>2, <2>3 DEF Computes
  <2> QED
    BY <1>2, <2>4, <2>5 DEF OnTheWay
<1>5. CASE now.value.tag # "Concrete"
  <2>1. now' = Returning(Unknown("NO_DEFINITION_FOUND")) /\ stack' = Tail(stack)
    BY <1>5 DEF FinishBase
  <2>2. Unknown("NO_DEFINITION_FOUND") \in A
    BY <1>2, FailureIsMade DEF Reason
  <2> QED
    BY <1>2, <2>1, <2>2, MayAnswer
<1> QED
  BY <1>4, <1>5

\* The locators adjust the answer they asked for.
LEMMA FinishAdjustmentIsRight ==
    ASSUME TypeInv, NEW G, OnTheWay(prog, G, stack, now), WithinApproximations,
           FinishLea \/ FinishAdd
    PROVE  OnTheWay(prog, G, stack', now')
<1>1. CASE FinishLea
  <2>1. now.do = "return" /\ stack # <<>> /\ Head(stack).for = "lea"
    BY <1>1 DEF FinishLea, Waiting
  <2>2. PICK B, A \in SUBSET Outcome :
           /\ now.value \in B /\ Link(prog, Head(stack), B, A)
           /\ Failure \subseteq A /\ Expects(prog, Tail(stack), A, G)
    BY <2>1, AnswerArrives
  <2>3. PICK v : v = Adjusted(now.value, Head(stack).delta, Head(stack).size, "POINTER")
    OBVIOUS
  <2>4. v \in A
    BY <2>1, <2>2, <2>3 DEF Link
  <2>5. now' = Returning(v) /\ stack' = Tail(stack)
    BY <1>1, <2>3 DEF FinishLea
  <2> QED
    BY <2>2, <2>4, <2>5, MayAnswer
<1>2. CASE FinishAdd
  <2>1. now.do = "return" /\ stack # <<>> /\ Head(stack).for = "add" /\ Waiting("add")
    BY <1>2 DEF FinishAdd, Waiting
  <2>2. PICK B, A \in SUBSET Outcome :
           /\ now.value \in B /\ Link(prog, Head(stack), B, A)
           /\ Failure \subseteq A /\ Expects(prog, Tail(stack), A, G)
    BY <2>1, AnswerArrives
  <2>3. PICK v : v = AddedTo(now.value, Head(stack).delta, Head(stack).size)
    OBVIOUS
  <2>4. now.value.tag \in {"Concrete", "Unknown"}
    BY <2>1 DEF WithinApproximations
  <2>5. v \in A
    BY <2>1, <2>2, <2>3, <2>4 DEF Link
  <2>6. now' = Returning(v) /\ stack' = Tail(stack)
    BY <1>2, <2>3 DEF FinishAdd
  <2> QED
    BY <2>2, <2>5, <2>6, MayAnswer
<1> QED
  BY <1>1, <1>2

\* dereference reads the database.
LEMMA DereferenceIsRight ==
    ASSUME TypeInv, NEW G, OnTheWay(prog, G, stack, now), Dereference
    PROVE  OnTheWay(prog, G, stack', now')
<1>1. PICK A \in SUBSET Outcome : Computes(prog, now, A) /\ Expects(prog, stack, A, G)
  BY DEF OnTheWay
<1>2. CASE ~StepLeft
  BY <1>2, MayRunOut DEF Dereference
<1>3. CASE StepLeft
  <2>1. Fetched(now.addr) \in A /\ Failure \subseteq A
    BY <1>1 DEF Computes, Dereference
  <2>2. now' = Returning(Fetched(now.addr)) /\ stack' = stack
    BY <1>3 DEF Dereference, Return, Fetched
  <2> QED
    BY <1>1, <2>1, <2>2, MayAnswer
<1> QED
  BY <1>2, <1>3


\* One predecessor has been walked: the next one is, or the paths are joined.
LEMMA CollectPathIsRight ==
    ASSUME TypeInv, Analysable(prog), NEW G, OnTheWay(prog, G, stack, now), CollectPath
    PROVE  OnTheWay(prog, G, stack', now')
<1>1. now.do = "return" /\ stack # <<>> /\ Head(stack).for = "preds"
  BY DEF CollectPath, Waiting
<1>2. PICK B, A \in SUBSET Outcome :
         /\ now.value \in B /\ Link(prog, Head(stack), B, A)
         /\ Failure \subseteq A /\ Expects(prog, Tail(stack), A, G)
  BY <1>1, AnswerArrives
<1>3. PICK f, b, key, W, u : /\ f = Head(stack) /\ b = f.block /\ key = f.key /\ W = f.visited
                             /\ u = f.results
  OBVIOUS
<1>4. /\ IsTracked(key) /\ b \in prog.blocks /\ b \in W
      /\ IsSequence(u) /\ Len(u) < Len(prog.pred[b])
      /\ \A k \in 1..Len(u) :
           u[k] \in WalkOK(prog, key, prog.pred[b][k], Len(prog.code[prog.pred[b][k]]), W)
      /\ \A k \in 1..Len(prog.pred[b]) : k = Len(u) + 1 =>
           B \subseteq WalkOK(prog, key, prog.pred[b][k], Len(prog.code[prog.pred[b][k]]), W)
      /\ WalkOK(prog, key, b, 0, W \ {b}) \subseteq A
  BY <1>1, <1>2, <1>3 DEF Link
<1>5. PICK results : results = Append(u, now.value)
  OBVIOUS
<1>6. Len(u) \in Nat /\ Len(prog.pred[b]) \in Nat
  BY <1>4, CodeOf, Positions
<1>7. /\ IsSequence(results) /\ Len(results) = Len(u) + 1
      /\ \A k \in 1..Len(results) :
           \/ k \in 1..Len(u) /\ results[k] = u[k]
           \/ k = Len(u) + 1 /\ results[k] = now.value
  <2>1. PICK T : T = {u[n] : n \in DOMAIN u} \cup {now.value}
    OBVIOUS
  <2>2. u \in Seq(T) /\ now.value \in T
    <3>1. u \in Seq({u[n] : n \in DOMAIN u})
      BY <1>4 DEF IsSequence
    <3> QED
      BY <2>1, <3>1
  <2>3. /\ Len(u) \in Nat /\ Len(results) = Len(u) + 1
        /\ \A k \in 1..Len(u) : results[k] = u[k]
        /\ results[Len(u) + 1] = now.value
    BY <1>5, <2>2
  <2>4. IsSequence(results)
    BY <1>4, <1>5, Appending
  <2>5. ASSUME NEW k \in 1..Len(results)
        PROVE  \/ k \in 1..Len(u) /\ results[k] = u[k]
               \/ k = Len(u) + 1 /\ results[k] = now.value
    BY <2>3
  <2> QED
    BY <2>3, <2>4, <2>5
<1>8. ASSUME NEW k \in 1..Len(results)
      PROVE  results[k] \in WalkOK(prog, key, prog.pred[b][k], Len(prog.code[prog.pred[b][k]]), W)
  <2>1. CASE k \in 1..Len(u) /\ results[k] = u[k]
    BY <1>4, <2>1
  <2>2. CASE k = Len(u) + 1 /\ results[k] = now.value
    <3>1. k \in 1..Len(prog.pred[b])
      BY <1>4, <1>6, <2>2
    <3>2. B \subseteq WalkOK(prog, key, prog.pred[b][k], Len(prog.code[prog.pred[b][k]]), W)
      BY <1>4, <2>2, <3>1
    <3> QED
      BY <1>2, <2>2, <3>2
  <2> QED
    BY <1>7, <2>1, <2>2
<1>9. IsSequence(Tail(stack))
  BY <1>1, Answering DEF TypeInv, Typed
<1>10. CASE Len(results) < Len(prog.pred[b])
  <2>1. PICK n : n = Len(results) + 1
    OBVIOUS
  <2>2. PICK c : c = prog.pred[b][n]
    OBVIOUS
  <2>3. PICK g : g = [f EXCEPT !.results = results]
    OBVIOUS
  <2>4. /\ now' = Scan(key, c, Len(prog.code[c]), W)
        /\ stack' = <<g>> \o Tail(stack)
    <3>1. /\ results = Append(f.results, now.value)
          /\ Len(results) < Len(prog.pred[f.block])
      BY <1>3, <1>5, <1>10
    <3>2. /\ now' = ScanWhole(f.key, prog.pred[f.block][Len(results) + 1], f.visited)
          /\ stack' = <<[f EXCEPT !.results = results]>> \o Tail(stack)
      <4>1. f = Head(stack)
        BY <1>3
      <4> QED
        BY <3>1, <4>1 DEF CollectPath
    <3>3. prog.pred[f.block][Len(results) + 1] = c /\ f.key = key /\ f.visited = W
      BY <1>3, <2>1, <2>2
    <3>4. now' = ScanWhole(key, c, W)
      BY <3>2, <3>3
    <3> QED
      BY <2>3, <3>2, <3>4 DEF ScanWhole
  <2>5. PICK C : C = WalkOK(prog, key, c, Len(prog.code[c]), W)
    OBVIOUS
  <2>6. C \in SUBSET Outcome /\ Failure \subseteq C
    BY <2>5, FailuresAreFine
  <2>7. /\ g.for = "preds" /\ g.key = key /\ g.block = b /\ g.visited = W
        /\ g.results = results
    <3>1. f.results \in Seq(Outcome) /\ f.for = "preds"
      <4>1. IsSequence(stack) /\ \A k \in DOMAIN stack : IsFrame(stack[k])
        BY DEF TypeInv, Typed
      <4>2. f = stack[1] /\ 1 \in DOMAIN stack
        BY <1>1, <1>3, <4>1, Answering
      <4>3. IsFrame(f) /\ f.for = "preds"
        BY <1>1, <1>3, <4>1, <4>2
      <4> QED
        BY <4>3, FrameKinds
    <3>2. f.key = key /\ f.block = b /\ f.visited = W
      BY <1>3
    <3> QED
      BY <2>3, <3>1, <3>2
  <2>8. \A k \in 1..Len(prog.pred[b]) : k = Len(results) + 1 =>
           C \subseteq WalkOK(prog, key, prog.pred[b][k], Len(prog.code[prog.pred[b][k]]), W)
    BY <2>1, <2>2, <2>5
  <2>9. Link(prog, g, C, A)
    <3>1. /\ IsTracked(g.key) /\ g.block \in prog.blocks \cap g.visited
          /\ IsSequence(g.results) /\ Len(g.results) < Len(prog.pred[g.block])
          /\ WalkOK(prog, g.key, g.block, 0, g.visited \ {g.block}) \subseteq A
      BY <1>4, <1>7, <1>10, <2>7
    <3>2. \A k \in 1..Len(g.results) :
             g.results[k] \in WalkOK(prog, g.key, prog.pred[g.block][k],
                                     Len(prog.code[prog.pred[g.block][k]]), g.visited)
      BY <1>8, <2>7
    <3>3. \A k \in 1..Len(prog.pred[g.block]) : k = Len(g.results) + 1 =>
             C \subseteq WalkOK(prog, g.key, prog.pred[g.block][k],
                                Len(prog.code[prog.pred[g.block][k]]), g.visited)
      BY <2>7, <2>8
    <3>4. g.for = "preds"
      BY <2>7
    <3> QED
      BY <1>2, <3>1, <3>2, <3>3, <3>4 DEF Link
  <2>10. Computes(prog, Scan(key, c, Len(prog.code[c]), W), C)
    BY <1>4, <2>5, <2>6 DEF Computes, Scan
  <2>11. OnTheWay(prog, G, <<g>> \o Tail(stack), Scan(key, c, Len(prog.code[c]), W))
    BY <1>2, <1>9, <2>6, <2>9, <2>10, MayAsk
  <2> QED
    BY <2>4, <2>11
<1>11. CASE ~(Len(results) < Len(prog.pred[b]))
  <2>1. Len(results) = Len(prog.pred[b])
    BY <1>4, <1>6, <1>7, <1>11
  <2>2. prog.pred[b] # <<>>
    BY <1>4, <1>6, EmptyStack
  <2>3. PICK V : V = W \ {b}
    OBVIOUS
  <2>4. V \cup {b} = W
    BY <1>4, <2>3
  <2>5. JoinPaths(results) \in WalkOK(prog, key, b, 0, V)
    BY <1>4, <1>7, <1>8, <2>1, <2>2, <2>4, JoinIsAnswer
  <2>6. JoinPaths(results) \in A
    BY <1>4, <2>3, <2>5
  <2>7. now' = Returning(JoinPaths(results)) /\ stack' = Tail(stack)
    BY <1>3, <1>5, <1>11 DEF CollectPath
  <2> QED
    BY <1>2, <2>6, <2>7, MayAnswer
<1> QED
  BY <1>10, <1>11


\* What the query asks for has a right answer to ask for: a pushed operand, if
\* it asks for an instruction.
Answerable(p, q) == q.do = "instruction" => p.code[q.block][q.pc].mnem = "push"

\* The processor is where it may get, and the resolver on its way to an answer
\* that is right there.
SoundInv ==
    /\ TypeInv /\ query \in Queries
    /\ Supported(prog, query) =>
         /\ cpu \in Reach(prog)
         /\ Answerable(prog, query) => OnTheWay(prog, AnswerOK(prog, query), stack, now)

\* A supported function can be analysed.
LEMMA SupportedIsAnalysable ==
    ASSUME NEW p \in Programs, NEW q, Supported(p, q)
    PROVE  Analysable(p) /\ p.owned
BY ProgramsAssumption DEF Supported, Analysable

\* Each step of the resolver leaves function and query alone.
LEMMA NextIsSame == Next => prog' = prog /\ query' = query
<1>1. Same => prog' = prog /\ query' = query
  BY DEF Same
<1>2. StartRegister \/ StartMemory \/ StartInstruction => Same
  BY DEF StartRegister, StartMemory, StartInstruction
<1>3. Look \/ LeaveBlock \/ Dereference => Same
  BY DEF Look, LeaveBlock, Dereference
<1>4. CollectPath \/ FinishRegister \/ FinishMemory \/ FinishBase => Same
  BY DEF CollectPath, FinishRegister, FinishMemory, FinishBase
<1>5. FinishLea \/ FinishAdd => Same
  BY DEF FinishLea, FinishAdd
<1> QED
  BY <1>1, <1>2, <1>3, <1>4, <1>5 DEF Next

\* Each step of the resolver stays on its way.
LEMMA NextIsRight ==
    ASSUME TypeInv, Analysable(prog), prog.owned, WithinApproximations,
           NEW G, OnTheWay(prog, G, stack, now), Next
    PROVE  OnTheWay(prog, G, stack', now')
<1>1. CASE StartRegister
  BY <1>1, StartRegisterIsRight
<1>2. CASE StartMemory
  BY <1>2, StartMemoryIsRight
<1>3. CASE StartInstruction
  BY <1>3, StartInstructionIsRight
<1>4. CASE Look
  BY <1>4, LookIsRight
<1>5. CASE LeaveBlock
  BY <1>5, LeaveBlockIsRight
<1>6. CASE Dereference
  BY <1>6, DereferenceIsRight
<1>7. CASE CollectPath
  BY <1>7, CollectPathIsRight
<1>8. CASE FinishRegister
  BY <1>8, FinishRegisterIsRight
<1>9. CASE FinishMemory
  BY <1>9, FinishMemoryIsRight
<1>10. CASE FinishBase
  BY <1>10, FinishBaseIsRight
<1>11. CASE FinishLea \/ FinishAdd
  BY <1>11, FinishAdjustmentIsRight
<1> QED
  BY <1>1, <1>2, <1>3, <1>4, <1>5, <1>6, <1>7, <1>8, <1>9, <1>10, <1>11 DEF Next

\* A query starts on its way to its own answers, the processor at the entry.
LEMMA SoundStart == SoundInit => SoundInv
<1> SUFFICES ASSUME SoundInit PROVE SoundInv
  OBVIOUS
<1>1. TypeInv /\ query \in Queries /\ prog \in Programs
  BY TypeInit DEF SoundInit, Init
<1>2. ASSUME Supported(prog, query)
      PROVE  cpu \in Reach(prog)
  <2>1. Analysable(prog)
    BY <1>1, <1>2, SupportedIsAnalysable
  <2>2. cpu = Start(prog)
    BY DEF SoundInit, Start, At
  <2> QED
    BY <2>1, <2>2, ReachIsClosed DEF Closed
<1>3. ASSUME Supported(prog, query), Answerable(prog, query)
      PROVE  OnTheWay(prog, AnswerOK(prog, query), stack, now)
  <2>1. PICK p, q : p = prog /\ q = query
    OBVIOUS
  <2>2. PICK A : A = AnswerOK(p, q)
    OBVIOUS
  <2>3. q.do \in {"register", "memory", "instruction"}
    BY <1>1, <2>1, QueriesAssumption DEF IsQuery
  <2>4. Failure \subseteq A /\ A \in SUBSET Outcome
    BY <2>2, FailuresAreFine DEF AnswerOK
  <2>5. Computes(p, q, A)
    <3>1. CASE q.do = "register"
      <4>1. q.reg \in WholeReg \cup {NoReg}
        BY <1>3, <2>1, <3>1 DEF Supported
      <4>2. RegOK(p, q.reg, q.block, q.pc) = A
        BY <2>2, <3>1 DEF AnswerOK
      <4> QED
        BY <2>4, <3>1, <4>1, <4>2 DEF Computes
    <3>2. CASE q.do = "memory"
      <4>1. /\ q.base \in WholeReg \cup {NoReg}
            /\ q.base = NoReg => q.disp \in 0..(Modulus[WordSize] - 1)
        BY <1>3, <2>1, <3>2 DEF Supported
      <4>2. MemOK(p, q.base, q.disp, q.block, q.pc) = A
        BY <2>2, <3>2 DEF AnswerOK
      <4> QED
        BY <2>4, <3>2, <4>1, <4>2 DEF Computes
    <3>3. CASE q.do = "instruction"
      <4>1. p.code[q.block][q.pc].mnem = "push"
        BY <1>3, <2>1, <3>3 DEF Answerable
      <4>2. PushOK(p, q.block, q.pc) = A
        BY <2>2, <3>3 DEF AnswerOK
      <4> QED
        BY <2>4, <3>3, <4>1, <4>2 DEF Computes
    <3> QED
      BY <2>3, <3>1, <3>2, <3>3
  <2>6. Expects(p, <<>>, A, A)
    BY <2>4, ExpectsNothing
  <2>7. now = q /\ stack = <<>>
    BY <2>1 DEF SoundInit, Init
  <2>8. OnTheWay(p, A, stack, now)
    BY <2>4, <2>5, <2>6, <2>7 DEF OnTheWay
  <2> QED
    BY <2>1, <2>2, <2>8
<1> QED
  BY <1>1, <1>2, <1>3 DEF SoundInv

\* Every step of resolver or processor preserves that.
LEMMA SoundStep == SoundInv /\ WithinApproximations /\ [SoundNext]_allVars => SoundInv'
<1> SUFFICES ASSUME SoundInv, WithinApproximations, [SoundNext]_allVars PROVE SoundInv'
  OBVIOUS
<1>1. CASE Resolve
  <2>1. Next /\ cpu' = cpu
    BY <1>1 DEF Resolve
  <2>2. prog' = prog /\ query' = query
    BY <2>1, NextIsSame
  <2>3. TypeInv'
    BY <2>1, TypeNext DEF SoundInv
  <2>4. ASSUME Supported(prog, query), Answerable(prog, query)
        PROVE  OnTheWay(prog, AnswerOK(prog, query), stack', now')
    <3>1. TypeInv /\ OnTheWay(prog, AnswerOK(prog, query), stack, now)
      BY <2>4 DEF SoundInv
    <3>2. Analysable(prog) /\ prog.owned
      BY <2>4, <3>1, SupportedIsAnalysable DEF TypeInv
    <3> QED
      BY <2>1, <3>1, <3>2, NextIsRight
  <2> QED
    BY <2>1, <2>2, <2>3, <2>4 DEF SoundInv
<1>2. CASE ExecuteOne \/ Branch
  <2>1. UNCHANGED vars
    BY <1>2 DEF ExecuteOne, Branch
  <2>2. TypeInv'
    BY <2>1, TypeNext DEF SoundInv
  <2>3. ASSUME Supported(prog, query)
        PROVE  cpu' \in Reach(prog)
    <3>1. prog \in Programs /\ cpu \in Reach(prog)
      BY <2>3 DEF SoundInv, TypeInv
    <3>2. Closed(prog, Reach(prog))
      BY <2>3, <3>1, SupportedIsAnalysable, ReachIsClosed
    <3>3. Executes(prog, cpu, cpu') \/ Jumps(prog, cpu, cpu')
      BY <1>2 DEF ExecuteOne, Branch, Executes, Jumps, At
    <3> QED
      BY <3>1, <3>2, <3>3 DEF Closed
  <2>4. prog' = prog /\ query' = query /\ stack' = stack /\ now' = now
    BY <2>1 DEF vars
  <2> QED
    BY <2>2, <2>3, <2>4 DEF SoundInv
<1>3. CASE UNCHANGED allVars
  <2>1. UNCHANGED vars /\ cpu' = cpu
    BY <1>3 DEF allVars
  <2>2. TypeInv'
    BY <2>1, TypeNext DEF SoundInv
  <2>3. prog' = prog /\ query' = query /\ stack' = stack /\ now' = now
    BY <2>1 DEF vars
  <2> QED
    BY <2>1, <2>2, <2>3 DEF SoundInv
<1> QED
  BY <1>1, <1>2, <1>3 DEF SoundNext

\* An answer of the resolver is true of the processor at the query.
LEMMA SoundAnswer == SoundInv /\ Supported(prog, query) => NeverGuess
<1> SUFFICES ASSUME SoundInv, Supported(prog, query),
                    Running, cpu.block = query.block, cpu.pc = query.pc,
                    NEW w \in Queried
             PROVE  Denotes(now.value, w)
  BY DEF NeverGuess
<1>1. PICK p, q, m, v : p = prog /\ q = query /\ m = cpu.machine /\ v = now.value
  OBVIOUS
<1>2. /\ p \in Programs /\ q \in Queries /\ Supported(p, q) /\ cpu \in Reach(p)
      /\ q.do \in {"register", "memory", "instruction"}
  BY <1>1, QueriesAssumption DEF SoundInv, TypeInv, IsQuery
<1>3. Analysable(p)
  BY <1>2, SupportedIsAnalysable
<1>4. m \in Before(p, q.block, q.pc)
  <2>1. cpu = At(cpu.block, cpu.pc, cpu.machine) /\ cpu.machine \in Machines
    BY <1>2, <1>3, ReachIsClosed, PlaceParts
  <2>2. cpu = At(q.block, q.pc, m) /\ m \in Machines
    BY <1>1, <2>1
  <2> QED
    BY <1>2, <2>2 DEF Before
<1>5. PICK i : i = p.code[q.block][q.pc]
  OBVIOUS
<1>6. /\ q.do = "register" => w = m.regs[q.reg]
      /\ q.do = "memory" => w = Content(m, CellAt(m, i, q.base, q.disp))
      /\ q.do = "instruction" => i.mnem = "push" /\ w \in Reads(m, i, i.ops[1])
  <2>1. prog.code[cpu.block][cpu.pc] = i
    BY <1>1, <1>5
  <2> QED
    BY <1>1, <2>1 DEF Queried
<1>7. Answerable(p, q)
  BY <1>5, <1>6 DEF Answerable
<1>8. v \in AnswerOK(p, q)
  <2>1. OnTheWay(p, AnswerOK(p, q), stack, now)
    BY <1>1, <1>7 DEF SoundInv
  <2>2. now.do = "return" /\ stack = <<>>
    BY DEF Running, Answered
  <2>3. PICK A \in SUBSET Outcome : Computes(p, now, A) /\ Expects(p, <<>>, A, AnswerOK(p, q))
    BY <2>1, <2>2 DEF OnTheWay
  <2>4. A = AnswerOK(p, q)
    BY <2>3, ExpectsNothing
  <2> QED
    BY <1>1, <2>2, <2>3, <2>4 DEF Computes
<1>9. IsKnown(v)
  BY <1>1 DEF Running
<1>10. CASE q.do = "register"
  <2>1. v \in RegOK(p, q.reg, q.block, q.pc)
    BY <1>8, <1>10 DEF AnswerOK
  <2>2. Denotes(v, m.regs[q.reg])
    BY <1>4, <1>9, <2>1 DEF RegOK
  <2> QED
    BY <1>1, <1>6, <1>10, <2>2
<1>11. CASE q.do = "memory"
  <2>1. v \in MemOK(p, q.base, q.disp, q.block, q.pc)
    BY <1>8, <1>11 DEF AnswerOK
  <2>2. Denotes(v, Content(m, CellAt(m, p.code[q.block][q.pc], q.base, q.disp)))
    BY <1>4, <1>9, <2>1 DEF MemOK
  <2> QED
    BY <1>1, <1>5, <1>6, <1>11, <2>2
<1>12. CASE q.do = "instruction"
  <2>1. v \in PushOK(p, q.block, q.pc)
    BY <1>8, <1>12 DEF AnswerOK
  <2>2. \A x \in Reads(m, p.code[q.block][q.pc], p.code[q.block][q.pc].ops[1]) : Denotes(v, x)
    BY <1>4, <1>9, <2>1 DEF PushOK
  <2> QED
    BY <1>1, <1>5, <1>6, <1>12, <2>2
<1> QED
  BY <1>2, <1>10, <1>11, <1>12

\* The "never guess" contract of the backward resolver: of a function within its
\* stated limits, whatever known value it answers is what the register, the cell
\* or the pushed operand holds whenever an execution stands at the query, on every
\* path and after any number of rounds of any loop.
THEOREM BackwardNeverGuesses ==
    SoundSpec /\ []WithinApproximations => [](Supported(prog, query) => NeverGuess)
<1>1. SoundInit => SoundInv
  BY SoundStart
<1>2. SoundInv /\ WithinApproximations /\ [SoundNext]_allVars => SoundInv'
  BY SoundStep
<1>3. SoundInv => (Supported(prog, query) => NeverGuess)
  BY SoundAnswer
<1> QED
  BY <1>1, <1>2, <1>3, PTL DEF SoundSpec

=============================================================================
