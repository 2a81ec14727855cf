-------------------------- MODULE BackwardSoundness --------------------------
(****************************************************************************)
(* The backward resolver beside the program it analyses: first the query is *)
(* answered, then, if the answer is a known value, the function is executed *)
(* along any path.                                                          *)
(****************************************************************************)
EXTENDS BackwardResolver, Cpu

VARIABLES
    cpu   \* [block, pc, machine]: where the execution is

allVars == <<vars, cpu>>

SoundInit ==
    /\ Init
    /\ cpu = [block |-> prog.entry, pc |-> 1, machine |-> EntryMachine(NoReg)]

Resolve == Next /\ UNCHANGED cpu

Running == Answered /\ IsKnown(now.value)

ExecuteOne ==
    /\ Running /\ cpu.pc <= Len(prog.code[cpu.block])
    /\ \E m \in Execute(prog.code[cpu.block][cpu.pc], cpu.machine) :
          cpu' = [block |-> cpu.block, pc |-> cpu.pc + 1, machine |-> m]
    /\ UNCHANGED vars

Branch ==
    /\ Running /\ cpu.pc > Len(prog.code[cpu.block])
    /\ \E n \in DOMAIN prog.succ[cpu.block] :
          cpu' = [block |-> prog.succ[cpu.block][n], pc |-> 1, machine |-> cpu.machine]
    /\ UNCHANGED vars

SoundNext == Resolve \/ ExecuteOne \/ Branch

SoundSpec == SoundInit /\ [][SoundNext]_allVars

-----------------------------------------------------------------------------
(* What the resolver takes for granted of a function *)

\* The database reads the memory the processor starts with.
ASSUME LoadedAssumption ==
    Loaded = Image /\ DOMAIN Image \subseteq 0..(Modulus[WordSize] - 1)

\* The operand has no run-time index and no segment base.
Fixed(op) == IsMem(op) /\ ~op.seg /\ ~op.index

\* A store goes to an address or to a known depth of the stack, if it is not
\* through a segment base.
StoresOnStackOrFixed(i) ==
    \A n \in Written(i) : IsMem(i.ops[n]) =>
       \/ i.ops[n].seg \/ i.ops[n].kind = "MEM_DIRECT"
       \/ /\ IsBased(i.ops[n]) /\ i.ops[n].reg \in {SpReg, FpReg}
          /\ i.ops[n].reg = SpReg => i.delta # <<>>

\* Stack and frame pointer are only moved, and only onto each other.
KeepsStack(i) ==
    \A n \in Written(i) : IsReg(i.ops[n]) /\ i.ops[n].reg \in {SpReg, FpReg} =>
       \/ i.mnem \in {"add", "sub"} /\ IsImm(i.ops[2])
       \/ i.mnem = "mov" /\ IsReg(i.ops[2]) /\ i.ops[2].reg \in {SpReg, FpReg}
       \/ i.mnem = "lea" /\ IsBased(i.ops[2]) /\ i.ops[2].reg \in {SpReg, FpReg}
       \/ i.mnem = "other"

\* A whole register, or memory, does not take over the value of a part of a
\* register, and an address is not computed from one.
TakesWholeRegisters(i) ==
    /\ \A n \in DOMAIN i.ops : IsBased(i.ops[n]) => i.ops[n].reg \in WholeReg
    /\ i.mnem \in Moves /\ IsReg(i.ops[2]) /\ (IsMem(i.ops[1]) \/ i.ops[1].reg \in WholeReg)
         => i.ops[2].reg \in WholeReg
    /\ i.mnem = "xchg" /\ IsReg(i.ops[1]) /\ IsReg(i.ops[2])
         => (i.ops[1].reg \in WholeReg <=> i.ops[2].reg \in WholeReg)
    /\ i.mnem = "push" /\ IsReg(i.ops[1]) => i.ops[1].reg \in WholeReg

\* The instruction has the operands of its mnemonic and writes nothing besides,
\* whole words where it does arithmetic.
Understood(i) ==
    /\ i.mnem \in Moves \cup {"lea", "cmov", "add", "sub", "xor"}
         => Len(i.ops) = 2 /\ Written(i) = {1}
    /\ i.mnem = "xchg" => Written(i) = {1, 2}
    /\ i.mnem \in {"push", "call", "jmp"} => Written(i) = {}
    /\ i.mnem = "push" => i.ops # <<>> /\ i.delta # <<>>
    /\ i.implicit = {}
    /\ i.mnem \in {"lea", "add", "sub"} /\ IsReg(i.ops[1]) =>
         \/ i.ops[1].size = WordSize
         \/ ~RegisterView(i.ops[1].reg, i.ops[1].size).definesParent
    /\ StoresOnStackOrFixed(i) /\ KeepsStack(i) /\ TakesWholeRegisters(i)
    /\ \A n \in DOMAIN i.ops : i.ops[n].kind = "MEM_DIRECT" =>
         i.ops[n].imm \in 0..(Modulus[WordSize] - 1)

\* The cells a function stores to by name, and where those of the stack are.
CellsStored(p) ==
    UNION {{CellOf(i, op) : op \in {o \in {i.ops[n] : n \in Written(i)} : Fixed(o)}} :
             i \in InstructionsOf(p)}
OnStack(c) == c.space \in {<<"sp">>, <<"fp">>}
StackCellOf(c) == StackCell(c.off + IF c.space = <<"fp">> THEN FpOffset ELSE 0)

\* No cell of the stack that is stored to has two names, no push overwrites it,
\* and a store somewhere on the stack is named like whatever it may overwrite.
SeparateCells(p) ==
    \A c \in CellsStored(p) : OnStack(c) =>
       /\ \A d \in CellsStored(p) : OnStack(d) /\ StackCellOf(c) = StackCellOf(d) => c = d
       /\ \A i \in InstructionsOf(p) :
            /\ i.mnem = "push" => StackCellOf(c) # StackCell(i.delta[1] - WordSize)
            /\ \A n \in Written(i) :
                 IsBased(i.ops[n]) /\ i.ops[n].index => CellOf(i, i.ops[n]).space = c.space

\* The blocks' predecessors are those they follow, and nothing jumps to the
\* first address.
IsFlowChart(p) ==
    /\ p.pred[p.entry] = <<>>
    /\ \A b \in p.blocks : \A n \in DOMAIN p.succ[b] :
         /\ p.succ[b][n] \in p.blocks
         /\ \E k \in DOMAIN p.pred[p.succ[b][n]] : p.pred[p.succ[b][n]][k] = b

Supported(p, q) ==
    /\ p.owned /\ IsFlowChart(p)
    /\ \A i \in InstructionsOf(p) : Understood(i)
    /\ SeparateCells(p)
    /\ {SpReg, FpReg, RetReg} \subseteq WholeReg /\ RetReg \in Clobbered /\ WordSize > 1
    /\ q.do = "register" => q.reg \in WholeReg \cup {NoReg}
    /\ q.do = "memory" =>
         IF q.base = NoReg THEN q.disp \in 0..(Modulus[WordSize] - 1) ELSE q.base \in WholeReg

\* The addresses a function stores to.
StoredTo(p) ==
    UNION {{op.imm : op \in {o \in {i.ops[n] : n \in Written(i)} : o.kind = "MEM_DIRECT"}} :
             i \in InstructionsOf(p)}

\* The two approximations that depend on the values met, and so are no matter of
\* the function's text: an addition passes on what is no number
\* (AddSubRegImmLocator), and an address found in a register is taken not to be
\* stored to by name (engine_backward.py:422-424).  While a query stays within
\* them, NeverGuess is proved.
WithinApproximations ==
    /\ Waiting("add") => now.value.tag \in {"Concrete", "Unknown"}
    /\ Waiting("base") /\ now.value.tag = "Concrete" =>
         now.value.value + Head(stack).disp \notin StoredTo(prog)

-----------------------------------------------------------------------------
\* The cell that a base and a displacement name at an instruction.
CellAt(m, i, base, disp) ==
    CASE base = NoReg -> Num(disp)
      [] base = SpReg -> StackCell(i.delta[1] + disp)
      [] base = FpReg /\ base # SpReg -> StackCell(FpOffset + disp)
      [] OTHER -> Plus(m.regs[base], disp)

\* The words the queried location holds when the execution stands at the query:
\* for an instruction, the operand it pushes.
Queried ==
    LET m == cpu.machine
        i == prog.code[cpu.block][cpu.pc]
    IN  CASE query.do = "register" -> {m.regs[query.reg]}
          [] query.do = "memory" -> {Content(m, CellAt(m, i, query.base, query.disp))}
          [] query.do = "instruction" ->
                IF i.mnem = "push" THEN Reads(m, i, i.ops[1]) ELSE {}

\* The "never guess" contract (core/merge.py:3-7, engine_backward.py:294-299):
\* whenever an execution stands at the queried address, the register, the cell
\* or the pushed operand holds what the resolver answered, whatever path led
\* there and however often loops were taken.
NeverGuess ==
    (Running /\ cpu.block = query.block /\ cpu.pc = query.pc)
      => \A w \in Queried : Denotes(now.value, w)

=============================================================================
