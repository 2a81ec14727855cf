-------------------------- MODULE ForwardSoundness --------------------------
(****************************************************************************)
(* The forward engine beside the program it analyses: first the query is    *)
(* answered, then, if the answer is a known value, the function is executed *)
(* along any path.                                                          *)
(****************************************************************************)
EXTENDS ForwardEngine, Cpu

VARIABLES
    cpu   \* [block, pc, machine]: where the execution is

allVars == <<vars, cpu>>

SoundInit ==
    /\ Init
    /\ cpu = [block |-> prog.entry, pc |-> 1, machine |-> EntryMachine(query.reg)]

Analyse == Next /\ UNCHANGED cpu

Running == phase = "done" /\ IsKnown(answer)

ExecuteOne ==
    /\ Running /\ cpu.pc <= Len(prog.code[cpu.block])
    /\ \E m \in Execute(prog.code[cpu.block][cpu.pc], cpu.machine) :
          cpu' = [block |-> cpu.block, pc |-> cpu.pc + 1, machine |-> m]
    /\ UNCHANGED vars

Branch ==
    /\ Running /\ cpu.pc > Len(prog.code[cpu.block])
    /\ \E b \in Succs(cpu.block) : cpu' = [block |-> b, pc |-> 1, machine |-> cpu.machine]
    /\ UNCHANGED vars

SoundNext == Analyse \/ ExecuteOne \/ Branch

SoundSpec == SoundInit /\ [][SoundNext]_allVars

-----------------------------------------------------------------------------
(* What the engine takes for granted of a function *)

\* The instruction has the operands of its mnemonic, and it is of a form whose
\* every effect the engine looks at: no exchange or conditional move with memory,
\* no register written without being an operand, no arithmetic at less than a
\* word, no unknown instruction that replaces one operand by what it reads from
\* memory, or memory by what it reads from the other operand, and no store
\* through a pointer that is added to an index.
Understood(i) ==
    /\ i.mnem \in Moves \cup {"lea", "cmov", "add", "sub", "xor"}
         => Len(i.ops) = 2 /\ Written(i) = {1}
    /\ i.mnem = "xchg" => Written(i) = {1, 2}
    /\ i.mnem \in {"push", "jmp"} => Written(i) = {}
    /\ i.mnem = "push" => i.ops # <<>> /\ i.delta # <<>>
    /\ i.mnem \in {"lea", "cmov", "xchg"} => IsReg(i.ops[1])
    /\ i.mnem \in {"cmov", "xchg"} => IsReg(i.ops[2])
    /\ i.mnem \in {"add", "sub", "xor"} => i.ops[1].read
    /\ i.mnem \in {"lea", "add", "sub"} /\ IsReg(i.ops[1]) =>
         \/ i.ops[1].size = WordSize
         \/ ~RegisterView(i.ops[1].reg, i.ops[1].size).definesParent
    /\ i.mnem = "other" =>
         /\ i.implicit = {}
         /\ (\E n \in DOMAIN i.ops : IsMem(i.ops[n])) =>
              \A n, k \in Written(i) : n = k /\ i.ops[n].read
    /\ \A n \in Written(i) : IsBased(i.ops[n]) /\ i.ops[n].index =>
         i.ops[n].seg \/ i.ops[n].reg \in {SpReg, FpReg}

\* The stack slots a function names, and the cells they and its pushes write.
SlotsOf(p) ==
    UNION {{SlotOf(i, op)[1] : op \in {o \in {i.ops[n] : n \in DOMAIN i.ops} :
                                          SlotOf(i, o) # <<>>}} : i \in InstructionsOf(p)}
SlotCell(k) == StackCell(k[2] + IF k[1] = "fp" THEN FpOffset ELSE 0)
PushCell(i) == StackCell(i.delta[1] - WordSize)

\* No cell has two names, and no push overwrites a cell that has one.
SeparateCells(p) ==
    /\ \A k, l \in SlotsOf(p) : SlotCell(k) = SlotCell(l) => k = l
    /\ \A k \in SlotsOf(p) : \A i \in InstructionsOf(p) :
          i.mnem = "push" => SlotCell(k) # PushCell(i)

\* Nothing jumps to the first address, and the register asked for, like the one
\* calls return in, is not a part of another.
Supported(p, q) ==
    /\ \A b \in p.blocks : \A n \in DOMAIN p.succ[b] : p.succ[b][n] # p.entry
    /\ \A i \in InstructionsOf(p) : Understood(i)
    /\ SeparateCells(p)
    /\ q.reg \in WholeReg /\ RetReg \in WholeReg

-----------------------------------------------------------------------------
\* The "never guess" contract (core/merge.py:3-7): whenever an execution stands
\* at the queried address, the register holds what the engine answered, whatever
\* path led there and however often loops were taken.
NeverGuess ==
    (Running /\ cpu.block = query.block /\ cpu.pc = query.index)
      => Denotes(answer, cpu.machine.regs[query.reg])

=============================================================================
