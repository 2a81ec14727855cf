--------------------------------- MODULE Cpu ---------------------------------
(****************************************************************************)
(* The processor the analysed function runs on: what the instructions do,   *)
(* as opposed to what the engines make of them.  It is not part of the      *)
(* repository; it is the semantics the analyser's answers are about.        *)
(*                                                                          *)
(* A machine word is a pair [base, off]: an opaque quantity plus a constant.*)
(* Plain numbers have base <<"int", 0>>, the argument <<"arg", 0>>, the     *)
(* result of the call at ea <<"ret", ea>>, and anything else is Junk, which *)
(* no answer of the analyser denotes.  Branches and conditions are free.    *)
(****************************************************************************)
EXTENDS Instructions

CONSTANTS
    Cells,     \* the stack cells a function touches, as offsets from entry esp
    FpOffset,  \* where the frame pointer points, on the same scale
    Loaded     \* loaded address -> integer stored there in the database

ASSUME CellsAssumption == Cells \subseteq Int /\ FpOffset \in Int

Word(base, n) == [base |-> base, off |-> n % Modulus[WordSize]]
Num(n) == Word(<<"int", 0>>, n)
Junk   == Word(<<"junk", 0>>, 0)
Plus(w, n) == Word(w.base, w.off + n)

\* The words a value of the lattice stands for.
Denotes(v, w) ==
    CASE v.tag = "Concrete" -> w = Num(v.value)
      [] v.tag = "Symbolic" -> w = Word(v.expr, 0)
      [] v.tag = "MemoryRef" -> v.content.tag = "Concrete" => w = Num(v.content.value)
      [] OTHER -> TRUE

\* The instructions of a function, and the operands one writes.
InstructionsOf(p) == UNION {{p.code[b][n] : n \in DOMAIN p.code[b]} : b \in p.blocks}
Written(i) == {n \in DOMAIN i.ops : i.ops[n].written}

Narrow == DOMAIN SubRegister
WholeReg == Reg \ Narrow

\* A machine at function entry, with the argument in register arg.  A memory
\* cell is named by the word that is its address; mem holds those written so far.
EntryMachine(arg) ==
    [regs |-> [r \in Reg |-> IF r = arg THEN Word(<<"arg", 0>>, 0) ELSE Junk],
     mem  |-> <<>>]

StackCell(n) == [base |-> <<"stack", 0>>, off |-> n]

\* A cell never written holds what the database holds at its address.
Content(m, c) ==
    IF c \in DOMAIN m.mem THEN m.mem[c]
    ELSE IF c.base = <<"int", 0>> /\ c.off \in DOMAIN Loaded THEN Num(Loaded[c.off])
    ELSE Junk

\* The cells an operand may access; {} when its segment base is unknown.
CellsOf(m, i, op) ==
    IF op.seg THEN {}
    ELSE IF ~IsBased(op) THEN {Num(op.imm)}
    ELSE IF op.reg \notin {SpReg, FpReg}
      THEN IF op.index THEN DOMAIN m.mem ELSE {Plus(m.regs[op.reg], op.disp)}
    ELSE IF op.index \/ (op.reg = SpReg /\ i.delta = <<>>) THEN {StackCell(n) : n \in Cells}
    ELSE {StackCell(op.disp + IF op.reg = SpReg THEN i.delta[1] ELSE FpOffset)}

\* The words an operand may hold.
Reads(m, i, op) ==
    CASE IsReg(op) -> {m.regs[op.reg]}
      [] IsImm(op) -> {Num(op.imm)}
      [] IsMem(op) /\ CellsOf(m, i, op) # {} -> {Content(m, c) : c \in CellsOf(m, i, op)}
      [] OTHER -> {Junk}

\* Writing a register destroys the others that share bits with it.
SetRegister(m, r, w) ==
    LET parent(q) == IF q \in Narrow THEN SubRegister[q].parent ELSE q
        overlaps(q) == parent(q) = parent(r) /\ ~(q \in Narrow /\ r \in Narrow)
    IN  [m EXCEPT !.regs = [q \in Reg |-> IF q = r THEN w
                                          ELSE IF overlaps(q) THEN Junk ELSE @[q]]]

SetCell(m, c, w) ==
    [m EXCEPT !.mem = [x \in DOMAIN @ \cup {c} |-> IF x = c THEN w ELSE @[x]]]

\* The machines a write of w to the operand may lead to.
Writes(m, i, op, w) ==
    CASE IsReg(op) -> {SetRegister(m, op.reg, w)}
      [] IsMem(op) /\ CellsOf(m, i, op) # {} -> {SetCell(m, c, w) : c \in CellsOf(m, i, op)}
      [] OTHER -> {m}

Assign(m, i, op, words) == UNION {Writes(m, i, op, w) : w \in words}

Scramble(m, regs) ==
    [m EXCEPT !.regs = [r \in Reg |->
        IF r \in regs \/ (r \in Narrow /\ SubRegister[r].parent \in regs) THEN Junk ELSE @[r]]]

\* The address a lea computes.
EffectiveAddress(m, op) ==
    CASE op.kind = "MEM_DIRECT" -> Num(op.imm)
      [] IsBased(op) /\ ~op.index -> Plus(m.regs[op.reg], op.disp)
      [] OTHER -> Junk

Arithmetic(m, i, dst, src) ==
    CASE i.mnem \in {"add", "sub"} /\ IsReg(dst) /\ IsImm(src) ->
            {Plus(w, IF i.mnem = "add" THEN src.imm ELSE -src.imm) : w \in Reads(m, i, dst)}
      [] i.mnem \in {"xor", "sub"} /\ IsReg(dst) /\ IsReg(src) /\ dst.reg = src.reg ->
            {Num(0)}
      [] OTHER -> {Junk}

\* An instruction the analyser does not know: anything may end up where it writes.
Unforeseen(m, i) ==
    LET written == {i.ops[n] : n \in {k \in DOMAIN i.ops : i.ops[k].written}}
        regs  == {RegisterView(op.reg, op.size).parent : op \in {o \in written : IsReg(o)}}
        cells == UNION {CellsOf(m, i, op) : op \in {o \in written : IsMem(o)}}
    IN  [Scramble(m, i.implicit \cup regs) EXCEPT
            !.mem = [c \in DOMAIN @ \cup cells |-> IF c \in cells THEN Junk ELSE @[c]]]

\* The machines one instruction may lead to.
Execute(i, m) ==
    LET dst == i.ops[1]
        src == i.ops[2]
        moved == Assign(m, i, dst, Reads(m, i, src))
    IN  CASE i.mnem \in Moves -> moved
          [] i.mnem = "lea"   -> Writes(m, i, dst, EffectiveAddress(m, src))
          [] i.mnem = "cmov"  -> {m} \cup moved
          [] i.mnem = "xchg"  ->
                UNION {Assign(n, i, src, Reads(m, i, dst)) : n \in moved}
          [] i.mnem \in {"add", "sub", "xor"} ->
                Assign(m, i, dst, Arithmetic(m, i, dst, src))
          [] i.mnem = "push"  ->
                {SetCell(m, StackCell(i.delta[1] - WordSize), w) : w \in Reads(m, i, dst)}
          [] i.mnem = "call"  ->
                {SetRegister(Scramble(m, Clobbered), RetReg, Word(<<"ret", i.ea>>, 0))}
          [] i.mnem = "jmp"   -> {m}
          [] i.mnem = "other" -> {Unforeseen(m, i)}

=============================================================================
