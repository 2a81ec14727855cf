--------------------------- MODULE BackwardResolver ---------------------------
(****************************************************************************)
(* BackwardResolver (core/engine_backward.py): one top-level query, answered *)
(* by walking the control-flow graph backward from a program point to the   *)
(* definitions that reach it, under one budget of steps and blocks shared   *)
(* by everything the query leads to.                                        *)
(*                                                                          *)
(* The recursion of the code is a stack of frames: what is still to be done *)
(* with the value that comes back.  `now` is the call about to be made, or  *)
(* the value being returned.  A walk over a function without a flow chart   *)
(* (_walk_register_linear, _walk_memory_linear) is the walk of its only     *)
(* block.                                                                   *)
(****************************************************************************)
EXTENDS BackwardDefinitions

CONSTANTS
    Block,      \* start addresses of basic blocks
    Programs,   \* the functions analysed
    Queries,    \* the questions asked of them
    Image,      \* loaded address -> integer stored there in the database
    MaxSteps,   \* max_steps, 200 in the code
    MaxBlocks   \* max_blocks, 64

\* A function, entered at block entry; owned says whether the database knows the function at all.
IsProgram(p) ==
    /\ p.blocks \subseteq Block /\ p.entry \in p.blocks
    /\ p.owned \in BOOLEAN
    /\ \A b \in p.blocks :
         /\ \A n \in DOMAIN p.code[b] : IsInstruction(p.code[b][n])
         /\ p.code[b] \in Seq({p.code[b][n] : n \in DOMAIN p.code[b]})
         /\ p.pred[b] \in Seq(p.blocks)

\* resolve_register(reg), resolve_memory(base, disp), resolve_at_instruction():
\* the three public queries, at a program point.
IsQuery(q) ==
    /\ q.do \in {"register", "memory", "instruction"}
    /\ q.block \in Block /\ q.pc \in Nat \ {0}
    /\ q.do = "register" => q.reg \in Reg \cup {NoReg}
    /\ q.do = "memory" => q.base \in Reg \cup {NoReg} /\ q.disp \in Int

ASSUME ProgramsAssumption == \A p \in Programs : IsProgram(p)
ASSUME QueriesAssumption ==
    \A q \in Queries :
       /\ IsQuery(q)
       /\ \A p \in Programs : q.block \in p.blocks /\ q.pc <= Len(p.code[q.block])
ASSUME BudgetAssumption == MaxSteps \in Nat /\ MaxBlocks \in Nat
ASSUME ImageAssumption == DOMAIN Image \subseteq Int /\ \A a \in DOMAIN Image : Image[a] \in Int

VARIABLES
    prog,   \* the function being walked
    query,  \* what was asked
    now,    \* the call about to be made, or the value being returned
    stack,  \* who is waiting for it, the last first
    steps,  \* steps_used
    blocks  \* blocks_used

vars == <<prog, query, now, stack, steps, blocks>>

\* The sentinels of the walk; neither is a value.
Cycle    == [tag |-> "Cycle"]
NotFound == [tag |-> "NotFound"]

Init ==
    /\ prog \in Programs
    /\ query \in Queries
    /\ now = query
    /\ stack = <<>>
    /\ steps = 0 /\ blocks = 0

-----------------------------------------------------------------------------
InsnAt(b, n) == prog.code[b][n]

Scan(key, b, n, visited) ==
    [do |-> "scan", key |-> key, block |-> b, pc |-> n, visited |-> visited]

\* Mutant of ScanWhole: starts one past the last instruction.
ScanWhole_PastEnd(key, b, visited) == Scan(key, b, Len(prog.code[b]) + 1, visited)

\* The walk of block b from its end.
ScanWhole(key, b, visited) == Scan(key, b, Len(prog.code[b]), visited)

\* ResolutionBudget.step and step_block; a count past the bound says no more
\* than the bound plus one.
StepLeft  == steps < MaxSteps
BlockLeft == blocks < MaxBlocks
UseStep  == steps' = IF steps > MaxSteps THEN steps ELSE steps + 1
UseBlock == blocks' = IF blocks > MaxBlocks THEN blocks ELSE blocks + 1

CallWith(next, frames) == now' = next /\ stack' = frames \o stack
Return(v)          == now' = Returning(v) /\ UNCHANGED stack
OutOfBudget        == Return(Unknown("BUDGET_EXCEEDED"))
Same               == UNCHANGED <<prog, query>>

-----------------------------------------------------------------------------
\* Mutant of StartRegister: a nested query gets a budget of its own.
StartRegister_FreshBudget ==
    /\ now.do = "register"
    /\ IF now.reg = NoReg
         THEN Return(Unknown("UNSUPPORTED_OPERAND_SHAPE")) /\ UNCHANGED <<steps, blocks>>
         ELSE /\ steps' = 1 /\ blocks' = 0
              /\ IF ~prog.owned THEN Return(Unknown("NO_DEFINITION_FOUND"))
                 ELSE CallWith(Scan(RegisterKey(now.reg), now.block, now.pc - 1, {}),
                               <<[for |-> "register"]>>)
    /\ Same

\* _resolve_register_impl, up to the walk it starts.
StartRegister ==
    /\ now.do = "register"
    /\ IF now.reg = NoReg
         THEN Return(Unknown("UNSUPPORTED_OPERAND_SHAPE")) /\ UNCHANGED steps
         ELSE /\ UseStep
              /\ IF ~StepLeft THEN OutOfBudget
                 ELSE IF ~prog.owned THEN Return(Unknown("NO_DEFINITION_FOUND"))
                 ELSE CallWith(Scan(RegisterKey(now.reg), now.block, now.pc - 1, {}),
                           <<[for |-> "register"]>>)
    /\ UNCHANGED blocks /\ Same

\* _resolve_memory_impl, up to the walk it starts.
StartMemory ==
    /\ now.do = "memory"
    /\ UseStep
    /\ LET cell == Location(InsnAt(now.block, now.pc), now.base, now.disp)
           frame == [for |-> "memory", base |-> now.base, disp |-> now.disp,
                     block |-> now.block, pc |-> now.pc]
       IN  IF ~StepLeft THEN OutOfBudget
           ELSE IF ~prog.owned THEN CallWith(Returning(NotFound), <<frame>>)
           ELSE CallWith(Scan(MemoryKey(cell), now.block, now.pc - 1, {}), <<frame>>)
    /\ UNCHANGED blocks /\ Same

\* _resolve_at_instruction_impl
StartInstruction ==
    /\ now.do = "instruction"
    /\ UseStep
    /\ LET i == InsnAt(now.block, now.pc)
       IN  IF ~StepLeft THEN OutOfBudget
           ELSE CallWith(Interpret(i, 1, now.block, now.pc), Adjustment(i))
    /\ UNCHANGED blocks /\ Same

\* One instruction of a walk.
Look ==
    /\ now.do = "scan" /\ now.pc > 0
    /\ UseStep
    /\ LET i == InsnAt(now.block, now.pc)
           found == Match(i, now.key)
       IN  IF ~StepLeft THEN OutOfBudget
           ELSE IF found.is = "pass"
             THEN now' = [now EXCEPT !.pc = @ - 1] /\ UNCHANGED stack
           ELSE IF found.is = "stop" THEN Return(Unknown(found.reason))
           ELSE CallWith(Interpret(i, found.operand, now.block, now.pc), Adjustment(i))
    /\ UNCHANGED blocks /\ Same

\* A walk that found nothing before the start of its block goes on in the
\* predecessors, unless it came through this block before.
LeaveBlock ==
    /\ now.do = "scan" /\ now.pc = 0
    /\ LET b == now.block
           visited == now.visited \cup {b}
       IN  IF b \in now.visited THEN Return(Cycle) /\ UNCHANGED blocks
           ELSE IF prog.pred[b] = <<>>
             THEN /\ Return(IF now.key.of = "register" THEN Unknown("NO_DEFINITION_FOUND")
                                                       ELSE NotFound)
                  /\ UNCHANGED blocks
           ELSE /\ UseBlock
                /\ IF ~BlockLeft THEN OutOfBudget
                   ELSE CallWith(ScanWhole(now.key, prog.pred[b][1], visited),
                             <<[for |-> "preds", key |-> now.key, block |-> b,
                                visited |-> visited, results |-> <<>>]>>)
    /\ UNCHANGED steps /\ Same

\* dereference
Dereference ==
    /\ now.do = "dereference"
    /\ UseStep
    /\ IF ~StepLeft THEN OutOfBudget
       ELSE Return(MemoryRef(now.addr,
                     IF now.addr \in DOMAIN Image THEN Concrete(Image[now.addr], "INT")
                     ELSE Unknown("MEMORY_READ_FAILED")))
    /\ UNCHANGED blocks /\ Same

-----------------------------------------------------------------------------
\* A value comes back to the frame on top.
Waiting(for) == now.do = "return" /\ stack # <<>> /\ Head(stack).for = for

\* Mutant of JoinPaths: a path that leads back into the loop counts as Unknown.
JoinPaths_CycleUnknown(results) ==
    JoinOver(DOMAIN results, [n \in DOMAIN results |->
        IF results[n] \in {Cycle, NotFound} THEN Unknown("NO_DEFINITION_FOUND")
                                             ELSE results[n]])

\* The join at the end of _walk_register_block and _walk_memory_block: paths
\* that closed a cycle carry no information, and a memory cell must have been
\* written on all of the others or on none.
JoinPaths(results) ==
    LET informative == {n \in DOMAIN results : results[n] # Cycle}
        found == {n \in informative : results[n] # NotFound}
    IN  IF informative = {} THEN Cycle
        ELSE IF found = {} THEN NotFound
        ELSE IF found # informative THEN Unknown("DIVERGENT_PATHS")
        ELSE JoinOver(found, results)

\* Mutant of CollectPath: the budget running out on one path ends that path only.
CollectPath_ForgiveBudget ==
    /\ Waiting("preds")
    /\ LET f == Head(stack)
           v == IF now.value = Unknown("BUDGET_EXCEEDED") THEN Cycle ELSE now.value
           results == Append(f.results, v)
           preds == prog.pred[f.block]
       IN  IF Len(results) < Len(preds)
             THEN /\ now' = ScanWhole(f.key, preds[Len(results) + 1], f.visited)
                  /\ stack' = <<[f EXCEPT !.results = results]>> \o Tail(stack)
             ELSE now' = Returning(JoinPaths(results)) /\ stack' = Tail(stack)
    /\ UNCHANGED <<steps, blocks>> /\ Same

\* Mutant of CollectPath: walks the first predecessor over and over.
CollectPath_SamePath ==
    /\ Waiting("preds")
    /\ LET f == Head(stack)
           preds == prog.pred[f.block]
       IN  IF Len(preds) > 1
             THEN now' = ScanWhole(f.key, preds[1], f.visited) /\ UNCHANGED stack
             ELSE /\ now' = Returning(JoinPaths(<<now.value>>))
                  /\ stack' = Tail(stack)
    /\ UNCHANGED <<steps, blocks>> /\ Same

\* One predecessor has been walked: the next one, or the join.
CollectPath ==
    /\ Waiting("preds")
    /\ LET f == Head(stack)
           results == Append(f.results, now.value)
           preds == prog.pred[f.block]
       IN  IF Len(results) < Len(preds)
             THEN /\ now' = ScanWhole(f.key, preds[Len(results) + 1], f.visited)
                  /\ stack' = <<[f EXCEPT !.results = results]>> \o Tail(stack)
             ELSE now' = Returning(JoinPaths(results)) /\ stack' = Tail(stack)
    /\ UNCHANGED <<steps, blocks>> /\ Same

\* Mutant of FinishRegister: hands the walk's result on as it is.
FinishRegister_KeepCycle ==
    /\ Waiting("register")
    /\ now' = now /\ stack' = Tail(stack)
    /\ UNCHANGED <<steps, blocks>> /\ Same

FinishRegister ==
    /\ Waiting("register")
    /\ now' = Returning(IF now.value = Cycle THEN Unknown("NO_DEFINITION_FOUND")
                                             ELSE now.value)
    /\ stack' = Tail(stack)
    /\ UNCHANGED <<steps, blocks>> /\ Same

\* Mutant of FinishMemory: an unwritten cell is read at its displacement,
\* whatever register that is relative to.
FinishMemory_ForgetBase ==
    /\ Waiting("memory")
    /\ now' = IF now.value \in {Cycle, NotFound}
                THEN [do |-> "dereference", addr |-> Head(stack).disp] ELSE now
    /\ stack' = Tail(stack)
    /\ UNCHANGED <<steps, blocks>> /\ Same

\* _fallback_dereference: without a write in the function, the cell holds what
\* the database holds at its address, if that can be resolved.
FinishMemory ==
    /\ Waiting("memory")
    /\ LET f == Head(stack)
       IN  IF now.value \notin {Cycle, NotFound}
             THEN now' = now /\ stack' = Tail(stack)
           ELSE IF f.base = NoReg
             THEN now' = [do |-> "dereference", addr |-> f.disp] /\ stack' = Tail(stack)
           ELSE /\ now' = ResolveRegister(f.base, f.block, f.pc)
                /\ stack' = <<[for |-> "base", disp |-> f.disp]>> \o Tail(stack)
    /\ UNCHANGED <<steps, blocks>> /\ Same

FinishBase ==
    /\ Waiting("base")
    /\ now' = IF now.value.tag = "Concrete"
                THEN [do |-> "dereference", addr |-> now.value.value + Head(stack).disp]
                ELSE Returning(Unknown("NO_DEFINITION_FOUND"))
    /\ stack' = Tail(stack)
    /\ UNCHANGED <<steps, blocks>> /\ Same

FinishLea ==
    /\ Waiting("lea")
    /\ now' = Returning(Adjusted(now.value, Head(stack).delta, Head(stack).size, "POINTER"))
    /\ stack' = Tail(stack)
    /\ UNCHANGED <<steps, blocks>> /\ Same

FinishAdd ==
    /\ Waiting("add")
    /\ now' = Returning(AddedTo(now.value, Head(stack).delta, Head(stack).size))
    /\ stack' = Tail(stack)
    /\ UNCHANGED <<steps, blocks>> /\ Same

Next == \/ StartRegister \/ StartMemory \/ StartInstruction
        \/ Look \/ LeaveBlock \/ Dereference
        \/ CollectPath \/ FinishRegister \/ FinishMemory \/ FinishBase
        \/ FinishLea \/ FinishAdd

\* A query is one call of one thread: it runs until it returns.
Spec == Init /\ [][Next]_vars /\ WF_vars(Next)

-----------------------------------------------------------------------------
(* Properties *)

Known   == Scalar \cup [tag : {"MemoryRef"}, addr : Int, content : Value]
Failure == [tag : {"Unknown"}, reason : Reason, detail : {<<>>} \cup (Known \X Known)]
Result  == Known \cup Failure

Answered  == now.do = "return" /\ stack = <<>>
Exhausted == steps > MaxSteps \/ blocks > MaxBlocks

IsKey(key) ==
    \/ key.of = "register" /\ key.reg \in Reg
    \/ key.of = "memory" /\ key.cell.off \in Int

IsFrame(f) ==
    CASE f.for = "register" -> TRUE
      [] f.for = "memory" -> /\ f.base \in Reg \cup {NoReg} /\ f.disp \in Int
                             /\ f.block \in prog.blocks
                             /\ f.pc \in 1..Len(prog.code[f.block])
      [] f.for = "preds"  -> /\ IsKey(f.key) /\ f.block \in f.visited
                             /\ f.visited \subseteq prog.blocks
                             /\ f.results \in Seq(Result \cup {Cycle, NotFound})
                             /\ Len(f.results) < Len(prog.pred[f.block])
      [] f.for = "base"   -> f.disp \in Int
      [] f.for \in {"lea", "add"} -> f.delta \in Int /\ f.size \in 0..8

\* Types: what is asked and returned, and what every waiting frame remembers.
TypeOK ==
    /\ \A n \in DOMAIN stack : IsFrame(stack[n])
    /\ steps \in 0..(MaxSteps + 1) /\ blocks \in 0..(MaxBlocks + 1)
    /\ now.do \in {"register", "memory", "instruction"} =>
         now.block \in prog.blocks /\ now.pc \in 1..Len(prog.code[now.block])
    /\ now.do = "scan" =>
         /\ IsKey(now.key) /\ now.visited \subseteq prog.blocks
         /\ now.block \in prog.blocks /\ now.pc \in 0..Len(prog.code[now.block])
    /\ now.do = "return" => now.value \in Result \cup {Cycle, NotFound}

\* "Treating it as Unknown ... returned as-is" (engine_backward.py:68-97): the
\* two sentinels are for the walk alone.  No locator, no base address and no
\* caller ever sees one, and a register walk never says "not found".
SentinelsStayInWalks ==
    now.do = "return" =>
      /\ now.value = Cycle => stack # <<>> /\ Head(stack).for \in {"register", "memory", "preds"}
      /\ now.value = NotFound =>
           /\ stack # <<>>
           /\ \/ Head(stack).for = "memory"
              \/ Head(stack).for = "preds" /\ Head(stack).key.of = "memory"

\* "this is what ... makes pathological CFGs fail closed" (architecture.md, 6.):
\* once the budget ran out anywhere below a query, its answer is Unknown, and
\* until then an Unknown that decides the answer is on its way to the caller.
FailsClosed ==
    Exhausted =>
      \/ now.do = "return" /\ now.value.tag = "Unknown"
      \/ \E n \in DOMAIN stack :
            /\ stack[n].for = "preds"
            /\ \E k \in DOMAIN stack[n].results : stack[n].results[k].tag = "Unknown"

\* The recursion of the code goes only as deep as the budget (ResolutionBudget,
\* engine_backward.py:103-120: "can never run unbounded").
DepthWithinBudget == Len(stack) <= steps + blocks

\* Walking backward from block b the function's entry can be met without coming
\* through a block of V: no set of blocks with b in it leaves the entry out and
\* holds all the predecessors of its blocks that are not in V.
Leads(b, V) ==
    /\ b \notin V
    /\ \A S \in SUBSET prog.blocks :
         (b \in S /\ \A s \in S : \A k \in DOMAIN prog.pred[s] : prog.pred[s][k] \in S \cup V)
           => prog.entry \in S

\* Instruction n of the entry is a constant load of all of register r, and no
\* other instruction writes any part of it.
Touches(i, r) == MatchRegister(i, r).is # "pass"
OnlySetAtEntry(r, n) ==
    /\ LocatorOf(prog.code[prog.entry][n]) = "mov_reg_imm"
    /\ MatchRegister(prog.code[prog.entry][n], r).is = "definition"
    /\ \A b \in prog.blocks : \A m \in DOMAIN prog.code[b] :
          Touches(prog.code[b][m], r) <=> <<b, m>> = <<prog.entry, n>>

\* A register is asked for at a point that is only reached through instruction
\* n of the entry: after it in the entry itself or in a block the entry leads
\* to, the entry being the only way into the function.
UsedAfter(n) ==
    /\ query.do = "register" /\ query.reg # NoReg /\ prog.owned
    /\ \A b \in prog.blocks : prog.pred[b] = <<>> => b = prog.entry
    /\ Leads(query.block, {})
    /\ query.block = prog.entry => n < query.pc

\* "a value set before a loop and used inside it" resolves
\* (engine_backward.py:82-92): if the only instruction that writes the register
\* is a constant load in the entry block, every later use sees that constant.
DefinedBeforeLoopResolves ==
    Answered /\ ~Exhausted =>
      \A n \in DOMAIN prog.code[prog.entry] :
        UsedAfter(n) /\ OnlySetAtEntry(query.reg, n)
          => now.value = Concrete(prog.code[prog.entry][n].ops[2].imm, "INT")

\* Every query is answered, however the function loops.
Termination == <>Answered

=============================================================================
