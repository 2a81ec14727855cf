---------------------------- MODULE ForwardEngine ----------------------------
(****************************************************************************)
(* ForwardSymbolicEngine.resolve_at (core/engine_forward.py): the bounded   *)
(* worklist fixpoint over a function's control-flow graph, then the partial *)
(* simulation of the target block that reads the answer.                    *)
(*                                                                          *)
(* The loop body of the source is cut at every instruction it simulates, so *)
(* that one step here applies one instruction.  The analyser is sequential: *)
(* exactly one action is enabled in every state but the last.               *)
(****************************************************************************)
EXTENDS ForwardTransfer

CONSTANTS
    Block,            \* start addresses of basic blocks
    NoBlock,          \* an address outside the function
    Programs,         \* the functions analysed
    Queries,          \* the questions asked: [reg, block, index]
    MaxInstructions,  \* max_instructions, 4000 in the code
    MaxBlockVisits,   \* max_block_visits, 64
    LoopWidenAfter    \* loop_widen_after, 3

\* A function: its blocks, the block of its first address, and for every block
\* the instructions, successors and predecessors the flow chart reports.
IsProgram(p) ==
    /\ p.blocks \subseteq Block
    /\ p.entry \in Block
    /\ \A b \in p.blocks :
         /\ \A n \in DOMAIN p.code[b] : IsInstruction(p.code[b][n])
         /\ p.code[b] \in Seq({p.code[b][n] : n \in DOMAIN p.code[b]})
         /\ p.succ[b] \in Seq(p.blocks)
         /\ p.pred[b] \in Seq(p.blocks)
    \* Both directions of the flow chart describe the same edges.
    /\ \A b, c \in p.blocks :
         (\E n \in DOMAIN p.succ[b] : p.succ[b][n] = c)
           <=> (\E n \in DOMAIN p.pred[c] : p.pred[c][n] = b)

ASSUME ProgramsAssumption == \A p \in Programs : IsProgram(p)

\* Its instructions are marked with what they write, as IDA marks them.
ASSUME FeaturesAssumption ==
    \A p \in Programs : \A b \in p.blocks : \A n \in DOMAIN p.code[b] : MarksWrites(p.code[b][n])

ASSUME QueriesAssumption ==
    /\ NoBlock \notin Block
    /\ Queries \subseteq [reg : Reg \cup {NoReg}, block : Block \cup {NoBlock},
                          index : Nat \ {0}]
    /\ \A p \in Programs, q \in Queries :
          q.block \in p.blocks => q.index <= Len(p.code[q.block])

ASSUME BoundsAssumption ==
    /\ MaxInstructions \in Nat
    /\ MaxBlockVisits \in Nat
    /\ LoopWidenAfter \in Nat

VARIABLES
    prog,       \* the function being analysed
    query,      \* the argument's register, and the address it is asked at
    phase,      \* where resolve_at is
    worklist,   \* block addresses still to visit, first in first out
    inStates,   \* block -> state it was last simulated from
    outStates,  \* block -> state that simulation ended in
    visits,     \* block -> how often it was popped
    used,       \* instructions simulated so far, of MaxInstructions
    at, pc, st, \* the simulation under way: block, next instruction, state
    answer      \* what resolve_at returned

vars == <<prog, query, phase, worklist, inStates, outStates, visits, used,
          at, pc, st, answer>>

Pending == Unknown("NO_DEFINITION_FOUND")

\* Only the query's register is known on entry: it holds the argument.
InitialState == SetReg(EmptyState, query.reg, Symbolic(<<"arg", 0>>))

Init ==
    /\ prog \in Programs
    /\ query \in Queries
    /\ phase = "start"
    /\ worklist = <<>>
    /\ inStates = <<>> /\ outStates = <<>>
    /\ visits = [b \in prog.blocks |-> 0]
    /\ used = 0
    /\ at = prog.entry /\ pc = 1 /\ st = EmptyState
    /\ answer = Pending

-----------------------------------------------------------------------------
Succs(b) == {prog.succ[b][n] : n \in DOMAIN prog.succ[b]}
Preds(b) == {prog.pred[b][n] : n \in DOMAIN prog.pred[b]}

\* The incoming edges of b, by position, whose source has been simulated.
Available(b) == {n \in DOMAIN prog.pred[b] : prog.pred[b][n] \in DOMAIN outStates}

\* _join_states over the states flowing in along the edges in I.
JoinStates(b, I) ==
    LET out(n) == outStates[prog.pred[b][n]]
    IN  [registers |-> [r \in UNION {DOMAIN out(n).registers : n \in I} |->
                          JoinOver(I, [n \in I |-> GetReg(out(n), r)])],
         stack |-> [k \in UNION {DOMAIN out(n).stack : n \in I} |->
                          JoinOver(I, [n \in I |-> GetSlot(out(n), k)])]]

\* Mutant of JoinedIn: the state of one predecessor instead of the join of all.
JoinedIn_LastOnly(b) ==
    IF b = prog.entry THEN InitialState
    ELSE JoinStates(b, {n \in Available(b) : \A m \in Available(b) : m <= n})

\* _join_predecessor_states: the entry block is entered by the caller only.
JoinedIn(b) ==
    IF b = prog.entry THEN InitialState ELSE JoinStates(b, Available(b))

\* Mutant of Widen: widening drops every location.
Widen_All(old, new) ==
    [registers |-> Put(old.registers, DOMAIN old.registers, Unknown("LOOP_NON_CONVERGENT")),
     stack |-> Put(old.stack, DOMAIN old.stack, Unknown("LOOP_NON_CONVERGENT"))]

Widen(old, new) ==
    LET keep(f, g, x) == IF Read(f, x) = Read(g, x) THEN Read(f, x)
                         ELSE Unknown("LOOP_NON_CONVERGENT")
    IN  [registers |-> [r \in DOMAIN old.registers \cup DOMAIN new.registers |->
                          keep(old.registers, new.registers, r)],
         stack |-> [k \in DOMAIN old.stack \cup DOMAIN new.stack |->
                          keep(old.stack, new.stack, k)]]

\* The state b would be simulated from on its next visit, the v-th.
ComputedIn(b, v) ==
    IF v > LoopWidenAfter /\ b \in DOMAIN inStates
      THEN Widen(inStates[b], JoinedIn(b)) ELSE JoinedIn(b)

\* What the loop does with the v-th visit of b: three ways to pass on.
Verdict(b, v) ==
    CASE v > MaxBlockVisits -> "over_visited"
      [] v <= MaxBlockVisits /\ b # prog.entry /\ Available(b) = {} -> "no_input"
      [] OTHER -> IF b \in DOMAIN inStates /\ inStates[b] = ComputedIn(b, v)
                    THEN "unchanged" ELSE "simulate"

\* The count matters only up to MaxBlockVisits + 1; kept finite there.
NextVisit(b) == IF visits[b] > MaxBlockVisits THEN visits[b] ELSE visits[b] + 1

-----------------------------------------------------------------------------
\* Questions answered without a walk.
Reject ==
    /\ phase = "start"
    /\ ~(query.reg # NoReg /\ {prog.entry, query.block} \subseteq prog.blocks)
    /\ phase' = "done"
    /\ answer' = Unknown(IF query.reg = NoReg THEN "UNSUPPORTED_OPERAND_SHAPE"
                                              ELSE "NO_DEFINITION_FOUND")
    /\ UNCHANGED <<prog, query, worklist, inStates, outStates, visits, used, at, pc, st>>

Seed ==
    /\ phase = "start"
    /\ query.reg # NoReg /\ {prog.entry, query.block} \subseteq prog.blocks
    /\ phase' = "loop"
    /\ worklist' = <<prog.entry>>
    /\ UNCHANGED <<prog, query, inStates, outStates, visits, used, at, pc, st, answer>>

\* Mutant of PassOn: looks at the head of the worklist without removing it.
PassOn_Peek ==
    /\ phase = "loop" /\ worklist # <<>>
    /\ LET b == Head(worklist)
           v == NextVisit(b)
       IN  /\ Verdict(b, v) # "simulate"
           /\ visits' = [visits EXCEPT ![b] = v]
    /\ UNCHANGED <<prog, query, phase, worklist, inStates, outStates, used, at, pc, st, answer>>

\* A popped block that is not simulated: over its bound, or nothing new.
PassOn ==
    /\ phase = "loop" /\ worklist # <<>>
    /\ LET b == Head(worklist)
           v == NextVisit(b)
       IN  /\ Verdict(b, v) # "simulate"
           /\ visits' = [visits EXCEPT ![b] = v]
    /\ worklist' = Tail(worklist)
    /\ UNCHANGED <<prog, query, phase, inStates, outStates, used, at, pc, st, answer>>

\* Mutant of Enter: resumes where the previous block stopped.
Enter_KeepPc ==
    /\ phase = "loop" /\ worklist # <<>>
    /\ LET b == Head(worklist)
           v == NextVisit(b)
       IN  /\ Verdict(b, v) = "simulate"
           /\ visits' = [visits EXCEPT ![b] = v]
           /\ inStates' = Put(inStates, {b}, ComputedIn(b, v))
           /\ at' = b /\ pc' = pc /\ st' = ComputedIn(b, v)
    /\ worklist' = Tail(worklist)
    /\ phase' = "simulate"
    /\ UNCHANGED <<prog, query, outStates, used, answer>>

Enter ==
    /\ phase = "loop" /\ worklist # <<>>
    /\ LET b == Head(worklist)
           v == NextVisit(b)
       IN  /\ Verdict(b, v) = "simulate"
           /\ visits' = [visits EXCEPT ![b] = v]
           /\ inStates' = Put(inStates, {b}, ComputedIn(b, v))
           /\ at' = b /\ pc' = 1 /\ st' = ComputedIn(b, v)
    /\ worklist' = Tail(worklist)
    /\ phase' = "simulate"
    /\ UNCHANGED <<prog, query, outStates, used, answer>>

\* Where the simulation under way ends: the block's end, or the target address.
Limit == IF phase = "finish" THEN query.index - 1 ELSE Len(prog.code[at])

Simulating == phase \in {"simulate", "finish"}

Step ==
    /\ Simulating /\ pc <= Limit /\ used < MaxInstructions
    /\ used' = used + 1
    /\ st' = StepEffect(prog.code[at][pc], st)
    /\ pc' = pc + 1
    /\ UNCHANGED <<prog, query, phase, worklist, inStates, outStates, visits, at, answer>>

\* The instruction budget runs out, in the loop or in the final simulation.
Exhaust ==
    /\ Simulating /\ pc <= Limit /\ used = MaxInstructions
    /\ outStates' = IF phase = "simulate" THEN Put(outStates, {at}, st) ELSE outStates
    /\ phase' = "done"
    /\ answer' = Unknown("BUDGET_EXCEEDED")
    /\ UNCHANGED <<prog, query, worklist, inStates, visits, used, at, pc, st>>

\* Mutant of Leave: successors are scheduled on a block's first visit only.
Leave_PushOnce ==
    /\ phase = "simulate" /\ pc > Limit
    /\ outStates' = Put(outStates, {at}, st)
    /\ worklist' = IF at \in DOMAIN outStates THEN worklist ELSE worklist \o prog.succ[at]
    /\ phase' = "loop"
    /\ UNCHANGED <<prog, query, inStates, visits, used, at, pc, st, answer>>

Leave ==
    /\ phase = "simulate" /\ pc > Limit
    /\ outStates' = Put(outStates, {at}, st)
    /\ worklist' = worklist \o prog.succ[at]
    /\ phase' = "loop"
    /\ UNCHANGED <<prog, query, inStates, visits, used, at, pc, st, answer>>

NotReached ==
    /\ phase = "loop" /\ worklist = <<>>
    /\ query.block \notin DOMAIN inStates
    /\ phase' = "done"
    /\ answer' = Unknown("NO_DEFINITION_FOUND")
    /\ UNCHANGED <<prog, query, worklist, inStates, outStates, visits, used, at, pc, st>>

\* Mutant of Finish: the final simulation shares the loop's budget.
Finish_SharedBudget ==
    /\ phase = "loop" /\ worklist = <<>>
    /\ query.block \in DOMAIN inStates
    /\ phase' = "finish"
    /\ at' = query.block /\ pc' = 1 /\ st' = inStates[query.block]
    /\ UNCHANGED <<prog, query, worklist, inStates, outStates, visits, used, answer>>

\* The final simulation starts over with a budget of its own.
Finish ==
    /\ phase = "loop" /\ worklist = <<>>
    /\ query.block \in DOMAIN inStates
    /\ phase' = "finish"
    /\ used' = 0
    /\ at' = query.block /\ pc' = 1 /\ st' = inStates[query.block]
    /\ UNCHANGED <<prog, query, worklist, inStates, outStates, visits, answer>>

Answer ==
    /\ phase = "finish" /\ pc > Limit
    /\ phase' = "done"
    /\ answer' = GetReg(st, query.reg)
    /\ UNCHANGED <<prog, query, worklist, inStates, outStates, visits, used, at, pc, st>>

Next == \/ Reject \/ Seed \/ PassOn \/ Enter \/ Step \/ Exhaust \/ Leave
        \/ NotReached \/ Finish \/ Answer

\* resolve_at is one call of one thread: it runs until it returns.
Spec == Init /\ [][Next]_vars /\ WF_vars(Next)

-----------------------------------------------------------------------------
(* Properties *)

\* Types, and the bounds on the counters: the worklist only ever names blocks
\* of the function and a simulation never runs past its block.
TypeOK ==
    /\ phase \in {"start", "loop", "simulate", "finish", "done"}
    /\ \A n \in DOMAIN worklist : worklist[n] \in prog.blocks
    /\ DOMAIN inStates \subseteq prog.blocks
    /\ DOMAIN outStates \subseteq prog.blocks
    /\ \A b \in DOMAIN inStates : IsState(inStates[b])
    /\ \A b \in DOMAIN outStates : IsState(outStates[b])
    /\ visits \in [prog.blocks -> 0..(MaxBlockVisits + 1)]
    /\ used \in 0..MaxInstructions
    /\ Simulating => at \in prog.blocks /\ pc \in 1..(Len(prog.code[at]) + 1)
    /\ IsState(st)
    /\ answer \in Value

\* Everything `in` claims to know, `out` knows too.
Covers(in, out) ==
    /\ \A r \in DOMAIN in.registers :
          IsKnown(in.registers[r]) => GetReg(out, r) = in.registers[r]
    /\ \A k \in DOMAIN in.stack :
          IsKnown(in.stack[k]) => GetSlot(out, k) = in.stack[k]

\* The edge from p to b needs no more work: what b was simulated from holds of
\* what p ended in, and p ended in what its last simulation computed.
EdgeSettled(p, b) == b \in DOMAIN inStates /\ Covers(inStates[b], outStates[p])

\* Work that is not done is scheduled: an edge whose source has been simulated
\* is settled, unless its target is on the worklist, was given up on at
\* max_block_visits, or is the entry block, whose in-state never changes.
\* (push of every successor, engine_forward.py:133-134, against the early
\* continues of lines 117-126.)
UnsettledIsScheduled ==
    phase # "done" =>
      \A p \in DOMAIN outStates : \A b \in Succs(p) :
        \/ EdgeSettled(p, b)
        \/ \E n \in DOMAIN worklist : worklist[n] = b
        \/ phase = "simulate" /\ at = p
        \/ visits[b] > MaxBlockVisits
        \/ b = prog.entry

\* "The fixpoint never converged ... Reporting a value derived from it would be
\* a guess dressed up as an answer" (engine_forward.py:137-140): a known answer
\* is only read from a fixpoint.
AnswersFromFixpoint ==
    phase = "finish" =>
      \A p \in DOMAIN outStates : \A b \in Succs(p) \ {prog.entry} : EdgeSettled(p, b)

\* What a block is entered with only ever loses information: a location that
\* became Unknown stays Unknown and a known value is never replaced by another
\* (join and widen descend; this is why the walk converges at all).
OnlyLosesInformation ==
    [][\A b \in DOMAIN inStates : Covers(inStates'[b], inStates[b])]_inStates

\* Widening and joining cost no precision where nothing happens: a register no
\* instruction of the function writes still holds the argument at the target.
WritesQueried(i) ==
    \/ i.mnem = "call" /\ query.reg \in Clobbered \cup {RetReg}
    \/ query.reg \in WrittenRegs(i) \cup PartiallyWritten(i)
UntouchedArgumentKept ==
    (phase = "done" /\ query.block \in DOMAIN inStates
       /\ \A b \in prog.blocks : \A n \in DOMAIN prog.code[b] :
             ~WritesQueried(prog.code[b][n]))
      => \/ answer = Symbolic(<<"arg", 0>>)
         \/ answer = Unknown("BUDGET_EXCEEDED")

\* The budget check of the final simulation (engine_forward.py:151-155) can
\* never fire: the target block was simulated whole within the same bound.
FinalWalkFits ==
    phase = "finish" => used + (Limit + 1 - pc) <= MaxInstructions

\* "guaranteeing termination" (engine_forward.py:19): every query is answered.
Termination == <>(phase = "done")

=============================================================================
