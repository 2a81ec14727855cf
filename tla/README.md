# A TLA+ model of IDAnalysister

IDAnalysister is a static-analysis library for IDA Pro. Asked for the arguments
of a call, or for the value an argument still has at some address of its
function, it walks the function's control-flow graph and answers with a value
or with `Unknown(reason)`. Its central promise is *never guess*: a known answer
holds on every execution. The modules here model the two engines that have to
keep that promise, check it against executions on a small processor, and prove
it of both engines for functions of any size, within stated limits. They model
the two layers around the engines as well: the extraction of a function's call
sites, as a refinement of what the library promises its caller, and the session
whose caches stand between the engines and a database that changes.

Paths below are relative to `src/src/idanalysister/` unless they start with
`document/`, `tests/` or `README` (then to `src/`).

## Contents

1. Inventory of the system
2. Plan
3. The modules and the code they model
4. The runs, their bounds, and what they show
5. The proofs
6. What the code and its documents disagree about
7. Abstractions, and what is not modelled

## 1. Inventory of the system

Everything runs in one thread, inside IDA, in synchronous calls. There are no
messages, no locks, and nothing persisted. What is hard here is not
interleaving but *graphs*: fixpoints over cyclic control flow, recursion that
must end, partial overwrites of registers and memory, values that reach a join
from several sides, bounds that stop a walk half way, and caches that outlive
the database they were filled from.

| Component | State | Operations | Used by |
|---|---|---|---|
| Value lattice, join (`core/values.py`, `diagnostics.py`, `merge.py`) | none (frozen values) | `join`, `join_all`, `is_known` | both engines |
| Instruction model (`core/insn_model.py`, `ida_types.py`) | none | `is_written`, `is_pure_definition_of`, `register_view` | engines, locators |
| Locators and registry (`locators/`) | list sorted by priority | `register`, `match`, per locator `matches` / `extract` / `apply_forward` | both engines |
| Forward engine (`core/engine_forward.py`, `state.py`) | worklist, in-states, out-states, visit counts, instruction count | `resolve_at` | facade |
| Backward resolver (`core/engine_backward.py`, `cfg_model.py`) | call stack, budget, the visited blocks of a path; caches of functions and flow charts | `resolve_register`, `resolve_memory`, `resolve_at_instruction`, `dereference`, `collect_push_sequence` | facade, locators |
| Instruction cache (`core/insn_cache.py`) | two bounded LRU maps | `get`, `code_refs_to`, `invalidate` | both engines |
| Extraction facade (`api/`) | the objects above, per session | `extract_calls`, `resolve_argument_at` | plugins, scripts |
| Calling conventions (`conventions/`) | none | `slots`, inference of convention and argument count | facade |
| Post-processors (`postproc/`) | none | a chain of processors over a resolved value | facade |
| IDA adapter (`adapters/ida_port_impl.py`) | none | decoding, flow charts, prototypes, memory reads | everything |
| Operand decoding (`adapters/ida_operand_decode.py`) | none | SIB and REX decoding, sign extension, narrowing | adapter |
| Hex-Rays backend (`adapters/`) | lazily found decompiler | an argument from microcode | facade, as a fallback |
| Types, configuration, errors, logging | none | records | everything |
| Plugin and examples | none | calls of the facade | users |

How they interact: the facade asks the convention where the argument lives
and the backward resolver (or the forward engine) what is there. The resolver
asks the instruction cache for instructions, the registry for the locator of a
defining instruction, and the locator calls the resolver back with the question
whose answer it needs, under the same budget. Both engines join the values of
several paths with the same lattice. A value the resolver does not know may be
asked of the decompiler; a known one may go through the post-processor chain.

What is hard, and what would make each component correct (the full list, with
lines, is under `hazards` in `PROJECT.json`):

- **Lattice and join.** `join_all` must not depend on the order of the
  predecessors, and once paths disagreed no later path may revive a value.
- **Forward engine.** A revisited block must be scheduled whenever one of its
  inputs changed; in-states may only lose information, or the walk would not
  end; a bound that cuts the walk must not leave an answer behind; every
  instruction form must drop what it may have changed (narrow registers, calls,
  read-modify-write, stores through unknown addresses).
- **Backward resolver.** A path that closes a cycle carries no information, but
  must not hide a definition on another path; a memory cell written on some
  paths only has neither the written nor the database's value; the budget is
  shared by nested queries and must fail closed; two sentinels travel where
  values travel and must not escape.
- **Instruction cache.** No answer may be older than the last invalidation of
  its address; a hit is a use; an entry evicted in the middle of a scan must come
  back the same; a cached failure is an answer like any other.
- **Locator registry.** Which locator answers must follow from priorities and
  the order of registration alone, also when another one raises.
- **Facade, conventions, push scan.** One failing call site must not lose the
  others, nor leave half an answer; an argument index must name the slot the
  callee reads, also when the scan was cut at one of its two caps or a prototype
  lists only some of the arguments; the decompiler may fill gaps, for the site and
  index it was asked about, and nothing else.
- **Operand decoding.** The decoded base, index and displacement are those the
  processor uses for each of the 256 SIB bytes under each REX prefix.

## 2. Plan

In the order of importance. The first block is built; the rest extends it.
`Extraction` composes `Conventions`, `CallStack` (which is `PushSequence` and the
processor's stack) and `PostProcessing`; `Session` composes `OperandDecode` and
`PushSequence`. Neither contains the engines: what the resolver answers is a
free choice in the first, and the registers it walks for are in the second.

Built:

1. `ValueLattice`, `MergePaths`: the lattice, and `join_all` as the loop the
   code runs against the closed form the other modules use.
2. `Instructions`, `ForwardTransfer`, `ForwardEngine`: the worklist fixpoint.
3. `Cpu`, `ForwardSoundness`: the fixpoint composed with executions.
4. `BackwardDefinitions`, `BackwardResolver`, `BackwardSoundness`: the backward
   walk, and the walk composed with executions.
5. Proofs about each of these components, in the eight `*_proofs` modules of
   section 5: every invariant and safety property the passing runs check of the code
   (four of them, `AnswersFromFixpoint`, `RightWord` and both engines' `NeverGuess`,
   under hypotheses), and the safety part of both refinements.

6. `Conventions`, `PushSequence`, `CallStack`, `PostProcessing`, `Extraction`:
   one request to the facade, with the pushes it counts compared to the stack the
   processor has at the call, and `ReportPromise`, the abstract specification it
   implements.
7. `OperandDecode`, `Session`: the session's caches, the push scan as the loop it
   is, and the locator registry, over a database that changes between calls, and
   `StaleReads`, the abstract specification of reading through caches.

Next, models:

8. The backward resolver on functions whose entry block is a loop header, on
   `ah`/`al`, and with implicit writes (each refutes `NeverGuess`, and wants a run
   of its own).
9. A common abstract specification of the two engines, "a query is answered once,
   with a value or a reason".

Next, proofs:

10. `RightWord` for callers whose jumps lead over pushes consistently, and
    `WithinApproximations` from the text of a function (no sum of what is no number), so
    that `BackwardNeverGuesses` would need one hypothesis fewer.

## 3. The modules and the code they model

| Module | Models | State and actions |
|---|---|---|
| `ValueLattice` | `core/values.py`, `diagnostics.py`, `merge.py` | operators: the values, `Join`, `JoinOver` (closed form of `join_all`) |
| `MergePaths` | `merge.py` `join_all` | the loop: `acc`, next path; `Merge` |
| `Instructions` | `insn_model.py`, `register_view`, `wrap_to_width`, `LocatorRegistry.match` over the default registry | operators; constants for the registers of a processor |
| `ForwardTransfer` | `state.py`, the `apply_forward` of every built-in locator, `_apply_instruction_effect` and its memory handling | `StepEffect(i, s)`, the state after one instruction |
| `ForwardEngine` | `engine_forward.py` `resolve_at` | one action per outcome of a loop iteration and one per simulated instruction |
| `Cpu` | the processor (external) | `Execute(i, m)`: the machines an instruction may lead to; `Denotes(v, w)` |
| `ForwardSoundness` | engine and processor | the engine answers, then any path is executed; `Supported(p, q)`, what the engine takes for granted of a function |
| `BackwardDefinitions` | `_match_register_definition`, `_match_memory_definition`, `_memory_location`, `_interpret_definition`, the `extract` of every built-in locator | operators: does the instruction define the key, and which question yields its value |
| `BackwardResolver` | `engine_backward.py`: the three queries, both walks, `dereference`, `ResolutionBudget` | the recursion as an explicit stack; one action per call, return, block and instruction |
| `BackwardSoundness` | resolver and processor | as above; `Supported(p, q)`, what the resolver takes for granted of a function, and `WithinApproximations`, what it takes for granted of the values it meets |
| `Conventions` | `conventions/`, the custom declarations of `config/schema.py`, which arguments `get_prototype` leaves out | operators: `Slots(c, n)`, `SlotsRaise`, `Infer` |
| `PushSequence` | `collect_push_sequence`, in closed form | operators: `PushSequence(caller)`, `PushAt` |
| `CallStack` | the processor's stack (external) | `StacksAtCall(caller)`: the stacks with which control may arrive at the call |
| `PostProcessing` | `postproc/base.py`, `builtins.py` | operators: `Run(chain, v)`, one per built-in step |
| `Extraction` | `api/facade.py`: `extract_calls` and `resolve_argument_at` | one action per call, branch and exception of `_extract_one_call` |
| `ReportPromise` | nothing: the abstract specification of a request | `Report`, `Refuse`, `Complete` |
| `OperandDecode` | `ida_operand_decode.py`, `_convert_instruction`, `_convert_operand`; the encoder is external | operators: `DecodeAt(insn)` |
| `Session` | `insn_cache.py`, `LocatorRegistry`, the resolver's two caches, the loop of `collect_push_sequence`, the reads of a register walk | one action per call, scan round, read and return; the environment's `Edit` |
| `StaleReads` | nothing: the abstract specification of a caching reader | `Change`, `Forget`, `Read` |
| `Asm` | nothing: an assembler for instances | |
| `MC*` | nothing: instances | |
| `ValueLattice_proofs`, `MergePaths_proofs`, `ForwardEngine_proofs`, `ForwardSoundness_proofs`, `BackwardResolver_proofs`, `BackwardSoundness_proofs`, `Extraction_proofs`, `Session_proofs` | nothing: theorems and the lemmas they rest on | |

`ForwardEngine`, state by state: `worklist`, `inStates`, `outStates`, `visits`
and `used` are `worklist`, `in_states`, `out_states`, `visit_counts` and
`budget["instr"]`; `at`, `pc`, `st` are the locals of `_simulate_block`. The
loop body is split where a reader would put a breakpoint: `PassOn` is every
`continue`, `Enter` records the in-state and starts the simulation, `Step` is
one instruction, `Leave` stores the out-state and appends the successors,
`Exhaust` is the budget, `Finish` and `Answer` the final partial simulation.

`BackwardResolver`: `now` is the call about to be made or the value being
returned, and `stack` what is still to be done with it; `steps` and `blocks`
are the two counters of `ResolutionBudget`. `StartRegister`, `StartMemory`,
`StartInstruction` are the prologues of the three queries, `Look` one
instruction of either walk, `LeaveBlock` the move to the predecessors,
`CollectPath` the loop over them and the join, and the `Finish...` actions what
the code does after a nested call returned.

`Extraction`: the variables are the locals of the three functions of the call
chain (`convention`, `num_args`, `slots`, `pushes`, `raw`, `source`, `arguments`,
`call_sites`); `hexrays` is the pair `hexrays_tried`, `hexrays_args`, and `engine`
a history of what the resolver answered before any fallback. A slot is
`ResolveSlot`, `Fallback`, `PostProcess`; `ResolverRaises` is the exception that
`_extract_one_call_safe` turns into a site of Unknowns. `Promise` maps a request
to an outcome and its report so far.

`Session`: `insns` and `xrefs` are the two `OrderedDict`s, `funcs` and `charts` the
resolver's `_func_cache` and `_cfg_cache`, `registry` the sorted list of locators.
`scan` holds the locals of `collect_push_sequence` (and, in a register query, of the
walk). `ExtractCalls` reads the references, `BeginScan`, `ScanStep` and `EndScan` are
the loop, `Interpret` one `resolve_at_instruction`. `Edit` is the user's change of the
database; it happens only between calls, because a call blocks IDA's main thread.
`seen`, `recent`, `registered`, `named` and `reply` are histories for the properties.

## 4. The runs, their bounds, and what they show

The engines' runs and `Extraction` use the registers `eax`, `ecx`, `esp`, `ebp` and `al` (the low byte of
`eax`) and scale the width of a word from 2^32 to 4 patterns and of a byte to 2.
An instance is not one function but a set of functions: `Init` picks one of all
combinations of instructions from a palette in the first three blocks of some
control-flow shapes.

| Run | Question | Result |
|---|---|---|
| `MergePaths` | every sequence of up to three values of every shape | the loop computes the closed form, knows only what all paths agree on, and is order-independent |
| `ForwardEngine` | six shapes, eight instructions, small bounds | types; no edge forgotten; in-states descend; an untouched argument survives; the final walk fits its budget; every query is answered |
| `ForwardSoundness` | nineteen instructions, three shapes, the code's bounds | never guesses, and reads its answer from a fixpoint |
| `BackwardResolver` | four shapes, eleven instructions, budgets that run out | types; sentinels; fails closed; recursion bounded; a definition before a loop is found; every query is answered |
| `BackwardSoundness` | three shapes, the adjustment and the other forms, four queries | never guesses, and meets neither of the two approximations |
| `Extraction` | every caller of four instructions out of seven kinds, longer ones with jumps, caps of 3 pushes and 2 skips; two call sites with raising resolver and fallback, four kinds of convention, chains of post-processors | the reported word is the one at its depth of the stack; the fallback fills gaps only; the first failure in a chain of post-processors is what is reported; prototypes with gaps do not shift; `ReportPromise` is kept, every request answered |
| `Session` | caches of 2 entries, 2 edits among up to 3 databases, up to 4 user locators, every base and index register, callers longer than the caps | caches are LRU; what they hold was decoded right; after invalidation the loop finds the closed form's pushes; the best locator answers; `StaleReads` is kept; every call returns |
| `ForwardEntryLoop`, `ForwardVisitCap`, `ForwardMemoryForms`, `BackwardAdjust`, `PushOtherBranch` | see section 6 | violated |

Why the bounds are enough. A join of two paths, a self loop, a two-block loop,
a join reached at different depths and from its own block, a loop at the entry and an unreachable block
are the ways flow can meet in these engines, because both look at one
block and its direct predecessors at a time; the shapes contain each, and three
free instruction positions let a value be defined, moved or destroyed, and used
in any order around them. The two engine runs use bounds that *do* run out
(8 instructions, 3 visits, widening after 2; 12 steps, 4 blocks), so that every
bound is hit in some function and missed in others. The soundness runs use
bounds that do not run out, since an exhausted answer is `Unknown` and says
nothing. A word of four patterns makes additions wrap within one or two loop
iterations. Counters grow only to their bound plus one.

The runs of soundness explore *every* execution of every function after the
answer is known: conditions are free, so loops run any number of times. The
processor keeps symbolic words (a base plus a constant): the incoming argument,
the result of a call, a plain number, or junk that no answer denotes.

`Extraction` picks one request of three kinds: 2 400 callers of one call site with
the right answers, to see where the words come from; two call sites whose resolver
may answer a value or an Unknown or raise at every slot, and a decompiler that may
know the first arguments, to see what is kept; `resolve_argument_at` with indices in
and out of range. The caps are small so that sequences are cut at each of them. Callers
jump forward only; a conditional jump may skip instructions that push nothing.

`Session` picks a world: the databases among which edits move, the locators the user
may register and the calls he may make. With two entries per cache every scan evicts
what it read before, in the middle of the loop. Two edits are enough for a database
to change and change back. Of the operands, one world each holds one: every base with
no index, every base with every index, negative and positive displacements, immediates
of every width; so each passes through encoding, decoding, the cache and the scan.
A word has 2^(n/2+1) patterns for n bytes: wide enough for two widths to differ.

Fairness. Each engine is one call that runs until it returns, and nothing can
preempt it: `WF_vars(Next)` says only that the thread is scheduled. With it
`Termination` is checked: every query is answered, also in functions with loops.
The same holds of `Extraction`, which is one call as well (`ReportPromise`'s
`Answered`). In `Session` only the steps of a call that has begun are fair
(`WF_vars(Internal)`); nobody has to call, edit or invalidate anything, and
`CallsReturn` says that a call that began ends. `CHECK_DEADLOCK FALSE` is set where a
call that returned stops; `Session` never stops and is checked for deadlock.

Each property has a mutant in `PROJECT.json`: a plausible mistake in the
modelled code that makes the run fail.

## 5. The proofs

Proved with TLAPS for every processor, function, query, request, database and
bound that satisfies the assumptions declared beside the constants. These say:

- `RegistersAssumption`, `WidthAssumption`: registers are what the adapter reports,
  a width has a number of bit patterns.
- `ProgramsAssumption`, `QueriesAssumption`: both directions of a flow chart describe
  the same edges, a query stands at an instruction of its block, and an instruction is
  one the adapter can report (`IsInstruction`: among other things an exchange has the
  two operands it swaps).
- `FeaturesAssumption`: the registers a supported instruction sets are operands marked
  as written (`MarksWrites`), as IDA's feature flags have it.
- `BoundsAssumption`, `BudgetAssumption`, `ScanAssumption`: the bounds are numbers; `ImageAssumption`: the
  database holds integers at integer addresses.
- `PathsAssumption`: a memory reference among the values joined is an address and a content.
- `CellsAssumption`: the cells and the frame pointer's depth are integers.
  `LoadedAssumption`: the memory the processor starts with is what the database holds,
  at addresses of a word's width.
- `RequestsAssumption`, `SessionAssumption`: requests and databases are well formed, the
  built-in locators come in the order of their priorities. `EncodingAssumption`: there are
  sixteen registers, and a narrower width's patterns divide the widest one's.

**Values.** `ValueLattice_proofs!JoinNeverGuesses`: a known result of `join_all` over
any number of paths is the value of each of them. (The module also has the facts about
remainders that the processor's wrapping arithmetic needs.) `MergePaths_proofs` ties the closed
form to the loop. `LoopComputesClosedForm` (`LoopIsJoinOver`) goes by `MergeInv`: at
each path the accumulator is the join of the paths so far. `NeverGuessesAShape`
(`KnownOnlyIfAllAgree`) and `OrderOfPathsDecidesNothing` (`OrderDecidesNothing`)
follow from it and
the closed form.

**Forward engine.**

- The transfer function: `StepEffectIsState`, the effect of every instruction on
  every state is a state; `StepEffectLeavesOthers`, it leaves alone what it does not
  write; `StepEffectBelow`, it is monotone. One lemma per locator each.
- `TypeCorrect` (`TypeOK`). `TypeOK` is strengthened to `TypeInv` by what its steps
  need: that the function and query are among the constants, that the worklist is a
  sequence of blocks, and that the query has a register in every phase after `start`.
- `FinalWalkNeverExhausts` (`FinalWalkFits`), from `BudgetInv`: every block that was
  entered, but for the one under simulation, fits the budget, and the final walk has
  used as much as it has advanced. So the budget check of the final walk
  (`core/engine_forward.py:151-155`) is dead code.
- `NoEdgeForgotten` (`UnsettledIsScheduled`): an edge whose source has been simulated is
  settled, scheduled, or given up on. The crux is that a join and a widening are
  covered by each of their inputs (`JoinStatesCovered`, `ComputedInCovered`), and that
  an in-state equal to the computed one is therefore settled for all its edges.
- `UncappedAnswersFromFixpoint` (`AnswersFromFixpoint`), from `NoEdgeForgotten` and the
  fact that the final walk starts with an empty worklist. It has one hypothesis, that no block
  was visited more than `MaxBlockVisits` times; without it the property is false
  (run `ForwardVisitCap`), which is why the statement is not that of the run.
- `UntouchedArgumentSurvives` (`UntouchedArgumentKept`), from `KeptInv`: every state of
  every phase knows the untouched register as the incoming argument.
- `InStatesDescend` (`OnlyLosesInformation`), from `DescendInv`. An in-state joined anew
  descends only if the out-states it is joined from have descended, and they only if
  the simulation is monotone: `DescendInv` says that an out-state is
  where its block's instructions lead from its in-state, that a block under simulation
  again is, instruction by instruction, at no more than it was the last time
  (`RunsInv`), and that what flows into a block is no more than it was entered with, as
  long as it is not widened (`FlowInv`). The step is
  `StepEffectBelow`, with joins and widening as greatest lower bounds (`JoinIsLower`,
  `JoinIsGreatest`, `WidenIsLower`).

Its soundness is `ForwardSoundness_proofs!ForwardNeverGuesses` (`NeverGuess`): a known
answer is what the register holds whenever an execution comes to the queried address.

- The step is `StepHolds`: if a state is true of a machine (`Holds`: every known register is
  a whole one and holds a word the value denotes, and so does the cell of every known
  slot), then `StepEffect` of the state is true of every machine `Execute` may lead to.
  It has one lemma per kind of instruction (`MoveKept` to `OtherKept`), each up to the
  registers that are written in part, which `KeptHolds` then forgets.
- The invariant is `EngineInv` and `CpuInv`. `EngineInv` adds to the invariants above that
  every block entered has ended (`EndedInv`), that the entry block was entered with no
  more than the argument (`EntryInv`), and that the final simulation repeats the last one
  of its block (`FinalInv`); so a known answer leaves behind a run of every block that was
  reached, one of which yields the answer, each starting with no more than any edge into
  it carries (`FixedInv`). `CpuInv` then walks the execution along these runs: it
  stands in a reached block, on a machine of which the state before the next instruction
  is true (`Standing`). A state that says less is true of at least as many machines
  (`HoldsBelow`), which carries it over an edge and through widening.
- The hypotheses are those of `Supported`, and that `max_block_visits` gave no block up. That
  nothing jumps to the first address, that every instruction is `Understood`, and the
  bound on visits are each needed: `ForwardEntryLoop`, `ForwardMemoryForms` and
  `ForwardVisitCap` are functions with just that missing. `SeparateCells` (no cell has two names, no
  push overwrites a named cell) is what the engine's two-key stack needs; section 6 has
  the functions that lack it. `MCForwardSoundness` assumes `Supported` of all functions
  and queries of the run, so TLC confirms that it is met, by every instruction form of the palette.

**Backward resolver.**

- `RecursionBounded` (`DepthWithinBudget`), from `DepthInv`: the stack grows by at most
  one frame, and only in an action that pays for it with a step or a block that was left.
- `SentinelsNeverEscape` (`SentinelsStayInWalks`), from `LinkInv`: below a frame that
  collects the paths of a walk lies the rest of the same walk or the query that started
  it, and no path of a register walk has reported "not found"; so whoever a sentinel
  is returned to expects it.
- `ExhaustionFailsClosed` (`FailsClosed`). The property is inductive given `DepthInv` and
  `LinkInv`: the action that exhausts the budget returns Unknown, and an Unknown on its
  way is handed on by every frame or kept among the results of a walk, whose join is
  Unknown whatever the other paths say and in whichever position it stands
  (`JoinKeepsUnknown`, `JoinPathsKeepsUnknown`).
- `TypeCorrect` (`TypeOK`), from `TypeInv`: what a locator asks next is a question about
  the same program point, with a register its instruction has as an operand
  (`InterpretIsTyped`, `LocatorShape`). This is where an exchange must have exactly two
  operands: the code takes "the other one".
- `DefinitionBeforeLoopIsFound` (`DefinedBeforeLoopResolves`), from `WalkInv`. A path that
  closes a cycle says nothing, so the constant is found only if *some* path of each join
  reaches the entry without closing one. `WalkInv` says so of every frame: its results are
  the constant or the sentinel, and if the entry can be met from its block without coming
  through the blocks visited so far, one path has found the constant or one still to be
  walked can meet it. "Can be met" (`Leads`) is stated with closed sets of blocks,
  which needs no induction along paths: a block from which the entry can be met has a
  predecessor from which it can be met without coming back (`WayBack`). The property
  needs what the proof turned up: every block without predecessors is the entry, the
  block of the query can be reached from it, and the load sets the whole register.

Its soundness is `BackwardSoundness_proofs!BackwardNeverGuesses` (`NeverGuess`): a known
answer is what the queried register, cell or pushed operand holds whenever an execution
comes to the query. A forward fixpoint leaves a state per program point behind, along
which an execution can be followed; a backward walk leaves only an answer. So the
proof says, of every question, which answers are right, and shows that each frame of
the stack turns right answers into right answers.

- *Executions as a set.* The query is answered before anything is executed, so what is
  right is said of `Reach(p)`: the places (block, position, machine) in every set that
  holds the start and is closed under execution. An induction along executions is then
  the choice of a set, and no history is needed (`ReachInduction`). `Before(p, b, n)` are the
  machines with which an execution may stand at an instruction.
- *Right answers to a question.* `RegOK`, `MemOK` and `PushOK`: a failure, or a value that
  the register, the cell or the operand holds on all machines `Before` the point.
- *Right answers of a walk.* A walk also answers with its sentinels, and with values that
  hold only if the blocks it came through (`V`) do not change them. `WalkOK` says so without
  following the recursion: there is a `Region`, a set of points with the walk's own in it,
  each of which is right behind an instruction that gives the value (`Gives`), or goes on
  to the points before it, or is the start of a block of `V`, where the cycle closes. The
  join of the paths of a block takes the union of their regions (`RegionsUnite`); a region of the
  outermost walk has no `V` left, so an execution that stands in it can only have come in
  through a definition (`WalkHolds`, by induction over `Reach`). This is where "a path
  that closes a cycle carries no information" (`engine_backward.py:255-261`) is justified,
  and where `NotFound` comes to mean that no store has touched the cell.
- *What a pass, and a definition, mean.* An instruction the walk passes leaves what is
  tracked alone on every machine (`QuietStep`); each locator's question, answered rightly
  and adjusted, yields what the instruction stores (`DefinitionIsRight`).
- *The stack.* `Link(p, f, B, A)`: frame `f` turns a value of `B` into the frame's own answers
  `A`; `Expects` chains the links down to the query; `OnTheWay`, the invariant, says that the
  call or value at hand is one the stack expects. There is one lemma per action.

The hypotheses. `Supported(p, q)` is about the text of the function: the first address is
not jumped to, instructions write what they name (`Understood`), stores go to a fixed address
or a known depth of the stack, stack and frame pointer are moved onto each other only, a
whole register or a cell does not take over a *part* of a register, and no cell of the stack
that is stored to has two names (`SeparateCells`). `WithinApproximations` is about the
values a query meets: nothing but numbers is added to (`AddSubRegImmLocator` passes on
anything else, run `BackwardAdjust`), and an address found in a register is not one the
function also stores to by name (`engine_backward.py:422-424`). Neither is empty: `MCBackwardSoundness`
assumes `Supported` of all functions and queries of the run but those that take a part of a
register for a whole, and the run `BackwardSoundness` checks `WithinApproximations` as an invariant, on functions
that do add, and that read through a constant address beside a store by name (`Named`).

**Facade.** `Extraction_proofs`:

- `FallbackOnlyFills` (`FallbackFillsGaps`), from `FallbackInv`: there is one answer of
  the resolver per argument, and one more while a slot is under way; the value at hand
  is that answer, or the decompiler's where the answer is Unknown; nothing is taken
  from a decompiler that was not asked. It uses no assumption about the requests.
- `FailureIsReported` (`FirstFailureStands`): what comes out of a chain of any length is
  the first failure in it, be it the raw value or a step's. `Run` is a recursive function;
  on every prefix of the chain it agrees with the run of the whole (`RunOfPrefix`), and what
  is Unknown after a step is so after every later one (`UnknownPasses`).
- `TypeCorrect` (`TypeOK`) and `DeclaredPlaces` (`GapsDoNotShift`, for prototypes of any
  length).
- `RightWordGoingStraight` (`RightWord`): the reported word is the one at its depth of the
  stack. It has a hypothesis, `StraightToCall`: no jump leads over a push the scan counts,
  and nothing behind one pops a word without naming the stack pointer. `RightWord` is false without it (run `PushOtherBranch`, and the `pop`s of
  section 6). The processor's half comes first: the stack at the call is the
  words pushed, in order.
- `RequestKeepsPromise` (`KeepsPromise`): the facade implements `ReportPromise` without its
  liveness, every action mapped to one of its actions or to a stutter.

**Session.** `Session_proofs`; the invariants are `SessionInv`, the conjunction of what the caches
hold (`DataInv`), what the call under way has read (`CallInv`) and the order of the
registry (`RegistryInv`), and `FreshInv` for scans on fresh caches:

- `DecodedAsEncoded`: what is decoded is what was encoded, for every encodable
  instruction (the SIB and REX arithmetic is `SibRoundTrip`).
- `TypeCorrect` (`TypeOK`), `LeastRecentlyUsedGoes` (`KeepsRecent`) and
  `CacheHoldsTheProgram` (`CachedIsTrue`), for caches of every size.
- `AnswersWithinBounds` (`StaleWithinBounds`): the session implements `StaleReads`.
- `FreshScanFinds` (`FreshScanIsRight`): the loop finds the closed form's pushes through
  any number of evictions.
- `RegistryChoosesBest` (`BestLocatorAnswers`), for every set and order of locators.

What stays with TLC:

- Liveness: `Termination` of both engines, `RequestAnswered`, `CallsReturn`. TLAPS has no
  proof rule here for fairness.
- `NeverGuess` where it does not follow from the hypotheses above: functions that move
  a part of a register into a whole one, which the run `BackwardSoundness` explores as well.
- `WithinApproximations`, which is no promise of the code but the second hypothesis of
  `BackwardNeverGuesses`; it holds of the run's functions, not of all.
- `AnswersFromFixpoint` as stated, where it depends on the code's visit bound being out
  of reach, and `RightWord` for callers with jumps, where TLC explores them all up to
  a length.
- Induction over data has no rule in the provers; where a proof needs one over the natural
  numbers it uses the set form `ValueLattice_proofs!Induction`. No module uses a RECURSIVE
  operator.

## 6. What the code and its documents disagree about

The five violated runs, each with one property and the line quoted in
`PROJECT.json` under `findings`:

- `ForwardEntryLoop`: the entry block is never joined with its predecessors, so
  a function whose first instruction is a loop target answers with the entry
  value inside and after the loop. The passing runs therefore ask soundness of
  functions whose entry is not jumped to.
- `ForwardVisitCap`: a block over `max_block_visits` is dropped silently and the
  answer is read from states that are no fixpoint, where an exhausted
  instruction budget answers `Unknown`.
- `ForwardMemoryForms`: `xchg [mem], reg` keeps the old value of `reg`, and
  `cmov reg, [mem]` joins with the value of the *base register*.
- `BackwardAdjust`: `add eax, 1` after a call resolves to the call's result. The
  passing run adjusts constants only (`Folding` in `MCBackwardSoundness`) and
  keeps adjustments of other values out of `Forms`. The proof excludes them with
  `WithinApproximations`.

- `PushOtherBranch`: for `cond ? f(a) : f(b)` with one call instruction the scan
  reports the push next to the call by address, on the path that does not execute it
  too. The passing run has jumps over instructions that push nothing only. The scan
  has the same trouble with `pop`, `leave` or `pushfd` between the pushes, which name
  no stack pointer among their operands; `RightWord` is false of such callers too, and
  the passing run has none.

Met on the way, without a run:

- An instruction no locator knows is classified by shape. One that writes a register without
  reading it, and has a memory operand, is taken for a load: after
  `imul eax, [ebp-8], 5` or `popcnt eax, [ebp-8]` the forward engine answers with the content of the
  slot (`engine_forward.py:338`); one that writes memory alone is taken for a store
  (`:320`, `movbe`). `Understood` excludes them; the proof of `StepHolds` turned them up.
- The backward width test compares sizes (`engine_backward.py:290-292`): asked for `al` after
  `mov eax, 0x1234`, the resolver answers `0x1234`, uncut, and asked for `ah` it
  takes a write to `al`. `Supported` admits queries of whole registers only.
- A `mov` of a whole register from a part of one, or a `push` of a part, cannot be
  answered by the part's value alone; `TakesWholeRegisters` excludes both.
- A stack cell has one key relative to `esp` and another relative to `ebp`
  (`engine_forward.py:377-380`), and a `push` is no store: a cell written under one name, or
  pushed over after the stack had shrunk, keeps its old value under the other
  (`SeparateCells`).
- A prototype with an argument of unsupported location *in the middle* loses its last
  argument: the inferred count is the number of locations left
  (`conventions/inference.py:39-41`), while the slots keep their indices
  (`GapsDoNotShift`).
- `document/user_manual.md:181-184` says that an index nothing was declared for raises
  `ConventionError` and "is caught immediately"; in `extract_calls` the exception is
  caught per site and reported as `INTERNAL_ERROR`, in `resolve_argument_at` it raises.
- `invalidate(None)`, which `core/insn_cache.py:48-49` recommends after a change of the
  database, leaves the resolver's caches of functions and flow charts alone: a
  walk may use a chart older than the invalidation. `StaleReads` promises nothing
  of these two kinds of key beyond the session, and nothing of two keys together.

## 7. Abstractions, and what is not modelled

- A program point is a block and a position; addresses do not matter otherwise.
  A symbolic expression is a pair, not a string; the wording of a `detail` is
  left out, its identity is kept, because states are compared with it.
- The adapter knows the stack, frame and return registers; the branches for a
  processor without them are left out. It knows the layout of every register, too; one for which
  `register_view` answers `None` (`engine_backward.py:282-287`, `engine_forward.py:235`)
  is compared by its number, like a whole register without parts, and has no branch of
  its own. An address that does not decode behaves like an instruction without operands.
- The size of a read is not modelled, and neither is the truncation or extension
  by a move between registers of different width, which
  `locators/register_locators.py:24-27` documents as out of scope: the processor
  of `Cpu` passes the value of the source on as well.
- Memory named relative to a general register is matched by that register and
  its displacement (`document/architecture.md`, section 6: "a documented
  approximation"); the soundness palettes contain no store through a general
  register. A call is assumed to leave its caller's stack cells alone, as the code
  does. A `push` is not seen as a store by the memory walk; palettes put pushes
  after the loads.
- An instruction of mnemonic `other` may leave anything in what it writes (`Unforeseen`): in
  the parents of the registers marked as written, in every cell a written memory operand
  may access, and in its implicit registers.
- Registers an instruction writes without naming them are in the instruction
  model (`implicit`) and executed by `Cpu`, but no passing palette has one: both
  engines are blind to them (`core/insn_model.py:74`).
- In `Extraction` the resolver, the forward engine and the decompiler may answer
  anything among the request's answers, and the first two may raise. `label` is left out; names of
  registers are the registers, a name the processor lacks is any other string. What
  the processor's stack holds is the history of who pushed each word, not its value.
- In `Session` register queries read the instructions of their block, then of any other
  block of the chart up to the budget; what they conclude is `BackwardResolver`'s. The pushes
  found are all interpreted, oldest first; the facade asks for those it needs, by slot.
  A locator is the mnemonics it accepts, raises on, or cannot interpret. An operand
  knows whether it is written, not whether it is read. A direct memory operand has no
  index register (`adapters/ida_port_impl.py:510` would lose it), and there are no
  segment overrides.
- A tail jump counts as a call site in the adapter; `CallStack` is about calls. Every jump
  ends the scan for pushes, as `core/insn_model.py:90-94` says of the adapter's flag.
- Not modelled, and why: the extension points (abstract signatures without an
  implementation), the IDA adapter beyond register views, decoding and prototypes
  (calls of a closed SDK, whose answers are the models' inputs), the Hex-Rays
  backend's scan of the microcode, the post-processors' name registry, the test
  double of the adapter, argument types, errors and logging (no state that changes),
  the plugin and examples (call the facade only). Planned but not yet written:
  items 8 and 9 of section 2.
