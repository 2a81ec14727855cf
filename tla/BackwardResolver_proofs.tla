----------------------- MODULE BackwardResolver_proofs -----------------------
(****************************************************************************)
(* Theorems about the backward resolver, for every set of functions and     *)
(* queries, every image of the database and every budget.                   *)
(****************************************************************************)
EXTENDS BackwardResolver, ValueLattice_proofs

-----------------------------------------------------------------------------
(* The call stack *)

\* A sequence, whatever its elements are.
IsSequence(s) == s \in Seq({s[n] : n \in DOMAIN s})

\* A sequence over some set is a sequence over its own elements.
LEMMA SequenceOfAnything ==
    ASSUME NEW T, NEW s \in Seq(T)
    PROVE  IsSequence(s)
  BY DEF IsSequence

\* The positions of a sequence are 1 to its length.
LEMMA Positions ==
    ASSUME NEW s, IsSequence(s)
    PROVE  DOMAIN s = 1..Len(s) /\ Len(s) \in Nat /\ DOMAIN s \subseteq Nat
  BY DEF IsSequence

\* The resolver begins with an empty Python stack.
LEMMA EmptyStack == IsSequence(<<>>) /\ Len(<<>>) = 0
<1>1. <<>> \in Seq({<<>>[n] : n \in DOMAIN <<>>})
  OBVIOUS
<1>2. Len(<<>>) = 0
  OBVIOUS
<1> QED
  BY <1>1, <1>2 DEF IsSequence

\* One frame more: the others keep their order, one place further down.
LEMMA Calling ==
    ASSUME NEW s, IsSequence(s), NEW f
    PROVE  /\ IsSequence(<<f>> \o s)
           /\ Len(<<f>> \o s) = Len(s) + 1
           /\ <<f>> \o s # <<>> /\ Head(<<f>> \o s) = f
           /\ (<<f>> \o s)[1] = f
           /\ \A n \in DOMAIN s : n + 1 \in DOMAIN (<<f>> \o s) /\ (<<f>> \o s)[n + 1] = s[n]
           /\ \A n \in DOMAIN (<<f>> \o s) : n = 1 \/ n - 1 \in DOMAIN s
<1> DEFINE T == {s[n] : n \in DOMAIN s} \cup {f}
<1>1. s \in Seq(T) /\ <<f>> \in Seq(T)
  BY DEF IsSequence
<1>2. <<f>> \o s \in Seq(T)
  BY <1>1
<1>3. IsSequence(<<f>> \o s)
  BY <1>2, SequenceOfAnything
<1> QED
  BY <1>1, <1>2, <1>3

\* A path's result appended to the ones collected so far.
LEMMA Appending ==
    ASSUME NEW s, IsSequence(s), NEW v
    PROVE  /\ IsSequence(Append(s, v))
           /\ \A k \in DOMAIN Append(s, v) :
                 Append(s, v)[k] = v \/ \E j \in DOMAIN s : Append(s, v)[k] = s[j]
           /\ \A j \in DOMAIN s : j \in DOMAIN Append(s, v) /\ Append(s, v)[j] = s[j]
           /\ \E k \in DOMAIN Append(s, v) : Append(s, v)[k] = v
<1> DEFINE T == {s[n] : n \in DOMAIN s} \cup {v}
<1>1. s \in Seq(T) /\ v \in T
  BY DEF IsSequence
<1>2. Append(s, v) \in Seq(T)
  BY <1>1
<1>3. IsSequence(Append(s, v))
  BY <1>2, SequenceOfAnything
<1>4. Len(s) + 1 \in DOMAIN Append(s, v) /\ Append(s, v)[Len(s) + 1] = v
  BY <1>1
<1> QED
  BY <1>1, <1>2, <1>3, <1>4

\* A call that pushes no frame leaves the stack as it is.
LEMMA NoCall ==
    ASSUME NEW s, IsSequence(s)
    PROVE  <<>> \o s = s
  BY DEF IsSequence

\* One frame less: the others keep their order, one place further up.
LEMMA Answering ==
    ASSUME NEW s, IsSequence(s), s # <<>>
    PROVE  /\ IsSequence(Tail(s))
           /\ Len(s) \in Nat /\ Len(s) >= 1 /\ Len(Tail(s)) = Len(s) - 1
           /\ Len(Tail(s)) \in Nat /\ Len(Tail(s)) <= Len(s)
           /\ Head(s) = s[1] /\ 1 \in DOMAIN s
           /\ \A n \in DOMAIN Tail(s) : n + 1 \in DOMAIN s /\ Tail(s)[n] = s[n + 1]
           /\ \A n \in DOMAIN s : n = 1 \/ n - 1 \in DOMAIN Tail(s)
<1> DEFINE T == {s[n] : n \in DOMAIN s}
<1>1. s \in Seq(T)
  BY DEF IsSequence
<1>2. Tail(s) \in Seq(T)
  BY <1>1
<1>3. IsSequence(Tail(s))
  BY <1>2, SequenceOfAnything
<1> QED
  BY <1>1, <1>2, <1>3

\* A locator asks for at most one thing to be done with the answer.
LEMMA OneAdjustment ==
    ASSUME NEW i
    PROVE  Adjustment(i) = <<>>
             \/ \E f : Adjustment(i) = <<f>> /\ f.for \in {"lea", "add"}
<1>1. CASE LocatorOf(i) = "lea_reg_displ"
  BY <1>1 DEF Adjustment
<1>2. CASE LocatorOf(i) = "add_sub_reg_imm"
  BY <1>2 DEF Adjustment
<1>3. CASE LocatorOf(i) \notin {"lea_reg_displ", "add_sub_reg_imm"}
  BY <1>3 DEF Adjustment
<1> QED
  BY <1>1, <1>2, <1>3

-----------------------------------------------------------------------------
(* The recursion is bounded by the budget *)

\* Every frame was paid for with a step or a block.
DepthInv ==
    /\ steps \in Nat /\ blocks \in Nat
    /\ IsSequence(stack)
    /\ Len(stack) <= steps + blocks

\* A query begins with an empty stack and nothing used.
LEMMA DepthInit == Init => DepthInv
  BY EmptyStack DEF Init, DepthInv

\* A call of at most one frame, paid for.
LEMMA PaidCall ==
    ASSUME DepthInv, NEW next, NEW frames,
           frames = <<>> \/ \E f : frames = <<f>>,
           CallWith(next, frames),
           \/ steps' = steps + 1 /\ blocks' = blocks
           \/ steps' = steps /\ blocks' = blocks + 1
    PROVE  DepthInv'
<1>1. IsSequence(stack) /\ Len(stack) \in Nat
  BY DEF DepthInv, IsSequence
<1>2. PICK later : stack' = later /\ later = frames \o stack
  BY DEF CallWith
<1>3. IsSequence(later) /\ Len(later) \in {Len(stack), Len(stack) + 1}
  <2>1. CASE frames = <<>>
    <3>1. later = stack
      BY <1>1, <1>2, <2>1, NoCall
    <3> QED
      BY <1>1, <3>1
  <2>2. CASE \E f : frames = <<f>>
    <3>1. PICK f : frames = <<f>>
      BY <2>2
    <3>2. IsSequence(<<f>> \o stack) /\ Len(<<f>> \o stack) = Len(stack) + 1
      BY <1>1, Calling
    <3> QED
      BY <1>2, <3>1, <3>2
  <2> QED
    BY <2>1, <2>2
<1>4. Len(later) <= steps' + blocks'
  <2>1. Len(stack) <= steps + blocks /\ steps \in Nat /\ blocks \in Nat
    BY DEF DepthInv
  <2>2. Len(later) <= Len(stack) + 1
    BY <1>1, <1>3
  <2> QED
    BY <1>1, <1>3, <2>1, <2>2
<1>5. IsSequence(stack)'
  BY <1>2, <1>3 DEF IsSequence
<1>6. Len(stack') <= steps' + blocks'
  BY <1>2, <1>4
<1> QED
  BY <1>5, <1>6 DEF DepthInv

\* Nothing is called, or a frame gives way to at most one other.
LEMMA NoDeeper ==
    ASSUME DepthInv,
           steps' \in {steps, steps + 1}, blocks' \in {blocks, blocks + 1},
           \/ stack' = stack
           \/ stack # <<>> /\ stack' = Tail(stack)
           \/ stack # <<>> /\ \E f : stack' = <<f>> \o Tail(stack)
    PROVE  DepthInv'
<1>1. IsSequence(stack) /\ Len(stack) \in Nat
  BY DEF DepthInv, IsSequence
<1>2. PICK later : stack' = later
  OBVIOUS
<1>3. IsSequence(later) /\ Len(later) \in Nat /\ Len(later) <= Len(stack)
  <2>1. CASE stack' = stack
    BY <1>1, <1>2, <2>1
  <2>2. CASE stack # <<>> /\ stack' = Tail(stack)
    <3>1. IsSequence(Tail(stack)) /\ Len(Tail(stack)) \in Nat /\ Len(Tail(stack)) <= Len(stack)
      BY <1>1, <2>2, Answering
    <3> QED
      BY <1>2, <2>2, <3>1
  <2>3. CASE stack # <<>> /\ \E f : stack' = <<f>> \o Tail(stack)
    <3>1. PICK f : stack' = <<f>> \o Tail(stack)
      BY <2>3
    <3>2. IsSequence(Tail(stack)) /\ Len(Tail(stack)) = Len(stack) - 1
      BY <1>1, <2>3, Answering
    <3>3. IsSequence(<<f>> \o Tail(stack)) /\ Len(<<f>> \o Tail(stack)) = Len(Tail(stack)) + 1
      BY <3>2, Calling
    <3>4. Len(<<f>> \o Tail(stack)) = Len(stack)
      BY <1>1, <3>2, <3>3
    <3> QED
      BY <1>1, <1>2, <3>1, <3>3, <3>4
  <2> QED
    BY <2>1, <2>2, <2>3
<1>4. IsSequence(stack)'
  BY <1>2, <1>3 DEF IsSequence
<1>5. Len(later) <= steps' + blocks'
  <2>1. Len(stack) <= steps + blocks /\ steps \in Nat /\ blocks \in Nat
    BY DEF DepthInv
  <2> QED
    BY <1>1, <1>3, <2>1
<1>6. Len(stack') <= steps' + blocks'
  BY <1>2, <1>5
<1> QED
  BY <1>4, <1>6 DEF DepthInv

\* No step puts more frames on the stack than it pays for.
LEMMA DepthNext == DepthInv /\ [Next]_vars => DepthInv'
<1> SUFFICES ASSUME DepthInv, [Next]_vars
             PROVE  DepthInv'
  OBVIOUS
<1> USE BudgetAssumption
<1>0. steps \in Nat /\ blocks \in Nat
  BY DEF DepthInv
<1>1. ASSUME UseStep
      PROVE  steps' \in {steps, steps + 1} /\ (StepLeft => steps' = steps + 1)
  BY <1>0, <1>1 DEF UseStep, StepLeft
<1>2. ASSUME UseBlock
      PROVE  blocks' \in {blocks, blocks + 1} /\ (BlockLeft => blocks' = blocks + 1)
  BY <1>0, <1>2 DEF UseBlock, BlockLeft
<1>3. CASE StartRegister
  <2>1. CASE now.reg = NoReg
    BY <1>0, <1>3, <2>1, NoDeeper DEF StartRegister, Return
  <2>2. CASE now.reg # NoReg
    <3>1. UseStep /\ blocks' = blocks
      BY <1>3, <2>2 DEF StartRegister
    <3>2. CASE ~StepLeft \/ ~prog.owned
      BY <1>0, <1>1, <1>3, <2>2, <3>1, <3>2, NoDeeper DEF StartRegister, Return, OutOfBudget
    <3>3. CASE StepLeft /\ prog.owned
      <4>1. CallWith(Scan(RegisterKey(now.reg), now.block, now.pc - 1, {}),
                     <<[for |-> "register"]>>)
        BY <1>3, <2>2, <3>3 DEF StartRegister
      <4> QED
        BY <1>0, <1>1, <3>1, <3>3, <4>1, PaidCall
    <3> QED
      BY <3>2, <3>3
  <2> QED
    BY <2>1, <2>2
<1>4. CASE StartMemory
  <2> DEFINE cell == Location(InsnAt(now.block, now.pc), now.base, now.disp)
             frame == [for |-> "memory", base |-> now.base, disp |-> now.disp,
                       block |-> now.block, pc |-> now.pc]
  <2>1. UseStep /\ blocks' = blocks
    BY <1>4 DEF StartMemory
  <2>2. CASE ~StepLeft
    BY <1>0, <1>1, <1>4, <2>1, <2>2, NoDeeper DEF StartMemory, Return, OutOfBudget
  <2>3. CASE StepLeft
    <3>1. \E next : CallWith(next, <<frame>>)
      BY <1>4, <2>3 DEF StartMemory
    <3> QED
      BY <1>0, <1>1, <2>1, <2>3, <3>1, PaidCall
  <2> QED
    BY <2>2, <2>3
<1>5. CASE StartInstruction
  <2> DEFINE i == InsnAt(now.block, now.pc)
  <2>1. UseStep /\ blocks' = blocks
    BY <1>5 DEF StartInstruction
  <2>2. CASE ~StepLeft
    BY <1>0, <1>1, <1>5, <2>1, <2>2, NoDeeper DEF StartInstruction, Return, OutOfBudget
  <2>3. CASE StepLeft
    <3>1. CallWith(Interpret(i, 1, now.block, now.pc), Adjustment(i))
      BY <1>5, <2>3 DEF StartInstruction
    <3>2. Adjustment(i) = <<>> \/ \E f : Adjustment(i) = <<f>>
      BY OneAdjustment
    <3> QED
      BY <1>0, <1>1, <2>1, <2>3, <3>1, <3>2, PaidCall
  <2> QED
    BY <2>2, <2>3
<1>6. CASE Look
  <2> DEFINE i == InsnAt(now.block, now.pc)
             found == Match(i, now.key)
  <2>1. UseStep /\ blocks' = blocks
    BY <1>6 DEF Look
  <2>2. CASE ~StepLeft \/ found.is \in {"pass", "stop"}
    BY <1>0, <1>1, <1>6, <2>1, <2>2, NoDeeper DEF Look, Return, OutOfBudget
  <2>3. CASE StepLeft /\ found.is \notin {"pass", "stop"}
    <3>1. CallWith(Interpret(i, found.operand, now.block, now.pc), Adjustment(i))
      BY <1>6, <2>3 DEF Look
    <3>2. Adjustment(i) = <<>> \/ \E f : Adjustment(i) = <<f>>
      BY OneAdjustment
    <3> QED
      BY <1>0, <1>1, <2>1, <2>3, <3>1, <3>2, PaidCall
  <2> QED
    BY <2>2, <2>3
<1>7. CASE LeaveBlock
  <2>1. steps' = steps
    BY <1>7 DEF LeaveBlock
  <2>2. CASE now.block \in now.visited \/ prog.pred[now.block] = <<>>
    BY <1>0, <1>7, <2>1, <2>2, NoDeeper DEF LeaveBlock, Return
  <2>3. CASE ~(now.block \in now.visited \/ prog.pred[now.block] = <<>>)
    <3>1. UseBlock
      BY <1>7, <2>3 DEF LeaveBlock
    <3>2. CASE ~BlockLeft
      BY <1>0, <1>2, <1>7, <2>1, <2>3, <3>1, <3>2, NoDeeper DEF LeaveBlock, Return, OutOfBudget
    <3>3. CASE BlockLeft
      <4>1. \E next, f : CallWith(next, <<f>>)
        BY <1>7, <2>3, <3>3 DEF LeaveBlock
      <4> QED
        BY <1>0, <1>2, <2>1, <3>1, <3>3, <4>1, PaidCall
    <3> QED
      BY <3>2, <3>3
  <2> QED
    BY <2>2, <2>3
<1>8. CASE Dereference
  BY <1>0, <1>1, <1>8, NoDeeper DEF Dereference, Return, OutOfBudget
<1>9. CASE CollectPath
  <2>1. stack # <<>> /\ steps' = steps /\ blocks' = blocks
    BY <1>9 DEF CollectPath, Waiting
  <2>2. stack' = Tail(stack) \/ \E f : stack' = <<f>> \o Tail(stack)
    BY <1>9 DEF CollectPath
  <2> QED
    BY <1>0, <2>1, <2>2, NoDeeper
<1>10. CASE FinishRegister \/ FinishBase \/ FinishLea \/ FinishAdd
  BY <1>0, <1>10, NoDeeper DEF FinishRegister, FinishBase, FinishLea, FinishAdd, Waiting
<1>11. CASE FinishMemory
  <2>1. stack # <<>> /\ steps' = steps /\ blocks' = blocks
    BY <1>11 DEF FinishMemory, Waiting
  <2>2. stack' = Tail(stack) \/ \E f : stack' = <<f>> \o Tail(stack)
    BY <1>11 DEF FinishMemory
  <2> QED
    BY <1>0, <2>1, <2>2, NoDeeper
<1>12. CASE UNCHANGED vars
  BY <1>12 DEF vars, DepthInv
<1> QED
  BY <1>3, <1>4, <1>5, <1>6, <1>7, <1>8, <1>9, <1>10, <1>11, <1>12 DEF Next

\* The recursion of resolve_register, resolve_memory and the locators is never
\* deeper than the steps and blocks the query has used (ResolutionBudget,
\* engine_backward.py:103-120), for every function and every budget.
THEOREM RecursionBounded == Spec => []DepthWithinBudget
<1>1. DepthInv => DepthWithinBudget
  BY DEF DepthInv, DepthWithinBudget
<1> QED
  BY <1>1, DepthInit, DepthNext, PTL DEF Spec

-----------------------------------------------------------------------------
(* The sentinels stay inside the walks *)

Sentinel == {Cycle, NotFound}

\* Whoever waits at position n of the stack is prepared for what a walk may say.
Awaits(s, n, key) ==
    /\ n \in DOMAIN s
    /\ key.of \in {"register", "memory"}
    /\ \/ s[n].for = key.of
       \/ s[n].for = "preds" /\ s[n].key.of = key.of

\* A frame that collects the paths of a walk has the rest of the walk, or the
\* query that started it, below it, and no register path found nothing.
Links(s, n) ==
    s[n].for = "preds" =>
      /\ Awaits(s, n + 1, s[n].key)
      /\ IsSequence(s[n].results)
      /\ s[n].key.of = "register" =>
           \A k \in DOMAIN s[n].results : s[n].results[k] # NotFound

Receives(s, v) ==
    /\ v = Cycle => s # <<>> /\ Head(s).for \in {"register", "memory", "preds"}
    /\ v = NotFound =>
         /\ s # <<>>
         /\ \/ Head(s).for = "memory"
            \/ Head(s).for = "preds" /\ Head(s).key.of = "memory"

\* The stack s fits what is about to happen.
Fits(s, next) ==
    /\ IsSequence(s)
    /\ \A n \in DOMAIN s : Links(s, n)
    /\ next.do = "scan" => Awaits(s, 1, next.key)
    /\ next.do = "return" => Receives(s, next.value)

LinkInv == Fits(stack, now)

\* A step whose outcome fits the stack it leaves preserves the invariant.
LEMMA FitsNext ==
    ASSUME NEW s, NEW next, stack' = s, now' = next, Fits(s, next)
    PROVE  LinkInv'
<1>1. IsSequence(stack)'
  BY DEF Fits, IsSequence
<1>2. ASSUME NEW n \in DOMAIN stack'
      PROVE  Links(stack, n)'
  <2>1. Links(s, n)
    BY DEF Fits
  <2> QED
    BY <2>1 DEF Links, Awaits, IsSequence
<1>3. now'.do = "scan" => Awaits(stack, 1, now.key)'
  BY DEF Fits, Awaits
<1>4. now'.do = "return" => Receives(stack, now.value)'
  BY DEF Fits, Receives, Cycle, NotFound
<1> QED
  BY <1>1, <1>2, <1>3, <1>4 DEF LinkInv, Fits

\* The frame on top changes, the rest stays.
LEMMA LinksBelow ==
    ASSUME NEW s, IsSequence(s), \A n \in DOMAIN s : Links(s, n), NEW f,
           f.for = "preds" =>
             /\ Awaits(s, 1, f.key)
             /\ IsSequence(f.results)
             /\ f.key.of = "register" => \A k \in DOMAIN f.results : f.results[k] # NotFound
    PROVE  IsSequence(<<f>> \o s) /\ \A n \in DOMAIN (<<f>> \o s) : Links(<<f>> \o s, n)
<1> DEFINE t == <<f>> \o s
<1>1. /\ IsSequence(t) /\ t[1] = f
      /\ \A n \in DOMAIN s : n + 1 \in DOMAIN t /\ t[n + 1] = s[n]
      /\ \A n \in DOMAIN t : n = 1 \/ n - 1 \in DOMAIN s
  BY Calling
<1>2. DOMAIN s \subseteq Nat /\ DOMAIN t \subseteq Nat
  BY <1>1, Positions
<1> HIDE DEF t
<1>3. ASSUME NEW n \in DOMAIN s, NEW key, Awaits(s, n, key)
      PROVE  Awaits(t, n + 1, key)
  BY <1>1, <1>3 DEF Awaits
<1>4. Links(t, 1)
  <2>1. CASE f.for = "preds"
    <3>1. 1 \in DOMAIN s /\ 1 + 1 = 2
      BY <2>1 DEF Awaits
    <3>2. Awaits(t, 2, f.key)
      BY <1>3, <2>1, <3>1
    <3> QED
      BY <1>1, <2>1, <3>1, <3>2 DEF Links
  <2>2. CASE f.for # "preds"
    BY <1>1, <2>2 DEF Links
  <2> QED
    BY <2>1, <2>2
<1>5. ASSUME NEW m \in DOMAIN s
      PROVE  Links(t, m + 1)
  <2>1. t[m + 1] = s[m] /\ m \in Nat
    BY <1>1, <1>2
  <2>2. CASE s[m].for = "preds"
    <3>1. Links(s, m)
      OBVIOUS
    <3>2. Awaits(s, m + 1, s[m].key) /\ m + 1 \in DOMAIN s
      BY <2>2, <3>1 DEF Links, Awaits
    <3>3. Awaits(t, (m + 1) + 1, s[m].key)
      BY <1>3, <3>2
    <3> QED
      BY <2>1, <2>2, <3>1, <3>3 DEF Links
  <2>3. CASE s[m].for # "preds"
    BY <2>1, <2>3 DEF Links
  <2> QED
    BY <2>2, <2>3
<1>6. ASSUME NEW n \in DOMAIN t, n # 1
      PROVE  Links(t, n)
  <2>1. n \in Nat /\ n - 1 \in DOMAIN s /\ (n - 1) + 1 = n
    BY <1>1, <1>2, <1>6
  <2> QED
    BY <1>5, <2>1
<1>7. \A n \in DOMAIN t : Links(t, n)
  BY <1>4, <1>6
<1> QED
  BY <1>1, <1>7 DEF t

\* What is below a frame is linked without it, and a join's frame is waited for.
LEMMA LinksAbove ==
    ASSUME NEW s, IsSequence(s), s # <<>>, \A n \in DOMAIN s : Links(s, n)
    PROVE  /\ IsSequence(Tail(s)) /\ \A n \in DOMAIN Tail(s) : Links(Tail(s), n)
           /\ Head(s).for = "preds" =>
                /\ Awaits(Tail(s), 1, Head(s).key)
                /\ IsSequence(Head(s).results)
                /\ Head(s).key.of = "register" =>
                     \A k \in DOMAIN Head(s).results : Head(s).results[k] # NotFound
<1> DEFINE t == Tail(s)
<1>1. /\ IsSequence(t) /\ Head(s) = s[1] /\ 1 \in DOMAIN s
      /\ \A n \in DOMAIN t : n + 1 \in DOMAIN s /\ t[n] = s[n + 1]
      /\ \A n \in DOMAIN s : n = 1 \/ n - 1 \in DOMAIN t
  BY Answering
<1> DEFINE top == Head(s)
<1> HIDE DEF t, top
<1>2. DOMAIN s \subseteq Nat /\ DOMAIN t \subseteq Nat
  BY <1>1, Positions
<1>3. ASSUME NEW n \in Nat, n > 0, NEW key, Awaits(s, n + 1, key)
      PROVE  Awaits(t, n, key)
  <2>1. n + 1 \in DOMAIN s /\ n + 1 # 1 /\ (n + 1) - 1 = n
    BY <1>3 DEF Awaits
  <2>2. n \in DOMAIN t /\ t[n] = s[n + 1]
    BY <1>1, <2>1
  <2> QED
    BY <1>3, <2>2 DEF Awaits
<1>4. ASSUME NEW n \in DOMAIN t
      PROVE  Links(t, n)
  <2>1. n + 1 \in DOMAIN s /\ t[n] = s[n + 1] /\ n \in Nat /\ n + 1 \in Nat /\ n + 1 > 0
    BY <1>1, <1>2
  <2>2. CASE t[n].for = "preds"
    <3>1. Links(s, n + 1)
      BY <2>1
    <3>2. Awaits(s, (n + 1) + 1, t[n].key)
      BY <2>1, <2>2, <3>1 DEF Links
    <3>3. Awaits(t, n + 1, t[n].key)
      BY <1>3, <2>1, <3>2
    <3> QED
      BY <2>1, <2>2, <3>1, <3>3 DEF Links
  <2>3. CASE t[n].for # "preds"
    BY <2>3 DEF Links
  <2> QED
    BY <2>2, <2>3
<1>5. ASSUME top.for = "preds"
      PROVE  /\ Awaits(t, 1, top.key)
             /\ IsSequence(top.results)
             /\ top.key.of = "register" =>
                  \A k \in DOMAIN top.results : top.results[k] # NotFound
  <2>1. Links(s, 1) /\ s[1] = top
    BY <1>1 DEF top
  <2>2. Awaits(s, 1 + 1, top.key)
    BY <1>5, <2>1 DEF Links
  <2>3. Awaits(t, 1, top.key)
    BY <1>3, <2>2
  <2> QED
    BY <1>5, <2>1, <2>3 DEF Links
<1> QED
  BY <1>1, <1>4, <1>5 DEF t, top

\* What a walk may say is received by whoever awaits it.
LEMMA AwaitedIsReceived ==
    ASSUME NEW s, IsSequence(s), NEW key, Awaits(s, 1, key), NEW v,
           v = NotFound => key.of = "memory"
    PROVE  Receives(s, v)
<1>1. s # <<>> /\ Head(s) = s[1]
  BY DEF Awaits, IsSequence
<1> QED
  BY <1>1 DEF Awaits, Receives

\* Every frame takes an answer that is no sentinel.
LEMMA OthersAreReceived ==
    ASSUME NEW s, NEW v, v \notin Sentinel
    PROVE  Receives(s, v)
  BY DEF Receives, Sentinel

-----------------------------------------------------------------------------
(* No value is a sentinel *)

\* A record with another tag is no sentinel.
LEMMA TagsTellApart ==
    ASSUME NEW v, v.tag \notin {"Cycle", "NotFound"}
    PROVE  v \notin Sentinel
  BY DEF Sentinel, Cycle, NotFound

\* unknown() never yields a sentinel ...
LEMMA UnknownIsNoSentinel ==
    ASSUME NEW r, NEW d
    PROVE  Because(r, d) \notin Sentinel /\ Unknown(r) \notin Sentinel
  BY TagsTellApart DEF Because, Unknown

\* ... and neither do the constructors of the other values.
LEMMA ValuesAreNoSentinels ==
    ASSUME NEW a, NEW b
    PROVE  /\ Concrete(a, b) \notin Sentinel /\ Symbolic(a) \notin Sentinel
           /\ MemoryRef(a, b) \notin Sentinel
  BY TagsTellApart DEF Concrete, Symbolic, MemoryRef

\* join() of two answers is an answer ...
LEMMA ScalarJoinIsNoSentinel ==
    ASSUME NEW a, a \notin Sentinel, NEW b, b \notin Sentinel
    PROVE  ScalarJoin(a, b) \notin Sentinel
<1>1. CASE IsUnknown(a)
  BY <1>1 DEF ScalarJoin
<1>2. CASE ~IsUnknown(a) /\ IsUnknown(b)
  BY <1>2 DEF ScalarJoin
<1>3. CASE ~IsUnknown(a) /\ ~IsUnknown(b) /\ Agrees(a, b)
  BY <1>3 DEF ScalarJoin
<1>4. CASE ~IsUnknown(a) /\ ~IsUnknown(b) /\ ~Agrees(a, b)
  BY <1>4, UnknownIsNoSentinel DEF ScalarJoin
<1> QED
  BY <1>1, <1>2, <1>3, <1>4

\* ... and so is join_all() of any paths' answers.
LEMMA JoinIsNoSentinel ==
    ASSUME NEW I \in SUBSET Nat, I # {}, NEW vs, \A i \in I : vs[i] \notin Sentinel
    PROVE  JoinOver(I, vs) \notin Sentinel
<1> DEFINE first == vs[Least(I)]
           other == {i \in I : ~SameCell(first, vs[i])}
           apart == {i \in I : ~Agrees(first, vs[i])}
<1>1. Least(I) \in I /\ first \notin Sentinel
  BY LeastIsLeast
<1>2. CASE first.tag # "MemoryRef"
  <2>1. JoinOver(I, vs) = ScalarJoinOver(I, vs)
    BY <1>2 DEF JoinOver
  <2>2. CASE apart = {}
    BY <1>1, <2>1, <2>2 DEF ScalarJoinOver
  <2>3. CASE apart # {}
    <3>1. Least(apart) \in apart
      BY <2>3, LeastIsLeast
    <3>2. ScalarJoinOver(I, vs) = ScalarJoin(first, vs[Least(apart)])
      BY <2>3 DEF ScalarJoinOver
    <3> QED
      BY <1>1, <2>1, <3>1, <3>2, ScalarJoinIsNoSentinel
  <2> QED
    BY <2>2, <2>3
<1>3. CASE first.tag = "MemoryRef" /\ other = {}
  <2>1. JoinOver(I, vs) = CellJoinOver(I, vs)
    BY <1>3 DEF JoinOver
  <2> QED
    BY <2>1, ValuesAreNoSentinels DEF CellJoinOver
<1>4. CASE first.tag = "MemoryRef" /\ other # {}
  <2> DEFINE j == Least(other)
             cell == CellJoinOver({i \in I : i < j}, vs)
  <2>1. j \in other
    BY <1>4, LeastIsLeast
  <2>2. JoinOver(I, vs) = ScalarJoin(cell, vs[j])
    BY <1>4 DEF JoinOver
  <2>3. cell \notin Sentinel
    BY ValuesAreNoSentinels DEF CellJoinOver
  <2> QED
    BY <2>1, <2>2, <2>3, ScalarJoinIsNoSentinel
<1> QED
  BY <1>2, <1>3, <1>4

\* The join of the paths says "not found" only if a path did.
LEMMA JoinPathsSays ==
    ASSUME NEW results, IsSequence(results), JoinPaths(results) = NotFound
    PROVE  \E n \in DOMAIN results : results[n] = NotFound
<1> DEFINE informative == {n \in DOMAIN results : results[n] # Cycle}
           found == {n \in informative : results[n] # NotFound}
<1>1. NotFound # Cycle
  BY DEF NotFound, Cycle
<1>2. informative # {}
  BY <1>1 DEF JoinPaths
<1>3. CASE found = {}
  BY <1>2, <1>3
<1>4. CASE found # {} /\ found # informative
  BY <1>4
<1>5. CASE found # {} /\ found = informative
  <2>1. JoinPaths(results) = JoinOver(found, results)
    BY <1>2, <1>5 DEF JoinPaths
  <2>2. found \in SUBSET Nat
    BY Positions
  <2>3. \A n \in found : results[n] \notin Sentinel
    BY DEF Sentinel
  <2> QED
    BY <1>5, <2>1, <2>2, <2>3, JoinIsNoSentinel DEF Sentinel
<1> QED
  BY <1>3, <1>4, <1>5

\* An adjusted answer is an answer.
LEMMA AdjustedIsNoSentinel ==
    ASSUME NEW v, v \notin Sentinel, NEW delta, NEW size, NEW kind
    PROVE  Adjusted(v, delta, size, kind) \notin Sentinel
<1>1. CASE v.tag = "Concrete"
  BY <1>1, ValuesAreNoSentinels DEF Adjusted
<1>2. CASE v.tag # "Concrete" /\ IsUnknown(v)
  BY <1>2 DEF Adjusted
<1>3. CASE v.tag # "Concrete" /\ ~IsUnknown(v)
  BY <1>3, UnknownIsNoSentinel DEF Adjusted
<1> QED
  BY <1>1, <1>2, <1>3

\* A locator answers with a value or asks one of the three questions.
Fair(next) == next.do # "scan" /\ (next.do = "return" => next.value \notin Sentinel)

\* The queries of a locator's context are queries, never a scan of a block.
LEMMA QuestionsAreFair ==
    ASSUME NEW a, NEW b, NEW c, NEW d
    PROVE  Fair(ResolveRegister(a, b, c)) /\ Fair(ResolveMemory(a, b, c, d))
  BY DEF Fair, ResolveRegister, ResolveMemory

\* An answer that is no sentinel may be returned by a locator.
LEMMA AnswersAreFair ==
    ASSUME NEW v, v \notin Sentinel
    PROVE  Fair(Returning(v))
  BY DEF Fair, Returning

\* load_memory_operand asks or answers fairly ...
LEMMA LoadIsFair ==
    ASSUME NEW op, NEW b, NEW n
    PROVE  Fair(LoadOperand(op, b, n))
  BY QuestionsAreFair, AnswersAreFair, UnknownIsNoSentinel DEF LoadOperand

\* ... and so does the interpretation of a push ...
LEMMA PushIsFair ==
    ASSUME NEW op, NEW b, NEW n
    PROVE  Fair(Pushed(op, b, n))
<1>1. CASE op.kind = "REG"
  BY <1>1, QuestionsAreFair DEF Pushed, IsReg, IsImm, IsMem
<1>2. CASE op.kind = "IMMEDIATE"
  BY <1>2, AnswersAreFair, ValuesAreNoSentinels DEF Pushed, IsReg, IsImm, IsMem
<1>3. CASE op.kind \in {"MEM_DIRECT", "MEM_PHRASE", "MEM_DISPL"}
  BY <1>3, LoadIsFair DEF Pushed, IsReg, IsImm, IsMem
<1>4. CASE op.kind \notin {"REG", "IMMEDIATE", "MEM_DIRECT", "MEM_PHRASE", "MEM_DISPL"}
  BY <1>4, AnswersAreFair, UnknownIsNoSentinel DEF Pushed, IsReg, IsImm, IsMem
<1> QED
  BY <1>1, <1>2, <1>3, <1>4

\* ... and of every instruction that any locator matches.
LEMMA InterpretIsFair ==
    ASSUME NEW i, NEW n, NEW b, NEW pc
    PROVE  Fair(Interpret(i, n, b, pc))
<1> DEFINE name == LocatorOf(i)
<1>1. CASE name \in {"mov_reg_reg", "mov_mem_reg", "lea_reg_displ", "add_sub_reg_imm",
                     "xchg_reg_reg"}
  BY <1>1, QuestionsAreFair DEF Interpret
<1>2. CASE name = "mov_reg_mem"
  BY <1>2, LoadIsFair DEF Interpret
<1>3. CASE name = "push"
  BY <1>3, PushIsFair DEF Interpret
<1>4. CASE name \in {"mov_reg_imm", "mov_mem_imm", "lea_reg_addr", "zero_idiom", "call_return"}
  BY <1>4, AnswersAreFair, ValuesAreNoSentinels DEF Interpret
<1>5. CASE name \notin {"mov_reg_reg", "mov_mem_reg", "lea_reg_displ", "add_sub_reg_imm",
                        "xchg_reg_reg", "mov_reg_mem", "push", "mov_reg_imm", "mov_mem_imm",
                        "lea_reg_addr", "zero_idiom", "call_return"}
  BY <1>5, AnswersAreFair, UnknownIsNoSentinel DEF Interpret
<1> QED
  BY <1>1, <1>2, <1>3, <1>4, <1>5

-----------------------------------------------------------------------------
(* Every step keeps the stack fitting *)

\* A query begins with an empty stack.
LEMMA LinkInit == Init => LinkInv
<1> SUFFICES ASSUME Init
             PROVE  LinkInv
  OBVIOUS
<1>1. now.do \in {"register", "memory", "instruction"}
  BY QueriesAssumption DEF Init, IsQuery
<1>2. IsSequence(stack)
  BY EmptyStack DEF Init
<1>3. DOMAIN stack = {}
  BY DEF Init
<1> QED
  BY <1>1, <1>2, <1>3 DEF LinkInv, Fits

\* The answer of a walk or a query goes to whoever is on top.
LEMMA ReturnFits ==
    ASSUME LinkInv, NEW v, now' = Returning(v), stack' = stack, Receives(stack, v)
    PROVE  LinkInv'
<1>1. Fits(stack, Returning(v))
  BY DEF LinkInv, Fits, Returning
<1>2. PICK s, next : stack' = s /\ now' = next /\ Fits(s, next)
  BY <1>1
<1> QED
  BY <1>2, FitsNext

\* Giving up fits every frame.
LEMMA UnknownFits ==
    ASSUME LinkInv, NEW r, Return(Unknown(r))
    PROVE  LinkInv'
  BY ReturnFits, OthersAreReceived, UnknownIsNoSentinel DEF Return

\* A call with one frame that awaits it.
LEMMA CallFits ==
    ASSUME LinkInv, NEW next, NEW f, CallWith(next, <<f>>),
           f.for = "preds" =>
             /\ Awaits(stack, 1, f.key)
             /\ IsSequence(f.results)
             /\ f.key.of = "register" => \A k \in DOMAIN f.results : f.results[k] # NotFound,
           next.do = "scan" =>
             /\ next.key.of \in {"register", "memory"}
             /\ \/ f.for = next.key.of
                \/ f.for = "preds" /\ f.key.of = next.key.of,
           next.do = "return" =>
             next.value # Cycle /\ (next.value = NotFound => f.for = "memory")
    PROVE  LinkInv'
<1> DEFINE s == <<f>> \o stack
<1>1. IsSequence(stack) /\ \A n \in DOMAIN stack : Links(stack, n)
  BY DEF LinkInv, Fits
<1>2. IsSequence(s) /\ \A n \in DOMAIN s : Links(s, n)
  BY <1>1, LinksBelow
<1>3. s # <<>> /\ Head(s) = f /\ s[1] = f
  BY <1>1, Calling
<1>4. stack' = s /\ now' = next
  BY DEF CallWith
<1> HIDE DEF s
<1>5. 1 \in DOMAIN s
  BY <1>2, <1>3 DEF IsSequence
<1>6. Fits(s, next)
  BY <1>2, <1>3, <1>5 DEF Fits, Awaits, Receives
<1> QED
  BY <1>4, <1>6, FitsNext

\* A locator's question or answer, with at most one adjustment waiting for it.
LEMMA LocatorFits ==
    ASSUME LinkInv, NEW next, Fair(next), NEW i, CallWith(next, Adjustment(i))
    PROVE  LinkInv'
<1>1. CASE Adjustment(i) = <<>>
  <2>1. IsSequence(stack)
    BY DEF LinkInv, Fits
  <2>2. stack' = stack /\ now' = next
    BY <1>1, <2>1, NoCall DEF CallWith
  <2>3. Fits(stack, next)
    BY OthersAreReceived DEF LinkInv, Fits, Fair
  <2>4. PICK s : stack' = s /\ Fits(s, next)
    BY <2>2, <2>3
  <2> QED
    BY <2>2, <2>4, FitsNext
<1>2. CASE \E f : Adjustment(i) = <<f>> /\ f.for \in {"lea", "add"}
  <2>1. PICK f : Adjustment(i) = <<f>> /\ f.for \in {"lea", "add"}
    BY <1>2
  <2> QED
    BY <2>1, CallFits DEF Fair, Sentinel
<1> QED
  BY <1>1, <1>2, OneAdjustment

\* The frame on top is answered and gives way.
LEMMA PopFits ==
    ASSUME LinkInv, stack # <<>>, stack' = Tail(stack), NEW next, now' = next, Fair(next)
    PROVE  LinkInv'
<1>1. IsSequence(stack) /\ \A n \in DOMAIN stack : Links(stack, n)
  BY DEF LinkInv, Fits
<1>2. IsSequence(Tail(stack)) /\ \A n \in DOMAIN Tail(stack) : Links(Tail(stack), n)
  BY <1>1, LinksAbove
<1>3. Fits(Tail(stack), next)
  BY <1>2, OthersAreReceived DEF Fits, Fair
<1> QED
  BY <1>3, FitsNext

\* What is returned to a frame that is no walk's is a value.
LEMMA ReceivedValue ==
    ASSUME LinkInv, now.do = "return", stack # <<>>
    PROVE  /\ Head(stack).for \in {"base", "lea", "add"} => now.value \notin Sentinel
           /\ Head(stack).for = "register" => now.value # NotFound
  BY DEF LinkInv, Fits, Receives, Sentinel

\* Beginning a query leaves a frame that takes what its walk may answer.
LEMMA StartsFit ==
    ASSUME LinkInv, StartRegister \/ StartMemory \/ StartInstruction
    PROVE  LinkInv'
<1>1. CASE StartRegister
  <2> DEFINE next == Scan(RegisterKey(now.reg), now.block, now.pc - 1, {})
             f == [for |-> "register"]
  <2>1. (\E r : Return(Unknown(r))) \/ CallWith(next, <<f>>)
    BY <1>1 DEF StartRegister, OutOfBudget
  <2>2. next.do = "scan" /\ next.key.of = "register" /\ f.for = "register"
    BY DEF Scan, RegisterKey
  <2> QED
    BY <2>1, <2>2, UnknownFits, CallFits
<1>2. CASE StartMemory
  <2> DEFINE cell == Location(InsnAt(now.block, now.pc), now.base, now.disp)
             next == Scan(MemoryKey(cell), now.block, now.pc - 1, {})
             f == [for |-> "memory", base |-> now.base, disp |-> now.disp,
                   block |-> now.block, pc |-> now.pc]
  <2>1. \/ \E r : Return(Unknown(r))
        \/ CallWith(Returning(NotFound), <<f>>)
        \/ CallWith(next, <<f>>)
    BY <1>2 DEF StartMemory, OutOfBudget
  <2>2. next.do = "scan" /\ next.key.of = "memory" /\ f.for = "memory"
    BY DEF Scan, MemoryKey
  <2>3. /\ Returning(NotFound).do = "return" /\ Returning(NotFound).value = NotFound
        /\ NotFound # Cycle
    BY DEF Returning, NotFound, Cycle
  <2> HIDE DEF next, f
  <2>4. CASE CallWith(Returning(NotFound), <<f>>)
    BY <2>2, <2>3, <2>4, CallFits
  <2>5. CASE CallWith(next, <<f>>)
    BY <2>2, <2>5, CallFits
  <2> QED
    BY <2>1, <2>4, <2>5, UnknownFits
<1>3. CASE StartInstruction
  <2> DEFINE i == InsnAt(now.block, now.pc)
  <2>1. \/ \E r : Return(Unknown(r))
        \/ CallWith(Interpret(i, 1, now.block, now.pc), Adjustment(i))
    BY <1>3 DEF StartInstruction, OutOfBudget
  <2> QED
    BY <2>1, UnknownFits, LocatorFits, InterpretIsFair
<1> QED
  BY <1>1, <1>2, <1>3

\* A step of the scan asks for nothing the frames below could not take.
LEMMA LookFits ==
    ASSUME LinkInv, Look
    PROVE  LinkInv'
<1> DEFINE i == InsnAt(now.block, now.pc)
           found == Match(i, now.key)
<1>1. \/ \E r : Return(Unknown(r))
      \/ now' = [now EXCEPT !.pc = @ - 1] /\ stack' = stack
      \/ CallWith(Interpret(i, found.operand, now.block, now.pc), Adjustment(i))
  BY DEF Look, OutOfBudget
<1>2. CASE now' = [now EXCEPT !.pc = @ - 1] /\ stack' = stack
  <2>1. PICK s, next : stack' = s /\ s = stack /\ now' = next /\ next = [now EXCEPT !.pc = @ - 1]
    BY <1>2
  <2>2. next.do = now.do /\ next.key = now.key /\ now.do = "scan"
    BY <2>1 DEF Look
  <2>3. Fits(s, next)
    BY <2>1, <2>2 DEF LinkInv, Fits
  <2> QED
    BY <2>1, <2>3, FitsNext
<1> QED
  BY <1>1, <1>2, UnknownFits, LocatorFits, InterpretIsFair

\* A block left at its top answers its waiting query, or opens its join.
LEMMA LeaveBlockFits ==
    ASSUME LinkInv, LeaveBlock
    PROVE  LinkInv'
<1> DEFINE visited == now.visited \cup {now.block}
           next == ScanWhole(now.key, prog.pred[now.block][1], visited)
           f == [for |-> "preds", key |-> now.key, block |-> now.block,
                 visited |-> visited, results |-> <<>>]
<1>1. now.do = "scan" /\ Awaits(stack, 1, now.key) /\ IsSequence(stack)
  BY DEF LeaveBlock, LinkInv, Fits
<1>2. now.key.of \in {"register", "memory"}
  BY <1>1 DEF Awaits
<1>3. \/ \E r : Return(Unknown(r))
      \/ Return(Cycle)
      \/ Return(NotFound) /\ now.key.of # "register"
      \/ CallWith(next, <<f>>)
  BY DEF LeaveBlock, OutOfBudget
<1>4. CASE Return(Cycle) \/ (Return(NotFound) /\ now.key.of # "register")
  <2>1. PICK v : Return(v) /\ (v = NotFound => now.key.of = "memory")
    BY <1>2, <1>4 DEF Cycle, NotFound
  <2>2. Receives(stack, v)
    BY <1>1, <2>1, AwaitedIsReceived
  <2> QED
    BY <2>1, <2>2, ReturnFits DEF Return
<1>5. CASE CallWith(next, <<f>>)
  <2>1. next.do = "scan" /\ next.key = now.key
    BY DEF ScanWhole, Scan
  <2>2. f.for = "preds" /\ f.key = now.key /\ f.results = <<>>
    OBVIOUS
  <2>3. IsSequence(f.results) /\ DOMAIN f.results = {}
    BY <2>2, EmptyStack
  <2> HIDE DEF next, f
  <2> QED
    BY <1>1, <1>2, <1>5, <2>1, <2>2, <2>3, CallFits
<1> QED
  BY <1>3, <1>4, <1>5, UnknownFits

\* The result of a path is collected, and the next path or the join goes on.
LEMMA CollectPathFits ==
    ASSUME LinkInv, CollectPath
    PROVE  LinkInv'
<1> DEFINE f == Head(stack)
           results == Append(f.results, now.value)
           preds == prog.pred[f.block]
           below == Tail(stack)
<1>1. now.do = "return" /\ stack # <<>> /\ f.for = "preds"
  BY DEF CollectPath, Waiting
<1>2. IsSequence(stack) /\ \A n \in DOMAIN stack : Links(stack, n)
  BY DEF LinkInv, Fits
<1>3. /\ IsSequence(below) /\ \A n \in DOMAIN below : Links(below, n)
      /\ Awaits(below, 1, f.key)
      /\ IsSequence(f.results)
      /\ f.key.of = "register" => \A k \in DOMAIN f.results : f.results[k] # NotFound
  BY <1>1, <1>2, LinksAbove
<1>4. f.key.of = "register" => now.value # NotFound
  BY <1>1 DEF LinkInv, Fits, Receives
<1>5. /\ IsSequence(results)
      /\ f.key.of = "register" => \A k \in DOMAIN results : results[k] # NotFound
  <2>1. /\ IsSequence(results)
        /\ \A k \in DOMAIN results :
              results[k] = now.value \/ \E j \in DOMAIN f.results : results[k] = f.results[j]
    BY <1>3, Appending
  <2> QED
    BY <1>3, <1>4, <2>1
<1>6. CASE Len(results) < Len(preds)
  <2> DEFINE next == ScanWhole(f.key, preds[Len(results) + 1], f.visited)
             g == [f EXCEPT !.results = results]
             s == <<g>> \o below
  <2>1. now' = next /\ stack' = s
    BY <1>6 DEF CollectPath
  <2>2. next.do = "scan" /\ next.key = f.key
    BY DEF ScanWhole, Scan
  <2>3. g.for = "preds" /\ g.key = f.key /\ g.results = results
    BY <1>1
  <2> HIDE DEF g, next, results
  <2>4. IsSequence(s) /\ \A n \in DOMAIN s : Links(s, n)
    BY <1>3, <1>5, <2>3, LinksBelow
  <2>5. 1 \in DOMAIN s /\ s[1] = g
    BY <1>3, Calling, <2>4, Positions
  <2> HIDE DEF s
  <2>6. Fits(s, next)
    BY <1>3, <2>2, <2>3, <2>4, <2>5 DEF Fits, Awaits
  <2> QED
    BY <2>1, <2>6, FitsNext
<1>7. CASE ~(Len(results) < Len(preds))
  <2> DEFINE v == JoinPaths(results)
  <2>1. now' = Returning(v) /\ stack' = below
    BY <1>7 DEF CollectPath
  <2> HIDE DEF results
  <2>2. v = NotFound => f.key.of = "memory"
    <3>1. f.key.of \in {"register", "memory"}
      BY <1>3 DEF Awaits
    <3> QED
      BY <1>5, <3>1, JoinPathsSays
  <2>3. Receives(below, v)
    BY <1>3, <2>2, AwaitedIsReceived
  <2> HIDE DEF v, below
  <2>4. Fits(below, Returning(v))
    BY <1>3, <2>3 DEF Fits, Returning
  <2> QED
    BY <2>1, <2>4, FitsNext
<1> QED
  BY <1>6, <1>7

\* The frames that end a query turn sentinels into answers.
LEMMA FinishesFit ==
    ASSUME LinkInv,
           FinishRegister \/ FinishMemory \/ FinishBase \/ FinishLea \/ FinishAdd
    PROVE  LinkInv'
<1>1. now.do = "return" /\ stack # <<>>
  BY DEF FinishRegister, FinishMemory, FinishBase, FinishLea, FinishAdd, Waiting
<1>2. CASE FinishRegister
  <2> DEFINE v == IF now.value = Cycle THEN Unknown("NO_DEFINITION_FOUND") ELSE now.value
  <2>1. now.value # NotFound
    BY <1>1, <1>2, ReceivedValue DEF FinishRegister, Waiting
  <2>2. v \notin Sentinel
    BY <2>1, UnknownIsNoSentinel DEF Sentinel
  <2>3. now' = Returning(v) /\ stack' = Tail(stack)
    BY <1>2 DEF FinishRegister
  <2> QED
    BY <1>1, <2>2, <2>3, AnswersAreFair, PopFits
<1>3. CASE FinishMemory
  <2> DEFINE f == Head(stack)
  <2>1. CASE now.value \notin Sentinel
    <3>1. now' = now /\ stack' = Tail(stack) /\ Fair(now)
      BY <1>1, <1>3, <2>1 DEF FinishMemory, Sentinel, Fair
    <3> QED
      BY <1>1, <3>1, PopFits
  <2>2. CASE now.value \in Sentinel /\ f.base = NoReg
    <3> DEFINE next == [do |-> "dereference", addr |-> f.disp]
    <3>1. now' = next /\ stack' = Tail(stack)
      BY <1>3, <2>2 DEF FinishMemory, Sentinel
    <3>2. Fair(next)
      BY DEF Fair
    <3> QED
      BY <1>1, <3>1, <3>2, PopFits
  <2>3. CASE now.value \in Sentinel /\ f.base # NoReg
    <3> DEFINE next == ResolveRegister(f.base, f.block, f.pc)
               g == [for |-> "base", disp |-> f.disp]
               s == <<g>> \o Tail(stack)
    <3>1. now' = next /\ stack' = s
      BY <1>3, <2>3 DEF FinishMemory, Sentinel
    <3>2. next.do = "register" /\ g.for = "base"
      BY DEF ResolveRegister
    <3>3. IsSequence(stack) /\ \A n \in DOMAIN stack : Links(stack, n)
      BY DEF LinkInv, Fits
    <3>4. IsSequence(Tail(stack)) /\ \A n \in DOMAIN Tail(stack) : Links(Tail(stack), n)
      BY <1>1, <3>3, LinksAbove
    <3> HIDE DEF g, next
    <3>5. IsSequence(s) /\ \A n \in DOMAIN s : Links(s, n)
      BY <3>2, <3>4, LinksBelow
    <3> HIDE DEF s
    <3>6. Fits(s, next)
      BY <3>2, <3>5 DEF Fits
    <3> QED
      BY <3>1, <3>6, FitsNext
  <2> QED
    BY <2>1, <2>2, <2>3
<1>4. CASE FinishBase
  <2> DEFINE next == IF now.value.tag = "Concrete"
                       THEN [do |-> "dereference", addr |-> now.value.value + Head(stack).disp]
                       ELSE Returning(Unknown("NO_DEFINITION_FOUND"))
  <2>1. now' = next /\ stack' = Tail(stack)
    BY <1>4 DEF FinishBase
  <2>2. Fair(next)
    BY UnknownIsNoSentinel, AnswersAreFair DEF Fair
  <2> QED
    BY <1>1, <2>1, <2>2, PopFits
<1>5. CASE FinishLea
  <2>1. now.value \notin Sentinel
    BY <1>1, <1>5, ReceivedValue DEF FinishLea, Waiting
  <2>2. \E v : v \notin Sentinel /\ now' = Returning(v) /\ stack' = Tail(stack)
    BY <1>5, <2>1, AdjustedIsNoSentinel DEF FinishLea
  <2> QED
    BY <1>1, <2>2, AnswersAreFair, PopFits
<1>6. CASE FinishAdd
  <2>1. now.value \notin Sentinel
    BY <1>1, <1>6, ReceivedValue DEF FinishAdd, Waiting
  <2>2. \E v : v \notin Sentinel /\ now' = Returning(v) /\ stack' = Tail(stack)
    BY <1>6, <2>1, AdjustedIsNoSentinel DEF FinishAdd, AddedTo
  <2> QED
    BY <1>1, <2>2, AnswersAreFair, PopFits
<1> QED
  BY <1>2, <1>3, <1>4, <1>5, <1>6

\* dereference() answers with no sentinel.
LEMMA DereferenceFits ==
    ASSUME LinkInv, Dereference
    PROVE  LinkInv'
<1> DEFINE content == IF now.addr \in DOMAIN Image THEN Concrete(Image[now.addr], "INT")
                      ELSE Unknown("MEMORY_READ_FAILED")
<1>1. Return(MemoryRef(now.addr, content)) \/ \E r : Return(Unknown(r))
  BY DEF Dereference, OutOfBudget
<1>2. MemoryRef(now.addr, content) \notin Sentinel
  BY ValuesAreNoSentinels
<1>3. CASE Return(MemoryRef(now.addr, content))
  BY <1>2, <1>3, OthersAreReceived, ReturnFits DEF Return
<1> QED
  BY <1>1, <1>3, UnknownFits

\* No step hands a sentinel to a frame that could not take it.
LEMMA LinkNext == LinkInv /\ [Next]_vars => LinkInv'
<1> SUFFICES ASSUME LinkInv, [Next]_vars
             PROVE  LinkInv'
  OBVIOUS
<1>1. CASE UNCHANGED vars
  <2>1. PICK s, next : stack' = s /\ now' = next /\ s = stack /\ next = now
    BY <1>1 DEF vars
  <2> QED
    BY <2>1, FitsNext DEF LinkInv
<1> QED
  BY <1>1, StartsFit, LookFits, LeaveBlockFits, CollectPathFits, FinishesFit, DereferenceFits
     DEF Next

\* The two sentinels of the walks never reach a locator, a base address or the
\* caller, and a register walk never says "not found" (engine_backward.py:68-97),
\* for every function, every query and every budget.
THEOREM SentinelsNeverEscape == Spec => []SentinelsStayInWalks
<1>1. LinkInv => SentinelsStayInWalks
  BY DEF LinkInv, Fits, Receives, SentinelsStayInWalks
<1> QED
  BY <1>1, LinkInit, LinkNext, PTL DEF Spec

-----------------------------------------------------------------------------
(* An exhausted budget fails closed *)

\* Two scalars of which one is Unknown, or that disagree, join to an Unknown.
LEMMA ScalarJoinKeepsUnknown ==
    ASSUME NEW a, NEW b, IsUnknown(a) \/ IsUnknown(b) \/ ~Agrees(a, b)
    PROVE  IsUnknown(ScalarJoin(a, b))
<1>1. CASE IsUnknown(a)
  BY <1>1 DEF ScalarJoin
<1>2. CASE ~IsUnknown(a) /\ IsUnknown(b)
  BY <1>2 DEF ScalarJoin
<1>3. CASE ~IsUnknown(a) /\ ~IsUnknown(b) /\ ~Agrees(a, b)
  BY <1>3 DEF ScalarJoin, IsUnknown, Because
<1> QED
  BY <1>1, <1>2, <1>3

\* One unknown path makes the join unknown, in whichever position it comes.
LEMMA JoinKeepsUnknown ==
    ASSUME NEW I \in SUBSET Nat, NEW vs, NEW k \in I, IsUnknown(vs[k])
    PROVE  IsUnknown(JoinOver(I, vs))
<1> DEFINE first == vs[Least(I)]
           other == {i \in I : ~SameCell(first, vs[i])}
           apart == {i \in I : ~Agrees(first, vs[i])}
<1>1. Least(I) \in I /\ \A i \in I : Least(I) <= i
  BY LeastIsLeast
<1>2. CASE first.tag # "MemoryRef"
  <2>1. JoinOver(I, vs) = ScalarJoinOver(I, vs)
    BY <1>2 DEF JoinOver
  <2>2. CASE apart = {}
    <3>1. Agrees(first, vs[k])
      BY <2>2
    <3>2. first = vs[k]
      BY <3>1 DEF Agrees, IsUnknown
    <3> QED
      BY <2>1, <2>2, <3>2 DEF ScalarJoinOver
  <2>3. CASE apart # {}
    <3>1. Least(apart) \in apart
      BY <2>3, LeastIsLeast
    <3>2. ScalarJoinOver(I, vs) = ScalarJoin(first, vs[Least(apart)])
      BY <2>3 DEF ScalarJoinOver
    <3> QED
      BY <2>1, <3>1, <3>2, ScalarJoinKeepsUnknown
  <2> QED
    BY <2>2, <2>3
<1>3. CASE first.tag = "MemoryRef"
  <2> DEFINE j == Least(other)
             J == {i \in I : i < j}
             cell == CellJoinOver(J, vs)
  <2>1. k \in other
    BY DEF SameCell, IsUnknown
  <2>2. j \in other
    BY <2>1, LeastIsLeast
  <2>3. JoinOver(I, vs) = ScalarJoin(cell, vs[j])
    BY <1>3, <2>1 DEF JoinOver
  <2>4. Least(I) \in J
    <3>1. SameCell(first, first)
      BY <1>3 DEF SameCell
    <3>2. j # Least(I)
      BY <2>2, <3>1
    <3>3. Least(I) \in Nat /\ j \in Nat /\ Least(I) <= j
      BY <1>1, <2>2
    <3> QED
      BY <1>1, <3>2, <3>3
  <2>5. Least(J) = Least(I)
    <3>1. Least(J) \in J /\ Least(J) <= Least(I)
      BY <2>4, LeastIsLeast
    <3>2. Least(J) \in Nat /\ Least(I) \in Nat /\ Least(I) <= Least(J)
      BY <1>1, <3>1
    <3> QED
      BY <3>1, <3>2
  <2>6. cell.tag = "MemoryRef" /\ cell.addr = first.addr
    BY <2>5 DEF CellJoinOver, MemoryRef
  <2>7. ~Agrees(cell, vs[j])
    BY <1>3, <2>2, <2>6 DEF Agrees, SameCell
  <2> QED
    BY <2>3, <2>7, ScalarJoinKeepsUnknown
<1> QED
  BY <1>2, <1>3

\* A join with an Unknown among its paths is Unknown.
LEMMA JoinPathsKeepsUnknown ==
    ASSUME NEW results, IsSequence(results), NEW k \in DOMAIN results, IsUnknown(results[k])
    PROVE  IsUnknown(JoinPaths(results))
<1> DEFINE informative == {n \in DOMAIN results : results[n] # Cycle}
           found == {n \in informative : results[n] # NotFound}
<1>1. k \in found
  BY DEF IsUnknown, Cycle, NotFound
<1>2. CASE found # informative
  BY <1>1, <1>2 DEF JoinPaths, Unknown, Because, IsUnknown
<1>3. CASE found = informative
  <2>1. JoinPaths(results) = JoinOver(found, results)
    BY <1>1, <1>3 DEF JoinPaths
  <2>2. found \in SUBSET Nat
    BY Positions
  <2> QED
    BY <1>1, <2>1, <2>2, JoinKeepsUnknown
<1> QED
  BY <1>2, <1>3

\* A frame that has collected an unknown path.
Failing(f) ==
    /\ f.for = "preds"
    /\ \E k \in DOMAIN f.results : IsUnknown(f.results[k])

\* The answer will be Unknown.
Doomed(s, next) ==
    \/ next.do = "return" /\ IsUnknown(next.value)
    \/ \E n \in DOMAIN s : Failing(s[n])

\* Where some frame or the answer is failing, the query fails closed ...
LEMMA DoomedFailsClosed ==
    ASSUME NEW s, NEW next, stack' = s, now' = next, Doomed(s, next)
    PROVE  FailsClosed'
  BY DEF FailsClosed, Doomed, Failing, IsUnknown

\* ... and a query out of budget has one.
LEMMA FailsClosedIsDoomed ==
    ASSUME FailsClosed, Exhausted
    PROVE  Doomed(stack, now)
  BY DEF FailsClosed, Doomed, Failing, IsUnknown

\* The step that finds the budget empty answers Unknown.
LEMMA OutOfBudgetFails ==
    ASSUME OutOfBudget
    PROVE  FailsClosed'
<1>1. now' = Returning(Unknown("BUDGET_EXCEEDED"))
  BY DEF OutOfBudget, Return
<1>2. PICK s : stack' = s
  OBVIOUS
<1>3. Doomed(s, Returning(Unknown("BUDGET_EXCEEDED")))
  BY DEF Doomed, Returning, Unknown, Because, IsUnknown
<1> QED
  BY <1>1, <1>2, <1>3, DoomedFailsClosed

\* A failing frame keeps failing under new calls ...
LEMMA DoomedCall ==
    ASSUME NEW s, IsSequence(s), NEW n \in DOMAIN s, Failing(s[n]), NEW f, NEW next
    PROVE  Doomed(<<f>> \o s, next)
  BY Calling DEF Doomed

\* ... and when the frame above it returns.
LEMMA DoomedReturn ==
    ASSUME NEW s, IsSequence(s), s # <<>>, NEW n \in DOMAIN s, n # 1, Failing(s[n])
    PROVE  \E m \in DOMAIN Tail(s) : Failing(Tail(s)[m])
<1>1. n \in Nat /\ n - 1 \in DOMAIN Tail(s) /\ (n - 1) + 1 = n
  BY Answering, Positions
<1>2. Tail(s)[n - 1] = s[n]
  BY <1>1, Answering
<1> QED
  BY <1>1, <1>2

\* What a step does to a failing stack when nothing returns.
LEMMA CallStaysDoomed ==
    ASSUME LinkInv, Doomed(stack, now), now.do # "return",
           stack' = stack \/ \E f : stack' = <<f>> \o stack
    PROVE  FailsClosed'
<1>1. PICK n \in DOMAIN stack : Failing(stack[n])
  BY DEF Doomed
<1>2. IsSequence(stack)
  BY DEF LinkInv, Fits
<1>3. PICK next : now' = next
  OBVIOUS
<1>4. CASE stack' = stack
  <2>1. PICK s : stack' = s /\ s = stack
    BY <1>4
  <2>2. Doomed(s, next)
    BY <1>1, <2>1 DEF Doomed
  <2> QED
    BY <1>3, <2>1, <2>2, DoomedFailsClosed
<1>5. CASE \E f : stack' = <<f>> \o stack
  <2>1. PICK f : stack' = <<f>> \o stack
    BY <1>5
  <2>2. Doomed(<<f>> \o stack, next)
    BY <1>1, <1>2, DoomedCall
  <2> QED
    BY <1>3, <2>1, <2>2, DoomedFailsClosed
<1> QED
  BY <1>4, <1>5

\* What it does when the frame on top, no walk's, is answered: an unknown value
\* is handed on, and a failing frame is further down.
LEMMA ReturnStaysDoomed ==
    ASSUME LinkInv, Doomed(stack, now), stack # <<>>, Head(stack).for # "preds",
           NEW next, now' = next,
           IsUnknown(now.value) => next.do = "return" /\ IsUnknown(next.value),
           stack' = Tail(stack) \/ \E f : stack' = <<f>> \o Tail(stack),
           IsUnknown(now.value) => stack' = Tail(stack),
           now.do = "return"
    PROVE  FailsClosed'
<1>1. IsSequence(stack) /\ IsSequence(Tail(stack)) /\ Head(stack) = stack[1]
  BY Answering DEF LinkInv, Fits
<1>2. CASE IsUnknown(now.value)
  <2>1. Doomed(Tail(stack), next)
    BY <1>2 DEF Doomed
  <2> QED
    BY <1>2, <2>1, DoomedFailsClosed
<1>3. CASE ~IsUnknown(now.value)
  <2>1. PICK n \in DOMAIN stack : Failing(stack[n])
    BY <1>3 DEF Doomed
  <2>2. n # 1
    BY <1>1, <2>1 DEF Failing
  <2>3. PICK m \in DOMAIN Tail(stack) : Failing(Tail(stack)[m])
    BY <1>1, <2>1, <2>2, DoomedReturn
  <2>4. CASE stack' = Tail(stack)
    <3>1. Doomed(Tail(stack), next)
      BY <2>3 DEF Doomed
    <3> QED
      BY <2>4, <3>1, DoomedFailsClosed
  <2>5. CASE \E f : stack' = <<f>> \o Tail(stack)
    <3>1. PICK f : stack' = <<f>> \o Tail(stack)
      BY <2>5
    <3>2. Doomed(<<f>> \o Tail(stack), next)
      BY <1>1, <2>3, DoomedCall
    <3> QED
      BY <3>1, <3>2, DoomedFailsClosed
  <2> QED
    BY <2>4, <2>5
<1> QED
  BY <1>2, <1>3

\* A budget that has not run out in this step ran out before or not at all.
LEMMA StepsAreLeft ==
    ASSUME DepthInv,
           \/ UseStep /\ StepLeft /\ blocks' = blocks
           \/ UseBlock /\ BlockLeft /\ steps' = steps
           \/ steps' = steps /\ blocks' = blocks
    PROVE  Exhausted' => Exhausted
<1>1. steps \in Nat /\ blocks \in Nat
  BY DEF DepthInv
<1>2. CASE UseStep /\ StepLeft /\ blocks' = blocks
  <2>1. steps' = steps + 1 /\ steps + 1 <= MaxSteps
    BY <1>1, <1>2, BudgetAssumption DEF UseStep, StepLeft
  <2> QED
    BY <1>1, <1>2, <2>1, BudgetAssumption DEF Exhausted
<1>3. CASE UseBlock /\ BlockLeft /\ steps' = steps
  <2>1. blocks' = blocks + 1 /\ blocks + 1 <= MaxBlocks
    BY <1>1, <1>3, BudgetAssumption DEF UseBlock, BlockLeft
  <2> QED
    BY <1>1, <1>3, <2>1, BudgetAssumption DEF Exhausted
<1>4. CASE steps' = steps /\ blocks' = blocks
  BY <1>4 DEF Exhausted
<1> QED
  BY <1>2, <1>3, <1>4

\* A step that is no answer keeps the failing frames, or has budget left.
LEMMA CallsFailClosed ==
    ASSUME DepthInv, LinkInv, FailsClosed, now.do # "return",
           \/ UseStep /\ StepLeft /\ blocks' = blocks
           \/ UseBlock /\ BlockLeft /\ steps' = steps
           \/ steps' = steps /\ blocks' = blocks,
           \/ stack' = stack
           \/ \E next, frames : /\ CallWith(next, frames)
                                /\ frames = <<>> \/ \E f : frames = <<f>>
    PROVE  FailsClosed'
<1>1. CASE ~Exhausted'
  BY <1>1 DEF FailsClosed
<1>2. CASE Exhausted'
  <2>1. Doomed(stack, now)
    BY <1>2, StepsAreLeft, FailsClosedIsDoomed
  <2>2. IsSequence(stack)
    BY DEF DepthInv
  <2>3. stack' = stack \/ \E f : stack' = <<f>> \o stack
    BY <2>2, NoCall DEF CallWith
  <2> QED
    BY <2>1, <2>3, CallStaysDoomed
<1> QED
  BY <1>1, <1>2

\* Beginning a query fails closed.
LEMMA StartsFailClosed ==
    ASSUME DepthInv, LinkInv, FailsClosed,
           StartRegister \/ StartMemory \/ StartInstruction
    PROVE  FailsClosed'
<1>1. CASE StartRegister
  <2>1. now.do # "return"
    BY <1>1 DEF StartRegister
  <2>2. CASE now.reg = NoReg
    BY <1>1, <2>1, <2>2, CallsFailClosed DEF StartRegister, Return
  <2>3. CASE now.reg # NoReg
    <3>1. UseStep /\ blocks' = blocks
      BY <1>1, <2>3 DEF StartRegister
    <3>2. CASE ~StepLeft
      BY <1>1, <2>3, <3>2, OutOfBudgetFails DEF StartRegister
    <3>3. CASE StepLeft /\ ~prog.owned
      BY <1>1, <2>1, <2>3, <3>1, <3>3, CallsFailClosed DEF StartRegister, Return
    <3>4. CASE StepLeft /\ prog.owned
      <4>1. \E next, f : CallWith(next, <<f>>)
        BY <1>1, <2>3, <3>4 DEF StartRegister
      <4> QED
        BY <2>1, <3>1, <3>4, <4>1, CallsFailClosed
    <3> QED
      BY <3>2, <3>3, <3>4
  <2> QED
    BY <2>2, <2>3
<1>2. CASE StartMemory
  <2>1. now.do # "return" /\ UseStep /\ blocks' = blocks
    BY <1>2 DEF StartMemory
  <2>2. CASE ~StepLeft
    BY <1>2, <2>2, OutOfBudgetFails DEF StartMemory
  <2>3. CASE StepLeft
    <3>1. \E next, f : CallWith(next, <<f>>)
      BY <1>2, <2>3 DEF StartMemory
    <3> QED
      BY <2>1, <2>3, <3>1, CallsFailClosed
  <2> QED
    BY <2>2, <2>3
<1>3. CASE StartInstruction
  <2> DEFINE i == InsnAt(now.block, now.pc)
  <2>1. now.do # "return" /\ UseStep /\ blocks' = blocks
    BY <1>3 DEF StartInstruction
  <2>2. CASE ~StepLeft
    BY <1>3, <2>2, OutOfBudgetFails DEF StartInstruction
  <2>3. CASE StepLeft
    <3>1. CallWith(Interpret(i, 1, now.block, now.pc), Adjustment(i))
      BY <1>3, <2>3 DEF StartInstruction
    <3>2. Adjustment(i) = <<>> \/ \E f : Adjustment(i) = <<f>>
      BY OneAdjustment
    <3> QED
      BY <2>1, <2>3, <3>1, <3>2, CallsFailClosed
  <2> QED
    BY <2>2, <2>3
<1> QED
  BY <1>1, <1>2, <1>3

\* A step inside a block fails closed.
LEMMA WalksFailClosed ==
    ASSUME DepthInv, LinkInv, FailsClosed, Look \/ LeaveBlock \/ Dereference
    PROVE  FailsClosed'
<1>1. CASE Look
  <2> DEFINE i == InsnAt(now.block, now.pc)
             found == Match(i, now.key)
  <2>1. now.do # "return" /\ UseStep /\ blocks' = blocks
    BY <1>1 DEF Look
  <2>2. CASE ~StepLeft
    BY <1>1, <2>2, OutOfBudgetFails DEF Look
  <2>3. CASE StepLeft /\ found.is \in {"pass", "stop"}
    BY <1>1, <2>1, <2>3, CallsFailClosed DEF Look, Return
  <2>4. CASE StepLeft /\ found.is \notin {"pass", "stop"}
    <3>1. CallWith(Interpret(i, found.operand, now.block, now.pc), Adjustment(i))
      BY <1>1, <2>4 DEF Look
    <3>2. Adjustment(i) = <<>> \/ \E f : Adjustment(i) = <<f>>
      BY OneAdjustment
    <3> QED
      BY <2>1, <2>4, <3>1, <3>2, CallsFailClosed
  <2> QED
    BY <2>2, <2>3, <2>4
<1>2. CASE LeaveBlock
  <2>1. now.do # "return" /\ steps' = steps
    BY <1>2 DEF LeaveBlock
  <2>2. CASE now.block \in now.visited \/ prog.pred[now.block] = <<>>
    BY <1>2, <2>1, <2>2, CallsFailClosed DEF LeaveBlock, Return
  <2>3. CASE ~(now.block \in now.visited \/ prog.pred[now.block] = <<>>)
    <3>1. UseBlock
      BY <1>2, <2>3 DEF LeaveBlock
    <3>2. CASE ~BlockLeft
      BY <1>2, <2>3, <3>2, OutOfBudgetFails DEF LeaveBlock
    <3>3. CASE BlockLeft
      <4>1. \E next, f : CallWith(next, <<f>>)
        BY <1>2, <2>3, <3>3 DEF LeaveBlock
      <4> QED
        BY <2>1, <3>1, <3>3, <4>1, CallsFailClosed
    <3> QED
      BY <3>2, <3>3
  <2> QED
    BY <2>2, <2>3
<1>3. CASE Dereference
  <2>1. now.do # "return" /\ UseStep /\ blocks' = blocks
    BY <1>3 DEF Dereference
  <2>2. CASE ~StepLeft
    BY <1>3, <2>2, OutOfBudgetFails DEF Dereference
  <2>3. CASE StepLeft
    BY <1>3, <2>1, <2>3, CallsFailClosed DEF Dereference, Return
  <2> QED
    BY <2>2, <2>3
<1> QED
  BY <1>1, <1>2, <1>3

\* The join of the paths keeps what one of them did not know.
LEMMA CollectPathFailsClosed ==
    ASSUME LinkInv, Doomed(stack, now), CollectPath
    PROVE  FailsClosed'
<1> DEFINE f == Head(stack)
           results == Append(f.results, now.value)
           preds == prog.pred[f.block]
           below == Tail(stack)
<1>1. now.do = "return" /\ stack # <<>> /\ f.for = "preds"
  BY DEF CollectPath, Waiting
<1>2. IsSequence(stack) /\ \A n \in DOMAIN stack : Links(stack, n)
  BY DEF LinkInv, Fits
<1>3. IsSequence(below) /\ f = stack[1] /\ IsSequence(f.results)
  BY <1>1, <1>2, Answering, LinksAbove
<1>4. /\ IsSequence(results)
      /\ \A j \in DOMAIN f.results : j \in DOMAIN results /\ results[j] = f.results[j]
      /\ \E k \in DOMAIN results : results[k] = now.value
  <2>1. PICK old, v : old = f.results /\ IsSequence(old) /\ v = now.value
    BY <1>3
  <2>2. \A k \in DOMAIN old : k \in DOMAIN Append(old, v) /\ Append(old, v)[k] = old[k]
    BY <2>1, Appending
  <2>3. \E k \in DOMAIN Append(old, v) : Append(old, v)[k] = v
    BY <2>1, Appending
  <2>4. IsSequence(Append(old, v))
    BY <2>1, Appending
  <2> QED
    BY <2>1, <2>2, <2>3, <2>4
<1>5. \/ \E k \in DOMAIN results : IsUnknown(results[k])
      \/ \E m \in DOMAIN below : Failing(below[m])
  <2>1. CASE IsUnknown(now.value)
    BY <1>4, <2>1
  <2>2. CASE \E n \in DOMAIN stack : Failing(stack[n])
    <3>1. PICK n \in DOMAIN stack : Failing(stack[n])
      BY <2>2
    <3>2. CASE n = 1
      BY <1>3, <1>4, <3>1, <3>2 DEF Failing
    <3>3. CASE n # 1
      BY <1>1, <1>2, <3>1, <3>3, DoomedReturn
    <3> QED
      BY <3>2, <3>3
  <2> QED
    BY <2>1, <2>2 DEF Doomed
<1>6. CASE Len(results) < Len(preds)
  <2> DEFINE next == ScanWhole(f.key, preds[Len(results) + 1], f.visited)
             g == [f EXCEPT !.results = results]
             s == <<g>> \o below
  <2>1. now' = next /\ stack' = s
    BY <1>6 DEF CollectPath
  <2>2. g.for = "preds" /\ g.results = results
    BY <1>1
  <2> HIDE DEF g, next, results, below
  <2>3. CASE \E k \in DOMAIN results : IsUnknown(results[k])
    <3>1. Failing(g)
      BY <2>2, <2>3 DEF Failing
    <3>2. 1 \in DOMAIN s /\ s[1] = g
      BY <1>3, Calling, Positions
    <3> HIDE DEF s
    <3>3. Doomed(s, next)
      BY <3>1, <3>2 DEF Doomed
    <3> QED
      BY <2>1, <3>3, DoomedFailsClosed
  <2>4. CASE \E m \in DOMAIN below : Failing(below[m])
    <3>1. Doomed(s, next)
      BY <1>3, <2>4, DoomedCall
    <3> HIDE DEF s
    <3> QED
      BY <2>1, <3>1, DoomedFailsClosed
  <2> QED
    BY <1>5, <2>3, <2>4
<1>7. CASE ~(Len(results) < Len(preds))
  <2> DEFINE v == JoinPaths(results)
  <2>1. now' = Returning(v) /\ stack' = below
    BY <1>7 DEF CollectPath
  <2> HIDE DEF results, below
  <2>2. (\E k \in DOMAIN results : IsUnknown(results[k])) => IsUnknown(v)
    BY <1>4, JoinPathsKeepsUnknown
  <2> HIDE DEF v
  <2>3. Doomed(below, Returning(v))
    BY <1>5, <2>2 DEF Doomed, Returning
  <2> QED
    BY <2>1, <2>3, DoomedFailsClosed
<1> QED
  BY <1>6, <1>7

\* An adjustment of an Unknown is Unknown.
LEMMA AdjustedKeepsUnknown ==
    ASSUME NEW v, IsUnknown(v), NEW d, NEW size, NEW sort
    PROVE  IsUnknown(Adjusted(v, d, size, sort)) /\ IsUnknown(AddedTo(v, d, size))
  BY DEF Adjusted, AddedTo, IsUnknown, Unknown, Because

\* The end of a query hands its Unknown on.
LEMMA FinishesFailClosed ==
    ASSUME LinkInv, Doomed(stack, now),
           FinishRegister \/ FinishMemory \/ FinishBase \/ FinishLea \/ FinishAdd
    PROVE  FailsClosed'
<1> DEFINE f == Head(stack)
<1>1. now.do = "return" /\ stack # <<>> /\ f.for # "preds"
  BY DEF FinishRegister, FinishMemory, FinishBase, FinishLea, FinishAdd, Waiting
<1>2. ASSUME NEW v PROVE Returning(v).do = "return" /\ Returning(v).value = v
  BY DEF Returning
<1>3. IsUnknown(now.value) => now.value \notin {Cycle, NotFound}
  BY DEF IsUnknown, Cycle, NotFound
<1>4. CASE FinishRegister
  <2> DEFINE v == IF now.value = Cycle THEN Unknown("NO_DEFINITION_FOUND") ELSE now.value
  <2>1. now' = Returning(v) /\ stack' = Tail(stack)
    BY <1>4 DEF FinishRegister
  <2>2. IsUnknown(now.value) => IsUnknown(v)
    BY <1>3
  <2> QED
    BY <1>1, <1>2, <2>1, <2>2, ReturnStaysDoomed
<1>5. CASE FinishMemory
  <2>1. CASE now.value \notin {Cycle, NotFound}
    <3>1. now' = now /\ stack' = Tail(stack)
      BY <1>5, <2>1 DEF FinishMemory
    <3> QED
      BY <1>1, <3>1, ReturnStaysDoomed
  <2>2. CASE now.value \in {Cycle, NotFound}
    <3>1. stack' = Tail(stack) \/ \E g : stack' = <<g>> \o Tail(stack)
      BY <1>5, <2>2 DEF FinishMemory
    <3>2. ~IsUnknown(now.value)
      BY <1>3, <2>2
    <3>3. PICK next : now' = next
      OBVIOUS
    <3> QED
      BY <1>1, <3>1, <3>2, <3>3, ReturnStaysDoomed
  <2> QED
    BY <2>1, <2>2
<1>6. CASE FinishBase
  <2>1. stack' = Tail(stack)
    BY <1>6 DEF FinishBase
  <2>2. IsUnknown(now.value) => now' = Returning(Unknown("NO_DEFINITION_FOUND"))
    BY <1>6 DEF FinishBase, IsUnknown
  <2>3. PICK next : now' = next
    OBVIOUS
  <2>4. IsUnknown(Unknown("NO_DEFINITION_FOUND"))
    BY DEF IsUnknown, Unknown, Because
  <2> QED
    BY <1>1, <1>2, <2>1, <2>2, <2>3, <2>4, ReturnStaysDoomed
<1>7. CASE FinishLea
  <2>1. PICK v : /\ now' = Returning(v) /\ stack' = Tail(stack)
                 /\ IsUnknown(now.value) => IsUnknown(v)
    BY <1>7, AdjustedKeepsUnknown DEF FinishLea
  <2> QED
    BY <1>1, <1>2, <2>1, ReturnStaysDoomed
<1>8. CASE FinishAdd
  <2>1. PICK v : /\ now' = Returning(v) /\ stack' = Tail(stack)
                 /\ IsUnknown(now.value) => IsUnknown(v)
    BY <1>8, AdjustedKeepsUnknown DEF FinishAdd
  <2> QED
    BY <1>1, <1>2, <2>1, ReturnStaysDoomed
<1> QED
  BY <1>4, <1>5, <1>6, <1>7, <1>8

\* Every step keeps the Unknown that an exhausted budget leaves on its way.
LEMMA FailsNext == DepthInv /\ LinkInv /\ FailsClosed /\ [Next]_vars => FailsClosed'
<1> SUFFICES ASSUME DepthInv, LinkInv, FailsClosed, [Next]_vars
             PROVE  FailsClosed'
  OBVIOUS
<1>1. CASE CollectPath \/ FinishRegister \/ FinishMemory \/ FinishBase \/ FinishLea \/ FinishAdd
  <2>1. steps' = steps /\ blocks' = blocks
    BY <1>1 DEF CollectPath, FinishRegister, FinishMemory, FinishBase, FinishLea, FinishAdd
  <2>2. CASE ~Exhausted'
    BY <2>2 DEF FailsClosed
  <2>3. CASE Exhausted'
    <3>1. Doomed(stack, now)
      BY <2>1, <2>3, StepsAreLeft, FailsClosedIsDoomed
    <3> QED
      BY <1>1, <3>1, CollectPathFailsClosed, FinishesFailClosed
  <2> QED
    BY <2>2, <2>3
<1>2. CASE UNCHANGED vars
  BY <1>2 DEF vars, FailsClosed, Exhausted
<1> QED
  BY <1>1, <1>2, StartsFailClosed, WalksFailClosed DEF Next

\* "pathological CFGs fail closed" (docs/architecture.md, section 6): from the
\* moment the budget runs out, anywhere below the query, the answer is Unknown or
\* is going to be, for every function, every query and every budget.
THEOREM ExhaustionFailsClosed == Spec => []FailsClosed
<1>1. Init => FailsClosed
  BY BudgetAssumption DEF Init, FailsClosed, Exhausted
<1> QED
  BY <1>1, DepthInit, DepthNext, LinkInit, LinkNext, FailsNext, PTL DEF Spec

-----------------------------------------------------------------------------
(* What the resolver returns are values *)

\* Everything a walk may come back with.
Outcome == Result \cup Sentinel

\* The tag of a result tells what it is.
LEMMA ResultCases ==
    ASSUME NEW v \in Result
    PROVE  /\ v.tag \in {"Concrete", "Symbolic", "MemoryRef", "Unknown"}
           /\ v.tag = "Concrete" => v.value \in Int /\ v.kind \in Kind
           /\ v.tag = "MemoryRef" => v.addr \in Int /\ v.content \in Value
           /\ IsUnknown(v) \/ v \in Known
  BY DEF Result, Known, Failure, Scalar, IsUnknown

\* The constructors yield results.
LEMMA ResultsAreMade ==
    /\ \A n \in Int, kind \in Kind : Concrete(n, kind) \in Known
    /\ \A e \in Expr : Symbolic(e) \in Known
    /\ \A a \in Int, v \in Value : MemoryRef(a, v) \in Known
    /\ \A r \in Reason : Unknown(r) \in Result
    /\ \A r \in Reason, d \in Known \X Known : Because(r, d) \in Result
  BY DEF Result, Known, Failure, Scalar, Concrete, Symbolic, MemoryRef, Unknown, Because

\* join() of two results is a result.
LEMMA ScalarJoinIsResult ==
    ASSUME NEW a \in Result, NEW b \in Result
    PROVE  ScalarJoin(a, b) \in Result
<1>1. CASE IsUnknown(a)
  BY <1>1 DEF ScalarJoin
<1>2. CASE ~IsUnknown(a) /\ IsUnknown(b)
  BY <1>2 DEF ScalarJoin
<1>3. CASE ~IsUnknown(a) /\ ~IsUnknown(b) /\ Agrees(a, b)
  BY <1>3 DEF ScalarJoin
<1>4. CASE ~IsUnknown(a) /\ ~IsUnknown(b) /\ ~Agrees(a, b)
  <2>1. ScalarJoin(a, b) = Because(ShapelessReason(a, b), Quoted(a, b))
    BY <1>4 DEF ScalarJoin
  <2>2. a \in Known /\ b \in Known
    BY <1>4, ResultCases
  <2>3. Quoted(a, b) \in Known \X Known
    BY <2>2, ResultCases, ResultsAreMade DEF Quoted, Kind
  <2>4. ShapelessReason(a, b) \in Reason
    BY DEF ShapelessReason, Reason
  <2> QED
    BY <2>1, <2>3, <2>4, ResultsAreMade
<1> QED
  BY <1>1, <1>2, <1>3, <1>4

\* So is join_all() over paths without a memory read ...
LEMMA ScalarJoinOverIsResult ==
    ASSUME NEW I \in SUBSET Nat, I # {}, NEW vs, \A i \in I : vs[i] \in Result
    PROVE  ScalarJoinOver(I, vs) \in Result
<1> DEFINE first == vs[Least(I)]
           apart == {i \in I : ~Agrees(first, vs[i])}
<1>1. first \in Result
  BY LeastIsLeast
<1>2. CASE apart = {}
  BY <1>1, <1>2 DEF ScalarJoinOver
<1>3. CASE apart # {}
  <2>1. vs[Least(apart)] \in Result
    BY <1>3, LeastIsLeast
  <2>2. ScalarJoinOver(I, vs) = ScalarJoin(first, vs[Least(apart)])
    BY <1>3 DEF ScalarJoinOver
  <2> QED
    BY <1>1, <2>1, <2>2, ScalarJoinIsResult
<1> QED
  BY <1>2, <1>3

\* ... over reads of one memory cell ...
LEMMA CellJoinOverIsResult ==
    ASSUME NEW I \in SUBSET Nat, I # {}, NEW vs,
           \A i \in I : vs[i] \in Result /\ vs[i].tag = "MemoryRef"
    PROVE  CellJoinOver(I, vs) \in Result
<1>1. PICK contents : contents = [i \in I |-> vs[i].content]
  OBVIOUS
<1>2. \A i \in I : contents[i] \in Value
  BY <1>1, ResultCases
<1>3. Least(I) \in I
  BY LeastIsLeast
<1>4. contents[Least(I)].tag # "MemoryRef"
  BY <1>2, <1>3, ValueCases
<1>5. JoinOver(I, contents) = ScalarJoinOver(I, contents)
  BY <1>4 DEF JoinOver
<1>6. ScalarJoinOver(I, contents) \in Value
  BY <1>2, <1>5, JoinOverIsValue
<1>7. vs[Least(I)].addr \in Int
  BY <1>3, ResultCases
<1>8. CellJoinOver(I, vs) = MemoryRef(vs[Least(I)].addr, ScalarJoinOver(I, contents))
  BY <1>1 DEF CellJoinOver
<1> QED
  BY <1>6, <1>7, <1>8, ResultsAreMade DEF Result

\* ... and over any paths.
LEMMA JoinOverIsResult ==
    ASSUME NEW I \in SUBSET Nat, I # {}, NEW vs, \A i \in I : vs[i] \in Result
    PROVE  JoinOver(I, vs) \in Result
<1> DEFINE first == vs[Least(I)]
           apart == {i \in I : ~SameCell(first, vs[i])}
           j == Least(apart)
           before == {i \in I : i < j}
<1>1. Least(I) \in I /\ \A i \in I : Least(I) <= i
  BY LeastIsLeast
<1>2. CASE first.tag # "MemoryRef"
  BY <1>2, ScalarJoinOverIsResult DEF JoinOver
<1>3. CASE first.tag = "MemoryRef" /\ apart = {}
  <2>1. \A i \in I : vs[i].tag = "MemoryRef"
    BY <1>3 DEF SameCell
  <2>2. JoinOver(I, vs) = CellJoinOver(I, vs)
    BY <1>3 DEF JoinOver
  <2> QED
    BY <2>1, <2>2, CellJoinOverIsResult
<1>4. CASE first.tag = "MemoryRef" /\ apart # {}
  <2>1. j \in apart /\ \A i \in apart : j <= i
    BY <1>4, LeastIsLeast
  <2>2. JoinOver(I, vs) = ScalarJoin(CellJoinOver(before, vs), vs[j])
    BY <1>4 DEF JoinOver
  <2>3. Least(I) \notin apart
    <3>1. SameCell(first, first)
      BY <1>4 DEF SameCell
    <3> QED
      BY <3>1
  <2>4. Least(I) < j /\ j \in Nat
    <3>1. PICK l, k : l = Least(I) /\ k = j
      OBVIOUS
    <3>2. l \in Nat /\ k \in Nat /\ l <= k /\ l # k
      BY <1>1, <2>1, <2>3, <3>1
    <3>3. l < k
      BY <3>2
    <3> QED
      BY <3>1, <3>2, <3>3
  <2>5. before \in SUBSET Nat /\ before # {}
    BY <1>1, <2>4
  <2>6. \A i \in before : i \notin apart
    BY <2>1, <2>4
  <2>7. \A i \in before : vs[i] \in Result /\ vs[i].tag = "MemoryRef"
    BY <2>6 DEF SameCell
  <2> HIDE DEF before, j
  <2>8. CellJoinOver(before, vs) \in Result
    BY <2>5, <2>7, CellJoinOverIsResult
  <2> QED
    BY <2>1, <2>2, <2>8, ScalarJoinIsResult
<1> QED
  BY <1>2, <1>3, <1>4

\* The join of the paths of a block is a result or a sentinel.
LEMMA JoinPathsIsOutcome ==
    ASSUME NEW results, IsSequence(results), \A n \in DOMAIN results : results[n] \in Outcome
    PROVE  JoinPaths(results) \in Outcome
<1> DEFINE informative == {n \in DOMAIN results : results[n] # Cycle}
           found == {n \in informative : results[n] # NotFound}
<1>1. CASE informative = {} \/ found = {}
  BY <1>1 DEF JoinPaths, Outcome, Sentinel
<1>2. CASE informative # {} /\ found # {} /\ found # informative
  BY <1>2, ResultsAreMade DEF JoinPaths, Outcome, Reason
<1>3. CASE informative # {} /\ found # {} /\ found = informative
  <2>1. JoinPaths(results) = JoinOver(found, results)
    BY <1>3 DEF JoinPaths
  <2>2. found \in SUBSET Nat
    BY Positions
  <2>3. \A n \in found : results[n] \in Result
    BY DEF Outcome, Sentinel
  <2> QED
    BY <1>3, <2>1, <2>2, <2>3, JoinOverIsResult DEF Outcome
<1> QED
  BY <1>1, <1>2, <1>3

\* A folded adjustment is a result.
LEMMA AdjustedIsResult ==
    ASSUME NEW v \in Outcome, NEW delta \in Int, NEW size \in 0..8, NEW kind \in Kind
    PROVE  Adjusted(v, delta, size, kind) \in Result
<1>1. CASE v.tag = "Concrete"
  <2>1. v \in Result
    BY <1>1 DEF Outcome, Sentinel, Cycle, NotFound
  <2>2. v.value + delta \in Int
    BY <1>1, <2>1, ResultCases
  <2>3. \A m \in Nat \ {0} : (v.value + delta) % m \in Int
    BY <2>2
  <2>4. Wrap(v.value + delta, size) \in Int
    BY <2>3, WidthAssumption DEF Wrap
  <2>5. Adjusted(v, delta, size, kind) = Concrete(Wrap(v.value + delta, size), kind)
    BY <1>1 DEF Adjusted, IsUnknown
  <2>6. Concrete(Wrap(v.value + delta, size), kind) \in Known
    BY <2>4, ResultsAreMade
  <2> QED
    BY <2>5, <2>6 DEF Result
<1>2. CASE v.tag # "Concrete" /\ IsUnknown(v)
  BY <1>2 DEF Adjusted, Outcome, Sentinel, Cycle, NotFound, IsUnknown
<1>3. CASE v.tag # "Concrete" /\ ~IsUnknown(v)
  BY <1>3, ResultsAreMade DEF Adjusted, Reason
<1> QED
  BY <1>1, <1>2, <1>3

-----------------------------------------------------------------------------
(* What is asked and remembered is well formed *)

\* The instructions and predecessors of a block.
LEMMA BlockOfProgram ==
    ASSUME prog \in Programs, NEW b \in prog.blocks
    PROVE  /\ Len(prog.code[b]) \in Nat /\ DOMAIN prog.code[b] = 1..Len(prog.code[b])
           /\ \A n \in 1..Len(prog.code[b]) : IsInstruction(prog.code[b][n])
           /\ Len(prog.pred[b]) \in Nat /\ DOMAIN prog.pred[b] = 1..Len(prog.pred[b])
           /\ \A n \in 1..Len(prog.pred[b]) : prog.pred[b][n] \in prog.blocks
           /\ prog.pred[b] # <<>> => 1 <= Len(prog.pred[b])
<1>1. /\ \A n \in DOMAIN prog.code[b] : IsInstruction(prog.code[b][n])
      /\ prog.code[b] \in Seq({prog.code[b][n] : n \in DOMAIN prog.code[b]})
      /\ prog.pred[b] \in Seq(prog.blocks)
  BY ProgramsAssumption DEF IsProgram
<1>2. Len(prog.code[b]) \in Nat /\ DOMAIN prog.code[b] = 1..Len(prog.code[b])
  BY <1>1
<1>3. /\ Len(prog.pred[b]) \in Nat /\ DOMAIN prog.pred[b] = 1..Len(prog.pred[b])
      /\ \A n \in 1..Len(prog.pred[b]) : prog.pred[b][n] \in prog.blocks
      /\ prog.pred[b] # <<>> => 1 <= Len(prog.pred[b])
  BY <1>1
<1> QED
  BY <1>1, <1>2, <1>3

\* The operands of an instruction.
LEMMA OperandOf ==
    ASSUME NEW i, IsInstruction(i), NEW n \in DOMAIN i.ops
    PROVE  /\ n \in Nat \ {0}
           /\ i.ops[n].reg \in Reg \cup {NoReg} /\ i.ops[n].size \in 0..8
           /\ i.ops[n].imm \in Int /\ i.ops[n].disp \in Int
           /\ IsReg(i.ops[n]) => i.ops[n].reg \in Reg
<1>1. i.ops \in Seq(Operand) /\ IsWellFormed(i.ops[n])
  BY DEF IsInstruction
<1>2. n \in 1..Len(i.ops) /\ Len(i.ops) \in Nat
  BY <1>1
<1>3. i.ops[n] \in Operand /\ (IsReg(i.ops[n]) => i.ops[n].reg \in Reg)
  BY <1>1 DEF IsWellFormed, IsReg
<1> QED
  BY <1>2, <1>3 DEF Operand

TwoOperands == {"mov_reg_reg", "mov_reg_mem", "mov_reg_imm", "mov_mem_imm", "mov_mem_reg",
                "lea_reg_addr", "lea_reg_displ", "xchg_reg_reg", "cmov_reg_reg",
                "add_sub_reg_imm", "zero_idiom"}

\* What the locator that matches an instruction says of its operands.
LEMMA LocatorShape ==
    ASSUME NEW i, IsInstruction(i)
    PROVE  /\ LocatorOf(i) \in TwoOperands =>
                /\ 1 \in DOMAIN i.ops /\ 2 \in DOMAIN i.ops
           /\ LocatorOf(i) = "push" => 1 \in DOMAIN i.ops
           /\ LocatorOf(i) = "xchg_reg_reg" =>
                /\ IsReg(i.ops[1]) /\ IsReg(i.ops[2]) /\ DOMAIN i.ops = 1..2
<1>1. i.ops \in Seq(Operand) /\ Len(i.ops) \in Nat
  BY DEF IsInstruction
<1>2. DOMAIN i.ops = 1..Len(i.ops)
  BY <1>1
<1>3. LocatorOf(i) \in TwoOperands =>
         Len(i.ops) >= 2 /\ LocatorOf(i) = LocatorOfBinary(i.mnem, i.ops[1], i.ops[2])
  BY DEF LocatorOf, TwoOperands
<1>4. LocatorOf(i) \in TwoOperands => 1 \in DOMAIN i.ops /\ 2 \in DOMAIN i.ops
  BY <1>1, <1>2, <1>3
<1>5. LocatorOf(i) = "push" => 1 \in DOMAIN i.ops
  <2>1. CASE i.mnem = "call"
    BY <2>1 DEF LocatorOf
  <2>2. CASE i.mnem # "call" /\ Len(i.ops) >= 1
    BY <1>1, <1>2, <2>2
  <2>3. CASE i.mnem # "call" /\ ~(Len(i.ops) >= 1)
    BY <1>1, <2>3 DEF LocatorOf
  <2> QED
    BY <2>1, <2>2, <2>3
<1>6. ASSUME LocatorOf(i) = "xchg_reg_reg"
      PROVE  i.mnem = "xchg" /\ IsReg(i.ops[1]) /\ IsReg(i.ops[2])
  <2>1. LocatorOfBinary(i.mnem, i.ops[1], i.ops[2]) = "xchg_reg_reg"
    BY <1>3, <1>6 DEF TwoOperands
  <2> QED
    BY <2>1 DEF LocatorOfBinary
<1>7. i.mnem = "xchg" => DOMAIN i.ops = 1..2
  BY <1>2 DEF IsInstruction
<1> QED
  BY <1>4, <1>5, <1>6, <1>7

\* A question about a program point.
IsPoint(b, n) == b \in prog.blocks /\ n \in 1..Len(prog.code[b])

\* What the resolver is about to do, and for whom.
IsNext(next) ==
    \/ /\ next.do = "register" /\ next.reg \in Reg \cup {NoReg}
       /\ IsPoint(next.block, next.pc)
    \/ /\ next.do = "memory" /\ next.base \in Reg \cup {NoReg} /\ next.disp \in Int
       /\ IsPoint(next.block, next.pc)
    \/ next.do = "instruction" /\ IsPoint(next.block, next.pc)
    \/ \E key, b, n, visited :
          /\ next = Scan(key, b, n, visited)
          /\ IsKey(key) /\ b \in prog.blocks /\ n \in 0..Len(prog.code[b])
          /\ visited \subseteq prog.blocks
    \/ next.do = "dereference" /\ next.addr \in Int
    \/ next.do = "return" /\ next.value \in Outcome

Typed(s, next) ==
    /\ IsSequence(s) /\ \A n \in DOMAIN s : IsFrame(s[n])
    /\ IsNext(next)

TypeInv ==
    /\ prog \in Programs
    /\ Typed(stack, now)
    /\ steps \in 0..(MaxSteps + 1) /\ blocks \in 0..(MaxBlocks + 1)

\* What each kind of frame remembers.
LEMMA FrameKinds ==
    ASSUME NEW f
    PROVE  /\ f.for = "register" => IsFrame(f)
           /\ f.for = "memory" =>
                (IsFrame(f) <=> /\ f.base \in Reg \cup {NoReg} /\ f.disp \in Int
                                /\ IsPoint(f.block, f.pc))
           /\ f.for = "preds" =>
                (IsFrame(f) <=> /\ IsKey(f.key) /\ f.block \in f.visited
                                /\ f.visited \subseteq prog.blocks
                                /\ f.results \in Seq(Outcome)
                                /\ Len(f.results) < Len(prog.pred[f.block]))
           /\ f.for = "base" => (IsFrame(f) <=> f.disp \in Int)
           /\ f.for \in {"lea", "add"} => (IsFrame(f) <=> f.delta \in Int /\ f.size \in 0..8)
<1>1. CASE f.for = "register"
  BY <1>1 DEF IsFrame
<1>2. CASE f.for = "memory"
  BY <1>2 DEF IsFrame, IsPoint
<1>3. CASE f.for = "preds"
  BY <1>3 DEF IsFrame, Outcome, Sentinel
<1>4. CASE f.for = "base"
  BY <1>4 DEF IsFrame
<1>5. CASE f.for \in {"lea", "add"}
  BY <1>5 DEF IsFrame
<1> QED
  BY <1>1, <1>2, <1>3, <1>4, <1>5

\* A step whose outcome is well formed preserves that, in the same function.
LEMMA TypedNext ==
    ASSUME NEW s, NEW next, stack' = s, now' = next, prog' = prog, Typed(s, next)
    PROVE  Typed(stack, now)'
<1>1. IsSequence(stack)'
  BY DEF Typed, IsSequence
<1>2. ASSUME NEW n \in DOMAIN stack'
      PROVE  IsFrame(stack[n])'
  <2>1. IsFrame(s[n])
    BY DEF Typed
  <2> QED
    BY <2>1 DEF IsFrame, Outcome
<1>3. IsNext(now)'
  <2>1. IsNext(next)
    BY DEF Typed
  <2> QED
    BY <2>1 DEF IsNext, IsPoint, Outcome, Scan, Sentinel, Cycle, NotFound
<1> QED
  BY <1>1, <1>2, <1>3 DEF Typed

\* A walk or a query answers.
LEMMA TypedReturn ==
    ASSUME TypeInv, Same, NEW v \in Outcome, Return(v)
    PROVE  Typed(stack, now)'
<1>1. IsNext(Returning(v))
  BY DEF IsNext, Returning
<1>2. PICK s, next : s = stack /\ next = Returning(v)
  OBVIOUS
<1>3. Typed(s, next) /\ stack' = s /\ now' = next /\ prog' = prog
  BY <1>1, <1>2 DEF TypeInv, Typed, Return, Same
<1> QED
  BY <1>3, TypedNext

\* Giving up is an answer.
LEMMA TypedUnknown ==
    ASSUME TypeInv, Same, NEW r \in Reason, Return(Unknown(r))
    PROVE  Typed(stack, now)'
  BY TypedReturn, ResultsAreMade DEF Outcome

\* A call with one frame waiting for it.
LEMMA TypedPush ==
    ASSUME NEW s, IsSequence(s), \A n \in DOMAIN s : IsFrame(s[n]), NEW f, IsFrame(f),
           NEW next, IsNext(next)
    PROVE  Typed(<<f>> \o s, next)
<1>1. PICK t : t = <<f>> \o s
  OBVIOUS
<1>2. /\ IsSequence(t) /\ t[1] = f
      /\ \A n \in DOMAIN s : t[n + 1] = s[n]
      /\ \A n \in DOMAIN t : n = 1 \/ n - 1 \in DOMAIN s
  BY <1>1, Calling
<1>3. ASSUME NEW n \in DOMAIN t
      PROVE  IsFrame(t[n])
  <2>1. CASE n = 1
    BY <1>2, <2>1
  <2>2. CASE n # 1
    <3>1. n - 1 \in DOMAIN s /\ n \in Nat
      BY <1>2, <2>2, Positions
    <3>2. t[(n - 1) + 1] = s[n - 1] /\ (n - 1) + 1 = n
      BY <1>2, <3>1
    <3> QED
      BY <3>1, <3>2
  <2> QED
    BY <2>1, <2>2
<1> QED
  BY <1>1, <1>2, <1>3 DEF Typed

\* A call with at most one frame more.
LEMMA TypedCall ==
    ASSUME TypeInv, Same, NEW next, IsNext(next), NEW frames, CallWith(next, frames),
           frames = <<>> \/ \E f : frames = <<f>> /\ IsFrame(f)
    PROVE  Typed(stack, now)'
<1>1. PICK s, n : s = frames \o stack /\ n = next
  OBVIOUS
<1>2. stack' = s /\ now' = n /\ prog' = prog
  BY <1>1 DEF CallWith, Same
<1>3. IsSequence(stack) /\ \A k \in DOMAIN stack : IsFrame(stack[k])
  BY DEF TypeInv, Typed
<1>4. Typed(s, n)
  <2>1. CASE frames = <<>>
    <3>1. s = stack
      BY <1>1, <1>3, <2>1, NoCall
    <3> QED
      BY <1>1, <1>3, <3>1 DEF Typed
  <2>2. CASE \E f : frames = <<f>> /\ IsFrame(f)
    BY <1>1, <1>3, <2>2, TypedPush
  <2> QED
    BY <2>1, <2>2
<1> QED
  BY <1>2, <1>4, TypedNext

\* The frame on top is well formed, and so is what is below it.
LEMMA TypedTop ==
    ASSUME TypeInv, stack # <<>>
    PROVE  /\ IsFrame(Head(stack))
           /\ IsSequence(Tail(stack)) /\ \A n \in DOMAIN Tail(stack) : IsFrame(Tail(stack)[n])
<1>1. IsSequence(stack) /\ \A n \in DOMAIN stack : IsFrame(stack[n])
  BY DEF TypeInv, Typed
<1>2. /\ IsSequence(Tail(stack)) /\ Head(stack) = stack[1] /\ 1 \in DOMAIN stack
      /\ \A n \in DOMAIN Tail(stack) : n + 1 \in DOMAIN stack /\ Tail(stack)[n] = stack[n + 1]
  BY <1>1, Answering
<1> QED
  BY <1>1, <1>2

\* The frame on top is answered and gives way.
LEMMA TypedPop ==
    ASSUME TypeInv, Same, stack # <<>>, stack' = Tail(stack),
           NEW next, now' = next, IsNext(next)
    PROVE  Typed(stack, now)'
<1>1. PICK s : s = Tail(stack)
  OBVIOUS
<1>2. Typed(s, next)
  BY <1>1, TypedTop DEF Typed
<1> QED
  BY <1>1, <1>2, TypedNext DEF Same

\* The frame on top is answered and another takes its place.
LEMMA TypedReplace ==
    ASSUME TypeInv, Same, stack # <<>>, NEW f, IsFrame(f), stack' = <<f>> \o Tail(stack),
           NEW next, now' = next, IsNext(next)
    PROVE  Typed(stack, now)'
<1>1. PICK s : s = <<f>> \o Tail(stack)
  OBVIOUS
<1>2. Typed(s, next)
  BY <1>1, TypedTop, TypedPush
<1> QED
  BY <1>1, <1>2, TypedNext DEF Same

\* Following a pushed or loaded operand asks or answers well.
LEMMA LoadIsTyped ==
    ASSUME NEW i, IsInstruction(i), NEW n \in DOMAIN i.ops, NEW b, NEW pc, IsPoint(b, pc)
    PROVE  IsNext(LoadOperand(i.ops[n], b, pc)) /\ IsNext(Pushed(i.ops[n], b, pc))
<1>1. PICK op : op = i.ops[n]
  OBVIOUS
<1>2. /\ op.reg \in Reg \cup {NoReg} /\ op.imm \in Int /\ op.disp \in Int
      /\ IsReg(op) => op.reg \in Reg
  BY <1>1, OperandOf
<1>3. /\ IsNext(ResolveRegister(op.reg, b, pc))
      /\ IsNext(ResolveMemory(op.reg, op.disp, b, pc))
      /\ IsNext(ResolveMemory(NoReg, op.imm, b, pc))
  BY <1>2 DEF IsNext, ResolveRegister, ResolveMemory
<1>4. /\ IsNext(Returning(Unknown("UNSUPPORTED_OPERAND_SHAPE")))
      /\ IsNext(Returning(Concrete(op.imm, "INT")))
  BY <1>2, ResultsAreMade DEF IsNext, Returning, Outcome, Result, Reason, Kind
<1>5. IsNext(LoadOperand(op, b, pc))
  BY <1>3, <1>4 DEF LoadOperand
<1>6. IsNext(Pushed(op, b, pc))
  <2>1. CASE op.kind = "REG"
    BY <1>3, <2>1 DEF Pushed, IsReg, IsImm, IsMem
  <2>2. CASE op.kind = "IMMEDIATE"
    BY <1>4, <2>2 DEF Pushed, IsReg, IsImm, IsMem
  <2>3. CASE op.kind \in {"MEM_DIRECT", "MEM_PHRASE", "MEM_DISPL"}
    BY <1>5, <2>3 DEF Pushed, IsReg, IsImm, IsMem
  <2>4. CASE op.kind \notin {"REG", "IMMEDIATE", "MEM_DIRECT", "MEM_PHRASE", "MEM_DISPL"}
    BY <1>4, <2>4 DEF Pushed, IsReg, IsImm, IsMem
  <2> QED
    BY <2>1, <2>2, <2>3, <2>4
<1> QED
  BY <1>1, <1>5, <1>6

\* Interpreting an instruction asks or answers well.
LEMMA InterpretIsTyped ==
    ASSUME NEW i, IsInstruction(i), NEW b, NEW pc, IsPoint(b, pc), NEW n,
           n \in DOMAIN i.ops \/ n = 1
    PROVE  IsNext(Interpret(i, n, b, pc))
<1> DEFINE name == LocatorOf(i)
<1>1. name \in TwoOperands => 1 \in DOMAIN i.ops /\ 2 \in DOMAIN i.ops
  BY LocatorShape
<1>2. ASSUME NEW r \in Reg \cup {NoReg}
      PROVE  IsNext(ResolveRegister(r, b, pc))
  BY <1>2 DEF IsNext, ResolveRegister
<1>3. ASSUME NEW v \in Result
      PROVE  IsNext(Returning(v))
  BY <1>3 DEF IsNext, Returning, Outcome
<1>4. CASE name \in {"mov_reg_reg", "mov_mem_reg", "lea_reg_displ", "add_sub_reg_imm"}
  <2>1. i.ops[1].reg \in Reg \cup {NoReg} /\ i.ops[2].reg \in Reg \cup {NoReg}
    BY <1>1, <1>4, OperandOf DEF TwoOperands
  <2> QED
    BY <1>2, <1>4, <2>1 DEF Interpret
<1>5. CASE name = "xchg_reg_reg"
  <2>1. DOMAIN i.ops = 1..2 /\ n \in 1..2
    BY <1>5, LocatorShape
  <2>2. 3 - n \in 1..2
    BY <2>1
  <2>3. i.ops[3 - n].reg \in Reg \cup {NoReg}
    BY <2>1, <2>2, OperandOf
  <2> QED
    BY <1>2, <1>5, <2>3 DEF Interpret
<1>6. CASE name = "mov_reg_mem"
  BY <1>1, <1>6, LoadIsTyped DEF Interpret, TwoOperands
<1>7. CASE name = "push"
  BY <1>7, LocatorShape, LoadIsTyped DEF Interpret
<1>8. CASE name \in {"mov_reg_imm", "mov_mem_imm"}
  <2>1. Concrete(i.ops[2].imm, "INT") \in Result
    BY <1>1, <1>8, OperandOf, ResultsAreMade DEF TwoOperands, Result, Kind
  <2> QED
    BY <1>3, <1>8, <2>1 DEF Interpret
<1>9. CASE name = "lea_reg_addr"
  <2>1. Concrete(i.ops[2].imm, "POINTER") \in Result
    BY <1>1, <1>9, OperandOf, ResultsAreMade DEF TwoOperands, Result, Kind
  <2> QED
    BY <1>3, <1>9, <2>1 DEF Interpret
<1>10. CASE name = "zero_idiom"
  <2>1. Concrete(0, "INT") \in Result
    BY ResultsAreMade DEF Result, Kind
  <2> QED
    BY <1>3, <1>10, <2>1 DEF Interpret
<1>11. CASE name = "call_return"
  <2>1. <<"ret", i.ea>> \in Expr
    BY DEF IsInstruction, Expr
  <2>2. Symbolic(<<"ret", i.ea>>) \in Result
    BY <2>1, ResultsAreMade DEF Result
  <2> QED
    BY <1>3, <1>11, <2>2 DEF Interpret
<1>12. CASE name \notin {"mov_reg_reg", "mov_mem_reg", "lea_reg_displ", "add_sub_reg_imm",
                         "xchg_reg_reg", "mov_reg_mem", "push", "mov_reg_imm", "mov_mem_imm",
                         "lea_reg_addr", "zero_idiom", "call_return"}
  <2>1. Unknown("DIVERGENT_PATHS") \in Result /\ Unknown("UNSUPPORTED_INSTRUCTION") \in Result
    BY ResultsAreMade DEF Reason
  <2> QED
    BY <1>3, <1>12, <2>1 DEF Interpret
<1> QED
  BY <1>4, <1>5, <1>6, <1>7, <1>8, <1>9, <1>10, <1>11, <1>12

\* The adjustment waiting for its answer is a well-formed frame.
LEMMA AdjustmentIsTyped ==
    ASSUME NEW i, IsInstruction(i)
    PROVE  Adjustment(i) = <<>> \/ \E f : Adjustment(i) = <<f>> /\ IsFrame(f)
<1>1. LocatorOf(i) \in TwoOperands => 1 \in DOMAIN i.ops /\ 2 \in DOMAIN i.ops
  BY LocatorShape
<1>2. CASE LocatorOf(i) = "lea_reg_displ"
  <2>1. PICK f : f = [for |-> "lea", delta |-> i.ops[2].disp, size |-> i.ops[1].size]
    OBVIOUS
  <2>2. f.for = "lea" /\ f.delta \in Int /\ f.size \in 0..8
    BY <1>1, <1>2, <2>1, OperandOf DEF TwoOperands
  <2>3. IsFrame(f)
    BY <2>2, FrameKinds
  <2> QED
    BY <1>2, <2>1, <2>3 DEF Adjustment
<1>3. CASE LocatorOf(i) = "add_sub_reg_imm"
  <2>1. PICK f : f = [for |-> "add", size |-> i.ops[1].size,
                      delta |-> IF i.mnem = "add" THEN i.ops[2].imm ELSE -i.ops[2].imm]
    OBVIOUS
  <2>2. i.ops[2].imm \in Int /\ i.ops[1].size \in 0..8
    BY <1>1, <1>3, OperandOf DEF TwoOperands
  <2>3. f.for = "add" /\ f.delta \in Int /\ f.size \in 0..8
    BY <2>1, <2>2
  <2>4. IsFrame(f)
    BY <2>3, FrameKinds
  <2> QED
    BY <1>3, <2>1, <2>4 DEF Adjustment
<1>4. CASE LocatorOf(i) \notin {"lea_reg_displ", "add_sub_reg_imm"}
  BY <1>4 DEF Adjustment
<1> QED
  BY <1>2, <1>3, <1>4

\* What an instruction defines it with is one of its operands.
LEMMA MatchedOperand ==
    ASSUME NEW i, IsInstruction(i), NEW key, IsKey(key)
    PROVE  /\ Match(i, key).is \in {"pass", "stop", "definition"}
           /\ Match(i, key).is = "stop" => Match(i, key).reason \in Reason
           /\ Match(i, key).is = "definition" =>
                Match(i, key).operand \in DOMAIN i.ops \/ Match(i, key).operand = 1
<1>1. DOMAIN i.ops \subseteq Nat
  BY OperandOf
<1>2. ASSUME NEW hits \in SUBSET DOMAIN i.ops, hits # {}
      PROVE  Least(hits) \in DOMAIN i.ops
  BY <1>1, <1>2, LeastIsLeast
<1>3. CASE key.of = "register"
  <2> DEFINE view(n) == RegisterView(i.ops[n].reg, i.ops[n].size)
             query0 == RegisterView(key.reg, 0)
             hits == {n \in DOMAIN i.ops : /\ IsReg(i.ops[n]) /\ i.ops[n].written
                                           /\ view(n).parent = query0.parent}
  <2>1. hits # {} => Least(hits) \in DOMAIN i.ops
    BY <1>2
  <2> DEFINE write == view(Least(hits))
             whole == write.definesParent \/ (write.offset = 0 /\ write.bits >= query0.bits)
             clobbered == {key.reg, query0.parent} \cap Clobbered # {}
  <2>2. Match(i, key) =
          IF i.mnem = "call" /\ key.reg = RetReg THEN Definition(1)
          ELSE IF i.mnem = "call" /\ clobbered THEN Stop("NO_DEFINITION_FOUND")
          ELSE IF hits = {} THEN Pass
          ELSE IF whole THEN Definition(Least(hits))
          ELSE Stop("UNSUPPORTED_OPERAND_SHAPE")
    BY <1>3 DEF Match, MatchRegister
  <2> HIDE DEF hits, whole, clobbered
  <2> QED
    BY <2>1, <2>2 DEF Definition, Stop, Pass, Reason
<1>4. CASE key.of # "register"
  <2> DEFINE hits == {n \in DOMAIN i.ops :
                   /\ IsMem(i.ops[n]) /\ i.ops[n].written
                   /\ i.ops[n].kind = "MEM_DIRECT" \/ i.ops[n].reg # NoReg
                   /\ IF i.ops[n].index THEN CellOf(i, i.ops[n]).space = key.cell.space
                                        ELSE CellOf(i, i.ops[n]) = key.cell}
  <2>1. hits # {} => Least(hits) \in DOMAIN i.ops
    BY <1>2
  <2>2. Match(i, key) =
          IF hits = {} THEN Pass
          ELSE IF i.ops[Least(hits)].index THEN Stop("UNSUPPORTED_OPERAND_SHAPE")
          ELSE Definition(Least(hits))
    BY <1>4 DEF Match, MatchMemory
  <2> HIDE DEF hits
  <2> QED
    BY <2>1, <2>2 DEF Definition, Stop, Pass, Reason
<1> QED
  BY <1>3, <1>4

\* A memory reference names a cell.
LEMMA LocationIsCell ==
    ASSUME NEW i, IsInstruction(i), NEW base, NEW disp \in Int
    PROVE  Location(i, base, disp).off \in Int
<1>1. i.delta # <<>> => i.delta[1] \in Int
  BY DEF IsInstruction
<1>2. i.delta # <<>> => i.delta[1] + disp \in Int
  BY <1>1
<1> QED
  BY <1>2 DEF Location

\* What is known of the call about to be made.
LEMMA CallIsTyped ==
    ASSUME TypeInv
    PROVE  /\ now.do \in {"register", "memory", "instruction"} =>
                IsPoint(now.block, now.pc) /\ IsInstruction(InsnAt(now.block, now.pc))
           /\ now.do = "register" => now.reg \in Reg \cup {NoReg}
           /\ now.do = "memory" => now.base \in Reg \cup {NoReg} /\ now.disp \in Int
           /\ now.do = "scan" =>
                /\ now = Scan(now.key, now.block, now.pc, now.visited)
                /\ IsKey(now.key) /\ now.visited \subseteq prog.blocks
                /\ now.block \in prog.blocks /\ now.pc \in 0..Len(prog.code[now.block])
                /\ Len(prog.code[now.block]) \in Nat
           /\ now.do = "dereference" => now.addr \in Int
           /\ now.do = "return" => now.value \in Outcome
<1>1. IsNext(now) /\ prog \in Programs
  BY DEF TypeInv, Typed
<1>2. now.do \in {"register", "memory", "instruction"} => IsPoint(now.block, now.pc)
  BY <1>1 DEF IsNext, Scan
<1>3. now.do \in {"register", "memory", "instruction"} => IsInstruction(InsnAt(now.block, now.pc))
  BY <1>1, <1>2, BlockOfProgram DEF IsPoint, InsnAt
<1>4. ASSUME now.do = "scan"
      PROVE  /\ now = Scan(now.key, now.block, now.pc, now.visited)
             /\ IsKey(now.key) /\ now.visited \subseteq prog.blocks
             /\ now.block \in prog.blocks /\ now.pc \in 0..Len(prog.code[now.block])
  <2>1. PICK key, b, n, visited :
          /\ now = Scan(key, b, n, visited)
          /\ IsKey(key) /\ b \in prog.blocks /\ n \in 0..Len(prog.code[b])
          /\ visited \subseteq prog.blocks
    BY <1>1, <1>4 DEF IsNext
  <2>2. now.key = key /\ now.block = b /\ now.pc = n /\ now.visited = visited
    BY <2>1 DEF Scan
  <2> QED
    BY <2>1, <2>2
<1>5. /\ now.do = "register" => now.reg \in Reg \cup {NoReg}
      /\ now.do = "memory" => now.base \in Reg \cup {NoReg} /\ now.disp \in Int
      /\ now.do = "dereference" => now.addr \in Int
      /\ now.do = "return" => now.value \in Outcome
  BY <1>1 DEF IsNext, Scan
<1> QED
  BY <1>1, <1>2, <1>3, <1>4, <1>5, BlockOfProgram

\* A walk of whole or part of a block, for a key.
LEMMA ScanIsTyped ==
    ASSUME prog \in Programs, NEW key, IsKey(key), NEW b \in prog.blocks,
           NEW visited \in SUBSET prog.blocks
    PROVE  /\ \A n \in 0..Len(prog.code[b]) : IsNext(Scan(key, b, n, visited))
           /\ IsNext(ScanWhole(key, b, visited))
<1>1. Len(prog.code[b]) \in Nat
  BY BlockOfProgram
<1>2. \A n \in 0..Len(prog.code[b]) : IsNext(Scan(key, b, n, visited))
  BY DEF IsNext
<1> QED
  BY <1>1, <1>2 DEF ScanWhole

\* Beginning a query keeps the types.
LEMMA StartsAreTyped ==
    ASSUME TypeInv, StartRegister \/ StartMemory \/ StartInstruction
    PROVE  Typed(stack, now)'
<1>0. Same /\ prog \in Programs
  BY DEF StartRegister, StartMemory, StartInstruction, TypeInv
<1>1. CASE StartRegister
  <2>1. now.do = "register" /\ IsPoint(now.block, now.pc)
    BY <1>1, CallIsTyped DEF StartRegister
  <2>2. CASE now.reg = NoReg \/ ~StepLeft \/ ~prog.owned
    <3>1. \E r \in Reason : Return(Unknown(r))
      BY <1>1, <2>2 DEF StartRegister, OutOfBudget, Reason
    <3> QED
      BY <1>0, <3>1, TypedUnknown
  <2>3. CASE ~(now.reg = NoReg \/ ~StepLeft \/ ~prog.owned)
    <3>1. PICK next, f : /\ next = Scan(RegisterKey(now.reg), now.block, now.pc - 1, {})
                         /\ f = [for |-> "register"]
      OBVIOUS
    <3>2. CallWith(next, <<f>>)
      BY <1>1, <2>3, <3>1 DEF StartRegister
    <3>3. IsKey(RegisterKey(now.reg))
      BY <2>1, <2>3, CallIsTyped DEF IsKey, RegisterKey
    <3>4. now.block \in prog.blocks /\ now.pc - 1 \in 0..Len(prog.code[now.block])
      BY <1>0, <2>1, BlockOfProgram DEF IsPoint
    <3>5. IsNext(next)
      BY <1>0, <3>1, <3>3, <3>4, ScanIsTyped
    <3>6. IsFrame(f)
      BY <3>1, FrameKinds
    <3> QED
      BY <1>0, <3>2, <3>5, <3>6, TypedCall
  <2> QED
    BY <2>2, <2>3
<1>2. CASE StartMemory
  <2>1. /\ now.do = "memory" /\ IsPoint(now.block, now.pc)
        /\ IsInstruction(InsnAt(now.block, now.pc))
        /\ now.base \in Reg \cup {NoReg} /\ now.disp \in Int
    BY <1>2, CallIsTyped DEF StartMemory
  <2>2. PICK cell, f :
          /\ cell = Location(InsnAt(now.block, now.pc), now.base, now.disp)
          /\ f = [for |-> "memory", base |-> now.base, disp |-> now.disp,
                  block |-> now.block, pc |-> now.pc]
    OBVIOUS
  <2>3. IsFrame(f)
    BY <2>1, <2>2, FrameKinds
  <2>4. IsKey(MemoryKey(cell))
    BY <2>1, <2>2, LocationIsCell DEF IsKey, MemoryKey
  <2>5. now.block \in prog.blocks /\ now.pc - 1 \in 0..Len(prog.code[now.block])
    BY <1>0, <2>1, BlockOfProgram DEF IsPoint
  <2>6. IsNext(Scan(MemoryKey(cell), now.block, now.pc - 1, {}))
    BY <1>0, <2>4, <2>5, ScanIsTyped
  <2>7. IsNext(Returning(NotFound))
    BY DEF IsNext, Returning, Outcome, Sentinel
  <2>8. \/ Return(Unknown("BUDGET_EXCEEDED"))
        \/ CallWith(Returning(NotFound), <<f>>)
        \/ CallWith(Scan(MemoryKey(cell), now.block, now.pc - 1, {}), <<f>>)
    BY <1>2, <2>2 DEF StartMemory, OutOfBudget
  <2>9. "BUDGET_EXCEEDED" \in Reason
    BY DEF Reason
  <2> QED
    BY <1>0, <2>3, <2>6, <2>7, <2>8, <2>9, TypedUnknown, TypedCall
<1>3. CASE StartInstruction
  <2>1. PICK i : i = InsnAt(now.block, now.pc)
    OBVIOUS
  <2>2. IsPoint(now.block, now.pc) /\ IsInstruction(i)
    BY <1>3, <2>1, CallIsTyped DEF StartInstruction
  <2>3. \/ Return(Unknown("BUDGET_EXCEEDED"))
        \/ CallWith(Interpret(i, 1, now.block, now.pc), Adjustment(i))
    BY <1>3, <2>1 DEF StartInstruction, OutOfBudget
  <2>4. IsNext(Interpret(i, 1, now.block, now.pc))
    BY <2>2, InterpretIsTyped
  <2>5. "BUDGET_EXCEEDED" \in Reason
    BY DEF Reason
  <2>6. Adjustment(i) = <<>> \/ \E f : Adjustment(i) = <<f>> /\ IsFrame(f)
    BY <2>2, AdjustmentIsTyped
  <2> QED
    BY <1>0, <2>3, <2>4, <2>5, <2>6, TypedUnknown, TypedCall
<1> QED
  BY <1>1, <1>2, <1>3

\* Looking at an instruction keeps the types.
LEMMA LookIsTyped ==
    ASSUME TypeInv, Look
    PROVE  Typed(stack, now)'
<1>0. Same /\ prog \in Programs /\ now.do = "scan" /\ now.pc > 0
  BY DEF Look, TypeInv
<1>1. PICK key, b, n, visited :
        key = now.key /\ b = now.block /\ n = now.pc /\ visited = now.visited
  OBVIOUS
<1>2. PICK i : i = InsnAt(b, n)
  OBVIOUS
<1>3. /\ now = Scan(key, b, n, visited) /\ IsKey(key) /\ visited \subseteq prog.blocks
      /\ b \in prog.blocks /\ n \in 0..Len(prog.code[b]) /\ Len(prog.code[b]) \in Nat
  BY <1>0, <1>1, CallIsTyped
<1>4. n \in 1..Len(prog.code[b]) /\ n - 1 \in 0..Len(prog.code[b])
  BY <1>0, <1>1, <1>3
<1>5. IsPoint(b, n) /\ IsInstruction(i)
  BY <1>0, <1>2, <1>3, <1>4, BlockOfProgram DEF IsPoint, InsnAt
<1>6. CASE ~StepLeft
  <2>1. Return(Unknown("BUDGET_EXCEEDED")) /\ "BUDGET_EXCEEDED" \in Reason
    BY <1>6 DEF Look, OutOfBudget, Reason
  <2> QED
    BY <1>0, <2>1, TypedUnknown
<1>7. CASE StepLeft /\ Match(i, key).is = "pass"
  <2>1. now' = [now EXCEPT !.pc = @ - 1] /\ stack' = stack
    BY <1>1, <1>2, <1>7 DEF Look
  <2>2. PICK next : next = Scan(key, b, n - 1, visited)
    OBVIOUS
  <2>3. now' = next
    BY <1>3, <2>1, <2>2 DEF Scan
  <2>4. IsNext(next)
    BY <1>0, <1>3, <1>4, <2>2, ScanIsTyped
  <2>5. PICK s : s = stack
    OBVIOUS
  <2>6. Typed(s, next)
    BY <2>4, <2>5 DEF TypeInv, Typed
  <2> QED
    BY <1>0, <2>1, <2>3, <2>5, <2>6, TypedNext DEF Same
<1>8. CASE StepLeft /\ Match(i, key).is = "stop"
  <2>1. Match(i, key).reason \in Reason
    BY <1>3, <1>5, <1>8, MatchedOperand
  <2>2. Return(Unknown(Match(i, key).reason))
    BY <1>1, <1>2, <1>8 DEF Look
  <2> QED
    BY <1>0, <2>1, <2>2, TypedUnknown
<1>9. CASE StepLeft /\ Match(i, key).is \notin {"pass", "stop"}
  <2>1. PICK o : o = Match(i, key).operand
    OBVIOUS
  <2>2. o \in DOMAIN i.ops \/ o = 1
    BY <1>3, <1>5, <1>9, <2>1, MatchedOperand
  <2>3. CallWith(Interpret(i, o, b, n), Adjustment(i))
    BY <1>1, <1>2, <1>9, <2>1 DEF Look
  <2>4. IsNext(Interpret(i, o, b, n))
    BY <1>5, <2>2, InterpretIsTyped
  <2>5. Adjustment(i) = <<>> \/ \E f : Adjustment(i) = <<f>> /\ IsFrame(f)
    BY <1>5, AdjustmentIsTyped
  <2> QED
    BY <1>0, <2>3, <2>4, <2>5, TypedCall
<1> QED
  BY <1>6, <1>7, <1>8, <1>9

\* Leaving a block keeps the types.
LEMMA LeaveBlockIsTyped ==
    ASSUME TypeInv, LeaveBlock
    PROVE  Typed(stack, now)'
<1>0. Same /\ prog \in Programs /\ now.do = "scan"
  BY DEF LeaveBlock, TypeInv
<1>1. PICK key, b, visited : key = now.key /\ b = now.block /\ visited = now.visited \cup {b}
  OBVIOUS
<1>2. IsKey(key) /\ b \in prog.blocks /\ visited \subseteq prog.blocks /\ b \in visited
  BY <1>0, <1>1, CallIsTyped
<1>3. CASE b \in now.visited \/ prog.pred[b] = <<>>
  <2>1. \E v \in Outcome : Return(v)
    <3>1. Unknown("NO_DEFINITION_FOUND") \in Result
      BY ResultsAreMade DEF Reason
    <3>2. \/ Return(Cycle) \/ Return(NotFound) \/ Return(Unknown("NO_DEFINITION_FOUND"))
      BY <1>1, <1>3 DEF LeaveBlock
    <3> QED
      BY <3>1, <3>2 DEF Outcome, Sentinel
  <2> QED
    BY <1>0, <2>1, TypedReturn
<1>4. CASE ~(b \in now.visited \/ prog.pred[b] = <<>>) /\ ~BlockLeft
  <2>1. Return(Unknown("BUDGET_EXCEEDED")) /\ "BUDGET_EXCEEDED" \in Reason
    BY <1>1, <1>4 DEF LeaveBlock, OutOfBudget, Reason
  <2> QED
    BY <1>0, <2>1, TypedUnknown
<1>5. CASE ~(b \in now.visited \/ prog.pred[b] = <<>>) /\ BlockLeft
  <2>1. PICK next, f : /\ next = ScanWhole(key, prog.pred[b][1], visited)
                       /\ f = [for |-> "preds", key |-> key, block |-> b,
                               visited |-> visited, results |-> <<>>]
    OBVIOUS
  <2>2. CallWith(next, <<f>>)
    BY <1>1, <1>5, <2>1 DEF LeaveBlock
  <2>3. Len(prog.pred[b]) \in Nat /\ 1 <= Len(prog.pred[b]) /\ prog.pred[b][1] \in prog.blocks
    BY <1>0, <1>2, <1>5, BlockOfProgram
  <2>4. IsNext(next)
    BY <1>0, <1>2, <2>1, <2>3, ScanIsTyped
  <2>5. f.results \in Seq(Outcome) /\ Len(f.results) = 0
    BY <2>1, EmptyStack
  <2>6. Len(f.results) < Len(prog.pred[f.block])
    BY <2>1, <2>3, <2>5
  <2>7. /\ f.for = "preds" /\ IsKey(f.key) /\ f.block \in f.visited
        /\ f.visited \subseteq prog.blocks
    BY <1>2, <2>1
  <2>8. IsFrame(f)
    BY <2>5, <2>6, <2>7, FrameKinds
  <2> QED
    BY <1>0, <2>2, <2>4, <2>8, TypedCall
<1> QED
  BY <1>3, <1>4, <1>5

\* A path's result is collected well.
LEMMA CollectPathIsTyped ==
    ASSUME TypeInv, CollectPath
    PROVE  Typed(stack, now)'
<1>0. Same /\ prog \in Programs /\ now.do = "return" /\ stack # <<>> /\ Head(stack).for = "preds"
  BY DEF CollectPath, Waiting, TypeInv
<1>1. PICK f, results : f = Head(stack) /\ results = Append(f.results, now.value)
  OBVIOUS
<1>2. now.value \in Outcome
  BY <1>0, CallIsTyped
<1>3. /\ f.for = "preds" /\ IsKey(f.key) /\ f.block \in f.visited
      /\ f.visited \subseteq prog.blocks
      /\ f.results \in Seq(Outcome) /\ Len(f.results) < Len(prog.pred[f.block])
  BY <1>0, <1>1, TypedTop, FrameKinds
<1>4. results \in Seq(Outcome) /\ Len(results) \in Nat /\ Len(results) = Len(f.results) + 1
  BY <1>1, <1>2, <1>3
<1>5. CASE Len(results) < Len(prog.pred[f.block])
  <2>1. PICK next, g : /\ next = ScanWhole(f.key, prog.pred[f.block][Len(results) + 1], f.visited)
                       /\ g = [f EXCEPT !.results = results]
    OBVIOUS
  <2>2. now' = next /\ stack' = <<g>> \o Tail(stack)
    BY <1>1, <1>5, <2>1 DEF CollectPath
  <2>3. Len(prog.pred[f.block]) \in Nat /\ f.block \in prog.blocks
    BY <1>0, <1>3, BlockOfProgram
  <2>4. Len(results) + 1 \in 1..Len(prog.pred[f.block])
    BY <1>4, <1>5, <2>3
  <2>5. prog.pred[f.block][Len(results) + 1] \in prog.blocks
    BY <1>0, <2>3, <2>4, BlockOfProgram
  <2>6. IsNext(next)
    BY <1>0, <1>3, <2>1, <2>5, ScanIsTyped
  <2>7. /\ g.for = "preds" /\ g.key = f.key /\ g.block = f.block /\ g.visited = f.visited
        /\ g.results = results
    <3>1. f.results \in Seq(Outcome)
      BY <1>3
    <3> QED
      BY <1>3, <2>1
  <2>8. IsFrame(g)
    BY <1>3, <1>4, <1>5, <2>7, FrameKinds
  <2> QED
    BY <1>0, <2>2, <2>6, <2>8, TypedReplace
<1>6. CASE ~(Len(results) < Len(prog.pred[f.block]))
  <2>1. now' = Returning(JoinPaths(results)) /\ stack' = Tail(stack)
    BY <1>1, <1>6 DEF CollectPath
  <2>2. IsSequence(results) /\ \A n \in DOMAIN results : results[n] \in Outcome
    BY <1>4, SequenceOfAnything
  <2>3. JoinPaths(results) \in Outcome
    BY <2>2, JoinPathsIsOutcome
  <2>4. IsNext(Returning(JoinPaths(results)))
    BY <2>3 DEF IsNext, Returning
  <2> QED
    BY <1>0, <2>1, <2>4, TypedPop
<1> QED
  BY <1>5, <1>6

\* Ending a query keeps the types.
LEMMA FinishesAreTyped ==
    ASSUME TypeInv,
           FinishRegister \/ FinishMemory \/ FinishBase \/ FinishLea \/ FinishAdd
    PROVE  Typed(stack, now)'
<1>0. Same /\ prog \in Programs /\ now.do = "return" /\ stack # <<>>
  BY DEF FinishRegister, FinishMemory, FinishBase, FinishLea, FinishAdd, Waiting, TypeInv
<1>1. PICK f : f = Head(stack)
  OBVIOUS
<1>2. IsFrame(f) /\ now.value \in Outcome
  BY <1>0, <1>1, TypedTop, CallIsTyped
<1>3. ASSUME NEW v \in Outcome
      PROVE  IsNext(Returning(v))
  BY DEF IsNext, Returning
<1>4. Unknown("NO_DEFINITION_FOUND") \in Outcome
  BY ResultsAreMade DEF Outcome, Reason
<1>5. CASE FinishRegister
  <2>1. \E v \in Outcome : now' = Returning(v) /\ stack' = Tail(stack)
    BY <1>2, <1>4, <1>5 DEF FinishRegister
  <2> QED
    BY <1>0, <1>3, <2>1, TypedPop
<1>6. CASE FinishMemory
  <2>1. /\ f.base \in Reg \cup {NoReg} /\ f.disp \in Int /\ IsPoint(f.block, f.pc)
    BY <1>1, <1>2, <1>6, FrameKinds DEF FinishMemory, Waiting
  <2>2. CASE now.value \notin {Cycle, NotFound}
    <3>1. now' = now /\ stack' = Tail(stack)
      BY <1>6, <2>2 DEF FinishMemory
    <3>2. IsNext(now)
      BY DEF TypeInv, Typed
    <3> QED
      BY <1>0, <3>1, <3>2, TypedPop
  <2>3. CASE now.value \in {Cycle, NotFound} /\ f.base = NoReg
    <3>1. PICK next : next = [do |-> "dereference", addr |-> f.disp]
      OBVIOUS
    <3>2. now' = next /\ stack' = Tail(stack)
      BY <1>1, <1>6, <2>3, <3>1 DEF FinishMemory
    <3>3. IsNext(next)
      BY <2>1, <3>1 DEF IsNext
    <3> QED
      BY <1>0, <3>2, <3>3, TypedPop
  <2>4. CASE now.value \in {Cycle, NotFound} /\ f.base # NoReg
    <3>1. PICK next, g : /\ next = ResolveRegister(f.base, f.block, f.pc)
                         /\ g = [for |-> "base", disp |-> f.disp]
      OBVIOUS
    <3>2. now' = next /\ stack' = <<g>> \o Tail(stack)
      BY <1>1, <1>6, <2>4, <3>1 DEF FinishMemory
    <3>3. IsNext(next)
      BY <2>1, <3>1 DEF IsNext, ResolveRegister
    <3>4. IsFrame(g)
      BY <2>1, <3>1, FrameKinds
    <3> QED
      BY <1>0, <3>2, <3>3, <3>4, TypedReplace
  <2> QED
    BY <2>2, <2>3, <2>4
<1>7. CASE FinishBase
  <2>1. f.disp \in Int
    BY <1>1, <1>2, <1>7, FrameKinds DEF FinishBase, Waiting
  <2>2. stack' = Tail(stack)
    BY <1>7 DEF FinishBase
  <2>3. CASE now.value.tag = "Concrete"
    <3>1. now.value \in Result
      BY <1>2, <2>3 DEF Outcome, Sentinel, Cycle, NotFound
    <3>2. PICK a : a = now.value.value + f.disp
      OBVIOUS
    <3>3. a \in Int
      BY <2>1, <2>3, <3>1, <3>2, ResultCases
    <3>4. PICK next : next = [do |-> "dereference", addr |-> a]
      OBVIOUS
    <3>5. now' = next
      BY <1>1, <1>7, <2>3, <3>2, <3>4 DEF FinishBase
    <3>6. IsNext(next)
      BY <3>3, <3>4 DEF IsNext
    <3> QED
      BY <1>0, <2>2, <3>5, <3>6, TypedPop
  <2>4. CASE now.value.tag # "Concrete"
    <3>1. now' = Returning(Unknown("NO_DEFINITION_FOUND"))
      BY <1>7, <2>4 DEF FinishBase
    <3> QED
      BY <1>0, <1>3, <1>4, <2>2, <3>1, TypedPop
  <2> QED
    BY <2>3, <2>4
<1>8. CASE FinishLea
  <2>1. f.delta \in Int /\ f.size \in 0..8
    BY <1>1, <1>2, <1>8, FrameKinds DEF FinishLea, Waiting
  <2>2. Adjusted(now.value, f.delta, f.size, "POINTER") \in Outcome
    BY <1>2, <2>1, AdjustedIsResult DEF Outcome, Kind
  <2>3. now' = Returning(Adjusted(now.value, f.delta, f.size, "POINTER")) /\ stack' = Tail(stack)
    BY <1>1, <1>8 DEF FinishLea
  <2> QED
    BY <1>0, <1>3, <2>2, <2>3, TypedPop
<1>9. CASE FinishAdd
  <2>1. f.delta \in Int /\ f.size \in 0..8
    BY <1>1, <1>2, <1>9, FrameKinds DEF FinishAdd, Waiting
  <2>2. Adjusted(now.value, f.delta, f.size, "INT") \in Outcome
    BY <1>2, <2>1, AdjustedIsResult DEF Outcome, Kind
  <2>3. AddedTo(now.value, f.delta, f.size) \in Outcome
    BY <1>2, <2>2 DEF AddedTo
  <2>4. now' = Returning(AddedTo(now.value, f.delta, f.size)) /\ stack' = Tail(stack)
    BY <1>1, <1>9 DEF FinishAdd
  <2> QED
    BY <1>0, <1>3, <2>3, <2>4, TypedPop
<1> QED
  BY <1>5, <1>6, <1>7, <1>8, <1>9

\* Reading the database keeps the types.
LEMMA DereferenceIsTyped ==
    ASSUME TypeInv, Dereference
    PROVE  Typed(stack, now)'
<1>0. Same /\ now.addr \in Int
  BY CallIsTyped DEF Dereference
<1>1. PICK content : content = IF now.addr \in DOMAIN Image THEN Concrete(Image[now.addr], "INT")
                               ELSE Unknown("MEMORY_READ_FAILED")
  OBVIOUS
<1>2. content \in Value
  BY <1>1, ImageAssumption, ConcreteIsValue, UnknownIsValue DEF Kind, Reason
<1>3. MemoryRef(now.addr, content) \in Outcome
  BY <1>0, <1>2, ResultsAreMade DEF Outcome, Result
<1>4. Unknown("BUDGET_EXCEEDED") \in Outcome
  BY ResultsAreMade DEF Outcome, Reason
<1>5. Return(MemoryRef(now.addr, content)) \/ Return(Unknown("BUDGET_EXCEEDED"))
  BY <1>1 DEF Dereference, OutOfBudget
<1> QED
  BY <1>0, <1>3, <1>4, <1>5, TypedReturn

\* Every step keeps the types, and the counters in their ranges.
LEMMA TypeNext == TypeInv /\ [Next]_vars => TypeInv'
<1> SUFFICES ASSUME TypeInv, [Next]_vars
             PROVE  TypeInv'
  OBVIOUS
<1>1. CASE UNCHANGED vars
  <2>1. PICK s, next : s = stack /\ next = now
    OBVIOUS
  <2>2. Typed(s, next)
    BY <2>1 DEF TypeInv
  <2>3. Typed(stack, now)'
    BY <1>1, <2>1, <2>2, TypedNext DEF vars
  <2> QED
    BY <1>1, <2>3 DEF TypeInv, vars
<1>2. CASE Next
  <2>1. Typed(stack, now)'
    BY <1>2, StartsAreTyped, LookIsTyped, LeaveBlockIsTyped, DereferenceIsTyped,
       CollectPathIsTyped, FinishesAreTyped DEF Next
  <2>2. prog' = prog
    BY <1>2 DEF Next, StartRegister, StartMemory, StartInstruction, Look, LeaveBlock, Dereference,
       CollectPath, FinishRegister, FinishMemory, FinishBase, FinishLea, FinishAdd, Same
  <2>3. steps' = steps \/ UseStep
    BY <1>2 DEF Next, StartRegister, StartMemory, StartInstruction, Look, LeaveBlock, Dereference,
       CollectPath, FinishRegister, FinishMemory, FinishBase, FinishLea, FinishAdd
  <2>4. blocks' = blocks \/ UseBlock
    BY <1>2 DEF Next, StartRegister, StartMemory, StartInstruction, Look, LeaveBlock, Dereference,
       CollectPath, FinishRegister, FinishMemory, FinishBase, FinishLea, FinishAdd
  <2>5. steps' \in 0..(MaxSteps + 1)
    BY <2>3, BudgetAssumption DEF UseStep, TypeInv
  <2>6. blocks' \in 0..(MaxBlocks + 1)
    BY <2>4, BudgetAssumption DEF UseBlock, TypeInv
  <2> QED
    BY <2>1, <2>2, <2>5, <2>6 DEF TypeInv
<1> QED
  BY <1>1, <1>2

\* A query is about a point of every function it may be asked of.
LEMMA TypeInit == Init => TypeInv
<1> SUFFICES ASSUME Init
             PROVE  TypeInv
  OBVIOUS
<1>1. /\ prog \in Programs /\ IsQuery(query) /\ now = query /\ stack = <<>>
      /\ query.block \in prog.blocks /\ query.pc <= Len(prog.code[query.block])
      /\ steps = 0 /\ blocks = 0
  BY QueriesAssumption DEF Init
<1>2. IsPoint(query.block, query.pc)
  BY <1>1, BlockOfProgram DEF IsPoint, IsQuery
<1>3. IsNext(now)
  BY <1>1, <1>2 DEF IsNext, IsQuery
<1>4. IsSequence(stack) /\ DOMAIN stack = {}
  BY <1>1, EmptyStack
<1> QED
  BY <1>1, <1>3, <1>4, BudgetAssumption DEF TypeInv, Typed

\* Whatever is asked, of whatever function and under whatever budget, is well
\* formed at every level of the recursion, and so is every answer.
THEOREM TypeCorrect == Spec => []TypeOK
<1>1. TypeInv => TypeOK
  <2> SUFFICES ASSUME TypeInv
               PROVE  TypeOK
    OBVIOUS
  <2>1. \A n \in DOMAIN stack : IsFrame(stack[n])
    BY DEF TypeInv, Typed
  <2>2. now.do \in {"register", "memory", "instruction"} =>
           now.block \in prog.blocks /\ now.pc \in 1..Len(prog.code[now.block])
    BY CallIsTyped DEF IsPoint
  <2> QED
    BY <2>1, <2>2, CallIsTyped DEF TypeInv, TypeOK, Outcome, Sentinel
<1> QED
  BY <1>1, TypeInit, TypeNext, PTL DEF Spec


-----------------------------------------------------------------------------
(* What is defined before a loop is found *)

\* Register query.reg is asked for where only instruction n of the entry has set it.
Sought(n) ==
    /\ n \in DOMAIN prog.code[prog.entry]
    /\ UsedAfter(n) /\ OnlySetAtEntry(query.reg, n)

\* The constant that instruction loads.
LoadedConstant(n) == Concrete(prog.code[prog.entry][n].ops[2].imm, "INT")

\* The block the walk a frame waits for began in, and the blocks it came through.
AwaitedBlock(f) ==
    IF f.for = "register" THEN query.block ELSE prog.pred[f.block][Len(f.results) + 1]
AwaitedVisited(f) == IF f.for = "register" THEN {} ELSE f.visited

\* A frame in a walk of the register: no path says anything but the constant,
\* and if the entry can be met from its block, one of its paths has found the
\* constant or is still to be walked.
Collects(f, n) ==
    /\ f.for = "preds" /\ f.key = RegisterKey(query.reg)
    /\ f.block \in prog.blocks \ {prog.entry}
    /\ \A k \in DOMAIN f.results : f.results[k] \in {LoadedConstant(n), Cycle}
    /\ Leads(f.block, f.visited \ {f.block}) =>
         \/ \E k \in DOMAIN f.results : f.results[k] = LoadedConstant(n)
         \/ \E j \in DOMAIN prog.pred[f.block] :
               j > Len(f.results) /\ Leads(prog.pred[f.block][j], f.visited)

\* Frame f waits for the walk that frame g collects the paths of.
Continues(f, g) ==
    g.block = AwaitedBlock(f) /\ g.visited \ {g.block} = AwaitedVisited(f)

\* The walks under way: the query's at the bottom, each other one in a
\* predecessor of the block below it.
Chained(s, n) ==
    /\ IsSequence(s) /\ s # <<>>
    /\ \A m \in DOMAIN s :
         IF m = Len(s) THEN s[m].for = "register"
                       ELSE Collects(s[m], n) /\ Continues(s[m + 1], s[m])

\* A walk on its way: in the entry it is still behind the definition.
Underway(s, next, n) ==
    /\ Chained(s, n)
    /\ next.do = "scan" /\ next.key = RegisterKey(query.reg)
    /\ next.block = AwaitedBlock(s[1]) /\ next.visited = AwaitedVisited(s[1])
    /\ next.block = prog.entry => n <= next.pc

\* A walk that has come back, with the constant if it can have met the entry.
CameBack(s, next, n) ==
    /\ Chained(s, n)
    /\ next.do = "return" /\ next.value \in {LoadedConstant(n), Cycle}
    /\ Leads(AwaitedBlock(s[1]), AwaitedVisited(s[1])) => next.value = LoadedConstant(n)

\* The query is asked or answered, or a walk is under way.
Walking(s, next, n) ==
    \/ s = <<>> /\ next = query
    \/ s = <<>> /\ next = Returning(LoadedConstant(n))
    \/ Underway(s, next, n)
    \/ CameBack(s, next, n)

WalkInv ==
    /\ TypeInv /\ DepthInv
    /\ Exhausted \/ \A n : Sought(n) => Walking(stack, now, n)

\* If the entry can be met from a block, it can be met through a predecessor.
LEMMA WayBack ==
    ASSUME NEW b \in prog.blocks, b # prog.entry, NEW V, Leads(b, V)
    PROVE  \E j \in DOMAIN prog.pred[b] : Leads(prog.pred[b][j], V \cup {b})
<1> DEFINE Closed(S, W) ==
             \A s \in S : \A k \in DOMAIN prog.pred[s] : prog.pred[s][k] \in S \cup W
           Sealed == {S \in SUBSET prog.blocks : Closed(S, V \cup {b}) /\ prog.entry \notin S}
           All == {x \in prog.blocks : x = b \/ \E S \in Sealed : x \in S}
<1> SUFFICES ASSUME \A j \in DOMAIN prog.pred[b] : ~Leads(prog.pred[b][j], V \cup {b})
             PROVE  FALSE
  OBVIOUS
<1>1. ASSUME NEW j \in DOMAIN prog.pred[b], prog.pred[b][j] \notin V \cup {b}
      PROVE  \E S \in Sealed : prog.pred[b][j] \in S
  BY <1>1 DEF Leads
<1>2. \A S \in Sealed : S \subseteq prog.blocks /\ prog.entry \notin S /\ Closed(S, V \cup {b})
  OBVIOUS
<1> HIDE DEF Sealed
<1>6. \A x : x \in All <=> x = b \/ \E S \in Sealed : x \in S
  BY <1>2
<1> HIDE DEF All
<1>7. All \subseteq prog.blocks /\ b \in All /\ prog.entry \notin All
  BY <1>2, <1>6
<1>3. ASSUME NEW s \in All, NEW k \in DOMAIN prog.pred[s]
      PROVE  prog.pred[s][k] \in All \cup V
  <2>1. CASE s = b
    BY <1>1, <1>3, <1>6, <2>1
  <2>2. CASE s # b
    <3>1. PICK S \in Sealed : s \in S
      BY <1>6, <2>2
    <3>2. prog.pred[s][k] \in S \cup (V \cup {b})
      BY <1>2, <1>3, <3>1
    <3> QED
      BY <1>6, <3>1, <3>2
  <2> QED
    BY <2>1, <2>2
<1>4. Closed(All, V)
  BY <1>3
<1>5. prog.entry \in All
  BY <1>4, <1>7 DEF Leads
<1> QED
  BY <1>5, <1>7

\* A step after which walks are under way, in the same function for the same query.
LEMMA WalkingNext ==
    ASSUME NEW s, NEW next, stack' = s, now' = next, Same, NEW n, Walking(s, next, n)
    PROVE  Walking(stack, now, n)'
<1>0. prog' = prog /\ query' = query /\ LoadedConstant(n)' = LoadedConstant(n)
  BY DEF Same, LoadedConstant
<1>1. Leads(AwaitedBlock(s[1]), AwaitedVisited(s[1]))'
        = Leads(AwaitedBlock(s[1]), AwaitedVisited(s[1]))
  BY <1>0 DEF Leads, AwaitedBlock, AwaitedVisited
<1>2. ASSUME Chained(s, n)
      PROVE  Chained(stack, n)'
  <2>1. ASSUME NEW m \in DOMAIN stack', m # Len(stack')
        PROVE  Collects(stack[m], n)'
    <3>1. Collects(s[m], n)
      BY <1>2, <2>1 DEF Chained
    <3> QED
      BY <1>0, <3>1 DEF Collects, Leads
  <2>2. ASSUME NEW m \in DOMAIN stack', m # Len(stack')
        PROVE  Continues(stack[m + 1], stack[m])'
    <3>1. Continues(s[m + 1], s[m])
      BY <1>2, <2>2 DEF Chained
    <3> QED
      BY <1>0, <3>1 DEF Continues, AwaitedBlock, AwaitedVisited
  <2>3. ASSUME NEW m \in DOMAIN stack', m = Len(stack')
        PROVE  stack'[m].for = "register"
    BY <1>2, <2>3 DEF Chained
  <2>4. IsSequence(stack)' /\ stack' # <<>>
    BY <1>2 DEF Chained, IsSequence
  <2> QED
    BY <2>1, <2>2, <2>3, <2>4 DEF Chained
<1> QED
  BY <1>0, <1>1, <1>2 DEF Walking, Underway, CameBack, AwaitedBlock, AwaitedVisited

\* What is sought is sought throughout.
LEMMA SoughtNext ==
    ASSUME Same, NEW n
    PROVE  Sought(n)' <=> Sought(n)
  BY DEF Same, Sought, UsedAfter, OnlySetAtEntry, Leads

\* The defining instruction yields its constant, and every other one of the
\* function passes the walk on.
LEMMA SoughtDefinition ==
    ASSUME prog \in Programs, NEW n, Sought(n), NEW b \in prog.blocks,
           NEW m \in 1..Len(prog.code[b])
    PROVE  /\ <<b, m>> # <<prog.entry, n>> =>
                Match(prog.code[b][m], RegisterKey(query.reg)).is = "pass"
           /\ <<b, m>> = <<prog.entry, n>> =>
                /\ Match(prog.code[b][m], RegisterKey(query.reg)).is = "definition"
                /\ \A k, p : Interpret(prog.code[b][m], k, b, p) = Returning(LoadedConstant(n))
                /\ Adjustment(prog.code[b][m]) = <<>>
<1>1. m \in DOMAIN prog.code[b]
  BY BlockOfProgram
<1>2. \A i : Match(i, RegisterKey(query.reg)) = MatchRegister(i, query.reg)
  BY DEF Match, RegisterKey
<1>3. <<b, m>> # <<prog.entry, n>> => ~Touches(prog.code[b][m], query.reg)
  BY <1>1 DEF Sought, OnlySetAtEntry
<1>4. LocatorOf(prog.code[prog.entry][n]) = "mov_reg_imm"
      /\ MatchRegister(prog.code[prog.entry][n], query.reg).is = "definition"
  BY DEF Sought, OnlySetAtEntry
<1>5. PICK i : i = prog.code[prog.entry][n]
  OBVIOUS
<1>6. \A k, p : Interpret(i, k, b, p) = Returning(Concrete(i.ops[2].imm, "INT"))
  BY <1>4, <1>5 DEF Interpret
<1>7. Adjustment(i) = <<>>
  BY <1>4, <1>5 DEF Adjustment
<1> QED
  BY <1>2, <1>3, <1>4, <1>5, <1>6, <1>7 DEF Touches, LoadedConstant

\* A step that a budget that has not run out allows.
LEMMA BudgetHeld ==
    ASSUME TypeInv, ~Exhausted'
    PROVE  /\ UseStep => StepLeft
           /\ UseBlock => BlockLeft
<1>1. steps \in Nat /\ blocks \in Nat
  BY BudgetAssumption DEF TypeInv
<1> QED
  BY <1>1, BudgetAssumption DEF Exhausted, UseStep, UseBlock, StepLeft, BlockLeft

\* The frames of a chain: the walk the top one waits for, and what is below it.
LEMMA ChainTop ==
    ASSUME NEW s, NEW n, Chained(s, n)
    PROVE  /\ Head(s) = s[1] /\ s[1].for \in {"register", "preds"}
           /\ s[1].for = "register" <=> Tail(s) = <<>>
           /\ s[1].for = "preds" =>
                /\ Collects(s[1], n) /\ Chained(Tail(s), n)
                /\ Continues(Tail(s)[1], s[1])
<1>1. /\ IsSequence(s) /\ s # <<>>
      /\ \A m \in DOMAIN s :
           IF m = Len(s) THEN s[m].for = "register"
                         ELSE Collects(s[m], n) /\ Continues(s[m + 1], s[m])
  BY DEF Chained
<1>2. PICK t : t = Tail(s)
  OBVIOUS
<1>3. /\ IsSequence(t) /\ Len(s) \in Nat /\ Len(s) >= 1 /\ Len(t) = Len(s) - 1
      /\ Head(s) = s[1] /\ 1 \in DOMAIN s
      /\ \A m \in DOMAIN t : m + 1 \in DOMAIN s /\ t[m] = s[m + 1]
  BY <1>1, <1>2, Answering
<1>4. DOMAIN t = 1..Len(t) /\ DOMAIN s = 1..Len(s) /\ Len(t) \in Nat
  BY <1>1, <1>3, Positions
<1>5. CASE Len(s) = 1
  <2>1. t = <<>>
    BY <1>3, <1>4, <1>5 DEF IsSequence
  <2> QED
    BY <1>1, <1>2, <1>3, <1>5, <2>1
<1>6. CASE Len(s) # 1
  <2>1. 1 \in DOMAIN t /\ t # <<>>
    BY <1>3, <1>4, <1>6
  <2>2. Collects(s[1], n) /\ Continues(s[2], s[1]) /\ t[1] = s[2]
    BY <1>1, <1>3, <1>6, <2>1
  <2>3. s[1].for = "preds"
    BY <2>2 DEF Collects
  <2>4. ASSUME NEW m \in DOMAIN t
        PROVE  IF m = Len(t) THEN t[m].for = "register"
                             ELSE Collects(t[m], n) /\ Continues(t[m + 1], t[m])
    <3>1. m \in Nat /\ m + 1 \in DOMAIN s /\ t[m] = s[m + 1] /\ (m = Len(t) <=> m + 1 = Len(s))
      BY <1>3, <1>4
    <3>2. m # Len(t) => m + 1 \in DOMAIN t
      BY <1>4
    <3>3. m # Len(t) => t[m + 1] = s[(m + 1) + 1]
      BY <1>3, <3>2
    <3> QED
      BY <1>1, <3>1, <3>3
  <2>5. Chained(t, n)
    BY <1>3, <2>1, <2>4 DEF Chained
  <2> QED
    BY <1>2, <1>3, <2>1, <2>2, <2>3, <2>5
<1> QED
  BY <1>5, <1>6

\* One walk more.
LEMMA ChainPush ==
    ASSUME NEW s, NEW n, Chained(s, n), NEW f, Collects(f, n), Continues(s[1], f)
    PROVE  Chained(<<f>> \o s, n) /\ (<<f>> \o s)[1] = f
<1>1. /\ IsSequence(s) /\ s # <<>>
      /\ \A m \in DOMAIN s :
           IF m = Len(s) THEN s[m].for = "register"
                         ELSE Collects(s[m], n) /\ Continues(s[m + 1], s[m])
  BY DEF Chained
<1>2. PICK t : t = <<f>> \o s
  OBVIOUS
<1>3. /\ IsSequence(t) /\ Len(t) = Len(s) + 1 /\ t # <<>> /\ t[1] = f
      /\ \A m \in DOMAIN s : m + 1 \in DOMAIN t /\ t[m + 1] = s[m]
      /\ \A m \in DOMAIN t : m = 1 \/ m - 1 \in DOMAIN s
  BY <1>1, <1>2, Calling
<1>4. /\ DOMAIN t = 1..Len(t) /\ DOMAIN s = 1..Len(s) /\ Len(s) \in Nat /\ Len(s) >= 1
      /\ 1 \in DOMAIN s
  BY <1>1, <1>3, Positions, Answering
<1>5. 1 # Len(t) /\ t[2] = s[1]
  BY <1>3, <1>4
<1>6. ASSUME NEW m \in DOMAIN t, m # 1
      PROVE  IF m = Len(t) THEN t[m].for = "register"
                           ELSE Collects(t[m], n) /\ Continues(t[m + 1], t[m])
  <2>1. PICK k \in DOMAIN s : k = m - 1 /\ m = k + 1 /\ k \in Nat
    BY <1>3, <1>4, <1>6
  <2>2. t[m] = s[k] /\ (m = Len(t) <=> k = Len(s))
    BY <1>3, <1>4, <2>1
  <2>3. k # Len(s) => k + 1 \in DOMAIN s
    BY <1>4, <2>1
  <2>4. k # Len(s) => t[m + 1] = s[k + 1]
    BY <1>3, <2>1, <2>3
  <2> QED
    BY <1>1, <2>2, <2>4
<1>7. Collects(t[1], n) /\ Continues(t[1 + 1], t[1])
  BY <1>3, <1>5
<1>8. \A m \in DOMAIN t :
         IF m = Len(t) THEN t[m].for = "register"
                       ELSE Collects(t[m], n) /\ Continues(t[m + 1], t[m])
  BY <1>5, <1>6, <1>7
<1>9. Chained(t, n)
  BY <1>3, <1>8 DEF Chained
<1> QED
  BY <1>2, <1>3, <1>9

\* The query becomes a walk.
LEMMA SoughtFromQuery ==
    ASSUME TypeInv, NEW n, Sought(n), stack = <<>>, now = query, StartRegister, StepLeft
    PROVE  Walking(stack, now, n)'
<1>1. PICK f, s, next :
        /\ f = [for |-> "register"] /\ s = <<f>> \o <<>>
        /\ next = Scan(RegisterKey(query.reg), query.block, query.pc - 1, {})
  OBVIOUS
<1>2. stack' = s /\ now' = next /\ Same
  BY <1>1 DEF StartRegister, CallWith, Sought, UsedAfter
<1>3. s = <<f>> /\ IsSequence(s) /\ s # <<>> /\ DOMAIN s = {1} /\ Len(s) = 1 /\ s[1] = f
  <2>1. s = <<f>>
    BY <1>1
  <2>2. s \in Seq({f}) /\ s # <<>> /\ DOMAIN s = {1} /\ Len(s) = 1 /\ s[1] = f
    BY <2>1
  <2>3. IsSequence(s)
    BY <2>2, SequenceOfAnything
  <2> QED
    BY <2>1, <2>2, <2>3
<1>4. Chained(s, n)
  BY <1>1, <1>3 DEF Chained
<1>5. query.pc \in Nat /\ n \in Nat
  <2>1. now.do = "register"
    BY DEF StartRegister
  <2>2. query.block \in prog.blocks /\ query.pc \in 1..Len(prog.code[query.block])
    BY <2>1, CallIsTyped DEF IsPoint
  <2>3. prog \in Programs /\ prog.entry \in prog.blocks
    BY ProgramsAssumption DEF TypeInv, IsProgram
  <2>4. /\ Len(prog.code[query.block]) \in Nat
        /\ DOMAIN prog.code[prog.entry] = 1..Len(prog.code[prog.entry])
    BY <2>2, <2>3, BlockOfProgram
  <2> QED
    BY <2>2, <2>4 DEF Sought
<1>6. query.block = prog.entry => n <= query.pc - 1
  BY <1>5 DEF Sought, UsedAfter
<1>7. /\ next.do = "scan" /\ next.key = RegisterKey(query.reg) /\ next.block = query.block
      /\ next.visited = {} /\ next.pc = query.pc - 1
  BY <1>1 DEF Scan
<1>8. AwaitedBlock(s[1]) = query.block /\ AwaitedVisited(s[1]) = {}
  BY <1>1, <1>3 DEF AwaitedBlock, AwaitedVisited
<1>9. Walking(s, next, n)
  BY <1>4, <1>6, <1>7, <1>8 DEF Walking, Underway
<1> QED
  BY <1>2, <1>9, WalkingNext

\* It looks at an instruction: the one that is sought, or one that says nothing.
LEMMA SoughtByLooking ==
    ASSUME TypeInv, DepthInv, NEW n, Sought(n), Underway(stack, now, n), Look, StepLeft
    PROVE  Walking(stack, now, n)'
<1>1. PICK b, m, visited, i :
        b = now.block /\ m = now.pc /\ visited = now.visited /\ i = InsnAt(b, m)
  OBVIOUS
<1>2. /\ now = Scan(RegisterKey(query.reg), b, m, visited) /\ b \in prog.blocks
      /\ m \in 1..Len(prog.code[b]) /\ prog \in Programs /\ i = prog.code[b][m] /\ Same
      /\ m \in Nat /\ n \in Nat
  <2>1. now.do = "scan" /\ now.pc > 0 /\ Same /\ now.key = RegisterKey(query.reg)
    BY DEF Look, Underway
  <2>2. prog \in Programs /\ prog.entry \in prog.blocks
    BY ProgramsAssumption DEF TypeInv, IsProgram
  <2>3. /\ now = Scan(RegisterKey(query.reg), b, m, visited) /\ b \in prog.blocks
        /\ m \in 0..Len(prog.code[b]) /\ Len(prog.code[b]) \in Nat
    BY <1>1, <2>1, CallIsTyped
  <2>4. n \in Nat
    BY <2>2, BlockOfProgram DEF Sought
  <2> QED
    BY <1>1, <2>1, <2>2, <2>3, <2>4 DEF InsnAt
<1>3. PICK s : s = stack
  OBVIOUS
<1>4. Chained(s, n) /\ b = AwaitedBlock(s[1]) /\ visited = AwaitedVisited(s[1])
      /\ (b = prog.entry => n <= m) /\ IsSequence(s)
  BY <1>1, <1>3 DEF Underway, Chained
<1>5. CASE <<b, m>> = <<prog.entry, n>>
  <2>9. /\ Match(prog.code[b][m], RegisterKey(query.reg)).is = "definition"
        /\ \A k, p : Interpret(prog.code[b][m], k, b, p) = Returning(LoadedConstant(n))
        /\ Adjustment(prog.code[b][m]) = <<>>
    BY <1>2, <1>5, SoughtDefinition
  <2>1. /\ Match(i, RegisterKey(query.reg)).is = "definition"
        /\ \A k, p : Interpret(i, k, b, p) = Returning(LoadedConstant(n))
        /\ Adjustment(i) = <<>>
    BY <1>2, <2>9
  <2>6. PICK found : found = Match(i, RegisterKey(query.reg))
    OBVIOUS
  <2>7. now.key = RegisterKey(query.reg) /\ found = Match(i, now.key) /\ found.is = "definition"
    BY <1>2, <2>1, <2>6 DEF Scan
  <2>8. CallWith(Interpret(i, found.operand, b, m), Adjustment(i))
    BY <1>1, <2>7 DEF Look
  <2>2. now' = Returning(LoadedConstant(n)) /\ stack' = <<>> \o stack
    BY <2>1, <2>8 DEF CallWith
  <2>3. stack' = s
    BY <1>3, <1>4, <2>2, NoCall
  <2>4. PICK next : next = Returning(LoadedConstant(n))
    OBVIOUS
  <2>5. Walking(s, next, n)
    BY <1>4, <2>4 DEF Walking, CameBack, Returning
  <2> QED
    BY <1>2, <2>2, <2>3, <2>4, <2>5, WalkingNext
<1>6. CASE <<b, m>> # <<prog.entry, n>>
  <2>1. Match(i, RegisterKey(query.reg)).is = "pass"
    BY <1>2, <1>6, SoughtDefinition
  <2>2. now' = [now EXCEPT !.pc = @ - 1] /\ stack' = s
    BY <1>1, <1>2, <1>3, <2>1 DEF Look, Scan
  <2>3. PICK next : next = Scan(RegisterKey(query.reg), b, m - 1, visited)
    OBVIOUS
  <2>4. now' = next
    BY <1>2, <2>2, <2>3 DEF Scan
  <2>5. b = prog.entry => n <= m - 1
    BY <1>2, <1>4, <1>6
  <2>6. Walking(s, next, n)
    BY <1>4, <2>3, <2>5 DEF Walking, Underway, Scan
  <2> QED
    BY <1>2, <2>2, <2>4, <2>6, WalkingNext
<1> QED
  BY <1>5, <1>6

\* A walk reaches the start of a block without a definition.
LEMMA SoughtByLeaving ==
    ASSUME TypeInv, DepthInv, NEW n, Sought(n), Underway(stack, now, n), LeaveBlock,
           UseBlock => BlockLeft
    PROVE  Walking(stack, now, n)'
<1>1. PICK key, b, before :
        key = RegisterKey(query.reg) /\ b = now.block /\ before = now.visited
  OBVIOUS
<1>2. PICK s : s = stack
  OBVIOUS
<1>3. /\ now.do = "scan" /\ now.pc = 0 /\ Same /\ now.key = key
      /\ Chained(s, n) /\ b = AwaitedBlock(s[1]) /\ before = AwaitedVisited(s[1])
      /\ b = prog.entry => n <= 0
  BY <1>1, <1>2 DEF LeaveBlock, Underway
<1>4. prog \in Programs /\ prog.entry \in prog.blocks /\ b \in prog.blocks
  BY <1>1, <1>3, ProgramsAssumption, CallIsTyped DEF TypeInv, IsProgram
<1>5. n \in Nat /\ n > 0
  BY <1>4, BlockOfProgram DEF Sought
<1>6. b # prog.entry
  BY <1>3, <1>5
<1>7. prog.pred[b] # <<>>
  BY <1>4, <1>6 DEF Sought, UsedAfter
<1>8. CASE b \in before
  <2>1. now' = Returning(Cycle) /\ stack' = s
    BY <1>1, <1>2, <1>8 DEF LeaveBlock, Return
  <2>2. ~Leads(b, before)
    BY <1>8 DEF Leads
  <2>3. PICK next : next = Returning(Cycle)
    OBVIOUS
  <2>4. Walking(s, next, n)
    BY <1>3, <2>2, <2>3 DEF Walking, CameBack, Returning
  <2> QED
    BY <1>3, <2>1, <2>3, <2>4, WalkingNext
<1>9. CASE b \notin before
  <2>1. PICK visited, next, f :
          /\ visited = before \cup {b}
          /\ next = ScanWhole(key, prog.pred[b][1], visited)
          /\ f = [for |-> "preds", key |-> key, block |-> b,
                  visited |-> visited, results |-> <<>>]
    OBVIOUS
  <2>2. now' = next /\ stack' = <<f>> \o s
    BY <1>1, <1>2, <1>3, <1>7, <1>9, <2>1 DEF LeaveBlock, CallWith
  <2>3. /\ f.for = "preds" /\ f.key = key /\ f.block = b /\ f.visited = visited
        /\ f.results = <<>> /\ Len(f.results) = 0 /\ DOMAIN f.results = {}
    BY <2>1, EmptyStack
  <2>4. visited \ {b} = before
    BY <1>9, <2>1
  <2>5. Leads(b, before) => \E j \in DOMAIN prog.pred[b] : Leads(prog.pred[b][j], visited)
    BY <1>4, <1>6, <2>1, WayBack
  <2>6. /\ Len(prog.pred[b]) \in Nat /\ 1 <= Len(prog.pred[b]) /\ prog.pred[b][1] \in prog.blocks
        /\ DOMAIN prog.pred[b] = 1..Len(prog.pred[b])
    BY <1>4, <1>7, BlockOfProgram
  <2>7. Collects(f, n)
    <3>1. \A j \in DOMAIN prog.pred[b] : j > Len(f.results)
      BY <2>3, <2>6
    <3>2. Leads(f.block, f.visited \ {f.block}) =>
             \E j \in DOMAIN prog.pred[f.block] :
                j > Len(f.results) /\ Leads(prog.pred[f.block][j], f.visited)
      BY <2>3, <2>4, <2>5, <3>1
    <3>3. \A k \in DOMAIN f.results : f.results[k] \in {LoadedConstant(n), Cycle}
      BY <2>3
    <3>4. /\ f.for = "preds" /\ f.key = RegisterKey(query.reg)
          /\ f.block \in prog.blocks \ {prog.entry}
      BY <1>1, <1>4, <1>6, <2>3
    <3> QED
      BY <3>2, <3>3, <3>4 DEF Collects
  <2>8. Continues(s[1], f)
    BY <1>3, <2>3, <2>4 DEF Continues
  <2>9. PICK t : t = <<f>> \o s
    OBVIOUS
  <2>10. Chained(t, n) /\ t[1] = f
    BY <1>3, <2>7, <2>8, <2>9, ChainPush
  <2>11. AwaitedBlock(f) = prog.pred[b][1] /\ AwaitedVisited(f) = visited
    BY <2>3 DEF AwaitedBlock, AwaitedVisited
  <2>12. n <= Len(prog.code[prog.entry])
    BY <1>4, BlockOfProgram DEF Sought
  <2>13. /\ next.do = "scan" /\ next.key = key /\ next.block = prog.pred[b][1]
         /\ next.visited = visited /\ next.pc = Len(prog.code[prog.pred[b][1]])
    BY <2>1 DEF ScanWhole, Scan
  <2>14. Walking(t, next, n)
    BY <1>1, <2>10, <2>11, <2>12, <2>13 DEF Walking, Underway
  <2> QED
    BY <1>3, <2>2, <2>9, <2>14, WalkingNext
<1> QED
  BY <1>8, <1>9

\* Paths that say the constant or nothing join to it, or to nothing.
LEMMA JoinOfConstant ==
    ASSUME NEW results, IsSequence(results), NEW c \in Int,
           \A k \in DOMAIN results : results[k] \in {Concrete(c, "INT"), Cycle}
    PROVE  /\ JoinPaths(results) \in {Concrete(c, "INT"), Cycle}
           /\ (\E k \in DOMAIN results : results[k] = Concrete(c, "INT"))
                => JoinPaths(results) = Concrete(c, "INT")
<1>1. PICK v : v = Concrete(c, "INT")
  OBVIOUS
<1>2. v \in Value /\ v # Cycle /\ v # NotFound /\ Cycle # NotFound
  <2>1. v \in Value
    BY <1>1, ConcreteIsValue DEF Kind
  <2> QED
    BY <1>1, <2>1 DEF Concrete, Cycle, NotFound
<1>3. PICK I : I = {k \in DOMAIN results : results[k] # Cycle}
  OBVIOUS
<1>4. I \in SUBSET Nat /\ \A k \in I : results[k] = v
  BY <1>1, <1>3, Positions
<1>5. {k \in I : results[k] # NotFound} = I
  BY <1>2, <1>4
<1>6. JoinPaths(results) = IF I = {} THEN Cycle ELSE JoinOver(I, results)
  BY <1>3, <1>5 DEF JoinPaths
<1>7. I # {} => JoinOver(I, results) = v
  BY <1>2, <1>4, JoinOfEqual
<1>8. (\E k \in DOMAIN results : results[k] = v) => I # {}
  BY <1>2, <1>3
<1> QED
  BY <1>1, <1>6, <1>7, <1>8

\* The constant that is loaded is an integer.
LEMMA SoughtConstant ==
    ASSUME prog \in Programs, prog.entry \in prog.blocks, NEW n, Sought(n)
    PROVE  \E c \in Int : LoadedConstant(n) = Concrete(c, "INT")
<1>1. PICK i : i = prog.code[prog.entry][n]
  OBVIOUS
<1>2. IsInstruction(i) /\ LocatorOf(i) = "mov_reg_imm"
  BY <1>1, BlockOfProgram DEF Sought, OnlySetAtEntry
<1>3. 2 \in DOMAIN i.ops
  BY <1>2, LocatorShape DEF TwoOperands
<1>4. i.ops[2].imm \in Int
  BY <1>2, <1>3, OperandOf
<1> QED
  BY <1>1, <1>4 DEF LoadedConstant

\* A path has been walked.
LEMMA SoughtByCollecting ==
    ASSUME TypeInv, DepthInv, NEW n, Sought(n), CameBack(stack, now, n), CollectPath
    PROVE  Walking(stack, now, n)'
<1>1. PICK s, f, results : s = stack /\ f = Head(stack) /\ results = Append(f.results, now.value)
  OBVIOUS
<1>2. /\ now.do = "return" /\ s # <<>> /\ f.for = "preds" /\ Same /\ Chained(s, n)
      /\ now.value \in {LoadedConstant(n), Cycle}
      /\ Leads(AwaitedBlock(s[1]), AwaitedVisited(s[1])) => now.value = LoadedConstant(n)
  BY <1>1 DEF CollectPath, Waiting, CameBack
<1>3. PICK t : t = Tail(s)
  OBVIOUS
<1>4. f = s[1] /\ Collects(f, n) /\ Chained(t, n) /\ Continues(t[1], f)
  BY <1>1, <1>2, <1>3, ChainTop
<1>5. /\ f.block \in prog.blocks /\ f.block # prog.entry /\ f.key = RegisterKey(query.reg)
      /\ \A k \in DOMAIN f.results : f.results[k] \in {LoadedConstant(n), Cycle}
      /\ Leads(f.block, f.visited \ {f.block}) =>
           \/ \E k \in DOMAIN f.results : f.results[k] = LoadedConstant(n)
           \/ \E j \in DOMAIN prog.pred[f.block] :
                 j > Len(f.results) /\ Leads(prog.pred[f.block][j], f.visited)
  BY <1>4 DEF Collects
<1>6. PICK preds : preds = prog.pred[f.block]
  OBVIOUS
<1>7. f.results \in Seq(Outcome) /\ Len(f.results) < Len(preds) /\ now.value \in Outcome
  BY <1>1, <1>2, <1>6, TypedTop, FrameKinds, CallIsTyped
<1>8. prog \in Programs /\ prog.entry \in prog.blocks
  BY ProgramsAssumption DEF TypeInv, IsProgram
<1>9. /\ Len(preds) \in Nat /\ DOMAIN preds = 1..Len(preds)
      /\ \A k \in 1..Len(preds) : preds[k] \in prog.blocks
  BY <1>5, <1>6, <1>8, BlockOfProgram
<1>10. /\ results \in Seq(Outcome) /\ Len(results) = Len(f.results) + 1 /\ Len(f.results) \in Nat
       /\ DOMAIN results = 1..Len(results) /\ DOMAIN f.results = 1..Len(f.results)
       /\ \A k \in DOMAIN f.results : results[k] = f.results[k]
       /\ results[Len(results)] = now.value
  BY <1>1, <1>7
<1>11. \A k \in DOMAIN results : results[k] \in {LoadedConstant(n), Cycle}
  <2>1. \A k \in DOMAIN results : k = Len(results) \/ k \in DOMAIN f.results
    BY <1>10
  <2> QED
    BY <1>2, <1>5, <1>10, <2>1
<1>12. AwaitedBlock(f) = preds[Len(results)] /\ AwaitedVisited(f) = f.visited
  BY <1>2, <1>6, <1>10 DEF AwaitedBlock, AwaitedVisited
<1>13. Leads(f.block, f.visited \ {f.block}) =>
         \/ \E k \in DOMAIN results : results[k] = LoadedConstant(n)
         \/ \E j \in DOMAIN preds : j > Len(results) /\ Leads(preds[j], f.visited)
  <2>1. \A k \in DOMAIN f.results : k \in DOMAIN results
    BY <1>10
  <2>2. \A j \in DOMAIN preds : j > Len(f.results) => j = Len(results) \/ j > Len(results)
    BY <1>9, <1>10
  <2>3. Leads(preds[Len(results)], f.visited) => results[Len(results)] = LoadedConstant(n)
    BY <1>2, <1>4, <1>10, <1>12
  <2>4. Len(results) \in DOMAIN results
    BY <1>10
  <2> QED
    BY <1>5, <1>6, <1>10, <2>1, <2>2, <2>3, <2>4
<1>14. CASE Len(results) < Len(preds)
  <2>1. PICK next, g : /\ next = ScanWhole(f.key, preds[Len(results) + 1], f.visited)
                       /\ g = [f EXCEPT !.results = results]
    OBVIOUS
  <2>2. now' = next /\ stack' = <<g>> \o t
    BY <1>1, <1>3, <1>6, <1>14, <2>1 DEF CollectPath
  <2>3. /\ g.for = "preds" /\ g.key = f.key /\ g.block = f.block /\ g.visited = f.visited
        /\ g.results = results
    BY <1>2, <1>7, <2>1
  <2>4. Collects(g, n)
    BY <1>5, <1>6, <1>11, <1>13, <2>3 DEF Collects
  <2>5. Continues(t[1], g)
    BY <1>4, <2>3 DEF Continues
  <2>6. PICK u : u = <<g>> \o t
    OBVIOUS
  <2>7. Chained(u, n) /\ u[1] = g
    BY <1>4, <2>4, <2>5, <2>6, ChainPush
  <2>8. AwaitedBlock(g) = preds[Len(results) + 1] /\ AwaitedVisited(g) = f.visited
    BY <1>6, <2>3 DEF AwaitedBlock, AwaitedVisited
  <2>9. n <= Len(prog.code[prog.entry])
    BY <1>8, BlockOfProgram DEF Sought
  <2>10. PICK q : q = preds[Len(results) + 1]
    OBVIOUS
  <2>11. /\ next.do = "scan" /\ next.key = f.key /\ next.block = q
         /\ next.visited = f.visited /\ next.pc = Len(prog.code[q])
    BY <2>1, <2>10 DEF ScanWhole, Scan
  <2>12. Walking(u, next, n)
    BY <1>5, <2>7, <2>8, <2>9, <2>10, <2>11 DEF Walking, Underway
  <2> QED
    BY <1>2, <2>2, <2>6, <2>12, WalkingNext
<1>15. CASE ~(Len(results) < Len(preds))
  <2>1. PICK next : next = Returning(JoinPaths(results))
    OBVIOUS
  <2>2. now' = next /\ stack' = t
    BY <1>1, <1>3, <1>6, <1>15, <2>1 DEF CollectPath
  <2>3. \A j \in DOMAIN preds : ~(j > Len(results))
    BY <1>9, <1>10, <1>15
  <2>4. PICK c \in Int : LoadedConstant(n) = Concrete(c, "INT")
    BY <1>8, SoughtConstant
  <2>5. IsSequence(results)
    BY <1>10, SequenceOfAnything
  <2>6. /\ JoinPaths(results) \in {LoadedConstant(n), Cycle}
        /\ (\E k \in DOMAIN results : results[k] = LoadedConstant(n))
             => JoinPaths(results) = LoadedConstant(n)
    BY <1>11, <2>4, <2>5, JoinOfConstant
  <2>7. Leads(AwaitedBlock(t[1]), AwaitedVisited(t[1])) => JoinPaths(results) = LoadedConstant(n)
    BY <1>4, <1>13, <2>3, <2>6 DEF Continues
  <2>8. Walking(t, next, n)
    BY <1>4, <2>1, <2>6, <2>7 DEF Walking, CameBack, Returning
  <2> QED
    BY <1>2, <2>2, <2>8, WalkingNext
<1> QED
  BY <1>14, <1>15

\* The walk the query started answers it.
LEMMA SoughtIsFound ==
    ASSUME TypeInv, NEW n, Sought(n), CameBack(stack, now, n), FinishRegister
    PROVE  Walking(stack, now, n)'
<1>1. PICK s : s = stack
  OBVIOUS
<1>2. /\ Chained(s, n) /\ Head(s).for = "register" /\ Same
      /\ Leads(AwaitedBlock(s[1]), AwaitedVisited(s[1])) => now.value = LoadedConstant(n)
  BY <1>1 DEF FinishRegister, Waiting, CameBack
<1>3. s[1].for = "register" /\ Tail(s) = <<>>
  BY <1>2, ChainTop
<1>4. now.value = LoadedConstant(n)
  BY <1>2, <1>3 DEF AwaitedBlock, AwaitedVisited, Sought, UsedAfter
<1>5. now.value # Cycle
  BY <1>4 DEF LoadedConstant, Concrete, Cycle
<1>6. PICK next, t : next = Returning(LoadedConstant(n)) /\ t = <<>>
  OBVIOUS
<1>7. now' = next /\ stack' = t
  BY <1>1, <1>3, <1>4, <1>5, <1>6 DEF FinishRegister
<1>8. Walking(t, next, n)
  BY <1>6 DEF Walking
<1> QED
  BY <1>2, <1>7, <1>8, WalkingNext

\* Every step of a query that is sought and not out of budget keeps it on its way.
LEMMA SoughtStaysOnItsWay ==
    ASSUME TypeInv, DepthInv, ~Exhausted', NEW n, Sought(n), Walking(stack, now, n), Next
    PROVE  Walking(stack, now, n)'
<1>1. (UseStep => StepLeft) /\ (UseBlock => BlockLeft)
  BY BudgetHeld
<1>2. CASE stack = <<>> /\ now = query
  <2>1. now.do = "register"
    BY <1>2 DEF Sought, UsedAfter
  <2>2. StartRegister
    BY <2>1 DEF Next, StartMemory, StartInstruction, Look, LeaveBlock, Dereference, CollectPath,
       FinishRegister, FinishMemory, FinishBase, FinishLea, FinishAdd, Waiting
  <2>3. StepLeft
    BY <1>1, <1>2, <2>2 DEF StartRegister, Sought, UsedAfter
  <2> QED
    BY <1>2, <2>2, <2>3, SoughtFromQuery
<1>3. CASE stack = <<>> /\ now = Returning(LoadedConstant(n))
  <2>1. now.do = "return"
    BY <1>3 DEF Returning
  <2> QED
    BY <1>3, <2>1 DEF Next, StartRegister, StartMemory, StartInstruction, Look, LeaveBlock,
       Dereference, CollectPath, FinishRegister, FinishMemory, FinishBase, FinishLea, FinishAdd,
       Waiting
<1>4. CASE Underway(stack, now, n)
  <2>1. now.do = "scan"
    BY <1>4 DEF Underway
  <2>2. Look \/ LeaveBlock
    BY <2>1 DEF Next, StartRegister, StartMemory, StartInstruction, Dereference, CollectPath,
       FinishRegister, FinishMemory, FinishBase, FinishLea, FinishAdd, Waiting
  <2>3. Look => StepLeft
    BY <1>1 DEF Look
  <2> QED
    BY <1>1, <1>4, <2>2, <2>3, SoughtByLooking, SoughtByLeaving
<1>5. CASE CameBack(stack, now, n)
  <2>1. now.do = "return" /\ Head(stack).for \in {"register", "preds"}
    BY <1>5, ChainTop DEF CameBack
  <2>2. CollectPath \/ FinishRegister
    BY <2>1 DEF Next, StartRegister, StartMemory, StartInstruction, Look, LeaveBlock, Dereference,
       FinishMemory, FinishBase, FinishLea, FinishAdd, Waiting
  <2> QED
    BY <1>5, <2>2, SoughtByCollecting, SoughtIsFound
<1> QED
  BY <1>2, <1>3, <1>4, <1>5 DEF Walking

\* A budget that has run out stays so.
LEMMA ExhaustedForGood ==
    ASSUME TypeInv, [Next]_vars, Exhausted
    PROVE  Exhausted'
<1>1. steps \in Nat /\ blocks \in Nat
  BY BudgetAssumption DEF TypeInv
<1>2. steps' = steps \/ UseStep
  BY DEF Next, StartRegister, StartMemory, StartInstruction, Look, LeaveBlock, Dereference,
     CollectPath, FinishRegister, FinishMemory, FinishBase, FinishLea, FinishAdd, vars
<1>3. blocks' = blocks \/ UseBlock
  BY DEF Next, StartRegister, StartMemory, StartInstruction, Look, LeaveBlock, Dereference,
     CollectPath, FinishRegister, FinishMemory, FinishBase, FinishLea, FinishAdd, vars
<1> QED
  BY <1>1, <1>2, <1>3, BudgetAssumption DEF Exhausted, UseStep, UseBlock

\* Every step keeps the walks that are sought on their way.
LEMMA WalkNext == WalkInv /\ [Next]_vars => WalkInv'
<1> SUFFICES ASSUME WalkInv, [Next]_vars
             PROVE  WalkInv'
  OBVIOUS
<1>1. TypeInv /\ DepthInv /\ TypeInv' /\ DepthInv'
  BY TypeNext, DepthNext DEF WalkInv
<1>2. Same
  BY DEF Next, StartRegister, StartMemory, StartInstruction, Look, LeaveBlock, Dereference,
     CollectPath, FinishRegister, FinishMemory, FinishBase, FinishLea, FinishAdd, vars, Same
<1>3. ASSUME ~Exhausted', NEW n, Sought(n)'
      PROVE  Walking(stack, now, n)'
  <2>1. ~Exhausted
    BY <1>1, <1>3, ExhaustedForGood
  <2>2. Sought(n)
    BY <1>2, <1>3, SoughtNext
  <2>3. Walking(stack, now, n)
    BY <2>1, <2>2 DEF WalkInv
  <2>4. CASE Next
    BY <1>1, <1>3, <2>2, <2>3, <2>4, SoughtStaysOnItsWay
  <2>5. CASE UNCHANGED vars
    <3>1. PICK s, next : s = stack /\ next = now
      OBVIOUS
    <3>2. stack' = s /\ now' = next /\ Walking(s, next, n)
      BY <2>3, <2>5, <3>1 DEF vars
    <3> QED
      BY <1>2, <3>2, WalkingNext
  <2> QED
    BY <2>4, <2>5
<1>4. Exhausted' \/ \A n : Sought(n)' => Walking(stack, now, n)'
  BY <1>3
<1> QED
  BY <1>1, <1>4 DEF WalkInv

\* Whatever the function's loops, the other paths and the order of the
\* predecessors: a register that only a constant load in the entry writes has
\* that constant at every later use the budget lets the resolver reach.
THEOREM DefinitionBeforeLoopIsFound == Spec => []DefinedBeforeLoopResolves
<1>1. Init => WalkInv
  <2> SUFFICES ASSUME Init
               PROVE  WalkInv
    OBVIOUS
  <2>1. TypeInv /\ DepthInv /\ stack = <<>> /\ now = query
    BY TypeInit, DepthInit DEF Init
  <2> QED
    BY <2>1 DEF WalkInv, Walking
<1>2. WalkInv => DefinedBeforeLoopResolves
  <2> SUFFICES ASSUME WalkInv, Answered, ~Exhausted, NEW n, Sought(n)
               PROVE  now.value = LoadedConstant(n)
    BY DEF DefinedBeforeLoopResolves, Sought, LoadedConstant
  <2>1. Walking(stack, now, n) /\ stack = <<>> /\ now.do = "return"
    BY DEF WalkInv, Answered
  <2>2. now # query
    BY <2>1 DEF Sought, UsedAfter
  <2>3. ~Chained(stack, n)
    BY <2>1 DEF Chained
  <2> QED
    BY <2>1, <2>2, <2>3 DEF Walking, Underway, CameBack, Returning
<1> QED
  BY <1>1, <1>2, WalkNext, PTL DEF Spec

=============================================================================
