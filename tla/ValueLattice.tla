---------------------------- MODULE ValueLattice ----------------------------
(****************************************************************************)
(* The values a resolution can end in (core/values.py, core/diagnostics.py) *)
(* and the join that reconciles the values of several control-flow paths    *)
(* (core/merge.py).                                                         *)
(*                                                                          *)
(* A symbolic expression is a pair <<kind, n>> instead of a formatted       *)
(* string: <<"arg", i>> for "arg<i>", <<"ret", ea>> for "ret(<ea>)".  The   *)
(* detail text of an Unknown is <<>> or the pair of values it quotes; its   *)
(* wording is left out, its identity is not, because states are compared    *)
(* with the detail included.                                                *)
(****************************************************************************)
EXTENDS Integers, Sequences

Reason == {"NO_DEFINITION_FOUND", "DIVERGENT_PATHS", "DIVERGENT_SYMBOLIC",
           "BUDGET_EXCEEDED", "UNSUPPORTED_INSTRUCTION",
           "UNSUPPORTED_OPERAND_SHAPE", "INDIRECT_CONTROL_FLOW",
           "MEMORY_READ_FAILED", "LOOP_NON_CONVERGENT", "ADAPTER_ERROR",
           "INTERNAL_ERROR", "MUTATED_MEMORY_CONTENT"}

Kind == {"INT", "POINTER"}

Expr == {"arg", "ret"} \X Int

Concrete(n, kind) == [tag |-> "Concrete", value |-> n, kind |-> kind]
Symbolic(expr)    == [tag |-> "Symbolic", expr |-> expr]
MemoryRef(addr, v) == [tag |-> "MemoryRef", addr |-> addr, content |-> v]
MutatedRegion(base, via) == [tag |-> "MutatedRegion", base |-> base, via |-> via]
Because(reason, detail) == [tag |-> "Unknown", reason |-> reason, detail |-> detail]
Unknown(reason) == Because(reason, <<>>)

IsUnknown(v) == v.tag = "Unknown"

\* ValueLattice.is_known: a MemoryRef counts as known whatever is inside it.
IsKnown(v) == v.tag # "Unknown"

\* What a register or a stack slot of the forward engine can hold.
Scalar == [tag : {"Concrete"}, value : Int, kind : Kind]
            \cup [tag : {"Symbolic"}, expr : Expr]
Detail == {<<>>} \cup (Scalar \X Scalar)
Opaque == [tag : {"Unknown"}, reason : Reason, detail : Detail]
Value  == Scalar \cup Opaque

-----------------------------------------------------------------------------
\* The pairs join() accepts as the same value.
Agrees(a, b) ==
    \/ a = b
    \/ /\ a.tag = "MutatedRegion" /\ b.tag = "MutatedRegion"
       /\ a.base = b.base

SameCell(a, b) ==
    /\ a.tag = "MemoryRef" /\ b.tag = "MemoryRef"
    /\ a.addr = b.addr

ShapelessReason(a, b) ==
    IF a.tag = b.tag /\ a.tag \in {"Symbolic", "MutatedRegion"}
      THEN "DIVERGENT_SYMBOLIC" ELSE "DIVERGENT_PATHS"

\* The detail of a failed join quotes both values; of two integers only the
\* numbers, so their kinds are rewritten to one.
Quoted(a, b) ==
    IF a.tag = "Concrete" /\ b.tag = "Concrete"
      THEN <<Concrete(a.value, "INT"), Concrete(b.value, "INT")>> ELSE <<a, b>>

\* Mutant of ScalarJoin: what the first path knows survives an Unknown.
ScalarJoin_KeepKnown(a, b) ==
    CASE IsUnknown(a)  -> a
      [] ~IsUnknown(a) /\ IsUnknown(b)  -> a
      [] ~IsUnknown(a) /\ ~IsUnknown(b) /\ Agrees(a, b)  -> a
      [] OTHER -> Because(ShapelessReason(a, b), Quoted(a, b))

\* join() on everything but two reads of the same memory cell.
ScalarJoin(a, b) ==
    CASE IsUnknown(a)  -> a
      [] ~IsUnknown(a) /\ IsUnknown(b)  -> b
      [] ~IsUnknown(a) /\ ~IsUnknown(b) /\ Agrees(a, b)  -> a
      [] OTHER -> Because(ShapelessReason(a, b), Quoted(a, b))

\* join().  What was read is never itself a MemoryRef, so one level suffices.
Join(a, b) ==
    IF SameCell(a, b) THEN MemoryRef(a.addr, ScalarJoin(a.content, b.content))
                      ELSE ScalarJoin(a, b)

-----------------------------------------------------------------------------
Least(S)    == CHOOSE i \in S : \A j \in S : i <= j
Greatest(S) == CHOOSE i \in S : \A j \in S : j <= i

\* The members of S up to n, in increasing order.
Ascending(S, n) ==
    LET upTo[k \in 0..n] ==
            IF k = 0 THEN <<>> ELSE IF k \in S THEN Append(upTo[k - 1], k) ELSE upTo[k - 1]
    IN  upTo[n]

\* The elements of s at the places in P, in their order.
Picked(s, P) ==
    LET kept == Ascending(P, Len(s)) IN [n \in DOMAIN kept |-> s[kept[n]]]

\* join_all() over the paths in I, taken in increasing order.  The loop keeps
\* its first value until a path disagrees, and Unknown from then on.
ScalarJoinOver(I, vs) ==
    LET first == vs[Least(I)]
        apart == {i \in I : ~Agrees(first, vs[i])}
    IN  IF apart = {} THEN first ELSE ScalarJoin(first, vs[Least(apart)])

CellJoinOver(I, vs) ==
    MemoryRef(vs[Least(I)].addr, ScalarJoinOver(I, [i \in I |-> vs[i].content]))

JoinOver(I, vs) ==
    IF I = {} THEN Unknown("NO_DEFINITION_FOUND")
    ELSE LET first == vs[Least(I)]
             apart == {i \in I : ~SameCell(first, vs[i])}
             j == Least(apart)
         IN  CASE first.tag # "MemoryRef" -> ScalarJoinOver(I, vs)
               [] first.tag = "MemoryRef" /\ apart = {} -> CellJoinOver(I, vs)
               [] OTHER ->
                     ScalarJoin(CellJoinOver({i \in I : i < j}, vs), vs[j])

=============================================================================
