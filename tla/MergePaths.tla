----------------------------- MODULE MergePaths -----------------------------
(****************************************************************************)
(* The loop of join_all (core/merge.py:52-59), one value per step, against  *)
(* the closed form JoinOver that the engines' modules use for it.           *)
(****************************************************************************)
EXTENDS ValueLattice

CONSTANTS
    Values,   \* what a path may yield
    MaxPaths  \* the number of paths that meet

\* A memory read is an address and what is there; nothing is asked of other
\* values.
ASSUME PathsAssumption ==
    /\ MaxPaths \in Nat \ {0}
    /\ \A v \in Values : v.tag = "MemoryRef" => v = MemoryRef(v.addr, v.content)

VARIABLES
    values,  \* the values of the paths, in order
    taken,   \* how many of them have been joined
    result   \* the join of those

vars == <<values, taken, result>>

Init ==
    /\ values \in UNION {[1..n -> Values] : n \in 0..MaxPaths}
    /\ IF values = <<>>
         THEN taken = 0 /\ result = Unknown("NO_DEFINITION_FOUND")
         ELSE taken = 1 /\ result = values[1]

\* Mutant of Merge: a path that could not be resolved is skipped.
Merge_SkipUnknown ==
    /\ taken < Len(values)
    /\ taken' = taken + 1
    /\ result' = IF IsUnknown(values[taken + 1]) THEN result
                 ELSE IF IsUnknown(result) THEN values[taken + 1]
                 ELSE Join(result, values[taken + 1])
    /\ UNCHANGED values

Merge ==
    /\ taken < Len(values)
    /\ taken' = taken + 1
    /\ result' = Join(result, values[taken + 1])
    /\ UNCHANGED values

Spec == Init /\ [][Merge]_vars

-----------------------------------------------------------------------------
\* The loop computes the closed form of every prefix, down to the detail text
\* of a failure (join_all, merge.py:52-59).
LoopIsJoinOver == result = JoinOver(1..taken, values)

\* The "never guess" contract of merge.py:3-7: a value is only reported if
\* every path has it; for a memory cell, its content too.
Same(a, b) ==
    IF SameCell(a, b) THEN IsUnknown(a.content) \/ Agrees(a.content, b.content)
                      ELSE Agrees(a, b)
KnownOnlyIfAllAgree ==
    IsKnown(result) => \A n \in 1..taken : Same(result, values[n])

\* Which predecessor comes first decides nothing: rotating or swapping the paths
\* changes neither whether a value is reported nor, the written-through operand
\* of a mutated region aside, which one.
Rearranged == {[n \in 1..taken |-> values[p[n]]] :
                 p \in {q \in [1..taken -> 1..taken] :
                          \A m, n \in 1..taken : q[m] = q[n] => m = n}}
OrderDecidesNothing ==
    \A vs \in Rearranged :
       LET other == JoinOver(1..taken, vs)
       IN  /\ IsKnown(result) <=> IsKnown(other)
           /\ IsKnown(result) => Same(result, other)

=============================================================================
