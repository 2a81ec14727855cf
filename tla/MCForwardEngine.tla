--------------------------- MODULE MCForwardEngine ---------------------------
(****************************************************************************)
(* Instances of ForwardEngine: every function of a few control-flow shapes  *)
(* whose first three blocks hold any instruction of a palette.              *)
(****************************************************************************)
EXTENDS ForwardEngine, Asm

Palette == {Jump, MovRI("ecx", 1), MovRR("ecx", "eax"), Xchg("eax", "ecx"),
            Store("esp", 0, "ecx"), Load("ecx", "esp", 0), Call, MovRI("al", 1)}

\* Blocks past the third hold a jump.
Places(n, a, b, c) ==
    [k \in 1..n |-> CASE k = 1 -> <<a>> [] k = 2 -> <<b>> [] k = 3 -> <<c, Jump>>
                      [] OTHER -> <<Jump>>]

EngineShapes == {SelfLoop, While, Diamond, DetourLoop, EntryLoop, Unreached}
EnginePrograms ==
    {Function(Places(Len(s), a, b, c), s) :
        s \in EngineShapes, a \in Palette, b \in Palette, c \in Palette}

EngineBlock == 1..6
EngineQueries ==
    {[reg |-> "ecx", block |-> 3, index |-> 2], [reg |-> "ecx", block |-> 2, index |-> 1],
     [reg |-> "none", block |-> 2, index |-> 1]}

=============================================================================
