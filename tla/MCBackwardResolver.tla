-------------------------- MODULE MCBackwardResolver --------------------------
(****************************************************************************)
(* Instances of BackwardResolver: every function of a few control-flow      *)
(* shapes whose first three blocks hold any instruction of a palette,       *)
(* budgets small enough to run out in some of them.                         *)
(****************************************************************************)
EXTENDS BackwardResolver, Asm

Palette == {Jump, MovRI("ecx", 1), MovRR("ecx", "eax"), AddRI("ecx", 1), Lea("ecx", "eax", 1),
            Store("esp", 0, "ecx"), StoreAnywhere("esp", "eax"), Load("ecx", "esp", 0),
            Load("ecx", "eax", 1), Call, MovRI("al", 1)}

Places(n, a, b, c) ==
    [k \in 1..n |-> CASE k = 1 -> <<a>> [] k = 2 -> <<b>> [] k = 3 -> <<c, Jump>>
                      [] OTHER -> <<Jump>>]

ResolverPrograms ==
    {Owned(Function(Places(Len(s), a, b, c), s), TRUE) :
        s \in {SelfLoop, While, Diamond, EntryLoop}, a \in Palette, b \in Palette, c \in Palette}
      \cup {Owned(Function(Places(3, a, Jump, Jump), Straight), FALSE) : a \in Palette}
ResolverBlock == 1..4
ResolverQueries ==
    {[do |-> "register", reg |-> "ecx", block |-> 2, pc |-> 1],
     [do |-> "register", reg |-> "none", block |-> 2, pc |-> 1],
     [do |-> "memory", base |-> "esp", disp |-> 0, block |-> 2, pc |-> 1],
     [do |-> "memory", base |-> "none", disp |-> 1, block |-> 2, pc |-> 1],
     [do |-> "instruction", block |-> 2, pc |-> 1]}
\* The database has an integer at address 2.
ResolverImage == [a \in {2} |-> 3]

=============================================================================
