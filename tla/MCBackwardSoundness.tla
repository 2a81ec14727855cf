------------------------- MODULE MCBackwardSoundness -------------------------
(****************************************************************************)
(* Instances of BackwardSoundness.                                          *)
(****************************************************************************)
EXTENDS BackwardSoundness, Asm

Places(n, a, b, c) ==
    [k \in 1..n |-> CASE k = 1 -> <<a>> [] k = 2 -> <<b>> [] k = 3 -> <<c, Jump>>
                      [] OTHER -> <<Jump>>]
Shapes == {SelfLoop, While, Diamond}

\* Constant adjustments, on constants only.
Folding == {Jump, MovRI("ecx", 1), AddRI("ecx", 3), SubRI("ecx", 1), Lea("ecx", "eax", 1),
            XorRR("ecx"), MovRR("eax", "ecx"), Xchg("eax", "ecx"),
            Store("esp", 0, "ecx"), Load("ecx", "esp", 0)}
\* Every other form the resolver interprets, or must notice.
Forms == {Jump, MovRI("ecx", 1), MovRR("eax", "ecx"), MovRR("ecx", "eax"), MovRR("ecx", "al"),
          Lea("ecx", "eax", 1), Xchg("eax", "ecx"), XchgMR("esp", 0, "ecx"),
          Cmov("ecx", "eax"), CmovM("ecx", "eax"), StoreI("esp", 0, 1),
          StoreAnywhere("esp", "eax"), AddMR("esp", 0, "eax"), AddRM("ecx", "esp", 0),
          LoadAt("ecx", 3), StoreAt(3, "eax"), Load("ecx", "eax", 0), Call,
          MovRI("al", 1), Unsupported("ecx")}
Uses == {Jump, MovRR("ecx", "eax"), Load("ecx", "esp", 0), LoadAt("ecx", 3), Load("ecx", "eax", 0)}
\* A constant address beside one that is stored to by name.
Named == {MovRI("eax", 1), StoreAt(3, "ecx")}
Pushes == {Push(R("ecx", FALSE, TRUE)), Push(M("esp", 0, FALSE, TRUE)), Push(I(2))}

\* A loop around an unbalanced push has no stack delta, so pushes come last.
Choices == (Folding \X Folding \X Folding \X Shapes)
             \cup (Forms \X Forms \X Uses \X Shapes)
             \cup (Named \X Named \X {Load("ecx", "eax", 0)} \X Shapes)
             \cup (Forms \X Forms \X Pushes \X {SelfLoop, Diamond})
SoundPrograms ==
    {Owned(Function(Places(Len(t[4]), t[1], t[2], t[3]), t[4]), TRUE) : t \in Choices}
SoundBlock == 1..4
SoundQueries ==
    {[do |-> "register", reg |-> "ecx", block |-> 3, pc |-> 2],
     [do |-> "memory", base |-> "esp", disp |-> 0, block |-> 3, pc |-> 2],
     [do |-> "memory", base |-> "none", disp |-> 3, block |-> 3, pc |-> 2],
     [do |-> "instruction", block |-> 3, pc |-> 1]}
SoundCells == {0}
\* The database has integers at two addresses; a code path writes the second.
SoundImage == [a \in {1, 3} |-> IF a = 1 THEN 3 ELSE 2]

\* What the proof of NeverGuess supposes of a function holds of all of these but
\* the ones that take a part of a register for a whole.
ASSUME SupportAssumption ==
    \A p \in SoundPrograms, q \in SoundQueries :
       (\A i \in InstructionsOf(p) : TakesWholeRegisters(i)) => Supported(p, q)

\* A constant added to a call's result and to a value read from memory.
AdjustPrograms ==
    {Owned(Function(Places(3, a, AddRI("eax", 1), Jump), Straight), TRUE) :
        a \in {Call, LoadAt("eax", 3), MovRI("eax", 1)}}
AdjustQueries == {[do |-> "register", reg |-> "eax", block |-> 3, pc |-> 2]}

=============================================================================
