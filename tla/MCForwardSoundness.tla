------------------------- MODULE MCForwardSoundness -------------------------
(****************************************************************************)
(* Instances of ForwardSoundness.                                           *)
(****************************************************************************)
EXTENDS ForwardSoundness, Asm

\* Every instruction form the engine claims to understand, on the argument's
\* register ecx, one other register and one stack slot.
Palette == {Jump, MovRI("ecx", 1), MovRR("eax", "ecx"), MovRR("ecx", "eax"),
            AddRI("ecx", 3), SubRI("ecx", 1), XorRR("ecx"), Lea("ecx", "ecx", 1),
            Xchg("eax", "ecx"), Cmov("ecx", "eax"), Store("esp", 0, "ecx"),
            StoreI("esp", 0, 1), Load("ecx", "esp", 0), AddMR("esp", 0, "eax"),
            StoreAnywhere("esp", "eax"), AddRM("ecx", "esp", 0), Call,
            MovRI("al", 1), Unsupported("ecx")}

Places(n, a, b, c) ==
    [k \in 1..n |-> CASE k = 1 -> <<a>> [] k = 2 -> <<b>> [] k = 3 -> <<c, Jump>>
                      [] OTHER -> <<Jump>>]

SoundPrograms ==
    {Function(Places(Len(s), a, b, c), s) :
        s \in {Diamond, SelfLoop, While}, a \in Palette, b \in Palette, c \in Palette}
SoundBlock == 1..6
SoundQueries == {[reg |-> "ecx", block |-> 3, index |-> 2]}
SoundCells == {0}
SoundImage == <<>>

\* What the proof of NeverGuess supposes of a function holds of all of these.
ASSUME SupportAssumption == \A p \in SoundPrograms, q \in SoundQueries : Supported(p, q)

\* A function whose first block is a loop header: its first address is jumped to.
EntryLoopPrograms == {Function(Places(2, a, Jump, Jump), EntryLoop) : a \in Palette}
EntryLoopQueries == {[reg |-> "ecx", block |-> b, index |-> 1] : b \in {1, 2}}

\* A join whose incoming paths have different lengths (a switch with one longer
\* case, when scaled up).
DetourPrograms ==
    {Function(Places(6, Jump, a, b), Detour) : a \in Palette, b \in Palette}
      \cup {Function([Places(6, Jump, Jump, Jump) EXCEPT ![4] = <<a>>], Detour) : a \in Palette}
DetourQueries == {[reg |-> "ecx", block |-> 5, index |-> 1]}

\* Instructions that write a register through an operand shape the engine's
\* memory handling does not look at.
MemoryFormPrograms ==
    {Function(Places(3, a, b, Jump), Straight) :
        a \in {Jump, Store("esp", 0, "eax")}, b \in {CmovM("ecx", "ecx"), XchgMR("esp", 0, "ecx")}}

=============================================================================
