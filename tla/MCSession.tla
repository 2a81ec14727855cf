------------------------------ MODULE MCSession ------------------------------
(****************************************************************************)
(* Instances of Session.  The caller occupies 1..3, its call at 3; a second *)
(* one 4..5, its call at 5.  Register 4 is rsp, 12 is r12.                  *)
(****************************************************************************)
EXTENDS Session

SessionReg == 0..15
NoRegister == -1
SessionModulus == [n \in 1..8 |-> 2 ^ (n \div 2 + 1)]
NoSub == [r \in {} |-> 0]

Mem(kind, base, index, scale, disp) ==
    TrueOperand(kind, base, [index |-> index, scale |-> scale], 0, disp, 4, TRUE)
Imm(n, size) == TrueOperand("IMMEDIATE", NoReg, NoIndex, n, 0, size, FALSE)
Register64(r) == TrueOperand("REG", r, NoIndex, 0, 0, 8, FALSE)
Global(a)  == TrueOperand("MEM_DIRECT", NoReg, NoIndex, a, 0, 8, FALSE)
Target(a)  == TrueOperand("NEAR", NoReg, NoIndex, a, 0, 8, FALSE)
Of(mnem, ops) == [mnem |-> mnem, ops |-> ops]
PushI   == Of("push", <<Imm(3, 2)>>)
MovR    == Of("mov", <<[Register64(0) EXCEPT !.written = TRUE], Global(2)>>)
CallInsn == Of("call", <<Target(1)>>)
StoreTo(op) == Of("mov", <<op, Register64(0)>>)

Db(code, refs, owner, chart) == [code |-> code, refs |-> refs, owner |-> owner, chart |-> chart]
TwoFuncs == <<1, 1, 1, 4, 4>>
Charts == (1 :> (1 :> 3 @@ 3 :> 4) @@ 4 :> (4 :> 6))
Refs(main, other) == (1 :> main @@ 4 :> other)

First == Db(<<PushI, PushI, CallInsn, PushI, CallInsn>>, Refs({3, 5}, {}), TwoFuncs, Charts)
\* An instruction patched and a reference gone; data turned into code; a
\* function merged into another.
Patched   == [First EXCEPT !.code[2] = MovR, !.refs = Refs({3}, {5})]
Undefined == [First EXCEPT !.code[1] = NoInsn, !.code[4] = NoInsn]
Merged    == [First EXCEPT !.owner = <<1, 1, 1, 1, NoFunc>>, 
                                 !.chart = (1 :> (1 :> 3 @@ 3 :> 5) @@ 4 :> <<>>)]

\* One call site only.
Short     == [First EXCEPT !.refs = Refs({3}, {})]

Locator(name, priority, matches, broken, raises) ==
    [name |-> name, priority |-> priority, matches |-> matches, broken |-> broken,
     raises |-> raises]
DefaultRegistry == <<Locator("mov", 0, {"mov"}, {}, {}), Locator("push", 0, {"push"}, {}, {})>>
UserLocators == {Locator("same", 0, {"push"}, {}, {}), Locator("low", -1, {"push", "mov"}, {}, {}),
                 Locator("high", 5, {"push"}, {}, {"push"}), Locator("broken", 7, {"push"}, {"push"}, {})}

World(dbs, user, callees, queries) ==
    [dbs |-> dbs, locators |-> user, callees |-> callees, queries |-> queries]

\* One instruction in front of a call, with every memory operand there is.
Alone(insn) ==
    World({Db(<<PushI, insn, CallInsn, NoInsn, NoInsn>>, Refs({3}, {}), TwoFuncs, Charts)}, {}, {1}, {})
MemoryOperands ==
    {Mem("MEM_PHRASE", b, x, 2 ^ ((b + x) % 4), 0) : b \in 0..15, x \in 0..15 \ {4}}
      \cup {Mem("MEM_PHRASE", b, NoReg, 1, 0) : b \in 0..15}
      \cup {Mem("MEM_DISPL", b, NoReg, 1, d) : b \in 0..15, d \in {-16, -8, 8, 15}}
      \cup {Mem("MEM_DISPL", b, x, 8, -1) : b \in 0..15, x \in {0, 12}}
Immediates == {Imm(0, 1), Imm(1, 1), Imm(3, 2), Imm(1, 2), Imm(7, 4), Imm(16, 8), Imm(5, 0)}

SessionWorlds ==
    {World({First, Patched}, {}, {1, 4}, {}), World({First, Patched, Undefined}, {}, {1}, {}),
     World({First, Merged}, {}, {1}, {2}), World({Merged}, {}, {}, {2, 3, 5}),
     World({Short}, UserLocators, {1}, {})}
OperandWorlds == {Alone(StoreTo(op)) : op \in MemoryOperands}
                   \cup {Alone(Of("push", <<i>>)) : i \in Immediates}
\* Four instructions in front of a call: more than either cap allows.
LongWorlds ==
    {World({Db(code \o <<CallInsn>>, Refs({5}, {}), <<1, 1, 1, 1, 1>>, Charts)}, {}, {1}, {}) :
        code \in [1..4 -> {PushI, MovR, StoreTo(Mem("MEM_PHRASE", 4, NoReg, 1, 0))}]}
AllWorlds == SessionWorlds \cup OperandWorlds \cup LongWorlds

=============================================================================
