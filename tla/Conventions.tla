----------------------------- MODULE Conventions -----------------------------
(****************************************************************************)
(* Where each argument of a call lives (conventions/, and the part of       *)
(* config/schema.py that declares a custom convention).  A convention is    *)
(* one of three records; a register is its own name, and a name outside Reg *)
(* is one the processor does not have.                                      *)
(****************************************************************************)
EXTENDS Instructions

SlotKind == {"REGISTER", "STACK_PUSH", "STACK_OFFSET"}

\* at is the push position or the stack offset.
ArgSlot == [index : Nat, kind : SlotKind, reg : Reg \cup {NoReg}, at : Int]

Slot(i, kind, reg, at) == [index |-> i, kind |-> kind, reg |-> reg, at |-> at]

\* Mutant of NamedRegister: an unknown name is passed on.
NamedRegister_Raw(name) == name

\* IdaPort.register_by_name.
NamedRegister(name) == IF name \in Reg THEN name ELSE NoReg

Template(names, mode, base, size) ==
    [tag |-> "template", names |-> names, mode |-> mode, base |-> base, size |-> size]

TemplateSlot(c, i) ==
    LET beyond == i - Len(c.names)
    IN  CASE beyond < 0 -> Slot(i, "REGISTER", NamedRegister(c.names[i + 1]), 0)
          [] beyond >= 0 /\ c.mode = "push" -> Slot(i, "STACK_PUSH", NoReg, beyond)
          [] beyond >= 0 /\ c.mode # "push" ->
                Slot(i, "STACK_OFFSET", NoReg, c.base + beyond * c.size)

\* The templates of 32-bit x86.
CDECL    == Template(<<>>, "push", 0, 4)
FASTCALL == Template(<<"ecx", "edx">>, "push", 0, 4)
THISCALL == Template(<<"ecx">>, "push", 0, 4)

-----------------------------------------------------------------------------
\* The declarations made to a ConventionBuilder, in their order:
\* [index, kind, name, at].  A later one of the same index replaces an earlier
\* one, but a register is looked up first.
Custom(decls) == [tag |-> "custom", decls |-> decls]

DeclaredAs(c, i, kinds) ==
    {k \in DOMAIN c.decls : c.decls[k].index = i /\ c.decls[k].kind \in kinds}

CustomSlot(c, i) ==
    LET named == DeclaredAs(c, i, {"REGISTER"})
        stack == DeclaredAs(c, i, SlotKind \ {"REGISTER"})
    IN  IF named # {}
          THEN Slot(i, "REGISTER", NamedRegister(c.decls[Greatest(named)].name), 0)
          ELSE LET d == c.decls[Greatest(stack)] IN Slot(i, d.kind, NoReg, d.at)

-----------------------------------------------------------------------------
\* A prototype IDA recognised: the locations [index, in, reg, at] of the
\* arguments, without those that are neither a register nor a stack slot.
Prototype(locations) == [tag |-> "prototype", locations |-> locations]
Location(places) == [index : Nat, in : places, reg : Reg \cup {NoReg}, at : Int]

\* get_prototype on the argument details of a function type.
Representable(details) ==
    Picked(details, {k \in DOMAIN details : details[k].in \in {"register", "stack"}})

\* Mutant of PrototypeSlot: the i-th location that is left is argument i's.
PrototypeSlot_ByPosition(c, i) ==
    IF i >= Len(c.locations) THEN Slot(i, "REGISTER", NoReg, 0)
    ELSE LET loc == c.locations[i + 1]
         IN  IF loc.in = "register" THEN Slot(i, "REGISTER", loc.reg, 0)
             ELSE Slot(i, "STACK_OFFSET", NoReg, loc.at)

PrototypeSlot(c, i) ==
    LET here == {k \in DOMAIN c.locations : c.locations[k].index = i}
        loc  == c.locations[Greatest(here)]
    IN  CASE here = {} -> Slot(i, "REGISTER", NoReg, 0)
          [] here # {} /\ loc.in = "register" -> Slot(i, "REGISTER", loc.reg, 0)
          [] here # {} /\ loc.in # "register" -> Slot(i, "STACK_OFFSET", NoReg, loc.at)

\* infer(): a function type is a pair of brackets around its details, or <<>>.
Infer(type) ==
    IF type = <<>> \/ Representable(type[1]) = <<>> THEN <<>>
    ELSE <<Prototype(Representable(type[1]))>>

\* What an analyst can pass as a convention, and what get_prototype finds in a
\* function type, whose arguments it counts from 0.
IsConvention(c) ==
    \/ /\ c.tag = "template"
       /\ c.names \in Seq(STRING) /\ c.base \in Int /\ c.size \in Int
    \/ /\ c.tag = "custom"
       /\ c.decls \in Seq([index : Int, kind : SlotKind, name : STRING, at : Int])
    \/ /\ c.tag = "prototype"
       /\ c.locations \in Seq(Location({"register", "stack"}))

IsPrototype(type) ==
    type # <<>> =>
       /\ type[1] \in Seq(Location({"register", "stack", "scattered"}))
       /\ \A k \in DOMAIN type[1] : type[1][k].index = k - 1

-----------------------------------------------------------------------------
\* slots() raises ConventionError for an index nothing was declared for.
SlotsRaise(c, n) ==
    c.tag = "custom" /\ \E i \in 0..(n - 1) : DeclaredAs(c, i, SlotKind) = {}

SlotOf(c, i) ==
    CASE c.tag = "template"  -> TemplateSlot(c, i)
      [] c.tag = "custom"    -> CustomSlot(c, i)
      [] c.tag = "prototype" -> PrototypeSlot(c, i)

Slots(c, n) == [k \in 1..n |-> SlotOf(c, k - 1)]

=============================================================================
