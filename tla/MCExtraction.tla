---------------------------- MODULE MCExtraction ----------------------------
(****************************************************************************)
(* Instances of Extraction.                                                 *)
(****************************************************************************)
EXTENDS Extraction, Asm

\* Callers: instructions in front of a call, each at its position.
Caller(code) == [code |-> code, owned |-> TRUE, flow |-> [p \in DOMAIN code |-> {p + 1}]]
JumpOver(caller, p, target) == [caller EXCEPT !.flow[p] = @ \cup {target}]

PushImm   == Push(I(1))
SubSp     == SubRI("esp", 4)
Palette   == {PushImm, MovRI("eax", 1), SubSp, StoreI("esp", 0, 1), Call, Jump, Undecodable}
Straights == {Caller(code) : code \in [1..4 -> Palette]}
\* A conditional jump over instructions that push nothing, a read of the stack,
\* a store elsewhere, runs longer than the caps, a call outside any function.
Others ==
    {JumpOver(Caller(<<PushImm, Jump, MovRI("eax", 1), PushImm>>), 2, 4),
     JumpOver(Caller(<<Jump, Call, PushImm, PushImm>>), 1, 3),
     Caller(<<PushImm, Load("eax", "esp", 0), PushImm, Store("ebp", 0, "eax"), PushImm>>),
     Caller(<<PushImm, PushImm, PushImm, PushImm, PushImm>>),
     Caller(<<PushImm, MovRI("eax", 1), PushImm, MovRI("eax", 1), MovRI("eax", 1), PushImm>>),
     [Caller(<<PushImm, PushImm>>) EXCEPT !.owned = FALSE],
     Caller(<<>>)}

Declare(i, kind, name, at) == [index |-> i, kind |-> kind, name |-> name, at |-> at]
\* Positions declared by hand, one of them negative, one declared twice.
Mixed == Custom(<<Declare(0, "STACK_PUSH", "", 2), Declare(1, "STACK_PUSH", "", -1),
                  Declare(0, "STACK_PUSH", "", 1), Declare(2, "REGISTER", "r8", 0),
                  Declare(3, "STACK_OFFSET", "", 8), Declare(3, "REGISTER", "ecx", 0)>>)
OffsetTemplate == Template(<<"ecx">>, "offset", 32, 8)

Details(locations) == <<locations>>
At(i, in, r, at) == [index |-> i, in |-> in, reg |-> r, at |-> at]
Recognised == Details(<<At(0, "register", "ecx", 0), At(1, "scattered", "none", 0),
                        At(2, "stack", "none", 4)>>)
Opaque0 == Details(<<At(0, "scattered", "none", 0)>>)

NoTypes == [i \in {} |-> <<>>]
NDF == Unknown("NO_DEFINITION_FOUND")
One == Concrete(1, "INT")
Base == [do |-> "extract_calls", convention |-> <<CDECL>>, prototype |-> <<>>,
         num_args |-> 3, arg_index |-> 0, callers |-> [ea \in {} |-> Caller(<<>>)],
         answers |-> {One}, fallbacks |-> {One}, hexrays |-> FALSE,
         may_raise |-> FALSE, arg_types |-> NoTypes]

ScanRequests ==
    {[Base EXCEPT !.callers = [ea \in {9} |-> c]] : c \in Straights \cup Others}
    \cup {[Base EXCEPT !.callers = [ea \in {9} |-> c], !.convention = <<v>>] :
             c \in Others, v \in {Mixed, THISCALL}}

TwoSites == [ea \in {20, 10} |-> IF ea = 10 THEN Caller(<<PushImm, PushImm>>)
                                           ELSE Caller(<<PushImm, Call>>)]
Step(name, arg) == [name |-> name, arg |-> arg]
Chains == {<<Step("c_string", 0)>>, <<Step("wide_string", 0)>>, <<Step("int", 0), Step("hex", 0)>>,
           <<Step("struct_field", 1), Step("constant", 5)>>, <<Step("hex", 0), Step("int", 0)>>,
           <<Step("raises", 0), Step("constant", 5)>>}
Shapes2 == {One, MemoryRef(2, Concrete(3, "POINTER")), MemoryRef(2, Unknown("MEMORY_READ_FAILED")),
            Symbolic(<<"ret", 1>>), NDF}

Open == [Base EXCEPT !.callers = TwoSites, !.num_args = 2, !.hexrays = TRUE, !.may_raise = TRUE,
                     !.answers = {One, NDF}, !.fallbacks = {Concrete(2, "INT"), NDF}]
SiteRequests ==
    {[Open EXCEPT !.convention = <<c>>] : c \in {CDECL, FASTCALL, OffsetTemplate, Mixed}}
    \cup {[Open EXCEPT !.convention = <<Mixed>>, !.num_args = 5],
          [Open EXCEPT !.hexrays = FALSE, !.num_args = 0],
          [Open EXCEPT !.callers = [ea \in {} |-> Caller(<<>>)]]}
    \cup {[Open EXCEPT !.convention = <<>>, !.num_args = n, !.prototype = t] :
             n \in {-1, 3}, t \in {<<>>, Recognised, Opaque0}}
    \cup {[Open EXCEPT !.convention = <<CDECL>>, !.num_args = -1]}
    \cup {[Base EXCEPT !.callers = [ea \in {10} |-> Caller(<<PushImm, PushImm>>)],
                       !.num_args = 2, !.answers = Shapes2,
                       !.arg_types = [i \in {0} |-> c]] : c \in Chains}
ForwardRequests ==
    {[Base EXCEPT !.do = "resolve_argument_at", !.arg_index = i, !.convention = <<c>>,
                  !.num_args = n, !.may_raise = TRUE] :
        i \in {-1, 0, 3}, c \in {FASTCALL, Mixed}, n \in {-1, 3, 5}}

ExtractionRequests == ScanRequests \cup SiteRequests \cup ForwardRequests
WordsRead == [a \in {1, 2, 4} |-> IF a = 2 THEN 3 ELSE 2]

\* cond ? f(a) : f(b) as a compiler emits it: each way pushes its own argument,
\* then one jumps over the other's push to the shared call.
OtherBranch ==
    JumpOver([JumpOver(Caller(<<Jump, PushImm, Jump, PushImm>>), 1, 4) EXCEPT !.flow[3] = {}], 3, 5)
BranchRequests == {[Base EXCEPT !.callers = [ea \in {9} |-> OtherBranch], !.num_args = 1]}

=============================================================================
