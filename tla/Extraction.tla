----------------------------- MODULE Extraction -----------------------------
(****************************************************************************)
(* One request to the facade (api/facade.py): extract_calls over all call   *)
(* sites of a function, with its optional decompiler fallback and its       *)
(* post-processing, or resolve_argument_at.  The resolver, the forward      *)
(* engine and the decompiler are external here: they may give any of the    *)
(* request's answers, and the two engines may raise.                        *)
(****************************************************************************)
EXTENDS Conventions, CallStack, PostProcessing

CONSTANT
    Requests   \* see IsRequest

IsRequest(r) ==
    /\ r.do \in {"extract_calls", "resolve_argument_at"}
    /\ r.convention # <<>> => IsConvention(r.convention[1])    \* <<>>: not given
    /\ IsPrototype(r.prototype)
    /\ r.num_args \in Nat \cup {-1}     \* -1: not given
    /\ r.arg_index \in Int
    /\ DOMAIN r.callers \subseteq Nat   \* call site -> caller of PushSequence
    /\ IsFiniteSet(DOMAIN r.callers)
    /\ \A ea \in DOMAIN r.callers : IsCaller(r.callers[ea])
    /\ \A i \in DOMAIN r.arg_types : r.arg_types[i] \in Seq(ChainStep)
    /\ r.hexrays \in BOOLEAN /\ r.may_raise \in BOOLEAN

ASSUME RequestsAssumption == \A r \in Requests : IsRequest(r)

VARIABLES
    request,    \* the request; its callers are the call sites
    pc,         \* where the facade is
    convention, \* the resolved convention
    num_args,   \* the resolved number of arguments
    call_ea,    \* the call site at hand
    slots,      \* its slots
    pushes,     \* its push sequence
    raw,        \* the value of the slot at hand, and
    source,     \* the engine it came from
    hexrays,    \* [tried, args]: the decompiler's answer for this site
    arguments,  \* the arguments of this site so far
    call_sites, \* the report so far
    answer,     \* the answer of resolve_argument_at
    engine      \* history: what the resolver itself answered for this site's slots

siteVars == <<call_ea, slots, pushes, raw, source, hexrays, arguments, engine>>
vars == <<request, pc, convention, num_args, siteVars, call_sites, answer>>

Nothing == Unknown("INTERNAL_ERROR")
NotTried == [tried |-> FALSE, args |-> <<>>]

Init ==
    /\ request \in Requests
    /\ pc = "resolve_convention"
    /\ convention = CDECL /\ num_args = 0
    /\ call_ea = 0 /\ slots = <<>> /\ pushes = <<>>
    /\ raw = Nothing /\ source = "raw" /\ hexrays = NotTried
    /\ arguments = <<>> /\ engine = <<>> /\ call_sites = <<>> /\ answer = Nothing

-----------------------------------------------------------------------------
\* _resolve_convention.
Inferred == IF request.convention = <<>> THEN Infer(request.prototype) ELSE <<>>

Chosen ==
    CASE request.convention # <<>> -> request.convention[1]
      [] request.convention = <<>> /\ Inferred # <<>> -> Inferred[1]
      [] request.convention = <<>> /\ Inferred = <<>> -> CDECL

Counted == request.num_args >= 0 \/ Chosen.tag = "prototype"
Count == IF request.num_args >= 0 THEN request.num_args
         ELSE IF Chosen.tag = "prototype" THEN Len(Chosen.locations) ELSE 0

ResolveConvention ==
    /\ pc = "resolve_convention"
    /\ IF Counted
         THEN /\ convention' = Chosen /\ num_args' = Count
              /\ pc' = IF request.do = "extract_calls" THEN "site" ELSE "forward"
         ELSE pc' = "raised" /\ UNCHANGED <<convention, num_args>>
    /\ UNCHANGED <<request, siteVars, call_sites, answer>>

-----------------------------------------------------------------------------
Sites == DOMAIN request.callers
Done  == {call_sites[n].call : n \in DOMAIN call_sites}

\* One argument; from is a history of which instruction was asked (0: none).
Argument(index, v, processed, src, from) ==
    [index |-> index, raw |-> v, processed |-> processed, source |-> src, from |-> from]

\* _extract_one_call_safe, when anything below it raised: what was resolved for
\* this site is given up.
FailedSite(call) ==
    [call |-> call,
     arguments |-> [k \in 1..num_args |-> Argument(k - 1, Nothing, Nothing, "raw", 0)]]

\* Mutant of IsolateFailure: the failed site is left out of the report, and so
\* it is the next one to be begun.
IsolateFailure_NotReported(call) ==
    UNCHANGED call_sites /\ pc' = "site"

\* Mutant of IsolateFailure: the arguments resolved so far are kept.
IsolateFailure_KeepArguments(call) ==
    /\ call_sites' = Append(call_sites, [call |-> call, arguments |-> arguments])
    /\ pc' = "site"

IsolateFailure(call) ==
    /\ call_sites' = Append(call_sites, FailedSite(call))
    /\ pc' = "site"

\* Slots of the next site in address order; its pushes only if one is needed.
BeginSite ==
    /\ pc = "site" /\ Sites \ Done # {}
    /\ LET call == Least(Sites \ Done)
       IN  /\ call_ea' = call
           /\ arguments' = <<>> /\ engine' = <<>> /\ hexrays' = NotTried
           /\ IF SlotsRaise(convention, num_args)
                THEN IsolateFailure(call) /\ UNCHANGED <<slots, pushes>>
                ELSE /\ slots' = Slots(convention, num_args)
                     /\ pushes' = IF \E k \in DOMAIN slots' : slots'[k].kind = "STACK_PUSH"
                                    THEN PushSequence(request.callers[call]) ELSE <<>>
                     /\ pc' = "slot" /\ UNCHANGED call_sites
    /\ UNCHANGED <<request, convention, num_args, raw, source, answer>>

\* The slot at hand, the instruction the resolver is asked about for it, and
\* whether the resolver is asked at all.
Current == slots[Len(arguments) + 1]

AskedInstruction ==
    IF Current.kind = "STACK_PUSH" /\ HasPush(pushes, Current.at)
      THEN PushAt(pushes, Current.at) ELSE 0

NeedsResolver ==
    CASE Current.kind = "REGISTER"     -> Current.reg # NoReg
      [] Current.kind = "STACK_PUSH"   -> HasPush(pushes, Current.at)
      [] Current.kind = "STACK_OFFSET" -> TRUE

WithoutResolver ==
    IF Current.kind = "REGISTER" THEN Shapeless ELSE Unknown("NO_DEFINITION_FOUND")

\* _resolve_slot.
ResolveSlot ==
    /\ pc = "slot" /\ Len(arguments) < Len(slots)
    /\ raw' \in IF NeedsResolver THEN request.answers ELSE {WithoutResolver}
    /\ source' = "raw"
    /\ engine' = Append(engine, raw')
    /\ pc' = "fallback"
    /\ UNCHANGED <<request, convention, num_args, call_ea, slots, pushes, hexrays,
                   arguments, call_sites, answer>>

ResolverRaises ==
    /\ pc = "slot" /\ Len(arguments) < Len(slots) /\ NeedsResolver /\ request.may_raise
    /\ IsolateFailure(call_ea)
    /\ UNCHANGED <<request, convention, num_args, siteVars, answer>>

\* What the decompiler may answer for n arguments: nothing (<<>>), or the
\* values of the first of them.
DecompilerAnswers(n) ==
    {<<>>} \cup UNION {[0..(m - 1) -> request.fallbacks] : m \in 0..n}

\* The answer the dictionary holds for an index is taken if it is known.
Take(args, index) ==
    IF index \in DOMAIN args /\ IsKnown(args[index])
      THEN raw' = args[index] /\ source' = "hexrays_fallback"
      ELSE UNCHANGED <<raw, source>>

\* Mutant of Fallback: the decompiler is asked for every slot.
Fallback_Always ==
    /\ pc = "fallback" /\ pc' = "process"
    /\ IF ~request.hexrays
         THEN UNCHANGED <<raw, source, hexrays>>
         ELSE /\ IF hexrays.tried THEN UNCHANGED hexrays
                 ELSE \E args \in DecompilerAnswers(num_args) :
                         hexrays' = [tried |-> TRUE, args |-> args]
              /\ Take(hexrays'.args, Current.index)
    /\ UNCHANGED <<request, convention, num_args, call_ea, slots, pushes, arguments,
                   call_sites, answer, engine>>

Fallback ==
    /\ pc = "fallback" /\ pc' = "process"
    /\ IF IsKnown(raw) \/ ~request.hexrays
         THEN UNCHANGED <<raw, source, hexrays>>
         ELSE /\ IF hexrays.tried THEN UNCHANGED hexrays
                 ELSE \E args \in DecompilerAnswers(num_args) :
                         hexrays' = [tried |-> TRUE, args |-> args]
              /\ Take(hexrays'.args, Current.index)
    /\ UNCHANGED <<request, convention, num_args, call_ea, slots, pushes, arguments,
                   call_sites, answer, engine>>

\* The chain declared for this index, if any, and the argument's result.
Chain(index) == IF index \in DOMAIN request.arg_types THEN request.arg_types[index] ELSE <<>>

PostProcess ==
    /\ pc = "process" /\ pc' = "slot"
    /\ arguments' = Append(arguments, Argument(Current.index, raw, Run(Chain(Current.index), raw),
                                               source, AskedInstruction))
    /\ UNCHANGED <<request, convention, num_args, call_ea, slots, pushes, raw, source,
                   hexrays, call_sites, answer, engine>>

EndSite ==
    /\ pc = "slot" /\ Len(arguments) = Len(slots) /\ pc' = "site"
    /\ call_sites' = Append(call_sites, [call |-> call_ea, arguments |-> arguments])
    /\ UNCHANGED <<request, convention, num_args, siteVars, answer>>

Finish ==
    /\ pc = "site" /\ Sites \ Done = {} /\ pc' = "done"
    /\ UNCHANGED <<request, convention, num_args, siteVars, call_sites, answer>>

-----------------------------------------------------------------------------
\* resolve_argument_at: slots() is evaluated outside the try block.
ResolveForward ==
    /\ pc = "forward"
    /\ IF request.arg_index \notin 0..(num_args - 1)
         THEN answer' = Shapeless /\ pc' = "done"
         ELSE IF SlotsRaise(convention, num_args)
         THEN pc' = "raised" /\ UNCHANGED answer
         ELSE /\ answer' \in request.answers \cup (IF request.may_raise THEN {Nothing} ELSE {})
              /\ pc' = "done"
    /\ UNCHANGED <<request, convention, num_args, siteVars, call_sites>>

Next == \/ ResolveConvention \/ BeginSite \/ ResolveSlot \/ ResolverRaises \/ Fallback
        \/ PostProcess \/ EndSite \/ Finish \/ ResolveForward

\* The facade is one synchronous call: it takes its steps.
Spec == Init /\ [][Next]_vars /\ WF_vars(Next)

-----------------------------------------------------------------------------
\* Every variable holds what the code can put there.
TypeOK ==
    /\ request \in Requests
    /\ pc \in {"resolve_convention", "site", "slot", "fallback", "process", "forward",
               "done", "raised"}
    /\ convention.tag \in {"template", "custom", "prototype"}
    /\ num_args \in Nat
    /\ slots \in Seq(ArgSlot) /\ pushes \in Seq(Nat)
    /\ Len(arguments) <= Len(slots)
    /\ Len(engine) = Len(arguments) + (IF pc \in {"fallback", "process"} THEN 1 ELSE 0)
    /\ source \in {"raw", "hexrays_fallback"} /\ hexrays.tried \in BOOLEAN
    /\ Done \subseteq Sites

\* An argument read from an instruction of the push sequence is the word at its
\* depth of the stack on which the call is made, whatever lies between the
\* pushes and wherever the scan's caps cut the sequence (SlotKind.STACK_PUSH,
\* conventions/base.py:25-30).
RightWord ==
    \A k \in DOMAIN arguments :
       arguments[k].from # 0
         => PushedAtDepth(request.callers[call_ea], slots[k].at, arguments[k].from)

\* The decompiler is asked for a site only after the resolver left one of that
\* site's arguments open, fills only such gaps, from one answer about this
\* site, and a result names the engine its value came from (facade.py:158-171,
\* api/results.py:22-29).
FallbackFillsGaps ==
    /\ hexrays.tried => \E k \in DOMAIN engine : IsUnknown(engine[k])
    /\ \A k \in DOMAIN arguments :
          LET a == arguments[k]
          IN  IF a.source = "raw" THEN a.raw = engine[k]
              ELSE /\ IsUnknown(engine[k]) /\ IsKnown(a.raw)
                   /\ a.index \in DOMAIN hexrays.args /\ a.raw = hexrays.args[a.index]

\* w is what a chain may make of v: the first thing that fails, be it v itself or
\* a step on what the steps before it made of v, is what comes out.
EndsAtFailure(chain, v, w) ==
    LET after(n) == Run(SubSeq(chain, 1, n), v)
        outcome(n) == Process(chain[n], after(n - 1))
    IN  /\ IsUnknown(v) => w = v
        /\ \A n \in DOMAIN chain :
              ~IsUnknown(after(n - 1)) /\ IsUnknown(outcome(n)) => w = outcome(n)

\* A failing step degrades the argument to its Unknown, and no later step of the
\* chain turns a failure into a value or its reason into another one, whatever a
\* user's step would answer (postproc/base.py:4-9, 44-54).
FirstFailureStands ==
    \A n \in DOMAIN call_sites : \A k \in DOMAIN call_sites[n].arguments :
       LET a == call_sites[n].arguments[k]
       IN  EndsAtFailure(Chain(a.index), a.raw, a.processed)

\* With a recognised prototype and no convention given, every reported slot is the place IDA gives to
\* the argument of that index, whatever arguments before it were left out
\* because their place has no slot, and an argument left out has no place
\* (inference.py:41-58, ida_port_impl.py:257-264).
GapsDoNotShift ==
    request.convention = <<>> /\ convention.tag = "prototype" =>
       \A k \in DOMAIN slots \cap DOMAIN request.prototype[1] :
          LET declared == request.prototype[1][k]
          IN  CASE declared.in = "register"  -> slots[k].reg = declared.reg
                [] declared.in = "stack"     -> /\ slots[k].kind = "STACK_OFFSET"
                                                /\ slots[k].at = declared.at
                [] declared.in = "scattered" -> /\ slots[k].kind = "REGISTER"
                                                /\ slots[k].reg = NoReg

\* Step by step the request keeps the promise of ReportPromise: a call site that
\* fails never costs the report of another.  resolve_argument_at reports no sites.
Promise == INSTANCE ReportPromise WITH
    outcome <- CASE pc = "done" -> "complete" [] pc = "raised" -> "refused" [] OTHER -> "open",
    calls   <- IF request.do = "extract_calls" THEN Sites ELSE {},
    count   <- Count,
    report  <- call_sites
KeepsPromise == Promise!Safety

\* ... and every request is answered, whatever fails on the way.
RequestAnswered == Promise!Answered

=============================================================================
