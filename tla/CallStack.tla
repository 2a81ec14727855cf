------------------------------ MODULE CallStack ------------------------------
(****************************************************************************)
(* What the processor does to the stack on the way to a call, for callers   *)
(* of PushSequence whose jumps go forward.  A stack is the sequence of the  *)
(* words known to be on top, oldest first, each named by the head that      *)
(* pushed it.                                                               *)
(****************************************************************************)
EXTENDS PushSequence

IsPop(i) == i.mnem = "other" /\ SpReg \in i.implicit

\* It writes the stack pointer or a word of the stack in some other way.
TouchesStack(i) ==
    \E n \in DOMAIN i.ops : /\ i.ops[n].written /\ i.ops[n].reg = SpReg
                            /\ IsReg(i.ops[n]) \/ IsMem(i.ops[n])

\* A callee may remove its arguments and may change what lies below them.
AfterHead(i, p, s) ==
    CASE IsPush(i) -> Append(s, p)
      [] IsPop(i)  -> IF s = <<>> THEN s ELSE Front(s)
      [] i.mnem = "call" -> <<>>
      [] OTHER -> IF TouchesStack(i) THEN <<>> ELSE s

\* The stacks with which control may arrive at head p, given those of the heads
\* before it; the head behind the last is the call.
Arriving(caller, at, p) ==
    IF p = 1 THEN {<<>>}
    ELSE UNION {{AfterHead(caller.code[q], q, s) : s \in at[q]} :
                   q \in {h \in 1..(p - 1) : p \in caller.flow[h]}}

StacksAt(caller) ==
    LET at[p \in 1..(Len(caller.code) + 1)] == Arriving(caller, at, p) IN at

StacksAtCall(caller) == StacksAt(caller)[Len(caller.code) + 1]

\* Word k from the top was pushed by head p, whatever way control came.
PushedAtDepth(caller, k, p) ==
    \A s \in StacksAtCall(caller) : Len(s) - k \in DOMAIN s /\ s[Len(s) - k] = p

=============================================================================
