---------------------------- MODULE PushSequence ----------------------------
(****************************************************************************)
(* The backward scan for the pushes of a call                               *)
(* (core/engine_backward.py, collect_push_sequence), in closed form.  A     *)
(* caller is [code, owned, flow]: the heads from the start of the owning    *)
(* function up to the call in address order, whether any function owns the  *)
(* call, and where control may go from each of them, which the scan does    *)
(* not look at.  A head that does not decode has the mnemonic "undecodable".*)
(****************************************************************************)
EXTENDS Instructions, FiniteSets, SequencesExt

CONSTANTS
    MaxPushes,   \* _MAX_PUSH_SEQUENCE
    MaxSkips     \* _MAX_TRANSPARENT_SKIP

ASSUME ScanAssumption == MaxPushes \in Nat /\ MaxSkips \in Nat

Undecodable == [ea |-> 0, mnem |-> "undecodable", ops |-> <<>>, delta |-> <<>>, implicit |-> {}]

IsPush(i) == i.mnem = "push"
IsTransfer(i) == i.mnem \in {"call", "jmp"}

\* Mutant of Transparent: a write to stack memory does not end the sequence.
Transparent_RegistersOnly(i) ==
    /\ ~IsTransfer(i)
    /\ \A n \in DOMAIN i.ops :
          i.ops[n].written => ~(IsReg(i.ops[n]) /\ i.ops[n].reg = SpReg)

\* _is_transparent_to_push_sequence: only the explicit operands are looked at.
Transparent(i) ==
    /\ ~IsTransfer(i)
    /\ \A n \in DOMAIN i.ops :
          i.ops[n].written => ~((IsReg(i.ops[n]) \/ IsMem(i.ops[n])) /\ i.ops[n].reg = SpReg)

GoesOn(i) == i.mnem # "undecodable" /\ (IsPush(i) \/ Transparent(i))

\* The scan looks at head p: nothing between p and the call ended it.
Reached(code, p) ==
    LET after == (p + 1)..Len(code)
    IN  /\ \A q \in after : GoesOn(code[q])
        /\ Cardinality({q \in after : IsPush(code[q])}) < MaxPushes
        /\ Cardinality({q \in after : ~IsPush(code[q])}) < MaxSkips

IsCaller(c) ==
    /\ c.owned \in BOOLEAN
    /\ c.code \in Seq({c.code[p] : p \in DOMAIN c.code})
    /\ \A p \in DOMAIN c.code : c.code[p] = Undecodable \/ IsInstruction(c.code[p])
    /\ \A p \in DOMAIN c.code : /\ c.flow[p] \subseteq (p + 1)..(Len(c.code) + 1)
                                /\ ~IsTransfer(c.code[p]) => c.flow[p] \subseteq {p + 1}

\* collect_push_sequence, oldest push first.
PushSequence(caller) ==
    IF ~caller.owned THEN <<>>
    ELSE Ascending({p \in DOMAIN caller.code : IsPush(caller.code[p]) /\ Reached(caller.code, p)},
                   Len(caller.code))

-----------------------------------------------------------------------------
\* The facade's index of a push position; a position that is not there, or a
\* negative one, falls outside.
HasPush(pushes, position) == Len(pushes) - position \in DOMAIN pushes
PushAt(pushes, position) == pushes[Len(pushes) - position]

=============================================================================
