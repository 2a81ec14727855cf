-------------------------- MODULE Extraction_proofs --------------------------
(****************************************************************************)
(* Theorems about one request to the facade, for every set of requests,     *)
(* whatever the resolver and the decompiler answer.                         *)
(****************************************************************************)
EXTENDS Extraction, ValueLattice_proofs, FiniteSetTheorems

-----------------------------------------------------------------------------
(* When the pushes found by the backward scan are the words on top of the   *)
(* stack: for callers of any length and content into whose pushes no jump   *)
(* leads, whatever the caps of the scan.                                    *)

\* The heads the scan takes for pushes of the call.
Found(c) == {p \in DOMAIN c.code : IsPush(c.code[p]) /\ Reached(c.code, p)}

\* What the scan takes for granted of a push it finds: no jump leads over it to
\* what follows, and nothing behind it pops a word without naming the stack
\* pointer.
StraightToCall(c) ==
    \A p \in Found(c) :
       /\ \A h \in DOMAIN c.code : h < p => c.flow[h] \cap ((p + 1)..(Len(c.code) + 1)) = {}
       /\ \A q \in DOMAIN c.code : p < q => ~IsPop(c.code[q])

\* The heads of a caller are numbered from 1.
LEMMA CallerHeads ==
    ASSUME NEW c, IsCaller(c)
    PROVE  DOMAIN c.code = 1..Len(c.code) /\ Len(c.code) \in Nat
  BY DEF IsCaller

\* A push behind a found one is found.
LEMMA FoundLater ==
    ASSUME NEW c, IsCaller(c), NEW p \in Found(c), NEW q \in DOMAIN c.code,
           p < q, IsPush(c.code[q])
    PROVE  q \in Found(c)
<1> DEFINE len == Len(c.code)
           Pushes(k) == {r \in (k + 1)..len : IsPush(c.code[r])}
           Others(k) == {r \in (k + 1)..len : ~IsPush(c.code[r])}
<1>1. len \in Nat /\ p \in 1..len /\ q \in 1..len
  BY CallerHeads DEF Found
<1>2. /\ \A r \in (p + 1)..len : GoesOn(c.code[r])
      /\ Cardinality(Pushes(p)) < MaxPushes /\ Cardinality(Others(p)) < MaxSkips
  BY DEF Found, Reached
<1> HIDE DEF len
<1>3. IsFiniteSet((p + 1)..len)
  <2>1. p + 1 \in Int /\ len \in Int
    BY <1>1
  <2> QED
    BY <2>1, FS_Interval
<1>4. IsFiniteSet(Pushes(p)) /\ IsFiniteSet(Others(p))
  <2>1. Pushes(p) \in SUBSET ((p + 1)..len) /\ Others(p) \in SUBSET ((p + 1)..len)
    OBVIOUS
  <2> QED
    BY <1>3, <2>1, FS_Subset
<1>5. Pushes(q) \in SUBSET Pushes(p) /\ Others(q) \in SUBSET Others(p)
  BY <1>1
<1>6. /\ Cardinality(Pushes(q)) <= Cardinality(Pushes(p))
      /\ Cardinality(Others(q)) <= Cardinality(Others(p))
  BY <1>4, <1>5, FS_Subset
<1>7. /\ Cardinality(Pushes(p)) \in Nat /\ Cardinality(Others(p)) \in Nat
      /\ Cardinality(Pushes(q)) \in Nat /\ Cardinality(Others(q)) \in Nat
  BY <1>4, <1>5, FS_Subset, FS_CardinalityType
<1>8. Cardinality(Pushes(q)) < MaxPushes /\ Cardinality(Others(q)) < MaxSkips
  BY <1>2, <1>6, <1>7, ScanAssumption
<1>9. \A r \in (q + 1)..len : GoesOn(c.code[r])
  BY <1>1, <1>2
<1> QED
  BY <1>8, <1>9 DEF Found, Reached, len

\* A head behind a found push lets control pass to the next head only, and
\* unless it is a found push itself it leaves the stack alone.
LEMMA BehindPush ==
    ASSUME NEW c, IsCaller(c), StraightToCall(c), NEW p \in Found(c),
           NEW q \in DOMAIN c.code, p <= q
    PROVE  /\ c.flow[q] \subseteq {q + 1}
           /\ q \notin Found(c) => \A s : AfterHead(c.code[q], q, s) = s
<1>1. p \in Nat /\ q \in Nat
  BY CallerHeads DEF Found
<1>2. CASE q \in Found(c)
  <2>1. ~IsTransfer(c.code[q])
    BY <1>2 DEF Found, IsPush, IsTransfer
  <2> QED
    BY <1>2, <2>1 DEF IsCaller
<1>3. CASE q \notin Found(c)
  <2>1. p < q
    BY <1>1, <1>3
  <2>2. GoesOn(c.code[q]) /\ ~IsPush(c.code[q])
    <3>1. q \in (p + 1)..Len(c.code)
      BY <1>1, <2>1, CallerHeads
    <3>2. GoesOn(c.code[q])
      BY <3>1 DEF Found, Reached
    <3> QED
      BY <1>3, <2>1, <3>2, FoundLater
  <2>3. Transparent(c.code[q])
    BY <2>2 DEF GoesOn
  <2>4. ~IsTransfer(c.code[q]) /\ ~TouchesStack(c.code[q])
    BY <2>3 DEF Transparent, TouchesStack
  <2>5. ~IsPop(c.code[q])
    BY <2>1 DEF StraightToCall
  <2>6. c.code[q].mnem # "call"
    BY <2>4 DEF IsTransfer
  <2>7. \A s : AfterHead(c.code[q], q, s) = s
    BY <2>2, <2>4, <2>5, <2>6 DEF AfterHead
  <2>8. c.flow[q] \subseteq {q + 1}
    BY <2>4 DEF IsCaller
  <2> QED
    BY <2>7, <2>8
<1> QED
  BY <1>2, <1>3

-----------------------------------------------------------------------------
(* The stacks on the way *)

\* A stack arrives from one of the heads before.
LEMMA ArrivesFrom ==
    ASSUME NEW c, NEW at, NEW p, p # 1, NEW s
    PROVE  s \in Arriving(c, at, p) <=>
              \E h \in 1..(p - 1) : /\ p \in c.flow[h]
                                    /\ \E u \in at[h] : s = AfterHead(c.code[h], h, u)
  BY DEF Arriving

\* The stacks that arrive depend on those of the heads before only.
LEMMA ArrivingAgree ==
    ASSUME NEW c, NEW at, NEW more, NEW p, \A h \in 1..(p - 1) : more[h] = at[h]
    PROVE  Arriving(c, more, p) = Arriving(c, at, p)
<1>1. CASE p = 1
  BY <1>1 DEF Arriving
<1>2. CASE p # 1
  <2>1. \A s : s \in Arriving(c, more, p) <=> s \in Arriving(c, at, p)
    BY <1>2, ArrivesFrom
  <2> QED
    BY <2>1
<1> QED
  BY <1>1, <1>2

\* The recursion that defines the stacks has a solution up to head n ...
LEMMA StacksUpTo ==
    ASSUME NEW c, NEW n \in Nat
    PROVE  \E at : \A p \in 1..n : at[p] = Arriving(c, at, p)
<1> DEFINE Q == {m \in Nat : \E at : \A p \in 1..m : at[p] = Arriving(c, at, p)}
<1>1. 0 \in Q
  OBVIOUS
<1>2. ASSUME NEW m \in Q
      PROVE  m + 1 \in Q
  <2>1. PICK at : \A p \in 1..m : at[p] = Arriving(c, at, p)
    OBVIOUS
  <2> DEFINE more == [p \in 1..(m + 1) |-> IF p <= m THEN at[p] ELSE Arriving(c, at, p)]
  <2>2. ASSUME NEW p \in 1..(m + 1)
        PROVE  more[p] = Arriving(c, more, p)
    <3>1. \A q \in 1..(p - 1) : more[q] = at[q]
      OBVIOUS
    <3> HIDE DEF more
    <3>2. Arriving(c, more, p) = Arriving(c, at, p)
      BY <3>1, ArrivingAgree
    <3> USE DEF more
    <3>3. more[p] = Arriving(c, at, p)
      BY <2>1
    <3> QED
      BY <3>2, <3>3
  <2> HIDE DEF more
  <2> QED
    BY <2>2
<1>3. Q = Nat
  BY <1>1, <1>2, Induction
<1> QED
  BY <1>3

\* ... so the stacks are what it says.
LEMMA StacksArrive ==
    ASSUME NEW c, IsCaller(c), NEW p \in 1..(Len(c.code) + 1)
    PROVE  StacksAt(c)[p] = Arriving(c, StacksAt(c), p)
<1> DEFINE Solves(at) == at = [q \in 1..(Len(c.code) + 1) |-> Arriving(c, at, q)]
<1>1. PICK at : \A q \in 1..(Len(c.code) + 1) : at[q] = Arriving(c, at, q)
  <2>1. Len(c.code) + 1 \in Nat
    BY CallerHeads
  <2> QED
    BY <2>1, StacksUpTo
<1> DEFINE only == [q \in 1..(Len(c.code) + 1) |-> at[q]]
<1>2. ASSUME NEW q \in 1..(Len(c.code) + 1)
      PROVE  only[q] = Arriving(c, only, q)
  <2>1. \A h \in 1..(q - 1) : only[h] = at[h]
    BY CallerHeads
  <2> HIDE DEF only
  <2>2. Arriving(c, only, q) = Arriving(c, at, q)
    BY <2>1, ArrivingAgree
  <2> QED
    BY <1>1, <2>2 DEF only
<1>3. Solves(only)
  BY <1>2
<1>4. StacksAt(c) = CHOOSE g : Solves(g)
  BY DEF StacksAt
<1>5. Solves(StacksAt(c))
  BY <1>3, <1>4
<1> QED
  BY <1>5

\* A stack whose top words are those of a.
EndsWith(s, a) ==
    /\ s \in Seq(Nat) /\ a \in Seq(Nat) /\ Len(a) <= Len(s)
    /\ \A n \in 1..Len(a) : s[Len(s) - Len(a) + n] = a[n]

\* Whatever a head does, words stay words.
LEMMA StaysStack ==
    ASSUME NEW i, NEW p \in Nat, NEW s \in Seq(Nat)
    PROVE  AfterHead(i, p, s) \in Seq(Nat)
<1>1. Append(s, p) \in Seq(Nat) /\ <<>> \in Seq(Nat)
  OBVIOUS
<1>2. s # <<>> => Front(s) \in Seq(Nat)
  BY DEF Front
<1> QED
  BY <1>1, <1>2 DEF AfterHead

\* Wherever control arrives with which stack, the found pushes it has passed are
\* its top words, in their order.
LEMMA PushedSoFar ==
    ASSUME NEW c, IsCaller(c), StraightToCall(c),
           NEW p \in 1..(Len(c.code) + 1), NEW s \in StacksAt(c)[p]
    PROVE  EndsWith(s, Ascending(Found(c), p - 1))
<1> DEFINE len == Len(c.code)
           at == StacksAt(c)
           so(q) == Ascending(Found(c), q - 1)
           Q == {n \in Nat : \A q \in 1..(n + 1) : q <= len + 1 =>
                                \A t \in at[q] : EndsWith(t, so(q))}
<1>1. len \in Nat /\ DOMAIN c.code = 1..len
  BY CallerHeads
<1>2. \A q \in 1..(len + 1) : at[q] = Arriving(c, at, q)
  BY StacksArrive
<1> HIDE DEF at, len
<1>3. \A q \in 1..(len + 1) : so(q) \in Seq(Nat)
  <2> SUFFICES ASSUME NEW q \in 1..(len + 1)
               PROVE  so(q) \in Seq(Nat)
    OBVIOUS
  <2>1. q - 1 \in Nat
    BY <1>1
  <2>2. so(q) \in Seq(Found(c) \cap (1..(q - 1)))
    BY <2>1, AscendingLists
  <2>3. Found(c) \cap (1..(q - 1)) \subseteq Nat
    BY <2>1
  <2> QED
    BY <2>2, <2>3
<1>4. 0 \in Q
  <2>1. so(1) = <<>>
    BY AscendingRecursion
  <2>2. at[1] = {<<>>}
    <3>1. 1 \in 1..(len + 1)
      BY <1>1
    <3>2. at[1] = Arriving(c, at, 1)
      BY <1>2, <3>1
    <3> QED
      BY <3>2 DEF Arriving
  <2>3. EndsWith(<<>>, <<>>)
    BY DEF EndsWith
  <2> QED
    BY <2>1, <2>2, <2>3
<1>5. ASSUME NEW n \in Q
      PROVE  n + 1 \in Q
  <2> DEFINE q == n + 1
  <2> SUFFICES ASSUME q + 1 <= len + 1, NEW t \in at[q + 1]
               PROVE  EndsWith(t, so(q + 1))
    OBVIOUS
  <2>1. q \in 1..len /\ q + 1 \in 1..(len + 1) /\ q + 1 # 1 /\ (q + 1) - 1 = q
    BY <1>1
  <2>2. PICK h \in 1..q : q + 1 \in c.flow[h] /\ \E u \in at[h] : t = AfterHead(c.code[h], h, u)
    <3>1. t \in Arriving(c, at, q + 1)
      BY <1>2, <2>1
    <3> QED
      BY <2>1, <3>1, ArrivesFrom
  <2>u. PICK u \in at[h] : t = AfterHead(c.code[h], h, u)
    BY <2>2
  <2>3. EndsWith(u, so(h))
    BY <1>1, <2>1
  <2>4. t \in Seq(Nat)
    <3>1. u \in Seq(Nat) /\ h \in Nat
      BY <2>3 DEF EndsWith
    <3> QED
      BY <2>u, <3>1, StaysStack
  <2>5. /\ so(q + 1) = IF q \in Found(c) THEN Append(so(q), q) ELSE so(q)
        /\ so(q + 1) \in Seq(Nat) /\ so(q) \in Seq(Nat)
    <3>1. n \in Nat /\ q - 1 = n /\ (q + 1) - 1 = n + 1
      BY <2>1
    <3>2. Ascending(Found(c), n + 1) = IF n + 1 \in Found(c) THEN Append(Ascending(Found(c), n), n + 1)
                                       ELSE Ascending(Found(c), n)
      BY <3>1, AscendingRecursion
    <3> QED
      <4>1. so(q + 1) = Ascending(Found(c), n + 1) /\ so(q) = Ascending(Found(c), n)
        BY <3>1
      <4>2. q \in 1..(len + 1) /\ q + 1 \in 1..(len + 1)
        BY <1>1, <2>1
      <4>3. so(q + 1) \in Seq(Nat) /\ so(q) \in Seq(Nat)
        BY <1>3, <4>2
      <4> HIDE DEF so
      <4>4. so(q + 1) = IF q \in Found(c) THEN Append(so(q), q) ELSE so(q)
        BY <3>2, <4>1
      <4> QED
        BY <4>3, <4>4
  <2> HIDE DEF so, q
  <2>6. CASE so(q + 1) = <<>>
    <3>1. EndsWith(t, <<>>)
      BY <2>4 DEF EndsWith
    <3> QED
      BY <2>6, <3>1
  <2>7. CASE so(q + 1) # <<>>
    <3>1. PICK p1 \in Found(c) : p1 <= q
      <4>1. CASE q \in Found(c)
        BY <2>1, <4>1
      <4>2. CASE q \notin Found(c)
        <5>1. so(q) # <<>> /\ so(q) \in Seq(Found(c) \cap (1..(q - 1)))
          BY <2>1, <2>5, <2>7, <4>2, AscendingLists DEF so
        <5>2. so(q)[1] \in Found(c) \cap (1..(q - 1))
          BY <5>1
        <5> QED
          BY <2>1, <5>2
      <4> QED
        BY <4>1, <4>2
    <3>2. p1 \in 1..len
      BY <1>1 DEF Found
    <3>3. h = q
      <4>1. CASE h < p1
        <5>1. c.flow[h] \cap ((p1 + 1)..(len + 1)) = {}
          BY <1>1, <2>1, <4>1 DEF StraightToCall, len
        <5> QED
          BY <2>1, <2>2, <3>1, <3>2, <5>1
      <4>2. CASE p1 <= h
        <5>1. h \in DOMAIN c.code
          BY <1>1, <2>1
        <5>2. c.flow[h] \subseteq {h + 1}
          BY <4>2, <5>1, BehindPush
        <5> QED
          BY <2>1, <2>2, <5>2
      <4> QED
        BY <2>1, <3>2, <4>1, <4>2
    <3>4. u \in Seq(Nat) /\ EndsWith(u, so(q))
      BY <2>3, <3>3 DEF EndsWith
    <3>5. CASE q \in Found(c)
      <4>1. t = Append(u, q)
        BY <2>u, <3>3, <3>5 DEF Found, AfterHead, IsPush, IsPop
      <4> DEFINE a == so(q)
      <4>2. so(q + 1) = Append(a, q) /\ a \in Seq(Nat)
        BY <2>5, <3>5
      <4>3. /\ Len(a) \in Nat /\ Len(u) \in Nat /\ Len(a) <= Len(u)
            /\ \A k \in 1..Len(a) : u[Len(u) - Len(a) + k] = a[k]
        BY <3>4 DEF EndsWith
      <4> HIDE DEF a
      <4>4. Len(t) = Len(u) + 1 /\ Len(Append(a, q)) = Len(a) + 1 /\ q \in Nat
        BY <2>1, <3>4, <4>1, <4>2
      <4>5. ASSUME NEW k \in 1..(Len(a) + 1)
            PROVE  t[Len(t) - (Len(a) + 1) + k] = Append(a, q)[k]
        <5>1. CASE k = Len(a) + 1
          BY <3>4, <4>1, <4>2, <4>3, <4>4, <5>1
        <5>2. CASE k \in 1..Len(a)
          <6>1. Len(t) - (Len(a) + 1) + k = Len(u) - Len(a) + k
            BY <4>3, <4>4
          <6>2. Len(u) - Len(a) + k \in 1..Len(u)
            BY <4>3, <5>2
          <6> QED
            BY <3>4, <4>1, <4>2, <4>3, <4>4, <5>2, <6>1, <6>2
        <5> QED
          BY <4>3, <5>1, <5>2
      <4> QED
        <5>1. EndsWith(t, Append(a, q))
          BY <2>4, <4>2, <4>3, <4>4, <4>5 DEF EndsWith
        <5> QED
          BY <4>2, <5>1
    <3>6. CASE q \notin Found(c)
      <4>1. t = u
        BY <1>1, <2>1, <2>u, <3>1, <3>3, <3>6, BehindPush
      <4> QED
        BY <2>5, <3>4, <3>6, <4>1
    <3> QED
      BY <3>5, <3>6
  <2> QED
    BY <2>6, <2>7
<1>6. Q = Nat
  BY <1>4, <1>5, Induction
<1>7. p - 1 \in Q
  BY <1>1, <1>6 DEF len
<1>8. p \in 1..((p - 1) + 1) /\ p <= len + 1
  BY <1>1 DEF len
<1> QED
  BY <1>7, <1>8 DEF at

\* A push the facade takes for stack word k is that word, on every way to a call
\* that its pushes lead straight to (SlotKind.STACK_PUSH, conventions/base.py:25-30).
LEMMA ScannedWord ==
    ASSUME NEW c, IsCaller(c), StraightToCall(c), NEW k \in Int, HasPush(PushSequence(c), k)
    PROVE  PushedAtDepth(c, k, PushAt(PushSequence(c), k))
<1> DEFINE len == Len(c.code)
           a == Ascending(Found(c), len)
<1>1. len \in Nat
  BY CallerHeads
<1>2. PushSequence(c) = a
  <2>1. PushSequence(c) # <<>>
    BY DEF HasPush
  <2> QED
    BY <2>1 DEF PushSequence, Found
<1>3. a \in Seq(Nat)
  <2>1. a \in Seq(Found(c) \cap (1..len))
    BY <1>1, AscendingLists
  <2>2. Found(c) \cap (1..len) \subseteq Nat
    BY <1>1
  <2> QED
    BY <2>1, <2>2
<1>4. Len(a) - k \in 1..Len(a) /\ Len(a) \in Nat
  BY <1>2, <1>3 DEF HasPush
<1>5. ASSUME NEW s \in StacksAtCall(c)
      PROVE  Len(s) - k \in DOMAIN s /\ s[Len(s) - k] = a[Len(a) - k]
  <2>1. EndsWith(s, Ascending(Found(c), (len + 1) - 1))
    BY <1>1, PushedSoFar DEF StacksAtCall
  <2>2. EndsWith(s, a)
    <3>1. (len + 1) - 1 = len
      BY <1>1
    <3> QED
      BY <2>1, <3>1
  <2> HIDE DEF a
  <2>3. /\ s \in Seq(Nat) /\ Len(s) \in Nat /\ Len(a) <= Len(s)
        /\ s[Len(s) - Len(a) + (Len(a) - k)] = a[Len(a) - k]
    BY <1>4, <2>2 DEF EndsWith
  <2>4. Len(s) - Len(a) + (Len(a) - k) = Len(s) - k /\ Len(s) - k \in 1..Len(s)
    BY <1>4, <2>3
  <2> QED
    BY <2>3, <2>4
<1> QED
  BY <1>2, <1>5 DEF PushedAtDepth, PushAt

-----------------------------------------------------------------------------
(* Slots *)

\* What a location says.
LEMMA LocationFields ==
    ASSUME NEW places, NEW l \in Location(places)
    PROVE  l.index \in Nat /\ l.in \in places /\ l.reg \in Reg \cup {NoReg} /\ l.at \in Int
  BY DEF Location

\* The slot of an index is that index's, and well formed.
LEMMA SlotOfIndex ==
    ASSUME NEW c, IsConvention(c), NEW n \in Nat, ~SlotsRaise(c, n), NEW i \in 0..(n - 1)
    PROVE  SlotOf(c, i) \in ArgSlot /\ SlotOf(c, i).index = i
<1>1. CASE c.tag = "template"
  <2>1. Len(c.names) \in Nat /\ c.base \in Int /\ c.size \in Int
    BY <1>1 DEF IsConvention
  <2> DEFINE beyond == i - Len(c.names)
  <2>2. beyond \in Int /\ c.base + beyond * c.size \in Int /\ i \in Nat
    BY <2>1
  <2> HIDE DEF beyond
  <2>3. TemplateSlot(c, i) =
          CASE beyond < 0 -> Slot(i, "REGISTER", NamedRegister(c.names[i + 1]), 0)
            [] beyond >= 0 /\ c.mode = "push" -> Slot(i, "STACK_PUSH", NoReg, beyond)
            [] beyond >= 0 /\ c.mode # "push" ->
                  Slot(i, "STACK_OFFSET", NoReg, c.base + beyond * c.size)
    BY DEF TemplateSlot, beyond
  <2> QED
    BY <1>1, <2>2, <2>3 DEF SlotOf, Slot, ArgSlot, SlotKind, NamedRegister
<1>2. CASE c.tag = "custom"
  <2>1. c.decls \in Seq([index : Int, kind : SlotKind, name : STRING, at : Int])
    BY <1>2 DEF IsConvention
  <2> DEFINE named == DeclaredAs(c, i, {"REGISTER"})
             stack == DeclaredAs(c, i, SlotKind \ {"REGISTER"})
  <2>2. CASE named # {}
    BY <1>2, <2>2 DEF SlotOf, CustomSlot, Slot, ArgSlot, SlotKind, NamedRegister
  <2>3. CASE named = {}
    <3>1. stack # {}
      <4>1. DeclaredAs(c, i, SlotKind) # {}
        BY <1>2 DEF SlotsRaise
      <4> QED
        BY <2>3, <4>1 DEF DeclaredAs
    <3>2. Greatest(stack) \in stack
      <4>1. stack \in SUBSET (0..Len(c.decls)) /\ Len(c.decls) \in Nat
        BY <2>1 DEF DeclaredAs
      <4> QED
        BY <3>1, <4>1, GreatestIsGreatest
    <3> DEFINE d == c.decls[Greatest(stack)]
    <3>3. d.kind \in SlotKind /\ d.at \in Int
      <4>1. Greatest(stack) \in DOMAIN c.decls
        BY <3>2 DEF DeclaredAs
      <4>2. d \in [index : Int, kind : SlotKind, name : STRING, at : Int]
        BY <2>1, <4>1, ElementOf
      <4> QED
        BY <4>2
    <3>4. CustomSlot(c, i) = Slot(i, d.kind, NoReg, d.at)
      BY <2>3 DEF CustomSlot
    <3> HIDE DEF d
    <3> QED
      BY <1>2, <3>3, <3>4 DEF SlotOf, Slot, ArgSlot
  <2> QED
    BY <2>2, <2>3
<1>3. CASE c.tag = "prototype"
  <2>1. c.locations \in Seq(Location({"register", "stack"}))
    BY <1>3 DEF IsConvention
  <2> DEFINE here == {k \in DOMAIN c.locations : c.locations[k].index = i}
             loc == c.locations[Greatest(here)]
  <2>2. CASE here = {}
    BY <1>3, <2>2 DEF SlotOf, PrototypeSlot, Slot, ArgSlot, SlotKind
  <2>3. CASE here # {}
    <3>1. Greatest(here) \in here
      <4>1. here \in SUBSET (0..Len(c.locations)) /\ Len(c.locations) \in Nat
        BY <2>1
      <4> QED
        BY <2>3, <4>1, GreatestIsGreatest
    <3>2. loc \in Location({"register", "stack"})
      BY <2>1, <3>1, ElementOf
    <3>3. loc.reg \in Reg \cup {NoReg} /\ loc.at \in Int
      BY <3>2, LocationFields
    <3>4. PrototypeSlot(c, i) = IF loc.in = "register" THEN Slot(i, "REGISTER", loc.reg, 0)
                                ELSE Slot(i, "STACK_OFFSET", NoReg, loc.at)
      BY <2>3 DEF PrototypeSlot
    <3> HIDE DEF loc
    <3> QED
      BY <1>3, <3>3, <3>4 DEF SlotOf, Slot, ArgSlot, SlotKind
  <2> QED
    BY <2>2, <2>3
<1> QED
  BY <1>1, <1>2, <1>3 DEF IsConvention

\* So are all the slots of a convention that has them.
LEMMA SlotsAreSlots ==
    ASSUME NEW c, IsConvention(c), NEW n \in Nat, ~SlotsRaise(c, n)
    PROVE  /\ Slots(c, n) \in Seq(ArgSlot) /\ Len(Slots(c, n)) = n
           /\ \A k \in 1..n : Slots(c, n)[k].index = k - 1
<1>1. ASSUME NEW k \in 1..n
      PROVE  SlotOf(c, k - 1) \in ArgSlot /\ SlotOf(c, k - 1).index = k - 1
  BY SlotOfIndex
<1>2. Slots(c, n) = [k \in 1..n |-> SlotOf(c, k - 1)]
  BY DEF Slots
<1> QED
  BY <1>1, <1>2

\* What is left of a function type are its representable arguments, each with
\* the index it had.
LEMMA RepresentableOnes ==
    ASSUME NEW details \in Seq(Location({"register", "stack", "scattered"})),
           \A k \in DOMAIN details : details[k].index = k - 1
    PROVE  /\ Representable(details) \in Seq(Location({"register", "stack"}))
           /\ \A n \in DOMAIN Representable(details) :
                 LET k == Representable(details)[n].index + 1
                 IN  k \in DOMAIN details /\ Representable(details)[n] = details[k]
           /\ \A k \in DOMAIN details : details[k].in # "scattered" =>
                 \E n \in DOMAIN Representable(details) : Representable(details)[n] = details[k]
<1> DEFINE P == {k \in DOMAIN details : details[k].in \in {"register", "stack"}}
           kept == Ascending(P, Len(details))
           t == Representable(details)
           All == Location({"register", "stack", "scattered"})
<1>1. t = Picked(details, P)
  BY DEF Representable
<1>2. /\ t \in Seq(All) /\ Len(t) = Len(kept) /\ Len(t) \in Nat
      /\ \A n \in 1..Len(t) : t[n] = details[kept[n]] /\ kept[n] \in P \cap DOMAIN details
  BY <1>1, PickedPlaces
<1>3. \A i \in P \cap (1..Len(details)) : \E k \in 1..Len(kept) : kept[k] = i
  <2>1. Len(details) \in Nat
    OBVIOUS
  <2> HIDE DEF P
  <2> QED
    BY <2>1, AscendingLists
<1> HIDE DEF t, kept
<1>4. ASSUME NEW n \in 1..Len(t)
      PROVE  t[n] \in Location({"register", "stack"})
  <2>1. t[n] = details[kept[n]] /\ kept[n] \in P
    BY <1>2
  <2>2. t[n] \in All /\ t[n].in \in {"register", "stack"}
    BY <2>1, ElementOf
  <2> QED
    BY <2>2 DEF Location
<1>5. t \in Seq(Location({"register", "stack"}))
  BY <1>2, <1>4
<1>6. ASSUME NEW n \in DOMAIN t
      PROVE  t[n].index + 1 \in DOMAIN details /\ t[n] = details[t[n].index + 1]
  <2>1. t[n] = details[kept[n]] /\ kept[n] \in DOMAIN details /\ kept[n] \in Nat
    BY <1>2
  <2>2. t[n].index + 1 = kept[n]
    BY <2>1
  <2> QED
    BY <2>1, <2>2
<1>7. ASSUME NEW k \in DOMAIN details, details[k].in # "scattered"
      PROVE  \E n \in DOMAIN t : t[n] = details[k]
  <2>1. k \in P \cap (1..Len(details))
    BY <1>7, ElementOf, LocationFields
  <2>2. PICK n \in 1..Len(kept) : kept[n] = k
    BY <1>3, <2>1
  <2> QED
    BY <1>2, <2>2
<1> QED
  BY <1>5, <1>6, <1>7 DEF t

\* With the convention inferred from a function type, the slot of an argument
\* is its declared place (inference.py:41-58).
LEMMA InferredSlot ==
    ASSUME NEW type, IsPrototype(type), Infer(type) # <<>>
    PROVE  /\ IsConvention(Infer(type)[1]) /\ Infer(type)[1].tag = "prototype"
           /\ \A k \in DOMAIN type[1] :
                 LET slot == SlotOf(Infer(type)[1], k - 1)
                     declared == type[1][k]
                 IN  CASE declared.in = "register"  -> slot.reg = declared.reg
                       [] declared.in = "stack"     -> /\ slot.kind = "STACK_OFFSET"
                                                       /\ slot.at = declared.at
                       [] declared.in = "scattered" -> /\ slot.kind = "REGISTER"
                                                       /\ slot.reg = NoReg
<1> DEFINE details == type[1]
           t == Representable(details)
           c == Prototype(t)
<1>1. Infer(type) = <<c>> /\ type # <<>>
  BY DEF Infer
<1>2. Infer(type)[1] = c
  BY <1>1
<1>3. /\ details \in Seq(Location({"register", "stack", "scattered"}))
      /\ \A k \in DOMAIN details : details[k].index = k - 1
  BY <1>1 DEF IsPrototype
<1>4. /\ t \in Seq(Location({"register", "stack"}))
      /\ \A n \in DOMAIN t : t[n].index + 1 \in DOMAIN details /\ t[n] = details[t[n].index + 1]
      /\ \A k \in DOMAIN details : details[k].in # "scattered" =>
            \E n \in DOMAIN t : t[n] = details[k]
  BY <1>3, RepresentableOnes
<1> HIDE DEF t, details
<1>5. IsConvention(c) /\ c.tag = "prototype" /\ c.locations = t
  BY <1>4 DEF Prototype, IsConvention
<1>6. ASSUME NEW k \in DOMAIN details
      PROVE  CASE details[k].in = "register"  -> SlotOf(c, k - 1).reg = details[k].reg
               [] details[k].in = "stack"     -> /\ SlotOf(c, k - 1).kind = "STACK_OFFSET"
                                                 /\ SlotOf(c, k - 1).at = details[k].at
               [] details[k].in = "scattered" -> /\ SlotOf(c, k - 1).kind = "REGISTER"
                                                 /\ SlotOf(c, k - 1).reg = NoReg
  <2> DEFINE here == {n \in DOMAIN t : t[n].index = k - 1}
             loc == t[Greatest(here)]
  <2>1. k \in Nat /\ details[k].index = k - 1
        /\ details[k].in \in {"register", "stack", "scattered"}
    BY <1>3, ElementOf, LocationFields
  <2>2. \A n \in here : t[n] = details[k]
    <3> SUFFICES ASSUME NEW n \in here
                 PROVE  t[n] = details[k]
      OBVIOUS
    <3>1. t[n].index + 1 = k
      BY <2>1
    <3> QED
      BY <1>4, <3>1
  <2>3. SlotOf(c, k - 1) = PrototypeSlot(c, k - 1)
    BY <1>5 DEF SlotOf
  <2>4. CASE here = {}
    <3>1. details[k].in = "scattered"
      BY <1>4, <2>1, <2>4
    <3>2. PrototypeSlot(c, k - 1) = Slot(k - 1, "REGISTER", NoReg, 0)
      BY <1>5, <2>4 DEF PrototypeSlot
    <3> QED
      BY <2>3, <3>1, <3>2 DEF Slot
  <2>5. CASE here # {}
    <3>1. Greatest(here) \in here
      <4>1. here \in SUBSET (0..Len(t)) /\ Len(t) \in Nat
        BY <1>4
      <4> QED
        BY <2>5, <4>1, GreatestIsGreatest
    <3>2. loc = details[k] /\ loc.in \in {"register", "stack"}
      BY <1>4, <2>2, <3>1, ElementOf, LocationFields
    <3>3. PrototypeSlot(c, k - 1) = IF loc.in = "register" THEN Slot(k - 1, "REGISTER", loc.reg, 0)
                                    ELSE Slot(k - 1, "STACK_OFFSET", NoReg, loc.at)
      BY <1>5, <2>5 DEF PrototypeSlot
    <3> HIDE DEF loc
    <3>4. CASE details[k].in = "register"
      BY <2>3, <3>2, <3>3, <3>4 DEF Slot
    <3>5. CASE details[k].in = "stack"
      BY <2>3, <3>2, <3>3, <3>5 DEF Slot
    <3> QED
      BY <3>2, <3>4, <3>5
  <2> QED
    BY <2>4, <2>5
<1> QED
  BY <1>2, <1>5, <1>6 DEF details

-----------------------------------------------------------------------------
(* Post-processing *)

\* The recursion Run is written as, up to step n.
AfterStep(chain, v, after, k) ==
    IF k = 0 THEN v
    ELSE IF IsUnknown(after[k - 1]) THEN after[k - 1] ELSE Process(chain[k], after[k - 1])

RunsTo(chain, v, n, after) ==
    after = [k \in 0..n |-> AfterStep(chain, v, after, k)]

\* There is a function that satisfies it ...
LEMMA RunsToExists ==
    ASSUME NEW chain, NEW v, NEW n \in Nat
    PROVE  \E after : RunsTo(chain, v, n, after)
<1> DEFINE P == {m \in Nat : \E after : RunsTo(chain, v, m, after)}
<1>1. 0 \in P
  <2>1. RunsTo(chain, v, 0, [k \in 0..0 |-> v])
    BY DEF RunsTo, AfterStep
  <2> QED
    BY <2>1
<1>2. ASSUME NEW m \in P
      PROVE  m + 1 \in P
  <2>1. PICK g : RunsTo(chain, v, m, g)
    OBVIOUS
  <2> DEFINE last == IF IsUnknown(g[m]) THEN g[m] ELSE Process(chain[m + 1], g[m])
             h == [k \in 0..(m + 1) |-> IF k <= m THEN g[k] ELSE last]
  <2>2. ASSUME NEW k \in 0..(m + 1)
        PROVE  h[k] = AfterStep(chain, v, h, k)
    <3>1. CASE k = m + 1
      BY <3>1 DEF AfterStep
    <3>2. CASE k \in 0..m
      <4>1. g[k] = AfterStep(chain, v, g, k)
        BY <2>1, <3>2 DEF RunsTo
      <4> QED
        BY <3>2, <4>1 DEF AfterStep
    <3> QED
      BY <3>1, <3>2
  <2>3. RunsTo(chain, v, m + 1, h)
    BY <2>2 DEF RunsTo
  <2> QED
    BY <2>3
<1>3. P = Nat
  BY <1>1, <1>2, Induction
<1> QED
  BY <1>3

\* ... and one of them is enough: on a prefix of the chain they all say the same.
LEMMA RunsToAgree ==
    ASSUME NEW c, NEW d, NEW v, NEW n \in Nat, NEW m \in Nat, NEW g, NEW h,
           RunsTo(c, v, n, g), RunsTo(d, v, m, h), n <= m, \A k \in 1..n : c[k] = d[k]
    PROVE  g[n] = h[n]
<1> DEFINE P == {k \in Nat : k <= n => g[k] = h[k]}
<1>1. \A k \in 0..n : g[k] = AfterStep(c, v, g, k)
  BY DEF RunsTo
<1>2. \A k \in 0..m : h[k] = AfterStep(d, v, h, k)
  BY DEF RunsTo
<1>3. 0 \in P
  <2>1. 0 \in 0..n /\ 0 \in 0..m
    OBVIOUS
  <2> QED
    BY <1>1, <1>2, <2>1 DEF AfterStep
<1>4. ASSUME NEW k \in P
      PROVE  k + 1 \in P
  <2> SUFFICES ASSUME k + 1 <= n
               PROVE  g[k + 1] = h[k + 1]
    OBVIOUS
  <2>1. /\ g[k] = h[k] /\ k + 1 \in 0..n /\ k + 1 \in 0..m /\ (k + 1) - 1 = k /\ k + 1 # 0
        /\ c[k + 1] = d[k + 1]
    OBVIOUS
  <2>2. g[k + 1] = IF IsUnknown(g[k]) THEN g[k] ELSE Process(c[k + 1], g[k])
    BY <1>1, <2>1 DEF AfterStep
  <2>3. h[k + 1] = IF IsUnknown(h[k]) THEN h[k] ELSE Process(d[k + 1], h[k])
    BY <1>2, <2>1 DEF AfterStep
  <2> QED
    BY <2>1, <2>2, <2>3
<1>5. P = Nat
  BY <1>3, <1>4, Induction
<1> QED
  BY <1>5

\* Run is the recursion it is written as, on the chain and on each of its prefixes.
LEMMA RunOfPrefix ==
    ASSUME NEW T, NEW chain \in Seq(T), NEW v
    PROVE  \E after : /\ RunsTo(chain, v, Len(chain), after)
                      /\ Run(chain, v) = after[Len(chain)]
                      /\ \A n \in 0..Len(chain) : Run(SubSeq(chain, 1, n), v) = after[n]
<1>1. Len(chain) \in Nat
  OBVIOUS
<1>2. ASSUME NEW c, Len(c) \in Nat
      PROVE  \E g : RunsTo(c, v, Len(c), g) /\ Run(c, v) = g[Len(c)]
  <2> DEFINE g == CHOOSE after : RunsTo(c, v, Len(c), after)
  <2>1. RunsTo(c, v, Len(c), g)
    BY <1>2, RunsToExists
  <2>2. Run(c, v) = g[Len(c)]
    BY DEF Run, RunsTo, AfterStep
  <2> QED
    BY <2>1, <2>2
<1>3. PICK after : RunsTo(chain, v, Len(chain), after) /\ Run(chain, v) = after[Len(chain)]
  BY <1>1, <1>2
<1>4. ASSUME NEW n \in 0..Len(chain)
      PROVE  Run(SubSeq(chain, 1, n), v) = after[n]
  <2>1. PICK c : c = SubSeq(chain, 1, n)
    OBVIOUS
  <2>2. Len(c) = n /\ n \in Nat /\ n <= Len(chain) /\ \A k \in 1..n : c[k] = chain[k]
    BY <1>1, <2>1
  <2>3. PICK g : RunsTo(c, v, Len(c), g) /\ Run(c, v) = g[Len(c)]
    BY <1>2, <2>2
  <2>4. RunsTo(c, v, n, g)
    BY <2>2, <2>3
  <2>5. g[n] = after[n]
    BY <1>1, <1>3, <2>2, <2>4, RunsToAgree
  <2> QED
    BY <2>1, <2>2, <2>3, <2>5
<1> QED
  BY <1>3, <1>4

\* What is Unknown after some step of a chain is so to its end.
LEMMA UnknownPasses ==
    ASSUME NEW T, NEW chain \in Seq(T), NEW v, NEW after, RunsTo(chain, v, Len(chain), after),
           NEW n \in 0..Len(chain), IsUnknown(after[n])
    PROVE  \A k \in n..Len(chain) : after[k] = after[n]
<1> DEFINE P == {k \in Nat : n + k <= Len(chain) => after[n + k] = after[n]}
<1>1. Len(chain) \in Nat /\ n \in Nat
  OBVIOUS
<1>2. 0 \in P
  BY <1>1
<1>3. ASSUME NEW k \in P
      PROVE  k + 1 \in P
  <2> SUFFICES ASSUME n + (k + 1) <= Len(chain)
               PROVE  after[n + (k + 1)] = after[n]
    OBVIOUS
  <2>1. /\ after[n + k] = after[n] /\ n + (k + 1) \in 0..Len(chain)
        /\ n + (k + 1) # 0 /\ n + (k + 1) - 1 = n + k
    BY <1>1
  <2>2. after[n + (k + 1)] = AfterStep(chain, v, after, n + (k + 1))
    BY <2>1 DEF RunsTo
  <2> QED
    BY <2>1, <2>2 DEF AfterStep
<1>4. P = Nat
  BY <1>2, <1>3, Induction
<1>5. ASSUME NEW k \in n..Len(chain)
      PROVE  after[k] = after[n]
  <2>1. k - n \in Nat /\ n + (k - n) = k /\ k <= Len(chain)
    BY <1>1
  <2>2. k - n \in P
    BY <1>4, <2>1
  <2> QED
    BY <2>1, <2>2
<1> QED
  BY <1>5

\* A chain comes out with the first thing that fails.
LEMMA FirstFailureEnds ==
    ASSUME NEW T, NEW chain \in Seq(T), NEW v
    PROVE  EndsAtFailure(chain, v, Run(chain, v))
<1>1. PICK after : /\ RunsTo(chain, v, Len(chain), after)
                   /\ Run(chain, v) = after[Len(chain)]
                   /\ \A n \in 0..Len(chain) : Run(SubSeq(chain, 1, n), v) = after[n]
  BY RunOfPrefix
<1>2. Len(chain) \in Nat /\ DOMAIN chain = 1..Len(chain)
  OBVIOUS
<1>3. ASSUME IsUnknown(v)
      PROVE  Run(chain, v) = v
  <2>1. after[0] = v
    BY <1>1, <1>2 DEF RunsTo, AfterStep
  <2> QED
    BY <1>1, <1>2, <1>3, <2>1, UnknownPasses
<1>4. ASSUME NEW n \in DOMAIN chain,
             ~IsUnknown(Run(SubSeq(chain, 1, n - 1), v)),
             IsUnknown(Process(chain[n], Run(SubSeq(chain, 1, n - 1), v)))
      PROVE  Run(chain, v) = Process(chain[n], Run(SubSeq(chain, 1, n - 1), v))
  <2>1. n \in 0..Len(chain) /\ n - 1 \in 0..Len(chain) /\ n # 0
    BY <1>2
  <2>2. Run(SubSeq(chain, 1, n - 1), v) = after[n - 1]
    BY <1>1, <2>1
  <2>3. after[n] = Process(chain[n], after[n - 1])
    BY <1>1, <1>4, <2>1, <2>2 DEF RunsTo, AfterStep
  <2>4. after[Len(chain)] = after[n]
    BY <1>1, <1>2, <1>4, <2>1, <2>2, <2>3, UnknownPasses
  <2> QED
    BY <1>1, <2>2, <2>3, <2>4
<1> QED
  BY <1>3, <1>4 DEF EndsAtFailure

\* An Unknown comes out of a chain as it went in, which is its first failure.
LEMMA UnknownEndsChain ==
    ASSUME NEW T, NEW chain \in Seq(T), NEW v, IsUnknown(v)
    PROVE  Run(chain, v) = v /\ EndsAtFailure(chain, v, v)
  BY FirstFailureEnds DEF EndsAtFailure

-----------------------------------------------------------------------------
(* The decompiler fills gaps only *)

\* Value v from src for this index is accounted for by the resolver's k-th
\* answer for the site, or by the decompiler's where that one is Unknown.
Explained(index, v, src, k) ==
    IF src = "raw" THEN v = engine[k]
    ELSE /\ IsUnknown(engine[k]) /\ IsKnown(v)
         /\ index \in DOMAIN hexrays.args /\ v = hexrays.args[index]

AskedForAGap == hexrays.tried => \E k \in DOMAIN engine : IsUnknown(engine[k])

AllExplained ==
    \A k \in DOMAIN arguments :
       Explained(arguments[k].index, arguments[k].raw, arguments[k].source, k)

Lengths ==
    /\ IsGrowing(arguments) /\ IsGrowing(engine)
    /\ pc \in {"fallback", "process"} => Len(engine) = Len(arguments) + 1
    /\ pc \notin {"fallback", "process"} => Len(engine) = Len(arguments)

\* The value at hand before and after the fallback.
AtHand ==
    /\ pc = "fallback" => raw = engine[Len(engine)] /\ source = "raw"
    /\ pc = "process" => Explained(Current.index, raw, source, Len(engine))

\* Nothing is taken from a decompiler that was not asked.
NothingUntried == ~hexrays.tried => DOMAIN hexrays.args = {}

FallbackInv == Lengths /\ AtHand /\ NothingUntried /\ AskedForAGap /\ AllExplained

\* The two readings of the property are the same.
LEMMA GapsFilled == FallbackInv => FallbackFillsGaps
  BY DEF FallbackInv, AskedForAGap, AllExplained, Explained, FallbackFillsGaps

\* Before the first call site there is nothing to account for.
LEMMA FallbackInit == Init => FallbackInv
  BY NothingYet DEF Init, FallbackInv, Lengths, AtHand, NothingUntried, AskedForAGap,
                    AllExplained, NotTried

\* Nothing below looks at what these steps change.
LEMMA SameSite ==
    ASSUME FallbackInv, UNCHANGED siteVars,
           pc \notin {"fallback", "process"}, pc' \notin {"fallback", "process"}
    PROVE  FallbackInv'
  BY DEF FallbackInv, Lengths, AtHand, NothingUntried, AskedForAGap, AllExplained, Explained,
         siteVars, Current

\* A call site starts with no answers, no arguments and nobody asked
\* (facade.py:158-160).
LEMMA FreshSite ==
    ASSUME FallbackInv, BeginSite
    PROVE  FallbackInv'
<1>1. arguments' = <<>> /\ engine' = <<>> /\ hexrays' = NotTried /\ pc' \in {"site", "slot"}
  BY DEF BeginSite, IsolateFailure
<1> QED
  BY <1>1, NothingYet DEF FallbackInv, Lengths, AtHand, NothingUntried, AskedForAGap,
                          AllExplained, NotTried

\* The resolver's answer is appended; those of earlier slots stay.
LEMMA Resolved ==
    ASSUME FallbackInv, ResolveSlot
    PROVE  FallbackInv'
<1>1. /\ pc = "slot" /\ pc' = "fallback" /\ source' = "raw"
      /\ engine' = Append(engine, raw') /\ UNCHANGED <<hexrays, arguments>>
  BY DEF ResolveSlot
<1>2. IsGrowing(arguments) /\ IsGrowing(engine) /\ Len(engine) = Len(arguments)
  BY <1>1 DEF FallbackInv, Lengths
<1>3. /\ IsGrowing(engine') /\ Len(engine') = Len(engine) + 1 /\ engine'[Len(engine) + 1] = raw'
      /\ \A k \in 1..Len(engine) : engine'[k] = engine[k]
  BY <1>1, <1>2, Growing
<1>4. /\ DOMAIN engine = 1..Len(engine) /\ Len(engine) \in Nat
      /\ DOMAIN engine' = 1..Len(engine') /\ DOMAIN arguments = 1..Len(arguments)
  BY <1>2, <1>3, Places
<1>5. Lengths' /\ AtHand' /\ NothingUntried'
  BY <1>1, <1>2, <1>3 DEF FallbackInv, Lengths, AtHand, NothingUntried
<1>6. AskedForAGap'
  BY <1>1, <1>3, <1>4 DEF FallbackInv, AskedForAGap
<1>7. AllExplained'
  BY <1>1, <1>2, <1>3, <1>4 DEF FallbackInv, AllExplained, Explained
<1> QED
  BY <1>5, <1>6, <1>7 DEF FallbackInv

\* The decompiler is asked, or was asked before, or is not needed.
LEMMA FellBack ==
    ASSUME FallbackInv, Fallback
    PROVE  FallbackInv'
<1>1. /\ pc = "fallback" /\ pc' = "process"
      /\ UNCHANGED <<slots, arguments, engine>>
      /\ raw = engine[Len(engine)] /\ source = "raw"
  BY DEF Fallback, FallbackInv, AtHand
<1>2. IsGrowing(engine) /\ Len(engine) = Len(arguments) + 1 /\ IsGrowing(arguments)
  BY <1>1 DEF FallbackInv, Lengths
<1>3. Len(engine) \in DOMAIN engine /\ DOMAIN arguments \subseteq DOMAIN engine
  BY <1>2, Places
<1>4. Lengths'
  BY <1>1, <1>2 DEF Lengths
<1>5. Current' = Current
  BY <1>1 DEF Current
<1>6. CASE IsKnown(raw) \/ ~request.hexrays
  <2>1. UNCHANGED <<raw, source, hexrays>>
    BY <1>6 DEF Fallback
  <2> QED
    BY <2>1, <1>1, <1>4 DEF FallbackInv, AtHand, NothingUntried, AskedForAGap, AllExplained,
                            Explained
<1>7. CASE ~(IsKnown(raw) \/ ~request.hexrays)
  <2>1. IsUnknown(engine[Len(engine)])
    BY <1>1, <1>7 DEF IsKnown, IsUnknown
  <2>2. /\ Take(hexrays'.args, Current.index)
        /\ \/ hexrays.tried /\ hexrays' = hexrays
           \/ ~hexrays.tried /\ \E args : hexrays' = [tried |-> TRUE, args |-> args]
    BY <1>7 DEF Fallback
  <2>3. hexrays'.tried = TRUE \/ hexrays' = hexrays
    BY <2>2
  <2>4. NothingUntried' /\ AskedForAGap'
    BY <1>1, <1>3, <2>1, <2>3 DEF FallbackInv, NothingUntried, AskedForAGap
  <2>5. AtHand'
    BY <1>1, <1>5, <2>1, <2>2 DEF AtHand, Explained, Take
  <2>6. ASSUME NEW k \in DOMAIN arguments
        PROVE  Explained(arguments[k].index, arguments[k].raw, arguments[k].source, k)'
    <3>1. Explained(arguments[k].index, arguments[k].raw, arguments[k].source, k)
      BY DEF FallbackInv, AllExplained
    <3>2. CASE hexrays' = hexrays
      BY <1>1, <3>1, <3>2 DEF Explained
    <3>3. CASE ~hexrays.tried
      BY <1>1, <3>1, <3>3 DEF FallbackInv, NothingUntried, Explained
    <3> QED
      BY <2>2, <3>2, <3>3
  <2>7. AllExplained'
    BY <1>1, <2>6 DEF AllExplained
  <2> QED
    BY <1>4, <2>4, <2>5, <2>7 DEF FallbackInv
<1> QED
  BY <1>6, <1>7

\* The value at hand becomes an argument, with its source.
LEMMA Processed ==
    ASSUME FallbackInv, PostProcess
    PROVE  FallbackInv'
<1> DEFINE new == Argument(Current.index, raw, Run(Chain(Current.index), raw), source,
                           AskedInstruction)
<1>1. /\ pc = "process" /\ pc' = "slot" /\ arguments' = Append(arguments, new)
      /\ UNCHANGED <<hexrays, engine>>
  BY DEF PostProcess
<1>2. new.index = Current.index /\ new.raw = raw /\ new.source = source
  BY DEF Argument
<1>3. IsGrowing(arguments) /\ IsGrowing(engine) /\ Len(engine) = Len(arguments) + 1
  BY <1>1 DEF FallbackInv, Lengths
<1> HIDE DEF new
<1>4. /\ IsGrowing(arguments') /\ Len(arguments') = Len(arguments) + 1
      /\ arguments'[Len(arguments) + 1] = new
      /\ \A k \in 1..Len(arguments) : arguments'[k] = arguments[k]
  BY <1>1, <1>3, Growing
<1>5. /\ DOMAIN arguments = 1..Len(arguments) /\ Len(arguments) \in Nat
      /\ DOMAIN arguments' = 1..Len(arguments')
  BY <1>3, <1>4, Places
<1>6. Explained(Current.index, raw, source, Len(engine))
  BY <1>1 DEF FallbackInv, AtHand
<1>7. ASSUME NEW k \in DOMAIN arguments'
      PROVE  Explained(arguments'[k].index, arguments'[k].raw, arguments'[k].source, k)
  <2>1. CASE k \in DOMAIN arguments
    BY <2>1, <1>4, <1>5 DEF FallbackInv, AllExplained
  <2>2. CASE k = Len(arguments) + 1
    BY <2>2, <1>2, <1>3, <1>4, <1>6
  <2> QED
    BY <2>1, <2>2, <1>4, <1>5
<1>8. AllExplained'
  BY <1>1, <1>7 DEF AllExplained, Explained
<1>9. Lengths' /\ AtHand' /\ NothingUntried' /\ AskedForAGap'
  BY <1>1, <1>3, <1>4 DEF FallbackInv, Lengths, AtHand, NothingUntried, AskedForAGap
<1> QED
  BY <1>8, <1>9 DEF FallbackInv

\* Every step of a request keeps the invariant.
LEMMA FallbackStep ==
    ASSUME FallbackInv, [Next]_vars
    PROVE  FallbackInv'
<1>1. CASE ResolveConvention \/ ResolverRaises \/ EndSite \/ Finish \/ ResolveForward
  <2>1. UNCHANGED siteVars
    BY <1>1 DEF ResolveConvention, ResolverRaises, EndSite, Finish, ResolveForward
  <2>2. pc \notin {"fallback", "process"} /\ pc' \notin {"fallback", "process"}
    BY <1>1 DEF ResolveConvention, ResolverRaises, EndSite, Finish, ResolveForward,
                IsolateFailure
  <2> QED
    BY <2>1, <2>2, SameSite
<1>2. CASE UNCHANGED vars
  BY <1>2 DEF vars, siteVars, FallbackInv, Lengths, AtHand, NothingUntried, AskedForAGap,
              AllExplained, Explained, Current
<1> QED
  BY <1>1, <1>2, FreshSite, Resolved, FellBack, Processed DEF Next

\* The decompiler is asked for a site only after the resolver left one of that
\* site's arguments open, and fills only such gaps (facade.py:161-171), for every
\* request and every answer of the two.
THEOREM FallbackOnlyFills == Spec => []FallbackFillsGaps
<1>1. Init => FallbackInv
  BY FallbackInit
<1>2. FallbackInv /\ [Next]_vars => FallbackInv'
  BY FallbackStep
<1>3. FallbackInv => FallbackFillsGaps
  BY GapsFilled
<1> QED
  BY <1>1, <1>2, <1>3, PTL DEF Spec

-----------------------------------------------------------------------------
(* The request and its convention *)

AtSite == pc \in {"slot", "fallback", "process"}

\* The convention is the request's, or not chosen yet; sites are reported only
\* once it is, and only for extract_calls.
Settled ==
    /\ request \in Requests
    /\ pc \in {"resolve_convention", "site", "forward", "done", "raised"} \/ AtSite
    /\ IsConvention(convention) /\ num_args \in Nat
    /\ convention \in {CDECL, Chosen}
    /\ pc \in {"site", "forward"} \/ AtSite => convention = Chosen /\ num_args = Count
    /\ pc = "site" \/ AtSite => request.do = "extract_calls"
    /\ pc = "forward" => request.do = "resolve_argument_at"
    /\ pc \in {"resolve_convention", "forward"} => call_sites = <<>>

\* What a request gives.
LEMMA RequestFields ==
    ASSUME request \in Requests
    PROVE  /\ request.do \in {"extract_calls", "resolve_argument_at"}
           /\ request.convention # <<>> => IsConvention(request.convention[1])
           /\ IsPrototype(request.prototype)
           /\ request.num_args \in Nat \cup {-1}
           /\ Sites \in SUBSET Nat /\ IsFiniteSet(Sites)
           /\ \A ea \in Sites : IsCaller(request.callers[ea])
           /\ \A i \in DOMAIN request.arg_types : request.arg_types[i] \in Seq(ChainStep)
  BY RequestsAssumption DEF IsRequest, Sites

\* The built-in template is a convention.
LEMMA CdeclIsConvention == IsConvention(CDECL) /\ CDECL.tag = "template"
<1>1. <<>> \in Seq(STRING)
  OBVIOUS
<1> QED
  BY <1>1 DEF CDECL, Template, IsConvention

\* _resolve_convention ends in a convention and a number (facade.py:100-119).
LEMMA ChosenIsConvention ==
    ASSUME request \in Requests
    PROVE  /\ IsConvention(Chosen)
           /\ Counted => Count \in Nat
           /\ request.convention = <<>> /\ Chosen.tag = "prototype"
                => Inferred # <<>> /\ Chosen = Inferred[1]
<1> DEFINE Good == /\ IsConvention(Chosen)
                   /\ request.convention = <<>> /\ Chosen.tag = "prototype"
                        => Inferred # <<>> /\ Chosen = Inferred[1]
<1>1. request.convention # <<>> => Good
  BY RequestFields DEF Chosen
<1>2. request.convention = <<>> /\ Inferred # <<>> => Good
  <2> SUFFICES ASSUME request.convention = <<>>, Inferred # <<>>
               PROVE  Good
    OBVIOUS
  <2>1. Chosen = Inferred[1] /\ Inferred = Infer(request.prototype)
    BY DEF Chosen, Inferred
  <2>2. IsConvention(Infer(request.prototype)[1])
    BY <2>1, RequestFields, InferredSlot
  <2> QED
    BY <2>1, <2>2
<1>3. request.convention = <<>> /\ Inferred = <<>> => Good
  BY CdeclIsConvention DEF Chosen
<1>4. Good
  BY <1>1, <1>2, <1>3
<1>5. Counted => Count \in Nat
  <2>1. Chosen.tag = "prototype" => Len(Chosen.locations) \in Nat
    BY <1>4 DEF IsConvention
  <2> QED
    BY <2>1, RequestFields DEF Counted, Count
<1> QED
  BY <1>4, <1>5

\* At first nothing is chosen.
LEMMA SettledInit == Init => Settled
  BY CdeclIsConvention DEF Init, Settled, AtSite

\* No step but the first changes any of it.
LEMMA SettledStep == Settled /\ [Next]_vars => Settled'
<1> SUFFICES ASSUME Settled, [Next]_vars
             PROVE  Settled'
  OBVIOUS
<1> USE DEF Settled, AtSite
<1>1. UNCHANGED request
  BY DEF Next, ResolveConvention, BeginSite, ResolveSlot, ResolverRaises, Fallback, PostProcess,
         EndSite, Finish, ResolveForward, vars
<1>2. Chosen' = Chosen /\ Count' = Count
  BY <1>1 DEF Chosen, Count, Inferred
<1>3. CASE ResolveConvention
  <2>1. Counted => IsConvention(Chosen) /\ Count \in Nat
    BY ChosenIsConvention
  <2>2. request.do \in {"extract_calls", "resolve_argument_at"}
    BY RequestFields
  <2>3. pc = "resolve_convention" /\ call_sites' = call_sites
    BY <1>3 DEF ResolveConvention
  <2>4. CASE Counted
    <3>1. /\ convention' = Chosen /\ num_args' = Count
          /\ pc' = IF request.do = "extract_calls" THEN "site" ELSE "forward"
      BY <1>3, <2>4 DEF ResolveConvention
    <3> QED
      BY <1>1, <1>2, <2>1, <2>2, <2>3, <2>4, <3>1
  <2>5. CASE ~Counted
    <3>1. pc' = "raised" /\ UNCHANGED <<convention, num_args>>
      BY <1>3, <2>5 DEF ResolveConvention
    <3> QED
      BY <1>1, <1>2, <3>1
  <2> QED
    BY <2>4, <2>5
<1>4. CASE BeginSite \/ ResolverRaises
  <2>1. /\ pc = "site" \/ AtSite
        /\ UNCHANGED <<convention, num_args>>
    BY <1>4 DEF BeginSite, ResolverRaises, IsolateFailure
  <2>2. pc' \in {"site", "slot"}
    BY <1>4 DEF BeginSite, ResolverRaises, IsolateFailure
  <2> QED
    BY <1>1, <1>2, <2>1, <2>2, <1>4 DEF BeginSite, ResolverRaises
<1>5. CASE ResolveSlot \/ Fallback \/ PostProcess \/ EndSite
  <2>1. AtSite /\ pc' \in {"site", "slot", "fallback", "process"}
    BY <1>5 DEF ResolveSlot, Fallback, PostProcess, EndSite
  <2>2. UNCHANGED <<convention, num_args>>
    BY <1>5 DEF ResolveSlot, Fallback, PostProcess, EndSite
  <2> QED
    BY <1>1, <1>2, <2>1, <2>2
<1>6. CASE Finish \/ ResolveForward
  <2>1. pc' \in {"done", "raised"} /\ UNCHANGED <<convention, num_args>>
    BY <1>6 DEF Finish, ResolveForward
  <2> QED
    BY <1>1, <1>2, <2>1
<1>7. CASE UNCHANGED vars
  BY <1>7, <1>2 DEF vars
<1> QED
  BY <1>3, <1>4, <1>5, <1>6, <1>7 DEF Next

-----------------------------------------------------------------------------
(* Arguments and reports *)

\* The slots are the convention's, and the site at hand is the next one.
SiteAtHand ==
    /\ slots \in Seq(ArgSlot) /\ pushes \in Seq(Nat)
    /\ slots # <<>> => /\ ~SlotsRaise(convention, num_args)
                       /\ slots = Slots(convention, num_args) /\ convention = Chosen
    /\ pc = "resolve_convention" => slots = <<>>
    /\ AtSite => /\ ~SlotsRaise(convention, num_args)
                 /\ slots = Slots(convention, num_args)
                 /\ call_ea \in Sites \ Done /\ call_ea = Least(Sites \ Done)
    /\ Len(arguments) <= Len(slots)
    /\ pc \in {"fallback", "process"} => Len(arguments) < Len(slots)

\* What was reported is the first failure of the chain of its index, if any.
EndsRight(a) == EndsAtFailure(Chain(a.index), a.raw, a.processed)

\* The k-th argument of a site, as ReportPromise wants it.
Sound(a, k) ==
    /\ a.index = k - 1 /\ a.source \in {"raw", "hexrays_fallback"}
    /\ a.source = "hexrays_fallback" => IsKnown(a.raw)
    /\ EndsRight(a)

\* What was collected and what was reported.
ReportsSound ==
    /\ source \in {"raw", "hexrays_fallback"} /\ hexrays.tried \in BOOLEAN
    /\ \A k \in DOMAIN arguments : Sound(arguments[k], k)
    /\ IsGrowing(call_sites) /\ Done \subseteq Sites
    /\ \A n \in DOMAIN call_sites : \A k \in DOMAIN call_sites[n].arguments :
          EndsRight(call_sites[n].arguments[k])

ReportInv == FallbackInv /\ Settled /\ SiteAtHand /\ ReportsSound

\* The pushes of a call are heads of its caller.
LEMMA PushesAreHeads ==
    ASSUME NEW c, IsCaller(c)
    PROVE  PushSequence(c) \in Seq(Nat)
<1> DEFINE P == {p \in DOMAIN c.code : IsPush(c.code[p]) /\ Reached(c.code, p)}
<1>1. Len(c.code) \in Nat
  BY DEF IsCaller
<1>2. Ascending(P, Len(c.code)) \in Seq(P \cap (1..Len(c.code)))
  BY <1>1, AscendingLists
<1>3. Ascending(P, Len(c.code)) \in Seq(Nat)
  <2>1. P \cap (1..Len(c.code)) \subseteq Nat
    BY <1>1
  <2> QED
    BY <1>2, <2>1
<1>4. <<>> \in Seq(Nat)
  OBVIOUS
<1> QED
  BY <1>3, <1>4 DEF PushSequence

\* The slot at hand is that of the next index.
LEMMA CurrentIndex ==
    ASSUME Settled, SiteAtHand, FallbackInv, pc \in {"fallback", "process"}
    PROVE  Current.index = Len(arguments) /\ Len(arguments) \in Nat
<1>1. /\ AtSite /\ IsConvention(convention) /\ num_args \in Nat
      /\ ~SlotsRaise(convention, num_args) /\ slots = Slots(convention, num_args)
      /\ Len(arguments) < Len(slots)
  BY DEF AtSite, Settled, SiteAtHand
<1>2. Len(slots) = num_args /\ \A k \in 1..num_args : slots[k].index = k - 1
  BY <1>1, SlotsAreSlots
<1>3. Len(arguments) \in Nat
  BY Places DEF FallbackInv, Lengths
<1>4. Len(arguments) + 1 \in 1..num_args
  BY <1>1, <1>2, <1>3
<1> QED
  BY <1>2, <1>3, <1>4 DEF Current

\* Reporting one more site.
LEMMA OneMoreSite ==
    ASSUME NEW site, NEW args, ReportsSound,
           \A k \in DOMAIN args : EndsRight(args[k]),
           call_sites' = Append(call_sites, [call |-> site, arguments |-> args])
    PROVE  /\ IsGrowing(call_sites') /\ Done' = Done \cup {site}
           /\ \A n \in DOMAIN call_sites' : \A k \in DOMAIN call_sites'[n].arguments :
                 EndsRight(call_sites'[n].arguments[k])
           /\ Len(call_sites') = Len(call_sites) + 1 /\ Len(call_sites) \in Nat
           /\ call_sites'[Len(call_sites) + 1] = [call |-> site, arguments |-> args]
           /\ SubSeq(call_sites', 1, Len(call_sites)) = call_sites
<1> DEFINE entry == [call |-> site, arguments |-> args]
           len == Len(call_sites)
<1>1. IsGrowing(call_sites)
  BY DEF ReportsSound
<1>2. /\ IsGrowing(call_sites') /\ Len(call_sites') = len + 1
      /\ call_sites'[len + 1] = entry
      /\ \A k \in 1..len : call_sites'[k] = call_sites[k]
  BY <1>1, Growing
<1>3. DOMAIN call_sites = 1..len /\ len \in Nat /\ DOMAIN call_sites' = 1..(len + 1)
  BY <1>1, <1>2, Places
<1> HIDE DEF len
<1>4. ASSUME NEW n \in DOMAIN call_sites'
      PROVE  \A k \in DOMAIN call_sites'[n].arguments : EndsRight(call_sites'[n].arguments[k])
  <2>1. CASE n \in 1..len
    BY <1>2, <1>3, <2>1 DEF ReportsSound
  <2>2. CASE n = len + 1
    <3>1. call_sites'[n].arguments = args
      BY <1>2, <2>2
    <3> QED
      BY <3>1
  <2> QED
    BY <1>3, <2>1, <2>2
<1>5. Done' = Done \cup {site}
  <2>1. Done' = {call_sites'[n].call : n \in 1..(len + 1)}
    BY <1>3 DEF Done
  <2>2. Done = {call_sites[n].call : n \in 1..len}
    BY <1>3 DEF Done
  <2>3. call_sites'[len + 1].call = site
    BY <1>2
  <2>4. 1..(len + 1) = (1..len) \cup {len + 1}
    BY <1>3
  <2> QED
    BY <1>2, <2>1, <2>2, <2>3, <2>4
<1>6. SubSeq(call_sites', 1, len) = call_sites
  <2>1. call_sites \in Seq({call_sites[n] : n \in DOMAIN call_sites})
    BY <1>1 DEF IsGrowing
  <2>2. call_sites' \in Seq({call_sites'[n] : n \in DOMAIN call_sites'})
    BY <1>2 DEF IsGrowing
  <2> QED
    BY <1>2, <1>3, <2>1, <2>2
<1> QED
  BY <1>2, <1>3, <1>4, <1>5, <1>6 DEF len

\* A chain is a sequence of steps, if only the empty one.
LEMMA ChainIsTyped ==
    ASSUME Settled, NEW i
    PROVE  Chain(i) \in Seq(ChainStep)
<1>1. <<>> \in Seq(ChainStep)
  OBVIOUS
<1> QED
  BY <1>1, RequestFields DEF Chain, Settled

\* What is reported of a site that failed (facade.py:133-143).
LEMMA FailedArguments ==
    ASSUME NEW site, Settled
    PROVE  /\ FailedSite(site) = [call |-> site, arguments |-> FailedSite(site).arguments]
           /\ DOMAIN FailedSite(site).arguments = 1..num_args
           /\ \A k \in 1..num_args : Sound(FailedSite(site).arguments[k], k)
<1>1. ASSUME NEW i
      PROVE  EndsAtFailure(Chain(i), Nothing, Nothing)
  <2>1. IsUnknown(Nothing)
    BY DEF Nothing, Unknown, Because, IsUnknown
  <2> QED
    BY <2>1, ChainIsTyped, UnknownEndsChain
<1> QED
  BY <1>1 DEF FailedSite, Argument, Sound, EndsRight

\* Nothing is collected at first.
LEMMA ReportInit == Init => ReportInv
<1> SUFFICES ASSUME Init
             PROVE  ReportInv
  OBVIOUS
<1>1. FallbackInv /\ Settled
  BY FallbackInit, SettledInit
<1>2. <<>> \in Seq(ArgSlot) /\ <<>> \in Seq(Nat)
  OBVIOUS
<1>3. SiteAtHand
  BY <1>2, NothingYet DEF Init, SiteAtHand, AtSite
<1>4. ReportsSound
  BY NothingYet DEF Init, ReportsSound, NotTried, Done
<1> QED
  BY <1>1, <1>3, <1>4 DEF ReportInv

\* Steps outside the sites change nothing here.
LEMMA OutsideSites ==
    ASSUME ReportInv, Settled',
           ResolveConvention \/ Finish \/ ResolveForward \/ UNCHANGED vars
    PROVE  SiteAtHand' /\ ReportsSound'
<1>1. UNCHANGED <<request, siteVars, call_sites>>
  BY DEF ResolveConvention, Finish, ResolveForward, vars
<1>2. Done' = Done /\ Sites' = Sites /\ Chosen' = Chosen
  BY <1>1 DEF Done, Sites, Chosen, Inferred
<1>3. ReportsSound'
  BY <1>1, <1>2 DEF ReportInv, ReportsSound, Sound, EndsRight, Chain, siteVars
<1>4. CASE ResolveConvention
  <2>1. slots = <<>> /\ pc' \in {"site", "forward", "raised"}
    BY <1>4 DEF ResolveConvention, ReportInv, SiteAtHand
  <2> QED
    BY <1>1, <1>2, <1>3, <2>1 DEF ReportInv, SiteAtHand, AtSite, siteVars
<1>5. CASE Finish \/ ResolveForward
  <2>1. pc' \in {"done", "raised"} /\ UNCHANGED <<convention, num_args>>
    BY <1>5 DEF Finish, ResolveForward
  <2> QED
    BY <1>1, <1>2, <1>3, <2>1 DEF ReportInv, SiteAtHand, AtSite, siteVars
<1>6. CASE UNCHANGED vars
  BY <1>6, <1>2, <1>3 DEF ReportInv, SiteAtHand, AtSite, siteVars, vars
<1> QED
  BY <1>4, <1>5, <1>6

\* The next site is the least that is left; if its slots raise, it is reported
\* as failed and the one after it is next.
LEMMA NextSite ==
    ASSUME ReportInv, Settled', BeginSite
    PROVE  SiteAtHand' /\ ReportsSound'
<1> DEFINE site == Least(Sites \ Done)
<1>1. /\ pc = "site" /\ Sites \ Done # {} /\ call_ea' = site
      /\ arguments' = <<>> /\ engine' = <<>> /\ hexrays' = NotTried
      /\ UNCHANGED <<request, convention, num_args, source>>
  BY DEF BeginSite
<1>2. Sites \in SUBSET Nat
  BY RequestFields DEF ReportInv, Settled
<1>3. site \in Sites \ Done
  BY <1>1, <1>2, LeastIsLeast
<1>4. Sites' = Sites /\ Chosen' = Chosen
  BY <1>1 DEF Sites, Chosen, Inferred
<1>5. convention = Chosen /\ IsConvention(convention) /\ num_args \in Nat
  BY <1>1 DEF ReportInv, Settled
<1> HIDE DEF site
<1>6. CASE SlotsRaise(convention, num_args)
  <2>1. /\ call_sites' = Append(call_sites, FailedSite(site)) /\ pc' = "site"
        /\ UNCHANGED <<slots, pushes>>
    BY <1>6 DEF BeginSite, IsolateFailure, site
  <2>2. \A k \in DOMAIN FailedSite(site).arguments : EndsRight(FailedSite(site).arguments[k])
    BY FailedArguments DEF ReportInv, Sound
  <2>3. /\ IsGrowing(call_sites') /\ Done' = Done \cup {site}
        /\ \A n \in DOMAIN call_sites' : \A k \in DOMAIN call_sites'[n].arguments :
              EndsRight(call_sites'[n].arguments[k])
    BY <2>1, <2>2, FailedArguments, OneMoreSite DEF ReportInv
  <2>4. ReportsSound'
    BY <1>1, <1>3, <1>4, <2>3, NothingYet DEF ReportInv, ReportsSound, EndsRight, Chain, NotTried
  <2>5. SiteAtHand'
    BY <1>1, <1>4, <2>1, NothingYet DEF ReportInv, SiteAtHand, AtSite
  <2> QED
    BY <2>4, <2>5
<1>7. CASE ~SlotsRaise(convention, num_args)
  <2>1. /\ slots' = Slots(convention, num_args) /\ pc' = "slot" /\ UNCHANGED call_sites
        /\ pushes' = IF \E k \in DOMAIN slots' : slots'[k].kind = "STACK_PUSH"
                       THEN PushSequence(request.callers[site]) ELSE <<>>
    BY <1>7 DEF BeginSite, site
  <2>2. pushes' \in Seq(Nat)
    <3>1. PushSequence(request.callers[site]) \in Seq(Nat)
      BY <1>3, RequestFields, PushesAreHeads DEF ReportInv, Settled
    <3>2. <<>> \in Seq(Nat)
      OBVIOUS
    <3> QED
      BY <2>1, <3>1, <3>2
  <2>3. slots' \in Seq(ArgSlot) /\ Len(slots') \in Nat
    BY <1>5, <1>7, <2>1, SlotsAreSlots
  <2>4. Done' = Done
    BY <2>1 DEF Done
  <2>5. ReportsSound'
    BY <1>1, <1>4, <2>1, <2>4, NothingYet DEF ReportInv, ReportsSound, EndsRight, Chain, NotTried
  <2>6. SiteAtHand'
    BY <1>1, <1>3, <1>4, <1>5, <1>7, <2>1, <2>2, <2>3, <2>4, NothingYet
       DEF SiteAtHand, AtSite, site
  <2> QED
    BY <2>5, <2>6
<1> QED
  BY <1>6, <1>7

\* Neither the resolver's answer nor the decompiler's is an argument yet.
LEMMA ValueFound ==
    ASSUME ReportInv, ResolveSlot \/ Fallback
    PROVE  SiteAtHand' /\ ReportsSound'
<1>1. /\ AtSite /\ AtSite' /\ Len(arguments) <= Len(slots)
      /\ UNCHANGED <<request, convention, num_args, call_ea, slots, pushes, arguments, call_sites>>
  BY DEF ResolveSlot, Fallback, AtSite, ReportInv, SiteAtHand
<1>2. Done' = Done /\ Sites' = Sites /\ Chosen' = Chosen
  BY <1>1 DEF Done, Sites, Chosen, Inferred
<1>3. Len(arguments) < Len(slots)
  BY DEF ResolveSlot, Fallback, ReportInv, SiteAtHand
<1>4. SiteAtHand'
  BY <1>1, <1>2, <1>3 DEF ReportInv, SiteAtHand, AtSite
<1>5. source' \in {"raw", "hexrays_fallback"} /\ hexrays'.tried \in BOOLEAN
  <2>1. CASE ResolveSlot
    BY <2>1 DEF ResolveSlot, ReportInv, ReportsSound
  <2>2. CASE Fallback /\ (IsKnown(raw) \/ ~request.hexrays)
    BY <2>2 DEF Fallback, ReportInv, ReportsSound
  <2>3. CASE Fallback /\ ~(IsKnown(raw) \/ ~request.hexrays)
    <3>1. Take(hexrays'.args, Current.index)
      BY <2>3 DEF Fallback
    <3>2. hexrays' = hexrays \/ \E args : hexrays' = [tried |-> TRUE, args |-> args]
      BY <2>3 DEF Fallback
    <3>3. source' = "hexrays_fallback" \/ source' = source
      BY <3>1 DEF Take
    <3>4. hexrays.tried \in BOOLEAN /\ source \in {"raw", "hexrays_fallback"}
      BY DEF ReportInv, ReportsSound
    <3>5. hexrays'.tried = TRUE \/ hexrays' = hexrays
      BY <3>2
    <3> QED
      BY <3>3, <3>4, <3>5
  <2> QED
    BY <2>1, <2>2, <2>3
<1> QED
  BY <1>1, <1>2, <1>4, <1>5 DEF ReportInv, ReportsSound, EndsRight, Chain, Sound

\* The value at hand becomes the argument of its index, as its chain leaves it.
LEMMA ArgumentDone ==
    ASSUME ReportInv, PostProcess
    PROVE  SiteAtHand' /\ ReportsSound'
<1> DEFINE processed == Run(Chain(Current.index), raw)
           new == Argument(Current.index, raw, processed, source, AskedInstruction)
           len == Len(arguments)
<1>1. /\ pc = "process" /\ pc' = "slot" /\ arguments' = Append(arguments, new)
      /\ UNCHANGED <<request, convention, num_args, call_ea, slots, pushes, source, hexrays,
                     call_sites>>
  BY DEF PostProcess
<1>2. Current.index = len /\ len \in Nat
  BY <1>1, CurrentIndex DEF ReportInv
<1>3. EndsAtFailure(Chain(Current.index), raw, processed)
  BY ChainIsTyped, FirstFailureEnds DEF ReportInv
<1>4. source \in {"raw", "hexrays_fallback"} /\ (source = "hexrays_fallback" => IsKnown(raw))
  BY <1>1 DEF ReportInv, FallbackInv, AtHand, Explained, ReportsSound
<1>5. Sound(new, len + 1)
  BY <1>2, <1>3, <1>4 DEF Sound, EndsRight, Argument
<1>6. IsGrowing(arguments)
  BY DEF ReportInv, FallbackInv, Lengths
<1> HIDE DEF new, processed, len
<1>7. /\ IsGrowing(arguments') /\ Len(arguments') = len + 1 /\ arguments'[len + 1] = new
      /\ \A k \in 1..len : arguments'[k] = arguments[k]
  BY <1>1, <1>6, Growing DEF len
<1>8. DOMAIN arguments = 1..len /\ DOMAIN arguments' = 1..(len + 1)
  BY <1>6, <1>7, Places DEF len
<1>9. ASSUME NEW k \in DOMAIN arguments'
      PROVE  Sound(arguments'[k], k)
  <2>1. CASE k \in 1..len
    BY <1>7, <1>8, <2>1 DEF ReportInv, ReportsSound
  <2>2. CASE k = len + 1
    BY <1>5, <1>7, <2>2
  <2> QED
    BY <1>2, <1>8, <2>1, <2>2
<1>10. Done' = Done /\ Sites' = Sites /\ Chosen' = Chosen
  BY <1>1 DEF Done, Sites, Chosen, Inferred
<1>11. Len(arguments') <= Len(slots')
  <2>1. len < Len(slots)
    BY <1>1 DEF ReportInv, SiteAtHand, len
  <2>2. Len(slots) \in Nat
    BY DEF ReportInv, SiteAtHand
  <2> QED
    BY <1>1, <1>2, <1>7, <2>1, <2>2
<1>12. SiteAtHand'
  BY <1>1, <1>10, <1>11 DEF ReportInv, SiteAtHand, AtSite
<1>13. ReportsSound'
  BY <1>1, <1>9, <1>10 DEF ReportInv, ReportsSound, Sound, EndsRight, Chain
<1> QED
  BY <1>12, <1>13

\* A site ends in its report, whole or failed.
LEMMA SiteEnds ==
    ASSUME ReportInv, ResolverRaises \/ EndSite
    PROVE  SiteAtHand' /\ ReportsSound'
<1>1. /\ pc = "slot" /\ pc' = "site"
      /\ UNCHANGED <<request, convention, num_args, siteVars>>
  BY DEF ResolverRaises, EndSite, IsolateFailure
<1>2. call_ea \in Sites
  BY <1>1 DEF ReportInv, SiteAtHand, AtSite
<1>3. PICK args : /\ call_sites' = Append(call_sites, [call |-> call_ea, arguments |-> args])
                  /\ \A k \in DOMAIN args : EndsRight(args[k])
  <2>1. CASE ResolverRaises
    BY <2>1, FailedArguments DEF ReportInv, ResolverRaises, IsolateFailure, Sound
  <2>2. CASE EndSite
    BY <2>2 DEF EndSite, ReportInv, ReportsSound, Sound
  <2> QED
    BY <2>1, <2>2
<1>4. /\ IsGrowing(call_sites') /\ Done' = Done \cup {call_ea}
      /\ \A n \in DOMAIN call_sites' : \A k \in DOMAIN call_sites'[n].arguments :
            EndsRight(call_sites'[n].arguments[k])
  BY <1>3, OneMoreSite DEF ReportInv
<1>5. Sites' = Sites /\ Chosen' = Chosen
  BY <1>1 DEF Sites, Chosen, Inferred
<1>6. ReportsSound'
  BY <1>1, <1>2, <1>4, <1>5 DEF ReportInv, ReportsSound, EndsRight, Chain, Sound, siteVars
<1>7. SiteAtHand'
  BY <1>1, <1>5 DEF ReportInv, SiteAtHand, AtSite, siteVars
<1> QED
  BY <1>6, <1>7

\* Every step of a request keeps the invariant.
LEMMA ReportStep == ReportInv /\ [Next]_vars => ReportInv'
<1> SUFFICES ASSUME ReportInv, [Next]_vars
             PROVE  ReportInv'
  OBVIOUS
<1>1. FallbackInv' /\ Settled'
  BY FallbackStep, SettledStep DEF ReportInv
<1>2. SiteAtHand' /\ ReportsSound'
  BY <1>1, OutsideSites, NextSite, ValueFound, ArgumentDone, SiteEnds DEF Next
<1> QED
  BY <1>1, <1>2 DEF ReportInv

-----------------------------------------------------------------------------
(* What a request keeps *)

\* The facade's state is well formed in every reachable state: every slot is a
\* place an argument can be in, the results keep pace with the slots, and every
\* reported site is one that calls the function (facade.py:63-79, 121-184).
THEOREM TypeCorrect == Spec => []TypeOK
<1>1. ReportInv => TypeOK
  <2> SUFFICES ASSUME ReportInv
               PROVE  TypeOK
    OBVIOUS
  <2>1. convention.tag \in {"template", "custom", "prototype"}
    BY DEF ReportInv, Settled, IsConvention
  <2>2. Len(engine) = Len(arguments) + (IF pc \in {"fallback", "process"} THEN 1 ELSE 0)
    <3>1. Len(arguments) \in Nat
      BY Places DEF ReportInv, FallbackInv, Lengths
    <3> QED
      BY <3>1 DEF ReportInv, FallbackInv, Lengths
  <2> QED
    BY <2>1, <2>2 DEF TypeOK, ReportInv, Settled, SiteAtHand, ReportsSound, AtSite
<1> QED
  BY <1>1, ReportInit, ReportStep, PTL DEF Spec

\* A failing step degrades the argument to its Unknown, and no later step of the
\* chain turns a failure into a value or its reason into another one
\* (postproc/base.py:4-9, 44-54), for chains of any steps and any length.
THEOREM FailureIsReported == Spec => []FirstFailureStands
<1>1. ReportInv => FirstFailureStands
  BY DEF ReportInv, ReportsSound, EndsRight, FirstFailureStands
<1> QED
  BY <1>1, ReportInit, ReportStep, PTL DEF Spec

\* With a recognised prototype and no convention given, every slot is the place
\* IDA gives to the argument of that index, whichever arguments were left out
\* (inference.py:41-58), for function types of any length.
THEOREM DeclaredPlaces == Spec => []GapsDoNotShift
<1>1. ReportInv => GapsDoNotShift
  <2> SUFFICES ASSUME ReportInv, request.convention = <<>>, convention.tag = "prototype",
                      NEW k \in DOMAIN slots \cap DOMAIN request.prototype[1]
               PROVE  LET declared == request.prototype[1][k]
                      IN  CASE declared.in = "register"  -> slots[k].reg = declared.reg
                            [] declared.in = "stack"     -> /\ slots[k].kind = "STACK_OFFSET"
                                                            /\ slots[k].at = declared.at
                            [] declared.in = "scattered" -> /\ slots[k].kind = "REGISTER"
                                                            /\ slots[k].reg = NoReg
    BY DEF GapsDoNotShift
  <2>1. slots # <<>>
    OBVIOUS
  <2>2. slots = Slots(convention, num_args) /\ convention = Chosen
    BY <2>1 DEF ReportInv, SiteAtHand
  <2>3. Inferred # <<>> /\ convention = Inferred[1] /\ Inferred = Infer(request.prototype)
    BY <2>2, ChosenIsConvention DEF ReportInv, Settled, Inferred
  <2>4. slots[k] = SlotOf(convention, k - 1)
    BY <2>2 DEF Slots
  <2>5. IsPrototype(request.prototype)
    BY RequestFields DEF ReportInv, Settled
  <2>6. LET declared == request.prototype[1][k]
            slot == SlotOf(Infer(request.prototype)[1], k - 1)
        IN  CASE declared.in = "register"  -> slot.reg = declared.reg
              [] declared.in = "stack"     -> /\ slot.kind = "STACK_OFFSET"
                                              /\ slot.at = declared.at
              [] declared.in = "scattered" -> /\ slot.kind = "REGISTER"
                                              /\ slot.reg = NoReg
    BY <2>3, <2>5, InferredSlot
  <2> QED
    BY <2>3, <2>4, <2>6
<1> QED
  BY <1>1, ReportInit, ReportStep, PTL DEF Spec

-----------------------------------------------------------------------------
(* The words on the stack *)

\* The pushes at hand are those of the site, or none were needed; an argument
\* that came from one came from the one its slot names.
Scanned ==
    /\ AtSite \/ arguments # <<>> =>
          /\ call_ea \in Sites
          /\ pushes = <<>> \/ pushes = PushSequence(request.callers[call_ea])
    /\ \A k \in DOMAIN arguments : arguments[k].from # 0 =>
          /\ HasPush(pushes, slots[k].at)
          /\ arguments[k].from = PushAt(pushes, slots[k].at)

\* Before the first site no argument is at hand.
LEMMA ScannedInit == Init => Scanned
  BY NothingYet DEF Init, Scanned, AtSite

\* Every step keeps it.
LEMMA ScannedStep ==
    ASSUME Scanned, ReportInv, [Next]_vars
    PROVE  Scanned'
<1>1. CASE ResolveConvention \/ Finish \/ ResolveForward \/ UNCHANGED vars
  <2>1. /\ UNCHANGED <<request, siteVars>>
        /\ AtSite' => AtSite
    BY <1>1 DEF ResolveConvention, Finish, ResolveForward, vars, AtSite
  <2> QED
    BY <2>1 DEF Scanned, siteVars, Sites
<1>2. CASE BeginSite
  <2> DEFINE site == Least(Sites \ Done)
  <2>1. arguments' = <<>> /\ call_ea' = site /\ UNCHANGED request /\ Sites \ Done # {}
    BY <1>2 DEF BeginSite
  <2>2. site \in Sites
    BY <2>1, RequestFields, LeastIsLeast DEF ReportInv, Settled
  <2> HIDE DEF site
  <2>3. CASE SlotsRaise(convention, num_args)
    BY <1>2, <2>1, <2>3, NothingYet DEF BeginSite, IsolateFailure, Scanned, AtSite
  <2>4. CASE ~SlotsRaise(convention, num_args)
    <3>1. pushes' = <<>> \/ pushes' = PushSequence(request.callers[site])
      BY <1>2, <2>4 DEF BeginSite, site
    <3> QED
      BY <2>1, <2>2, <3>1, NothingYet DEF Scanned, Sites
  <2> QED
    BY <2>3, <2>4
<1>3. CASE ResolveSlot \/ Fallback
  <2>1. AtSite /\ UNCHANGED <<request, call_ea, slots, pushes, arguments>>
    BY <1>3 DEF ResolveSlot, Fallback, AtSite
  <2> QED
    BY <2>1 DEF Scanned, Sites
<1>4. CASE ResolverRaises \/ EndSite
  <2>1. AtSite /\ UNCHANGED <<request, siteVars>>
    BY <1>4 DEF ResolverRaises, EndSite, AtSite
  <2> QED
    BY <2>1 DEF Scanned, siteVars, Sites
<1>5. CASE PostProcess
  <2> DEFINE new == Argument(Current.index, raw, Run(Chain(Current.index), raw), source,
                             AskedInstruction)
             len == Len(arguments)
  <2>1. /\ AtSite /\ arguments' = Append(arguments, new)
        /\ UNCHANGED <<request, call_ea, slots, pushes>>
    BY <1>5 DEF PostProcess, AtSite
  <2>2. IsGrowing(arguments)
    BY DEF ReportInv, FallbackInv, Lengths
  <2>3. new.from # 0 => /\ HasPush(pushes, slots[len + 1].at)
                        /\ new.from = PushAt(pushes, slots[len + 1].at)
    BY DEF Argument, AskedInstruction, Current
  <2> HIDE DEF new, len
  <2>4. /\ IsGrowing(arguments') /\ Len(arguments') = len + 1 /\ arguments'[len + 1] = new
        /\ \A k \in 1..len : arguments'[k] = arguments[k]
    BY <2>1, <2>2, Growing DEF len
  <2>5. DOMAIN arguments = 1..len /\ DOMAIN arguments' = 1..(len + 1) /\ len \in Nat
    BY <2>2, <2>4, Places DEF len
  <2>6. ASSUME NEW k \in DOMAIN arguments', arguments'[k].from # 0
        PROVE  /\ HasPush(pushes, slots[k].at)
               /\ arguments'[k].from = PushAt(pushes, slots[k].at)
    <3>1. CASE k \in 1..len
      BY <2>4, <2>5, <2>6, <3>1 DEF Scanned
    <3>2. CASE k = len + 1
      BY <2>3, <2>4, <2>6, <3>2
    <3> QED
      BY <2>5, <3>1, <3>2
  <2> QED
    BY <2>1, <2>6 DEF Scanned, Sites
<1> QED
  BY <1>1, <1>2, <1>3, <1>4, <1>5 DEF Next

\* Every argument read from a push is the word at its depth of the stack on
\* which the call is made (SlotKind.STACK_PUSH, conventions/base.py:25-30), for
\* callers of any length, conventions and caps of the scan, if control goes
\* straight from the pushes that were found to the call and nothing in between
\* pops a word.  That much the scan takes for granted (engine_backward.py:46-72, 158-195).
THEOREM RightWordGoingStraight ==
    Spec => [](StraightToCall(request.callers[call_ea]) => RightWord)
<1>1. ReportInv /\ Scanned => (StraightToCall(request.callers[call_ea]) => RightWord)
  <2> SUFFICES ASSUME ReportInv, Scanned, StraightToCall(request.callers[call_ea]),
                      NEW k \in DOMAIN arguments, arguments[k].from # 0
               PROVE  PushedAtDepth(request.callers[call_ea], slots[k].at, arguments[k].from)
    BY DEF RightWord
  <2>1. arguments # <<>>
    BY NothingYet
  <2>2. /\ call_ea \in Sites
        /\ pushes = <<>> \/ pushes = PushSequence(request.callers[call_ea])
        /\ HasPush(pushes, slots[k].at) /\ arguments[k].from = PushAt(pushes, slots[k].at)
    BY <2>1 DEF Scanned
  <2>3. pushes # <<>>
    BY <2>2 DEF HasPush
  <2>4. IsCaller(request.callers[call_ea])
    BY <2>2, RequestFields DEF ReportInv, Settled
  <2>5. slots[k].at \in Int
    <3>1. /\ slots \in Seq(ArgSlot) /\ Len(arguments) <= Len(slots)
          /\ IsGrowing(arguments)
      BY DEF ReportInv, SiteAtHand, FallbackInv, Lengths
    <3>2. k \in DOMAIN slots
      BY <3>1, Places
    <3>3. slots[k] \in ArgSlot
      BY <3>1, <3>2, ElementOf
    <3> QED
      BY <3>3 DEF ArgSlot
  <2> QED
    BY <2>2, <2>3, <2>4, <2>5, ScannedWord
<1> QED
  BY <1>1, ReportInit, ReportStep, ScannedInit, ScannedStep, PTL DEF Spec

-----------------------------------------------------------------------------
(* The promise *)

\* How far ReportPromise takes the request to be.
Outcome == CASE pc = "done" -> "complete" [] pc = "raised" -> "refused" [] OTHER -> "open"
Calls == IF request.do = "extract_calls" THEN Sites ELSE {}

\* At first nothing is reported.
LEMMA PromiseInit == Init => Promise!Init
<1> SUFFICES ASSUME Init
             PROVE  Promise!Init
  OBVIOUS
<1>1. Sites \in SUBSET Nat /\ IsFiniteSet(Sites)
  BY RequestFields DEF Init
<1>2. IsFiniteSet({})
  BY FS_EmptySet
<1>3. IsFiniteSet(Calls) /\ Calls \subseteq Int
  BY <1>1, <1>2 DEF Calls
<1>4. Outcome = "open" /\ call_sites = <<>>
  BY DEF Outcome, Init
<1>5. Promise!IsFiniteSet(Calls)
  BY <1>3 DEF IsFiniteSet, Promise!IsFiniteSet
<1> QED
  BY <1>3, <1>4, <1>5 DEF Promise!Init, Outcome, Calls

\* One site reported, the next in address order, with an argument of one engine
\* for every index.
LEMMA ReportsOne ==
    ASSUME ReportInv, ReportInv', NEW site, NEW args,
           pc = "site" \/ AtSite, pc' = "site", UNCHANGED request,
           Sites \ Done # {}, site = Least(Sites \ Done),
           DOMAIN args = 1..num_args, \A k \in 1..num_args : Sound(args[k], k),
           call_sites' = Append(call_sites, [call |-> site, arguments |-> args])
    PROVE  Promise!Report
<1>1. Sites \in SUBSET Nat
  BY RequestFields DEF ReportInv, Settled
<1>2. site \in Sites \ Done /\ \A other \in Sites \ Done : site <= other
  BY <1>1, LeastIsLeast
<1>3. /\ Len(call_sites') = Len(call_sites) + 1
      /\ call_sites'[Len(call_sites) + 1] = [call |-> site, arguments |-> args]
      /\ SubSeq(call_sites', 1, Len(call_sites)) = call_sites
  BY OneMoreSite DEF ReportInv, Sound
<1>4. request.do = "extract_calls" /\ num_args = Count
  BY DEF ReportInv, Settled
<1>5. /\ Outcome = "open" /\ Outcome' = "open"
      /\ Calls = Sites /\ Calls' = Sites /\ Count' = Count
  BY <1>4 DEF Outcome, Calls, Sites, AtSite, Count, Chosen, Inferred
<1>6. Promise!Reported = Done
  BY DEF Promise!Reported, Done
<1>7. ASSUME NEW k \in 1..Count
      PROVE  args[k].index = k - 1 /\ Promise!IsArgument(args[k])
  BY <1>4, <1>7 DEF Sound, EndsRight, EndsAtFailure, IsKnown, IsUnknown, Promise!IsArgument, Promise!Known
<1>8. LET result == call_sites'[Len(call_sites) + 1]
      IN  /\ result.call = site
          /\ DOMAIN result.arguments = 1..Count
          /\ \A k \in 1..Count : /\ result.arguments[k].index = k - 1
                                 /\ Promise!IsArgument(result.arguments[k])
  BY <1>3, <1>4, <1>7
<1> QED
  BY <1>2, <1>3, <1>5, <1>6, <1>8 DEF Promise!Report, Outcome, Calls

\* Every step of the request is one of the promise's, or none.
LEMMA PromiseStep == ReportInv /\ ReportInv' /\ [Next]_vars => [Promise!Next]_Promise!vars
<1> SUFFICES ASSUME ReportInv, ReportInv', [Next]_vars
             PROVE  [Promise!Next]_Promise!vars
  OBVIOUS
<1>1. UNCHANGED request
  BY DEF Next, ResolveConvention, BeginSite, ResolveSlot, ResolverRaises, Fallback, PostProcess,
         EndSite, Finish, ResolveForward, vars
<1>2. Calls' = Calls /\ Count' = Count /\ Sites' = Sites
  BY <1>1 DEF Calls, Sites, Count, Chosen, Inferred
<1>3. ASSUME UNCHANGED <<Outcome, call_sites>>
      PROVE  UNCHANGED Promise!vars
  BY <1>2, <1>3 DEF Promise!vars, Outcome, Calls
<1>4. ASSUME call_sites = <<>>, UNCHANGED call_sites, Outcome = "open", Outcome' = "refused"
      PROVE  Promise!Refuse
  BY <1>2, <1>4 DEF Promise!Refuse, Outcome, Calls
<1>5. ASSUME Done = Calls, UNCHANGED call_sites, Outcome = "open", Outcome' = "complete"
      PROVE  Promise!Complete
  BY <1>2, <1>5 DEF Promise!Complete, Promise!Reported, Outcome, Calls, Done
<1>6. CASE ResolveConvention
  <2>1. pc = "resolve_convention" /\ pc' \in {"site", "forward", "raised"} /\ UNCHANGED call_sites
    BY <1>6 DEF ResolveConvention
  <2>2. call_sites = <<>>
    BY <2>1 DEF ReportInv, Settled
  <2> QED
    BY <1>3, <1>4, <2>1, <2>2 DEF Outcome, Promise!Next
<1>7. CASE BeginSite
  <2>1. pc = "site" /\ Sites \ Done # {}
    BY <1>7 DEF BeginSite
  <2>2. CASE SlotsRaise(convention, num_args)
    <3>1. call_sites' = Append(call_sites, FailedSite(Least(Sites \ Done))) /\ pc' = "site"
      BY <1>7, <2>2 DEF BeginSite, IsolateFailure
    <3> QED
      BY <1>1, <2>1, <3>1, FailedArguments, ReportsOne DEF Promise!Next, ReportInv
  <2>3. CASE ~SlotsRaise(convention, num_args)
    <3>1. UNCHANGED call_sites /\ pc' = "slot"
      BY <1>7, <2>3 DEF BeginSite
    <3> QED
      BY <1>3, <2>1, <3>1 DEF Outcome
  <2> QED
    BY <2>2, <2>3
<1>8. CASE ResolveSlot \/ Fallback \/ PostProcess
  <2>1. /\ UNCHANGED call_sites
        /\ pc \in {"slot", "fallback", "process"} /\ pc' \in {"slot", "fallback", "process"}
    BY <1>8 DEF ResolveSlot, Fallback, PostProcess
  <2> QED
    BY <1>3, <2>1 DEF Outcome
<1>9. CASE ResolverRaises \/ EndSite
  <2>1. pc = "slot" /\ pc' = "site" /\ AtSite
    BY <1>9 DEF ResolverRaises, EndSite, IsolateFailure, AtSite
  <2>2. /\ Sites \ Done # {} /\ call_ea = Least(Sites \ Done)
        /\ slots = Slots(convention, num_args) /\ ~SlotsRaise(convention, num_args)
    BY <2>1 DEF ReportInv, SiteAtHand
  <2>3. CASE ResolverRaises
    <3>1. call_sites' = Append(call_sites, FailedSite(call_ea))
      BY <2>3 DEF ResolverRaises, IsolateFailure
    <3> QED
      BY <1>1, <2>1, <2>2, <3>1, FailedArguments, ReportsOne DEF Promise!Next, ReportInv
  <2>4. CASE EndSite
    <3>1. /\ call_sites' = Append(call_sites, [call |-> call_ea, arguments |-> arguments])
          /\ Len(arguments) = Len(slots)
      BY <2>4 DEF EndSite
    <3>2. Len(slots) = num_args
      BY <2>2, SlotsAreSlots DEF ReportInv, Settled
    <3>3. DOMAIN arguments = 1..num_args /\ \A k \in 1..num_args : Sound(arguments[k], k)
      BY <3>1, <3>2, Places DEF ReportInv, FallbackInv, Lengths, ReportsSound
    <3> QED
      BY <1>1, <2>1, <2>2, <3>1, <3>3, ReportsOne DEF Promise!Next
  <2> QED
    BY <1>9, <2>3, <2>4
<1>10. CASE Finish
  <2>1. pc = "site" /\ pc' = "done" /\ Sites \ Done = {} /\ UNCHANGED call_sites
    BY <1>10 DEF Finish
  <2>2. Done = Calls
    BY <2>1 DEF ReportInv, Settled, ReportsSound, Calls
  <2> QED
    BY <1>5, <2>1, <2>2 DEF Outcome, Promise!Next
<1>11. CASE ResolveForward
  <2>1. pc = "forward" /\ pc' \in {"done", "raised"} /\ UNCHANGED call_sites
    BY <1>11 DEF ResolveForward
  <2>2. call_sites = <<>> /\ Done = Calls
    BY <2>1 DEF ReportInv, Settled, Done, Calls
  <2> QED
    BY <1>4, <1>5, <2>1, <2>2 DEF Outcome, Promise!Next
<1>12. CASE UNCHANGED vars
  BY <1>3, <1>12 DEF vars, Outcome
<1> QED
  BY <1>6, <1>7, <1>8, <1>9, <1>10, <1>11, <1>12 DEF Next

\* The request implements ReportPromise: it is refused before anything is
\* reported, or completed with one result for every call site in address order,
\* each with as many arguments as were asked for, in index order, whatever
\* raised on the way (facade.py:63-79, 121-184).
THEOREM RequestKeepsPromise == Spec => KeepsPromise
<1>1. Init => Promise!Init
  BY PromiseInit
<1>2. Spec => []ReportInv
  BY ReportInit, ReportStep, PTL DEF Spec
<1>3. ReportInv /\ ReportInv' /\ [Next]_vars => [Promise!Next]_Promise!vars
  BY PromiseStep
<1> QED
  BY <1>1, <1>2, <1>3, PTL DEF Spec, KeepsPromise, Promise!Safety

=============================================================================
