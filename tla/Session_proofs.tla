--------------------------- MODULE Session_proofs ---------------------------
(****************************************************************************)
(* Theorems about a session over any databases, with caches of any size and *)
(* programs of any length: what is encoded is decoded as it was, a cache    *)
(* holds the most recently used keys and what they held since they were     *)
(* dropped, so that every read is as stale as StaleReads allows and no more.*)
(****************************************************************************)
EXTENDS Session, ValueLattice_proofs, FiniteSetTheorems

-----------------------------------------------------------------------------
(* What is encoded is decoded as it was *)

\* A number below the modulus is its own remainder.
LEMMA OwnRemainder ==
    ASSUME NEW m \in Nat, NEW v \in Nat, v < m
    PROVE  v % m = v
  OBVIOUS

\* A displacement survives its two's complement.
LEMMA SignedRoundTrip ==
    ASSUME NEW d \in Int, -Modulus[8] <= 2 * d, 2 * d < Modulus[8]
    PROVE  SignExtend(d % Modulus[8]) = d
<1> DEFINE m == Modulus[8]
<1>1. m \in Nat \ {0}
  BY WidthAssumption
<1> HIDE DEF m
<1>2. CASE d >= 0
  <2>1. d % m = d
    BY <1>1, <1>2, OwnRemainder DEF m
  <2> QED
    BY <1>1, <1>2, <2>1 DEF SignExtend, m
<1>3. CASE d < 0
  <2>1. d + m \in Nat /\ d + m < m
    BY <1>1, <1>3 DEF m
  <2>2. d % m = d + m
    BY <1>1, <2>1
  <2>3. (d + m) % m = d + m
    BY <1>1, <2>1, OwnRemainder
  <2> QED
    BY <1>1, <1>3, <2>2, <2>3 DEF SignExtend, m
<1> QED
  BY <1>2, <1>3

\* An immediate survives being widened to 64 bits and cut to its width.
LEMMA UnsignedRoundTrip ==
    ASSUME NEW v \in Int, NEW size, size \in 1..8 => v \in 0..(Modulus[size] - 1)
    PROVE  UnsignedOfWidth(Widened(v, size), size) = v
<1>1. CASE size \notin 1..8
  BY <1>1 DEF UnsignedOfWidth, Widened
<1>2. CASE size \in 1..8
  <2> DEFINE m == Modulus[size]
             big == Modulus[8]
             k == big \div m
  <2>1. m \in Nat \ {0} /\ big \in Nat \ {0} /\ big % m = 0
    BY <1>2, WidthAssumption, EncodingAssumption
  <2>2. v \in Nat /\ v < m
    BY <1>2, <2>1
  <2> HIDE DEF m, big
  <2>3. k \in Nat /\ big = m * k /\ k # 0
    BY <2>1
  <2>4. m <= big
    BY <2>1, <2>3
  <2> HIDE DEF k
  <2>5. v % big = v /\ v % m = v
    BY <2>1, <2>2, <2>4, OwnRemainder
  <2>6. (v - m) % big = v - m + big
    BY <2>1, <2>2, <2>4
  <2>7. (v - m + big) % m = v
    <3>1. v - m + big = v + m * (k - 1)
      BY <2>1, <2>2, <2>3
    <3> QED
      BY <2>1, <2>2, <2>3, <3>1
  <2>8. Widened(v, size) \in {v, v - m + big}
    BY <1>2, <2>5, <2>6 DEF Widened, m, big
  <2>9. Widened(v, size) % m = v
    BY <2>5, <2>7, <2>8
  <2> QED
    BY <1>2, <2>9 DEF UnsignedOfWidth, m
<1> QED
  BY <1>1, <1>2

\* What the encoder makes of an operand's registers fits its fields.
LEMMA SibFields ==
    ASSUME NEW op, IsEncodableOperand(op), NeedsSib(op)
    PROVE  /\ op.reg \in 0..15 /\ op.index \in (0..15 \ {4}) \cup {NoReg}
           /\ ScaleBits(op.scale) \in 0..3 /\ 2 ^ ScaleBits(op.scale) = op.scale
<1>1. op.kind \in {"MEM_PHRASE", "MEM_DISPL"}
  BY DEF NeedsSib, IsMem
<1>2. /\ op.reg \in Reg /\ op.index \in (Reg \ {4}) \cup {NoReg}
      /\ \E n \in 0..3 : op.scale = 2 ^ n
  BY <1>1 DEF IsEncodableOperand
<1>3. \E n \in 0..3 : 2 ^ n = op.scale
  BY <1>2
<1> QED
  BY <1>2, <1>3, EncodingAssumption DEF ScaleBits

\* The fields of a SIB byte.
LEMMA SibSplits ==
    ASSUME NEW s \in 0..3, NEW i \in 0..7, NEW b \in 0..7
    PROVE  LET sib == 64 * s + 8 * i + b
           IN  sib % 8 = b /\ (sib \div 8) % 8 = i /\ sib \div 64 = s
<1> DEFINE sib == 64 * s + 8 * i + b
<1>1. sib % 8 = b
  OBVIOUS
<1>2. sib \div 8 = 8 * s + i
  OBVIOUS
<1>3. (8 * s + i) % 8 = i
  OBVIOUS
<1>4. sib \div 64 = s
  OBVIOUS
<1> QED
  BY <1>1, <1>2, <1>3, <1>4

\* The registers of a memory operand with a SIB byte are those it was encoded
\* with (ida_operand_decode.py:47-76).
LEMMA SibRoundTrip ==
    ASSUME NEW op, IsEncodableOperand(op), NeedsSib(op)
    PROVE  DecodeSib(SibOf(op), RexBits(RexOf(op)))
             = [base |-> op.reg, scale |-> op.scale, index |-> op.index]
<1> DEFINE s == ScaleBits(op.scale)
           i == IF op.index = NoReg THEN 4 ELSE op.index % 8
           b == op.reg % 8
           rex == RexBits(RexOf(op))
           sib == SibOf(op)
<1>1. /\ op.reg \in 0..15 /\ op.index \in (0..15 \ {4}) \cup {NoReg}
      /\ s \in 0..3 /\ 2 ^ s = op.scale
      /\ NoReg \in Int /\ NoReg < 0
  BY SibFields, EncodingAssumption
<1>2. IsMem(op)
  BY DEF NeedsSib
<1>3. i \in 0..7 /\ b \in 0..7
  BY <1>1
<1>4. sib % 8 = b /\ (sib \div 8) % 8 = i /\ sib \div 64 = s
  <2> HIDE DEF s, i, b
  <2>1. 64 * s + 8 * i + b = sib
    BY DEF SibOf, s, i, b
  <2> QED
    BY <1>1, <1>3, <2>1, SibSplits
<1>5. /\ HasBit(rex, 1) <=> op.reg >= 8
      /\ HasBit(rex, 2) <=> op.index >= 8
  <2>1. RexOf(op) = IF op.reg >= 8 THEN IF op.index >= 8 THEN 67 ELSE 65
                    ELSE IF op.index >= 8 THEN 66 ELSE 0
    BY <1>1, <1>2 DEF RexOf
  <2>2. RexBits(67) = 67 /\ RexBits(66) = 66 /\ RexBits(65) = 65 /\ RexBits(0) = 0
    BY DEF RexBits
  <2>3. /\ HasBit(67, 1) /\ HasBit(67, 2) /\ HasBit(65, 1) /\ ~HasBit(65, 2)
        /\ ~HasBit(66, 1) /\ HasBit(66, 2) /\ ~HasBit(0, 1) /\ ~HasBit(0, 2)
    BY DEF HasBit
  <2> QED
    BY <2>1, <2>2, <2>3
<1> HIDE DEF s, rex, sib
<1>6. b + (IF HasBit(rex, 1) THEN 8 ELSE 0) = op.reg
  BY <1>1, <1>5
<1>7. (IF i = 4 /\ ~HasBit(rex, 2) THEN NoReg ELSE i + (IF HasBit(rex, 2) THEN 8 ELSE 0)) = op.index
  <2>1. CASE op.index = NoReg
    BY <1>1, <1>5, <2>1
  <2>2. CASE op.index # NoReg
    BY <1>1, <1>5, <2>2
  <2> QED
    BY <2>1, <2>2
<1> QED
  BY <1>1, <1>4, <1>6, <1>7 DEF DecodeSib, sib, rex

\* What an operand says is what its encoding says, if the prefix is its own.
LEMMA OperandRoundTrip ==
    ASSUME NEW op, IsEncodableOperand(op), NEW prefix, NeedsSib(op) => prefix = RexOf(op)
    PROVE  ConvertOperand(EncodeOperand(op), prefix, op.written) = op
<1> DEFINE e == EncodeOperand(op)
           a == Addressing(e, prefix)
<1>1. /\ e.size = op.size /\ e.has_sib = NeedsSib(op) /\ e.type = IdaType(op.kind)
      /\ ~NeedsSib(op) => e.reg = op.reg
      /\ NeedsSib(op) => e.sib = SibOf(op)
      /\ e.addr = IF op.kind = "MEM_DISPL" THEN op.disp % Modulus[8] ELSE op.imm
      /\ op.kind = "IMMEDIATE" => e.value = Widened(op.imm, op.size)
  BY DEF EncodeOperand
<1> HIDE DEF e
<1>2. /\ op = TrueOperand(op.kind, op.reg, op, op.imm, op.disp, op.size, op.written)
      /\ op.kind \in OperandKind
  BY DEF IsEncodableOperand
<1>3. CASE op.kind \in {"MEM_PHRASE", "MEM_DISPL"}
  <2>1. a.base = op.reg /\ a.scale = op.scale /\ a.index = op.index
    <3>1. CASE NeedsSib(op)
      BY <1>1, <3>1, SibRoundTrip DEF Addressing
    <3>2. CASE ~NeedsSib(op)
      <4>1. op.index = NoReg
        BY <1>3, <3>2 DEF NeedsSib, IsMem
      <4>2. op.scale = 2 ^ 0
        BY <1>3, <4>1 DEF IsEncodableOperand
      <4>3. op.scale = 1
        BY <4>2
      <4> QED
        BY <1>1, <3>2, <4>1, <4>3 DEF Addressing
    <3> QED
      BY <3>1, <3>2
  <2> HIDE DEF a
  <2>2. op.imm = 0 /\ (op.kind = "MEM_PHRASE" => op.disp = 0)
    BY <1>3 DEF IsEncodableOperand
  <2>3. op.kind = "MEM_DISPL" => SignExtend(e.addr) = op.disp
    BY <1>1, SignedRoundTrip DEF IsEncodableOperand
  <2>4. CASE op.kind = "MEM_PHRASE"
    BY <1>1, <1>2, <2>1, <2>2, <2>4 DEF ConvertOperand, IdaType, TrueOperand, a, e
  <2>5. CASE op.kind = "MEM_DISPL"
    BY <1>1, <1>2, <2>1, <2>2, <2>3, <2>5 DEF ConvertOperand, IdaType, TrueOperand, a, e
  <2> QED
    BY <1>3, <2>4, <2>5
<1>4. CASE op.kind \notin {"MEM_PHRASE", "MEM_DISPL"}
  <2>1. op.index = NoReg /\ op.scale = 1 /\ op.disp = 0
    BY <1>4 DEF IsEncodableOperand
  <2>2. ~NeedsSib(op)
    BY <1>4, <2>1 DEF NeedsSib, IsMem
  <2>3. CASE op.kind = "REG"
    <3>1. op.imm = 0
      BY <2>3 DEF IsEncodableOperand
    <3> QED
      BY <1>1, <1>2, <2>1, <2>2, <2>3, <3>1 DEF ConvertOperand, IdaType, TrueOperand, NoIndex, e
  <2>4. CASE op.kind = "IMMEDIATE"
    <3>1. op.reg = NoReg /\ UnsignedOfWidth(Widened(op.imm, op.size), op.size) = op.imm
      BY <2>4, UnsignedRoundTrip DEF IsEncodableOperand
    <3> QED
      BY <1>1, <1>2, <2>1, <2>4, <3>1 DEF ConvertOperand, IdaType, TrueOperand, NoIndex, e
  <2>5. CASE op.kind \in {"MEM_DIRECT", "NEAR"}
    <3>1. op.reg = NoReg
      BY <2>5 DEF IsEncodableOperand
    <3> QED
      BY <1>1, <1>2, <2>1, <2>5, <3>1 DEF ConvertOperand, IdaType, TrueOperand, NoIndex, e
  <2> QED
    BY <1>2, <1>4, <2>3, <2>4, <2>5 DEF OperandKind
<1> QED
  BY <1>3, <1>4

\* The prefix of an instruction is that of its one memory operand.
LEMMA PrefixOf ==
    ASSUME NEW insn, IsEncodable(insn), insn # NoInsn,
           NEW n \in DOMAIN insn.ops, NeedsSib(insn.ops[n])
    PROVE  Encode(insn).insnpref = RexOf(insn.ops[n])
<1> DEFINE rex == {RexOf(insn.ops[k]) : k \in DOMAIN insn.ops}
           own == RexOf(insn.ops[n])
<1>1. /\ IsEncodableOperand(insn.ops[n])
      /\ \A m \in DOMAIN insn.ops : IsMem(insn.ops[m]) => m = n
  BY DEF IsEncodable, NeedsSib
<1>2. own \in 0..67
  <2>1. insn.ops[n].reg \in 0..15 /\ insn.ops[n].index \in (0..15 \ {4}) \cup {NoReg}
    BY <1>1, SibFields
  <2> QED
    BY <2>1, EncodingAssumption DEF RexOf
<1>3. \A m \in DOMAIN insn.ops : m # n => RexOf(insn.ops[m]) = 0
  BY <1>1 DEF RexOf
<1>4. rex \in SUBSET (0..67) /\ own \in rex /\ rex \subseteq {0, own}
  <2>1. 0 \in 0..67
    OBVIOUS
  <2> HIDE DEF own
  <2>2. \A m \in DOMAIN insn.ops : RexOf(insn.ops[m]) \in {0, own}
    BY <1>3 DEF own
  <2>3. own \in rex
    BY DEF own
  <2> QED
    BY <1>2, <2>1, <2>2, <2>3
<1> HIDE DEF rex, own
<1>5. (IF rex \subseteq {0} THEN 0 ELSE Greatest(rex)) = own
  <2>1. CASE rex \subseteq {0}
    BY <1>4, <2>1
  <2>2. CASE ~(rex \subseteq {0})
    <3>1. own # 0
      BY <1>4, <2>2
    <3>2. Greatest(rex) \in rex /\ own <= Greatest(rex)
      BY <1>4, GreatestIsGreatest
    <3>3. Greatest(rex) \in {0, own}
      BY <1>4, <3>2
    <3> QED
      BY <1>2, <2>2, <3>1, <3>2, <3>3
  <2> QED
    BY <2>1, <2>2
<1> QED
  BY <1>5 DEF Encode, rex, own

\* decode_at tells of every instruction a program can hold exactly what it is:
\* base and index registers of SIB and REX, signed displacements, immediates of
\* their width (ida_operand_decode.py:47-111, ida_port_impl.py:439-550).
THEOREM DecodedAsEncoded ==
    ASSUME NEW insn, IsEncodable(insn)
    PROVE  DecodeAt(insn) = insn
<1>1. CASE insn = NoInsn
  BY <1>1 DEF DecodeAt, Encode, Convert
<1>2. CASE insn # NoInsn
  <2> DEFINE e == Encode(insn)
  <2>1. /\ insn = [mnem |-> insn.mnem, ops |-> insn.ops] /\ insn.mnem \in Mnemonic
        /\ insn.ops = [n \in DOMAIN insn.ops |-> insn.ops[n]]
    BY <1>2 DEF IsEncodable
  <2>2. /\ e.mnem = insn.mnem
        /\ e.ops = [n \in DOMAIN insn.ops |-> EncodeOperand(insn.ops[n])]
        /\ e.changes = [n \in DOMAIN insn.ops |-> insn.ops[n].written]
    BY <1>2 DEF Encode
  <2>3. e # NoInsn
    BY <2>1, <2>2 DEF NoInsn, Undecodable, Mnemonic, Moves
  <2> HIDE DEF e
  <2>4. ASSUME NEW n \in DOMAIN insn.ops
        PROVE  ConvertOperand(e.ops[n], e.insnpref, e.changes[n]) = insn.ops[n]
    <3>1. IsEncodableOperand(insn.ops[n])
      BY <1>2 DEF IsEncodable
    <3>2. NeedsSib(insn.ops[n]) => e.insnpref = RexOf(insn.ops[n])
      BY <1>2, PrefixOf DEF e
    <3> QED
      BY <2>2, <3>1, <3>2, OperandRoundTrip
  <2>5. Convert(e) = [mnem |-> insn.mnem, ops |-> insn.ops]
    BY <2>1, <2>2, <2>3, <2>4 DEF Convert
  <2> QED
    BY <2>1, <2>5 DEF DecodeAt, e
<1> QED
  BY <1>1, <1>2

-----------------------------------------------------------------------------
(* The two LRU maps *)

Distinct(order) == \A j, k \in DOMAIN order : order[j] = order[k] => j = k

\* Dropping entries leaves entries of other keys.
LEMMA DroppedEntries ==
    ASSUME NEW T, NEW cache \in Seq(T), NEW keys
    PROVE  Dropped(cache, keys) \in Seq({e \in T : e.key \notin keys})
<1> DEFINE P == {n \in DOMAIN cache : cache[n].key \notin keys}
           t == Picked(cache, P)
           kept == Ascending(P, Len(cache))
<1>1. /\ t \in Seq(T) /\ Len(t) \in Nat
      /\ \A n \in 1..Len(t) : t[n] = cache[kept[n]] /\ kept[n] \in P \cap DOMAIN cache
  BY PickedPlaces
<1> HIDE DEF t, kept
<1>2. ASSUME NEW n \in 1..Len(t)
      PROVE  t[n] \in {e \in T : e.key \notin keys}
  <2>1. kept[n] \in DOMAIN cache /\ cache[kept[n]].key \notin keys
    BY <1>1
  <2>2. cache[kept[n]] \in T
    BY <2>1
  <2> QED
    BY <1>1, <2>1, <2>2
<1>3. t \in Seq({e \in T : e.key \notin keys})
  BY <1>1, <1>2
<1> QED
  BY <1>3 DEF Dropped, t

\* The order of use without a key that is not in it is the same ...
LEMMA ForgetsNothing ==
    ASSUME NEW K, NEW order \in Seq(K), NEW key, \A n \in DOMAIN order : order[n] # key
    PROVE  Forgotten(order, {key}) = order
<1> DEFINE P == {n \in DOMAIN order : order[n] \notin {key}}
<1>1. DOMAIN order \subseteq P
  OBVIOUS
<1> HIDE DEF P
<1>2. Picked(order, P) = order
  BY <1>1, PickedAll
<1> QED
  BY <1>2 DEF Forgotten, P

\* ... and without one that is, the later ones move up.
LEMMA ForgetsAt ==
    ASSUME NEW K, NEW order \in Seq(K), Distinct(order), NEW i \in DOMAIN order
    PROVE  /\ Forgotten(order, {order[i]}) \in Seq(K)
           /\ Len(Forgotten(order, {order[i]})) = Len(order) - 1
           /\ \A k \in 1..(Len(order) - 1) :
                 Forgotten(order, {order[i]})[k] = IF k < i THEN order[k] ELSE order[k + 1]
<1> DEFINE P == {n \in DOMAIN order : order[n] \notin {order[i]}}
<1>1. P \cap DOMAIN order = DOMAIN order \ {i}
  BY DEF Distinct
<1>2. Forgotten(order, {order[i]}) = Picked(order, P)
  BY DEF Forgotten
<1> HIDE DEF P
<1>3. /\ Picked(order, P) \in Seq(K) /\ Len(Picked(order, P)) = Len(order) - 1
      /\ \A k \in 1..(Len(order) - 1) :
            Picked(order, P)[k] = IF k < i THEN order[k] ELSE order[k + 1]
  BY <1>1, PickedAllBut
<1> QED
  BY <1>2, <1>3

\* Either way the rest is in its order, once each.
LEMMA ForgetsOne ==
    ASSUME NEW K, NEW order \in Seq(K), Distinct(order), NEW key
    PROVE  /\ Forgotten(order, {key}) \in Seq(K) /\ Distinct(Forgotten(order, {key}))
           /\ \A n \in DOMAIN Forgotten(order, {key}) : Forgotten(order, {key})[n] # key
<1> DEFINE r == Forgotten(order, {key})
<1>1. CASE \A n \in DOMAIN order : order[n] # key
  BY <1>1, ForgetsNothing
<1>2. CASE \E i \in DOMAIN order : order[i] = key
  <2>1. PICK i \in DOMAIN order : order[i] = key
    BY <1>2
  <2>2. /\ r \in Seq(K) /\ Len(r) = Len(order) - 1
        /\ \A k \in 1..(Len(order) - 1) : r[k] = IF k < i THEN order[k] ELSE order[k + 1]
    BY <2>1, ForgetsAt
  <2>3. \A j \in DOMAIN order : order[j] = key => j = i
    BY <2>1 DEF Distinct
  <2>4. i \in 1..Len(order) /\ Len(order) \in Nat /\ DOMAIN r = 1..(Len(order) - 1)
    BY <2>2
  <2> HIDE DEF r
  <2>5. ASSUME NEW n \in DOMAIN r
        PROVE  r[n] # key
    <3>1. n \in 1..(Len(order) - 1) /\ n \in DOMAIN order /\ n + 1 \in DOMAIN order
      BY <2>4
    <3> QED
      BY <2>2, <2>3, <2>4, <3>1
  <2>6. Distinct(r)
    <3> SUFFICES ASSUME NEW j \in DOMAIN r, NEW k \in DOMAIN r, r[j] = r[k]
                 PROVE  j = k
      BY DEF Distinct
    <3>1. /\ j \in 1..(Len(order) - 1) /\ j \in DOMAIN order /\ j + 1 \in DOMAIN order
          /\ k \in 1..(Len(order) - 1) /\ k \in DOMAIN order /\ k + 1 \in DOMAIN order
      BY <2>4
    <3>2. /\ r[j] = IF j < i THEN order[j] ELSE order[j + 1]
          /\ r[k] = IF k < i THEN order[k] ELSE order[k + 1]
      BY <2>2, <3>1
    <3>3. CASE j < i /\ k < i
      BY <3>1, <3>2, <3>3 DEF Distinct
    <3>4. CASE j < i /\ ~(k < i)
      <4>1. j = k + 1
        BY <3>1, <3>2, <3>4 DEF Distinct
      <4> QED
        BY <2>4, <3>1, <3>4, <4>1
    <3>5. CASE ~(j < i) /\ k < i
      <4>1. j + 1 = k
        BY <3>1, <3>2, <3>5 DEF Distinct
      <4> QED
        BY <2>4, <3>1, <3>5, <4>1
    <3>6. CASE ~(j < i) /\ ~(k < i)
      <4>1. j + 1 = k + 1
        BY <3>1, <3>2, <3>6 DEF Distinct
      <4> QED
        BY <3>1, <4>1
    <3> QED
      BY <3>3, <3>4, <3>5, <3>6
  <2> QED
    BY <2>2, <2>5, <2>6 DEF r
<1> QED
  BY <1>1, <1>2

\* A cache holds the keys used last, and goes on to when one is dropped.
LEMMA DropsOne ==
    ASSUME NEW T, NEW cache \in Seq(T), NEW K, NEW order \in Seq(K), Distinct(order),
           IsRecentPart(cache, order), NEW key
    PROVE  /\ IsRecentPart(Without(cache, key), Forgotten(order, {key}))
           /\ Len(Without(cache, key)) <= Len(cache)
           /\ key \in KeysOf(cache) => Len(Without(cache, key)) = Len(cache) - 1
<1> DEFINE P == {n \in DOMAIN cache : cache[n].key \notin {key}}
           w == Without(cache, key)
           r == Forgotten(order, {key})
           d == Len(order) - Len(cache)
<1>1. w = Picked(cache, P)
  BY DEF Without, Dropped
<1>2. /\ Len(cache) \in Nat /\ Len(order) \in Nat /\ d \in Nat
      /\ DOMAIN cache = 1..Len(cache) /\ DOMAIN order = 1..Len(order)
      /\ \A n \in DOMAIN cache : d + n \in DOMAIN order /\ cache[n].key = order[d + n]
  BY DEF IsRecentPart
<1> HIDE DEF d, r, w
<1>4. CASE \A n \in DOMAIN cache : cache[n].key # key
  <2>1. w = cache
    <3>1. DOMAIN cache \subseteq P
      BY <1>4
    <3> QED
      BY <1>1, <3>1, PickedAll
  <2>2. IsRecentPart(cache, r)
    <3>1. CASE \A n \in DOMAIN order : order[n] # key
      BY <3>1, ForgetsNothing DEF r
    <3>2. CASE \E i \in DOMAIN order : order[i] = key
      <4>1. PICK i \in DOMAIN order : order[i] = key
        BY <3>2
      <4>2. i <= d
        <5> SUFFICES ASSUME ~(i <= d)
                     PROVE  FALSE
          OBVIOUS
        <5>1. i - d \in DOMAIN cache /\ d + (i - d) = i
          BY <1>2, <4>1 DEF d
        <5> QED
          BY <1>2, <1>4, <4>1, <5>1
      <4>3. /\ Len(r) = Len(order) - 1
            /\ \A k \in 1..(Len(order) - 1) : r[k] = IF k < i THEN order[k] ELSE order[k + 1]
        BY <4>1, ForgetsAt DEF r
      <4>4. ASSUME NEW n \in DOMAIN cache
            PROVE  cache[n].key = r[Len(r) - Len(cache) + n]
        <5>1. Len(r) - Len(cache) + n = d - 1 + n
          BY <1>2, <4>3 DEF d
        <5>2. d - 1 + n \in 1..(Len(order) - 1) /\ ~(d - 1 + n < i) /\ (d - 1 + n) + 1 = d + n
          BY <1>2, <4>1, <4>2 DEF d
        <5>3. r[d - 1 + n] = order[d + n]
          BY <4>3, <5>2
        <5> QED
          BY <1>2, <5>1, <5>3
      <4>5. Len(cache) <= Len(r)
        BY <1>2, <4>1, <4>2, <4>3 DEF d
      <4> QED
        BY <4>4, <4>5 DEF IsRecentPart
    <3> QED
      BY <3>1, <3>2
  <2> QED
    <3>1. IsRecentPart(w, r) /\ Len(w) <= Len(cache)
      BY <1>2, <2>1, <2>2
    <3>2. key \notin KeysOf(cache)
      BY <1>4 DEF KeysOf
    <3> QED
      BY <3>1, <3>2 DEF w, r
<1>5. CASE \E m \in DOMAIN cache : cache[m].key = key
  <2>1. PICK m \in DOMAIN cache : cache[m].key = key
    BY <1>5
  <2>2. d + m \in DOMAIN order /\ order[d + m] = key
    BY <1>2, <2>1
  <2>3. \A n \in DOMAIN cache : cache[n].key = key => n = m
    <3> SUFFICES ASSUME NEW n \in DOMAIN cache, cache[n].key = key
                 PROVE  n = m
      OBVIOUS
    <3>1. d + n = d + m
      BY <1>2, <2>2 DEF Distinct
    <3> QED
      BY <1>2, <3>1
  <2>4. P \cap DOMAIN cache = DOMAIN cache \ {m}
    BY <2>1, <2>3
  <2> HIDE DEF P
  <2>5. /\ Len(w) = Len(cache) - 1 /\ w \in Seq(T)
        /\ \A k \in 1..(Len(cache) - 1) : w[k] = IF k < m THEN cache[k] ELSE cache[k + 1]
    BY <1>1, <2>4, PickedAllBut
  <2>6. /\ Len(r) = Len(order) - 1
        /\ \A k \in 1..(Len(order) - 1) : r[k] = IF k < d + m THEN order[k] ELSE order[k + 1]
    BY <2>2, ForgetsAt DEF r
  <2>7. ASSUME NEW n \in DOMAIN w
        PROVE  w[n].key = r[Len(r) - Len(w) + n]
    <3>1. n \in 1..(Len(cache) - 1) /\ n \in DOMAIN cache /\ n + 1 \in DOMAIN cache /\ n \in Nat
      BY <1>2, <2>5
    <3>2. Len(r) - Len(w) + n = d + n
      BY <1>2, <2>5, <2>6, <3>1 DEF d
    <3>3. d + n \in 1..(Len(order) - 1) /\ (d + n) + 1 = d + (n + 1)
      BY <1>2, <3>1 DEF d
    <3>4. r[d + n] = IF n < m THEN order[d + n] ELSE order[d + (n + 1)]
      BY <1>2, <2>1, <2>6, <3>1, <3>3
    <3>5. w[n] = IF n < m THEN cache[n] ELSE cache[n + 1]
      BY <2>5, <3>1
    <3> QED
      BY <1>2, <3>1, <3>2, <3>4, <3>5
  <2>8. Len(w) <= Len(r)
    BY <1>2, <2>5, <2>6 DEF d
  <2> QED
    <3>1. IsRecentPart(w, r)
      BY <2>7, <2>8 DEF IsRecentPart
    <3>2. Len(w) <= Len(cache)
      BY <1>2, <2>5
    <3> QED
      BY <2>5, <3>1, <3>2 DEF w, r
<1> QED
  BY <1>4, <1>5

\* Using a key puts it last.
LEMMA UsesOne ==
    ASSUME NEW T, NEW cache \in Seq(T), NEW K, NEW order \in Seq(K),
           IsRecentPart(cache, order), NEW e, e.key \in K
    PROVE  IsRecentPart(Append(cache, e), Append(order, e.key))
<1> DEFINE U == T \cup {e}
           c == Append(cache, e)
           o == Append(order, e.key)
<1>1. cache \in Seq(U) /\ e \in U
  OBVIOUS
<1>2. /\ Len(cache) \in Nat /\ Len(order) \in Nat /\ Len(cache) <= Len(order)
      /\ \A n \in 1..Len(cache) : cache[n].key = order[Len(order) - Len(cache) + n]
  BY DEF IsRecentPart
<1>3. /\ Len(c) = Len(cache) + 1 /\ DOMAIN c = 1..(Len(cache) + 1) /\ c[Len(cache) + 1] = e
      /\ \A n \in 1..Len(cache) : c[n] = cache[n]
  BY <1>1
<1>4. /\ Len(o) = Len(order) + 1 /\ o[Len(order) + 1] = e.key
      /\ \A n \in 1..Len(order) : o[n] = order[n]
  OBVIOUS
<1> HIDE DEF c, o
<1>5. ASSUME NEW n \in DOMAIN c
      PROVE  c[n].key = o[Len(o) - Len(c) + n]
  <2>1. CASE n = Len(cache) + 1
    <3>1. Len(o) - Len(c) + n = Len(order) + 1
      BY <1>2, <1>3, <1>4, <2>1
    <3> QED
      BY <1>3, <1>4, <2>1, <3>1
  <2>2. CASE n \in 1..Len(cache)
    <3>1. /\ Len(o) - Len(c) + n = Len(order) - Len(cache) + n
          /\ Len(order) - Len(cache) + n \in 1..Len(order)
      BY <1>2, <1>3, <1>4, <2>2
    <3> QED
      BY <1>2, <1>3, <1>4, <2>2, <3>1
  <2> QED
    BY <1>2, <1>3, <2>1, <2>2
<1> QED
  BY <1>2, <1>3, <1>4, <1>5 DEF IsRecentPart, c, o

\* Evicting the oldest entry leaves the keys used last.
LEMMA EvictsOldest ==
    ASSUME NEW T, NEW cache \in Seq(T), NEW order, Len(order) \in Nat,
           IsRecentPart(cache, order), cache # <<>>
    PROVE  IsRecentPart(Tail(cache), order)
<1>1. /\ Len(cache) \in Nat \ {0} /\ Tail(cache) \in Seq(T)
      /\ Len(Tail(cache)) = Len(cache) - 1 /\ DOMAIN Tail(cache) = 1..(Len(cache) - 1)
      /\ \A n \in 1..(Len(cache) - 1) : Tail(cache)[n] = cache[n + 1]
  OBVIOUS
<1> DEFINE t == Tail(cache)
<1> HIDE DEF t
<1>2. ASSUME NEW n \in DOMAIN t
      PROVE  t[n].key = order[Len(order) - Len(t) + n]
  <2>1. n \in 1..(Len(cache) - 1) /\ n + 1 \in DOMAIN cache
    BY <1>1 DEF t
  <2>2. cache[n + 1].key = order[Len(order) - Len(cache) + (n + 1)]
    BY <2>1 DEF IsRecentPart
  <2>3. Len(order) - Len(cache) + (n + 1) = Len(order) - Len(t) + n
    BY <1>1, <2>1 DEF t
  <2> QED
    BY <1>1, <2>1, <2>2, <2>3 DEF t
<1> QED
  BY <1>1, <1>2 DEF IsRecentPart, t

\* Of the order of use, too, every key is there once.
LEMMA UsedOrder ==
    ASSUME NEW K, NEW order \in Seq(K), Distinct(order), NEW key \in K
    PROVE  Used(order, key) \in Seq(K) /\ Distinct(Used(order, key))
<1> DEFINE r == Forgotten(order, {key})
           u == Append(r, key)
<1>1. r \in Seq(K) /\ Distinct(r) /\ \A n \in DOMAIN r : r[n] # key
  BY ForgetsOne
<1> HIDE DEF r
<1>2. /\ u \in Seq(K) /\ DOMAIN u = 1..(Len(r) + 1) /\ u[Len(r) + 1] = key /\ Len(r) \in Nat
      /\ DOMAIN r = 1..Len(r) /\ \A n \in 1..Len(r) : u[n] = r[n]
  BY <1>1
<1> HIDE DEF u
<1>3. \A n \in DOMAIN u : n = Len(r) + 1 \/ n \in DOMAIN r
  BY <1>2
<1>4. Distinct(u)
  <2> SUFFICES ASSUME NEW j \in DOMAIN u, NEW k \in DOMAIN u, u[j] = u[k]
               PROVE  j = k
    BY DEF Distinct
  <2>1. CASE j = Len(r) + 1 /\ k = Len(r) + 1
    BY <2>1
  <2>2. CASE j \in DOMAIN r /\ k = Len(r) + 1
    BY <1>1, <1>2, <2>2
  <2>3. CASE j = Len(r) + 1 /\ k \in DOMAIN r
    BY <1>1, <1>2, <2>3
  <2>4. CASE j \in DOMAIN r /\ k \in DOMAIN r
    BY <1>1, <1>2, <2>4 DEF Distinct
  <2> QED
    BY <1>3, <2>1, <2>2, <2>3, <2>4
<1> QED
  BY <1>2, <1>4 DEF Used, u, r

\* One of the two maps: entries of E, as many as fit, of the keys used last.
IsLru(cache, order, E, K) ==
    /\ cache \in Seq(E) /\ Len(cache) <= MaxEntries
    /\ order \in Seq(K) /\ Distinct(order) /\ IsRecentPart(cache, order)

\* A read through a map answers with an entry of the key, and leaves a map.
LEMMA ReadThrough ==
    ASSUME NEW K, NEW E, \A e \in E : e.key \in K, NEW cache, NEW order, IsLru(cache, order, E, K),
           NEW key \in K, NEW answer, [key |-> key, value |-> answer] \in E
    PROVE  /\ \E e \in E : e.key = key /\ Cached(cache, key, answer).value = e.value
           /\ IsLru(Cached(cache, key, answer).cache, Used(order, key), E, K)
<1> DEFINE w == Without(cache, key)
           f == Forgotten(order, {key})
           u == Used(order, key)
<1>1. /\ cache \in Seq(E) /\ Len(cache) <= MaxEntries /\ Len(cache) \in Nat /\ MaxEntries \in Nat
      /\ order \in Seq(K) /\ Distinct(order) /\ IsRecentPart(cache, order)
  BY SessionAssumption DEF IsLru
<1>2. /\ IsRecentPart(w, f) /\ Len(w) <= Len(cache)
      /\ key \in KeysOf(cache) => Len(w) = Len(cache) - 1
  BY <1>1, DropsOne
<1>3. w \in Seq(E)
  <2>1. Dropped(cache, {key}) \in Seq({e \in E : e.key \notin {key}})
    BY <1>1, DroppedEntries
  <2> QED
    BY <2>1 DEF Without
<1>4. f \in Seq(K) /\ u = Append(f, key) /\ u \in Seq(K) /\ Distinct(u)
  BY <1>1, ForgetsOne, UsedOrder DEF Used
<1> HIDE DEF w, f, u
<1>5. ASSUME NEW e \in E, e.key = key
      PROVE  /\ Append(w, e) \in Seq(E) /\ Len(Append(w, e)) = Len(w) + 1 /\ Len(w) \in Nat
             /\ IsRecentPart(Append(w, e), u)
  <2>1. IsRecentPart(Append(w, e), Append(f, e.key))
    BY <1>2, <1>3, <1>4, <1>5, UsesOne
  <2> QED
    BY <1>3, <1>4, <1>5, <2>1
<1>6. CASE key \in KeysOf(cache)
  <2> DEFINE e == EntryOf(cache, key)
  <2>1. e \in E /\ e.key = key
    <3>1. \E n \in DOMAIN cache : cache[n].key = key
      BY <1>6 DEF KeysOf
    <3> DEFINE n == CHOOSE m \in DOMAIN cache : cache[m].key = key
    <3>2. n \in DOMAIN cache /\ cache[n].key = key
      BY <3>1
    <3> HIDE DEF n
    <3>3. cache[n] \in E
      BY <1>1, <3>2, ElementOf
    <3> QED
      BY <3>2, <3>3 DEF EntryOf, n
  <2> HIDE DEF e
  <2>2. Cached(cache, key, answer) = [value |-> e.value, cache |-> Append(w, e)]
    BY <1>6 DEF Cached, Lookup, e, w
  <2>3. Len(Append(w, e)) <= MaxEntries
    BY <1>1, <1>2, <1>5, <1>6, <2>1
  <2> QED
    BY <1>4, <1>5, <2>1, <2>2, <2>3 DEF IsLru, u
<1>7. CASE key \notin KeysOf(cache)
  <2> DEFINE e == [key |-> key, value |-> answer]
             longer == Append(w, e)
  <2>1. e \in E /\ e.key = key /\ e.value = answer
    OBVIOUS
  <2>2. Cached(cache, key, answer) = [value |-> answer, cache |-> Store(cache, key, answer)]
    BY <1>7 DEF Cached
  <2>3. Store(cache, key, answer) = IF Len(longer) > MaxEntries THEN Tail(longer) ELSE longer
    BY DEF Store, w
  <2> HIDE DEF e
  <2>4. /\ longer \in Seq(E) /\ Len(longer) = Len(w) + 1 /\ Len(w) \in Nat
        /\ IsRecentPart(longer, u)
    BY <1>5, <2>1
  <2> HIDE DEF longer
  <2>5. CASE Len(longer) > MaxEntries
    <3>1. longer # <<>> /\ Len(u) \in Nat
      BY <1>4, <2>4
    <3>2. IsRecentPart(Tail(longer), u)
      BY <2>4, <3>1, EvictsOldest
    <3>3. Tail(longer) \in Seq(E) /\ Len(Tail(longer)) = Len(longer) - 1
      BY <2>4, <3>1
    <3>4. Len(Tail(longer)) <= MaxEntries
      BY <1>1, <1>2, <2>4, <3>3
    <3> QED
      BY <1>4, <2>1, <2>2, <2>3, <2>5, <3>2, <3>3, <3>4 DEF IsLru, u
  <2>6. CASE ~(Len(longer) > MaxEntries)
    <3>1. Len(longer) <= MaxEntries
      BY <1>1, <2>4, <2>6
    <3> QED
      BY <1>4, <2>1, <2>2, <2>3, <2>4, <2>6, <3>1 DEF IsLru, u
  <2> QED
    BY <2>5, <2>6
<1> QED
  BY <1>6, <1>7

\* Invalidating a key, or all of them, leaves a map of the other entries.
LEMMA DropsKeys ==
    ASSUME NEW K, NEW E, \A e \in E : e.key \in K, NEW cache, NEW order, IsLru(cache, order, E, K),
           NEW keys, K \subseteq keys \/ \E key : keys = {key}
    PROVE  IsLru(Dropped(cache, keys), Forgotten(order, keys), {e \in E : e.key \notin keys}, K)
<1>1. /\ cache \in Seq(E) /\ Len(cache) <= MaxEntries /\ Len(cache) \in Nat /\ MaxEntries \in Nat
      /\ order \in Seq(K) /\ Distinct(order) /\ IsRecentPart(cache, order)
  BY SessionAssumption DEF IsLru
<1>2. Dropped(cache, keys) \in Seq({e \in E : e.key \notin keys})
  BY <1>1, DroppedEntries
<1>3. CASE \E key : keys = {key}
  <2>1. PICK key : keys = {key}
    BY <1>3
  <2>2. /\ IsRecentPart(Without(cache, key), Forgotten(order, {key}))
        /\ Len(Without(cache, key)) <= Len(cache)
    BY <1>1, DropsOne
  <2>3. Forgotten(order, {key}) \in Seq(K) /\ Distinct(Forgotten(order, {key}))
    BY <1>1, ForgetsOne
  <2>4. Dropped(cache, {key}) = Without(cache, key)
    BY DEF Without
  <2>5. Len(Dropped(cache, keys)) <= MaxEntries
    <3>1. Len(Dropped(cache, keys)) \in Nat
      BY <1>2
    <3> QED
      BY <1>1, <2>1, <2>2, <2>4, <3>1
  <2> QED
    BY <1>2, <2>1, <2>2, <2>3, <2>4, <2>5 DEF IsLru
<1>4. CASE K \subseteq keys
  <2>1. Dropped(cache, keys) = <<>>
    <3> DEFINE P == {n \in DOMAIN cache : cache[n].key \notin keys}
    <3>1. P \cap DOMAIN cache = {}
      BY <1>1, <1>4, ElementOf
    <3> HIDE DEF P
    <3>2. Picked(cache, P) = <<>>
      BY <1>1, <3>1, PickedNone
    <3> QED
      BY <3>2 DEF Dropped, P
  <2>2. Forgotten(order, keys) = <<>>
    <3> DEFINE P == {n \in DOMAIN order : order[n] \notin keys}
    <3>1. P \cap DOMAIN order = {}
      BY <1>1, <1>4, ElementOf
    <3> HIDE DEF P
    <3>2. Picked(order, P) = <<>>
      BY <1>1, <3>1, PickedNone
    <3> QED
      BY <3>2 DEF Forgotten, P
  <2>3. <<>> \in Seq({e \in E : e.key \notin keys}) /\ <<>> \in Seq(K) /\ Len(<<>>) = 0
    OBVIOUS
  <2>4. Distinct(<<>>) /\ IsRecentPart(<<>>, <<>>)
    BY NothingYet DEF Distinct, IsRecentPart
  <2> QED
    BY <1>1, <2>1, <2>2, <2>3, <2>4 DEF IsLru
<1> QED
  BY <1>3, <1>4

-----------------------------------------------------------------------------
(* What the caches hold *)

\* The entries a cache may hold for keys of K, given what those have held.
Entries(s, kind, K) ==
    {e \in [key : K, value : UNION {s[<<kind, k>>] : k \in K}] : e.value \in s[<<kind, e.key>>]}

\* What it means to be an entry for a key of one kind.
LEMMA EntriesMean ==
    ASSUME NEW s, NEW kind, NEW K
    PROVE  /\ \A e \in Entries(s, kind, K) : e.key \in K /\ e.value \in s[<<kind, e.key>>]
           /\ \A k \in K : \A v \in s[<<kind, k>>] :
                 [key |-> k, value |-> v] \in Entries(s, kind, K)
  BY DEF Entries

\* The more a key has held, the more its entry may be.
LEMMA EntriesGrow ==
    ASSUME NEW s, NEW more, NEW kind, NEW K, NEW keys,
           \A k \in K \ keys : s[<<kind, k>>] \subseteq more[<<kind, k>>]
    PROVE  {e \in Entries(s, kind, K) : e.key \notin keys} \subseteq Entries(more, kind, K)
<1> SUFFICES ASSUME NEW e \in Entries(s, kind, K), e.key \notin keys
             PROVE  e \in Entries(more, kind, K)
  OBVIOUS
<1>1. e = [key |-> e.key, value |-> e.value] /\ e.key \in K /\ e.value \in s[<<kind, e.key>>]
  BY DEF Entries
<1>2. e.value \in more[<<kind, e.key>>]
  BY <1>1
<1> QED
  BY <1>1, <1>2 DEF Entries

\* A map stays one when its keys may hold more.
LEMMA LruGrows ==
    ASSUME NEW K, NEW E, NEW F, E \subseteq F, NEW cache, NEW order, IsLru(cache, order, E, K)
    PROVE  IsLru(cache, order, F, K)
  BY DEF IsLru

\* The keys of a database and what they hold.
LEMMA KeysHold ==
    ASSUME NEW d, IsDatabase(d)
    PROVE  /\ \A ea \in Heads : /\ <<"insn", ea>> \in Keys(d) /\ <<"owner", ea>> \in Keys(d)
                               /\ Content(d, <<"insn", ea>>) = Decode(d, ea)
                               /\ Content(d, <<"owner", ea>>) = d.owner[ea]
           /\ \A c \in Callee : /\ <<"refs", c>> \in Keys(d)
                              /\ Content(d, <<"refs", c>>) = d.refs[c]
           /\ \A f \in DOMAIN d.chart : /\ <<"chart", f>> \in Keys(d)
                                       /\ Content(d, <<"chart", f>>) = d.chart[f]
<1>1. ASSUME NEW ea \in Heads
      PROVE  Content(d, <<"insn", ea>>) = Decode(d, ea)
  <2>1. Content(d, <<"insn", ea>>) = IF ea \in DOMAIN d.code THEN d.code[ea] ELSE NoInsn
    BY DEF Content
  <2>2. ea \in DOMAIN d.code => DecodeAt(d.code[ea]) = d.code[ea]
    BY DecodedAsEncoded DEF IsDatabase
  <2> QED
    BY <2>1, <2>2 DEF Decode
<1> QED
  BY <1>1 DEF Keys, Content

\* The world and its present database.
Env == world \in Worlds /\ db \in world.dbs /\ edits \in 0..MaxEdits

\* What the environment's type says of the present database.
LEMMA EnvFields ==
    ASSUME Env
    PROVE  /\ IsDatabase(db)
           /\ world.callees \subseteq Callee /\ world.queries \subseteq Heads
           /\ world.locators \subseteq AnyLocator
           /\ \A d \in world.dbs : IsDatabase(d) /\ DOMAIN d.chart = DOMAIN db.chart /\ Keys(d) = Keys(db)
<1>1. IsWorld(world)
  BY SessionAssumption DEF Env
<1> QED
  BY <1>1 DEF Env, IsWorld, Keys

\* What a key held since it was dropped, its present content among it, is what
\* some database of the world holds.
SeenInv ==
    /\ DOMAIN seen = Keys(db)
    /\ \A k \in Keys(db) : /\ Content(db, k) \in seen[k]
                          /\ seen[k] \subseteq {Content(d, k) : d \in world.dbs}

\* A memo of the resolver, which nothing drops.
IsMemo(f, s, kind, K) ==
    DOMAIN f \subseteq K /\ \A k \in DOMAIN f : f[k] \in s[<<kind, k>>]

CachesInv ==
    /\ recent = [insns |-> recent.insns, xrefs |-> recent.xrefs]
    /\ IsLru(insns, recent.insns, Entries(seen, "insn", Heads), Heads)
    /\ IsLru(xrefs, recent.xrefs, Entries(seen, "refs", Callee), Callee)
    /\ IsMemo(funcs, seen, "owner", Heads)
    /\ IsMemo(charts, seen, "chart", DOMAIN db.chart)

DataInv == Env /\ SeenInv /\ CachesInv

\* The answer given is one that is allowed.
Answers == reply'.key \in Keys(db) /\ reply'.value \in seen[reply'.key]

\* Asking a memo answers with what the key has held, and remembers it.
LEMMA MemoAsked ==
    ASSUME NEW f, NEW s, NEW kind, NEW K, IsMemo(f, s, kind, K),
           NEW key \in K, NEW answer \in s[<<kind, key>>]
    PROVE  /\ IsMemo(Memo(f, key, answer), s, kind, K)
           /\ DOMAIN Memo(f, key, answer) = DOMAIN f \cup {key}
           /\ Memo(f, key, answer)[key] \in s[<<kind, key>>]
           /\ key \notin DOMAIN f => Memo(f, key, answer)[key] = answer
           /\ \A k \in DOMAIN f : Memo(f, key, answer)[k] = f[k]
  BY DEF IsMemo, Memo

\* What the keys have held, by kind.
LEMMA SeenKinds ==
    ASSUME Env, SeenInv
    PROVE  /\ \A ea \in Heads : Decode(db, ea) \in seen[<<"insn", ea>>]
           /\ \A ea \in Heads : /\ db.owner[ea] \in seen[<<"owner", ea>>]
                               /\ seen[<<"owner", ea>>] \subseteq DOMAIN db.chart \cup {NoFunc}
           /\ \A c \in Callee : /\ db.refs[c] \in seen[<<"refs", c>>]
                              /\ seen[<<"refs", c>>] \subseteq SUBSET Heads
           /\ \A f \in DOMAIN db.chart :
                 /\ db.chart[f] \in seen[<<"chart", f>>]
                 /\ \A chart \in seen[<<"chart", f>>] :
                       \A b \in DOMAIN chart : b \in Nat /\ chart[b] \in Nat
<1>1. /\ IsDatabase(db)
      /\ \A d \in world.dbs : IsDatabase(d) /\ DOMAIN d.chart = DOMAIN db.chart
  BY EnvFields
<1>2. \A k \in Keys(db) : \A v \in seen[k] : \E d \in world.dbs : v = Content(d, k)
  BY DEF SeenInv
<1>3. ASSUME NEW ea \in Heads
      PROVE  /\ Decode(db, ea) \in seen[<<"insn", ea>>]
             /\ db.owner[ea] \in seen[<<"owner", ea>>]
             /\ seen[<<"owner", ea>>] \subseteq DOMAIN db.chart \cup {NoFunc}
  <2>1. Decode(db, ea) \in seen[<<"insn", ea>>] /\ db.owner[ea] \in seen[<<"owner", ea>>]
    BY <1>1, KeysHold DEF SeenInv
  <2>2. ASSUME NEW v \in seen[<<"owner", ea>>]
        PROVE  v \in DOMAIN db.chart \cup {NoFunc}
    <3>1. <<"owner", ea>> \in Keys(db)
      BY <1>1, KeysHold
    <3>2. PICK d \in world.dbs : v = Content(d, <<"owner", ea>>)
      BY <1>2, <3>1
    <3>3. IsDatabase(d) /\ DOMAIN d.chart = DOMAIN db.chart
      BY <1>1
    <3>4. v = d.owner[ea]
      BY <3>2, <3>3, KeysHold
    <3> QED
      BY <3>3, <3>4 DEF IsDatabase
  <2> QED
    BY <2>1, <2>2
<1>4. ASSUME NEW c \in Callee
      PROVE  db.refs[c] \in seen[<<"refs", c>>] /\ seen[<<"refs", c>>] \subseteq SUBSET Heads
  <2>1. db.refs[c] \in seen[<<"refs", c>>] /\ <<"refs", c>> \in Keys(db)
    BY <1>1, KeysHold DEF SeenInv
  <2>2. ASSUME NEW v \in seen[<<"refs", c>>]
        PROVE  v \in SUBSET Heads
    <3>1. PICK d \in world.dbs : v = Content(d, <<"refs", c>>)
      BY <1>2, <2>1
    <3>2. v = d.refs[c]
      BY <1>1, <3>1, KeysHold
    <3> QED
      BY <1>1, <3>2 DEF IsDatabase
  <2> QED
    BY <2>1, <2>2
<1>5. ASSUME NEW f \in DOMAIN db.chart
      PROVE  /\ db.chart[f] \in seen[<<"chart", f>>]
             /\ \A chart \in seen[<<"chart", f>>] :
                   \A b \in DOMAIN chart : b \in Nat /\ chart[b] \in Nat
  <2>1. db.chart[f] \in seen[<<"chart", f>>] /\ <<"chart", f>> \in Keys(db)
    BY <1>1, KeysHold DEF SeenInv
  <2>2. ASSUME NEW v \in seen[<<"chart", f>>]
        PROVE  \A b \in DOMAIN v : b \in Nat /\ v[b] \in Nat
    <3>1. PICK d \in world.dbs : v = Content(d, <<"chart", f>>)
      BY <1>2, <2>1
    <3>2. IsDatabase(d) /\ f \in DOMAIN d.chart
      BY <1>1
    <3>3. v = d.chart[f]
      BY <3>1, <3>2, KeysHold
    <3> QED
      BY <3>2, <3>3 DEF IsDatabase
  <2> QED
    BY <2>1, <2>2
<1> QED
  BY <1>3, <1>4, <1>5

\* An instruction read through the cache.
LEMMA InsnRead ==
    ASSUME DataInv, NEW ea \in Heads, ReadInsn(ea), UNCHANGED <<environment, seen>>
    PROVE  /\ GetInsn(ea).value \in seen[<<"insn", ea>>]
           /\ recent' = [insns |-> recent'.insns, xrefs |-> recent'.xrefs]
           /\ IsLru(insns', recent'.insns, Entries(seen, "insn", Heads), Heads)
           /\ IsLru(xrefs', recent'.xrefs, Entries(seen, "refs", Callee), Callee)
           /\ Answers
<1> DEFINE E == Entries(seen, "insn", Heads)
           v == Decode(db, ea)
<1>1. /\ recent = [insns |-> recent.insns, xrefs |-> recent.xrefs]
      /\ IsLru(insns, recent.insns, E, Heads)
      /\ IsLru(xrefs, recent.xrefs, Entries(seen, "refs", Callee), Callee)
  BY DEF DataInv, CachesInv
<1>2. v \in seen[<<"insn", ea>>] /\ <<"insn", ea>> \in Keys(db)
  BY SeenKinds, EnvFields, KeysHold DEF DataInv
<1>3. (\A e \in E : e.key \in Heads /\ e.value \in seen[<<"insn", e.key>>]) /\ [key |-> ea, value |-> v] \in E
  BY <1>2, EntriesMean
<1>4. /\ insns' = GetInsn(ea).cache /\ GetInsn(ea) = Cached(insns, ea, v)
      /\ recent' = [recent EXCEPT !.insns = Used(@, ea)] /\ UNCHANGED xrefs
      /\ reply' = [key |-> <<"insn", ea>>, value |-> GetInsn(ea).value]
  BY DEF ReadInsn, GetInsn
<1>5. recent' = [insns |-> Used(recent.insns, ea), xrefs |-> recent.xrefs]
  BY <1>1, <1>4
<1> HIDE DEF E, v
<1>6. /\ \E e \in E : e.key = ea /\ GetInsn(ea).value = e.value
      /\ IsLru(GetInsn(ea).cache, Used(recent.insns, ea), E, Heads)
  <2>1. \A e \in E : e.key \in Heads
    BY <1>3
  <2>2. [key |-> ea, value |-> v] \in E
    BY <1>3
  <2> QED
    BY <1>1, <1>4, <2>1, <2>2, ReadThrough
<1>7. GetInsn(ea).value \in seen[<<"insn", ea>>]
  BY <1>3, <1>6
<1>8. Answers
  BY <1>2, <1>4, <1>7 DEF Answers
<1> QED
  BY <1>1, <1>4, <1>5, <1>6, <1>7, <1>8 DEF E

-----------------------------------------------------------------------------
(* The call that is under way *)

Scans == [call : Heads \cup {NoEa}, func : Nat \cup {NoFunc}, at : Heads \cup {NoEa},
          pushes : Seq(Heads), skipped : Nat]

\* Its scan is where the code can have taken it; a walk has its function's chart.
CallInv ==
    /\ pc \in {"idle", "site", "scan", "interpret", "walk"}
    /\ todo \subseteq Heads /\ scan \in Scans
    /\ Len(scan.pushes) <= MaxPushes
    /\ scan.skipped <= IF pc = "walk" THEN MaxBlocks ELSE MaxSkips
    /\ IsGrowing(named) /\ Len(named) <= Len(scan.pushes)
    /\ pc \in {"scan", "walk"} => named = <<>>
    /\ pc = "walk" => scan.call \in DOMAIN funcs /\ funcs[scan.call] \in DOMAIN charts

\* Without a scan nothing is found.
LEMMA NoScanIsScan ==
    /\ NoScan \in Scans /\ NoScan.skipped = 0 /\ NoScan.pushes = <<>> /\ Len(NoScan.pushes) = 0
    /\ NoScan.call = NoEa
<1>1. <<>> \in Seq(Heads) /\ Len(<<>>) = 0
  OBVIOUS
<1> QED
  BY <1>1 DEF NoScan, Scans, NoEa

\* What a scan holds.
LEMMA ScanFields ==
    ASSUME CallInv
    PROVE  /\ scan.call \in Heads \cup {NoEa} /\ scan.func \in Nat \cup {NoFunc}
           /\ scan.at \in Heads \cup {NoEa} /\ scan.pushes \in Seq(Heads) /\ scan.skipped \in Nat
           /\ scan = [call |-> scan.call, func |-> scan.func, at |-> scan.at,
                      pushes |-> scan.pushes, skipped |-> scan.skipped]
           /\ Len(scan.pushes) \in Nat /\ Heads \subseteq Nat
  BY SessionAssumption DEF CallInv, Scans

\* The head before an address is a head of the database.
LEMMA PrevHeadIsHead ==
    ASSUME IsDatabase(db), NEW ea \in Nat, NEW func
    PROVE  /\ PrevHead(ea, func) \in Heads \cup {NoEa}
           /\ LET before == {h \in DOMAIN db.code : func <= h /\ h < ea}
              IN  IF before = {} THEN PrevHead(ea, func) = NoEa
                  ELSE /\ PrevHead(ea, func) \in before
                       /\ \A h \in before : h <= PrevHead(ea, func)
<1> DEFINE before == {h \in DOMAIN db.code : func <= h /\ h < ea}
<1>1. before \in SUBSET Heads /\ Heads \in SUBSET Nat
  <2>1. before \subseteq DOMAIN db.code
    OBVIOUS
  <2>2. DOMAIN db.code \subseteq Heads
    BY DEF IsDatabase
  <2> QED
    BY <2>1, <2>2, SessionAssumption
<1>2. before \in SUBSET (0..ea)
  <2>1. \A h \in before : h \in Nat /\ h < ea
    BY <1>1
  <2> QED
    BY <2>1
<1>3. PrevHead(ea, func) = IF before = {} THEN NoEa ELSE Greatest(before)
  BY DEF PrevHead
<1> HIDE DEF before
<1>4. before # {} => Greatest(before) \in before /\ \A h \in before : h <= Greatest(before)
  BY <1>2, GreatestIsGreatest
<1>5. IF before = {} THEN PrevHead(ea, func) = NoEa
      ELSE /\ PrevHead(ea, func) \in before
           /\ \A h \in before : h <= PrevHead(ea, func)
  BY <1>3, <1>4
<1>6. PrevHead(ea, func) \in Heads \cup {NoEa}
  BY <1>1, <1>5
<1> QED
  BY <1>5, <1>6 DEF before

\* The head the code reads next is one.
LEMMA ReadsHead ==
    ASSUME CallInv
    PROVE  /\ scan.at # NoEa => scan.at \in Heads
           /\ Len(named) < Len(scan.pushes) =>
                 scan.pushes[Len(named) + 1] \in Heads /\ Len(named) + 1 \in 1..Len(scan.pushes)
<1>1. Len(named) \in Nat
  BY Places DEF CallInv
<1> QED
  BY <1>1, ScanFields DEF CallInv

-----------------------------------------------------------------------------
(* What a step does to the caches *)

Quiet == UNCHANGED <<world, edits, db, insns, xrefs, funcs, charts, recent, seen>>

\* A step that touches neither caches nor database keeps what is known of them.
LEMMA QuietStep ==
    ASSUME DataInv, Quiet
    PROVE  DataInv'
  BY DEF DataInv, Quiet, Env, SeenInv, CachesInv

\* A change of the database adds to what its keys have held.
LEMMA EditStep ==
    ASSUME DataInv, Edit
    PROVE  DataInv' /\ Promise!Change
<1>1. /\ db' \in world.dbs /\ edits < MaxEdits /\ edits' = edits + 1
      /\ seen' = [k \in Keys(db) |-> seen[k] \cup {Content(db', k)}]
      /\ UNCHANGED <<world, insns, xrefs, funcs, charts, recent, reply>>
  BY DEF Edit, caches
<1>2. Env'
  BY <1>1, SessionAssumption DEF DataInv, Env
<1>3. Keys(db') = Keys(db) /\ DOMAIN db'.chart = DOMAIN db.chart
  BY <1>1, EnvFields DEF DataInv
<1>4. DOMAIN seen' = Keys(db) /\ \A k \in Keys(db) : seen[k] \subseteq seen'[k]
  BY <1>1
<1>5. SeenInv'
  BY <1>1, <1>3, <1>4 DEF DataInv, SeenInv
<1>6. IsDatabase(db)
  BY EnvFields DEF DataInv
<1>7. /\ \A ea \in Heads : /\ seen[<<"insn", ea>>] \subseteq seen'[<<"insn", ea>>]
                          /\ seen[<<"owner", ea>>] \subseteq seen'[<<"owner", ea>>]
      /\ \A c \in Callee : seen[<<"refs", c>>] \subseteq seen'[<<"refs", c>>]
      /\ \A f \in DOMAIN db.chart : seen[<<"chart", f>>] \subseteq seen'[<<"chart", f>>]
  BY <1>4, <1>6, KeysHold
<1>8. /\ Entries(seen, "insn", Heads) \subseteq Entries(seen', "insn", Heads)
      /\ Entries(seen, "refs", Callee) \subseteq Entries(seen', "refs", Callee)
  <2>1. ASSUME NEW kind, NEW K, \A k \in K : seen[<<kind, k>>] \subseteq seen'[<<kind, k>>]
        PROVE  Entries(seen, kind, K) \subseteq Entries(seen', kind, K)
    <3> SUFFICES ASSUME NEW e \in Entries(seen, kind, K)
                 PROVE  e \in Entries(seen', kind, K)
      OBVIOUS
    <3>1. e = [key |-> e.key, value |-> e.value] /\ e.key \in K /\ e.value \in seen[<<kind, e.key>>]
      BY DEF Entries
    <3>2. e.value \in seen'[<<kind, e.key>>]
      BY <2>1, <3>1
    <3> QED
      BY <3>1, <3>2 DEF Entries
  <2> QED
    BY <1>7, <2>1
<1>9. /\ IsLru(insns', recent'.insns, Entries(seen', "insn", Heads), Heads)
      /\ IsLru(xrefs', recent'.xrefs, Entries(seen', "refs", Callee), Callee)
      /\ recent' = [insns |-> recent'.insns, xrefs |-> recent'.xrefs]
  BY <1>1, <1>8, LruGrows DEF DataInv, CachesInv
<1>10. /\ IsMemo(funcs', seen', "owner", Heads)
       /\ IsMemo(charts', seen', "chart", DOMAIN db'.chart)
  BY <1>1, <1>3, <1>7 DEF DataInv, CachesInv, IsMemo
<1>11. CachesInv'
  BY <1>9, <1>10 DEF CachesInv
<1>12. Promise!Change
  <2>1. [k \in DOMAIN seen |-> seen[k] \cup {Content(db', k)}] = seen'
    BY <1>1, <1>4 DEF DataInv, SeenInv
  <2>2. DOMAIN seen = Keys(db)
    BY DEF DataInv, SeenInv
  <2> QED
    BY <1>1, <1>3, <2>1, <2>2 DEF Promise!Change
<1> QED
  BY <1>2, <1>5, <1>11, <1>12 DEF DataInv

\* Invalidating forgets what the dropped keys have held before, and they alone.
LEMMA InvalidateStep ==
    ASSUME DataInv, Invalidate
    PROVE  DataInv' /\ Promise!Forget
<1>1. PICK keys \in {{ea} : ea \in Heads \cup Callee} \cup {Heads \cup Callee} :
         /\ Drop(keys)
         /\ recent' = [cache \in DOMAIN recent |-> Forgotten(recent[cache], keys)]
         /\ seen' = [k \in DOMAIN seen |->
                       IF k[1] \in {"insn", "refs"} /\ k[2] \in keys THEN {Content(db, k)}
                       ELSE seen[k]]
  BY DEF Invalidate
<1>2. UNCHANGED <<world, edits, db, funcs, charts, reply>>
  BY DEF Invalidate, environment
<1>3. /\ insns' = Dropped(insns, keys) /\ xrefs' = Dropped(xrefs, keys)
      /\ recent' = [insns |-> Forgotten(recent.insns, keys), xrefs |-> Forgotten(recent.xrefs, keys)]
  <2>1. recent = [insns |-> recent.insns, xrefs |-> recent.xrefs]
    BY DEF DataInv, CachesInv
  <2>2. DOMAIN recent = {"insns", "xrefs"}
    BY <2>1
  <2> QED
    BY <1>1, <2>2 DEF Drop
<1>4. /\ DOMAIN seen = Keys(db) /\ DOMAIN seen' = Keys(db)
      /\ \A k \in Keys(db) : seen'[k] \in {seen[k], {Content(db, k)}}
      /\ \A k \in Keys(db) : (k[1] \notin {"insn", "refs"} \/ k[2] \notin keys) => seen'[k] = seen[k]
  BY <1>1 DEF DataInv, SeenInv
<1>5. SeenInv'
  <2>1. Keys(db') = Keys(db) /\ UNCHANGED <<world, db>>
    BY <1>2
  <2>2. ASSUME NEW k \in Keys(db)
        PROVE  Content(db, k) \in seen'[k] /\ seen'[k] \subseteq {Content(d, k) : d \in world.dbs}
    <3>1. Content(db, k) \in seen[k] /\ seen[k] \subseteq {Content(d, k) : d \in world.dbs}
      BY DEF DataInv, SeenInv
    <3> QED
      BY <1>4, <3>1
  <2> QED
    BY <1>4, <2>1, <2>2 DEF SeenInv
<1>6. IsDatabase(db)
  BY EnvFields DEF DataInv
<1>7. /\ \A ea \in Heads : seen'[<<"owner", ea>>] = seen[<<"owner", ea>>]
      /\ \A f \in DOMAIN db.chart : seen'[<<"chart", f>>] = seen[<<"chart", f>>]
      /\ \A ea \in Heads \ keys : seen'[<<"insn", ea>>] = seen[<<"insn", ea>>]
      /\ \A c \in Callee \ keys : seen'[<<"refs", c>>] = seen[<<"refs", c>>]
  BY <1>4, <1>6, KeysHold
<1>8. ASSUME NEW kind, NEW K, K \subseteq Heads \cup Callee,
             \A k \in K \ keys : seen'[<<kind, k>>] = seen[<<kind, k>>],
             NEW cache, NEW order, IsLru(cache, order, Entries(seen, kind, K), K)
      PROVE  IsLru(Dropped(cache, keys), Forgotten(order, keys), Entries(seen', kind, K), K)
  <2> DEFINE E == Entries(seen, kind, K)
  <2>1. \A e \in E : e.key \in K
    BY EntriesMean
  <2>2. K \subseteq keys \/ \E key : keys = {key}
    BY <1>8
  <2>3. IsLru(Dropped(cache, keys), Forgotten(order, keys), {e \in E : e.key \notin keys}, K)
    <3> HIDE DEF E
    <3> QED
      BY <1>8, <2>1, <2>2, DropsKeys DEF E
  <2>4. {e \in E : e.key \notin keys} \subseteq Entries(seen', kind, K)
    BY <1>8, EntriesGrow
  <2> QED
    BY <2>3, <2>4, LruGrows
<1>9. CachesInv'
  <2>1. /\ IsLru(insns', recent'.insns, Entries(seen', "insn", Heads), Heads)
        /\ IsLru(xrefs', recent'.xrefs, Entries(seen', "refs", Callee), Callee)
    BY <1>3, <1>7, <1>8 DEF DataInv, CachesInv
  <2>2. /\ IsMemo(funcs', seen', "owner", Heads)
        /\ IsMemo(charts', seen', "chart", DOMAIN db'.chart)
    BY <1>2, <1>7 DEF DataInv, CachesInv, IsMemo
  <2>3. recent' = [insns |-> recent'.insns, xrefs |-> recent'.xrefs]
    BY <1>3
  <2> QED
    BY <2>1, <2>2, <2>3 DEF CachesInv
<1>10. Promise!Forget
  BY <1>2, <1>4 DEF Promise!Forget
<1>11. Env'
  BY <1>2 DEF DataInv, Env
<1> QED
  BY <1>5, <1>9, <1>10, <1>11 DEF DataInv

\* A read keeps the database and what its keys have held, and answers from it.
LEMMA ReadIsPromised ==
    ASSUME DataInv, Answers, UNCHANGED <<db, seen>>
    PROVE  Promise!Read
  BY DEF Promise!Read, Answers, DataInv, SeenInv

\* A read leaves the two maps and the two memos what they are.
LEMMA ReadStep ==
    ASSUME DataInv, UNCHANGED <<environment, seen>>,
           recent' = [insns |-> recent'.insns, xrefs |-> recent'.xrefs],
           IsLru(insns', recent'.insns, Entries(seen, "insn", Heads), Heads),
           IsLru(xrefs', recent'.xrefs, Entries(seen, "refs", Callee), Callee),
           IsMemo(funcs', seen, "owner", Heads), IsMemo(charts', seen, "chart", DOMAIN db.chart)
    PROVE  DataInv'
<1>1. UNCHANGED <<world, edits, db, seen>>
  BY DEF environment
<1>2. Env' /\ SeenInv'
  BY <1>1 DEF DataInv, Env, SeenInv
<1>3. CachesInv'
  BY <1>1 DEF CachesInv
<1> QED
  BY <1>2, <1>3 DEF DataInv

\* extract_calls asks for the call sites through the cache.
LEMMA ExtractCallsStep ==
    ASSUME DataInv, CallInv, ExtractCalls
    PROVE  DataInv' /\ CallInv' /\ Promise!Read
<1>1. PICK callee \in world.callees :
         LET refs == Cached(xrefs, callee, db.refs[callee])
         IN  /\ xrefs' = refs.cache
             /\ todo' = refs.value
             /\ reply' = [key |-> <<"refs", callee>>, value |-> refs.value]
             /\ recent' = [recent EXCEPT !.xrefs = Used(@, callee)]
  BY DEF ExtractCalls
<1> DEFINE refs == Cached(xrefs, callee, db.refs[callee])
           E    == Entries(seen, "refs", Callee)
<1>2. /\ UNCHANGED <<environment, insns, funcs, charts, seen>>
      /\ pc' = "site" /\ scan' = NoScan /\ named' = <<>>
  BY DEF ExtractCalls
<1>3. callee \in Callee /\ IsDatabase(db)
  BY EnvFields DEF DataInv
<1>4. /\ recent = [insns |-> recent.insns, xrefs |-> recent.xrefs]
      /\ IsLru(insns, recent.insns, Entries(seen, "insn", Heads), Heads)
      /\ IsLru(xrefs, recent.xrefs, E, Callee)
      /\ IsMemo(funcs, seen, "owner", Heads) /\ IsMemo(charts, seen, "chart", DOMAIN db.chart)
  BY DEF DataInv, CachesInv
<1>5. db.refs[callee] \in seen[<<"refs", callee>>] /\ <<"refs", callee>> \in Keys(db)
  BY <1>3, SeenKinds, KeysHold DEF DataInv
<1>6. /\ \A e \in E : e.key \in Callee /\ e.value \in seen[<<"refs", e.key>>]
      /\ [key |-> callee, value |-> db.refs[callee]] \in E
  BY <1>3, <1>5, EntriesMean
<1>7. /\ \E e \in E : e.key = callee /\ refs.value = e.value
      /\ IsLru(refs.cache, Used(recent.xrefs, callee), E, Callee)
  <2> HIDE DEF E
  <2>1. \A e \in E : e.key \in Callee
    BY <1>6
  <2>2. [key |-> callee, value |-> db.refs[callee]] \in E
    BY <1>6
  <2> QED
    BY <1>3, <1>4, <2>1, <2>2, ReadThrough
<1>8. refs.value \in seen[<<"refs", callee>>] /\ refs.value \subseteq Heads
  <2>1. refs.value \in seen[<<"refs", callee>>]
    BY <1>6, <1>7
  <2> QED
    BY <1>3, <2>1, SeenKinds DEF DataInv
<1> HIDE DEF E
<1>9. /\ xrefs' = refs.cache /\ todo' = refs.value
      /\ reply' = [key |-> <<"refs", callee>>, value |-> refs.value]
      /\ recent' = [recent EXCEPT !.xrefs = Used(@, callee)]
  BY <1>1
<1> HIDE DEF refs
<1>10. recent' = [insns |-> recent.insns, xrefs |-> Used(recent.xrefs, callee)]
  BY <1>4, <1>9
<1>11. DataInv'
  <2>1. /\ recent' = [insns |-> recent'.insns, xrefs |-> recent'.xrefs]
        /\ recent'.insns = recent.insns /\ recent'.xrefs = Used(recent.xrefs, callee)
    BY <1>10
  <2> QED
    BY <1>2, <1>4, <1>7, <1>9, <2>1, ReadStep DEF E
<1>12. CallInv'
  BY <1>2, <1>8, <1>9, NoScanIsScan, NothingYet, ScanAssumption DEF CallInv
<1>13. Answers
  BY <1>5, <1>8, <1>9 DEF Answers
<1> QED
  BY <1>2, <1>11, <1>12, <1>13, ReadIsPromised DEF environment

\* collect_push_sequence asks which function owns the call.
LEMMA BeginScanStep ==
    ASSUME DataInv, CallInv, BeginScan
    PROVE  DataInv' /\ CallInv' /\ Promise!Read
<1> DEFINE ea == Least(todo)
<1>1. /\ todo # {} /\ todo' = todo \ {ea}
      /\ funcs' = Memo(funcs, ea, db.owner[ea])
      /\ reply' = [key |-> <<"owner", ea>>, value |-> funcs'[ea]]
      /\ scan' = [call |-> ea, func |-> funcs'[ea], pushes |-> <<>>, skipped |-> 0,
                  at |-> IF funcs'[ea] = NoFunc THEN NoEa ELSE PrevHead(ea, funcs'[ea])]
      /\ pc' = "scan" /\ named' = <<>>
      /\ UNCHANGED <<environment, insns, xrefs, charts, recent, seen>>
  BY DEF BeginScan
<1>2. ea \in Heads /\ ea \in Nat
  <2>1. todo \in SUBSET Nat /\ todo \subseteq Heads
    BY SessionAssumption DEF CallInv
  <2> QED
    BY <1>1, <2>1, LeastIsLeast
<1> HIDE DEF ea
<1>3. IsDatabase(db)
  BY EnvFields DEF DataInv
<1>4. db.owner[ea] \in seen[<<"owner", ea>>] /\ <<"owner", ea>> \in Keys(db)
  BY <1>2, <1>3, SeenKinds, KeysHold DEF DataInv
<1>5. /\ recent = [insns |-> recent.insns, xrefs |-> recent.xrefs]
      /\ IsLru(insns, recent.insns, Entries(seen, "insn", Heads), Heads)
      /\ IsLru(xrefs, recent.xrefs, Entries(seen, "refs", Callee), Callee)
      /\ IsMemo(funcs, seen, "owner", Heads) /\ IsMemo(charts, seen, "chart", DOMAIN db.chart)
  BY DEF DataInv, CachesInv
<1>6. /\ IsMemo(funcs', seen, "owner", Heads)
      /\ funcs'[ea] \in seen[<<"owner", ea>>]
  BY <1>1, <1>2, <1>4, <1>5, MemoAsked
<1>7. funcs'[ea] \in Nat \cup {NoFunc}
  BY <1>2, <1>3, <1>6, SeenKinds DEF DataInv, IsDatabase
<1>8. DataInv'
  BY <1>1, <1>5, <1>6, ReadStep
<1>9. scan' \in Scans
  <2> DEFINE at   == IF funcs'[ea] = NoFunc THEN NoEa ELSE PrevHead(ea, funcs'[ea])
             func == funcs'[ea]
  <2>1. at \in Heads \cup {NoEa}
    BY <1>2, <1>3, PrevHeadIsHead
  <2>2. func \in Nat \cup {NoFunc} /\ <<>> \in Seq(Heads)
    BY <1>7
  <2>3. scan' = [call |-> ea, func |-> func, at |-> at, pushes |-> <<>>, skipped |-> 0]
    BY <1>1
  <2> HIDE DEF at, func
  <2> QED
    BY <1>2, <2>1, <2>2, <2>3 DEF Scans
<1>10. CallInv'
  <2>1. /\ scan'.pushes = <<>> /\ scan'.skipped = 0 /\ Len(<<>>) = 0
        /\ todo' \subseteq Heads
    BY <1>1 DEF CallInv
  <2> QED
    BY <1>1, <1>9, <2>1, NothingYet, ScanAssumption DEF CallInv
<1>11. Answers
  BY <1>1, <1>4, <1>6 DEF Answers
<1> QED
  BY <1>1, <1>8, <1>10, <1>11, ReadIsPromised DEF environment

\* What a read of an instruction leaves the caches.
LEMMA InsnReadStep ==
    ASSUME DataInv, NEW ea \in Heads, ReadInsn(ea), UNCHANGED <<environment, seen>>,
           IsMemo(funcs', seen, "owner", Heads)
    PROVE  DataInv' /\ Promise!Read
<1>1. IsMemo(charts', seen, "chart", DOMAIN db.chart)
  BY DEF ReadInsn, DataInv, CachesInv
<1>2. DataInv'
  BY <1>1, InsnRead, ReadStep
<1> QED
  BY <1>2, InsnRead, ReadIsPromised DEF environment

\* One round of the backward scan.
LEMMA ScanStepStep ==
    ASSUME DataInv, CallInv, ScanStep
    PROVE  DataInv' /\ CallInv' /\ Promise!Read
<1> DEFINE insn == GetInsn(scan.at).value
           back == PrevHead(scan.at, scan.func)
<1>1. /\ pc = "scan" /\ MayScan
      /\ \/ scan' = [scan EXCEPT !.at = NoEa]
         \/ scan' = [scan EXCEPT !.at = back, !.pushes = <<scan.at>> \o @]
         \/ scan' = [scan EXCEPT !.at = back, !.skipped = @ + 1]
      /\ ReadInsn(scan.at)
      /\ UNCHANGED <<environment, pc, todo, named, seen, funcs>>
  BY DEF ScanStep
<1>2. scan.at \in Heads /\ scan.at \in Nat
  BY <1>1, ReadsHead, SessionAssumption DEF MayScan
<1>3. IsMemo(funcs', seen, "owner", Heads)
  BY <1>1 DEF DataInv, CachesInv
<1>4. DataInv' /\ Promise!Read
  BY <1>1, <1>2, <1>3, InsnReadStep
<1>5. back \in Heads \cup {NoEa}
  BY <1>2, PrevHeadIsHead, EnvFields DEF DataInv
<1> HIDE DEF back
<1> DEFINE longer == <<scan.at>> \o scan.pushes
<1>6. longer \in Seq(Heads) /\ Len(longer) = Len(scan.pushes) + 1
  BY <1>2, ScanFields
<1>7. Len(scan.pushes) < MaxPushes /\ scan.skipped < MaxSkips
  BY <1>1 DEF MayScan
<1> HIDE DEF longer
<1>8. /\ scan' \in Scans
      /\ Len(scan'.pushes) <= MaxPushes /\ scan'.skipped <= MaxSkips
  <2>1. CASE scan' = [scan EXCEPT !.at = NoEa]
    <3>1. scan' = [call |-> scan.call, func |-> scan.func, at |-> NoEa, pushes |-> scan.pushes,
                   skipped |-> scan.skipped]
      BY <2>1, ScanFields
    <3> QED
      BY <1>7, <3>1, ScanFields, ScanAssumption DEF Scans
  <2>2. CASE scan' = [scan EXCEPT !.at = back, !.pushes = <<scan.at>> \o @]
    <3>1. scan' = [call |-> scan.call, func |-> scan.func, at |-> back, pushes |-> longer,
                   skipped |-> scan.skipped]
      BY <2>2, ScanFields DEF longer
    <3> QED
      BY <1>5, <1>6, <1>7, <3>1, ScanFields, ScanAssumption DEF Scans
  <2>3. CASE scan' = [scan EXCEPT !.at = back, !.skipped = @ + 1]
    <3>1. scan' = [call |-> scan.call, func |-> scan.func, at |-> back, pushes |-> scan.pushes,
                   skipped |-> scan.skipped + 1]
      BY <2>3, ScanFields
    <3> QED
      BY <1>5, <1>7, <3>1, ScanFields, ScanAssumption DEF Scans
  <2> QED
    BY <1>1, <2>1, <2>2, <2>3
<1>9. named = <<>> /\ Len(named) = 0 /\ Len(scan'.pushes) \in Nat
  <2>1. scan'.pushes \in Seq(Heads)
    BY <1>8 DEF Scans
  <2> QED
    BY <1>1, <2>1 DEF CallInv
<1>10. CallInv'
  BY <1>1, <1>8, <1>9 DEF CallInv
<1> QED
  BY <1>4, <1>10

\* Interpreting a push reads it again and asks which function owns it.
LEMMA InterpretStep ==
    ASSUME DataInv, CallInv, Interpret
    PROVE  DataInv' /\ CallInv' /\ Promise!Read
<1> DEFINE ea == scan.pushes[Len(named) + 1]
           insn == GetInsn(ea).value
<1>1. /\ pc = "interpret" /\ Len(named) < Len(scan.pushes)
      /\ ReadInsn(ea)
      /\ funcs' = IF insn = NoInsn THEN funcs ELSE Memo(funcs, ea, db.owner[ea])
      /\ named' = Append(named, Outcome(insn))
      /\ UNCHANGED <<environment, pc, todo, scan, seen>>
  BY DEF Interpret
<1>2. ea \in Heads
  BY <1>1, ReadsHead
<1> HIDE DEF ea
<1>3. IsMemo(funcs, seen, "owner", Heads)
  BY DEF DataInv, CachesInv
<1>4. IsMemo(funcs', seen, "owner", Heads)
  <2>1. db.owner[ea] \in seen[<<"owner", ea>>]
    BY <1>2, SeenKinds DEF DataInv
  <2>2. IsMemo(Memo(funcs, ea, db.owner[ea]), seen, "owner", Heads)
    BY <1>2, <1>3, <2>1, MemoAsked
  <2> QED
    BY <1>1, <1>3, <2>2
<1>5. DataInv' /\ Promise!Read
  BY <1>1, <1>2, <1>4, InsnReadStep
<1>6. IsGrowing(named') /\ Len(named') <= Len(scan.pushes)
  <2>1. IsGrowing(named) /\ Len(named) \in Nat
    BY Places DEF CallInv
  <2>2. IsGrowing(named') /\ Len(named') = Len(named) + 1
    BY <1>1, <2>1, Growing
  <2> QED
    BY <1>1, <2>1, <2>2, ScanFields
<1>7. CallInv'
  BY <1>1, <1>6 DEF CallInv
<1> QED
  BY <1>5, <1>7

\* A register query asks for its function, and for that function's chart.
LEMMA BeginQueryStep ==
    ASSUME DataInv, CallInv, BeginQuery
    PROVE  DataInv' /\ CallInv' /\ Promise!Read
<1>1. PICK ea \in world.queries :
         LET func == Memo(funcs, ea, db.owner[ea])[ea]
         IN  /\ funcs' = Memo(funcs, ea, db.owner[ea])
             /\ IF func = NoFunc
                  THEN /\ reply' = [key |-> <<"owner", ea>>, value |-> func]
                       /\ scan' = NoScan
                       /\ UNCHANGED <<charts, pc>>
                  ELSE /\ charts' = Memo(charts, func, db.chart[func])
                       /\ reply' = [key |-> <<"chart", func>>, value |-> charts'[func]]
                       /\ LET around == BlocksAround(charts'[func], ea)
                              start  == IF around = {} THEN func ELSE Least(around)
                          IN  scan' = [NoScan EXCEPT !.call = ea, !.func = start,
                                                     !.at = PrevHead(ea, start)]
                       /\ pc' = "walk"
  BY DEF BeginQuery
<1>2. /\ pc = "idle" /\ named' = <<>>
      /\ UNCHANGED <<environment, insns, xrefs, recent, todo, seen>>
  BY DEF BeginQuery
<1>3. IsDatabase(db) /\ ea \in Heads /\ ea \in Nat
  BY EnvFields, SessionAssumption DEF DataInv
<1> DEFINE func == Memo(funcs, ea, db.owner[ea])[ea]
<1>4. /\ recent = [insns |-> recent.insns, xrefs |-> recent.xrefs]
      /\ IsLru(insns, recent.insns, Entries(seen, "insn", Heads), Heads)
      /\ IsLru(xrefs, recent.xrefs, Entries(seen, "refs", Callee), Callee)
      /\ IsMemo(funcs, seen, "owner", Heads) /\ IsMemo(charts, seen, "chart", DOMAIN db.chart)
  BY DEF DataInv, CachesInv
<1>5. /\ db.owner[ea] \in seen[<<"owner", ea>>] /\ <<"owner", ea>> \in Keys(db)
      /\ seen[<<"owner", ea>>] \subseteq DOMAIN db.chart \cup {NoFunc}
  BY <1>3, SeenKinds, KeysHold DEF DataInv
<1>6. /\ funcs' = Memo(funcs, ea, db.owner[ea]) /\ funcs'[ea] = func
      /\ IsMemo(funcs', seen, "owner", Heads) /\ ea \in DOMAIN funcs'
      /\ func \in seen[<<"owner", ea>>] /\ func \in DOMAIN db.chart \cup {NoFunc}
  <2> DEFINE f == Memo(funcs, ea, db.owner[ea])
  <2>1. funcs' = f
    BY <1>1
  <2>2. IsMemo(f, seen, "owner", Heads) /\ f[ea] \in seen[<<"owner", ea>>]
    BY <1>3, <1>4, <1>5, MemoAsked
  <2>3. ea \in DOMAIN f
    BY DEF Memo
  <2> QED
    BY <1>5, <2>1, <2>2, <2>3
<1>7. CASE func = NoFunc
  <2>1. /\ reply' = [key |-> <<"owner", ea>>, value |-> func]
        /\ scan' = NoScan /\ UNCHANGED <<charts, pc>>
    BY <1>1, <1>7
  <2>2. DataInv'
    BY <1>2, <1>4, <1>6, <2>1, ReadStep
  <2>3. CallInv'
    BY <1>2, <2>1, NoScanIsScan, NothingYet, ScanAssumption DEF CallInv
  <2>4. Answers
    BY <1>5, <1>6, <2>1 DEF Answers
  <2> QED
    BY <1>2, <2>2, <2>3, <2>4, ReadIsPromised DEF environment
<1>8. CASE func # NoFunc
  <2> DEFINE around == BlocksAround(charts'[func], ea)
             start  == IF around = {} THEN func ELSE Least(around)
  <2>1. /\ charts' = Memo(charts, func, db.chart[func])
        /\ reply' = [key |-> <<"chart", func>>, value |-> charts'[func]]
        /\ scan' = [NoScan EXCEPT !.call = ea, !.func = start, !.at = PrevHead(ea, start)]
        /\ pc' = "walk"
    BY <1>1, <1>8
  <2>2. func \in DOMAIN db.chart /\ func \in Nat
    BY <1>3, <1>6, <1>8 DEF IsDatabase
  <2> HIDE DEF func
  <2>3. /\ db.chart[func] \in seen[<<"chart", func>>] /\ <<"chart", func>> \in Keys(db)
        /\ \A chart \in seen[<<"chart", func>>] : DOMAIN chart \subseteq Nat
    BY <1>3, <2>2, SeenKinds, KeysHold DEF DataInv
  <2>4. /\ IsMemo(charts', seen, "chart", DOMAIN db.chart) /\ func \in DOMAIN charts'
        /\ charts'[func] \in seen[<<"chart", func>>]
    <3> DEFINE f == Memo(charts, func, db.chart[func])
    <3>1. IsMemo(f, seen, "chart", DOMAIN db.chart) /\ f[func] \in seen[<<"chart", func>>]
      BY <1>4, <2>2, <2>3, MemoAsked
    <3>2. func \in DOMAIN f
      BY DEF Memo
    <3> QED
      BY <2>1, <3>1, <3>2
  <2>5. DataInv'
    BY <1>2, <1>4, <1>6, <2>4, ReadStep
  <2>6. start \in Nat
    <3>1. around \in SUBSET Nat
      BY <2>3, <2>4 DEF BlocksAround
    <3> HIDE DEF around
    <3>2. around # {} => Least(around) \in Nat
      BY <3>1, LeastIsLeast
    <3> QED
      BY <2>2, <3>2
  <2> HIDE DEF start
  <2>7. PrevHead(ea, start) \in Heads \cup {NoEa}
    BY <1>3, PrevHeadIsHead
  <2>8. /\ <<>> \in Seq(Heads) /\ Len(<<>>) = 0
        /\ scan' = [call |-> ea, func |-> start, at |-> PrevHead(ea, start), pushes |-> <<>>,
                    skipped |-> 0]
    <3> DEFINE back == PrevHead(ea, start)
    <3>1. scan' = [NoScan EXCEPT !.call = ea, !.func = start, !.at = back]
      BY <2>1
    <3> HIDE DEF back
    <3>2. scan' = [call |-> ea, func |-> start, at |-> back, pushes |-> <<>>, skipped |-> 0]
      BY <3>1 DEF NoScan
    <3> QED
      BY <3>2 DEF back
  <2>9. CallInv'
    <3>1. /\ scan' \in Scans /\ scan'.pushes = <<>> /\ scan'.skipped = 0 /\ scan'.call = ea
      BY <1>3, <2>6, <2>7, <2>8 DEF Scans
    <3>2. funcs'[ea] \in DOMAIN charts'
      BY <1>6, <2>4 DEF func
    <3> QED
      BY <1>2, <1>6, <2>1, <2>8, <3>1, <3>2, NothingYet, ScanAssumption, SessionAssumption
         DEF CallInv
  <2>10. Answers
    BY <2>1, <2>3, <2>4 DEF Answers
  <2> QED
    BY <1>2, <2>5, <2>9, <2>10, ReadIsPromised DEF environment
<1> QED
  BY <1>7, <1>8

\* A walk reads one instruction backwards, or ends.
LEMMA WalkStepStep ==
    ASSUME DataInv, CallInv, WalkStep
    PROVE  DataInv' /\ CallInv' /\ Promise!Read
<1> DEFINE back == PrevHead(scan.at, scan.func)
<1>1. /\ pc = "walk" /\ scan.at # NoEa /\ ReadInsn(scan.at)
      /\ \/ scan' = [scan EXCEPT !.at = back] /\ pc' = "walk"
         \/ scan' = NoScan /\ pc' = "idle"
      /\ UNCHANGED <<environment, funcs, todo, named, seen>>
  BY DEF WalkStep
<1>2. scan.at \in Heads /\ scan.at \in Nat
  BY <1>1, ReadsHead, SessionAssumption
<1>3. IsMemo(funcs', seen, "owner", Heads)
  BY <1>1 DEF DataInv, CachesInv
<1>4. DataInv' /\ Promise!Read
  BY <1>1, <1>2, <1>3, InsnReadStep
<1>5. back \in Heads \cup {NoEa}
  BY <1>2, PrevHeadIsHead, EnvFields DEF DataInv
<1> HIDE DEF back
<1>6. CASE scan' = [scan EXCEPT !.at = back] /\ pc' = "walk"
  <2>1. scan' = [call |-> scan.call, func |-> scan.func, at |-> back, pushes |-> scan.pushes,
                 skipped |-> scan.skipped]
    BY <1>6, ScanFields
  <2>2. scan' \in Scans /\ scan'.pushes = scan.pushes /\ scan'.skipped = scan.skipped
        /\ scan'.call = scan.call
    BY <1>5, <2>1, ScanFields DEF Scans
  <2>3. UNCHANGED charts
    BY <1>1 DEF ReadInsn
  <2> QED
    BY <1>1, <1>4, <1>6, <2>2, <2>3 DEF CallInv
<1>7. CASE scan' = NoScan /\ pc' = "idle"
  <2>1. named' = <<>>
    BY <1>1 DEF CallInv
  <2> QED
    BY <1>1, <1>4, <1>7, <2>1, NoScanIsScan, NothingYet, ScanAssumption DEF CallInv
<1> QED
  BY <1>1, <1>6, <1>7

\* A walk that goes on in another block reads on before the end of that block.
LEMMA EnterBlockStep ==
    ASSUME DataInv, CallInv, EnterBlock
    PROVE  DataInv' /\ CallInv' /\ UNCHANGED Promise!vars
<1> DEFINE chart == charts[funcs[scan.call]]
<1>1. PICK b \in DOMAIN chart :
         scan' = [scan EXCEPT !.func = b, !.at = PrevHead(chart[b], b), !.skipped = @ + 1]
  BY DEF EnterBlock
<1>2. /\ pc = "walk" /\ scan.skipped < MaxBlocks
      /\ UNCHANGED <<environment, caches, pc, todo, named, reply, seen>>
  BY DEF EnterBlock
<1>3. Quiet /\ UNCHANGED Promise!vars
  BY <1>2 DEF Quiet, environment, caches, Promise!vars
<1>4. b \in Nat /\ chart[b] \in Nat
  <2>1. scan.call \in DOMAIN funcs /\ funcs[scan.call] \in DOMAIN charts
    BY <1>2 DEF CallInv
  <2>2. funcs[scan.call] \in DOMAIN db.chart /\ chart \in seen[<<"chart", funcs[scan.call]>>]
    BY <2>1 DEF DataInv, CachesInv, IsMemo
  <2> QED
    BY <2>2, SeenKinds DEF DataInv
<1> DEFINE end  == chart[b]
           back == PrevHead(chart[b], b)
<1>5. back \in Heads \cup {NoEa}
  BY <1>4, PrevHeadIsHead, EnvFields DEF DataInv
<1>6. scan' = [scan EXCEPT !.func = b, !.at = back, !.skipped = @ + 1]
  BY <1>1
<1> HIDE DEF chart, back
<1>7. scan' = [call |-> scan.call, func |-> b, at |-> back, pushes |-> scan.pushes,
               skipped |-> scan.skipped + 1]
  BY <1>6, ScanFields
<1>8. scan' \in Scans
  BY <1>4, <1>5, <1>7, ScanFields DEF Scans
<1>9. scan'.skipped <= MaxBlocks
  BY <1>2, <1>7, ScanFields, SessionAssumption
<1>10. UNCHANGED <<funcs, charts, pc, todo, named>>
  BY <1>2 DEF caches
<1>11. CallInv'
  BY <1>2, <1>7, <1>8, <1>9, <1>10 DEF CallInv
<1> QED
  BY <1>3, <1>11, QuietStep

\* Between two calls nothing is under way.
LEMMA AtRest ==
    ASSUME CallInv, UNCHANGED todo, scan' = NoScan, named' = <<>>, pc' = "idle"
    PROVE  CallInv'
  BY NoScanIsScan, NothingYet, ScanAssumption DEF CallInv

\* The steps that only move the program on change no cache, and answer nothing.
LEMMA MovesOnStep ==
    ASSUME DataInv, CallInv,
           EndScan \/ EndSite \/ Return \/ EndQuery \/ UserRegisters
    PROVE  DataInv' /\ CallInv' /\ UNCHANGED Promise!vars
<1>1. Quiet /\ UNCHANGED Promise!vars /\ UNCHANGED todo
  BY DEF EndScan, EndSite, Return, EndQuery, UserRegisters, Quiet, environment, caches, call,
         Promise!vars
<1>2. DataInv'
  BY <1>1, QuietStep
<1>3. CASE EndScan \/ EndSite \/ Return
  <2>1. /\ pc \in {"scan", "interpret", "site"} /\ pc' \in {"interpret", "site", "idle"}
        /\ UNCHANGED <<todo, scan, named>>
    BY <1>3 DEF EndScan, EndSite, Return, call
  <2> QED
    BY <1>1, <1>2, <2>1 DEF CallInv
<1>4. CASE EndQuery
  <2>1. named' = <<>> /\ scan' = NoScan /\ pc' = "idle"
    BY <1>4 DEF EndQuery, CallInv
  <2> QED
    BY <1>1, <1>2, <2>1, AtRest
<1>5. CASE UserRegisters
  <2>1. named' = <<>> /\ scan' = NoScan /\ pc' = "idle"
    BY <1>5 DEF UserRegisters
  <2> QED
    BY <1>1, <1>2, <2>1, AtRest
<1> QED
  BY <1>1, <1>2, <1>3, <1>4, <1>5

\* Changes and invalidations come between two calls.
LEMMA BetweenCallsStep ==
    ASSUME CallInv, Edit \/ Invalidate
    PROVE  CallInv'
<1>1. named' = <<>> /\ scan' = NoScan /\ pc' = "idle" /\ UNCHANGED todo
  BY DEF Edit, Invalidate
<1> QED
  BY <1>1, AtRest

\* Every step of the session keeps the invariant and is one StaleReads allows.
LEMMA EveryStep ==
    ASSUME DataInv, CallInv, [Next]_vars
    PROVE  /\ DataInv' /\ CallInv'
           /\ Promise!Change \/ Promise!Forget \/ Promise!Read \/ UNCHANGED Promise!vars
<1>1. CASE UNCHANGED vars
  <2>1. Quiet /\ UNCHANGED Promise!vars /\ UNCHANGED <<pc, todo, scan, named>>
    BY <1>1 DEF vars, environment, caches, call, Quiet, Promise!vars
  <2>2. CallInv'
    BY <2>1 DEF CallInv, Quiet
  <2> QED
    BY <2>1, <2>2, QuietStep
<1>2. CASE Edit
  BY <1>2, EditStep, BetweenCallsStep
<1>3. CASE Invalidate
  BY <1>3, InvalidateStep, BetweenCallsStep
<1>4. CASE UserRegisters \/ EndScan \/ EndSite \/ Return \/ EndQuery
  BY <1>4, MovesOnStep
<1>5. CASE ExtractCalls
  BY <1>5, ExtractCallsStep
<1>6. CASE BeginQuery
  BY <1>6, BeginQueryStep
<1>7. CASE BeginScan
  BY <1>7, BeginScanStep
<1>8. CASE ScanStep
  BY <1>8, ScanStepStep
<1>9. CASE Interpret
  BY <1>9, InterpretStep
<1>10. CASE WalkStep
  BY <1>10, WalkStepStep
<1>11. CASE EnterBlock
  BY <1>11, EnterBlockStep
<1> QED
  BY <1>1, <1>2, <1>3, <1>4, <1>5, <1>6, <1>7, <1>8, <1>9, <1>10, <1>11 DEF Next, Internal

\* The session begins with empty caches.
LEMMA InitHolds ==
    ASSUME Init
    PROVE  DataInv /\ CallInv /\ Promise!Init
<1>1. /\ world \in Worlds /\ db \in world.dbs /\ edits = 0
      /\ insns = <<>> /\ xrefs = <<>> /\ funcs = <<>> /\ charts = <<>>
      /\ pc = "idle" /\ todo = {} /\ scan = NoScan /\ named = <<>>
      /\ seen = [k \in Keys(db) |-> {Content(db, k)}]
      /\ recent = [insns |-> <<>>, xrefs |-> <<>>]
  BY DEF Init
<1>2. Env
  BY <1>1, SessionAssumption DEF Env
<1>3. SeenInv
  BY <1>1 DEF SeenInv
<1>4. \A E, K : IsLru(<<>>, <<>>, E, K)
  BY NothingYet, SessionAssumption DEF IsLru, IsRecentPart, Distinct
<1>5. \A s, kind, K : IsMemo(<<>>, s, kind, K)
  BY NothingYet DEF IsMemo
<1>6. CachesInv
  BY <1>1, <1>4, <1>5 DEF CachesInv
<1>7. CallInv
  BY <1>1, NoScanIsScan, NothingYet, ScanAssumption DEF CallInv
<1>8. Promise!Init
  BY <1>1 DEF Promise!Init
<1> QED
  BY <1>2, <1>3, <1>6, <1>7, <1>8 DEF DataInv

-----------------------------------------------------------------------------
(* The locators, and their order *)

\* A locator put in at a place moves the later ones by one.
LEMMA PutIn ==
    ASSUME NEW s \in Seq(AnyLocator), NEW e \in AnyLocator, NEW at \in 1..(Len(s) + 1)
    PROVE  /\ InsertAt(s, at, e) \in Seq(AnyLocator) /\ Len(InsertAt(s, at, e)) = Len(s) + 1
           /\ DOMAIN InsertAt(s, at, e) = 1..(Len(s) + 1)
           /\ \A n \in 1..(at - 1) : InsertAt(s, at, e)[n] = s[n]
           /\ InsertAt(s, at, e)[at] = e
           /\ \A n \in (at + 1)..(Len(s) + 1) : InsertAt(s, at, e)[n] = s[n - 1]
<1> DEFINE front == SubSeq(s, 1, at - 1)
           back  == SubSeq(s, at, Len(s))
<1>1. /\ front \in Seq(AnyLocator) /\ Len(front) = at - 1 /\ \A n \in 1..(at - 1) : front[n] = s[n]
  OBVIOUS
<1>2. /\ back \in Seq(AnyLocator) /\ Len(back) = Len(s) + 1 - at
      /\ \A n \in 1..(Len(s) + 1 - at) : back[n] = s[n + at - 1]
  OBVIOUS
<1>3. InsertAt(s, at, e) = front \o <<e>> \o back
  BY DEF InsertAt
<1> HIDE DEF front, back
<1> DEFINE head == front \o <<e>>
<1>4. /\ head \in Seq(AnyLocator) /\ Len(head) = at /\ head[at] = e
      /\ \A n \in 1..(at - 1) : head[n] = s[n]
  BY <1>1
<1> HIDE DEF head
<1> DEFINE r == head \o back
<1>5. /\ r \in Seq(AnyLocator) /\ Len(r) = Len(s) + 1 /\ DOMAIN r = 1..(Len(s) + 1)
      /\ \A n \in 1..at : r[n] = head[n]
  <2>1. /\ r \in Seq(AnyLocator) /\ Len(r) = Len(head) + Len(back)
        /\ \A n \in 1..Len(head) : r[n] = head[n]
    BY <1>2, <1>4
  <2>2. Len(head) + Len(back) = Len(s) + 1
    BY <1>2, <1>4
  <2> HIDE DEF r
  <2> QED
    BY <1>4, <2>1, <2>2
<1>6. ASSUME NEW n \in (at + 1)..(Len(s) + 1)
      PROVE  r[n] = s[n - 1]
  <2>1. n - at \in 1..(Len(s) + 1 - at) /\ r[n] = back[n - at]
    BY <1>2, <1>4
  <2>2. back[n - at] = s[(n - at) + at - 1]
    BY <1>2, <2>1
  <2> QED
    BY <2>1, <2>2
<1> HIDE DEF r
<1>7. InsertAt(s, at, e) = r
  BY <1>3 DEF head, r
<1> QED
  BY <1>4, <1>5, <1>6, <1>7

\* The registry is what was registered, each locator where its priority and its
\* turn put it.
InOrder(place) ==
    /\ place \in [DOMAIN registry -> DOMAIN registered]
    /\ \A k \in DOMAIN registered : \E n \in DOMAIN registry : place[n] = k
    /\ \A n \in DOMAIN registry : registry[n] = registered[place[n]]
    /\ \A m, n \in DOMAIN registry : m < n => Preferred(place[m], place[n])
RegistryInv ==
    /\ registry \in Seq(AnyLocator) /\ registered \in Seq(AnyLocator)
    /\ Len(registry) = Len(registered)
    /\ \E place : InOrder(place)

\* The built-in locators come in their order.
LEMMA BuiltInInOrder ==
    ASSUME Init
    PROVE  RegistryInv
<1>1. registry = BuiltIn /\ registered = BuiltIn /\ BuiltIn \in Seq(AnyLocator)
  BY SessionAssumption DEF Init
<1> DEFINE place == [n \in DOMAIN registry |-> n]
<1>2. ASSUME NEW m \in DOMAIN registry, NEW n \in DOMAIN registry, m < n
      PROVE  Preferred(place[m], place[n])
  <2>1. BuiltIn[m].priority >= BuiltIn[n].priority
    BY <1>1, <1>2, SessionAssumption
  <2>2. BuiltIn[m] \in AnyLocator /\ BuiltIn[n] \in AnyLocator /\ m \in Nat /\ n \in Nat
    BY <1>1
  <2>3. BuiltIn[m].priority \in Int /\ BuiltIn[n].priority \in Int
    BY <2>2 DEF AnyLocator
  <2> QED
    BY <1>1, <1>2, <2>1, <2>2, <2>3 DEF Preferred
<1>3. InOrder(place)
  BY <1>1, <1>2 DEF InOrder
<1> QED
  BY <1>1, <1>3 DEF RegistryInv

\* Registering puts the locator behind those of its priority, and before those
\* of a lower one.
LEMMA RegisterKeepsOrder ==
    ASSUME RegistryInv, NEW locator \in AnyLocator,
           Register(locator), registered' = Append(registered, locator)
    PROVE  RegistryInv'
<1> DEFINE below == {n \in DOMAIN registry : registry[n].priority < locator.priority}
<1>1. PICK size \in Nat :
         /\ registry \in Seq(AnyLocator) /\ registered \in Seq(AnyLocator)
         /\ Len(registry) = size /\ Len(registered) = size
         /\ DOMAIN registry = 1..size /\ DOMAIN registered = 1..size
  BY DEF RegistryInv
<1>2. PICK place : InOrder(place)
  BY DEF RegistryInv
<1>3. PICK at : at = IF below = {} THEN size + 1 ELSE Least(below)
  OBVIOUS
<1>4. /\ registry' = InsertAt(registry, at, locator)
      /\ at \in 1..(size + 1)
      /\ \A n \in 1..size : n < at => n \notin below
      /\ at <= size => at \in below
  <2>1. below \in SUBSET Nat /\ below \subseteq 1..size
    BY <1>1
  <2>2. registry' = InsertAt(registry, at, locator)
    BY <1>1, <1>3 DEF Register
  <2> HIDE DEF below
  <2>3. CASE below = {}
    BY <1>3, <2>1, <2>2, <2>3
  <2>4. CASE below # {}
    <3>1. at \in below /\ \A j \in below : at <= j
      BY <1>3, <2>1, <2>4, LeastIsLeast
    <3>2. at \in 1..size /\ \A n \in below : n \in 1..size
      BY <2>1, <3>1
    <3> QED
      BY <2>2, <3>1, <3>2
  <2> QED
    BY <2>3, <2>4
<1>5. /\ \A n \in 1..size : registry[n].priority \in Int /\ registered[n].priority \in Int
      /\ locator.priority \in Int
  <2>1. \A n \in 1..size : registry[n] \in AnyLocator /\ registered[n] \in AnyLocator
    BY <1>1
  <2> QED
    BY <2>1 DEF AnyLocator
<1>6. \A m, n \in 1..size : m < n => registry[m].priority >= registry[n].priority
  <2> SUFFICES ASSUME NEW m \in 1..size, NEW n \in 1..size, m < n
               PROVE  registry[m].priority >= registry[n].priority
    OBVIOUS
  <2>1. /\ Preferred(place[m], place[n])
        /\ registry[m] = registered[place[m]] /\ registry[n] = registered[place[n]]
    BY <1>1, <1>2 DEF InOrder
  <2> QED
    BY <1>1, <1>5, <2>1 DEF Preferred
<1>7. \A n \in 1..size : /\ n < at => registry[n].priority >= locator.priority
                         /\ n >= at => registry[n].priority < locator.priority
  <2> SUFFICES ASSUME NEW n \in 1..size
               PROVE  /\ n < at => registry[n].priority >= locator.priority
                      /\ n >= at => registry[n].priority < locator.priority
    OBVIOUS
  <2>1. ASSUME n < at
        PROVE  registry[n].priority >= locator.priority
    <3>1. ~(registry[n].priority < locator.priority)
      BY <1>1, <1>4, <2>1
    <3> QED
      BY <1>5, <3>1
  <2>2. ASSUME n >= at
        PROVE  registry[n].priority < locator.priority
    <3>1. at \in 1..size /\ registry[at].priority < locator.priority
      BY <1>1, <1>4, <2>2
    <3>2. n = at \/ registry[at].priority >= registry[n].priority
      BY <1>6, <2>2, <3>1
    <3> QED
      BY <1>1, <1>5, <3>1, <3>2
  <2> QED
    BY <2>1, <2>2
<1> HIDE DEF below
<1>8. /\ registry' \in Seq(AnyLocator) /\ Len(registry') = size + 1 /\ DOMAIN registry' = 1..(size + 1)
      /\ \A n \in 1..(at - 1) : registry'[n] = registry[n]
      /\ registry'[at] = locator
      /\ \A n \in (at + 1)..(size + 1) : registry'[n] = registry[n - 1]
  <2>1. at \in 1..(Len(registry) + 1)
    BY <1>1, <1>4
  <2> DEFINE r == InsertAt(registry, at, locator)
  <2>2. registry \in Seq(AnyLocator)
    BY <1>1
  <2>3. /\ r \in Seq(AnyLocator) /\ Len(r) = Len(registry) + 1
        /\ DOMAIN r = 1..(Len(registry) + 1)
        /\ \A n \in 1..(at - 1) : r[n] = registry[n]
        /\ r[at] = locator
        /\ \A n \in (at + 1)..(Len(registry) + 1) : r[n] = registry[n - 1]
    BY <2>1, <2>2, PutIn
  <2> HIDE DEF r
  <2> QED
    BY <1>1, <1>4, <2>3 DEF r
<1>9. /\ registered' \in Seq(AnyLocator) /\ Len(registered') = size + 1
      /\ DOMAIN registered' = 1..(size + 1) /\ registered'[size + 1] = locator
      /\ \A n \in 1..size : registered'[n] = registered[n]
  BY <1>1
<1> PICK moved : moved = [n \in 1..(size + 1) |-> IF n < at THEN place[n]
                                            ELSE IF n = at THEN size + 1 ELSE place[n - 1]]
  OBVIOUS
<1>10. /\ place \in [1..size -> 1..size]
       /\ \A k \in 1..size : \E n \in 1..size : place[n] = k
       /\ \A n \in 1..size : registry[n] = registered[place[n]]
       /\ \A m, n \in 1..size : m < n => Preferred(place[m], place[n])
  BY <1>1, <1>2 DEF InOrder
<1>11. /\ \A n \in 1..(size + 1) : n < at => n \in 1..size /\ moved[n] = place[n]
       /\ moved[at] = size + 1
       /\ \A n \in 1..(size + 1) : n > at => n - 1 \in 1..size /\ moved[n] = place[n - 1]
       /\ \A n \in 1..(size + 1) : n < at \/ n = at \/ n > at
       /\ DOMAIN moved = 1..(size + 1) /\ at \in 1..(size + 1)
  BY <1>1, <1>4
<1>12. /\ \A n \in 1..(size + 1) : moved[n] \in 1..(size + 1)
       /\ \A k \in 1..size : k \in 1..(size + 1) /\ k + 1 \in 1..(size + 1)
       /\ size + 1 \in 1..(size + 1)
  <2>1. \A k \in 1..size : k \in 1..(size + 1) /\ k + 1 \in 1..(size + 1)
    BY <1>1
  <2>2. size + 1 \in 1..(size + 1)
    BY <1>1
  <2>3. \A k \in 1..size : place[k] \in 1..size
    BY <1>10
  <2> QED
    BY <1>11, <2>1, <2>2, <2>3
<1>13. ASSUME NEW k \in 1..(size + 1)
       PROVE  \E n \in 1..(size + 1) : moved[n] = k
  <2>1. CASE k = size + 1
    BY <1>11, <2>1
  <2>2. CASE k # size + 1
    <3>1. size \in Nat /\ k \in 1..size
      BY <1>1, <2>2
    <3>2. PICK n \in 1..size : place[n] = k
      BY <1>10, <3>1
    <3>3. CASE n < at
      <4>1. n \in 1..(size + 1)
        BY <3>1
      <4> QED
        BY <1>11, <3>2, <3>3, <4>1
    <3>4. CASE ~(n < at)
      <4>1. n + 1 \in 1..(size + 1) /\ n + 1 > at /\ (n + 1) - 1 = n
        BY <1>4, <3>1, <3>4
      <4> QED
        BY <1>11, <3>2, <4>1
    <3> QED
      BY <3>3, <3>4
  <2> QED
    BY <2>1, <2>2
<1>14. ASSUME NEW n \in 1..(size + 1)
       PROVE  registry'[n] = registered'[moved[n]]
  <2>1. CASE n < at
    <3>1. n \in 1..size /\ n \in 1..(at - 1) /\ moved[n] = place[n]
      BY <1>1, <1>4, <1>11, <2>1
    <3>2. registry'[n] = registry[n] /\ registry[n] = registered[place[n]] /\ place[n] \in 1..size
      BY <1>8, <1>10, <3>1
    <3> QED
      BY <1>9, <3>1, <3>2
  <2>2. CASE n = at
    BY <1>8, <1>9, <1>11, <2>2
  <2>3. CASE n > at
    <3>1. n - 1 \in 1..size /\ n \in (at + 1)..(size + 1) /\ moved[n] = place[n - 1]
      BY <1>1, <1>4, <1>11, <2>3
    <3>2. /\ registry'[n] = registry[n - 1] /\ registry[n - 1] = registered[place[n - 1]]
          /\ place[n - 1] \in 1..size
      BY <1>8, <1>10, <3>1
    <3> QED
      BY <1>9, <3>1, <3>2
  <2> QED
    BY <1>11, <2>1, <2>2, <2>3
<1>15. ASSUME NEW a \in 1..size, NEW b \in 1..size, Preferred(a, b)
       PROVE  Preferred(a, b)'
  BY <1>9, <1>15 DEF Preferred
<1>16. ASSUME NEW m \in 1..(size + 1), NEW n \in 1..(size + 1), m < n
       PROVE  Preferred(moved[m], moved[n])'
  <2>0. size \in Nat /\ at \in Nat
    BY <1>1, <1>4
  <2>1. CASE n < at
    <3>1. /\ m \in 1..size /\ n \in 1..size /\ moved[m] = place[m] /\ moved[n] = place[n]
      BY <1>11, <1>16, <2>0, <2>1
    <3>2. Preferred(place[m], place[n]) /\ place[m] \in 1..size /\ place[n] \in 1..size
      BY <1>10, <1>16, <3>1
    <3> QED
      BY <1>15, <3>1, <3>2
  <2>2. CASE n = at
    <3>1. m \in 1..size /\ moved[m] = place[m] /\ moved[n] = size + 1
      BY <1>11, <1>16, <2>0, <2>2
    <3>2. place[m] \in 1..size /\ registered[place[m]] = registry[m]
      BY <1>10, <3>1
    <3>3. registered'[place[m]].priority >= registered'[size + 1].priority
      BY <1>7, <1>9, <1>16, <2>2, <3>1, <3>2
    <3>4. registered'[place[m]].priority \in Int /\ registered'[size + 1].priority \in Int
      BY <1>1, <1>5, <1>9, <3>1, <3>2
    <3>5. place[m] <= size + 1
      BY <1>1, <3>2
    <3>6. \A p, q \in Int : p >= q => p > q \/ p = q
      OBVIOUS
    <3> QED
      BY <3>1, <3>3, <3>4, <3>5, <3>6 DEF Preferred
  <2>3. CASE n > at /\ m = at
    <3>1. n - 1 \in 1..size /\ moved[n] = place[n - 1] /\ moved[m] = size + 1 /\ n - 1 >= at
      BY <1>11, <2>0, <2>3
    <3>2. place[n - 1] \in 1..size /\ registered[place[n - 1]] = registry[n - 1]
      BY <1>10, <3>1
    <3>3. registered'[size + 1].priority > registered'[place[n - 1]].priority
      <4>1. registry[n - 1].priority < locator.priority
        BY <1>7, <3>1
      <4>2. registered'[place[n - 1]] = registry[n - 1] /\ registered'[size + 1] = locator
        BY <1>9, <3>2
      <4>3. registry[n - 1].priority \in Int
        BY <1>1, <1>5, <3>1
      <4> QED
        BY <1>5, <4>1, <4>2, <4>3
    <3> QED
      BY <3>1, <3>3 DEF Preferred
  <2>4. CASE n > at /\ m < at
    <3>1. /\ m \in 1..size /\ n - 1 \in 1..size /\ moved[m] = place[m] /\ moved[n] = place[n - 1]
          /\ m < n - 1
      BY <1>11, <1>16, <2>0, <2>4
    <3>2. Preferred(place[m], place[n - 1]) /\ place[m] \in 1..size /\ place[n - 1] \in 1..size
      BY <1>10, <3>1
    <3> QED
      BY <1>15, <3>1, <3>2
  <2>5. CASE m > at
    <3>1. /\ m - 1 \in 1..size /\ n - 1 \in 1..size /\ moved[m] = place[m - 1]
          /\ moved[n] = place[n - 1] /\ m - 1 < n - 1
      BY <1>11, <1>16, <2>0, <2>5
    <3>2. Preferred(place[m - 1], place[n - 1]) /\ place[m - 1] \in 1..size /\ place[n - 1] \in 1..size
      BY <1>10, <3>1
    <3> QED
      BY <1>15, <3>1, <3>2
  <2> QED
    BY <1>11, <1>16, <2>0, <2>1, <2>2, <2>3, <2>4, <2>5
<1>17. InOrder(moved)'
  <2>1. moved \in [1..(size + 1) -> 1..(size + 1)]
    BY <1>12
  <2>2. moved \in [DOMAIN registry' -> DOMAIN registered']
    BY <1>8, <1>9, <2>1
  <2>3. \A k \in DOMAIN registered' : \E n \in DOMAIN registry' : moved[n] = k
    BY <1>8, <1>9, <1>13
  <2>4. \A n \in DOMAIN registry' : registry'[n] = registered'[moved[n]]
    BY <1>8, <1>14
  <2>5. \A m, n \in DOMAIN registry' : m < n => Preferred(moved[m], moved[n])'
    BY <1>8, <1>16
  <2> QED
    BY <2>2, <2>3, <2>4, <2>5 DEF InOrder
<1> QED
  BY <1>8, <1>9, <1>17 DEF RegistryInv

\* The other steps register nothing.
LEMMA RegistryStep ==
    ASSUME DataInv, RegistryInv, [Next]_vars
    PROVE  RegistryInv'
<1>1. CASE UserRegisters
  <2>1. PICK locator \in world.locators : Register(locator) /\ registered' = Append(registered, locator)
    BY <1>1 DEF UserRegisters
  <2>2. locator \in AnyLocator
    BY EnvFields DEF DataInv
  <2> QED
    BY <2>1, <2>2, RegisterKeepsOrder
<1>2. CASE ~UserRegisters
  <2>1. UNCHANGED <<registry, registered>>
    BY <1>2 DEF Next, Internal, vars, locators, Edit, Invalidate, ExtractCalls, BeginQuery, BeginScan,
                ScanStep, EndScan, Interpret, EndSite, Return, WalkStep, EnterBlock, EndQuery
  <2>2. PICK place : InOrder(place)
    BY DEF RegistryInv
  <2>3. ASSUME NEW a, NEW b
        PROVE  Preferred(a, b)' <=> Preferred(a, b)
    BY <2>1 DEF Preferred
  <2>4. InOrder(place)'
    BY <2>1, <2>2, <2>3 DEF InOrder
  <2> QED
    BY <2>1, <2>4 DEF RegistryInv
<1> QED
  BY <1>1, <1>2

-----------------------------------------------------------------------------
(* The theorems *)

SessionInv == DataInv /\ CallInv /\ RegistryInv

\* The invariant holds of every state of the session.
LEMMA AlwaysSessionInv == Spec => []SessionInv
<1>1. Init => SessionInv
  BY InitHolds, BuiltInInOrder DEF SessionInv
<1>2. SessionInv /\ [Next]_vars => SessionInv'
  BY EveryStep, RegistryStep DEF SessionInv
<1> QED
  BY <1>1, <1>2, PTL DEF Spec

\* Every variable holds what the code can put there.
THEOREM TypeCorrect == Spec => []TypeOK
<1>1. ASSUME SessionInv
      PROVE  TypeOK
  <2>1. /\ db \in world.dbs /\ edits \in 0..MaxEdits
        /\ IsLru(insns, recent.insns, Entries(seen, "insn", Heads), Heads)
        /\ IsLru(xrefs, recent.xrefs, Entries(seen, "refs", Callee), Callee)
        /\ DOMAIN funcs \subseteq Heads /\ DOMAIN charts \subseteq DOMAIN db.chart
    BY <1>1 DEF SessionInv, DataInv, Env, CachesInv, IsMemo
  <2>2. ASSUME NEW kind, NEW K, NEW cache, NEW order, IsLru(cache, order, Entries(seen, kind, K), K)
        PROVE  KeysOf(cache) \subseteq K /\ Len(cache) \in 0..MaxEntries
    <3>1. cache \in Seq(Entries(seen, kind, K)) /\ Len(cache) <= MaxEntries
      BY <2>2 DEF IsLru
    <3>2. \A n \in DOMAIN cache : cache[n].key \in K
      <4>1. \A n \in DOMAIN cache : cache[n] \in Entries(seen, kind, K)
        BY <3>1, ElementOf
      <4> QED
        BY <4>1, EntriesMean
    <3>3. Len(cache) \in Nat
      BY <3>1
    <3> QED
      BY <3>1, <3>2, <3>3, SessionAssumption DEF KeysOf
  <2>3. /\ pc \in {"idle", "site", "scan", "interpret", "walk"}
        /\ todo \subseteq Heads /\ scan.call \in Heads \cup {NoEa}
        /\ scan.skipped \in 0..(IF pc = "walk" THEN MaxBlocks ELSE MaxSkips)
        /\ Len(scan.pushes) \in 0..MaxPushes /\ Len(named) <= Len(scan.pushes)
    <3>1. CallInv
      BY <1>1 DEF SessionInv
    <3> QED
      BY <3>1, ScanFields, ScanAssumption, SessionAssumption DEF CallInv
  <2>4. Len(registry) = Len(registered)
    BY <1>1 DEF SessionInv, RegistryInv
  <2>5. /\ KeysOf(insns) \subseteq Heads /\ Len(insns) \in 0..MaxEntries
        /\ KeysOf(xrefs) \subseteq Callee /\ Len(xrefs) \in 0..MaxEntries
    BY <2>1, <2>2
  <2> QED
    BY <2>1, <2>3, <2>4, <2>5 DEF TypeOK
<1> QED
  BY <1>1, AlwaysSessionInv, PTL

\* insn_cache.py:52-67: whatever is read, dropped and read again, each of the two
\* maps holds the most recently used keys, each once, and at most max_entries.
THEOREM LeastRecentlyUsedGoes == Spec => []KeepsRecent
<1>1. SessionInv => KeepsRecent
  BY DEF SessionInv, DataInv, CachesInv, IsLru, KeepsRecent
<1> QED
  BY <1>1, AlwaysSessionInv, PTL

\* Every cached instruction and every cached list of call sites is, operand by
\* operand, one the program had there since it was dropped.
THEOREM CacheHoldsTheProgram == Spec => []CachedIsTrue
<1>1. ASSUME SessionInv
      PROVE  CachedIsTrue
  <2>1. ASSUME NEW kind, NEW K, NEW cache, NEW order, IsLru(cache, order, Entries(seen, kind, K), K),
               NEW n \in DOMAIN cache
        PROVE  cache[n].value \in seen[<<kind, cache[n].key>>]
    <3>1. cache \in Seq(Entries(seen, kind, K))
      BY <2>1 DEF IsLru
    <3>2. cache[n] \in Entries(seen, kind, K)
      BY <3>1, ElementOf
    <3> QED
      BY <3>2, EntriesMean
  <2>2. /\ IsLru(insns, recent.insns, Entries(seen, "insn", Heads), Heads)
        /\ IsLru(xrefs, recent.xrefs, Entries(seen, "refs", Callee), Callee)
    BY <1>1 DEF SessionInv, DataInv, CachesInv
  <2> QED
    BY <2>1, <2>2 DEF CachedIsTrue
<1> QED
  BY <1>1, AlwaysSessionInv, PTL

\* The session implements StaleReads: to every single read it answers with
\* something the database held since that key was last invalidated, however
\* changes, invalidations, evictions and calls come between.
THEOREM AnswersWithinBounds == Spec => StaleWithinBounds
<1>1. Init => Promise!Init
  BY InitHolds
<1>2. SessionInv /\ [Next]_vars => [Promise!Change \/ Promise!Forget \/ Promise!Read]_(Promise!vars)
  BY EveryStep DEF SessionInv
<1> QED
  BY <1>1, <1>2, AlwaysSessionInv, PTL DEF Spec, StaleWithinBounds, Promise!Spec

-----------------------------------------------------------------------------
(* The backward scan, step by step, against its closed form *)

\* The pushes and the other heads behind head k of a caller, and the pushes of
\* its call.
PushesBehind(c, k) == {q \in (k + 1)..Len(c) : IsPush(c[q])}
OthersBehind(c, k) == {q \in (k + 1)..Len(c) : ~IsPush(c[q])}
FoundIn(c) == {p \in DOMAIN c : IsPush(c[p]) /\ Reached(c, p)}

\* The addresses of heads.
AddressesOf(heads, order) == [n \in DOMAIN order |-> heads[order[n]]]

\* The loop has gone over the heads behind k: what it has found so far is found,
\* and it goes on at k, or has met the start of the function or a head that
\* ends the sequence.
ScannedTo(s, heads, c, k) ==
    /\ \A q \in (k + 1)..Len(c) : GoesOn(c[q])
    /\ s.skipped = Cardinality(OthersBehind(c, k))
    /\ Len(s.pushes) = Cardinality(PushesBehind(c, k))
    /\ \A p \in PushesBehind(c, k) : Reached(c, p)
    /\ s.pushes = AddressesOf(heads, Ascending(PushesBehind(c, k), Len(c)))
    /\ \/ k >= 1 /\ s.at = heads[k]
       \/ s.at = NoEa /\ (k = 0 \/ ~GoesOn(c[k]))

\* A caller in front of a call: its heads and the instructions there.
AreHeads(heads, c) ==
    heads \in Seq(Heads) /\ IsGrowing(c) /\ Len(c) = Len(heads)

\* The heads behind are finitely many.
LEMMA BehindFinite ==
    ASSUME NEW c, IsGrowing(c), NEW k \in Nat
    PROVE  /\ IsFiniteSet(PushesBehind(c, k)) /\ Cardinality(PushesBehind(c, k)) \in Nat
           /\ IsFiniteSet(OthersBehind(c, k)) /\ Cardinality(OthersBehind(c, k)) \in Nat
           /\ PushesBehind(c, k) \subseteq (k + 1)..Len(c)
           /\ OthersBehind(c, k) \subseteq (k + 1)..Len(c)
<1>1. IsFiniteSet((k + 1)..Len(c))
  <2>1. k + 1 \in Int /\ Len(c) \in Int
    BY Places
  <2> QED
    BY <2>1, FS_Interval
<1>2. /\ PushesBehind(c, k) \in SUBSET ((k + 1)..Len(c))
      /\ OthersBehind(c, k) \in SUBSET ((k + 1)..Len(c))
  BY DEF PushesBehind, OthersBehind
<1>3. IsFiniteSet(PushesBehind(c, k)) /\ IsFiniteSet(OthersBehind(c, k))
  BY <1>1, <1>2, FS_Subset
<1> QED
  BY <1>2, <1>3, FS_CardinalityType

\* Head k is the next that is behind.
LEMMA BehindNext ==
    ASSUME NEW c, IsGrowing(c), NEW k \in 1..Len(c)
    PROVE  /\ IsPush(c[k]) =>
                 /\ PushesBehind(c, k - 1) = PushesBehind(c, k) \cup {k}
                 /\ Cardinality(PushesBehind(c, k - 1)) = Cardinality(PushesBehind(c, k)) + 1
                 /\ OthersBehind(c, k - 1) = OthersBehind(c, k)
           /\ ~IsPush(c[k]) =>
                 /\ OthersBehind(c, k - 1) = OthersBehind(c, k) \cup {k}
                 /\ Cardinality(OthersBehind(c, k - 1)) = Cardinality(OthersBehind(c, k)) + 1
                 /\ PushesBehind(c, k - 1) = PushesBehind(c, k)
<1>1. Len(c) \in Nat /\ k \in Nat /\ k - 1 + 1 = k
  BY Places
<1>2. \A q : q \in k..Len(c) <=> q \in (k + 1)..Len(c) \/ q = k
  BY <1>1
<1>3. k \notin PushesBehind(c, k) /\ k \notin OthersBehind(c, k)
  BY <1>1 DEF PushesBehind, OthersBehind
<1>4. /\ IsPush(c[k]) => /\ PushesBehind(c, k - 1) = PushesBehind(c, k) \cup {k}
                         /\ OthersBehind(c, k - 1) = OthersBehind(c, k)
      /\ ~IsPush(c[k]) => /\ OthersBehind(c, k - 1) = OthersBehind(c, k) \cup {k}
                          /\ PushesBehind(c, k - 1) = PushesBehind(c, k)
  BY <1>1, <1>2 DEF PushesBehind, OthersBehind
<1>5. /\ Cardinality(PushesBehind(c, k) \cup {k}) = Cardinality(PushesBehind(c, k)) + 1
      /\ Cardinality(OthersBehind(c, k) \cup {k}) = Cardinality(OthersBehind(c, k)) + 1
  BY <1>1, <1>3, BehindFinite, FS_AddElement
<1> QED
  BY <1>4, <1>5

\* Nothing is behind the last head: so the loop begins.
LEMMA ScanBegins ==
    ASSUME NEW heads, NEW c, AreHeads(heads, c),
           NEW s, s.pushes = <<>>, s.skipped = 0,
           s.at = IF Len(heads) = 0 THEN NoEa ELSE heads[Len(heads)]
    PROVE  ScannedTo(s, heads, c, Len(c))
<1>1. Len(c) \in Nat /\ Len(heads) = Len(c)
  BY Places DEF AreHeads
<1>2. PushesBehind(c, Len(c)) = {} /\ OthersBehind(c, Len(c)) = {}
  BY <1>1 DEF PushesBehind, OthersBehind
<1>3. Cardinality({}) = 0 /\ Len(<<>>) = 0
  BY FS_EmptySet
<1>4. Ascending({}, Len(c)) = <<>>
  BY <1>1, AscendingNone
<1>5. AddressesOf(heads, <<>>) = <<>>
  BY DEF AddressesOf
<1>6. (Len(c) + 1)..Len(c) = {}
  BY <1>1
<1> QED
  BY <1>1, <1>2, <1>3, <1>4, <1>5, <1>6 DEF ScannedTo

\* One round of the loop goes over one more head.
LEMMA ScanGoesOn ==
    ASSUME NEW heads, NEW c, AreHeads(heads, c), NEW k \in 1..Len(c),
           NEW s, ScannedTo(s, heads, c, k), s.at = heads[k],
           Len(s.pushes) < MaxPushes, s.skipped < MaxSkips, GoesOn(c[k]),
           NEW t, t.at = IF k = 1 THEN NoEa ELSE heads[k - 1],
           IF IsPush(c[k]) THEN t.pushes = <<heads[k]>> \o s.pushes /\ t.skipped = s.skipped
           ELSE t.pushes = s.pushes /\ t.skipped = s.skipped + 1
    PROVE  ScannedTo(t, heads, c, k - 1)
<1>1. /\ Len(c) \in Nat /\ Len(heads) = Len(c) /\ heads \in Seq(Heads) /\ k \in Nat
      /\ DOMAIN c = 1..Len(c) /\ DOMAIN heads = 1..Len(c) /\ IsGrowing(c)
  BY Places DEF AreHeads
<1>2. \A q \in ((k - 1) + 1)..Len(c) : GoesOn(c[q])
  <2>1. \A q \in ((k - 1) + 1)..Len(c) : q = k \/ q \in (k + 1)..Len(c)
    BY <1>1
  <2> QED
    BY <2>1 DEF ScannedTo
<1>3. /\ s.skipped = Cardinality(OthersBehind(c, k))
      /\ Len(s.pushes) = Cardinality(PushesBehind(c, k))
      /\ \A p \in PushesBehind(c, k) : Reached(c, p)
      /\ s.pushes = AddressesOf(heads, Ascending(PushesBehind(c, k), Len(c)))
  BY DEF ScannedTo
<1>4. \/ k - 1 >= 1 /\ t.at = heads[k - 1]
      \/ t.at = NoEa /\ k - 1 = 0
  BY <1>1
<1>5. CASE ~IsPush(c[k])
  <2>1. /\ OthersBehind(c, k - 1) = OthersBehind(c, k) \cup {k}
        /\ Cardinality(OthersBehind(c, k - 1)) = Cardinality(OthersBehind(c, k)) + 1
        /\ PushesBehind(c, k - 1) = PushesBehind(c, k)
    BY <1>1, <1>5, BehindNext
  <2>2. t.pushes = s.pushes /\ t.skipped = s.skipped + 1
    BY <1>5
  <2> QED
    BY <1>2, <1>3, <1>4, <2>1, <2>2 DEF ScannedTo
<1>6. CASE IsPush(c[k])
  <2> DEFINE P == PushesBehind(c, k)
             order == Ascending(P, Len(c))
  <2>1. /\ PushesBehind(c, k - 1) = P \cup {k}
        /\ Cardinality(PushesBehind(c, k - 1)) = Cardinality(P) + 1
        /\ OthersBehind(c, k - 1) = OthersBehind(c, k)
    BY <1>1, <1>6, BehindNext
  <2>2. t.pushes = <<heads[k]>> \o s.pushes /\ t.skipped = s.skipped
    BY <1>6
  <2>3. Reached(c, k)
    <3>1. Cardinality(P) < MaxPushes /\ Cardinality(OthersBehind(c, k)) < MaxSkips
      BY <1>3
    <3> QED
      BY <3>1 DEF Reached, ScannedTo, PushesBehind, OthersBehind
  <2>4. Ascending(P \cup {k}, Len(c)) = <<k>> \o order
    <3>1. \A i \in P \cap (1..Len(c)) : k < i
      BY <1>1, BehindFinite
    <3> HIDE DEF P
    <3> QED
      BY <1>1, <3>1, AscendingFirst
  <2>5. order \in Seq(1..Len(c))
    <3>1. order \in Seq(P \cap (1..Len(c)))
      <4> HIDE DEF P
      <4> QED
        BY <1>1, AscendingLists
    <3> HIDE DEF order
    <3> QED
      BY <3>1
  <2> HIDE DEF order, P
  <2>6. s.pushes = AddressesOf(heads, order)
    BY <1>3 DEF P, order
  <2>7. AddressesOf(heads, <<k>> \o order) = <<heads[k]>> \o s.pushes
    <3> DEFINE longer == <<k>> \o order
               found  == AddressesOf(heads, order)
    <3>1. /\ longer \in Seq(1..Len(c)) /\ Len(longer) = Len(order) + 1 /\ Len(order) \in Nat
          /\ DOMAIN longer = 1..(Len(order) + 1) /\ DOMAIN order = 1..Len(order)
          /\ longer[1] = k /\ \A n \in 1..Len(order) : longer[n + 1] = order[n]
      BY <1>1, <2>5
    <3>2. \A n \in DOMAIN order : heads[order[n]] \in Heads
      <4>1. \A n \in DOMAIN order : order[n] \in 1..Len(c)
        BY <2>5
      <4> QED
        BY <1>1, <4>1
    <3>3. /\ found \in Seq(Heads) /\ Len(found) = Len(order)
          /\ \A n \in 1..Len(order) : found[n] = heads[order[n]]
      <4>1. found = [n \in 1..Len(order) |-> heads[order[n]]]
        BY <3>1 DEF AddressesOf
      <4>2. found \in [1..Len(order) -> Heads]
        BY <3>1, <3>2, <4>1
      <4> QED
        BY <3>1, <4>1, <4>2
    <3> HIDE DEF longer, found
    <3>4. heads[k] \in Heads
      BY <1>1
    <3> DEFINE r == <<heads[k]>> \o found
    <3>5. /\ r \in Seq(Heads) /\ Len(r) = Len(order) + 1 /\ DOMAIN r = 1..(Len(order) + 1)
          /\ r[1] = heads[k] /\ \A n \in 1..Len(order) : r[n + 1] = found[n]
      BY <3>3, <3>4
    <3> HIDE DEF r
    <3>6. ASSUME NEW n \in 1..(Len(order) + 1)
          PROVE  heads[longer[n]] = r[n]
      <4>1. CASE n = 1
        BY <3>1, <3>5, <4>1
      <4>2. CASE n # 1
        <5>1. n - 1 \in 1..Len(order) /\ (n - 1) + 1 = n
          BY <3>1, <4>2
        <5>2. longer[(n - 1) + 1] = order[n - 1]
          BY <3>1, <5>1
        <5>3. r[(n - 1) + 1] = found[n - 1] /\ found[n - 1] = heads[order[n - 1]]
          BY <3>3, <3>5, <5>1
        <5> QED
          BY <5>1, <5>2, <5>3
      <4> QED
        BY <4>1, <4>2
    <3>7. AddressesOf(heads, longer) = [n \in 1..(Len(order) + 1) |-> heads[longer[n]]]
      BY <3>1 DEF AddressesOf
    <3>8. r = [n \in 1..(Len(order) + 1) |-> r[n]]
      BY <3>5
    <3>9. AddressesOf(heads, longer) = r
      BY <3>6, <3>7, <3>8
    <3> QED
      BY <2>6, <3>9 DEF longer, found, r
  <2>8. t.pushes = AddressesOf(heads, Ascending(P \cup {k}, Len(c)))
    BY <2>2, <2>4, <2>7
  <2>9. Len(t.pushes) = Cardinality(P) + 1
    <3>1. s.pushes \in Seq(Heads)
      <4>1. \A n \in DOMAIN order : heads[order[n]] \in Heads
        <5>1. \A n \in DOMAIN order : order[n] \in 1..Len(c)
          BY <2>5
        <5> QED
          BY <1>1, <5>1
      <4>2. s.pushes = [n \in 1..Len(order) |-> heads[order[n]]] /\ Len(order) \in Nat
        BY <2>5, <2>6 DEF AddressesOf
      <4>3. s.pushes \in [1..Len(order) -> Heads]
        BY <2>5, <4>1, <4>2
      <4> QED
        BY <4>2, <4>3
    <3>2. heads[k] \in Heads
      BY <1>1
    <3>3. Len(<<heads[k]>> \o s.pushes) = Len(s.pushes) + 1
      BY <3>1, <3>2
    <3> QED
      BY <1>3, <2>2, <3>3 DEF P
  <2>10. \A p \in P \cup {k} : Reached(c, p)
    BY <1>3, <2>3 DEF P
  <2> QED
    BY <1>2, <1>3, <1>4, <2>1, <2>2, <2>8, <2>9, <2>10 DEF ScannedTo
<1> QED
  BY <1>5, <1>6

\* A round at a head that ends the sequence.
LEMMA ScanMeetsEnd ==
    ASSUME NEW heads, NEW c, AreHeads(heads, c), NEW k \in 1..Len(c),
           NEW s, ScannedTo(s, heads, c, k), ~GoesOn(c[k]),
           NEW t, t.at = NoEa, t.pushes = s.pushes, t.skipped = s.skipped
    PROVE  ScannedTo(t, heads, c, k)
  BY DEF ScannedTo

\* What the loop has found when it stops is all there is to find.
LEMMA ScanEnds ==
    ASSUME NEW heads, NEW c, AreHeads(heads, c), NEW k \in 0..Len(c),
           NEW s, ScannedTo(s, heads, c, k), s.at \in Heads \cup {NoEa},
           ~(s.at # NoEa /\ Len(s.pushes) < MaxPushes /\ s.skipped < MaxSkips)
    PROVE  s.pushes = AddressesOf(heads, Ascending(FoundIn(c), Len(c)))
<1>1. /\ Len(c) \in Nat /\ DOMAIN c = 1..Len(c) /\ IsGrowing(c) /\ k \in Nat
      /\ MaxPushes \in Nat /\ MaxSkips \in Nat
  BY Places, ScanAssumption DEF AreHeads
<1>2. ASSUME NEW p \in PushesBehind(c, k)
      PROVE  p \in FoundIn(c)
  BY <1>1 DEF PushesBehind, FoundIn, ScannedTo
<1>3. ASSUME NEW p \in FoundIn(c), p <= k
      PROVE  FALSE
  <2>1. /\ p \in 1..Len(c) /\ p \in Nat /\ IsPush(c[p])
        /\ \A q \in (p + 1)..Len(c) : GoesOn(c[q])
        /\ Cardinality(PushesBehind(c, p)) < MaxPushes
        /\ Cardinality(OthersBehind(c, p)) < MaxSkips
    BY <1>1 DEF FoundIn, Reached, PushesBehind, OthersBehind
  <2>2. /\ PushesBehind(c, k) \subseteq PushesBehind(c, p)
        /\ OthersBehind(c, k) \subseteq OthersBehind(c, p)
    BY <1>1, <1>3, <2>1 DEF PushesBehind, OthersBehind
  <2>3. /\ Cardinality(PushesBehind(c, k)) <= Cardinality(PushesBehind(c, p))
        /\ Cardinality(OthersBehind(c, k)) <= Cardinality(OthersBehind(c, p))
    BY <1>1, <2>1, <2>2, BehindFinite, FS_Subset
  <2>4. Len(s.pushes) < MaxPushes /\ s.skipped < MaxSkips
    <3>1. /\ Cardinality(PushesBehind(c, k)) \in Nat /\ Cardinality(PushesBehind(c, p)) \in Nat
          /\ Cardinality(OthersBehind(c, k)) \in Nat /\ Cardinality(OthersBehind(c, p)) \in Nat
      BY <1>1, <2>1, BehindFinite
    <3>2. /\ s.skipped = Cardinality(OthersBehind(c, k))
          /\ Len(s.pushes) = Cardinality(PushesBehind(c, k))
      BY DEF ScannedTo
    <3> QED
      BY <1>1, <2>1, <2>3, <3>1, <3>2
  <2>5. s.at = NoEa /\ (k = 0 \/ ~GoesOn(c[k]))
    <3>1. s.at = NoEa
      BY <2>4
    <3>2. k >= 1 => heads[k] \in Heads /\ heads[k] # NoEa
      BY <1>1, SessionAssumption DEF AreHeads, NoEa
    <3> QED
      BY <3>1, <3>2 DEF ScannedTo
  <2>6. k >= 1 /\ ~GoesOn(c[k])
    BY <1>1, <1>3, <2>1, <2>5
  <2>7. CASE p = k
    <3>1. GoesOn(c[p])
      BY <2>1 DEF GoesOn, IsPush
    <3> QED
      BY <2>6, <2>7, <3>1
  <2>8. CASE p # k
    <3>1. k \in (p + 1)..Len(c)
      BY <1>1, <1>3, <2>1, <2>8
    <3> QED
      BY <2>1, <2>6, <3>1
  <2> QED
    BY <2>7, <2>8
<1>4. FoundIn(c) = PushesBehind(c, k)
  <2>1. ASSUME NEW p \in FoundIn(c)
        PROVE  p \in PushesBehind(c, k)
    <3>1. p \in 1..Len(c) /\ IsPush(c[p]) /\ ~(p <= k)
      BY <1>1, <1>3 DEF FoundIn
    <3> QED
      BY <1>1, <3>1 DEF PushesBehind
  <2> QED
    BY <1>2, <2>1
<1> QED
  BY <1>4 DEF ScannedTo

\* The heads up to an address, listed.
LEMMA InOrderListed ==
    ASSUME NEW S, NEW n \in Nat, NEW s, s = Ascending(S, n)
    PROVE  /\ Len(s) \in Nat /\ s \in Seq(S)
           /\ \A j \in 1..Len(s) : s[j] \in S /\ s[j] \in 1..n
           /\ \A j, k \in 1..Len(s) : j < k => s[j] < s[k]
<1>1. /\ s \in Seq(S \cap (1..n))
      /\ \A j, k \in 1..Len(s) : j < k => s[j] < s[k]
  BY AscendingLists
<1>2. Len(s) \in Nat /\ s \in Seq(S) /\ \A j \in 1..Len(s) : s[j] \in S /\ s[j] \in 1..n
  BY <1>1
<1> QED
  BY <1>1, <1>2

\* Every member of S up to n is at some place of the list.
LEMMA IsListed ==
    ASSUME NEW S, NEW n \in Nat, NEW i \in S, i \in 1..n
    PROVE  \E k \in 1..Len(Ascending(S, n)) : Ascending(S, n)[k] = i
<1>1. i \in S \cap (1..n)
  OBVIOUS
<1>2. \A j \in S \cap (1..n) : \E k \in 1..Len(Ascending(S, n)) : Ascending(S, n)[k] = j
  BY AscendingLists
<1> QED
  BY <1>1, <1>2

\* The head before a head of the function, and before the call.
LEMMA HeadBefore ==
    ASSUME IsDatabase(db), NEW ea \in Heads, NEW func \in Nat,
           NEW heads, heads = Ascending({h \in DOMAIN db.code : func <= h}, ea - 1),
           NEW m \in 0..Len(heads), NEW at, at = IF m = Len(heads) THEN ea ELSE heads[m + 1]
    PROVE  PrevHead(at, func) = IF m = 0 THEN NoEa ELSE heads[m]
<1> DEFINE S == {h \in DOMAIN db.code : func <= h}
           before == {h \in DOMAIN db.code : func <= h /\ h < at}
<1>1. /\ ea \in Nat \ {0} /\ ea - 1 \in Nat /\ DOMAIN db.code \subseteq Nat \ {0}
  <2>1. DOMAIN db.code \subseteq Heads
    BY DEF IsDatabase
  <2>2. Heads \subseteq Nat \ {0}
    BY SessionAssumption
  <2>3. ea \in Nat \ {0}
    BY <2>2
  <2>4. ea - 1 \in Nat
    BY <2>3
  <2>5. DOMAIN db.code \subseteq Nat \ {0}
    BY <2>1, <2>2
  <2> QED
    BY <2>3, <2>4, <2>5
<1>2. /\ \A j, k \in 1..Len(heads) : j < k => heads[j] < heads[k]
      /\ \A i \in S : i \in 1..(ea - 1) => \E k \in 1..Len(heads) : heads[k] = i
  <2>1. heads = Ascending(S, ea - 1) /\ ea - 1 \in Nat
    BY <1>1
  <2> HIDE DEF S
  <2>2. ASSUME NEW i \in S, i \in 1..(ea - 1)
        PROVE  \E k \in 1..Len(heads) : heads[k] = i
    <3>1. \E k \in 1..Len(Ascending(S, ea - 1)) : Ascending(S, ea - 1)[k] = i
      BY <2>1, <2>2, IsListed
    <3> QED
      BY <2>1, <3>1
  <2>3. \A j, k \in 1..Len(heads) : j < k => heads[j] < heads[k]
    BY <2>1, InOrderListed
  <2> QED
    BY <2>1, <2>2, <2>3
<1>3. /\ Len(heads) \in Nat
      /\ \A j \in 1..Len(heads) : heads[j] \in S /\ heads[j] \in 1..(ea - 1)
  BY <1>1, InOrderListed
<1>4. at \in Nat /\ at <= ea
  <2>1. CASE m = Len(heads)
    BY <1>1, <2>1
  <2>2. CASE m # Len(heads)
    <3>1. m + 1 \in 1..Len(heads) /\ at = heads[m + 1]
      BY <1>3, <2>2
    <3> QED
      BY <1>1, <1>3, <3>1
  <2> QED
    BY <2>1, <2>2
<1>5. ASSUME NEW j \in 1..Len(heads)
      PROVE  heads[j] < at <=> j <= m
  <2>1. CASE m = Len(heads)
    BY <1>1, <1>3, <2>1
  <2>2. CASE m # Len(heads)
    <3>1. m + 1 \in 1..Len(heads) /\ at = heads[m + 1] /\ heads[m + 1] \in Nat /\ heads[j] \in Nat
      BY <1>1, <1>3, <2>2
    <3>2. CASE j <= m
      BY <1>2, <1>3, <3>1, <3>2
    <3>3. CASE j = m + 1
      BY <1>3, <3>1, <3>3
    <3>4. CASE j > m + 1
      <4>1. heads[m + 1] < heads[j]
        BY <1>2, <3>1, <3>4
      <4> QED
        BY <1>3, <3>1, <3>4, <4>1
    <3> QED
      BY <1>3, <3>2, <3>3, <3>4
  <2> QED
    BY <2>1, <2>2
<1>6. ASSUME NEW h \in before
      PROVE  \E j \in 1..Len(heads) : h = heads[j] /\ j <= m
  <2>1. h \in S /\ h < at /\ h \in Nat \ {0}
    BY <1>1
  <2>2. h \in 1..(ea - 1)
    BY <1>1, <1>4, <2>1
  <2>3. PICK j \in 1..Len(heads) : heads[j] = h
    BY <1>2, <2>1, <2>2
  <2> QED
    BY <1>5, <2>1, <2>3
<1>7. IF before = {} THEN PrevHead(at, func) = NoEa
      ELSE /\ PrevHead(at, func) \in before
           /\ \A h \in before : h <= PrevHead(at, func)
  BY <1>4, PrevHeadIsHead
<1> DEFINE prev == PrevHead(at, func)
<1> HIDE DEF prev
<1>8. CASE m = 0
  <2>1. before = {}
    <3>1. \A j \in 1..Len(heads) : ~(j <= m)
      BY <1>3, <1>8
    <3> HIDE DEF before
    <3> QED
      BY <1>6, <3>1
  <2> QED
    BY <1>7, <1>8, <2>1
<1>9. CASE m # 0
  <2>1. m \in 1..Len(heads) /\ heads[m] \in before /\ heads[m] \in Nat
    BY <1>1, <1>3, <1>5, <1>9
  <2>2. prev \in before /\ heads[m] <= prev
    BY <1>7, <2>1 DEF prev
  <2>3. PICK j \in 1..Len(heads) : prev = heads[j] /\ j <= m
    BY <1>6, <2>2
  <2>4. j = m \/ heads[j] < heads[m]
    <3>1. j \in Nat /\ m \in Nat /\ (j = m \/ j < m)
      BY <1>3, <2>3
    <3> QED
      BY <1>2, <2>1, <3>1
  <2>5. heads[j] \in Nat
    BY <1>1, <1>3
  <2>6. prev = heads[m]
    BY <2>1, <2>2, <2>3, <2>4, <2>5
  <2> QED
    BY <1>9, <2>6 DEF prev
<1> QED
  BY <1>8, <1>9

-----------------------------------------------------------------------------
(* What a session finds and answers while nothing it cached is out of date *)

\* HeadsBefore and CallerOf of a database.
HeadsOf(d, ea) == Ascending({h \in DOMAIN d.code : d.owner[ea] <= h}, ea - 1)
CallerIn(d, ea) ==
    IF d.owner[ea] = NoFunc THEN [code |-> <<>>, owned |-> FALSE]
    ELSE [code |-> [n \in DOMAIN HeadsOf(d, ea) |-> d.code[HeadsOf(d, ea)[n]]], owned |-> TRUE]

\* The heads before a call that a function owns, and what is there.
LEMMA HeadsOfCaller ==
    ASSUME IsDatabase(db), NEW ea \in Heads, db.owner[ea] # NoFunc
    PROVE  /\ db.owner[ea] \in Nat /\ CallerIn(db, ea).owned
           /\ AreHeads(HeadsOf(db, ea), CallerIn(db, ea).code)
           /\ \A k \in 1..Len(HeadsOf(db, ea)) : /\ HeadsOf(db, ea)[k] \in DOMAIN db.code
                                                /\ HeadsOf(db, ea)[k] \in Heads
                                                /\ CallerIn(db, ea).code[k] = db.code[HeadsOf(db, ea)[k]]
<1> DEFINE heads == HeadsOf(db, ea)
           S == {h \in DOMAIN db.code : db.owner[ea] <= h}
           c == CallerIn(db, ea).code
<1>1. db.owner[ea] \in Nat /\ DOMAIN db.code \subseteq Heads
  BY DEF IsDatabase
<1>2. ea - 1 \in Nat
  <2>1. ea \in Nat \ {0}
    BY SessionAssumption
  <2> QED
    BY <2>1
<1>3. S \subseteq DOMAIN db.code /\ S \subseteq Heads
  BY <1>1
<1>4. heads = Ascending(S, ea - 1)
  BY DEF HeadsOf
<1>5. CallerIn(db, ea) = [code |-> [n \in DOMAIN heads |-> db.code[heads[n]]], owned |-> TRUE]
  BY DEF CallerIn
<1> HIDE DEF S, heads
<1>6. heads \in Seq(S) /\ Len(heads) \in Nat /\ DOMAIN heads = 1..Len(heads)
  BY <1>2, <1>4, InOrderListed
<1>7. \A k \in 1..Len(heads) : heads[k] \in DOMAIN db.code /\ heads[k] \in Heads
  BY <1>3, <1>6
<1>8. c = [n \in 1..Len(heads) |-> db.code[heads[n]]]
  BY <1>5, <1>6
<1> HIDE DEF c
<1>9. IsGrowing(c) /\ Len(c) = Len(heads)
  <2>1. c \in [1..Len(heads) -> {c[n] : n \in DOMAIN c}] /\ DOMAIN c = 1..Len(heads)
    BY <1>8
  <2>2. c \in Seq({c[n] : n \in DOMAIN c}) /\ Len(c) = Len(heads)
    BY <1>6, <2>1
  <2> QED
    BY <2>2 DEF IsGrowing
<1>10. heads \in Seq(Heads)
  BY <1>3, <1>6
<1>11. CallerIn(db, ea).owned
  BY <1>5
<1> QED
  BY <1>1, <1>7, <1>8, <1>9, <1>10, <1>11 DEF AreHeads, heads, c

\* Of a session that is up to date, a cached instruction is the program's.
LEMMA FreshInsn ==
    ASSUME DataInv, Fresh, NEW ea \in Heads, ReadInsn(ea), UNCHANGED <<environment, seen>>
    PROVE  ea \in DOMAIN db.code => GetInsn(ea).value = db.code[ea]
<1>1. GetInsn(ea).value \in seen[<<"insn", ea>>]
  BY InsnRead
<1>2. IsDatabase(db)
  BY EnvFields DEF DataInv
<1>3. <<"insn", ea>> \in DOMAIN seen /\ Content(db, <<"insn", ea>>) = Decode(db, ea)
  BY <1>2, KeysHold DEF DataInv, SeenInv
<1>4. GetInsn(ea).value = Decode(db, ea)
  BY <1>1, <1>3 DEF Fresh
<1>5. ea \in DOMAIN db.code => DecodeAt(db.code[ea]) = db.code[ea]
  BY <1>2, DecodedAsEncoded DEF IsDatabase
<1> QED
  BY <1>4, <1>5 DEF Decode

\* The scan of a call has found its pushes, as far as it has come ...
Scanning ==
    IF db.owner[scan.call] = NoFunc THEN scan.at = NoEa /\ scan.pushes = <<>>
    ELSE /\ scan.func = db.owner[scan.call]
         /\ \E k \in 0..Len(CallerIn(db, scan.call).code) :
               ScannedTo(scan, HeadsOf(db, scan.call), CallerIn(db, scan.call).code, k)

\* ... and all of them when it has ended.
FoundRight == scan.pushes = AddressesOf(HeadsOf(db, scan.call), PushSequence(CallerIn(db, scan.call)))

\* How the registry answers to a push.
PushAnswer == IF "push" \in FirstMatch("push").raises THEN "raised" ELSE FirstMatch("push").name

\* Of a session that is up to date.
FreshInv ==
    /\ pc \in {"scan", "interpret"} => scan.call \in Heads
    /\ Fresh => /\ pc = "scan" => Scanning
                /\ pc = "interpret" => FoundRight
                /\ \A n \in DOMAIN named : named[n] = PushAnswer

\* What has been found are pushes of the program.
LEMMA FoundArePushes ==
    ASSUME IsDatabase(db), scan.call \in Heads, FoundRight, NEW n \in DOMAIN scan.pushes
    PROVE  scan.pushes[n] \in DOMAIN db.code /\ IsPush(db.code[scan.pushes[n]])
<1> DEFINE heads == HeadsOf(db, scan.call)
           c == CallerIn(db, scan.call).code
           order == PushSequence(CallerIn(db, scan.call))
<1>1. scan.pushes = [m \in DOMAIN order |-> heads[order[m]]]
  BY DEF FoundRight, AddressesOf
<1>2. CASE db.owner[scan.call] = NoFunc
  <2>1. order = <<>>
    BY <1>2 DEF PushSequence, CallerIn
  <2> QED
    BY <1>1, <2>1
<1>3. CASE db.owner[scan.call] # NoFunc
  <2>1. /\ AreHeads(heads, c) /\ CallerIn(db, scan.call).owned
        /\ \A k \in 1..Len(heads) : heads[k] \in DOMAIN db.code /\ c[k] = db.code[heads[k]]
    BY <1>3, HeadsOfCaller
  <2>2. order = Ascending(FoundIn(c), Len(c))
    BY <2>1 DEF PushSequence, FoundIn
  <2>3. Len(c) \in Nat /\ Len(c) = Len(heads) /\ DOMAIN c = 1..Len(c)
    BY <2>1, Places DEF AreHeads
  <2> HIDE DEF order, c, heads
  <2>4. order \in Seq(FoundIn(c))
    BY <2>2, <2>3, InOrderListed
  <2>5. n \in DOMAIN order
    BY <1>1
  <2>6. order[n] \in FoundIn(c) /\ scan.pushes[n] = heads[order[n]]
    BY <1>1, <2>4, <2>5
  <2>7. order[n] \in 1..Len(heads) /\ IsPush(c[order[n]])
    BY <2>3, <2>6 DEF FoundIn
  <2> QED
    BY <2>1, <2>6, <2>7
<1> QED
  BY <1>2, <1>3

\* The scan begins at the head before the call.
LEMMA BeginScanFresh ==
    ASSUME DataInv, CallInv, BeginScan
    PROVE  FreshInv'
<1> PICK ea : ea = Least(todo)
  OBVIOUS
<1>1. /\ todo # {}
      /\ funcs' = Memo(funcs, ea, db.owner[ea])
      /\ scan' = [call |-> ea, func |-> funcs'[ea], pushes |-> <<>>, skipped |-> 0,
                  at |-> IF funcs'[ea] = NoFunc THEN NoEa ELSE PrevHead(ea, funcs'[ea])]
      /\ pc' = "scan" /\ named' = <<>>
      /\ UNCHANGED <<environment, seen>>
  BY DEF BeginScan
<1>2. ea \in Heads
  <2>1. todo \in SUBSET Nat /\ todo \subseteq Heads
    BY SessionAssumption DEF CallInv
  <2> QED
    BY <1>1, <2>1, LeastIsLeast
<1>3. IsDatabase(db) /\ UNCHANGED <<db, seen>>
  BY <1>1, EnvFields DEF DataInv, environment
<1>4. funcs'[ea] \in seen[<<"owner", ea>>]
  <2>1. IsMemo(funcs, seen, "owner", Heads) /\ db.owner[ea] \in seen[<<"owner", ea>>]
    BY <1>2, SeenKinds DEF DataInv, CachesInv
  <2> QED
    BY <1>1, <1>2, <2>1, MemoAsked
<1> DEFINE func == funcs'[ea]
           at == IF func = NoFunc THEN NoEa ELSE PrevHead(ea, func)
<1>5. /\ scan' = [call |-> ea, func |-> func, pushes |-> <<>>, skipped |-> 0, at |-> at]
      /\ scan'.call = ea /\ scan'.func = func /\ scan'.pushes = <<>> /\ scan'.skipped = 0
      /\ scan'.at = at
  BY <1>1
<1>6. ASSUME Fresh
      PROVE  Scanning'
  <2>1. func = db.owner[ea]
    <3>1. <<"owner", ea>> \in DOMAIN seen /\ Content(db, <<"owner", ea>>) = db.owner[ea]
      BY <1>2, <1>3, KeysHold DEF DataInv, SeenInv
    <3> QED
      BY <1>4, <1>6, <3>1 DEF Fresh
  <2> HIDE DEF func
  <2>2. CASE func = NoFunc
    BY <1>3, <1>5, <2>1, <2>2 DEF Scanning
  <2>3. CASE func # NoFunc
    <3> DEFINE heads == HeadsOf(db, ea)
               c == CallerIn(db, ea).code
    <3>1. AreHeads(heads, c) /\ func \in Nat
      BY <1>2, <1>3, <2>1, <2>3, HeadsOfCaller
    <3>2. Len(heads) \in Nat /\ Len(c) = Len(heads)
      BY <3>1 DEF AreHeads
    <3>3. heads = Ascending({h \in DOMAIN db.code : func <= h}, ea - 1)
      BY <2>1 DEF HeadsOf
    <3>4. PrevHead(ea, func) = IF Len(heads) = 0 THEN NoEa ELSE heads[Len(heads)]
      <4> HIDE DEF heads
      <4>1. Len(heads) \in 0..Len(heads)
        BY <3>2
      <4>2. \A m \in 0..Len(heads) : \A e : e = (IF m = Len(heads) THEN ea ELSE heads[m + 1])
               => PrevHead(e, func) = IF m = 0 THEN NoEa ELSE heads[m]
        BY <1>2, <1>3, <3>1, <3>3, HeadBefore
      <4> QED
        BY <4>1, <4>2
    <3> HIDE DEF heads, c
    <3>5. ScannedTo(scan', heads, c, Len(c))
      BY <1>5, <2>3, <3>1, <3>4, ScanBegins
    <3>6. Len(c) \in 0..Len(c)
      BY <3>2
    <3>7. /\ Scanning' <=> \E k \in 0..Len(c) : ScannedTo(scan', heads, c, k)
      BY <1>3, <1>5, <2>1, <2>3 DEF Scanning, heads, c
    <3> QED
      BY <3>5, <3>6, <3>7
  <2> QED
    BY <2>2, <2>3
<1>7. Fresh' => Fresh
  BY <1>3 DEF Fresh, Content
<1> QED
  BY <1>1, <1>2, <1>5, <1>6, <1>7, NothingYet DEF FreshInv

\* A round of the loop of a session that is up to date.
LEMMA ScanStepFresh ==
    ASSUME DataInv, CallInv, FreshInv, ScanStep
    PROVE  FreshInv'
<1> PICK ea : ea = scan.call
  OBVIOUS
<1> DEFINE insn == GetInsn(scan.at).value
           back == PrevHead(scan.at, scan.func)
<1>1. /\ pc = "scan" /\ MayScan
      /\ ReadInsn(scan.at)
      /\ UNCHANGED <<environment, pc, todo, named, seen, registry>>
  BY DEF ScanStep, locators
<1>2. scan' = CASE ~GoesOn(insn) -> [scan EXCEPT !.at = NoEa]
                [] IsPush(insn)  -> [scan EXCEPT !.at = back, !.pushes = <<scan.at>> \o @]
                [] OTHER         -> [scan EXCEPT !.at = back, !.skipped = @ + 1]
  BY DEF ScanStep
<1>3. scan.at \in Heads /\ scan.at # NoEa /\ Len(scan.pushes) < MaxPushes /\ scan.skipped < MaxSkips
  BY <1>1, ReadsHead DEF MayScan
<1>4. IsDatabase(db) /\ ea \in Heads /\ UNCHANGED <<db, seen>>
  BY <1>1, EnvFields DEF DataInv, FreshInv, environment
<1>5. ASSUME Fresh
      PROVE  Scanning'
  <2>1. Scanning
    BY <1>1, <1>5 DEF FreshInv
  <2>2. db.owner[ea] # NoFunc
    BY <1>3, <2>1 DEF Scanning
  <2> DEFINE heads == HeadsOf(db, ea)
             c == CallerIn(db, ea).code
  <2>3. /\ AreHeads(heads, c) /\ db.owner[ea] \in Nat
        /\ \A k \in 1..Len(heads) : heads[k] \in DOMAIN db.code /\ c[k] = db.code[heads[k]]
    BY <1>4, <2>2, HeadsOfCaller
  <2>4. scan.func = db.owner[ea] /\ \E k \in 0..Len(c) : ScannedTo(scan, heads, c, k)
    BY <2>1, <2>2 DEF Scanning
  <2>5. heads = Ascending({h \in DOMAIN db.code : scan.func <= h}, ea - 1)
    BY <2>4 DEF HeadsOf
  <2>6. scan'.call = ea => (Scanning' <=> /\ scan'.func = db.owner[ea]
                                         /\ \E k \in 0..Len(c) : ScannedTo(scan', heads, c, k))
    BY <1>4, <2>2 DEF Scanning, heads, c
  <2> HIDE DEF heads, c
  <2>7. PICK k \in 0..Len(c) : ScannedTo(scan, heads, c, k)
    BY <2>4
  <2>8. Len(c) \in Nat /\ Len(heads) = Len(c)
    BY <2>3, Places DEF AreHeads
  <2>9. k \in 1..Len(c) /\ scan.at = heads[k]
    BY <1>3, <2>7, <2>8 DEF ScannedTo
  <2>10. scan.at \in DOMAIN db.code /\ insn = c[k]
    <3>1. heads[k] \in DOMAIN db.code /\ c[k] = db.code[heads[k]]
      BY <2>3, <2>8, <2>9
    <3>2. scan.at \in DOMAIN db.code => insn = db.code[scan.at]
      BY <1>1, <1>3, <1>5, FreshInsn
    <3> QED
      BY <2>9, <3>1, <3>2
  <2>11. back = IF k = 1 THEN NoEa ELSE heads[k - 1]
    <3>1. k - 1 \in 0..Len(heads) /\ k - 1 # Len(heads) /\ heads[(k - 1) + 1] = heads[k]
      BY <2>8, <2>9
    <3>2. \A m \in 0..Len(heads) : \A e : e = (IF m = Len(heads) THEN ea ELSE heads[m + 1])
             => PrevHead(e, scan.func) = IF m = 0 THEN NoEa ELSE heads[m]
      BY <1>4, <2>3, <2>4, <2>5, HeadBefore
    <3>3. back = IF k - 1 = 0 THEN NoEa ELSE heads[k - 1]
      BY <2>9, <3>1, <3>2
    <3> QED
      BY <2>9, <3>3
  <2> HIDE DEF insn, back
  <2>12. CASE ~GoesOn(insn)
    <3>1. scan' = [call |-> scan.call, func |-> scan.func, at |-> NoEa, pushes |-> scan.pushes,
                   skipped |-> scan.skipped]
      <4>1. ~IsPush(insn)
        BY <2>12 DEF GoesOn, IsPush
      <4>2. scan' = [scan EXCEPT !.at = NoEa]
        BY <1>2, <2>12, <4>1
      <4> QED
        BY <4>2, ScanFields
    <3>2. ScannedTo(scan', heads, c, k)
      BY <2>3, <2>7, <2>9, <2>10, <2>12, <3>1, ScanMeetsEnd
    <3> QED
      BY <2>4, <2>6, <3>1, <3>2
  <2>13. CASE GoesOn(insn) /\ IsPush(insn)
    <3>1. scan' = [scan EXCEPT !.at = back, !.pushes = <<scan.at>> \o @]
      BY <1>2, <2>13
    <3>2. scan' = [call |-> scan.call, func |-> scan.func, at |-> back,
                   pushes |-> <<scan.at>> \o scan.pushes, skipped |-> scan.skipped]
      BY <3>1, ScanFields
    <3>3. /\ scan'.call = ea /\ scan'.func = scan.func /\ scan'.at = back
          /\ scan'.pushes = <<heads[k]>> \o scan.pushes /\ scan'.skipped = scan.skipped
      BY <2>9, <3>2
    <3>4. ScannedTo(scan', heads, c, k - 1)
      BY <1>3, <2>3, <2>7, <2>9, <2>10, <2>11, <2>13, <3>3, ScanGoesOn
    <3>5. k - 1 \in 0..Len(c)
      BY <2>8, <2>9
    <3> QED
      BY <2>4, <2>6, <3>3, <3>4, <3>5
  <2>14. CASE GoesOn(insn) /\ ~IsPush(insn)
    <3>1. scan' = [scan EXCEPT !.at = back, !.skipped = @ + 1]
      BY <1>2, <2>14
    <3>2. scan' = [call |-> scan.call, func |-> scan.func, at |-> back,
                   pushes |-> scan.pushes, skipped |-> scan.skipped + 1]
      BY <3>1, ScanFields
    <3>3. /\ scan'.call = ea /\ scan'.func = scan.func /\ scan'.at = back
          /\ scan'.pushes = scan.pushes /\ scan'.skipped = scan.skipped + 1
      BY <3>2
    <3>4. ScannedTo(scan', heads, c, k - 1)
      BY <1>3, <2>3, <2>7, <2>9, <2>10, <2>11, <2>14, <3>3, ScanGoesOn
    <3>5. k - 1 \in 0..Len(c)
      BY <2>8, <2>9
    <3> QED
      BY <2>4, <2>6, <3>3, <3>4, <3>5
  <2> QED
    BY <2>12, <2>13, <2>14
<1>6. Fresh' => Fresh
  BY <1>4 DEF Fresh, Content
<1>7. scan'.call = ea
  <2> HIDE DEF insn, back
  <2> QED
    BY <1>2, ScanFields
<1>8. named' = <<>> /\ pc' = "scan"
  BY <1>1 DEF CallInv
<1> QED
  BY <1>4, <1>5, <1>6, <1>7, <1>8, NothingYet DEF FreshInv

\* The loop ends with all the pushes there are to find.
LEMMA EndScanFresh ==
    ASSUME DataInv, CallInv, FreshInv, EndScan
    PROVE  FreshInv'
<1> PICK ea : ea = scan.call
  OBVIOUS
<1>1. /\ pc = "scan" /\ ~MayScan /\ pc' = "interpret"
      /\ UNCHANGED <<db, seen, scan, named>>
  BY DEF EndScan, environment, call
<1>2. IsDatabase(db) /\ ea \in Heads
  BY <1>1, EnvFields DEF DataInv, FreshInv
<1>3. ASSUME Fresh
      PROVE  FoundRight'
  <2>1. Scanning
    BY <1>1, <1>3 DEF FreshInv
  <2> DEFINE heads == HeadsOf(db, ea)
             c == CallerIn(db, ea).code
             order == PushSequence(CallerIn(db, ea))
  <2>2. FoundRight' <=> scan.pushes = AddressesOf(heads, order)
    BY <1>1 DEF FoundRight
  <2>3. CASE db.owner[ea] = NoFunc
    <3>1. order = <<>> /\ scan.pushes = <<>>
      BY <2>1, <2>3 DEF PushSequence, CallerIn, Scanning
    <3>2. AddressesOf(heads, <<>>) = <<>>
      BY DEF AddressesOf
    <3> QED
      BY <2>2, <3>1, <3>2
  <2>4. CASE db.owner[ea] # NoFunc
    <3>1. AreHeads(heads, c) /\ CallerIn(db, ea).owned
      BY <1>2, <2>4, HeadsOfCaller
    <3>2. order = Ascending(FoundIn(c), Len(c))
      BY <3>1 DEF PushSequence, FoundIn
    <3>3. PICK k \in 0..Len(c) : ScannedTo(scan, heads, c, k)
      BY <2>1, <2>4 DEF Scanning
    <3>4. /\ scan.at \in Heads \cup {NoEa}
          /\ ~(scan.at # NoEa /\ Len(scan.pushes) < MaxPushes /\ scan.skipped < MaxSkips)
      BY <1>1, ScanFields DEF MayScan
    <3> HIDE DEF heads, c, order
    <3>5. scan.pushes = AddressesOf(heads, Ascending(FoundIn(c), Len(c)))
      BY <3>1, <3>3, <3>4, ScanEnds
    <3> QED
      BY <2>2, <3>2, <3>5
  <2> QED
    BY <2>3, <2>4
<1>4. Fresh' => Fresh
  BY <1>1 DEF Fresh, Content
<1>5. named' = <<>>
  BY <1>1 DEF CallInv
<1> QED
  BY <1>1, <1>2, <1>3, <1>4, <1>5, NothingYet DEF FreshInv

\* Every push found is answered by the registry.
LEMMA InterpretFresh ==
    ASSUME DataInv, CallInv, FreshInv, Interpret
    PROVE  FreshInv'
<1> DEFINE ea == scan.pushes[Len(named) + 1]
           insn == GetInsn(ea).value
<1>1. /\ pc = "interpret" /\ pc' = "interpret" /\ Len(named) < Len(scan.pushes)
      /\ ReadInsn(ea)
      /\ named' = Append(named, Outcome(insn))
      /\ UNCHANGED <<environment, scan, seen, registry>>
  BY DEF Interpret, locators
<1>2. ea \in Heads /\ Len(named) + 1 \in DOMAIN scan.pushes
  BY <1>1, ReadsHead, ScanFields
<1>3. IsDatabase(db) /\ scan.call \in Heads /\ UNCHANGED <<db, seen>>
  BY <1>1, EnvFields DEF DataInv, FreshInv, environment
<1>4. ASSUME Fresh
      PROVE  Outcome(insn) = PushAnswer
  <2>1. FoundRight
    BY <1>1, <1>4 DEF FreshInv
  <2>2. ea \in DOMAIN db.code /\ IsPush(db.code[ea])
    BY <1>2, <1>3, <2>1, FoundArePushes
  <2> HIDE DEF ea
  <2>3. insn = db.code[ea]
    BY <1>1, <1>2, <1>4, <2>2, FreshInsn
  <2>4. insn.mnem = "push" /\ insn # NoInsn
    BY <2>2, <2>3 DEF IsPush, NoInsn, Undecodable
  <2> HIDE DEF insn
  <2> QED
    BY <2>4 DEF Outcome, PushAnswer
<1> HIDE DEF ea, insn
<1>5. Fresh' => Fresh
  BY <1>3 DEF Fresh, Content
<1>6. FoundRight' <=> FoundRight
  BY <1>1, <1>3 DEF FoundRight
<1>7. PushAnswer' = PushAnswer
  BY <1>1 DEF PushAnswer, FirstMatch
<1>8. ASSUME Fresh
      PROVE  \A n \in DOMAIN named' : named'[n] = PushAnswer
  <2>1. IsGrowing(named) /\ \A n \in DOMAIN named : named[n] = PushAnswer
    BY <1>8 DEF FreshInv, CallInv
  <2>2. /\ DOMAIN named = 1..Len(named) /\ Len(named) \in Nat
        /\ IsGrowing(named') /\ Len(named') = Len(named) + 1
        /\ named'[Len(named) + 1] = Outcome(insn)
        /\ \A n \in 1..Len(named) : named'[n] = named[n]
    BY <1>1, <2>1, Growing, Places
  <2>3. DOMAIN named' = 1..(Len(named) + 1)
    BY <2>2, Places
  <2>4. \A n \in 1..(Len(named) + 1) : n = Len(named) + 1 \/ n \in 1..Len(named)
    BY <2>2
  <2> QED
    BY <1>4, <1>8, <2>1, <2>2, <2>3, <2>4
<1> QED
  BY <1>1, <1>3, <1>5, <1>6, <1>7, <1>8 DEF FreshInv

\* Every step keeps what a session that is up to date has found.
LEMMA FreshStep ==
    ASSUME SessionInv, FreshInv, [Next]_vars
    PROVE  FreshInv'
<1>1. DataInv /\ CallInv
  BY DEF SessionInv
<1>2. CASE pc' \notin {"scan", "interpret"} /\ named' = <<>>
  BY <1>2, NothingYet DEF FreshInv
<1>3. CASE /\ UNCHANGED <<db, seen, registry, named, scan>>
           /\ pc' = pc \/ pc' \notin {"scan", "interpret"}
  <2>1. Fresh' => Fresh
    BY <1>3 DEF Fresh, Content
  <2>2. PushAnswer' = PushAnswer
    BY <1>3 DEF PushAnswer, FirstMatch
  <2>3. (FoundRight' <=> FoundRight) /\ (Scanning' <=> Scanning)
    BY <1>3 DEF FoundRight, Scanning
  <2> QED
    BY <1>3, <2>1, <2>2, <2>3 DEF FreshInv
<1>4. CASE BeginScan
  BY <1>1, <1>4, BeginScanFresh
<1>5. CASE ScanStep
  BY <1>1, <1>5, ScanStepFresh
<1>6. CASE EndScan
  BY <1>1, <1>6, EndScanFresh
<1>7. CASE Interpret
  BY <1>1, <1>7, InterpretFresh
<1>8. CASE Edit \/ Invalidate \/ UserRegisters \/ ExtractCalls \/ BeginQuery
  <2>1. pc' \notin {"scan", "interpret"} /\ named' = <<>>
    BY <1>8 DEF Edit, Invalidate, UserRegisters, ExtractCalls, BeginQuery
  <2> QED
    BY <1>2, <2>1
<1>9. CASE WalkStep \/ EnterBlock \/ EndQuery
  <2>1. pc' \notin {"scan", "interpret"} /\ named' = <<>>
    BY <1>1, <1>9 DEF WalkStep, EnterBlock, EndQuery, CallInv
  <2> QED
    BY <1>2, <2>1
<1>10. CASE EndSite \/ Return \/ UNCHANGED vars
  <2>1. /\ UNCHANGED <<db, seen, registry, named, scan>>
        /\ pc' = pc \/ pc' \notin {"scan", "interpret"}
    BY <1>10 DEF EndSite, Return, vars, environment, locators, call
  <2> QED
    BY <1>3, <2>1
<1> QED
  BY <1>4, <1>5, <1>6, <1>7, <1>8, <1>9, <1>10 DEF Next, Internal

\* The invariant of a session that is up to date always holds.
LEMMA AlwaysFreshInv == Spec => []FreshInv
<1>1. Init => FreshInv
  BY NothingYet DEF Init, FreshInv
<1>2. SessionInv /\ FreshInv /\ [Next]_vars => FreshInv'
  BY FreshStep
<1> QED
  BY <1>1, <1>2, AlwaysSessionInv, PTL DEF Spec

\* engine_backward.py, collect_push_sequence: of a database that has not changed,
\* or whose changes were all followed by invalidate, the loop finds the push
\* sequence the program has there, whatever its size, and however the reads were
\* cached, evicted and reloaded.
THEOREM FreshScanFinds == Spec => []FreshScanIsRight
<1>1. FreshInv => FreshScanIsRight
  <2>1. HeadsBefore(scan.call) = HeadsOf(db, scan.call)
    BY DEF HeadsBefore, HeadsOf
  <2>2. CallerOf(scan.call) = CallerIn(db, scan.call)
    BY <2>1 DEF CallerOf, CallerIn, HeadsBefore, HeadsOf
  <2> QED
    BY <2>1, <2>2 DEF FreshInv, FoundRight, AddressesOf, FreshScanIsRight
<1> QED
  BY <1>1, AlwaysFreshInv, PTL

\* The registry answers with the locator it should.
LEMMA PushAnswerIsBest ==
    ASSUME RegistryInv
    PROVE  LET fit  == {k \in DOMAIN registered : Accepts(registered[k], "push")}
               best == registered[CHOOSE k \in fit : \A o \in fit : Preferred(k, o)]
           IN  PushAnswer = (IF fit = {} THEN "none"
                             ELSE IF "push" \in best.raises THEN "raised" ELSE best.name)
<1> DEFINE fit  == {k \in DOMAIN registered : Accepts(registered[k], "push")}
           found == {n \in DOMAIN registry : Accepts(registry[n], "push")}
           k == CHOOSE i \in fit : \A o \in fit : Preferred(i, o)
<1>1. PICK place : InOrder(place)
  BY DEF RegistryInv
<1>2. /\ place \in [DOMAIN registry -> DOMAIN registered]
      /\ \A i \in DOMAIN registered : \E n \in DOMAIN registry : place[n] = i
      /\ \A n \in DOMAIN registry : registry[n] = registered[place[n]]
      /\ \A m, n \in DOMAIN registry : m < n => Preferred(place[m], place[n])
  BY <1>1 DEF InOrder
<1>3. /\ \A n \in DOMAIN registered : registered[n].priority \in Int /\ n \in Nat
      /\ DOMAIN registry \subseteq Nat
  <2>1. \A n \in DOMAIN registered : registered[n] \in AnyLocator /\ n \in Nat
    BY DEF RegistryInv
  <2>2. DOMAIN registry \subseteq Nat
    BY DEF RegistryInv
  <2> QED
    BY <2>1, <2>2 DEF AnyLocator
<1>4. /\ \A n \in found : place[n] \in fit
      /\ \A i \in fit : \E n \in found : place[n] = i
  BY <1>2
<1>5. CASE fit = {}
  <2>1. found = {}
    BY <1>4, <1>5
  <2>2. FirstMatch("push") = NoLocator
    BY <2>1 DEF FirstMatch
  <2> QED
    BY <1>5, <2>2 DEF PushAnswer, NoLocator
<1>6. CASE fit # {}
  <2> DEFINE first == Least(found)
  <2>1. found # {} /\ found \in SUBSET Nat
    BY <1>3, <1>4, <1>6
  <2>2. FirstMatch("push") = registry[first]
    BY <2>1 DEF FirstMatch
  <2>3. first \in found /\ \A n \in found : first <= n
    <3> HIDE DEF found
    <3> QED
      BY <2>1, LeastIsLeast
  <2> HIDE DEF first
  <2>4. /\ first \in DOMAIN registry /\ registry[first] = registered[place[first]]
        /\ place[first] \in fit /\ place[first] \in DOMAIN registered
    BY <1>2, <1>4, <2>3
  <2>5. ASSUME NEW o \in fit
        PROVE  Preferred(place[first], o)
    <3>1. PICK n \in found : place[n] = o
      BY <1>4
    <3>2. n \in DOMAIN registry /\ n \in Nat /\ first \in Nat /\ (first = n \/ first < n)
      BY <1>3, <2>3, <2>4
    <3>3. Preferred(place[first], place[first])
      BY <1>3, <2>4 DEF Preferred
    <3> QED
      BY <1>2, <2>4, <3>1, <3>2, <3>3
  <2>6. k \in fit /\ \A o \in fit : Preferred(k, o)
    <3> HIDE DEF fit
    <3> QED
      BY <2>4, <2>5
  <2> HIDE DEF k
  <2>7. k = place[first]
    <3>1. Preferred(k, place[first]) /\ Preferred(place[first], k)
      BY <2>4, <2>5, <2>6
    <3>2. k \in DOMAIN registered
      BY <2>6
    <3> QED
      BY <1>3, <2>4, <3>1, <3>2 DEF Preferred
  <2>8. PushAnswer = IF "push" \in registered[k].raises THEN "raised" ELSE registered[k].name
    BY <2>2, <2>4, <2>7 DEF PushAnswer
  <2> QED
    BY <1>6, <2>8 DEF k
<1> QED
  BY <1>5, <1>6

\* locators/base.py: a push is interpreted by the locator of the highest priority
\* that accepts it, the first registered among equals, in whatever order
\* registrations came and whatever the others raise.
THEOREM RegistryChoosesBest == Spec => []BestLocatorAnswers
<1>1. SessionInv /\ FreshInv => BestLocatorAnswers
  BY PushAnswerIsBest DEF SessionInv, FreshInv, BestLocatorAnswers
<1> QED
  BY <1>1, AlwaysSessionInv, AlwaysFreshInv, PTL

=============================================================================
