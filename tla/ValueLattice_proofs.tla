------------------------ MODULE ValueLattice_proofs ------------------------
(****************************************************************************)
(* Lemmas about the join of core/merge.py, for values of the kind the       *)
(* forward engine tracks (no memory reads, no mutated regions), about the   *)
(* elements of a sequence that are kept when others are left out, and about *)
(* remainders.                                                              *)
(****************************************************************************)
EXTENDS ValueLattice, WellFoundedInduction, TLAPS

\* A nonempty set of naturals has a least element, and Least picks it.
LEMMA LeastIsLeast ==
    ASSUME NEW S \in SUBSET Nat, S # {}
    PROVE  Least(S) \in S /\ \A j \in S : Least(S) <= j
<1> DEFINE less == {p \in Nat \X Nat : p[1] < p[2]}
<1>1. IsWellFoundedOn(less, Nat)
  BY NatLessThanWellFounded DEF OpToRel
<1>2. PICK m \in S : \A j \in S : <<j, m>> \notin less
  BY <1>1, WFMin
<1>3. ASSUME NEW j \in S, j < m
      PROVE  FALSE
  <2>1. <<j, m>> \in Nat \X Nat /\ <<j, m>>[1] = j /\ <<j, m>>[2] = m
    OBVIOUS
  <2> QED
    BY <1>2, <1>3, <2>1
<1>4. \A j \in S : m <= j
  BY <1>3
<1> QED
  BY <1>4 DEF Least

\* A nonempty set of numbers up to n has a greatest element, and Greatest picks it.
LEMMA GreatestIsGreatest ==
    ASSUME NEW n \in Nat, NEW S \in SUBSET (0..n), S # {}
    PROVE  Greatest(S) \in S /\ \A j \in S : j <= Greatest(S)
<1> DEFINE down == {n - i : i \in S}
<1>1. down \in SUBSET Nat /\ down # {}
  <2>1. \A i \in S : n - i \in Nat
    OBVIOUS
  <2> QED
    BY <2>1
<1>2. PICK i \in S : n - i = Least(down)
  BY <1>1, LeastIsLeast
<1>3. ASSUME NEW j \in S
      PROVE  n - i <= n - j
  <2>1. n - j \in down
    OBVIOUS
  <2> QED
    BY <1>1, <1>2, <2>1, LeastIsLeast
<1>4. i \in S /\ \A j \in S : j <= i
  BY <1>3
<1> QED
  BY <1>4 DEF Greatest

\* The tag of a tracked value tells what it is.
LEMMA ValueCases ==
    ASSUME NEW v \in Value
    PROVE  /\ v.tag \in {"Concrete", "Symbolic", "Unknown"}
           /\ v.tag = "Concrete" => v \in Scalar /\ v.value \in Int /\ v.kind \in Kind
           /\ v.tag = "Symbolic" => v \in Scalar /\ v.expr \in Expr
           /\ v \in Scalar <=> IsKnown(v)
           /\ v \in Opaque <=> IsUnknown(v)
  BY DEF Value, Scalar, Opaque, IsKnown, IsUnknown

\* The constructors of the lattice yield its values: a constant ...
LEMMA ConcreteIsValue ==
    ASSUME NEW n \in Int, NEW kind \in Kind
    PROVE  Concrete(n, kind) \in Scalar /\ Concrete(n, kind) \in Value
  BY DEF Value, Scalar, Concrete

\* ... a symbol ...
LEMMA SymbolicIsValue ==
    ASSUME NEW e \in Expr
    PROVE  Symbolic(e) \in Scalar /\ Symbolic(e) \in Value
  BY DEF Value, Scalar, Symbolic

\* ... an unknown, which is not known ...
LEMMA UnknownIsValue ==
    ASSUME NEW r \in Reason
    PROVE  Unknown(r) \in Value /\ ~IsKnown(Unknown(r))
  BY DEF Value, Opaque, Unknown, Because, Detail, IsKnown

\* ... whatever its detail.
LEMMA BecauseIsValue ==
    ASSUME NEW r \in Reason, NEW d \in Detail
    PROVE  Because(r, d) \in Value /\ ~IsKnown(Because(r, d))
  BY DEF Value, Opaque, Because, IsKnown

\* join() of two tracked values is a tracked value ...
LEMMA ScalarJoinIsValue ==
    ASSUME NEW a \in Value, NEW b \in Value
    PROVE  ScalarJoin(a, b) \in Value
<1>1. CASE IsUnknown(a)
  BY <1>1 DEF ScalarJoin
<1>2. CASE ~IsUnknown(a) /\ IsUnknown(b)
  BY <1>2 DEF ScalarJoin
<1>3. CASE ~IsUnknown(a) /\ ~IsUnknown(b) /\ Agrees(a, b)
  BY <1>3 DEF ScalarJoin
<1>4. CASE ~IsUnknown(a) /\ ~IsUnknown(b) /\ ~Agrees(a, b)
  <2>1. ScalarJoin(a, b) = Because(ShapelessReason(a, b), Quoted(a, b))
    BY <1>4 DEF ScalarJoin
  <2>2. a \in Scalar /\ b \in Scalar
    BY <1>4, ValueCases DEF IsKnown, IsUnknown
  <2>3. Quoted(a, b) \in Detail
    BY <2>2, ValueCases, ConcreteIsValue DEF Quoted, Detail, Kind
  <2>4. ShapelessReason(a, b) \in Reason
    BY DEF ShapelessReason, Reason
  <2> QED
    BY <2>1, <2>3, <2>4, BecauseIsValue
<1> QED
  BY <1>1, <1>2, <1>3, <1>4

\* ... and a known join is what both operands are: it never picks a side.
LEMMA ScalarJoinNeverGuesses ==
    ASSUME NEW a \in Value, NEW b \in Value, IsKnown(ScalarJoin(a, b))
    PROVE  a = ScalarJoin(a, b) /\ b = ScalarJoin(a, b)
<1>1. ~IsUnknown(a)
  BY DEF ScalarJoin, IsKnown, IsUnknown
<1>2. ~IsUnknown(b)
  BY <1>1 DEF ScalarJoin, IsKnown, IsUnknown
<1>3. Agrees(a, b)
  BY <1>1, <1>2 DEF ScalarJoin, IsKnown, IsUnknown, Because
<1>4. a = b
  BY <1>3, ValueCases DEF Agrees
<1> QED
  BY <1>1, <1>2, <1>3, <1>4 DEF ScalarJoin

\* Without memory references join() is the scalar join.
LEMMA JoinIsScalarJoin ==
    ASSUME NEW a \in Value, NEW b \in Value
    PROVE  Join(a, b) = ScalarJoin(a, b)
  BY ValueCases DEF Join, SameCell

\* join_all() of tracked values is a tracked value.
LEMMA JoinOverIsValue ==
    ASSUME NEW I \in SUBSET Nat, NEW vs, \A i \in I : vs[i] \in Value
    PROVE  JoinOver(I, vs) \in Value
<1>1. CASE I = {}
  BY <1>1, UnknownIsValue DEF JoinOver, Reason
<1>2. CASE I # {}
  <2> DEFINE first == vs[Least(I)]
             apart == {i \in I : ~Agrees(first, vs[i])}
  <2>1. first \in Value
    BY <1>2, LeastIsLeast
  <2>2. JoinOver(I, vs) = ScalarJoinOver(I, vs)
    BY <1>2, <2>1, ValueCases DEF JoinOver
  <2>3. CASE apart = {}
    BY <2>1, <2>2, <2>3 DEF ScalarJoinOver
  <2>4. CASE apart # {}
    <3>1. vs[Least(apart)] \in Value
      BY <2>4, LeastIsLeast
    <3>2. ScalarJoinOver(I, vs) = ScalarJoin(first, vs[Least(apart)])
      BY <2>4 DEF ScalarJoinOver
    <3> QED
      BY <2>1, <2>2, <3>1, <3>2, ScalarJoinIsValue
  <2> QED
    BY <2>3, <2>4
<1> QED
  BY <1>1, <1>2

\* The "never guess" contract of core/merge.py:3-7 for join_all(): a known
\* result is the value of every path that flows in.
THEOREM JoinNeverGuesses ==
    ASSUME NEW I \in SUBSET Nat, NEW vs, \A i \in I : vs[i] \in Value,
           IsKnown(JoinOver(I, vs))
    PROVE  \A i \in I : vs[i] = JoinOver(I, vs)
<1>1. I # {}
  BY UnknownIsValue DEF JoinOver, Reason
<1> DEFINE first == vs[Least(I)]
           apart == {i \in I : ~Agrees(first, vs[i])}
<1>2. first \in Value
  BY <1>1, LeastIsLeast
<1>3. JoinOver(I, vs) = ScalarJoinOver(I, vs)
  BY <1>1, <1>2, ValueCases DEF JoinOver
<1>4. apart = {}
  <2> SUFFICES ASSUME apart # {}
               PROVE  FALSE
    OBVIOUS
  <2> DEFINE other == vs[Least(apart)]
  <2>1. Least(apart) \in apart
    BY LeastIsLeast
  <2>2. other \in Value /\ ~Agrees(first, other)
    BY <2>1
  <2>3. ScalarJoinOver(I, vs) = ScalarJoin(first, other)
    BY DEF ScalarJoinOver
  <2>4. first = other
    BY <1>2, <1>3, <2>2, <2>3, ScalarJoinNeverGuesses
  <2> QED
    BY <2>2, <2>4 DEF Agrees
<1>5. JoinOver(I, vs) = first
  BY <1>3, <1>4 DEF ScalarJoinOver
<1>6. \A i \in I : Agrees(first, vs[i])
  BY <1>4
<1>7. \A i \in I : vs[i] = first
  BY <1>2, <1>6, ValueCases DEF Agrees
<1> QED
  BY <1>5, <1>7

\* A join of paths that all say the same says that.
LEMMA JoinOfEqual ==
    ASSUME NEW I \in SUBSET Nat, I # {}, NEW vs, NEW v \in Value, \A i \in I : vs[i] = v
    PROVE  JoinOver(I, vs) = v
<1>1. Least(I) \in I
  BY LeastIsLeast
<1>2. vs[Least(I)] = v /\ v.tag # "MemoryRef"
  BY <1>1, ValueCases
<1>3. {i \in I : ~Agrees(vs[Least(I)], vs[i])} = {}
  BY <1>2 DEF Agrees
<1> QED
  BY <1>2, <1>3 DEF JoinOver, ScalarJoinOver

-----------------------------------------------------------------------------
(* The members of a set of numbers in increasing order *)

\* Induction over a set of numbers.
LEMMA Induction ==
    ASSUME NEW P \in SUBSET Nat, 0 \in P, \A n \in P : n + 1 \in P
    PROVE  P = Nat
<1> SUFFICES ASSUME Nat \ P # {}
             PROVE  FALSE
  OBVIOUS
<1>1. PICK m \in Nat \ P : \A j \in Nat \ P : m <= j
  <2>1. Nat \ P \in SUBSET Nat
    OBVIOUS
  <2> QED
    BY <2>1, LeastIsLeast
<1>2. m # 0 /\ m - 1 \in Nat
  OBVIOUS
<1>3. m - 1 \in P
  BY <1>1, <1>2
<1>4. m - 1 + 1 = m
  OBVIOUS
<1> QED
  BY <1>3, <1>4

\* The recursion Ascending is written as.
OneUp(S, g, k) ==
    IF k = 0 THEN <<>> ELSE IF k \in S THEN Append(g[k - 1], k) ELSE g[k - 1]

UpTo(S, n, g) ==
    g = [k \in 0..n |-> OneUp(S, g, k)]

\* There is a function that satisfies it ...
LEMMA UpToExists ==
    ASSUME NEW S, NEW n \in Nat
    PROVE  \E g : UpTo(S, n, g)
<1> DEFINE P == {m \in Nat : \E g : UpTo(S, m, g)}
<1>1. 0 \in P
  <2>1. UpTo(S, 0, [k \in 0..0 |-> <<>>])
    BY DEF UpTo, OneUp
  <2> QED
    BY <2>1
<1>2. ASSUME NEW m \in P
      PROVE  m + 1 \in P
  <2>1. PICK g : UpTo(S, m, g)
    OBVIOUS
  <2> DEFINE h == [k \in 0..(m + 1) |-> IF k <= m THEN g[k]
                                        ELSE IF k \in S THEN Append(g[m], k) ELSE g[m]]
  <2>2. ASSUME NEW k \in 0..(m + 1)
        PROVE  h[k] = OneUp(S, h, k)
    <3>1. CASE k = m + 1
      BY <3>1 DEF OneUp
    <3>2. CASE k \in 0..m
      <4>1. g[k] = OneUp(S, g, k)
        BY <2>1, <3>2 DEF UpTo
      <4> QED
        BY <3>2, <4>1 DEF OneUp
    <3> QED
      BY <3>1, <3>2
  <2>3. UpTo(S, m + 1, h)
    BY <2>2 DEF UpTo
  <2> QED
    BY <2>3
<1>3. P = Nat
  BY <1>1, <1>2, Induction
<1> QED
  BY <1>3

\* ... and one of them is enough: they all say the same up to where they go.
LEMMA UpToAgree ==
    ASSUME NEW S, NEW n \in Nat, NEW m \in Nat, NEW g, NEW h,
           UpTo(S, n, g), UpTo(S, m, h), n <= m
    PROVE  g[n] = h[n]
<1> DEFINE P == {k \in Nat : k <= n => g[k] = h[k]}
<1>1. \A k \in 0..n : g[k] = OneUp(S, g, k)
  BY DEF UpTo
<1>2. \A k \in 0..m : h[k] = OneUp(S, h, k)
  BY DEF UpTo
<1>3. 0 \in P
  <2>1. 0 \in 0..n /\ 0 \in 0..m
    OBVIOUS
  <2> QED
    BY <1>1, <1>2, <2>1 DEF OneUp
<1>4. ASSUME NEW k \in P
      PROVE  k + 1 \in P
  <2> SUFFICES ASSUME k + 1 <= n
               PROVE  g[k + 1] = h[k + 1]
    OBVIOUS
  <2>1. g[k] = h[k] /\ k + 1 \in 0..n /\ k + 1 \in 0..m /\ (k + 1) - 1 = k /\ k + 1 # 0
    OBVIOUS
  <2>2. g[k + 1] = IF k + 1 \in S THEN Append(g[k], k + 1) ELSE g[k]
    BY <1>1, <2>1 DEF OneUp
  <2>3. h[k + 1] = IF k + 1 \in S THEN Append(h[k], k + 1) ELSE h[k]
    BY <1>2, <2>1 DEF OneUp
  <2> QED
    BY <2>1, <2>2, <2>3
<1>5. P = Nat
  BY <1>3, <1>4, Induction
<1> QED
  BY <1>5

\* Ascending is the recursion it is written as.
LEMMA AscendingRecursion ==
    ASSUME NEW S, NEW n \in Nat
    PROVE  /\ Ascending(S, 0) = <<>>
           /\ Ascending(S, n + 1) = IF n + 1 \in S THEN Append(Ascending(S, n), n + 1)
                                    ELSE Ascending(S, n)
<1> DEFINE G(m) == CHOOSE g : UpTo(S, m, g)
<1>1. ASSUME NEW m \in Nat
      PROVE  Ascending(S, m) = G(m)[m] /\ UpTo(S, m, G(m))
  <2>1. UpTo(S, m, G(m))
    BY UpToExists
  <2>2. Ascending(S, m) = G(m)[m]
    BY DEF Ascending, UpTo, OneUp
  <2> QED
    BY <2>1, <2>2
<1> HIDE DEF G
<1>2. Ascending(S, 0) = <<>>
  <2>1. G(0)[0] = <<>>
    BY <1>1 DEF UpTo, OneUp
  <2> QED
    BY <1>1, <2>1
<1>3. G(n)[n] = G(n + 1)[n]
  BY <1>1, UpToAgree
<1>4. G(n + 1)[n + 1] = IF n + 1 \in S THEN Append(G(n + 1)[n], n + 1) ELSE G(n + 1)[n]
  <2>1. UpTo(S, n + 1, G(n + 1))
    BY <1>1
  <2>2. n + 1 \in 0..(n + 1) /\ n + 1 # 0 /\ (n + 1) - 1 = n
    OBVIOUS
  <2>3. G(n + 1)[n + 1] = OneUp(S, G(n + 1), n + 1)
    BY <2>1, <2>2 DEF UpTo
  <2> QED
    BY <2>2, <2>3 DEF OneUp
<1> QED
  BY <1>1, <1>2, <1>3, <1>4

\* It is increasing, and lists the members of S up to n, and nothing else.
LEMMA AscendingLists ==
    ASSUME NEW S, NEW n \in Nat
    PROVE  /\ Ascending(S, n) \in Seq(S \cap (1..n))
           /\ \A j, k \in 1..Len(Ascending(S, n)) : j < k => Ascending(S, n)[j] < Ascending(S, n)[k]
           /\ \A i \in S \cap (1..n) : \E k \in 1..Len(Ascending(S, n)) : Ascending(S, n)[k] = i
<1> DEFINE Lists(m, s) ==
              /\ s \in Seq(S \cap (1..m))
              /\ \A j, k \in 1..Len(s) : j < k => s[j] < s[k]
              /\ \A i \in S \cap (1..m) : \E k \in 1..Len(s) : s[k] = i
           P == {m \in Nat : Lists(m, Ascending(S, m))}
<1>1. 0 \in P
  <2>1. Ascending(S, 0) = <<>>
    BY AscendingRecursion
  <2>2. Lists(0, <<>>)
    OBVIOUS
  <2> QED
    BY <2>1, <2>2
<1>2. ASSUME NEW m \in P
      PROVE  m + 1 \in P
  <2> DEFINE s == Ascending(S, m)
  <2>1. Lists(m, s) /\ m \in Nat
    OBVIOUS
  <2>2. Ascending(S, m + 1) = IF m + 1 \in S THEN Append(s, m + 1) ELSE s
    BY AscendingRecursion
  <2> HIDE DEF s
  <2>3. s \in Seq(S \cap (1..(m + 1))) /\ Len(s) \in Nat
    <3>1. S \cap (1..m) \subseteq S \cap (1..(m + 1))
      OBVIOUS
    <3> QED
      BY <2>1, <3>1
  <2>4. \A k \in 1..Len(s) : s[k] \in S \cap (1..m)
    BY <2>1
  <2>5. CASE m + 1 \notin S
    <3>1. S \cap (1..(m + 1)) = S \cap (1..m)
      BY <2>5
    <3> QED
      BY <2>1, <2>2, <2>5, <3>1
  <2>6. CASE m + 1 \in S
    <3> DEFINE t == Append(s, m + 1)
    <3>1. /\ t \in Seq(S \cap (1..(m + 1))) /\ Len(t) = Len(s) + 1
          /\ \A k \in 1..Len(s) : t[k] = s[k]
          /\ t[Len(s) + 1] = m + 1
      BY <2>3, <2>6
    <3> HIDE DEF t
    <3>2. ASSUME NEW j \in 1..Len(t), NEW k \in 1..Len(t), j < k
          PROVE  t[j] < t[k]
      <4>1. j \in 1..Len(s) /\ t[j] = s[j] /\ s[j] \in 1..m
        BY <2>3, <2>4, <3>1, <3>2
      <4>2. CASE k \in 1..Len(s)
        BY <2>1, <3>1, <3>2, <4>1, <4>2
      <4>3. CASE k = Len(s) + 1
        BY <3>1, <4>1, <4>3
      <4> QED
        BY <2>3, <3>1, <4>2, <4>3
    <3>3. ASSUME NEW i \in S \cap (1..(m + 1))
          PROVE  \E k \in 1..Len(t) : t[k] = i
      <4>1. CASE i = m + 1
        <5>1. Len(s) + 1 \in 1..Len(t)
          BY <2>3, <3>1
        <5> QED
          BY <3>1, <4>1, <5>1
      <4>2. CASE i \in 1..m
        <5>1. PICK k \in 1..Len(s) : s[k] = i
          BY <2>1, <4>2
        <5>2. k \in 1..Len(t)
          BY <2>3, <3>1
        <5> QED
          BY <3>1, <5>1, <5>2
      <4> QED
        BY <4>1, <4>2
    <3>4. Lists(m + 1, t)
      BY <3>1, <3>2, <3>3
    <3>5. Ascending(S, m + 1) = t
      BY <2>2, <2>6 DEF t
    <3> QED
      BY <3>4, <3>5
  <2> QED
    BY <2>5, <2>6
<1>3. P = Nat
  BY <1>1, <1>2, Induction
<1> QED
  BY <1>3

\* Of a set that has every number up to n, it is all of them ...
LEMMA AscendingAll ==
    ASSUME NEW S, NEW n \in Nat, 1..n \subseteq S
    PROVE  Ascending(S, n) = [k \in 1..n |-> k]
<1> DEFINE P == {m \in Nat : m <= n => Ascending(S, m) = [k \in 1..m |-> k]}
<1>1. 0 \in P
  <2>1. [k \in 1..0 |-> k] = <<>>
    OBVIOUS
  <2> QED
    BY <2>1, AscendingRecursion
<1>2. ASSUME NEW m \in P
      PROVE  m + 1 \in P
  <2> SUFFICES ASSUME m + 1 <= n
               PROVE  Ascending(S, m + 1) = [k \in 1..(m + 1) |-> k]
    OBVIOUS
  <2>1. Ascending(S, m) = [k \in 1..m |-> k] /\ m + 1 \in S /\ m \in Nat
    OBVIOUS
  <2>2. Ascending(S, m + 1) = Append(Ascending(S, m), m + 1)
    BY <2>1, AscendingRecursion
  <2>3. [k \in 1..(m + 1) |-> k] = Append([k \in 1..m |-> k], m + 1)
    BY <2>1
  <2> QED
    BY <2>1, <2>2, <2>3
<1>3. P = Nat
  BY <1>1, <1>2, Induction
<1> QED
  BY <1>3

\* ... of one that has none, nothing ...
LEMMA AscendingNone ==
    ASSUME NEW S, NEW n \in Nat, S \cap (1..n) = {}
    PROVE  Ascending(S, n) = <<>>
<1> DEFINE P == {m \in Nat : m <= n => Ascending(S, m) = <<>>}
<1>1. 0 \in P
  BY AscendingRecursion
<1>2. ASSUME NEW m \in P
      PROVE  m + 1 \in P
  <2> SUFFICES ASSUME m + 1 <= n
               PROVE  Ascending(S, m + 1) = <<>>
    OBVIOUS
  <2>1. Ascending(S, m) = <<>> /\ m \in Nat /\ m + 1 \notin S
    OBVIOUS
  <2> QED
    BY <2>1, AscendingRecursion
<1>3. P = Nat
  BY <1>1, <1>2, Induction
<1> QED
  BY <1>3

\* ... and of one that lacks i only, all but i.
LEMMA AscendingAllBut ==
    ASSUME NEW S, NEW n \in Nat, NEW i \in 1..n, S \cap (1..n) = (1..n) \ {i}
    PROVE  Ascending(S, n) = [k \in 1..(n - 1) |-> IF k < i THEN k ELSE k + 1]
<1> DEFINE But(m) == [k \in 1..(m - 1) |-> IF k < i THEN k ELSE k + 1]
           P == {m \in Nat : i <= m /\ m <= n => Ascending(S, m) = But(m)}
<1>1. Ascending(S, i - 1) = [k \in 1..(i - 1) |-> k]
  BY AscendingAll
<1>2. 0 \in P
  OBVIOUS
<1>3. ASSUME NEW m \in P
      PROVE  m + 1 \in P
  <2> SUFFICES ASSUME i <= m + 1, m + 1 <= n
               PROVE  Ascending(S, m + 1) = But(m + 1)
    OBVIOUS
  <2>1. CASE i = m + 1
    <3>1. m = i - 1 /\ m + 1 \notin S
      BY <2>1
    <3>2. Ascending(S, m + 1) = Ascending(S, m)
      BY <3>1, AscendingRecursion
    <3>3. But(m + 1) = [k \in 1..m |-> k]
      BY <2>1
    <3> QED
      BY <1>1, <3>1, <3>2, <3>3
  <2>2. CASE i <= m
    <3>1. Ascending(S, m) = But(m) /\ m + 1 \in S /\ m \in Nat \ {0}
      BY <2>2
    <3>2. Ascending(S, m + 1) = Append(But(m), m + 1)
      BY <3>1, AscendingRecursion
    <3>3. But(m + 1) = Append(But(m), m + 1)
      BY <2>2, <3>1
    <3> QED
      BY <3>2, <3>3
  <2> QED
    BY <2>1, <2>2
<1>4. P = Nat
  BY <1>2, <1>3, Induction
<1> QED
  BY <1>4

-----------------------------------------------------------------------------
(* What is left of a sequence *)

\* A member before all others comes first.
LEMMA AscendingFirst ==
    ASSUME NEW S, NEW n \in Nat, NEW k \in 1..n, \A i \in S \cap (1..n) : k < i
    PROVE  Ascending(S \cup {k}, n) = <<k>> \o Ascending(S, n)
<1> DEFINE More == S \cup {k}
           First(m) == Ascending(More, m) = <<k>> \o Ascending(S, m)
           P == {m \in Nat : k <= m /\ m <= n => First(m)}
<1>1. 0 \in P
  OBVIOUS
<1>2. ASSUME NEW m \in Nat, k <= m /\ m <= n => First(m), k <= m + 1, m + 1 <= n
      PROVE  First(m + 1)
  <2>1. m \in Nat /\ m + 1 \in 1..n /\ m \in 0..n /\ k \in 1..n
    BY <1>2
  <2>2. /\ Ascending(More, m + 1) = IF m + 1 \in More THEN Append(Ascending(More, m), m + 1)
                                    ELSE Ascending(More, m)
        /\ Ascending(S, m + 1) = IF m + 1 \in S THEN Append(Ascending(S, m), m + 1)
                                 ELSE Ascending(S, m)
    BY <2>1, AscendingRecursion
  <2>3. CASE k = m + 1
    <3>1. More \cap (1..m) = {} /\ S \cap (1..m) = {} /\ m + 1 \in More /\ m + 1 \notin S
      BY <2>1, <2>3
    <3> HIDE DEF More
    <3>2. Ascending(More, m) = <<>> /\ Ascending(S, m) = <<>>
      BY <2>1, <3>1, AscendingNone
    <3>3. Ascending(More, m + 1) = <<m + 1>> /\ Ascending(S, m + 1) = <<>>
      BY <2>2, <3>1, <3>2
    <3>4. <<k>> \o <<>> = <<k>>
      OBVIOUS
    <3> QED
      BY <2>3, <3>3, <3>4
  <2>4. CASE k # m + 1
    <3>1. k <= m /\ m <= n /\ (m + 1 \in More <=> m + 1 \in S)
      BY <1>2, <2>1, <2>4
    <3>2. Ascending(More, m) = <<k>> \o Ascending(S, m)
      BY <1>2, <3>1
    <3>3. Ascending(S, m) \in Seq(S \cap (1..m))
      BY <2>1, AscendingLists
    <3> DEFINE t == Ascending(S, m)
    <3>4. t \in Seq(Nat)
      BY <3>3
    <3> HIDE DEF t, More
    <3>5. Append(<<k>> \o t, m + 1) = <<k>> \o Append(t, m + 1)
      BY <2>1, <3>4
    <3> QED
      BY <2>2, <3>1, <3>2, <3>5 DEF t
  <2> QED
    BY <2>3, <2>4
<1> HIDE DEF First
<1>3. \A m \in P : m + 1 \in P
  BY <1>2
<1>4. P = Nat
  <2>1. P \in SUBSET Nat
    OBVIOUS
  <2> HIDE DEF P
  <2> QED
    BY <1>1, <1>3, <2>1, Induction
<1>5. First(n)
  BY <1>4
<1> QED
  BY <1>5 DEF First

\* It is a sequence of what was there, each element at its old place or before it.
LEMMA PickedPlaces ==
    ASSUME NEW T, NEW s \in Seq(T), NEW P
    PROVE  LET t == Picked(s, P) IN LET kept == Ascending(P, Len(s))
           IN  /\ t \in Seq(T) /\ Len(t) = Len(kept) /\ Len(t) \in Nat
               /\ \A n \in 1..Len(t) : /\ t[n] = s[kept[n]]
                                       /\ kept[n] \in P \cap DOMAIN s
<1> DEFINE t == Picked(s, P)
           kept == Ascending(P, Len(s))
<1>1. kept \in Seq(P \cap (1..Len(s)))
  BY AscendingLists
<1>2. t = [n \in DOMAIN kept |-> s[kept[n]]]
  BY DEF Picked
<1> HIDE DEF t, kept
<1>3. DOMAIN kept = 1..Len(kept) /\ Len(kept) \in Nat
  BY <1>1
<1>4. \A n \in 1..Len(kept) : kept[n] \in P \cap DOMAIN s /\ s[kept[n]] \in T
  BY <1>1, <1>3
<1>5. t \in Seq(T) /\ Len(t) = Len(kept)
  BY <1>2, <1>3, <1>4
<1> QED
  BY <1>2, <1>3, <1>4, <1>5 DEF t, kept

\* With every place kept it is the sequence itself ...
LEMMA PickedAll ==
    ASSUME NEW T, NEW s \in Seq(T), NEW P, DOMAIN s \subseteq P
    PROVE  Picked(s, P) = s
<1>1. Ascending(P, Len(s)) = [k \in 1..Len(s) |-> k]
  BY AscendingAll
<1>2. Picked(s, P) = [k \in 1..Len(s) |-> s[k]]
  BY <1>1 DEF Picked
<1> QED
  BY <1>2

\* ... with none, empty ...
LEMMA PickedNone ==
    ASSUME NEW T, NEW s \in Seq(T), NEW P, P \cap DOMAIN s = {}
    PROVE  Picked(s, P) = <<>>
<1>1. Ascending(P, Len(s)) = <<>>
  BY AscendingNone
<1> QED
  BY <1>1 DEF Picked

\* ... and with one left out, the elements behind it move up by one.
LEMMA PickedAllBut ==
    ASSUME NEW T, NEW s \in Seq(T), NEW i \in DOMAIN s, NEW P, P \cap DOMAIN s = DOMAIN s \ {i}
    PROVE  /\ Picked(s, P) \in Seq(T)
           /\ Len(Picked(s, P)) = Len(s) - 1
           /\ \A k \in 1..(Len(s) - 1) : Picked(s, P)[k] = IF k < i THEN s[k] ELSE s[k + 1]
<1>1. Ascending(P, Len(s)) = [k \in 1..(Len(s) - 1) |-> IF k < i THEN k ELSE k + 1]
  BY AscendingAllBut
<1>2. Picked(s, P) = [k \in 1..(Len(s) - 1) |-> s[IF k < i THEN k ELSE k + 1]]
  BY <1>1 DEF Picked
<1> QED
  BY <1>2

-----------------------------------------------------------------------------
(* Sequences that grow at their end *)

\* A sequence, whatever its elements are.
IsGrowing(s) == s \in Seq({s[n] : n \in DOMAIN s})

\* The positions of such a sequence.
LEMMA Places ==
    ASSUME NEW s, IsGrowing(s)
    PROVE  DOMAIN s = 1..Len(s) /\ Len(s) \in Nat
  BY DEF IsGrowing

\* The empty sequence is one.
LEMMA NothingYet == IsGrowing(<<>>) /\ Len(<<>>) = 0 /\ DOMAIN <<>> = {}
<1>1. <<>> \in Seq({<<>>[n] : n \in DOMAIN <<>>})
  OBVIOUS
<1>2. Len(<<>>) = 0 /\ DOMAIN <<>> = {}
  OBVIOUS
<1> QED
  BY <1>1, <1>2 DEF IsGrowing

\* Appending keeps every earlier element and puts the new one last.
LEMMA Growing ==
    ASSUME NEW s, IsGrowing(s), NEW v
    PROVE  /\ IsGrowing(Append(s, v))
           /\ Len(Append(s, v)) = Len(s) + 1
           /\ Append(s, v)[Len(s) + 1] = v
           /\ \A k \in 1..Len(s) : Append(s, v)[k] = s[k]
<1> DEFINE T == {s[n] : n \in DOMAIN s} \cup {v}
           t == Append(s, v)
<1>1. s \in Seq(T) /\ v \in T
  BY DEF IsGrowing
<1>2. /\ t \in Seq(T) /\ Len(t) = Len(s) + 1 /\ t[Len(s) + 1] = v
      /\ \A k \in 1..Len(s) : t[k] = s[k]
  BY <1>1
<1>3. t \in Seq({t[n] : n \in DOMAIN t})
  BY <1>2
<1> QED
  BY <1>2, <1>3 DEF IsGrowing

\* An element of a sequence, and where it is.
LEMMA ElementOf ==
    ASSUME NEW T, NEW s \in Seq(T), NEW k \in DOMAIN s
    PROVE  s[k] \in T /\ k \in 1..Len(s) /\ Len(s) \in Nat
  OBVIOUS

-----------------------------------------------------------------------------
(* Arithmetic modulo the width of a word *)

\* A number is a multiple of the modulus and the rest.
LEMMA ModSplit ==
    ASSUME NEW a \in Int, NEW M \in Nat \ {0}
    PROVE  \E q \in Int : \E r \in 0..(M - 1) : a = M * q + r /\ a % M = r
<1>1. a = (M * (a \div M)) + (a % M)
  OBVIOUS
<1>2. a \div M \in Int /\ a % M \in 0..(M - 1)
  OBVIOUS
<1> QED
  BY <1>1, <1>2

\* The rest is the only one.
LEMMA ModUnique ==
    ASSUME NEW M \in Nat \ {0}, NEW q \in Int, NEW r \in 0..(M - 1)
    PROVE  (M * q + r) % M = r
  OBVIOUS

\* Reducing a number before something is added changes nothing after.
LEMMA ModPlus ==
    ASSUME NEW a \in Int, NEW d \in Int, NEW M \in Nat \ {0}
    PROVE  ((a % M) + d) % M = (a + d) % M
<1>1. PICK q \in Int, r \in 0..(M - 1) : a = M * q + r /\ a % M = r
  BY ModSplit
<1>2. PICK p \in Int, t \in 0..(M - 1) : r + d = M * p + t /\ (r + d) % M = t
  BY ModSplit
<1>3. a + d = M * (q + p) + t
  BY <1>1, <1>2
<1>4. (M * (q + p) + t) % M = t
  BY ModUnique
<1> QED
  BY <1>1, <1>2, <1>3, <1>4

\* Neither does reducing it twice.
LEMMA ModTwice ==
    ASSUME NEW a \in Int, NEW M \in Nat \ {0}
    PROVE  (a % M) % M = a % M
<1>1. PICK r \in 0..(M - 1) : a % M = r
  BY ModSplit
<1>2. r % M = r
  OBVIOUS
<1> QED
  BY <1>1, <1>2

=============================================================================
