-------------------------- MODULE MergePaths_proofs --------------------------
(****************************************************************************)
(* Theorems about the loop of join_all, for values of every shape, the      *)
(* memory reads and mutated regions of the backward resolver included, and  *)
(* any number of paths.                                                     *)
(****************************************************************************)
EXTENDS MergePaths, ValueLattice_proofs, FunctionTheorems, FiniteSetTheorems

-----------------------------------------------------------------------------
(* The closed form of one more path *)

\* A path before all the others in S is the least of them.
LEMMA LeastIs ==
    ASSUME NEW S \in SUBSET Nat, NEW m \in S, \A j \in S : m <= j
    PROVE  Least(S) = m
<1>1. S # {}
  OBVIOUS
<1>2. Least(S) \in S /\ \A j \in S : Least(S) <= j
  BY <1>1, LeastIsLeast
<1>3. Least(S) \in Nat /\ m \in Nat /\ Least(S) <= m /\ m <= Least(S)
  BY <1>2
<1> QED
  BY <1>3

\* The first of some paths.
LEMMA FirstPath ==
    ASSUME NEW t \in Nat \ {0}
    PROVE  Least(1..t) = 1 /\ 1..t # {} /\ 1..t \in SUBSET Nat
<1>1. 1 \in 1..t /\ 1..t \in SUBSET Nat /\ \A j \in 1..t : 1 <= j
  OBVIOUS
<1> QED
  BY <1>1, LeastIs

\* Of the paths apart from the first, the least stays the least when one more
\* path comes after it.
LEMMA LeastOfMore ==
    ASSUME NEW t \in Nat, NEW S \in SUBSET (1..t), NEW T \in SUBSET (1..(t + 1)),
           S = T \ {t + 1}
    PROVE  /\ S # {} => T # {} /\ Least(T) = Least(S)
           /\ S = {} /\ T # {} => Least(T) = t + 1
<1>1. CASE S # {}
  <2>1. S \in SUBSET Nat /\ T \in SUBSET Nat
    OBVIOUS
  <2>2. PICK m \in S : Least(S) = m /\ \A j \in S : m <= j
    BY <1>1, <2>1, LeastIsLeast
  <2>3. m \in T /\ m \in Nat /\ m <= t + 1
    OBVIOUS
  <2>4. ASSUME NEW j \in T
        PROVE  m <= j
    <3>1. CASE j \in S
      BY <3>1, <2>2
    <3>2. CASE j = t + 1
      BY <3>2, <2>3
    <3> QED
      BY <3>1, <3>2
  <2> QED
    BY <2>1, <2>2, <2>3, <2>4, LeastIs
<1>2. CASE S = {} /\ T # {}
  <2>1. T = {t + 1}
    BY <1>2
  <2> QED
    BY <1>2, <2>1, LeastIs
<1> QED
  BY <1>1, <1>2

\* Values that are not the same join to an Unknown.
LEMMA ApartIsUnknown ==
    ASSUME NEW a, NEW b, ~Agrees(a, b)
    PROVE  IsUnknown(ScalarJoin(a, b))
  BY DEF ScalarJoin, IsUnknown, Because

\* ... and values that are the same to the first of them.
LEMMA AgreeingIsFirst ==
    ASSUME NEW a, NEW b, Agrees(a, b)
    PROVE  ScalarJoin(a, b) = a
  BY DEF ScalarJoin, Agrees, IsUnknown

\* One more path, where no path reads memory.
LEMMA ScalarStep ==
    ASSUME NEW t \in Nat \ {0}, NEW vs
    PROVE  ScalarJoinOver(1..(t + 1), vs) = ScalarJoin(ScalarJoinOver(1..t, vs), vs[t + 1])
<1> DEFINE first == vs[1]
           S == {i \in 1..t : ~Agrees(first, vs[i])}
           T == {i \in 1..(t + 1) : ~Agrees(first, vs[i])}
<1>1. /\ ScalarJoinOver(1..t, vs) = IF S = {} THEN first ELSE ScalarJoin(first, vs[Least(S)])
      /\ ScalarJoinOver(1..(t + 1), vs) = IF T = {} THEN first ELSE ScalarJoin(first, vs[Least(T)])
  <2>1. Least(1..t) = 1 /\ Least(1..(t + 1)) = 1
    BY FirstPath
  <2> QED
    BY <2>1 DEF ScalarJoinOver
<1>2. /\ S \in SUBSET (1..t) /\ T \in SUBSET (1..(t + 1)) /\ S = T \ {t + 1}
      /\ t + 1 \in T <=> ~Agrees(first, vs[t + 1])
  OBVIOUS
<1>3. \A i \in S : ~Agrees(first, vs[i])
  OBVIOUS
<1> HIDE DEF first, S, T
<1>4. CASE S # {}
  <2>1. Least(S) \in S
    BY <1>2, <1>4, LeastIsLeast
  <2>2. IsUnknown(ScalarJoin(first, vs[Least(S)]))
    BY <1>3, <2>1, ApartIsUnknown
  <2>3. T # {} /\ Least(T) = Least(S)
    BY <1>2, <1>4, LeastOfMore
  <2> QED
    BY <1>1, <1>4, <2>2, <2>3 DEF ScalarJoin
<1>5. CASE S = {} /\ T # {}
  <2>1. Least(T) = t + 1
    BY <1>2, <1>5, LeastOfMore
  <2> QED
    BY <1>1, <1>5, <2>1
<1>6. CASE S = {} /\ T = {}
  BY <1>1, <1>2, <1>6, AgreeingIsFirst
<1> QED
  BY <1>4, <1>5, <1>6

\* The closed form looks at the paths it is given and no further.
LEMMA SamePathsSameJoin ==
    ASSUME NEW I \in SUBSET Nat, I # {}, NEW vs, NEW ws, \A i \in I : vs[i] = ws[i]
    PROVE  ScalarJoinOver(I, vs) = ScalarJoinOver(I, ws)
<1>1. Least(I) \in I
  BY LeastIsLeast
<1> DEFINE S == {i \in I : ~Agrees(vs[Least(I)], vs[i])}
           T == {i \in I : ~Agrees(ws[Least(I)], ws[i])}
<1>2. S = T
  BY <1>1
<1>3. S # {} => Least(S) \in I
  BY LeastIsLeast
<1> QED
  BY <1>1, <1>2, <1>3 DEF ScalarJoinOver

\* One more path, where all read the same cell of memory.
LEMMA CellStep ==
    ASSUME NEW t \in Nat \ {0}, NEW vs
    PROVE  CellJoinOver(1..(t + 1), vs)
             = MemoryRef(vs[1].addr, ScalarJoin(CellJoinOver(1..t, vs).content, vs[t + 1].content))
<1> DEFINE cs == [i \in 1..t |-> vs[i].content]
           ds == [i \in 1..(t + 1) |-> vs[i].content]
<1>1. /\ CellJoinOver(1..t, vs) = MemoryRef(vs[1].addr, ScalarJoinOver(1..t, cs))
      /\ CellJoinOver(1..(t + 1), vs) = MemoryRef(vs[1].addr, ScalarJoinOver(1..(t + 1), ds))
  BY FirstPath DEF CellJoinOver
<1>2. \A i \in 1..t : cs[i] = ds[i]
  OBVIOUS
<1>3. ds[t + 1] = vs[t + 1].content
  OBVIOUS
<1> HIDE DEF cs, ds
<1>4. ScalarJoinOver(1..t, cs) = ScalarJoinOver(1..t, ds)
  BY <1>2, FirstPath, SamePathsSameJoin
<1>5. ScalarJoinOver(1..(t + 1), ds) = ScalarJoin(ScalarJoinOver(1..t, ds), ds[t + 1])
  BY ScalarStep
<1>6. CellJoinOver(1..t, vs).content = ScalarJoinOver(1..t, ds)
  BY <1>1, <1>4 DEF MemoryRef
<1> QED
  BY <1>1, <1>3, <1>5, <1>6

-----------------------------------------------------------------------------
(* The loop computes the closed form *)

\* The join of one path is its value, ...
LEMMA JoinOfOne ==
    ASSUME NEW vs, vs[1].tag = "MemoryRef" => vs[1] = MemoryRef(vs[1].addr, vs[1].content)
    PROVE  JoinOver(1..1, vs) = vs[1]
<1>1. Least(1..1) = 1 /\ 1..1 = {1} /\ 1..1 # {}
  <2>1. 1 \in Nat \ {0} /\ 1..1 = {1}
    OBVIOUS
  <2> QED
    BY <2>1, FirstPath
<1>2. SameCell(vs[1], vs[1]) \/ vs[1].tag # "MemoryRef"
  BY DEF SameCell
<1>3. ASSUME NEW ws
      PROVE  ScalarJoinOver(1..1, ws) = ws[1]
  <2>1. {i \in 1..1 : ~Agrees(ws[1], ws[i])} = {}
    BY <1>1 DEF Agrees
  <2> QED
    BY <1>1, <2>1 DEF ScalarJoinOver
<1>4. CASE vs[1].tag # "MemoryRef"
  <2>1. JoinOver(1..1, vs) = ScalarJoinOver(1..1, vs)
    BY <1>1, <1>4 DEF JoinOver
  <2> QED
    BY <2>1, <1>3
<1>5. CASE vs[1].tag = "MemoryRef"
  <2>1. {i \in 1..1 : ~SameCell(vs[1], vs[i])} = {}
    BY <1>1, <1>2, <1>5
  <2>2. JoinOver(1..1, vs) = CellJoinOver(1..1, vs)
    BY <1>1, <1>5, <2>1 DEF JoinOver
  <2>3. CellJoinOver(1..1, vs) = MemoryRef(vs[1].addr, [i \in 1..1 |-> vs[i].content][1])
    BY <1>1, <1>3 DEF CellJoinOver
  <2> QED
    BY <1>5, <2>2, <2>3
<1> QED
  BY <1>4, <1>5

\* What the join of paths is when the first does not read memory ...
LEMMA PlainFirst ==
    ASSUME NEW t \in Nat \ {0}, NEW vs, vs[1].tag # "MemoryRef"
    PROVE  /\ JoinOver(1..t, vs) = ScalarJoinOver(1..t, vs)
           /\ JoinOver(1..t, vs).tag # "MemoryRef"
<1>1. JoinOver(1..t, vs) = ScalarJoinOver(1..t, vs)
  BY FirstPath DEF JoinOver
<1> DEFINE apart == {i \in 1..t : ~Agrees(vs[1], vs[i])}
<1>2. ScalarJoinOver(1..t, vs)
        = IF apart = {} THEN vs[1] ELSE ScalarJoin(vs[1], vs[Least(apart)])
  <2>1. Least(1..t) = 1
    BY FirstPath
  <2> QED
    BY <2>1 DEF ScalarJoinOver
<1>3. apart # {} => ~Agrees(vs[1], vs[Least(apart)])
  <2>1. apart \in SUBSET Nat
    OBVIOUS
  <2>2. apart # {} => Least(apart) \in apart
    BY <2>1, LeastIsLeast
  <2> QED
    BY <2>2
<1> HIDE DEF apart
<1>4. apart # {} => IsUnknown(ScalarJoin(vs[1], vs[Least(apart)]))
  BY <1>3, ApartIsUnknown
<1> QED
  BY <1>1, <1>2, <1>4 DEF IsUnknown

\* ... and when it does: the paths before the first that reads something else,
\* and that one.
LEMMA CellFirst ==
    ASSUME NEW t \in Nat \ {0}, NEW vs, vs[1].tag = "MemoryRef"
    PROVE  LET apart == {i \in 1..t : ~SameCell(vs[1], vs[i])}
           IN  /\ apart = {} => JoinOver(1..t, vs) = CellJoinOver(1..t, vs)
               /\ apart # {} =>
                    /\ JoinOver(1..t, vs)
                         = ScalarJoin(CellJoinOver({i \in 1..t : i < Least(apart)}, vs),
                                      vs[Least(apart)])
                    /\ IsUnknown(JoinOver(1..t, vs))
<1> DEFINE apart == {i \in 1..t : ~SameCell(vs[1], vs[i])}
           before == {i \in 1..t : i < Least(apart)}
<1>1. Least(1..t) = 1 /\ 1..t # {}
  BY FirstPath
<1>2. apart = {} => JoinOver(1..t, vs) = CellJoinOver(1..t, vs)
  BY <1>1 DEF JoinOver
<1>3. ASSUME apart # {}
      PROVE  JoinOver(1..t, vs) = ScalarJoin(CellJoinOver(before, vs), vs[Least(apart)])
  BY <1>1, <1>3 DEF JoinOver
<1>4. ASSUME apart # {}
      PROVE  IsUnknown(ScalarJoin(CellJoinOver(before, vs), vs[Least(apart)]))
  <2>1. apart \in SUBSET Nat
    OBVIOUS
  <2>2. PICK k \in apart : Least(apart) = k /\ \A j \in apart : k <= j
    BY <1>4, <2>1, LeastIsLeast
  <2>3. ~SameCell(vs[1], vs[k]) /\ k \in 1..t /\ k # 1
    BY DEF SameCell
  <2>4. before \in SUBSET Nat /\ 1 \in before /\ \A j \in before : 1 <= j
    BY <2>2, <2>3
  <2>5. Least(before) = 1
    BY <2>4, LeastIs
  <2>6. /\ CellJoinOver(before, vs).tag = "MemoryRef"
        /\ CellJoinOver(before, vs).addr = vs[1].addr
    BY <2>5 DEF CellJoinOver, MemoryRef
  <2>7. ~Agrees(CellJoinOver(before, vs), vs[k])
    BY <2>3, <2>6 DEF Agrees, SameCell
  <2> QED
    BY <2>2, <2>7, ApartIsUnknown
<1> QED
  BY <1>2, <1>3, <1>4

\* ... and one more path is joined to the join of those before it.
LEMMA OneMorePath ==
    ASSUME NEW t \in Nat \ {0}, NEW vs
    PROVE  JoinOver(1..(t + 1), vs) = Join(JoinOver(1..t, vs), vs[t + 1])
<1> DEFINE v == vs[t + 1]
<1>1. CASE vs[1].tag # "MemoryRef"
  <2>1. Join(JoinOver(1..t, vs), v) = ScalarJoin(JoinOver(1..t, vs), v)
    BY <1>1, PlainFirst DEF Join, SameCell
  <2> QED
    BY <1>1, <2>1, PlainFirst, ScalarStep
<1>2. CASE vs[1].tag = "MemoryRef"
  <2> DEFINE S == {i \in 1..t : ~SameCell(vs[1], vs[i])}
             T == {i \in 1..(t + 1) : ~SameCell(vs[1], vs[i])}
  <2>1. /\ S \in SUBSET (1..t) /\ T \in SUBSET (1..(t + 1)) /\ S = T \ {t + 1}
        /\ t + 1 \in T <=> ~SameCell(vs[1], v)
    OBVIOUS
  <2>2. /\ S = {} => JoinOver(1..t, vs) = CellJoinOver(1..t, vs)
        /\ T = {} => JoinOver(1..(t + 1), vs) = CellJoinOver(1..(t + 1), vs)
    <3>1. S = {} => JoinOver(1..t, vs) = CellJoinOver(1..t, vs)
      BY <1>2, CellFirst
    <3>2. t + 1 \in Nat \ {0}
      OBVIOUS
    <3>3. T = {} => JoinOver(1..(t + 1), vs) = CellJoinOver(1..(t + 1), vs)
      BY <1>2, <3>2, CellFirst
    <3> QED
      BY <3>1, <3>3
  <2>3. ASSUME S # {}
        PROVE  /\ JoinOver(1..t, vs) = ScalarJoin(CellJoinOver({i \in 1..t : i < Least(S)}, vs),
                                                  vs[Least(S)])
               /\ IsUnknown(JoinOver(1..t, vs))
    BY <1>2, <2>3, CellFirst
  <2>4. ASSUME T # {}
        PROVE  JoinOver(1..(t + 1), vs)
                 = ScalarJoin(CellJoinOver({i \in 1..(t + 1) : i < Least(T)}, vs), vs[Least(T)])
    BY <1>2, <2>4, CellFirst
  <2>5. CellJoinOver(1..t, vs) = MemoryRef(vs[1].addr, CellJoinOver(1..t, vs).content)
    BY FirstPath DEF CellJoinOver, MemoryRef
  <2> HIDE DEF S, T
  <2>6. CASE S # {}
    <3>1. T # {} /\ Least(T) = Least(S)
      BY <2>1, <2>6, LeastOfMore
    <3>2. Least(S) \in 1..t
      <4>1. S \in SUBSET Nat
        BY <2>1
      <4> QED
        BY <2>1, <2>6, <4>1, LeastIsLeast
    <3>3. {i \in 1..(t + 1) : i < Least(S)} = {i \in 1..t : i < Least(S)}
      BY <3>2
    <3>4. JoinOver(1..(t + 1), vs) = JoinOver(1..t, vs)
      BY <2>3, <2>4, <2>6, <3>1, <3>3
    <3>5. Join(JoinOver(1..t, vs), v) = JoinOver(1..t, vs)
      BY <2>3, <2>6 DEF Join, SameCell, ScalarJoin, IsUnknown
    <3> QED
      BY <3>4, <3>5
  <2>7. CASE S = {} /\ T # {}
    <3>1. Least(T) = t + 1
      BY <2>1, <2>7, LeastOfMore
    <3>2. {i \in 1..(t + 1) : i < t + 1} = 1..t
      OBVIOUS
    <3>3. ~SameCell(vs[1], v)
      <4>1. T = {t + 1}
        BY <2>1, <2>7
      <4> QED
        BY <2>1, <4>1
    <3>4. ~SameCell(JoinOver(1..t, vs), v)
      BY <1>2, <2>2, <2>5, <2>7, <3>3 DEF SameCell, MemoryRef
    <3> QED
      BY <2>2, <2>4, <2>7, <3>1, <3>2, <3>4 DEF Join
  <2>8. CASE S = {} /\ T = {}
    <3>1. SameCell(vs[1], v)
      BY <2>1, <2>8
    <3>2. SameCell(JoinOver(1..t, vs), v) /\ JoinOver(1..t, vs).addr = vs[1].addr
      BY <2>2, <2>5, <2>8, <3>1 DEF SameCell, MemoryRef
    <3> QED
      BY <2>2, <2>8, <3>2, CellStep DEF Join
  <2> QED
    BY <2>6, <2>7, <2>8
<1> QED
  BY <1>1, <1>2

-----------------------------------------------------------------------------
(* What a known join says *)

\* The paths are alike: all read the same cell, or all have the same value.
Alike(t, vs) ==
    IF vs[1].tag = "MemoryRef" THEN \A n \in 1..t : SameCell(vs[1], vs[n])
    ELSE IsKnown(vs[1]) /\ \A n \in 1..t : Agrees(vs[1], vs[n])

\* Being the same is an equivalence.
LEMMA SameTransitive ==
    ASSUME NEW a, NEW b, NEW c
    PROVE  /\ Agrees(a, b) /\ Agrees(a, c) => Agrees(b, c)
           /\ SameCell(a, b) /\ SameCell(a, c) => SameCell(b, c)
  BY DEF Agrees, SameCell

\* A join of values none of which reads memory is known only if they agree.
LEMMA ScalarKnown ==
    ASSUME NEW t \in Nat \ {0}, NEW vs
    PROVE  /\ IsKnown(ScalarJoinOver(1..t, vs))
                => IsKnown(vs[1]) /\ \A n \in 1..t : Agrees(vs[1], vs[n])
           /\ (\A n \in 1..t : Agrees(vs[1], vs[n])) => ScalarJoinOver(1..t, vs) = vs[1]
<1> DEFINE apart == {i \in 1..t : ~Agrees(vs[1], vs[i])}
<1>1. ScalarJoinOver(1..t, vs)
        = IF apart = {} THEN vs[1] ELSE ScalarJoin(vs[1], vs[Least(apart)])
  <2>1. Least(1..t) = 1
    BY FirstPath
  <2> QED
    BY <2>1 DEF ScalarJoinOver
<1>2. apart # {} => ~Agrees(vs[1], vs[Least(apart)])
  <2>1. apart \in SUBSET Nat
    OBVIOUS
  <2>2. apart # {} => Least(apart) \in apart
    BY <2>1, LeastIsLeast
  <2> QED
    BY <2>2
<1>3. apart = {} <=> \A n \in 1..t : Agrees(vs[1], vs[n])
  OBVIOUS
<1> HIDE DEF apart
<1>4. apart # {} => IsUnknown(ScalarJoin(vs[1], vs[Least(apart)]))
  BY <1>2, ApartIsUnknown
<1> QED
  BY <1>1, <1>3, <1>4 DEF IsKnown, IsUnknown

\* The content of a joined cell, where it is known, is what every path read.
LEMMA CellKnown ==
    ASSUME NEW t \in Nat \ {0}, NEW vs
    PROVE  LET c == CellJoinOver(1..t, vs).content
           IN  /\ CellJoinOver(1..t, vs) = MemoryRef(vs[1].addr, c)
               /\ IsKnown(c) => \A n \in 1..t : Agrees(c, vs[n].content)
               /\ (\A n \in 1..t : Agrees(vs[1].content, vs[n].content)) => c = vs[1].content
<1> DEFINE cs == [i \in 1..t |-> vs[i].content]
<1>1. CellJoinOver(1..t, vs) = MemoryRef(vs[1].addr, ScalarJoinOver(1..t, cs))
  BY FirstPath DEF CellJoinOver
<1>2. CellJoinOver(1..t, vs).content = ScalarJoinOver(1..t, cs)
  BY <1>1 DEF MemoryRef
<1>3. \A n \in 1..t : cs[n] = vs[n].content
  OBVIOUS
<1>4. 1 \in 1..t
  OBVIOUS
<1> HIDE DEF cs
<1>5. /\ IsKnown(ScalarJoinOver(1..t, cs)) => \A n \in 1..t : Agrees(cs[1], cs[n])
      /\ (\A n \in 1..t : Agrees(cs[1], cs[n])) => ScalarJoinOver(1..t, cs) = cs[1]
  BY ScalarKnown
<1> QED
  BY <1>1, <1>2, <1>3, <1>4, <1>5

\* The join of some paths is known exactly if they are alike, and then it is
\* the first path's value, the content of a cell aside.
LEMMA KnownIffAlike ==
    ASSUME NEW t \in Nat \ {0}, NEW vs
    PROVE  /\ IsKnown(JoinOver(1..t, vs)) <=> Alike(t, vs)
           /\ Alike(t, vs) => JoinOver(1..t, vs) = IF vs[1].tag = "MemoryRef"
                                                     THEN CellJoinOver(1..t, vs) ELSE vs[1]
<1>1. CASE vs[1].tag # "MemoryRef"
  <2>1. JoinOver(1..t, vs) = ScalarJoinOver(1..t, vs)
    BY <1>1, PlainFirst
  <2> QED
    BY <1>1, <2>1, ScalarKnown DEF Alike
<1>2. CASE vs[1].tag = "MemoryRef"
  <2> DEFINE apart == {i \in 1..t : ~SameCell(vs[1], vs[i])}
  <2>1. /\ apart = {} => JoinOver(1..t, vs) = CellJoinOver(1..t, vs)
        /\ apart # {} => IsUnknown(JoinOver(1..t, vs))
    BY <1>2, CellFirst
  <2>2. apart = {} <=> Alike(t, vs)
    BY <1>2 DEF Alike
  <2>3. IsKnown(CellJoinOver(1..t, vs))
    BY DEF CellJoinOver, MemoryRef, IsKnown
  <2> QED
    BY <1>2, <2>1, <2>2, <2>3 DEF IsKnown, IsUnknown
<1> QED
  BY <1>1, <1>2

\* A known join is the same as the value of every path.
LEMMA KnownIsSame ==
    ASSUME NEW t \in Nat \ {0}, NEW vs, IsKnown(JoinOver(1..t, vs)), NEW n \in 1..t
    PROVE  Same(JoinOver(1..t, vs), vs[n])
<1>1. Alike(t, vs)
  BY KnownIffAlike
<1>2. CASE vs[1].tag # "MemoryRef"
  <2>1. JoinOver(1..t, vs) = vs[1] /\ Agrees(vs[1], vs[n])
    BY <1>1, <1>2, KnownIffAlike DEF Alike
  <2> QED
    BY <1>2, <2>1 DEF Same, SameCell
<1>3. CASE vs[1].tag = "MemoryRef"
  <2> DEFINE c == CellJoinOver(1..t, vs).content
  <2>1. JoinOver(1..t, vs) = MemoryRef(vs[1].addr, c)
    BY <1>1, <1>3, KnownIffAlike, CellKnown
  <2>2. SameCell(vs[1], vs[n])
    BY <1>1, <1>3 DEF Alike
  <2>3. IsKnown(c) => Agrees(c, vs[n].content)
    BY CellKnown
  <2> HIDE DEF c
  <2>4. SameCell(JoinOver(1..t, vs), vs[n]) /\ JoinOver(1..t, vs).content = c
    BY <2>1, <2>2 DEF SameCell, MemoryRef
  <2> QED
    BY <2>3, <2>4 DEF Same, IsKnown, IsUnknown
<1> QED
  BY <1>2, <1>3

-----------------------------------------------------------------------------
(* The order of the paths *)

\* Being alike is about which values there are, not where they stand.
LEMMA AlikeAnywhere ==
    ASSUME NEW t \in Nat \ {0}, NEW vs, NEW ws, Alike(t, vs),
           \A n \in 1..t : \E m \in 1..t : ws[n] = vs[m]
    PROVE  Alike(t, ws) /\ (ws[1].tag = "MemoryRef" <=> vs[1].tag = "MemoryRef")
<1>1. PICK k \in 1..t : ws[1] = vs[k]
  OBVIOUS
<1>2. CASE vs[1].tag = "MemoryRef"
  <2>1. \A n \in 1..t : SameCell(vs[1], ws[n])
    BY <1>2 DEF Alike
  <2>2. SameCell(vs[1], ws[1])
    BY <2>1
  <2>3. \A n \in 1..t : SameCell(ws[1], ws[n])
    BY <2>1, <2>2, SameTransitive
  <2> QED
    BY <1>2, <2>2, <2>3 DEF Alike, SameCell
<1>3. CASE vs[1].tag # "MemoryRef"
  <2>1. IsKnown(vs[1]) /\ \A n \in 1..t : Agrees(vs[1], ws[n])
    BY <1>3 DEF Alike
  <2>2. Agrees(vs[1], ws[1])
    BY <2>1
  <2>3. \A n \in 1..t : Agrees(ws[1], ws[n])
    BY <2>1, <2>2, SameTransitive
  <2>4. IsKnown(ws[1]) /\ ws[1].tag # "MemoryRef"
    BY <1>3, <2>1, <2>2 DEF Agrees, IsKnown
  <2> QED
    BY <1>3, <2>3, <2>4 DEF Alike
<1> QED
  BY <1>2, <1>3

\* Reads of one address.
LEMMA CellsOfOneAddress ==
    ASSUME NEW addr, NEW c, NEW d
    PROVE  /\ SameCell(MemoryRef(addr, c), MemoryRef(addr, d))
           /\ MemoryRef(addr, c).content = c /\ MemoryRef(addr, d).content = d
  BY DEF SameCell, MemoryRef

\* Paths with the same values in another order join to the same value.
LEMMA OrderOfPaths ==
    ASSUME NEW t \in Nat \ {0}, NEW vs, NEW ws,
           \A n \in 1..t : \E m \in 1..t : ws[n] = vs[m],
           \A n \in 1..t : \E m \in 1..t : vs[n] = ws[m]
    PROVE  /\ IsKnown(JoinOver(1..t, vs)) <=> IsKnown(JoinOver(1..t, ws))
           /\ IsKnown(JoinOver(1..t, vs)) => Same(JoinOver(1..t, vs), JoinOver(1..t, ws))
<1>1. Alike(t, vs) <=> Alike(t, ws)
  BY AlikeAnywhere
<1>2. IsKnown(JoinOver(1..t, vs)) <=> IsKnown(JoinOver(1..t, ws))
  BY <1>1, KnownIffAlike
<1>3. ASSUME IsKnown(JoinOver(1..t, vs))
      PROVE  Same(JoinOver(1..t, vs), JoinOver(1..t, ws))
  <2>1. Alike(t, vs) /\ Alike(t, ws) /\ (ws[1].tag = "MemoryRef" <=> vs[1].tag = "MemoryRef")
    <3>1. Alike(t, vs) /\ Alike(t, ws)
      BY <1>1, <1>3, KnownIffAlike
    <3> QED
      BY <3>1, AlikeAnywhere
  <2>2. PICK k \in 1..t : ws[1] = vs[k]
    OBVIOUS
  <2>3. CASE vs[1].tag # "MemoryRef"
    <3>1. JoinOver(1..t, vs) = vs[1] /\ JoinOver(1..t, ws) = vs[k]
      BY <2>1, <2>2, <2>3, KnownIffAlike
    <3>2. Agrees(vs[1], vs[k])
      BY <2>1, <2>3 DEF Alike
    <3> QED
      BY <2>3, <3>1, <3>2 DEF Same, SameCell
  <2>4. CASE vs[1].tag = "MemoryRef"
    <3> DEFINE c == CellJoinOver(1..t, vs).content
               d == CellJoinOver(1..t, ws).content
    <3>1. /\ JoinOver(1..t, vs) = MemoryRef(vs[1].addr, c)
          /\ JoinOver(1..t, ws) = MemoryRef(ws[1].addr, d)
      <4>1. /\ JoinOver(1..t, vs) = CellJoinOver(1..t, vs)
            /\ JoinOver(1..t, ws) = CellJoinOver(1..t, ws)
        BY <2>1, <2>4, KnownIffAlike
      <4> QED
        BY <4>1, CellKnown
    <3>2. SameCell(vs[1], ws[1])
      BY <2>1, <2>2, <2>4 DEF Alike
    <3>3. ASSUME IsKnown(c)
          PROVE  Agrees(c, d)
      <4>1. \A n \in 1..t : Agrees(c, vs[n].content)
        BY <3>3, CellKnown
      <4>2. \A n \in 1..t : Agrees(c, ws[n].content)
        BY <4>1
      <4> HIDE DEF c
      <4>3. 1 \in 1..t
        OBVIOUS
      <4>4. \A n \in 1..t : Agrees(ws[1].content, ws[n].content)
        <5>1. Agrees(c, ws[1].content)
          BY <4>2, <4>3
        <5> QED
          BY <4>2, <5>1 DEF Agrees
      <4>5. d = ws[1].content
        BY <4>4, CellKnown
      <4> QED
        BY <4>2, <4>3, <4>5
    <3> HIDE DEF c, d
    <3>4. /\ SameCell(JoinOver(1..t, vs), JoinOver(1..t, ws))
          /\ JoinOver(1..t, vs).content = c /\ JoinOver(1..t, ws).content = d
      <4>1. vs[1].addr = ws[1].addr
        BY <3>2 DEF SameCell
      <4>2. JoinOver(1..t, ws) = MemoryRef(vs[1].addr, d)
        BY <3>1, <4>1
      <4>3. /\ SameCell(MemoryRef(vs[1].addr, c), MemoryRef(vs[1].addr, d))
            /\ MemoryRef(vs[1].addr, c).content = c /\ MemoryRef(vs[1].addr, d).content = d
        BY CellsOfOneAddress
      <4> QED
        BY <3>1, <4>2, <4>3
    <3> QED
      BY <3>3, <3>4 DEF Same, IsKnown, IsUnknown
  <2> QED
    BY <2>3, <2>4
<1> QED
  BY <1>2, <1>3

\* A rearrangement leaves out no path.
LEMMA EveryPathSomewhere ==
    ASSUME NEW t \in Nat, NEW p \in [1..t -> 1..t],
           \A m, n \in 1..t : p[m] = p[n] => m = n
    PROVE  \A n \in 1..t : \E m \in 1..t : p[m] = n
<1>1. p \in Injection(1..t, 1..t)
  BY Fun_IsInj
<1>2. IsFiniteSet(1..t)
  BY FS_Interval
<1>3. p \in Surjection(1..t, 1..t)
  BY <1>1, <1>2, FS_Injection
<1> DEFINE I == 1..t
<1>4. p \in Surjection(I, I)
  BY <1>3
<1> HIDE DEF I
<1>5. \A n \in I : \E m \in I : p[m] = n
  BY <1>4, Fun_SurjectionProperties, Zenon
<1> QED
  BY <1>5 DEF I

-----------------------------------------------------------------------------
(* Theorems of the loop *)

MergeInv ==
    /\ values \in Seq(Values)
    /\ taken \in 0..Len(values) /\ (taken = 0 => values = <<>>)
    /\ LoopIsJoinOver

\* Before its first value the loop has merged none.
LEMMA MergeInit == Init => MergeInv
<1> SUFFICES ASSUME Init
             PROVE  MergeInv
  OBVIOUS
<1>1. PICK n \in 0..MaxPaths : values \in [1..n -> Values]
  BY DEF Init
<1>2. n \in Nat
  BY PathsAssumption
<1>3. values \in Seq(Values) /\ Len(values) = n
  BY <1>1, <1>2
<1>4. CASE values = <<>>
  <2>1. taken = 0 /\ result = Unknown("NO_DEFINITION_FOUND") /\ Len(values) = 0
    BY <1>4 DEF Init
  <2>2. 1..0 = {}
    OBVIOUS
  <2> QED
    BY <1>3, <1>4, <2>1, <2>2 DEF MergeInv, LoopIsJoinOver, JoinOver
<1>5. CASE values # <<>>
  <2>1. taken = 1 /\ result = values[1] /\ 1 \in 1..n
    BY <1>2, <1>3, <1>5 DEF Init
  <2>2. values[1] \in Values
    BY <1>1, <2>1
  <2>3. JoinOver(1..1, values) = values[1]
    BY <2>2, PathsAssumption, JoinOfOne
  <2> QED
    BY <1>2, <1>3, <2>1, <2>3 DEF MergeInv, LoopIsJoinOver
<1> QED
  BY <1>4, <1>5

\* Each round of the loop merges one value more.
LEMMA MergeStep == MergeInv /\ [Merge]_vars => MergeInv'
<1> SUFFICES ASSUME MergeInv, [Merge]_vars
             PROVE  MergeInv'
  OBVIOUS
<1>1. CASE Merge
  <2>1. /\ taken' = taken + 1 /\ values' = values /\ result' = Join(result, values[taken + 1])
        /\ taken < Len(values)
    BY <1>1 DEF Merge
  <2>2. Len(values) \in Nat /\ taken \in Nat /\ taken + 1 \in 0..Len(values)
    BY <2>1 DEF MergeInv
  <2>3. taken # 0
    BY <2>1 DEF MergeInv
  <2>4. JoinOver(1..(taken + 1), values) = Join(JoinOver(1..taken, values), values[taken + 1])
    BY <2>2, <2>3, OneMorePath
  <2> QED
    BY <2>1, <2>2, <2>4 DEF MergeInv, LoopIsJoinOver
<1>2. CASE UNCHANGED vars
  BY <1>2 DEF MergeInv, LoopIsJoinOver, vars
<1> QED
  BY <1>1, <1>2

\* With nothing joined nothing is known.
LEMMA KnownNeedsPaths ==
    ASSUME MergeInv, IsKnown(result)
    PROVE  taken \in Nat \ {0}
<1>1. taken \in Nat
  BY DEF MergeInv
<1>2. 1..0 = {}
  OBVIOUS
<1>3. IsKnown(JoinOver(1..taken, values))
  BY DEF MergeInv, LoopIsJoinOver
<1> QED
  BY <1>1, <1>2, <1>3 DEF JoinOver, Unknown, Because, IsKnown

\* The loop of join_all computes the closed form the engines' modules use for
\* it (merge.py:52-59), for values of every shape and any number of paths.
THEOREM LoopComputesClosedForm == Spec => []LoopIsJoinOver
<1>1. MergeInv => LoopIsJoinOver
  BY DEF MergeInv
<1> QED
  BY <1>1, MergeInit, MergeStep, PTL DEF Spec

\* The "never guess" contract of merge.py:3-7: what is known is what every path
\* says, for memory reads and mutated regions too.
THEOREM NeverGuessesAShape == Spec => []KnownOnlyIfAllAgree
<1>1. ASSUME MergeInv
      PROVE  KnownOnlyIfAllAgree
  <2> SUFFICES ASSUME IsKnown(result), NEW n \in 1..taken
               PROVE  Same(result, values[n])
    BY DEF KnownOnlyIfAllAgree
  <2>1. taken \in Nat \ {0}
    BY <1>1, KnownNeedsPaths
  <2>2. result = JoinOver(1..taken, values)
    BY <1>1 DEF MergeInv, LoopIsJoinOver
  <2> QED
    BY <2>1, <2>2, KnownIsSame
<1> QED
  BY <1>1, MergeInit, MergeStep, PTL DEF Spec

\* Which predecessor comes first decides nothing (merge.py:52-59): every
\* arrangement of the paths is known together, and says the same.
THEOREM OrderOfPathsDecidesNothing == Spec => []OrderDecidesNothing
<1>1. ASSUME MergeInv
      PROVE  OrderDecidesNothing
  <2> SUFFICES ASSUME NEW p \in [1..taken -> 1..taken],
                      \A m, n \in 1..taken : p[m] = p[n] => m = n
               PROVE  LET other == JoinOver(1..taken, [n \in 1..taken |-> values[p[n]]])
                      IN  /\ IsKnown(result) <=> IsKnown(other)
                          /\ IsKnown(result) => Same(result, other)
    BY DEF OrderDecidesNothing, Rearranged
  <2> DEFINE ws == [n \in 1..taken |-> values[p[n]]]
  <2>1. taken \in Nat /\ result = JoinOver(1..taken, values)
    BY <1>1 DEF MergeInv, LoopIsJoinOver
  <2>2. CASE taken = 0
    <3>1. 1..0 = {}
      OBVIOUS
    <3>2. JoinOver(1..taken, ws) = result /\ ~IsKnown(result)
      BY <2>1, <2>2, <3>1 DEF JoinOver, IsKnown, Unknown, Because
    <3> QED
      BY <3>2
  <2>3. CASE taken # 0
    <3>1. \A n \in 1..taken : \E m \in 1..taken : ws[n] = values[m]
      OBVIOUS
    <3>2. \A n \in 1..taken : \E m \in 1..taken : p[m] = n
      BY <2>1, EveryPathSomewhere
    <3>3. \A n \in 1..taken : \E m \in 1..taken : values[n] = ws[m]
      BY <3>2
    <3> HIDE DEF ws
    <3>4. /\ IsKnown(JoinOver(1..taken, values)) <=> IsKnown(JoinOver(1..taken, ws))
          /\ IsKnown(JoinOver(1..taken, values))
               => Same(JoinOver(1..taken, values), JoinOver(1..taken, ws))
      BY <2>1, <2>3, <3>1, <3>3, OrderOfPaths
    <3> QED
      BY <2>1, <3>4 DEF ws
  <2> QED
    BY <2>2, <2>3
<1> QED
  BY <1>1, MergeInit, MergeStep, PTL DEF Spec

=============================================================================
