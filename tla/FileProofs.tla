----------------------------- MODULE FileProofs -----------------------------
(***************************************************************************)
(* From the path of a request to a mapped file.                            *)
(*                                                                         *)
(* MapCache: for any files, structs, holders and limits the hash table and *)
(* the lists agree (TableMatchesMaps), and a file that a connection sends  *)
(* from stays mapped (HeldFilesStayMapped).                                *)
(*                                                                         *)
(* Paths: for any file system, settings and path, what de_dotdot and       *)
(* expand_symlinks make of the path leads to the file that the path names  *)
(* (CleanedRight, ExpansionRight), and what is served is that file or is   *)
(* in that directory (AnswerRight).                                        *)
(***************************************************************************)
EXTENDS MapCache, Algorithms, FiniteSetTheorems, SequenceTheorems,
        WellFoundedInduction, TLAPS

(***************************************************************************)
(* Numbers and functions defined by recursion over them.                   *)
(***************************************************************************)
\* A set of naturals that is not empty has a least element.
LEMMA LeastExists ==
  ASSUME NEW T \in SUBSET Nat, T # {}
  PROVE  \E x \in T : \A y \in T : x <= y
<1> DEFINE R == OpToRel(<, Nat)
<1>1. IsWellFoundedOn(R, Nat)
  BY NatLessThanWellFounded
<1>2. \E x \in T : \A y \in T : <<y, x>> \notin R
  <2> HIDE DEF R
  <2> QED BY <1>1, WFMin
<1>3. PICK x \in T : \A y \in T : <<y, x>> \notin R
  BY <1>2
<1>4. ASSUME NEW y \in T PROVE x <= y
  <2>1. ~ (y < x)
    BY <1>3 DEF OpToRel
  <2> QED BY <2>1
<1> QED BY <1>4

\* Min picks it.
LEMMA MinRight ==
  ASSUME NEW T \in SUBSET Nat, T # {}
  PROVE  Min(T) \in T /\ \A y \in T : Min(T) <= y
BY LeastExists DEF Min

\* Induction, for a set of numbers in place of a property.
Inductive(P, n) == 0 \in P /\ \A k \in 1 .. n : k - 1 \in P => k \in P

LEMMA CountUp ==
  ASSUME NEW n \in Nat, NEW P, Inductive(P, n)
  PROVE  n \in P /\ \A k \in 0 .. n : k \in P
<1> DEFINE T == (0 .. n) \ P
<1>1. T = {}
  <2> SUFFICES ASSUME T # {} PROVE FALSE
    OBVIOUS
  <2>1. T \in SUBSET Nat
    OBVIOUS
  <2>2. PICK x \in T : \A y \in T : x <= y
    <3> HIDE DEF T
    <3> QED BY <2>1, LeastExists
  <2>3. x \in 1 .. n /\ x - 1 \in P
    BY <2>2 DEF Inductive
  <2>4. x \in P
    BY <2>3 DEF Inductive
  <2> QED BY <2>2, <2>4
<1> QED BY <1>1

\* A function on 0 .. n is given by its first value and its steps.
Stepping(S, base, step, n) ==
  base \in S /\ step \in [Nat -> [S -> S]] /\ n \in Nat

Computes(g, S, base, step, n) ==
  /\ g \in [0 .. n -> S]
  /\ g[0] = base
  /\ \A i \in 1 .. n : g[i] = step[i][g[i - 1]]

LEMMA Recursion ==
  ASSUME NEW S, NEW base, NEW step, NEW n, Stepping(S, base, step, n)
  PROVE  \E g : Computes(g, S, base, step, n)
<1> base \in S /\ step \in [Nat -> [S -> S]] /\ n \in Nat
  BY DEF Stepping
<1> DEFINE Right(k, g) == g[0] = base /\ \A i \in 1 .. k : g[i] = step[i][g[i - 1]]
           P == {k \in 0 .. n : \E g \in [0 .. k -> S] : Right(k, g)}
<1>1. 0 \in P
  <2> DEFINE g == [i \in 0 .. 0 |-> base]
  <2>1. g \in [0 .. 0 -> S] /\ Right(0, g)
    OBVIOUS
  <2> HIDE DEF g, Right
  <2> QED BY <2>1
<1>2. ASSUME NEW k \in 1 .. n, k - 1 \in P PROVE k \in P
  <2>1. PICK g \in [0 .. k - 1 -> S] : Right(k - 1, g)
    <3> HIDE DEF Right
    <3> QED BY <1>2
  <2> DEFINE f == [i \in 0 .. k |-> IF i = k THEN step[k][g[k - 1]] ELSE g[i]]
  <2>2. f \in [0 .. k -> S]
    OBVIOUS
  <2>3. f[0] = base
    BY <2>1
  <2>4. ASSUME NEW i \in 1 .. k PROVE f[i] = step[i][f[i - 1]]
    <3>1. CASE i = k
      <4>1. k - 1 \in 0 .. k /\ k - 1 # k
        OBVIOUS
      <4> QED BY <3>1, <4>1
    <3>2. CASE i # k
      <4>1. i \in 1 .. k - 1 /\ i - 1 \in 0 .. k /\ i - 1 # k
        BY <3>2
      <4> QED BY <4>1, <2>1, <3>2
    <3> QED BY <3>1, <3>2
  <2>5. Right(k, f)
    BY <2>3, <2>4
  <2> HIDE DEF f, Right
  <2> QED BY <2>2, <2>5
<1> HIDE DEF P
<1>3. Inductive(P, n)
  BY <1>1, <1>2 DEF Inductive
<1>4. n \in P
  BY <1>3, CountUp
<1>5. PICK g \in [0 .. n -> S] : Right(n, g)
  BY <1>4 DEF P
<1> QED BY <1>5 DEF Computes

\* How many numbers there are from 0 to n - 1, from 1 to n and from 2 to n + 2.
LEMMA Intervals ==
  ASSUME NEW n \in Nat
  PROVE  /\ IsFiniteSet(0 .. n - 1) /\ Cardinality(0 .. n - 1) = n
         /\ IsFiniteSet(1 .. n) /\ Cardinality(1 .. n) = n
         /\ IsFiniteSet(2 .. n + 2) /\ Cardinality(2 .. n + 2) = n + 1
<1>1. 0 \in Int /\ n - 1 \in Int /\ (IF 0 > n - 1 THEN 0 ELSE n - 1 - 0 + 1) = n
  OBVIOUS
<1>2. 1 \in Int /\ n \in Int /\ (IF 1 > n THEN 0 ELSE n - 1 + 1) = n
  OBVIOUS
<1>3. 2 \in Int /\ n + 2 \in Int /\ (IF 2 > n + 2 THEN 0 ELSE n + 2 - 2 + 1) = n + 1
  OBVIOUS
<1>4. IsFiniteSet(0 .. n - 1) /\ Cardinality(0 .. n - 1) = n
  BY <1>1, FS_Interval
<1>5. IsFiniteSet(1 .. n) /\ Cardinality(1 .. n) = n
  BY <1>2, FS_Interval
<1>6. IsFiniteSet(2 .. n + 2)
  BY <1>3, FS_Interval
<1>7. Cardinality(2 .. n + 2) = IF 2 > n + 2 THEN 0 ELSE n + 2 - 2 + 1
  BY <1>3, FS_Interval
<1> QED BY <1>3, <1>4, <1>5, <1>6, <1>7

\* The values check_hash_size can double hash_size to.
LEMMA DoubledRight ==
  ASSUME NEW hash_size \in Nat, hash_size > 0, NEW turns \in Nat
  PROVE  \A k \in 0 .. turns : /\ Doubled(hash_size, turns)[k] \in Nat
                               /\ Doubled(hash_size, turns)[k] > k
<1> DEFINE step == [i \in Nat |-> [x \in Nat |-> 2 * x]]
           Is(d) == d = [k \in 0 .. turns |-> IF k = 0 THEN hash_size ELSE 2 * d[k - 1]]
           d == Doubled(hash_size, turns)
<1>1. PICK g : Computes(g, Nat, hash_size, step, turns)
  <2>1. Stepping(Nat, hash_size, step, turns)
    BY DEF Stepping
  <2> HIDE DEF step
  <2> QED BY <2>1, Recursion
<1>2. Is(g)
  <2>1. ASSUME NEW k \in 1 .. turns PROVE g[k] = 2 * g[k - 1]
    <3>1. g[k - 1] \in Nat
      BY <1>1 DEF Computes
    <3>2. \A i \in Nat, x \in Nat : step[i][x] = 2 * x
      OBVIOUS
    <3> HIDE DEF step
    <3>3. g[k] = step[k][g[k - 1]]
      BY <1>1 DEF Computes
    <3> QED BY <3>1, <3>2, <3>3
  <2>2. \A k \in 0 .. turns : k = 0 \/ k \in 1 .. turns
    OBVIOUS
  <2> QED BY <1>1, <2>1, <2>2 DEF Computes
<1>3. Is(d)
  BY <1>2 DEF Doubled
<1> DEFINE P == {k \in 0 .. turns : d[k] \in Nat /\ d[k] > k}
<1>4. 0 \in P
  BY <1>3
<1>5. ASSUME NEW k \in 1 .. turns, k - 1 \in P PROVE k \in P
  <2> HIDE DEF d
  <2>1. d[k] = 2 * d[k - 1]
    BY <1>3
  <2>2. d[k - 1] \in Nat /\ d[k - 1] > k - 1
    BY <1>5
  <2>3. d[k] \in Nat /\ d[k] > k
    BY <2>1, <2>2
  <2> QED BY <2>3
<1> HIDE DEF P
<1>6. Inductive(P, turns)
  BY <1>4, <1>5 DEF Inductive
<1>7. \A k \in 0 .. turns : k \in P
  BY <1>6, CountUp
<1> QED BY <1>7 DEF P

(***************************************************************************)
(* The two lists.                                                          *)
(***************************************************************************)
\* What concatenation puts where.
LEMMA Concatenated ==
  ASSUME NEW S, NEW a \in Seq(S), NEW b \in Seq(S)
  PROVE  /\ a \o b \in Seq(S)
         /\ Len(a \o b) = Len(a) + Len(b)
         /\ \A k \in 1 .. Len(a) + Len(b) :
              (a \o b)[k] = IF k <= Len(a) THEN a[k] ELSE b[k - Len(a)]
OBVIOUS

\* Two lists hold every struct once, in all, when each does and none is in both.
LEMMA OnceInAll ==
  ASSUME NEW S, NEW a \in Seq(S), NEW b \in Seq(S)
  PROVE  /\ ToSet(a \o b) = ToSet(a) \cup ToSet(b)
         /\ IsInjective(a \o b) <=> /\ IsInjective(a) /\ IsInjective(b)
                                    /\ ToSet(a) \cap ToSet(b) = {}
<1> DEFINE c == a \o b
<1>1. /\ c \in Seq(S) /\ Len(c) = Len(a) + Len(b) /\ Len(a) \in Nat /\ Len(b) \in Nat
      /\ \A k \in 1 .. Len(a) : c[k] = a[k]
      /\ \A k \in 1 .. Len(b) : c[Len(a) + k] = b[k]
      /\ DOMAIN c = 1 .. Len(a) + Len(b) /\ DOMAIN a = 1 .. Len(a)
      /\ DOMAIN b = 1 .. Len(b)
  OBVIOUS
<1> HIDE DEF c
<1>2. \A k \in 1 .. Len(a) + Len(b) :
        \/ k \in 1 .. Len(a)
        \/ k - Len(a) \in 1 .. Len(b) /\ k = Len(a) + (k - Len(a))
  BY <1>1
<1>3. \A k \in 1 .. Len(a) : k \in 1 .. Len(a) + Len(b)
  BY <1>1
<1>4. \A k \in 1 .. Len(b) : Len(a) + k \in 1 .. Len(a) + Len(b)
  BY <1>1
<1>5. ToSet(c) = ToSet(a) \cup ToSet(b)
  <2>1. \A k \in 1 .. Len(a) + Len(b) : c[k] \in ToSet(a) \cup ToSet(b)
    BY <1>1, <1>2 DEF ToSet
  <2>2. /\ \A k \in 1 .. Len(a) : a[k] \in ToSet(c)
        /\ \A k \in 1 .. Len(b) : b[k] \in ToSet(c)
    BY <1>1, <1>3, <1>4 DEF ToSet
  <2>3. ToSet(c) \subseteq ToSet(a) \cup ToSet(b)
    BY <1>1, <2>1 DEF ToSet
  <2>4. ToSet(a) \subseteq ToSet(c) /\ ToSet(b) \subseteq ToSet(c)
    BY <1>1, <2>2 DEF ToSet
  <2> QED BY <2>3, <2>4
<1>6. ASSUME IsInjective(c)
      PROVE  IsInjective(a) /\ IsInjective(b) /\ ToSet(a) \cap ToSet(b) = {}
  <2>1. \A i, j \in 1 .. Len(a) + Len(b) : c[i] = c[j] => i = j
    BY <1>1, <1>6 DEF IsInjective
  <2>2. IsInjective(a)
    BY <1>1, <1>3, <2>1 DEF IsInjective
  <2>3. ASSUME NEW i \in 1 .. Len(b), NEW j \in 1 .. Len(b), b[i] = b[j]
        PROVE  i = j
    BY <1>1, <1>4, <2>1, <2>3
  <2>4. IsInjective(b)
    BY <1>1, <2>3 DEF IsInjective
  <2>5. ASSUME NEW i \in 1 .. Len(a), NEW j \in 1 .. Len(b) PROVE a[i] # b[j]
    <3>1. Len(a) + j \in 1 .. Len(a) + Len(b) /\ i # Len(a) + j
      BY <1>1
    <3> QED BY <1>1, <1>3, <2>1, <3>1
  <2> QED BY <1>1, <2>2, <2>4, <2>5 DEF ToSet
<1>7. ASSUME IsInjective(a), IsInjective(b), ToSet(a) \cap ToSet(b) = {}
      PROVE  IsInjective(c)
  <2>1. \A i, j \in 1 .. Len(a) : a[i] = a[j] => i = j
    BY <1>1, <1>7 DEF IsInjective
  <2>2. \A i, j \in 1 .. Len(b) : b[i] = b[j] => i = j
    BY <1>1, <1>7 DEF IsInjective
  <2>3. \A i \in 1 .. Len(a), j \in 1 .. Len(b) : a[i] # b[j]
    BY <1>1, <1>7 DEF ToSet
  <2>4. ASSUME NEW i \in 1 .. Len(a) + Len(b), NEW j \in 1 .. Len(a) + Len(b),
               c[i] = c[j]
        PROVE  i = j
    <3>1. i \in 1 .. Len(a) \/ (i - Len(a) \in 1 .. Len(b) /\ c[i] = b[i - Len(a)])
      BY <1>1, <1>2
    <3>2. j \in 1 .. Len(a) \/ (j - Len(a) \in 1 .. Len(b) /\ c[j] = b[j - Len(a)])
      BY <1>1, <1>2
    <3>3. CASE i \in 1 .. Len(a) /\ j \in 1 .. Len(a)
      BY <1>1, <2>1, <2>4, <3>3
    <3>4. CASE i \in 1 .. Len(a) /\ j \notin 1 .. Len(a)
      BY <1>1, <2>3, <2>4, <3>2, <3>4
    <3>5. CASE i \notin 1 .. Len(a) /\ j \in 1 .. Len(a)
      BY <1>1, <2>3, <2>4, <3>1, <3>5
    <3>6. CASE i \notin 1 .. Len(a) /\ j \notin 1 .. Len(a)
      <4>1. i - Len(a) = j - Len(a)
        BY <2>2, <2>4, <3>1, <3>2, <3>6
      <4> QED BY <1>1, <4>1
    <3> QED BY <3>3, <3>4, <3>5, <3>6
  <2> QED BY <1>1, <2>4 DEF IsInjective
<1> QED BY <1>5, <1>6, <1>7 DEF c

\* The active maps among the first n.
FirstMaps(n) == {maps[i] : i \in 1 .. n}

\* What the walk over the active list has done after n turns.
WalkedRight(l, gone, free, n) ==
  /\ l.maps \in Seq(Structs) /\ l.free \in Seq(Structs)
  /\ Len(l.maps) <= n
  /\ ToSet(l.maps) = FirstMaps(n) \ gone
  /\ ToSet(l.free) = (FirstMaps(n) \cap gone) \cup ToSet(free)
  /\ IsInjective(maps \o free) => IsInjective(l.maps) /\ IsInjective(l.free)

LEMMA ListsRight ==
  ASSUME maps \in Seq(Structs), NEW gone, NEW free \in Seq(Structs)
  PROVE  \A n \in 0 .. Len(maps) : WalkedRight(Lists(gone, free)[n], gone, free, n)
<1> DEFINE S == [maps : Seq(Structs), free : Seq(Structs)]
           len == Len(maps)
           F(x, i) == IF maps[i] \in gone
                        THEN [x EXCEPT !.free = <<maps[i]>> \o @]
                        ELSE [x EXCEPT !.maps = Append(@, maps[i])]
           step == [i \in Nat |-> [x \in S |-> IF i \in 1 .. len THEN F(x, i) ELSE x]]
           base == [maps |-> <<>>, free |-> free]
           Is(l) == l = [i \in 0 .. len |-> IF i = 0 THEN base ELSE F(l[i - 1], i)]
           l == Lists(gone, free)
<1>1. len \in Nat /\ \A i \in 1 .. len : maps[i] \in Structs
  OBVIOUS
<1>2. ASSUME NEW x \in S, NEW i \in 1 .. len
      PROVE  /\ F(x, i) \in S
             /\ maps[i] \in gone => /\ F(x, i).maps = x.maps
                                    /\ F(x, i).free = <<maps[i]>> \o x.free
             /\ maps[i] \notin gone => /\ F(x, i).maps = x.maps \o <<maps[i]>>
                                       /\ F(x, i).free = x.free
  <2>1. maps[i] \in Structs /\ x.maps \in Seq(Structs) /\ x.free \in Seq(Structs)
    BY <1>1
  <2>2. <<maps[i]>> \o x.free \in Seq(Structs) /\ Append(x.maps, maps[i]) \in Seq(Structs)
    BY <2>1
  <2>3. Append(x.maps, maps[i]) = x.maps \o <<maps[i]>>
    BY <2>1
  <2> QED BY <2>1, <2>2, <2>3
<1> HIDE DEF F
<1>3. PICK g : Computes(g, S, base, step, len)
  <2>1. step \in [Nat -> [S -> S]]
    BY <1>2
  <2>2. base \in S
    OBVIOUS
  <2>3. Stepping(S, base, step, len)
    BY <1>1, <2>1, <2>2 DEF Stepping
  <2> HIDE DEF step, S, base, len
  <2> QED BY <2>3, Recursion
<1>4. Is(g)
  <2>1. ASSUME NEW i \in 1 .. len PROVE g[i] = F(g[i - 1], i)
    <3>1. g[i - 1] \in S
      <4> HIDE DEF S, base, step
      <4> QED BY <1>1, <1>3 DEF Computes
    <3>2. \A x \in S : step[i][x] = F(x, i)
      OBVIOUS
    <3> HIDE DEF step
    <3>3. g[i] = step[i][g[i - 1]]
      BY <1>3 DEF Computes
    <3> QED BY <3>1, <3>2, <3>3
  <2> HIDE DEF len, base
  <2>2. len \in Nat
    BY <1>1
  <2>3. \A i \in 0 .. len : i = 0 \/ i \in 1 .. len
    BY <2>2
  <2> QED BY <1>3, <2>1, <2>3 DEF Computes
<1>5. Is(l)
  BY <1>4 DEF Lists, F
<1>6. l[0] = base /\ \A i \in 1 .. len : l[i] = F(l[i - 1], i)
  <2>1. \A i \in 1 .. len : i \in 0 .. len /\ i # 0
    BY <1>1
  <2> HIDE DEF len, base, l
  <2> QED BY <1>1, <1>5, <2>1
<1> DEFINE P == {n \in 0 .. len : l[n] \in S /\ WalkedRight(l[n], gone, free, n)}
<1>7. 0 \in P
  <2>1. base \in S /\ base.maps = <<>> /\ base.free = free
    OBVIOUS
  <2>2. FirstMaps(0) = {} /\ ToSet(<<>>) = {} /\ Len(<<>>) = 0 /\ IsInjective(<<>>)
    BY DEF FirstMaps, ToSet, IsInjective
  <2>3. IsInjective(maps \o free) => IsInjective(free)
    BY OnceInAll
  <2> HIDE DEF l, S, base
  <2>4. WalkedRight(l[0], gone, free, 0)
    BY <1>6, <2>1, <2>2, <2>3 DEF WalkedRight
  <2> QED BY <1>1, <1>6, <2>1, <2>4
<1>8. ASSUME NEW n \in 1 .. len, n - 1 \in P PROVE n \in P
  <2> DEFINE x == l[n - 1]
             m == maps[n]
  <2> HIDE DEF l
  <2>1. x \in S /\ WalkedRight(x, gone, free, n - 1)
    BY <1>8
  <2>2. l[n] = F(x, n)
    BY <1>6
  <2> DEFINE one == <<m>>
  <2>3. /\ m \in Structs /\ one \in Seq(Structs) /\ ToSet(one) = {m}
        /\ IsInjective(one) /\ Len(one) = 1
    BY <1>1 DEF ToSet, IsInjective
  <2>4. /\ x.maps \in Seq(Structs) /\ x.free \in Seq(Structs)
        /\ Len(x.maps) \in Nat /\ Len(x.maps) <= n - 1
    BY <2>1 DEF WalkedRight
  <2>5. FirstMaps(n) = FirstMaps(n - 1) \cup {m}
    <3>1. \A i \in 1 .. n : i = n \/ i \in 1 .. n - 1
      BY <1>1
    <3>2. \A i \in 1 .. n - 1 : i \in 1 .. n
      BY <1>1
    <3> QED BY <3>1, <3>2 DEF FirstMaps
  <2>6. ASSUME IsInjective(maps \o free)
        PROVE  m \notin FirstMaps(n - 1) /\ m \notin ToSet(free)
    <3>1. IsInjective(maps) /\ ToSet(maps) \cap ToSet(free) = {}
      BY <2>6, OnceInAll
    <3>2. DOMAIN maps = 1 .. len /\ n \in 1 .. len
      OBVIOUS
    <3>3. m \notin ToSet(free)
      BY <3>1, <3>2 DEF ToSet
    <3>4. \A i \in 1 .. n - 1 : i \in 1 .. len /\ i # n
      BY <1>1
    <3>5. m \notin FirstMaps(n - 1)
      BY <3>1, <3>2, <3>4 DEF FirstMaps, IsInjective
    <3> QED BY <3>3, <3>5
  <2> HIDE DEF x, m, S, one
  <2>7. CASE m \in gone
    <3> DEFINE free2 == one \o x.free
    <3>1. l[n] \in S /\ l[n].maps = x.maps /\ l[n].free = free2
      BY <1>2, <2>1, <2>2, <2>7 DEF m, one
    <3>2. /\ free2 \in Seq(Structs) /\ ToSet(free2) = {m} \cup ToSet(x.free)
          /\ m \notin ToSet(x.free) /\ IsInjective(x.free) => IsInjective(free2)
      <4>1. free2 \in Seq(Structs)
        BY <2>3, <2>4
      <4>2. /\ ToSet(free2) = ToSet(one) \cup ToSet(x.free)
            /\ IsInjective(free2) <=> /\ IsInjective(one) /\ IsInjective(x.free)
                                      /\ ToSet(one) \cap ToSet(x.free) = {}
        BY <2>3, <2>4, OnceInAll
      <4> QED BY <2>3, <4>1, <4>2
    <3> HIDE DEF free2
    <3>3. FirstMaps(n) \ gone = FirstMaps(n - 1) \ gone
      BY <2>5, <2>7
    <3>4. (FirstMaps(n) \cap gone) \cup ToSet(free) = {m} \cup ToSet(x.free)
      BY <2>1, <2>5, <2>7 DEF WalkedRight
    <3>5. ASSUME IsInjective(maps \o free)
          PROVE  IsInjective(x.maps) /\ IsInjective(free2)
      <4>1. m \notin ToSet(x.free) /\ IsInjective(x.free) /\ IsInjective(x.maps)
        BY <2>1, <2>6, <3>5 DEF WalkedRight
      <4> QED BY <3>2, <4>1
    <3>6. Len(x.maps) <= n
      BY <1>1, <2>4
    <3>7. ToSet(x.maps) = FirstMaps(n) \ gone
      BY <2>1, <3>3 DEF WalkedRight
    <3>8. WalkedRight(l[n], gone, free, n)
      BY <2>4, <3>1, <3>2, <3>4, <3>5, <3>6, <3>7 DEF WalkedRight
    <3> QED BY <1>1, <3>1, <3>8
  <2>8. CASE m \notin gone
    <3> DEFINE maps2 == x.maps \o one
    <3>1. l[n] \in S /\ l[n].maps = maps2 /\ l[n].free = x.free
      <4>0. maps[n] \notin gone
        BY <2>8 DEF m
      <4> QED BY <1>2, <2>1, <2>2, <4>0 DEF m, one
    <3>2. /\ maps2 \in Seq(Structs) /\ ToSet(maps2) = {m} \cup ToSet(x.maps)
          /\ m \notin ToSet(x.maps) /\ IsInjective(x.maps) => IsInjective(maps2)
          /\ Len(maps2) = Len(x.maps) + 1
      <4>1. maps2 \in Seq(Structs) /\ Len(maps2) = Len(x.maps) + 1
        <5>1. Len(x.maps \o one) = Len(x.maps) + Len(one)
          BY <2>3, <2>4, Concatenated
        <5> QED BY <2>3, <2>4, <5>1
      <4>2. /\ ToSet(maps2) = ToSet(one) \cup ToSet(x.maps)
            /\ IsInjective(maps2) <=> /\ IsInjective(one) /\ IsInjective(x.maps)
                                      /\ ToSet(x.maps) \cap ToSet(one) = {}
        BY <2>3, <2>4, OnceInAll
      <4> QED BY <2>3, <4>1, <4>2
    <3> HIDE DEF maps2
    <3>3. FirstMaps(n) \cap gone = FirstMaps(n - 1) \cap gone
      BY <2>5, <2>8
    <3>4. FirstMaps(n) \ gone = {m} \cup ToSet(x.maps)
      BY <2>1, <2>5, <2>8 DEF WalkedRight
    <3>5. ASSUME IsInjective(maps \o free)
          PROVE  IsInjective(maps2) /\ IsInjective(x.free)
      <4>1. m \notin ToSet(x.maps) /\ IsInjective(x.free) /\ IsInjective(x.maps)
        BY <2>1, <2>6, <3>5 DEF WalkedRight
      <4> QED BY <3>2, <4>1
    <3>6. Len(maps2) <= n
      BY <1>1, <2>4, <3>2
    <3>7. ToSet(x.free) = (FirstMaps(n) \cap gone) \cup ToSet(free)
      BY <2>1, <3>3 DEF WalkedRight
    <3>8. WalkedRight(l[n], gone, free, n)
      BY <2>4, <3>1, <3>2, <3>4, <3>5, <3>6, <3>7 DEF WalkedRight
    <3> QED BY <1>1, <3>1, <3>8
  <2> QED BY <2>7, <2>8
<1> HIDE DEF P
<1>9. Inductive(P, len)
  BY <1>7, <1>8 DEF Inductive
<1>10. \A n \in 0 .. len : n \in P
  BY <1>1, <1>9, CountUp
<1> QED BY <1>10 DEF P
(***************************************************************************)
(* Sums.                                                                   *)
(***************************************************************************)
Pairs(f) == UNION {{x} \X (1 .. f[x]) : x \in DOMAIN f}

\* A sum over a finite set is a number.
LEMMA TotalFinite ==
  ASSUME NEW A, IsFiniteSet(A), NEW f \in [A -> Nat]
  PROVE  IsFiniteSet(Pairs(f)) /\ Total(f) = Cardinality(Pairs(f)) /\ Total(f) \in Nat
<1> DEFINE Column(x) == {x} \X (1 .. f[x])
           columns == {Column(x) : x \in A}
           g == [x \in A |-> Column(x)]
<1>1. g \in Surjection(A, columns)
  BY DEF Surjection
<1>2. IsFiniteSet(columns)
  <2> HIDE DEF g, columns
  <2> QED BY <1>1, FS_Surjection
<1>3. ASSUME NEW x \in A PROVE IsFiniteSet(Column(x))
  <2>1. IsFiniteSet({x})
    BY FS_Singleton
  <2>2. IsFiniteSet(1 .. f[x])
    BY Intervals
  <2> QED BY <2>1, <2>2, FS_Product
<1>4. IsFiniteSet(UNION columns)
  <2>1. \A T \in columns : IsFiniteSet(T)
    BY <1>3
  <2> HIDE DEF columns
  <2> QED BY <1>2, <2>1, FS_UNION
<1>5. Pairs(f) = UNION columns /\ Total(f) = Cardinality(Pairs(f))
  BY DEF Pairs, Total
<1> QED BY <1>4, <1>5, FS_CardinalityType

\* A sum falls into the sums over a part and over the rest.
Splits(f, A, g, B, h) ==
  /\ IsFiniteSet(A) /\ B \subseteq A
  /\ f \in [A -> Nat] /\ g \in [B -> Nat] /\ h \in [A \ B -> Nat]
  /\ \A x \in B : g[x] = f[x]
  /\ \A x \in A \ B : h[x] = f[x]

LEMMA TotalSplit ==
  ASSUME NEW A, NEW B, NEW f, NEW g, NEW h, Splits(f, A, g, B, h)
  PROVE  Total(f) = Total(g) + Total(h)
<1> USE DEF Splits
<1>1. IsFiniteSet(B) /\ IsFiniteSet(A \ B)
  BY FS_Subset, FS_Difference
<1>3. Pairs(f) = Pairs(g) \cup Pairs(h) /\ Pairs(g) \cap Pairs(h) = {}
  BY DEF Pairs
<1>4. /\ IsFiniteSet(Pairs(g)) /\ IsFiniteSet(Pairs(h))
      /\ Total(g) = Cardinality(Pairs(g)) /\ Total(h) = Cardinality(Pairs(h))
      /\ Total(f) = Cardinality(Pairs(f))
      /\ Total(g) \in Nat /\ Total(h) \in Nat
  BY <1>1, TotalFinite
<1>5. Cardinality(Pairs(f)) = Cardinality(Pairs(g)) + Cardinality(Pairs(h)) - 0
  <2>1. Cardinality(Pairs(g) \cap Pairs(h)) = 0
    BY <1>3, FS_EmptySet
  <2>2. Cardinality(Pairs(g) \cup Pairs(h))
          = Cardinality(Pairs(g)) + Cardinality(Pairs(h)) - Cardinality(Pairs(g) \cap Pairs(h))
    BY <1>4, FS_Union
  <2> QED BY <1>3, <2>1, <2>2
<1> QED BY <1>4, <1>5

\* The sum over a single element, and over none.
LEMMA TotalOne ==
  /\ \A x : \A n \in Nat : Total([y \in {x} |-> n]) = n
  /\ \A f : DOMAIN f = {} => Total(f) = 0
<1>1. ASSUME NEW x, NEW n \in Nat PROVE Total([y \in {x} |-> n]) = n
  <2>1. Total([y \in {x} |-> n]) = Cardinality({x} \X (1 .. n))
    <3>1. UNION {{z} \X (1 .. [y \in {x} |-> n][z]) : z \in DOMAIN [y \in {x} |-> n]}
            = {x} \X (1 .. n)
      OBVIOUS
    <3> QED BY <3>1 DEF Total
  <2>2. IsFiniteSet({x}) /\ Cardinality({x}) = 1
    BY FS_Singleton
  <2>3. IsFiniteSet(1 .. n) /\ Cardinality(1 .. n) = n
    BY Intervals
  <2>4. Cardinality({x} \X (1 .. n)) = 1 * n
    BY <2>2, <2>3, FS_Product
  <2> QED BY <2>1, <2>4
<1>2. ASSUME NEW f, DOMAIN f = {} PROVE Total(f) = 0
  <2>1. UNION {{x} \X (1 .. f[x]) : x \in DOMAIN f} = {}
    BY <1>2
  <2> QED BY <2>1, FS_EmptySet DEF Total
<1> QED BY <1>1, <1>2
(***************************************************************************)
(* The hash table.                                                         *)
(***************************************************************************)
Tables(n) == [t : [0 .. n - 1 -> Structs \cup {Null}], s : [Structs -> MapStruct]]

\* Two versions of the structs differ in hash_idx only.
SameMaps(s, u) ==
  \A m \in Structs : /\ s[m].file = u[m].file /\ s[m].refcount = u[m].refcount
                     /\ s[m].age = u[m].age /\ s[m].addr = u[m].addr

LEMMA SlotValue ==
  ASSUME NEW n \in Nat, n > 0, NEW t, Cardinality(DOMAIN t) = n, NEW f \in Files,
         NEW k \in 0 .. n - 1, NEW b \in 0 .. n - 1, b = HashOf[f] % n
  PROVE  Slot(t, f, k) = IF b + k < n THEN b + k ELSE b + k - n
BY DEF Slot

\* The slots tried are slots of the table, and every one is tried.
LEMMA SlotRight ==
  ASSUME NEW n \in Nat, n > 0, NEW t, DOMAIN t = 0 .. n - 1, NEW f \in Files
  PROVE  /\ Cardinality(DOMAIN t) = n
         /\ \A k \in 0 .. n - 1 : Slot(t, f, k) \in 0 .. n - 1
         /\ \A i \in 0 .. n - 1 : \E k \in 0 .. n - 1 : Slot(t, f, k) = i
<1> DEFINE b == HashOf[f] % n
<1>1. Cardinality(DOMAIN t) = n
  BY Intervals
<1>2. b \in 0 .. n - 1
  <2>1. HashOf[f] \in Nat
    BY MapCacheAssumption
  <2> QED BY <2>1
<1> HIDE DEF b
<1>3. ASSUME NEW k \in 0 .. n - 1
      PROVE  Slot(t, f, k) = IF b + k < n THEN b + k ELSE b + k - n
  BY <1>1, <1>2, SlotValue DEF b
<1>4. \A k \in 0 .. n - 1 : Slot(t, f, k) \in 0 .. n - 1
  BY <1>2, <1>3
<1>5. ASSUME NEW i \in 0 .. n - 1
      PROVE  \E k \in 0 .. n - 1 : Slot(t, f, k) = i
  <2>1. CASE b <= i
    <3>1. i - b \in 0 .. n - 1 /\ Slot(t, f, i - b) = i
      BY <1>2, <1>3, <2>1
    <3> QED BY <3>1
  <2>2. CASE i < b
    <3>1. i - b + n \in 0 .. n - 1 /\ Slot(t, f, i - b + n) = i
      BY <1>2, <1>3, <2>2
    <3> QED BY <3>1
  <2> QED BY <1>2, <2>1, <2>2
<1> QED BY <1>1, <1>4, <1>5

\* find_hash finds nothing or a map of the file.
LEMMA FindHashRight ==
  ASSUME NEW n \in Nat, n > 0, NEW h \in Tables(n), NEW A, InPlace(h, A),
         NEW f \in Files
  PROVE  \/ FindHash(h, f) = Null
         \/ FindHash(h, f) \in A /\ h.s[FindHash(h, f)].file = f
<1> DEFINE InSlot(k) == h.t[Slot(h.t, f, k)]
           stops == {k \in DOMAIN h.t : InSlot(k) = Null \/ h.s[InSlot(k)].file = f}
<1>1. h.t \in [0 .. n - 1 -> Structs \cup {Null}] /\ DOMAIN h.t = 0 .. n - 1
  BY DEF Tables
<1>2. FindHash(h, f) = IF stops = {} THEN Null ELSE InSlot(Min(stops))
  BY DEF FindHash
<1>3. \A k \in stops : k \in 0 .. n - 1 /\ (InSlot(k) = Null \/ h.s[InSlot(k)].file = f)
  <2> HIDE DEF InSlot
  <2> QED BY <1>1
<1>4. ASSUME NEW k \in 0 .. n - 1 PROVE InSlot(k) = Null \/ InSlot(k) \in A
  <2>1. Slot(h.t, f, k) \in 0 .. n - 1
    BY <1>1, SlotRight
  <2> QED BY <1>1, <2>1 DEF InPlace
<1> HIDE DEF stops, InSlot
<1>5. stops # {} => Min(stops) \in stops
  <2>1. stops \in SUBSET Nat
    BY <1>3
  <2> QED BY <2>1, MinRight
<1>6. CASE stops = {}
  BY <1>2, <1>6
<1>7. CASE stops # {}
  <2>1. PICK k : k = Min(stops)
    OBVIOUS
  <2>2. FindHash(h, f) = InSlot(k) /\ k \in stops
    BY <1>2, <1>5, <1>7, <2>1
  <2> QED BY <1>3, <1>4, <2>2
<1> QED BY <1>6, <1>7

\* add_hash puts a map into an empty slot and changes nothing else.
LEMMA AddHashRight ==
  ASSUME NEW n \in Nat, n > 0, NEW h \in Tables(n), NEW A, InPlace(h, A),
         NEW m \in Structs, m \notin A, A \subseteq Structs, h.s[m].file \in Files,
         \E i \in 0 .. n - 1 : h.t[i] = Null
  PROVE  /\ AddHash(h, m) \in Tables(n)
         /\ InPlace(AddHash(h, m), A \cup {m})
         /\ SameMaps(AddHash(h, m).s, h.s)
<1> DEFINE f == h.s[m].file
           empty == {k \in DOMAIN h.t : h.t[Slot(h.t, f, k)] = Null}
           i == Slot(h.t, f, Min(empty))
           g == AddHash(h, m)
<1>1. /\ h.t \in [0 .. n - 1 -> Structs \cup {Null}] /\ DOMAIN h.t = 0 .. n - 1
      /\ h.s \in [Structs -> MapStruct]
  BY DEF Tables
<1>2. Min(empty) \in empty
  <2>1. empty # {}
    <3>1. PICK j \in 0 .. n - 1 : h.t[j] = Null
      OBVIOUS
    <3>2. PICK k \in 0 .. n - 1 : Slot(h.t, f, k) = j
      <4>1. f \in Files
        OBVIOUS
      <4> HIDE DEF f
      <4> QED BY <1>1, <4>1, SlotRight
    <3> QED BY <1>1, <3>1, <3>2
  <2>2. empty \in SUBSET Nat
    BY <1>1
  <2> HIDE DEF empty
  <2> QED BY <2>1, <2>2, MinRight
<1>3. i \in 0 .. n - 1 /\ h.t[i] = Null
  <2>1. Min(empty) \in 0 .. n - 1 /\ h.t[i] = Null
    BY <1>1, <1>2
  <2> HIDE DEF empty, f
  <2>2. f \in Files
    BY DEF f
  <2> QED BY <1>1, <2>1, <2>2, SlotRight
<1>4. g = [t |-> [h.t EXCEPT ![i] = m], s |-> [h.s EXCEPT ![m].hash_idx = i]]
  BY DEF AddHash
<1> HIDE DEF i, g
<1>5. /\ g.t = [h.t EXCEPT ![i] = m]
      /\ g.s = [h.s EXCEPT ![m] = [h.s[m] EXCEPT !.hash_idx = i]]
      /\ g = [t |-> g.t, s |-> g.s]
  BY <1>4
<1>6. g.t \in [0 .. n - 1 -> Structs \cup {Null}]
  BY <1>1, <1>3, <1>5
<1>7. [h.s[m] EXCEPT !.hash_idx = i] \in MapStruct
  <2>1. h.s[m] \in MapStruct /\ i \in Nat
    BY <1>1, <1>3
  <2> QED BY <2>1 DEF MapStruct
<1>8. g.s \in [Structs -> MapStruct]
  BY <1>1, <1>5, <1>7
<1>9. g \in Tables(n)
  BY <1>5, <1>6, <1>8 DEF Tables
<1>10. /\ \A x \in Structs \ {m} : g.s[x] = h.s[x]
       /\ g.s[m].hash_idx = i
       /\ g.t[i] = m /\ \A j \in 0 .. n - 1 : j # i => g.t[j] = h.t[j]
       /\ DOMAIN g.t = 0 .. n - 1
  BY <1>1, <1>3, <1>5, <1>6 DEF MapStruct
<1>11. SameMaps(g.s, h.s)
  BY <1>1, <1>5 DEF SameMaps, MapStruct
<1>12. InPlace(g, A \cup {m})
  <2>1. ASSUME NEW x \in A
        PROVE  g.s[x].hash_idx \in DOMAIN g.t /\ g.t[g.s[x].hash_idx] = x
    <3>1. x # m /\ x # Null /\ h.s[x].hash_idx \in 0 .. n - 1 /\ h.t[h.s[x].hash_idx] = x
      BY <1>1, MapCacheAssumption DEF InPlace, Null
    <3> QED BY <1>3, <1>10, <3>1
  <2>2. ASSUME NEW j \in DOMAIN g.t, g.t[j] # Null
        PROVE  g.t[j] \in A \cup {m} /\ g.s[g.t[j]].hash_idx = j
    <3>1. CASE j = i
      BY <1>10, <3>1
    <3>2. CASE j # i
      <4>1. g.t[j] = h.t[j] /\ h.t[j] \in A /\ h.s[h.t[j]].hash_idx = j
        BY <1>1, <1>10, <2>2, <3>2 DEF InPlace
      <4> QED BY <1>10, <4>1
    <3> QED BY <3>1, <3>2
  <2> QED BY <1>3, <1>10, <2>1, <2>2 DEF InPlace
<1> QED BY <1>9, <1>11, <1>12 DEF g

\* A table with fewer maps than slots has an empty slot.
LEMMA EmptySlot ==
  ASSUME NEW n \in Nat, NEW h \in Tables(n), NEW A, InPlace(h, A),
         IsFiniteSet(A), Cardinality(A) < n
  PROVE  \E i \in 0 .. n - 1 : h.t[i] = Null
<1> SUFFICES ASSUME \A i \in 0 .. n - 1 : h.t[i] # Null PROVE FALSE
  OBVIOUS
<1>1. h.t \in [0 .. n - 1 -> Structs \cup {Null}] /\ DOMAIN h.t = 0 .. n - 1
  BY DEF Tables
<1>2. h.t \in Injection(0 .. n - 1, A)
  <2>1. \A i \in 0 .. n - 1 : h.t[i] \in A /\ h.s[h.t[i]].hash_idx = i
    BY <1>1 DEF InPlace
  <2>2. h.t \in [0 .. n - 1 -> A]
    BY <1>1, <2>1
  <2>3. ASSUME NEW i \in 0 .. n - 1, NEW j \in 0 .. n - 1, h.t[i] = h.t[j] PROVE i = j
    BY <2>1, <2>3
  <2>4. IsInjective(h.t)
    BY <1>1, <2>3 DEF IsInjective
  <2> QED BY <2>2, <2>4 DEF Injection
<1>3. Cardinality(A) \in Nat
  BY FS_CardinalityType
<1>4. Cardinality(0 .. n - 1) = n
  BY Intervals
<1>5. Cardinality(0 .. n - 1) <= Cardinality(A)
  BY <1>2, FS_Injection
<1> QED BY <1>3, <1>4, <1>5

(***************************************************************************)
(* The invariant, and check_hash_size under it.  The table never has a     *)
(* single slot: it would be full with one map, and no growth would follow. *)
(***************************************************************************)
Holdings == {Nothing} \cup [addr : Nat, file : Files]

MapInv ==
  /\ TableMatchesMaps
  /\ held \in [Holders -> Holdings]
  /\ Cardinality(DOMAIN table) \in Nat /\ Cardinality(DOMAIN table) > 1

LEMMA ActiveFacts ==
  ASSUME MapInv
  PROVE  /\ Active = FirstMaps(Len(maps)) /\ Active \subseteq Structs /\ Null \notin Active
         /\ Len(maps) \in Nat
         /\ IsInjective(maps) /\ IsInjective(free_maps)
         /\ Active \cap ToSet(free_maps) = {}
         /\ allocated = Active \cup ToSet(free_maps)
<1>1. /\ maps \in Seq(Structs) /\ free_maps \in Seq(Structs)
      /\ IsInjective(maps \o free_maps) /\ allocated = ToSet(maps \o free_maps)
  BY DEF MapInv, TableMatchesMaps, TypeOK, BookkeepingExact
<1>2. /\ IsInjective(maps) /\ IsInjective(free_maps)
      /\ ToSet(maps) \cap ToSet(free_maps) = {}
      /\ ToSet(maps \o free_maps) = ToSet(maps) \cup ToSet(free_maps)
  BY <1>1, OnceInAll
<1>3. Active = FirstMaps(Len(maps)) /\ Active \subseteq Structs
  BY <1>1 DEF Active, FirstMaps, ToSet
<1> QED BY <1>1, <1>2, <1>3, MapCacheAssumption DEF Active, Null

\* The first n maps are n at most.
LEMMA FirstMapsFinite ==
  ASSUME maps \in Seq(Structs), NEW n \in 0 .. Len(maps)
  PROVE  /\ IsFiniteSet(FirstMaps(n)) /\ Cardinality(FirstMaps(n)) \in Nat
         /\ Cardinality(FirstMaps(n)) <= n
<1> DEFINE g == [i \in 1 .. n |-> maps[i]]
<1>1. g \in Surjection(1 .. n, FirstMaps(n))
  BY DEF Surjection, FirstMaps
<1>2. IsFiniteSet(1 .. n) /\ Cardinality(1 .. n) = n
  BY Intervals
<1>3. IsFiniteSet(FirstMaps(n)) /\ Cardinality(FirstMaps(n)) <= Cardinality(1 .. n)
  <2> HIDE DEF g
  <2> QED BY <1>1, <1>2, FS_Surjection
<1> QED BY <1>2, <1>3, FS_CardinalityType

\* The order of rehashing: q holds the tables between the additions.
Fills(q, n) ==
  /\ q[0] = [t |-> EmptyTable(n), s |-> map]
  /\ \A i \in 1 .. Len(maps) :
       \/ q[i] = AddHash(q[i - 1], maps[i])
       \/ AddHash(q[i - 1], maps[i]) \notin Tables(n)

FilledRight(h, n, i) ==
  h \in Tables(n) /\ InPlace(h, FirstMaps(i)) /\ SameMaps(h.s, map)

LEMMA FillsRight ==
  ASSUME MapInv, NEW n \in Nat, n > Len(maps), NEW q, Fills(q, n)
  PROVE  /\ \A i \in 0 .. Len(maps) : FilledRight(q[i], n, i)
         /\ \A i \in 1 .. Len(maps) : q[i] = AddHash(q[i - 1], maps[i])
<1> DEFINE len == Len(maps)
           P == {i \in 0 .. len : FilledRight(q[i], n, i)}
<1>1. /\ maps \in Seq(Structs) /\ len \in Nat /\ DOMAIN maps = 1 .. len
      /\ map \in [Structs -> MapStruct]
      /\ \A m \in Active : map[m].file \in Files
      /\ IsInjective(maps) /\ Active = FirstMaps(len) /\ Active \subseteq Structs
      /\ n > 0
  BY ActiveFacts DEF MapInv, TableMatchesMaps, TypeOK
<1>2. 0 \in P
  <2>1. EmptyTable(n) \in [0 .. n - 1 -> Structs \cup {Null}]
    BY DEF EmptyTable
  <2>2. q[0] \in Tables(n) /\ q[0].t = EmptyTable(n) /\ q[0].s = map
    BY <1>1, <2>1 DEF Fills, Tables
  <2>3. FirstMaps(0) = {}
    BY DEF FirstMaps
  <2>4. InPlace(q[0], FirstMaps(0))
    BY <2>2, <2>3 DEF InPlace, EmptyTable
  <2>5. SameMaps(q[0].s, map)
    BY <2>2 DEF SameMaps
  <2> QED BY <1>1, <2>2, <2>4, <2>5 DEF FilledRight
<1>3. ASSUME NEW i \in 1 .. len, i - 1 \in P
      PROVE  i \in P /\ q[i] = AddHash(q[i - 1], maps[i])
  <2> DEFINE h == q[i - 1]
             m == maps[i]
  <2>1. h \in Tables(n) /\ InPlace(h, FirstMaps(i - 1)) /\ SameMaps(h.s, map)
    BY <1>3 DEF FilledRight
  <2>2. m \in Structs /\ m \in Active
    BY <1>1 DEF Active, ToSet
  <2>3. FirstMaps(i) = FirstMaps(i - 1) \cup {m} /\ FirstMaps(i - 1) \subseteq Structs
    <3>1. \A j \in 1 .. i : j = i \/ j \in 1 .. i - 1
      BY <1>1
    <3>2. \A j \in 1 .. i - 1 : j \in 1 .. i /\ j \in 1 .. len
      BY <1>1
    <3> QED BY <1>1, <3>1, <3>2 DEF FirstMaps
  <2>4. m \notin FirstMaps(i - 1)
    <3>1. \A j \in 1 .. i - 1 : j \in 1 .. len /\ j # i
      BY <1>1
    <3> QED BY <1>1, <3>1 DEF FirstMaps, IsInjective
  <2>5. /\ IsFiniteSet(FirstMaps(i - 1)) /\ Cardinality(FirstMaps(i - 1)) \in Nat
        /\ Cardinality(FirstMaps(i - 1)) <= i - 1
    <3>1. i - 1 \in 0 .. len
      BY <1>1
    <3> QED BY <1>1, <3>1, FirstMapsFinite
  <2> HIDE DEF h
  <2>6. \E j \in 0 .. n - 1 : h.t[j] = Null
    <3>1. Cardinality(FirstMaps(i - 1)) < n
      BY <1>1, <2>5
    <3> QED BY <2>1, <2>5, <3>1, EmptySlot
  <2>7. h.s[m].file \in Files
    BY <1>1, <2>1, <2>2 DEF SameMaps
  <2> HIDE DEF m
  <2>8. /\ AddHash(h, m) \in Tables(n)
        /\ InPlace(AddHash(h, m), FirstMaps(i - 1) \cup {m})
        /\ SameMaps(AddHash(h, m).s, h.s)
    BY <1>1, <2>1, <2>2, <2>3, <2>4, <2>6, <2>7, AddHashRight
  <2>9. q[i] = AddHash(h, m)
    BY <2>8 DEF Fills, h, m
  <2>10. SameMaps(q[i].s, map)
    BY <2>1, <2>8, <2>9 DEF SameMaps
  <2>11. FilledRight(q[i], n, i)
    BY <2>3, <2>8, <2>9, <2>10 DEF FilledRight
  <2> QED BY <1>1, <2>9, <2>11 DEF h, m
<1> HIDE DEF P
<1>4. Inductive(P, len)
  BY <1>2, <1>3 DEF Inductive
<1>5. \A i \in 0 .. len : i \in P
  BY <1>1, <1>4, CountUp
<1>6. \A i \in 1 .. len : i - 1 \in 0 .. len
  BY <1>1
<1>7. \A i \in 1 .. len : q[i] = AddHash(q[i - 1], maps[i])
  BY <1>3, <1>5, <1>6
<1> QED BY <1>5, <1>7 DEF P

\* check_hash_size's new table holds the active maps.
LEMMA RehashedRight ==
  ASSUME MapInv, NEW n \in Nat, n > Len(maps)
  PROVE  FilledRight(Rehashed(n)[Len(maps)], n, Len(maps))
<1> DEFINE len == Len(maps)
           S == Tables(n)
           base == [t |-> EmptyTable(n), s |-> map]
           step == [i \in Nat |-> [h \in S |->
                     IF AddHash(h, maps[i]) \in S THEN AddHash(h, maps[i]) ELSE h]]
           Is(r) == r = [i \in 0 .. len |-> IF i = 0 THEN base ELSE AddHash(r[i - 1], maps[i])]
           r == Rehashed(n)
<1>1. len \in Nat /\ map \in [Structs -> MapStruct]
  BY ActiveFacts DEF MapInv, TableMatchesMaps, TypeOK
<1>2. PICK g : Computes(g, S, base, step, len)
  <2>1. step \in [Nat -> [S -> S]]
    OBVIOUS
  <2>2. base \in S
    <3>1. EmptyTable(n) \in [0 .. n - 1 -> Structs \cup {Null}]
      BY DEF EmptyTable
    <3> QED BY <1>1, <3>1 DEF Tables
  <2>3. Stepping(S, base, step, len)
    BY <1>1, <2>1, <2>2 DEF Stepping
  <2> HIDE DEF step, S, base, len
  <2> QED BY <2>3, Recursion
<1>3. Fills(g, n)
  <2>1. ASSUME NEW i \in 1 .. len
        PROVE  \/ g[i] = AddHash(g[i - 1], maps[i])
               \/ AddHash(g[i - 1], maps[i]) \notin S
    <3>1. g[i - 1] \in S
      <4> HIDE DEF S, base, step
      <4> QED BY <1>1, <1>2 DEF Computes
    <3>2. i \in Nat
      OBVIOUS
    <3>3. \A h \in S : \/ step[i][h] = AddHash(h, maps[i])
                       \/ AddHash(h, maps[i]) \notin S
      BY <3>2
    <3> HIDE DEF step
    <3>4. g[i] = step[i][g[i - 1]]
      BY <1>2 DEF Computes
    <3> HIDE DEF S
    <3> QED BY <3>1, <3>3, <3>4
  <2> QED BY <1>2, <2>1 DEF Fills, Computes
<1>4. Is(g)
  <2>1. \A i \in 1 .. len : g[i] = AddHash(g[i - 1], maps[i])
    BY <1>3, FillsRight
  <2>2. \A i \in 0 .. len : i = 0 \/ i \in 1 .. len
    BY <1>1
  <2> HIDE DEF len, base
  <2> QED BY <1>2, <2>1, <2>2 DEF Computes
<1>5. Is(r)
  BY <1>4 DEF Rehashed
<1>6. Fills(r, n)
  <2>1. \A i \in 1 .. len : i \in 0 .. len /\ i # 0
    BY <1>1
  <2>2. 0 \in 0 .. len
    BY <1>1
  <2> HIDE DEF r, len
  <2>3. \A i \in 1 .. len : r[i] = AddHash(r[i - 1], maps[i])
    BY <1>5, <2>1
  <2> QED BY <1>5, <2>2, <2>3 DEF Fills, len
<1> QED BY <1>1, <1>6, FillsRight
\* What check_hash_size leaves: the active maps in a table with room for one
\* more, and for another after it.
LEMMA CheckedRight ==
  ASSUME MapInv
  PROVE  \E n \in Nat : n >= Len(maps) + 2 /\ FilledRight(Checked, n, Len(maps))
<1> DEFINE len == Len(maps)
           size == Cardinality(DOMAIN table)
           need == len * 6
           doubled == Doubled(size, need)
           enough == {k \in 1 .. need : doubled[k] >= need}
<1>1. /\ len \in Nat /\ size \in Nat /\ size > 1
      /\ map \in [Structs -> MapStruct] /\ table \in [0 .. size - 1 -> Structs \cup {Null}]
      /\ InPlace([t |-> table, s |-> map], FirstMaps(len)) /\ len < size
  BY ActiveFacts DEF MapInv, TableMatchesMaps, TypeOK, TableInOrder
<1>2. CheckedSize = IF size >= len * 3 THEN size ELSE doubled[Min(enough)]
  BY DEF CheckedSize
<1>3. CASE CheckedSize = size
  <2>1. size >= len + 2
    <3>1. CASE size >= len * 3
      BY <1>1, <3>1
    <3>2. CASE ~ (size >= len * 3)
      <4>1. len \in 1 .. need /\ need \in Nat
        BY <1>1, <3>2
      <4>2. \A k \in 0 .. need : doubled[k] \in Nat /\ doubled[k] > k
        BY <1>1, <4>1, DoubledRight
      <4> HIDE DEF doubled
      <4>3. need \in enough /\ enough \in SUBSET Nat
        BY <4>1, <4>2
      <4>4. Min(enough) \in enough
        <5> HIDE DEF enough
        <5> QED BY <4>3, MinRight
      <4>5. size >= need
        BY <1>2, <1>3, <3>2, <4>4
      <4> QED BY <1>1, <3>2, <4>5
    <3> QED BY <3>1, <3>2
  <2>2. Checked = [t |-> table, s |-> map]
    BY <1>3 DEF Checked
  <2>3. FilledRight(Checked, size, len)
    BY <1>1, <2>2 DEF FilledRight, Tables, SameMaps
  <2> QED BY <1>1, <2>1, <2>3
<1>4. CASE CheckedSize # size
  <2>1. ~ (size >= len * 3)
    BY <1>2, <1>4
  <2>2. len \in 1 .. need /\ need \in Nat
    BY <1>1, <2>1
  <2>3. \A k \in 0 .. need : doubled[k] \in Nat /\ doubled[k] > k
    BY <1>1, <2>2, DoubledRight
  <2> HIDE DEF doubled
  <2>4. need \in enough /\ enough \in SUBSET Nat
    BY <2>2, <2>3
  <2>5. Min(enough) \in enough
    <3> HIDE DEF enough
    <3> QED BY <2>4, MinRight
  <2>6. CheckedSize \in Nat /\ CheckedSize >= need
    BY <1>2, <2>1, <2>3, <2>5
  <2> HIDE DEF enough
  <2>7. CheckedSize >= len + 2 /\ CheckedSize > len
    BY <1>1, <2>2, <2>6
  <2>8. Checked = Rehashed(CheckedSize)[len]
    BY <1>4 DEF Checked
  <2>9. FilledRight(Checked, CheckedSize, len)
    <3>1. FilledRight(Rehashed(CheckedSize)[len], CheckedSize, len)
      BY <2>6, <2>7, RehashedRight
    <3> QED BY <2>8, <3>1
  <2> QED BY <2>6, <2>7, <2>9
<1> QED BY <1>3, <1>4

(***************************************************************************)
(* Unmapping.                                                              *)
(***************************************************************************)
\* really_unmap empties the slot of each map of gone and blanks its struct.
LEMMA ReallyUnmapRight ==
  ASSUME NEW n \in Nat, n > 0, NEW h \in Tables(n), NEW A, InPlace(h, A),
         A \subseteq Structs, NEW gone \in SUBSET A
  PROVE  /\ ReallyUnmap(h, gone) \in Tables(n)
         /\ InPlace(ReallyUnmap(h, gone), A \ gone)
         /\ \A m \in A \ gone : ReallyUnmap(h, gone).s[m] = h.s[m]
<1> DEFINE u == ReallyUnmap(h, gone)
<1>1. /\ h.t \in [0 .. n - 1 -> Structs \cup {Null}] /\ DOMAIN h.t = 0 .. n - 1
      /\ h.s \in [Structs -> MapStruct] /\ Null \notin A
  BY MapCacheAssumption DEF Tables, Null
<1>2. Blank \in MapStruct
  BY DEF Blank, MapStruct, Null
<1>3. /\ u.t = [i \in DOMAIN h.t |->
                 IF \E m \in gone : h.s[m].hash_idx = i THEN Null ELSE h.t[i]]
      /\ u.s = [m \in Structs |-> IF m \in gone THEN Blank ELSE h.s[m]]
      /\ u = [t |-> u.t, s |-> u.s]
  BY DEF ReallyUnmap
<1> HIDE DEF u
<1>4. u.t \in [0 .. n - 1 -> Structs \cup {Null}]
  BY <1>1, <1>3
<1>5. u.s \in [Structs -> MapStruct]
  BY <1>1, <1>2, <1>3
<1>6. u \in Tables(n)
  BY <1>3, <1>4, <1>5 DEF Tables
<1>7. \A m \in A \ gone : u.s[m] = h.s[m]
  BY <1>3
<1> DOMAIN u.t = 0 .. n - 1
  BY <1>4
<1>8. ASSUME NEW m \in A \ gone
      PROVE  u.s[m].hash_idx \in DOMAIN u.t /\ u.t[u.s[m].hash_idx] = m
  <2>1. h.s[m].hash_idx \in 0 .. n - 1 /\ h.t[h.s[m].hash_idx] = m
    BY <1>1 DEF InPlace
  <2>2. \A x \in gone : h.s[x].hash_idx # h.s[m].hash_idx
    BY <2>1 DEF InPlace
  <2>3. \A i \in 0 .. n - 1 :
          (\A x \in gone : h.s[x].hash_idx # i) => u.t[i] = h.t[i]
    BY <1>1, <1>3
  <2> QED BY <1>7, <2>1, <2>2, <2>3
<1>9. ASSUME NEW i \in DOMAIN u.t, u.t[i] # Null
      PROVE  u.t[i] \in A \ gone /\ u.s[u.t[i]].hash_idx = i
  <2>1. i \in DOMAIN h.t /\ u.t[i] = h.t[i] /\ \A m \in gone : h.s[m].hash_idx # i
    BY <1>3, <1>9
  <2>2. h.t[i] \in A /\ h.s[h.t[i]].hash_idx = i
    BY <1>9, <2>1 DEF InPlace
  <2>3. h.t[i] \in A \ gone
    BY <2>1, <2>2
  <2> QED BY <1>7, <2>1, <2>2, <2>3
<1>10. InPlace(u, A \ gone)
  BY <1>8, <1>9 DEF InPlace
<1> QED BY <1>6, <1>7, <1>10 DEF u

\* The lists and the bytes after the maps of gone are unmapped.
LEMMA UnmappedLists ==
  ASSUME MapInv, NEW gone \in SUBSET Active,
         NEW free \in Seq(Structs), IsInjective(maps \o free)
  PROVE  /\ Kept(gone) \in Seq(Structs) /\ FreeMaps(gone, free) \in Seq(Structs)
         /\ Len(Kept(gone)) \in Nat /\ Len(Kept(gone)) <= Len(maps)
         /\ ToSet(Kept(gone)) = Active \ gone
         /\ ToSet(FreeMaps(gone, free)) = gone \cup ToSet(free)
         /\ IsInjective(Kept(gone)) /\ IsInjective(FreeMaps(gone, free))
<1> DEFINE len == Len(maps)
<1>1. /\ maps \in Seq(Structs) /\ len \in 0 .. len /\ len \in Nat /\ IsInjective(maps)
      /\ Active = FirstMaps(len)
  BY ActiveFacts DEF MapInv, TableMatchesMaps, TypeOK
<1>2. WalkedRight(Lists(gone, free)[len], gone, free, len)
  BY <1>1, ListsRight
<1>3. WalkedRight(Lists(gone, <<>>)[len], gone, <<>>, len)
  <2>1. <<>> \in Seq(Structs)
    OBVIOUS
  <2> QED BY <1>1, <2>1, ListsRight
<1>4. IsInjective(maps \o <<>>)
  <2>1. maps \o <<>> = maps
    BY <1>1
  <2> QED BY <1>1, <2>1
<1>5. FirstMaps(len) \cap gone = gone
  BY <1>1
<1> QED BY <1>1, <1>2, <1>3, <1>4, <1>5 DEF Kept, FreeMaps, WalkedRight

\* The bytes of some active maps and of the rest, whose files stay the same.
LEMMA UnmappedBytes ==
  ASSUME MapInv, NEW gone \in SUBSET Active, NEW s,
         \A m \in Active \ gone : s[m].file = map[m].file
  PROVE  /\ mapped_bytes - Bytes(gone) = Total([m \in Active \ gone |-> Size[s[m].file]])
         /\ mapped_bytes - Bytes(gone) \in Nat
<1> DEFINE f == [m \in Active |-> Size[map[m].file]]
           g == [m \in gone |-> f[m]]
           k == [m \in Active \ gone |-> f[m]]
<1>1. IsFiniteSet(Active) /\ IsFiniteSet(gone) /\ IsFiniteSet(Active \ gone)
  BY ActiveFacts, FS_Subset, FS_Difference, MapCacheAssumption
<1>2. f \in [Active -> Nat] /\ g \in [gone -> Nat] /\ k \in [Active \ gone -> Nat]
  BY MapCacheAssumption DEF MapInv, TableMatchesMaps, TypeOK
<1>3. Bytes(gone) = Total(g) /\ Bytes(Active) = Total(f) /\ mapped_bytes = Total(f)
  <2>1. g = [m \in gone |-> Size[map[m].file]]
    OBVIOUS
  <2> QED BY <2>1 DEF Bytes, MapInv, TableMatchesMaps, BookkeepingExact
<1>4. k = [m \in Active \ gone |-> Size[s[m].file]]
  OBVIOUS
<1>5. Total(f) = Total(g) + Total(k)
  <2>1. Splits(f, Active, g, gone, k)
    BY <1>1, <1>2 DEF Splits
  <2> HIDE DEF f, g, k
  <2> QED BY <1>1, <1>2, <2>1, TotalSplit
<1> HIDE DEF f, g, k
<1>6. Total(g) \in Nat /\ Total(k) \in Nat
  BY <1>1, <1>2, TotalFinite
<1> QED BY <1>3, <1>4, <1>5, <1>6
(***************************************************************************)
(* What mmc_map takes.                                                     *)
(***************************************************************************)
\* The struct taken is on neither list, and the rest of the free list stays.
LEMMA StructFacts ==
  ASSUME MapInv, HasStruct
  PROVE  /\ Struct \in Structs /\ Struct \notin Active
         /\ Untaken \in Seq(Structs) /\ IsInjective(maps \o Untaken)
         /\ Struct \notin ToSet(Untaken)
         /\ allocated \cup {Struct} = Active \cup ToSet(Untaken) \cup {Struct}
         /\ allocated \ {Struct} = Active \cup ToSet(Untaken)
<1>1. /\ maps \in Seq(Structs) /\ free_maps \in Seq(Structs)
      /\ IsInjective(maps) /\ IsInjective(free_maps)
      /\ Active \cap ToSet(free_maps) = {} /\ Active = ToSet(maps)
      /\ allocated = Active \cup ToSet(free_maps) /\ allocated \subseteq Structs
  BY ActiveFacts DEF MapInv, TableMatchesMaps, TypeOK, Active
<1>2. CASE free_maps # <<>>
  <2> DEFINE one == <<Head(free_maps)>>
             others == Tail(free_maps)
  <2>1. /\ Head(free_maps) \in Structs /\ one \in Seq(Structs) /\ others \in Seq(Structs)
        /\ free_maps = one \o others
    BY <1>1, <1>2
  <2>2. ToSet(one) = {Head(free_maps)}
    BY DEF ToSet
  <2>3. Struct = Head(free_maps) /\ Untaken = others
    BY <1>2 DEF Struct, Untaken
  <2> HIDE DEF one, others
  <2>4. /\ ToSet(free_maps) = {Head(free_maps)} \cup ToSet(others)
        /\ IsInjective(others) /\ Head(free_maps) \notin ToSet(others)
    <3>1. /\ ToSet(one \o others) = ToSet(one) \cup ToSet(others)
          /\ IsInjective(one \o others) <=> /\ IsInjective(one) /\ IsInjective(others)
                                          /\ ToSet(one) \cap ToSet(others) = {}
      BY <2>1, OnceInAll
    <3> QED BY <1>1, <2>1, <2>2, <3>1
  <2>5. IsInjective(maps \o others)
    <3>1. ToSet(maps) \cap ToSet(others) = {}
      BY <1>1, <2>4
    <3> QED BY <1>1, <2>1, <2>4, <3>1, OnceInAll
  <2> QED BY <1>1, <2>1, <2>3, <2>4, <2>5
<1>3. CASE free_maps = <<>>
  <2>1. allocated = Active /\ ToSet(<<>>) = {} /\ <<>> \in Seq(Structs)
    BY <1>1, <1>3 DEF ToSet
  <2>2. maps \o <<>> = maps
    BY <1>1
  <2>3. Struct = Min(Structs \ allocated) /\ Untaken = <<>>
    BY <1>3 DEF Struct, Untaken
  <2>4. Min(Structs \ allocated) \in Structs \ allocated
    <3>1. Structs \ allocated # {}
      BY <1>1, <1>3 DEF HasStruct
    <3>2. Structs \ allocated \in SUBSET Nat
      BY MapCacheAssumption
    <3> QED BY <3>1, <3>2, MinRight
  <2> QED BY <1>1, <2>1, <2>2, <2>3, <2>4
<1> QED BY <1>2, <1>3

\* mmap returns an address where nothing is mapped.
LEMMA FreshRight ==
  ASSUME MapInv, NEW live \in SUBSET Active
  PROVE  /\ FreshAddr(live) \in Nat /\ FreshAddr(live) >= 2
         /\ \A m \in live : map[m].addr # FreshAddr(live)
<1> DEFINE used == {map[m].addr : m \in live}
           n == Cardinality(Structs)
           fresh == (2 .. n + 2) \ used
           g == [m \in live |-> map[m].addr]
<1>1. IsFiniteSet(live) /\ Cardinality(live) <= n /\ n \in Nat /\ Cardinality(live) \in Nat
  <2>1. IsFiniteSet(Structs) /\ live \in SUBSET Structs
    BY ActiveFacts, MapCacheAssumption
  <2> QED BY <2>1, FS_Subset, FS_CardinalityType
<1>2. IsFiniteSet(used) /\ Cardinality(used) <= Cardinality(live) /\ Cardinality(used) \in Nat
  <2>1. g \in Surjection(live, used)
    BY DEF Surjection
  <2> HIDE DEF g, used
  <2>2. IsFiniteSet(used) /\ Cardinality(used) <= Cardinality(live)
    BY <1>1, <2>1, FS_Surjection
  <2> QED BY <2>2, FS_CardinalityType
<1> HIDE DEF n
<1>3. fresh # {}
  <2> SUFFICES ASSUME 2 .. n + 2 \subseteq used PROVE FALSE
    OBVIOUS
  <2> HIDE DEF used
  <2>1. Cardinality(2 .. n + 2) <= Cardinality(used)
    BY <1>2, FS_Subset
  <2>2. Cardinality(2 .. n + 2) = n + 1
    BY <1>1, Intervals
  <2> QED BY <1>1, <1>2, <2>1, <2>2
<1>4. FreshAddr(live) \in fresh
  <2>1. FreshAddr(live) = Min(fresh)
    BY DEF FreshAddr, n
  <2>2. fresh \in SUBSET Nat
    BY <1>1
  <2> HIDE DEF fresh
  <2> QED BY <1>3, <2>1, <2>2, MinRight
<1> QED BY <1>1, <1>4

(***************************************************************************)
(* The steps.                                                              *)
(***************************************************************************)
Ages == DEFAULT_EXPIRE_AGE \div 10 .. DEFAULT_EXPIRE_AGE * 3

\* The parts of the invariant, for a table of n slots.
SoundParts(n) ==
  /\ n \in Nat /\ n > 1
  /\ maps \in Seq(Structs) /\ free_maps \in Seq(Structs)
  /\ [t |-> table, s |-> map] \in Tables(n)
  /\ InPlace([t |-> table, s |-> map], Active)
  /\ \A m \in Active : map[m].file \in Files
  /\ Len(maps) < n /\ IsInjective(maps \o free_maps)
  /\ allocated = Active \cup ToSet(free_maps)
  /\ mapped_bytes = Bytes(Active)
  /\ mapped_bytes \in Nat /\ expire_age \in Ages /\ held \in [Holders -> Holdings]
  /\ serving \in BOOLEAN /\ (~ serving => allocated = {})

LEMMA InvReached ==
  ASSUME NEW n, SoundParts(n)'
  PROVE  MapInv'
<1> USE DEF SoundParts
<1>1. /\ table' \in [0 .. n - 1 -> Structs \cup {Null}]
      /\ map' \in [Structs -> MapStruct]
  BY DEF Tables
<1>2. DOMAIN table' = 0 .. n - 1 /\ Cardinality(0 .. n - 1) = n
  BY <1>1, Intervals
<1>3. ToSet(maps' \o free_maps') = ToSet(maps') \cup ToSet(free_maps')
  BY OnceInAll
<1>4. allocated' \subseteq Structs
  BY DEF ToSet, Active
<1>5. TypeOK'
  <2>1. held' \in [Holders -> [addr : Nat, file : Files \cup {Null}]]
    BY DEF Holdings, Nothing, Null
  <2> QED BY <1>1, <1>2, <1>4, <2>1 DEF TypeOK, Active, Ages
<1>6. TableInOrder'
  BY <1>2 DEF TableInOrder, Active
<1>7. BookkeepingExact'
  BY <1>3 DEF BookkeepingExact, Active
<1> QED BY <1>2, <1>5, <1>6, <1>7 DEF MapInv, TableMatchesMaps
\* Structs may change while the table and the slots they remember stay.
LEMMA SameSlots ==
  ASSUME NEW n \in Nat, NEW h \in Tables(n), NEW A, A \subseteq Structs, InPlace(h, A),
         NEW s \in [Structs -> MapStruct], \A m \in A : s[m].hash_idx = h.s[m].hash_idx
  PROVE  /\ [t |-> h.t, s |-> s] \in Tables(n)
         /\ InPlace([t |-> h.t, s |-> s], A)
BY DEF Tables, InPlace

\* A step that changes the table and the structs, but no list and no file.
LEMMA OnlyTable ==
  ASSUME MapInv, NEW n \in Nat, n > 1, n > Len(maps),
         [t |-> table', s |-> map'] \in Tables(n),
         InPlace([t |-> table', s |-> map'], Active),
         \A m \in Active : map'[m].file = map[m].file,
         held' \in [Holders -> Holdings],
         UNCHANGED <<maps, free_maps, expire_age, mapped_bytes, allocated, serving>>
  PROVE  MapInv'
<1>1. /\ maps \in Seq(Structs) /\ free_maps \in Seq(Structs) /\ Active = ToSet(maps)
      /\ IsInjective(maps \o free_maps)
      /\ allocated = ToSet(maps) \cup ToSet(free_maps)
      /\ mapped_bytes = Bytes(Active) /\ mapped_bytes \in Nat
      /\ expire_age \in Ages /\ serving \in BOOLEAN /\ (~ serving => allocated = {})
      /\ \A m \in Active : map[m].file \in Files
  BY ActiveFacts
  DEF MapInv, TableMatchesMaps, TypeOK, BookkeepingExact, Ages, Active
<1>2. mapped_bytes = Total([m \in Active |-> Size[map'[m].file]])
  <2>1. [m \in Active |-> Size[map'[m].file]] = [m \in Active |-> Size[map[m].file]]
    OBVIOUS
  <2> QED BY <1>1, <2>1 DEF Bytes
<1>3. Active' = Active
  BY DEF Active
<1>4. \A m \in Active : map'[m].file \in Files
  BY <1>1
<1>5. mapped_bytes' = Bytes(Active)'
  <2>1. [m \in Active' |-> Size[map'[m].file]] = [m \in Active |-> Size[map'[m].file]]
    BY <1>3
  <2>2. mapped_bytes' = Total([m \in Active' |-> Size[map'[m].file]])
    BY <1>2, <2>1
  <2> QED BY <2>2 DEF Bytes
<1>6. /\ InPlace([t |-> table', s |-> map'], Active')
      /\ \A m \in Active' : map'[m].file \in Files
  BY <1>3, <1>4
<1>7. Active' = ToSet(maps') /\ allocated' = Active' \cup ToSet(free_maps')
  BY <1>1, <1>3
<1>8. SoundParts(n)'
  BY <1>1, <1>5, <1>6, <1>7 DEF SoundParts
<1> QED BY <1>8, InvReached

\* The age limit stays within its bounds.
LEMMA AgesKept ==
  ASSUME expire_age \in Ages, NEW bytes, NEW count
  PROVE  AdjustedAge(bytes, count) \in Ages
<1> DEFINE D == DEFAULT_EXPIRE_AGE
           e == expire_age
<1>1. D \in Nat /\ D > 0 /\ D \div 10 \in Nat /\ D \div 10 <= D /\ e \in Nat
      /\ D \div 10 <= e /\ e <= D * 3
  BY MapCacheAssumption DEF Ages
<1> HIDE DEF D, e
<1>2. /\ (e * 2) \div 3 \in Nat /\ (e * 2) \div 3 <= e
      /\ (e * 5) \div 4 \in Nat /\ (e * 5) \div 4 >= e
  BY <1>1
<1>3. Larger((e * 2) \div 3, D \div 10) \in D \div 10 .. D * 3
  BY <1>1, <1>2 DEF Larger
<1>4. Smaller((e * 5) \div 4, D * 3) \in D \div 10 .. D * 3
  BY <1>1, <1>2 DEF Smaller
<1>5. e \in D \div 10 .. D * 3
  BY <1>1
<1> QED BY <1>3, <1>4, <1>5 DEF AdjustedAge, Ages, D, e

\* The parts of the invariant the steps use.
LEMMA InvParts ==
  ASSUME MapInv
  PROVE  /\ maps \in Seq(Structs) /\ free_maps \in Seq(Structs)
         /\ map \in [Structs -> MapStruct]
         /\ \A m \in Active : map[m].file \in Files
         /\ IsInjective(maps \o free_maps)
         /\ expire_age \in Ages /\ held \in [Holders -> Holdings]
         /\ serving \in BOOLEAN
         /\ mapped_bytes \in Nat
         /\ ~ serving => allocated = {}
BY DEF MapInv, TableMatchesMaps, TypeOK, BookkeepingExact, Ages

\* The table as it is.
LEMMA TableRight ==
  ASSUME MapInv
  PROVE  \E n \in Nat : /\ n > 1 /\ n > Len(maps)
                        /\ [t |-> table, s |-> map] \in Tables(n)
                        /\ InPlace([t |-> table, s |-> map], Active)
<1> DEFINE n == Cardinality(DOMAIN table)
<1>1. /\ n \in Nat /\ n > 1 /\ n > Len(maps)
      /\ map \in [Structs -> MapStruct] /\ table \in [0 .. n - 1 -> Structs \cup {Null}]
      /\ InPlace([t |-> table, s |-> map], Active)
  BY ActiveFacts DEF MapInv, TableMatchesMaps, TypeOK, TableInOrder
<1> HIDE DEF n
<1>2. [t |-> table, s |-> map] \in Tables(n)
  BY <1>1 DEF Tables
<1> QED BY <1>1, <1>2

\* And after check_hash_size.
LEMMA CheckedTable ==
  ASSUME MapInv
  PROVE  \E n \in Nat : /\ n >= Len(maps) + 2 /\ n > 1 /\ n > Len(maps)
                        /\ Checked \in Tables(n) /\ InPlace(Checked, Active)
                        /\ SameMaps(Checked.s, map)
<1>1. PICK n \in Nat : n >= Len(maps) + 2 /\ FilledRight(Checked, n, Len(maps))
  BY CheckedRight
<1>2. n > 1 /\ n > Len(maps)
  BY <1>1, ActiveFacts
<1> QED BY <1>1, <1>2, ActiveFacts DEF FilledRight

LEMMA InitMapInv == Init => MapInv
<1> SUFFICES ASSUME Init PROVE MapInv
  OBVIOUS
<1> DEFINE n == INITIAL_HASH_SIZE
<1>1. n \in Nat /\ n > 1
  BY MapCacheAssumption
<1>2. /\ table \in [0 .. n - 1 -> Structs \cup {Null}] /\ \A i \in DOMAIN table : table[i] = Null
      /\ DOMAIN table = 0 .. n - 1
  BY DEF Init, EmptyTable
<1>3. Cardinality(DOMAIN table) = n
  BY <1>1, <1>2, Intervals
<1>4. /\ maps = <<>> /\ free_maps = <<>> /\ Active = {} /\ Len(maps) = 0
      /\ maps \o free_maps = <<>> /\ ToSet(<<>>) = {} /\ IsInjective(<<>>)
  BY DEF Init, Active, ToSet, IsInjective
<1>5. map \in [Structs -> MapStruct]
  BY DEF Init, Blank, MapStruct, Null
<1>6. expire_age \in Ages
  <2>1. DEFAULT_EXPIRE_AGE \in Nat
    BY MapCacheAssumption
  <2> QED BY <2>1 DEF Init, Ages
<1>7. /\ held \in [Holders -> Holdings]
      /\ held \in [Holders -> [addr : Nat, file : Files \cup {Null}]]
  BY DEF Init, Nothing, Holdings, Null
<1>8. TypeOK
  BY <1>1, <1>2, <1>3, <1>4, <1>5, <1>6, <1>7 DEF TypeOK, Ages, Init
<1>9. TableInOrder
  BY <1>1, <1>2, <1>3, <1>4 DEF TableInOrder, InPlace
<1>10. BookkeepingExact
  <2>1. Bytes({}) = 0
    BY TotalOne DEF Bytes
  <2> QED BY <1>4, <2>1 DEF BookkeepingExact, Init
<1> QED BY <1>1, <1>3, <1>7, <1>8, <1>9, <1>10 DEF MapInv, TableMatchesMaps

\* What a step keeps of the maps of A.
KeepsMaps(A) ==
  \A m \in A : /\ map'[m].file = map[m].file /\ map'[m].addr = map[m].addr
               /\ map'[m].refcount = map[m].refcount

\* A struct whose references are counted anew.
Recounted(s, m, r) == [s EXCEPT ![m].refcount = r, ![m].age = 0]

LEMMA RecountedRight ==
  ASSUME NEW s \in [Structs -> MapStruct], NEW m \in Structs, NEW r \in Nat
  PROVE  /\ Recounted(s, m, r) \in [Structs -> MapStruct]
         /\ \A x \in Structs \ {m} : Recounted(s, m, r)[x] = s[x]
         /\ Recounted(s, m, r)[m].refcount = r
         /\ Recounted(s, m, r)[m].file = s[m].file
         /\ Recounted(s, m, r)[m].addr = s[m].addr
         /\ Recounted(s, m, r)[m].hash_idx = s[m].hash_idx
<1> DEFINE u == [s[m] EXCEPT !.refcount = r]
           v == [u EXCEPT !.age = 0]
<1>1. /\ u \in MapStruct /\ u.refcount = r
      /\ u.file = s[m].file /\ u.addr = s[m].addr /\ u.hash_idx = s[m].hash_idx
  <2>1. s[m] \in MapStruct
    OBVIOUS
  <2> QED BY <2>1 DEF MapStruct
<1>2. /\ v \in MapStruct /\ v.refcount = r
      /\ v.file = s[m].file /\ v.addr = s[m].addr /\ v.hash_idx = s[m].hash_idx
  <2> HIDE DEF u
  <2> QED BY <1>1 DEF MapStruct
<1>3. Recounted(s, m, r) = [s EXCEPT ![m] = v]
  <2> DEFINE once == [s EXCEPT ![m] = u]
             twice == [once EXCEPT ![m] = [once[m] EXCEPT !.age = 0]]
  <2>1. once[m] = u /\ once = [s EXCEPT ![m].refcount = r]
    OBVIOUS
  <2>2. twice = [s EXCEPT ![m] = v]
    OBVIOUS
  <2> QED BY <2>2 DEF Recounted
<1> HIDE DEF v
<1> QED BY <1>2, <1>3

\* A map the table has is given to one connection more.
LEMMA MapAgainStep ==
  ASSUME MapInv, NEW c \in Holders, NEW f \in Files, MapAgain(c, f)
  PROVE  /\ MapInv'
         /\ Active' = Active
         /\ \E m \in Active :
              /\ map[m].file = f
              /\ held' = [held EXCEPT ![c] = [addr |-> map[m].addr, file |-> f]]
              /\ KeepsMaps(Active \ {m})
              /\ map'[m].file = f /\ map'[m].addr = map[m].addr
              /\ map'[m].refcount = map[m].refcount + 1
<1> DEFINE h == Checked
           m == FindHash(h, f)
           s == [h.s EXCEPT ![m].refcount = @ + 1, ![m].age = 0]
<1>1. PICK n \in Nat : /\ n > 1 /\ n > Len(maps)
                       /\ h \in Tables(n) /\ InPlace(h, Active)
                       /\ SameMaps(h.s, map)
  BY CheckedTable
<1>2. /\ m # Null /\ table' = h.t /\ map' = s
      /\ held' = [held EXCEPT ![c] = [addr |-> map[m].addr, file |-> f]]
      /\ UNCHANGED <<maps, free_maps, expire_age, mapped_bytes, allocated, serving>>
  BY DEF MapAgain
<1>3. Active \subseteq Structs /\ held \in [Holders -> Holdings] /\ map \in [Structs -> MapStruct]
  BY ActiveFacts, InvParts
<1> HIDE DEF h
<1>4. m \in Active /\ h.s[m].file = f
  BY <1>1, <1>2, FindHashRight
<1> HIDE DEF m
<1>5. h.s \in [Structs -> MapStruct] /\ m \in Structs /\ h.s[m] \in MapStruct
  BY <1>1, <1>3, <1>4 DEF Tables
<1>6. s = Recounted(h.s, m, h.s[m].refcount + 1) /\ h.s[m].refcount + 1 \in Nat
  BY <1>5 DEF Recounted, MapStruct
<1> HIDE DEF s
<1>8. /\ s \in [Structs -> MapStruct] /\ \A x \in Structs \ {m} : s[x] = h.s[x]
      /\ s[m].hash_idx = h.s[m].hash_idx /\ s[m].file = h.s[m].file
      /\ s[m].addr = h.s[m].addr /\ s[m].refcount = h.s[m].refcount + 1
  BY <1>5, <1>6, RecountedRight
<1>9. /\ [t |-> h.t, s |-> s] \in Tables(n) /\ InPlace([t |-> h.t, s |-> s], Active)
  <2>1. \A x \in Active : s[x].hash_idx = h.s[x].hash_idx
    BY <1>3, <1>8
  <2> QED BY <1>1, <1>3, <1>8, <2>1, SameSlots
<1>10. /\ KeepsMaps(Active \ {m}) /\ map'[m].file = f /\ map[m].file = f
       /\ map'[m].addr = map[m].addr /\ map'[m].refcount = map[m].refcount + 1
  BY <1>1, <1>2, <1>3, <1>4, <1>8 DEF KeepsMaps, SameMaps
<1>11. \A x \in Active : map'[x].file = map[x].file
  BY <1>10 DEF KeepsMaps
<1>12. held' \in [Holders -> Holdings]
  <2>1. [addr |-> map[m].addr, file |-> f] \in Holdings
    BY <1>3, <1>5 DEF MapStruct, Holdings
  <2> QED BY <1>2, <1>3, <2>1
<1>13. MapInv'
  BY <1>1, <1>2, <1>9, <1>11, <1>12, OnlyTable
<1>14. Active' = Active
  BY <1>2 DEF Active
<1> QED BY <1>2, <1>4, <1>10, <1>13, <1>14

\* Steps that change neither the lists nor what is in the maps.
LEMMA CannotOpenStep ==
  ASSUME MapInv, NEW f \in Files, CannotOpen(f)
  PROVE  MapInv' /\ Active' = Active /\ KeepsMaps(Active)
<1>1. PICK n \in Nat : /\ n > 1 /\ n > Len(maps)
                       /\ Checked \in Tables(n) /\ InPlace(Checked, Active)
                       /\ SameMaps(Checked.s, map)
  BY CheckedTable
<1>2. /\ table' = Checked.t /\ map' = Checked.s
      /\ UNCHANGED <<maps, free_maps, expire_age, mapped_bytes, allocated, serving>>
      /\ held' = held
  BY DEF CannotOpen
<1>3. /\ [t |-> table', s |-> map'] \in Tables(n)
      /\ InPlace([t |-> table', s |-> map'], Active)
  <2>1. [t |-> table', s |-> map'] = Checked
    BY <1>1, <1>2 DEF Tables
  <2> QED BY <1>1, <2>1
<1>4. KeepsMaps(Active)
  BY <1>1, <1>2, ActiveFacts DEF KeepsMaps, SameMaps
<1>5. \A x \in Active : map'[x].file = map[x].file
  BY <1>4 DEF KeepsMaps
<1>6. held' \in [Holders -> Holdings]
  BY <1>2, InvParts
<1>7. MapInv'
  BY <1>1, <1>2, <1>3, <1>5, <1>6, OnlyTable
<1> QED BY <1>2, <1>4, <1>7 DEF Active

LEMMA TimePassesStep ==
  ASSUME MapInv, TimePasses
  PROVE  MapInv' /\ Active' = Active /\ KeepsMaps(Active)
<1>1. PICK n \in Nat : /\ n > 1 /\ n > Len(maps)
                       /\ [t |-> table, s |-> map] \in Tables(n)
                       /\ InPlace([t |-> table, s |-> map], Active)
  BY TableRight
<1>2. /\ UNCHANGED <<maps, free_maps, expire_age, mapped_bytes, allocated, serving>>
      /\ held' = held /\ table' = table
      /\ map' = [m \in Structs |->
                  IF m \in Active
                  THEN [map[m] EXCEPT !.age = Smaller(@ + TimeStep, OldestAge)]
                  ELSE map[m]]
  BY DEF TimePasses
<1>3. Active \subseteq Structs /\ map \in [Structs -> MapStruct]
  BY ActiveFacts, InvParts
<1>4. ASSUME NEW m \in Structs
      PROVE  /\ map'[m] \in MapStruct /\ map'[m].hash_idx = map[m].hash_idx
             /\ map'[m].file = map[m].file /\ map'[m].addr = map[m].addr
             /\ map'[m].refcount = map[m].refcount
  <2>1. Smaller(map[m].age + TimeStep, OldestAge) \in Nat
    BY <1>3, MapCacheAssumption DEF MapStruct, Smaller, OldestAge
  <2> HIDE DEF OldestAge
  <2>2. map[m] \in MapStruct
    BY <1>3
  <2> QED BY <1>2, <2>1, <2>2 DEF MapStruct
<1>5. map' \in [Structs -> MapStruct]
  BY <1>2, <1>4
<1>6. KeepsMaps(Active) /\ \A x \in Active : map'[x].file = map[x].file
  BY <1>3, <1>4 DEF KeepsMaps
<1>7. /\ [t |-> table', s |-> map'] \in Tables(n)
      /\ InPlace([t |-> table', s |-> map'], Active)
  <2> DEFINE h == [t |-> table, s |-> map]
  <2>1. h.t = table' /\ \A x \in Active : map'[x].hash_idx = h.s[x].hash_idx
    BY <1>2, <1>3, <1>4
  <2>2. h \in Tables(n) /\ InPlace(h, Active)
    BY <1>1
  <2> HIDE DEF h
  <2>3. [t |-> h.t, s |-> map'] \in Tables(n) /\ InPlace([t |-> h.t, s |-> map'], Active)
    BY <1>1, <1>3, <1>5, <2>1, <2>2, SameSlots
  <2> QED BY <2>1, <2>3
<1>8. held' \in [Holders -> Holdings]
  BY <1>2, InvParts
<1>9. MapInv'
  BY <1>1, <1>2, <1>6, <1>7, <1>8, OnlyTable
<1> QED BY <1>2, <1>6, <1>9 DEF Active

\* mmc_unmap gives a map back that is at the address, if there is one.
LEMMA FoundAtRight ==
  ASSUME MapInv, NEW addr, NEW f \in Files
  PROVE  \/ /\ FoundAt(addr, f) = Null
            /\ \A m \in Active : map[m].addr # addr
         \/ FoundAt(addr, f) \in Active /\ map[FoundAt(addr, f)].addr = addr
<1> DEFINE m == FindHash([t |-> table, s |-> map], f)
           there == {i \in DOMAIN maps : map[maps[i]].addr = addr}
<1>1. m = Null \/ m \in Active
  BY TableRight, FindHashRight
<1>2. FoundAt(addr, f) = IF m # Null /\ map[m].addr = addr THEN m ELSE FirstAt(addr)
  BY DEF FoundAt
<1>3. FirstAt(addr) = IF there = {} THEN Null ELSE maps[Min(there)]
  BY DEF FirstAt
<1>4. /\ maps \in Seq(Structs) /\ DOMAIN maps = 1 .. Len(maps) /\ Len(maps) \in Nat
      /\ Active = {maps[i] : i \in DOMAIN maps}
  BY InvParts DEF Active, ToSet
<1>5. CASE there = {}
  BY <1>1, <1>2, <1>3, <1>4, <1>5
<1>6. CASE there # {}
  <2>1. there \in SUBSET Nat
    BY <1>4
  <2>2. Min(there) \in there
    <3> HIDE DEF there
    <3> QED BY <1>6, <2>1, MinRight
  <2>3. maps[Min(there)] \in Active /\ map[maps[Min(there)]].addr = addr
    BY <1>4, <2>2
  <2> QED BY <1>1, <1>2, <1>3, <1>6, <2>3
<1> QED BY <1>5, <1>6

LEMMA MmcUnmapStep ==
  ASSUME MapInv, NEW c \in Holders, MmcUnmap(c)
  PROVE  /\ MapInv' /\ Active' = Active
         /\ held' = [held EXCEPT ![c] = Nothing]
         /\ \/ KeepsMaps(Active) /\ \A m \in Active : map[m].addr # held[c].addr
            \/ \E m \in Active :
                 /\ KeepsMaps(Active \ {m})
                 /\ map[m].addr = held[c].addr
                 /\ map'[m].file = map[m].file /\ map'[m].addr = map[m].addr
                 /\ map'[m].refcount = IF map[m].refcount > 0 THEN map[m].refcount - 1
                                       ELSE map[m].refcount
<1> DEFINE h == [t |-> table, s |-> map]
           m == FoundAt(held[c].addr, held[c].file)
<1>1. PICK n \in Nat : /\ n > 1 /\ n > Len(maps) /\ h \in Tables(n) /\ InPlace(h, Active)
  BY TableRight
<1>2. /\ map' = GivesBack(m) /\ held[c] # Nothing
      /\ held' = [held EXCEPT ![c] = Nothing] /\ table' = table
      /\ UNCHANGED <<maps, free_maps, expire_age, mapped_bytes, allocated, serving>>
  BY DEF MmcUnmap
<1>3. /\ Active \subseteq Structs /\ Null \notin Active
      /\ map \in [Structs -> MapStruct] /\ held \in [Holders -> Holdings]
  BY ActiveFacts, InvParts
<1>4. held[c].file \in Files
  BY <1>2, <1>3 DEF Holdings
<1>5. \/ m = Null /\ \A k \in Active : map[k].addr # held[c].addr
      \/ m \in Active /\ map[m].addr = held[c].addr
  BY <1>4, FoundAtRight
<1> HIDE DEF m
<1>6. /\ map' \in [Structs -> MapStruct]
      /\ \A x \in Active : map'[x].hash_idx = map[x].hash_idx /\ map'[x].file = map[x].file
      /\ \/ KeepsMaps(Active) /\ \A x \in Active : map[x].addr # held[c].addr
         \/ /\ m \in Active /\ KeepsMaps(Active \ {m})
            /\ map[m].addr = held[c].addr
            /\ map'[m].file = map[m].file /\ map'[m].addr = map[m].addr
            /\ map'[m].refcount = IF map[m].refcount > 0 THEN map[m].refcount - 1
                                  ELSE map[m].refcount
  <2>1. CASE m = Null
    BY <1>2, <1>3, <1>5, <2>1 DEF GivesBack, KeepsMaps
  <2>2. CASE m \in Active /\ ~ (map[m].refcount > 0)
    BY <1>2, <1>3, <1>5, <2>2 DEF GivesBack, KeepsMaps
  <2>3. CASE m \in Active /\ map[m].refcount > 0
    <3>1. map' = Recounted(map, m, map[m].refcount - 1) /\ map[m].refcount - 1 \in Nat
      BY <1>2, <1>3, <2>3 DEF GivesBack, Recounted, MapStruct
    <3>2. /\ map' \in [Structs -> MapStruct]
          /\ \A x \in Structs \ {m} : map'[x] = map[x]
          /\ map'[m].refcount = map[m].refcount - 1
          /\ map'[m].file = map[m].file /\ map'[m].addr = map[m].addr
          /\ map'[m].hash_idx = map[m].hash_idx
      BY <1>3, <2>3, <3>1, RecountedRight
    <3> QED BY <1>3, <1>5, <2>3, <3>2 DEF KeepsMaps
  <2> QED BY <1>5, <2>1, <2>2, <2>3
<1>7. /\ [t |-> table', s |-> map'] \in Tables(n)
      /\ InPlace([t |-> table', s |-> map'], Active)
  <2>1. h.t = table' /\ \A x \in Active : map'[x].hash_idx = h.s[x].hash_idx
    BY <1>2, <1>6
  <2> HIDE DEF h
  <2>2. [t |-> h.t, s |-> map'] \in Tables(n) /\ InPlace([t |-> h.t, s |-> map'], Active)
    BY <1>1, <1>3, <1>6, <2>1, SameSlots
  <2> QED BY <2>1, <2>2
<1>8. held' \in [Holders -> Holdings]
  BY <1>2, <1>3 DEF Holdings
<1>9. MapInv'
  BY <1>1, <1>2, <1>6, <1>7, <1>8, OnlyTable
<1>10. Active' = Active
  BY <1>2 DEF Active
<1> QED BY <1>2, <1>6, <1>9, <1>10

\* Steps that unmap the maps of gone: h is the table before it, of n slots.
Unmaps(n, h, gone) ==
  /\ n \in Nat /\ n > 1 /\ n > Len(maps)
  /\ h \in Tables(n) /\ InPlace(h, Active) /\ SameMaps(h.s, map)
  /\ gone \subseteq Active
  /\ table' = ReallyUnmap(h, gone).t /\ map' = ReallyUnmap(h, gone).s
  /\ mapped_bytes' = mapped_bytes - Bytes(gone)
  /\ maps' \in Seq(Structs) /\ IsInjective(maps') /\ ToSet(maps') = Active \ gone
  /\ Len(maps') < n
  /\ free_maps' \in Seq(Structs) /\ IsInjective(free_maps')
  /\ ToSet(maps') \cap ToSet(free_maps') = {}
  /\ allocated' = ToSet(maps') \cup ToSet(free_maps')
  /\ expire_age' \in Ages /\ held' \in [Holders -> Holdings]
  /\ serving' \in BOOLEAN /\ (~ serving' => allocated' = {})

LEMMA UnmapsStep ==
  ASSUME MapInv, NEW n, NEW h, NEW gone, Unmaps(n, h, gone)
  PROVE  MapInv' /\ Active' = Active \ gone /\ KeepsMaps(Active \ gone)
<1>1. Active' = Active \ gone /\ Active \subseteq Structs /\ gone \in SUBSET Active
  BY ActiveFacts DEF Active, Unmaps
<1>2. /\ [t |-> table', s |-> map'] \in Tables(n)
      /\ InPlace([t |-> table', s |-> map'], Active')
      /\ \A m \in Active \ gone : map'[m] = h.s[m]
  <2>1. PICK B : B = Active
    OBVIOUS
  <2>2. /\ ReallyUnmap(h, gone) \in Tables(n)
        /\ InPlace(ReallyUnmap(h, gone), Active \ gone)
        /\ \A m \in Active \ gone : ReallyUnmap(h, gone).s[m] = h.s[m]
    <3>1. /\ n \in Nat /\ n > 0 /\ h \in Tables(n) /\ InPlace(h, B)
          /\ B \subseteq Structs /\ gone \in SUBSET B
      BY <1>1, <2>1 DEF Unmaps
    <3>2. /\ ReallyUnmap(h, gone) \in Tables(n)
          /\ InPlace(ReallyUnmap(h, gone), B \ gone)
          /\ \A m \in B \ gone : ReallyUnmap(h, gone).s[m] = h.s[m]
      BY <3>1, ReallyUnmapRight
    <3> QED BY <2>1, <3>2
  <2>3. ReallyUnmap(h, gone) = [t |-> table', s |-> map']
    BY <2>2 DEF Tables, Unmaps
  <2> QED BY <1>1, <2>2, <2>3
<1>3. KeepsMaps(Active \ gone)
  BY <1>1, <1>2 DEF KeepsMaps, SameMaps, Unmaps
<1>4. \A m \in Active' : map'[m].file \in Files /\ map'[m].file = map[m].file
  BY <1>1, <1>3, InvParts DEF KeepsMaps
<1>5. mapped_bytes' = Bytes(Active)' /\ mapped_bytes' \in Nat
  <2> DEFINE s == map'
  <2>1. \A m \in Active \ gone : s[m].file = map[m].file
    BY <1>1, <1>4
  <2>2. mapped_bytes' = mapped_bytes - Bytes(gone)
    BY DEF Unmaps
  <2>3. [m \in Active \ gone |-> Size[s[m].file]] = [m \in Active' |-> Size[map'[m].file]]
    BY <1>1
  <2> HIDE DEF s
  <2>4. /\ mapped_bytes - Bytes(gone) = Total([m \in Active \ gone |-> Size[s[m].file]])
        /\ mapped_bytes - Bytes(gone) \in Nat
    BY <1>1, <2>1, UnmappedBytes
  <2>5. mapped_bytes' = Total([m \in Active' |-> Size[map'[m].file]])
    BY <2>2, <2>3, <2>4
  <2> QED BY <2>2, <2>4, <2>5 DEF Bytes
<1>6. IsInjective(maps' \o free_maps')
  BY OnceInAll DEF Unmaps
<1>7. Active' = ToSet(maps') /\ allocated' = Active' \cup ToSet(free_maps')
  BY DEF Active, Unmaps
<1>8. SoundParts(n)'
  BY <1>2, <1>4, <1>5, <1>6, <1>7 DEF SoundParts, Unmaps
<1> QED BY <1>1, <1>3, <1>8, InvReached

\* The two lists after maps are unmapped share nothing and lose nothing.
LEMMA KeptAndFree ==
  ASSUME MapInv, NEW gone \in SUBSET Active,
         NEW free \in Seq(Structs), IsInjective(maps \o free)
  PROVE  /\ ToSet(Kept(gone)) \cap ToSet(FreeMaps(gone, free)) = {}
         /\ ToSet(Kept(gone)) \cup ToSet(FreeMaps(gone, free)) = Active \cup ToSet(free)
<1>1. Active \cap ToSet(free) = {}
  BY InvParts, OnceInAll DEF Active
<1>2. /\ ToSet(Kept(gone)) = Active \ gone
      /\ ToSet(FreeMaps(gone, free)) = gone \cup ToSet(free)
  BY UnmappedLists
<1> QED BY <1>1, <1>2

LEMMA CannotMapStep ==
  ASSUME MapInv, serving, NEW f \in Files, NEW gone \in SUBSET Active, CannotMap(f, gone)
  PROVE  MapInv' /\ Active' = Active \ gone /\ KeepsMaps(Active \ gone)
<1>1. PICK n \in Nat : /\ n > 1 /\ n > Len(maps)
                       /\ Checked \in Tables(n) /\ InPlace(Checked, Active)
                       /\ SameMaps(Checked.s, map)
  BY CheckedTable
<1>2. /\ HasStruct
      /\ table' = ReallyUnmap(Checked, gone).t /\ map' = ReallyUnmap(Checked, gone).s
      /\ maps' = Kept(gone) /\ free_maps' = FreeMaps(gone, Untaken)
      /\ allocated' = allocated \ {Struct}
      /\ mapped_bytes' = mapped_bytes - Bytes(gone)
      /\ expire_age' = expire_age /\ held' = held /\ serving' = serving
  BY DEF CannotMap
<1>3. /\ Untaken \in Seq(Structs) /\ IsInjective(maps \o Untaken)
      /\ allocated \ {Struct} = Active \cup ToSet(Untaken)
  BY <1>2, StructFacts
<1>4. /\ Kept(gone) \in Seq(Structs) /\ FreeMaps(gone, Untaken) \in Seq(Structs)
      /\ Len(Kept(gone)) \in Nat /\ Len(Kept(gone)) <= Len(maps)
      /\ ToSet(Kept(gone)) = Active \ gone
      /\ IsInjective(Kept(gone)) /\ IsInjective(FreeMaps(gone, Untaken))
  BY <1>3, UnmappedLists
<1>5. /\ ToSet(Kept(gone)) \cap ToSet(FreeMaps(gone, Untaken)) = {}
      /\ allocated' = ToSet(Kept(gone)) \cup ToSet(FreeMaps(gone, Untaken))
  BY <1>2, <1>3, KeptAndFree
<1>6. expire_age' \in Ages /\ held' \in [Holders -> Holdings] /\ serving' = TRUE
  BY <1>2, InvParts
<1>7. Len(Kept(gone)) < n
  BY <1>1, <1>4, ActiveFacts
<1>8. Unmaps(n, Checked, gone)
  BY <1>1, <1>2, <1>4, <1>5, <1>6, <1>7 DEF Unmaps
<1> QED BY <1>8, UnmapsStep

\* A sequence cut in two.
LEMMA CutInTwo ==
  ASSUME NEW S, NEW s \in Seq(S), NEW e \in 0 .. Len(s)
  PROVE  /\ SubSeq(s, 1, e) \in Seq(S) /\ SubSeq(s, e + 1, Len(s)) \in Seq(S)
         /\ s = SubSeq(s, 1, e) \o SubSeq(s, e + 1, Len(s))
<1> DEFINE a == SubSeq(s, 1, e)
           b == SubSeq(s, e + 1, Len(s))
           c == a \o b
<1>1. Len(s) \in Nat /\ e \in Nat /\ e <= Len(s)
  OBVIOUS
<1>2. a \in Seq(S) /\ Len(a) = e /\ \A i \in 1 .. e : a[i] = s[i]
  BY <1>1
<1>3. /\ b \in Seq(S) /\ Len(b) = Len(s) - e
      /\ \A i \in 1 .. Len(s) - e : b[i] = s[e + i]
  BY <1>1
<1> HIDE DEF a, b
<1>4. c \in Seq(S) /\ Len(c) = Len(s)
  BY <1>1, <1>2, <1>3
<1>5. ASSUME NEW i \in 1 .. Len(s) PROVE c[i] = s[i]
  <2>1. CASE i <= e
    BY <1>1, <1>2, <1>3, <2>1
  <2>2. CASE i > e
    <3>1. i - e \in 1 .. Len(s) - e /\ c[i] = b[i - e]
      BY <1>1, <1>2, <1>3, <2>2
    <3> QED BY <1>3, <3>1
  <2>3. i <= e \/ i > e
    BY <1>1
  <2> QED BY <2>1, <2>2, <2>3
<1> HIDE DEF c
<1>6. c = s
  BY <1>4, <1>5
<1> QED BY <1>2, <1>3, <1>6 DEF a, b, c

LEMMA MmcCleanupStep ==
  ASSUME MapInv, MmcCleanup
  PROVE  MapInv' /\ Active' = Active \ TooOld /\ KeepsMaps(Active \ TooOld)
<1> DEFINE h == [t |-> table, s |-> map]
           gone == TooOld
           free == FreeMaps(gone, free_maps)
           e == Excess(free)
           freed == SubSeq(free, 1, e)
           others == SubSeq(free, e + 1, Len(free))
<1>1. PICK n \in Nat : /\ n > 1 /\ n > Len(maps) /\ h \in Tables(n) /\ InPlace(h, Active)
  BY TableRight
<1>2. /\ table' = ReallyUnmap(h, gone).t /\ map' = ReallyUnmap(h, gone).s
      /\ maps' = Kept(gone) /\ free_maps' = others
      /\ allocated' = allocated \ ToSet(freed)
      /\ mapped_bytes' = mapped_bytes - Bytes(gone)
      /\ expire_age' = AdjustedAge(mapped_bytes', Len(maps'))
      /\ held' = held /\ serving' = serving /\ serving
  BY DEF MmcCleanup
<1>3. /\ gone \in SUBSET Active /\ SameMaps(h.s, map)
      /\ free_maps \in Seq(Structs) /\ IsInjective(maps \o free_maps)
      /\ allocated = Active \cup ToSet(free_maps)
  BY InvParts, ActiveFacts DEF TooOld, Unreferenced, SameMaps
<1> HIDE DEF h, gone
<1>4. /\ Kept(gone) \in Seq(Structs) /\ free \in Seq(Structs)
      /\ Len(Kept(gone)) \in Nat /\ Len(Kept(gone)) <= Len(maps)
      /\ ToSet(Kept(gone)) = Active \ gone
      /\ IsInjective(Kept(gone)) /\ IsInjective(free)
  BY <1>3, UnmappedLists
<1>5. /\ ToSet(Kept(gone)) \cap ToSet(free) = {}
      /\ allocated = ToSet(Kept(gone)) \cup ToSet(free)
  BY <1>3, KeptAndFree
<1> HIDE DEF free
<1>6. e \in 0 .. Len(free)
  BY <1>4, MapCacheAssumption DEF Excess, Larger
<1> HIDE DEF e
<1>7. freed \in Seq(Structs) /\ others \in Seq(Structs) /\ free = freed \o others
  BY <1>4, <1>6, CutInTwo
<1> HIDE DEF freed, others
<1>8. /\ IsInjective(others) /\ ToSet(freed) \cap ToSet(others) = {}
      /\ ToSet(free) = ToSet(freed) \cup ToSet(others)
  <2>1. /\ ToSet(freed \o others) = ToSet(freed) \cup ToSet(others)
        /\ IsInjective(freed \o others) <=> /\ IsInjective(freed) /\ IsInjective(others)
                                          /\ ToSet(freed) \cap ToSet(others) = {}
    BY <1>7, OnceInAll
  <2> QED BY <1>4, <1>7, <2>1
<1>9. /\ ToSet(Kept(gone)) \cap ToSet(others) = {}
      /\ allocated' = ToSet(Kept(gone)) \cup ToSet(others)
  BY <1>2, <1>5, <1>8
<1>10. expire_age' \in Ages
  BY <1>2, InvParts, AgesKept
<1>11. held' \in [Holders -> Holdings] /\ serving' = TRUE
  BY <1>2, InvParts
<1>12. Len(Kept(gone)) < n
  BY <1>1, <1>4, ActiveFacts
<1>13. Unmaps(n, h, gone)
  BY <1>1, <1>2, <1>3, <1>4, <1>7, <1>8, <1>9, <1>10, <1>11, <1>12 DEF Unmaps
<1> QED BY <1>13, UnmapsStep DEF gone

LEMMA MmcDestroyStep ==
  ASSUME MapInv, MmcDestroy
  PROVE  MapInv' /\ Active' = {}
<1> DEFINE h == [t |-> table, s |-> map]
           free == FreeMaps(Active, free_maps)
<1>1. PICK n \in Nat : /\ n > 1 /\ n > Len(maps) /\ h \in Tables(n) /\ InPlace(h, Active)
  BY TableRight
<1>2. /\ table' = ReallyUnmap(h, Active).t /\ map' = ReallyUnmap(h, Active).s
      /\ maps' = <<>> /\ free_maps' = <<>>
      /\ allocated' = allocated \ ToSet(free)
      /\ mapped_bytes' = mapped_bytes - Bytes(Active)
      /\ expire_age' = expire_age /\ held' = held /\ serving' = FALSE
  BY DEF MmcDestroy
<1>3. /\ SameMaps(h.s, map)
      /\ free_maps \in Seq(Structs) /\ IsInjective(maps \o free_maps)
      /\ allocated = Active \cup ToSet(free_maps)
  BY InvParts, ActiveFacts DEF SameMaps
<1>4. ToSet(free) = Active \cup ToSet(free_maps)
  BY <1>3, UnmappedLists
<1>5. /\ <<>> \in Seq(Structs) /\ IsInjective(<<>>) /\ ToSet(<<>>) = {} /\ Len(<<>>) = 0
  BY DEF IsInjective, ToSet
<1>6. allocated' = {}
  BY <1>2, <1>3, <1>4
<1>7. expire_age' \in Ages /\ held' \in [Holders -> Holdings] /\ serving' \in BOOLEAN
  BY <1>2, InvParts
<1> HIDE DEF h, free
<1>8. Unmaps(n, h, Active)
  BY <1>1, <1>2, <1>3, <1>5, <1>6, <1>7 DEF Unmaps
<1>9. MapInv' /\ Active' = Active \ Active
  BY <1>8, UnmapsStep
<1> QED BY <1>9

\* A file that was not mapped is, in a struct of its own and at an address where
\* nothing is mapped.
LEMMA MapNewStep ==
  ASSUME MapInv, serving, NEW c \in Holders, NEW f \in Files, NEW gone \in SUBSET Active,
         MapNew(c, f, gone)
  PROVE  /\ MapInv'
         /\ Struct \notin Active /\ Active' = (Active \ gone) \cup {Struct}
         /\ KeepsMaps(Active \ gone)
         /\ map'[Struct].file = f /\ map'[Struct].refcount = 1
         /\ map'[Struct].addr = IF Size[f] = 0 THEN EmptyFileAddr ELSE FreshAddr(Active \ gone)
         /\ held' = [held EXCEPT ![c] = [addr |-> map'[Struct].addr, file |-> f]]
<1> DEFINE addr == IF Size[f] = 0 THEN EmptyFileAddr ELSE FreshAddr(Active \ gone)
           new == [Blank EXCEPT !.file = f, !.refcount = 1, !.addr = addr]
           left == ReallyUnmap(Checked, gone)
           filled == [left EXCEPT !.s[Struct] = new]
           h == AddHash(filled, Struct)
           free == FreeMaps(gone, Untaken)
           A == Active \ gone
<1>1. PICK n \in Nat : /\ n >= Len(maps) + 2 /\ n > 1 /\ n > Len(maps)
                       /\ Checked \in Tables(n) /\ InPlace(Checked, Active)
                       /\ SameMaps(Checked.s, map)
  BY CheckedTable
<1>2. /\ HasStruct /\ table' = h.t /\ map' = h.s
      /\ maps' = <<Struct>> \o Kept(gone) /\ free_maps' = free
      /\ allocated' = allocated \cup {Struct}
      /\ mapped_bytes' = mapped_bytes - Bytes(gone) + Size[f]
      /\ held' = [held EXCEPT ![c] = [addr |-> new.addr, file |-> f]]
      /\ expire_age' = expire_age /\ serving' = serving
  BY DEF MapNew
<1>3. /\ Struct \in Structs /\ Struct \notin Active
      /\ Untaken \in Seq(Structs) /\ IsInjective(maps \o Untaken)
      /\ Struct \notin ToSet(Untaken)
      /\ allocated \cup {Struct} = Active \cup ToSet(Untaken) \cup {Struct}
  BY <1>2, StructFacts
<1>4. /\ Active \subseteq Structs /\ Len(maps) \in Nat /\ IsFiniteSet(Active)
      /\ Cardinality(Active) \in Nat /\ Cardinality(Active) <= Len(maps)
  <2>1. Len(maps) \in 0 .. Len(maps) /\ maps \in Seq(Structs)
    BY ActiveFacts, InvParts
  <2> QED BY <2>1, ActiveFacts, FirstMapsFinite
<1>5. /\ A \in SUBSET Active /\ IsFiniteSet(A)
      /\ Cardinality(A) \in Nat /\ Cardinality(A) < n
  BY <1>1, <1>4, FS_Subset, FS_CardinalityType
<1>6. addr \in Nat /\ new \in MapStruct
      /\ new.file = f /\ new.refcount = 1 /\ new.addr = addr /\ new.hash_idx = 0
  <2>1. addr \in Nat
    BY <1>5, FreshRight DEF EmptyFileAddr
  <2> HIDE DEF addr
  <2> QED BY <2>1 DEF Blank, MapStruct, Null
<1> HIDE DEF addr, new, A
<1>7. /\ left \in Tables(n) /\ InPlace(left, A)
      /\ \A m \in A : left.s[m] = Checked.s[m]
  <2>1. PICK old : old = Checked
    OBVIOUS
  <2>2. PICK B : B = Active
    OBVIOUS
  <2>3. /\ n > 0 /\ B \subseteq Structs /\ gone \in SUBSET B
        /\ old \in Tables(n) /\ InPlace(old, B)
    BY <1>1, <1>4, <2>1, <2>2
  <2>4. left = ReallyUnmap(old, gone) /\ A = B \ gone
    BY <2>1, <2>2 DEF A, left
  <2> HIDE DEF left
  <2>5. /\ ReallyUnmap(old, gone) \in Tables(n)
        /\ InPlace(ReallyUnmap(old, gone), B \ gone)
        /\ \A m \in B \ gone : ReallyUnmap(old, gone).s[m] = old.s[m]
    BY <2>3, ReallyUnmapRight
  <2> QED BY <2>1, <2>4, <2>5
<1> HIDE DEF left
<1>8. /\ filled \in Tables(n) /\ InPlace(filled, A)
      /\ filled.s[Struct] = new /\ \A m \in A : filled.s[m] = Checked.s[m]
      /\ filled.t = left.t
  <2> DEFINE s == [left.s EXCEPT ![Struct] = new]
  <2>1. /\ s \in [Structs -> MapStruct] /\ s[Struct] = new
        /\ \A m \in A : s[m] = left.s[m]
    BY <1>3, <1>5, <1>6, <1>7 DEF Tables
  <2>2. filled = [t |-> left.t, s |-> s]
    BY <1>7 DEF Tables
  <2> HIDE DEF s, filled
  <2>3. [t |-> left.t, s |-> s] \in Tables(n) /\ InPlace([t |-> left.t, s |-> s], A)
    BY <1>4, <1>5, <1>7, <2>1, SameSlots
  <2> QED BY <1>7, <2>1, <2>2, <2>3
<1> HIDE DEF filled
<1>9. /\ h \in Tables(n) /\ InPlace(h, A \cup {Struct}) /\ SameMaps(h.s, filled.s)
  <2>1. \E i \in 0 .. n - 1 : filled.t[i] = Null
    BY <1>5, <1>8, EmptySlot
  <2>2. A \subseteq Structs /\ Struct \notin A /\ filled.s[Struct].file \in Files /\ n > 0
    BY <1>1, <1>3, <1>4, <1>5, <1>6, <1>8
  <2> QED BY <1>3, <1>8, <2>1, <2>2, AddHashRight
<1> HIDE DEF h
<1>10. /\ Kept(gone) \in Seq(Structs) /\ free \in Seq(Structs)
       /\ Len(Kept(gone)) \in Nat /\ Len(Kept(gone)) <= Len(maps)
       /\ ToSet(Kept(gone)) = A /\ ToSet(free) = gone \cup ToSet(Untaken)
       /\ IsInjective(Kept(gone)) /\ IsInjective(free)
       /\ A \cap ToSet(free) = {} /\ A \cup ToSet(free) = Active \cup ToSet(Untaken)
  BY <1>3, UnmappedLists, KeptAndFree DEF A
<1> HIDE DEF free
<1>11. /\ maps' \in Seq(Structs) /\ IsInjective(maps')
       /\ ToSet(maps') = A \cup {Struct} /\ Len(maps') < n
  <2> DEFINE one == <<Struct>>
  <2>1. one \in Seq(Structs) /\ IsInjective(one) /\ ToSet(one) = {Struct} /\ Len(one) = 1
    BY <1>3 DEF IsInjective, ToSet
  <2>2. maps' = one \o Kept(gone)
    BY <1>2
  <2> HIDE DEF one
  <2>3. /\ ToSet(one \o Kept(gone)) = ToSet(one) \cup ToSet(Kept(gone))
        /\ IsInjective(one \o Kept(gone)) <=>
             /\ IsInjective(one) /\ IsInjective(Kept(gone))
             /\ ToSet(one) \cap ToSet(Kept(gone)) = {}
    BY <1>10, <2>1, OnceInAll
  <2>4. /\ one \o Kept(gone) \in Seq(Structs)
        /\ Len(one \o Kept(gone)) = Len(one) + Len(Kept(gone))
    <3>1. \A b \in Seq(Structs) : one \o b \in Seq(Structs)
                                /\ Len(one \o b) = Len(one) + Len(b)
      BY <2>1, Concatenated
    <3> QED BY <1>10, <3>1
  <2>5. Struct \notin A
    BY <1>3, <1>5
  <2>6. Len(maps') < n
    BY <1>1, <1>4, <1>10, <2>1, <2>2, <2>4
  <2> QED BY <1>10, <2>1, <2>2, <2>3, <2>4, <2>5, <2>6
<1>12. Active' = A \cup {Struct}
  BY <1>11 DEF Active
<1>13. /\ [t |-> table', s |-> map'] \in Tables(n)
       /\ InPlace([t |-> table', s |-> map'], Active')
  <2>1. [t |-> table', s |-> map'] = h
    BY <1>2, <1>9 DEF Tables
  <2> QED BY <1>9, <1>12, <2>1
<1>14. /\ KeepsMaps(A) /\ map'[Struct].file = f /\ map'[Struct].refcount = 1
       /\ map'[Struct].addr = addr
  <2>1. A \subseteq Structs /\ map' = h.s
    BY <1>2, <1>4, <1>5
  <2>2. KeepsMaps(A)
    BY <1>1, <1>8, <1>9, <2>1 DEF KeepsMaps, SameMaps
  <2>3. /\ map'[Struct].file = new.file /\ map'[Struct].refcount = new.refcount
        /\ map'[Struct].addr = new.addr
    BY <1>3, <1>8, <1>9, <2>1 DEF SameMaps
  <2> QED BY <1>6, <2>2, <2>3
<1>15. \A m \in Active' : map'[m].file \in Files
  BY <1>5, <1>12, <1>14, InvParts DEF KeepsMaps
<1>16. mapped_bytes' = Bytes(Active)' /\ mapped_bytes' \in Nat
  <2> DEFINE s == map'
             B == A \cup {Struct}
             all == [m \in B |-> Size[s[m].file]]
             kept == [m \in A |-> Size[s[m].file]]
             one == [m \in {Struct} |-> Size[f]]
  <2>1. /\ mapped_bytes - Bytes(gone) = Total(kept)
        /\ mapped_bytes - Bytes(gone) \in Nat
    <3>1. \A m \in Active \ gone : s[m].file = map[m].file
      BY <1>14 DEF KeepsMaps, A
    <3> HIDE DEF s
    <3> QED BY <3>1, UnmappedBytes DEF A
  <2>2. Size[f] \in Nat /\ Total(one) = Size[f]
    BY MapCacheAssumption, TotalOne
  <2>3. Splits(all, B, kept, A, one)
    <3>1. IsFiniteSet(B)
      BY <1>5, FS_AddElement
    <3>2. \A m \in B : s[m].file \in Files
      BY <1>12, <1>15
    <3>3. B \ A = {Struct} /\ s[Struct].file = f
      BY <1>3, <1>5, <1>14
    <3> HIDE DEF s
    <3> QED BY <2>2, <3>1, <3>2, <3>3, MapCacheAssumption DEF Splits
  <2>4. all = [m \in Active' |-> Size[map'[m].file]]
    BY <1>12
  <2> HIDE DEF all, kept, one, B
  <2>5. Total(all) = Total(kept) + Total(one)
    BY <2>3, TotalSplit
  <2>6. mapped_bytes' = Total(all) /\ mapped_bytes' \in Nat
    BY <1>2, <2>1, <2>2, <2>5
  <2> QED BY <2>4, <2>6 DEF Bytes
<1>17. IsInjective(maps' \o free_maps')
  <2>1. free_maps' \in Seq(Structs) /\ IsInjective(free_maps')
    BY <1>2, <1>10
  <2>2. ToSet(maps') \cap ToSet(free_maps') = {}
    BY <1>2, <1>3, <1>10, <1>11
  <2> QED BY <1>11, <2>1, <2>2, OnceInAll
<1>18. allocated' = Active' \cup ToSet(free_maps') /\ free_maps' \in Seq(Structs)
  BY <1>2, <1>3, <1>10, <1>12
<1>19. held' = [held EXCEPT ![c] = [addr |-> addr, file |-> f]] /\ held' \in [Holders -> Holdings]
  BY <1>2, <1>6, InvParts DEF Holdings
<1>20. expire_age' \in Ages /\ serving' = TRUE
  BY <1>2, InvParts
<1>21. SoundParts(n)'
  BY <1>1, <1>11, <1>13, <1>15, <1>16, <1>17, <1>18, <1>19, <1>20 DEF SoundParts
<1>22. MapInv'
  BY <1>21, InvReached
<1> QED BY <1>3, <1>12, <1>14, <1>19, <1>22 DEF A, addr

\* Every step keeps the invariant.
LEMMA MapInvKept == MapInv /\ [Next]_mvars => MapInv'
<1> SUFFICES ASSUME MapInv, [Next]_mvars PROVE MapInv'
  OBVIOUS
<1>1. ASSUME NEW c \in Holders, NEW f \in Files, MmcMap(c, f) PROVE MapInv'
  <2>1. serving
    BY <1>1 DEF MmcMap
  <2>2. CASE MapAgain(c, f)
    BY <2>2, MapAgainStep
  <2>3. CASE CannotOpen(f)
    BY <2>3, CannotOpenStep
  <2>4. CASE \E gone \in Panics(f) : MapNew(c, f, gone) \/ CannotMap(f, gone)
    <3>1. PICK gone \in Panics(f) : MapNew(c, f, gone) \/ CannotMap(f, gone)
      BY <2>4
    <3>2. gone \in SUBSET Active
      BY DEF Panics, Unreferenced
    <3> QED BY <2>1, <3>1, <3>2, MapNewStep, CannotMapStep
  <2> QED BY <1>1, <2>2, <2>3, <2>4 DEF MmcMap
<1>2. ASSUME NEW c \in Holders, MmcUnmap(c) PROVE MapInv'
  BY <1>2, MmcUnmapStep
<1>3. CASE MmcCleanup
  BY <1>3, MmcCleanupStep
<1>4. CASE MmcDestroy
  BY <1>4, MmcDestroyStep
<1>5. CASE TimePasses
  BY <1>5, TimePassesStep
<1>6. CASE UNCHANGED mvars
  BY <1>6
  DEF mvars, MapInv, TableMatchesMaps, TypeOK, TableInOrder, BookkeepingExact, InPlace,
      Active, Bytes, Total
<1> QED BY <1>1, <1>2, <1>3, <1>4, <1>5, <1>6 DEF Next

\* The hash table, the two lists and the bytes agree through growth, panics,
\* failures in the middle of mmc_map and clean-ups, for any files, structs and
\* limits (mmc.c).
THEOREM TableAlwaysMatches == Spec => []TableMatchesMaps
<1>1. MapInv => TableMatchesMaps
  BY DEF MapInv
<1> QED BY <1>1, InitMapInv, MapInvKept, PTL DEF Spec

(***************************************************************************)
(* The files connections hold.  When no file is empty, an address is that  *)
(* of one active map, and its references are the connections there.        *)
(***************************************************************************)
NoFileIsEmpty == \A f \in Files : Size[f] # 0

HoldersAt(addr) == {c \in Holders : held[c].addr = addr}

Counted ==
  /\ \A m \in Active : map[m].addr >= 2
  /\ \A m, k \in Active : map[m].addr = map[k].addr => m = k
  /\ \A m \in Active : map[m].refcount = Cardinality(HoldersAt(map[m].addr))
  /\ HeldFilesMapped

\* It says what the property does.
LEMMA CountedRight ==
  ASSUME MapInv, Counted
  PROVE  HeldFilesStayMapped
<1>1. ASSUME NEW m \in Active
      PROVE  Total([k \in {k \in Active : map[k].addr = map[m].addr} |-> map[k].refcount])
               = Cardinality({c \in Holders : held[c].addr = map[m].addr})
  <2>1. {k \in Active : map[k].addr = map[m].addr} = {m}
    BY DEF Counted
  <2>2. [k \in {m} |-> map[k].refcount] = [k \in {m} |-> map[m].refcount]
    OBVIOUS
  <2>3. map[m].refcount \in Nat
    BY InvParts, ActiveFacts DEF MapStruct
  <2>4. Total([k \in {m} |-> map[m].refcount]) = map[m].refcount
    BY <2>3, TotalOne
  <2> QED BY <2>1, <2>2, <2>4 DEF Counted, HoldersAt
<1> QED BY <1>1 DEF HeldFilesStayMapped, ReferencesCounted, Counted

\* Holders of an address make it referenced.
LEMMA HoldersFinite ==
  \A addr : /\ IsFiniteSet(HoldersAt(addr)) /\ Cardinality(HoldersAt(addr)) \in Nat
            /\ Cardinality(HoldersAt(addr)) = 0 <=> HoldersAt(addr) = {}
<1> SUFFICES ASSUME NEW addr
             PROVE  /\ IsFiniteSet(HoldersAt(addr)) /\ Cardinality(HoldersAt(addr)) \in Nat
                    /\ Cardinality(HoldersAt(addr)) = 0 <=> HoldersAt(addr) = {}
  OBVIOUS
<1>1. HoldersAt(addr) \in SUBSET Holders /\ IsFiniteSet(Holders)
  BY MapCacheAssumption DEF HoldersAt
<1>2. IsFiniteSet(HoldersAt(addr))
  BY <1>1, FS_Subset
<1> QED BY <1>2, FS_EmptySet, FS_CardinalityType

\* A map whose address is held is referenced.
LEMMA HeldIsReferenced ==
  ASSUME MapInv, Counted, NEW c \in Holders, held[c] # Nothing
  PROVE  \E m \in Active \ Unreferenced :
           map[m].addr = held[c].addr /\ map[m].file = held[c].file
<1>1. PICK m \in Active : map[m].addr = held[c].addr /\ map[m].file = held[c].file
  BY DEF Counted, HeldFilesMapped
<1>2. c \in HoldersAt(map[m].addr)
  BY <1>1 DEF HoldersAt
<1>3. map[m].refcount # 0
  BY <1>2, HoldersFinite DEF Counted
<1> QED BY <1>1, <1>3 DEF Unreferenced

\* Steps that unmap unreferenced maps and keep the others as they are.
LEMMA CountedKept ==
  ASSUME MapInv, Counted, NEW gone \in SUBSET Unreferenced,
         Active' = Active \ gone, KeepsMaps(Active \ gone), held' = held
  PROVE  Counted'
<1>1. \A m \in Active' : /\ m \in Active /\ map'[m].addr = map[m].addr
                         /\ map'[m].refcount = map[m].refcount
                         /\ map'[m].file = map[m].file
  BY DEF KeepsMaps
<1>2. ASSUME NEW c \in Holders, held'[c] # Nothing
      PROVE  \E m \in Active' : map'[m].addr = held'[c].addr /\ map'[m].file = held'[c].file
  <2>1. PICK m \in Active \ Unreferenced :
               map[m].addr = held[c].addr /\ map[m].file = held[c].file
    BY <1>2, HeldIsReferenced
  <2>2. m \in Active'
    BY <2>1
  <2> QED BY <1>1, <2>1, <2>2
<1>3. \A addr : HoldersAt(addr)' = HoldersAt(addr)
  BY DEF HoldersAt
<1>4. \A m \in Active' : map'[m].refcount = Cardinality(HoldersAt(map[m].addr)')
  BY <1>1, <1>3 DEF Counted
<1> QED BY <1>1, <1>2, <1>3 DEF Counted, HeldFilesMapped

LEMMA CountedMapAgain ==
  ASSUME MapInv, Counted, NEW c \in Holders, NEW f \in Files, held[c] = Nothing,
         MapAgain(c, f)
  PROVE  Counted'
<1>1. Active' = Active
  BY MapAgainStep
<1>2. PICK m \in Active :
        /\ map[m].file = f
        /\ held' = [held EXCEPT ![c] = [addr |-> map[m].addr, file |-> f]]
        /\ KeepsMaps(Active \ {m})
        /\ map'[m].file = f /\ map'[m].addr = map[m].addr
        /\ map'[m].refcount = map[m].refcount + 1
  BY MapAgainStep
<1>3. held \in [Holders -> Holdings] /\ map[m].addr >= 2 /\ held[c].addr = 0
  BY InvParts DEF Counted, Nothing, Null
<1>4. /\ held'[c] = [addr |-> map[m].addr, file |-> f]
      /\ \A d \in Holders \ {c} : held'[d] = held[d]
  BY <1>2, <1>3
<1>5. \A k \in Active : map'[k].addr = map[k].addr /\ map'[k].file = map[k].file
  BY <1>2 DEF KeepsMaps
<1>6. /\ c \notin HoldersAt(map[m].addr)
      /\ HoldersAt(map[m].addr)' = HoldersAt(map[m].addr) \cup {c}
  BY <1>2, <1>3, <1>4 DEF HoldersAt
<1>7. \A k \in Active \ {m} : {d \in Holders : held'[d].addr = map[k].addr}
                                = {d \in Holders : held[d].addr = map[k].addr}
  <2> SUFFICES ASSUME NEW k \in Active \ {m}, NEW d \in Holders
               PROVE  held'[d].addr = map[k].addr <=> held[d].addr = map[k].addr
    OBVIOUS
  <2>1. map[k].addr # map[m].addr /\ map[k].addr # 0
    BY DEF Counted
  <2> QED BY <1>3, <1>4, <2>1
<1>8. \A k \in Active : map'[k].refcount = Cardinality(HoldersAt(map[k].addr)')
  <2>1. map'[m].refcount = Cardinality(HoldersAt(map[m].addr)')
    <3>1. Cardinality(HoldersAt(map[m].addr) \cup {c}) = Cardinality(HoldersAt(map[m].addr)) + 1
      BY <1>6, HoldersFinite, FS_AddElement
    <3> QED BY <1>2, <1>6, <3>1 DEF Counted
  <2>2. ASSUME NEW k \in Active \ {m}
        PROVE  map'[k].refcount = Cardinality(HoldersAt(map[k].addr)')
    <3>1. map'[k].refcount = Cardinality({d \in Holders : held[d].addr = map[k].addr})
      BY <1>2 DEF Counted, KeepsMaps, HoldersAt
    <3>2. map'[k].addr = map[k].addr
      BY <1>5
    <3> QED BY <1>7, <3>1, <3>2 DEF HoldersAt
  <2> QED BY <2>1, <2>2
<1>9. ASSUME NEW d \in Holders, held'[d] # Nothing
      PROVE  \E k \in Active' : map'[k].addr = held'[d].addr /\ map'[k].file = held'[d].file
  <2>1. CASE d = c
    BY <1>1, <1>2, <1>4, <2>1
  <2>2. CASE d # c
    <3>1. PICK k \in Active : map[k].addr = held[d].addr /\ map[k].file = held[d].file
      BY <1>4, <1>9, <2>2 DEF Counted, HeldFilesMapped
    <3> QED BY <1>1, <1>4, <1>5, <2>2, <3>1
  <2> QED BY <2>1, <2>2
<1> QED BY <1>1, <1>5, <1>8, <1>9 DEF Counted, HeldFilesMapped, HoldersAt

LEMMA CountedMapNew ==
  ASSUME NoFileIsEmpty, MapInv, Counted, serving, NEW c \in Holders, NEW f \in Files,
         held[c] = Nothing, NEW gone \in SUBSET Unreferenced, MapNew(c, f, gone)
  PROVE  Counted'
<1> DEFINE A == Active \ gone
           new == Struct
           addr == FreshAddr(A)
<1>1. gone \in SUBSET Active /\ A \in SUBSET Active
  BY DEF Unreferenced
<1>2. /\ new \notin Active /\ Active' = A \cup {new}
      /\ KeepsMaps(A)
      /\ map'[new].file = f /\ map'[new].refcount = 1
      /\ map'[new].addr = IF Size[f] = 0 THEN EmptyFileAddr ELSE addr
      /\ held' = [held EXCEPT ![c] = [addr |-> map'[new].addr, file |-> f]]
  BY <1>1, MapNewStep
<1>3. map'[new].addr = addr
  BY <1>2 DEF NoFileIsEmpty
<1>4. addr \in Nat /\ addr >= 2 /\ \A m \in A : map[m].addr # addr
  BY <1>1, FreshRight
<1>5. held \in [Holders -> Holdings] /\ held[c].addr = 0
  BY InvParts DEF Nothing, Null
<1> HIDE DEF A, new, addr
<1>6. /\ held'[c] = [addr |-> addr, file |-> f]
      /\ \A d \in Holders \ {c} : held'[d] = held[d]
  BY <1>2, <1>3, <1>5
<1>7. ASSUME NEW d \in Holders, held[d] # Nothing
      PROVE  \E m \in A : map[m].addr = held[d].addr /\ map[m].file = held[d].file
  BY <1>7, HeldIsReferenced DEF A
<1>8. \A d \in Holders : held[d].addr # addr
  BY <1>4, <1>7 DEF Nothing, Null
<1>9. \A m \in A : /\ m # new /\ m \in Active
                   /\ map'[m].addr = map[m].addr /\ map'[m].file = map[m].file
                   /\ map'[m].refcount = map[m].refcount
                   /\ map[m].addr >= 2 /\ map[m].addr # addr
  BY <1>1, <1>2, <1>4 DEF KeepsMaps, Counted
<1>10. \A m, k \in Active' : map'[m].addr = map'[k].addr => m = k
  BY <1>2, <1>3, <1>9 DEF Counted
<1>11. ASSUME NEW m \in A
       PROVE  map'[m].refcount = Cardinality({d \in Holders : held'[d].addr = map'[m].addr})
  <2>1. {d \in Holders : held'[d].addr = map'[m].addr}
          = {d \in Holders : held[d].addr = map[m].addr}
    <3> SUFFICES ASSUME NEW d \in Holders
                 PROVE  held'[d].addr = map'[m].addr <=> held[d].addr = map[m].addr
      OBVIOUS
    <3>1. map'[m].addr = map[m].addr /\ map[m].addr # addr /\ map[m].addr # 0
      BY <1>9
    <3> QED BY <1>5, <1>6, <3>1
  <2>2. map[m].refcount = Cardinality({d \in Holders : held[d].addr = map[m].addr})
    BY <1>9 DEF Counted, HoldersAt
  <2> QED BY <1>9, <2>1, <2>2
<1>12. map'[new].refcount = Cardinality({d \in Holders : held'[d].addr = map'[new].addr})
  <2>1. {d \in Holders : held'[d].addr = map'[new].addr} = {c}
    BY <1>3, <1>6, <1>8
  <2>2. Cardinality({c}) = 1
    BY FS_Singleton
  <2> QED BY <1>2, <2>1, <2>2
<1>13. ASSUME NEW d \in Holders, held'[d] # Nothing
       PROVE  \E k \in Active' : map'[k].addr = held'[d].addr /\ map'[k].file = held'[d].file
  <2>1. CASE d = c
    BY <1>2, <1>3, <1>6, <2>1
  <2>2. CASE d # c
    <3>1. PICK m \in A : map[m].addr = held[d].addr /\ map[m].file = held[d].file
      BY <1>6, <1>7, <1>13, <2>2
    <3> QED BY <1>2, <1>6, <1>9, <2>2, <3>1
  <2> QED BY <2>1, <2>2
<1>14. \A m \in Active' : map'[m].addr >= 2
  BY <1>2, <1>3, <1>4, <1>9
<1>15. \A m \in Active' :
         map'[m].refcount = Cardinality({d \in Holders : held'[d].addr = map'[m].addr})
  BY <1>2, <1>11, <1>12
<1> QED BY <1>10, <1>13, <1>14, <1>15 DEF Counted, HeldFilesMapped, HoldersAt

LEMMA CountedMmcUnmap ==
  ASSUME MapInv, Counted, NEW c \in Holders, MmcUnmap(c)
  PROVE  Counted'
<1>1. held[c] # Nothing
  BY DEF MmcUnmap
<1>2. PICK k \in Active \ Unreferenced : map[k].addr = held[c].addr
  BY <1>1, HeldIsReferenced
<1>3. /\ Active' = Active /\ held' = [held EXCEPT ![c] = Nothing]
      /\ \E m \in Active :
           /\ KeepsMaps(Active \ {m})
           /\ map[m].addr = held[c].addr
           /\ map'[m].file = map[m].file /\ map'[m].addr = map[m].addr
           /\ map'[m].refcount = IF map[m].refcount > 0 THEN map[m].refcount - 1
                                 ELSE map[m].refcount
  BY <1>2, MmcUnmapStep
<1>4. PICK m \in Active :
        /\ KeepsMaps(Active \ {m})
        /\ map[m].addr = held[c].addr
        /\ map'[m].file = map[m].file /\ map'[m].addr = map[m].addr
        /\ map'[m].refcount = IF map[m].refcount > 0 THEN map[m].refcount - 1
                              ELSE map[m].refcount
  BY <1>3
<1>5. m = k /\ map[m].addr >= 2 /\ map[m].refcount \in Nat /\ map[m].refcount > 0
  <2>1. m = k /\ map[m].addr >= 2
    BY <1>2, <1>4 DEF Counted
  <2>2. map[m].refcount \in Nat
    BY InvParts, ActiveFacts DEF MapStruct
  <2>3. map[m].refcount # 0
    BY <1>2, <2>1 DEF Unreferenced
  <2> QED BY <2>1, <2>2, <2>3
<1>6. /\ held \in [Holders -> Holdings] /\ held'[c].addr = 0 /\ held'[c] = Nothing
      /\ \A d \in Holders \ {c} : held'[d] = held[d]
  BY <1>3, InvParts DEF Nothing, Null
<1>7. \A x \in Active : map'[x].addr = map[x].addr /\ map'[x].file = map[x].file
  BY <1>4 DEF KeepsMaps
<1>8. ASSUME NEW x \in Active
      PROVE  map'[x].refcount = Cardinality({d \in Holders : held'[d].addr = map'[x].addr})
  <2> DEFINE before == {d \in Holders : held[d].addr = map[x].addr}
             after == {d \in Holders : held'[d].addr = map'[x].addr}
  <2>1. map[x].refcount = Cardinality(before) /\ IsFiniteSet(before)
    BY HoldersFinite DEF Counted, HoldersAt
  <2>2. map'[x].addr = map[x].addr /\ map[x].addr # 0
    BY <1>7 DEF Counted
  <2>3. CASE x = m
    <3>1. after = before \ {c} /\ c \in before
      BY <1>4, <1>6, <2>2, <2>3
    <3> HIDE DEF before, after
    <3>2. Cardinality(before \ {c}) = Cardinality(before) - 1
      BY <2>1, <3>1, FS_RemoveElement
    <3> QED BY <1>4, <1>5, <2>1, <2>3, <3>1, <3>2 DEF after
  <2>4. CASE x # m
    <3>1. map[x].addr # held[c].addr
      BY <1>4, <2>4 DEF Counted
    <3>2. \A d \in Holders : held'[d].addr = map'[x].addr <=> held[d].addr = map[x].addr
      BY <1>6, <2>2, <3>1
    <3>3. after = before
      BY <3>2
    <3>4. map'[x].refcount = map[x].refcount
      BY <1>4, <2>4 DEF KeepsMaps
    <3> QED BY <2>1, <3>3, <3>4
  <2> QED BY <2>3, <2>4
<1>9. ASSUME NEW d \in Holders, held'[d] # Nothing
      PROVE  \E x \in Active' : map'[x].addr = held'[d].addr /\ map'[x].file = held'[d].file
  <2>1. d # c /\ held'[d] = held[d]
    BY <1>6, <1>9
  <2>2. PICK x \in Active : map[x].addr = held[d].addr /\ map[x].file = held[d].file
    BY <1>9, <2>1 DEF Counted, HeldFilesMapped
  <2> QED BY <1>3, <1>7, <2>1, <2>2
<1>10. /\ \A x \in Active' : map'[x].addr >= 2
       /\ \A x, y \in Active' : map'[x].addr = map'[y].addr => x = y
  BY <1>3, <1>7 DEF Counted
<1>11. \A x \in Active' :
         map'[x].refcount = Cardinality({d \in Holders : held'[d].addr = map'[x].addr})
  BY <1>3, <1>8
<1> QED BY <1>9, <1>10, <1>11 DEF Counted, HeldFilesMapped, HoldersAt

LEMMA CountedMmcDestroy ==
  ASSUME MapInv, MmcDestroy
  PROVE  Counted'
<1>1. Active' = {}
  BY MmcDestroyStep
<1>2. \A c \in Holders : held'[c] = Nothing
  BY DEF MmcDestroy
<1> QED BY <1>1, <1>2 DEF Counted, HeldFilesMapped

LEMMA CountedNext ==
  ASSUME NoFileIsEmpty, MapInv, Counted, [Next]_mvars
  PROVE  Counted'
<1>1. ASSUME NEW c \in Holders, NEW f \in Files, MmcMap(c, f) PROVE Counted'
  <2>1. serving /\ held[c] = Nothing
    BY <1>1 DEF MmcMap
  <2>2. CASE MapAgain(c, f)
    BY <2>1, <2>2, CountedMapAgain
  <2>3. CASE CannotOpen(f)
    <3>1. Active' = Active \ {} /\ KeepsMaps(Active \ {}) /\ held' = held
      BY <2>3, CannotOpenStep DEF CannotOpen
    <3>2. {} \in SUBSET Unreferenced
      OBVIOUS
    <3> QED BY <3>1, <3>2, CountedKept
  <2>4. CASE \E gone \in Panics(f) : MapNew(c, f, gone) \/ CannotMap(f, gone)
    <3>1. PICK gone \in Panics(f) : MapNew(c, f, gone) \/ CannotMap(f, gone)
      BY <2>4
    <3>2. gone \in SUBSET Unreferenced /\ gone \in SUBSET Active
      BY DEF Panics, Unreferenced
    <3>3. CASE MapNew(c, f, gone)
      BY <2>1, <3>2, <3>3, CountedMapNew
    <3>4. CASE CannotMap(f, gone)
      <4>1. Active' = Active \ gone /\ KeepsMaps(Active \ gone)
        BY <2>1, <3>2, <3>4, CannotMapStep
      <4>2. held' = held
        BY <3>4 DEF CannotMap
      <4> QED BY <3>2, <4>1, <4>2, CountedKept
    <3> QED BY <3>1, <3>3, <3>4
  <2> QED BY <1>1, <2>2, <2>3, <2>4 DEF MmcMap
<1>2. ASSUME NEW c \in Holders, MmcUnmap(c) PROVE Counted'
  BY <1>2, CountedMmcUnmap
<1>3. CASE MmcCleanup
  <2>1. TooOld \in SUBSET Unreferenced
    BY DEF TooOld
  <2>2. Active' = Active \ TooOld /\ KeepsMaps(Active \ TooOld)
    BY <1>3, MmcCleanupStep
  <2>3. held' = held
    BY <1>3 DEF MmcCleanup
  <2> QED BY <2>1, <2>2, <2>3, CountedKept
<1>4. CASE MmcDestroy
  BY <1>4, CountedMmcDestroy
<1>5. CASE TimePasses
  <2>1. Active' = Active \ {} /\ KeepsMaps(Active \ {}) /\ held' = held
    BY <1>5, TimePassesStep DEF TimePasses
  <2>2. {} \in SUBSET Unreferenced
    OBVIOUS
  <2> QED BY <2>1, <2>2, CountedKept
<1>6. CASE UNCHANGED mvars
  BY <1>6 DEF mvars, Counted, HeldFilesMapped, HoldersAt, Active
<1> QED BY <1>1, <1>2, <1>3, <1>4, <1>5, <1>6 DEF Next

\* No file is unmapped while a connection sends from it, and each such connection
\* is one of its references, when no file is empty: the empty files all have the
\* address 1, by which mmc_unmap may take one for another (mmc.c).
THEOREM FilesStayMapped ==
  ASSUME \A f \in Files : Size[f] # 0
  PROVE  Spec => []HeldFilesStayMapped
<1> DEFINE Inv == MapInv /\ Counted
<1>1. Init => Inv
  <2>1. Init => Counted
    BY DEF Init, Counted, Active, ToSet, HeldFilesMapped
  <2> QED BY <2>1, InitMapInv
<1>2. Inv /\ [Next]_mvars => Inv'
  BY MapInvKept, CountedNext DEF NoFileIsEmpty
<1>3. Inv => HeldFilesStayMapped
  BY CountedRight
<1> HIDE DEF Inv
<1> QED BY <1>1, <1>2, <1>3, PTL DEF Spec

(***************************************************************************)
(* Paths: numbers, sequences and recursive functions.                      *)
(***************************************************************************)
\* A beginning, and one more.
LEMMA SubSeqMore ==
  ASSUME NEW T, NEW q \in Seq(T), NEW m \in 0 .. Len(q) - 1
  PROVE  Append(SubSeq(q, 1, m), q[m + 1]) = SubSeq(q, 1, m + 1)
<1> DEFINE x == Append(SubSeq(q, 1, m), q[m + 1])
           y == SubSeq(q, 1, m + 1)
<1>1. Len(q) \in Nat /\ q[m + 1] \in T /\ m \in Nat
  OBVIOUS
<1>2. SubSeq(q, 1, m) \in Seq(T) /\ Len(SubSeq(q, 1, m)) = m
      /\ \A i \in 1 .. m : SubSeq(q, 1, m)[i] = q[i]
  BY <1>1
<1>3. y \in Seq(T) /\ Len(y) = m + 1 /\ \A i \in 1 .. m + 1 : y[i] = q[i]
  BY <1>1
<1>4. x \in Seq(T) /\ Len(x) = m + 1 /\ \A i \in 1 .. m + 1 : x[i] = q[i]
  BY <1>1, <1>2
<1> HIDE DEF x, y
<1>5. x = y
  BY <1>3, <1>4, SeqEqual
<1> QED BY <1>5 DEF x, y

\* The first in the order of two ranks, the second deciding where the first
\* is the same.
Ranked(S, T, a, b) ==
  T \in SUBSET S /\ T # {} /\ a \in [S -> Nat] /\ b \in [S -> Nat]

LEMMA LexLeast ==
  ASSUME NEW S, NEW T, NEW a, NEW b, Ranked(S, T, a, b)
  PROVE  \E s \in T : \A t1 \in T :
           ~ (a[t1] < a[s] \/ (a[t1] = a[s] /\ b[t1] < b[s]))
<1> T \in SUBSET S /\ T # {} /\ a \in [S -> Nat] /\ b \in [S -> Nat]
  BY DEF Ranked
<1>1. PICK x \in {a[s] : s \in T} : \A y \in {a[s] : s \in T} : x <= y
  <2>1. {a[s] : s \in T} \in SUBSET Nat /\ {a[s] : s \in T} # {}
    OBVIOUS
  <2> QED BY <2>1, LeastExists
<1> DEFINE L == {s \in T : a[s] = x}
<1>2. PICK z \in {b[s] : s \in L} : \A y \in {b[s] : s \in L} : z <= y
  <2>1. L # {} /\ \A r \in L : b[r] \in Nat
    BY <1>1
  <2>2. {b[s] : s \in L} \in SUBSET Nat /\ {b[s] : s \in L} # {}
    <3> HIDE DEF L
    <3> QED BY <2>1
  <2> HIDE DEF L
  <2> QED BY <2>2, LeastExists
<1>3. PICK s \in T : a[s] = x /\ b[s] = z
  BY <1>2
<1>4. ASSUME NEW t1 \in T
      PROVE  ~ (a[t1] < a[s] \/ (a[t1] = a[s] /\ b[t1] < b[s]))
  <2>1. a[t1] \in Nat /\ x \in Nat /\ b[t1] \in Nat /\ z \in Nat
    BY <1>3
  <2>2. x <= a[t1]
    BY <1>1
  <2>3. a[t1] = x => z <= b[t1]
    BY <1>2
  <2> QED BY <1>3, <2>1, <2>2, <2>3
<1> QED BY <1>4

\* A function that at the end of a run gives a value, and before it what it
\* gives one step on, exists when every run comes to its end.
TailRecursive(S, V, E, val, nxt, a, b) ==
  /\ E \in SUBSET S /\ val \in [S -> V] /\ nxt \in [S -> S]
  /\ a \in [S -> Nat] /\ b \in [S -> Nat]
  /\ \A s \in S \ E : a[nxt[s]] < a[s] \/ (a[nxt[s]] = a[s] /\ b[nxt[s]] < b[s])

LEMMA TailRecursion ==
  ASSUME NEW S, NEW V, NEW E, NEW val, NEW nxt, NEW a, NEW b,
         TailRecursive(S, V, E, val, nxt, a, b)
  PROVE  \E f \in [S -> V] : \A s \in S : f[s] = IF s \in E THEN val[s] ELSE f[nxt[s]]
<1> DEFINE Closed(C) == /\ \A e \in E : <<e, val[e]>> \in C
                        /\ \A s \in S \ E, v \in V : <<nxt[s], v>> \in C => <<s, v>> \in C
           R == {x \in S \X V : \A C \in SUBSET (S \X V) : Closed(C) => x \in C}
<1>1. /\ E \in SUBSET S /\ val \in [S -> V] /\ nxt \in [S -> S]
      /\ a \in [S -> Nat] /\ b \in [S -> Nat]
      /\ \A s \in S \ E : a[nxt[s]] < a[s] \/ (a[nxt[s]] = a[s] /\ b[nxt[s]] < b[s])
  BY DEF TailRecursive
<1>2. Closed(R)
  <2>1. ASSUME NEW e \in E PROVE <<e, val[e]>> \in R
    <3>1. <<e, val[e]>> \in S \X V
      BY <1>1
    <3> QED BY <3>1
  <2>2. ASSUME NEW s \in S \ E, NEW v \in V, <<nxt[s], v>> \in R PROVE <<s, v>> \in R
    <3>1. <<s, v>> \in S \X V
      OBVIOUS
    <3> QED BY <2>2, <3>1
  <2> QED BY <2>1, <2>2
<1>3. ASSUME NEW s \in S, NEW v \in V, <<s, v>> \in R
      PROVE  IF s \in E THEN v = val[s] ELSE <<nxt[s], v>> \in R
  <2> SUFFICES ASSUME ~ (IF s \in E THEN v = val[s] ELSE <<nxt[s], v>> \in R)
               PROVE  FALSE
    OBVIOUS
  <2> DEFINE C == R \ {<<s, v>>}
  <2>1. C \in SUBSET (S \X V)
    OBVIOUS
  <2>2. ASSUME NEW e \in E PROVE <<e, val[e]>> \in C
    <3>1. <<e, val[e]>> \in R
      BY <1>2
    <3>2. <<e, val[e]>> # <<s, v>>
      OBVIOUS
    <3> QED BY <3>1, <3>2
  <2>3. ASSUME NEW r \in S \ E, NEW u \in V, <<nxt[r], u>> \in C PROVE <<r, u>> \in C
    <3>1. <<nxt[r], u>> \in R
      BY <2>3
    <3>2. <<r, u>> \in R
      <4> HIDE DEF R
      <4> QED BY <1>2, <3>1
    <3>3. <<r, u>> # <<s, v>>
      <4> HIDE DEF R, C
      <4> QED BY <3>1
    <3> QED BY <3>2, <3>3
  <2>4. Closed(C)
    BY <2>2, <2>3
  <2>5. <<s, v>> \in C
    BY <1>3, <2>1, <2>4
  <2> QED BY <2>5
<1> DEFINE T == {s \in S : ~ \E v \in V : <<s, v>> \in R /\ \A u \in V : <<s, u>> \in R => u = v}
<1> HIDE DEF R
<1>4. T = {}
  <2> SUFFICES ASSUME T # {} PROVE FALSE
    OBVIOUS
  <2>1. T \in SUBSET S
    OBVIOUS
  <2>2. PICK s \in T : \A t1 \in T : ~ (a[t1] < a[s] \/ (a[t1] = a[s] /\ b[t1] < b[s]))
    <3> HIDE DEF T
    <3>1. Ranked(S, T, a, b)
      BY <1>1, <2>1 DEF Ranked
    <3> QED BY <3>1, LexLeast
  <2>3. s \in S
    BY <2>1
  <2>4. CASE s \in E
    <3>1. <<s, val[s]>> \in R /\ val[s] \in V
      BY <1>1, <1>2, <2>4
    <3>2. \A u \in V : <<s, u>> \in R => u = val[s]
      BY <1>3, <2>4
    <3> QED BY <3>1, <3>2, <2>3
  <2>5. CASE s \notin E
    <3>1. nxt[s] \in S /\ nxt[s] \notin T
      <4>1. nxt[s] \in S /\ (a[nxt[s]] < a[s] \/ (a[nxt[s]] = a[s] /\ b[nxt[s]] < b[s]))
        BY <1>1, <2>3, <2>5
      <4> HIDE DEF T
      <4> QED BY <2>2, <4>1
    <3>2. PICK v \in V : <<nxt[s], v>> \in R /\ \A u \in V : <<nxt[s], u>> \in R => u = v
      BY <3>1
    <3>3. <<s, v>> \in R
      BY <1>2, <2>5, <3>2
    <3>4. \A u \in V : <<s, u>> \in R => u = v
      BY <1>3, <2>5, <3>2
    <3> QED BY <3>3, <3>4, <2>3
  <2> QED BY <2>4, <2>5
<1> DEFINE f == [s \in S |-> CHOOSE v \in V : <<s, v>> \in R]
<1>5. ASSUME NEW s \in S PROVE f[s] \in V /\ <<s, f[s]>> \in R
  BY <1>4
<1>6. ASSUME NEW s \in S PROVE f[s] = IF s \in E THEN val[s] ELSE f[nxt[s]]
  <2>1. CASE s \in E
    BY <1>3, <1>5, <2>1
  <2>2. CASE s \notin E
    <3>1. nxt[s] \in S /\ <<nxt[s], f[s]>> \in R /\ <<nxt[s], f[nxt[s]]>> \in R
      BY <1>1, <1>3, <1>5, <2>2
    <3>2. f[s] \in V /\ f[nxt[s]] \in V
      BY <1>5, <3>1
    <3>3. PICK v \in V : \A u \in V : <<nxt[s], u>> \in R => u = v
      BY <1>4, <3>1
    <3> HIDE DEF f
    <3> QED BY <2>2, <3>1, <3>2, <3>3
  <2> QED BY <2>1, <2>2
<1>7. f \in [S -> V]
  BY <1>5
<1> HIDE DEF f
<1> QED BY <1>6, <1>7

(***************************************************************************)
(* de_dotdot.                                                              *)
(***************************************************************************)
Parts == Names \cup {Empty, Dot, Up}

LEMMA PathOfParts == Path = Seq(Parts)
BY DEF Path, Parts

LEMMA Specials == Empty # Dot /\ Dot # Up /\ Empty # Up
BY DEF Empty, Dot, Up

\* A path worked out on a stack that other components have left.
PlainFrom(st, path) ==
  LET Stack[i \in 0 .. Len(path)] ==
        IF i = 0 THEN st ELSE Worked(Stack[i - 1], path[i])
  IN  Stack[Len(path)]

StackFrom(g, st, path) ==
  /\ g \in [0 .. Len(path) -> Places] /\ g[0] = st
  /\ \A i \in 1 .. Len(path) : g[i] = Worked(g[i - 1], path[i])

LEMMA WorkedPlace ==
  ASSUME NEW st \in Places, NEW c \in Parts
  PROVE  Worked(st, c) \in Places
BY DEF Worked, Parts, Places, Front

LEMMA StackExists ==
  ASSUME NEW st \in Places, NEW path \in Path
  PROVE  \E g : StackFrom(g, st, path)
<1> DEFINE n == Len(path)
           step == [i \in Nat |-> [s \in Places |->
                      IF i \in 1 .. n THEN Worked(s, path[i]) ELSE s]]
<1>1. path \in Seq(Parts) /\ n \in Nat /\ \A i \in 1 .. n : path[i] \in Parts
  BY PathOfParts
<1>2. step \in [Nat -> [Places -> Places]]
  <2> SUFFICES ASSUME NEW i \in Nat, NEW s \in Places, i \in 1 .. n
               PROVE  Worked(s, path[i]) \in Places
    OBVIOUS
  <2> HIDE DEF n
  <2> QED BY <1>1, WorkedPlace
<1>3. Stepping(Places, st, step, n)
  BY <1>1, <1>2 DEF Stepping
<1>4. PICK g : Computes(g, Places, st, step, n)
  <2> HIDE DEF step, n
  <2> QED BY <1>3, Recursion
<1>5. g \in [0 .. n -> Places] /\ g[0] = st /\ \A i \in 1 .. n : g[i] = step[i][g[i - 1]]
  BY <1>4 DEF Computes
<1>6. ASSUME NEW i \in 1 .. n PROVE g[i] = Worked(g[i - 1], path[i])
  <2>1. i \in Nat /\ i - 1 \in 0 .. n
    BY <1>1
  <2>2. g[i - 1] \in Places
    BY <1>5, <2>1
  <2> QED BY <1>5, <2>1, <2>2
<1> QED BY <1>5, <1>6 DEF StackFrom

LEMMA StackEnds ==
  ASSUME NEW st \in Places, NEW path \in Path, NEW g, StackFrom(g, st, path)
  PROVE  PlainFrom(st, path) = g[Len(path)]
<1> DEFINE n == Len(path)
           Right(f) == f = [i \in 0 .. n |-> IF i = 0 THEN st ELSE Worked(f[i - 1], path[i])]
           F == CHOOSE f : Right(f)
<1>1. n \in Nat
  BY PathOfParts
<1>2. /\ g \in [0 .. n -> Places] /\ g[0] = st
      /\ \A i \in 1 .. n : g[i] = Worked(g[i - 1], path[i])
  BY DEF StackFrom
<1>3. Right(g)
  <2>1. ASSUME NEW i \in 0 .. n
        PROVE  g[i] = IF i = 0 THEN st ELSE Worked(g[i - 1], path[i])
    BY <1>1, <1>2
  <2> QED BY <1>2, <2>1
<1>4. Right(F)
  <2> HIDE DEF Right
  <2> QED BY <1>3
<1> DEFINE P == {i \in 0 .. n : F[i] = g[i]}
<1>5. \A i \in 0 .. n : F[i] = IF i = 0 THEN st ELSE Worked(F[i - 1], path[i])
  <2> HIDE DEF F
  <2> QED BY <1>4
<1> HIDE DEF F
<1>6. Inductive(P, n)
  <2>1. 0 \in P
    BY <1>1, <1>2, <1>5
  <2>2. ASSUME NEW k \in 1 .. n, k - 1 \in P PROVE k \in P
    <3>1. k \in 0 .. n /\ k # 0
      BY <1>1
    <3>2. F[k] = Worked(F[k - 1], path[k]) /\ g[k] = Worked(g[k - 1], path[k])
      BY <1>2, <1>5, <3>1
    <3> QED BY <2>2, <3>1, <3>2
  <2> QED BY <2>1, <2>2 DEF Inductive
<1>7. n \in P
  <2> HIDE DEF P, n
  <2> QED BY <1>1, <1>6, CountUp
<1>8. F[n] = g[n]
  BY <1>7
<1>9. PlainFrom(st, path) = F[n]
  BY DEF PlainFrom, F
<1> QED BY <1>8, <1>9

LEMMA PlainIs ==
  ASSUME NEW path PROVE Plain(path) = PlainFrom(<<>>, path)
BY DEF Plain, PlainFrom

LEMMA PlainPlace ==
  ASSUME NEW st \in Places, NEW path \in Path
  PROVE  PlainFrom(st, path) \in Places
<1>1. PICK g : StackFrom(g, st, path)
  BY StackExists
<1>2. PlainFrom(st, path) = g[Len(path)] /\ Len(path) \in 0 .. Len(path)
  BY <1>1, StackEnds, PathOfParts
<1> QED BY <1>1, <1>2 DEF StackFrom

LEMMA PlainConcat ==
  ASSUME NEW st \in Places, NEW p \in Path, NEW q \in Path
  PROVE  /\ p \o q \in Path
         /\ PlainFrom(st, p \o q) = PlainFrom(PlainFrom(st, p), q)
<1> DEFINE m == Len(p)
           n == Len(q)
           s == p \o q
<1>1. /\ p \in Seq(Parts) /\ q \in Seq(Parts) /\ m \in Nat /\ n \in Nat
      /\ s \in Seq(Parts) /\ Len(s) = m + n
      /\ \A i \in 1 .. m + n : s[i] = IF i <= m THEN p[i] ELSE q[i - m]
  BY PathOfParts
<1>2. PICK g : StackFrom(g, st, p)
  BY StackExists
<1>3. PlainFrom(st, p) = g[m] /\ g[m] \in Places
  BY <1>1, <1>2, StackEnds, PlainPlace
<1>4. PICK hd : StackFrom(hd, g[m], q)
  BY <1>3, StackExists
<1>5. PlainFrom(g[m], q) = hd[n]
  BY <1>3, <1>4, StackEnds
<1>6. /\ g \in [0 .. m -> Places] /\ g[0] = st
      /\ \A i \in 1 .. m : g[i] = Worked(g[i - 1], p[i])
  BY <1>2 DEF StackFrom
<1>7. /\ hd \in [0 .. n -> Places] /\ hd[0] = g[m]
      /\ \A i \in 1 .. n : hd[i] = Worked(hd[i - 1], q[i])
  BY <1>4 DEF StackFrom
<1> HIDE DEF s, m, n
<1> DEFINE f == [i \in 0 .. m + n |-> IF i <= m THEN g[i] ELSE hd[i - m]]
<1>8. f \in [0 .. m + n -> Places] /\ f[0] = st /\ f[m + n] = hd[n]
  BY <1>1, <1>6, <1>7
<1>9. ASSUME NEW i \in 1 .. m + n PROVE f[i] = Worked(f[i - 1], s[i])
  <2>1. CASE i <= m
    <3>1. i \in 1 .. m /\ i \in 0 .. m + n /\ i - 1 \in 0 .. m + n /\ i - 1 <= m
      BY <1>1, <2>1
    <3>2. f[i] = g[i] /\ f[i - 1] = g[i - 1] /\ s[i] = p[i]
      BY <1>1, <3>1
    <3> QED BY <1>6, <3>1, <3>2
  <2>2. CASE i = m + 1
    <3>1. i \in 0 .. m + n /\ i - 1 \in 0 .. m + n /\ ~(i <= m) /\ i - 1 <= m
          /\ i - m = 1 /\ i - 1 = m /\ 1 \in 1 .. n
      BY <1>1, <2>2
    <3>2. f[i] = hd[1] /\ f[i - 1] = hd[0] /\ s[i] = q[1]
      BY <1>1, <1>7, <3>1
    <3>3. hd[1] = Worked(hd[1 - 1], q[1])
      BY <1>7, <3>1
    <3>4. 1 - 1 = 0
      OBVIOUS
    <3> QED BY <3>2, <3>3, <3>4
  <2>3. CASE i > m + 1
    <3>1. i \in 0 .. m + n /\ i - 1 \in 0 .. m + n /\ ~(i <= m) /\ ~(i - 1 <= m)
          /\ i - m \in 1 .. n /\ (i - 1) - m = (i - m) - 1
      BY <1>1, <2>3
    <3>2. f[i] = hd[i - m] /\ f[i - 1] = hd[(i - m) - 1] /\ s[i] = q[i - m]
      BY <1>1, <3>1
    <3> QED BY <1>7, <3>1, <3>2
  <2> QED BY <1>1, <2>1, <2>2, <2>3
<1>10. StackFrom(f, st, s)
  <2> HIDE DEF f
  <2> QED BY <1>1, <1>8, <1>9 DEF StackFrom
<1>11. s \in Path
  BY <1>1, PathOfParts
<1>12. PlainFrom(st, s) = f[m + n]
  <2> HIDE DEF f
  <2> QED BY <1>1, <1>10, <1>11, StackEnds
<1> QED BY <1>3, <1>5, <1>8, <1>11, <1>12 DEF s

LEMMA PlainOne ==
  ASSUME NEW st \in Places, NEW c \in Parts
  PROVE  PlainFrom(st, <<c>>) = Worked(st, c)
<1> DEFINE g == [i \in 0 .. 1 |-> IF i = 0 THEN st ELSE Worked(st, c)]
<1>1. <<c>> \in Path /\ Len(<<c>>) = 1 /\ <<c>>[1] = c
  BY PathOfParts
<1>2. Worked(st, c) \in Places
  BY WorkedPlace
<1>3. g \in [0 .. 1 -> Places] /\ g[0] = st /\ g[1] = Worked(st, c)
  BY <1>2
<1>4. StackFrom(g, st, <<c>>)
  <2> HIDE DEF g
  <2> QED BY <1>1, <1>3 DEF StackFrom
<1> QED BY <1>1, <1>3, <1>4, StackEnds

LEMMA PlainAppend ==
  ASSUME NEW st \in Places, NEW p \in Path, NEW c \in Parts
  PROVE  /\ Append(p, c) \in Path
         /\ PlainFrom(st, Append(p, c)) = Worked(PlainFrom(st, p), c)
<1>1. Append(p, c) = p \o <<c>> /\ <<c>> \in Path /\ PlainFrom(st, p) \in Places
  BY PathOfParts, PlainPlace
<1> QED BY <1>1, PlainConcat, PlainOne

LEMMA PlainNone ==
  ASSUME NEW st \in Places PROVE PlainFrom(st, <<>>) = st
<1> DEFINE g == [i \in 0 .. 0 |-> st]
<1>1. <<>> \in Path /\ Len(<<>>) = 0
  BY PathOfParts
<1>2. g \in [0 .. 0 -> Places] /\ g[0] = st
  OBVIOUS
<1>3. StackFrom(g, st, <<>>)
  <2> HIDE DEF g
  <2> QED BY <1>1, <1>2 DEF StackFrom
<1> QED BY <1>1, <1>2, <1>3, StackEnds

\* What has no c between its ends.
Free(path, c) == \A j \in 2 .. Len(path) - 1 : path[j] # c
\* What has no c before its end.
FreeBefore(path, c) == \A j \in 1 .. Len(path) - 1 : path[j] # c

\* What is left of a path whose first i components have been looked at.
KeptFrom(k, p, i) ==
  /\ k # <<>> /\ k[1] = p[1]
  /\ \A j \in 2 .. Len(k) : \E l \in 2 .. i : k[j] = p[l]

LEMMA MiddleGone ==
  ASSUME NEW p \in SomePath, NEW c \in {Empty, Dot}
  PROVE  LET r == WithoutMiddle(p, c)
         IN  /\ r \in SomePath
             /\ PlainFrom(<<>>, r) = PlainFrom(<<>>, p)
             /\ r[1] = p[1]
             /\ \A j \in 2 .. Len(r) - 1 : \E l \in 2 .. Len(p) - 1 : r[j] = p[l]
             /\ Free(r, c)
             /\ Len(r) > 1 => Len(p) > 1
<1> DEFINE n == Len(p)
           Stays(i) == p[i] # c \/ i \in {1, n}
           Right(k) == k = [i \in 0 .. n |-> IF i = 0 THEN <<>>
                              ELSE IF Stays(i) THEN Append(k[i - 1], p[i]) ELSE k[i - 1]]
           K == CHOOSE k : Right(k)
           step == [i \in Nat |-> [s \in Path |->
                      IF i \in 1 .. n /\ Stays(i) THEN Append(s, p[i]) ELSE s]]
<1>1. /\ p \in Seq(Parts) /\ p \in Path /\ n \in Nat /\ n > 0
      /\ \A i \in 1 .. n : p[i] \in Parts
  BY PathOfParts DEF SomePath
<1>2. <<>> \in Path /\ <<>> \in Places
  BY PathOfParts DEF Places
<1>3. step \in [Nat -> [Path -> Path]]
  <2> SUFFICES ASSUME NEW i \in Nat, NEW s \in Path, i \in 1 .. n
               PROVE  Append(s, p[i]) \in Path
    OBVIOUS
  <2> HIDE DEF n
  <2> QED BY <1>1, PathOfParts
<1>4. Stepping(Path, <<>>, step, n)
  BY <1>1, <1>2, <1>3 DEF Stepping
<1>5. PICK k : Computes(k, Path, <<>>, step, n)
  <2> HIDE DEF step, n
  <2> QED BY <1>4, Recursion
<1>6. /\ k \in [0 .. n -> Path] /\ k[0] = <<>>
      /\ \A i \in 1 .. n : k[i] = step[i][k[i - 1]]
  BY <1>5 DEF Computes
<1>7. ASSUME NEW i \in 1 .. n
      PROVE  k[i] = IF Stays(i) THEN Append(k[i - 1], p[i]) ELSE k[i - 1]
  <2>1. i \in Nat /\ i - 1 \in 0 .. n
    BY <1>1
  <2>2. k[i - 1] \in Path
    BY <1>6, <2>1
  <2> QED BY <1>6, <2>1, <2>2
<1> HIDE DEF step
<1>8. Right(k)
  <2>1. ASSUME NEW i \in 0 .. n
        PROVE  k[i] = IF i = 0 THEN <<>>
                      ELSE IF Stays(i) THEN Append(k[i - 1], p[i]) ELSE k[i - 1]
    <3>1. CASE i = 0
      BY <1>6, <3>1
    <3>2. CASE i # 0
      <4>1. i \in 1 .. n
        BY <1>1, <3>2
      <4> QED BY <1>7, <3>2, <4>1
    <3> QED BY <3>1, <3>2
  <2> HIDE DEF Stays
  <2> QED BY <1>6, <2>1
<1>9. Right(K)
  <2> HIDE DEF Right
  <2> QED BY <1>8, Zenon
<1>10. K = [i \in 0 .. n |-> IF i = 0 THEN <<>>
              ELSE IF Stays(i) THEN Append(K[i - 1], p[i]) ELSE K[i - 1]]
  BY <1>9
<1>11. WithoutMiddle(p, c) = K[n]
  BY DEF WithoutMiddle
<1> HIDE DEF K, Right
<1>12. /\ K[0] = <<>>
       /\ \A i \in 1 .. n : K[i] = IF Stays(i) THEN Append(K[i - 1], p[i]) ELSE K[i - 1]
  <2>1. \A i \in 0 .. n : K[i] = IF i = 0 THEN <<>>
              ELSE IF Stays(i) THEN Append(K[i - 1], p[i]) ELSE K[i - 1]
    <3> HIDE DEF Stays
    <3> QED BY <1>10
  <2> HIDE DEF Stays
  <2> QED BY <1>1, <2>1
<1>13. PICK g : StackFrom(g, <<>>, p)
  BY <1>1, <1>2, StackExists
<1>14. /\ g \in [0 .. n -> Places] /\ g[0] = <<>>
       /\ \A i \in 1 .. n : g[i] = Worked(g[i - 1], p[i])
  BY <1>13 DEF StackFrom
<1>15. PlainFrom(<<>>, p) = g[n]
  BY <1>1, <1>2, <1>13, StackEnds
<1> DEFINE P == {i \in 0 .. n : /\ K[i] \in Path
                                /\ PlainFrom(<<>>, K[i]) = g[i]
                                /\ i = 0 => K[i] = <<>>
                                /\ i > 0 => KeptFrom(K[i], p, i)
                                /\ i < n => \A j \in 2 .. Len(K[i]) : K[i][j] # c}
<1> HIDE DEF Stays
<1>16. 0 \in P
  <2>1. \A j \in 2 .. Len(K[0]) : FALSE
    BY <1>12
  <2> QED BY <1>1, <1>2, <1>12, <1>14, <2>1, PlainNone
<1>17. ASSUME NEW i \in 1 .. n, i - 1 \in P PROVE i \in P
  <2> DEFINE s == K[i - 1]
  <2>1. i - 1 \in 0 .. n /\ i - 1 < n /\ i \in 0 .. n /\ p[i] \in Parts
    BY <1>1
  <2>2. /\ s \in Path /\ PlainFrom(<<>>, s) = g[i - 1]
        /\ i = 1 => s = <<>>
        /\ i > 1 => KeptFrom(s, p, i - 1)
        /\ \A j \in 2 .. Len(s) : s[j] # c
    BY <1>17, <2>1
  <2>3. K[i] = IF Stays(i) THEN Append(s, p[i]) ELSE s
    BY <1>12
  <2> HIDE DEF s
  <2>4. s \in Seq(Parts) /\ Len(s) \in Nat
    BY <2>2, PathOfParts
  <2>5. CASE Stays(i)
    <3>1. /\ Append(s, p[i]) \in Path
          /\ PlainFrom(<<>>, Append(s, p[i])) = Worked(g[i - 1], p[i])
      BY <1>2, <2>1, <2>2, PlainAppend
    <3>2. /\ Append(s, p[i]) \in Seq(Parts) /\ Len(Append(s, p[i])) = Len(s) + 1
          /\ Append(s, p[i])[Len(s) + 1] = p[i]
          /\ \A j \in 1 .. Len(s) : Append(s, p[i])[j] = s[j]
      BY <2>1, <2>4
    <3> DEFINE q == Append(s, p[i])
    <3> HIDE DEF q
    <3>3. KeptFrom(q, p, i)
      <4>1. CASE i = 1
        <5>1. Len(s) = 0
          BY <2>2, <4>1
        <5>2. Len(q) = 1 /\ q[1] = p[i]
          BY <3>2, <5>1 DEF q
        <5> QED BY <4>1, <5>2 DEF KeptFrom
      <4>2. CASE i # 1
        <5>1. KeptFrom(s, p, i - 1) /\ i > 1
          BY <2>1, <2>2, <4>2
        <5>2. Len(s) >= 1 /\ s[1] = p[1]
          BY <2>4, <5>1 DEF KeptFrom
        <5>3. q[1] = p[1] /\ q # <<>>
          BY <2>4, <3>2, <5>2 DEF q
        <5>4. ASSUME NEW j \in 2 .. Len(q) PROVE \E l \in 2 .. i : q[j] = p[l]
          <6>1. CASE j = Len(s) + 1
            BY <3>2, <5>1, <6>1 DEF q
          <6>2. CASE j # Len(s) + 1
            <7>1. j \in 2 .. Len(s)
              BY <2>4, <3>2, <6>2 DEF q
            <7>2. PICK l \in 2 .. i - 1 : s[j] = p[l]
              BY <5>1, <7>1 DEF KeptFrom
            <7>3. q[j] = s[j] /\ l \in 2 .. i
              BY <2>4, <3>2, <7>1 DEF q
            <7> QED BY <7>2, <7>3
          <6> QED BY <6>1, <6>2
        <5> QED BY <5>3, <5>4 DEF KeptFrom
      <4> QED BY <4>1, <4>2
    <3>4. ASSUME i < n, NEW j \in 2 .. Len(q) PROVE q[j] # c
      <4>1. CASE j = Len(s) + 1
        <5>1. i # n /\ i # 1
          <6>1. Len(s) # 0
            BY <2>4, <4>1
          <6> QED BY <1>1, <2>2, <3>4, <6>1
        <5>2. p[i] # c
          BY <2>5, <5>1 DEF Stays
        <5> QED BY <3>2, <4>1, <5>2 DEF q
      <4>2. CASE j # Len(s) + 1
        <5>1. j \in 2 .. Len(s)
          BY <2>4, <3>2, <4>2 DEF q
        <5> QED BY <2>2, <2>4, <3>2, <5>1 DEF q
      <4> QED BY <4>1, <4>2
    <3>5. K[i] = q /\ g[i] = Worked(g[i - 1], p[i])
      BY <1>14, <2>3, <2>5 DEF q
    <3>6. q \in Path /\ PlainFrom(<<>>, q) = g[i]
      BY <3>1, <3>5 DEF q
    <3>7. i # 0 /\ (i < n => \A j \in 2 .. Len(q) : q[j] # c)
      BY <1>1, <3>4
    <3> HIDE DEF n
    <3> QED BY <2>1, <3>3, <3>5, <3>6, <3>7
  <2>6. CASE ~Stays(i)
    <3>1. p[i] = c /\ i # 1
      BY <2>6 DEF Stays
    <3>2. Worked(g[i - 1], p[i]) = g[i - 1]
      BY <3>1 DEF Worked
    <3>3. KeptFrom(s, p, i - 1)
      BY <2>1, <2>2, <3>1
    <3>4. KeptFrom(s, p, i)
      <4>1. \A j \in 2 .. Len(s) : \E l \in 2 .. i : s[j] = p[l]
        <5> SUFFICES ASSUME NEW j \in 2 .. Len(s) PROVE \E l \in 2 .. i : s[j] = p[l]
          OBVIOUS
        <5>1. PICK l \in 2 .. i - 1 : s[j] = p[l]
          BY <3>3 DEF KeptFrom
        <5>2. l \in 2 .. i
          BY <2>1
        <5> QED BY <5>1, <5>2
      <4> QED BY <3>3, <4>1 DEF KeptFrom
    <3>5. K[i] = s /\ g[i] = g[i - 1]
      BY <1>14, <2>3, <2>6, <3>2
    <3> QED BY <1>1, <2>1, <2>2, <3>4, <3>5
  <2> QED BY <2>5, <2>6
<1>18. Inductive(P, n)
  <2> HIDE DEF P
  <2> QED BY <1>16, <1>17 DEF Inductive
<1>19. n \in P /\ \A i \in 0 .. n : i \in P
  <2> HIDE DEF P, n
  <2> QED BY <1>1, <1>18, CountUp
<1> DEFINE r == K[n]
           s == K[n - 1]
<1>20. r = Append(s, p[n])
  <2>1. n \in 1 .. n /\ Stays(n)
    BY <1>1 DEF Stays
  <2> QED BY <1>12, <2>1
<1>21. /\ s \in Path
       /\ n - 1 = 0 => s = <<>>
       /\ n - 1 > 0 => KeptFrom(s, p, n - 1)
       /\ \A j \in 2 .. Len(s) : s[j] # c
  <2>1. n - 1 \in P /\ n - 1 < n
    BY <1>1, <1>19
  <2> QED BY <2>1
<1>22. r \in Path /\ PlainFrom(<<>>, r) = g[n] /\ KeptFrom(r, p, n)
  BY <1>1, <1>19
<1> HIDE DEF r, s, P, n
<1>23. s \in Seq(Parts) /\ Len(s) \in Nat
  BY <1>21, PathOfParts
<1>24. Len(r) = Len(s) + 1 /\ \A j \in 1 .. Len(s) : r[j] = s[j]
  BY <1>1, <1>20, <1>23
<1>25. ASSUME NEW j \in 2 .. Len(r) - 1
       PROVE  r[j] # c /\ \E l \in 2 .. n - 1 : r[j] = p[l]
  <2>1. j \in 2 .. Len(s) /\ r[j] = s[j]
    BY <1>23, <1>24
  <2>2. s # <<>>
    BY <2>1, <1>23
  <2>3. KeptFrom(s, p, n - 1)
    BY <1>1, <1>21, <2>2
  <2> QED BY <1>21, <2>1, <2>3 DEF KeptFrom
<1>26. Len(r) > 1 => n > 1
  BY <1>1, <1>21, <1>23, <1>24
<1>27. WithoutMiddle(p, c) = r
  BY <1>11 DEF r
<1>28. r # <<>> /\ r[1] = p[1]
  BY <1>22 DEF KeptFrom
<1> QED BY <1>15, <1>22, <1>25, <1>26, <1>27, <1>28 DEF Free, SomePath, n

\* A path from its component k on: what was before it goes.
LEMMA FromComponent ==
  ASSUME NEW p \in SomePath, NEW k \in 1 .. Len(p)
  PROVE  LET q == SubSeq(p, k, Len(p))
         IN  /\ q \in SomePath
             /\ Len(q) = Len(p) - k + 1
             /\ \A j \in 1 .. Len(q) : q[j] = p[j + k - 1]
             /\ p = SubSeq(p, 1, k - 1) \o q
<1> DEFINE n == Len(p)
           a == SubSeq(p, 1, k - 1)
           q == SubSeq(p, k, n)
<1>1. p \in Seq(Parts) /\ n \in Nat
  BY PathOfParts DEF SomePath
<1>2. /\ q \in Seq(Parts) /\ Len(q) = n - k + 1
      /\ \A j \in 1 .. n - k + 1 : q[j] = p[j + k - 1]
      /\ a \in Seq(Parts) /\ Len(a) = k - 1
      /\ \A j \in 1 .. k - 1 : a[j] = p[j]
  BY <1>1
<1> HIDE DEF a, q
<1>3. /\ a \o q \in Seq(Parts) /\ Len(a \o q) = n
      /\ \A j \in 1 .. n : (a \o q)[j] = IF j <= k - 1 THEN a[j] ELSE q[j - (k - 1)]
  BY <1>1, <1>2
<1>4. \A j \in 1 .. n : (a \o q)[j] = p[j]
  <2> SUFFICES ASSUME NEW j \in 1 .. n PROVE (a \o q)[j] = p[j]
    OBVIOUS
  <2>1. CASE j <= k - 1
    BY <1>1, <1>2, <1>3, <2>1
  <2>2. CASE ~(j <= k - 1)
    <3>1. j - (k - 1) \in 1 .. n - k + 1 /\ (j - (k - 1)) + k - 1 = j
      BY <1>1, <2>2
    <3> QED BY <1>2, <1>3, <2>2, <3>1
  <2> QED BY <2>1, <2>2
<1>5. a \o q = p
  BY <1>1, <1>3, <1>4, SeqEqual
<1>6. q # <<>>
  BY <1>1, <1>2
<1> QED BY <1>1, <1>2, <1>5, <1>6, PathOfParts DEF a, q, SomePath

\* Components that do nothing to an empty stack.
LEMMA NothingLeft ==
  ASSUME NEW a \in Path, NEW c \in {Empty, Dot, Up},
         \A j \in 1 .. Len(a) : a[j] = c
  PROVE  PlainFrom(<<>>, a) = <<>>
<1> DEFINE g == [i \in 0 .. Len(a) |-> <<>>]
<1>1. <<>> \in Places /\ Len(a) \in Nat
  BY PathOfParts DEF Places
<1>2. Worked(<<>>, c) = <<>>
  BY DEF Worked
<1>3. g \in [0 .. Len(a) -> Places] /\ \A i \in 0 .. Len(a) : g[i] = <<>>
  BY <1>1
<1> HIDE DEF g
<1>4. \A i \in 1 .. Len(a) : g[i] = Worked(g[i - 1], a[i])
  <2> SUFFICES ASSUME NEW i \in 1 .. Len(a) PROVE g[i] = Worked(g[i - 1], a[i])
    OBVIOUS
  <2>1. i \in 0 .. Len(a) /\ i - 1 \in 0 .. Len(a)
    BY <1>1
  <2> QED BY <1>2, <1>3, <2>1
<1>5. StackFrom(g, <<>>, a)
  BY <1>1, <1>3, <1>4 DEF StackFrom
<1>6. PlainFrom(<<>>, a) = g[Len(a)]
  BY <1>1, <1>5, StackEnds
<1> QED BY <1>1, <1>3, <1>6

LEMMA LeadingGone ==
  ASSUME NEW p \in SomePath, NEW c \in {Dot, Up}
  PROVE  \E k \in 1 .. Len(p) :
           /\ DropLeading(p, c) = SubSeq(p, k, Len(p))
           /\ k = Len(p) \/ p[k] # c
           /\ PlainFrom(<<>>, SubSeq(p, k, Len(p))) = PlainFrom(<<>>, p)
<1> DEFINE n == Len(p)
           T == {i \in 1 .. n : i = n \/ p[i] # c}
           AtStart(i) == (i = n \/ p[i] # c) /\ \A j \in 1 .. i - 1 : p[j] = c
<1>1. p \in Seq(Parts) /\ p \in Path /\ n \in Nat /\ n > 0
  BY PathOfParts DEF SomePath
<1>2. PICK x \in T : \A y \in T : x <= y
  <2>1. T \in SUBSET Nat /\ T # {}
    BY <1>1
  <2> HIDE DEF T
  <2> QED BY <2>1, LeastExists
<1>3. x \in 1 .. n /\ AtStart(x)
  <2>1. ASSUME NEW j \in 1 .. x - 1 PROVE p[j] = c
    <3>1. j \in 1 .. n /\ ~(x <= j)
      BY <1>1, <1>2
    <3>2. j \notin T
      BY <1>2, <3>1
    <3> QED BY <3>1, <3>2
  <2> QED BY <1>2, <2>1
<1> DEFINE k == CHOOSE i \in 1 .. n : AtStart(i)
<1>4. k \in 1 .. n /\ AtStart(k)
  <2> HIDE DEF AtStart, n
  <2> QED BY <1>3
<1>5. DropLeading(p, c) = SubSeq(p, k, n)
  BY DEF DropLeading
<1> HIDE DEF k
<1> DEFINE a == SubSeq(p, 1, k - 1)
           q == SubSeq(p, k, n)
<1>6. q \in SomePath /\ p = a \o q
  BY <1>4, FromComponent
<1>7. a \in Seq(Parts) /\ Len(a) = k - 1 /\ \A j \in 1 .. k - 1 : a[j] = p[j]
  BY <1>1, <1>4
<1>8. a \in Path /\ q \in Path /\ <<>> \in Places
  BY <1>6, <1>7, PathOfParts DEF SomePath, Places
<1> HIDE DEF a, q
<1>9. PlainFrom(<<>>, a) = <<>>
  BY <1>4, <1>7, <1>8, NothingLeft
<1>10. PlainFrom(<<>>, p) = PlainFrom(<<>>, q)
  BY <1>6, <1>8, <1>9, PlainConcat
<1> QED BY <1>4, <1>5, <1>10 DEF q

\* What the loops of de_dotdot keep: the meaning, and what cannot come back.
Tidied(q, p) ==
  /\ q \in SomePath
  /\ PlainFrom(<<>>, q) = PlainFrom(<<>>, p)
  /\ \A c \in {Empty, Dot} : Free(p, c) => Free(q, c)
  /\ \A c \in {Empty, Dot} : FreeBefore(p, c) => FreeBefore(q, c)

LEMMA TidiedSuffix ==
  ASSUME NEW p \in SomePath, NEW k \in 1 .. Len(p),
         PlainFrom(<<>>, SubSeq(p, k, Len(p))) = PlainFrom(<<>>, p)
  PROVE  Tidied(SubSeq(p, k, Len(p)), p)
<1> DEFINE q == SubSeq(p, k, Len(p))
<1>1. /\ q \in SomePath /\ Len(q) = Len(p) - k + 1
      /\ \A j \in 1 .. Len(q) : q[j] = p[j + k - 1]
  BY FromComponent
<1>2. Len(p) \in Nat
  BY PathOfParts DEF SomePath
<1> HIDE DEF q
<1>3. \A c : Free(p, c) => Free(q, c)
  <2> SUFFICES ASSUME NEW c, Free(p, c), NEW j \in 2 .. Len(q) - 1 PROVE q[j] # c
    BY DEF Free
  <2>1. j \in 1 .. Len(q) /\ j + k - 1 \in 2 .. Len(p) - 1
    BY <1>1, <1>2
  <2> QED BY <1>1, <2>1 DEF Free
<1>4. \A c : FreeBefore(p, c) => FreeBefore(q, c)
  <2> SUFFICES ASSUME NEW c, FreeBefore(p, c), NEW j \in 1 .. Len(q) - 1 PROVE q[j] # c
    BY DEF FreeBefore
  <2>1. j \in 1 .. Len(q) /\ j + k - 1 \in 1 .. Len(p) - 1
    BY <1>1, <1>2
  <2> QED BY <1>1, <2>1 DEF FreeBefore
<1> QED BY <1>1, <1>3, <1>4 DEF Tidied, q

LEMMA TidiedTwice ==
  ASSUME NEW p, NEW q, NEW r, Tidied(q, p), Tidied(r, q) PROVE Tidied(r, p)
BY DEF Tidied

LEMMA OneGone ==
  ASSUME NEW p \in Path, NEW i \in 1 .. Len(p)
  PROVE  /\ Without(p, i) \in Path /\ Len(Without(p, i)) = Len(p) - 1
         /\ \A j \in 1 .. Len(p) - 1 :
              Without(p, i)[j] = IF j < i THEN p[j] ELSE p[j + 1]
<1> DEFINE a == SubSeq(p, 1, i - 1)
           b == SubSeq(p, i + 1, Len(p))
<1>1. p \in Seq(Parts) /\ Len(p) \in Nat
  BY PathOfParts
<1>2. /\ a \in Seq(Parts) /\ Len(a) = i - 1 /\ \A j \in 1 .. i - 1 : a[j] = p[j]
      /\ b \in Seq(Parts) /\ Len(b) = Len(p) - i
      /\ \A j \in 1 .. Len(p) - i : b[j] = p[j + i]
  BY <1>1
<1> HIDE DEF a, b
<1>3. /\ a \o b \in Seq(Parts) /\ Len(a \o b) = Len(p) - 1
      /\ \A j \in 1 .. Len(p) - 1 :
           (a \o b)[j] = IF j <= i - 1 THEN a[j] ELSE b[j - (i - 1)]
  <2>1. Len(a) + Len(b) = Len(p) - 1
    BY <1>1, <1>2
  <2>2. /\ a \o b \in Seq(Parts) /\ Len(a \o b) = Len(a) + Len(b)
        /\ \A j \in 1 .. Len(a) + Len(b) :
             (a \o b)[j] = IF j <= Len(a) THEN a[j] ELSE b[j - Len(a)]
    BY <1>2, Concatenated
  <2> QED BY <1>2, <2>1, <2>2
<1>4. ASSUME NEW j \in 1 .. Len(p) - 1
      PROVE  (a \o b)[j] = IF j < i THEN p[j] ELSE p[j + 1]
  <2>1. CASE j < i
    BY <1>1, <1>2, <1>3, <2>1
  <2>2. CASE ~(j < i)
    <3>1. j - (i - 1) \in 1 .. Len(p) - i /\ (j - (i - 1)) + i = j + 1 /\ ~(j <= i - 1)
      BY <1>1, <2>2
    <3>2. b[j - (i - 1)] = p[(j - (i - 1)) + i]
      BY <1>2, <3>1
    <3> QED BY <1>3, <2>2, <3>1, <3>2
  <2> QED BY <2>1, <2>2
<1>5. Without(p, i) = a \o b
  BY DEF Without, a, b
<1> QED BY <1>3, <1>4, <1>5, PathOfParts

\* "x/../" goes: what x put on the stack, ".." takes from it.
LEMMA UpGone ==
  ASSUME NEW p \in SomePath, NEW i \in 2 .. Len(p) - 1, p[i] = Up,
         \A j \in 2 .. i - 1 : p[j] # Up
  PROVE  LET r == Without(Without(p, i), i - 1)
         IN  /\ r \in SomePath /\ Len(r) = Len(p) - 2
             /\ Free(p, Empty) /\ Free(p, Dot) => Tidied(r, p)
<1> DEFINE n == Len(p)
           w == Without(p, i)
           r == Without(w, i - 1)
           a == SubSeq(p, 1, i - 2)
           b == SubSeq(p, i + 1, n)
<1>1. p \in Path /\ p \in Seq(Parts) /\ n \in Nat /\ n > 0
  BY PathOfParts DEF SomePath
<1>2. /\ w \in Path /\ Len(w) = n - 1
      /\ \A j \in 1 .. n - 1 : w[j] = IF j < i THEN p[j] ELSE p[j + 1]
  <2>1. i \in 1 .. Len(p)
    BY <1>1
  <2> QED BY <1>1, <2>1, OneGone
<1> HIDE DEF w
<1>3. /\ r \in Path /\ Len(r) = n - 2
      /\ \A j \in 1 .. n - 2 : r[j] = IF j < i - 1 THEN w[j] ELSE w[j + 1]
  <2>1. i - 1 \in 1 .. Len(w) /\ Len(w) - 1 = n - 2
    BY <1>1, <1>2
  <2> QED BY <1>2, <2>1, OneGone
<1> HIDE DEF r
<1>4. ASSUME NEW j \in 1 .. n - 2 PROVE r[j] = IF j <= i - 2 THEN p[j] ELSE p[j + 2]
  <2>1. CASE j <= i - 2
    <3>1. j \in 1 .. n - 1 /\ j < i /\ j < i - 1
      BY <1>1, <2>1
    <3> QED BY <1>2, <1>3, <2>1, <3>1
  <2>2. CASE ~(j <= i - 2)
    <3>1. j + 1 \in 1 .. n - 1 /\ ~(j + 1 < i) /\ ~(j < i - 1) /\ (j + 1) + 1 = j + 2
      BY <1>1, <2>2
    <3>2. r[j] = w[j + 1] /\ w[j + 1] = p[(j + 1) + 1]
      BY <1>2, <1>3, <3>1
    <3> QED BY <2>2, <3>1, <3>2
  <2> QED BY <2>1, <2>2
<1>5. /\ a \in Seq(Parts) /\ Len(a) = i - 2 /\ \A j \in 1 .. i - 2 : a[j] = p[j]
      /\ b \in Seq(Parts) /\ Len(b) = n - i
      /\ \A j \in 1 .. n - i : b[j] = p[j + i]
  BY <1>1
<1>6. p[i - 1] \in Parts /\ i - 2 \in 0 .. n - 1 /\ i - 1 \in 0 .. n - 1
  BY <1>1
<1>7. p = Append(Append(a, p[i - 1]), Up) \o b
  <2>1. Append(a, p[(i - 2) + 1]) = SubSeq(p, 1, (i - 2) + 1)
    BY <1>1, <1>6, SubSeqMore
  <2>2. Append(SubSeq(p, 1, i - 1), p[(i - 1) + 1]) = SubSeq(p, 1, (i - 1) + 1)
    BY <1>1, <1>6, SubSeqMore
  <2>3. (i - 2) + 1 = i - 1 /\ (i - 1) + 1 = i /\ i + 1 \in 1 .. n /\ (i + 1) - 1 = i
    BY <1>1
  <2>4. p = SubSeq(p, 1, (i + 1) - 1) \o b
    BY <2>3, FromComponent
  <2> HIDE DEF a, b
  <2>5. Append(Append(a, p[i - 1]), Up) = SubSeq(p, 1, i)
    BY <2>1, <2>2, <2>3
  <2> QED BY <2>3, <2>4, <2>5
<1> HIDE DEF a, b
<1>8. r = a \o b
  <2>1. /\ a \o b \in Seq(Parts) /\ Len(a \o b) = n - 2
        /\ \A j \in 1 .. n - 2 :
             (a \o b)[j] = IF j <= i - 2 THEN a[j] ELSE b[j - (i - 2)]
    <3>1. Len(a) + Len(b) = n - 2
      BY <1>1, <1>5
    <3>2. /\ a \o b \in Seq(Parts) /\ Len(a \o b) = Len(a) + Len(b)
          /\ \A j \in 1 .. Len(a) + Len(b) :
               (a \o b)[j] = IF j <= Len(a) THEN a[j] ELSE b[j - Len(a)]
      BY <1>5, Concatenated
    <3> QED BY <1>5, <3>1, <3>2
  <2>2. ASSUME NEW j \in 1 .. n - 2 PROVE r[j] = (a \o b)[j]
    <3>1. CASE j <= i - 2
      BY <1>1, <1>4, <1>5, <2>1, <3>1
    <3>2. CASE ~(j <= i - 2)
      <4>1. j - (i - 2) \in 1 .. n - i /\ (j - (i - 2)) + i = j + 2
        BY <1>1, <3>2
      <4>2. b[j - (i - 2)] = p[(j - (i - 2)) + i]
        BY <1>5, <4>1
      <4> QED BY <1>4, <2>1, <3>2, <4>1, <4>2
    <3> QED BY <3>1, <3>2
  <2>3. r \in Seq(Parts)
    BY <1>3, PathOfParts
  <2> QED BY <1>3, <2>1, <2>2, <2>3, SeqEqual
<1> DEFINE st == PlainFrom(<<>>, a)
<1>9. <<>> \in Places /\ a \in Path /\ b \in Path /\ Up \in Parts
  BY <1>5, PathOfParts DEF Places, Parts
<1>10. st \in Places
  BY <1>9, PlainPlace
<1>11. /\ Append(a, p[i - 1]) \in Path
       /\ PlainFrom(<<>>, Append(a, p[i - 1])) = Worked(st, p[i - 1])
  BY <1>6, <1>9, PlainAppend
<1>12. /\ Append(Append(a, p[i - 1]), Up) \in Path
       /\ PlainFrom(<<>>, Append(Append(a, p[i - 1]), Up)) = Worked(Worked(st, p[i - 1]), Up)
  BY <1>9, <1>11, PlainAppend
<1>13. ASSUME Free(p, Empty), Free(p, Dot) PROVE Worked(Worked(st, p[i - 1]), Up) = st
  <2>1. CASE i = 2
    <3>1. a = <<>>
      BY <1>5, <2>1
    <3>2. st = <<>>
      BY <1>9, <3>1, PlainNone
    <3> HIDE DEF st
    <3> QED BY <1>6, <3>2, Specials DEF Worked, Parts, Front
  <2>2. CASE i # 2
    <3>1. i - 1 \in 2 .. n - 1 /\ i - 1 \in 2 .. i - 1
      BY <1>1, <2>2
    <3>2. p[i - 1] \in Names /\ p[i - 1] \notin {Empty, Dot} /\ p[i - 1] # Up
      BY <1>6, <1>13, <3>1 DEF Free, Parts
    <3> HIDE DEF st
    <3>3. Worked(st, p[i - 1]) = Append(st, p[i - 1])
      BY <3>2 DEF Worked
    <3>4. Front(Append(st, p[i - 1])) = st /\ Append(st, p[i - 1]) # <<>>
      BY <1>10, <3>2 DEF Front, Places
    <3> QED BY <3>3, <3>4, Specials DEF Worked
  <2> QED BY <2>1, <2>2
<1>14. ASSUME Free(p, Empty), Free(p, Dot)
       PROVE  PlainFrom(<<>>, p) = PlainFrom(st, b) /\ PlainFrom(<<>>, r) = PlainFrom(st, b)
  <2> HIDE DEF st
  <2>1. PlainFrom(<<>>, Append(Append(a, p[i - 1]), Up) \o b) = PlainFrom(st, b)
    BY <1>9, <1>12, <1>13, <1>14, PlainConcat
  <2>2. PlainFrom(<<>>, a \o b) = PlainFrom(st, b)
    BY <1>9, PlainConcat DEF st
  <2> QED BY <1>7, <1>8, <2>1, <2>2
<1>15. ASSUME NEW c, Free(p, c) PROVE Free(r, c)
  <2> SUFFICES ASSUME NEW j \in 2 .. Len(r) - 1 PROVE r[j] # c
    BY DEF Free
  <2>1. j \in 1 .. n - 2 /\ j \in 2 .. n - 1 /\ j + 2 \in 2 .. n - 1
    BY <1>1, <1>3
  <2> QED BY <1>4, <1>15, <2>1 DEF Free
<1>16. ASSUME NEW c, FreeBefore(p, c) PROVE FreeBefore(r, c)
  <2> SUFFICES ASSUME NEW j \in 1 .. Len(r) - 1 PROVE r[j] # c
    BY DEF FreeBefore
  <2>1. j \in 1 .. n - 2 /\ j \in 1 .. n - 1 /\ j + 2 \in 1 .. n - 1
    BY <1>1, <1>3
  <2> QED BY <1>4, <1>16, <2>1 DEF FreeBefore
<1>17. r # <<>>
  BY <1>1, <1>3
<1> QED BY <1>3, <1>14, <1>15, <1>16, <1>17 DEF Tidied, SomePath, r, w

\* ".." at its end only, or at its beginning when there is nothing else.
UpsLast(p) == Free(p, Up) /\ (Len(p) = 1 \/ p[1] # Up)

LEMMA DropDotDotRight ==
  ASSUME NEW p \in SomePath
  PROVE  /\ DropDotDot(p) \in SomePath
         /\ IF DropDotDot(p) = p THEN UpsLast(p) ELSE Len(DropDotDot(p)) < Len(p)
         /\ Free(p, Empty) /\ Free(p, Dot) => Tidied(DropDotDot(p), p)
<1> DEFINE n == Len(p)
<1>1. p \in Seq(Parts) /\ n \in Nat /\ n > 0
  BY PathOfParts DEF SomePath
<1>2. Up \in {Dot, Up}
  OBVIOUS
<1>3. PICK k \in 1 .. n :
        /\ DropLeading(p, Up) = SubSeq(p, k, n)
        /\ k = n \/ p[k] # Up
        /\ PlainFrom(<<>>, SubSeq(p, k, n)) = PlainFrom(<<>>, p)
  BY <1>2, LeadingGone
<1> DEFINE q == SubSeq(p, k, n)
           I == {i \in 2 .. Len(q) - 1 : q[i] = Up}
           m == CHOOSE x \in I : \A y \in I : x =< y
<1>4. Tidied(q, p) /\ q \in SomePath /\ Len(q) = n - k + 1 /\ q[1] = p[k]
  <2>1. 1 \in 1 .. Len(q) /\ 1 + k - 1 = k
    BY <1>1
  <2> QED BY <1>3, <2>1, FromComponent, TidiedSuffix
<1>5. DropDotDot(p) = IF I # {} THEN (IF m = 0 THEN q ELSE Without(Without(q, m), m - 1))
                      ELSE q
  <2>1. SelectInSubSeq(q, 2, Len(q) - 1, LAMBDA c : c = Up) = IF I # {} THEN m ELSE 0
    BY DEF SelectInSubSeq, Min
  <2>2. DropDotDot(p) = LET i == SelectInSubSeq(q, 2, Len(q) - 1, LAMBDA c : c = Up)
                        IN  IF i = 0 THEN q ELSE Without(Without(q, i), i - 1)
    BY <1>3 DEF DropDotDot
  <2> HIDE DEF I, m, q
  <2> QED BY <2>1, <2>2
<1>6. Len(q) = n => q = p
  <2>1. ASSUME Len(q) = n PROVE q = p
    <3>1. k = 1
      BY <1>1, <1>4, <2>1
    <3> QED BY <1>1, <3>1
  <2> QED BY <2>1
<1> HIDE DEF q
<1>7. Len(q) <= n /\ Len(q) \in Nat
  BY <1>1, <1>4
<1>8. CASE I = {}
  <2>1. DropDotDot(p) = q
    BY <1>5, <1>8
  <2>2. Free(q, Up)
    BY <1>8 DEF Free
  <2>3. ASSUME q = p PROVE UpsLast(p)
    <3>1. k = 1
      BY <1>1, <1>4, <2>3
    <3> QED BY <1>3, <2>2, <2>3, <3>1 DEF UpsLast
  <2>4. q # p => Len(q) < n
    BY <1>1, <1>6, <1>7
  <2> QED BY <1>4, <2>1, <2>3, <2>4
<1>9. CASE I # {}
  <2>1. m \in I /\ \A y \in I : m =< y
    <3>1. \E x \in I : \A y \in I : x <= y
      <4>1. I \in SUBSET Nat
        BY <1>7
      <4> HIDE DEF I
      <4> QED BY <1>9, <4>1, LeastExists
    <3> HIDE DEF I
    <3> QED BY <3>1
  <2> HIDE DEF m
  <2>2. /\ m \in 2 .. Len(q) - 1 /\ q[m] = Up
        /\ \A j \in 2 .. m - 1 : q[j] # Up
    <3>1. ASSUME NEW j \in 2 .. m - 1, q[j] = Up PROVE FALSE
      <4>1. j \in I
        BY <1>7, <2>1, <3>1
      <4> QED BY <1>7, <2>1, <4>1
    <3> QED BY <2>1, <3>1
  <2>3. Free(p, Empty) /\ Free(p, Dot) => Free(q, Empty) /\ Free(q, Dot)
    BY <1>4 DEF Tidied
  <2> DEFINE r == Without(Without(q, m), m - 1)
  <2>4. /\ r \in SomePath /\ Len(r) = Len(q) - 2
        /\ Free(q, Empty) /\ Free(q, Dot) => Tidied(r, q)
    BY <1>4, <2>2, UpGone
  <2>5. m # 0
    BY <1>7, <2>2
  <2>6. DropDotDot(p) = r
    BY <1>5, <1>9, <2>5
  <2> HIDE DEF r
  <2>7. Free(p, Empty) /\ Free(p, Dot) => Tidied(r, p)
    BY <1>4, <2>3, <2>4, TidiedTwice
  <2>8. Len(r) < n
    BY <1>1, <1>7, <2>4
  <2>9. r # p
    BY <1>1, <2>8
  <2> QED BY <2>4, <2>6, <2>7, <2>8, <2>9
<1> QED BY <1>8, <1>9

LEMMA DropsExist ==
  \E f \in [SomePath -> SomePath] :
    \A p \in SomePath : f[p] = IF DropDotDot(p) = p THEN p ELSE f[DropDotDot(p)]
<1> DEFINE E == {p \in SomePath : DropDotDot(p) = p}
           val == [p \in SomePath |-> p]
           nxt == [p \in SomePath |-> DropDotDot(p)]
           a == [p \in SomePath |-> Len(p)]
<1>1. \A p \in SomePath : DropDotDot(p) \in SomePath /\ Len(p) \in Nat
  BY DropDotDotRight, PathOfParts DEF SomePath
<1>2. \A p \in SomePath \ E : a[nxt[p]] < a[p]
  BY <1>1, DropDotDotRight
<1>3. /\ E \in SUBSET SomePath /\ val \in [SomePath -> SomePath]
      /\ nxt \in [SomePath -> SomePath] /\ a \in [SomePath -> Nat]
  BY <1>1
<1>4. /\ \A p \in SomePath : val[p] = p /\ nxt[p] = DropDotDot(p)
      /\ \A p \in SomePath : p \in E <=> DropDotDot(p) = p
  OBVIOUS
<1> HIDE DEF E, val, nxt, a
<1>5. TailRecursive(SomePath, SomePath, E, val, nxt, a, a)
  BY <1>2, <1>3 DEF TailRecursive
<1>6. PICK f \in [SomePath -> SomePath] :
        \A p \in SomePath : f[p] = IF p \in E THEN val[p] ELSE f[nxt[p]]
  BY <1>5, TailRecursion
<1>7. \A p \in SomePath : f[p] = IF DropDotDot(p) = p THEN p ELSE f[DropDotDot(p)]
  BY <1>4, <1>6
<1> QED BY <1>7

LEMMA DropDotDotsIs ==
  ASSUME NEW p \in SomePath
  PROVE  \E f : /\ DropDotDots(p) = f[p]
                /\ \A q \in SomePath : f[q] = IF DropDotDot(q) = q THEN q ELSE f[DropDotDot(q)]
<1> DEFINE Right(f) == f = [q \in SomePath |-> IF DropDotDot(q) = q THEN q
                                               ELSE f[DropDotDot(q)]]
           F == CHOOSE f : Right(f)
<1>1. \E f : Right(f)
  <2>1. PICK f \in [SomePath -> SomePath] :
          \A q \in SomePath : f[q] = IF DropDotDot(q) = q THEN q ELSE f[DropDotDot(q)]
    BY DropsExist
  <2>2. Right(f)
    BY <2>1
  <2> QED BY <2>2
<1>2. Right(F)
  <2> HIDE DEF Right
  <2> QED BY <1>1
<1>3. DropDotDots(p) = F[p]
  BY DEF DropDotDots
<1> HIDE DEF F
<1>4. \A q \in SomePath : F[q] = IF DropDotDot(q) = q THEN q ELSE F[DropDotDot(q)]
  BY <1>2
<1> QED BY <1>3, <1>4

LEMMA DropDotDotsRight ==
  ASSUME NEW p \in SomePath, Free(p, Empty), Free(p, Dot)
  PROVE  Tidied(DropDotDots(p), p) /\ UpsLast(DropDotDots(p))
<1>1. PICK f : /\ DropDotDots(p) = f[p]
               /\ \A q \in SomePath : f[q] = IF DropDotDot(q) = q THEN q ELSE f[DropDotDot(q)]
  BY DropDotDotsIs
<1> DEFINE T == {q \in SomePath : /\ Free(q, Empty) /\ Free(q, Dot)
                                  /\ ~(Tidied(f[q], q) /\ UpsLast(f[q]))}
<1>2. T = {}
  <2> SUFFICES ASSUME T # {} PROVE FALSE
    OBVIOUS
  <2>1. PICK x \in {Len(q) : q \in T} : \A y \in {Len(q) : q \in T} : x <= y
    <3>1. \A q \in T : Len(q) \in Nat
      BY PathOfParts DEF SomePath
    <3> HIDE DEF T
    <3>2. {Len(q) : q \in T} \in SUBSET Nat /\ {Len(q) : q \in T} # {}
      BY <3>1
    <3> QED BY <3>2, LeastExists
  <2>2. PICK q \in T : \A r \in T : Len(q) <= Len(r)
    <3> HIDE DEF T
    <3> QED BY <2>1
  <2>3. q \in SomePath /\ Free(q, Empty) /\ Free(q, Dot) /\ Len(q) \in Nat
    BY PathOfParts DEF SomePath
  <2> DEFINE r == DropDotDot(q)
  <2>4. /\ r \in SomePath /\ Len(r) \in Nat
        /\ IF r = q THEN UpsLast(q) ELSE Len(r) < Len(q)
        /\ Tidied(r, q)
    BY <2>3, DropDotDotRight, PathOfParts DEF SomePath
  <2>5. f[q] = IF r = q THEN q ELSE f[r]
    BY <1>1, <2>3
  <2> HIDE DEF r
  <2>6. CASE r = q
    BY <2>4, <2>5, <2>6
  <2>7. CASE r # q
    <3>1. ~(Len(q) <= Len(r))
      BY <2>3, <2>4, <2>7
    <3>2. r \notin T
      BY <2>2, <3>1
    <3>3. Free(r, Empty) /\ Free(r, Dot)
      BY <2>3, <2>4 DEF Tidied
    <3>4. Tidied(f[r], r) /\ UpsLast(f[r])
      BY <2>4, <3>2, <3>3
    <3>5. Tidied(f[r], q)
      BY <2>4, <3>4, TidiedTwice
    <3> QED BY <2>5, <2>7, <3>4, <3>5
  <2> QED BY <2>6, <2>7
<1>3. p \notin T
  BY <1>2
<1> QED BY <1>1, <1>3

LEMMA LastUpsGo ==
  \E f \in [SomePath -> SomePath] :
    \A p \in SomePath : f[p] = IF Len(p) >= 3 /\ p[Len(p)] = Up
                               THEN f[SubSeq(p, 1, Len(p) - 2)] ELSE p
<1> DEFINE E == {p \in SomePath : ~(Len(p) >= 3 /\ p[Len(p)] = Up)}
           val == [p \in SomePath |-> p]
           nxt == [p \in SomePath |-> IF p \in E THEN p ELSE SubSeq(p, 1, Len(p) - 2)]
           a == [p \in SomePath |-> Len(p)]
<1>1. ASSUME NEW p \in SomePath \ E
      PROVE  SubSeq(p, 1, Len(p) - 2) \in SomePath /\ Len(SubSeq(p, 1, Len(p) - 2)) < Len(p)
  <2>1. p \in Seq(Parts) /\ Len(p) \in Nat /\ Len(p) >= 3
    BY PathOfParts DEF SomePath
  <2>2. /\ SubSeq(p, 1, Len(p) - 2) \in Seq(Parts)
        /\ Len(SubSeq(p, 1, Len(p) - 2)) = Len(p) - 2
    BY <2>1
  <2> DEFINE r == SubSeq(p, 1, Len(p) - 2)
  <2>3. r # <<>>
    <3> HIDE DEF r
    <3>1. Len(r) = Len(p) - 2
      BY <2>2 DEF r
    <3> QED BY <2>1, <3>1
  <2> QED BY <2>1, <2>2, <2>3, PathOfParts DEF SomePath
<1>2. \A p \in SomePath : Len(p) \in Nat
  BY PathOfParts DEF SomePath
<1>3. /\ \A p \in SomePath : val[p] = p
      /\ \A p \in SomePath \ E : nxt[p] = SubSeq(p, 1, Len(p) - 2)
      /\ \A p \in SomePath : a[p] = Len(p)
      /\ \A p \in SomePath : p \in E <=> ~(Len(p) >= 3 /\ p[Len(p)] = Up)
  OBVIOUS
<1>4. /\ E \in SUBSET SomePath /\ val \in [SomePath -> SomePath]
      /\ nxt \in [SomePath -> SomePath] /\ a \in [SomePath -> Nat]
  <2>1. E \in SUBSET SomePath /\ val \in [SomePath -> SomePath]
    OBVIOUS
  <2>2. a \in [SomePath -> Nat]
    BY <1>2
  <2>3. nxt \in [SomePath -> SomePath]
    <3> SUFFICES ASSUME NEW p \in SomePath, p \notin E
                 PROVE  SubSeq(p, 1, Len(p) - 2) \in SomePath
      OBVIOUS
    <3> HIDE DEF E
    <3> QED BY <1>1
  <2> QED BY <2>1, <2>2, <2>3
<1> HIDE DEF E, val, nxt, a
<1>5. TailRecursive(SomePath, SomePath, E, val, nxt, a, a)
  BY <1>1, <1>3, <1>4 DEF TailRecursive
<1>6. PICK f \in [SomePath -> SomePath] :
        \A p \in SomePath : f[p] = IF p \in E THEN val[p] ELSE f[nxt[p]]
  BY <1>5, TailRecursion
<1>7. \A p \in SomePath : f[p] = IF Len(p) >= 3 /\ p[Len(p)] = Up
                                 THEN f[SubSeq(p, 1, Len(p) - 2)] ELSE p
  BY <1>3, <1>6
<1> QED BY <1>7

\* ".." only behind a single component, or alone.
UpsFew(p) ==
  \A i \in 1 .. Len(p) : p[i] = Up => i = Len(p) /\ (Len(p) = 1 \/ (Len(p) = 2 /\ p[1] # Up))

LEMMA DropLastRight ==
  ASSUME NEW p \in SomePath, Free(p, Empty), Free(p, Dot), UpsLast(p)
  PROVE  LET r == DropLast(p)
         IN  /\ r \in SomePath
             /\ PlainFrom(<<>>, r) = PlainFrom(<<>>, p)
             /\ UpsFew(r)
             /\ Free(r, Empty) /\ Free(r, Dot)
             /\ \A c \in {Empty, Dot} : FreeBefore(p, c) => FreeBefore(r, c)
<1> DEFINE n == Len(p)
           Right(f) == f = [q \in SomePath |-> IF Len(q) >= 3 /\ Last(q) = Up
                              THEN f[SubSeq(q, 1, Len(q) - 2)] ELSE q]
           F == CHOOSE f : Right(f)
<1>1. p \in Path /\ p \in Seq(Parts) /\ n \in Nat /\ n > 0
  BY PathOfParts DEF SomePath
<1>2. \E f : Right(f)
  <2>1. PICK f \in [SomePath -> SomePath] :
          \A q \in SomePath : f[q] = IF Len(q) >= 3 /\ q[Len(q)] = Up
                                     THEN f[SubSeq(q, 1, Len(q) - 2)] ELSE q
    BY LastUpsGo
  <2>2. Right(f)
    BY <2>1 DEF Last
  <2> QED BY <2>2
<1>3. Right(F)
  <2> HIDE DEF Right
  <2> QED BY <1>2
<1>4. DropLast(p) = F[p]
  BY DEF DropLast
<1> HIDE DEF F
<1>5. \A q \in SomePath : F[q] = IF Len(q) >= 3 /\ q[Len(q)] = Up
                                 THEN F[SubSeq(q, 1, Len(q) - 2)] ELSE q
  BY <1>3 DEF Last
<1>6. CASE ~(n >= 3 /\ p[n] = Up)
  <2>1. DropLast(p) = p
    BY <1>4, <1>5, <1>6
  <2>2. UpsFew(p)
    <3> SUFFICES ASSUME NEW i \in 1 .. n, p[i] = Up
                 PROVE  i = n /\ (n = 1 \/ (n = 2 /\ p[1] # Up))
      BY DEF UpsFew
    <3>1. i = n \/ i = 1
      BY <1>1 DEF UpsLast, Free
    <3>2. i = 1 => n = 1
      BY <1>1 DEF UpsLast
    <3>3. i = n
      BY <3>1, <3>2
    <3>4. n < 3
      BY <1>1, <1>6, <3>3
    <3>5. n = 1 \/ n = 2
      <4> HIDE DEF n
      <4> QED BY <1>1, <3>4
    <3> QED BY <3>3, <3>5 DEF UpsLast
  <2> QED BY <1>1, <2>1, <2>2 DEF SomePath
<1>7. CASE n >= 3 /\ p[n] = Up
  <2> DEFINE r == SubSeq(p, 1, n - 2)
             x == p[n - 1]
  <2>1. /\ r \in Seq(Parts) /\ Len(r) = n - 2 /\ \A j \in 1 .. n - 2 : r[j] = p[j]
        /\ n - 1 \in 2 .. n - 1 /\ n - 2 \in 1 .. n - 1 /\ n - 1 \in 1 .. n
    BY <1>1, <1>7
  <2>2. r \in SomePath
    <3> HIDE DEF r
    <3>1. r # <<>>
      BY <1>1, <2>1
    <3>2. r \in Path
      BY <2>1, PathOfParts
    <3> QED BY <3>1, <3>2 DEF SomePath
  <2>3. p = Append(Append(r, x), Up)
    <3>4. n - 2 \in 0 .. n - 1 /\ n - 1 \in 0 .. n - 1
      BY <1>1, <1>7
    <3>1. Append(r, p[(n - 2) + 1]) = SubSeq(p, 1, (n - 2) + 1)
      BY <1>1, <3>4, SubSeqMore
    <3>2. Append(SubSeq(p, 1, n - 1), p[(n - 1) + 1]) = SubSeq(p, 1, (n - 1) + 1)
      BY <1>1, <3>4, SubSeqMore
    <3>3. (n - 2) + 1 = n - 1 /\ (n - 1) + 1 = n /\ SubSeq(p, 1, n) = p
      BY <1>1
    <3> HIDE DEF r
    <3> QED BY <1>7, <3>1, <3>2, <3>3
  <2>4. x \in Names
    BY <1>1, <2>1 DEF Free, UpsLast, Parts
  <2> HIDE DEF r, x
  <2> DEFINE st == PlainFrom(<<>>, r)
  <2>5. r \in Path /\ <<>> \in Places /\ x \in Parts /\ Up \in Parts
    BY <2>2, <2>4 DEF SomePath, Places, Parts
  <2>6. st \in Places
    BY <2>5, PlainPlace
  <2>7. PlainFrom(<<>>, p) = Worked(Worked(st, x), Up)
    <3>1. Append(r, x) \in Path /\ PlainFrom(<<>>, Append(r, x)) = Worked(st, x)
      BY <2>5, PlainAppend
    <3> QED BY <2>3, <2>5, <3>1, PlainAppend
  <2> HIDE DEF st
  <2>8. Worked(Worked(st, x), Up) = st
    <3>1. x \notin {Empty, Dot} /\ x # Up
      BY <2>4, NamesAssumption
    <3>2. Worked(st, x) = Append(st, x)
      BY <3>1 DEF Worked
    <3>3. Front(Append(st, x)) = st /\ Append(st, x) # <<>>
      BY <2>4, <2>6 DEF Front, Places
    <3> QED BY <3>2, <3>3, Specials DEF Worked
  <2>9. \A j \in 1 .. n - 2 : r[j] # Up
    BY <1>1, <1>7, <2>1 DEF UpsLast, Free
  <2>10. DropLast(p) = r
    <3>1. F[p] = F[r]
      BY <1>5, <1>7 DEF r
    <3>2. r[Len(r)] # Up
      <4>1. n - 2 \in 1 .. n - 2
        BY <1>1, <1>7
      <4> QED BY <2>1, <2>9, <4>1
    <3>3. F[r] = r
      BY <1>5, <2>2, <3>2
    <3> QED BY <1>4, <3>1, <3>3
  <2>11. UpsFew(r)
    BY <2>1, <2>9 DEF UpsFew
  <2>12. ASSUME NEW c, Free(p, c) PROVE Free(r, c)
    <3> SUFFICES ASSUME NEW j \in 2 .. Len(r) - 1 PROVE r[j] # c
      BY DEF Free
    <3>1. j \in 1 .. n - 2 /\ j \in 2 .. n - 1
      BY <1>1, <2>1
    <3> QED BY <2>1, <2>12, <3>1 DEF Free
  <2>13. ASSUME NEW c, FreeBefore(p, c) PROVE FreeBefore(r, c)
    <3> SUFFICES ASSUME NEW j \in 1 .. Len(r) - 1 PROVE r[j] # c
      BY DEF FreeBefore
    <3>1. j \in 1 .. n - 2 /\ j \in 1 .. n - 1
      BY <1>1, <2>1
    <3> QED BY <2>1, <2>13, <3>1 DEF FreeBefore
  <2> QED BY <2>2, <2>7, <2>8, <2>10, <2>11, <2>12, <2>13 DEF st
<1> QED BY <1>6, <1>7

\* de_dotdot keeps what a path means, leaves ".." only behind a single component
\* or alone, no empty component in the middle, and none before the end when the
\* path does not begin with one, and "." only at the end.
LEMMA DeDotdotRight ==
  ASSUME NEW p \in SomePath
  PROVE  LET r == DeDotdot(p)
         IN  /\ r \in SomePath
             /\ Plain(r) = Plain(p)
             /\ UpsFew(r)
             /\ Free(r, Empty) /\ Free(r, Dot) /\ FreeBefore(r, Dot)
             /\ p[1] # Empty => FreeBefore(r, Empty)
<1> DEFINE a == Collapse(p)
           b == DropLeading(a, Dot)
           c == DropDots(b)
           d == DropDotDots(c)
           r == DropLast(d)
<1>1. DeDotdot(p) = r
  BY DEF DeDotdot
<1>2. /\ a \in SomePath /\ PlainFrom(<<>>, a) = PlainFrom(<<>>, p)
      /\ Free(a, Empty)
      /\ p[1] # Empty => FreeBefore(a, Empty)
  <2>1. Empty \in {Empty, Dot}
    OBVIOUS
  <2>2. /\ a \in SomePath /\ PlainFrom(<<>>, a) = PlainFrom(<<>>, p)
        /\ a[1] = p[1] /\ Free(a, Empty)
    BY <2>1, MiddleGone DEF Collapse
  <2>3. Len(a) \in Nat
    BY <2>2, PathOfParts DEF SomePath
  <2> HIDE DEF a
  <2>4. ASSUME p[1] # Empty PROVE FreeBefore(a, Empty)
    <3> SUFFICES ASSUME NEW j \in 1 .. Len(a) - 1 PROVE a[j] # Empty
      BY DEF FreeBefore
    <3>1. j = 1 \/ j \in 2 .. Len(a) - 1
      BY <2>3
    <3> QED BY <2>2, <2>4, <3>1 DEF Free
  <2> QED BY <2>2, <2>4
<1> HIDE DEF a
<1>3. /\ b \in SomePath /\ PlainFrom(<<>>, b) = PlainFrom(<<>>, a)
      /\ Free(b, Empty) /\ (Len(b) > 1 => b[1] # Dot)
      /\ FreeBefore(a, Empty) => FreeBefore(b, Empty)
  <2>1. Dot \in {Dot, Up}
    OBVIOUS
  <2>2. PICK k \in 1 .. Len(a) :
          /\ DropLeading(a, Dot) = SubSeq(a, k, Len(a))
          /\ k = Len(a) \/ a[k] # Dot
          /\ PlainFrom(<<>>, SubSeq(a, k, Len(a))) = PlainFrom(<<>>, a)
    BY <1>2, <2>1, LeadingGone
  <2>3. Tidied(b, a)
    BY <1>2, <2>2, TidiedSuffix
  <2>4. Len(b) > 1 => b[1] # Dot
    <3>1. /\ Len(b) = Len(a) - k + 1 /\ \A j \in 1 .. Len(b) : b[j] = a[j + k - 1]
      BY <1>2, <2>2, FromComponent
    <3>2. Len(a) \in Nat
      BY <1>2, PathOfParts DEF SomePath
    <3> HIDE DEF b
    <3>3. ASSUME Len(b) > 1 PROVE 1 \in 1 .. Len(b) /\ 1 + k - 1 = k /\ k # Len(a)
      BY <3>1, <3>2, <3>3
    <3> QED BY <2>2, <3>1, <3>3
  <2> HIDE DEF b
  <2> QED BY <1>2, <2>3, <2>4 DEF Tidied
<1> HIDE DEF b
<1>4. /\ c \in SomePath /\ PlainFrom(<<>>, c) = PlainFrom(<<>>, b)
      /\ Free(c, Dot) /\ Free(c, Empty) /\ FreeBefore(c, Dot)
      /\ FreeBefore(b, Empty) => FreeBefore(c, Empty)
  <2>1. Dot \in {Empty, Dot}
    OBVIOUS
  <2>2. /\ c \in SomePath
        /\ PlainFrom(<<>>, c) = PlainFrom(<<>>, b)
        /\ c[1] = b[1]
        /\ \A j \in 2 .. Len(c) - 1 : \E l \in 2 .. Len(b) - 1 : c[j] = b[l]
        /\ Free(c, Dot)
        /\ Len(c) > 1 => Len(b) > 1
    BY <1>3, <2>1, MiddleGone DEF DropDots
  <2>3. Len(c) \in Nat /\ Len(b) \in Nat
    BY <1>3, <2>2, PathOfParts DEF SomePath
  <2> HIDE DEF c
  <2>4. Free(c, Empty)
    <3> SUFFICES ASSUME NEW j \in 2 .. Len(c) - 1 PROVE c[j] # Empty
      BY DEF Free
    <3>1. PICK l \in 2 .. Len(b) - 1 : c[j] = b[l]
      BY <2>2
    <3> QED BY <1>3, <3>1 DEF Free
  <2>5. ASSUME FreeBefore(b, Empty) PROVE FreeBefore(c, Empty)
    <3> SUFFICES ASSUME NEW j \in 1 .. Len(c) - 1 PROVE c[j] # Empty
      BY DEF FreeBefore
    <3>1. CASE j = 1
      <4>1. 1 \in 1 .. Len(b) - 1
        BY <2>2, <2>3, <3>1
      <4> QED BY <2>2, <2>5, <3>1, <4>1 DEF FreeBefore
    <3>2. CASE j # 1
      <4>1. j \in 2 .. Len(c) - 1
        BY <2>3, <3>2
      <4> QED BY <2>4, <4>1 DEF Free
    <3> QED BY <3>1, <3>2
  <2>6. FreeBefore(c, Dot)
    <3> SUFFICES ASSUME NEW j \in 1 .. Len(c) - 1 PROVE c[j] # Dot
      BY DEF FreeBefore
    <3>1. j = 1 => Len(c) > 1
      BY <2>3
    <3>2. j # 1 => j \in 2 .. Len(c) - 1
      BY <2>3
    <3> QED BY <1>3, <2>2, <3>1, <3>2 DEF Free
  <2> QED BY <2>2, <2>4, <2>5, <2>6
<1> HIDE DEF c
<1>5. /\ d \in SomePath /\ PlainFrom(<<>>, d) = PlainFrom(<<>>, c)
      /\ Free(d, Dot) /\ Free(d, Empty) /\ UpsLast(d) /\ FreeBefore(d, Dot)
      /\ FreeBefore(c, Empty) => FreeBefore(d, Empty)
  <2>1. Tidied(d, c) /\ UpsLast(d)
    BY <1>4, DropDotDotsRight
  <2> HIDE DEF d
  <2> QED BY <1>4, <2>1 DEF Tidied
<1> HIDE DEF d
<1>6. /\ r \in SomePath
      /\ PlainFrom(<<>>, r) = PlainFrom(<<>>, d)
      /\ UpsFew(r)
      /\ Free(r, Empty) /\ Free(r, Dot) /\ FreeBefore(r, Dot)
      /\ FreeBefore(d, Empty) => FreeBefore(r, Empty)
  BY <1>5, DropLastRight
<1> HIDE DEF r
<1> QED BY <1>1, <1>2, <1>3, <1>4, <1>5, <1>6, PlainIs

(***************************************************************************)
(* The walk.                                                               *)
(***************************************************************************)
Modes == {"stat", "lstat", "reach"}

EndOf(w, how) == WalkPath(w.at, w.top, w.path, w.n, how)

IsWalk(at, top, path, n) ==
  at \in Places /\ top \in Places /\ path \in Path /\ n \in Nat

LEMMA NowhereElse == Nowhere \notin Places /\ \A s \in Sites : Nowhere \notin DOMAIN s.tree
<1>1. Nowhere \notin Places
  <2> SUFFICES ASSUME Nowhere \in Places PROVE FALSE
    OBVIOUS
  <2>1. Len(Nowhere) = 1 /\ Nowhere[1] = Up
    BY DEF Nowhere
  <2> HIDE DEF Nowhere
  <2>2. PICK s \in Seq(Names) : s = Nowhere
    BY DEF Places
  <2>3. s[1] \in Names
    BY <2>1, <2>2
  <2> QED BY <2>1, <2>2, <2>3, NamesAssumption
<1> QED BY <1>1, SiteAssumption

\* What SiteAssumption says of a file.
LEMMA TreeKnown ==
  ASSUME site \in Sites, NEW p \in DOMAIN site.tree
  PROVE  /\ p \in Places
         /\ Kind(p) \in {"dir", "file", "link"}
         /\ Kind(p) = "link" => LinkText(site.tree[p].text)
         /\ p # <<>> => Front(p) \in DOMAIN site.tree /\ Kind(Front(p)) = "dir"
BY SiteAssumption DEF Kind

LEMMA RootsKnown ==
  ASSUME site \in Sites
  PROVE  /\ <<>> \in DOMAIN site.tree /\ Kind(<<>>) = "dir"
         /\ site.cwd \in DOMAIN site.tree /\ Kind(site.cwd) = "dir"
         /\ <<>> \in Places /\ site.cwd \in Places
BY SiteAssumption DEF Kind

LEMMA FirstAndRest ==
  ASSUME NEW path \in SomePath
  PROVE  /\ path[1] \in Parts /\ Tail(path) \in Path
         /\ Len(Tail(path)) = Len(path) - 1 /\ Len(path) \in Nat /\ Len(path) > 0
         /\ path = <<path[1]>> \o Tail(path)
         /\ \A i \in 1 .. Len(path) - 1 : Tail(path)[i] = path[i + 1]
<1>1. path \in Seq(Parts) /\ path # <<>>
  BY PathOfParts DEF SomePath
<1>2. /\ path[1] \in Parts /\ Tail(path) \in Seq(Parts)
      /\ Len(Tail(path)) = Len(path) - 1 /\ Len(path) \in Nat /\ Len(path) > 0
      /\ \A i \in 1 .. Len(path) - 1 : Tail(path)[i] = path[i + 1]
  BY <1>1
<1>3. path = <<path[1]>> \o Tail(path)
  BY <1>1, <1>2
<1> QED BY <1>2, <1>3, PathOfParts

LEMMA ChildPlace ==
  ASSUME NEW at \in Places, NEW c \in Names
  PROVE  /\ Append(at, c) \in Places /\ Append(at, c) # <<>>
         /\ Front(Append(at, c)) = at /\ Last(Append(at, c)) = c
         /\ Len(Append(at, c)) = Len(at) + 1
         /\ \A i \in 1 .. Len(at) : Append(at, c)[i] = at[i]
BY DEF Places, Front, Last

\* The next walker, and that the walk is closer to its end.
LEMMA FurtherRight ==
  ASSUME site \in Sites, NEW w \in Walker, NEW how \in Modes,
         w.path # <<>>, ~Lost(w, how)
  PROVE  /\ Further(w, how) \in Walker
         /\ \/ Further(w, how).n < w.n
            \/ Further(w, how).n = w.n /\ Len(Further(w, how).path) < Len(w.path)
<1> DEFINE more == Tail(w.path)
           c == w.path[1]
<1>1. /\ w.at \in Places /\ w.top \in Places /\ w.path \in SomePath /\ w.n \in Nat
      /\ w.path \in Path
  BY DEF Walker, SomePath
<1>2. c \in Parts /\ more \in Path /\ Len(more) < Len(w.path) /\ Len(more) \in Nat
  <2>1. /\ w.path[1] \in Parts /\ Tail(w.path) \in Path
        /\ Len(Tail(w.path)) = Len(w.path) - 1 /\ Len(w.path) \in Nat /\ Len(w.path) > 0
    BY <1>1, FirstAndRest
  <2> HIDE DEF more
  <2>2. more = Tail(w.path)
    BY DEF more
  <2> QED BY <2>1, <2>2
<1>3. <<>> \in Places /\ Front(w.at) \in Places
  BY <1>1 DEF Places, Front
<1> HIDE DEF more, c
<1>4. CASE c = Up
  <2> DEFINE at == IF w.at \in {w.top, <<>>} THEN w.at ELSE Front(w.at)
  <2>1. Further(w, how) = [w EXCEPT !.at = at, !.path = more]
    BY <1>4 DEF Further, c, more
  <2>2. at \in Places
    BY <1>1, <1>3
  <2> HIDE DEF at
  <2>3. Further(w, how) = [at |-> at, top |-> w.top, path |-> more, n |-> w.n]
    BY <2>1 DEF Walker
  <2> QED BY <1>1, <1>2, <2>2, <2>3 DEF Walker
<1>5. CASE c # Up /\ c \notin Names
  <2>1. Further(w, how) = [w EXCEPT !.path = more]
    BY <1>5 DEF Further, c, more
  <2>2. Further(w, how) = [at |-> w.at, top |-> w.top, path |-> more, n |-> w.n]
    BY <2>1 DEF Walker
  <2> QED BY <1>1, <1>2, <2>2 DEF Walker
<1>6. CASE c # Up /\ c \in Names /\ ~Followed(w, how)
  <2>1. Further(w, how) = [w EXCEPT !.at = Child(w), !.path = more]
    BY <1>6 DEF Further, c, more
  <2>2. Child(w) \in Places
    BY <1>1, <1>6, ChildPlace DEF Child, c
  <2>3. Further(w, how) = [at |-> Child(w), top |-> w.top, path |-> more, n |-> w.n]
    BY <2>1 DEF Walker
  <2> QED BY <1>1, <1>2, <2>2, <2>3 DEF Walker
<1>7. CASE c # Up /\ c \in Names /\ Followed(w, how)
  <2> DEFINE text == site.tree[Child(w)].text
             absolute == text[1] = Empty
  <2>1. Child(w) \in DOMAIN site.tree /\ w.n # 0
    BY <1>7 DEF Lost, c
  <2>2. LinkText(text)
    BY <1>7, <2>1, TreeKnown DEF Followed
  <2>3. text \in Path
    BY <2>2 DEF LinkText, SomePath
  <2>4. text \o more \in Path
    BY <1>2, <2>3, PathOfParts
  <2>5. Further(w, how) = [at |-> IF absolute THEN <<>> ELSE w.at,
                           top |-> IF absolute THEN <<>> ELSE w.top,
                           path |-> text \o more, n |-> w.n - 1]
    BY <1>7 DEF Further, c, more
  <2>6. w.n - 1 \in Nat /\ w.n - 1 < w.n
    BY <1>1, <2>1
  <2>7. (IF absolute THEN <<>> ELSE w.at) \in Places /\ (IF absolute THEN <<>> ELSE w.top) \in Places
    BY <1>1, <1>3
  <2> DEFINE x == IF absolute THEN <<>> ELSE w.at
             y == IF absolute THEN <<>> ELSE w.top
             z == text \o more
  <2>8. Further(w, how) = [at |-> x, top |-> y, path |-> z, n |-> w.n - 1]
    BY <2>5
  <2>9. x \in Places /\ y \in Places /\ z \in Path
    BY <2>4, <2>7
  <2> HIDE DEF x, y, z
  <2> QED BY <2>6, <2>8, <2>9 DEF Walker
<1> QED BY <1>4, <1>5, <1>6, <1>7

WalkEnd(w, how) ==
  IF w.path # <<>> /\ Lost(w, how) /\ how # "reach" THEN Nowhere ELSE w.at

LEMMA WalkExists ==
  ASSUME site \in Sites, NEW how \in Modes
  PROVE  \E f : /\ f \in [Walker -> Places \cup {Nowhere}]
                /\ \A w \in Walker :
                     f[w] = IF w.path = <<>> THEN w.at
                            ELSE IF Lost(w, how)
                              THEN IF how = "reach" THEN w.at ELSE Nowhere
                            ELSE f[Further(w, how)]
<1> DEFINE E == {w \in Walker : w.path = <<>> \/ Lost(w, how)}
           V == Places \cup {Nowhere}
           val == [w \in Walker |-> WalkEnd(w, how)]
           nxt == [w \in Walker |-> IF w \in E THEN w ELSE Further(w, how)]
           a == [w \in Walker |-> w.n]
           b == [w \in Walker |-> Len(w.path)]
<1>1. \A w \in Walker : w \in E <=> w.path = <<>> \/ Lost(w, how)
  OBVIOUS
<1>2. E \in SUBSET Walker
  OBVIOUS
<1>3. val \in [Walker -> V] /\ \A w \in Walker : val[w] = WalkEnd(w, how)
  <2>1. ASSUME NEW w \in Walker PROVE WalkEnd(w, how) \in V
    BY DEF WalkEnd, Walker
  <2> QED BY <2>1
<1> HIDE DEF E
<1>4. nxt \in [Walker -> Walker] /\ \A w \in Walker \ E : nxt[w] = Further(w, how)
  <2>1. ASSUME NEW w \in Walker, w \notin E PROVE Further(w, how) \in Walker
    BY <1>1, <2>1, FurtherRight
  <2> QED BY <2>1
<1>5. /\ a \in [Walker -> Nat] /\ b \in [Walker -> Nat]
      /\ \A w \in Walker : a[w] = w.n /\ b[w] = Len(w.path)
  <2>1. \A w \in Walker : w.n \in Nat /\ Len(w.path) \in Nat
    BY PathOfParts DEF Walker
  <2> QED BY <2>1
<1> HIDE DEF val, nxt, a, b, V
<1>6. \A w \in Walker \ E :
        a[nxt[w]] < a[w] \/ (a[nxt[w]] = a[w] /\ b[nxt[w]] < b[w])
  <2> SUFFICES ASSUME NEW w \in Walker, w \notin E
               PROVE  a[nxt[w]] < a[w] \/ (a[nxt[w]] = a[w] /\ b[nxt[w]] < b[w])
    OBVIOUS
  <2>1. w.path # <<>> /\ ~Lost(w, how)
    BY <1>1
  <2>2. /\ Further(w, how) \in Walker
        /\ \/ Further(w, how).n < w.n
           \/ Further(w, how).n = w.n /\ Len(Further(w, how).path) < Len(w.path)
    BY <2>1, FurtherRight
  <2> QED BY <1>4, <1>5, <2>2
<1>7. TailRecursive(Walker, V, E, val, nxt, a, b)
  BY <1>2, <1>3, <1>4, <1>5, <1>6 DEF TailRecursive
<1>8. PICK f \in [Walker -> V] :
        \A w \in Walker : f[w] = IF w \in E THEN val[w] ELSE f[nxt[w]]
  BY <1>7, TailRecursion
<1>9. ASSUME NEW w \in Walker
      PROVE  f[w] = IF w.path = <<>> THEN w.at
                    ELSE IF Lost(w, how)
                      THEN IF how = "reach" THEN w.at ELSE Nowhere
                    ELSE f[Further(w, how)]
  <2>1. CASE w \in E
    <3>1. f[w] = WalkEnd(w, how) /\ (w.path = <<>> \/ Lost(w, how))
      BY <1>1, <1>3, <1>8, <2>1
    <3> QED BY <3>1 DEF WalkEnd
  <2>2. CASE w \notin E
    BY <1>1, <1>4, <1>8, <2>2
  <2> QED BY <2>1, <2>2
<1> QED BY <1>8, <1>9 DEF V

LEMMA Unfold ==
  ASSUME site \in Sites, NEW how \in Modes, NEW w \in Walker
  PROVE  /\ EndOf(w, how) = IF w.path = <<>> THEN w.at
                            ELSE IF Lost(w, how)
                              THEN IF how = "reach" THEN w.at ELSE Nowhere
                            ELSE EndOf(Further(w, how), how)
         /\ w.path # <<>> /\ ~Lost(w, how) => Further(w, how) \in Walker
<1> DEFINE Right(f) == f = [v \in Walker |-> IF v.path = <<>> THEN v.at
                              ELSE IF Lost(v, how)
                                THEN IF how = "reach" THEN v.at ELSE Nowhere
                              ELSE f[Further(v, how)]]
           F == CHOOSE f : Right(f)
<1>1. PICK f \in [Walker -> Places \cup {Nowhere}] :
        \A v \in Walker : f[v] = IF v.path = <<>> THEN v.at
                                 ELSE IF Lost(v, how)
                                   THEN IF how = "reach" THEN v.at ELSE Nowhere
                                 ELSE f[Further(v, how)]
  BY WalkExists
<1>2. Right(F)
  <2>1. Right(f)
    BY <1>1
  <2> HIDE DEF Right
  <2> QED BY <2>1
<1>3. \A v \in Walker : EndOf(v, how) = F[v]
  <2> SUFFICES ASSUME NEW v \in Walker PROVE EndOf(v, how) = F[v]
    OBVIOUS
  <2>1. v = [at |-> v.at, top |-> v.top, path |-> v.path, n |-> v.n]
    BY DEF Walker
  <2>2. EndOf(v, how) = F[[at |-> v.at, top |-> v.top, path |-> v.path, n |-> v.n]]
    BY DEF EndOf, WalkPath
  <2> HIDE DEF F
  <2> QED BY <2>1, <2>2
<1> HIDE DEF F
<1>4. \A v \in Walker : F[v] = IF v.path = <<>> THEN v.at
                               ELSE IF Lost(v, how)
                                 THEN IF how = "reach" THEN v.at ELSE Nowhere
                               ELSE F[Further(v, how)]
  BY <1>2
<1>5. w.path # <<>> /\ ~Lost(w, how) => Further(w, how) \in Walker
  BY FurtherRight
<1> QED BY <1>3, <1>4, <1>5

\* What holds where walks end, when walkers stay among the good ones.
LEMMA WalkEndsIn ==
  ASSUME site \in Sites, NEW how \in Modes, NEW G, NEW R, G \in SUBSET Walker,
         \A w \in G : w.path # <<>> /\ ~Lost(w, how) => Further(w, how) \in G,
         \A w \in G : w.path = <<>> \/ Lost(w, how) => WalkEnd(w, how) \in R
  PROVE  \A w \in G : EndOf(w, how) \in R
<1> DEFINE T == {w \in G : EndOf(w, how) \notin R}
           a == [w \in Walker |-> w.n]
           b == [w \in Walker |-> Len(w.path)]
<1>1. /\ a \in [Walker -> Nat] /\ b \in [Walker -> Nat]
      /\ \A w \in Walker : a[w] = w.n /\ b[w] = Len(w.path)
  <2>1. \A w \in Walker : w.n \in Nat /\ Len(w.path) \in Nat
    BY PathOfParts DEF Walker
  <2> QED BY <2>1
<1> HIDE DEF a, b
<1>2. T = {}
  <2> SUFFICES ASSUME T # {} PROVE FALSE
    OBVIOUS
  <2>1. T \in SUBSET Walker
    OBVIOUS
  <2>2. PICK w \in T : \A v \in T : ~ (a[v] < a[w] \/ (a[v] = a[w] /\ b[v] < b[w]))
    <3>1. a \in [Walker -> Nat] /\ b \in [Walker -> Nat]
      BY <1>1
    <3>2. T # {}
      OBVIOUS
    <3> HIDE DEF T
    <3>3. Ranked(Walker, T, a, b)
      BY <2>1, <3>1, <3>2 DEF Ranked
    <3> QED BY <3>3, LexLeast
  <2>3. w \in G /\ w \in Walker /\ EndOf(w, how) \notin R
    OBVIOUS
  <2>4. CASE w.path = <<>> \/ Lost(w, how)
    <3>1. EndOf(w, how) = WalkEnd(w, how)
      BY <2>3, <2>4, Unfold DEF WalkEnd
    <3> QED BY <2>3, <2>4, <3>1
  <2>5. CASE w.path # <<>> /\ ~Lost(w, how)
    <3> DEFINE u == Further(w, how)
    <3>1. /\ u \in Walker /\ u \in G
          /\ u.n < w.n \/ (u.n = w.n /\ Len(u.path) < Len(w.path))
      BY <2>3, <2>5, FurtherRight
    <3>2. EndOf(w, how) = EndOf(u, how)
      BY <2>3, <2>5, Unfold
    <3> HIDE DEF u
    <3>3. u \in T
      BY <2>3, <3>1, <3>2
    <3>4. a[u] < a[w] \/ (a[u] = a[w] /\ b[u] < b[w])
      BY <1>1, <2>3, <3>1
    <3> HIDE DEF T
    <3> QED BY <2>2, <3>3, <3>4
  <2> QED BY <2>4, <2>5
<1> QED BY <1>2

LEMMA EndPlace ==
  ASSUME site \in Sites, NEW how \in Modes, NEW w \in Walker
  PROVE  EndOf(w, how) \in Places \cup {Nowhere}
<1>1. \A v \in Walker : v.path # <<>> /\ ~Lost(v, how) => Further(v, how) \in Walker
  BY FurtherRight
<1>2. \A v \in Walker : WalkEnd(v, how) \in Places \cup {Nowhere}
  BY DEF WalkEnd, Walker
<1> QED BY <1>1, <1>2, WalkEndsIn

LEMMA WalkDone ==
  ASSUME site \in Sites, NEW how \in Modes, NEW at \in Places, NEW top \in Places,
         NEW n \in Nat
  PROVE  WalkPath(at, top, <<>>, n, how) = at
<1> DEFINE w == [at |-> at, top |-> top, path |-> <<>>, n |-> n]
<1>1. <<>> \in Path
  BY PathOfParts
<1>2. w \in Walker
  BY <1>1 DEF Walker
<1>3. EndOf(w, how) = w.at
  BY <1>2, Unfold
<1> QED BY <1>3 DEF EndOf

\* What a walk does with its first component.
LEMMA Steps ==
  ASSUME site \in Sites, NEW how \in Modes, NEW at \in Places, NEW top \in Places,
         NEW path \in SomePath, NEW n \in Nat
  PROVE  LET c == path[1]
             more == Tail(path)
             child == Append(at, c)
             text == site.tree[child].text
             goes == WalkPath(at, top, path, n, how)
         IN  /\ c = Up =>
                  goes = WalkPath(IF at \in {top, <<>>} THEN at ELSE Front(at), top,
                                  more, n, how)
             /\ c # Up /\ c \notin Names /\ Kind(at) = "dir" =>
                  goes = WalkPath(at, top, more, n, how)
             /\ c \in Names /\ Kind(at) = "dir" /\ child \in DOMAIN site.tree
                  /\ (Kind(child) # "link" \/ (more = <<>> /\ how = "lstat")) =>
                  goes = WalkPath(child, top, more, n, how)
             /\ c \in Names /\ Kind(at) = "dir" /\ child \in DOMAIN site.tree
                  /\ Kind(child) = "link" /\ (more # <<>> \/ how # "lstat") /\ n > 0 =>
                  goes = WalkPath(IF text[1] = Empty THEN <<>> ELSE at,
                                  IF text[1] = Empty THEN <<>> ELSE top,
                                  text \o more, n - 1, how)
             /\ c # Up /\ (Kind(at) # "dir" \/ (c \in Names /\ child \notin DOMAIN site.tree)) =>
                  goes = IF how = "reach" THEN at ELSE Nowhere
<1> DEFINE c == path[1]
           more == Tail(path)
           child == Append(at, c)
           text == site.tree[child].text
           goes == WalkPath(at, top, path, n, how)
           w == [at |-> at, top |-> top, path |-> path, n |-> n]
<1>1. path \in Path /\ path # <<>>
  BY DEF SomePath
<1>2. w \in Walker
  BY <1>1 DEF Walker
<1>3. /\ w.path # <<>>
      /\ EndOf(w, how) = IF Lost(w, how) THEN IF how = "reach" THEN w.at ELSE Nowhere
                         ELSE EndOf(Further(w, how), how)
  BY <1>1, <1>2, Unfold
<1>4. w.path[1] = c /\ w.at = at /\ w.top = top /\ w.n = n /\ Tail(w.path) = more
      /\ Child(w) = child /\ EndOf(w, how) = goes
  BY DEF Child, EndOf
<1>5. Followed(w, how) <=> Kind(child) = "link" /\ (more # <<>> \/ how # "lstat")
  BY <1>4 DEF Followed
<1>6. Lost(w, how) <=> /\ c # Up
                       /\ \/ Kind(at) # "dir"
                          \/ /\ c \in Names
                             /\ \/ child \notin DOMAIN site.tree
                                \/ Followed(w, how) /\ n = 0
  BY <1>4 DEF Lost
<1>7. Up \notin Names
  BY NamesAssumption
<1>8. ASSUME c = Up
      PROVE  goes = WalkPath(IF at \in {top, <<>>} THEN at ELSE Front(at), top, more, n, how)
  <2> DEFINE x == IF at \in {top, <<>>} THEN at ELSE Front(at)
  <2>1. Further(w, how) = [w EXCEPT !.at = x, !.path = more]
    BY <1>4, <1>8 DEF Further
  <2> HIDE DEF x
  <2>2. Further(w, how) = [at |-> x, top |-> top, path |-> more, n |-> n]
    BY <2>1
  <2> HIDE DEF w, more, child
  <2>3. EndOf(Further(w, how), how) = WalkPath(x, top, more, n, how)
    BY <2>2 DEF EndOf
  <2> HIDE DEF w, goes, c
  <2> QED BY <1>3, <1>4, <1>6, <1>8, <2>3 DEF x
<1>9. ASSUME c # Up, c \notin Names, Kind(at) = "dir"
      PROVE  goes = WalkPath(at, top, more, n, how)
  <2>1. Further(w, how) = [w EXCEPT !.path = more]
    BY <1>4, <1>9 DEF Further
  <2>2. Further(w, how) = [at |-> at, top |-> top, path |-> more, n |-> n]
    BY <2>1
  <2> HIDE DEF w, more, child
  <2>3. EndOf(Further(w, how), how) = WalkPath(at, top, more, n, how)
    BY <2>2 DEF EndOf
  <2> HIDE DEF w, goes, c
  <2> QED BY <1>3, <1>4, <1>6, <1>9, <2>3
<1>10. ASSUME c \in Names, Kind(at) = "dir", child \in DOMAIN site.tree,
              Kind(child) # "link" \/ (more = <<>> /\ how = "lstat")
       PROVE  goes = WalkPath(child, top, more, n, how)
  <2>1. Further(w, how) = [w EXCEPT !.at = child, !.path = more]
    <3>1. ~Followed(w, how) /\ c # Up
      BY <1>5, <1>7, <1>10
    <3> QED BY <1>4, <1>10, <3>1 DEF Further
  <2>2. Further(w, how) = [at |-> child, top |-> top, path |-> more, n |-> n]
    BY <2>1
  <2> HIDE DEF w, more, child
  <2>3. EndOf(Further(w, how), how) = WalkPath(child, top, more, n, how)
    BY <2>2 DEF EndOf
  <2> HIDE DEF w, goes, c, child, more
  <2> QED BY <1>3, <1>4, <1>5, <1>6, <1>10, <2>3
<1>11. ASSUME c \in Names, Kind(at) = "dir", child \in DOMAIN site.tree,
              Kind(child) = "link", more # <<>> \/ how # "lstat", n > 0
       PROVE  goes = WalkPath(IF text[1] = Empty THEN <<>> ELSE at,
                              IF text[1] = Empty THEN <<>> ELSE top,
                              text \o more, n - 1, how)
  <2>1. Followed(w, how) /\ c # Up
    BY <1>5, <1>7, <1>11
  <2> DEFINE x == IF text[1] = Empty THEN <<>> ELSE at
             y == IF text[1] = Empty THEN <<>> ELSE top
             z == text \o more
  <2>2. Further(w, how) = [at |-> x, top |-> y, path |-> z, n |-> n - 1]
    BY <1>4, <1>11, <2>1 DEF Further
  <2> HIDE DEF x, y, z
  <2>3. EndOf(Further(w, how), how) = WalkPath(x, y, z, n - 1, how)
    BY <2>2 DEF EndOf
  <2>4. ~Lost(w, how)
    <3> HIDE DEF w, c, child, more
    <3> QED BY <1>6, <1>11
  <2>5. goes = WalkPath(x, y, z, n - 1, how)
    <3> HIDE DEF w, goes
    <3> QED BY <1>3, <1>4, <2>3, <2>4
  <2> QED BY <2>5 DEF x, y, z
<1>12. ASSUME c # Up, Kind(at) # "dir" \/ (c \in Names /\ child \notin DOMAIN site.tree)
       PROVE  goes = IF how = "reach" THEN at ELSE Nowhere
  <2> HIDE DEF w, goes, c, child
  <2> QED BY <1>3, <1>4, <1>6, <1>12
<1> HIDE DEF w, goes, c, child, more, text
<1>13. /\ c = Up =>
            goes = WalkPath(IF at \in {top, <<>>} THEN at ELSE Front(at), top,
                            more, n, how)
       /\ c # Up /\ c \notin Names /\ Kind(at) = "dir" =>
            goes = WalkPath(at, top, more, n, how)
  BY <1>8, <1>9
<1>14. /\ c \in Names /\ Kind(at) = "dir" /\ child \in DOMAIN site.tree
            /\ (Kind(child) # "link" \/ (more = <<>> /\ how = "lstat")) =>
            goes = WalkPath(child, top, more, n, how)
  BY <1>10
<1>15. /\ c \in Names /\ Kind(at) = "dir" /\ child \in DOMAIN site.tree
            /\ Kind(child) = "link" /\ (more # <<>> \/ how # "lstat") /\ n > 0 =>
            goes = WalkPath(IF text[1] = Empty THEN <<>> ELSE at,
                            IF text[1] = Empty THEN <<>> ELSE top,
                            text \o more, n - 1, how)
  BY <1>11
<1>16. c # Up /\ (Kind(at) # "dir" \/ (c \in Names /\ child \notin DOMAIN site.tree)) =>
         goes = IF how = "reach" THEN at ELSE Nowhere
  BY <1>12
<1> QED BY <1>13, <1>14, <1>15, <1>16, Zenon DEF goes, c, child, more, text

LEMMA StepUp ==
  ASSUME site \in Sites, NEW how \in Modes, NEW at \in Places, NEW top \in Places,
         NEW path \in SomePath, NEW n \in Nat, path[1] = Up
  PROVE  WalkPath(at, top, path, n, how)
           = WalkPath(IF at \in {top, <<>>} THEN at ELSE Front(at), top,
                      Tail(path), n, how)
BY Steps

LEMMA StepStay ==
  ASSUME site \in Sites, NEW how \in Modes, NEW at \in Places, NEW top \in Places,
         NEW path \in SomePath, NEW n \in Nat,
         path[1] # Up, path[1] \notin Names, Kind(at) = "dir"
  PROVE  WalkPath(at, top, path, n, how) = WalkPath(at, top, Tail(path), n, how)
BY Steps

LEMMA StepInto ==
  ASSUME site \in Sites, NEW how \in Modes, NEW at \in Places, NEW top \in Places,
         NEW path \in SomePath, NEW n \in Nat,
         path[1] \in Names, Kind(at) = "dir", Append(at, path[1]) \in DOMAIN site.tree,
         Kind(Append(at, path[1])) # "link" \/ (Tail(path) = <<>> /\ how = "lstat")
  PROVE  WalkPath(at, top, path, n, how)
           = WalkPath(Append(at, path[1]), top, Tail(path), n, how)
BY Steps

LEMMA StepLink ==
  ASSUME site \in Sites, NEW how \in Modes, NEW at \in Places, NEW top \in Places,
         NEW path \in SomePath, NEW n \in Nat,
         path[1] \in Names, Kind(at) = "dir", Append(at, path[1]) \in DOMAIN site.tree,
         Kind(Append(at, path[1])) = "link", how # "lstat", n > 0
  PROVE  LET text == site.tree[Append(at, path[1])].text
         IN  WalkPath(at, top, path, n, how)
               = WalkPath(IF text[1] = Empty THEN <<>> ELSE at,
                          IF text[1] = Empty THEN <<>> ELSE top,
                          text \o Tail(path), n - 1, how)
BY Steps

LEMMA StepLost ==
  ASSUME site \in Sites, NEW how \in Modes, NEW at \in Places, NEW top \in Places,
         NEW path \in SomePath, NEW n \in Nat, path[1] # Up,
         Kind(at) # "dir" \/ (path[1] \in Names /\ Append(at, path[1]) \notin DOMAIN site.tree)
  PROVE  WalkPath(at, top, path, n, how) = IF how = "reach" THEN at ELSE Nowhere
BY Steps

LEMMA OneComponent ==
  ASSUME NEW c \in Parts
  PROVE  /\ <<c>> \in SomePath /\ <<c>>[1] = c /\ Tail(<<c>>) = <<>> /\ <<c>> # <<>>
         /\ \A q \in Path : /\ <<c>> \o q \in SomePath /\ (<<c>> \o q)[1] = c
                            /\ Tail(<<c>> \o q) = q
<1>1. <<c>> \in Seq(Parts) /\ <<c>>[1] = c /\ Tail(<<c>>) = <<>> /\ <<c>> # <<>>
  OBVIOUS
<1>2. ASSUME NEW q \in Seq(Parts)
      PROVE  /\ <<c>> \o q \in Seq(Parts) /\ (<<c>> \o q)[1] = c
             /\ Tail(<<c>> \o q) = q /\ <<c>> \o q # <<>>
  OBVIOUS
<1> QED BY <1>1, <1>2, PathOfParts DEF SomePath

\* Where the trail p of directories leads; with no trail, where q begins.
At(p, q) == IF p = <<>> THEN Base(q) ELSE Lstat(p)

\* A path without links and without ".." that is there.
Trail(p) ==
  /\ p \in Path
  /\ \A k \in 1 .. Len(p) : /\ p[k] # Up
                            /\ Lstat(SubSeq(p, 1, k)) # Nowhere
                            /\ Kind(Lstat(SubSeq(p, 1, k))) # "link"

\* What goes on behind p is a walk from where p leads.
Leads(p) ==
  /\ p \in Path
  /\ \A q \in SomePath :
       /\ At(p, q) \in DOMAIN site.tree /\ Kind(At(p, q)) # "link"
       /\ IsPrefix(Base(p \o q), At(p, q))
       /\ \A how \in Modes :
            Kernel(p \o q, how) = WalkPath(At(p, q), <<>>, q, MAX_LINKS, how)

LEMMA PrefixMore ==
  ASSUME NEW a \in Places, NEW b \in Places, IsPrefix(a, b), NEW c \in Names
  PROVE  IsPrefix(a, Append(b, c))
<1>1. Len(a) \in Nat /\ Len(b) \in Nat /\ Len(a) <= Len(b)
      /\ SubSeq(a, 1, Len(a)) = SubSeq(b, 1, Len(a))
  BY DEF IsPrefix, Places
<1>2. SubSeq(Append(b, c), 1, Len(a)) = SubSeq(b, 1, Len(a))
  <2> DEFINE x == SubSeq(Append(b, c), 1, Len(a))
             y == SubSeq(b, 1, Len(a))
  <2>1. /\ x \in Seq(Names) /\ y \in Seq(Names) /\ Len(x) = Len(a) /\ Len(y) = Len(a)
        /\ \A i \in 1 .. Len(a) : x[i] = Append(b, c)[i] /\ y[i] = b[i]
    BY <1>1 DEF Places
  <2>2. \A i \in 1 .. Len(a) : Append(b, c)[i] = b[i]
    BY <1>1 DEF Places
  <2> HIDE DEF x, y
  <2>3. x = y
    BY <2>1, <2>2, SeqEqual
  <2> QED BY <2>3 DEF x, y
<1>3. Len(Append(b, c)) = Len(b) + 1
  BY DEF Places
<1> QED BY <1>1, <1>2, <1>3 DEF IsPrefix

LEMMA PrefixSelf ==
  ASSUME NEW a \in Places PROVE IsPrefix(a, a) /\ IsPrefix(<<>>, a)
BY DEF IsPrefix, Places

LEMMA BasePlace ==
  ASSUME site \in Sites, NEW q
  PROVE  /\ Base(q) \in DOMAIN site.tree /\ Kind(Base(q)) = "dir" /\ Base(q) \in Places
BY RootsKnown DEF Base

LEMMA LeadsNone ==
  ASSUME site \in Sites PROVE Leads(<<>>)
<1> SUFFICES ASSUME NEW q \in SomePath
             PROVE  /\ At(<<>>, q) \in DOMAIN site.tree /\ Kind(At(<<>>, q)) # "link"
                    /\ IsPrefix(Base(<<>> \o q), At(<<>>, q))
                    /\ \A how \in Modes :
                         Kernel(<<>> \o q, how)
                           = WalkPath(At(<<>>, q), <<>>, q, MAX_LINKS, how)
  BY PathOfParts DEF Leads
<1>1. <<>> \o q = q /\ q # <<>>
  BY PathOfParts DEF SomePath
<1>2. At(<<>>, q) = Base(q)
  BY DEF At
<1> QED BY <1>1, <1>2, BasePlace, PrefixSelf DEF Kernel

\* Empty leads nowhere else than to the root, and Dot stays where it is: one
\* component more behind a trail.
LEMMA LeadsStep ==
  ASSUME site \in Sites, NEW r, Leads(r), NEW c \in Parts, c # Up,
         Lstat(Append(r, c)) # Nowhere, Kind(Lstat(Append(r, c))) # "link"
  PROVE  LET a == At(r, <<c>>)
         IN  /\ Leads(Append(r, c))
             /\ Kind(a) = "dir"
             /\ Lstat(Append(r, c)) = IF c \in Names THEN Append(a, c) ELSE a
             /\ c \in Names => Append(a, c) \in DOMAIN site.tree
             /\ Base(r \o <<c>>) \in Places /\ IsPrefix(Base(r \o <<c>>), a)
<1> DEFINE a == At(r, <<c>>)
           b == Lstat(Append(r, c))
<1>1. r \in Path /\ r \in Seq(Parts) /\ MAX_LINKS \in Nat /\ <<>> \in Places
  BY PathOfParts, RootsKnown, SiteAssumption DEF Leads
<1>2. /\ <<c>> \in SomePath /\ <<c>>[1] = c /\ Tail(<<c>>) = <<>> /\ <<c>> # <<>>
      /\ \A q \in Path : /\ <<c>> \o q \in SomePath /\ (<<c>> \o q)[1] = c
                         /\ Tail(<<c>> \o q) = q
  BY OneComponent
<1>3. Append(r, c) = r \o <<c>>
  BY <1>1
<1>4. /\ a \in DOMAIN site.tree /\ Kind(a) # "link" /\ IsPrefix(Base(r \o <<c>>), a)
      /\ \A how \in Modes :
           Kernel(r \o <<c>>, how) = WalkPath(a, <<>>, <<c>>, MAX_LINKS, how)
  BY <1>2 DEF Leads
<1>5. a \in Places
  BY <1>4, TreeKnown
<1>6. b = WalkPath(a, <<>>, <<c>>, MAX_LINKS, "lstat")
  BY <1>3, <1>4 DEF Modes, Lstat
<1>7. b # Nowhere /\ Kind(b) # "link"
  OBVIOUS
<1> DEFINE w == WalkPath(a, <<>>, <<c>>, MAX_LINKS, "lstat")
<1> HIDE DEF a, b
<1>8. /\ c \notin Names /\ Kind(a) = "dir" => w = WalkPath(a, <<>>, <<>>, MAX_LINKS, "lstat")
      /\ c \in Names /\ Kind(a) = "dir" /\ Append(a, c) \in DOMAIN site.tree =>
           w = WalkPath(Append(a, c), <<>>, <<>>, MAX_LINKS, "lstat")
      /\ Kind(a) # "dir" \/ (c \in Names /\ Append(a, c) \notin DOMAIN site.tree) =>
           w = Nowhere
  <2>1. "lstat" \in Modes /\ "lstat" # "reach"
    BY DEF Modes
  <2> HIDE DEF w
  <2> DEFINE s == <<c>>
  <2> HIDE DEF s
  <2>2. s \in SomePath /\ s[1] = c /\ Tail(s) = <<>> /\ w = WalkPath(a, <<>>, s, MAX_LINKS, "lstat")
    BY <1>2 DEF s, w
  <2>3. ASSUME c \notin Names, Kind(a) = "dir"
        PROVE  w = WalkPath(a, <<>>, <<>>, MAX_LINKS, "lstat")
    <3>1. PICK how \in Modes : how = "lstat"
      BY <2>1
    <3>2. s \in SomePath /\ s[1] # Up /\ s[1] \notin Names /\ Kind(a) = "dir"
      BY <2>2, <2>3
    <3>3. WalkPath(a, <<>>, s, MAX_LINKS, how) = WalkPath(a, <<>>, Tail(s), MAX_LINKS, how)
      BY <1>1, <1>5, <3>2, StepStay
    <3> QED BY <2>2, <3>1, <3>3
  <2>4. ASSUME c \in Names, Kind(a) = "dir", Append(a, c) \in DOMAIN site.tree
        PROVE  w = WalkPath(Append(a, c), <<>>, <<>>, MAX_LINKS, "lstat")
    <3>1. PICK how \in Modes : how = "lstat"
      BY <2>1
    <3>3. /\ s[1] \in Names /\ Append(a, s[1]) \in DOMAIN site.tree
          /\ Kind(Append(a, s[1])) # "link" \/ (Tail(s) = <<>> /\ how = "lstat")
      BY <2>2, <2>4, <3>1
    <3>4. s \in SomePath /\ Kind(a) = "dir"
      BY <2>2, <2>4
    <3>5. WalkPath(a, <<>>, s, MAX_LINKS, how)
            = WalkPath(Append(a, s[1]), <<>>, Tail(s), MAX_LINKS, how)
      BY <1>1, <1>5, <3>3, <3>4, StepInto
    <3>2. WalkPath(a, <<>>, s, MAX_LINKS, how)
            = WalkPath(Append(a, c), <<>>, <<>>, MAX_LINKS, how)
      BY <2>2, <3>5
    <3> QED BY <2>2, <3>1, <3>2
  <2>5. ASSUME Kind(a) # "dir" \/ (c \in Names /\ Append(a, c) \notin DOMAIN site.tree)
        PROVE  w = Nowhere
    BY <1>1, <1>5, <2>1, <2>2, <2>5, StepLost
  <2> QED BY <2>3, <2>4, <2>5
<1> HIDE DEF w
<1>9. Kind(a) = "dir" /\ (c \in Names => Append(a, c) \in DOMAIN site.tree)
  BY <1>6, <1>7, <1>8 DEF w
<1>10. b = IF c \in Names THEN Append(a, c) ELSE a
  <2>1. "lstat" \in Modes /\ MAX_LINKS \in Nat
    BY <1>1 DEF Modes
  <2>2. CASE c \in Names
    <3>1. Append(a, c) \in Places
      BY <1>5, <2>2, ChildPlace
    <3>2. WalkPath(Append(a, c), <<>>, <<>>, MAX_LINKS, "lstat") = Append(a, c)
      BY <1>1, <2>1, <3>1, WalkDone
    <3> QED BY <1>6, <1>8, <1>9, <2>2, <3>2 DEF w
  <2>3. CASE c \notin Names
    <3>1. WalkPath(a, <<>>, <<>>, MAX_LINKS, "lstat") = a
      BY <1>1, <1>5, <2>1, WalkDone
    <3> QED BY <1>6, <1>8, <1>9, <2>3, <3>1 DEF w
  <2> QED BY <2>2, <2>3
<1>11. Base(r \o <<c>>) \in Places
  BY BasePlace
<1>12. IsPrefix(Base(r \o <<c>>), b) /\ b \in DOMAIN site.tree
  BY <1>4, <1>5, <1>9, <1>10, <1>11, PrefixMore
<1>13. ASSUME NEW q \in SomePath
       PROVE  /\ At(Append(r, c), q) = b
              /\ Base(Append(r, c) \o q) = Base(r \o <<c>>)
              /\ \A how \in Modes :
                   Kernel(Append(r, c) \o q, how) = WalkPath(b, <<>>, q, MAX_LINKS, how)
  <2>1. q \in Path /\ q \in Seq(Parts)
    BY PathOfParts DEF SomePath
  <2>2. Append(r, c) # <<>>
    BY <1>1
  <2>3. Append(r, c) \o q = r \o (<<c>> \o q)
    BY <1>1, <2>1
  <2>4. /\ (r \o (<<c>> \o q))[1] = (r \o <<c>>)[1]
        /\ r \o (<<c>> \o q) # <<>> /\ r \o <<c>> # <<>>
    BY <1>1, <2>1
  <2>5. Base(Append(r, c) \o q) = Base(r \o <<c>>)
    BY <2>3, <2>4 DEF Base
  <2>6. At(Append(r, c), q) = b
    BY <2>2 DEF At, b
  <2>7. At(r, <<c>> \o q) = a
    <3>1. <<c>> \o q # <<>> /\ (<<c>> \o q)[1] = <<c>>[1]
      BY <1>2, <2>1 DEF SomePath
    <3>2. Base(<<c>> \o q) = Base(<<c>>)
      BY <1>2, <3>1 DEF Base
    <3> QED BY <3>2 DEF At, a
  <2>8. ASSUME NEW how \in Modes
        PROVE  Kernel(Append(r, c) \o q, how) = WalkPath(b, <<>>, q, MAX_LINKS, how)
    <3>1. <<c>> \o q \in SomePath /\ (<<c>> \o q)[1] = c /\ Tail(<<c>> \o q) = q
      BY <1>2, <2>1
    <3> DEFINE s == <<c>> \o q
    <3> HIDE DEF s
    <3>2. s \in SomePath /\ s[1] = c /\ Tail(s) = q
      BY <3>1 DEF s
    <3>3. Kernel(r \o s, how) = WalkPath(a, <<>>, s, MAX_LINKS, how)
      BY <2>7, <3>2 DEF Leads, s
    <3>5. WalkPath(a, <<>>, s, MAX_LINKS, how) = WalkPath(b, <<>>, q, MAX_LINKS, how)
      <4>1. CASE c \in Names
        <5>1. WalkPath(a, <<>>, s, MAX_LINKS, how)
                = WalkPath(Append(a, c), <<>>, q, MAX_LINKS, how)
          <6>1. /\ s[1] \in Names /\ Kind(a) = "dir" /\ Append(a, s[1]) \in DOMAIN site.tree
                /\ s \in SomePath /\ Kind(Append(a, s[1])) # "link"
            BY <1>7, <1>9, <1>10, <3>2, <4>1
          <6>2. WalkPath(a, <<>>, s, MAX_LINKS, how)
                  = WalkPath(Append(a, s[1]), <<>>, Tail(s), MAX_LINKS, how)
            BY <1>1, <1>5, <6>1, StepInto
          <6> QED BY <3>2, <6>2
        <5> QED BY <1>10, <4>1, <5>1
      <4>2. CASE c \notin Names
        <5>1. WalkPath(a, <<>>, s, MAX_LINKS, how) = WalkPath(a, <<>>, q, MAX_LINKS, how)
          BY <1>1, <1>5, <1>9, <3>2, <4>2, StepStay
        <5> QED BY <1>10, <4>2, <5>1
      <4> QED BY <4>1, <4>2
    <3> QED BY <2>3, <3>3, <3>5 DEF s
  <2> QED BY <2>5, <2>6, <2>8
<1>14. Append(r, c) \in Path
  BY <1>1, PathOfParts
<1>15. Leads(Append(r, c))
  BY <1>7, <1>12, <1>13, <1>14 DEF Leads
<1> QED BY <1>4, <1>9, <1>10, <1>11, <1>15 DEF a, b

LEMMA TrailLeads ==
  ASSUME site \in Sites, NEW p, Trail(p)
  PROVE  \A k \in 0 .. Len(p) : Leads(SubSeq(p, 1, k))
<1> DEFINE n == Len(p)
           P == {k \in 0 .. n : Leads(SubSeq(p, 1, k))}
<1>1. p \in Seq(Parts) /\ n \in Nat
  BY PathOfParts DEF Trail
<1>2. 0 \in P
  <2>1. SubSeq(p, 1, 0) = <<>>
    BY <1>1
  <2>2. Leads(SubSeq(p, 1, 0))
    BY <2>1, LeadsNone
  <2> QED BY <1>1, <2>2
<1>3. ASSUME NEW k \in 1 .. n, k - 1 \in P PROVE k \in P
  <2> DEFINE r == SubSeq(p, 1, k - 1)
             s == SubSeq(p, 1, k)
  <2>1. k - 1 \in 0 .. Len(p) - 1 /\ (k - 1) + 1 = k
    BY <1>1
  <2>2. Append(SubSeq(p, 1, k - 1), p[(k - 1) + 1]) = SubSeq(p, 1, (k - 1) + 1)
    BY <1>1, <2>1, SubSeqMore
  <2>3. Append(r, p[k]) = s
    BY <2>1, <2>2
  <2>4. p[k] \in Parts /\ p[k] # Up /\ Lstat(s) # Nowhere /\ Kind(Lstat(s)) # "link"
    BY <1>1 DEF Trail
  <2>5. Leads(r)
    BY <1>3
  <2> HIDE DEF r, s
  <2>6. Leads(s)
    BY <2>3, <2>4, <2>5, LeadsStep
  <2> QED BY <2>6 DEF s
<1>4. Inductive(P, n)
  <2> HIDE DEF P, n
  <2> QED BY <1>2, <1>3 DEF Inductive
<1>5. \A k \in 0 .. n : k \in P
  <2> HIDE DEF P, n
  <2> QED BY <1>1, <1>4, CountUp
<1> QED BY <1>5

\* What lstat says of one component more behind a trail.
LEMMA LstatBehind ==
  ASSUME site \in Sites, NEW p, Leads(p), NEW c \in Parts, c # Up
  PROVE  LET a == At(p, <<c>>)
         IN  /\ a \in Places /\ a \in DOMAIN site.tree /\ Kind(a) # "link"
             /\ Lstat(Append(p, c))
                  = IF Kind(a) # "dir" \/ (c \in Names /\ Append(a, c) \notin DOMAIN site.tree)
                      THEN Nowhere
                    ELSE IF c \in Names THEN Append(a, c) ELSE a
<1> DEFINE a == At(p, <<c>>)
           b == Lstat(Append(p, c))
           s == <<c>>
<1>1. p \in Path /\ p \in Seq(Parts) /\ MAX_LINKS \in Nat /\ <<>> \in Places
  BY PathOfParts, RootsKnown, SiteAssumption DEF Leads
<1>2. s \in SomePath /\ s[1] = c /\ Tail(s) = <<>> /\ s # <<>>
  BY OneComponent
<1>3. Append(p, c) = p \o s
  BY <1>1
<1>4. PICK how \in Modes : how = "lstat" /\ how # "reach"
  BY DEF Modes
<1>5. /\ a \in DOMAIN site.tree /\ Kind(a) # "link"
      /\ Kernel(p \o s, how) = WalkPath(a, <<>>, s, MAX_LINKS, how)
  BY <1>2 DEF Leads
<1>6. a \in Places
  BY <1>5, TreeKnown
<1>7. b = WalkPath(a, <<>>, s, MAX_LINKS, how)
  BY <1>3, <1>4, <1>5 DEF Lstat
<1> HIDE DEF a, b, s
<1>8. ASSUME Kind(a) # "dir" \/ (c \in Names /\ Append(a, c) \notin DOMAIN site.tree)
      PROVE  b = Nowhere
  <2>1. /\ s[1] # Up
        /\ Kind(a) # "dir" \/ (s[1] \in Names /\ Append(a, s[1]) \notin DOMAIN site.tree)
    BY <1>2, <1>8
  <2>2. WalkPath(a, <<>>, s, MAX_LINKS, how) = IF how = "reach" THEN a ELSE Nowhere
    BY <1>1, <1>2, <1>6, <2>1, StepLost
  <2> QED BY <1>4, <1>7, <2>2
<1>9. ASSUME Kind(a) = "dir", c \in Names, Append(a, c) \in DOMAIN site.tree
      PROVE  b = Append(a, c)
  <2>1. /\ s[1] \in Names /\ Append(a, s[1]) \in DOMAIN site.tree
        /\ Kind(Append(a, s[1])) # "link" \/ (Tail(s) = <<>> /\ how = "lstat")
        /\ Kind(a) = "dir"
    BY <1>2, <1>4, <1>9
  <2>2. WalkPath(a, <<>>, s, MAX_LINKS, how)
          = WalkPath(Append(a, s[1]), <<>>, Tail(s), MAX_LINKS, how)
    BY <1>1, <1>2, <1>6, <2>1, StepInto
  <2>3. Append(a, c) \in Places
    BY <1>6, <1>9, ChildPlace
  <2>4. WalkPath(Append(a, c), <<>>, <<>>, MAX_LINKS, how) = Append(a, c)
    BY <1>1, <2>3, WalkDone
  <2> QED BY <1>2, <1>7, <2>2, <2>4
<1>10. ASSUME Kind(a) = "dir", c \notin Names
       PROVE  b = a
  <2>1. s[1] # Up /\ s[1] \notin Names /\ Kind(a) = "dir"
    BY <1>2, <1>10
  <2>2. WalkPath(a, <<>>, s, MAX_LINKS, how) = WalkPath(a, <<>>, Tail(s), MAX_LINKS, how)
    BY <1>1, <1>2, <1>6, <2>1, StepStay
  <2>4. WalkPath(a, <<>>, <<>>, MAX_LINKS, how) = a
    BY <1>1, <1>6, WalkDone
  <2> QED BY <1>2, <1>7, <2>2, <2>4
<1>11. b = IF Kind(a) # "dir" \/ (c \in Names /\ Append(a, c) \notin DOMAIN site.tree)
             THEN Nowhere ELSE IF c \in Names THEN Append(a, c) ELSE a
  BY <1>8, <1>9, <1>10
<1> QED BY <1>5, <1>6, <1>11 DEF a, b, s

LEMMA TrailStarts ==
  ASSUME NEW p, Trail(p), NEW k \in 0 .. Len(p)
  PROVE  Trail(SubSeq(p, 1, k))
<1> DEFINE r == SubSeq(p, 1, k)
<1>1. p \in Seq(Parts) /\ Len(p) \in Nat
  BY PathOfParts DEF Trail
<1>2. r \in Path /\ Len(r) = k
  BY <1>1, PathOfParts
<1>3. ASSUME NEW i \in 1 .. k PROVE r[i] = p[i] /\ SubSeq(r, 1, i) = SubSeq(p, 1, i) /\ i \in 1 .. Len(p)
  <2> DEFINE x == SubSeq(r, 1, i)
             y == SubSeq(p, 1, i)
  <2>1. \A j \in 1 .. k : r[j] = p[j]
    BY <1>1
  <2>2. r \in Seq(Parts)
    BY <1>2, PathOfParts
  <2> HIDE DEF r
  <2>3. /\ x \in Seq(Parts) /\ Len(x) = i /\ \A j \in 1 .. i : x[j] = r[j]
        /\ y \in Seq(Parts) /\ Len(y) = i /\ \A j \in 1 .. i : y[j] = p[j]
    BY <1>1, <1>2, <2>2
  <2> HIDE DEF x, y
  <2>4. \A j \in 1 .. i : x[j] = y[j]
    BY <2>1, <2>3
  <2>5. x = y
    BY <2>3, <2>4, SeqEqual
  <2> QED BY <2>1, <2>5, <1>1 DEF x, y
<1> HIDE DEF r
<1>4. \A i \in 1 .. Len(r) : /\ r[i] # Up
                             /\ Lstat(SubSeq(r, 1, i)) # Nowhere
                             /\ Kind(Lstat(SubSeq(r, 1, i))) # "link"
  BY <1>2, <1>3 DEF Trail
<1>5. Trail(r)
  BY <1>2, <1>4 DEF Trail
<1> QED BY <1>5 DEF r

LEMMA TrailNone == Trail(<<>>)
BY PathOfParts DEF Trail

LEMMA TrailMore ==
  ASSUME NEW p, Trail(p), NEW c \in Parts, c # Up,
         Lstat(Append(p, c)) # Nowhere, Kind(Lstat(Append(p, c))) # "link"
  PROVE  Trail(Append(p, c))
<1> DEFINE r == Append(p, c)
<1>1. p \in Seq(Parts) /\ Len(p) \in Nat
  BY PathOfParts DEF Trail
<1>2. /\ r \in Seq(Parts) /\ Len(r) = Len(p) + 1 /\ r[Len(p) + 1] = c
      /\ \A i \in 1 .. Len(p) : r[i] = p[i]
  BY <1>1
<1>3. Lstat(r) # Nowhere /\ Kind(Lstat(r)) # "link"
  OBVIOUS
<1> HIDE DEF r
<1>4. ASSUME NEW i \in 1 .. Len(p) PROVE SubSeq(r, 1, i) = SubSeq(p, 1, i)
  <2> DEFINE x == SubSeq(r, 1, i)
             y == SubSeq(p, 1, i)
  <2>3. /\ x \in Seq(Parts) /\ Len(x) = i /\ \A j \in 1 .. i : x[j] = r[j]
        /\ y \in Seq(Parts) /\ Len(y) = i /\ \A j \in 1 .. i : y[j] = p[j]
    BY <1>1, <1>2
  <2> HIDE DEF x, y
  <2>4. \A j \in 1 .. i : x[j] = y[j]
    BY <1>2, <2>3
  <2>5. x = y
    BY <2>3, <2>4, SeqEqual
  <2> QED BY <2>5 DEF x, y
<1>5. SubSeq(r, 1, Len(p) + 1) = r
  BY <1>2
<1>6. ASSUME NEW i \in 1 .. Len(r)
      PROVE  /\ r[i] # Up
             /\ Lstat(SubSeq(r, 1, i)) # Nowhere
             /\ Kind(Lstat(SubSeq(r, 1, i))) # "link"
  <2>1. CASE i = Len(p) + 1
    BY <1>2, <1>3, <1>5, <2>1
  <2>2. CASE i # Len(p) + 1
    <3>1. i \in 1 .. Len(p)
      BY <1>1, <1>2, <2>2
    <3> QED BY <1>2, <1>4, <3>1 DEF Trail
  <2> QED BY <2>1, <2>2
<1>7. r \in Path
  BY <1>2, PathOfParts
<1>8. Trail(r)
  BY <1>6, <1>7 DEF Trail
<1> QED BY <1>8 DEF r

\* A path, its last component and what is before it.
LEMMA FrontAndLast ==
  ASSUME NEW p \in SomePath
  PROVE  /\ p = Append(Front(p), Last(p)) /\ Front(p) \in Path /\ Last(p) \in Parts
         /\ Len(Front(p)) = Len(p) - 1 /\ Len(p) \in Nat /\ Len(p) > 0
         /\ Front(p) = SubSeq(p, 1, Len(p) - 1) /\ Last(p) = p[Len(p)]
         /\ \A i \in 1 .. Len(p) - 1 : Front(p)[i] = p[i]
<1> DEFINE n == Len(p)
           r == SubSeq(p, 1, n - 1)
<1>1. p \in Seq(Parts) /\ p # <<>>
  BY PathOfParts DEF SomePath
<1>2. n \in Nat /\ n > 0
  BY <1>1
<1>3. n - 1 \in Nat /\ n - 1 \in 0 .. n - 1 /\ n - 1 <= n /\ n \in 1 .. n /\ (n - 1) + 1 = n
  <2> HIDE DEF n
  <2> QED BY <1>2
<1>4. r \in Seq(Parts) /\ Len(r) = n - 1 /\ \A i \in 1 .. n - 1 : r[i] = p[i]
  BY <1>1, <1>3
<1>5. p[n] \in Parts
  BY <1>1, <1>3
<1>6. Append(r, p[(n - 1) + 1]) = SubSeq(p, 1, (n - 1) + 1)
  <2>1. n - 1 \in 0 .. Len(p) - 1 /\ p \in Seq(Parts)
    BY <1>1, <1>3
  <2> QED BY <2>1, SubSeqMore
<1>7. SubSeq(p, 1, n) = p
  BY <1>1
<1>8. Append(r, p[n]) = p
  <2> HIDE DEF r, n
  <2> QED BY <1>3, <1>6, <1>7
<1>9. Front(p) = r /\ Last(p) = p[n]
  BY DEF Front, Last
<1>10. r \in Path
  <2> HIDE DEF r
  <2> QED BY <1>4, PathOfParts
<1> HIDE DEF r
<1>11. /\ p = Append(Front(p), Last(p)) /\ Front(p) \in Path /\ Last(p) \in Parts
       /\ Len(Front(p)) = n - 1 /\ n \in Nat /\ n > 0
       /\ Front(p) = r /\ Last(p) = p[n]
       /\ \A i \in 1 .. n - 1 : Front(p)[i] = p[i]
  <2> HIDE DEF n
  <2> QED BY <1>2, <1>4, <1>5, <1>8, <1>9, <1>10
<1> QED BY <1>11 DEF r

\* A trail leads where its last component is, whoever asks.
LEMMA TrailEnd ==
  ASSUME site \in Sites, NEW p, Trail(p), p # <<>>
  PROVE  LET r == Front(p)
             c == Last(p)
             a == At(r, <<c>>)
         IN  /\ Trail(r) /\ Leads(r) /\ Leads(p) /\ c \in Parts /\ c # Up /\ p = Append(r, c)
             /\ a \in Places /\ a \in DOMAIN site.tree /\ Kind(a) = "dir"
             /\ Lstat(p) = IF c \in Names THEN Append(a, c) ELSE a
             /\ Lstat(p) \in DOMAIN site.tree /\ Kind(Lstat(p)) # "link"
             /\ Base(p) \in Places /\ IsPrefix(Base(p), a)
             /\ \A how \in Modes : Kernel(p, how) = Lstat(p)
<1> DEFINE r == Front(p)
           c == Last(p)
           a == At(r, <<c>>)
           s == <<c>>
<1>1. p \in SomePath
  BY DEF Trail, SomePath
<1>2. /\ p = Append(r, c) /\ r \in Path /\ c \in Parts
      /\ r = SubSeq(p, 1, Len(p) - 1) /\ c = p[Len(p)]
      /\ Len(p) - 1 \in 0 .. Len(p) /\ Len(p) \in 0 .. Len(p) /\ Len(p) \in 1 .. Len(p)
  BY <1>1, FrontAndLast
<1>3. SubSeq(p, 1, Len(p)) = p
  BY <1>1, PathOfParts DEF SomePath
<1>4. Trail(r) /\ Leads(r) /\ Leads(p)
  BY <1>2, <1>3, TrailStarts, TrailLeads
<1>5. c # Up /\ Lstat(p) # Nowhere /\ Kind(Lstat(p)) # "link"
  BY <1>2, <1>3 DEF Trail
<1> HIDE DEF r, c
<1>6. /\ Kind(a) = "dir" /\ Lstat(p) = IF c \in Names THEN Append(a, c) ELSE a
      /\ c \in Names => Append(a, c) \in DOMAIN site.tree
      /\ Base(r \o <<c>>) \in Places /\ IsPrefix(Base(r \o <<c>>), a)
  BY <1>2, <1>4, <1>5, LeadsStep
<1>7. a \in Places /\ a \in DOMAIN site.tree
  BY <1>2, <1>4, <1>5, LstatBehind
<1>8. r \o <<c>> = p
  BY <1>2, PathOfParts
<1>9. /\ s \in SomePath /\ s[1] = c /\ Tail(s) = <<>> /\ s # <<>>
      /\ \A how \in Modes : Kernel(p, how) = WalkPath(a, <<>>, s, MAX_LINKS, how)
  <2>1. s \in SomePath /\ s[1] = c /\ Tail(s) = <<>> /\ s # <<>>
    BY <1>2, OneComponent
  <2> QED BY <1>4, <1>8, <2>1 DEF Leads
<1>10. <<>> \in Places /\ MAX_LINKS \in Nat
  BY RootsKnown, SiteAssumption
<1> HIDE DEF a, s
<1>11. ASSUME NEW how \in Modes PROVE Kernel(p, how) = Lstat(p)
  <2>1. CASE c \in Names
    <3>1. /\ s[1] \in Names /\ Append(a, s[1]) \in DOMAIN site.tree
          /\ Kind(Append(a, s[1])) # "link" \/ (Tail(s) = <<>> /\ how = "lstat")
      BY <1>5, <1>6, <1>9, <2>1
    <3>2. WalkPath(a, <<>>, s, MAX_LINKS, how)
            = WalkPath(Append(a, s[1]), <<>>, Tail(s), MAX_LINKS, how)
      BY <1>6, <1>7, <1>9, <1>10, <3>1, StepInto
    <3>3. Append(a, c) \in Places
      BY <1>7, <2>1, ChildPlace
    <3>4. WalkPath(Append(a, c), <<>>, <<>>, MAX_LINKS, how) = Append(a, c)
      BY <1>10, <3>3, WalkDone
    <3> QED BY <1>6, <1>9, <2>1, <3>2, <3>4
  <2>2. CASE c \notin Names
    <3>1. s[1] # Up /\ s[1] \notin Names
      BY <1>5, <1>9, <2>2
    <3>2. WalkPath(a, <<>>, s, MAX_LINKS, how) = WalkPath(a, <<>>, Tail(s), MAX_LINKS, how)
      BY <1>6, <1>7, <1>9, <1>10, <3>1, StepStay
    <3>4. WalkPath(a, <<>>, <<>>, MAX_LINKS, how) = a
      BY <1>7, <1>10, WalkDone
    <3> QED BY <1>6, <1>9, <2>2, <3>2, <3>4
  <2> QED BY <2>1, <2>2
<1>12. Lstat(p) \in DOMAIN site.tree
  BY <1>6, <1>7
<1>13. /\ Trail(r) /\ Leads(r) /\ Leads(p) /\ c \in Parts /\ c # Up /\ p = Append(r, c)
       /\ a \in Places /\ a \in DOMAIN site.tree /\ Kind(a) = "dir"
       /\ Lstat(p) = IF c \in Names THEN Append(a, c) ELSE a
       /\ Lstat(p) \in DOMAIN site.tree /\ Kind(Lstat(p)) # "link"
  BY <1>2, <1>4, <1>5, <1>6, <1>7, <1>12
<1>14. Base(p) \in Places /\ IsPrefix(Base(p), a)
  BY <1>6, <1>8
<1> QED BY <1>11, <1>13, <1>14 DEF r, c, a, s

(***************************************************************************)
(* A request, step by step.                                                *)
(***************************************************************************)
\* What parsing is given, and what it leaves.
Parsed ==
  /\ pc # "answered" => site \in Sites /\ url \in SomePath /\ answer = "none"
  /\ pc = "parse" => ~index
  /\ CleanedRight

LEMMA CleanedFits ==
  ASSUME url \in SomePath
  PROVE  /\ Cleaned \in SomePath
         /\ Plain(Cleaned) = Plain(url)
         /\ UpsFew(Cleaned)
         /\ Free(Cleaned, Empty) /\ FreeBefore(Cleaned, Dot)
         /\ url[1] # Empty => FreeBefore(Cleaned, Empty)
<1> DEFINE u == IF url = <<Empty>> THEN <<Dot>> ELSE url
<1>1. /\ <<Dot>> \in SomePath /\ <<Dot>>[1] = Dot /\ <<Empty>> \in SomePath
      /\ <<Empty>>[1] = Empty /\ Dot \in Parts /\ Empty \in Parts
  BY OneComponent DEF Parts
<1>2. Plain(<<Dot>>) = <<>> /\ Plain(<<Empty>>) = <<>>
  <2>1. <<>> \in Places
    BY DEF Places
  <2>2. PlainFrom(<<>>, <<Dot>>) = <<>> /\ PlainFrom(<<>>, <<Empty>>) = <<>>
    BY <1>1, <2>1, PlainOne DEF Worked
  <2> QED BY <2>2, PlainIs
<1>3. u \in SomePath /\ Plain(u) = Plain(url) /\ (url[1] # Empty => u[1] # Empty)
  BY <1>1, <1>2, Specials
<1>4. Cleaned = DeDotdot(u)
  BY DEF Cleaned
<1> HIDE DEF u
<1>5. /\ DeDotdot(u) \in SomePath /\ Plain(DeDotdot(u)) = Plain(u) /\ UpsFew(DeDotdot(u))
      /\ Free(DeDotdot(u), Empty) /\ FreeBefore(DeDotdot(u), Dot)
      /\ (u[1] # Empty => FreeBefore(DeDotdot(u), Empty))
  BY <1>3, DeDotdotRight
<1> QED BY <1>3, <1>4, <1>5

\* What is refused, and what is not.
LEMMA CleanedRefused ==
  ASSUME url \in SomePath
  PROVE  IF (Len(Cleaned) > 1 /\ Cleaned[1] = Empty) \/ Cleaned[1] = Up
           THEN url[1] = Empty \/ Plain(url) = <<>>
           ELSE Up \in ToSet(Cleaned) => Len(Cleaned) = 2 /\ Cleaned[2] = Up
<1> DEFINE r == Cleaned
<1>1. /\ r \in SomePath /\ Plain(r) = Plain(url) /\ UpsFew(r)
      /\ url[1] # Empty => FreeBefore(r, Empty)
  BY CleanedFits
<1>2. Len(r) \in Nat /\ Len(r) > 0 /\ r \in Seq(Parts)
  BY <1>1, PathOfParts DEF SomePath
<1> HIDE DEF r
<1>3. ASSUME Len(r) > 1, r[1] = Empty PROVE url[1] = Empty
  <2>1. 1 \in 1 .. Len(r) - 1
    BY <1>2, <1>3
  <2> QED BY <1>1, <1>3, <2>1 DEF FreeBefore
<1>4. ASSUME r[1] = Up PROVE Plain(url) = <<>>
  <2>1. 1 \in 1 .. Len(r)
    BY <1>2
  <2>2. Len(r) = 1
    BY <1>1, <1>4, <2>1 DEF UpsFew
  <2>3. r = <<Up>>
    BY <1>2, <1>4, <2>2
  <2>4. PlainFrom(<<>>, <<Up>>) = Worked(<<>>, Up)
    <3>1. <<>> \in Places /\ Up \in Parts
      BY DEF Places, Parts
    <3> QED BY <3>1, PlainOne
  <2>5. Worked(<<>>, Up) = <<>>
    BY Specials DEF Worked
  <2> QED BY <1>1, <2>3, <2>4, <2>5, PlainIs
<1>5. ASSUME r[1] # Up, Up \in ToSet(r) PROVE Len(r) = 2 /\ r[2] = Up
  <2>1. PICK i \in 1 .. Len(r) : r[i] = Up
    BY <1>5 DEF ToSet
  <2>2. i = Len(r) /\ (Len(r) = 1 \/ Len(r) = 2)
    BY <1>1, <2>1 DEF UpsFew
  <2> QED BY <1>5, <2>1, <2>2
<1>6. IF (Len(r) > 1 /\ r[1] = Empty) \/ r[1] = Up
        THEN url[1] = Empty \/ Plain(url) = <<>>
        ELSE Up \in ToSet(r) => Len(r) = 2 /\ r[2] = Up
  BY <1>3, <1>4, <1>5
<1> QED BY <1>6 DEF r

LEMMA ParsedStep == Parsed /\ PathNext => Parsed'
<1> SUFFICES ASSUME Parsed, PathNext PROVE Parsed'
  OBVIOUS
<1>1. CASE Parse
  <2>1. site' = site /\ url' = url /\ pc = "parse" /\ ~index /\ index' = index
    BY <1>1 DEF Parse, Parsed
  <2>2. site \in Sites /\ url \in SomePath /\ answer = "none"
    BY <2>1 DEF Parsed
  <2>3. Plain(Cleaned) = Plain(url)
    BY <2>2, CleanedFits
  <2>4. IF (Len(Cleaned) > 1 /\ Cleaned[1] = Empty) \/ Cleaned[1] = Up
          THEN url[1] = Empty \/ Plain(url) = <<>>
          ELSE Up \in ToSet(Cleaned) => Len(Cleaned) = 2 /\ Cleaned[2] = Up
    BY <2>2, CleanedRefused
  <2>5. CASE (Len(Cleaned) > 1 /\ Cleaned[1] = Empty) \/ Cleaned[1] = Up
    <3>1. pc' = "answered" /\ (url[1] = Empty \/ Plain(url) = <<>>)
      BY <1>1, <2>4, <2>5 DEF Parse, Answer
    <3> QED BY <2>1, <3>1 DEF Parsed, CleanedRight
  <2>6. CASE ~((Len(Cleaned) > 1 /\ Cleaned[1] = Empty) \/ Cleaned[1] = Up)
    <3>1. pc' = "expand" /\ answer' = answer /\ origfilename' = Cleaned
      BY <1>1, <2>6 DEF Parse, GoTo
    <3>2. answer' = "none"
      BY <2>2, <3>1
    <3>3. CleanedRight'
      BY <2>1, <2>3, <2>4, <2>6, <3>1, <3>2 DEF CleanedRight
    <3> QED BY <2>1, <2>2, <3>1, <3>2, <3>3 DEF Parsed
  <2> QED BY <2>5, <2>6
<1>2. CASE ~Parse
  <2>1. /\ site' = site /\ url' = url /\ pc' # "parse"
        /\ pc' # "answered" => pc # "answered" /\ answer' = answer
        /\ answer' = "400" => answer = "400"
        /\ pc' = "expand" => index'
    BY <1>2 DEF PathNext, Expand, Component, AllChecked, Confine, Start, GotIndex, Listing,
                Serve, Answer, GoTo, Follow, Purpose, vars, links, Parsed
  <2> QED BY <2>1 DEF Parsed, CleanedRight
<1> QED BY <1>1, <1>2

LEMMA ParsedInit == CallInit => Parsed
<1> SUFFICES ASSUME CallInit PROVE Parsed
  OBVIOUS
<1>1. CASE PathInit
  BY <1>1, NamesAssumption DEF PathInit, Parsed, CleanedRight
<1>2. CASE NoRequest
  <2>1. pc = "answered" /\ answer = "nothing"
    BY <1>2, Zenon DEF NoRequest
  <2>2. pc # "parse" /\ pc # "expand" /\ answer # "400"
    BY <2>1
  <2> QED BY <2>1, <2>2 DEF Parsed, CleanedRight
<1> QED BY <1>1, <1>2 DEF CallInit

\* de_dotdot keeps what a request names, for every request: the path is worked
\* out as a stack would, ".." is left only behind a single component, and no
\* request is refused but one that begins with a slash or is "..".
THEOREM CleanedAlways == CallSpec => []CleanedRight
<1>1. Parsed /\ [CallNext]_callVars => Parsed'
  <2> SUFFICES ASSUME Parsed, [CallNext]_callVars PROVE Parsed'
    OBVIOUS
  <2>1. CASE PathNext
    BY <2>1, ParsedStep
  <2>2. CASE UNCHANGED callVars
    BY <2>2 DEF callVars, vars, links, Parsed, CleanedRight
  <2> QED BY <2>1, <2>2 DEF CallNext
<1>2. Parsed => CleanedRight
  BY DEF Parsed
<1> QED BY <1>1, <1>2, ParsedInit, PTL DEF CallSpec

\* What expand_symlinks has to keep: "/" is only at the start of the path, and
\* links and ".." go on from where the checked part is.
Slashless(p) == \A i \in 2 .. Len(p) : p[i] # Empty

NoDots(e) == Dot \notin ToSet(Front(Trim(e)))

Walks(p, q, k, e) ==
  \A how \in Modes \ {"lstat"} :
    LeadsTo(e, how) = WalkPath(At(p, q), Base(p \o q), q, MAX_LINKS - k, how)

Resolving(p, q, k, e) ==
  /\ p \in Path /\ q \in Path /\ k \in 0 .. MAX_LINKS /\ Trail(p)
  /\ Slashless(p \o q)
  /\ NoDots(e) => FreeBefore(p \o q, Dot) /\ Walks(p, q, k, e)

Resolved(p, q, e) ==
  /\ p \in SomePath /\ q \in Path /\ Slashless(p)
  /\ ~site.no_symlink_check => Trail(p)
  /\ NoDots(e) /\ CheckedOrChrooted =>
       /\ Stat(p) = FurthestOf(e)
       /\ q = <<>> <=> PlaceOf(e) # Nowhere

\* The first component of what is left goes behind what is checked.
LEMMA BehindFirst ==
  ASSUME NEW p \in Path, NEW q \in SomePath
  PROVE  /\ Append(p, q[1]) \o Tail(q) = p \o q
         /\ p \o q \in SomePath /\ (p \o q)[Len(p) + 1] = q[1]
         /\ Len(p \o q) = Len(p) + 1 + Len(Tail(q)) /\ Len(p) \in Nat /\ Len(Tail(q)) \in Nat
         /\ \A i \in 1 .. Len(p) : (p \o q)[i] = p[i]
         /\ \A i \in 1 .. Len(Tail(q)) : (p \o q)[Len(p) + 1 + i] = Tail(q)[i]
         /\ q[1] \in Parts /\ Tail(q) \in Path /\ Append(p, q[1]) \in Path /\ q \in Path
         /\ p # <<>> => (p \o q)[1] = p[1]
         /\ p = <<>> => p \o q = q
<1> DEFINE c == q[1]
           more == Tail(q)
           s == <<c>>
           x == Append(p, c)
           full == p \o q
<1>1. /\ c \in Parts /\ more \in Path /\ Len(more) = Len(q) - 1 /\ Len(q) \in Nat
      /\ Len(q) > 0
      /\ \A i \in 1 .. Len(q) - 1 : more[i] = q[i + 1]
  BY FirstAndRest
<1>2. p \in Seq(Parts) /\ q \in Seq(Parts) /\ more \in Seq(Parts) /\ Len(p) \in Nat
      /\ q \in Path
  BY <1>1, PathOfParts DEF SomePath
<1> HIDE DEF c, more
<1>3. /\ full \in Seq(Parts) /\ Len(full) = Len(p) + Len(q)
      /\ \A i \in 1 .. Len(p) + Len(q) :
           full[i] = IF i <= Len(p) THEN p[i] ELSE q[i - Len(p)]
  BY <1>2, Concatenated
<1>4. /\ x \in Seq(Parts) /\ Len(x) = Len(p) + 1 /\ x[Len(p) + 1] = c
      /\ \A i \in 1 .. Len(p) : x[i] = p[i]
  BY <1>1, <1>2
<1> HIDE DEF x, full
<1>5. /\ x \o more \in Seq(Parts) /\ Len(x \o more) = Len(x) + Len(more)
      /\ \A i \in 1 .. Len(x) + Len(more) :
           (x \o more)[i] = IF i <= Len(x) THEN x[i] ELSE more[i - Len(x)]
  BY <1>2, <1>4, Concatenated
<1>6. full[Len(p) + 1] = c /\ \A i \in 1 .. Len(more) : full[Len(p) + 1 + i] = more[i]
  <2>1. c = q[1]
    BY DEF c
  <2>2. full[Len(p) + 1] = q[1]
    BY <1>1, <1>2, <1>3
  <2>3. ASSUME NEW i \in 1 .. Len(more) PROVE full[Len(p) + 1 + i] = more[i]
    <3>1. /\ Len(p) + 1 + i \in 1 .. Len(p) + Len(q) /\ ~(Len(p) + 1 + i <= Len(p))
          /\ (Len(p) + 1 + i) - Len(p) = i + 1 /\ i \in 1 .. Len(q) - 1
      BY <1>1, <1>2
    <3> QED BY <1>1, <1>3, <3>1
  <2> QED BY <2>1, <2>2, <2>3
<1>13. /\ Len(full) = Len(p) + 1 + Len(more) /\ Len(more) \in Nat
       /\ Len(x \o more) = Len(full) /\ Len(full) \in Nat
  BY <1>1, <1>2, <1>3, <1>4, <1>5
<1>7. ASSUME NEW i \in 1 .. Len(full) PROVE (x \o more)[i] = full[i]
  <2>1. CASE i <= Len(p)
    <3>1. /\ i \in 1 .. Len(p) /\ i \in 1 .. Len(p) + Len(q) /\ i <= Len(x)
          /\ i \in 1 .. Len(x) + Len(more)
      BY <1>1, <1>2, <1>4, <1>13, <2>1
    <3> QED BY <1>3, <1>4, <1>5, <2>1, <3>1
  <2>2. CASE i = Len(p) + 1
    BY <1>1, <1>2, <1>3, <1>4, <1>5, <1>6, <2>2
  <2>3. CASE i > Len(p) + 1
    <3>1. /\ i - Len(x) \in 1 .. Len(more) /\ i = Len(p) + 1 + (i - Len(x)) /\ ~(i <= Len(x))
          /\ i \in 1 .. Len(x) + Len(more)
      BY <1>1, <1>2, <1>3, <1>4, <2>3
    <3> QED BY <1>5, <1>6, <3>1
  <2>4. i <= Len(p) \/ i = Len(p) + 1 \/ i > Len(p) + 1
    BY <1>2, <1>13
  <2> QED BY <2>1, <2>2, <2>3, <2>4
<1>8. x \o more = full
  <2> QED BY <1>3, <1>5, <1>7, <1>13, SeqEqual
<1>9. full \in SomePath /\ x \in Path
  BY <1>1, <1>2, <1>3, <1>4, PathOfParts DEF SomePath
<1>10. p # <<>> => full[1] = p[1]
  <2>1. p # <<>> => Len(p) >= 1
    BY <1>2
  <2> QED BY <1>2, <1>3, <2>1
<1>11. p = <<>> => full = q
  BY <1>2 DEF full
<1>12. /\ x \o more = full
       /\ full \in SomePath /\ full[Len(p) + 1] = c
       /\ Len(full) = Len(p) + 1 + Len(more) /\ Len(p) \in Nat /\ Len(more) \in Nat
       /\ \A i \in 1 .. Len(p) : full[i] = p[i]
       /\ \A i \in 1 .. Len(more) : full[Len(p) + 1 + i] = more[i]
       /\ c \in Parts /\ more \in Path /\ x \in Path /\ q \in Path
  BY <1>1, <1>2, <1>3, <1>6, <1>8, <1>9, <1>13
<1> QED BY <1>10, <1>11, <1>12 DEF x, full, c, more

LEMMA AtFirst ==
  ASSUME NEW p, NEW q, q # <<>> PROVE At(p, q) = At(p, <<q[1]>>)
BY DEF At, Base

LEMMA Forth ==
  ASSUME site \in Sites, NEW p, NEW q, NEW k, NEW e, Resolving(p, q, k, e), q # <<>>,
         q[1] # Up, Lstat(Append(p, q[1])) # Nowhere,
         Kind(Lstat(Append(p, q[1]))) # "link"
  PROVE  Resolving(Append(p, q[1]), Tail(q), k, e)
<1> DEFINE c == q[1]
           more == Tail(q)
           x == Append(p, c)
           full == p \o q
<1>1. p \in Path /\ q \in SomePath /\ k \in 0 .. MAX_LINKS /\ Trail(p) /\ Slashless(full)
      /\ (NoDots(e) => FreeBefore(full, Dot) /\ Walks(p, q, k, e))
  BY DEF Resolving, SomePath
<1>2. /\ x \o more = full /\ c \in Parts /\ more \in Path /\ x \in Path
      /\ full \in SomePath
  BY <1>1, BehindFirst
<1>3. x # <<>> /\ c # Up /\ Lstat(x) # Nowhere /\ Kind(Lstat(x)) # "link"
  BY <1>1, PathOfParts
<1>4. At(p, q) = At(p, <<c>>)
  BY <1>1, AtFirst
<1> HIDE DEF c, more, x, full
<1>5. Trail(x)
  BY <1>1, <1>2, <1>3, TrailMore DEF x
<1>6. ASSUME Walks(p, q, k, e) PROVE Walks(x, more, k, e)
  <2> SUFFICES ASSUME NEW how \in Modes \ {"lstat"}
               PROVE  LeadsTo(e, how)
                        = WalkPath(At(x, more), Base(x \o more), more, MAX_LINKS - k, how)
    BY DEF Walks
  <2>1. PICK a : a = At(p, <<c>>)
    OBVIOUS
  <2>2. PICK top : top = Base(full)
    OBVIOUS
  <2>3. PICK n : n = MAX_LINKS - k
    OBVIOUS
  <2>4. LeadsTo(e, how) = WalkPath(a, top, q, n, how)
    BY <1>4, <1>6, <2>1, <2>2, <2>3 DEF Walks, full
  <2>5. /\ a \in Places
        /\ Lstat(x) = IF Kind(a) # "dir" \/ (c \in Names /\ Append(a, c) \notin DOMAIN site.tree)
                        THEN Nowhere
                      ELSE IF c \in Names THEN Append(a, c) ELSE a
    <3>1. Leads(p)
      <4>1. Len(p) \in 0 .. Len(p) /\ SubSeq(p, 1, Len(p)) = p
        BY <1>1, PathOfParts
      <4> QED BY <1>1, <4>1, TrailLeads
    <3> QED BY <1>2, <1>3, <2>1, <3>1, LstatBehind DEF x
  <2>6. top \in Places /\ n \in Nat
    BY <1>1, <2>2, <2>3, BasePlace, SiteAssumption
  <2>7. At(x, more) = Lstat(x) /\ Base(x \o more) = top
    BY <1>2, <1>3, <2>2 DEF At
  <2>8. Kind(a) = "dir" /\ (c \in Names => Append(a, c) \in DOMAIN site.tree)
        /\ Lstat(x) = IF c \in Names THEN Append(a, c) ELSE a
    BY <1>3, <2>5
  <2>9. WalkPath(a, top, q, n, how) = WalkPath(Lstat(x), top, more, n, how)
    <3>1. CASE c \in Names
      <4>1. q[1] \in Names /\ Append(a, q[1]) \in DOMAIN site.tree /\ Kind(Append(a, q[1])) # "link"
        BY <1>3, <2>8, <3>1 DEF c
      <4>2. WalkPath(a, top, q, n, how) = WalkPath(Append(a, q[1]), top, Tail(q), n, how)
        BY <1>1, <2>5, <2>6, <2>8, <4>1, StepInto
      <4> QED BY <2>8, <3>1, <4>2 DEF c, more
    <3>2. CASE c \notin Names
      <4>1. q[1] # Up /\ q[1] \notin Names
        BY <3>2 DEF c
      <4>2. WalkPath(a, top, q, n, how) = WalkPath(a, top, Tail(q), n, how)
        BY <1>1, <2>5, <2>6, <2>8, <4>1, StepStay
      <4> QED BY <2>8, <3>2, <4>2 DEF c, more
    <3> QED BY <3>1, <3>2
  <2> QED BY <2>3, <2>4, <2>7, <2>9
<1>7. Resolving(x, more, k, e)
  BY <1>1, <1>2, <1>5, <1>6 DEF Resolving
<1> QED BY <1>7 DEF x, more, c

LEMMA OwnLead ==
  ASSUME site \in Sites, NEW p, Trail(p) PROVE Leads(p)
<1>1. Len(p) \in 0 .. Len(p) /\ SubSeq(p, 1, Len(p)) = p
  BY PathOfParts DEF Trail
<1> QED BY <1>1, TrailLeads

LEMMA FromCwd ==
  ASSUME NEW q, q # <<>> => q[1] # Empty PROVE Base(q) = site.cwd
BY DEF Base

\* "." is where the server is.
LEMMA DotTrail ==
  ASSUME site \in Sites
  PROVE  /\ Trail(<<Dot>>) /\ <<Dot>> \in SomePath
         /\ \A how \in Modes : Kernel(<<Dot>>, how) = site.cwd
<1>1. Dot \in Parts /\ Dot # Up /\ Dot \notin Names
  BY Specials, NamesAssumption DEF Parts
<1>2. <<Dot>> \in SomePath /\ <<Dot>>[1] = Dot /\ <<Dot>> # <<>>
  BY <1>1, OneComponent
<1>3. At(<<>>, <<Dot>>) = site.cwd
  BY <1>2, Specials DEF At, Base
<1>4. Append(<<>>, Dot) = <<Dot>>
  OBVIOUS
<1>5. Kind(site.cwd) = "dir" /\ site.cwd \in DOMAIN site.tree
  BY RootsKnown
<1>6. Lstat(<<Dot>>) = site.cwd
  BY <1>1, <1>3, <1>4, <1>5, LeadsNone, LstatBehind
<1>7. Lstat(<<Dot>>) # Nowhere /\ Kind(Lstat(<<Dot>>)) # "link"
  BY <1>5, <1>6, NowhereElse
<1>8. Trail(Append(<<>>, Dot))
  BY <1>1, <1>4, <1>7, TrailNone, TrailMore
<1>9. Trail(<<Dot>>)
  BY <1>4, <1>8
<1>10. \A how \in Modes : Kernel(<<Dot>>, how) = Lstat(<<Dot>>)
  BY <1>2, <1>9, TrailEnd
<1> QED BY <1>2, <1>6, <1>9, <1>10

\* What OrDot gives a trail.
LEMMA OrDotTrail ==
  ASSUME site \in Sites, NEW p, Trail(p), Slashless(p)
  PROVE  /\ OrDot(p) \in SomePath /\ Trail(OrDot(p)) /\ Slashless(OrDot(p))
         /\ \A how \in Modes :
              Kernel(OrDot(p), how) = IF p = <<>> THEN site.cwd ELSE Lstat(p)
<1>1. CASE p = <<>>
  <2>1. OrDot(p) = <<Dot>>
    BY <1>1 DEF OrDot
  <2>2. Slashless(<<Dot>>)
    BY DEF Slashless
  <2> QED BY <1>1, <2>1, <2>2, DotTrail
<1>2. CASE p # <<>>
  <2>1. OrDot(p) = p /\ p \in SomePath
    BY <1>2 DEF OrDot, Trail, SomePath
  <2> QED BY <1>2, <2>1, TrailEnd
<1> QED BY <1>1, <1>2

\* What is checked is without "/" behind its start when the whole path is.
LEMMA StartSlashless ==
  ASSUME NEW p \in Path, NEW q \in Path, Slashless(p \o q) PROVE Slashless(p)
<1>1. p \in Seq(Parts) /\ q \in Seq(Parts) /\ Len(p) \in Nat /\ Len(q) \in Nat
  BY PathOfParts
<1>2. Len(p \o q) = Len(p) + Len(q) /\ \A i \in 1 .. Len(p) : (p \o q)[i] = p[i]
  BY <1>1
<1>3. ASSUME NEW i \in 2 .. Len(p) PROVE p[i] # Empty
  <2>1. i \in 2 .. Len(p \o q) /\ i \in 1 .. Len(p)
    BY <1>1, <1>2
  <2> QED BY <1>2, <2>1 DEF Slashless
<1> QED BY <1>3 DEF Slashless

LEMMA Gone ==
  ASSUME site \in Sites, NEW p, NEW q, NEW k, NEW e, Resolving(p, q, k, e), q # <<>>,
         q[1] # Up, Lstat(Append(p, q[1])) = Nowhere
  PROVE  Resolved(OrDot(p), q, e)
<1> DEFINE c == q[1]
           x == Append(p, c)
           full == p \o q
<1>1. /\ p \in Path /\ q \in SomePath /\ k \in 0 .. MAX_LINKS /\ Trail(p) /\ Slashless(full)
      /\ (NoDots(e) => Walks(p, q, k, e)) /\ q \in Path
  BY DEF Resolving, SomePath
<1>2. c \in Parts /\ c # Up /\ Slashless(p) /\ Leads(p)
  BY <1>1, BehindFirst, StartSlashless, OwnLead
<1>3. /\ OrDot(p) \in SomePath /\ Trail(OrDot(p)) /\ Slashless(OrDot(p))
      /\ \A how \in Modes :
           Kernel(OrDot(p), how) = IF p = <<>> THEN site.cwd ELSE Lstat(p)
  BY <1>1, <1>2, OrDotTrail
<1>4. ASSUME NoDots(e)
      PROVE  Stat(OrDot(p)) = FurthestOf(e) /\ PlaceOf(e) = Nowhere
  <2>1. PICK a : a = At(p, <<c>>)
    OBVIOUS
  <2>2. PICK top : top = Base(full)
    OBVIOUS
  <2>3. PICK n : n = MAX_LINKS - k
    OBVIOUS
  <2>4. \A how \in Modes \ {"lstat"} : LeadsTo(e, how) = WalkPath(a, top, q, n, how)
    BY <1>1, <1>4, <2>1, <2>2, <2>3, AtFirst DEF Walks
  <2>5. top \in Places /\ n \in Nat
    BY <1>1, <2>2, <2>3, BasePlace, SiteAssumption
  <2>6. /\ a \in Places /\ a \in DOMAIN site.tree
        /\ Lstat(x) = IF Kind(a) # "dir" \/ (c \in Names /\ Append(a, c) \notin DOMAIN site.tree)
                        THEN Nowhere
                      ELSE IF c \in Names THEN Append(a, c) ELSE a
    BY <1>2, <2>1, LstatBehind DEF x
  <2> HIDE DEF c, x, full
  <2>7. Kind(a) # "dir" \/ (c \in Names /\ Append(a, c) \notin DOMAIN site.tree)
    <3>1. Lstat(x) = Nowhere
      BY DEF x, c
    <3>2. a # Nowhere
      BY <2>6, NowhereElse
    <3>3. c \in Names => Append(a, c) # Nowhere
      BY <2>6, ChildPlace, NowhereElse
    <3> QED BY <2>6, <3>1, <3>2, <3>3
  <2>8. \A how \in Modes : WalkPath(a, top, q, n, how) = IF how = "reach" THEN a ELSE Nowhere
    BY <1>1, <1>2, <2>5, <2>6, <2>7, StepLost DEF c
  <2>9. FurthestOf(e) = a /\ PlaceOf(e) = Nowhere
    BY <2>4, <2>8 DEF FurthestOf, PlaceOf, Modes
  <2>10. a = IF p = <<>> THEN site.cwd ELSE Lstat(p)
    <3>1. CASE p = <<>>
      <4>1. a = Base(<<c>>) /\ <<c>> # <<>> /\ <<c>>[1] = c
        BY <2>1, <3>1 DEF At
      <4>2. c # Empty
        <5> SUFFICES ASSUME c = Empty PROVE FALSE
          OBVIOUS
        <5>1. a = <<>>
          BY <4>1 DEF Base
        <5> QED BY <2>7, <5>1, RootsKnown, NamesAssumption
      <4> QED BY <3>1, <4>1, <4>2 DEF Base
    <3>2. CASE p # <<>>
      BY <2>1, <3>2 DEF At
    <3> QED BY <3>1, <3>2
  <2>11. Stat(OrDot(p)) = a
    BY <1>3, <2>10 DEF Stat, Modes
  <2> QED BY <2>9, <2>11
<1> QED BY <1>1, <1>3, <1>4 DEF Resolved

LEMMA Done ==
  ASSUME site \in Sites, NEW p, NEW k, NEW e, Resolving(p, <<>>, k, e)
  PROVE  Resolved(OrDot(p), <<>>, e)
<1>1. /\ p \in Path /\ k \in 0 .. MAX_LINKS /\ Trail(p) /\ Slashless(p \o <<>>)
      /\ (NoDots(e) => Walks(p, <<>>, k, e)) /\ <<>> \in Path
  BY DEF Resolving
<1>2. Slashless(p)
  BY <1>1, StartSlashless
<1>3. /\ OrDot(p) \in SomePath /\ Trail(OrDot(p)) /\ Slashless(OrDot(p))
      /\ \A how \in Modes :
           Kernel(OrDot(p), how) = IF p = <<>> THEN site.cwd ELSE Lstat(p)
  BY <1>1, <1>2, OrDotTrail
<1>4. ASSUME NoDots(e)
      PROVE  Stat(OrDot(p)) = FurthestOf(e) /\ PlaceOf(e) # Nowhere
  <2>1. PICK a : a = At(p, <<>>)
    OBVIOUS
  <2>2. PICK top : top = Base(p \o <<>>)
    OBVIOUS
  <2>3. PICK n : n = MAX_LINKS - k
    OBVIOUS
  <2>4. \A how \in Modes \ {"lstat"} : LeadsTo(e, how) = WalkPath(a, top, <<>>, n, how)
    BY <1>1, <1>4, <2>1, <2>2, <2>3 DEF Walks
  <2>5. top \in Places /\ n \in Nat
    BY <1>1, <2>2, <2>3, BasePlace, SiteAssumption
  <2>6. a = IF p = <<>> THEN site.cwd ELSE Lstat(p)
    BY <2>1 DEF At, Base
  <2>7. a \in DOMAIN site.tree
    BY <1>1, <2>6, TrailEnd, RootsKnown
  <2>8. a \in Places /\ a # Nowhere
    BY <2>7, TreeKnown, NowhereElse
  <2>9. \A how \in Modes \ {"lstat"} : LeadsTo(e, how) = a
    BY <2>4, <2>5, <2>8, WalkDone
  <2> QED BY <1>3, <2>6, <2>8, <2>9 DEF FurthestOf, PlaceOf, Stat, Modes
<1> QED BY <1>1, <1>3, <1>4 DEF Resolved

\* The text of a link before what is left.
LEMMA TextBefore ==
  ASSUME NEW p \in Path, NEW q \in SomePath, NEW text, LinkText(text), Slashless(p \o q)
  PROVE  LET r == text \o Tail(q)
             y == IF text[1] = Empty THEN <<>> ELSE p
         IN  /\ r \in SomePath /\ r[1] = text[1] /\ y \in Path
             /\ Slashless(y \o r)
             /\ FreeBefore(p \o q, Dot) => FreeBefore(y \o r, Dot)
<1> DEFINE more == Tail(q)
           r == text \o more
           y == IF text[1] = Empty THEN <<>> ELSE p
           full == p \o q
           new == y \o r
<1>1. /\ Len(full) = Len(p) + 1 + Len(more) /\ Len(p) \in Nat /\ Len(more) \in Nat
      /\ \A i \in 1 .. Len(p) : full[i] = p[i]
      /\ \A i \in 1 .. Len(more) : full[Len(p) + 1 + i] = more[i]
      /\ more \in Path
  BY BehindFirst
<1>2. /\ text \in Seq(Parts) /\ Len(text) \in Nat /\ Len(text) > 0 /\ more \in Seq(Parts)
      /\ p \in Seq(Parts)
      /\ \A i \in 1 .. Len(text) : text[i] # Dot /\ (text[i] = Empty => i = 1)
  BY <1>1, PathOfParts DEF LinkText, SomePath
<1> HIDE DEF more
<1>3. /\ r \in Seq(Parts) /\ Len(r) = Len(text) + Len(more)
      /\ \A i \in 1 .. Len(text) + Len(more) :
           r[i] = IF i <= Len(text) THEN text[i] ELSE more[i - Len(text)]
  BY <1>2, Concatenated
<1>4. y \in Seq(Parts) /\ Len(y) \in Nat /\ Len(y) <= Len(p) /\ (Len(y) > 0 => y = p /\ text[1] # Empty)
  BY <1>1, <1>2
<1>5. text[1] # Empty \/ Len(y) = 0
  OBVIOUS
<1> HIDE DEF r, y, full
<1>6. /\ new \in Seq(Parts) /\ Len(new) = Len(y) + Len(r)
      /\ \A i \in 1 .. Len(y) + Len(r) : new[i] = IF i <= Len(y) THEN y[i] ELSE r[i - Len(y)]
  <2>1. r \in Seq(Parts) /\ y \in Seq(Parts)
    BY <1>3, <1>4
  <2> QED BY <2>1, Concatenated
<1> HIDE DEF new
<1>7. ASSUME NEW i \in 1 .. Len(new)
      PROVE  \/ i \in 1 .. Len(p) /\ new[i] = full[i]
             \/ \E j \in 1 .. Len(text) : new[i] = text[j] /\ i = Len(y) + j
             \/ \E j \in 1 .. Len(more) :
                  new[i] = full[Len(p) + 1 + j] /\ i = Len(y) + Len(text) + j
  <2>1. CASE i <= Len(y)
    <3>1. i \in 1 .. Len(p) /\ y = p /\ i \in 1 .. Len(y) + Len(r)
      BY <1>1, <1>3, <1>4, <1>6, <2>1
    <3> QED BY <1>1, <1>6, <2>1, <3>1
  <2>2. CASE ~(i <= Len(y)) /\ i - Len(y) <= Len(text)
    <3> DEFINE j == i - Len(y)
    <3>1. /\ j \in 1 .. Len(text) /\ j \in 1 .. Len(text) + Len(more) /\ i = Len(y) + j
          /\ i \in 1 .. Len(y) + Len(r)
      BY <1>1, <1>2, <1>3, <1>4, <1>6, <2>2
    <3>2. new[i] = r[j]
      BY <1>6, <2>2, <3>1
    <3>3. r[j] = text[j]
      BY <1>3, <2>2, <3>1
    <3> HIDE DEF j
    <3> QED BY <3>1, <3>2, <3>3
  <2>3. CASE ~(i <= Len(y)) /\ ~(i - Len(y) <= Len(text))
    <3> DEFINE j == i - Len(y)
               l == j - Len(text)
    <3>1. /\ j \in 1 .. Len(text) + Len(more) /\ l \in 1 .. Len(more)
          /\ i = Len(y) + Len(text) + l /\ i \in 1 .. Len(y) + Len(r)
      BY <1>1, <1>2, <1>3, <1>4, <1>6, <2>3
    <3>2. new[i] = r[j]
      BY <1>6, <2>3, <3>1
    <3>3. r[j] = more[l]
      BY <1>3, <2>3, <3>1
    <3>4. full[Len(p) + 1 + l] = more[l]
      BY <1>1, <3>1
    <3> HIDE DEF j, l
    <3> QED BY <3>1, <3>2, <3>3, <3>4
  <2> QED BY <2>1, <2>2, <2>3
<1>8. ASSUME NEW i \in 2 .. Len(new) PROVE new[i] # Empty
  <2>1. i \in 1 .. Len(new)
    OBVIOUS
  <2>2. CASE i \in 1 .. Len(p) /\ new[i] = full[i]
    <3>1. i \in 2 .. Len(full)
      BY <1>1, <2>2
    <3> QED BY <2>2, <3>1 DEF Slashless, full
  <2>3. ASSUME NEW j \in 1 .. Len(text), new[i] = text[j], i = Len(y) + j
        PROVE  new[i] # Empty
    <3> SUFFICES ASSUME text[j] = Empty PROVE FALSE
      BY <2>3
    <3>1. j = 1 /\ text[1] = Empty
      BY <1>2
    <3>2. Len(y) = 0
      BY <1>5, <3>1
    <3> QED BY <2>3, <3>1, <3>2
  <2>4. ASSUME NEW j \in 1 .. Len(more), new[i] = full[Len(p) + 1 + j] PROVE new[i] # Empty
    <3>1. Len(p) + 1 + j \in 2 .. Len(full)
      BY <1>1
    <3> QED BY <2>4, <3>1 DEF Slashless, full
  <2> QED BY <1>7, <2>1, <2>2, <2>3, <2>4
<1>9. ASSUME FreeBefore(full, Dot), NEW i \in 1 .. Len(new) - 1 PROVE new[i] # Dot
  <2>1. i \in 1 .. Len(new) /\ i < Len(new) /\ Len(new) = Len(y) + Len(text) + Len(more)
    BY <1>1, <1>2, <1>3, <1>4, <1>6
  <2>2. CASE i \in 1 .. Len(p) /\ new[i] = full[i]
    <3>1. i \in 1 .. Len(full) - 1
      BY <1>1, <2>2
    <3> QED BY <1>9, <2>2, <3>1 DEF FreeBefore
  <2>3. ASSUME NEW j \in 1 .. Len(text), new[i] = text[j] PROVE new[i] # Dot
    BY <1>2, <2>3
  <2>4. ASSUME NEW j \in 1 .. Len(more), new[i] = full[Len(p) + 1 + j],
               i = Len(y) + Len(text) + j
        PROVE  new[i] # Dot
    <3>1. j < Len(more)
      BY <1>1, <1>2, <1>4, <2>1, <2>4
    <3>2. Len(p) + 1 + j \in 1 .. Len(full) - 1
      BY <1>1, <3>1
    <3> QED BY <1>9, <2>4, <3>2 DEF FreeBefore
  <2> QED BY <1>7, <2>1, <2>2, <2>3, <2>4
<1>10. r # <<>> /\ r[1] = text[1]
  <2>1. 1 \in 1 .. Len(text) + Len(more) /\ Len(r) > 0 /\ 1 <= Len(text)
    BY <1>1, <1>2, <1>3
  <2> QED BY <1>3, <2>1
<1>11. /\ r \in SomePath /\ r[1] = text[1] /\ y \in Path
       /\ Slashless(new) /\ (FreeBefore(full, Dot) => FreeBefore(new, Dot))
  <2>1. r \in SomePath /\ y \in Path
    BY <1>3, <1>4, <1>10, PathOfParts DEF SomePath
  <2>2. Slashless(new)
    BY <1>8 DEF Slashless
  <2>3. FreeBefore(full, Dot) => FreeBefore(new, Dot)
    BY <1>9 DEF FreeBefore
  <2> QED BY <1>10, <2>1, <2>2, <2>3
<1> QED BY <1>11 DEF r, y, full, more, new

LEMMA FollowedOn ==
  ASSUME site \in Sites, NEW p, NEW q, NEW k, NEW e, Resolving(p, q, k, e), q # <<>>,
         q[1] # Up, Lstat(Append(p, q[1])) # Nowhere,
         Kind(Lstat(Append(p, q[1]))) = "link", k + 1 <= MAX_LINKS
  PROVE  LET text == site.tree[Lstat(Append(p, q[1]))].text
         IN  Resolving(IF text[1] = Empty THEN <<>> ELSE p, text \o Tail(q), k + 1, e)
<1> DEFINE c == q[1]
           more == Tail(q)
           x == Append(p, c)
           full == p \o q
<1>1. /\ p \in Path /\ q \in SomePath /\ k \in 0 .. MAX_LINKS /\ Trail(p) /\ Slashless(full)
      /\ (NoDots(e) => FreeBefore(full, Dot) /\ Walks(p, q, k, e)) /\ q \in Path
  BY DEF Resolving, SomePath
<1>2. c \in Parts /\ c # Up /\ Leads(p) /\ more \in Path
  BY <1>1, BehindFirst, OwnLead
<1>3. PICK a : a = At(p, <<c>>)
  OBVIOUS
<1>4. /\ a \in Places /\ a \in DOMAIN site.tree /\ Kind(a) # "link"
      /\ Lstat(x) = IF Kind(a) # "dir" \/ (c \in Names /\ Append(a, c) \notin DOMAIN site.tree)
                      THEN Nowhere
                    ELSE IF c \in Names THEN Append(a, c) ELSE a
  BY <1>2, <1>3, LstatBehind
<1>5. Lstat(x) # Nowhere /\ Kind(Lstat(x)) = "link"
  OBVIOUS
<1>6. PICK child : child = Lstat(x)
  OBVIOUS
<1>7. PICK text : text = site.tree[child].text
  OBVIOUS
<1> HIDE DEF c, more, x, full
<1>8. /\ Kind(a) = "dir" /\ c \in Names /\ child = Append(a, c)
      /\ child \in DOMAIN site.tree /\ Kind(child) = "link"
  BY <1>4, <1>5, <1>6
<1>9. LinkText(text)
  BY <1>7, <1>8, TreeKnown
<1> DEFINE r == text \o more
           y == IF text[1] = Empty THEN <<>> ELSE p
<1>10. /\ r \in SomePath /\ r[1] = text[1] /\ y \in Path
       /\ Slashless(y \o r) /\ (FreeBefore(full, Dot) => FreeBefore(y \o r, Dot))
  BY <1>1, <1>9, TextBefore DEF full, more
<1>11. Trail(y) /\ r \in Path /\ k + 1 \in 0 .. MAX_LINKS
  BY <1>1, <1>10, TrailNone, SiteAssumption DEF SomePath
<1>12. ASSUME Walks(p, q, k, e) PROVE Walks(y, r, k + 1, e)
  <2> SUFFICES ASSUME NEW how \in Modes \ {"lstat"}
               PROVE  LeadsTo(e, how)
                        = WalkPath(At(y, r), Base(y \o r), r, MAX_LINKS - (k + 1), how)
    BY DEF Walks
  <2>2. PICK top : top = Base(full)
    OBVIOUS
  <2>3. PICK n : n = MAX_LINKS - k
    OBVIOUS
  <2>4. LeadsTo(e, how) = WalkPath(a, top, q, n, how)
    BY <1>1, <1>3, <1>12, <2>2, <2>3, AtFirst DEF Walks, full, c
  <2>5. top \in Places /\ n \in Nat /\ n > 0 /\ n - 1 = MAX_LINKS - (k + 1)
    BY <1>1, <2>2, <2>3, BasePlace, SiteAssumption
  <2>6. /\ q[1] \in Names /\ Append(a, q[1]) \in DOMAIN site.tree
        /\ Kind(Append(a, q[1])) = "link" /\ how # "lstat"
    BY <1>8 DEF c
  <2>7. WalkPath(a, top, q, n, how)
          = WalkPath(IF text[1] = Empty THEN <<>> ELSE a,
                     IF text[1] = Empty THEN <<>> ELSE top, r, n - 1, how)
    <3>1. text = site.tree[Append(a, q[1])].text
      BY <1>7, <1>8 DEF c
    <3>2. WalkPath(a, top, q, n, how)
            = WalkPath(IF text[1] = Empty THEN <<>> ELSE a,
                       IF text[1] = Empty THEN <<>> ELSE top,
                       text \o Tail(q), n - 1, how)
      BY <1>1, <1>4, <1>8, <2>5, <2>6, <3>1, StepLink
    <3> QED BY <3>2 DEF more
  <2> HIDE DEF r
  <2>8. CASE text[1] = Empty
    <3>1. y = <<>> /\ r # <<>> /\ r[1] = Empty /\ <<>> \o r = r
      BY <1>10, <2>8, PathOfParts DEF SomePath
    <3>2. At(y, r) = <<>> /\ Base(y \o r) = <<>>
      BY <3>1 DEF At, Base
    <3> QED BY <2>4, <2>5, <2>7, <2>8, <3>2
  <2>9. CASE text[1] # Empty
    <3>1. y = p /\ r # <<>> /\ r[1] # Empty
      BY <1>10, <2>9 DEF SomePath
    <3>2. p # <<>> => (p \o r)[1] = p[1] /\ (p \o q)[1] = p[1] /\ p \o r # <<>> /\ p \o q # <<>>
      <4>1. p \o r \in SomePath /\ p \o q \in SomePath
        BY <1>1, <1>10, BehindFirst
      <4>2. p # <<>> => (p \o r)[1] = p[1] /\ (p \o q)[1] = p[1]
        BY <1>1, <1>10, BehindFirst
      <4> QED BY <4>1, <4>2 DEF SomePath
    <3>3. At(p, r) = a /\ Base(p \o r) = top
      <4>1. CASE p = <<>>
        <5>1. q[1] # Empty /\ q # <<>> /\ <<>> \o r = r /\ <<>> \o q = q
          BY <1>1, <1>8, <1>10, PathOfParts, NamesAssumption DEF c, SomePath
        <5>2. Base(q) = site.cwd /\ Base(r) = site.cwd
          BY <3>1, <5>1, FromCwd
        <5>3. a = site.cwd /\ top = site.cwd
          BY <1>1, <1>3, <2>2, <4>1, <5>1, <5>2, AtFirst DEF At, full, c
        <5> QED BY <4>1, <5>1, <5>2, <5>3 DEF At
      <4>2. CASE p # <<>>
        <5>1. At(p, r) = a
          BY <1>3, <4>2 DEF At
        <5>2. Base(p \o r) = top
          BY <2>2, <3>2, <4>2 DEF Base, full
        <5> QED BY <5>1, <5>2
      <4> QED BY <4>1, <4>2
    <3> QED BY <2>4, <2>5, <2>7, <2>9, <3>1, <3>3
  <2> QED BY <2>8, <2>9
<1>13. Resolving(y, r, k + 1, e)
  <2> HIDE DEF y, r
  <2> QED BY <1>1, <1>10, <1>11, <1>12 DEF Resolving
<1> QED BY <1>6, <1>7, <1>13 DEF x, c, more

\* Some components in the middle less.
LEMMA Shorter ==
  ASSUME NEW p \in Path, NEW q \in SomePath, NEW m \in 0 .. Len(p), Slashless(p \o q)
  PROVE  LET new == SubSeq(p, 1, m) \o Tail(q)
         IN  /\ new \in Path /\ SubSeq(p, 1, m) \in Path
             /\ Slashless(new)
             /\ FreeBefore(p \o q, Dot) => FreeBefore(new, Dot)
             /\ m = 0 => new = Tail(q) /\ Base(new) = site.cwd /\ SubSeq(p, 1, m) = <<>>
             /\ m > 0 => Base(new) = Base(p \o q) /\ SubSeq(p, 1, m) # <<>>
<1> DEFINE more == Tail(q)
           r == SubSeq(p, 1, m)
           full == p \o q
           new == r \o more
<1>1. /\ Len(full) = Len(p) + 1 + Len(more) /\ Len(p) \in Nat /\ Len(more) \in Nat
      /\ \A i \in 1 .. Len(p) : full[i] = p[i]
      /\ \A i \in 1 .. Len(more) : full[Len(p) + 1 + i] = more[i]
      /\ more \in Path /\ full \in SomePath
  BY BehindFirst
<1>2. more \in Seq(Parts) /\ p \in Seq(Parts)
  BY <1>1, PathOfParts
<1> HIDE DEF more
<1>3. r \in Seq(Parts) /\ Len(r) = m /\ \A i \in 1 .. m : r[i] = p[i]
  BY <1>1, <1>2
<1> HIDE DEF r, full
<1>4. /\ new \in Seq(Parts) /\ Len(new) = Len(r) + Len(more)
      /\ \A i \in 1 .. Len(r) + Len(more) :
           new[i] = IF i <= Len(r) THEN r[i] ELSE more[i - Len(r)]
  BY <1>2, <1>3, Concatenated
<1> HIDE DEF new
<1>5. ASSUME NEW i \in 1 .. Len(new)
      PROVE  \E j \in 1 .. Len(full) : /\ new[i] = full[j] /\ j >= i
                                       /\ i < Len(new) => j < Len(full)
                                       /\ m = 0 => j > i
  <2>1. CASE i <= m
    <3>1. i \in 1 .. m /\ i \in 1 .. Len(p) /\ i \in 1 .. Len(full) /\ i < Len(full)
          /\ i \in 1 .. Len(r) + Len(more) /\ i <= Len(r) /\ m > 0
      BY <1>1, <1>3, <1>4, <2>1
    <3> QED BY <1>1, <1>3, <1>4, <3>1
  <2>2. CASE ~(i <= m)
    <3> DEFINE l == i - m
               j == Len(p) + 1 + l
    <3>1. /\ l \in 1 .. Len(more) /\ j \in 1 .. Len(full) /\ j > i
          /\ i < Len(new) => j < Len(full)
          /\ i \in 1 .. Len(r) + Len(more) /\ ~(i <= Len(r)) /\ i - Len(r) = l
      BY <1>1, <1>3, <1>4, <2>2
    <3>2. new[i] = more[l]
      BY <1>4, <3>1
    <3>3. full[j] = more[l]
      BY <1>1, <3>1
    <3>4. j >= i
      BY <1>1, <3>1
    <3> HIDE DEF j, l
    <3> QED BY <3>1, <3>2, <3>3, <3>4
  <2> QED BY <2>1, <2>2
<1>6. Slashless(new)
  <2> SUFFICES ASSUME NEW i \in 2 .. Len(new) PROVE new[i] # Empty
    BY DEF Slashless
  <2>1. i \in 1 .. Len(new)
    OBVIOUS
  <2>2. PICK j \in 1 .. Len(full) : new[i] = full[j] /\ j >= i
    BY <1>5, <2>1
  <2>3. j \in 2 .. Len(full)
    BY <2>2
  <2> QED BY <2>2, <2>3 DEF Slashless, full
<1>7. ASSUME FreeBefore(full, Dot) PROVE FreeBefore(new, Dot)
  <2> SUFFICES ASSUME NEW i \in 1 .. Len(new) - 1 PROVE new[i] # Dot
    BY DEF FreeBefore
  <2>1. i \in 1 .. Len(new) /\ i < Len(new)
    BY <1>1, <1>3, <1>4
  <2>2. PICK j \in 1 .. Len(full) : new[i] = full[j] /\ j < Len(full)
    BY <1>5, <2>1
  <2>3. j \in 1 .. Len(full) - 1
    BY <2>2, <1>1
  <2> QED BY <1>7, <2>2, <2>3 DEF FreeBefore
<1>8. ASSUME m = 0 PROVE new = more /\ Base(new) = site.cwd /\ r = <<>>
  <2>1. r = <<>> /\ new = more
    BY <1>2, <1>3, <1>8 DEF new
  <2>2. new # <<>> => new[1] # Empty
    <3> SUFFICES ASSUME new # <<>> PROVE new[1] # Empty
      OBVIOUS
    <3>1. 1 \in 1 .. Len(new)
      BY <1>4
    <3>2. PICK j \in 1 .. Len(full) : new[1] = full[j] /\ j > 1
      BY <1>5, <1>8, <3>1
    <3>3. j \in 2 .. Len(full)
      BY <3>2
    <3> QED BY <3>2, <3>3 DEF Slashless, full
  <2> QED BY <2>1, <2>2, FromCwd
<1>9. ASSUME m > 0 PROVE Base(new) = Base(full) /\ r # <<>>
  <2>1. 1 \in 1 .. m /\ 1 \in 1 .. Len(p) /\ 1 \in 1 .. Len(r) + Len(more) /\ 1 <= Len(r)
    BY <1>1, <1>3, <1>9
  <2>2. new[1] = r[1] /\ r[1] = p[1] /\ full[1] = p[1]
    BY <1>1, <1>3, <1>4, <2>1
  <2>3. new # <<>> /\ full # <<>> /\ r # <<>>
    <3>1. Len(new) > 0 /\ Len(full) > 0 /\ Len(r) > 0
      BY <1>1, <1>3, <1>4, <1>9
    <3> QED BY <3>1
  <2> QED BY <2>2, <2>3 DEF Base
<1>10. new \in Path /\ r \in Path
  BY <1>3, <1>4, PathOfParts
<1>11. /\ new \in Path /\ r \in Path
       /\ Slashless(new) /\ (FreeBefore(full, Dot) => FreeBefore(new, Dot))
       /\ m = 0 => new = more /\ Base(new) = site.cwd /\ r = <<>>
       /\ m > 0 => Base(new) = Base(full) /\ r # <<>>
  BY <1>6, <1>7, <1>8, <1>9, <1>10
<1> QED BY <1>11 DEF new, r, full, more

LEMMA Back ==
  ASSUME site \in Sites, NEW p, NEW q, NEW k, NEW e, Resolving(p, q, k, e), q # <<>>,
         q[1] = Up
  PROVE  LET y == Push(p, Up)
         IN  /\ Resolving(y, Tail(q), k, e)
             /\ y # <<>> => Lstat(y) # Nowhere /\ Kind(Lstat(y)) # "link"
<1> DEFINE more == Tail(q)
           full == p \o q
           y == Push(p, Up)
           m == IF p \in {<<>>, <<Empty>>} THEN Len(p) ELSE Len(p) - 1
<1>1. /\ p \in Path /\ q \in SomePath /\ k \in 0 .. MAX_LINKS /\ Trail(p) /\ Slashless(full)
      /\ (NoDots(e) => FreeBefore(full, Dot) /\ Walks(p, q, k, e)) /\ q \in Path
  BY DEF Resolving, SomePath
<1>2. /\ more \in Path /\ Len(p) \in Nat /\ SubSeq(p, 1, Len(p)) = p
      /\ p # <<>> => Len(p) > 0
      /\ p = <<Empty>> => Len(p) = 1
      /\ p = <<>> => Len(p) = 0
  BY <1>1, BehindFirst, PathOfParts
<1>3. m \in 0 .. Len(p) /\ y = SubSeq(p, 1, m)
  <2>1. CASE p \in {<<>>, <<Empty>>}
    BY <1>2, <2>1 DEF Push
  <2>2. CASE p \notin {<<>>, <<Empty>>}
    <3>1. y = Front(p) /\ m = Len(p) - 1
      BY <2>2 DEF Push
    <3> QED BY <1>2, <2>2, <3>1 DEF Front
  <2> QED BY <2>1, <2>2
<1> HIDE DEF m, y, more, full
<1>4. Trail(y)
  BY <1>1, <1>3, TrailStarts
<1>5. /\ y \o more \in Path /\ y \in Path
      /\ Slashless(y \o more)
      /\ FreeBefore(full, Dot) => FreeBefore(y \o more, Dot)
      /\ m = 0 => y \o more = more /\ Base(y \o more) = site.cwd /\ y = <<>>
      /\ m > 0 => Base(y \o more) = Base(full) /\ y # <<>>
  BY <1>1, <1>3, Shorter DEF more, full
<1>6. y # <<>> => Lstat(y) # Nowhere /\ Kind(Lstat(y)) # "link"
  <2>1. y # <<>> => Lstat(y) \in DOMAIN site.tree /\ Kind(Lstat(y)) # "link"
    BY <1>4, TrailEnd
  <2> QED BY <2>1, NowhereElse
<1>7. ASSUME NoDots(e) PROVE Walks(y, more, k, e)
  <2> SUFFICES ASSUME NEW how \in Modes \ {"lstat"}
               PROVE  LeadsTo(e, how)
                        = WalkPath(At(y, more), Base(y \o more), more, MAX_LINKS - k, how)
    BY DEF Walks
  <2>1. PICK at : at = At(p, q)
    OBVIOUS
  <2>2. PICK top : top = Base(full)
    OBVIOUS
  <2>3. PICK n : n = MAX_LINKS - k
    OBVIOUS
  <2>4. LeadsTo(e, how) = WalkPath(at, top, q, n, how)
    BY <1>1, <1>7, <2>1, <2>2, <2>3 DEF Walks, full
  <2>5. top \in Places /\ n \in Nat
    BY <1>1, <2>2, <2>3, BasePlace, SiteAssumption
  <2>6. at \in Places
    <3>1. CASE p = <<>>
      BY <2>1, <3>1, BasePlace DEF At
    <3>2. CASE p # <<>>
      <4>1. at = Lstat(p)
        BY <2>1, <3>2 DEF At
      <4> QED BY <1>1, <3>2, <4>1, TrailEnd, TreeKnown
    <3> QED BY <3>1, <3>2
  <2>7. WalkPath(at, top, q, n, how)
          = WalkPath(IF at \in {top, <<>>} THEN at ELSE Front(at), top, more, n, how)
    BY <1>1, <2>5, <2>6, StepUp DEF more
  <2>8. CASE p = <<>>
    <3>1. m = 0 /\ y = <<>> /\ Base(y \o more) = site.cwd /\ y \o more = more
      BY <1>2, <1>5, <2>8 DEF m
    <3>2. q # <<>> /\ q[1] # Empty /\ full = q
      BY <1>1, <2>8, Specials, BehindFirst DEF full
    <3>3. at = site.cwd /\ top = site.cwd
      BY <2>1, <2>2, <2>8, <3>2 DEF At, Base
    <3>4. At(y, more) = site.cwd
      BY <3>1 DEF At
    <3> QED BY <2>3, <2>4, <2>7, <3>1, <3>3, <3>4
  <2>9. CASE p = <<Empty>>
    <3>1. m > 0 /\ y # <<>> /\ Base(y \o more) = top
      BY <1>2, <1>5, <2>2, <2>9 DEF m
    <3>2. y = p
      BY <1>2, <1>3, <2>9 DEF m
    <3>3. at = <<>>
      <4>1. p # <<>> /\ Front(p) = <<>> /\ Last(p) = Empty
        BY <2>9 DEF Front, Last
      <4>2. Lstat(p) = At(<<>>, <<Empty>>)
        <5>1. Lstat(p) = IF Last(p) \in Names THEN Append(At(Front(p), <<Last(p)>>), Last(p))
                         ELSE At(Front(p), <<Last(p)>>)
          BY <1>1, <4>1, TrailEnd
        <5> QED BY <4>1, <5>1, NamesAssumption
      <4>3. At(<<>>, <<Empty>>) = <<>>
        BY DEF At, Base
      <4> QED BY <2>1, <4>1, <4>2, <4>3 DEF At
    <3>4. At(y, more) = at
      BY <2>1, <3>1, <3>2 DEF At
    <3> QED BY <2>3, <2>4, <2>7, <3>1, <3>3, <3>4
  <2>10. CASE p \notin {<<>>, <<Empty>>}
    <3> DEFINE c == Last(p)
    <3>1. PICK a : a = At(Front(p), <<c>>)
      OBVIOUS
    <3>2. p # <<>> /\ p \in SomePath
      BY <1>1, <2>10 DEF SomePath
    <3>3. /\ c \in Parts /\ c # Up /\ p = Append(Front(p), c)
          /\ a \in Places /\ a \in DOMAIN site.tree
          /\ Lstat(p) = IF c \in Names THEN Append(a, c) ELSE a
          /\ Base(p) \in Places /\ IsPrefix(Base(p), a)
      BY <1>1, <3>1, <3>2, TrailEnd
    <3>4. y = Front(p) /\ m = Len(p) - 1 /\ Len(p) > 0 /\ c = p[Len(p)]
      BY <1>2, <2>10, <3>2, FrontAndLast DEF y, m, Push
    <3>5. c \in Names
      <4>1. c # Empty
        <5> SUFFICES ASSUME c = Empty PROVE FALSE
          OBVIOUS
        <5>1. CASE Len(p) = 1
          <6>1. Front(p) = <<>>
            BY <3>2, <5>1, FrontAndLast
          <6> QED BY <2>10, <3>3, <6>1
        <5>2. CASE Len(p) # 1
          <6>1. Len(p) \in 2 .. Len(p) /\ Len(p) \in Nat
            BY <1>2, <3>4, <5>2
          <6>2. Slashless(p)
            BY <1>1, StartSlashless DEF full
          <6> QED BY <3>4, <6>1, <6>2 DEF Slashless
        <5> QED BY <5>1, <5>2
      <4>2. c # Dot
        <5>1. Len(full) = Len(p) + 1 + Len(Tail(q)) /\ Len(Tail(q)) \in Nat
              /\ \A i \in 1 .. Len(p) : full[i] = p[i]
          BY <1>1, BehindFirst DEF full
        <5>2. Len(p) \in 1 .. Len(full) - 1 /\ Len(p) \in 1 .. Len(p)
          BY <1>2, <3>4, <5>1
        <5> QED BY <1>1, <1>7, <3>4, <5>1, <5>2 DEF FreeBefore
      <4> QED BY <3>3, <4>1, <4>2 DEF Parts
    <3>6. at = Append(a, c)
      BY <2>1, <3>2, <3>3, <3>5 DEF At
    <3>7. top = Base(p)
      <4>1. full[1] = p[1] /\ full # <<>>
        BY <1>1, <3>2, BehindFirst DEF full, SomePath
      <4> QED BY <2>2, <3>2, <4>1 DEF Base
    <3>8. at # top /\ at # <<>> /\ Front(at) = a
      <4>1. Append(a, c) # <<>> /\ Front(Append(a, c)) = a /\ Len(Append(a, c)) = Len(a) + 1
        BY <3>3, <3>5, ChildPlace
      <4>2. Len(top) <= Len(a) /\ Len(a) \in Nat
        BY <3>3, <3>7 DEF IsPrefix, Places
      <4> QED BY <2>6, <3>6, <4>1, <4>2
    <3>9. LeadsTo(e, how) = WalkPath(a, top, more, n, how)
      BY <2>4, <2>7, <3>8
    <3>10. a = At(y, more) /\ top = Base(y \o more)
      <4>1. CASE m = 0
        <5>1. y = <<>> /\ Base(y \o more) = site.cwd /\ y \o more = more
          BY <1>5, <4>1
        <5>2. c # Empty /\ <<c>> # <<>> /\ <<c>>[1] = c
          BY <3>5, NamesAssumption
        <5>3. a = site.cwd
          BY <3>1, <3>4, <5>1, <5>2 DEF At, Base
        <5>4. p[1] = c
          <6>1. Len(p) = 1
            <7>1. Len(p) - 1 = 0
              BY <3>4, <4>1
            <7>2. Len(p) \in Nat
              BY <1>2
            <7> QED BY <7>1, <7>2
          <6> QED BY <3>4, <6>1
        <5>5. top = site.cwd
          BY <3>7, <5>2, <5>4 DEF Base
        <5> QED BY <5>1, <5>3, <5>5 DEF At
      <4>2. CASE m > 0
        <5>1. y # <<>> /\ Base(y \o more) = top
          BY <1>5, <2>2, <4>2
        <5> QED BY <3>1, <3>4, <5>1 DEF At
      <4> QED BY <1>3, <4>1, <4>2
    <3> QED BY <2>3, <3>9, <3>10
  <2> QED BY <2>8, <2>9, <2>10
<1>8. Resolving(y, more, k, e)
  BY <1>1, <1>2, <1>4, <1>5, <1>7 DEF Resolving
<1> QED BY <1>6, <1>8 DEF y, more

LEMMA NoneForEver ==
  ASSUME site \in Sites, NEW how \in Modes, NEW T, T \in SUBSET Walker,
         \A w \in T : w.path # <<>> /\ ~Lost(w, how) /\ Further(w, how) \in T
  PROVE  T = {}
<1>1. PICK R : R = {}
  OBVIOUS
<1>2. \A w \in T : w.path = <<>> \/ Lost(w, how) => WalkEnd(w, how) \in R
  OBVIOUS
<1>3. \A w \in T : w.path # <<>> /\ ~Lost(w, how) => Further(w, how) \in T
  OBVIOUS
<1>4. \A w \in T : EndOf(w, how) \in R
  BY <1>2, <1>3, WalkEndsIn
<1> QED BY <1>1, <1>4

\* A file that stat finds is as far as the walk reaches.
LEMMA ReachedWhenFound ==
  ASSUME site \in Sites, NEW w \in Walker, EndOf(w, "stat") # Nowhere
  PROVE  EndOf(w, "reach") = EndOf(w, "stat")
<1>1. PICK stat \in Modes : stat = "stat" /\ stat # "reach" /\ stat # "lstat"
  BY DEF Modes
<1>2. PICK reach \in Modes : reach = "reach" /\ reach # "lstat"
  BY DEF Modes
<1> DEFINE T == {v \in Walker : EndOf(v, stat) # Nowhere /\ EndOf(v, reach) # EndOf(v, stat)}
<1>3. ASSUME NEW v \in T
      PROVE  v.path # <<>> /\ ~Lost(v, stat) /\ Further(v, stat) \in T
  <2>1. v \in Walker /\ EndOf(v, stat) # Nowhere /\ EndOf(v, reach) # EndOf(v, stat)
    OBVIOUS
  <2>2. /\ EndOf(v, stat) = IF v.path = <<>> THEN v.at
                            ELSE IF Lost(v, stat) THEN Nowhere
                            ELSE EndOf(Further(v, stat), stat)
        /\ v.path # <<>> /\ ~Lost(v, stat) => Further(v, stat) \in Walker
    BY <1>1, <2>1, Unfold
  <2>3. EndOf(v, reach) = IF v.path = <<>> THEN v.at
                          ELSE IF Lost(v, reach) THEN v.at
                          ELSE EndOf(Further(v, reach), reach)
    BY <1>2, <2>1, Unfold
  <2>4. Followed(v, stat) = Followed(v, reach)
    BY <1>1, <1>2 DEF Followed
  <2>5. Lost(v, stat) <=> Lost(v, reach)
    BY <2>4 DEF Lost
  <2>6. Further(v, stat) = Further(v, reach)
    BY <2>4 DEF Further
  <2>7. v.path # <<>> /\ ~Lost(v, stat)
    BY <2>1, <2>2, <2>3
  <2> QED BY <2>1, <2>2, <2>3, <2>5, <2>6, <2>7
<1>4. \A v \in T : EndOf(v, stat) \in {}
  <2>1. T \in SUBSET Walker
    OBVIOUS
  <2> HIDE DEF T
  <2>2. PICK S : S = T
    OBVIOUS
  <2>3. \A v \in S : v.path # <<>> /\ ~Lost(v, stat) /\ Further(v, stat) \in S
    BY <1>3, <2>2
  <2>4. S = {}
    BY <1>1, <2>1, <2>2, <2>3, NoneForEver
  <2> QED BY <2>2, <2>4
<1>5. w \notin T
  <2> HIDE DEF T
  <2> QED BY <1>4
<1> QED BY <1>1, <1>2, <1>5

LEMMA AppendBehind ==
  ASSUME NEW S, NEW a \in Seq(S), NEW b \in Seq(S), NEW c \in S
  PROVE  a \o Append(b, c) = Append(a \o b, c)
<1> DEFINE x == a \o Append(b, c)
           y == Append(a \o b, c)
<1>1. Append(b, c) \in Seq(S) /\ Len(Append(b, c)) = Len(b) + 1
      /\ \A i \in 1 .. Len(b) + 1 : Append(b, c)[i] = IF i <= Len(b) THEN b[i] ELSE c
  OBVIOUS
<1>2. a \o b \in Seq(S) /\ Len(a \o b) = Len(a) + Len(b) /\ Len(a) \in Nat /\ Len(b) \in Nat
      /\ \A i \in 1 .. Len(a) + Len(b) : (a \o b)[i] = IF i <= Len(a) THEN a[i] ELSE b[i - Len(a)]
  OBVIOUS
<1>3. x \in Seq(S) /\ Len(x) = Len(a) + Len(b) + 1
      /\ \A i \in 1 .. Len(a) + Len(b) + 1 :
           x[i] = IF i <= Len(a) THEN a[i] ELSE Append(b, c)[i - Len(a)]
  BY <1>1, <1>2
<1>4. y \in Seq(S) /\ Len(y) = Len(a) + Len(b) + 1
      /\ \A i \in 1 .. Len(a) + Len(b) + 1 :
           y[i] = IF i <= Len(a) + Len(b) THEN (a \o b)[i] ELSE c
  BY <1>2
<1> HIDE DEF x, y
<1>5. ASSUME NEW i \in 1 .. Len(a) + Len(b) + 1 PROVE x[i] = y[i]
  <2>1. CASE i <= Len(a)
    BY <1>2, <1>3, <1>4, <2>1
  <2>2. CASE ~(i <= Len(a))
    <3>1. i - Len(a) \in 1 .. Len(b) + 1
      BY <1>2, <2>2
    <3>2. x[i] = IF i - Len(a) <= Len(b) THEN b[i - Len(a)] ELSE c
      BY <1>1, <1>3, <2>2, <3>1
    <3> QED BY <1>2, <1>4, <2>2, <3>1, <3>2
  <2> QED BY <2>1, <2>2
<1>6. x = y
  BY <1>3, <1>4, <1>5, SeqEqual
<1> QED BY <1>6 DEF x, y

\* The walk of a path with a slash at its end.
WithSlash(v) == [at |-> v.at, top |-> v.top, path |-> Append(v.path, Empty), n |-> v.n]

LEMMA SlashWalker ==
  ASSUME NEW v \in Walker PROVE WithSlash(v) \in Walker /\ WithSlash(v).path # <<>>
<1>1. /\ v.at \in Places /\ v.top \in Places /\ v.path \in Path /\ v.n \in Nat
      /\ v.path \in Seq(Parts) /\ Empty \in Parts
  BY PathOfParts DEF Walker, Parts
<1>2. Append(v.path, Empty) \in Path /\ Append(v.path, Empty) # <<>>
  BY <1>1, PathOfParts
<1> QED BY <1>1, <1>2 DEF Walker, WithSlash

LEMMA SlashBehind ==
  ASSUME site \in Sites, NEW how \in Modes \ {"lstat"}, NEW v \in Walker, v.path # <<>>
  PROVE  LET x == WithSlash(v)
         IN  /\ Lost(x, how) <=> Lost(v, how)
             /\ ~Lost(v, how) => Further(x, how) = WithSlash(Further(v, how))
<1> DEFINE x == WithSlash(v)
<1>1. how # "lstat"
  OBVIOUS
<1>2. /\ v.at \in Places /\ v.top \in Places /\ v.path \in Path /\ v.n \in Nat
      /\ v.path \in Seq(Parts) /\ Empty \in Parts
  BY PathOfParts DEF Walker, Parts
<1>4. x \in Walker
  BY SlashWalker
<1>5. x.at = v.at /\ x.top = v.top /\ x.path = Append(v.path, Empty) /\ x.n = v.n
  BY DEF WithSlash
<1> HIDE DEF x
<1>6. /\ x.path[1] = v.path[1] /\ Tail(x.path) = Append(Tail(v.path), Empty)
      /\ Tail(v.path) \in Seq(Parts)
  BY <1>2, <1>5
<1>7. Child(x) = Child(v)
  BY <1>5, <1>6 DEF Child
<1>8. Followed(x, how) <=> Followed(v, how)
  BY <1>1, <1>7 DEF Followed
<1>9. Lost(x, how) <=> Lost(v, how)
  BY <1>5, <1>6, <1>7, <1>8 DEF Lost
<1>10. ASSUME ~Lost(v, how) PROVE Further(x, how) = WithSlash(Further(v, how))
  <2> DEFINE more == Tail(v.path)
  <2>1. CASE v.path[1] = Up
    <3>1. Further(v, how) = [v EXCEPT !.at = IF v.at \in {v.top, <<>>} THEN v.at ELSE Front(v.at),
                                      !.path = more]
      BY <2>1 DEF Further
    <3>2. Further(x, how) = [x EXCEPT !.at = IF v.at \in {v.top, <<>>} THEN v.at ELSE Front(v.at),
                                      !.path = Append(more, Empty)]
      BY <1>5, <1>6, <2>1 DEF Further
    <3> DEFINE y == IF v.at \in {v.top, <<>>} THEN v.at ELSE Front(v.at)
    <3> HIDE DEF y, more
    <3>3. Further(v, how) = [v EXCEPT !.at = y, !.path = more]
      BY <3>1 DEF y
    <3>4. Further(x, how) = [x EXCEPT !.at = y, !.path = Append(more, Empty)]
      BY <3>2 DEF y
    <3>5. Further(v, how) = [at |-> y, top |-> v.top, path |-> more, n |-> v.n]
      BY <3>3 DEF Walker
    <3>6. Further(x, how) = [at |-> y, top |-> v.top, path |-> Append(more, Empty), n |-> v.n]
      BY <1>4, <1>5, <3>4 DEF Walker
    <3> QED BY <3>5, <3>6 DEF WithSlash
  <2>2. CASE v.path[1] # Up /\ v.path[1] \notin Names
    <3>1. Further(v, how) = [v EXCEPT !.path = more]
      BY <2>2 DEF Further
    <3>2. Further(x, how) = [x EXCEPT !.path = Append(more, Empty)]
      BY <1>5, <1>6, <2>2 DEF Further
    <3> HIDE DEF more
    <3>5. Further(v, how) = [at |-> v.at, top |-> v.top, path |-> more, n |-> v.n]
      BY <3>1 DEF Walker
    <3>6. Further(x, how) = [at |-> v.at, top |-> v.top, path |-> Append(more, Empty), n |-> v.n]
      BY <1>4, <1>5, <3>2 DEF Walker
    <3> QED BY <3>5, <3>6 DEF WithSlash
  <2>3. CASE v.path[1] # Up /\ v.path[1] \in Names /\ ~Followed(v, how)
    <3> DEFINE y == Child(v)
    <3>1. Further(v, how) = [v EXCEPT !.at = y, !.path = more]
      BY <2>3 DEF Further
    <3>2. Further(x, how) = [x EXCEPT !.at = y, !.path = Append(more, Empty)]
      BY <1>5, <1>6, <1>7, <1>8, <2>3 DEF Further
    <3> HIDE DEF more, y
    <3>5. Further(v, how) = [at |-> y, top |-> v.top, path |-> more, n |-> v.n]
      BY <3>1 DEF Walker
    <3>6. Further(x, how) = [at |-> y, top |-> v.top, path |-> Append(more, Empty), n |-> v.n]
      BY <1>4, <1>5, <3>2 DEF Walker
    <3> QED BY <3>5, <3>6 DEF WithSlash
  <2>4. CASE v.path[1] # Up /\ v.path[1] \in Names /\ Followed(v, how)
    <3> DEFINE text == site.tree[Child(v)].text
               y == IF text[1] = Empty THEN <<>> ELSE v.at
               z == IF text[1] = Empty THEN <<>> ELSE v.top
    <3>1. Further(v, how) = [at |-> y, top |-> z, path |-> text \o more, n |-> v.n - 1]
      BY <2>4 DEF Further
    <3>2. Further(x, how) = [at |-> y, top |-> z, path |-> text \o Append(more, Empty),
                             n |-> v.n - 1]
      BY <1>5, <1>6, <1>7, <1>8, <2>4 DEF Further
    <3>3. text \in Seq(Parts) /\ more \in Seq(Parts)
      <4>1. Child(v) \in DOMAIN site.tree
        BY <1>10, <2>4 DEF Lost
      <4>2. LinkText(text)
        BY <2>4, <4>1, TreeKnown DEF Followed
      <4> QED BY <1>6, <4>2, PathOfParts DEF LinkText, SomePath
    <3> HIDE DEF more, text, y, z
    <3>4. text \o Append(more, Empty) = Append(text \o more, Empty)
      BY <1>2, <3>3, AppendBehind
    <3>5. WithSlash(Further(v, how)) = [at |-> y, top |-> z, path |-> Append(text \o more, Empty),
                                  n |-> v.n - 1]
      <4> DEFINE t1 == text \o more
                 m == v.n - 1
      <4> HIDE DEF t1, m
      <4>1. Further(v, how) = [at |-> y, top |-> z, path |-> t1, n |-> m]
        BY <3>1 DEF t1, m
      <4>3. /\ Further(v, how).at = y /\ Further(v, how).top = z
            /\ Further(v, how).path = t1 /\ Further(v, how).n = m
        BY <4>1
      <4>2. WithSlash(Further(v, how)) = [at |-> y, top |-> z, path |-> Append(t1, Empty), n |-> m]
        BY <4>3 DEF WithSlash
      <4> QED BY <4>2 DEF t1, m
    <3> QED BY <3>2, <3>4, <3>5
  <2> QED BY <2>1, <2>2, <2>3, <2>4
<1> QED BY <1>9, <1>10 DEF x

\* A slash at the end makes no difference to what stat finds.
LEMMA FoundBefore ==
  ASSUME site \in Sites, NEW at \in Places, NEW top \in Places, NEW path \in Path,
         NEW n \in Nat, NEW how \in Modes, how = "stat",
         WalkPath(at, top, Append(path, Empty), n, how) # Nowhere
  PROVE  WalkPath(at, top, path, n, how) # Nowhere
<1> DEFINE T == {v \in Walker : EndOf(WithSlash(v), how) # Nowhere /\ EndOf(v, how) = Nowhere}
           w == [at |-> at, top |-> top, path |-> path, n |-> n]
<1>1. how # "lstat" /\ how # "reach"
  OBVIOUS
<1>2. ASSUME NEW v \in T
      PROVE  v.path # <<>> /\ ~Lost(v, how) /\ Further(v, how) \in T
  <2> DEFINE x == WithSlash(v)
             u == Further(v, how)
  <2>1. v \in Walker /\ EndOf(x, how) # Nowhere /\ EndOf(v, how) = Nowhere
    OBVIOUS
  <2>2. v.at # Nowhere /\ x \in Walker /\ x.path # <<>>
    BY <2>1, NowhereElse, SlashWalker DEF Walker
  <2> HIDE DEF x
  <2>3. /\ EndOf(x, how) = IF Lost(x, how) THEN Nowhere ELSE EndOf(Further(x, how), how)
        /\ EndOf(v, how) = IF v.path = <<>> THEN v.at
                           ELSE IF Lost(v, how) THEN Nowhere ELSE EndOf(u, how)
        /\ v.path # <<>> /\ ~Lost(v, how) => u \in Walker
    BY <1>1, <2>1, <2>2, Unfold
  <2>4. v.path # <<>>
    BY <2>1, <2>2, <2>3
  <2>5. /\ Lost(x, how) <=> Lost(v, how)
        /\ ~Lost(v, how) => Further(x, how) = WithSlash(u)
    BY <1>1, <2>1, <2>4, SlashBehind DEF x
  <2> HIDE DEF u
  <2>6. ~Lost(v, how) /\ u \in Walker /\ EndOf(WithSlash(u), how) # Nowhere
        /\ EndOf(u, how) = Nowhere
    BY <2>1, <2>3, <2>4, <2>5
  <2> QED BY <2>4, <2>6 DEF u
<1>3. T = {}
  <2>1. T \in SUBSET Walker
    OBVIOUS
  <2> HIDE DEF T
  <2>2. PICK S : S = T
    OBVIOUS
  <2>3. \A v \in S : v.path # <<>> /\ ~Lost(v, how) /\ Further(v, how) \in S
    BY <1>2, <2>2
  <2>4. S = {}
    BY <2>1, <2>2, <2>3, NoneForEver
  <2> QED BY <2>2, <2>4
<1>4. w \in Walker
  BY DEF Walker
<1>5. EndOf(WithSlash(w), how) # Nowhere
  BY DEF EndOf, WithSlash
<1>6. EndOf(w, how) # Nowhere
  <2> HIDE DEF w
  <2> QED BY <1>3, <1>4, <1>5
<1> QED BY <1>6 DEF EndOf

\* A slash behind a directory is no more.
LEMMA DirBehind ==
  ASSUME site \in Sites, NEW at \in Places, NEW top \in Places, NEW path \in Path,
         NEW n \in Nat, NEW how \in Modes, how = "stat",
         NEW d \in DOMAIN site.tree, Kind(d) = "dir",
         WalkPath(at, top, path, n, how) = d
  PROVE  WalkPath(at, top, Append(path, Empty), n, how) = d
<1> DEFINE T == {v \in Walker : EndOf(WithSlash(v), how) # d /\ EndOf(v, how) = d}
           w == [at |-> at, top |-> top, path |-> path, n |-> n]
<1>1. how # "lstat" /\ how # "reach" /\ d # Nowhere
  BY NowhereElse
<1>2. ASSUME NEW v \in T
      PROVE  v.path # <<>> /\ ~Lost(v, how) /\ Further(v, how) \in T
  <2> DEFINE x == WithSlash(v)
             u == Further(v, how)
  <2>1. v \in Walker /\ EndOf(x, how) # d /\ EndOf(v, how) = d
    OBVIOUS
  <2>2. x \in Walker /\ x.path # <<>>
    BY <2>1, SlashWalker
  <2> HIDE DEF x
  <2>3. /\ EndOf(x, how) = IF Lost(x, how) THEN Nowhere ELSE EndOf(Further(x, how), how)
        /\ EndOf(v, how) = IF v.path = <<>> THEN v.at
                           ELSE IF Lost(v, how) THEN Nowhere ELSE EndOf(u, how)
        /\ v.path # <<>> /\ ~Lost(v, how) => u \in Walker
    BY <1>1, <2>1, <2>2, Unfold
  <2>4. v.path # <<>>
    <3> SUFFICES ASSUME v.path = <<>> PROVE FALSE
      OBVIOUS
    <3>1. v.at = d /\ v.at \in Places /\ v.top \in Places /\ v.n \in Nat
      BY <2>1, <2>3 DEF Walker
    <3>2. Empty \in Parts /\ Empty # Up /\ Empty \notin Names
      BY NamesAssumption, Specials DEF Parts
    <3> DEFINE s == <<Empty>>
    <3>3. s \in SomePath /\ s[1] = Empty /\ Tail(s) = <<>>
      BY <3>2, OneComponent
    <3>4. EndOf(x, how) = WalkPath(v.at, v.top, s, v.n, how)
      BY DEF EndOf, x, WithSlash
    <3> HIDE DEF s
    <3>5. WalkPath(v.at, v.top, s, v.n, how) = WalkPath(v.at, v.top, Tail(s), v.n, how)
      <4>1. s[1] # Up /\ s[1] \notin Names /\ Kind(v.at) = "dir"
        BY <3>1, <3>2, <3>3
      <4> QED BY <3>1, <3>3, <4>1, StepStay
    <3>6. WalkPath(v.at, v.top, <<>>, v.n, how) = v.at
      BY <3>1, WalkDone
    <3> QED BY <2>1, <3>1, <3>3, <3>4, <3>5, <3>6
  <2>5. /\ Lost(x, how) <=> Lost(v, how)
        /\ ~Lost(v, how) => Further(x, how) = WithSlash(u)
    BY <1>1, <2>1, <2>4, SlashBehind DEF x
  <2> HIDE DEF u
  <2>6. ~Lost(v, how) /\ u \in Walker /\ EndOf(WithSlash(u), how) # d
        /\ EndOf(u, how) = d
    BY <1>1, <2>1, <2>3, <2>4, <2>5
  <2> QED BY <2>4, <2>6 DEF u
<1>3. T = {}
  <2>1. T \in SUBSET Walker
    OBVIOUS
  <2> HIDE DEF T
  <2>2. PICK S : S = T
    OBVIOUS
  <2>3. \A v \in S : v.path # <<>> /\ ~Lost(v, how) /\ Further(v, how) \in S
    BY <1>2, <2>2
  <2>4. S = {}
    BY <2>1, <2>2, <2>3, NoneForEver
  <2> QED BY <2>2, <2>4
<1>4. w \in Walker
  BY DEF Walker
<1>5. EndOf(w, how) = d
  BY DEF EndOf
<1>6. EndOf(WithSlash(w), how) = d
  <2> HIDE DEF w
  <2> QED BY <1>3, <1>4, <1>5
<1> QED BY <1>6 DEF EndOf, WithSlash

LEMMA TrimClear ==
  ASSUME NEW e \in Path, FreeBefore(e, Empty), e # <<Empty>>
  PROVE  LET t1 == Trim(e)
         IN  /\ t1 \in Path /\ \A i \in 1 .. Len(t1) : t1[i] # Empty
             /\ e = t1 \/ e = Append(t1, Empty)
             /\ e # <<>> => t1 # <<>> /\ t1[1] = e[1]
<1> DEFINE t1 == Trim(e)
<1>1. CASE e = <<>> \/ Last(e) # Empty
  <2>1. t1 = e
    BY <1>1 DEF Trim
  <2>2. ASSUME NEW i \in 1 .. Len(e) PROVE e[i] # Empty
    <3>1. e \in Seq(Parts) /\ Len(e) \in Nat /\ e # <<>>
      BY PathOfParts
    <3>2. i \in 1 .. Len(e) - 1 \/ i = Len(e)
      BY <3>1
    <3> QED BY <1>1, <3>1, <3>2 DEF FreeBefore, Last
  <2> QED BY <2>1, <2>2
<1>2. CASE e # <<>> /\ Last(e) = Empty
  <2>1. /\ t1 = Front(e) /\ e \in SomePath
    BY <1>2 DEF Trim, SomePath
  <2>2. /\ e = Append(t1, Empty) /\ t1 \in Path /\ Len(t1) = Len(e) - 1 /\ Len(e) \in Nat
        /\ Len(e) > 0 /\ \A i \in 1 .. Len(e) - 1 : t1[i] = e[i]
    BY <1>2, <2>1, FrontAndLast
  <2> HIDE DEF t1
  <2>3. \A i \in 1 .. Len(t1) : t1[i] # Empty
    BY <2>2 DEF FreeBefore
  <2>4. t1 # <<>>
    <3> SUFFICES ASSUME t1 = <<>> PROVE FALSE
      OBVIOUS
    <3> QED BY <2>2
  <2>5. t1[1] = e[1]
    <3>1. Len(t1) > 0
      BY <2>2, <2>4, PathOfParts
    <3>2. 1 \in 1 .. Len(e) - 1
      BY <2>2, <3>1
    <3> QED BY <2>2, <3>2
  <2> QED BY <2>2, <2>3, <2>4, <2>5 DEF t1
<1> QED BY <1>1, <1>2

\* A name that expand_symlinks is given: "/" is neither first nor in the middle.
NamesFile(e) == e \in Path /\ FreeBefore(e, Empty) /\ e # <<Empty>>

LEMMA Begun ==
  ASSUME site \in Sites, NEW e, NamesFile(e)
  PROVE  Resolving(<<>>, Trim(e), 0, e)
<1> DEFINE t1 == Trim(e)
<1>1. t1 \in Path /\ t1 \in Seq(Parts) /\ \A i \in 1 .. Len(t1) : t1[i] # Empty
  BY TrimClear, PathOfParts DEF NamesFile
<1> HIDE DEF t1
<1>2. <<>> \o t1 = t1 /\ Len(t1) \in Nat
  BY <1>1
<1>3. t1 # <<>> => t1[1] # Empty
  <2> SUFFICES ASSUME t1 # <<>> PROVE t1[1] # Empty
    OBVIOUS
  <2>1. 1 \in 1 .. Len(t1)
    BY <1>1
  <2> QED BY <1>1, <2>1
<1>4. Base(t1) = site.cwd
  BY <1>3, FromCwd
<1>5. Slashless(t1)
  BY <1>1, <1>2 DEF Slashless
<1>6. ASSUME NoDots(e) PROVE FreeBefore(t1, Dot)
  <2> SUFFICES ASSUME NEW i \in 1 .. Len(t1) - 1, t1[i] = Dot PROVE FALSE
    BY DEF FreeBefore
  <2>1. t1 \in SomePath
    BY <1>1, <1>2 DEF SomePath
  <2>2. Front(t1)[i] = t1[i] /\ i \in 1 .. Len(Front(t1))
    BY <2>1, FrontAndLast
  <2>3. Dot \in ToSet(Front(t1))
    BY <2>2 DEF ToSet
  <2> QED BY <1>6, <2>3 DEF NoDots, t1
<1>7. Walks(<<>>, t1, 0, e)
  <2>1. At(<<>>, t1) = site.cwd /\ Base(<<>> \o t1) = site.cwd
    BY <1>2, <1>4 DEF At
  <2>2. MAX_LINKS - 0 = MAX_LINKS
    BY SiteAssumption
  <2> QED BY <2>1, <2>2 DEF Walks, LeadsTo, t1
<1>8. 0 \in 0 .. MAX_LINKS /\ <<>> \in Path
  BY SiteAssumption, PathOfParts
<1>9. Resolving(<<>>, t1, 0, e)
  BY <1>1, <1>2, <1>5, <1>6, <1>7, <1>8, TrailNone DEF Resolving
<1> QED BY <1>9 DEF t1

\* With no_symlink_check the name stays.
LEMMA AsItIs ==
  ASSUME site \in Sites, site.no_symlink_check, NEW e, NamesFile(e), Stat(e) # Nowhere
  PROVE  Resolved(Trim(e), <<>>, e)
<1> DEFINE t1 == Trim(e)
<1>1. e # <<>>
  BY DEF Stat, Kernel
<1>2. /\ t1 \in Path /\ (\A i \in 1 .. Len(t1) : t1[i] # Empty)
      /\ e = t1 \/ e = Append(t1, Empty)
      /\ t1 # <<>> /\ t1[1] = e[1] /\ e \in Path
  BY <1>1, TrimClear DEF NamesFile
<1> HIDE DEF t1
<1>3. t1 \in SomePath /\ <<>> \in Path /\ Slashless(t1)
  <2>1. Slashless(t1)
    BY <1>2 DEF Slashless
  <2> QED BY <1>2, <2>1, PathOfParts DEF SomePath
<1>4. ASSUME CheckedOrChrooted
      PROVE  Stat(t1) = FurthestOf(e) /\ PlaceOf(e) # Nowhere
  <2>1. site.cwd = <<>> /\ <<>> \in Places /\ MAX_LINKS \in Nat
    BY <1>4, RootsKnown, SiteAssumption DEF CheckedOrChrooted
  <2>2. Base(e) = <<>> /\ Base(t1) = <<>>
    BY <2>1 DEF Base
  <2>3. PICK how \in Modes : how = "stat"
    BY DEF Modes
  <2>4. WalkPath(<<>>, <<>>, e, MAX_LINKS, how) # Nowhere
    BY <1>1, <2>2, <2>3 DEF Stat, Kernel
  <2>5. WalkPath(<<>>, <<>>, t1, MAX_LINKS, how) # Nowhere
    BY <1>2, <2>1, <2>3, <2>4, FoundBefore
  <2> DEFINE w == [at |-> <<>>, top |-> <<>>, path |-> t1, n |-> MAX_LINKS]
  <2>6. w \in Walker
    BY <1>2, <2>1 DEF Walker
  <2>7. \A m \in Modes : EndOf(w, m) = WalkPath(<<>>, <<>>, t1, MAX_LINKS, m)
    BY DEF EndOf
  <2> HIDE DEF w
  <2>8. EndOf(w, "stat") # Nowhere
    BY <2>3, <2>5, <2>7
  <2>9. EndOf(w, "reach") = EndOf(w, "stat")
    BY <2>6, <2>8, ReachedWhenFound
  <2>10. PlaceOf(e) = EndOf(w, "stat") /\ FurthestOf(e) = EndOf(w, "reach")
    BY <2>1, <2>7 DEF PlaceOf, FurthestOf, LeadsTo, t1, Modes
  <2>11. Stat(t1) = EndOf(w, "stat")
    BY <1>2, <2>2, <2>7 DEF Stat, Kernel, Modes
  <2> QED BY <2>8, <2>9, <2>10, <2>11
<1>5. Resolved(t1, <<>>, e)
  BY <1>3, <1>4 DEF Resolved
<1> QED BY <1>5 DEF t1

\* The index file that really_start_request takes.
LEMMA IndexTaken ==
  ASSUME NEW path
  PROVE  LET good == {i \in 1 .. Len(index_names) : Stat(IndexOf(path, index_names[i])) # Nowhere}
         IN  IF good = {} THEN Index(path) = <<>>
             ELSE \E i \in good : Index(path) = IndexOf(path, index_names[i])
<1> DEFINE good == {i \in 1 .. Len(index_names) : Stat(IndexOf(path, index_names[i])) # Nowhere}
           m == CHOOSE x \in good : \A y \in good : x <= y
<1>1. SelectInSeq(index_names, LAMBDA n : Stat(IndexOf(path, n)) # Nowhere)
        = IF good # {} THEN m ELSE 0
  BY DEF SelectInSeq, Min
<1>2. Index(path) = LET k == IF good # {} THEN m ELSE 0
                    IN  IF k = 0 THEN <<>> ELSE IndexOf(path, index_names[k])
  BY <1>1 DEF Index
<1>3. good \in SUBSET (Nat \ {0})
  <2>1. Len(index_names) \in Nat
    BY NamesAssumption
  <2> QED BY <2>1
<1>4. good # {} => m \in good
  <2> SUFFICES ASSUME good # {} PROVE m \in good
    OBVIOUS
  <2> HIDE DEF good
  <2>1. \E x \in good : \A y \in good : x <= y
    BY <1>3, LeastExists
  <2> QED BY <2>1
<1> HIDE DEF good, m
<1>5. IF good = {} THEN Index(path) = <<>>
      ELSE \E i \in good : Index(path) = IndexOf(path, index_names[i])
  <2>1. CASE good = {}
    BY <1>2, <2>1
  <2>2. CASE good # {}
    <3>1. m \in good /\ m # 0
      BY <1>3, <1>4, <2>2
    <3>2. Index(path) = IndexOf(path, index_names[m])
      BY <1>2, <2>2, <3>1
    <3> QED BY <2>2, <3>1, <3>2
  <2> QED BY <2>1, <2>2
<1> QED BY <1>5 DEF good

LEMMA IndexNamed ==
  ASSUME NEW path \in Path, \A i \in 1 .. Len(path) : path[i] # Empty, Index(path) # <<>>
  PROVE  NamesFile(Index(path))
<1>1. PICK i \in 1 .. Len(index_names) : Index(path) = IndexOf(path, index_names[i])
  BY IndexTaken
<1> DEFINE name == index_names[i]
           t1 == Trim(path)
<1>2. name \in Names
  BY NamesAssumption
<1>3. name \in Parts /\ name # Empty
  BY <1>2, NamesAssumption DEF Parts
<1>4. path \in Seq(Parts) /\ Len(path) \in Nat
  BY PathOfParts
<1>5. t1 = path
  <2> SUFFICES ASSUME path # <<>> PROVE Last(path) # Empty
    BY DEF Trim
  <2>1. Len(path) \in 1 .. Len(path)
    BY <1>4
  <2> QED BY <2>1 DEF Last
<1> HIDE DEF name, t1
<1>6. CASE t1 \in {<<>>, <<Dot>>}
  <2>1. Index(path) = <<name>>
    BY <1>1, <1>6 DEF IndexOf, name, t1
  <2>2. <<name>> \in Path /\ <<name>> # <<Empty>> /\ Len(<<name>>) = 1
    BY <1>3, PathOfParts
  <2> QED BY <2>1, <2>2 DEF NamesFile, FreeBefore
<1>7. CASE t1 \notin {<<>>, <<Dot>>}
  <2>1. Index(path) = Append(path, name)
    BY <1>1, <1>5, <1>7 DEF IndexOf, name, t1
  <2> DEFINE x == Append(path, name)
  <2>2. /\ x \in Seq(Parts) /\ Len(x) = Len(path) + 1 /\ \A j \in 1 .. Len(path) : x[j] = path[j]
        /\ x[Len(path) + 1] = name
    BY <1>3, <1>4
  <2> HIDE DEF x
  <2>3. FreeBefore(x, Empty)
    BY <1>4, <2>2 DEF FreeBefore
  <2>4. x # <<Empty>>
    <3> SUFFICES ASSUME x = <<Empty>> PROVE FALSE
      OBVIOUS
    <3>1. Len(x) = 1 /\ x[1] = Empty
      OBVIOUS
    <3> QED BY <1>3, <1>4, <2>2, <3>1
  <2> QED BY <2>1, <2>2, <2>3, <2>4, PathOfParts DEF NamesFile, x
<1> QED BY <1>6, <1>7

LEMMA FileNamed ==
  ASSUME url \in SomePath,
         ~((Len(Cleaned) > 1 /\ Cleaned[1] = Empty) \/ Cleaned[1] = Up)
  PROVE  NamesFile(FileName(Cleaned))
<1> DEFINE r == Cleaned
<1>1. r \in SomePath /\ r \in Path /\ Free(r, Empty) /\ r \in Seq(Parts)
      /\ Len(r) \in Nat /\ Len(r) > 0
  BY CleanedFits, PathOfParts DEF SomePath
<1>2. Len(r) > 1 => r[1] # Empty
  OBVIOUS
<1> HIDE DEF r
<1>3. ASSUME NEW j \in 1 .. Len(r) - 1 PROVE r[j] # Empty
  <2>1. CASE j = 1
    BY <1>1, <1>2, <2>1
  <2>2. CASE j # 1
    <3>1. j \in 2 .. Len(r) - 1
      BY <1>1, <2>2
    <3> QED BY <1>1, <3>1 DEF Free
  <2> QED BY <2>1, <2>2
<1>4. Host \in Parts /\ Host # Empty
  BY NamesAssumption DEF Parts
<1>5. CASE site.vhost
  <2> DEFINE hd == <<Host>>
             x == hd \o r
  <2>1. hd \in Seq(Parts) /\ Len(hd) = 1 /\ hd[1] = Host
    BY <1>4
  <2> HIDE DEF hd
  <2>2. /\ x \in Seq(Parts) /\ Len(x) = Len(r) + 1
        /\ \A k \in 1 .. Len(r) + 1 : x[k] = IF k <= 1 THEN Host ELSE r[k - 1]
    <3>1. /\ x \in Seq(Parts) /\ Len(x) = Len(hd) + Len(r)
          /\ \A k \in 1 .. Len(hd) + Len(r) : x[k] = IF k <= Len(hd) THEN hd[k] ELSE r[k - Len(hd)]
      BY <1>1, <2>1, Concatenated
    <3> HIDE DEF x
    <3> QED BY <1>1, <2>1, <3>1
  <2>3. FileName(Cleaned) = x
    BY <1>5 DEF FileName, r, hd
  <2> HIDE DEF x
  <2>4. ASSUME NEW j \in 1 .. Len(x) - 1 PROVE x[j] # Empty
    <3>1. j \in 1 .. Len(r) + 1 /\ (~(j <= 1) => j - 1 \in 1 .. Len(r) - 1)
      BY <1>1, <2>2
    <3> QED BY <1>3, <1>4, <2>2, <3>1
  <2>5. x # <<Empty>>
    <3> SUFFICES ASSUME x = <<Empty>> PROVE FALSE
      OBVIOUS
    <3>1. Len(x) = 1
      OBVIOUS
    <3> QED BY <1>1, <2>2, <3>1
  <2> QED BY <2>2, <2>3, <2>4, <2>5, PathOfParts DEF NamesFile, FreeBefore
<1>6. CASE ~site.vhost /\ r = <<Empty>>
  <2>1. FileName(Cleaned) = <<>>
    BY <1>6 DEF FileName, r
  <2>2. <<>> \in Path /\ Len(<<>>) = 0 /\ <<>> # <<Empty>>
    BY PathOfParts
  <2> QED BY <2>1, <2>2 DEF NamesFile, FreeBefore
<1>7. CASE ~site.vhost /\ r # <<Empty>>
  <2>1. FileName(Cleaned) = r
    BY <1>7 DEF FileName, r
  <2> QED BY <1>1, <1>3, <1>7, <2>1 DEF NamesFile, FreeBefore
<1> QED BY <1>5, <1>6, <1>7

\* The file system stays, so what holds of the new state holds as it is said now.
LEMMA ResolvingKept ==
  ASSUME site' = site
  PROVE  Resolving(checked, rest, nlinks, expnfilename)'
           <=> Resolving(checked', rest', nlinks', expnfilename')
BY SMT DEF Resolving, Slashless, NoDots, Walks, LeadsTo, At, Trail, Lstat, Kernel, Base,
           WalkPath, Lost, Followed, Child, Kind, Further, FreeBefore, Trim

LEMMA ResolvedKept ==
  ASSUME site' = site
  PROVE  Resolved(checked, rest, expnfilename)' <=> Resolved(checked', rest', expnfilename')
BY SMT DEF Resolved, Slashless, NoDots, LeadsTo, Trail, Lstat, Stat, Kernel, Base, PlaceOf,
           FurthestOf, CheckedOrChrooted, WalkPath, Lost, Followed, Child, Kind, Further, Trim

PathsInv ==
  pc # "answered" =>
    /\ site \in Sites /\ url \in SomePath
    /\ pc \in {"parse", "expand", "component", "expanded", "start", "serve", "listing"}
    /\ pc \in {"expand", "component", "expanded"} => NamesFile(expnfilename)
    /\ pc = "component" => Resolving(checked, rest, nlinks, expnfilename)
    /\ pc = "expanded" => Resolved(checked, rest, expnfilename)
    /\ pc = "start" => expnfilename \in Path
                       /\ \A i \in 1 .. Len(expnfilename) : expnfilename[i] # Empty

LEMMA ComponentKeeps == PathsInv /\ Component => PathsInv'
<1> SUFFICES ASSUME PathsInv, Component PROVE PathsInv'
  OBVIOUS
<1>1. /\ site' = site /\ url' = url /\ expnfilename' = expnfilename
      /\ pc = "component" /\ rest # <<>> /\ pc # "answered"
  BY DEF Component
<1>2. /\ site \in Sites /\ url \in SomePath /\ NamesFile(expnfilename)
      /\ Resolving(checked, rest, nlinks, expnfilename)
  BY <1>1 DEF PathsInv
<1>3. PICK p : p = checked
  OBVIOUS
<1>4. PICK q : q = rest
  OBVIOUS
<1>5. PICK k : k = nlinks
  OBVIOUS
<1>6. PICK e : e = expnfilename
  OBVIOUS
<1>7. Resolving(p, q, k, e) /\ q # <<>> /\ q \in Path /\ p \in Path /\ k \in 0 .. MAX_LINKS
  BY <1>1, <1>2, <1>3, <1>4, <1>5, <1>6 DEF Resolving
<1> DEFINE step == Push(p, q[1])
           text == site.tree[Lstat(step)].text
<1>8. ASSUME Resolving(checked', rest', nlinks', expnfilename'), pc' = pc PROVE PathsInv'
  <2>1. Resolving(checked, rest, nlinks, expnfilename)'
    BY <1>1, <1>8, ResolvingKept
  <2> QED BY <1>1, <1>2, <1>8, <2>1 DEF PathsInv, NamesFile, FreeBefore
<1>9. ASSUME Resolved(checked', rest', expnfilename'), pc' = "expanded" PROVE PathsInv'
  <2>1. Resolved(checked, rest, expnfilename)'
    BY <1>1, <1>9, ResolvedKept
  <2> QED BY <1>1, <1>2, <1>9, <2>1 DEF PathsInv, NamesFile, FreeBefore
<1>10. q[1] # Up => step = Append(p, q[1]) /\ step # <<>>
  BY DEF Push
<1>11. q[1] = Up => /\ Resolving(step, Tail(q), k, e)
                    /\ step # <<>> => Lstat(step) # Nowhere /\ Kind(Lstat(step)) # "link"
  <2> SUFFICES ASSUME q[1] = Up
               PROVE  /\ Resolving(step, Tail(q), k, e)
                      /\ step # <<>> => Lstat(step) # Nowhere /\ Kind(Lstat(step)) # "link"
    OBVIOUS
  <2>1. LET y == Push(p, Up)
        IN  /\ Resolving(y, Tail(q), k, e)
            /\ y # <<>> => Lstat(y) # Nowhere /\ Kind(Lstat(y)) # "link"
    <3>1. site \in Sites /\ Resolving(p, q, k, e) /\ q # <<>> /\ q[1] = Up
      BY <1>2, <1>7
    <3> QED BY <3>1, Back
  <2> QED BY <2>1
<1> HIDE DEF step
<1>12. \/ /\ step = <<>> \/ (Lstat(step) # Nowhere /\ Kind(Lstat(step)) # "link")
          /\ checked' = step /\ rest' = Tail(q) /\ nlinks' = k /\ pc' = pc
       \/ /\ step # <<>> /\ Lstat(step) = Nowhere
          /\ checked' = OrDot(p) /\ pc' = "expanded" /\ rest' = q
       \/ /\ step # <<>> /\ Lstat(step) # Nowhere /\ Kind(Lstat(step)) = "link"
          /\ nlinks' = k + 1
          /\ \/ nlinks' > MAX_LINKS /\ pc' = "answered"
             \/ /\ ~(nlinks' > MAX_LINKS) /\ rest' = text \o Tail(q)
                /\ checked' = IF text[1] = Empty THEN <<>> ELSE p
                /\ pc' = pc
  BY <1>3, <1>4, <1>5 DEF Component, Follow, GoTo, Answer, step
<1>13. CASE /\ step = <<>> \/ (Lstat(step) # Nowhere /\ Kind(Lstat(step)) # "link")
            /\ checked' = step /\ rest' = Tail(q) /\ nlinks' = k /\ pc' = pc
  <2>1. CASE q[1] = Up
    <3>1. Resolving(checked', rest', nlinks', expnfilename')
      BY <1>1, <1>6, <1>11, <1>13, <2>1
    <3> QED BY <1>8, <1>13, <3>1
  <2>2. CASE q[1] # Up
    <3>1. Resolving(Append(p, q[1]), Tail(q), k, e)
      BY <1>2, <1>7, <1>10, <1>13, <2>2, Forth
    <3>2. Resolving(checked', rest', nlinks', expnfilename')
      BY <1>1, <1>6, <1>10, <1>13, <2>2, <3>1
    <3> QED BY <1>8, <1>13, <3>2
  <2> QED BY <2>1, <2>2
<1>14. CASE /\ step # <<>> /\ Lstat(step) = Nowhere
            /\ checked' = OrDot(p) /\ pc' = "expanded" /\ rest' = q
  <2>1. q[1] # Up
    BY <1>11, <1>14
  <2>2. Resolved(OrDot(p), q, e)
    BY <1>2, <1>7, <1>10, <1>14, <2>1, Gone
  <2>3. Resolved(checked', rest', expnfilename')
    BY <1>1, <1>6, <1>14, <2>2
  <2> QED BY <1>9, <1>14, <2>3
<1>15. CASE /\ step # <<>> /\ Lstat(step) # Nowhere /\ Kind(Lstat(step)) = "link"
            /\ nlinks' = k + 1
            /\ \/ nlinks' > MAX_LINKS /\ pc' = "answered"
               \/ /\ ~(nlinks' > MAX_LINKS) /\ rest' = text \o Tail(q)
                  /\ checked' = IF text[1] = Empty THEN <<>> ELSE p
                  /\ pc' = pc
  <2>1. CASE pc' = "answered"
    BY <2>1 DEF PathsInv
  <2>2. CASE pc' # "answered"
    <3>1. /\ ~(nlinks' > MAX_LINKS) /\ rest' = text \o Tail(q)
          /\ checked' = IF text[1] = Empty THEN <<>> ELSE p
          /\ pc' = pc /\ nlinks' = k + 1
      BY <1>15, <2>2
    <3>2. q[1] # Up
      BY <1>11, <1>15
    <3>3. k + 1 <= MAX_LINKS
      BY <1>7, <3>1, SiteAssumption
    <3>4. step = Append(p, q[1])
      BY <1>10, <3>2
    <3>5. Lstat(Append(p, q[1])) # Nowhere /\ Kind(Lstat(Append(p, q[1]))) = "link"
      BY <1>15, <3>4
    <3>6. LET s == site.tree[Lstat(Append(p, q[1]))].text
          IN  Resolving(IF s[1] = Empty THEN <<>> ELSE p, s \o Tail(q), k + 1, e)
      BY <1>2, <1>7, <3>2, <3>3, <3>5, FollowedOn
    <3>7. Resolving(IF text[1] = Empty THEN <<>> ELSE p, text \o Tail(q), k + 1, e)
      BY <3>4, <3>6
    <3> HIDE DEF text
    <3>8. Resolving(checked', rest', nlinks', expnfilename')
      BY <1>1, <1>6, <3>1, <3>7
    <3> QED BY <1>8, <3>1, <3>8
  <2> QED BY <2>1, <2>2
<1> QED BY <1>12, <1>13, <1>14, <1>15

\* What is behind the web tree in a checked name.
LEMMA BehindTree ==
  ASSUME NEW p \in SomePath, Slashless(p), NEW m \in Nat, m >= 2, m <= Len(p) + 1
  PROVE  LET y == SubSeq(p, m, Len(p))
         IN  y \in Path /\ \A i \in 1 .. Len(y) : y[i] # Empty
<1> DEFINE y == SubSeq(p, m, Len(p))
<1>1. p \in Seq(Parts) /\ Len(p) \in Nat
  BY PathOfParts DEF SomePath
<1>2. /\ y \in Seq(Parts) /\ Len(y) = Len(p) - m + 1
      /\ \A i \in 1 .. Len(p) - m + 1 : y[i] = p[m + i - 1]
  BY <1>1
<1> HIDE DEF y
<1>3. ASSUME NEW i \in 1 .. Len(y) PROVE y[i] # Empty
  <2>1. m + i - 1 \in 2 .. Len(p) /\ i \in 1 .. Len(p) - m + 1
    BY <1>1, <1>2
  <2> QED BY <1>2, <2>1 DEF Slashless
<1>4. y \in Path /\ \A i \in 1 .. Len(y) : y[i] # Empty
  BY <1>2, <1>3, PathOfParts
<1> QED BY <1>4 DEF y

LEMMA PathsKept == PathsInv /\ PathNext => PathsInv'
<1> SUFFICES ASSUME PathsInv, PathNext PROVE PathsInv'
  OBVIOUS
<1>1. CASE Parse
  <2>1. site' = site /\ url' = url /\ pc = "parse" /\ pc # "answered"
    BY <1>1 DEF Parse
  <2>2. site \in Sites /\ url \in SomePath
    BY <2>1 DEF PathsInv
  <2>3. CASE (Len(Cleaned) > 1 /\ Cleaned[1] = Empty) \/ Cleaned[1] = Up
    BY <1>1, <2>3 DEF Parse, Answer, PathsInv
  <2>4. CASE ~((Len(Cleaned) > 1 /\ Cleaned[1] = Empty) \/ Cleaned[1] = Up)
    <3>1. pc' = "expand" /\ expnfilename' = FileName(Cleaned)
      BY <1>1, <2>4 DEF Parse, GoTo
    <3>2. NamesFile(FileName(Cleaned))
      BY <2>2, <2>4, FileNamed
    <3>3. NamesFile(expnfilename)'
      BY <3>1, <3>2 DEF NamesFile, FreeBefore
    <3> QED BY <2>1, <2>2, <3>1, <3>3 DEF PathsInv
  <2> QED BY <2>3, <2>4
<1>2. CASE Expand
  <2>1. /\ site' = site /\ url' = url /\ expnfilename' = expnfilename /\ nlinks' = 0
        /\ pc = "expand" /\ pc # "answered"
    BY <1>2 DEF Expand
  <2>2. site \in Sites /\ url \in SomePath /\ NamesFile(expnfilename)
    BY <2>1 DEF PathsInv
  <2>3. NamesFile(expnfilename)'
    BY <2>1, <2>2 DEF NamesFile, FreeBefore
  <2>4. PICK e : e = expnfilename
    OBVIOUS
  <2>5. CASE site.no_symlink_check /\ Stat(expnfilename) # Nowhere
    <3>1. checked' = Trim(e) /\ rest' = <<>> /\ pc' = "expanded" /\ expnfilename' = e
      BY <1>2, <2>1, <2>4, <2>5 DEF Expand, GoTo
    <3>2. Resolved(Trim(e), <<>>, e)
      BY <2>2, <2>4, <2>5, AsItIs
    <3>3. Resolved(checked', rest', expnfilename')
      BY <3>1, <3>2
    <3>4. Resolved(checked, rest, expnfilename)'
      BY <2>1, <3>3, ResolvedKept
    <3> QED BY <2>1, <2>2, <2>3, <3>1, <3>4 DEF PathsInv
  <2>6. CASE ~(site.no_symlink_check /\ Stat(expnfilename) # Nowhere)
    <3>1. checked' = <<>> /\ rest' = Trim(e) /\ pc' = "component" /\ expnfilename' = e
      BY <1>2, <2>1, <2>4, <2>6 DEF Expand, GoTo
    <3>2. Resolving(<<>>, Trim(e), 0, e)
      BY <2>2, <2>4, Begun
    <3>3. Resolving(checked', rest', nlinks', expnfilename')
      BY <2>1, <3>1, <3>2
    <3>4. Resolving(checked, rest, nlinks, expnfilename)'
      BY <2>1, <3>3, ResolvingKept
    <3> QED BY <2>1, <2>2, <2>3, <3>1, <3>4 DEF PathsInv
  <2> QED BY <2>5, <2>6
<1>3. CASE Component
  BY <1>3, ComponentKeeps
<1>4. CASE AllChecked
  <2>1. /\ site' = site /\ url' = url /\ expnfilename' = expnfilename /\ rest' = rest
        /\ checked' = OrDot(checked) /\ pc' = "expanded"
        /\ pc = "component" /\ pc # "answered" /\ rest = <<>>
    BY <1>4 DEF AllChecked, GoTo
  <2>2. /\ site \in Sites /\ url \in SomePath /\ NamesFile(expnfilename)
        /\ Resolving(checked, <<>>, nlinks, expnfilename)
    BY <2>1 DEF PathsInv
  <2>3. Resolved(OrDot(checked), <<>>, expnfilename)
    <3>1. PICK p : p = checked
      OBVIOUS
    <3>2. PICK k : k = nlinks
      OBVIOUS
    <3>3. PICK e : e = expnfilename
      OBVIOUS
    <3> QED BY <2>2, <3>1, <3>2, <3>3, Done
  <2>4. Resolved(checked', rest', expnfilename')
    BY <2>1, <2>3
  <2>5. Resolved(checked, rest, expnfilename)'
    BY <2>1, <2>4, ResolvedKept
  <2>6. NamesFile(expnfilename)'
    BY <2>1, <2>2 DEF NamesFile, FreeBefore
  <2> QED BY <2>1, <2>2, <2>5, <2>6 DEF PathsInv
<1>5. CASE Confine
  <2>1. site' = site /\ url' = url /\ pc = "expanded" /\ pc # "answered"
    BY <1>5 DEF Confine
  <2>2. /\ site \in Sites /\ url \in SomePath /\ checked \in SomePath /\ Slashless(checked)
    BY <2>1 DEF PathsInv, Resolved
  <2>3. checked \in Seq(Parts) /\ Len(checked) \in Nat /\ Len(checked) > 0 /\ checked \in Path
    BY <2>2, PathOfParts DEF SomePath
  <2>4. CASE checked[1] # Empty
    <3>1. expnfilename' = checked /\ pc' = "start"
      BY <1>5, <2>4 DEF Confine, GoTo
    <3>2. \A i \in 1 .. Len(checked) : checked[i] # Empty
      BY <2>2, <2>3, <2>4 DEF Slashless
    <3> QED BY <2>1, <2>2, <2>3, <3>1, <3>2 DEF PathsInv
  <2>5. CASE checked[1] = Empty /\ InTree(checked)
    <3>1. expnfilename' = SubSeq(checked, Len(site.cwd) + 2, Len(checked)) /\ pc' = "start"
      BY <1>5, <2>5 DEF Confine, GoTo
    <3>2. site.cwd \in Places /\ Len(site.cwd) \in Nat
      BY <2>2, RootsKnown DEF Places
    <3>3. Len(site.cwd) + 2 >= 2 /\ Len(site.cwd) + 2 <= Len(checked) + 1
      <4>1. site.cwd # <<>> => Len(checked) > Len(site.cwd) + 1
        BY <2>5 DEF InTree
      <4>2. CASE site.cwd = <<>>
        BY <2>3, <4>2
      <4>3. CASE site.cwd # <<>>
        BY <2>3, <3>2, <4>1, <4>3
      <4> QED BY <4>2, <4>3
    <3>4. PICK p : p = checked
      OBVIOUS
    <3>5. PICK m \in Nat : m = Len(site.cwd) + 2
      BY <3>2
    <3>6. PICK y : y = SubSeq(p, m, Len(p))
      OBVIOUS
    <3>7. y \in Path /\ \A i \in 1 .. Len(y) : y[i] # Empty
      BY <2>2, <3>3, <3>4, <3>5, <3>6, BehindTree
    <3>8. expnfilename' = y
      BY <3>1, <3>4, <3>5, <3>6
    <3> QED BY <2>1, <2>2, <3>1, <3>7, <3>8 DEF PathsInv
  <2>6. CASE checked[1] = Empty /\ ~InTree(checked)
    BY <1>5, <2>6 DEF Confine, Answer, PathsInv
  <2> QED BY <2>4, <2>5, <2>6
<1>6. CASE Start
  <2>1. site' = site /\ url' = url /\ pc = "start" /\ pc # "answered"
    BY <1>6 DEF Start
  <2>2. /\ site \in Sites /\ url \in SomePath /\ expnfilename \in Path
        /\ \A i \in 1 .. Len(expnfilename) : expnfilename[i] # Empty
    BY <2>1 DEF PathsInv
  <2>3. \/ pc' = "answered" \/ pc' = "serve" \/ pc' = "listing"
        \/ /\ pc' = "expand" /\ expnfilename' = Index(expnfilename)
           /\ Index(expnfilename) # <<>>
    BY <1>6 DEF Start, Answer, GoTo
  <2>4. CASE pc' = "answered"
    BY <2>4 DEF PathsInv
  <2>5. CASE pc' = "serve" \/ pc' = "listing"
    BY <2>1, <2>2, <2>5 DEF PathsInv
  <2>6. CASE /\ pc' = "expand" /\ expnfilename' = Index(expnfilename)
             /\ Index(expnfilename) # <<>>
    <3>1. NamesFile(Index(expnfilename))
      <4>1. PICK e : e = expnfilename
        OBVIOUS
      <4> QED BY <2>2, <2>6, <4>1, IndexNamed
    <3>2. NamesFile(expnfilename)'
      BY <2>6, <3>1 DEF NamesFile, FreeBefore
    <3> QED BY <2>1, <2>2, <2>6, <3>2 DEF PathsInv
  <2> QED BY <2>3, <2>4, <2>5, <2>6
<1>7. CASE GotIndex \/ Listing \/ Serve
  <2>1. \/ pc' = "answered"
        \/ site' = site /\ url' = url /\ pc = "expanded" /\ pc' = "serve"
    BY <1>7 DEF GotIndex, Listing, Serve, Answer, GoTo
  <2> QED BY <2>1 DEF PathsInv
<1>8. CASE pc = "answered" /\ UNCHANGED vars
  BY <1>8 DEF vars, PathsInv
<1> QED BY <1>1, <1>2, <1>3, <1>4, <1>5, <1>6, <1>7, <1>8 DEF PathNext

LEMMA PathsBegin == CallInit => PathsInv
<1> SUFFICES ASSUME CallInit PROVE PathsInv
  OBVIOUS
<1>1. CASE PathInit
  BY <1>1, NamesAssumption DEF PathInit, PathsInv
<1>2. CASE NoRequest
  <2>1. pc = "answered"
    BY <1>2, Zenon DEF NoRequest
  <2> QED BY <2>1 DEF PathsInv
<1> QED BY <1>1, <1>2 DEF CallInit

LEMMA ExpansionFollows == PathsInv /\ CleanedRight => ExpansionRight
<1> SUFFICES ASSUME PathsInv, pc = "expanded"
             PROVE  /\ CheckedOrChrooted /\ NoDots(expnfilename) =>
                         /\ Stat(checked) = FurthestOf(expnfilename)
                         /\ rest = <<>> <=> PlaceOf(expnfilename) # Nowhere
                    /\ ~site.no_symlink_check =>
                         /\ Up \notin ToSet(checked)
                         /\ \A i \in 1 .. Len(checked) :
                              Kind(Lstat(SubSeq(checked, 1, i))) # "link"
  BY DEF ExpansionRight, NoDots
<1>1. Resolved(checked, rest, expnfilename)
  BY DEF PathsInv
<1>2. ASSUME ~site.no_symlink_check
      PROVE  /\ Up \notin ToSet(checked)
             /\ \A i \in 1 .. Len(checked) : Kind(Lstat(SubSeq(checked, 1, i))) # "link"
  <2>1. Trail(checked)
    BY <1>1, <1>2 DEF Resolved
  <2> QED BY <2>1 DEF Trail, ToSet
<1> QED BY <1>1, <1>2 DEF Resolved

LEMMA PathsStay == PathsInv /\ [CallNext]_callVars => PathsInv'
<1> SUFFICES ASSUME PathsInv, [CallNext]_callVars PROVE PathsInv'
  OBVIOUS
<1>1. CASE PathNext
  BY <1>1, PathsKept
<1>2. CASE UNCHANGED callVars
  <2>1. /\ site' = site /\ url' = url /\ pc' = pc /\ expnfilename' = expnfilename
        /\ checked' = checked /\ rest' = rest /\ nlinks' = nlinks
    BY <1>2 DEF callVars, vars, links
  <2>2. pc = "component" => Resolving(checked, rest, nlinks, expnfilename)'
    BY <2>1, ResolvingKept DEF PathsInv
  <2>3. pc = "expanded" => Resolved(checked, rest, expnfilename)'
    BY <2>1, ResolvedKept DEF PathsInv
  <2>4. CASE pc = "answered"
    BY <2>1, <2>4 DEF PathsInv
  <2>5. CASE pc # "answered"
    BY <2>1, <2>2, <2>3, <2>5 DEF PathsInv, NamesFile, FreeBefore
  <2> QED BY <2>4, <2>5
<1> QED BY <1>1, <1>2 DEF CallNext

\* expand_symlinks, whatever the links and the path: what it returns leads to the
\* file that a walk from link to link finds for the name, or to the last one it
\* finds; where links are checked it has no links and no ".." left; and there is a
\* rest just when the name leads nowhere (libhttpd.c 1680-1685).
THEOREM ExpansionAlwaysRight == CallSpec => []ExpansionRight
<1>1. PathsInv /\ [CallNext]_callVars => PathsInv'
  BY PathsStay
<1>2. PathsInv /\ CleanedRight => ExpansionRight
  BY ExpansionFollows
<1> QED BY <1>1, <1>2, PathsBegin, CleanedAlways, PTL DEF CallSpec

(***************************************************************************)
(* What a request gets.                                                    *)
(***************************************************************************)
\* stat never ends at a link.
LEMMA StatEnds ==
  ASSUME site \in Sites, NEW w \in Walker, NEW how \in Modes, how = "stat",
         w.at \in DOMAIN site.tree, Kind(w.at) # "link", EndOf(w, how) # Nowhere
  PROVE  EndOf(w, how) \in DOMAIN site.tree /\ Kind(EndOf(w, how)) # "link"
<1> DEFINE G == {v \in Walker : v.at \in DOMAIN site.tree /\ Kind(v.at) # "link"}
           R == {p \in DOMAIN site.tree : Kind(p) # "link"} \cup {Nowhere}
<1>1. G \in SUBSET Walker
  OBVIOUS
<1>2. ASSUME NEW v \in G, v.path # <<>>, ~Lost(v, how) PROVE Further(v, how) \in G
  <2>1. v \in Walker /\ v.at \in DOMAIN site.tree /\ Kind(v.at) # "link"
    OBVIOUS
  <2>2. Further(v, how) \in Walker
    BY <1>2, <2>1, FurtherRight
  <2>3. <<>> \in DOMAIN site.tree /\ Kind(<<>>) # "link"
    BY RootsKnown
  <2>4. Further(v, how).at \in DOMAIN site.tree /\ Kind(Further(v, how).at) # "link"
    <3>1. CASE v.path[1] = Up
      <4> DEFINE y == IF v.at \in {v.top, <<>>} THEN v.at ELSE Front(v.at)
      <4>1. y \in DOMAIN site.tree /\ Kind(y) # "link"
        <5>1. v.at # <<>> => Front(v.at) \in DOMAIN site.tree /\ Kind(Front(v.at)) = "dir"
          BY <2>1, TreeKnown
        <5> QED BY <2>1, <5>1
      <4>2. Further(v, how) = [v EXCEPT !.at = y, !.path = Tail(v.path)]
        BY <3>1 DEF Further
      <4> HIDE DEF y
      <4>3. Further(v, how).at = y
        BY <2>1, <4>2 DEF Walker
      <4> QED BY <4>1, <4>3
    <3>2. CASE v.path[1] # Up /\ v.path[1] \notin Names
      <4>1. Further(v, how) = [v EXCEPT !.path = Tail(v.path)]
        BY <3>2 DEF Further
      <4>2. Further(v, how).at = v.at
        BY <2>1, <4>1 DEF Walker
      <4> QED BY <2>1, <4>2
    <3>3. CASE v.path[1] # Up /\ v.path[1] \in Names /\ ~Followed(v, how)
      <4> DEFINE y == Child(v)
      <4>1. y \in DOMAIN site.tree /\ Kind(y) # "link"
        BY <1>2, <3>3 DEF Lost, Followed
      <4>2. Further(v, how) = [v EXCEPT !.at = y, !.path = Tail(v.path)]
        BY <3>3 DEF Further
      <4> HIDE DEF y
      <4>3. Further(v, how).at = y
        BY <2>1, <4>2 DEF Walker
      <4> QED BY <4>1, <4>3
    <3>4. CASE v.path[1] # Up /\ v.path[1] \in Names /\ Followed(v, how)
      <4>1. Further(v, how).at \in {<<>>, v.at}
        BY <3>4 DEF Further
      <4> QED BY <2>1, <2>3, <4>1
    <3> QED BY <3>1, <3>2, <3>3, <3>4
  <2> QED BY <2>2, <2>4
<1>3. ASSUME NEW v \in G, v.path = <<>> \/ Lost(v, how) PROVE WalkEnd(v, how) \in R
  <2>1. how # "reach"
    OBVIOUS
  <2> QED BY <1>3, <2>1 DEF WalkEnd
<1>4. w \in G
  OBVIOUS
<1>5. EndOf(w, how) \in R
  <2> HIDE DEF G, R
  <2> QED BY <1>1, <1>2, <1>3, <1>4, WalkEndsIn
<1> QED BY <1>5

LEMMA StatFound ==
  ASSUME site \in Sites, NEW e \in Path, Stat(e) # Nowhere
  PROVE  Stat(e) \in DOMAIN site.tree /\ Kind(Stat(e)) # "link" /\ e # <<>>
<1> DEFINE w == [at |-> Base(e), top |-> <<>>, path |-> e, n |-> MAX_LINKS]
<1>1. e # <<>>
  BY DEF Stat, Kernel
<1>2. w \in Walker
  BY BasePlace, RootsKnown, SiteAssumption DEF Walker
<1>3. w.at \in DOMAIN site.tree /\ Kind(w.at) # "link"
  BY BasePlace
<1>4. PICK how \in Modes : how = "stat"
  BY DEF Modes
<1>5. Stat(e) = EndOf(w, how)
  BY <1>1, <1>4 DEF Stat, Kernel, EndOf
<1> HIDE DEF w
<1> QED BY <1>1, <1>2, <1>3, <1>4, <1>5, StatEnds

\* de_dotdot leaves no "." before the end.
LEMMA WithoutDots ==
  ASSUME NEW e \in Path, FreeBefore(e, Dot) PROVE NoDots(e)
<1> DEFINE t1 == Trim(e)
<1>1. e \in Seq(Parts) /\ Len(e) \in Nat
  BY PathOfParts
<1>2. t1 \in Path /\ Len(t1) <= Len(e) /\ \A i \in 1 .. Len(t1) : t1[i] = e[i]
  <2>1. CASE e # <<>> /\ Last(e) = Empty
    <3>1. t1 = Front(e) /\ e \in SomePath
      BY <2>1 DEF Trim, SomePath
    <3>2. /\ Front(e) \in Path /\ Len(Front(e)) = Len(e) - 1
          /\ \A i \in 1 .. Len(e) - 1 : Front(e)[i] = e[i]
      BY <3>1, FrontAndLast
    <3> HIDE DEF t1
    <3> QED BY <1>1, <3>1, <3>2
  <2>2. CASE ~(e # <<>> /\ Last(e) = Empty)
    BY <1>1, <2>2 DEF Trim
  <2> QED BY <2>1, <2>2
<1> HIDE DEF t1
<1>3. CASE t1 = <<>>
  <2>1. Front(t1) = SubSeq(<<>>, 1, Len(<<>>) - 1)
    BY <1>3 DEF Front
  <2>2. Len(Front(t1)) = 0
    BY <2>1
  <2>3. ToSet(Front(t1)) = {}
    BY <2>2 DEF ToSet
  <2> QED BY <2>3 DEF NoDots, t1
<1>4. CASE t1 # <<>>
  <2>1. t1 \in SomePath
    BY <1>2, <1>4 DEF SomePath
  <2>2. /\ Len(Front(t1)) = Len(t1) - 1 /\ Len(t1) \in Nat
        /\ \A i \in 1 .. Len(t1) - 1 : Front(t1)[i] = t1[i]
    BY <2>1, FrontAndLast
  <2>3. ASSUME NEW i \in 1 .. Len(Front(t1)) PROVE Front(t1)[i] # Dot
    <3>1. i \in 1 .. Len(t1) - 1 /\ i \in 1 .. Len(t1) /\ i \in 1 .. Len(e) - 1
      BY <1>1, <1>2, <2>2
    <3> QED BY <1>2, <2>2, <3>1 DEF FreeBefore
  <2>4. Dot \notin ToSet(Front(t1))
    BY <2>3 DEF ToSet
  <2> QED BY <2>4 DEF NoDots, t1
<1> QED BY <1>3, <1>4

LEMMA NameWithoutDots ==
  ASSUME url \in SomePath PROVE NoDots(FileName(Cleaned)) /\ FileName(Cleaned) \in Path
<1> DEFINE r == Cleaned
<1>1. r \in SomePath /\ r \in Path /\ FreeBefore(r, Dot) /\ r \in Seq(Parts)
      /\ Len(r) \in Nat /\ Len(r) > 0
  BY CleanedFits, PathOfParts DEF SomePath
<1> HIDE DEF r
<1>2. Host \in Parts /\ Host # Dot
  BY NamesAssumption DEF Parts
<1>3. CASE site.vhost
  <2> DEFINE hd == <<Host>>
             x == hd \o r
  <2>1. hd \in Seq(Parts) /\ Len(hd) = 1 /\ hd[1] = Host
    BY <1>2
  <2> HIDE DEF hd
  <2>2. /\ x \in Seq(Parts) /\ Len(x) = Len(r) + 1
        /\ \A k \in 1 .. Len(r) + 1 : x[k] = IF k <= 1 THEN Host ELSE r[k - 1]
    <3>1. /\ x \in Seq(Parts) /\ Len(x) = Len(hd) + Len(r)
          /\ \A k \in 1 .. Len(hd) + Len(r) : x[k] = IF k <= Len(hd) THEN hd[k] ELSE r[k - Len(hd)]
      BY <1>1, <2>1, Concatenated
    <3> HIDE DEF x
    <3> QED BY <1>1, <2>1, <3>1
  <2>3. FileName(Cleaned) = x
    BY <1>3 DEF FileName, r, hd
  <2> HIDE DEF x
  <2>4. ASSUME NEW j \in 1 .. Len(x) - 1 PROVE x[j] # Dot
    <3>1. j \in 1 .. Len(r) + 1 /\ (~(j <= 1) => j - 1 \in 1 .. Len(r) - 1)
      BY <1>1, <2>2
    <3> QED BY <1>1, <1>2, <2>2, <3>1 DEF FreeBefore
  <2>5. x \in Path /\ FreeBefore(x, Dot)
    BY <2>2, <2>4, PathOfParts DEF FreeBefore
  <2> QED BY <2>3, <2>5, WithoutDots
<1>4. CASE ~site.vhost /\ r = <<Empty>>
  <2>1. FileName(Cleaned) = <<>>
    BY <1>4 DEF FileName, r
  <2>2. <<>> \in Path /\ FreeBefore(<<>>, Dot)
    BY PathOfParts DEF FreeBefore
  <2> QED BY <2>1, <2>2, WithoutDots
<1>5. CASE ~site.vhost /\ r # <<Empty>>
  <2>1. FileName(Cleaned) = r
    BY <1>5 DEF FileName, r
  <2> QED BY <1>1, <2>1, WithoutDots
<1> QED BY <1>3, <1>4, <1>5

\* A relative trail stays in the web tree.
LEMMA InsideTree ==
  ASSUME site \in Sites, NEW e, Trail(e), e # <<>>, e[1] # Empty
  PROVE  /\ IsPrefix(site.cwd, Lstat(e)) /\ Lstat(e) \in DOMAIN site.tree
         /\ \A how \in Modes : Kernel(e, how) = Lstat(e)
<1>1. PICK c : c = Last(e)
  OBVIOUS
<1>2. PICK a : a = At(Front(e), <<c>>)
  OBVIOUS
<1>3. /\ a \in Places /\ Lstat(e) = IF c \in Names THEN Append(a, c) ELSE a
      /\ Base(e) \in Places /\ IsPrefix(Base(e), a) /\ Lstat(e) \in DOMAIN site.tree
      /\ \A how \in Modes : Kernel(e, how) = Lstat(e)
  BY <1>1, <1>2, TrailEnd
<1>4. Base(e) = site.cwd
  BY DEF Base
<1>5. IsPrefix(site.cwd, Lstat(e))
  BY <1>3, <1>4, PrefixMore
<1> QED BY <1>3, <1>5

LEMMA RootFound ==
  ASSUME site \in Sites
  PROVE  Lstat(<<Empty>>) = <<>>
<1>1. Empty \in Parts /\ Empty # Up /\ Empty \notin Names
  BY NamesAssumption, Specials DEF Parts
<1>2. At(<<>>, <<Empty>>) = <<>>
  BY DEF At, Base
<1>3. Append(<<>>, Empty) = <<Empty>>
  OBVIOUS
<1> QED BY <1>1, <1>2, <1>3, RootsKnown, LeadsNone, LstatBehind

\* The part of a trail that spells the web tree leads there.
LEMMA CwdTrail ==
  ASSUME site \in Sites, NEW p, Trail(p), IsPrefix(<<Empty>> \o site.cwd, p)
  PROVE  /\ Len(p) >= Len(site.cwd) + 1 /\ Len(site.cwd) \in Nat
         /\ Lstat(SubSeq(p, 1, Len(site.cwd) + 1)) = site.cwd
<1>1. PICK cwd : cwd = site.cwd
  OBVIOUS
<1> DEFINE n == Len(cwd)
           s == <<Empty>>
           x == s \o cwd
           P == {j \in 0 .. n : Lstat(SubSeq(p, 1, j + 1)) = SubSeq(cwd, 1, j)}
<1>2. /\ cwd \in Seq(Names) /\ cwd \in Seq(Parts) /\ n \in Nat /\ p \in Seq(Parts)
      /\ Len(p) \in Nat /\ s \in Seq(Parts) /\ Len(s) = 1 /\ s[1] = Empty
  <2>1. cwd \in Seq(Names) /\ p \in Path
    BY <1>1, RootsKnown DEF Places, Trail
  <2>2. cwd \in Seq(Parts)
    BY <2>1 DEF Parts
  <2>3. Empty \in Parts
    BY DEF Parts
  <2> QED BY <2>1, <2>2, <2>3, PathOfParts
<1> HIDE DEF s
<1>3. /\ x \in Seq(Parts) /\ Len(x) = n + 1
      /\ \A k \in 1 .. n + 1 : x[k] = IF k <= 1 THEN Empty ELSE cwd[k - 1]
  <2>1. /\ x \in Seq(Parts) /\ Len(x) = Len(s) + Len(cwd)
        /\ \A k \in 1 .. Len(s) + Len(cwd) :
             x[k] = IF k <= Len(s) THEN s[k] ELSE cwd[k - Len(s)]
    BY <1>2, Concatenated
  <2> HIDE DEF x
  <2> QED BY <1>2, <2>1
<1>4. IsPrefix(x, p)
  BY <1>1 DEF s
<1> HIDE DEF x
<1>5. n + 1 <= Len(p) /\ SubSeq(x, 1, n + 1) = SubSeq(p, 1, n + 1)
  BY <1>3, <1>4 DEF IsPrefix
<1>6. \A k \in 1 .. n + 1 : p[k] = x[k]
  <2> SUFFICES ASSUME NEW k \in 1 .. n + 1 PROVE p[k] = x[k]
    OBVIOUS
  <2>1. SubSeq(x, 1, n + 1)[k] = x[k]
    BY <1>2, <1>3
  <2>2. SubSeq(p, 1, n + 1)[k] = p[k]
    BY <1>2, <1>5
  <2> QED BY <1>5, <2>1, <2>2
<1>7. p[1] = Empty /\ \A k \in 1 .. n : p[k + 1] = cwd[k]
  <2>1. 1 \in 1 .. n + 1
    BY <1>2
  <2>2. ASSUME NEW k \in 1 .. n PROVE p[k + 1] = cwd[k]
    <3>1. k + 1 \in 1 .. n + 1 /\ ~(k + 1 <= 1) /\ (k + 1) - 1 = k
      BY <1>2
    <3> QED BY <1>3, <1>6, <3>1
  <2> QED BY <1>3, <1>6, <2>1, <2>2
<1>8. 0 \in P
  <2>1. PICK f : f = SubSeq(p, 1, 1)
    OBVIOUS
  <2>2. f \in Seq(Parts) /\ Len(f) = 1 /\ f[1] = Empty
    BY <1>2, <1>5, <1>7, <2>1
  <2>3. f = s
    <3>1. \A i \in 1 .. Len(f) : f[i] = s[i]
      BY <1>2, <2>2
    <3> QED BY <1>2, <2>2, <3>1, SeqEqual
  <2>4. Lstat(f) = <<>>
    BY <2>3, RootFound DEF s
  <2>5. SubSeq(cwd, 1, 0) = <<>>
    BY <1>2
  <2>6. 0 + 1 = 1 /\ 0 \in 0 .. n
    BY <1>2
  <2>7. Lstat(SubSeq(p, 1, 0 + 1)) = SubSeq(cwd, 1, 0)
    BY <2>1, <2>4, <2>5, <2>6
  <2> QED BY <2>6, <2>7
<1>9. ASSUME NEW k \in 1 .. n, k - 1 \in P PROVE k \in P
  <2> DEFINE r == SubSeq(p, 1, k)
             z == SubSeq(p, 1, k + 1)
             c == cwd[k]
  <2>1. /\ c \in Names /\ c \in Parts /\ c # Up /\ k \in 0 .. Len(p) /\ k + 1 \in 0 .. Len(p)
        /\ k \in 0 .. Len(p) - 1 /\ k + 1 \in 1 .. Len(p)
    BY <1>2, <1>5, NamesAssumption DEF Parts
  <2>2. Trail(r) /\ Trail(z)
    BY <2>1, TrailStarts
  <2>3. Append(r, c) = z
    <3>1. Append(SubSeq(p, 1, k), p[k + 1]) = SubSeq(p, 1, k + 1)
      BY <1>2, <2>1, SubSeqMore
    <3> QED BY <1>7, <3>1
  <2>4. r # <<>>
    <3>1. Len(r) = k
      BY <1>2, <2>1
    <3> HIDE DEF r
    <3> QED BY <3>1
  <2>5. Lstat(z) # Nowhere
    BY <2>1 DEF Trail
  <2>6. Lstat(r) = SubSeq(cwd, 1, k - 1)
    <3>1. (k - 1) + 1 = k
      OBVIOUS
    <3> QED BY <1>9, <3>1
  <2> HIDE DEF r, z, c
  <2>7. Lstat(Append(r, c)) = Append(At(r, <<c>>), c)
    <3>1. Leads(r)
      BY <2>2, OwnLead
    <3> QED BY <2>1, <2>3, <2>5, <3>1, LstatBehind
  <2>8. At(r, <<c>>) = Lstat(r)
    BY <2>4 DEF At
  <2>9. Append(SubSeq(cwd, 1, k - 1), cwd[(k - 1) + 1]) = SubSeq(cwd, 1, (k - 1) + 1)
    <3>1. k - 1 \in 0 .. Len(cwd) - 1
      BY <1>2
    <3> QED BY <1>2, <3>1, SubSeqMore
  <2>10. (k - 1) + 1 = k
    OBVIOUS
  <2>11. Append(SubSeq(cwd, 1, k - 1), c) = SubSeq(cwd, 1, k)
    BY <2>9, <2>10 DEF c
  <2>12. Lstat(z) = SubSeq(cwd, 1, k)
    BY <2>3, <2>6, <2>7, <2>8, <2>11
  <2> QED BY <2>12 DEF z
<1>10. n \in P
  <2> HIDE DEF P, n
  <2>1. Inductive(P, n)
    BY <1>8, <1>9 DEF Inductive
  <2> QED BY <1>2, <2>1, CountUp
<1>11. SubSeq(cwd, 1, n) = cwd
  BY <1>2
<1> QED BY <1>1, <1>2, <1>5, <1>10, <1>11

\* A checked name in the tree, without the name of the tree before it, leads to
\* the same file.
LEMMA TreeTrail ==
  ASSUME site \in Sites, NEW p, Trail(p), Slashless(p), InTree(p)
  PROVE  LET y == SubSeq(p, Len(site.cwd) + 2, Len(p))
         IN  /\ Trail(y)
             /\ \A i \in 1 .. Len(y) : y[i] # Empty
             /\ y # <<>> => Stat(y) = Stat(p)
<1>1. PICK cwd : cwd = site.cwd
  OBVIOUS
<1>2. PICK m : m = Len(cwd) + 1
  OBVIOUS
<1> DEFINE pre == SubSeq(p, 1, m)
           y == SubSeq(p, m + 1, Len(p))
<1>3. /\ m \in Nat /\ m >= 1 /\ m <= Len(p) /\ Lstat(pre) = cwd
      /\ p \in Seq(Parts) /\ Len(p) \in Nat
  <2>1. /\ Len(p) >= Len(site.cwd) + 1 /\ Len(site.cwd) \in Nat
        /\ Lstat(SubSeq(p, 1, Len(site.cwd) + 1)) = site.cwd
    BY CwdTrail DEF InTree
  <2>2. p \in Seq(Parts)
    BY PathOfParts DEF Trail
  <2> QED BY <1>1, <1>2, <2>1, <2>2
<1>4. /\ y \in Seq(Parts) /\ Len(y) = Len(p) - m
      /\ \A i \in 1 .. Len(y) : y[i] = p[m + i]
  BY <1>3
<1>5. pre \in Seq(Parts) /\ Len(pre) = m /\ \A i \in 1 .. m : pre[i] = p[i]
  BY <1>3
<1>6. Trail(pre)
  <2>1. m \in 0 .. Len(p)
    BY <1>3
  <2> QED BY <2>1, TrailStarts
<1>7. pre # <<>>
  BY <1>3, <1>5
<1> HIDE DEF pre, y
<1>8. ASSUME NEW i \in 1 .. Len(y) PROVE y[i] # Empty
  <2>1. m + i \in 2 .. Len(p)
    BY <1>3, <1>4
  <2> QED BY <1>4, <2>1 DEF Slashless
<1>9. ASSUME NEW k \in 1 .. Len(y), NEW how \in Modes
      PROVE  /\ SubSeq(p, 1, m + k) = pre \o SubSeq(y, 1, k)
             /\ Kernel(SubSeq(p, 1, m + k), how) = Kernel(SubSeq(y, 1, k), how)
  <2> DEFINE z == SubSeq(y, 1, k)
             full == SubSeq(p, 1, m + k)
  <2>1. /\ z \in Seq(Parts) /\ Len(z) = k /\ \A i \in 1 .. k : z[i] = y[i]
    BY <1>4
  <2>2. m + k <= Len(p) /\ m + k \in Nat /\ k >= 1 /\ k \in Nat
    BY <1>3, <1>4
  <2>3. /\ full \in Seq(Parts) /\ Len(full) = m + k /\ \A i \in 1 .. m + k : full[i] = p[i]
    BY <1>3, <2>2
  <2> HIDE DEF z, full
  <2>4. /\ pre \o z \in Seq(Parts) /\ Len(pre \o z) = m + k
        /\ \A i \in 1 .. m + k : (pre \o z)[i] = IF i <= m THEN pre[i] ELSE z[i - m]
    <3>1. /\ pre \o z \in Seq(Parts) /\ Len(pre \o z) = Len(pre) + Len(z)
          /\ \A i \in 1 .. Len(pre) + Len(z) :
               (pre \o z)[i] = IF i <= Len(pre) THEN pre[i] ELSE z[i - Len(pre)]
      BY <1>5, <2>1, Concatenated
    <3> QED BY <1>5, <2>1, <3>1
  <2>5. ASSUME NEW i \in 1 .. m + k PROVE full[i] = (pre \o z)[i]
    <3>1. CASE i <= m
      <4>1. i \in 1 .. m
        BY <1>3, <2>2, <3>1
      <4> QED BY <1>5, <2>3, <2>4, <3>1, <4>1
    <3>2. CASE ~(i <= m)
      <4>1. i - m \in 1 .. k /\ i - m \in 1 .. Len(y) /\ m + (i - m) = i
        BY <1>3, <1>4, <2>2, <3>2
      <4> QED BY <1>4, <2>1, <2>3, <2>4, <3>2, <4>1
    <3> QED BY <3>1, <3>2
  <2>6. full = pre \o z
    BY <2>3, <2>4, <2>5, SeqEqual
  <2>7. z \in SomePath /\ z # <<>> /\ z[1] # Empty
    <3>1. 1 \in 1 .. k /\ 1 \in 1 .. Len(y)
      BY <1>4, <2>2
    <3>2. z[1] # Empty
      BY <1>8, <2>1, <3>1
    <3>3. z # <<>>
      BY <2>1, <2>2
    <3> QED BY <2>1, <3>2, <3>3, PathOfParts DEF SomePath
  <2>8. Kernel(pre \o z, how) = WalkPath(cwd, <<>>, z, MAX_LINKS, how)
    <3>1. Leads(pre)
      BY <1>6, OwnLead
    <3>2. At(pre, z) = cwd
      BY <1>3, <1>7 DEF At
    <3> QED BY <2>7, <3>1, <3>2 DEF Leads
  <2>9. Kernel(z, how) = WalkPath(cwd, <<>>, z, MAX_LINKS, how)
    <3>1. Base(z) = cwd
      BY <1>1, <2>7 DEF Base
    <3> QED BY <2>7, <3>1 DEF Kernel
  <2> QED BY <2>6, <2>8, <2>9 DEF z, full
<1>10. Trail(y)
  <2>1. ASSUME NEW k \in 1 .. Len(y)
        PROVE  /\ y[k] # Up /\ Lstat(SubSeq(y, 1, k)) # Nowhere
               /\ Kind(Lstat(SubSeq(y, 1, k))) # "link"
    <3>1. m + k \in 1 .. Len(p)
      BY <1>3, <1>4
    <3>2. p[m + k] # Up /\ Lstat(SubSeq(p, 1, m + k)) # Nowhere
          /\ Kind(Lstat(SubSeq(p, 1, m + k))) # "link"
      BY <3>1 DEF Trail
    <3>3. Lstat(SubSeq(p, 1, m + k)) = Lstat(SubSeq(y, 1, k))
      <4>1. PICK how \in Modes : how = "lstat"
        BY DEF Modes
      <4> QED BY <1>9, <4>1 DEF Lstat
    <3> QED BY <1>4, <3>2, <3>3
  <2>2. y \in Path
    BY <1>4, PathOfParts
  <2> QED BY <2>1, <2>2 DEF Trail
<1>11. ASSUME y # <<>> PROVE Stat(y) = Stat(p)
  <2>1. Len(y) \in 1 .. Len(y) /\ m + Len(y) = Len(p)
    BY <1>3, <1>4, <1>11
  <2>2. SubSeq(y, 1, Len(y)) = y /\ SubSeq(p, 1, Len(p)) = p
    BY <1>3, <1>4
  <2>3. PICK how \in Modes : how = "stat"
    BY DEF Modes
  <2>4. Kernel(SubSeq(p, 1, m + Len(y)), how) = Kernel(SubSeq(y, 1, Len(y)), how)
    BY <1>9, <2>1
  <2> QED BY <2>1, <2>2, <2>3, <2>4 DEF Stat
<1>12. m + 1 = Len(site.cwd) + 2
  <2>1. Len(site.cwd) \in Nat
    BY RootsKnown DEF Places
  <2> QED BY <1>1, <1>2, <2>1
<1> QED BY <1>8, <1>10, <1>11, <1>12 DEF y

\* A name without an empty component has nothing to cut off.
LEMMA TrimStays ==
  ASSUME NEW e \in Path, \A i \in 1 .. Len(e) : e[i] # Empty PROVE Trim(e) = e
<1> SUFFICES ASSUME e # <<>> PROVE Last(e) # Empty
  BY DEF Trim
<1>1. Len(e) \in 1 .. Len(e)
  BY PathOfParts
<1> QED BY <1>1 DEF Last

LEMMA IndexName ==
  ASSUME NEW e \in Path, \A i \in 1 .. Len(e) : e[i] # Empty, e # <<>>, NEW n
  PROVE  IndexOf(e, n) = IF e = <<Dot>> THEN <<n>> ELSE Append(e, n)
<1>1. Trim(e) = e
  BY TrimStays
<1> QED BY <1>1 DEF IndexOf

\* What is in the directory a trail leads to.
LEMMA TrailMember ==
  ASSUME site \in Sites, NEW e, Trail(e), e # <<>>, NEW n \in Names
  PROVE  Stat(Append(e, n)) = WalkPath(Stat(e), <<>>, <<n>>, MAX_LINKS, "stat")
<1> DEFINE s == <<n>>
<1>1. PICK how \in Modes : how = "stat"
  BY DEF Modes
<1>2. n \in Parts
  BY DEF Parts
<1>3. s \in SomePath /\ s # <<>>
  BY <1>2, OneComponent
<1>4. e \o s = Append(e, n)
  BY <1>2, PathOfParts DEF Trail
<1> HIDE DEF s
<1>5. Leads(e) /\ Kernel(e, how) = Lstat(e)
  BY TrailEnd
<1>6. At(e, s) = Lstat(e)
  BY DEF At
<1>7. Kernel(e \o s, how) = WalkPath(Lstat(e), <<>>, s, MAX_LINKS, how)
  BY <1>3, <1>5, <1>6 DEF Leads
<1> QED BY <1>1, <1>4, <1>5, <1>7 DEF Stat, s

LEMMA CwdMember ==
  ASSUME site \in Sites, NEW n \in Names
  PROVE  Stat(<<n>>) = WalkPath(site.cwd, <<>>, <<n>>, MAX_LINKS, "stat")
<1> DEFINE s == <<n>>
<1>1. s # <<>> /\ s[1] # Empty
  BY NamesAssumption
<1>2. Base(s) = site.cwd
  BY <1>1 DEF Base
<1>3. Stat(s) = WalkPath(site.cwd, <<>>, s, MAX_LINKS, "stat")
  BY <1>1, <1>2 DEF Stat, Kernel
<1> QED BY <1>3 DEF s

\* The index file of a trail's directory.
LEMMA TrailIndex ==
  ASSUME site \in Sites, NEW e, Trail(e), e # <<>>,
         \A i \in 1 .. Len(e) : e[i] # Empty, NEW n \in Names
  PROVE  Stat(IndexOf(e, n)) = WalkPath(Stat(e), <<>>, <<n>>, MAX_LINKS, "stat")
<1>1. e \in Path
  BY DEF Trail
<1>2. CASE e = <<Dot>>
  <2>1. IndexOf(e, n) = <<n>>
    BY <1>1, <1>2, IndexName
  <2>2. PICK how \in Modes : how = "stat"
    BY DEF Modes
  <2>3. Stat(e) = site.cwd
    BY <1>2, <2>2, DotTrail DEF Stat
  <2> QED BY <2>1, <2>3, CwdMember
<1>3. CASE e # <<Dot>>
  <2>1. IndexOf(e, n) = Append(e, n)
    BY <1>1, <1>3, IndexName
  <2> QED BY <2>1, TrailMember
<1> QED BY <1>2, <1>3

\* An index file of what the name a asks for.
MemberAt(a, n) ==
  IF site.no_symlink_check THEN Stat(Append(Trim(a), n))
  ELSE WalkPath(PlaceOf(a), <<>>, <<n>>, MAX_LINKS, "stat")

\* What expand_symlinks leaves of the name a: a trail, or, with no_symlink_check,
\* a name that is there.
Left(a, e, info) ==
  \/ Trail(e) /\ (site.no_symlink_check => Stat(a) = Nowhere)
  \/ site.no_symlink_check /\ e = Trim(a) /\ info = <<>> /\ Stat(a) # Nowhere

\* From the root, only the name of nothing leads to a directory that stat does not
\* find.
LEMMA NothingAsked ==
  ASSUME site \in Sites, NEW a, NamesFile(a), site.cwd = <<>>, Stat(a) = Nowhere,
         PlaceOf(a) # Nowhere, Kind(PlaceOf(a)) = "dir"
  PROVE  a = <<>> /\ PlaceOf(a) = <<>>
<1>1. PICK how \in Modes : how = "stat"
  BY DEF Modes
<1> DEFINE t1 == Trim(a)
<1>2. t1 \in Path /\ (a = t1 \/ a = Append(t1, Empty))
  BY TrimClear DEF NamesFile
<1>3. <<>> \in Places /\ MAX_LINKS \in Nat
  BY RootsKnown, SiteAssumption
<1>4. PlaceOf(a) = WalkPath(<<>>, <<>>, t1, MAX_LINKS, how)
  BY <1>1 DEF PlaceOf, LeadsTo
<1> HIDE DEF t1
<1>5. PlaceOf(a) \in DOMAIN site.tree
  <2> DEFINE w == [at |-> <<>>, top |-> <<>>, path |-> t1, n |-> MAX_LINKS]
  <2>1. w \in Walker
    BY <1>2, <1>3 DEF Walker
  <2>2. w.at \in DOMAIN site.tree /\ Kind(w.at) # "link"
    BY RootsKnown
  <2>3. EndOf(w, how) = PlaceOf(a)
    BY <1>4 DEF EndOf
  <2> HIDE DEF w
  <2> QED BY <1>1, <2>1, <2>2, <2>3, StatEnds
<1>6. a = <<>>
  <2> SUFFICES ASSUME a # <<>> PROVE FALSE
    OBVIOUS
  <2>1. Stat(a) = WalkPath(<<>>, <<>>, a, MAX_LINKS, how)
    BY <1>1 DEF Stat, Kernel, Base
  <2>2. PICK d \in DOMAIN site.tree : d = PlaceOf(a)
    BY <1>5
  <2>3. WalkPath(<<>>, <<>>, Append(t1, Empty), MAX_LINKS, how) = d
    BY <1>1, <1>2, <1>3, <1>4, <2>2, DirBehind
  <2>4. WalkPath(<<>>, <<>>, a, MAX_LINKS, how) = d
    BY <1>2, <1>4, <2>2, <2>3
  <2> QED BY <2>1, <2>2, <2>4
<1>7. t1 = <<>>
  BY <1>6 DEF t1, Trim
<1>8. PlaceOf(a) = <<>>
  BY <1>3, <1>4, <1>7, WalkDone
<1> QED BY <1>6, <1>8

\* really_start_request looks for the index files where the name leads.
LEMMA Members ==
  ASSUME site \in Sites, NEW a, NamesFile(a), NEW e \in Path, NEW info, Left(a, e, info),
         \A i \in 1 .. Len(e) : e[i] # Empty, e # <<>>,
         CheckedOrChrooted, PlaceOf(a) # Nowhere, Stat(e) = PlaceOf(a),
         Kind(PlaceOf(a)) = "dir", NEW n \in Names
  PROVE  Stat(IndexOf(e, n)) = MemberAt(a, n)
<1>1. CASE Trail(e) /\ ~site.no_symlink_check
  <2>1. Stat(IndexOf(e, n)) = WalkPath(Stat(e), <<>>, <<n>>, MAX_LINKS, "stat")
    BY <1>1, TrailIndex
  <2> QED BY <1>1, <2>1 DEF MemberAt
<1>2. CASE Trail(e) /\ site.no_symlink_check /\ Stat(a) = Nowhere
  <2>1. site.cwd = <<>>
    BY <1>2 DEF CheckedOrChrooted
  <2>2. a = <<>> /\ PlaceOf(a) = <<>>
    BY <1>2, <2>1, NothingAsked
  <2>3. Stat(IndexOf(e, n)) = WalkPath(<<>>, <<>>, <<n>>, MAX_LINKS, "stat")
    BY <1>2, <2>2, TrailIndex
  <2>4. Append(Trim(a), n) = <<n>>
    BY <2>2 DEF Trim
  <2>5. Stat(<<n>>) = WalkPath(<<>>, <<>>, <<n>>, MAX_LINKS, "stat")
    BY <2>1, CwdMember
  <2> QED BY <1>2, <2>3, <2>4, <2>5 DEF MemberAt
<1>3. CASE site.no_symlink_check /\ e = Trim(a) /\ Stat(a) # Nowhere
  <2>1. CASE e = <<Dot>>
    <3>1. Trail(e) /\ Stat(e) = site.cwd
      BY <2>1, DotTrail DEF Stat, Modes
    <3>2. IndexOf(e, n) = <<n>>
      BY <2>1, IndexName
    <3>3. Stat(Append(e, n)) = WalkPath(site.cwd, <<>>, <<n>>, MAX_LINKS, "stat")
      BY <3>1, TrailMember
    <3> QED BY <1>3, <3>2, <3>3, CwdMember DEF MemberAt
  <2>2. CASE e # <<Dot>>
    <3>1. IndexOf(e, n) = Append(e, n)
      BY <2>2, IndexName
    <3> QED BY <1>3, <3>1 DEF MemberAt
  <2> QED BY <2>1, <2>2
<1> QED BY <1>1, <1>2, <1>3 DEF Left

\* The name of a request where really_start_request begins.
Begins(a, e, info) ==
  /\ NamesFile(a) /\ Left(a, e, info)
  /\ CheckedOrChrooted /\ NoDots(a) =>
       /\ info = <<>> <=> PlaceOf(a) # Nowhere
       /\ e # <<>> => Stat(e) = FurthestOf(a)

\* What the end of httpd_parse_request does to a name keeps where it leads.
LEMMA Confined ==
  ASSUME site \in Sites, NEW a, NamesFile(a), NEW p \in SomePath, NEW info,
         Slashless(p), Left(a, p, info), Resolved(p, info, a)
  PROVE  /\ p[1] # Empty => Begins(a, p, info)
         /\ p[1] = Empty /\ InTree(p) =>
              Begins(a, SubSeq(p, Len(site.cwd) + 2, Len(p)), info)
<1>1. CheckedOrChrooted /\ NoDots(a) =>
        /\ info = <<>> <=> PlaceOf(a) # Nowhere
        /\ Stat(p) = FurthestOf(a)
  BY DEF Resolved
<1>2. Begins(a, p, info)
  BY <1>1 DEF Begins
<1>3. ASSUME p[1] = Empty, InTree(p)
      PROVE  Begins(a, SubSeq(p, Len(site.cwd) + 2, Len(p)), info)
  <2> DEFINE y == SubSeq(p, Len(site.cwd) + 2, Len(p))
  <2>1. Trail(p) /\ (site.no_symlink_check => Stat(a) = Nowhere)
    <3> SUFFICES ASSUME p = Trim(a) PROVE FALSE
      BY DEF Left
    <3>1. 1 \in 1 .. Len(p)
      BY PathOfParts DEF SomePath
    <3>2. \A i \in 1 .. Len(p) : p[i] # Empty
      BY TrimClear DEF NamesFile
    <3> QED BY <1>3, <3>1, <3>2
  <2>2. Trail(y) /\ (y # <<>> => Stat(y) = Stat(p))
    BY <1>3, <2>1, TreeTrail
  <2> HIDE DEF y
  <2>3. Begins(a, y, info)
    BY <1>1, <2>1, <2>2 DEF Begins, Left
  <2> QED BY <2>3 DEF y
<1> QED BY <1>2, <1>3

\* It stays in the tree.
LEMMA BeginsInside ==
  ASSUME site \in Sites, NEW a, NEW e \in Path, NEW info, Left(a, e, info),
         \A i \in 1 .. Len(e) : e[i] # Empty, CheckedOrChrooted, Stat(e) # Nowhere
  PROVE  IsPrefix(site.cwd, Stat(e))
<1>1. Stat(e) \in DOMAIN site.tree /\ e # <<>>
  BY StatFound
<1>2. CASE Trail(e)
  <2>1. e[1] # Empty
    <3>1. 1 \in 1 .. Len(e)
      BY <1>1, PathOfParts
    <3> QED BY <3>1
  <2>2. IsPrefix(site.cwd, Lstat(e)) /\ \A how \in Modes : Kernel(e, how) = Lstat(e)
    BY <1>1, <1>2, <2>1, InsideTree
  <2> QED BY <2>2 DEF Stat, Modes
<1>3. CASE site.no_symlink_check
  <2>1. site.cwd = <<>>
    BY <1>3 DEF CheckedOrChrooted
  <2>2. Stat(e) \in Places
    BY <1>1, TreeKnown
  <2> QED BY <2>1, <2>2, PrefixSelf
<1> QED BY <1>2, <1>3 DEF Left

\* Where a path leads is as far as it can be followed.
LEMMA FurthestPlace ==
  ASSUME site \in Sites, NEW a \in Path, PlaceOf(a) # Nowhere
  PROVE  PlaceOf(a) = FurthestOf(a) /\ PlaceOf(a) \in DOMAIN site.tree
<1> DEFINE w == [at |-> site.cwd, top |-> site.cwd, path |-> Trim(a), n |-> MAX_LINKS]
<1>1. PICK how \in Modes : how = "stat"
  BY DEF Modes
<1>2. Trim(a) \in Path
  <2>1. a # <<>> => Front(a) \in Path
    BY FrontAndLast DEF SomePath
  <2> QED BY <2>1 DEF Trim
<1>3. w \in Walker /\ w.at \in DOMAIN site.tree /\ Kind(w.at) # "link"
  BY <1>2, RootsKnown, SiteAssumption DEF Walker
<1>4. EndOf(w, "stat") = PlaceOf(a) /\ EndOf(w, "reach") = FurthestOf(a)
  BY DEF EndOf, PlaceOf, FurthestOf, LeadsTo
<1> HIDE DEF w
<1>5. EndOf(w, "reach") = EndOf(w, "stat")
  BY <1>3, <1>4, ReachedWhenFound
<1>6. EndOf(w, how) \in DOMAIN site.tree
  BY <1>1, <1>3, <1>4, StatEnds
<1> QED BY <1>1, <1>4, <1>5, <1>6

\* A trail that leads to a file ends with its name.
LEMMA TrailName ==
  ASSUME site \in Sites, NEW e, Trail(e), e # <<>>, Kind(Stat(e)) = "file"
  PROVE  Last(Stat(e)) = Last(e)
<1>1. PICK c : c = Last(e)
  OBVIOUS
<1>2. PICK x : x = At(Front(e), <<c>>)
  OBVIOUS
<1>3. /\ x \in Places /\ Kind(x) = "dir"
      /\ Lstat(e) = IF c \in Names THEN Append(x, c) ELSE x
      /\ \A how \in Modes : Kernel(e, how) = Lstat(e)
  BY <1>1, <1>2, TrailEnd
<1>4. Stat(e) = Lstat(e)
  BY <1>3 DEF Stat, Modes
<1>5. c \in Names
  BY <1>3, <1>4
<1> QED BY <1>1, <1>3, <1>4, <1>5, ChildPlace

Asked == FileName(Cleaned)

ByIndex(s) ==
  /\ Kind(PlaceOf(Asked)) = "dir"
  /\ \E n \in ToSet(index_names) : MemberAt(Asked, n) # Nowhere /\ s = MemberAt(Asked, n)

Direct(s, e) ==
  Kind(s) = "file" /\ s = Stat(e) /\ s = FurthestOf(Asked) /\ IsPrefix(site.cwd, s)

Listed(s) ==
  /\ s = PlaceOf(Asked) /\ Kind(s) = "dir"
  /\ \A n \in ToSet(index_names) : MemberAt(Asked, n) = Nowhere

\* The file that is opened is what its own name says.
OwnName(a, s, e) ==
  ~site.no_symlink_check /\ Kind(Stat(e)) = "file" =>
    /\ Last(Stat(e)) # AUTH_FILE
    /\ a = "cgi" => Last(Stat(e)) \in CgiNames
    /\ a = "file" /\ site.tree[s].xoth => Last(Stat(e)) \in PlainNames

RightOf(a, ind, s, e) ==
  /\ a \in {"file", "cgi"} =>
       /\ Readable(s) /\ OwnName(a, s, e)
       /\ ind => ByIndex(s)
       /\ ~ind => Direct(s, e)
  /\ a = "file" => ind \/ s = PlaceOf(Asked)
  /\ a = "cgi" => site.tree[s].xoth
  /\ a \in {"listing", "302"} => PlaceOf(Asked) = s /\ Kind(s) = "dir"
  /\ a = "listing" => Listed(s)

LEMMA AskedKept ==
  ASSUME site' = site, url' = url PROVE Asked' = Asked
BY DEF Asked, FileName, Cleaned

\* The file system and the request stay.
LEMMA AnswerKept ==
  ASSUME site' = site, url' = url
  PROVE  /\ Left(Asked, checked, rest)' <=> Left(Asked, checked', rest')
         /\ Begins(Asked, expnfilename, pathinfo)' <=> Begins(Asked, expnfilename', pathinfo')
         /\ ByIndex(sb)' <=> ByIndex(sb')
         /\ Direct(sb, expnfilename)' <=> Direct(sb', expnfilename')
         /\ PlaceOf(Asked)' = PlaceOf(Asked)
         /\ Listed(sb)' <=> Listed(sb')
         /\ Readable(sb)' <=> Readable(sb')
         /\ Trail(expnfilename)' <=> Trail(expnfilename')
         /\ CheckedOrChrooted' <=> CheckedOrChrooted
         /\ Stat(Asked)' = Stat(Asked)
         /\ RightOf(answer, index, sb, expnfilename)' <=> RightOf(answer', index', sb', expnfilename')
<1>1. PICK a : Asked = a /\ Asked' = a
  BY AskedKept
<1>2. /\ Stat(a)' = Stat(a) /\ PlaceOf(a)' = PlaceOf(a) /\ FurthestOf(a)' = FurthestOf(a)
      /\ CheckedOrChrooted' <=> CheckedOrChrooted
  BY SMT DEF LeadsTo, Stat, Kernel, Base, PlaceOf, FurthestOf, CheckedOrChrooted,
     WalkPath, Lost, Followed, Child, Kind, Further, Trim
<1>3. /\ Stat(expnfilename)' = Stat(expnfilename')
      /\ Trail(expnfilename)' <=> Trail(expnfilename')
      /\ Trail(checked)' <=> Trail(checked')
      /\ Kind(sb)' = Kind(sb') /\ Kind(Stat(expnfilename))' = Kind(Stat(expnfilename'))
      /\ Readable(sb)' <=> Readable(sb')
  BY SMT DEF Trail, Lstat, Stat, Kernel, Base, WalkPath, Lost, Followed, Child, Kind,
     Further, Readable
<1>4. /\ Left(Asked, checked, rest)' <=> Left(Asked, checked', rest')
      /\ Left(Asked, expnfilename, pathinfo)' <=> Left(Asked, expnfilename', pathinfo')
  BY <1>1, <1>2, <1>3 DEF Left, Trim
<1>5. ASSUME NEW n PROVE MemberAt(Asked, n)' = MemberAt(Asked, n)
  BY <1>1, <1>2 DEF MemberAt, Trim, Stat, Kernel, Base, WalkPath, Lost, Followed, Child,
     Kind, Further
<1>6. Kind(PlaceOf(Asked))' = Kind(PlaceOf(Asked))
  BY <1>1, <1>2 DEF Kind
<1>7. Begins(Asked, expnfilename, pathinfo)' <=> Begins(Asked, expnfilename', pathinfo')
  BY <1>1, <1>2, <1>3, <1>4 DEF Begins, NoDots, Trim, NamesFile, FreeBefore
<1>8. ByIndex(sb)' <=> ByIndex(sb')
  BY <1>5, <1>6 DEF ByIndex
<1>9. Listed(sb)' <=> Listed(sb')
  BY <1>1, <1>2, <1>3, <1>5 DEF Listed
<1>10. PlaceOf(Asked)' = PlaceOf(Asked)
  BY <1>1, <1>2
<1>11. Direct(sb, expnfilename)' <=> Direct(sb', expnfilename')
  BY <1>1, <1>2, <1>3 DEF Direct
<1>12. OwnName(answer, sb, expnfilename)' <=> OwnName(answer', sb', expnfilename')
  BY <1>3 DEF OwnName
<1>13. RightOf(answer, index, sb, expnfilename)' <=> RightOf(answer', index', sb', expnfilename')
  BY <1>1, <1>2, <1>3, <1>8, <1>9, <1>10, <1>11, <1>12 DEF RightOf
<1> QED BY <1>1, <1>2, <1>3, <1>4, <1>7, <1>8, <1>9, <1>10, <1>11, <1>13

\* What holds of a request before it is answered, and of its answer.
AnswerAt(p, ind, e, c, q, info, s, a) ==
  /\ p = "parse" => ~ind
  /\ p \in {"expand", "component", "expanded"} /\ ~ind => e = Asked
  /\ p = "component" /\ ~ind /\ site.no_symlink_check => Stat(Asked) = Nowhere
  /\ p = "expanded" /\ ~ind => Left(Asked, c, q)
  /\ p \in {"expand", "component", "expanded"} /\ ind /\ CheckedOrChrooted => ByIndex(s)
  /\ p = "start" => ~ind /\ Begins(Asked, e, info)
  /\ p = "serve" =>
       /\ Readable(s) /\ e \in SomePath
       /\ ~site.no_symlink_check => Trail(e)
       /\ CheckedOrChrooted =>
            IF ind THEN ByIndex(s)
            ELSE Direct(s, e) /\ (info = <<>> => s = PlaceOf(Asked))
  /\ p = "listing" /\ CheckedOrChrooted => Listed(s)
  /\ p = "answered" /\ CheckedOrChrooted => RightOf(a, ind, s, e)

AnswerInv == AnswerAt(pc, index, expnfilename, checked, rest, pathinfo, sb, answer)

AnswerNext == AnswerAt(pc', index', expnfilename', checked', rest', pathinfo', sb', answer')

LEMMA AnswerSame ==
  ASSUME site' = site, url' = url, AnswerNext PROVE AnswerInv'
<1>1. /\ Left(Asked, checked, rest)' <=> Left(Asked, checked', rest')
      /\ Begins(Asked, expnfilename, pathinfo)' <=> Begins(Asked, expnfilename', pathinfo')
      /\ ByIndex(sb)' <=> ByIndex(sb')
      /\ Direct(sb, expnfilename)' <=> Direct(sb', expnfilename')
      /\ PlaceOf(Asked)' = PlaceOf(Asked)
      /\ Listed(sb)' <=> Listed(sb')
      /\ Readable(sb)' <=> Readable(sb')
      /\ Trail(expnfilename)' <=> Trail(expnfilename')
      /\ CheckedOrChrooted' <=> CheckedOrChrooted
      /\ Stat(Asked)' = Stat(Asked)
      /\ RightOf(answer, index, sb, expnfilename)' <=> RightOf(answer', index', sb', expnfilename')
  BY AnswerKept
<1>2. Asked' = Asked
  BY AskedKept
<1> QED BY <1>1, <1>2 DEF AnswerInv, AnswerNext, AnswerAt

\* A refusal promises nothing.
LEMMA Refused ==
  ASSUME NEW a \in {"400", "401", "403", "404", "500"}, NEW ind, NEW s, NEW e
  PROVE  RightOf(a, ind, s, e)
BY DEF RightOf

LEMMA ParseAnswers == PathsInv /\ AnswerInv /\ Parse => AnswerInv'
<1> SUFFICES ASSUME PathsInv, AnswerInv, Parse PROVE AnswerInv'
  OBVIOUS
<1>1. site' = site /\ url' = url /\ pc = "parse" /\ index' = index /\ sb' = sb
  BY DEF Parse
<1>2. ~index'
  BY <1>1 DEF AnswerInv, AnswerAt
<1>3. \/ pc' = "answered" /\ answer' = "400"
      \/ pc' = "expand" /\ expnfilename' = Asked
  BY DEF Parse, Answer, GoTo, Asked
<1>4. AnswerNext
  <2>1. CASE pc' = "answered" /\ answer' = "400"
    BY <2>1, Refused DEF AnswerNext, AnswerAt
  <2>2. CASE pc' = "expand" /\ expnfilename' = Asked
    BY <1>2, <2>2 DEF AnswerNext, AnswerAt
  <2> QED BY <1>3, <2>1, <2>2
<1> QED BY <1>1, <1>4, AnswerSame

LEMMA ExpandAnswers == PathsInv /\ AnswerInv /\ Expand => AnswerInv'
<1> SUFFICES ASSUME PathsInv, AnswerInv, Expand PROVE AnswerInv'
  OBVIOUS
<1>1. /\ site' = site /\ url' = url /\ pc = "expand" /\ index' = index /\ sb' = sb
      /\ expnfilename' = expnfilename
  BY DEF Expand
<1>2. /\ ~index => expnfilename = Asked
      /\ index /\ CheckedOrChrooted => ByIndex(sb)
  BY <1>1 DEF AnswerInv, AnswerAt
<1>3. \/ /\ site.no_symlink_check /\ Stat(expnfilename) # Nowhere
         /\ checked' = Trim(expnfilename) /\ rest' = <<>> /\ pc' = "expanded"
      \/ /\ ~(site.no_symlink_check /\ Stat(expnfilename) # Nowhere) /\ pc' = "component"
  BY DEF Expand, GoTo
<1>4. CASE /\ site.no_symlink_check /\ Stat(expnfilename) # Nowhere
           /\ checked' = Trim(expnfilename) /\ rest' = <<>> /\ pc' = "expanded"
  <2>1. ~index => Left(Asked, checked', rest')
    BY <1>2, <1>4 DEF Left
  <2>2. AnswerNext
    BY <1>1, <1>2, <1>4, <2>1 DEF AnswerNext, AnswerAt
  <2> QED BY <1>1, <2>2, AnswerSame
<1>5. CASE ~(site.no_symlink_check /\ Stat(expnfilename) # Nowhere) /\ pc' = "component"
  <2>1. AnswerNext
    BY <1>1, <1>2, <1>5 DEF AnswerNext, AnswerAt
  <2> QED BY <1>1, <2>1, AnswerSame
<1> QED BY <1>3, <1>4, <1>5

LEMMA ComponentAnswers == PathsInv /\ AnswerInv /\ (Component \/ AllChecked) => AnswerInv'
<1> SUFFICES ASSUME PathsInv, AnswerInv, Component \/ AllChecked PROVE AnswerInv'
  OBVIOUS
<1>1. /\ site' = site /\ url' = url /\ pc = "component" /\ index' = index /\ sb' = sb
      /\ expnfilename' = expnfilename
  BY DEF Component, AllChecked
<1>2. /\ ~index => expnfilename = Asked
      /\ index /\ CheckedOrChrooted => ByIndex(sb)
      /\ ~index /\ site.no_symlink_check => Stat(Asked) = Nowhere
  BY <1>1 DEF AnswerInv, AnswerAt
<1>3. Trail(OrDot(checked))
  <2>1. PICK p : p = checked
    OBVIOUS
  <2>2. PICK q : q = rest
    OBVIOUS
  <2>3. site \in Sites /\ p \in Path /\ q \in Path /\ Trail(p) /\ Slashless(p \o q)
    BY <1>1, <2>1, <2>2 DEF PathsInv, Resolving
  <2>4. Slashless(p)
    BY <2>3, StartSlashless
  <2> QED BY <2>1, <2>3, <2>4, OrDotTrail
<1>4. \/ pc' = "component"
      \/ pc' = "expanded" /\ checked' = OrDot(checked)
      \/ pc' = "answered" /\ answer' = "500"
  BY <1>1 DEF Component, AllChecked, GoTo, Answer, Follow
<1>5. AnswerNext
  <2>1. CASE pc' = "component"
    BY <1>1, <1>2, <2>1 DEF AnswerNext, AnswerAt
  <2>2. CASE pc' = "expanded" /\ checked' = OrDot(checked)
    <3>1. ~index => Left(Asked, checked', rest')
      BY <1>2, <1>3, <2>2 DEF Left
    <3> QED BY <1>1, <1>2, <2>2, <3>1 DEF AnswerNext, AnswerAt
  <2>3. CASE pc' = "answered" /\ answer' = "500"
    BY <2>3, Refused DEF AnswerNext, AnswerAt
  <2> QED BY <1>4, <2>1, <2>2, <2>3
<1> QED BY <1>1, <1>5, AnswerSame

LEMMA ConfineAnswers == PathsInv /\ AnswerInv /\ Confine => AnswerInv'
<1> SUFFICES ASSUME PathsInv, AnswerInv, Confine PROVE AnswerInv'
  OBVIOUS
<1>1. /\ site' = site /\ url' = url /\ pc = "expanded" /\ ~index /\ index' = index
      /\ pathinfo' = rest
  BY DEF Confine
<1>2. expnfilename = Asked /\ Left(Asked, checked, rest)
  BY <1>1 DEF AnswerInv, AnswerAt
<1>3. /\ site \in Sites /\ NamesFile(expnfilename) /\ checked \in SomePath
      /\ Slashless(checked) /\ Resolved(checked, rest, expnfilename)
  BY <1>1 DEF PathsInv, Resolved
<1>4. PICK a : a = Asked
  OBVIOUS
<1>5. PICK p : p = checked
  OBVIOUS
<1>6. PICK info : info = rest
  OBVIOUS
<1>7. /\ p[1] # Empty => Begins(a, p, info)
      /\ p[1] = Empty /\ InTree(p) =>
           Begins(a, SubSeq(p, Len(site.cwd) + 2, Len(p)), info)
  <2>1. NamesFile(a) /\ p \in SomePath /\ Slashless(p) /\ Left(a, p, info) /\ Resolved(p, info, a)
    BY <1>2, <1>3, <1>4, <1>5, <1>6
  <2> QED BY <1>3, <2>1, Confined
<1>8. \/ p[1] # Empty /\ expnfilename' = p /\ pc' = "start"
      \/ /\ p[1] = Empty /\ InTree(p) /\ pc' = "start"
         /\ expnfilename' = SubSeq(p, Len(site.cwd) + 2, Len(p))
      \/ pc' = "answered" /\ answer' = "403"
  BY <1>5 DEF Confine, GoTo, Answer
<1>9. AnswerNext
  <2>1. CASE pc' = "start"
    <3>1. Begins(Asked, expnfilename', pathinfo')
      BY <1>1, <1>4, <1>5, <1>6, <1>7, <1>8, <2>1
    <3> QED BY <1>1, <2>1, <3>1 DEF AnswerNext, AnswerAt
  <2>2. CASE pc' = "answered" /\ answer' = "403"
    BY <2>2, Refused DEF AnswerNext, AnswerAt
  <2> QED BY <1>8, <2>1, <2>2
<1> QED BY <1>1, <1>9, AnswerSame

\* Where really_start_request begins.
LEMMA StartPlace ==
  ASSUME site \in Sites, NEW a \in Path, NEW e \in Path, NEW info, Begins(a, e, info),
         \A i \in 1 .. Len(e) : e[i] # Empty, CheckedOrChrooted, NoDots(a),
         Stat(e) # Nowhere
  PROVE  /\ e # <<>> /\ Stat(e) = FurthestOf(a) /\ IsPrefix(site.cwd, Stat(e))
         /\ Kind(Stat(e)) \in {"dir", "file"}
         /\ info = <<>> => Stat(e) = PlaceOf(a) /\ PlaceOf(a) # Nowhere
<1>1. Stat(e) \in DOMAIN site.tree /\ Kind(Stat(e)) # "link" /\ e # <<>>
  BY StatFound
<1>2. /\ Stat(e) = FurthestOf(a) /\ Left(a, e, info)
      /\ info = <<>> => PlaceOf(a) # Nowhere
  BY <1>1 DEF Begins
<1>3. IsPrefix(site.cwd, Stat(e))
  BY <1>2, BeginsInside
<1>4. Kind(Stat(e)) \in {"dir", "file", "link"}
  BY <1>1, TreeKnown
<1>5. PlaceOf(a) # Nowhere => PlaceOf(a) = FurthestOf(a)
  BY FurthestPlace
<1> QED BY <1>1, <1>2, <1>3, <1>4, <1>5

\* The index file of a directory, and that there is none.
LEMMA StartIndex ==
  ASSUME site \in Sites, NEW a \in Path, NEW e \in Path, NEW info, Begins(a, e, info),
         \A i \in 1 .. Len(e) : e[i] # Empty, CheckedOrChrooted, NoDots(a),
         Stat(e) # Nowhere, Kind(Stat(e)) = "dir", info = <<>>
  PROVE  /\ Index(e) # <<>> =>
              \E n \in ToSet(index_names) :
                MemberAt(a, n) # Nowhere /\ Stat(Index(e)) = MemberAt(a, n)
         /\ Index(e) = <<>> => \A n \in ToSet(index_names) : MemberAt(a, n) = Nowhere
<1>1. e # <<>> /\ Stat(e) = PlaceOf(a) /\ PlaceOf(a) # Nowhere
  BY StartPlace
<1>2. NamesFile(a) /\ Left(a, e, info)
  BY DEF Begins
<1>3. ASSUME NEW n \in Names PROVE Stat(IndexOf(e, n)) = MemberAt(a, n)
  BY <1>1, <1>2, Members
<1> DEFINE good == {i \in 1 .. Len(index_names) : Stat(IndexOf(e, index_names[i])) # Nowhere}
<1>4. IF good = {} THEN Index(e) = <<>>
      ELSE \E i \in good : Index(e) = IndexOf(e, index_names[i])
  BY IndexTaken
<1>5. \A i \in 1 .. Len(index_names) : index_names[i] \in Names
                                       /\ index_names[i] \in ToSet(index_names)
  BY NamesAssumption DEF ToSet
<1>6. \A n \in ToSet(index_names) : \E i \in 1 .. Len(index_names) : n = index_names[i]
  BY DEF ToSet
<1>7. ASSUME Index(e) # <<>>
      PROVE  \E n \in ToSet(index_names) :
               MemberAt(a, n) # Nowhere /\ Stat(Index(e)) = MemberAt(a, n)
  <2>1. PICK i \in good : Index(e) = IndexOf(e, index_names[i])
    BY <1>4, <1>7
  <2>2. PICK n \in ToSet(index_names) : n = index_names[i] /\ n \in Names
    BY <1>5
  <2>3. Stat(IndexOf(e, n)) # Nowhere /\ Index(e) = IndexOf(e, n)
    BY <2>1, <2>2
  <2> QED BY <1>3, <2>2, <2>3
<1>8. ASSUME Index(e) = <<>>, NEW n \in ToSet(index_names) PROVE MemberAt(a, n) = Nowhere
  <2>1. ASSUME NEW i \in good, Index(e) = IndexOf(e, index_names[i]) PROVE FALSE
    <3>1. IndexOf(e, index_names[i])
            = IF e = <<Dot>> THEN <<index_names[i]>> ELSE Append(e, index_names[i])
      BY <1>1, IndexName
    <3>2. e \in Seq(Parts) /\ index_names[i] \in Parts
      BY <1>5, PathOfParts DEF Parts
    <3>3. Append(e, index_names[i]) # <<>> /\ <<index_names[i]>> # <<>>
      BY <3>2
    <3> QED BY <1>8, <2>1, <3>1, <3>3
  <2>2. good = {}
    BY <1>4, <2>1
  <2>3. PICK i \in 1 .. Len(index_names) : n = index_names[i]
    BY <1>6
  <2>4. Stat(IndexOf(e, n)) = Nowhere
    BY <2>2, <2>3
  <2> QED BY <1>3, <1>5, <2>3, <2>4
<1> QED BY <1>7, <1>8

LEMMA StartAnswers == PathsInv /\ AnswerInv /\ Start => AnswerInv'
<1> SUFFICES ASSUME PathsInv, AnswerInv, Start PROVE AnswerInv'
  OBVIOUS
<1>1. /\ site' = site /\ url' = url /\ pc = "start" /\ pathinfo' = pathinfo
  BY DEF Start
<1>2. ~index /\ Begins(Asked, expnfilename, pathinfo)
  BY <1>1 DEF AnswerInv, AnswerAt
<1>3. /\ site \in Sites /\ url \in SomePath /\ expnfilename \in Path
      /\ \A i \in 1 .. Len(expnfilename) : expnfilename[i] # Empty
  BY <1>1 DEF PathsInv
<1>4. PICK a : a = Asked
  OBVIOUS
<1>5. PICK e : e = expnfilename
  OBVIOUS
<1>6. PICK info : info = pathinfo
  OBVIOUS
<1>7. a \in Path /\ NoDots(a)
  BY <1>3, <1>4, NameWithoutDots DEF Asked
<1>8. ASSUME CheckedOrChrooted, Stat(e) # Nowhere
      PROVE  /\ e # <<>> /\ Stat(e) = FurthestOf(a) /\ IsPrefix(site.cwd, Stat(e))
             /\ Kind(Stat(e)) \in {"dir", "file"}
             /\ info = <<>> => Stat(e) = PlaceOf(a) /\ PlaceOf(a) # Nowhere
  BY <1>2, <1>3, <1>4, <1>5, <1>6, <1>7, <1>8, StartPlace
<1>9. ASSUME CheckedOrChrooted, Stat(e) # Nowhere, Kind(Stat(e)) = "dir", info = <<>>
      PROVE  /\ Index(e) # <<>> =>
                  \E n \in ToSet(index_names) :
                    MemberAt(a, n) # Nowhere /\ Stat(Index(e)) = MemberAt(a, n)
             /\ Index(e) = <<>> => \A n \in ToSet(index_names) : MemberAt(a, n) = Nowhere
  BY <1>2, <1>3, <1>4, <1>5, <1>6, <1>7, <1>9, StartIndex
<1>10. \/ pc' = "answered" /\ answer' \in {"500", "403", "404"}
       \/ /\ Stat(e) # Nowhere /\ Readable(Stat(e)) /\ Kind(Stat(e)) # "dir"
          /\ pc' = "serve" /\ sb' = Stat(e) /\ expnfilename' = e /\ index' = index
       \/ /\ Stat(e) # Nowhere /\ Kind(Stat(e)) = "dir" /\ info = <<>>
          /\ \/ pc' = "answered" /\ answer' = "302" /\ sb' = Stat(e)
             \/ /\ Index(e) # <<>> /\ sb' = Stat(Index(e)) /\ index' = TRUE
                /\ pc' = "expand"
             \/ Index(e) = <<>> /\ sb' = Stat(e) /\ pc' = "listing"
  BY <1>5, <1>6 DEF Start, Answer, GoTo
<1>11. CASE pc' = "answered" /\ answer' \in {"500", "403", "404"}
  <2>1. AnswerNext
    BY <1>11, Refused DEF AnswerNext, AnswerAt
  <2> QED BY <1>1, <2>1, AnswerSame
<1>12. CASE /\ Stat(e) # Nowhere /\ Readable(Stat(e)) /\ Kind(Stat(e)) # "dir"
            /\ pc' = "serve" /\ sb' = Stat(e) /\ expnfilename' = e /\ index' = index
  <2>1. Readable(sb') /\ expnfilename' \in SomePath
    <3>1. e # <<>>
      BY <1>12 DEF Stat, Kernel
    <3> QED BY <1>3, <1>5, <1>12, <3>1 DEF SomePath
  <2>2. ~site.no_symlink_check => Trail(expnfilename')
    BY <1>2, <1>5, <1>12 DEF Begins, Left
  <2>3. CheckedOrChrooted => /\ Direct(sb', expnfilename')
                             /\ pathinfo' = <<>> => sb' = PlaceOf(Asked)
    BY <1>1, <1>4, <1>6, <1>8, <1>12 DEF Direct
  <2>4. AnswerNext
    BY <1>2, <1>12, <2>1, <2>2, <2>3 DEF AnswerNext, AnswerAt
  <2> QED BY <1>1, <2>4, AnswerSame
<1>13. CASE /\ Stat(e) # Nowhere /\ Kind(Stat(e)) = "dir" /\ info = <<>>
            /\ pc' = "answered" /\ answer' = "302" /\ sb' = Stat(e)
  <2>1. CheckedOrChrooted => PlaceOf(Asked) = sb' /\ Kind(sb') = "dir"
    BY <1>4, <1>8, <1>13
  <2>2. AnswerNext
    BY <1>13, <2>1 DEF AnswerNext, AnswerAt, RightOf
  <2> QED BY <1>1, <2>2, AnswerSame
<1>14. CASE /\ Stat(e) # Nowhere /\ Kind(Stat(e)) = "dir" /\ info = <<>>
            /\ Index(e) # <<>> /\ sb' = Stat(Index(e)) /\ index' = TRUE /\ pc' = "expand"
  <2>1. CheckedOrChrooted => ByIndex(sb')
    BY <1>4, <1>8, <1>9, <1>14 DEF ByIndex
  <2>2. AnswerNext
    BY <1>14, <2>1 DEF AnswerNext, AnswerAt
  <2> QED BY <1>1, <2>2, AnswerSame
<1>15. CASE /\ Stat(e) # Nowhere /\ Kind(Stat(e)) = "dir" /\ info = <<>>
            /\ Index(e) = <<>> /\ sb' = Stat(e) /\ pc' = "listing"
  <2>1. CheckedOrChrooted => Listed(sb')
    BY <1>4, <1>8, <1>9, <1>15 DEF Listed
  <2>2. AnswerNext
    BY <1>15, <2>1 DEF AnswerNext, AnswerAt
  <2> QED BY <1>1, <2>2, AnswerSame
<1> QED BY <1>10, <1>11, <1>12, <1>13, <1>14, <1>15

LEMMA GotIndexAnswers == PathsInv /\ AnswerInv /\ GotIndex => AnswerInv'
<1> SUFFICES ASSUME PathsInv, AnswerInv, GotIndex PROVE AnswerInv'
  OBVIOUS
<1>1. /\ site' = site /\ url' = url /\ pc = "expanded" /\ index /\ index' = index /\ sb' = sb
  BY DEF GotIndex
<1>2. CheckedOrChrooted => ByIndex(sb)
  BY <1>1 DEF AnswerInv, AnswerAt
<1>3. checked \in SomePath /\ (~site.no_symlink_check => Trail(checked))
  BY <1>1 DEF PathsInv, Resolved
<1>4. \/ pc' = "answered" /\ answer' \in {"500", "403"}
      \/ pc' = "serve" /\ expnfilename' = checked /\ Readable(sb)
  BY DEF GotIndex, Answer, GoTo
<1>5. AnswerNext
  <2>1. CASE pc' = "answered" /\ answer' \in {"500", "403"}
    BY <2>1, Refused DEF AnswerNext, AnswerAt
  <2>2. CASE pc' = "serve" /\ expnfilename' = checked /\ Readable(sb)
    BY <1>1, <1>2, <1>3, <2>2 DEF AnswerNext, AnswerAt
  <2> QED BY <1>4, <2>1, <2>2
<1> QED BY <1>1, <1>5, AnswerSame

LEMMA ListingAnswers == PathsInv /\ AnswerInv /\ Listing => AnswerInv'
<1> SUFFICES ASSUME PathsInv, AnswerInv, Listing PROVE AnswerInv'
  OBVIOUS
<1>1. /\ site' = site /\ url' = url /\ pc = "listing" /\ pc' = "answered" /\ sb' = sb
      /\ answer' \in {"listing", "401"}
  BY DEF Listing, Answer
<1>2. CheckedOrChrooted => Listed(sb)
  BY <1>1 DEF AnswerInv, AnswerAt
<1>3. AnswerNext
  <2>1. CASE answer' = "401"
    BY <1>1, <2>1, Refused DEF AnswerNext, AnswerAt
  <2>2. CASE answer' = "listing"
    BY <1>1, <1>2, <2>2 DEF AnswerNext, AnswerAt, RightOf, Listed
  <2> QED BY <1>1, <2>1, <2>2
<1> QED BY <1>1, <1>3, AnswerSame

\* What Purpose says of a name.
LEMMA PurposeSays ==
  ASSUME NEW e, NEW mode, NEW a, a = Purpose(e, mode)
  PROVE  /\ a \in {"403", "cgi", "file"}
         /\ a # "403" => Last(e) # AUTH_FILE
         /\ a = "cgi" => mode.xoth /\ Last(e) \in CgiNames
         /\ a = "file" => pathinfo = <<>> /\ (mode.xoth => Last(e) \in PlainNames)
<1>1. AllowedExe(e) => Last(e) \in PlainNames
  BY DEF AllowedExe, Last
<1> QED BY <1>1 DEF Purpose

LEMMA ServeAnswers == PathsInv /\ AnswerInv /\ Serve => AnswerInv'
<1> SUFFICES ASSUME PathsInv, AnswerInv, Serve PROVE AnswerInv'
  OBVIOUS
<1>1. /\ site' = site /\ url' = url /\ pc = "serve" /\ pc' = "answered" /\ sb' = sb
      /\ index' = index /\ expnfilename' = expnfilename
  BY DEF Serve, Answer
<1>2. /\ Readable(sb) /\ expnfilename \in SomePath
      /\ ~site.no_symlink_check => Trail(expnfilename)
      /\ CheckedOrChrooted =>
           IF index THEN ByIndex(sb)
           ELSE Direct(sb, expnfilename) /\ (pathinfo = <<>> => sb = PlaceOf(Asked))
  BY <1>1 DEF AnswerInv, AnswerAt
<1>3. answer' = "401" \/ answer' = Purpose(expnfilename, site.tree[sb])
  BY DEF Serve, Answer
<1>4. CASE answer' = "401"
  <2>1. AnswerNext
    BY <1>1, <1>4, Refused DEF AnswerNext, AnswerAt
  <2> QED BY <1>1, <2>1, AnswerSame
<1>5. CASE answer' = Purpose(expnfilename, site.tree[sb])
  <2>1. /\ answer' \in {"403", "cgi", "file"}
        /\ answer' # "403" => Last(expnfilename) # AUTH_FILE
        /\ answer' = "cgi" => site.tree[sb].xoth /\ Last(expnfilename) \in CgiNames
        /\ answer' = "file" =>
             pathinfo = <<>> /\ (site.tree[sb].xoth => Last(expnfilename) \in PlainNames)
    <3>1. PICK e : e = expnfilename
      OBVIOUS
    <3>2. PICK mode : mode = site.tree[sb]
      OBVIOUS
    <3>3. PICK a : a = answer'
      OBVIOUS
    <3>4. a = Purpose(e, mode)
      BY <1>5, <3>1, <3>2, <3>3
    <3>5. /\ a \in {"403", "cgi", "file"}
          /\ a # "403" => Last(e) # AUTH_FILE
          /\ a = "cgi" => mode.xoth /\ Last(e) \in CgiNames
          /\ a = "file" => pathinfo = <<>> /\ (mode.xoth => Last(e) \in PlainNames)
      BY <3>4, PurposeSays
    <3> QED BY <3>1, <3>2, <3>3, <3>5
  <2>2. ~site.no_symlink_check /\ Kind(Stat(expnfilename)) = "file" =>
          Last(Stat(expnfilename)) = Last(expnfilename)
    <3> SUFFICES ASSUME ~site.no_symlink_check, Kind(Stat(expnfilename)) = "file"
                 PROVE  Last(Stat(expnfilename)) = Last(expnfilename)
      OBVIOUS
    <3>1. PICK e : e = expnfilename
      OBVIOUS
    <3>2. site \in Sites /\ Trail(e) /\ e # <<>> /\ Kind(Stat(e)) = "file"
      BY <1>1, <1>2, <3>1 DEF PathsInv, SomePath
    <3>3. Last(Stat(e)) = Last(e)
      BY <3>2, TrailName
    <3> QED BY <3>1, <3>3
  <2>3. answer' # "403" => OwnName(answer', sb', expnfilename')
    BY <1>1, <2>1, <2>2 DEF OwnName
  <2>4. CheckedOrChrooted => RightOf(answer', index', sb', expnfilename')
    BY <1>1, <1>2, <2>1, <2>3 DEF RightOf
  <2>5. AnswerNext
    BY <1>1, <2>4 DEF AnswerNext, AnswerAt
  <2> QED BY <1>1, <2>5, AnswerSame
<1> QED BY <1>3, <1>4, <1>5

LEMMA AnswersBegin == CallInit => AnswerInv
<1> SUFFICES ASSUME CallInit PROVE AnswerInv
  OBVIOUS
<1>1. CASE PathInit
  BY <1>1 DEF PathInit, AnswerInv, AnswerAt
<1>2. CASE NoRequest
  <2>1. pc = "answered" /\ answer = "nothing"
    BY <1>2, Zenon DEF NoRequest
  <2> QED BY <2>1 DEF AnswerInv, AnswerAt, RightOf
<1> QED BY <1>1, <1>2 DEF CallInit

LEMMA AnswersKept == PathsInv /\ AnswerInv /\ [CallNext]_callVars => AnswerInv'
<1> SUFFICES ASSUME PathsInv, AnswerInv, [CallNext]_callVars PROVE AnswerInv'
  OBVIOUS
<1>1. CASE PathNext /\ pc # "answered"
  BY <1>1, ParseAnswers, ExpandAnswers, ComponentAnswers, ConfineAnswers, StartAnswers,
     GotIndexAnswers, ListingAnswers, ServeAnswers DEF PathNext
<1>2. CASE UNCHANGED vars
  <2>1. AnswerNext
    BY <1>2 DEF vars, links, AnswerNext, AnswerInv
  <2>2. site' = site /\ url' = url
    BY <1>2 DEF vars
  <2> QED BY <2>1, <2>2, AnswerSame
<1>3. PathNext /\ pc = "answered" => UNCHANGED vars
  BY DEF PathNext, Parse, Expand, Component, AllChecked, Confine, Start, GotIndex, Listing, Serve
<1>4. PathNext \/ UNCHANGED vars
  BY DEF CallNext, callVars
<1> QED BY <1>1, <1>2, <1>3, <1>4

LEMMA AnswerFollows == AnswerInv => AnswerRight
<1> SUFFICES ASSUME AnswerInv, pc = "answered", CheckedOrChrooted PROVE AnswerRight
  BY DEF AnswerRight
<1>1. RightOf(answer, index, sb, expnfilename)
  BY DEF AnswerInv, AnswerAt
<1> DEFINE Member(n) == IF site.no_symlink_check THEN Stat(Append(Trim(Asked), n))
                        ELSE WalkPath(PlaceOf(Asked), <<>>, <<n>>, MAX_LINKS, "stat")
           named == {n \in ToSet(index_names) : Member(n) # Nowhere}
<1>2. \A n : Member(n) = MemberAt(Asked, n)
  BY DEF MemberAt
<1> HIDE DEF Member
<1>3. answer \in {"file", "cgi"} =>
        /\ Readable(sb)
        /\ ~index => /\ Kind(sb) = "file" /\ sb = Stat(expnfilename)
                     /\ sb = FurthestOf(Asked) /\ IsPrefix(site.cwd, sb)
        /\ index => Kind(PlaceOf(Asked)) = "dir" /\ \E n \in named : sb = Member(n)
        /\ ~site.no_symlink_check /\ Kind(Stat(expnfilename)) = "file" =>
             /\ Last(Stat(expnfilename)) # AUTH_FILE
             /\ answer = "cgi" => Last(Stat(expnfilename)) \in CgiNames
             /\ answer = "file" /\ site.tree[sb].xoth => Last(Stat(expnfilename)) \in PlainNames
  BY <1>1, <1>2 DEF RightOf, OwnName, ByIndex, Direct
<1>4. /\ answer = "file" => index \/ sb = PlaceOf(Asked)
      /\ answer = "cgi" => site.tree[sb].xoth
      /\ answer \in {"listing", "302"} => PlaceOf(Asked) = sb /\ Kind(PlaceOf(Asked)) = "dir"
      /\ answer = "listing" => named = {}
  BY <1>1, <1>2 DEF RightOf, Listed
<1> QED BY <1>3, <1>4, Zenon DEF AnswerRight, Member, Asked

\* Whatever is asked, and whatever links and index files the tree has, a file, a
\* program or a listing is sent only if the path names it (or its directory), it is
\* in the tree and may be read, and it is neither an AUTH_FILE nor executable
\* without leave (really_start_request).
THEOREM AnswerAlwaysRight == CallSpec => []AnswerRight
<1>1. CallSpec => []PathsInv
  <2>1. PathsInv /\ [CallNext]_callVars => PathsInv'
    BY PathsStay
  <2> QED BY <2>1, PathsBegin, PTL DEF CallSpec
<1>2. PathsInv /\ AnswerInv /\ [CallNext]_callVars => AnswerInv'
  BY AnswersKept
<1>3. AnswerInv => AnswerRight
  BY AnswerFollows
<1> QED BY <1>1, <1>2, <1>3, AnswersBegin, PTL DEF CallSpec
=============================================================================
