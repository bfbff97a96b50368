--------------------------- MODULE ExchangeProofs ---------------------------
(***************************************************************************)
(* The request and the reply of one connection, for any streams of bytes,  *)
(* any lines and any files: what the automaton recognises is what the      *)
(* parser finds, the fields come from the bytes of this connection, and    *)
(* the client gets what was announced.                                     *)
(***************************************************************************)
EXTENDS Exchange, FiniteSetTheorems, WellFoundedInduction, TLAPS

(***************************************************************************)
(* Induction and recursion over numbers.                                   *)
(***************************************************************************)
LEMMA LeastExists ==
  ASSUME NEW T \in SUBSET Nat, T # {}
  PROVE  \E x \in T : \A y \in T : x <= y
<1> DEFINE R == OpToRel(<, Nat)
<1>1. IsWellFoundedOn(R, Nat)
  BY NatLessThanWellFounded
<1>2. \E x \in T : \A y \in T : <<y, x>> \notin R
  <2> HIDE DEF R
  <2> QED BY <1>1, WFMin
<1>3. PICK x \in T : \A y \in T : <<y, x>> \notin R
  BY <1>2
<1>4. ASSUME NEW y \in T PROVE x <= y
  <2>1. ~ (y < x)
    BY <1>3 DEF OpToRel
  <2> QED BY <2>1
<1> QED BY <1>4

\* Min picks it.
LEMMA MinRight ==
  ASSUME NEW T \in SUBSET Nat, T # {}
  PROVE  Min(T) \in T /\ \A y \in T : Min(T) <= y
BY LeastExists DEF Min

\* Induction, for a set of numbers in place of a property.
Inductive(P, n) == 0 \in P /\ \A k \in 1 .. n : k - 1 \in P => k \in P

LEMMA CountUp ==
  ASSUME NEW n \in Nat, NEW P, Inductive(P, n)
  PROVE  n \in P /\ \A k \in 0 .. n : k \in P
<1> DEFINE T == (0 .. n) \ P
<1>1. T = {}
  <2> SUFFICES ASSUME T # {} PROVE FALSE
    OBVIOUS
  <2>1. T \in SUBSET Nat
    OBVIOUS
  <2>2. PICK x \in T : \A y \in T : x <= y
    <3> HIDE DEF T
    <3> QED BY <2>1, LeastExists
  <2>3. x \in 1 .. n /\ x - 1 \in P
    BY <2>2 DEF Inductive
  <2>4. x \in P
    BY <2>3 DEF Inductive
  <2> QED BY <2>2, <2>4
<1> QED BY <1>1

\* A function on 0 .. n is given by its first value and its steps.
Steps(S, base, step, n) ==
  base \in S /\ step \in [Nat -> [S -> S]] /\ n \in Nat

Run(g, S, base, step, n) ==
  /\ g \in [0 .. n -> S]
  /\ g[0] = base
  /\ \A i \in 1 .. n : g[i] = step[i][g[i - 1]]

LEMMA Recursion ==
  ASSUME NEW S, NEW base, NEW step, NEW n, Steps(S, base, step, n)
  PROVE  \E g : Run(g, S, base, step, n)
<1> base \in S /\ step \in [Nat -> [S -> S]] /\ n \in Nat
  BY DEF Steps
<1> DEFINE Right(k, g) == g[0] = base /\ \A i \in 1 .. k : g[i] = step[i][g[i - 1]]
           P == {k \in 0 .. n : \E g \in [0 .. k -> S] : Right(k, g)}
<1>1. 0 \in P
  <2> DEFINE g == [i \in 0 .. 0 |-> base]
  <2>1. g \in [0 .. 0 -> S] /\ Right(0, g)
    OBVIOUS
  <2> HIDE DEF g, Right
  <2> QED BY <2>1
<1>2. ASSUME NEW k \in 1 .. n, k - 1 \in P PROVE k \in P
  <2>1. PICK g \in [0 .. k - 1 -> S] : Right(k - 1, g)
    <3> HIDE DEF Right
    <3> QED BY <1>2
  <2> DEFINE f == [i \in 0 .. k |-> IF i = k THEN step[k][g[k - 1]] ELSE g[i]]
  <2>2. f \in [0 .. k -> S]
    OBVIOUS
  <2>3. f[0] = base
    BY <2>1
  <2>4. ASSUME NEW i \in 1 .. k PROVE f[i] = step[i][f[i - 1]]
    <3>1. CASE i = k
      <4>1. k - 1 \in 0 .. k /\ k - 1 # k
        OBVIOUS
      <4> QED BY <3>1, <4>1
    <3>2. CASE i # k
      <4>1. i \in 1 .. k - 1 /\ i - 1 \in 0 .. k /\ i - 1 # k
        BY <3>2
      <4> QED BY <4>1, <2>1, <3>2
    <3> QED BY <3>1, <3>2
  <2>5. Right(k, f)
    BY <2>3, <2>4
  <2> HIDE DEF f, Right
  <2> QED BY <2>2, <2>5
<1> HIDE DEF P
<1>3. Inductive(P, n)
  BY <1>1, <1>2 DEF Inductive
<1>4. n \in P
  BY <1>3, CountUp
<1>5. PICK g \in [0 .. n -> S] : Right(n, g)
  BY <1>4 DEF P
<1> QED BY <1>5 DEF Run

\* How many numbers there are from 0 to n - 1, from 1 to n and from 2 to n + 2.

(***************************************************************************)
(* The automaton.                                                          *)
(***************************************************************************)
AllStates == CheckedState \cup {"GOT", "BOGUS"}

LEMMA TableTyped ==
  ASSUME NEW s \in CheckedState, NEW c \in {"sp", "lf", "cr", "other"}
  PROVE  CheckTable[s][c] \in AllStates
BY DEF CheckedState, CheckTable, On, AllStates

LEMMA CheckTyped ==
  ASSUME NEW s \in AllStates, NEW b
  PROVE  Check(s, b) \in AllStates
<1>1. Column(b) \in {"sp", "lf", "cr", "other"}
  BY DEF Column
<1> QED BY <1>1, TableTyped DEF Check, AllStates

\* The states over a buffer, one by one.
LEMMA StatesRight ==
  ASSUME NEW s \in AllStates, NEW bytes \in Seq(Byte)
  PROVE  /\ States(s, bytes) \in [0 .. Len(bytes) -> AllStates]
         /\ States(s, bytes)[0] = s
         /\ \A i \in 1 .. Len(bytes) :
              States(s, bytes)[i] = Check(States(s, bytes)[i - 1], bytes[i])
         /\ Scan(s, bytes) = States(s, bytes)[Len(bytes)]
<1> DEFINE n == Len(bytes)
           Eq(f) == f = [i \in 0 .. n |-> IF i = 0 THEN s ELSE Check(f[i - 1], bytes[i])]
           step == [i \in Nat |-> [x \in AllStates |-> Check(x, bytes[i])]]
<1>0. n \in Nat
  OBVIOUS
<1>1. States(s, bytes) = CHOOSE f : Eq(f)
  BY DEF States
<1>2. \E g : Run(g, AllStates, s, step, n)
  <2>1. step \in [Nat -> [AllStates -> AllStates]]
    BY CheckTyped
  <2>2. Steps(AllStates, s, step, n)
    BY <1>0, <2>1 DEF Steps
  <2> HIDE DEF step, n
  <2> QED BY <2>2, Recursion
<1>3. PICK g : Run(g, AllStates, s, step, n)
  BY <1>2
<1>4. Eq(g)
  <2>1. g \in [0 .. n -> AllStates] /\ g[0] = s
    BY <1>3 DEF Run
  <2>2. ASSUME NEW i \in 1 .. n PROVE g[i] = Check(g[i - 1], bytes[i])
    <3>1. g[i] = step[i][g[i - 1]]
      BY <1>3 DEF Run
    <3>2. g[i - 1] \in AllStates /\ i \in Nat
      BY <2>1, <1>0
    <3> QED BY <3>1, <3>2
  <2>3. \A i \in 0 .. n : i = 0 \/ i \in 1 .. n
    BY <1>0
  <2> QED BY <2>1, <2>2, <2>3
<1> DEFINE f == States(s, bytes)
<1>5. Eq(f)
  <2> HIDE DEF Eq
  <2> QED BY <1>1, <1>4
<1> HIDE DEF f
<1>6. f[0] = s /\ \A i \in 1 .. n : f[i] = Check(f[i - 1], bytes[i])
  BY <1>0, <1>5
<1> DEFINE P == {i \in 0 .. n : f[i] \in AllStates}
<1>7. 0 \in P
  BY <1>0, <1>6
<1>8. ASSUME NEW i \in 1 .. n, i - 1 \in P PROVE i \in P
  BY <1>0, <1>6, <1>8, CheckTyped
<1>9. Inductive(P, n)
  BY <1>7, <1>8 DEF Inductive
<1>10. \A i \in 0 .. n : f[i] \in AllStates
  <2> HIDE DEF P
  <2>1. \A i \in 0 .. n : i \in P
    BY <1>0, <1>9, CountUp
  <2> QED BY <2>1 DEF P
<1>11. f \in [0 .. n -> AllStates]
  <2>1. DOMAIN f = 0 .. n /\ f = [i \in 0 .. n |-> f[i]]
    BY <1>5
  <2> QED BY <1>10, <2>1
<1> QED BY <1>6, <1>11 DEF f, Scan

\* A part of a buffer, scanned from where the bytes before it led, leads through
\* the states of the whole.
PartOf(b, a, k) ==
  /\ a \in Seq(Byte) /\ b \in Seq(Byte) /\ k \in Nat /\ k + Len(b) <= Len(a)
  /\ \A i \in 1 .. Len(b) : b[i] = a[k + i]

LEMMA PartScanned ==
  ASSUME NEW s \in AllStates, NEW a, NEW b, NEW k, PartOf(b, a, k)
  PROVE  /\ \A i \in 0 .. Len(b) :
              States(States(s, a)[k], b)[i] = States(s, a)[k + i]
         /\ Scan(States(s, a)[k], b) = States(s, a)[k + Len(b)]
<1>1. /\ a \in Seq(Byte) /\ b \in Seq(Byte) /\ k \in Nat /\ k + Len(b) <= Len(a)
      /\ Len(a) \in Nat /\ Len(b) \in Nat /\ k \in 0 .. Len(a)
      /\ \A i \in 1 .. Len(b) : b[i] = a[k + i]
  BY DEF PartOf
<1> DEFINE f == States(s, a)
           r == f[k]
           g == States(r, b)
           n == Len(b)
           P == {i \in 0 .. n : g[i] = f[k + i]}
<1>2. /\ f \in [0 .. Len(a) -> AllStates]
      /\ \A i \in 1 .. Len(a) : f[i] = Check(f[i - 1], a[i])
  BY <1>1, StatesRight
<1>3. r \in AllStates
  BY <1>1, <1>2
<1>4. g[0] = r /\ (\A i \in 1 .. n : g[i] = Check(g[i - 1], b[i])) /\ Scan(r, b) = g[n]
  <2> HIDE DEF r
  <2> QED BY <1>1, <1>3, StatesRight
<1> HIDE DEF f, g
<1>5. 0 \in P
  BY <1>1, <1>4
<1>6. ASSUME NEW i \in 1 .. n, i - 1 \in P PROVE i \in P
  <2>1. k + i \in 1 .. Len(a) /\ k + i - 1 = k + (i - 1)
    BY <1>1
  <2> QED BY <1>1, <1>2, <1>4, <1>6, <2>1
<1> HIDE DEF P
<1>7. Inductive(P, n)
  BY <1>5, <1>6 DEF Inductive
<1>8. \A i \in 0 .. n : i \in P
  BY <1>1, <1>7, CountUp
<1>9. n \in 0 .. n
  BY <1>1
<1> QED BY <1>4, <1>8, <1>9 DEF P, f, g, r

\* The first bytes, and all the others.
LEMMA CutBuffer ==
  ASSUME NEW a \in Seq(Byte), NEW j \in Nat, NEW k \in Nat, j <= k, k <= Len(a)
  PROVE  /\ PartOf(SubSeq(a, 1, k), a, 0) /\ Len(SubSeq(a, 1, k)) = k
         /\ PartOf(SubSeq(a, j + 1, k), a, j) /\ Len(SubSeq(a, j + 1, k)) = k - j
         /\ PartOf(SubSeq(a, 1, j), SubSeq(a, 1, k), 0)
         /\ PartOf(SubSeq(a, j + 1, k), SubSeq(a, 1, k), j)
<1>1. /\ SubSeq(a, 1, k) \in Seq(Byte) /\ Len(SubSeq(a, 1, k)) = k
      /\ \A i \in 1 .. k : SubSeq(a, 1, k)[i] = a[i]
  OBVIOUS
<1>2. /\ SubSeq(a, 1, j) \in Seq(Byte) /\ Len(SubSeq(a, 1, j)) = j
      /\ \A i \in 1 .. j : SubSeq(a, 1, j)[i] = a[i]
  OBVIOUS
<1>3. /\ SubSeq(a, j + 1, k) \in Seq(Byte) /\ Len(SubSeq(a, j + 1, k)) = k - j
      /\ \A i \in 1 .. k - j : SubSeq(a, j + 1, k)[i] = a[j + i]
  OBVIOUS
<1> DEFINE x == SubSeq(a, 1, k)
           y == SubSeq(a, 1, j)
           z == SubSeq(a, j + 1, k)
<1> HIDE DEF x, y, z
<1>4. /\ x \in Seq(Byte) /\ Len(x) = k /\ \A i \in 1 .. k : x[i] = a[i]
  BY <1>1 DEF x
<1>5. /\ y \in Seq(Byte) /\ Len(y) = j /\ \A i \in 1 .. j : y[i] = a[i]
  BY <1>2 DEF y
<1>6. /\ z \in Seq(Byte) /\ Len(z) = k - j /\ \A i \in 1 .. k - j : z[i] = a[j + i]
  BY <1>3 DEF z
<1>7. PartOf(x, a, 0)
  BY <1>4 DEF PartOf
<1>8. PartOf(z, a, j)
  BY <1>6 DEF PartOf
<1>9. PartOf(y, x, 0)
  BY <1>4, <1>5 DEF PartOf
<1>10. PartOf(z, x, j)
  BY <1>4, <1>6 DEF PartOf
<1> QED BY <1>4, <1>6, <1>7, <1>8, <1>9, <1>10 DEF x, y, z

\* Once the automaton has decided it stays decided.
LEMMA Decided ==
  ASSUME NEW s \in AllStates, NEW a \in Seq(Byte), NEW k \in 0 .. Len(a),
         States(s, a)[k] \in {"GOT", "BOGUS"}
  PROVE  Scan(s, a) = States(s, a)[k]
<1> DEFINE f == States(s, a)
           n == Len(a) - k
           P == {i \in 0 .. n : f[k + i] = f[k]}
<1>1. (\A i \in 1 .. Len(a) : f[i] = Check(f[i - 1], a[i])) /\ Scan(s, a) = f[Len(a)]
  BY StatesRight
<1>0. Len(a) \in Nat /\ n \in Nat /\ k \in Nat /\ k + n = Len(a)
  OBVIOUS
<1> HIDE DEF f
<1>2. 0 \in P
  BY <1>0
<1>3. ASSUME NEW i \in 1 .. n, i - 1 \in P PROVE i \in P
  <2>1. k + i \in 1 .. Len(a) /\ k + i - 1 = k + (i - 1)
    BY <1>0
  <2>2. f[k + i] = Check(f[k], a[k + i])
    BY <1>1, <1>3, <2>1
  <2>3. f[k] \in {"GOT", "BOGUS"}
    BY DEF f
  <2> QED BY <2>2, <2>3 DEF Check
<1> HIDE DEF P
<1>4. Inductive(P, n)
  BY <1>2, <1>3 DEF Inductive
<1>5. n \in P
  BY <1>0, <1>4, CountUp
<1> QED BY <1>0, <1>1, <1>5 DEF P, f

(***************************************************************************)
(* Lines.                                                                  *)
(***************************************************************************)
LEMMA PlacesRight ==
  ASSUME NEW s, NEW i \in Nat, NEW bytes, Len(s) \in Nat
  PROVE  /\ Places(s, i, bytes) = {} <=> \A k \in i .. Len(s) : s[k] \notin bytes
         /\ Places(s, i, bytes) # {} =>
              /\ Min(Places(s, i, bytes)) \in i .. Len(s)
              /\ s[Min(Places(s, i, bytes))] \in bytes
              /\ \A k \in i .. Min(Places(s, i, bytes)) - 1 : s[k] \notin bytes
<1> DEFINE T == Places(s, i, bytes)
<1>1. T \in SUBSET Nat /\ T = {k \in i .. Len(s) : s[k] \in bytes}
  BY DEF Places
<1>2. T = {} <=> \A k \in i .. Len(s) : s[k] \notin bytes
  BY <1>1
<1>3. ASSUME T # {}
      PROVE  Min(T) \in i .. Len(s) /\ s[Min(T)] \in bytes
             /\ \A k \in i .. Min(T) - 1 : s[k] \notin bytes
  <2> HIDE DEF T
  <2>1. Min(T) \in T /\ \A y \in T : Min(T) <= y
    BY <1>1, <1>3, MinRight
  <2>2. Min(T) \in i .. Len(s) /\ s[Min(T)] \in bytes
    BY <1>1, <2>1
  <2>3. ASSUME NEW k \in i .. Min(T) - 1 PROVE s[k] \notin bytes
    <3>1. k \in i .. Len(s) /\ ~(Min(T) <= k)
      BY <2>2
    <3> QED BY <1>1, <2>1, <3>1
  <2> QED BY <2>2, <2>3
<1> QED BY <1>2, <1>3

\* A C string: the bytes before the first NUL.
Beginning(text, line) ==
  /\ text \in Seq(Byte) /\ Len(text) <= Len(line)
  /\ \A k \in 1 .. Len(text) : text[k] = line[k] /\ text[k] # "nul"
  /\ Len(text) < Len(line) => line[Len(text) + 1] = "nul"

LEMMA CStringRight ==
  ASSUME NEW line \in Seq(Byte)
  PROVE  Beginning(CString(line), line)
<1> DEFINE T == Places(line, 1, {"nul"})
<1>1. Len(line) \in Nat
  OBVIOUS
<1>2. /\ T = {} <=> \A k \in 1 .. Len(line) : line[k] \notin {"nul"}
      /\ T # {} => /\ Min(T) \in 1 .. Len(line)
                   /\ line[Min(T)] \in {"nul"}
                   /\ \A k \in 1 .. Min(T) - 1 : line[k] \notin {"nul"}
  <2>1. 1 \in Nat
    OBVIOUS
  <2> QED BY <1>1, <2>1, PlacesRight
<1>3. CString(line) = IF T = {} THEN line ELSE SubSeq(line, 1, Min(T) - 1)
  BY DEF CString
<1> HIDE DEF T
<1>4. CASE T = {}
  BY <1>1, <1>2, <1>3, <1>4 DEF Beginning
<1>5. CASE T # {}
  <2> DEFINE n == Min(T) - 1
             c == SubSeq(line, 1, n)
  <2>1. n \in 0 .. Len(line) - 1 /\ n + 1 = Min(T)
    BY <1>1, <1>2, <1>5
  <2> HIDE DEF n
  <2>2. c \in Seq(Byte) /\ Len(c) = n /\ \A k \in 1 .. n : c[k] = line[k]
    BY <2>1
  <2>3. \A k \in 1 .. n : line[k] # "nul"
    BY <1>2, <1>5, <2>1
  <2>4. CString(line) = c
    BY <1>3, <1>5 DEF n
  <2>5. line[n + 1] = "nul"
    BY <1>2, <1>5, <2>1
  <2> HIDE DEF c
  <2>6. n < Len(line) /\ n <= Len(line)
    BY <1>1, <2>1
  <2> QED BY <2>2, <2>3, <2>4, <2>5, <2>6 DEF Beginning
<1> QED BY <1>4, <1>5

\* The line from byte i on, and where the next one starts.
LineAt(buf, i, end, g) ==
  /\ end \in i .. Len(buf) /\ buf[end] \in Newline
  /\ \A k \in i .. end - 1 : buf[k] \notin Newline
  /\ g.found = TRUE
  /\ Beginning(g.text, SubSeq(buf, i, end - 1))
  /\ \/ g.next = end + 1
     \/ /\ g.next = end + 2 /\ end < Len(buf)
        /\ buf[end] = "cr" /\ buf[end + 1] = "lf"

LEMMA BufgetsRight ==
  ASSUME NEW buf \in Seq(Byte), NEW i \in Nat \ {0}
  PROVE  \/ /\ Bufgets(buf, i) = NoLine(buf)
            /\ \A k \in i .. Len(buf) : buf[k] \notin Newline
         \/ /\ LineAt(buf, i, Min(Places(buf, i, Newline)), Bufgets(buf, i))
            /\ Places(buf, i, Newline) # {}
<1> DEFINE T == Places(buf, i, Newline)
           end == Min(T)
           g == Bufgets(buf, i)
           pair == buf[end] = "cr" /\ end < Len(buf) /\ buf[end + 1] = "lf"
<1>1. Len(buf) \in Nat
  OBVIOUS
<1>2. /\ T = {} <=> \A k \in i .. Len(buf) : buf[k] \notin Newline
      /\ T # {} => /\ end \in i .. Len(buf)
                   /\ buf[end] \in Newline
                   /\ \A k \in i .. end - 1 : buf[k] \notin Newline
  BY <1>1, PlacesRight
<1>3. g = IF T = {} THEN NoLine(buf)
          ELSE [found |-> TRUE, text |-> CString(SubSeq(buf, i, end - 1)),
                next |-> IF pair THEN end + 2 ELSE end + 1]
  BY DEF Bufgets
<1> HIDE DEF T, g
<1>4. CASE T = {}
  BY <1>2, <1>3, <1>4 DEF g
<1>5. CASE T # {}
  <2> HIDE DEF end
  <2>0. end \in i .. Len(buf)
    BY <1>2, <1>5
  <2>1. SubSeq(buf, i, end - 1) \in Seq(Byte)
    BY <1>1, <2>0
  <2>2. Beginning(CString(SubSeq(buf, i, end - 1)), SubSeq(buf, i, end - 1))
    BY <2>1, CStringRight
  <2>3. /\ g.found = TRUE /\ g.text = CString(SubSeq(buf, i, end - 1))
        /\ g.next = IF pair THEN end + 2 ELSE end + 1
    BY <1>3, <1>5
  <2>4. LineAt(buf, i, end, g)
    BY <1>2, <1>5, <2>2, <2>3 DEF LineAt
  <2> QED BY <1>5, <2>4 DEF g, T, end
<1> QED BY <1>4, <1>5

(***************************************************************************)
(* Words.                                                                  *)
(***************************************************************************)
WordLists(B) == Seq(B \cup {Empty}) \ {<<>>}

LEMMA EntryReplaced ==
  ASSUME NEW T, NEW n \in Nat \ {0}, NEW w \in [1 .. n -> T], NEW b \in T
  PROVE  /\ [w EXCEPT ![n] = b] \in Seq(T)
         /\ Len([w EXCEPT ![n] = b]) = n
         /\ [w EXCEPT ![n] = b][n] = b
         /\ \A k \in 1 .. n - 1 : [w EXCEPT ![n] = b][k] = w[k]
<1>1. [w EXCEPT ![n] = b] \in Seq(T) /\ Len([w EXCEPT ![n] = b]) = n
  OBVIOUS
<1>2. [w EXCEPT ![n] = b][n] = b
  OBVIOUS
<1>3. \A k \in 1 .. n - 1 : [w EXCEPT ![n] = b][k] = w[k]
  OBVIOUS
<1> QED BY <1>1, <1>2, <1>3

LEMMA LastReplaced ==
  ASSUME NEW T, NEW w \in Seq(T), w # <<>>, NEW b \in T
  PROVE  /\ [w EXCEPT ![Len(w)] = b] \in Seq(T) \ {<<>>}
         /\ Len([w EXCEPT ![Len(w)] = b]) = Len(w)
         /\ [w EXCEPT ![Len(w)] = b][Len(w)] = b
<1> DEFINE n == Len(w)
           v == [w EXCEPT ![n] = b]
<1>1. n \in Nat \ {0}
  OBVIOUS
<1>2. w \in [1 .. n -> T]
  OBVIOUS
<1> HIDE DEF n
<1>3. v \in Seq(T) /\ Len(v) = n /\ v[n] = b
  BY <1>1, <1>2, EntryReplaced
<1> HIDE DEF v
<1>4. v # <<>>
  BY <1>1, <1>3
<1> QED BY <1>3, <1>4 DEF v, n

LEMMA WordAdded ==
  ASSUME NEW T, NEW w \in Seq(T), NEW b \in T
  PROVE  /\ Append(w, b) \in Seq(T) \ {<<>>}
         /\ Len(Append(w, b)) = Len(w) + 1
         /\ Append(w, b)[Len(w) + 1] = b
         /\ \A k \in 1 .. Len(w) : Append(w, b)[k] = w[k]
OBVIOUS

LEMMA CutAtCases ==
  ASSUME NEW w, NEW b
  PROVE  /\ b # "sp" => CutAt(w, b) = [w EXCEPT ![Len(w)] = b]
         /\ b = "sp" /\ Len(w) > 1 /\ w[Len(w)] = Empty => CutAt(w, b) = w
         /\ b = "sp" /\ ~(Len(w) > 1 /\ w[Len(w)] = Empty) =>
              CutAt(w, b) = Append(w, Empty)
BY DEF CutAt

LEMMA CutAtTyped ==
  ASSUME NEW B, NEW w \in WordLists(B), NEW b \in B
  PROVE  CutAt(w, b) \in WordLists(B)
<1> DEFINE T == B \cup {Empty}
<1>1. w \in Seq(T) /\ w # <<>> /\ b \in T /\ Empty \in T
  BY DEF WordLists
<1>5. WordLists(B) = Seq(T) \ {<<>>}
  BY DEF WordLists
<1> HIDE DEF T
<1>2. CASE b # "sp"
  <2>1. CutAt(w, b) = [w EXCEPT ![Len(w)] = b]
    BY <1>2, CutAtCases
  <2>2. [w EXCEPT ![Len(w)] = b] \in Seq(T) \ {<<>>}
    BY <1>1, LastReplaced
  <2> QED BY <1>5, <2>1, <2>2
<1>3. CASE b = "sp" /\ Len(w) > 1 /\ w[Len(w)] = Empty
  BY <1>3, CutAtCases
<1>4. CASE b = "sp" /\ ~(Len(w) > 1 /\ w[Len(w)] = Empty)
  <2>1. CutAt(w, b) = Append(w, Empty)
    BY <1>4, CutAtCases
  <2>2. Append(w, Empty) \in Seq(T) \ {<<>>}
    BY <1>1, WordAdded
  <2> QED BY <1>5, <2>1, <2>2
<1> QED BY <1>2, <1>3, <1>4

LEMMA CutsRight ==
  ASSUME NEW B, NEW line \in Seq(B)
  PROVE  /\ CutsOf(line) \in [0 .. Len(line) -> WordLists(B)]
         /\ CutsOf(line)[0] = <<Empty>>
         /\ \A i \in 1 .. Len(line) :
              CutsOf(line)[i] = CutAt(CutsOf(line)[i - 1], line[i])
         /\ Cut(line) = CutsOf(line)[Len(line)]
<1> DEFINE n == Len(line)
           W == WordLists(B)
           base == <<Empty>>
           Eq(f) == f = [i \in 0 .. n |-> IF i = 0 THEN base ELSE CutAt(f[i - 1], line[i])]
           step == [i \in Nat |->
                     [x \in W |-> IF i \in 1 .. n THEN CutAt(x, line[i]) ELSE x]]
<1>0. n \in Nat /\ \A i \in 1 .. n : line[i] \in B
  OBVIOUS
<1>1. CutsOf(line) = CHOOSE f : Eq(f)
  BY DEF CutsOf
<1>b. base \in W
  BY DEF WordLists
<1> HIDE DEF base
<1>2. \E g : Run(g, W, base, step, n)
  <2>1. step \in [Nat -> [W -> W]]
    <3>1. ASSUME NEW i \in Nat, NEW x \in W
          PROVE  (IF i \in 1 .. n THEN CutAt(x, line[i]) ELSE x) \in W
      <4>1. CASE i \in 1 .. n
        <5>1. line[i] \in B
          BY <1>0, <4>1
        <5> QED BY <4>1, <5>1, CutAtTyped
      <4> QED BY <4>1
    <3> QED BY <3>1
  <2>2. Steps(W, base, step, n)
    BY <1>0, <1>b, <2>1 DEF Steps
  <2> HIDE DEF step, n, W
  <2> QED BY <2>2, Recursion
<1>3. PICK g : Run(g, W, base, step, n)
  BY <1>2
<1>4. Eq(g)
  <2>1. g \in [0 .. n -> W] /\ g[0] = base
    BY <1>3 DEF Run
  <2>2. ASSUME NEW i \in 1 .. n PROVE g[i] = CutAt(g[i - 1], line[i])
    <3>1. g[i] = step[i][g[i - 1]]
      BY <1>3 DEF Run
    <3>2. g[i - 1] \in W /\ i \in Nat
      BY <2>1, <1>0
    <3> HIDE DEF W
    <3> QED BY <3>1, <3>2
  <2>3. \A i \in 0 .. n : i = 0 \/ i \in 1 .. n
    BY <1>0
  <2> QED BY <2>1, <2>2, <2>3
<1> DEFINE f == CutsOf(line)
<1>5. Eq(f)
  <2> HIDE DEF Eq
  <2> QED BY <1>1, <1>4
<1> HIDE DEF f
<1>6. f[0] = base /\ \A i \in 1 .. n : f[i] = CutAt(f[i - 1], line[i])
  BY <1>0, <1>5
<1> DEFINE P == {i \in 0 .. n : f[i] \in W}
<1>7. 0 \in P
  BY <1>0, <1>6, <1>b
<1>8. ASSUME NEW i \in 1 .. n, i - 1 \in P PROVE i \in P
  <2>1. f[i - 1] \in W /\ line[i] \in B /\ f[i] = CutAt(f[i - 1], line[i])
    BY <1>0, <1>6, <1>8
  <2>2. f[i] \in W
    BY <2>1, CutAtTyped, Zenon
  <2> QED BY <1>0, <2>2
<1>9. Inductive(P, n)
  BY <1>7, <1>8 DEF Inductive
<1>10. \A i \in 0 .. n : f[i] \in W
  <2> HIDE DEF P
  <2>1. \A i \in 0 .. n : i \in P
    BY <1>0, <1>9, CountUp
  <2> QED BY <2>1 DEF P
<1>11. f \in [0 .. n -> W]
  <2>1. DOMAIN f = 0 .. n /\ f = [i \in 0 .. n |-> f[i]]
    BY <1>5
  <2> QED BY <1>10, <2>1
<1> QED BY <1>6, <1>11 DEF f, Cut, base

\* How many words a line has so far, by the state the automaton is in.
Counted(s, w) ==
  /\ s = "FIRSTWORD" => Len(w) = 1
  /\ s = "FIRSTWS" => Len(w) = 2 /\ w[2] = Empty
  /\ s = "SECONDWORD" => Len(w) = 2 /\ w[2] # Empty
  /\ s = "SECONDWS" => Len(w) = 3 /\ w[3] = Empty
  /\ s = "THIRDWORD" => Len(w) = 3 /\ w[3] # Empty
  /\ s = "THIRDWS" => Len(w) > 2
  /\ s \in {"FIRSTWORD", "FIRSTWS", "SECONDWORD", "SECONDWS", "THIRDWORD", "THIRDWS",
            "BOGUS"}

\* What the automaton does within the first line.
LEMMA FirstLineTable ==
  ASSUME NEW b, b \notin Newline
  PROVE  /\ Check("FIRSTWORD", b) = IF b = "sp" THEN "FIRSTWS" ELSE "FIRSTWORD"
         /\ Check("FIRSTWS", b) = IF b = "sp" THEN "FIRSTWS" ELSE "SECONDWORD"
         /\ Check("SECONDWORD", b) = IF b = "sp" THEN "SECONDWS" ELSE "SECONDWORD"
         /\ Check("SECONDWS", b) = IF b = "sp" THEN "SECONDWS" ELSE "THIRDWORD"
         /\ Check("THIRDWORD", b) = IF b = "sp" THEN "THIRDWS" ELSE "THIRDWORD"
         /\ Check("THIRDWS", b) = IF b = "sp" THEN "THIRDWS" ELSE "BOGUS"
         /\ Check("BOGUS", b) = "BOGUS"
BY DEF Check, CheckTable, On, Column, Newline

LEMMA CountedOn ==
  ASSUME NEW s, NEW w \in WordLists(Byte), Counted(s, w), NEW b \in Byte, b \notin Newline
  PROVE  Counted(Check(s, b), CutAt(w, b))
<1> DEFINE T == Byte \cup {Empty}
           v == CutAt(w, b)
           q == Check(s, b)
           n == Len(w)
<1>0. b # Empty /\ b \in T /\ Empty \in T
  <2>1. Empty \notin Words /\ Empty \notin {"sp", "lf", "cr", "nul"}
    BY RequestAssumption, Zenon DEF Empty
  <2> QED BY <2>1 DEF Byte
<1>1. w \in Seq(T) /\ w # <<>>
  BY DEF WordLists
<1> HIDE DEF T
<1>2. n \in Nat /\ n > 0
  BY <1>1
<1>3. /\ s = "FIRSTWORD" => q = IF b = "sp" THEN "FIRSTWS" ELSE "FIRSTWORD"
      /\ s = "FIRSTWS" => q = IF b = "sp" THEN "FIRSTWS" ELSE "SECONDWORD"
      /\ s = "SECONDWORD" => q = IF b = "sp" THEN "SECONDWS" ELSE "SECONDWORD"
      /\ s = "SECONDWS" => q = IF b = "sp" THEN "SECONDWS" ELSE "THIRDWORD"
      /\ s = "THIRDWORD" => q = IF b = "sp" THEN "THIRDWS" ELSE "THIRDWORD"
      /\ s = "THIRDWS" => q = IF b = "sp" THEN "THIRDWS" ELSE "BOGUS"
      /\ s = "BOGUS" => q = "BOGUS"
  BY FirstLineTable
<1>4. /\ b # "sp" => Len(v) = n /\ v[n] = b
      /\ b = "sp" /\ n > 1 /\ w[n] = Empty => v = w
      /\ b = "sp" /\ ~(n > 1 /\ w[n] = Empty) => Len(v) = n + 1 /\ v[n + 1] = Empty
  <2>1. CASE b # "sp"
    <3>1. v = [w EXCEPT ![n] = b]
      BY <2>1, CutAtCases
    <3>2. Len([w EXCEPT ![n] = b]) = n /\ [w EXCEPT ![n] = b][n] = b
      BY <1>0, <1>1, LastReplaced
    <3> HIDE DEF v
    <3> QED BY <2>1, <3>1, <3>2
  <2>2. CASE b = "sp" /\ ~(n > 1 /\ w[n] = Empty)
    <3>1. v = Append(w, Empty)
      BY <2>2, CutAtCases
    <3>2. Len(Append(w, Empty)) = n + 1 /\ Append(w, Empty)[n + 1] = Empty
      BY <1>0, <1>1, WordAdded
    <3> HIDE DEF v
    <3> QED BY <2>2, <3>1, <3>2
  <2>3. CASE b = "sp" /\ n > 1 /\ w[n] = Empty
    <3>1. v = w
      BY <2>3, CutAtCases
    <3> HIDE DEF v
    <3> QED BY <2>3, <3>1
  <2> QED BY <2>1, <2>2, <2>3
<1> HIDE DEF v, q
<1>5. /\ s = "FIRSTWORD" => n = 1
      /\ s = "FIRSTWS" => n = 2 /\ w[2] = Empty
      /\ s = "SECONDWORD" => n = 2 /\ w[2] # Empty
      /\ s = "SECONDWS" => n = 3 /\ w[3] = Empty
      /\ s = "THIRDWORD" => n = 3 /\ w[3] # Empty
      /\ s = "THIRDWS" => n > 2
      /\ s \in {"FIRSTWORD", "FIRSTWS", "SECONDWORD", "SECONDWS", "THIRDWORD",
                "THIRDWS", "BOGUS"}
  BY DEF Counted
<1> HIDE DEF n
<1>6. Counted(q, v)
  <2>1. CASE s = "FIRSTWORD" /\ b = "sp"
    BY <1>0, <1>2, <1>3, <1>4, <1>5, <2>1 DEF Counted
  <2>2. CASE s = "FIRSTWORD" /\ b # "sp"
    BY <1>0, <1>2, <1>3, <1>4, <1>5, <2>2 DEF Counted
  <2>3. CASE s = "FIRSTWS" /\ b = "sp"
    BY <1>0, <1>2, <1>3, <1>4, <1>5, <2>3 DEF Counted
  <2>4. CASE s = "FIRSTWS" /\ b # "sp"
    BY <1>0, <1>2, <1>3, <1>4, <1>5, <2>4 DEF Counted
  <2>5. CASE s = "SECONDWORD" /\ b = "sp"
    BY <1>0, <1>2, <1>3, <1>4, <1>5, <2>5 DEF Counted
  <2>6. CASE s = "SECONDWORD" /\ b # "sp"
    BY <1>0, <1>2, <1>3, <1>4, <1>5, <2>6 DEF Counted
  <2>7. CASE s = "SECONDWS" /\ b = "sp"
    BY <1>0, <1>2, <1>3, <1>4, <1>5, <2>7 DEF Counted
  <2>8. CASE s = "SECONDWS" /\ b # "sp"
    BY <1>0, <1>2, <1>3, <1>4, <1>5, <2>8 DEF Counted
  <2>9. CASE s = "THIRDWORD" /\ b = "sp"
    BY <1>0, <1>2, <1>3, <1>4, <1>5, <2>9 DEF Counted
  <2>10. CASE s = "THIRDWORD" /\ b # "sp"
    BY <1>0, <1>2, <1>3, <1>4, <1>5, <2>10 DEF Counted
  <2>11. CASE s = "THIRDWS" /\ b = "sp"
    BY <1>0, <1>2, <1>3, <1>4, <1>5, <2>11 DEF Counted
  <2>12. CASE s = "THIRDWS" /\ b # "sp"
    BY <1>0, <1>2, <1>3, <1>4, <1>5, <2>12 DEF Counted
  <2>13. CASE s = "BOGUS"
    BY <1>0, <1>2, <1>3, <1>4, <1>5, <2>13 DEF Counted
  <2> QED BY <1>5, <2>1, <2>2, <2>3, <2>4, <2>5, <2>6, <2>7, <2>8, <2>9, <2>10, <2>11,
              <2>12, <2>13
<1> QED BY <1>6 DEF v, q

LEMMA WordsCounted ==
  ASSUME NEW line \in Seq(Byte), \A k \in 1 .. Len(line) : line[k] \notin Newline
  PROVE  \A i \in 0 .. Len(line) :
           Counted(States("FIRSTWORD", line)[i], CutsOf(line)[i])
<1> DEFINE n == Len(line)
           f == States("FIRSTWORD", line)
           w == CutsOf(line)
           P == {i \in 0 .. n : Counted(f[i], w[i])}
<1>0. n \in Nat /\ \A k \in 1 .. n : line[k] \in Byte
  OBVIOUS
<1>1. f[0] = "FIRSTWORD" /\ \A i \in 1 .. n : f[i] = Check(f[i - 1], line[i])
  <2>1. "FIRSTWORD" \in AllStates
    BY DEF AllStates, CheckedState
  <2> QED BY <2>1, StatesRight
<1>2. /\ w \in [0 .. n -> WordLists(Byte)] /\ w[0] = <<Empty>>
      /\ \A i \in 1 .. n : w[i] = CutAt(w[i - 1], line[i])
  BY CutsRight
<1> HIDE DEF f, w
<1>3. 0 \in P
  <2>1. Len(<<Empty>>) = 1
    OBVIOUS
  <2>2. Counted("FIRSTWORD", <<Empty>>)
    BY <2>1 DEF Counted
  <2> QED BY <1>0, <1>1, <1>2, <2>2
<1>4. ASSUME NEW i \in 1 .. n, i - 1 \in P PROVE i \in P
  <2>1. /\ Counted(f[i - 1], w[i - 1]) /\ w[i - 1] \in WordLists(Byte)
        /\ line[i] \in Byte /\ line[i] \notin Newline
        /\ i \in 0 .. n
    BY <1>0, <1>2, <1>4
  <2>2. Counted(Check(f[i - 1], line[i]), CutAt(w[i - 1], line[i]))
    BY <2>1, CountedOn
  <2> QED BY <1>1, <1>2, <2>1, <2>2
<1> HIDE DEF P
<1>5. Inductive(P, n)
  BY <1>3, <1>4 DEF Inductive
<1>6. \A i \in 0 .. n : i \in P
  BY <1>0, <1>5, CountUp
<1> QED BY <1>6 DEF P, f, w

\* The words of a beginning are the first words of the whole.
LEMMA BeginningCut ==
  ASSUME NEW line \in Seq(Byte), NEW text, Beginning(text, line)
  PROVE  Cut(text) = CutsOf(line)[Len(text)]
<1> DEFINE n == Len(text)
           x == CutsOf(text)
           w == CutsOf(line)
           P == {i \in 0 .. n : x[i] = w[i]}
<1>0. /\ text \in Seq(Byte) /\ n \in Nat /\ Len(line) \in Nat /\ n <= Len(line)
      /\ \A k \in 1 .. n : text[k] = line[k]
  BY DEF Beginning
<1>1. /\ x[0] = <<Empty>> /\ Cut(text) = x[n]
      /\ \A i \in 1 .. n : x[i] = CutAt(x[i - 1], text[i])
  BY <1>0, CutsRight
<1>2. w[0] = <<Empty>> /\ \A i \in 1 .. Len(line) : w[i] = CutAt(w[i - 1], line[i])
  BY CutsRight
<1> HIDE DEF x, w
<1>3. 0 \in P
  BY <1>0, <1>1, <1>2
<1>4. ASSUME NEW i \in 1 .. n, i - 1 \in P PROVE i \in P
  <2>1. i \in 1 .. Len(line) /\ i \in 0 .. n /\ text[i] = line[i]
    BY <1>0
  <2> QED BY <1>1, <1>2, <1>4, <2>1
<1> HIDE DEF P
<1>5. Inductive(P, n)
  BY <1>3, <1>4 DEF Inductive
<1>6. n \in P
  BY <1>0, <1>5, CountUp
<1> QED BY <1>1, <1>6 DEF P, w

\* The states with more than two words behind them; no byte of the line leads back.
Late == {"SECONDWS", "THIRDWORD", "THIRDWS", "BOGUS"}

LEMMA StaysLate ==
  ASSUME NEW line \in Seq(Byte), \A k \in 1 .. Len(line) : line[k] \notin Newline,
         NEW p \in 0 .. Len(line), States("FIRSTWORD", line)[p] \in Late
  PROVE  States("FIRSTWORD", line)[Len(line)] \in Late
<1> DEFINE f == States("FIRSTWORD", line)
           n == Len(line) - p
           P == {i \in 0 .. n : f[p + i] \in Late}
<1>0. Len(line) \in Nat /\ n \in Nat /\ p \in Nat /\ p + n = Len(line)
  OBVIOUS
<1>1. \A i \in 1 .. Len(line) : f[i] = Check(f[i - 1], line[i])
  <2>1. "FIRSTWORD" \in AllStates
    BY DEF AllStates, CheckedState
  <2> QED BY <2>1, StatesRight
<1>2. f[p] \in Late
  OBVIOUS
<1> HIDE DEF f
<1>3. 0 \in P
  BY <1>0, <1>2
<1>4. ASSUME NEW i \in 1 .. n, i - 1 \in P PROVE i \in P
  <2>1. p + i \in 1 .. Len(line) /\ p + i - 1 = p + (i - 1)
    BY <1>0
  <2>2. f[p + i] = Check(f[p + (i - 1)], line[p + i]) /\ line[p + i] \notin Newline
    BY <1>1, <2>1
  <2>3. f[p + (i - 1)] \in Late
    BY <1>4
  <2>4. f[p + i] \in Late
    BY <2>2, <2>3, FirstLineTable DEF Late
  <2> QED BY <2>4
<1> HIDE DEF P
<1>5. Inductive(P, n)
  BY <1>3, <1>4 DEF Inductive
<1>6. n \in P
  BY <1>0, <1>5, CountUp
<1> QED BY <1>0, <1>6 DEF P, f

LEMMA LineEndTable ==
  ASSUME NEW b \in Newline
  PROVE  /\ Check("FIRSTWORD", b) = "BOGUS" /\ Check("FIRSTWS", b) = "BOGUS"
         /\ Check("SECONDWORD", b) = "GOT" /\ Check("SECONDWS", b) = "BOGUS"
         /\ Check("THIRDWORD", b) = IF b = "lf" THEN "LF" ELSE "CR"
         /\ Check("THIRDWS", b) = IF b = "lf" THEN "LF" ELSE "CR"
         /\ Check("LINE", b) = IF b = "lf" THEN "LF" ELSE "CR"
         /\ Check("BOGUS", b) = "BOGUS"
         /\ b = "lf" => Check("CR", b) = "CRLF"
BY DEF Check, CheckTable, On, Column, Newline

\* A request of more than two words has header lines, one of fewer is whole, or
\* bogus, at the end of its first line.
LEMMA FirstLineRead ==
  ASSUME NEW buf \in Seq(Byte), NEW end, NEW g, LineAt(buf, 1, end, g)
  PROVE  /\ end \in 1 .. Len(buf)
         /\ Len(Cut(g.text)) > 2 =>
              /\ States("FIRSTWORD", buf)[end] \in {"LF", "CR", "BOGUS"}
              /\ buf[end] = "cr" => States("FIRSTWORD", buf)[end] # "LF"
         /\ ~(Len(Cut(g.text)) > 2) /\ g.text = SubSeq(buf, 1, end - 1) =>
              States("FIRSTWORD", buf)[end] \in {"GOT", "BOGUS"}
<1> DEFINE line == SubSeq(buf, 1, end - 1)
           n == end - 1
           f == States("FIRSTWORD", buf)
           h == States("FIRSTWORD", line)
           text == g.text
<1>1. /\ end \in 1 .. Len(buf) /\ buf[end] \in Newline
      /\ \A k \in 1 .. end - 1 : buf[k] \notin Newline
      /\ Beginning(text, line)
  BY DEF LineAt
<1>2. n \in Nat /\ Len(buf) \in Nat /\ end \in Nat /\ n <= Len(buf)
  BY <1>1
<1>3. line \in Seq(Byte) /\ Len(line) = n /\ \A k \in 1 .. n : line[k] = buf[k]
  BY <1>1, <1>2
<1>4. "FIRSTWORD" \in AllStates
  BY DEF AllStates, CheckedState
<1>5. f[0] = "FIRSTWORD" /\ f[end] = Check(f[n], buf[end])
  BY <1>1, <1>4, StatesRight
<1>6. h[n] = f[n]
  <2>1. PartOf(line, buf, 0)
    <3> HIDE DEF line, n
    <3> QED BY <1>2, <1>3 DEF PartOf
  <2>2. \A i \in 0 .. Len(line) : States(f[0], line)[i] = f[0 + i]
    <3> HIDE DEF line
    <3> QED BY <1>4, <2>1, PartScanned
  <2> HIDE DEF f, line, n
  <2>3. n \in 0 .. Len(line) /\ 0 + n = n
    BY <1>2, <1>3
  <2> QED BY <1>5, <2>2, <2>3
<1> HIDE DEF line, n
<1>7. \A k \in 1 .. Len(line) : line[k] \notin Newline
  BY <1>1, <1>2, <1>3 DEF n
<1>8. \A i \in 0 .. n : Counted(h[i], CutsOf(line)[i])
  BY <1>3, <1>7, WordsCounted
<1>9. Len(text) \in 0 .. n /\ Cut(text) = CutsOf(line)[Len(text)]
  <2>1. text \in Seq(Byte) /\ Len(text) <= n
    BY <1>1, <1>3 DEF Beginning
  <2>2. Cut(text) = CutsOf(line)[Len(text)]
    BY <1>1, <1>3, BeginningCut
  <2> HIDE DEF text
  <2>3. Len(text) \in Nat
    BY <2>1
  <2> QED BY <1>2, <2>1, <2>2, <2>3
<1> HIDE DEF f, h, text
<1>10. CASE Len(Cut(text)) > 2
  <2>1. Counted(h[Len(text)], Cut(text))
    BY <1>8, <1>9
  <2>2. h[Len(text)] \in Late
    <3> DEFINE c == Cut(text)
               s == h[Len(text)]
    <3>1. Counted(s, c) /\ Len(c) > 2
      BY <1>10, <2>1
    <3> HIDE DEF c, s
    <3>2. s \in Late
      BY <3>1 DEF Counted, Late
    <3> QED BY <3>2 DEF s
  <2>3. h[n] \in Late
    BY <1>3, <1>7, <1>9, <2>2, StaysLate DEF h
  <2>4. f[end] = Check(h[n], buf[end])
    BY <1>5, <1>6
  <2>5. f[end] \in {"LF", "CR", "BOGUS"} /\ (buf[end] = "cr" => f[end] # "LF")
    BY <1>1, <2>3, <2>4, LineEndTable DEF Late
  <2> QED BY <1>1, <1>10, <2>5 DEF f, text
<1>11. CASE ~(Len(Cut(text)) > 2) /\ text = line
  <2>1. n \in 0 .. n
    BY <1>2
  <2>2. Counted(h[n], Cut(text))
    BY <1>3, <1>8, <1>9, <1>11, <2>1
  <2>3. h[n] \in {"FIRSTWORD", "FIRSTWS", "SECONDWORD", "BOGUS"}
    <3> DEFINE c == Cut(text)
               s == h[n]
    <3>1. Counted(s, c) /\ ~(Len(c) > 2)
      BY <1>11, <2>2
    <3> HIDE DEF c, s
    <3>2. s \in {"FIRSTWORD", "FIRSTWS", "SECONDWORD", "BOGUS"}
      BY <3>1 DEF Counted
    <3> QED BY <3>2 DEF s
  <2>4. f[end] = Check(h[n], buf[end])
    BY <1>5, <1>6
  <2>5. f[end] \in {"GOT", "BOGUS"}
    BY <1>1, <2>3, <2>4, LineEndTable
  <2> QED BY <1>1, <1>11, <2>5 DEF f, text
<1>12. CASE ~(Len(Cut(text)) > 2) /\ text # line
  BY <1>1, <1>12 DEF text, line
<1> QED BY <1>10, <1>11, <1>12

(***************************************************************************)
(* Header lines.  Between is where the automaton is when one starts.       *)
(***************************************************************************)
Between == {"LF", "CR", "CRLF"}

LEMMA WithinLineTable ==
  ASSUME NEW b, b \notin Newline, NEW s \in Between \cup {"LINE"}
  PROVE  Check(s, b) = "LINE"
BY DEF Check, CheckTable, On, Column, Newline, Between

\* The bytes of a line.
LEMMA InLine ==
  ASSUME NEW buf \in Seq(Byte), NEW i \in Nat \ {0}, NEW j \in Nat,
         j <= Len(buf), \A k \in i .. j : buf[k] \notin Newline,
         States("FIRSTWORD", buf)[i - 1] \in Between
  PROVE  \A k \in i .. j : States("FIRSTWORD", buf)[k] = "LINE"
<1> DEFINE f == States("FIRSTWORD", buf)
           P == {k \in 0 .. j : k >= i => f[k] = "LINE"}
<1>0. Len(buf) \in Nat
  OBVIOUS
<1>1. \A k \in 1 .. Len(buf) : f[k] = Check(f[k - 1], buf[k])
  <2>1. "FIRSTWORD" \in AllStates
    BY DEF AllStates, CheckedState
  <2> QED BY <2>1, StatesRight
<1>2. f[i - 1] \in Between
  OBVIOUS
<1> HIDE DEF f
<1>3. 0 \in P
  OBVIOUS
<1>4. ASSUME NEW k \in 1 .. j, k - 1 \in P PROVE k \in P
  <2>1. CASE k < i
    BY <2>1
  <2>2. CASE k >= i
    <3>1. k \in i .. j /\ k \in 1 .. Len(buf)
      BY <1>0, <2>2
    <3>2. f[k] = Check(f[k - 1], buf[k]) /\ buf[k] \notin Newline
      BY <1>1, <3>1
    <3>3. f[k - 1] \in Between \cup {"LINE"}
      <4>1. CASE k = i
        BY <1>2, <4>1
      <4>2. CASE k # i
        BY <1>4, <2>2, <4>2
      <4> QED BY <4>1, <4>2
    <3>4. f[k] = "LINE"
      BY <3>2, <3>3, WithinLineTable
    <3> QED BY <3>4
  <2>3. k < i \/ k >= i
    OBVIOUS
  <2> QED BY <2>1, <2>2, <2>3
<1> HIDE DEF P
<1>5. Inductive(P, j)
  BY <1>3, <1>4 DEF Inductive
<1>6. \A k \in 0 .. j : k \in P
  BY <1>5, CountUp
<1>7. ASSUME NEW k \in i .. j PROVE f[k] = "LINE"
  BY <1>6 DEF P
<1> QED BY <1>7 DEF f

\* A line that is not blank leads to the start of the next.
LEMMA LineRead ==
  ASSUME NEW buf \in Seq(Byte), NEW i \in Nat \ {0}, NEW end, NEW g,
         LineAt(buf, i, end, g), g.text # <<>>,
         States("FIRSTWORD", buf)[i - 1] \in Between
  PROVE  States("FIRSTWORD", buf)[g.next - 1] \in Between
<1> DEFINE f == States("FIRSTWORD", buf)
<1>1. /\ end \in i .. Len(buf) /\ buf[end] \in Newline
      /\ \A k \in i .. end - 1 : buf[k] \notin Newline
      /\ Beginning(g.text, SubSeq(buf, i, end - 1))
      /\ \/ g.next = end + 1
         \/ /\ g.next = end + 2 /\ end < Len(buf)
            /\ buf[end] = "cr" /\ buf[end + 1] = "lf"
  BY DEF LineAt
<1>2. Len(buf) \in Nat /\ end \in Nat
  BY <1>1
<1>3. end > i
  <2> SUFFICES ASSUME end = i PROVE FALSE
    BY <1>1, <1>2
  <2>1. Len(SubSeq(buf, i, end - 1)) = 0
    BY <1>2
  <2>2. g.text \in Seq(Byte) /\ Len(g.text) <= 0
    BY <1>1, <2>1 DEF Beginning
  <2> DEFINE text == g.text
  <2>3. text \in Seq(Byte) /\ Len(text) <= 0 /\ text # <<>>
    BY <2>2
  <2> HIDE DEF text
  <2> QED BY <2>3
<1>4. \A k \in 1 .. Len(buf) : f[k] = Check(f[k - 1], buf[k])
  <2>1. "FIRSTWORD" \in AllStates
    BY DEF AllStates, CheckedState
  <2> QED BY <2>1, StatesRight
<1>5. f[end - 1] = "LINE"
  <2>1. end - 1 \in Nat /\ end - 1 <= Len(buf) /\ end - 1 \in i .. end - 1
    BY <1>1, <1>2, <1>3
  <2>2. \A k \in i .. end - 1 : f[k] = "LINE"
    BY <1>1, <2>1, InLine
  <2> QED BY <2>1, <2>2
<1> HIDE DEF f
<1>6. f[end] = IF buf[end] = "lf" THEN "LF" ELSE "CR"
  <2>1. end \in 1 .. Len(buf)
    BY <1>1, <1>2
  <2> QED BY <1>1, <1>4, <1>5, <2>1, LineEndTable
<1>7. CASE g.next = end + 1
  <2>1. g.next - 1 = end
    BY <1>2, <1>7
  <2>2. f[g.next - 1] \in Between
    BY <1>6, <2>1 DEF Between
  <2> QED BY <2>2 DEF f
<1>8. CASE /\ g.next = end + 2 /\ end < Len(buf)
           /\ buf[end] = "cr" /\ buf[end + 1] = "lf"
  <2> DEFINE k == end + 1
  <2>1. g.next - 1 = k /\ k \in 1 .. Len(buf) /\ k - 1 = end /\ buf[k] = "lf"
    BY <1>2, <1>8
  <2> HIDE DEF k
  <2>5. f[end] = "CR"
    BY <1>6, <1>8
  <2>6. f[k] = Check(f[k - 1], buf[k])
    BY <1>4, <2>1
  <2>2. f[k] = Check("CR", "lf")
    BY <2>1, <2>5, <2>6
  <2>3. Check("CR", "lf") = "CRLF"
    BY LineEndTable DEF Newline
  <2>4. f[g.next - 1] \in Between
    BY <2>1, <2>2, <2>3 DEF Between
  <2> QED BY <2>4 DEF f
<1> QED BY <1>1, <1>7, <1>8

\* The end of the first line is where the first header line starts.
LEMMA FirstHeaderLine ==
  ASSUME NEW buf \in Seq(Byte), NEW end, NEW g, LineAt(buf, 1, end, g),
         Len(Cut(g.text)) > 2, Scan("FIRSTWORD", buf) = "GOT"
  PROVE  States("FIRSTWORD", buf)[g.next - 1] \in Between
<1> DEFINE f == States("FIRSTWORD", buf)
<1>1. /\ end \in 1 .. Len(buf) /\ f[end] \in {"LF", "CR", "BOGUS"}
      /\ buf[end] = "cr" => f[end] # "LF"
  BY FirstLineRead
<1>2. /\ \/ g.next = end + 1
         \/ /\ g.next = end + 2 /\ end < Len(buf)
            /\ buf[end] = "cr" /\ buf[end + 1] = "lf"
  BY DEF LineAt
<1>3. Len(buf) \in Nat /\ end \in Nat
  BY <1>1
<1>4. "FIRSTWORD" \in AllStates
  BY DEF AllStates, CheckedState
<1>5. \A k \in 1 .. Len(buf) : f[k] = Check(f[k - 1], buf[k])
  BY <1>4, StatesRight
<1>6. f[end] # "BOGUS"
  <2> SUFFICES ASSUME f[end] = "BOGUS" PROVE FALSE
    OBVIOUS
  <2>1. end \in 0 .. Len(buf) /\ f[end] \in {"GOT", "BOGUS"}
    BY <1>1
  <2>2. Scan("FIRSTWORD", buf) = f[end]
    BY <1>4, <2>1, Decided
  <2> QED BY <2>2
<1> HIDE DEF f
<1>7. CASE g.next = end + 1
  <2>1. g.next - 1 = end
    BY <1>3, <1>7
  <2>2. f[g.next - 1] \in Between
    BY <1>1, <1>6, <2>1 DEF Between
  <2> QED BY <2>2 DEF f
<1>8. CASE /\ g.next = end + 2 /\ end < Len(buf)
           /\ buf[end] = "cr" /\ buf[end + 1] = "lf"
  <2>1. g.next - 1 = end + 1 /\ end + 1 \in 1 .. Len(buf) /\ end + 1 - 1 = end
    BY <1>3, <1>8
  <2>2. f[end + 1] = Check("CR", "lf")
    BY <1>1, <1>5, <1>6, <1>8, <2>1
  <2>3. Check("CR", "lf") = "CRLF"
    BY LineEndTable DEF Newline
  <2>4. f[g.next - 1] \in Between
    BY <2>1, <2>2, <2>3 DEF Between
  <2> QED BY <2>4 DEF f
<1> QED BY <1>2, <1>7, <1>8

\* Without another line end the request is not whole.
LEMMA NoLineEnd ==
  ASSUME NEW buf \in Seq(Byte), NEW i \in 1 .. Len(buf) + 1,
         \A k \in i .. Len(buf) : buf[k] \notin Newline,
         States("FIRSTWORD", buf)[i - 1] \in Between
  PROVE  Scan("FIRSTWORD", buf) # "GOT"
<1> DEFINE f == States("FIRSTWORD", buf)
<1>0. Len(buf) \in Nat /\ i \in Nat \ {0}
  OBVIOUS
<1>1. Scan("FIRSTWORD", buf) = f[Len(buf)]
  BY DEF Scan
<1>2. CASE i = Len(buf) + 1
  <2>1. f[Len(buf)] \in Between
    BY <1>0, <1>2
  <2> HIDE DEF f
  <2> QED BY <1>1, <2>1 DEF Between
<1>3. CASE i # Len(buf) + 1
  <2>1. Len(buf) \in i .. Len(buf) /\ Len(buf) <= Len(buf)
    BY <1>0, <1>3
  <2>2. f[Len(buf)] = "LINE"
    BY <1>0, <2>1, InLine
  <2> HIDE DEF f
  <2> QED BY <1>1, <2>2
<1> QED BY <1>2, <1>3

(***************************************************************************)
(* Fields.  What a parsed request may hold when the words seen are seen.   *)
(***************************************************************************)
Fields(seen) ==
  [method : Kinds \cup {"UNKNOWN"}, mime_flag : BOOLEAN, one_one : BOOLEAN,
   url : seen \cup {Empty}, reqhost : seen \cup {Empty},
   hdrhost : seen \cup {Empty, "bad"}, accept : Seq(seen),
   kept : [KeptFields -> seen \cup {Empty}],
   got_range : BOOLEAN, first_byte_index : Nat, last_byte_index : Nat \cup {-1},
   keep_alive : BOOLEAN, should_linger : BOOLEAN]

RangesOf(seen) == {w \in seen : KindOf(w) = "Range"}

\* A range is of lines that were seen, and there is none without one.
RangeSeen(seen, req) ==
  /\ req.got_range =>
       /\ \E w \in RangesOf(seen) : req.first_byte_index = RangeOf[w][1]
       /\ \E w \in RangesOf(seen) : req.last_byte_index = RangeOf[w][2]
  /\ ~req.got_range => req.first_byte_index = 0 /\ req.last_byte_index = -1

KeepAliveSeen(seen, req) ==
  req.keep_alive \/ req.should_linger => \E w \in seen : KindOf(w) = "keep-alive"

Requests(seen, mime_flag) ==
  {req \in Fields(seen) : /\ req.mime_flag = mime_flag
                          /\ RangeSeen(seen, req)
                          /\ KeepAliveSeen(seen, req)}

LEMMA KindTyped ==
  ASSUME NEW w
  PROVE  /\ KindOf(w) \in Kinds
         /\ KindOf(w) # "other" => w \in Words /\ w # "bad"
         /\ KindOf(w) = "Range" => /\ RangeOf[w][1] \in Nat
                                   /\ RangeOf[w][2] \in Nat \cup {-1}
<1>1. /\ Kind \in [Words -> Kinds] /\ "bad" \notin Words
      /\ RangeOf \in [{v \in Words : Kind[v] = "Range"} -> Nat \X (Nat \cup {-1})]
  BY RequestAssumption
<1>2. "other" \in Kinds
  BY DEF Kinds
<1>3. "Range" # "other"
  OBVIOUS
<1> QED BY <1>1, <1>2, <1>3 DEF KindOf

LEMMA HeaderCases ==
  ASSUME NEW req, NEW line
  PROVE  LET w == line[1]
             k == KindOf(w)
         IN  \/ k = "Host" /\ Header(req, line) = [req EXCEPT !.hdrhost = w]
             \/ k = "bad-host" /\ Header(req, line) = [req EXCEPT !.hdrhost = "bad"]
             \/ k \in KeptFields /\ Header(req, line) = [req EXCEPT !.kept[k] = w]
             \/ k = "Accept" /\ Header(req, line) = [req EXCEPT !.accept = Append(@, w)]
             \/ /\ k = "Range"
                /\ Header(req, line) =
                     [req EXCEPT
                        !.got_range = TRUE,
                        !.first_byte_index = RangeOf[w][1],
                        !.last_byte_index =
                           IF RangeOf[w][2] = -1 THEN @ ELSE RangeOf[w][2]]
             \/ k = "keep-alive" /\ Header(req, line) = [req EXCEPT !.keep_alive = TRUE]
             \/ Header(req, line) = req
<1> DEFINE w == line[1]
           k == KindOf(w)
           r == Header(req, line)
<1>1. CASE k = "Host"
  BY <1>1 DEF Header
<1>2. CASE k = "bad-host"
  BY <1>2 DEF Header
<1>3. CASE k \in KeptFields
  BY <1>3 DEF Header, KeptFields
<1>4. CASE k = "Accept"
  BY <1>4 DEF Header, KeptFields
<1>5. CASE k = "Range"
  BY <1>5 DEF Header, KeptFields
<1>6. CASE k = "keep-alive"
  BY <1>6 DEF Header, KeptFields
<1>7. CASE k \notin KeptFields \cup
                  {"Host", "bad-host", "Accept", "Range", "keep-alive"}
  BY <1>7 DEF Header
<1> QED BY <1>1, <1>2, <1>3, <1>4, <1>5, <1>6, <1>7

LEMMA HeaderTyped ==
  ASSUME NEW seen, NEW m, NEW req \in Requests(seen, m),
         NEW line \in Seq(seen), line # <<>>
  PROVE  /\ Header(req, line) \in Requests(seen, m)
         /\ req.hdrhost # "bad" /\ KindOf(line[1]) # "bad-host" =>
              Header(req, line).hdrhost # "bad"
<1> DEFINE w == line[1]
           k == KindOf(w)
           r == Header(req, line)
<1>1. w \in seen
  OBVIOUS
<1>2. req \in Fields(seen) /\ req.mime_flag = m
      /\ RangeSeen(seen, req) /\ KeepAliveSeen(seen, req)
  BY DEF Requests
<1>3. /\ k # "other" => w # "bad"
      /\ k = "Range" => RangeOf[w][1] \in Nat /\ RangeOf[w][2] \in Nat \cup {-1}
  BY KindTyped
<1>4. \/ k = "Host" /\ r = [req EXCEPT !.hdrhost = w]
      \/ k = "bad-host" /\ r = [req EXCEPT !.hdrhost = "bad"]
      \/ k \in KeptFields /\ r = [req EXCEPT !.kept[k] = w]
      \/ k = "Accept" /\ r = [req EXCEPT !.accept = Append(@, w)]
      \/ /\ k = "Range"
         /\ r = [req EXCEPT
                   !.got_range = TRUE,
                   !.first_byte_index = RangeOf[w][1],
                   !.last_byte_index =
                      IF RangeOf[w][2] = -1 THEN @ ELSE RangeOf[w][2]]
      \/ k = "keep-alive" /\ r = [req EXCEPT !.keep_alive = TRUE]
      \/ r = req
  BY HeaderCases
<1>5. k = KindOf(w)
  OBVIOUS
<1> HIDE DEF w, k, r
<1>6. CASE k = "Host" /\ r = [req EXCEPT !.hdrhost = w]
  <2>1. r \in Fields(seen) /\ r.mime_flag = m /\ r.hdrhost # "bad"
    BY <1>1, <1>2, <1>3, <1>6 DEF Fields
  <2>2. RangeSeen(seen, r) /\ KeepAliveSeen(seen, r)
    BY <1>2, <1>6 DEF Fields, RangeSeen, KeepAliveSeen
  <2> QED BY <2>1, <2>2 DEF Requests, r
<1>7. CASE k = "bad-host" /\ r = [req EXCEPT !.hdrhost = "bad"]
  <2>1. r \in Fields(seen) /\ r.mime_flag = m
    BY <1>2, <1>7 DEF Fields
  <2>2. RangeSeen(seen, r) /\ KeepAliveSeen(seen, r)
    BY <1>2, <1>7 DEF Fields, RangeSeen, KeepAliveSeen
  <2> QED BY <2>1, <2>2, <1>7 DEF Requests, r, k, w
<1>8. CASE k \in KeptFields /\ r = [req EXCEPT !.kept[k] = w]
  <2>1. r \in Fields(seen) /\ r.mime_flag = m /\ r.hdrhost = req.hdrhost
    BY <1>1, <1>2, <1>8 DEF Fields
  <2>2. RangeSeen(seen, r) /\ KeepAliveSeen(seen, r)
    BY <1>2, <1>8 DEF Fields, RangeSeen, KeepAliveSeen
  <2> QED BY <2>1, <2>2 DEF Requests, r
<1>9. CASE k = "Accept" /\ r = [req EXCEPT !.accept = Append(@, w)]
  <2>0. req.accept \in Seq(seen)
    BY <1>2 DEF Fields
  <2>1. Append(req.accept, w) \in Seq(seen)
    BY <1>1, <2>0
  <2> DEFINE a == Append(req.accept, w)
  <2>3. r = [req EXCEPT !.accept = a]
    BY <1>9
  <2> HIDE DEF a
  <2>4. r \in Fields(seen) /\ r.mime_flag = m /\ r.hdrhost = req.hdrhost
    BY <1>2, <2>1, <2>3 DEF Fields, a
  <2>2. RangeSeen(seen, r) /\ KeepAliveSeen(seen, r)
    BY <1>2, <2>3 DEF Fields, RangeSeen, KeepAliveSeen
  <2> QED BY <2>4, <2>2 DEF Requests, r
<1>10. CASE /\ k = "Range"
            /\ r = [req EXCEPT
                      !.got_range = TRUE,
                      !.first_byte_index = RangeOf[w][1],
                      !.last_byte_index =
                         IF RangeOf[w][2] = -1 THEN @ ELSE RangeOf[w][2]]
  <2>1. r \in Fields(seen) /\ r.mime_flag = m /\ r.hdrhost = req.hdrhost
    BY <1>1, <1>2, <1>3, <1>10 DEF Fields
  <2>2. /\ r.got_range /\ r.first_byte_index = RangeOf[w][1]
        /\ r.last_byte_index = IF RangeOf[w][2] = -1 THEN req.last_byte_index
                               ELSE RangeOf[w][2]
        /\ r.keep_alive = req.keep_alive /\ r.should_linger = req.should_linger
    BY <1>2, <1>10 DEF Fields
  <2>3. w \in RangesOf(seen)
    BY <1>1, <1>5, <1>10 DEF RangesOf
  <2>4. \E v \in RangesOf(seen) : r.last_byte_index = RangeOf[v][2]
    BY <1>2, <2>2, <2>3 DEF RangeSeen, Fields
  <2>5. RangeSeen(seen, r)
    BY <2>2, <2>3, <2>4 DEF RangeSeen
  <2>6. KeepAliveSeen(seen, r)
    BY <1>2, <2>2 DEF KeepAliveSeen
  <2> QED BY <2>1, <2>5, <2>6 DEF Requests, r
<1>11. CASE k = "keep-alive" /\ r = [req EXCEPT !.keep_alive = TRUE]
  <2>1. r \in Fields(seen) /\ r.mime_flag = m /\ r.hdrhost = req.hdrhost
    BY <1>2, <1>11 DEF Fields
  <2>2. RangeSeen(seen, r)
    BY <1>2, <1>11 DEF Fields, RangeSeen
  <2>3. KeepAliveSeen(seen, r)
    BY <1>1, <1>5, <1>11 DEF KeepAliveSeen
  <2> QED BY <2>1, <2>2, <2>3 DEF Requests, r
<1>12. CASE r = req
  BY <1>12 DEF r
<1> QED BY <1>4, <1>6, <1>7, <1>8, <1>9, <1>10, <1>11, <1>12

\* The bytes of a line are bytes of the buffer.
LEMMA LineSeen ==
  ASSUME NEW buf \in Seq(Byte), NEW i \in Nat \ {0}, NEW end, NEW g,
         LineAt(buf, i, end, g)
  PROVE  /\ g.text \in Seq(Range(buf)) /\ g.found
         /\ g.next \in i + 1 .. Len(buf) + 1
<1> DEFINE line == SubSeq(buf, i, end - 1)
           text == g.text
           R == Range(buf)
<1>1. /\ end \in i .. Len(buf) /\ g.found = TRUE
      /\ Beginning(text, line)
      /\ \/ g.next = end + 1
         \/ g.next = end + 2 /\ end < Len(buf)
  BY DEF LineAt
<1>2. Len(buf) \in Nat /\ end \in Nat
  BY <1>1
<1>3. Len(line) = end - i /\ \A k \in 1 .. end - i : line[k] = buf[i + k - 1]
  BY <1>1, <1>2
<1>4. \A k \in 1 .. Len(buf) : buf[k] \in R
  BY DEF Range
<1> HIDE DEF line, text, R
<1>5. /\ text \in Seq(Byte) /\ Len(text) <= end - i
      /\ \A k \in 1 .. Len(text) : text[k] = line[k]
  BY <1>1, <1>3 DEF Beginning
<1>6. ASSUME NEW k \in 1 .. Len(text) PROVE text[k] \in R
  <2>1. k \in 1 .. end - i /\ i + k - 1 \in 1 .. Len(buf)
    BY <1>1, <1>2, <1>5
  <2> QED BY <2>1, <1>3, <1>4, <1>5
<1>7. text \in Seq(R)
  BY <1>5, <1>6
<1>8. g.next \in i + 1 .. Len(buf) + 1
  BY <1>1, <1>2
<1> QED BY <1>1, <1>7, <1>8 DEF text, R

\* A state of the header loop.
Loops(buf, m) ==
  [req : Requests(Range(buf), m), next : 1 .. Len(buf) + 1,
   over : BOOLEAN, blank : BOOLEAN]

LEMMA TurnTyped ==
  ASSUME NEW buf \in Seq(Byte), NEW m, NEW h \in Loops(buf, m)
  PROVE  Turn(buf, h) \in Loops(buf, m)
<1> DEFINE line == Bufgets(buf, h.next)
           last == ~line.found \/ line.text = <<>>
           req == IF last THEN h.req ELSE Header(h.req, line.text)
           R == Requests(Range(buf), m)
           S == Range(buf)
<1>1. h.req \in R /\ h.next \in 1 .. Len(buf) + 1 /\ Len(buf) \in Nat
  BY DEF Loops
<1>2. \/ line = NoLine(buf)
      \/ \E end : LineAt(buf, h.next, end, line)
  BY <1>1, BufgetsRight
<1> HIDE DEF line, R, S
<1>3. CASE line = NoLine(buf)
  <2>1. last /\ line.next = Len(buf) + 1 /\ line.found = FALSE
    BY <1>3 DEF NoLine
  <2> QED BY <1>1, <2>1 DEF Turn, Loops, line, R
<1>4. CASE \E end : LineAt(buf, h.next, end, line)
  <2>1. /\ line.text \in Seq(S) /\ line.found
        /\ line.next \in h.next + 1 .. Len(buf) + 1
    BY <1>1, <1>4, LineSeen DEF S
  <2>2. line.next \in 1 .. Len(buf) + 1
    BY <1>1, <2>1
  <2>3. req \in R
    BY <1>1, <2>1, HeaderTyped DEF R, S
  <2>4. line.found \in BOOLEAN
    BY <1>4 DEF LineAt
  <2> HIDE DEF req
  <2>5. Turn(buf, h) =
          IF h.over THEN h
          ELSE [req |-> req, next |-> line.next,
                over |-> last \/ req.hdrhost = "bad", blank |-> last /\ line.found]
    BY DEF Turn, line, req
  <2> QED BY <2>2, <2>3, <2>4, <2>5 DEF Loops, R
<1> QED BY <1>2, <1>3, <1>4

LEMMA TurnsRight ==
  ASSUME NEW buf \in Seq(Byte), NEW m, NEW start \in 1 .. Len(buf) + 1,
         NEW req \in Requests(Range(buf), m)
  PROVE  /\ Turns(buf, start, req) \in [0 .. Len(buf) + 1 -> Loops(buf, m)]
         /\ Turns(buf, start, req)[0] =
              [req |-> req, next |-> start, over |-> FALSE, blank |-> FALSE]
         /\ \A k \in 1 .. Len(buf) + 1 :
              Turns(buf, start, req)[k] = Turn(buf, Turns(buf, start, req)[k - 1])
         /\ Headers(buf, start, req) = Turns(buf, start, req)[Len(buf) + 1]
<1> DEFINE n == Len(buf) + 1
           H == Loops(buf, m)
           base == [req |-> req, next |-> start, over |-> FALSE, blank |-> FALSE]
           Eq(f) == f = [k \in 0 .. n |-> IF k = 0 THEN base ELSE Turn(buf, f[k - 1])]
           step == [k \in Nat |-> [x \in H |-> Turn(buf, x)]]
<1>0. n \in Nat
  OBVIOUS
<1>1. Turns(buf, start, req) = CHOOSE f : Eq(f)
  BY DEF Turns
<1>b. base \in H
  BY DEF Loops
<1>t. \A x \in H : Turn(buf, x) \in H
  BY TurnTyped
<1>h. Headers(buf, start, req) = Turns(buf, start, req)[n]
  BY DEF Headers
<1> HIDE DEF base, n, H
<1>2. \E g : Run(g, H, base, step, n)
  <2>1. step \in [Nat -> [H -> H]]
    BY <1>t
  <2>2. Steps(H, base, step, n)
    BY <1>b, <1>0, <2>1 DEF Steps
  <2> HIDE DEF step
  <2> QED BY <2>2, Recursion
<1>3. PICK g : Run(g, H, base, step, n)
  BY <1>2
<1>4. Eq(g)
  BY <1>0, <1>3 DEF Run
<1> DEFINE f == Turns(buf, start, req)
<1>5. Eq(f)
  BY <1>1, <1>4
<1> HIDE DEF f
<1>6. f[0] = base /\ \A k \in 1 .. n : f[k] = Turn(buf, f[k - 1])
  BY <1>0, <1>5
<1> DEFINE P == {k \in 0 .. n : f[k] \in H}
<1>7. 0 \in P
  BY <1>0, <1>6, <1>b
<1>8. ASSUME NEW k \in 1 .. n, k - 1 \in P PROVE k \in P
  BY <1>0, <1>6, <1>8, <1>t
<1>9. Inductive(P, n)
  BY <1>7, <1>8 DEF Inductive
<1> HIDE DEF P
<1>10. \A k \in 0 .. n : k \in P
  BY <1>0, <1>9, CountUp
<1>11. \A k \in 0 .. n : f[k] \in H
  BY <1>10 DEF P
<1>12. f \in [0 .. n -> H]
  BY <1>0, <1>5, <1>11
<1> QED BY <1>6, <1>12, <1>h DEF f, base, n, H

\* Where the loop is after k turns over the buffer of a whole request.
LoopRight(buf, k, h) ==
  /\ ~h.over => /\ h.next > k
                /\ h.req.hdrhost # "bad"
                /\ States("FIRSTWORD", buf)[h.next - 1] \in Between
  /\ h.over => h.req.hdrhost = "bad" \/ h.blank

LEMMA TurnRight ==
  ASSUME NEW buf \in Seq(Byte), Scan("FIRSTWORD", buf) = "GOT",
         NEW m, NEW h \in Loops(buf, m), NEW k \in Nat \ {0},
         LoopRight(buf, k - 1, h)
  PROVE  LoopRight(buf, k, Turn(buf, h))
<1> DEFINE line == Bufgets(buf, h.next)
           last == ~line.found \/ line.text = <<>>
           req == IF last THEN h.req ELSE Header(h.req, line.text)
           f == States("FIRSTWORD", buf)
<1>1. h.next \in 1 .. Len(buf) + 1 /\ Len(buf) \in Nat
  BY DEF Loops
<1>2. CASE h.over
  BY <1>2 DEF Turn, LoopRight
<1>3. CASE ~h.over
  <2>1. /\ h.next > k - 1 /\ f[h.next - 1] \in Between
    BY <1>3 DEF LoopRight
  <2>2. \/ line = NoLine(buf) /\ \A j \in h.next .. Len(buf) : buf[j] \notin Newline
        \/ \E end : LineAt(buf, h.next, end, line)
    BY <1>1, BufgetsRight
  <2>3. ~(\A j \in h.next .. Len(buf) : buf[j] \notin Newline)
    BY <1>1, <2>1, NoLineEnd
  <2>4. PICK end : LineAt(buf, h.next, end, line)
    BY <2>2, <2>3
  <2>5. line.found /\ line.next \in h.next + 1 .. Len(buf) + 1
    BY <1>1, <2>4, LineSeen
  <2>6. line.text # <<>> => f[line.next - 1] \in Between
    BY <1>1, <2>1, <2>4, LineRead
  <2> HIDE DEF line, f
  <2>7. CASE line.text = <<>>
    <3>1. Turn(buf, h).over /\ Turn(buf, h).blank
      BY <1>3, <2>5, <2>7 DEF Turn, line
    <3> QED BY <3>1 DEF LoopRight
  <2>8. CASE line.text # <<>>
    <3>1. ~last
      BY <2>5, <2>8
    <3> HIDE DEF req
    <3>2. /\ Turn(buf, h).next = line.next
          /\ Turn(buf, h).over = (req.hdrhost = "bad")
          /\ Turn(buf, h).req = req
      <4>1. Turn(buf, h) = [req |-> req, next |-> line.next,
                            over |-> last \/ req.hdrhost = "bad",
                            blank |-> last /\ line.found]
        BY <1>3 DEF Turn, line, req
      <4> QED BY <3>1, <4>1
    <3>3. line.next > k
      BY <1>1, <2>1, <2>5
    <3> QED BY <2>6, <2>8, <3>2, <3>3 DEF LoopRight, f
  <2> QED BY <2>7, <2>8
<1> QED BY <1>2, <1>3

\* A request the automaton takes for whole has a blank line, and the loop finds
\* it, unless a bad Host line ends it before.
LEMMA HeadersRight ==
  ASSUME NEW buf \in Seq(Byte), NEW m, NEW start \in 1 .. Len(buf) + 1,
         NEW req \in Requests(Range(buf), m)
  PROVE  /\ Headers(buf, start, req) \in Loops(buf, m)
         /\ /\ Scan("FIRSTWORD", buf) = "GOT"
            /\ States("FIRSTWORD", buf)[start - 1] \in Between
            /\ req.hdrhost # "bad"
            => \/ Headers(buf, start, req).req.hdrhost = "bad"
               \/ Headers(buf, start, req).blank
<1> DEFINE n == Len(buf) + 1
           t == Turns(buf, start, req)
           P == {k \in 0 .. n : LoopRight(buf, k, t[k])}
<1>0. n \in Nat /\ n \in 0 .. n
  OBVIOUS
<1>1. /\ t \in [0 .. n -> Loops(buf, m)]
      /\ t[0] = [req |-> req, next |-> start, over |-> FALSE, blank |-> FALSE]
      /\ \A k \in 1 .. n : t[k] = Turn(buf, t[k - 1])
      /\ Headers(buf, start, req) = t[n]
  BY TurnsRight
<1> HIDE DEF t
<1>2. t[n] \in Loops(buf, m)
  BY <1>0, <1>1
<1>3. ASSUME Scan("FIRSTWORD", buf) = "GOT",
             States("FIRSTWORD", buf)[start - 1] \in Between,
             req.hdrhost # "bad"
      PROVE  t[n].req.hdrhost = "bad" \/ t[n].blank
  <2>1. 0 \in P
    <3>1. LoopRight(buf, 0, t[0])
      BY <1>1, <1>3 DEF LoopRight
    <3> QED BY <1>0, <3>1
  <2>2. ASSUME NEW k \in 1 .. n, k - 1 \in P PROVE k \in P
    <3>1. LoopRight(buf, k - 1, t[k - 1]) /\ k - 1 \in 0 .. n /\ k \in Nat \ {0}
      BY <2>2
    <3>2. t[k - 1] \in Loops(buf, m)
      BY <1>1, <3>1
    <3>3. LoopRight(buf, k, Turn(buf, t[k - 1]))
      BY <1>3, <3>1, <3>2, TurnRight
    <3> QED BY <1>0, <1>1, <3>3
  <2> HIDE DEF P
  <2>3. Inductive(P, n)
    BY <2>1, <2>2 DEF Inductive
  <2>4. n \in P
    BY <1>0, <2>3, CountUp
  <2>5. LoopRight(buf, n, t[n])
    BY <2>4 DEF P
  <2>6. t[n].next \in 1 .. n
    BY <1>2 DEF Loops
  <2> QED BY <1>0, <2>5, <2>6 DEF LoopRight
<1> QED BY <1>1, <1>2, <1>3

\* The first bytes of a buffer, scanned by themselves.
LEMMA BeginningScanned ==
  ASSUME NEW a \in Seq(Byte), NEW k \in Nat, k <= Len(a)
  PROVE  Scan("FIRSTWORD", SubSeq(a, 1, k)) = States("FIRSTWORD", a)[k]
<1> DEFINE s == "FIRSTWORD"
           b == SubSeq(a, 1, k)
<1>1. s \in AllStates
  BY DEF AllStates, CheckedState
<1>2. PartOf(b, a, 0) /\ Len(b) = k
  BY CutBuffer
<1>3. States(s, a)[0] = s
  BY <1>1, StatesRight
<1> HIDE DEF s, b
<1>4. Scan(States(s, a)[0], b) = States(s, a)[0 + Len(b)]
  BY <1>1, <1>2, PartScanned
<1>5. 0 + Len(b) = k
  BY <1>2
<1> QED BY <1>3, <1>4, <1>5 DEF s, b

(***************************************************************************)
(* Parsing a whole buffer.                                                 *)
(***************************************************************************)
\* Whether the first line has a protocol.
HasProtocol(buf) == Len(Cut(Bufgets(buf, 1).text)) > 2

Parses(buf) ==
  [req : Requests(Range(buf), HasProtocol(buf)), error : {0, 400, 501},
   blank : BOOLEAN, next : 1 .. Len(buf) + 1]

LEMMA NotBad == Empty # "bad"
BY Zenon DEF Empty

LEMMA FirstLineTyped ==
  ASSUME NEW seen, NEW words \in WordLists(seen)
  PROVE  /\ FirstLine(words, FreshRequest) \in Requests(seen, Len(words) > 2)
         /\ FirstLine(words, FreshRequest).hdrhost = Empty
<1> DEFINE first == FirstLine(words, FreshRequest)
           url == IF Len(words) < 2 THEN Empty ELSE words[2]
           method == KindOf(words[1])
           mime_flag == Len(words) > 2
           one_one == Len(words) > 2 /\ words[3] # Empty /\ KindOf(words[3]) # "HTTP/1.0"
<1>1. words \in Seq(seen \cup {Empty}) /\ words # <<>>
  BY DEF WordLists
<1>2. url \in seen \cup {Empty}
  BY <1>1
<1>3. method \in Kinds /\ mime_flag \in BOOLEAN /\ one_one \in BOOLEAN
  BY KindTyped
<1>4. first = [method |-> method, mime_flag |-> mime_flag, one_one |-> one_one,
               url |-> url, reqhost |-> Empty, hdrhost |-> Empty,
               accept |-> <<>>, kept |-> [f \in KeptFields |-> Empty],
               got_range |-> FALSE, first_byte_index |-> 0, last_byte_index |-> -1,
               keep_alive |-> FALSE, should_linger |-> FALSE]
  <2>1. first = [FreshRequest EXCEPT !.method = method, !.url = url,
                                     !.mime_flag = mime_flag, !.one_one = one_one]
    BY Zenon DEF FirstLine
  <2> HIDE DEF first, url, method, mime_flag, one_one
  <2> QED BY <2>1 DEF FreshRequest
<1> HIDE DEF first, url, method, mime_flag, one_one
<1>5. first \in Fields(seen) /\ first.mime_flag = mime_flag /\ first.hdrhost = Empty
  <2>1. <<>> \in Seq(seen)
    OBVIOUS
  <2>2. [f \in KeptFields |-> Empty] \in [KeptFields -> seen \cup {Empty}]
    OBVIOUS
  <2> QED BY <1>2, <1>3, <1>4, <2>1, <2>2 DEF Fields
<1>6. RangeSeen(seen, first) /\ KeepAliveSeen(seen, first)
  BY <1>4 DEF RangeSeen, KeepAliveSeen
<1> QED BY <1>5, <1>6 DEF Requests, first, mime_flag

LEMMA LingerTyped ==
  ASSUME NEW seen, NEW m, NEW req \in Requests(seen, m)
  PROVE  Linger(req) \in Requests(seen, m)
<1>1. req \in Fields(seen) /\ req.mime_flag = m
      /\ RangeSeen(seen, req) /\ KeepAliveSeen(seen, req)
  BY DEF Requests
<1>2. Linger(req) \in Fields(seen) /\ Linger(req).mime_flag = m
  BY <1>1 DEF Linger, Fields
<1>3. RangeSeen(seen, Linger(req)) /\ KeepAliveSeen(seen, Linger(req))
  BY <1>1 DEF Linger, Fields, RangeSeen, KeepAliveSeen
<1> QED BY <1>2, <1>3 DEF Requests

LEMMA ReqhostTyped ==
  ASSUME NEW seen, NEW m, NEW req \in Requests(seen, m), NEW b \in BOOLEAN
  PROVE  /\ [req EXCEPT !.reqhost = IF b THEN req.url ELSE @] \in Requests(seen, m)
         /\ [req EXCEPT !.reqhost = IF b THEN req.url ELSE @].hdrhost = req.hdrhost
<1> DEFINE r == [req EXCEPT !.reqhost = IF b THEN req.url ELSE @]
<1>1. req \in Fields(seen) /\ req.mime_flag = m
      /\ RangeSeen(seen, req) /\ KeepAliveSeen(seen, req)
  BY DEF Requests
<1>2. r \in Fields(seen) /\ r.mime_flag = m /\ r.hdrhost = req.hdrhost
  BY <1>1 DEF Fields
<1>3. RangeSeen(seen, r) /\ KeepAliveSeen(seen, r)
  BY <1>1 DEF Fields, RangeSeen, KeepAliveSeen
<1> QED BY <1>2, <1>3 DEF Requests

\* The first line of any buffer.
LEMMA FirstLineFound ==
  ASSUME NEW buf \in Seq(Byte)
  PROVE  LET line == Bufgets(buf, 1)
         IN  /\ line.text \in Seq(Range(buf)) /\ line.next \in 1 .. Len(buf) + 1
             /\ Cut(line.text) \in WordLists(Range(buf))
             /\ HasProtocol(buf) =>
                  LineAt(buf, 1, Min(Places(buf, 1, Newline)), line)
<1> DEFINE line == Bufgets(buf, 1)
           R == Range(buf)
<1>1. \/ line = NoLine(buf)
      \/ LineAt(buf, 1, Min(Places(buf, 1, Newline)), line)
  BY BufgetsRight
<1> HIDE DEF R
<1>2. line.text \in Seq(R) /\ line.next \in 1 .. Len(buf) + 1
  <2>1. CASE line = NoLine(buf)
    <3>1. line.text = <<>> /\ line.next = Len(buf) + 1
      BY <2>1 DEF NoLine
    <3>2. <<>> \in Seq(R) /\ Len(buf) + 1 \in 1 .. Len(buf) + 1
      OBVIOUS
    <3> HIDE DEF line
    <3> QED BY <3>1, <3>2
  <2>2. CASE LineAt(buf, 1, Min(Places(buf, 1, Newline)), line)
    BY <2>2, LineSeen DEF R
  <2> QED BY <1>1, <2>1, <2>2
<1> HIDE DEF line
<1>3. Cut(line.text) \in WordLists(R)
  <2> DEFINE text == line.text
             W == WordLists(R)
  <2>1. text \in Seq(R)
    BY <1>2
  <2> HIDE DEF text
  <2>2. CutsOf(text) \in [0 .. Len(text) -> W] /\ Cut(text) = CutsOf(text)[Len(text)]
    BY <2>1, CutsRight
  <2>3. Len(text) \in 0 .. Len(text)
    BY <2>1
  <2> HIDE DEF W
  <2> QED BY <2>2, <2>3 DEF text, W
<1>4. line = NoLine(buf) => ~HasProtocol(buf)
  <2>1. line = NoLine(buf) => line.text = <<>>
    BY DEF NoLine
  <2>2. Cut(<<>>) = <<Empty>>
    <3>1. <<>> \in Seq(R) /\ Len(<<>>) = 0
      OBVIOUS
    <3>2. CutsOf(<<>>)[0] = <<Empty>> /\ Cut(<<>>) = CutsOf(<<>>)[Len(<<>>)]
      BY <3>1, CutsRight
    <3> QED BY <3>1, <3>2
  <2>3. Len(<<Empty>>) = 1
    OBVIOUS
  <2>4. line = NoLine(buf) => Cut(line.text) = <<Empty>>
    BY <2>1, <2>2
  <2> DEFINE n == Len(Cut(line.text))
  <2>5. HasProtocol(buf) <=> n > 2
    BY DEF HasProtocol, line
  <2>6. line = NoLine(buf) => n = 1
    BY <2>3, <2>4
  <2> HIDE DEF n
  <2> QED BY <2>5, <2>6
<1> QED BY <1>1, <1>2, <1>3, <1>4 DEF line, R

LEMMA ParseRight ==
  ASSUME NEW buf \in Seq(Byte)
  PROVE  /\ Parse(buf, FreshRequest) \in Parses(buf)
         /\ /\ Scan("FIRSTWORD", buf) = "GOT"
            /\ Parse(buf, FreshRequest).error = 0 /\ HasProtocol(buf)
            => Parse(buf, FreshRequest).blank
<1> DEFINE line == Bufgets(buf, 1)
           words == Cut(line.text)
           first == FirstLine(words, FreshRequest)
           absolute == KindOf(first.url) = "absolute"
           hostnamed == [first EXCEPT !.reqhost = IF absolute THEN first.url ELSE @]
           headers == Headers(buf, line.next, hostnamed)
           done == headers.req
           error == FirstLineError(words, first)
           bad == \/ done.hdrhost = "bad"
                  \/ done.one_one /\ done.reqhost = Empty /\ done.hdrhost = Empty
           parsed == Parse(buf, FreshRequest)
           m == HasProtocol(buf)
           R == Requests(Range(buf), m)
<1>1. parsed =
        IF error # 0
          THEN [req |-> first, error |-> error, blank |-> TRUE, next |-> line.next]
        ELSE IF ~first.mime_flag
          THEN [req |-> hostnamed, error |-> 0, blank |-> TRUE, next |-> line.next]
        ELSE IF bad
          THEN [req |-> done, error |-> 400, blank |-> headers.blank,
                next |-> headers.next]
        ELSE [req |-> Linger(done), error |-> 0, blank |-> headers.blank,
              next |-> headers.next]
  BY DEF Parse
<1>2. /\ line.next \in 1 .. Len(buf) + 1
      /\ words \in WordLists(Range(buf))
      /\ m => LineAt(buf, 1, Min(Places(buf, 1, Newline)), line)
  BY FirstLineFound
<1>3. m = (Len(words) > 2)
  BY DEF HasProtocol
<1>4. first \in R /\ first.hdrhost = Empty
  BY <1>2, <1>3, FirstLineTyped
<1>5. first.mime_flag = m
  BY <1>4 DEF Requests
<1>6. absolute \in BOOLEAN
  OBVIOUS
<1> HIDE DEF m, R, absolute, first
<1>7. hostnamed \in R /\ hostnamed.hdrhost = Empty
  BY <1>4, <1>6, ReqhostTyped DEF R
<1>8. error \in {0, 400, 501}
  BY DEF FirstLineError
<1> HIDE DEF hostnamed, error, words
<1>9. headers \in Loops(buf, m)
  BY <1>2, <1>7, HeadersRight DEF R
<1>10. headers.req \in R /\ headers.blank \in BOOLEAN
       /\ headers.next \in 1 .. Len(buf) + 1
  BY <1>9 DEF Loops, R
<1>11. Linger(done) \in R
  BY <1>10, LingerTyped DEF R
<1>12. ASSUME Scan("FIRSTWORD", buf) = "GOT", m
       PROVE  done.hdrhost = "bad" \/ headers.blank
  <2>1. States("FIRSTWORD", buf)[line.next - 1] \in Between
    BY <1>2, <1>12, FirstHeaderLine DEF m, HasProtocol
  <2>2. hostnamed.hdrhost # "bad"
    BY <1>7, NotBad
  <2> QED BY <1>2, <1>7, <1>12, <2>1, <2>2, HeadersRight DEF R
<1> HIDE DEF headers, line, parsed
<1>13. Parses(buf) = [req : R, error : {0, 400, 501}, blank : BOOLEAN,
                      next : 1 .. Len(buf) + 1]
  BY DEF Parses, R, m
<1>14. parsed \in Parses(buf)
  <2>1. CASE error # 0
    BY <1>1, <1>2, <1>4, <1>8, <1>13, <2>1
  <2>2. CASE error = 0 /\ ~first.mime_flag
    BY <1>1, <1>2, <1>7, <1>13, <2>2
  <2>3. CASE error = 0 /\ first.mime_flag /\ bad
    BY <1>1, <1>10, <1>13, <2>3
  <2>4. CASE error = 0 /\ first.mime_flag /\ ~bad
    BY <1>1, <1>10, <1>11, <1>13, <2>4
  <2> QED BY <2>1, <2>2, <2>3, <2>4
<1>15. ASSUME Scan("FIRSTWORD", buf) = "GOT", parsed.error = 0, m
       PROVE  parsed.blank
  <2>1. error = 0
    BY <1>1, <1>15
  <2>2. ~bad
    BY <1>1, <1>5, <1>15, <2>1
  <2> QED BY <1>1, <1>5, <1>12, <1>15, <2>1, <2>2
<1> QED BY <1>14, <1>15 DEF parsed, m

\* The automaton and the parser agree on the buffer of a whole request.
LEMMA ParserAgrees ==
  ASSUME NEW buf \in Seq(Byte), Scan("FIRSTWORD", buf) = "GOT"
  PROVE  LET end == Min(Places(buf, 1, Newline))
             oneLine == Scan("FIRSTWORD", SubSeq(buf, 1, end)) = "GOT"
         IN  /\ HasProtocol(buf) => ~oneLine
             /\ "nul" \notin Range(buf) => (oneLine \/ HasProtocol(buf))
<1> DEFINE T == Places(buf, 1, Newline)
           end == Min(T)
           line == Bufgets(buf, 1)
           f == States("FIRSTWORD", buf)
           b == SubSeq(buf, 1, end)
<1>0. Len(buf) \in Nat /\ "FIRSTWORD" \in AllStates /\ 0 \in 0 .. Len(buf)
  BY DEF AllStates, CheckedState
<1>1. LineAt(buf, 1, end, line)
  <2>1. CASE \A k \in 1 .. Len(buf) : buf[k] \notin Newline
    <3>1. Counted(f[Len(buf)], CutsOf(buf)[Len(buf)])
      BY <1>0, <2>1, WordsCounted
    <3>2. f[Len(buf)] # "GOT"
      BY <3>1 DEF Counted
    <3> QED BY <1>0, <3>2, StatesRight
  <2>2. CASE ~ \A k \in 1 .. Len(buf) : buf[k] \notin Newline
    BY <2>2, BufgetsRight
  <2> QED BY <2>1, <2>2
<1>2. /\ end \in 1 .. Len(buf)
      /\ HasProtocol(buf) => f[end] \in {"LF", "CR", "BOGUS"}
      /\ ~HasProtocol(buf) /\ line.text = SubSeq(buf, 1, end - 1) =>
           f[end] \in {"GOT", "BOGUS"}
  BY <1>1, FirstLineRead DEF HasProtocol
<1>3. end \in Nat /\ end <= Len(buf) /\ end >= 1
  BY <1>0, <1>2
<1> HIDE DEF end
<1>5. Scan("FIRSTWORD", b) = f[end]
  BY <1>3, BeginningScanned
<1>6. ASSUME "nul" \notin Range(buf) PROVE line.text = SubSeq(buf, 1, end - 1)
  <2> DEFINE c == SubSeq(buf, 1, end - 1)
             text == line.text
  <2>1. Beginning(text, c)
    BY <1>1 DEF LineAt
  <2>2. c \in Seq(Byte) /\ Len(c) = end - 1
        /\ \A k \in 1 .. end - 1 : c[k] = buf[k] /\ k \in 1 .. Len(buf)
    BY <1>0, <1>3
  <2> HIDE DEF c, text
  <2>3. \A k \in 1 .. end - 1 : c[k] # "nul"
    BY <1>6, <2>2 DEF Range
  <2>4. text \in Seq(Byte) /\ Len(text) <= Len(c)
        /\ (\A k \in 1 .. Len(text) : text[k] = c[k])
        /\ (Len(text) < Len(c) => c[Len(text) + 1] = "nul")
    BY <2>1 DEF Beginning
  <2>5. Len(text) = Len(c)
    BY <1>3, <2>2, <2>3, <2>4
  <2>6. text = c
    BY <2>2, <2>4, <2>5
  <2> QED BY <2>6 DEF text, c
<1>7. f[end] # "BOGUS"
  BY <1>0, <1>3, Decided
<1> HIDE DEF f, line, b
<1>8. /\ HasProtocol(buf) => Scan("FIRSTWORD", b) # "GOT"
      /\ "nul" \notin Range(buf) => Scan("FIRSTWORD", b) = "GOT" \/ HasProtocol(buf)
  BY <1>2, <1>5, <1>6, <1>7
<1> QED BY <1>8 DEF b, end

(***************************************************************************)
(* The inductive invariant.  A reply is a head of negative units and bytes *)
(* of the file; the request it answers keeps what parsing left of it, but  *)
(* for a range that was cut at the end of the file or dropped.             *)
(***************************************************************************)
Stages ==
  /\ phase \in {"reading", "sending", "closed"}
  /\ ended \in {"open", "complete", "broken", "elsewhere"}

Buffered ==
  /\ stream \in Streams \cup {<<>>}
  /\ read_idx \in 0 .. Len(stream)
  /\ read_size \in Nat /\ read_idx <= read_size
  /\ checked_idx \in 0 .. read_idx
  /\ checked_state \in AllStates

\* While a request is read nothing is parsed, announced or sent.
Unanswered ==
  phase = "reading" =>
    /\ request = FreshRequest /\ announced = Nothing
    /\ response = <<>> /\ wire = <<>>

RangeKept(seen, req) ==
  /\ req.got_range => RangesOf(seen) # {}
  /\ req.first_byte_index # 0 =>
       \E w \in RangesOf(seen) : req.first_byte_index = RangeOf[w][1]
  /\ req.last_byte_index # -1 => RangesOf(seen) # {}

Answered(seen) ==
  {req \in Fields(seen) : RangeKept(seen, req) /\ KeepAliveSeen(seen, req)}

HeadUnit == {i \in Int : i < 0}
Announcements ==
  [status : Nat, length : Nat \cup {-1}, first : Nat, last : Int,
   size : Nat \cup {-1}, range_if : BOOLEAN, head : Seq(HeadUnit)]

\* Where a range that a Range line asks for ends in a file.
RangeEnd(last, size) ==
  IF size >= 0 /\ (last = -1 \/ last >= size) THEN size - 1 ELSE last

\* What is announced of a file is within the file, and what the request with
\* the words seen asks for.
ToldRight(seen, req, told) ==
  /\ told \in Announcements
  /\ told.status \in {200, 206} /\ req.method # "HEAD" =>
       /\ told.size >= 0 /\ told.last < told.size
       /\ told.length = told.last - told.first + 1 /\ told.length \in Nat
  /\ told.status = 206 =>
       /\ told.first <= told.last
       /\ told.size >= 0 => told.last < told.size
       /\ \E w \in RangesOf(seen) : told.first = RangeOf[w][1]
       /\ \E w \in RangesOf(seen) : told.last = RangeEnd(RangeOf[w][2], told.size)
       /\ req.kept["If-Range"] # Empty => told.range_if

\* What is left to send.
Owed(rest, from, to) == rest \o FileBytes(from, to - from)

WireRight ==
  /\ wire \in Seq(Int) /\ response \in Seq(Int)
  /\ next_byte_index \in Nat /\ end_byte_index \in Nat
  /\ WireInOrder
  /\ phase = "sending" =>
       /\ HasBody
       /\ next_byte_index < end_byte_index
       /\ end_byte_index = announced.last + 1
       /\ wire \o Owed(response, next_byte_index, end_byte_index) = Reply

EInv ==
  /\ Stages
  /\ Buffered
  /\ StateOfAllBytes
  /\ Unanswered
  /\ request \in Answered(Range(read_buf))
  /\ ToldRight(Range(read_buf), request, announced)
  /\ WireRight

LEMMA BytesRight ==
  ASSUME NEW from \in Int, NEW n \in Nat
  PROVE  /\ FileBytes(from, n) \in Seq(Int) /\ Len(FileBytes(from, n)) = n
         /\ \A i \in 1 .. n : FileBytes(from, n)[i] = from + i - 1
BY DEF FileBytes

BodyOf(req, told) ==
  IF told.status \in {200, 206} /\ req.method # "HEAD"
    THEN FileBytes(told.first, told.last - told.first + 1) ELSE <<>>

LEMMA ReplyIs == Reply = announced.head \o BodyOf(request, announced)
BY DEF Reply, HasBody, BodyOf

LEMMA BodyTyped ==
  ASSUME NEW seen, NEW req, NEW told, ToldRight(seen, req, told)
  PROVE  /\ BodyOf(req, told) \in Seq(Int) /\ told.head \in Seq(HeadUnit)
         /\ told.head \in Seq(Int)
         /\ \A i \in 1 .. Len(BodyOf(req, told)) :
              /\ told.status \in {200, 206} /\ req.method # "HEAD"
              /\ BodyOf(req, told)[i] = told.first + i - 1
              /\ BodyOf(req, told)[i] >= 0 /\ BodyOf(req, told)[i] < told.size
         /\ told.status \in {200, 206} /\ req.method # "HEAD" =>
              Len(BodyOf(req, told)) = told.length
<1> DEFINE b == BodyOf(req, told)
           body == told.status \in {200, 206} /\ req.method # "HEAD"
           n == told.last - told.first + 1
<1>1. told.head \in Seq(HeadUnit) /\ told.first \in Nat /\ told.last \in Int
      /\ told.size \in Nat \cup {-1}
  BY DEF ToldRight, Announcements
<1>2. told.head \in Seq(Int)
  BY <1>1 DEF HeadUnit
<1>3. body => told.last < told.size /\ told.length = n /\ told.length \in Nat
  BY DEF ToldRight
<1>4. CASE body
  <2>1. b = FileBytes(told.first, n) /\ n \in Nat
    BY <1>3, <1>4 DEF BodyOf
  <2> DEFINE first == told.first
             last == told.last
  <2>2. first \in Int /\ n \in Nat /\ b = FileBytes(first, n)
    BY <1>1, <2>1
  <2> HIDE DEF b, n
  <2>4. b \in Seq(Int) /\ Len(b) = n /\ \A i \in 1 .. n : b[i] = first + i - 1
    BY <2>2, BytesRight
  <2>3. ASSUME NEW i \in 1 .. Len(b)
        PROVE  b[i] = told.first + i - 1 /\ b[i] >= 0 /\ b[i] < told.size
    <3>1. b[i] = first + i - 1 /\ i \in 1 .. n
      BY <2>4
    <3>2. first \in Nat /\ last \in Int /\ told.size \in Int /\ last < told.size
          /\ n = last - first + 1
      BY <1>1, <1>3, <1>4 DEF n
    <3> HIDE DEF first, last
    <3>3. b[i] >= 0 /\ b[i] < told.size
      BY <3>1, <3>2
    <3> QED BY <3>1, <3>3 DEF first
  <2>5. Len(b) = told.length
    BY <1>3, <1>4, <2>4
  <2> QED BY <1>1, <1>2, <1>4, <2>4, <2>3, <2>5 DEF b
<1>5. CASE ~body
  <2>1. b = <<>>
    BY <1>5 DEF BodyOf
  <2> QED BY <1>1, <1>2, <1>5, <2>1
<1> QED BY <1>4, <1>5

\* The bytes of the file are what a reply has besides its head.
FileUnits(w) == {i \in DOMAIN w : w[i] >= 0}

LEMMA BodyCounted ==
  ASSUME NEW seen, NEW req, NEW told, ToldRight(seen, req, told),
         told.status \in {200, 206}, req.method # "HEAD"
  PROVE  Cardinality(FileUnits(told.head \o BodyOf(req, told))) = told.length
<1> DEFINE b == BodyOf(req, told)
           h == told.head
           w == h \o b
           m == Len(h)
           n == Len(b)
<1>1. /\ b \in Seq(Int) /\ h \in Seq(Int) /\ h \in Seq(HeadUnit)
      /\ (\A i \in 1 .. n : b[i] >= 0) /\ n = told.length
  BY BodyTyped
<1>2. \A i \in 1 .. m : h[i] < 0
  BY <1>1 DEF HeadUnit
<1> HIDE DEF b, h, w
<1>3. /\ m \in Nat /\ n \in Nat /\ DOMAIN w = 1 .. m + n
      /\ \A i \in 1 .. m : w[i] = h[i]
      /\ \A i \in m + 1 .. m + n : w[i] = b[i - m]
  BY <1>1 DEF w
<1> HIDE DEF m, n, w
<1>4. FileUnits(w) = m + 1 .. m + n
  <2>1. ASSUME NEW i \in 1 .. m PROVE ~(w[i] >= 0)
    <3>1. w[i] = h[i] /\ h[i] < 0 /\ h[i] \in Int
      BY <1>1, <1>2, <1>3 DEF m
    <3> QED BY <3>1
  <2>2. ASSUME NEW i \in m + 1 .. m + n PROVE w[i] >= 0
    <3>1. i - m \in 1 .. n
      BY <1>3
    <3>2. w[i] = b[i - m]
      BY <1>3
    <3>3. b[i - m] >= 0
      BY <1>1, <3>1
    <3> QED BY <3>2, <3>3
  <2>3. m + 1 .. m + n \subseteq FileUnits(w)
    BY <1>3, <2>2 DEF FileUnits
  <2>4. ASSUME NEW i \in FileUnits(w) PROVE i \in m + 1 .. m + n
    <3>1. i \in 1 .. m + n /\ w[i] >= 0
      BY <1>3 DEF FileUnits
    <3>2. i \notin 1 .. m
      BY <2>1, <3>1
    <3> QED BY <1>3, <3>1, <3>2
  <2> DEFINE A == FileUnits(w)
             B == m + 1 .. m + n
  <2>5. A \subseteq B /\ B \subseteq A
    BY <2>3, <2>4
  <2> HIDE DEF A, B
  <2>6. A = B
    BY <2>5
  <2> QED BY <2>6 DEF A, B
<1>5. Cardinality(m + 1 .. m + n) = n
  BY <1>3, FS_Interval
<1> QED BY <1>1, <1>4, <1>5 DEF w, b, h, n

\* A beginning of a reply is within the file.
LEMMA WireInFile ==
  ASSUME NEW seen, NEW req, NEW told, ToldRight(seen, req, told),
         NEW r, r = told.head \o BodyOf(req, told),
         NEW w, Len(w) <= Len(r), w = SubSeq(r, 1, Len(w)), Len(w) \in Nat
  PROVE  \A i \in 1 .. Len(w) : w[i] < 0 \/ w[i] < told.size
<1> DEFINE b == BodyOf(req, told)
           h == told.head
           m == Len(h)
           n == Len(b)
<1>1. /\ b \in Seq(Int) /\ h \in Seq(Int) /\ h \in Seq(HeadUnit)
      /\ \A i \in 1 .. n : b[i] < told.size
  BY BodyTyped
<1>2. \A i \in 1 .. m : h[i] < 0
  BY <1>1 DEF HeadUnit
<1> HIDE DEF b, h
<1>3. /\ m \in Nat /\ n \in Nat /\ Len(r) = m + n
      /\ \A i \in 1 .. m : r[i] = h[i]
      /\ \A i \in m + 1 .. m + n : r[i] = b[i - m]
      /\ r \in Seq(Int)
  BY <1>1 DEF b, h
<1> DEFINE k == Len(w)
<1>5. k \in Nat /\ k <= Len(r) /\ w = SubSeq(r, 1, k)
  OBVIOUS
<1> HIDE DEF k
<1>4. \A i \in 1 .. k : w[i] = r[i]
  <2>1. r \in Seq(Int) /\ \A i \in 1 .. k : SubSeq(r, 1, k)[i] = r[i]
    BY <1>3, <1>5
  <2> QED BY <1>5, <2>1
<1> HIDE DEF m, n
<1> SUFFICES ASSUME NEW i \in 1 .. k PROVE w[i] < 0 \/ w[i] < told.size
  BY DEF k
<1>6. CASE i <= m
  <2>1. i \in 1 .. m
    BY <1>3, <1>5, <1>6
  <2>2. w[i] = h[i] /\ h[i] < 0
    BY <1>2, <1>3, <1>4, <2>1
  <2> QED BY <2>2
<1>7. CASE i > m
  <2>1. i \in m + 1 .. m + n /\ i - m \in 1 .. n
    BY <1>3, <1>5, <1>7
  <2>2. w[i] = r[i] /\ r[i] = b[i - m]
    BY <1>3, <1>4, <2>1
  <2>3. b[i - m] < told.size
    BY <1>1, <2>1
  <2> QED BY <2>2, <2>3
<1> QED BY <1>3, <1>6, <1>7

(***************************************************************************)
(* What the invariant implies.                                             *)
(***************************************************************************)
LEMMA ReadBufTyped ==
  ASSUME stream \in Streams \cup {<<>>}, read_idx \in 0 .. Len(stream)
  PROVE  /\ stream \in Seq(Byte) /\ Len(stream) \in Nat
         /\ read_buf \in Seq(Byte) /\ Len(read_buf) = read_idx
<1>1. stream \in Seq(Byte)
  <2>1. <<>> \in Seq(Byte) /\ Streams \subseteq Seq(Byte)
    BY ExchangeAssumption
  <2> QED BY <2>1
<1> QED BY <1>1 DEF read_buf

LEMMA RecogniserFollows ==
  ASSUME EInv
  PROVE  RecogniserRight
<1> DEFINE buf == read_buf
           p == Parse(buf, FreshRequest)
<1>1. buf \in Seq(Byte)
  BY ReadBufTyped DEF EInv, Buffered
<1>2. p \in Parses(buf)
  BY <1>1, ParseRight
<1>3. p.req.mime_flag = HasProtocol(buf)
  BY <1>2 DEF Parses, Requests
<1> HIDE DEF buf
<1>4. ASSUME Scan("FIRSTWORD", buf) = "GOT"
      PROVE  p.error = 0 /\ HasProtocol(buf) => p.blank
  BY <1>1, <1>4, ParseRight
<1>5. ASSUME Scan("FIRSTWORD", buf) = "GOT"
      PROVE  LET end == Min(Places(buf, 1, Newline))
                 oneLine == Scan("FIRSTWORD", SubSeq(buf, 1, end)) = "GOT"
             IN  /\ HasProtocol(buf) => ~oneLine
                 /\ "nul" \notin Range(buf) => (oneLine \/ HasProtocol(buf))
  BY <1>1, <1>5, ParserAgrees
<1>6. HeadersEndAtBlankLine
  BY <1>3, <1>4 DEF HeadersEndAtBlankLine, Recognised, AsParsed, buf
<1>7. ParserAndAutomatonAgree
  BY <1>3, <1>5 DEF ParserAndAutomatonAgree, Recognised, AsParsed, buf
<1> QED BY <1>6, <1>7 DEF RecogniserRight, EInv

LEMMA FieldsFollow ==
  ASSUME EInv
  PROVE  FieldsComeFromThisRequest
<1> DEFINE seen == Range(read_buf)
           ranges == {w \in seen : KindOf(w) = "Range"}
<1>1. ranges = RangesOf(seen)
  BY DEF RangesOf
<1>2. request \in Fields(seen) /\ RangeKept(seen, request) /\ KeepAliveSeen(seen, request)
  BY DEF EInv, Answered
<1> HIDE DEF seen
<1>3. {request.url, request.reqhost} \ {Empty} \subseteq seen
  BY <1>2 DEF Fields
<1>4. request.hdrhost \in seen \cup {Empty, "bad"}
  BY <1>2 DEF Fields
<1>5. Range(request.accept) \subseteq seen
  <2>1. request.accept \in Seq(seen)
    BY <1>2 DEF Fields
  <2> QED BY <2>1 DEF Range
<1>6. \A f \in KeptFields : request.kept[f] \in seen \cup {Empty}
  <2>1. request.kept \in [KeptFields -> seen \cup {Empty}]
    BY <1>2 DEF Fields
  <2> QED BY <2>1
<1>7. request.got_range => RangesOf(seen) # {}
  BY <1>2 DEF RangeKept
<1>8. request.first_byte_index # 0 =>
        request.first_byte_index \in {RangeOf[w][1] : w \in RangesOf(seen)}
  BY <1>2 DEF RangeKept
<1>9. request.last_byte_index # -1 => RangesOf(seen) # {}
  BY <1>2 DEF RangeKept
<1>10. request.keep_alive \/ request.should_linger =>
         \E w \in seen : KindOf(w) = "keep-alive"
  BY <1>2 DEF KeepAliveSeen
<1> HIDE DEF ranges
<1> QED
  BY <1>1, <1>3, <1>4, <1>5, <1>6, <1>7, <1>8, <1>9, <1>10, Zenon
  DEF FieldsComeFromThisRequest, seen, ranges

LEMMA DeliveryFollows ==
  ASSUME EInv
  PROVE  DeliveredInOrder
<1>1. TypeOK
  <2>1. request.first_byte_index \in Nat /\ request.last_byte_index \in Nat \cup {-1}
    BY DEF EInv, Answered, Fields
  <2> QED BY <2>1 DEF EInv, Stages, Buffered, WireRight, TypeOK, AllStates
<1>2. WireInOrder
  BY DEF EInv, WireRight
<1>3. LengthAsAnnounced
  <2> SUFFICES ASSUME phase = "closed", ended = "complete", HasBody
               PROVE  Cardinality(FileUnits(wire)) = announced.length
    BY DEF LengthAsAnnounced, FileUnits
  <2>1. wire = announced.head \o BodyOf(request, announced)
    BY <1>2, ReplyIs DEF WireInOrder
  <2> DEFINE seen == Range(read_buf)
  <2>2. ToldRight(seen, request, announced)
    BY DEF EInv
  <2>3. announced.status \in {200, 206} /\ request.method # "HEAD"
    BY DEF HasBody
  <2> HIDE DEF seen
  <2>4. Cardinality(FileUnits(announced.head \o BodyOf(request, announced))) =
          announced.length
    BY <2>2, <2>3, BodyCounted
  <2> QED BY <2>1, <2>4
<1> QED BY <1>1, <1>2, <1>3 DEF DeliveredInOrder

LEMMA RangeFollows ==
  ASSUME EInv
  PROVE  RangeAsAsked
<1> DEFINE seen == Range(read_buf)
           asked == {RangeOf[w] : w \in {x \in seen : KindOf(x) = "Range"}}
<1>1. ToldRight(seen, request, announced)
  BY DEF EInv
<1>2. announced \in Announcements
  BY <1>1 DEF ToldRight
<1>3. RangeInFile
  <2>1. phase = "sending" => end_byte_index <= announced.size
    <3>1. phase = "sending" => /\ announced.last < announced.size
                               /\ end_byte_index = announced.last + 1
      BY <1>1 DEF EInv, WireRight, HasBody, ToldRight
    <3>2. announced.last \in Int /\ announced.size \in Int
      BY <1>2 DEF Announcements
    <3>3. phase = "sending" => end_byte_index <= announced.size
      BY <3>1, <3>2
    <3> QED BY <3>3
  <2>2. announced.status = 206 /\ announced.size >= 0 =>
          announced.first <= announced.last /\ announced.last < announced.size
    BY <1>1 DEF ToldRight
  <2>3. \A i \in 1 .. Len(wire) : wire[i] < 0 \/ wire[i] < announced.size
    <3>1. /\ wire \in Seq(Int) /\ Len(wire) <= Len(Reply)
          /\ wire = SubSeq(Reply, 1, Len(wire))
      BY DEF EInv, WireRight, WireInOrder
    <3>2. Len(wire) \in Nat
      BY <3>1
    <3>3. Reply = announced.head \o BodyOf(request, announced)
      BY ReplyIs
    <3> HIDE DEF seen
    <3> QED BY <1>1, <3>1, <3>2, <3>3, WireInFile
  <2> QED BY <2>1, <2>2, <2>3 DEF RangeInFile
<1>4. RangeOfRequest
  <2> SUFFICES ASSUME announced.status = 206
               PROVE  LET End(last) ==
                            IF announced.size >= 0 /\ (last = -1 \/ last >= announced.size)
                              THEN announced.size - 1 ELSE last
                      IN  /\ \E r \in asked : announced.first = r[1]
                          /\ \E r \in asked : announced.last = End(r[2])
                          /\ request.kept["If-Range"] # Empty => announced.range_if
    BY DEF RangeOfRequest
  <2>1. /\ \E w \in RangesOf(seen) : announced.first = RangeOf[w][1]
        /\ \E w \in RangesOf(seen) :
             announced.last = RangeEnd(RangeOf[w][2], announced.size)
        /\ request.kept["If-Range"] # Empty => announced.range_if
    BY <1>1 DEF ToldRight
  <2> QED BY <2>1 DEF RangesOf, RangeEnd
<1> QED BY <1>3, <1>4 DEF RangeAsAsked

(***************************************************************************)
(* Requests and announcements of the steps.                                *)
(***************************************************************************)
LEMMA FreshAnswered ==
  ASSUME NEW seen
  PROVE  FreshRequest \in Answered(seen)
<1> DEFINE kept == [f \in KeptFields |-> Empty]
<1>1. kept \in [KeptFields -> seen \cup {Empty}] /\ <<>> \in Seq(seen)
  OBVIOUS
<1>2. FreshRequest =
        [method |-> "UNKNOWN", mime_flag |-> TRUE, one_one |-> FALSE,
         url |-> Empty, reqhost |-> Empty, hdrhost |-> Empty,
         accept |-> <<>>, kept |-> kept,
         got_range |-> FALSE, first_byte_index |-> 0, last_byte_index |-> -1,
         keep_alive |-> FALSE, should_linger |-> FALSE]
  BY DEF FreshRequest
<1> HIDE DEF kept
<1>3. FreshRequest \in Fields(seen)
  BY <1>1, <1>2 DEF Fields
<1>4. RangeKept(seen, FreshRequest) /\ KeepAliveSeen(seen, FreshRequest)
  BY <1>2 DEF RangeKept, KeepAliveSeen
<1> QED BY <1>3, <1>4 DEF Answered

\* What answering a request does to its fields.
LEMMA RequestAnswered ==
  ASSUME NEW seen, NEW m, NEW req \in Requests(seen, m)
  PROVE  req \in Answered(seen)
<1>1. req \in Fields(seen) /\ RangeSeen(seen, req) /\ KeepAliveSeen(seen, req)
  BY DEF Requests
<1>2. RangeKept(seen, req)
  BY <1>1 DEF Fields, RangeSeen, RangeKept
<1> QED BY <1>1, <1>2 DEF Answered

LEMMA RangeDropped ==
  ASSUME NEW seen, NEW req \in Answered(seen), NEW b \in BOOLEAN, b => req.got_range
  PROVE  [req EXCEPT !.got_range = b] \in Answered(seen)
<1> DEFINE r == [req EXCEPT !.got_range = b]
<1>1. req \in Fields(seen) /\ RangeKept(seen, req) /\ KeepAliveSeen(seen, req)
  BY DEF Answered
<1>2. r \in Fields(seen)
  BY <1>1 DEF Fields
<1>3. RangeKept(seen, r)
  BY <1>1 DEF Fields, RangeKept
<1>4. KeepAliveSeen(seen, r)
  BY <1>1 DEF Fields, KeepAliveSeen
<1> QED BY <1>2, <1>3, <1>4 DEF Answered

LEMMA UnrangedAnswered ==
  ASSUME NEW seen, NEW req \in Answered(seen)
  PROVE  Unranged(req) \in Answered(seen)
<1> DEFINE b == req.got_range /\ ~req.mime_flag
<1>1. b \in BOOLEAN /\ (b => req.got_range)
  OBVIOUS
<1>2. Unranged(req) = [req EXCEPT !.got_range = b]
  BY DEF Unranged
<1> HIDE DEF b
<1> QED BY <1>1, <1>2, RangeDropped

LEMMA ClampAnswered ==
  ASSUME NEW seen, NEW m, NEW req \in Requests(seen, m), NEW file, file.size \in Nat
  PROVE  LET c == Clamp(req, file)
         IN  /\ c \in Answered(seen)
             /\ c.method = req.method /\ c.kept = req.kept
             /\ c.mime_flag = req.mime_flag /\ c.got_range = req.got_range
             /\ c.first_byte_index = req.first_byte_index
             /\ c.last_byte_index = IF req.got_range
                                      THEN RangeEnd(req.last_byte_index, file.size)
                                      ELSE req.last_byte_index
<1> DEFINE c == Clamp(req, file)
           size == file.size
<1>1. req \in Fields(seen) /\ RangeSeen(seen, req) /\ KeepAliveSeen(seen, req)
      /\ req \in Answered(seen)
  BY RequestAnswered DEF Requests
<1>2. CASE req.got_range /\ (req.last_byte_index = -1 \/ req.last_byte_index >= size)
  <2>1. c = [req EXCEPT !.last_byte_index = size - 1]
    BY <1>2 DEF Clamp
  <2>2. size - 1 \in Nat \cup {-1}
    OBVIOUS
  <2> HIDE DEF c, size
  <2>3. c \in Fields(seen)
    BY <1>1, <2>1, <2>2 DEF Fields
  <2>4. /\ c.method = req.method /\ c.kept = req.kept
        /\ c.mime_flag = req.mime_flag /\ c.got_range = req.got_range
        /\ c.first_byte_index = req.first_byte_index
        /\ c.last_byte_index = size - 1
        /\ c.keep_alive = req.keep_alive /\ c.should_linger = req.should_linger
    BY <1>1, <2>1 DEF Fields
  <2>5. RangeKept(seen, c)
    BY <1>1, <1>2, <2>4 DEF RangeSeen, RangeKept
  <2>6. KeepAliveSeen(seen, c)
    BY <1>1, <2>4 DEF KeepAliveSeen
  <2>7. size >= 0
    BY DEF size
  <2> QED BY <1>2, <2>3, <2>4, <2>5, <2>6, <2>7 DEF Answered, RangeEnd, c, size
<1>3. CASE ~(req.got_range /\ (req.last_byte_index = -1 \/ req.last_byte_index >= size))
  <2>1. c = req
    BY <1>3 DEF Clamp
  <2> QED BY <1>1, <1>3, <2>1 DEF RangeEnd
<1> QED BY <1>2, <1>3

LEMMA HeadTyped ==
  ASSUME NEW req
  PROVE  HeadOf(req) \in Seq(HeadUnit)
<1>1. HeadUnits \in Nat
  BY ExchangeAssumption
<1>2. [i \in 1 .. HeadUnits |-> -i] \in Seq(HeadUnit)
  BY <1>1 DEF HeadUnit
<1> QED BY <1>2 DEF HeadOf

LEMMA PageTold ==
  ASSUME NEW seen, NEW req, NEW r, NEW status \in Nat \ {200, 206}
  PROVE  /\ ToldRight(seen, r, AnnouncePage(req, status))
         /\ BodyOf(r, AnnouncePage(req, status)) = <<>>
<1> DEFINE told == AnnouncePage(req, status)
           head == HeadOf(req) \o IF status = 304 THEN <<>> ELSE <<-HeadUnits - 1>>
<1>1. head \in Seq(HeadUnit)
  <2>1. HeadUnits \in Nat
    BY ExchangeAssumption
  <2>2. <<-HeadUnits - 1>> \in Seq(HeadUnit) /\ <<>> \in Seq(HeadUnit)
    BY <2>1 DEF HeadUnit
  <2> DEFINE h == HeadOf(req)
  <2>3. h \in Seq(HeadUnit)
    BY HeadTyped
  <2> HIDE DEF h
  <2>4. (h \o <<-HeadUnits - 1>>) \in Seq(HeadUnit) /\ (h \o <<>>) \in Seq(HeadUnit)
    BY <2>2, <2>3
  <2> QED BY <2>4 DEF h
<1>2. told = [status |-> status, length |-> -1, first |-> 0, last |-> -1, size |-> 0,
              range_if |-> FALSE, head |-> head]
  <2>1. told = [Nothing EXCEPT !.status = status, !.head = head]
    BY Zenon DEF AnnouncePage
  <2> HIDE DEF head, told
  <2> QED BY <2>1 DEF Nothing
<1> HIDE DEF head, told
<1>3. told \in Announcements /\ told.status = status
  BY <1>1, <1>2 DEF Announcements
<1> QED BY <1>3 DEF ToldRight, BodyOf, told

\* A file is announced as it is, or in the range asked for.
LEMMA FileTold ==
  ASSUME NEW seen, NEW c, NEW file, NEW r,
         file.size \in Nat \cup {-1}, file.range_if \in BOOLEAN,
         c.first_byte_index \in Nat, c.last_byte_index \in Nat \cup {-1},
         r.method = c.method, r.kept = c.kept,
         file.size = -1 => c.method = "HEAD",
         c.got_range /\ file.size >= 0 => c.last_byte_index < file.size,
         c.got_range =>
           /\ \E w \in RangesOf(seen) : c.first_byte_index = RangeOf[w][1]
           /\ \E w \in RangesOf(seen) :
                c.last_byte_index = RangeEnd(RangeOf[w][2], file.size)
  PROVE  /\ ToldRight(seen, r, AnnounceFile(c, file))
         /\ AnnounceFile(c, file).head = HeadOf(c)
         /\ AnnounceFile(c, file).status \in {200, 206}
<1> DEFINE told == AnnounceFile(c, file)
           first == c.first_byte_index
           last == c.last_byte_index
           size == file.size
           part == Partial(c, file)
           head == HeadOf(c)
<1>1. told = [status |-> IF part THEN 206 ELSE 200,
              length |-> IF part THEN last - first + 1 ELSE size,
              first |-> IF part THEN first ELSE 0,
              last |-> IF part THEN last ELSE size - 1,
              size |-> size, range_if |-> file.range_if, head |-> head]
  BY DEF AnnounceFile
<1>2. head \in Seq(HeadUnit)
  BY HeadTyped
<1>3. part => /\ c.got_range /\ last >= first
              /\ c.kept["If-Range"] = Empty \/ file.range_if
  BY DEF Partial
<1> HIDE DEF told, first, last, size, part, head
<1>4. first \in Nat /\ last \in Nat \cup {-1} /\ size \in Nat \cup {-1}
  BY DEF first, last, size
<1>5. CASE part
  <2>1. /\ told.status = 206 /\ told.length = last - first + 1
        /\ told.first = first /\ told.last = last /\ told.size = size
        /\ told.range_if = file.range_if /\ told.head = head
    BY <1>1, <1>5
  <2>2. last \in Nat /\ last - first + 1 \in Nat
    BY <1>3, <1>4, <1>5
  <2>3. told \in Announcements
    <3> DEFINE n == last - first + 1
    <3>1. told = [status |-> 206, length |-> n, first |-> first, last |-> last,
                  size |-> size, range_if |-> file.range_if, head |-> head]
      BY <1>1, <1>5
    <3>2. n \in Nat
      BY <2>2
    <3> HIDE DEF n
    <3> QED BY <1>2, <1>4, <2>2, <3>1, <3>2 DEF Announcements
  <2>4. size >= 0 => last < size
    BY <1>3, <1>5 DEF size, last
  <2>5. r.method # "HEAD" => size >= 0
    BY <1>4 DEF size
  <2>6. /\ \E w \in RangesOf(seen) : first = RangeOf[w][1]
        /\ \E w \in RangesOf(seen) : last = RangeEnd(RangeOf[w][2], size)
        /\ r.kept["If-Range"] # Empty => file.range_if
    BY <1>3, <1>5 DEF first, last, size
  <2> QED BY <1>3, <1>5, <2>1, <2>2, <2>3, <2>4, <2>5, <2>6 DEF ToldRight, told, head
<1>6. CASE ~part
  <2>1. /\ told.status = 200 /\ told.length = size
        /\ told.first = 0 /\ told.last = size - 1 /\ told.size = size
        /\ told.head = head
    BY <1>1, <1>6
  <2>3. told \in Announcements
    <3> DEFINE n == size - 1
    <3>1. told = [status |-> 200, length |-> size, first |-> 0, last |-> n,
                  size |-> size, range_if |-> file.range_if, head |-> head]
      BY <1>1, <1>6
    <3>2. n \in Int
      BY <1>4
    <3> HIDE DEF n
    <3> QED BY <1>2, <1>4, <3>1, <3>2 DEF Announcements
  <2>4. r.method # "HEAD" => size \in Nat
    BY <1>4 DEF size
  <2>5. size \in Nat => size >= 0 /\ size - 1 < size /\ size = size - 1 - 0 + 1
    OBVIOUS
  <2> QED BY <2>1, <2>3, <2>4, <2>5 DEF ToldRight, told, head
<1> QED BY <1>5, <1>6

(***************************************************************************)
(* The steps.                                                              *)
(***************************************************************************)
LEMMA EInvInit ==
  ASSUME Init
  PROVE  EInv
<1>1. InitialRoom \in Nat
  BY ExchangeAssumption
<1>2. Stages /\ Buffered
  <2>1. Len(stream) = 0 /\ checked_state \in AllStates
    BY DEF Init, AllStates, CheckedState
  <2> QED BY <1>1, <2>1 DEF Init, Stages, Buffered
<1>3. StateOfAllBytes /\ Unanswered
  BY DEF Init, StateOfAllBytes, Unanswered
<1>4. request \in Answered(Range(read_buf))
  BY FreshAnswered DEF Init
<1>5. announced \in Announcements /\ announced.status = 0 /\ announced.head = <<>>
  <2>1. <<>> \in Seq(HeadUnit)
    OBVIOUS
  <2> QED BY <2>1 DEF Init, Nothing, Announcements
<1>6. ToldRight(Range(read_buf), request, announced)
  BY <1>5 DEF ToldRight
<1>7. WireRight
  <2>1. Reply = <<>>
    BY <1>5 DEF Reply, HasBody
  <2> QED BY <2>1 DEF Init, WireRight, WireInOrder
<1> QED BY <1>2, <1>3, <1>4, <1>6, <1>7 DEF EInv

LEMMA GetConnRight ==
  ASSUME EInv, NEW s \in Streams, GetConn(s)
  PROVE  EInv'
<1>1. s \in Seq(Byte) /\ <<>> \in Seq(Byte) /\ Len(s) \in Nat
  BY ExchangeAssumption
<1>2. /\ phase' = "reading" /\ stream' = s /\ read_idx' = 0 /\ checked_idx' = 0
      /\ checked_state' = "FIRSTWORD" /\ request' = FreshRequest /\ response' = <<>>
      /\ announced' = Nothing /\ next_byte_index' = 0 /\ end_byte_index' = 0
      /\ wire' = <<>> /\ ended' = "open" /\ read_size' = read_size
  BY DEF GetConn
<1>3. Stages' /\ Buffered'
  <2>1. read_size \in Nat /\ "FIRSTWORD" \in AllStates
    BY DEF EInv, Buffered, AllStates, CheckedState
  <2> QED BY <1>1, <1>2, <2>1 DEF Stages, Buffered
<1>4. StateOfAllBytes' /\ Unanswered'
  <2>1. read_buf' = <<>>
    BY <1>1, <1>2 DEF read_buf
  <2>2. Scan("FIRSTWORD", <<>>) = "FIRSTWORD"
    <3> DEFINE s0 == "FIRSTWORD"
               none == <<>>
    <3>1. s0 \in AllStates /\ Len(none) = 0 /\ none \in Seq(Byte)
      BY DEF AllStates, CheckedState
    <3> HIDE DEF s0, none
    <3>2. States(s0, none)[0] = s0 /\ Scan(s0, none) = States(s0, none)[Len(none)]
      BY <3>1, StatesRight
    <3>3. Scan(s0, none) = s0
      BY <3>1, <3>2
    <3> QED BY <3>3 DEF s0, none
  <2> QED BY <1>2, <2>1, <2>2 DEF StateOfAllBytes, Unanswered
<1>5. request' \in Answered(Range(read_buf)')
  BY <1>2, FreshAnswered
<1>6. announced' \in Announcements /\ announced'.status = 0 /\ announced'.head = <<>>
  <2>1. <<>> \in Seq(HeadUnit)
    OBVIOUS
  <2> QED BY <1>2, <2>1 DEF Nothing, Announcements
<1>7. ToldRight(Range(read_buf), request, announced)'
  BY <1>6 DEF ToldRight
<1>8. WireRight'
  <2>1. Reply' = <<>>
    BY <1>6 DEF Reply, HasBody
  <2> QED BY <1>2, <2>1 DEF WireRight, WireInOrder
<1> QED BY <1>3, <1>4, <1>5, <1>7, <1>8 DEF EInv

LEMMA FinishRight ==
  ASSUME wire = <<>>, NEW head \in Seq(Int), Finish(head)
  PROVE  /\ phase' = "closed" /\ response' = <<>> /\ ended' \in {"complete", "broken"}
         /\ wire' \in Seq(Int) /\ Len(wire') <= Len(head)
         /\ wire' = SubSeq(head, 1, Len(wire'))
         /\ ended' = "complete" => wire' = head
<1>1. Len(head) \in Nat /\ SubSeq(head, 1, Len(head)) = head /\ <<>> \o head = head
  OBVIOUS
<1>2. CASE wire' = wire \o head /\ ended' = "complete"
  <2>1. wire' = head
    BY <1>1, <1>2
  <2> QED BY <1>1, <1>2, <2>1 DEF Finish
<1>3. ASSUME NEW n \in 0 .. Len(head) - 1,
             wire' = wire \o SubSeq(head, 1, n), ended' = "broken"
      PROVE  /\ wire' \in Seq(Int) /\ Len(wire') <= Len(head)
             /\ wire' = SubSeq(head, 1, Len(wire'))
  <2> DEFINE part == SubSeq(head, 1, n)
  <2>1. part \in Seq(Int) /\ Len(part) = n
    BY <1>1
  <2>2. wire' = part
    <3> HIDE DEF part
    <3>1. <<>> \o part = part
      BY <2>1
    <3> QED BY <1>3, <3>1 DEF part
  <2> QED BY <1>1, <2>1, <2>2
<1> QED BY <1>2, <1>3 DEF Finish

\* A reply that is only a head is written whole, or broken off, and the
\* connection closed.
LEMMA AnswerRight ==
  ASSUME wire = <<>>, Buffered',
         request' \in Answered(Range(read_buf)'),
         ToldRight(Range(read_buf), request, announced)',
         BodyOf(request', announced') = <<>>,
         Finish(announced'.head),
         next_byte_index' \in Nat, end_byte_index' \in Nat
  PROVE  EInv'
<1> DEFINE head == announced'.head
<1>1. head \in Seq(Int)
  <2>1. announced' \in Announcements
    BY DEF ToldRight
  <2>2. head \in Seq(HeadUnit)
    BY <2>1 DEF Announcements
  <2> HIDE DEF head
  <2> QED BY <2>2 DEF HeadUnit
<1>2. Finish(head)
  OBVIOUS
<1>3. Reply' = head
  <2>1. Reply' = head \o BodyOf(request', announced')
    BY DEF Reply, HasBody, BodyOf
  <2> HIDE DEF head
  <2>2. Reply' = head \o <<>>
    BY <2>1
  <2> QED BY <1>1, <2>2
<1> HIDE DEF head
<1>4. /\ phase' = "closed" /\ response' = <<>> /\ ended' \in {"complete", "broken"}
      /\ wire' \in Seq(Int) /\ Len(wire') <= Len(head)
      /\ wire' = SubSeq(head, 1, Len(wire'))
      /\ ended' = "complete" => wire' = head
  BY <1>1, <1>2, FinishRight
<1>5. WireInOrder'
  BY <1>3, <1>4 DEF WireInOrder
<1>6. WireRight'
  BY <1>4, <1>5 DEF WireRight
<1>7. Stages' /\ StateOfAllBytes' /\ Unanswered'
  BY <1>4 DEF Stages, StateOfAllBytes, Unanswered
<1> QED BY <1>6, <1>7 DEF EInv

LEMMA PageRight ==
  ASSUME EInv, phase = "reading", Buffered',
         NEW req \in Answered(Range(read_buf)'), NEW status \in Nat \ {200, 206},
         AnswerPage(req, status)
  PROVE  EInv'
<1> DEFINE seen == Range(read_buf)'
           r == Unranged(req)
           told == AnnouncePage(req, status)
<1>1. /\ request' = r /\ announced' = told /\ Finish(told.head)
      /\ next_byte_index' = next_byte_index /\ end_byte_index' = end_byte_index
  BY DEF AnswerPage
<1>2. wire = <<>> /\ next_byte_index \in Nat /\ end_byte_index \in Nat
  BY DEF EInv, Unanswered, WireRight
<1>3. r \in Answered(seen)
  BY UnrangedAnswered
<1>4. ToldRight(seen, r, told) /\ BodyOf(r, told) = <<>>
  BY PageTold
<1> HIDE DEF r, told
<1>5. request' \in Answered(Range(read_buf)')
  BY <1>1, <1>3
<1>6. ToldRight(Range(read_buf), request, announced)'
  BY <1>1, <1>4
<1>7. BodyOf(request', announced') = <<>> /\ Finish(announced'.head)
  BY <1>1, <1>4
<1>8. next_byte_index' \in Nat /\ end_byte_index' \in Nat
  BY <1>1, <1>2
<1> QED BY <1>2, <1>5, <1>6, <1>7, <1>8, AnswerRight

LEMMA ArrivesRight ==
  ASSUME EInv, NEW n \in 1 .. Len(stream), Arrives(n)
  PROVE  /\ phase = "reading" /\ wire = <<>> /\ response = <<>>
         /\ request = FreshRequest /\ announced = Nothing
         /\ stream' = stream /\ stream \in Streams \cup {<<>>}
         /\ read_idx' = read_idx + n /\ read_idx' \in 0 .. Len(stream)
         /\ read_size' \in Nat /\ read_idx' <= read_size'
         /\ checked_idx \in 0 .. read_idx'
         /\ read_buf' \in Seq(Byte) /\ Len(read_buf') = read_idx'
         /\ read_buf' = SubSeq(stream, 1, read_idx + n)
         /\ checked_state' \in AllStates /\ checked_state' = Verdict(n)
         /\ Verdict(n) = Scan("FIRSTWORD", read_buf)'
<1>1. /\ phase = "reading" /\ read_idx + n <= Room /\ read_idx + n <= Len(stream)
      /\ read_idx' = read_idx + n /\ read_size' = Room
      /\ checked_state' = Verdict(n) /\ stream' = stream
  BY DEF Arrives
<1>2. /\ stream \in Streams \cup {<<>>} /\ read_idx \in 0 .. Len(stream)
      /\ read_size \in Nat /\ read_idx <= read_size /\ checked_idx \in 0 .. read_idx
      /\ checked_idx = read_idx /\ checked_state = Scan("FIRSTWORD", read_buf)
      /\ request = FreshRequest /\ announced = Nothing /\ response = <<>> /\ wire = <<>>
  BY <1>1 DEF EInv, Buffered, StateOfAllBytes, Unanswered
<1>3. stream \in Seq(Byte) /\ Len(stream) \in Nat
  BY <1>2, ReadBufTyped
<1>4. Room \in Nat
  <2>1. InitialRoom \in Nat /\ RoomStep \in Nat
    BY ExchangeAssumption
  <2> QED BY <1>2, <2>1 DEF Room, Larger
<1>5. n \in Nat /\ read_idx \in Nat /\ read_idx + n \in 0 .. Len(stream)
  BY <1>1, <1>2, <1>3
<1>6. read_buf' = SubSeq(stream, 1, read_idx + n)
  BY <1>1 DEF read_buf
<1>7. read_buf' \in Seq(Byte) /\ Len(read_buf') = read_idx'
  BY <1>1, <1>3, <1>5, <1>6
<1> DEFINE s0 == "FIRSTWORD"
           f == States(s0, stream)
           j == read_idx
           k == read_idx + n
           part == SubSeq(stream, j + 1, k)
<1>8. s0 \in AllStates
  BY DEF AllStates, CheckedState
<1>9. checked_state = f[j]
  BY <1>2, <1>3, <1>5, BeginningScanned DEF read_buf
<1>10. Verdict(n) = Scan(f[j], part)
  BY <1>2, <1>9 DEF Verdict
<1>11. Scan(s0, read_buf') = f[k]
  BY <1>3, <1>5, <1>6, BeginningScanned
<1>12. Scan(f[j], part) = f[k]
  <2> DEFINE a == stream
  <2>1. j \in Nat /\ k \in Nat /\ j <= k /\ k <= Len(a) /\ a \in Seq(Byte) /\ k - j = n
    BY <1>3, <1>5
  <2> HIDE DEF j, k, s0, a
  <2>2. PartOf(SubSeq(a, j + 1, k), a, j) /\ Len(SubSeq(a, j + 1, k)) = k - j
    BY <2>1, CutBuffer
  <2> DEFINE b == SubSeq(a, j + 1, k)
  <2>3. PartOf(b, a, j) /\ Len(b) = k - j
    BY <2>2
  <2> HIDE DEF b
  <2>4. Scan(States(s0, a)[j], b) = States(s0, a)[j + Len(b)]
    BY <1>8, <2>1, <2>3, PartScanned
  <2>5. j + Len(b) = k
    BY <2>1, <2>3
  <2> QED BY <2>4, <2>5 DEF b, a
<1>13. f[k] \in AllStates
  <2>1. f \in [0 .. Len(stream) -> AllStates]
    BY <1>3, <1>8, StatesRight
  <2> HIDE DEF f
  <2> QED BY <1>5, <2>1
<1>14. Scan("FIRSTWORD", read_buf)' = Scan(s0, read_buf')
  OBVIOUS
<1> HIDE DEF f, j, k, part, s0
<1>15. checked_state' \in AllStates /\ Verdict(n) = Scan("FIRSTWORD", read_buf)'
  BY <1>1, <1>10, <1>11, <1>12, <1>13, <1>14
<1> QED BY <1>1, <1>2, <1>4, <1>5, <1>6, <1>7, <1>15

LEMMA ReadIncompleteRight ==
  ASSUME EInv, NEW n \in 1 .. Len(stream), ReadIncomplete(n)
  PROVE  EInv'
<1>1. /\ Arrives(n) /\ checked_idx' = read_idx + n
      /\ phase' = phase /\ request' = request /\ response' = response
      /\ announced' = announced /\ next_byte_index' = next_byte_index
      /\ end_byte_index' = end_byte_index /\ wire' = wire /\ ended' = ended
  BY DEF ReadIncomplete, sendVars
<1>2. /\ phase = "reading" /\ wire = <<>> /\ response = <<>>
      /\ request = FreshRequest /\ announced = Nothing
      /\ stream' = stream /\ stream \in Streams \cup {<<>>}
      /\ read_idx' = read_idx + n /\ read_idx' \in 0 .. Len(stream)
      /\ read_size' \in Nat /\ read_idx' <= read_size'
      /\ checked_state' \in AllStates /\ checked_state' = Scan("FIRSTWORD", read_buf)'
  BY <1>1, ArrivesRight
<1>3. Stages' /\ Buffered'
  BY <1>1, <1>2 DEF EInv, Stages, Buffered
<1>4. StateOfAllBytes'
  BY <1>1, <1>2 DEF StateOfAllBytes
<1>5. Unanswered'
  BY <1>1, <1>2 DEF Unanswered
<1>6. request' \in Answered(Range(read_buf)')
  BY <1>1, <1>2, FreshAnswered
<1>7. ToldRight(Range(read_buf), request, announced)'
  <2>1. announced \in Announcements
    BY DEF EInv, ToldRight
  <2>2. announced'.status = 0
    BY <1>1, <1>2 DEF Nothing
  <2> QED BY <1>1, <2>1, <2>2 DEF ToldRight
<1>8. WireRight'
  <2>1. Reply' = Reply /\ HasBody' = HasBody
    BY <1>1 DEF Reply, HasBody
  <2> QED BY <1>1, <1>2, <2>1 DEF EInv, WireRight, WireInOrder
<1> QED BY <1>3, <1>4, <1>5, <1>6, <1>7, <1>8 DEF EInv

LEMMA ReadBogusRight ==
  ASSUME EInv, NEW n \in 1 .. Len(stream), ReadBogus(n)
  PROVE  EInv'
<1>1. Arrives(n) /\ checked_idx' = checked_idx /\ AnswerPage(request, 400)
  BY DEF ReadBogus
<1>2. /\ phase = "reading" /\ request = FreshRequest
      /\ stream' = stream /\ stream \in Streams \cup {<<>>}
      /\ read_idx' \in 0 .. Len(stream)
      /\ read_size' \in Nat /\ read_idx' <= read_size'
      /\ checked_idx \in 0 .. read_idx' /\ checked_state' \in AllStates
  BY <1>1, ArrivesRight
<1>3. Buffered'
  BY <1>1, <1>2 DEF Buffered
<1>4. request \in Answered(Range(read_buf)')
  BY <1>2, FreshAnswered
<1> QED BY <1>1, <1>2, <1>3, <1>4, PageRight

LEMMA ReadFailsRight ==
  ASSUME EInv, NEW status \in {400, 408}, ReadFails(status)
  PROVE  EInv'
<1>1. /\ phase = "reading" /\ AnswerPage(request, status)
      /\ stream' = stream /\ read_idx' = read_idx /\ read_size' = read_size
      /\ checked_idx' = checked_idx /\ checked_state' = checked_state
  BY DEF ReadFails, readVars
<1>2. Buffered'
  BY <1>1 DEF EInv, Buffered
<1>3. request \in Answered(Range(read_buf)')
  BY <1>1, FreshAnswered DEF EInv, Unanswered
<1>4. status \in Nat \ {200, 206}
  OBVIOUS
<1> QED BY <1>1, <1>2, <1>3, <1>4, PageRight

\* A whole request has been parsed: what the answers start from.
WholeRequest(parsed) ==
  /\ EInv /\ phase = "reading" /\ Buffered'
  /\ \E m : parsed.req \in Requests(Range(read_buf)', m)
  /\ parsed.error \in {0, 400, 501}

LEMMA WholeFacts ==
  ASSUME NEW parsed, WholeRequest(parsed)
  PROVE  /\ EInv /\ phase = "reading" /\ Buffered'
         /\ wire = <<>> /\ response = <<>> /\ announced = Nothing
         /\ next_byte_index \in Nat /\ end_byte_index \in Nat
         /\ parsed.req \in Answered(Range(read_buf)')
         /\ parsed.req \in Fields(Range(read_buf)')
         /\ RangeSeen(Range(read_buf)', parsed.req)
<1>1. EInv /\ phase = "reading" /\ Buffered'
  BY DEF WholeRequest
<1>2. PICK m : parsed.req \in Requests(Range(read_buf)', m)
  BY DEF WholeRequest
<1>3. parsed.req \in Fields(Range(read_buf)') /\ RangeSeen(Range(read_buf)', parsed.req)
  BY <1>2 DEF Requests
<1>4. parsed.req \in Answered(Range(read_buf)')
  BY <1>2, RequestAnswered
<1>5. wire = <<>> /\ response = <<>> /\ announced = Nothing
  BY <1>1 DEF EInv, Unanswered
<1>6. next_byte_index \in Nat /\ end_byte_index \in Nat
  BY <1>1 DEF EInv, WireRight
<1> QED BY <1>1, <1>3, <1>4, <1>5, <1>6

LEMMA ClampFacts ==
  ASSUME NEW parsed, WholeRequest(parsed), NEW file, file.size \in Nat
  PROVE  LET req == parsed.req
             c == Clamp(req, file)
             seen == Range(read_buf)'
         IN  /\ c \in Answered(seen)
             /\ c.first_byte_index \in Nat /\ c.last_byte_index \in Nat \cup {-1}
             /\ c.method = req.method
             /\ c.got_range => c.last_byte_index < file.size
             /\ c.got_range =>
                  /\ \E w \in RangesOf(seen) : c.first_byte_index = RangeOf[w][1]
                  /\ \E w \in RangesOf(seen) :
                       c.last_byte_index = RangeEnd(RangeOf[w][2], file.size)
<1> DEFINE req == parsed.req
           seen == Range(read_buf)'
           c == Clamp(req, file)
           size == file.size
<1>1. PICK m : req \in Requests(seen, m)
  BY DEF WholeRequest
<1>2. req \in Fields(seen) /\ RangeSeen(seen, req)
  BY <1>1 DEF Requests
<1>3. req.first_byte_index \in Nat /\ req.last_byte_index \in Nat \cup {-1}
  BY <1>2 DEF Fields
<1> HIDE DEF req, seen
<1>4. /\ c \in Answered(seen) /\ c.method = req.method /\ c.got_range = req.got_range
      /\ c.first_byte_index = req.first_byte_index
      /\ c.last_byte_index = IF req.got_range
                               THEN RangeEnd(req.last_byte_index, size)
                               ELSE req.last_byte_index
  BY <1>1, ClampAnswered
<1>5. size \in Nat
  OBVIOUS
<1> HIDE DEF c, size
<1>6. c.first_byte_index \in Nat /\ c.last_byte_index \in Nat \cup {-1}
  BY <1>3, <1>4, <1>5 DEF RangeEnd
<1>7. c.got_range => c.last_byte_index < size
  BY <1>3, <1>4, <1>5 DEF RangeEnd
<1>8. ASSUME c.got_range
      PROVE  /\ \E w \in RangesOf(seen) : c.first_byte_index = RangeOf[w][1]
             /\ \E w \in RangesOf(seen) :
                  c.last_byte_index = RangeEnd(RangeOf[w][2], size)
  <2>1. /\ \E w \in RangesOf(seen) : req.first_byte_index = RangeOf[w][1]
        /\ \E w \in RangesOf(seen) : req.last_byte_index = RangeOf[w][2]
    BY <1>2, <1>4, <1>8 DEF RangeSeen
  <2> QED BY <1>4, <1>8, <2>1
<1> QED BY <1>4, <1>6, <1>7, <1>8 DEF req, seen, c, size

LEMMA AnnouncedRight ==
  ASSUME NEW seen, NEW c \in Answered(seen), NEW file, Announced(c, file)
  PROVE  /\ request' \in Answered(seen)
         /\ request'.method = c.method /\ request'.kept = c.kept
         /\ announced' = AnnounceFile(c, file)
<1> DEFINE b == Partial(c, file)
<1>1. request' = IF c.mime_flag THEN [c EXCEPT !.got_range = b] ELSE c
  BY DEF Announced
<1>2. b \in BOOLEAN /\ (b => c.got_range)
  BY DEF Partial
<1> HIDE DEF b
<1>3. [c EXCEPT !.got_range = b] \in Answered(seen)
  BY <1>2, RangeDropped
<1>4. c \in Fields(seen)
  BY DEF Answered
<1>5. request'.method = c.method /\ request'.kept = c.kept
  BY <1>1, <1>4 DEF Fields
<1> QED BY <1>1, <1>3, <1>5 DEF Announced

LEMMA FileTyped ==
  ASSUME NEW file \in Files
  PROVE  /\ file \in File /\ file.size \in Nat /\ file.range_if \in BOOLEAN
         /\ Refusal(file) \in {0, 302, 401, 403, 404, 500}
<1>1. file \in File
  BY ExchangeAssumption
<1>2. file.size \in Nat /\ file.range_if \in BOOLEAN /\ file.refused \in {0, 401, 403}
  BY <1>1 DEF File
<1>3. Refusal(file) \in {0, 302, 401, 403, 404, 500}
  BY <1>2 DEF Refusal
<1> QED BY <1>1, <1>2, <1>3

(***************************************************************************)
(* The answers.                                                            *)
(***************************************************************************)
LEMMA PagesRight ==
  ASSUME NEW parsed, WholeRequest(parsed), NEW status \in Nat \ {200, 206},
         AnswerPage(parsed.req, status)
  PROVE  EInv'
BY WholeFacts, PageRight

LEMMA StartDeclinedRight ==
  ASSUME NEW parsed, WholeRequest(parsed), NEW file \in Files, StartDeclined(parsed, file)
  PROVE  EInv'
<1>1. PICK status \in Declined(parsed.req, file) : AnswerPage(parsed.req, status)
  BY DEF StartDeclined
<1>2. status \in {404, 500, 501, 503}
  BY DEF Declined
<1> QED BY <1>1, <1>2, PagesRight

LEMMA StartChildRight ==
  ASSUME NEW parsed, WholeRequest(parsed), NEW file \in Files, StartChild(parsed, file)
  PROVE  EInv'
<1> DEFINE req == parsed.req
           seen == Range(read_buf)'
           r == [req EXCEPT !.should_linger = FALSE]
<1>1. /\ request' = r /\ phase' = "closed" /\ ended' = "elsewhere"
      /\ response' = response /\ announced' = announced /\ wire' = wire
      /\ next_byte_index' = next_byte_index /\ end_byte_index' = end_byte_index
  BY DEF StartChild, sendVars
<1>2. /\ Buffered' /\ wire = <<>> /\ response = <<>> /\ announced = Nothing
      /\ next_byte_index \in Nat /\ end_byte_index \in Nat
      /\ req \in Answered(seen) /\ EInv
  BY WholeFacts
<1> HIDE DEF req, seen
<1>3. r \in Answered(seen)
  <2>1. req \in Fields(seen) /\ RangeKept(seen, req) /\ KeepAliveSeen(seen, req)
    BY <1>2 DEF Answered
  <2>2. r \in Fields(seen)
    BY <2>1 DEF Fields
  <2>3. RangeKept(seen, r) /\ KeepAliveSeen(seen, r)
    BY <2>1 DEF Fields, RangeKept, KeepAliveSeen
  <2> QED BY <2>2, <2>3 DEF Answered
<1>4. announced' \in Announcements /\ announced'.status = 0 /\ announced'.head = <<>>
  <2>1. announced \in Announcements
    BY <1>2 DEF EInv, ToldRight
  <2>2. Nothing.status = 0 /\ Nothing.head = <<>>
    BY DEF Nothing
  <2> QED BY <1>1, <1>2, <2>1, <2>2
<1>5. ToldRight(Range(read_buf), request, announced)'
  BY <1>4 DEF ToldRight
<1>6. WireRight'
  <2>1. Reply' = <<>>
    BY <1>4 DEF Reply, HasBody
  <2> QED BY <1>1, <1>2, <2>1 DEF WireRight, WireInOrder
<1>7. Stages' /\ StateOfAllBytes' /\ Unanswered'
  BY <1>1 DEF Stages, StateOfAllBytes, Unanswered
<1>8. request' \in Answered(Range(read_buf)')
  BY <1>1, <1>3 DEF seen
<1> QED BY <1>2, <1>5, <1>6, <1>7, <1>8 DEF EInv

LEMMA StartHeadRight ==
  ASSUME NEW parsed, WholeRequest(parsed), NEW file \in Files, StartHead(parsed, file)
  PROVE  EInv'
<1> DEFINE c == Clamp(parsed.req, file)
           seen == Range(read_buf)'
           told == AnnounceFile(c, file)
<1>1. /\ c.method = "HEAD" /\ Announced(c, file) /\ Finish(HeadOf(c))
      /\ next_byte_index' = 0 /\ end_byte_index' = announced'.last + 1
  BY DEF StartHead
<1>2. file.size \in Nat /\ file.range_if \in BOOLEAN
  BY FileTyped
<1>3. /\ c \in Answered(seen)
      /\ c.first_byte_index \in Nat /\ c.last_byte_index \in Nat \cup {-1}
      /\ c.got_range => c.last_byte_index < file.size
      /\ c.got_range =>
           /\ \E w \in RangesOf(seen) : c.first_byte_index = RangeOf[w][1]
           /\ \E w \in RangesOf(seen) :
                c.last_byte_index = RangeEnd(RangeOf[w][2], file.size)
  BY <1>2, ClampFacts
<1> HIDE DEF c, seen
<1>4. /\ request' \in Answered(seen) /\ request'.method = c.method
      /\ request'.kept = c.kept /\ announced' = told
  BY <1>1, <1>3, AnnouncedRight
<1>5. /\ ToldRight(seen, request', told) /\ told.head = HeadOf(c)
  BY <1>2, <1>3, <1>4, FileTold
<1>6. BodyOf(request', announced') = <<>>
  BY <1>1, <1>4 DEF BodyOf
<1>7. told.last + 1 \in Nat
  BY <1>2, <1>3 DEF AnnounceFile
<1> HIDE DEF told
<1>8. request' \in Answered(Range(read_buf)')
  BY <1>4 DEF seen
<1>9. ToldRight(Range(read_buf), request, announced)'
  BY <1>4, <1>5 DEF seen
<1>10. Finish(announced'.head) /\ next_byte_index' \in Nat /\ end_byte_index' \in Nat
  BY <1>1, <1>4, <1>5, <1>7
<1>11. wire = <<>> /\ Buffered'
  BY WholeFacts
<1> QED BY <1>6, <1>8, <1>9, <1>10, <1>11, AnswerRight

LEMMA StartListingHeadRight ==
  ASSUME NEW parsed, WholeRequest(parsed), NEW file \in Files,
         StartListingHead(parsed, file)
  PROVE  EInv'
<1> DEFINE c == parsed.req
           listing == [file EXCEPT !.size = -1]
           seen == Range(read_buf)'
           told == AnnounceFile(c, listing)
<1>1. /\ c.method = "HEAD" /\ Announced(c, listing) /\ Finish(HeadOf(c))
      /\ next_byte_index' = 0
      /\ end_byte_index' = IF request'.got_range THEN c.last_byte_index + 1 ELSE 0
  BY DEF StartListingHead
<1>2. listing.size = -1 /\ listing.range_if \in BOOLEAN
  BY FileTyped DEF File
<1>3. c \in Answered(seen) /\ c \in Fields(seen) /\ RangeSeen(seen, c)
  BY WholeFacts
<1>4. c.first_byte_index \in Nat /\ c.last_byte_index \in Nat \cup {-1}
  BY <1>3 DEF Fields
<1>5. c.got_range =>
        /\ \E w \in RangesOf(seen) : c.first_byte_index = RangeOf[w][1]
        /\ \E w \in RangesOf(seen) :
             c.last_byte_index = RangeEnd(RangeOf[w][2], listing.size)
  BY <1>2, <1>3 DEF RangeSeen, RangeEnd
<1> HIDE DEF c, seen, listing
<1>6. /\ request' \in Answered(seen) /\ request'.method = c.method
      /\ request'.kept = c.kept /\ announced' = told
  BY <1>1, <1>3, AnnouncedRight
<1>7. /\ listing.size \in Nat \cup {-1}
      /\ listing.size = -1 => c.method = "HEAD"
      /\ c.got_range /\ listing.size >= 0 => c.last_byte_index < listing.size
  BY <1>1, <1>2
<1>8. /\ ToldRight(seen, request', told) /\ told.head = HeadOf(c)
  BY <1>2, <1>4, <1>5, <1>6, <1>7, FileTold
<1>9. BodyOf(request', announced') = <<>>
  BY <1>1, <1>6 DEF BodyOf
<1>10. c.last_byte_index + 1 \in Nat
  BY <1>4
<1> HIDE DEF told
<1>11. request' \in Answered(Range(read_buf)')
  BY <1>6 DEF seen
<1>12. ToldRight(Range(read_buf), request, announced)'
  BY <1>6, <1>8 DEF seen
<1>13. Finish(announced'.head) /\ next_byte_index' \in Nat /\ end_byte_index' \in Nat
  BY <1>1, <1>6, <1>8, <1>10
<1>14. wire = <<>> /\ Buffered'
  BY WholeFacts
<1> QED BY <1>9, <1>11, <1>12, <1>13, <1>14, AnswerRight

\* The pages a file is answered with after its range was cut.
LEMMA ClampedPage ==
  ASSUME NEW parsed, WholeRequest(parsed), NEW file \in Files,
         NEW status \in Nat \ {200, 206},
         AnswerPage(Clamp(parsed.req, file), status)
  PROVE  EInv'
<1>1. file.size \in Nat
  BY FileTyped
<1> DEFINE c == Clamp(parsed.req, file)
<1>2. c \in Answered(Range(read_buf)')
  BY <1>1, ClampFacts
<1>3. EInv /\ phase = "reading" /\ Buffered'
  BY WholeFacts
<1>4. AnswerPage(c, status)
  OBVIOUS
<1> HIDE DEF c
<1> QED BY <1>2, <1>3, <1>4, PageRight

LEMMA OwedIs ==
  ASSUME NEW h, NEW from, NEW to
  PROVE  Owed(h, from, to) = h \o FileBytes(from, to - from)
BY DEF Owed

\* A reply with a body begins with its head.
LEMMA StartFileRight ==
  ASSUME NEW parsed, WholeRequest(parsed), NEW file \in Files, StartFile(parsed, file)
  PROVE  EInv'
<1> DEFINE c == Clamp(parsed.req, file)
           seen == Range(read_buf)'
           told == AnnounceFile(c, file)
           head == HeadOf(c)
           first == told.first
           last == told.last
<1>1. /\ c.method # "HEAD" /\ Announced(c, file)
      /\ next_byte_index' = first /\ end_byte_index' = last + 1
      /\ IF first > last
           THEN Finish(head)
           ELSE phase' = "sending" /\ response' = head /\ wire' = wire /\ ended' = ended
  BY DEF StartFile
<1>2. file.size \in Nat /\ file.range_if \in BOOLEAN
  BY FileTyped
<1>3. /\ c \in Answered(seen)
      /\ c.first_byte_index \in Nat /\ c.last_byte_index \in Nat \cup {-1}
      /\ c.got_range => c.last_byte_index < file.size
      /\ c.got_range =>
           /\ \E w \in RangesOf(seen) : c.first_byte_index = RangeOf[w][1]
           /\ \E w \in RangesOf(seen) :
                c.last_byte_index = RangeEnd(RangeOf[w][2], file.size)
  BY <1>2, ClampFacts
<1> HIDE DEF c, seen
<1>4. /\ request' \in Answered(seen) /\ request'.method = c.method
      /\ request'.kept = c.kept /\ announced' = told
  BY <1>1, <1>3, AnnouncedRight
<1>5. /\ ToldRight(seen, request', told) /\ told.head = head
      /\ told.status \in {200, 206}
  BY <1>2, <1>3, <1>4, FileTold
<1>6. told \in Announcements
  BY <1>5 DEF ToldRight
<1> HIDE DEF told, head
<1>7. first \in Nat /\ last \in Int /\ head \in Seq(HeadUnit)
  BY <1>5, <1>6 DEF Announcements
<1>8. told.length = last - first + 1 /\ told.length \in Nat
  BY <1>1, <1>4, <1>5 DEF ToldRight
<1> DEFINE body == BodyOf(request', told)
<1>9. /\ body \in Seq(Int) /\ told.head \in Seq(Int)
      /\ Len(body) = told.length
  BY <1>1, <1>4, <1>5, BodyTyped
<1>10. body = FileBytes(first, last - first + 1)
  BY <1>1, <1>4, <1>5 DEF BodyOf
<1>11. request' \in Answered(Range(read_buf)')
  BY <1>4 DEF seen
<1>12. ToldRight(Range(read_buf), request, announced)'
  BY <1>4, <1>5 DEF seen
<1>13. wire = <<>> /\ Buffered' /\ EInv
  BY WholeFacts
<1> HIDE DEF body, first, last
<1>14. next_byte_index' \in Nat /\ end_byte_index' \in Nat
  BY <1>1, <1>7, <1>8
<1>15. BodyOf(request', announced') = body
  BY <1>4 DEF body
<1>16. CASE first > last
  <2>1. body = <<>>
    <3>1. Len(body) = 0
      BY <1>7, <1>8, <1>9, <1>16
    <3> QED BY <1>9, <3>1
  <2>2. Finish(announced'.head)
    BY <1>1, <1>4, <1>5, <1>16
  <2> QED BY <1>11, <1>12, <1>13, <1>14, <1>15, <2>1, <2>2, AnswerRight
<1>17. CASE ~(first > last)
  <2>1. /\ phase' = "sending" /\ response' = head /\ wire' = <<>> /\ ended' = ended
        /\ next_byte_index' = first /\ end_byte_index' = last + 1
    BY <1>1, <1>13, <1>17
  <2>2. head \in Seq(Int)
    BY <1>5, <1>9
  <2>3. Reply' = head \o body
    <3>1. Reply' = announced'.head \o BodyOf(request', announced')
      BY DEF Reply, HasBody, BodyOf
    <3> QED BY <1>4, <1>5, <1>15, <3>1
  <2>4. Reply' \in Seq(Int)
    BY <1>9, <2>2, <2>3
  <2>5. WireInOrder'
    <3>1. Len(Reply') \in Nat /\ SubSeq(Reply', 1, 0) = <<>> /\ Len(<<>>) = 0
      BY <2>4
    <3> QED BY <2>1, <3>1 DEF WireInOrder
  <2>6. HasBody'
    <3>1. announced'.status \in {200, 206} /\ request'.method # "HEAD"
      BY <1>1, <1>4, <1>5
    <3> QED BY <3>1 DEF HasBody
  <2>7. next_byte_index' < end_byte_index' /\ end_byte_index' = announced'.last + 1
    BY <1>4, <1>7, <1>17, <2>1 DEF last
  <2>8. wire' \o Owed(response', next_byte_index', end_byte_index') = Reply'
    <3> DEFINE end == last + 1
               n == last - first + 1
    <3>1. end - first = n /\ body = FileBytes(first, n) /\ end_byte_index' = end
      BY <1>7, <1>10, <2>1
    <3> HIDE DEF end, n
    <3>2. Owed(response', next_byte_index', end_byte_index') = Reply'
      <4>1. Owed(head, first, end) = head \o FileBytes(first, end - first)
        BY OwedIs
      <4> QED BY <2>1, <2>3, <3>1, <4>1
    <3>3. <<>> \o Reply' = Reply'
      BY <2>4
    <3> QED BY <2>1, <3>2, <3>3
  <2>9. WireRight'
    <3>1. wire' \in Seq(Int)
      BY <2>1
    <3> QED BY <1>14, <2>1, <2>2, <2>5, <2>6, <2>7, <2>8, <3>1 DEF WireRight
  <2>10. Stages' /\ StateOfAllBytes' /\ Unanswered'
    BY <1>13, <2>1 DEF EInv, Stages, StateOfAllBytes, Unanswered
  <2> QED BY <1>11, <1>12, <1>13, <2>9, <2>10 DEF EInv
<1> QED BY <1>16, <1>17

LEMMA AnswersRight ==
  ASSUME NEW parsed, WholeRequest(parsed), Answers(parsed)
  PROVE  EInv'
<1>1. CASE ReadUnparsable(parsed)
  <2>1. parsed.error \in Nat \ {200, 206} /\ AnswerPage(parsed.req, parsed.error)
    BY <1>1 DEF ReadUnparsable, WholeRequest
  <2> QED BY <2>1, PagesRight
<1>2. ASSUME NEW status \in {400, 403, 404, 500, 503}, ReadUnresolved(parsed, status)
      PROVE  EInv'
  <2>1. status \in Nat \ {200, 206} /\ AnswerPage(parsed.req, status)
    BY <1>2 DEF ReadUnresolved
  <2> QED BY <2>1, PagesRight
<1>3. ASSUME NEW file \in Files,
             \/ StartRefused(parsed, file)
             \/ StartDeclined(parsed, file)
             \/ StartChild(parsed, file)
             \/ StartHead(parsed, file)
             \/ StartListingHead(parsed, file)
             \/ StartNotModified(parsed, file)
             \/ StartUnmapped(parsed, file)
             \/ StartFile(parsed, file)
      PROVE  EInv'
  <2>1. CASE StartRefused(parsed, file)
    <3>1. Refusal(file) \in Nat \ {200, 206}
      BY FileTyped
    <3>2. AnswerPage(parsed.req, Refusal(file))
      BY <2>1 DEF StartRefused
    <3> QED BY <3>1, <3>2, PagesRight
  <2>2. CASE StartDeclined(parsed, file)
    BY <2>2, StartDeclinedRight
  <2>3. CASE StartChild(parsed, file)
    BY <2>3, StartChildRight
  <2>4. CASE StartHead(parsed, file)
    BY <2>4, StartHeadRight
  <2>5. CASE StartListingHead(parsed, file)
    BY <2>5, StartListingHeadRight
  <2>6. CASE StartNotModified(parsed, file)
    <3>1. AnswerPage(Clamp(parsed.req, file), 304)
      BY <2>6 DEF StartNotModified
    <3>2. 304 \in Nat \ {200, 206}
      OBVIOUS
    <3> QED BY <3>1, <3>2, ClampedPage
  <2>7. CASE StartUnmapped(parsed, file)
    <3>1. AnswerPage(Clamp(parsed.req, file), 500)
      BY <2>7 DEF StartUnmapped
    <3>2. 500 \in Nat \ {200, 206}
      OBVIOUS
    <3> QED BY <3>1, <3>2, ClampedPage
  <2>8. CASE StartFile(parsed, file)
    BY <2>8, StartFileRight
  <2> QED BY <1>3, <2>1, <2>2, <2>3, <2>4, <2>5, <2>6, <2>7, <2>8
<1> QED BY <1>1, <1>2, <1>3 DEF Answers

LEMMA ReadWholeRight ==
  ASSUME EInv, NEW n \in 1 .. Len(stream), ReadWhole(n)
  PROVE  EInv'
<1> DEFINE parsed == Parsed(n)
<1>1. Arrives(n) /\ checked_idx' = parsed.next - 1 /\ Answers(parsed)
  BY DEF ReadWhole
<1>2. /\ phase = "reading" /\ request = FreshRequest
      /\ stream' = stream /\ stream \in Streams \cup {<<>>}
      /\ read_idx' \in 0 .. Len(stream)
      /\ read_size' \in Nat /\ read_idx' <= read_size'
      /\ read_buf' \in Seq(Byte) /\ Len(read_buf') = read_idx'
      /\ read_buf' = SubSeq(stream, 1, read_idx + n)
      /\ checked_state' \in AllStates
  BY <1>1, ArrivesRight
<1> DEFINE buf == read_buf'
<1>3. parsed = Parse(buf, FreshRequest)
  BY <1>2 DEF Parsed
<1> HIDE DEF buf, parsed
<1>4. parsed \in Parses(buf)
  BY <1>2, <1>3, ParseRight DEF buf
<1>5. /\ parsed.req \in Requests(Range(buf), HasProtocol(buf))
      /\ parsed.error \in {0, 400, 501} /\ parsed.next \in 1 .. Len(buf) + 1
  BY <1>4 DEF Parses
<1>6. checked_idx' \in 0 .. read_idx'
  <2>1. Len(buf) = read_idx' /\ Len(buf) \in Nat
    BY <1>2 DEF buf
  <2> QED BY <1>1, <1>5, <2>1
<1>7. Buffered'
  BY <1>2, <1>6 DEF Buffered
<1>8. parsed.req \in Requests(Range(read_buf)', HasProtocol(buf))
  BY <1>5 DEF buf
<1>9. WholeRequest(parsed)
  BY <1>2, <1>5, <1>7, <1>8 DEF WholeRequest
<1> QED BY <1>1, <1>9, AnswersRight

(***************************************************************************)
(* handle_send.                                                            *)
(***************************************************************************)
LEMMA JoinRight ==
  ASSUME NEW x \in Seq(Int), NEW y \in Seq(Int)
  PROVE  /\ x \o y \in Seq(Int) /\ Len(x \o y) = Len(x) + Len(y)
         /\ \A i \in 1 .. Len(x) : (x \o y)[i] = x[i]
         /\ \A i \in 1 .. Len(y) : (x \o y)[Len(x) + i] = y[i]
OBVIOUS

LEMMA SameEntries ==
  ASSUME NEW x \in Seq(Int), NEW y \in Seq(Int), Len(x) = Len(y),
         \A i \in 1 .. Len(x) : x[i] = y[i]
  PROVE  x = y
OBVIOUS

LEMMA JoinedInOrder ==
  ASSUME NEW x \in Seq(Int), NEW y \in Seq(Int), NEW z \in Seq(Int)
  PROVE  /\ (x \o y) \o z = x \o (y \o z)
         /\ Len(x) <= Len(x \o y) /\ x = SubSeq(x \o y, 1, Len(x))
<1>1. (x \o y) \o z = x \o (y \o z)
  OBVIOUS
<1>2. Len(x) <= Len(x \o y) /\ x = SubSeq(x \o y, 1, Len(x))
  OBVIOUS
<1> QED BY <1>1, <1>2

\* What a write of n units leaves of the head, and where it leaves the file.
RestOfHead(h, n) == IF n < Len(h) THEN SubSeq(h, n + 1, Len(h)) ELSE <<>>
RestFrom(h, a, n) == a + IF n < Len(h) THEN 0 ELSE n - Len(h)

\* What is sent and what is left are what was left before.
LEMMA PartSent ==
  ASSUME NEW h \in Seq(Int), NEW a \in Nat, NEW b \in Nat, a < b,
         NEW n \in 1 .. Len(h) + b - a
  PROVE  /\ RestOfHead(h, n) \in Seq(Int) /\ RestFrom(h, a, n) \in Nat
         /\ SubSeq(Owed(h, a, b), 1, n) \in Seq(Int)
         /\ Owed(RestOfHead(h, n), RestFrom(h, a, n), b) \in Seq(Int)
         /\ SubSeq(Owed(h, a, b), 1, n) \o Owed(RestOfHead(h, n), RestFrom(h, a, n), b)
            = Owed(h, a, b)
         /\ RestFrom(h, a, n) >= b =>
              Owed(RestOfHead(h, n), RestFrom(h, a, n), b) = <<>>
<1> DEFINE h2 == RestOfHead(h, n)
           a2 == RestFrom(h, a, n)
<1>0. /\ h2 = IF n < Len(h) THEN SubSeq(h, n + 1, Len(h)) ELSE <<>>
      /\ a2 = a + IF n < Len(h) THEN 0 ELSE n - Len(h)
  BY DEF RestOfHead, RestFrom
<1> HIDE DEF h2, a2
<1> DEFINE m == Len(h)
           l == b - a
           l2 == b - a2
           m2 == Len(h2)
           body == FileBytes(a, l)
           body2 == FileBytes(a2, l2)
           o == Owed(h, a, b)
           p == SubSeq(o, 1, n)
           r == Owed(h2, a2, b)
<1>1. m \in Nat /\ n \in Nat /\ l \in Nat /\ l > 0 /\ n <= m + l /\ n >= 1
  OBVIOUS
<1>2. /\ a2 = IF n < m THEN a ELSE a + n - m
      /\ l2 = IF n < m THEN l ELSE l - (n - m)
  BY <1>0, <1>1
<1>3. a2 \in Nat /\ l2 \in Nat /\ (a2 >= b => l2 = 0)
  BY <1>1, <1>2
<1>4. h2 \in Seq(Int) /\ m2 = (IF n < m THEN m - n ELSE 0)
      /\ \A i \in 1 .. m2 : h2[i] = h[n + i]
  <2>1. CASE n < m
    BY <1>0, <1>1, <2>1
  <2>2. CASE ~(n < m)
    BY <1>0, <2>2
  <2> QED BY <2>1, <2>2
<1>7. o = h \o body /\ r = h2 \o body2
  BY OwedIs
<1>c. body = FileBytes(a, l) /\ body2 = FileBytes(a2, l2) /\ a \in Int
  OBVIOUS
<1> HIDE DEF l, l2, body, body2
<1>d. a \in Int /\ a2 \in Int /\ l \in Nat /\ l2 \in Nat
  BY <1>1, <1>2, <1>3
<1>5. body \in Seq(Int) /\ Len(body) = l /\ \A i \in 1 .. l : body[i] = a + i - 1
  <2>1. a \in Int /\ l \in Nat
    BY <1>d
  <2>2. /\ FileBytes(a, l) \in Seq(Int) /\ Len(FileBytes(a, l)) = l
        /\ \A i \in 1 .. l : FileBytes(a, l)[i] = a + i - 1
    BY ONLY <2>1, BytesRight
  <2> QED BY ONLY <1>c, <2>2
<1>6. body2 \in Seq(Int) /\ Len(body2) = l2 /\ \A i \in 1 .. l2 : body2[i] = a2 + i - 1
  <2>1. a2 \in Int /\ l2 \in Nat
    BY <1>d
  <2>2. /\ FileBytes(a2, l2) \in Seq(Int) /\ Len(FileBytes(a2, l2)) = l2
        /\ \A i \in 1 .. l2 : FileBytes(a2, l2)[i] = a2 + i - 1
    BY ONLY <2>1, BytesRight
  <2> QED BY ONLY <1>c, <2>2
<1> HIDE DEF o, r
<1>8. /\ o \in Seq(Int) /\ Len(o) = m + l
      /\ \A i \in 1 .. m : o[i] = h[i]
      /\ \A i \in 1 .. l : o[m + i] = body[i]
  <2>1. /\ h \o body \in Seq(Int) /\ Len(h \o body) = Len(h) + Len(body)
        /\ \A i \in 1 .. Len(h) : (h \o body)[i] = h[i]
        /\ \A i \in 1 .. Len(body) : (h \o body)[Len(h) + i] = body[i]
    BY <1>5, JoinRight
  <2> QED BY <1>5, <1>7, <2>1
<1>9. /\ r \in Seq(Int) /\ Len(r) = m2 + l2
      /\ \A i \in 1 .. m2 : r[i] = h2[i]
      /\ \A i \in 1 .. l2 : r[m2 + i] = body2[i]
  <2>1. /\ h2 \o body2 \in Seq(Int) /\ Len(h2 \o body2) = Len(h2) + Len(body2)
        /\ \A i \in 1 .. Len(h2) : (h2 \o body2)[i] = h2[i]
        /\ \A i \in 1 .. Len(body2) : (h2 \o body2)[Len(h2) + i] = body2[i]
    BY <1>4, <1>6, JoinRight
  <2> QED BY <1>6, <1>7, <2>1
<1> HIDE DEF m, m2
<1>10. p \in Seq(Int) /\ Len(p) = n /\ \A i \in 1 .. n : p[i] = o[i]
  BY <1>1, <1>8
<1> HIDE DEF p
<1>11. Len(r) = m + l - n
  BY <1>1, <1>2, <1>4, <1>9
<1>12. ASSUME NEW i \in 1 .. m + l - n PROVE r[i] = o[n + i]
  <2>1. CASE n < m /\ i <= m - n
    <3>1. i \in 1 .. m2 /\ n + i \in 1 .. m
      BY <1>1, <1>4, <2>1
    <3>2. r[i] = h2[i] /\ h2[i] = h[n + i] /\ o[n + i] = h[n + i]
      BY <1>4, <1>8, <1>9, <3>1
    <3> QED BY <3>2
  <2>2. CASE n < m /\ i > m - n
    <3> DEFINE k == i - (m - n)
    <3>1. k \in 1 .. l /\ l2 = l /\ m2 + k = i /\ m + k = n + i /\ a2 = a
      BY <1>1, <1>2, <1>4, <2>2
    <3> HIDE DEF k
    <3>2. r[m2 + k] = body2[k] /\ body2[k] = a2 + k - 1
      BY <1>6, <1>9, <3>1
    <3>3. o[m + k] = body[k] /\ body[k] = a + k - 1
      BY <1>5, <1>8, <3>1
    <3> QED BY <3>1, <3>2, <3>3
  <2>3. CASE ~(n < m)
    <3> DEFINE k == n + i - m
    <3>0. /\ m2 = 0 /\ a2 = a + n - m /\ l2 = l - (n - m)
          /\ i \in Nat /\ 1 <= i /\ i <= m + l - n
      BY <1>1, <1>2, <1>4, <2>3
    <3>1. /\ k \in 1 .. l /\ i \in 1 .. l2 /\ m2 + i = i /\ m + k = n + i
          /\ a2 + i - 1 = a + k - 1
      BY <1>1, <2>3, <3>0
    <3> HIDE DEF k
    <3>2. r[m2 + i] = body2[i] /\ body2[i] = a2 + i - 1
      BY <1>6, <1>9, <3>1
    <3>3. o[m + k] = body[k] /\ body[k] = a + k - 1
      BY <1>5, <1>8, <3>1
    <3> QED BY <3>1, <3>2, <3>3
  <2> QED BY <1>1, <2>1, <2>2, <2>3
<1> DEFINE j == p \o r
<1>13. /\ j \in Seq(Int) /\ Len(j) = m + l
       /\ \A i \in 1 .. n : j[i] = p[i]
       /\ \A i \in 1 .. m + l - n : j[n + i] = r[i]
  <2>1. /\ p \o r \in Seq(Int) /\ Len(p \o r) = Len(p) + Len(r)
        /\ \A i \in 1 .. Len(p) : (p \o r)[i] = p[i]
        /\ \A i \in 1 .. Len(r) : (p \o r)[Len(p) + i] = r[i]
    BY <1>9, <1>10, JoinRight
  <2> HIDE DEF j
  <2>2. /\ j \in Seq(Int) /\ Len(j) = Len(p) + Len(r)
        /\ \A i \in 1 .. Len(p) : j[i] = p[i]
        /\ \A i \in 1 .. Len(r) : j[Len(p) + i] = r[i]
    BY <2>1 DEF j
  <2> QED BY <1>1, <1>10, <1>11, <2>2
<1> HIDE DEF j
<1>14. ASSUME NEW i \in 1 .. m + l PROVE j[i] = o[i]
  <2>1. CASE i <= n
    <3>1. i \in 1 .. n
      BY <1>1, <2>1
    <3> QED BY <1>10, <1>13, <3>1
  <2>2. CASE i > n
    <3> DEFINE k == i - n
    <3>1. k \in 1 .. m + l - n /\ n + k = i
      BY <1>1, <2>2
    <3> HIDE DEF k
    <3> QED BY <1>12, <1>13, <3>1
  <2> QED BY <1>1, <2>1, <2>2
<1>15. j = o
  BY <1>8, <1>13, <1>14, SameEntries
<1>16. a2 >= b => r = <<>>
  <2>1. a2 >= b => Len(r) = 0
    BY <1>1, <1>2, <1>3, <1>11
  <2> QED BY <1>9, <2>1
<1> QED BY <1>3, <1>4, <1>8, <1>9, <1>10, <1>15, <1>16 DEF o, p, r, j, h2, a2

LEMMA SendRight ==
  ASSUME EInv, NEW n \in 1 .. Left, Send(n)
  PROVE  EInv'
<1> DEFINE h == response
           a == next_byte_index
           b == end_byte_index
           h2 == RestOfHead(h, n)
           a2 == RestFrom(h, a, n)
           p == SubSeq(Owed(h, a, b), 1, n)
           r == Owed(h2, a2, b)
<1>1. /\ phase = "sending" /\ n \in 1 .. Left
      /\ wire' = wire \o Delivered(n) /\ response' = h2 /\ next_byte_index' = a2
      /\ IF a2 >= b THEN phase' = "closed" /\ ended' = "complete"
         ELSE phase' = phase /\ ended' = ended
      /\ stream' = stream /\ read_idx' = read_idx /\ read_size' = read_size
      /\ checked_idx' = checked_idx /\ checked_state' = checked_state
      /\ request' = request /\ announced' = announced /\ end_byte_index' = b
  BY DEF Send, readVars, RestOfHead, RestFrom
<1>2. /\ h \in Seq(Int) /\ wire \in Seq(Int) /\ a \in Nat /\ b \in Nat
      /\ HasBody /\ a < b /\ b = announced.last + 1
      /\ wire \o Owed(h, a, b) = Reply
  BY <1>1 DEF EInv, WireRight
<1>3. n \in 1 .. Len(h) + b - a
  BY DEF Left
<1>4. /\ h2 \in Seq(Int) /\ a2 \in Nat /\ p \in Seq(Int)
      /\ r \in Seq(Int) /\ p \o r = Owed(h, a, b)
      /\ a2 >= b => r = <<>>
  <2>3. h \in Seq(Int) /\ a \in Nat /\ b \in Nat /\ a < b
    BY <1>2
  <2>4. n \in 1 .. Len(h) + b - a
    BY <1>3
  <2> HIDE DEF h, a, b
  <2> QED BY <2>3, <2>4, PartSent
<1>5. wire' = wire \o p
  BY <1>1, OwedIs DEF Delivered
<1> HIDE DEF h, a, b, h2, a2, p, r
<1>6. wire' \in Seq(Int)
  BY <1>2, <1>4, <1>5, JoinRight
<1>7. Reply' = Reply /\ HasBody' = HasBody
  BY <1>1 DEF Reply, HasBody
<1>8. wire' \o r = Reply'
  <2>1. (wire \o p) \o r = wire \o (p \o r)
    BY <1>2, <1>4, JoinedInOrder
  <2> QED BY <1>2, <1>4, <1>5, <1>7, <2>1
<1>9. WireInOrder'
  <2> DEFINE w == wire'
             reply == Reply'
  <2>1. w \in Seq(Int) /\ w \o r = reply
    BY <1>6, <1>8
  <2> HIDE DEF w, reply
  <2>2. Len(w) <= Len(reply) /\ w = SubSeq(reply, 1, Len(w))
    BY <1>4, <2>1, JoinedInOrder
  <2>3. a2 >= b => w = reply
    <3>1. w \o <<>> = w
      BY <2>1
    <3> QED BY <1>4, <2>1, <3>1
  <2>4. phase' = "closed" => a2 >= b
    BY <1>1
  <2> QED BY <2>2, <2>3, <2>4 DEF WireInOrder, w, reply
<1>10. WireRight'
  <2>1. response' \in Seq(Int) /\ next_byte_index' \in Nat /\ end_byte_index' \in Nat
    BY <1>1, <1>2, <1>4
  <2>2. ASSUME phase' = "sending"
        PROVE  /\ next_byte_index' < end_byte_index'
               /\ end_byte_index' = announced'.last + 1
               /\ wire' \o Owed(response', next_byte_index', end_byte_index') = Reply'
    <3>1. ~(a2 >= b)
      BY <1>1, <2>2
    <3>2. a2 < b
      BY <1>2, <1>4, <3>1
    <3> QED BY <1>1, <1>2, <1>8, <3>2 DEF r
  <2> QED BY <1>2, <1>6, <1>7, <1>9, <2>1, <2>2 DEF WireRight
<1>11. Stages' /\ Buffered' /\ StateOfAllBytes' /\ Unanswered'
  <2>1. phase' \in {"sending", "closed"} /\ ended' \in {ended, "complete"}
    BY <1>1
  <2> QED BY <1>1, <2>1 DEF EInv, Stages, Buffered, StateOfAllBytes, Unanswered
<1>12. request' \in Answered(Range(read_buf)')
       /\ ToldRight(Range(read_buf), request, announced)'
  <2>1. read_buf' = read_buf
    BY <1>1 DEF read_buf
  <2> QED BY <1>1, <2>1 DEF EInv
<1> QED BY <1>10, <1>11, <1>12 DEF EInv

LEMMA SendFailsRight ==
  ASSUME EInv, SendFails
  PROVE  EInv'
<1>1. /\ phase = "sending" /\ phase' = "closed" /\ ended' = "broken"
      /\ stream' = stream /\ read_idx' = read_idx /\ read_size' = read_size
      /\ checked_idx' = checked_idx /\ checked_state' = checked_state
      /\ request' = request /\ announced' = announced /\ response' = response
      /\ next_byte_index' = next_byte_index /\ end_byte_index' = end_byte_index
      /\ wire' = wire
  BY DEF SendFails, readVars, sendVars
<1>2. Stages' /\ Buffered' /\ StateOfAllBytes' /\ Unanswered'
  BY <1>1 DEF EInv, Stages, Buffered, StateOfAllBytes, Unanswered
<1>3. WireRight'
  <2>1. Reply' = Reply
    BY <1>1 DEF Reply, HasBody
  <2> QED BY <1>1, <2>1 DEF EInv, WireRight, WireInOrder
<1>4. request' \in Answered(Range(read_buf)')
      /\ ToldRight(Range(read_buf), request, announced)'
  <2>1. read_buf' = read_buf
    BY <1>1 DEF read_buf
  <2> QED BY <1>1, <2>1 DEF EInv
<1> QED BY <1>2, <1>3, <1>4 DEF EInv

LEMMA EInvNext ==
  ASSUME EInv, [Next]_vars
  PROVE  EInv'
<1>1. ASSUME NEW s \in Streams, GetConn(s) PROVE EInv'
  BY <1>1, GetConnRight
<1>2. ASSUME NEW n \in 1 .. Len(stream), ReadIncomplete(n) PROVE EInv'
  BY <1>2, ReadIncompleteRight
<1>3. ASSUME NEW n \in 1 .. Len(stream), ReadBogus(n) PROVE EInv'
  BY <1>3, ReadBogusRight
<1>4. ASSUME NEW n \in 1 .. Len(stream), ReadWhole(n) PROVE EInv'
  BY <1>4, ReadWholeRight
<1>5. ASSUME NEW status \in {400, 408}, ReadFails(status) PROVE EInv'
  BY <1>5, ReadFailsRight
<1>6. ASSUME NEW n \in 1 .. Left, Send(n) PROVE EInv'
  BY <1>6, SendRight
<1>7. ASSUME SendFails PROVE EInv'
  BY <1>7, SendFailsRight
<1>8. ASSUME UNCHANGED vars PROVE EInv'
  <2>1. /\ stream' = stream /\ read_idx' = read_idx /\ read_size' = read_size
        /\ checked_idx' = checked_idx /\ checked_state' = checked_state
        /\ request' = request /\ announced' = announced /\ response' = response
        /\ next_byte_index' = next_byte_index /\ end_byte_index' = end_byte_index
        /\ wire' = wire /\ phase' = phase /\ ended' = ended
    BY <1>8 DEF vars, readVars, sendVars
  <2>2. Stages' /\ Buffered' /\ StateOfAllBytes' /\ Unanswered'
    <3>1. read_buf' = read_buf
      BY <2>1 DEF read_buf
    <3> QED BY <2>1, <3>1 DEF EInv, Stages, Buffered, StateOfAllBytes, Unanswered
  <2>3. WireRight'
    <3>1. Reply' = Reply /\ HasBody' = HasBody
      BY <2>1 DEF Reply, HasBody
    <3> QED BY <2>1, <3>1 DEF EInv, WireRight, WireInOrder
  <2>4. request' \in Answered(Range(read_buf)')
        /\ ToldRight(Range(read_buf), request, announced)'
    <3>1. read_buf' = read_buf
      BY <2>1 DEF read_buf
    <3> QED BY <2>1, <3>1 DEF EInv
  <2> QED BY <2>2, <2>3, <2>4 DEF EInv
<1> QED BY <1>1, <1>2, <1>3, <1>4, <1>5, <1>6, <1>7, <1>8 DEF Next

(***************************************************************************)
(* The theorems.                                                           *)
(***************************************************************************)
LEMMA EInvAlways == Spec => []EInv
<1>1. Init => EInv
  BY EInvInit
<1>2. EInv /\ [Next]_vars => EInv'
  BY EInvNext
<1> QED BY <1>1, <1>2, PTL DEF Spec

\* Wherever packets end, httpd_got_request finds what it would find in one
\* piece, and what it takes for a whole request httpd_parse_request takes for
\* the same one: it finds the blank line, and a protocol where there is one.
THEOREM RecogniserAlwaysRight == Spec => []RecogniserRight
<1>1. EInv => RecogniserRight
  BY RecogniserFollows
<1> QED BY <1>1, EInvAlways, PTL

\* No field of a request is left over from the connection before in the slot.
THEOREM FieldsAlwaysOwn == Spec => []FieldsComeFromThisRequest
<1>1. EInv => FieldsComeFromThisRequest
  BY FieldsFollow
<1> QED BY <1>1, EInvAlways, PTL

\* However handle_send's writes cut a reply, the client gets a beginning of it,
\* all of it unless the connection fails, and as many bytes of the file as
\* Content-Length says.
THEOREM AlwaysDelivered == Spec => []DeliveredInOrder
<1>1. EInv => DeliveredInOrder
  BY DeliveryFollows
<1> QED BY <1>1, EInvAlways, PTL

\* A partial reply is within the file and what Range lines of the request ask
\* for, and no write reaches past the end of the mapped file.
THEOREM RangeAlwaysAsAsked == Spec => []RangeAsAsked
<1>1. EInv => RangeAsAsked
  BY RangeFollows
<1> QED BY <1>1, EInvAlways, PTL
================================================================================
