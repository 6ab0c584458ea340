---------------------------- MODULE FileStackProofs ----------------------------
(***************************************************************************)
(* Of the files of a package, for every package and all sizes: an open     *)
(* file is the file of its name and reads return its bytes, and what is    *)
(* read of an archive is deciphered.                                       *)
(***************************************************************************)
EXTENDS FileStack, TLAPS, NaturalsInduction, WellFoundedInduction

-----------------------------------------------------------------------------
(* Induction and recursion over the natural numbers, in first-order form:   *)
(* the statement is the set of the numbers it holds for, and the step of a  *)
(* recursive function a function.                                           *)

LEMMA Smallest ==
    ASSUME NEW S, S \subseteq Nat, S # {}
    PROVE  \E s \in S : \A t \in S : s <= t
<1>1. PICK s \in S : \A y \in S : <<y, s>> \notin OpToRel(<, Nat)
  BY NatLessThanWellFounded, WFMin
<1>2. ASSUME NEW y \in S PROVE ~(y < s)
  <2>1. <<y, s>> \in Nat \X Nat /\ <<y, s>>[1] = y /\ <<y, s>>[2] = s
    OBVIOUS
  <2>2. y < s => <<y, s>>[1] < <<y, s>>[2]
    BY <2>1
  <2>3. <<y, s>>[1] < <<y, s>>[2] => <<y, s>> \in OpToRel(<, Nat)
    BY <2>1, Zenon DEF OpToRel
  <2>4. QED BY <1>1, <2>2, <2>3
<1>3. QED BY <1>2

\* Induction with the statement as a set: one that has 0 and with every number the next has them all.
LEMMA Induction ==
    ASSUME NEW T, 0 \in T, \A n \in Nat : n \in T => n + 1 \in T
    PROVE  \A n \in Nat : n \in T
<1> DEFINE left == {n \in Nat : n \notin T}
<1>1. SUFFICES ASSUME left # {} PROVE FALSE
  OBVIOUS
<1>2. PICK s \in left : \A t \in left : s <= t
  BY <1>1, Smallest
<1>3. s \in Nat \ {0} /\ s - 1 \in Nat
  OBVIOUS
<1>4. s - 1 \notin left
  BY <1>2, <1>3
<1>5. s - 1 \in T
  BY <1>3, <1>4
<1>6. (s - 1) + 1 \in T
  BY <1>3, <1>5
<1>7. (s - 1) + 1 = s
  BY <1>3
<1>8. QED BY <1>6, <1>7

Iterates(g, S, base, step) ==
    g \in [Nat -> S] /\ g[0] = base /\ \A n \in Nat : g[n + 1] = step[n + 1][g[n]]

LEMMA Recursion ==
    ASSUME NEW S, NEW base, base \in S, NEW step, step \in [Nat -> [S -> S]]
    PROVE  \E g : Iterates(g, S, base, step)
<1> DEFINE From(h, n) == /\ h \in [0 .. n -> S] /\ h[0] = base
                         /\ \A k \in 0 .. n - 1 : h[k + 1] = step[k + 1][h[k]]
           T == {n \in Nat : \E h : From(h, n)}
<1>1. 0 \in T
  <2>1. From([k \in 0 .. 0 |-> base], 0)
    OBVIOUS
  <2> HIDE DEF From
  <2>2. QED BY <2>1
<1>2. ASSUME NEW n \in Nat, n \in T PROVE n + 1 \in T
  <2>1. PICK h : From(h, n)
    BY <1>2
  <2> DEFINE new == step[n + 1][h[n]]
             next == [k \in 0 .. n + 1 |-> IF k <= n THEN h[k] ELSE new]
  <2>2. h \in [0 .. n -> S]
    BY <2>1
  <2>3. h[0] = base
    BY <2>1
  <2>4. ASSUME NEW k \in 0 .. n - 1 PROVE h[k + 1] = step[k + 1][h[k]]
    BY <2>1
  <2>5. new \in S
    <3>1. h[n] \in S /\ n + 1 \in Nat
      BY <2>2
    <3>2. QED BY <3>1
  <2>6. next \in [0 .. n + 1 -> S] /\ next[0] = base
    <3> HIDE DEF new
    <3>1. QED BY <2>2, <2>3, <2>5
  <2>7. ASSUME NEW k \in 0 .. (n + 1) - 1 PROVE next[k + 1] = step[k + 1][next[k]]
    <3> HIDE DEF new
    <3>1. CASE k < n
      <4>1. k \in 0 .. n - 1 /\ k + 1 \in 0 .. n + 1 /\ k + 1 <= n /\ k \in 0 .. n + 1
        BY <3>1
      <4>2. next[k + 1] = h[k + 1] /\ next[k] = h[k]
        BY <4>1
      <4>3. QED BY <4>1, <4>2, <2>4
    <3>2. CASE k = n
      <4>1. next[n + 1] = new /\ next[n] = h[n]
        OBVIOUS
      <4>2. QED BY <4>1, <3>2 DEF new
    <3>3. QED BY <3>1, <3>2
  <2> HIDE DEF next
  <2>8. From(next, n + 1)
    BY <2>6, <2>7
  <2> HIDE DEF From
  <2>9. QED BY <2>8
<1>3. ASSUME NEW n \in Nat PROVE \E h : From(h, n)
  <2> HIDE DEF T
  <2>1. n \in T
    BY <1>1, <1>2, Induction
  <2>2. QED BY <2>1 DEF T
<1> DEFINE up == [n \in Nat |-> CHOOSE h : From(h, n)]
           g == [n \in Nat |-> up[n][n]]
<1>4. ASSUME NEW n \in Nat PROVE From(up[n], n)
  <2> HIDE DEF From
  <2>1. QED BY <1>3
<1> HIDE DEF up
<1>5. ASSUME NEW n \in Nat
      PROVE  up[n] \in [0 .. n -> S] /\ up[n][0] = base
  BY <1>4
<1>6. ASSUME NEW n \in Nat, NEW k \in Nat, k < n
      PROVE  up[n][k + 1] = step[k + 1][up[n][k]]
  <2>1. k \in 0 .. n - 1
    BY <1>6
  <2>2. QED BY <1>4, <2>1
<1> HIDE DEF From
<1>7. ASSUME NEW m \in Nat, NEW k \in Nat, k <= m PROVE up[m][k] = up[k][k]
  <2> DEFINE E == {j \in Nat : \A a \in Nat : j <= a => up[a][j] = up[j][j]}
  <2>1. 0 \in E
    BY <1>5
  <2>2. ASSUME NEW j \in Nat, j \in E PROVE j + 1 \in E
    <3>1. SUFFICES ASSUME NEW a \in Nat, j + 1 <= a PROVE up[a][j + 1] = up[j + 1][j + 1]
      OBVIOUS
    <3>2. up[a][j] = up[j][j] /\ up[j + 1][j] = up[j][j]
      BY <2>2, <3>1
    <3>3. up[a][j + 1] = step[j + 1][up[a][j]]
      BY <1>6, <3>1
    <3>4. up[j + 1][j + 1] = step[j + 1][up[j + 1][j]]
      BY <1>6
    <3>5. QED BY <3>2, <3>3, <3>4
  <2> HIDE DEF E
  <2>3. \A j \in Nat : j \in E
    BY <2>1, <2>2, Induction
  <2>4. QED BY <1>7, <2>3 DEF E
<1>8. g \in [Nat -> S] /\ g[0] = base
  <2>1. ASSUME NEW n \in Nat PROVE up[n][n] \in S
    BY <1>5
  <2>2. QED BY <1>5, <2>1
<1>9. ASSUME NEW n \in Nat PROVE g[n + 1] = step[n + 1][g[n]]
  <2>1. g[n] = up[n][n] /\ g[n + 1] = up[n + 1][n + 1]
    OBVIOUS
  <2>2. up[n + 1][n + 1] = step[n + 1][up[n + 1][n]]
    BY <1>6
  <2>3. up[n + 1][n] = up[n][n]
    BY <1>7
  <2>4. QED BY <2>1, <2>2, <2>3
<1> HIDE DEF g
<1>10. QED BY <1>8, <1>9 DEF Iterates


-----------------------------------------------------------------------------
(* Whole multiples.                                                         *)

LEMMA Division ==
    ASSUME NEW a \in Nat, NEW d \in Nat \ {0}
    PROVE  /\ a \div d \in Nat /\ a % d \in 0 .. d - 1
           /\ a = (a \div d) * d + (a % d)
OBVIOUS

LEMMA DivisionIs ==
    ASSUME NEW q \in Nat, NEW d \in Nat \ {0}
    PROVE  (q * d) \div d = q /\ (q * d) % d = 0
OBVIOUS

LEMMA MultiplesAdd ==
    ASSUME NEW p \in Nat, NEW q \in Nat, NEW d \in Nat
    PROVE  (p + q) * d = p * d + q * d
OBVIOUS

LEMMA MultiplesGrow ==
    ASSUME NEW p \in Nat, NEW q \in Nat, NEW d \in Nat, p <= q
    PROVE  p * d <= q * d
OBVIOUS

LEMMA RoundUp ==
    ASSUME NEW a \in Nat, NEW d \in Nat \ {0}
    PROVE  /\ (a + d - 1) \div d \in Nat
           /\ a <= ((a + d - 1) \div d) * d
           /\ ((a + d - 1) \div d) * d < a + d
OBVIOUS

-----------------------------------------------------------------------------
(* Sums.                                                                    *)

\* g[n] is the sum of the first n.
Sums(g, s) ==
    /\ g \in [0 .. Len(s) -> Nat] /\ g[0] = 0
    /\ \A n \in 1 .. Len(s) : g[n] = g[n - 1] + s[n]

LEMMA SumIs ==
    ASSUME NEW s \in Seq(Nat), NEW g, Sums(g, s)
    PROVE  Sum(s) = g[Len(s)]
<1> DEFINE sum == CHOOSE sum : sum = [n \in 0 .. Len(s) |-> IF n = 0 THEN 0 ELSE sum[n - 1] + s[n]]
<1>1. Sum(s) = sum[Len(s)]
  BY DEF Sum
<1>2. g = [n \in 0 .. Len(s) |-> IF n = 0 THEN 0 ELSE g[n - 1] + s[n]]
  BY DEF Sums
<1>3. sum = [n \in 0 .. Len(s) |-> IF n = 0 THEN 0 ELSE sum[n - 1] + s[n]]
  BY <1>2
<1> HIDE DEF sum
<1>4. sum[0] = 0 /\ \A n \in 1 .. Len(s) : sum[n] = sum[n - 1] + s[n]
  BY <1>3
<1> DEFINE E == {n \in Nat : n <= Len(s) => sum[n] = g[n]}
<1>5. 0 \in E
  BY <1>4 DEF Sums
<1>6. ASSUME NEW n \in Nat, n \in E PROVE n + 1 \in E
  <2>1. SUFFICES ASSUME n + 1 <= Len(s) PROVE sum[n + 1] = g[n + 1]
    OBVIOUS
  <2>2. n + 1 \in 1 .. Len(s) /\ (n + 1) - 1 = n /\ sum[n] = g[n]
    BY <1>6, <2>1
  <2>3. QED BY <1>4, <2>2 DEF Sums
<1> HIDE DEF E
<1>7. Len(s) \in E
  BY <1>5, <1>6, Induction
<1>8. QED BY <1>1, <1>7 DEF E

LEMMA SumsExist ==
    ASSUME NEW s \in Seq(Nat)
    PROVE  \E g : Sums(g, s)
<1> DEFINE part(n) == IF n \in 1 .. Len(s) THEN s[n] ELSE 0
           step == [n \in Nat |-> [a \in Nat |-> a + part(n)]]
<1>1. \A n \in Nat : part(n) \in Nat
  OBVIOUS
<1>2. step \in [Nat -> [Nat -> Nat]]
  <2> HIDE DEF part
  <2>1. ASSUME NEW n \in Nat PROVE [a \in Nat |-> a + part(n)] \in [Nat -> Nat]
    BY <1>1
  <2>2. QED BY <2>1
<1>3. \A n \in Nat, a \in Nat : step[n][a] = a + part(n)
  OBVIOUS
<1> HIDE DEF step
<1>4. PICK g : Iterates(g, Nat, 0, step)
  <2>1. 0 \in Nat
    OBVIOUS
  <2>2. QED BY <1>2, <2>1, Recursion
<1> DEFINE f == [n \in 0 .. Len(s) |-> g[n]]
<1>5. ASSUME NEW n \in 1 .. Len(s) PROVE f[n] = f[n - 1] + s[n]
  <2>1. n - 1 \in Nat /\ (n - 1) + 1 = n /\ n \in Nat
    OBVIOUS
  <2>2. g[(n - 1) + 1] = step[(n - 1) + 1][g[n - 1]] /\ g[n - 1] \in Nat
    BY <1>4, <2>1 DEF Iterates
  <2>3. g[n] = g[n - 1] + part(n)
    <3> HIDE DEF part
    <3>1. QED BY <1>3, <2>1, <2>2
  <2>4. f[n] = g[n] /\ f[n - 1] = g[n - 1] /\ part(n) = s[n]
    OBVIOUS
  <2>5. QED BY <2>3, <2>4
<1>6. f \in [0 .. Len(s) -> Nat] /\ f[0] = 0
  <2>1. g[0] = 0 /\ \A n \in Nat : g[n] \in Nat
    BY <1>4 DEF Iterates
  <2>2. QED BY <2>1
<1> HIDE DEF f
<1>7. QED BY <1>5, <1>6 DEF Sums

\* All prefixes have their sums from one function.
LEMMA SumOfPrefix ==
    ASSUME NEW s \in Seq(Nat), NEW g, Sums(g, s), NEW k \in 0 .. Len(s)
    PROVE  Sum(SubSeq(s, 1, k)) = g[k]
<1> DEFINE p == SubSeq(s, 1, k)
           h == [n \in 0 .. k |-> g[n]]
<1>1. p \in Seq(Nat) /\ Len(p) = k /\ \A n \in 1 .. k : p[n] = s[n]
  OBVIOUS
<1>2. Sums(h, p)
  <2> HIDE DEF p
  <2>1. h \in [0 .. Len(p) -> Nat] /\ h[0] = 0
    <3>1. g \in [0 .. Len(s) -> Nat] /\ g[0] = 0
      BY DEF Sums
    <3>2. \A n \in 0 .. k : n \in 0 .. Len(s)
      OBVIOUS
    <3>3. \A n \in 0 .. k : g[n] \in Nat
      BY <3>1, <3>2
    <3>4. h \in [0 .. k -> Nat] /\ h[0] = 0
      BY <3>1, <3>3
    <3>5. QED BY <1>1, <3>4
  <2>2. ASSUME NEW n \in 1 .. Len(p) PROVE h[n] = h[n - 1] + p[n]
    <3>1. n \in 1 .. Len(s) /\ n \in 0 .. k /\ n - 1 \in 0 .. k
      BY <1>1
    <3>2. QED BY <1>1, <3>1 DEF Sums
  <2> HIDE DEF h
  <2>3. QED BY <2>1, <2>2 DEF Sums
<1> HIDE DEF p
<1>3. Sum(p) = h[k]
  <2> HIDE DEF h
  <2>1. QED BY <1>1, <1>2, SumIs
<1>4. QED BY <1>3 DEF p

LEMMA SumsGrow ==
    ASSUME NEW s \in Seq(Nat), NEW g, Sums(g, s), NEW k \in 0 .. Len(s), NEW m \in k .. Len(s)
    PROVE  g[k] <= g[m]
<1> DEFINE E == {n \in Nat : k + n <= Len(s) => g[k] <= g[k + n]}
<1>1. g \in [0 .. Len(s) -> Nat]
  BY DEF Sums
<1>2. 0 \in E
  BY <1>1
<1>3. ASSUME NEW n \in Nat, n \in E PROVE n + 1 \in E
  <2>1. SUFFICES ASSUME k + (n + 1) <= Len(s) PROVE g[k] <= g[k + (n + 1)]
    OBVIOUS
  <2>2. k + (n + 1) \in 1 .. Len(s) /\ (k + (n + 1)) - 1 = k + n /\ k + n \in 0 .. Len(s)
    BY <2>1
  <2>3. g[k + (n + 1)] = g[k + n] + s[k + (n + 1)]
    BY <2>2 DEF Sums
  <2>4. g[k] <= g[k + n]
    BY <1>3, <2>1
  <2>5. s[k + (n + 1)] \in Nat /\ g[k] \in Nat /\ g[k + n] \in Nat
    <3>1. s[k + (n + 1)] \in Nat
      BY <2>2
    <3>2. g[k] \in Nat
      BY <1>1
    <3>3. g[k + n] \in Nat
      BY <1>1, <2>2
    <3>4. QED BY <3>1, <3>2, <3>3
  <2>6. QED BY <2>3, <2>4, <2>5
<1> HIDE DEF E
<1>4. m - k \in Nat
  OBVIOUS
<1>5. m - k \in E
  BY <1>2, <1>3, <1>4, Induction
<1>6. QED BY <1>4, <1>5 DEF E

-----------------------------------------------------------------------------
(* Reads of the mapping.                                                    *)

LEMMA Parameters ==
    /\ HeadSize \in Nat \ {0} /\ EntrySize \in Nat \ {0} /\ NamesSize \in Nat \ {0}
    /\ PageSize \in Nat \ {0} /\ Stride \in Nat \ {0} /\ CtrSectorSize \in Nat \ {0}
    /\ XtsSectorSize \in Nat \ {0} /\ CipherBlock \in Nat \ {0}
    /\ HeaderSectors \in Nat \ {0} /\ MaxEntries \in Nat /\ MinCoverage \in Nat
    /\ HeaderSectors <= CipherBlock
BY StackAssumption DEF StackAssumption

LEMMA PositionsAre ==
    ASSUME NEW from \in Nat, NEW size \in Nat
    PROVE  /\ Positions(from, size) \in Seq(Nat) /\ Len(Positions(from, size)) = size
           /\ \A i \in 1 .. size : Positions(from, size)[i] = from + i - 1
BY DEF Positions

\* A sequence is known by its length and its bytes.
LEMMA PositionsIs ==
    ASSUME NEW from \in Nat, NEW size \in Nat, NEW bytes \in Seq(Int), Len(bytes) = size,
           \A i \in 1 .. size : bytes[i] = from + i - 1
    PROVE  bytes = Positions(from, size)
BY DEF Positions

LEMMA PositionsJoin ==
    ASSUME NEW from \in Nat, NEW p \in Nat, NEW q \in Nat
    PROVE  Positions(from, p) \o Positions(from + p, q) = Positions(from, p + q)
<1> DEFINE front == Positions(from, p)
           back == Positions(from + p, q)
<1>1. front \in Seq(Nat) /\ Len(front) = p /\ \A i \in 1 .. p : front[i] = from + i - 1
  BY PositionsAre
<1>2. back \in Seq(Nat) /\ Len(back) = q /\ \A i \in 1 .. q : back[i] = (from + p) + i - 1
  <2>1. from + p \in Nat
    OBVIOUS
  <2>2. QED BY <2>1, PositionsAre
<1> HIDE DEF front, back
<1>3. front \o back \in Seq(Int) /\ Len(front \o back) = p + q
  BY <1>1, <1>2
<1>4. ASSUME NEW i \in 1 .. p + q PROVE (front \o back)[i] = from + i - 1
  <2>1. CASE i <= p
    BY <1>1, <1>2, <2>1
  <2>2. CASE i > p
    <3>1. (front \o back)[i] = back[i - p] /\ i - p \in 1 .. q
      BY <1>1, <1>2, <2>2
    <3>2. back[i - p] = (from + p) + (i - p) - 1
      BY <1>2, <3>1
    <3>3. QED BY <3>1, <3>2
  <2>3. i \in Int /\ p \in Int
    OBVIOUS
  <2>4. i <= p \/ i > p
    BY <2>3
  <2>5. QED BY <2>1, <2>2, <2>4, Zenon
<1>5. front \o back = Positions(from, p + q)
  <2>1. p + q \in Nat
    OBVIOUS
  <2>2. QED BY <1>3, <1>4, <2>1, PositionsIs
<1>6. QED BY <1>5 DEF front, back

LEMMA HugeReadIs ==
    ASSUME NEW size \in Nat, NEW offset \in Nat, PackageSize \in Nat, MapSize \in Nat,
           PackageSize <= MapSize, offset + size <= PackageSize
    PROVE  HugeRead(size, offset) = Positions(offset, size)
BY DEF HugeRead, Positions

\* Whatever is asked for, bytes come back.
LEMMA HugeReadType ==
    ASSUME NEW size \in Int, NEW offset \in Int, PackageSize \in Nat, MapSize \in Nat
    PROVE  HugeRead(size, offset) \in Seq(Int)
<1>1. Thrown \in Seq(Int)
  BY DEF Thrown, Garbage
<1>2. Zero \in Int
  BY DEF Zero
<1> DEFINE read == [i \in 1 .. size |-> IF offset + i <= PackageSize THEN offset + i - 1 ELSE Zero]
<1>3. read \in Seq(Int)
  <2>1. CASE size \in Nat
    BY <1>2, <2>1
  <2>2. CASE size \notin Nat
    <3>1. 1 .. size = 1 .. 0
      BY <2>2
    <3>2. read \in [1 .. 0 -> Int]
      BY <3>1
    <3>3. QED BY <3>2
  <2>3. QED BY <2>1, <2>2
<1>4. QED BY <1>1, <1>3 DEF HugeRead

LEMMA FasterIs ==
    ASSUME NEW size \in Nat, NEW offset \in Nat, PackageSize \in Nat, MapSize \in Nat,
           PackageSize <= MapSize, offset + size <= PackageSize
    PROVE  ReadTypeFaster(size, offset) = Positions(offset, size)
<1> DEFINE turns == (size + Stride - 1) \div Stride
           read(bytes, turn) == bytes \o HugeRead(Least(size - Len(bytes), Stride), StrideAt(offset, turn))
           after == CHOOSE after : after =
                        [turn \in 0 .. turns |->
                            IF turn = 0 THEN <<>> ELSE read(after[turn - 1], turn)]
<1>1. ReadTypeFaster(size, offset) = after[turns]
  BY DEF ReadTypeFaster
<1>2. Stride \in Nat \ {0}
  BY Parameters
<1>3. turns \in Nat /\ size <= turns * Stride /\ turns * Stride < size + Stride
  <2>1. /\ (size + Stride - 1) \div Stride \in Nat
        /\ size <= ((size + Stride - 1) \div Stride) * Stride
        /\ ((size + Stride - 1) \div Stride) * Stride < size + Stride
    BY <1>2, RoundUp
  <2>2. QED BY <2>1
<1> HIDE DEF turns
<1>4. ASSUME NEW bytes \in Seq(Int), NEW turn \in Nat PROVE read(bytes, turn) \in Seq(Int)
  <2>1. Least(size - Len(bytes), Stride) \in Int /\ StrideAt(offset, turn) \in Int
    BY <1>2 DEF Least, StrideAt
  <2>2. HugeRead(Least(size - Len(bytes), Stride), StrideAt(offset, turn)) \in Seq(Int)
    BY <2>1, HugeReadType
  <2>3. QED BY <2>2
<1> DEFINE step == [turn \in Nat |-> [bytes \in Seq(Int) |-> read(bytes, turn)]]
<1>5. PICK g : Iterates(g, Seq(Int), <<>>, step)
  <2> HIDE DEF read
  <2>1. step \in [Nat -> [Seq(Int) -> Seq(Int)]]
    BY <1>4
  <2>2. <<>> \in Seq(Int)
    OBVIOUS
  <2> HIDE DEF step
  <2>3. QED BY <2>1, <2>2, Recursion
<1>6. after = [turn \in 0 .. turns |-> IF turn = 0 THEN <<>> ELSE read(after[turn - 1], turn)]
  <2> DEFINE f == [turn \in 0 .. turns |-> g[turn]]
  <2> HIDE DEF read
  <2>1. g[0] = <<>> /\ \A n \in Nat : g[n] \in Seq(Int) /\ g[n + 1] = step[n + 1][g[n]]
    BY <1>5 DEF Iterates
  <2>2. ASSUME NEW turn \in 1 .. turns PROVE f[turn] = read(f[turn - 1], turn)
    <3>1. turn - 1 \in Nat /\ (turn - 1) + 1 = turn /\ turn \in Nat /\ turn \in 0 .. turns
          /\ turn - 1 \in 0 .. turns
      BY <1>3
    <3>2. g[turn] = step[turn][g[turn - 1]] /\ g[turn - 1] \in Seq(Int)
      BY <2>1, <3>1
    <3>3. step[turn][g[turn - 1]] = read(g[turn - 1], turn)
      BY <3>1, <3>2
    <3>4. QED BY <3>1, <3>2, <3>3
  <2>3. f = [turn \in 0 .. turns |-> IF turn = 0 THEN <<>> ELSE read(f[turn - 1], turn)]
    <3> DEFINE h == [turn \in 0 .. turns |-> IF turn = 0 THEN <<>> ELSE read(f[turn - 1], turn)]
    <3>1. ASSUME NEW turn \in 0 .. turns PROVE f[turn] = h[turn]
      <4>1. CASE turn = 0
        BY <2>1, <4>1
      <4>2. CASE turn # 0
        <5>1. turn \in 1 .. turns
          BY <1>3, <4>2
        <5>2. QED BY <2>2, <4>2, <5>1
      <4>3. QED BY <4>1, <4>2
    <3>2. DOMAIN f = 0 .. turns /\ DOMAIN h = 0 .. turns
      OBVIOUS
    <3>3. QED BY <3>1, <3>2
  <2> HIDE DEF f
  <2>4. QED BY <2>3
<1> HIDE DEF after
<1> DEFINE E == {t \in Nat : t <= turns => after[t] = Positions(offset, Least(size, t * Stride))}
<1>7. 0 \in E
  <2>1. after[0] = <<>>
    BY <1>3, <1>6
  <2>2. Least(size, 0 * Stride) = 0
    BY <1>2 DEF Least
  <2>3. Positions(offset, 0) = <<>>
    BY DEF Positions
  <2>4. QED BY <2>1, <2>2, <2>3
<1>8. ASSUME NEW t \in Nat, t \in E PROVE t + 1 \in E
  <2>1. SUFFICES ASSUME t + 1 <= turns
                 PROVE  after[t + 1] = Positions(offset, Least(size, (t + 1) * Stride))
    OBVIOUS
  <2> DEFINE done == t * Stride
             more == Least(size - done, Stride)
  <2>2. done \in Nat /\ done < size /\ (t + 1) * Stride = done + Stride
    <3>1. (t + 1) * Stride <= turns * Stride
      BY <1>2, <1>3, <2>1, MultiplesGrow
    <3>2. (t + 1) * Stride = done + Stride /\ done \in Nat
      BY <1>2
    <3>3. turns * Stride \in Nat
      BY <1>2, <1>3
    <3> HIDE DEF done
    <3>4. QED BY <1>2, <1>3, <3>1, <3>2, <3>3
  <2>3. after[t] = Positions(offset, done)
    <3>1. after[t] = Positions(offset, Least(size, done))
      BY <1>8, <1>3, <2>1
    <3> HIDE DEF done
    <3>2. Least(size, done) = done
      BY <2>2 DEF Least
    <3>3. QED BY <3>1, <3>2
  <2>4. Len(after[t]) = done
    <3> HIDE DEF done
    <3>1. QED BY <2>2, <2>3, PositionsAre
  <2>5. StrideAt(offset, t + 1) = offset + done
    BY <1>2 DEF StrideAt
  <2>6. after[t + 1] = Positions(offset, done) \o HugeRead(more, offset + done)
    <3>1. t + 1 \in 0 .. turns /\ t + 1 # 0 /\ (t + 1) - 1 = t
      BY <1>3, <2>1
    <3>2. after[t + 1] = read(after[t], t + 1)
      <4> HIDE DEF read
      <4>1. QED BY <1>6, <3>1
    <3>3. after[t + 1] = after[t] \o HugeRead(Least(size - done, Stride), offset + done)
      <4> HIDE DEF done
      <4>1. QED BY <2>4, <2>5, <3>2
    <3>4. QED BY <2>3, <3>3
  <2> HIDE DEF done
  <2>7. more \in Nat /\ done + more <= size /\ Least(size, (t + 1) * Stride) = done + more
    BY <1>2, <2>2 DEF Least
  <2> HIDE DEF more
  <2>8. HugeRead(more, offset + done) = Positions(offset + done, more)
    <3>1. offset + done \in Nat /\ (offset + done) + more <= PackageSize
      BY <2>2, <2>7
    <3>2. QED BY <2>7, <3>1, HugeReadIs
  <2>9. Positions(offset, done) \o Positions(offset + done, more) = Positions(offset, done + more)
    <3>1. offset \in Nat /\ done \in Nat /\ more \in Nat
      BY <2>2, <2>7
    <3>2. QED BY <3>1, PositionsJoin
  <2>10. QED BY <2>6, <2>7, <2>8, <2>9
<1>9. turns \in E
  <2> HIDE DEF E
  <2>1. QED BY <1>3, <1>7, <1>8, Induction
<1>10. Least(size, turns * Stride) = size
  <2>1. turns * Stride \in Nat
    BY <1>2, <1>3
  <2>2. QED BY <1>3, <2>1 DEF Least
<1>11. QED BY <1>1, <1>3, <1>9, <1>10

-----------------------------------------------------------------------------
(* The open file.                                                           *)

\* What is open was opened with the table of this package.
FilesInv ==
    /\ sizes \in Partitions /\ sectorsz = XtsSectorSize
    /\ \/ entry = Closed
       \/ \E k \in 1 .. EntriesRead :
            entry = [index |-> k, begin |-> DataOffset + Sum(SubSeq(sizes, 1, k - 1)), size |-> sizes[k]]
    /\ \/ section = Closed
       \/ /\ entry # Closed
          /\ section \in [kind : Kinds, starts : Nat, size : Nat]
          /\ section.starts % CtrSectorSize = 0 /\ section.starts + section.size <= entry.size

LEMMA PackageType ==
    ASSUME sizes \in Partitions
    PROVE  /\ sizes \in Seq(Nat) /\ PackageSize \in Nat /\ MapSize \in Nat /\ PackageSize <= MapSize
           /\ EntriesRead \in 0 .. Len(sizes) /\ (TableRead => EntriesRead = Len(sizes))
<1>1. sizes \in Seq(Nat)
  BY StackAssumption DEF StackAssumption
<1>2. PICK g : Sums(g, sizes)
  BY <1>1, SumsExist
<1>3. Sum(sizes) \in Nat
  <2>1. Sum(sizes) = g[Len(sizes)]
    BY <1>1, <1>2, SumIs
  <2>2. QED BY <1>1, <1>2, <2>1 DEF Sums
<1>4. PackageSize \in Nat
  <2>1. Len(sizes) * EntrySize \in Nat
    BY <1>1, Parameters
  <2>2. QED BY <1>3, <2>1, Parameters DEF PackageSize
<1>5. MapSize \in Nat /\ PackageSize <= MapSize
  <2> DEFINE pages == (PackageSize + PageSize - 1) \div PageSize
  <2>1. pages \in Nat /\ PackageSize <= pages * PageSize
    BY <1>4, Parameters, RoundUp
  <2>2. MapSize = pages * PageSize
    BY DEF MapSize
  <2> HIDE DEF pages
  <2>3. QED BY <2>1, <2>2, Parameters
<1>6. EntriesRead \in 0 .. Len(sizes) /\ (TableRead => EntriesRead = Len(sizes))
  BY <1>1, Parameters DEF EntriesRead, Least, TableRead
<1>7. QED BY <1>1, <1>4, <1>5, <1>6

\* A listed file lies within the package, and where the package has it if the table
\* was read to its end.
LEMMA ListedInPackage ==
    ASSUME sizes \in Partitions, NEW k \in 1 .. EntriesRead
    PROVE  LET begin == DataOffset + Sum(SubSeq(sizes, 1, k - 1))
           IN  /\ begin \in Nat /\ sizes[k] \in Nat /\ begin + sizes[k] <= PackageSize
               /\ TableRead => begin = FileBegin(k)
<1>1. /\ sizes \in Seq(Nat) /\ EntriesRead \in 0 .. Len(sizes) /\ (TableRead => EntriesRead = Len(sizes))
      /\ PackageSize \in Nat
  BY PackageType
<1>2. PICK g : Sums(g, sizes)
  BY <1>1, SumsExist
<1>3. k - 1 \in 0 .. Len(sizes) /\ k \in 1 .. Len(sizes)
  BY <1>1
<1>4. Sum(SubSeq(sizes, 1, k - 1)) = g[k - 1] /\ Sum(sizes) = g[Len(sizes)]
  BY <1>1, <1>2, <1>3, SumOfPrefix, SumIs
<1>5. g[k] = g[k - 1] + sizes[k]
  BY <1>2, <1>3 DEF Sums
<1>6. g[k] <= g[Len(sizes)]
  <2>1. k \in 0 .. Len(sizes) /\ Len(sizes) \in k .. Len(sizes)
    BY <1>1, <1>3
  <2>2. QED BY <1>1, <1>2, <2>1, SumsGrow
<1>7. g[k - 1] \in Nat /\ g[k] \in Nat /\ g[Len(sizes)] \in Nat /\ sizes[k] \in Nat
  <2>1. g \in [0 .. Len(sizes) -> Nat]
    BY <1>2 DEF Sums
  <2>2. Len(sizes) \in 0 .. Len(sizes) /\ k \in 0 .. Len(sizes)
    BY <1>1, <1>3
  <2>3. g[k - 1] \in Nat /\ g[k] \in Nat /\ g[Len(sizes)] \in Nat
    BY <1>3, <2>1, <2>2
  <2>4. sizes[k] \in Nat
    BY <1>1, <1>3
  <2>5. QED BY <2>3, <2>4
<1>8. /\ EntriesRead * EntrySize \in Nat /\ Len(sizes) * EntrySize \in Nat
      /\ EntriesRead * EntrySize <= Len(sizes) * EntrySize
  BY <1>1, Parameters, MultiplesGrow
<1>9. DataOffset \in Nat /\ DataOffset + g[Len(sizes)] <= PackageSize
  <2>1. DataOffset \in Nat
    BY <1>8, Parameters DEF DataOffset
  <2>2. PackageSize = HeadSize + Len(sizes) * EntrySize + NamesSize + g[Len(sizes)]
    BY <1>4 DEF PackageSize
  <2>3. DataOffset = HeadSize + EntriesRead * EntrySize + NamesSize
    BY DEF DataOffset
  <2>4. DataOffset + g[Len(sizes)] <= PackageSize
    BY <1>7, <1>8, <2>2, <2>3, Parameters
  <2>5. QED BY <2>1, <2>4
<1>10. TableRead => DataOffset + Sum(SubSeq(sizes, 1, k - 1)) = FileBegin(k)
  BY <1>1 DEF DataOffset, FileBegin
<1> DEFINE begin == DataOffset + Sum(SubSeq(sizes, 1, k - 1))
<1>11. begin \in Nat /\ begin + sizes[k] <= PackageSize
  <2>1. begin = DataOffset + g[k - 1]
    BY <1>4
  <2> HIDE DEF begin
  <2>2. begin \in Nat
    BY <1>7, <1>9, <2>1
  <2>3. begin + sizes[k] = DataOffset + g[k]
    BY <1>5, <1>7, <1>9, <2>1
  <2>4. DataOffset + g[k] <= PackageSize
    BY <1>1, <1>6, <1>7, <1>9
  <2>5. QED BY <2>2, <2>3, <2>4
<1>12. QED BY <1>7, <1>10, <1>11

LEMMA EntryInPackage ==
    ASSUME FilesInv, entry # Closed
    PROVE  /\ entry.begin \in Nat /\ entry.size \in Nat /\ entry.begin + entry.size <= PackageSize
           /\ TableRead => entry.begin = Archive
<1>1. PICK k \in 1 .. EntriesRead :
        entry = [index |-> k, begin |-> DataOffset + Sum(SubSeq(sizes, 1, k - 1)), size |-> sizes[k]]
  BY DEF FilesInv
<1> DEFINE begin == DataOffset + Sum(SubSeq(sizes, 1, k - 1))
<1>2. /\ begin \in Nat /\ sizes[k] \in Nat /\ begin + sizes[k] <= PackageSize
      /\ TableRead => begin = FileBegin(k)
  <2>1. sizes \in Partitions
    BY DEF FilesInv
  <2>2. QED BY <2>1, ListedInPackage
<1>3. entry.index = k /\ entry.begin = begin /\ entry.size = sizes[k]
  BY <1>1
<1> HIDE DEF begin
<1>4. QED BY <1>2, <1>3 DEF Archive

LEMMA EntryReadIs ==
    ASSUME FilesInv, entry # Closed, NEW size \in Nat, NEW offset \in Nat
    PROVE  EntryRead(size, offset) =
               IF offset + size <= entry.size THEN Positions(entry.begin + offset, size) ELSE <<>>
<1>1. entry.begin \in Nat /\ entry.size \in Nat /\ entry.begin + entry.size <= PackageSize
  BY EntryInPackage
<1>2. PackageSize \in Nat /\ MapSize \in Nat /\ PackageSize <= MapSize
  BY PackageType DEF FilesInv
<1>3. CASE offset + size <= entry.size
  <2>1. entry.begin + offset \in Nat /\ (entry.begin + offset) + size <= PackageSize
    BY <1>1, <1>2, <1>3
  <2>2. ReadTypeFaster(size, entry.begin + offset) = Positions(entry.begin + offset, size)
    BY <1>2, <2>1, FasterIs
  <2>3. ~CrossesEnd(size, offset)
    BY <1>1, <1>3 DEF CrossesEnd
  <2>4. QED BY <1>3, <2>2, <2>3 DEF EntryRead
<1>4. CASE ~(offset + size <= entry.size)
  <2>1. CrossesEnd(size, offset)
    BY <1>1, <1>4 DEF CrossesEnd
  <2>2. QED BY <1>4, <2>1 DEF EntryRead
<1>5. QED BY <1>3, <1>4

-----------------------------------------------------------------------------
(* The archive in it.                                                       *)

LEMMA FilesType ==
    ASSUME FilesInv
    PROVE  /\ entry # Closed => entry.begin \in Nat /\ entry.size \in Nat
           /\ section # Closed => /\ entry # Closed /\ section.starts \in Nat /\ section.size \in Nat
                                  /\ section.starts % CtrSectorSize = 0
                                  /\ section.starts + section.size <= entry.size
<1>1. entry # Closed => entry.begin \in Nat /\ entry.size \in Nat
  BY EntryInPackage
<1>2. QED BY <1>1 DEF FilesInv

\* A header's sector leaves the size of sectors as it is.
LEMMA HeaderSector ==
    ASSUME NEW part \in HeaderParts
    PROVE  /\ part[1] \in Nat /\ part[2] \in 1 .. 2
           /\ (part[1] * XtsSectorSize) \div XtsSectorSize = part[1]
           /\ sectorsz = XtsSectorSize => SectorAfter(part[1]) = XtsSectorSize
<1>1. part[1] \in Nat /\ part[2] \in 1 .. 2 /\ (part[1] = 0 \/ part[1] \in 2 .. HeaderSectors - 1)
  BY Parameters DEF HeaderParts
<1> DEFINE first == part[1]
<1> HIDE DEF first
<1>2. first \in Nat /\ (first = 0 \/ first \in 2 .. HeaderSectors - 1)
  BY <1>1 DEF first
<1>3. (first * XtsSectorSize) \div XtsSectorSize = first
  BY <1>2, Parameters, DivisionIs
<1>4. first > 0 => first % CipherBlock = first
  BY <1>2, Parameters
<1>5. sectorsz = XtsSectorSize => SectorAfter(first) = XtsSectorSize
  BY <1>2, <1>4 DEF SectorAfter
<1>6. QED BY <1>1, <1>3, <1>5 DEF first

LEMMA XtsDeciphers ==
    ASSUME FilesInv, entry # Closed, TableRead, NEW first \in Nat, NEW size \in Nat
    PROVE  LET offset == first * XtsSectorSize
           IN  XtsDecipher(Positions(entry.begin + offset, size), first, XtsSectorSize)
                   = Positions(Archive + offset, size)
<1> DEFINE offset == first * XtsSectorSize
           bytes == Positions(entry.begin + offset, size)
           plain == XtsDecipher(bytes, first, XtsSectorSize)
<1>1. entry.begin \in Nat /\ entry.begin = Archive /\ offset \in Nat
  BY EntryInPackage, Parameters
<1>2. /\ bytes \in Seq(Nat) /\ Len(bytes) = size
      /\ \A i \in 1 .. size : bytes[i] = (entry.begin + offset) + i - 1
  <2>1. entry.begin + offset \in Nat
    BY <1>1
  <2> HIDE DEF offset
  <2>2. QED BY <2>1, PositionsAre
<1> HIDE DEF bytes
<1>3. \A i \in 1 .. size : bytes[i] - Archive = offset + i - 1
  <2> HIDE DEF offset
  <2>1. QED BY <1>1, <1>2
<1>4. DOMAIN bytes = 1 .. size
  BY <1>2
<1>5. plain = [i \in 1 .. size |-> bytes[i]]
  BY <1>3, <1>4 DEF XtsDecipher
<1>6. bytes = [i \in 1 .. size |-> bytes[i]]
  BY <1>2
<1>7. plain = bytes
  BY <1>5, <1>6
<1>8. QED BY <1>1, <1>7 DEF bytes

LEMMA Deciphers ==
    ASSUME FilesInv, entry # Closed, TableRead, NEW at \in Nat, NEW counter \in Nat,
           counter * CtrSectorSize = at, NEW size \in Nat
    PROVE  Decipher(Positions(entry.begin + at, size), counter) = Positions(Archive + at, size)
<1> DEFINE bytes == Positions(entry.begin + at, size)
           plain == Decipher(bytes, counter)
<1>1. entry.begin \in Nat /\ entry.begin = Archive
  BY EntryInPackage
<1>2. /\ bytes \in Seq(Nat) /\ Len(bytes) = size
      /\ \A i \in 1 .. size : bytes[i] = (entry.begin + at) + i - 1
  <2>1. entry.begin + at \in Nat
    BY <1>1
  <2>2. QED BY <2>1, PositionsAre
<1> HIDE DEF bytes
<1>3. \A i \in 1 .. size : bytes[i] - Archive = at + i - 1
  BY <1>1, <1>2
<1>4. DOMAIN bytes = 1 .. size
  BY <1>2
<1>5. plain = [i \in 1 .. size |-> bytes[i]]
  BY <1>3, <1>4 DEF Decipher
<1>6. bytes = [i \in 1 .. size |-> bytes[i]]
  BY <1>2
<1>7. plain = bytes
  BY <1>5, <1>6
<1>8. QED BY <1>1, <1>7 DEF bytes

\* The bytes of a section lie where the section starts in the file of the archive.
LEMMA SectionBytesIs ==
    ASSUME FilesInv, section # Closed, NEW size \in Nat, NEW offset \in Nat,
           offset + size <= section.size
    PROVE  SectionBytes(size, offset) = Positions(entry.begin + (section.starts + offset), size)
<1> DEFINE starts == section.starts
           at == starts + offset
<1>1. /\ entry # Closed /\ starts \in Nat /\ section.size \in Nat
      /\ starts + section.size <= entry.size /\ entry.begin \in Nat /\ entry.size \in Nat
  BY FilesType
<1>2. at \in Nat /\ at + size <= entry.size
  <2> HIDE DEF starts
  <2>1. QED BY <1>1
<1>3. EntryRead(size, at) = Positions(entry.begin + at, size)
  BY <1>1, <1>2, EntryReadIs
<1>4. QED BY <1>1, <1>3 DEF SectionBytes

LEMMA AlignedReadIs ==
    ASSUME FilesInv, section # Closed, TableRead, NEW size \in Nat, NEW offset \in Nat,
           offset % CtrSectorSize = 0, offset + size <= section.size
    PROVE  /\ SectionBytes(size, offset) = Positions(entry.begin + (section.starts + offset), size)
           /\ AlignedRead(size, offset) = Positions(Archive + (section.starts + offset), size)
<1> DEFINE starts == section.starts
           at == starts + offset
<1>1. /\ entry # Closed /\ starts \in Nat /\ section.size \in Nat /\ starts % CtrSectorSize = 0
      /\ starts + section.size <= entry.size /\ entry.begin \in Nat /\ entry.size \in Nat
  BY FilesType
<1>2. at \in Nat /\ at + size <= entry.size
  <2> HIDE DEF starts
  <2>1. QED BY <1>1
<1>4. SectionBytes(size, offset) = Positions(entry.begin + at, size)
  BY SectionBytesIs
<1>5. Counter(offset) \in Nat /\ Counter(offset) * CtrSectorSize = at
  <2> DEFINE p == offset \div CtrSectorSize
             q == starts \div CtrSectorSize
  <2>1. p \in Nat /\ offset = p * CtrSectorSize + (offset % CtrSectorSize)
    BY Division, Parameters
  <2>2. q \in Nat /\ starts = q * CtrSectorSize + (starts % CtrSectorSize)
    BY <1>1, Division, Parameters
  <2>3. Counter(offset) = p + q
    BY DEF Counter
  <2> HIDE DEF p, q, starts
  <2>4. p * CtrSectorSize \in Nat /\ q * CtrSectorSize \in Nat
    BY <2>1, <2>2, Parameters
  <2>5. offset = p * CtrSectorSize /\ starts = q * CtrSectorSize
    BY <1>1, <2>1, <2>2, <2>4
  <2>6. (p + q) * CtrSectorSize = p * CtrSectorSize + q * CtrSectorSize
    BY <2>1, <2>2, Parameters, MultiplesAdd
  <2>7. QED BY <2>1, <2>2, <2>3, <2>4, <2>5, <2>6
<1>6. AlignedRead(size, offset) = Decipher(Positions(entry.begin + at, size), Counter(offset))
  BY <1>4 DEF AlignedRead
<1>7. Decipher(Positions(entry.begin + at, size), Counter(offset)) = Positions(Archive + at, size)
  <2> HIDE DEF at
  <2>1. QED BY <1>1, <1>2, <1>5, Deciphers
<1>8. QED BY <1>4, <1>6, <1>7

LEMMA SectorPart ==
    ASSUME NEW from \in Nat, NEW first \in Nat \ {0}, NEW last \in Nat,
           last <= CtrSectorSize, first <= last + 1
    PROVE  SubSeq(Positions(from, CtrSectorSize), first, last) = Positions(from + first - 1, last - first + 1)
<1> DEFINE n == CtrSectorSize
           all == Positions(from, n)
           part == SubSeq(all, first, last)
           at == from + first - 1
           m == last - first + 1
<1>1. at \in Nat /\ m \in Nat
  OBVIOUS
<1>2. n \in Nat
  BY Parameters
<1>3. all \in Seq(Nat) /\ Len(all) = n /\ \A i \in 1 .. n : all[i] = from + i - 1
  BY <1>2, PositionsAre
<1> HIDE DEF all, n
<1>4. part \in Seq(Int) /\ Len(part) = m /\ \A i \in 1 .. m : part[i] = all[first + i - 1]
  <2>1. last <= n
    BY DEF n
  <2>2. QED BY <1>2, <1>3, <2>1
<1> HIDE DEF part
<1>5. ASSUME NEW i \in 1 .. m PROVE part[i] = at + i - 1
  <2>1. first + i - 1 \in 1 .. n
    BY <1>2 DEF n
  <2>2. all[first + i - 1] = from + (first + i - 1) - 1
    BY <1>3, <2>1
  <2>3. QED BY <1>4, <2>2
<1> HIDE DEF at, m
<1>6. part = Positions(at, m)
  BY <1>1, <1>4, <1>5, PositionsIs
<1>7. QED BY <1>6 DEF part, all, at, m, n

LEMMA SectorAroundIs ==
    ASSUME FilesInv, section # Closed, TableRead, NEW offset \in Nat, SectorIsWhole(offset)
    PROVE  SectorAround(offset) = Positions(Archive + (section.starts + (offset - (offset % CtrSectorSize))), CtrSectorSize)
<1> DEFINE startblock == offset - (offset % CtrSectorSize)
           at == section.starts + startblock
<1>1. CtrSectorSize \in Nat \ {0}
  BY Parameters
<1>2. startblock \in Nat /\ startblock % CtrSectorSize = 0
  <2> DEFINE p == offset \div CtrSectorSize
  <2>1. /\ p \in Nat /\ (offset % CtrSectorSize) \in 0 .. CtrSectorSize - 1
        /\ offset = p * CtrSectorSize + (offset % CtrSectorSize)
    BY <1>1, Division
  <2> HIDE DEF p
  <2>2. (p * CtrSectorSize) % CtrSectorSize = 0
    BY <1>1, <2>1, DivisionIs
  <2>3. p * CtrSectorSize \in Nat
    BY <1>1, <2>1
  <2>4. startblock = p * CtrSectorSize
    BY <1>1, <2>1, <2>3
  <2>5. QED BY <2>2, <2>3, <2>4
<1>3. startblock + CtrSectorSize <= section.size
  BY DEF SectorIsWhole
<1> HIDE DEF startblock
<1>4. /\ SectionBytes(CtrSectorSize, startblock) = Positions(entry.begin + at, CtrSectorSize)
      /\ AlignedRead(CtrSectorSize, startblock) = Positions(Archive + at, CtrSectorSize)
  BY <1>1, <1>2, <1>3, AlignedReadIs
<1>5. SectionBytes(CtrSectorSize, startblock) # <<>>
  <2>1. DOMAIN Positions(entry.begin + at, CtrSectorSize) = 1 .. CtrSectorSize
    BY DEF Positions
  <2>2. 1 \in DOMAIN Positions(entry.begin + at, CtrSectorSize)
    BY <1>1, <2>1
  <2>3. QED BY <1>4, <2>2
<1>6. SectorAround(offset) = Decipher(SectionBytes(CtrSectorSize, startblock), Counter(startblock))
  BY <1>5 DEF SectorAround, startblock
<1>7. SectorAround(offset) = Positions(Archive + at, CtrSectorSize)
  BY <1>4, <1>6 DEF AlignedRead
<1>8. QED BY <1>7 DEF startblock

\* A read in counter mode is deciphered, wherever it begins and ends.
LEMMA CtrReadIs ==
    ASSUME FilesInv, section # Closed, TableRead, NEW size \in Nat, NEW offset \in Nat,
           offset + size <= section.size,
           offset % CtrSectorSize = 0 \/ SectorIsWhole(offset)
    PROVE  CtrRead(size, offset) = Positions(Archive + section.starts + offset, size)
<1> DEFINE aligment == offset % CtrSectorSize
           padding == CtrSectorSize - aligment
           from == Archive + section.starts + offset
<1>1. /\ entry # Closed /\ section.starts \in Nat /\ section.size \in Nat
      /\ entry.begin \in Nat /\ Archive = entry.begin
  BY FilesType, EntryInPackage
<1>2. CtrSectorSize \in Nat \ {0} /\ aligment \in 0 .. CtrSectorSize - 1
  BY Parameters, Division
<1>3. from \in Nat /\ from = Archive + (section.starts + offset)
  BY <1>1
<1>4. CASE aligment = 0
  <2>1. CtrRead(size, offset) = AlignedRead(size, offset)
    BY <1>1, <1>4 DEF CtrRead
  <2>2. AlignedRead(size, offset) = Positions(Archive + (section.starts + offset), size)
    BY <1>4, AlignedReadIs
  <2>3. QED BY <1>3, <2>1, <2>2
<1>5. CASE aligment # 0
  <2> DEFINE front == Least(size, padding)
             part == SubSeq(SectorAround(offset), aligment + 1, aligment + front)
             tail == IF size > padding THEN AlignedRead(size - padding, offset + padding) ELSE <<>>
  <2>1. CtrRead(size, offset) = part \o tail
    <3>1. ~(offset + size > section.size)
      BY <1>1
    <3>2. QED BY <3>1, <1>5, Zenon DEF CtrRead
  <2>2. padding \in Nat /\ front \in Nat /\ aligment + front <= CtrSectorSize
    BY <1>2 DEF Least
  <2>3. part = Positions(from, front)
    <3> DEFINE around == Archive + (section.starts + (offset - aligment))
    <3>1. SectorAround(offset) = Positions(around, CtrSectorSize)
      BY <1>5, SectorAroundIs
    <3>2. around \in Nat /\ around + aligment = from
      <4>1. offset - aligment \in Nat
        <5>1. offset \div CtrSectorSize \in Nat
              /\ offset = (offset \div CtrSectorSize) * CtrSectorSize + aligment
          BY <1>2, Division
        <5>2. (offset \div CtrSectorSize) * CtrSectorSize \in Nat
          BY <1>2, <5>1
        <5> HIDE DEF aligment
        <5>3. QED BY <1>2, <5>1, <5>2
      <4> HIDE DEF aligment
      <4>2. QED BY <1>1, <1>2, <4>1
    <3>0. aligment \in Nat /\ front \in Nat /\ CtrSectorSize \in Nat /\ aligment + front <= CtrSectorSize
      BY <1>2, <2>2
    <3> HIDE DEF around, front, aligment, from
    <3>3. SubSeq(Positions(around, CtrSectorSize), aligment + 1, aligment + front)
              = Positions(around + aligment, front)
      <4> DEFINE lo == aligment + 1
                 hi == aligment + front
      <4>1. lo \in Nat \ {0} /\ hi \in Nat /\ hi <= CtrSectorSize /\ lo <= hi + 1
        BY <3>0
      <4>2. around + lo - 1 = around + aligment /\ hi - lo + 1 = front
        BY <3>0, <3>2
      <4>3. around \in Nat /\ CtrSectorSize \in Nat
        BY <3>0, <3>2
      <4> HIDE DEF lo, hi
      <4>4. SubSeq(Positions(around, CtrSectorSize), lo, hi)
                = Positions(around + lo - 1, hi - lo + 1)
        BY <4>1, <4>3, SectorPart
      <4>5. QED BY <4>2, <4>4 DEF lo, hi
    <3>4. QED BY <3>1, <3>2, <3>3
  <2>4. CASE size > padding
    <3>1. front = padding
      BY <1>2, <2>4 DEF Least
    <3>2. /\ size - padding \in Nat /\ offset + padding \in Nat
          /\ (offset + padding) + (size - padding) <= section.size
      BY <1>1, <2>2, <2>4
    <3>3. (offset + padding) % CtrSectorSize = 0
      <4> DEFINE p == offset \div CtrSectorSize
      <4>1. p \in Nat /\ offset = p * CtrSectorSize + aligment
        BY <1>2, Division
      <4> HIDE DEF p
      <4>2. p + 1 \in Nat /\ (p + 1) * CtrSectorSize = p * CtrSectorSize + CtrSectorSize
            /\ p * CtrSectorSize \in Nat
        BY <1>2, <4>1
      <4>3. ((p + 1) * CtrSectorSize) % CtrSectorSize = 0
        BY <1>2, <4>2, DivisionIs
      <4>4. offset + padding = (p + 1) * CtrSectorSize
        <5> HIDE DEF aligment
        <5>1. QED BY <1>2, <4>1, <4>2
      <4>5. QED BY <4>3, <4>4
    <3> DEFINE rest == size - padding
               next == offset + padding
    <3>4. AlignedRead(rest, next) = Positions(Archive + (section.starts + next), rest)
      <4> HIDE DEF padding
      <4>1. rest \in Nat /\ next \in Nat /\ next % CtrSectorSize = 0 /\ next + rest <= section.size
        BY <3>2, <3>3
      <4> HIDE DEF rest, next
      <4>2. QED BY <4>1, AlignedReadIs
    <3>5. tail = Positions(from + padding, rest)
      <4>1. Archive + (section.starts + next) = from + padding
        <5> HIDE DEF aligment
        <5>1. QED BY <1>1, <1>2, <2>2
      <4>2. tail = AlignedRead(rest, next)
        BY <2>4
      <4>3. QED BY <3>4, <4>1, <4>2
    <3> HIDE DEF padding, from, part, tail
    <3>6. Positions(from, padding) \o Positions(from + padding, rest) = Positions(from, padding + rest)
      BY <1>3, <2>2, <3>2, PositionsJoin
    <3>7. padding + rest = size
      BY <2>2
    <3>8. QED BY <2>1, <2>3, <3>1, <3>5, <3>6, <3>7 DEF from
  <2>5. CASE ~(size > padding)
    <3>1. front = size
      BY <1>2, <2>5 DEF Least
    <3>2. tail = <<>>
      BY <2>5
    <3> HIDE DEF from, part, tail
    <3>3. Positions(from, size) \o <<>> = Positions(from, size)
      BY <1>3, PositionsAre
    <3>4. QED BY <2>1, <2>3, <3>1, <3>2, <3>3 DEF from
  <2>6. QED BY <2>4, <2>5
<1>6. QED BY <1>4, <1>5

\* A read of a section is deciphered, whatever file it is read through.
LEMMA SectionReadIs ==
    ASSUME FilesInv, section # Closed, TableRead, NEW size \in Nat, NEW offset \in Nat,
           offset + size <= section.size, Decipherable(offset)
    PROVE  SectionRead(size, offset) = Positions(Archive + section.starts + offset, size)
<1>1. CASE section.kind = "ctr" /\ (offset % CtrSectorSize = 0 \/ SectorIsWhole(offset))
  <2>1. SectionRead(size, offset) = CtrRead(size, offset)
    BY <1>1, Zenon DEF SectionRead
  <2>2. QED BY <1>1, <2>1, CtrReadIs
<1>2. CASE section.kind = "plain"
  <2>1. SectionRead(size, offset) = SectionBytes(size, offset)
    BY <1>2, Zenon DEF SectionRead
  <2>2. SectionBytes(size, offset) = Positions(entry.begin + (section.starts + offset), size)
    BY SectionBytesIs
  <2>3. /\ section.starts \in Nat /\ entry.begin \in Nat /\ Archive = entry.begin
    BY FilesType, EntryInPackage
  <2>4. entry.begin + (section.starts + offset) = Archive + section.starts + offset
    BY <2>3
  <2>5. QED BY <2>1, <2>2, <2>4
<1>3. QED BY <1>1, <1>2 DEF Decipherable

-----------------------------------------------------------------------------
(* The steps.                                                               *)

IInv == FilesInv /\ EntryIsItsFile /\ ArchiveDeciphered

\* What a read of each kind has to return.
EntryAnswered(size, offset, bytes) ==
    bytes = IF offset + size <= entry.size THEN Positions(entry.begin + offset, size) ELSE <<>>
HeaderAnswered(size, offset, bytes) ==
    TableRead /\ bytes # <<>> => bytes = Positions(Archive + offset, size)
SectionAnswered(size, offset, bytes) ==
    TableRead /\ offset + size <= section.size /\ Decipherable(offset)
    => bytes = Positions(Archive + section.starts + offset, size)

LEMMA InitIInv == Init => IInv
<1> SUFFICES ASSUME Init PROVE IInv
  OBVIOUS
<1>1. FilesInv
  BY DEF Init, FilesInv
<1>2. EntryIsItsFile /\ ArchiveDeciphered
  BY DEF Init, EntryIsItsFile, ArchiveDeciphered, NoRead
<1>3. QED BY <1>1, <1>2 DEF IInv

\* A read changes nothing, the caller is given what its kind has to return.
LEMMA AnswerKept ==
    ASSUME IInv, sizes' = sizes, entry' = entry, section' = section, sectorsz' = XtsSectorSize,
           NEW of, NEW size, NEW offset, NEW bytes, Returns(of, size, offset, bytes),
           \/ of = "entry" /\ EntryAnswered(size, offset, bytes)
           \/ of = "header" /\ HeaderAnswered(size, offset, bytes)
           \/ of = "section" /\ SectionAnswered(size, offset, bytes)
    PROVE  IInv'
<1>1. FilesInv'
  BY DEF IInv, FilesInv, EntriesRead, DataOffset
<1>2. got' = [of |-> of, size |-> size, offset |-> offset, bytes |-> bytes]
  BY DEF Returns
<1>3. /\ got'.of = of /\ got'.size = size /\ got'.offset = offset /\ got'.bytes = bytes
  BY <1>2
<1>4. EntryIsItsFile'
  <2>1. (entry # Closed /\ TableRead =>
             entry.begin = FileBegin(entry.index) /\ entry.size = sizes[entry.index])'
    BY DEF IInv, EntryIsItsFile, TableRead, FileBegin
  <2>2. (got.of = "entry" =>
           got.bytes = IF got.offset + got.size <= entry.size
                       THEN Positions(entry.begin + got.offset, got.size) ELSE <<>>)'
    BY <1>3 DEF EntryAnswered
  <2>3. QED BY <2>1, <2>2 DEF EntryIsItsFile
<1>5. ArchiveDeciphered'
  <2>1. TableRead' = TableRead /\ Archive' = Archive
    BY DEF TableRead, Archive, FileBegin
  <2>2. SUFFICES ASSUME TableRead
        PROVE  /\ of = "header" /\ bytes # <<>> => bytes = Positions(Archive + offset, size)
               /\ of = "section" /\ offset + size <= section.size /\ Decipherable(offset)
                  => bytes = Positions(Archive + section.starts + offset, size)
    BY <1>3, <2>1 DEF ArchiveDeciphered, Decipherable, SectorIsWhole
  <2>3. QED BY <2>2 DEF HeaderAnswered, SectionAnswered
<1>6. QED BY <1>1, <1>4, <1>5 DEF IInv

LEMMA OpenFileStep ==
    ASSUME IInv, NEW k \in DOMAIN sizes, OpenFile(k)
    PROVE  IInv'
<1> DEFINE begin == DataOffset + Sum(SubSeq(sizes, 1, k - 1))
<1>1. /\ entry' = [index |-> k, begin |-> begin, size |-> sizes[k]]
      /\ section' = Closed /\ sectorsz' = XtsSectorSize /\ sizes' = sizes /\ got' = got
      /\ got = NoRead /\ k \in 1 .. EntriesRead
  BY DEF OpenFile, Listed
<1>2. sizes \in Partitions
  BY DEF IInv, FilesInv
<1>3. FilesInv'
  BY <1>1, <1>2 DEF FilesInv, EntriesRead, DataOffset
<1>4. TableRead => begin = FileBegin(k)
  BY <1>1, <1>2, ListedInPackage
<1>5. TableRead' = TableRead /\ FileBegin(k)' = FileBegin(k)
  BY <1>1 DEF TableRead, FileBegin
<1>6. got'.of = "none"
  BY <1>1 DEF NoRead
<1>7. EntryIsItsFile'
  <2> HIDE DEF begin
  <2>1. entry'.index = k /\ entry'.begin = begin /\ entry'.size = sizes[k]
    BY <1>1
  <2>2. FileBegin(k)' = HeadSize + Len(sizes') * EntrySize + NamesSize + Sum(SubSeq(sizes', 1, k - 1))
    BY DEF FileBegin
  <2>3. QED BY <1>1, <1>4, <1>5, <1>6, <2>1 DEF EntryIsItsFile, FileBegin
<1>8. ArchiveDeciphered'
  BY <1>6 DEF ArchiveDeciphered
<1>9. QED BY <1>3, <1>7, <1>8 DEF IInv

LEMMA ReadEntryStep ==
    ASSUME IInv, NEW size \in Nat, NEW offset \in Nat, ReadEntry(size, offset)
    PROVE  IInv'
<1>1. EntryAnswered(size, offset, EntryRead(size, offset))
  BY EntryReadIs DEF IInv, ReadEntry, EntryAnswered
<1>2. /\ sizes' = sizes /\ entry' = entry /\ section' = section /\ sectorsz' = XtsSectorSize
      /\ Returns("entry", size, offset, EntryRead(size, offset))
  BY DEF IInv, FilesInv, ReadEntry
<1>3. QED BY <1>1, <1>2, AnswerKept

LEMMA ReadHeaderStep ==
    ASSUME IInv, NEW part \in HeaderParts, ReadHeader(part[1], part[2])
    PROVE  IInv'
<1> DEFINE first == part[1]
           size == part[2] * XtsSectorSize
           offset == first * XtsSectorSize
           bytes == EntryRead(size, offset)
<1>1. FilesInv /\ entry # Closed /\ sectorsz = XtsSectorSize
  BY DEF IInv, FilesInv, ReadHeader
<1>2. first \in Nat /\ part[2] \in Nat /\ offset \div sectorsz = first /\ SectorAfter(first) = XtsSectorSize
  BY <1>1, HeaderSector
<1>3. size \in Nat /\ offset \in Nat
  BY <1>2, Parameters
<1>4. bytes # <<>> => bytes = Positions(entry.begin + offset, size)
  BY <1>1, <1>3, EntryReadIs
<1> DEFINE plain == IF bytes = <<>> THEN bytes ELSE XtsDecipher(bytes, first, XtsSectorSize)
<1>5. /\ sizes' = sizes /\ entry' = entry /\ section' = section /\ sectorsz' = XtsSectorSize
      /\ Returns("header", size, offset, plain)
  BY <1>1, <1>2, Zenon DEF ReadHeader
<1>6. HeaderAnswered(size, offset, plain)
  <2>1. TableRead => XtsDecipher(Positions(entry.begin + offset, size), first, XtsSectorSize)
                         = Positions(Archive + offset, size)
    BY <1>1, <1>2, <1>3, XtsDeciphers
  <2> HIDE DEF bytes, size, offset
  <2>2. QED BY <1>4, <2>1 DEF HeaderAnswered
<1> HIDE DEF plain, size, offset
<1>7. QED BY <1>5, <1>6, AnswerKept

LEMMA OpenSectionStep ==
    ASSUME IInv, NEW kind \in Kinds, NEW starts \in Nat, NEW size \in Nat,
           OpenSection(kind, starts, size)
    PROVE  IInv'
<1>1. /\ section' = [kind |-> kind, starts |-> starts, size |-> size] /\ starts % CtrSectorSize = 0
      /\ starts + size <= entry.size /\ entry # Closed
      /\ sizes' = sizes /\ entry' = entry /\ sectorsz' = sectorsz /\ got' = got /\ got = NoRead
  BY DEF OpenSection
<1>2. FilesInv'
  BY <1>1 DEF IInv, FilesInv, EntriesRead, DataOffset
<1>3. got'.of = "none"
  BY <1>1 DEF NoRead
<1>4. EntryIsItsFile'
  BY <1>1, <1>3 DEF IInv, EntryIsItsFile, TableRead, FileBegin
<1>5. ArchiveDeciphered'
  BY <1>3 DEF ArchiveDeciphered
<1>6. QED BY <1>2, <1>4, <1>5 DEF IInv

LEMMA ReadSectionStep ==
    ASSUME IInv, NEW size \in Nat, NEW offset \in Nat, ReadSection(size, offset)
    PROVE  IInv'
<1>1. SectionAnswered(size, offset, SectionRead(size, offset))
  BY SectionReadIs DEF IInv, ReadSection, SectionAnswered
<1>2. /\ sizes' = sizes /\ entry' = entry /\ section' = section /\ sectorsz' = XtsSectorSize
      /\ Returns("section", size, offset, SectionRead(size, offset))
  BY DEF IInv, FilesInv, ReadSection
<1>3. QED BY <1>1, <1>2, AnswerKept

LEMMA ConsumeStep == ASSUME IInv, Consume PROVE IInv'
<1>1. sizes' = sizes /\ entry' = entry /\ section' = section /\ sectorsz' = sectorsz /\ got' = NoRead
  BY DEF Consume
<1>2. FilesInv'
  BY <1>1 DEF IInv, FilesInv, EntriesRead, DataOffset
<1>3. got'.of = "none"
  BY <1>1 DEF NoRead
<1>4. EntryIsItsFile'
  BY <1>1, <1>3 DEF IInv, EntryIsItsFile, TableRead, FileBegin
<1>5. ArchiveDeciphered'
  BY <1>3 DEF ArchiveDeciphered
<1>6. QED BY <1>2, <1>4, <1>5 DEF IInv

LEMMA NextIInv == IInv /\ [Next]_vars => IInv'
<1> SUFFICES ASSUME IInv, [Next]_vars PROVE IInv'
  OBVIOUS
<1>1. CASE UNCHANGED vars
  <2>1. sizes' = sizes /\ entry' = entry /\ section' = section /\ sectorsz' = sectorsz /\ got' = got
    BY <1>1 DEF vars
  <2>2. FilesInv'
    BY <2>1 DEF IInv, FilesInv, EntriesRead, DataOffset
  <2>3. EntryIsItsFile' /\ ArchiveDeciphered'
    BY <2>1 DEF IInv, EntryIsItsFile, ArchiveDeciphered, TableRead, Archive, FileBegin, Decipherable, SectorIsWhole
  <2>4. QED BY <2>2, <2>3 DEF IInv
<1>2. entry.size \in Nat /\ section.size \in Nat
  <2>1. Closed.size = 0
    BY DEF Closed
  <2>2. QED BY <2>1, FilesType DEF IInv
<1>3. CASE Consume
  BY <1>3, ConsumeStep
<1>4. CASE \E k \in DOMAIN sizes : OpenFile(k)
  BY <1>4, OpenFileStep
<1>5. CASE \E part \in HeaderParts : ReadHeader(part[1], part[2])
  BY <1>5, ReadHeaderStep
<1>6. CASE \E kind \in Kinds, starts, size \in 1 .. entry.size : OpenSection(kind, starts, size)
  <2>1. \A n \in 1 .. entry.size : n \in Nat
    BY <1>2
  <2>2. QED BY <1>6, <2>1, OpenSectionStep
<1>7. CASE \E size \in 1 .. entry.size + 1, offset \in 0 .. entry.size : ReadEntry(size, offset)
  <2>1. \A n \in 0 .. entry.size + 1 : n \in Nat
    BY <1>2
  <2>2. PICK size \in 1 .. entry.size + 1, offset \in 0 .. entry.size : ReadEntry(size, offset)
    BY <1>7
  <2>3. size \in Nat /\ offset \in Nat
    BY <1>2
  <2>4. QED BY <2>2, <2>3, ReadEntryStep
<1>8. CASE \E size \in 1 .. section.size + 1, offset \in 0 .. section.size : ReadSection(size, offset)
  <2>1. PICK size \in 1 .. section.size + 1, offset \in 0 .. section.size : ReadSection(size, offset)
    BY <1>8
  <2>2. size \in Nat /\ offset \in Nat
    BY <1>2
  <2>3. QED BY <2>1, <2>2, ReadSectionStep
<1>9. QED BY <1>1, <1>3, <1>4, <1>5, <1>6, <1>7, <1>8 DEF Next

LEMMA FilesAlways == Spec => []IInv
<1>1. QED BY InitIInv, NextIInv, PTL DEF Spec

\* Of a package of any number of files of any sizes, an open file is the file of its name
\* and lies within the package, and a read returns its bytes, all of them or none, in
\* whatever strides it is read: PartitionFileSystem, OffsetFile and HugeFile together.
THEOREM EntriesAreFiles == Spec => []EntryIsItsFile
<1>1. IInv => EntryIsItsFile
  BY DEF IInv
<1>2. QED BY <1>1, FilesAlways, PTL

\* Of an archive of any size, the sectors of the header and every read of a section that
\* is plain or in counter mode, aligned to the cipher's sectors or not, come back deciphered, in any order of reads:
\* XtsFile and CtrFile over OffsetFile, for all sizes of sectors.
THEOREM ArchivesAreDeciphered == Spec => []ArchiveDeciphered
<1>1. IInv => ArchiveDeciphered
  BY DEF IInv
<1>2. QED BY <1>1, FilesAlways, PTL
=============================================================================
