---------------------------- MODULE ReviewProofs -----------------------------
(***************************************************************************)
(* The reviewer of CI (Review): for every pull request, every diff and     *)
(* every budget, its state keeps its types, the chunks hold the whole diff *)
(* and a green check means that the diff was read.                         *)
(*                                                                         *)
(* The first part says what the recursive functions and the folds of the   *)
(* model compute, by induction over sets of numbers (AllNumbers).  The     *)
(* second states what chunk_diff keeps while it packs, with the lists as   *)
(* parameters, and shows it move by move.  The third is the inductive      *)
(* invariant of the script, Inv: what the listing knows of the pull        *)
(* request, what the chunks hold, and on what a verdict rests.             *)
(***************************************************************************)
EXTENDS Review, FiniteSetTheorems, SequenceTheorems, WellFoundedInduction, TLAPS

-----------------------------------------------------------------------------
(* Induction over sets of numbers, and what the recursive functions compute *)

\* A set of numbers that holds 0 and with a number the next one holds all.
LEMMA AllNumbers ==
  ASSUME NEW X \in SUBSET Nat, 0 \in X, \A n \in X : n + 1 \in X
  PROVE  X = Nat
<1> SUFFICES ASSUME Nat \ X # {} PROVE FALSE
  OBVIOUS
<1> DEFINE R == OpToRel(<, Nat)
<1>1. IsWellFoundedOn(R, Nat)
  BY NatLessThanWellFounded
<1>2. \A x, y \in Nat : x < y => <<x, y>> \in R
  BY DEF OpToRel
<1> HIDE DEF R
<1>3. PICK m \in Nat \ X : \A n \in Nat \ X : ~(<<n, m>> \in R)
  <2>1. Nat \ X \subseteq Nat
    OBVIOUS
  <2>2. QED  BY <1>1, <2>1, WFMin
<1>4. m - 1 \in Nat /\ m - 1 < m
  OBVIOUS
<1>5. m - 1 \in X
  BY <1>2, <1>3, <1>4
<1>6. QED
  BY <1>3, <1>5

\* The same up to n.
LEMMA Upto ==
  ASSUME NEW n \in Nat, NEW X, 0 \in X, \A m \in Nat : m + 1 <= n /\ m \in X => m + 1 \in X
  PROVE  \A m \in 0 .. n : m \in X
<1> DEFINE Y == {m \in Nat : m <= n => m \in X}
<1>1. 0 \in Y
  OBVIOUS
<1>2. ASSUME NEW m \in Y PROVE m + 1 \in Y
  OBVIOUS
<1>3. Y = Nat
  <2>1. Y \in SUBSET Nat
    OBVIOUS
  <2> HIDE DEF Y
  <2>2. QED  BY <1>1, <1>2, <2>1, AllNumbers
<1>4. QED
  BY <1>3

\* How a value follows the one before it, and a function with first value b
Steps(T, n) == [T \X (1 .. n) -> T]
Follows(g, n, b, step) == g[0] = b /\ \A i \in 1 .. n : g[i] = step[<<g[i - 1], i>>]

\* Every list of steps can be followed from a start to its end.
LEMMA FoldExists ==
  ASSUME NEW n \in Nat, NEW T, NEW b \in T, NEW step \in Steps(T, n)
  PROVE  \E g \in [0 .. n -> T] : Follows(g, n, b, step)
<1> DEFINE Has(m) == \E g \in [0 .. m -> T] : Follows(g, m, b, step)
           X == {m \in Nat : m <= n => Has(m)}
<1>1. Has(0)
  <2> DEFINE g == [i \in 0 .. 0 |-> b]
  <2>1. g \in [0 .. 0 -> T] /\ Follows(g, 0, b, step)
    BY DEF Follows
  <2>2. QED  BY <2>1
<1>2. ASSUME NEW m \in Nat, m + 1 <= n, Has(m) PROVE Has(m + 1)
  <2>1. PICK g \in [0 .. m -> T] : Follows(g, m, b, step)
    BY <1>2
  <2>2. m \in 0 .. m /\ m + 1 \in 1 .. n /\ g[m] \in T
    BY <1>2
  <2>3. step[<<g[m], m + 1>>] \in T
    BY <2>2 DEF Steps
  <2> DEFINE h == [i \in 0 .. (m + 1) |-> IF i = m + 1 THEN step[<<g[m], m + 1>>] ELSE g[i]]
  <2>4. h \in [0 .. (m + 1) -> T]
    BY <2>2, <2>3
  <2>5. h[0] = b /\ h[m + 1] = step[<<g[m], m + 1>>] /\ \A i \in 0 .. m : h[i] = g[i]
    BY <2>1, <2>2 DEF Follows
  <2> HIDE DEF h
  <2>6. ASSUME NEW i \in 1 .. (m + 1) PROVE h[i] = step[<<h[i - 1], i>>]
    <3>1. CASE i = m + 1
      <4>1. i - 1 = m
        BY <2>2, <3>1
      <4>2. h[i - 1] = g[m]
        BY <2>2, <2>5, <4>1
      <4>3. QED  BY <2>5, <3>1, <4>2
    <3>2. CASE i # m + 1
      <4>1. i \in 1 .. m /\ i \in 0 .. m /\ i - 1 \in 0 .. m
        BY <2>2, <3>2
      <4>2. QED  BY <2>1, <2>5, <4>1 DEF Follows
    <3>3. QED  BY <3>1, <3>2
  <2>7. Follows(h, m + 1, b, step)
    BY <2>5, <2>6 DEF Follows
  <2>8. QED
    BY <2>4, <2>7
<1> HIDE DEF Has
<1>3. n \in X
  <2>1. 0 \in X
    BY <1>1
  <2>2. ASSUME NEW m \in X PROVE m + 1 \in X
    <3>1. m \in Nat /\ m + 1 \in Nat /\ (m + 1 <= n => m <= n)
      OBVIOUS
    <3>2. QED  BY <1>2, <3>1
  <2> HIDE DEF X
  <2>3. X \subseteq Nat
    BY DEF X
  <2>4. QED
    BY <2>1, <2>2, <2>3, AllNumbers
<1>4. QED
  BY <1>3 DEF Has

\* A piece of a diff: a file and the number of a hunk, or 0
Pieces == Nat \X Nat

\* PieceSize and SizeOf where the hunks have the sizes h
SizeAt(h, p) == IF p[2] = 0 THEN HeaderSize ELSE h[p[1]][p[2]]

SizeIn(h, s) ==
  LET upto[i \in 0 .. Len(s)] == IF i = 0 THEN 0 ELSE upto[i - 1] + SizeAt(h, s[i])
  IN  upto[Len(s)]

\* The pieces of s that the sizes h know
Known(h, s) == s \in Seq(Pieces) /\ \A i \in 1 .. Len(s) : SizeAt(h, s[i]) \in Nat

\* The recursive function of SizeIn computes sums.
Sums(g, h, s) ==
  /\ g \in [0 .. Len(s) -> Nat] /\ g[0] = 0
  /\ \A i \in 1 .. Len(s) : g[i] = g[i - 1] + SizeAt(h, s[i])
  /\ SizeIn(h, s) = g[Len(s)]

\* The size of a list is the last of its running sums.
LEMMA SizeSums ==
  ASSUME NEW h, NEW s, Known(h, s)
  PROVE  \E g : Sums(g, h, s)
<1> DEFINE n == Len(s)
           u == CHOOSE f : f = [i \in 0 .. n |-> IF i = 0 THEN 0 ELSE f[i - 1] + SizeAt(h, s[i])]
           step == [x \in Nat \X (1 .. n) |-> x[1] + SizeAt(h, s[x[2]])]
<1>1. n \in Nat /\ step \in Steps(Nat, n)
  BY DEF Known, Steps
<1>2. PICK g \in [0 .. n -> Nat] : Follows(g, n, 0, step)
  <2> HIDE DEF n, step
  <2>1. QED
    BY <1>1, FoldExists
<1>3. ASSUME NEW i \in 1 .. n PROVE g[i] = g[i - 1] + SizeAt(h, s[i])
  <2>1. i - 1 \in 0 .. n /\ g[i - 1] \in Nat
    BY <1>1, <1>2
  <2>2. QED
    BY <1>2, <2>1 DEF Follows
<1>4. g = [i \in 0 .. n |-> IF i = 0 THEN 0 ELSE g[i - 1] + SizeAt(h, s[i])]
  <2> HIDE DEF n, step
  <2>1. \A i \in 0 .. n : i # 0 => i \in 1 .. n
    BY <1>1
  <2>2. QED
    BY <1>2, <1>3, <2>1 DEF Follows
<1>5. u = [i \in 0 .. n |-> IF i = 0 THEN 0 ELSE u[i - 1] + SizeAt(h, s[i])]
  BY <1>4
<1>6. SizeIn(h, s) = u[n]
  BY DEF SizeIn
<1> HIDE DEF u, n, step
<1>7. u[0] = 0 /\ \A i \in 1 .. n : u[i] = u[i - 1] + SizeAt(h, s[i])
  <2>1. 0 \in 0 .. n /\ \A i \in 1 .. n : i \in 0 .. n /\ i # 0
    BY <1>1
  <2>2. QED
    BY <1>5, <2>1
<1>8. u \in [0 .. n -> Nat]
  <2> DEFINE X == {m \in Nat : m <= n => u[m] \in Nat}
  <2>1. 0 \in X
    BY <1>7
  <2>2. ASSUME NEW m \in X PROVE m + 1 \in X
    <3> SUFFICES ASSUME m + 1 <= n PROVE u[m + 1] \in Nat
      OBVIOUS
    <3>1. m + 1 \in 1 .. n /\ (m + 1) - 1 = m /\ u[m] \in Nat
      BY <1>1
    <3>2. SizeAt(h, s[m + 1]) \in Nat
      BY <3>1 DEF Known, n
    <3>3. QED
      BY <1>7, <3>1, <3>2
  <2>3. X = Nat
    <3> HIDE DEF X
    <3>1. X \subseteq Nat
      BY DEF X
    <3>2. QED
      BY <2>1, <2>2, <3>1, AllNumbers
  <2>4. \A m \in 0 .. n : u[m] \in Nat
    BY <1>1, <2>3
  <2>5. QED
    BY <1>5, <2>4
<1>9. QED
  BY <1>6, <1>7, <1>8 DEF n, Sums

\* A list whose hunks have sizes has a size.
LEMMA SizeType ==
  ASSUME NEW h, NEW s, Known(h, s)
  PROVE  SizeIn(h, s) \in Nat
<1>1. Len(s) \in 0 .. Len(s)
  BY DEF Known
<1>2. QED
  BY <1>1, SizeSums DEF Sums

\* An empty list weighs nothing.
LEMMA SizeEmpty ==
  ASSUME NEW h
  PROVE  Known(h, <<>>) /\ SizeIn(h, <<>>) = 0
<1>1. Known(h, <<>>) /\ Len(<<>>) = 0
  BY DEF Known
<1>2. QED
  BY <1>1, SizeSums DEF Sums

\* A list of one piece weighs what the piece does.
LEMMA SizeOne ==
  ASSUME NEW h, NEW p \in Pieces, SizeAt(h, p) \in Nat
  PROVE  Known(h, <<p>>) /\ SizeIn(h, <<p>>) = SizeAt(h, p)
<1>1. Known(h, <<p>>) /\ Len(<<p>>) = 1 /\ <<p>>[1] = p
  BY DEF Known
<1>2. PICK g : Sums(g, h, <<p>>)
  BY <1>1, SizeSums
<1>3. g[1] = g[0] + SizeAt(h, p) /\ g[0] = 0 /\ SizeIn(h, <<p>>) = g[1]
  BY <1>1, <1>2 DEF Sums
<1>4. QED
  BY <1>1, <1>2, <1>3

\* Sizes add up.
LEMMA SizeConcat ==
  ASSUME NEW h, NEW s, NEW t, Known(h, s), Known(h, t)
  PROVE  Known(h, s \o t) /\ SizeIn(h, s \o t) = SizeIn(h, s) + SizeIn(h, t)
<1> DEFINE m == Len(s)
           n == Len(t)
           w == s \o t
<1>1. /\ m \in Nat /\ n \in Nat /\ w \in Seq(Pieces) /\ Len(w) = m + n
      /\ \A i \in 1 .. m : w[i] = s[i]
      /\ \A i \in 1 .. n : w[m + i] = t[i]
  BY DEF Known
<1>2. Known(h, w)
  <2>1. ASSUME NEW i \in 1 .. Len(w) PROVE SizeAt(h, w[i]) \in Nat
    <3>1. CASE i <= m
      BY <1>1, <3>1 DEF Known
    <3>2. CASE ~(i <= m)
      <4>1. i - m \in 1 .. n /\ i = m + (i - m)
        BY <1>1, <3>2
      <4>2. w[i] = t[i - m]
        BY <1>1, <4>1
      <4>3. QED  BY <4>1, <4>2 DEF Known
    <3>3. QED  BY <3>1, <3>2
  <2>2. QED  BY <1>1, <2>1 DEF Known
<1> HIDE DEF w
<1>3. PICK a \in [0 .. m -> Nat] :
         a[0] = 0 /\ (\A i \in 1 .. m : a[i] = a[i - 1] + SizeAt(h, s[i])) /\ SizeIn(h, s) = a[m]
  BY SizeSums DEF Sums
<1>4. PICK b \in [0 .. n -> Nat] :
         b[0] = 0 /\ (\A i \in 1 .. n : b[i] = b[i - 1] + SizeAt(h, t[i])) /\ SizeIn(h, t) = b[n]
  BY SizeSums DEF Sums
<1>5. PICK c \in [0 .. (m + n) -> Nat] :
         /\ c[0] = 0 /\ (\A i \in 1 .. (m + n) : c[i] = c[i - 1] + SizeAt(h, w[i]))
         /\ SizeIn(h, w) = c[m + n]
  <2>1. PICK c : Sums(c, h, w)
    BY <1>2, SizeSums
  <2>2. QED
    BY <1>1, <2>1 DEF Sums
<1> HIDE DEF m, n
<1>6. \A i \in 0 .. m : c[i] = a[i]
  <2> DEFINE X == {i \in Nat : c[i] = a[i]}
  <2>1. 0 \in X
    BY <1>3, <1>5
  <2>2. ASSUME NEW i \in Nat, i + 1 <= m, i \in X PROVE i + 1 \in X
    <3>1. i + 1 \in 1 .. m /\ i + 1 \in 1 .. (m + n) /\ (i + 1) - 1 = i
      BY <1>1, <2>2
    <3>2. c[i + 1] = c[i] + SizeAt(h, w[i + 1]) /\ a[i + 1] = a[i] + SizeAt(h, s[i + 1])
      BY <1>3, <1>5, <3>1
    <3>3. QED  BY <1>1, <2>2, <3>1, <3>2
  <2> HIDE DEF X
  <2>3. \A i \in 0 .. m : i \in X
    BY <1>1, <2>1, <2>2, Upto
  <2>4. QED  BY <2>3 DEF X
<1>7. \A i \in 0 .. n : c[m + i] = a[m] + b[i]
  <2> DEFINE X == {i \in Nat : c[m + i] = a[m] + b[i]}
  <2>1. 0 \in X
    <3>1. m \in 0 .. m /\ m + 0 = m /\ a[m] \in Nat
      BY <1>1
    <3>2. QED  BY <1>4, <1>6, <3>1
  <2>2. ASSUME NEW i \in Nat, i + 1 <= n, i \in X PROVE i + 1 \in X
    <3>1. /\ i + 1 \in 1 .. n /\ m + (i + 1) \in 1 .. (m + n) /\ (m + (i + 1)) - 1 = m + i
          /\ (i + 1) - 1 = i /\ i \in 0 .. n /\ m \in 0 .. m
      <4>1. m \in Nat /\ n \in Nat /\ i + 1 <= n
        BY <1>1, <2>2
      <4>2. QED  BY <4>1
    <3>2. /\ c[m + (i + 1)] = c[m + i] + SizeAt(h, w[m + (i + 1)])
          /\ b[i + 1] = b[i] + SizeAt(h, t[i + 1])
      BY <1>4, <1>5, <3>1
    <3>3. w[m + (i + 1)] = t[i + 1]
      BY <1>1, <3>1
    <3>4. SizeAt(h, t[i + 1]) \in Nat /\ a[m] \in Nat /\ b[i] \in Nat
      BY <3>1 DEF Known, n
    <3>5. c[m + i] = a[m] + b[i]
      BY <2>2
    <3>6. QED  BY <3>2, <3>3, <3>4, <3>5
  <2> HIDE DEF X
  <2>3. \A i \in 0 .. n : i \in X
    BY <1>1, <2>1, <2>2, Upto
  <2>4. QED  BY <2>3 DEF X
<1>8. SizeIn(h, w) = SizeIn(h, s) + SizeIn(h, t)
  <2>1. n \in 0 .. n
    BY <1>1
  <2>2. QED  BY <1>3, <1>4, <1>5, <1>7, <2>1
<1>9. QED
  BY <1>2, <1>8 DEF w

\* Lists of pieces put together
Lists == Seq(Pieces)

\* \o, as a name the provers need not look behind
Cat(a, b) == a \o b

\* Lists of pieces are closed under Cat, and the empty list is neutral.
LEMMA CatFacts ==
  /\ <<>> \in Lists
  /\ \A a, b \in Lists : Cat(a, b) \in Lists
  /\ \A a \in Lists : Cat(a, <<>>) = a /\ Cat(<<>>, a) = a
<1>1. <<>> \in Lists /\ \A a, b \in Lists : Cat(a, b) \in Lists
  BY DEF Lists, Cat
<1>2. \A a \in Lists : Cat(a, <<>>) = a /\ Cat(<<>>, a) = a
  BY ConcatEmptySeq DEF Lists, Cat
<1>3. QED
  BY <1>1, <1>2

\* Cat is associative.
LEMMA CatAssociative ==
  ASSUME NEW a \in Lists, NEW b \in Lists, NEW c \in Lists
  PROVE  Cat(Cat(a, b), c) = Cat(a, Cat(b, c))
BY ConcatAssociative DEF Lists, Cat

Joins(g, q) ==
  /\ g \in [0 .. Len(q) -> Lists] /\ g[0] = <<>>
  /\ \A i \in 1 .. Len(q) : g[i] = Cat(g[i - 1], q[i])

Join(q) == (CHOOSE g : Joins(g, q))[Len(q)]

\* Every list of lists has its running joins.
LEMMA JoinExists ==
  ASSUME NEW q \in Seq(Lists)
  PROVE  \E g : Joins(g, q) /\ Join(q) = g[Len(q)]
<1> DEFINE n == Len(q)
           step == [x \in Lists \X (1 .. n) |-> Cat(x[1], q[x[2]])]
<1>1. n \in Nat /\ step \in Steps(Lists, n) /\ <<>> \in Lists
  <2>1. n \in Nat /\ \A i \in 1 .. n : q[i] \in Lists
    OBVIOUS
  <2> HIDE DEF n
  <2>2. \A x \in Lists \X (1 .. n) : Cat(x[1], q[x[2]]) \in Lists
    BY <2>1, CatFacts
  <2>3. QED
    BY <2>1, <2>2, CatFacts DEF Steps
<1>2. PICK g \in [0 .. n -> Lists] : Follows(g, n, <<>>, step)
  <2> HIDE DEF n, step
  <2>1. QED
    BY <1>1, FoldExists
<1>3. ASSUME NEW i \in 1 .. n PROVE g[i] = Cat(g[i - 1], q[i])
  <2>1. i - 1 \in 0 .. n /\ g[i - 1] \in Lists
    BY <1>1, <1>2
  <2>2. QED
    BY <1>2, <2>1 DEF Follows
<1>4. Joins(g, q)
  BY <1>2, <1>3 DEF Joins, Follows
<1>5. QED
  BY <1>4 DEF Join

\* There is one such function.
LEMMA JoinUnique ==
  ASSUME NEW q \in Seq(Lists), NEW u, u[0] = <<>>,
         \A i \in 1 .. Len(q) : u[i] = Cat(u[i - 1], q[i])
  PROVE  u[Len(q)] = Join(q)
<1>1. PICK g : Joins(g, q) /\ Join(q) = g[Len(q)]
  BY JoinExists
<1> DEFINE X == {i \in Nat : u[i] = g[i]}
           n == Len(q)
<1>2. n \in Nat
  OBVIOUS
<1>3. 0 \in X
  BY <1>1 DEF Joins
<1>4. ASSUME NEW i \in Nat, i + 1 <= n, i \in X PROVE i + 1 \in X
  <2>1. i + 1 \in 1 .. n /\ (i + 1) - 1 = i
    BY <1>2, <1>4
  <2>2. u[i + 1] = Cat(u[i], q[i + 1]) /\ g[i + 1] = Cat(g[i], q[i + 1])
    BY <1>1, <2>1 DEF Joins
  <2>3. QED  BY <1>4, <2>2
<1>5. \A i \in 0 .. n : i \in X
  <2> HIDE DEF X, n
  <2>1. QED  BY <1>2, <1>3, <1>4, Upto
<1>6. QED
  BY <1>1, <1>2, <1>5

\* A join of lists is a list.
LEMMA JoinType ==
  ASSUME NEW q \in Seq(Lists)
  PROVE  Join(q) \in Lists
<1>1. Len(q) \in 0 .. Len(q)
  OBVIOUS
<1>2. QED
  BY <1>1, JoinExists DEF Joins

\* Nothing to join gives the empty list.
LEMMA JoinEmpty == Join(<<>>) = <<>>
<1>1. <<>> \in Seq(Lists) /\ Len(<<>>) = 0
  OBVIOUS
<1>2. QED
  BY <1>1, JoinExists DEF Joins

\* One list more is joined behind the others.
LEMMA JoinAppend ==
  ASSUME NEW q \in Seq(Lists), NEW x \in Lists
  PROVE  Join(Append(q, x)) = Cat(Join(q), x)
<1> DEFINE w == Append(q, x)
           n == Len(q)
<1>1. /\ w \in Seq(Lists) /\ Len(w) = n + 1 /\ w[n + 1] = x /\ n \in Nat
      /\ \A i \in 1 .. n : w[i] = q[i]
  OBVIOUS
<1> HIDE DEF w
<1>2. PICK g : Joins(g, w) /\ Join(w) = g[n + 1]
  BY <1>1, JoinExists
<1>3. g[0] = <<>> /\ \A i \in 1 .. n : g[i] = Cat(g[i - 1], q[i])
  BY <1>1, <1>2 DEF Joins
<1>4. g[n] = Join(q)
  BY <1>3, JoinUnique
<1>5. g[n + 1] = Cat(g[n], x)
  <2>1. n + 1 \in 1 .. Len(w) /\ (n + 1) - 1 = n
    BY <1>1
  <2>2. g[n + 1] = Cat(g[(n + 1) - 1], w[n + 1])
    BY <1>2, <2>1 DEF Joins
  <2>3. QED  BY <1>1, <2>1, <2>2
<1>6. QED
  BY <1>2, <1>4, <1>5 DEF w

\* Two lists of lists are joined one behind the other.
LEMMA JoinConcat ==
  ASSUME NEW q \in Seq(Lists), NEW r \in Seq(Lists)
  PROVE  Join(q \o r) = Cat(Join(q), Join(r))
<1> DEFINE m == Len(q)
           n == Len(r)
           w == q \o r
<1>1. /\ m \in Nat /\ n \in Nat /\ w \in Seq(Lists) /\ Len(w) = m + n
      /\ \A i \in 1 .. m : w[i] = q[i]
      /\ \A i \in 1 .. n : w[m + i] = r[i] /\ r[i] \in Lists
  OBVIOUS
<1> HIDE DEF w
<1>2. PICK b : Joins(b, r) /\ Join(r) = b[n]
  BY JoinExists
<1>3. PICK c : Joins(c, w) /\ Join(w) = c[m + n]
  BY <1>1, JoinExists
<1>4. c[m] = Join(q)
  <2>1. c[0] = <<>> /\ \A i \in 1 .. m : c[i] = Cat(c[i - 1], q[i])
    BY <1>1, <1>3 DEF Joins
  <2>2. QED  BY <2>1, JoinUnique
<1>5. Join(q) \in Lists
  BY JoinType
<1>6. \A i \in 0 .. n : c[m + i] = Cat(Join(q), b[i])
  <2> DEFINE X == {i \in Nat : c[m + i] = Cat(Join(q), b[i])}
  <2>1. 0 \in X
    <3>1. m + 0 = m /\ b[0] = <<>> /\ Cat(Join(q), <<>>) = Join(q)
      BY <1>1, <1>2, <1>5, CatFacts DEF Joins
    <3>2. QED  BY <1>4, <3>1
  <2>2. ASSUME NEW i \in Nat, i + 1 <= n, i \in X PROVE i + 1 \in X
    <3>1. /\ i + 1 \in 1 .. n /\ m + (i + 1) \in 1 .. (m + n) /\ (m + (i + 1)) - 1 = m + i
          /\ (i + 1) - 1 = i /\ i \in 0 .. n
      BY <1>1, <2>2
    <3>2. c[m + (i + 1)] = Cat(c[m + i], w[m + (i + 1)])
      BY <1>1, <1>3, <3>1 DEF Joins
    <3>3. b[i + 1] = Cat(b[i], r[i + 1]) /\ b[i] \in Lists
      BY <1>1, <1>2, <3>1 DEF Joins
    <3>4. w[m + (i + 1)] = r[i + 1] /\ r[i + 1] \in Lists
      BY <1>1, <3>1
    <3>5. c[m + i] = Cat(Join(q), b[i])
      BY <2>2
    <3>6. Cat(Cat(Join(q), b[i]), r[i + 1]) = Cat(Join(q), Cat(b[i], r[i + 1]))
      BY <1>5, <3>3, <3>4, CatAssociative
    <3>7. QED  BY <3>2, <3>3, <3>4, <3>5, <3>6
  <2> HIDE DEF X, n, m
  <2>3. \A i \in 0 .. n : i \in X
    BY <1>1, <2>1, <2>2, Upto
  <2>4. QED  BY <2>3 DEF X
<1>7. QED
  BY <1>1, <1>2, <1>3, <1>6 DEF w

\* FlattenSeq joins.
LEMMA FlattenIs ==
  ASSUME NEW q \in Seq(Lists)
  PROVE  FlattenSeq(q) = Join(q)
<1> DEFINE n == Len(q)
<1>1. CASE n = 0
  <2>1. q = <<>>
    BY <1>1
  <2>2. QED  BY <1>1, <2>1, JoinEmpty DEF FlattenSeq
<1>2. CASE n # 0
  <2>1. n \in Nat /\ n \in 1 .. n
    BY <1>2
  <2>2. PICK g : Joins(g, q) /\ Join(q) = g[n]
    BY JoinExists
  <2> DEFINE d == [i \in 1 .. n |-> g[i]]
             u == CHOOSE f : f = [i \in 1 .. n |-> IF i = 1 THEN q[i] ELSE Cat(f[i - 1], q[i])]
  <2>3. d = [i \in 1 .. n |-> IF i = 1 THEN q[i] ELSE Cat(d[i - 1], q[i])]
    <3> SUFFICES ASSUME NEW i \in 1 .. n
                 PROVE  g[i] = IF i = 1 THEN q[i] ELSE Cat(d[i - 1], q[i])
      OBVIOUS
    <3>1. g[i] = Cat(g[i - 1], q[i]) /\ q[i] \in Lists
      BY <2>2 DEF Joins
    <3>2. CASE i = 1
      <4>1. g[i - 1] = <<>>
        BY <2>2, <3>2 DEF Joins
      <4>2. Cat(<<>>, q[i]) = q[i]
        BY <3>1, CatFacts
      <4>3. QED  BY <3>1, <3>2, <4>1, <4>2
    <3>3. CASE i # 1
      <4>1. i - 1 \in 1 .. n
        BY <2>1, <3>3
      <4>2. QED  BY <3>1, <3>3, <4>1
    <3>4. QED  BY <3>2, <3>3
  <2>4. u = [i \in 1 .. n |-> IF i = 1 THEN q[i] ELSE Cat(u[i - 1], q[i])]
    <3> HIDE DEF d
    <3>1. QED  BY <2>3
  <2>5. FlattenSeq(q) = u[n]
    BY <1>2 DEF FlattenSeq, Cat
  <2> HIDE DEF u, d
  <2> DEFINE v == [i \in 0 .. n |-> IF i = 0 THEN <<>> ELSE u[i]]
  <2>6. ASSUME NEW i \in 1 .. n PROVE v[i] = Cat(v[i - 1], q[i])
    <3>1. i - 1 \in 0 .. n /\ v[i] = u[i] /\ q[i] \in Lists
      BY <2>1
    <3>2. CASE i = 1
      <4>1. v[i - 1] = <<>> /\ u[i] = q[i]
        BY <2>4, <3>1, <3>2
      <4>2. Cat(<<>>, q[i]) = q[i]
        BY <3>1, CatFacts
      <4>3. QED  BY <3>1, <4>1, <4>2
    <3>3. CASE i # 1
      <4>1. v[i - 1] = u[i - 1] /\ u[i] = Cat(u[i - 1], q[i])
        BY <2>4, <3>1, <3>3
      <4>2. QED  BY <3>1, <4>1
    <3>4. QED  BY <3>2, <3>3
  <2>7. v[0] = <<>> /\ v[n] = u[n]
    BY <2>1
  <2> HIDE DEF v
  <2>8. v[n] = Join(q)
    BY <2>6, <2>7, JoinUnique
  <2>9. QED
    BY <2>5, <2>7, <2>8
<1>3. QED
  BY <1>1, <1>2

\* What FlattenSeq makes of no list, of lists and of one list more.
LEMMA FlattenFacts ==
  /\ FlattenSeq(<<>>) = <<>>
  /\ \A q \in Seq(Lists) : FlattenSeq(q) \in Lists
  /\ \A q \in Seq(Lists), x \in Lists : FlattenSeq(Append(q, x)) = Cat(FlattenSeq(q), x)
<1>1. <<>> \in Seq(Lists) /\ \A q \in Seq(Lists), x \in Lists : Append(q, x) \in Seq(Lists)
  OBVIOUS
<1>2. FlattenSeq(<<>>) = <<>>
  BY <1>1, FlattenIs, JoinEmpty
<1>3. ASSUME NEW q \in Seq(Lists) PROVE FlattenSeq(q) \in Lists
  BY FlattenIs, JoinType
<1>4. ASSUME NEW q \in Seq(Lists), NEW x \in Lists
      PROVE  FlattenSeq(Append(q, x)) = Cat(FlattenSeq(q), x)
  <2>1. Append(q, x) \in Seq(Lists)
    BY <1>1
  <2>2. QED
    BY <2>1, FlattenIs, JoinAppend
<1>5. QED
  BY <1>2, <1>3, <1>4

\* Bodies joins the bodies.
BodyList(s) == [i \in 1 .. Len(s) |-> Body(s[i])]

\* The bodies of the pieces of a list are as many lists.
LEMMA BodyListType ==
  ASSUME NEW s \in Lists
  PROVE  /\ BodyList(s) \in Seq(Lists) /\ Len(BodyList(s)) = Len(s)
         /\ \A i \in 1 .. Len(s) : BodyList(s)[i] = Body(s[i])
<1>1. Len(s) \in Nat /\ \A i \in 1 .. Len(s) : s[i] \in Pieces
  BY DEF Lists
<1>2. \A p \in Pieces : Body(p) \in Lists
  BY DEF Body, Lists
<1>3. QED
  BY <1>1, <1>2 DEF BodyList

\* Bodies joins the bodies of its pieces.
LEMMA BodiesIs ==
  ASSUME NEW s \in Lists
  PROVE  Bodies(s) = Join(BodyList(s))
<1> DEFINE n == Len(s)
           q == BodyList(s)
           u == CHOOSE f : f = [i \in 0 .. n |-> IF i = 0 THEN <<>>
                                                 ELSE Cat(f[i - 1], Body(s[i]))]
<1>1. n \in Nat /\ q \in Seq(Lists) /\ Len(q) = n /\ \A i \in 1 .. n : q[i] = Body(s[i])
  BY BodyListType DEF Lists
<1>2. PICK g : Joins(g, q)
  BY <1>1, JoinExists
<1>3. g = [i \in 0 .. n |-> IF i = 0 THEN <<>> ELSE Cat(g[i - 1], Body(s[i]))]
  <2> HIDE DEF n, q
  <2>1. \A i \in 0 .. n : i # 0 => i \in 1 .. n
    BY <1>1
  <2>2. g \in [0 .. n -> Lists] /\ g[0] = <<>>
        /\ \A i \in 1 .. n : g[i] = Cat(g[i - 1], Body(s[i]))
    BY <1>1, <1>2 DEF Joins
  <2>3. QED
    BY <2>1, <2>2
<1>4. u = [i \in 0 .. n |-> IF i = 0 THEN <<>> ELSE Cat(u[i - 1], Body(s[i]))]
  BY <1>3
<1>5. Bodies(s) = u[n]
  BY DEF Bodies, Cat
<1> HIDE DEF u, n, q
<1>6. u[0] = <<>> /\ \A i \in 1 .. n : u[i] = Cat(u[i - 1], q[i])
  <2>1. 0 \in 0 .. n /\ \A i \in 1 .. n : i \in 0 .. n /\ i # 0
    BY <1>1
  <2>2. QED
    BY <1>1, <1>4, <2>1
<1>7. QED
  BY <1>1, <1>5, <1>6, JoinUnique DEF q

\* The hunks of a list are a list.
LEMMA BodiesType ==
  ASSUME NEW s \in Lists
  PROVE  Bodies(s) \in Lists
BY BodiesIs, BodyListType, JoinType

\* An empty list has no hunk.
LEMMA BodiesEmpty == Bodies(<<>>) = <<>>
<1>1. <<>> \in Lists /\ BodyList(<<>>) = <<>>
  BY DEF Lists, BodyList
<1>2. QED
  BY <1>1, BodiesIs, JoinEmpty

\* The hunks of two lists are those of the first, then those of the second.
LEMMA BodiesConcat ==
  ASSUME NEW s \in Lists, NEW t \in Lists
  PROVE  Bodies(Cat(s, t)) = Cat(Bodies(s), Bodies(t))
<1>1. Cat(s, t) \in Lists
  BY CatFacts
<1>2. BodyList(Cat(s, t)) = BodyList(s) \o BodyList(t)
  <2> DEFINE m == Len(s)
             n == Len(t)
             a == BodyList(s)
             b == BodyList(t)
             w == Cat(s, t)
             c == BodyList(w)
  <2>1. /\ m \in Nat /\ n \in Nat /\ Len(w) = m + n
        /\ \A i \in 1 .. m : w[i] = s[i]
        /\ \A i \in 1 .. n : w[m + i] = t[i]
    BY DEF Lists, Cat
  <2>2. /\ a \in Seq(Lists) /\ b \in Seq(Lists) /\ c \in Seq(Lists)
        /\ Len(a) = m /\ Len(b) = n /\ Len(c) = m + n
        /\ \A i \in 1 .. m : a[i] = Body(s[i])
        /\ \A i \in 1 .. n : b[i] = Body(t[i])
        /\ \A i \in 1 .. (m + n) : c[i] = Body(w[i])
    BY <1>1, <2>1, BodyListType
  <2> HIDE DEF a, b, c, w, m, n
  <2>3. /\ a \o b \in Seq(Lists) /\ Len(a \o b) = m + n
        /\ \A i \in 1 .. (m + n) : (a \o b)[i] = IF i <= m THEN a[i] ELSE b[i - m]
    BY <2>1, <2>2, ConcatProperties
  <2>4. ASSUME NEW i \in 1 .. (m + n) PROVE c[i] = (a \o b)[i]
    <3>0. m \in Nat /\ n \in Nat
      BY <2>1
    <3>1. CASE i <= m
      <4>1. i \in 1 .. m
        BY <3>0, <3>1
      <4>2. w[i] = s[i]
        BY <2>1, <4>1
      <4>3. c[i] = Body(w[i]) /\ a[i] = Body(s[i])
        BY <2>2, <4>1
      <4>4. (a \o b)[i] = a[i]
        BY <2>3, <3>1
      <4>5. QED  BY <4>2, <4>3, <4>4
    <3>2. CASE ~(i <= m)
      <4>1. i - m \in 1 .. n /\ m + (i - m) = i
        BY <3>0, <3>2
      <4>2. w[i] = t[i - m]
        BY <2>1, <4>1
      <4>3. b[i - m] = Body(t[i - m]) /\ c[i] = Body(w[i])
        BY <2>2, <4>1
      <4>4. (a \o b)[i] = b[i - m]
        BY <2>3, <3>2
      <4>5. QED  BY <4>2, <4>3, <4>4
    <3>3. QED  BY <3>1, <3>2
  <2>5. c = a \o b
    BY <2>2, <2>3, <2>4, SeqEqual
  <2>6. QED
    BY <2>5 DEF a, b, c, w
<1>3. QED
  BY <1>1, <1>2, BodiesIs, BodyListType, JoinConcat

\* The hunks of a single piece.
LEMMA BodiesOne ==
  ASSUME NEW p \in Pieces
  PROVE  Bodies(<<p>>) = Body(p)
<1>1. <<p>> \in Lists /\ Body(p) \in Lists
  BY DEF Lists, Body
<1>2. BodyList(<<p>>) = <<Body(p)>>
  BY DEF BodyList
<1>3. <<Body(p)>> = Append(<<>>, Body(p)) /\ <<>> \in Seq(Lists)
  OBVIOUS
<1>4. Join(<<Body(p)>>) = Cat(<<>>, Body(p))
  BY <1>1, <1>3, JoinAppend, JoinEmpty
<1>5. QED
  BY <1>1, <1>2, <1>4, BodiesIs, CatFacts

\* A list without a header is its own bodies.
LEMMA BodiesOfHunks ==
  ASSUME NEW s \in Lists, \A i \in 1 .. Len(s) : s[i][2] # 0
  PROVE  Bodies(s) = s
<1> DEFINE n == Len(s)
           q == BodyList(s)
           u == [i \in 0 .. n |-> SubSeq(s, 1, i)]
<1>1. n \in Nat /\ q \in Seq(Lists) /\ Len(q) = n /\ \A i \in 1 .. n : q[i] = <<s[i]>>
  <2>1. n \in Nat
    BY DEF Lists
  <2>2. q \in Seq(Lists) /\ Len(q) = n /\ \A i \in 1 .. n : q[i] = Body(s[i])
    BY BodyListType
  <2>3. \A i \in 1 .. n : Body(s[i]) = <<s[i]>>
    BY DEF Body
  <2> HIDE DEF n, q
  <2>4. QED  BY <2>1, <2>2, <2>3
<1>2. u[0] = <<>> /\ u[n] = s
  <2>1. SubSeq(s, 1, 0) = <<>> /\ SubSeq(s, 1, n) = s
    BY SubSeqEmpty, SubSeqFull DEF Lists
  <2>2. 0 \in 0 .. n /\ n \in 0 .. n
    BY <1>1
  <2>3. QED  BY <2>1, <2>2
<1>3. ASSUME NEW i \in 1 .. n PROVE u[i] = Cat(u[i - 1], q[i])
  <2>1. i \in 0 .. n /\ i - 1 \in 0 .. n /\ 1 \in 1 .. Len(s) /\ i \in 1 .. Len(s)
    BY <1>1
  <2>2. SubSeq(s, 1, i) = SubSeq(s, 1, i - 1) \o <<s[i]>>
    BY <2>1, SubSeqRecursiveSecond DEF Lists
  <2>3. QED
    BY <1>1, <2>1, <2>2 DEF Cat
<1>4. u[n] = Join(q)
  <2> HIDE DEF u, q, n
  <2>1. QED  BY <1>1, <1>2, <1>3, JoinUnique
<1>5. QED
  BY <1>2, <1>4, BodiesIs

-----------------------------------------------------------------------------
(* What chunk_diff keeps while it packs *)

\* HunksOf and FileSection where the hunks have the sizes h
Hunks(h, f) == [i \in 1 .. Len(h[f]) |-> <<f, i>>]
Section(h, f) == Cat(<<Header(f)>>, Hunks(h, f))

Occurs(p, s) == \E k \in 1 .. Len(s) : s[k] = p
InChunks(p, K) == \E i \in 1 .. Len(K) : Occurs(p, K[i])

\* The chunks or the one being filled hold the piece.
Held(p, K, C) == InChunks(p, K) \/ Occurs(p, C)

\* T ends S.
Ending(T, S) ==
  Len(T) <= Len(S) /\ \A j \in 1 .. Len(T) : T[j] = S[(Len(S) - Len(T)) + j]

\* The lists have their types, and the sections to come are the last ones.
PackTypes(h, S, T, R, C, P, K) ==
  /\ S \in Seq(Reviewable) /\ T \in Seq(Reviewable)
  /\ Known(h, R) /\ Known(h, C) /\ Known(h, P) /\ K \in Seq(Lists)
  /\ Ending(T, S)

\* A file is being cut: what is in hand and to come is of that file, which fits
\* no chunk, and what is in hand fits with the chunk or is one hunk alone.
Cutting(h, T, R, C, P) ==
  /\ P = <<>> => R = <<>>
  /\ P # <<>> => /\ T # <<>>
                 /\ P[1] = Header(T[1]) /\ \A k \in 1 .. Len(P) : P[k][1] = T[1]
                 /\ \A k \in 1 .. Len(R) : R[k][1] = T[1] /\ R[k][2] # 0
                 /\ SizeIn(h, Section(h, T[1])) > ReviewBudget
                 /\ Len(P) = 1 => R # <<>>
                 /\ Len(P) > 1 => \/ SizeIn(h, C) + SizeIn(h, P) <= ReviewBudget
                                  \/ C = <<>> /\ Len(Bodies(P)) <= 1

\* Every piece of every section is somewhere.
Placed(h, S, T, R, C, P, K) ==
  /\ \A i \in 1 .. Len(S) :
        Occurs(S[i], T) \/ \A k \in 1 .. Len(Section(h, S[i])) : Held(Section(h, S[i])[k], K, C)
  /\ P # <<>> => \A k \in 1 .. Len(Section(h, T[1])) :
                    \/ Held(Section(h, T[1])[k], K, C)
                    \/ Occurs(Section(h, T[1])[k], P)
                    \/ Occurs(Section(h, T[1])[k], R)

\* The text of the first n sections, and of the chunks
Text(h, S, n) == Bodies(FlattenSeq([i \in 1 .. n |-> Section(h, S[i])]))
Packed(K, C) == Cat(Bodies(FlattenSeq(K)), Bodies(C))

\* The hunks are in order.
Ordered(h, S, T, R, C, P, K) ==
  /\ P = <<>> => Packed(K, C) = Text(h, S, Len(S) - Len(T))
  /\ P # <<>> => Cat(Packed(K, C), Cat(Bodies(P), R)) = Text(h, S, (Len(S) - Len(T)) + 1)

\* What ChunksCoverDiff says of one chunk
Headed(c) == \A k \in 1 .. Len(c) : \E j \in 1 .. k : c[j] = Header(c[k][1])
Sized(h, c) == SizeIn(h, c) > ReviewBudget => Len(Bodies(c)) <= 1
Whole(h, c) ==
  \A f \in Reviewable :
    /\ SizeIn(h, Section(h, f)) <= ReviewBudget
    /\ \E k \in 1 .. Len(c) : c[k][1] = f
    => \A k \in 1 .. Len(Section(h, f)) : Occurs(Section(h, f)[k], c)
Fine(h, c) == Headed(c) /\ Sized(h, c) /\ Whole(h, c)

AllFine(h, C, K) == Fine(h, C) /\ \A i \in 1 .. Len(K) : Fine(h, K[i])

Packing(h, S, T, R, C, P, K) ==
  /\ PackTypes(h, S, T, R, C, P, K) /\ Cutting(h, T, R, C, P)
  /\ Placed(h, S, T, R, C, P, K) /\ Ordered(h, S, T, R, C, P, K)
  /\ AllFine(h, C, K)

\* What the packing uses of the constants.
LEMMA ConstantFacts ==
  /\ Reviewable \subseteq Files /\ Files \subseteq Nat /\ IsFiniteSet(Files)
  /\ HeaderSize \in Nat \ {0} /\ ReviewBudget \in Nat \ {0} /\ FilesApiLimit \in Nat \ {0}
BY ReviewAssumption

Sizes == [Files -> Seq(Nat)]

\* The hunks of a file are its numbered pieces, all of them bodies.
LEMMA HunksFacts ==
  ASSUME NEW h \in Sizes, NEW f \in Files
  PROVE  /\ Hunks(h, f) \in Lists /\ Len(Hunks(h, f)) = Len(h[f]) /\ Len(h[f]) \in Nat
         /\ \A i \in 1 .. Len(h[f]) : Hunks(h, f)[i] = <<f, i>>
         /\ Known(h, Hunks(h, f)) /\ Bodies(Hunks(h, f)) = Hunks(h, f)
<1> DEFINE s == Hunks(h, f)
<1>1. h[f] \in Seq(Nat) /\ Len(h[f]) \in Nat /\ f \in Nat
  BY ConstantFacts DEF Sizes
<1>2. /\ s \in Lists /\ Len(s) = Len(h[f])
      /\ \A i \in 1 .. Len(h[f]) : s[i] = <<f, i>>
  BY <1>1 DEF Hunks, Lists, Pieces
<1>3. \A i \in 1 .. Len(s) : s[i][1] = f /\ s[i][2] = i /\ i # 0 /\ h[f][i] \in Nat
  BY <1>1, <1>2
<1> HIDE DEF s
<1>4. Known(h, s)
  BY <1>2, <1>3 DEF Known, SizeAt, Lists
<1>5. Bodies(s) = s
  BY <1>2, <1>3, BodiesOfHunks
<1>6. QED
  BY <1>1, <1>2, <1>4, <1>5 DEF s

\* A header alone: a list of the header's size, without a hunk.
LEMMA HeaderFacts ==
  ASSUME NEW h, NEW f \in Files
  PROVE  /\ Header(f) \in Pieces /\ Header(f)[1] = f /\ Header(f)[2] = 0
         /\ <<Header(f)>> \in Lists /\ Known(h, <<Header(f)>>)
         /\ SizeIn(h, <<Header(f)>>) = HeaderSize /\ Bodies(<<Header(f)>>) = <<>>
<1>1. Header(f) \in Pieces /\ Header(f)[1] = f /\ Header(f)[2] = 0
  BY ConstantFacts DEF Header, Pieces
<1>2. <<Header(f)>> \in Lists
  BY <1>1 DEF Lists
<1>3. SizeAt(h, Header(f)) = HeaderSize /\ HeaderSize \in Nat /\ Body(Header(f)) = <<>>
  BY <1>1, ConstantFacts DEF SizeAt, Body
<1>4. QED
  BY <1>1, <1>2, <1>3, SizeOne, BodiesOne

\* A section is the header of its file and then its hunks.
LEMMA SectionFacts ==
  ASSUME NEW h \in Sizes, NEW f \in Files
  PROVE  /\ Section(h, f) \in Lists /\ Known(h, Section(h, f))
         /\ Len(Section(h, f)) = Len(h[f]) + 1 /\ Section(h, f)[1] = Header(f)
         /\ \A i \in 1 .. Len(h[f]) : Section(h, f)[i + 1] = <<f, i>>
         /\ \A k \in 1 .. Len(Section(h, f)) : Section(h, f)[k][1] = f
         /\ Bodies(Section(h, f)) = Hunks(h, f)
<1> DEFINE s == Section(h, f)
           a == <<Header(f)>>
           b == Hunks(h, f)
<1>1. /\ a \in Lists /\ b \in Lists /\ Known(h, a) /\ Known(h, b)
      /\ Bodies(a) = <<>> /\ Bodies(b) = b
      /\ Len(b) = Len(h[f]) /\ Len(h[f]) \in Nat
      /\ \A i \in 1 .. Len(h[f]) : b[i] = <<f, i>>
  BY HunksFacts, HeaderFacts
<1>2. Len(a) = 1 /\ a[1] = Header(f)
  OBVIOUS
<1>3. s = Cat(a, b)
  BY DEF Section
<1> HIDE DEF s, a, b
<1>4. s \in Lists /\ Known(h, s) /\ Bodies(s) = b
  <2>1. Known(h, s)
    BY <1>1, <1>3, SizeConcat DEF Cat
  <2>2. s \in Lists
    BY <1>1, <1>3, CatFacts
  <2>3. Bodies(s) = Cat(<<>>, b)
    BY <1>1, <1>3, BodiesConcat
  <2>4. Cat(<<>>, b) = b
    BY <1>1, CatFacts
  <2>5. QED  BY <2>1, <2>2, <2>3, <2>4
<1>5. /\ Len(s) = Len(h[f]) + 1
      /\ \A k \in 1 .. (Len(h[f]) + 1) : s[k] = IF k <= 1 THEN a[k] ELSE b[k - 1]
  <2>1. a \in Seq(Pieces) /\ b \in Seq(Pieces) /\ s = a \o b
    BY <1>1, <1>3 DEF Cat, Lists
  <2>2. /\ Len(s) = Len(a) + Len(b)
        /\ \A k \in 1 .. (Len(a) + Len(b)) : s[k] = IF k <= Len(a) THEN a[k] ELSE b[k - Len(a)]
    BY <2>1, ConcatProperties
  <2>3. Len(a) + Len(b) = Len(h[f]) + 1
    BY <1>1, <1>2
  <2>4. QED
    BY <1>2, <2>2, <2>3
<1>6. s[1] = Header(f)
  BY <1>1, <1>2, <1>5
<1>7. ASSUME NEW i \in 1 .. Len(h[f]) PROVE s[i + 1] = <<f, i>>
  <2>1. i + 1 \in 1 .. (Len(h[f]) + 1) /\ ~(i + 1 <= 1) /\ (i + 1) - 1 = i
    BY <1>1
  <2>2. s[i + 1] = b[i]
    BY <1>5, <2>1
  <2>3. QED  BY <1>1, <2>2
<1>8. ASSUME NEW k \in 1 .. Len(s) PROVE s[k][1] = f
  <2>1. CASE k = 1
    BY <1>6, <2>1, HeaderFacts
  <2>2. CASE k # 1
    <3>1. k - 1 \in 1 .. Len(h[f]) /\ (k - 1) + 1 = k
      BY <1>1, <1>5, <2>2
    <3>2. s[k] = <<f, k - 1>>
      BY <1>7, <3>1
    <3>3. QED  BY <3>2
  <2>3. QED  BY <2>1, <2>2
<1>9. QED
  BY <1>4, <1>5, <1>6, <1>7, <1>8 DEF s, b

\* Where the pieces of a list end up
LEMMA OccursCat ==
  ASSUME NEW s \in Lists, NEW t \in Lists, NEW p
  PROVE  Occurs(p, Cat(s, t)) <=> Occurs(p, s) \/ Occurs(p, t)
<1> DEFINE w == Cat(s, t)
           m == Len(s)
           n == Len(t)
<1>1. /\ m \in Nat /\ n \in Nat /\ Len(w) = m + n
      /\ \A i \in 1 .. m : w[i] = s[i]
      /\ \A i \in 1 .. n : w[m + i] = t[i]
  BY DEF Lists, Cat
<1> HIDE DEF w
<1>2. ASSUME Occurs(p, s) PROVE Occurs(p, w)
  BY <1>1, <1>2 DEF Occurs
<1>3. ASSUME Occurs(p, t) PROVE Occurs(p, w)
  <2>1. PICK i \in 1 .. n : t[i] = p
    BY <1>3 DEF Occurs
  <2>2. m + i \in 1 .. (m + n) /\ w[m + i] = p
    BY <1>1, <2>1
  <2>3. QED  BY <1>1, <2>2 DEF Occurs
<1>4. ASSUME Occurs(p, w) PROVE Occurs(p, s) \/ Occurs(p, t)
  <2>1. PICK i \in 1 .. (m + n) : w[i] = p
    BY <1>1, <1>4 DEF Occurs
  <2>2. CASE i <= m
    BY <1>1, <2>1, <2>2 DEF Occurs
  <2>3. CASE ~(i <= m)
    <3>1. i - m \in 1 .. n /\ m + (i - m) = i
      BY <1>1, <2>3
    <3>2. t[i - m] = p
      BY <1>1, <2>1, <3>1
    <3>3. QED  BY <3>1, <3>2 DEF Occurs
  <2>4. QED  BY <2>2, <2>3
<1>5. QED
  BY <1>2, <1>3, <1>4 DEF w

\* A sequence without its head
LEMMA OccursTail ==
  ASSUME NEW A, NEW s \in Seq(A), s # <<>>, NEW p
  PROVE  /\ Head(s) = s[1] /\ 1 \in 1 .. Len(s) /\ s[1] \in A
         /\ Tail(s) \in Seq(A) /\ Len(Tail(s)) = Len(s) - 1
         /\ \A i \in 1 .. (Len(s) - 1) : Tail(s)[i] = s[i + 1]
         /\ Occurs(p, s) <=> p = s[1] \/ Occurs(p, Tail(s))
<1> DEFINE t == Tail(s)
           n == Len(s)
<1>1. /\ Head(s) = s[1] /\ n \in Nat /\ 1 \in 1 .. n /\ s[1] \in A
      /\ t \in Seq(A) /\ Len(t) = n - 1
      /\ \A i \in 1 .. (n - 1) : t[i] = s[i + 1]
  OBVIOUS
<1> HIDE DEF t, n
<1>2. ASSUME Occurs(p, s) PROVE p = s[1] \/ Occurs(p, t)
  <2>1. PICK i \in 1 .. n : s[i] = p
    BY <1>2 DEF Occurs, n
  <2>2. CASE i # 1
    <3>1. i - 1 \in 1 .. (n - 1) /\ (i - 1) + 1 = i
      BY <1>1, <2>2
    <3>2. t[i - 1] = p
      BY <1>1, <2>1, <3>1
    <3>3. QED  BY <1>1, <3>1, <3>2 DEF Occurs
  <2>3. QED  BY <2>1, <2>2
<1>3. ASSUME p = s[1] \/ Occurs(p, t) PROVE Occurs(p, s)
  <2>1. CASE p = s[1]
    BY <1>1, <2>1 DEF Occurs, n
  <2>2. CASE Occurs(p, t)
    <3>1. PICK i \in 1 .. (n - 1) : t[i] = p
      BY <1>1, <2>2 DEF Occurs
    <3>2. i + 1 \in 1 .. n /\ s[i + 1] = p
      BY <1>1, <3>1
    <3>3. QED  BY <3>2 DEF Occurs, n
  <2>3. QED  BY <1>3, <2>1, <2>2
<1>4. QED
  BY <1>1, <1>2, <1>3 DEF t, n

\* A chunk is closed.
Closing(K, c) == IF c = <<>> THEN K ELSE Append(K, c)

\* Closing a chunk adds it behind the others, unless it is empty.
LEMMA ClosingFacts ==
  ASSUME NEW K \in Seq(Lists), NEW c \in Lists
  PROVE  /\ Closing(K, c) \in Seq(Lists)
         /\ Bodies(FlattenSeq(Closing(K, c))) = Cat(Bodies(FlattenSeq(K)), Bodies(c))
         /\ \A p : InChunks(p, Closing(K, c)) <=> InChunks(p, K) \/ Occurs(p, c)
         /\ \A i \in 1 .. Len(Closing(K, c)) :
              Closing(K, c)[i] = c \/ \E j \in 1 .. Len(K) : Closing(K, c)[i] = K[j]
<1>1. FlattenSeq(K) \in Lists /\ Bodies(FlattenSeq(K)) \in Lists
  BY FlattenFacts, BodiesType
<1>2. CASE c = <<>>
  <2>1. Closing(K, c) = K
    BY <1>2 DEF Closing
  <2>2. Cat(Bodies(FlattenSeq(K)), Bodies(c)) = Bodies(FlattenSeq(K))
    BY <1>1, <1>2, BodiesEmpty, CatFacts
  <2>3. \A p : ~Occurs(p, c)
    BY <1>2 DEF Occurs
  <2>4. QED  BY <2>1, <2>2, <2>3
<1>3. CASE c # <<>>
  <2> DEFINE W == Append(K, c)
             n == Len(K)
  <2>1. Closing(K, c) = W
    BY <1>3 DEF Closing
  <2>2. /\ W \in Seq(Lists) /\ n \in Nat /\ Len(W) = n + 1 /\ W[n + 1] = c
        /\ \A i \in 1 .. n : W[i] = K[i]
    OBVIOUS
  <2>3. Bodies(FlattenSeq(W)) = Cat(Bodies(FlattenSeq(K)), Bodies(c))
    BY <1>1, FlattenFacts, BodiesConcat
  <2> HIDE DEF W
  <2>4. ASSUME NEW p PROVE InChunks(p, W) <=> InChunks(p, K) \/ Occurs(p, c)
    <3>1. \A i \in 1 .. Len(W) : i \in 1 .. n \/ i = n + 1
      BY <2>2
    <3>2. n + 1 \in 1 .. Len(W) /\ \A i \in 1 .. n : i \in 1 .. Len(W)
      BY <2>2
    <3>3. QED  BY <2>2, <3>1, <3>2 DEF InChunks
  <2>5. \A i \in 1 .. Len(W) : W[i] = c \/ \E j \in 1 .. n : W[i] = K[j]
    BY <2>2
  <2>6. QED  BY <2>1, <2>2, <2>3, <2>4, <2>5
<1>4. QED
  BY <1>2, <1>3

-----------------------------------------------------------------------------
(* Chunks that are as they should be *)

\* Where each piece of a Cat comes from.
LEMMA CatIndices ==
  ASSUME NEW s \in Lists, NEW t \in Lists
  PROVE  /\ Len(s) \in Nat /\ Len(t) \in Nat /\ Len(Cat(s, t)) = Len(s) + Len(t)
         /\ \A i \in 1 .. Len(s) : Cat(s, t)[i] = s[i]
         /\ \A i \in 1 .. Len(t) : Cat(s, t)[Len(s) + i] = t[i]
         /\ \A k \in 1 .. Len(Cat(s, t)) :
              \/ k \in 1 .. Len(s)
              \/ \E i \in 1 .. Len(t) : k = Len(s) + i
<1>1. /\ Len(s) \in Nat /\ Len(t) \in Nat /\ Len(Cat(s, t)) = Len(s) + Len(t)
      /\ \A i \in 1 .. Len(s) : Cat(s, t)[i] = s[i]
      /\ \A i \in 1 .. Len(t) : Cat(s, t)[Len(s) + i] = t[i]
  BY DEF Cat, Lists
<1>2. ASSUME NEW k \in 1 .. Len(Cat(s, t)), ~(k \in 1 .. Len(s))
      PROVE  \E i \in 1 .. Len(t) : k = Len(s) + i
  <2>1. k - Len(s) \in 1 .. Len(t) /\ k = Len(s) + (k - Len(s))
    BY <1>1, <1>2
  <2>2. QED  BY <2>1
<1>3. QED
  BY <1>1, <1>2

\* Chunks with their headers in front stay so when put together.
LEMMA HeadedCat ==
  ASSUME NEW s \in Lists, NEW t \in Lists, Headed(s), Headed(t)
  PROVE  Headed(Cat(s, t))
<1> DEFINE w == Cat(s, t)
           m == Len(s)
<1>1. /\ m \in Nat /\ Len(t) \in Nat
      /\ \A i \in 1 .. m : w[i] = s[i]
      /\ \A i \in 1 .. Len(t) : w[m + i] = t[i]
      /\ \A k \in 1 .. Len(w) : k \in 1 .. m \/ \E i \in 1 .. Len(t) : k = m + i
  BY CatIndices
<1> HIDE DEF w, m
<1>2. ASSUME NEW k \in 1 .. Len(w) PROVE \E j \in 1 .. k : w[j] = Header(w[k][1])
  <2>1. CASE k \in 1 .. m
    <3>1. PICK j \in 1 .. k : s[j] = Header(s[k][1])
      BY <2>1 DEF Headed, m
    <3>2. j \in 1 .. m
      BY <1>1, <2>1
    <3>3. QED  BY <1>1, <2>1, <3>1, <3>2
  <2>2. ASSUME NEW i \in 1 .. Len(t), k = m + i PROVE \E j \in 1 .. k : w[j] = Header(w[k][1])
    <3>1. PICK j \in 1 .. i : t[j] = Header(t[i][1])
      BY DEF Headed
    <3>2. j \in 1 .. Len(t) /\ m + j \in 1 .. k
      BY <1>1, <2>2
    <3>3. w[m + j] = t[j] /\ w[k] = t[i]
      BY <1>1, <2>2, <3>2
    <3>4. QED  BY <3>1, <3>2, <3>3
  <2>3. QED  BY <1>1, <2>1, <2>2
<1>3. QED
  BY <1>2 DEF Headed, w

\* Chunks that hold whole files stay so when put together.
LEMMA WholeCat ==
  ASSUME NEW h, NEW s \in Lists, NEW t \in Lists, Whole(h, s), Whole(h, t)
  PROVE  Whole(h, Cat(s, t))
<1> SUFFICES ASSUME NEW f \in Reviewable, SizeIn(h, Section(h, f)) <= ReviewBudget,
                    NEW k \in 1 .. Len(Cat(s, t)), Cat(s, t)[k][1] = f,
                    NEW l \in 1 .. Len(Section(h, f))
             PROVE  Occurs(Section(h, f)[l], Cat(s, t))
  BY DEF Whole
<1>1. (\E i \in 1 .. Len(s) : s[i][1] = f) \/ (\E i \in 1 .. Len(t) : t[i][1] = f)
  <2>1. CASE k \in 1 .. Len(s)
    <3>1. Cat(s, t)[k] = s[k]
      BY <2>1, CatIndices
    <3>2. QED  BY <2>1, <3>1
  <2>2. ASSUME NEW i \in 1 .. Len(t), k = Len(s) + i PROVE t[i][1] = f
    <3>1. Cat(s, t)[k] = t[i]
      BY <2>2, CatIndices
    <3>2. QED  BY <3>1
  <2>3. k \in 1 .. Len(s) \/ \E i \in 1 .. Len(t) : k = Len(s) + i
    BY CatIndices
  <2>4. QED  BY <2>1, <2>2, <2>3
<1>2. Occurs(Section(h, f)[l], s) \/ Occurs(Section(h, f)[l], t)
  BY <1>1 DEF Whole
<1>3. QED
  BY <1>2, OccursCat

\* The empty chunk breaks no promise.
LEMMA EmptyFine ==
  ASSUME NEW h
  PROVE  Fine(h, <<>>)
<1>1. Len(<<>>) = 0 /\ SizeIn(h, <<>>) = 0
  BY SizeEmpty
<1>2. Headed(<<>>) /\ Sized(h, <<>>)
  BY <1>1, ConstantFacts DEF Headed, Sized
<1>3. Whole(h, <<>>)
  BY <1>1 DEF Whole
<1>4. QED
  BY <1>2, <1>3 DEF Fine

\* A list of pieces of one file that begins with its header
LEMMA OneFileHeaded ==
  ASSUME NEW s, NEW f, s[1] = Header(f), \A k \in 1 .. Len(s) : s[k][1] = f
  PROVE  Headed(s)
<1>1. \A k \in 1 .. Len(s) : 1 \in 1 .. k
  OBVIOUS
<1>2. QED
  BY <1>1 DEF Headed

\* A section that fits a chunk, or has no hunk, makes a fine chunk.
LEMMA SectionFine ==
  ASSUME NEW h \in Sizes, NEW f \in Files,
         SizeIn(h, Section(h, f)) <= ReviewBudget \/ h[f] = <<>>
  PROVE  Fine(h, Section(h, f))
<1> DEFINE s == Section(h, f)
<1>1. /\ s \in Lists /\ Known(h, s) /\ s[1] = Header(f) /\ \A k \in 1 .. Len(s) : s[k][1] = f
      /\ Bodies(s) = Hunks(h, f)
  BY SectionFacts
<1>2. Headed(s)
  BY <1>1, OneFileHeaded
<1>3. Sized(h, s)
  <2>1. CASE h[f] = <<>>
    <3>1. Len(Bodies(s)) = 0
      BY <1>1, <2>1, HunksFacts
    <3>2. QED  BY <3>1 DEF Sized
  <2>2. CASE SizeIn(h, s) <= ReviewBudget
    <3>1. SizeIn(h, s) \in Nat
      BY <1>1, SizeType
    <3>2. QED  BY <2>2, <3>1, ConstantFacts DEF Sized
  <2>3. QED  BY <2>1, <2>2
<1>4. Whole(h, s)
  <2> HIDE DEF s
  <2>1. \A l \in 1 .. Len(s) : Occurs(s[l], s)
    BY DEF Occurs
  <2>2. \A g : (\E k \in 1 .. Len(s) : s[k][1] = g) => g = f
    BY <1>1
  <2>3. QED  BY <2>1, <2>2 DEF Whole, s
<1>5. QED
  BY <1>2, <1>3, <1>4 DEF Fine

\* The part in hand makes a chunk that is as it should be.
LEMMA InHandFine ==
  ASSUME NEW h \in Sizes, NEW T, NEW R, NEW C, NEW P, Known(h, C), Known(h, P),
         Cutting(h, T, R, C, P), Fine(h, C), Len(P) > 1, T[1] \in Files
  PROVE  Fine(h, Cat(C, P)) /\ Known(h, Cat(C, P))
<1>1. C \in Lists /\ P \in Lists /\ Len(P) \in Nat
  BY DEF Known, Lists
<1>2. P # <<>>
  BY <1>1
<1>3. /\ P[1] = Header(T[1]) /\ \A k \in 1 .. Len(P) : P[k][1] = T[1]
      /\ SizeIn(h, Section(h, T[1])) > ReviewBudget
      /\ \/ SizeIn(h, C) + SizeIn(h, P) <= ReviewBudget
         \/ C = <<>> /\ Len(Bodies(P)) <= 1
  BY <1>2 DEF Cutting
<1>4. Headed(Cat(C, P))
  BY <1>1, <1>3, OneFileHeaded, HeadedCat DEF Fine
<1>5. Whole(h, Cat(C, P))
  <2>1. SizeIn(h, Section(h, T[1])) \in Nat /\ ReviewBudget \in Nat
    BY SectionFacts, SizeType, ConstantFacts
  <2>2. Whole(h, P)
    BY <1>3, <2>1 DEF Whole
  <2>3. QED  BY <1>1, <2>2, WholeCat DEF Fine
<1>6. Known(h, Cat(C, P)) /\ SizeIn(h, Cat(C, P)) = SizeIn(h, C) + SizeIn(h, P)
  BY SizeConcat DEF Cat
<1>7. Sized(h, Cat(C, P))
  <2>1. CASE SizeIn(h, C) + SizeIn(h, P) <= ReviewBudget
    <3>1. SizeIn(h, C) \in Nat /\ SizeIn(h, P) \in Nat /\ ReviewBudget \in Nat
      BY SizeType, ConstantFacts
    <3>2. QED  BY <1>6, <2>1, <3>1 DEF Sized
  <2>2. CASE C = <<>> /\ Len(Bodies(P)) <= 1
    <3>1. Cat(C, P) = P
      BY <1>1, <2>2, CatFacts
    <3>2. QED  BY <2>2, <3>1 DEF Sized
  <2>3. QED  BY <1>3, <2>1, <2>2
<1>8. QED
  BY <1>4, <1>5, <1>6, <1>7 DEF Fine

\* Closing a fine chunk leaves all chunks fine.
LEMMA ClosingFine ==
  ASSUME NEW h, NEW K \in Seq(Lists), NEW c \in Lists, Fine(h, c),
         \A i \in 1 .. Len(K) : Fine(h, K[i])
  PROVE  \A i \in 1 .. Len(Closing(K, c)) : Fine(h, Closing(K, c)[i])
BY ClosingFacts

\* The text of one more section
LEMMA TextNext ==
  ASSUME NEW h \in Sizes, NEW S \in Seq(Reviewable), NEW n \in Nat, n + 1 <= Len(S)
  PROVE  /\ Text(h, S, n) \in Lists
         /\ Text(h, S, n + 1) = Cat(Text(h, S, n), Hunks(h, S[n + 1]))
<1> DEFINE q == [i \in 1 .. n |-> Section(h, S[i])]
           w == [i \in 1 .. (n + 1) |-> Section(h, S[i])]
           x == Section(h, S[n + 1])
<1>1. \A i \in 1 .. (n + 1) : S[i] \in Files
  <2>1. \A i \in 1 .. (n + 1) : i \in 1 .. Len(S)
    OBVIOUS
  <2>2. \A i \in 1 .. Len(S) : S[i] \in Reviewable
    OBVIOUS
  <2>3. QED  BY <2>1, <2>2, ConstantFacts
<1>2. /\ \A i \in 1 .. (n + 1) : Section(h, S[i]) \in Lists
      /\ x \in Lists /\ Bodies(x) = Hunks(h, S[n + 1])
  BY <1>1, SectionFacts
<1>3. q \in Seq(Lists)
  BY <1>2
<1>4. w = Append(q, x)
  <2>1. w \in Seq(Lists) /\ Len(w) = n + 1 /\ Append(q, x) \in Seq(Lists)
        /\ Len(Append(q, x)) = n + 1
    BY <1>2, <1>3
  <2>2. \A i \in 1 .. (n + 1) : w[i] = Append(q, x)[i]
    <3>1. Len(q) = n /\ \A i \in 1 .. n : Append(q, x)[i] = q[i] /\ q[i] = w[i]
      BY <1>2, <1>3, AppendProperties
    <3>2. Append(q, x)[n + 1] = x /\ w[n + 1] = x
      BY <1>2, <1>3, <3>1, AppendProperties
    <3>3. \A i \in 1 .. (n + 1) : i \in 1 .. n \/ i = n + 1
      OBVIOUS
    <3>4. QED  BY <3>1, <3>2, <3>3
  <2>3. QED
    BY <2>1, <2>2, SeqEqual
<1> HIDE DEF q, x, w
<1>5. FlattenSeq(q) \in Lists /\ FlattenSeq(w) = Cat(FlattenSeq(q), x)
  BY <1>2, <1>3, <1>4, FlattenFacts
<1>6. Bodies(FlattenSeq(q)) \in Lists /\ Bodies(FlattenSeq(w)) = Cat(Bodies(FlattenSeq(q)), Bodies(x))
  BY <1>2, <1>5, BodiesType, BodiesConcat
<1>7. QED
  BY <1>2, <1>6 DEF Text, q, w

-----------------------------------------------------------------------------
(* The moves of chunk_diff keep Packing *)

\* The first section to come
LEMMA NextSection ==
  ASSUME NEW S \in Seq(Reviewable), NEW T \in Seq(Reviewable), Ending(T, S), T # <<>>
  PROVE  /\ T[1] \in Reviewable /\ T[1] \in Files
         /\ Len(S) - Len(T) \in Nat /\ (Len(S) - Len(T)) + 1 <= Len(S)
         /\ S[(Len(S) - Len(T)) + 1] = T[1]
         /\ Tail(T) \in Seq(Reviewable) /\ Ending(Tail(T), S)
         /\ Len(S) - Len(Tail(T)) = (Len(S) - Len(T)) + 1
         /\ \A p : Occurs(p, T) <=> p = T[1] \/ Occurs(p, Tail(T))
<1> DEFINE m == Len(S)
           n == Len(T)
           U == Tail(T)
<1>1. m \in Nat /\ n \in Nat /\ n <= m /\ \A j \in 1 .. n : T[j] = S[(m - n) + j]
  BY DEF Ending
<1>2. /\ 1 \in 1 .. n /\ T[1] \in Reviewable /\ U \in Seq(Reviewable) /\ Len(U) = n - 1
      /\ \A i \in 1 .. (n - 1) : U[i] = T[i + 1]
      /\ \A p : Occurs(p, T) <=> p = T[1] \/ Occurs(p, U)
  BY OccursTail
<1> HIDE DEF m, n, U
<1>3. m - n \in Nat /\ (m - n) + 1 <= m /\ S[(m - n) + 1] = T[1] /\ m - Len(U) = (m - n) + 1
  BY <1>1, <1>2
<1>4. ASSUME NEW j \in 1 .. Len(U) PROVE U[j] = S[(m - Len(U)) + j]
  <2>1. j + 1 \in 1 .. n /\ (m - n) + (j + 1) = (m - Len(U)) + j /\ j \in 1 .. (n - 1)
    BY <1>1, <1>2
  <2>2. U[j] = T[j + 1] /\ T[j + 1] = S[(m - n) + (j + 1)]
    BY <1>1, <1>2, <2>1
  <2>3. QED  BY <2>1, <2>2
<1>5. Len(U) <= m
  BY <1>1, <1>2
<1>6. QED
  BY <1>2, <1>3, <1>4, <1>5, ConstantFacts DEF m, n, U, Ending

\* What is held after text is added to the open chunk, or it is closed.
LEMMA HeldFacts ==
  ASSUME NEW K \in Seq(Lists), NEW C \in Lists, NEW x \in Lists, NEW p
  PROVE  /\ Held(p, K, Cat(C, x)) <=> Held(p, K, C) \/ Occurs(p, x)
         /\ Held(p, Closing(K, C), x) <=> Held(p, K, C) \/ Occurs(p, x)
BY OccursCat, ClosingFacts DEF Held

\* The hunks packed after text is added to the open chunk, or it is closed.
LEMMA PackedFacts ==
  ASSUME NEW K \in Seq(Lists), NEW C \in Lists, NEW x \in Lists
  PROVE  /\ Packed(K, C) \in Lists /\ Bodies(x) \in Lists
         /\ Packed(K, Cat(C, x)) = Cat(Packed(K, C), Bodies(x))
         /\ Packed(Closing(K, C), x) = Cat(Packed(K, C), Bodies(x))
<1> DEFINE k == Bodies(FlattenSeq(K))
           c == Bodies(C)
           b == Bodies(x)
<1>1. k \in Lists /\ c \in Lists /\ b \in Lists
  BY FlattenFacts, BodiesType
<1>2. Bodies(Cat(C, x)) = Cat(c, b)
  BY BodiesConcat
<1>3. Bodies(FlattenSeq(Closing(K, C))) = Cat(k, c)
  BY ClosingFacts
<1> HIDE DEF k, c, b
<1>4. Cat(k, c) \in Lists /\ Cat(Cat(k, c), b) = Cat(k, Cat(c, b))
  BY <1>1, CatFacts, CatAssociative
<1>5. QED
  BY <1>1, <1>2, <1>3, <1>4 DEF Packed, k, c, b

\* The first section to come is put away whole.
LEMMA PutAway ==
  ASSUME NEW h \in Sizes, NEW S, NEW T, NEW R, NEW C, NEW P, NEW K, NEW D, NEW L,
         T # <<>>, PackTypes(h, S, T, R, C, P, K), Placed(h, S, T, R, C, P, K),
         \A p : Held(p, K, C) => Held(p, L, D),
         \A k \in 1 .. Len(Section(h, T[1])) : Held(Section(h, T[1])[k], L, D)
  PROVE  Placed(h, S, Tail(T), R, D, <<>>, L)
<1>1. \A p : Occurs(p, T) <=> p = T[1] \/ Occurs(p, Tail(T))
  BY NextSection DEF PackTypes
<1>2. ASSUME NEW i \in 1 .. Len(S), ~Occurs(S[i], Tail(T)), NEW k \in 1 .. Len(Section(h, S[i]))
      PROVE  Held(Section(h, S[i])[k], L, D)
  <2>1. CASE S[i] = T[1]
    BY <2>1
  <2>2. CASE S[i] # T[1]
    <3>1. ~Occurs(S[i], T)
      BY <1>1, <1>2, <2>2
    <3>2. Held(Section(h, S[i])[k], K, C)
      BY <3>1 DEF Placed
    <3>3. QED  BY <3>2
  <2>3. QED  BY <2>1, <2>2
<1>3. QED
  BY <1>2 DEF Placed

\* A section that fits joins the chunk.
LEMMA FitMove ==
  ASSUME NEW h \in Sizes, NEW S, NEW T, NEW R, NEW C, NEW K,
         Packing(h, S, T, R, C, <<>>, K), T # <<>>,
         SizeIn(h, C) + SizeIn(h, Section(h, T[1])) <= ReviewBudget
  PROVE  Packing(h, S, Tail(T), R, Cat(C, Section(h, T[1])), <<>>, K)
<1> DEFINE s == Section(h, T[1])
           n == Len(S) - Len(T)
<1>1. /\ S \in Seq(Reviewable) /\ T \in Seq(Reviewable) /\ Ending(T, S)
      /\ Known(h, C) /\ C \in Lists /\ K \in Seq(Lists) /\ R = <<>> /\ Known(h, R)
  BY DEF Packing, PackTypes, Cutting, Known, Lists
<1>2. /\ T[1] \in Files /\ n \in Nat /\ n + 1 <= Len(S) /\ S[n + 1] = T[1]
      /\ Tail(T) \in Seq(Reviewable) /\ Ending(Tail(T), S) /\ Len(S) - Len(Tail(T)) = n + 1
  BY <1>1, NextSection
<1>3. s \in Lists /\ Known(h, s) /\ Bodies(s) = Hunks(h, T[1])
  BY <1>2, SectionFacts
<1>4. SizeIn(h, C) \in Nat /\ SizeIn(h, s) \in Nat /\ ReviewBudget \in Nat
  BY <1>1, <1>3, SizeType, ConstantFacts
<1>5. Known(h, Cat(C, s)) /\ SizeIn(h, Cat(C, s)) = SizeIn(h, C) + SizeIn(h, s)
  BY <1>1, <1>3, SizeConcat DEF Cat
<1>6. PackTypes(h, S, Tail(T), R, Cat(C, s), <<>>, K)
  BY <1>1, <1>2, <1>5, SizeEmpty DEF PackTypes
<1>7. Cutting(h, Tail(T), R, Cat(C, s), <<>>)
  BY <1>1 DEF Cutting
<1>8. Placed(h, S, Tail(T), R, Cat(C, s), <<>>, K)
  <2>1. \A p : Held(p, K, Cat(C, s)) <=> Held(p, K, C) \/ Occurs(p, s)
    BY <1>1, <1>3, HeldFacts
  <2>2. \A k \in 1 .. Len(s) : Occurs(s[k], s)
    BY DEF Occurs
  <2>3. QED  BY <2>1, <2>2, PutAway DEF Packing
<1>9. Ordered(h, S, Tail(T), R, Cat(C, s), <<>>, K)
  <2>1. Packed(K, Cat(C, s)) = Cat(Packed(K, C), Hunks(h, T[1]))
    BY <1>1, <1>3, PackedFacts
  <2>2. Packed(K, C) = Text(h, S, n)
    BY DEF Packing, Ordered
  <2>3. Text(h, S, n + 1) = Cat(Text(h, S, n), Hunks(h, T[1]))
    BY <1>1, <1>2, TextNext
  <2>4. QED  BY <1>2, <2>1, <2>2, <2>3 DEF Ordered
<1>10. AllFine(h, Cat(C, s), K)
  <2>1. Fine(h, C) /\ \A i \in 1 .. Len(K) : Fine(h, K[i])
    BY DEF Packing, AllFine
  <2>2. Fine(h, s)
    BY <1>2, <1>4, SectionFine
  <2>3. Sized(h, Cat(C, s))
    BY <1>4, <1>5 DEF Sized
  <2>4. QED  BY <1>1, <1>3, <2>1, <2>2, <2>3, HeadedCat, WholeCat DEF Fine, AllFine
<1>11. QED
  BY <1>6, <1>7, <1>8, <1>9, <1>10 DEF Packing

\* A section that does not, and fits a chunk or cannot be cut, starts the next.
LEMMA WholeMove ==
  ASSUME NEW h \in Sizes, NEW S, NEW T, NEW R, NEW C, NEW K,
         Packing(h, S, T, R, C, <<>>, K), T # <<>>,
         SizeIn(h, Section(h, T[1])) <= ReviewBudget \/ h[T[1]] = <<>>
  PROVE  Packing(h, S, Tail(T), R, Section(h, T[1]), <<>>, Closing(K, C))
<1> DEFINE s == Section(h, T[1])
           n == Len(S) - Len(T)
<1>1. /\ S \in Seq(Reviewable) /\ T \in Seq(Reviewable) /\ Ending(T, S)
      /\ Known(h, C) /\ C \in Lists /\ K \in Seq(Lists) /\ R = <<>> /\ Known(h, R)
  BY DEF Packing, PackTypes, Cutting, Known, Lists
<1>2. /\ T[1] \in Files /\ n \in Nat /\ n + 1 <= Len(S) /\ S[n + 1] = T[1]
      /\ Tail(T) \in Seq(Reviewable) /\ Ending(Tail(T), S) /\ Len(S) - Len(Tail(T)) = n + 1
  BY <1>1, NextSection
<1>3. s \in Lists /\ Known(h, s) /\ Bodies(s) = Hunks(h, T[1])
  BY <1>2, SectionFacts
<1>4. Closing(K, C) \in Seq(Lists)
  BY <1>1, ClosingFacts
<1>5. PackTypes(h, S, Tail(T), R, s, <<>>, Closing(K, C))
  BY <1>1, <1>2, <1>3, <1>4, SizeEmpty DEF PackTypes
<1>6. Cutting(h, Tail(T), R, s, <<>>)
  BY <1>1 DEF Cutting
<1>7. Placed(h, S, Tail(T), R, s, <<>>, Closing(K, C))
  <2>1. \A p : Held(p, Closing(K, C), s) <=> Held(p, K, C) \/ Occurs(p, s)
    BY <1>1, <1>3, HeldFacts
  <2>2. \A k \in 1 .. Len(s) : Occurs(s[k], s)
    BY DEF Occurs
  <2>3. QED  BY <2>1, <2>2, PutAway DEF Packing
<1>8. Ordered(h, S, Tail(T), R, s, <<>>, Closing(K, C))
  <2>1. Packed(Closing(K, C), s) = Cat(Packed(K, C), Hunks(h, T[1]))
    BY <1>1, <1>3, PackedFacts
  <2>2. Packed(K, C) = Text(h, S, n)
    BY DEF Packing, Ordered
  <2>3. Text(h, S, n + 1) = Cat(Text(h, S, n), Hunks(h, T[1]))
    BY <1>1, <1>2, TextNext
  <2>4. QED  BY <1>2, <2>1, <2>2, <2>3 DEF Ordered
<1>9. AllFine(h, s, Closing(K, C))
  <2>1. Fine(h, C) /\ \A i \in 1 .. Len(K) : Fine(h, K[i])
    BY DEF Packing, AllFine
  <2>2. Fine(h, s)
    BY <1>2, SectionFine
  <2>3. QED  BY <1>1, <2>1, <2>2, ClosingFine DEF AllFine
<1>10. QED
  BY <1>5, <1>6, <1>7, <1>8, <1>9 DEF Packing

\* A section that fits no chunk is taken in hand to be cut.
LEMMA CutMove ==
  ASSUME NEW h \in Sizes, NEW S, NEW T, NEW R, NEW C, NEW K,
         Packing(h, S, T, R, C, <<>>, K), T # <<>>,
         ~(SizeIn(h, Section(h, T[1])) <= ReviewBudget), h[T[1]] # <<>>
  PROVE  Packing(h, S, T, Hunks(h, T[1]), C, <<Header(T[1])>>, K)
<1> DEFINE s == Section(h, T[1])
           a == <<Header(T[1])>>
           b == Hunks(h, T[1])
           n == Len(S) - Len(T)
<1>1. /\ S \in Seq(Reviewable) /\ T \in Seq(Reviewable) /\ Ending(T, S)
      /\ Known(h, C) /\ C \in Lists /\ K \in Seq(Lists)
  BY DEF Packing, PackTypes, Cutting, Known, Lists
<1>2. T[1] \in Files /\ n \in Nat /\ n + 1 <= Len(S) /\ S[n + 1] = T[1]
  BY <1>1, NextSection
<1>3. s \in Lists /\ Known(h, s) /\ s = Cat(a, b)
  BY <1>2, SectionFacts DEF Section
<1>4. /\ a \in Lists /\ Known(h, a) /\ Bodies(a) = <<>>
      /\ Header(T[1])[1] = T[1] /\ Header(T[1])[2] = 0
  BY <1>2, HeaderFacts
<1>5. a # <<>> /\ Len(a) = 1 /\ a[1] = Header(T[1])
  OBVIOUS
<1>6. /\ b \in Lists /\ Known(h, b) /\ Len(b) = Len(h[T[1]]) /\ Len(b) \in Nat
      /\ \A k \in 1 .. Len(b) : b[k] = <<T[1], k>>
  BY <1>2, HunksFacts
<1> HIDE DEF a, b, s
<1>7. PackTypes(h, S, T, b, C, a, K)
  BY <1>1, <1>4, <1>6 DEF PackTypes
<1>8. Cutting(h, T, b, C, a)
  <2>1. \A k \in 1 .. Len(a) : a[k][1] = T[1]
    BY <1>4, <1>5
  <2>2. \A k \in 1 .. Len(b) : b[k][1] = T[1] /\ b[k][2] # 0
    BY <1>6
  <2>3. SizeIn(h, s) > ReviewBudget
    <3>1. SizeIn(h, s) \in Nat /\ ReviewBudget \in Nat
      BY <1>3, SizeType, ConstantFacts
    <3>2. QED  BY <3>1 DEF s
  <2>4. b # <<>>
    <3>1. h[T[1]] \in Seq(Nat)
      BY <1>2 DEF Sizes
    <3>2. Len(h[T[1]]) # 0
      BY <3>1
    <3>3. QED  BY <1>6, <3>2
  <2>5. QED  BY <1>5, <2>1, <2>2, <2>3, <2>4 DEF Cutting, s
<1>9. Placed(h, S, T, b, C, a, K)
  <2>1. \A k \in 1 .. Len(s) : Occurs(s[k], a) \/ Occurs(s[k], b)
    <3>1. \A k \in 1 .. Len(s) : Occurs(s[k], s)
      BY DEF Occurs
    <3>2. QED  BY <1>3, <1>4, <1>6, <3>1, OccursCat
  <2>2. QED  BY <2>1 DEF Packing, Placed, s
<1>10. Ordered(h, S, T, b, C, a, K)
  <2>1. Packed(K, C) = Text(h, S, n)
    BY DEF Packing, Ordered
  <2>2. Text(h, S, n + 1) = Cat(Text(h, S, n), b)
    BY <1>1, <1>2, TextNext DEF b
  <2>3. Cat(Bodies(a), b) = b
    BY <1>4, <1>6, CatFacts
  <2>4. QED  BY <1>5, <2>1, <2>2, <2>3 DEF Ordered
<1>11. QED
  BY <1>7, <1>8, <1>9, <1>10 DEF Packing, a, b

\* The first hunk to come of the file being cut
OneMore(h, T, R, C, P, K) ==
  /\ T[1] \in Files /\ C \in Lists /\ P \in Lists /\ R \in Lists /\ K \in Seq(Lists)
  /\ Len(P) \in Nat \ {0} /\ Bodies(P) \in Lists
  /\ R[1] \in Pieces /\ R[1][1] = T[1] /\ SizeAt(h, R[1]) \in Nat
  /\ <<R[1]>> \in Lists /\ Known(h, <<R[1]>>) /\ Bodies(<<R[1]>>) = <<R[1]>>
  /\ SizeIn(h, <<R[1]>>) = SizeAt(h, R[1])
  /\ Tail(R) \in Lists /\ Known(h, Tail(R)) /\ R = Cat(<<R[1]>>, Tail(R))
  /\ \A k \in 1 .. Len(Tail(R)) : Tail(R)[k][1] = T[1] /\ Tail(R)[k][2] # 0
  /\ \A p : Occurs(p, R) <=> p = R[1] \/ Occurs(p, Tail(R))

\* What the packing knows of the next hunk of the file it cuts.
LEMMA NextHunk ==
  ASSUME NEW h \in Sizes, NEW S, NEW T, NEW R, NEW C, NEW P, NEW K,
         Packing(h, S, T, R, C, P, K), P # <<>>, R # <<>>
  PROVE  OneMore(h, T, R, C, P, K)
<1>1. /\ S \in Seq(Reviewable) /\ T \in Seq(Reviewable) /\ Ending(T, S)
      /\ Known(h, C) /\ C \in Lists /\ K \in Seq(Lists)
      /\ Known(h, P) /\ P \in Lists /\ Known(h, R) /\ R \in Lists
  BY DEF Packing, PackTypes, Known, Lists
<1>2. T # <<>> /\ \A k \in 1 .. Len(R) : R[k][1] = T[1] /\ R[k][2] # 0
  BY DEF Packing, Cutting
<1>3. T[1] \in Files
  BY <1>1, <1>2, NextSection
<1>4. Len(P) \in Nat \ {0} /\ Bodies(P) \in Lists
  BY <1>1, BodiesType DEF Lists
<1> DEFINE U == Tail(R)
           m == Len(R)
<1>5. /\ 1 \in 1 .. m /\ R[1] \in Pieces /\ U \in Seq(Pieces) /\ Len(U) = m - 1 /\ m \in Nat
      /\ \A i \in 1 .. (m - 1) : U[i] = R[i + 1]
      /\ \A p : Occurs(p, R) <=> p = R[1] \/ Occurs(p, U)
  BY <1>1, OccursTail DEF Lists
<1>6. R = Cat(<<R[1]>>, U)
  <2>1. R \in Seq(Pieces) /\ R # <<>>
    BY <1>1 DEF Lists
  <2>2. R = <<Head(R)>> \o Tail(R) /\ Head(R) = R[1]
    BY <2>1, HeadTailProperties
  <2>3. QED  BY <2>2 DEF Cat
<1> HIDE DEF U
<1>7. /\ SizeAt(h, R[1]) \in Nat /\ R[1][1] = T[1] /\ R[1][2] # 0
  BY <1>1, <1>2, <1>5 DEF Known
<1>8. \A k \in 1 .. Len(U) : k + 1 \in 1 .. m /\ U[k] = R[k + 1]
  BY <1>5
<1>9. /\ \A k \in 1 .. Len(U) : U[k][1] = T[1] /\ U[k][2] # 0
      /\ Known(h, U) /\ U \in Lists
  BY <1>1, <1>2, <1>5, <1>8 DEF Known, Lists
<1>10. Known(h, <<R[1]>>) /\ SizeIn(h, <<R[1]>>) = SizeAt(h, R[1])
  BY <1>5, <1>7, SizeOne
<1>11. <<R[1]>> \in Lists /\ Bodies(<<R[1]>>) = <<R[1]>>
  BY <1>5, <1>7, BodiesOne DEF Body, Lists
<1>12. QED
  BY <1>1, <1>3, <1>4, <1>5, <1>6, <1>7, <1>9, <1>10, <1>11 DEF U, OneMore

\* A hunk joins what is in hand.
LEMMA JoinMove ==
  ASSUME NEW h \in Sizes, NEW S, NEW T, NEW R, NEW C, NEW P, NEW K,
         Packing(h, S, T, R, C, P, K), P # <<>>, R # <<>>,
         SizeIn(h, C) + SizeIn(h, P) + SizeAt(h, R[1]) <= ReviewBudget
  PROVE  Packing(h, S, T, Tail(R), C, Append(P, R[1]), K)
<1> DEFINE r == <<R[1]>>
           U == Tail(R)
           Q == Append(P, R[1])
<1>1. /\ C \in Lists /\ P \in Lists /\ R \in Lists /\ K \in Seq(Lists)
      /\ Len(P) \in Nat \ {0} /\ Bodies(P) \in Lists
      /\ R[1] \in Pieces /\ R[1][1] = T[1] /\ SizeAt(h, R[1]) \in Nat
      /\ r \in Lists /\ Known(h, r) /\ Bodies(r) = r /\ SizeIn(h, r) = SizeAt(h, R[1])
      /\ U \in Lists /\ Known(h, U) /\ R = Cat(r, U)
      /\ \A k \in 1 .. Len(U) : U[k][1] = T[1] /\ U[k][2] # 0
      /\ \A p : Occurs(p, R) <=> p = R[1] \/ Occurs(p, U)
  <2>1. OneMore(h, T, R, C, P, K)
    BY NextHunk
  <2>2. QED  BY <2>1 DEF OneMore
<1>2. Known(h, C) /\ Known(h, P)
  BY DEF Packing, PackTypes
<1>3. Q = Cat(P, r)
  <2>1. P \in Seq(Pieces)
    BY <1>1 DEF Lists
  <2>2. QED  BY <1>1, <2>1, AppendIsConcat DEF Cat
<1>4. /\ Len(Q) = Len(P) + 1 /\ Q[Len(P) + 1] = R[1]
      /\ \A k \in 1 .. Len(P) : Q[k] = P[k]
  <2>1. P \in Seq(Pieces)
    BY <1>1 DEF Lists
  <2>2. QED  BY <1>1, <2>1, AppendProperties
<1>5. \A p : Occurs(p, r) <=> p = R[1]
  BY DEF Occurs
<1> HIDE DEF r, U, Q
<1>6. Known(h, Q) /\ SizeIn(h, Q) = SizeIn(h, P) + SizeAt(h, R[1]) /\ Q \in Lists
  BY <1>1, <1>2, <1>3, SizeConcat, CatFacts DEF Cat
<1>7. Q # <<>> /\ Len(Q) > 1
  <2>1. Len(Q) > 1
    BY <1>1, <1>4
  <2>2. QED  BY <2>1
<1>8. PackTypes(h, S, T, U, C, Q, K)
  BY <1>1, <1>6 DEF Packing, PackTypes
<1>9. Cutting(h, T, U, C, Q)
  <2>1. /\ T # <<>> /\ P[1] = Header(T[1]) /\ \A k \in 1 .. Len(P) : P[k][1] = T[1]
        /\ SizeIn(h, Section(h, T[1])) > ReviewBudget
    BY DEF Packing, Cutting
  <2>2. Q[1] = Header(T[1])
    BY <1>1, <1>4, <2>1
  <2>3. \A k \in 1 .. Len(Q) : Q[k][1] = T[1]
    <3>1. \A k \in 1 .. Len(Q) : k \in 1 .. Len(P) \/ k = Len(P) + 1
      BY <1>1, <1>4
    <3>2. QED  BY <1>1, <1>4, <2>1, <3>1
  <2>4. SizeIn(h, C) + SizeIn(h, Q) <= ReviewBudget
    <3>1. SizeIn(h, C) \in Nat /\ SizeIn(h, P) \in Nat /\ ReviewBudget \in Nat
      BY <1>2, SizeType, ConstantFacts
    <3>2. QED  BY <1>1, <1>6, <3>1
  <2>5. ~(Len(Q) = 1)
    BY <1>1, <1>4
  <2>6. QED  BY <1>1, <1>7, <2>1, <2>2, <2>3, <2>4, <2>5 DEF Cutting
<1>10. Placed(h, S, T, U, C, Q, K)
  <2>1. \A p : Occurs(p, Q) \/ Occurs(p, U) <=> Occurs(p, P) \/ Occurs(p, R)
    BY <1>1, <1>3, <1>5, OccursCat
  <2>2. QED  BY <2>1 DEF Packing, Placed
<1>11. Ordered(h, S, T, U, C, Q, K)
  <2>1. Bodies(Q) = Cat(Bodies(P), r)
    BY <1>1, <1>3, BodiesConcat
  <2>2. Cat(Bodies(Q), U) = Cat(Bodies(P), R)
    BY <1>1, <2>1, CatAssociative
  <2>3. QED  BY <1>7, <2>2 DEF Packing, Ordered
<1>12. QED
  BY <1>8, <1>9, <1>10, <1>11 DEF Packing, U, Q

\* What a full chunk holds, as Filled has it
Full(C, P) == IF Len(P) > 1 THEN Cat(C, P) ELSE C

\* The header alone is no text.
LEMMA FullFacts ==
  ASSUME NEW h \in Sizes, NEW S, NEW T, NEW R, NEW C, NEW P, NEW K,
         Packing(h, S, T, R, C, P, K), P # <<>>, R # <<>>
  PROVE  /\ Full(C, P) \in Lists /\ Fine(h, Full(C, P))
         /\ Packed(K, Full(C, P)) = Cat(Packed(K, C), Bodies(P))
         /\ \A p : Held(p, K, C) => Held(p, K, Full(C, P))
         /\ \A p : Occurs(p, P) => p = Header(T[1]) \/ Held(p, K, Full(C, P))
<1>1. OneMore(h, T, R, C, P, K)
  BY NextHunk
<1>2. /\ T[1] \in Files /\ C \in Lists /\ P \in Lists /\ K \in Seq(Lists)
      /\ Len(P) \in Nat \ {0} /\ Bodies(P) \in Lists
  BY <1>1 DEF OneMore
<1>3. Cutting(h, T, R, C, P) /\ Known(h, C) /\ Known(h, P) /\ Fine(h, C)
  BY DEF Packing, PackTypes, AllFine
<1>4. CASE Len(P) > 1
  <2>1. Full(C, P) = Cat(C, P)
    BY <1>4 DEF Full
  <2>2. Fine(h, Cat(C, P)) /\ Cat(C, P) \in Lists
    BY <1>2, <1>3, <1>4, InHandFine, CatFacts
  <2>3. Packed(K, Cat(C, P)) = Cat(Packed(K, C), Bodies(P))
    BY <1>2, PackedFacts
  <2>4. \A p : Held(p, K, Cat(C, P)) <=> Held(p, K, C) \/ Occurs(p, P)
    BY <1>2, HeldFacts
  <2>5. QED  BY <2>1, <2>2, <2>3, <2>4
<1>5. CASE ~(Len(P) > 1)
  <2>1. Full(C, P) = C
    BY <1>5 DEF Full
  <2>2. Len(P) = 1 /\ P[1] = Header(T[1])
    <3>1. P[1] = Header(T[1])
      BY <1>3 DEF Cutting
    <3>2. \A n \in Nat \ {0} : ~(n > 1) => n = 1
      OBVIOUS
    <3>3. QED  BY <1>2, <1>5, <3>1, <3>2
  <2>3. P = <<Header(T[1])>>
    BY <1>2, <2>2 DEF Lists
  <2>4. Bodies(P) = <<>>
    BY <1>2, <2>3, HeaderFacts
  <2>5. Packed(K, C) \in Lists
    BY <1>2, PackedFacts
  <2>6. Packed(K, C) = Cat(Packed(K, C), Bodies(P))
    BY <2>4, <2>5, CatFacts
  <2>7. \A p : Occurs(p, P) => p = Header(T[1])
    BY <2>2 DEF Occurs
  <2>8. QED  BY <1>2, <1>3, <2>1, <2>6, <2>7
<1>6. QED
  BY <1>4, <1>5

\* A hunk that does not fit starts a chunk under its file's header.
LEMMA FullMove ==
  ASSUME NEW h \in Sizes, NEW S, NEW T, NEW R, NEW C, NEW P, NEW K,
         Packing(h, S, T, R, C, P, K), P # <<>>, R # <<>>
  PROVE  Packing(h, S, T, Tail(R), <<>>, <<Header(T[1]), R[1]>>, Closing(K, Full(C, P)))
<1> DEFINE r == <<R[1]>>
           U == Tail(R)
           a == <<Header(T[1])>>
           Q == <<Header(T[1]), R[1]>>
           F == Full(C, P)
           L == Closing(K, F)
<1>1. /\ C \in Lists /\ P \in Lists /\ R \in Lists /\ K \in Seq(Lists)
      /\ Len(P) \in Nat \ {0} /\ Bodies(P) \in Lists
      /\ R[1] \in Pieces /\ R[1][1] = T[1] /\ SizeAt(h, R[1]) \in Nat
      /\ r \in Lists /\ Known(h, r) /\ Bodies(r) = r
      /\ U \in Lists /\ Known(h, U) /\ R = Cat(r, U) /\ T[1] \in Files
      /\ \A k \in 1 .. Len(U) : U[k][1] = T[1] /\ U[k][2] # 0
      /\ \A p : Occurs(p, R) <=> p = R[1] \/ Occurs(p, U)
  <2>1. OneMore(h, T, R, C, P, K)
    BY NextHunk
  <2>2. QED  BY <2>1 DEF OneMore
<1>2. /\ F \in Lists /\ Fine(h, F) /\ Packed(K, F) = Cat(Packed(K, C), Bodies(P))
      /\ \A p : Held(p, K, C) => Held(p, K, F)
      /\ \A p : Occurs(p, P) => p = Header(T[1]) \/ Held(p, K, F)
  BY FullFacts
<1>3. a \in Lists /\ Known(h, a) /\ Bodies(a) = <<>> /\ Header(T[1])[1] = T[1]
  BY <1>1, HeaderFacts
<1>4. Q = Cat(a, r)
  BY DEF Cat
<1>5. Q # <<>> /\ Len(Q) = 2 /\ Q[1] = Header(T[1]) /\ Q[2] = R[1] /\ Len(r) = 1
  OBVIOUS
<1> HIDE DEF r, U, Q, F, a, L
<1>6. Q \in Lists /\ Known(h, Q) /\ Bodies(Q) = r
  <2>1. Known(h, Q)
    BY <1>1, <1>3, <1>4, SizeConcat DEF Cat
  <2>2. Q \in Lists
    BY <1>1, <1>3, <1>4, CatFacts
  <2>3. Bodies(Q) = Cat(<<>>, r)
    BY <1>1, <1>3, <1>4, BodiesConcat
  <2>4. Cat(<<>>, r) = r
    BY <1>1, CatFacts
  <2>5. QED  BY <2>1, <2>2, <2>3, <2>4
<1>7. /\ L \in Seq(Lists) /\ <<>> \in Lists
      /\ \A p : Held(p, L, <<>>) <=> Held(p, K, F) \/ Occurs(p, <<>>)
      /\ Packed(L, <<>>) = Cat(Packed(K, F), Bodies(<<>>)) /\ Packed(K, F) \in Lists
  <2>1. <<>> \in Lists
    BY CatFacts
  <2>2. L \in Seq(Lists)
    BY <1>1, <1>2, ClosingFacts DEF L
  <2>3. \A p : Held(p, L, <<>>) <=> Held(p, K, F) \/ Occurs(p, <<>>)
    BY <1>1, <1>2, <2>1, HeldFacts DEF L
  <2>4. Packed(L, <<>>) = Cat(Packed(K, F), Bodies(<<>>)) /\ Packed(K, F) \in Lists
    BY <1>1, <1>2, <2>1, PackedFacts DEF L
  <2>5. QED  BY <2>1, <2>2, <2>3, <2>4
<1>8. PackTypes(h, S, T, U, <<>>, Q, L)
  BY <1>1, <1>6, <1>7, SizeEmpty DEF Packing, PackTypes
<1>9. Cutting(h, T, U, <<>>, Q)
  <2>1. T # <<>> /\ SizeIn(h, Section(h, T[1])) > ReviewBudget
    BY DEF Packing, Cutting
  <2>2. \A k \in 1 .. Len(Q) : k = 1 \/ k = 2
    BY <1>5
  <2>3. \A k \in 1 .. Len(Q) : Q[k][1] = T[1]
    BY <1>1, <1>3, <1>5, <2>2
  <2>4. Len(Bodies(Q)) <= 1 /\ ~(Len(Q) = 1)
    BY <1>5, <1>6
  <2>5. QED  BY <1>1, <1>5, <2>1, <2>3, <2>4 DEF Cutting
<1>10. Placed(h, S, T, U, <<>>, Q, L)
  <2>1. \A p : Held(p, K, C) => Held(p, L, <<>>)
    BY <1>2, <1>7
  <2>2. 1 \in 1 .. Len(Q) /\ 2 \in 1 .. Len(Q)
    BY <1>5
  <2>3. Occurs(Header(T[1]), Q) /\ Occurs(R[1], Q)
    BY <1>5, <2>2 DEF Occurs
  <2>4. ASSUME NEW p, Held(p, K, C) \/ Occurs(p, P) \/ Occurs(p, R)
        PROVE  Held(p, L, <<>>) \/ Occurs(p, Q) \/ Occurs(p, U)
    BY <1>1, <1>2, <1>7, <2>3, <2>4
  <2>5. QED  BY <2>1, <2>4 DEF Packing, Placed
<1>11. Ordered(h, S, T, U, <<>>, Q, L)
  <2>1. Packed(L, <<>>) = Cat(Packed(K, C), Bodies(P)) /\ Packed(K, C) \in Lists
    BY <1>1, <1>2, <1>7, BodiesEmpty, CatFacts, PackedFacts
  <2>2. Cat(Bodies(Q), U) = R
    BY <1>1, <1>6
  <2>3. Cat(Cat(Packed(K, C), Bodies(P)), R) = Cat(Packed(K, C), Cat(Bodies(P), R))
    BY <1>1, <2>1, CatAssociative
  <2>4. QED  BY <1>5, <2>1, <2>2, <2>3 DEF Packing, Ordered
<1>12. AllFine(h, <<>>, L)
  <2>1. \A i \in 1 .. Len(K) : Fine(h, K[i])
    BY DEF Packing, AllFine
  <2>2. QED  BY <1>1, <1>2, <2>1, ClosingFine, EmptyFine DEF AllFine, L
<1>13. QED
  BY <1>8, <1>9, <1>10, <1>11, <1>12 DEF Packing, U, Q, L, F

\* The last hunk of a file is in hand.
LEMMA EndFileMove ==
  ASSUME NEW h \in Sizes, NEW S, NEW T, NEW C, NEW P, NEW K,
         Packing(h, S, T, <<>>, C, P, K), P # <<>>
  PROVE  Packing(h, S, Tail(T), <<>>, Cat(C, P), <<>>, K)
<1> DEFINE n == Len(S) - Len(T)
<1>1. /\ S \in Seq(Reviewable) /\ T \in Seq(Reviewable) /\ Ending(T, S)
      /\ Known(h, C) /\ C \in Lists /\ K \in Seq(Lists) /\ Known(h, P) /\ P \in Lists
      /\ Known(h, <<>>)
  BY DEF Packing, PackTypes, Known, Lists
<1>2. T # <<>> /\ ~(Len(P) = 1) /\ Cutting(h, T, <<>>, C, P)
  BY DEF Packing, Cutting
<1>3. Len(P) > 1
  <2>1. Len(P) \in Nat /\ Len(P) # 0
    BY <1>1 DEF Lists
  <2>2. \A i \in Nat : i # 0 /\ i # 1 => i > 1
    OBVIOUS
  <2>3. QED  BY <1>2, <2>1, <2>2
<1>4. /\ T[1] \in Files /\ n \in Nat /\ n + 1 <= Len(S)
      /\ Tail(T) \in Seq(Reviewable) /\ Ending(Tail(T), S) /\ Len(S) - Len(Tail(T)) = n + 1
  BY <1>1, <1>2, NextSection
<1>5. Fine(h, C) /\ \A i \in 1 .. Len(K) : Fine(h, K[i])
  BY DEF Packing, AllFine
<1>6. Fine(h, Cat(C, P)) /\ Known(h, Cat(C, P))
  BY <1>1, <1>2, <1>3, <1>4, <1>5, InHandFine
<1>7. PackTypes(h, S, Tail(T), <<>>, Cat(C, P), <<>>, K)
  BY <1>1, <1>4, <1>6 DEF PackTypes
<1>8. Cutting(h, Tail(T), <<>>, Cat(C, P), <<>>)
  BY DEF Cutting
<1>9. Placed(h, S, Tail(T), <<>>, Cat(C, P), <<>>, K)
  <2>1. \A p : Held(p, K, Cat(C, P)) <=> Held(p, K, C) \/ Occurs(p, P)
    BY <1>1, HeldFacts
  <2>2. \A p : ~Occurs(p, <<>>)
    BY DEF Occurs
  <2>3. \A k \in 1 .. Len(Section(h, T[1])) : Held(Section(h, T[1])[k], K, Cat(C, P))
    BY <2>1, <2>2 DEF Packing, Placed
  <2>4. QED  BY <1>2, <2>1, <2>3, PutAway DEF Packing
<1>10. Ordered(h, S, Tail(T), <<>>, Cat(C, P), <<>>, K)
  <2>1. Packed(K, Cat(C, P)) = Cat(Packed(K, C), Bodies(P)) /\ Bodies(P) \in Lists
    BY <1>1, PackedFacts
  <2>2. Cat(Packed(K, C), Cat(Bodies(P), <<>>)) = Text(h, S, n + 1)
    BY DEF Packing, Ordered
  <2>3. Cat(Bodies(P), <<>>) = Bodies(P)
    BY <2>1, CatFacts
  <2>4. QED  BY <1>4, <2>1, <2>2, <2>3 DEF Ordered
<1>11. QED
  BY <1>5, <1>6, <1>7, <1>8, <1>9, <1>10 DEF Packing, AllFine

\* All is packed: the chunks hold the text of the sections, each of its pieces
\* is in one, and each is as it should be.
Delivered(h, S, K) ==
  /\ K \in Seq(Lists)
  /\ Bodies(FlattenSeq(K)) = Text(h, S, Len(S))
  /\ \A i \in 1 .. Len(S) : \A k \in 1 .. Len(Section(h, S[i])) : InChunks(Section(h, S[i])[k], K)
  /\ \A i \in 1 .. Len(K) : Fine(h, K[i])

\* When no section is left, closing the open chunk delivers the diff.
LEMMA EndMove ==
  ASSUME NEW h \in Sizes, NEW S, NEW R, NEW C, NEW P, NEW K,
         Packing(h, S, <<>>, R, C, P, K)
  PROVE  Delivered(h, S, Closing(K, C)) /\ P = <<>> /\ R = <<>>
<1>1. S \in Seq(Reviewable) /\ C \in Lists /\ K \in Seq(Lists)
  BY DEF Packing, PackTypes, Known, Lists
<1>2. P = <<>> /\ R = <<>>
  BY DEF Packing, Cutting
<1>3. Closing(K, C) \in Seq(Lists) /\ Bodies(FlattenSeq(Closing(K, C))) = Packed(K, C)
  BY <1>1, ClosingFacts DEF Packed
<1>4. Packed(K, C) = Text(h, S, Len(S))
  <2>1. Len(S) - Len(<<>>) = Len(S)
    BY <1>1
  <2>2. QED  BY <1>2, <2>1 DEF Packing, Ordered
<1>5. ASSUME NEW i \in 1 .. Len(S), NEW k \in 1 .. Len(Section(h, S[i]))
      PROVE  InChunks(Section(h, S[i])[k], Closing(K, C))
  <2>1. ~Occurs(S[i], <<>>)
    BY DEF Occurs
  <2>2. Held(Section(h, S[i])[k], K, C)
    BY <2>1 DEF Packing, Placed
  <2>3. QED  BY <1>1, <2>2, ClosingFacts DEF Held
<1>6. \A i \in 1 .. Len(Closing(K, C)) : Fine(h, Closing(K, C)[i])
  BY <1>1, ClosingFine DEF Packing, AllFine
<1>7. QED
  BY <1>2, <1>3, <1>4, <1>5, <1>6 DEF Delivered

\* Nothing is packed yet.
LEMMA StartMove ==
  ASSUME NEW h \in Sizes, NEW S \in Seq(Reviewable)
  PROVE  Packing(h, S, S, <<>>, <<>>, <<>>, <<>>)
<1>1. Len(S) \in Nat /\ Len(S) - Len(S) = 0 /\ \A j \in 1 .. Len(S) : 0 + j = j
  OBVIOUS
<1>2. Ending(S, S)
  BY <1>1 DEF Ending
<1>3. PackTypes(h, S, S, <<>>, <<>>, <<>>, <<>>)
  <2>1. <<>> \in Seq(Lists)
    OBVIOUS
  <2>2. QED  BY <1>2, <2>1, SizeEmpty DEF PackTypes
<1>4. Cutting(h, S, <<>>, <<>>, <<>>)
  BY DEF Cutting
<1>5. Placed(h, S, S, <<>>, <<>>, <<>>, <<>>)
  <2>1. \A i \in 1 .. Len(S) : Occurs(S[i], S)
    BY DEF Occurs
  <2>2. QED  BY <2>1 DEF Placed
<1>6. Ordered(h, S, S, <<>>, <<>>, <<>>, <<>>)
  <2>1. Packed(<<>>, <<>>) = <<>>
    BY FlattenFacts, BodiesEmpty, CatFacts DEF Packed
  <2>2. [i \in 1 .. 0 |-> Section(h, S[i])] = <<>>
    OBVIOUS
  <2>3. Text(h, S, 0) = <<>>
    BY <2>2, FlattenFacts, BodiesEmpty DEF Text
  <2>4. QED  BY <1>1, <2>1, <2>3 DEF Ordered
<1>7. AllFine(h, <<>>, <<>>)
  BY EmptyFine DEF AllFine
<1>8. QED
  BY <1>3, <1>4, <1>5, <1>6, <1>7 DEF Packing

-----------------------------------------------------------------------------
(* The listing of a set of files *)

\* s goes through the elements of S upwards.
Upwards(s, S) ==
  s \in [1 .. Cardinality(S) -> S] /\ \A i, j \in 1 .. Cardinality(S) : i < j => s[i] < s[j]
Sortable(S) == \E s : Upwards(s, S)

\* A set of numbers that is not empty has a least one.
LEMMA Least ==
  ASSUME NEW S \in SUBSET Nat, S # {}
  PROVE  \E m \in S : \A x \in S : m <= x
<1> DEFINE R == OpToRel(<, Nat)
<1>1. IsWellFoundedOn(R, Nat)
  BY NatLessThanWellFounded
<1>2. \A x, y \in Nat : x < y => <<x, y>> \in R
  BY DEF OpToRel
<1> HIDE DEF R
<1>3. PICK m \in S : \A n \in S : ~(<<n, m>> \in R)
  BY <1>1, WFMin
<1>4. \A x \in S : x \in Nat /\ m \in Nat /\ ~(x < m)
  BY <1>2, <1>3
<1>5. QED
  BY <1>3, <1>4

\* Every finite set of numbers can be listed upwards.
LEMMA FiniteSortable ==
  ASSUME NEW S \in SUBSET Nat, IsFiniteSet(S)
  PROVE  Sortable(S)
<1> DEFINE X == {n \in Nat : \A T \in SUBSET Nat :
                               IsFiniteSet(T) /\ Cardinality(T) = n => Sortable(T)}
<1>1. 0 \in X
  <2> SUFFICES ASSUME NEW T \in SUBSET Nat, IsFiniteSet(T), Cardinality(T) = 0
               PROVE  Sortable(T)
    OBVIOUS
  <2> DEFINE s == [i \in 1 .. 0 |-> 0]
  <2>1. s \in [1 .. 0 -> T]
    OBVIOUS
  <2>2. Upwards(s, T)
    BY <2>1 DEF Upwards
  <2>3. QED  BY <2>2 DEF Sortable
<1>2. ASSUME NEW n \in X PROVE n + 1 \in X
  <2> SUFFICES ASSUME NEW T \in SUBSET Nat, IsFiniteSet(T), Cardinality(T) = n + 1
               PROVE  Sortable(T)
    OBVIOUS
  <2>1. n \in Nat
    OBVIOUS
  <2>2. T # {}
    BY <2>1, FS_EmptySet
  <2>3. PICK m \in T : \A x \in T : m <= x
    BY <2>2, Least
  <2> DEFINE U == T \ {m}
  <2>4. IsFiniteSet(U) /\ Cardinality(U) = n /\ U \in SUBSET Nat
    <3>1. IsFiniteSet(T \ {m}) /\ Cardinality(T \ {m}) = (n + 1) - 1
      BY FS_RemoveElement
    <3>2. (n + 1) - 1 = n
      BY <2>1
    <3>3. QED  BY <3>1, <3>2
  <2>5. Sortable(U)
    BY <1>2, <2>4
  <2>6. PICK t : Upwards(t, U)
    BY <2>5 DEF Sortable
  <2>7. t \in [1 .. n -> U] /\ \A i, j \in 1 .. n : i < j => t[i] < t[j]
    BY <2>4, <2>6 DEF Upwards
  <2>8. \A x \in U : x \in T /\ m < x
    <3>1. \A x \in U : x \in T /\ x # m /\ x \in Nat /\ m \in Nat /\ m <= x
      BY <2>3
    <3>2. QED  BY <3>1
  <2> HIDE DEF U, X
  <2> DEFINE s == [i \in 1 .. (n + 1) |-> IF i = 1 THEN m ELSE t[i - 1]]
  <2>9. \A i \in 1 .. (n + 1) : i # 1 => i - 1 \in 1 .. n /\ t[i - 1] \in U
    BY <2>1, <2>7
  <2>10. s \in [1 .. (n + 1) -> T]
    BY <2>8, <2>9
  <2>11. ASSUME NEW i \in 1 .. (n + 1), NEW j \in 1 .. (n + 1), i < j PROVE s[i] < s[j]
    <3>1. j # 1 /\ s[j] = t[j - 1] /\ j - 1 \in 1 .. n /\ t[j - 1] \in U
      BY <2>1, <2>9, <2>11
    <3>2. CASE i = 1
      BY <2>8, <3>1, <3>2
    <3>3. CASE i # 1
      <4>1. s[i] = t[i - 1] /\ i - 1 \in 1 .. n /\ i - 1 < j - 1
        BY <2>1, <2>9, <2>11, <3>3
      <4>2. t[i - 1] < t[j - 1]
        BY <2>7, <3>1, <4>1
      <4>3. QED  BY <3>1, <4>1, <4>2
    <3>4. QED  BY <3>2, <3>3
  <2> HIDE DEF s
  <2>12. Upwards(s, T)
    BY <2>10, <2>11 DEF Upwards
  <2>13. QED  BY <2>12 DEF Sortable
<1>3. X = Nat
  <2> HIDE DEF X
  <2>1. X \in SUBSET Nat
    BY DEF X
  <2>2. QED  BY <1>1, <1>2, <2>1, AllNumbers
<1>4. Cardinality(S) \in Nat
  BY FS_CardinalityType
<1>5. QED
  BY <1>3, <1>4

\* A listing names every file of its set, each once.
LEMMA SortedFacts ==
  ASSUME NEW S \in SUBSET Files
  PROVE  /\ IsFiniteSet(S) /\ Cardinality(S) \in Nat
         /\ Sorted(S) \in Seq(S) /\ Len(Sorted(S)) = Cardinality(S)
         /\ \A x \in S : Occurs(x, Sorted(S))
<1> DEFINE n == Cardinality(S)
           s == Sorted(S)
<1>1. IsFiniteSet(S) /\ S \in SUBSET Nat
  BY ConstantFacts, FS_Subset
<1>2. n \in Nat /\ Sortable(S)
  BY <1>1, FS_CardinalityType, FiniteSortable
<1>3. s \in [1 .. n -> S] /\ \A i, j \in 1 .. n : i < j => s[i] < s[j]
  <2>1. PICK t : Upwards(t, S)
    BY <1>2 DEF Sortable
  <2>2. t \in [1 .. n -> S] /\ \A i, j \in DOMAIN t : i < j => t[i] < t[j]
    BY <2>1 DEF Upwards
  <2>3. s \in [1 .. n -> S] /\ \A i, j \in DOMAIN s : i < j => s[i] < s[j]
    BY <2>2 DEF Sorted
  <2>4. QED  BY <2>3
<1> HIDE DEF n, s
<1>4. s \in Injection(1 .. n, S)
  <2>1. ASSUME NEW i \in 1 .. n, NEW j \in 1 .. n, s[i] = s[j] PROVE i = j
    <3>1. s[i] \in Nat /\ s[j] \in Nat
      BY <1>1, <1>3
    <3>2. ~(i < j) /\ ~(j < i)
      BY <1>3, <2>1, <3>1
    <3>3. QED  BY <1>2, <3>2
  <2>2. DOMAIN s = 1 .. n
    BY <1>3
  <2>3. QED  BY <1>3, <2>1, <2>2 DEF Injection, IsInjective
<1>5. s \in Surjection(1 .. n, S)
  <2>1. Cardinality(1 .. n) = n
    BY <1>2, FS_Interval
  <2>2. QED  BY <1>1, <1>4, <2>1, FS_Injection DEF n
<1>6. s \in Seq(S) /\ Len(s) = n
  BY <1>2, <1>3
<1>7. \A x \in S : Occurs(x, s)
  BY <1>5, <1>6 DEF Surjection, Occurs
<1>8. QED
  BY <1>1, <1>2, <1>6, <1>7 DEF n, s

-----------------------------------------------------------------------------
(* The inductive invariant *)

Before == {"count", "page", "plan", "git", "full"}
Behind == {"main", "first", "pool", "merge"}
Ended == {"done", "exit", "killed"}

\* Where the script may be
Stages ==
  /\ pc \in Ended \/ status = "missing"
  /\ scope = "pr" => pc \notin {"git", "full"}
  /\ scope = "git" => pc \notin {"count", "page", "plan", "full"} /\ pr = head
  /\ scope = "full" => pc \in {"full"} \cup Ended

\* What it cannot have done yet
Untouched ==
  /\ pc \in Before => /\ todo = <<>> /\ rest = <<>> /\ current = <<>> /\ piece = <<>>
                      /\ chunks = <<>>
  /\ pc \in Before \cup {"pack", "main", "first"} => results = <<>> /\ running = {}
  /\ pc \in {"count", "git"} => sections = <<>> /\ unfetched = {} /\ listed = 0
  /\ pc = "git" => ~gap
  /\ pc = "count" => ~grew /\ ~shrank

\* A page holds one file.
Paged == page = listed + 1

\* A file that was listed has a diff, or is known to have none.
Noted(f, S, U) == Occurs(f, S) \/ f \in U
Accounted(f) == Noted(f, sections, unfetched)

\* While the pages come in: the listing has kept up with the pull request, or
\* the count cannot match at its end.
Listed ==
  pc = "page" /\ changed # Unknown =>
    /\ ~grew /\ ~shrank =>
          /\ Cardinality(pr) = changed /\ listed <= changed
          /\ \A i \in 1 .. listed : Listing[i] \in Reviewable => Accounted(Listing[i])
    /\ grew /\ ~shrank => changed < Cardinality(pr)
    /\ ~grew /\ shrank =>
          /\ Cardinality(pr) < changed
          /\ listed >= changed => \A f \in pr \cap Reviewable : Accounted(f)

\* From the plan to the verdict: nothing left out, every file has a section.
Complete ==
  /\ pc \in {"plan", "pack"} \cup Behind \/ (Green /\ scope # "full")
  /\ ~LeftOut /\ ~(grew /\ shrank)
  => \A f \in pr \cap Reviewable : Occurs(f, sections)

PackInv == pc = "pack" => Packing(hunks, sections, todo, rest, current, piece, chunks)

\* The chunks are there: they hold the diff.
Shipped ==
  pc \in Behind \/ (Green /\ scope # "full") => Delivered(hunks, sections, chunks)

\* A verdict rests on the parts.
AllOk == DOMAIN results = 1 .. Parts /\ \A i \in 1 .. Parts : results[i] = "ok"
Verdict ==
  /\ pc = "first" => Parts > 0
  /\ pc = "merge" => AllOk
  /\ status = "ok" /\ scope # "full" => AllOk /\ ~LeftOut
  /\ status = "skipped" /\ scope # "full" => chunks = <<>> /\ ~LeftOut

Inv == TypeOK /\ Stages /\ Untouched /\ Paged /\ Listed /\ Complete /\ PackInv /\ Shipped /\ Verdict

\* How the review of a part may end.
LEMMA OutcomeFacts == Outcomes = {"ok", "truncated", "empty", "crash", "failed"}
BY DEF Outcomes, ReviewOnce, ReviewTextFromBody, PostReview

\* The operators of the model are the ones of the moves.
LEMMA Links ==
  /\ \A s : SizeOf(s) = SizeIn(hunks, s)
  /\ \A p : PieceSize(p) = SizeAt(hunks, p)
  /\ \A f : HunksOf(f) = Hunks(hunks, f) /\ FileSection(f) = Section(hunks, f)
  /\ \A c : Closed(c) = Closing(chunks, c)
  /\ Filled = Full(current, piece)
<1>1. ASSUME NEW s PROVE SizeOf(s) = SizeIn(hunks, s)
  BY DEF SizeOf, SizeIn, PieceSize, SizeAt
<1>2. \A p : PieceSize(p) = SizeAt(hunks, p)
  BY DEF PieceSize, SizeAt
<1>3. \A f : HunksOf(f) = Hunks(hunks, f) /\ FileSection(f) = Section(hunks, f)
  BY DEF HunksOf, Hunks, FileSection, Section, Cat
<1>4. \A c : Closed(c) = Closing(chunks, c)
  BY DEF Closed, Closing
<1>5. Filled = Full(current, piece)
  BY DEF Filled, Full, Cat
<1>6. QED
  BY <1>1, <1>2, <1>3, <1>4, <1>5

\* The script starts in the invariant.
LEMMA InitInv == Init => Inv
<1> SUFFICES ASSUME Init PROVE Inv
  OBVIOUS
<1>1. /\ results = <<>> /\ running = {} /\ chunks = <<>> /\ todo = <<>> /\ rest = <<>>
      /\ current = <<>> /\ piece = <<>> /\ sections = <<>>
  BY DEF Init
<1>2. /\ unfetched = {} /\ changed = Unknown /\ page = 1 /\ listed = 0
      /\ pr \in SUBSET Files /\ head = pr /\ fetched = "not yet"
      /\ status = "missing" /\ pushes = 0 /\ stale = {}
  BY DEF Init
<1>3. ~gap /\ ~grew /\ ~shrank
  BY Zenon DEF Init
<1>4. FlagsOK
  BY Zenon DEF Init, FlagsOK
<1>5. scope \in {"pr", "git", "full"} /\ pc = IF scope = "pr" THEN "count" ELSE scope
  BY DEF Init
<1>6. GivenOK
  BY ReviewAssumption DEF Init, GivenOK
<1>7. ListingOK
  
  <2>1. 0 \in 0 .. MaxPushes
    BY ReviewAssumption
  <2>2. QED  BY <1>2, <2>1 DEF ListingOK
<1>8. PackingOK
  BY <1>1 DEF PackingOK
<1>9. CallsOK
  <2>1. DOMAIN results = {}
    BY <1>1
  <2>2. results = [i \in {} |-> "ok"]
    BY <1>1
  <2>3. QED  BY <1>1, <2>1, <2>2 DEF CallsOK
<1>10. ProgressOK
  BY <1>2, <1>5 DEF ProgressOK
<1>11. Stages
  BY <1>2, <1>5 DEF Stages, Ended
<1>12. Untouched
  BY <1>3, <1>1, <1>2, <1>5 DEF Untouched, Before
<1>13. Listed /\ Complete /\ PackInv /\ Shipped /\ Verdict
  BY <1>2, <1>5 DEF Listed, Complete, PackInv, Shipped, Verdict, Behind, Green
<1>14. Paged
  <2>1. page = 1 /\ listed = 0
    BY <1>2
  <2>2. QED  BY <2>1 DEF Paged
<1>15. QED
  BY <1>6, <1>7, <1>8, <1>9, <1>10, <1>11, <1>12, <1>13, <1>4, <1>14 DEF Inv, TypeOK

-----------------------------------------------------------------------------
(* The steps behind the packing *)

\* A step that changes no more than the calls and the verdict, and has one only
\* where the chunks are
LEMMA LateStep ==
  ASSUME Inv, UNCHANGED <<given, pr, listing, packing, pushes, ghosts>>,
         pc' \in Behind \cup Ended, pc' \in {"main", "first"} => results' = <<>> /\ running' = {},
         pc' \in Behind => pc \in Behind,
         Green' => pc \in Behind \/ Green \/ scope = "full",
         CallsOK', ProgressOK', Stages', Verdict'
  PROVE  Inv'
<1>1. UNCHANGED given /\ UNCHANGED pr /\ UNCHANGED listing /\ UNCHANGED packing
      /\ UNCHANGED pushes /\ UNCHANGED ghosts
  OBVIOUS
<1>2. scope' = scope /\ hunks' = hunks /\ head' = head /\ pr' = pr /\ sections' = sections
      /\ chunks' = chunks /\ key' = key
  BY <1>1 DEF given, listing, packing
<1>3. changed' = changed /\ page' = page /\ listed' = listed /\ unfetched' = unfetched
      /\ fetched' = fetched /\ gap' = gap
  BY <1>1 DEF listing
<1>4. todo' = todo /\ rest' = rest /\ current' = current /\ piece' = piece
  BY <1>1 DEF packing
<1>5. grew' = grew /\ shrank' = shrank /\ stale' = stale
  BY <1>1 DEF ghosts
<1>6. GivenOK'
  BY <1>2 DEF Inv, TypeOK, GivenOK
<1>7. ListingOK'
  BY <1>1, <1>2, <1>3, <1>5 DEF Inv, TypeOK, ListingOK
<1>8. PackingOK'
  BY <1>2, <1>4 DEF Inv, TypeOK, PackingOK
<1>9. FlagsOK'
  BY <1>2, <1>3, <1>5 DEF Inv, TypeOK, FlagsOK
<1>10. pc' \notin Before \cup {"pack"} /\ pc' \notin {"count", "git", "page"} /\ pc' # "plan"
  BY DEF Before, Behind, Ended
<1>11. Untouched'
  BY <1>10 DEF Untouched
<1>12. Paged'
  BY <1>3 DEF Inv, Paged
<1>13. Listed' /\ PackInv'
  BY <1>10 DEF Listed, PackInv
<1>14. Complete'
  <2>1. LeftOut' = LeftOut
    BY <1>3 DEF LeftOut
  <2>2. Complete
    BY DEF Inv
  <2>3. pc' \in {"plan", "pack"} \cup Behind \/ (Green' /\ scope' # "full")
        => pc \in {"plan", "pack"} \cup Behind \/ (Green /\ scope # "full")
    BY <1>2, <1>10
  <2>4. QED  BY <1>2, <1>5, <2>1, <2>2, <2>3 DEF Complete
<1>15. Shipped'
  <2>1. pc' \in Behind \/ (Green' /\ scope' # "full") => pc \in Behind \/ (Green /\ scope # "full")
    BY <1>2
  <2>2. QED  BY <1>2, <2>1 DEF Inv, Shipped
<1>16. QED
  BY <1>6, <1>7, <1>8, <1>9, <1>11, <1>12, <1>13, <1>14, <1>15 DEF Inv, TypeOK

\* What the invariant says of the calls and of the verdict, and a step that
\* leaves the calls alone
LEMMA CallsKept ==
  ASSUME Inv, chunks' = chunks, results' = results, running' = running
  PROVE  CallsOK' /\ Parts' = Parts /\ (AllOk <=> AllOk')
<1>1. Parts' = Parts
  BY DEF Parts
<1>2. QED
  BY <1>1 DEF Inv, TypeOK, CallsOK, AllOk

\* main: without parts or a key, or over the budget, the review ends here.
LEMMA MainInv == ASSUME Inv, Main PROVE Inv'
<1>1. /\ pc = "main" /\ UNCHANGED <<given, pr, listing, packing, calls, pushes, ghosts>>
      /\ chunks' = chunks /\ results' = results /\ running' = running
      /\ scope' = scope /\ pr' = pr /\ head' = head /\ LeftOut' = LeftOut
  BY DEF Main, given, listing, packing, calls, LeftOut
<1>2. CallsOK' /\ Parts' = Parts
  BY <1>1, CallsKept
<1>3. \/ status' = "failed" /\ pc' = "done"
      \/ status' = status /\ pc' = "exit"
      \/ Parts = 0 /\ LeftOut /\ status' = "partial" /\ pc' = "done"
      \/ Parts = 0 /\ ~LeftOut /\ status' = "skipped" /\ pc' = "done"
      \/ status' \in {"no-key", "over-budget"} /\ pc' = "done"
      \/ Parts > 0 /\ pc' = "first" /\ status' = status
  <2>1. Parts \in Nat
    BY DEF Inv, TypeOK, PackingOK, Parts
  <2>2. QED  BY <2>1 DEF Main, Finish
<1>4. scope # "full" /\ status = "missing" /\ results = <<>> /\ running = {}
  BY <1>1 DEF Inv, Stages, Untouched, Ended
<1>5. ProgressOK'
  BY <1>3, <1>4 DEF ProgressOK
<1>6. Stages'
  BY <1>1, <1>3, <1>4 DEF Inv, Stages, Ended
<1>7. Parts = 0 => chunks = <<>>
  BY DEF Inv, TypeOK, PackingOK, Parts
<1>8. Verdict'
  BY <1>1, <1>2, <1>3, <1>4, <1>7 DEF Verdict
<1>9. pc' \in Behind \cup Ended /\ pc \in Behind
  BY <1>1, <1>3 DEF Behind, Ended
<1>10. QED
  BY <1>1, <1>2, <1>4, <1>5, <1>6, <1>8, <1>9, LateStep

\* A review of the whole code base is never about a pull request's diff.
LEMMA MainFullInv == ASSUME Inv, MainFull PROVE Inv'
<1>1. /\ pc = "full" /\ UNCHANGED <<given, pr, listing, packing, calls, pushes, ghosts>>
      /\ chunks' = chunks /\ results' = results /\ running' = running
      /\ scope' = scope /\ pr' = pr /\ head' = head
  BY DEF MainFull, given, listing, packing, calls
<1>0. /\ pc' \in {"done", "exit"}
      /\ pc' = "exit" => status' = status
      /\ pc' = "done" => status' \in {"failed", "skipped", "over-budget", "ok", "truncated",
                                     "empty", "no-key"}
  BY DEF MainFull, Finish
<1>2. CallsOK'
  BY <1>1, CallsKept
<1>3. scope = "full"
  BY <1>1 DEF Inv, TypeOK, GivenOK, Stages
<1>4. ProgressOK'
  BY <1>0 DEF Inv, TypeOK, ProgressOK
<1>5. Stages'
  BY <1>0, <1>1 DEF Inv, Stages, Ended
<1>6. Verdict'
  BY <1>0, <1>1, <1>3 DEF Verdict
<1>7. pc' \in Ended /\ pc' \notin Behind /\ pc' \notin {"main", "first"}
  BY <1>0 DEF Behind, Ended
<1>8. QED
  BY <1>1, <1>2, <1>3, <1>4, <1>5, <1>6, <1>7, LateStep

\* The script ends without a verdict.
LEMMA NoVerdict ==
  ASSUME Inv, UNCHANGED <<given, pr, listing, packing, calls, status, pushes, ghosts>>,
         pc' \in {"exit", "killed"}
  PROVE  Inv'
<1>1. /\ UNCHANGED <<given, pr, listing, packing, pushes, ghosts>>
      /\ chunks' = chunks /\ results' = results /\ running' = running
      /\ scope' = scope /\ pr' = pr /\ head' = head /\ status' = status
      /\ LeftOut' = LeftOut
  BY DEF given, listing, packing, calls, LeftOut
<1>2. CallsOK' /\ (AllOk <=> AllOk')
  BY <1>1, CallsKept
<1>3. ProgressOK'
  BY <1>1 DEF Inv, TypeOK, ProgressOK
<1>4. Stages'
  BY <1>1 DEF Inv, Stages, Ended
<1>5. Verdict'
  BY <1>1, <1>2 DEF Inv, Verdict
<1>6. pc' \in Ended /\ pc' \notin Behind /\ pc' \notin {"main", "first"} /\ Green' = Green
  BY <1>1 DEF Behind, Ended, Green
<1>7. QED
  BY <1>1, <1>2, <1>3, <1>4, <1>5, <1>6, LateStep

\* The first part is reviewed alone.
LEMMA ReviewFirstInv == ASSUME Inv, ReviewFirst PROVE Inv'
<1>1. /\ pc = "first" /\ UNCHANGED <<given, pr, listing, packing, pushes, ghosts>>
      /\ chunks' = chunks /\ running' = running
      /\ scope' = scope /\ pr' = pr /\ head' = head /\ LeftOut' = LeftOut /\ Parts' = Parts
  BY DEF ReviewFirst, given, listing, packing, LeftOut, Parts
<1>2. PICK outcome \in Outcomes :
        /\ results' = <<outcome>>
        /\ \/ status' = "failed" /\ pc' = "done"
           \/ status' = status /\ pc' = "exit"
           \/ /\ outcome # "crash" /\ Parts = 1 /\ pc' = "done"
              /\ status' = Marked(outcome)
           \/ Parts > 1 /\ pc' = "pool" /\ status' = status
  BY DEF ReviewFirst, RunNet, Finish
<1>3. scope # "full" /\ status = "missing" /\ running = {} /\ Parts \in Nat /\ Parts > 0
  <2>1. Parts \in Nat
    BY DEF Inv, TypeOK, PackingOK, Parts
  <2>2. QED  BY <1>1, <2>1 DEF Inv, Stages, Untouched, Verdict, Ended
<1>4. DOMAIN results' = 1 .. 1 /\ results'[1] = outcome
  BY <1>2
<1>5. CallsOK'
  <2>1. 1 .. 1 \subseteq 1 .. Parts
    BY <1>3
  <2>2. results' \in [1 .. 1 -> Outcomes]
    BY <1>2
  <2>3. QED  BY <1>1, <1>3, <1>4, <2>1, <2>2 DEF CallsOK
<1>6. outcome \in {"ok", "truncated", "empty", "crash", "failed"}
  BY OutcomeFacts
<1>7. outcome # "crash" => /\ Marked(outcome) \in {"ok", "truncated", "empty", "failed", "partial"}
                           /\ Marked(outcome) = "ok" => outcome = "ok" /\ ~LeftOut
  BY <1>6 DEF Marked
<1>8. ProgressOK'
  BY <1>2, <1>3, <1>7 DEF ProgressOK
<1>9. Stages'
  BY <1>1, <1>2, <1>3 DEF Inv, Stages, Ended
<1>10. status' # "skipped" /\ (status' = "ok" => Parts = 1 /\ outcome = "ok" /\ ~LeftOut)
  BY <1>2, <1>3, <1>7
<1>11. status' = "ok" => AllOk'
  BY <1>1, <1>4, <1>10 DEF AllOk
<1>12. Verdict'
  BY <1>1, <1>2, <1>10, <1>11 DEF Verdict
<1>13. pc' \in Behind \cup Ended /\ pc \in Behind /\ pc' \notin {"main", "first"}
  BY <1>1, <1>2 DEF Behind, Ended
<1>14. QED
  BY <1>1, <1>5, <1>8, <1>9, <1>12, <1>13, LateStep

\* A step of the pool: the calls change, no verdict yet
LEMMA PoolStep ==
  ASSUME Inv, pc = "pool", CallsOK',
         UNCHANGED <<given, pr, pc, listing, packing, status, pushes, ghosts>>
  PROVE  Inv'
<1>1. /\ UNCHANGED <<given, pr, listing, packing, pushes, ghosts>>
      /\ scope' = scope /\ pr' = pr /\ head' = head /\ pc' = pc /\ status' = status
  BY DEF given
<1>2. status = "missing"
  BY DEF Inv, Stages, Ended
<1>3. ProgressOK' /\ Stages'
  BY <1>1 DEF Inv, TypeOK, ProgressOK, Stages
<1>4. Verdict'
  BY <1>1, <1>2 DEF Verdict
<1>5. pc' \in Behind \cup Ended /\ pc \in Behind /\ pc' \notin {"main", "first"}
  BY <1>1 DEF Behind, Ended
<1>6. QED
  BY <1>1, <1>3, <1>4, <1>5, LateStep

\* A worker of the pool takes a part.
LEMMA StartPartInv == ASSUME Inv, StartPart PROVE Inv'
<1> DEFINE D == DOMAIN results \cup running
           part == 1 + Cardinality(D)
<1>1. /\ pc = "pool" /\ Cardinality(D) < Parts /\ running' = running \cup {part}
      /\ results' = results /\ Parts' = Parts
      /\ UNCHANGED <<given, pr, pc, listing, packing, status, pushes, ghosts>>
  BY DEF StartPart, packing, Parts
<1>2. Parts \in Nat
  BY DEF Inv, TypeOK, PackingOK, Parts
<1>3. CallsOK /\ D \subseteq 1 .. Parts
  BY DEF Inv, TypeOK, CallsOK
<1>4. Cardinality(D) \in Nat
  <2>1. IsFiniteSet(1 .. Parts)
    BY <1>2, FS_Interval
  <2>2. QED  BY <1>3, <2>1, FS_Subset, FS_CardinalityType
<1>5. part \in 1 .. Parts
  BY <1>1, <1>2, <1>4
<1>6. CallsOK'
  BY <1>1, <1>3, <1>5 DEF CallsOK
<1>7. QED
  BY <1>1, <1>6, PoolStep

\* A worker's part ends.
LEMMA PartDoneInv == ASSUME Inv, NEW part, PartDone(part) PROVE Inv'
<1>1. /\ pc = "pool" /\ part \in running /\ running' = running \ {part} /\ Parts' = Parts
      /\ UNCHANGED <<given, pr, pc, listing, packing, status, pushes, ghosts>>
  BY DEF PartDone, packing, Parts
<1>2. PICK outcome \in Outcomes :
        results' = [i \in DOMAIN results \cup {part} |-> IF i = part THEN outcome ELSE results[i]]
  BY DEF PartDone
<1>3. CallsOK
  BY DEF Inv, TypeOK
<1>4. DOMAIN results' = DOMAIN results \cup {part} /\ results' \in [DOMAIN results' -> Outcomes]
  BY <1>2, <1>3 DEF CallsOK
<1>5. CallsOK'
  BY <1>1, <1>3, <1>4 DEF CallsOK
<1>6. QED
  BY <1>1, <1>5, PoolStep

\* The outcomes of the parts are put together.
LEMMA ReviewInPartsInv == ASSUME Inv, ReviewInParts PROVE Inv'
<1>1. /\ pc = "pool" /\ UNCHANGED <<given, pr, listing, packing, pushes, ghosts>>
      /\ chunks' = chunks /\ running' = running /\ results' = results
      /\ scope' = scope /\ pr' = pr /\ head' = head /\ LeftOut' = LeftOut
      /\ DOMAIN results = 1 .. Parts
  BY DEF ReviewInParts, given, listing, packing, calls, LeftOut
<1>2. \/ status' = "failed" /\ pc' = "done"
      \/ status' = status /\ pc' = "exit"
      \/ Worst # "ok" /\ status' = Worst /\ pc' = "done"
      \/ ~Had("crash") /\ Worst = "ok" /\ pc' = "merge" /\ status' = status
  BY DEF ReviewInParts, RunNet, Finish
<1>3. scope # "full" /\ status = "missing"
  BY <1>1 DEF Inv, Stages, Ended
<1>4. CallsOK' /\ (AllOk <=> AllOk') /\ CallsOK
  BY <1>1, CallsKept DEF Inv, TypeOK
<1>5. Worst \in {"failed", "empty", "truncated", "ok"}
  BY DEF Worst
<1>6. ~Had("crash") /\ Worst = "ok" => AllOk
  <2>1. Worst = "ok" => ~Had("failed") /\ ~Had("empty") /\ ~Had("truncated")
    BY DEF Worst
  <2>2. \A i \in 1 .. Parts : results[i] \in {"ok", "truncated", "empty", "crash", "failed"}
    BY <1>1, <1>4, OutcomeFacts DEF CallsOK
  <2>3. QED  BY <1>1, <2>1, <2>2 DEF Had, AllOk
<1>7. ProgressOK'
  BY <1>2, <1>3, <1>5 DEF ProgressOK
<1>8. Stages'
  BY <1>1, <1>2, <1>3 DEF Inv, Stages, Ended
<1>9. status' # "ok" /\ status' # "skipped"
  BY <1>2, <1>3, <1>5
<1>10. Verdict'
  BY <1>2, <1>4, <1>6, <1>9 DEF Verdict
<1>11. pc' \in Behind \cup Ended /\ pc \in Behind /\ pc' \notin {"main", "first"}
  BY <1>1, <1>2 DEF Behind, Ended
<1>12. QED
  BY <1>1, <1>4, <1>7, <1>8, <1>10, <1>11, LateStep

\* One more call merges the reviews of the parts.
LEMMA MergePartsInv == ASSUME Inv, MergeParts PROVE Inv'
<1>1. /\ pc = "merge" /\ UNCHANGED <<given, pr, listing, packing, pushes, ghosts>>
      /\ chunks' = chunks /\ running' = running /\ results' = results
      /\ scope' = scope /\ pr' = pr /\ head' = head /\ LeftOut' = LeftOut
      /\ pc' \in {"done", "exit"} /\ status = "missing"
  BY DEF MergeParts, given, listing, packing, calls, LeftOut, RunNet, Finish, Inv, Stages, Ended
<1>2. PICK outcome \in Outcomes :
        \/ status' \in {"failed", status}
        \/ outcome # "crash" /\ status' = Marked(outcome)
  BY DEF MergeParts, RunNet, Finish
<1>3. CallsOK' /\ (AllOk <=> AllOk') /\ AllOk
  BY <1>1, CallsKept DEF Inv, Verdict
<1>4. outcome \in {"ok", "truncated", "empty", "crash", "failed"}
  BY OutcomeFacts
<1>5. outcome # "crash" => /\ Marked(outcome) \in {"ok", "truncated", "empty", "failed", "partial"}
                           /\ Marked(outcome) = "ok" => ~LeftOut
  BY <1>4 DEF Marked
<1>6. ProgressOK'
  BY <1>1, <1>2, <1>5 DEF ProgressOK
<1>7. Stages'
  BY <1>1 DEF Inv, Stages, Ended
<1>8. status' # "skipped" /\ (status' = "ok" => ~LeftOut)
  BY <1>1, <1>2, <1>5
<1>9. Verdict'
  BY <1>1, <1>3, <1>8 DEF Verdict
<1>10. pc' \in Behind \cup Ended /\ pc \in Behind /\ pc' \notin {"main", "first"}
  BY <1>1 DEF Behind, Ended
<1>11. QED
  BY <1>1, <1>3, <1>6, <1>7, <1>9, <1>10, LateStep

-----------------------------------------------------------------------------
(* The steps of the packing *)

\* Types from Packing
LEMMA PackTyped ==
  ASSUME NEW h, NEW S, NEW T, NEW R, NEW C, NEW P, NEW K, Packing(h, S, T, R, C, P, K)
  PROVE  /\ S \in Seq(Reviewable) /\ T \in Seq(Reviewable) /\ R \in Seq(Nat \X Nat)
         /\ C \in Seq(Nat \X Nat) /\ P \in Seq(Nat \X Nat) /\ K \in Seq(Seq(Nat \X Nat))
BY DEF Packing, PackTypes, Known, Lists, Pieces

\* A step of the packing changes nothing but the packing.
LEMMA PackStep ==
  ASSUME Inv, pc = "pack", PackingOK',
         UNCHANGED <<given, pr, listing, calls, status, pushes, ghosts>>,
         \/ /\ pc' = "pack"
            /\ Packing(hunks, sections, todo', rest', current', piece', chunks')
         \/ pc' = "main" /\ Delivered(hunks, sections, chunks')
  PROVE  Inv'
<1>1. scope' = scope /\ hunks' = hunks /\ head' = head /\ pr' = pr /\ sections' = sections
      /\ key' = key /\ status' = status /\ results' = results /\ running' = running
  BY DEF given, listing, calls
<1>2. changed' = changed /\ page' = page /\ listed' = listed /\ unfetched' = unfetched
      /\ fetched' = fetched /\ gap' = gap /\ pushes' = pushes /\ grew' = grew /\ shrank' = shrank /\ stale' = stale
  BY DEF listing, ghosts
<1>3. GivenOK'
  BY <1>1 DEF Inv, TypeOK, GivenOK
<1>4. ListingOK'
  BY <1>1, <1>2 DEF Inv, TypeOK, ListingOK
<1>5. FlagsOK'
  BY <1>1, <1>2 DEF Inv, TypeOK, FlagsOK
<1>6. status = "missing" /\ results = <<>> /\ running = {} /\ scope # "full" /\ ~Green'
  BY <1>1 DEF Inv, Stages, Untouched, Ended, Green
<1>7. CallsOK'
  <2>1. DOMAIN results = {} /\ results \in [DOMAIN results -> Outcomes]
    BY <1>6 DEF Inv, TypeOK, CallsOK
  <2>2. QED  BY <1>1, <1>6, <2>1 DEF CallsOK
<1>8. ProgressOK'
  BY <1>1, <1>6 DEF ProgressOK
<1>9. Stages'
  BY <1>1, <1>6 DEF Inv, Stages, Ended
<1>10. Untouched'
  BY <1>1, <1>6 DEF Untouched, Before
<1>11. Paged'
  BY <1>2 DEF Inv, Paged
<1>12. Listed' /\ PackInv' /\ Shipped' /\ Verdict'
  BY <1>1, <1>6 DEF Listed, PackInv, Shipped, Verdict, Behind
<1>13. Complete'
  <2>1. LeftOut' = LeftOut
    BY <1>2 DEF LeftOut
  <2>2. Complete
    BY DEF Inv
  <2>3. QED  BY <1>1, <1>2, <2>1, <2>2 DEF Complete
<1>14. QED
  BY <1>3, <1>4, <1>5, <1>7, <1>8, <1>9, <1>10, <1>11, <1>12, <1>13 DEF Inv, TypeOK

\* The next section is packed whole, or its cutting starts.
LEMMA ChunkDiffInv == ASSUME Inv, ChunkDiff PROVE Inv'
<1> DEFINE f == todo[1]
           s == Section(hunks, f)
           fits == SizeIn(hunks, current) + SizeIn(hunks, s) <= ReviewBudget
           whole == SizeIn(hunks, s) <= ReviewBudget \/ hunks[f] = <<>>
<1>1. /\ pc = "pack" /\ pc' = pc /\ todo # <<>> /\ piece = <<>>
      /\ UNCHANGED <<given, pr, listing, calls, status, pushes, ghosts>>
  BY DEF ChunkDiff
<1>2. hunks \in Sizes /\ Packing(hunks, sections, todo, rest, current, <<>>, chunks)
  BY <1>1 DEF Inv, TypeOK, GivenOK, PackInv, Sizes
<1>3. Head(todo) = f
  BY <1>1 DEF Inv, TypeOK, PackingOK
<1>4. \/ /\ fits /\ current' = Cat(current, s) /\ todo' = Tail(todo)
         /\ chunks' = chunks /\ rest' = rest /\ piece' = piece
      \/ /\ whole /\ chunks' = Closing(chunks, current) /\ current' = s /\ todo' = Tail(todo)
         /\ rest' = rest /\ piece' = piece
      \/ /\ ~whole /\ piece' = <<Header(f)>> /\ rest' = Hunks(hunks, f)
         /\ chunks' = chunks /\ current' = current /\ todo' = todo
  BY <1>3, Links DEF ChunkDiff, Cat
<1>5. Packing(hunks, sections, todo', rest', current', piece', chunks')
  <2>1. CASE fits /\ current' = Cat(current, s) /\ todo' = Tail(todo)
             /\ chunks' = chunks /\ rest' = rest /\ piece' = piece
    BY <1>1, <1>2, <2>1, FitMove
  <2>2. CASE whole /\ chunks' = Closing(chunks, current) /\ current' = s /\ todo' = Tail(todo)
             /\ rest' = rest /\ piece' = piece
    BY <1>1, <1>2, <2>2, WholeMove
  <2>3. CASE ~whole /\ piece' = <<Header(f)>> /\ rest' = Hunks(hunks, f)
             /\ chunks' = chunks /\ current' = current /\ todo' = todo
    BY <1>1, <1>2, <2>3, CutMove
  <2>4. QED  BY <1>4, <2>1, <2>2, <2>3
<1>6. PackingOK'
  <2>1. sections' = sections
    BY <1>1 DEF listing
  <2>2. QED  BY <1>5, <2>1, PackTyped DEF PackingOK
<1>7. QED
  BY <1>1, <1>5, <1>6, PackStep

\* A hunk of the file being cut joins the piece or starts the next.
LEMMA CutHunkInv == ASSUME Inv, CutHunk PROVE Inv'
<1> DEFINE p == rest[1]
<1>1. /\ pc = "pack" /\ pc' = pc /\ rest # <<>> /\ piece # <<>>
      /\ rest' = Tail(rest) /\ todo' = todo
      /\ UNCHANGED <<given, pr, listing, calls, status, pushes, ghosts>>
  BY DEF CutHunk
<1>2. hunks \in Sizes /\ Packing(hunks, sections, todo, rest, current, piece, chunks)
  BY <1>1 DEF Inv, TypeOK, GivenOK, PackInv, Sizes
<1>3. Head(rest) = p /\ p[1] = todo[1]
  <2>1. Head(rest) = p
    BY <1>1 DEF Inv, TypeOK, PackingOK
  <2>2. OneMore(hunks, todo, rest, current, piece, chunks)
    BY <1>1, <1>2, NextHunk
  <2>3. QED  BY <2>1, <2>2 DEF OneMore
<1>4. \/ /\ chunks' = Closing(chunks, Full(current, piece)) /\ current' = <<>>
         /\ piece' = <<Header(todo[1]), p>>
      \/ /\ ~(SizeIn(hunks, current) + SizeIn(hunks, piece) + SizeAt(hunks, p) > ReviewBudget)
         /\ piece' = Append(piece, p) /\ chunks' = chunks /\ current' = current
  BY <1>3, Links DEF CutHunk
<1>5. Packing(hunks, sections, todo', rest', current', piece', chunks')
  <2>1. CASE chunks' = Closing(chunks, Full(current, piece)) /\ current' = <<>>
             /\ piece' = <<Header(todo[1]), p>>
    BY <1>1, <1>2, <2>1, FullMove
  <2>2. CASE /\ ~(SizeIn(hunks, current) + SizeIn(hunks, piece) + SizeAt(hunks, p) > ReviewBudget)
             /\ piece' = Append(piece, p) /\ chunks' = chunks /\ current' = current
    <3>1. SizeIn(hunks, current) \in Nat /\ SizeIn(hunks, piece) \in Nat /\ ReviewBudget \in Nat
      BY <1>2, SizeType, ConstantFacts DEF Packing, PackTypes
    <3>2. SizeAt(hunks, p) \in Nat
      BY <1>1, <1>2, NextHunk DEF OneMore
    <3>3. SizeIn(hunks, current) + SizeIn(hunks, piece) + SizeAt(hunks, p) <= ReviewBudget
      BY <2>2, <3>1, <3>2
    <3>4. QED  BY <1>1, <1>2, <2>2, <3>3, JoinMove
  <2>3. QED  BY <1>4, <2>1, <2>2
<1>6. PackingOK'
  <2>1. sections' = sections
    BY <1>1 DEF listing
  <2>2. QED  BY <1>5, <2>1, PackTyped DEF PackingOK
<1>7. QED
  BY <1>1, <1>5, <1>6, PackStep

\* The last piece of a cut file is packed.
LEMMA EndOfFileInv == ASSUME Inv, EndOfFile PROVE Inv'
<1>1. /\ pc = "pack" /\ pc' = pc /\ rest = <<>> /\ piece # <<>>
      /\ rest' = rest /\ todo' = Tail(todo) /\ current' = Cat(current, piece) /\ piece' = <<>>
      /\ chunks' = chunks
      /\ UNCHANGED <<given, pr, listing, calls, status, pushes, ghosts>>
  BY DEF EndOfFile, Cat
<1>2. hunks \in Sizes /\ Packing(hunks, sections, todo, <<>>, current, piece, chunks)
  BY <1>1 DEF Inv, TypeOK, GivenOK, PackInv, Sizes
<1>3. Packing(hunks, sections, todo', rest', current', piece', chunks')
  BY <1>1, <1>2, EndFileMove
<1>4. PackingOK'
  <2>1. sections' = sections
    BY <1>1 DEF listing
  <2>2. QED  BY <1>3, <2>1, PackTyped DEF PackingOK
<1>5. QED
  BY <1>1, <1>3, <1>4, PackStep

\* The last chunk is closed.
LEMMA EndOfDiffInv == ASSUME Inv, EndOfDiff PROVE Inv'
<1>1. /\ pc = "pack" /\ pc' = "main" /\ todo = <<>> /\ chunks' = Closing(chunks, current)
      /\ current' = <<>> /\ todo' = todo /\ rest' = rest /\ piece' = piece
      /\ UNCHANGED <<given, pr, listing, calls, status, pushes, ghosts>>
  BY Links DEF EndOfDiff
<1>2. hunks \in Sizes /\ Packing(hunks, sections, <<>>, rest, current, piece, chunks)
  BY <1>1 DEF Inv, TypeOK, GivenOK, PackInv, Sizes
<1>3. Delivered(hunks, sections, chunks') /\ piece = <<>> /\ rest = <<>>
  BY <1>1, <1>2, EndMove
<1>4. PackingOK'
  <2>1. sections' = sections
    BY <1>1 DEF listing
  <2>2. chunks' \in Seq(Seq(Nat \X Nat))
    BY <1>3 DEF Delivered, Lists, Pieces
  <2>3. QED  BY <1>1, <2>1, <2>2 DEF Inv, TypeOK, PackingOK
<1>5. QED
  BY <1>1, <1>3, <1>4, PackStep

-----------------------------------------------------------------------------
(* The steps of the listing *)

\* A step before the plan is made leaves the rest of the state alone.
LEMMA ListStep ==
  ASSUME Inv, pc \in {"count", "page"}, pc' \in {"count", "page", "plan"},
         UNCHANGED <<given, packing, calls, status>>,
         ListingOK', sections' \in Seq(Reviewable), FlagsOK', Paged', Listed',
         pc' = "count" => pc = "count" /\ sections' = sections /\ unfetched' = unfetched
                          /\ listed' = listed /\ ~grew' /\ ~shrank',
         pc' = "plan" => Complete'
  PROVE  Inv'
<1>1. scope' = scope /\ hunks' = hunks /\ head' = head /\ key' = key /\ status' = status
      /\ results' = results /\ running' = running
  BY DEF given, calls
<1>2. todo' = todo /\ rest' = rest /\ current' = current /\ piece' = piece /\ chunks' = chunks
  BY DEF packing
<1>3. GivenOK'
  BY <1>1 DEF Inv, TypeOK, GivenOK
<1>4. PackingOK'
  BY <1>2 DEF Inv, TypeOK, PackingOK
<1>5. CallsOK'
  BY <1>1, <1>2, CallsKept
<1>6. scope = "pr" /\ status = "missing"
  BY DEF Inv, TypeOK, GivenOK, Stages, Ended
<1>7. ProgressOK'
  BY <1>1, <1>6 DEF ProgressOK
<1>8. Stages'
  BY <1>1, <1>6 DEF Stages
<1>9. /\ todo = <<>> /\ rest = <<>> /\ current = <<>> /\ piece = <<>> /\ chunks = <<>>
      /\ results = <<>> /\ running = {}
      /\ pc = "count" => sections = <<>> /\ unfetched = {} /\ listed = 0
  BY DEF Inv, Untouched, Before
<1>10. Untouched'
  BY <1>1, <1>2, <1>9 DEF Untouched
<1>11. ~Green' /\ pc' \notin Behind /\ pc' # "pack"
  BY <1>1, <1>6 DEF Green, Behind
<1>12. Complete'
  BY <1>11 DEF Complete
<1>13. PackInv' /\ Shipped' /\ Verdict'
  BY <1>1, <1>6, <1>11 DEF PackInv, Shipped, Verdict
<1>14. QED
  BY <1>3, <1>4, <1>5, <1>7, <1>8, <1>10, <1>12, <1>13 DEF Inv, TypeOK

\* The listing is all of the pull request.
LEMMA ListingFacts ==
  ASSUME Inv
  PROVE  /\ IsFiniteSet(pr) /\ Cardinality(pr) \in Nat
         /\ Listing \in Seq(pr) /\ Len(Listing) = Cardinality(pr)
         /\ \A f \in pr : Occurs(f, Listing)
<1>1. pr \in SUBSET Files
  BY DEF Inv, TypeOK, ListingOK
<1>2. QED
  BY <1>1, SortedFacts DEF Listing

\* The number of changed files is read, or stays unknown.
LEMMA PrChangedFilesInv == ASSUME Inv, PrChangedFiles PROVE Inv'
<1>1. /\ pc = "count" /\ pc' = "page" /\ changed' \in {Unknown, Cardinality(pr)}
      /\ pr' = pr /\ page' = page /\ listed' = listed /\ sections' = sections
      /\ unfetched' = unfetched /\ fetched' = fetched /\ pushes' = pushes
      /\ UNCHANGED <<given, packing, calls, status>>
  BY DEF PrChangedFiles
<1>2. gap' = gap /\ grew' = grew /\ shrank' = shrank /\ stale' = stale /\ key' = key
  BY DEF PrChangedFiles, ghosts, given
<1>3. Cardinality(pr) \in Nat
  BY ListingFacts
<1>4. ListingOK'
  BY <1>1, <1>2, <1>3 DEF Inv, TypeOK, ListingOK
<1>5. FlagsOK'
  BY <1>2 DEF Inv, TypeOK, FlagsOK
<1>6. Paged' /\ sections' \in Seq(Reviewable)
  BY <1>1 DEF Inv, Paged, TypeOK, PackingOK
<1>7. listed = 0 /\ ~grew /\ ~shrank
  BY <1>1 DEF Inv, Untouched
<1>8. Listed'
  <2>1. 1 .. listed' = {} /\ (changed' # Unknown => Cardinality(pr') = changed' /\ listed' <= changed')
    BY <1>1, <1>3, <1>7
  <2>2. ~grew' /\ ~shrank'
    BY <1>2, <1>7
  <2>3. QED  BY <2>1, <2>2 DEF Listed
<1>9. QED
  BY <1>1, <1>4, <1>5, <1>6, <1>8, ListStep

\* The pages have ended: the count does not match, or the listing is whole.
LEMMA LastPageInv == ASSUME Inv, LastPage PROVE Inv'
<1>1. /\ pc = "page" /\ pc' = "plan" /\ changed' = changed
      /\ pr' = pr /\ page' = page /\ listed' = listed /\ sections' = sections
      /\ unfetched' = unfetched /\ fetched' = fetched /\ pushes' = pushes
      /\ page > Len(Listing) \/ page > FilesApiLimit
      /\ UNCHANGED <<given, packing, calls, status>>
  BY DEF LastPage
<1>2. grew' = grew /\ shrank' = shrank /\ stale' = stale /\ key' = key
  BY DEF LastPage, ghosts, given
<1>3. gap' = ListingGap(listed)
  BY DEF LastPage
<1>4. ListingOK'
  BY <1>1, <1>2 DEF Inv, TypeOK, ListingOK
<1>5. FlagsOK'
  <2>1. gap' \in BOOLEAN
    BY <1>3 DEF ListingGap
  <2>2. QED  BY <1>2, <2>1, Zenon DEF Inv, TypeOK, FlagsOK
<1>6. Paged' /\ sections' \in Seq(Reviewable)
  BY <1>1 DEF Inv, Paged, TypeOK, PackingOK
<1>7. Listed'
  BY <1>1 DEF Listed
<1>8. Complete'
  <2> SUFFICES ASSUME ~LeftOut', ~(grew' /\ shrank'), NEW f \in pr', f \in Reviewable
               PROVE  Occurs(f, sections')
    BY DEF Complete
  <2>1. unfetched = {} /\ ~ListingGap(listed)
    BY <1>1, <1>3 DEF LeftOut
  <2>2. ~(listed >= FilesApiLimit) /\ changed = listed
    BY <2>1 DEF ListingGap
  <2>3. page = listed + 1 /\ listed \in Nat /\ FilesApiLimit \in Nat
    BY ConstantFacts DEF Inv, Paged, TypeOK, ListingOK
  <2>4. changed # Unknown
    BY <2>2, <2>3 DEF Unknown
  <2>5. Cardinality(pr) \in Nat /\ Len(Listing) = Cardinality(pr) /\ Occurs(f, Listing)
    BY <1>1, ListingFacts
  <2>6. Cardinality(pr) <= listed
    BY <1>1, <2>2, <2>3, <2>5
  <2>7. Accounted(f)
    <3>1. CASE ~grew /\ ~shrank
      <4>1. PICK i \in 1 .. Len(Listing) : Listing[i] = f
        BY <2>5 DEF Occurs
      <4>2. i \in 1 .. listed
        BY <2>3, <2>5, <2>6
      <4>3. \A j \in 1 .. listed : Listing[j] \in Reviewable => Accounted(Listing[j])
        BY <1>1, <2>4, <3>1 DEF Inv, Listed
      <4>4. QED  BY <4>1, <4>2, <4>3
    <3>2. CASE grew /\ ~shrank
      <4>1. changed < Cardinality(pr)
        BY <1>1, <2>4, <3>2 DEF Inv, Listed
      <4>2. QED  BY <2>2, <2>3, <2>5, <2>6, <4>1
    <3>3. CASE ~grew /\ shrank
      <4>1. listed >= changed => \A g \in pr \cap Reviewable : Accounted(g)
        BY <1>1, <2>4, <3>3 DEF Inv, Listed
      <4>2. QED  BY <1>1, <2>2, <2>3, <4>1
    <3>4. QED  BY <1>2, <3>1, <3>2, <3>3
  <2>8. QED  BY <1>1, <2>1, <2>7 DEF Accounted, Noted
<1>9. QED
  BY <1>1, <1>4, <1>5, <1>6, <1>7, <1>8, ListStep

\* A page that fails ends the listing, with a gap.
LEMMA ListingFailedInv == ASSUME Inv, ListingFailed PROVE Inv'
<1>1. /\ pc = "page" /\ pc' = "plan" /\ changed' = changed
      /\ pr' = pr /\ page' = page /\ listed' = listed /\ sections' = sections
      /\ unfetched' = unfetched /\ fetched' = fetched /\ pushes' = pushes
      /\ UNCHANGED <<given, packing, calls, status>>
  BY DEF ListingFailed
<1>2. gap' = TRUE /\ grew' = grew /\ shrank' = shrank /\ stale' = stale /\ key' = key
  BY DEF ListingFailed, ghosts, given
<1>3. ListingOK'
  BY <1>1, <1>2 DEF Inv, TypeOK, ListingOK
<1>4. FlagsOK'
  BY <1>2, Zenon DEF Inv, TypeOK, FlagsOK
<1>5. Paged' /\ sections' \in Seq(Reviewable)
  BY <1>1 DEF Inv, Paged, TypeOK, PackingOK
<1>6. Listed'
  BY <1>1 DEF Listed
<1>7. Complete'
  BY <1>2 DEF Complete, LeftOut
<1>8. QED
  BY <1>1, <1>3, <1>4, <1>5, <1>6, <1>7, ListStep

\* What is in a sequence with one element more.
LEMMA OccursAppend ==
  ASSUME NEW A, NEW s \in Seq(A), NEW x \in A, NEW p
  PROVE  Occurs(p, Append(s, x)) <=> Occurs(p, s) \/ p = x
<1> DEFINE w == Append(s, x)
           n == Len(s)
<1>1. n \in Nat /\ Len(w) = n + 1 /\ w[n + 1] = x /\ \A i \in 1 .. n : w[i] = s[i]
  BY AppendProperties
<1> HIDE DEF w, n
<1>2. \A i \in 1 .. (n + 1) : i \in 1 .. n \/ i = n + 1
  BY <1>1
<1>3. n + 1 \in 1 .. (n + 1) /\ \A i \in 1 .. n : i \in 1 .. (n + 1)
  BY <1>1
<1>4. (\E i \in 1 .. (n + 1) : w[i] = p) <=> (\E i \in 1 .. n : s[i] = p) \/ p = x
  BY <1>1, <1>2, <1>3
<1>5. QED
  BY <1>1, <1>4 DEF Occurs, w, n

\* The diff of the next listed file is taken, fetched or found missing.
LEMMA PrDiffInv == ASSUME Inv, PrDiff PROVE Inv'
<1> DEFINE f == Listing[page]
<1>1. /\ pc = "page" /\ pc' = pc /\ changed' = changed /\ pr' = pr
      /\ page <= Len(Listing) /\ page' = page + 1 /\ listed' = listed + 1 /\ pushes' = pushes
      /\ UNCHANGED <<given, packing, calls, status>>
  BY DEF PrDiff
<1>2. gap' = gap /\ grew' = grew /\ shrank' = shrank /\ key' = key
  BY DEF PrDiff, given
<1>3. page = listed + 1 /\ listed \in Nat
  BY DEF Inv, Paged, TypeOK, ListingOK
<1>4. \/ f \notin Reviewable /\ sections' = sections /\ unfetched' = unfetched
      \/ f \in Reviewable /\ sections' = Append(sections, f) /\ unfetched' = unfetched
      \/ f \in Reviewable /\ sections' = sections /\ unfetched' = unfetched \cup {f}
  BY DEF PrDiff, IncludeFile, GitFileDiff
<1>5. fetched' \in {"not yet", "yes", "no"}
  <2>1. fetched \in {"not yet", "yes", "no"}
    BY DEF Inv, TypeOK, ListingOK
  <2>2. QED  BY <2>1 DEF PrDiff, FetchPrHead
<1> HIDE DEF f
<1>6. unfetched' \subseteq Reviewable
  <2>1. unfetched \subseteq Reviewable
    BY DEF Inv, TypeOK, ListingOK
  <2>2. unfetched' = unfetched \/ (f \in Reviewable /\ unfetched' = unfetched \cup {f})
    BY <1>4
  <2>3. QED  BY <2>1, <2>2
<1>7. /\ sections' \in Seq(Reviewable)
      /\ \A g : Accounted(g) => Noted(g, sections', unfetched')
      /\ f \in Reviewable => Noted(f, sections', unfetched')
  <2>1. sections \in Seq(Reviewable)
    BY DEF Inv, TypeOK, PackingOK
  <2>2. CASE f \in Reviewable /\ sections' = Append(sections, f) /\ unfetched' = unfetched
    <3>1. Append(sections, f) \in Seq(Reviewable)
      BY <2>1, <2>2, AppendProperties
    <3>2. \A g : Occurs(g, Append(sections, f)) <=> Occurs(g, sections) \/ g = f
      BY <2>1, <2>2, OccursAppend
    <3>3. QED  BY <2>2, <3>1, <3>2 DEF Accounted, Noted
  <2>3. CASE sections' = sections /\ unfetched' = unfetched /\ f \notin Reviewable
    BY <2>1, <2>3 DEF Accounted
  <2>4. CASE sections' = sections /\ unfetched' = unfetched \cup {f}
    <3>1. \A g : g \in unfetched \/ g = f => g \in unfetched'
      BY <2>4
    <3>2. QED  BY <2>1, <2>4, <3>1 DEF Accounted, Noted
  <2>5. QED  BY <1>4, <2>2, <2>3, <2>4
<1>8. ListingOK'
  <2>1. page' \in Nat /\ listed' \in Nat
    BY <1>1, <1>3
  <2>2. stale' = stale \/ stale' = stale \ {f}
    BY DEF PrDiff, f
  <2>3. stale' \subseteq Files
    BY <2>2 DEF Inv, TypeOK, ListingOK
  <2>4. QED  BY <1>1, <1>5, <1>6, <2>1, <2>3 DEF Inv, TypeOK, ListingOK
<1>9. FlagsOK'
  BY <1>2 DEF Inv, TypeOK, FlagsOK
<1>10. Paged'
  <2>1. page' = page + 1 /\ listed' = listed + 1
    BY <1>1
  <2>2. QED  BY <1>3, <2>1 DEF Paged
<1>11. Cardinality(pr) \in Nat /\ Len(Listing) = Cardinality(pr) /\ Listing' = Listing
  BY <1>1, ListingFacts DEF Listing
<1>12. Listed'
  <2> SUFFICES ASSUME changed # Unknown PROVE Listed'
    BY <1>1 DEF Listed
  <2>0. changed \in Nat /\ listed' = listed + 1 /\ listed + 1 <= Cardinality(pr)
    <3>1. changed \in Nat
      BY DEF Inv, TypeOK, ListingOK
    <3>2. QED  BY <1>1, <1>3, <1>11, <3>1
  <2>1. CASE ~grew /\ ~shrank
    <3>1. /\ Cardinality(pr) = changed
          /\ \A i \in 1 .. listed : Listing[i] \in Reviewable => Accounted(Listing[i])
      BY <1>1, <2>1 DEF Inv, Listed
    <3>2. listed' <= changed
      BY <2>0, <3>1
    <3>3. \A i \in 1 .. (listed + 1) : i \in 1 .. listed \/ i = page
      BY <1>3
    <3>4. \A i \in 1 .. (listed + 1) :
            Listing[i] \in Reviewable => Noted(Listing[i], sections', unfetched')
      BY <1>7, <3>1, <3>3 DEF f
    <3>5. QED  BY <1>1, <1>2, <1>11, <2>0, <2>1, <3>1, <3>2, <3>4 DEF Listed, Accounted
  <2>2. CASE grew /\ ~shrank
    BY <1>1, <1>2, <2>2 DEF Inv, Listed
  <2>3. CASE ~grew /\ shrank
    <3>1. Cardinality(pr) < changed
      BY <1>1, <2>3 DEF Inv, Listed
    <3>2. ~(listed' >= changed)
      BY <1>3, <1>11, <2>0, <3>1
    <3>3. QED  BY <1>1, <1>2, <2>3, <3>1, <3>2 DEF Listed
  <2>4. CASE grew /\ shrank
    BY <1>2, <2>4 DEF Listed
  <2>5. QED  BY <2>1, <2>2, <2>3, <2>4
<1>13. QED
  BY <1>1, <1>7, <1>8, <1>9, <1>10, <1>12, ListStep

\* A push that only adds, or only takes out, moves the size of the pull request
\* away from the count for good.
LEMMA PushInv == ASSUME Inv, Push PROVE Inv'
<1>1. /\ pc \in {"count", "page"} /\ pc' = pc /\ pushes < MaxPushes /\ pushes' = pushes + 1
      /\ pr' \in SUBSET Files
      /\ UNCHANGED <<given, packing, calls, status>> /\ UNCHANGED listing
  BY DEF Push
<1>2. changed' = changed /\ page' = page /\ listed' = listed /\ sections' = sections
      /\ unfetched' = unfetched /\ fetched' = fetched
  BY <1>1 DEF listing
<1>3. gap' = gap /\ key' = key
  BY <1>1 DEF listing, given
<1>4. /\ grew' = (grew \/ (pc = "page" /\ ~(pr' \subseteq pr)))
      /\ shrank' = (shrank \/ (pc = "page" /\ ~(pr \subseteq pr')))
  BY DEF Push
<1>5. ListingOK'
  <2>1. pushes' \in 0 .. MaxPushes
    <3>1. MaxPushes \in Nat /\ pushes \in 0 .. MaxPushes
      BY ReviewAssumption DEF Inv, TypeOK, ListingOK
    <3>2. QED  BY <1>1, <3>1
  <2>2. PICK edited \in SUBSET (pr \cap pr' \cap Reviewable) :
               stale' = stale \/ stale' \subseteq stale \cup edited
    BY DEF Push
  <2>3. stale' \subseteq Files
    BY <1>1, <2>2 DEF Inv, TypeOK, ListingOK
  <2>4. QED  BY <1>1, <1>2, <2>1, <2>3 DEF Inv, TypeOK, ListingOK
<1>6. FlagsOK'
  <2>1. grew' \in BOOLEAN /\ shrank' \in BOOLEAN
    BY <1>4, Zenon
  <2>2. QED  BY <1>3, <2>1, Zenon DEF Inv, TypeOK, FlagsOK
<1>7. Paged' /\ sections' \in Seq(Reviewable)
  BY <1>2 DEF Inv, Paged, TypeOK, PackingOK
<1>8. pc = "count" => ~grew' /\ ~shrank'
  BY <1>4 DEF Inv, Untouched
<1>9. Listed'
  <2>0. CASE pr' = pr
    <3>1. grew' = grew /\ shrank' = shrank /\ Listing' = Listing
      BY <1>4, <2>0 DEF Inv, TypeOK, FlagsOK, Listing
    <3>2. \A g : Accounted(g)' <=> Accounted(g)
      BY <1>2 DEF Accounted
    <3>3. QED  BY <1>1, <1>2, <2>0, <3>1, <3>2 DEF Inv, Listed
  <2> SUFFICES ASSUME pc = "page", changed # Unknown, pr' # pr PROVE Listed'
    BY <1>1, <1>2, <2>0 DEF Listed
  <2>1. changed \in Nat /\ listed \in Nat /\ IsFiniteSet(pr) /\ Cardinality(pr) \in Nat
    BY ListingFacts DEF Inv, TypeOK, ListingOK
  <2>2. IsFiniteSet(pr') /\ Cardinality(pr') \in Nat
    BY <1>1, SortedFacts
  <2>3. \A g : Accounted(g)' <=> Accounted(g)
    BY <1>2 DEF Accounted
  <2>4. (grew' \/ shrank') /\ (grew => grew') /\ (shrank => shrank')
    BY <1>1, <1>4
  <2>5. ASSUME grew', ~shrank' PROVE changed' < Cardinality(pr')
    <3>1. ~shrank /\ pr \subseteq pr'
      BY <1>4, <2>5
    <3>2. Cardinality(pr) <= Cardinality(pr') /\ Cardinality(pr) # Cardinality(pr')
      BY <1>1, <2>2, <3>1, FS_Subset
    <3>3. changed <= Cardinality(pr)
      BY <2>1, <3>1 DEF Inv, Listed
    <3>4. QED  BY <1>2, <2>1, <2>2, <3>2, <3>3
  <2>6. ASSUME ~grew', shrank'
        PROVE  /\ Cardinality(pr') < changed'
               /\ listed' >= changed' => \A f \in pr' \cap Reviewable : Accounted(f)'
    <3>1. ~grew /\ pr' \subseteq pr
      BY <1>4, <2>6
    <3>2. Cardinality(pr') <= Cardinality(pr) /\ Cardinality(pr') # Cardinality(pr)
      BY <1>1, <2>1, <3>1, FS_Subset
    <3>3. Cardinality(pr) <= changed
      BY <2>1, <3>1 DEF Inv, Listed
    <3>4. Cardinality(pr') < changed'
      BY <1>2, <2>1, <2>2, <3>2, <3>3
    <3>5. ASSUME listed >= changed, NEW f \in pr, f \in Reviewable PROVE Accounted(f)
      <4>1. CASE shrank
        BY <3>1, <3>5, <4>1 DEF Inv, Listed
      <4>2. CASE ~shrank
        <5>1. /\ Cardinality(pr) = changed
              /\ \A i \in 1 .. listed : Listing[i] \in Reviewable => Accounted(Listing[i])
          BY <3>1, <4>2 DEF Inv, Listed
        <5>2. PICK i \in 1 .. Len(Listing) : Listing[i] = f
          BY <3>5, ListingFacts DEF Occurs
        <5>3. Len(Listing) = Cardinality(pr)
          BY ListingFacts
        <5>4. i \in 1 .. listed
          BY <2>1, <3>5, <5>1, <5>2, <5>3
        <5>5. QED  BY <3>5, <5>1, <5>2, <5>4
      <4>3. QED  BY <4>1, <4>2
    <3>6. QED  BY <1>2, <2>3, <3>1, <3>4, <3>5
  <2>7. QED  BY <2>4, <2>5, <2>6 DEF Listed
<1>10. QED
  BY <1>1, <1>2, <1>5, <1>6, <1>7, <1>8, <1>9, ListStep

\* The plan: what was listed, or what git has between base and head
LEMMA ReviewPlanInv == ASSUME Inv, ReviewPlan PROVE Inv'
<1>1. /\ pc \in {"plan", "git"} /\ todo' = sections' /\ pr' = pr /\ pushes' = pushes
      /\ rest' = rest /\ current' = current /\ piece' = piece /\ chunks' = chunks
      /\ UNCHANGED given /\ UNCHANGED calls /\ UNCHANGED ghosts
  BY DEF ReviewPlan
<1>2. scope' = scope /\ hunks' = hunks /\ head' = head /\ key' = key
      /\ results' = results /\ running' = running /\ grew' = grew /\ shrank' = shrank /\ stale' = stale
  BY <1>1 DEF given, calls, ghosts
<1>3. changed' = changed /\ page' = page /\ listed' = listed /\ unfetched' = unfetched
      /\ fetched' = fetched /\ gap' = gap
  BY DEF ReviewPlan
<1>4. \/ /\ NeedsGit /\ sections' = Sorted(head \cap Reviewable)
         /\ pc' = "pack" /\ status' = status
      \/ status' = "failed" /\ pc' = "done" /\ sections' = sections
      \/ status' = status /\ pc' = "exit" /\ sections' = sections
      \/ pc' = "pack" /\ status' = status /\ sections' = sections
  BY DEF ReviewPlan, RunNet, Finish
<1>5. /\ rest = <<>> /\ current = <<>> /\ piece = <<>> /\ chunks = <<>>
      /\ results = <<>> /\ running = {} /\ status = "missing"
      /\ scope # "full" /\ (pc = "git" => pr = head)
  <2>1. rest = <<>> /\ current = <<>> /\ piece = <<>> /\ chunks = <<>>
        /\ results = <<>> /\ running = {}
    BY <1>1 DEF Inv, Untouched, Before
  <2>2. status = "missing" /\ scope # "full" /\ (pc = "git" => pr = head)
    BY <1>1 DEF Inv, TypeOK, GivenOK, Stages, Ended
  <2>3. QED  BY <2>1, <2>2
<1>6. /\ Sorted(head \cap Reviewable) \in Seq(Reviewable)
      /\ \A f \in head \cap Reviewable : Occurs(f, Sorted(head \cap Reviewable))
  <2>1. head \cap Reviewable \in SUBSET Files
    BY ConstantFacts
  <2>2. Sorted(head \cap Reviewable) \in Seq(head \cap Reviewable)
        /\ \A f \in head \cap Reviewable : Occurs(f, Sorted(head \cap Reviewable))
    BY <2>1, SortedFacts
  <2>3. \A A, B : A \subseteq B => \A s \in Seq(A) : s \in Seq(B)
    OBVIOUS
  <2>4. QED  BY <2>2, <2>3
<1>7. sections' \in Seq(Reviewable)
  <2>1. sections \in Seq(Reviewable)
    BY DEF Inv, TypeOK, PackingOK
  <2>2. QED  BY <1>4, <1>6, <2>1
<1>8. GivenOK'
  BY <1>2 DEF Inv, TypeOK, GivenOK
<1>9. ListingOK'
  BY <1>1, <1>2, <1>3 DEF Inv, TypeOK, ListingOK
<1>10. PackingOK'
  BY <1>1, <1>7 DEF Inv, TypeOK, PackingOK
<1>11. CallsOK'
  BY <1>1, <1>2, CallsKept
<1>12. ProgressOK'
  BY <1>4, <1>5 DEF ProgressOK
<1>13. FlagsOK'
  BY <1>2, <1>3 DEF Inv, TypeOK, FlagsOK
<1>14. Stages'
  <2>1. scope = "git" => pr = head
    BY DEF Inv, Stages
  <2>2. QED  BY <1>1, <1>2, <1>4, <1>5, <2>1 DEF Stages, Ended
<1>15. Untouched'
  BY <1>2, <1>4, <1>5 DEF Untouched, Before
<1>16. Paged'
  BY <1>3 DEF Inv, Paged
<1>17. pc' \in {"pack", "done", "exit"} /\ ~Green' /\ pc' \notin Behind
  BY <1>4, <1>5 DEF Green, Behind
<1>18. Listed' /\ Shipped'
  BY <1>17 DEF Listed, Shipped
<1>19. PackInv'
  <2>1. hunks \in Sizes
    BY DEF Inv, TypeOK, GivenOK, Sizes
  <2>2. Packing(hunks, sections', sections', <<>>, <<>>, <<>>, <<>>)
    BY <1>7, <2>1, StartMove
  <2>3. QED  BY <1>1, <1>2, <1>5, <2>2 DEF PackInv
<1>20. Complete'
  <2> SUFFICES ASSUME pc' = "pack", ~LeftOut', ~(grew' /\ shrank'), NEW f \in pr',
                      f \in Reviewable
               PROVE  Occurs(f, sections')
    BY <1>17 DEF Complete
  <2>1. ~LeftOut /\ ~(grew /\ shrank) /\ f \in pr
    BY <1>1, <1>2, <1>3 DEF LeftOut
  <2>2. CASE pc = "plan"
    <3>1. Occurs(f, sections)
      BY <2>1, <2>2 DEF Inv, Complete
    <3>2. ~NeedsGit
      BY <3>1 DEF NeedsGit, Occurs
    <3>3. QED  BY <1>4, <3>1, <3>2
  <2>3. CASE pc = "git"
    <3>1. sections = <<>> /\ NeedsGit
      BY <2>1, <2>3 DEF Inv, Untouched, NeedsGit
    <3>2. sections' = Sorted(head \cap Reviewable)
      BY <3>1 DEF ReviewPlan, RunNet, Finish
    <3>3. QED  BY <1>5, <1>6, <2>1, <2>3, <3>2
  <2>4. QED  BY <1>1, <2>2, <2>3
<1>21. Verdict'
  BY <1>4, <1>5 DEF Verdict
<1>22. QED
  BY <1>8, <1>9, <1>10, <1>11, <1>12, <1>13, <1>14, <1>15, <1>16, <1>18, <1>19, <1>20, <1>21
     DEF Inv, TypeOK

-----------------------------------------------------------------------------
(* The theorems *)

\* A step that changes nothing keeps the invariant.
LEMMA StutterInv == ASSUME Inv, UNCHANGED vars PROVE Inv'
<1>1. UNCHANGED given /\ UNCHANGED listing /\ UNCHANGED packing /\ UNCHANGED calls
      /\ UNCHANGED ghosts /\ pr' = pr /\ pc' = pc /\ status' = status /\ pushes' = pushes
  BY DEF vars
<1>2. scope' = scope /\ hunks' = hunks /\ head' = head /\ key' = key
      /\ results' = results /\ running' = running /\ grew' = grew /\ shrank' = shrank /\ stale' = stale
  BY <1>1 DEF given, calls, ghosts
<1>3. changed' = changed /\ page' = page /\ listed' = listed /\ unfetched' = unfetched
      /\ fetched' = fetched /\ gap' = gap /\ sections' = sections
  BY <1>1 DEF listing
<1>4. todo' = todo /\ rest' = rest /\ current' = current /\ piece' = piece /\ chunks' = chunks
  BY <1>1 DEF packing
<1>5. GivenOK' /\ ListingOK'
  BY <1>1, <1>2, <1>3 DEF Inv, TypeOK, GivenOK, ListingOK
<1>6. PackingOK'
  BY <1>3, <1>4 DEF Inv, TypeOK, PackingOK
<1>7. CallsOK' /\ Parts' = Parts /\ (AllOk <=> AllOk')
  BY <1>2, <1>4, CallsKept
<1>8. ProgressOK' /\ FlagsOK'
  BY <1>1, <1>2, <1>3 DEF Inv, TypeOK, ProgressOK, FlagsOK
<1>9. Stages' /\ Paged'
  BY <1>1, <1>2, <1>3 DEF Inv, Stages, Paged
<1>10. Untouched'
  BY <1>1, <1>2, <1>3, <1>4 DEF Inv, Untouched
<1>11. Listed'
  BY <1>1, <1>2, <1>3 DEF Inv, Listed, Accounted, Listing
<1>12. LeftOut' = LeftOut /\ Green' = Green
  BY <1>1, <1>3 DEF LeftOut, Green
<1>13. Complete'
  BY <1>1, <1>2, <1>3, <1>12 DEF Inv, Complete
<1>14. PackInv'
  BY <1>1, <1>2, <1>3, <1>4 DEF Inv, PackInv
<1>15. Shipped'
  BY <1>1, <1>2, <1>3, <1>4, <1>12 DEF Inv, Shipped
<1>16. Verdict'
  BY <1>1, <1>2, <1>4, <1>7, <1>12 DEF Inv, Verdict
<1>17. QED
  BY <1>5, <1>6, <1>7, <1>8, <1>9, <1>10, <1>11, <1>13, <1>14, <1>15, <1>16 DEF Inv, TypeOK

\* Every step of the script, and every push, keeps the invariant.
LEMMA StepInv == Inv /\ [Next]_vars => Inv'
<1> SUFFICES ASSUME Inv, [Next]_vars PROVE Inv'
  OBVIOUS
<1>1. CASE PrChangedFiles
  BY <1>1, PrChangedFilesInv
<1>2. CASE LastPage
  BY <1>2, LastPageInv
<1>3. CASE ListingFailed
  BY <1>3, ListingFailedInv
<1>4. CASE PrDiff
  BY <1>4, PrDiffInv
<1>5. CASE ReviewPlan
  BY <1>5, ReviewPlanInv
<1>6. CASE ChunkDiff
  BY <1>6, ChunkDiffInv
<1>7. CASE CutHunk
  BY <1>7, CutHunkInv
<1>8. CASE EndOfFile
  BY <1>8, EndOfFileInv
<1>9. CASE EndOfDiff
  BY <1>9, EndOfDiffInv
<1>10. CASE Main
  BY <1>10, MainInv
<1>11. CASE MainFull
  BY <1>11, MainFullInv
<1>12. CASE MessagesEndpoint
  BY <1>12, NoVerdict DEF MessagesEndpoint
<1>13. CASE ReviewFirst
  BY <1>13, ReviewFirstInv
<1>14. CASE StartPart
  BY <1>14, StartPartInv
<1>15. CASE \E part \in running : PartDone(part)
  BY <1>15, PartDoneInv
<1>16. CASE ReviewInParts
  BY <1>16, ReviewInPartsInv
<1>17. CASE MergeParts
  BY <1>17, MergePartsInv
<1>18. CASE Push
  BY <1>18, PushInv
<1>19. CASE Killed
  BY <1>19, NoVerdict DEF Killed
<1>20. CASE UNCHANGED vars
  BY <1>20, StutterInv
<1>21. QED
  BY <1>1, <1>2, <1>3, <1>4, <1>5, <1>6, <1>7, <1>8, <1>9, <1>10, <1>11, <1>12, <1>13,
     <1>14, <1>15, <1>16, <1>17, <1>18, <1>19, <1>20 DEF Next, Step

\* The invariant holds throughout.
LEMMA InvAlways == Spec => []Inv
BY InitInv, StepInv, PTL DEF Spec

\* Whatever GitHub, git and the model answer, the state of claude_review.py
\* keeps its types.
THEOREM ReviewTypeCorrect == Spec => []TypeOK
<1>1. Inv => TypeOK
  BY DEF Inv
<1>2. QED
  BY <1>1, InvAlways, PTL

\* A piece of a section that a chunk of a finished review holds was read.
LEMMA InvGreen == Inv => GreenMeansRead
<1> SUFFICES ASSUME Inv, Green, scope # "full", ~(grew /\ shrank),
                    NEW f \in (pr \cap Reviewable) \ stale, NEW k \in DOMAIN FileSection(f)
             PROVE  ReadBy(FileSection(f)[k])
  BY DEF GreenMeansRead
<1>1. hunks \in Sizes /\ f \in Files
  BY ConstantFacts DEF Inv, TypeOK, GivenOK, Sizes
<1>2. FileSection(f) = Section(hunks, f) /\ Section(hunks, f) \in Lists
  BY <1>1, Links, SectionFacts
<1>3. k \in 1 .. Len(Section(hunks, f))
  BY <1>2 DEF Lists
<1>4. ~LeftOut
  BY DEF Inv, Verdict, Green
<1>5. Occurs(f, sections)
  BY <1>4 DEF Inv, Complete
<1>6. InChunks(Section(hunks, f)[k], chunks) /\ chunks \in Seq(Lists)
  BY <1>3, <1>5 DEF Inv, Shipped, Delivered, Occurs
<1>7. PICK i \in 1 .. Len(chunks) : Occurs(Section(hunks, f)[k], chunks[i])
  BY <1>6 DEF InChunks
<1>8. chunks # <<>>
  BY <1>7
<1>9. AllOk
  BY <1>8 DEF Inv, Verdict, Green
<1>10. i \in DOMAIN results /\ results[i] = "ok"
  BY <1>7, <1>9 DEF AllOk, Parts
<1>11. chunks[i] \in Lists /\ DOMAIN chunks[i] = 1 .. Len(chunks[i])
  BY <1>6, <1>7 DEF Lists
<1>12. QED
  BY <1>2, <1>7, <1>10, <1>11 DEF ReadBy, Occurs

\* A green check means the diff was read: for every pull request, every answer
\* of GitHub, git and the model, and any number of pushes.
THEOREM GreenRead == Spec => []GreenMeansRead
BY InvAlways, InvGreen, PTL

\* What was delivered is what chunk_diff promises.
LEMMA InvChunks == Inv => ChunksCoverDiff
<1> SUFFICES ASSUME Inv, pc = "main" PROVE ChunksCoverDiff
  BY DEF ChunksCoverDiff
<1>1. Delivered(hunks, sections, chunks) /\ hunks \in Sizes /\ sections \in Seq(Reviewable)
  BY DEF Inv, Shipped, Behind, TypeOK, GivenOK, PackingOK, Sizes
<1>2. Bodies(FlattenSeq(chunks)) = Text(hunks, sections, Len(sections)) /\ chunks \in Seq(Lists)
      /\ \A i \in 1 .. Len(chunks) : Fine(hunks, chunks[i])
  BY <1>1 DEF Delivered
<1>3. [i \in DOMAIN sections |-> FileSection(sections[i])]
      = [i \in 1 .. Len(sections) |-> Section(hunks, sections[i])]
  <2>1. DOMAIN sections = 1 .. Len(sections)
    BY <1>1
  <2>2. QED  BY <2>1, Links
<1>4. Bodies(FlattenSeq(chunks)) = Bodies(FlattenSeq([i \in DOMAIN sections |->
                                                         FileSection(sections[i])]))
  BY <1>2, <1>3 DEF Text
<1>5. ASSUME NEW i \in DOMAIN chunks
      PROVE  /\ \A k \in DOMAIN chunks[i] : \E j \in 1 .. k : chunks[i][j] = Header(chunks[i][k][1])
             /\ SizeOf(chunks[i]) > ReviewBudget => Len(Bodies(chunks[i])) <= 1
             /\ \A f \in Reviewable :
                   /\ SizeOf(FileSection(f)) <= ReviewBudget
                   /\ \E k \in DOMAIN chunks[i] : chunks[i][k][1] = f
                   => \A p \in {FileSection(f)[k] : k \in DOMAIN FileSection(f)} :
                         \E k \in DOMAIN chunks[i] : chunks[i][k] = p
  <2>1. i \in 1 .. Len(chunks) /\ chunks[i] \in Lists
    BY <1>2
  <2>2. DOMAIN chunks[i] = 1 .. Len(chunks[i]) /\ Fine(hunks, chunks[i])
    BY <1>2, <2>1 DEF Lists
  <2>3. \A k \in DOMAIN chunks[i] : \E j \in 1 .. k : chunks[i][j] = Header(chunks[i][k][1])
    BY <2>2 DEF Fine, Headed
  <2>4. SizeOf(chunks[i]) > ReviewBudget => Len(Bodies(chunks[i])) <= 1
    BY <2>2, Links DEF Fine, Sized
  <2>5. ASSUME NEW f \in Reviewable, SizeOf(FileSection(f)) <= ReviewBudget,
               \E k \in DOMAIN chunks[i] : chunks[i][k][1] = f,
               NEW k \in DOMAIN FileSection(f)
        PROVE  \E l \in DOMAIN chunks[i] : chunks[i][l] = FileSection(f)[k]
    <3>1. FileSection(f) = Section(hunks, f) /\ SizeIn(hunks, Section(hunks, f)) <= ReviewBudget
      BY <2>5, Links
    <3>2. Section(hunks, f) \in Lists
      BY <1>1, SectionFacts, ConstantFacts
    <3>3. k \in 1 .. Len(Section(hunks, f))
      BY <3>1, <3>2 DEF Lists
    <3>4. Occurs(Section(hunks, f)[k], chunks[i])
      BY <2>2, <2>5, <3>1, <3>3 DEF Fine, Whole
    <3>5. QED  BY <2>2, <3>1, <3>4 DEF Occurs
  <2>6. QED  BY <2>3, <2>4, <2>5
<1>6. QED
  BY <1>4, <1>5 DEF ChunksCoverDiff

\* No hunk of the diff is left out, and every chunk is as chunk_diff promises,
\* for every diff and every budget.
THEOREM ChunksCover == Spec => []ChunksCoverDiff
BY InvAlways, InvChunks, PTL

=============================================================================
