------------------------------- MODULE Basics -------------------------------
(***************************************************************************)
(* Facts about numbers and sequences that the proofs about the code need:  *)
(* that the smallest and the largest number of a set are in the set, for   *)
(* timestamps and places in a file; induction over the statements of a     *)
(* batch, with a set in the place of a predicate; and the parts of         *)
(* sequences, for the cells of a file.                                     *)
(***************************************************************************)
EXTENDS Integers, FiniteSetsExt, Sequences, WellFoundedInduction, TLAPS

\* A set of numbers with a bound has a maximum: the number that is the nearest to
\* the bound.
LEMMA BoundedMax ==
    ASSUME NEW bound \in Nat, NEW S \in SUBSET (0 .. bound), S # {}
    PROVE  Max(S) \in S /\ \A s \in S : Max(S) >= s
<1> DEFINE T == {bound - s : s \in S}
<1>1. T \subseteq Nat /\ T # {}
  <2>1. \A s \in S : bound - s \in Nat
    OBVIOUS
  <2>2. T \subseteq Nat
    BY <2>1
  <2>3. PICK s \in S : TRUE
    OBVIOUS
  <2>4. bound - s \in T
    OBVIOUS
  <2> QED
    BY <2>2, <2>4
<1>2. PICK t \in T : \A y \in T : ~ (<<y, t>> \in OpToRel(<, Nat))
  BY <1>1, WFMin, NatLessThanWellFounded
<1>3. PICK m \in S : t = bound - m
  BY <1>2
<1>4. \A s \in S : m >= s
  <2> SUFFICES ASSUME NEW s \in S PROVE m >= s
    OBVIOUS
  <2>1. bound - s \in T
    OBVIOUS
  <2>2. ~ (bound - s < t)
    BY <1>1, <1>2, <2>1 DEF OpToRel
  <2> QED
    BY <1>3, <2>2
<1> QED
  BY <1>4 DEF Max

\* A set of numbers has a minimum.
LEMMA NatMin ==
    ASSUME NEW S \in SUBSET Nat, S # {}
    PROVE  Min(S) \in S /\ \A s \in S : Min(S) <= s
<1>1. PICK m \in S : \A y \in S : ~ (<<y, m>> \in OpToRel(<, Nat))
  BY WFMin, NatLessThanWellFounded
<1>2. \A s \in S : m <= s
  <2> SUFFICES ASSUME NEW s \in S PROVE m <= s
    OBVIOUS
  <2>1. ~ (s < m)
    BY <1>1 DEF OpToRel
  <2> QED
    BY <2>1
<1> QED
  BY <1>2 DEF Min

\* A set that has zero, and with each number below n the next one, has all up to n.
LEMMA Induction ==
    ASSUME NEW n \in Nat, NEW S, 0 \in S, \A i \in 0 .. n - 1 : i \in S => i + 1 \in S
    PROVE  \A i \in 0 .. n : i \in S
<1> DEFINE Missing == (0 .. n) \ S
<1> SUFFICES ASSUME Missing # {} PROVE FALSE
  OBVIOUS
<1>1. PICK m \in Missing : \A k \in Missing : m <= k
  <2>1. Missing \in SUBSET Nat
    OBVIOUS
  <2> QED
    BY <2>1, NatMin
<1>2. m # 0 /\ m - 1 \in 0 .. n - 1 /\ m - 1 + 1 = m
  BY <1>1
<1>3. m - 1 \in S
  BY <1>1, <1>2
<1> QED
  BY <1>1, <1>2, <1>3

\* f is a at zero, and at each number up to n what its step makes of the value
\* before.
Follows(f, A, a, n, step) ==
    /\ f \in [0 .. n -> A] /\ f[0] = a
    /\ \A k \in 0 .. n - 1 : f[k + 1] = step[k + 1][f[k]]

\* A recursive function on numbers is well defined: there is such a function.
LEMMA Recursion ==
    ASSUME NEW A, NEW a \in A, NEW n \in Nat, NEW step \in [1 .. n -> [A -> A]]
    PROVE  \E f : Follows(f, A, a, n, step)
<1> DEFINE Is(f, m) == /\ f \in [0 .. m -> A] /\ f[0] = a
                       /\ \A k \in 1 .. m : f[k] = step[k][f[k - 1]]
           Some == {m \in 0 .. n : \E f : Is(f, m)}
<1>1. 0 \in Some
  <2> DEFINE f == [k \in 0 .. 0 |-> a]
  <2>1. Is(f, 0) /\ 0 \in 0 .. n
    OBVIOUS
  <2> HIDE DEF f
  <2> QED
    BY <2>1
<1>2. ASSUME NEW m \in 0 .. n - 1, m \in Some PROVE m + 1 \in Some
  <2>1. PICK g : Is(g, m)
    BY <1>2
  <2> DEFINE f == [k \in 0 .. m + 1 |-> IF k <= m THEN g[k] ELSE step[m + 1][g[m]]]
  <2>2. m + 1 \in 1 .. n /\ g[m] \in A /\ step[m + 1] \in [A -> A]
    BY <2>1
  <2>3. f \in [0 .. m + 1 -> A] /\ f[0] = a
    BY <2>1, <2>2
  <2>4. ASSUME NEW k \in 1 .. m + 1 PROVE f[k] = step[k][f[k - 1]]
    <3>1. CASE k <= m
      <4>1. k \in 1 .. m /\ k - 1 \in 0 .. m + 1 /\ k - 1 <= m /\ k \in 0 .. m + 1
        BY <3>1
      <4> QED
        BY <2>1, <3>1, <4>1
    <3>2. CASE k = m + 1
      <4>1. k - 1 = m /\ m \in 0 .. m + 1 /\ ~ (k <= m) /\ k \in 0 .. m + 1
        BY <3>2
      <4> QED
        BY <3>2, <4>1
    <3> QED
      BY <3>1, <3>2
  <2> HIDE DEF f
  <2>5. Is(f, m + 1) /\ m + 1 \in 0 .. n
    BY <2>2, <2>3, <2>4
  <2> QED
    BY <2>5
<1>3. n \in Some
  <2> HIDE DEF Some
  <2>1. \A m \in 0 .. n : m \in Some
    BY <1>1, <1>2, Induction
  <2> QED
    BY <2>1
<1>4. PICK g : Is(g, n)
  BY <1>3
<1>5. ASSUME NEW k \in 0 .. n - 1 PROVE g[k + 1] = step[k + 1][g[k]]
  <2>1. k + 1 \in 1 .. n /\ k + 1 - 1 = k
    OBVIOUS
  <2>2. g[k + 1] = step[k + 1][g[k + 1 - 1]]
    BY <1>4, <2>1
  <2> QED
    BY <2>1, <2>2
<1> QED
  BY <1>4, <1>5 DEF Follows

-----------------------------------------------------------------------------
\* Sequences

\* A sequence over a set is one over a larger set.
LEMMA SeqLarger ==
    ASSUME NEW S, NEW T, S \subseteq T, NEW s \in Seq(S)
    PROVE  s \in Seq(T)
OBVIOUS

\* A part of a sequence, cell by cell.
LEMMA SubSeqIs ==
    ASSUME NEW S, NEW cells \in Seq(S), NEW v \in Seq(S), NEW i \in Nat,
           i + Len(v) <= Len(cells),
           \A m \in 1 .. Len(v) : cells[i + m] = v[m]
    PROVE  SubSeq(cells, i + 1, i + Len(v)) = v
<1> DEFINE w == SubSeq(cells, i + 1, i + Len(v))
<1>1. w \in Seq(S) /\ Len(w) = Len(v)
  OBVIOUS
<1>2. \A m \in 1 .. Len(v) : w[m] = cells[i + m]
  OBVIOUS
<1> HIDE DEF w
<1>3. w = v
  BY <1>1, <1>2
<1> QED
  BY <1>3 DEF w

\* A part of one cell.
LEMMA SubSeqOne ==
    ASSUME NEW S, NEW cells \in Seq(S), NEW i \in DOMAIN cells
    PROVE  SubSeq(cells, i, i) = <<cells[i]>>
<1>1. PICK j \in Nat : i = j + 1 /\ j + 1 <= Len(cells)
  <2>1. i \in 1 .. Len(cells)
    OBVIOUS
  <2>2. i - 1 \in Nat /\ i = (i - 1) + 1 /\ (i - 1) + 1 <= Len(cells)
    BY <2>1
  <2> QED
    BY <2>2
<1> DEFINE v == <<cells[i]>>
<1>2. v \in Seq(S) /\ Len(v) = 1 /\ v[1] = cells[i]
  OBVIOUS
<1> HIDE DEF v
<1>3. SubSeq(cells, j + 1, j + Len(v)) = v
  BY <1>1, <1>2, SubSeqIs
<1> QED
  BY <1>1, <1>2, <1>3 DEF v

\* Two sequences, one after the other.
LEMMA Concatenation ==
    ASSUME NEW S, NEW a \in Seq(S), NEW b \in Seq(S)
    PROVE  /\ a \o b \in Seq(S) /\ Len(a \o b) = Len(a) + Len(b)
           /\ \A m \in 1 .. Len(a) : (a \o b)[m] = a[m]
           /\ \A m \in 1 .. Len(b) : (a \o b)[Len(a) + m] = b[m]
OBVIOUS

\* Of three of them, it does not matter which are joined first.
Assoc(a, b, c) == (a \o b) \o c = a \o (b \o c)

LEMMA Associative ==
    ASSUME NEW S, NEW a \in Seq(S), NEW b \in Seq(S), NEW c \in Seq(S)
    PROVE  Assoc(a, b, c)
<1> DEFINE x == (a \o b) \o c
           y == a \o (b \o c)
<1>1. PICK i \in Nat, j \in Nat, k \in Nat : i = Len(a) /\ j = Len(b) /\ k = Len(c)
  OBVIOUS
<1>2. a \o b \in Seq(S) /\ Len(a \o b) = i + j /\ b \o c \in Seq(S) /\ Len(b \o c) = j + k
  BY <1>1
<1>3. x \in Seq(S) /\ Len(x) = i + j + k /\ y \in Seq(S) /\ Len(y) = i + j + k
  BY <1>1, <1>2
<1>4. ASSUME NEW m \in 1 .. i + j + k PROVE x[m] = y[m]
  <2>1. CASE m <= i
    BY <1>1, <1>2, <2>1
  <2>2. CASE m > i /\ m <= i + j
    BY <1>1, <1>2, <2>2
  <2>3. CASE m > i + j
    BY <1>1, <1>2, <2>3
  <2> QED
    BY <1>1, <2>1, <2>2, <2>3
<1> HIDE DEF x, y
<1>5. x = y
  BY <1>3, <1>4
<1> QED
  BY <1>5, Zenon DEF x, y, Assoc

\* What is left of a sequence without its first element.
LEMMA TailOf ==
    ASSUME NEW S, NEW r \in Seq(S), r # <<>>
    PROVE  /\ Tail(r) \in Seq(S) /\ Len(Tail(r)) = Len(r) - 1 /\ Head(r) = r[1]
           /\ \A i \in 1 .. Len(r) - 1 : Tail(r)[i] = r[i + 1]
OBVIOUS

\* Sequences of the same length are equal when their elements are.
LEMMA SameSeq ==
    ASSUME NEW S, NEW r \in Seq(S), NEW T, NEW q \in Seq(T), Len(r) = Len(q),
           \A i \in 1 .. Len(r) : r[i] = q[i]
    PROVE  r = q
OBVIOUS

\* A function on the first numbers is a sequence.
LEMMA IsSeq ==
    ASSUME NEW S, NEW k \in Nat, NEW f \in [1 .. k -> S]
    PROVE  f \in Seq(S) /\ Len(f) = k
OBVIOUS

\* The cells p are the first ones of s.
Begins(p, s) == p = <<>> \/ \E n \in 0 .. Len(s) : p = SubSeq(s, 1, n)

\* No cells are the first ones of any.
LEMMA BeginsEmpty == \A s : Begins(<<>>, s)
BY DEF Begins

\* Then p is the part of s up to some place.
LEMMA BeginsAt ==
    ASSUME NEW S, NEW s \in Seq(S), NEW p, Begins(p, s)
    PROVE  \E n \in 0 .. Len(s) : p = SubSeq(s, 1, n)
<1>1. 0 \in 0 .. Len(s) /\ SubSeq(s, 1, 0) = <<>>
  OBVIOUS
<1> QED
  BY <1>1 DEF Begins

\* As many cells, or more: all of them.
LEMMA BeginsAll ==
    ASSUME NEW S, NEW s \in Seq(S), NEW p, Begins(p, s), Len(s) <= Len(p)
    PROVE  p = s
<1>1. PICK n \in 0 .. Len(s) : p = SubSeq(s, 1, n)
  BY BeginsAt
<1>2. Len(p) = n
  BY <1>1
<1>3. n = Len(s)
  BY <1>2
<1> QED
  BY <1>1, <1>3

\* The cells from i + 1 to j.
LEMMA PartIs ==
    ASSUME NEW S, NEW s \in Seq(S), NEW i \in Nat, NEW j \in Nat, i <= j, j <= Len(s)
    PROVE  /\ SubSeq(s, i + 1, j) \in Seq(S) /\ Len(SubSeq(s, i + 1, j)) = j - i
           /\ \A k \in 1 .. j - i : SubSeq(s, i + 1, j)[k] = s[i + k]
OBVIOUS

\* What comes next in the same cells.
LEMMA BeginsMore ==
    ASSUME NEW S, NEW s \in Seq(S), NEW n \in Nat, NEW m \in Nat, n <= m, m <= Len(s)
    PROVE  SubSeq(s, 1, n) \o SubSeq(s, n + 1, m) = SubSeq(s, 1, m)
<1>0. 0 \in Nat /\ 0 + 1 = 1 /\ n - 0 = n /\ m - 0 = m /\ 0 <= n /\ 0 <= m /\ n <= Len(s)
  OBVIOUS
<1>1. PICK a \in Seq(S) :
        a = SubSeq(s, 1, n) /\ Len(a) = n /\ \A i \in 1 .. n : a[i] = s[i]
  <2>1. PICK a : a = SubSeq(s, 0 + 1, n)
    OBVIOUS
  <2>2. a \in Seq(S) /\ Len(a) = n - 0 /\ \A i \in 1 .. n - 0 : a[i] = s[0 + i]
    BY <1>0, <2>1, PartIs, Zenon
  <2> QED
    BY <1>0, <2>1, <2>2
<1>2. PICK b \in Seq(S) :
        /\ b = SubSeq(s, n + 1, m) /\ Len(b) = m - n
        /\ \A i \in 1 .. m - n : b[i] = s[n + i]
  <2>1. PICK b : b = SubSeq(s, n + 1, m)
    OBVIOUS
  <2>2. b \in Seq(S) /\ Len(b) = m - n /\ \A i \in 1 .. m - n : b[i] = s[n + i]
    BY <2>1, PartIs
  <2> QED
    BY <2>1, <2>2
<1>3. PICK c \in Seq(S) :
        c = SubSeq(s, 1, m) /\ Len(c) = m /\ \A i \in 1 .. m : c[i] = s[i]
  <2>1. PICK c : c = SubSeq(s, 0 + 1, m)
    OBVIOUS
  <2>2. c \in Seq(S) /\ Len(c) = m - 0 /\ \A i \in 1 .. m - 0 : c[i] = s[0 + i]
    BY <1>0, <2>1, PartIs, Zenon
  <2> QED
    BY <1>0, <2>1, <2>2
<1>4. PICK d \in Seq(S) :
        /\ d = a \o b /\ Len(d) = Len(a) + Len(b)
        /\ \A i \in 1 .. Len(a) : d[i] = a[i]
        /\ \A i \in 1 .. Len(b) : d[Len(a) + i] = b[i]
  <2>1. PICK d : d = a \o b
    OBVIOUS
  <2>2. /\ d \in Seq(S) /\ Len(d) = Len(a) + Len(b)
        /\ \A i \in 1 .. Len(a) : d[i] = a[i]
        /\ \A i \in 1 .. Len(b) : d[Len(a) + i] = b[i]
    BY <2>1, Concatenation
  <2> QED
    BY <2>1, <2>2
<1>5. ASSUME NEW i \in 1 .. m PROVE d[i] = c[i]
  <2>1. CASE i <= n
    BY <1>1, <1>3, <1>4, <2>1
  <2>2. CASE i > n
    <3>1. i - n \in 1 .. m - n /\ n + (i - n) = i
      BY <2>2
    <3>2. d[n + (i - n)] = b[i - n]
      BY <1>1, <1>2, <1>4, <3>1
    <3> QED
      BY <1>2, <1>3, <3>1, <3>2
  <2> QED
    BY <2>1, <2>2
<1>6. d = c
  <2>1. Len(d) = m
    BY <1>1, <1>2, <1>4
  <2> QED
    BY <1>3, <1>5, <2>1
<1> QED
  BY <1>1, <1>2, <1>3, <1>4, <1>6

\* What a reader has after one more call: a few cells more.
LEMMA ReadOn ==
    ASSUME NEW S, NEW s \in Seq(S), NEW p \in Seq(S), NEW size \in Nat \ {0}, NEW q,
           Len(p) < Len(s), q = p \o SubSeq(s, Len(p) + 1, Min({Len(p) + size, Len(s)}))
    PROVE  q \in Seq(S) /\ q # <<>> /\ (Begins(p, s) => Begins(q, s))
<1>1. PICK n \in Nat, l \in Nat : n = Len(p) /\ l = Len(s)
  OBVIOUS
<1>2. PICK m : m = Min({n + size, l})
  OBVIOUS
<1>3. m \in Nat /\ n < m /\ m <= l
  <2>1. {n + size, l} \in SUBSET Nat /\ {n + size, l} # {}
    OBVIOUS
  <2>2. m \in {n + size, l} /\ m <= l
    BY <1>2, <2>1, NatMin
  <2> QED
    BY <1>1, <2>2
<1>4. q = p \o SubSeq(s, n + 1, m)
  BY <1>1, <1>2
<1>5. SubSeq(s, n + 1, m) \in Seq(S) /\ Len(SubSeq(s, n + 1, m)) = m - n
  BY <1>1, <1>3
<1>6. q \in Seq(S) /\ Len(q) = m
  <2>1. PICK r \in Seq(S) : r = SubSeq(s, n + 1, m) /\ Len(r) = m - n
    BY <1>5
  <2>2. q = p \o r
    BY <1>4, <2>1
  <2>3. q \in Seq(S) /\ Len(q) = Len(p) + Len(r)
    BY <2>2, Concatenation
  <2>4. n + (m - n) = m
    BY <1>3
  <2> QED
    BY <1>1, <2>1, <2>3, <2>4
<1>7. ASSUME Begins(p, s) PROVE Begins(q, s)
  <2>1. PICK i \in 0 .. Len(s) : p = SubSeq(s, 1, i)
    BY <1>7, BeginsAt
  <2>2. i = n
    <3>1. Len(SubSeq(s, 1, i)) = i
      OBVIOUS
    <3> QED
      BY <1>1, <2>1, <3>1
  <2>3. q = SubSeq(s, 1, m)
    <3>1. n \in Nat /\ m \in Nat /\ n <= m /\ m <= Len(s)
      BY <1>1, <1>3
    <3>2. p = SubSeq(s, 1, n)
      BY <2>1, <2>2
    <3>3. SubSeq(s, 1, n) \o SubSeq(s, n + 1, m) = SubSeq(s, 1, m)
      BY <3>1, BeginsMore
    <3> QED
      BY <1>4, <3>2, <3>3
  <2>4. m \in 0 .. Len(s)
    BY <1>1, <1>3
  <2> QED
    BY <2>3, <2>4 DEF Begins
<1>8. q # <<>>
  BY <1>3, <1>6
<1> QED
  BY <1>6, <1>7, <1>8
=============================================================================
