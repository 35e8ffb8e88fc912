----------------------------- MODULE DataProofs -----------------------------
(***************************************************************************)
(* Proofs about DataFiles.                                                 *)
(*                                                                         *)
(* The first half knows no state: rows convert to cells that convert back  *)
(* to them, so the text of any number of rows is read as those rows, and   *)
(* what an update makes of rows is rows. The second half is an invariant   *)
(* in three layers, with a step for each action: what requests hold and    *)
(* files are made of (TypeInv); that a file which is not struck is what    *)
(* all its updates make one after the other, or the first pieces of that   *)
(* while one of them writes (KeptInv); and what clients have been told of  *)
(* subscriptions (SyncInv).                                                *)
(***************************************************************************)
EXTENDS DataFiles, Basics

\* The elements at the places I of s, of length k, are in T.
ElementsIn(s, I, k, T) ==
    /\ k \in Nat /\ Len(s) = k
    /\ \A n \in 1 .. k : n \in I => s[n] \in T

\* u is the recursive function of ElementsAt.
Builds(u, s, I, k, T) ==
    /\ u \in [0 .. k -> Seq(T)]
    /\ ElementsAt(s, I) = u[k]
    /\ u[0] = <<>>
    /\ \A n \in 0 .. k - 1 :
        u[n + 1] = IF n + 1 \in I THEN Append(u[n], s[n + 1]) ELSE u[n]

\* ElementsAt is well defined.
LEMMA ElementsAre ==
    ASSUME NEW T, NEW I, NEW k, NEW s, ElementsIn(s, I, k, T)
    PROVE  \E u : Builds(u, s, I, k, T)
<1>0. k \in Nat /\ Len(s) = k /\ \A n \in 1 .. k : n \in I => s[n] \in T
  BY DEF ElementsIn
<1> DEFINE Eq(f) == f = [n \in 0 .. k |->
                IF n = 0 THEN <<>>
                ELSE IF n \in I THEN Append(f[n - 1], s[n]) ELSE f[n - 1]]
           step == [n \in 1 .. k |-> [r \in Seq(T) |-> IF n \in I THEN Append(r, s[n]) ELSE r]]
           u == CHOOSE f : Eq(f)
<1>1. step \in [1 .. k -> [Seq(T) -> Seq(T)]]
  BY <1>0
<1>2. PICK g : Follows(g, Seq(T), <<>>, k, step)
  <2> DEFINE A == Seq(T)
             e == <<>>
  <2>1. e \in A /\ step \in [1 .. k -> [A -> A]]
    BY <1>1
  <2> HIDE DEF step, A, e
  <2>2. \E f : Follows(f, A, e, k, step)
    BY <1>0, <2>1, Recursion
  <2> QED
    BY <2>2 DEF A, e
<1>3. Eq(g)
  <2>1. /\ g \in [0 .. k -> Seq(T)] /\ g[0] = <<>>
        /\ \A n \in 0 .. k - 1 : g[n + 1] = step[n + 1][g[n]]
    BY <1>2 DEF Follows
  <2>2. ASSUME NEW n \in 0 .. k, n # 0
        PROVE  g[n] = IF n \in I THEN Append(g[n - 1], s[n]) ELSE g[n - 1]
    <3>1. /\ n - 1 \in 0 .. k - 1 /\ n - 1 \in 0 .. k /\ n \in 1 .. k
          /\ n - 1 + 1 = n
      BY <1>0, <2>2
    <3>2. g[n - 1] \in Seq(T)
      BY <2>1, <3>1
    <3>3. step[n][g[n - 1]] = IF n \in I THEN Append(g[n - 1], s[n]) ELSE g[n - 1]
      BY <3>1, <3>2
    <3> HIDE DEF step
    <3>4. g[n - 1 + 1] = step[n - 1 + 1][g[n - 1]]
      BY <2>1, <3>1, Zenon
    <3> QED
      BY <3>1, <3>3, <3>4
  <2>3. g = [n \in 0 .. k |-> g[n]]
    BY <2>1
  <2> QED
    BY <2>1, <2>2, <2>3
<1>4. Eq(u)
  BY <1>3
<1>5. ElementsAt(s, I) = u[k]
  BY <1>0 DEF ElementsAt
<1> HIDE DEF u
<1>6. u[0] = <<>>
  <2>1. 0 \in 0 .. k
    BY <1>0
  <2> QED
    BY <1>4, <2>1, Zenon
<1>7. ASSUME NEW n \in 0 .. k - 1
      PROVE  u[n + 1] = IF n + 1 \in I THEN Append(u[n], s[n + 1]) ELSE u[n]
  <2>1. n + 1 \in 0 .. k /\ n + 1 # 0 /\ n + 1 - 1 = n
    BY <1>0
  <2> DEFINE m == n + 1
  <2> HIDE DEF m
  <2>2. m \in 0 .. k /\ m # 0
    BY <2>1 DEF m
  <2>3. u[m] = IF m \in I THEN Append(u[m - 1], s[m]) ELSE u[m - 1]
    BY <1>4, <2>2, Zenon
  <2> QED
    BY <2>1, <2>3 DEF m
<1>8. \A n \in 0 .. k : u[n] \in Seq(T)
  <2> DEFINE Typed == {n \in 0 .. k : u[n] \in Seq(T)}
  <2>1. 0 \in Typed
    <3>1. <<>> \in Seq(T) /\ 0 \in 0 .. k
      BY <1>0
    <3> QED
      BY <1>6, <3>1
  <2>2. ASSUME NEW n \in 0 .. k - 1, n \in Typed PROVE n + 1 \in Typed
    <3>1. n + 1 \in 1 .. k /\ n + 1 \in 0 .. k
      BY <1>0
    <3>2. u[n + 1] = IF n + 1 \in I THEN Append(u[n], s[n + 1]) ELSE u[n]
      BY <1>7
    <3>3. u[n] \in Seq(T)
      BY <2>2
    <3>4. u[n + 1] \in Seq(T)
      <4>1. CASE n + 1 \in I
        <5>1. s[n + 1] \in T
          BY <1>0, <3>1, <4>1
        <5> QED
          BY <3>2, <3>3, <4>1, <5>1
      <4> QED
        BY <3>2, <3>3, <4>1
    <3> QED
      BY <3>1, <3>4
  <2> HIDE DEF Typed
  <2>3. \A n \in 0 .. k : n \in Typed
    BY <1>0, <2>1, <2>2, Induction
  <2> QED
    BY <2>3 DEF Typed
<1>9. u \in [0 .. k -> Seq(T)]
  <2>1. u = [n \in 0 .. k |-> u[n]]
    BY <1>4
  <2> QED
    BY <1>8, <2>1
<1>10. Builds(u, s, I, k, T)
  BY <1>5, <1>6, <1>7, <1>9 DEF Builds
<1> QED
  BY <1>10

\* What the sequence has one more of.
LEMMA RangeAppend ==
    ASSUME NEW T, NEW r \in Seq(T), NEW x \in T
    PROVE  Range(Append(r, x)) = Range(r) \cup {x}
<1>1. PICK n \in Nat : n = Len(r)
  OBVIOUS
<1>2. DOMAIN r = 1 .. n /\ DOMAIN Append(r, x) = 1 .. n + 1
  BY <1>1
<1>3. /\ \A i \in 1 .. n : Append(r, x)[i] = r[i]
      /\ Append(r, x)[n + 1] = x
  BY <1>1
<1>4. 1 .. n + 1 = (1 .. n) \cup {n + 1}
  BY <1>1
<1>5. Range(r) = {r[i] : i \in 1 .. n}
  BY <1>2, Zenon DEF Range
<1>6. Range(Append(r, x)) = {Append(r, x)[i] : i \in 1 .. n + 1}
  BY <1>2, Zenon DEF Range
<1>7. ASSUME NEW y \in Range(Append(r, x)) PROVE y \in Range(r) \cup {x}
  <2>1. PICK i \in 1 .. n + 1 : y = Append(r, x)[i]
    BY <1>6
  <2>2. CASE i \in 1 .. n
    BY <1>3, <1>5, <2>1, <2>2
  <2>3. CASE i = n + 1
    BY <1>3, <2>1, <2>3
  <2> QED
    BY <1>4, <2>2, <2>3
<1>8. Range(r) \subseteq Range(Append(r, x))
  <2>1. \A i \in 1 .. n : r[i] = Append(r, x)[i] /\ i \in 1 .. n + 1
    BY <1>3, <1>4
  <2> QED
    BY <1>5, <1>6, <2>1, Zenon
<1>9. x \in Range(Append(r, x))
  <2>1. x = Append(r, x)[n + 1] /\ n + 1 \in 1 .. n + 1
    BY <1>3, <1>4
  <2> QED
    BY <1>6, <2>1, Zenon
<1> QED
  BY <1>7, <1>8, <1>9, Zenon

\* ElementsAt returns elements of the sequence, those and no others.
LEMMA ElementsTyped ==
    ASSUME NEW T, NEW I, NEW k, NEW s, ElementsIn(s, I, k, T)
    PROVE  /\ ElementsAt(s, I) \in Seq(T)
           /\ Range(ElementsAt(s, I)) = {s[n] : n \in I \cap (1 .. k)}
<1>0. k \in Nat /\ Len(s) = k /\ \A n \in 1 .. k : n \in I => s[n] \in T
  BY DEF ElementsIn
<1>p. PICK u : Builds(u, s, I, k, T)
  BY ElementsAre
<1>1. /\ u \in [0 .. k -> Seq(T)]
      /\ ElementsAt(s, I) = u[k]
      /\ u[0] = <<>>
      /\ \A n \in 0 .. k - 1 :
            u[n + 1] = IF n + 1 \in I THEN Append(u[n], s[n + 1]) ELSE u[n]
  BY <1>p DEF Builds
<1> DEFINE Some(n) == {s[m] : m \in I \cap (1 .. n)}
           Right == {n \in 0 .. k : Range(u[n]) = Some(n)}
<1>2. 0 \in Right
  <2>1. Range(<<>>) = {}
    BY DEF Range
  <2>2. Some(0) = {} /\ 0 \in 0 .. k
    BY <1>0
  <2> QED
    BY <1>1, <2>1, <2>2
<1>3. ASSUME NEW n \in 0 .. k - 1, n \in Right PROVE n + 1 \in Right
  <2>1. n + 1 \in 1 .. k /\ n \in 0 .. k /\ n + 1 \in 0 .. k
    BY <1>0
  <2>2. u[n + 1] = IF n + 1 \in I THEN Append(u[n], s[n + 1]) ELSE u[n]
    BY <1>1, <2>1
  <2>3. 1 .. n + 1 = (1 .. n) \cup {n + 1}
    BY <1>0
  <2>4. Range(u[n]) = Some(n) /\ u[n] \in Seq(T)
    BY <1>1, <1>3, <2>1
  <2>5. CASE n + 1 \in I
    <3>1. s[n + 1] \in T
      BY <1>0, <2>1, <2>5
    <3>2. Range(u[n + 1]) = Range(u[n]) \cup {s[n + 1]}
      BY <2>2, <2>4, <2>5, <3>1, RangeAppend
    <3>3. Some(n + 1) = Some(n) \cup {s[n + 1]}
      BY <2>3, <2>5
    <3> QED
      BY <2>1, <2>4, <3>2, <3>3
  <2>6. CASE n + 1 \notin I
    <3>1. Some(n + 1) = Some(n)
      BY <2>3, <2>6
    <3> QED
      BY <2>1, <2>2, <2>4, <2>6, <3>1
  <2> QED
    BY <2>5, <2>6
<1> HIDE DEF Right
<1>4. \A n \in 0 .. k : n \in Right
  BY <1>0, <1>2, <1>3, Induction
<1>5. k \in Right /\ u[k] \in Seq(T)
  BY <1>0, <1>1, <1>4
<1> QED
  BY <1>1, <1>5 DEF Right

\* One more element is taken of r than of s.
OneMoreIn(s, I, k, r, J, l, T) ==
    /\ ElementsIn(s, I, k, T)
    /\ l \in Nat /\ Len(r) = l /\ k < l
    /\ \A n \in 1 .. k : (n \in J <=> n \in I) /\ r[n] = s[n]
    /\ k + 1 \in J /\ r[k + 1] \in T
    /\ \A n \in k + 2 .. l : n \notin J

\* One more place, after all others, is one more element.
LEMMA ElementsMore ==
    ASSUME NEW T, NEW s, NEW I, NEW k, NEW r, NEW J, NEW l, OneMoreIn(s, I, k, r, J, l, T)
    PROVE  ElementsAt(r, J) = Append(ElementsAt(s, I), r[k + 1])
<1>a. /\ ElementsIn(s, I, k, T)
      /\ l \in Nat /\ Len(r) = l /\ k < l
      /\ \A n \in 1 .. k : (n \in J <=> n \in I) /\ r[n] = s[n]
      /\ k + 1 \in J /\ r[k + 1] \in T
      /\ \A n \in k + 2 .. l : n \notin J
  BY DEF OneMoreIn
<1> USE <1>a
<1>0. k \in Nat /\ Len(s) = k /\ \A n \in 1 .. k : n \in I => s[n] \in T
  BY DEF ElementsIn
<1>p. PICK u : Builds(u, s, I, k, T)
  BY ElementsAre
<1>1. /\ u \in [0 .. k -> Seq(T)]
      /\ ElementsAt(s, I) = u[k]
      /\ u[0] = <<>>
      /\ \A n \in 0 .. k - 1 :
            u[n + 1] = IF n + 1 \in I THEN Append(u[n], s[n + 1]) ELSE u[n]
  BY <1>p DEF Builds
<1>2. ElementsIn(r, J, l, T)
  <2> SUFFICES ASSUME NEW n \in 1 .. l, n \in J PROVE r[n] \in T
    BY DEF ElementsIn
  <2>1. n \in 1 .. k \/ n = k + 1
    BY <1>0
  <2> QED
    BY <1>0, <2>1
<1>q. PICK v : Builds(v, r, J, l, T)
  BY <1>2, ElementsAre
<1>3. /\ v \in [0 .. l -> Seq(T)]
      /\ ElementsAt(r, J) = v[l]
      /\ v[0] = <<>>
      /\ \A n \in 0 .. l - 1 :
            v[n + 1] = IF n + 1 \in J THEN Append(v[n], r[n + 1]) ELSE v[n]
  BY <1>q DEF Builds
<1> DEFINE Same == {n \in 0 .. k : v[n] = u[n]}
<1>4. 0 \in Same
  BY <1>0, <1>1, <1>3
<1>5. ASSUME NEW n \in 0 .. k - 1, n \in Same PROVE n + 1 \in Same
  <2>1. n + 1 \in 1 .. k /\ n \in 0 .. l - 1 /\ n + 1 \in 0 .. k
    BY <1>0
  <2>2. u[n + 1] = IF n + 1 \in I THEN Append(u[n], s[n + 1]) ELSE u[n]
    BY <1>1
  <2>3. v[n + 1] = IF n + 1 \in J THEN Append(v[n], r[n + 1]) ELSE v[n]
    BY <1>3, <2>1
  <2>4. v[n] = u[n]
    BY <1>5
  <2> QED
    BY <2>1, <2>2, <2>3, <2>4
<1>6. v[k] = u[k]
  <2> HIDE DEF Same
  <2>1. \A n \in 0 .. k : n \in Same
    BY <1>0, <1>4, <1>5, Induction
  <2>2. k \in Same
    BY <1>0, <2>1
  <2> QED
    BY <2>2 DEF Same
<1>7. v[k + 1] = Append(v[k], r[k + 1])
  <2>1. k \in 0 .. l - 1
    BY <1>0
  <2> QED
    BY <1>3, <2>1
<1> DEFINE Rest == {n \in 0 .. l - (k + 1) : v[k + 1 + n] = v[k + 1]}
<1>8. l - (k + 1) \in Nat /\ 0 \in Rest
  BY <1>0
<1>9. ASSUME NEW n \in 0 .. l - (k + 1) - 1, n \in Rest PROVE n + 1 \in Rest
  <2>1. /\ k + 1 + n \in 0 .. l - 1 /\ k + 1 + (n + 1) = k + 1 + n + 1
        /\ k + 1 + n + 1 \in k + 2 .. l /\ n + 1 \in 0 .. l - (k + 1)
    BY <1>0
  <2>2. v[k + 1 + n + 1] = v[k + 1 + n]
    BY <1>3, <2>1
  <2> QED
    BY <1>9, <2>1, <2>2
<1>10. v[l] = v[k + 1]
  <2> HIDE DEF Rest
  <2>1. \A n \in 0 .. l - (k + 1) : n \in Rest
    BY <1>8, <1>9, Induction
  <2>2. l - (k + 1) \in Rest
    BY <1>8, <2>1
  <2>3. k + 1 + (l - (k + 1)) = l
    BY <1>0
  <2> QED
    BY <2>2, <2>3 DEF Rest
<1> QED
  BY <1>1, <1>3, <1>6, <1>7, <1>10

-----------------------------------------------------------------------------
\* Sequences of sequences, joined

\* u is the recursive function of FlattenSeq.
Joins(u, ss, k, S) ==
    /\ u \in [0 .. k -> Seq(S)]
    /\ FlattenSeq(ss) = u[k]
    /\ u[0] = <<>>
    /\ \A n \in 0 .. k - 1 : u[n + 1] = u[n] \o ss[n + 1]

\* FlattenSeq joins the sequences one after the other.
LEMMA FlattenIs ==
    ASSUME NEW S, NEW ss \in Seq(Seq(S)), NEW k \in Nat, k = Len(ss)
    PROVE  \E u : Joins(u, ss, k, S)
<1> DEFINE A == Seq(S)
           step == [n \in 1 .. k |-> [r \in A |-> r \o ss[n]]]
<1>1. <<>> \in A /\ \A n \in 1 .. k : ss[n] \in A
  OBVIOUS
<1>2. step \in [1 .. k -> [A -> A]]
  <2>1. ASSUME NEW n \in 1 .. k, NEW r \in A PROVE r \o ss[n] \in A
    <3>1. ss[n] \in A
      BY <1>1
    <3> QED
      BY <3>1
  <2> HIDE DEF A
  <2> QED
    BY <2>1
<1>3. PICK g : Follows(g, A, <<>>, k, step)
  <2> DEFINE e == <<>>
  <2>1. e \in A
    BY <1>1
  <2> HIDE DEF A, step, e
  <2>2. \E g : Follows(g, A, e, k, step)
    BY <1>2, <2>1, Recursion
  <2> QED
    BY <2>2 DEF e
<1>4. g \in [0 .. k -> A] /\ g[0] = <<>>
  BY <1>3 DEF Follows
<1>5. ASSUME NEW n \in 0 .. k - 1 PROVE g[n + 1] = g[n] \o ss[n + 1]
  <2>1. n + 1 \in 1 .. k /\ n \in 0 .. k
    OBVIOUS
  <2>2. g[n] \in A
    BY <1>4, <2>1
  <2>3. step[n + 1][g[n]] = g[n] \o ss[n + 1]
    BY <2>1, <2>2
  <2> HIDE DEF step, A
  <2>4. g[n + 1] = step[n + 1][g[n]]
    BY <1>3 DEF Follows
  <2> QED
    BY <2>3, <2>4
<1> HIDE DEF step
<1>6. FlattenSeq(ss) = g[k]
  <2>1. CASE k = 0
    <3>1. ss = <<>>
      <4> DEFINE A2 == Seq(S)
      <4>1. ss \in Seq(A2) /\ Len(ss) = 0
        BY <2>1
      <4> HIDE DEF A2
      <4> QED
        BY <4>1
    <3> QED
      BY <1>4, <2>1, <3>1 DEF FlattenSeq
  <2>2. CASE k # 0
    <3> DEFINE Eq(f) == f = [i \in 1 .. k |-> IF i = 1 THEN ss[i] ELSE f[i - 1] \o ss[i]]
               h == [i \in 1 .. k |-> g[i]]
               f == CHOOSE f : Eq(f)
    <3>1. g[1] = ss[1]
      <4>1. 1 \in 1 .. k /\ 0 \in 0 .. k - 1 /\ 0 + 1 = 1
        BY <2>2
      <4>2. g[1] = <<>> \o ss[1]
        BY <1>4, <1>5, <4>1
      <4>3. ss[1] \in Seq(S)
        BY <4>1
      <4> QED
        BY <4>2, <4>3
    <3>2. Eq(h)
      <4>1. ASSUME NEW i \in 1 .. k, i # 1 PROVE g[i] = h[i - 1] \o ss[i]
        <5>1. i - 1 \in 1 .. k /\ i - 1 \in 0 .. k - 1 /\ i - 1 + 1 = i
          BY <4>1
        <5>2. g[i - 1 + 1] = g[i - 1] \o ss[i - 1 + 1]
          BY <1>5, <5>1, Zenon
        <5> QED
          BY <5>1, <5>2
      <4>2. \A i \in 1 .. k : g[i] = IF i = 1 THEN ss[i] ELSE h[i - 1] \o ss[i]
        BY <3>1, <4>1
      <4> QED
        BY <4>2, Zenon
    <3>3. Eq(f)
      <4> HIDE DEF h
      <4> QED
        BY <3>2, Zenon
    <3>4. FlattenSeq(ss) = f[k]
      BY <2>2, Zenon DEF FlattenSeq
    <3> HIDE DEF f
    <3> DEFINE Same == {n \in 0 .. k : n = 0 \/ f[n] = g[n]}
    <3>5. 0 \in Same
      OBVIOUS
    <3>6. ASSUME NEW n \in 0 .. k - 1, n \in Same PROVE n + 1 \in Same
      <4>1. n + 1 \in 1 .. k /\ n + 1 \in 0 .. k /\ n + 1 - 1 = n
        OBVIOUS
      <4>2. CASE n = 0
        <5>1. f[1] = ss[1]
          BY <2>2, <3>3
        <5> QED
          BY <3>1, <4>1, <4>2, <5>1
      <4>3. CASE n # 0
        <5>1. f[n + 1] = f[n] \o ss[n + 1]
          <6>1. n + 1 # 1
            BY <4>3
          <6>2. f[n + 1] = IF n + 1 = 1 THEN ss[n + 1] ELSE f[n + 1 - 1] \o ss[n + 1]
            <7> DEFINE m == n + 1
            <7>1. m \in 1 .. k
              BY <4>1
            <7> HIDE DEF m
            <7>2. f[m] = IF m = 1 THEN ss[m] ELSE f[m - 1] \o ss[m]
              BY <3>3, <7>1, Zenon
            <7> QED
              BY <7>2 DEF m
          <6>3. f[n + 1] = f[n + 1 - 1] \o ss[n + 1]
            BY <6>1, <6>2
          <6> QED
            BY <4>1, <6>3
        <5>2. g[n + 1] = g[n] \o ss[n + 1]
          BY <1>5
        <5> QED
          BY <3>6, <4>1, <4>3, <5>1, <5>2
      <4> QED
        BY <4>2, <4>3
    <3>7. k \in Same
      <4> HIDE DEF Same
      <4>1. \A n \in 0 .. k : n \in Same
        BY <3>5, <3>6, Induction
      <4> QED
        BY <4>1
    <3> QED
      BY <2>2, <3>4, <3>7
  <2> QED
    BY <2>1, <2>2
<1>7. Joins(g, ss, k, S)
  BY <1>4, <1>5, <1>6 DEF Joins
<1> QED
  BY <1>7

\* How four sequences are joined makes no difference.
Assoc4(r, u, c, z) == (r \o u) \o (c \o z) = (r \o (u \o c)) \o z

LEMMA FourJoined ==
    ASSUME NEW S, NEW r \in Seq(S), NEW u \in Seq(S), NEW c \in Seq(S), NEW z \in Seq(S)
    PROVE  Assoc4(r, u, c, z)
<1>1. r \o u \in Seq(S)
  OBVIOUS
<1>2. PICK ru \in Seq(S) : ru = r \o u
  BY <1>1
<1>3. Assoc(ru, c, z) /\ Assoc(r, u, c)
  BY Associative
<1> QED
  BY <1>2, <1>3, Zenon DEF Assoc, Assoc4

\* Single cells at the end of a sequence.
LEMMA TwoMore1 ==
    ASSUME NEW A, NEW r \in Seq(A), NEW x \in A, NEW y \in A
    PROVE  (r \o <<x>>) \o <<y>> = Append(Append(r, x), y)
OBVIOUS

\* Two elements at the end are appended one after the other.
LEMMA TwoMore ==
    ASSUME NEW A, NEW r \in Seq(A), NEW x \in A, NEW y \in A
    PROVE  r \o <<x, y>> = Append(Append(r, x), y)
OBVIOUS

\* Three elements at the end are appended one after the other.
LEMMA ThreeMore ==
    ASSUME NEW A, NEW ss \in Seq(A), NEW x \in A, NEW y \in A, NEW z \in A
    PROVE  ss \o <<x, y, z>> = Append(Append(Append(ss, x), y), z)
OBVIOUS

\* To append an element is to join the sequence of it alone.
LEMMA OneMore ==
    ASSUME NEW A, NEW c \in Seq(A), NEW e \in A
    PROVE  Append(c, e) = c \o <<e>> 
OBVIOUS

\* One cell and two cells are sequences.
LEMMA Cells ==
    ASSUME NEW A, NEW x \in A, NEW y \in A
    PROVE  <<x, y>> \in Seq(A) /\ <<x>> \in Seq(A)
OBVIOUS

\* Added one by one they are the same as together.
OneByOne(r, x, y, c, e) ==
    ((r \o <<x>>) \o <<y>>) \o Append(c, e) = (r \o (<<x, y>> \o c)) \o <<e>>

\* Two cells, a body and an end, joined cell by cell.
LEMMA ThreeCells ==
    ASSUME NEW S, NEW r \in Seq(S), NEW x \in S, NEW y \in S, NEW c \in Seq(S), NEW e \in S
    PROVE  OneByOne(r, x, y, c, e)
<1>1. <<x, y>> \in Seq(S) /\ <<e>> \in Seq(S)
  BY Cells
<1>2. (r \o <<x, y>>) \o (c \o <<e>>) = (r \o (<<x, y>> \o c)) \o <<e>>
  <2>1. PICK u \in Seq(S) : u = <<x, y>>
    BY <1>1
  <2>2. PICK z \in Seq(S) : z = <<e>>
    BY <1>1
  <2>3. Assoc4(r, u, c, z)
    BY FourJoined
  <2> QED
    BY <2>1, <2>2, <2>3, Zenon DEF Assoc4
<1>3. Append(c, e) = c \o <<e>> 
  BY OneMore
<1>4. (r \o <<x>>) \o <<y>> = r \o <<x, y>>
  <2>1. (r \o <<x>>) \o <<y>> = Append(Append(r, x), y)
    BY TwoMore1
  <2>2. r \o <<x, y>> = Append(Append(r, x), y)
    BY TwoMore
  <2> QED
    BY <2>1, <2>2, Zenon
<1> QED
  BY <1>2, <1>3, <1>4, Zenon DEF OneByOne

\* A sequence of sequences with one more has that one at its end when it is joined.
LEMMA FlatAppend ==
    ASSUME NEW S, NEW ss \in Seq(Seq(S)), NEW p \in Seq(S)
    PROVE  /\ FlattenSeq(ss) \in Seq(S)
           /\ FlattenSeq(Append(ss, p)) = FlattenSeq(ss) \o p
           /\ Append(ss, p) \in Seq(Seq(S))
<1> DEFINE A == Seq(S)
           rr == Append(ss, p)
<1>1. PICK k \in Nat : k = Len(ss)
  OBVIOUS
<1>2. /\ rr \in Seq(A) /\ k + 1 \in Nat /\ k + 1 = Len(rr)
      /\ rr[k + 1] = p /\ \A n \in 1 .. k : rr[n] = ss[n]
  <2>1. ss \in Seq(A) /\ p \in A
    OBVIOUS
  <2> HIDE DEF A
  <2> QED
    BY <1>1, <2>1
<1> HIDE DEF rr
<1>3. PICK u : Joins(u, ss, k, S)
  BY <1>1, FlattenIs
<1>4. PICK v : Joins(v, rr, k + 1, S)
  BY <1>2, FlattenIs
<1>5. /\ u \in [0 .. k -> Seq(S)] /\ FlattenSeq(ss) = u[k] /\ u[0] = <<>>
      /\ \A n \in 0 .. k - 1 : u[n + 1] = u[n] \o ss[n + 1]
  BY <1>3 DEF Joins
<1>6. /\ FlattenSeq(rr) = v[k + 1] /\ v[0] = <<>>
      /\ \A n \in 0 .. k : v[n + 1] = v[n] \o rr[n + 1]
  <2>1. \A n \in 0 .. k : n \in 0 .. k + 1 - 1
    OBVIOUS
  <2>2. FlattenSeq(rr) = v[k + 1] /\ v[0] = <<>>
    BY <1>4, Zenon DEF Joins
  <2> DEFINE l == k + 1
  <2>3. Joins(v, rr, l, S)
    BY <1>4
  <2> HIDE DEF l
  <2>4. \A n \in 0 .. l - 1 : v[n + 1] = v[n] \o rr[n + 1]
    BY <2>3 DEF Joins
  <2>5. \A n \in 0 .. k : n \in 0 .. l - 1
    BY <2>1 DEF l
  <2> QED
    BY <2>2, <2>4, <2>5
<1> DEFINE Same == {n \in 0 .. k : v[n] = u[n]}
<1>7. 0 \in Same
  BY <1>5, <1>6
<1>8. ASSUME NEW n \in 0 .. k - 1, n \in Same PROVE n + 1 \in Same
  <2>1. n + 1 \in 1 .. k /\ n + 1 \in 0 .. k /\ n \in 0 .. k
    OBVIOUS
  <2>2. v[n + 1] = v[n] \o rr[n + 1] /\ u[n + 1] = u[n] \o ss[n + 1]
    BY <1>5, <1>6, <2>1
  <2>3. rr[n + 1] = ss[n + 1] /\ v[n] = u[n]
    BY <1>2, <1>8, <2>1
  <2> QED
    BY <2>1, <2>2, <2>3
<1> HIDE DEF Same
<1>9. k \in Same
  <2>1. \A n \in 0 .. k : n \in Same
    BY <1>7, <1>8, Induction
  <2> QED
    BY <2>1
<1>10. FlattenSeq(rr) = FlattenSeq(ss) \o p
  <2>1. v[k + 1] = v[k] \o rr[k + 1] /\ v[k] = u[k]
    BY <1>6, <1>9 DEF Same
  <2> QED
    BY <1>2, <1>5, <1>6, <2>1
<1>11. FlattenSeq(ss) \in Seq(S)
  BY <1>5
<1> QED
  BY <1>2, <1>10, <1>11 DEF rr

\* No pieces are no cells.
LEMMA FlatEmpty == FlattenSeq(<<>>) = <<>>
BY DEF FlattenSeq

\* Three sequences more.
JoinsThree(S, ss, a, b, c) ==
    /\ <<a, b, c>> \in Seq(Seq(S)) /\ FlattenSeq(ss) \in Seq(S)
    /\ FlattenSeq(ss \o <<a, b, c>>) = ((FlattenSeq(ss) \o a) \o b) \o c

\* Three more pieces add their cells.
LEMMA FlatThree ==
    ASSUME NEW S, NEW ss \in Seq(Seq(S)), NEW a \in Seq(S), NEW b \in Seq(S), NEW c \in Seq(S)
    PROVE  JoinsThree(S, ss, a, b, c)
<1>3. ss \o <<a, b, c>> = Append(Append(Append(ss, a), b), c) /\ <<a, b, c>> \in Seq(Seq(S))
  <2> DEFINE A == Seq(S)
  <2>1. ss \in Seq(A) /\ a \in A /\ b \in A /\ c \in A
    OBVIOUS
  <2> HIDE DEF A
  <2>2. ss \o <<a, b, c>> = Append(Append(Append(ss, a), b), c)
    BY <2>1, ThreeMore
  <2>3. <<a, b, c>> \in Seq(A)
    BY <2>1
  <2> QED
    BY <2>2, <2>3 DEF A
<1>7. PICK s1 : s1 = Append(ss, a)
  OBVIOUS
<1>8. PICK s2 : s2 = Append(s1, b)
  OBVIOUS
<1>9. FlattenSeq(ss) \in Seq(S) /\ s1 \in Seq(Seq(S)) /\ FlattenSeq(s1) = FlattenSeq(ss) \o a
  BY <1>7, FlatAppend
<1>10. s2 \in Seq(Seq(S)) /\ FlattenSeq(s2) = FlattenSeq(s1) \o b
  BY <1>8, <1>9, FlatAppend
<1>11. FlattenSeq(Append(s2, c)) = FlattenSeq(s2) \o c
  BY <1>10, FlatAppend
<1>13. FlattenSeq(ss \o <<a, b, c>>) = ((FlattenSeq(ss) \o a) \o b) \o c
  BY <1>3, <1>7, <1>8, <1>9, <1>10, <1>11, Zenon
<1> QED
  BY <1>3, <1>9, <1>13 DEF JoinsThree

\* A line that is written in three pieces.
LineOfThree(S, ss, a, b, c, e) ==
    /\ << <<a>>, <<b>>, Append(c, e) >> \in Seq(Seq(S))
    /\ FlattenSeq(ss \o << <<a>>, <<b>>, Append(c, e) >>)
        = (FlattenSeq(ss) \o (<<a, b>> \o c)) \o <<e>>

\* The pieces of a device or a subscription add the cells of one line.
LEMMA ThreePieces ==
    ASSUME NEW S, NEW ss \in Seq(Seq(S)), NEW a \in S, NEW b \in S, NEW c \in Seq(S),
           NEW e \in S
    PROVE  LineOfThree(S, ss, a, b, c, e)
<1>1. <<a>> \in Seq(S) /\ <<b>> \in Seq(S) /\ Append(c, e) \in Seq(S)
  OBVIOUS
<1>2. PICK x \in Seq(S), y \in Seq(S), z \in Seq(S) : x = <<a>> /\ y = <<b>> /\ z = Append(c, e)
  BY <1>1
<1>j. JoinsThree(S, ss, x, y, z)
  BY FlatThree
<1>3. /\ <<x, y, z>> \in Seq(Seq(S)) /\ FlattenSeq(ss) \in Seq(S)
      /\ FlattenSeq(ss \o <<x, y, z>>) = ((FlattenSeq(ss) \o x) \o y) \o z
  BY <1>j, Zenon DEF JoinsThree
<1>4. PICK r \in Seq(S) : r = FlattenSeq(ss)
  BY <1>3
<1>o. OneByOne(r, a, b, c, e)
  BY ThreeCells
<1>5. ((r \o <<a>>) \o <<b>>) \o Append(c, e) = (r \o (<<a, b>> \o c)) \o <<e>>
  BY <1>o, Zenon DEF OneByOne
<1> QED
  BY <1>2, <1>3, <1>4, <1>5, Zenon DEF LineOfThree

-----------------------------------------------------------------------------
\* The text of rows

\* What the cells of a file can be, and the rows that are read from them.
Cell(f, now) ==
    CASE f = "devices" -> Device \cup Text \cup {Mobile, Other, NL, Hole}
      [] f = "subs" -> Device \cup Url \cup {NL, Hole} \cup (0 .. now)
      [] f = "episodes" -> {NL, Hole} \cup EpisodeRow

AnyRow(f, now) ==
    CASE f = "devices" -> [id : Cell(f, now), type : Cell(f, now), caption : Seq(Cell(f, now))]
      [] f = "subs" -> [device : Cell(f, now), created : 0 .. now, url : Seq(Cell(f, now))]
      [] f = "episodes" -> Cell(f, now)

\* The cells of a row without the end of its line.
Body(f, row) ==
    CASE f = "devices" -> <<row.id, row.type>> \o row.caption
      [] f = "subs" -> <<row.device, row.created>> \o row.url
      [] f = "episodes" -> <<row>>

\* The pieces of a row are made of cells, and joined they are its body and the end.
PiecesAre(f, now, row, ss) ==
    /\ Pieces(f, row) \in Seq(Seq(Cell(f, now)))
    /\ Body(f, row) \in Seq(Cell(f, now))
    /\ FlattenSeq(ss \o Pieces(f, row)) = (FlattenSeq(ss) \o Body(f, row)) \o <<NL>>

\* The pieces of a row of any kind add the cells of one line.
LEMMA RowPieces ==
    ASSUME NEW f \in Kinds, NEW now \in Nat, NEW row \in AnyRow(f, now),
           NEW ss \in Seq(Seq(Cell(f, now)))
    PROVE  PiecesAre(f, now, row, ss)
<1>1. PICK C : C = Cell(f, now)
  OBVIOUS
<1>2. NL \in C /\ ss \in Seq(Seq(C))
  BY <1>1 DEF Kinds, Cell
<1>3. ASSUME NEW a \in C, NEW b \in C, NEW c \in Seq(C),
             Pieces(f, row) = << <<a>>, <<b>>, Append(c, NL)>>,
             Body(f, row) = <<a, b>> \o c
      PROVE  /\ Pieces(f, row) \in Seq(Seq(C)) /\ Body(f, row) \in Seq(C)
             /\ FlattenSeq(ss \o Pieces(f, row)) = (FlattenSeq(ss) \o Body(f, row)) \o <<NL>>
  <2>1. LineOfThree(C, ss, a, b, c, NL)
    BY <1>2, ThreePieces
  <2>2. <<a, b>> \o c \in Seq(C)
    OBVIOUS
  <2> QED
    BY <1>3, <2>1, <2>2, Zenon DEF LineOfThree
<1>4. CASE f = "devices"
  <2>1. row.id \in C /\ row.type \in C /\ row.caption \in Seq(C)
    BY <1>1, <1>4 DEF AnyRow
  <2>2. /\ Pieces(f, row) = << <<row.id>>, <<row.type>>, Append(row.caption, NL)>>
        /\ Body(f, row) = <<row.id, row.type>> \o row.caption
    BY <1>4 DEF Pieces, Body
  <2> QED
    BY <1>1, <1>3, <2>1, <2>2, Zenon DEF PiecesAre
<1>5. CASE f = "subs"
  <2>1. row.device \in C /\ row.created \in C /\ row.url \in Seq(C)
    BY <1>1, <1>5 DEF AnyRow, Cell
  <2>2. /\ Pieces(f, row) = << <<row.device>>, <<row.created>>, Append(row.url, NL)>>
        /\ Body(f, row) = <<row.device, row.created>> \o row.url
    BY <1>5 DEF Pieces, Body
  <2> QED
    BY <1>1, <1>3, <2>1, <2>2, Zenon DEF PiecesAre
<1>6. CASE f = "episodes"
  <2>1. row \in C
    BY <1>1, <1>6 DEF AnyRow
  <2>2. Pieces(f, row) = << <<row, NL>> >> /\ Body(f, row) = <<row>>
    BY <1>6 DEF Pieces, Body
  <2>3. <<row>> \in Seq(C) /\ <<NL>> \in Seq(C) /\ <<row, NL>> \in Seq(C)
    BY <1>2, <2>1
  <2>4. PICK x \in Seq(C), y \in Seq(C), p \in Seq(C) : x = <<row>> /\ y = <<NL>> /\ p = <<row, NL>>
    BY <2>3
  <2>5. p = Append(x, NL) /\ Append(x, NL) = x \o <<NL>>
    BY <1>2, <2>4, OneMore
  <2>6. <<p>> \in Seq(Seq(C)) /\ ss \o <<p>> = Append(ss, p)
    <3> DEFINE A == Seq(C)
    <3>1. p \in A /\ ss \in Seq(A)
      BY <1>2
    <3> HIDE DEF A
    <3>2. <<p>> \in Seq(A) /\ ss \o <<p>> = Append(ss, p)
      BY <3>1
    <3> QED
      BY <3>2 DEF A
  <2>7. FlattenSeq(Append(ss, p)) = FlattenSeq(ss) \o p /\ FlattenSeq(ss) \in Seq(C)
    BY <1>2, FlatAppend
  <2>8. PICK r \in Seq(C) : r = FlattenSeq(ss)
    BY <2>7
  <2>9. Assoc(r, x, y)
    BY Associative
  <2>10. FlattenSeq(ss \o <<p>>) = (FlattenSeq(ss) \o x) \o y
    BY <2>4, <2>5, <2>6, <2>7, <2>8, <2>9, Zenon DEF Assoc
  <2> QED
    BY <1>1, <2>2, <2>3, <2>4, <2>6, <2>10, Zenon DEF PiecesAre
<1> QED
  BY <1>4, <1>5, <1>6 DEF Kinds

-----------------------------------------------------------------------------
\* Reading what has one line more

\* Find returns the first place that there is.
LEMMA FindIs ==
    ASSUME NEW S, NEW cells \in Seq(S), NEW cell, NEW i \in DOMAIN cells,
           NEW j \in i .. Len(cells) + 1, j <= Len(cells) => cells[j] = cell,
           \A m \in i .. j - 1 : cells[m] # cell
    PROVE  Find(cells, cell, i) = j
<1> DEFINE P == {m \in i .. Len(cells) : cells[m] = cell} \cup {Len(cells) + 1}
<1>1. P \in SUBSET Nat /\ j \in P /\ \A m \in P : m >= j
  OBVIOUS
<1>2. Min(P) \in P /\ \A m \in P : Min(P) <= m
  BY <1>1, NatMin
<1>3. Min(P) = j
  BY <1>1, <1>2
<1> QED
  BY <1>3 DEF Find

\* There is no such place before it.
LEMMA FindFirst ==
    ASSUME NEW S, NEW cells \in Seq(S), NEW cell, NEW i \in DOMAIN cells
    PROVE  /\ Find(cells, cell, i) \in i .. Len(cells) + 1
           /\ Find(cells, cell, i) <= Len(cells) => cells[Find(cells, cell, i)] = cell
           /\ \A m \in i .. Len(cells) : cells[m] = cell => Find(cells, cell, i) <= m
<1> DEFINE P == {m \in i .. Len(cells) : cells[m] = cell} \cup {Len(cells) + 1}
<1>1. P \in SUBSET Nat /\ P # {} /\ P \subseteq i .. Len(cells) + 1
  OBVIOUS
<1>2. Min(P) \in P /\ \A m \in P : Min(P) <= m
  BY <1>1, NatMin
<1>3. PICK j : j = Min(P)
  OBVIOUS
<1>4. /\ j \in i .. Len(cells) + 1
      /\ j <= Len(cells) => cells[j] = cell
      /\ \A m \in i .. Len(cells) : cells[m] = cell => j <= m
  BY <1>1, <1>2, <1>3
<1>5. Find(cells, cell, i) = j
  BY <1>3 DEF Find
<1> QED
  BY <1>4, <1>5

\* All lines have an end; none is in the middle of a line.
Ended(cells) == Len(cells) > 0 => cells[Len(cells)] = NL
NoEnd(body) == \A m \in 1 .. Len(body) : body[m] # NL

\* The cells of a file, and those of a line with its end after them.
AddsLine(new, cells, body) ==
    /\ Len(new) = Len(cells) + Len(body) + 1
    /\ \A m \in 1 .. Len(cells) : new[m] = cells[m]
    /\ \A m \in 1 .. Len(body) : new[Len(cells) + m] = body[m]
    /\ new[Len(cells) + Len(body) + 1] = NL

\* A body and an end that are joined to some cells add a line to them.
LEMMA LineAdded ==
    ASSUME NEW S, NL \in S, NEW cells \in Seq(S), NEW body \in Seq(S),
           NEW new, new = (cells \o body) \o <<NL>>
    PROVE  new \in Seq(S) /\ AddsLine(new, cells, body)
<1>1. PICK k \in Nat, b \in Nat : k = Len(cells) /\ b = Len(body)
  OBVIOUS
<1>2. cells \o body \in Seq(S)
  OBVIOUS
<1>3. PICK x \in Seq(S) : x = cells \o body
  BY <1>2
<1>4. /\ Len(x) = k + b /\ \A m \in 1 .. k : x[m] = cells[m]
  BY <1>1, <1>3
<1>5. \A m \in 1 .. b : x[k + m] = body[m]
  BY <1>1, <1>3
<1>6. x \o <<NL>> = Append(x, NL) /\ Append(x, NL) \in Seq(S)
  OBVIOUS
<1>7. PICK y \in Seq(S) : y = Append(x, NL)
  BY <1>6
<1>8. /\ Len(y) = k + b + 1 /\ y[k + b + 1] = NL /\ \A m \in 1 .. k + b : y[m] = x[m]
  BY <1>4, <1>7
<1>9. /\ \A m \in 1 .. k : y[m] = cells[m]
      /\ \A m \in 1 .. b : y[k + m] = body[m]
  <2>1. ASSUME NEW m \in 1 .. k PROVE y[m] = cells[m]
    <3>1. m \in 1 .. k + b
      OBVIOUS
    <3> QED
      BY <1>4, <1>8, <3>1
  <2>2. ASSUME NEW m \in 1 .. b PROVE y[k + m] = body[m]
    <3>1. k + m \in 1 .. k + b
      OBVIOUS
    <3> QED
      BY <1>5, <1>8, <3>1
  <2> QED
    BY <2>1, <2>2
<1>10. AddsLine(y, cells, body)
  BY <1>1, <1>8, <1>9 DEF AddsLine
<1> QED
  BY <1>3, <1>6, <1>7, <1>10, Zenon

\* The lines are those there were, and the one that is added.
LinesAre(new, cells, body) ==
    /\ \A n \in 1 .. Len(cells) : n \in LineStarts(new) <=> n \in LineStarts(cells)
    /\ Len(cells) + 1 \in LineStarts(new)
    /\ \A n \in Len(cells) + 2 .. Len(new) : n \notin LineStarts(new)
    /\ Line(new, Len(cells) + 1) = body
    /\ \A i \in LineStarts(cells) : Line(new, i) = Line(cells, i)
    /\ Ended(new)

\* A line that is added after complete lines leaves those as they were.
LEMMA LinesMore ==
    ASSUME NEW S, NEW cells \in Seq(S), NEW body \in Seq(S), NEW new \in Seq(S),
           Ended(cells), NoEnd(body), AddsLine(new, cells, body)
    PROVE  LinesAre(new, cells, body)
<1>1. PICK k \in Nat, b \in Nat : k = Len(cells) /\ b = Len(body)
  OBVIOUS
<1>2. /\ Len(new) = k + b + 1 /\ \A m \in 1 .. k : new[m] = cells[m]
      /\ \A m \in 1 .. b : new[k + m] = body[m]
      /\ new[k + b + 1] = NL
  BY <1>1 DEF AddsLine
<1>3. /\ k > 0 => cells[k] = NL
      /\ \A m \in 1 .. b : body[m] # NL
  BY <1>1 DEF Ended, NoEnd
<1>4. DOMAIN cells = 1 .. k /\ DOMAIN new = 1 .. k + b + 1
  BY <1>1, <1>2
<1>5. ASSUME NEW n \in 1 .. k PROVE n \in LineStarts(new) <=> n \in LineStarts(cells)
  <2>1. n \in 1 .. k + b + 1
    OBVIOUS
  <2>2. CASE n = 1
    BY <1>4, <2>1, <2>2 DEF LineStarts
  <2>3. CASE n # 1
    <3>1. n - 1 \in 1 .. k
      BY <2>3
    <3>2. new[n - 1] = cells[n - 1]
      BY <1>2, <3>1
    <3> QED
      BY <1>4, <2>1, <2>3, <3>2 DEF LineStarts
  <2> QED
    BY <2>2, <2>3
<1>6. k + 1 \in LineStarts(new)
  <2>1. k + 1 \in 1 .. k + b + 1
    OBVIOUS
  <2>2. CASE k = 0
    BY <1>4, <2>1, <2>2 DEF LineStarts
  <2>3. CASE k # 0
    <3>1. k \in 1 .. k /\ k > 0 /\ k + 1 - 1 = k
      BY <2>3
    <3>2. new[k + 1 - 1] = NL
      BY <1>2, <1>3, <3>1
    <3> QED
      BY <1>4, <2>1, <3>2 DEF LineStarts
  <2> QED
    BY <2>2, <2>3
<1>7. ASSUME NEW n \in k + 2 .. k + b + 1 PROVE n \notin LineStarts(new)
  <2>1. PICK m \in 1 .. b : n - 1 = k + m
    <3>1. n - 1 - k \in 1 .. b /\ n - 1 = k + (n - 1 - k)
      OBVIOUS
    <3> QED
      BY <3>1
  <2>2. new[k + m] # NL
    BY <1>2, <1>3
  <2>3. n # 1
    OBVIOUS
  <2> QED
    BY <2>1, <2>2, <2>3 DEF LineStarts
<1>8. Line(new, k + 1) = body
  <2>1. k + 1 \in DOMAIN new /\ k + b + 1 \in k + 1 .. Len(new) + 1
    BY <1>2, <1>4
  <2>2. ASSUME NEW m \in k + 1 .. k + b + 1 - 1 PROVE new[m] # NL
    <3>1. PICK j \in 1 .. b : m = k + j
      <4>1. m - k \in 1 .. b /\ m = k + (m - k)
        OBVIOUS
      <4> QED
        BY <4>1
    <3> QED
      BY <1>2, <1>3, <3>1
  <2>3. Find(new, NL, k + 1) = k + b + 1
    <3>1. PICK i \in DOMAIN new, j \in k + 1 .. Len(new) + 1 : i = k + 1 /\ j = k + b + 1
      BY <2>1
    <3>2. new[j] = NL /\ \A m \in i .. j - 1 : new[m] # NL
      BY <1>2, <2>2, <3>1
    <3>3. Find(new, NL, i) = j
      BY <3>1, <3>2, FindIs
    <3> QED
      BY <3>1, <3>3
  <2>4. SubSeq(new, k + 1, k + b) = body
    <3>1. k + b <= Len(new) /\ \A m \in 1 .. b : new[k + m] = body[m]
      BY <1>2
    <3>3. k + Len(body) <= Len(new) /\ \A m \in 1 .. Len(body) : new[k + m] = body[m]
      BY <1>1, <3>1
    <3>2. SubSeq(new, k + 1, k + Len(body)) = body
      BY <3>3, SubSeqIs
    <3> QED
      BY <1>1, <3>2
  <2>5. k + b + 1 - 1 = k + b
    OBVIOUS
  <2>6. Line(new, k + 1) = SubSeq(new, k + 1, k + b + 1 - 1)
    <3>1. PICK i, j : i = k + 1 /\ j = k + b + 1
      OBVIOUS
    <3>2. Find(new, NL, i) = j
      BY <2>3, <3>1
    <3>3. Line(new, i) = SubSeq(new, i, j - 1)
      BY <3>2, Zenon DEF Line
    <3> QED
      BY <3>1, <3>3
  <2> QED
    BY <2>4, <2>5, <2>6, Zenon
<1>9. ASSUME NEW i \in LineStarts(cells) PROVE Line(new, i) = Line(cells, i)
  <2>1. i \in 1 .. k /\ i \in DOMAIN cells /\ i \in DOMAIN new
    BY <1>4 DEF LineStarts
  <2>2. PICK j : j = Find(cells, NL, i)
    OBVIOUS
  <2>3. /\ j \in i .. k + 1 /\ (j <= k => cells[j] = NL)
        /\ \A m \in i .. k : cells[m] = NL => j <= m
    BY <1>1, <2>1, <2>2, FindFirst
  <2>4. j \in i .. k
    <3>1. k \in i .. k /\ cells[k] = NL
      BY <1>3, <2>1
    <3> QED
      BY <2>1, <2>3, <3>1
  <2>5. Find(new, NL, i) = j
    <3>1. j \in i .. Len(new) + 1 /\ j \in 1 .. k
      BY <1>2, <2>1, <2>4
    <3>2. new[j] = NL
      BY <1>2, <2>3, <2>4, <3>1
    <3>3. ASSUME NEW m \in i .. j - 1 PROVE new[m] # NL
      <4>1. m \in i .. k /\ m \in 1 .. k /\ ~ (j <= m)
        BY <2>1, <2>4
      <4> QED
        BY <1>2, <2>3, <4>1
    <3> QED
      BY <2>1, <3>1, <3>2, <3>3, FindIs
  <2>6. SubSeq(new, i, j - 1) = SubSeq(cells, i, j - 1)
    <3>1. PICK h \in Nat : i = h + 1
      <4>1. i - 1 \in Nat /\ i = i - 1 + 1
        BY <2>1
      <4> QED
        BY <4>1
    <3>2. PICK v : v = SubSeq(cells, i, j - 1)
      OBVIOUS
    <3>3. v \in Seq(S) /\ Len(v) = j - i
      BY <1>1, <2>1, <2>4, <3>2
    <3>4. ASSUME NEW m \in 1 .. j - i PROVE new[h + m] = v[m]
      <4>1. v[m] = cells[i + m - 1]
        BY <1>1, <2>1, <2>4, <3>2
      <4>2. i + m - 1 = h + m /\ h + m \in 1 .. k
        BY <2>1, <2>4, <3>1
      <4> QED
        BY <1>2, <4>1, <4>2
    <3>5. h + Len(v) <= Len(new) /\ h + Len(v) = j - 1
      BY <1>2, <2>1, <2>4, <3>1, <3>3
    <3>6. SubSeq(new, h + 1, h + Len(v)) = v
      BY <3>3, <3>4, <3>5, SubSeqIs
    <3> QED
      BY <3>1, <3>2, <3>5, <3>6
  <2> QED
    BY <2>2, <2>5, <2>6 DEF Line
<1>10. Ended(new)
  BY <1>2 DEF Ended
<1> QED
  BY <1>1, <1>2, <1>5, <1>6, <1>7, <1>8, <1>9, <1>10 DEF LinesAre

-----------------------------------------------------------------------------
\* Reading the rows

Starts(cells) == ElementsAt([i \in DOMAIN cells |-> i], LineStarts(cells))

\* The lines start in the file.
LEMMA StartsIn ==
    ASSUME NEW S, NEW cells \in Seq(S)
    PROVE  /\ Starts(cells) \in Seq(LineStarts(cells))
           /\ ElementsIn([i \in DOMAIN cells |-> i], LineStarts(cells), Len(cells), LineStarts(cells))
<1>1. PICK k \in Nat : k = Len(cells) /\ DOMAIN cells = 1 .. k
  OBVIOUS
<1>2. PICK s : s = [i \in 1 .. k |-> i]
  OBVIOUS
<1>3. s \in Seq(Nat) /\ Len(s) = k /\ \A n \in 1 .. k : s[n] = n
  BY <1>2, IsSeq
<1>4. ElementsIn(s, LineStarts(cells), k, LineStarts(cells))
  BY <1>3 DEF ElementsIn
<1>5. ElementsAt(s, LineStarts(cells)) \in Seq(LineStarts(cells))
  BY <1>4, ElementsTyped
<1> QED
  BY <1>1, <1>2, <1>4, <1>5 DEF Starts

\* One line more starts after those there were.
LEMMA StartsMore ==
    ASSUME NEW S, NEW cells \in Seq(S), NEW body \in Seq(S), NEW new \in Seq(S),
           AddsLine(new, cells, body), LinesAre(new, cells, body)
    PROVE  Starts(new) = Append(Starts(cells), Len(cells) + 1)
<1>1. PICK k \in Nat, b \in Nat : k = Len(cells) /\ b = Len(body) /\ DOMAIN cells = 1 .. k
  OBVIOUS
<1>2. PICK l \in Nat : l = k + b + 1
  OBVIOUS
<1>3. DOMAIN new = 1 .. l /\ Len(new) = l
  BY <1>1, <1>2 DEF AddsLine
<1>4. PICK s : s = [i \in 1 .. k |-> i]
  OBVIOUS
<1>5. PICK r : r = [i \in 1 .. l |-> i]
  OBVIOUS
<1>6. Len(s) = k /\ \A n \in 1 .. k : s[n] = n
  BY <1>4, IsSeq
<1>7. Len(r) = l /\ \A n \in 1 .. l : r[n] = n
  BY <1>5, IsSeq
<1>8. PICK I, J : I = LineStarts(cells) /\ J = LineStarts(new)
  OBVIOUS
<1>9. /\ \A n \in 1 .. k : n \in J <=> n \in I
      /\ k + 1 \in J
      /\ \A n \in k + 2 .. l : n \notin J
  BY <1>1, <1>3, <1>8 DEF LinesAre
<1>10. k < l /\ k + 1 \in 1 .. l /\ \A n \in 1 .. k : n \in 1 .. l
  BY <1>2
<1>11. ElementsIn(s, I, k, Nat)
  BY <1>6 DEF ElementsIn
<1>12. r[k + 1] = k + 1 /\ r[k + 1] \in Nat
  BY <1>7, <1>10
<1>13. \A n \in 1 .. k : (n \in J <=> n \in I) /\ r[n] = s[n]
  BY <1>6, <1>7, <1>9, <1>10
<1>o. OneMoreIn(s, I, k, r, J, l, Nat)
  BY <1>7, <1>9, <1>10, <1>11, <1>12, <1>13 DEF OneMoreIn
<1>14. ElementsAt(r, J) = Append(ElementsAt(s, I), r[k + 1])
  BY <1>o, ElementsMore
<1> QED
  BY <1>1, <1>3, <1>4, <1>5, <1>8, <1>12, <1>14, Zenon DEF Starts

\* The rows are those there were, and the one that is added.
LEMMA RowsMore ==
    ASSUME NEW S, NEW cells \in Seq(S), NEW body \in Seq(S), NEW new \in Seq(S), NEW f,
           AddsLine(new, cells, body), LinesAre(new, cells, body)
    PROVE  RowsIn(f, new) = Append(RowsIn(f, cells), RowOf(f, body))
<1>1. PICK st : st = Starts(cells)
  OBVIOUS
<1>2. PICK k \in Nat, h \in Nat : k = Len(cells) /\ h = Len(st)
  BY <1>1, StartsIn
<1>3. PICK nt : nt = Starts(new)
  OBVIOUS
<1>4. nt = Append(st, k + 1) /\ st \in Seq(LineStarts(cells))
  BY <1>1, <1>2, <1>3, StartsIn, StartsMore
<1>5. DOMAIN st = 1 .. h /\ \A n \in 1 .. h : st[n] \in LineStarts(cells)
  BY <1>2, <1>4
<1>6. DOMAIN nt = 1 .. h + 1 /\ nt[h + 1] = k + 1 /\ \A n \in 1 .. h : nt[n] = st[n]
  BY <1>2, <1>4
<1>7. RowsIn(f, cells) = [n \in 1 .. h |-> RowOf(f, Line(cells, st[n]))]
  BY <1>1, <1>5, Zenon DEF RowsIn, Starts
<1>8. RowsIn(f, new) = [n \in 1 .. h + 1 |-> RowOf(f, Line(new, nt[n]))]
  BY <1>3, <1>6, Zenon DEF RowsIn, Starts
<1>9. /\ Line(new, k + 1) = body
      /\ \A i \in LineStarts(cells) : Line(new, i) = Line(cells, i)
  BY <1>2 DEF LinesAre
<1> DEFINE T == {RowOf(f, Line(cells, st[n])) : n \in 1 .. h} \cup {RowOf(f, body)}
<1>10. PICK p : p = RowsIn(f, cells)
  OBVIOUS
<1>11. PICK q : q = RowsIn(f, new)
  OBVIOUS
<1>12. p \in [1 .. h -> T] /\ \A n \in 1 .. h : p[n] = RowOf(f, Line(cells, st[n]))
  BY <1>7, <1>10
<1>13. \A n \in 1 .. h : q[n] = p[n]
  <2> SUFFICES ASSUME NEW n \in 1 .. h PROVE q[n] = p[n]
    OBVIOUS
  <2>1. n \in 1 .. h + 1
    OBVIOUS
  <2>2. q[n] = RowOf(f, Line(new, nt[n]))
    BY <1>8, <1>11, <2>1
  <2>3. Line(new, nt[n]) = Line(cells, st[n])
    BY <1>5, <1>6, <1>9
  <2> QED
    BY <1>12, <2>2, <2>3
<1>14. q[h + 1] = RowOf(f, body)
  <2>1. h + 1 \in 1 .. h + 1
    OBVIOUS
  <2> QED
    BY <1>6, <1>8, <1>9, <1>11, <2>1
<1>15. q = [n \in 1 .. h + 1 |-> q[n]]
  BY <1>8, <1>11
<1>16. RowOf(f, body) \in T
  OBVIOUS
<1> HIDE DEF T
<1>17. p \in Seq(T) /\ Len(p) = h
  BY <1>12, IsSeq
<1>18. PICK z \in T : z = RowOf(f, body)
  BY <1>16
<1>19. q \in Seq(T) /\ Len(q) = h + 1
  <2>1. ASSUME NEW n \in 1 .. h + 1 PROVE q[n] \in T
    <3>1. CASE n = h + 1
      BY <1>14, <1>16, <3>1
    <3>2. CASE n # h + 1
      <4>1. n \in 1 .. h
        BY <3>2
      <4> QED
        BY <1>12, <1>13, <4>1
    <3> QED
      BY <3>1, <3>2
  <2>2. q \in [1 .. h + 1 -> T]
    BY <1>15, <2>1
  <2> QED
    BY <2>2, IsSeq
<1>20. q = Append(p, z)
  <2>1. Append(p, z) \in Seq(T) /\ Len(Append(p, z)) = h + 1
    BY <1>17
  <2>2. Append(p, z)[h + 1] = z /\ \A n \in 1 .. h : Append(p, z)[n] = p[n]
    BY <1>17
  <2>3. PICK a : a = Append(p, z)
    OBVIOUS
  <2>4. \A n \in 1 .. h + 1 : q[n] = a[n]
    <3> SUFFICES ASSUME NEW n \in 1 .. h + 1 PROVE q[n] = a[n]
      OBVIOUS
    <3>1. n \in 1 .. h \/ n = h + 1
      OBVIOUS
    <3> QED
      BY <1>13, <1>14, <1>18, <2>2, <2>3, <3>1
  <2>5. a \in Seq(T) /\ Len(a) = h + 1
    BY <2>1, <2>3
  <2>6. q = a
    BY <1>19, <2>4, <2>5
  <2> QED
    BY <2>3, <2>6
<1> QED
  BY <1>10, <1>11, <1>18, <1>20

\* A file can be read if it could before a line was added, and that converts.
LEMMA CanReadMore ==
    ASSUME NEW S, NEW cells \in Seq(S), NEW body \in Seq(S), NEW new \in Seq(S), NEW f,
           AddsLine(new, cells, body), LinesAre(new, cells, body)
    PROVE  CanRead(f, new) <=> CanRead(f, cells) /\ Converts(f, body)
<1>a. ASSUME CanRead(f, new) PROVE CanRead(f, cells) /\ Converts(f, body)
  <2>1. Converts(f, body)
    <3>1. Len(cells) + 1 \in LineStarts(new) /\ Line(new, Len(cells) + 1) = body
      BY DEF LinesAre
    <3> QED
      BY <1>a, <3>1 DEF CanRead
  <2>2. ASSUME NEW i \in LineStarts(cells) PROVE Converts(f, Line(cells, i))
    <3>1. i \in 1 .. Len(cells)
      BY DEF LineStarts
    <3>2. i \in LineStarts(new) /\ Line(new, i) = Line(cells, i)
      BY <2>2, <3>1 DEF LinesAre
    <3> QED
      BY <1>a, <3>2 DEF CanRead
  <2> QED
    BY <2>1, <2>2 DEF CanRead
<1> SUFFICES ASSUME CanRead(f, cells), Converts(f, body), NEW i \in LineStarts(new)
             PROVE  Converts(f, Line(new, i))
  BY <1>a DEF CanRead
<1>1. PICK k \in Nat, b \in Nat : k = Len(cells) /\ b = Len(body)
  OBVIOUS
<1>2. i \in 1 .. k + b + 1 /\ Len(new) = k + b + 1
  BY <1>1 DEF LineStarts, AddsLine
<1>3. i \in 1 .. k \/ i = k + 1 \/ i \in k + 2 .. k + b + 1
  BY <1>2
<1>4. CASE i \in 1 .. k
  BY <1>1, <1>4 DEF LinesAre, CanRead
<1>5. CASE i = k + 1
  BY <1>1, <1>5 DEF LinesAre
<1>6. i \notin k + 2 .. k + b + 1
  BY <1>1, <1>2 DEF LinesAre
<1> QED
  BY <1>3, <1>4, <1>5, <1>6

-----------------------------------------------------------------------------
\* The text of rows, and the rows of that text

\* All names are cells, and so are times, at any later time.
LEMMA CellGrows ==
    ASSUME NEW f \in Kinds, NEW now \in Nat, NEW later \in Nat, now <= later
    PROVE  /\ Cell(f, now) \subseteq Cell(f, later)
           /\ {NL, Hole} \subseteq Cell(f, now)
BY DEF Cell, Kinds

\* What could be read as a row still can be at a later time.
LEMMA AnyRowGrows ==
    ASSUME NEW f \in Kinds, NEW now \in Nat, NEW later \in Nat, now <= later,
           NEW row \in AnyRow(f, now)
    PROVE  row \in AnyRow(f, later)
<1>1. PICK C, D : C = Cell(f, now) /\ D = Cell(f, later)
  OBVIOUS
<1>2. C \subseteq D /\ Seq(C) \subseteq Seq(D)
  <2>1. C \subseteq D
    BY <1>1, CellGrows
  <2> QED
    BY <2>1
<1>3. CASE f = "devices"
  BY <1>1, <1>2, <1>3 DEF AnyRow
<1>4. CASE f = "subs"
  <2>1. 0 .. now \subseteq 0 .. later
    OBVIOUS
  <2> QED
    BY <1>1, <1>2, <1>4, <2>1 DEF AnyRow
<1>5. CASE f = "episodes"
  BY <1>1, <1>2, <1>5 DEF AnyRow
<1> QED
  BY <1>3, <1>4, <1>5 DEF Kinds

\* A row is a row at a later time.
LEMMA RowGrows ==
    ASSUME NEW f \in Kinds, NEW now \in Nat, NEW later \in Nat, now <= later
    PROVE  Row(f, now) \subseteq Row(f, later)
<1> SUFFICES ASSUME NEW row \in Row(f, now) PROVE row \in Row(f, later)
  OBVIOUS
<1>1. CASE f = "devices"
  BY <1>1 DEF Row
<1>2. CASE f = "subs"
  <2>1. 0 .. now \subseteq 0 .. later
    OBVIOUS
  <2> QED
    BY <1>2, <2>1 DEF Row
<1>3. CASE f = "episodes"
  BY <1>3 DEF Row
<1> QED
  BY <1>1, <1>2, <1>3 DEF Kinds

\* The rows that updates make are among those that can be read.
LEMMA RowIsAny ==
    ASSUME NEW f \in Kinds, NEW now \in Nat, NEW row \in Row(f, now)
    PROVE  row \in AnyRow(f, now)
<1>1. CASE f = "devices"
  <2>1. PICK C : C = Cell(f, now)
    OBVIOUS
  <2>2. Device \subseteq C /\ {Mobile, Other} \subseteq C /\ Text \subseteq C
    BY <1>1, <2>1 DEF Cell
  <2>3. Seq(Text) \subseteq Seq(C)
    BY <2>2
  <2>4. row \in [id : C, type : C, caption : Seq(C)]
    BY <1>1, <2>2, <2>3 DEF Row
  <2> QED
    BY <1>1, <2>1, <2>4 DEF AnyRow
<1>2. CASE f = "subs"
  <2>1. PICK C : C = Cell(f, now)
    OBVIOUS
  <2>2. Device \subseteq C /\ Url \subseteq C
    BY <1>2, <2>1 DEF Cell
  <2>3. Seq(Url) \subseteq Seq(C)
    BY <2>2
  <2>4. row \in [device : C, created : 0 .. now, url : Seq(C)]
    BY <1>2, <2>2, <2>3 DEF Row
  <2> QED
    BY <1>2, <2>1, <2>4 DEF AnyRow
<1>3. CASE f = "episodes"
  BY <1>3 DEF Row, AnyRow, Cell
<1> QED
  BY <1>1, <1>2, <1>3 DEF Kinds

\* Two cells before others.
LEMMA TwoBefore ==
    ASSUME NEW A, NEW x \in A, NEW y \in A, NEW c \in Seq(A), NEW s, s = <<x, y>> \o c
    PROVE  /\ s \in Seq(A) /\ Len(s) = 2 + Len(c)
           /\ s[1] = x /\ s[2] = y /\ \A n \in 1 .. Len(c) : s[2 + n] = c[n]
OBVIOUS

\* What comes after the first two cells of a line.
LEMMA TailTail ==
    ASSUME NEW A, NEW s \in Seq(A), NEW c \in Seq(A), Len(s) = 2 + Len(c),
           \A n \in 1 .. Len(c) : s[2 + n] = c[n]
    PROVE  Tail(Tail(s)) = c
<1>1. PICK k \in Nat : k = Len(c)
  OBVIOUS
<1>2. PICK t \in Seq(A) : t = Tail(s) /\ Len(t) = k + 1 /\ \A n \in 1 .. k + 1 : t[n] = s[n + 1]
  <2>1. s # <<>>
    BY <1>1
  <2>2. Tail(s) \in Seq(A) /\ Len(Tail(s)) = k + 1 /\ \A n \in 1 .. k + 1 : Tail(s)[n] = s[n + 1]
    BY <1>1, <2>1
  <2> QED
    BY <2>2
<1>3. PICK u \in Seq(A) : u = Tail(t) /\ Len(u) = k /\ \A n \in 1 .. k : u[n] = t[n + 1]
  <2>1. t # <<>>
    BY <1>1, <1>2
  <2>2. Tail(t) \in Seq(A) /\ Len(Tail(t)) = k /\ \A n \in 1 .. k : Tail(t)[n] = t[n + 1]
    BY <1>1, <1>2, <2>1
  <2> QED
    BY <2>2
<1>4. ASSUME NEW n \in 1 .. k PROVE u[n] = c[n]
  <2>1. n + 1 \in 1 .. k + 1 /\ n + 1 + 1 = 2 + n
    OBVIOUS
  <2>2. u[n] = t[n + 1]
    BY <1>3
  <2>3. t[n + 1] = s[n + 1 + 1]
    BY <1>2, <2>1
  <2> QED
    BY <1>1, <2>1, <2>2, <2>3
<1>5. u = c
  BY <1>1, <1>3, <1>4
<1> QED
  BY <1>2, <1>3, <1>5

\* A row converts to cells that convert back to it; but not to a type that is not
\* Mobile. There is no end of a line in them.
Converted(f, row) ==
    /\ NoEnd(Body(f, row))
    /\ RowOf(f, Body(f, row)) = row
    /\ Converts(f, Body(f, row)) <=> (f = "devices" => row.type = Mobile)

\* A row converts back from the cells it was converted to.
LEMMA BackAgain ==
    ASSUME NEW f \in Kinds, NEW now \in Nat, NEW row \in Row(f, now)
    PROVE  Converted(f, row)
<1>1. CASE f = "devices"
  <2>1. row = [id |-> row.id, type |-> row.type, caption |-> row.caption]
    BY <1>1 DEF Row
  <2>2. PICK A : A = Device \cup Text \cup {Mobile, Other}
    OBVIOUS
  <2>3. row.id \in A /\ row.type \in A /\ row.caption \in Seq(A)
    <3>1. row.id \in A /\ row.type \in A
      BY <1>1, <2>2 DEF Row
    <3>2. Text \subseteq A /\ row.caption \in Seq(Text)
      BY <1>1, <2>2 DEF Row
    <3>3. row.caption \in Seq(A)
      BY <3>2, SeqLarger
    <3> QED
      BY <3>1, <3>3
  <2>4. NL \notin A
    BY <2>2, DataAssumption
  <2>5. PICK x \in A, y \in A, c \in Seq(A) : x = row.id /\ y = row.type /\ c = row.caption
    BY <2>3
  <2>6. PICK s : s = <<x, y>> \o c
    OBVIOUS
  <2>7. /\ s \in Seq(A) /\ Len(s) = 2 + Len(c)
        /\ s[1] = x /\ s[2] = y /\ \A n \in 1 .. Len(c) : s[2 + n] = c[n]
    BY <2>6, TwoBefore
  <2>8. Tail(Tail(s)) = c
    BY <2>7, TailTail
  <2>9. Body(f, row) = s
    BY <1>1, <2>5, <2>6, Zenon DEF Body
  <2>10. NoEnd(s)
    <3> SUFFICES ASSUME NEW m \in 1 .. Len(s) PROVE s[m] # NL
      BY DEF NoEnd
    <3>1. s[m] \in A
      BY <2>7
    <3> QED
      BY <2>4, <3>1
  <2>11. RowOf(f, s) = row
    BY <1>1, <2>1, <2>5, <2>7, <2>8, Zenon DEF RowOf
  <2>12. Converts(f, s) <=> y = Mobile
    <3>1. Len(s) >= 2
      BY <2>7
    <3> QED
      BY <1>1, <2>7, <3>1 DEF Converts
  <2> QED
    BY <1>1, <2>5, <2>9, <2>10, <2>11, <2>12, Zenon DEF Converted
<1>2. CASE f = "subs"
  <2>1. row = [device |-> row.device, created |-> row.created, url |-> row.url]
    BY <1>2 DEF Row
  <2>2. PICK A : A = Device \cup Url \cup (0 .. now)
    OBVIOUS
  <2>3. row.device \in A /\ row.created \in A /\ row.url \in Seq(A) /\ row.created \in Nat
    <3>1. row.device \in A /\ row.created \in A /\ row.created \in Nat
      BY <1>2, <2>2 DEF Row
    <3>2. Url \subseteq A /\ row.url \in Seq(Url)
      BY <1>2, <2>2 DEF Row
    <3>3. row.url \in Seq(A)
      BY <3>2, SeqLarger
    <3> QED
      BY <3>1, <3>3
  <2>4. NL \notin A
    BY <2>2, DataAssumption
  <2>5. PICK x \in A, y \in A, c \in Seq(A) : x = row.device /\ y = row.created /\ c = row.url
    BY <2>3
  <2>6. PICK s : s = <<x, y>> \o c
    OBVIOUS
  <2>7. /\ s \in Seq(A) /\ Len(s) = 2 + Len(c)
        /\ s[1] = x /\ s[2] = y /\ \A n \in 1 .. Len(c) : s[2 + n] = c[n]
    BY <2>6, TwoBefore
  <2>8. Tail(Tail(s)) = c
    BY <2>7, TailTail
  <2>9. Body(f, row) = s
    BY <1>2, <2>5, <2>6, Zenon DEF Body
  <2>10. NoEnd(s)
    <3> SUFFICES ASSUME NEW m \in 1 .. Len(s) PROVE s[m] # NL
      BY DEF NoEnd
    <3>1. s[m] \in A
      BY <2>7
    <3> QED
      BY <2>4, <3>1
  <2>11. RowOf(f, s) = row
    BY <1>2, <2>1, <2>5, <2>7, <2>8, Zenon DEF RowOf
  <2>12. Converts(f, s)
    <3>1. Len(s) >= 2 /\ y \in Nat
      BY <2>3, <2>5, <2>7
    <3> QED
      BY <1>2, <2>7, <3>1 DEF Converts
  <2>13. Converts(f, s) <=> (f = "devices" => row.type = Mobile)
    BY <1>2, <2>12
  <2> QED
    BY <2>9, <2>10, <2>11, <2>13, Zenon DEF Converted
<1>3. CASE f = "episodes"
  <2>1. row \in EpisodeRow /\ row # NL /\ row # Hole
    BY <1>3, DataAssumption DEF Row
  <2>2. Body(f, row) = <<row>>
    BY <1>3 DEF Body
  <2>3. NoEnd(<<row>>)
    BY <2>1 DEF NoEnd
  <2>4. RowOf(f, <<row>>) = row /\ Converts(f, <<row>>)
    BY <1>3, <2>1 DEF RowOf, Converts
  <2>5. Converts(f, <<row>>) <=> (f = "devices" => row.type = Mobile)
    BY <1>3, <2>4
  <2> QED
    BY <2>2, <2>3, <2>4, <2>5, Zenon DEF Converted
<1> QED
  BY <1>1, <1>2, <1>3 DEF Kinds

\* A function of each element, and of one element more.
Mapped(g, rs) == [n \in DOMAIN rs |-> g[rs[n]]]

MapsMore(g, rs, row, B) ==
    /\ Mapped(g, rs) \in Seq(B)
    /\ Mapped(g, Append(rs, row)) = Append(Mapped(g, rs), g[row])

\* What a function makes of a sequence that has one row more.
LEMMA MapMore ==
    ASSUME NEW R, NEW B, NEW g \in [R -> B], NEW rs \in Seq(R), NEW row \in R
    PROVE  MapsMore(g, rs, row, B)
<1>a. PICK m, q : m = [n \in DOMAIN rs |-> g[rs[n]]] /\ q = Append(rs, row)
  OBVIOUS
<1> USE <1>a
<1>1. PICK k \in Nat : k = Len(rs) /\ DOMAIN rs = 1 .. k
  OBVIOUS
<1>2. \A n \in 1 .. k : rs[n] \in R
  BY <1>1
<1>3. m \in Seq(B) /\ Len(m) = k
  <2>1. m \in [1 .. k -> B]
    BY <1>1, <1>2
  <2> QED
    BY <2>1, IsSeq
<1>4. q \in Seq(R) /\ DOMAIN q = 1 .. k + 1 /\ q[k + 1] = row /\ \A n \in 1 .. k : q[n] = rs[n]
  BY <1>1
<1>5. PICK z : z = [n \in DOMAIN q |-> g[q[n]]]
  OBVIOUS
<1>6. z \in Seq(B) /\ Len(z) = k + 1
  <2>1. z \in [1 .. k + 1 -> B]
    <3>1. \A n \in 1 .. k + 1 : q[n] \in R
      BY <1>4
    <3> QED
      BY <1>4, <1>5, <3>1
  <2> QED
    BY <2>1, IsSeq
<1>7. z[k + 1] = g[row] /\ \A n \in 1 .. k : z[n] = m[n]
  <2>1. k + 1 \in 1 .. k + 1 /\ \A n \in 1 .. k : n \in 1 .. k + 1
    OBVIOUS
  <2>2. z[k + 1] = g[row]
    BY <1>4, <1>5, <2>1
  <2>3. ASSUME NEW n \in 1 .. k PROVE z[n] = m[n]
    BY <1>1, <1>4, <1>5, <2>1
  <2> QED
    BY <2>2, <2>3
<1>8. PICK e \in B : e = g[row]
  OBVIOUS
<1>9. z = Append(m, e)
  <2>1. PICK a \in Seq(B) : a = Append(m, e)
    <3>1. Append(m, e) \in Seq(B)
      BY <1>3
    <3> QED
      BY <3>1
  <2>2. Len(a) = k + 1 /\ a[k + 1] = e /\ \A n \in 1 .. k : a[n] = m[n]
    BY <1>3, <2>1
  <2>3. \A n \in 1 .. k + 1 : n \in 1 .. k \/ n = k + 1
    OBVIOUS
  <2>4. \A n \in 1 .. k + 1 : z[n] = a[n]
    BY <1>7, <1>8, <2>2, <2>3
  <2>5. z = a
    BY <1>6, <2>2, <2>4
  <2> QED
    BY <2>1, <2>5
<1> QED
  BY <1>3, <1>5, <1>8, <1>9 DEF Mapped, MapsMore

\* The text of the rows, with the pieces of one row more.
OneLineMore(f, now, rs, row) ==
    /\ Lines(f, rs) \in Seq(Seq(Cell(f, now)))
    /\ Lines(f, Append(rs, row)) = Lines(f, rs) \o Pieces(f, row)

\* The pieces of one row more are those of the rows before, then those of the row.
LEMMA LinesOneMore ==
    ASSUME NEW f \in Kinds, NEW now \in Nat, NEW rs \in Seq(AnyRow(f, now)),
           NEW row \in AnyRow(f, now)
    PROVE  OneLineMore(f, now, rs, row)
<1>1. PICK R, A : R = AnyRow(f, now) /\ A = Seq(Cell(f, now))
  OBVIOUS
<1>2. rs \in Seq(R) /\ row \in R
  BY <1>1
<1>3. \A r \in R : Pieces(f, r) \in Seq(A)
  <2> SUFFICES ASSUME NEW r \in R PROVE Pieces(f, r) \in Seq(A)
    OBVIOUS
  <2>1. PICK ss \in Seq(Seq(Cell(f, now))) : TRUE
    <3>1. <<>> \in Seq(Seq(Cell(f, now)))
      OBVIOUS
    <3> QED
      BY <3>1
  <2>2. PiecesAre(f, now, r, ss)
    BY <1>1, RowPieces
  <2> QED
    BY <1>1, <2>2 DEF PiecesAre
<1>4. PICK g \in [R -> Seq(A)] : \A r \in R : g[r] = Pieces(f, r)
  <2> DEFINE g == [r \in R |-> Pieces(f, r)]
  <2>1. g \in [R -> Seq(A)] /\ \A r \in R : g[r] = Pieces(f, r)
    BY <1>3
  <2> HIDE DEF g
  <2> QED
    BY <2>1
<1>5. PICK m : m = [n \in DOMAIN rs |-> g[rs[n]]]
  OBVIOUS
<1>6. PICK q : q = Append(rs, row)
  OBVIOUS
<1>7. m \in Seq(Seq(A)) /\ [n \in DOMAIN q |-> g[q[n]]] = Append(m, g[row])
  <2> DEFINE B == Seq(A)
  <2>1. g \in [R -> B]
    OBVIOUS
  <2> HIDE DEF B
  <2>2. MapsMore(g, rs, row, B)
    BY <1>2, <2>1, MapMore
  <2>3. m \in Seq(B) /\ [n \in DOMAIN q |-> g[q[n]]] = Append(m, g[row])
    BY <1>5, <1>6, <2>2 DEF MapsMore, Mapped
  <2> QED
    BY <2>3 DEF B
<1>8. Lines(f, rs) = FlattenSeq(m)
  <2>1. \A n \in DOMAIN rs : rs[n] \in R
    BY <1>2
  <2>2. m = [n \in DOMAIN rs |-> Pieces(f, rs[n])]
    BY <1>4, <1>5, <2>1
  <2> QED
    BY <2>2 DEF Lines
<1>9. Lines(f, q) = FlattenSeq(Append(m, g[row]))
  <2>1. q \in Seq(R)
    BY <1>2, <1>6
  <2>2. \A n \in DOMAIN q : q[n] \in R
    BY <2>1
  <2>3. [n \in DOMAIN q |-> g[q[n]]] = [n \in DOMAIN q |-> Pieces(f, q[n])]
    BY <1>4, <2>2
  <2> QED
    BY <1>7, <2>3 DEF Lines
<1>10. PICK p \in Seq(A) : p = g[row]
  BY <1>2
<1>11. /\ FlattenSeq(m) \in Seq(A)
       /\ FlattenSeq(Append(m, p)) = FlattenSeq(m) \o p
  BY <1>7, FlatAppend
<1>12. g[row] = Pieces(f, row)
  BY <1>2, <1>4
<1> QED
  BY <1>1, <1>6, <1>8, <1>9, <1>10, <1>11, <1>12, Zenon DEF OneLineMore

\* No rows are no pieces.
LEMMA NoLines == \A f : Lines(f, <<>>) = <<>>
<1> TAKE f
<1>1. [n \in DOMAIN <<>> |-> Pieces(f, <<>>[n])] = <<>>
  OBVIOUS
<1> QED
  BY <1>1, FlatEmpty DEF Lines

\* The text of the rows is made of cells.
LEMMA TextTyped ==
    ASSUME NEW f \in Kinds, NEW now \in Nat, NEW rs \in Seq(AnyRow(f, now))
    PROVE  /\ Lines(f, rs) \in Seq(Seq(Cell(f, now)))
           /\ FlattenSeq(Lines(f, rs)) \in Seq(Cell(f, now))
<1>1. Lines(f, rs) \in Seq(Seq(Cell(f, now)))
  <2>1. CASE AnyRow(f, now) = {}
    <3>1. rs = <<>>
      BY <2>1
    <3>2. <<>> \in Seq(Seq(Cell(f, now)))
      OBVIOUS
    <3> QED
      BY <3>1, <3>2, NoLines
  <2>2. ASSUME NEW row \in AnyRow(f, now) PROVE Lines(f, rs) \in Seq(Seq(Cell(f, now)))
    <3>1. OneLineMore(f, now, rs, row)
      BY LinesOneMore
    <3> QED
      BY <3>1 DEF OneLineMore
  <2> QED
    BY <2>1, <2>2
<1>2. FlattenSeq(Lines(f, rs)) \in Seq(Cell(f, now))
  <2>1. PICK p \in Seq(Cell(f, now)) : TRUE
    <3>1. <<>> \in Seq(Cell(f, now))
      OBVIOUS
    <3> QED
      BY <3>1
  <2> QED
    BY <1>1, FlatAppend
<1> QED
  BY <1>1, <1>2

\* The rows are read back as they were written. A row with a type that is not Mobile is
\* written, and cannot be read.
RoundTrip(f, rs, cells) ==
    /\ Ended(cells)
    /\ RowsIn(f, cells) = rs
    /\ CanRead(f, cells) <=> HasText(f, rs)

TextOf(f, rs) == FlattenSeq(Lines(f, rs))

\* The empty file is read as no rows.
LEMMA RoundStart ==
    ASSUME NEW f
    PROVE  RoundTrip(f, <<>>, TextOf(f, <<>>))
<1>1. TextOf(f, <<>>) = <<>>
  BY NoLines, FlatEmpty DEF TextOf
<1>2. Ended(<<>>)
  BY DEF Ended
<1>3. LineStarts(<<>>) = {}
  BY DEF LineStarts
<1>4. CanRead(f, <<>>) /\ HasText(f, <<>>)
  BY <1>3 DEF CanRead, HasText
<1>5. RowsIn(f, <<>>) = <<>>
  <2>1. PICK cells \in Seq({}) : cells = <<>>
    <3>1. <<>> \in Seq({})
      OBVIOUS
    <3> QED
      BY <3>1
  <2>2. Starts(cells) \in Seq({})
    BY <1>3, <2>1, StartsIn
  <2>3. Starts(<<>>) = <<>>
    BY <2>1, <2>2
  <2>4. RowsIn(f, <<>>) = [n \in DOMAIN <<>> |-> RowOf(f, Line(<<>>, <<>>[n]))]
    BY <2>3, Zenon DEF RowsIn, Starts
  <2>5. DOMAIN <<>> = {}
    OBVIOUS
  <2>6. [n \in {} |-> RowOf(f, Line(<<>>, <<>>[n]))] = <<>>
    OBVIOUS
  <2> QED
    BY <2>4, <2>5, <2>6, Zenon
<1> QED
  BY <1>1, <1>2, <1>4, <1>5, Zenon DEF RoundTrip

\* If rows are read back from their text, they are with one row more.
LEMMA RoundStep ==
    ASSUME NEW f \in Kinds, NEW now \in Nat, NEW rs \in Seq(Row(f, now)),
           NEW row \in Row(f, now), RoundTrip(f, rs, TextOf(f, rs))
    PROVE  RoundTrip(f, Append(rs, row), TextOf(f, Append(rs, row)))
<1>0. PICK C : C = Cell(f, now)
  OBVIOUS
<1>1. NL \in C
  BY <1>0, CellGrows
<1>2. row \in AnyRow(f, now) /\ rs \in Seq(AnyRow(f, now))
  <2>1. Row(f, now) \subseteq AnyRow(f, now)
    BY RowIsAny
  <2> QED
    BY <2>1, SeqLarger
<1>3. PICK ss \in Seq(Seq(C)) : ss = Lines(f, rs)
  BY <1>0, <1>2, TextTyped
<1>4. PICK cells \in Seq(C) : cells = TextOf(f, rs)
  BY <1>0, <1>2, TextTyped DEF TextOf
<1>p. PiecesAre(f, now, row, ss)
  BY <1>0, <1>2, RowPieces
<1>5. PICK body \in Seq(C) : body = Body(f, row)
  BY <1>0, <1>p DEF PiecesAre
<1>6. PICK q : q = Append(rs, row)
  OBVIOUS
<1>7. PICK new : new = TextOf(f, q)
  OBVIOUS
<1>8. new = (cells \o body) \o <<NL>>
  <2>1. OneLineMore(f, now, rs, row)
    BY <1>2, LinesOneMore
  <2>2. Lines(f, q) = ss \o Pieces(f, row)
    BY <1>3, <1>6, <2>1, Zenon DEF OneLineMore
  <2>3. FlattenSeq(ss \o Pieces(f, row)) = (FlattenSeq(ss) \o body) \o <<NL>>
    BY <1>5, <1>p, Zenon DEF PiecesAre
  <2> QED
    BY <1>3, <1>4, <1>7, <2>2, <2>3, Zenon DEF TextOf
<1>9. new \in Seq(C) /\ AddsLine(new, cells, body)
  BY <1>1, <1>8, LineAdded
<1>10. /\ Ended(cells) /\ RowsIn(f, cells) = rs
       /\ CanRead(f, cells) <=> HasText(f, rs)
  BY <1>4, Zenon DEF RoundTrip
<1>11. /\ NoEnd(body) /\ RowOf(f, body) = row
       /\ Converts(f, body) <=> (f = "devices" => row.type = Mobile)
  <2>1. Converted(f, row)
    BY BackAgain
  <2> QED
    BY <1>5, <2>1, Zenon DEF Converted
<1>12. LinesAre(new, cells, body)
  BY <1>9, <1>10, <1>11, LinesMore
<1>13. Ended(new)
  BY <1>12 DEF LinesAre
<1>14. RowsIn(f, new) = q
  <2>1. RowsIn(f, new) = Append(RowsIn(f, cells), RowOf(f, body))
    BY <1>9, <1>12, RowsMore
  <2> QED
    BY <1>6, <1>10, <1>11, <2>1, Zenon
<1>15. CanRead(f, new) <=> HasText(f, q)
  <2>1. HasText(f, q) <=> HasText(f, rs) /\ (f = "devices" => row.type = Mobile)
    <3>1. PICK k \in Nat : k = Len(rs)
      OBVIOUS
    <3>2. DOMAIN rs = 1 .. k /\ DOMAIN q = 1 .. k + 1 /\ q[k + 1] = row /\ \A n \in 1 .. k : q[n] = rs[n]
      BY <1>6, <3>1
    <3>3. 1 .. k + 1 = (1 .. k) \cup {k + 1}
      OBVIOUS
    <3> QED
      BY <3>2, <3>3 DEF HasText
  <2>2. CanRead(f, new) <=> CanRead(f, cells) /\ Converts(f, body)
    BY <1>9, <1>12, CanReadMore
  <2> QED
    BY <1>10, <1>11, <2>1, <2>2
<1> QED
  BY <1>6, <1>7, <1>13, <1>14, <1>15, Zenon DEF RoundTrip

\* The first elements of a sequence, and one more.
LEMMA FirstOnes ==
    ASSUME NEW T, NEW rs \in Seq(T), NEW n \in 0 .. Len(rs) - 1
    PROVE  /\ SubSeq(rs, 1, n) \in Seq(T) /\ n + 1 \in 1 .. Len(rs) /\ rs[n + 1] \in T
           /\ SubSeq(rs, 1, n + 1) = Append(SubSeq(rs, 1, n), rs[n + 1])
OBVIOUS

\* The first part of no length, and that of the whole length.
LEMMA WholePart ==
    ASSUME NEW T, NEW rs \in Seq(T)
    PROVE  SubSeq(rs, 1, 0) = <<>> /\ SubSeq(rs, 1, Len(rs)) = rs
OBVIOUS

\* Any rows, written to a file, are read back as they are.
LEMMA RoundTrips ==
    ASSUME NEW f \in Kinds, NEW now \in Nat, NEW rs \in Seq(Row(f, now))
    PROVE  RoundTrip(f, rs, TextOf(f, rs))
<1>1. PICK R : R = Row(f, now)
  OBVIOUS
<1>2. PICK k \in Nat : k = Len(rs)
  OBVIOUS
<1> DEFINE Good == {n \in 0 .. k : RoundTrip(f, SubSeq(rs, 1, n), TextOf(f, SubSeq(rs, 1, n)))}
<1>3. 0 \in Good
  <2>1. SubSeq(rs, 1, 0) = <<>>
    BY WholePart
  <2>2. 0 \in 0 .. k
    BY <1>2
  <2> QED
    BY <2>1, <2>2, RoundStart
<1>4. ASSUME NEW n \in 0 .. k - 1, n \in Good PROVE n + 1 \in Good
  <2>1. PICK p : p = SubSeq(rs, 1, n)
    OBVIOUS
  <2>2. p \in Seq(Row(f, now)) /\ rs[n + 1] \in Row(f, now) /\ SubSeq(rs, 1, n + 1) = Append(p, rs[n + 1])
    BY <1>2, <2>1, FirstOnes
  <2>3. RoundTrip(f, p, TextOf(f, p))
    BY <1>4, <2>1
  <2>4. PICK row \in Row(f, now) : row = rs[n + 1]
    BY <2>2
  <2>5. RoundTrip(f, Append(p, row), TextOf(f, Append(p, row)))
    BY <2>2, <2>3, RoundStep
  <2>6. n + 1 \in 0 .. k
    OBVIOUS
  <2> QED
    BY <2>2, <2>4, <2>5, <2>6
<1> HIDE DEF Good
<1>5. k \in Good
  <2>1. \A n \in 0 .. k : n \in Good
    BY <1>3, <1>4, Induction
  <2> QED
    BY <2>1
<1> QED
  BY <1>2, <1>5, WholePart DEF Good

-----------------------------------------------------------------------------
\* What is read, and what an update makes of it

\* A line of a file is made of its cells.
LEMMA LineTyped ==
    ASSUME NEW S, NEW cells \in Seq(S), NEW i \in LineStarts(cells)
    PROVE  Line(cells, i) \in Seq(S)
<1>1. i \in DOMAIN cells
  BY DEF LineStarts
<1>2. PICK j : j = Find(cells, NL, i)
  OBVIOUS
<1>3. j \in i .. Len(cells) + 1
  BY <1>1, <1>2, FindFirst
<1>4. SubSeq(cells, i, j - 1) \in Seq(S)
  BY <1>1, <1>3
<1> QED
  BY <1>2, <1>4 DEF Line

\* A line that converts, from whatever file, is a row of cells and times known so far.
LEMMA RowTyped ==
    ASSUME NEW f \in Kinds, NEW now \in Nat, NEW line \in Seq(Cell(f, now)), Converts(f, line)
    PROVE  RowOf(f, line) \in AnyRow(f, now)
<1>1. PICK C : C = Cell(f, now)
  OBVIOUS
<1>2. line \in Seq(C)
  BY <1>1
<1>3. ASSUME Len(line) >= 2
      PROVE  line[1] \in C /\ line[2] \in C /\ Tail(Tail(line)) \in Seq(C)
  <2>1. line[1] \in C /\ line[2] \in C
    BY <1>2, <1>3
  <2>2. line # <<>>
    BY <1>2, <1>3
  <2>3. PICK t \in Seq(C) : t = Tail(line) /\ Len(t) = Len(line) - 1
    BY <1>2, <2>2, TailOf
  <2>4. t # <<>>
    <3>1. PICK k \in Nat : k = Len(line)
      BY <1>2
    <3>2. Len(t) # 0
      BY <1>3, <2>3, <3>1
    <3> QED
      BY <3>2
  <2>5. Tail(t) \in Seq(C)
    BY <2>4, TailOf
  <2> QED
    BY <2>1, <2>3, <2>5
<1>4. CASE f = "devices"
  <2>1. Len(line) >= 2
    BY <1>4 DEF Converts
  <2> QED
    BY <1>1, <1>3, <1>4, <2>1 DEF RowOf, AnyRow
<1>5. CASE f = "subs"
  <2>1. Len(line) >= 2 /\ line[2] \in Nat
    BY <1>5 DEF Converts
  <2>2. line[2] \in 0 .. now
    BY <1>1, <1>3, <1>5, <2>1, DataAssumption DEF Cell
  <2> QED
    BY <1>1, <1>3, <1>5, <2>1, <2>2 DEF RowOf, AnyRow
<1>6. CASE f = "episodes"
  <2>1. Len(line) = 1
    BY <1>6 DEF Converts
  <2>2. line[1] \in C
    BY <1>2, <2>1
  <2> QED
    BY <1>1, <1>6, <2>2 DEF RowOf, AnyRow
<1> QED
  BY <1>4, <1>5, <1>6 DEF Kinds

\* What is read of a file can be written again.
LEMMA RowsTyped ==
    ASSUME NEW f \in Kinds, NEW now \in Nat, NEW cells \in Seq(Cell(f, now)), CanRead(f, cells)
    PROVE  RowsIn(f, cells) \in Seq(AnyRow(f, now))
<1>1. PICK st \in Seq(LineStarts(cells)) : st = Starts(cells)
  BY StartsIn
<1>2. PICK k \in Nat : k = Len(st) /\ DOMAIN st = 1 .. k
  OBVIOUS
<1>3. RowsIn(f, cells) = [n \in 1 .. k |-> RowOf(f, Line(cells, st[n]))]
  BY <1>1, <1>2, Zenon DEF RowsIn, Starts
<1>4. ASSUME NEW n \in 1 .. k PROVE RowOf(f, Line(cells, st[n])) \in AnyRow(f, now)
  <2>1. PICK i \in LineStarts(cells) : i = st[n]
    BY <1>2
  <2>2. PICK line \in Seq(Cell(f, now)) : line = Line(cells, i)
    BY LineTyped
  <2>3. Converts(f, line)
    BY <2>2 DEF CanRead
  <2>4. RowOf(f, line) \in AnyRow(f, now)
    BY <2>3, RowTyped
  <2> QED
    BY <2>1, <2>2, <2>4
<1>5. [n \in 1 .. k |-> RowOf(f, Line(cells, st[n]))] \in [1 .. k -> AnyRow(f, now)]
  BY <1>4
<1> QED
  BY <1>3, <1>5, IsSeq

\* The row that is updated is one of those there are.
LEMMA PlaceIn ==
    ASSUME NEW T, NEW rs \in Seq(T), NEW id, HasId(rs, id)
    PROVE  PlaceOf(rs, id) \in DOMAIN rs
<1> DEFINE P == {n \in DOMAIN rs : rs[n].id = id}
<1>1. P \in SUBSET Nat /\ P # {} /\ P \subseteq DOMAIN rs
  BY DEF HasId
<1>2. Min(P) \in P
  BY <1>1, NatMin
<1> QED
  BY <1>1, <1>2 DEF PlaceOf

\* The elements that are taken are of the kind of all of them.
LEMMA SomeTyped ==
    ASSUME NEW T, NEW rs \in Seq(T), NEW I
    PROVE  /\ ElementsAt(rs, I) \in Seq(T)
           /\ Range(ElementsAt(rs, I)) = {rs[n] : n \in I \cap DOMAIN rs}
<1>1. PICK k \in Nat : k = Len(rs) /\ DOMAIN rs = 1 .. k
  OBVIOUS
<1>2. ElementsIn(rs, I, k, T)
  BY <1>1 DEF ElementsIn
<1> QED
  BY <1>1, <1>2, ElementsTyped

\* The elements of a sequence are of its kind.
LEMMA ElementIn ==
    ASSUME NEW T, NEW rs \in Seq(T), NEW p \in DOMAIN rs
    PROVE  rs[p] \in T
OBVIOUS

\* update_device makes rows of rows.
LEMMA DevicesTyped ==
    ASSUME NEW A, NEW B, NEW D, Device \subseteq A, {Mobile, Other} \subseteq B, Text \subseteq D,
           NEW R, R = [id : A, type : B, caption : Seq(D)], NEW rs \in Seq(R),
           NEW x \in Change, x.file = "devices"
    PROVE  UpdatedDevices(rs, x) \in Seq(R)
<1>1. x.id \in A /\ x.type \in {Mobile, Other, NULL} /\ x.caption \in Text \cup {NULL}
  BY DEF Change
<1>2. \A old \in B : Told(x.type, old) \in B
  BY <1>1 DEF Told
<1>3. \A old \in Seq(D) : Caption(x.caption, old) \in Seq(D)
  <2> SUFFICES ASSUME NEW old \in Seq(D) PROVE Caption(x.caption, old) \in Seq(D)
    OBVIOUS
  <2>1. CASE x.caption = NULL
    BY <2>1 DEF Caption
  <2>2. CASE x.caption # NULL
    <3>1. x.caption \in D
      BY <1>1, <2>2
    <3>2. <<x.caption>> \in Seq(D)
      BY <3>1
    <3> QED
      BY <2>2, <3>2 DEF Caption
  <2> QED
    BY <2>1, <2>2
<1>4. CASE HasId(rs, x.id)
  <2>1. PICK p \in DOMAIN rs : p = PlaceOf(rs, x.id)
    BY <1>4, PlaceIn
  <2>2. PICK row \in R : row = rs[p]
    <3>1. rs[p] \in R
      BY ElementIn, Zenon
    <3> QED
      BY <3>1, Zenon
  <2>3. row.type \in B /\ row.caption \in Seq(D)
    OBVIOUS
  <2> DEFINE z == [id |-> x.id, type |-> Told(x.type, row.type),
                   caption |-> Caption(x.caption, row.caption)]
  <2>4. z \in R
    BY <1>1, <1>2, <1>3, <2>3
  <2>5. UpdatedDevices(rs, x) = [rs EXCEPT ![p] = z]
    BY <1>4, <2>1, <2>2 DEF UpdatedDevices
  <2> HIDE DEF z
  <2>6. [rs EXCEPT ![p] = z] \in Seq(R)
    BY <2>4
  <2> QED
    BY <2>5, <2>6
<1>5. CASE ~ HasId(rs, x.id)
  <2> DEFINE z == [id |-> x.id, type |-> Told(x.type, Other), caption |-> Caption(x.caption, <<>>)]
  <2>1. z \in R
    <3>1. <<>> \in Seq(D) /\ Other \in B
      OBVIOUS
    <3> QED
      BY <1>1, <1>2, <1>3, <3>1
  <2>2. UpdatedDevices(rs, x) = Append(rs, z)
    BY <1>5 DEF UpdatedDevices
  <2> HIDE DEF z
  <2> QED
    BY <2>1, <2>2
<1> QED
  BY <1>4, <1>5

\* The rows after an update of subscriptions: some that there were, and new ones.
SubsUpdated(rs, x, t, R) ==
    /\ UpdatedSubs(rs, x, t) \in Seq(R)
    /\ \A row \in Range(UpdatedSubs(rs, x, t)) : row \in Range(rs) \/ row.created = t

\* update_subscriptions makes rows of rows.
LEMMA SubsTyped ==
    ASSUME NEW A, NEW D, Device \subseteq A, Url \subseteq D, NEW now \in Nat, NEW t \in 0 .. now,
           NEW R, R = [device : A, created : 0 .. now, url : Seq(D)], NEW rs \in Seq(R),
           NEW x \in Change, x.file = "subs"
    PROVE  SubsUpdated(rs, x, t, R)
<1>1. x.device \in A /\ x.add \in Seq(Url)
  BY DEF Change
<1>2. PICK I : I = {n \in DOMAIN rs :
                        rs[n].device # x.device \/ rs[n].url \notin {<<u>> : u \in x.remove}}
  OBVIOUS
<1>3. PICK k \in Nat : k = Len(x.add) /\ DOMAIN x.add = 1 .. k
  BY <1>1
<1>4. PICK a : a = [n \in 1 .. k |-> [device |-> x.device, created |-> t, url |-> <<x.add[n]>>]]
  OBVIOUS
<1>5. ASSUME NEW n \in 1 .. k
      PROVE  [device |-> x.device, created |-> t, url |-> <<x.add[n]>>] \in R
  <2>1. x.add[n] \in D
    BY <1>1, <1>3
  <2>2. <<x.add[n]>> \in Seq(D)
    BY <2>1
  <2> QED
    BY <1>1, <2>2
<1>6. a \in [1 .. k -> R] /\ \A n \in 1 .. k : a[n].created = t
  BY <1>4, <1>5
<1>7. a \in Seq(R) /\ Len(a) = k
  BY <1>6, IsSeq
<1>8. PICK s \in Seq(R) : s = ElementsAt(rs, I) /\ Range(s) = {rs[n] : n \in I \cap DOMAIN rs}
  BY SomeTyped
<1>9. UpdatedSubs(rs, x, t) = s \o a
  BY <1>2, <1>3, <1>4, <1>8, Zenon DEF UpdatedSubs
<1>10. Range(s) \subseteq Range(rs)
  BY <1>8 DEF Range
<1>11. PICK z \in Seq(R) : z = s \o a
  <2>1. s \o a \in Seq(R)
    BY <1>7, Concatenation
  <2> QED
    BY <2>1, Zenon
<1>12. ASSUME NEW row \in Range(z) PROVE row \in Range(rs) \/ row.created = t
  <2>1. PICK h \in Nat : h = Len(s) /\ DOMAIN s = 1 .. h
    OBVIOUS
  <2>2. Len(z) = h + k /\ DOMAIN z = 1 .. h + k
    <3>1. Len(z) = Len(s) + Len(a)
      BY <1>7, <1>11, Concatenation
    <3>2. DOMAIN z = 1 .. Len(z)
      OBVIOUS
    <3> QED
      BY <1>7, <2>1, <3>1, <3>2
  <2>3. PICK n \in 1 .. h + k : row = z[n]
    BY <2>2 DEF Range
  <2>4. CASE n <= h
    <3>1. n \in 1 .. h
      BY <2>4
    <3>2. z[n] = s[n]
      BY <1>7, <1>11, <2>1, <3>1
    <3>3. row \in Range(s)
      BY <2>1, <2>3, <3>1, <3>2 DEF Range
    <3> QED
      BY <1>10, <3>3
  <2>5. CASE n > h
    <3>1. n - h \in 1 .. k /\ n = h + (n - h)
      BY <2>5
    <3>2. PICK m \in 1 .. k : n = h + m
      BY <3>1
    <3>3. z[h + m] = a[m]
      BY <1>7, <1>11, <2>1
    <3> QED
      BY <1>6, <2>3, <3>2, <3>3
  <2> QED
    BY <2>4, <2>5
<1> QED
  BY <1>9, <1>11, <1>12 DEF SubsUpdated

\* One episode of an upload makes rows of rows.
LEMMA EpisodeTyped ==
    ASSUME NEW R, EpisodeRow \subseteq R, NEW rs \in Seq(R), NEW ep \in EpisodeRow
    PROVE  UpdatedEpisode(rs, ep) \in Seq(R)
<1>1. ep \in R
  OBVIOUS
<1>2. CASE HasId(rs, ep.id)
  <2>1. PICK p \in DOMAIN rs : p = PlaceOf(rs, ep.id)
    BY <1>2, PlaceIn
  <2>2. UpdatedEpisode(rs, ep) = [rs EXCEPT ![p] = ep]
    BY <1>2, <2>1 DEF UpdatedEpisode
  <2>3. [rs EXCEPT ![p] = ep] \in Seq(R)
    BY <1>1
  <2> QED
    BY <2>2, <2>3
<1>3. CASE ~ HasId(rs, ep.id)
  <2>1. UpdatedEpisode(rs, ep) = Append(rs, ep)
    BY <1>3 DEF UpdatedEpisode
  <2> QED
    BY <1>1, <2>1
<1> QED
  BY <1>2, <1>3

\* update_episodes makes rows of rows, for an upload of any length.
LEMMA EpisodesTyped ==
    ASSUME NEW R, EpisodeRow \subseteq R, NEW rs \in Seq(R), NEW batch \in Seq(EpisodeRow)
    PROVE  UpdatedEpisodes(rs, batch) \in Seq(R)
<1>1. PICK k \in Nat : k = Len(batch) /\ DOMAIN batch = 1 .. k
  OBVIOUS
<1> DEFINE Eq(f) == f = [n \in 0 .. k |->
                IF n = 0 THEN rs ELSE UpdatedEpisode(f[n - 1], batch[n])]
           step == [n \in 1 .. k |-> [r \in Seq(R) |-> UpdatedEpisode(r, batch[n])]]
           u == CHOOSE f : Eq(f)
<1>2. step \in [1 .. k -> [Seq(R) -> Seq(R)]]
  <2>1. ASSUME NEW n \in 1 .. k, NEW r \in Seq(R)
        PROVE  UpdatedEpisode(r, batch[n]) \in Seq(R)
    <3>1. PICK ep \in EpisodeRow : ep = batch[n]
      BY <1>1
    <3>2. UpdatedEpisode(r, ep) \in Seq(R)
      BY EpisodeTyped
    <3> QED
      BY <3>1, <3>2
  <2> QED
    BY <2>1
<1>3. PICK g : Follows(g, Seq(R), rs, k, step)
  <2> DEFINE A == Seq(R)
  <2>1. rs \in A /\ step \in [1 .. k -> [A -> A]]
    BY <1>2
  <2> HIDE DEF step, A
  <2>2. \E f : Follows(f, A, rs, k, step)
    BY <2>1, Recursion
  <2> QED
    BY <2>2 DEF A
<1>4. /\ g \in [0 .. k -> Seq(R)] /\ g[0] = rs
      /\ \A n \in 0 .. k - 1 : g[n + 1] = step[n + 1][g[n]]
  BY <1>3 DEF Follows
<1>5. Eq(g)
  <2>1. ASSUME NEW n \in 0 .. k, n # 0 PROVE g[n] = UpdatedEpisode(g[n - 1], batch[n])
    <3>1. /\ n - 1 \in 0 .. k - 1 /\ n - 1 \in 0 .. k /\ n \in 1 .. k
          /\ n - 1 + 1 = n
      BY <2>1
    <3>2. g[n - 1] \in Seq(R)
      BY <1>4, <3>1
    <3>3. step[n][g[n - 1]] = UpdatedEpisode(g[n - 1], batch[n])
      BY <3>1, <3>2
    <3> HIDE DEF step
    <3>4. g[n - 1 + 1] = step[n - 1 + 1][g[n - 1]]
      BY <1>4, <3>1, Zenon
    <3> QED
      BY <3>1, <3>3, <3>4
  <2>2. g = [n \in 0 .. k |-> g[n]]
    BY <1>4
  <2> QED
    BY <1>4, <2>1, <2>2
<1>6. Eq(u)
  BY <1>5
<1>7. UpdatedEpisodes(rs, batch) = u[k]
  BY <1>1 DEF UpdatedEpisodes
<1> HIDE DEF u
<1> DEFINE Typed == {n \in 0 .. k : u[n] \in Seq(R)}
<1>8. 0 \in Typed
  <2>1. 0 \in 0 .. k
    OBVIOUS
  <2>2. u[0] = rs
    BY <1>6, <2>1, Zenon
  <2> QED
    BY <2>1, <2>2
<1>9. ASSUME NEW n \in 0 .. k - 1, n \in Typed PROVE n + 1 \in Typed
  <2>1. n + 1 \in 0 .. k /\ n + 1 # 0 /\ n + 1 - 1 = n /\ n + 1 \in 1 .. k
    OBVIOUS
  <2> DEFINE m == n + 1
  <2> HIDE DEF m
  <2>2. m \in 0 .. k /\ m # 0
    BY <2>1 DEF m
  <2>3. u[m] = UpdatedEpisode(u[m - 1], batch[m])
    BY <1>6, <2>2, Zenon
  <2>4. PICK ep \in EpisodeRow : ep = batch[m]
    BY <1>1, <2>1 DEF m
  <2>5. PICK r \in Seq(R) : r = u[m - 1]
    BY <1>9, <2>1 DEF m
  <2>6. UpdatedEpisode(r, ep) \in Seq(R)
    BY EpisodeTyped
  <2> QED
    BY <2>2, <2>3, <2>4, <2>5, <2>6 DEF m
<1>10. k \in Typed
  <2> HIDE DEF Typed
  <2>1. \A n \in 0 .. k : n \in Typed
    BY <1>8, <1>9, Induction
  <2> QED
    BY <2>1
<1> QED
  BY <1>7, <1>10

\* An update keeps the kind of the rows: those that updates make, and those that can
\* be read.
LEMMA UpdatedTyped ==
    ASSUME NEW now \in Nat, NEW t \in 0 .. now, NEW x \in Change, NEW f, f = x.file,
           NEW R \in {Row(f, now), AnyRow(f, now)}, NEW rs \in Seq(R)
    PROVE  Updated(rs, x, t) \in Seq(R)
<1>1. f \in Kinds
  BY DEF Change, Kinds
<1>2. CASE f = "devices"
  <2>1. \E A, B, D : /\ Device \subseteq A /\ {Mobile, Other} \subseteq B /\ Text \subseteq D
                     /\ R = [id : A, type : B, caption : Seq(D)]
    <3>1. CASE R = Row(f, now)
      <4>1. R = [id : Device, type : {Mobile, Other}, caption : Seq(Text)]
        BY <1>2, <3>1, Zenon DEF Row
      <4> QED
        BY <4>1, Zenon
    <3>2. CASE R = AnyRow(f, now)
      <4>1. PICK C : C = Cell(f, now)
        OBVIOUS
      <4>2. R = [id : C, type : C, caption : Seq(C)]
        BY <1>2, <3>2, <4>1, Zenon DEF AnyRow
      <4>3. Device \subseteq C /\ {Mobile, Other} \subseteq C /\ Text \subseteq C
        BY <1>2, <4>1 DEF Cell
      <4> QED
        BY <4>2, <4>3, Zenon
    <3> QED
      BY <3>1, <3>2
  <2>2. UpdatedDevices(rs, x) \in Seq(R)
    BY <1>2, <2>1, DevicesTyped
  <2> QED
    BY <1>2, <2>2 DEF Updated
<1>3. CASE f = "subs"
  <2>1. \E A, D : /\ Device \subseteq A /\ Url \subseteq D
                  /\ R = [device : A, created : 0 .. now, url : Seq(D)]
    <3>1. CASE R = Row(f, now)
      <4>1. R = [device : Device, created : 0 .. now, url : Seq(Url)]
        BY <1>3, <3>1, Zenon DEF Row
      <4> QED
        BY <4>1, Zenon
    <3>2. CASE R = AnyRow(f, now)
      <4>1. PICK C : C = Cell(f, now)
        OBVIOUS
      <4>2. R = [device : C, created : 0 .. now, url : Seq(C)]
        BY <1>3, <3>2, <4>1, Zenon DEF AnyRow
      <4>3. Device \subseteq C /\ Url \subseteq C
        BY <1>3, <4>1 DEF Cell
      <4> QED
        BY <4>2, <4>3, Zenon
    <3> QED
      BY <3>1, <3>2
  <2>2. SubsUpdated(rs, x, t, R)
    BY <1>3, <2>1, SubsTyped
  <2> QED
    BY <1>3, <2>2 DEF Updated, SubsUpdated
<1>4. CASE f = "episodes"
  <2>1. EpisodeRow \subseteq R
    BY <1>4 DEF Row, AnyRow, Cell
  <2>2. x.batch \in Seq(EpisodeRow)
    BY <1>4 DEF Change
  <2>3. UpdatedEpisodes(rs, x.batch) \in Seq(R)
    BY <2>1, <2>2, EpisodesTyped
  <2> QED
    BY <1>4, <2>3 DEF Updated
<1> QED
  BY <1>1, <1>2, <1>3, <1>4 DEF Kinds

-----------------------------------------------------------------------------
\* Writing

\* What is written over cells, or after a hole, is cells.
LEMMA OverCells ==
    ASSUME NEW S, Hole \in S, NEW cells \in Seq(S), NEW pos \in Nat,
           NEW piece \in Seq(S)
    PROVE  Over(cells, pos, piece) \in Seq(S)
<1> DEFINE before == [i \in 1 .. pos |-> IF i \in DOMAIN cells THEN cells[i] ELSE Hole]
           after == SubSeq(cells, pos + Len(piece) + 1, Len(cells))
<1>1. before \in Seq(S)
  OBVIOUS
<1>2. after \in Seq(S)
  OBVIOUS
<1> QED
  BY <1>1, <1>2 DEF Over

\* What is written at the end is added.
LEMMA OverAtEnd ==
    ASSUME NEW S, NEW cells \in Seq(S), NEW piece \in Seq(S)
    PROVE  Over(cells, Len(cells), piece) = cells \o piece
<1>1. PICK n \in Nat : n = Len(cells)
  OBVIOUS
<1> DEFINE before == [i \in 1 .. n |-> IF i \in DOMAIN cells THEN cells[i] ELSE Hole]
           after == SubSeq(cells, n + Len(piece) + 1, n)
<1>2. before = cells
  <2>1. before \in Seq(S) /\ Len(before) = n
    BY <1>1
  <2>2. \A i \in 1 .. n : before[i] = cells[i]
    BY <1>1
  <2> HIDE DEF before
  <2> QED
    BY <1>1, <2>1, <2>2
<1>3. after = <<>>
  <2>1. Len(piece) \in Nat
    OBVIOUS
  <2>2. ~(n + Len(piece) + 1 <= n)
    BY <2>1
  <2> QED
    BY <1>1, <2>1, <2>2
<1>4. Over(cells, Len(cells), piece) = before \o piece \o after
  BY <1>1 DEF Over
<1> HIDE DEF before, after
<1>5. cells \o piece \in Seq(S)
  OBVIOUS
<1>6. (cells \o piece) \o <<>> = cells \o piece
  BY <1>5
<1> QED
  BY <1>2, <1>3, <1>4, <1>6

\* cells is what the first of all the pieces are, pos is its end, and those are to come.
WritingAs(all, cells, pos, pieces, C) ==
    \E done \in Seq(Seq(C)) :
        all = done \o pieces /\ cells = FlattenSeq(done) /\ pos = Len(cells)

\* A truncated file holds the first none of the pieces.
LEMMA WriteStarts ==
    ASSUME NEW C, NEW all \in Seq(Seq(C))
    PROVE  WritingAs(all, <<>>, 0, all, C)
<1>1. PICK done \in Seq(Seq(C)) : done = <<>>
  <2>1. <<>> \in Seq(Seq(C))
    OBVIOUS
  <2> QED
    BY <2>1
<1>2. all = <<>> \o all
  <2> DEFINE A == Seq(C)
  <2>1. all \in Seq(A)
    OBVIOUS
  <2> HIDE DEF A
  <2> QED
    BY <2>1
<1>3. Len(<<>>) = 0
  OBVIOUS
<1> QED
  BY <1>1, <1>2, <1>3, FlatEmpty, Zenon DEF WritingAs

\* The first of the pieces to be written joins those that are.
LEMMA HeadAndTail ==
    ASSUME NEW A, NEW d \in Seq(A), NEW p \in Seq(A), p # <<>>
    PROVE  /\ Head(p) \in A /\ Tail(p) \in Seq(A)
           /\ d \o p = Append(d, Head(p)) \o Tail(p)
<1>1. Head(p) \in A /\ Tail(p) \in Seq(A)
  OBVIOUS
<1>2. PICK h \in A, t \in Seq(A) : h = Head(p) /\ t = Tail(p)
  BY <1>1
<1>3. <<h>> \in Seq(A) /\ Append(d, h) = d \o <<h>>
  BY Cells, OneMore
<1>4. PICK z \in Seq(A) : z = <<h>>
  BY <1>3
<1>5. z \o t = p
  BY <1>2, <1>4
<1>6. Assoc(d, z, t)
  BY Associative
<1> QED
  BY <1>1, <1>2, <1>3, <1>4, <1>5, <1>6, Zenon DEF Assoc

\* A piece that is written at the end of those before it is the next of them.
LEMMA WriteGoesOn ==
    ASSUME NEW C, NEW all, NEW cells, NEW pos, NEW pieces \in Seq(Seq(C)), pieces # <<>>,
           WritingAs(all, cells, pos, pieces, C)
    PROVE  WritingAs(all, Over(cells, pos, Head(pieces)), pos + Len(Head(pieces)),
                     Tail(pieces), C)
<1>1. PICK done \in Seq(Seq(C)) :
        all = done \o pieces /\ cells = FlattenSeq(done) /\ pos = Len(cells)
  BY DEF WritingAs
<1>2. PICK p : p = Head(pieces)
  OBVIOUS
<1>3. p \in Seq(C) /\ all = Append(done, p) \o Tail(pieces)
  <2> DEFINE A == Seq(C)
  <2>1. done \in Seq(A) /\ pieces \in Seq(A)
    OBVIOUS
  <2> HIDE DEF A
  <2>2. Head(pieces) \in A /\ done \o pieces = Append(done, Head(pieces)) \o Tail(pieces)
    BY <2>1, HeadAndTail
  <2> QED
    BY <1>1, <1>2, <2>2 DEF A
<1>4. /\ cells \in Seq(C) /\ Append(done, p) \in Seq(Seq(C))
      /\ FlattenSeq(Append(done, p)) = cells \o p
  <2>1. done \in Seq(Seq(C)) /\ p \in Seq(C) /\ cells = FlattenSeq(done)
    BY <1>1, <1>3
  <2>2. /\ FlattenSeq(done) \in Seq(C)
        /\ FlattenSeq(Append(done, p)) = FlattenSeq(done) \o p
        /\ Append(done, p) \in Seq(Seq(C))
    BY <2>1, FlatAppend
  <2> QED
    BY <2>1, <2>2, Zenon
<1>5. Over(cells, pos, p) = cells \o p
  BY <1>1, <1>3, <1>4, OverAtEnd
<1>6. pos + Len(p) = Len(cells \o p)
  BY <1>1, <1>3, <1>4, Concatenation
<1> QED
  BY <1>2, <1>3, <1>4, <1>5, <1>6, Zenon DEF WritingAs

\* With no piece left, the file holds them all.
LEMMA WriteEnds ==
    ASSUME NEW C, NEW all, NEW cells, NEW pos, WritingAs(all, cells, pos, <<>>, C)
    PROVE  cells = FlattenSeq(all)
<1>1. PICK done \in Seq(Seq(C)) : all = done \o <<>> /\ cells = FlattenSeq(done)
  BY DEF WritingAs
<1>2. done \o <<>> = done
  <2> DEFINE A == Seq(C)
  <2>1. done \in Seq(A)
    OBVIOUS
  <2> HIDE DEF A
  <2> QED
    BY <2>1
<1> QED
  BY <1>1, <1>2

\* The cells may be taken from a larger set.
LEMMA WriteLarger ==
    ASSUME NEW C, NEW D, C \subseteq D, NEW all, NEW cells, NEW pos, NEW pieces,
           WritingAs(all, cells, pos, pieces, C)
    PROVE  WritingAs(all, cells, pos, pieces, D)
<1>1. Seq(Seq(C)) \subseteq Seq(Seq(D))
  <2>1. Seq(C) \subseteq Seq(D)
    OBVIOUS
  <2> DEFINE A == Seq(C)
             B == Seq(D)
  <2>2. A \subseteq B
    BY <2>1
  <2> HIDE DEF A, B
  <2>3. Seq(A) \subseteq Seq(B)
    BY <2>2
  <2> QED
    BY <2>3 DEF A, B
<1> QED
  BY <1>1 DEF WritingAs

-----------------------------------------------------------------------------
\* What requests hold and files are made of

Domains ==
    /\ DOMAIN text = File /\ DOMAIN handle = Client /\ DOMAIN rows = Client
    /\ DOMAIN seen = Client /\ DOMAIN expected = File /\ DOMAIN got = Client

\* Any cell that fits the file may be in it, wherever writers have left it.
FileOK(f) == text[f] \in Seq(Cell(f, clock))

Busy(c) == pc[c] \in {"read", "stamp", "open", "write"}

\* What it has read so far is of the cells of the file that it reads.
GotOK(c) ==
    CASE pc[c] = "read" -> got[c] \in Seq(Cell(change[c].file, clock))
      [] pc[c] = "fetch" -> got[c] \in Seq(Cell("subs", clock))
      [] OTHER -> got[c] = <<>>

RequestOK(c) ==
    /\ Busy(c) => change[c] \in Changes
    /\ ~Busy(c) => change[c] = NoChange
    /\ pc[c] = "stamp" => change[c].file = "subs"
    /\ pc[c] \in {"stamp", "open"} => rows[c] \in Seq(AnyRow(change[c].file, clock))
    /\ pc[c] = "fetched" => rows[c] \in Seq(AnyRow("subs", clock))

HandleOK(c) ==
    IF pc[c] = "write"
    THEN /\ handle[c].file = change[c].file /\ handle[c].pos \in Nat
         /\ handle[c].pieces \in Seq(Seq(Cell(change[c].file, clock)))
    ELSE handle[c] = Closed

TypeInv ==
    /\ TypeOK /\ Domains
    /\ \A f \in File : FileOK(f)
    /\ \A c \in Client : RequestOK(c) /\ GotOK(c) /\ HandleOK(c)

\* A request that a step does not move.
Unmoved(w) ==
    /\ pc'[w] = pc[w] /\ change'[w] = change[w] /\ rows'[w] = rows[w]
    /\ stamp'[w] = stamp[w] /\ handle'[w] = handle[w] /\ got'[w] = got[w]

\* A change is to one of the three files.
LEMMA ChangeFile ==
    ASSUME NEW x \in Changes
    PROVE  x \in Change /\ x.file \in File /\ x.file \in Kinds
BY DataAssumption DEF Change, Kinds

\* The files are three, and no file is none of them.
LEMMA FilesAre == File = Kinds /\ NoFile \notin File
BY DataAssumption, TextFileAssumption

\* A file of c that is open is the one that it changes.
LEMMA WriterIs ==
    ASSUME TypeInv, NEW c \in Client, NEW f \in File
    PROVE  handle[c].file = f <=> pc[c] = "write" /\ change[c].file = f
<1>1. HandleOK(c)
  BY DEF TypeInv
<1> QED
  BY <1>1, FilesAre DEF HandleOK, Closed

\* A step of c that does not take time.
LEMMA TypeStep ==
    ASSUME TypeInv, NEW c \in Client, clock' = clock,
           \A w \in Client \ {c} : Unmoved(w),
           RequestOK(c)', GotOK(c)', HandleOK(c)',
           \A f \in File : text'[f] = text[f] \/ FileOK(f)',
           \A f \in File : expected'[f] = expected[f] \/ expected'[f] \in Seq(Row(f, clock)),
           pc' \in [Client -> {"idle", "read", "stamp", "open", "write", "fetch", "fetched"}],
           change' \in [Client -> Changes \cup {NoChange}],
           stamp' \in [Client -> 0 .. clock], cursor' \in [Client -> 0 .. clock],
           updates' \in 0 .. MaxUpdates, struck' \subseteq File, met' \in BOOLEAN,
           Domains'
    PROVE  TypeInv'
<1>1. \A f \in File : FileOK(f)'
  BY DEF TypeInv, FileOK
<1>2. \A w \in Client : RequestOK(w)' /\ GotOK(w)' /\ HandleOK(w)'
  <2> SUFFICES ASSUME NEW w \in Client \ {c} PROVE RequestOK(w)' /\ GotOK(w)' /\ HandleOK(w)'
    OBVIOUS
  <2>1. RequestOK(w) /\ GotOK(w) /\ HandleOK(w) /\ Unmoved(w)
    BY DEF TypeInv
  <2> QED
    BY <2>1 DEF RequestOK, GotOK, HandleOK, Unmoved, Busy
<1>3. \A w \in Client : handle'[w].file \in {NoFile, change'[w].file} /\ handle'[w].pos \in Nat
  BY <1>2 DEF HandleOK, Closed
<1>4. TypeOK'
  <2>1. \A f \in File : expected'[f] \in Seq(Row(f, clock'))
    BY DEF TypeInv, TypeOK
  <2>2. clock' \in Seconds
    BY DEF TypeInv, TypeOK
  <2> QED
    BY <1>3, <2>1, <2>2 DEF TypeOK
<1> QED
  BY <1>1, <1>2, <1>4 DEF TypeInv

\* The parts of the type invariant that such a step may leave as they are.
TypeFacts ==
    /\ pc \in [Client -> {"idle", "read", "stamp", "open", "write", "fetch", "fetched"}]
    /\ change \in [Client -> Changes \cup {NoChange}]
    /\ stamp \in [Client -> 0 .. clock] /\ cursor \in [Client -> 0 .. clock]
    /\ updates \in 0 .. MaxUpdates /\ struck \subseteq File /\ met \in BOOLEAN
    /\ clock \in Nat /\ MaxUpdates \in Nat
    /\ Domains

\* What the steps below need of the type invariant, and no more.
LEMMA Facts ==
    ASSUME TypeInv
    PROVE  TypeFacts
BY DataAssumption DEF TypeInv, TypeOK, TypeFacts, Seconds

\* A request that ends.
LEMMA AnswerTypes ==
    ASSUME TypeInv, NEW c \in Client, Answer(c), UNCHANGED <<text, clock, expected, updates>>,
           (handle' = handle /\ pc[c] # "write")
           \/ handle' = [handle EXCEPT ![c] = Closed],
           DOMAIN seen' = DOMAIN seen,
           cursor' \in [Client -> 0 .. clock], struck' \subseteq File, met' \in BOOLEAN
    PROVE  TypeInv'
<1>1. TypeFacts
  BY Facts
<1>2. \A w \in Client \ {c} : Unmoved(w)
  BY <1>1 DEF Unmoved, Answer, DropRead, TypeFacts, Domains
<1>3. pc'[c] = "idle" /\ change'[c] = NoChange /\ handle'[c] = Closed /\ got'[c] = <<>>
  BY <1>1 DEF Answer, DropRead, TypeFacts, Domains, TypeInv, HandleOK
<1>4. RequestOK(c)' /\ GotOK(c)' /\ HandleOK(c)'
  BY <1>3 DEF RequestOK, GotOK, HandleOK, Busy
<1>5. /\ pc' \in [Client -> {"idle", "read", "stamp", "open", "write", "fetch", "fetched"}]
      /\ change' \in [Client -> Changes \cup {NoChange}]
      /\ Domains'
  BY <1>1 DEF Answer, DropRead, TypeFacts, Domains
<1>6. stamp' \in [Client -> 0 .. clock]
  BY <1>1 DEF Answer, DropRead, TypeFacts
<1>7. updates' \in 0 .. MaxUpdates
  BY <1>1 DEF TypeFacts
<1> QED
  BY <1>2, <1>4, <1>5, <1>6, <1>7, TypeStep

\* Time passes.
LEMMA TickTypes ==
    ASSUME TypeInv, Tick
    PROVE  TypeInv'
<1>0. UNCHANGED <<files, request, cursor, updates, ghosts>> /\ clock' = clock + 1 /\ clock < MaxClock
  BY DEF Tick
<1>1. TypeFacts
  BY Facts
<1>2. clock \in Nat /\ clock' \in Nat /\ clock <= clock' /\ clock' \in Seconds
  BY <1>0, <1>1, DataAssumption DEF TypeFacts, Seconds
<1>3. \A f \in Kinds : Cell(f, clock) \subseteq Cell(f, clock')
  BY <1>2, CellGrows
<1>4. \A f \in File : FileOK(f)'
  <2> SUFFICES ASSUME NEW f \in File PROVE text'[f] \in Seq(Cell(f, clock'))
    BY DEF FileOK
  <2>1. text[f] \in Seq(Cell(f, clock)) /\ text' = text
    BY <1>0 DEF TypeInv, FileOK, files
  <2> QED
    BY <1>3, <2>1, FilesAre, SeqLarger
<1>5. \A f \in Kinds : Seq(AnyRow(f, clock)) \subseteq Seq(AnyRow(f, clock'))
  <2> SUFFICES ASSUME NEW f \in Kinds, NEW r \in Seq(AnyRow(f, clock))
               PROVE  r \in Seq(AnyRow(f, clock'))
    OBVIOUS
  <2>1. AnyRow(f, clock) \subseteq AnyRow(f, clock')
    BY <1>2, AnyRowGrows
  <2> QED
    BY <2>1, SeqLarger
<1>6. \A f \in Kinds : Seq(Seq(Cell(f, clock))) \subseteq Seq(Seq(Cell(f, clock')))
  <2> SUFFICES ASSUME NEW f \in Kinds
               PROVE  Seq(Seq(Cell(f, clock))) \subseteq Seq(Seq(Cell(f, clock')))
    OBVIOUS
  <2> DEFINE A == Seq(Cell(f, clock))
             B == Seq(Cell(f, clock'))
  <2>1. A \subseteq B
    BY <1>3, SeqLarger
  <2> HIDE DEF A, B
  <2>2. Seq(A) \subseteq Seq(B)
    BY <2>1, SeqLarger
  <2> QED
    BY <2>2 DEF A, B
<1>7. ASSUME NEW c \in Client PROVE RequestOK(c)' /\ GotOK(c)' /\ HandleOK(c)'
  <2>1. UNCHANGED <<pc, change, rows, handle, got>>
    BY <1>0 DEF request, files
  <2>2. RequestOK(c) /\ GotOK(c) /\ HandleOK(c)
    BY DEF TypeInv
  <2>3. Busy(c) => change[c].file \in Kinds
    BY <2>2, ChangeFile DEF RequestOK
  <2>4. RequestOK(c)'
    <3>1. "subs" \in Kinds
      BY DEF Kinds
    <3> QED
      BY <1>5, <2>1, <2>2, <2>3, <3>1 DEF RequestOK, Busy
  <2>5. HandleOK(c)'
    BY <1>6, <2>1, <2>2, <2>3 DEF HandleOK, Busy
  <2>6. \A f \in Kinds : Seq(Cell(f, clock)) \subseteq Seq(Cell(f, clock'))
    BY <1>3, SeqLarger
  <2>7. GotOK(c)'
    <3>1. "subs" \in Kinds
      BY DEF Kinds
    <3> QED
      BY <2>1, <2>2, <2>3, <2>6, <3>1 DEF GotOK, Busy
  <2> QED
    BY <2>4, <2>5, <2>7
<1>8. TypeOK'
  <2>1. \A f \in File : expected'[f] \in Seq(Row(f, clock'))
    <3> SUFFICES ASSUME NEW f \in File PROVE expected'[f] \in Seq(Row(f, clock'))
      OBVIOUS
    <3>1. expected' = expected /\ expected[f] \in Seq(Row(f, clock))
      BY <1>0 DEF ghosts, TypeInv, TypeOK
    <3>2. Row(f, clock) \subseteq Row(f, clock')
      BY <1>2, FilesAre, RowGrows
    <3> QED
      BY <3>1, <3>2, SeqLarger
  <2>2. 0 .. clock \subseteq 0 .. clock'
    BY <1>2
  <2>3. UNCHANGED <<pc, change, stamp, cursor, handle, updates, struck, met>>
    BY <1>0 DEF request, files, ghosts
  <2>4. stamp' \in [Client -> 0 .. clock'] /\ cursor' \in [Client -> 0 .. clock']
    BY <1>1, <2>2, <2>3 DEF TypeFacts
  <2> QED
    BY <1>2, <2>1, <2>3, <2>4 DEF TypeInv, TypeOK
<1>9. Domains'
  BY <1>0, <1>1 DEF TypeFacts, Domains, files, request, ghosts
<1> QED
  BY <1>4, <1>7, <1>8, <1>9 DEF TypeInv

\* A request is received.
LEMMA UpdateTypes ==
    ASSUME TypeInv, NEW c \in Client, Update(c)
    PROVE  TypeInv'
<1>0. PICK x \in Changes :
        /\ change' = [change EXCEPT ![c] = x] /\ pc' = [pc EXCEPT ![c] = "read"]
        /\ pc[c] = "idle" /\ updates < MaxUpdates /\ updates' = updates + 1
        /\ UNCHANGED <<files, got, clock, rows, stamp, cursor, ghosts>>
  BY DEF Update
<1>1. TypeFacts
  BY Facts
<1>2. \A w \in Client \ {c} : Unmoved(w)
  BY <1>0, <1>1 DEF Unmoved, TypeFacts, files
<1>3. pc'[c] = "read" /\ change'[c] = x /\ handle'[c] = Closed /\ got'[c] = <<>>
  BY <1>0, <1>1 DEF TypeFacts, TypeInv, HandleOK, GotOK, files
<1>4. RequestOK(c)' /\ GotOK(c)' /\ HandleOK(c)'
  BY <1>3 DEF RequestOK, GotOK, HandleOK, Busy
<1>5. /\ pc' \in [Client -> {"idle", "read", "stamp", "open", "write", "fetch", "fetched"}]
      /\ change' \in [Client -> Changes \cup {NoChange}]
      /\ Domains'
  BY <1>0, <1>1 DEF TypeFacts, Domains, files, ghosts
<1>6. updates' \in 0 .. MaxUpdates
  BY <1>0, <1>1 DEF TypeFacts
<1>7. /\ stamp' \in [Client -> 0 .. clock] /\ cursor' \in [Client -> 0 .. clock]
      /\ struck' \subseteq File /\ met' \in BOOLEAN
      /\ text' = text /\ expected' = expected /\ clock' = clock
  BY <1>0, <1>1 DEF TypeFacts, files, ghosts
<1> QED
  BY <1>2, <1>4, <1>5, <1>6, <1>7, TypeStep

\* The rows that are read are of cells, whatever the file holds.
LEMMA ReadTypes ==
    ASSUME TypeInv, NEW c \in Client, Read(c)
    PROVE  TypeInv'
<1>0. PICK f : f = change[c].file
  OBVIOUS
<1>a. /\ pc[c] = "read" /\ CanRead(f, got[c])
      /\ rows' = [rows EXCEPT ![c] = RowsIn(f, got[c])]
      /\ pc' = [pc EXCEPT ![c] = IF f = "subs" THEN "stamp" ELSE "open"]
      /\ got' = [got EXCEPT ![c] = <<>>] /\ Meets(c)
      /\ UNCHANGED <<files, clock, change, stamp, cursor, updates, seen, expected>>
  BY <1>0 DEF Read, DropRead
<1>1. TypeFacts
  BY Facts
<1>2. \A w \in Client \ {c} : Unmoved(w)
  BY <1>a, <1>1 DEF Unmoved, TypeFacts, Domains, files
<1>3. change[c] \in Changes /\ f \in File /\ f \in Kinds
  BY <1>0, <1>a, ChangeFile DEF TypeInv, RequestOK, Busy
<1>4. RowsIn(f, got[c]) \in Seq(AnyRow(f, clock))
  <2>1. got[c] \in Seq(Cell(f, clock)) /\ clock \in Nat
    BY <1>0, <1>1, <1>a DEF TypeInv, GotOK, TypeFacts
  <2> QED
    BY <1>a, <1>3, <2>1, RowsTyped
<1>5. /\ pc'[c] = (IF f = "subs" THEN "stamp" ELSE "open") /\ change'[c] = change[c]
      /\ rows'[c] = RowsIn(f, got[c]) /\ handle'[c] = Closed /\ got'[c] = <<>>
  BY <1>a, <1>1 DEF TypeFacts, Domains, TypeInv, HandleOK, files
<1>6. RequestOK(c)' /\ GotOK(c)' /\ HandleOK(c)'
  BY <1>0, <1>a, <1>3, <1>4, <1>5 DEF RequestOK, GotOK, HandleOK, Busy
<1>7. /\ pc' \in [Client -> {"idle", "read", "stamp", "open", "write", "fetch", "fetched"}]
      /\ change' \in [Client -> Changes \cup {NoChange}]
      /\ Domains'
  BY <1>a, <1>1 DEF TypeFacts, Domains, files
<1>8. /\ stamp' \in [Client -> 0 .. clock] /\ cursor' \in [Client -> 0 .. clock]
      /\ updates' \in 0 .. MaxUpdates
      /\ text' = text /\ expected' = expected /\ clock' = clock
  BY <1>a, <1>1 DEF TypeFacts, files
<1>9. struck' \subseteq File /\ met' \in BOOLEAN
  BY <1>0, <1>a, <1>1, <1>3 DEF TypeFacts, Meets
<1> QED
  BY <1>2, <1>6, <1>7, <1>8, <1>9, TypeStep

\* What is read of a file is of its cells, whatever others make of it in between.
LEMMA MoreTypes ==
    ASSUME TypeInv, NEW c \in Client, ReadMore(c) \/ FetchMore(c)
    PROVE  TypeInv'
<1>0. PICK f :
        /\ f = IF pc[c] = "read" THEN change[c].file ELSE "subs"
        /\ ReadSome(c, f)
        /\ \/ pc[c] = "read" /\ pc' = pc
           \/ pc[c] \in {"idle", "fetch"} /\ pc' = [pc EXCEPT ![c] = "fetch"]
        /\ UNCHANGED <<files, clock, change, rows, stamp, cursor, updates, seen, expected>>
  <2>1. CASE ReadMore(c)
    BY <2>1 DEF ReadMore
  <2>2. CASE FetchMore(c)
    BY <2>2 DEF FetchMore
  <2> QED
    BY <2>1, <2>2
<1>1. TypeFacts
  BY Facts
<1>2. f \in File /\ f \in Kinds
  <2>1. CASE pc[c] = "read"
    BY <1>0, <2>1, ChangeFile DEF TypeInv, RequestOK, Busy
  <2>2. CASE pc[c] # "read"
    BY <1>0, <2>2, FilesAre DEF Kinds
  <2> QED
    BY <2>1, <2>2
<1>3. PICK C, all, some, next :
        /\ C = Cell(f, clock) /\ all = text[f] /\ some = got[c]
        /\ next = some \o SubSeq(all, Len(some) + 1, Min({Len(some) + Buffer, Len(all)}))
  OBVIOUS
<1>4. got' = [got EXCEPT ![c] = next] /\ Len(some) < Len(all)
  BY <1>1, <1>0, <1>3 DEF ReadSome, TypeFacts, Domains
<1>5. all \in Seq(C) /\ some \in Seq(C)
  <2>1. all \in Seq(C)
    BY <1>2, <1>3 DEF TypeInv, FileOK
  <2>2. <<>> \in Seq(C)
    OBVIOUS
  <2>3. GotOK(c)
    BY DEF TypeInv
  <2> QED
    BY <1>0, <1>3, <2>1, <2>2, <2>3 DEF GotOK
<1>6. next \in Seq(C)
  BY <1>3, <1>4, <1>5, TextFileAssumption, ReadOn
<1>7. \A w \in Client \ {c} : Unmoved(w)
  BY <1>0, <1>1, <1>4 DEF Unmoved, TypeFacts, Domains, files
<1>8. /\ pc'[c] = (IF pc[c] = "read" THEN "read" ELSE "fetch")
      /\ change'[c] = change[c] /\ got'[c] = next /\ handle'[c] = Closed /\ clock' = clock
  BY <1>0, <1>1, <1>4 DEF TypeFacts, Domains, TypeInv, HandleOK, files
<1>9. RequestOK(c)' /\ GotOK(c)' /\ HandleOK(c)'
  <2>1. RequestOK(c)
    BY DEF TypeInv
  <2>2. RequestOK(c)'
    BY <1>0, <1>8, <2>1 DEF RequestOK, Busy
  <2>3. HandleOK(c)'
    BY <1>8 DEF HandleOK
  <2>4. GotOK(c)'
    BY <1>0, <1>3, <1>6, <1>8 DEF GotOK
  <2> QED
    BY <2>2, <2>3, <2>4
<1>10. /\ pc' \in [Client -> {"idle", "read", "stamp", "open", "write", "fetch", "fetched"}]
       /\ change' \in [Client -> Changes \cup {NoChange}]
       /\ stamp' \in [Client -> 0 .. clock] /\ cursor' \in [Client -> 0 .. clock]
       /\ updates' \in 0 .. MaxUpdates
       /\ text' = text /\ expected' = expected
  BY <1>0, <1>1 DEF TypeFacts, files
<1>11. Domains'
  BY <1>0, <1>1, <1>4 DEF TypeFacts, Domains, files
<1>12. struck' \subseteq File /\ met' \in BOOLEAN
  <2>1. CASE ReadMore(c)
    <3>1. pc[c] = "read" /\ Meets(c)
      BY <2>1 DEF ReadMore
    <3>2. change[c].file \in File
      BY <1>0, <1>2, <3>1
    <3> QED
      BY <1>1, <3>1, <3>2 DEF Meets, TypeFacts
  <2>2. CASE FetchMore(c)
    BY <1>1, <2>2 DEF FetchMore, MeetsFetch, TypeFacts
  <2> QED
    BY <2>1, <2>2
<1> QED
  BY <1>7, <1>8, <1>9, <1>10, <1>11, <1>12, TypeStep

\* A request that takes its time of creation keeps the types.
LEMMA StampTypes ==
    ASSUME TypeInv, NEW c \in Client, Stamp(c)
    PROVE  TypeInv'
<1>0. /\ pc[c] = "stamp" /\ stamp' = [stamp EXCEPT ![c] = clock]
      /\ pc' = [pc EXCEPT ![c] = "open"]
      /\ UNCHANGED <<files, got, clock, change, rows, cursor, updates, ghosts>>
  BY DEF Stamp
<1>1. TypeFacts
  BY Facts
<1>2. \A w \in Client \ {c} : Unmoved(w)
  BY <1>0, <1>1 DEF Unmoved, TypeFacts, files
<1>3. /\ pc'[c] = "open" /\ change'[c] = change[c] /\ rows'[c] = rows[c]
      /\ handle'[c] = Closed /\ got'[c] = <<>>
  BY <1>0, <1>1 DEF TypeFacts, TypeInv, HandleOK, GotOK, files
<1>4. RequestOK(c)' /\ GotOK(c)' /\ HandleOK(c)'
  BY <1>0, <1>3 DEF TypeInv, RequestOK, GotOK, HandleOK, Busy
<1>5. /\ pc' \in [Client -> {"idle", "read", "stamp", "open", "write", "fetch", "fetched"}]
      /\ change' \in [Client -> Changes \cup {NoChange}]
      /\ Domains' /\ cursor' \in [Client -> 0 .. clock]
      /\ updates' \in 0 .. MaxUpdates /\ struck' \subseteq File /\ met' \in BOOLEAN
      /\ text' = text /\ expected' = expected /\ clock' = clock
  BY <1>0, <1>1 DEF TypeFacts, Domains, files, ghosts
<1>6. stamp' \in [Client -> 0 .. clock]
  BY <1>0, <1>1 DEF TypeFacts
<1> QED
  BY <1>2, <1>4, <1>5, <1>6, TypeStep

\* Opening the file keeps the types: its new pieces are cells of rows.
LEMMA OpenTypes ==
    ASSUME TypeInv, NEW c \in Client, OpenFile(c)
    PROVE  TypeInv'
<1>0. PICK f, new, all :
        /\ f = change[c].file /\ new = Updated(rows[c], change[c], stamp[c])
        /\ all = Lines(f, new)
  OBVIOUS
<1>a. /\ pc[c] = "open" /\ Open(c, f, all)
      /\ expected' = [expected EXCEPT ![f] = Updated(@, change[c], stamp[c])]
      /\ pc' = [pc EXCEPT ![c] = "write"] /\ rows' = [rows EXCEPT ![c] = <<>>]
      /\ UNCHANGED <<got, clock, change, stamp, cursor, updates, seen, struck, met>>
  BY <1>0 DEF OpenFile
<1>b. /\ handle' = [handle EXCEPT ![c] = [file |-> f, pos |-> 0, pieces |-> all]]
      /\ text' = [text EXCEPT ![f] = <<>>]
  BY <1>a DEF Open
<1>1. TypeFacts
  BY Facts
<1>2. \A w \in Client \ {c} : Unmoved(w)
  BY <1>a, <1>b, <1>1 DEF Unmoved, TypeFacts, Domains
<1>3. /\ change[c] \in Changes /\ change[c] \in Change /\ f \in File /\ f \in Kinds
      /\ rows[c] \in Seq(AnyRow(f, clock)) /\ clock \in Nat /\ stamp[c] \in 0 .. clock
  BY <1>0, <1>a, <1>1, ChangeFile DEF TypeInv, RequestOK, Busy, TypeFacts
<1>4. all \in Seq(Seq(Cell(f, clock)))
  <2>1. new \in Seq(AnyRow(f, clock))
    BY <1>0, <1>3, UpdatedTyped
  <2> QED
    BY <1>0, <1>3, <2>1, TextTyped
<1>5. /\ pc'[c] = "write" /\ change'[c] = change[c]
      /\ handle'[c] = [file |-> f, pos |-> 0, pieces |-> all]
  BY <1>a, <1>b, <1>1 DEF TypeFacts, Domains
<1>6. RequestOK(c)'
  BY <1>3, <1>5 DEF RequestOK, Busy
<1>7. HandleOK(c)' /\ GotOK(c)'
  <2>1. got'[c] = <<>>
    BY <1>a DEF TypeInv, GotOK
  <2> QED
    BY <1>0, <1>a, <1>4, <1>5, <2>1 DEF HandleOK, GotOK
<1>8. \A g \in File : text'[g] = text[g] \/ FileOK(g)'
  <2>1. <<>> \in Seq(Cell(f, clock'))
    OBVIOUS
  <2> QED
    BY <1>1, <1>b, <2>1 DEF FileOK, TypeFacts, Domains
<1>9. \A g \in File : expected'[g] = expected[g] \/ expected'[g] \in Seq(Row(g, clock))
  <2>1. expected[f] \in Seq(Row(f, clock))
    BY <1>3 DEF TypeInv, TypeOK
  <2>2. Updated(expected[f], change[c], stamp[c]) \in Seq(Row(f, clock))
    BY <1>0, <1>3, <2>1, UpdatedTyped
  <2> QED
    BY <1>1, <1>a, <2>2 DEF TypeFacts, Domains
<1>10. /\ pc' \in [Client -> {"idle", "read", "stamp", "open", "write", "fetch", "fetched"}]
       /\ change' \in [Client -> Changes \cup {NoChange}]
       /\ stamp' \in [Client -> 0 .. clock] /\ cursor' \in [Client -> 0 .. clock]
       /\ updates' \in 0 .. MaxUpdates /\ struck' \subseteq File /\ met' \in BOOLEAN
       /\ clock' = clock
  BY <1>a, <1>1 DEF TypeFacts
<1>11. Domains'
  BY <1>a, <1>b, <1>1 DEF TypeFacts, Domains
<1> QED
  BY <1>2, <1>6, <1>7, <1>8, <1>9, <1>10, <1>11, TypeStep

\* A piece lands where the writer is.
LEMMA WriteTypes ==
    ASSUME TypeInv, NEW c \in Client, WriteRow(c)
    PROVE  TypeInv'
<1>0. PICK f, pos, pieces :
        f = change[c].file /\ pos = handle[c].pos /\ pieces = handle[c].pieces
  OBVIOUS
<1>1. TypeFacts
  BY Facts
<1>2. /\ pc[c] = "write" /\ pieces # <<>>
      /\ UNCHANGED <<clock, request, cursor, updates, ghosts>>
      /\ f \in File /\ f \in Kinds /\ handle[c].file = f
      /\ pos \in Nat /\ pieces \in Seq(Seq(Cell(f, clock))) /\ text[f] \in Seq(Cell(f, clock))
  <2>1. /\ pc[c] = "write" /\ pieces # <<>>
        /\ UNCHANGED <<clock, request, cursor, updates, ghosts>>
    BY <1>0 DEF WriteRow, WritePiece
  <2>2. f \in File /\ f \in Kinds
    BY <1>0, <2>1, ChangeFile DEF TypeInv, RequestOK, Busy
  <2>3. handle[c].file = f /\ pos \in Nat /\ pieces \in Seq(Seq(Cell(f, clock)))
    BY <1>0, <2>1 DEF TypeInv, HandleOK
  <2> QED
    BY <2>1, <2>2, <2>3 DEF TypeInv, FileOK
<1>3. PICK piece : piece = Head(pieces)
  OBVIOUS
<1>4. piece \in Seq(Cell(f, clock)) /\ Tail(pieces) \in Seq(Seq(Cell(f, clock))) /\ Len(piece) \in Nat
  <2> DEFINE A == Seq(Cell(f, clock))
  <2>1. pieces \in Seq(A)
    BY <1>2
  <2> HIDE DEF A
  <2>2. piece \in A /\ Tail(pieces) \in Seq(A)
    BY <1>2, <1>3, <2>1
  <2>3. piece \in Seq(Cell(f, clock))
    BY <2>2 DEF A
  <2>4. Len(piece) \in Nat
    BY <2>3
  <2> QED
    BY <2>2, <2>3, <2>4 DEF A
<1> DEFINE next == [file |-> f, pos |-> pos + Len(piece), pieces |-> Tail(pieces)]
<1>5. /\ text' = [text EXCEPT ![f] = Over(text[f], pos, piece)]
      /\ handle' = [handle EXCEPT ![c] = next]
  BY <1>0, <1>2, <1>3 DEF WriteRow, WritePiece
<1>6. next.file = f /\ next.pos \in Nat /\ next.pieces \in Seq(Seq(Cell(f, clock)))
  BY <1>2, <1>4
<1> HIDE DEF next
<1>7. Over(text[f], pos, piece) \in Seq(Cell(f, clock))
  <2>1. Hole \in Cell(f, clock)
    BY <1>1, <1>2, CellGrows DEF TypeFacts
  <2> QED
    BY <1>2, <1>4, <2>1, OverCells
<1>8. \A w \in Client \ {c} : Unmoved(w)
  BY <1>1, <1>2, <1>5 DEF Unmoved, TypeFacts, Domains, request
<1>9. pc'[c] = "write" /\ change'[c] = change[c] /\ handle'[c] = next /\ clock' = clock
  BY <1>1, <1>2, <1>5 DEF TypeFacts, Domains, request
<1>10. RequestOK(c)'
  BY <1>2, <1>9 DEF TypeInv, RequestOK, Busy
<1>11. HandleOK(c)' /\ GotOK(c)'
  <2>1. got'[c] = <<>>
    BY <1>2 DEF TypeInv, GotOK, request
  <2> QED
    BY <1>0, <1>6, <1>9, <2>1 DEF HandleOK, GotOK
<1>12. \A g \in File : text'[g] = text[g] \/ FileOK(g)'
  BY <1>1, <1>5, <1>7, <1>9 DEF FileOK, TypeFacts, Domains
<1>13. /\ pc' \in [Client -> {"idle", "read", "stamp", "open", "write", "fetch", "fetched"}]
       /\ change' \in [Client -> Changes \cup {NoChange}]
       /\ stamp' \in [Client -> 0 .. clock] /\ cursor' \in [Client -> 0 .. clock]
       /\ updates' \in 0 .. MaxUpdates /\ struck' \subseteq File /\ met' \in BOOLEAN
       /\ expected' = expected /\ Domains'
  BY <1>1, <1>2, <1>5 DEF TypeFacts, Domains, request, ghosts
<1> QED
  BY <1>8, <1>9, <1>10, <1>11, <1>12, <1>13, TypeStep

\* A fetch keeps the types.
LEMMA FetchTypes ==
    ASSUME TypeInv, NEW c \in Client, Fetch(c)
    PROVE  TypeInv'
<1>0. /\ pc[c] \in {"idle", "fetch"} /\ CanRead("subs", got[c])
      /\ rows' = [rows EXCEPT ![c] = Selected(c)]
      /\ pc' = [pc EXCEPT ![c] = "fetched"]
      /\ got' = [got EXCEPT ![c] = <<>>]
      /\ met' = (met \/ \E w \in Client : IsUpdating(w, "subs"))
      /\ UNCHANGED <<files, clock, change, stamp, cursor, updates, seen, expected, struck>>
  BY DEF Fetch, DropRead, MeetsFetch
<1>1. TypeFacts
  BY Facts
<1>2. \A w \in Client \ {c} : Unmoved(w)
  BY <1>0, <1>1 DEF Unmoved, TypeFacts, Domains, files
<1>3. PICK f : f = "subs"
  OBVIOUS
<1>4. f \in File /\ f \in Kinds
  BY <1>3, FilesAre DEF Kinds
<1>5. RowsIn(f, got[c]) \in Seq(AnyRow(f, clock))
  <2>1. got[c] \in Seq(Cell(f, clock)) /\ clock \in Nat
    <3>1. GotOK(c) /\ <<>> \in Seq(Cell(f, clock))
      BY DEF TypeInv
    <3> QED
      BY <1>0, <1>1, <1>3, <3>1 DEF GotOK, TypeFacts
  <2> QED
    BY <1>0, <1>3, <1>4, <2>1, RowsTyped
<1>6. Selected(c) \in Seq(AnyRow(f, clock))
  <2>1. PICK I : Selected(c) = ElementsAt(RowsIn(f, got[c]), I)
    BY <1>3 DEF Selected
  <2> QED
    BY <1>5, <2>1, SomeTyped
<1>7. /\ pc'[c] = "fetched" /\ change'[c] = NoChange /\ rows'[c] = Selected(c)
      /\ handle'[c] = Closed /\ clock' = clock /\ got'[c] = <<>>
  BY <1>0, <1>1 DEF TypeFacts, Domains, TypeInv, HandleOK, RequestOK, Busy, files
<1>8. RequestOK(c)' /\ GotOK(c)' /\ HandleOK(c)'
  BY <1>3, <1>6, <1>7 DEF RequestOK, GotOK, HandleOK, Busy
<1>9. /\ pc' \in [Client -> {"idle", "read", "stamp", "open", "write", "fetch", "fetched"}]
      /\ change' \in [Client -> Changes \cup {NoChange}]
      /\ Domains'
  BY <1>0, <1>1 DEF TypeFacts, Domains, files
<1>10. /\ stamp' \in [Client -> 0 .. clock] /\ cursor' \in [Client -> 0 .. clock]
       /\ updates' \in 0 .. MaxUpdates /\ struck' \subseteq File
       /\ text' = text /\ expected' = expected
  BY <1>0, <1>1 DEF TypeFacts, files
<1>11. met' \in BOOLEAN
  BY <1>0, <1>1 DEF TypeFacts
<1> QED
  BY <1>2, <1>7, <1>8, <1>9, <1>10, <1>11, TypeStep

\* The cursor is a time that has been.
LEMMA FetchEndTypes ==
    ASSUME TypeInv, NEW c \in Client, FetchEnd(c)
    PROVE  TypeInv'
<1>0. PICK times, next :
        /\ times = {row.created : row \in Range(rows[c])}
        /\ next = IF rows[c] = <<>> THEN clock ELSE Max(times)
  OBVIOUS
<1>a. /\ pc[c] = "fetched" /\ cursor' = [cursor EXCEPT ![c] = next] /\ Answer(c)
      /\ seen' = [seen EXCEPT ![c] = @ \cup Range(rows[c])]
      /\ UNCHANGED <<files, clock, updates, expected, struck, met>>
  BY <1>0 DEF FetchEnd
<1>1. TypeFacts
  BY Facts
<1>2. rows[c] \in Seq(AnyRow("subs", clock))
  BY <1>a DEF TypeInv, RequestOK
<1>3. next \in 0 .. clock
  <2>1. CASE rows[c] = <<>>
    BY <1>0, <1>1, <2>1 DEF TypeFacts
  <2>2. CASE rows[c] # <<>>
    <3>1. PICK k \in Nat : k = Len(rows[c]) /\ DOMAIN rows[c] = 1 .. k
      BY <1>2
    <3>2. 1 \in 1 .. k
      <4>1. k # 0
        BY <1>2, <2>2, <3>1
      <4> QED
        BY <4>1
    <3>3. \A row \in Range(rows[c]) : row.created \in 0 .. clock
      <4> SUFFICES ASSUME NEW n \in 1 .. k PROVE rows[c][n].created \in 0 .. clock
        BY <3>1 DEF Range
      <4>1. rows[c][n] \in AnyRow("subs", clock)
        BY <1>2, <3>1, ElementIn
      <4> QED
        BY <4>1 DEF AnyRow
    <3>4. times \in SUBSET (0 .. clock) /\ times # {}
      BY <1>0, <3>1, <3>2, <3>3 DEF Range
    <3>5. Max(times) \in times
      BY <1>1, <3>4, BoundedMax DEF TypeFacts
    <3> QED
      BY <1>0, <2>2, <3>4, <3>5
  <2> QED
    BY <2>1, <2>2
<1>4. cursor' \in [Client -> 0 .. clock]
  BY <1>a, <1>1, <1>3 DEF TypeFacts
<1>5. struck' \subseteq File /\ met' \in BOOLEAN
  BY <1>a, <1>1 DEF TypeFacts
<1> QED
  BY <1>a, <1>4, <1>5, AnswerTypes DEF files

\* The ends of requests keep the types.
LEMMA OtherTypes ==
    ASSUME TypeInv, NEW c \in Client,
           \/ ReadError(c) \/ UpdateEnd(c) \/ FetchError(c) \/ FetchLost(c)
           \/ CallFails(c) \/ WriteFails(c)
    PROVE  TypeInv'
<1>1. TypeFacts
  BY Facts
<1>2. CASE ReadError(c) \/ FetchError(c) \/ FetchLost(c) \/ CallFails(c)
  <2>1. /\ Answer(c) /\ pc[c] # "write"
        /\ UNCHANGED <<files, clock, cursor, updates, ghosts>>
    BY <1>2 DEF ReadError, FetchError, FetchLost, CallFails
  <2> QED
    BY <1>1, <2>1, AnswerTypes DEF files, ghosts, TypeFacts
<1>3. CASE UpdateEnd(c)
  BY <1>1, <1>3, AnswerTypes DEF UpdateEnd, Close, ghosts, TypeFacts
<1>4. CASE WriteFails(c)
  <2>1. change[c].file \in File
    BY <1>4, ChangeFile DEF WriteFails, TypeInv, RequestOK, Busy
  <2>2. struck' \subseteq File
    BY <1>1, <1>4, <2>1 DEF WriteFails, TypeFacts
  <2> QED
    BY <1>1, <1>4, <2>2, AnswerTypes DEF WriteFails, Close, TypeFacts
<1> QED
  BY <1>2, <1>3, <1>4

\* A restart keeps the types.
LEMMA RestartTypes ==
    ASSUME TypeInv, Restart
    PROVE  TypeInv'
<1>0. /\ handle' = [t \in Thread |-> Closed] /\ text' = text
      /\ struck' = struck \cup Unfinished
      /\ pc' = [c \in Client |-> "idle"] /\ change' = [c \in Client |-> NoChange]
      /\ got' = [c \in Client |-> <<>>]
      /\ rows' = [c \in Client |-> <<>>] /\ stamp' = [c \in Client |-> 0]
      /\ UNCHANGED <<clock, cursor, updates, seen, expected, met>>
  BY DEF Restart, CloseAll
<1>1. TypeFacts
  BY Facts
<1>2. Unfinished \subseteq File
  <2> SUFFICES ASSUME NEW c \in Client, handle[c].pieces # <<>> PROVE handle[c].file \in File
    BY DEF Unfinished, Client
  <2>1. handle[c] # Closed
    BY DEF Closed
  <2>2. pc[c] = "write" /\ handle[c].file = change[c].file
    BY <2>1 DEF TypeInv, HandleOK
  <2> QED
    BY <2>2, ChangeFile DEF TypeInv, RequestOK, Busy
<1>3. \A f \in File : FileOK(f)'
  BY <1>0 DEF TypeInv, FileOK
<1>4. \A c \in Client : RequestOK(c)' /\ GotOK(c)' /\ HandleOK(c)'
  BY <1>0 DEF RequestOK, GotOK, HandleOK, Busy, Client
<1>5. Domains'
  BY <1>0, <1>1 DEF TypeFacts, Domains, Client
<1>6. TypeOK'
  <2>1. \A c \in Client : handle'[c].file = NoFile /\ handle'[c].pos = 0
    BY <1>0 DEF Client, Closed
  <2>2. /\ pc' \in [Client -> {"idle", "read", "stamp", "open", "write", "fetch", "fetched"}]
        /\ change' \in [Client -> Changes \cup {NoChange}]
        /\ stamp' \in [Client -> 0 .. clock']
    BY <1>0, <1>1 DEF TypeFacts
  <2> QED
    BY <1>0, <1>2, <2>1, <2>2 DEF TypeInv, TypeOK
<1> QED
  BY <1>3, <1>4, <1>5, <1>6 DEF TypeInv

\* The type invariant holds at the start.
LEMMA TypeInit ==
    ASSUME Init
    PROVE  TypeInv
<1>0. /\ handle = [t \in Thread |-> Closed] /\ text = [f \in File |-> <<>>]
      /\ clock = 0 /\ struck = {} /\ met = FALSE /\ updates = 0
      /\ got = [t \in Thread |-> <<>>]
      /\ pc = [c \in Client |-> "idle"] /\ change = [c \in Client |-> NoChange]
      /\ rows = [c \in Client |-> <<>>] /\ stamp = [c \in Client |-> 0]
      /\ cursor = [c \in Client |-> 0] /\ seen = [c \in Client |-> {}]
      /\ expected = [f \in File |-> <<>>]
  BY DEF Init, InitFiles
<1>1. \A f \in File : FileOK(f) /\ expected[f] \in Seq(Row(f, clock))
  BY <1>0 DEF FileOK
<1>2. \A c \in Client : RequestOK(c) /\ GotOK(c) /\ HandleOK(c)
  BY <1>0 DEF RequestOK, GotOK, HandleOK, Busy, Client
<1>3. Domains
  BY <1>0 DEF Domains, Client
<1>4. TypeOK
  <2>1. \A c \in Client : handle[c].file = NoFile /\ handle[c].pos = 0
    BY <1>0 DEF Client, Closed
  <2>2. /\ clock \in Seconds /\ updates \in 0 .. MaxUpdates
        /\ stamp \in [Client -> 0 .. clock] /\ cursor \in [Client -> 0 .. clock]
    BY <1>0, DataAssumption DEF Seconds
  <2>3. /\ pc \in [Client -> {"idle", "read", "stamp", "open", "write", "fetch", "fetched"}]
        /\ change \in [Client -> Changes \cup {NoChange}]
        /\ struck \subseteq File /\ met \in BOOLEAN
    BY <1>0
  <2> QED
    BY <1>1, <2>1, <2>2, <2>3 DEF TypeOK
<1> QED
  BY <1>1, <1>2, <1>3, <1>4 DEF TypeInv

\* Every step keeps the type invariant.
LEMMA TypeNext ==
    ASSUME TypeInv, [Next]_vars
    PROVE  TypeInv'
<1>1. CASE UNCHANGED vars
  BY <1>1 DEF vars, files, request, ghosts, TypeInv, TypeOK, Domains, FileOK, RequestOK, GotOK, HandleOK, Busy
<1>2. CASE Tick
  BY <1>2, TickTypes
<1>3. ASSUME NEW c \in Client,
             \/ Update(c) \/ ReadMore(c) \/ Read(c) \/ ReadError(c) \/ Stamp(c)
             \/ OpenFile(c) \/ WriteRow(c) \/ UpdateEnd(c)
             \/ FetchMore(c) \/ Fetch(c) \/ FetchError(c) \/ FetchEnd(c) \/ FetchLost(c)
             \/ CallFails(c) \/ WriteFails(c)
      PROVE  TypeInv'
  BY <1>3, UpdateTypes, MoreTypes, ReadTypes, StampTypes, OpenTypes, WriteTypes, FetchTypes, FetchEndTypes,
     OtherTypes
<1>4. CASE Restart
  BY <1>4, RestartTypes
<1> QED
  BY <1>1, <1>2, <1>3, <1>4 DEF Next

\* In all states variables have their types: a row that was put together from the cells
\* of overlapping writes still has a time that has been, and no cursor is ahead of the
\* clock.
THEOREM TypeCorrect == Spec => []TypeOK
<1>1. Init => TypeInv
  BY TypeInit
<1>2. TypeInv /\ [Next]_vars => TypeInv'
  BY TypeNext
<1>3. TypeInv => TypeOK
  BY DEF TypeInv
<1> QED
  BY <1>1, <1>2, <1>3, PTL DEF Spec

-----------------------------------------------------------------------------
\* What a file holds, unless updates of it have overlapped or one was cut short

IsReading(w, f) == pc[w] = "read" /\ change[w].file = f
HasRead(w, f) == pc[w] \in {"stamp", "open"} /\ change[w].file = f
IsWriting(w, f) == pc[w] = "write" /\ change[w].file = f

\* One request at most changes the file. What it has read so far is where the file
\* begins; it has read all the rows, and the file holds what all updates have made;
\* or it writes, and the file holds the first pieces.
Kept(f) ==
    /\ \A v, w \in Client : IsUpdating(v, f) /\ IsUpdating(w, f) => v = w
    /\ \A w \in Client : IsReading(w, f) => Begins(got[w], text[f])
    /\ \A w \in Client : HasRead(w, f) => rows[w] = expected[f]
    /\ (\A w \in Client : ~IsWriting(w, f)) => text[f] = TextOf(f, expected[f])
    /\ \A w \in Client : IsWriting(w, f) =>
        WritingAs(Lines(f, expected[f]), text[f], handle[w].pos, handle[w].pieces, Cell(f, clock))

KeptInv == TypeInv /\ \A f \in File \ struck : Kept(f)

\* A request that does nothing about the file, or has read it and waits.
Aside(w, f) ==
    \/ Unmoved(w)
    \/ /\ ~IsWriting(w, f) /\ ~IsWriting(w, f)'
       /\ IsUpdating(w, f)' => IsUpdating(w, f)
       /\ HasRead(w, f)' => HasRead(w, f) /\ rows'[w] = rows[w]
       /\ IsReading(w, f)' => got'[w] = <<>>

\* Who updates has begun to read, has read or writes.
LEMMA UpdatingIs ==
    ASSUME NEW w, NEW f
    PROVE  IsUpdating(w, f) <=>
                \/ HasRead(w, f) \/ IsWriting(w, f)
                \/ IsReading(w, f) /\ got[w] # <<>>
BY DEF IsUpdating, HasRead, IsWriting, IsReading

\* Who reads and has not begun to update has read nothing yet.
LEMMA NothingRead ==
    ASSUME NEW w, NEW f, IsReading(w, f), ~IsUpdating(w, f)
    PROVE  got[w] = <<>> /\ \A s : Begins(got[w], s)
<1>1. got[w] = <<>>
  BY DEF IsReading, IsUpdating
<1> QED
  BY <1>1, BeginsEmpty

\* A file stays as its updates made it while nobody turns to it.
LEMMA KeptStays ==
    ASSUME NEW f, Kept(f), text'[f] = text[f], expected'[f] = expected[f],
           Cell(f, clock) \subseteq Cell(f, clock'), \A w \in Client : Aside(w, f)
    PROVE  Kept(f)'
<1>1. \A w \in Client : IsUpdating(w, f)' => IsUpdating(w, f)
  BY DEF Aside, Unmoved, IsUpdating
<1>2. \A w \in Client : IsWriting(w, f)' <=> IsWriting(w, f)
  BY DEF Aside, Unmoved, IsWriting
<1>3. \A w \in Client : HasRead(w, f)' => HasRead(w, f) /\ rows'[w] = rows[w]
  BY DEF Aside, Unmoved, HasRead
<1>4. \A v, w \in Client : IsUpdating(v, f)' /\ IsUpdating(w, f)' => v = w
  BY <1>1 DEF Kept
<1>5. \A w \in Client : HasRead(w, f)' => rows'[w] = expected'[f]
  BY <1>3 DEF Kept
<1>8. ASSUME NEW w \in Client, IsReading(w, f)' PROVE Begins(got'[w], text'[f])
  <2>1. CASE Unmoved(w)
    BY <1>8, <2>1 DEF Kept, Unmoved, IsReading
  <2>2. CASE ~Unmoved(w)
    BY <1>8, <2>2, BeginsEmpty DEF Aside
  <2> QED
    BY <2>1, <2>2
<1>6. (\A w \in Client : ~IsWriting(w, f)') => text'[f] = TextOf(f, expected'[f])
  BY <1>2 DEF Kept
<1>7. ASSUME NEW w \in Client, IsWriting(w, f)'
      PROVE  WritingAs(Lines(f, expected'[f]), text'[f], handle'[w].pos, handle'[w].pieces,
                       Cell(f, clock'))
  <2>1. IsWriting(w, f) /\ Unmoved(w)
    BY <1>2, <1>7 DEF Aside
  <2>2. WritingAs(Lines(f, expected[f]), text[f], handle[w].pos, handle[w].pieces, Cell(f, clock))
    BY <2>1 DEF Kept
  <2>3. handle'[w] = handle[w]
    BY <2>1 DEF Unmoved
  <2>4. WritingAs(Lines(f, expected[f]), text[f], handle[w].pos, handle[w].pieces, Cell(f, clock'))
    BY <2>2, WriteLarger
  <2> QED
    BY <2>3, <2>4
<1> QED
  BY <1>4, <1>5, <1>6, <1>7, <1>8 DEF Kept, IsUpdating, IsWriting, HasRead, IsReading

\* The other requests, and the files that c does not change.
LEMMA OthersAside ==
    ASSUME NEW f, NEW c \in Client, \A w \in Client \ {c} : Unmoved(w), Aside(c, f)
    PROVE  \A w \in Client : Aside(w, f)
BY DEF Aside

\* A request that updates another file, or none, leaves this one aside.
LEMMA Elsewhere ==
    ASSUME NEW c \in Client, NEW f, ~IsUpdating(c, f), change'[c].file # f
    PROVE  Aside(c, f)
BY DEF Aside, IsUpdating, IsWriting, HasRead, IsReading

\* While c updates a file, the others have read nothing of it.
LEMMA OnlyOne ==
    ASSUME NEW c \in Client, NEW f, Kept(f), IsUpdating(c, f),
           \A w \in Client \ {c} : Unmoved(w)
    PROVE  \A w \in Client \ {c} :
                /\ ~IsUpdating(w, f)' /\ ~HasRead(w, f)' /\ ~IsWriting(w, f)'
                /\ IsReading(w, f)' => \A s : Begins(got'[w], s)
<1> SUFFICES ASSUME NEW w \in Client \ {c}
             PROVE  /\ ~IsUpdating(w, f)' /\ ~HasRead(w, f)' /\ ~IsWriting(w, f)'
                    /\ IsReading(w, f)' => \A s : Begins(got'[w], s)
  OBVIOUS
<1>1. ~IsUpdating(w, f)
  BY DEF Kept
<1>2. ~IsUpdating(w, f)' /\ ~HasRead(w, f)' /\ ~IsWriting(w, f)'
  BY <1>1 DEF Unmoved, IsUpdating, HasRead, IsWriting
<1>3. IsReading(w, f)' => got'[w] = <<>>
  BY <1>2 DEF IsReading, IsUpdating
<1> QED
  BY <1>2, <1>3, BeginsEmpty

\* If no time passes, the cells are the same.
LEMMA NowIsNow ==
    ASSUME clock' = clock, NEW f
    PROVE  Cell(f, clock) \subseteq Cell(f, clock')
OBVIOUS

\* Time that passes leaves a file as its updates made it.
LEMMA TickKept ==
    ASSUME KeptInv, Tick, NEW f \in File \ struck'
    PROVE  Kept(f)'
<1>0. UNCHANGED <<files, request, cursor, updates, ghosts>> /\ clock' = clock + 1
  BY DEF Tick
<1>1. clock \in Nat
  BY Facts DEF KeptInv, TypeFacts
<1>2. Cell(f, clock) \subseteq Cell(f, clock')
  BY <1>0, <1>1, FilesAre, CellGrows
<1>3. Kept(f) /\ text' = text /\ expected' = expected
  BY <1>0 DEF KeptInv, ghosts, files
<1>4. \A w \in Client : Aside(w, f)
  BY <1>0 DEF Aside, Unmoved, files, request
<1> QED
  BY <1>2, <1>3, <1>4, KeptStays

\* What is read is all that the updates have made.
LEMMA ReadKept ==
    ASSUME KeptInv, NEW c \in Client, Read(c), NEW f \in File \ struck'
    PROVE  Kept(f)'
<1>0. PICK g : g = change[c].file
  OBVIOUS
<1>a. /\ pc[c] = "read" /\ AtEnd(c, g)
      /\ rows' = [rows EXCEPT ![c] = RowsIn(g, got[c])]
      /\ pc' = [pc EXCEPT ![c] = IF g = "subs" THEN "stamp" ELSE "open"]
      /\ got' = [got EXCEPT ![c] = <<>>]
      /\ struck' = IF \E w \in Client \ {c} : IsUpdating(w, g) THEN struck \cup {g}
                   ELSE struck
      /\ UNCHANGED <<files, clock, change, stamp, expected>>
  BY <1>0 DEF Read, DropRead, Meets
<1>1. TypeFacts
  BY Facts DEF KeptInv
<1>2. Kept(f) /\ text' = text
  BY <1>a DEF KeptInv, files
<1>3. \A w \in Client \ {c} : Unmoved(w)
  BY <1>a, <1>1 DEF Unmoved, TypeFacts, Domains, files
<1>4. /\ pc'[c] \in {"stamp", "open"} /\ change' = change /\ rows'[c] = RowsIn(g, got[c])
      /\ expected' = expected
  BY <1>a, <1>1 DEF TypeFacts, Domains
<1>5. CASE f # g
  <2>1. ~IsUpdating(c, f) /\ change'[c].file # f
    BY <1>0, <1>4, <1>5 DEF IsUpdating
  <2> QED
    BY <1>2, <1>3, <1>4, <1>a, <2>1, Elsewhere, OthersAside, NowIsNow, KeptStays
<1>6. CASE f = g
  <2>1. \A w \in Client \ {c} : ~IsUpdating(w, f)
    BY <1>a, <1>6
  <2>2. \A w \in Client : ~IsWriting(w, f)
    BY <1>a, <2>1 DEF IsWriting, IsUpdating
  <2>3. text[f] = TextOf(f, expected[f])
    BY <1>2, <2>2 DEF Kept
  <2>4. RowsIn(f, got[c]) = expected[f]
    <3>1. expected[f] \in Seq(Row(f, clock)) /\ f \in Kinds /\ clock \in Nat
      BY <1>1, FilesAre DEF KeptInv, TypeInv, TypeOK, TypeFacts
    <3>2. RoundTrip(f, expected[f], TextOf(f, expected[f]))
      BY <3>1, RoundTrips
    <3>3. text[f] \in Seq(Cell(f, clock)) /\ got[c] \in Seq(Cell(f, clock))
      BY <1>0, <1>6, <1>a DEF KeptInv, TypeInv, FileOK, GotOK
    <3>4. Begins(got[c], text[f]) /\ Len(text[f]) <= Len(got[c])
      BY <1>0, <1>2, <1>6, <1>a DEF Kept, IsReading, AtEnd
    <3>5. got[c] = text[f]
      BY <3>3, <3>4, BeginsAll
    <3> QED
      BY <2>3, <3>2, <3>5 DEF RoundTrip
  <2>5. \A w \in Client \ {c} : ~IsUpdating(w, f)' /\ ~HasRead(w, f)' /\ ~IsWriting(w, f)'
    BY <1>3, <2>1 DEF IsUpdating, IsWriting, HasRead, Unmoved
  <2>6. \A w \in Client : ~IsWriting(w, f)'
    BY <1>4, <2>5 DEF IsWriting
  <2>7. ASSUME NEW w \in Client, IsReading(w, f)' PROVE Begins(got'[w], text'[f])
    <3>1. w # c
      BY <1>4, <2>7 DEF IsReading
    <3> QED
      BY <1>2, <1>3, <2>7, <3>1 DEF Kept, Unmoved, IsReading
  <2>8. \A w \in Client : HasRead(w, f)' => rows'[w] = expected'[f]
    BY <1>4, <1>6, <2>4, <2>5
  <2>9. \A v, w \in Client : IsUpdating(v, f)' /\ IsUpdating(w, f)' => v = w
    BY <2>5
  <2> QED
    BY <1>2, <1>4, <2>3, <2>6, <2>7, <2>8, <2>9
       DEF Kept, IsUpdating, IsWriting, HasRead, IsReading
<1> QED
  BY <1>5, <1>6

\* What is read is where the file begins, as nobody else updates it.
LEMMA MoreKept ==
    ASSUME KeptInv, NEW c \in Client, ReadMore(c), NEW f \in File \ struck'
    PROVE  Kept(f)'
<1>0. PICK g : g = change[c].file
  OBVIOUS
<1>a. /\ pc[c] = "read" /\ ReadSome(c, g)
      /\ struck' = IF \E w \in Client \ {c} : IsUpdating(w, g) THEN struck \cup {g}
                   ELSE struck
      /\ UNCHANGED <<files, clock, pc, change, rows, stamp, expected>>
  BY <1>0 DEF ReadMore, Meets
<1>1. TypeFacts
  BY Facts DEF KeptInv
<1>2. Kept(f) /\ text' = text
  BY <1>a DEF KeptInv, files
<1>3. PICK next :
        next = got[c] \o SubSeq(text[g], Len(got[c]) + 1, Min({Len(got[c]) + Buffer, Len(text[g])}))
  OBVIOUS
<1>4. got' = [got EXCEPT ![c] = next] /\ Len(got[c]) < Len(text[g])
  BY <1>a, <1>1, <1>3 DEF ReadSome, TypeFacts, Domains
<1>5. \A w \in Client \ {c} : Unmoved(w)
  BY <1>a, <1>1, <1>4 DEF Unmoved, TypeFacts, Domains, files
<1>6. UNCHANGED <<clock, pc, change, rows, handle, expected>> /\ got'[c] = next
  BY <1>a, <1>1, <1>4 DEF TypeFacts, Domains, files
<1>7. CASE f # g
  <2>1. ~IsUpdating(c, f) /\ change'[c].file # f
    BY <1>0, <1>6, <1>7 DEF IsUpdating
  <2> QED
    BY <1>2, <1>5, <1>6, <2>1, Elsewhere, OthersAside, NowIsNow, KeptStays
<1>8. CASE f = g
  <2>1. \A w \in Client \ {c} : ~IsUpdating(w, f)
    BY <1>a, <1>8
  <2>2. \A w \in Client \ {c} : ~IsUpdating(w, f)'
    BY <1>5, <2>1 DEF IsUpdating, Unmoved
  <2>3. Begins(next, text[f])
    <3>1. text[f] \in Seq(Cell(f, clock)) /\ got[c] \in Seq(Cell(f, clock))
      BY <1>0, <1>8, <1>a DEF KeptInv, TypeInv, FileOK, GotOK
    <3>2. Begins(got[c], text[f])
      BY <1>0, <1>2, <1>8, <1>a DEF Kept, IsReading
    <3> QED
      BY <1>3, <1>4, <1>8, <3>1, <3>2, TextFileAssumption, ReadOn
  <2>4. ASSUME NEW w \in Client, IsReading(w, f)' PROVE Begins(got'[w], text'[f])
    <3>1. CASE w = c
      BY <1>2, <1>6, <2>3, <3>1
    <3>2. CASE w # c
      BY <1>2, <1>5, <2>4, <3>2 DEF Kept, Unmoved, IsReading
    <3> QED
      BY <3>1, <3>2
  <2>5. \A v, w \in Client : IsUpdating(v, f)' /\ IsUpdating(w, f)' => v = w
    BY <2>2
  <2>6. \A w \in Client : /\ IsWriting(w, f)' <=> IsWriting(w, f)
                         /\ HasRead(w, f)' <=> HasRead(w, f)
    BY <1>6 DEF IsWriting, HasRead
  <2> QED
    BY <1>2, <1>6, <2>4, <2>5, <2>6 DEF Kept, IsUpdating, IsWriting, HasRead, IsReading
<1> QED
  BY <1>7, <1>8

\* The time is taken once more, and the rows are kept.
LEMMA StampKept ==
    ASSUME KeptInv, NEW c \in Client, Stamp(c), NEW f \in File \ struck'
    PROVE  Kept(f)'
<1>0. /\ pc[c] = "stamp" /\ pc' = [pc EXCEPT ![c] = "open"]
      /\ stamp' = [stamp EXCEPT ![c] = clock]
      /\ UNCHANGED <<files, got, clock, change, rows, ghosts>>
  BY DEF Stamp
<1>1. TypeFacts
  BY Facts DEF KeptInv
<1>2. \A w \in Client \ {c} : Unmoved(w)
  BY <1>0, <1>1 DEF Unmoved, TypeFacts, files
<1>3. Aside(c, f)
  BY <1>0, <1>1 DEF Aside, IsWriting, IsUpdating, HasRead, IsReading, TypeFacts
<1>4. Kept(f) /\ text' = text /\ expected' = expected /\ clock' = clock
  BY <1>0 DEF KeptInv, ghosts, files
<1> QED
  BY <1>2, <1>3, <1>4, OthersAside, NowIsNow, KeptStays

\* The update is made of all that there was before.
LEMMA OpenKept ==
    ASSUME KeptInv, NEW c \in Client, OpenFile(c), NEW f \in File \ struck'
    PROVE  Kept(f)'
<1>0. PICK g, new, all :
        /\ g = change[c].file /\ new = Updated(rows[c], change[c], stamp[c])
        /\ all = Lines(g, new)
  OBVIOUS
<1>a. /\ pc[c] = "open" /\ Open(c, g, all)
      /\ expected' = [expected EXCEPT ![g] = Updated(@, change[c], stamp[c])]
      /\ pc' = [pc EXCEPT ![c] = "write"] /\ rows' = [rows EXCEPT ![c] = <<>>]
      /\ UNCHANGED <<got, clock, change, stamp, struck>>
  BY <1>0 DEF OpenFile
<1>b. /\ handle' = [handle EXCEPT ![c] = [file |-> g, pos |-> 0, pieces |-> all]]
      /\ text' = [text EXCEPT ![g] = <<>>]
  BY <1>a DEF Open
<1>1. TypeFacts
  BY Facts DEF KeptInv
<1>2. Kept(f)
  BY <1>a DEF KeptInv
<1>3. \A w \in Client \ {c} : Unmoved(w)
  BY <1>a, <1>b, <1>1 DEF Unmoved, TypeFacts, Domains
<1>4. CASE f # g
  <2>1. ~IsUpdating(c, f) /\ change'[c].file # f
    BY <1>0, <1>4, <1>a DEF IsUpdating
  <2>2. text'[f] = text[f] /\ expected'[f] = expected[f] /\ clock' = clock
    BY <1>1, <1>4, <1>a, <1>b DEF TypeFacts, Domains
  <2> QED
    BY <1>2, <1>3, <2>1, <2>2, Elsewhere, OthersAside, NowIsNow, KeptStays
<1>5. CASE f = g
  <2>1. IsUpdating(c, f) /\ ~IsWriting(c, f)
    BY <1>0, <1>5, <1>a DEF IsUpdating, IsWriting
  <2>2. \A w \in Client \ {c} :
            /\ ~IsUpdating(w, f)' /\ ~HasRead(w, f)' /\ ~IsWriting(w, f)'
            /\ IsReading(w, f)' => \A s : Begins(got'[w], s)
    BY <1>2, <1>3, <2>1, OnlyOne
  <2>4. rows[c] = expected[f]
    BY <1>0, <1>2, <1>5, <1>a DEF Kept, HasRead
  <2>5. expected'[f] = new
    BY <1>0, <1>1, <1>5, <1>a, <2>4 DEF TypeFacts, Domains
  <2>6. text'[f] = <<>> /\ handle'[c].pos = 0 /\ handle'[c].pieces = all
    BY <1>1, <1>5, <1>b DEF TypeFacts, Domains
  <2>7. all \in Seq(Seq(Cell(f, clock)))
    <3>1. /\ change[c] \in Change /\ f = change[c].file /\ f \in Kinds
          /\ rows[c] \in Seq(AnyRow(f, clock)) /\ clock \in Nat /\ stamp[c] \in 0 .. clock
      BY <1>0, <1>1, <1>5, <1>a, ChangeFile DEF KeptInv, TypeInv, RequestOK, Busy, TypeFacts
    <3>2. new \in Seq(AnyRow(f, clock))
      BY <1>0, <3>1, UpdatedTyped
    <3> QED
      BY <1>0, <1>5, <3>1, <3>2, TextTyped
  <2>8. WritingAs(all, <<>>, 0, all, Cell(f, clock))
    BY <2>7, WriteStarts
  <2>9. IsWriting(c, f)'
    BY <1>0, <1>1, <1>5, <1>a DEF IsWriting, TypeFacts
  <2>10. \A w \in Client : IsUpdating(w, f)' => w = c
    BY <2>2
  <2>11. \A w \in Client : IsWriting(w, f)' => w = c
    BY <2>2
  <2>13. \A w \in Client : ~HasRead(w, f)'
    BY <2>2, <2>9 DEF HasRead, IsWriting
  <2>14. \A w \in Client : IsReading(w, f)' => Begins(got'[w], text'[f])
    BY <2>2, <2>9 DEF IsReading, IsWriting
  <2>12. WritingAs(Lines(f, expected'[f]), text'[f], handle'[c].pos, handle'[c].pieces, Cell(f, clock'))
    BY <1>0, <1>5, <1>a, <2>5, <2>6, <2>8
  <2> QED
    BY <2>9, <2>10, <2>11, <2>12, <2>13, <2>14
       DEF Kept, IsUpdating, IsWriting, HasRead, IsReading
<1> QED
  BY <1>4, <1>5

\* A piece that is written keeps what is to be shown of each file not struck.
LEMMA WriteKept ==
    ASSUME KeptInv, NEW c \in Client, WriteRow(c), NEW f \in File \ struck'
    PROVE  Kept(f)'
<1>0. PICK g, pos, pieces :
        g = change[c].file /\ pos = handle[c].pos /\ pieces = handle[c].pieces
  OBVIOUS
<1>1. TypeFacts
  BY Facts DEF KeptInv
<1>2. /\ pc[c] = "write" /\ pieces # <<>>
      /\ UNCHANGED <<clock, request, ghosts>>
      /\ g \in File /\ handle[c].file = g
      /\ pieces \in Seq(Seq(Cell(g, clock)))
  <2>1. pc[c] = "write" /\ pieces # <<>> /\ UNCHANGED <<clock, request, ghosts>>
    BY <1>0 DEF WriteRow, WritePiece
  <2>2. g \in File
    BY <1>0, <2>1, ChangeFile DEF KeptInv, TypeInv, RequestOK, Busy
  <2> QED
    BY <1>0, <2>1, <2>2 DEF KeptInv, TypeInv, HandleOK
<1>3. PICK piece : piece = Head(pieces)
  OBVIOUS
<1>4. PICK next :
        /\ next = [file |-> g, pos |-> pos + Len(piece), pieces |-> Tail(pieces)]
        /\ text' = [text EXCEPT ![g] = Over(text[g], pos, piece)]
        /\ handle' = [handle EXCEPT ![c] = next]
  BY <1>0, <1>2, <1>3 DEF WriteRow, WritePiece
<1>5. next.pos = pos + Len(piece) /\ next.pieces = Tail(pieces)
  BY <1>4
<1>6. \A w \in Client \ {c} : Unmoved(w)
  BY <1>1, <1>2, <1>4 DEF Unmoved, TypeFacts, Domains, request
<1>7. Kept(f) /\ UNCHANGED <<got, pc, change, rows, expected, clock>>
  BY <1>2 DEF KeptInv, ghosts, request
<1>8. CASE f # g
  <2>1. ~IsUpdating(c, f) /\ change'[c].file # f
    BY <1>0, <1>7, <1>8 DEF IsUpdating
  <2>2. text'[f] = text[f]
    BY <1>1, <1>4, <1>8 DEF TypeFacts, Domains
  <2> QED
    BY <1>6, <1>7, <2>1, <2>2, Elsewhere, OthersAside, NowIsNow, KeptStays
<1>9. CASE f = g
  <2>1. IsWriting(c, f) /\ IsUpdating(c, f) /\ IsWriting(c, f)'
    BY <1>0, <1>2, <1>7, <1>9 DEF IsWriting, IsUpdating
  <2>0. \A w \in Client \ {c} :
            /\ ~IsUpdating(w, f)' /\ ~HasRead(w, f)' /\ ~IsWriting(w, f)'
            /\ IsReading(w, f)' => \A s : Begins(got'[w], s)
    BY <1>6, <1>7, <2>1, OnlyOne
  <2>2. \A w \in Client : IsUpdating(w, f)' => w = c
    BY <2>0
  <2>3. \A w \in Client : IsWriting(w, f)' => w = c
    BY <2>0
  <2>8. \A w \in Client : ~HasRead(w, f)'
    BY <2>0, <2>1 DEF HasRead, IsWriting
  <2>9. \A w \in Client : IsReading(w, f)' => Begins(got'[w], text'[f])
    BY <2>0, <2>1 DEF IsReading, IsWriting
  <2>4. WritingAs(Lines(f, expected[f]), text[f], pos, pieces, Cell(f, clock))
    BY <1>0, <1>7, <2>1 DEF Kept
  <2>5. WritingAs(Lines(f, expected[f]), Over(text[f], pos, piece), pos + Len(piece),
                  Tail(pieces), Cell(f, clock))
    BY <1>2, <1>3, <1>9, <2>4, WriteGoesOn
  <2>6. handle'[c] = next /\ text'[f] = Over(text[f], pos, piece)
    BY <1>1, <1>4, <1>9 DEF TypeFacts, Domains
  <2>7. WritingAs(Lines(f, expected'[f]), text'[f], handle'[c].pos, handle'[c].pieces, Cell(f, clock'))
    BY <1>5, <1>7, <2>5, <2>6
  <2> QED
    BY <2>1, <2>2, <2>3, <2>7, <2>8, <2>9 DEF Kept, IsUpdating, IsWriting, HasRead, IsReading
<1> QED
  BY <1>8, <1>9

\* All is written.
LEMMA UpdateEndKept ==
    ASSUME KeptInv, NEW c \in Client, UpdateEnd(c), NEW f \in File \ struck'
    PROVE  Kept(f)'
<1>0. /\ pc[c] = "write" /\ handle[c].pieces = <<>>
      /\ handle' = [handle EXCEPT ![c] = Closed] /\ text' = text
      /\ Answer(c) /\ UNCHANGED <<clock, ghosts>>
  BY DEF UpdateEnd, Close
<1>1. TypeFacts
  BY Facts DEF KeptInv
<1>2. \A w \in Client \ {c} : Unmoved(w)
  BY <1>0, <1>1 DEF Unmoved, TypeFacts, Domains, Answer, DropRead
<1>3. Kept(f) /\ UNCHANGED <<text, expected, clock>> /\ pc'[c] = "idle"
  BY <1>0, <1>1 DEF KeptInv, ghosts, TypeFacts, Answer, DropRead
<1>4. ~IsUpdating(c, f)' /\ ~IsWriting(c, f)' /\ ~HasRead(c, f)' /\ ~IsReading(c, f)'
  BY <1>3 DEF IsUpdating, IsWriting, HasRead, IsReading
<1>5. CASE change[c].file # f
  <2>1. Aside(c, f)
    BY <1>4, <1>5 DEF Aside, IsWriting
  <2> QED
    BY <1>2, <1>3, <2>1, OthersAside, NowIsNow, KeptStays
<1>6. CASE change[c].file = f
  <2>1. IsWriting(c, f) /\ IsUpdating(c, f)
    BY <1>0, <1>6 DEF IsWriting, IsUpdating
  <2>2. text[f] = TextOf(f, expected[f])
    <3>1. WritingAs(Lines(f, expected[f]), text[f], handle[c].pos, <<>>, Cell(f, clock))
      BY <1>0, <1>3, <2>1 DEF Kept
    <3> QED
      BY <3>1, WriteEnds DEF TextOf
  <2>0. \A w \in Client \ {c} :
            /\ ~IsUpdating(w, f)' /\ ~HasRead(w, f)' /\ ~IsWriting(w, f)'
            /\ IsReading(w, f)' => \A s : Begins(got'[w], s)
    BY <1>2, <1>3, <2>1, OnlyOne
  <2>3. \A w \in Client : ~IsUpdating(w, f)' /\ ~HasRead(w, f)' /\ ~IsWriting(w, f)'
    BY <1>4, <2>0
  <2>4. \A w \in Client : IsReading(w, f)' => Begins(got'[w], text'[f])
    BY <1>4, <2>0
  <2> QED
    BY <1>3, <2>2, <2>3, <2>4 DEF Kept, IsUpdating, IsWriting, HasRead, IsReading
<1> QED
  BY <1>5, <1>6

\* Steps of requests that have not opened a file, and a write that fails.
LEMMA OtherKept ==
    ASSUME KeptInv, NEW c \in Client, NEW f \in File \ struck',
           \/ Update(c) \/ ReadError(c) \/ FetchMore(c) \/ Fetch(c) \/ FetchError(c)
           \/ FetchEnd(c) \/ FetchLost(c) \/ CallFails(c) \/ WriteFails(c)
    PROVE  Kept(f)'
<1>1. TypeFacts
  BY Facts DEF KeptInv
<1>2. CASE \/ Update(c) \/ ReadError(c) \/ FetchMore(c) \/ Fetch(c) \/ FetchError(c)
           \/ FetchEnd(c) \/ FetchLost(c) \/ CallFails(c)
  <2>1. pc[c] # "write" /\ UNCHANGED <<files, clock, expected, struck>>
    BY <1>2 DEF Update, ReadError, FetchMore, Fetch, FetchError, FetchEnd, FetchLost, CallFails,
       ghosts
  <2>2. \A w \in Client \ {c} : Unmoved(w)
    BY <1>1, <1>2, <2>1 DEF Update, ReadError, FetchMore, ReadSome, Fetch, FetchError, FetchEnd,
       FetchLost, CallFails, Answer, DropRead, Unmoved, TypeFacts, Domains, files
  <2>3. pc'[c] \in {"idle", "read", "fetch", "fetched"}
    BY <1>1, <1>2 DEF Update, ReadError, FetchMore, Fetch, FetchError, FetchEnd, FetchLost,
       CallFails, Answer, TypeFacts
  <2>4. pc'[c] = "read" => got'[c] = <<>>
    <3>1. CASE Update(c)
      BY <3>1 DEF Update, KeptInv, TypeInv, GotOK
    <3>2. CASE ~Update(c)
      BY <1>1, <1>2, <3>2 DEF ReadError, FetchMore, Fetch, FetchError, FetchEnd, FetchLost,
         CallFails, Answer, TypeFacts
    <3> QED
      BY <3>1, <3>2
  <2>5. Aside(c, f)
    BY <2>1, <2>3, <2>4 DEF Aside, IsUpdating, IsWriting, HasRead, IsReading
  <2>6. Kept(f) /\ text' = text /\ expected' = expected /\ clock' = clock
    BY <2>1 DEF KeptInv, files
  <2> QED
    BY <2>2, <2>5, <2>6, OthersAside, NowIsNow, KeptStays
<1>3. CASE WriteFails(c)
  <2>1. /\ pc[c] = "write" /\ handle' = [handle EXCEPT ![c] = Closed] /\ text' = text
        /\ struck' = struck \cup {change[c].file} /\ Answer(c)
        /\ UNCHANGED <<clock, expected>>
    BY <1>3 DEF WriteFails, Close
  <2>2. \A w \in Client \ {c} : Unmoved(w)
    BY <1>1, <2>1 DEF Answer, DropRead, Unmoved, TypeFacts, Domains
  <2>3. f # change[c].file /\ pc'[c] = "idle"
    BY <1>1, <2>1 DEF Answer, DropRead, TypeFacts
  <2>4. Aside(c, f)
    BY <2>3 DEF Aside, IsUpdating, IsWriting, HasRead, IsReading
  <2>5. Kept(f)
    BY <2>1 DEF KeptInv
  <2> QED
    BY <2>1, <2>2, <2>4, <2>5, OthersAside, NowIsNow, KeptStays
<1> QED
  BY <1>2, <1>3

\* A file that is not struck was not being written, or had been written to its end.
LEMMA RestartKept ==
    ASSUME KeptInv, Restart, NEW f \in File \ struck'
    PROVE  Kept(f)'
<1>0. /\ text' = text /\ struck' = struck \cup Unfinished
      /\ pc' = [c \in Client |-> "idle"] /\ UNCHANGED <<clock, expected>>
  BY DEF Restart, CloseAll
<1>1. Kept(f) /\ f \notin Unfinished
  BY <1>0 DEF KeptInv
<1>2. text[f] = TextOf(f, expected[f])
  <2>1. ASSUME NEW w \in Client, IsWriting(w, f) PROVE text[f] = TextOf(f, expected[f])
    <3>1. handle[w].file = f
      BY <2>1 DEF IsWriting, KeptInv, TypeInv, HandleOK
    <3>2. handle[w].pieces = <<>>
      BY <1>1, <3>1 DEF Unfinished, Client
    <3>3. WritingAs(Lines(f, expected[f]), text[f], handle[w].pos, <<>>, Cell(f, clock))
      BY <1>1, <2>1, <3>2 DEF Kept
    <3> QED
      BY <3>3, WriteEnds DEF TextOf
  <2>2. CASE \A w \in Client : ~IsWriting(w, f)
    BY <1>1, <2>2 DEF Kept
  <2> QED
    BY <2>1, <2>2
<1>3. \A w \in Client : pc'[w] = "idle"
  BY <1>0
<1> QED
  BY <1>0, <1>2, <1>3 DEF Kept, IsUpdating, IsWriting, HasRead, IsReading

\* The invariant about files holds at the start.
LEMMA KeptInit ==
    ASSUME Init
    PROVE  KeptInv
<1>1. /\ text = [f \in File |-> <<>>] /\ expected = [f \in File |-> <<>>]
      /\ pc = [c \in Client |-> "idle"]
  BY DEF Init, InitFiles
<1>2. \A f \in File : text[f] = TextOf(f, expected[f])
  BY <1>1, NoLines, FlatEmpty DEF TextOf
<1> QED
  BY <1>1, <1>2, TypeInit DEF KeptInv, Kept, IsUpdating, IsWriting, HasRead, IsReading

\* Every step keeps the invariant about files.
LEMMA KeptNext ==
    ASSUME KeptInv, [Next]_vars
    PROVE  KeptInv'
<1>1. TypeInv'
  BY TypeNext DEF KeptInv
<1>2. ASSUME NEW f \in File \ struck' PROVE Kept(f)'
  <2>1. CASE UNCHANGED vars
    <3>1. Kept(f)
      BY <2>1 DEF vars, ghosts, KeptInv
    <3> QED
      BY <2>1, <3>1 DEF vars, files, request, ghosts, Kept, IsUpdating, IsWriting, HasRead,
         IsReading
  <2>2. CASE Tick
    BY <2>2, TickKept
  <2>3. ASSUME NEW c \in Client,
               \/ Update(c) \/ ReadMore(c) \/ Read(c) \/ ReadError(c) \/ Stamp(c)
               \/ OpenFile(c) \/ WriteRow(c) \/ UpdateEnd(c)
               \/ FetchMore(c) \/ Fetch(c) \/ FetchError(c) \/ FetchEnd(c) \/ FetchLost(c)
               \/ CallFails(c) \/ WriteFails(c)
        PROVE  Kept(f)'
    BY <2>3, MoreKept, ReadKept, StampKept, OpenKept, WriteKept, UpdateEndKept, OtherKept
  <2>4. CASE Restart
    BY <2>4, RestartKept
  <2> QED
    BY <2>1, <2>2, <2>3, <2>4 DEF Next
<1> QED
  BY <1>1, <1>2 DEF KeptInv

\* With the invariant about files, no update is lost.
LEMMA KeptMeans ==
    ASSUME KeptInv
    PROVE  UpdatesKept
<1> SUFFICES ASSUME NEW f \in File \ struck, Writing(f) = {}
             PROVE  /\ CanRead(f, text[f]) <=> HasText(f, expected[f])
                    /\ HasText(f, expected[f]) => RowsIn(f, text[f]) = expected[f]
  BY DEF UpdatesKept
<1>1. \A w \in Client : ~IsWriting(w, f)
  BY WriterIs DEF KeptInv, IsWriting, Writing, Client
<1>2. text[f] = TextOf(f, expected[f])
  BY <1>1 DEF KeptInv, Kept
<1>3. expected[f] \in Seq(Row(f, clock)) /\ f \in Kinds /\ clock \in Nat
  BY Facts, FilesAre DEF KeptInv, TypeInv, TypeOK, TypeFacts
<1>4. RoundTrip(f, expected[f], TextOf(f, expected[f]))
  BY <1>3, RoundTrips
<1> QED
  BY <1>2, <1>4 DEF RoundTrip

\* A file that nobody writes holds what all its updates made one after the other, for any
\* updates, contents and numbers of clients, unless two of its updates overlapped or one
\* was cut short: read_ and write of devices.txt, subs.txt and episodes.txt lose nothing.
THEOREM NothingLost == Spec => []UpdatesKept
<1>1. Init => KeptInv
  BY KeptInit
<1>2. KeptInv /\ [Next]_vars => KeptInv'
  BY KeptNext
<1>3. KeptInv => UpdatesKept
  BY KeptMeans
<1> QED
  BY <1>1, <1>2, <1>3, PTL DEF Spec

-----------------------------------------------------------------------------
\* What clients are told of subscriptions

IsFetching(c) == pc[c] \in {"fetch", "fetched"}

FetchesAlone == \A c, w \in Client : ~(IsFetching(c) /\ IsUpdating(w, "subs"))

\* What a fetch has read so far is where the file begins.
SoFar == \A c \in Client : pc[c] = "fetch" => Begins(got[c], text["subs"])

\* c adds rows with its stamp.
IsAdding(c) == pc[c] = "open" /\ change[c].file = "subs"

Stamped == \A c, w \in Client : IsAdding(w) => cursor[c] <= stamp[w]

Fetched ==
    \A c \in Client : pc[c] = "fetched" =>
        Range(rows[c]) = {row \in Range(expected["subs"]) :
                            row.device = DeviceOf[c] /\ row.created >= cursor[c]}

IsTold(c, row) == row.device = DeviceOf[c] => row \in seen[c] \/ row.created >= cursor[c]

AllTold == \A c \in Client : \A row \in Range(expected["subs"]) : IsTold(c, row)

SubsInv ==
    /\ ~met => FetchesAlone /\ Stamped /\ SoFar
    /\ ~met /\ "subs" \notin struck => Fetched /\ AllTold

SyncInv == KeptInv /\ SubsInv

\* A request that reads or adds no subscriptions in this step.
Quiet(w) ==
    /\ pc'[w] = "fetch" => pc[w] = "fetch" /\ got'[w] = got[w]
    /\ pc'[w] = "fetched" => pc[w] = "fetched" /\ rows'[w] = rows[w]
    /\ IsUpdating(w, "subs")' => IsUpdating(w, "subs")
    /\ IsAdding(w)' => IsAdding(w) /\ stamp'[w] = stamp[w]

\* What clients were told stays enough while no fetch or update turns to it.
LEMMA SubsStays ==
    ASSUME SubsInv, met => met', struck \subseteq struck',
           expected'["subs"] = expected["subs"], UNCHANGED <<cursor, seen>>,
           text'["subs"] = text["subs"] \/ \E w \in Client : IsUpdating(w, "subs"),
           \A w \in Client : Quiet(w)
    PROVE  SubsInv'
<1>1. ASSUME ~met' PROVE FetchesAlone' /\ Stamped' /\ SoFar'
  <2>1. ~met /\ FetchesAlone /\ Stamped /\ SoFar
    BY <1>1 DEF SubsInv
  <2>2. FetchesAlone'
    BY <2>1 DEF FetchesAlone, IsFetching, Quiet
  <2>3. Stamped'
    BY <2>1 DEF Stamped, Quiet
  <2>4. SoFar'
    <3>1. CASE text'["subs"] = text["subs"]
      BY <2>1, <3>1 DEF SoFar, Quiet
    <3>2. CASE \E w \in Client : IsUpdating(w, "subs")
      <4>1. \A w \in Client : pc[w] # "fetch"
        BY <2>1, <3>2 DEF FetchesAlone, IsFetching
      <4> QED
        BY <4>1 DEF SoFar, Quiet
    <3> QED
      BY <3>1, <3>2
  <2> QED
    BY <2>2, <2>3, <2>4
<1>2. ASSUME ~met', "subs" \notin struck' PROVE Fetched' /\ AllTold'
  <2>1. Fetched /\ AllTold
    BY <1>2 DEF SubsInv
  <2>2. Fetched'
    BY <2>1 DEF Fetched, Quiet
  <2>3. AllTold'
    BY <2>1 DEF AllTold, IsTold
  <2> QED
    BY <2>2, <2>3
<1> QED
  BY <1>1, <1>2 DEF SubsInv

\* A request that does not move does not turn to the subscriptions.
LEMMA UnmovedQuiet ==
    ASSUME NEW w, Unmoved(w)
    PROVE  Quiet(w)
BY DEF Unmoved, Quiet, IsUpdating, IsAdding

\* Steps that have nothing to do with subscriptions, or only end a request.
LEMMA OtherSubs ==
    ASSUME SyncInv,
           \/ Tick \/ Restart
           \/ \E c \in Client : \/ Update(c) \/ ReadError(c) \/ WriteRow(c) \/ UpdateEnd(c)
                                \/ FetchError(c) \/ FetchLost(c) \/ CallFails(c)
                                \/ WriteFails(c)
    PROVE  SubsInv'
<1>1. TypeFacts
  BY Facts DEF SyncInv, KeptInv
<1>2. CASE Tick
  <2>1. UNCHANGED <<files, request, cursor, ghosts>>
    BY <1>2 DEF Tick
  <2>2. \A w \in Client : Unmoved(w)
    BY <2>1 DEF Unmoved, files, request
  <2> QED
    BY <2>1, <2>2, UnmovedQuiet, SubsStays DEF SyncInv, ghosts, files
<1>3. CASE Restart
  <2>1. /\ pc' = [c \in Client |-> "idle"] /\ struck \subseteq struck'
        /\ UNCHANGED <<text, cursor, seen, expected, met>>
    BY <1>3 DEF Restart, CloseAll
  <2>2. \A w \in Client : Quiet(w)
    BY <2>1 DEF Quiet, IsUpdating, IsAdding
  <2> QED
    BY <2>1, <2>2, SubsStays DEF SyncInv
<1>4. ASSUME NEW c \in Client,
             \/ Update(c) \/ ReadError(c) \/ WriteRow(c) \/ UpdateEnd(c)
             \/ FetchError(c) \/ FetchLost(c) \/ CallFails(c) \/ WriteFails(c)
      PROVE  SubsInv'
  <2>1. struck \subseteq struck' /\ UNCHANGED <<cursor, seen, expected, met>>
    BY <1>4 DEF Update, ReadError, WriteRow, UpdateEnd, FetchError, FetchLost, CallFails,
       WriteFails, ghosts
  <2>2. \A w \in Client \ {c} : /\ pc'[w] = pc[w] /\ change'[w] = change[w]
                                /\ rows'[w] = rows[w] /\ stamp'[w] = stamp[w]
                                /\ got'[w] = got[w]
    BY <1>1, <1>4 DEF Update, ReadError, WriteRow, UpdateEnd, FetchError, FetchLost, CallFails,
       WriteFails, Answer, DropRead, request, TypeFacts, Domains
  <2>3. \A w \in Client \ {c} : Quiet(w)
    BY <2>2 DEF Quiet, IsUpdating, IsAdding
  <2>4. Quiet(c)
    <3>1. CASE WriteRow(c)
      BY <3>1 DEF WriteRow, request, Quiet, IsUpdating, IsAdding
    <3>2. CASE ~WriteRow(c)
      <4>1. pc'[c] \in {"idle", "read"}
        BY <1>1, <1>4, <3>2 DEF Update, ReadError, UpdateEnd, FetchError, FetchLost, CallFails,
           WriteFails, Answer, TypeFacts
      <4>2. pc'[c] = "read" => got'[c] = <<>>
        <5>1. CASE Update(c)
          BY <5>1 DEF Update, SyncInv, KeptInv, TypeInv, GotOK
        <5>2. CASE ~Update(c)
          BY <1>1, <1>4, <3>2, <5>2 DEF ReadError, UpdateEnd, FetchError, FetchLost, CallFails,
             WriteFails, Answer, TypeFacts
        <5> QED
          BY <5>1, <5>2
      <4> QED
        BY <4>1, <4>2 DEF Quiet, IsUpdating, IsAdding
    <3> QED
      BY <3>1, <3>2
  <2>5. text'["subs"] = text["subs"] \/ \E w \in Client : IsUpdating(w, "subs")
    <3>1. CASE WriteRow(c)
      <4>1. PICK cells : text' = [text EXCEPT ![handle[c].file] = cells]
        BY <3>1 DEF WriteRow, WritePiece
      <4>2. pc[c] = "write"
        BY <3>1 DEF WriteRow
      <4>3. handle[c].file = change[c].file
        BY <4>2 DEF SyncInv, KeptInv, TypeInv, HandleOK
      <4>4. CASE change[c].file = "subs"
        BY <4>2, <4>4 DEF IsUpdating
      <4>5. CASE change[c].file # "subs"
        BY <1>1, <4>1, <4>3, <4>5 DEF TypeFacts, Domains
      <4> QED
        BY <4>4, <4>5
    <3>2. CASE ~WriteRow(c)
      BY <1>4, <3>2 DEF Update, ReadError, UpdateEnd, FetchError, FetchLost, CallFails, WriteFails,
         Close, files
    <3> QED
      BY <3>1, <3>2
  <2> QED
    BY <2>1, <2>3, <2>4, <2>5, SubsStays DEF SyncInv
<1> QED
  BY <1>2, <1>3, <1>4

\* An update that reads subscriptions meets the fetches that are going on.
LEMMA ReadSubs ==
    ASSUME SyncInv, NEW c \in Client, Read(c) \/ ReadMore(c)
    PROVE  SubsInv'
<1>0. PICK g : g = change[c].file
  OBVIOUS
<1>a. /\ pc[c] = "read" /\ Meets(c)
      /\ UNCHANGED <<files, change, stamp, cursor, seen, expected>>
  BY DEF Read, ReadMore
<1>b. \/ pc' = pc /\ rows' = rows
      \/ /\ pc' = [pc EXCEPT ![c] = IF g = "subs" THEN "stamp" ELSE "open"]
         /\ rows' = [rows EXCEPT ![c] = RowsIn(g, got[c])]
  BY <1>0 DEF Read, ReadMore
<1>c. met' = (met \/ (g = "subs" /\ \E w \in Client : IsFetching(w)))
  BY <1>0, <1>a DEF Meets, IsFetching
<1>1. TypeFacts
  BY Facts DEF SyncInv, KeptInv
<1>2. \A w \in Client \ {c} : Unmoved(w)
  BY <1>a, <1>b, <1>1 DEF Read, ReadMore, ReadSome, DropRead, Unmoved, TypeFacts, Domains, files
<1>3. \A w \in Client \ {c} : Quiet(w)
  BY <1>2, UnmovedQuiet
<1>4. struck \subseteq struck' /\ (met => met') /\ text' = text
  BY <1>a, <1>c DEF Meets, files
<1>5. pc'[c] \in {"read", IF g = "subs" THEN "stamp" ELSE "open"}
  BY <1>a, <1>b, <1>1 DEF TypeFacts
<1>6. CASE g # "subs"
  <2>1. change'[c].file # "subs"
    BY <1>0, <1>a, <1>6
  <2>2. Quiet(c)
    BY <1>5, <2>1 DEF Quiet, IsUpdating, IsAdding
  <2> QED
    BY <1>3, <1>4, <1>a, <2>2, SubsStays DEF SyncInv
<1>7. CASE g = "subs"
  <2>1. ~IsAdding(c)'
    BY <1>5, <1>7 DEF IsAdding
  <2>2. ASSUME ~met' PROVE FetchesAlone' /\ Stamped' /\ SoFar'
    <3>1. ~met /\ \A w \in Client : ~IsFetching(w)
      BY <1>c, <1>7, <2>2
    <3>2. \A w \in Client : pc'[w] \notin {"fetch", "fetched"}
      BY <1>2, <1>5, <1>7, <3>1 DEF Unmoved, IsFetching
    <3>3. FetchesAlone' /\ SoFar'
      BY <3>2 DEF FetchesAlone, IsFetching, SoFar
    <3>4. Stamped
      BY <3>1 DEF SyncInv, SubsInv
    <3>5. Stamped'
      BY <1>3, <1>a, <2>1, <3>4 DEF Stamped, Quiet
    <3> QED
      BY <3>3, <3>5
  <2>3. ASSUME ~met', "subs" \notin struck' PROVE Fetched' /\ AllTold'
    <3>1. Fetched /\ AllTold
      BY <1>4, <2>3 DEF SyncInv, SubsInv
    <3>2. AllTold'
      BY <1>a, <3>1 DEF AllTold, IsTold
    <3>3. Fetched'
      BY <1>3, <1>5, <1>7, <1>a, <3>1 DEF Fetched, Quiet
    <3> QED
      BY <3>2, <3>3
  <2> QED
    BY <2>2, <2>3 DEF SubsInv
<1> QED
  BY <1>6, <1>7

\* The time of a row is taken when no fetch can pass it.
LEMMA StampSubs ==
    ASSUME SyncInv, NEW c \in Client, Stamp(c)
    PROVE  SubsInv'
<1>0. /\ pc[c] = "stamp" /\ pc' = [pc EXCEPT ![c] = "open"]
      /\ stamp' = [stamp EXCEPT ![c] = clock]
      /\ UNCHANGED <<files, got, clock, change, rows, cursor, ghosts>>
  BY DEF Stamp
<1>1. TypeFacts
  BY Facts DEF SyncInv, KeptInv
<1>2. \A w \in Client \ {c} : Unmoved(w)
  BY <1>0, <1>1 DEF Unmoved, TypeFacts, files
<1>3. \A w \in Client \ {c} : Quiet(w)
  BY <1>2, UnmovedQuiet
<1>4. pc'[c] = "open" /\ stamp'[c] = clock
  BY <1>0, <1>1 DEF TypeFacts
<1>5. IsUpdating(c, "subs")' => IsUpdating(c, "subs")
  BY <1>0 DEF IsUpdating
<1>6. UNCHANGED <<seen, expected, struck, met, change, cursor, text>>
  BY <1>0 DEF ghosts, files
<1>7. ASSUME ~met' PROVE FetchesAlone' /\ Stamped' /\ SoFar'
  <2>1. FetchesAlone /\ Stamped /\ SoFar
    BY <1>6, <1>7 DEF SyncInv, SubsInv
  <2>2. FetchesAlone'
    BY <1>3, <1>4, <1>5, <2>1 DEF FetchesAlone, IsFetching, Quiet
  <2>5. SoFar'
    BY <1>3, <1>4, <1>6, <2>1 DEF SoFar, Quiet
  <2>3. \A v \in Client : cursor[v] <= stamp'[c]
    BY <1>1, <1>4 DEF TypeFacts
  <2>4. Stamped'
    BY <1>3, <1>6, <2>1, <2>3 DEF Stamped, Quiet
  <2> QED
    BY <2>2, <2>4, <2>5
<1>8. ASSUME ~met', "subs" \notin struck' PROVE Fetched' /\ AllTold'
  <2>1. Fetched /\ AllTold
    BY <1>6, <1>8 DEF SyncInv, SubsInv
  <2>2. AllTold'
    BY <1>6, <2>1 DEF AllTold, IsTold
  <2>3. Fetched'
    BY <1>3, <1>4, <1>6, <2>1 DEF Fetched, Quiet
  <2> QED
    BY <2>2, <2>3
<1> QED
  BY <1>7, <1>8 DEF SubsInv

\* What is added is not older than any cursor.
LEMMA OpenSubs ==
    ASSUME SyncInv, NEW c \in Client, OpenFile(c)
    PROVE  SubsInv'
<1>0. PICK g : g = change[c].file
  OBVIOUS
<1>a. /\ pc[c] = "open" /\ Open(c, g, Lines(g, Updated(rows[c], change[c], stamp[c])))
      /\ expected' = [expected EXCEPT ![g] = Updated(@, change[c], stamp[c])]
      /\ pc' = [pc EXCEPT ![c] = "write"] /\ rows' = [rows EXCEPT ![c] = <<>>]
      /\ UNCHANGED <<got, clock, change, stamp, cursor, updates, seen, struck, met>>
  BY <1>0 DEF OpenFile
<1>1. TypeFacts
  BY Facts DEF SyncInv, KeptInv
<1>2. \A w \in Client \ {c} : Unmoved(w)
  BY <1>a, <1>1 DEF Unmoved, TypeFacts, Domains, Open
<1>3. \A w \in Client \ {c} : Quiet(w)
  BY <1>2, UnmovedQuiet
<1>4. pc'[c] = "write"
  BY <1>a, <1>1 DEF TypeFacts
<1>5. Quiet(c)
  BY <1>4, <1>a DEF Quiet, IsUpdating, IsAdding
<1>6. CASE g # "subs"
  <2>1. expected'["subs"] = expected["subs"] /\ text'["subs"] = text["subs"]
    BY <1>a, <1>1, <1>6 DEF Open, TypeFacts, Domains
  <2> QED
    BY <1>3, <1>5, <1>a, <2>1, SubsStays DEF SyncInv
<1>7. CASE g = "subs"
  <2>1. ASSUME ~met' PROVE FetchesAlone' /\ Stamped' /\ SoFar'
    <3>1. FetchesAlone /\ Stamped
      BY <1>a, <2>1 DEF SyncInv, SubsInv
    <3>2. FetchesAlone'
      BY <1>3, <1>5, <3>1 DEF FetchesAlone, IsFetching, Quiet
    <3>3. Stamped'
      BY <1>3, <1>5, <1>a, <3>1 DEF Stamped, Quiet
    <3>4. IsUpdating(c, "subs")
      BY <1>0, <1>a, <1>7 DEF IsUpdating
    <3>5. \A w \in Client : pc[w] # "fetch"
      BY <3>1, <3>4 DEF FetchesAlone, IsFetching
    <3>6. SoFar'
      BY <1>3, <1>5, <3>5 DEF SoFar, Quiet
    <3> QED
      BY <3>2, <3>3, <3>6
  <2>2. ASSUME ~met', "subs" \notin struck' PROVE Fetched' /\ AllTold'
    <3>1. FetchesAlone /\ Stamped /\ Fetched /\ AllTold
      BY <1>a, <2>2 DEF SyncInv, SubsInv
    <3>2. IsUpdating(c, "subs") /\ IsAdding(c)
      BY <1>0, <1>a, <1>7 DEF IsUpdating, IsAdding
    <3>3. \A w \in Client : pc'[w] # "fetched"
      BY <1>2, <1>4, <3>1, <3>2 DEF FetchesAlone, IsFetching, Unmoved
    <3>4. Fetched'
      BY <3>3 DEF Fetched
    <3>5. PICK old, new : /\ old = expected["subs"]
                          /\ new = UpdatedSubs(old, change[c], stamp[c])
      OBVIOUS
    <3>6. expected'["subs"] = new
      <4>1. Updated(old, change[c], stamp[c]) = UpdatedSubs(old, change[c], stamp[c])
        BY <1>0, <1>7 DEF Updated
      <4>2. "subs" \in DOMAIN expected
        BY <1>1, FilesAre DEF TypeFacts, Domains, Kinds
      <4> QED
        BY <1>a, <1>7, <3>5, <4>1, <4>2
    <3>7. \A row \in Range(new) : row \in Range(old) \/ row.created = stamp[c]
      <4>1. change[c] \in Change /\ change[c].file = "subs"
        BY <1>0, <1>7, <1>a, ChangeFile DEF SyncInv, KeptInv, TypeInv, RequestOK, Busy
      <4>2. PICK R : R = [device : Device, created : 0 .. clock, url : Seq(Url)]
        OBVIOUS
      <4>3. old \in Seq(R)
        <5>1. "subs" \in File
          BY FilesAre DEF Kinds
        <5>2. R = Row("subs", clock)
          BY <4>2 DEF Row
        <5> QED
          BY <3>5, <5>1, <5>2 DEF SyncInv, KeptInv, TypeInv, TypeOK
      <4>4. stamp[c] \in 0 .. clock /\ clock \in Nat
        BY <1>1 DEF TypeFacts
      <4>5. SubsUpdated(old, change[c], stamp[c], R)
        BY <4>1, <4>2, <4>3, <4>4, SubsTyped
      <4> QED
        BY <3>5, <4>5 DEF SubsUpdated
    <3>8. ASSUME NEW v \in Client, NEW row \in Range(new) PROVE IsTold(v, row)'
      <4>1. CASE row \in Range(old)
        BY <1>a, <3>1, <3>5, <4>1 DEF AllTold, IsTold
      <4>2. CASE row.created = stamp[c]
        <5>1. cursor[v] <= stamp[c] /\ cursor[v] \in Nat /\ stamp[c] \in Nat
          BY <1>1, <3>1, <3>2 DEF Stamped, TypeFacts
        <5>2. row.created >= cursor[v]
          BY <4>2, <5>1
        <5> QED
          BY <1>a, <5>2 DEF IsTold
      <4> QED
        BY <3>7, <4>1, <4>2
    <3>9. AllTold'
      BY <3>6, <3>8 DEF AllTold
    <3> QED
      BY <3>4, <3>9
  <2> QED
    BY <2>1, <2>2 DEF SubsInv
<1> QED
  BY <1>6, <1>7

\* What is fetched is all of the device that is not older than the cursor.
LEMMA FetchSubs ==
    ASSUME SyncInv, NEW c \in Client, Fetch(c)
    PROVE  SubsInv'
<1>0. /\ pc[c] \in {"idle", "fetch"} /\ AtEnd(c, "subs")
      /\ rows' = [rows EXCEPT ![c] = Selected(c)]
      /\ pc' = [pc EXCEPT ![c] = "fetched"]
      /\ got' = [got EXCEPT ![c] = <<>>]
      /\ met' = (met \/ \E w \in Client : IsUpdating(w, "subs"))
      /\ UNCHANGED <<files, clock, change, stamp, cursor, updates, seen, expected, struck>>
  BY DEF Fetch, DropRead, MeetsFetch
<1>1. TypeFacts
  BY Facts DEF SyncInv, KeptInv
<1>2. \A w \in Client \ {c} : Unmoved(w)
  BY <1>0, <1>1 DEF Unmoved, TypeFacts, Domains, files
<1>3. \A w \in Client \ {c} : Quiet(w)
  BY <1>2, UnmovedQuiet
<1>4. pc'[c] = "fetched" /\ rows'[c] = Selected(c)
  BY <1>0, <1>1 DEF TypeFacts, Domains
<1>5. ~IsUpdating(c, "subs")' /\ ~IsAdding(c)'
  BY <1>4 DEF IsUpdating, IsAdding
<1>6. ASSUME ~met' PROVE FetchesAlone' /\ Stamped' /\ SoFar'
  <2>1. ~met /\ \A w \in Client : ~IsUpdating(w, "subs")
    BY <1>0, <1>6
  <2>2. \A w \in Client : ~IsUpdating(w, "subs")'
    BY <1>3, <1>5, <2>1 DEF Quiet
  <2>3. Stamped /\ SoFar
    BY <2>1 DEF SyncInv, SubsInv
  <2>4. Stamped'
    BY <1>0, <1>3, <1>5, <2>3 DEF Stamped, Quiet
  <2>5. SoFar'
    BY <1>0, <1>3, <1>4, <2>3 DEF SoFar, Quiet, files
  <2> QED
    BY <2>2, <2>4, <2>5 DEF FetchesAlone
<1>7. ASSUME ~met', "subs" \notin struck' PROVE Fetched' /\ AllTold'
  <2>1. Fetched /\ AllTold /\ "subs" \notin struck /\ \A w \in Client : ~IsUpdating(w, "subs")
    BY <1>0, <1>7 DEF SyncInv, SubsInv
  <2>2. AllTold'
    BY <1>0, <2>1 DEF AllTold, IsTold
  <2>3. PICK f, all : f = "subs" /\ all = expected[f]
    OBVIOUS
  <2>4. f \in File /\ f \in Kinds /\ clock \in Nat /\ all \in Seq(Row(f, clock))
    <3>1. f \in File /\ f \in Kinds
      BY <2>3, FilesAre DEF Kinds
    <3> QED
      BY <1>1, <2>3, <3>1 DEF SyncInv, KeptInv, TypeInv, TypeOK, TypeFacts
  <2>5. text[f] = TextOf(f, all)
    <3>1. Kept(f)
      BY <2>1, <2>3, <2>4 DEF SyncInv, KeptInv
    <3>2. \A w \in Client : ~IsWriting(w, f)
      BY <2>1, <2>3 DEF IsWriting, IsUpdating
    <3> QED
      BY <2>3, <3>1, <3>2 DEF Kept
  <2>a. got[c] = text[f]
    <3>1. SoFar /\ GotOK(c)
      BY <1>0, <1>7 DEF SyncInv, SubsInv, KeptInv, TypeInv
    <3>2. Begins(got[c], text[f])
      BY <1>0, <2>3, <3>1, BeginsEmpty DEF SoFar, GotOK
    <3>3. text[f] \in Seq(Cell(f, clock))
      BY <2>4 DEF SyncInv, KeptInv, TypeInv, FileOK
    <3>4. Len(text[f]) <= Len(got[c])
      BY <1>0, <2>3 DEF AtEnd
    <3> QED
      BY <3>2, <3>3, <3>4, BeginsAll
  <2>6. RowsIn(f, got[c]) = all
    <3>1. RoundTrip(f, all, TextOf(f, all))
      BY <2>4, RoundTrips
    <3> QED
      BY <2>5, <2>a, <3>1 DEF RoundTrip
  <2>7. PICK I : I = {n \in DOMAIN all : all[n].device = DeviceOf[c] /\ all[n].created >= cursor[c]}
    OBVIOUS
  <2>8. Selected(c) = ElementsAt(all, I)
    BY <2>3, <2>6, <2>7 DEF Selected
  <2>9. Range(Selected(c)) = {all[n] : n \in I \cap DOMAIN all}
    BY <2>4, <2>8, SomeTyped
  <2>10. Range(Selected(c)) = {row \in Range(all) :
                                row.device = DeviceOf[c] /\ row.created >= cursor[c]}
    BY <2>7, <2>9 DEF Range
  <2>11. Fetched'
    BY <1>0, <1>3, <1>4, <2>1, <2>3, <2>10 DEF Fetched, Quiet
  <2> QED
    BY <2>2, <2>11
<1> QED
  BY <1>6, <1>7 DEF SubsInv

\* What a fetch reads is where the file begins, unless an update is going on.
LEMMA FetchMoreSubs ==
    ASSUME SyncInv, NEW c \in Client, FetchMore(c)
    PROVE  SubsInv'
<1>0. /\ pc[c] \in {"idle", "fetch"} /\ ReadSome(c, "subs")
      /\ pc' = [pc EXCEPT ![c] = "fetch"]
      /\ met' = (met \/ \E w \in Client : IsUpdating(w, "subs"))
      /\ UNCHANGED <<files, clock, change, rows, stamp, cursor, updates, seen, expected, struck>>
  BY DEF FetchMore, MeetsFetch
<1>1. TypeFacts
  BY Facts DEF SyncInv, KeptInv
<1>2. PICK f, next :
        /\ f = "subs"
        /\ next = got[c] \o SubSeq(text[f], Len(got[c]) + 1, Min({Len(got[c]) + Buffer, Len(text[f])}))
  OBVIOUS
<1>3. got' = [got EXCEPT ![c] = next] /\ Len(got[c]) < Len(text[f])
  BY <1>0, <1>1, <1>2 DEF ReadSome, TypeFacts, Domains
<1>4. \A w \in Client \ {c} : Unmoved(w)
  BY <1>0, <1>1, <1>3 DEF Unmoved, TypeFacts, Domains, files
<1>5. \A w \in Client \ {c} : Quiet(w)
  BY <1>4, UnmovedQuiet
<1>6. pc'[c] = "fetch" /\ got'[c] = next /\ text' = text
  BY <1>0, <1>1, <1>3 DEF TypeFacts, Domains, files
<1>7. ~IsUpdating(c, "subs")' /\ ~IsAdding(c)'
  BY <1>6 DEF IsUpdating, IsAdding
<1>8. ASSUME ~met' PROVE FetchesAlone' /\ Stamped' /\ SoFar'
  <2>1. ~met /\ \A w \in Client : ~IsUpdating(w, "subs")
    BY <1>0, <1>8
  <2>2. FetchesAlone'
    BY <1>5, <1>7, <2>1 DEF Quiet, FetchesAlone
  <2>3. Stamped /\ SoFar
    BY <2>1 DEF SyncInv, SubsInv
  <2>4. Stamped'
    BY <1>0, <1>5, <1>7, <2>3 DEF Stamped, Quiet
  <2>5. Begins(next, text[f])
    <3>1. f \in File
      BY <1>2, FilesAre DEF Kinds
    <3>2. text[f] \in Seq(Cell(f, clock)) /\ GotOK(c)
      BY <3>1 DEF SyncInv, KeptInv, TypeInv, FileOK
    <3>3. <<>> \in Seq(Cell(f, clock))
      OBVIOUS
    <3>4. got[c] \in Seq(Cell(f, clock)) /\ Begins(got[c], text[f])
      BY <1>0, <1>2, <2>3, <3>2, <3>3, BeginsEmpty DEF SoFar, GotOK
    <3> QED
      BY <1>2, <1>3, <3>2, <3>4, TextFileAssumption, ReadOn
  <2>6. SoFar'
    BY <1>2, <1>5, <1>6, <2>3, <2>5 DEF SoFar, Quiet
  <2> QED
    BY <2>2, <2>4, <2>6
<1>9. ASSUME ~met', "subs" \notin struck' PROVE Fetched' /\ AllTold'
  <2>1. Fetched /\ AllTold
    BY <1>0, <1>9 DEF SyncInv, SubsInv
  <2>2. AllTold'
    BY <1>0, <2>1 DEF AllTold, IsTold
  <2>3. Fetched'
    BY <1>0, <1>5, <1>6, <2>1 DEF Fetched, Quiet
  <2> QED
    BY <2>2, <2>3
<1> QED
  BY <1>8, <1>9 DEF SubsInv

\* The client is told of all it fetched, and goes on from there.
LEMMA FetchEndSubs ==
    ASSUME SyncInv, NEW c \in Client, FetchEnd(c)
    PROVE  SubsInv'
<1>0. PICK next :
        /\ pc[c] = "fetched" /\ cursor' = [cursor EXCEPT ![c] = next] /\ Answer(c)
        /\ seen' = [seen EXCEPT ![c] = @ \cup Range(rows[c])]
        /\ UNCHANGED <<files, clock, updates, expected, struck, met>>
  BY DEF FetchEnd
<1>1. TypeFacts
  BY Facts DEF SyncInv, KeptInv
<1>2. \A w \in Client \ {c} : Unmoved(w)
  BY <1>0, <1>1 DEF Unmoved, TypeFacts, Domains, Answer, DropRead, files
<1>3. \A w \in Client \ {c} : Quiet(w)
  BY <1>2, UnmovedQuiet
<1>4. pc'[c] = "idle"
  BY <1>0, <1>1 DEF TypeFacts, Answer, DropRead
<1>5. ~IsUpdating(c, "subs")' /\ ~IsAdding(c)'
  BY <1>4 DEF IsUpdating, IsAdding
<1>6. \A w \in Client \ {c} : cursor'[w] = cursor[w] /\ seen'[w] = seen[w]
  BY <1>0, <1>1 DEF TypeFacts, Domains
<1>7. seen'[c] = seen[c] \cup Range(rows[c])
  BY <1>0, <1>1 DEF TypeFacts, Domains
<1>8. ASSUME ~met' PROVE FetchesAlone' /\ Stamped' /\ SoFar'
  <2>1. FetchesAlone /\ Stamped /\ SoFar
    BY <1>0, <1>8 DEF SyncInv, SubsInv
  <2>2. \A w \in Client : ~IsUpdating(w, "subs")
    BY <1>0, <2>1 DEF FetchesAlone, IsFetching
  <2>5. SoFar'
    BY <1>0, <1>3, <1>4, <2>1 DEF SoFar, Quiet, files
  <2>3. \A w \in Client : ~IsUpdating(w, "subs")'
    BY <1>3, <1>5, <2>2 DEF Quiet
  <2>4. \A w \in Client : ~IsAdding(w)'
    BY <2>3 DEF IsUpdating, IsAdding
  <2> QED
    BY <2>3, <2>4, <2>5 DEF FetchesAlone, Stamped
<1>9. ASSUME ~met', "subs" \notin struck' PROVE Fetched' /\ AllTold'
  <2>1. Fetched /\ AllTold
    BY <1>0, <1>9 DEF SyncInv, SubsInv
  <2>2. Fetched'
    BY <1>0, <1>3, <1>4, <1>6, <2>1 DEF Fetched, Quiet
  <2>3. ASSUME NEW v \in Client, NEW row \in Range(expected["subs"]) PROVE IsTold(v, row)'
    <3>1. IsTold(v, row)
      BY <2>1 DEF AllTold
    <3>2. CASE v # c
      BY <1>6, <3>1, <3>2 DEF IsTold
    <3>3. CASE v = c
      <4>1. Range(rows[c]) = {r \in Range(expected["subs"]) :
                                r.device = DeviceOf[c] /\ r.created >= cursor[c]}
        BY <1>0, <2>1 DEF Fetched
      <4>2. row.device = DeviceOf[c] => row \in seen'[c]
        BY <1>7, <3>1, <3>3, <4>1 DEF IsTold
      <4> QED
        BY <3>3, <4>2 DEF IsTold
    <3> QED
      BY <3>2, <3>3
  <2>4. AllTold'
    BY <1>0, <2>3 DEF AllTold
  <2> QED
    BY <2>2, <2>4
<1> QED
  BY <1>8, <1>9 DEF SubsInv

\* The invariant about fetches holds at the start.
LEMMA SyncInit ==
    ASSUME Init
    PROVE  SyncInv
<1>1. /\ pc = [c \in Client |-> "idle"] /\ expected = [f \in File |-> <<>>]
  BY DEF Init
<1>2. Range(expected["subs"]) = {}
  <2>1. "subs" \in File
    BY FilesAre DEF Kinds
  <2> QED
    BY <1>1, <2>1 DEF Range
<1> QED
  BY <1>1, <1>2, KeptInit DEF SyncInv, SubsInv, FetchesAlone, IsFetching, Stamped,
     IsAdding, SoFar, Fetched, AllTold

\* Every step keeps the invariant about fetches.
LEMMA SyncNext ==
    ASSUME SyncInv, [Next]_vars
    PROVE  SyncInv'
<1>1. KeptInv'
  BY KeptNext DEF SyncInv
<1>2. CASE UNCHANGED vars
  <2>1. \A w \in Client : Unmoved(w)
    BY <1>2 DEF vars, files, request, Unmoved
  <2> QED
    BY <1>1, <1>2, <2>1, UnmovedQuiet, SubsStays DEF vars, ghosts, files, SyncInv
<1>3. CASE Tick \/ Restart
  BY <1>1, <1>3, OtherSubs DEF SyncInv
<1>4. ASSUME NEW c \in Client,
             \/ Update(c) \/ ReadMore(c) \/ Read(c) \/ ReadError(c) \/ Stamp(c)
             \/ OpenFile(c) \/ WriteRow(c) \/ UpdateEnd(c)
             \/ FetchMore(c) \/ Fetch(c) \/ FetchError(c) \/ FetchEnd(c) \/ FetchLost(c)
             \/ CallFails(c) \/ WriteFails(c)
      PROVE  SyncInv'
  BY <1>1, <1>4, OtherSubs, ReadSubs, StampSubs, OpenSubs, FetchMoreSubs, FetchSubs,
     FetchEndSubs DEF SyncInv
<1> QED
  BY <1>2, <1>3, <1>4 DEF Next

\* A subscription that a client was not told of is in its next fetch, `created >= since',
\* whatever answers were lost, unless a fetch ran while the file was rewritten.
THEOREM NothingMissed == Spec => []NoMissedAdd
<1>1. Init => SyncInv
  BY SyncInit
<1>2. SyncInv /\ [Next]_vars => SyncInv'
  BY SyncNext
<1>3. SyncInv => NoMissedAdd
  BY DEF SyncInv, SubsInv, AllTold, IsTold, NoMissedAdd
<1> QED
  BY <1>1, <1>2, <1>3, PTL DEF Spec
=============================================================================
