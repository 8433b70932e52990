----------------------------- MODULE Selection ------------------------------
(***************************************************************************)
(* What is left of a sequence when only some of its elements are taken,    *)
(* with a proof of what the recursion computes.  (SelectSeq is the same    *)
(* sequence, but the provers cannot expand it.)                            *)
(***************************************************************************)
EXTENDS Integers, Sequences, WellFoundedInduction, TLAPS

\* The elements of s that are in T, in the order of s.
Chosen(s, T) ==
  LET upTo[n \in 0 .. Len(s)] ==
        IF n = 0 THEN <<>>
        ELSE IF s[n] \in T THEN Append(upTo[n - 1], s[n]) ELSE upTo[n - 1]
  IN  upTo[Len(s)]

-----------------------------------------------------------------------------

\* Induction, stated of a set.
LEMMA SetInduction ==
  ASSUME NEW S \in SUBSET Nat, 0 \in S, \A n \in S : n + 1 \in S
  PROVE  S = Nat
<1> SUFFICES ASSUME S # Nat PROVE FALSE
  OBVIOUS
<1> DEFINE rest == Nat \ S
<1>1. rest \subseteq Nat /\ rest # {}
  OBVIOUS
<1>2. PICK x \in rest : \A y \in rest : ~(<<y, x>> \in OpToRel(<, Nat))
  <2> HIDE DEF rest
  <2> QED  BY <1>1, NatLessThanWellFounded, WFMin
<1>3. x \in Nat /\ x # 0 /\ x - 1 \in Nat
  OBVIOUS
<1>4. x - 1 \in rest
  <2>1. x - 1 \in S => x - 1 + 1 \in S
    OBVIOUS
  <2> QED  BY <1>3, <2>1
<1>5. <<x - 1, x>> \in OpToRel(<, Nat)
  BY <1>3 DEF OpToRel
<1> QED  BY <1>2, <1>4, <1>5

\* A table of the prefixes: upTo as a function on 0 .. m.
IsUpTo(f, s, T, m) ==
  /\ f = [n \in 0 .. m |-> f[n]]
  /\ f[0] = <<>>
  /\ \A n \in 1 .. m : f[n] = IF s[n] \in T THEN Append(f[n - 1], s[n]) ELSE f[n - 1]

\* The recursion of Chosen has a solution.
LEMMA UpToExists ==
  ASSUME NEW S, NEW s \in Seq(S), NEW T
  PROVE  \A m \in Nat : m <= Len(s) => \E f : IsUpTo(f, s, T, m)
<1> DEFINE M == {m \in Nat : m <= Len(s) => \E f : IsUpTo(f, s, T, m)}
<1>1. 0 \in M
  <2> DEFINE f == [n \in 0 .. 0 |-> <<>>]
  <2>1. IsUpTo(f, s, T, 0)
    BY DEF IsUpTo
  <2> QED  BY <2>1
<1>2. ASSUME NEW m \in M, m + 1 <= Len(s) PROVE \E f : IsUpTo(f, s, T, m + 1)
  <2>1. m \in Nat /\ Len(s) \in Nat
    OBVIOUS
  <2>2. PICK f : IsUpTo(f, s, T, m)
    BY <1>2, <2>1
  <2> DEFINE g == [n \in 0 .. m + 1 |->
                     IF n = m + 1
                     THEN IF s[m + 1] \in T THEN Append(f[m], s[m + 1]) ELSE f[m]
                     ELSE f[n]]
  <2>3. g = [n \in 0 .. m + 1 |-> g[n]] /\ g[0] = <<>>
    BY <2>1, <2>2 DEF IsUpTo
  <2>4. ASSUME NEW n \in 1 .. m + 1
        PROVE  g[n] = IF s[n] \in T THEN Append(g[n - 1], s[n]) ELSE g[n - 1]
    <3>1. CASE n = m + 1
      BY <2>1, <3>1
    <3>2. CASE n # m + 1
      <4>1. n \in 1 .. m /\ n - 1 \in 0 .. m
        BY <2>1, <3>2
      <4>2. g[n] = f[n] /\ g[n - 1] = f[n - 1]
        BY <2>1, <4>1
      <4> QED  BY <2>2, <4>1, <4>2 DEF IsUpTo
    <3> QED  BY <3>1, <3>2
  <2> HIDE DEF g
  <2>5. IsUpTo(g, s, T, m + 1)
    BY <2>3, <2>4 DEF IsUpTo
  <2> QED  BY <2>5
<1>3. \A m \in M : m + 1 \in M
  BY <1>2
<1> HIDE DEF M
<1>4. M = Nat
  <2>1. M \in SUBSET Nat
    BY DEF M
  <2> QED  BY <1>1, <1>3, <2>1, SetInduction
<1> QED  BY <1>4 DEF M
\* r is what the places e, in order, pick from the first m elements of s: the
\* places of the elements that are in T.
Picks(e, r, s, T, m) ==
  /\ e \in [1 .. Len(r) -> 1 .. m]
  /\ \A j, k \in 1 .. Len(r) : j < k => e[j] < e[k]
  /\ \A k \in 1 .. Len(r) : r[k] = s[e[k]] /\ s[e[k]] \in T
  /\ \A i \in 1 .. m : s[i] \in T => \E k \in 1 .. Len(r) : e[k] = i

\* One element more: it is picked if it is in T.
LEMMA PicksOneMore ==
  ASSUME NEW S, NEW s \in Seq(S), NEW T, NEW m \in Nat, m + 1 <= Len(s),
         NEW r \in Seq(S), NEW e, Picks(e, r, s, T, m),
         NEW q, q = IF s[m + 1] \in T THEN Append(r, s[m + 1]) ELSE r
  PROVE  q \in Seq(S) /\ \E d : Picks(d, q, s, T, m + 1)
<1>1. s[m + 1] \in S /\ Len(r) \in Nat
  OBVIOUS
<1>2. CASE s[m + 1] \notin T
  <2>1. q = r
    BY <1>2
  <2>2. Picks(e, r, s, T, m + 1)
    <3>1. e \in [1 .. Len(r) -> 1 .. m + 1]
      BY DEF Picks
    <3>2. \A i \in 1 .. m + 1 : s[i] \in T => i \in 1 .. m
      BY <1>2
    <3> QED  BY <3>1, <3>2 DEF Picks
  <2> QED  BY <2>1, <2>2
<1>3. CASE s[m + 1] \in T
  <2>1. q = Append(r, s[m + 1])
    BY <1>3
  <2>2. /\ q \in Seq(S) /\ Len(q) = Len(r) + 1 /\ q[Len(r) + 1] = s[m + 1]
        /\ \A k \in 1 .. Len(r) : q[k] = r[k]
    BY <1>1, <2>1
  <2> DEFINE d == [k \in 1 .. Len(r) + 1 |-> IF k = Len(r) + 1 THEN m + 1 ELSE e[k]]
  <2>3. \A k \in 1 .. Len(r) : e[k] \in 1 .. m
    BY DEF Picks
  <2>4. /\ d[Len(r) + 1] = m + 1
        /\ \A k \in 1 .. Len(r) : d[k] = e[k]
        /\ d \in [1 .. Len(r) + 1 -> 1 .. m + 1]
    BY <1>1, <2>3
  <2> HIDE DEF d
  <2>5. ASSUME NEW j \in 1 .. Len(r) + 1, NEW k \in 1 .. Len(r) + 1, j < k
        PROVE  d[j] < d[k]
    <3>1. j \in 1 .. Len(r)
      BY <1>1, <2>5
    <3>2. CASE k = Len(r) + 1
      BY <2>3, <2>4, <3>1, <3>2
    <3>3. CASE k \in 1 .. Len(r)
      BY <2>4, <2>5, <3>1, <3>3 DEF Picks
    <3> QED  BY <1>1, <3>2, <3>3
  <2>6. ASSUME NEW k \in 1 .. Len(r) + 1
        PROVE  q[k] = s[d[k]] /\ s[d[k]] \in T
    <3>1. CASE k = Len(r) + 1
      BY <1>3, <2>2, <2>4, <3>1
    <3>2. CASE k \in 1 .. Len(r)
      BY <2>2, <2>4, <3>2 DEF Picks
    <3> QED  BY <1>1, <3>1, <3>2
  <2>7. ASSUME NEW i \in 1 .. m + 1, s[i] \in T
        PROVE  \E k \in 1 .. Len(r) + 1 : d[k] = i
    <3>1. CASE i = m + 1
      BY <1>1, <2>4, <3>1
    <3>2. CASE i \in 1 .. m
      <4>1. PICK k \in 1 .. Len(r) : e[k] = i
        BY <2>7, <3>2 DEF Picks
      <4> QED  BY <1>1, <2>4, <4>1
    <3> QED  BY <3>1, <3>2
  <2>8. Picks(d, q, s, T, m + 1)
    BY <2>2, <2>4, <2>5, <2>6, <2>7 DEF Picks
  <2> QED  BY <2>2, <2>8
<1> QED  BY <1>2, <1>3

\* Chosen is the end of the table of the prefixes.
LEMMA ChosenUpTo ==
  ASSUME NEW S, NEW s \in Seq(S), NEW T
  PROVE  \E f : IsUpTo(f, s, T, Len(s)) /\ Chosen(s, T) = f[Len(s)]
<1>1. Len(s) \in Nat
  OBVIOUS
<1> DEFINE upTo == CHOOSE u : u = [n \in 0 .. Len(s) |->
                     IF n = 0 THEN <<>>
                     ELSE IF s[n] \in T THEN Append(u[n - 1], s[n]) ELSE u[n - 1]]
<1>2. Chosen(s, T) = upTo[Len(s)]
  BY DEF Chosen
<1>3. PICK f : IsUpTo(f, s, T, Len(s))
  BY <1>1, UpToExists
<1>4. f = [n \in 0 .. Len(s) |->
             IF n = 0 THEN <<>>
             ELSE IF s[n] \in T THEN Append(f[n - 1], s[n]) ELSE f[n - 1]]
  <2>1. \A n \in 0 .. Len(s) :
          f[n] = IF n = 0 THEN <<>>
                 ELSE IF s[n] \in T THEN Append(f[n - 1], s[n]) ELSE f[n - 1]
    BY <1>1, <1>3, SMTT(30) DEF IsUpTo
  <2> QED  BY <1>3, <2>1 DEF IsUpTo
<1>5. upTo = [n \in 0 .. Len(s) |->
                IF n = 0 THEN <<>>
                ELSE IF s[n] \in T THEN Append(upTo[n - 1], s[n]) ELSE upTo[n - 1]]
  BY <1>4
<1> HIDE DEF upTo
<1>6. /\ upTo[0] = <<>>
      /\ \A n \in 1 .. Len(s) :
           upTo[n] = IF s[n] \in T THEN Append(upTo[n - 1], s[n]) ELSE upTo[n - 1]
  <2>1. 0 \in 0 .. Len(s) /\ \A n \in 1 .. Len(s) : n \in 0 .. Len(s) /\ n # 0
    BY <1>1
  <2>2. \A n \in 0 .. Len(s) :
          upTo[n] = IF n = 0 THEN <<>>
                    ELSE IF s[n] \in T THEN Append(upTo[n - 1], s[n]) ELSE upTo[n - 1]
    BY <1>5, Zenon
  <2> QED  BY <2>1, <2>2, Zenon
<1>7. upTo = [n \in 0 .. Len(s) |-> upTo[n]]
  BY <1>5, Zenon
<1> QED  BY <1>2, <1>6, <1>7 DEF IsUpTo

\* What Chosen returns: the elements of s that are in T, each from a place of
\* its own, in the order of their places.
LEMMA ChosenIs ==
  ASSUME NEW S, NEW s \in Seq(S), NEW T
  PROVE  /\ Chosen(s, T) \in Seq(S)
         /\ \E e : Picks(e, Chosen(s, T), s, T, Len(s))
<1>1. Len(s) \in Nat
  OBVIOUS
<1>2. PICK upTo : IsUpTo(upTo, s, T, Len(s)) /\ Chosen(s, T) = upTo[Len(s)]
  BY ChosenUpTo
<1>6. /\ upTo[0] = <<>>
      /\ \A n \in 1 .. Len(s) :
           upTo[n] = IF s[n] \in T THEN Append(upTo[n - 1], s[n]) ELSE upTo[n - 1]
  BY <1>2 DEF IsUpTo
<1> DEFINE M == {m \in Nat : m <= Len(s) =>
                   upTo[m] \in Seq(S) /\ \E e : Picks(e, upTo[m], s, T, m)}
<1>7. 0 \in M
  <2>1. Picks(<<>>, <<>>, s, T, 0) /\ <<>> \in Seq(S)
    BY DEF Picks
  <2>2. \E e : Picks(e, <<>>, s, T, 0)
    BY <2>1, Zenon
  <2> QED  BY <1>6, <2>1, <2>2
<1>8. ASSUME NEW m \in M PROVE m + 1 \in M
  <2>1. SUFFICES ASSUME m + 1 <= Len(s)
                 PROVE  upTo[m + 1] \in Seq(S) /\ \E e : Picks(e, upTo[m + 1], s, T, m + 1)
    OBVIOUS
  <2>2. m \in Nat /\ m <= Len(s) /\ m + 1 \in 1 .. Len(s) /\ m + 1 - 1 = m
    BY <1>1, <2>1
  <2>3. upTo[m] \in Seq(S)
    BY <2>2
  <2>4. PICK e : Picks(e, upTo[m], s, T, m)
    BY <2>2
  <2>5. upTo[m + 1] = IF s[m + 1] \in T THEN Append(upTo[m], s[m + 1]) ELSE upTo[m]
    BY <1>6, <2>2
  <2> HIDE DEF M
  <2> QED  BY <2>1, <2>2, <2>3, <2>4, <2>5, PicksOneMore
<1> HIDE DEF M
<1>9. M = Nat
  <2>1. M \in SUBSET Nat
    BY DEF M
  <2> QED  BY <1>7, <1>8, <2>1, SetInduction
<1> QED  BY <1>1, <1>2, <1>9 DEF M

\* Tables of two sequences that begin alike, for sets that agree on them.
LEMMA UpToSame ==
  ASSUME NEW s, NEW r, NEW T, NEW U, NEW f, NEW g, NEW l \in Nat, NEW k \in Nat,
         IsUpTo(f, s, T, l), IsUpTo(g, r, U, k), NEW m \in Nat, m <= l, m <= k,
         \A i \in 1 .. m : s[i] = r[i] /\ (s[i] \in T <=> s[i] \in U)
  PROVE  f[m] = g[m]
<1> DEFINE M == {n \in Nat : n <= m => f[n] = g[n]}
<1>0. /\ \A j \in 1 .. l : f[j] = IF s[j] \in T THEN Append(f[j - 1], s[j]) ELSE f[j - 1]
      /\ \A j \in 1 .. k : g[j] = IF r[j] \in U THEN Append(g[j - 1], r[j]) ELSE g[j - 1]
  BY DEF IsUpTo
<1>1. 0 \in M
  BY DEF IsUpTo
<1>2. ASSUME NEW n \in M PROVE n + 1 \in M
  <2> SUFFICES ASSUME n + 1 <= m PROVE f[n + 1] = g[n + 1]
    OBVIOUS
  <2>1. n \in Nat /\ n + 1 \in 1 .. m /\ n + 1 \in 1 .. l /\ n + 1 \in 1 .. k /\ n + 1 - 1 = n
    OBVIOUS
  <2>2. f[n] = g[n]
    BY <2>1
  <2>3. f[n + 1] = IF s[n + 1] \in T THEN Append(f[n], s[n + 1]) ELSE f[n]
    BY <1>0, <2>1
  <2>4. g[n + 1] = IF r[n + 1] \in U THEN Append(g[n], r[n + 1]) ELSE g[n]
    BY <1>0, <2>1
  <2>5. s[n + 1] = r[n + 1] /\ (s[n + 1] \in T <=> s[n + 1] \in U)
    BY <2>1
  <2> HIDE DEF M
  <2> QED  BY <2>2, <2>3, <2>4, <2>5
<1> HIDE DEF M
<1>3. M = Nat
  <2>1. M \in SUBSET Nat
    BY DEF M
  <2> QED  BY <1>1, <1>2, <2>1, SetInduction
<1> QED  BY <1>3 DEF M

\* Sets that agree on the elements choose the same.
LEMMA ChosenSame ==
  ASSUME NEW S, NEW s \in Seq(S), NEW T, NEW U,
         \A i \in 1 .. Len(s) : s[i] \in T <=> s[i] \in U
  PROVE  Chosen(s, T) = Chosen(s, U)
<1>1. PICK f : IsUpTo(f, s, T, Len(s)) /\ Chosen(s, T) = f[Len(s)]
  BY ChosenUpTo
<1>2. PICK g : IsUpTo(g, s, U, Len(s)) /\ Chosen(s, U) = g[Len(s)]
  BY ChosenUpTo
<1>3. Len(s) \in Nat
  OBVIOUS
<1>4. f[Len(s)] = g[Len(s)]
  BY <1>1, <1>2, <1>3, UpToSame
<1> QED  BY <1>1, <1>2, <1>4

\* One element more.
LEMMA ChosenAppend ==
  ASSUME NEW S, NEW s \in Seq(S), NEW x \in S, NEW T
  PROVE  Chosen(Append(s, x), T) = IF x \in T THEN Append(Chosen(s, T), x) ELSE Chosen(s, T)
<1> DEFINE r == Append(s, x)
           n == Len(s)
<1>1. /\ n \in Nat /\ r \in Seq(S) /\ Len(r) = n + 1 /\ r[n + 1] = x
      /\ \A i \in 1 .. n : r[i] = s[i]
  OBVIOUS
<1> HIDE DEF r
<1>2. PICK f : IsUpTo(f, s, T, Len(s)) /\ Chosen(s, T) = f[Len(s)]
  BY ChosenUpTo
<1>3. PICK g : IsUpTo(g, r, T, Len(r)) /\ Chosen(r, T) = g[Len(r)]
  BY <1>1, ChosenUpTo
<1>4. f[n] = g[n]
  <2>1. n + 1 \in Nat /\ n <= n /\ n <= n + 1 /\ \A i \in 1 .. n : s[i] = r[i]
    BY <1>1
  <2>2. IsUpTo(f, s, T, n) /\ IsUpTo(g, r, T, n + 1)
    BY <1>1, <1>2, <1>3
  <2> HIDE DEF n
  <2> QED  BY <1>1, <2>1, <2>2, UpToSame
<1>5. g[n + 1] = IF r[n + 1] \in T THEN Append(g[n], r[n + 1]) ELSE g[n]
  <2>1. n + 1 \in 1 .. Len(r) /\ n + 1 - 1 = n
    BY <1>1
  <2> QED  BY <1>3, <2>1 DEF IsUpTo
<1> QED  BY <1>1, <1>2, <1>3, <1>4, <1>5 DEF r
=============================================================================
