---------------------------- MODULE LspFramingProofs ----------------------------
(***************************************************************************)
(* Framing, for messages of any length and any number of them.  The framing *)
(* is defined by recursion over sequences.  Each recursion is justified and *)
(* used by an induction of its own, which rests on the least element of a   *)
(* set of natural numbers.                                                  *)
(***************************************************************************)
EXTENDS LspFraming, Integers, WellFoundedInduction, SequenceTheorems, TLAPS

--------------------------------------------------------------------------------
(* Induction and recursion *)

LEMMA LeastNat ==
  ASSUME NEW T \in SUBSET Nat, T # {}
  PROVE  \E n \in T : \A m \in T : n <= m
<1> DEFINE R == {ss \in Nat \X Nat : ss[1] < ss[2]}
<1>1. IsWellFoundedOn(R, Nat)
  BY NatLessThanWellFounded DEF OpToRel
<1>2. \A x, y \in Nat : x < y => <<x, y>> \in R
  OBVIOUS
<1> HIDE DEF R
<1>3. PICK n \in T : \A m \in T : ~(<<m, n>> \in R)
  BY <1>1, WFMin
<1>4. ASSUME NEW m \in T PROVE n <= m
  <2>1. ~(m < n)
    BY <1>2, <1>3
  <2> QED BY <2>1
<1> QED BY <1>4

\* A set of natural numbers that has a number as soon as it has all smaller ones.
LEMMA Induction ==
  ASSUME NEW T, \A n \in Nat : (\A m \in Nat : m < n => m \in T) => n \in T
  PROVE  \A n \in Nat : n \in T
<1> SUFFICES ASSUME {n \in Nat : n \notin T} # {} PROVE FALSE
  OBVIOUS
<1>1. PICK n \in {m \in Nat : m \notin T} : \A m \in {k \in Nat : k \notin T} : n <= m
  BY LeastNat
<1>2. \A m \in Nat : m < n => m \in T
  BY <1>1
<1> QED BY <1>1, <1>2

\* A function on D that is defined on x from its value at next[x], which is
\* smaller.
Decreasing(D, T, size, stop, base, next, step) ==
  /\ size \in [D -> Nat] /\ base \in [D -> T]
  /\ next \in [D -> D] /\ step \in [D \X T -> T]
  /\ \A x \in D : x \notin stop => size[next[x]] < size[x]

Recursive(f, D, T, stop, base, next, step) ==
  /\ f \in [D -> T]
  /\ \A x \in D : f[x] = IF x \in stop THEN base[x] ELSE step[<<x, f[next[x]]>>]

LEMMA Recursion ==
  ASSUME NEW D, NEW T, NEW size, NEW stop, NEW base, NEW next, NEW step,
         Decreasing(D, T, size, stop, base, next, step)
  PROVE  \E f : Recursive(f, D, T, stop, base, next, step)
<1>0. /\ size \in [D -> Nat] /\ base \in [D -> T]
      /\ next \in [D -> D] /\ step \in [D \X T -> T]
      /\ \A x \in D : x \notin stop => size[next[x]] < size[x]
  BY DEF Decreasing
<1> USE <1>0
<1> DEFINE Solves(f, x) == f[x] = IF x \in stop THEN base[x] ELSE step[<<x, f[next[x]]>>]
           Upto(n, f) == f \in [D -> T] /\ \A x \in D : size[x] <= n => Solves(f, x)
           More(f) == [x \in D |-> IF x \in stop THEN base[x] ELSE step[<<x, f[next[x]]>>]]
<1>1. ASSUME NEW n \in Nat, NEW f \in [D -> T],
             \A x \in D : size[x] < n => Solves(f, x)
      PROVE  Upto(n, More(f))
  <2>1. More(f) \in [D -> T]
    OBVIOUS
  <2>2. ASSUME NEW x \in D, size[x] <= n PROVE Solves(More(f), x)
    <3>1. CASE x \in stop
      BY <3>1
    <3>2. CASE x \notin stop
      <4>1. next[x] \in D /\ size[next[x]] < n
        BY <2>2, <3>2
      <4>2. Solves(f, next[x])
        BY <1>1, <4>1
      <4>3. More(f)[next[x]] = f[next[x]]
        BY <4>1, <4>2
      <4> QED BY <3>2, <4>3
    <3> QED BY <3>1, <3>2
  <2> QED BY <2>1, <2>2
<1>2. ASSUME NEW f, NEW g, NEW n \in Nat, Upto(n, f), Upto(n, g)
      PROVE  \A x \in D : size[x] <= n => f[x] = g[x]
  <2> DEFINE S == {k \in Nat : \A x \in D : size[x] = k /\ k <= n => f[x] = g[x]}
  <2>1. ASSUME NEW k \in Nat, \A m \in Nat : m < k => m \in S PROVE k \in S
    <3> SUFFICES ASSUME NEW x \in D, size[x] = k, k <= n PROVE f[x] = g[x]
      OBVIOUS
    <3>1. Solves(f, x) /\ Solves(g, x)
      BY <1>2
    <3>2. x \notin stop => f[next[x]] = g[next[x]]
      <4> SUFFICES ASSUME x \notin stop PROVE f[next[x]] = g[next[x]]
        OBVIOUS
      <4>1. next[x] \in D /\ size[next[x]] < k /\ size[next[x]] \in Nat
        OBVIOUS
      <4> QED BY <2>1, <4>1
    <3> QED BY <3>1, <3>2
  <2> HIDE DEF S
  <2>2. \A k \in Nat : k \in S
    BY <2>1, Induction
  <2> QED BY <2>2 DEF S
<1>3. \A n \in Nat : \E f : Upto(n, f)
  <2> DEFINE S == {n \in Nat : \E f : Upto(n, f)}
  <2>1. ASSUME NEW n \in Nat, \A m \in Nat : m < n => m \in S PROVE n \in S
    <3>1. CASE n = 0
      <4>1. Upto(0, More(base))
        BY <1>1
      <4> QED BY <3>1, <4>1
    <3>2. CASE n # 0
      <4>1. n - 1 \in S
        BY <2>1, <3>2
      <4>2. PICK f : Upto(n - 1, f)
        BY <4>1
      <4>3. Upto(n, More(f))
        BY <1>1, <4>2
      <4> QED BY <4>3
    <3> QED BY <3>1, <3>2
  <2> HIDE DEF S
  <2>2. \A n \in Nat : n \in S
    BY <2>1, Induction
  <2> QED BY <2>2 DEF S
<1> HIDE DEF Solves, Upto, More
<1> DEFINE part == [n \in Nat |-> CHOOSE f : Upto(n, f)]
           f == [x \in D |-> part[size[x]][x]]
<1>4. \A n \in Nat : Upto(n, part[n])
  BY <1>3, Zenon
<1>5. \A x \in D : f[x] = part[size[x]][x]
  OBVIOUS
<1>6. \A n \in Nat : part[n] \in [D -> T]
  BY <1>4 DEF Upto
<1> HIDE DEF part
<1>7. f \in [D -> T]
  BY <1>6
<1> HIDE DEF f
<1>8. ASSUME NEW x \in D, NEW n \in Nat, size[x] <= n PROVE f[x] = part[n][x]
  <2>1. size[x] \in Nat /\ Upto(size[x], part[size[x]])
    BY <1>4
  <2>2. \A y \in D : size[y] <= size[x] => size[y] <= n
    BY <1>8
  <2>3. Upto(size[x], part[n])
    BY <1>4, <2>2 DEF Upto
  <2> QED BY <1>2, <1>5, <2>1, <2>3
<1>9. ASSUME NEW x \in D PROVE Solves(f, x)
  <2>1. Solves(part[size[x]], x)
    BY <1>4 DEF Upto
  <2>2. x \notin stop => f[next[x]] = part[size[x]][next[x]]
    BY <1>8
  <2> QED BY <1>5, <2>1, <2>2 DEF Solves
<1> QED BY <1>7, <1>9 DEF Solves, Recursive

--------------------------------------------------------------------------------
(* Flattening *)

\* FlattenSeq appends one sequence after the other.
Flattened(f, ss) ==
  \A i \in 1 .. Len(ss) : f[i] = IF i = 1 THEN ss[i] ELSE f[i - 1] \o ss[i]

LEMMA FlattenRecursion ==
  ASSUME NEW S, NEW ss \in Seq(Seq(S)), ss # <<>>
  PROVE  \E f \in [1 .. Len(ss) -> Seq(S)] :
           Flattened(f, ss) /\ FlattenSeq(ss) = f[Len(ss)]
<1> DEFINE D == 1 .. Len(ss)
           g == CHOOSE f : f = [i \in 1 .. Len(ss) |-> IF i = 1 THEN ss[i] ELSE f[i - 1] \o ss[i]]
           size == [i \in D |-> i]
           next == [i \in D |-> IF i = 1 THEN 1 ELSE i - 1]
           step == [p \in D \X Seq(S) |-> p[2] \o ss[p[1]]]
           base == [i \in D |-> ss[i]]
<1>1. FlattenSeq(ss) = g[Len(ss)]
  BY DEF FlattenSeq
<1>2. \E f : Recursive(f, D, Seq(S), {1}, base, next, step)
  <2>1. size \in [D -> Nat] /\ next \in [D -> D] /\ base \in [D -> Seq(S)]
    OBVIOUS
  <2>2. step \in [D \X Seq(S) -> Seq(S)]
    OBVIOUS
  <2>3. \A x \in D : x \notin {1} => size[next[x]] < size[x]
    OBVIOUS
  <2> HIDE DEF D, size, next, base, step
  <2>4. Decreasing(D, Seq(S), size, {1}, base, next, step)
    BY <2>1, <2>2, <2>3 DEF Decreasing
  <2> QED BY <2>4, Recursion
<1>3. \E f : f = [i \in 1 .. Len(ss) |-> IF i = 1 THEN ss[i] ELSE f[i - 1] \o ss[i]]
  <2>0. PICK f : Recursive(f, D, Seq(S), {1}, base, next, step)
    BY <1>2
  <2>1. /\ f \in [D -> Seq(S)]
        /\ \A x \in D : f[x] = IF x \in {1} THEN base[x] ELSE step[<<x, f[next[x]]>>]
    BY <2>0 DEF Recursive
  <2>2. \A x \in D : f[x] = IF x = 1 THEN ss[x] ELSE f[x - 1] \o ss[x]
    <3> SUFFICES ASSUME NEW x \in D
                 PROVE  f[x] = IF x = 1 THEN ss[x] ELSE f[x - 1] \o ss[x]
      OBVIOUS
    <3>1. CASE x = 1
      <4>1. f[x] = base[x]
        BY <2>1, <3>1
      <4> QED BY <3>1, <4>1
    <3>2. CASE x # 1
      <4>1. f[x] = step[<<x, f[next[x]]>>]
        BY <2>1, <3>2
      <4>2. next[x] = x - 1 /\ x - 1 \in D
        BY <3>2
      <4>3. <<x, f[x - 1]>> \in D \X Seq(S)
        BY <2>1, <4>2
      <4>4. step[<<x, f[x - 1]>>] = f[x - 1] \o ss[x]
        BY <4>3
      <4> QED BY <3>2, <4>1, <4>2, <4>4
    <3> QED BY <3>1, <3>2
  <2>3. f = [i \in 1 .. Len(ss) |-> IF i = 1 THEN ss[i] ELSE f[i - 1] \o ss[i]]
    BY <2>1, <2>2
  <2> QED BY <2>3
<1>4. g = [i \in 1 .. Len(ss) |-> IF i = 1 THEN ss[i] ELSE g[i - 1] \o ss[i]]
  <2> HIDE <1>1, <1>2
  <2> QED BY <1>3, Zenon
<1> HIDE DEF g
<1>5. g \in [1 .. Len(ss) -> Seq(S)]
  <2> DEFINE U == {k \in Nat : k \in D => g[k] \in Seq(S)}
  <2>1. ASSUME NEW k \in Nat, \A m \in Nat : m < k => m \in U PROVE k \in U
    <3> SUFFICES ASSUME k \in D PROVE g[k] \in Seq(S)
      OBVIOUS
    <3>1. g[k] = IF k = 1 THEN ss[k] ELSE g[k - 1] \o ss[k]
      BY <1>4
    <3>2. k # 1 => g[k - 1] \in Seq(S)
      BY <2>1
    <3> QED BY <3>1, <3>2
  <2> HIDE DEF U
  <2>2. \A k \in Nat : k \in U
    BY <2>1, Induction
  <2>3. \A k \in D : g[k] \in Seq(S)
    BY <2>2 DEF U
  <2> QED BY <1>4, <2>3
<1>6. Flattened(g, ss)
  BY <1>4 DEF Flattened
<1> QED BY <1>1, <1>5, <1>6

LEMMA FlattenEmpty == FlattenSeq(<<>>) = <<>>
BY DEF FlattenSeq

LEMMA FlattenType ==
  ASSUME NEW S, NEW ss \in Seq(Seq(S))
  PROVE  FlattenSeq(ss) \in Seq(S)
<1>1. CASE ss = <<>>
  BY <1>1, FlattenEmpty, EmptySeq, Zenon
<1>2. CASE ss # <<>>
  <2>1. Len(ss) \in 1 .. Len(ss)
    BY <1>2
  <2>2. PICK f \in [1 .. Len(ss) -> Seq(S)] : Flattened(f, ss) /\ FlattenSeq(ss) = f[Len(ss)]
    BY <1>2, FlattenRecursion
  <2> QED BY <2>1, <2>2
<1> QED BY <1>1, <1>2

LEMMA FlattenAppend ==
  ASSUME NEW S, NEW ss \in Seq(Seq(S)), NEW x \in Seq(S)
  PROVE  FlattenSeq(Append(ss, x)) = FlattenSeq(ss) \o x
<1> DEFINE n == Len(ss)
           tt == Append(ss, x)
<1>1. tt \in Seq(Seq(S)) /\ tt # <<>> /\ Len(tt) = n + 1 /\ n \in Nat /\ Len(ss) = n
  BY AppendProperties
<1>2. tt[n + 1] = x /\ \A i \in 1 .. n : tt[i] = ss[i]
  BY AppendProperties
<1> HIDE DEF tt, n
<1>3. PICK h \in [1 .. Len(tt) -> Seq(S)] : Flattened(h, tt) /\ FlattenSeq(tt) = h[Len(tt)]
  BY <1>1, FlattenRecursion
<1>4. CASE ss = <<>>
  <2>1. h[1] = tt[1]
    BY <1>1, <1>3, <1>4 DEF Flattened
  <2>2. FlattenSeq(tt) = x
    BY <1>1, <1>2, <1>3, <1>4, <2>1
  <2>3. <<>> \o x = x
    OBVIOUS
  <2> QED BY <1>4, <2>2, <2>3, FlattenEmpty DEF tt
<1>5. CASE ss # <<>>
  <2>1. PICK f \in [1 .. Len(ss) -> Seq(S)] : Flattened(f, ss) /\ FlattenSeq(ss) = f[Len(ss)]
    BY <1>5, FlattenRecursion
  <2> DEFINE U == {k \in Nat : k \in 1 .. n => h[k] = f[k]}
  <2>2. ASSUME NEW k \in Nat, \A m \in Nat : m < k => m \in U PROVE k \in U
    <3> SUFFICES ASSUME k \in 1 .. n PROVE h[k] = f[k]
      OBVIOUS
    <3>1. h[k] = IF k = 1 THEN tt[k] ELSE h[k - 1] \o tt[k]
      <4>1. k \in 1 .. Len(tt)
        BY <1>1
      <4> QED BY <1>3, <4>1 DEF Flattened
    <3>2. f[k] = IF k = 1 THEN ss[k] ELSE f[k - 1] \o ss[k]
      BY <1>1, <2>1 DEF Flattened
    <3>3. k # 1 => h[k - 1] = f[k - 1]
      BY <1>1, <2>2
    <3> QED BY <1>2, <3>1, <3>2, <3>3
  <2> HIDE DEF U
  <2>3. \A k \in Nat : k \in U
    BY <2>2, Induction
  <2>4. h[n] = f[n]
    <3>1. n \in 1 .. n
      BY <1>1, <1>5
    <3> QED BY <1>1, <2>3, <3>1 DEF U
  <2>5. h[n + 1] = h[n] \o x
    <3>1. n + 1 \in 1 .. Len(tt) /\ n + 1 # 1 /\ (n + 1) - 1 = n
      BY <1>1, <1>5
    <3> QED BY <1>2, <1>3, <3>1 DEF Flattened
  <2> QED BY <1>1, <1>3, <2>1, <2>4, <2>5 DEF tt
<1> QED BY <1>4, <1>5

LEMMA FlattenOne ==
  ASSUME NEW S, NEW x \in Seq(S)
  PROVE  FlattenSeq(<<x>>) = x
<1>1. <<x>> = Append(<<>>, x) /\ <<>> \o x = x /\ <<>> \in Seq(Seq(S))
  OBVIOUS
<1> QED BY <1>1, FlattenEmpty, FlattenAppend

LEMMA FlattenConcat ==
  ASSUME NEW S, NEW ss \in Seq(Seq(S)), NEW tt \in Seq(Seq(S))
  PROVE  FlattenSeq(ss \o tt) = FlattenSeq(ss) \o FlattenSeq(tt)
<1> DEFINE U == {n \in Nat : \A uu \in Seq(Seq(S)) :
                  Len(uu) = n => FlattenSeq(ss \o uu) = FlattenSeq(ss) \o FlattenSeq(uu)}
<1>1. ASSUME NEW n \in Nat, \A m \in Nat : m < n => m \in U PROVE n \in U
  <2> SUFFICES ASSUME NEW uu \in Seq(Seq(S)), Len(uu) = n
               PROVE  FlattenSeq(ss \o uu) = FlattenSeq(ss) \o FlattenSeq(uu)
    OBVIOUS
  <2>1. CASE n = 0
    <3>1. uu = <<>> /\ ss \o <<>> = ss
      BY <2>1
    <3>2. FlattenSeq(ss) \in Seq(S)
      BY FlattenType
    <3>3. FlattenSeq(ss) \o <<>> = FlattenSeq(ss)
      BY <3>2
    <3> QED BY <3>1, <3>3, FlattenEmpty
  <2>2. CASE n # 0
    <3> DEFINE vv == SubSeq(uu, 1, n - 1)
               x == uu[n]
    <3>1. vv \in Seq(Seq(S)) /\ x \in Seq(S) /\ Len(vv) = n - 1
      BY <2>2
    <3>2. uu = Append(vv, x)
      BY <2>2
    <3> HIDE DEF vv, x
    <3>3. ss \o uu = Append(ss \o vv, x) /\ ss \o vv \in Seq(Seq(S))
      BY <3>1, <3>2
    <3>4. n - 1 \in U
      BY <1>1, <2>2
    <3>5. FlattenSeq(ss \o vv) = FlattenSeq(ss) \o FlattenSeq(vv)
      BY <3>1, <3>4
    <3>6. FlattenSeq(ss \o uu) = FlattenSeq(ss \o vv) \o x
      BY <3>1, <3>3, FlattenAppend
    <3>7. FlattenSeq(uu) = FlattenSeq(vv) \o x
      BY <3>1, <3>2, FlattenAppend
    <3>8. FlattenSeq(ss) \in Seq(S) /\ FlattenSeq(vv) \in Seq(S)
      BY <3>1, FlattenType
    <3>9. (FlattenSeq(ss) \o FlattenSeq(vv)) \o x = FlattenSeq(ss) \o (FlattenSeq(vv) \o x)
      <4>1. \A a, b, c \in Seq(S) : (a \o b) \o c = a \o (b \o c)
        BY ConcatAssociative
      <4> QED BY <3>1, <3>8, <4>1
    <3> QED BY <3>5, <3>6, <3>7, <3>9
  <2> QED BY <2>1, <2>2
<1> HIDE DEF U
<1>2. \A n \in Nat : n \in U
  BY <1>1, Induction
<1>3. Len(tt) \in U
  BY <1>2
<1> QED BY <1>3 DEF U

LEMMA SplitSeq ==
  ASSUME NEW S, NEW s \in Seq(S), NEW k \in 0 .. Len(s)
  PROVE  SubSeq(s, 1, k) \o SubSeq(s, k + 1, Len(s)) = s
<1>1. 1 \in 1 .. Len(s) + 1 /\ k \in 1 - 1 .. Len(s) /\ Len(s) \in k .. Len(s)
  OBVIOUS
<1>2. SubSeq(s, 1, k) \o SubSeq(s, k + 1, Len(s)) = SubSeq(s, 1, Len(s))
  BY <1>1, ConcatAdjacentSubSeq
<1> QED BY <1>2, SubSeqFull

LEMMA ConcatThree ==
  ASSUME NEW a \in Seq(Piece), NEW b \in Seq(Piece), NEW c \in Seq(Piece)
  PROVE  (a \o b) \o c = a \o (b \o c)
BY ConcatAssociative

LEMMA ConcatSplit ==
  ASSUME NEW S, NEW a \in Seq(S), NEW b \in Seq(S), NEW c \in Seq(S), NEW d \in Seq(S),
         a \o b = c \o d, Len(a) = Len(c)
  PROVE  a = c /\ b = d
<1>1. /\ Len(a \o b) = Len(a) + Len(b) /\ Len(c \o d) = Len(c) + Len(d)
      /\ \A i \in 1 .. Len(a) + Len(b) : (a \o b)[i] = IF i <= Len(a) THEN a[i] ELSE b[i - Len(a)]
      /\ \A i \in 1 .. Len(c) + Len(d) : (c \o d)[i] = IF i <= Len(c) THEN c[i] ELSE d[i - Len(c)]
  <2>1. \A x, y \in Seq(S) :
          /\ Len(x \o y) = Len(x) + Len(y)
          /\ \A i \in 1 .. Len(x) + Len(y) :
               (x \o y)[i] = IF i <= Len(x) THEN x[i] ELSE y[i - Len(x)]
    BY ConcatProperties
  <2> QED BY <2>1
<1>2. /\ Len(a) \in Nat /\ Len(b) \in Nat /\ Len(c) \in Nat /\ Len(d) \in Nat
      /\ Len(b) = Len(d)
  BY <1>1
<1>3. \A i \in 1 .. Len(a) : a[i] = c[i]
  BY <1>1, <1>2
<1>4. \A i \in 1 .. Len(b) : b[i] = d[i]
  <2> SUFFICES ASSUME NEW i \in 1 .. Len(b) PROVE b[i] = d[i]
    OBVIOUS
  <2>1. /\ Len(a) + i \in 1 .. Len(a) + Len(b) /\ ~(Len(a) + i <= Len(a))
        /\ (Len(a) + i) - Len(a) = i
    BY <1>2
  <2>2. (a \o b)[Len(a) + i] = b[i] /\ (c \o d)[Len(a) + i] = d[i]
    BY <1>1, <1>2, <2>1
  <2> QED BY <2>2
<1>5. a = c
  BY <1>3, SeqEqual
<1>6. b = d
  BY <1>2, <1>4, SeqEqual
<1> QED BY <1>5, <1>6

LEMMA FlattenHead ==
  ASSUME NEW S, NEW ss \in Seq(Seq(S)), ss # <<>>
  PROVE  /\ FlattenSeq(ss) = ss[1] \o FlattenSeq(SubSeq(ss, 2, Len(ss)))
         /\ ss[1] \in Seq(S) /\ FlattenSeq(SubSeq(ss, 2, Len(ss))) \in Seq(S)
<1> DEFINE T == Seq(S)
           rest == SubSeq(ss, 2, Len(ss))
<1>1. ss \in Seq(T) /\ Len(ss) \in Nat /\ Len(ss) >= 1
  OBVIOUS
<1> HIDE DEF T
<1>2. rest \in Seq(T) /\ ss[1] \in T
  BY <1>1
<1>3. ss = <<ss[1]>> \o rest /\ <<ss[1]>> \in Seq(T)
  <2>1. SubSeq(ss, 1, 1) \o SubSeq(ss, 1 + 1, Len(ss)) = ss
    BY <1>1, SplitSeq
  <2>2. SubSeq(ss, 1, 1) = <<ss[1]>>
    <3>1. /\ SubSeq(ss, 1, 1) \in Seq(T) /\ Len(SubSeq(ss, 1, 1)) = 1
          /\ SubSeq(ss, 1, 1)[1] = ss[1]
      BY <1>1
    <3>2. <<ss[1]>> \in Seq(T) /\ Len(<<ss[1]>>) = 1 /\ <<ss[1]>>[1] = ss[1]
      BY <1>2
    <3>3. \A i \in 1 .. 1 : SubSeq(ss, 1, 1)[i] = <<ss[1]>>[i]
      BY <3>1, <3>2
    <3> QED BY <3>1, <3>2, <3>3, SeqEqual
  <2> QED BY <1>2, <2>1, <2>2
<1> HIDE DEF rest
<1>4. FlattenSeq(<<ss[1]>> \o rest) = FlattenSeq(<<ss[1]>>) \o FlattenSeq(rest)
  BY <1>2, <1>3, FlattenConcat DEF T
<1>5. FlattenSeq(<<ss[1]>>) = ss[1] /\ FlattenSeq(rest) \in Seq(S)
  BY <1>2, FlattenOne, FlattenType DEF T
<1> QED BY <1>2, <1>3, <1>4, <1>5 DEF T, rest

--------------------------------------------------------------------------------
(* Headers *)

Blanks(octets) == {i \in 1 .. Len(octets) : octets[i].kind = "blank"}

LEMMA SeparatorDef ==
  ASSUME NEW octets \in Seq(Piece)
  PROVE  /\ Separator(octets) \in 0 .. Len(octets)
         /\ Separator(octets) = 0 => Blanks(octets) = {}
         /\ Separator(octets) > 0 => /\ Separator(octets) \in Blanks(octets)
                                    /\ \A i \in Blanks(octets) : Separator(octets) <= i
<1>1. Separator(octets) =
        IF Blanks(octets) # {}
        THEN CHOOSE x \in Blanks(octets) : \A y \in Blanks(octets) : x <= y
        ELSE 0
  BY DEF Separator, SelectInSeq, Blanks, Min
<1>2. Blanks(octets) \in SUBSET Nat /\ Blanks(octets) \subseteq 1 .. Len(octets)
  BY DEF Blanks
<1>3. Blanks(octets) # {} => \E x \in Blanks(octets) : \A y \in Blanks(octets) : x <= y
  BY <1>2, LeastNat
<1>4. CASE Blanks(octets) = {}
  <2>1. Len(octets) \in Nat
    OBVIOUS
  <2> QED BY <1>1, <1>4, <2>1
<1>5. CASE Blanks(octets) # {}
  <2> HIDE DEF Blanks
  <2>1. /\ Separator(octets) \in Blanks(octets)
        /\ \A i \in Blanks(octets) : Separator(octets) <= i
    BY <1>1, <1>3, <1>5, Zenon
  <2>2. Separator(octets) \in 1 .. Len(octets) /\ Len(octets) \in Nat
    BY <1>2, <2>1
  <2> QED BY <2>1, <2>2
<1> QED BY <1>4, <1>5

\* A string that starts with a header line and a blank line.
LEMMA SeparatorAfterHeader ==
  ASSUME NEW octets \in Seq(Piece), Len(octets) >= 2,
         octets[1].kind # "blank", octets[2].kind = "blank"
  PROVE  Separator(octets) = 2
<1>1. 2 \in Blanks(octets) /\ 1 \notin Blanks(octets)
  BY DEF Blanks
<1>2. Blanks(octets) \subseteq 1 .. Len(octets) /\ Len(octets) \in Nat
  BY DEF Blanks
<1>3. Separator(octets) \in Nat /\ Separator(octets) # 0
  BY <1>1, SeparatorDef
<1>4. Separator(octets) <= 2 /\ Separator(octets) \in Blanks(octets)
  BY <1>1, <1>3, SeparatorDef
<1> QED BY <1>1, <1>3, <1>4

LEMMA CompleteFrame ==
  ASSUME NEW octets \in Seq(Piece), Complete(octets)
  PROVE  FrameLength(octets) \in 1 .. Len(octets)
<1>1. Separator(octets) \in 1 .. Len(octets) /\ Len(octets) \in Nat
  BY SeparatorDef DEF Complete, HasHeader
<1>2. octets[1].n \in Nat
  <2>1. octets[1] \in Piece
    BY <1>1, ElementOfSeq
  <2> QED BY <2>1 DEF Piece
<1> QED BY <1>1, <1>2 DEF Complete, FrameLength

--------------------------------------------------------------------------------
(* The loop of onData *)

Result == [messages : Seq(Seq(Piece)), rest : Seq(Piece), threw : BOOLEAN]
AfterFrame(octets) == SubSeq(octets, FrameLength(octets) + 1, Len(octets))
FirstFrame(octets) == SubSeq(octets, 1, FrameLength(octets))

LEMMA CutFrame ==
  ASSUME NEW octets \in Seq(Piece), Complete(octets)
  PROVE  /\ AfterFrame(octets) \in Seq(Piece)
         /\ FirstFrame(octets) \in Seq(Piece)
         /\ Len(AfterFrame(octets)) = Len(octets) - FrameLength(octets)
         /\ Len(AfterFrame(octets)) < Len(octets)
         /\ Len(FirstFrame(octets)) = FrameLength(octets)
         /\ octets = FirstFrame(octets) \o AfterFrame(octets)
<1>1. FrameLength(octets) \in 1 .. Len(octets) /\ Len(octets) \in Nat
  BY CompleteFrame
<1> HIDE DEF FrameLength
<1>2. /\ AfterFrame(octets) \in Seq(Piece) /\ FirstFrame(octets) \in Seq(Piece)
      /\ Len(AfterFrame(octets)) = Len(octets) - FrameLength(octets)
      /\ Len(FirstFrame(octets)) = FrameLength(octets)
  BY <1>1 DEF AfterFrame, FirstFrame
<1>3. octets = FirstFrame(octets) \o AfterFrame(octets)
  <2>1. FrameLength(octets) \in 0 .. Len(octets)
    BY <1>1
  <2> QED BY <2>1, SplitSeq DEF AfterFrame, FirstFrame
<1> QED BY <1>1, <1>2, <1>3

LEMMA LoopEquation ==
  /\ Loop \in [Seq(Piece) -> Result]
  /\ \A octets \in Seq(Piece) :
       Loop[octets] = IF Complete(octets)
                      THEN [Loop[AfterFrame(octets)] EXCEPT
                              !.messages = <<FirstFrame(octets)>> \o @]
                      ELSE [messages |-> <<>>, rest |-> octets, threw |-> Throws(octets)]
<1> DEFINE D == Seq(Piece)
           stop == {octets \in D : ~Complete(octets)}
           size == [octets \in D |-> Len(octets)]
           base == [octets \in D |->
                      [messages |-> <<>>, rest |-> octets, threw |-> Throws(octets)]]
           next == [octets \in D |-> IF Complete(octets) THEN AfterFrame(octets) ELSE octets]
           step == [p \in D \X Result |->
                      IF Complete(p[1])
                      THEN [p[2] EXCEPT !.messages = <<FirstFrame(p[1])>> \o @]
                      ELSE p[2]]
           Body(f) == [octets \in D |->
                         IF Complete(octets)
                         THEN [f[AfterFrame(octets)] EXCEPT
                                 !.messages = <<FirstFrame(octets)>> \o @]
                         ELSE [messages |-> <<>>, rest |-> octets, threw |-> Throws(octets)]]
<1>1. \E f : Recursive(f, D, Result, stop, base, next, step)
  <2>1. size \in [D -> Nat]
    OBVIOUS
  <2>2. base \in [D -> Result]
    BY DEF Result, Throws, HasHeader
  <2>3. next \in [D -> D]
    BY CutFrame
  <2>4. step \in [D \X Result -> Result]
    <3> SUFFICES ASSUME NEW o \in D, NEW r \in Result, Complete(o)
                 PROVE  [r EXCEPT !.messages = <<FirstFrame(o)>> \o @] \in Result
      OBVIOUS
    <3>1. FirstFrame(o) \in Seq(Piece)
      BY CutFrame
    <3>2. <<FirstFrame(o)>> \o r.messages \in Seq(Seq(Piece))
      BY <3>1 DEF Result
    <3> QED BY <3>2 DEF Result
  <2>5. \A o \in D : o \notin stop => size[next[o]] < size[o]
    BY CutFrame
  <2> HIDE DEF D, stop, size, base, next, step
  <2>6. Decreasing(D, Result, size, stop, base, next, step)
    BY <2>1, <2>2, <2>3, <2>4, <2>5 DEF Decreasing
  <2> QED BY <2>6, Recursion
<1>2. ASSUME NEW f, Recursive(f, D, Result, stop, base, next, step)
      PROVE  f = Body(f)
  <2>1. /\ f \in [D -> Result]
        /\ \A o \in D : f[o] = IF o \in stop THEN base[o] ELSE step[<<o, f[next[o]]>>]
    BY <1>2 DEF Recursive
  <2>2. ASSUME NEW o \in D PROVE f[o] = Body(f)[o]
    <3>1. CASE Complete(o)
      <4>1. AfterFrame(o) \in D /\ next[o] = AfterFrame(o)
        BY <3>1, CutFrame
      <4>2. f[o] = step[<<o, f[next[o]]>>]
        BY <2>1, <3>1
      <4>3. <<o, f[AfterFrame(o)]>> \in D \X Result
        BY <2>1, <4>1
      <4>4. step[<<o, f[AfterFrame(o)]>>] =
              [f[AfterFrame(o)] EXCEPT !.messages = <<FirstFrame(o)>> \o @]
        BY <3>1, <4>3
      <4> QED BY <3>1, <4>1, <4>2, <4>4
    <3>2. CASE ~Complete(o)
      <4>1. f[o] = base[o]
        BY <2>1, <3>2
      <4> QED BY <3>2, <4>1
    <3> QED BY <3>1, <3>2
  <2> HIDE DEF D
  <2>3. DOMAIN f = D /\ f = [o \in D |-> f[o]]
    BY <2>1
  <2> QED BY <2>2, <2>3
<1>3. \E f : f = Body(f)
  BY <1>1, <1>2
<1>4. Loop = CHOOSE f : f = Body(f)
  BY DEF Loop, AfterFrame, FirstFrame
<1>5. Loop = Body(Loop)
  <2> HIDE DEF Body
  <2> QED BY <1>3, <1>4, Zenon
<1>6. \A o \in D :
       Loop[o] = IF Complete(o)
                 THEN [Loop[AfterFrame(o)] EXCEPT !.messages = <<FirstFrame(o)>> \o @]
                 ELSE [messages |-> <<>>, rest |-> o, threw |-> Throws(o)]
  <2> HIDE DEF D
  <2> QED BY <1>5, Zenon
<1>7. \A o \in D : Loop[o] \in Result
  <2> DEFINE U == {k \in Nat : \A o \in D : Len(o) = k => Loop[o] \in Result}
  <2>1. ASSUME NEW k \in Nat, \A m \in Nat : m < k => m \in U PROVE k \in U
    <3> SUFFICES ASSUME NEW o \in D, Len(o) = k PROVE Loop[o] \in Result
      OBVIOUS
    <3>1. CASE Complete(o)
      <4>1. AfterFrame(o) \in D /\ Len(AfterFrame(o)) < k /\ Len(AfterFrame(o)) \in Nat
        BY <3>1, CutFrame
      <4>2. Loop[AfterFrame(o)] \in Result
        BY <2>1, <4>1
      <4>3. Loop[o] = [Loop[AfterFrame(o)] EXCEPT !.messages = <<FirstFrame(o)>> \o @]
        BY <1>6, <3>1
      <4>4. FirstFrame(o) \in Seq(Piece)
        BY <3>1, CutFrame
      <4>5. <<FirstFrame(o)>> \o Loop[AfterFrame(o)].messages \in Seq(Seq(Piece))
        BY <4>2, <4>4 DEF Result
      <4> QED BY <4>2, <4>3, <4>5 DEF Result
    <3>2. CASE ~Complete(o)
      <4>1. Loop[o] = [messages |-> <<>>, rest |-> o, threw |-> Throws(o)]
        BY <1>6, <3>2
      <4> QED BY <4>1 DEF Result, Throws, HasHeader
    <3> QED BY <3>1, <3>2
  <2> HIDE DEF U
  <2>2. \A k \in Nat : k \in U
    BY <2>1, Induction
  <2>3. ASSUME NEW o \in D PROVE Loop[o] \in Result
    <3>1. Len(o) \in U
      BY <2>2
    <3> QED BY <3>1 DEF U
  <2> QED BY <2>3
<1>8. Loop \in [D -> Result]
  <2> HIDE DEF D
  <2>1. DOMAIN Loop = D /\ Loop = [o \in D |-> Loop[o]]
    BY <1>5
  <2> QED BY <1>7, <2>1
<1> QED BY <1>6, <1>8

\* The loop goes on until it is short of a message, and throws on what is left.
LEMMA LoopRest ==
  ASSUME NEW octets \in Seq(Piece)
  PROVE  ~Complete(Loop[octets].rest) /\ Loop[octets].threw = Throws(Loop[octets].rest)
<1> DEFINE Good(o) == ~Complete(Loop[o].rest) /\ Loop[o].threw = Throws(Loop[o].rest)
           U == {k \in Nat : \A o \in Seq(Piece) : Len(o) = k => Good(o)}
<1>1. ASSUME NEW k \in Nat, \A m \in Nat : m < k => m \in U PROVE k \in U
  <2> SUFFICES ASSUME NEW o \in Seq(Piece), Len(o) = k PROVE Good(o)
    OBVIOUS
  <2>1. CASE Complete(o)
    <3>1. /\ AfterFrame(o) \in Seq(Piece) /\ Len(AfterFrame(o)) < k
          /\ Len(AfterFrame(o)) \in Nat
      BY <2>1, CutFrame
    <3>2. Good(AfterFrame(o))
      BY <1>1, <3>1
    <3>3. Loop[AfterFrame(o)] \in Result
      BY <3>1, LoopEquation
    <3>4. Loop[o] = [Loop[AfterFrame(o)] EXCEPT !.messages = <<FirstFrame(o)>> \o @]
      BY <2>1, LoopEquation
    <3>5. /\ Loop[o].rest = Loop[AfterFrame(o)].rest
          /\ Loop[o].threw = Loop[AfterFrame(o)].threw
      BY <3>3, <3>4 DEF Result
    <3> QED BY <3>2, <3>5
  <2>2. CASE ~Complete(o)
    <3>1. Loop[o] = [messages |-> <<>>, rest |-> o, threw |-> Throws(o)]
      BY <2>2, LoopEquation
    <3> QED BY <2>2, <3>1
  <2> QED BY <2>1, <2>2
<1> HIDE DEF U
<1>2. \A k \in Nat : k \in U
  BY <1>1, Induction
<1>3. Len(octets) \in U
  BY <1>2
<1> QED BY <1>3 DEF U

--------------------------------------------------------------------------------
(* Decoding *)

\* The character that the last octet is of, and the octets before it.
LastChar(octets)    == [Last(octets) EXCEPT !.part = 1]
BeforeLast(octets)  == Len(octets) - Octets(LastChar(octets).kind)
WholeChar(octets)   ==
  /\ BeforeLast(octets) >= 0
  /\ octets = SubSeq(octets, 1, BeforeLast(octets))
                \o Parts(LastChar(octets), Octets(LastChar(octets).kind))
DecodeLast(octets)  == IF WholeChar(octets) THEN LastChar(octets) ELSE Char("broken")
DecodeFirst(octets) ==
  IF WholeChar(octets) THEN SubSeq(octets, 1, BeforeLast(octets)) ELSE Front(octets)

LEMMA DecodeStep ==
  ASSUME NEW octets \in Seq(Piece), octets # <<>>
  PROVE  /\ DecodeLast(octets) \in Character
         /\ DecodeFirst(octets) \in Seq(Piece)
         /\ Len(DecodeFirst(octets)) < Len(octets)
<1>1. Len(octets) \in Nat /\ Len(octets) > 0
  OBVIOUS
<1>2. octets[Len(octets)] \in Piece
  BY <1>1, ElementOfSeq
<1>3. LastChar(octets) \in Character
  BY <1>2 DEF LastChar, Last, Character, Piece
<1>4. Char("broken") \in Character
  BY DEF Char, Character, Piece
<1>5. Octets(LastChar(octets).kind) \in 1 .. 2
  BY DEF Octets
<1>6. CASE WholeChar(octets)
  <2>1. BeforeLast(octets) \in 0 .. Len(octets) - 1
    BY <1>1, <1>5, <1>6 DEF BeforeLast, WholeChar
  <2> HIDE DEF BeforeLast
  <2>2. /\ SubSeq(octets, 1, BeforeLast(octets)) \in Seq(Piece)
        /\ Len(SubSeq(octets, 1, BeforeLast(octets))) = BeforeLast(octets)
    BY <2>1
  <2> QED BY <1>1, <1>3, <1>6, <2>1, <2>2 DEF DecodeLast, DecodeFirst
<1>7. CASE ~WholeChar(octets)
  <2>1. Front(octets) \in Seq(Piece) /\ Len(Front(octets)) = Len(octets) - 1
    <3>1. \A k \in 0 .. Len(octets) :
            SubSeq(octets, 1, k) \in Seq(Piece) /\ Len(SubSeq(octets, 1, k)) = k
      OBVIOUS
    <3>2. Len(octets) - 1 \in 0 .. Len(octets)
      BY <1>1
    <3> QED BY <3>1, <3>2 DEF Front
  <2> QED BY <1>1, <1>4, <1>7, <2>1 DEF DecodeLast, DecodeFirst
<1> QED BY <1>6, <1>7

LEMMA DecodeEquation ==
  /\ Decode \in [Seq(Piece) -> Seq(Character)]
  /\ Decode[<<>>] = <<>>
  /\ \A octets \in Seq(Piece) : octets # <<>> =>
       Decode[octets] = Append(Decode[DecodeFirst(octets)], DecodeLast(octets))
<1> DEFINE D == Seq(Piece)
           T == Seq(Character)
           stop == {<<>>}
           size == [o \in D |-> Len(o)]
           base == [o \in D |-> <<>>]
           next == [o \in D |-> IF o = <<>> THEN o ELSE DecodeFirst(o)]
           step == [p \in D \X T |-> IF p[1] = <<>> THEN <<>> ELSE Append(p[2], DecodeLast(p[1]))]
           Body(f) == [o \in D |->
                         IF o = <<>> THEN <<>>
                         ELSE IF WholeChar(o)
                              THEN Append(f[SubSeq(o, 1, BeforeLast(o))], LastChar(o))
                              ELSE Append(f[Front(o)], Char("broken"))]
           Same(f) == [o \in D |-> IF o = <<>> THEN <<>>
                                   ELSE Append(f[DecodeFirst(o)], DecodeLast(o))]
<1>1. \E f : Recursive(f, D, T, stop, base, next, step)
  <2>1. size \in [D -> Nat]
    OBVIOUS
  <2>2. base \in [D -> T]
    OBVIOUS
  <2>3. next \in [D -> D]
    BY DecodeStep
  <2>4. step \in [D \X T -> T]
    <3> SUFFICES ASSUME NEW o \in D, NEW r \in T, o # <<>>
                 PROVE  Append(r, DecodeLast(o)) \in T
      OBVIOUS
    <3> QED BY DecodeStep, AppendProperties
  <2>5. \A o \in D : o \notin stop => size[next[o]] < size[o]
    BY DecodeStep
  <2> HIDE DEF D, T, stop, size, base, next, step
  <2>6. Decreasing(D, T, size, stop, base, next, step)
    BY <2>1, <2>2, <2>3, <2>4, <2>5 DEF Decreasing
  <2> QED BY <2>6, Recursion
<1>2. ASSUME NEW f, Recursive(f, D, T, stop, base, next, step)
      PROVE  f = Same(f)
  <2>1. /\ f \in [D -> T]
        /\ \A o \in D : f[o] = IF o \in stop THEN base[o] ELSE step[<<o, f[next[o]]>>]
    BY <1>2 DEF Recursive
  <2>2. ASSUME NEW o \in D PROVE f[o] = Same(f)[o]
    <3>1. CASE o # <<>>
      <4>1. DecodeFirst(o) \in D /\ next[o] = DecodeFirst(o)
        BY <3>1, DecodeStep
      <4>2. f[o] = step[<<o, f[next[o]]>>]
        BY <2>1, <3>1
      <4>3. <<o, f[DecodeFirst(o)]>> \in D \X T
        BY <2>1, <4>1
      <4>4. step[<<o, f[DecodeFirst(o)]>>] = Append(f[DecodeFirst(o)], DecodeLast(o))
        BY <3>1, <4>3
      <4> QED BY <3>1, <4>1, <4>2, <4>4
    <3>2. CASE o = <<>>
      <4>1. f[o] = base[o]
        BY <2>1, <3>2
      <4> QED BY <3>2, <4>1
    <3> QED BY <3>1, <3>2
  <2> HIDE DEF D
  <2>3. DOMAIN f = D /\ f = [o \in D |-> f[o]]
    BY <2>1
  <2> QED BY <2>2, <2>3
<1>3. \A f : Body(f) = Same(f)
  BY Zenon DEF DecodeFirst, DecodeLast
<1>4. \E f : f = Body(f)
  <2> HIDE DEF Body, Same, D, T, stop, base, next, step
  <2> QED BY <1>1, <1>2, <1>3
<1>5. Decode = CHOOSE f : f = Body(f)
  BY DEF Decode, WholeChar, BeforeLast, LastChar
<1>6. Decode = Same(Decode)
  <2> HIDE DEF Body, Same
  <2>1. Decode = Body(Decode)
    BY <1>4, <1>5, Zenon
  <2> QED BY <1>3, <2>1
<1>7. /\ Decode[<<>>] = <<>>
      /\ \A o \in D : o # <<>> => Decode[o] = Append(Decode[DecodeFirst(o)], DecodeLast(o))
  <2>1. <<>> \in D
    OBVIOUS
  <2> HIDE DEF D
  <2> QED BY <1>6, <2>1, Zenon
<1>8. \A o \in D : Decode[o] \in T
  <2> DEFINE U == {k \in Nat : \A o \in D : Len(o) = k => Decode[o] \in T}
  <2>1. ASSUME NEW k \in Nat, \A m \in Nat : m < k => m \in U PROVE k \in U
    <3> SUFFICES ASSUME NEW o \in D, Len(o) = k PROVE Decode[o] \in T
      OBVIOUS
    <3>1. CASE o # <<>>
      <4>1. /\ DecodeFirst(o) \in D /\ Len(DecodeFirst(o)) < k
            /\ Len(DecodeFirst(o)) \in Nat
        BY <3>1, DecodeStep
      <4>2. Decode[DecodeFirst(o)] \in T
        BY <2>1, <4>1
      <4>3. Decode[o] = Append(Decode[DecodeFirst(o)], DecodeLast(o))
        BY <1>7, <3>1
      <4> QED BY <3>1, <4>2, <4>3, DecodeStep, AppendProperties
    <3>2. CASE o = <<>>
      BY <1>7, <3>2, EmptySeq
    <3> QED BY <3>1, <3>2
  <2> HIDE DEF U
  <2>2. \A k \in Nat : k \in U
    BY <2>1, Induction
  <2>3. ASSUME NEW o \in D PROVE Decode[o] \in T
    <3>1. Len(o) \in U
      BY <2>2
    <3> QED BY <3>1 DEF U
  <2> QED BY <2>3
<1>9. Decode \in [D -> T]
  <2> HIDE DEF D
  <2>1. DOMAIN Decode = D /\ Decode = [o \in D |-> Decode[o]]
    BY <1>6
  <2> QED BY <1>8, <2>1
<1> QED BY <1>7, <1>9

--------------------------------------------------------------------------------
(* Encoding *)

Pieces(string)      == [i \in DOMAIN string |-> Parts(string[i], Octets(string[i].kind))]
Utf16Pieces(string) == [i \in DOMAIN string |-> Parts(string[i], Units(string[i].kind))]

LEMMA PartsType ==
  ASSUME NEW c \in Character, NEW length \in 1 .. 2
  PROVE  /\ Parts(c, length) \in Seq(Piece)
         /\ Len(Parts(c, length)) = length
         /\ Parts(c, length)[length] = [c EXCEPT !.part = length]
         /\ [Parts(c, length)[length] EXCEPT !.part = 1] = c
<1>1. \A k \in 1 .. length : [c EXCEPT !.part = k] \in Piece
  BY DEF Character, Piece
<1>2. Parts(c, length) = [k \in 1 .. length |-> [c EXCEPT !.part = k]]
  BY DEF Parts
<1>3. Parts(c, length) \in Seq(Piece) /\ Len(Parts(c, length)) = length
  BY <1>1, <1>2
<1>4. Parts(c, length)[length] = [c EXCEPT !.part = length]
  BY <1>2
<1>5. [[c EXCEPT !.part = length] EXCEPT !.part = 1] = c
  BY DEF Character, Piece
<1> QED BY <1>3, <1>4, <1>5

LEMMA PiecesType ==
  ASSUME NEW string \in Seq(Character)
  PROVE  /\ Pieces(string) \in Seq(Seq(Piece)) /\ Len(Pieces(string)) = Len(string)
         /\ Utf16Pieces(string) \in Seq(Seq(Piece)) /\ Len(Utf16Pieces(string)) = Len(string)
<1>1. \A kind : Octets(kind) \in 1 .. 2 /\ Units(kind) \in 1 .. 2
  BY DEF Octets, Units
<1>2. DOMAIN string = 1 .. Len(string) /\ Len(string) \in Nat
  OBVIOUS
<1>3. \A i \in DOMAIN string : string[i] \in Character
  BY <1>2
<1>4. \A i \in DOMAIN string :
        /\ Parts(string[i], Octets(string[i].kind)) \in Seq(Piece)
        /\ Parts(string[i], Units(string[i].kind)) \in Seq(Piece)
  BY <1>1, <1>3, PartsType
<1> DEFINE T == Seq(Piece)
<1>5. \A i \in 1 .. Len(string) : Pieces(string)[i] \in T /\ Utf16Pieces(string)[i] \in T
  BY <1>2, <1>4 DEF Pieces, Utf16Pieces
<1> HIDE DEF T
<1>6. /\ Pieces(string) = [i \in 1 .. Len(string) |-> Pieces(string)[i]]
      /\ Utf16Pieces(string) = [i \in 1 .. Len(string) |-> Utf16Pieces(string)[i]]
  BY <1>2 DEF Pieces, Utf16Pieces
<1>7. /\ Pieces(string) \in [1 .. Len(string) -> T]
      /\ Utf16Pieces(string) \in [1 .. Len(string) -> T]
  BY <1>5, <1>6
<1>8. /\ Pieces(string) \in Seq(T) /\ Len(Pieces(string)) = Len(string)
      /\ Utf16Pieces(string) \in Seq(T) /\ Len(Utf16Pieces(string)) = Len(string)
  BY <1>2, <1>7
<1> QED BY <1>8 DEF T

LEMMA EncodeType ==
  ASSUME NEW string \in Seq(Character)
  PROVE  Encode(string) \in Seq(Piece) /\ Utf16(string) \in Seq(Piece)
<1>1. Encode(string) = FlattenSeq(Pieces(string)) /\ Utf16(string) = FlattenSeq(Utf16Pieces(string))
  BY DEF Encode, Utf16, Pieces, Utf16Pieces
<1> QED BY <1>1, PiecesType, FlattenType

LEMMA EncodeConcat ==
  ASSUME NEW s \in Seq(Character), NEW t \in Seq(Character)
  PROVE  Encode(s \o t) = Encode(s) \o Encode(t)
<1>1. s \o t \in Seq(Character) /\ Len(s \o t) = Len(s) + Len(t)
  BY ConcatProperties
<1>2. /\ Pieces(s) \in Seq(Seq(Piece)) /\ Len(Pieces(s)) = Len(s)
      /\ Pieces(t) \in Seq(Seq(Piece)) /\ Len(Pieces(t)) = Len(t)
      /\ Pieces(s \o t) \in Seq(Seq(Piece)) /\ Len(Pieces(s \o t)) = Len(s \o t)
  BY <1>1, PiecesType
<1>3. /\ Pieces(s) \o Pieces(t) \in Seq(Seq(Piece))
      /\ Len(Pieces(s) \o Pieces(t)) = Len(s) + Len(t)
      /\ \A i \in 1 .. Len(s) + Len(t) :
           (Pieces(s) \o Pieces(t))[i] =
             IF i <= Len(s) THEN Pieces(s)[i] ELSE Pieces(t)[i - Len(s)]
  <2> DEFINE T == Seq(Piece)
  <2>1. Pieces(s) \in Seq(T) /\ Pieces(t) \in Seq(T)
    BY <1>2
  <2> HIDE DEF T
  <2>2. /\ Pieces(s) \o Pieces(t) \in Seq(T)
        /\ Len(Pieces(s) \o Pieces(t)) = Len(Pieces(s)) + Len(Pieces(t))
        /\ \A i \in 1 .. Len(Pieces(s)) + Len(Pieces(t)) :
             (Pieces(s) \o Pieces(t))[i] =
               IF i <= Len(Pieces(s)) THEN Pieces(s)[i] ELSE Pieces(t)[i - Len(Pieces(s))]
    BY <2>1, ConcatProperties
  <2> QED BY <1>2, <2>2 DEF T
<1>4. \A i \in 1 .. Len(s) + Len(t) :
        Pieces(s \o t)[i] = IF i <= Len(s) THEN Pieces(s)[i] ELSE Pieces(t)[i - Len(s)]
  <2> SUFFICES ASSUME NEW i \in 1 .. Len(s) + Len(t)
               PROVE  Pieces(s \o t)[i] = IF i <= Len(s) THEN Pieces(s)[i]
                                           ELSE Pieces(t)[i - Len(s)]
    OBVIOUS
  <2>1. i \in DOMAIN (s \o t)
    BY <1>1
  <2>2. (s \o t)[i] = IF i <= Len(s) THEN s[i] ELSE t[i - Len(s)]
    BY ConcatProperties
  <2>3. IF i <= Len(s) THEN i \in DOMAIN s ELSE i - Len(s) \in DOMAIN t
    OBVIOUS
  <2> HIDE <1>1, <1>2, <1>3
  <2> QED BY <2>1, <2>2, <2>3 DEF Pieces
<1>5. Pieces(s \o t) = Pieces(s) \o Pieces(t)
  <2> DEFINE T == Seq(Piece)
             a == Pieces(s \o t)
             b == Pieces(s) \o Pieces(t)
  <2>1. a \in Seq(T) /\ b \in Seq(T) /\ Len(a) = Len(b) /\ Len(b) = Len(s) + Len(t)
    BY <1>1, <1>2, <1>3
  <2>2. \A i \in 1 .. Len(s) + Len(t) : a[i] = b[i]
    BY <1>3, <1>4
  <2> HIDE DEF T, a, b
  <2>3. a = b
    BY <2>1, <2>2, SeqEqual
  <2> QED BY <2>3 DEF a, b
<1>6. FlattenSeq(Pieces(s) \o Pieces(t)) = FlattenSeq(Pieces(s)) \o FlattenSeq(Pieces(t))
  BY <1>2, FlattenConcat
<1> QED BY <1>5, <1>6 DEF Encode, Pieces

LEMMA EncodeOne ==
  ASSUME NEW c \in Character
  PROVE  Encode(<<c>>) = Parts(c, Octets(c.kind))
<1>1. Octets(c.kind) \in 1 .. 2
  BY DEF Octets
<1>2. Parts(c, Octets(c.kind)) \in Seq(Piece)
  BY <1>1, PartsType
<1>3. Pieces(<<c>>) = <<Parts(c, Octets(c.kind))>>
  BY DEF Pieces
<1>4. FlattenSeq(Pieces(<<c>>)) = Parts(c, Octets(c.kind))
  BY <1>2, <1>3, FlattenOne
<1> QED BY <1>4 DEF Encode, Pieces

LEMMA EncodeEmpty == Encode(<<>>) = <<>>
<1>1. Pieces(<<>>) = <<>>
  BY DEF Pieces
<1> QED BY <1>1, FlattenEmpty DEF Encode, Pieces

\* Every string comes out of its octets as it went in.
LEMMA DecodeEncode ==
  ASSUME NEW string \in Seq(Character)
  PROVE  Decode[Encode(string)] = string
<1> DEFINE U == {n \in Nat : \A s \in Seq(Character) : Len(s) = n => Decode[Encode(s)] = s}
<1>1. ASSUME NEW n \in Nat, \A m \in Nat : m < n => m \in U PROVE n \in U
  <2> SUFFICES ASSUME NEW s \in Seq(Character), Len(s) = n PROVE Decode[Encode(s)] = s
    OBVIOUS
  <2>1. CASE s = <<>>
    BY <2>1, EncodeEmpty, DecodeEquation
  <2>2. CASE s # <<>>
    <3>1. PICK t \in Seq(Character), c \in Character : s = Append(t, c)
      BY <2>2, SequenceEmptyOrAppend
    <3>2. s = t \o <<c>> /\ <<c>> \in Seq(Character) /\ Len(t) \in Nat /\ Len(t) < n
      BY <3>1
    <3> DEFINE k == Octets(c.kind)
               e == Encode(t)
               o == Encode(s)
    <3>3. k \in 1 .. 2
      BY DEF Octets
    <3>4. o = e \o Parts(c, k)
      BY <3>2, EncodeConcat, EncodeOne
    <3>5. e \in Seq(Piece) /\ o \in Seq(Piece)
      BY EncodeType
    <3> HIDE DEF k, e, o
    <3>6. /\ Parts(c, k) \in Seq(Piece) /\ Len(Parts(c, k)) = k
          /\ [Parts(c, k)[k] EXCEPT !.part = 1] = c
      BY <3>3, PartsType
    <3>7. /\ Len(o) = Len(e) + k /\ o[Len(o)] = Parts(c, k)[k] /\ Len(e) \in Nat
          /\ SubSeq(o, 1, Len(e)) = e /\ o # <<>>
      <4> DEFINE p == Parts(c, k)
      <4>1. p \in Seq(Piece) /\ Len(p) = k /\ o = e \o p
        BY <3>4, <3>6
      <4> HIDE DEF p
      <4>2. /\ Len(o) = Len(e) + k /\ Len(e) \in Nat
            /\ \A i \in 1 .. Len(e) + k : o[i] = IF i <= Len(e) THEN e[i] ELSE p[i - Len(e)]
        <5>1. /\ Len(e \o p) = Len(e) + Len(p) /\ Len(e) \in Nat
              /\ \A i \in 1 .. Len(e) + Len(p) :
                   (e \o p)[i] = IF i <= Len(e) THEN e[i] ELSE p[i - Len(e)]
          <6> HIDE <3>4
          <6>1. p \in Seq(Piece)
            BY <4>1
          <6> QED BY <3>5, <6>1, ConcatProperties
        <5> QED BY <4>1, <5>1
      <4>3. Len(o) \in 1 .. Len(e) + k /\ ~(Len(o) <= Len(e)) /\ Len(o) - Len(e) = k
        BY <3>3, <4>2
      <4>4. o[Len(o)] = p[k]
        BY <4>2, <4>3
      <4>5. /\ SubSeq(o, 1, Len(e)) \in Seq(Piece) /\ Len(SubSeq(o, 1, Len(e))) = Len(e)
            /\ \A i \in 1 .. Len(e) : SubSeq(o, 1, Len(e))[i] = o[i]
        BY <3>3, <3>5, <4>2
      <4>6. SubSeq(o, 1, Len(e)) = e
        BY <3>3, <3>5, <4>2, <4>5, SeqEqual
      <4>7. o # <<>>
        BY <3>3, <4>2
      <4> QED BY <4>2, <4>4, <4>6, <4>7 DEF p
    <3>8. LastChar(o) = c
      BY <3>6, <3>7 DEF LastChar, Last
    <3>9. BeforeLast(o) = Len(e)
      BY <3>3, <3>7, <3>8 DEF BeforeLast, k
    <3>10. WholeChar(o)
      <4>1. BeforeLast(o) >= 0
        BY <3>7, <3>9
      <4>2. Octets(LastChar(o).kind) = k
        BY <3>8 DEF k
      <4>3. o = SubSeq(o, 1, BeforeLast(o)) \o Parts(LastChar(o), Octets(LastChar(o).kind))
        BY <3>4, <3>7, <3>8, <3>9, <4>2
      <4> QED BY <4>1, <4>3 DEF WholeChar
    <3>11. DecodeFirst(o) = e /\ DecodeLast(o) = c
      BY <3>7, <3>8, <3>9, <3>10 DEF DecodeFirst, DecodeLast
    <3>12. Decode[o] = Append(Decode[e], c)
      BY <3>5, <3>7, <3>11, DecodeEquation
    <3>13. Decode[e] = t
      BY <1>1, <3>2 DEF e
    <3> QED BY <3>1, <3>12, <3>13 DEF o
  <2> QED BY <2>1, <2>2
<1> HIDE DEF U
<1>2. \A n \in Nat : n \in U
  BY <1>1, Induction
<1>3. Len(string) \in U
  BY <1>2
<1> QED BY <1>3 DEF U

--------------------------------------------------------------------------------
(* Packets *)

WithHeader(n, content) == <<HeaderLine(n), BlankLine>> \o content

LEMMA CharacterIsPiece ==
  ASSUME NEW string \in Seq(Character)
  PROVE  string \in Seq(Piece)
<1>1. Character \subseteq Piece
  BY DEF Character
<1> QED BY <1>1, SeqMonotonic

LEMMA HeaderLines ==
  ASSUME NEW n \in Nat
  PROVE  /\ HeaderLine(n) \in Character /\ BlankLine \in Character
         /\ HeaderLine(n) \in Piece /\ BlankLine \in Piece
         /\ HeaderLine(n).kind = "Content-Length" /\ HeaderLine(n).n = n
         /\ BlankLine.kind = "blank"
BY DEF HeaderLine, BlankLine, Char, Character, Piece

LEMMA WithHeaderShape ==
  ASSUME NEW n \in Nat, NEW S, S \subseteq Piece,
         HeaderLine(n) \in S, BlankLine \in S, NEW content \in Seq(S)
  PROVE  /\ WithHeader(n, content) \in Seq(S)
         /\ Len(WithHeader(n, content)) = 2 + Len(content)
         /\ WithHeader(n, content)[1] = HeaderLine(n)
         /\ WithHeader(n, content)[2] = BlankLine
         /\ Separator(WithHeader(n, content)) = 2
         /\ Content(WithHeader(n, content)) = content
<1> DEFINE h == <<HeaderLine(n), BlankLine>>
           f == WithHeader(n, content)
<1>1. h \in Seq(S) /\ Len(h) = 2 /\ h[1] = HeaderLine(n) /\ h[2] = BlankLine
  OBVIOUS
<1>2. f = h \o content
  BY DEF WithHeader
<1> HIDE DEF h, f
<1>3. /\ f \in Seq(S) /\ Len(f) = 2 + Len(content)
      /\ \A i \in 1 .. 2 + Len(content) : f[i] = IF i <= 2 THEN h[i] ELSE content[i - 2]
  <2>1. /\ h \o content \in Seq(S) /\ Len(h \o content) = Len(h) + Len(content)
        /\ \A i \in 1 .. Len(h) + Len(content) :
             (h \o content)[i] = IF i <= Len(h) THEN h[i] ELSE content[i - Len(h)]
    <3> HIDE <1>2
    <3> QED BY <1>1, ConcatProperties
  <2> QED BY <1>1, <1>2, <2>1
<1>4. Len(content) \in Nat
  OBVIOUS
<1>5. f[1] = HeaderLine(n) /\ f[2] = BlankLine
  BY <1>1, <1>3, <1>4
<1>6. Separator(f) = 2
  <2>1. f \in Seq(Piece)
    BY <1>3, SeqMonotonic
  <2> QED BY <1>3, <1>4, <1>5, <2>1, HeaderLines, SeparatorAfterHeader
<1>7. Content(f) = content
  <2>1. Content(f) = SubSeq(f, 3, Len(f))
    BY <1>6 DEF Content
  <2>2. /\ SubSeq(f, 3, Len(f)) \in Seq(S) /\ Len(SubSeq(f, 3, Len(f))) = Len(content)
        /\ \A i \in 1 .. Len(content) : SubSeq(f, 3, Len(f))[i] = f[i + 2]
    BY <1>3, <1>4
  <2>3. \A i \in 1 .. Len(content) : f[i + 2] = content[i]
    BY <1>3, <1>4
  <2>4. SubSeq(f, 3, Len(f)) = content
    BY <2>2, <2>3, SeqEqual
  <2> QED BY <2>1, <2>4
<1> QED BY <1>3, <1>5, <1>6, <1>7 DEF f

\* What is sent for a body in a direction: its content, and the length in its header.
ContentOf(dir, body) == IF dir = "up" THEN TransformUris(body) ELSE body
LengthOf(dir, body) ==
  IF dir = "up" THEN UnitsOf(ContentOf(dir, body)) ELSE Len(Encode(ContentOf(dir, body)))
PacketOf(dir, body) ==
  Encode(IF dir = "up" THEN TransformMessage(Frame(body)) ELSE ServerFrame(body))

LEMMA ReplaceType ==
  ASSUME NEW content \in Seq(Character)
  PROVE  /\ TransformUris(content) \in Seq(Character)
         /\ Len(TransformUris(content)) = Len(content)
<1>1. Char("server") \in Character
  BY DEF Char, Character, Piece, Text
<1>2. DOMAIN content = 1 .. Len(content) /\ Len(content) \in Nat
  OBVIOUS
<1>3. TransformUris(content) =
        [i \in 1 .. Len(content) |->
           IF content[i].kind = "client" THEN Char("server") ELSE content[i]]
  BY <1>2 DEF TransformUris, Replace
<1> QED BY <1>1, <1>2, <1>3

LEMMA ContentType ==
  ASSUME NEW dir, NEW body \in Seq(Character)
  PROVE  ContentOf(dir, body) \in Seq(Character) /\ LengthOf(dir, body) \in Nat
<1>1. ContentOf(dir, body) \in Seq(Character)
  BY ReplaceType DEF ContentOf
<1>2. /\ Encode(ContentOf(dir, body)) \in Seq(Piece)
      /\ Utf16(ContentOf(dir, body)) \in Seq(Piece)
  BY <1>1, EncodeType
<1> QED BY <1>1, <1>2 DEF LengthOf, UnitsOf

LEMMA PacketString ==
  ASSUME NEW dir, NEW body \in Seq(Character)
  PROVE  PacketOf(dir, body) = Encode(WithHeader(LengthOf(dir, body), ContentOf(dir, body)))
<1>1. CASE dir = "up"
  <2>1. UnitsOf(body) \in Nat
    BY EncodeType DEF UnitsOf
  <2>2. Frame(body) = WithHeader(UnitsOf(body), body)
    BY DEF Frame, WithHeader
  <2>3. Content(Frame(body)) = body
    BY <2>1, <2>2, HeaderLines, CharacterIsPiece, WithHeaderShape DEF Character
  <2>4. TransformMessage(Frame(body)) = Frame(TransformUris(body))
    BY <2>3 DEF TransformMessage
  <2> QED BY <1>1, <2>4 DEF PacketOf, ContentOf, LengthOf, Frame, WithHeader
<1>2. CASE dir # "up"
  BY <1>2 DEF PacketOf, ContentOf, LengthOf, ServerFrame, WithHeader
<1> QED BY <1>1, <1>2

LEMMA PacketOctets ==
  ASSUME NEW dir, NEW body \in Seq(Character)
  PROVE  PacketOf(dir, body) = WithHeader(LengthOf(dir, body), Encode(ContentOf(dir, body)))
<1> DEFINE n == LengthOf(dir, body)
           c == ContentOf(dir, body)
           h == <<HeaderLine(n), BlankLine>>
<1>1. n \in Nat /\ c \in Seq(Character)
  BY ContentType
<1>2. PacketOf(dir, body) = Encode(h \o c)
  BY PacketString DEF WithHeader
<1> HIDE DEF n, c
<1>3. HeaderLine(n) \in Character /\ BlankLine \in Character
  BY <1>1, HeaderLines
<1>4. h \in Seq(Character) /\ h = <<HeaderLine(n)>> \o <<BlankLine>>
  BY <1>3
<1>5. Encode(h \o c) = Encode(h) \o Encode(c)
  BY <1>1, <1>4, EncodeConcat
<1>6. Encode(h) = h
  <2>1. Encode(h) = Encode(<<HeaderLine(n)>>) \o Encode(<<BlankLine>>)
    <3>1. <<HeaderLine(n)>> \in Seq(Character) /\ <<BlankLine>> \in Seq(Character)
      BY <1>3
    <3>2. Encode(<<HeaderLine(n)>> \o <<BlankLine>>) =
            Encode(<<HeaderLine(n)>>) \o Encode(<<BlankLine>>)
      BY <3>1, EncodeConcat
    <3> QED BY <1>4, <3>2
  <2>2. /\ Encode(<<HeaderLine(n)>>) = Parts(HeaderLine(n), 1)
        /\ Encode(<<BlankLine>>) = Parts(BlankLine, 1)
    BY <1>1, <1>3, EncodeOne, HeaderLines DEF Octets
  <2>3. Parts(HeaderLine(n), 1) = <<HeaderLine(n)>> /\ Parts(BlankLine, 1) = <<BlankLine>>
    BY DEF Parts, HeaderLine, BlankLine, Char
  <2> QED BY <1>4, <2>1, <2>2, <2>3
<1> QED BY <1>2, <1>5, <1>6 DEF WithHeader, n, c

\* What the reader of the TCP connection is to make of a packet.
IsPacket(p) ==
  /\ p \in Seq(Piece) /\ Len(p) >= 2
  /\ p[1].kind = "Content-Length" /\ p[1].n \in Nat /\ p[2].kind = "blank"
Fits(p) == p[1].n + 2 = Len(p)

LEMMA PacketShape ==
  ASSUME NEW dir, NEW body \in Seq(Character)
  PROVE  /\ IsPacket(PacketOf(dir, body))
         /\ Content(Decode[PacketOf(dir, body)]) = ContentOf(dir, body)
         /\ PacketOf(dir, body)[1].n = LengthOf(dir, body)
         /\ Len(PacketOf(dir, body)) = 2 + Len(Encode(ContentOf(dir, body)))
<1> DEFINE n == LengthOf(dir, body)
           c == ContentOf(dir, body)
           p == PacketOf(dir, body)
<1>1. n \in Nat /\ c \in Seq(Character)
  BY ContentType
<1>2. p = Encode(WithHeader(n, c)) /\ p = WithHeader(n, Encode(c))
  BY PacketString, PacketOctets
<1> HIDE DEF n, c, p
<1>3. HeaderLine(n) \in Character /\ BlankLine \in Character /\ Character \subseteq Piece
  BY <1>1, HeaderLines DEF Character
<1>4. Encode(c) \in Seq(Piece)
  BY <1>1, EncodeType
<1>5. WithHeader(n, c) \in Seq(Character) /\ Content(WithHeader(n, c)) = c
  BY <1>1, <1>3, WithHeaderShape
<1>6. Decode[p] = WithHeader(n, c)
  BY <1>2, <1>5, DecodeEncode
<1>7. /\ p \in Seq(Piece) /\ Len(p) = 2 + Len(Encode(c))
      /\ p[1] = HeaderLine(n) /\ p[2] = BlankLine
  <2>1. HeaderLine(n) \in Piece /\ BlankLine \in Piece
    BY <1>3
  <2> QED BY <1>1, <1>2, <1>4, <2>1, WithHeaderShape
<1>8. IsPacket(p) /\ p[1].n = n
  <2>1. Len(Encode(c)) \in Nat
    BY <1>4
  <2> QED BY <1>1, <1>7, <2>1, HeaderLines DEF IsPacket
<1> QED BY <1>5, <1>6, <1>7, <1>8 DEF n, c, p

\* The language server counts octets.
LEMMA ResponsesFit ==
  ASSUME NEW body \in Seq(Character)
  PROVE  Fits(PacketOf("down", body))
<1>1. LengthOf("down", body) = Len(Encode(ContentOf("down", body)))
  BY DEF LengthOf
<1>2. Len(Encode(ContentOf("down", body))) \in Nat
  BY ContentType, EncodeType
<1> QED BY <1>1, <1>2, PacketShape DEF Fits

\* A UTF-16 code unit of ASCII is one octet of UTF-8.
LEMMA AsciiFits ==
  ASSUME NEW body \in Seq(Character),
         \A c \in DOMAIN body : body[c].kind # "wide"
  PROVE  Fits(PacketOf("up", body))
<1> DEFINE c == TransformUris(body)
<1>1. c \in Seq(Character)
  BY ReplaceType
<1>2. \A i \in DOMAIN c : c[i].kind # "wide"
  BY DEF TransformUris, Replace, Char
<1> HIDE DEF c
<1>3. \A i \in DOMAIN c : Octets(c[i].kind) = Units(c[i].kind)
  BY <1>2 DEF Octets, Units
<1>4. Pieces(c) = Utf16Pieces(c)
  BY <1>3 DEF Pieces, Utf16Pieces
<1>5. Encode(c) = Utf16(c)
  BY <1>4 DEF Encode, Utf16, Pieces, Utf16Pieces
<1>6. ContentOf("up", body) = c /\ LengthOf("up", body) = Len(Encode(c))
  BY <1>5 DEF ContentOf, LengthOf, UnitsOf, c
<1>7. Len(Encode(c)) \in Nat
  BY <1>1, EncodeType
<1> QED BY <1>6, <1>7, PacketShape DEF Fits

--------------------------------------------------------------------------------
(* Reading a stream of packets *)

Packets == {p \in Seq(Piece) : IsPacket(p)}

\* What is read is a beginning of the packets sent.
Arriving(octets, later, packets) ==
  /\ octets \in Seq(Piece) /\ later \in Seq(Piece) /\ packets \in Seq(Packets)
  /\ octets \o later = FlattenSeq(packets)

LEMMA PacketsType ==
  ASSUME NEW packets \in Seq(Packets)
  PROVE  /\ packets \in Seq(Seq(Piece)) /\ Len(packets) \in Nat
         /\ \A i \in 1 .. Len(packets) : packets[i] \in Seq(Piece) /\ IsPacket(packets[i])
<1>1. Packets \subseteq Seq(Piece)
  BY DEF Packets
<1>2. packets \in Seq(Seq(Piece))
  BY <1>1, SeqMonotonic
<1>3. \A i \in 1 .. Len(packets) : packets[i] \in Packets
  BY ElementOfSeq
<1> QED BY <1>2, <1>3 DEF Packets

Begins(octets, later, packets) ==
  /\ packets # <<>> /\ IsPacket(packets[1])
  /\ octets \o later = packets[1] \o FlattenSeq(SubSeq(packets, 2, Len(packets)))
  /\ FlattenSeq(SubSeq(packets, 2, Len(packets))) \in Seq(Piece)
  /\ octets[1] = packets[1][1]
  /\ Len(octets) >= 2 => octets[2] = packets[1][2]

LEMMA ArrivingHead ==
  ASSUME NEW octets, NEW later, NEW packets, Arriving(octets, later, packets),
         octets # <<>>
  PROVE  Begins(octets, later, packets)
<1> DEFINE p == packets[1]
           after == FlattenSeq(SubSeq(packets, 2, Len(packets)))
           whole == FlattenSeq(packets)
<1>1. /\ octets \in Seq(Piece) /\ later \in Seq(Piece) /\ packets \in Seq(Packets)
      /\ octets \o later = whole
  BY DEF Arriving
<1>2. packets \in Seq(Seq(Piece)) /\ Len(packets) \in Nat
  BY <1>1, PacketsType
<1>3. /\ Len(octets \o later) = Len(octets) + Len(later)
      /\ Len(octets) \in Nat /\ Len(later) \in Nat /\ Len(octets) >= 1
      /\ \A i \in 1 .. Len(octets) + Len(later) :
           (octets \o later)[i] = IF i <= Len(octets) THEN octets[i] ELSE later[i - Len(octets)]
  <2>1. octets \in Seq(Piece) /\ later \in Seq(Piece)
    BY <1>1
  <2> QED BY <2>1, ConcatProperties
<1>4. packets # <<>>
  <2> SUFFICES ASSUME packets = <<>> PROVE FALSE
    OBVIOUS
  <2>1. Len(octets \o later) = 0
    BY <1>1, FlattenEmpty
  <2> QED BY <1>3, <2>1
<1>5. whole = p \o after /\ p \in Seq(Piece) /\ after \in Seq(Piece)
  BY <1>2, <1>4, FlattenHead
<1>6. IsPacket(p)
  BY <1>1, <1>2, <1>4, PacketsType
<1> HIDE DEF p, after, whole
<1>7. /\ Len(p) \in Nat /\ Len(p) >= 2 /\ Len(after) \in Nat
      /\ (p \o after)[1] = p[1] /\ (p \o after)[2] = p[2]
  <2>1. Len(p) \in Nat /\ Len(p) >= 2 /\ Len(after) \in Nat
    BY <1>5, <1>6 DEF IsPacket
  <2>2. \A i \in 1 .. Len(p) + Len(after) :
          (p \o after)[i] = IF i <= Len(p) THEN p[i] ELSE after[i - Len(p)]
    <3>1. p \in Seq(Piece) /\ after \in Seq(Piece)
      BY <1>5
    <3> QED BY <3>1, ConcatProperties
  <2> QED BY <2>1, <2>2
<1>8. octets[1] = p[1] /\ (Len(octets) >= 2 => octets[2] = p[2])
  BY <1>1, <1>3, <1>5, <1>7
<1> QED BY <1>1, <1>4, <1>5, <1>6, <1>8 DEF p, after, Begins

LEMMA ArrivingHeader ==
  ASSUME NEW octets, NEW later, NEW packets, Arriving(octets, later, packets)
  PROVE  /\ ~Throws(octets)
         /\ octets # <<>> /\ (HasHeader(octets) \/ Len(octets) >= 2) =>
              Separator(octets) = 2 /\ Len(octets) >= 2
<1>1. octets \in Seq(Piece) /\ Len(octets) \in Nat
  BY DEF Arriving
<1>2. CASE octets = <<>>
  <2>1. Separator(octets) \in 0 .. Len(octets)
    BY <1>1, SeparatorDef
  <2>2. Len(octets) = 0
    BY <1>2
  <2> QED BY <1>2, <2>1, <2>2 DEF Throws, HasHeader
<1>3. CASE octets # <<>>
  <2>1. /\ octets[1].kind = "Content-Length"
        /\ Len(octets) >= 2 => octets[2].kind = "blank"
    BY <1>3, ArrivingHead DEF Begins, IsPacket
  <2>2. HasHeader(octets) => Len(octets) >= 2
    <3> SUFFICES ASSUME HasHeader(octets) PROVE Len(octets) >= 2
      OBVIOUS
    <3>1. /\ Separator(octets) \in 1 .. Len(octets)
          /\ octets[Separator(octets)].kind = "blank"
      BY <1>1, SeparatorDef DEF HasHeader, Blanks
    <3>2. Separator(octets) # 1
      BY <2>1, <3>1
    <3> QED BY <1>1, <3>1, <3>2
  <2>3. Len(octets) >= 2 => Separator(octets) = 2
    BY <1>1, <2>1, SeparatorAfterHeader
  <2> QED BY <2>1, <2>2, <2>3 DEF Throws
<1> QED BY <1>2, <1>3

\* A message is cut off where the packet ends if the header counts its octets.
LEMMA ArrivingFrame ==
  ASSUME NEW octets, NEW later, NEW packets, Arriving(octets, later, packets),
         Complete(octets), Fits(packets[1])
  PROVE  /\ FirstFrame(octets) = packets[1] /\ packets # <<>>
         /\ Arriving(AfterFrame(octets), later, SubSeq(packets, 2, Len(packets)))
<1> DEFINE p == packets[1]
           after == FlattenSeq(SubSeq(packets, 2, Len(packets)))
<1>1. octets \in Seq(Piece) /\ later \in Seq(Piece) /\ packets \in Seq(Packets)
  BY DEF Arriving
<1>2. HasHeader(octets) /\ octets # <<>>
  <2>1. HasHeader(octets)
    BY DEF Complete
  <2>2. Separator(octets) \in 1 .. Len(octets)
    BY <1>1, <2>1, SeparatorDef DEF HasHeader
  <2> QED BY <1>1, <2>1, <2>2
<1>3. Separator(octets) = 2
  BY <1>2, ArrivingHeader
<1>4. /\ packets # <<>> /\ IsPacket(p) /\ octets \o later = p \o after
      /\ after \in Seq(Piece) /\ octets[1] = p[1]
  <2>1. Begins(octets, later, packets)
    BY <1>2, ArrivingHead
  <2> QED BY <2>1, Zenon DEF Begins
<1> HIDE DEF after
<1>5. FrameLength(octets) = Len(p)
  BY <1>3, <1>4 DEF FrameLength, Fits, IsPacket
<1>6. /\ AfterFrame(octets) \in Seq(Piece) /\ FirstFrame(octets) \in Seq(Piece)
      /\ Len(FirstFrame(octets)) = Len(p)
      /\ octets = FirstFrame(octets) \o AfterFrame(octets)
  BY <1>1, <1>5, CutFrame
<1>7. FirstFrame(octets) = p /\ AfterFrame(octets) \o later = after
  <2> DEFINE a == FirstFrame(octets)
             b == AfterFrame(octets)
  <2>1. a \in Seq(Piece) /\ b \in Seq(Piece) /\ p \in Seq(Piece) /\ Len(a) = Len(p)
    BY <1>4, <1>6 DEF IsPacket
  <2>2. (a \o b) \o later = p \o after
    BY <1>4, <1>6
  <2> HIDE DEF a, b, p
  <2>3. (a \o b) \o later = a \o (b \o later)
    BY <1>1, <2>1, ConcatAssociative
  <2>4. b \o later \in Seq(Piece)
    BY <1>1, <2>1, ConcatProperties
  <2>5. a \o (b \o later) = p \o after
    BY <2>2, <2>3
  <2>6. a = p /\ b \o later = after
    <3> HIDE <2>2, <2>3
    <3> QED BY <1>4, <2>1, <2>4, <2>5, ConcatSplit
  <2> QED BY <2>6 DEF a, b
<1>8. SubSeq(packets, 2, Len(packets)) \in Seq(Packets)
  BY <1>1
<1> QED BY <1>1, <1>4, <1>6, <1>7, <1>8 DEF Arriving, after

AllFitIn(k, packets) == \A i \in 1 .. k : i \in 1 .. Len(packets) => Fits(packets[i])

\* While the packets fit, each message is a packet, and the rest is a beginning
\* of the packets after them.
Cut(messages, rest, later, packets) ==
  /\ \A i \in 1 .. Len(messages) : AllFitIn(i, packets) =>
       i <= Len(packets) /\ messages[i] = packets[i]
  /\ AllFitIn(Len(messages), packets) =>
       /\ Len(messages) <= Len(packets)
       /\ Arriving(rest, later, SubSeq(packets, Len(messages) + 1, Len(packets)))

LEMMA CutMore ==
  ASSUME NEW first, NEW messages \in Seq(Seq(Piece)), NEW rest, NEW later,
         NEW packets \in Seq(Packets), packets # <<>>,
         first = packets[1],
         Cut(messages, rest, later, SubSeq(packets, 2, Len(packets)))
  PROVE  Cut(<<first>> \o messages, rest, later, packets)
<1> DEFINE m == Len(messages)
           n == Len(packets)
           after == SubSeq(packets, 2, n)
           all == <<first>> \o messages
<1>1. /\ m \in Nat /\ n \in Nat /\ n >= 1 /\ packets \in Seq(Seq(Piece)) /\ first \in Seq(Piece)
  BY PacketsType
<1>2. /\ Len(after) = n - 1 /\ after \in Seq(Packets)
      /\ \A i \in 1 .. n - 1 : after[i] = packets[i + 1]
  <2>0. 2 \in Int /\ n \in Int /\ (2 <= n => n - 2 + 1 = n - 1) /\ (~(2 <= n) => n - 1 = 0)
    <3>1. n \in Nat /\ n >= 1
      BY <1>1
    <3> HIDE DEF n
    <3> QED BY <3>1
  <2>1. Len(after) = n - 1 /\ after \in Seq(Packets)
    <3>1. \A i \in 2 .. n : packets[i] \in Packets
      BY <1>1, ElementOfSeq
    <3> HIDE <1>1
    <3> HIDE DEF n
    <3>2. /\ SubSeq(packets, 2, n) \in Seq(Packets)
          /\ Len(SubSeq(packets, 2, n)) = IF 2 <= n THEN n - 2 + 1 ELSE 0
      BY <2>0, <3>1, SubSeqProperties
    <3> QED BY <2>0, <3>2
  <2>2. \A i \in 1 .. n - 1 : after[i] = packets[i + 1]
    BY <1>1
  <2> QED BY <2>1, <2>2
<1>3. /\ Len(all) = m + 1 /\ all[1] = first
      /\ \A i \in 1 .. m : all[i + 1] = messages[i]
  <2> DEFINE T == Seq(Piece)
  <2>1. messages \in Seq(T) /\ first \in T
    BY <1>1
  <2> HIDE DEF T
  <2>2. <<first>> \in Seq(T) /\ Len(<<first>>) = 1 /\ <<first>>[1] = first
    BY <2>1
  <2>3. /\ Len(<<first>> \o messages) = 1 + m
        /\ \A i \in 1 .. 1 + m :
             (<<first>> \o messages)[i] = IF i <= 1 THEN <<first>>[i] ELSE messages[i - 1]
    BY <2>1, <2>2, ConcatProperties
  <2>4. \A i \in 1 .. m : i + 1 \in 1 .. 1 + m /\ ~(i + 1 <= 1) /\ (i + 1) - 1 = i
    BY <1>1
  <2>5. 1 \in 1 .. 1 + m
    BY <1>1
  <2> QED BY <1>1, <2>2, <2>3, <2>4, <2>5
<1>4. \A i \in 1 .. m + 1 : AllFitIn(i, packets) => AllFitIn(i - 1, after)
  <2> SUFFICES ASSUME NEW i \in 1 .. m + 1, AllFitIn(i, packets),
                      NEW j \in 1 .. i - 1, j \in 1 .. Len(after)
               PROVE  Fits(after[j])
    BY DEF AllFitIn
  <2>1. j + 1 \in 1 .. i /\ j + 1 \in 1 .. n /\ after[j] = packets[j + 1]
    BY <1>1, <1>2
  <2> QED BY <2>1 DEF AllFitIn
<1>5. Cut(messages, rest, later, after)
  OBVIOUS
<1> HIDE DEF after, all, m, n
<1>6. ASSUME NEW i \in 1 .. m + 1, AllFitIn(i, packets)
      PROVE  i <= n /\ all[i] = packets[i]
  <2>1. CASE i = 1
    BY <1>1, <1>3, <2>1
  <2>2. CASE i # 1
    <3>1. i - 1 \in 1 .. m /\ AllFitIn(i - 1, after) /\ (i - 1) + 1 = i
      BY <1>1, <1>4, <1>6, <2>2
    <3>2. i - 1 <= n - 1 /\ messages[i - 1] = after[i - 1]
      BY <1>2, <1>5, <3>1 DEF Cut, m
    <3>3. i - 1 \in 1 .. n - 1
      BY <1>1, <3>1, <3>2
    <3>4. after[i - 1] = packets[i] /\ all[i] = messages[i - 1]
      BY <1>2, <1>3, <3>1, <3>3
    <3> QED BY <1>1, <3>2, <3>3, <3>4
  <2> QED BY <2>1, <2>2
<1>7. ASSUME AllFitIn(m + 1, packets)
      PROVE  m + 1 <= n /\ Arriving(rest, later, SubSeq(packets, (m + 1) + 1, n))
  <2>1. AllFitIn(m, after)
    <3>1. m + 1 \in 1 .. m + 1 /\ (m + 1) - 1 = m
      BY <1>1
    <3> QED BY <1>4, <1>7, <3>1
  <2>2. m <= n - 1 /\ Arriving(rest, later, SubSeq(after, m + 1, n - 1))
    BY <1>2, <1>5, <2>1 DEF Cut, m
  <2>3. SubSeq(after, m + 1, n - 1) = SubSeq(packets, (m + 1) + 1, n)
    <3>1. /\ SubSeq(after, m + 1, n - 1) \in Seq(Packets)
          /\ Len(SubSeq(after, m + 1, n - 1)) = (n - 1) - m
          /\ \A i \in 1 .. (n - 1) - m : SubSeq(after, m + 1, n - 1)[i] = after[i + m]
      BY <1>1, <1>2, <2>2
    <3>2. /\ SubSeq(packets, (m + 1) + 1, n) \in Seq(Packets)
          /\ Len(SubSeq(packets, (m + 1) + 1, n)) = (n - 1) - m
          /\ \A i \in 1 .. (n - 1) - m :
               SubSeq(packets, (m + 1) + 1, n)[i] = packets[(i + m) + 1]
      BY <1>1, <2>2 DEF n
    <3>3. \A i \in 1 .. (n - 1) - m : after[i + m] = packets[(i + m) + 1]
      BY <1>1, <1>2
    <3> QED BY <3>1, <3>2, <3>3, SeqEqual
  <2>4. m + 1 <= n
    BY <1>1, <2>2
  <2>5. Arriving(rest, later, SubSeq(packets, (m + 1) + 1, n))
    BY <2>2, <2>3, Zenon
  <2> QED BY <2>4, <2>5
<1> QED BY <1>3, <1>6, <1>7 DEF Cut, all, n

LEMMA LoopOnPackets ==
  ASSUME NEW octets, NEW later, NEW packets, Arriving(octets, later, packets)
  PROVE  Cut(Loop[octets].messages, Loop[octets].rest, later, packets)
<1> DEFINE U == {k \in Nat : \A o \in Seq(Piece), l \in Seq(Piece), p \in Seq(Packets) :
                   Len(o) = k /\ Arriving(o, l, p) => Cut(Loop[o].messages, Loop[o].rest, l, p)}
<1>1. ASSUME NEW k \in Nat, \A m \in Nat : m < k => m \in U PROVE k \in U
  <2> SUFFICES ASSUME NEW o \in Seq(Piece), NEW l \in Seq(Piece), NEW p \in Seq(Packets),
                      Len(o) = k, Arriving(o, l, p)
               PROVE  Cut(Loop[o].messages, Loop[o].rest, l, p)
    OBVIOUS
  <2>1. CASE ~Complete(o)
    <3>1. Loop[o] = [messages |-> <<>>, rest |-> o, threw |-> Throws(o)]
      BY <2>1, LoopEquation
    <3>2. Len(p) \in Nat /\ SubSeq(p, 1, Len(p)) = p /\ Len(<<>>) = 0 /\ 0 + 1 = 1
      BY SubSeqFull
    <3>3. Cut(<<>>, o, l, p)
      <4>1. \A i \in 1 .. 0 : FALSE
        OBVIOUS
      <4>2. 0 <= Len(p)
        BY <3>2
      <4>3. Arriving(o, l, SubSeq(p, 0 + 1, Len(p)))
        BY <3>2, Zenon
      <4> QED BY <3>2, <4>1, <4>2, <4>3, Zenon DEF Cut
    <3> QED BY <3>1, <3>3
  <2>2. CASE Complete(o)
    <3> DEFINE next == Loop[AfterFrame(o)]
    <3>1. /\ AfterFrame(o) \in Seq(Piece) /\ Len(AfterFrame(o)) < k
          /\ Len(AfterFrame(o)) \in Nat /\ FirstFrame(o) \in Seq(Piece)
      BY <2>2, CutFrame
    <3>2. next \in Result
      BY <3>1, LoopEquation
    <3>3. Loop[o] = [next EXCEPT !.messages = <<FirstFrame(o)>> \o @]
      BY <2>2, LoopEquation
    <3> HIDE DEF next
    <3>4. /\ Loop[o].messages = <<FirstFrame(o)>> \o next.messages
          /\ Loop[o].rest = next.rest
          /\ next.messages \in Seq(Seq(Piece))
      BY <3>2, <3>3 DEF Result
    <3>5. CASE Fits(p[1])
      <4> DEFINE q == SubSeq(p, 2, Len(p))
      <4>1. FirstFrame(o) = p[1] /\ p # <<>> /\ Arriving(AfterFrame(o), l, q)
        BY <2>2, <3>5, ArrivingFrame
      <4>2. q \in Seq(Packets)
        BY <4>1 DEF Arriving
      <4> HIDE DEF q
      <4>3. Len(AfterFrame(o)) \in U
        BY <1>1, <3>1
      <4>4. Cut(next.messages, next.rest, l, q)
        BY <3>1, <4>1, <4>2, <4>3 DEF next
      <4>5. Cut(<<FirstFrame(o)>> \o next.messages, next.rest, l, p)
        BY <3>4, <4>1, <4>4, CutMore DEF q
      <4> QED BY <3>4, <4>5
    <3>6. CASE ~Fits(p[1])
      <4>1. p # <<>>
        <5>1. Separator(o) \in 1 .. Len(o)
          BY <2>2, SeparatorDef DEF Complete, HasHeader
        <5>2. o # <<>>
          BY <5>1
        <5> QED BY <5>2, ArrivingHead DEF Begins
      <4>2. 1 \in 1 .. Len(p)
        BY <4>1
      <4>3. \A i \in Nat : i >= 1 => ~AllFitIn(i, p)
        BY <3>6, <4>2 DEF AllFitIn
      <4>4. Len(Loop[o].messages) \in Nat /\ Len(Loop[o].messages) >= 1
        <5> DEFINE T == Seq(Piece)
                   a == <<FirstFrame(o)>>
        <5>1. next.messages \in Seq(T) /\ a \in Seq(T) /\ Len(a) = 1
          BY <3>1, <3>4
        <5> HIDE DEF T, a
        <5> DEFINE b == next.messages
        <5>2. b \in Seq(T)
          BY <5>1
        <5> HIDE DEF b
        <5>3. Len(a \o b) = 1 + Len(b) /\ Len(b) \in Nat
          <6>1. Len(a \o b) = Len(a) + Len(b)
            BY <5>1, <5>2, ConcatProperties
          <6>2. Len(b) \in Nat
            BY <5>2, LenProperties
          <6> QED BY <5>1, <6>1, <6>2
        <5> QED BY <3>4, <5>3 DEF a, b
      <4> QED BY <4>3, <4>4 DEF Cut
    <3> QED BY <3>5, <3>6
  <2> QED BY <2>1, <2>2
<1> HIDE DEF U
<1>2. \A k \in Nat : k \in U
  BY <1>1, Induction
<1>3. octets \in Seq(Piece) /\ later \in Seq(Piece) /\ packets \in Seq(Packets)
  BY DEF Arriving
<1>4. Len(octets) \in U
  BY <1>2, <1>3
<1> QED BY <1>3, <1>4 DEF U

--------------------------------------------------------------------------------
(* What is written and what is read *)

Sent(dir, bodies) == [i \in 1 .. Len(bodies) |-> PacketOf(dir, bodies[i])]
Unread(dir, bodies, handed) == SubSeq(Sent(dir, bodies), Len(handed) + 1, Len(bodies))

\* As long as the headers count octets, what has been handed on are the bodies
\* sent, and what has not is in the buffer and on the wire.
InStep(dir, bodies, flight, held, handed) ==
  /\ \A i \in 1 .. Len(handed) : AllFitIn(i, Sent(dir, bodies)) =>
       i <= Len(bodies) /\ handed[i] = ContentOf(dir, bodies[i])
  /\ AllFitIn(Len(handed), Sent(dir, bodies)) =>
       Len(handed) <= Len(bodies) /\ Arriving(held, flight, Unread(dir, bodies, handed))

LEMMA SentType ==
  ASSUME NEW dir, NEW bodies \in Seq(Seq(Character))
  PROVE  /\ Sent(dir, bodies) \in Seq(Packets)
         /\ Len(Sent(dir, bodies)) = Len(bodies) /\ Len(bodies) \in Nat
         /\ \A i \in 1 .. Len(bodies) : /\ bodies[i] \in Seq(Character)
                                       /\ Sent(dir, bodies)[i] = PacketOf(dir, bodies[i])
<1>1. Len(bodies) \in Nat /\ \A i \in 1 .. Len(bodies) : bodies[i] \in Seq(Character)
  OBVIOUS
<1>2. \A i \in 1 .. Len(bodies) : PacketOf(dir, bodies[i]) \in Packets
  BY <1>1, PacketShape DEF Packets, IsPacket
<1> DEFINE n == Len(bodies)
           s == Sent(dir, bodies)
<1>3. s = [i \in 1 .. n |-> PacketOf(dir, bodies[i])]
  BY DEF Sent
<1>4. n \in Nat /\ \A i \in 1 .. n : PacketOf(dir, bodies[i]) \in Packets
  BY <1>1, <1>2
<1> HIDE DEF n, s
<1>5. s \in Seq(Packets) /\ Len(s) = n
  BY <1>3, <1>4
<1> QED BY <1>1, <1>3, <1>5 DEF n, s

LEMMA InStepAtFirst ==
  ASSUME NEW dir
  PROVE  InStep(dir, <<>>, <<>>, <<>>, <<>>)
<1>1. <<>> \in Seq(Seq(Character)) /\ Len(<<>>) = 0 /\ <<>> \in Seq(Piece)
  OBVIOUS
<1>2. Sent(dir, <<>>) = <<>>
  BY <1>1 DEF Sent
<1>3. Unread(dir, <<>>, <<>>) = <<>>
  <2>1. SubSeq(<<>>, 0 + 1, 0) = <<>>
    BY SubSeqEmpty
  <2> QED BY <1>1, <1>2, <2>1 DEF Unread
<1>4. <<>> \in Seq(Packets) /\ <<>> \o <<>> = <<>>
  OBVIOUS
<1>5. Arriving(<<>>, <<>>, <<>>)
  BY <1>1, <1>4, FlattenEmpty DEF Arriving
<1>6. \A i \in 1 .. 0 : FALSE
  OBVIOUS
<1>7. 0 <= 0
  OBVIOUS
<1> QED BY <1>1, <1>3, <1>5, <1>6, <1>7, Zenon DEF InStep

LEMMA InStepAfterWrite ==
  ASSUME NEW dir, NEW bodies \in Seq(Seq(Character)), NEW body \in Seq(Character),
         NEW flight \in Seq(Piece), NEW held \in Seq(Piece),
         NEW handed \in Seq(Seq(Character)),
         InStep(dir, bodies, flight, held, handed)
  PROVE  InStep(dir, Append(bodies, body), flight \o PacketOf(dir, body), held, handed)
<1> DEFINE more == Append(bodies, body)
           p == PacketOf(dir, body)
           n == Len(bodies)
           r == Len(handed)
           sent == Sent(dir, bodies)
           sentMore == Sent(dir, more)
<1>1. r \in Nat /\ n \in Nat
  OBVIOUS
<1>2. /\ more \in Seq(Seq(Character)) /\ Len(more) = n + 1 /\ more[n + 1] = body
      /\ \A i \in 1 .. n : more[i] = bodies[i]
  <2> DEFINE T == Seq(Character)
  <2>1. bodies \in Seq(T) /\ body \in T
    OBVIOUS
  <2> HIDE DEF T
  <2>2. /\ Append(bodies, body) \in Seq(T) /\ Len(Append(bodies, body)) = n + 1
        /\ Append(bodies, body)[n + 1] = body
        /\ \A i \in 1 .. n : Append(bodies, body)[i] = bodies[i]
    BY <2>1, AppendProperties
  <2> QED BY <2>2 DEF T
<1>3. /\ sent \in Seq(Packets) /\ Len(sent) = n
      /\ sentMore \in Seq(Packets) /\ Len(sentMore) = n + 1
  <2> HIDE DEF more
  <2> QED BY <1>2, SentType
<1>4. sentMore[n + 1] = p /\ \A i \in 1 .. n : sentMore[i] = sent[i]
  <2>1. n + 1 \in 1 .. Len(more) /\ \A i \in 1 .. n : i \in 1 .. Len(more)
    BY <1>1, <1>2
  <2>2. \A i \in 1 .. Len(more) : sentMore[i] = PacketOf(dir, more[i])
    BY <1>2, SentType
  <2>3. \A i \in 1 .. n : sent[i] = PacketOf(dir, bodies[i])
    BY SentType
  <2> QED BY <1>2, <2>1, <2>2, <2>3, Zenon
<1>5. ASSUME NEW i \in Nat, AllFitIn(i, sentMore)
      PROVE  AllFitIn(i, sent)
  <2> SUFFICES ASSUME NEW j \in 1 .. i, j \in 1 .. n PROVE Fits(sent[j])
    BY <1>3 DEF AllFitIn
  <2>1. j \in 1 .. n + 1 /\ sentMore[j] = sent[j]
    BY <1>1, <1>4
  <2> QED BY <1>3, <1>5, <2>1 DEF AllFitIn
<1>6. p \in Seq(Piece) /\ IsPacket(p)
  BY PacketShape DEF IsPacket
<1> HIDE DEF more, p, sent, sentMore, n, r
<1>7. ASSUME NEW i \in 1 .. r, AllFitIn(i, sentMore)
      PROVE  i <= n + 1 /\ handed[i] = ContentOf(dir, more[i])
  <2>1. AllFitIn(i, sent)
    BY <1>1, <1>5, <1>7
  <2>2. i <= n /\ handed[i] = ContentOf(dir, bodies[i])
    BY <2>1 DEF InStep, sent, n, r
  <2>3. i \in 1 .. n /\ i <= n + 1
    BY <1>1, <2>2
  <2> QED BY <1>2, <2>2, <2>3
<1>8. ASSUME AllFitIn(r, sentMore)
      PROVE  r <= n + 1 /\ Arriving(held, flight \o p, SubSeq(sentMore, r + 1, n + 1))
  <2> DEFINE left == SubSeq(sent, r + 1, n)
             leftMore == SubSeq(sentMore, r + 1, n + 1)
  <2>1. AllFitIn(r, sent)
    BY <1>1, <1>5, <1>8
  <2>2. r <= n /\ Arriving(held, flight, left)
    BY <2>1 DEF InStep, Unread, sent, n, r
  <2>3. /\ left \in Seq(Packets) /\ Len(left) = n - r
        /\ \A i \in 1 .. n - r : left[i] = sent[i + r]
    BY <1>1, <1>3, <2>2
  <2>4. /\ leftMore \in Seq(Packets) /\ Len(leftMore) = (n - r) + 1
        /\ \A i \in 1 .. (n - r) + 1 : leftMore[i] = sentMore[i + r]
    BY <1>1, <1>3, <2>2
  <2> HIDE DEF left, leftMore
  <2>5. leftMore = Append(left, p)
    <3>1. /\ Append(left, p) \in Seq(Packets) /\ Len(Append(left, p)) = (n - r) + 1
          /\ Append(left, p)[(n - r) + 1] = p
          /\ \A i \in 1 .. n - r : Append(left, p)[i] = left[i]
      <4>1. p \in Packets
        BY <1>6 DEF Packets
      <4>2. /\ Append(left, p) \in Seq(Packets) /\ Len(Append(left, p)) = Len(left) + 1
            /\ Append(left, p)[Len(left) + 1] = p
            /\ \A i \in 1 .. Len(left) : Append(left, p)[i] = left[i]
        BY <2>3, <4>1, AppendProperties
      <4> QED BY <2>3, <4>2
    <3>2. ASSUME NEW i \in 1 .. (n - r) + 1 PROVE leftMore[i] = Append(left, p)[i]
      <4>1. CASE i = (n - r) + 1
        <5>1. i + r = n + 1
          BY <1>1, <4>1
        <5> QED BY <1>4, <2>4, <3>1, <4>1, <5>1
      <4>2. CASE i # (n - r) + 1
        <5>1. i \in 1 .. n - r /\ i + r \in 1 .. n
          BY <1>1, <2>2, <4>2
        <5> QED BY <1>4, <2>3, <2>4, <3>1, <5>1
      <4> QED BY <4>1, <4>2
    <3> QED BY <2>4, <3>1, <3>2, SeqEqual
  <2>6. FlattenSeq(leftMore) = held \o (flight \o p)
    <3>1. left \in Seq(Seq(Piece))
      BY <2>3, PacketsType
    <3>2. FlattenSeq(leftMore) = FlattenSeq(left) \o p
      BY <1>6, <2>5, <3>1, FlattenAppend
    <3>3. FlattenSeq(left) = held \o flight
      BY <2>2 DEF Arriving
    <3>4. (held \o flight) \o p = held \o (flight \o p)
      BY <1>6, ConcatAssociative
    <3> QED BY <3>2, <3>3, <3>4
  <2>7. flight \o p \in Seq(Piece)
    BY <1>6, ConcatProperties
  <2>8. Arriving(held, flight \o p, leftMore)
    BY <2>4, <2>6, <2>7 DEF Arriving
  <2>9. r <= n + 1
    BY <1>1, <2>2
  <2> QED BY <2>8, <2>9 DEF leftMore
<1>9. Len(more) = n + 1
  BY <1>2
<1> QED BY <1>7, <1>8, <1>9, Zenon DEF InStep, Unread, sentMore, p, more, r

LEMMA ContentOfString ==
  ASSUME NEW string \in Seq(Character)
  PROVE  Content(string) \in Seq(Character)
<1>1. Separator(string) \in 0 .. Len(string) /\ Len(string) \in Nat
  BY CharacterIsPiece, SeparatorDef
<1> DEFINE k == Separator(string)
<1>2. k \in 0 .. Len(string)
  BY <1>1
<1> HIDE DEF k
<1>3. \A i \in k + 1 .. Len(string) : string[i] \in Character
  BY <1>1, <1>2
<1>4. SubSeq(string, k + 1, Len(string)) \in Seq(Character)
  BY <1>1, <1>2, <1>3, SubSeqProperties
<1> QED BY <1>4 DEF Content, k

\* The messages of a chunk, as they are delivered.
Contents(messages) == [i \in DOMAIN messages |-> Content(Decode[messages[i]])]

LEMMA ContentsType ==
  ASSUME NEW messages \in Seq(Seq(Piece))
  PROVE  /\ Contents(messages) \in Seq(Seq(Character))
         /\ Len(Contents(messages)) = Len(messages) /\ Len(messages) \in Nat
         /\ \A i \in 1 .. Len(messages) : Contents(messages)[i] = Content(Decode[messages[i]])
<1> DEFINE n == Len(messages)
           T == Seq(Character)
           c == Contents(messages)
<1>1. n \in Nat /\ DOMAIN messages = 1 .. n /\ \A i \in 1 .. n : messages[i] \in Seq(Piece)
  OBVIOUS
<1>2. \A i \in 1 .. n : Content(Decode[messages[i]]) \in T
  BY <1>1, DecodeEquation, ContentOfString
<1>3. c = [i \in 1 .. n |-> Content(Decode[messages[i]])]
  BY <1>1 DEF Contents
<1> HIDE DEF n, T, c
<1>4. c \in Seq(T) /\ Len(c) = n
  BY <1>1, <1>2, <1>3
<1> QED BY <1>1, <1>3, <1>4 DEF n, T, c

LEMMA InStepAfterRead ==
  ASSUME NEW dir, NEW bodies \in Seq(Seq(Character)),
         NEW flight \in Seq(Piece), NEW held \in Seq(Piece),
         NEW handed \in Seq(Seq(Character)),
         NEW k \in 0 .. Len(flight),
         InStep(dir, bodies, flight, held, handed)
  PROVE  LET result == Loop[held \o SubSeq(flight, 1, k)] IN
           InStep(dir, bodies, SubSeq(flight, k + 1, Len(flight)), result.rest,
                  handed \o Contents(result.messages))
<1> DEFINE now == SubSeq(flight, 1, k)
           later == SubSeq(flight, k + 1, Len(flight))
           octets == held \o now
           result == Loop[octets]
           new == result.messages
           n == Len(bodies)
           r == Len(handed)
           m == Len(new)
           sent == Sent(dir, bodies)
           left == SubSeq(sent, r + 1, n)
           all == handed \o Contents(new)
<1>1. now \in Seq(Piece) /\ later \in Seq(Piece) /\ now \o later = flight
  <2>1. now \in Seq(Piece) /\ later \in Seq(Piece)
    OBVIOUS
  <2>2. now \o later = flight
    BY SplitSeq
  <2> QED BY <2>1, <2>2
<1> HIDE DEF now, later
<1>2. octets \in Seq(Piece) /\ octets \o later = held \o flight
  <2>1. held \o now \in Seq(Piece)
    BY <1>1, ConcatProperties
  <2>2. (held \o now) \o later = held \o (now \o later)
    BY <1>1, ConcatThree
  <2> QED BY <1>1, <2>1, <2>2
<1> HIDE DEF octets
<1>3. result \in Result
  BY <1>2, LoopEquation
<1> HIDE DEF result
<1>4. new \in Seq(Seq(Piece))
  BY <1>3 DEF Result
<1> HIDE DEF new
<1>5. /\ Contents(new) \in Seq(Seq(Character)) /\ Len(Contents(new)) = m /\ m \in Nat
      /\ \A i \in 1 .. m : Contents(new)[i] = Content(Decode[new[i]])
  BY <1>4, ContentsType
<1>6. r \in Nat /\ n \in Nat
  OBVIOUS
<1>7. /\ Len(all) = r + m
      /\ \A i \in 1 .. r + m : all[i] = IF i <= r THEN handed[i] ELSE Contents(new)[i - r]
  <2> DEFINE T == Seq(Character)
             c == Contents(new)
  <2>1. handed \in Seq(T) /\ c \in Seq(T) /\ Len(c) = m
    BY <1>5
  <2> HIDE DEF T, c
  <2>2. /\ Len(handed \o c) = Len(handed) + Len(c)
        /\ \A i \in 1 .. Len(handed) + Len(c) :
             (handed \o c)[i] = IF i <= Len(handed) THEN handed[i] ELSE c[i - Len(handed)]
    BY <2>1, ConcatProperties
  <2> QED BY <2>1, <2>2 DEF c
<1>8. /\ sent \in Seq(Packets) /\ Len(sent) = n
      /\ \A i \in 1 .. n : bodies[i] \in Seq(Character) /\ sent[i] = PacketOf(dir, bodies[i])
  BY SentType
<1> HIDE DEF n, r, m, sent, all
<1>9. \A i, j \in Nat : i <= j /\ AllFitIn(j, sent) => AllFitIn(i, sent)
  BY DEF AllFitIn
<1>10. r <= n => /\ left \in Seq(Packets) /\ Len(left) = n - r
                /\ \A i \in 1 .. n - r : left[i] = sent[i + r]
  BY <1>6, <1>8
<1> HIDE DEF left
<1>11. ASSUME AllFitIn(r, sent)
       PROVE  r <= n /\ Cut(new, result.rest, later, left)
  <2>1. r <= n /\ Arriving(held, flight, left)
    BY <1>11 DEF InStep, Unread, sent, n, r, left
  <2>2. Arriving(octets, later, left)
    BY <1>1, <1>2, <2>1 DEF Arriving
  <2> QED BY <2>1, <2>2, LoopOnPackets DEF new, result
<1>12. ASSUME NEW i \in Nat, AllFitIn(r + i, sent), r <= n
       PROVE  AllFitIn(i, left)
  <2> SUFFICES ASSUME NEW j \in 1 .. i, j \in 1 .. Len(left) PROVE Fits(left[j])
    BY DEF AllFitIn
  <2>1. j + r \in 1 .. r + i /\ j + r \in 1 .. n /\ left[j] = sent[j + r]
    BY <1>6, <1>10, <1>12
  <2> QED BY <1>8, <1>12, <2>1 DEF AllFitIn
<1>13. ASSUME NEW i \in 1 .. r + m, AllFitIn(i, sent)
       PROVE  i <= n /\ all[i] = ContentOf(dir, bodies[i])
  <2>1. CASE i <= r
    <3>1. i \in 1 .. r
      BY <1>6, <2>1
    <3>2. i <= n /\ handed[i] = ContentOf(dir, bodies[i])
      BY <1>13, <3>1 DEF InStep, sent, n, r
    <3> QED BY <1>7, <2>1, <3>2
  <2>2. CASE ~(i <= r)
    <3>1. AllFitIn(r, sent)
      BY <1>6, <1>9, <1>13, <2>2
    <3>2. r <= n /\ Cut(new, result.rest, later, left)
      BY <1>11, <3>1
    <3>3. i - r \in 1 .. m /\ r + (i - r) = i /\ i - r \in Nat
      BY <1>5, <1>6, <2>2
    <3>4. AllFitIn(i - r, left)
      BY <1>12, <1>13, <3>2, <3>3
    <3>5. i - r <= Len(left) /\ new[i - r] = left[i - r]
      BY <3>2, <3>3, <3>4 DEF Cut, m
    <3>6. i \in 1 .. n /\ i - r \in 1 .. n - r /\ (i - r) + r = i
      BY <1>6, <1>10, <3>2, <3>3, <3>5
    <3>7. new[i - r] = PacketOf(dir, bodies[i]) /\ bodies[i] \in Seq(Character)
      BY <1>8, <1>10, <3>2, <3>5, <3>6
    <3>8. all[i] = Content(Decode[new[i - r]])
      BY <1>5, <1>7, <2>2, <3>3
    <3>9. all[i] = ContentOf(dir, bodies[i])
      BY <3>7, <3>8, PacketShape
    <3>10. i <= n
      BY <3>6
    <3> QED BY <3>9, <3>10
  <2> QED BY <2>1, <2>2
<1>14. ASSUME AllFitIn(r + m, sent)
       PROVE  /\ r + m <= n
              /\ Arriving(result.rest, later, SubSeq(sent, (r + m) + 1, n))
  <2>1. r <= r + m /\ r + m \in Nat
    BY <1>5, <1>6
  <2>2. r <= n /\ Cut(new, result.rest, later, left)
    BY <1>6, <1>9, <1>11, <1>14, <2>1
  <2>3. AllFitIn(m, left)
    BY <1>5, <1>12, <1>14, <2>2
  <2>4. m <= n - r /\ Arriving(result.rest, later, SubSeq(left, m + 1, n - r))
    BY <1>10, <2>2, <2>3 DEF Cut, m
  <2>5. SubSeq(left, m + 1, n - r) = SubSeq(sent, (r + m) + 1, n)
    <3> DEFINE a == SubSeq(left, m + 1, n - r)
               b == SubSeq(sent, (r + m) + 1, n)
    <3>1. /\ a \in Seq(Packets) /\ Len(a) = (n - r) - m
          /\ \A i \in 1 .. (n - r) - m : a[i] = left[i + m]
      BY <1>5, <1>6, <1>10, <2>2, <2>4
    <3>2. /\ b \in Seq(Packets) /\ Len(b) = (n - r) - m
          /\ \A i \in 1 .. (n - r) - m : b[i] = sent[(i + m) + r]
      BY <1>5, <1>6, <1>8, <2>2, <2>4
    <3>3. \A i \in 1 .. (n - r) - m : left[i + m] = sent[(i + m) + r]
      BY <1>5, <1>6, <1>10, <2>2, <2>4
    <3> HIDE DEF a, b
    <3>4. a = b
      BY <3>1, <3>2, <3>3, SeqEqual
    <3> QED BY <3>4 DEF a, b
  <2>6. r + m <= n
    BY <1>5, <1>6, <2>4
  <2>7. Arriving(result.rest, later, SubSeq(sent, (r + m) + 1, n))
    BY <2>4, <2>5, Zenon
  <2> QED BY <2>6, <2>7
<1>15. InStep(dir, bodies, later, result.rest, all)
  BY <1>7, <1>13, <1>14, Zenon DEF InStep, Unread, sent, n
<1> QED BY <1>15 DEF later, result, octets, now, all, new

--------------------------------------------------------------------------------
(* The invariant *)

\* The types, how the two ends of the connection agree, and that the reader has
\* cut off all it can and threw when it had to.
Inv ==
  /\ direction \in {"up", "down"}
  /\ written \in Seq(Bodies) /\ Len(written) <= MaxMessages
  /\ wire \in Seq(Piece) /\ buffer \in Seq(Piece)
  /\ received \in Seq(Seq(Character))
  /\ threw \in BOOLEAN
  /\ InStep(direction, written, wire, buffer, received)
  /\ ~Complete(buffer) /\ threw = Throws(buffer)

LEMMA BodiesType ==
  ASSUME direction \in {"up", "down"}
  PROVE  /\ Bodies \subseteq Seq(Character)
         /\ written \in Seq(Bodies) => written \in Seq(Seq(Character))
<1>1. ASSUME NEW body \in Bodies PROVE body \in Seq(Character)
  <2>1. PICK n \in 1 .. MaxLength : body \in [1 .. n -> {Char(kind) : kind \in Kinds[direction]}]
    BY DEF Bodies
  <2>2. n \in Nat
    BY <2>1, BoundsAssumption
  <2>3. DOMAIN body = 1 .. n /\ \A i \in 1 .. n : body[i] \in {Char(kind) : kind \in Kinds[direction]}
    BY <2>1
  <2> SUFFICES \A i \in 1 .. n : body[i] \in Character
    BY <2>1, <2>2
  <2> SUFFICES ASSUME NEW i \in 1 .. n PROVE body[i] \in Character
    OBVIOUS
  <2>4. PICK kind \in Kinds[direction] : body[i] = Char(kind)
    BY <2>3
  <2>5. kind \in Text
    BY DEF Kinds, Text
  <2> QED BY <2>4, <2>5 DEF Char, Character, Piece
<1>2. Bodies \subseteq Seq(Character)
  BY <1>1
<1> QED BY <1>2, SeqMonotonic

LEMMA DeliveredContent ==
  \A message : Delivered(message) = Content(Decode[message])
BY DEF Delivered, TransformResponseMessage

LEMMA InvInit == Init => Inv
<1> SUFFICES ASSUME Init PROVE Inv
  OBVIOUS
<1> USE DEF Init
<1>1. written \in Seq(Bodies) /\ Len(written) <= MaxMessages
  BY BoundsAssumption
<1>2. wire \in Seq(Piece) /\ buffer \in Seq(Piece) /\ received \in Seq(Seq(Character))
  OBVIOUS
<1>3. InStep(direction, written, wire, buffer, received)
  BY InStepAtFirst
<1>4. ~HasHeader(buffer)
  <2>1. Separator(buffer) \in 0 .. Len(buffer)
    BY <1>2, SeparatorDef
  <2>2. Len(buffer) = 0
    OBVIOUS
  <2> QED BY <2>1, <2>2 DEF HasHeader
<1> QED BY <1>1, <1>2, <1>3, <1>4 DEF Inv, Complete, Throws

LEMMA InvWrite ==
  ASSUME Inv, NEW body \in Bodies, Write(body)
  PROVE  Inv'
<1> USE DEF Write
<1>1. Bodies' = Bodies
  BY DEF Bodies
<1>2. written \in Seq(Seq(Character)) /\ body \in Seq(Character)
  BY BodiesType DEF Inv
<1>3. written' \in Seq(Bodies) /\ Len(written') <= MaxMessages
  <2>1. written \in Seq(Bodies) /\ Len(written) \in Nat
    BY DEF Inv
  <2>2. /\ Append(written, body) \in Seq(Bodies)
        /\ Len(Append(written, body)) = Len(written) + 1
    BY <2>1, AppendProperties
  <2> QED BY <2>1, <2>2, BoundsAssumption
<1>4. Packet(body) = PacketOf(direction, body)
  BY DEF Packet, PacketOf
<1>5. wire' \in Seq(Piece)
  <2>1. Packet(body) \in Seq(Piece) /\ wire \in Seq(Piece)
    BY <1>2, <1>4, PacketShape DEF IsPacket, Inv
  <2> QED BY <2>1, ConcatProperties
<1>6. InStep(direction, Append(written, body), wire \o Packet(body), buffer, received)
  BY <1>2, <1>4, InStepAfterWrite DEF Inv
<1>7. InStep(direction, written, wire, buffer, received)'
  BY <1>6
<1> QED BY <1>1, <1>3, <1>5, <1>7 DEF Inv, Complete, Throws, HasHeader, FrameLength

LEMMA InvRead ==
  ASSUME Inv, NEW n \in 1 .. Len(wire), Read(n)
  PROVE  Inv'
<1> DEFINE octets == buffer \o SubSeq(wire, 1, n)
           result == Loop[octets]
<1>1. Bodies' = Bodies
  BY DEF Bodies, Read
<1>2. /\ written \in Seq(Seq(Character)) /\ wire \in Seq(Piece) /\ buffer \in Seq(Piece)
      /\ received \in Seq(Seq(Character)) /\ n \in 0 .. Len(wire)
  BY BodiesType DEF Inv
<1>3. /\ buffer' = result.rest /\ threw' = result.threw
      /\ wire' = SubSeq(wire, n + 1, Len(wire))
      /\ UNCHANGED <<direction, written>>
      /\ received' = received \o Contents(result.messages)
  BY DeliveredContent DEF Read, OnData, Contents
<1>4. octets \in Seq(Piece)
  <2>1. SubSeq(wire, 1, n) \in Seq(Piece)
    BY <1>2
  <2> QED BY <1>2, <2>1, ConcatProperties
<1>5. InStep(direction, written, wire', buffer', received')
  BY <1>2, <1>3, InStepAfterRead DEF Inv
<1> HIDE DEF octets
<1>6. result \in Result /\ ~Complete(result.rest) /\ result.threw = Throws(result.rest)
  BY <1>4, LoopEquation, LoopRest
<1> HIDE DEF result
<1>7. buffer' \in Seq(Piece) /\ threw' \in BOOLEAN /\ wire' \in Seq(Piece)
  BY <1>2, <1>3, <1>6 DEF Result
<1>8. received' \in Seq(Seq(Character))
  <2> DEFINE T == Seq(Character)
             c == Contents(result.messages)
  <2>1. c \in Seq(T) /\ received \in Seq(T)
    BY <1>2, <1>6, ContentsType DEF Result
  <2> HIDE DEF T, c
  <2>2. received \o c \in Seq(T)
    BY <2>1, ConcatProperties
  <2> QED BY <1>3, <2>2 DEF T, c
<1>9. ~Complete(buffer)' /\ threw' = Throws(buffer)'
  BY <1>3, <1>6 DEF Complete, Throws, HasHeader, FrameLength
<1>10. InStep(direction, written, wire, buffer, received)'
  BY <1>3, <1>5
<1>11. written' \in Seq(Bodies) /\ Len(written') <= MaxMessages /\ direction' \in {"up", "down"}
  BY <1>3 DEF Inv
<1> QED BY <1>1, <1>7, <1>8, <1>9, <1>10, <1>11 DEF Inv

LEMMA InvReconnect ==
  ASSUME Inv, Reconnect
  PROVE  Inv'
<1> USE DEF Reconnect
<1>1. written' \in Seq(Bodies') /\ Len(written') <= MaxMessages /\ direction' \in {"up", "down"}
  BY BoundsAssumption DEF Inv
<1>2. wire' \in Seq(Piece) /\ buffer' \in Seq(Piece) /\ received' \in Seq(Seq(Character))
  OBVIOUS
<1>3. InStep(direction, written, wire, buffer, received)'
  BY InStepAtFirst
<1>4. ~HasHeader(buffer')
  <2>1. Separator(buffer') \in 0 .. Len(buffer')
    BY <1>2, SeparatorDef
  <2>2. Len(buffer') = 0
    OBVIOUS
  <2> QED BY <2>1, <2>2 DEF HasHeader
<1> QED BY <1>1, <1>2, <1>3, <1>4 DEF Inv, Complete, Throws, HasHeader

LEMMA InvStutter ==
  ASSUME Inv, UNCHANGED vars
  PROVE  Inv'
<1> USE DEF vars
<1>1. Bodies' = Bodies
  BY DEF Bodies
<1>2. InStep(direction, written, wire, buffer, received)'
  BY DEF Inv
<1> QED BY <1>1, <1>2 DEF Inv, Complete, Throws, HasHeader, FrameLength

\* The invariant holds in every state, however TCP cuts the stream.
THEOREM Invariance == Spec => []Inv
<1>1. Inv /\ [Next]_vars => Inv'
  <2> SUFFICES ASSUME Inv, [Next]_vars PROVE Inv'
    OBVIOUS
  <2>1. CASE \E body \in Bodies : Write(body)
    BY <2>1, InvWrite
  <2>2. CASE \E n \in 1 .. Len(wire) : Read(n)
    BY <2>2, InvRead
  <2>3. CASE Reconnect
    BY <2>3, InvReconnect
  <2>4. CASE UNCHANGED vars
    BY <2>4, InvStutter
  <2> QED BY <2>1, <2>2, <2>3, <2>4 DEF Next
<1> QED BY InvInit, <1>1, PTL DEF Spec

--------------------------------------------------------------------------------
(* The properties *)

\* The headers of the language server count octets, those of ASCII requests too.
LEMMA FitsDown ==
  ASSUME NEW bodies \in Seq(Seq(Character)), NEW k
  PROVE  AllFitIn(k, Sent("down", bodies))
BY SentType, ResponsesFit DEF AllFitIn

LEMMA FitsUp ==
  ASSUME Inv, direction = "up", NEW k, AllAscii(k)
  PROVE  AllFitIn(k, Sent("up", written))
<1>1. written \in Seq(Seq(Character))
  BY BodiesType DEF Inv
<1> SUFFICES ASSUME NEW i \in 1 .. k, i \in 1 .. Len(Sent("up", written))
             PROVE  Fits(Sent("up", written)[i])
  BY DEF AllFitIn
<1>2. /\ i \in 1 .. Len(written) /\ written[i] \in Seq(Character)
      /\ Sent("up", written)[i] = PacketOf("up", written[i])
  BY <1>1, SentType
<1>3. i \in DOMAIN written
  BY <1>1, <1>2
<1>4. \A c \in DOMAIN written[i] : written[i][c].kind # "wide"
  BY <1>3 DEF AllAscii
<1> QED BY <1>2, <1>4, AsciiFits

\* Downward nothing is ever out of step.
LEMMA InStepDown ==
  ASSUME Inv, direction = "down"
  PROVE  /\ Len(received) \in Nat /\ Len(written) \in Nat
         /\ Len(received) <= Len(written)
         /\ \A i \in 1 .. Len(received) : received[i] = written[i]
         /\ Arriving(buffer, wire, Unread("down", written, received))
<1>1. written \in Seq(Seq(Character)) /\ received \in Seq(Seq(Character))
  BY BodiesType DEF Inv
<1>2. InStep("down", written, wire, buffer, received)
  BY DEF Inv
<1>3. /\ AllFitIn(Len(received), Sent("down", written))
      /\ \A i \in 1 .. Len(received) : AllFitIn(i, Sent("down", written))
  BY <1>1, FitsDown
<1>4. \A i \in 1 .. Len(received) : received[i] = written[i]
  BY <1>2, <1>3 DEF InStep, ContentOf
<1>5. /\ Len(received) <= Len(written)
      /\ Arriving(buffer, wire, Unread("down", written, received))
  BY <1>2, <1>3 DEF InStep
<1> QED BY <1>1, <1>4, <1>5

LEMMA InvTypeOK == Inv => TypeOK
<1> SUFFICES ASSUME Inv PROVE TypeOK
  OBVIOUS
<1>1. ASSUME direction = "down", buffer # <<>> PROVE buffer[1].kind = "Content-Length"
  BY <1>1, InStepDown, ArrivingHead DEF Begins, IsPacket
<1> QED BY <1>1 DEF Inv, TypeOK

LEMMA ClientUrisOf ==
  ASSUME NEW T, \A body \in Seq(Character) : TransformResponseUris(body) \in T,
         NEW bodies \in Seq(Seq(Character))
  PROVE  /\ ClientUris(bodies) \in Seq(T) /\ Len(ClientUris(bodies)) = Len(bodies)
         /\ \A i \in 1 .. Len(bodies) :
              ClientUris(bodies)[i] = TransformResponseUris(bodies[i])
<1>1. DOMAIN bodies = 1 .. Len(bodies) /\ Len(bodies) \in Nat
      /\ \A i \in 1 .. Len(bodies) : bodies[i] \in Seq(Character)
  OBVIOUS
<1>2. \A i \in 1 .. Len(bodies) : TransformResponseUris(bodies[i]) \in T
  BY <1>1
<1>3. ClientUris(bodies) = [i \in 1 .. Len(bodies) |-> TransformResponseUris(bodies[i])]
  BY <1>1 DEF ClientUris
<1> QED BY <1>1, <1>2, <1>3

LEMMA InvResponses == Inv => ResponsesIntact
<1> SUFFICES ASSUME Inv, direction = "down"
             PROVE  ~threw /\ IsPrefix(ClientUris(received), ClientUris(written))
  BY DEF ResponsesIntact
<1>1. ~threw
  <2>1. ~Throws(buffer)
    BY InStepDown, ArrivingHeader
  <2> QED BY <2>1 DEF Inv
<1>2. IsPrefix(ClientUris(received), ClientUris(written))
  <2> DEFINE T == {TransformResponseUris(body) : body \in Seq(Character)}
             r == Len(received)
             a == SubSeq(ClientUris(received), 1, r)
             b == SubSeq(ClientUris(written), 1, r)
  <2>1. written \in Seq(Seq(Character)) /\ received \in Seq(Seq(Character))
    BY BodiesType DEF Inv
  <2>2. /\ r \in Nat /\ r <= Len(written) /\ Len(written) \in Nat
        /\ \A i \in 1 .. r : received[i] = written[i]
    BY InStepDown
  <2>3. /\ ClientUris(received) \in Seq(T) /\ Len(ClientUris(received)) = r
        /\ ClientUris(written) \in Seq(T) /\ Len(ClientUris(written)) = Len(written)
        /\ \A i \in 1 .. r : ClientUris(received)[i] = ClientUris(written)[i]
    <3>1. \A body \in Seq(Character) : TransformResponseUris(body) \in T
      OBVIOUS
    <3> HIDE DEF T
    <3>2. /\ ClientUris(received) \in Seq(T) /\ Len(ClientUris(received)) = Len(received)
          /\ \A i \in 1 .. Len(received) :
               ClientUris(received)[i] = TransformResponseUris(received[i])
      BY <2>1, <3>1, ClientUrisOf
    <3>3. /\ ClientUris(written) \in Seq(T) /\ Len(ClientUris(written)) = Len(written)
          /\ \A i \in 1 .. Len(written) :
               ClientUris(written)[i] = TransformResponseUris(written[i])
      BY <2>1, <3>1, ClientUrisOf
    <3>4. ASSUME NEW i \in 1 .. r PROVE ClientUris(received)[i] = ClientUris(written)[i]
      BY <2>2, <3>2, <3>3
    <3> QED BY <3>2, <3>3, <3>4
  <2> HIDE DEF T
  <2>4. /\ a \in Seq(T) /\ Len(a) = r /\ \A i \in 1 .. r : a[i] = ClientUris(received)[i]
        /\ b \in Seq(T) /\ Len(b) = r /\ \A i \in 1 .. r : b[i] = ClientUris(written)[i]
    BY <2>2, <2>3
  <2> HIDE DEF a, b
  <2>5. a = b
    BY <2>2, <2>3, <2>4, SeqEqual
  <2> QED BY <2>2, <2>3, <2>5 DEF IsPrefix, a, b
<1> QED BY <1>1, <1>2

LEMMA InvRequests == Inv => AsciiRequestsIntact
<1> SUFFICES ASSUME Inv, direction = "up", NEW i \in DOMAIN received, AllAscii(i)
             PROVE  i \in DOMAIN written /\ received[i] = TransformUris(written[i])
  BY DEF AsciiRequestsIntact
<1>1. AllFitIn(i, Sent("up", written))
  BY FitsUp
<1>2. /\ DOMAIN received = 1 .. Len(received) /\ Len(received) \in Nat
      /\ DOMAIN written = 1 .. Len(written) /\ Len(written) \in Nat
  BY DEF Inv
<1>3. InStep("up", written, wire, buffer, received)
  BY DEF Inv
<1>4. i <= Len(written) /\ received[i] = ContentOf("up", written[i])
  BY <1>1, <1>2, <1>3 DEF InStep
<1> QED BY <1>2, <1>4 DEF ContentOf

\* The octets of the first k packets.
OctetsUpTo(packets, k) == FlattenSeq(SubSeq(packets, 1, k))

LEMMA StreamSplit ==
  ASSUME NEW packets \in Seq(Packets), NEW k \in 0 .. Len(packets), NEW j \in 0 .. k
  PROVE  /\ OctetsUpTo(packets, k) = OctetsUpTo(packets, j) \o FlattenSeq(SubSeq(packets, j + 1, k))
         /\ OctetsUpTo(packets, j) \in Seq(Piece)
         /\ FlattenSeq(SubSeq(packets, j + 1, k)) \in Seq(Piece)
         /\ Len(OctetsUpTo(packets, k)) =
              Len(OctetsUpTo(packets, j)) + Len(FlattenSeq(SubSeq(packets, j + 1, k)))
<1> DEFINE a == SubSeq(packets, 1, j)
           b == SubSeq(packets, j + 1, k)
<1>1. a \in Seq(Packets) /\ b \in Seq(Packets)
  OBVIOUS
<1>2. a \o b = SubSeq(packets, 1, k)
  <2>1. /\ 1 \in 1 .. Len(packets) + 1 /\ j \in 1 - 1 .. Len(packets)
        /\ k \in j .. Len(packets)
    OBVIOUS
  <2> QED BY <2>1, ConcatAdjacentSubSeq
<1> HIDE DEF a, b
<1>3. a \in Seq(Seq(Piece)) /\ b \in Seq(Seq(Piece))
  BY <1>1, PacketsType
<1>4. /\ FlattenSeq(a \o b) = FlattenSeq(a) \o FlattenSeq(b)
      /\ FlattenSeq(a) \in Seq(Piece) /\ FlattenSeq(b) \in Seq(Piece)
  BY <1>3, FlattenConcat, FlattenType
<1>5. Len(FlattenSeq(a) \o FlattenSeq(b)) = Len(FlattenSeq(a)) + Len(FlattenSeq(b))
  BY <1>4, ConcatProperties
<1> QED BY <1>2, <1>4, <1>5 DEF a, b, OctetsUpTo

\* What waits in the buffer is less than a message.
LEMMA ShortOfPacket ==
  ASSUME NEW octets, NEW later, NEW packets, Arriving(octets, later, packets),
         packets # <<>>, Fits(packets[1]), ~Complete(octets)
  PROVE  Len(octets) < Len(packets[1])
<1> DEFINE p == packets[1]
<1>1. octets \in Seq(Piece) /\ packets \in Seq(Packets) /\ Len(octets) \in Nat
  BY DEF Arriving
<1>2. IsPacket(p) /\ Len(p) \in Nat
  <2>1. 1 \in 1 .. Len(packets)
    BY <1>1
  <2> QED BY <1>1, <2>1, PacketsType
<1> SUFFICES ASSUME Len(octets) >= Len(p) PROVE FALSE
  BY <1>1, <1>2
<1>3. Len(octets) >= 2 /\ octets # <<>>
  <2>1. Len(octets) >= 2
    BY <1>1, <1>2 DEF IsPacket
  <2> QED BY <1>1, <2>1
<1>4. Separator(octets) = 2 /\ ~Throws(octets)
  BY <1>3, ArrivingHeader
<1>5. octets[1] = p[1]
  <2>1. Begins(octets, later, packets)
    BY <1>3, ArrivingHead
  <2> QED BY <2>1, Zenon DEF Begins
<1>6. FrameLength(octets) = Len(p)
  BY <1>2, <1>4, <1>5 DEF FrameLength, Fits, IsPacket
<1> QED BY <1>4, <1>6 DEF Complete, HasHeader

LEMMA StreamOfPackets ==
  ASSUME NEW k \in 0 .. Len(written), written \in Seq(Seq(Character))
  PROVE  Stream(k) = OctetsUpTo(Sent(direction, written), k)
<1> DEFINE sent == Sent(direction, written)
           s == [i \in 1 .. k |-> Packet(written[i])]
           a == SubSeq(sent, 1, k)
<1>1. /\ sent \in Seq(Packets) /\ Len(sent) = Len(written) /\ Len(written) \in Nat
      /\ \A i \in 1 .. Len(written) : sent[i] = PacketOf(direction, written[i])
  BY SentType
<1> HIDE DEF sent
<1>2. a \in Seq(Packets) /\ Len(a) = k /\ \A i \in 1 .. k : a[i] = sent[i]
  BY <1>1
<1> HIDE DEF a
<1>3. \A i \in 1 .. k : a[i] = Packet(written[i])
  BY <1>1, <1>2 DEF Packet, PacketOf
<1>4. a = [i \in 1 .. k |-> a[i]]
  BY <1>2
<1>5. a = s
  BY <1>3, <1>4
<1> QED BY <1>5 DEF Stream, OctetsUpTo, a, sent

LEMMA InvPrompt == Inv => ResponsesPrompt
<1> SUFFICES ASSUME Inv, direction = "down", NEW k \in DOMAIN written
             PROVE  k <= Len(received) <=> Len(Stream(k)) <= Arrived
  BY DEF ResponsesPrompt
<1> DEFINE n == Len(written)
           r == Len(received)
           sent == Sent("down", written)
           left == SubSeq(sent, r + 1, n)
           octets(i) == OctetsUpTo(sent, i)
<1>1. written \in Seq(Seq(Character)) /\ buffer \in Seq(Piece) /\ wire \in Seq(Piece)
  BY BodiesType DEF Inv
<1>2. r \in Nat /\ n \in Nat /\ r <= n /\ Arriving(buffer, wire, left)
  BY InStepDown DEF Unread
<1>3. sent \in Seq(Packets) /\ Len(sent) = n /\ k \in 1 .. n
  BY <1>1, SentType
<1>4. \A i \in 0 .. n : Stream(i) = octets(i)
  BY <1>1, StreamOfPackets
<1>5. \A i \in 1 .. n : Fits(sent[i])
  <2>1. AllFitIn(n, sent)
    BY <1>1, FitsDown
  <2> QED BY <1>3, <2>1 DEF AllFitIn
<1> HIDE DEF sent
<1>6. \A i \in 0 .. n : Len(octets(i)) \in Nat
  <2> SUFFICES ASSUME NEW i \in 0 .. n PROVE Len(octets(i)) \in Nat
    OBVIOUS
  <2>1. i \in 0 .. Len(sent) /\ i \in 0 .. i
    BY <1>2, <1>3
  <2>2. octets(i) \in Seq(Piece)
    BY <1>3, <2>1, StreamSplit
  <2> QED BY <2>2
<1>7. \A i \in 0 .. n : \A j \in 0 .. i : Len(octets(j)) <= Len(octets(i))
  <2> SUFFICES ASSUME NEW i \in 0 .. n, NEW j \in 0 .. i
               PROVE  Len(octets(j)) <= Len(octets(i))
    OBVIOUS
  <2> DEFINE more == FlattenSeq(SubSeq(sent, j + 1, i))
  <2>1. i \in 0 .. Len(sent)
    BY <1>3
  <2>2. /\ octets(j) \in Seq(Piece) /\ more \in Seq(Piece)
        /\ Len(octets(i)) = Len(octets(j)) + Len(more)
    BY <1>3, <2>1, StreamSplit
  <2> HIDE DEF more, octets
  <2>3. Len(octets(j)) \in Nat /\ Len(more) \in Nat
    BY <2>2
  <2> QED BY <2>2, <2>3
<1>8. Arrived = Len(octets(r)) + Len(buffer)
  <2>1. n \in 0 .. Len(sent) /\ r \in 0 .. n
    BY <1>2, <1>3
  <2>2. Len(octets(n)) = Len(octets(r)) + Len(FlattenSeq(left))
    BY <1>3, <2>1, StreamSplit
  <2>3. FlattenSeq(left) = buffer \o wire
    BY <1>2 DEF Arriving
  <2>4. Len(buffer \o wire) = Len(buffer) + Len(wire)
    BY <1>1, ConcatProperties
  <2>5. Arrived = Len(octets(n)) - Len(wire)
    BY <1>4, <2>1 DEF Arrived
  <2>6. Len(buffer) \in Nat /\ Len(wire) \in Nat /\ Len(octets(r)) \in Nat
    BY <1>1, <1>6, <2>1, <1>2
  <2> HIDE DEF octets, left
  <2> QED BY <2>2, <2>3, <2>4, <2>5, <2>6
<1>9. r < n => Len(octets(r + 1)) > Len(octets(r)) + Len(buffer)
  <2> SUFFICES ASSUME r < n PROVE Len(octets(r + 1)) > Len(octets(r)) + Len(buffer)
    OBVIOUS
  <2> DEFINE p == sent[r + 1]
  <2>1. left \in Seq(Packets) /\ left # <<>> /\ left[1] = p
    <3>1. /\ left \in Seq(Packets) /\ Len(left) = n - r
          /\ \A i \in 1 .. n - r : left[i] = sent[i + r]
      BY <1>2, <1>3
    <3> HIDE DEF left
    <3>2. 1 \in 1 .. n - r /\ 1 + r = r + 1 /\ n - r # 0
      BY <1>2
    <3> QED BY <3>1, <3>2
  <2>2. Fits(p)
    BY <1>2, <1>5
  <2>3. Len(buffer) < Len(p)
    BY <1>2, <2>1, <2>2, ShortOfPacket DEF Inv
  <2>4. r + 1 \in 0 .. Len(sent) /\ r \in 0 .. r + 1 /\ r + 1 \in 1 .. n
    BY <1>2, <1>3
  <2>5. /\ Len(octets(r + 1)) = Len(octets(r)) + Len(FlattenSeq(SubSeq(sent, r + 1, r + 1)))
        /\ octets(r) \in Seq(Piece)
    BY <1>3, <2>4, StreamSplit
  <2>6. p \in Seq(Piece) /\ p \in Packets
    <3>1. p \in Packets
      BY <1>3, <2>4, ElementOfSeq
    <3> QED BY <3>1 DEF Packets
  <2>7. SubSeq(sent, r + 1, r + 1) = <<p>>
    <3> DEFINE a == SubSeq(sent, r + 1, r + 1)
               b == <<p>>
    <3>1. a \in Seq(Packets) /\ Len(a) = 1 /\ a[1] = p
      BY <1>2, <1>3, <2>4
    <3>2. b \in Seq(Packets) /\ Len(b) = 1 /\ b[1] = p
      BY <2>6
    <3> HIDE DEF a, b
    <3>3. \A i \in 1 .. 1 : a[i] = b[i]
      BY <3>1, <3>2
    <3>4. a = b
      BY <3>1, <3>2, <3>3, SeqEqual
    <3> QED BY <3>4 DEF a, b
  <2>8. FlattenSeq(<<p>>) = p
    BY <2>6, FlattenOne
  <2> HIDE DEF octets, p
  <2>9. Len(p) \in Nat /\ Len(buffer) \in Nat /\ Len(octets(r)) \in Nat
    BY <1>1, <2>5, <2>6
  <2>10. Len(octets(r + 1)) = Len(octets(r)) + Len(p)
    BY <2>5, <2>7, <2>8 DEF p
  <2> QED BY <2>3, <2>9, <2>10
<1> HIDE DEF octets
<1>10. Stream(k) = octets(k) /\ Len(octets(k)) \in Nat /\ k \in Nat
  BY <1>3, <1>4, <1>6
<1>11. Len(buffer) \in Nat
  BY <1>1
<1>12. CASE k <= r
  <2>1. r \in 0 .. n /\ k \in 0 .. r
    BY <1>2, <1>10, <1>12
  <2>2. Len(octets(k)) <= Len(octets(r)) /\ Len(octets(r)) \in Nat
    BY <1>6, <1>7, <2>1
  <2> QED BY <1>8, <1>10, <1>11, <1>12, <2>2
<1>13. CASE ~(k <= r)
  <2>1. r < n /\ k \in 0 .. n /\ r + 1 \in 0 .. k /\ r + 1 \in 0 .. n /\ r \in 0 .. n
    BY <1>2, <1>3, <1>13
  <2>2. Len(octets(r + 1)) <= Len(octets(k)) /\ Len(octets(r + 1)) \in Nat /\ Len(octets(r)) \in Nat
    BY <1>6, <1>7, <2>1
  <2> QED BY <1>8, <1>9, <1>10, <1>11, <1>13, <2>1, <2>2
<1> QED BY <1>12, <1>13

\* Whatever the connection carries: its octets, the messages handed on and the
\* buffer have their types, and downward the buffer starts at a header.
THEOREM TypeCorrect == Spec => []TypeOK
BY Invariance, InvTypeOK, PTL

\* However TCP cuts the stream, the client gets the responses of the language server
\* whole and in order, whichever form their URIs have, and LspResponseBuffer never
\* throws.
THEOREM ResponsesAreIntact == Spec => []ResponsesIntact
BY Invariance, InvResponses, PTL

\* LspResponseBuffer hands a response on with the chunk that completes it.
THEOREM ResponsesArePrompt == Spec => []ResponsesPrompt
BY Invariance, InvPrompt, PTL

\* As long as requests are ASCII, the language server gets each with its URIs
\* rewritten, under the header that TransformMessage computed anew.
THEOREM AsciiRequestsAreIntact == Spec => []AsciiRequestsIntact
BY Invariance, InvRequests, PTL
================================================================================
