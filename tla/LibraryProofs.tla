---------------------------- MODULE LibraryProofs ----------------------------
(***************************************************************************)
(* Proofs about Library, for any deployments, files, batches and searches: *)
(* first what the chunker and the batches make of a document of any        *)
(* length, and the ranking of two lists of any length; then what that      *)
(* means for what is stored and for what is answered.                      *)
(***************************************************************************)
EXTENDS Library, ListProofs, FiniteSetTheorems

-----------------------------------------------------------------------------
(* Sizes.                                                                  *)

LEMMA SeqWidens ==
    ASSUME NEW A, NEW B, A \subseteq B, NEW s \in Seq(A)
    PROVE  s \in Seq(B)
  OBVIOUS

\* Lines as the chunker meets them: the first may have lost a character.
IsLined(X) == \A x \in X : x.level \in Nat /\ x.len \in Int

LEMMA BytesType ==
    ASSUME NEW X, IsLined(X), NEW lines \in Seq(X)
    PROVE  Bytes(lines) \in Int
<1> DEFINE n == Len(lines)
           E(f) == f = [i \in 0..n |-> IF i = 0 THEN 0 ELSE f[i - 1] + lines[i].len + 1]
           F == CHOOSE f : E(f)
           step == [p \in (1..n) \X Int |-> p[2] + lines[p[1]].len + 1]
<1>1. n \in Nat /\ 0 \in Int /\ \A i \in 1..n : lines[i].len \in Int
  BY DEF IsLined
<1>2. Bytes(lines) = F[n]
  BY Zenon DEF Bytes
<1>3. step \in [(1..n) \X Int -> Int]
  BY <1>1
<1>4. \A i \in 1..n, v \in Int : step[i, v] = v + lines[i].len + 1
  OBVIOUS
<1> HIDE DEF step, n
<1>5. PICK G \in [0..n -> Int] : Recurs(G, n, 0, step)
  BY <1>1, <1>3, RecursiveFunction
<1>6. E(G)
  <2>1. ASSUME NEW i \in 0..n
        PROVE  G[i] = IF i = 0 THEN 0 ELSE G[i - 1] + lines[i].len + 1
    <3>1. CASE i = 0
      BY <1>5, <3>1 DEF Recurs
    <3>2. CASE i # 0
      <4>1. i \in 1..n /\ i - 1 \in 0..n
        BY <1>1, <3>2
      <4>2. G[i - 1] \in Int /\ G[i] = step[i, G[i - 1]]
        BY <1>5, <4>1 DEF Recurs
      <4> QED
        BY <1>4, <3>2, <4>1, <4>2
    <3> QED
      BY <3>1, <3>2
  <2>2. G = [i \in 0..n |-> G[i]]
    OBVIOUS
  <2> QED
    BY <2>1, <2>2
<1>7. E(F)
  <2> HIDE DEF E
  <2> QED
    BY <1>6
<1> HIDE DEF F
<1> DEFINE T == {i \in 0..n : F[i] \in Int}
<1>8. 0 \in T /\ \A i \in 1..n : i - 1 \in T => i \in T
  <2>1. \A i \in 0..n : F[i] = IF i = 0 THEN 0 ELSE F[i - 1] + lines[i].len + 1
    BY <1>7
  <2> HIDE DEF E
  <2>2. F[0] = 0 /\ 0 \in 0..n
    BY <1>1, <2>1
  <2>3. ASSUME NEW i \in 1..n, i - 1 \in T
        PROVE  i \in T
    <3>1. i \in 0..n /\ i # 0 /\ F[i - 1] \in Int
      BY <1>1, <2>3
    <3>2. F[i] = F[i - 1] + lines[i].len + 1
      BY <2>1, <3>1
    <3> QED
      BY <1>1, <3>1, <3>2
  <2> QED
    BY <1>1, <2>2, <2>3
<1>9. \A i \in 0..n : i \in T
  <2> HIDE DEF T, E
  <2> QED
    BY <1>1, <1>8, Climbs
<1> QED
  BY <1>1, <1>2, <1>9

LEMMA JoinedLenType ==
    ASSUME NEW X, IsLined(X), NEW lines \in Seq(X)
    PROVE  JoinedLen(lines) \in Int
  BY BytesType DEF JoinedLen

LEMMA OverlapIs ==
    ASSUME NEW body, NEW from \in Nat, NEW to \in Nat, from <= to + 1, NEW cut
    PROVE  CalculateOverlapLines(body, from, to, cut) \in 0..(to - from + 1)
<1> DEFINE T == {n \in 1..(to - from + 1) :
                    n = to - from + 1 \/ Bytes(SubSeq(body, to - n + 1, to)) >= cut.overlap}
<1>1. CASE cut.overlap <= 0 \/ to < from
  BY <1>1 DEF CalculateOverlapLines
<1>2. CASE ~(cut.overlap <= 0 \/ to < from)
  <2>1. CalculateOverlapLines(body, from, to, cut) = Min(T)
    BY <1>2 DEF CalculateOverlapLines
  <2>2. to - from + 1 \in T /\ T \subseteq 1..(to - from + 1)
    BY <1>2
  <2> HIDE DEF T
  <2>3. Min(T) \in T
    <3>1. T \subseteq Nat /\ T # {}
      BY <2>2
    <3> QED
      BY <3>1, MinIs
  <2>4. Min(T) \in 1..(to - from + 1)
    BY <2>2, <2>3
  <2> DEFINE m == Min(T)
  <2> HIDE DEF m
  <2>5. m \in 0..(to - from + 1)
    BY <2>4 DEF m
  <2> QED
    BY <2>1, <2>5 DEF m
<1> QED
  BY <1>1, <1>2

-----------------------------------------------------------------------------
(* Merging finds nothing to merge.                                         *)

LEMMA MergeIs ==
    ASSUME NEW X, NEW chunks \in Seq(X), NEW cut, \A x \in X : x.len >= cut.min
    PROVE  MergeSmallChunks(chunks, cut) = chunks
<1> DEFINE Absorb(a, b) == [a EXCEPT !.to = b.to, !.len = @ + 1 + b.len,
                                     !.words = @ \o b.words]
           Merge(acc, c) ==
               IF c.len >= cut.min THEN [out |-> acc.out \o acc.held \o <<c>>, held |-> <<>>]
               ELSE [acc EXCEPT !.held = IF @ = <<>> THEN <<c>> ELSE <<Absorb(@[1], c)>>]
           n == Len(chunks)
           none == <<>>
           E(f) == f = [k \in 0..n |-> IF k = 0 THEN [out |-> <<>>, held |-> <<>>]
                                       ELSE Merge(f[k - 1], chunks[k])]
           F == CHOOSE f : E(f)
           At(k) == [out |-> SubSeq(chunks, 1, k), held |-> none]
           H == [k \in 0..n |-> At(k)]
<1>1. MergeSmallChunks(chunks, cut) = F[n].out \o F[n].held
  BY Zenon DEF MergeSmallChunks
<1>2. /\ n \in Nat /\ \A k \in 1..n : chunks[k] \in X
      /\ none \in Seq(X)
  OBVIOUS
<1>3. ASSUME NEW k \in 1..n PROVE Merge(At(k - 1), chunks[k]) = At(k)
  <2> DEFINE s == SubSeq(chunks, 1, k - 1)
             c == chunks[k]
             one == <<c>>
  <2>1. Merge(At(k - 1), c) = [out |-> s \o none \o one, held |-> none]
    BY <1>2
  <2>2. s \in Seq(X) /\ Len(s) = k - 1 /\ \A j \in 1..(k - 1) : s[j] = chunks[j]
    BY <1>2
  <2>3. s \o none = s
    <3> HIDE DEF s
    <3> QED
      BY <2>2, ConcatEmptySeq
  <2>4. s \o one = SubSeq(chunks, 1, k)
    <3> DEFINE t == SubSeq(chunks, 1, k)
    <3>1. t \in Seq(X) /\ Len(t) = k /\ \A j \in 1..k : t[j] = chunks[j]
      BY <1>2
    <3>2. s \o one = Append(s, c) /\ c \in X
      <4> HIDE DEF s
      <4> QED
        BY <1>2, <2>2
    <3> HIDE DEF s, t
    <3>3. Append(s, c) = t
      BY <1>2, <2>2, <3>1, <3>2
    <3> QED
      BY <3>2, <3>3 DEF t
  <2> HIDE DEF s, one, none
  <2> QED
    BY <2>1, <2>3, <2>4
<1>4. At(0) = [out |-> <<>>, held |-> <<>>]
  BY <1>2
<1> HIDE DEF At, Merge, none
<1>5. E(H)
  <2>1. \A k \in 0..n : H[k] = At(k)
    OBVIOUS
  <2>2. \A k \in 1..n : H[k - 1] = At(k - 1)
    BY <1>2
  <2>3. \A k \in 0..n : At(k) = IF k = 0 THEN [out |-> <<>>, held |-> <<>>]
                               ELSE Merge(H[k - 1], chunks[k])
    <3> TAKE k \in 0..n
    <3>1. CASE k = 0
      BY <1>4, <3>1
    <3>2. CASE k # 0
      <4>1. k \in 1..n
        BY <1>2, <3>2
      <4> QED
        BY <1>3, <2>2, <3>2, <4>1
    <3> QED
      BY <3>1, <3>2
  <2> QED
    BY <2>3
<1>6. E(F)
  <2> HIDE DEF E
  <2> QED
    BY <1>5
<1> HIDE DEF F, H
<1> DEFINE T == {k \in 0..n : F[k] = At(k)}
<1>7. 0 \in T /\ \A k \in 1..n : k - 1 \in T => k \in T
  <2>1. \A k \in 0..n : F[k] = IF k = 0 THEN [out |-> <<>>, held |-> <<>>]
                               ELSE Merge(F[k - 1], chunks[k])
    BY <1>6
  <2> HIDE DEF E
  <2> QED
    BY <1>2, <1>3, <1>4, <2>1
<1>8. \A k \in 0..n : k \in T
  <2> HIDE DEF T, n
  <2> QED
    BY <1>2, <1>7, Climbs
<1>9. F[n] = At(n)
  BY <1>2, <1>8
<1>10. SubSeq(chunks, 1, n) = chunks
  BY <1>2, SubSeqFull
<1>11. F[n].out = chunks /\ F[n].held = none
  BY <1>9, <1>10 DEF At
<1> QED
  BY <1>1, <1>11, ConcatEmptySeq DEF none

-----------------------------------------------------------------------------
(* Line numbers in their order.                                            *)

\* The numbers up to k that are in T.
UpTo(k, T) == Only([i \in 1..k |-> i], T)

LEMMA UpToGrows ==
    ASSUME NEW T
    PROVE  /\ UpTo(0, T) = <<>>
           /\ \A k \in Nat \ {0} :
                UpTo(k, T) = IF k \in T THEN Append(UpTo(k - 1, T), k) ELSE UpTo(k - 1, T)
<1> DEFINE L(k) == [i \in 1..k |-> i]
<1>1. L(0) = <<>>
  OBVIOUS
<1>2. ASSUME NEW k \in Nat \ {0}
      PROVE  L(k - 1) \in Seq(Nat) /\ k \in Nat /\ L(k) = Append(L(k - 1), k)
  <2>1. /\ L(k - 1) \in Seq(Nat) /\ Len(L(k - 1)) = k - 1
        /\ \A i \in 1..(k - 1) : L(k - 1)[i] = i
    OBVIOUS
  <2>2. L(k) \in Seq(Nat) /\ Len(L(k)) = k /\ \A i \in 1..k : L(k)[i] = i
    OBVIOUS
  <2> HIDE DEF L
  <2> DEFINE u == Append(L(k - 1), k)
  <2>3. u \in Seq(Nat) /\ Len(u) = k /\ \A i \in 1..k : u[i] = i
    BY <2>1
  <2> HIDE DEF u
  <2>4. L(k) = u
    BY <2>2, <2>3, SeqEqual
  <2> QED
    BY <2>1, <2>4 DEF u
<1>3. UpTo(0, T) = <<>>
  BY <1>1, OnlyOfNone DEF UpTo
<1> HIDE DEF L
<1>4. ASSUME NEW k \in Nat \ {0}
      PROVE  UpTo(k, T) = IF k \in T THEN Append(UpTo(k - 1, T), k) ELSE UpTo(k - 1, T)
  <2>1. UpTo(k, T) = Only(Append(L(k - 1), k), T) /\ UpTo(k - 1, T) = Only(L(k - 1), T)
    BY <1>2 DEF UpTo, L
  <2>2. L(k - 1) \in Seq(Nat) /\ k \in Nat
    BY <1>2
  <2> DEFINE s == L(k - 1)
  <2> HIDE DEF s
  <2>3. Only(Append(s, k), T) = IF k \in T THEN Append(Only(s, T), k) ELSE Only(s, T)
    <3>1. s \in Seq(Nat) /\ k \in Nat
      BY <2>2 DEF s
    <3> QED
      BY ONLY <3>1, OnlyOfAppend
  <2> QED
    BY ONLY <2>1, <2>3 DEF s
<1> QED
  BY <1>3, <1>4

LEMMA UpToIs ==
    ASSUME NEW T, NEW n \in Nat
    PROVE  /\ UpTo(n, T) \in Seq(1..n)
           /\ \A j \in 1..Len(UpTo(n, T)) : UpTo(n, T)[j] \in T
           /\ \A j, k \in 1..Len(UpTo(n, T)) : j < k => UpTo(n, T)[j] < UpTo(n, T)[k]
           /\ \A i \in 1..n : i \in T => \E j \in 1..Len(UpTo(n, T)) : UpTo(n, T)[j] = i
<1> DEFINE Good(u, k) ==
             /\ u \in Seq(1..k)
             /\ \A j \in 1..Len(u) : u[j] \in T
             /\ \A i, j \in 1..Len(u) : i < j => u[i] < u[j]
             /\ \A i \in 1..k : i \in T => \E j \in 1..Len(u) : u[j] = i
           S == {k \in 0..n : Good(UpTo(k, T), k)}
<1>1. 0 \in S
  <2> DEFINE none == <<>>
  <2>1. none \in Seq(1..0) /\ Len(none) = 0
    OBVIOUS
  <2> HIDE DEF none
  <2>2. Good(none, 0)
    BY <2>1
  <2> HIDE DEF Good
  <2> QED
    BY <2>2, UpToGrows DEF none
<1>2. ASSUME NEW k \in 1..n, k - 1 \in S
      PROVE  k \in S
  <2> DEFINE u == UpTo(k - 1, T)
             w == UpTo(k, T)
  <2>1. Good(u, k - 1) /\ k \in Nat \ {0}
    BY <1>2
  <2>2. w = IF k \in T THEN Append(u, k) ELSE u
    BY <2>1, UpToGrows
  <2> HIDE DEF u, w
  <2>3. u \in Seq(1..k) /\ \A j \in 1..Len(u) : u[j] \in 1..(k - 1)
    BY <2>1
  <2>4. CASE k \notin T
    <3>1. Good(u, k)
      <4>1. \A i \in 1..k : i \in T => i \in 1..(k - 1)
        BY <2>4
      <4> QED
        BY <2>1, <2>3, <4>1
    <3> HIDE DEF Good
    <3> QED
      BY <2>2, <2>4, <3>1 DEF w
  <2>5. CASE k \in T
    <3> DEFINE v == Append(u, k)
    <3>1. /\ v \in Seq(1..k) /\ Len(v) = Len(u) + 1 /\ Len(u) \in Nat
          /\ \A j \in 1..Len(u) : v[j] = u[j]
          /\ v[Len(u) + 1] = k
      BY <2>3
    <3> HIDE DEF v
    <3>2. \A j \in 1..Len(v) : v[j] \in T
      <4> TAKE j \in 1..Len(v)
      <4>1. CASE j \in 1..Len(u)
        BY <2>1, <3>1, <4>1
      <4>2. CASE j \notin 1..Len(u)
        <5>1. j = Len(u) + 1
          BY <3>1, <4>2
        <5> QED
          BY <2>5, <3>1, <5>1
      <4> QED
        BY <4>1, <4>2
    <3>3. ASSUME NEW i \in 1..Len(v), NEW j \in 1..Len(v), i < j
          PROVE  v[i] < v[j]
      <4>1. i \in 1..Len(u)
        BY <3>1, <3>3
      <4>2. CASE j \in 1..Len(u)
        BY <2>1, <3>1, <3>3, <4>1, <4>2
      <4>3. CASE j \notin 1..Len(u)
        <5>1. j = Len(u) + 1
          BY <3>1, <4>3
        <5> QED
          BY <2>3, <3>1, <4>1, <5>1
      <4> QED
        BY <4>2, <4>3
    <3>4. ASSUME NEW i \in 1..k, i \in T
          PROVE  \E j \in 1..Len(v) : v[j] = i
      <4>1. CASE i = k
        BY <3>1, <4>1
      <4>2. CASE i # k
        <5>1. i \in 1..(k - 1)
          BY <4>2
        <5>2. PICK j \in 1..Len(u) : u[j] = i
          BY <2>1, <3>4, <5>1
        <5>3. j \in 1..Len(v) /\ v[j] = i
          BY <3>1, <5>2
        <5> QED
          BY <5>3
      <4> QED
        BY <4>1, <4>2
    <3>5. Good(v, k)
      BY <3>1, <3>2, <3>3, <3>4
    <3> HIDE DEF Good
    <3>6. UpTo(k, T) = v
      BY <2>2, <2>5 DEF v, w
    <3> HIDE DEF v
    <3> QED
      BY <3>5, <3>6
  <2> QED
    BY <2>4, <2>5
<1>3. n \in S
  <2> HIDE DEF S
  <2>1. \A k \in 0..n : k \in S
    BY <1>1, <1>2, Climbs
  <2> QED
    BY <2>1
<1> QED
  BY <1>3

\* The numbers a..b, one after the other.
LEMMA UpToRange ==
    ASSUME NEW n \in Nat, NEW a \in 1..n, NEW b \in (a - 1)..n
    PROVE  UpTo(n, a..b) = [j \in 1..(b - a + 1) |-> a + j - 1]
<1> DEFINE g(m) == [j \in 1..m |-> a + j - 1]
           M(k) == IF k < a THEN 0 ELSE IF k <= b THEN k - a + 1 ELSE b - a + 1
           S == {k \in 0..n : UpTo(k, a..b) = g(M(k))}
<1>1. 0 \in S
  <2>1. g(0) = <<>> /\ M(0) = 0
    OBVIOUS
  <2> HIDE DEF g, M
  <2> QED
    BY <2>1, UpToGrows
<1>2. ASSUME NEW k \in 1..n, k - 1 \in S
      PROVE  k \in S
  <2> HIDE DEF g, M
  <2>1. /\ UpTo(k - 1, a..b) = g(M(k - 1))
        /\ UpTo(k, a..b) = IF k \in a..b THEN Append(UpTo(k - 1, a..b), k) ELSE UpTo(k - 1, a..b)
    <3> DEFINE R == a..b
    <3>1. UpTo(k - 1, R) = g(M(k - 1)) /\ k \in Nat \ {0}
      BY <1>2
    <3> HIDE DEF R
    <3>2. UpTo(k, R) = IF k \in R THEN Append(UpTo(k - 1, R), k) ELSE UpTo(k - 1, R)
      BY ONLY <3>1, UpToGrows
    <3> QED
      BY <3>1, <3>2 DEF R
  <2>2. CASE k \notin a..b
    <3>1. M(k) = M(k - 1)
      BY <2>2 DEF M
    <3> QED
      BY <2>1, <2>2, <3>1
  <2>3. CASE k \in a..b
    <3> DEFINE m == M(k - 1)
    <3>1. m \in Nat /\ M(k) = m + 1 /\ k = a + m
      BY <2>3 DEF M
    <3> HIDE DEF m
    <3>2. Append(g(m), k) = g(m + 1)
      <4>1. /\ g(m) \in Seq(Int) /\ Len(g(m)) = m
            /\ \A j \in 1..m : g(m)[j] = a + j - 1
        BY <3>1 DEF g
      <4>2. /\ g(m + 1) \in Seq(Int) /\ Len(g(m + 1)) = m + 1
            /\ \A j \in 1..(m + 1) : g(m + 1)[j] = a + j - 1
        BY <3>1 DEF g
      <4> DEFINE v == Append(g(m), k)
      <4>3. v \in Seq(Int) /\ Len(v) = m + 1 /\ \A j \in 1..(m + 1) : v[j] = a + j - 1
        BY <3>1, <4>1
      <4> HIDE DEF v
      <4>4. v = g(m + 1)
        BY <4>2, <4>3, SeqEqual
      <4> QED
        BY <4>4 DEF v
    <3>3. UpTo(k, a..b) = Append(g(m), k)
      BY <2>1, <2>3 DEF m
    <3> QED
      BY <3>1, <3>2, <3>3
  <2> QED
    BY <2>2, <2>3
<1>3. n \in S
  <2> HIDE DEF S
  <2>1. \A k \in 0..n : k \in S
    BY <1>1, <1>2, Climbs
  <2> QED
    BY <2>1
<1>4. M(n) = b - a + 1
  BY DEF M
<1> HIDE DEF M
<1> QED
  BY <1>3, <1>4

LEMMA AscendingIs ==
    ASSUME NEW X, NEW body \in Seq(X), NEW T
    PROVE  Ascending(body, T) = UpTo(Len(body), T)
<1>1. [i \in DOMAIN body |-> i] = [i \in 1..Len(body) |-> i]
  OBVIOUS
<1> QED
  BY <1>1 DEF Ascending, UpTo

-----------------------------------------------------------------------------
(* Every chunk is cut from lines of the document, from one of them on, and *)
(* quotes them.                                                            *)

Pieces(body) == {c \in {CreateChunk(body, a, b) : a \in 1..Len(body), b \in Int} :
                    c.to \in (c.from - 1)..Len(body)}

Quotes(body, c) == c.words = [k \in 1..(c.to - c.from + 1) |-> body[c.from + k - 1].text]

LEMMA PieceIs ==
    ASSUME NEW body, NEW c \in Pieces(body)
    PROVE  /\ c.from \in 1..Len(body) /\ c.to \in (c.from - 1)..Len(body)
           /\ c.level = body[c.from].level
           /\ c = CreateChunk(body, c.from, c.to)
<1>1. PICK a \in 1..Len(body), b \in Int : c = CreateChunk(body, a, b)
  BY DEF Pieces
<1>2. c.from = a /\ c.to = b /\ c.level = body[a].level
  BY <1>1 DEF CreateChunk
<1> QED
  BY <1>1, <1>2 DEF Pieces

LEMMA IsPiece ==
    ASSUME NEW body, NEW a \in 1..Len(body), NEW b \in (a - 1)..Len(body)
    PROVE  CreateChunk(body, a, b) \in Pieces(body)
<1> DEFINE c == CreateChunk(body, a, b)
<1>1. c.from = a /\ c.to = b /\ b \in Int
  BY DEF CreateChunk
<1> HIDE DEF c
<1>2. c \in {CreateChunk(body, x, y) : x \in 1..Len(body), y \in Int}
  BY <1>1 DEF c
<1>3. c \in Pieces(body)
  BY <1>1, <1>2 DEF Pieces
<1> QED
  BY <1>3 DEF c

LEMMA PieceQuotes ==
    ASSUME NEW X, NEW body \in Seq(X), NEW c \in Pieces(body)
    PROVE  Quotes(body, c)
<1> DEFINE n == Len(body)
           a == c.from
           b == c.to
           lines == Ascending(body, a..b)
<1>1. a \in 1..n /\ b \in (a - 1)..n /\ n \in Nat /\ c = CreateChunk(body, a, b)
  BY PieceIs
<1>2. lines = UpTo(n, a..b)
  BY AscendingIs
<1> HIDE DEF a, b, n
<1>3. UpTo(n, a..b) = [j \in 1..(b - a + 1) |-> a + j - 1]
  BY <1>1, UpToRange
<1> HIDE DEF lines
<1>4. c.words = [k \in DOMAIN lines |-> body[lines[k]].text]
  BY <1>1 DEF CreateChunk, Texts, lines
<1>5. DOMAIN lines = 1..(b - a + 1) /\ \A k \in DOMAIN lines : lines[k] = a + k - 1
  BY <1>2, <1>3
<1>6. c.words = [k \in 1..(b - a + 1) |-> body[a + k - 1].text]
  BY <1>4, <1>5
<1> QED
  BY <1>6 DEF Quotes, a, b

\* Line i is in one of the chunks.
Holds(chunks, i) == \E k \in 1..Len(chunks) : i \in chunks[k].from..chunks[k].to

LEMMA SplitByHeadersCovers ==
    ASSUME NEW X, IsLined(X), NEW body \in Seq(X), NEW cut, cut.min \in Int
    PROVE  /\ SplitByHeaders(body, cut) \in Seq(Pieces(body))
           /\ \A i \in 1..Len(body) :
                \/ Holds(SplitByHeaders(body, cut), i)
                \/ SectionLen(body, SectionOf(body, i)) < cut.min
<1> DEFINE n == Len(body)
           H == {1} \cup ExtractHeaders(body)
           starts == Ascending(body, H)
           q == Len(starts)
           sections == [k \in DOMAIN starts |->
                            CreateChunk(body, starts[k], SectionEnd(body, starts, k))]
           P == Pieces(body)
           long == {c \in Range(sections) : c.len >= cut.min}
           L == {c \in P : c \in long}
           split == Only(sections, long)
<1>1. n \in Nat /\ ExtractHeaders(body) \subseteq 1..n
  BY DEF ExtractHeaders
<1>2. SplitByHeaders(body, cut) = MergeSmallChunks(split, cut)
  BY DEF SplitByHeaders
<1>3. starts = UpTo(n, H)
  BY AscendingIs
<1> HIDE DEF starts
<1>4. /\ starts \in Seq(1..n) /\ q \in Nat
      /\ \A k \in 1..q : starts[k] \in 1..n /\ starts[k] \in H
      /\ \A j, k \in 1..q : j < k => starts[j] < starts[k]
      /\ \A i \in 1..n : i \in H => \E k \in 1..q : starts[k] = i
  <2> HIDE DEF n, H
  <2>1. /\ starts \in Seq(1..n)
        /\ \A k \in 1..q : starts[k] \in H
        /\ \A j, k \in 1..q : j < k => starts[j] < starts[k]
        /\ \A i \in 1..n : i \in H => \E k \in 1..q : starts[k] = i
    BY <1>1, <1>3, UpToIs
  <2>2. q \in Nat /\ \A k \in 1..q : starts[k] \in 1..n
    <3> DEFINE R == 1..n
    <3>1. starts \in Seq(R)
      BY <2>1
    <3> HIDE DEF R
    <3>2. q \in Nat /\ \A k \in 1..q : starts[k] \in R
      BY <3>1
    <3> QED
      BY <3>2 DEF R
  <2> QED
    BY <2>1, <2>2
<1>5. ASSUME NEW k \in 1..q
      PROVE  /\ SectionEnd(body, starts, k) \in (starts[k] - 1)..n
             /\ sections[k] = CreateChunk(body, starts[k], SectionEnd(body, starts, k))
             /\ sections[k] \in P
  <2>1. SectionEnd(body, starts, k) \in (starts[k] - 1)..n
    <3>1. starts[k] \in 1..n /\ (k # q => starts[k + 1] \in 1..n /\ starts[k] < starts[k + 1])
      BY <1>4
    <3> QED
      BY <1>1, <3>1 DEF SectionEnd
  <2>2. sections[k] = CreateChunk(body, starts[k], SectionEnd(body, starts, k))
    BY <1>4
  <2>3. starts[k] \in 1..n
    BY <1>4
  <2> HIDE DEF sections
  <2> QED
    BY <2>1, <2>2, <2>3, IsPiece
<1>6. sections \in Seq(P) /\ Len(sections) = q
  <2>1. DOMAIN sections = 1..q
    BY <1>4
  <2>2. sections = [k \in 1..q |-> sections[k]]
    BY <1>4
  <2>3. sections \in [1..q -> P]
    <3> HIDE DEF sections, P, q
    <3> QED
      BY <1>5, <2>2
  <2>4. q \in Nat
    BY <1>4
  <2> HIDE DEF sections, P, q
  <2> QED
    BY <2>3, <2>4
<1>7. \A x \in L : x.len >= cut.min
  OBVIOUS
<1>8. \A k \in 1..q : sections[k].len >= cut.min => sections[k] \in long
  BY <1>4 DEF Range
<1> HIDE DEF sections, P
<1>9. split \in Seq(L)
  <2> HIDE DEF long
  <2> QED
    BY <1>6, OnlyType
<1>10. L \subseteq P
  OBVIOUS
<1> HIDE DEF L, long
<1>11. MergeSmallChunks(split, cut) = split
  BY <1>7, <1>9, MergeIs
<1>12. ASSUME NEW i \in 1..n
       PROVE  \/ Holds(split, i)
              \/ SectionLen(body, SectionOf(body, i)) < cut.min
  <2> DEFINE J == {j \in H : j <= i}
             A == {j \in H : j > i}
             m == Max(J)
  <2>1. m \in 1..i /\ m \in H /\ \A j \in H : j <= i => j <= m
    <3>1. J \subseteq 0..i /\ 1 \in J /\ i \in Nat
      BY <1>1
    <3>2. \A j \in H : j <= i => j \in J
      OBVIOUS
    <3>3. \A j \in J : j \in H /\ j \in 1..i
      BY <1>1
    <3> HIDE DEF J, H
    <3>4. m \in J /\ \A y \in J : y <= m
      BY <3>1, MaxIs
    <3> QED
      BY <3>2, <3>3, <3>4
  <2>2. SectionOf(body, i) = m..(IF A = {} THEN n ELSE Min(A) - 1)
    BY DEF SectionOf
  <2>3. H \subseteq 1..n
    BY <1>1
  <2> HIDE DEF m, J
  <2>4. PICK k \in 1..q : starts[k] = m
    <3>1. m \in 1..n
      BY <2>1
    <3> QED
      BY <1>4, <2>1, <3>1
  <2> DEFINE e == SectionEnd(body, starts, k)
  <2>5. \A j \in A : \E r \in 1..q : r > k /\ starts[r] = j
    <3> TAKE j \in A
    <3>1. j \in 1..n /\ j \in H /\ j > i
      BY <2>3
    <3>2. PICK r \in 1..q : starts[r] = j
      <4> HIDE DEF A, H
      <4> QED
        BY <1>4, <3>1
    <3>3. starts[r] > starts[k]
      BY <2>1, <2>4, <3>1, <3>2
    <3>4. r > k
      <4>1. CASE r < k
        <5>1. starts[r] < starts[k]
          BY <1>4, <4>1
        <5> QED
          BY <1>4, <3>3, <5>1
      <4>2. CASE r = k
        BY <1>4, <3>3, <4>2
      <4> QED
        BY <1>4, <4>1, <4>2
    <3> QED
      BY <3>2, <3>4
  <2>6. e = (IF A = {} THEN n ELSE Min(A) - 1) /\ i <= e
    <3>1. CASE k = q
      <4> HIDE DEF A, H
      <4>1. A = {}
        <5> SUFFICES ASSUME NEW j \in A PROVE FALSE
          OBVIOUS
        <5>1. PICK r \in 1..q : r > k
          BY <2>5
        <5> QED
          BY <1>4, <3>1, <5>1
      <4> QED
        BY <3>1, <4>1 DEF SectionEnd
    <3>2. CASE k # q
      <4> DEFINE s == starts[k + 1]
      <4>1. k + 1 \in 1..q /\ k < k + 1
        BY <1>4, <3>2
      <4>2. s \in H /\ s \in 1..n /\ m < s
        BY <1>4, <2>4, <4>1
      <4> HIDE DEF s
      <4>3. s > i
        BY <2>1, <4>2
      <4>4. s \in A
        BY <4>2, <4>3
      <4>5. \A j \in A : s <= j
        <5> TAKE j \in A
        <5>1. PICK r \in 1..q : r > k /\ starts[r] = j
          BY <2>5
        <5>2. CASE r = k + 1
          BY <4>2, <5>1, <5>2 DEF s
        <5>3. CASE r # k + 1
          <6>1. k + 1 < r
            BY <1>4, <5>1, <5>3
          <6>2. starts[k + 1] < starts[r]
            BY <1>4, <4>1, <6>1
          <6>3. starts[r] \in 1..n
            BY <1>4
          <6> QED
            BY <4>2, <5>1, <6>2, <6>3 DEF s
        <5> QED
          BY <5>2, <5>3
      <4>6. A \subseteq Nat
        BY <2>3
      <4> HIDE DEF A
      <4>7. Min(A) = s
        BY <4>4, <4>5, <4>6, MinOf
      <4>8. e = s - 1
        BY <3>2 DEF SectionEnd, s
      <4> QED
        BY <4>2, <4>3, <4>4, <4>7, <4>8
    <3> QED
      BY <3>1, <3>2
  <2> HIDE DEF A, H
  <2> DEFINE c == sections[k]
             len == JoinedLen(SubSeq(body, m, e))
  <2>7. e \in 1..n
    BY <1>5, <2>1, <2>6
  <2> HIDE DEF e
  <2>8. SectionLen(body, SectionOf(body, i)) = len
    <3>1. Min(m..e) = m
      <4> DEFINE R == m..e
      <4>1. R \subseteq Nat /\ m \in R /\ \A y \in R : m <= y
        BY <2>1, <2>6, <2>7
      <4> HIDE DEF R
      <4> QED
        BY <4>1, MinOf DEF R
    <3>2. Max(m..e) = e
      <4> DEFINE R == m..e
      <4>1. R \subseteq 0..n /\ e \in R /\ R # {} /\ \A y \in R : y \in Int /\ y <= e
        BY <2>1, <2>6, <2>7
      <4> HIDE DEF R
      <4>2. Max(R) \in R /\ e <= Max(R)
        BY <1>1, <4>1, MaxIs
      <4>3. Max(R) <= e /\ Max(R) \in Int /\ e \in Int
        BY <2>7, <4>1, <4>2
      <4> DEFINE x == Max(R)
      <4> HIDE DEF x
      <4>4. x = e
        BY <4>2, <4>3 DEF x
      <4> QED
        BY <4>4 DEF R, x
    <3>3. SectionOf(body, i) = m..e
      BY <2>2, <2>6
    <3> QED
      BY <3>1, <3>2, <3>3 DEF SectionLen
  <2>9. c.from = m /\ c.to = e /\ c.len = len
    <3>1. c = CreateChunk(body, m, e)
      BY <1>5, <2>4 DEF e
    <3> HIDE DEF c
    <3> QED
      BY <3>1 DEF CreateChunk
  <2>10. len \in Int
    <3>1. m \in 1..(n + 1) /\ e \in (m - 1)..n
      BY <2>1, <2>6, <2>7
    <3>2. SubSeq(body, m, e) \in Seq(X)
      BY <3>1, SubSeqIs
    <3> QED
      BY <3>2, JoinedLenType
  <2> HIDE DEF len
  <2>11. CASE len >= cut.min
    <3>1. c \in long
      BY <1>8, <2>9, <2>11
    <3>2. PICK j \in 1..Len(split) : split[j] = c
      <4> HIDE DEF split
      <4>1. k \in 1..Len(sections) /\ sections[k] \in long
        BY <1>6, <3>1
      <4> QED
        BY <1>6, <4>1, OnlyKeeps DEF split
    <3>3. i \in m..e
      BY <2>1, <2>6, <2>7
    <3> HIDE DEF split, c
    <3> QED
      BY <2>9, <3>2, <3>3 DEF Holds
  <2>12. CASE ~(len >= cut.min)
    <3>1. len < cut.min
      BY <2>10, <2>12
    <3> QED
      BY <2>8, <3>1
  <2> QED
    BY <2>11, <2>12
<1> HIDE DEF split
<1>13. split \in Seq(P)
  BY <1>9, <1>10
<1> QED
  BY <1>2, <1>11, <1>12, <1>13 DEF P

\* Every line before the next to be added is in a chunk.
CoveredTo(acc) == \A j \in 1..(acc.from - 1) : Holds(acc.out, j)

LEMMA AppendHolds ==
    ASSUME NEW P, NEW chunks \in Seq(P), NEW c \in P, NEW a \in Int, NEW b \in Int,
           \A j \in 1..(a - 1) : Holds(chunks, j), c.from <= a, c.to >= b,
           c.from \in Int, c.to \in Int
    PROVE  Append(chunks, c) \in Seq(P) /\ \A j \in 1..b : Holds(Append(chunks, c), j)
<1> DEFINE all == Append(chunks, c)
           n == Len(chunks)
<1>1. /\ all \in Seq(P) /\ Len(all) = n + 1 /\ n \in Nat
      /\ \A k \in 1..n : all[k] = chunks[k]
      /\ all[n + 1] = c
  OBVIOUS
<1> HIDE DEF all, n
<1>2. ASSUME NEW j \in 1..b
      PROVE  Holds(all, j)
  <2>1. CASE j < a
    <3>1. j \in 1..(a - 1)
      BY <2>1
    <3>2. PICK k \in 1..n : j \in chunks[k].from..chunks[k].to
      BY <3>1 DEF Holds, n
    <3>3. k \in 1..Len(all) /\ all[k] = chunks[k]
      BY <1>1
    <3> QED
      BY <3>2, <3>3 DEF Holds
  <2>2. CASE ~(j < a)
    <3>1. j \in c.from..c.to
      BY <2>2
    <3>2. n + 1 \in 1..Len(all)
      BY <1>1
    <3> QED
      BY <1>1, <3>1, <3>2 DEF Holds
  <2> QED
    BY <2>1, <2>2
<1> QED
  BY <1>1, <1>2 DEF all

LEMMA SplitBySizeCovers ==
    ASSUME NEW X, IsLined(X), NEW body \in Seq(X), body # <<>>, NEW cut
    PROVE  /\ SplitBySize(body, cut) \in Seq(Pieces(body))
           /\ \A i \in 1..Len(body) : Holds(SplitBySize(body, cut), i)
<1> DEFINE n == Len(body)
           P == Pieces(body)
           none == <<>>
           Add(acc, i) ==
               LET lineSize == body[i].len + 1
                   kept == CalculateOverlapLines(body, acc.from, i - 1, cut)
               IN IF acc.size + lineSize > cut.max /\ i - acc.from >= cut.min \div 50
                  THEN [out |-> Append(acc.out, CreateChunk(body, acc.from, i - 1)),
                        from |-> i - kept,
                        size |-> IF kept > 0 THEN JoinedLen(SubSeq(body, i - kept, i))
                                 ELSE lineSize]
                  ELSE [acc EXCEPT !.size = @ + lineSize]
           E(f) == f = [i \in 0..n |-> IF i = 0 THEN [out |-> <<>>, from |-> 1, size |-> 0]
                                       ELSE Add(f[i - 1], i)]
           F == CHOOSE f : E(f)
           V == {v \in [out : Seq(P), from : Int, size : Int] : CoveredTo(v)}
           base == [out |-> <<>>, from |-> 1, size |-> 0]
           step == [p \in (1..n) \X V |-> IF p[2].from \in 1..p[1] THEN Add(p[2], p[1]) ELSE p[2]]
           upTo(i) == IF i = 0 THEN 1 ELSE i
<1>1. SplitBySize(body, cut) = Append(F[n].out, CreateChunk(body, F[n].from, n))
  BY Zenon DEF SplitBySize
<1>2. n \in Nat \ {0} /\ \A i \in 1..n : body[i].len \in Int
  BY DEF IsLined
<1>3. base \in V
  <2>1. base \in [out : Seq(P), from : Int, size : Int] /\ base.from = 1
    OBVIOUS
  <2> HIDE DEF base, P
  <2> QED
    BY <2>1 DEF CoveredTo
<1>4. ASSUME NEW i \in 1..n, NEW acc \in V, acc.from \in 1..i
      PROVE  Add(acc, i) \in V /\ Add(acc, i).from \in 1..i
  <2> DEFINE kept == CalculateOverlapLines(body, acc.from, i - 1, cut)
             lineSize == body[i].len + 1
             size == IF kept > 0 THEN JoinedLen(SubSeq(body, i - kept, i)) ELSE lineSize
             c == CreateChunk(body, acc.from, i - 1)
             full == acc.size + lineSize > cut.max /\ i - acc.from >= cut.min \div 50
  <2>1. Add(acc, i) = IF full THEN [out |-> Append(acc.out, c), from |-> i - kept, size |-> size]
                              ELSE [acc EXCEPT !.size = @ + lineSize]
    OBVIOUS
  <2>2. acc.from \in Nat /\ i - 1 \in Nat /\ acc.from <= i - 1 + 1
    BY <1>2, <1>4
  <2>3. kept \in 0..(i - 1 - acc.from + 1)
    <3> HIDE DEF V, P
    <3> QED
      BY <2>2, OverlapIs
  <2>4. lineSize \in Int
    BY <1>2
  <2>5. size \in Int
    <3>1. CASE kept > 0
      <4> DEFINE s == SubSeq(body, i - kept, i)
      <4>1. i - kept \in 1..(n + 1) /\ i \in (i - kept - 1)..n
        <5> HIDE DEF kept, n
        <5> QED
          BY <1>2, <1>4, <2>2, <2>3
      <4>2. s \in Seq(X)
        <5> HIDE DEF kept
        <5> QED
          BY <4>1, SubSeqIs
      <4> HIDE DEF s, kept
      <4>3. JoinedLen(s) \in Int
        BY <4>2, JoinedLenType
      <4> QED
        BY <3>1, <4>3 DEF s
    <3>2. CASE ~(kept > 0)
      BY <2>4, <3>2
    <3> QED
      BY <3>1, <3>2
  <2>6. c \in P /\ c.from = acc.from /\ c.to = i - 1
    <3>1. acc.from \in 1..n /\ i - 1 \in (acc.from - 1)..n
      BY <1>2, <1>4
    <3>2. c.from = acc.from /\ c.to = i - 1
      BY DEF CreateChunk
    <3> HIDE DEF V
    <3> QED
      BY <3>1, <3>2, IsPiece
  <2> HIDE DEF kept, lineSize, size, c, full, P, n, Add
  <2>7. i - kept \in 1..i /\ i - kept \in Int
    BY <1>2, <1>4, <2>2, <2>3
  <2>8. acc.out \in Seq(P) /\ acc.size \in Int /\ acc.from \in Int
        /\ acc = [out |-> acc.out, from |-> acc.from, size |-> acc.size]
        /\ \A j \in 1..(acc.from - 1) : Holds(acc.out, j)
    BY DEF CoveredTo
  <2> DEFINE all == Append(acc.out, c)
  <2>9. all \in Seq(P) /\ \A j \in 1..(i - 1) : Holds(all, j)
    <3>1. /\ acc.from \in Int /\ i - 1 \in Int /\ c.from \in Int /\ c.to \in Int
          /\ c.from <= acc.from /\ c.to >= i - 1
      BY <1>2, <2>6, <2>8
    <3> QED
      BY ONLY <2>6, <2>8, <3>1, AppendHolds
  <2> HIDE DEF all
  <2>10. CASE full
    <3> DEFINE next == [out |-> all, from |-> i - kept, size |-> size]
    <3>1. Add(acc, i) = next
      BY <2>1, <2>10 DEF all
    <3>2. /\ next \in [out : Seq(P), from : Int, size : Int]
          /\ next.from = i - kept /\ next.out = all
      BY <2>5, <2>7, <2>9
    <3> HIDE DEF next
    <3>3. CoveredTo(next)
      <4>1. \A j \in 1..(i - kept - 1) : j \in 1..(i - 1)
        BY <2>7
      <4> QED
        BY <2>9, <3>2, <4>1 DEF CoveredTo
    <3> QED
      BY <2>7, <3>1, <3>2, <3>3
  <2>11. CASE ~full
    <3> DEFINE next == [acc EXCEPT !.size = @ + lineSize]
    <3>1. Add(acc, i) = next
      BY <2>1, <2>11
    <3>2. acc.size + lineSize \in Int
      BY <2>4, <2>8
    <3>3. /\ next \in [out : Seq(P), from : Int, size : Int]
          /\ next.from = acc.from /\ next.out = acc.out
      BY <2>8, <3>2
    <3> HIDE DEF next
    <3>4. CoveredTo(next)
      BY <2>8, <3>3 DEF CoveredTo
    <3> QED
      BY <1>4, <3>1, <3>3, <3>4
  <2> QED
    BY <2>10, <2>11
<1>5. \A i \in 1..n, v \in V : step[i, v] = IF v.from \in 1..i THEN Add(v, i) ELSE v
  <2> HIDE DEF Add, V
  <2> QED
    OBVIOUS
<1> HIDE DEF Add, V, n, P
<1>6. step \in [(1..n) \X V -> V]
  BY <1>4
<1> HIDE DEF step
<1>7. PICK G \in [0..n -> V] : Recurs(G, n, base, step)
  <2> HIDE DEF base
  <2> QED
    BY <1>2, <1>3, <1>6, RecursiveFunction
<1> DEFINE T == {i \in 0..n : G[i].from \in 1..upTo(i)}
<1>8. \A i \in 0..n : i \in T
  <2>1. 0 \in T
    <3>1. base.from = 1
      OBVIOUS
    <3> HIDE DEF base
    <3>2. G[0] = base
      BY <1>7 DEF Recurs
    <3> QED
      BY <1>2, <3>1, <3>2
  <2>2. ASSUME NEW i \in 1..n, i - 1 \in T
        PROVE  i \in T
    <3>1. i \in 0..n /\ G[i - 1] \in V /\ G[i - 1].from \in 1..i
      BY <1>2, <2>2
    <3>2. G[i] = step[i, G[i - 1]]
      BY <1>7 DEF Recurs
    <3>3. G[i] = Add(G[i - 1], i)
      BY <1>5, <3>1, <3>2
    <3>4. G[i].from \in 1..i
      BY <1>4, <3>1, <3>3
    <3> QED
      BY <1>2, <3>1, <3>4
  <2> HIDE DEF T
  <2> QED
    BY <1>2, <2>1, <2>2, Climbs
<1>9. \A i \in 0..n : G[i] = IF i = 0 THEN base ELSE Add(G[i - 1], i)
  <2> TAKE i \in 0..n
  <2>1. CASE i = 0
    BY <1>7, <2>1 DEF Recurs
  <2>2. CASE i # 0
    <3>1. i \in 1..n /\ i - 1 \in 0..n
      BY <1>2, <2>2
    <3>2. G[i - 1] \in V /\ G[i - 1].from \in 1..i
      <4>1. i - 1 \in T
        BY <1>8, <3>1
      <4> QED
        BY <1>2, <3>1, <4>1
    <3>3. G[i] = step[i, G[i - 1]]
      BY <1>7, <3>1 DEF Recurs
    <3> QED
      BY <1>5, <2>2, <3>1, <3>2, <3>3
  <2> QED
    BY <2>1, <2>2
<1>10. E(G)
  <2>1. G = [i \in 0..n |-> G[i]]
    OBVIOUS
  <2> QED
    BY <1>9, <2>1
<1>11. E(F)
  <2> HIDE DEF E
  <2> QED
    BY <1>10
<1> HIDE DEF F
<1> DEFINE S == {i \in 0..n : F[i] = G[i]}
<1>12. \A i \in 0..n : i \in S
  <2>1. \A i \in 0..n : F[i] = IF i = 0 THEN base ELSE Add(F[i - 1], i)
    BY <1>11
  <2> HIDE DEF E, base
  <2>2. 0 \in S
    BY <1>2, <1>9, <2>1
  <2>3. ASSUME NEW i \in 1..n, i - 1 \in S
        PROVE  i \in S
    <3>1. i \in 0..n /\ i # 0 /\ F[i - 1] = G[i - 1]
      BY <1>2, <2>3
    <3> QED
      BY <1>9, <2>1, <3>1
  <2> HIDE DEF S
  <2> QED
    BY <1>2, <2>2, <2>3, Climbs
<1>13. F[n] \in V /\ F[n].from \in 1..n
  <2>1. n \in 0..n /\ n # 0
    BY <1>2
  <2>2. F[n] = G[n] /\ n \in T
    BY <1>8, <1>12, <2>1
  <2> QED
    BY <2>1, <2>2
<1> DEFINE out == F[n].out
           from == F[n].from
           last == CreateChunk(body, from, n)
<1>14. /\ out \in Seq(P) /\ from \in 1..n
       /\ \A j \in 1..(from - 1) : Holds(out, j)
  BY <1>13 DEF V, CoveredTo
<1> HIDE DEF out, from
<1>15. last \in P /\ last.from = from /\ last.to = n
  <2>1. n \in (from - 1)..n
    BY <1>2, <1>14
  <2>2. last.from = from /\ last.to = n
    BY DEF CreateChunk
  <2> QED
    BY <1>14, <2>1, <2>2, IsPiece DEF P, n
<1> HIDE DEF last
<1>16. Append(out, last) \in Seq(P) /\ \A j \in 1..n : Holds(Append(out, last), j)
  <2>1. from \in Int /\ n \in Int /\ last.from <= from /\ last.to >= n
        /\ last.from \in Int /\ last.to \in Int
    BY <1>2, <1>14, <1>15
  <2> QED
    BY ONLY <1>14, <1>15, <2>1, AppendHolds
<1> QED
  BY <1>1, <1>16 DEF P, n, out, from, last

\* Every line is in a chunk, but for those of the sections that are too short.
Covers(chunks, body, cut) ==
    \A i \in 1..Len(body) :
        \/ Holds(chunks, i)
        \/ /\ ExtractHeaders(body) # {}
           /\ SectionLen(body, SectionOf(body, i)) < cut.min

LEMMA ChunkDocumentCovers ==
    ASSUME NEW X, IsLined(X), NEW body \in Seq(X), body # <<>>, NEW cut, cut.min \in Int
    PROVE  /\ ChunkDocument(body, cut) \in Seq(Pieces(body))
           /\ Covers(ChunkDocument(body, cut), body, cut)
<1>1. CASE ExtractHeaders(body) # {}
  <2>1. ChunkDocument(body, cut) = SplitByHeaders(body, cut)
    BY <1>1 DEF ChunkDocument
  <2> QED
    BY <1>1, <2>1, SplitByHeadersCovers DEF Covers
<1>2. CASE ExtractHeaders(body) = {} /\ JoinedLen(body) > cut.max
  <2>1. ChunkDocument(body, cut) = SplitBySize(body, cut)
    BY <1>2 DEF ChunkDocument
  <2> QED
    BY <2>1, SplitBySizeCovers DEF Covers
<1>3. CASE ExtractHeaders(body) = {} /\ ~(JoinedLen(body) > cut.max)
  <2> DEFINE n == Len(body)
             c == CreateChunk(body, 1, n)
             one == <<c>>
  <2>1. ChunkDocument(body, cut) = one
    BY <1>3 DEF ChunkDocument
  <2>2. 1 \in 1..n /\ n \in (1 - 1)..n
    OBVIOUS
  <2>3. c \in Pieces(body) /\ c.from = 1 /\ c.to = n
    <3>1. c.from = 1 /\ c.to = n
      BY DEF CreateChunk
    <3> QED
      BY <2>2, <3>1, IsPiece
  <2> HIDE DEF c
  <2>4. one \in Seq(Pieces(body)) /\ Len(one) = 1 /\ one[1] = c
    BY <2>3
  <2> HIDE DEF one
  <2>5. \A i \in 1..n : Holds(one, i)
    BY <2>3, <2>4 DEF Holds
  <2> QED
    BY <2>1, <2>4, <2>5 DEF Covers
<1> QED
  BY <1>1, <1>2, <1>3

-----------------------------------------------------------------------------
(* Parents.                                                                *)

\* What ParentsLead says of the chunks of a document, by their places.
Above(cs, k) ==
    {j \in 1..Len(cs) : cs[j].level < cs[k].level /\ cs[j].id.from < cs[k].id.from}
LedBy(cs, k, above) ==
    IF cs[k].parent = <<>> THEN above = {}
    ELSE \E j \in above : /\ cs[k].parent = <<cs[j].id>>
                          /\ \A i \in above : cs[i].id.from <= cs[j].id.from
Led(cs) == \A k \in 1..Len(cs) : LedBy(cs, k, Above(cs, k))

LEMMA ParentIs ==
    ASSUME NEW n \in Nat, NEW chunks, DOMAIN chunks = 1..Len(chunks),
           \A k \in 1..Len(chunks) : chunks[k].from \in 1..n,
           NEW k, NEW above, above \subseteq 1..Len(chunks),
           \A j \in 1..Len(chunks) :
              j \in above <=> /\ chunks[j].level < chunks[k].level
                              /\ chunks[j].from < chunks[k].from
    PROVE  IF Parent(chunks, k) = 0 THEN above = {}
           ELSE /\ Parent(chunks, k) \in above
                /\ \A i \in above : chunks[i].from <= chunks[Parent(chunks, k)].from
<1>1. Parent(chunks, k) =
        IF above = {} THEN 0
        ELSE CHOOSE j \in above : \A i \in above : chunks[i].from <= chunks[j].from
  <2>1. above = {j \in DOMAIN chunks : /\ chunks[j].level < chunks[k].level
                                       /\ chunks[j].from < chunks[k].from}
    OBVIOUS
  <2> QED
    BY <2>1 DEF Parent
<1>2. CASE above = {}
  BY <1>1, <1>2
<1>3. CASE above # {}
  <2> DEFINE T == {chunks[j].from : j \in above}
  <2>1. T \subseteq 0..n /\ T # {}
    <3>1. PICK j \in above : TRUE
      BY <1>3
    <3>2. chunks[j].from \in T
      OBVIOUS
    <3>3. \A i \in above : chunks[i].from \in 0..n
      OBVIOUS
    <3> QED
      BY <3>2, <3>3
  <2> HIDE DEF T
  <2>2. Max(T) \in T /\ \A y \in T : y <= Max(T)
    BY <2>1, MaxIs
  <2>3. \E j \in above : \A i \in above : chunks[i].from <= chunks[j].from
    BY <2>2 DEF T
  <2>4. /\ Parent(chunks, k) \in above
        /\ \A i \in above : chunks[i].from <= chunks[Parent(chunks, k)].from
    BY <1>1, <1>3, <2>3
  <2>5. 0 \notin above
    OBVIOUS
  <2> QED
    BY <2>4, <2>5
<1> QED
  BY <1>2, <1>3

\* What ChunksCover says of the chunks of a document.
Quoted(cs, body) ==
    \A k \in 1..Len(cs) :
        cs[k].id.words = [m \in 1..(cs[k].id.to - cs[k].id.from + 1) |->
                                body[cs[k].id.from + m - 1].text]
Present(cs, body, cut) ==
    \A i \in 1..Len(body) :
        \/ \E k \in 1..Len(cs) : i \in cs[k].id.from..cs[k].id.to
        \/ /\ ExtractHeaders(body) # {}
           /\ SectionLen(body, SectionOf(body, i)) < cut.min

LEMMA Hierarchy ==
    ASSUME NEW X, IsLined(X), NEW body \in Seq(X), body # <<>>, NEW doc, NEW cut, cut.min \in Int,
           NEW cs, cs = ChunkWithHierarchy(doc, body, cut)
    PROVE  /\ cs \in Seq(Range(cs))
           /\ \A k \in 1..Len(cs) : /\ cs[k].id.doc = doc
                                    /\ cs[k].id.from \in 1..Len(body)
                                    /\ cs[k].level = body[cs[k].id.from].level
           /\ Led(cs)
           /\ Quoted(cs, body)
           /\ Present(cs, body, cut)
<1> DEFINE chunks == ChunkDocument(body, cut)
           id(k) == GenerateChunkID(doc, chunks[k])
           n == Len(chunks)
           parent(k) == IF Parent(chunks, k) = 0 THEN <<>> ELSE <<id(Parent(chunks, k))>>
<1>1. /\ n \in Nat /\ DOMAIN chunks = 1..n
      /\ Covers(chunks, body, cut)
      /\ \A k \in 1..n : /\ chunks[k].from \in 1..Len(body)
                         /\ chunks[k].level = body[chunks[k].from].level
                         /\ Quotes(body, chunks[k])
  <2> HIDE DEF chunks
  <2>1. chunks \in Seq(Pieces(body)) /\ Covers(chunks, body, cut)
    BY ChunkDocumentCovers DEF chunks
  <2>2. \A k \in 1..n : chunks[k] \in Pieces(body)
    BY <2>1
  <2> QED
    BY <2>1, <2>2, PieceIs, PieceQuotes
<1>2. cs = [k \in 1..n |-> [id |-> id(k), level |-> chunks[k].level, parent |-> parent(k)]]
  BY <1>1 DEF ChunkWithHierarchy
<1> HIDE DEF chunks
<1>3. Len(cs) = n /\ DOMAIN cs = 1..n
  <2> HIDE DEF n, id, parent
  <2> QED
    BY <1>1, <1>2
<1>4. cs \in Seq(Range(cs))
  <2>1. cs \in [1..n -> Range(cs)]
    <3> HIDE DEF n, id, parent
    <3> QED
      BY <1>2, <1>3 DEF Range
  <2> HIDE DEF n
  <2> QED
    BY <1>1, <2>1
<1>5. ASSUME NEW k \in 1..n
      PROVE  /\ cs[k].id.doc = doc /\ cs[k].id = id(k) /\ cs[k].id.from = chunks[k].from
             /\ cs[k].id.to = chunks[k].to /\ cs[k].id.words = chunks[k].words
             /\ cs[k].level = chunks[k].level /\ cs[k].parent = parent(k)
  <2>1. cs[k] = [id |-> id(k), level |-> chunks[k].level, parent |-> parent(k)]
    <3> HIDE DEF id, parent, n
    <3> QED
      BY <1>2
  <2>2. /\ id(k).doc = doc /\ id(k).from = chunks[k].from
        /\ id(k).to = chunks[k].to /\ id(k).words = chunks[k].words
    BY DEF GenerateChunkID
  <2> HIDE DEF id, parent
  <2> QED
    BY <2>1, <2>2
<1>6. ASSUME NEW k \in 1..n
      PROVE  LedBy(cs, k, Above(cs, k))
  <2> DEFINE above == Above(cs, k)
             p == Parent(chunks, k)
             m == Len(body)
  <2>1. /\ above \subseteq 1..n
        /\ \A j \in 1..n : j \in above <=> /\ chunks[j].level < chunks[k].level
                                           /\ chunks[j].from < chunks[k].from
    BY <1>3, <1>5 DEF Above
  <2> HIDE DEF above
  <2>2. IF p = 0 THEN above = {}
        ELSE p \in above /\ \A i \in above : chunks[i].from <= chunks[p].from
    <3>1. m \in Nat
      OBVIOUS
    <3>2. \A j \in 1..n : chunks[j].from \in 1..m
      BY <1>1
    <3> HIDE DEF m
    <3> QED
      BY <1>1, <2>1, <3>1, <3>2, ParentIs
  <2>3. cs[k].parent = IF p = 0 THEN <<>> ELSE <<id(p)>>
    <3> HIDE DEF id, p
    <3> QED
      BY <1>5 DEF p
  <2> HIDE DEF p
  <2>4. CASE p = 0
    BY <2>2, <2>3, <2>4 DEF LedBy, above
  <2>5. CASE p # 0
    <3>1. p \in above /\ p \in 1..n /\ \A i \in above : chunks[i].from <= chunks[p].from
      BY <2>1, <2>2, <2>5
    <3>2. cs[p].id = id(p)
      BY <1>5, <3>1
    <3>3. above \subseteq 1..n
      BY <2>1
    <3>4. \A i \in above : cs[i].id.from <= cs[p].id.from
      BY <1>5, <3>1, <3>3
    <3> HIDE DEF id
    <3>5. cs[k].parent = <<cs[p].id>> /\ cs[k].parent # <<>>
      BY <2>3, <2>5, <3>2
    <3> QED
      BY <3>1, <3>4, <3>5 DEF LedBy, above
  <2> QED
    BY <2>4, <2>5
<1>7. Led(cs)
  <2> HIDE DEF id, parent, n
  <2> QED
    BY <1>3, <1>6 DEF Led
<1>8. \A k \in 1..Len(cs) : /\ cs[k].id.doc = doc
                            /\ cs[k].id.from \in 1..Len(body)
                            /\ cs[k].level = body[cs[k].id.from].level
  <2> HIDE DEF id, parent, n
  <2> SUFFICES ASSUME NEW k \in 1..n
               PROVE  /\ cs[k].id.doc = doc
                      /\ cs[k].id.from \in 1..Len(body)
                      /\ cs[k].level = body[cs[k].id.from].level
    BY <1>3
  <2>1. /\ cs[k].id.doc = doc
        /\ cs[k].id.from = chunks[k].from /\ cs[k].level = chunks[k].level
    BY <1>5
  <2>2. /\ chunks[k].from \in 1..Len(body)
        /\ chunks[k].level = body[chunks[k].from].level
    BY <1>1
  <2> QED
    BY <2>1, <2>2
<1> HIDE DEF id, parent, n
<1>9. Quoted(cs, body)
  <2> SUFFICES ASSUME NEW k \in 1..n
               PROVE  cs[k].id.words = [m \in 1..(cs[k].id.to - cs[k].id.from + 1) |->
                                            body[cs[k].id.from + m - 1].text]
    BY <1>3 DEF Quoted
  <2>1. /\ cs[k].id.from = chunks[k].from /\ cs[k].id.to = chunks[k].to
        /\ cs[k].id.words = chunks[k].words /\ Quotes(body, chunks[k])
    BY <1>1, <1>5
  <2> QED
    BY ONLY <2>1, Zenon DEF Quotes
<1>10. Present(cs, body, cut)
  <2> SUFFICES ASSUME NEW i \in 1..Len(body)
               PROVE  \/ \E k \in 1..Len(cs) : i \in cs[k].id.from..cs[k].id.to
                      \/ /\ ExtractHeaders(body) # {}
                         /\ SectionLen(body, SectionOf(body, i)) < cut.min
    BY DEF Present
  <2>1. CASE Holds(chunks, i)
    <3>1. PICK k \in 1..n : i \in chunks[k].from..chunks[k].to
      BY <2>1 DEF Holds, n
    <3>2. k \in 1..Len(cs) /\ i \in cs[k].id.from..cs[k].id.to
      BY <1>3, <1>5, <3>1
    <3> QED
      BY <3>2
  <2>2. CASE ~Holds(chunks, i)
    BY <1>1, <2>2 DEF Covers
  <2> QED
    BY <2>1, <2>2
<1> QED
  BY <1>4, <1>7, <1>8, <1>9, <1>10

-----------------------------------------------------------------------------
(* The batches, one after the other, are the texts.                        *)

LEMMA SubSeqJoins ==
    ASSUME NEW X, NEW s \in Seq(X), NEW a \in Nat, NEW b \in Nat, a <= b, b <= Len(s)
    PROVE  SubSeq(s, 1, a) \o SubSeq(s, a + 1, b) = SubSeq(s, 1, b)
<1> DEFINE u == SubSeq(s, 1, a)
           v == SubSeq(s, a + 1, b)
           w == SubSeq(s, 1, b)
<1>1. Len(s) \in Nat /\ a + 1 \in 1..(Len(s) + 1) /\ 1 \in 1..(Len(s) + 1)
      /\ a \in 0..Len(s) /\ b \in a..Len(s) /\ b \in 0..Len(s)
  OBVIOUS
<1>2. u \in Seq(X) /\ Len(u) = a /\ \A k \in 1..a : u[k] = s[k]
  OBVIOUS
<1>3. v \in Seq(X) /\ Len(v) = b - a /\ \A k \in 1..(b - a) : v[k] = s[a + k]
  <2>1. /\ SubSeq(s, a + 1, b) \in Seq(X)
        /\ Len(SubSeq(s, a + 1, b)) = b - (a + 1) + 1
        /\ \A k \in 1..(b - (a + 1) + 1) : SubSeq(s, a + 1, b)[k] = s[a + 1 + k - 1]
    BY <1>1, SubSeqIs
  <2> QED
    BY <2>1
<1>4. w \in Seq(X) /\ Len(w) = b /\ \A k \in 1..b : w[k] = s[k]
  OBVIOUS
<1> HIDE DEF u, v, w
<1>5. /\ u \o v \in Seq(X)
      /\ Len(u \o v) = b
      /\ \A i \in 1..a : (u \o v)[i] = u[i]
      /\ \A i \in 1..b : i \notin 1..a => i - a \in 1..(b - a) /\ (u \o v)[i] = v[i - a]
  <2>1. /\ u \o v \in Seq(X)
        /\ Len(u \o v) = Len(u) + Len(v)
        /\ \A i \in 1..Len(u) : (u \o v)[i] = u[i]
        /\ \A i \in 1..(Len(u) + Len(v)) : i \notin 1..Len(u) =>
                i - Len(u) \in 1..Len(v) /\ (u \o v)[i] = v[i - Len(u)]
    <3>1. u \in Seq(X) /\ v \in Seq(X)
      BY <1>2, <1>3
    <3> QED
      BY ONLY <3>1, Concat
  <2>2. Len(u) + Len(v) = b
    BY <1>2, <1>3
  <2> QED
    BY <1>2, <1>3, <2>1, <2>2
<1>6. ASSUME NEW i \in 1..b
      PROVE  (u \o v)[i] = w[i]
  <2>1. CASE i \in 1..a
    BY <1>2, <1>4, <1>5, <2>1
  <2>2. CASE i \notin 1..a
    <3>1. i - a \in 1..(b - a) /\ (u \o v)[i] = v[i - a]
      BY <1>5, <2>2
    <3>2. v[i - a] = s[a + (i - a)] /\ a + (i - a) = i
      BY <1>3, <3>1
    <3> QED
      BY <1>4, <3>1, <3>2
  <2> QED
    BY <2>1, <2>2
<1>7. u \o v = w
  BY <1>4, <1>5, <1>6, SeqEqual
<1> QED
  BY <1>7 DEF u, v, w

\* How many texts lie before the i-th of p parts.
PartStart(L, p, i) ==
    LET r == L % p
    IN (i - 1) * (L \div p) + IF i - 1 <= r THEN i - 1 ELSE r

LEMMA BeforeGrows ==
    ASSUME NEW L \in Nat, NEW p \in 1..L
    PROVE  /\ PartStart(L, p, 1) = 0
           /\ PartStart(L, p, p + 1) = L
           /\ \A i \in 1..(p + 1) : PartStart(L, p, i) \in 0..L
           /\ \A i \in 2..(p + 1) :
                PartStart(L, p, i) = PartStart(L, p, i - 1) + L \div p
                                   + (IF i - 1 <= L % p THEN 1 ELSE 0)
           /\ \A i \in 1..p : PartStart(L, p, i) <= PartStart(L, p, i + 1)
<1> DEFINE q == L \div p
           r == L % p
<1>1. q \in Nat /\ r \in 0..(p - 1) /\ L = p * q + r
  OBVIOUS
<1> HIDE DEF q, r
<1>2. \A i : PartStart(L, p, i) = (i - 1) * q + IF i - 1 <= r THEN i - 1 ELSE r
  BY DEF PartStart, q, r
<1>3. PartStart(L, p, 1) = 0
  BY <1>1, <1>2
<1>4. PartStart(L, p, p + 1) = L
  BY <1>1, <1>2
<1>5. \A i \in 1..(p + 1) : PartStart(L, p, i) \in 0..L
  <2> TAKE i \in 1..(p + 1)
  <2>1. i - 1 \in 0..p
    OBVIOUS
  <2>2. (i - 1) * q \in Nat /\ (i - 1) * q <= p * q
    BY <1>1, <2>1
  <2> QED
    BY <1>1, <1>2, <2>1, <2>2
<1>6. \A i \in 2..(p + 1) :
        PartStart(L, p, i) = PartStart(L, p, i - 1) + q + (IF i - 1 <= r THEN 1 ELSE 0)
  <2> TAKE i \in 2..(p + 1)
  <2>1. (i - 1) * q = (i - 1 - 1) * q + q
    BY <1>1
  <2>2. (i - 1) * q \in Int /\ (i - 1 - 1) * q \in Int
    BY <1>1
  <2> QED
    BY <1>1, <1>2, <2>1, <2>2
<1>7. \A i \in 1..p : PartStart(L, p, i) <= PartStart(L, p, i + 1)
  <2> TAKE i \in 1..p
  <2>1. i + 1 \in 2..(p + 1) /\ i + 1 - 1 = i /\ PartStart(L, p, i) \in Int
    BY <1>5
  <2>2. PartStart(L, p, i + 1) = PartStart(L, p, i) + q + (IF i <= r THEN 1 ELSE 0)
    BY <1>6, <2>1
  <2> QED
    BY <1>1, <2>1, <2>2
<1> QED
  BY <1>3, <1>4, <1>5, <1>6, <1>7 DEF q, r

LEMMA SplitsRegroup ==
    ASSUME NEW X, NEW texts \in Seq(X), texts # <<>>, NEW m \in Int, m >= 1,
           NEW split, split = SplitTexts(texts, m)
    PROVE  split \in Seq(Seq(X)) /\ FlattenSeq(split) = texts
<1> DEFINE L == Len(texts)
           p == Min({m, L})
           size(i) == L \div p + (IF i <= L % p THEN 1 ELSE 0)
           E(f) == f = [i \in 1..p + 1 |-> IF i = 1 THEN 0 ELSE f[i - 1] + size(i - 1)]
           F == CHOOSE f : E(f)
           B(i) == PartStart(L, p, i)
           part(i) == SubSeq(texts, F[i] + 1, F[i + 1])
<1>1. L \in Nat \ {0}
  OBVIOUS
<1>2. p \in 1..L
  <2> DEFINE T == {m, L}
  <2>1. T \subseteq Nat /\ T # {} /\ L \in T /\ \A x \in T : x >= 1
    BY <1>1
  <2> HIDE DEF T
  <2>2. Min(T) \in T /\ \A y \in T : Min(T) <= y
    BY <2>1, MinIs
  <2>3. Min(T) \in Nat /\ Min(T) >= 1 /\ Min(T) <= L
    BY <2>1, <2>2
  <2> QED
    BY <2>3 DEF T
<1>3. split = [i \in 1..p |-> SubSeq(texts, F[i] + 1, F[i + 1])]
  BY Zenon DEF SplitTexts
<1> HIDE DEF L, p
<1>4. /\ B(1) = 0 /\ B(p + 1) = L
      /\ \A i \in 1..(p + 1) : B(i) \in 0..L
      /\ \A i \in 2..(p + 1) : B(i) = B(i - 1) + L \div p + (IF i - 1 <= L % p THEN 1 ELSE 0)
      /\ \A i \in 1..p : B(i) <= B(i + 1)
  BY <1>1, <1>2, BeforeGrows
<1> HIDE DEF B
<1>5. E([i \in 1..p + 1 |-> B(i)])
  <2> DEFINE H == [i \in 1..p + 1 |-> B(i)]
  <2>1. \A i \in 1..p + 1 : B(i) = IF i = 1 THEN 0 ELSE H[i - 1] + size(i - 1)
    <3> TAKE i \in 1..p + 1
    <3>1. CASE i = 1
      BY <1>4, <3>1
    <3>2. CASE i # 1
      <4>1. i \in 2..(p + 1) /\ i - 1 \in 1..(p + 1)
        BY <1>2, <3>2
      <4>2. H[i - 1] = B(i - 1) /\ B(i - 1) \in Int
        BY <1>4, <4>1
      <4>3. B(i) = B(i - 1) + L \div p + (IF i - 1 <= L % p THEN 1 ELSE 0)
        BY <1>4, <4>1
      <4>4. L \div p \in Int
        BY <1>1, <1>2
      <4> HIDE DEF H
      <4>5. B(i) = H[i - 1] + size(i - 1)
        BY <4>2, <4>3, <4>4
      <4> HIDE DEF size
      <4> QED
        BY <3>2, <4>5
    <3> QED
      BY <3>1, <3>2
  <2> HIDE DEF size
  <2> QED
    BY <2>1
<1>6. E(F)
  <2> HIDE DEF E
  <2> QED
    BY <1>5
<1> HIDE DEF F
<1> DEFINE T == {i \in 0..p : F[i + 1] = B(i + 1)}
<1>7. \A i \in 0..p : i \in T
  <2>1. \A i \in 1..p + 1 : F[i] = IF i = 1 THEN 0 ELSE F[i - 1] + size(i - 1)
    <3> HIDE DEF size
    <3> QED
      BY <1>6
  <2> HIDE DEF E
  <2>2. 0 \in T
    <3>1. F[1] = 0
      BY <1>2, <2>1
    <3> QED
      BY <1>2, <1>4, <3>1
  <2>3. ASSUME NEW i \in 1..p, i - 1 \in T
        PROVE  i \in T
    <3>1. F[i] = B(i) /\ i + 1 \in 2..(p + 1) /\ i + 1 - 1 = i
      BY <1>2, <2>3
    <3>2. F[i + 1] = F[i] + size(i)
      <4> HIDE DEF size
      <4> QED
        BY <2>1, <3>1
    <3>3. B(i + 1) = B(i) + L \div p + (IF i <= L % p THEN 1 ELSE 0)
      BY <1>4, <3>1
    <3>4. B(i) \in Int /\ L \div p \in Int
      BY <1>1, <1>2, <1>4
    <3>5. F[i + 1] = B(i + 1)
      BY <3>1, <3>2, <3>3, <3>4
    <3> QED
      BY <1>2, <3>5
  <2>4. p \in Nat
    BY <1>1, <1>2
  <2> HIDE DEF T
  <2> QED
    BY <2>2, <2>3, <2>4, Climbs
<1>8. \A i \in 1..p : F[i] = B(i) /\ F[i + 1] = B(i + 1)
  <2> TAKE i \in 1..p
  <2>1. i - 1 \in T /\ i \in T
    BY <1>1, <1>2, <1>7, SMTT(30)
  <2> QED
    BY <1>1, <1>2, <2>1
<1>9. \A i \in 1..p : split[i] = SubSeq(texts, B(i) + 1, B(i + 1))
  BY <1>3, <1>8
<1>10. \A i \in 1..p : SubSeq(texts, B(i) + 1, B(i + 1)) \in Seq(X)
  <2> TAKE i \in 1..p
  <2>1. B(i) \in 0..L /\ B(i + 1) \in 0..L /\ B(i) <= B(i + 1)
    BY <1>1, <1>2, <1>4
  <2>2. B(i) + 1 \in 1..(L + 1) /\ B(i + 1) \in (B(i) + 1 - 1)..L
    BY <1>1, <2>1
  <2> QED
    BY <2>2, SubSeqIs DEF L
<1>11. Len(split) = p /\ split \in Seq(Seq(X))
  <2>1. p \in Nat /\ \A i \in 1..p : split[i] \in Seq(X)
    <3>1. p \in Nat
      BY <1>1, <1>2
    <3>2. ASSUME NEW i \in 1..p
          PROVE  split[i] \in Seq(X)
      <4> DEFINE s == SubSeq(texts, B(i) + 1, B(i + 1))
      <4>1. split[i] = s
        BY <1>9
      <4>2. s \in Seq(X)
        BY <1>10
      <4> HIDE DEF s
      <4> QED
        BY <4>1, <4>2
    <3> QED
      BY <3>1, <3>2
  <2>2. split = [i \in 1..p |-> split[i]]
    BY <1>3
  <2>3. split \in [1..p -> Seq(X)]
    BY <2>1, <2>2
  <2> QED
    BY <2>1, <2>3
<1> DEFINE head(i) == SubSeq(texts, 1, B(i + 1))
           G == [i \in 0..p |-> head(i)]
<1>12. G \in [0..p -> Seq(X)]
  <2>1. \A i \in 0..p : SubSeq(texts, 1, B(i + 1)) \in Seq(X)
    <3> TAKE i \in 0..p
    <3>1. B(i + 1) \in (1 - 1)..L /\ 1 \in 1..(L + 1)
      BY <1>1, <1>2, <1>4
    <3> QED
      BY <3>1, SubSeqIs DEF L
  <2> QED
    BY <2>1
<1>13. Flattens(G, split)
  <2>1. G[0] = <<>>
    <3>1. head(0) = SubSeq(texts, 1, B(1)) /\ 0 \in 0..p
      <4>1. 0 + 1 = 1 /\ 0 \in 0..p
        BY <1>1, <1>2
      <4> QED
        BY <4>1
    <3>2. SubSeq(texts, 1, B(1)) = <<>>
      BY <1>4
    <3> HIDE DEF head
    <3> QED
      BY <3>1, <3>2
  <2>2. ASSUME NEW i \in 1..p
        PROVE  G[i] = G[i - 1] \o split[i]
    <3>1. G[i] = SubSeq(texts, 1, B(i + 1)) /\ G[i - 1] = SubSeq(texts, 1, B(i))
      <4>1. i - 1 + 1 = i /\ i \in 0..p /\ i - 1 \in 0..p
        BY <1>1, <1>2
      <4>2. head(i - 1) = SubSeq(texts, 1, B(i)) /\ head(i) = SubSeq(texts, 1, B(i + 1))
        BY <4>1
      <4> HIDE DEF head
      <4>3. G[i] = head(i) /\ G[i - 1] = head(i - 1)
        BY <4>1
      <4> QED
        BY <4>2, <4>3
    <3>2. B(i) \in Nat /\ B(i + 1) \in Nat /\ B(i) <= B(i + 1) /\ B(i + 1) <= Len(texts)
      BY <1>1, <1>2, <1>4 DEF L
    <3>3. SubSeq(texts, 1, B(i)) \o SubSeq(texts, B(i) + 1, B(i + 1)) = SubSeq(texts, 1, B(i + 1))
      BY <3>2, SubSeqJoins
    <3> QED
      BY <1>9, <3>1, <3>3
  <2> HIDE DEF G
  <2> QED
    BY <1>11, <2>1, <2>2 DEF Flattens
<1>14. FlattenSeq(split) = G[p]
  <2> HIDE DEF G
  <2> QED
    BY <1>11, <1>12, <1>13, FlattenValue
<1>15. G[p] = SubSeq(texts, 1, L)
  <2>1. p \in 0..p /\ head(p) = SubSeq(texts, 1, L)
    BY <1>1, <1>2, <1>4
  <2> HIDE DEF head
  <2> QED
    BY <2>1
<1>16. SubSeq(texts, 1, L) = texts
  BY SubSeqFull DEF L
<1> QED
  BY <1>11, <1>14, <1>15, <1>16

-----------------------------------------------------------------------------
(* Vectors find their texts.                                               *)

\* Where the elements of the i-th sequence are, and where each comes from.
Placed(ss, n, G) ==
    /\ \A i \in 1..n : \A k \in 1..Len(ss[i]) :
            /\ Len(G[i - 1]) + k \in 1..Len(G[n])
            /\ G[n][Len(G[i - 1]) + k] = ss[i][k]
    /\ \A k \in 1..Len(G[n]) : \E i \in 1..n : k - Len(G[i - 1]) \in 1..Len(ss[i])

LEMMA FlattenPlaces ==
    ASSUME NEW X, NEW ss \in Seq(Seq(X)), NEW n \in Nat, n = Len(ss),
           NEW G \in [0..n -> Seq(X)], Flattens(G, ss)
    PROVE  Placed(ss, n, G)
<1>1. \A i \in 1..n : /\ i - 1 \in 0..n /\ i \in 0..n
                      /\ ss[i] \in Seq(X) /\ G[i - 1] \in Seq(X) /\ G[i] = G[i - 1] \o ss[i]
  <2>1. \A i \in 1..n : i - 1 \in 0..n /\ i \in 0..n
    OBVIOUS
  <2>2. \A i \in 1..n : ss[i] \in Seq(X)
    OBVIOUS
  <2>3. \A i \in 1..n : G[i] = G[i - 1] \o ss[i]
    BY DEF Flattens
  <2>4. \A i \in 0..n : G[i] \in Seq(X)
    OBVIOUS
  <2> QED
    BY ONLY <2>1, <2>2, <2>3, <2>4
<1>2. ASSUME NEW i \in 1..n
      PROVE  /\ Len(G[i - 1]) \in Nat /\ Len(ss[i]) \in Nat
             /\ Len(G[i]) = Len(G[i - 1]) + Len(ss[i])
             /\ \A k \in 1..Len(G[i - 1]) : G[i][k] = G[i - 1][k]
             /\ \A k \in 1..Len(ss[i]) : G[i][Len(G[i - 1]) + k] = ss[i][k]
             /\ \A k \in 1..Len(G[i]) : k \notin 1..Len(G[i - 1]) =>
                    k - Len(G[i - 1]) \in 1..Len(ss[i])
  <2> DEFINE s == G[i - 1]
             t == ss[i]
             g == G[i]
  <2>1. s \in Seq(X) /\ t \in Seq(X) /\ g = s \o t
    BY <1>1
  <2> HIDE DEF s, t, g
  <2>2. /\ Len(s) \in Nat /\ Len(t) \in Nat
        /\ Len(s \o t) = Len(s) + Len(t)
        /\ \A k \in 1..Len(s) : (s \o t)[k] = s[k]
        /\ \A k \in 1..Len(t) : (s \o t)[Len(s) + k] = t[k]
        /\ \A k \in 1..(Len(s) + Len(t)) : k \notin 1..Len(s) =>
                k - Len(s) \in 1..Len(t) /\ (s \o t)[k] = t[k - Len(s)]
    BY ONLY <2>1, Concat
  <2> QED
    BY <2>1, <2>2 DEF s, t, g
<1> DEFINE Extends(i) == \A j \in 0..i : /\ Len(G[j]) <= Len(G[i])
                                         /\ \A k \in 1..Len(G[j]) : G[i][k] = G[j][k]
           T == {i \in 0..n : Extends(i)}
<1>3. \A i \in 0..n : Len(G[i]) \in Nat
  OBVIOUS
<1>4. \A i \in 0..n : i \in T
  <2>1. 0 \in T
    <3>1. Extends(0)
      BY <1>3
    <3> QED
      BY <3>1
  <2>2. ASSUME NEW i \in 1..n, i - 1 \in T
        PROVE  i \in T
    <3>1. Extends(i - 1)
      BY <2>2
    <3>2. ASSUME NEW j \in 0..i
          PROVE  /\ Len(G[j]) <= Len(G[i])
                 /\ \A k \in 1..Len(G[j]) : G[i][k] = G[j][k]
      <4>1. CASE j = i
        BY <1>1, <1>3, <4>1
      <4>2. CASE j # i
        <5>1. j \in 0..(i - 1) /\ j \in 0..n
          BY <4>2
        <5>2. Len(G[j]) <= Len(G[i - 1]) /\ \A k \in 1..Len(G[j]) : G[i - 1][k] = G[j][k]
          BY <3>1, <5>1
        <5>3. Len(G[i - 1]) <= Len(G[i]) /\ \A k \in 1..Len(G[i - 1]) : G[i][k] = G[i - 1][k]
          <6>1. /\ Len(G[i - 1]) \in Nat /\ Len(ss[i]) \in Nat
                /\ Len(G[i]) = Len(G[i - 1]) + Len(ss[i])
                /\ \A k \in 1..Len(G[i - 1]) : G[i][k] = G[i - 1][k]
            BY <1>2
          <6> DEFINE p == Len(G[i - 1])
                     q == Len(ss[i])
                     r == Len(G[i])
          <6>2. p \in Nat /\ q \in Nat /\ r = p + q
            BY ONLY <6>1
          <6> HIDE DEF p, q, r
          <6>3. p <= r
            BY ONLY <6>2
          <6> QED
            BY <6>1, <6>3 DEF p, r
        <5>4. Len(G[j]) \in Nat /\ Len(G[i - 1]) \in Nat /\ Len(G[i]) \in Nat
          BY <1>1, <1>3, <5>1
        <5> QED
          BY <5>2, <5>3, <5>4
      <4> QED
        BY <4>1, <4>2
    <3> QED
      BY <3>2
  <2> HIDE DEF T
  <2> QED
    BY <2>1, <2>2, Climbs
<1>5. ASSUME NEW i \in 1..n, NEW k \in 1..Len(ss[i])
      PROVE  /\ Len(G[i - 1]) + k \in 1..Len(G[n])
             /\ G[n][Len(G[i - 1]) + k] = ss[i][k]
  <2>1. /\ Len(G[i - 1]) \in Nat /\ Len(G[i]) = Len(G[i - 1]) + Len(ss[i]) /\ Len(ss[i]) \in Nat
        /\ G[i][Len(G[i - 1]) + k] = ss[i][k]
    BY <1>2
  <2>2. n \in T /\ i \in 0..n
    <3>1. n \in 0..n /\ i \in 0..n
      OBVIOUS
    <3> HIDE DEF T
    <3> QED
      BY <1>4, <3>1
  <2>3. Len(G[i]) <= Len(G[n]) /\ \A m \in 1..Len(G[i]) : G[n][m] = G[i][m]
    BY <2>2
  <2> DEFINE p == Len(G[i - 1])
             q == Len(ss[i])
             r == Len(G[i])
             s == Len(G[n])
  <2>4. s \in Nat /\ p \in Nat /\ q \in Nat /\ r = p + q /\ r <= s /\ k \in 1..q
    <3>1. s \in Nat
      <4>1. n \in 0..n
        OBVIOUS
      <4> QED
        BY <1>3, <4>1
    <3> HIDE DEF s
    <3>2. p \in Nat /\ q \in Nat /\ r = p + q /\ k \in 1..q
      BY ONLY <2>1, k \in 1..Len(ss[i])
    <3>3. r <= s
      BY <2>3 DEF s
    <3> QED
      BY ONLY <3>1, <3>2, <3>3
  <2>5. /\ G[i][p + k] = ss[i][k]
        /\ \A m \in 1..r : G[n][m] = G[i][m]
    BY <2>1, <2>3
  <2> HIDE DEF p, q, r, s
  <2>6. p + k \in 1..r /\ p + k \in 1..s
    BY ONLY <2>4
  <2>7. G[n][p + k] = ss[i][k]
    BY ONLY <2>5, <2>6
  <2> QED
    BY <2>6, <2>7 DEF p, s
<1> DEFINE Found(i) == \A k \in 1..Len(G[i]) :
                            \E j \in 1..i : k - Len(G[j - 1]) \in 1..Len(ss[j])
           U == {i \in 0..n : Found(i)}
<1>6. \A i \in 0..n : i \in U
  <2>1. 0 \in U
    <3>1. Len(G[0]) = 0
      BY DEF Flattens
    <3> QED
      BY <3>1
  <2>2. ASSUME NEW i \in 1..n, i - 1 \in U
        PROVE  i \in U
    <3>1. Found(i - 1)
      BY <2>2
    <3>2. ASSUME NEW k \in 1..Len(G[i])
          PROVE  \E j \in 1..i : k - Len(G[j - 1]) \in 1..Len(ss[j])
      <4>1. CASE k \in 1..Len(G[i - 1])
        <5>1. PICK j \in 1..(i - 1) : k - Len(G[j - 1]) \in 1..Len(ss[j])
          BY <3>1, <4>1
        <5>2. j \in 1..i
          OBVIOUS
        <5> QED
          BY <5>1, <5>2
      <4>2. CASE k \notin 1..Len(G[i - 1])
        <5>1. k - Len(G[i - 1]) \in 1..Len(ss[i])
          BY <1>2, <4>2
        <5>2. i \in 1..i
          OBVIOUS
        <5> QED
          BY <5>1, <5>2
      <4> QED
        BY <4>1, <4>2
    <3> QED
      BY <3>2
  <2> HIDE DEF U
  <2> QED
    BY <2>1, <2>2, Climbs
<1>7. Found(n)
  <2>1. n \in U
    <3>1. n \in 0..n
      OBVIOUS
    <3> HIDE DEF U
    <3> QED
      BY <1>6, <3>1
  <2> QED
    BY <2>1
<1> QED
  BY <1>5, <1>7 DEF Placed

\* Each vector is that of its own text, of the length that some batch was
\* answered with.
Answering(vectors, texts, batches, replies) ==
    /\ DOMAIN vectors = 1..Len(texts)
    /\ \A k \in 1..Len(texts) : \E i \in 1..Len(batches) :
            vectors[k] = [of |-> texts[k].id, len |-> replies[i]]

LEMMA BatchVectors ==
    ASSUME NEW X, NEW batches \in Seq(Seq(X)), NEW replies,
           NEW vectors, vectors = GenerateEmbeddingsBatch(batches, replies),
           NEW flat, flat = FlattenSeq(batches)
    PROVE  /\ flat \in Seq(X)
           /\ Answering(vectors, flat, batches, replies)
<1> DEFINE n == Len(batches)
           start(i) == SumLengthsUpTo(batches, i)
           copied(k) == {i \in DOMAIN batches : k - start(i) \in DOMAIN batches[i]}
           vector(k, i) == [of |-> batches[i][k - start(i)].id, len |-> replies[i]]
<1>1. n \in Nat /\ DOMAIN batches = 1..n /\ \A i \in 1..n : batches[i] \in Seq(X)
  OBVIOUS
<1>2. vectors = [k \in 1..Len(flat) |->
                    IF copied(k) = {} THEN NoVector ELSE vector(k, Max(copied(k)))]
  BY DEF GenerateEmbeddingsBatch
<1>3. PICK G \in [0..n -> Seq(X)] : Flattens(G, batches)
  BY FlattenExists
<1>4. flat = G[n]
  BY <1>3, FlattenValue
<1>5. ASSUME NEW i \in 1..n
      PROVE  start(i) = Len(G[i - 1])
  <2> DEFINE ss == SubSeq(batches, 1, i - 1)
             H == [j \in 0..(i - 1) |-> G[j]]
  <2>1. ss \in Seq(Seq(X)) /\ Len(ss) = i - 1 /\ \A j \in 1..(i - 1) : ss[j] = batches[j]
    BY <1>1
  <2>2. H \in [0..(i - 1) -> Seq(X)]
    <3>1. \A j \in 0..(i - 1) : j \in 0..n
      BY <1>1
    <3>2. \A j \in 0..n : G[j] \in Seq(X)
      OBVIOUS
    <3> QED
      BY ONLY <3>1, <3>2
  <2>3. Flattens(H, ss)
    <3>1. H[0] = <<>>
      BY <1>3 DEF Flattens
    <3>2. ASSUME NEW j \in 1..(i - 1)
          PROVE  H[j] = H[j - 1] \o ss[j]
      <4>1. H[j] = G[j] /\ H[j - 1] = G[j - 1] /\ j \in 1..n
        BY <1>1
      <4>2. G[j] = G[j - 1] \o batches[j]
        BY <1>3, <4>1 DEF Flattens
      <4> HIDE DEF ss, H
      <4> QED
        BY <2>1, <4>1, <4>2
    <3> HIDE DEF ss, H
    <3> QED
      BY <2>1, <3>1, <3>2 DEF Flattens
  <2>4. H[i - 1] = G[i - 1]
    OBVIOUS
  <2> HIDE DEF ss, H
  <2>5. FlattenSeq(ss) = H[i - 1]
    BY <2>1, <2>2, <2>3, FlattenValue
  <2> QED
    BY <2>4, <2>5 DEF SumLengthsUpTo, ss
<1>6. Placed(batches, n, G)
  <2> HIDE DEF n
  <2>1. n \in Nat /\ n = Len(batches) /\ batches \in Seq(Seq(X))
    BY <1>1 DEF n
  <2>2. G \in [0..n -> Seq(X)]
    OBVIOUS
  <2> QED
    BY <1>3, <2>1, <2>2, FlattenPlaces, Zenon
<1> HIDE DEF start, n
<1>7. ASSUME NEW k \in 1..Len(flat)
      PROVE  \E i \in 1..n : vectors[k] = [of |-> flat[k].id, len |-> replies[i]]
  <2>1. \A i \in 1..n : DOMAIN batches[i] = 1..Len(batches[i])
    BY <1>1
  <2>2. copied(k) \subseteq 0..n /\ copied(k) \subseteq 1..n
    BY <1>1
  <2>3. copied(k) # {}
    <3>1. PICK i \in 1..n : k - Len(G[i - 1]) \in 1..Len(batches[i])
      BY <1>4, <1>6 DEF Placed
    <3>2. i \in copied(k)
      BY <1>1, <1>5, <2>1, <3>1
    <3> QED
      BY <3>2
  <2> DEFINE C == copied(k)
             i == Max(C)
  <2>4. i \in C
    <3>1. C \subseteq 0..n /\ C # {}
      BY <2>2, <2>3
    <3> HIDE DEF C
    <3> QED
      BY <1>1, <3>1, MaxIs
  <2>5. vectors[k] = vector(k, i)
    <3> HIDE DEF vector
    <3> QED
      BY <1>2, <2>3
  <2> HIDE DEF i
  <2>6. i \in 1..n /\ k - Len(G[i - 1]) \in 1..Len(batches[i]) /\ start(i) = Len(G[i - 1])
    BY <1>1, <1>5, <2>1, <2>4
  <2>7. batches[i][k - start(i)] = flat[k]
    <3>1. Len(G[i - 1]) \in Nat
      BY <1>1, <2>6
    <3>2. Len(G[i - 1]) + (k - Len(G[i - 1])) = k
      BY <3>1
    <3> QED
      BY <1>4, <1>6, <2>6, <3>2 DEF Placed
  <2>8. vectors[k] = [of |-> flat[k].id, len |-> replies[i]]
    BY <2>5, <2>7
  <2> QED
    BY <2>6, <2>8
<1>8. DOMAIN vectors = 1..Len(flat)
  <2> HIDE DEF copied, vector
  <2> QED
    BY <1>2
<1>9. flat \in Seq(X)
  BY <1>1, <1>4
<1> QED
  BY <1>7, <1>8, <1>9 DEF n, Answering

-----------------------------------------------------------------------------
(* What is ingested is lines, and at least one.                            *)

LEMMA InsertAtType ==
    ASSUME NEW X, NEW s \in Seq(X), NEW x \in X, NEW i \in 1..(Len(s) + 1)
    PROVE  InsertAt(s, i, x) \in Seq(X)
<1>1. Len(s) \in Nat
  OBVIOUS
<1>2. SubSeq(s, 1, i - 1) \in Seq(X)
  BY <1>1
<1>3. SubSeq(s, i, Len(s)) \in Seq(X)
  <2>1. Len(s) \in (i - 1)..Len(s)
    BY <1>1
  <2> QED
    BY <2>1, SubSeqIs
<1>4. <<x>> \in Seq(X)
  OBVIOUS
<1> DEFINE p == SubSeq(s, 1, i - 1)
           q == SubSeq(s, i, Len(s))
           one == <<x>>
<1>5. InsertAt(s, i, x) = (p \o one) \o q
  BY DEF InsertAt
<1> HIDE DEF p, q, one
<1>6. p \in Seq(X) /\ q \in Seq(X) /\ one \in Seq(X)
  BY <1>2, <1>3, <1>4 DEF p, q, one
<1>7. p \o one \in Seq(X)
  BY <1>6, ConcatProperties
<1>8. (p \o one) \o q \in Seq(X)
  BY <1>6, <1>7, ConcatProperties
<1> QED
  BY <1>5, <1>8

LEMMA RenderNotesType ==
    ASSUME NEW N, NEW issue, issue.notes \in Seq(N)
    PROVE  RenderNotes(issue) \in Seq(N)
<1> DEFINE T == {x \in Range(issue.notes) : x.system => issue.includeSystem}
           shown == IF issue.includeNotes THEN Only(issue.notes, T) ELSE <<>>
           Earlier(a, b) == a.at # 0 /\ (b.at = 0 \/ a.at < b.at)
           Later(notes, x) == {i \in DOMAIN notes : Earlier(x, notes[i])}
           Place_(notes, x) == IF Later(notes, x) = {} THEN Len(notes) + 1
                               ELSE Min(Later(notes, x))
           Insert(notes, x) == InsertAt(notes, Place_(notes, x), x)
           n == Len(shown)
           E(f) == f = [k \in 0..n |-> IF k = 0 THEN <<>> ELSE Insert(f[k - 1], shown[k])]
           F == CHOOSE f : E(f)
           V == Seq(N)
           none == <<>>
           step == [p \in (1..n) \X V |-> Insert(p[2], shown[p[1]])]
<1>1. RenderNotes(issue) = F[n]
  BY Zenon DEF RenderNotes
<1>2. shown \in Seq(N)
  <2> DEFINE U == {x \in N : x \in T}
  <2>1. Only(issue.notes, T) \in Seq(U)
    <3> HIDE DEF T
    <3> QED
      BY OnlyType
  <2>2. U \subseteq N
    OBVIOUS
  <2> HIDE DEF U, T
  <2>3. Only(issue.notes, T) \in Seq(N)
    BY <2>1, <2>2, SeqWidens
  <2> QED
    BY <2>3
<1> HIDE DEF shown
<1>3. n \in Nat /\ \A k \in 1..n : shown[k] \in N
  BY <1>2
<1>4. ASSUME NEW notes \in V, NEW x \in N
      PROVE  Insert(notes, x) \in V
  <2> DEFINE L == Later(notes, x)
             m == Place_(notes, x)
  <2>1. m = IF L = {} THEN Len(notes) + 1 ELSE Min(L)
    OBVIOUS
  <2>2. L \subseteq 1..Len(notes) /\ Len(notes) \in Nat
    OBVIOUS
  <2> HIDE DEF L, m
  <2>3. m \in 1..(Len(notes) + 1)
    <3>1. CASE L = {}
      BY <2>1, <2>2, <3>1
    <3>2. CASE L # {}
      <4>1. L \subseteq Nat
        BY <2>2
      <4>2. Min(L) \in L
        BY <3>2, <4>1, MinIs
      <4> QED
        BY <2>1, <2>2, <3>2, <4>2
    <3> QED
      BY <3>1, <3>2
  <2>4. InsertAt(notes, m, x) \in Seq(N)
    BY <2>3, InsertAtType
  <2> QED
    BY <2>4 DEF m
<1> HIDE DEF Insert, n
<1>5. step \in [(1..n) \X V -> V] /\ none \in V
  BY <1>3, <1>4
<1>6. \A k \in 1..n, v \in V : step[k, v] = Insert(v, shown[k])
  <2> HIDE DEF V
  <2> QED
    OBVIOUS
<1> HIDE DEF step, V
<1>7. PICK G \in [0..n -> V] : Recurs(G, n, none, step)
  <2> HIDE DEF none
  <2> QED
    BY <1>3, <1>5, RecursiveFunction
<1>8. E(G)
  <2>1. \A k \in 0..n : G[k] = IF k = 0 THEN none ELSE Insert(G[k - 1], shown[k])
    <3> HIDE DEF none
    <3> TAKE k \in 0..n
    <3>1. CASE k = 0
      BY <1>7, <3>1 DEF Recurs
    <3>2. CASE k # 0
      <4>1. k \in 1..n /\ k - 1 \in 0..n
        BY <1>3, <3>2
      <4>2. G[k - 1] \in V /\ G[k] = step[k, G[k - 1]]
        BY <1>7, <4>1 DEF Recurs
      <4> QED
        BY <1>6, <3>2, <4>1, <4>2
    <3> QED
      BY <3>1, <3>2
  <2>2. G = [k \in 0..n |-> G[k]]
    OBVIOUS
  <2> QED
    BY <2>1, <2>2
<1>9. E(F)
  <2> HIDE DEF E
  <2> QED
    BY <1>8
<1> HIDE DEF F
<1> DEFINE S == {k \in 0..n : F[k] \in V}
<1>10. \A k \in 0..n : k \in S
  <2>1. \A k \in 0..n : F[k] = IF k = 0 THEN none ELSE Insert(F[k - 1], shown[k])
    BY <1>9
  <2> HIDE DEF E, none
  <2>2. 0 \in S
    BY <1>3, <1>5, <2>1
  <2>3. ASSUME NEW k \in 1..n, k - 1 \in S
        PROVE  k \in S
    <3>1. k \in 0..n /\ k # 0 /\ F[k - 1] \in V
      BY <1>3, <2>3
    <3>2. F[k] = Insert(F[k - 1], shown[k])
      BY <2>1, <3>1
    <3> QED
      BY <1>3, <1>4, <3>1, <3>2
  <2> HIDE DEF S
  <2> QED
    BY <1>3, <2>2, <2>3, Climbs
<1> QED
  BY <1>1, <1>3, <1>10 DEF V

LEMMA SeqJoin ==
    ASSUME NEW X, NEW s \in Seq(X), NEW t \in Seq(X)
    PROVE  s \o t \in Seq(X)
  BY ConcatProperties

LEMMA IssueBody ==
    ASSUME NEW issue, IsText(issue.description),
           issue.notes \in Seq(Range(issue.notes)),
           \A x \in Range(issue.notes) : x.len \in Nat,
           issue.titleLen \in Nat
    PROVE  \E X : /\ IsLined(X)
                  /\ EnvelopeToMarkdown(issue).body \in Seq(X)
                  /\ EnvelopeToMarkdown(issue).body # <<>>
<1> DEFINE N == Range(issue.notes)
           D == Range(issue.description)
           blank == [level |-> 0, len |-> 0, text |-> ""]
           title == [level |-> 1, len |-> issue.titleLen, text |-> issue.title]
           header == [level |-> 2, len |-> 11, text |-> "Comments"]
           heading(x) == [level |-> 0, len |-> x.len, text |-> x.text]
           X == D \cup {blank, title, header} \cup {heading(x) : x \in N}
           notes == RenderNotes(issue)
           Note(x) == <<blank, heading(x)>>
           shown == [k \in DOMAIN notes |-> Note(notes[k])]
           a == <<title>>
           b == IF issue.description = <<>> THEN <<>> ELSE <<blank>> \o issue.description
           c == IF notes = <<>> THEN <<>> ELSE <<blank, header>> \o FlattenSeq(shown)
<1>1. IsLined(X)
  <2>1. \A x \in D : x.level \in Nat /\ x.len \in Int
    BY DEF IsText
  <2>2. \A x \in {blank, title, header} : x.level \in Nat /\ x.len \in Int
    <3>1. blank.level \in Nat /\ blank.len \in Int
      OBVIOUS
    <3>2. title.level \in Nat /\ title.len \in Int
      OBVIOUS
    <3>3. header.level \in Nat /\ header.len \in Int
      OBVIOUS
    <3> HIDE DEF blank, title, header
    <3> QED
      BY <3>1, <3>2, <3>3
  <2>3. \A x \in N : heading(x).level \in Nat /\ heading(x).len \in Int
    OBVIOUS
  <2> HIDE DEF blank, title, header, heading, D, N
  <2> QED
    BY <2>1, <2>2, <2>3 DEF IsLined
<1>2. EnvelopeToMarkdown(issue).body = (a \o b) \o c
  BY DEF EnvelopeToMarkdown
<1>3. notes \in Seq(N)
  BY RenderNotesType
<1>4. issue.description \in Seq(X)
  <2>1. issue.description \in Seq(D) /\ D \subseteq X
    BY DEF IsText
  <2> HIDE DEF X, D
  <2> QED
    BY <2>1, SeqWidens
<1>5. /\ blank \in X /\ title \in X /\ header \in X
      /\ \A x \in N : heading(x) \in X
  <2> HIDE DEF blank, title, header, heading
  <2> QED
    OBVIOUS
<1> HIDE DEF notes, X, blank, title, header, heading, N
<1>6. shown \in Seq(Seq(X))
  <2>1. \A k \in 1..Len(notes) : notes[k] \in N
    BY <1>3
  <2>2. \A k \in 1..Len(notes) : Note(notes[k]) \in Seq(X)
    BY <1>5, <2>1
  <2>3. DOMAIN notes = 1..Len(notes) /\ Len(notes) \in Nat
    BY <1>3
  <2> HIDE DEF Note
  <2> QED
    BY <2>2, <2>3
<1> HIDE DEF shown
<1>7. a \in Seq(X) /\ a # <<>>
  BY <1>5
<1>8. b \in Seq(X)
  <2> DEFINE s == <<blank>>
             t == issue.description
  <2>1. s \in Seq(X) /\ t \in Seq(X)
    BY <1>4, <1>5
  <2> HIDE DEF s, t
  <2>2. s \o t \in Seq(X)
    BY <2>1, SeqJoin
  <2> QED
    BY <2>2 DEF s, t
<1>9. c \in Seq(X)
  <2> DEFINE s == <<blank, header>>
             t == FlattenSeq(shown)
  <2>1. s \in Seq(X)
    BY <1>5
  <2>2. t \in Seq(X)
    <3>1. PICK G \in [0..Len(shown) -> Seq(X)] : Flattens(G, shown)
      BY <1>6, FlattenExists
    <3>2. t = G[Len(shown)]
      BY <1>6, <3>1, FlattenValue
    <3>3. Len(shown) \in 0..Len(shown)
      BY <1>6
    <3> HIDE DEF t
    <3> QED
      BY <3>2, <3>3
  <2> HIDE DEF s, t
  <2>3. s \o t \in Seq(X)
    BY <2>1, <2>2, SeqJoin
  <2> QED
    BY <2>3 DEF s, t
<1> HIDE DEF a, b, c
<1>10. a \o b \in Seq(X) /\ Len(a \o b) # 0
  <2>1. a \o b \in Seq(X) /\ Len(a \o b) = Len(a) + Len(b)
    BY <1>7, <1>8, ConcatProperties
  <2>2. Len(a) \in Nat \ {0} /\ Len(b) \in Nat
    BY <1>7, <1>8
  <2> QED
    BY <2>1, <2>2
<1>11. (a \o b) \o c \in Seq(X) /\ Len((a \o b) \o c) # 0
  <2> DEFINE s == a \o b
  <2>1. s \in Seq(X) /\ Len(s) # 0
    BY <1>10
  <2> HIDE DEF s
  <2>2. s \o c \in Seq(X) /\ Len(s \o c) = Len(s) + Len(c)
    BY <1>9, <2>1, ConcatProperties
  <2>3. Len(s) \in Nat /\ Len(c) \in Nat
    BY <1>9, <2>1
  <2>4. s \o c \in Seq(X) /\ Len(s \o c) # 0
    BY <2>1, <2>2, <2>3
  <2> QED
    BY <2>4 DEF s
<1>12. (a \o b) \o c # <<>>
  <2> DEFINE s == (a \o b) \o c
  <2>1. s \in Seq(X) /\ Len(s) # 0
    BY <1>11
  <2> HIDE DEF s
  <2>2. s # <<>>
    BY <2>1
  <2> QED
    BY <2>2 DEF s
<1> QED
  BY <1>1, <1>2, <1>11, <1>12

\* A document that is submitted, as the parser reads it.
LEMMA SubmittedIsLined ==
    ASSUME workload \in DOMAIN Workloads, NEW f \in Submitted,
           NEW doc, doc = ParseDocument(f)
    PROVE  /\ doc.id = f.uid
           /\ \E X : IsLined(X) /\ doc.body \in Seq(X) /\ doc.body # <<>>
<1>1. doc.id = f.uid /\ doc.body = ExtractFrontmatter(f)
  BY DEF ParseDocument
<1>2. CASE f \in Asks.files
  <2> DEFINE body == f.body
             D == Range(body)
             first == body[1]
             X == D \cup {Beheaded(first)}
             one == <<Beheaded(first)>>
             rest == Tail(body)
  <2>1. IsText(body) /\ body # <<>>
    BY <1>2, LibraryAssumption DEF Asks
  <2>2. body \in Seq(D) /\ \A x \in D : x \in [level : Nat, len : Nat, text : {x.text}]
    BY <2>1 DEF IsText
  <2> HIDE DEF body, D
  <2>3. first \in D
    BY <2>1, <2>2
  <2>4. Beheaded(first).level \in Nat /\ Beheaded(first).len \in Int
    <3> DEFINE T == [level : Nat, len : Nat, text : {first.text}]
    <3>1. first \in T
      BY <2>2, <2>3
    <3> HIDE DEF first
    <3> DEFINE level == IF first.level \in {1, 2} THEN first.level - 1 ELSE first.level
               len == IF first.level = 1 THEN first.len - 2 ELSE first.len - 1
    <3>2. level \in Nat /\ len \in Int
      BY <3>1
    <3>3. Beheaded(first) = [[first EXCEPT !.level = level] EXCEPT !.len = len]
      BY Zenon DEF Beheaded
    <3> HIDE DEF level, len
    <3> QED
      BY <3>1, <3>2, <3>3
  <2>5. IsLined(X)
    <3> HIDE DEF first
    <3> QED
      BY <2>2, <2>4 DEF IsLined
  <2>6. D \subseteq X /\ Beheaded(first) \in X
    OBVIOUS
  <2> HIDE DEF X, first
  <2>7. body \in Seq(X)
    BY <2>2, <2>6, SeqWidens
  <2>8. one \in Seq(X) /\ rest \in Seq(X) /\ one # <<>>
    BY <2>1, <2>6, <2>7
  <2> HIDE DEF one, rest
  <2>9. one \o rest \in Seq(X) /\ Len(one \o rest) = Len(one) + Len(rest)
    BY <2>8, ConcatProperties
  <2>10. one \o rest # <<>>
    <3> DEFINE s == one \o rest
    <3>1. Len(one) \in Nat \ {0} /\ Len(rest) \in Nat
      BY <2>8
    <3>2. s \in Seq(X) /\ Len(s) # 0
      BY <2>9, <3>1
    <3> HIDE DEF s
    <3>3. s # <<>>
      BY <3>2
    <3> QED
      BY <3>3 DEF s
  <2>11. ExtractFrontmatter(f) \in {one \o rest, body}
    BY DEF ExtractFrontmatter, body, one, rest, first
  <2> QED
    BY <1>1, <2>1, <2>5, <2>7, <2>9, <2>10, <2>11
<1>3. CASE f \notin Asks.files
  <2>1. PICK issue \in Asks.issues : f = EnvelopeToMarkdown(issue)
    BY <1>3 DEF Submitted
  <2>2. /\ issue.titleLen \in Nat /\ IsText(issue.description)
        /\ issue.notes \in Seq(Range(issue.notes))
        /\ \A x \in Range(issue.notes) : x.len \in Nat
    BY LibraryAssumption DEF Asks
  <2>3. \E X : IsLined(X) /\ f.body \in Seq(X) /\ f.body # <<>>
    BY <2>1, <2>2, IssueBody
  <2>4. f.gap = TRUE
    BY <2>1 DEF EnvelopeToMarkdown
  <2>5. ExtractFrontmatter(f) = f.body
    BY <2>4 DEF ExtractFrontmatter
  <2> QED
    BY <1>1, <2>3, <2>5
<1> QED
  BY <1>2, <1>3

-----------------------------------------------------------------------------
(* Rankings.                                                               *)

Fractions(ids, key) ==
    \A a \in ids : key[a][1] \in Nat \ {0} /\ key[a][2] \in Nat \ {0}

LEMMA Products ==
    ASSUME NEW x \in Nat, NEW y \in Nat, NEW z \in Nat, x <= y
    PROVE  x * z <= y * z
  OBVIOUS

LEMMA Cancelled ==
    ASSUME NEW x \in Nat, NEW y \in Nat, NEW z \in Nat \ {0}, x * z <= y * z
    PROVE  x <= y
<1>1. SUFFICES ASSUME y + 1 <= x PROVE FALSE
  OBVIOUS
<1>2. (y + 1) * z <= x * z
  BY <1>1, Products
<1>3. (y + 1) * z = y * z + z
  OBVIOUS
<1>4. y * z \in Nat /\ x * z \in Nat
  OBVIOUS
<1> QED
  BY <1>2, <1>3, <1>4

LEMMA NotLessIsTransitive ==
    ASSUME NEW ids, NEW key, Fractions(ids, key),
           NEW a \in ids, NEW b \in ids, NEW c \in ids,
           ~Less(key, b, a), ~Less(key, c, b)
    PROVE  ~Less(key, c, a)
<1> DEFINE ap == key[a][1]
           aq == key[a][2]
           bp == key[b][1]
           bq == key[b][2]
           cp == key[c][1]
           cq == key[c][2]
<1>1. /\ ap \in Nat \ {0} /\ aq \in Nat \ {0} /\ bp \in Nat \ {0}
      /\ bq \in Nat \ {0} /\ cp \in Nat \ {0} /\ cq \in Nat \ {0}
  BY DEF Fractions
<1>2. ~(bp * aq < ap * bq) /\ ~(cp * bq < bp * cq)
  BY DEF Less
<1> SUFFICES ~(cp * aq < ap * cq)
  BY DEF Less
<1> HIDE DEF ap, aq, bp, bq, cp, cq
<1>3. /\ ap * bq \in Nat /\ bp * aq \in Nat /\ bp * cq \in Nat
      /\ cp * bq \in Nat /\ cp * aq \in Nat /\ ap * cq \in Nat
  BY <1>1
<1>4. ap * bq <= bp * aq /\ bp * cq <= cp * bq
  BY <1>2, <1>3
<1>5. (ap * bq) * cq <= (bp * aq) * cq /\ (bp * cq) * aq <= (cp * bq) * aq
  BY <1>1, <1>3, <1>4, Products
<1>6. /\ (ap * bq) * cq = (ap * cq) * bq
      /\ (bp * aq) * cq = (bp * cq) * aq
      /\ (cp * bq) * aq = (cp * aq) * bq
  BY <1>1
<1>7. (ap * cq) * bq <= (cp * aq) * bq
  <2> DEFINE u == (ap * cq) * bq
             v == (bp * cq) * aq
             w == (cp * aq) * bq
  <2>1. u \in Nat /\ v \in Nat /\ w \in Nat
    BY <1>1, <1>3
  <2>2. u <= v /\ v <= w
    BY <1>5, <1>6
  <2> HIDE DEF u, v, w
  <2>3. u <= w
    BY <2>1, <2>2
  <2> QED
    BY <2>3 DEF u, w
<1>8. ap * cq <= cp * aq
  BY <1>1, <1>3, <1>7, Cancelled
<1> QED
  BY <1>3, <1>8

LEMMA LessIsStrict ==
    ASSUME NEW ids, NEW key, Fractions(ids, key), NEW a \in ids, NEW b \in ids
    PROVE  ~Less(key, a, b) \/ ~Less(key, b, a)
<1> DEFINE u == key[a][1] * key[b][2]
           v == key[b][1] * key[a][2]
<1>1. u \in Nat /\ v \in Nat
  BY DEF Fractions
<1>2. (Less(key, a, b) <=> u < v) /\ (Less(key, b, a) <=> v < u)
  BY DEF Less
<1> HIDE DEF u, v
<1> QED
  BY <1>1, <1>2

\* Of finitely many, one is least.
LEMMA LeastIs ==
    ASSUME NEW ids, NEW key, Fractions(ids, key), IsFiniteSet(ids), ids # {}
    PROVE  Least(ids, key) \in ids /\ \A b \in ids : ~Less(key, b, Least(ids, key))
<1> DEFINE Has(S) == \E a \in S : \A b \in S : ~Less(key, b, a)
           n == Cardinality(ids)
           T == {k \in Nat : \A S \in SUBSET ids :
                    IsFiniteSet(S) /\ S # {} /\ Cardinality(S) = k => Has(S)}
<1>1. n \in Nat
  BY FS_CardinalityType
<1>2. 0 \in T
  <2>1. \A S : IsFiniteSet(S) /\ Cardinality(S) = 0 => S = {}
    BY FS_EmptySet
  <2> QED
    BY <2>1
<1>3. ASSUME NEW k \in 1..n, k - 1 \in T PROVE k \in T
  <2> SUFFICES ASSUME NEW S \in SUBSET ids, IsFiniteSet(S), S # {}, Cardinality(S) = k
               PROVE  Has(S)
    BY <1>1
  <2>1. PICK a \in S : TRUE
    OBVIOUS
  <2> DEFINE R == S \ {a}
  <2>2. IsFiniteSet(R) /\ Cardinality(R) = k - 1
    BY <2>1, FS_RemoveElement
  <2>3. a \in ids /\ ~Less(key, a, a)
    BY <2>1, LessIsStrict
  <2>4. CASE R = {}
    <3>1. \A b \in S : b = a
      BY <2>4
    <3> QED
      BY <2>3, <3>1
  <2>5. CASE R # {}
    <3>1. Has(R)
      BY <1>3, <2>2, <2>5
    <3>2. PICK m \in R : \A b \in R : ~Less(key, b, m)
      BY <3>1
    <3>3. m \in S /\ m \in ids /\ \A b \in S : b \in R \/ b = a
      OBVIOUS
    <3>4. CASE Less(key, a, m)
      <4>1. ~Less(key, m, a)
        BY <2>3, <3>3, <3>4, LessIsStrict
      <4>2. \A b \in R : ~Less(key, b, a)
        <5> TAKE b \in R
        <5>1. b \in ids /\ ~Less(key, b, m)
          BY <3>2
        <5> QED
          BY <2>3, <3>3, <4>1, <5>1, NotLessIsTransitive
      <4> QED
        BY <2>1, <2>3, <3>3, <4>2
    <3>5. CASE ~Less(key, a, m)
      BY <3>2, <3>3, <3>5
    <3> QED
      BY <3>4, <3>5
  <2> QED
    BY <2>4, <2>5
<1>4. n \in T
  <2> HIDE DEF T
  <2>1. \A k \in 0..n : k \in T
    BY <1>1, <1>2, <1>3, Climbs
  <2> QED
    BY <1>1, <2>1
<1>5. Has(ids)
  BY <1>4
<1> QED
  BY <1>5 DEF Least

-----------------------------------------------------------------------------
\* What Sorted has taken after k steps.
Taken(s, k, ids, key) ==
    /\ s \in Seq(ids) /\ Len(s) = k
    /\ IsFiniteSet(ids \ ToSet(s)) /\ Cardinality(ids \ ToSet(s)) = Cardinality(ids) - k
    /\ \A j \in 1..k : \A i \in 1..(j - 1) : s[i] # s[j] /\ ~Less(key, s[j], s[i])
    /\ \A i \in 1..k : \A a \in ids \ ToSet(s) : ~Less(key, a, s[i])

LEMMA ToSetIs ==
    ASSUME NEW X, NEW s \in Seq(X)
    PROVE  /\ ToSet(s) \subseteq X
           /\ \A i \in 1..Len(s) : s[i] \in ToSet(s)
           /\ \A a \in ToSet(s) : \E i \in 1..Len(s) : s[i] = a
           /\ \A x \in X : ToSet(Append(s, x)) = ToSet(s) \cup {x}
<1>1. DOMAIN s = 1..Len(s) /\ \A i \in 1..Len(s) : s[i] \in X
  OBVIOUS
<1>2. ASSUME NEW x \in X PROVE ToSet(Append(s, x)) = ToSet(s) \cup {x}
  <2> DEFINE t == Append(s, x)
  <2>1. /\ Len(s) \in Nat /\ DOMAIN t = 1..(Len(s) + 1) /\ t[Len(s) + 1] = x
        /\ \A i \in 1..Len(s) : t[i] = s[i]
    OBVIOUS
  <2> HIDE DEF t
  <2>2. 1..(Len(s) + 1) = (1..Len(s)) \cup {Len(s) + 1}
    BY <2>1
  <2>3. ToSet(t) = ToSet(s) \cup {x}
    BY <1>1, <2>1, <2>2 DEF ToSet
  <2> QED
    BY <2>3 DEF t
<1> QED
  BY <1>1, <1>2 DEF ToSet

LEMMA TakesOneMore ==
    ASSUME NEW ids, NEW key, Fractions(ids, key), IsFiniteSet(ids),
           NEW k \in 1..Cardinality(ids), NEW s, Taken(s, k - 1, ids, key)
    PROVE  Taken(Append(s, Least(ids \ ToSet(s), key)), k, ids, key)
<1> DEFINE rest == ids \ ToSet(s)
           x == Least(rest, key)
           t == Append(s, x)
           n == Cardinality(ids)
<1>1. n \in Nat /\ k \in 1..n
  BY FS_CardinalityType
<1>2. /\ s \in Seq(ids) /\ Len(s) = k - 1
      /\ IsFiniteSet(rest) /\ Cardinality(rest) = n - (k - 1)
      /\ \A j \in 1..(k - 1) : \A i \in 1..(j - 1) : s[i] # s[j] /\ ~Less(key, s[j], s[i])
      /\ \A i \in 1..(k - 1) : \A a \in rest : ~Less(key, a, s[i])
  BY DEF Taken
<1> HIDE DEF n
<1>3. rest # {}
  <2>1. Cardinality(rest) # 0
    BY <1>1, <1>2
  <2> HIDE DEF rest
  <2> QED
    BY <2>1, <1>2, FS_EmptySet
<1>4. x \in rest /\ \A b \in rest : ~Less(key, b, x)
  <2>1. Fractions(rest, key)
    BY DEF Fractions
  <2> HIDE DEF rest
  <2> QED
    BY <1>2, <1>3, <2>1, LeastIs
<1> HIDE DEF x
<1>5. x \in ids
  BY <1>4
<1>6. /\ t \in Seq(ids) /\ Len(t) = k /\ t[k] = x
      /\ \A i \in 1..(k - 1) : t[i] = s[i]
  BY <1>2, <1>5
<1>7. ToSet(t) = ToSet(s) \cup {x}
  BY <1>2, <1>5, ToSetIs
<1>8. \A i \in 1..(k - 1) : s[i] \in ToSet(s)
  BY <1>2, ToSetIs
<1> HIDE DEF t
<1>9. ids \ ToSet(t) = rest \ {x}
  BY <1>7
<1>10. IsFiniteSet(rest \ {x}) /\ Cardinality(rest \ {x}) = n - k
  <2> HIDE DEF rest
  <2>1. IsFiniteSet(rest \ {x}) /\ Cardinality(rest \ {x}) = Cardinality(rest) - 1
    BY <1>2, <1>4, FS_RemoveElement
  <2> QED
    BY <1>1, <1>2, <2>1
<1>11. ASSUME NEW j \in 1..k, NEW i \in 1..(j - 1)
       PROVE  t[i] # t[j] /\ ~Less(key, t[j], t[i])
  <2>1. i \in 1..(k - 1)
    OBVIOUS
  <2>2. CASE j = k
    BY <1>2, <1>4, <1>6, <1>8, <2>1, <2>2
  <2>3. CASE j # k
    <3>1. j \in 1..(k - 1)
      BY <2>3
    <3> QED
      BY <1>2, <1>6, <2>1, <3>1
  <2> QED
    BY <2>2, <2>3
<1>12. ASSUME NEW i \in 1..k, NEW a \in ids \ ToSet(t)
       PROVE  ~Less(key, a, t[i])
  <2>1. a \in rest
    BY <1>9
  <2>2. CASE i = k
    BY <1>4, <1>6, <2>1, <2>2
  <2>3. CASE i # k
    <3>1. i \in 1..(k - 1)
      BY <2>3
    <3> QED
      BY <1>2, <1>6, <2>1, <3>1
  <2> QED
    BY <2>2, <2>3
<1>13. Taken(t, k, ids, key)
  BY <1>6, <1>9, <1>10, <1>11, <1>12 DEF Taken, n
<1> QED
  BY <1>13 DEF t, x

SortedStep(before, ids, key) == Append(before, Least(ids \ ToSet(before), key))
Sorts(f, n, ids, key) ==
    f = [k \in 0..n |-> IF k = 0 THEN <<>> ELSE SortedStep(f[k - 1], ids, key)]

LEMMA SortedExists ==
    ASSUME NEW ids, NEW key, NEW n \in Nat
    PROVE  \E f : Sorts(f, n, ids, key)
<1> DEFINE W == ids \cup {Least(r, key) : r \in SUBSET ids}
           V == Seq(W)
           step == [p \in (1..n) \X V |-> SortedStep(p[2], ids, key)]
<1>1. <<>> \in V
  OBVIOUS
<1>2. \A v \in V : SortedStep(v, ids, key) \in V
  <2> TAKE v \in V
  <2>1. ids \ ToSet(v) \in SUBSET ids
    OBVIOUS
  <2>2. Least(ids \ ToSet(v), key) \in W
    BY <2>1
  <2> HIDE DEF W
  <2> QED
    BY <2>2 DEF SortedStep
<1> HIDE DEF V
<1>3. step \in [(1..n) \X V -> V]
  BY <1>2
<1>4. \A k \in 1..n, v \in V : step[k, v] = SortedStep(v, ids, key)
  OBVIOUS
<1> HIDE DEF step
<1>5. PICK f \in [0..n -> V] : Recurs(f, n, <<>>, step)
  BY <1>1, <1>3, RecursiveFunction
<1>6. \A k \in 0..n : f[k] = IF k = 0 THEN <<>> ELSE SortedStep(f[k - 1], ids, key)
  <2> TAKE k \in 0..n
  <2>1. CASE k = 0
    BY <1>5, <2>1 DEF Recurs
  <2>2. CASE k # 0
    <3>1. k \in 1..n /\ k - 1 \in 0..n
      BY <2>2
    <3>2. f[k - 1] \in V
      BY <3>1
    <3>3. f[k] = step[k, f[k - 1]]
      BY <1>5, <3>1 DEF Recurs
    <3> QED
      BY <1>4, <2>2, <3>1, <3>2, <3>3
  <2> QED
    BY <2>1, <2>2
<1>7. f = [k \in 0..n |-> f[k]]
  OBVIOUS
<1> QED
  BY <1>6, <1>7 DEF Sorts

\* A ranking has every id once, and none before one with a lesser key.
Ranks(s, ids) ==
    /\ s \in Seq(ids)
    /\ \A a \in ids : \E i \in 1..Len(s) : s[i] = a
    /\ \A j \in 1..Len(s) : \A i \in 1..(j - 1) : s[i] # s[j]

LEMMA SortedIs ==
    ASSUME NEW ids, NEW key, Fractions(ids, key), IsFiniteSet(ids)
    PROVE  /\ Ranks(Sorted(ids, key), ids)
           /\ Len(Sorted(ids, key)) = Cardinality(ids)
           /\ \A j \in 1..Cardinality(ids) : \A i \in 1..(j - 1) :
                  ~Less(key, Sorted(ids, key)[j], Sorted(ids, key)[i])
<1> DEFINE n == Cardinality(ids)
           E(f) == f = [k \in 0..n |->
                        IF k = 0 THEN <<>>
                        ELSE LET before == f[k - 1]
                             IN Append(before, Least(ids \ ToSet(before), key))]
           F == CHOOSE f : E(f)
           T == {k \in 0..n : Taken(F[k], k, ids, key)}
<1>1. n \in Nat
  BY FS_CardinalityType
<1>2. Sorted(ids, key) = F[n]
  BY Zenon DEF Sorted
<1>3. E(F)
  <2>1. \E f : E(f)
    <3> HIDE DEF n
    <3>1. \E f : Sorts(f, n, ids, key)
      BY <1>1, SortedExists
    <3> QED
      BY <3>1, Zenon DEF Sorts, SortedStep
  <2> HIDE DEF E
  <2> QED
    BY <2>1
<1> HIDE DEF F, n
<1>4. /\ F[0] = <<>>
      /\ \A k \in 1..n : F[k] = Append(F[k - 1], Least(ids \ ToSet(F[k - 1]), key))
  <2>1. \A k \in 0..n : F[k] = IF k = 0 THEN <<>>
                        ELSE Append(F[k - 1], Least(ids \ ToSet(F[k - 1]), key))
    BY <1>3
  <2>2. 0 \in 0..n /\ \A k \in 1..n : k \in 0..n /\ k # 0
    BY <1>1
  <2> HIDE DEF E
  <2> QED
    BY <2>1, <2>2
<1> HIDE DEF E
<1>5. 0 \in T
  <2>1. Taken(<<>>, 0, ids, key)
    <3>1. ids \ ToSet(<<>>) = ids
      BY DEF ToSet
    <3>2. <<>> \in Seq(ids) /\ Len(<<>>) = 0 /\ 1..0 = {} /\ n - 0 = n
      BY <1>1
    <3> QED
      BY <3>1, <3>2 DEF Taken, n
  <2> QED
    BY <1>1, <1>4, <2>1
<1>6. ASSUME NEW k \in 1..n, k - 1 \in T PROVE k \in T
  <2>1. Taken(F[k - 1], k - 1, ids, key)
    BY <1>6
  <2> DEFINE s == F[k - 1]
  <2>2. F[k] = Append(s, Least(ids \ ToSet(s), key))
    BY <1>4
  <2> HIDE DEF s
  <2>3. Taken(Append(s, Least(ids \ ToSet(s), key)), k, ids, key)
    BY <2>1, TakesOneMore DEF n, s
  <2>4. k \in 0..n
    BY <1>1
  <2> QED
    BY <2>2, <2>3, <2>4
<1>7. Taken(F[n], n, ids, key)
  <2>1. \A k \in 0..n : k \in T
    <3> HIDE DEF T
    <3> QED
      BY <1>1, <1>5, <1>6, Climbs
  <2>2. n \in 0..n
    BY <1>1
  <2> QED
    BY <2>1, <2>2
<1> DEFINE s == F[n]
<1> HIDE DEF s
<1>8. /\ s \in Seq(ids) /\ Len(s) = n
      /\ IsFiniteSet(ids \ ToSet(s)) /\ Cardinality(ids \ ToSet(s)) = n - n
      /\ \A j \in 1..n : \A i \in 1..(j - 1) : s[i] # s[j] /\ ~Less(key, s[j], s[i])
  BY <1>7 DEF Taken, s, n
<1>9. ids \subseteq ToSet(s)
  <2>1. n - n = 0
    BY <1>1
  <2>2. ids \ ToSet(s) = {}
    <3> DEFINE R == ids \ ToSet(s)
    <3>1. IsFiniteSet(R) /\ Cardinality(R) = 0
      BY <1>8, <2>1
    <3> HIDE DEF R
    <3>2. R = {}
      BY <3>1, FS_EmptySet
    <3> QED
      BY <3>2 DEF R
  <2> QED
    BY <2>2
<1>10. \A a \in ids : \E i \in 1..Len(s) : s[i] = a
  BY <1>8, <1>9, ToSetIs
<1>11. Ranks(s, ids)
  BY <1>8, <1>10 DEF Ranks
<1> QED
  BY <1>2, <1>8, <1>11 DEF s, n

-----------------------------------------------------------------------------
LEMMA PositionIs ==
    ASSUME NEW X, NEW s \in Seq(X)
    PROVE  \A x : /\ Position(s, x) \in 1..(Len(s) + 1)
                  /\ x \in ToSet(s) => /\ Position(s, x) \in 1..Len(s)
                                        /\ s[Position(s, x)] = x
                  /\ x \notin ToSet(s) => Position(s, x) = Len(s) + 1
<1> TAKE x
<1>1. Len(s) \in Nat /\ DOMAIN s = 1..Len(s)
  OBVIOUS
<1>2. CASE x \in ToSet(s)
  <2>1. \E i \in DOMAIN s : s[i] = x
    BY <1>2, ToSetIs, <1>1
  <2>2. Position(s, x) = CHOOSE i \in DOMAIN s : s[i] = x
    BY <1>2 DEF Position
  <2>3. Position(s, x) \in DOMAIN s /\ s[Position(s, x)] = x
    BY <2>1, <2>2
  <2> QED
    BY <1>1, <1>2, <2>3
<1>3. CASE x \notin ToSet(s)
  BY <1>1, <1>3 DEF Position
<1> QED
  BY <1>2, <1>3

LEMMA PositionInRanking ==
    ASSUME NEW ids, NEW s, Ranks(s, ids), NEW i \in 1..Len(s)
    PROVE  s[i] \in ToSet(s) /\ Position(s, s[i]) = i
<1>1. s \in Seq(ids) /\ Len(s) \in Nat
      /\ \A j \in 1..Len(s) : \A k \in 1..(j - 1) : s[k] # s[j]
  BY DEF Ranks
<1>2. s[i] \in ToSet(s)
  BY <1>1, ToSetIs
<1> DEFINE p == Position(s, s[i])
<1>3. p \in 1..Len(s) /\ s[p] = s[i]
  BY <1>1, <1>2, PositionIs
<1> HIDE DEF p
<1>4. ~(p < i) /\ ~(i < p)
  BY <1>1, <1>3
<1>5. p = i
  BY <1>1, <1>3, <1>4
<1> QED
  BY <1>2, <1>5 DEF p

LEMMA RankedSet ==
    ASSUME NEW ids, NEW s, Ranks(s, ids)
    PROVE  ToSet(s) = ids
<1>1. s \in Seq(ids) /\ \A a \in ids : \E i \in 1..Len(s) : s[i] = a
  BY DEF Ranks
<1>2. ToSet(s) \subseteq ids /\ \A i \in 1..Len(s) : s[i] \in ToSet(s)
  BY <1>1, ToSetIs
<1> QED
  BY <1>1, <1>2

\* The first of a ranking are a ranking of fewer.
Begins(f, s, ids) ==
    /\ Ranks(f, ToSet(f)) /\ ToSet(f) \subseteq ids /\ f \in Seq(ids)
    /\ Len(f) \in Nat /\ Len(f) <= Len(s)
    /\ \A i \in 1..Len(f) : f[i] = s[i]

LEMMA FirstIs ==
    ASSUME NEW ids, NEW s, Ranks(s, ids), NEW n \in Nat
    PROVE  Begins(First(s, n), s, ids) /\ Len(First(s, n)) = Min({n, Len(s)})
<1> DEFINE m == Min({n, Len(s)})
           f == First(s, n)
<1>1. s \in Seq(ids) /\ Len(s) \in Nat
      /\ \A j \in 1..Len(s) : \A k \in 1..(j - 1) : s[k] # s[j]
  BY DEF Ranks
<1>2. m \in Nat /\ m <= Len(s)
  <2> DEFINE U == {n, Len(s)}
  <2>1. U \subseteq Nat /\ U # {} /\ Len(s) \in U
    BY <1>1
  <2> HIDE DEF U
  <2>2. Min(U) \in U /\ \A y \in U : Min(U) <= y
    BY <2>1, MinIs
  <2>3. Min(U) \in Nat /\ Min(U) <= Len(s)
    BY <2>1, <2>2
  <2> QED
    BY <2>3 DEF U
<1>3. f = SubSeq(s, 1, m)
  BY DEF First
<1> HIDE DEF m, f
<1>4. f \in Seq(ids) /\ Len(f) = m /\ \A i \in 1..m : f[i] = s[i]
  BY <1>1, <1>2, <1>3
<1>5. \A a \in ToSet(f) : \E i \in 1..Len(f) : f[i] = a
  BY <1>4, ToSetIs
<1>6. f \in Seq(ToSet(f))
  <2>1. \A i \in 1..Len(f) : f[i] \in ToSet(f)
    BY <1>4, ToSetIs
  <2>2. f = [i \in 1..m |-> f[i]] /\ \A i \in 1..m : f[i] \in ToSet(f)
    BY <1>4, <2>1
  <2>3. [i \in 1..m |-> f[i]] \in Seq(ToSet(f))
    BY <1>2, <2>2
  <2> QED
    BY <2>2, <2>3
<1>7. \A j \in 1..Len(f) : \A k \in 1..(j - 1) : f[k] # f[j]
  BY <1>1, <1>2, <1>4
<1>8. Ranks(f, ToSet(f))
  BY <1>5, <1>6, <1>7 DEF Ranks
<1>9. ToSet(f) \subseteq ids
  BY <1>4, ToSetIs
<1>10. Begins(f, s, ids)
  BY <1>2, <1>4, <1>8, <1>9 DEF Begins
<1> QED
  BY <1>4, <1>10 DEF f, m

-----------------------------------------------------------------------------
\* What a collection and an index rank.
LEMMA FiniteImage ==
    ASSUME NEW S, IsFiniteSet(S), NEW f, DOMAIN f = S
    PROVE  IsFiniteSet({f[x] : x \in S})
<1> DEFINE T == {f[x] : x \in S}
           g == [x \in S |-> f[x]]
<1>1. g \in Surjection(S, T)
  BY DEF Surjection
<1> QED
  BY <1>1, FS_Surjection

LEMMA IdsAreFinite ==
    ASSUME NEW S, IsFiniteSet(S)
    PROVE  IsFiniteSet({c.id : c \in S})
<1> DEFINE f == [c \in S |-> c.id]
<1>1. DOMAIN f = S /\ {f[c] : c \in S} = {c.id : c \in S}
  OBVIOUS
<1> HIDE DEF f
<1> QED
  BY <1>1, FiniteImage

LEMMA RankingIs ==
    ASSUME NEW ids, IsFiniteSet(ids), NEW key, Fractions(ids, key), NEW n \in Nat
    PROVE  \E R \in SUBSET ids : Ranks(First(Sorted(ids, key), n), R)
<1> DEFINE s == Sorted(ids, key)
<1>1. Ranks(s, ids)
  BY SortedIs
<1> HIDE DEF s
<1>2. Ranks(First(s, n), ToSet(First(s, n))) /\ ToSet(First(s, n)) \subseteq ids
  BY <1>1, FirstIs DEF Begins
<1> QED
  BY <1>2 DEF s

LEMMA VectorSearchRanks ==
    ASSUME NEW chunks, IsFiniteSet(chunks), NEW X, NEW query, query.near \in Seq(X),
           NEW limit \in Nat, NEW filter
    PROVE  \E R : Ranks(VectorSearch(chunks, query, limit, filter), R)
<1> DEFINE ids == {c.id : c \in {x \in chunks : ToWhere(x, filter)}}
           caps == {limit, Cardinality(chunks), MaxResults}
           key == [id \in ids |-> <<Distance(id, query), 1>>]
<1>1. VectorSearch(chunks, query, limit, filter) = First(Sorted(ids, key), Min(caps))
  BY Zenon DEF VectorSearch
<1>2. IsFiniteSet(ids)
  <2> DEFINE S == {x \in chunks : ToWhere(x, filter)}
  <2>1. IsFiniteSet(S)
    BY FS_Subset
  <2> HIDE DEF S
  <2>2. IsFiniteSet({c.id : c \in S})
    BY <2>1, IdsAreFinite
  <2> QED
    BY <2>2 DEF S
<1>3. Min(caps) \in Nat
  <2>1. caps \subseteq Nat /\ caps # {}
    BY FS_CardinalityType DEF MaxResults
  <2> HIDE DEF caps
  <2> QED
    BY <2>1, MinIs
<1> HIDE DEF ids, caps
<1>4. \A id : Distance(id, query) \in Nat \ {0}
  <2> TAKE id
  <2>1. Position(query.near, id.words[1]) \in 1..(Len(query.near) + 1)
    BY PositionIs
  <2>2. Len(query.near) \in Nat
    OBVIOUS
  <2> QED
    BY <2>1, <2>2 DEF Distance
<1>5. Fractions(ids, key)
  <2>1. \A id \in ids : key[id] = <<Distance(id, query), 1>>
    OBVIOUS
  <2> HIDE DEF key
  <2>2. \A id \in ids : key[id][1] = Distance(id, query) /\ key[id][2] = 1
    BY <2>1
  <2> QED
    BY <1>4, <2>2 DEF Fractions
<1> HIDE DEF key
<1> QED
  BY <1>1, <1>2, <1>3, <1>5, RankingIs

LEMMA KeywordSearchRanks ==
    ASSUME NEW entries, IsFiniteSet(entries), NEW X, NEW query, query.terms \in Seq(X),
           NEW limit \in Nat, NEW filter
    PROVE  \E R : Ranks(KeywordSearch(entries, query, limit, filter), R)
<1> DEFINE ids == {e.id : e \in {x \in entries : BuildSearchQuery(x, query, filter)}}
           key == [id \in ids |-> <<BestTerm(id, query), 1>>]
<1>1. KeywordSearch(entries, query, limit, filter) = First(Sorted(ids, key), limit)
  BY Zenon DEF KeywordSearch
<1>2. IsFiniteSet(ids)
  <2> DEFINE S == {x \in entries : BuildSearchQuery(x, query, filter)}
  <2>1. IsFiniteSet(S)
    BY FS_Subset
  <2> HIDE DEF S
  <2>2. IsFiniteSet({c.id : c \in S})
    BY <2>1, IdsAreFinite
  <2> QED
    BY <2>2 DEF S
<1> HIDE DEF ids
<1>4. \A id : BestTerm(id, query) \in Nat \ {0}
  <2> TAKE id
  <2> DEFINE U == {Position(query.terms, w) : w \in ToSet(id.words)} \cup {Len(query.terms) + 1}
  <2>1. BestTerm(id, query) = Min(U)
    BY DEF BestTerm
  <2>2. U \subseteq Nat \ {0} /\ U # {}
    <3>1. \A w : Position(query.terms, w) \in 1..(Len(query.terms) + 1)
      BY PositionIs
    <3>2. Len(query.terms) \in Nat
      OBVIOUS
    <3> QED
      BY <3>1, <3>2
  <2> HIDE DEF U
  <2>3. Min(U) \in U
    BY <2>2, MinIs
  <2> QED
    BY <2>1, <2>2, <2>3
<1>5. Fractions(ids, key)
  <2>1. \A id \in ids : key[id] = <<BestTerm(id, query), 1>>
    OBVIOUS
  <2> HIDE DEF key
  <2>2. \A id \in ids : key[id][1] = BestTerm(id, query) /\ key[id][2] = 1
    BY <2>1
  <2> QED
    BY <1>4, <2>2 DEF Fractions
<1> HIDE DEF key
<1> QED
  BY <1>1, <1>2, <1>5, RankingIs

-----------------------------------------------------------------------------
\* The fusion of two rankings.
Ahead(near, found, a, b) ==
    /\ NotBehind(near, a, b) /\ NotBehind(found, a, b)
    /\ Before(near, a, b) \/ Before(found, a, b)

FuseKey(near, found, id) ==
    <<RrfScore(near, found, id)[2], RrfScore(near, found, id)[1]>>

LEMMA FuseKeyIs ==
    ASSUME NEW X, NEW near \in Seq(X), NEW found \in Seq(X), NEW id,
           NEW s, s = RrfK + Position(near, id), NEW k, k = RrfK + Position(found, id)
    PROVE  /\ s \in Nat \ {0} /\ k \in Nat \ {0}
           /\ FuseKey(near, found, id) =
                IF id \notin ToSet(found) THEN <<s, 1>>
                ELSE IF id \notin ToSet(near) THEN <<k, 1>>
                ELSE <<s * k, s + k>>
<1>1. /\ Position(near, id) \in 1..(Len(near) + 1) /\ Position(found, id) \in 1..(Len(found) + 1)
      /\ Len(near) \in Nat /\ Len(found) \in Nat
  BY PositionIs
<1>2. s \in Nat \ {0} /\ k \in Nat \ {0}
  BY <1>1 DEF RrfK
<1>3. RrfScore(near, found, id) =
        IF id \notin ToSet(found) THEN <<1, s>>
        ELSE IF id \notin ToSet(near) THEN <<1, k>>
        ELSE <<s + k, s * k>>
  BY DEF RrfScore
<1> QED
  BY <1>2, <1>3 DEF FuseKey

LEMMA SmallerFactors ==
    ASSUME NEW x \in Nat, NEW y \in Nat, NEW z \in Nat \ {0}, x < y
    PROVE  x * z < y * z
<1>1. (x + 1) * z <= y * z
  BY Products
<1>2. (x + 1) * z = x * z + z /\ x * z \in Nat /\ y * z \in Nat
  OBVIOUS
<1> QED
  BY <1>1, <1>2

LEMMA BothBetter ==
    ASSUME NEW sa \in Nat \ {0}, NEW sb \in Nat \ {0}, NEW ka \in Nat \ {0},
           NEW kb \in Nat \ {0}, sa < sb, ka < kb
    PROVE  (sa * ka) * (sb + kb) < (sb * kb) * (sa + ka)
<1>1. /\ sa * ka \in Nat \ {0} /\ sb * kb \in Nat \ {0} /\ sa * sb \in Nat \ {0}
      /\ ka * kb \in Nat \ {0}
  <2>1. \A x, y \in Nat \ {0} : x * y \in Nat \ {0}
    <3> TAKE x, y \in Nat \ {0}
    <3>1. 0 * y < x * y
      BY SmallerFactors
    <3>2. x * y \in Int /\ 0 * y = 0
      OBVIOUS
    <3> QED
      BY <3>1, <3>2
  <2> QED
    BY <2>1
<1>2. ka * (sa * sb) < kb * (sa * sb) /\ sa * (ka * kb) < sb * (ka * kb)
  BY <1>1, SmallerFactors
<1>3. (sa * ka) * (sb + kb) = ka * (sa * sb) + sa * (ka * kb)
  <2>1. (sa * ka) * (sb + kb) = (sa * ka) * sb + (sa * ka) * kb
    BY <1>1
  <2>2. (sa * ka) * sb = ka * (sa * sb)
    OBVIOUS
  <2>3. (sa * ka) * kb = sa * (ka * kb)
    OBVIOUS
  <2> QED
    BY <2>1, <2>2, <2>3
<1>4. (sb * kb) * (sa + ka) = kb * (sa * sb) + sb * (ka * kb)
  <2>1. (sb * kb) * (sa + ka) = (sb * kb) * sa + (sb * kb) * ka
    BY <1>1
  <2>2. (sb * kb) * sa = kb * (sa * sb)
    OBVIOUS
  <2>3. (sb * kb) * ka = sb * (ka * kb)
    OBVIOUS
  <2> QED
    BY <2>1, <2>2, <2>3
<1> DEFINE u == ka * (sa * sb)
           v == kb * (sa * sb)
           w == sa * (ka * kb)
           z == sb * (ka * kb)
<1>5. u \in Nat /\ v \in Nat /\ w \in Nat /\ z \in Nat
  BY <1>1
<1>6. u < v /\ w < z
  BY <1>2
<1> HIDE DEF u, v, w, z
<1>7. u + w < v + z
  BY <1>5, <1>6
<1> QED
  BY <1>3, <1>4, <1>7 DEF u, v, w, z

LEMMA OneBetter ==
    ASSUME NEW sa \in Nat \ {0}, NEW sb \in Nat \ {0}, NEW ka \in Nat \ {0}, sa < sb
    PROVE  (sa * ka) * 1 < sb * (sa + ka)
<1>1. sa * ka < sb * ka
  BY SmallerFactors
<1>2. sb * (sa + ka) = sb * sa + sb * ka
  OBVIOUS
<1>3. sb * sa \in Nat /\ sb * ka \in Nat /\ sa * ka \in Nat /\ (sa * ka) * 1 = sa * ka
  OBVIOUS
<1> QED
  BY <1>1, <1>2, <1>3

\* What is ahead has the greater score.
LEMMA AheadIsLess ==
    ASSUME NEW X, NEW near \in Seq(X), NEW found \in Seq(X), NEW a, NEW b,
           b \in ToSet(near) \cup ToSet(found), Ahead(near, found, a, b),
           NEW key, key[a] = FuseKey(near, found, a), key[b] = FuseKey(near, found, b)
    PROVE  Less(key, a, b)
<1> DEFINE sa == RrfK + Position(near, a)
           sb == RrfK + Position(near, b)
           ka == RrfK + Position(found, a)
           kb == RrfK + Position(found, b)
<1>1. /\ sa \in Nat \ {0} /\ ka \in Nat \ {0}
      /\ key[a] = IF a \notin ToSet(found) THEN <<sa, 1>>
                  ELSE IF a \notin ToSet(near) THEN <<ka, 1>>
                  ELSE <<sa * ka, sa + ka>>
  BY FuseKeyIs
<1>2. /\ sb \in Nat \ {0} /\ kb \in Nat \ {0}
      /\ key[b] = IF b \notin ToSet(found) THEN <<sb, 1>>
                  ELSE IF b \notin ToSet(near) THEN <<kb, 1>>
                  ELSE <<sb * kb, sb + kb>>
  BY FuseKeyIs
<1>3. /\ b \in ToSet(near) => a \in ToSet(near) /\ sa < sb
      /\ b \in ToSet(found) => a \in ToSet(found) /\ ka < kb
  <2>1. /\ Position(near, a) \in 1..(Len(near) + 1) /\ Position(near, b) \in 1..(Len(near) + 1)
        /\ Position(found, a) \in 1..(Len(found) + 1) /\ Position(found, b) \in 1..(Len(found) + 1)
        /\ Len(near) \in Nat /\ Len(found) \in Nat
    BY PositionIs
  <2> QED
    BY <2>1 DEF Ahead, NotBehind, Before, RrfK
<1> HIDE DEF sa, sb, ka, kb
<1> SUFFICES key[a][1] * key[b][2] < key[b][1] * key[a][2]
  BY DEF Less
<1>4. CASE b \in ToSet(near) /\ b \in ToSet(found)
  <2>1. key[a] = <<sa * ka, sa + ka>> /\ key[b] = <<sb * kb, sb + kb>>
    BY <1>1, <1>2, <1>3, <1>4
  <2>2. (sa * ka) * (sb + kb) < (sb * kb) * (sa + ka)
    BY <1>1, <1>2, <1>3, <1>4, BothBetter
  <2> QED
    BY <2>1, <2>2
<1>5. CASE b \in ToSet(near) /\ b \notin ToSet(found)
  <2>1. key[b] = <<sb, 1>> /\ a \in ToSet(near) /\ sa < sb
    BY <1>2, <1>3, <1>5
  <2>2. CASE a \in ToSet(found)
    <3>1. key[a] = <<sa * ka, sa + ka>>
      BY <1>1, <2>1, <2>2
    <3>2. (sa * ka) * 1 < sb * (sa + ka)
      BY <1>1, <1>2, <2>1, OneBetter
    <3> QED
      BY <2>1, <3>1, <3>2
  <2>3. CASE a \notin ToSet(found)
    <3>1. key[a] = <<sa, 1>>
      BY <1>1, <2>3
    <3>2. sa * 1 < sb * 1
      BY <1>1, <1>2, <2>1
    <3> QED
      BY <2>1, <3>1, <3>2
  <2> QED
    BY <2>2, <2>3
<1>6. CASE b \notin ToSet(near) /\ b \in ToSet(found)
  <2>1. key[b] = <<kb, 1>> /\ a \in ToSet(found) /\ ka < kb
    BY <1>2, <1>3, <1>6
  <2>2. CASE a \in ToSet(near)
    <3>1. key[a] = <<sa * ka, sa + ka>> /\ sa * ka = ka * sa /\ sa + ka = ka + sa
      BY <1>1, <2>1, <2>2
    <3>2. (ka * sa) * 1 < kb * (ka + sa)
      BY <1>1, <1>2, <2>1, OneBetter
    <3> QED
      BY <2>1, <3>1, <3>2
  <2>3. CASE a \notin ToSet(near)
    <3>1. key[a] = <<ka, 1>>
      BY <1>1, <2>1, <2>3
    <3>2. ka * 1 < kb * 1
      BY <1>1, <1>2, <2>1
    <3> QED
      BY <2>1, <3>1, <3>2
  <2> QED
    BY <2>2, <2>3
<1> QED
  BY <1>4, <1>5, <1>6

LEMMA RrfFuseIs ==
    ASSUME NEW N, NEW near, Ranks(near, N), NEW M, NEW found, Ranks(found, M),
           NEW all, all = ToSet(near) \cup ToSet(found)
    PROVE  /\ Ranks(RrfFuse(near, found), all)
           /\ Len(RrfFuse(near, found)) = Cardinality(all)
           /\ \A j \in 1..Len(RrfFuse(near, found)) : \A i \in 1..(j - 1) :
                  ~Ahead(near, found, RrfFuse(near, found)[j], RrfFuse(near, found)[i])
<1> DEFINE score == [id \in all |-> RrfScore(near, found, id)]
           key == [id \in all |-> <<score[id][2], score[id][1]>>]
           fused == Sorted(all, key)
           X == N \cup M
<1>1. RrfFuse(near, found) = fused
  BY Zenon DEF RrfFuse
<1>2. near \in Seq(N) /\ found \in Seq(M)
  BY DEF Ranks
<1>3. near \in Seq(X) /\ found \in Seq(X)
  BY <1>2
<1>4. IsFiniteSet(all)
  <2>1. ASSUME NEW Y, NEW s \in Seq(Y) PROVE IsFiniteSet(ToSet(s))
    <3>1. DOMAIN s = 1..Len(s) /\ Len(s) \in Nat
      OBVIOUS
    <3>2. IsFiniteSet(1..Len(s))
      BY <3>1, FS_Interval
    <3>3. IsFiniteSet({s[i] : i \in 1..Len(s)})
      BY <3>1, <3>2, FiniteImage
    <3> QED
      BY <3>1, <3>3 DEF ToSet
  <2>2. IsFiniteSet(ToSet(near)) /\ IsFiniteSet(ToSet(found))
    BY <1>2, <2>1
  <2> QED
    BY <2>2, FS_Union
<1>5. \A id \in all : key[id] = FuseKey(near, found, id)
  BY DEF FuseKey
<1> HIDE DEF score, key, X
<1>6. Fractions(all, key)
  <2>1. ASSUME NEW id \in all
        PROVE  key[id][1] \in Nat \ {0} /\ key[id][2] \in Nat \ {0}
    <3> DEFINE s == RrfK + Position(near, id)
               k == RrfK + Position(found, id)
    <3>1. /\ s \in Nat \ {0} /\ k \in Nat \ {0}
          /\ FuseKey(near, found, id) =
                IF id \notin ToSet(found) THEN <<s, 1>>
                ELSE IF id \notin ToSet(near) THEN <<k, 1>>
                ELSE <<s * k, s + k>>
      BY <1>3, FuseKeyIs
    <3> HIDE DEF s, k
    <3>2. s * k \in Nat \ {0}
      <4>1. 0 * k < s * k
        BY <3>1, SmallerFactors
      <4>2. s * k \in Int /\ 0 * k = 0
        BY <3>1
      <4> QED
        BY <4>1, <4>2
    <3>3. s + k \in Nat \ {0}
      BY <3>1
    <3>4. key[id] \in {<<s, 1>>, <<k, 1>>, <<s * k, s + k>>}
      BY <1>5, <3>1
    <3> QED
      BY <3>1, <3>2, <3>3, <3>4
  <2> QED
    BY <2>1 DEF Fractions
<1>7. /\ Ranks(fused, all) /\ Len(fused) = Cardinality(all)
      /\ \A j \in 1..Cardinality(all) : \A i \in 1..(j - 1) : ~Less(key, fused[j], fused[i])
  BY <1>4, <1>6, SortedIs
<1> HIDE DEF fused
<1>8. ASSUME NEW j \in 1..Len(fused), NEW i \in 1..(j - 1)
      PROVE  ~Ahead(near, found, fused[j], fused[i])
  <2>1. fused \in Seq(all) /\ Len(fused) \in Nat
    BY <1>7 DEF Ranks
  <2>2. i \in 1..Len(fused)
    BY <2>1
  <2>3. fused[j] \in all /\ fused[i] \in all
    BY <2>1, <2>2
  <2> DEFINE a == fused[j]
             b == fused[i]
  <2>4. ~Less(key, a, b)
    BY <1>7
  <2>5. a \in all /\ b \in all
    BY <2>3
  <2> HIDE DEF a, b
  <2>6. Ahead(near, found, a, b) => Less(key, a, b)
    BY <1>3, <1>5, <2>5, AheadIsLess
  <2> QED
    BY <2>4, <2>6 DEF a, b
<1> QED
  BY <1>1, <1>7, <1>8

\* A ranking of the same ids in the same order is the same.
LEMMA SameRanking ==
    ASSUME NEW ids, NEW s, NEW t, Ranks(s, ids), Ranks(t, ids),
           \A j \in 1..Len(s) : \A i \in 1..(j - 1) : ~(Position(t, s[j]) < Position(t, s[i]))
    PROVE  Len(s) <= Len(t) /\ \A i \in 1..Len(s) : s[i] = t[i]
<1> DEFINE p == [i \in 1..Len(s) |-> Position(t, s[i])]
           Bad == {i \in 1..Len(s) : p[i] # i}
<1>1. s \in Seq(ids) /\ t \in Seq(ids) /\ Len(s) \in Nat /\ Len(t) \in Nat
  <2>1. s \in Seq(ids) /\ t \in Seq(ids)
    BY Zenon DEF Ranks
  <2> QED
    BY <2>1
<1>2. /\ ToSet(t) = ids
      /\ \A a \in ids : \E i \in 1..Len(s) : s[i] = a
      /\ \A j \in 1..Len(s) : \A i \in 1..(j - 1) : s[i] # s[j]
  <2>1. ToSet(t) = ids
    BY RankedSet
  <2> QED
    BY <2>1, Zenon DEF Ranks
<1>3. \A i \in 1..Len(s) : p[i] \in 1..Len(t) /\ t[p[i]] = s[i]
  <2> TAKE i \in 1..Len(s)
  <2>1. s[i] \in ToSet(t)
    BY <1>1, <1>2
  <2>2. Position(t, s[i]) \in 1..Len(t) /\ t[Position(t, s[i])] = s[i]
    BY <1>1, <2>1, PositionIs
  <2> QED
    BY <2>2
<1>4. \A k \in 1..Len(t) : \E i \in 1..Len(s) : p[i] = k
  <2> TAKE k \in 1..Len(t)
  <2>1. t[k] \in ids
    BY <1>1
  <2>2. PICK i \in 1..Len(s) : s[i] = t[k]
    BY <1>2, <2>1
  <2>3. Position(t, t[k]) = k
    BY PositionInRanking
  <2> QED
    BY <2>2, <2>3
<1>5. \A j \in 1..Len(s) : \A i \in 1..(j - 1) : ~(p[j] < p[i])
  <2> TAKE j \in 1..Len(s)
  <2> TAKE i \in 1..(j - 1)
  <2>1. i \in 1..Len(s)
    BY <1>1
  <2> QED
    BY <2>1
<1> HIDE DEF p
<1>6. \A j \in 1..Len(s) : \A i \in 1..(j - 1) : p[i] < p[j]
  <2> TAKE j \in 1..Len(s)
  <2> TAKE i \in 1..(j - 1)
  <2>1. i \in 1..Len(s)
    BY <1>1
  <2>2. p[i] # p[j]
    <3>1. s[i] # s[j]
      BY <1>2
    <3>2. t[p[i]] = s[i] /\ t[p[j]] = s[j]
      BY <1>3, <2>1
    <3> QED
      BY <3>1, <3>2
  <2>3. p[i] \in Nat /\ p[j] \in Nat
    BY <1>3, <2>1
  <2> QED
    BY <1>5, <2>2, <2>3
<1>7. Bad = {}
  <2> SUFFICES ASSUME Bad # {} PROVE FALSE
    OBVIOUS
  <2>1. Bad \subseteq Nat
    OBVIOUS
  <2>2. PICK k \in Bad : \A j \in Bad : k <= j
    <3> HIDE DEF Bad
    <3> QED
      BY <2>1, NatMin
  <2>3. k \in 1..Len(s) /\ p[k] # k
    OBVIOUS
  <2>4. \A j \in 1..(k - 1) : j \in 1..Len(s) /\ p[j] = j
    <3> TAKE j \in 1..(k - 1)
    <3>1. j \in 1..Len(s) /\ ~(k <= j)
      BY <1>1, <2>3
    <3> QED
      BY <2>2, <3>1
  <2>5. p[k] > k
    <3>1. p[k] \in 1..Len(t)
      BY <1>3, <2>3
    <3>2. CASE k = 1
      BY <2>3, <3>1, <3>2, <1>1
    <3>3. CASE k # 1
      <4>1. k - 1 \in 1..(k - 1)
        BY <2>3, <3>3
      <4>2. p[k - 1] = k - 1 /\ p[k - 1] < p[k]
        BY <1>6, <2>3, <2>4, <4>1
      <4>3. k \in Nat /\ p[k] \in Nat
        BY <2>3, <3>1
      <4>4. k - 1 < p[k]
        BY <4>2
      <4> QED
        BY <2>3, <4>3, <4>4
    <3> QED
      BY <3>2, <3>3
  <2>6. k \in 1..Len(t)
    BY <1>1, <1>3, <2>3, <2>5
  <2>7. PICK i \in 1..Len(s) : p[i] = k
    BY <1>4, <2>6
  <2>8. CASE i < k
    <3>1. i \in 1..(k - 1)
      BY <2>3, <2>8
    <3> QED
      BY <2>4, <2>7, <2>8, <3>1
  <2>9. CASE i = k
    BY <2>3, <2>7, <2>9
  <2>10. CASE i > k
    <3>1. k \in 1..(i - 1)
      BY <2>3, <2>10
    <3>2. p[k] < p[i]
      BY <1>6, <3>1
    <3>3. p[k] \in Nat /\ k \in Nat
      BY <1>3, <2>3
    <3> QED
      BY <2>5, <2>7, <3>2, <3>3
  <2> QED
    BY <1>1, <2>3, <2>8, <2>9, <2>10
<1>8. \A i \in 1..Len(s) : p[i] = i
  BY <1>7
<1>9. \A i \in 1..Len(s) : i \in 1..Len(t) /\ s[i] = t[i]
  BY <1>3, <1>8
<1>10. Len(s) <= Len(t)
  <2>1. CASE Len(s) = 0
    BY <1>1, <2>1
  <2>2. CASE Len(s) # 0
    <3>1. Len(s) \in 1..Len(s)
      BY <1>1, <2>2
    <3>2. Len(s) \in 1..Len(t)
      BY <1>9, <3>1
    <3> QED
      BY <1>1, <3>2
  <2> QED
    BY <2>1, <2>2
<1> QED
  BY <1>9, <1>10

\* What FusedRanking says of a list of hits.
Fused(hits, near, found, limit, lost) ==
    LET all == ToSet(near) \cup ToSet(found)
    IN /\ ToSet(hits) \subseteq all /\ IsInjective(hits)
       /\ Len(hits) = Min({limit, Cardinality(all)})
       /\ lost => IsPrefix(hits, found)
       /\ \A a, b \in all :
            Ahead(near, found, a, b) /\ b \in ToSet(hits) => /\ a \in ToSet(hits)
                                                             /\ Before(hits, a, b)

LEMMA FusedIs ==
    ASSUME NEW N, NEW near, Ranks(near, N), NEW M, NEW found, Ranks(found, M),
           NEW limit \in Nat, NEW lost, lost => near = <<>>
    PROVE  Fused(First(RrfFuse(near, found), limit), near, found, limit, lost)
<1> DEFINE all == ToSet(near) \cup ToSet(found)
           fused == RrfFuse(near, found)
           hits == First(fused, limit)
<1>1. /\ Ranks(fused, all) /\ Len(fused) = Cardinality(all)
      /\ \A j \in 1..Len(fused) : \A i \in 1..(j - 1) : ~Ahead(near, found, fused[j], fused[i])
  <2> HIDE DEF fused, all
  <2>1. all = ToSet(near) \cup ToSet(found)
    BY DEF all
  <2> QED
    BY <2>1, RrfFuseIs DEF fused
<1> HIDE DEF fused
<1>2. Begins(hits, fused, all) /\ Len(hits) = Min({limit, Len(fused)})
  <2> HIDE DEF all
  <2> QED
    BY <1>1, FirstIs
<1> HIDE DEF hits
<1>9. /\ Ranks(hits, ToSet(hits)) /\ ToSet(hits) \subseteq all /\ hits \in Seq(all)
      /\ Len(hits) \in Nat /\ Len(hits) <= Len(fused)
      /\ \A i \in 1..Len(hits) : hits[i] = fused[i]
  BY <1>2 DEF Begins
<1>3. fused \in Seq(all) /\ Len(fused) \in Nat
  BY <1>1 DEF Ranks
<1>4. \A a \in all : \E i \in 1..Len(fused) : fused[i] = a
  BY <1>1 DEF Ranks
<1> HIDE DEF all
<1>5. IsInjective(hits)
  <2>1. \A j \in 1..Len(hits) : \A i \in 1..(j - 1) : hits[i] # hits[j]
    BY <1>9 DEF Ranks
  <2>2. DOMAIN hits = 1..Len(hits)
    <3>1. hits \in Seq(all)
      BY <1>9
    <3> QED
      BY <3>1
  <2>3. ASSUME NEW i \in 1..Len(hits), NEW j \in 1..Len(hits), hits[i] = hits[j]
        PROVE  i = j
    <3>1. i < j => i \in 1..(j - 1)
      BY <1>9
    <3>2. j < i => j \in 1..(i - 1)
      BY <1>9
    <3>3. ~(i < j) /\ ~(j < i)
      BY <2>1, <2>3, <3>1, <3>2
    <3> QED
      BY <3>3, <1>9
  <2> QED
    BY <2>2, <2>3 DEF IsInjective
<1>6. ASSUME NEW a \in all, NEW b \in all, Ahead(near, found, a, b), b \in ToSet(hits)
      PROVE  a \in ToSet(hits) /\ Before(hits, a, b)
  <2>1. PICK j \in 1..Len(hits) : hits[j] = b
    BY <1>9, <1>6, ToSetIs
  <2>2. PICK i \in 1..Len(fused) : fused[i] = a
    BY <1>4
  <2>3. j \in 1..Len(fused) /\ fused[j] = b
    <3>1. Len(hits) \in Nat /\ Len(hits) <= Len(fused) /\ fused[j] = hits[j]
      BY <1>9
    <3> QED
      BY <1>3, <2>1, <3>1
  <2>4. i < j
    <3>1. i # j
      <4>1. SUFFICES ASSUME a = b PROVE FALSE
        BY <2>2, <2>3
      <4>2. ~(Position(near, a) < Position(near, a)) /\ ~(Position(found, a) < Position(found, a))
        <5>1. Position(near, a) \in Int /\ Position(found, a) \in Int
          <6>1. near \in Seq(N) /\ found \in Seq(M)
            BY DEF Ranks
          <6>2. Position(near, a) \in 1..(Len(near) + 1) /\ Position(found, a) \in 1..(Len(found) + 1)
            BY <6>1, PositionIs
          <6> QED
            BY <6>2
        <5> QED
          BY <5>1
      <4> QED
        BY <1>6, <4>1, <4>2 DEF Ahead, NotBehind, Before
    <3>2. ~(j < i)
      <4> SUFFICES ASSUME j < i PROVE FALSE
        OBVIOUS
      <4>1. j \in 1..(i - 1)
        BY <1>3, <2>3
      <4>2. ~Ahead(near, found, fused[i], fused[j])
        BY <1>1, <2>2, <4>1
      <4> QED
        BY <1>6, <2>2, <2>3, <4>2
    <3> QED
      BY <1>3, <2>2, <2>3, <3>1, <3>2
  <2>5. i \in 1..Len(hits) /\ hits[i] = a
    <3>1. i \in 1..Len(hits)
      BY <1>9, <1>3, <2>1, <2>2, <2>4
    <3> QED
      BY <1>9, <2>2, <3>1
  <2>6. /\ hits[i] \in ToSet(hits) /\ Position(hits, hits[i]) = i
        /\ hits[j] \in ToSet(hits) /\ Position(hits, hits[j]) = j
    BY <1>9, <2>1, <2>5, PositionInRanking
  <2> QED
    BY <2>1, <2>4, <2>5, <2>6 DEF Before
<1>7. ASSUME lost PROVE IsPrefix(hits, found)
  <2>1. near = <<>> /\ ToSet(near) = {}
    BY <1>7 DEF ToSet
  <2>2. all = ToSet(found) /\ Ranks(found, all)
    <3>1. all = ToSet(found)
      BY <2>1 DEF all
    <3>2. ToSet(found) = M
      BY RankedSet
    <3> QED
      BY <3>1, <3>2
  <2>3. ASSUME NEW j \in 1..Len(fused), NEW i \in 1..(j - 1)
        PROVE  ~(Position(found, fused[j]) < Position(found, fused[i]))
    <3>1. i \in 1..Len(fused)
      BY <1>3
    <3>2. fused[i] \in all /\ fused[j] \in all
      BY <1>3, <3>1
    <3>3. ~Ahead(near, found, fused[j], fused[i])
      BY <1>1
    <3> QED
      BY <2>1, <2>2, <3>2, <3>3 DEF Ahead, NotBehind, Before
  <2>4. Len(fused) <= Len(found) /\ \A i \in 1..Len(fused) : fused[i] = found[i]
    BY <1>1, <2>2, <2>3, SameRanking
  <2>5. found \in Seq(all) /\ Len(found) \in Nat
    BY <2>2 DEF Ranks
  <2>6. Len(hits) <= Len(found) /\ \A i \in 1..Len(hits) : hits[i] = found[i]
    <3>1. Len(hits) \in Nat /\ Len(hits) <= Len(fused)
          /\ \A i \in 1..Len(hits) : hits[i] = fused[i]
      BY <1>9
    <3>2. Len(fused) \in Nat /\ Len(found) \in Nat /\ Len(fused) <= Len(found)
      BY <1>3, <2>4, <2>5
    <3>3. \A i \in 1..Len(hits) : i \in 1..Len(fused)
      BY <3>1, <3>2
    <3> QED
      BY <2>4, <3>1, <3>2, <3>3
  <2>7. SubSeq(hits, 1, Len(hits)) = SubSeq(found, 1, Len(hits))
    <3>1. SubSeq(hits, 1, Len(hits)) = [i \in 1..Len(hits) |-> hits[i]]
      BY <1>9
    <3>2. SubSeq(found, 1, Len(hits)) = [i \in 1..Len(hits) |-> found[i]]
      BY <1>9, <2>5, <2>6
    <3> QED
      BY <2>6, <3>1, <3>2
  <2> QED
    BY <2>6, <2>7 DEF IsPrefix
<1>8. Fused(hits, near, found, limit, lost)
  <2>1. Len(hits) = Min({limit, Cardinality(all)})
    BY <1>1, <1>2
  <2> QED
    BY <1>9, <1>5, <1>6, <1>7, <2>1 DEF Fused, all
<1> QED
  BY <1>8 DEF hits, fused

\* A hit carries its id, whether the collection still has it or not.
LEMMA EnrichedIds ==
    ASSUME NEW X, NEW ids \in Seq(X), NEW chunks, NEW hits, hits = EnrichResults(chunks, ids)
    PROVE  [i \in DOMAIN hits |-> hits[i].id] = ids
<1> DEFINE Found(id) == {c \in chunks : c.id = id}
           bare(i) == [id |-> ids[i], kind |-> "", bare |-> TRUE]
           full(i) == [id |-> ids[i], kind |-> (CHOOSE c \in Found(ids[i]) : TRUE).kind,
                       bare |-> FALSE]
<1>1. hits = [i \in DOMAIN ids |-> IF Found(ids[i]) = {} THEN bare(i) ELSE full(i)]
  BY Zenon DEF EnrichResults
<1>2. \A i : bare(i).id = ids[i] /\ full(i).id = ids[i]
  OBVIOUS
<1> HIDE DEF bare, full, Found
<1>3. DOMAIN hits = DOMAIN ids /\ \A i \in DOMAIN ids : hits[i].id = ids[i]
  BY <1>1, <1>2
<1>4. ids = [i \in DOMAIN ids |-> ids[i]]
  OBVIOUS
<1> QED
  BY <1>3, <1>4

LEMMA HybridIsFused ==
    ASSUME NEW chunks, IsFiniteSet(chunks), NEW entries, IsFiniteSet(entries), NEW r, NEW len,
           r.limit \in Int, NEW X, r.query.near \in Seq(X), NEW Y, r.query.terms \in Seq(Y),
           r.mode = "hybrid", r.filter.kinds = {},
           NEW out, out = SearchHybrid(chunks, entries, r, len), out.ok,
           NEW wide, wide = Limit(r.limit) * Headroom,
           NEW lost, lost = (~r.embeds \/ VectorFails(chunks, r.filter, len)),
           NEW near, near = IF lost THEN <<>> ELSE VectorSearch(chunks, r.query, wide, r.filter),
           NEW found, found = KeywordSearch(entries, r.query, wide, r.filter)
    PROVE  Fused([i \in DOMAIN out.hits |-> out.hits[i].id], near, found, Limit(r.limit), lost)
<1> DEFINE ids == First(RrfFuse(near, found), Limit(r.limit))
           hits == EnrichResults(chunks, ids)
           h == SearchHybridRRF(chunks, entries, r, len)
<1>1. Limit(r.limit) \in Nat /\ wide \in Nat
  BY DEF Limit, DefaultLimit, Headroom
<1>2. h = IF ~r.indexed THEN Failed ELSE Answer(hits)
  BY Zenon DEF SearchHybridRRF
<1>3. out = h
  <2>1. SearchHybrid(chunks, entries, r, len)
            = ApplySourceKindFilters(
                IF r.mode = "semantic" THEN SearchSemanticOnly(chunks, r, len)
                ELSE IF r.mode = "keyword" THEN SearchKeywordOnly(chunks, entries, r)
                ELSE h, r.filter)
    BY Zenon DEF SearchHybrid
  <2>2. r.mode # "semantic" /\ r.mode # "keyword"
    OBVIOUS
  <2> HIDE DEF h
  <2>3. SearchHybrid(chunks, entries, r, len) = ApplySourceKindFilters(h, r.filter)
    BY <2>1, <2>2
  <2>4. ApplySourceKindFilters(h, r.filter) = h
    BY DEF ApplySourceKindFilters
  <2> QED
    BY <2>3, <2>4
<1> HIDE DEF h, hits
<1>4. out = Answer(hits)
  BY <1>2, <1>3 DEF Failed
<1>5. out.hits = hits
  BY <1>4 DEF Answer
<1>6. \E N : Ranks(near, N)
  <2>1. CASE lost
    <3>1. near = <<>>
      BY <2>1
    <3>2. Ranks(<<>>, {})
      BY DEF Ranks
    <3> QED
      BY <3>1, <3>2
  <2>2. CASE ~lost
    <3>1. \E N : Ranks(VectorSearch(chunks, r.query, wide, r.filter), N)
      BY <1>1, VectorSearchRanks
    <3> QED
      BY <2>2, <3>1
  <2> QED
    BY <2>1, <2>2
<1>7. \E M : Ranks(found, M)
  BY <1>1, KeywordSearchRanks
<1>8. PICK N : Ranks(near, N)
  BY <1>6
<1>9. PICK M : Ranks(found, M)
  BY <1>7
<1>10. Fused(ids, near, found, Limit(r.limit), lost)
  <2> DEFINE l == Limit(r.limit)
  <2>1. l \in Nat /\ (lost => near = <<>>)
    BY <1>1
  <2> HIDE DEF l
  <2>2. Fused(First(RrfFuse(near, found), l), near, found, l, lost)
    BY <1>8, <1>9, <2>1, FusedIs
  <2> QED
    BY <2>2 DEF l
<1>11. \E Z : ids \in Seq(Z)
  <2>1. \E all : Ranks(RrfFuse(near, found), all)
    BY <1>8, <1>9, RrfFuseIs
  <2>2. PICK all : Ranks(RrfFuse(near, found), all)
    BY <2>1
  <2>3. ids \in Seq(all)
    BY <1>1, <2>2, FirstIs DEF Begins
  <2> QED
    BY <2>3
<1>12. [i \in DOMAIN hits |-> hits[i].id] = ids
  <2>1. hits = EnrichResults(chunks, ids)
    BY DEF hits
  <2>2. PICK Z : ids \in Seq(Z)
    BY <1>11
  <2> HIDE DEF ids
  <2> QED
    BY <2>1, <2>2, EnrichedIds
<1> HIDE DEF ids
<1> QED
  BY <1>5, <1>10, <1>12

-----------------------------------------------------------------------------
(* The invariant.                                                          *)

Bounded == workload \in DOMAIN Workloads /\ left \in 0..Asks.steps
Typed ==
    /\ Bounded
    /\ running \in DOMAIN Conf \cup {None}
    /\ DOMAIN vec = Dirs /\ DOMAIN partial = Dirs /\ DOMAIN idx = Places
    /\ \A p \in Places : IsOpen(idx[p]) => Entries(idx[p])
    /\ running # None => Entries(Indexed)

\* A chunk was stored by a process of its directory, with the vector of its own
\* text, of the length that the process was configured with.
Sound(p, c) ==
    /\ c.by \in DOMAIN Conf /\ Dir(c.by) = p
    /\ c.len \in Lengths /\ c.len = Conf[c.by].dim
    /\ c.of = c.id
Stored == \A p \in Dirs : \A c \in vec[p] : Sound(p, c)

\* What WholeVersions, ParentsLead and ChunksCover say of the chunks of one
\* document, "all" of which are stored or not.
Whole(doc, chunks, all) ==
    LET ids == {c.id : c \in chunks}
        Ids(c) == {x.id : x \in Range(ChunkWithHierarchy(doc, c.body, Cut(c.by)))}
    IN /\ \A c, d \in chunks : c.fp = d.fp /\ c.body = d.body /\ c.by = d.by
       /\ \A c \in chunks : ids \subseteq Ids(c)
       /\ all => \A c \in chunks : ids = Ids(c)
Leads(chunks) ==
    \A c \in chunks :
        LET above == {d \in chunks : d.level < c.level /\ d.id.from < c.id.from}
        IN IF c.parent = <<>> THEN above = {}
           ELSE \E d \in above : /\ c.parent = <<d.id>>
                                 /\ \A e \in above : e.id.from <= d.id.from
Quoting(c) ==
    c.id.words = [k \in 1..(c.id.to - c.id.from + 1) |-> c.body[c.id.from + k - 1].text]
Covered(c, chunks) ==
    \A i \in DOMAIN c.body :
        \/ \E d \in chunks : i \in d.id.from..d.id.to
        \/ /\ ExtractHeaders(c.body) # {}
           /\ SectionLen(c.body, SectionOf(c.body, i)) < Cut(c.by).min
Full(chunks) == \A c \in chunks : Covered(c, chunks)
Version(doc, chunks, all) ==
    /\ Whole(doc, chunks, all)
    /\ \A c \in chunks : Quoting(c)
    /\ all => Leads(chunks) /\ Full(chunks)
Versions == \A p \in Dirs : \A doc : Version(doc, Of(doc, vec[p]), doc \notin partial[p])

\* The ingest under way has cut its document as the process is configured, and
\* nothing is stored of that document.
Flowing ==
    flow # None =>
        /\ running # None
        /\ flow = [doc |-> flow.doc, batches |-> flow.batches, replies |-> flow.replies]
        /\ \E X : IsLined(X) /\ flow.doc.body \in Seq(X) /\ flow.doc.body # <<>>
        /\ \E X : flow.batches \in Seq(Seq(X))
        /\ FlattenSeq(flow.batches)
                = ChunkWithHierarchy(flow.doc.id, flow.doc.body, Cut(running))
        /\ DOMAIN flow.replies = DOMAIN flow.batches
        /\ \A i \in DOMAIN flow.replies : flow.replies[i] \in Lengths \cup {Awaited, Refused}
        /\ Of(flow.doc.id, Here) = {}

\* What was asked to be left, what is still to be deleted and what was written
\* since is all there is; and what was asked to be left is as it was, unless it
\* was written or deleted since.
Kept(p) == IF p.request.keeps THEN Docs(p.before) \cap p.request.docs
           ELSE Docs(p.before) \ p.request.docs
Pruning ==
    prune # None =>
        /\ running # None
        /\ prune = [request |-> prune.request, todo |-> prune.todo,
                    before |-> prune.before, since |-> prune.since]
        /\ prune.todo \cap Kept(prune) = {}
        /\ Docs(Here) \subseteq Kept(prune) \cup prune.todo \cup prune.since
        /\ \A doc \in Kept(prune) \ prune.since : Of(doc, Here) = Of(doc, prune.before)

Answers == FailsForAReason /\ DoctorIsRight

StepInv == Typed /\ Stored /\ Versions /\ Flowing /\ Pruning /\ Answers

LEMMA VersionsAre ==
    ASSUME Versions PROVE WholeVersions /\ ParentsLead /\ ChunksCover
<1>1. WholeVersions
  <2> SUFFICES ASSUME NEW p \in Dirs, NEW doc \in Docs(vec[p])
               PROVE  Whole(doc, Of(doc, vec[p]), doc \notin partial[p])
    BY Zenon DEF WholeVersions, Whole
  <2> QED
    BY DEF Versions, Version
<1>2. ParentsLead
  <2> SUFFICES ASSUME NEW p \in Dirs, NEW c \in vec[p], c.id.doc \notin partial[p]
               PROVE  /\ Leads(Of(c.id.doc, vec[p]))
                      /\ c \in Of(c.id.doc, vec[p])
    BY Zenon DEF ParentsLead, Leads
  <2>1. Version(c.id.doc, Of(c.id.doc, vec[p]), c.id.doc \notin partial[p])
    BY DEF Versions
  <2> QED
    BY <2>1 DEF Version, Of
<1>3. ChunksCover
  <2>1. ASSUME NEW p \in Dirs, NEW c \in vec[p]
        PROVE  /\ Quoting(c)
               /\ c.id.doc \notin partial[p] => Covered(c, Of(c.id.doc, vec[p]))
    <3>1. Version(c.id.doc, Of(c.id.doc, vec[p]), c.id.doc \notin partial[p])
      BY DEF Versions
    <3>2. c \in Of(c.id.doc, vec[p])
      BY DEF Of
    <3> QED
      BY <3>1, <3>2 DEF Version, Full
  <2> QED
    BY <2>1, Zenon DEF ChunksCover, Quoting, Covered
<1> QED
  BY <1>1, <1>2, <1>3

\* The invariant says what the properties say.
LEMMA StepInvSays ==
    ASSUME StepInv
    PROVE  /\ LibraryInv /\ OwnVectors /\ FailsForAReason
           /\ ChunksCover /\ ParentsLead /\ PruneIsExact /\ DoctorIsRight
<1>1. Typed /\ Stored /\ Versions /\ Flowing /\ Pruning /\ Answers
  BY DEF StepInv
<1>2. LibraryInv
  <2>1. running \in DOMAIN Deployments \cup {None}
    BY <1>1 DEF Typed, Conf
  <2>2. left \in 0..Asks.steps /\ \A p \in Places : IsOpen(idx[p]) => Entries(idx[p])
    BY <1>1 DEF Typed, Bounded
  <2>3. \A p \in Dirs : \A c \in vec[p] : Dir(c.by) = p /\ c.len \in Lengths
    BY <1>1 DEF Stored, Sound
  <2>4. flow # None => running # None /\ \A i \in DOMAIN flow.replies :
            flow.replies[i] \in Lengths \cup {Awaited, Refused}
    BY <1>1 DEF Flowing
  <2>5. WholeVersions
    BY <1>1, VersionsAre
  <2> QED
    BY <2>1, <2>2, <2>3, <2>4, <2>5 DEF LibraryInv
<1>3. OwnVectors
  BY <1>1 DEF Stored, Sound, OwnVectors
<1>4. PruneIsExact
  <2> SUFFICES ASSUME PruneDone
               PROVE  /\ Docs(Here) \subseteq Kept(prune) \cup prune.since
                      /\ \A doc \in Kept(prune) \ prune.since :
                            Of(doc, Here) = Of(doc, prune.before)
    BY Zenon DEF PruneIsExact, Kept
  <2> QED
    BY <1>1 DEF PruneDone, Pruning
<1> QED
  BY <1>1, <1>2, <1>3, <1>4, VersionsAre DEF Answers

-----------------------------------------------------------------------------
(* What the steps do to the collection.                                    *)

\* Of a document, all is left as it is, or nothing, or a part.
Shrinks ==
    /\ DOMAIN vec' = Dirs /\ DOMAIN partial' = Dirs
    /\ \A p \in Dirs : \A doc :
          \/ Of(doc, vec'[p]) = {}
          \/ Of(doc, vec'[p]) = Of(doc, vec[p]) /\ (doc \in partial[p] => doc \in partial'[p])
          \/ Of(doc, vec'[p]) \subseteq Of(doc, vec[p]) /\ doc \in partial'[p]

LEMMA PartOfVersion ==
    ASSUME NEW doc, NEW S, NEW all, Version(doc, S, all), NEW T, T \subseteq S,
           NEW whole, whole => FALSE
    PROVE  Version(doc, T, whole)
<1>1. Whole(doc, S, all) /\ \A c \in S : Quoting(c)
  BY DEF Version
<1>2. Whole(doc, T, whole)
  <2>1. {c.id : c \in T} \subseteq {c.id : c \in S}
    OBVIOUS
  <2>2. \A c \in S : {d.id : d \in S}
                \subseteq {x.id : x \in Range(ChunkWithHierarchy(doc, c.body, Cut(c.by)))}
    BY <1>1, Zenon DEF Whole
  <2>3. \A c, d \in T : c.fp = d.fp /\ c.body = d.body /\ c.by = d.by
    BY <1>1 DEF Whole
  <2>4. \A c \in T : {d.id : d \in T}
                \subseteq {x.id : x \in Range(ChunkWithHierarchy(doc, c.body, Cut(c.by)))}
    BY ONLY <2>1, <2>2, T \subseteq S
  <2> QED
    BY <2>3, <2>4, Zenon DEF Whole
<1> QED
  BY <1>1, <1>2 DEF Version

LEMMA NoVersion ==
    ASSUME NEW doc, NEW all
    PROVE  Version(doc, {}, all)
  BY DEF Version, Whole, Leads, Full

LEMMA ShrinkingKeeps ==
    ASSUME Stored, Versions, Shrinks
    PROVE  Stored' /\ Versions'
<1>1. \A p \in Dirs : \A c \in vec'[p] : c \in vec[p]
  <2> SUFFICES ASSUME NEW p \in Dirs, NEW c \in vec'[p]
               PROVE  c \in vec[p]
    OBVIOUS
  <2>1. c \in Of(c.id.doc, vec'[p])
    BY DEF Of
  <2>2. c \in Of(c.id.doc, vec[p])
    BY <2>1 DEF Shrinks
  <2> QED
    BY <2>2 DEF Of
<1>2. Stored'
  BY <1>1 DEF Stored
<1>3. Versions'
  <2>1. ASSUME NEW p \in Dirs, NEW doc
        PROVE  Version(doc, Of(doc, vec'[p]), doc \notin partial'[p])
    <3> DEFINE S == Of(doc, vec[p])
               T == Of(doc, vec'[p])
               all == doc \notin partial[p]
               whole == doc \notin partial'[p]
    <3>1. Version(doc, S, all)
      BY DEF Versions
    <3>2. \/ T = {}
          \/ T = S /\ (whole => all)
          \/ T \subseteq S /\ ~whole
      BY DEF Shrinks
    <3>3. /\ whole = TRUE \/ whole = FALSE
          /\ all = TRUE \/ all = FALSE
      OBVIOUS
    <3> SUFFICES Version(doc, T, whole)
      OBVIOUS
    <3> HIDE DEF S, T, all, whole
    <3>4. CASE T = {}
      BY ONLY <3>4, NoVersion, Zenon
    <3>5. CASE T \subseteq S /\ ~whole
      <4>1. whole = FALSE
        BY <3>3, <3>5
      <4>2. Version(doc, T, FALSE)
        BY ONLY <3>1, <3>5, PartOfVersion
      <4> QED
        BY ONLY <4>1, <4>2, Zenon
    <3>6. CASE T = S /\ whole /\ all
      <4>1. whole = TRUE /\ all = TRUE
        BY <3>3, <3>6
      <4>2. T = S
        BY <3>6
      <4> QED
        BY ONLY <3>1, <4>1, <4>2, Zenon
    <3>7. CASE T = S /\ ~whole
      BY <3>5, <3>7
    <3> QED
      BY <3>2, <3>4, <3>5, <3>6, <3>7
  <2> QED
    BY <2>1 DEF Versions
<1> QED
  BY <1>2, <1>3

LEMMA Unchanging ==
    ASSUME DOMAIN vec = Dirs, DOMAIN partial = Dirs, UNCHANGED <<vec, partial>>
    PROVE  Shrinks
  BY DEF Shrinks

LEMMA RemainsIs ==
    ASSUME NEW doc, NEW rest \in Remains(doc)
    PROVE  /\ rest = [chunks |-> rest.chunks, entries |-> rest.entries]
           /\ rest.chunks \subseteq Of(doc, Here) /\ rest.entries \subseteq EntriesOf(doc)
<1>1. rest \in [chunks : Parts(Of(doc, Here), {}), entries : Parts(EntriesOf(doc), {})]
  BY DEF Remains
<1>2. \A all : \A x \in Parts(all, {}) : x \subseteq all
  BY DEF Parts
<1> QED
  BY <1>1, <1>2

\* What a delete does, wherever it ends.
Deletes(doc) ==
    /\ Shrinks /\ DOMAIN idx' = Places
    /\ \A x : x # doc => Of(x, vec'[Dir(running)]) = Of(x, Here)
    /\ \A p \in Dirs : vec'[p] \subseteq vec[p]
    /\ \A p \in Places : p # Place(running) => idx'[p] = idx[p]
    /\ idx'[Place(running)] \subseteq Indexed

LEMMA WithoutDeletes ==
    ASSUME Typed, running # None, NEW doc, NEW rest \in Remains(doc), Without(doc, rest)
    PROVE  Deletes(doc) /\ Of(doc, vec'[Dir(running)]) = rest.chunks
<1> DEFINE d == Dir(running)
           q == Place(running)
           kept == rest.chunks
<1>1. d \in Dirs /\ q \in Places
  BY DEF Typed, Dirs, Places
<1>2. kept \subseteq Of(doc, vec[d]) /\ rest.entries \subseteq EntriesOf(doc)
  BY RemainsIs DEF Here
<1>3. /\ DOMAIN vec' = Dirs
      /\ \A p \in Dirs : vec'[p] = IF p = d THEN (vec[d] \ Of(doc, vec[d])) \cup kept
                                   ELSE vec[p]
  BY <1>1 DEF Without, Typed
<1>4. /\ DOMAIN idx' = Places
      /\ \A p \in Places : idx'[p] = IF p = q THEN (idx[q] \ EntriesOf(doc)) \cup rest.entries
                                      ELSE idx[p]
  BY <1>1 DEF Without, Typed
<1>5. /\ DOMAIN partial' = Dirs
      /\ \A p \in Dirs : partial'[p] =
            IF p # d THEN partial[p]
            ELSE IF kept = {} THEN partial[d] \ {doc}
            ELSE IF kept = Of(doc, vec[d]) THEN partial[d] ELSE partial[d] \cup {doc}
  BY <1>1 DEF Without, Leaves, Typed, Here
<1>6. ASSUME NEW x
      PROVE  Of(x, vec'[d]) = IF x = doc THEN kept ELSE Of(x, vec[d])
  BY <1>1, <1>2, <1>3 DEF Of
<1> HIDE DEF d, kept
<1>7. ASSUME NEW p \in Dirs, NEW x
      PROVE  \/ Of(x, vec'[p]) = {}
             \/ Of(x, vec'[p]) = Of(x, vec[p]) /\ (x \in partial[p] => x \in partial'[p])
             \/ Of(x, vec'[p]) \subseteq Of(x, vec[p]) /\ x \in partial'[p]
  <2>1. CASE p # d
    BY <1>3, <1>5, <2>1
  <2>2. CASE p = d /\ x # doc
    BY <1>5, <1>6, <2>2
  <2>3. CASE p = d /\ x = doc
    BY <1>2, <1>5, <1>6, <2>3
  <2> QED
    BY <2>1, <2>2, <2>3
<1>8. Shrinks
  BY <1>3, <1>5, <1>7 DEF Shrinks
<1>9. \A p \in Dirs : vec'[p] \subseteq vec[p]
  BY <1>2, <1>3 DEF Of
<1>10. idx'[q] \subseteq Indexed
  BY <1>1, <1>2, <1>4 DEF EntriesOf, Indexed
<1> QED
  BY <1>4, <1>6, <1>8, <1>9, <1>10 DEF Deletes, Here, d, kept

-----------------------------------------------------------------------------
(* What the steps leave alone.                                             *)

LEMMA NoAnswer ==
    ASSUME answer' = None PROVE Answers'
  BY DEF Answers, FailsForAReason, DoctorIsRight

LEMMA AskingKeeps ==
    ASSUME Typed, Request \/ Reply
    PROVE  Bounded' /\ Answers'
<1>1. workload' = workload /\ answer' = None /\ (left' = left \/ (left' = left - 1 /\ left > 0))
  BY DEF Request, Reply
<1>2. Asks.steps \in Nat
  BY LibraryAssumption DEF Typed, Bounded, Asks
<1>3. Asks'.steps = Asks.steps
  BY <1>1 DEF Asks
<1>4. left \in 0..Asks.steps
  BY DEF Typed, Bounded
<1>5. left' \in 0..Asks.steps
  BY <1>1, <1>2, <1>4
<1>6. Bounded'
  BY <1>1, <1>3, <1>5 DEF Typed, Bounded
<1> QED
  BY <1>1, <1>6, NoAnswer

LEMMA FlowStays ==
    ASSUME Typed, Flowing, Shrinks, UNCHANGED <<running, flow>>
    PROVE  Flowing'
<1> SUFFICES ASSUME flow # None
             PROVE  Flowing'
  BY DEF Flowing
<1>1. running # None /\ Dir(running) \in Dirs
  BY DEF Flowing, Typed, Dirs
<1>2. Of(flow.doc.id, vec'[Dir(running)]) = {}
  BY <1>1 DEF Flowing, Shrinks, Here
<1>3. Of(flow.doc.id, Here)' = {}
  BY <1>2 DEF Here
<1> QED
  BY <1>3 DEF Flowing

LEMMA PruneStays ==
    ASSUME Pruning, UNCHANGED <<running, prune, vec>>
    PROVE  Pruning'
<1>1. Here' = Here /\ Kept(prune)' = Kept(prune)
  BY DEF Here, Kept
<1> QED
  BY <1>1 DEF Pruning

\* Others may do to a document what they like, if the pruning counts it.
LEMMA MeanwhileKeeps ==
    ASSUME Pruning, UNCHANGED running, NEW doc, Meanwhile(doc),
           \A x : x # doc => Of(x, vec'[Dir(running)]) = Of(x, Here)
    PROVE  Pruning'
<1> SUFFICES ASSUME prune # None
             PROVE  Pruning'
  BY DEF Pruning, Meanwhile
<1> DEFINE since == prune.since \cup {doc}
           here == vec'[Dir(running)]
<1>1. /\ running # None
      /\ prune = [request |-> prune.request, todo |-> prune.todo,
                  before |-> prune.before, since |-> prune.since]
      /\ prune.todo \cap Kept(prune) = {}
      /\ Docs(Here) \subseteq Kept(prune) \cup prune.todo \cup prune.since
      /\ \A x \in Kept(prune) \ prune.since : Of(x, Here) = Of(x, prune.before)
  BY DEF Pruning
<1>2. prune' = [request |-> prune.request, todo |-> prune.todo,
                before |-> prune.before, since |-> since]
  <2>1. prune' = [prune EXCEPT !.since = @ \cup {doc}]
    BY DEF Meanwhile
  <2> QED
    BY <1>1, <2>1
<1> HIDE DEF since
<1>3. /\ prune'.request = prune.request /\ prune'.todo = prune.todo
      /\ prune'.before = prune.before /\ prune'.since = since
      /\ prune' = [request |-> prune'.request, todo |-> prune'.todo,
                   before |-> prune'.before, since |-> prune'.since]
  BY <1>2
<1>4. Kept(prune') = Kept(prune)
  BY <1>3 DEF Kept
<1>5. Here' = here
  BY DEF Here
<1> HIDE DEF here
<1>6. \A x : x # doc => Of(x, here) = Of(x, Here)
  BY DEF here
<1>7. Docs(here) \subseteq Docs(Here) \cup {doc}
  <2> SUFFICES ASSUME NEW c \in here, c.id.doc # doc
               PROVE  c.id.doc \in Docs(Here)
    BY DEF Docs
  <2>1. c \in Of(c.id.doc, Here)
    <3>1. c \in Of(c.id.doc, here)
      BY DEF Of
    <3> QED
      BY <1>6, <3>1
  <2> QED
    BY <2>1 DEF Of, Docs
<1>8. Docs(here) \subseteq Kept(prune') \cup prune'.todo \cup prune'.since
  BY <1>1, <1>3, <1>4, <1>7 DEF since
<1>9. \A x \in Kept(prune') \ prune'.since : Of(x, here) = Of(x, prune'.before)
  BY <1>1, <1>3, <1>4, <1>6 DEF since
<1>10. prune'.todo \cap Kept(prune') = {}
  BY <1>1, <1>3, <1>4
<1> QED
  BY <1>1, <1>3, <1>5, <1>8, <1>9, <1>10 DEF Pruning, Kept

LEMMA TypedStays ==
    ASSUME Typed, Bounded', DOMAIN vec' = Dirs, DOMAIN partial' = Dirs,
           UNCHANGED <<running, idx>>
    PROVE  Typed'
  BY DEF Typed, Indexed

-----------------------------------------------------------------------------
(* The process: none of these steps is taken in the midst of an ingest.    *)

LEMMA IdleIs ==
    ASSUME Flowing, Pruning, running = None
    PROVE  flow = None /\ prune = None
  BY DEF Flowing, Pruning

LEMMA StartKeeps ==
    ASSUME StepInv, NEW d, Start(d)
    PROVE  StepInv'
<1>1. Typed /\ Stored /\ Versions /\ Flowing /\ Pruning /\ Answers
  BY DEF StepInv
<1>2. /\ Request /\ running = None /\ running' = d /\ d \in DOMAIN Conf
      /\ idx[Place(d)] # Corrupt
      /\ idx' = [idx EXCEPT ![Place(d)] = IF @ = None THEN {} ELSE @]
      /\ UNCHANGED <<vec, partial, flow, prune>>
  BY DEF Start, NewService, LoadSearchIndex
<1>3. Bounded' /\ Answers'
  BY <1>1, <1>2, AskingKeeps
<1>4. flow = None /\ prune = None
  BY <1>1, <1>2, IdleIs
<1>5. Shrinks
  BY <1>1, <1>2, Unchanging DEF Typed, contents
<1>6. Stored' /\ Versions'
  BY <1>1, <1>5, ShrinkingKeeps
<1>7. Flowing' /\ Pruning'
  BY <1>2, <1>4 DEF Flowing, Pruning
<1>8. Typed'
  <2> DEFINE q == Place(d)
  <2>1. q \in Places
    BY <1>2 DEF Places
  <2>2. /\ DOMAIN idx' = Places
        /\ \A p \in Places : idx'[p] = IF p = q THEN IF idx[q] = None THEN {} ELSE idx[q]
                                       ELSE idx[p]
    <3> HIDE DEF q
    <3> QED
      BY <1>1, <1>2, <2>1 DEF Typed, q
  <2>3. Entries(idx'[q])
    <3>1. idx[q] # None => Entries(idx[q])
      BY <1>1, <1>2, <2>1 DEF Typed, IsOpen
    <3>2. Entries({})
      BY DEF Entries
    <3> QED
      BY <2>1, <2>2, <3>1, <3>2
  <2>4. \A p \in Places : IsOpen(idx'[p]) => Entries(idx'[p])
    BY <1>1, <2>2, <2>3 DEF Typed
  <2> QED
    BY <1>1, <1>2, <1>3, <2>2, <2>3, <2>4 DEF Typed, Indexed
<1> QED
  BY <1>3, <1>6, <1>7, <1>8 DEF StepInv

LEMMA StopKeeps ==
    ASSUME StepInv, Stop
    PROVE  StepInv'
<1>1. Typed /\ Stored /\ Versions /\ Flowing /\ Pruning /\ Answers
  BY DEF StepInv
<1>2. /\ Reply /\ running' = None /\ flow' = None /\ prune' = None
      /\ UNCHANGED contents
  BY DEF Stop
<1>3. Bounded' /\ Answers'
  BY <1>1, <1>2, AskingKeeps
<1>4. Shrinks
  BY <1>1, <1>2, Unchanging DEF Typed, contents
<1>5. Stored' /\ Versions'
  BY <1>1, <1>4, ShrinkingKeeps
<1>6. Flowing' /\ Pruning'
  BY <1>2 DEF Flowing, Pruning
<1>7. Typed'
  BY <1>1, <1>2, <1>3 DEF Typed, contents
<1> QED
  BY <1>3, <1>5, <1>6, <1>7 DEF StepInv

LEMMA LoseIndexKeeps ==
    ASSUME StepInv, NEW p \in Places, NEW how \in {None, Corrupt}, LoseIndex(p, how)
    PROVE  StepInv'
<1>1. Typed /\ Stored /\ Versions /\ Flowing /\ Pruning /\ Answers
  BY DEF StepInv
<1>2. /\ Request /\ running = None /\ idx' = [idx EXCEPT ![p] = how]
      /\ UNCHANGED <<running, vec, partial, flow, prune>>
  BY DEF LoseIndex
<1>3. Bounded' /\ Answers'
  BY <1>1, <1>2, AskingKeeps
<1>4. Shrinks
  BY <1>1, <1>2, Unchanging DEF Typed, contents
<1>5. Stored' /\ Versions' /\ Flowing'
  BY <1>1, <1>2, <1>4, ShrinkingKeeps, FlowStays
<1>6. Pruning'
  BY <1>1, <1>2, IdleIs DEF Pruning
<1>7. Typed'
  <2>1. DOMAIN idx' = Places /\ \A q \in Places : idx'[q] \in {idx[q], None, Corrupt}
    BY <1>1, <1>2 DEF Typed
  <2>2. \A q \in Places : IsOpen(idx'[q]) => Entries(idx'[q])
    BY <1>1, <2>1 DEF Typed, IsOpen
  <2> QED
    BY <1>1, <1>2, <1>3, <2>1, <2>2 DEF Typed
<1> QED
  BY <1>3, <1>5, <1>6, <1>7 DEF StepInv

LEMMA VectorResetKeeps ==
    ASSUME StepInv, NEW d, VectorReset(d)
    PROVE  StepInv'
<1>1. Typed /\ Stored /\ Versions /\ Flowing /\ Pruning /\ Answers
  BY DEF StepInv
<1>2. /\ Request /\ running = None
      /\ vec' = [vec EXCEPT ![Dir(d)] = {}]
      /\ partial' = [partial EXCEPT ![Dir(d)] = {}]
      /\ idx' = [p \in Places |-> IF IsPrefix(Dir(d), p) THEN None ELSE idx[p]]
      /\ UNCHANGED <<running, flow, prune>>
  BY DEF VectorReset
<1>3. Bounded' /\ Answers'
  BY <1>1, <1>2, AskingKeeps
<1>4. Shrinks
  <2>1. /\ DOMAIN vec' = Dirs /\ DOMAIN partial' = Dirs
        /\ \A p \in Dirs : \/ vec'[p] = {}
                           \/ vec'[p] = vec[p] /\ partial'[p] = partial[p]
    BY <1>1, <1>2 DEF Typed
  <2>2. \A doc : Of(doc, {}) = {}
    BY DEF Of
  <2> QED
    BY <2>1, <2>2 DEF Shrinks
<1>5. Stored' /\ Versions' /\ Flowing'
  BY <1>1, <1>2, <1>4, ShrinkingKeeps, FlowStays
<1>6. Pruning'
  BY <1>1, <1>2, IdleIs DEF Pruning
<1>7. Typed'
  <2>1. DOMAIN idx' = Places /\ \A q \in Places : idx'[q] \in {idx[q], None}
    BY <1>2
  <2>2. \A q \in Places : IsOpen(idx'[q]) => Entries(idx'[q])
    BY <1>1, <2>1 DEF Typed, IsOpen
  <2> QED
    BY <1>1, <1>2, <1>3, <1>4, <2>1, <2>2 DEF Typed, Shrinks
<1> QED
  BY <1>3, <1>5, <1>6, <1>7 DEF StepInv

-----------------------------------------------------------------------------
(* Ingest.                                                                 *)

LEMMA ShrinkingStep ==
    ASSUME StepInv, Request \/ Reply, Shrinks, Typed', Pruning', UNCHANGED <<running, flow>>
    PROVE  StepInv'
<1>1. Typed /\ Stored /\ Versions /\ Flowing
  BY DEF StepInv
<1>2. Answers'
  BY <1>1, AskingKeeps
<1>3. Stored' /\ Versions'
  BY <1>1, ShrinkingKeeps
<1>4. Flowing'
  BY <1>1, FlowStays
<1> QED
  BY <1>2, <1>3, <1>4 DEF StepInv

LEMMA StillStep ==
    ASSUME StepInv, Request \/ Reply, UNCHANGED <<running, contents, flow, prune>>
    PROVE  StepInv'
<1>1. Typed /\ DOMAIN vec = Dirs /\ DOMAIN partial = Dirs /\ Pruning
  BY DEF StepInv, Typed
<1>2. UNCHANGED <<vec, partial, idx>>
  BY DEF contents
<1>3. Shrinks
  BY <1>1, <1>2, Unchanging
<1>4. Bounded'
  BY <1>1, AskingKeeps
<1>5. Typed'
  BY <1>1, <1>2, <1>3, <1>4, TypedStays DEF Shrinks
<1>6. Pruning'
  BY <1>1, <1>2, PruneStays
<1> QED
  BY <1>3, <1>5, <1>6, ShrinkingStep

LEMMA DeletingTyped ==
    ASSUME StepInv, Request \/ Reply, running # None, UNCHANGED running,
           NEW doc, Deletes(doc)
    PROVE  Typed'
<1>1. Typed
  BY DEF StepInv
<1>2. Bounded'
  BY <1>1, AskingKeeps
<1>3. Entries(idx'[Place(running)])
  <2>1. Entries(Indexed)
    BY <1>1 DEF Typed
  <2> QED
    BY <2>1 DEF Deletes, Entries
<1>4. \A p \in Places : IsOpen(idx'[p]) => Entries(idx'[p])
  BY <1>1, <1>3 DEF Typed, Deletes
<1>5. running' \in DOMAIN Conf \cup {None}
  BY <1>1 DEF Typed
<1>6. Entries(Indexed')
  BY <1>3 DEF Indexed
<1> QED
  BY <1>2, <1>4, <1>5, <1>6 DEF Typed, Deletes, Shrinks

\* A delete by another request than a pruning.
LEMMA DeletingStep ==
    ASSUME StepInv, Request \/ Reply, running # None, UNCHANGED <<running, flow>>,
           NEW doc, NEW rest \in Remains(doc), Without(doc, rest), Meanwhile(doc)
    PROVE  StepInv'
<1>1. Typed /\ Pruning
  BY DEF StepInv
<1>2. Deletes(doc)
  BY <1>1, WithoutDeletes
<1>3. Typed'
  BY <1>2, DeletingTyped
<1>4. Pruning'
  BY <1>1, <1>2, MeanwhileKeeps DEF Deletes
<1> QED
  BY <1>2, <1>3, <1>4, ShrinkingStep DEF Deletes

LEMMA IngestNothingKeeps ==
    ASSUME StepInv, NEW f, IngestNothing(f)
    PROVE  StepInv'
<1>1. Request /\ UNCHANGED <<running, contents, flow, prune>>
  BY DEF IngestNothing
<1> QED
  BY <1>1, StillStep

LEMMA IngestUnpublishedKeeps ==
    ASSUME StepInv, NEW f, IngestUnpublished(f)
    PROVE  StepInv'
<1>1. /\ Request /\ running # None /\ UNCHANGED <<running, flow>>
      /\ \E rest \in Remains(f.uid) : Without(f.uid, rest)
      /\ Meanwhile(f.uid)
  BY DEF IngestUnpublished, Accepted, Free
<1> QED
  BY <1>1, DeletingStep

LEMMA ConcurrencyIs ==
    ASSUME NEW d \in DOMAIN Conf
    PROVE  Concurrency(Conf[d]) \in Int /\ Concurrency(Conf[d]) >= 1
  BY SettingsAssumption DEF Concurrency

LEMMA CutIs ==
    ASSUME NEW d \in DOMAIN Conf
    PROVE  Cut(d).min \in Int
  BY SettingsAssumption DEF Cut

LEMMA ClearDeletes ==
    ASSUME Typed, running # None, NEW doc, NEW rest \in Remains(doc), Clear(doc, rest)
    PROVE  Deletes(doc) /\ (rest = AllGone => Of(doc, vec'[Dir(running)]) = {})
<1>1. CASE Of(doc, Here) = {}
  <2>1. UNCHANGED <<vec, partial, idx>>
    BY <1>1 DEF Clear, contents
  <2>2. Shrinks /\ DOMAIN idx' = Places
    BY <2>1, Unchanging DEF Typed
  <2> QED
    BY <1>1, <2>1, <2>2 DEF Deletes, Here, Indexed
<1>2. CASE Of(doc, Here) # {}
  BY <1>2, WithoutDeletes DEF Clear, AllGone
<1> QED
  BY <1>1, <1>2

LEMMA IngestDocumentKeeps ==
    ASSUME StepInv, NEW f \in Submitted, IngestDocument(f)
    PROVE  StepInv'
<1> DEFINE doc == ParseDocument(f)
           chunks == ChunkWithHierarchy(doc.id, doc.body, Cut(running))
           batches == SplitTexts(chunks, Concurrency(Conf[running]))
           replies == [i \in DOMAIN batches |-> Awaited]
           new == [doc |-> doc, batches |-> batches, replies |-> replies]
<1>1. Typed /\ Stored /\ Versions /\ Flowing /\ Pruning
  BY DEF StepInv
<1>2. PICK rest \in Remains(doc.id) :
        /\ Clear(doc.id, rest)
        /\ flow' = IF rest # AllGone \/ chunks = <<>> THEN None ELSE new
  BY DEF IngestDocument
<1>3. Request /\ running # None /\ Meanwhile(doc.id) /\ UNCHANGED running
  BY DEF IngestDocument, Accepted, Free
<1>4. Answers'
  BY <1>1, <1>3, AskingKeeps
<1>5. Deletes(doc.id) /\ (rest = AllGone => Of(doc.id, vec'[Dir(running)]) = {})
  <2> HIDE DEF doc, chunks, batches, new
  <2> QED
    BY <1>1, <1>2, <1>3, ClearDeletes
<1>6. Typed' /\ Stored' /\ Versions' /\ Pruning'
  <2> HIDE DEF doc, chunks, batches, new
  <2>1. Shrinks
    BY <1>5 DEF Deletes
  <2>2. Stored' /\ Versions'
    BY <1>1, <2>1, ShrinkingKeeps
  <2>3. Pruning'
    BY <1>1, <1>3, <1>5, MeanwhileKeeps DEF Deletes
  <2> QED
    BY <1>3, <1>5, <2>2, <2>3, DeletingTyped
<1>7. \E X : IsLined(X) /\ doc.body \in Seq(X) /\ doc.body # <<>>
  <2> HIDE DEF doc
  <2>1. workload \in DOMAIN Workloads
    BY <1>1 DEF Typed, Bounded
  <2>2. doc = ParseDocument(f)
    BY DEF doc
  <2> QED
    BY <2>1, <2>2, SubmittedIsLined
<1>8. rest = AllGone => Of(doc.id, Here)' = {}
  <2> HIDE DEF doc
  <2> QED
    BY <1>3, <1>5 DEF Here
<1> HIDE DEF doc
<1>9. chunks \in Seq(Range(chunks))
  <2>1. PICK X : IsLined(X) /\ doc.body \in Seq(X) /\ doc.body # <<>>
    BY <1>7
  <2> HIDE DEF chunks
  <2>2. chunks = ChunkWithHierarchy(doc.id, doc.body, Cut(running))
    BY DEF chunks
  <2>3. Cut(running).min \in Int
    BY <1>1, <1>3, CutIs DEF Typed
  <2> QED
    BY <2>1, <2>2, <2>3, Hierarchy
<1>10. CASE rest # AllGone \/ chunks = <<>>
  <2>1. flow' = None
    BY <1>2, <1>10
  <2>2. Flowing'
    BY <2>1 DEF Flowing
  <2> QED
    BY <1>4, <1>6, <2>2 DEF StepInv
<1>11. CASE rest = AllGone /\ chunks # <<>>
  <2>1. batches \in Seq(Seq(Range(chunks))) /\ FlattenSeq(batches) = chunks
    <3> DEFINE m == Concurrency(Conf[running])
    <3>1. running \in DOMAIN Conf
      BY <1>1, <1>3 DEF Typed
    <3>2. m \in Int /\ m >= 1
      BY <3>1, ConcurrencyIs
    <3> HIDE DEF m, chunks
    <3>3. batches = SplitTexts(chunks, m)
      BY DEF m
    <3> HIDE DEF batches
    <3> QED
      BY <1>9, <1>11, <3>2, <3>3, SplitsRegroup
  <2> HIDE DEF batches, new
  <2>2. flow' = new
    BY <1>2, <1>11
  <2>3. /\ new.doc = doc /\ new.batches = batches /\ new.replies = replies
        /\ new = [doc |-> new.doc, batches |-> new.batches, replies |-> new.replies]
    BY DEF new
  <2>4. \A i \in DOMAIN replies : replies[i] \in Lengths \cup {Awaited, Refused}
    OBVIOUS
  <2>5. DOMAIN replies = DOMAIN batches
    OBVIOUS
  <2> HIDE DEF replies
  <2>6. FlattenSeq(flow'.batches)
            = ChunkWithHierarchy(flow'.doc.id, flow'.doc.body, Cut(running'))
    <3>1. Cut(running') = Cut(running)
      BY <1>3
    <3> QED
      BY <2>1, <2>2, <2>3, <3>1
  <2> HIDE DEF chunks
  <2>7. /\ running' # None
        /\ flow' = [doc |-> flow'.doc, batches |-> flow'.batches, replies |-> flow'.replies]
        /\ \E X : IsLined(X) /\ flow'.doc.body \in Seq(X) /\ flow'.doc.body # <<>>
    BY <1>3, <1>7, <2>2, <2>3
  <2>8. \E X : flow'.batches \in Seq(Seq(X))
    BY <2>1, <2>2, <2>3
  <2>9. /\ DOMAIN flow'.replies = DOMAIN flow'.batches
        /\ \A i \in DOMAIN flow'.replies : flow'.replies[i] \in Lengths \cup {Awaited, Refused}
    BY <2>2, <2>3, <2>4, <2>5
  <2>10. Of(flow.doc.id, Here)' = {}
    <3>1. flow'.doc = doc
      BY <2>2, <2>3
    <3> QED
      BY <1>8, <1>11, <3>1
  <2>11. Flowing'
    BY <2>6, <2>7, <2>8, <2>9, <2>10 DEF Flowing
  <2> QED
    BY <1>4, <1>6, <2>11 DEF StepInv
<1> QED
  BY <1>10, <1>11

LEMMA EmbedReplyKeeps ==
    ASSUME StepInv, NEW i, NEW reply \in Asks.lengths \cup {Refused}, EmbedReply(i, reply)
    PROVE  StepInv'
<1>1. Typed /\ Stored /\ Versions /\ Flowing /\ Pruning
  BY DEF StepInv
<1>2. /\ Reply /\ flow # None /\ flow' = [flow EXCEPT !.replies[i] = reply]
      /\ i \in DOMAIN flow.batches
      /\ UNCHANGED <<running, vec, partial, idx, prune>>
  BY DEF EmbedReply, contents
<1>3. Bounded' /\ Answers'
  BY <1>1, <1>2, AskingKeeps
<1>4. Shrinks
  BY <1>1, <1>2, Unchanging DEF Typed
<1>5. Stored' /\ Versions'
  BY <1>1, <1>4, ShrinkingKeeps
<1>6. Pruning' /\ Typed'
  BY <1>1, <1>2, <1>3, <1>4, <1>5, PruneStays, TypedStays DEF Shrinks
<1>7. reply \in Lengths \cup {Awaited, Refused}
  <2>1. Asks.lengths \subseteq Lengths
    BY <1>1, LibraryAssumption DEF Typed, Bounded, Asks
  <2> QED
    BY <2>1
<1> DEFINE r == flow.replies
           s == [r EXCEPT ![i] = reply]
<1>8. flow' = [doc |-> flow.doc, batches |-> flow.batches, replies |-> s]
  <2>1. flow = [doc |-> flow.doc, batches |-> flow.batches, replies |-> flow.replies]
    BY <1>1, <1>2 DEF Flowing
  <2> QED
    BY <1>2, <2>1
<1>9. /\ DOMAIN s = DOMAIN flow.batches
      /\ \A j \in DOMAIN s : s[j] \in Lengths \cup {Awaited, Refused}
  <2>1. /\ DOMAIN r = DOMAIN flow.batches
        /\ \A j \in DOMAIN r : r[j] \in Lengths \cup {Awaited, Refused}
    BY <1>1, <1>2 DEF Flowing
  <2> HIDE DEF r
  <2> QED
    BY <1>7, <2>1
<1> HIDE DEF s
<1>10. /\ flow'.doc = flow.doc /\ flow'.batches = flow.batches /\ flow'.replies = s
       /\ flow' = [doc |-> flow'.doc, batches |-> flow'.batches, replies |-> flow'.replies]
  BY <1>8
<1>11. Of(flow.doc.id, Here)' = {}
  BY <1>1, <1>2, <1>10 DEF Flowing, Here
<1>12. FlattenSeq(flow'.batches)
            = ChunkWithHierarchy(flow'.doc.id, flow'.doc.body, Cut(running'))
  <2>1. Cut(running') = Cut(running)
    BY <1>2
  <2> QED
    BY <1>1, <1>2, <1>10, <2>1 DEF Flowing
<1>13. /\ running' # None
       /\ \E X : IsLined(X) /\ flow'.doc.body \in Seq(X) /\ flow'.doc.body # <<>>
       /\ \E X : flow'.batches \in Seq(Seq(X))
  BY <1>1, <1>2, <1>10 DEF Flowing
<1>14. Flowing'
  BY <1>9, <1>10, <1>11, <1>12, <1>13 DEF Flowing
<1> QED
  BY <1>3, <1>5, <1>6, <1>14 DEF StepInv

LEMMA EmbeddingFailsKeeps ==
    ASSUME StepInv, EmbeddingFails
    PROVE  StepInv'
<1>1. Typed /\ Stored /\ Versions /\ Flowing /\ Pruning
  BY DEF StepInv
<1>2. Reply /\ flow' = None /\ UNCHANGED <<running, vec, partial, idx, prune>>
  BY DEF EmbeddingFails, contents
<1>3. Bounded' /\ Answers'
  BY <1>1, <1>2, AskingKeeps
<1>4. Shrinks
  BY <1>1, <1>2, Unchanging DEF Typed
<1>5. Stored' /\ Versions'
  BY <1>1, <1>4, ShrinkingKeeps
<1>6. Pruning' /\ Typed'
  BY <1>1, <1>2, <1>3, <1>4, <1>5, PruneStays, TypedStays DEF Shrinks
<1>7. Flowing'
  BY <1>2 DEF Flowing
<1> QED
  BY <1>3, <1>5, <1>6, <1>7 DEF StepInv

\* S are the chunks "meta" of a body, as a deployment cuts it.
Cuts(doc, body, by, cs, meta, S) ==
    /\ cs = ChunkWithHierarchy(doc, body, Cut(by)) /\ cs \in Seq(Range(cs)) /\ Led(cs)
    /\ Quoted(cs, body) /\ Present(cs, body, Cut(by)) /\ DOMAIN body = 1..Len(body)
    /\ S = {meta[k] : k \in 1..Len(cs)}
    /\ \A k \in 1..Len(cs) :
        /\ meta[k].id = cs[k].id /\ meta[k].level = cs[k].level
        /\ meta[k].parent = cs[k].parent
        /\ meta[k].fp = meta[1].fp /\ meta[k].body = body /\ meta[k].by = by

\* The chunks of a document, stored by one process, are a version of it.
LEMMA StoredVersion ==
    ASSUME NEW doc, NEW body, NEW by, NEW cs, NEW meta, NEW S,
           Cuts(doc, body, by, cs, meta, S)
    PROVE  Version(doc, S, TRUE)
<1> USE DEF Cuts
<1>1. \A c \in S : c.fp = meta[1].fp /\ c.body = body /\ c.by = by
  OBVIOUS
<1>2. {c.id : c \in S} = {x.id : x \in Range(cs)}
  <2>1. \A k \in 1..Len(cs) : meta[k] \in S /\ cs[k] \in Range(cs) /\ meta[k].id = cs[k].id
    OBVIOUS
  <2>2. \A x \in Range(cs) : \E k \in 1..Len(cs) : x = cs[k]
    BY DEF Range
  <2>3. \A c \in S : \E k \in 1..Len(cs) : c = meta[k]
    OBVIOUS
  <2> QED
    BY ONLY <2>1, <2>2, <2>3
<1>3. Whole(doc, S, TRUE)
  <2>1. ASSUME NEW c \in S
        PROVE  {d.id : d \in S} = {x.id : x \in Range(ChunkWithHierarchy(doc, c.body, Cut(c.by)))}
    <3>1. ChunkWithHierarchy(doc, c.body, Cut(c.by)) = cs
      BY <1>1
    <3> QED
      BY <1>2, <3>1
  <2>2. \A c, d \in S : c.fp = d.fp /\ c.body = d.body /\ c.by = d.by
    BY <1>1
  <2> QED
    BY <2>1, <2>2, Zenon DEF Whole
<1>4. ASSUME NEW k \in 1..Len(cs),
             NEW above, above \subseteq S,
             \A d \in S : d \in above <=> /\ d.level < meta[k].level
                                          /\ d.id.from < meta[k].id.from
      PROVE  IF meta[k].parent = <<>> THEN above = {}
             ELSE \E d \in above : /\ meta[k].parent = <<d.id>>
                                   /\ \A e \in above : e.id.from <= d.id.from
  <2> DEFINE A == Above(cs, k)
  <2>1. LedBy(cs, k, A)
    BY DEF Led
  <2>2. \A j \in 1..Len(cs) : j \in A <=> meta[j] \in above
    <3> TAKE j \in 1..Len(cs)
    <3>1. j \in A <=> cs[j].level < cs[k].level /\ cs[j].id.from < cs[k].id.from
      BY DEF Above
    <3>2. meta[j] \in above <=> /\ meta[j].level < meta[k].level
                                /\ meta[j].id.from < meta[k].id.from
      BY <1>4
    <3>3. /\ meta[j].id = cs[j].id /\ meta[j].level = cs[j].level
          /\ meta[k].id = cs[k].id /\ meta[k].level = cs[k].level
      OBVIOUS
    <3> QED
      BY ONLY <3>1, <3>2, <3>3
  <2>3. A \subseteq 1..Len(cs)
    BY DEF Above
  <2>4. \A d \in above : \E j \in 1..Len(cs) : d = meta[j]
    BY <1>4
  <2>5. \A j \in 1..Len(cs) : meta[j].id = cs[j].id /\ meta[j].parent = cs[j].parent
    OBVIOUS
  <2> HIDE DEF A
  <2>6. CASE meta[k].parent = <<>>
    <3>1. A = {}
      BY <2>1, <2>5, <2>6 DEF LedBy
    <3> QED
      BY <2>2, <2>4, <2>6, <3>1
  <2>7. CASE meta[k].parent # <<>>
    <3>1. PICK j \in A : cs[k].parent = <<cs[j].id>> /\ \A i \in A : cs[i].id.from <= cs[j].id.from
      BY <2>1, <2>5, <2>7 DEF LedBy
    <3>2. meta[j] \in above /\ meta[k].parent = <<meta[j].id>>
      BY <2>2, <2>3, <2>5, <3>1
    <3>3. ASSUME NEW e \in above
          PROVE  e.id.from <= meta[j].id.from
      <4>1. PICK i \in 1..Len(cs) : e = meta[i]
        BY <2>4
      <4>2. i \in A
        BY <2>2, <4>1
      <4>3. cs[i].id.from <= cs[j].id.from
        BY <3>1, <4>2
      <4>4. e.id = cs[i].id /\ meta[j].id = cs[j].id
        BY <2>3, <2>5, <4>1
      <4> QED
        BY <4>3, <4>4
    <3> QED
      BY <2>7, <3>2, <3>3
  <2> QED
    BY <2>6, <2>7
<1>5. Leads(S)
  <2> SUFFICES ASSUME NEW c \in S,
                      NEW above, above = {d \in S : d.level < c.level /\ d.id.from < c.id.from}
               PROVE  IF c.parent = <<>> THEN above = {}
                      ELSE \E d \in above : /\ c.parent = <<d.id>>
                                            /\ \A e \in above : e.id.from <= d.id.from
    BY ZenonT(90) DEF Leads
  <2>1. PICK k \in 1..Len(cs) : c = meta[k]
    OBVIOUS
  <2>2. /\ above \subseteq S
        /\ \A d \in S : d \in above <=> /\ d.level < meta[k].level
                                        /\ d.id.from < meta[k].id.from
    BY <2>1
  <2> QED
    BY <1>4, <2>1, <2>2
<1>6. \A c \in S : Quoting(c) /\ Covered(c, S)
  <2> SUFFICES ASSUME NEW c \in S
               PROVE  /\ c.id.words = [k \in 1..(c.id.to - c.id.from + 1) |->
                                            c.body[c.id.from + k - 1].text]
                      /\ \A i \in DOMAIN c.body :
                            \/ \E d \in S : i \in d.id.from..d.id.to
                            \/ /\ ExtractHeaders(c.body) # {}
                               /\ SectionLen(c.body, SectionOf(c.body, i)) < Cut(c.by).min
    BY Zenon DEF Quoting, Covered
  <2>1. PICK k \in 1..Len(cs) : c = meta[k]
    OBVIOUS
  <2>2. c.id = cs[k].id /\ c.body = body /\ c.by = by
    BY <2>1
  <2>3. c.id.words = [m \in 1..(c.id.to - c.id.from + 1) |-> c.body[c.id.from + m - 1].text]
    <3>1. cs[k].id.words = [m \in 1..(cs[k].id.to - cs[k].id.from + 1) |->
                                body[cs[k].id.from + m - 1].text]
      BY Zenon DEF Quoted
    <3> QED
      BY <2>2, <3>1
  <2>4. ASSUME NEW i \in DOMAIN body
        PROVE  \/ \E d \in S : i \in d.id.from..d.id.to
               \/ /\ ExtractHeaders(body) # {}
                  /\ SectionLen(body, SectionOf(body, i)) < Cut(by).min
    <3>1. CASE \E j \in 1..Len(cs) : i \in cs[j].id.from..cs[j].id.to
      <4>1. PICK j \in 1..Len(cs) : i \in cs[j].id.from..cs[j].id.to
        BY <3>1
      <4>2. meta[j] \in S /\ meta[j].id = cs[j].id
        OBVIOUS
      <4> QED
        BY <4>1, <4>2
    <3>2. CASE ~\E j \in 1..Len(cs) : i \in cs[j].id.from..cs[j].id.to
      BY <3>2 DEF Present
    <3> QED
      BY <3>1, <3>2
  <2> QED
    BY <2>2, <2>3, <2>4
<1> QED
  BY <1>3, <1>5, <1>6 DEF Version, Full

LEMMA StoreKeeps ==
    ASSUME StepInv, NEW indexed, Store(indexed)
    PROVE  StepInv'
<1> DEFINE doc == flow.doc
           chunks == FlattenSeq(flow.batches)
           vectors == Vectors
           n == Len(chunks)
           meta == [k \in 1..n |-> ToMetadata(doc, chunks[k], vectors[k])]
           S == {ToMetadata(doc, chunks[k], vectors[k]) : k \in DOMAIN chunks}
           entries == {[id |-> c.id, tags |-> c.tags] : c \in S}
           ids == {c.id : c \in S}
           d == Dir(running)
           q == Place(running)
           cs == ChunkWithHierarchy(doc.id, doc.body, Cut(running))
<1>1. Typed /\ Stored /\ Versions /\ Flowing /\ Pruning
  BY DEF StepInv
<1>2. /\ Reply /\ flow # None /\ Awaited \notin Range(flow.replies)
      /\ Refused \notin Range(flow.replies) /\ CheckEmbeddingDimension(vectors)
      /\ flow' = None /\ Meanwhile(doc.id) /\ UNCHANGED running
  BY DEF Store, AllReplied
<1>22. PICK added \in Parts(S, S) :
      /\ vec' = [vec EXCEPT ![d] = {c \in @ : c.id \notin {a.id : a \in added}} \cup added]
      /\ partial' = [partial EXCEPT ![d] = IF added \in {{}, S} THEN @
                                           ELSE @ \cup {doc.id}]
      /\ idx' = IF indexed THEN [idx EXCEPT ![q] = {e \in @ : e.id \notin ids} \cup entries]
                ELSE idx
  BY Zenon DEF Store
<1>23. added \subseteq S
  BY DEF Parts
<1>3. /\ running # None
      /\ \E X : IsLined(X) /\ doc.body \in Seq(X) /\ doc.body # <<>>
      /\ \E X : flow.batches \in Seq(Seq(X))
      /\ chunks = cs
      /\ DOMAIN flow.replies = DOMAIN flow.batches
      /\ \A i \in DOMAIN flow.replies : flow.replies[i] \in Lengths \cup {Awaited, Refused}
      /\ Of(doc.id, Here) = {}
  BY <1>1, <1>2 DEF Flowing
<1>4. running \in DOMAIN Conf /\ d \in Dirs /\ q \in Places
  BY <1>1, <1>3 DEF Typed, Dirs, Places
<1>5. Bounded' /\ Answers'
  BY <1>1, <1>2, AskingKeeps
<1>6. /\ chunks \in Seq(Range(chunks)) /\ Led(chunks)
      /\ Quoted(chunks, doc.body) /\ Present(chunks, doc.body, Cut(running))
      /\ DOMAIN doc.body = 1..Len(doc.body)
      /\ \A k \in 1..n : chunks[k].id.doc = doc.id
  <2>1. PICK X : IsLined(X) /\ doc.body \in Seq(X) /\ doc.body # <<>>
    BY <1>3
  <2> HIDE DEF chunks, doc, n
  <2>2. chunks = ChunkWithHierarchy(doc.id, doc.body, Cut(running))
    BY <1>3
  <2>3. Cut(running).min \in Int
    BY <1>1, <1>3, CutIs DEF Typed
  <2> QED
    BY <2>1, <2>2, <2>3, Hierarchy DEF n
<1>7. /\ DOMAIN vectors = 1..n
      /\ \A k \in 1..n : \E i \in 1..Len(flow.batches) :
            vectors[k] = [of |-> chunks[k].id, len |-> flow.replies[i]]
  <2> DEFINE batches == flow.batches
             replies == flow.replies
  <2>1. PICK X : batches \in Seq(Seq(X))
    BY <1>3
  <2>2. chunks = FlattenSeq(batches)
    OBVIOUS
  <2>3. vectors = GenerateEmbeddingsBatch(batches, replies)
    BY DEF Vectors
  <2> HIDE DEF batches, replies, chunks, vectors
  <2>4. Answering(vectors, chunks, batches, replies)
    BY <2>1, <2>2, <2>3, BatchVectors
  <2> QED
    BY <2>4 DEF batches, replies, Answering
<1>8. DOMAIN flow.batches = 1..Len(flow.batches)
  BY <1>3
<1>9. DOMAIN chunks = 1..n /\ n \in Nat
  <2> HIDE DEF chunks
  <2> QED
    BY <1>6
<1> HIDE DEF chunks, vectors, cs
<1>10. ASSUME NEW k \in 1..n
       PROVE  /\ vectors[k].of = chunks[k].id
              /\ vectors[k].len \in Lengths /\ vectors[k].len = Conf[running].dim
  <2>1. PICK i \in 1..Len(flow.batches) :
            vectors[k] = [of |-> chunks[k].id, len |-> flow.replies[i]]
    BY <1>7
  <2>2. i \in DOMAIN flow.replies /\ flow.replies[i] \in Range(flow.replies)
    BY <1>3, <1>8 DEF Range
  <2>3. flow.replies[i] \in Lengths
    BY <1>2, <1>3, <2>2
  <2>4. vectors[k].len = Conf[running].dim
    BY <1>2, <1>7 DEF CheckEmbeddingDimension
  <2> QED
    BY <2>1, <2>3, <2>4
<1>11. ASSUME NEW k \in 1..n
       PROVE  /\ meta[k].id = chunks[k].id /\ meta[k].level = chunks[k].level
              /\ meta[k].parent = chunks[k].parent
              /\ meta[k].fp = doc.fingerprint /\ meta[k].body = doc.body
              /\ meta[k].by = running
              /\ meta[k].of = chunks[k].id
              /\ meta[k].len \in Lengths /\ meta[k].len = Conf[running].dim
  <2>1. meta[k] = [id |-> chunks[k].id, level |-> chunks[k].level, parent |-> chunks[k].parent,
                   fp |-> doc.fingerprint, tags |-> doc.tags, kind |-> doc.kind,
                   of |-> vectors[k].of, len |-> vectors[k].len, body |-> doc.body,
                   by |-> running]
    BY DEF ToMetadata
  <2> HIDE DEF meta, doc
  <2> QED
    BY <1>3, <1>10, <2>1
<1>12. S = {meta[k] : k \in 1..n}
  BY <1>9
<1> HIDE DEF meta, S, entries
<1>13. Version(doc.id, S, TRUE)
  <2> HIDE DEF doc
  <2>1. chunks = ChunkWithHierarchy(doc.id, doc.body, Cut(running))
    BY <1>3 DEF cs
  <2> DEFINE body == doc.body
  <2>2. Cuts(doc.id, body, running, chunks, meta, S)
    <3>1. \A k \in 1..n : 1 \in 1..n
      BY <1>6 DEF n
    <3> QED
      BY <1>6, <1>11, <1>12, <2>1, <3>1 DEF n, Cuts
  <2> HIDE DEF body
  <2> QED
    BY ONLY <2>2, StoredVersion
<1>14. \A c \in S : Sound(d, c) /\ c.id.doc = doc.id
  <2> SUFFICES ASSUME NEW c \in S PROVE Sound(d, c) /\ c.id.doc = doc.id
    OBVIOUS
  <2>1. PICK k \in 1..n : c = meta[k]
    BY <1>12
  <2> QED
    BY <1>4, <1>6, <1>11, <2>1 DEF Sound
<1>15. /\ DOMAIN vec' = Dirs /\ DOMAIN partial' = Dirs
       /\ \A p \in Dirs : p # d => vec'[p] = vec[p] /\ partial'[p] = partial[p]
       /\ vec'[d] = {c \in vec[d] : c.id \notin {a.id : a \in added}} \cup added
       /\ partial'[d] = IF added \in {{}, S} THEN partial[d] ELSE partial[d] \cup {doc.id}
  <2> HIDE DEF d, doc
  <2> QED
    BY <1>1, <1>4, <1>22 DEF Typed
<1>16. vec'[d] = vec[d] \cup added
  <2>1. \A c \in vec[d] : c.id.doc # doc.id
    BY <1>3 DEF Of, Here
  <2>2. \A c \in added : c.id.doc = doc.id
    BY <1>14, <1>23
  <2>3. \A c \in vec[d] : c.id \notin {a.id : a \in added}
    BY <2>1, <2>2
  <2> QED
    BY <1>15, <2>3
<1>17. Stored'
  BY <1>1, <1>14, <1>15, <1>16, <1>23 DEF Stored
<1>24. Version(doc.id, added, doc.id \notin partial'[d])
  <2> HIDE DEF doc, d
  <2>1. CASE added = {}
    BY <2>1, NoVersion
  <2>2. CASE added = S
    <3>1. Version(doc.id, S, FALSE)
      BY <1>13, PartOfVersion
    <3> DEFINE all == doc.id \notin partial'[d]
    <3>2. all \in BOOLEAN
      OBVIOUS
    <3> HIDE DEF all
    <3>3. Version(doc.id, S, all)
      BY <1>13, <3>1, <3>2
    <3> QED
      BY <2>2, <3>3 DEF all
  <2>3. CASE added \notin {{}, S}
    <3> DEFINE all == doc.id \notin partial'[d]
    <3>1. ~all
      BY <1>15, <2>3
    <3> HIDE DEF all
    <3>2. Version(doc.id, added, all)
      BY <1>13, <1>23, <3>1, PartOfVersion
    <3> QED
      BY <3>2 DEF all
  <2> QED
    BY <2>1, <2>2, <2>3
<1>25. \A x : x # doc.id => Of(x, vec'[d]) = Of(x, vec[d])
  BY <1>14, <1>16, <1>23 DEF Of
<1>26. \A x : x # doc.id => (x \in partial'[d] <=> x \in partial[d])
  <2> HIDE DEF doc, d
  <2> QED
    BY <1>15
<1>18. Versions'
  <2>1. ASSUME NEW p \in Dirs, NEW x
        PROVE  Version(x, Of(x, vec'[p]), x \notin partial'[p])
    <3>1. CASE p # d
      BY <1>1, <1>15, <3>1 DEF Versions
    <3>2. CASE p = d /\ x # doc.id
      <4>1. Version(x, Of(x, vec[d]), x \notin partial[d])
        BY <1>1, <1>4 DEF Versions
      <4>2. (x \notin partial'[d]) = (x \notin partial[d])
        BY <1>26, <3>2
      <4>3. Of(x, vec'[d]) = Of(x, vec[d])
        BY <1>25, <3>2
      <4> QED
        BY <3>2, <4>1, <4>2, <4>3
    <3>3. CASE p = d /\ x = doc.id
      <4>1. Of(x, vec'[p]) = added
        BY <1>3, <1>14, <1>16, <1>23, <3>3 DEF Of, Here
      <4> QED
        BY <1>24, <3>3, <4>1
    <3> QED
      BY <3>1, <3>2, <3>3
  <2> QED
    BY <2>1 DEF Versions
<1>19. Typed'
  <2>1. Entries(idx[q])
    BY <1>1, <1>3 DEF Typed, Indexed
  <2>2. Entries({e \in idx[q] : e.id \notin ids} \cup entries)
    <3>1. \A e \in entries : {"id", "tags"} = DOMAIN e
      BY DEF entries
    <3> QED
      BY <2>1, <3>1 DEF Entries
  <2>3. /\ DOMAIN idx' = Places
        /\ \A p \in Places : p # q => idx'[p] = idx[p]
        /\ Entries(idx'[q])
    <3> HIDE DEF q, ids
    <3>1. CASE indexed = TRUE
      BY <1>1, <1>22, <1>4, <2>2, <3>1 DEF Typed
    <3>2. CASE idx' = idx
      BY <1>1, <2>1, <3>2 DEF Typed
    <3> QED
      BY <1>22, <1>1, <1>4, <2>2, <3>2 DEF Typed
  <2>4. \A p \in Places : IsOpen(idx'[p]) => Entries(idx'[p])
    BY <1>1, <2>3 DEF Typed
  <2> QED
    BY <1>1, <1>2, <1>5, <1>15, <2>3, <2>4 DEF Typed, Indexed
<1>20. Pruning'
  <2>1. \A x : x # doc.id => Of(x, vec'[Dir(running)]) = Of(x, Here)
    BY <1>25 DEF Here
  <2> HIDE DEF doc
  <2> QED
    BY <1>1, <1>2, <2>1, MeanwhileKeeps
<1>21. Flowing'
  BY <1>2 DEF Flowing
<1> QED
  BY <1>5, <1>17, <1>18, <1>19, <1>20, <1>21 DEF StepInv

-----------------------------------------------------------------------------
(* Deletes and prunings.                                                   *)

LEMMA DeleteDocumentKeeps ==
    ASSUME StepInv, NEW doc, DeleteDocument(doc)
    PROVE  StepInv'
<1>1. /\ Request /\ running # None /\ UNCHANGED <<running, flow>>
      /\ \/ UNCHANGED <<contents, prune>>
         \/ (\E rest \in Remains(doc) : Without(doc, rest)) /\ Meanwhile(doc)
  BY DEF DeleteDocument
<1>2. CASE UNCHANGED <<contents, prune>>
  BY <1>1, <1>2, StillStep
<1>3. CASE (\E rest \in Remains(doc) : Without(doc, rest)) /\ Meanwhile(doc)
  BY <1>1, <1>3, DeletingStep
<1> QED
  BY <1>1, <1>2, <1>3

LEMMA PruneDocumentsKeeps ==
    ASSUME StepInv, NEW r, PruneDocuments(r)
    PROVE  StepInv'
<1> DEFINE todo == PlanPrune(ListDocuments, r)
           new == [request |-> r, todo |-> todo, before |-> Here, since |-> {}]
<1>1. Typed /\ Stored /\ Versions /\ Flowing /\ Pruning
  BY DEF StepInv
<1>2. /\ Request /\ running # None /\ prune' \in {None, new}
      /\ UNCHANGED <<running, vec, partial, idx, flow>>
  BY DEF PruneDocuments, contents
<1>3. Bounded' /\ Answers'
  BY <1>1, <1>2, AskingKeeps
<1>4. Shrinks
  BY <1>1, <1>2, Unchanging DEF Typed
<1>5. Stored' /\ Versions' /\ Flowing' /\ Typed'
  BY <1>1, <1>2, <1>3, <1>4, ShrinkingKeeps, FlowStays, TypedStays DEF Shrinks
<1>6. Pruning'
  <2>1. CASE prune' = None
    BY <2>1 DEF Pruning
  <2>2. CASE prune' = new
    <3> DEFINE kept == IF r.keeps THEN Docs(Here) \cap r.docs ELSE Docs(Here) \ r.docs
    <3>1. Docs(Here) \subseteq kept \cup todo /\ todo \cap kept = {}
      BY DEF PlanPrune, ListDocuments
    <3> HIDE DEF todo
    <3>2. /\ new.request = r /\ new.before = Here /\ new.todo = todo /\ new.since = {}
          /\ new = [request |-> new.request, todo |-> new.todo,
                    before |-> new.before, since |-> new.since]
      OBVIOUS
    <3> HIDE DEF new
    <3>3. Kept(new) = kept
      BY <3>2 DEF Kept
    <3> HIDE DEF kept
    <3>4. Here' = Here
      BY <1>2 DEF Here
    <3> QED
      BY <1>2, <2>2, <3>1, <3>2, <3>3, <3>4 DEF Pruning, Kept
  <2> QED
    BY <1>2, <2>1, <2>2
<1> QED
  BY <1>3, <1>5, <1>6 DEF StepInv

LEMMA PruneNextKeeps ==
    ASSUME StepInv, NEW doc, PruneNext(doc)
    PROVE  StepInv'
<1> DEFINE todo == prune.todo \ {doc}
           since == prune.since \ {doc}
           d == Dir(running)
<1>1. Typed /\ Stored /\ Versions /\ Flowing /\ Pruning
  BY DEF StepInv
<1>2. /\ Reply /\ prune # None /\ doc \in prune.todo /\ running # None
      /\ UNCHANGED <<running, flow>>
  BY <1>1 DEF PruneNext, Pruning
<1>3. CASE prune' = None /\ UNCHANGED contents
  <2>1. UNCHANGED <<vec, partial, idx>>
    BY <1>3 DEF contents
  <2>2. Bounded' /\ Shrinks
    BY <1>1, <1>2, <2>1, AskingKeeps, Unchanging DEF Typed
  <2>3. Typed'
    BY <1>1, <1>2, <2>1, <2>2, TypedStays DEF Shrinks
  <2>4. Pruning'
    BY <1>3 DEF Pruning
  <2> QED
    BY <1>2, <2>2, <2>3, <2>4, ShrinkingStep
<1>4. ASSUME NEW rest \in Remains(doc), Without(doc, rest),
             prune' = IF rest # AllGone THEN None
                      ELSE [prune EXCEPT !.todo = @ \ {doc}, !.since = @ \ {doc}]
      PROVE  StepInv'
  <2>1. Deletes(doc) /\ Of(doc, vec'[d]) = rest.chunks
    BY <1>1, <1>2, <1>4, WithoutDeletes
  <2>2. Typed' /\ Shrinks
    BY <1>2, <2>1, DeletingTyped DEF Deletes
  <2>3. CASE rest # AllGone
    <3>1. Pruning'
      BY <1>4, <2>3 DEF Pruning
    <3> QED
      BY <1>2, <2>2, <3>1, ShrinkingStep
  <2>4. CASE rest = AllGone
    <3>1. prune' = [prune EXCEPT !.todo = todo, !.since = since]
      BY <1>4, <2>4
    <3>2. /\ prune = [request |-> prune.request, todo |-> prune.todo,
                      before |-> prune.before, since |-> prune.since]
          /\ prune.todo \cap Kept(prune) = {}
          /\ Docs(Here) \subseteq Kept(prune) \cup prune.todo \cup prune.since
          /\ \A x \in Kept(prune) \ prune.since : Of(x, Here) = Of(x, prune.before)
      BY <1>1, <1>2 DEF Pruning
    <3>3. /\ Docs(vec'[d]) \subseteq Docs(Here) \ {doc}
          /\ \A x : x # doc => Of(x, vec'[d]) = Of(x, Here)
      <4>1. vec'[d] \subseteq Here /\ Of(doc, vec'[d]) = {}
        <5>1. d \in Dirs
          BY <1>1, <1>2 DEF Typed, Dirs
        <5> QED
          BY <2>1, <2>4, <5>1 DEF Deletes, AllGone, Here
      <4> HIDE DEF d
      <4>2. Docs(vec'[d]) \subseteq Docs(Here) \ {doc}
        BY <4>1 DEF Docs, Of
      <4> QED
        BY <2>1, <4>2 DEF Deletes, d
    <3> HIDE DEF todo, since
    <3>4. prune' = [request |-> prune.request, todo |-> todo,
                    before |-> prune.before, since |-> since]
      BY <3>1, <3>2
    <3>5. /\ prune'.request = prune.request /\ prune'.todo = todo
          /\ prune'.before = prune.before /\ prune'.since = since
          /\ prune' = [request |-> prune'.request, todo |-> prune'.todo,
                       before |-> prune'.before, since |-> prune'.since]
      BY <3>4
    <3>6. Kept(prune') = Kept(prune) /\ doc \notin Kept(prune)
      BY <1>2, <3>2, <3>5 DEF Kept
    <3>7. Here' = vec'[d]
      BY <1>2 DEF Here
    <3> HIDE DEF d
    <3>8. /\ prune'.todo \cap Kept(prune') = {}
          /\ Docs(vec'[d]) \subseteq Kept(prune') \cup prune'.todo \cup prune'.since
      BY <3>2, <3>3, <3>5, <3>6 DEF todo, since
    <3>9. \A x \in Kept(prune') \ prune'.since : Of(x, vec'[d]) = Of(x, prune'.before)
      BY <3>2, <3>3, <3>5, <3>6 DEF since
    <3>10. Pruning'
      BY <1>2, <3>5, <3>7, <3>8, <3>9 DEF Pruning, Kept
    <3> QED
      BY <1>2, <2>2, <3>10, ShrinkingStep
  <2> QED
    BY <2>3, <2>4
<1> QED
  BY <1>3, <1>4 DEF PruneNext

LEMMA PruneReturnsKeeps ==
    ASSUME StepInv, PruneReturns
    PROVE  StepInv'
<1>1. Typed /\ Stored /\ Versions /\ Flowing /\ Pruning
  BY DEF StepInv
<1>2. Reply /\ prune' = None /\ UNCHANGED <<running, vec, partial, idx, flow>>
  BY DEF PruneReturns, contents
<1>3. Bounded' /\ Answers'
  BY <1>1, <1>2, AskingKeeps
<1>4. Shrinks
  BY <1>1, <1>2, Unchanging DEF Typed
<1>5. Stored' /\ Versions' /\ Flowing' /\ Typed'
  BY <1>1, <1>2, <1>3, <1>4, ShrinkingKeeps, FlowStays, TypedStays DEF Shrinks
<1>6. Pruning'
  BY <1>2 DEF Pruning
<1> QED
  BY <1>3, <1>5, <1>6 DEF StepInv

-----------------------------------------------------------------------------
(* Answers.                                                                *)

LEMMA AnsweringStep ==
    ASSUME StepInv, UNCHANGED <<running, contents, flow, prune, workload>>,
           left' = left \/ (left > 0 /\ left' = left - 1), Answers'
    PROVE  StepInv'
<1>1. Typed /\ Stored /\ Versions /\ Flowing /\ Pruning
  BY DEF StepInv
<1>2. Bounded'
  <2>1. Asks.steps \in Nat /\ left \in 0..Asks.steps
    BY <1>1, LibraryAssumption DEF Typed, Bounded, Asks
  <2>2. left' \in 0..Asks.steps
    BY <2>1
  <2>3. Asks'.steps = Asks.steps
    BY DEF Asks
  <2> QED
    BY <1>1, <2>2, <2>3 DEF Typed, Bounded
<1>3. Shrinks /\ UNCHANGED <<vec, idx>>
  BY <1>1, Unchanging DEF Typed, contents
<1>4. Stored' /\ Versions' /\ Flowing' /\ Typed'
  BY <1>1, <1>2, <1>3, ShrinkingKeeps, FlowStays, TypedStays DEF Shrinks
<1>5. Pruning'
  BY <1>1, <1>3, PruneStays
<1> QED
  BY <1>4, <1>5 DEF StepInv

LEMMA FilteredOk ==
    ASSUME NEW a, NEW hits, a \in {Failed, Answer(hits)}, NEW filter
    PROVE  ApplySourceKindFilters(a, filter).ok = a.ok
<1> DEFINE kept == Only(a.hits, {h \in Range(a.hits) : h.kind \in filter.kinds})
<1>1. \/ a = [ok |-> FALSE, hits |-> <<>>]
      \/ a = [ok |-> TRUE, hits |-> hits]
  BY DEF Failed, Answer
<1>2. ApplySourceKindFilters(a, filter) \in {a, [a EXCEPT !.hits = kept]}
  BY DEF ApplySourceKindFilters
<1> HIDE DEF kept
<1>3. [a EXCEPT !.hits = kept].ok = a.ok
  BY <1>1
<1> QED
  BY <1>2, <1>3

\* Which searches are answered.
LEMMA SearchOk ==
    ASSUME NEW chunks, NEW index, NEW r, NEW len
    PROVE  SearchHybrid(chunks, index, r, len).ok =
             IF r.mode = "semantic" THEN ~(~r.embeds \/ VectorFails(chunks, r.filter, len))
             ELSE ~(~r.indexed)
<1> DEFINE near == EnrichResults(chunks,
                        VectorSearch(chunks, r.query, Limit(r.limit), r.filter))
           found == EnrichResults(chunks,
                        KeywordSearch(index, r.query, Limit(r.limit), r.filter))
           wide == Limit(r.limit) * Headroom
           keyword == KeywordSearch(index, r.query, wide, r.filter)
           semantic == IF ~r.embeds \/ VectorFails(chunks, r.filter, len) THEN <<>>
                       ELSE VectorSearch(chunks, r.query, wide, r.filter)
           fused == EnrichResults(chunks, First(RrfFuse(semantic, keyword), Limit(r.limit)))
           s == SearchSemanticOnly(chunks, r, len)
           k == SearchKeywordOnly(chunks, index, r)
           h == SearchHybridRRF(chunks, index, r, len)
           a == IF r.mode = "semantic" THEN s ELSE IF r.mode = "keyword" THEN k ELSE h
           lost == ~r.embeds \/ VectorFails(chunks, r.filter, len)
<1>1. Failed.ok = FALSE /\ \A hits : Answer(hits).ok = TRUE
  BY DEF Failed, Answer
<1>2. s = IF lost THEN Failed ELSE Answer(near)
  BY Zenon DEF SearchSemanticOnly
<1>3. k = IF ~r.indexed THEN Failed ELSE Answer(found)
  BY Zenon DEF SearchKeywordOnly
<1>4. h = IF ~r.indexed THEN Failed ELSE Answer(fused)
  BY Zenon DEF SearchHybridRRF
<1>5. SearchHybrid(chunks, index, r, len) = ApplySourceKindFilters(a, r.filter)
  BY Zenon DEF SearchHybrid
<1> HIDE DEF s, k, h, near, found, fused, lost
<1>6. \E hits : a \in {Failed, Answer(hits)}
  BY <1>2, <1>3, <1>4
<1>7. ApplySourceKindFilters(a, r.filter).ok = a.ok
  <2>1. PICK hits : a \in {Failed, Answer(hits)}
    BY <1>6
  <2> HIDE DEF a
  <2> QED
    BY <2>1, FilteredOk
<1>8. a.ok = IF r.mode = "semantic" THEN ~lost ELSE ~(~r.indexed)
  <2>1. CASE r.mode = "semantic"
    <3>1. a = s
      BY <2>1
    <3> HIDE DEF a
    <3> QED
      BY <1>1, <1>2, <2>1, <3>1
  <2>2. CASE r.mode # "semantic"
    <3>1. a = k \/ a = h
      BY <2>2
    <3> HIDE DEF a
    <3> QED
      BY <1>1, <1>3, <1>4, <2>2, <3>1
  <2> QED
    BY <2>1, <2>2
<1> HIDE DEF a
<1> QED
  BY <1>5, <1>7, <1>8 DEF lost

LEMMA SearchKeeps ==
    ASSUME StepInv, NEW r, NEW len, Search(r, len)
    PROVE  StepInv'
<1> DEFINE out == SearchHybrid(Here, Indexed, r, len)
<1>1. Typed /\ Stored
  BY DEF StepInv
<1>2. /\ UNCHANGED <<running, contents, flow, prune, workload>>
      /\ left > 0 /\ left' = left - 1 /\ running # None
      /\ answer' = [of |-> "search", r |-> r, len |-> len, out |-> out]
  BY DEF Search, Asked
<1>3. out.ok = IF r.mode = "semantic" THEN ~(~r.embeds \/ VectorFails(Here, r.filter, len))
               ELSE ~(~r.indexed)
  BY SearchOk
<1> HIDE DEF out
<1>4. answer'.of = "search" /\ answer'.r = r /\ answer'.len = len /\ answer'.out = out
  BY <1>2
<1>5. ASSUME ~out.ok, r.mode = "semantic"
      PROVE  \/ ~r.embeds \/ len # Conf[running].dim
             \/ \E c \in Here : Conf[c.by].dim # Conf[running].dim
  <2> SUFFICES ASSUME r.embeds, len = Conf[running].dim
               PROVE  \E c \in Here : Conf[c.by].dim # Conf[running].dim
    OBVIOUS
  <2>1. PICK c \in Here : c.len # len
    BY <1>3, <1>5 DEF VectorFails
  <2>2. c.len = Conf[c.by].dim
    <3>1. Dir(running) \in Dirs
      BY <1>1, <1>2 DEF Typed, Dirs
    <3> QED
      BY <1>1, <2>1, <3>1 DEF Stored, Sound, Here
  <2> QED
    BY <2>1, <2>2
<1>6. Here' = Here /\ running' = running
  BY <1>2 DEF Here, contents
<1>7. FailsForAReason'
  <2>1. ASSUME ~out.ok
        PROVE  IF r.mode = "semantic"
               THEN \/ ~r.embeds \/ len # Conf[running].dim
                    \/ \E c \in Here : Conf[c.by].dim # Conf[running].dim
               ELSE ~r.indexed
    BY <1>3, <1>5, <2>1
  <2> QED
    BY <1>4, <1>6, <2>1 DEF FailsForAReason
<1>8. DoctorIsRight'
  <2>1. answer'.of # "doctor"
    BY <1>4
  <2> QED
    BY <2>1 DEF DoctorIsRight
<1> QED
  BY <1>2, <1>7, <1>8, AnsweringStep DEF Answers

LEMMA DoctorKeeps ==
    ASSUME StepInv, NEW d, Doctor(d)
    PROVE  StepInv'
<1> DEFINE verdict == IF ~Validate(Conf[d]) THEN "invalid"
                      ELSE IF ~CheckModelMarker(d) THEN "other model"
                      ELSE CheckStoreEmbeddingDimension(d)
           others == {c \in vec[Dir(d)] : Conf[c.by].dim # Conf[d].dim}
<1>1. Typed /\ Stored
  BY DEF StepInv
<1>2. /\ UNCHANGED <<running, contents, flow, prune, workload>>
      /\ left > 0 /\ left' = left - 1 /\ d \in DOMAIN Conf
      /\ answer' = [of |-> "doctor", d |-> d, verdict |-> verdict]
  BY Zenon DEF Doctor, Asked
<1>3. \A c \in vec[Dir(d)] : c.len = Conf[c.by].dim
  BY <1>1, <1>2 DEF Stored, Sound, Dirs
<1>4. /\ verdict = "matches" => others = {}
      /\ verdict = "mixed" => others # {}
  <2>1. CheckStoreEmbeddingDimension(d) = "matches" => \A c \in vec[Dir(d)] : c.len = Conf[d].dim
    BY DEF CheckStoreEmbeddingDimension
  <2>2. CheckStoreEmbeddingDimension(d) = "mixed" => \E c \in vec[Dir(d)] : c.len # Conf[d].dim
    BY DEF CheckStoreEmbeddingDimension
  <2>3. /\ verdict = "matches" => CheckStoreEmbeddingDimension(d) = "matches"
        /\ verdict = "mixed" => CheckStoreEmbeddingDimension(d) = "mixed"
    OBVIOUS
  <2> HIDE DEF verdict
  <2> QED
    BY <1>3, <2>1, <2>2, <2>3
<1> HIDE DEF verdict
<1>5. answer'.of = "doctor" /\ answer'.d = d /\ answer'.verdict = verdict
  BY <1>2
<1>6. FailsForAReason'
  <2>1. answer'.of # "search"
    BY <1>5
  <2> QED
    BY <2>1 DEF FailsForAReason
<1>7. DoctorIsRight'
  <2>1. {c \in vec'[Dir(answer'.d)] : Conf[c.by].dim # Conf[answer'.d].dim} = others
    BY <1>2, <1>5 DEF contents
  <2> HIDE DEF others
  <2> QED
    BY <1>4, <1>5, <2>1 DEF DoctorIsRight
<1> QED
  BY <1>2, <1>6, <1>7, AnsweringStep DEF Answers

LEMMA AnsweredKeeps ==
    ASSUME StepInv, Answered
    PROVE  StepInv'
<1>1. answer' = None /\ UNCHANGED <<running, contents, flow, prune, workload, left>>
  BY DEF Answered
<1>2. Answers'
  BY <1>1, NoAnswer
<1> QED
  BY <1>1, <1>2, AnsweringStep

-----------------------------------------------------------------------------
LEMMA InitStepInv ==
    ASSUME Init PROVE StepInv
<1>1. Bounded
  <2>1. Asks.steps \in Nat /\ left = Asks.steps /\ workload \in DOMAIN Workloads
    BY LibraryAssumption DEF Init, Asks
  <2> QED
    BY <2>1 DEF Bounded
<1>2. Typed
  <2>1. running = None /\ DOMAIN vec = Dirs /\ DOMAIN partial = Dirs
        /\ DOMAIN idx = Places
        /\ \A p \in Places : idx[p] = None
    BY DEF Init
  <2> QED
    BY <1>1, <2>1 DEF Typed, IsOpen
<1>3. \A p \in Dirs : vec[p] = {}
  BY DEF Init
<1>4. Stored
  BY <1>3 DEF Stored
<1>5. Versions
  <2>1. \A doc : Of(doc, {}) = {}
    BY DEF Of
  <2> QED
    BY <1>3, <2>1, NoVersion DEF Versions
<1>6. Flowing /\ Pruning /\ Answers
  BY DEF Init, Flowing, Pruning, Answers, FailsForAReason, DoctorIsRight
<1> QED
  BY <1>2, <1>4, <1>5, <1>6 DEF StepInv

LEMMA NextStepInv ==
    ASSUME StepInv, [Next]_vars
    PROVE  StepInv'
<1>1. ASSUME NEW d, Start(d) \/ VectorReset(d) \/ Doctor(d)
      PROVE  StepInv'
  BY <1>1, StartKeeps, VectorResetKeeps, DoctorKeeps
<1>2. CASE Stop
  BY <1>2, StopKeeps
<1>3. ASSUME NEW p \in Places, NEW how \in {None, Corrupt}, LoseIndex(p, how)
      PROVE  StepInv'
  BY <1>3, LoseIndexKeeps
<1>4. ASSUME NEW f \in Submitted, IngestNothing(f) \/ IngestUnpublished(f) \/ IngestDocument(f)
      PROVE  StepInv'
  BY <1>4, IngestNothingKeeps, IngestUnpublishedKeeps, IngestDocumentKeeps
<1>5. ASSUME NEW i, NEW reply \in Asks.lengths \cup {Refused}, EmbedReply(i, reply)
      PROVE  StepInv'
  BY <1>5, EmbedReplyKeeps
<1>6. CASE EmbeddingFails
  BY <1>6, EmbeddingFailsKeeps
<1>7. ASSUME NEW indexed, Store(indexed)
      PROVE  StepInv'
  BY <1>7, StoreKeeps
<1>8. ASSUME NEW doc, DeleteDocument(doc) \/ PruneNext(doc)
      PROVE  StepInv'
  BY <1>8, DeleteDocumentKeeps, PruneNextKeeps
<1>9. ASSUME NEW r, PruneDocuments(r)
      PROVE  StepInv'
  BY <1>9, PruneDocumentsKeeps
<1>10. CASE PruneReturns
  BY <1>10, PruneReturnsKeeps
<1>11. ASSUME NEW r, NEW len, Search(r, len)
       PROVE  StepInv'
  BY <1>11, SearchKeeps
<1>12. CASE Answered
  BY <1>12, AnsweredKeeps
<1>13. CASE UNCHANGED vars
  <2>1. UNCHANGED <<running, contents, flow, prune, workload, left, answer>>
    BY <1>13 DEF vars
  <2>2. Here' = Here /\ UNCHANGED vec
    BY <2>1 DEF Here, contents
  <2>3. Answers'
    BY <2>1, <2>2 DEF StepInv, Answers, FailsForAReason, DoctorIsRight
  <2> QED
    BY <2>1, <2>3, AnsweringStep
<1>14. CASE OperatorNext
  BY <1>1, <1>2, <1>3, <1>14, Zenon DEF OperatorNext
<1>15. CASE IngestNext
  BY <1>4, <1>5, <1>6, <1>7, <1>15, Zenon DEF IngestNext
<1>16. CASE DeleteNext
  BY <1>8, <1>9, <1>10, <1>16, Zenon DEF DeleteNext
<1> QED
  BY <1>11, <1>12, <1>13, <1>14, <1>15, <1>16, Zenon DEF Next

-----------------------------------------------------------------------------
(* The answers of hybrid searches.  What a process ranks is finite, so that *)
(* one of it is first.                                                     *)

Finite ==
    /\ \A p \in Dirs : IsFiniteSet(vec[p])
    /\ \A p \in Places : IsOpen(idx[p]) => IsFiniteSet(idx[p])
    /\ running # None => IsFiniteSet(Indexed)

LEMMA FiniteStays ==
    ASSUME Finite, UNCHANGED <<vec, idx>>, running' \in {running, None}
    PROVE  Finite'
  BY DEF Finite, Indexed

LEMMA FiniteDeletes ==
    ASSUME Typed, Finite, running # None, UNCHANGED running, NEW doc, Deletes(doc)
    PROVE  Finite'
<1> DEFINE q == Place(running)
<1>1. \A p \in Dirs : vec'[p] \subseteq vec[p]
  BY DEF Deletes
<1>2. \A p \in Dirs : IsFiniteSet(vec'[p])
  BY <1>1, FS_Subset DEF Finite
<1>3. IsFiniteSet(idx'[q])
  BY FS_Subset DEF Finite, Deletes
<1>4. \A p \in Places : IsOpen(idx'[p]) => IsFiniteSet(idx'[p])
  BY <1>3 DEF Finite, Deletes
<1> QED
  BY <1>2, <1>3, <1>4 DEF Finite, Indexed

LEMMA FiniteStart ==
    ASSUME Typed, Finite, NEW d, Start(d)
    PROVE  Finite'
<1> DEFINE q == Place(d)
<1>1. /\ running' = d /\ d \in DOMAIN Conf /\ idx[q] # Corrupt /\ UNCHANGED vec
      /\ idx' = [idx EXCEPT ![q] = IF @ = None THEN {} ELSE @]
  BY DEF Start, NewService, LoadSearchIndex
<1>2. q \in Places
  BY <1>1 DEF Places
<1> HIDE DEF q
<1>3. \A p \in Places : idx'[p] = IF p = q THEN IF idx[q] = None THEN {} ELSE idx[q]
                                   ELSE idx[p]
  BY <1>1, <1>2 DEF Typed
<1>4. IsFiniteSet(idx'[q])
  <2>1. idx[q] # None => IsFiniteSet(idx[q])
    BY <1>1, <1>2 DEF Finite, IsOpen
  <2>2. IsFiniteSet({})
    BY FS_EmptySet
  <2> QED
    BY <1>2, <1>3, <2>1, <2>2
<1>5. \A p \in Places : IsOpen(idx'[p]) => IsFiniteSet(idx'[p])
  BY <1>3, <1>4 DEF Finite
<1> QED
  BY <1>1, <1>4, <1>5 DEF Finite, Indexed, q

LEMMA FiniteVectorReset ==
    ASSUME Typed, Finite, NEW d, VectorReset(d)
    PROVE  Finite'
<1>1. /\ running' = None
      /\ vec' = [vec EXCEPT ![Dir(d)] = {}]
      /\ idx' = [p \in Places |-> IF IsPrefix(Dir(d), p) THEN None ELSE idx[p]]
  BY DEF VectorReset
<1>2. \A p \in Dirs : vec'[p] \in {vec[p], {}}
  BY <1>1 DEF Typed
<1>3. \A p \in Places : idx'[p] \in {idx[p], None}
  BY <1>1
<1>4. IsFiniteSet({})
  BY FS_EmptySet
<1> QED
  BY <1>1, <1>2, <1>3, <1>4 DEF Finite, IsOpen

LEMMA FiniteLoseIndex ==
    ASSUME Typed, Finite, NEW p, NEW how \in {None, Corrupt}, LoseIndex(p, how)
    PROVE  Finite'
<1>1. running = None /\ running' = None /\ UNCHANGED vec /\ idx' = [idx EXCEPT ![p] = how]
  BY DEF LoseIndex
<1>2. \A x \in Places : idx'[x] \in {idx[x], None, Corrupt}
  BY <1>1 DEF Typed
<1> QED
  BY <1>1, <1>2 DEF Finite, IsOpen

LEMMA FiniteStore ==
    ASSUME StepInv, Finite, NEW indexed, Store(indexed)
    PROVE  Finite'
<1> DEFINE chunks == FlattenSeq(flow.batches)
           meta(k) == ToMetadata(flow.doc, chunks[k], Vectors[k])
           S == {ToMetadata(flow.doc, chunks[k], Vectors[k]) : k \in DOMAIN chunks}
           entries == {[id |-> c.id, tags |-> c.tags] : c \in S}
           ids == {c.id : c \in S}
           d == Dir(running)
           q == Place(running)
<1>1. Typed /\ Flowing
  BY DEF StepInv
<1>2. PICK added \in Parts(S, S) :
      /\ vec' = [vec EXCEPT ![d] = {c \in @ : c.id \notin {a.id : a \in added}} \cup added]
      /\ idx' = IF indexed THEN [idx EXCEPT ![q] = {e \in @ : e.id \notin ids} \cup entries]
                ELSE idx
  BY Zenon DEF Store
<1>11. flow # None /\ UNCHANGED running /\ added \subseteq S
  BY DEF Store, AllReplied, Parts
<1>3. running # None /\ (\E X : flow.batches \in Seq(Seq(X)))
      /\ chunks = ChunkWithHierarchy(flow.doc.id, flow.doc.body, Cut(running))
  BY <1>1, <1>11 DEF Flowing
<1>4. d \in Dirs /\ q \in Places
  BY <1>1, <1>3 DEF Typed, Dirs, Places
<1>5. IsFiniteSet(S)
  <2>1. \E n \in Nat : DOMAIN chunks = 1..n
    <3>1. PICK X : flow.batches \in Seq(Seq(X))
      BY <1>3
    <3>2. chunks \in Seq(X)
      <4> DEFINE b == flow.batches
      <4>1. b \in Seq(Seq(X)) /\ <<>> \in Seq(X)
        BY <3>1
      <4> HIDE DEF b
      <4>2. FlattenSeq(b) \in Seq(X)
        BY <4>1, FlattenOfAppend
      <4> QED
        BY <4>2 DEF b
    <3> HIDE DEF chunks
    <3> QED
      BY <3>2
  <2>2. IsFiniteSet(DOMAIN chunks)
    BY <2>1, FS_Interval
  <2> DEFINE f == [k \in DOMAIN chunks |-> meta(k)]
  <2>3. DOMAIN f = DOMAIN chunks /\ {f[k] : k \in DOMAIN chunks} = S
    OBVIOUS
  <2> HIDE DEF f, S, chunks
  <2> QED
    BY <2>2, <2>3, FiniteImage
<1>6. IsFiniteSet(entries)
  <2> DEFINE f == [c \in S |-> [id |-> c.id, tags |-> c.tags]]
  <2>1. DOMAIN f = S /\ {f[c] : c \in S} = entries
    OBVIOUS
  <2> HIDE DEF f, S, entries
  <2> QED
    BY <1>5, <2>1, FiniteImage
<1> HIDE DEF S, entries, ids
<1> DEFINE aids == {a.id : a \in added}
<1> HIDE DEF aids
<1>7. IsFiniteSet({c \in vec[d] : c.id \notin aids} \cup added)
  <2>1. IsFiniteSet(vec[d])
    BY <1>4 DEF Finite
  <2>2. IsFiniteSet({c \in vec[d] : c.id \notin aids}) /\ IsFiniteSet(added)
    BY <1>5, <1>11, <2>1, FS_Subset
  <2> QED
    BY <2>2, FS_Union
<1>8. IsFiniteSet({e \in idx[q] : e.id \notin ids} \cup entries)
  <2>1. IsFiniteSet(idx[q])
    BY <1>3 DEF Finite, Indexed
  <2>2. IsFiniteSet({e \in idx[q] : e.id \notin ids})
    BY <2>1, FS_Subset
  <2> QED
    BY <1>6, <2>2, FS_Union
<1>9. \A p \in Dirs : IsFiniteSet(vec'[p])
  <2>1. \A p \in Dirs : vec'[p] = IF p = d THEN {c \in vec[d] : c.id \notin aids} \cup added
                                  ELSE vec[p]
    BY <1>1, <1>2 DEF Typed, aids
  <2> QED
    BY <1>7, <2>1 DEF Finite
<1>10. /\ \A p \in Places : IsOpen(idx'[p]) => IsFiniteSet(idx'[p])
       /\ IsFiniteSet(idx'[q])
  <2>1. CASE indexed
    <3>1. \A p \in Places : idx'[p] = IF p = q THEN {e \in idx[q] : e.id \notin ids} \cup entries
                                       ELSE idx[p]
      BY <1>1, <1>2, <2>1 DEF Typed
    <3> QED
      BY <1>4, <1>8, <3>1 DEF Finite
  <2>2. CASE ~indexed
    BY <1>2, <1>3, <2>2 DEF Finite, Indexed
  <2> QED
    BY <2>1, <2>2
<1> QED
  BY <1>9, <1>10, <1>11 DEF Finite, Indexed

LEMMA FiniteKeeps ==
    ASSUME StepInv, Finite, [Next]_vars
    PROVE  Finite'
<1>1. Typed
  BY DEF StepInv
<1>2. ASSUME NEW d, Start(d) \/ VectorReset(d) \/ Doctor(d)
      PROVE  Finite'
  <2>1. Doctor(d) => Finite'
    BY FiniteStays DEF Doctor, Asked, contents
  <2> QED
    BY <1>1, <1>2, <2>1, FiniteStart, FiniteVectorReset
<1>3. CASE Stop
  BY <1>3, FiniteStays DEF Stop, contents
<1>4. ASSUME NEW p \in Places, NEW how \in {None, Corrupt}, LoseIndex(p, how)
      PROVE  Finite'
  BY <1>1, <1>4, FiniteLoseIndex
<1>5. ASSUME NEW f \in Submitted, IngestNothing(f) \/ IngestUnpublished(f) \/ IngestDocument(f)
      PROVE  Finite'
  <2>1. IngestNothing(f) => Finite'
    BY FiniteStays DEF IngestNothing, contents
  <2>2. IngestUnpublished(f) => Finite'
    <3> SUFFICES ASSUME IngestUnpublished(f) PROVE Finite'
      OBVIOUS
    <3>1. running # None /\ UNCHANGED running
          /\ \E rest \in Remains(f.uid) : Without(f.uid, rest)
      BY DEF IngestUnpublished, Accepted, Free
    <3> QED
      BY <1>1, <3>1, WithoutDeletes, FiniteDeletes
  <2>3. IngestDocument(f) => Finite'
    <3> SUFFICES ASSUME IngestDocument(f) PROVE Finite'
      OBVIOUS
    <3> DEFINE doc == ParseDocument(f).id
    <3>1. running # None /\ UNCHANGED running
      BY DEF IngestDocument, Accepted, Free
    <3>2. \E rest \in Remains(doc) : Clear(doc, rest)
      BY DEF IngestDocument
    <3> HIDE DEF doc
    <3> QED
      BY <1>1, <3>1, <3>2, ClearDeletes, FiniteDeletes
  <2> QED
    BY <1>5, <2>1, <2>2, <2>3
<1>6. ASSUME NEW i, NEW reply \in Asks.lengths \cup {Refused}, EmbedReply(i, reply)
      PROVE  Finite'
  BY <1>6, FiniteStays DEF EmbedReply, contents
<1>7. CASE EmbeddingFails
  BY <1>7, FiniteStays DEF EmbeddingFails, contents
<1>8. ASSUME NEW indexed, Store(indexed)
      PROVE  Finite'
  BY <1>8, FiniteStore
<1>9. ASSUME NEW doc, DeleteDocument(doc) \/ PruneNext(doc)
      PROVE  Finite'
  <2>1. running # None
    BY <1>9 DEF StepInv, Pruning, DeleteDocument, PruneNext
  <2>2. UNCHANGED running /\ (UNCHANGED contents \/ \E rest \in Remains(doc) : Without(doc, rest))
    BY <1>9, Zenon DEF DeleteDocument, PruneNext
  <2>3. CASE UNCHANGED contents
    BY <2>2, <2>3, FiniteStays DEF contents
  <2>4. ASSUME NEW rest \in Remains(doc), Without(doc, rest)
        PROVE  Finite'
    BY <1>1, <2>1, <2>2, <2>4, WithoutDeletes, FiniteDeletes
  <2> QED
    BY <2>2, <2>3, <2>4
<1>10. ASSUME NEW r, PruneDocuments(r)
       PROVE  Finite'
  BY <1>10, FiniteStays DEF PruneDocuments, contents
<1>11. CASE PruneReturns
  BY <1>11, FiniteStays DEF PruneReturns, contents
<1>12. ASSUME NEW r, NEW len, Search(r, len)
       PROVE  Finite'
  BY <1>12, FiniteStays DEF Search, Asked, contents
<1>13. CASE Answered
  BY <1>13, FiniteStays DEF Answered, contents
<1>14. CASE UNCHANGED vars
  BY <1>14, FiniteStays DEF vars, contents
<1>15. CASE OperatorNext
  BY <1>2, <1>3, <1>4, <1>15, Zenon DEF OperatorNext
<1>16. CASE IngestNext
  BY <1>5, <1>6, <1>7, <1>8, <1>16, Zenon DEF IngestNext
<1>17. CASE DeleteNext
  BY <1>9, <1>10, <1>11, <1>17, Zenon DEF DeleteNext
<1> QED
  BY <1>12, <1>13, <1>14, <1>15, <1>16, <1>17, Zenon DEF Next

\* What the search just answered was given to fuse, and what it made of it.
Lost == ~answer.r.embeds \/ VectorFails(Here, answer.r.filter, answer.len)
Wide == Limit(answer.r.limit) * Headroom
Near == IF Lost THEN <<>> ELSE VectorSearch(Here, answer.r.query, Wide, answer.r.filter)
Matches == KeywordSearch(Indexed, answer.r.query, Wide, answer.r.filter)
Hits == [i \in DOMAIN answer.out.hits |-> answer.out.hits[i].id]

IsHybrid == /\ answer # None /\ answer.of = "search" /\ answer.out.ok
            /\ answer.r.mode = "hybrid" /\ answer.r.filter.kinds = {}
HitsAreFused == IsHybrid => Fused(Hits, Near, Matches, Limit(answer.r.limit), Lost)

LEMMA FusedSays ==
    ASSUME HitsAreFused PROVE FusedRanking
  BY Zenon DEF HitsAreFused, IsHybrid, FusedRanking, Fused, Ahead, Hits, Near, Matches, Lost, Wide

LEMMA SearchFuses ==
    ASSUME StepInv, Finite, NEW r, NEW len, Search(r, len)
    PROVE  HitsAreFused'
<1> DEFINE out == SearchHybrid(Here, Indexed, r, len)
<1>1. Typed
  BY DEF StepInv
<1>2. /\ UNCHANGED <<running, vec, idx>> /\ running # None /\ r \in Asks.searches
      /\ answer' = [of |-> "search", r |-> r, len |-> len, out |-> out]
  BY DEF Search, Asked, contents
<1>3. out = SearchHybrid(Here, Indexed, r, len)
  OBVIOUS
<1> HIDE DEF out
<1>4. answer'.of = "search" /\ answer'.r = r /\ answer'.len = len /\ answer'.out = out
  BY <1>2
<1>5. Here' = Here /\ Indexed' = Indexed
  BY <1>2 DEF Here, Indexed
<1>6. IsFiniteSet(Here) /\ IsFiniteSet(Indexed)
  <2>1. Dir(running) \in Dirs
    BY <1>1, <1>2 DEF Typed, Dirs
  <2> QED
    BY <1>2, <2>1 DEF Finite, Here
<1>7. /\ r.limit \in Int
      /\ r.query.near \in Seq(Range(r.query.near))
      /\ r.query.terms \in Seq(Range(r.query.terms))
  BY <1>1, <1>2, LibraryAssumption DEF Typed, Bounded, Asks
<1> DEFINE wide == Limit(r.limit) * Headroom
           lost == ~r.embeds \/ VectorFails(Here, r.filter, len)
           near == IF lost THEN <<>> ELSE VectorSearch(Here, r.query, wide, r.filter)
           found == KeywordSearch(Indexed, r.query, wide, r.filter)
           hits == [i \in DOMAIN out.hits |-> out.hits[i].id]
<1>8. ASSUME out.ok, r.mode = "hybrid", r.filter.kinds = {}
      PROVE  Fused(hits, near, found, Limit(r.limit), lost)
  <2>1. /\ wide = Limit(r.limit) * Headroom
        /\ lost = (~r.embeds \/ VectorFails(Here, r.filter, len))
        /\ near = IF lost THEN <<>> ELSE VectorSearch(Here, r.query, wide, r.filter)
        /\ found = KeywordSearch(Indexed, r.query, wide, r.filter)
    OBVIOUS
  <2> HIDE DEF wide, lost, near, found
  <2> QED
    BY <1>3, <1>6, <1>7, <1>8, <2>1, HybridIsFused
<1>9. Lost' = lost /\ Wide' = wide
  BY <1>4, <1>5 DEF Lost, Wide
<1>10. Near' = near /\ Matches' = found
  BY <1>4, <1>5, <1>9, Zenon DEF Near, Matches
<1>11. Hits' = hits
  BY <1>4, Zenon DEF Hits
<1> HIDE DEF wide, lost, near, found, hits
<1>12. HitsAreFused'
  <2> SUFFICES ASSUME IsHybrid'
               PROVE  Fused(Hits', Near', Matches', Limit(answer'.r.limit), Lost')
    BY DEF HitsAreFused
  <2>1. out.ok /\ r.mode = "hybrid" /\ r.filter.kinds = {}
    BY <1>4 DEF IsHybrid
  <2> QED
    BY <1>4, <1>8, <1>9, <1>10, <1>11, <2>1
<1> QED
  BY <1>12

LEMMA FusedKeeps ==
    ASSUME StepInv, Finite, HitsAreFused, [Next]_vars
    PROVE  HitsAreFused'
<1>1. ASSUME NEW r, NEW len, Search(r, len)
      PROVE  HitsAreFused'
  BY <1>1, SearchFuses
<1>2. CASE OperatorNext \/ IngestNext \/ DeleteNext \/ Answered
  <2>1. Request \/ Reply => answer' = None
    BY DEF Request, Reply
  <2>2. ASSUME NEW d, Start(d) \/ VectorReset(d) PROVE answer' = None
    BY <2>1, <2>2 DEF Start, VectorReset
  <2>3. ASSUME NEW d, Doctor(d) PROVE answer'.of = "doctor"
    BY <2>3 DEF Doctor
  <2>4. Stop \/ EmbeddingFails \/ PruneReturns \/ Answered => answer' = None
    BY <2>1 DEF Stop, EmbeddingFails, PruneReturns, Answered
  <2>5. ASSUME NEW p, NEW how, LoseIndex(p, how) PROVE answer' = None
    BY <2>1, <2>5 DEF LoseIndex
  <2>6. ASSUME NEW f, IngestNothing(f) \/ IngestUnpublished(f) \/ IngestDocument(f)
        PROVE  answer' = None
    BY <2>1, <2>6 DEF IngestNothing, IngestUnpublished, IngestDocument
  <2>7. ASSUME NEW i, NEW reply, EmbedReply(i, reply) PROVE answer' = None
    BY <2>1, <2>7 DEF EmbedReply
  <2>8. ASSUME NEW x, Store(x) \/ DeleteDocument(x) \/ PruneDocuments(x) \/ PruneNext(x)
        PROVE  answer' = None
    BY <2>1, <2>8 DEF Store, DeleteDocument, PruneDocuments, PruneNext
  <2>9. answer' = None \/ answer'.of = "doctor"
    <3>1. CASE OperatorNext
      BY <3>1, <2>2, <2>3, <2>4, <2>5, Zenon DEF OperatorNext
    <3>2. CASE IngestNext
      BY <3>2, <2>4, <2>6, <2>7, <2>8, Zenon DEF IngestNext
    <3>3. CASE DeleteNext
      BY <3>3, <2>4, <2>8, Zenon DEF DeleteNext
    <3> QED
      BY <1>2, <2>4, <3>1, <3>2, <3>3
  <2> QED
    BY <2>9 DEF HitsAreFused, IsHybrid
<1>3. CASE UNCHANGED vars
  <2>1. UNCHANGED <<running, vec, idx, answer>>
    BY <1>3 DEF vars, contents
  <2>2. Here' = Here /\ Indexed' = Indexed
    BY <2>1 DEF Here, Indexed
  <2>3. Lost' = Lost /\ Wide' = Wide
    BY <2>1, <2>2 DEF Lost, Wide
  <2>4. Near' = Near /\ Matches' = Matches /\ Hits' = Hits /\ (IsHybrid' <=> IsHybrid)
    BY <2>1, <2>2, <2>3, Zenon DEF Near, Matches, Hits, IsHybrid
  <2> QED
    BY <2>1, <2>3, <2>4 DEF HitsAreFused
<1> QED
  BY <1>1, <1>2, <1>3, Zenon DEF Next

-----------------------------------------------------------------------------
LEMMA LibraryInvariance ==
    Spec => []StepInv
<1>1. Init => StepInv
  BY InitStepInv
<1>2. StepInv /\ [Next]_vars => StepInv'
  BY NextStepInv
<1> QED
  BY <1>1, <1>2, PTL DEF Spec

\* In any behaviour, whatever the processes that run over the same directories
\* are configured with and wherever their writes and deletes are cut short, what
\* is stored of a document comes from one version of it, cut with the settings
\* of one process; and it is all of that version unless a write or a delete of
\* the document did not go through (operations.go:58-125).
THEOREM VersionsAreWhole ==
    Spec => []LibraryInv
<1>1. StepInv => LibraryInv
  BY StepInvSays
<1> QED
  BY <1>1, LibraryInvariance, PTL

\* However many the batches, and in whatever order they are answered, every
\* chunk is stored with the vector of its own text (openai_embeddings.go:198-262).
THEOREM VectorsFindTheirTexts ==
    Spec => []OwnVectors
<1>1. StepInv => OwnVectors
  BY StepInvSays
<1> QED
  BY <1>1, LibraryInvariance, PTL

\* A search is refused for one of the reasons that the operator can act on
\* (db.go:520-560, hybrid.go:117-262).
THEOREM RefusalsHaveReasons ==
    Spec => []FailsForAReason
<1>1. StepInv => FailsForAReason
  BY StepInvSays
<1> QED
  BY <1>1, LibraryInvariance, PTL

\* A hybrid search answers with as many of what both rankings have as the limit
\* lets, each once, in an order that neither side objects to; and without the
\* collection it answers as the index ranks (hybrid.go:60-107, 203-262).
THEOREM RankingsAreFused ==
    Spec => []FusedRanking
<1> DEFINE Inv == StepInv /\ Finite /\ HitsAreFused
<1>1. Init => Inv
  <2> SUFFICES ASSUME Init PROVE Inv
    OBVIOUS
  <2>1. /\ running = None /\ answer = None
        /\ \A p \in Dirs : vec[p] = {}
        /\ \A q \in Places : idx[q] = None
    BY DEF Init
  <2>2. IsFiniteSet({})
    BY FS_EmptySet
  <2>3. Finite
    BY <2>1, <2>2 DEF Finite, IsOpen
  <2>4. HitsAreFused
    BY <2>1 DEF HitsAreFused, IsHybrid
  <2> QED
    BY <2>3, <2>4, InitStepInv
<1>2. Inv /\ [Next]_vars => Inv'
  BY NextStepInv, FiniteKeeps, FusedKeeps
<1>3. Inv => FusedRanking
  BY FusedSays
<1> QED
  BY <1>1, <1>2, <1>3, PTL DEF Spec

\* Every line of a document that is wholly stored is in one of its chunks, but for
\* the sections that are too short, and every stored chunk quotes the lines that
\* it names, for documents of any length (chunker.go:80-198).
THEOREM NothingIsLeftOut ==
    Spec => []ChunksCover
<1>1. StepInv => ChunksCover
  BY StepInvSays
<1> QED
  BY <1>1, LibraryInvariance, PTL

\* Of a document that is wholly stored, the parent of a chunk is stored, and is
\* the nearest one above it (chunker.go:288-321).
THEOREM ParentsAreStored ==
    Spec => []ParentsLead
<1>1. StepInv => ParentsLead
  BY StepInvSays
<1> QED
  BY <1>1, LibraryInvariance, PTL

\* A pruning that succeeds has deleted what it was asked to delete and has left
\* every other document as it was, but for what others have written or deleted
\* meanwhile (huma_documents.go:205-252).
THEOREM PruningLeavesTheRest ==
    Spec => []PruneIsExact
<1>1. StepInv => PruneIsExact
  BY StepInvSays
<1> QED
  BY <1>1, LibraryInvariance, PTL

\* Doctor tells a directory whose chunks all have the configured dimension from
\* one where some have not (root.go:146-203).
THEOREM DoctorTellsDimensions ==
    Spec => []DoctorIsRight
<1>1. StepInv => DoctorIsRight
  BY StepInvSays
<1> QED
  BY <1>1, LibraryInvariance, PTL

=============================================================================
