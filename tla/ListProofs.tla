----------------------------- MODULE ListProofs -----------------------------
(***************************************************************************)
(* What the other proofs need of numbers and sequences, and of functions   *)
(* that are defined by recursion over them: such a function exists, and    *)
(* what its steps keep holds of its values.  Each is shown from a least    *)
(* counterexample.                                                         *)
(***************************************************************************)
EXTENDS Lists, FiniteSetsExt, SequenceTheorems, WellFoundedInduction, TLAPS

LEMMA HasLess ==
    \E R : /\ IsWellFoundedOn(R, Nat)
           /\ \A x, y \in Nat : x < y => <<x, y>> \in R
<1>1. IsWellFoundedOn(OpToRel(<, Nat), Nat)
  BY NatLessThanWellFounded, Zenon
<1>2. \A x, y \in Nat : x < y => <<x, y>> \in OpToRel(<, Nat)
  BY Zenon DEF OpToRel
<1> QED
  BY <1>1, <1>2, Zenon

LEMMA NatMin ==
    ASSUME NEW T, T \subseteq Nat, T # {}
    PROVE  \E x \in T : \A y \in T : x <= y
<1>1. PICK R : /\ IsWellFoundedOn(R, Nat)
               /\ \A x, y \in Nat : x < y => <<x, y>> \in R
  BY HasLess
<1>2. IsWellFoundedOn(R, Nat)
  BY <1>1
<1>3. \E x \in T : \A y \in T : ~ (<<y, x>> \in R)
  BY <1>2, WFMin, Zenon
<1>4. PICK x \in T : \A y \in T : ~ (<<y, x>> \in R)
  BY <1>3
<1>5. ASSUME NEW y \in T PROVE x <= y
  <2>1. x \in Nat /\ y \in Nat
    OBVIOUS
  <2>2. y < x => <<y, x>> \in R
    BY <1>1, <2>1
  <2>3. ~(y < x)
    BY <1>4, <2>2
  <2> QED
    BY <2>1, <2>3
<1> QED
  BY <1>5

Recurs(f, n, base, step) ==
    /\ f[0] = base
    /\ \A i \in 1..n : f[i] = step[i, f[i - 1]]

LEMMA RecursStarts ==
    ASSUME NEW V, NEW base \in V, NEW step
    PROVE  \E f \in [0..0 -> V] : Recurs(f, 0, base, step)
<1> DEFINE g == [i \in 0..0 |-> base]
<1>1. g \in [0..0 -> V] /\ g[0] = base
  OBVIOUS
<1>2. 1..0 = {}
  OBVIOUS
<1> HIDE DEF g
<1>3. Recurs(g, 0, base, step)
  BY <1>1, <1>2 DEF Recurs
<1> QED
  BY <1>1, <1>3

LEMMA RecursGoesOn ==
    ASSUME NEW V, NEW base \in V, NEW n \in Nat, NEW step \in [(1..n) \X V -> V],
           NEW k \in 1..n, NEW f \in [0..(k - 1) -> V], Recurs(f, k - 1, base, step)
    PROVE  \E g \in [0..k -> V] : Recurs(g, k, base, step)
<1> DEFINE v == step[k, f[k - 1]]
           g == [i \in 0..k |-> IF i < k THEN f[i] ELSE v]
<1>1. v \in V
  <2>1. f[k - 1] \in V
    OBVIOUS
  <2>2. <<k, f[k - 1]>> \in (1..n) \X V
    BY <2>1
  <2> QED
    BY <2>2
<1>2. v = step[k, f[k - 1]]
  OBVIOUS
<1> HIDE DEF v
<1>3. g \in [0..k -> V]
  BY <1>1
<1>4. \A i \in 0..(k - 1) : g[i] = f[i]
  OBVIOUS
<1>5. g[k] = v
  OBVIOUS
<1> HIDE DEF g
<1>6. g[0] = base
  <2>1. 0 \in 0..(k - 1)
    OBVIOUS
  <2> QED
    BY <2>1, <1>4 DEF Recurs
<1>7. ASSUME NEW i \in 1..k PROVE g[i] = step[i, g[i - 1]]
  <2>1. i - 1 \in 0..(k - 1)
    OBVIOUS
  <2>2. g[i - 1] = f[i - 1]
    BY <2>1, <1>4
  <2>3. CASE i = k
    BY <2>2, <2>3, <1>2, <1>5
  <2>4. CASE i # k
    <3>1. i \in 1..(k - 1) /\ i \in 0..(k - 1)
      BY <2>4
    <3>2. f[i] = step[i, f[i - 1]]
      BY <3>1 DEF Recurs
    <3> QED
      BY <3>1, <3>2, <2>2, <1>4
  <2> QED
    BY <2>3, <2>4
<1>8. Recurs(g, k, base, step)
  BY <1>6, <1>7 DEF Recurs
<1> QED
  BY <1>3, <1>8

LEMMA RecursiveFunction ==
    ASSUME NEW V, NEW base \in V, NEW n \in Nat, NEW step \in [(1..n) \X V -> V]
    PROVE  \E f \in [0..n -> V] : Recurs(f, n, base, step)
<1> DEFINE Good(k) == \E f \in [0..k -> V] : Recurs(f, k, base, step)
           Bad == {k \in 0..n : ~ Good(k)}
<1>1. Good(0)
  BY RecursStarts
<1>2. \A k \in 1..n : Good(k - 1) => Good(k)
  BY RecursGoesOn
<1> HIDE DEF Good
<1>3. SUFFICES ASSUME Bad # {} PROVE FALSE
  <2>1. n \in 0..n
    OBVIOUS
  <2>2. Good(n)
    BY <1>3, <2>1
  <2> QED
    BY <2>2 DEF Good
<1>4. Bad \subseteq Nat
  OBVIOUS
<1>5. PICK k \in Bad : \A j \in Bad : k <= j
  <2> HIDE DEF Bad
  <2> QED
    BY <1>3, <1>4, NatMin
<1>6. k \in 1..n /\ k - 1 \in 0..n
  BY <1>1
<1>7. k - 1 \notin Bad
  BY <1>5, <1>6
<1> QED
  BY <1>2, <1>6, <1>7


Filters(G, s, T) ==
    /\ G[0] = <<>>
    /\ \A i \in 1..Len(s) : G[i] = IF s[i] \in T THEN Append(G[i - 1], s[i]) ELSE G[i - 1]

LEMMA FilterExists ==
    ASSUME NEW X, NEW s \in Seq(X), NEW T
    PROVE  \E G \in [0..Len(s) -> Seq({x \in X : x \in T})] : Filters(G, s, T)
<1> DEFINE V == Seq({x \in X : x \in T})
           step == [p \in (1..Len(s)) \X V |->
                        IF s[p[1]] \in T THEN Append(p[2], s[p[1]]) ELSE p[2]]
<1>1. <<>> \in V /\ Len(s) \in Nat
  OBVIOUS
<1>2. \A i \in 1..Len(s), v \in V : s[i] \in T => Append(v, s[i]) \in V
  OBVIOUS
<1>3. \A i \in 1..Len(s), v \in V :
         step[i, v] = IF s[i] \in T THEN Append(v, s[i]) ELSE v
  OBVIOUS
<1>4. step \in [(1..Len(s)) \X V -> V]
  BY <1>2
<1> HIDE DEF step, V
<1>5. PICK G \in [0..Len(s) -> V] : Recurs(G, Len(s), <<>>, step)
  BY <1>1, <1>4, RecursiveFunction
<1>6. ASSUME NEW i \in 1..Len(s)
      PROVE  G[i] = IF s[i] \in T THEN Append(G[i - 1], s[i]) ELSE G[i - 1]
  <2>1. i - 1 \in 0..Len(s)
    BY <1>1
  <2>2. G[i - 1] \in V
    BY <2>1
  <2>3. G[i] = step[i, G[i - 1]]
    BY <1>5 DEF Recurs
  <2> QED
    BY <2>2, <2>3, <1>3
<1>7. G[0] = <<>>
  BY <1>5 DEF Recurs
<1> QED
  BY <1>6, <1>7 DEF Filters, V

LEMMA FilterUnique ==
    ASSUME NEW X, NEW s \in Seq(X), NEW T, NEW G, NEW H, Filters(G, s, T), Filters(H, s, T)
    PROVE  \A i \in 0..Len(s) : G[i] = H[i]
<1> DEFINE Bad == {i \in 0..Len(s) : G[i] # H[i]}
<1>1. SUFFICES ASSUME Bad # {} PROVE FALSE
  OBVIOUS
<1>2. Bad \subseteq Nat
  OBVIOUS
<1>3. PICK k \in Bad : \A j \in Bad : k <= j
  <2> HIDE DEF Bad
  <2> QED
    BY <1>1, <1>2, NatMin
<1>4. k # 0
  BY DEF Filters
<1>5. k \in 1..Len(s) /\ k - 1 \in 0..Len(s) /\ ~(k <= k - 1)
  BY <1>4
<1>6. G[k - 1] = H[k - 1]
  BY <1>3, <1>5
<1>7. G[k] = H[k]
  BY <1>5, <1>6 DEF Filters
<1> QED
  BY <1>7

LEMMA OnlyValue ==
    ASSUME NEW X, NEW s \in Seq(X), NEW T, NEW G \in [0..Len(s) -> Seq(X)], Filters(G, s, T)
    PROVE  Only(s, T) = G[Len(s)]
<1> DEFINE E(f) == f = [i \in 0..Len(s) |->
                    IF i = 0 THEN <<>>
                    ELSE IF s[i] \in T THEN Append(f[i-1], s[i]) ELSE f[i-1]]
           F == CHOOSE f : E(f)
<1>1. Only(s, T) = F[Len(s)]
  BY Zenon DEF Only
<1>2. E(G)
  <2>1. ASSUME NEW i \in 0..Len(s)
        PROVE  G[i] = IF i = 0 THEN <<>>
                      ELSE IF s[i] \in T THEN Append(G[i-1], s[i]) ELSE G[i-1]
    <3>1. CASE i = 0
      BY <3>1 DEF Filters
    <3>2. CASE i # 0
      <4>1. i \in 1..Len(s)
        BY <3>2
      <4> QED
        BY <3>2, <4>1 DEF Filters
    <3> QED
      BY <3>1, <3>2
  <2>2. G = [i \in 0..Len(s) |-> G[i]]
    OBVIOUS
  <2> QED
    BY <2>1, <2>2
<1>3. E(F)
  <2> HIDE DEF E
  <2> QED
    BY <1>2
<1>4. Filters(F, s, T)
  <2> HIDE DEF F
  <2>1. Len(s) \in Nat
    OBVIOUS
  <2>2. \A i \in 0..Len(s) : F[i] = IF i = 0 THEN <<>>
                    ELSE IF s[i] \in T THEN Append(F[i-1], s[i]) ELSE F[i-1]
    BY <1>3
  <2> HIDE DEF E
  <2>3. F[0] = <<>>
    BY <2>1, <2>2
  <2>4. \A i \in 1..Len(s) : i \in 0..Len(s) /\ i # 0
    BY <2>1
  <2>5. \A i \in 1..Len(s) : F[i] = IF s[i] \in T THEN Append(F[i-1], s[i]) ELSE F[i-1]
    BY <2>2, <2>4
  <2> QED
    BY <2>3, <2>5 DEF Filters
<1> HIDE DEF F
<1> QED
  <2>1. Len(s) \in 0..Len(s)
    OBVIOUS
  <2> QED
    BY <1>1, <1>4, <2>1, FilterUnique

\* What Only returns: of the empty sequence, and of one with an element added.
LEMMA OnlyOfNone ==
    ASSUME NEW T
    PROVE  Only(<<>>, T) = <<>>
<1>1. <<>> \in Seq({}) /\ Len(<<>>) = 0
  OBVIOUS
<1>2. PICK G \in [0..Len(<<>>) -> Seq({})] : Filters(G, <<>>, T)
  <2>1. {x \in {} : x \in T} = {}
    OBVIOUS
  <2> QED
    BY <1>1, <2>1, FilterExists, Zenon
<1>3. Only(<<>>, T) = G[Len(<<>>)]
  BY <1>1, <1>2, OnlyValue, Zenon
<1> QED
  BY <1>1, <1>2, <1>3 DEF Filters

LEMMA OnlyOfAppend ==
    ASSUME NEW X, NEW s \in Seq(X), NEW x \in X, NEW T
    PROVE  Only(Append(s, x), T) = IF x \in T THEN Append(Only(s, T), x) ELSE Only(s, T)
<1> DEFINE sx == Append(s, x)
<1>1. /\ sx \in Seq(X) /\ Len(sx) = Len(s) + 1 /\ Len(s) \in Nat
      /\ \A i \in 1..Len(s) : sx[i] = s[i]
      /\ sx[Len(sx)] = x
  OBVIOUS
<1> HIDE DEF sx
<1>2. PICK G \in [0..Len(sx) -> Seq(X)] : Filters(G, sx, T)
  <2>1. PICK F \in [0..Len(sx) -> Seq({y \in X : y \in T})] : Filters(F, sx, T)
    BY <1>1, FilterExists
  <2>2. Seq({y \in X : y \in T}) \subseteq Seq(X)
    OBVIOUS
  <2>3. F \in [0..Len(sx) -> Seq(X)]
    BY <2>2
  <2> QED
    BY <2>1, <2>3
<1>3. Only(sx, T) = G[Len(sx)]
  BY <1>1, <1>2, OnlyValue
<1> DEFINE H == [i \in 0..Len(s) |-> G[i]]
<1>4. H \in [0..Len(s) -> Seq(X)]
  BY <1>1
<1>5. \A i \in 0..Len(s) : H[i] = G[i]
  OBVIOUS
<1> HIDE DEF H
<1>6. Filters(H, s, T)
  <2>1. 0 \in 0..Len(s)
    BY <1>1
  <2>2. \A i \in 1..Len(s) : /\ i \in 0..Len(s) /\ i - 1 \in 0..Len(s)
                             /\ i \in 1..Len(sx)
    BY <1>1
  <2> QED
    BY <1>1, <1>2, <1>5, <2>1, <2>2 DEF Filters
<1>7. Only(s, T) = G[Len(s)]
  <2>1. Only(s, T) = H[Len(s)]
    BY <1>4, <1>6, OnlyValue
  <2> QED
    BY <2>1, <1>1, <1>5
<1>8. G[Len(sx)] = IF x \in T THEN Append(G[Len(s)], x) ELSE G[Len(s)]
  <2>1. Len(sx) \in 1..Len(sx) /\ Len(sx) - 1 = Len(s)
    BY <1>1
  <2> QED
    BY <1>1, <1>2, <2>1 DEF Filters
<1> QED
  BY <1>3, <1>7, <1>8 DEF sx

LEMMA OnlyType ==
    ASSUME NEW X, NEW s \in Seq(X), NEW T
    PROVE  Only(s, T) \in Seq({x \in X : x \in T})
<1> DEFINE V == Seq({x \in X : x \in T})
<1>1. PICK G \in [0..Len(s) -> V] : Filters(G, s, T)
  BY FilterExists
<1>2. V \subseteq Seq(X) /\ Len(s) \in 0..Len(s)
  OBVIOUS
<1> HIDE DEF V
<1>3. G \in [0..Len(s) -> Seq(X)]
  BY <1>2
<1>4. Only(s, T) = G[Len(s)]
  BY <1>1, <1>3, OnlyValue
<1> QED
  BY <1>2, <1>4 DEF V

\* Only the elements of the sequence matter.
LEMMA OnlyDependsOn ==
    ASSUME NEW X, NEW s \in Seq(X), NEW T, NEW U,
           \A i \in 1..Len(s) : s[i] \in T <=> s[i] \in U
    PROVE  Only(s, T) = Only(s, U)
<1>1. PICK G \in [0..Len(s) -> Seq({x \in X : x \in T})] : Filters(G, s, T)
  BY FilterExists
<1>2. Seq({x \in X : x \in T}) \subseteq Seq(X)
  OBVIOUS
<1>3. G \in [0..Len(s) -> Seq(X)]
  BY <1>2
<1>4. Filters(G, s, U)
  BY <1>1 DEF Filters
<1> QED
  <2>1. Only(s, T) = G[Len(s)]
    BY <1>1, <1>3, OnlyValue
  <2>2. Only(s, U) = G[Len(s)]
    BY <1>3, <1>4, OnlyValue
  <2> QED
    BY <2>1, <2>2

\* Induction over sequences, for a set of them.
LEMMA SequenceInduction ==
    ASSUME NEW X, NEW P, P \subseteq Seq(X), <<>> \in P,
           \A s \in P, x \in X : Append(s, x) \in P
    PROVE  P = Seq(X)
<1> DEFINE Lengths == {Len(s) : s \in Seq(X) \ P}
<1>1. SUFFICES ASSUME Seq(X) \ P # {} PROVE FALSE
  OBVIOUS
<1>2. Lengths \subseteq Nat
  <2>1. \A s \in Seq(X) : Len(s) \in Nat
    OBVIOUS
  <2> QED
    BY <2>1
<1>3. Lengths # {}
  BY <1>1
<1>4. PICK n \in Lengths : \A k \in Lengths : n <= k
  <2> HIDE DEF Lengths
  <2> QED
    BY <1>2, <1>3, NatMin
<1>5. PICK s \in Seq(X) \ P : Len(s) = n
  OBVIOUS
<1>6. PICK front \in Seq(X), e \in X : s = Append(front, e)
  BY SequenceEmptyOrAppend
<1>7. Len(s) = Len(front) + 1 /\ Len(front) \in Nat
  BY <1>6
<1>8. front \notin P
  BY <1>6
<1>9. Len(front) \in Lengths
  BY <1>8
<1>10. Len(s) <= Len(front)
  BY <1>4, <1>5, <1>9
<1> QED
  BY <1>7, <1>10

LEMMA OnlyOfConcat ==
    ASSUME NEW X, NEW s \in Seq(X), NEW t \in Seq(X), NEW T
    PROVE  Only(s \o t, T) = Only(s, T) \o Only(t, T)
<1> DEFINE P == {u \in Seq(X) : Only(s \o u, T) = Only(s, T) \o Only(u, T)}
<1>1. Only(s, T) \in Seq(X)
  <2>1. Seq({x \in X : x \in T}) \subseteq Seq(X)
    OBVIOUS
  <2> QED
    BY <2>1, OnlyType
<1>2. <<>> \in P
  <2>1. s \o <<>> = s /\ <<>> \in Seq(X) /\ Only(s, T) \o <<>> = Only(s, T)
    BY <1>1
  <2> QED
    BY <2>1, OnlyOfNone
<1>3. ASSUME NEW u \in P, NEW x \in X PROVE Append(u, x) \in P
  <2>1. u \in Seq(X) /\ Append(u, x) \in Seq(X) /\ s \o u \in Seq(X)
    OBVIOUS
  <2>2. Only(u, T) \in Seq(X)
    <3>1. Seq({y \in X : y \in T}) \subseteq Seq(X)
      OBVIOUS
    <3> QED
      BY <2>1, <3>1, OnlyType
  <2>3. s \o Append(u, x) = Append(s \o u, x)
    BY <2>1
  <2>4. Only(Append(s \o u, x), T) = IF x \in T THEN Append(Only(s \o u, T), x) ELSE Only(s \o u, T)
    <3> DEFINE w == s \o u
    <3>1. w \in Seq(X)
      BY <2>1
    <3> HIDE DEF w, P
    <3>2. Only(Append(w, x), T) = IF x \in T THEN Append(Only(w, T), x) ELSE Only(w, T)
      BY <3>1, OnlyOfAppend
    <3> QED
      BY <3>2 DEF w
  <2>5. Only(Append(u, x), T) = IF x \in T THEN Append(Only(u, T), x) ELSE Only(u, T)
    BY <2>1, OnlyOfAppend
  <2>6. Only(s, T) \o Append(Only(u, T), x) = Append(Only(s, T) \o Only(u, T), x)
    BY <1>1, <2>2
  <2> QED
    BY <2>1, <2>3, <2>4, <2>5, <2>6
<1>4. P \subseteq Seq(X)
  OBVIOUS
<1>5. P = Seq(X)
  <2> HIDE DEF P
  <2> QED
    BY <1>2, <1>3, <1>4, SequenceInduction
<1> QED
  BY <1>5

LEMMA OnlyOfAll ==
    ASSUME NEW X, NEW s \in Seq(X), NEW T, X \subseteq T
    PROVE  Only(s, T) = s
<1> DEFINE P == {u \in Seq(X) : Only(u, T) = u}
<1>1. <<>> \in P
  BY OnlyOfNone
<1>2. ASSUME NEW u \in P, NEW x \in X PROVE Append(u, x) \in P
  <2>1. u \in Seq(X) /\ Append(u, x) \in Seq(X) /\ x \in T
    OBVIOUS
  <2>2. Only(Append(u, x), T) = Append(Only(u, T), x)
    BY <2>1, OnlyOfAppend
  <2> QED
    BY <2>1, <2>2
<1>3. P \subseteq Seq(X)
  OBVIOUS
<1>4. P = Seq(X)
  <2> HIDE DEF P
  <2> QED
    BY <1>1, <1>2, <1>3, SequenceInduction
<1> QED
  BY <1>4

\* What passes the test is there.
LEMMA OnlyKeeps ==
    ASSUME NEW X, NEW T, NEW s \in Seq(X), NEW k \in 1..Len(s), s[k] \in T
    PROVE  \E j \in 1..Len(Only(s, T)) : Only(s, T)[j] = s[k]
<1> DEFINE In(u, x) == \E j \in 1..Len(u) : u[j] = x
           P == {u \in Seq(X) : \A i \in 1..Len(u) : u[i] \in T => In(Only(u, T), u[i])}
<1>1. <<>> \in P
  OBVIOUS
<1>2. ASSUME NEW u \in P, NEW x \in X PROVE Append(u, x) \in P
  <2> DEFINE w == Append(u, x)
             v == Only(u, T)
             z == Only(w, T)
  <2>1. /\ w \in Seq(X) /\ Len(w) = Len(u) + 1 /\ Len(u) \in Nat
        /\ \A i \in 1..Len(u) : w[i] = u[i]
        /\ w[Len(u) + 1] = x /\ u \in Seq(X)
    OBVIOUS
  <2>2. z = IF x \in T THEN Append(v, x) ELSE v
    BY <2>1, OnlyOfAppend
  <2>3. v \in Seq(X)
    <3>1. v \in Seq({y \in X : y \in T})
      BY <2>1, OnlyType
    <3> QED
      BY <3>1
  <2>4. \A i \in 1..Len(u) : u[i] \in T => In(v, u[i])
    BY <1>2
  <2> HIDE DEF v, w, z
  <2>5. \A y : In(v, y) => In(z, y)
    BY <2>2, <2>3
  <2>6. x \in T => In(z, x)
    <3> SUFFICES ASSUME x \in T PROVE In(z, x)
      OBVIOUS
    <3>1. Len(v) + 1 \in 1..Len(z) /\ z[Len(v) + 1] = x
      BY <2>2, <2>3
    <3> QED
      BY <3>1
  <2> HIDE DEF In
  <2>7. ASSUME NEW i \in 1..Len(w), w[i] \in T
        PROVE  In(z, w[i])
    <3>1. CASE i \in 1..Len(u)
      BY <2>1, <2>4, <2>5, <2>7, <3>1
    <3>2. CASE i \notin 1..Len(u)
      <4>1. i = Len(u) + 1
        BY <2>1, <3>2
      <4> QED
        BY <2>1, <2>6, <2>7, <4>1
    <3> QED
      BY <3>1, <3>2
  <2> QED
    BY <2>1, <2>7 DEF w, z
<1>3. P \subseteq Seq(X)
  OBVIOUS
<1> HIDE DEF In
<1>4. P = Seq(X)
  <2> HIDE DEF P
  <2> QED
    BY <1>1, <1>2, <1>3, SequenceInduction
<1>5. In(Only(s, T), s[k])
  BY <1>4
<1> QED
  BY <1>5 DEF In

-----------------------------------------------------------------------------
\* Min and Max of sets of numbers.
LEMMA MinIs ==
    ASSUME NEW T, T \subseteq Nat, T # {}
    PROVE  Min(T) \in T /\ \A y \in T : Min(T) <= y
<1>1. PICK x \in T : \A y \in T : x <= y
  BY NatMin
<1> QED
  BY <1>1 DEF Min

LEMMA MaxIs ==
    ASSUME NEW n \in Nat, NEW T, T \subseteq 0..n, T # {}
    PROVE  Max(T) \in T /\ \A y \in T : y <= Max(T)
<1> DEFINE Below == {n - y : y \in T}
<1>1. Below \subseteq Nat /\ Below # {}
  <2>1. \A y \in T : n - y \in Nat
    OBVIOUS
  <2>2. Below # {}
    OBVIOUS
  <2> QED
    BY <2>1, <2>2
<1>2. PICK b \in Below : \A c \in Below : b <= c
  <2> HIDE DEF Below
  <2> QED
    BY <1>1, NatMin
<1>3. PICK x \in T : b = n - x
  OBVIOUS
<1>4. \A y \in T : x >= y
  <2> TAKE y \in T
  <2>1. n - y \in Below
    OBVIOUS
  <2>2. n - x <= n - y
    BY <1>2, <1>3, <2>1
  <2> QED
    BY <2>2
<1>5. Max(T) \in T /\ \A y \in T : Max(T) >= y
  BY <1>4 DEF Max
<1> QED
  BY <1>5

LEMMA MinOf ==
    ASSUME NEW T, T \subseteq Nat, NEW x \in T, \A y \in T : x <= y
    PROVE  Min(T) = x
<1> DEFINE m == Min(T)
<1>1. m \in T /\ m <= x
  BY MinIs
<1> HIDE DEF m
<1>2. x <= m /\ m \in Nat /\ x \in Nat
  BY <1>1
<1>3. m = x
  BY <1>1, <1>2
<1> QED
  BY <1>3 DEF m

LEMMA Concat ==
    ASSUME NEW X, NEW s \in Seq(X), NEW t \in Seq(X)
    PROVE  /\ s \o t \in Seq(X)
           /\ Len(s) \in Nat /\ Len(t) \in Nat
           /\ Len(s \o t) = Len(s) + Len(t)
           /\ \A i \in 1..Len(s) : (s \o t)[i] = s[i]
           /\ \A i \in 1..Len(t) : (s \o t)[Len(s) + i] = t[i]
           /\ \A i \in 1..(Len(s) + Len(t)) : i \notin 1..Len(s) =>
                    i - Len(s) \in 1..Len(t) /\ (s \o t)[i] = t[i - Len(s)]
  OBVIOUS

LEMMA Regroup ==
    \A X : \A p, q, s \in Seq(X) : (p \o q) \o s = p \o (q \o s)
<1> TAKE X
<1> TAKE p, q, s \in Seq(X)
<1> QED
  BY ConcatAssociative, SMT

LEMMA PrefixOfConcat ==
    ASSUME NEW X, NEW s \in Seq(X), NEW t \in Seq(X), NEW n \in 0..Len(s)
    PROVE  SubSeq(s \o t, 1, n) = SubSeq(s, 1, n)
<1> DEFINE w == s \o t
<1>1. /\ w \in Seq(X) /\ Len(s) \in Nat /\ Len(t) \in Nat
      /\ Len(w) = Len(s) + Len(t) /\ \A i \in 1..Len(s) : w[i] = s[i]
  BY Concat
<1> HIDE DEF w
<1>2. /\ SubSeq(w, 1, n) \in Seq(X) /\ Len(SubSeq(w, 1, n)) = n
      /\ \A i \in 1..n : SubSeq(w, 1, n)[i] = w[i]
  BY <1>1
<1>3. /\ SubSeq(s, 1, n) \in Seq(X) /\ Len(SubSeq(s, 1, n)) = n
      /\ \A i \in 1..n : SubSeq(s, 1, n)[i] = s[i]
  BY <1>1
<1>4. SubSeq(w, 1, n) = SubSeq(s, 1, n)
  BY <1>1, <1>2, <1>3, SeqEqual
<1> QED
  BY <1>4 DEF w

LEMMA SuffixOfConcat ==
    ASSUME NEW X, NEW s \in Seq(X), NEW t \in Seq(X), NEW m \in 1..(Len(s) + 1)
    PROVE  SubSeq(s \o t, m, Len(s \o t)) = SubSeq(s, m, Len(s)) \o t
<1> DEFINE w == s \o t
           k == Len(s) - m + 1
           u == SubSeq(s, m, Len(s))
           v == SubSeq(w, m, Len(w))
<1>1. /\ w \in Seq(X) /\ Len(s) \in Nat /\ Len(t) \in Nat
      /\ Len(w) = Len(s) + Len(t) /\ \A i \in 1..Len(s) : w[i] = s[i]
      /\ \A i \in 1..Len(t) : w[Len(s) + i] = t[i]
  BY Concat
<1> HIDE DEF w
<1>2. k \in Nat
  BY <1>1
<1>3. u \in Seq(X) /\ Len(u) = k /\ \A i \in 1..k : u[i] = s[i + m - 1]
  BY <1>1
<1>4. v \in Seq(X) /\ Len(v) = k + Len(t) /\ \A i \in 1..(k + Len(t)) : v[i] = w[i + m - 1]
  BY <1>1
<1> HIDE DEF u, v
<1>5. /\ u \o t \in Seq(X) /\ Len(u \o t) = k + Len(t)
      /\ \A i \in 1..k : (u \o t)[i] = u[i]
      /\ \A i \in 1..(k + Len(t)) : i \notin 1..k =>
                i - k \in 1..Len(t) /\ (u \o t)[i] = t[i - k]
  <2> HIDE DEF k
  <2>1. /\ u \o t \in Seq(X) /\ Len(u \o t) = Len(u) + Len(t)
        /\ \A i \in 1..Len(u) : (u \o t)[i] = u[i]
        /\ \A i \in 1..(Len(u) + Len(t)) : i \notin 1..Len(u) =>
                i - Len(u) \in 1..Len(t) /\ (u \o t)[i] = t[i - Len(u)]
    <3>1. u \in Seq(X)
      BY <1>3
    <3> QED
      BY <3>1, Concat
  <2> QED
    BY <1>3, <2>1
<1>6. ASSUME NEW i \in 1..(k + Len(t)) PROVE v[i] = (u \o t)[i]
  <2>1. CASE i \in 1..k
    <3>1. i + m - 1 \in 1..Len(s)
      BY <2>1, <1>1
    <3> QED
      BY <3>1, <2>1, <1>1, <1>3, <1>4, <1>5
  <2>2. CASE i \notin 1..k
    <3>1. i - k \in 1..Len(t) /\ i + m - 1 = Len(s) + (i - k)
      BY <2>2, <1>1, <1>2, SMTT(20)
    <3>2. v[i] = w[i + m - 1]
      BY <1>4
    <3>3. w[i + m - 1] = t[i - k]
      BY <3>1, <1>1
    <3> QED
      BY <3>2, <3>3, <2>2, <1>5
  <2> QED
    BY <2>1, <2>2
<1> HIDE DEF k
<1>7. v = u \o t
  BY <1>4, <1>5, <1>6, SeqEqual
<1> QED
  BY <1>7 DEF u, v, w

LEMMA SubSeqIs ==
    ASSUME NEW X, NEW r \in Seq(X), NEW i \in 1..(Len(r) + 1), NEW j \in (i - 1)..Len(r)
    PROVE  /\ SubSeq(r, i, j) \in Seq(X)
           /\ Len(SubSeq(r, i, j)) = j - i + 1
           /\ \A k \in 1..(j - i + 1) : SubSeq(r, i, j)[k] = r[i + k - 1]
<1>1. i \in Int /\ j \in Int /\ \A k \in i..j : r[k] \in X
  OBVIOUS
<1> DEFINE u == SubSeq(r, i, j)
<1>2. /\ u \in Seq(X)
      /\ Len(u) = IF i <= j THEN j - i + 1 ELSE 0
      /\ \A k \in 1..(j - i + 1) : u[k] = r[i + k - 1]
  BY <1>1, SubSeqProperties
<1> HIDE DEF u
<1>3. Len(u) = j - i + 1
  BY <1>2
<1> QED
  BY <1>2, <1>3 DEF u

-----------------------------------------------------------------------------
\* FlattenSeq, by any function that builds it up.
Flattens(G, ss) ==
    /\ G[0] = <<>>
    /\ \A i \in 1..Len(ss) : G[i] = G[i - 1] \o ss[i]

LEMMA FlattenExists ==
    ASSUME NEW X, NEW ss \in Seq(Seq(X))
    PROVE  \E G \in [0..Len(ss) -> Seq(X)] : Flattens(G, ss)
<1> DEFINE V == Seq(X)
           step == [p \in (1..Len(ss)) \X V |-> p[2] \o ss[p[1]]]
<1>1. <<>> \in V /\ Len(ss) \in Nat
  OBVIOUS
<1>2. \A i \in 1..Len(ss) : ss[i] \in V
  OBVIOUS
<1>3. \A v, u \in V : v \o u \in V
  OBVIOUS
<1>4. \A i \in 1..Len(ss), v \in V : step[i, v] = v \o ss[i]
  OBVIOUS
<1>5. step \in [(1..Len(ss)) \X V -> V]
  <2> HIDE DEF V
  <2> QED
    BY <1>2, <1>3
<1> HIDE DEF step, V
<1>6. PICK G \in [0..Len(ss) -> V] : Recurs(G, Len(ss), <<>>, step)
  BY <1>1, <1>5, RecursiveFunction
<1>7. ASSUME NEW i \in 1..Len(ss) PROVE G[i] = G[i - 1] \o ss[i]
  <2>1. i - 1 \in 0..Len(ss)
    BY <1>1
  <2>2. G[i - 1] \in V
    BY <2>1
  <2>3. G[i] = step[i, G[i - 1]]
    BY <1>6 DEF Recurs
  <2> QED
    BY <2>2, <2>3, <1>4
<1>8. G[0] = <<>>
  BY <1>6 DEF Recurs
<1> QED
  BY <1>7, <1>8 DEF Flattens, V

Joins(G, ss, n) == \A i \in 2..n : G[i] = G[i - 1] \o ss[i]

LEMMA FlattenUnique ==
    ASSUME NEW ss, NEW n \in Nat, NEW G, NEW H, G[1] = H[1], Joins(G, ss, n), Joins(H, ss, n)
    PROVE  \A i \in 1..n : G[i] = H[i]
<1> DEFINE Bad == {i \in 1..n : G[i] # H[i]}
<1>1. SUFFICES ASSUME Bad # {} PROVE FALSE
  OBVIOUS
<1>2. Bad \subseteq Nat
  OBVIOUS
<1>3. PICK k \in Bad : \A j \in Bad : k <= j
  <2> HIDE DEF Bad
  <2> QED
    BY <1>1, <1>2, NatMin
<1>4. k # 1
  OBVIOUS
<1>5. k \in 2..n /\ k - 1 \in 1..n /\ ~(k <= k - 1)
  BY <1>4
<1>6. G[k - 1] = H[k - 1]
  BY <1>3, <1>5
<1>7. G[k] = H[k]
  BY <1>5, <1>6 DEF Joins
<1> QED
  BY <1>7

LEMMA FlattenValue ==
    ASSUME NEW X, NEW ss \in Seq(Seq(X)), NEW G \in [0..Len(ss) -> Seq(X)], Flattens(G, ss)
    PROVE  FlattenSeq(ss) = G[Len(ss)]
<1> DEFINE E(f) == f = [i \in 1..Len(ss) |-> IF i = 1 THEN ss[i] ELSE f[i-1] \o ss[i]]
           F == CHOOSE f : E(f)
           H == [i \in 1..Len(ss) |-> G[i]]
<1>1. FlattenSeq(ss) = IF Len(ss) = 0 THEN ss ELSE F[Len(ss)]
  BY Zenon DEF FlattenSeq
<1>2. Len(ss) \in Nat
  OBVIOUS
<1>3. CASE Len(ss) = 0
  <2>1. ss = <<>>
    BY <1>3
  <2> QED
    BY <1>1, <1>3, <2>1 DEF Flattens
<1>4. CASE Len(ss) # 0
  <2>1. 1 \in 1..Len(ss) /\ Len(ss) \in 1..Len(ss) /\ \A i \in 2..Len(ss) : i \in 1..Len(ss) /\ i # 1 /\ i - 1 \in 1..Len(ss)
    BY <1>2, <1>4
  <2>2. G[1] = ss[1]
    <3>1. G[1] = G[0] \o ss[1] /\ G[0] = <<>>
      <4>1. 1 - 1 = 0
        OBVIOUS
      <4> QED
        BY <2>1, <4>1 DEF Flattens
    <3>2. ss[1] \in Seq(X)
      BY <2>1
    <3>3. <<>> \o ss[1] = ss[1]
      BY <3>2, ConcatEmptySeq
    <3> QED
      BY <3>1, <3>3
  <2>3. E(H)
    <3>1. \A i \in 1..Len(ss) : G[i] = IF i = 1 THEN ss[i] ELSE H[i-1] \o ss[i]
      <4>1. ASSUME NEW i \in 1..Len(ss), i # 1 PROVE G[i] = H[i-1] \o ss[i]
        <5>1. i - 1 \in 1..Len(ss)
          BY <1>2, <4>1
        <5> QED
          BY <5>1 DEF Flattens
      <4> QED
        BY <2>2, <4>1
    <3> QED
      BY <3>1
  <2>4. E(F)
    <3> HIDE DEF E, H
    <3> QED
      BY <2>3
  <2> HIDE DEF F
  <2>5. \A i \in 1..Len(ss) : F[i] = IF i = 1 THEN ss[i] ELSE F[i-1] \o ss[i]
    BY <2>4
  <2> HIDE DEF E
  <2>6. F[1] = G[1]
    BY <2>1, <2>2, <2>5
  <2>7. Joins(F, ss, Len(ss))
    BY <2>1, <2>5 DEF Joins
  <2>8. Joins(G, ss, Len(ss))
    BY <2>1 DEF Flattens, Joins
  <2>9. \A i \in 1..Len(ss) : F[i] = G[i]
    BY <1>2, <2>6, <2>7, <2>8, FlattenUnique
  <2> QED
    BY <1>1, <1>4, <2>1, <2>9
<1> QED
  BY <1>3, <1>4

LEMMA FlattenOfNone == FlattenSeq(<<>>) = <<>>
  BY DEF FlattenSeq

LEMMA FlattenOfAppend ==
    ASSUME NEW X, NEW ss \in Seq(Seq(X)), NEW s \in Seq(X)
    PROVE  /\ FlattenSeq(ss) \in Seq(X)
           /\ FlattenSeq(Append(ss, s)) = FlattenSeq(ss) \o s
<1> DEFINE V == Seq(X)
           tt == Append(ss, s)
<1>1. tt \in Seq(V) /\ Len(tt) = Len(ss) + 1 /\ Len(ss) \in Nat /\ tt[Len(ss) + 1] = s
      /\ \A i \in 1..Len(ss) : tt[i] = ss[i]
  OBVIOUS
<1> HIDE DEF tt
<1>2. PICK G \in [0..Len(tt) -> V] : Flattens(G, tt)
  BY <1>1, FlattenExists
<1> DEFINE H == [i \in 0..Len(ss) |-> G[i]]
<1>3. H \in [0..Len(ss) -> V] /\ Flattens(H, ss)
  <2>1. H \in [0..Len(ss) -> V]
    <3> HIDE DEF V
    <3> QED
      BY <1>1
  <2>2. \A i \in 0..Len(ss) : H[i] = G[i]
    OBVIOUS
  <2> HIDE DEF H
  <2>3. ASSUME NEW i \in 1..Len(ss) PROVE H[i] = H[i - 1] \o ss[i]
    <3>1. i \in 1..Len(tt) /\ i \in 0..Len(ss) /\ i - 1 \in 0..Len(ss) /\ tt[i] = ss[i]
      BY <1>1
    <3>2. G[i] = G[i - 1] \o tt[i]
      BY <3>1, <1>2 DEF Flattens
    <3> QED
      BY <3>1, <3>2, <2>2
  <2>4. H[0] = <<>>
    <3>1. 0 \in 0..Len(ss)
      BY <1>1
    <3> QED
      BY <3>1, <2>2, <1>2 DEF Flattens
  <2> QED
    BY <2>1, <2>3, <2>4 DEF Flattens
<1>4. H[Len(ss)] = G[Len(ss)] /\ G[Len(ss)] \in V
  BY <1>1
<1> HIDE DEF H
<1>5. FlattenSeq(tt) = G[Len(tt)]
  BY <1>1, <1>2, FlattenValue
<1>6. FlattenSeq(ss) = H[Len(ss)]
  BY <1>3, FlattenValue
<1>7. G[Len(ss) + 1] = G[Len(ss)] \o s
  <2>1. Len(ss) + 1 \in 1..Len(tt) /\ (Len(ss) + 1) - 1 = Len(ss)
    BY <1>1
  <2> QED
    BY <2>1, <1>1, <1>2 DEF Flattens
<1> QED
  BY <1>1, <1>4, <1>5, <1>6, <1>7 DEF tt

-----------------------------------------------------------------------------
\* Induction over the first numbers, for a set of them.
LEMMA Climbs ==
    ASSUME NEW n \in Nat, NEW T, 0 \in T, \A i \in 1..n : i - 1 \in T => i \in T
    PROVE  \A i \in 0..n : i \in T
<1> DEFINE Bad == {i \in 0..n : i \notin T}
<1>1. SUFFICES ASSUME Bad # {} PROVE FALSE
  OBVIOUS
<1>2. Bad \subseteq Nat
  OBVIOUS
<1>3. PICK k \in Bad : \A j \in Bad : k <= j
  <2> HIDE DEF Bad
  <2> QED
    BY <1>1, <1>2, NatMin
<1>4. k \in 1..n /\ k - 1 \in 0..n /\ ~(k <= k - 1)
  OBVIOUS
<1>5. k - 1 \in T
  BY <1>3, <1>4
<1> QED
  BY <1>4, <1>5

=============================================================================
