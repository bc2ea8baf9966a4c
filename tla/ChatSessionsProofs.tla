------------------------- MODULE ChatSessionsProofs -------------------------
(***************************************************************************)
(* Proofs about ChatSessions, for any tabs, messages, ids, replies and     *)
(* limits.  There are three arguments: the history of a session is what    *)
(* its answered messages make of it, through every trim; a message that    *)
(* brings something into a cleared session was stale when it was sent or   *)
(* became so; and a page is the rendering of one reply, about which        *)
(* RepliesProofs says the rest.                                            *)
(***************************************************************************)
EXTENDS ChatSessions, RepliesProofs

-----------------------------------------------------------------------------
\* The exchanges of a list of messages: of none, of one more at its end, and of
\* one more at its start.
LEMMA ExchangeIs ==
    ASSUME NEW m \in Messages
    PROVE  Exchange(m) \in Seq(Halves) /\ Len(Exchange(m)) = 2
  BY DEF Exchange, Half, Halves

LEMMA ExchangesOfNone == Exchanges(<<>>) = <<>>
<1>1. [i \in DOMAIN <<>> |-> Exchange(<<>>[i])] = <<>>
  OBVIOUS
<1> QED
  BY <1>1, FlattenOfNone DEF Exchanges

LEMMA ExchangesOfAppend ==
    ASSUME NEW ms \in Seq(Messages), NEW m \in Messages
    PROVE  /\ Exchanges(ms) \in Seq(Halves)
           /\ Exchanges(Append(ms, m)) = Exchanges(ms) \o Exchange(m)
<1> DEFINE ss == [i \in DOMAIN ms |-> Exchange(ms[i])]
           more == Append(ms, m)
           tt == [i \in DOMAIN more |-> Exchange(more[i])]
<1>1. ss \in Seq(Seq(Halves)) /\ Len(ss) = Len(ms) /\ Len(ms) \in Nat
  <2>1. \A i \in 1..Len(ms) : Exchange(ms[i]) \in Seq(Halves)
    BY ExchangeIs
  <2> QED
    BY <2>1
<1>2. tt = Append(ss, Exchange(m))
  <2>1. /\ more \in Seq(Messages) /\ Len(more) = Len(ms) + 1
        /\ \A i \in 1..Len(ms) : more[i] = ms[i]
        /\ more[Len(ms) + 1] = m
    OBVIOUS
  <2>2. \A i \in 1..Len(more) : Exchange(more[i]) \in Seq(Halves)
    BY <2>1, ExchangeIs
  <2> HIDE DEF more
  <2>3. tt \in Seq(Seq(Halves)) /\ Len(tt) = Len(ms) + 1
        /\ \A i \in 1..(Len(ms) + 1) : tt[i] = Exchange(more[i])
    BY <2>1, <2>2
  <2>4. /\ Append(ss, Exchange(m)) \in Seq(Seq(Halves))
        /\ Len(Append(ss, Exchange(m))) = Len(ms) + 1
        /\ \A i \in 1..Len(ms) : Append(ss, Exchange(m))[i] = Exchange(ms[i])
        /\ Append(ss, Exchange(m))[Len(ms) + 1] = Exchange(m)
    <3>1. \A i \in 1..Len(ms) : ss[i] = Exchange(ms[i])
      BY <1>1
    <3>2. Exchange(m) \in Seq(Halves)
      BY ExchangeIs
    <3> DEFINE V == Seq(Halves)
               x == Exchange(m)
    <3>3. ss \in Seq(V) /\ x \in V
      BY <1>1, <3>2
    <3> HIDE DEF ss, V, x
    <3>4. /\ Append(ss, x) \in Seq(V) /\ Len(Append(ss, x)) = Len(ss) + 1
          /\ \A i \in 1..Len(ss) : Append(ss, x)[i] = ss[i]
          /\ Append(ss, x)[Len(ss) + 1] = x
      BY <3>3
    <3> QED
      BY <1>1, <3>1, <3>4 DEF V, x
  <2> DEFINE uu == Append(ss, Exchange(m))
  <2> HIDE DEF tt, uu, ss
  <2>5. \A i \in 1..Len(tt) : tt[i] = uu[i]
    <3> TAKE i \in 1..Len(tt)
    <3>1. i \in 1..(Len(ms) + 1) /\ (i = Len(ms) + 1 \/ i \in 1..Len(ms))
      BY <1>1, <2>3
    <3> QED
      BY <3>1, <2>1, <2>3, <2>4 DEF uu
  <2> QED
    BY <2>3, <2>4, <2>5, SeqEqual DEF uu
<1> HIDE DEF ss, tt, more
<1>3. FlattenSeq(ss) \in Seq(Halves) /\ FlattenSeq(Append(ss, Exchange(m))) = FlattenSeq(ss) \o Exchange(m)
  BY <1>1, ExchangeIs, FlattenOfAppend
<1> QED
  BY <1>2, <1>3 DEF Exchanges, ss, tt, more

LEMMA ExchangesIs ==
    ASSUME NEW ms \in Seq(Messages)
    PROVE  Exchanges(ms) \in Seq(Halves) /\ Len(Exchanges(ms)) = 2 * Len(ms)
<1> DEFINE P == {w \in Seq(Messages) :
                    Exchanges(w) \in Seq(Halves) /\ Len(Exchanges(w)) = 2 * Len(w)}
<1>1. <<>> \in P
  <2> DEFINE none == <<>>
  <2>1. none \in Seq(Messages) /\ none \in Seq(Halves) /\ Len(none) = 0 /\ 2 * 0 = 0
    OBVIOUS
  <2>2. Exchanges(none) = none
    BY ExchangesOfNone
  <2> HIDE DEF none
  <2>3. none \in P
    BY <2>1, <2>2
  <2> QED
    BY <2>3 DEF none
<1>2. ASSUME NEW w \in P, NEW m \in Messages PROVE Append(w, m) \in P
  <2>1. w \in Seq(Messages) /\ Exchanges(w) \in Seq(Halves) /\ Len(Exchanges(w)) = 2 * Len(w)
    OBVIOUS
  <2>2. Append(w, m) \in Seq(Messages) /\ Len(Append(w, m)) = Len(w) + 1 /\ Len(w) \in Nat
    BY <2>1
  <2>3. Exchanges(Append(w, m)) = Exchanges(w) \o Exchange(m)
    BY <2>1, ExchangesOfAppend
  <2> DEFINE E == Exchanges(w)
             F == Exchange(m)
  <2>4. F \in Seq(Halves) /\ Len(F) = 2
    BY ExchangeIs
  <2>5. E \in Seq(Halves) /\ Len(E) = 2 * Len(w)
    BY <2>1
  <2> HIDE DEF E, F
  <2>6. E \o F \in Seq(Halves) /\ Len(E \o F) = Len(E) + Len(F)
    BY <2>4, <2>5, ConcatProperties
  <2>7. Len(E \o F) = 2 * (Len(w) + 1)
    BY <2>2, <2>4, <2>5, <2>6
  <2> QED
    BY <2>2, <2>3, <2>6, <2>7 DEF E, F
<1>3. P \subseteq Seq(Messages)
  OBVIOUS
<1>4. P = Seq(Messages)
  <2> HIDE DEF P
  <2> QED
    BY <1>1, <1>2, <1>3, SequenceInduction
<1> QED
  BY <1>4

LEMMA ExchangesOfFirst ==
    ASSUME NEW a \in Messages, NEW ms \in Seq(Messages)
    PROVE  Exchanges(<<a>> \o ms) = Exchange(a) \o Exchanges(ms)
<1> DEFINE P == {w \in Seq(Messages) : Exchanges(<<a>> \o w) = Exchange(a) \o Exchanges(w)}
           A == <<a>>
<1>1. <<>> \in P
  <2>1. /\ <<>> \in Seq(Messages) /\ A \o <<>> = Append(<<>>, a)
    OBVIOUS
  <2>2. Exchanges(Append(<<>>, a)) = Exchanges(<<>>) \o Exchange(a)
    <3> DEFINE none == <<>>
    <3>1. none \in Seq(Messages)
      OBVIOUS
    <3> HIDE DEF none
    <3>2. Exchanges(Append(none, a)) = Exchanges(none) \o Exchange(a)
      BY <3>1, ExchangesOfAppend
    <3> QED
      BY <3>2 DEF none
  <2>3. <<>> \o Exchange(a) = Exchange(a) /\ Exchange(a) \o <<>> = Exchange(a)
    BY ExchangeIs, ConcatEmptySeq
  <2> QED
    BY <2>1, <2>2, <2>3, ExchangesOfNone
<1>2. ASSUME NEW w \in P, NEW m \in Messages PROVE Append(w, m) \in P
  <2>1. w \in Seq(Messages) /\ Exchanges(A \o w) = Exchange(a) \o Exchanges(w)
    OBVIOUS
  <2>2. Append(w, m) \in Seq(Messages) /\ A \o w \in Seq(Messages)
        /\ A \o Append(w, m) = Append(A \o w, m)
    BY <2>1
  <2>3. Exchanges(Append(A \o w, m)) = Exchanges(A \o w) \o Exchange(m)
    <3> HIDE DEF A
    <3> DEFINE v == A \o w
    <3>1. v \in Seq(Messages)
      BY <2>2
    <3> HIDE DEF v
    <3>2. Exchanges(Append(v, m)) = Exchanges(v) \o Exchange(m)
      BY <3>1, ExchangesOfAppend
    <3> QED
      BY <3>2 DEF v
  <2>4. Exchanges(Append(w, m)) = Exchanges(w) \o Exchange(m)
    BY <2>1, ExchangesOfAppend
  <2> DEFINE E == Exchange(a)
             F == Exchanges(w)
             G == Exchange(m)
  <2>5. E \in Seq(Halves) /\ F \in Seq(Halves) /\ G \in Seq(Halves)
    BY <2>1, ExchangeIs, ExchangesIs
  <2> HIDE DEF E, F, G
  <2>6. (E \o F) \o G = E \o (F \o G)
    BY <2>5, ConcatAssociative, SMTT(30)
  <2> QED
    BY <2>1, <2>2, <2>3, <2>4, <2>6 DEF E, F, G
<1>3. P \subseteq Seq(Messages)
  OBVIOUS
<1>4. P = Seq(Messages)
  <2> HIDE DEF P
  <2> QED
    BY <1>1, <1>2, <1>3, SequenceInduction
<1> QED
  BY <1>4


\* What an answer makes of the last exchanges, trimmed, are the last exchanges.
LEMMA LastNIs ==
    ASSUME NEW X, NEW s \in Seq(X), NEW n \in Nat
    PROVE  /\ Len(s) <= n => LastN(s, n) = s
           /\ n <= Len(s) => LastN(s, n) = SubSeq(s, Len(s) - n + 1, Len(s))
<1> DEFINE T == {n, Len(s)}
           m == Min(T)
<1>1. Len(s) \in Nat /\ T \subseteq Nat /\ T # {}
  OBVIOUS
<1>2. m \in T /\ \A y \in T : m <= y
  <2> HIDE DEF T
  <2> QED
    BY <1>1, MinIs
<1>3. m \in {n, Len(s)} /\ m <= n /\ m <= Len(s)
  BY <1>2
<1>4. LastN(s, n) = SubSeq(s, Len(s) - m + 1, Len(s))
  BY DEF LastN
<1> HIDE DEF T, m
<1>5. CASE Len(s) <= n
  <2>1. m = Len(s) /\ Len(s) - m + 1 = 1
    BY <1>1, <1>3, <1>5
  <2>2. SubSeq(s, 1, Len(s)) = s
    BY SubSeqFull
  <2>3. LastN(s, n) = s
    BY <1>4, <2>1, <2>2
  <2>4. n <= Len(s) => Len(s) - n + 1 = 1
    BY <1>1, <1>5
  <2> QED
    BY <2>2, <2>3, <2>4
<1>6. CASE ~(Len(s) <= n)
  <2>1. m = n
    BY <1>1, <1>3, <1>6
  <2> QED
    BY <1>4, <1>6, <2>1
<1> QED
  BY <1>5, <1>6

LEMMA AnswerExtends ==
    ASSUME NEW q \in Seq(Messages), NEW m \in Messages, MaxTurns \in Nat \ {0}
    PROVE  Trim(Exchanges(LastN(q, MaxTurns)) \o Exchange(m))
             = Exchanges(LastN(Append(q, m), MaxTurns))
<1> DEFINE n == MaxTurns
           more == Append(q, m)
           R(w) == Exchanges(w) \o Exchange(m)
<1>1. /\ Len(q) \in Nat /\ n \in Nat /\ n # 0 /\ 2 * n \in Nat
      /\ more \in Seq(Messages) /\ Len(more) = Len(q) + 1
      /\ \A i \in 1..Len(q) : more[i] = q[i]
      /\ more[Len(q) + 1] = m
  OBVIOUS
<1>2. \A w \in Seq(Messages) : /\ Exchanges(Append(w, m)) = R(w)
                               /\ R(w) \in Seq(Halves)
                               /\ Len(R(w)) = 2 * Len(w) + 2
  <2> TAKE w \in Seq(Messages)
  <2> DEFINE E == Exchanges(w)
             F == Exchange(m)
  <2>1. E \in Seq(Halves) /\ Len(E) = 2 * Len(w) /\ F \in Seq(Halves) /\ Len(F) = 2
    BY ExchangesIs, ExchangeIs
  <2>2. Exchanges(Append(w, m)) = R(w)
    BY ExchangesOfAppend
  <2> HIDE DEF E, F
  <2>3. E \o F \in Seq(Halves) /\ Len(E \o F) = Len(E) + Len(F)
    BY <2>1, ConcatProperties
  <2> QED
    BY <2>1, <2>2, <2>3 DEF E, F
<1> HIDE DEF more
<1>3. CASE Len(q) < n
  <2>1. LastN(q, n) = q /\ LastN(more, n) = more
    <3>1. Len(q) <= n /\ Len(more) <= n
      BY <1>1, <1>3
    <3> QED
      BY <1>1, <3>1, LastNIs
  <2>2. Trim(R(q)) = R(q)
    <3>1. R(q) \in Seq(Halves) /\ Len(R(q)) = 2 * Len(q) + 2
      BY <1>2
    <3> HIDE DEF R
    <3>2. Len(R(q)) <= 2 * n
      BY <3>1, <1>1, <1>3
    <3>3. LastN(R(q), 2 * n) = R(q)
      BY <3>1, <3>2, <1>1, LastNIs
    <3> QED
      BY <3>3 DEF Trim
  <2>3. Exchanges(more) = R(q)
    BY <1>2 DEF more
  <2> QED
    BY <2>1, <2>2, <2>3 DEF more
<1>4. CASE n <= Len(q)
  <2> DEFINE a == q[Len(q) - n + 1]
             w == SubSeq(q, Len(q) - n + 2, Len(q))
  <2>1. a \in Messages
    <3>1. Len(q) - n + 1 \in 1..Len(q)
      BY <1>1, <1>4
    <3> QED
      BY <3>1
  <2>2. /\ w \in Seq(Messages) /\ Len(w) = n - 1
        /\ \A k \in 1..(n - 1) : w[k] = q[Len(q) - n + 1 + k]
    <3>1. /\ Len(q) - n + 2 \in 1..(Len(q) + 1)
          /\ Len(q) \in ((Len(q) - n + 2) - 1)..Len(q)
          /\ Len(q) - (Len(q) - n + 2) + 1 = n - 1
      BY <1>1, <1>4
    <3>2. /\ w \in Seq(Messages)
          /\ Len(w) = Len(q) - (Len(q) - n + 2) + 1
          /\ \A k \in 1..(Len(q) - (Len(q) - n + 2) + 1) : w[k] = q[(Len(q) - n + 2) + k - 1]
      BY <3>1, SubSeqIs
    <3> HIDE DEF w
    <3>3. \A k \in 1..(n - 1) : (Len(q) - n + 2) + k - 1 = Len(q) - n + 1 + k
      BY <1>1
    <3> QED
      BY <3>1, <3>2, <3>3
  <2>3. LastN(q, n) = <<a>> \o w
    <3>1. Len(q) - n + 1 \in 1..Len(q) /\ Len(q) \in (Len(q) - n + 1)..Len(q)
          /\ (Len(q) - n + 1) + 1 = Len(q) - n + 2
      BY <1>1, <1>4
    <3>2. SubSeq(q, Len(q) - n + 1, Len(q)) = <<a>> \o SubSeq(q, (Len(q) - n + 1) + 1, Len(q))
      BY <3>1, SubSeqRecursiveFirst
    <3>3. LastN(q, n) = SubSeq(q, Len(q) - n + 1, Len(q))
      BY <1>1, <1>4, LastNIs
    <3> QED
      BY <3>1, <3>2, <3>3
  <2> HIDE DEF a, w
  <2>4. LastN(more, n) = Append(w, m)
    <3> DEFINE u == SubSeq(more, Len(q) - n + 2, Len(q) + 1)
               v == Append(w, m)
    <3>1. LastN(more, n) = u
      <4>1. n <= Len(more) /\ Len(more) - n + 1 = Len(q) - n + 2
        BY <1>1, <1>4
      <4>2. LastN(more, n) = SubSeq(more, Len(more) - n + 1, Len(more))
        BY <1>1, <4>1, LastNIs
      <4> QED
        BY <4>1, <4>2, <1>1
    <3>2. /\ u \in Seq(Messages) /\ Len(u) = n
          /\ \A k \in 1..n : u[k] = more[Len(q) - n + 1 + k]
      <4>1. /\ Len(q) - n + 2 \in 1..(Len(more) + 1)
            /\ Len(q) + 1 \in ((Len(q) - n + 2) - 1)..Len(more)
            /\ (Len(q) + 1) - (Len(q) - n + 2) + 1 = n
        BY <1>1, <1>4
      <4>2. /\ u \in Seq(Messages)
            /\ Len(u) = (Len(q) + 1) - (Len(q) - n + 2) + 1
            /\ \A k \in 1..((Len(q) + 1) - (Len(q) - n + 2) + 1) : u[k] = more[(Len(q) - n + 2) + k - 1]
        BY <1>1, <4>1, SubSeqIs
      <4> HIDE DEF u
      <4>3. \A k \in 1..n : (Len(q) - n + 2) + k - 1 = Len(q) - n + 1 + k
        BY <1>1
      <4> QED
        BY <4>1, <4>2, <4>3
    <3>3. /\ v \in Seq(Messages) /\ Len(v) = n
          /\ \A k \in 1..(n - 1) : v[k] = w[k]
          /\ v[n] = m
      <4>1. /\ v \in Seq(Messages) /\ Len(v) = Len(w) + 1
            /\ \A k \in 1..Len(w) : v[k] = w[k]
            /\ v[Len(w) + 1] = m
        BY <2>2
      <4>2. Len(w) = n - 1 /\ Len(w) + 1 = n
        BY <1>1, <2>2
      <4> HIDE DEF v
      <4> QED
        BY <4>1, <4>2
    <3> HIDE DEF u, v
    <3>4. ASSUME NEW k \in 1..n PROVE u[k] = v[k]
      <4>1. CASE k = n
        <5>1. Len(q) - n + 1 + k = Len(q) + 1
          BY <1>1, <4>1
        <5> QED
          BY <4>1, <5>1, <3>2, <3>3, <1>1
      <4>2. CASE k # n
        <5>1. k \in 1..(n - 1) /\ Len(q) - n + 1 + k \in 1..Len(q)
          BY <1>1, <1>4, <4>2
        <5> QED
          BY <5>1, <3>2, <3>3, <2>2, <1>1
      <4> QED
        BY <4>1, <4>2
    <3>5. u = v
      BY <3>2, <3>3, <3>4, SeqEqual
    <3> QED
      BY <3>1, <3>5 DEF v
  <2>5. Trim(Exchanges(<<a>> \o w) \o Exchange(m)) = R(w)
    <3> DEFINE A == Exchange(a)
               E == Exchanges(w)
               F == Exchange(m)
    <3>1. A \in Seq(Halves) /\ E \in Seq(Halves) /\ F \in Seq(Halves) /\ Len(A) = 2
      BY <2>1, <2>2, ExchangeIs, ExchangesIs
    <3>2. Exchanges(<<a>> \o w) = A \o E
      BY <2>1, <2>2, ExchangesOfFirst
    <3>3. E \o F \in Seq(Halves) /\ Len(E \o F) = 2 * n
      <4>1. R(w) \in Seq(Halves) /\ Len(R(w)) = 2 * Len(w) + 2
        BY <1>2, <2>2
      <4> QED
        BY <4>1, <1>1, <2>2
    <3> DEFINE rest == E \o F
    <3> HIDE DEF A, E, F
    <3>4. (A \o E) \o F = A \o rest
      BY <3>1, ConcatAssociative
    <3> HIDE DEF rest
    <3>5. rest \in Seq(Halves) /\ Len(rest) = 2 * n
      BY <3>3 DEF rest
    <3>6. A \o rest \in Seq(Halves) /\ Len(A \o rest) = 2 + 2 * n
      <4>1. A \o rest \in Seq(Halves) /\ Len(A \o rest) = Len(A) + Len(rest)
        <5>1. A \in Seq(Halves) /\ rest \in Seq(Halves)
          BY <3>1, <3>5
        <5> QED
          BY <5>1, ConcatProperties
      <4> QED
        BY <4>1, <3>1, <3>5
    <3>7. SubSeq(A \o rest, 3, Len(A \o rest)) = rest
      <4>1. 3 \in 1..(Len(A) + 1)
        BY <3>1
      <4>2. SubSeq(A \o rest, 3, Len(A \o rest)) = SubSeq(A, 3, Len(A)) \o rest
        BY <3>1, <3>5, <4>1, SuffixOfConcat
      <4>3. SubSeq(A, 3, Len(A)) = <<>>
        BY <3>1
      <4>4. <<>> \o rest = rest
        BY <3>5, ConcatEmptySeq
      <4> QED
        BY <4>2, <4>3, <4>4
    <3>8. Trim(A \o rest) = rest
      <4>1. 2 * n <= Len(A \o rest) /\ Len(A \o rest) - 2 * n + 1 = 3
        BY <3>6, <1>1
      <4>2. LastN(A \o rest, 2 * n) = SubSeq(A \o rest, Len(A \o rest) - 2 * n + 1, Len(A \o rest))
        <5> DEFINE z == A \o rest
        <5>1. z \in Seq(Halves)
          BY <3>6
        <5> HIDE DEF z
        <5> QED
          BY <4>1, <5>1, <1>1, LastNIs DEF z
      <4> QED
        BY <4>1, <4>2, <3>7 DEF Trim
    <3> QED
      BY <3>2, <3>4, <3>8 DEF A, E, F, rest
  <2>6. Exchanges(Append(w, m)) = R(w)
    BY <1>2, <2>2
  <2> QED
    BY <2>3, <2>4, <2>5, <2>6 DEF more
<1> QED
  BY <1>1, <1>3, <1>4


-----------------------------------------------------------------------------
\* The prompt: what the history's window keeps.
LEMMA CutIs ==
    ASSUME NEW half, Length(half) \in Nat, MaxMsgChars \in Nat
    PROVE  Cut(half) \in Nat
<1> DEFINE T == {Length(half), MaxMsgChars}
<1>1. T \subseteq Nat /\ T # {}
  OBVIOUS
<1>2. Cut(half) = Min(T)
  BY DEF Cut
<1> HIDE DEF T
<1> QED
  BY <1>1, <1>2, MinIs

Sums(G, h) ==
    /\ G[0] = 0
    /\ \A i \in 1..Len(h) : G[i] = G[i - 1] + Cut(h[i])

LEMMA SumExists ==
    ASSUME NEW X, NEW h \in Seq(X), \A x \in X : Cut(x) \in Nat
    PROVE  \E G \in [0..Len(h) -> Nat] : Sums(G, h)
<1> DEFINE step == [p \in (1..Len(h)) \X Nat |-> p[2] + Cut(h[p[1]])]
<1>1. Len(h) \in Nat /\ 0 \in Nat
  OBVIOUS
<1>2. \A i \in 1..Len(h) : Cut(h[i]) \in Nat
  OBVIOUS
<1>3. \A i \in 1..Len(h), v \in Nat : step[i, v] = v + Cut(h[i])
  OBVIOUS
<1>4. step \in [(1..Len(h)) \X Nat -> Nat]
  BY <1>2
<1> HIDE DEF step
<1>5. PICK G \in [0..Len(h) -> Nat] : Recurs(G, Len(h), 0, step)
  BY <1>1, <1>4, RecursiveFunction
<1>6. ASSUME NEW i \in 1..Len(h) PROVE G[i] = G[i - 1] + Cut(h[i])
  <2>1. i - 1 \in 0..Len(h)
    BY <1>1
  <2>2. G[i - 1] \in Nat
    BY <2>1
  <2>3. G[i] = step[i, G[i - 1]]
    BY <1>5 DEF Recurs
  <2> QED
    BY <2>2, <2>3, <1>3
<1>7. G[0] = 0
  BY <1>5 DEF Recurs
<1> QED
  BY <1>6, <1>7 DEF Sums

LEMMA SumUnique ==
    ASSUME NEW h, Len(h) \in Nat, NEW G, NEW H, Sums(G, h), Sums(H, h)
    PROVE  \A i \in 0..Len(h) : G[i] = H[i]
<1> DEFINE Bad == {i \in 0..Len(h) : G[i] # H[i]}
<1>1. SUFFICES ASSUME Bad # {} PROVE FALSE
  OBVIOUS
<1>2. Bad \subseteq Nat
  OBVIOUS
<1>3. PICK k \in Bad : \A j \in Bad : k <= j
  <2> HIDE DEF Bad
  <2> QED
    BY <1>1, <1>2, NatMin
<1>4. k # 0
  BY DEF Sums
<1>5. k \in 1..Len(h) /\ k - 1 \in 0..Len(h) /\ ~(k <= k - 1)
  BY <1>4
<1>6. G[k - 1] = H[k - 1]
  BY <1>3, <1>5
<1>7. G[k] = H[k]
  BY <1>5, <1>6 DEF Sums
<1> QED
  BY <1>7

LEMMA CharsValue ==
    ASSUME NEW X, NEW h \in Seq(X), NEW G \in [0..Len(h) -> Nat], Sums(G, h)
    PROVE  Chars(h) = G[Len(h)]
<1> DEFINE E(f) == f = [i \in 0..Len(h) |-> IF i = 0 THEN 0 ELSE f[i - 1] + Cut(h[i])]
           F == CHOOSE f : E(f)
<1>1. Chars(h) = F[Len(h)]
  BY Zenon DEF Chars
<1>2. E(G)
  <2>1. ASSUME NEW i \in 0..Len(h)
        PROVE  G[i] = IF i = 0 THEN 0 ELSE G[i - 1] + Cut(h[i])
    <3>1. CASE i = 0
      BY <3>1 DEF Sums
    <3>2. CASE i # 0
      <4>1. i \in 1..Len(h)
        BY <3>2
      <4> QED
        BY <3>2, <4>1 DEF Sums
    <3> QED
      BY <3>1, <3>2
  <2>2. G = [i \in 0..Len(h) |-> G[i]]
    OBVIOUS
  <2> QED
    BY <2>1, <2>2
<1>3. E(F)
  <2> HIDE DEF E
  <2> QED
    BY <1>2
<1>4. Sums(F, h)
  <2> HIDE DEF F
  <2>1. Len(h) \in Nat
    OBVIOUS
  <2>2. \A i \in 0..Len(h) : F[i] = IF i = 0 THEN 0 ELSE F[i - 1] + Cut(h[i])
    BY <1>3
  <2> HIDE DEF E
  <2>3. F[0] = 0
    BY <2>1, <2>2
  <2>4. \A i \in 1..Len(h) : i \in 0..Len(h) /\ i # 0
    BY <2>1
  <2>5. \A i \in 1..Len(h) : F[i] = F[i - 1] + Cut(h[i])
    BY <2>2, <2>4
  <2> QED
    BY <2>3, <2>5 DEF Sums
<1> HIDE DEF F
<1> QED
  <2>1. Len(h) \in Nat /\ Len(h) \in 0..Len(h)
    OBVIOUS
  <2> QED
    BY <1>1, <1>4, <2>1, SumUnique

LEMMA CharsOfNone == Chars(<<>>) = 0
<1> DEFINE none == <<>>
           G == [i \in 0..Len(none) |-> 0]
<1>1. none \in Seq({}) /\ Len(none) = 0
  OBVIOUS
<1> HIDE DEF none
<1>2. G \in [0..Len(none) -> Nat] /\ Sums(G, none) /\ G[Len(none)] = 0
  BY <1>1 DEF Sums
<1> HIDE DEF G
<1>3. Chars(none) = G[Len(none)]
  BY <1>1, <1>2, CharsValue
<1> QED
  BY <1>2, <1>3 DEF none

LEMMA CharsOfAppend ==
    ASSUME NEW X, NEW h \in Seq(X), NEW x \in X, \A y \in X : Cut(y) \in Nat
    PROVE  Chars(h) \in Nat /\ Chars(Append(h, x)) = Chars(h) + Cut(x)
<1> DEFINE g == Append(h, x)
<1>1. /\ g \in Seq(X) /\ Len(g) = Len(h) + 1 /\ Len(h) \in Nat
      /\ \A i \in 1..Len(h) : g[i] = h[i]
      /\ g[Len(h) + 1] = x
  OBVIOUS
<1> HIDE DEF g
<1>2. PICK G \in [0..Len(g) -> Nat] : Sums(G, g)
  BY <1>1, SumExists
<1> DEFINE H == [i \in 0..Len(h) |-> G[i]]
<1>3. \A i \in 0..Len(h) : H[i] = G[i] /\ G[i] \in Nat
  BY <1>1
<1>4. H \in [0..Len(h) -> Nat]
  BY <1>3
<1> HIDE DEF H
<1>5. Sums(H, h)
  <2>1. ASSUME NEW i \in 1..Len(h) PROVE H[i] = H[i - 1] + Cut(h[i])
    <3>1. i \in 1..Len(g) /\ i \in 0..Len(h) /\ i - 1 \in 0..Len(h) /\ g[i] = h[i]
      BY <1>1
    <3>2. G[i] = G[i - 1] + Cut(g[i])
      BY <3>1, <1>2 DEF Sums
    <3> QED
      BY <3>1, <3>2, <1>3
  <2>2. 0 \in 0..Len(h)
    BY <1>1
  <2> QED
    BY <2>1, <2>2, <1>2, <1>3 DEF Sums
<1>6. Chars(g) = G[Len(g)]
  BY <1>1, <1>2, CharsValue
<1>7. Chars(h) = H[Len(h)]
  BY <1>4, <1>5, CharsValue
<1>8. G[Len(h) + 1] = G[Len(h)] + Cut(x)
  <2>1. Len(h) + 1 \in 1..Len(g) /\ (Len(h) + 1) - 1 = Len(h)
    BY <1>1
  <2> QED
    BY <2>1, <1>1, <1>2 DEF Sums
<1>9. Len(h) \in 0..Len(h)
  BY <1>1
<1> QED
  BY <1>1, <1>3, <1>6, <1>7, <1>8, <1>9 DEF g


LEMMA CharsOfOnly ==
    ASSUME NEW X, NEW h \in Seq(X), NEW T, \A x \in X : Cut(x) \in Nat
    PROVE  Chars(h) \in Nat /\ Chars(Only(h, T)) \in Nat /\ Chars(Only(h, T)) <= Chars(h)
<1> DEFINE P == {g \in Seq(X) : /\ Chars(g) \in Nat
                                /\ Chars(Only(g, T)) \in Nat
                                /\ Chars(Only(g, T)) <= Chars(g)}
<1>1. <<>> \in P
  <2> DEFINE none == <<>>
  <2>1. none \in Seq(X) /\ Only(none, T) = none /\ Chars(none) = 0
    BY OnlyOfNone, CharsOfNone
  <2> HIDE DEF none
  <2>2. none \in P
    BY <2>1
  <2> QED
    BY <2>2 DEF none
<1>2. ASSUME NEW g \in P, NEW x \in X PROVE Append(g, x) \in P
  <2> DEFINE u == Only(g, T)
  <2>1. /\ g \in Seq(X) /\ Append(g, x) \in Seq(X)
        /\ Chars(g) \in Nat /\ Chars(u) \in Nat /\ Chars(u) <= Chars(g)
    OBVIOUS
  <2>2. Only(Append(g, x), T) = IF x \in T THEN Append(u, x) ELSE u
    BY <2>1, OnlyOfAppend
  <2>3. Chars(Append(g, x)) = Chars(g) + Cut(x)
    BY <2>1, CharsOfAppend
  <2>4. u \in Seq(X)
    <3>1. Seq({y \in X : y \in T}) \subseteq Seq(X)
      OBVIOUS
    <3> QED
      BY <2>1, <3>1, OnlyType
  <2> HIDE DEF u
  <2>5. Chars(Append(u, x)) = Chars(u) + Cut(x)
    BY <2>4, CharsOfAppend
  <2>6. Cut(x) \in Nat
    OBVIOUS
  <2>7. Chars(Append(g, x)) \in Nat
    BY <2>1, <2>3, <2>6
  <2>8. CASE x \in T
    <3>1. Only(Append(g, x), T) = Append(u, x)
      BY <2>2, <2>8
    <3>2. Chars(Append(u, x)) \in Nat /\ Chars(Append(u, x)) <= Chars(Append(g, x))
      BY <2>1, <2>3, <2>5, <2>6
    <3> QED
      BY <2>1, <2>7, <3>1, <3>2
  <2>9. CASE x \notin T
    <3>1. Only(Append(g, x), T) = u
      BY <2>2, <2>9
    <3>2. Chars(u) <= Chars(Append(g, x))
      BY <2>1, <2>3, <2>6
    <3> QED
      BY <2>1, <2>7, <3>1, <3>2
  <2> QED
    BY <2>8, <2>9
<1>3. P \subseteq Seq(X)
  OBVIOUS
<1>4. P = Seq(X)
  <2> HIDE DEF P
  <2> QED
    BY <1>1, <1>2, <1>3, SequenceInduction
<1> QED
  BY <1>4

\* A history that fits is carried whole.
LEMMA ShortIsCarried ==
    ASSUME NEW X, NEW h \in Seq(X), \A x \in X : Cut(x) \in Nat,
           MaxHistoryMsgs \in Nat, MaxTotalChars \in Nat,
           Len(h) <= MaxHistoryMsgs, Chars(h) <= MaxTotalChars
    PROVE  NormalizeHistory(h) = Only(h, NotBlank(h))
<1> DEFINE w == Only(h, NotBlank(h))
           fits == {n \in 0..Len(w) : Chars(SubSeq(w, 1, n)) <= MaxTotalChars}
<1>1. LastN(h, MaxHistoryMsgs) = h
  BY LastNIs
<1>2. NormalizeHistory(h) = SubSeq(w, 1, Max(fits))
  BY <1>1 DEF NormalizeHistory
<1>3. w \in Seq(X)
  <2> DEFINE T == NotBlank(h)
  <2>1. Seq({y \in X : y \in T}) \subseteq Seq(X)
    OBVIOUS
  <2> HIDE DEF T
  <2>2. Only(h, T) \in Seq({y \in X : y \in T})
    BY OnlyType
  <2> QED
    BY <2>1, <2>2 DEF T
<1>4. Chars(w) <= MaxTotalChars
  <2>1. Chars(h) \in Nat /\ Chars(w) \in Nat /\ Chars(w) <= Chars(h)
    BY CharsOfOnly
  <2> HIDE DEF w
  <2> QED
    BY <2>1
<1> HIDE DEF w
<1>5. SubSeq(w, 1, Len(w)) = w
  BY <1>3, SubSeqFull
<1>6. Len(w) \in Nat /\ Len(w) \in fits /\ fits \subseteq 0..Len(w)
  <2>1. Len(w) \in Nat
    BY <1>3
  <2>2. Len(w) \in 0..Len(w)
    BY <2>1
  <2>3. Chars(SubSeq(w, 1, Len(w))) <= MaxTotalChars
    BY <1>4, <1>5
  <2>4. fits \subseteq 0..Len(w)
    OBVIOUS
  <2> QED
    BY <2>1, <2>2, <2>3, <2>4
<1> HIDE DEF fits
<1>7. Max(fits) \in fits /\ Len(w) <= Max(fits)
  BY <1>6, MaxIs
<1>8. Max(fits) = Len(w)
  <2>1. Max(fits) \in 0..Len(w)
    BY <1>6, <1>7
  <2> QED
    BY <2>1, <1>6, <1>7
<1> QED
  BY <1>2, <1>5, <1>8 DEF w

-----------------------------------------------------------------------------
(* Types.                                                                  *)

Sess == [history : Seq(Halves), kinds : SUBSET SourceKinds]

Posts == [pc : {"new", "read", "asking", "done"}, id : Ids \cup {NoId},
          history : Seq(Halves), kinds : SUBSET SourceKinds,
          chars : Nat, stale : BOOLEAN]

\* A page is empty, the answer to a search that found nothing, or the rendering
\* of one reply.
Fragment(p) ==
    \/ p = NoPage
    \/ p = [reply |-> <<Piece("text")>>, results |-> <<>>, shown |-> <<Piece("text")>>]
    \/ \E reply \in ModelReplies, results \in Seq(Results) :
            p = [reply |-> reply, results |-> results,
                 shown |-> Rendered(Answer(reply, results), results)]

Types ==
    /\ sessions \in [Ids -> Sess \cup {NoSession}]
    /\ cookie \in drawn \cup {NoId}
    /\ tab \in [Tabs -> [id : Ids \cup {NoId}, clearing : BOOLEAN]]
    /\ \A t \in Tabs : tab[t].id \in drawn \cup {NoId}
    /\ drawn \subseteq Ids
    /\ post \in [Messages -> Posts]
    /\ \A m \in Messages : post[m].id \in drawn \cup {NoId}
    /\ said \in [Ids -> Seq(Messages)]
    /\ cleared \subseteq drawn

LEMMA NextIdIs ==
    ASSUME Ids \ drawn # {}
    PROVE  NextId \in Ids /\ NextId \notin drawn
<1> DEFINE T == Ids \ drawn
<1>1. T \subseteq Nat /\ T # {}
  BY ChatAssumption
<1>2. NextId = Min(T)
  BY DEF NextId
<1> HIDE DEF T
<1>3. Min(T) \in T
  BY <1>1, MinIs
<1> QED
  BY <1>2, <1>3 DEF T

LEMMA LastNType ==
    ASSUME NEW X, NEW s \in Seq(X), NEW n \in Nat
    PROVE  LastN(s, n) \in Seq(X)
<1>1. CASE Len(s) <= n
  BY <1>1, LastNIs
<1>2. CASE n <= Len(s)
  <2>1. SubSeq(s, Len(s) - n + 1, Len(s)) \in Seq(X)
    <3>1. Len(s) \in Nat /\ Len(s) - n + 1 \in 1..Len(s) + 1
      BY <1>2
    <3> QED
      BY <3>1, SubSeqIs
  <2> QED
    BY <1>2, <2>1, LastNIs
<1>3. Len(s) \in Nat
  OBVIOUS
<1> QED
  BY <1>1, <1>2, <1>3

\* A session that is opened is one, with what it held or with nothing.
LEMMA OpenedIs ==
    ASSUME Types, NEW s \in Ids
    PROVE  Opened(s) \in Sess
<1>1. NewSession \in Sess
  BY DEF NewSession, Sess
<1>2. sessions[s] \in Sess \cup {NoSession}
  BY DEF Types
<1> QED
  BY <1>1, <1>2 DEF Opened

\* Both ways to answer append one exchange and show a fragment.
LEMMA FoundIs ==
    ASSUME NEW found \in Found, NEW kinds
    PROVE  OfKinds(found, kinds) \in Seq(Results)
<1> DEFINE T == {r \in Results : Result[r].kind \in kinds}
<1>1. found \in Seq(Results)
  BY ChatAssumption
<1>2. Only(found, T) \in Seq(Results)
  <2>1. Seq({x \in Results : x \in T}) \subseteq Seq(Results)
    OBVIOUS
  <2> HIDE DEF T
  <2>2. Only(found, T) \in Seq({x \in Results : x \in T})
    BY <1>1, OnlyType
  <2> QED
    BY <2>1, <2>2
<1> QED
  BY <1>1, <1>2 DEF OfKinds

LEMMA AnswerLength ==
    ASSUME NEW reply \in ModelReplies, NEW results \in Seq(Results)
    PROVE  Len(Answer(reply, results)) \in Nat
<1>1. reply \in Seq(Range(reply))
  BY ChatAssumption
<1>2. PICK Z : Answer(reply, results) \in Seq(Z)
  BY <1>1, AnswerType
<1> QED
  BY <1>2

\* Appending an exchange, whatever the answer was.
Appends(m) ==
    \E answer, shown : Len(answer) \in Nat /\ Fragment(shown) /\ AppendTurn(m, answer, shown)

LEMMA AnswersAppend ==
    ASSUME NEW m \in Messages, NothingFound(m) \/ Answered(m)
    PROVE  Appends(m)
<1>1. CASE NothingFound(m)
  <2> DEFINE text == <<Piece("text")>>
             fragment == [reply |-> text, results |-> <<>>, shown |-> text]
  <2>1. AppendTurn(m, text, fragment)
    BY <1>1 DEF NothingFound
  <2>2. Fragment(fragment) /\ Len(text) \in Nat
    BY DEF Fragment
  <2> HIDE DEF text, fragment
  <2> QED
    BY <2>1, <2>2 DEF Appends
<1>2. CASE Answered(m)
  <2>1. PICK found \in Found, reply \in ModelReplies :
            LET results == OfKinds(found, post[m].kinds) IN
            AppendTurn(m, Answer(reply, results),
                       [reply |-> reply, results |-> results,
                        shown |-> Rendered(Answer(reply, results), results)])
    BY <1>2 DEF Answered
  <2> DEFINE results == OfKinds(found, post[m].kinds)
             answer == Answer(reply, results)
             fragment == [reply |-> reply, results |-> results,
                          shown |-> Rendered(answer, results)]
  <2>2. results \in Seq(Results)
    BY FoundIs
  <2>3. Len(answer) \in Nat
    BY <2>2, AnswerLength
  <2>4. Fragment(fragment)
    BY <2>2 DEF Fragment
  <2>5. AppendTurn(m, answer, fragment)
    BY <2>1
  <2> HIDE DEF answer, fragment
  <2> QED
    BY <2>3, <2>4, <2>5 DEF Appends
<1> QED
  BY <1>1, <1>2

LEMMA NewPostIs ==
    /\ NewPost \in Posts
    /\ NewPost.id = NoId
<1> DEFINE none == <<>>
<1>1. none \in Seq(Halves)
  OBVIOUS
<1>2. NewPost = [pc |-> "new", id |-> NoId, history |-> none, kinds |-> {},
                 chars |-> 0, stale |-> FALSE]
  BY DEF NewPost
<1> HIDE DEF none
<1> QED
  BY <1>1, <1>2 DEF Posts

LEMMA EndedIs ==
    ASSUME NEW p \in Posts, NEW n \in Nat
    PROVE  /\ Ended(p, n) \in Posts
           /\ Ended(p, n).pc = "done" /\ Ended(p, n).id = NoId
           /\ Ended(p, n).stale = p.stale
<1> DEFINE new == NewPost
<1>1. new \in Posts /\ new.id = NoId
  BY NewPostIs
<1>2. Ended(p, n) = [new EXCEPT !.pc = "done", !.chars = n, !.stale = p.stale]
  BY DEF Ended
<1>3. p.stale \in BOOLEAN
  BY DEF Posts
<1> HIDE DEF new
<1> QED
  BY <1>1, <1>2, <1>3 DEF Posts

LEMMA TypesInit == Init => Types
<1> SUFFICES ASSUME Init PROVE Types
  OBVIOUS
<1> DEFINE none == <<>>
<1>1. none \in Seq(Messages) /\ said = [s \in Ids |-> none]
  BY DEF Init
<1> HIDE DEF none
<1>2. said \in [Ids -> Seq(Messages)]
  BY <1>1
<1> QED
  BY <1>2, NewPostIs DEF Init, Types

\* What AppendTurn does to a session with an id.
LEMMA TurnIs ==
    ASSUME Types, NEW m \in Messages, NEW s \in Ids
    PROVE  /\ Opened(s).history \in Seq(Halves)
           /\ Trim(Opened(s).history \o Exchange(m)) \in Seq(Halves)
           /\ [Opened(s) EXCEPT !.history = Trim(Opened(s).history \o Exchange(m))] \in Sess
<1>1. Opened(s) \in Sess
  BY OpenedIs
<1> DEFINE h == Opened(s).history
           g == h \o Exchange(m)
<1>2. h \in Seq(Halves)
  BY <1>1 DEF Sess
<1>3. g \in Seq(Halves)
  <2>1. Exchange(m) \in Seq(Halves)
    BY ExchangeIs
  <2> HIDE DEF h
  <2> QED
    BY <1>2, <2>1
<1>4. Trim(g) \in Seq(Halves)
  <2>1. 2 * MaxTurns \in Nat
    BY ChatAssumption
  <2> HIDE DEF g
  <2> QED
    BY <1>3, <2>1, LastNType DEF Trim
<1>5. [Opened(s) EXCEPT !.history = Trim(g)] \in Sess
  <2> HIDE DEF g
  <2> QED
    BY <1>1, <1>4 DEF Sess
<1> QED
  BY <1>2, <1>4, <1>5

LEMMA TypesStep == Types /\ [Next]_vars => Types'
<1> SUFFICES ASSUME Types, [Next]_vars PROVE Types'
  OBVIOUS
<1>1. ASSUME NEW t \in Tabs, Open(t) PROVE Types'
  <2>1. cookie' \in drawn' \cup {NoId} /\ drawn' \subseteq Ids /\ drawn \subseteq drawn'
    BY <1>1, NextIdIs DEF Open, Types
  <2>2. /\ tab' = [tab EXCEPT ![t].id = tab'[t].id]
        /\ tab'[t].id \in drawn'
    BY <1>1 DEF Open, Types
  <2>3. /\ tab' \in [Tabs -> [id : Ids \cup {NoId}, clearing : BOOLEAN]]
        /\ \A u \in Tabs : tab'[u].id \in drawn' \cup {NoId}
    BY <2>1, <2>2 DEF Types
  <2>4. UNCHANGED <<sessions, post, said, cleared>>
    BY <1>1 DEF Open
  <2> QED
    BY <2>1, <2>3, <2>4 DEF Types
<1>2. ASSUME NEW t \in Tabs, Clear(t) PROVE Types'
  <2> DEFINE s == tab[t].id
  <2>1. s \in drawn /\ s \in Ids
    BY <1>2 DEF Clear, Types
  <2>2. sessions' \in [Ids -> Sess \cup {NoSession}]
    BY <1>2 DEF Clear, Types
  <2>3. /\ tab' \in [Tabs -> [id : Ids \cup {NoId}, clearing : BOOLEAN]]
        /\ \A u \in Tabs : tab'[u].id = tab[u].id
    BY <1>2 DEF Clear, Types
  <2>4. post' \in [Messages -> Posts] /\ \A m \in Messages : post'[m].id = post[m].id
    <3>1. ASSUME NEW m \in Messages PROVE post'[m] \in Posts /\ post'[m].id = post[m].id
      <4>1. post'[m] = [post[m] EXCEPT !.stale = post[m].stale \/ (InFlight(m) /\ post[m].id = s)]
        BY <1>2 DEF Clear
      <4>2. post[m] \in Posts
        BY DEF Types
      <4>3. (post[m].stale \/ (InFlight(m) /\ post[m].id = s)) \in BOOLEAN
        BY <4>2 DEF Posts, InFlight
      <4> QED
        BY <4>1, <4>2, <4>3 DEF Posts
    <3>2. post' = [m \in Messages |-> post'[m]]
      BY <1>2 DEF Clear
    <3> QED
      BY <3>1, <3>2
  <2>5. said' \in [Ids -> Seq(Messages)]
    <3> DEFINE none == <<>>
    <3>1. none \in Seq(Messages) /\ said' = [said EXCEPT ![s] = none]
      BY <1>2 DEF Clear
    <3> HIDE DEF none, s
    <3> QED
      BY <3>1 DEF Types
  <2>6. /\ cleared' = cleared \cup {s}
        /\ UNCHANGED <<cookie, drawn>>
    BY <1>2 DEF Clear
  <2> QED
    BY <2>1, <2>2, <2>3, <2>4, <2>5, <2>6 DEF Types
<1>3. ASSUME NEW t \in Tabs, Cleared(t) PROVE Types'
  <2>1. cookie' \in drawn' \cup {NoId} /\ drawn' \subseteq Ids /\ drawn \subseteq drawn'
    BY <1>3, NextIdIs DEF Cleared, Types
  <2>2. /\ tab' = [tab EXCEPT ![t] = [id |-> NextId, clearing |-> FALSE]]
        /\ NextId \in Ids /\ NextId \in drawn'
    BY <1>3, NextIdIs DEF Cleared
  <2>3. /\ tab' \in [Tabs -> [id : Ids \cup {NoId}, clearing : BOOLEAN]]
        /\ \A u \in Tabs : tab'[u].id \in drawn' \cup {NoId}
    BY <2>1, <2>2 DEF Types
  <2>4. UNCHANGED <<sessions, post, said, cleared>>
    BY <1>3 DEF Cleared
  <2> QED
    BY <2>1, <2>3, <2>4 DEF Types
<1>4. ASSUME NEW t \in Tabs, NEW m \in Messages, NEW kinds \in Kinds, Read(t, m, kinds)
      PROVE Types'
  <2>1. post'[m] \in Posts /\ post'[m].id = tab[t].id
    <3> DEFINE h == IF tab[t].id = NoId \/ sessions[tab[t].id] = NoSession
                    THEN <<>> ELSE sessions[tab[t].id].history
               st == \/ tab[t].id # cookie
                     \/ \E u \in Tabs : tab[u].clearing /\ tab[u].id = tab[t].id
    <3>1. post'[m] = [post[m] EXCEPT !.pc = "read", !.id = tab[t].id, !.kinds = kinds,
                                     !.history = h, !.stale = st]
      BY <1>4 DEF Read, Types
    <3>2. h \in Seq(Halves)
      <4> DEFINE none == <<>>
      <4>1. none \in Seq(Halves)
        OBVIOUS
      <4>2. CASE tab[t].id = NoId \/ sessions[tab[t].id] = NoSession
        BY <4>1, <4>2
      <4>3. CASE ~(tab[t].id = NoId \/ sessions[tab[t].id] = NoSession)
        <5>1. sessions[tab[t].id] \in Sess
          BY <4>3 DEF Types
        <5>2. sessions[tab[t].id].history \in Seq(Halves)
          BY <5>1 DEF Sess
        <5> QED
          BY <4>3, <5>2
      <4> QED
        BY <4>2, <4>3
    <3>3. st \in BOOLEAN /\ kinds \in SUBSET SourceKinds /\ tab[t].id \in Ids \cup {NoId}
      BY ChatAssumption DEF Types
    <3>4. post[m] \in Posts
      BY DEF Types
    <3> HIDE DEF h, st
    <3> QED
      BY <3>1, <3>2, <3>3, <3>4 DEF Posts
  <2>2. post' = [post EXCEPT ![m] = post'[m]]
    BY <1>4 DEF Read, Types
  <2>3. post' \in [Messages -> Posts] /\ \A k \in Messages : post'[k].id \in drawn \cup {NoId}
    BY <2>1, <2>2 DEF Types
  <2>4. UNCHANGED <<sessions, cookie, tab, drawn, said, cleared>>
    BY <1>4 DEF Read
  <2> QED
    BY <2>3, <2>4 DEF Types
<1>5. ASSUME NEW m \in Messages, SetKinds(m) PROVE Types'
  <2> DEFINE s == post[m].id
  <2>1. post[m] \in Posts /\ s \in drawn \cup {NoId}
    BY DEF Types
  <2>2. /\ post' \in [Messages -> Posts]
        /\ \A k \in Messages : post'[k].id = post[k].id
    <3>1. post' = [post EXCEPT ![m].pc = "asking"]
      BY <1>5 DEF SetKinds
    <3>2. [post[m] EXCEPT !.pc = "asking"] \in Posts
      BY <2>1 DEF Posts
    <3> QED
      BY <2>1, <3>1, <3>2 DEF Types, Posts
  <2>3. sessions' \in [Ids -> Sess \cup {NoSession}]
    <3>1. CASE s = NoId
      BY <1>5, <3>1 DEF SetKinds, Types
    <3>2. CASE s # NoId
      <4> DEFINE k == IF post[m].kinds = {} THEN Opened(s).kinds ELSE post[m].kinds
      <4>1. s \in Ids /\ Opened(s) \in Sess
        BY <2>1, <3>2, OpenedIs DEF Types
      <4>2. k \in SUBSET SourceKinds
        BY <2>1, <4>1 DEF Posts, Sess
      <4>3. sessions' = [sessions EXCEPT ![s] = [Opened(s) EXCEPT !.kinds = k]]
        BY <1>5, <3>2 DEF SetKinds
      <4> HIDE DEF k, s
      <4>4. [Opened(s) EXCEPT !.kinds = k] \in Sess
        BY <4>1, <4>2 DEF Sess
      <4> QED
        BY <4>1, <4>3, <4>4 DEF Types
    <3> QED
      BY <3>1, <3>2
  <2>4. UNCHANGED <<cookie, tab, drawn, said, cleared>>
    BY <1>5 DEF SetKinds
  <2> QED
    BY <2>2, <2>3, <2>4 DEF Types
<1>6. ASSUME NEW m \in Messages, Appends(m) PROVE Types'
  <2>1. PICK answer, shown : Len(answer) \in Nat /\ AppendTurn(m, answer, shown)
    BY <1>6 DEF Appends
  <2> DEFINE s == post[m].id
  <2>2. post[m] \in Posts /\ s \in drawn \cup {NoId}
    BY DEF Types
  <2>3. /\ post' \in [Messages -> Posts]
        /\ \A k \in Messages : post'[k].id \in drawn \cup {NoId}
    <3>1. post' = [post EXCEPT ![m] = Ended(post[m], Len(answer))]
      BY <2>1 DEF AppendTurn
    <3>2. Ended(post[m], Len(answer)) \in Posts /\ Ended(post[m], Len(answer)).id = NoId
      BY <2>1, <2>2, EndedIs
    <3> QED
      BY <3>1, <3>2 DEF Types
  <2>4. /\ sessions' \in [Ids -> Sess \cup {NoSession}]
        /\ said' \in [Ids -> Seq(Messages)]
    <3>1. CASE s = NoId
      BY <2>1, <3>1 DEF AppendTurn, Types
    <3>2. CASE s # NoId
      <4> DEFINE new == [Opened(s) EXCEPT !.history = Trim(Opened(s).history \o Exchange(m))]
      <4>1. s \in Ids
        BY <2>2, <3>2 DEF Types
      <4>2. new \in Sess
        BY <4>1, TurnIs
      <4>3. sessions' = [sessions EXCEPT ![s] = new]
        BY <2>1, <3>2 DEF AppendTurn
      <4>4. said' = [said EXCEPT ![s] = Append(said[s], m)]
        BY <2>1, <3>2 DEF AppendTurn
      <4>5. Append(said[s], m) \in Seq(Messages)
        BY <4>1 DEF Types
      <4> HIDE DEF new, s
      <4> QED
        BY <4>1, <4>2, <4>3, <4>4, <4>5 DEF Types
    <3> QED
      BY <3>1, <3>2
  <2>5. UNCHANGED <<cookie, tab, drawn, cleared>>
    BY <2>1 DEF AppendTurn
  <2> QED
    BY <2>3, <2>4, <2>5 DEF Types
<1>7. ASSUME NEW m \in Messages, Failed(m) PROVE Types'
  <2>1. Ended(post[m], 0) \in Posts /\ Ended(post[m], 0).id = NoId
    BY EndedIs DEF Types
  <2>2. post' = [post EXCEPT ![m] = Ended(post[m], 0)]
    BY <1>7 DEF Failed
  <2>3. UNCHANGED <<sessions, cookie, tab, drawn, said, cleared>>
    BY <1>7 DEF Failed
  <2> QED
    BY <2>1, <2>2, <2>3 DEF Types
<1>8. ASSUME Restart PROVE Types'
  <2>1. \A m \in Messages : Ended(post[m], 0) \in Posts /\ Ended(post[m], 0).id = NoId
    BY EndedIs DEF Types
  <2>2. post' = [m \in Messages |-> IF InFlight(m) THEN Ended(post[m], 0) ELSE post[m]]
    BY <1>8 DEF Restart
  <2>3. post' \in [Messages -> Posts] /\ \A m \in Messages : post'[m].id \in drawn \cup {NoId}
    BY <2>1, <2>2 DEF Types
  <2>4. said' \in [Ids -> Seq(Messages)]
    <3> DEFINE none == <<>>
    <3>1. none \in Seq(Messages) /\ said' = [s \in Ids |-> none]
      BY <1>8 DEF Restart
    <3> HIDE DEF none
    <3> QED
      BY <3>1
  <2>5. sessions' \in [Ids -> Sess \cup {NoSession}]
    BY <1>8 DEF Restart
  <2>6. UNCHANGED <<cookie, tab, drawn, cleared>>
    BY <1>8 DEF Restart
  <2> QED
    BY <2>3, <2>4, <2>5, <2>6 DEF Types
<1>9. CASE UNCHANGED vars
  BY <1>9 DEF vars, Types
<1> QED
  BY <1>1, <1>2, <1>3, <1>4, <1>5, <1>6, <1>7, <1>8, <1>9, AnswersAppend DEF Next

-----------------------------------------------------------------------------
(* Histories.                                                              *)

HistoryOf(s) == IF sessions[s] = NoSession THEN <<>> ELSE sessions[s].history

LEMMA OpenedHistory ==
    ASSUME NEW s
    PROVE  Opened(s).history = HistoryOf(s)
  BY DEF Opened, NewSession, HistoryOf

LEMMA SessionIsNotNone ==
    ASSUME NEW x \in Sess
    PROVE  x # NoSession
  BY ChatAssumption DEF Sess

LEMMA NothingSaid == Exchanges(LastN(<<>>, MaxTurns)) = <<>>
<1> DEFINE none == <<>>
<1>1. none \in Seq(Messages) /\ Len(none) = 0 /\ MaxTurns \in Nat
  BY ChatAssumption
<1> HIDE DEF none
<1>2. LastN(none, MaxTurns) = none
  <2>1. Len(none) <= MaxTurns
    BY <1>1
  <2> QED
    BY <1>1, <2>1, LastNIs
<1> QED
  BY <1>2, ExchangesOfNone DEF none

\* One session and what was said in it, at the next state.
Recent(s) == HistoryOf(s) = Exchanges(LastN(said[s], MaxTurns))

LEMMA RecentStep == Types /\ HistoryIsRecent /\ [Next]_vars => HistoryIsRecent'
<1> SUFFICES ASSUME Types, HistoryIsRecent, [Next]_vars, NEW z \in Ids
             PROVE  Recent(z)'
  BY DEF HistoryIsRecent, Recent, HistoryOf
<1>0. Recent(z)
  BY DEF HistoryIsRecent, Recent, HistoryOf
<1>a. ASSUME sessions'[z] = sessions[z], said'[z] = said[z] PROVE Recent(z)'
  BY <1>0, <1>a DEF Recent, HistoryOf
<1>b. ASSUME sessions'[z] = NoSession, said'[z] = <<>> PROVE Recent(z)'
  BY <1>b, NothingSaid DEF Recent, HistoryOf
<1>1. ASSUME NEW t \in Tabs, Clear(t) PROVE Recent(z)'
  <2> DEFINE s == tab[t].id
  <2>1. /\ sessions' = [sessions EXCEPT ![s] = NoSession]
        /\ said' = [said EXCEPT ![s] = <<>>]
    BY <1>1 DEF Clear
  <2>2. CASE z = s
    <3>1. sessions'[z] = NoSession /\ said'[z] = <<>>
      BY <2>1, <2>2 DEF Types
    <3> QED
      BY <1>b, <3>1
  <2>3. CASE z # s
    <3>1. sessions'[z] = sessions[z] /\ said'[z] = said[z]
      BY <2>1, <2>3 DEF Types
    <3> QED
      BY <1>a, <3>1
  <2> QED
    BY <2>2, <2>3
<1>2. ASSUME NEW m \in Messages, SetKinds(m) PROVE Recent(z)'
  <2> DEFINE s == post[m].id
             new == [Opened(s) EXCEPT !.kinds = IF post[m].kinds = {} THEN @ ELSE post[m].kinds]
  <2>1. said' = said
    BY <1>2 DEF SetKinds
  <2>2. CASE s = NoId \/ z # s
    <3>1. sessions'[z] = sessions[z]
      BY <1>2, <2>2 DEF SetKinds, Types
    <3> QED
      BY <1>a, <2>1, <3>1
  <2>3. CASE s # NoId /\ z = s
    <3>1. sessions'[z] = new
      BY <1>2, <2>3 DEF SetKinds, Types
    <3>2. sessions' \in [Ids -> Sess \cup {NoSession}]
      BY TypesStep DEF Types
    <3>3. new.history = Opened(s).history
      <4>1. Opened(s) \in Sess
        BY <2>3, OpenedIs
      <4> QED
        BY <4>1 DEF Sess
    <3>4. new \in Sess
      <4>1. Opened(s) \in Sess /\ post[m] \in Posts
        BY <2>3, OpenedIs DEF Types
      <4>2. (IF post[m].kinds = {} THEN Opened(s).kinds ELSE post[m].kinds) \in SUBSET SourceKinds
        BY <4>1 DEF Sess, Posts
      <4> QED
        BY <4>1, <4>2 DEF Sess
    <3>5. HistoryOf(z)' = Opened(s).history
      <4> HIDE DEF new
      <4> QED
        BY <3>1, <3>3, <3>4, SessionIsNotNone DEF HistoryOf
    <3>6. HistoryOf(z)' = HistoryOf(z)
      BY <2>3, <3>5, OpenedHistory
    <3> QED
      BY <1>0, <2>1, <3>6 DEF Recent
  <2> QED
    BY <2>2, <2>3
<1>3. ASSUME NEW m \in Messages, Appends(m) PROVE Recent(z)'
  <2>1. PICK answer, shown : AppendTurn(m, answer, shown)
    BY <1>3 DEF Appends
  <2> DEFINE s == post[m].id
             h == Opened(s).history
             new == [Opened(s) EXCEPT !.history = Trim(h \o Exchange(m))]
  <2>2. CASE s = NoId \/ z # s
    <3>1. sessions'[z] = sessions[z] /\ said'[z] = said[z]
      BY <2>1, <2>2 DEF AppendTurn, Types
    <3> QED
      BY <1>a, <3>1
  <2>3. CASE s # NoId /\ z = s
    <3>1. sessions'[z] = new /\ said'[z] = Append(said[z], m)
      BY <2>1, <2>3 DEF AppendTurn, Types
    <3>2. new \in Sess /\ Opened(s) \in Sess
      BY <2>3, TurnIs, OpenedIs
    <3>3. new.history = Trim(h \o Exchange(m))
      <4> DEFINE g == Trim(h \o Exchange(m))
      <4> HIDE DEF g
      <4> QED
        BY <3>2 DEF Sess, g
    <3>4. h = Exchanges(LastN(said[z], MaxTurns))
      BY <1>0, <2>3, OpenedHistory DEF Recent
    <3>5. Trim(Exchanges(LastN(said[z], MaxTurns)) \o Exchange(m))
            = Exchanges(LastN(Append(said[z], m), MaxTurns))
      <4>1. said[z] \in Seq(Messages) /\ MaxTurns \in Nat \ {0}
        BY ChatAssumption DEF Types
      <4> QED
        BY <4>1, AnswerExtends
    <3>6. HistoryOf(z)' = Trim(h \o Exchange(m))
      <4> HIDE DEF new, h
      <4> QED
        BY <3>1, <3>2, <3>3, SessionIsNotNone DEF HistoryOf
    <3> QED
      BY <3>1, <3>4, <3>5, <3>6 DEF Recent
  <2> QED
    BY <2>2, <2>3
<1>4. ASSUME Restart PROVE Recent(z)'
  <2>1. sessions'[z] = NoSession /\ said'[z] = <<>>
    BY <1>4 DEF Restart
  <2> QED
    BY <1>b, <2>1
<1>5. ASSUME UNCHANGED <<sessions, said>> PROVE Recent(z)'
  BY <1>a, <1>5
<1>6. ASSUME NEW t \in Tabs, Open(t) \/ Cleared(t) PROVE Recent(z)'
  BY <1>5, <1>6 DEF Open, Cleared
<1>7. ASSUME NEW t \in Tabs, NEW m \in Messages, NEW kinds \in Kinds, Read(t, m, kinds)
      PROVE Recent(z)'
  BY <1>5, <1>7 DEF Read
<1>8. ASSUME NEW m \in Messages, Failed(m) PROVE Recent(z)'
  BY <1>5, <1>8 DEF Failed
<1>9. CASE UNCHANGED vars
  BY <1>5, <1>9 DEF vars
<1> QED
  BY <1>1, <1>2, <1>3, <1>4, <1>6, <1>7, <1>8, <1>9, AnswersAppend DEF Next

LEMMA RecentInit == Init => HistoryIsRecent
<1> SUFFICES ASSUME Init, NEW s \in Ids PROVE Recent(s)
  BY DEF HistoryIsRecent, Recent, HistoryOf
<1>1. sessions[s] = NoSession /\ said[s] = <<>>
  BY DEF Init
<1> QED
  BY <1>1, NothingSaid DEF Recent, HistoryOf

LEMMA TypesGive == Types => TypeOK
<1> SUFFICES ASSUME Types PROVE TypeOK
  OBVIOUS
<1>1. ASSUME NEW s \in Ids, sessions[s] # NoSession
      PROVE  sessions[s].history \in Seq(Halves) /\ sessions[s].kinds \subseteq SourceKinds
  BY <1>1 DEF Types, Sess
<1>2. tab \in [Tabs -> [id : drawn \cup {NoId}, clearing : BOOLEAN]]
  BY DEF Types
<1>3. \A m \in Messages : /\ post[m].pc \in {"new", "read", "asking", "done"}
                          /\ post[m].id \in drawn \cup {NoId}
  BY DEF Types, Posts
<1> QED
  BY <1>1, <1>2, <1>3 DEF Types, TypeOK

\* In every state of the chat the state is well typed, and every session holds
\* exactly the exchanges answered since it was cleared, as far as MaxTurns goes
\* back (chat_session.go:112, 180).  Types is TypeOK with the fields that only
\* the other proofs need.
THEOREM SessionsAreExact == Spec => []ChatInv
<1>1. Init => Types /\ HistoryIsRecent
  BY TypesInit, RecentInit
<1>2. Types /\ HistoryIsRecent /\ [Next]_vars => (Types /\ HistoryIsRecent)'
  BY TypesStep, RecentStep
<1>3. Types /\ HistoryIsRecent => ChatInv
  BY TypesGive DEF ChatInv
<1> QED
  BY <1>1, <1>2, <1>3, PTL DEF Spec

-----------------------------------------------------------------------------
(* Private mode.                                                           *)

\* A request in flight for a cleared session is stale.
LateIsStale == \A m \in Messages : InFlight(m) /\ post[m].id \in cleared => post[m].stale

\* The browser keeps the cookie of a cleared session only until the answer to
\* the clear.
CookieGoes == cookie \in cleared => \E u \in Tabs : tab[u].clearing /\ tab[u].id = cookie

\* What a session holds has been answered, and was stale if it was cleared.
PrivateOf(s) ==
    \A i \in DOMAIN said[s] :
        /\ post[said[s][i]].pc = "done"
        /\ s \in cleared => post[said[s][i]].stale

Private == LateIsStale /\ CookieGoes /\ \A s \in Ids : PrivateOf(s)

\* Nothing is said anew, no session cleared, and what was answered stays as it is.
LEMMA PrivateOfKept ==
    ASSUME Types, NEW s \in Ids, PrivateOf(s), said'[s] = said[s],
           s \in cleared' => s \in cleared,
           \A m \in Messages : post[m].pc = "done" =>
                post'[m].pc = "done" /\ (post[m].stale => post'[m].stale)
    PROVE  PrivateOf(s)'
<1> SUFFICES ASSUME NEW i \in DOMAIN said'[s]
             PROVE  post'[said'[s][i]].pc = "done" /\ (s \in cleared' => post'[said'[s][i]].stale)
  BY DEF PrivateOf
<1>1. said[s] \in Seq(Messages)
  BY DEF Types
<1>2. i \in DOMAIN said[s] /\ said[s][i] \in Messages
  BY <1>1
<1>3. post[said[s][i]].pc = "done" /\ (s \in cleared => post[said[s][i]].stale)
  BY <1>2 DEF PrivateOf
<1> QED
  BY <1>2, <1>3

LEMMA PrivateInit == Init => Private
<1> SUFFICES ASSUME Init PROVE Private
  OBVIOUS
<1>1. \A s \in Ids : DOMAIN said[s] = {}
  BY DEF Init
<1>2. cleared = {}
  BY DEF Init
<1> QED
  BY <1>1, <1>2 DEF Private, LateIsStale, CookieGoes, PrivateOf

LEMMA PrivateStep == Types /\ Private /\ [Next]_vars => Private'
<1> SUFFICES ASSUME Types, Private, [Next]_vars
             PROVE  LateIsStale' /\ CookieGoes' /\ \A s \in Ids : PrivateOf(s)'
  BY DEF Private
<1>0. LateIsStale /\ CookieGoes /\ \A s \in Ids : PrivateOf(s)
  BY DEF Private
<1>a. cleared \subseteq drawn
  BY DEF Types
<1>1. ASSUME NEW t \in Tabs, Open(t)
      PROVE  LateIsStale' /\ CookieGoes' /\ \A s \in Ids : PrivateOf(s)'
  <2>1. UNCHANGED <<post, said, cleared>> /\ ~tab[t].clearing
    BY <1>1 DEF Open
  <2>2. LateIsStale'
    BY <1>0, <2>1 DEF LateIsStale, InFlight
  <2>3. CookieGoes'
    <3>1. CASE cookie # NoId
      <4>1. cookie' = cookie /\ \A u \in Tabs : u # t => tab'[u] = tab[u]
        BY <1>1, <3>1 DEF Open, Types
      <4> QED
        BY <1>0, <2>1, <4>1 DEF CookieGoes
    <3>2. CASE cookie = NoId
      <4>1. cookie' \notin drawn
        BY <1>1, <3>2, NextIdIs DEF Open
      <4> QED
        BY <1>a, <2>1, <4>1 DEF CookieGoes
    <3> QED
      BY <3>1, <3>2
  <2> QED
    BY <1>0, <2>1, <2>2, <2>3, PrivateOfKept
<1>2. ASSUME NEW t \in Tabs, Clear(t)
      PROVE  LateIsStale' /\ CookieGoes' /\ \A s \in Ids : PrivateOf(s)'
  <2> DEFINE c == tab[t].id
  <2>1. /\ c \in drawn /\ c \in Ids /\ ~tab[t].clearing
        /\ cleared' = cleared \cup {c} /\ cookie' = cookie
        /\ said' = [said EXCEPT ![c] = <<>>]
        /\ tab' = [tab EXCEPT ![t].clearing = TRUE]
    BY <1>2 DEF Clear, Types
  <2>2. ASSUME NEW m \in Messages
        PROVE  /\ post'[m].pc = post[m].pc /\ post'[m].id = post[m].id
               /\ post[m].stale => post'[m].stale
               /\ InFlight(m) /\ post[m].id = c => post'[m].stale
    <3>1. post'[m] = [post[m] EXCEPT !.stale = post[m].stale \/ (InFlight(m) /\ post[m].id = c)]
      BY <1>2 DEF Clear
    <3>2. post[m] \in Posts
      BY DEF Types
    <3> QED
      BY <3>1, <3>2 DEF Posts
  <2>3. LateIsStale'
    BY <1>0, <2>1, <2>2 DEF LateIsStale, InFlight
  <2>4. CookieGoes'
    <3>1. \A u \in Tabs : /\ tab'[u].id = tab[u].id
                          /\ tab[u].clearing => tab'[u].clearing
      BY <2>1 DEF Types
    <3>2. tab'[t].clearing
      BY <2>1 DEF Types
    <3> QED
      BY <1>0, <2>1, <3>1, <3>2 DEF CookieGoes
  <2>5. ASSUME NEW s \in Ids PROVE PrivateOf(s)'
    <3>1. CASE s = c
      <4>1. said'[s] = <<>>
        BY <2>1, <3>1 DEF Types
      <4>2. DOMAIN said'[s] = {}
        BY <4>1
      <4> QED
        BY <4>2 DEF PrivateOf
    <3>2. CASE s # c
      <4>1. said'[s] = said[s] /\ (s \in cleared' => s \in cleared)
        BY <2>1, <3>2 DEF Types
      <4> QED
        BY <1>0, <2>2, <4>1, PrivateOfKept
    <3> QED
      BY <3>1, <3>2
  <2> QED
    BY <2>3, <2>4, <2>5
<1>3. ASSUME NEW t \in Tabs, Cleared(t)
      PROVE  LateIsStale' /\ CookieGoes' /\ \A s \in Ids : PrivateOf(s)'
  <2>1. UNCHANGED <<post, said, cleared>> /\ cookie' \notin drawn
    BY <1>3, NextIdIs DEF Cleared
  <2>2. LateIsStale'
    BY <1>0, <2>1 DEF LateIsStale, InFlight
  <2>3. CookieGoes'
    BY <1>a, <2>1 DEF CookieGoes
  <2> QED
    BY <1>0, <2>1, <2>2, <2>3, PrivateOfKept
<1>4. ASSUME NEW t \in Tabs, NEW m \in Messages, NEW kinds \in Kinds, Read(t, m, kinds)
      PROVE  LateIsStale' /\ CookieGoes' /\ \A s \in Ids : PrivateOf(s)'
  <2>1. UNCHANGED <<cookie, tab, drawn, said, cleared>> /\ post[m].pc = "new"
    BY <1>4 DEF Read
  <2>2. \A k \in Messages : k # m => post'[k] = post[k]
    BY <1>4 DEF Read, Types
  <2>3. /\ post'[m].id = tab[t].id
        /\ tab[t].id # cookie => post'[m].stale
        /\ (\E u \in Tabs : tab[u].clearing /\ tab[u].id = tab[t].id) => post'[m].stale
    <3> DEFINE h == IF tab[t].id = NoId \/ sessions[tab[t].id] = NoSession
                    THEN <<>> ELSE sessions[tab[t].id].history
               st == \/ tab[t].id # cookie
                     \/ \E u \in Tabs : tab[u].clearing /\ tab[u].id = tab[t].id
    <3>1. post'[m] = [post[m] EXCEPT !.pc = "read", !.id = tab[t].id, !.kinds = kinds,
                                     !.history = h, !.stale = st]
      BY <1>4 DEF Read, Types
    <3>2. post[m] \in Posts
      BY DEF Types
    <3> HIDE DEF h, st
    <3>3. post'[m].id = tab[t].id /\ post'[m].stale = st
      BY <3>1, <3>2 DEF Posts
    <3> QED
      BY <3>3 DEF st
  <2>4. tab[t].id \in cleared => post'[m].stale
    BY <1>0, <2>3 DEF CookieGoes
  <2>5. LateIsStale'
    BY <1>0, <2>1, <2>2, <2>3, <2>4 DEF LateIsStale, InFlight
  <2>6. CookieGoes'
    BY <1>0, <2>1 DEF CookieGoes
  <2>7. \A k \in Messages : post[k].pc = "done" => post'[k] = post[k]
    BY <2>1, <2>2
  <2> QED
    BY <1>0, <2>1, <2>5, <2>6, <2>7, PrivateOfKept
<1>5. ASSUME NEW m \in Messages, SetKinds(m)
      PROVE  LateIsStale' /\ CookieGoes' /\ \A s \in Ids : PrivateOf(s)'
  <2>1. UNCHANGED <<cookie, tab, drawn, said, cleared>> /\ post[m].pc = "read"
    BY <1>5 DEF SetKinds
  <2>2. ASSUME NEW k \in Messages
        PROVE  /\ k # m => post'[k] = post[k]
               /\ post'[k].id = post[k].id /\ post'[k].stale = post[k].stale
    <3>1. post' = [post EXCEPT ![m].pc = "asking"] /\ post[k] \in Posts /\ post[m] \in Posts
      BY <1>5 DEF SetKinds, Types
    <3> QED
      BY <3>1 DEF Types, Posts
  <2>3. LateIsStale'
    BY <1>0, <2>1, <2>2 DEF LateIsStale, InFlight
  <2>4. CookieGoes'
    BY <1>0, <2>1 DEF CookieGoes
  <2>5. \A k \in Messages : post[k].pc = "done" => post'[k] = post[k]
    BY <2>1, <2>2
  <2> QED
    BY <1>0, <2>1, <2>3, <2>4, <2>5, PrivateOfKept
<1>b. ASSUME NEW m \in Messages, NEW n \in Nat,
             post' = [post EXCEPT ![m] = Ended(post[m], n)], cleared' = cleared
      PROVE  /\ LateIsStale'
             /\ post'[m].pc = "done" /\ post'[m].stale = post[m].stale
             /\ \A k \in Messages : post[k].pc = "done" =>
                    post'[k].pc = "done" /\ post'[k].stale = post[k].stale
  <2>1. post[m] \in Posts
    BY DEF Types
  <2>2. post'[m].pc = "done" /\ post'[m].stale = post[m].stale
    <3>1. post'[m] = Ended(post[m], n)
      BY <1>b DEF Types
    <3> QED
      BY <2>1, <3>1, EndedIs
  <2>3. \A k \in Messages : k # m => post'[k] = post[k]
    BY <1>b DEF Types
  <2> QED
    BY <1>0, <1>b, <2>2, <2>3 DEF LateIsStale, InFlight
<1>6. ASSUME NEW m \in Messages, Appends(m)
      PROVE  LateIsStale' /\ CookieGoes' /\ \A s \in Ids : PrivateOf(s)'
  <2>1. PICK answer, shown : Len(answer) \in Nat /\ AppendTurn(m, answer, shown)
    BY <1>6 DEF Appends
  <2> DEFINE c == post[m].id
  <2>2. /\ post' = [post EXCEPT ![m] = Ended(post[m], Len(answer))]
        /\ UNCHANGED <<cookie, tab, drawn, cleared>>
        /\ InFlight(m)
    BY <2>1 DEF AppendTurn, InFlight
  <2>3. /\ LateIsStale'
        /\ post'[m].pc = "done" /\ post'[m].stale = post[m].stale
        /\ \A k \in Messages : post[k].pc = "done" =>
               post'[k].pc = "done" /\ post'[k].stale = post[k].stale
    BY <1>b, <2>1, <2>2
  <2>4. CookieGoes'
    BY <1>0, <2>2 DEF CookieGoes
  <2>5. ASSUME NEW s \in Ids PROVE PrivateOf(s)'
    <3>1. CASE c = NoId \/ s # c
      <4>1. said'[s] = said[s]
        BY <2>1, <3>1 DEF AppendTurn, Types
      <4> QED
        BY <1>0, <2>2, <2>3, <4>1, PrivateOfKept
    <3>2. CASE c # NoId /\ s = c
      <4>1. said'[s] = Append(said[s], m) /\ said[s] \in Seq(Messages)
        BY <2>1, <3>2 DEF AppendTurn, Types
      <4>2. s \in cleared => post'[m].stale
        BY <1>0, <2>2, <2>3, <3>2 DEF LateIsStale
      <4>3. SUFFICES ASSUME NEW i \in DOMAIN said'[s]
                     PROVE  /\ post'[said'[s][i]].pc = "done"
                            /\ s \in cleared' => post'[said'[s][i]].stale
        BY DEF PrivateOf
      <4>4. CASE i \in DOMAIN said[s]
        <5>1. said'[s][i] = said[s][i] /\ said[s][i] \in Messages
          BY <4>1, <4>4
        <5>2. post[said[s][i]].pc = "done" /\ (s \in cleared => post[said[s][i]].stale)
          BY <1>0, <4>4 DEF PrivateOf
        <5> QED
          BY <2>2, <2>3, <5>1, <5>2
      <4>5. CASE i \notin DOMAIN said[s]
        <5>1. said'[s][i] = m
          BY <4>1, <4>5
        <5> QED
          BY <2>2, <2>3, <4>2, <5>1
      <4> QED
        BY <4>4, <4>5
    <3> QED
      BY <3>1, <3>2
  <2> QED
    BY <2>3, <2>4, <2>5
<1>7. ASSUME NEW m \in Messages, Failed(m)
      PROVE  LateIsStale' /\ CookieGoes' /\ \A s \in Ids : PrivateOf(s)'
  <2>1. /\ post' = [post EXCEPT ![m] = Ended(post[m], 0)]
        /\ UNCHANGED <<cookie, tab, drawn, said, cleared>>
    BY <1>7 DEF Failed
  <2>2. CookieGoes'
    BY <1>0, <2>1 DEF CookieGoes
  <2> QED
    BY <1>0, <1>b, <2>1, <2>2, PrivateOfKept
<1>8. ASSUME Restart
      PROVE  LateIsStale' /\ CookieGoes' /\ \A s \in Ids : PrivateOf(s)'
  <2>1. UNCHANGED <<cookie, tab, drawn, cleared>>
    BY <1>8 DEF Restart
  <2>2. CookieGoes'
    BY <1>0, <2>1 DEF CookieGoes
  <2>3. LateIsStale'
    <3>1. ASSUME NEW m \in Messages PROVE ~InFlight(m)'
      <4>1. post'[m] = IF InFlight(m) THEN Ended(post[m], 0) ELSE post[m]
        BY <1>8 DEF Restart
      <4>2. Ended(post[m], 0).pc = "done"
        BY EndedIs DEF Types
      <4> QED
        BY <4>1, <4>2 DEF InFlight
    <3> QED
      BY <3>1 DEF LateIsStale
  <2>4. ASSUME NEW s \in Ids PROVE PrivateOf(s)'
    <3>1. said'[s] = <<>>
      BY <1>8 DEF Restart
    <3>2. DOMAIN said'[s] = {}
      BY <3>1
    <3> QED
      BY <3>2 DEF PrivateOf
  <2> QED
    BY <2>2, <2>3, <2>4
<1>9. CASE UNCHANGED vars
  <2>1. UNCHANGED <<cookie, tab, post, said, cleared>>
    BY <1>9 DEF vars
  <2> QED
    BY <1>0, <2>1 DEF LateIsStale, CookieGoes, PrivateOf, InFlight
<1> QED
  BY <1>1, <1>2, <1>3, <1>4, <1>5, <1>6, <1>7, <1>8, <1>9, AnswersAppend DEF Next

\* After private mode the chat starts fresh: what a cleared session holds came
\* from a message that was on its way when it was cleared, or from a page that
\* was open in another tab (chat_handlers.go:130).  It holds because of what no
\* run shows by itself: a request in flight for a cleared session is always a
\* stale one, and the browser has the cookie of a cleared session only while
\* the answer to the clear is on its way.
THEOREM FreshAfterPrivateMode == Spec => []PrivateMode
<1>1. Init => Types /\ Private
  BY TypesInit, PrivateInit
<1>2. Types /\ Private /\ [Next]_vars => (Types /\ Private)'
  BY TypesStep, PrivateStep
<1>3. Types /\ Private => PrivateMode
  BY DEF Types, Private, PrivateOf, PrivateMode
<1> QED
  BY <1>1, <1>2, <1>3, PTL DEF Spec

-----------------------------------------------------------------------------
(* Pages.                                                                  *)

LEMMA PageIs == Spec => []Fragment(page)
<1>1. Init => Fragment(page)
  BY DEF Init, Fragment
<1>2. Fragment(page) /\ [Next]_vars => Fragment(page)'
  <2> SUFFICES ASSUME Fragment(page), [Next]_vars PROVE Fragment(page')
    BY DEF Fragment
  <2>1. page' = NoPage \/ page' = page => Fragment(page')
    BY DEF Fragment
  <2>2. ASSUME NEW t \in Tabs, Open(t) \/ Clear(t) \/ Cleared(t) PROVE Fragment(page')
    BY <2>1, <2>2 DEF Open, Clear, Cleared
  <2>3. ASSUME NEW t \in Tabs, NEW m \in Messages, NEW kinds \in Kinds, Read(t, m, kinds)
        PROVE Fragment(page')
    BY <2>1, <2>3 DEF Read
  <2>4. ASSUME NEW m \in Messages, SetKinds(m) \/ Failed(m) PROVE Fragment(page')
    BY <2>1, <2>4 DEF SetKinds, Failed
  <2>5. ASSUME NEW m \in Messages, Appends(m) PROVE Fragment(page')
    BY <2>5 DEF Appends, AppendTurn
  <2>6. ASSUME Restart PROVE Fragment(page')
    BY <2>1, <2>6 DEF Restart
  <2>7. CASE UNCHANGED vars
    BY <2>1, <2>7 DEF vars
  <2> QED
    BY <2>2, <2>3, <2>4, <2>5, <2>6, <2>7, AnswersAppend DEF Next
<1> QED
  BY <1>1, <1>2, PTL DEF Spec

\* What an answer's page is, field by field.
Shows(reply, results) ==
    /\ page.reply = reply /\ page.results = results
    /\ page.shown = Rendered(Answer(reply, results), results)

LEMMA PageCases ==
    ASSUME Fragment(page)
    PROVE  \/ /\ DOMAIN page.reply \subseteq {1} /\ page.results = <<>>
              /\ \A i \in DOMAIN page.shown : ~Has(page.shown, i, {"url"})
           \/ \E reply \in ModelReplies, results \in Seq(Results) : Shows(reply, results)
<1>1. CASE page = NoPage
  <2> DEFINE none == <<>>
  <2>1. page.reply = none /\ page.results = none /\ page.shown = none
    BY <1>1 DEF NoPage
  <2>2. DOMAIN none = {}
    OBVIOUS
  <2> QED
    BY <2>1, <2>2
<1>2. CASE page = [reply |-> <<Piece("text")>>, results |-> <<>>, shown |-> <<Piece("text")>>]
  <2> DEFINE text == <<Piece("text")>>
  <2>1. page.reply = text /\ page.results = <<>> /\ page.shown = text
    BY <1>2
  <2>2. DOMAIN text = {1} /\ text[1].kind = "text"
    BY DEF Piece
  <2> HIDE DEF text
  <2> QED
    BY <2>1, <2>2 DEF Has
<1>3. ASSUME NEW reply \in ModelReplies, NEW results \in Seq(Results),
             page = [reply |-> reply, results |-> results,
                     shown |-> Rendered(Answer(reply, results), results)]
      PROVE  Shows(reply, results)
  BY <1>3 DEF Shows
<1> QED
  BY <1>1, <1>2, <1>3 DEF Fragment

LEMMA CloseIs ==
    ASSUME NEW reply, NEW n \in DOMAIN reply, n > 1,
           reply[1] = Piece("<scratchpad>"), reply[n] = Piece("</scratchpad>"),
           \A i \in DOMAIN reply \ {1, n} : ~Has(reply, i, Tags)
    PROVE  (CHOOSE k \in DOMAIN reply : reply[k] = Piece("</scratchpad>")) = n
<1>1. \A k \in DOMAIN reply : reply[k] = Piece("</scratchpad>") => k = n
  BY DEF Piece, Has, Tags
<1> QED
  BY <1>1

LEMMA FormatShown ==
    ASSUME Fragment(page)
    PROVE  OnlyTheAnswerIsShown
<1> SUFFICES ASSUME FollowsFormat(page.reply) PROVE OnlyTheAnswerIsShown
  BY DEF OnlyTheAnswerIsShown
<1> DEFINE reply == page.reply
           results == page.results
<1>1. PICK n \in DOMAIN reply :
            /\ n > 1 /\ n < Len(reply)
            /\ reply[1] = Piece("<scratchpad>")
            /\ reply[n] = Piece("</scratchpad>")
            /\ \A i \in DOMAIN reply \ {1, n} : ~Has(reply, i, Tags)
            /\ \A i \in 1..n : ~Has(reply, i, {"links"})
            /\ reply[n + 1].kind = "text"
  BY DEF FollowsFormat
<1>2. reply \in ModelReplies /\ results \in Seq(Results) /\ Shows(reply, results)
  <2>1. CASE DOMAIN page.reply \subseteq {1}
    BY <1>1, <2>1
  <2>2. CASE \E r \in ModelReplies, rs \in Seq(Results) : Shows(r, rs)
    BY <2>2 DEF Shows
  <2> QED
    BY <2>1, <2>2, PageCases
<1>3. reply \in Seq(Range(reply))
  BY <1>2, ChatAssumption
<1>4. (CHOOSE k \in DOMAIN reply : reply[k] = Piece("</scratchpad>")) = n
  <2> HIDE DEF reply
  <2> QED
    BY <1>1, CloseIs
<1>5. /\ reply[1].kind = "<scratchpad>" /\ reply[n].kind = "</scratchpad>"
      /\ \A i \in DOMAIN reply \ {1, n} : reply[i].kind \notin Tags
      /\ \A i \in 1..n : reply[i].kind # "links"
  BY <1>1 DEF Piece, Has
<1>6. Rendered(Answer(reply, results), results)
        = Kept(SubSeq(reply, n + 1, Len(reply)), results)
  <2> HIDE DEF reply, results
  <2> QED
    BY <1>1, <1>2, <1>3, <1>5, FormatKept
<1>7. page.shown = Rendered(Answer(reply, results), results)
  BY <1>2 DEF Shows
<1> QED
  BY <1>2, <1>4, <1>6, <1>7 DEF OnlyTheAnswerIsShown, Shows, Kept

LEMMA LinksShown ==
    ASSUME Fragment(page)
    PROVE  LinksComeFromSources
<1>1. CASE /\ DOMAIN page.reply \subseteq {1} /\ page.results = <<>>
           /\ \A i \in DOMAIN page.shown : ~Has(page.shown, i, {"url"})
  <2>1. DOMAIN page.results = {}
    BY <1>1
  <2> QED
    BY <1>1, <2>1 DEF LinksComeFromSources
<1>2. ASSUME NEW reply \in ModelReplies, NEW results \in Seq(Results), Shows(reply, results)
      PROVE  LinksComeFromSources
  <2> DEFINE X == Range(reply)
             shown == Rendered(Answer(reply, results), results)
  <2>1. reply \in Seq(X)
    BY ChatAssumption
  <2>2. \A x \in X : x.kind = "cite" => x.n \in Nat
    BY ChatAssumption DEF Range
  <2>3. /\ page.reply = reply /\ page.results = results /\ page.shown = shown
    BY <1>2 DEF Shows
  <2>4. ASSUME NEW i \in DOMAIN shown, Has(shown, i, {"url"})
        PROVE  shown[i].url \in ExtractURLs(results)
    <3> HIDE DEF X
    <3> QED
      BY <2>1, <2>2, <2>4, ShownLinksAllowed
  <2>5. ASSUME NEW n \in DOMAIN results, reply # <<>>,
               \A i \in DOMAIN reply : ~Has(reply, i, {"links"}),
               Last(reply) = Cite(n - 1), SourceLinkURL(results[n]) # NoUrl
        PROVE  Last(shown) = Url(SourceLinkURL(results[n]))
    <3>1. Lacks(reply, {"links"})
      BY <2>5 DEF Lacks, Has
    <3> HIDE DEF X
    <3> QED
      BY <2>1, <2>5, <3>1, CitationKept
  <2> HIDE DEF X, shown
  <2> QED
    BY <2>3, <2>4, <2>5 DEF LinksComeFromSources
<1> QED
  BY <1>1, <1>2, PageCases

\* Of a reply in the format the prompt asks for, the user sees the answer, as
\* far as its own "Links:" section, and nothing of the scratchpad, after every
\* pass of the handler (chat_handlers.go:214-261) and whatever the model may
\* answer.
THEOREM FormatIsShown == Spec => []OnlyTheAnswerIsShown
<1>1. Fragment(page) => OnlyTheAnswerIsShown
  BY FormatShown
<1> QED
  BY <1>1, PageIs, PTL

\* Whatever the model wrote, a link the user sees is one that a source of this
\* answer has or quotes, and a citation at its end leads to the source that had
\* its number in the prompt (links_extract.go:24, links_policy.go:75,
\* inline_links.go:41).
THEOREM NoLinkIsInvented == Spec => []LinksComeFromSources
<1>1. Fragment(page) => LinksComeFromSources
  BY LinksShown
<1> QED
  BY <1>1, PageIs, PTL

-----------------------------------------------------------------------------
(* The prompt, and the kinds.                                              *)

\* A conversation that fits the limits goes into the prompt whole, up to its
\* last word (prompt.go:94).
THEOREM ShortTalkGoesWhole == Spec => []ShortTalkIsCarried
<1>1. Types => ShortTalkIsCarried
  <2> SUFFICES ASSUME Types, NEW m \in Messages,
                      Len(post[m].history) <= MaxHistoryMsgs,
                      Chars(post[m].history) <= MaxTotalChars
               PROVE  NormalizeHistory(post[m].history)
                        = Only(post[m].history, NotBlank(post[m].history))
    BY DEF ShortTalkIsCarried
  <2> DEFINE h == post[m].history
  <2>1. h \in Seq(Halves)
    BY DEF Types, Posts
  <2>2. MaxMsgChars \in Nat /\ MaxHistoryMsgs \in Nat /\ MaxTotalChars \in Nat
    BY ChatAssumption
  <2>3. \A half \in Halves : Cut(half) \in Nat
    <3>1. \A half \in Halves : Length(half) \in Nat
      BY DEF Halves, Length, Types, Posts
    <3> QED
      BY <2>2, <3>1, CutIs
  <2> HIDE DEF h
  <2> QED
    BY <2>1, <2>2, <2>3, ShortIsCarried DEF h
<1>2. Types /\ [Next]_vars => Types'
  BY TypesStep
<1> QED
  BY <1>1, <1>2, TypesInit, PTL DEF Spec

\* A session forgets the source kinds only when it is dropped: a message
\* without a selection leaves them, and one with a selection replaces them
\* (chat_session.go:157-166).
THEOREM KindsAreKept == Spec => KindsStick
<1> DEFINE Stick == \A s \in Ids :
                        /\ sessions[s] # NoSession /\ sessions'[s] # NoSession
                        /\ sessions[s].kinds # {}
                        => sessions'[s].kinds # {}
<1>1. Types /\ [Next]_vars => Stick
  <2> SUFFICES ASSUME Types, [Next]_vars, NEW z \in Ids,
                      sessions[z] # NoSession, sessions'[z] # NoSession,
                      sessions[z].kinds # {}
               PROVE  sessions'[z].kinds # {}
    OBVIOUS
  <2>1. ASSUME sessions'[z] = sessions[z] PROVE sessions'[z].kinds # {}
    BY <2>1
  <2>2. ASSUME NEW m \in Messages, SetKinds(m) PROVE sessions'[z].kinds # {}
    <3> DEFINE s == post[m].id
               k == IF post[m].kinds = {} THEN Opened(s).kinds ELSE post[m].kinds
    <3>1. CASE s = NoId \/ z # s
      BY <2>1, <2>2, <3>1 DEF SetKinds, Types
    <3>2. CASE s # NoId /\ z = s
      <4>1. sessions'[z] = [Opened(s) EXCEPT !.kinds = k]
        BY <2>2, <3>2 DEF SetKinds, Types
      <4>2. Opened(s) = sessions[z] /\ Opened(s) \in Sess
        BY <3>2, OpenedIs DEF Opened
      <4>3. k # {}
        BY <4>2
      <4> HIDE DEF k
      <4>4. sessions'[z].kinds = k
        BY <4>1, <4>2 DEF Sess
      <4> QED
        BY <4>3, <4>4
    <3> QED
      BY <3>1, <3>2
  <2>3. ASSUME NEW m \in Messages, Appends(m) PROVE sessions'[z].kinds # {}
    <3>1. PICK answer, shown : AppendTurn(m, answer, shown)
      BY <2>3 DEF Appends
    <3> DEFINE s == post[m].id
               g == Trim(Opened(s).history \o Exchange(m))
    <3>2. CASE s = NoId \/ z # s
      BY <2>1, <3>1, <3>2 DEF AppendTurn, Types
    <3>3. CASE s # NoId /\ z = s
      <4>1. sessions'[z] = [Opened(s) EXCEPT !.history = g]
        BY <3>1, <3>3 DEF AppendTurn, Types
      <4>2. Opened(s) = sessions[z] /\ Opened(s) \in Sess
        BY <3>3, OpenedIs DEF Opened
      <4> HIDE DEF g
      <4> QED
        BY <4>1, <4>2 DEF Sess
    <3> QED
      BY <3>2, <3>3
  <2>4. ASSUME NEW t \in Tabs, Clear(t) PROVE sessions'[z].kinds # {}
    <3>1. sessions' = [sessions EXCEPT ![tab[t].id] = NoSession]
      BY <2>4 DEF Clear
    <3> QED
      BY <2>1, <3>1 DEF Types
  <2>5. ASSUME Restart PROVE sessions'[z].kinds # {}
    BY <2>5 DEF Restart
  <2>6. ASSUME UNCHANGED sessions PROVE sessions'[z].kinds # {}
    BY <2>1, <2>6
  <2>7. ASSUME NEW t \in Tabs, Open(t) \/ Cleared(t) PROVE sessions'[z].kinds # {}
    BY <2>6, <2>7 DEF Open, Cleared
  <2>8. ASSUME NEW t \in Tabs, NEW m \in Messages, NEW kinds \in Kinds, Read(t, m, kinds)
        PROVE sessions'[z].kinds # {}
    BY <2>6, <2>8 DEF Read
  <2>9. ASSUME NEW m \in Messages, Failed(m) PROVE sessions'[z].kinds # {}
    BY <2>6, <2>9 DEF Failed
  <2>10. CASE UNCHANGED vars
    BY <2>6, <2>10 DEF vars
  <2> QED
    BY <2>2, <2>3, <2>4, <2>5, <2>7, <2>8, <2>9, <2>10, AnswersAppend DEF Next
<1>2. Types /\ [Next]_vars => Types'
  BY TypesStep
<1>3. Spec => [][Stick]_vars
  <2> HIDE DEF Stick
  <2> QED
    BY <1>1, <1>2, TypesInit, PTL DEF Spec
<1> QED
  BY <1>3 DEF KindsStick

=============================================================================
