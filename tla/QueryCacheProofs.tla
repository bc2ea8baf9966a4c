-------------------------- MODULE QueryCacheProofs --------------------------
(***************************************************************************)
(* Proofs about QueryCache: the map and the list hold the same elements    *)
(* (CacheInv), and a stale entry has a reason (StaleHasAReason), for any   *)
(* keys, searches, writes, capacity and expiry.                            *)
(***************************************************************************)
EXTENDS QueryCache, FiniteSetTheorems, TLAPS

-----------------------------------------------------------------------------
(* Removing an element of the list.                                        *)

LEMMA Concat ==
    ASSUME NEW S, NEW s \in Seq(S), NEW t \in Seq(S)
    PROVE  /\ s \o t \in Seq(S)
           /\ Len(s \o t) = Len(s) + Len(t)
           /\ \A i \in 1..(Len(s) + Len(t)) :
                (s \o t)[i] = IF i <= Len(s) THEN s[i] ELSE t[i - Len(s)]
  OBVIOUS

LEMMA WithoutIs ==
    ASSUME NEW p \in DOMAIN order, NEW k \in Keys, order \in Seq(Keys),
           order[p] = k, \A i, j \in DOMAIN order : order[i] = order[j] => i = j
    PROVE  /\ Without(k) \in Seq(Keys)
           /\ Len(Without(k)) = Len(order) - 1
           /\ \A i \in 1..(Len(order) - 1) :
                Without(k)[i] = IF i < p THEN order[i] ELSE order[i + 1]
<1> DEFINE s == SubSeq(order, 1, p - 1)
           t == SubSeq(order, p + 1, Len(order))
<1>1. Without(k) = s \o t
  BY DEF Without, Place
<1>2. p \in 1..Len(order) /\ Len(order) \in Nat
  OBVIOUS
<1>3. s \in Seq(Keys) /\ Len(s) = p - 1
  BY <1>2
<1>4. t \in Seq(Keys) /\ Len(t) = Len(order) - p
  BY <1>2
<1>5. \A i \in 1..(p - 1) : s[i] = order[i]
  BY <1>2
<1>6. \A i \in 1..(Len(order) - p) : t[i] = order[p + i]
  BY <1>2
<1> HIDE DEF s, t
<1>7. /\ s \o t \in Seq(Keys)
      /\ Len(s \o t) = Len(order) - 1
      /\ \A i \in 1..(Len(order) - 1) :
           (s \o t)[i] = IF i <= p - 1 THEN s[i] ELSE t[i - (p - 1)]
  <2>1. Len(s) + Len(t) = Len(order) - 1
    BY <1>2, <1>3, <1>4
  <2>2. /\ s \o t \in Seq(Keys)
        /\ Len(s \o t) = Len(s) + Len(t)
        /\ \A i \in 1..(Len(s) + Len(t)) :
             (s \o t)[i] = IF i <= Len(s) THEN s[i] ELSE t[i - Len(s)]
    BY <1>3, <1>4, Concat, SMTT(30)
  <2> QED
    BY <2>1, <2>2, <1>3, Zenon
<1>8. ASSUME NEW i \in 1..(Len(order) - 1)
      PROVE  (s \o t)[i] = IF i < p THEN order[i] ELSE order[i + 1]
  <2>1. CASE i < p
    BY <2>1, <1>2, <1>5, <1>7
  <2>2. CASE i >= p
    <3>1. i - (p - 1) \in 1..(Len(order) - p) /\ p + (i - (p - 1)) = i + 1
      BY <2>2, <1>2
    <3>2. (s \o t)[i] = t[i - (p - 1)]
      BY <2>2, <1>2, <1>7
    <3>3. t[i - (p - 1)] = order[i + 1]
      BY <3>1, <1>6
    <3>4. ~(i < p)
      BY <2>2, <1>2
    <3> QED
      BY <3>2, <3>3, <3>4
  <2>3. i < p \/ i >= p
    BY <1>2
  <2> QED
    BY <2>1, <2>2, <2>3
<1> QED
  BY <1>1, <1>7, <1>8

-----------------------------------------------------------------------------
(* What a list holds, and lists without repetition.                        *)

Elems(s) == {s[i] : i \in DOMAIN s}
Distinct(s) == \A i, j \in DOMAIN s : s[i] = s[j] => i = j

LEMMA RemovedIs ==
    ASSUME NEW k \in Keys, order \in Seq(Keys), Distinct(order), k \in Elems(order)
    PROVE  /\ Without(k) \in Seq(Keys)
           /\ Len(Without(k)) = Len(order) - 1
           /\ Distinct(Without(k))
           /\ Elems(Without(k)) = Elems(order) \ {k}
<1>1. PICK p \in DOMAIN order : order[p] = k
  BY DEF Elems
<1> DEFINE w == Without(k)
<1>2. /\ w \in Seq(Keys)
      /\ Len(w) = Len(order) - 1
      /\ \A i \in 1..(Len(order) - 1) :
           w[i] = IF i < p THEN order[i] ELSE order[i + 1]
  BY <1>1, WithoutIs DEF Distinct
<1> HIDE DEF w
<1>3. p \in 1..Len(order) /\ Len(order) \in Nat /\ DOMAIN order = 1..Len(order)
  OBVIOUS
<1>4. DOMAIN w = 1..(Len(order) - 1)
  BY <1>2
<1>5. Distinct(w)
  <2>1. SUFFICES ASSUME NEW i \in 1..(Len(order) - 1), NEW j \in 1..(Len(order) - 1),
                        w[i] = w[j]
                 PROVE  i = j
    BY <1>4 DEF Distinct
  <2>2. /\ w[i] = order[IF i < p THEN i ELSE i + 1]
        /\ w[j] = order[IF j < p THEN j ELSE j + 1]
    BY <1>2
  <2>3. (IF i < p THEN i ELSE i + 1) \in DOMAIN order /\ (IF j < p THEN j ELSE j + 1) \in DOMAIN order
    BY <1>3
  <2>4. (IF i < p THEN i ELSE i + 1) = (IF j < p THEN j ELSE j + 1)
    BY <2>1, <2>2, <2>3 DEF Distinct
  <2> QED
    BY <2>4, <1>3
<1>6. ASSUME NEW x \in Elems(w) PROVE x \in Elems(order) \ {k}
  <2>1. PICK i \in 1..(Len(order) - 1) : w[i] = x
    BY <1>4 DEF Elems
  <2>2. PICK q \in 1..Len(order) : q # p /\ order[q] = x
    <3>1. CASE i < p
      BY <3>1, <2>1, <1>2, <1>3
    <3>2. CASE ~(i < p)
      <4>1. i + 1 \in 1..Len(order) /\ i + 1 # p /\ order[i + 1] = x
        BY <3>2, <2>1, <1>2, <1>3
      <4> QED
        BY <4>1
    <3> QED
      BY <3>1, <3>2
  <2> QED
    BY <2>2, <1>1, <1>3 DEF Elems, Distinct
<1>7. ASSUME NEW x \in Elems(order) \ {k} PROVE x \in Elems(w)
  <2>1. PICK q \in 1..Len(order) : order[q] = x
    BY <1>3 DEF Elems
  <2>2. q # p
    BY <2>1, <1>1
  <2>3. CASE q < p
    <3>1. q \in 1..(Len(order) - 1) /\ w[q] = x
      BY <2>3, <2>1, <1>2, <1>3
    <3> QED
      BY <3>1, <1>4 DEF Elems
  <2>4. CASE q > p
    <3>1. /\ q - 1 \in 1..(Len(order) - 1)
          /\ ~(q - 1 < p)
          /\ (q - 1) + 1 = q
      BY <2>4, <1>3
    <3>2. w[q - 1] = order[q]
      BY <3>1, <1>2
    <3> QED
      BY <3>1, <3>2, <2>1, <1>4 DEF Elems
  <2> QED
    BY <2>2, <2>3, <2>4, <1>3
<1> QED
  BY <1>2, <1>5, <1>6, <1>7 DEF w

LEMMA PushedIs ==
    ASSUME NEW k \in Keys, NEW s \in Seq(Keys), Distinct(s), k \notin Elems(s)
    PROVE  /\ <<k>> \o s \in Seq(Keys)
           /\ Len(<<k>> \o s) = Len(s) + 1
           /\ Distinct(<<k>> \o s)
           /\ Elems(<<k>> \o s) = Elems(s) \cup {k}
<1> DEFINE w == <<k>> \o s
<1>1. <<k>> \in Seq(Keys) /\ Len(<<k>>) = 1 /\ <<k>>[1] = k /\ Len(s) \in Nat
  OBVIOUS
<1>2. /\ w \in Seq(Keys)
      /\ Len(w) = Len(s) + 1
      /\ \A i \in 1..(Len(s) + 1) : w[i] = IF i <= 1 THEN <<k>>[i] ELSE s[i - 1]
  BY <1>1, Concat
<1> HIDE DEF w
<1>3. DOMAIN w = 1..(Len(s) + 1) /\ DOMAIN s = 1..Len(s)
  BY <1>2
<1>4. w[1] = k
  BY <1>1, <1>2
<1>5. \A i \in 2..(Len(s) + 1) : i - 1 \in DOMAIN s /\ w[i] = s[i - 1]
  BY <1>1, <1>2, <1>3
<1>6. \A i \in DOMAIN w : i = 1 \/ i \in 2..(Len(s) + 1)
  BY <1>1, <1>3
<1>7. Distinct(w)
  <2>1. SUFFICES ASSUME NEW i \in DOMAIN w, NEW j \in DOMAIN w, w[i] = w[j]
                 PROVE  i = j
    BY DEF Distinct
  <2>2. CASE i = 1
    BY <2>1, <2>2, <1>4, <1>5, <1>6 DEF Elems
  <2>3. CASE j = 1
    BY <2>1, <2>3, <1>4, <1>5, <1>6 DEF Elems
  <2>4. CASE i # 1 /\ j # 1
    <3>1. i - 1 = j - 1
      BY <2>1, <2>4, <1>5, <1>6 DEF Distinct
    <3> QED
      BY <3>1, <1>3
  <2> QED
    BY <2>2, <2>3, <2>4
<1>8. ASSUME NEW x \in Elems(w) PROVE x \in Elems(s) \cup {k}
  BY <1>4, <1>5, <1>6 DEF Elems
<1>9. ASSUME NEW x \in Elems(s) PROVE x \in Elems(w)
  <2>1. PICK i \in DOMAIN s : s[i] = x
    BY DEF Elems
  <2>2. i + 1 \in 2..(Len(s) + 1) /\ (i + 1) - 1 = i
    BY <1>1, <1>3
  <2> QED
    BY <2>1, <2>2, <1>3, <1>5 DEF Elems
<1>10. k \in Elems(w)
  BY <1>1, <1>3, <1>4 DEF Elems
<1> QED
  BY <1>2, <1>7, <1>8, <1>9, <1>10 DEF w

LEMMA CutIs ==
    ASSUME order \in Seq(Keys), Distinct(order), NEW n \in 0..Len(order)
    PROVE  /\ SubSeq(order, 1, n) \in Seq(Keys)
           /\ Len(SubSeq(order, 1, n)) = n
           /\ Distinct(SubSeq(order, 1, n))
           /\ Elems(SubSeq(order, 1, n)) = Elems(order) \ {order[i] : i \in (n + 1)..Len(order)}
<1> DEFINE w == SubSeq(order, 1, n)
<1>1. Len(order) \in Nat /\ DOMAIN order = 1..Len(order)
  OBVIOUS
<1>2. w \in Seq(Keys) /\ Len(w) = n /\ \A i \in 1..n : w[i] = order[i]
  BY <1>1
<1> HIDE DEF w
<1>3. DOMAIN w = 1..n
  BY <1>1, <1>2
<1>4. Distinct(w)
  BY <1>1, <1>2, <1>3 DEF Distinct
<1>5. ASSUME NEW x \in Elems(w) PROVE x \in Elems(order) \ {order[i] : i \in (n + 1)..Len(order)}
  <2>1. PICK i \in 1..n : order[i] = x
    BY <1>2, <1>3 DEF Elems
  <2>2. i \in DOMAIN order
    BY <1>1
  <2>3. ASSUME NEW j \in (n + 1)..Len(order), order[j] = x PROVE FALSE
    <3>1. j \in DOMAIN order /\ i # j
      BY <1>1
    <3> QED
      BY <2>1, <2>2, <2>3, <3>1 DEF Distinct
  <2> QED
    BY <2>1, <2>2, <2>3 DEF Elems
<1>6. ASSUME NEW x \in Elems(order) \ {order[i] : i \in (n + 1)..Len(order)} PROVE x \in Elems(w)
  <2>1. PICK i \in 1..Len(order) : order[i] = x
    BY <1>1 DEF Elems
  <2>2. i \in 1..n
    BY <2>1, <1>1
  <2> QED
    BY <2>1, <2>2, <1>2, <1>3 DEF Elems
<1> QED
  BY <1>2, <1>4, <1>5, <1>6 DEF w

-----------------------------------------------------------------------------
(* The map and the list.                                                   *)

Known == {k \in Keys : Cached(k)}

LEMMA ListForm ==
    /\ CacheInv <=> TypeOK /\ Elems(order) = Known /\ Distinct(order) /\ Len(order) <= Capacity
    /\ CacheInv' <=> TypeOK' /\ Elems(order') = Known' /\ Distinct(order') /\ Len(order') <= Capacity
  BY DEF CacheInv, ListIsMap, Elems, Distinct, Known

LEMMA NoEntryIsNone ==
    ASSUME CacheAssumption PROVE NoEntry \notin Entry
<1>1. Entry \subseteq [value : Nat, age : Nat, overtaken : BOOLEAN]
  BY DEF Entry, CacheAssumption
<1> QED
  BY <1>1 DEF CacheAssumption

LEMMA UsedType ==
    ASSUME TypeOK, NEW k \in Keys
    PROVE  Used(k) \in [Keys -> (SUBSET Keys) \cup {NotUsed}]
<1> DEFINE U(j) == CASE j = k -> {}
                     [] j # k /\ since[j] # NotUsed /\ Cardinality(since[j] \cup {k}) < Capacity ->
                           since[j] \cup {k}
                     [] OTHER -> NotUsed
<1>1. ASSUME NEW j \in Keys PROVE U(j) \in (SUBSET Keys) \cup {NotUsed}
  <2>1. since[j] \in (SUBSET Keys) \cup {NotUsed}
    BY DEF TypeOK
  <2>2. CASE j = k
    BY <2>2
  <2>3. CASE j # k /\ since[j] # NotUsed /\ Cardinality(since[j] \cup {k}) < Capacity
    <3>1. U(j) = since[j] \cup {k}
      BY <2>3
    <3>2. since[j] \cup {k} \in SUBSET Keys
      BY <2>1, <2>3
    <3> QED
      BY <3>1, <3>2
  <2>4. CASE j # k /\ ~(since[j] # NotUsed /\ Cardinality(since[j] \cup {k}) < Capacity)
    <3>1. U(j) = NotUsed
      BY <2>4
    <3> QED
      BY <3>1
  <2> QED
    BY <2>2, <2>3, <2>4
<1>2. Used(k) = [j \in Keys |-> U(j)]
  BY DEF Used
<1> HIDE DEF U
<1> QED
  BY <1>1, <1>2

LEMMA InitCache == ASSUME CacheAssumption, Init PROVE CacheInv
<1>0. IdleSearch \in SearchState
  BY DEF CacheAssumption, SearchState, IdleSearch, SearchAt
<1>1. TypeOK
  <2>1. entries \in [Keys -> Entry \cup {NoEntry}]
    BY DEF Init
  <2>2. search \in [Searchers -> SearchState]
    BY <1>0 DEF Init
  <2>3. since \in [Keys -> (SUBSET Keys) \cup {NotUsed}]
    BY DEF Init
  <2>4. writing \subseteq Writers /\ spoiled \in BOOLEAN
    BY DEF Init
  <2>6. order \in Seq(Keys)
    BY DEF Init
  <2>5. corpus \in 0..MaxCorpus /\ faults \in 0..MaxFaults
    BY DEF Init, CacheAssumption
  <2> QED
    BY <2>1, <2>2, <2>3, <2>4, <2>5, <2>6 DEF TypeOK
<1>2. Elems(order) = Known /\ Distinct(order) /\ Len(order) <= Capacity
  BY DEF CacheAssumption, Init, Elems, Known, Distinct, Cached
<1> QED
  BY <1>1, <1>2, ListForm

LEMMA HitCache ==
    ASSUME CacheInv, NEW s \in Searchers, NEW k \in Keys, Hit(s, k)
    PROVE  CacheInv'
<1> USE ListForm
<1>1. k \in Elems(order)
  BY DEF Hit, Hits, Known
<1>2. order \in Seq(Keys) /\ Len(order) \in Nat
  BY DEF TypeOK
<1>3. /\ Without(k) \in Seq(Keys)
      /\ Len(Without(k)) = Len(order) - 1
      /\ Distinct(Without(k))
      /\ Elems(Without(k)) = Elems(order) \ {k}
  BY <1>1, <1>2, RemovedIs
<1>4. /\ order' \in Seq(Keys)
      /\ Len(order') = Len(order)
      /\ Distinct(order')
      /\ Elems(order') = Elems(order)
  <2>1. order' = <<k>> \o Without(k)
    BY DEF Hit
  <2>2. k \notin Elems(Without(k))
    BY <1>3
  <2>3. /\ order' \in Seq(Keys)
        /\ Len(order') = Len(Without(k)) + 1
        /\ Distinct(order')
        /\ Elems(order') = Elems(Without(k)) \cup {k}
    BY <1>3, <2>1, <2>2, PushedIs
  <2> QED
    BY <1>1, <1>2, <1>3, <2>3
<1>5. TypeOK'
  BY <1>4, UsedType DEF Hit, TypeOK
<1>6. Known' = Known
  BY DEF Hit, Known, Cached
<1>7. Distinct(order)' /\ Elems(order)' = Elems(order)
  BY <1>4 DEF Distinct, Elems
<1> QED
  BY <1>4, <1>5, <1>6, <1>7

LEMMA MissCache ==
    ASSUME CacheAssumption, CacheInv, NEW s \in Searchers, NEW k \in Keys, Miss(s, k)
    PROVE  CacheInv'
<1> USE ListForm
<1>0. SearchAt("loading", k) \in SearchState
  BY DEF SearchAt, SearchState, Searching, CacheAssumption
<1>1. search' \in [Searchers -> SearchState]
  BY <1>0 DEF Miss, TypeOK
<1>2. order \in Seq(Keys) /\ Len(order) \in Nat
  BY DEF TypeOK
<1>3. CASE Capacity > 0 /\ Cached(k)
  <2>1. k \in Elems(order)
    BY <1>3 DEF Known
  <2>2. /\ order' \in Seq(Keys)
        /\ Len(order') = Len(order) - 1
        /\ Distinct(order')
        /\ Elems(order') = Elems(order) \ {k}
    BY <1>2, <1>3, <2>1, RemovedIs DEF Miss
  <2>3. Known' = Known \ {k}
    BY <1>3 DEF Miss, Known, Cached, TypeOK
  <2>4. TypeOK'
    <3>1. entries' \in [Keys -> Entry \cup {NoEntry}]
      BY <1>3 DEF Miss, TypeOK
    <3>2. since' \in [Keys -> (SUBSET Keys) \cup {NotUsed}]
      BY <1>3 DEF Miss, TypeOK
    <3> QED
      BY <1>1, <1>3, <2>2, <3>1, <3>2 DEF Miss, TypeOK
  <2>5. Len(order') <= Capacity
    BY <1>2, <2>2 DEF CacheAssumption
  <2>6. Distinct(order)' /\ Elems(order)' = Elems(order) \ {k}
    BY <2>2 DEF Distinct, Elems
  <2> QED
    BY <2>3, <2>4, <2>5, <2>6
<1>4. CASE ~(Capacity > 0 /\ Cached(k))
  <2>1. TypeOK'
    BY <1>1, <1>4 DEF Miss, TypeOK
  <2> QED
    BY <1>4, <2>1 DEF Miss, Known, Cached, Elems, Distinct
<1> QED
  BY <1>3, <1>4

LEMMA InsertCache ==
    ASSUME CacheAssumption, CacheInv, NEW s \in Searchers, Insert(s)
    PROVE  CacheInv'
<1> USE ListForm
<1>0. search[s].pc = "loaded" /\ search[s] \in SearchState \ {IdleSearch} /\ search[s].key \in Keys
  BY DEF Insert, TypeOK, SearchState, Searching, IdleSearch, SearchAt
<1> DEFINE k == search[s].key
           n == IF Len(order) < Capacity THEN Len(order) ELSE Capacity - 1
           kept == SubSeq(order, 1, n)
           evicted == {order[i] : i \in Capacity..Len(order)}
<1>1. search' \in [Searchers -> SearchState]
  BY DEF Insert, TypeOK, SearchState, IdleSearch, SearchAt, CacheAssumption
<1>2. order \in Seq(Keys) /\ Len(order) \in Nat /\ Len(order) <= Capacity
  BY DEF TypeOK
<1>3. CASE Capacity > 0 /\ ~Cached(k)
  <2>1. n \in 0..Len(order) /\ n + 1 <= Capacity
    BY <1>2, <1>3 DEF CacheAssumption
  <2>2. {order[i] : i \in (n + 1)..Len(order)} = evicted
    <3>1. CASE Len(order) < Capacity
      BY <3>1, <1>2 DEF CacheAssumption
    <3>2. CASE ~(Len(order) < Capacity)
      BY <3>2, <1>2 DEF CacheAssumption
    <3> QED
      BY <3>1, <3>2
  <2> HIDE DEF n
  <2>3. /\ kept \in Seq(Keys)
        /\ Len(kept) = n
        /\ Distinct(kept)
        /\ Elems(kept) = Elems(order) \ evicted
    BY <1>2, <2>1, <2>2, CutIs
  <2> HIDE DEF evicted, kept
  <2>4. k \in Keys /\ k \notin Elems(kept)
    BY <1>0, <1>3, <2>3 DEF Known
  <2>5. order' = <<k>> \o kept
    BY <1>3 DEF Insert, kept, n
  <2>6. /\ order' \in Seq(Keys)
        /\ Len(order') = n + 1
        /\ Distinct(order')
        /\ Elems(order') = (Elems(order) \ evicted) \cup {k}
    BY <2>3, <2>4, <2>5, PushedIs
  <2>7. entries' = [[j \in Keys |-> IF j \in evicted THEN NoEntry ELSE entries[j]]
                      EXCEPT ![k] = Loaded(s)]
    BY <1>3 DEF Insert, evicted
  <2>8. Loaded(s) \in Entry
    BY <1>0 DEF Loaded, Entry, TypeOK, SearchState, Searching, CacheAssumption
  <2>9. \A j \in Keys : entries'[j] = IF j = k THEN Loaded(s)
                                      ELSE IF j \in evicted THEN NoEntry ELSE entries[j]
    BY <2>7
  <2>10. entries' \in [Keys -> Entry \cup {NoEntry}]
    BY <2>7, <2>8, <2>9 DEF TypeOK
  <2>11. Known' = (Known \ evicted) \cup {k}
    <3>1. entries'[k] # NoEntry
      BY <1>0, <2>8, <2>9, NoEntryIsNone
    <3> QED
      BY <1>0, <2>9, <3>1 DEF Known, Cached
  <2>12. TypeOK'
    BY <1>1, <1>3, <2>6, <2>10, UsedType DEF Insert, TypeOK
  <2>13. Distinct(order)' /\ Elems(order)' = (Elems(order) \ evicted) \cup {k}
    BY <2>6 DEF Distinct, Elems
  <2> QED
    BY <2>1, <2>6, <2>11, <2>12, <2>13
<1>4. CASE ~(Capacity > 0 /\ ~Cached(k))
  <2>1. TypeOK'
    BY <1>1, <1>4 DEF Insert, TypeOK
  <2> QED
    BY <1>4, <2>1 DEF Insert, Known, Cached, Elems, Distinct
<1> QED
  BY <1>3, <1>4

LEMMA SearchMoves ==
    ASSUME CacheAssumption, TypeOK, NEW s \in Searchers, Load(s) \/ LoadFails(s)
    PROVE  /\ search' \in [Searchers -> SearchState]
           /\ \A q \in Searchers \ {s} : search'[q] = search[q]
<1>1. CASE Load(s)
  <2>1. search[s].pc = "loading" /\ search[s] \in SearchState /\ corpus \in 0..MaxCorpus
    BY <1>1 DEF Load, TypeOK
  <2>4. search[s] \in Searching
    BY <2>1 DEF SearchState, IdleSearch, SearchAt
  <2>2. [search[s] EXCEPT !.pc = "loaded", !.value = corpus] \in SearchState
    BY <2>1, <2>4 DEF SearchState, Searching
  <2>3. search' = [search EXCEPT ![s] = [search[s] EXCEPT !.pc = "loaded", !.value = corpus]]
    BY <1>1 DEF Load, TypeOK
  <2> QED
    BY <2>2, <2>3 DEF TypeOK
<1>2. CASE LoadFails(s)
  BY <1>2 DEF LoadFails, TypeOK, SearchState
<1> QED
  BY <1>1, <1>2

LEMMA OvertakenType ==
    ASSUME TypeOK PROVE Overtaken \in [Searchers -> SearchState]
<1>1. ASSUME NEW s \in Searchers, search[s].pc = "loaded"
      PROVE  [search[s] EXCEPT !.overtaken = TRUE] \in SearchState
  <2>1. search[s] \in SearchState
    BY DEF TypeOK
  <2>2. search[s] \in Searching
    BY <1>1, <2>1 DEF SearchState, IdleSearch, SearchAt
  <2> QED
    BY <2>2 DEF SearchState, Searching
<1> QED
  BY <1>1 DEF Overtaken, TypeOK

\* One more tick of age for an entry.
LEMMA OlderIs ==
    ASSUME CacheAssumption, TypeOK, NEW k \in Keys, Ages(k)
    PROVE  /\ [entries[k] EXCEPT !.age = @ + 1] \in Entry
           /\ [entries[k] EXCEPT !.age = @ + 1].value = entries[k].value
           /\ [entries[k] EXCEPT !.age = @ + 1].overtaken = entries[k].overtaken
<1>1. entries[k] \in Entry
  BY DEF TypeOK, Cached, Ages
<1>2. entries[k].age \in 0..TTL
  BY <1>1 DEF Ages, Entry, Expired, CacheAssumption
<1> QED
  BY <1>1, <1>2 DEF Entry, CacheAssumption

LEMMA SameList ==
    ASSUME CacheInv, TypeOK', UNCHANGED order, Known' = Known PROVE CacheInv'
  BY ListForm DEF Elems, Distinct

LEMMA NextCache ==
    ASSUME CacheAssumption, CacheInv, [Next]_vars PROVE CacheInv'
<1>0. TypeOK
  BY DEF CacheInv
<1>1. ASSUME NEW s \in Searchers, NEW k \in Keys, Hit(s, k) PROVE CacheInv'
  BY <1>1, HitCache
<1>2. ASSUME NEW s \in Searchers, NEW k \in Keys, Miss(s, k) PROVE CacheInv'
  BY <1>2, MissCache
<1>3. ASSUME NEW s \in Searchers, Load(s) \/ LoadFails(s) PROVE CacheInv'
  <2>1. search' \in [Searchers -> SearchState]
    BY <1>0, <1>3, SearchMoves
  <2>2. UNCHANGED <<entries, order, writing, corpus, faults, spoiled, since>>
    BY <1>3 DEF Load, LoadFails
  <2>3. TypeOK'
    BY <1>0, <2>1, <2>2 DEF TypeOK
  <2> QED
    BY <2>2, <2>3, SameList DEF Known, Cached
<1>4. ASSUME NEW s \in Searchers, Insert(s) PROVE CacheInv'
  BY <1>4, InsertCache
<1>5. ASSUME NEW w \in Writers, Change(w) PROVE CacheInv'
  <2>1. TypeOK'
    BY <1>0, <1>5 DEF Change, TypeOK, CacheAssumption
  <2> QED
    BY <1>5, <2>1, SameList DEF Change, Known, Cached
<1>6. ASSUME NEW w \in Writers, Clear(w) PROVE CacheInv'
  <2>1. entries' \in [Keys -> Entry \cup {NoEntry}] /\ order' \in Seq(Keys)
    BY <1>6 DEF Clear
  <2>2. since' \in [Keys -> (SUBSET Keys) \cup {NotUsed}]
    BY <1>6 DEF Clear
  <2>3. TypeOK'
    BY <1>0, <1>6, <2>1, <2>2, OvertakenType DEF Clear, TypeOK
  <2>4. Elems(order') = Known' /\ Distinct(order') /\ Len(order') <= Capacity
    BY <1>6 DEF Clear, Elems, Distinct, Known, Cached, CacheAssumption
  <2> QED
    BY <2>3, <2>4, ListForm
<1>7. ASSUME NEW w \in Writers, WriteFails(w) PROVE CacheInv'
  <2>1. TypeOK'
    BY <1>0, <1>7 DEF WriteFails, TypeOK, CacheAssumption
  <2> QED
    BY <1>7, <2>1, SameList DEF WriteFails, Known, Cached
<1>8. ASSUME Tick PROVE CacheInv'
  <2>1. \A k \in Keys : entries'[k] \in Entry \cup {NoEntry} /\ (entries'[k] # NoEntry <=> Cached(k))
    BY <1>0, <1>8, OlderIs, NoEntryIsNone DEF Tick, TypeOK, Cached, Ages
  <2>2. TypeOK'
    BY <1>0, <1>8, <2>1 DEF Tick, TypeOK
  <2>3. Known' = Known
    BY <2>1 DEF Known, Cached
  <2> QED
    BY <1>8, <2>2, <2>3, SameList DEF Tick
<1>9. ASSUME UNCHANGED vars PROVE CacheInv'
  <2>1. TypeOK'
    BY <1>0, <1>9 DEF vars, TypeOK
  <2> QED
    BY <1>9, <2>1, SameList DEF vars, Known, Cached
<1> QED
  BY <1>1, <1>2, <1>3, <1>4, <1>5, <1>6, <1>7, <1>8, <1>9 DEF Next, SearchStep

\* The map and the list of querycache.Cache hold the same elements, each once,
\* and never more than the capacity.
THEOREM MapAndList == Spec => []CacheInv
<1>1. Init => CacheInv
  BY CacheAssumption, InitCache
<1>2. CacheInv /\ [Next]_vars => CacheInv'
  BY CacheAssumption, NextCache
<1> QED
  BY <1>1, <1>2, PTL DEF Spec

-----------------------------------------------------------------------------
(* Stale entries.                                                          *)

Reason == writing # {} \/ spoiled

LEMMA StaleForm ==
    /\ StaleHasAReason <=> \A k \in Keys :
           Cached(k) /\ entries[k].value # corpus => Reason \/ entries[k].overtaken
    /\ LoadedHasAReason <=> \A s \in Searchers :
           search[s].pc = "loaded" /\ search[s].value # corpus => Reason \/ search[s].overtaken
    /\ StaleHasAReason' <=> \A k \in Keys :
           entries'[k] # NoEntry /\ entries'[k].value # corpus' => Reason' \/ entries'[k].overtaken
    /\ LoadedHasAReason' <=> \A s \in Searchers :
           search'[s].pc = "loaded" /\ search'[s].value # corpus' => Reason' \/ search'[s].overtaken
  BY DEF StaleHasAReason, LoadedHasAReason, Reason, Cached

LEMMA NextStale ==
    ASSUME CacheAssumption, StaleInv, [Next]_vars
    PROVE  StaleHasAReason' /\ LoadedHasAReason'
<1> USE StaleForm
<1>0. TypeOK /\ StaleHasAReason /\ LoadedHasAReason
  BY DEF StaleInv
<1>1. ASSUME NEW s \in Searchers, NEW k \in Keys, Hit(s, k)
      PROVE  StaleHasAReason' /\ LoadedHasAReason'
  BY <1>0, <1>1 DEF Hit, Reason, Cached
<1>2. ASSUME NEW s \in Searchers, NEW k \in Keys, Miss(s, k)
      PROVE  StaleHasAReason' /\ LoadedHasAReason'
  <2>1. \A j \in Keys : entries'[j] # NoEntry => Cached(j) /\ entries'[j] = entries[j]
    BY <1>0, <1>2 DEF Miss, Cached, TypeOK
  <2>2. \A q \in Searchers : search'[q].pc = "loaded" => search'[q] = search[q]
    BY <1>0, <1>2 DEF Miss, TypeOK, SearchAt
  <2>3. UNCHANGED <<writing, corpus, spoiled>>
    BY <1>2 DEF Miss
  <2> QED
    BY <1>0, <2>1, <2>2, <2>3 DEF Reason
<1>3. ASSUME NEW s \in Searchers, Load(s) \/ LoadFails(s)
      PROVE  StaleHasAReason' /\ LoadedHasAReason'
  <2>1. \A q \in Searchers : search'[q].pc = "loaded" =>
            search'[q] = search[q] \/ search'[q].value = corpus
    BY <1>0, <1>3 DEF Load, LoadFails, TypeOK, SearchState, Searching, IdleSearch, SearchAt
  <2>2. UNCHANGED <<entries, writing, corpus, spoiled>>
    BY <1>3 DEF Load, LoadFails
  <2> QED
    BY <1>0, <2>1, <2>2 DEF Reason, Cached
<1>4. ASSUME NEW s \in Searchers, Insert(s)
      PROVE  StaleHasAReason' /\ LoadedHasAReason'
  <2>1. \A j \in Keys : entries'[j] # NoEntry =>
            (Cached(j) /\ entries'[j] = entries[j]) \/ entries'[j] = Loaded(s)
    BY <1>0, <1>4 DEF Insert, Cached, TypeOK
  <2>2. search[s].pc = "loaded"
    BY <1>4 DEF Insert
  <2>3. Loaded(s).value = search[s].value /\ Loaded(s).overtaken = search[s].overtaken
    BY DEF Loaded
  <2>4. \A q \in Searchers : search'[q].pc = "loaded" => search'[q] = search[q]
    BY <1>0, <1>4 DEF Insert, TypeOK, IdleSearch, SearchAt
  <2>5. UNCHANGED <<writing, corpus, spoiled>>
    BY <1>4 DEF Insert
  <2>6. StaleHasAReason'
    BY <1>0, <2>1, <2>2, <2>3, <2>5 DEF Reason
  <2>7. LoadedHasAReason'
    BY <1>0, <2>4, <2>5 DEF Reason
  <2> QED
    BY <2>6, <2>7
<1>5. ASSUME NEW w \in Writers, Change(w)
      PROVE  StaleHasAReason' /\ LoadedHasAReason'
  <2>1. Reason'
    BY <1>5 DEF Change, Reason
  <2> QED
    BY <2>1
<1>6. ASSUME NEW w \in Writers, Clear(w)
      PROVE  StaleHasAReason' /\ LoadedHasAReason'
  <2>1. \A k \in Keys : entries'[k] = NoEntry
    BY <1>6 DEF Clear
  <2>2. ASSUME NEW s \in Searchers, search'[s].pc = "loaded", search'[s].value # corpus
        PROVE  search'[s].overtaken
    <3>1. search'[s] = IF search[s].pc = "loaded" /\ search[s].value # corpus
                       THEN [search[s] EXCEPT !.overtaken = TRUE] ELSE search[s]
      BY <1>6 DEF Clear, Overtaken
    <3>2. search[s] \in SearchState
      BY <1>0 DEF TypeOK
    <3> QED
      BY <2>2, <3>1, <3>2 DEF SearchState, Searching, IdleSearch, SearchAt
  <2>3. UNCHANGED corpus
    BY <1>6 DEF Clear
  <2> QED
    BY <2>1, <2>2, <2>3
<1>7. ASSUME NEW w \in Writers, WriteFails(w)
      PROVE  StaleHasAReason' /\ LoadedHasAReason'
  <2>1. Reason'
    BY <1>7 DEF WriteFails, Reason
  <2> QED
    BY <2>1
<1>8. ASSUME Tick PROVE StaleHasAReason' /\ LoadedHasAReason'
  <2>1. \A k \in Keys : entries'[k] # NoEntry =>
            /\ Cached(k)
            /\ entries'[k].value = entries[k].value
            /\ entries'[k].overtaken = entries[k].overtaken
    BY <1>0, <1>8, OlderIs DEF Tick, Ages, Cached
  <2>2. UNCHANGED <<search, writing, corpus, spoiled>>
    BY <1>8 DEF Tick
  <2> QED
    BY <1>0, <2>1, <2>2 DEF Reason
<1>9. ASSUME UNCHANGED vars PROVE StaleHasAReason' /\ LoadedHasAReason'
  BY <1>0, <1>9 DEF vars, Reason, Cached
<1> QED
  BY <1>1, <1>2, <1>3, <1>4, <1>5, <1>6, <1>7, <1>8, <1>9 DEF Next, SearchStep

\* A cached result that no longer reflects the stores is there because a write
\* has still to clear the cache, because a write failed, or because a search
\* that a Clear overtook inserted it.
THEOREM StaleExplained == Spec => []StaleHasAReason
<1>1. Init => StaleHasAReason /\ LoadedHasAReason
  BY DEF Init, StaleHasAReason, LoadedHasAReason, Cached, IdleSearch, SearchAt
<1>2. TypeOK /\ StaleHasAReason /\ LoadedHasAReason /\ [Next]_vars
        => StaleHasAReason' /\ LoadedHasAReason'
  BY CacheAssumption, NextStale DEF StaleInv
<1>3. CacheInv => TypeOK
  BY DEF CacheInv
<1> QED
  BY <1>1, <1>2, <1>3, MapAndList, PTL DEF Spec

-----------------------------------------------------------------------------
(* Which keys of a list come before which.                                 *)

Before(s, x, y) == \E i, p \in DOMAIN s : i < p /\ s[i] = x /\ s[p] = y

LEMMA BeforeRemoved ==
    ASSUME NEW k \in Keys, order \in Seq(Keys), Distinct(order), k \in Elems(order),
           NEW x, NEW y, Before(Without(k), x, y)
    PROVE  Before(order, x, y)
<1>1. PICK q \in DOMAIN order : order[q] = k
  BY DEF Elems
<1> DEFINE w == Without(k)
<1>2. /\ w \in Seq(Keys)
      /\ Len(w) = Len(order) - 1
      /\ \A i \in 1..(Len(order) - 1) :
           w[i] = IF i < q THEN order[i] ELSE order[i + 1]
  BY <1>1, WithoutIs DEF Distinct
<1> HIDE DEF w
<1>3. q \in 1..Len(order) /\ Len(order) \in Nat /\ DOMAIN order = 1..Len(order)
  OBVIOUS
<1>4. PICK i \in 1..(Len(order) - 1), p \in 1..(Len(order) - 1) :
         i < p /\ w[i] = x /\ w[p] = y
  BY <1>2 DEF Before, w
<1> DEFINE at(j) == IF j < q THEN j ELSE j + 1
<1>5. at(i) \in 1..Len(order) /\ at(p) \in 1..Len(order) /\ at(i) < at(p)
  BY <1>3, <1>4
<1>6. order[at(i)] = x /\ order[at(p)] = y
  BY <1>2, <1>4
<1> HIDE DEF at
<1> QED
  BY <1>3, <1>5, <1>6 DEF Before

LEMMA BeforePushed ==
    ASSUME NEW k \in Keys, NEW s \in Seq(Keys), NEW x, NEW y, Before(<<k>> \o s, x, y)
    PROVE  y \in Elems(s) /\ (x = k \/ Before(s, x, y))
<1> DEFINE w == <<k>> \o s
<1>1. <<k>> \in Seq(Keys) /\ Len(<<k>>) = 1 /\ <<k>>[1] = k /\ Len(s) \in Nat
  OBVIOUS
<1>2. /\ w \in Seq(Keys)
      /\ Len(w) = Len(s) + 1
      /\ \A i \in 1..(Len(s) + 1) : w[i] = IF i <= 1 THEN <<k>>[i] ELSE s[i - 1]
  BY <1>1, Concat
<1> HIDE DEF w
<1>3. PICK i \in 1..(Len(s) + 1), p \in 1..(Len(s) + 1) : i < p /\ w[i] = x /\ w[p] = y
  BY <1>2 DEF Before, w
<1>4. p - 1 \in DOMAIN s /\ y = s[p - 1]
  BY <1>1, <1>2, <1>3
<1>5. CASE i = 1
  BY <1>1, <1>2, <1>3, <1>4, <1>5 DEF Elems
<1>6. CASE i # 1
  <2>1. i - 1 \in DOMAIN s /\ x = s[i - 1] /\ i - 1 < p - 1
    BY <1>1, <1>2, <1>3, <1>6
  <2> QED
    BY <1>4, <2>1 DEF Elems, Before
<1> QED
  BY <1>5, <1>6

LEMMA BeforeCut ==
    ASSUME order \in Seq(Keys), NEW n \in 0..Len(order), NEW x, NEW y,
           Before(SubSeq(order, 1, n), x, y)
    PROVE  Before(order, x, y)
<1> DEFINE w == SubSeq(order, 1, n)
<1>1. Len(order) \in Nat /\ DOMAIN order = 1..Len(order)
  OBVIOUS
<1>2. w \in Seq(Keys) /\ Len(w) = n /\ \A i \in 1..n : w[i] = order[i]
  BY <1>1
<1> HIDE DEF w
<1>3. DOMAIN w = 1..n
  BY <1>1, <1>2
<1>4. PICK i \in 1..n, p \in 1..n : i < p /\ w[i] = x /\ w[p] = y
  BY <1>3 DEF Before, w
<1> QED
  BY <1>1, <1>2, <1>4 DEF Before

\* A list without repetition is as long as its keys are many.
LEMMA AsManyAs ==
    ASSUME NEW s \in Seq(Keys), Distinct(s)
    PROVE  IsFiniteSet(Elems(s)) /\ Cardinality(Elems(s)) = Len(s)
<1>1. Len(s) \in Nat /\ DOMAIN s = 1..Len(s) /\ s \in [1..Len(s) -> Elems(s)]
  BY DEF Elems
<1>2. s \in Bijection(1..Len(s), Elems(s))
  BY <1>1 DEF Bijection, Injection, Surjection, IsInjective, Distinct, Elems
<1>3. ExistsBijection(1..Len(s), Elems(s))
  BY <1>2 DEF ExistsBijection
<1>4. IsFiniteSet(1..Len(s)) /\ Cardinality(1..Len(s)) = Len(s)
  BY <1>1, FS_Interval
<1> QED
  BY <1>3, <1>4, FS_Bijection

-----------------------------------------------------------------------------
(* Least recently used.                                                    *)

\* A key used since the last Clear is in the list, and the keys before it have
\* all been used since it was.
Recent(k) ==
    since[k] # NotUsed =>
        /\ k \in Elems(order)
        /\ IsFiniteSet(since[k])
        /\ Cardinality(since[k]) < Capacity
        /\ \A x \in Keys : Before(order, x, k) => x \in since[k]

LruInv == CacheInv /\ \A k \in Keys : Recent(k)

LEMMA UsedIs ==
    ASSUME CacheAssumption, LruInv, NEW k \in Keys, Capacity > 0, since' = Used(k)
    PROVE  /\ since'[k] = {} /\ IsFiniteSet(since'[k])
           /\ Cardinality(since'[k]) < Capacity
           /\ \A j \in Keys \ {k} : since'[j] # NotUsed =>
                 /\ since[j] # NotUsed /\ since'[j] = since[j] \cup {k}
                 /\ IsFiniteSet(since'[j]) /\ Cardinality(since'[j]) < Capacity
<1> DEFINE U(j) == CASE j = k -> {}
                     [] j # k /\ since[j] # NotUsed /\ Cardinality(since[j] \cup {k}) < Capacity ->
                           since[j] \cup {k}
                     [] OTHER -> NotUsed
<1>1. since' = [j \in Keys |-> U(j)]
  BY DEF Used
<1>2. since'[k] = {}
  BY <1>1
<1>3. Cardinality({}) = 0 /\ IsFiniteSet({})
  BY FS_EmptySet
<1>4. ASSUME NEW j \in Keys \ {k}, since'[j] # NotUsed
      PROVE  /\ since[j] # NotUsed /\ since'[j] = since[j] \cup {k}
             /\ IsFiniteSet(since'[j]) /\ Cardinality(since'[j]) < Capacity
  <2>1. since'[j] = U(j)
    BY <1>1, <1>4
  <2>2. since[j] # NotUsed /\ Cardinality(since[j] \cup {k}) < Capacity
    BY <1>4, <2>1
  <2>3. since'[j] = since[j] \cup {k}
    BY <2>1, <2>2
  <2>4. IsFiniteSet(since[j])
    BY <2>2 DEF LruInv, Recent
  <2>5. IsFiniteSet(since[j] \cup {k})
    BY <2>4, FS_AddElement
  <2> QED
    BY <2>2, <2>3, <2>5
<1> HIDE DEF U
<1> QED
  BY <1>2, <1>3, <1>4

\* A key that falls off the back of a full list has seen Capacity other keys
\* used.
LEMMA EvictedIsOld ==
    ASSUME CacheAssumption, LruInv, Capacity > 0, NEW k \in Keys, ~Cached(k),
           NEW i \in Capacity..Len(order), NEW j \in Keys, j = order[i],
           since[j] # NotUsed
    PROVE  Cardinality(since[j] \cup {k}) >= Capacity
<1> USE ListForm
<1>1. /\ order \in Seq(Keys) /\ Len(order) \in Nat /\ Len(order) <= Capacity
      /\ Distinct(order) /\ Elems(order) = Known /\ Capacity \in Nat
  BY DEF LruInv, TypeOK, CacheAssumption
<1>2. i = Len(order) /\ Len(order) = Capacity /\ i \in DOMAIN order
  BY <1>1
<1>3. IsFiniteSet(Elems(order)) /\ Cardinality(Elems(order)) = Capacity
  BY <1>1, <1>2, AsManyAs
<1> DEFINE ahead == Elems(order) \ {j}
<1>4. j \in Elems(order)
  BY <1>2 DEF Elems
<1>5. IsFiniteSet(ahead) /\ Cardinality(ahead) = Capacity - 1
  BY <1>3, <1>4, FS_RemoveElement
<1>6. k \notin ahead
  BY <1>1 DEF Known
<1>7. IsFiniteSet(ahead \cup {k}) /\ Cardinality(ahead \cup {k}) = Capacity
  <2>1. /\ IsFiniteSet(ahead \cup {k})
        /\ Cardinality(ahead \cup {k}) = IF k \in ahead THEN Cardinality(ahead) ELSE Cardinality(ahead) + 1
    BY <1>5, FS_AddElement
  <2> QED
    BY <1>1, <1>5, <1>6, <2>1
<1>8. ASSUME NEW x \in ahead PROVE x \in since[j]
  <2>1. PICK m \in DOMAIN order : order[m] = x
    BY DEF Elems
  <2>2. x # j /\ x \in Keys /\ m < i
    BY <1>1, <1>2, <2>1
  <2>3. Before(order, x, j)
    BY <1>2, <2>1, <2>2 DEF Before
  <2> QED
    BY <2>2, <2>3 DEF LruInv, Recent
<1>9. IsFiniteSet(since[j] \cup {k})
  <2>1. IsFiniteSet(since[j])
    BY DEF LruInv, Recent
  <2> QED
    BY <2>1, FS_AddElement
<1>10. ahead \cup {k} \subseteq since[j] \cup {k}
  BY <1>8
<1>11. Cardinality(ahead \cup {k}) <= Cardinality(since[j] \cup {k})
  BY <1>9, <1>10, FS_Subset
<1>12. Cardinality(since[j] \cup {k}) \in Nat
  BY <1>9, FS_CardinalityType
<1> QED
  BY <1>1, <1>7, <1>11, <1>12

LEMMA HitLru ==
    ASSUME CacheAssumption, LruInv, NEW s \in Searchers, NEW k \in Keys, Hit(s, k)
    PROVE  \A j \in Keys : Recent(j)'
<1> USE ListForm
<1>1. /\ order \in Seq(Keys) /\ Len(order) \in Nat
      /\ Distinct(order) /\ Elems(order) = Known /\ k \in Elems(order)
  BY DEF LruInv, TypeOK, Hit, Hits, Known
<1>2. /\ Without(k) \in Seq(Keys) /\ Distinct(Without(k))
      /\ Elems(Without(k)) = Elems(order) \ {k}
  BY <1>1, RemovedIs
<1>3. order' = <<k>> \o Without(k) /\ Elems(order') = Elems(order)
  <2>1. order' = <<k>> \o Without(k)
    BY DEF Hit
  <2>2. k \notin Elems(Without(k))
    BY <1>2
  <2>3. Elems(order') = Elems(Without(k)) \cup {k}
    BY <1>2, <2>1, <2>2, PushedIs
  <2> QED
    BY <1>1, <1>2, <2>1, <2>3
<1>4. Capacity > 0 /\ since' = Used(k)
  BY DEF Hit, Hits
<1> TAKE j \in Keys
<1>5. CASE j = k
  <2>1. ASSUME NEW x, Before(order', x, k) PROVE FALSE
    BY <1>2, <1>3, <2>1, BeforePushed
  <2>2. /\ IsFiniteSet(since'[k]) /\ Cardinality(since'[k]) < Capacity
    BY <1>4, UsedIs
  <2>3. k \in Elems(order')
    BY <1>1, <1>3
  <2> QED
    BY <1>5, <2>1, <2>2, <2>3 DEF Recent, Elems, Before
<1>6. CASE j # k
  <2> SUFFICES ASSUME since'[j] # NotUsed
               PROVE  /\ j \in Elems(order') /\ IsFiniteSet(since'[j])
                      /\ Cardinality(since'[j]) < Capacity
                      /\ \A x \in Keys : Before(order', x, j) => x \in since'[j]
    BY DEF Recent, Elems, Before
  <2>1. /\ since[j] # NotUsed /\ since'[j] = since[j] \cup {k}
        /\ IsFiniteSet(since'[j]) /\ Cardinality(since'[j]) < Capacity
    BY <1>4, <1>6, UsedIs
  <2>2. j \in Elems(order) /\ \A x \in Keys : Before(order, x, j) => x \in since[j]
    BY <2>1 DEF LruInv, Recent
  <2>3. ASSUME NEW x \in Keys, Before(order', x, j) PROVE x \in since'[j]
    <3>1. x = k \/ Before(Without(k), x, j)
      BY <1>2, <1>3, <2>3, BeforePushed
    <3>2. x = k \/ Before(order, x, j)
      BY <1>1, <3>1, BeforeRemoved
    <3> QED
      BY <2>1, <2>2, <3>2
  <2> QED
    BY <1>3, <2>1, <2>2, <2>3
<1> QED
  BY <1>5, <1>6

LEMMA MissLru ==
    ASSUME CacheAssumption, LruInv, NEW s \in Searchers, NEW k \in Keys, Miss(s, k)
    PROVE  \A j \in Keys : Recent(j)'
<1> USE ListForm
<1>1. /\ order \in Seq(Keys) /\ Len(order) \in Nat /\ Distinct(order)
      /\ Elems(order) = Known /\ since \in [Keys -> (SUBSET Keys) \cup {NotUsed}]
  BY DEF LruInv, TypeOK
<1>2. CASE Capacity > 0 /\ Cached(k)
  <2>1. k \in Elems(order) /\ order' = Without(k) /\ since' = [since EXCEPT ![k] = NotUsed]
    BY <1>1, <1>2 DEF Miss, Known
  <2>2. Elems(order') = Elems(order) \ {k}
    BY <1>1, <2>1, RemovedIs
  <2> SUFFICES ASSUME NEW j \in Keys, since'[j] # NotUsed
               PROVE  /\ j \in Elems(order') /\ IsFiniteSet(since'[j])
                      /\ Cardinality(since'[j]) < Capacity
                      /\ \A x \in Keys : Before(order', x, j) => x \in since'[j]
    BY DEF Recent, Elems, Before
  <2>3. j # k /\ since'[j] = since[j]
    BY <1>1, <2>1
  <2>4. /\ j \in Elems(order) /\ IsFiniteSet(since[j]) /\ Cardinality(since[j]) < Capacity
        /\ \A x \in Keys : Before(order, x, j) => x \in since[j]
    BY <2>3 DEF LruInv, Recent
  <2>5. \A x \in Keys : Before(order', x, j) => Before(order, x, j)
    BY <1>1, <2>1, BeforeRemoved
  <2> QED
    BY <2>2, <2>3, <2>4, <2>5
<1>3. CASE ~(Capacity > 0 /\ Cached(k))
  <2>1. UNCHANGED <<order, since>>
    BY <1>3 DEF Miss
  <2> QED
    BY <2>1 DEF LruInv, Recent, Elems, Before
<1> QED
  BY <1>2, <1>3

LEMMA InsertLru ==
    ASSUME CacheAssumption, LruInv, NEW s \in Searchers, Insert(s)
    PROVE  \A j \in Keys : Recent(j)'
<1> USE ListForm
<1>0. search[s].key \in Keys
  BY DEF Insert, LruInv, TypeOK, SearchState, Searching, IdleSearch, SearchAt
<1> DEFINE k == search[s].key
           n == IF Len(order) < Capacity THEN Len(order) ELSE Capacity - 1
           kept == SubSeq(order, 1, n)
<1>1. /\ order \in Seq(Keys) /\ Len(order) \in Nat /\ Len(order) <= Capacity
      /\ Distinct(order) /\ Elems(order) = Known /\ Capacity \in Nat
      /\ since \in [Keys -> (SUBSET Keys) \cup {NotUsed}]
  BY DEF LruInv, TypeOK, CacheAssumption
<1>2. CASE Capacity > 0 /\ ~Cached(k)
  <2>1. n \in 0..Len(order) /\ n + 1 >= Len(order) /\ (n < Len(order) => n + 1 = Capacity)
    BY <1>1, <1>2
  <2>2. order' = <<k>> \o kept /\ since' = Used(k)
    BY <1>2 DEF Insert
  <2> HIDE DEF n
  <2>3. /\ kept \in Seq(Keys) /\ Distinct(kept)
        /\ Elems(kept) = Elems(order) \ {order[i] : i \in (n + 1)..Len(order)}
    BY <1>1, <2>1, CutIs
  <2>4. k \notin Elems(kept)
    BY <1>0, <1>1, <1>2, <2>3 DEF Known
  <2>5. Elems(order') = Elems(kept) \cup {k}
    BY <1>0, <2>2, <2>3, <2>4, PushedIs
  <2> SUFFICES ASSUME NEW j \in Keys, since'[j] # NotUsed
               PROVE  /\ j \in Elems(order') /\ IsFiniteSet(since'[j])
                      /\ Cardinality(since'[j]) < Capacity
                      /\ \A x \in Keys : Before(order', x, j) => x \in since'[j]
    BY DEF Recent, Elems, Before
  <2>6. CASE j = k
    <3>1. ASSUME NEW x, Before(order', x, k) PROVE FALSE
      BY <1>0, <2>2, <2>3, <2>4, <3>1, BeforePushed
    <3>2. IsFiniteSet(since'[k]) /\ Cardinality(since'[k]) < Capacity
      BY <1>0, <1>2, <2>2, UsedIs
    <3> QED
      BY <2>5, <2>6, <3>1, <3>2
  <2>7. CASE j # k
    <3>1. /\ since[j] # NotUsed /\ since'[j] = since[j] \cup {k}
          /\ IsFiniteSet(since'[j]) /\ Cardinality(since'[j]) < Capacity
      BY <1>0, <1>2, <2>2, <2>7, UsedIs
    <3>2. j \in Elems(order) /\ \A x \in Keys : Before(order, x, j) => x \in since[j]
      BY <3>1 DEF LruInv, Recent
    <3>3. ASSUME NEW i \in (n + 1)..Len(order), j = order[i] PROVE FALSE
      <4>1. i \in Capacity..Len(order)
        BY <1>1, <2>1, <3>3
      <4>2. Cardinality(since[j] \cup {k}) >= Capacity
        BY <1>0, <1>2, <3>1, <3>3, <4>1, EvictedIsOld
      <4>3. Cardinality(since[j] \cup {k}) \in Nat
        BY <3>1, FS_CardinalityType
      <4> QED
        BY <1>1, <3>1, <4>2, <4>3
    <3>4. j \in Elems(kept)
      BY <2>3, <3>2, <3>3
    <3>5. ASSUME NEW x \in Keys, Before(order', x, j) PROVE x \in since'[j]
      <4>1. x = k \/ Before(kept, x, j)
        BY <1>0, <2>2, <2>3, <3>5, BeforePushed
      <4>2. x = k \/ Before(order, x, j)
        BY <1>1, <2>1, <4>1, BeforeCut
      <4> QED
        BY <3>1, <3>2, <4>2
    <3> QED
      BY <2>5, <3>1, <3>4, <3>5
  <2> QED
    BY <2>6, <2>7
<1>3. CASE ~(Capacity > 0 /\ ~Cached(k))
  <2>1. UNCHANGED <<order, since>>
    BY <1>3 DEF Insert
  <2> QED
    BY <2>1 DEF LruInv, Recent, Elems, Before
<1> QED
  BY <1>2, <1>3

\* A key used since the last Clear, with fewer than Capacity other keys used
\* since it was, is in the cache, for any capacity: eviction, expiry and use
\* together are least recently used.
THEOREM LeastRecentlyUsed == Spec => []KeepsTheRecent
<1>1. Init => LruInv
  <2> SUFFICES ASSUME Init PROVE LruInv
    OBVIOUS
  <2>1. \A k \in Keys : since[k] = NotUsed
    BY DEF Init
  <2> QED
    BY <2>1, CacheAssumption, InitCache DEF LruInv, Recent
<1>2. LruInv /\ [Next]_vars => LruInv'
  <2> SUFFICES ASSUME LruInv, [Next]_vars PROVE LruInv'
    OBVIOUS
  <2>1. CacheInv'
    BY CacheAssumption, NextCache DEF LruInv
  <2>2. ASSUME NEW s \in Searchers, NEW k \in Keys, Hit(s, k) \/ Miss(s, k)
        PROVE  \A j \in Keys : Recent(j)'
    BY <2>2, CacheAssumption, HitLru, MissLru
  <2>3. ASSUME NEW s \in Searchers, Insert(s) PROVE \A j \in Keys : Recent(j)'
    BY <2>3, CacheAssumption, InsertLru
  <2>4. ASSUME NEW w \in Writers, Clear(w) PROVE \A j \in Keys : Recent(j)'
    <3>1. \A k \in Keys : since'[k] = NotUsed
      BY <2>4 DEF Clear
    <3> QED
      BY <3>1 DEF Recent
  <2>5. ASSUME UNCHANGED <<order, since>> PROVE \A j \in Keys : Recent(j)'
    BY <2>5 DEF LruInv, Recent, Elems, Before
  <2>6. \A j \in Keys : Recent(j)'
    BY <2>2, <2>3, <2>4, <2>5
    DEF Next, SearchStep, Load, LoadFails, Change, WriteFails, Tick, vars
  <2> QED
    BY <2>1, <2>6 DEF LruInv
<1>3. LruInv => KeepsTheRecent
  <2> SUFFICES ASSUME LruInv, NEW k \in Keys, since[k] # NotUsed PROVE Cached(k)
    BY DEF KeepsTheRecent
  <2>1. k \in Elems(order) /\ Elems(order) = Known
    BY ListForm DEF LruInv, Recent
  <2> QED
    BY <2>1 DEF Known
<1> QED
  BY <1>1, <1>2, <1>3, PTL DEF Spec

=============================================================================
