---------------------------- MODULE ContentProofs ----------------------------
(***************************************************************************)
(* Content that arrives as it was offered, for any number of transfers, of *)
(* acts of the users, of machines and of sets of plugins: what the registry *)
(* makes of the plugins (a fold, unfolded here), what a capture in progress *)
(* has read and has yet to ask, what a sink has written and has yet to.     *)
(***************************************************************************)
EXTENDS Content, FiniteSetTheorems, SequenceTheorems, TLAPS

(* Plugins in the order of a registry, and plugins that can be ordered so. *)
Ranked(list) == \A i, k \in 1..Len(list) : i < k => list[i].priority > list[k].priority

Distinct(list) ==
  \A i, k \in 1..Len(list) : i # k => list[i].priority # list[k].priority

-----------------------------------------------------------------------------
(* Sequences: what is in them, one after the other, and with one more. *)
LEMMA RangeIs ==
  ASSUME NEW S, NEW s \in Seq(S)
  PROVE  Range(s) = {s[k] : k \in 1..Len(s)}
BY DEF Range

LEMMA Concat ==
  ASSUME NEW S, NEW u \in Seq(S), NEW v \in Seq(S)
  PROVE  /\ u \o v \in Seq(S) /\ Len(u \o v) = Len(u) + Len(v)
         /\ \A k \in 1..Len(u) : (u \o v)[k] = u[k]
         /\ \A k \in 1..Len(v) : (u \o v)[Len(u) + k] = v[k]
         /\ Range(u \o v) = Range(u) \cup Range(v)
<1> DEFINE q == u \o v
<1>0. Len(u) \in Nat /\ Len(v) \in Nat
  OBVIOUS
<1>1. /\ q \in Seq(S) /\ Len(q) = Len(u) + Len(v)
      /\ \A k \in 1..(Len(u) + Len(v)) : q[k] = IF k <= Len(u) THEN u[k] ELSE v[k - Len(u)]
  BY ConcatProperties
<1> HIDE DEF q
<1>2. /\ Range(u) = {u[k] : k \in 1..Len(u)} /\ Range(v) = {v[k] : k \in 1..Len(v)}
      /\ Range(q) = {q[k] : k \in 1..(Len(u) + Len(v))}
  BY <1>1, RangeIs
<1>3. ASSUME NEW k \in 1..Len(v)
      PROVE  Len(u) + k \in 1..(Len(u) + Len(v)) /\ q[Len(u) + k] = v[k]
  <2>1. Len(u) + k \in 1..(Len(u) + Len(v)) /\ ~(Len(u) + k <= Len(u)) /\ (Len(u) + k) - Len(u) = k
    BY <1>0
  <2> QED BY <1>1, <2>1
<1>4. ASSUME NEW k \in 1..Len(u)
      PROVE  k \in 1..(Len(u) + Len(v)) /\ q[k] = u[k]
  BY <1>0, <1>1
<1>5. ASSUME NEW k \in 1..(Len(u) + Len(v)) PROVE q[k] \in Range(u) \cup Range(v)
  <2>1. CASE k <= Len(u)
    BY <1>0, <1>1, <1>2, <2>1
  <2>2. CASE k > Len(u)
    <3>1. k - Len(u) \in 1..Len(v) /\ q[k] = v[k - Len(u)]
      BY <1>0, <1>1, <2>2
    <3> QED BY <1>2, <3>1
  <2> QED BY <1>0, <2>1, <2>2
<1>6. Range(q) = Range(u) \cup Range(v)
  <2>1. Range(q) \subseteq Range(u) \cup Range(v)
    BY <1>2, <1>5
  <2>2. Range(u) \subseteq Range(q)
    BY <1>2, <1>4
  <2>3. Range(v) \subseteq Range(q)
    BY <1>2, <1>3
  <2> QED BY <2>1, <2>2, <2>3
<1> QED BY <1>1, <1>3, <1>4, <1>6 DEF q

LEMMA Chained ==
  ASSUME NEW S, NEW u \in Seq(S), NEW v \in Seq(S)
  PROVE  /\ u \o v \in Seq(S) /\ Len(u \o v) = Len(u) + Len(v)
         /\ Range(u \o v) = Range(u) \cup Range(v)
BY Concat

LEMMA Inserted ==
  ASSUME NEW S, NEW q \in Seq(S), NEW p \in S, NEW i \in 1..(Len(q) + 1)
  PROVE  /\ InsertAt(q, i, p) \in Seq(S)
         /\ Len(InsertAt(q, i, p)) = Len(q) + 1
         /\ \A k \in 1..(Len(q) + 1) :
              InsertAt(q, i, p)[k] = IF k < i THEN q[k]
                                     ELSE IF k = i THEN p ELSE q[k - 1]
<1> DEFINE a == SubSeq(q, 1, i - 1)
           b == a \o <<p>>
           c == SubSeq(q, i, Len(q))
<1>1. Len(q) \in Nat /\ i \in Nat
  OBVIOUS
<1>2. /\ a \in Seq(S) /\ Len(a) = i - 1
      /\ \A k \in 1..(i - 1) : a[k] = q[k]
  OBVIOUS
<1>3. /\ c \in Seq(S) /\ Len(c) = Len(q) - i + 1
      /\ \A k \in 1..(Len(q) - i + 1) : c[k] = q[k + i - 1]
  OBVIOUS
<1>4. InsertAt(q, i, p) = b \o c
  BY DEF InsertAt
<1> HIDE DEF a, c
<1>5. /\ b \in Seq(S) /\ Len(b) = i
      /\ \A k \in 1..i : b[k] = IF k < i THEN q[k] ELSE p
  BY <1>2
<1> HIDE DEF b
<1>6. /\ b \o c \in Seq(S) /\ Len(b \o c) = Len(q) + 1
      /\ \A k \in 1..(Len(q) + 1) : (b \o c)[k] = IF k <= i THEN b[k] ELSE c[k - i]
  <2>1. /\ b \o c \in Seq(S) /\ Len(b \o c) = Len(b) + Len(c)
        /\ \A k \in 1..(Len(b) + Len(c)) :
             (b \o c)[k] = IF k <= Len(b) THEN b[k] ELSE c[k - Len(b)]
    BY <1>3, <1>5, ConcatProperties
  <2>2. Len(b) + Len(c) = Len(q) + 1
    BY <1>1, <1>3, <1>5
  <2> QED BY <1>5, <2>1, <2>2
<1>7. ASSUME NEW k \in 1..(Len(q) + 1), k > i PROVE c[k - i] = q[k - 1]
  <2>1. k - i \in 1..(Len(q) - i + 1) /\ (k - i) + i - 1 = k - 1
    BY <1>1, <1>7
  <2> QED BY <1>3, <2>1
<1>8. ASSUME NEW k \in 1..(Len(q) + 1)
      PROVE  (b \o c)[k] = IF k < i THEN q[k] ELSE IF k = i THEN p ELSE q[k - 1]
  <2>1. CASE k < i
    BY <1>1, <1>5, <1>6, <2>1
  <2>2. CASE k = i
    BY <1>1, <1>5, <1>6, <2>2
  <2>3. CASE k > i
    <3>1. (b \o c)[k] = c[k - i]
      BY <1>1, <1>6, <2>3
    <3>2. (b \o c)[k] = q[k - 1]
      BY <1>7, <2>3, <3>1
    <3> QED BY <1>1, <2>3, <3>2
  <2>4. k < i \/ k = i \/ k > i
    BY <1>1
  <2> QED BY <2>1, <2>2, <2>3, <2>4
<1> QED BY <1>4, <1>6, <1>8

(* register*() adds the plugin to the list, which it keeps ranked, of four
   plugins at most. *)
LEMMA Registered ==
  ASSUME NEW S, NEW list \in Seq(S), NEW p \in S, Len(list) <= 4,
         \A x \in S : x.priority \in Nat
  PROVE  /\ Register(list, p) \in Seq(S)
         /\ Len(Register(list, p)) = Len(list) + 1
         /\ Range(Register(list, p)) = Range(list) \cup {p}
         /\ Ranked(list) /\ (\A x \in Range(list) : x.priority # p.priority)
              => Ranked(Register(list, p))
<1> DEFINE better == {k \in DOMAIN list : list[k].priority >= p.priority}
           i == Cardinality(better) + 1
           q == Register(list, p)
<1>0. Len(list) \in Nat /\ DOMAIN list = 1..Len(list)
      /\ \A k \in 1..Len(list) : list[k] \in S /\ list[k].priority \in Nat
  OBVIOUS
<1>1. i \in 1..(Len(list) + 1)
  <2>1. IsFiniteSet(1..Len(list)) /\ Cardinality(1..Len(list)) = Len(list)
    <3>1. Len(list) \in Int /\ 1 \in Int
      BY <1>0
    <3>2. Cardinality(1..Len(list)) = IF 1 > Len(list) THEN 0 ELSE Len(list) - 1 + 1
      BY <3>1, FS_Interval
    <3>3. IsFiniteSet(1..Len(list))
      BY <3>1, FS_Interval
    <3> QED BY <1>0, <3>2, <3>3
  <2>2. better \subseteq 1..Len(list)
    BY <1>0
  <2>3. Cardinality(better) \in Nat /\ Cardinality(better) <= Len(list)
    BY <2>1, <2>2, FS_Subset, FS_CardinalityType
  <2> HIDE DEF better
  <2> QED BY <1>0, <2>3
<1>2. q = InsertAt(list, i, p)
  BY DEF Register
<1> HIDE DEF q
<1>3. /\ q \in Seq(S) /\ Len(q) = Len(list) + 1
      /\ \A k \in 1..(Len(list) + 1) :
           q[k] = IF k < i THEN list[k] ELSE IF k = i THEN p ELSE list[k - 1]
  <2> HIDE DEF i, better
  <2>1. /\ InsertAt(list, i, p) \in Seq(S)
        /\ Len(InsertAt(list, i, p)) = Len(list) + 1
        /\ \A k \in 1..(Len(list) + 1) :
             InsertAt(list, i, p)[k] = IF k < i THEN list[k]
                                       ELSE IF k = i THEN p ELSE list[k - 1]
    BY <1>1, Inserted
  <2> QED BY <1>2, <2>1
<1>4. Range(q) = Range(list) \cup {p}
  <2> HIDE DEF i
  <2>1. Range(q) = {q[k] : k \in 1..(Len(list) + 1)} /\ Range(list) = {list[k] : k \in 1..Len(list)}
    BY <1>3, RangeIs
  <2>2. ASSUME NEW k \in 1..(Len(list) + 1) PROVE q[k] \in Range(list) \cup {p}
    <3>1. q[k] = IF k < i THEN list[k] ELSE IF k = i THEN p ELSE list[k - 1]
      BY <1>3
    <3>2. /\ k < i => k \in 1..Len(list)
          /\ k > i => k - 1 \in 1..Len(list)
          /\ k < i \/ k = i \/ k > i
      BY <1>0, <1>1
    <3> QED BY <2>1, <3>1, <3>2
  <2>3. q[i] = p
    BY <1>1, <1>3
  <2>4. ASSUME NEW k \in 1..Len(list) PROVE list[k] \in Range(q)
    <3>1. CASE k < i
      BY <1>0, <1>3, <2>1, <3>1
    <3>2. CASE k >= i
      <4>1. k + 1 \in 1..(Len(list) + 1) /\ q[k + 1] = list[k]
        BY <1>0, <1>1, <1>3, <3>2
      <4> QED BY <2>1, <4>1
    <3> QED BY <1>0, <1>1, <3>1, <3>2
  <2> QED BY <1>1, <2>1, <2>2, <2>3, <2>4
<1>5. ASSUME Ranked(list), \A x \in Range(list) : x.priority # p.priority
      PROVE  Ranked(q)
  <2>1. \A k \in 1..Len(list) : list[k].priority # p.priority
    BY <1>5, RangeIs
  <2>2. \E m \in 0..Len(list) : \A k \in 1..Len(list) : k \in better <=> k <= m
    <3> DEFINE n == Len(list)
               B(k) == k <= n /\ k \in better
    <3>1. ASSUME NEW k \in 1..4, NEW l \in 1..4, B(k), l < k PROVE B(l)
      <4>1. k \in 1..Len(list) /\ l \in 1..Len(list) /\ list[k].priority >= p.priority
        BY <1>0, <3>1
      <4>2. list[l].priority > list[k].priority
        BY <1>5, <3>1, <4>1 DEF Ranked
      <4>3. list[l].priority >= p.priority
        BY <1>0, <4>1, <4>2
      <4> QED BY <1>0, <4>1, <4>3
    <3>2. n \in 0..4 /\ \A k \in 1..n : k \in 1..4 /\ (k \in better <=> B(k))
      <4>1. n \in Nat /\ n <= 4
        BY <1>0
      <4> HIDE DEF n, better
      <4> QED BY <4>1
    <3>3. \A k \in 1..4 : B(k) => k \in 0..n
      BY <1>0
    <3>4. SUFFICES \E m \in 0..n : \A k \in 1..n : B(k) <=> k <= m
      BY <3>2
    <3> HIDE DEF n, B
    <3>5. CASE B(4)
      <4>1. \A k \in 1..n : B(k) <=> k <= 4
        BY <3>1, <3>2, <3>5
      <4> QED BY <3>3, <3>5, <4>1
    <3>6. CASE ~B(4) /\ B(3)
      <4>1. \A k \in 1..n : B(k) <=> k <= 3
        BY <3>1, <3>2, <3>6
      <4> QED BY <3>3, <3>6, <4>1
    <3>7. CASE ~B(4) /\ ~B(3) /\ B(2)
      <4>1. \A k \in 1..n : B(k) <=> k <= 2
        BY <3>1, <3>2, <3>7
      <4> QED BY <3>3, <3>7, <4>1
    <3>8. CASE ~B(4) /\ ~B(3) /\ ~B(2) /\ B(1)
      <4>1. \A k \in 1..n : B(k) <=> k <= 1
        BY <3>2, <3>8
      <4> QED BY <3>3, <3>8, <4>1
    <3>9. CASE ~B(4) /\ ~B(3) /\ ~B(2) /\ ~B(1)
      <4>1. \A k \in 1..n : B(k) <=> k <= 0
        BY <3>2, <3>9
      <4>2. 0 \in 0..n
        BY <3>2
      <4> QED BY <4>1, <4>2
    <3> QED BY <3>5, <3>6, <3>7, <3>8, <3>9
  <2>3. PICK m \in 0..Len(list) : better = 1..m
    <3>1. PICK m \in 0..Len(list) : \A k \in 1..Len(list) : k \in better <=> k <= m
      BY <2>2
    <3>2. m \in Nat /\ m <= Len(list)
      BY <1>0
    <3>3. \A k \in better : k \in 1..Len(list)
      BY <1>0
    <3> HIDE DEF better
    <3>4. better \subseteq 1..m
      BY <1>0, <3>1, <3>2, <3>3
    <3>5. 1..m \subseteq better
      BY <1>0, <3>1, <3>2
    <3> QED BY <3>4, <3>5
  <2>4. i = m + 1
    <3>1. Cardinality(1..m) = m
      BY <1>0, <2>3, FS_Interval
    <3> QED BY <2>3, <3>1
  <2>5. \A k \in 1..Len(list) : k <= m <=> list[k].priority > p.priority
    BY <1>0, <2>1, <2>3
  <2> HIDE DEF i
  <2>6. \A k \in 1..(Len(list) + 1) :
           q[k] = IF k <= m THEN list[k] ELSE IF k = m + 1 THEN p ELSE list[k - 1]
    BY <1>0, <1>3, <2>4
  <2>7. \A a, b \in 1..Len(list) : a < b => list[a].priority > list[b].priority
    BY <1>5 DEF Ranked
  <2>8. ASSUME NEW a \in 1..(Len(list) + 1), NEW b \in 1..(Len(list) + 1), a < b
        PROVE  q[a].priority > q[b].priority
    <3>1. CASE b <= m
      BY <1>0, <2>6, <2>7, <2>8, <3>1
    <3>2. CASE b = m + 1
      <4>1. a <= m /\ a \in 1..Len(list) /\ q[a] = list[a] /\ q[b] = p
        BY <1>0, <2>6, <2>8, <3>2
      <4> QED BY <2>5, <4>1
    <3>3. CASE b > m + 1 /\ a <= m
      <4>1. /\ a \in 1..Len(list) /\ b - 1 \in 1..Len(list) /\ a < b - 1
            /\ q[a] = list[a] /\ q[b] = list[b - 1]
        BY <1>0, <2>6, <2>8, <3>3
      <4> QED BY <2>7, <4>1
    <3>4. CASE b > m + 1 /\ a = m + 1
      <4>1. b - 1 \in 1..Len(list) /\ b - 1 > m /\ q[a] = p /\ q[b] = list[b - 1]
        BY <1>0, <2>6, <2>8, <3>4
      <4> QED BY <1>0, <2>1, <2>5, <4>1
    <3>5. CASE b > m + 1 /\ a > m + 1
      <4>1. /\ a - 1 \in 1..Len(list) /\ b - 1 \in 1..Len(list) /\ a - 1 < b - 1
            /\ q[a] = list[a - 1] /\ q[b] = list[b - 1]
        BY <1>0, <2>6, <2>8, <3>5
      <4> QED BY <2>7, <4>1
    <3> QED BY <1>0, <2>3, <3>1, <3>2, <3>3, <3>4, <3>5
  <2> QED BY <1>3, <2>8 DEF Ranked
<1> QED BY <1>3, <1>4, <1>5 DEF q

(* The fold of RegisterAll, one level: what it makes of the plugins at T from
   what f makes of smaller sets. *)
Fold(s, f) ==
  [T \in SUBSET DOMAIN s |->
     IF T = {} THEN <<>> ELSE Register(f[T \ {Max(T)}], s[Max(T)])]

(* RegisterAll is a fixed point of it, and there is one: the approximations from
   below agree (on the first k plugins) on one more plugin each. *)
LEMMA RegisterAllIs ==
  ASSUME NEW s
  PROVE  RegisterAll(s) = (CHOOSE f : f = Fold(s, f))[DOMAIN s]
BY DEF RegisterAll, FoldLeft, MapThenFoldSet, Fold

LEMMA MaxIs ==
  ASSUME NEW k \in 0..4, NEW T \in SUBSET (1..(k + 1)), T # {}
  PROVE  Max(T) \in T /\ T \ {Max(T)} \subseteq 1..k
<1>0. \A x \in T : x \in 1..5 /\ x <= k + 1
  OBVIOUS
<1>1. \E m \in T : \A x \in T : m >= x
  <2>1. 5 \in T \/ 4 \in T \/ 3 \in T \/ 2 \in T \/ 1 \in T
    <3>1. PICK x \in T : x \in 1..5
      BY <1>0
    <3>2. x = 5 \/ x = 4 \/ x = 3 \/ x = 2 \/ x = 1
      BY <3>1
    <3> QED BY <3>2
  <2>2. CASE 5 \in T
    BY <1>0, <2>2
  <2>3. CASE 5 \notin T /\ 4 \in T
    BY <1>0, <2>3
  <2>4. CASE 5 \notin T /\ 4 \notin T /\ 3 \in T
    BY <1>0, <2>4
  <2>5. CASE 5 \notin T /\ 4 \notin T /\ 3 \notin T /\ 2 \in T
    BY <1>0, <2>5
  <2>6. CASE 5 \notin T /\ 4 \notin T /\ 3 \notin T /\ 2 \notin T /\ 1 \in T
    BY <1>0, <2>6
  <2> QED BY <2>1, <2>2, <2>3, <2>4, <2>5, <2>6
<1>2. Max(T) \in T /\ \A x \in T : Max(T) >= x
  BY <1>1 DEF Max
<1>3. ASSUME NEW x \in T, x # Max(T) PROVE x \in 1..k
  <2>1. x \in 1..5 /\ Max(T) \in 1..5 /\ x <= Max(T) /\ Max(T) <= k + 1
    BY <1>0, <1>2
  <2> QED BY <1>3, <2>1
<1> QED BY <1>2, <1>3

Agree(s, f, g, k) == \A T \in SUBSET DOMAIN s : T \subseteq 1..k => f[T] = g[T]

LEMMA FoldAgrees ==
  ASSUME NEW s, DOMAIN s \subseteq 1..5, NEW k \in 0..4, NEW m, m = k + 1,
         NEW f, NEW g, Agree(s, f, g, k)
  PROVE  Agree(s, Fold(s, f), Fold(s, g), m)
<1> SUFFICES ASSUME NEW T \in SUBSET DOMAIN s, T \subseteq 1..m, T # {}
             PROVE  Fold(s, f)[T] = Fold(s, g)[T]
  BY DEF Fold, Agree
<1>1. T \ {Max(T)} \subseteq 1..k /\ T \ {Max(T)} \in SUBSET DOMAIN s
  BY MaxIs
<1>2. f[T \ {Max(T)}] = g[T \ {Max(T)}]
  BY <1>1 DEF Agree
<1> QED BY <1>2 DEF Fold

LEMMA FoldExists ==
  ASSUME NEW s, DOMAIN s \subseteq 1..5
  PROVE  \E f : f = Fold(s, f)
<1> DEFINE f0 == [T \in SUBSET DOMAIN s |-> <<>>]
           f1 == Fold(s, f0)
           f2 == Fold(s, f1)
           f3 == Fold(s, f2)
           f4 == Fold(s, f3)
           f5 == Fold(s, f4)
           f6 == Fold(s, f5)
<1>0. Agree(s, f0, f1, 0)
  BY DEF Fold, Agree
<1>e. /\ f1 = Fold(s, f0) /\ f2 = Fold(s, f1) /\ f3 = Fold(s, f2)
      /\ f4 = Fold(s, f3) /\ f5 = Fold(s, f4) /\ f6 = Fold(s, f5)
  OBVIOUS
<1> HIDE DEF f0, f1, f2, f3, f4, f5, f6
<1>1. Agree(s, f1, f2, 1)
  BY <1>0, <1>e, FoldAgrees, 0 \in 0..4, 1 = 0 + 1
<1>2. Agree(s, f2, f3, 2)
  BY <1>1, <1>e, FoldAgrees, 1 \in 0..4, 2 = 1 + 1
<1>3. Agree(s, f3, f4, 3)
  BY <1>2, <1>e, FoldAgrees, 2 \in 0..4, 3 = 2 + 1
<1>4. Agree(s, f4, f5, 4)
  BY <1>3, <1>e, FoldAgrees, 3 \in 0..4, 4 = 3 + 1
<1>5. Agree(s, f5, f6, 5)
  BY <1>4, <1>e, FoldAgrees, 4 \in 0..4, 5 = 4 + 1
<1>6. \A T \in SUBSET DOMAIN s : f5[T] = f6[T]
  BY <1>5 DEF Agree
<1>7. \A g : Fold(s, g) = [T \in SUBSET DOMAIN s |-> Fold(s, g)[T]]
  BY DEF Fold
<1>8. f5 = f6
  <2>1. f5 = [T \in SUBSET DOMAIN s |-> f5[T]] /\ f6 = [T \in SUBSET DOMAIN s |-> f6[T]]
    BY <1>7, <1>e
  <2> QED BY <1>6, <2>1
<1> QED BY <1>8, <1>e

(* RegisterAll, of five plugins at most, keeps all of them, and if no two have
   the same priority, ranked. *)
LEMMA AllRegistered ==
  ASSUME NEW S, NEW s \in Seq(S), Len(s) <= 5, \A x \in S : x.priority \in Nat
  PROVE  /\ RegisterAll(s) \in Seq(S) /\ Len(RegisterAll(s)) = Len(s)
         /\ Range(RegisterAll(s)) = Range(s)
         /\ Distinct(s) => Ranked(RegisterAll(s))
<1> DEFINE f == CHOOSE g : g = Fold(s, g)
           n == Len(s)
           P(k) == /\ f[1..k] \in Seq(S) /\ Len(f[1..k]) = k
                   /\ Range(f[1..k]) = {s[i] : i \in 1..k}
                   /\ Distinct(s) => Ranked(f[1..k])
<1>0. n \in 0..5 /\ DOMAIN s = 1..n /\ DOMAIN s \subseteq 1..5
      /\ \A i \in 1..n : s[i] \in S
  <2>1. n \in Nat /\ n <= 5 /\ DOMAIN s = 1..n /\ \A i \in 1..n : s[i] \in S
    OBVIOUS
  <2> HIDE DEF n
  <2> QED BY <2>1
<1>1. f = Fold(s, f)
  BY <1>0, FoldExists
<1> HIDE DEF f, n
<1>2. P(0)
  <2>1. f[1..0] = <<>>
    <3>1. 1..0 = {} /\ {} \in SUBSET DOMAIN s
      OBVIOUS
    <3> QED BY <1>1, <3>1 DEF Fold
  <2> QED BY <2>1 DEF Range, Ranked
<1>3. ASSUME NEW k \in 0..4, k < n, P(k) PROVE P(k + 1)
  <2>1. f[1..(k + 1)] = Register(f[1..k], s[k + 1])
    <3> HIDE DEF P
    <3>1. 1..(k + 1) \in SUBSET DOMAIN s /\ 1..(k + 1) # {} /\ k + 1 \in 1..(k + 1)
      <4>1. k + 1 <= n /\ k \in Nat /\ n \in Nat
        BY <1>0, <1>3
      <4>2. k + 1 \in 1..(k + 1) /\ \A x \in 1..(k + 1) : x \in 1..n
        BY <4>1
      <4> QED BY <1>0, <4>2
    <3>2. Max(1..(k + 1)) = k + 1
      <4>1. /\ Max(1..(k + 1)) \in 1..(k + 1)
            /\ (1..(k + 1)) \ {Max(1..(k + 1))} \subseteq 1..k
        BY <3>1, MaxIs
      <4>2. k + 1 \notin 1..k
        OBVIOUS
      <4> QED BY <3>1, <4>1, <4>2
    <3>3. (1..(k + 1)) \ {k + 1} = 1..k
      OBVIOUS
    <3> QED BY <1>1, <3>1, <3>2, <3>3 DEF Fold
  <2>2. s[k + 1] \in S /\ Len(f[1..k]) <= 4
    BY <1>0, <1>3
  <2>3. /\ f[1..(k + 1)] \in Seq(S) /\ Len(f[1..(k + 1)]) = k + 1
        /\ Range(f[1..(k + 1)]) = Range(f[1..k]) \cup {s[k + 1]}
        /\ Ranked(f[1..k]) /\ (\A x \in Range(f[1..k]) : x.priority # s[k + 1].priority)
             => Ranked(f[1..(k + 1)])
    <3> DEFINE list == f[1..k]
               p == s[k + 1]
    <3>1. list \in Seq(S) /\ Len(list) = k /\ Len(list) <= 4 /\ p \in S
      BY <1>3, <2>2
    <3>2. f[1..(k + 1)] = Register(list, p)
      BY <2>1
    <3> HIDE DEF list, p
    <3>3. /\ Register(list, p) \in Seq(S) /\ Len(Register(list, p)) = Len(list) + 1
          /\ Range(Register(list, p)) = Range(list) \cup {p}
          /\ Ranked(list) /\ (\A x \in Range(list) : x.priority # p.priority)
               => Ranked(Register(list, p))
      BY <3>1, Registered
    <3> QED BY <3>1, <3>2, <3>3 DEF list, p
  <2>4. {s[i] : i \in 1..k} \cup {s[k + 1]} = {s[i] : i \in 1..(k + 1)}
    OBVIOUS
  <2>5. Distinct(s) => \A x \in {s[i] : i \in 1..k} : x.priority # s[k + 1].priority
    <3>1. k + 1 \in 1..Len(s) /\ \A i \in 1..k : i \in 1..Len(s) /\ i # k + 1
      BY <1>0, <1>3 DEF n
    <3> QED BY <3>1 DEF Distinct
  <2> QED BY <1>3, <2>3, <2>4, <2>5
<1> HIDE DEF P
<1>4. P(n)
  <2>1. /\ 0 < n => P(1)
        /\ 1 < n => P(2)
        /\ 2 < n => P(3)
        /\ 3 < n => P(4)
        /\ 4 < n => P(5)
    BY <1>0, <1>2, <1>3, 0 + 1 = 1, 1 + 1 = 2, 2 + 1 = 3, 3 + 1 = 4, 4 + 1 = 5
  <2>2. n = 0 \/ n = 1 \/ n = 2 \/ n = 3 \/ n = 4 \/ n = 5
    BY <1>0
  <2> QED BY <1>2, <2>1, <2>2
<1>5. RegisterAll(s) = f[1..n]
  BY <1>0, RegisterAllIs DEF f
<1> QED BY <1>4, <1>5, RangeIs DEF P, n

-----------------------------------------------------------------------------
(* The providers and sinks there are, and the sources of each kind of content. *)
AllProviders ==
  {ClipboardProvider, TextProvider, ClipboardImageProvider, FileProvider, BrowserProvider}
AllSinks == {ClipboardSink, ClipboardTextSink, ImageSink, FileSink, BrowserSink}

SourcesOf(type) ==
  CASE type = "clipboard" -> Format
    [] type = "text" -> {"selection"}
    [] type = "image" -> {"image"}
    [] type = "file" -> {"path"}
    [] type = "browser-tab" -> {"tab"}

Stages ==
  {"idle", "capturing", "empty", "sent", "dropping", "handled", "accepted", "refused"}
Jobs ==
  [stage : Stages, action : TransferAction, todo : Seq(AllProviders), reads : Seq(Source),
   entity : [type : EntityType, parts : [Source -> Nat]],
   writes : Seq([place : Place, part : Source])]

(* The inductive invariant, in parts. *)
Types ==
  /\ here \in Backend /\ backend \in Backend
  /\ handlers \subseteq TransferAction
  /\ copies \in Nat
  /\ offered \in [Source -> 0 .. copies + 1] /\ there \in [Place -> 0 .. copies + 1]
  /\ mishap \in [Job -> BOOLEAN]
  /\ job \in [Job -> Jobs]
  /\ \A j \in Job : \A s \in Source : job[j].entity.parts[s] <= copies + 1

(* What every transfer is, whatever befalls it. *)
Holds(r) == \A s \in Source \ SourcesOf(r.entity.type) : r.entity.parts[s] = 0
Asking(r) ==
  /\ r.todo # <<>> /\ r.reads # <<>>
  /\ Ranked(r.todo) /\ Range(r.todo) \subseteq Range(Providers(options))
  /\ r.entity.type = Head(r.todo).type
  /\ Range(r.reads) \subseteq SourcesOf(r.entity.type)
  /\ Holds(r)
Shaped(r) ==
  /\ r.stage = "capturing" => Asking(r)
  /\ r.stage = "sent" => Holds(r) /\ r.entity.parts # Nothing
  /\ r.stage = "dropping" => r.writes # <<>>

(* What every transfer that nobody interfered with is: what it has read is what
   is offered, and what it has yet to ask or to write is what is missing. *)
Exhausted(p) == \A s \in SourcesOf(p.type) : Readable(s) = 0
Reading(r) ==
  /\ \A s \in SourcesOf(r.entity.type) \ Range(r.reads) : r.entity.parts[s] = Readable(s)
  /\ \A p \in Range(Providers(options)) \ Range(r.todo) : Exhausted(p)
Truthful(r) ==
  /\ Best = r.entity.type
  /\ \A s \in SourcesOf(r.entity.type) : r.entity.parts[s] = Readable(s)
Unwanted(action) ==
  \/ Best = "clipboard" /\ action \in {"move", "open"}
  \/ Best = "text" /\ action \in {"move", "open"}
  \/ Best = "file" /\ (action \in {"paste", "open"} \/ "files" \notin options)
  \/ Best = "browser-tab" /\ (action \in {"paste", "move"} \/ "browser" \notin options)
LastFormat ==
  CHOOSE f \in HasFormat : \A k \in DOMAIN Formats :
    Formats[k] \in HasFormat => \E i \in DOMAIN Formats : i >= k /\ Formats[i] = f
Pending(r) == {r.writes[k].place : k \in 1..Len(r.writes)}
Restoring(r) ==
  /\ \A k \in 1..Len(r.writes) :
       r.writes[k].place = r.writes[k].part /\ r.writes[k].part \in HasFormat
  /\ r.writes[Len(r.writes)].place = LastFormat
  /\ \A f \in HasFormat \ Pending(r) :
       Handles(backend, f) /\ (backend = "memory" => there[f] = offered[f])
Placing(r) ==
  /\ Truthful(r) /\ ~Unwanted(r.action)
  /\ Best = "clipboard" => Restoring(r)
  /\ Best = "text" => r.writes = << Write("text/plain", "selection") >>
  /\ Best = "file" => r.writes = << Write("file", "path") >>
  /\ Best = "browser-tab" => r.writes = << Write("browser", "tab") >>

Faithful(j) ==
  /\ job[j].stage = "capturing" => Reading(job[j])
  /\ job[j].stage = "sent" => Truthful(job[j])
  /\ job[j].stage = "dropping" => Placing(job[j])
  /\ job[j].stage = "accepted" => Brought(j) /\ ~Refusable(j)
  /\ job[j].stage = "refused" => Refusable(j)
  /\ job[j].stage = "empty" => Best = "none"

Good(j) == Shaped(job[j]) /\ (~mishap[j] => Faithful(j))
Inv == Types /\ \A j \in Job : Good(j)

-----------------------------------------------------------------------------
(* The tables of Plugins, spelt out. *)
LEMMA FormatIs ==
  /\ Format = {"text/plain", "text/html", "image"}
  /\ Source = {"text/plain", "text/html", "image", "selection", "path", "tab"}
  /\ Place = {"text/plain", "text/html", "image", "file", "browser"}
  /\ Formats \in Seq(Format) /\ Formats # <<>> /\ Len(Formats) = 3
<1>1. DOMAIN Formats = 1..3
  BY DEF Formats
<1>2. Format = {Formats[k] : k \in 1..3}
  BY <1>1 DEF Format, Range
<1>3. Formats[1] = "text/plain" /\ Formats[2] = "text/html" /\ Formats[3] = "image"
  BY DEF Formats
<1>4. Format = {"text/plain", "text/html", "image"}
  BY <1>2, <1>3
<1> QED BY <1>4 DEF Source, Place, Formats

LEMMA ProviderIs ==
  ASSUME NEW p \in AllProviders
  PROVE  /\ p.type \in EntityType /\ p.priority \in Nat
         /\ p.reads \in Seq(Source) /\ p.reads # <<>>
         /\ Range(p.reads) = SourcesOf(p.type)
<1>1. CASE p = ClipboardProvider
  <2>1. p.reads = Formats /\ p.type = "clipboard" /\ p.priority \in Nat
    BY <1>1 DEF ClipboardProvider, Provider, CONTENT_PRIORITY
  <2>2. Formats \in Seq(Source)
    BY FormatIs
  <2> QED BY <2>1, <2>2, FormatIs DEF EntityType, SourcesOf, Format
<1>2. ASSUME NEW type, NEW source \in Source, type # "clipboard", type \in EntityType,
             p.type = type, p.reads = <<source>>, p.priority \in Nat,
             SourcesOf(type) = {source}
      PROVE  /\ p.type \in EntityType /\ p.priority \in Nat
             /\ p.reads \in Seq(Source) /\ p.reads # <<>>
             /\ Range(p.reads) = SourcesOf(p.type)
  <2>1. Range(<<source>>) = {source}
    BY DEF Range
  <2> QED BY <1>2, <2>1
<1>3. CASE p = TextProvider
  BY <1>2, <1>3, FormatIs
     DEF TextProvider, Provider, CONTENT_PRIORITY, EntityType, SourcesOf
<1>4. CASE p = ClipboardImageProvider
  BY <1>2, <1>4, FormatIs
     DEF ClipboardImageProvider, Provider, CONTENT_PRIORITY, EntityType, SourcesOf
<1>5. CASE p = FileProvider
  BY <1>2, <1>5, FormatIs
     DEF FileProvider, Provider, CONTENT_PRIORITY, EntityType, SourcesOf
<1>6. CASE p = BrowserProvider
  BY <1>2, <1>6, FormatIs
     DEF BrowserProvider, Provider, CONTENT_PRIORITY, EntityType, SourcesOf
<1> QED BY <1>1, <1>3, <1>4, <1>5, <1>6 DEF AllProviders

LEMMA Priorities ==
  /\ ClipboardProvider.priority = 100 /\ TextProvider.priority = 90
  /\ ClipboardImageProvider.priority = 80 /\ FileProvider.priority = 70
  /\ BrowserProvider.priority = 60
  /\ ClipboardProvider.type = "clipboard" /\ TextProvider.type = "text"
  /\ ClipboardImageProvider.type = "image" /\ FileProvider.type = "file"
  /\ BrowserProvider.type = "browser-tab"
BY DEF ClipboardProvider, TextProvider, ClipboardImageProvider, FileProvider, BrowserProvider,
       Provider, CONTENT_PRIORITY

(* The registry asks the best provider first, and none is left out. *)
LEMMA ProvidersAre ==
  ASSUME NEW opts
  PROVE  /\ Providers(opts) \in Seq(AllProviders) /\ Ranked(Providers(opts))
         /\ {ClipboardProvider, TextProvider, FileProvider, BrowserProvider}
              \subseteq Range(Providers(opts))
<1> DEFINE u == <<ClipboardProvider>>
           a == When("image", opts, ClipboardImageProvider)
           v == <<BrowserProvider, FileProvider, TextProvider>>
           s == u \o a \o v
<1>0. /\ u \in Seq(AllProviders) /\ Len(u) = 1 /\ u[1] = ClipboardProvider
      /\ v \in Seq(AllProviders) /\ Len(v) = 3
      /\ v[1] = BrowserProvider /\ v[2] = FileProvider /\ v[3] = TextProvider
  BY DEF AllProviders
<1>1. /\ s \in Seq(AllProviders) /\ Len(s) <= 5 /\ Distinct(s)
      /\ {ClipboardProvider, TextProvider, FileProvider, BrowserProvider} \subseteq Range(s)
  <2>1. CASE "image" \in opts
    <3>1. a \in Seq(AllProviders) /\ Len(a) = 1 /\ a[1] = ClipboardImageProvider
      BY <2>1 DEF When, AllProviders
    <3> HIDE DEF a
    <3>2. /\ u \o a \in Seq(AllProviders) /\ Len(u \o a) = 2
          /\ (u \o a)[1] = ClipboardProvider /\ (u \o a)[2] = ClipboardImageProvider
      BY <1>0, <3>1, Concat, 1 + 1 = 2
    <3> HIDE DEF u, v
    <3>3. /\ s \in Seq(AllProviders) /\ Len(s) = 5
          /\ s[1] = ClipboardProvider /\ s[2] = ClipboardImageProvider
          /\ s[3] = BrowserProvider /\ s[4] = FileProvider /\ s[5] = TextProvider
      <4> DEFINE w == u \o a
      <4>1. w \in Seq(AllProviders) /\ Len(w) = 2 /\ 1 \in 1..2 /\ 2 \in 1..2
            /\ 1 \in 1..3 /\ 2 \in 1..3 /\ 3 \in 1..3
        BY <3>2
      <4> HIDE DEF w
      <4>2. /\ w \o v \in Seq(AllProviders) /\ Len(w \o v) = Len(w) + Len(v)
            /\ \A k \in 1..Len(w) : (w \o v)[k] = w[k]
            /\ \A k \in 1..Len(v) : (w \o v)[Len(w) + k] = v[k]
        <5>1. w \in Seq(AllProviders) /\ v \in Seq(AllProviders)
          BY <1>0, <4>1
        <5> QED BY <5>1, Concat
      <4>3. s = w \o v
        BY DEF w
      <4>4. w[1] = ClipboardProvider /\ w[2] = ClipboardImageProvider
        BY <3>2 DEF w
      <4> HIDE DEF s
      <4> QED BY <1>0, <4>1, <4>2, <4>3, <4>4, 2 + 1 = 3, 2 + 2 = 4, 2 + 3 = 5
    <3> HIDE DEF s
    <3>4. Distinct(s)
      BY <3>3, Priorities DEF Distinct
    <3>5. Range(s) = {s[k] : k \in 1..5}
      BY <3>3, RangeIs
    <3> QED BY <3>3, <3>4, <3>5
  <2>2. CASE "image" \notin opts
    <3>1. a \in Seq(AllProviders) /\ Len(a) = 0
      BY <2>2 DEF When
    <3> HIDE DEF a
    <3>2. /\ u \o a \in Seq(AllProviders) /\ Len(u \o a) = 1
          /\ (u \o a)[1] = ClipboardProvider
      BY <1>0, <3>1, Concat, 1 + 0 = 1
    <3> HIDE DEF u, v
    <3>3. /\ s \in Seq(AllProviders) /\ Len(s) = 4
          /\ s[1] = ClipboardProvider /\ s[2] = BrowserProvider
          /\ s[3] = FileProvider /\ s[4] = TextProvider
      <4> DEFINE w == u \o a
      <4>1. w \in Seq(AllProviders) /\ Len(w) = 1 /\ 1 \in 1..1
            /\ 1 \in 1..3 /\ 2 \in 1..3 /\ 3 \in 1..3
        BY <3>2
      <4> HIDE DEF w
      <4>2. /\ w \o v \in Seq(AllProviders) /\ Len(w \o v) = Len(w) + Len(v)
            /\ \A k \in 1..Len(w) : (w \o v)[k] = w[k]
            /\ \A k \in 1..Len(v) : (w \o v)[Len(w) + k] = v[k]
        <5>1. w \in Seq(AllProviders) /\ v \in Seq(AllProviders)
          BY <1>0, <4>1
        <5> QED BY <5>1, Concat
      <4>3. s = w \o v
        BY DEF w
      <4>4. w[1] = ClipboardProvider
        BY <3>2 DEF w
      <4> HIDE DEF s
      <4> QED BY <1>0, <4>1, <4>2, <4>3, <4>4, 1 + 1 = 2, 1 + 2 = 3, 1 + 3 = 4
    <3> HIDE DEF s
    <3>4. Distinct(s)
      BY <3>3, Priorities DEF Distinct
    <3>5. Range(s) = {s[k] : k \in 1..4}
      BY <3>3, RangeIs
    <3> QED BY <3>3, <3>4, <3>5
  <2> QED BY <2>1, <2>2
<1>2. Providers(opts) = RegisterAll(s)
  BY DEF Providers
<1> HIDE DEF u, a, v, s
<1>3. \A x \in AllProviders : x.priority \in Nat
  BY ProviderIs
<1> QED BY <1>1, <1>2, <1>3, AllRegistered

(* And the sinks are those of the options. *)
LEMMA SinksAre ==
  ASSUME NEW opts
  PROVE  /\ Sinks(opts) \in Seq(AllSinks) /\ Len(Sinks(opts)) <= 5
         /\ ClipboardSink \in Range(Sinks(opts))
         /\ FileSink \in Range(Sinks(opts)) <=> "files" \in opts
         /\ BrowserSink \in Range(Sinks(opts)) <=> "browser" \in opts
<1> DEFINE a == When("image", opts, ImageSink)
           b == When("files", opts, FileSink)
           c == When("browser", opts, BrowserSink)
           d == When("text", opts, ClipboardTextSink)
           s == <<ClipboardSink>> \o a \o b \o c \o d
<1>1. ASSUME NEW option, NEW sink \in AllSinks
      PROVE  /\ When(option, opts, sink) \in Seq(AllSinks)
             /\ Len(When(option, opts, sink)) <= 1
             /\ Range(When(option, opts, sink)) = IF option \in opts THEN {sink} ELSE {}
  BY DEF When, Range
<1>2. /\ ClipboardSink \in AllSinks /\ ImageSink \in AllSinks /\ FileSink \in AllSinks
      /\ BrowserSink \in AllSinks /\ ClipboardTextSink \in AllSinks
  BY DEF AllSinks
<1>3. /\ a \in Seq(AllSinks) /\ b \in Seq(AllSinks) /\ c \in Seq(AllSinks)
      /\ d \in Seq(AllSinks) /\ <<ClipboardSink>> \in Seq(AllSinks)
      /\ Len(a) <= 1 /\ Len(b) <= 1 /\ Len(c) <= 1 /\ Len(d) <= 1
      /\ Len(<<ClipboardSink>>) = 1
  BY <1>1, <1>2
<1>4. /\ Range(a) = IF "image" \in opts THEN {ImageSink} ELSE {}
      /\ Range(b) = IF "files" \in opts THEN {FileSink} ELSE {}
      /\ Range(c) = IF "browser" \in opts THEN {BrowserSink} ELSE {}
      /\ Range(d) = IF "text" \in opts THEN {ClipboardTextSink} ELSE {}
      /\ Range(<<ClipboardSink>>) = {ClipboardSink}
  <2>1. Range(<<ClipboardSink>>) = {ClipboardSink}
    BY DEF Range
  <2> QED BY <1>1, <1>2, <2>1
<1>6. /\ s \in Seq(AllSinks) /\ Len(s) <= 5
      /\ Range(s) = {ClipboardSink} \cup Range(a) \cup Range(b) \cup Range(c) \cup Range(d)
  <2> DEFINE e == <<ClipboardSink>>
             ea == e \o a
             eb == ea \o b
             ec == eb \o c
  <2>0. Len(a) \in Nat /\ Len(b) \in Nat /\ Len(c) \in Nat /\ Len(d) \in Nat
    BY <1>3
  <2>e. e \in Seq(AllSinks) /\ Len(e) = 1 /\ Range(e) = {ClipboardSink}
    BY <1>3, <1>4
  <2> HIDE DEF a, b, c, d, e
  <2>d. ea = e \o a /\ eb = ea \o b /\ ec = eb \o c /\ s = ec \o d
    BY DEF e
  <2> HIDE DEF ea, eb, ec, s
  <2>1. ea \in Seq(AllSinks) /\ Len(ea) = 1 + Len(a) /\ Range(ea) = {ClipboardSink} \cup Range(a)
    <3>0. e \in Seq(AllSinks) /\ a \in Seq(AllSinks)
      BY <1>3, <2>e
    <3>1. /\ e \o a \in Seq(AllSinks) /\ Len(e \o a) = Len(e) + Len(a)
          /\ Range(e \o a) = Range(e) \cup Range(a)
      BY <3>0, Chained
    <3> QED BY <2>e, <2>d, <3>1
  <2>2. eb \in Seq(AllSinks) /\ Len(eb) = 1 + Len(a) + Len(b)
        /\ Range(eb) = {ClipboardSink} \cup Range(a) \cup Range(b)
    <3>1. /\ ea \o b \in Seq(AllSinks) /\ Len(ea \o b) = Len(ea) + Len(b)
          /\ Range(ea \o b) = Range(ea) \cup Range(b)
      BY <1>3, <2>1, Chained
    <3> QED BY <2>1, <2>d, <3>1
  <2>3. ec \in Seq(AllSinks) /\ Len(ec) = 1 + Len(a) + Len(b) + Len(c)
        /\ Range(ec) = {ClipboardSink} \cup Range(a) \cup Range(b) \cup Range(c)
    <3>1. /\ eb \o c \in Seq(AllSinks) /\ Len(eb \o c) = Len(eb) + Len(c)
          /\ Range(eb \o c) = Range(eb) \cup Range(c)
      BY <1>3, <2>2, Chained
    <3> QED BY <2>2, <2>d, <3>1
  <2>4. s \in Seq(AllSinks) /\ Len(s) = 1 + Len(a) + Len(b) + Len(c) + Len(d)
        /\ Range(s) = {ClipboardSink} \cup Range(a) \cup Range(b) \cup Range(c) \cup Range(d)
    <3>1. /\ ec \o d \in Seq(AllSinks) /\ Len(ec \o d) = Len(ec) + Len(d)
          /\ Range(ec \o d) = Range(ec) \cup Range(d)
      BY <1>3, <2>3, Chained
    <3> QED BY <2>3, <2>d, <3>1
  <2> QED BY <1>3, <2>0, <2>4
<1>7. Sinks(opts) = RegisterAll(s)
  BY DEF Sinks
<1>8. \A x \in AllSinks : x.priority \in Nat
  BY DEF AllSinks, ClipboardSink, ImageSink, FileSink, BrowserSink, ClipboardTextSink, Sink,
         CONTENT_PRIORITY
<1> HIDE DEF s
<1>9. /\ Sinks(opts) \in Seq(AllSinks) /\ Len(Sinks(opts)) = Len(s)
      /\ Range(Sinks(opts)) = Range(s)
  BY <1>6, <1>7, <1>8, AllRegistered
<1>10. /\ FileSink # ClipboardSink /\ FileSink # ImageSink /\ FileSink # BrowserSink
       /\ FileSink # ClipboardTextSink /\ BrowserSink # ClipboardSink
       /\ BrowserSink # ImageSink /\ BrowserSink # ClipboardTextSink
  BY DEF ClipboardSink, ImageSink, FileSink, BrowserSink, ClipboardTextSink, Sink
<1> HIDE DEF a, b, c, d
<1> QED BY <1>4, <1>6, <1>9, <1>10

-----------------------------------------------------------------------------
(* What can be read is what is offered, or nothing. *)
LEMMA ReadableIs ==
  ASSUME Types, NEW s \in Source
  PROVE  /\ Readable(s) \in Nat /\ Readable(s) <= copies + 1
         /\ Readable(s) # 0 => Readable(s) = offered[s]
         /\ s \notin Format => Readable(s) = offered[s]
BY DEF Types, Readable, Handles

LEMMA SourcesOfIs ==
  /\ SourcesOf("clipboard") = Format /\ SourcesOf("text") = {"selection"}
  /\ SourcesOf("image") = {"image"} /\ SourcesOf("file") = {"path"}
  /\ SourcesOf("browser-tab") = {"tab"}
  /\ \A type \in EntityType : SourcesOf(type) \subseteq Source
BY FormatIs DEF SourcesOf, EntityType

LEMMA BestIs ==
  /\ Best \in {"clipboard", "text", "file", "browser-tab", "none"}
  /\ Best = "clipboard" <=> HasFormat # {}
  /\ Best = "text" <=> HasFormat = {} /\ offered["selection"] # 0
  /\ Best = "file" <=> HasFormat = {} /\ offered["selection"] = 0 /\ offered["path"] # 0
  /\ Best = "browser-tab" <=>
       HasFormat = {} /\ offered["selection"] = 0 /\ offered["path"] = 0 /\ offered["tab"] # 0
BY DEF Best

LEMMA HasFormatIs ==
  /\ HasFormat \subseteq Format
  /\ \A f \in Format : f \in HasFormat <=> Readable(f) # 0
BY DEF HasFormat

(* What a provider that is exhausted means for the best there is. *)
LEMMA ExhaustedIs ==
  ASSUME Types
  PROVE  /\ Exhausted(ClipboardProvider) <=> HasFormat = {}
         /\ Exhausted(TextProvider) <=> offered["selection"] = 0
         /\ Exhausted(FileProvider) <=> offered["path"] = 0
         /\ Exhausted(BrowserProvider) <=> offered["tab"] = 0
         /\ Exhausted(ClipboardProvider) => Exhausted(ClipboardImageProvider)
<1>1. /\ "selection" \in Source \ Format /\ "path" \in Source \ Format
      /\ "tab" \in Source \ Format /\ "image" \in Format
  BY FormatIs
<1>2. /\ Readable("selection") = offered["selection"] /\ Readable("path") = offered["path"]
      /\ Readable("tab") = offered["tab"]
  BY <1>1, ReadableIs
<1> QED BY <1>1, <1>2, SourcesOfIs, Priorities, HasFormatIs DEF Exhausted

(* How a list goes on: of sources to read, of providers to ask. *)
LEMMA TailIs ==
  ASSUME NEW S, NEW q \in Seq(S), q # <<>>
  PROVE  /\ Head(q) \in S /\ Head(q) \in Range(q) /\ Tail(q) \in Seq(S)
         /\ Range(q) = {Head(q)} \cup Range(Tail(q))
<1> DEFINE n == Len(q)
           rest == Tail(q)
<1>1. n \in Nat /\ n >= 1 /\ Head(q) = q[1] /\ q[1] \in S
  OBVIOUS
<1>2. /\ rest \in Seq(S) /\ Len(rest) = n - 1
      /\ \A k \in 1..(n - 1) : rest[k] = q[k + 1]
  OBVIOUS
<1>3. Range(q) = {q[k] : k \in 1..n} /\ Range(rest) = {rest[k] : k \in 1..(n - 1)}
  BY <1>2, RangeIs
<1> HIDE DEF n, rest
<1>5. Head(q) \in Range(q)
  <2>1. 1 \in 1..n
    BY <1>1
  <2> QED BY <1>1, <1>3, <2>1
<1>8. Range(q) = {Head(q)} \cup Range(rest)
  <2>1. ASSUME NEW k \in 1..(n - 1) PROVE k + 1 \in 1..n /\ rest[k] = q[k + 1]
    BY <1>1, <1>2
  <2>2. Range(rest) \subseteq Range(q)
    BY <1>3, <2>1
  <2>3. ASSUME NEW k \in 1..n PROVE q[k] \in {Head(q)} \cup Range(rest)
    <3>1. CASE k = 1
      BY <1>1, <3>1
    <3>2. CASE k > 1
      <4>1. k - 1 \in 1..(n - 1) /\ (k - 1) + 1 = k
        BY <1>1, <3>2
      <4>2. rest[k - 1] = q[k]
        BY <1>2, <4>1
      <4> QED BY <1>3, <4>1, <4>2
    <3> QED BY <1>1, <3>1, <3>2
  <2>4. Range(q) \subseteq {Head(q)} \cup Range(rest)
    BY <1>3, <2>3
  <2> QED BY <1>5, <2>2, <2>4
<1> QED BY <1>1, <1>2, <1>5, <1>8 DEF rest

(* Whoever is asked first has the highest priority of those left to ask. *)
LEMMA HeadIs ==
  ASSUME NEW todo \in Seq(AllProviders), todo # <<>>, Ranked(todo)
  PROVE  /\ Head(todo) \in AllProviders /\ Head(todo) \in Range(todo)
         /\ \A p \in Range(todo) : p = Head(todo) \/ Head(todo).priority > p.priority
         /\ Tail(todo) \in Seq(AllProviders) /\ Ranked(Tail(todo))
         /\ Range(todo) = Range(Tail(todo)) \cup {Head(todo)}
<1> DEFINE n == Len(todo)
           rest == Tail(todo)
<1>1. n \in Nat /\ n >= 1 /\ Head(todo) = todo[1] /\ todo[1] \in AllProviders
  OBVIOUS
<1>2. /\ rest \in Seq(AllProviders) /\ Len(rest) = n - 1
      /\ \A k \in 1..(n - 1) : rest[k] = todo[k + 1]
  OBVIOUS
<1>3. Range(todo) = {todo[k] : k \in 1..n}
  BY RangeIs
<1>4. \A i, k \in 1..n : i < k => todo[i].priority > todo[k].priority
  BY DEF Ranked
<1> HIDE DEF n, rest
<1>6. ASSUME NEW p \in Range(todo) PROVE p = Head(todo) \/ Head(todo).priority > p.priority
  <2>1. PICK k \in 1..n : p = todo[k]
    BY <1>3
  <2>2. k = 1 \/ (1 \in 1..n /\ 1 < k)
    BY <1>1
  <2> QED BY <1>1, <1>4, <2>1, <2>2
<1>7. Ranked(rest)
  <2>1. ASSUME NEW i \in 1..(n - 1), NEW k \in 1..(n - 1), i < k
        PROVE  rest[i].priority > rest[k].priority
    <3>1. i + 1 \in 1..n /\ k + 1 \in 1..n /\ i + 1 < k + 1
      BY <1>1, <2>1
    <3>2. todo[i + 1].priority > todo[k + 1].priority
      BY <1>4, <3>1
    <3> QED BY <1>2, <3>2
  <2> QED BY <1>2, <2>1 DEF Ranked
<1> QED BY <1>6, <1>7, TailIs DEF rest

(* A provider that is asked has found something: nothing better is offered. *)
LEMMA FoundIsBest ==
  ASSUME Types, NEW todo \in Seq(AllProviders), todo # <<>>, Ranked(todo),
         \A p \in Range(Providers(options)) \ Range(todo) : Exhausted(p),
         ~Exhausted(Head(todo))
  PROVE  Best = Head(todo).type
<1> DEFINE h == Head(todo)
<1>1. h \in AllProviders /\ \A p \in Range(todo) : p = h \/ h.priority > p.priority
  BY HeadIs
<1>2. ASSUME NEW p \in {ClipboardProvider, TextProvider, FileProvider, BrowserProvider},
             p.priority > h.priority
      PROVE  Exhausted(p)
  <2>1. p \in Range(Providers(options))
    BY ProvidersAre
  <2>2. p.priority \in Nat /\ h.priority \in Nat
    BY <1>1, ProviderIs DEF AllProviders
  <2>3. p \notin Range(todo)
    BY <1>1, <1>2, <2>2
  <2> QED BY <2>1, <2>3
<1>3. ~Exhausted(h)
  OBVIOUS
<1> SUFFICES Best = h.type
  OBVIOUS
<1> HIDE DEF h
<1>4. CASE h = ClipboardProvider
  BY <1>3, <1>4, ExhaustedIs, BestIs, Priorities
<1>5. CASE h = TextProvider
  <2>1. Exhausted(ClipboardProvider)
    BY <1>2, <1>5, Priorities
  <2> QED BY <1>3, <1>5, <2>1, ExhaustedIs, BestIs, Priorities
<1>6. CASE h = ClipboardImageProvider
  <2>1. Exhausted(ClipboardProvider)
    BY <1>2, <1>6, Priorities
  <2> QED BY <1>3, <1>6, <2>1, ExhaustedIs
<1>7. CASE h = FileProvider
  <2>1. Exhausted(ClipboardProvider) /\ Exhausted(TextProvider)
    BY <1>2, <1>7, Priorities
  <2> QED BY <1>3, <1>7, <2>1, ExhaustedIs, BestIs, Priorities
<1>8. CASE h = BrowserProvider
  <2>1. Exhausted(ClipboardProvider) /\ Exhausted(TextProvider) /\ Exhausted(FileProvider)
    BY <1>2, <1>8, Priorities
  <2> QED BY <1>3, <1>8, <2>1, ExhaustedIs, BestIs, Priorities
<1> QED BY <1>1, <1>4, <1>5, <1>6, <1>7, <1>8 DEF AllProviders

(* When every provider has been asked in vain, nothing is offered. *)
LEMMA NothingFound ==
  ASSUME Types, \A p \in Range(Providers(options)) : Exhausted(p)
  PROVE  Best = "none"
<1>1. /\ Exhausted(ClipboardProvider) /\ Exhausted(TextProvider) /\ Exhausted(FileProvider)
      /\ Exhausted(BrowserProvider)
  BY ProvidersAre
<1> QED BY <1>1, ExhaustedIs, BestIs

(* A provider is asked, or all have been. *)
LEMMA AskIs ==
  ASSUME NEW todo \in Seq(AllProviders), Ranked(todo),
         Range(todo) \subseteq Range(Providers(options)),
         NEW action \in TransferAction, NEW r, r = [Ask(todo) EXCEPT !.action = action]
  PROVE  /\ r \in Jobs /\ r.entity.parts = Nothing /\ Shaped(r)
         /\ todo = <<>> => r.stage = "empty"
         /\ todo # <<>> => /\ r.stage = "capturing" /\ r.todo = todo
                           /\ Range(r.reads) = SourcesOf(r.entity.type)
<1>0. /\ Idle \in Jobs /\ Nothing \in [Source -> Nat] /\ Idle.entity.parts = Nothing
      /\ \A s \in Source : Nothing[s] = 0
  BY DEF Idle, Jobs, Nothing, Stages, TransferAction, EntityType
<1>1. CASE todo = <<>>
  <2>1. r = [Idle EXCEPT !.stage = "empty", !.action = action]
    BY <1>1 DEF Ask, Idle
  <2>2. r \in Jobs /\ r.stage = "empty" /\ r.entity = Idle.entity
    BY <1>0, <2>1 DEF Jobs, Stages
  <2> QED BY <1>0, <1>1, <2>2 DEF Shaped
<1>2. CASE todo # <<>>
  <2>1. /\ r.stage = "capturing" /\ r.action = action /\ r.todo = todo
        /\ r.reads = Head(todo).reads /\ r.writes = <<>>
        /\ r.entity = [type |-> Head(todo).type, parts |-> Nothing]
        /\ r = [stage |-> r.stage, action |-> r.action, todo |-> r.todo, reads |-> r.reads,
                entity |-> r.entity, writes |-> r.writes]
    BY <1>2 DEF Ask, Idle
  <2>2. /\ Head(todo) \in AllProviders /\ Head(todo).type \in EntityType
        /\ Head(todo).reads \in Seq(Source) /\ Head(todo).reads # <<>>
        /\ Range(Head(todo).reads) = SourcesOf(Head(todo).type)
    BY <1>2, HeadIs, ProviderIs
  <2>3. r \in Jobs
    <3>1. r.entity \in [type : EntityType, parts : [Source -> Nat]]
      BY <1>0, <2>1, <2>2
    <3>2. <<>> \in Seq([place : Place, part : Source])
      OBVIOUS
    <3>3. r.stage \in Stages
      BY <2>1 DEF Stages
    <3> QED BY <2>1, <2>2, <3>1, <3>2, <3>3 DEF Jobs
  <2>4. Asking(r)
    BY <1>0, <1>2, <2>1, <2>2 DEF Asking, Holds
  <2> QED BY <1>2, <2>1, <2>2, <2>3, <2>4 DEF Shaped
<1> QED BY <1>1, <1>2

-----------------------------------------------------------------------------
(* resolveSink() finds a sink that takes the entity, if any does. *)
LEMMA Matched ==
  ASSUME NEW entity, NEW action
  PROVE  LET sinks == Matching(options, entity, action)
         IN /\ sinks = {} => \A sink \in Range(Sinks(options)) :
                               ~SinkMatches(sink, entity, action)
            /\ sinks # {} => /\ First(options, sinks) \in Range(Sinks(options))
                             /\ First(options, sinks) \in AllSinks
                             /\ SinkMatches(First(options, sinks), entity, action)
<1> DEFINE sinks == Matching(options, entity, action)
           n == Len(Sinks(options))
<1>1. /\ Sinks(options) \in Seq(AllSinks) /\ n \in 0..5 /\ DOMAIN Sinks(options) = 1..n
      /\ Range(Sinks(options)) = {Sinks(options)[k] : k \in 1..n}
      /\ \A k \in 1..n : Sinks(options)[k] \in AllSinks
  <2>1. Sinks(options) \in Seq(AllSinks) /\ n \in Nat /\ n <= 5
    BY SinksAre
  <2>2. DOMAIN Sinks(options) = 1..n /\ \A k \in 1..n : Sinks(options)[k] \in AllSinks
    BY <2>1
  <2>3. Range(Sinks(options)) = {Sinks(options)[k] : k \in 1..n}
    BY <2>1, RangeIs
  <2> HIDE DEF n
  <2> QED BY <2>1, <2>2, <2>3
<1>2. \A k : k \in sinks <=> k \in 1..n /\ SinkMatches(Sinks(options)[k], entity, action)
  BY <1>1 DEF Matching
<1> HIDE DEF n, sinks
<1>3. ASSUME sinks # {} PROVE Min(sinks) \in sinks
  <2>0. \A x \in sinks : x \in 1..5
    BY <1>1, <1>2
  <2>1. \E m \in sinks : \A x \in sinks : m <= x
    <3>1. 1 \in sinks \/ 2 \in sinks \/ 3 \in sinks \/ 4 \in sinks \/ 5 \in sinks
      <4>1. PICK x \in sinks : x \in 1..5
        BY <1>3, <2>0
      <4>2. x = 1 \/ x = 2 \/ x = 3 \/ x = 4 \/ x = 5
        BY <4>1
      <4> QED BY <4>2
    <3>2. CASE 1 \in sinks
      BY <2>0, <3>2
    <3>3. CASE 1 \notin sinks /\ 2 \in sinks
      BY <2>0, <3>3
    <3>4. CASE 1 \notin sinks /\ 2 \notin sinks /\ 3 \in sinks
      BY <2>0, <3>4
    <3>5. CASE 1 \notin sinks /\ 2 \notin sinks /\ 3 \notin sinks /\ 4 \in sinks
      BY <2>0, <3>5
    <3>6. CASE 1 \notin sinks /\ 2 \notin sinks /\ 3 \notin sinks /\ 4 \notin sinks /\ 5 \in sinks
      BY <2>0, <3>6
    <3> QED BY <3>1, <3>2, <3>3, <3>4, <3>5, <3>6
  <2> QED BY <2>1 DEF Min
<1>4. ASSUME sinks = {}, NEW sink \in Range(Sinks(options))
      PROVE  ~SinkMatches(sink, entity, action)
  BY <1>1, <1>2, <1>4
<1>5. ASSUME sinks # {}
      PROVE  /\ First(options, sinks) \in Range(Sinks(options))
             /\ First(options, sinks) \in AllSinks
             /\ SinkMatches(First(options, sinks), entity, action)
  <2>1. First(options, sinks) = Sinks(options)[Min(sinks)]
    BY DEF First
  <2>2. Min(sinks) \in 1..n /\ SinkMatches(Sinks(options)[Min(sinks)], entity, action)
    BY <1>2, <1>3, <1>5
  <2> QED BY <1>1, <2>1, <2>2
<1> QED BY <1>4, <1>5 DEF sinks

(* Which sink takes what. *)
LEMMA SinkIs ==
  ASSUME NEW sink \in AllSinks, NEW entity, NEW action, SinkMatches(sink, entity, action)
  PROVE  /\ entity.type \in {"clipboard", "text"} => action \in {"copy", "paste"}
         /\ entity.type = "file" => sink = FileSink /\ action \in {"copy", "move"}
         /\ entity.type = "browser-tab" => sink = BrowserSink /\ action \in {"open", "copy"}
BY DEF AllSinks, ClipboardSink, ClipboardTextSink, ImageSink, FileSink, BrowserSink, Sink,
       SinkMatches

(* The best there is is refused for want of a sink when it is unwanted, and only
   then. *)
LEMMA UnwantedIs ==
  ASSUME NEW entity, NEW action \in TransferAction, entity.type = Best
  PROVE  LET sinks == Matching(options, entity, action)
         IN /\ sinks = {} /\ Best # "none" => Unwanted(action)
            /\ sinks # {} => ~Unwanted(action)
<1> DEFINE sinks == Matching(options, entity, action)
<1>1. /\ action \in {"copy", "paste", "move", "open"}
      /\ Best \in {"clipboard", "text", "file", "browser-tab", "none"}
  BY BestIs DEF TransferAction
<1>2. ASSUME sinks = {}, Best # "none" PROVE Unwanted(action)
  <2>1. \A sink \in Range(Sinks(options)) : ~SinkMatches(sink, entity, action)
    BY <1>2, Matched
  <2>2. /\ ClipboardSink \in Range(Sinks(options))
        /\ "files" \in options => FileSink \in Range(Sinks(options))
        /\ "browser" \in options => BrowserSink \in Range(Sinks(options))
    BY SinksAre
  <2>3. /\ SinkMatches(ClipboardSink, entity, action) <=>
             Best \in {"clipboard", "text"} /\ action \in {"copy", "paste"}
        /\ SinkMatches(FileSink, entity, action) <=> Best = "file" /\ action \in {"copy", "move"}
        /\ SinkMatches(BrowserSink, entity, action) <=>
             Best = "browser-tab" /\ action \in {"open", "copy"}
    BY DEF SinkMatches, ClipboardSink, FileSink, BrowserSink, Sink
  <2> QED BY <1>1, <1>2, <2>1, <2>2, <2>3 DEF Unwanted
<1>3. ASSUME sinks # {} PROVE ~Unwanted(action)
  <2> DEFINE sink == First(options, sinks)
  <2>1. sink \in Range(Sinks(options)) /\ sink \in AllSinks /\ SinkMatches(sink, entity, action)
    BY <1>3, Matched
  <2> HIDE DEF sink
  <2>2. /\ FileSink \in Range(Sinks(options)) <=> "files" \in options
        /\ BrowserSink \in Range(Sinks(options)) <=> "browser" \in options
    BY SinksAre
  <2>3. /\ entity.type \in {"clipboard", "text"} => action \in {"copy", "paste"}
        /\ entity.type = "file" => sink = FileSink /\ action \in {"copy", "move"}
        /\ entity.type = "browser-tab" => sink = BrowserSink /\ action \in {"open", "copy"}
    BY <2>1, SinkIs
  <2> QED BY <2>1, <2>2, <2>3 DEF Unwanted
<1> QED BY <1>2, <1>3

(* What a sink writes of an entity, and in which order. *)
LEMMA WritesAre ==
  ASSUME NEW sink, NEW entity \in [type : EntityType, parts : [Source -> Nat]],
         entity.type = "clipboard"
  PROVE  LET q == Writes(sink, entity)
         IN /\ q \in Seq([place : Place, part : Source])
            /\ Range(q) = {Write(f, f) : f \in {g \in Format : entity.parts[g] # 0}}
            /\ q # <<>> => q[Len(q)].place = IF entity.parts["image"] # 0 THEN "image"
                 ELSE IF entity.parts["text/html"] # 0 THEN "text/html" ELSE "text/plain"
<1> DEFINE S == [place : Place, part : Source]
           w(f) == WriteIfAny(entity, f)
           x == w("text/plain")
           y == w("text/html")
           z == w("image")
           q == x \o y \o z
<1>1. Writes(sink, entity) = q
  BY DEF Writes
<1>2. ASSUME NEW f \in Format
      PROVE  /\ w(f) \in Seq(S)
             /\ entity.parts[f] # 0 => Len(w(f)) = 1 /\ w(f)[1].place = f
             /\ entity.parts[f] = 0 => Len(w(f)) = 0
             /\ Range(w(f)) = IF entity.parts[f] # 0 THEN {Write(f, f)} ELSE {}
  <2>1. Write(f, f) \in S /\ Write(f, f).place = f
    BY FormatIs DEF Write
  <2>2. CASE entity.parts[f] # 0
    <3>1. w(f) = << Write(f, f) >>
      BY <2>2 DEF WriteIfAny
    <3> QED BY <2>1, <2>2, <3>1 DEF Range
  <2>3. CASE entity.parts[f] = 0
    <3>1. w(f) = <<>>
      BY <2>3 DEF WriteIfAny
    <3> QED BY <2>3, <3>1 DEF Range
  <2> QED BY <2>2, <2>3
<1>3. /\ "text/plain" \in Format /\ "text/html" \in Format /\ "image" \in Format
      /\ Format = {"text/plain", "text/html", "image"}
  BY FormatIs
<1>4. /\ x \in Seq(S) /\ Range(x) = IF entity.parts["text/plain"] # 0
                                    THEN {Write("text/plain", "text/plain")} ELSE {}
      /\ Len(x) = IF entity.parts["text/plain"] # 0 THEN 1 ELSE 0
      /\ Len(x) = 1 => x[1].place = "text/plain"
  BY <1>2, <1>3
<1>5. /\ y \in Seq(S) /\ Range(y) = IF entity.parts["text/html"] # 0
                                    THEN {Write("text/html", "text/html")} ELSE {}
      /\ Len(y) = IF entity.parts["text/html"] # 0 THEN 1 ELSE 0
      /\ Len(y) = 1 => y[1].place = "text/html"
  BY <1>2, <1>3
<1>6. /\ z \in Seq(S) /\ Range(z) = IF entity.parts["image"] # 0
                                    THEN {Write("image", "image")} ELSE {}
      /\ Len(z) = IF entity.parts["image"] # 0 THEN 1 ELSE 0
      /\ Len(z) = 1 => z[1].place = "image"
  BY <1>2, <1>3
<1> DEFINE xy == x \o y
<1> HIDE DEF x, y, z, S
<1>7. /\ xy \in Seq(S) /\ Len(xy) = Len(x) + Len(y) /\ Range(xy) = Range(x) \cup Range(y)
      /\ \A k \in 1..Len(x) : xy[k] = x[k]
      /\ \A k \in 1..Len(y) : xy[Len(x) + k] = y[k]
  BY <1>4, <1>5, Concat
<1>8. q = xy \o z
  OBVIOUS
<1> HIDE DEF xy, q
<1>9. /\ q \in Seq(S) /\ Len(q) = Len(xy) + Len(z) /\ Range(q) = Range(xy) \cup Range(z)
      /\ \A k \in 1..Len(xy) : q[k] = xy[k]
      /\ \A k \in 1..Len(z) : q[Len(xy) + k] = z[k]
  <2>1. xy \in Seq(S) /\ z \in Seq(S)
    BY <1>6, <1>7
  <2> QED BY <1>8, <2>1, Concat
<1>10. Range(q) = {Write(f, f) : f \in {g \in Format : entity.parts[g] # 0}}
  <2>1. Range(q) = Range(x) \cup Range(y) \cup Range(z)
    BY <1>7, <1>9
  <2> QED BY <1>3, <1>4, <1>5, <1>6, <2>1
<1>11. ASSUME q # <<>>
       PROVE  q[Len(q)].place = IF entity.parts["image"] # 0 THEN "image"
                 ELSE IF entity.parts["text/html"] # 0 THEN "text/html" ELSE "text/plain"
  <2>0. Len(x) \in 0..1 /\ Len(y) \in 0..1 /\ Len(z) \in 0..1 /\ Len(xy) \in Nat /\ Len(q) # 0
    <3>1. Len(q) # 0
      BY <1>9, <1>11
    <3> QED BY <1>4, <1>5, <1>6, <1>7, <3>1
  <2>1. CASE entity.parts["image"] # 0
    <3>1. 1 \in 1..Len(z) /\ Len(q) = Len(xy) + 1
      BY <1>6, <1>9, <2>1
    <3> QED BY <1>6, <1>9, <2>1, <3>1
  <2>2. CASE entity.parts["image"] = 0 /\ entity.parts["text/html"] # 0
    <3>1. 1 \in 1..Len(y) /\ Len(q) = Len(xy) /\ Len(xy) = Len(x) + 1 /\ Len(xy) \in 1..Len(xy)
      BY <1>5, <1>6, <1>7, <1>9, <2>0, <2>2
    <3>2. q[Len(q)] = xy[Len(x) + 1]
      BY <1>9, <3>1
    <3> QED BY <1>5, <1>7, <2>2, <3>1, <3>2
  <2>3. CASE entity.parts["image"] = 0 /\ entity.parts["text/html"] = 0
    <3>1. Len(x) = 1 /\ Len(xy) = 1 /\ Len(q) = 1 /\ 1 \in 1..1
      BY <1>4, <1>5, <1>6, <1>7, <1>9, <2>0, <2>3
    <3>2. q[1] = x[1]
      BY <1>7, <1>9, <3>1
    <3> QED BY <1>4, <2>3, <3>1, <3>2
  <2> QED BY <2>1, <2>2, <2>3
<1> QED BY <1>1, <1>9, <1>10, <1>11 DEF S

(* The last format that there is, in the order they are written in. *)
LEMMA LastFormatIs ==
  ASSUME HasFormat # {}
  PROVE  LastFormat = IF "image" \in HasFormat THEN "image"
                      ELSE IF "text/html" \in HasFormat THEN "text/html" ELSE "text/plain"
<1>1. HasFormat \subseteq {"text/plain", "text/html", "image"}
  BY HasFormatIs, FormatIs
<1>2. /\ DOMAIN Formats = {1, 2, 3} /\ Formats[1] = "text/plain" /\ Formats[2] = "text/html"
      /\ Formats[3] = "image"
  BY DEF Formats
<1> DEFINE L(f) == \A k \in DOMAIN Formats : Formats[k] \in HasFormat =>
                     \E i \in DOMAIN Formats : i >= k /\ Formats[i] = f
           it == IF "image" \in HasFormat THEN "image"
                 ELSE IF "text/html" \in HasFormat THEN "text/html" ELSE "text/plain"
<1>3. it \in HasFormat
  BY <1>1
<1>4. ASSUME NEW f \in HasFormat PROVE L(f) <=> f = it
  BY <1>1, <1>2
<1> HIDE DEF it, L
<1>5. \A f \in HasFormat : L(f) <=> f = it
  BY <1>4
<1>6. LastFormat = CHOOSE f \in HasFormat : L(f)
  BY DEF LastFormat, L
<1>7. LastFormat = it
  BY <1>3, <1>5, <1>6
<1> QED BY <1>7 DEF it

-----------------------------------------------------------------------------
(* What is offered does not change with the steps of the transfers. *)
LEMMA SameWorld ==
  ASSUME UNCHANGED <<setup, offered>>
  PROVE  /\ HasFormat' = HasFormat /\ Best' = Best /\ LastFormat' = LastFormat
         /\ \A s : Readable(s)' = Readable(s)
         /\ \A p : Exhausted(p)' <=> Exhausted(p)
         /\ \A action : Unwanted(action)' <=> Unwanted(action)
<1>0. here' = here /\ backend' = backend /\ options' = options /\ offered' = offered
  BY DEF setup
<1>1. \A s : Readable(s)' = Readable(s)
  BY <1>0 DEF Readable
<1>2. HasFormat' = HasFormat
  BY <1>1 DEF HasFormat
<1>3. Best' = Best
  BY <1>0, <1>2 DEF Best
<1>4. LastFormat' = LastFormat
  BY <1>2 DEF LastFormat
<1>5. \A p : Exhausted(p)' <=> Exhausted(p)
  BY <1>1 DEF Exhausted
<1>6. \A action : Unwanted(action)' <=> Unwanted(action)
  BY <1>0, <1>3 DEF Unwanted
<1> QED BY <1>1, <1>2, <1>3, <1>4, <1>5, <1>6

(* The end of a transfer is judged by what is offered and what is there. *)
Brings ==
  CASE Best = "clipboard" ->
         IF backend = "memory" THEN \A f \in HasFormat : there[f] = offered[f]
         ELSE \A f \in Format : there[f] = IF f = LastFormat THEN offered[f] ELSE 0
    [] Best = "text" -> there["text/plain"] = offered["selection"]
    [] Best = "file" -> there["file"] = offered["path"]
    [] Best = "browser-tab" -> there["browser"] = offered["tab"]
    [] Best = "none" -> FALSE

LEMMA BroughtIs ==
  ASSUME NEW j \in Job
  PROVE  (Brought(j) <=> Brings) /\ (Brought(j)' <=> Brings')
BY DEF Brought, Brings, LastFormat

(* A transfer is refused for want of a sink, or by the backend. *)
LEMMA RefusableIs ==
  ASSUME NEW j \in Job
  PROVE  /\ Refusable(j) <=>
              \/ Unwanted(job[j].action)
              \/ Best = "clipboard" /\ \E f \in HasFormat : ~Handles(backend, f)
         /\ Refusable(j)' <=>
              \/ Unwanted(job[j].action)'
              \/ Best' = "clipboard" /\ \E f \in HasFormat' : ~Handles(backend', f)
BY DEF Refusable, Unwanted

(* A transfer that does not step keeps what is true of it, unless the step
   interferes with it. *)
LEMMA Unaffected ==
  ASSUME NEW i \in Job, Good(i), UNCHANGED setup, job'[i] = job[i],
         \/ mishap'[i]
         \/ mishap'[i] = mishap[i] /\ job[i].stage = "idle"
         \/ mishap'[i] = mishap[i] /\ offered' = offered /\ (there' = there \/ ~Writing(i))
  PROVE  Good(i)'
<1>0. here' = here /\ backend' = backend /\ options' = options
  BY DEF setup
<1>1. Shaped(job[i])'
  BY <1>0 DEF Good, Shaped, Asking, Holds
<1>2. CASE mishap'[i]
  BY <1>1, <1>2 DEF Good
<1>3. CASE mishap'[i] = mishap[i] /\ job[i].stage = "idle"
  BY <1>1, <1>3 DEF Good, Faithful
<1>4. CASE mishap'[i] = mishap[i] /\ offered' = offered /\ (there' = there \/ ~Writing(i))
  <2>0. UNCHANGED <<setup, offered>>
    BY <1>4
  <2>1. SUFFICES ASSUME Faithful(i) PROVE Faithful(i)'
    BY <1>1, <1>4 DEF Good
  <2>2. /\ HasFormat' = HasFormat /\ Best' = Best /\ LastFormat' = LastFormat
        /\ \A s : Readable(s)' = Readable(s)
        /\ \A p : Exhausted(p)' <=> Exhausted(p)
        /\ \A action : Unwanted(action)' <=> Unwanted(action)
    BY <2>0, SameWorld
  <2>3. job[i].stage = "capturing" => Reading(job[i])'
    BY <1>0, <2>1, <2>2 DEF Faithful, Reading
  <2>4. job[i].stage = "sent" => Truthful(job[i])'
    BY <2>1, <2>2 DEF Faithful, Truthful
  <2>5. job[i].stage = "empty" => Best' = "none"
    BY <2>1, <2>2 DEF Faithful
  <2>6. CASE ~Writing(i)
    BY <2>3, <2>4, <2>5, <2>6 DEF Writing, Faithful
  <2>7. CASE there' = there
    <3>1. job[i].stage = "dropping" => Placing(job[i])'
      BY <1>0, <1>4, <2>1, <2>2, <2>7 DEF Faithful, Placing, Truthful, Restoring, Pending
    <3>2. Brought(i)' <=> Brought(i)
      <4>1. Brings' <=> Brings
        BY <1>0, <1>4, <2>2, <2>7 DEF Brings
      <4> QED BY <4>1, BroughtIs
    <3>3. Refusable(i)' <=> Refusable(i)
      BY <1>0, <2>2 DEF Refusable
    <3> QED BY <2>1, <2>3, <2>4, <2>5, <3>1, <3>2, <3>3 DEF Faithful
  <2> QED BY <1>4, <2>6, <2>7
<1> QED BY <1>2, <1>3, <1>4

-----------------------------------------------------------------------------
(* A step of one transfer: the types, and the other transfers. *)
LEMMA TypesKept ==
  ASSUME Types, UNCHANGED <<setup, offered, copies>>,
         there' \in [Place -> 0 .. copies + 1], mishap' \in [Job -> BOOLEAN],
         NEW j \in Job, NEW r \in Jobs, job' = [job EXCEPT ![j] = r],
         \A s \in Source : r.entity.parts[s] <= copies + 1
  PROVE  Types'
<1>0. /\ here' = here /\ backend' = backend /\ handlers' = handlers /\ options' = options
      /\ offered' = offered /\ copies' = copies
  BY DEF setup
<1>1. job' \in [Job -> Jobs]
  BY DEF Types
<1>2. ASSUME NEW i \in Job, NEW s \in Source PROVE job'[i].entity.parts[s] <= copies + 1
  <2>1. CASE i = j
    BY <2>1 DEF Types
  <2>2. CASE i # j
    BY <2>2 DEF Types
  <2> QED BY <2>1, <2>2
<1> QED BY <1>0, <1>1, <1>2 DEF Types

LEMMA OthersKept ==
  ASSUME Inv, UNCHANGED <<setup, offered>>, NEW j \in Job, NEW r, job' = [job EXCEPT ![j] = r],
         there' = there \/ \A i \in Job : i # j /\ Writing(i) => mishap'[i],
         \A i \in Job : i # j => mishap'[i] = mishap[i] \/ mishap'[i],
         Good(j)'
  PROVE  \A i \in Job : Good(i)'
<1> SUFFICES ASSUME NEW i \in Job, i # j PROVE Good(i)'
  OBVIOUS
<1>1. job'[i] = job[i] /\ Good(i)
  BY DEF Inv, Types
<1> QED BY <1>1, Unaffected

(* A transfer that is still at the source after a step of its own. *)
LEMMA AtSource ==
  ASSUME UNCHANGED <<setup, offered>>, NEW j \in Job, NEW r, job'[j] = r, Shaped(r),
         r.stage \in {"capturing", "sent", "empty"},
         ~mishap'[j] => /\ r.stage = "capturing" => Reading(r)
                        /\ r.stage = "sent" => Truthful(r)
                        /\ r.stage = "empty" => Best = "none"
  PROVE  Good(j)'
<1>0. options' = options
  BY DEF setup
<1>1. /\ Best' = Best /\ \A s : Readable(s)' = Readable(s)
      /\ \A p : Exhausted(p)' <=> Exhausted(p)
  BY SameWorld
<1>2. Shaped(job[j])'
  BY <1>0 DEF Shaped, Asking, Holds
<1>3. ASSUME ~mishap'[j] PROVE Faithful(j)'
  <2>1. r.stage = "capturing" => Reading(job[j])'
    BY <1>0, <1>1, <1>3 DEF Reading
  <2>2. r.stage = "sent" => Truthful(job[j])'
    BY <1>1, <1>3 DEF Truthful
  <2>3. r.stage = "empty" => Best' = "none"
    BY <1>1, <1>3
  <2> QED BY <2>1, <2>2, <2>3 DEF Faithful
<1> QED BY <1>2, <1>3 DEF Good

(* The steps at the source. *)
LEMMA GrabStep ==
  ASSUME Inv, NEW j \in Job, NEW action \in TransferAction, Grab(j, action)
  PROVE  Inv'
<1> DEFINE all == Providers(options)
           r == [Ask(all) EXCEPT !.action = action]
<1>0. UNCHANGED <<setup, offered, there, copies, mishap>> /\ job' = [job EXCEPT ![j] = r]
  BY DEF Grab
<1>1. all \in Seq(AllProviders) /\ Ranked(all) /\ all # <<>>
  <2>1. ClipboardProvider \in Range(all) /\ Range(<<>>) = {}
    BY ProvidersAre DEF Range
  <2> QED BY <2>1, ProvidersAre
<1> HIDE DEF r
<1>2. /\ r \in Jobs /\ r.entity.parts = Nothing /\ Shaped(r) /\ r.stage = "capturing"
      /\ r.todo = all /\ Range(r.reads) = SourcesOf(r.entity.type)
  BY <1>1, AskIs DEF r
<1>3. job'[j] = r
  BY <1>0 DEF Inv, Types
<1>4. Types'
  <2>1. \A s \in Source : r.entity.parts[s] <= copies + 1
    BY <1>2 DEF Nothing, Inv, Types
  <2> QED BY <1>0, <1>2, <2>1, TypesKept DEF Inv, Types
<1>5. Good(j)'
  <2>1. Reading(r)
    BY <1>2 DEF Reading
  <2> QED BY <1>0, <1>2, <1>3, <2>1, AtSource
<1> QED BY <1>0, <1>4, <1>5, OthersKept DEF Inv

LEMMA ReadStep ==
  ASSUME Inv, NEW j \in Job, NEW works \in BOOLEAN, Read(j, works)
  PROVE  Inv'
<1> DEFINE o == job[j]
           type == o.entity.type
           slot == Head(o.reads)
           content == IF works /\ Handles(here, slot) THEN offered[slot] ELSE 0
           parts == [o.entity.parts EXCEPT ![slot] = content]
           r == Captured(j, parts)
           left == Tail(o.reads)
           calm == ~mishap'[j]
           Fine == /\ r \in Jobs /\ Shaped(r) /\ r.stage \in {"capturing", "sent", "empty"}
                   /\ \A s \in Source : r.entity.parts[s] <= copies + 1
                   /\ calm => /\ r.stage = "capturing" => Reading(r)
                              /\ r.stage = "sent" => Truthful(r)
                              /\ r.stage = "empty" => Best = "none"
<1>0. /\ UNCHANGED <<setup, offered, there, copies>> /\ job' = [job EXCEPT ![j] = r]
      /\ mishap' = [mishap EXCEPT ![j] = @ \/ ~works] /\ o.stage = "capturing"
  BY DEF Read
<1>1. /\ o \in Jobs /\ Asking(o) /\ Types /\ type \in EntityType
      /\ \A s \in Source : o.entity.parts[s] <= copies + 1
      /\ job'[j] = r
  BY <1>0 DEF Inv, Types, Good, Shaped, Jobs
<1>2. /\ calm => works /\ Reading(o)
      /\ mishap' \in [Job -> BOOLEAN]
      /\ \A i \in Job : i # j => mishap'[i] = mishap[i]
  <2>1. ~mishap[j] => Reading(o)
    BY <1>0 DEF Inv, Good, Faithful
  <2> QED BY <1>0, <1>1, <2>1 DEF Types
<1>3. /\ o.reads \in Seq(Source) /\ o.reads # <<>> /\ o.todo \in Seq(AllProviders)
      /\ o.todo # <<>> /\ o.entity.parts \in [Source -> Nat] /\ o.action \in TransferAction
      /\ Ranked(o.todo) /\ Range(o.todo) \subseteq Range(Providers(options))
      /\ type = Head(o.todo).type /\ Range(o.reads) \subseteq SourcesOf(type) /\ Holds(o)
  BY <1>1 DEF Asking, Jobs
<1>4. /\ slot \in Source /\ slot \in SourcesOf(type) /\ left \in Seq(Source)
      /\ Range(o.reads) = {slot} \cup Range(left)
  BY <1>3, TailIs
<1>5. content \in Nat /\ content <= copies + 1 /\ (works => content = Readable(slot))
  BY <1>1, <1>4, ReadableIs DEF Readable, Types
<1> HIDE DEF content, slot, left
<1>6. /\ parts \in [Source -> Nat] /\ \A s \in Source : parts[s] <= copies + 1
      /\ \A s \in Source \ SourcesOf(type) : parts[s] = 0
      /\ calm => \A s \in SourcesOf(type) \ Range(left) : parts[s] = Readable(s)
  <2>1. parts \in [Source -> Nat]
    BY <1>3, <1>5
  <2>2. \A s \in Source : parts[s] = IF s = slot THEN content ELSE o.entity.parts[s]
    BY <1>3
  <2> HIDE DEF parts
  <2>3. SourcesOf(type) \subseteq Source
    BY <1>1, SourcesOfIs
  <2>4. calm => \A s \in SourcesOf(type) \ Range(left) : parts[s] = Readable(s)
    BY <1>2, <1>4, <1>5, <2>2, <2>3 DEF Reading
  <2> QED BY <1>1, <1>3, <1>4, <1>5, <2>1, <2>2, <2>4 DEF Holds
<1> HIDE DEF parts, r
<1>7. ASSUME left # <<>> PROVE Fine
  <2>1. r = [o EXCEPT !.reads = left, !.entity.parts = parts]
    BY <1>7 DEF r, Captured, left
  <2>2. /\ r.stage = "capturing" /\ r.todo = o.todo /\ r.reads = left
        /\ r.entity = [type |-> type, parts |-> parts]
        /\ r.action = o.action /\ r.writes = o.writes
    BY <1>0, <1>1, <2>1 DEF Jobs
  <2>3. r \in Jobs
    <3>1. r.entity \in [type : EntityType, parts : [Source -> Nat]]
      BY <1>1, <1>6, <2>2
    <3>2. r = [stage |-> r.stage, action |-> r.action, todo |-> r.todo, reads |-> r.reads,
               entity |-> r.entity, writes |-> r.writes]
      BY <1>1, <2>1 DEF Jobs
    <3>3. o.writes \in Seq([place : Place, part : Source]) /\ "capturing" \in Stages
      BY <1>1 DEF Jobs, Stages
    <3> QED BY <1>3, <1>4, <2>2, <3>1, <3>2, <3>3 DEF Jobs
  <2>4. Shaped(r)
    <3>1. r.entity.type = type /\ r.entity.parts = parts
      BY <2>2
    <3>2. Holds(r)
      BY <1>6, <3>1 DEF Holds
    <3>3. Range(left) \subseteq SourcesOf(type)
      BY <1>3, <1>4
    <3>4. Asking(r)
      BY <1>3, <1>7, <2>2, <3>1, <3>2, <3>3 DEF Asking
    <3> QED BY <2>2, <3>4 DEF Shaped
  <2>5. calm => Reading(r)
    BY <1>2, <1>6, <2>2 DEF Reading
  <2> QED BY <1>6, <2>2, <2>3, <2>4, <2>5
<1>8. ASSUME left = <<>> PROVE calm => \A s \in SourcesOf(type) : parts[s] = Readable(s)
  <2>1. Range(left) = {}
    BY <1>8 DEF Range
  <2> QED BY <1>6, <2>1
<1>9. ASSUME left = <<>>, parts # Nothing PROVE Fine
  <2>1. r = [o EXCEPT !.stage = "sent", !.todo = <<>>, !.reads = <<>>, !.entity.parts = parts]
    BY <1>9 DEF r, Captured, left
  <2>2. /\ r.stage = "sent" /\ r.todo = <<>> /\ r.reads = <<>>
        /\ r.entity = [type |-> type, parts |-> parts]
        /\ r.action = o.action /\ r.writes = o.writes
    BY <1>1, <2>1 DEF Jobs
  <2>3. r \in Jobs
    <3>1. <<>> \in Seq(AllProviders) /\ <<>> \in Seq(Source) /\ "sent" \in Stages
      BY DEF Stages
    <3>2. r.entity \in [type : EntityType, parts : [Source -> Nat]]
      BY <1>1, <1>6, <2>2
    <3>3. /\ o.action \in TransferAction /\ o.writes \in Seq([place : Place, part : Source])
          /\ r = [stage |-> r.stage, action |-> r.action, todo |-> r.todo, reads |-> r.reads,
                  entity |-> r.entity, writes |-> r.writes]
      BY <1>1, <2>1 DEF Jobs
    <3> QED BY <2>2, <3>1, <3>2, <3>3 DEF Jobs
  <2>4. Shaped(r)
    BY <1>6, <1>9, <2>2 DEF Shaped, Holds
  <2>5. ASSUME calm PROVE Truthful(r)
    <3>1. \A s \in SourcesOf(type) : parts[s] = Readable(s)
      BY <1>8, <1>9, <2>5
    <3>2. PICK s \in Source : parts[s] # 0
      BY <1>6, <1>9 DEF Nothing
    <3>3. ~Exhausted(Head(o.todo))
      BY <1>3, <1>6, <3>1, <3>2 DEF Exhausted
    <3>4. \A p \in Range(Providers(options)) \ Range(o.todo) : Exhausted(p)
      BY <1>2, <2>5 DEF Reading
    <3>5. Best = type
      BY <1>1, <1>3, <3>3, <3>4, FoundIsBest
    <3> QED BY <2>2, <3>1, <3>5 DEF Truthful
  <2> QED BY <1>6, <2>2, <2>3, <2>4, <2>5
<1>10. ASSUME left = <<>>, parts = Nothing PROVE Fine
  <2> DEFINE rest == Tail(o.todo)
  <2>1. r = [Ask(rest) EXCEPT !.action = o.action]
    BY <1>10 DEF r, Captured, left
  <2>2. /\ rest \in Seq(AllProviders) /\ Ranked(rest)
        /\ Range(o.todo) = Range(rest) \cup {Head(o.todo)}
    BY <1>3, HeadIs
  <2> HIDE DEF rest
  <2>3. Range(rest) \subseteq Range(Providers(options))
    BY <1>3, <2>2
  <2>4. /\ r \in Jobs /\ r.entity.parts = Nothing /\ Shaped(r)
        /\ rest = <<>> => r.stage = "empty"
        /\ rest # <<>> => /\ r.stage = "capturing" /\ r.todo = rest
                          /\ Range(r.reads) = SourcesOf(r.entity.type)
    <3> DEFINE action == o.action
    <3>1. action \in TransferAction /\ r = [Ask(rest) EXCEPT !.action = action]
      BY <1>3, <2>1
    <3> HIDE DEF action
    <3> QED BY <2>2, <2>3, <3>1, AskIs
  <2>5. calm => \A p \in Range(Providers(options)) \ Range(rest) : Exhausted(p)
    <3>1. SUFFICES ASSUME calm, NEW p \in Range(Providers(options)) \ Range(rest)
                   PROVE  Exhausted(p)
      OBVIOUS
    <3>2. CASE p \notin Range(o.todo)
      BY <1>2, <3>1, <3>2 DEF Reading
    <3>3. CASE p = Head(o.todo)
      <4>1. SourcesOf(type) \subseteq Source
        BY <1>1, SourcesOfIs
      <4>2. \A s \in SourcesOf(type) : Readable(s) = 0
        BY <1>8, <1>10, <3>1, <4>1 DEF Nothing
      <4> QED BY <1>3, <3>3, <4>2 DEF Exhausted
    <3> QED BY <2>2, <3>2, <3>3
  <2>6. calm /\ rest # <<>> => Reading(r)
    BY <2>4, <2>5 DEF Reading
  <2>7. calm /\ rest = <<>> => Best = "none"
    <3>1. Range(<<>>) = {}
      BY DEF Range
    <3> QED BY <1>1, <2>5, <3>1, NothingFound
  <2>8. \A s \in Source : r.entity.parts[s] <= copies + 1
    BY <1>1, <2>4 DEF Nothing, Types
  <2> QED BY <2>4, <2>6, <2>7, <2>8
<1>11. Fine
  BY <1>7, <1>9, <1>10
<1>12. Types'
  BY <1>0, <1>1, <1>2, <1>11, TypesKept DEF Types
<1>13. Good(j)'
  BY <1>0, <1>1, <1>11, AtSource
<1> QED BY <1>0, <1>2, <1>12, <1>13, OthersKept DEF Inv

-----------------------------------------------------------------------------
(* The steps at the destination: a stage is entered, a sink told what to write. *)
LEMMA StageIs ==
  ASSUME Types, NEW j \in Job, NEW stage \in Stages, Stage(j, stage)
  PROVE  LET r == [job[j] EXCEPT !.stage = stage, !.writes = <<>>]
         IN /\ job' = [job EXCEPT ![j] = r] /\ job'[j] = r /\ r \in Jobs /\ r.stage = stage
            /\ r.action = job[j].action /\ r.entity = job[j].entity
<1> DEFINE r == [job[j] EXCEPT !.stage = stage, !.writes = <<>>]
<1>1. job[j] \in Jobs /\ job \in [Job -> Jobs]
  BY DEF Types
<1>2. <<>> \in Seq([place : Place, part : Source])
  OBVIOUS
<1>3. r \in Jobs
  BY <1>1, <1>2 DEF Jobs
<1>4. r.stage = stage /\ r.action = job[j].action /\ r.entity = job[j].entity
  BY <1>1 DEF Jobs
<1>5. job' = [job EXCEPT ![j] = r]
  BY <1>1 DEF Stage
<1> HIDE DEF r
<1>6. job'[j] = r
  BY <1>1, <1>5
<1> QED BY <1>3, <1>4, <1>5, <1>6 DEF r

(* What a sink writes of any other content. *)
LEMMA OneWrite ==
  ASSUME NEW sink, NEW entity
  PROVE  /\ entity.type = "text" => Writes(sink, entity) = << Write("text/plain", "selection") >>
         /\ entity.type = "image" => Writes(sink, entity) = << Write("image", "image") >>
         /\ entity.type = "file" => Writes(sink, entity) = << Write("file", "path") >>
         /\ entity.type = "browser-tab" => Writes(sink, entity) = << Write("browser", "tab") >>
BY DEF Writes

(* Whatever was captured, there is something to write. *)
LEMMA WritesFound ==
  ASSUME NEW sink, NEW o \in Jobs, Holds(o), o.entity.parts # Nothing
  PROVE  /\ Writes(sink, o.entity) \in Seq([place : Place, part : Source])
         /\ Writes(sink, o.entity) # <<>>
<1> DEFINE e == o.entity
           S == [place : Place, part : Source]
<1>1. e \in [type : EntityType, parts : [Source -> Nat]]
  BY DEF Jobs
<1>2. PICK s \in Source : e.parts[s] # 0
  BY <1>1 DEF Nothing
<1>3. s \in SourcesOf(e.type)
  BY <1>2 DEF Holds
<1>4. CASE e.type = "clipboard"
  <2>1. Write(s, s) \in Range(Writes(sink, e)) /\ Writes(sink, e) \in Seq(S)
    <3> HIDE DEF e, S
    <3>1. s \in {g \in Format : e.parts[g] # 0}
      BY <1>2, <1>3, <1>4, SourcesOfIs
    <3>2. /\ Writes(sink, e) \in Seq([place : Place, part : Source])
          /\ Range(Writes(sink, e)) = {Write(f, f) : f \in {g \in Format : e.parts[g] # 0}}
      BY <1>1, <1>4, WritesAre
    <3> QED BY <3>1, <3>2 DEF S
  <2>2. Range(<<>>) = {}
    BY DEF Range
  <2> QED BY <2>1, <2>2
<1>5. /\ Write("text/plain", "selection") \in S /\ Write("image", "image") \in S
      /\ Write("file", "path") \in S /\ Write("browser", "tab") \in S
  BY FormatIs DEF Write
<1>6. ASSUME NEW w \in S, Writes(sink, e) = <<w>>
      PROVE  Writes(sink, e) \in Seq(S) /\ Writes(sink, e) # <<>>
  BY <1>6
<1>7. CASE e.type \in {"text", "image", "file", "browser-tab"}
  BY <1>5, <1>6, <1>7, OneWrite
<1>8. e.type \in {"clipboard", "text", "image", "file", "browser-tab"}
  BY <1>1 DEF EntityType
<1> QED BY <1>4, <1>7, <1>8

(* What a sink is told to write of a clipboard is what the clipboard has. *)
LEMMA WritesRestore ==
  ASSUME NEW sink, NEW o \in Jobs, Truthful(o), Best = "clipboard", NEW r,
         r.writes = Writes(sink, o.entity)
  PROVE  Restoring(r)
<1> DEFINE e == o.entity
           q == r.writes
<1>1. e \in [type : EntityType, parts : [Source -> Nat]] /\ e.type = "clipboard"
  BY DEF Jobs, Truthful
<1>2. \A f \in Format : f \in HasFormat <=> e.parts[f] # 0
  BY <1>1, SourcesOfIs, HasFormatIs DEF Truthful
<1>3. /\ q \in Seq([place : Place, part : Source])
      /\ Range(q) = {Write(f, f) : f \in {g \in Format : e.parts[g] # 0}}
      /\ q # <<>> => q[Len(q)].place = IF e.parts["image"] # 0 THEN "image"
           ELSE IF e.parts["text/html"] # 0 THEN "text/html" ELSE "text/plain"
  <2>1. q = Writes(sink, e)
    OBVIOUS
  <2> HIDE DEF e, q
  <2> QED BY <1>1, <2>1, WritesAre
<1>4. Range(q) = {q[k] : k \in 1..Len(q)}
  BY <1>3, RangeIs
<1>5. HasFormat # {} /\ HasFormat = {g \in Format : e.parts[g] # 0}
  BY <1>2, BestIs, HasFormatIs
<1> HIDE DEF q
<1>6. ASSUME NEW k \in 1..Len(q) PROVE q[k].place = q[k].part /\ q[k].part \in HasFormat
  BY <1>3, <1>4, <1>5 DEF Write
<1>7. ASSUME NEW f \in HasFormat PROVE \E k \in 1..Len(q) : q[k].place = f
  <2>1. Write(f, f) \in Range(q) /\ Write(f, f).place = f
    BY <1>3, <1>5 DEF Write
  <2> QED BY <1>4, <2>1
<1>8. q # <<>>
  BY <1>3, <1>5, <1>7
<1>9. q[Len(q)].place = LastFormat
  BY <1>2, <1>3, <1>5, <1>8, LastFormatIs, FormatIs
<1> QED BY <1>6, <1>7, <1>9 DEF Restoring, Pending, q

(* receive() finds a sink for what is wanted, and only for that. *)
LEMMA ReceiveStep ==
  ASSUME Inv, NEW j \in Job, Receive(j)
  PROVE  Inv'
<1> DEFINE o == job[j]
           sinks == Matching(options, o.entity, o.action)
<1>0. /\ UNCHANGED <<setup, offered, there, copies, mishap>> /\ o.stage = "sent"
      /\ Types /\ o \in Jobs /\ \A s \in Source : o.entity.parts[s] <= copies + 1
      /\ Holds(o) /\ o.entity.parts # Nothing /\ (~mishap[j] => Truthful(o))
      /\ o.action \in TransferAction
      /\ there' \in [Place -> 0 .. copies + 1] /\ mishap' \in [Job -> BOOLEAN]
  BY DEF Receive, Inv, Types, Good, Shaped, Faithful, Jobs
<1>1. \/ Stage(j, "handled")
      \/ sinks = {} /\ Stage(j, "refused")
      \/ sinks # {} /\ job' = [job EXCEPT ![j].stage = "dropping",
                                          ![j].writes = Writes(First(options, sinks), o.entity)]
  BY DEF Receive
<1>2. ASSUME ~mishap[j] PROVE /\ o.entity.type = Best /\ Best # "none"
                              /\ sinks = {} => Unwanted(o.action)
                              /\ sinks # {} => ~Unwanted(o.action)
  <2> DEFINE e == o.entity
             action == o.action
  <2>1. e.type = Best /\ Best # "none" /\ action \in TransferAction
    BY <1>0, <1>2 DEF Truthful, Jobs, EntityType
  <2>2. sinks = Matching(options, e, action)
    OBVIOUS
  <2> SUFFICES /\ e.type = Best /\ Best # "none"
               /\ sinks = {} => Unwanted(action)
               /\ sinks # {} => ~Unwanted(action)
    OBVIOUS
  <2> HIDE DEF e, action, sinks
  <2> QED BY <2>1, <2>2, UnwantedIs
<1> HIDE DEF sinks
<1>3. CASE Stage(j, "handled")
  <2> DEFINE r == [o EXCEPT !.stage = "handled", !.writes = <<>>]
  <2>1. /\ job' = [job EXCEPT ![j] = r] /\ job'[j] = r /\ r \in Jobs /\ r.stage = "handled"
        /\ r.entity = o.entity
    BY <1>0, <1>3, StageIs, "handled" \in Stages DEF Stages
  <2> HIDE DEF r
  <2>2. Types'
    BY <1>0, <2>1, TypesKept
  <2>3. Good(j)'
    BY <2>1 DEF Good, Shaped, Faithful
  <2> QED BY <1>0, <2>1, <2>2, <2>3, OthersKept DEF Inv
<1>4. CASE sinks = {} /\ Stage(j, "refused")
  <2> DEFINE r == [o EXCEPT !.stage = "refused", !.writes = <<>>]
  <2>1. /\ job' = [job EXCEPT ![j] = r] /\ job'[j] = r /\ r \in Jobs /\ r.stage = "refused"
        /\ r.action = o.action /\ r.entity = o.entity
    BY <1>0, <1>4, StageIs, "refused" \in Stages DEF Stages
  <2> HIDE DEF r
  <2>2. Types'
    BY <1>0, <2>1, TypesKept
  <2>3. ASSUME ~mishap[j] PROVE Refusable(j)'
    <3>1. Unwanted(job[j].action)'
      <4>1. Unwanted(r.action)
        BY <1>2, <1>4, <2>1, <2>3
      <4>2. Best' = Best /\ options' = options
        BY <1>0, SameWorld DEF setup
      <4> QED BY <2>1, <4>1, <4>2 DEF Unwanted
    <3> QED BY <3>1, RefusableIs
  <2>4. Good(j)'
    BY <1>0, <2>1, <2>3 DEF Good, Shaped, Faithful
  <2> QED BY <1>0, <2>1, <2>2, <2>4, OthersKept DEF Inv
<1>5. CASE sinks # {} /\ job' = [job EXCEPT ![j].stage = "dropping",
                                    ![j].writes = Writes(First(options, sinks), o.entity)]
  <2> DEFINE sink == First(options, sinks)
             w == Writes(sink, o.entity)
             r == [o EXCEPT !.stage = "dropping", !.writes = w]
  <2>1. w \in Seq([place : Place, part : Source]) /\ w # <<>>
    BY <1>0, WritesFound
  <2>2. job' = [job EXCEPT ![j] = r]
    BY <1>5
  <2>3. /\ job'[j] = r /\ r \in Jobs /\ r.stage = "dropping" /\ r.writes = w
        /\ r.action = o.action /\ r.entity = o.entity
    <3> HIDE DEF w
    <3>1. r \in Jobs
      BY <1>0, <2>1, "dropping" \in Stages DEF Jobs, Stages
    <3>2. r.stage = "dropping" /\ r.writes = w /\ r.action = o.action /\ r.entity = o.entity
      BY <1>0 DEF Jobs
    <3> HIDE DEF r
    <3>3. job'[j] = r
      BY <1>0, <2>2 DEF Types
    <3> QED BY <3>1, <3>2, <3>3
  <2> HIDE DEF r, w
  <2>4. Types'
    BY <1>0, <2>2, <2>3, TypesKept
  <2>5. ASSUME ~mishap[j] PROVE Placing(r)
    <3>1. Truthful(r)
      BY <1>0, <2>3, <2>5 DEF Truthful
    <3>2. ~Unwanted(r.action)
      BY <1>2, <1>5, <2>3, <2>5
    <3>3. Best = "clipboard" => Restoring(r)
      BY <1>0, <2>3, <2>5, WritesRestore DEF w
    <3>4. /\ Best = "text" => r.writes = << Write("text/plain", "selection") >>
          /\ Best = "file" => r.writes = << Write("file", "path") >>
          /\ Best = "browser-tab" => r.writes = << Write("browser", "tab") >>
      BY <1>2, <2>3, <2>5, OneWrite DEF w
    <3> QED BY <3>1, <3>2, <3>3, <3>4 DEF Placing
  <2>6. ASSUME ~mishap[j] PROVE Placing(job[j])'
    <3>1. /\ HasFormat' = HasFormat /\ Best' = Best /\ LastFormat' = LastFormat
          /\ \A s : Readable(s)' = Readable(s)
          /\ \A action : Unwanted(action)' <=> Unwanted(action)
      BY <1>0, SameWorld
    <3>2. backend' = backend /\ there' = there /\ offered' = offered
      BY <1>0 DEF setup
    <3> QED BY <2>3, <2>5, <2>6, <3>1, <3>2 DEF Placing, Truthful, Restoring, Pending
  <2>7. Good(j)'
    BY <1>0, <2>1, <2>3, <2>6 DEF Good, Shaped, Faithful
  <2> QED BY <1>0, <2>2, <2>4, <2>7, OthersKept DEF Inv
<1> QED BY <1>1, <1>3, <1>4, <1>5

-----------------------------------------------------------------------------
(* Backends that keep formats side by side do, tools replace the selection. *)
LEMMA PutIs ==
  ASSUME Types, NEW place \in Place, NEW content \in 0 .. copies + 1
  PROVE  LET after == Put(backend, there, place, content)
         IN /\ after \in [Place -> 0 .. copies + 1] /\ after[place] = content
            /\ backend = "memory" => \A p \in Place : p # place => after[p] = there[p]
            /\ backend # "memory" /\ place \in Format =>
                 \A p \in Format : p # place => after[p] = 0
<1>1. /\ there \in [Place -> 0 .. copies + 1] /\ copies \in Nat /\ 0 \in 0 .. copies + 1
  BY DEF Types
<1>2. Format \subseteq Place
  BY FormatIs
<1>3. CASE place \in Format /\ backend # "memory"
  <2>1. Put(backend, there, place, content) =
          [p \in Place |-> IF p = place THEN content ELSE IF p \in Format THEN 0 ELSE there[p]]
    BY <1>3 DEF Put
  <2> QED BY <1>1, <1>2, <1>3, <2>1
<1>4. CASE ~(place \in Format /\ backend # "memory")
  <2>1. Put(backend, there, place, content) = [there EXCEPT ![place] = content]
    BY <1>4 DEF Put
  <2> QED BY <1>1, <1>4, <2>1
<1> QED BY <1>3, <1>4

(* What has been restored after one more write, of a clipboard. *)
LEMMA Restored ==
  ASSUME Types, NEW o \in Jobs, o.writes # <<>>, Placing(o), Best = "clipboard",
         NEW write, write = Head(o.writes), Handles(backend, write.place),
         there' = Put(backend, there, write.place, o.entity.parts[write.part]),
         UNCHANGED <<setup, offered>>
  PROVE  /\ Tail(o.writes) = <<>> => Brings' /\ \A f \in HasFormat : Handles(backend, f)
         /\ Tail(o.writes) # <<>> => \A r : r.writes = Tail(o.writes) => Restoring(r)'
<1> DEFINE q == o.writes
           left == Tail(q)
           place == write.place
           content == o.entity.parts[write.part]
<1>0. /\ Truthful(o) /\ Restoring(o) /\ o.entity.type = "clipboard"
      /\ q \in Seq([place : Place, part : Source])
      /\ \A s \in Format : o.entity.parts[s] = Readable(s)
  BY SourcesOfIs DEF Placing, Truthful, Jobs
<1>1. /\ HasFormat' = HasFormat /\ Best' = Best /\ LastFormat' = LastFormat
      /\ backend' = backend /\ offered' = offered
  BY SameWorld DEF setup
<1>2. /\ \A k \in 1..Len(q) : q[k].place = q[k].part /\ q[k].part \in HasFormat
      /\ q[Len(q)].place = LastFormat
      /\ \A f \in HasFormat \ {q[k].place : k \in 1..Len(q)} :
           Handles(backend, f) /\ (backend = "memory" => there[f] = offered[f])
  BY <1>0 DEF Restoring, Pending
<1>3. /\ Len(q) \in Nat /\ Len(q) >= 1 /\ write = q[1]
      /\ left \in Seq([place : Place, part : Source]) /\ Len(left) = Len(q) - 1
      /\ \A k \in 1..(Len(q) - 1) : left[k] = q[k + 1]
  BY <1>0
<1>4. place \in HasFormat /\ place \in Format /\ place \in Place /\ place \in Source
      /\ write.part = place /\ Format \subseteq Place
  <2>1. 1 \in 1..Len(q)
    BY <1>3
  <2> QED BY <1>2, <1>3, <2>1, HasFormatIs, FormatIs
<1>5. content = offered[place] /\ content \in 0 .. copies + 1
  <2>1. content = Readable(place) /\ Readable(place) # 0
    BY <1>0, <1>4, HasFormatIs
  <2>2. copies \in Nat
    BY DEF Types
  <2>3. /\ Readable(place) \in Nat /\ Readable(place) <= copies + 1
        /\ Readable(place) # 0 => Readable(place) = offered[place]
    <3> HIDE DEF place
    <3> QED BY <1>4, ReadableIs
  <2> QED BY <2>1, <2>2, <2>3
<1> HIDE DEF q, left, place, content
<1>6. /\ there'[place] = offered[place]
      /\ backend = "memory" => \A p \in Place : p # place => there'[p] = there[p]
      /\ backend # "memory" => \A p \in Format : p # place => there'[p] = 0
  <2>1. there' = Put(backend, there, place, content)
    BY DEF place, content
  <2> DEFINE after == Put(backend, there, place, content)
  <2>2. /\ after[place] = content
        /\ backend = "memory" => \A p \in Place : p # place => after[p] = there[p]
        /\ backend # "memory" /\ place \in Format =>
             \A p \in Format : p # place => after[p] = 0
    BY <1>4, <1>5, PutIs
  <2>3. there' = after
    BY <2>1
  <2> HIDE DEF after
  <2> QED BY <1>4, <1>5, <2>2, <2>3
<1>7. Handles(backend, place)
  BY DEF place
<1>8. ASSUME left = <<>> PROVE Brings' /\ \A f \in HasFormat : Handles(backend, f)
  <2>1. Len(q) = 1 /\ place = LastFormat
    <3>1. Len(left) = 0
      BY <1>8
    <3>2. Len(q) = 1
      <4>1. Len(q) \in Nat /\ Len(left) = Len(q) - 1
        BY <1>3
      <4> QED BY <3>1, <4>1
    <3>3. q[1].place = LastFormat
      BY <1>2, <3>2
    <3> QED BY <1>3, <3>2, <3>3 DEF place
  <2>2. \A f \in HasFormat : f # place => f \notin {q[k].place : k \in 1..Len(q)}
    BY <1>3, <2>1 DEF place
  <2>3. \A f \in HasFormat : f # place =>
          Handles(backend, f) /\ (backend = "memory" => there'[f] = offered[f])
    BY <1>2, <1>4, <1>6, <2>2, HasFormatIs
  <2>4. Brings'
    <3>1. CASE backend = "memory"
      <4>1. \A f \in HasFormat : there'[f] = offered[f]
        BY <1>6, <2>3, <3>1
      <4> QED BY <1>1, <3>1, <4>1 DEF Brings
    <3>2. CASE backend # "memory"
      <4>1. \A f \in Format : there'[f] = IF f = LastFormat THEN offered[f] ELSE 0
        BY <1>6, <2>1, <3>2
      <4> QED BY <1>1, <3>2, <4>1 DEF Brings
    <3> QED BY <3>1, <3>2
  <2> QED BY <1>7, <2>3, <2>4
<1>9. ASSUME left # <<>>, NEW r, r.writes = left PROVE Restoring(r)'
  <2>1. Len(left) \in Nat /\ Len(left) >= 1 /\ Len(q) = Len(left) + 1
    BY <1>3, <1>9
  <2>2. ASSUME NEW k \in 1..Len(left) PROVE k + 1 \in 1..Len(q) /\ left[k] = q[k + 1]
    BY <1>3, <2>1
  <2>3. \A k \in 1..Len(left) : left[k].place = left[k].part /\ left[k].part \in HasFormat
    BY <1>2, <2>2
  <2>4. left[Len(left)].place = LastFormat
    BY <1>2, <2>1, <2>2
  <2>5. ASSUME NEW f \in HasFormat \ {left[k].place : k \in 1..Len(left)}
        PROVE  Handles(backend, f) /\ (backend = "memory" => there'[f] = offered[f])
    <3>1. CASE f = place
      BY <1>6, <1>7, <3>1
    <3>2. CASE f # place
      <4>1. ASSUME NEW k \in 1..Len(q) PROVE q[k].place # f
        <5>1. CASE k = 1
          BY <1>3, <3>2, <5>1 DEF place
        <5>2. CASE k # 1
          <6>1. k - 1 \in 1..Len(left) /\ (k - 1) + 1 = k
            BY <2>1, <5>2
          <6>2. left[k - 1] = q[k]
            BY <2>2, <6>1
          <6> QED BY <2>5, <6>1, <6>2
        <5> QED BY <5>1, <5>2
      <4>2. f \in Place
        BY <1>4, HasFormatIs
      <4> QED BY <1>2, <1>6, <3>2, <4>1, <4>2
    <3> QED BY <3>1, <3>2
  <2> QED BY <1>1, <1>9, <2>3, <2>4, <2>5 DEF Restoring, Pending
<1> QED BY <1>8, <1>9 DEF left, q

(* The only write of any other content. *)
LEMMA Placed ==
  ASSUME Types, NEW o \in Jobs, Placing(o), Best # "clipboard",
         NEW write, write = Head(o.writes),
         there' = Put(backend, there, write.place, o.entity.parts[write.part]),
         UNCHANGED <<setup, offered>>
  PROVE  Tail(o.writes) = <<>> /\ Handles(backend, write.place) /\ Brings'
<1>0. /\ Best' = Best /\ backend' = backend /\ offered' = offered
      /\ Truthful(o) /\ copies \in Nat
  BY SameWorld DEF setup, Placing, Types
<1>1. Best \in {"text", "file", "browser-tab"}
  BY <1>0, BestIs DEF Truthful, Jobs, EntityType
<1>2. ASSUME NEW place \in Place, NEW s \in Source \ Format, o.writes = << Write(place, s) >>,
             s \in SourcesOf(o.entity.type), place \notin Format \/ place = "text/plain"
      PROVE  /\ Tail(o.writes) = <<>> /\ Handles(backend, write.place)
             /\ there'[place] = offered[s]
  <2>1. write.place = place /\ write.part = s /\ Tail(o.writes) = <<>>
    BY <1>2 DEF Write
  <2>2. o.entity.parts[s] = offered[s] /\ offered[s] \in 0 .. copies + 1
    BY <1>0, <1>2, ReadableIs DEF Truthful, Types
  <2>3. there'[place] = offered[s]
    BY <2>1, <2>2, PutIs
  <2> QED BY <1>2, <2>1, <2>3 DEF Handles
<1>3. CASE Best = "text"
  <2>1. o.writes = << Write("text/plain", "selection") >> /\ o.entity.type = "text"
    BY <1>0, <1>3 DEF Placing, Truthful
  <2>2. /\ "text/plain" \in Place /\ "selection" \in Source \ Format
        /\ "selection" \in SourcesOf(o.entity.type)
    BY <2>1, FormatIs, SourcesOfIs
  <2> QED BY <1>0, <1>2, <1>3, <2>1, <2>2 DEF Brings
<1>4. CASE Best = "file"
  <2>1. o.writes = << Write("file", "path") >> /\ o.entity.type = "file"
    BY <1>0, <1>4 DEF Placing, Truthful
  <2>2. /\ "file" \in Place /\ "file" \notin Format /\ "path" \in Source \ Format
        /\ "path" \in SourcesOf(o.entity.type)
    BY <2>1, FormatIs, SourcesOfIs
  <2> QED BY <1>0, <1>2, <1>4, <2>1, <2>2 DEF Brings
<1>5. CASE Best = "browser-tab"
  <2>1. o.writes = << Write("browser", "tab") >> /\ o.entity.type = "browser-tab"
    BY <1>0, <1>5 DEF Placing, Truthful
  <2>2. /\ "browser" \in Place /\ "browser" \notin Format /\ "tab" \in Source \ Format
        /\ "tab" \in SourcesOf(o.entity.type)
    BY <2>1, FormatIs, SourcesOfIs
  <2> QED BY <1>0, <1>2, <1>5, <2>1, <2>2 DEF Brings
<1> QED BY <1>1, <1>3, <1>4, <1>5

(* The last write ends the transfer, as it should; any other brings it nearer. *)
LEMMA DropStep ==
  ASSUME Inv, NEW j \in Job, Drop(j)
  PROVE  Inv'
<1> DEFINE o == job[j]
           write == Head(o.writes)
           left == Tail(o.writes)
<1>0. /\ UNCHANGED <<setup, offered, copies>> /\ o.stage = "dropping"
      /\ Handles(backend, write.place)
      /\ there' = Put(backend, there, write.place, o.entity.parts[write.part])
      /\ mishap' = [i \in Job |-> mishap[i] \/ (i # j /\ Writing(i))]
      /\ left = <<>> => Stage(j, "accepted")
      /\ left # <<>> => job' = [job EXCEPT ![j].writes = left]
  BY DEF Drop
<1>1. /\ Types /\ o \in Jobs /\ o.writes # <<>> /\ (~mishap[j] => Placing(o))
      /\ o.writes \in Seq([place : Place, part : Source])
      /\ \A s \in Source : o.entity.parts[s] \in Nat /\ o.entity.parts[s] <= copies + 1
      /\ copies \in Nat
  <2>1. Types /\ Good(j)
    BY DEF Inv
  <2>2. o.writes # <<>> /\ (~mishap[j] => Placing(o))
    BY <1>0, <2>1 DEF Good, Shaped, Faithful
  <2>3. /\ o \in Jobs /\ copies \in Nat
        /\ \A s \in Source : o.entity.parts[s] <= copies + 1
    BY <2>1 DEF Types
  <2>4. /\ o.writes \in Seq([place : Place, part : Source])
        /\ \A s \in Source : o.entity.parts[s] \in Nat
    BY <2>3 DEF Jobs
  <2> QED BY <2>1, <2>2, <2>3, <2>4
<1>2. /\ mishap' \in [Job -> BOOLEAN] /\ mishap'[j] = mishap[j]
      /\ \A i \in Job : i # j => mishap'[i] = mishap[i] \/ mishap'[i]
      /\ \A i \in Job : i # j /\ Writing(i) => mishap'[i]
  BY <1>0, <1>1 DEF Types
<1>3. write.place \in Place /\ write.part \in Source
      /\ left \in Seq([place : Place, part : Source])
  <2> DEFINE S == [place : Place, part : Source]
  <2>1. Head(o.writes) \in S /\ Tail(o.writes) \in Seq(S)
    <3> HIDE DEF S
    <3>1. o.writes \in Seq(S) /\ o.writes # <<>>
      BY <1>1 DEF S
    <3> QED BY <3>1
  <2> QED BY <2>1
<1>4. there' \in [Place -> 0 .. copies + 1]
  <2> DEFINE place == write.place
             content == o.entity.parts[write.part]
  <2>1. Types /\ place \in Place /\ content \in 0 .. copies + 1
    BY <1>1, <1>3
  <2>2. there' = Put(backend, there, place, content)
    BY <1>0
  <2> HIDE DEF place, content
  <2>3. Put(backend, there, place, content) \in [Place -> 0 .. copies + 1]
    BY <2>1, PutIs
  <2> QED BY <2>2, <2>3
<1>5. /\ HasFormat' = HasFormat /\ Best' = Best /\ backend' = backend /\ options' = options
      /\ \A s : Readable(s)' = Readable(s)
      /\ \A action : Unwanted(action)' <=> Unwanted(action)
  BY <1>0, SameWorld DEF setup
<1>6. CASE left = <<>>
  <2> DEFINE r == [o EXCEPT !.stage = "accepted", !.writes = <<>>]
  <2>1. /\ job' = [job EXCEPT ![j] = r] /\ job'[j] = r /\ r \in Jobs /\ r.stage = "accepted"
        /\ r.action = o.action /\ r.entity = o.entity
    BY <1>0, <1>1, <1>6, StageIs, "accepted" \in Stages DEF Stages
  <2> HIDE DEF r
  <2>2. Types'
    BY <1>0, <1>1, <1>2, <1>4, <2>1, TypesKept
  <2>3. ASSUME ~mishap[j] PROVE Brought(j)' /\ ~Refusable(j)'
    <3>1. Placing(o) /\ ~Unwanted(o.action)
      BY <1>1, <2>3 DEF Placing
    <3>2. ~Unwanted(job[j].action)'
      <4>1. job'[j].action = o.action
        BY <2>1
      <4> QED BY <1>5, <3>1, <4>1 DEF Unwanted
    <3>3. CASE Best = "clipboard"
      <4>1. Brings' /\ \A f \in HasFormat : Handles(backend, f)
        BY <1>0, <1>1, <1>6, <3>1, <3>3, Restored
      <4> QED BY <1>5, <3>2, <4>1, BroughtIs, RefusableIs
    <3>4. CASE Best # "clipboard"
      <4>1. Brings'
        BY <1>0, <1>1, <3>1, <3>4, Placed
      <4> QED BY <1>5, <3>2, <3>4, <4>1, BroughtIs, RefusableIs
    <3> QED BY <3>3, <3>4
  <2>4. Good(j)'
    BY <1>2, <2>1, <2>3 DEF Good, Shaped, Faithful
  <2> QED BY <1>0, <1>2, <2>1, <2>2, <2>4, OthersKept DEF Inv
<1>7. CASE left # <<>>
  <2> DEFINE r == [o EXCEPT !.writes = left]
  <2>1. /\ r \in Jobs /\ r.stage = "dropping" /\ r.writes = left
        /\ r.action = o.action /\ r.entity = o.entity
    <3> HIDE DEF left
    <3> QED BY <1>0, <1>1, <1>3 DEF Jobs
  <2>2. job' = [job EXCEPT ![j] = r]
    BY <1>0, <1>7
  <2> HIDE DEF r
  <2>3. job'[j] = r
    BY <1>1, <2>2 DEF Types
  <2>4. Types'
    BY <1>0, <1>1, <1>2, <1>4, <2>1, <2>2, TypesKept
  <2>5. ASSUME ~mishap[j] PROVE Placing(job[j])'
    <3>1. Placing(o)
      BY <1>1, <2>5
    <3>2. Best = "clipboard"
      BY <1>0, <1>1, <1>7, <3>1, Placed
    <3>3. Restoring(job[j])'
      <4>1. \A x : x.writes = left => Restoring(x)'
        BY <1>0, <1>1, <1>7, <3>1, <3>2, Restored
      <4>2. job'[j].writes = left
        BY <2>1, <2>3
      <4> QED BY <4>1, <4>2
    <3>4. Truthful(job[j])' /\ ~Unwanted(job[j].action)'
      <4>1. job'[j].action = o.action /\ job'[j].entity = o.entity
        BY <2>1, <2>3
      <4> QED BY <1>5, <3>1, <4>1 DEF Placing, Truthful, Unwanted
    <3> QED BY <1>5, <3>2, <3>3, <3>4 DEF Placing
  <2>6. Good(j)'
    BY <1>2, <1>7, <2>1, <2>3, <2>5 DEF Good, Shaped, Faithful
  <2> QED BY <1>0, <1>2, <2>2, <2>4, <2>6, OthersKept DEF Inv
<1> QED BY <1>6, <1>7

(* A write that throws though no tool failed is one the backend cannot do. *)
LEMMA DropThrowsStep ==
  ASSUME Inv, NEW j \in Job, DropThrows(j)
  PROVE  Inv'
<1> DEFINE o == job[j]
           place == Head(o.writes).place
           r == [o EXCEPT !.stage = "refused", !.writes = <<>>]
<1>0. /\ UNCHANGED <<setup, offered, there, copies>> /\ o.stage = "dropping"
      /\ Stage(j, "refused") /\ mishap' = [mishap EXCEPT ![j] = @ \/ Handles(backend, place)]
  BY DEF DropThrows
<1>1. /\ Types /\ o \in Jobs /\ o.writes # <<>> /\ (~mishap[j] => Placing(o))
      /\ o.writes \in Seq([place : Place, part : Source])
      /\ \A s \in Source : o.entity.parts[s] <= copies + 1
      /\ there' \in [Place -> 0 .. copies + 1]
  BY <1>0 DEF Inv, Types, Good, Shaped, Faithful, Jobs
<1>2. /\ mishap' \in [Job -> BOOLEAN] /\ (~mishap'[j] => ~mishap[j] /\ ~Handles(backend, place))
      /\ \A i \in Job : i # j => mishap'[i] = mishap[i]
  <2> HIDE DEF place
  <2> QED BY <1>0, <1>1 DEF Types
<1>3. /\ job' = [job EXCEPT ![j] = r] /\ job'[j] = r /\ r \in Jobs /\ r.stage = "refused"
      /\ r.entity = o.entity
  BY <1>0, <1>1, StageIs, "refused" \in Stages DEF Stages
<1> HIDE DEF r
<1>4. Types'
  BY <1>0, <1>1, <1>2, <1>3, TypesKept
<1>5. ASSUME ~mishap'[j] PROVE Refusable(j)'
  <2>1. Placing(o) /\ ~Handles(backend, place)
    BY <1>1, <1>2, <1>5
  <2>2. HasFormat' = HasFormat /\ Best' = Best /\ backend' = backend
    BY <1>0, SameWorld DEF setup
  <2>3. CASE Best = "clipboard"
    <3>1. /\ o.writes[1].place = o.writes[1].part /\ o.writes[1].part \in HasFormat
          /\ Head(o.writes) = o.writes[1]
      <4>1. 1 \in 1..Len(o.writes) /\ Head(o.writes) = o.writes[1]
        BY <1>1
      <4>2. \A k \in 1..Len(o.writes) :
              o.writes[k].place = o.writes[k].part /\ o.writes[k].part \in HasFormat
        BY <2>1, <2>3 DEF Placing, Restoring
      <4> QED BY <4>1, <4>2
    <3>2. place \in HasFormat
      BY <3>1
    <3> HIDE DEF place
    <3> QED BY <2>1, <2>2, <2>3, <3>2, RefusableIs
  <2>4. CASE Best # "clipboard"
    <3>1. o.entity.type = Best /\ Best \in {"text", "file", "browser-tab"}
      BY <1>1, <2>1, <2>4, BestIs DEF Placing, Truthful, Jobs, EntityType
    <3>2. place \in {"text/plain", "file", "browser"}
      BY <2>1, <3>1 DEF Placing, Write
    <3>3. place \in Format => place = "text/plain"
      BY <3>2, FormatIs
    <3> HIDE DEF place
    <3> QED BY <2>1, <3>3 DEF Handles
  <2> QED BY <2>3, <2>4
<1>6. Good(j)'
  BY <1>3, <1>5 DEF Good, Shaped, Faithful
<1> QED BY <1>0, <1>2, <1>3, <1>4, <1>6, OthersKept DEF Inv

-----------------------------------------------------------------------------
(* An act of a user at the source, which every transfer under way notices. *)
LEMMA OfferStep ==
  ASSUME Inv, UNCHANGED <<setup, there, job>>, copies' = copies + 1,
         offered' \in [Source -> 0 .. copies' + 1],
         mishap' = [j \in Job |-> mishap[j] \/ job[j].stage # "idle"]
  PROVE  Inv'
<1>0. /\ here' = here /\ backend' = backend /\ options' = options /\ handlers' = handlers
      /\ there' = there /\ job' = job /\ Types
  BY DEF setup, Inv
<1>1. copies \in Nat /\ copies' \in Nat
  BY <1>0 DEF Types
<1>2. Types'
  <2>1. there' \in [Place -> 0 .. copies' + 1]
    BY <1>0, <1>1 DEF Types
  <2>2. mishap' \in [Job -> BOOLEAN]
    BY <1>0 DEF Types
  <2>3. ASSUME NEW j \in Job, NEW s \in Source PROVE job'[j].entity.parts[s] <= copies' + 1
    <3>1. job[j].entity.parts[s] \in Nat /\ job[j].entity.parts[s] <= copies + 1
      BY <1>0 DEF Types, Jobs
    <3> QED BY <1>0, <1>1, <3>1
  <2> QED BY <1>0, <1>1, <2>1, <2>2, <2>3 DEF Types
<1>3. ASSUME NEW i \in Job PROVE Good(i)'
  <2>1. mishap[i] \in BOOLEAN /\ mishap'[i] = (mishap[i] \/ job[i].stage # "idle")
    BY <1>0 DEF Types
  <2>2. mishap'[i] \/ (mishap'[i] = mishap[i] /\ job[i].stage = "idle")
    BY <2>1
  <2> QED BY <1>0, <2>2, Unaffected DEF Inv
<1> QED BY <1>2, <1>3 DEF Inv

(* And the acts of the users, here and there. *)
LEMMA UserSteps ==
  ASSUME Inv
  PROVE  /\ \A formats \in Clips : Copies(formats) \/ CopiesThere(formats) => Inv'
         /\ \A source \in Source \ Format : Selects(source) => Inv'
<1>0. /\ Types /\ copies \in Nat /\ offered \in [Source -> 0 .. copies + 1]
      /\ there \in [Place -> 0 .. copies + 1]
  BY DEF Inv, Types
<1>1. ASSUME NEW formats \in Clips, Copies(formats) PROVE Inv'
  <2>1. copies' = copies + 1
        /\ offered' = [s \in Source |-> IF s \in formats THEN copies' + 1
                                        ELSE IF s \in Format THEN 0 ELSE offered[s]]
    BY <1>1 DEF Copies
  <2>2. offered' \in [Source -> 0 .. copies' + 1]
    BY <1>0, <2>1
  <2> QED BY <1>1, <2>1, <2>2, OfferStep DEF Copies
<1>2. ASSUME NEW source \in Source \ Format, Selects(source) PROVE Inv'
  <2>1. copies' = copies + 1 /\ offered' = [offered EXCEPT ![source] = copies' + 1]
    BY <1>2 DEF Selects
  <2>2. offered' \in [Source -> 0 .. copies' + 1]
    BY <1>0, <2>1
  <2> QED BY <1>2, <2>1, <2>2, OfferStep DEF Selects
<1>3. ASSUME NEW formats \in Clips, CopiesThere(formats) PROVE Inv'
  <2>0. /\ UNCHANGED <<setup, offered, job>> /\ copies' = copies + 1
        /\ there' = [p \in Place |-> IF p \in formats THEN copies' + 1
                                     ELSE IF p \in Format THEN 0 ELSE there[p]]
        /\ mishap' = [j \in Job |-> mishap[j] \/ Writing(j)]
    BY <1>3 DEF CopiesThere
  <2>1. /\ here' = here /\ backend' = backend /\ options' = options /\ handlers' = handlers
        /\ offered' = offered /\ job' = job
    BY <2>0 DEF setup
  <2>2. Types'
    <3>1. there' \in [Place -> 0 .. copies' + 1] /\ offered' \in [Source -> 0 .. copies' + 1]
          /\ copies' \in Nat
      BY <1>0, <2>0
    <3>2. mishap' \in [Job -> BOOLEAN]
      BY <1>0, <2>0 DEF Types, Writing
    <3>3. ASSUME NEW j \in Job, NEW s \in Source PROVE job'[j].entity.parts[s] <= copies' + 1
      <4>1. job[j].entity.parts[s] \in Nat /\ job[j].entity.parts[s] <= copies + 1
        BY <1>0 DEF Types, Jobs
      <4> QED BY <1>0, <2>0, <4>1
    <3> QED BY <1>0, <2>1, <3>1, <3>2, <3>3 DEF Types
  <2>3. ASSUME NEW i \in Job PROVE Good(i)'
    <3>1. mishap[i] \in BOOLEAN /\ mishap'[i] = (mishap[i] \/ Writing(i))
      BY <1>0, <2>0 DEF Types
    <3>2. mishap'[i] \/ (mishap'[i] = mishap[i] /\ ~Writing(i))
      BY <3>1
    <3> QED BY <2>0, <2>1, <3>2, Unaffected DEF Inv
  <2> QED BY <2>2, <2>3 DEF Inv
<1> QED BY <1>1, <1>2, <1>3

(* The invariant is inductive. *)
LEMMA InvInit ==
  ASSUME Init
  PROVE  Inv
<1>1. Idle \in Jobs /\ Idle.stage = "idle" /\ \A s \in Source : Idle.entity.parts[s] = 0
  <2>1. /\ <<>> \in Seq(AllProviders) /\ <<>> \in Seq(Source)
        /\ <<>> \in Seq([place : Place, part : Source])
    OBVIOUS
  <2> QED BY <2>1 DEF Idle, Jobs, Nothing, Stages, TransferAction, EntityType
<1>2. here \in Backend /\ backend \in Backend
  BY DEF Init, Detect, Backend
<1>3. handlers \subseteq TransferAction
  BY DEF Init, TransferAction
<1>4. /\ copies = 0 /\ job = [j \in Job |-> Idle] /\ mishap = [j \in Job |-> FALSE]
      /\ there = [p \in Place |-> 0] /\ offered \in [Source -> 0 .. 1]
  BY DEF Init
<1> HIDE DEF Idle
<1>5. Types
  <2>1. copies + 1 = 1
    BY <1>4
  <2> QED BY <1>1, <1>2, <1>3, <1>4, <2>1 DEF Types
<1>6. \A j \in Job : Good(j)
  BY <1>1, <1>4 DEF Good, Shaped, Faithful
<1> QED BY <1>5, <1>6 DEF Inv

LEMMA InvStep ==
  ASSUME Inv, [Next]_vars
  PROVE  Inv'
<1>1. CASE UNCHANGED vars
  <2>1. /\ UNCHANGED setup /\ job' = job /\ mishap' = mishap /\ offered' = offered
        /\ there' = there /\ copies' = copies
    BY <1>1 DEF vars, setup
  <2>2. Types'
    BY <2>1 DEF Inv, Types, setup
  <2>3. \A i \in Job : Good(i)'
    BY <2>1, Unaffected DEF Inv
  <2> QED BY <2>2, <2>3 DEF Inv
<1>2. ASSUME NEW j \in Job, NEW action \in TransferAction, Grab(j, action) PROVE Inv'
  BY <1>2, GrabStep
<1>3. ASSUME NEW j \in Job, NEW works \in BOOLEAN, Read(j, works) PROVE Inv'
  BY <1>3, ReadStep
<1>4. ASSUME NEW j \in Job, Receive(j) \/ Drop(j) \/ DropThrows(j) PROVE Inv'
  BY <1>4, ReceiveStep, DropStep, DropThrowsStep
<1>5. ASSUME NEW formats \in Clips, Copies(formats) \/ CopiesThere(formats) PROVE Inv'
  BY <1>5, UserSteps
<1>6. ASSUME NEW source \in Source \ Format, Selects(source) PROVE Inv'
  BY <1>6, UserSteps
<1> QED BY <1>1, <1>2, <1>3, <1>4, <1>5, <1>6 DEF Next

-----------------------------------------------------------------------------
(* What is known of every transfer, of a grab and of what it has yet to read or
   to write, holds in every reachable state: the induction behind the rest. *)
THEOREM ContentInvariant == Spec => []Inv
<1>1. Init => Inv
  BY InvInit
<1>2. Inv /\ [Next]_vars => Inv'
  BY InvStep
<1> QED BY <1>1, <1>2, PTL DEF Spec

(* A transfer that nobody interferes with is accepted only with the best content
   of the source at its place, is refused only for a reason, and is empty only
   if nothing was offered: receive(), transferRuntime.ts:257-300. *)
THEOREM ArrivesAsOffered == Spec => []DeliveredAsOffered
<1>1. Inv => DeliveredAsOffered
  <2>1. ASSUME Inv PROVE TypeOK
    BY <2>1 DEF Inv, Types, TypeOK, Good, Shaped, Jobs, Stages
  <2>2. ASSUME Inv PROVE Delivered
    BY <2>2 DEF Inv, Good, Faithful, Delivered
  <2> QED BY <2>1, <2>2 DEF DeliveredAsOffered
<1> QED BY <1>1, ContentInvariant, PTL
=============================================================================
