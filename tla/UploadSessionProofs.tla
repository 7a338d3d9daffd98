------------------------ MODULE UploadSessionProofs ------------------------
(***************************************************************************)
(* Proofs about UploadSession, for every set of requests, sessions and     *)
(* uploads.  The library states induction with an operator as a parameter, *)
(* which the provers cannot instantiate; SetInduction states it with a set *)
(* instead, and the lemmas about Sort and FlattenSeq rest on it.           *)
(***************************************************************************)
EXTENDS UploadSession, FiniteSetTheorems, WellFoundedInduction, TLAPS

-----------------------------------------------------------------------------
(* Induction, and sequences.                                               *)

LEMMA SetInduction ==
    ASSUME NEW S, 0 \in S, \A n \in Nat : n \in S => n + 1 \in S
    PROVE  Nat \subseteq S
  <1> DEFINE T == Nat \ S
             R == {p \in Nat \X Nat : p[1] < p[2]}
  <1> SUFFICES ASSUME T # {} PROVE FALSE
    OBVIOUS
  <1>1. IsWellFoundedOn(R, Nat)
    <2>1. R = OpToRel(<, Nat)
      BY DEF OpToRel
    <2> QED
      BY <2>1, NatLessThanWellFounded, Zenon
  <1>3. T \subseteq Nat
    OBVIOUS
  <1> HIDE DEF T, R
  <1>4. \E x \in T : \A y \in T : ~ (<<y, x>> \in R)
    BY <1>1, <1>3, WFMin
  <1>5. PICK x \in T : \A y \in T : ~ (<<y, x>> \in R)
    BY <1>4
  <1>6. x \in Nat /\ x # 0
    BY DEF T
  <1>7. x - 1 \in Nat /\ x - 1 < x /\ x = (x-1) + 1
    BY <1>6
  <1>8. x - 1 \notin T
    BY <1>5, <1>6, <1>7 DEF R, T
  <1>9. x - 1 \in S
    BY <1>7, <1>8 DEF T
  <1> QED
    BY <1>7, <1>9 DEF T


\* The function by which FlattenSeq is defined exists.
LEMMA FlattenDefined ==
    ASSUME NEW seqs, NEW n \in Nat
    PROVE  \E f : f = [i \in 1 .. n |-> IF i = 1 THEN seqs[i] ELSE f[i - 1] \o seqs[i]]
  <1> DEFINE Cat(x, i) == x \o seqs[i]
             Is(f, m) == f = [i \in 1 .. m |-> IF i = 1 THEN seqs[i] ELSE Cat(f[i - 1], i)]
             S == {m \in Nat : \E f : Is(f, m)}
  <1> HIDE DEF Cat
  <1>1. 0 \in S
    <2>1. Is([i \in 1 .. 0 |-> seqs[i]], 0)
      OBVIOUS
    <2> QED
      BY <2>1
  <1>2. ASSUME NEW m \in Nat, m \in S PROVE m + 1 \in S
    <2>1. PICK f : Is(f, m)
      BY <1>2
    <2> DEFINE g == [i \in 1 .. m + 1 |-> IF i <= m THEN f[i]
                                          ELSE IF i = 1 THEN seqs[i] ELSE Cat(f[m], i)]
               h == [i \in 1 .. m + 1 |-> IF i = 1 THEN seqs[i] ELSE Cat(g[i - 1], i)]
    <2>2. ASSUME NEW i \in 1 .. m + 1 PROVE g[i] = h[i]
      <3>1. CASE i = 1
        BY <2>1, <3>1
      <3>2. CASE i # 1 /\ i <= m
        <4>1. i \in 1 .. m /\ i - 1 \in 1 .. m /\ i - 1 \in 1 .. m + 1 /\ i - 1 <= m
          BY <3>2
        <4>2. f[i] = Cat(f[i - 1], i) /\ g[i - 1] = f[i - 1] /\ g[i] = f[i]
          BY <2>1, <3>2, <4>1
        <4> HIDE DEF g
        <4> QED
          BY <3>2, <4>1, <4>2
      <3>3. CASE i # 1 /\ ~(i <= m)
        <4>1. i = m + 1 /\ i - 1 = m /\ m \in 1 .. m + 1
          BY <3>3
        <4>2. g[i] = Cat(f[m], i) /\ g[m] = f[m]
          BY <3>3, <4>1
        <4> HIDE DEF g
        <4> QED
          BY <3>3, <4>1, <4>2
      <3> QED
        BY <3>1, <3>2, <3>3
    <2>3. g = h
      BY <2>2
    <2>4. Is(g, m + 1)
      BY <2>3
    <2> HIDE DEF g, Is
    <2> QED
      BY <2>4
  <1>3. Nat \subseteq S
    <2> HIDE DEF S
    <2> QED
      BY <1>1, <1>2, SetInduction
  <1>4. \E f : Is(f, n)
    <2> HIDE DEF Is
    <2> QED
      BY <1>3
  <1> QED
    BY <1>4 DEF Cat

\* Induction over a flattened sequence: what holds of the first sequence, and
\* goes from a prefix to the next one, holds of all.
LEMMA FlattenIn ==
    ASSUME NEW seqs, NEW n \in Nat \ {0}, Len(seqs) = n, NEW G,
           seqs[1] \in G[1],
           \A i \in 2 .. n : \A x \in G[i - 1] : x \o seqs[i] \in G[i]
    PROVE  FlattenSeq(seqs) \in G[n]
  <1> DEFINE Cat(x, i) == x \o seqs[i]
             Is(f) == f = [i \in 1 .. n |-> IF i = 1 THEN seqs[i] ELSE Cat(f[i - 1], i)]
             f == CHOOSE f : Is(f)
             S == {m \in Nat : m + 1 <= n => f[m + 1] \in G[m + 1]}
  <1>1. Is(f)
    <2>1. \E g : Is(g)
      BY FlattenDefined
    <2> HIDE DEF Is
    <2> QED
      BY <2>1
  <1>2. FlattenSeq(seqs) = f[n]
    BY DEF FlattenSeq
  <1>a. \A i \in 2 .. n : \A x \in G[i - 1] : Cat(x, i) \in G[i]
    OBVIOUS
  <1> HIDE DEF f, Cat
  <1>3. 0 \in S
    <2>1. 1 \in 1 .. n
      OBVIOUS
    <2>2. f[1] = seqs[1]
      BY <1>1, <2>1
    <2> QED
      BY <2>2
  <1>4. ASSUME NEW m \in Nat, m \in S PROVE m + 1 \in S
    <2> DEFINE k == m + 2
    <2>0. (m + 1) + 1 = k /\ k \in Nat /\ k - 1 = m + 1
      OBVIOUS
    <2> SUFFICES ASSUME k <= n PROVE f[k] \in G[k]
      BY <2>0
    <2>1. f[k - 1] \in G[k - 1]
      BY <1>4, <2>0
    <2>2. k \in 1 .. n /\ k # 1 /\ k \in 2 .. n
      OBVIOUS
    <2> HIDE DEF k
    <2>3. f[k] = Cat(f[k - 1], k)
      BY <1>1, <2>2
    <2> QED
      BY <1>a, <2>1, <2>2, <2>3
  <1>5. Nat \subseteq S
    <2> HIDE DEF S
    <2> QED
      BY <1>3, <1>4, SetInduction
  <1>6. n - 1 \in S /\ (n - 1) + 1 = n
    BY <1>5
  <1> QED
    BY <1>2, <1>6

\* The function by which Sort is defined exists.
LEMMA SortDefined ==
    ASSUME NEW specs, NEW n \in Nat
    PROVE  \E f : f = [i \in 0 .. n |-> IF i = 0 THEN <<>> ELSE Insert(f[i - 1], specs[i])]
  <1> DEFINE Is(f, m) == f = [i \in 0 .. m |-> IF i = 0 THEN <<>> ELSE Insert(f[i - 1], specs[i])]
             S == {m \in Nat : \E f : Is(f, m)}
  <1>1. 0 \in S
    <2>1. Is([i \in 0 .. 0 |-> <<>>], 0)
      OBVIOUS
    <2> QED
      BY <2>1
  <1>2. ASSUME NEW m \in Nat, m \in S PROVE m + 1 \in S
    <2>1. PICK f : Is(f, m)
      BY <1>2
    <2> DEFINE g == [i \in 0 .. m + 1 |-> IF i <= m THEN f[i] ELSE Insert(f[m], specs[i])]
               h == [i \in 0 .. m + 1 |-> IF i = 0 THEN <<>> ELSE Insert(g[i - 1], specs[i])]
    <2>2. ASSUME NEW i \in 0 .. m + 1 PROVE g[i] = h[i]
      <3>1. CASE i = 0
        BY <2>1, <3>1
      <3>2. CASE i # 0 /\ i <= m
        <4>1. i \in 0 .. m /\ i - 1 \in 0 .. m /\ i - 1 \in 0 .. m + 1 /\ i - 1 <= m
          BY <3>2
        <4>2. f[i] = Insert(f[i - 1], specs[i]) /\ g[i - 1] = f[i - 1] /\ g[i] = f[i]
          BY <2>1, <3>2, <4>1
        <4> HIDE DEF g
        <4> QED
          BY <3>2, <4>1, <4>2
      <3>3. CASE ~(i <= m)
        <4>1. i = m + 1 /\ i # 0 /\ i - 1 = m /\ m \in 0 .. m + 1
          BY <3>3
        <4>2. g[i] = Insert(f[m], specs[i]) /\ g[m] = f[m]
          BY <3>3, <4>1
        <4> HIDE DEF g
        <4> QED
          BY <3>3, <4>1, <4>2
      <3> QED
        BY <3>1, <3>2, <3>3
    <2>3. g = h
      BY <2>2
    <2>4. Is(g, m + 1)
      BY <2>3
    <2> HIDE DEF g, Is
    <2> QED
      BY <2>4
  <1>3. Nat \subseteq S
    <2> HIDE DEF S
    <2> QED
      BY <1>1, <1>2, SetInduction
  <1> HIDE DEF Is
  <1>4. \E f : Is(f, n)
    BY <1>3
  <1> QED
    BY <1>4 DEF Is

\* Induction over the specs that are sorted.
LEMMA SortIn ==
    ASSUME NEW specs, NEW n \in Nat, Len(specs) = n, NEW G, <<>> \in G[0],
           \A i \in 1 .. n : \A x \in G[i - 1] : Insert(x, specs[i]) \in G[i]
    PROVE  Sort(specs) \in G[n]
  <1> DEFINE Is(f) == f = [i \in 0 .. n |-> IF i = 0 THEN <<>> ELSE Insert(f[i - 1], specs[i])]
             f == CHOOSE f : Is(f)
             S == {m \in Nat : m <= n => f[m] \in G[m]}
  <1>1. Is(f)
    <2>1. \E g : Is(g)
      BY SortDefined
    <2> HIDE DEF Is
    <2> QED
      BY <2>1
  <1>2. Sort(specs) = f[n]
    BY DEF Sort
  <1> HIDE DEF f
  <1>3. 0 \in S
    BY <1>1
  <1>4. ASSUME NEW m \in Nat, m \in S PROVE m + 1 \in S
    <2> DEFINE k == m + 1
    <2>0. k \in Nat /\ k - 1 = m /\ k # 0
      OBVIOUS
    <2> SUFFICES ASSUME k <= n PROVE f[k] \in G[k]
      BY <2>0
    <2>1. f[k - 1] \in G[k - 1]
      BY <1>4, <2>0
    <2>2. k \in 0 .. n /\ k \in 1 .. n
      OBVIOUS
    <2> HIDE DEF k
    <2>3. f[k] = Insert(f[k - 1], specs[k])
      BY <1>1, <2>0, <2>2
    <2> QED
      BY <2>1, <2>2, <2>3
  <1>5. Nat \subseteq S
    <2> HIDE DEF S
    <2> QED
      BY <1>3, <1>4, SetInduction
  <1> QED
    BY <1>2, <1>5

LEMMA IsSequence ==
    ASSUME NEW T, NEW n \in Nat, NEW f \in [1 .. n -> T]
    PROVE  f \in Seq(T)
  OBVIOUS

LEMMA Concat ==
    ASSUME NEW T, NEW x \in Seq(T), NEW y \in Seq(T)
    PROVE  /\ x \o y \in Seq(T)
           /\ Len(x \o y) = Len(x) + Len(y)
           /\ \A k \in 1 .. Len(x) : (x \o y)[k] = x[k]
           /\ \A k \in 1 .. Len(y) : (x \o y)[Len(x) + k] = y[k]
  <1>1. x \o y \in Seq(T)
    OBVIOUS
  <1>2. Len(x \o y) = Len(x) + Len(y)
    OBVIOUS
  <1>3. \A k \in 1 .. Len(x) : (x \o y)[k] = x[k]
    OBVIOUS
  <1>4. \A k \in 1 .. Len(y) : (x \o y)[Len(x) + k] = y[k]
    OBVIOUS
  <1> QED
    BY <1>1, <1>2, <1>3, <1>4

LEMMA ConcatSet ==
    ASSUME NEW T, NEW x \in Seq(T), NEW y \in Seq(T)
    PROVE  ToSet(x \o y) = ToSet(x) \cup ToSet(y)
  <1> DEFINE w == x \o y
  <1>1. Len(x) \in Nat /\ Len(y) \in Nat /\ DOMAIN x = 1 .. Len(x) /\ DOMAIN y = 1 .. Len(y)
    OBVIOUS
  <1>2. /\ w \in Seq(T)
        /\ Len(w) = Len(x) + Len(y)
        /\ \A k \in 1 .. Len(x) : w[k] = x[k]
        /\ \A k \in 1 .. Len(y) : w[Len(x) + k] = y[k]
    BY Concat
  <1> HIDE DEF w
  <1>3. DOMAIN w = 1 .. Len(x) + Len(y)
    BY <1>2
  <1>4. ASSUME NEW k \in 1 .. Len(x) + Len(y) PROVE w[k] \in ToSet(x) \cup ToSet(y)
    <2>1. CASE k <= Len(x)
      BY <1>1, <1>2, <2>1 DEF ToSet
    <2>2. CASE k > Len(x)
      <3>1. k - Len(x) \in 1 .. Len(y) /\ Len(x) + (k - Len(x)) = k
        BY <1>1, <2>2
      <3>2. w[k] = y[k - Len(x)]
        BY <1>2, <3>1
      <3> QED
        BY <1>1, <3>1, <3>2 DEF ToSet
    <2> QED
      BY <1>1, <2>1, <2>2
  <1>5. \A k \in 1 .. Len(x) : k \in 1 .. Len(x) + Len(y)
    BY <1>1
  <1>6. \A k \in 1 .. Len(y) : Len(x) + k \in 1 .. Len(x) + Len(y)
    BY <1>1
  <1>7. ToSet(x) \cup ToSet(y) \subseteq ToSet(w)
    BY <1>1, <1>2, <1>3, <1>5, <1>6, ZenonT(40) DEF ToSet
  <1>8. ToSet(w) \subseteq ToSet(x) \cup ToSet(y)
    BY <1>3, <1>4 DEF ToSet
  <1> QED
    BY <1>7, <1>8 DEF w

\* A bounded set of numbers has a greatest one.
LEMMA Greatest ==
    ASSUME NEW I \in SUBSET Nat, NEW n \in Nat, \A i \in I : i <= n, I # {}
    PROVE  /\ Max(I) \in I
           /\ \A i \in I : i <= Max(I)
  <1> DEFINE Has == \E x \in I : \A y \in I : x >= y
             S == {m \in Nat : (\E i \in I : i + m >= n) => Has}
  <1>1. 0 \in S
    OBVIOUS
  <1>2. ASSUME NEW m \in Nat, m \in S PROVE m + 1 \in S
    <2> SUFFICES ASSUME NEW i \in I, i + (m + 1) >= n PROVE Has
      OBVIOUS
    <2>1. CASE \E j \in I : j + m >= n
      BY <1>2, <2>1
    <2>2. CASE ~ \E j \in I : j + m >= n
      <3>1. \A j \in I : i >= j
        BY <2>2
      <3> QED
        BY <3>1
    <2> QED
      BY <2>1, <2>2
  <1>3. Nat \subseteq S
    <2> HIDE DEF S
    <2> QED
      BY <1>1, <1>2, SetInduction
  <1>4. PICK i : i \in I
    OBVIOUS
  <1>5. n \in S /\ i + n >= n
    BY <1>3, <1>4
  <1>6. Has
    BY <1>4, <1>5
  <1> QED
    BY <1>6 DEF Max

\* d behind the first p specs of q.
Behind(q, d, p) == SubSeq(q, 1, p) \o <<d>> \o SubSeq(q, p + 1, Len(q))

\* Where a spec is inserted.
LEMMA InsertPlace ==
    ASSUME NEW T, NEW q \in Seq(T), NEW d
    PROVE  \E p \in 0 .. Len(q) :
              /\ Insert(q, d) = Behind(q, d, p)
              /\ p # 0 => ~Less(d, q[p])
              /\ \A j \in p + 1 .. Len(q) : Less(d, q[j])
  <1> DEFINE I == {i \in 1 .. Len(q) : ~Less(d, q[i])}
             p == IF I # {} THEN Max(I) ELSE 0
  <1>1. SelectLastInSeq(q, LAMBDA c : ~Less(d, c)) = p
    BY DEF SelectLastInSeq
  <1>2. Insert(q, d) = Behind(q, d, p)
    BY <1>1, Zenon DEF Insert, Behind
  <1>3. Len(q) \in Nat /\ I \in SUBSET Nat /\ \A i \in I : i <= Len(q)
    OBVIOUS
  <1>4. CASE I = {}
    <2>1. p = 0 /\ \A j \in 1 .. Len(q) : Less(d, q[j])
      BY <1>4
    <2> QED
      BY <1>2, <1>3, <2>1
  <1>5. CASE I # {}
    <2> HIDE DEF I
    <2>1. Max(I) \in I /\ \A i \in I : i <= Max(I)
      BY <1>3, <1>5, Greatest
    <2>2. p = Max(I)
      BY <1>5
    <2> HIDE DEF p
    <2>3. p \in 1 .. Len(q) /\ ~Less(d, q[p])
      BY <2>1, <2>2 DEF I
    <2>4. ASSUME NEW j \in p + 1 .. Len(q) PROVE Less(d, q[j])
      <3>1. j \in 1 .. Len(q) /\ ~(j <= p)
        BY <1>3, <2>3
      <3>2. j \notin I
        BY <2>1, <2>2, <3>1
      <3> QED
        BY <3>1, <3>2 DEF I
    <2> QED
      BY <1>2, <2>3, <2>4
  <1> QED
    BY <1>4, <1>5

\* What it is inserted into.
IsBehind(v, q, d, p) == /\ Len(v) = Len(q) + 1
                        /\ \A k \in 1 .. p : v[k] = q[k]
                        /\ v[p + 1] = d
                        /\ \A k \in p + 2 .. Len(q) + 1 : v[k] = q[k - 1]

LEMMA Inserted ==
    ASSUME NEW T, NEW q \in Seq(T), NEW d \in T, NEW p \in 0 .. Len(q)
    PROVE  Behind(q, d, p) \in Seq(T) /\ IsBehind(Behind(q, d, p), q, d, p)
  <1> DEFINE a == SubSeq(q, 1, p)
             b == SubSeq(q, p + 1, Len(q))
             u == a \o <<d>>
             w == u \o b
  <1>0. Len(q) \in Nat /\ p \in Nat /\ p <= Len(q)
    OBVIOUS
  <1>1. a \in Seq(T) /\ Len(a) = p /\ \A k \in 1 .. p : a[k] = q[k]
    BY <1>0
  <1>2. b \in Seq(T) /\ Len(b) = Len(q) - p /\ \A k \in 1 .. Len(q) - p : b[k] = q[p + k]
    BY <1>0
  <1> HIDE DEF a, b
  <1>3. /\ u \in Seq(T) /\ Len(u) = p + 1
        /\ \A k \in 1 .. p : u[k] = q[k]
        /\ u[p + 1] = d
    BY <1>0, <1>1
  <1> HIDE DEF u
  <1>4. w \in Seq(T) /\ Len(w) = Len(q) + 1
    <2>1. w \in Seq(T) /\ Len(w) = Len(u) + Len(b)
      BY <1>2, <1>3, Concat
    <2> QED
      BY <1>0, <1>2, <1>3, <2>1
  <1>5. \A k \in 1 .. p + 1 : w[k] = u[k]
    BY <1>0, <1>2, <1>3
  <1>6. \A k \in p + 2 .. Len(q) + 1 : w[k] = b[k - (p + 1)]
    BY <1>0, <1>2, <1>3
  <1> HIDE DEF w
  <1>7. ASSUME NEW k \in p + 2 .. Len(q) + 1 PROVE w[k] = q[k - 1]
    <2>1. k - (p + 1) \in 1 .. Len(q) - p /\ p + (k - (p + 1)) = k - 1
      BY <1>0
    <2> QED
      BY <1>2, <1>6, <2>1
  <1>8. /\ \A k \in 1 .. p : w[k] = q[k]
        /\ w[p + 1] = d
    BY <1>0, <1>3, <1>5
  <1> QED
    <2>1. w \in Seq(T) /\ IsBehind(w, q, d, p)
      BY <1>4, <1>7, <1>8 DEF IsBehind
    <2>2. w = Behind(q, d, p)
      BY DEF w, u, a, b, Behind
    <2> QED
      BY <2>1, <2>2, Zenon


\* The type of c comes before the type of d.
TypeBefore(c, d) == c.type # d.type /\ Less(c, d)

\* The sequences of specs in the order of their types.
Sorted == {q \in Seq(YamlSpec) :
              \A i, j \in DOMAIN q : i < j => ~TypeBefore(q[j], q[i])}

LEMMA InsertSorts ==
    ASSUME NEW q \in Sorted, NEW d \in YamlSpec
    PROVE  /\ Insert(q, d) \in Sorted
           /\ ToSet(Insert(q, d)) = ToSet(q) \cup {d}
  <1>1. q \in Seq(YamlSpec) /\ DOMAIN q = 1 .. Len(q) /\ Len(q) \in Nat
    BY DEF Sorted
  <1>2. PICK p \in 0 .. Len(q) : /\ Insert(q, d) = Behind(q, d, p)
                                 /\ p # 0 => ~Less(d, q[p])
                                 /\ \A j \in p + 1 .. Len(q) : Less(d, q[j])
    BY <1>1, InsertPlace
  <1> DEFINE w == Behind(q, d, p)
  <1>3. /\ w \in Seq(YamlSpec)
        /\ Len(w) = Len(q) + 1
        /\ \A k \in 1 .. p : w[k] = q[k]
        /\ w[p + 1] = d
        /\ \A k \in p + 2 .. Len(q) + 1 : w[k] = q[k - 1]
    <2>1. w \in Seq(YamlSpec) /\ IsBehind(w, q, d, p)
      BY <1>1, Inserted
    <2> HIDE DEF w
    <2> QED
      BY <2>1 DEF IsBehind
  <1> HIDE DEF w
  <1>4. DOMAIN w = 1 .. Len(q) + 1
    BY <1>1, <1>3
  <1>5. \A i \in 1 .. Len(q) : q[i].type \in Types
    BY <1>1 DEF YamlSpec
  <1>6. \A i, j \in 1 .. Len(q) : i < j => ~TypeBefore(q[j], q[i])
    BY <1>1 DEF Sorted
  <1>7. ASSUME NEW i \in 1 .. p PROVE ~TypeBefore(d, q[i])
    <2>1. p \in 1 .. Len(q) /\ i \in 1 .. Len(q) /\ ~Less(d, q[p])
      BY <1>1, <1>2
    <2>2. CASE i = p
      BY <2>1, <2>2 DEF TypeBefore
    <2>3. CASE i # p
      <3>1. ~TypeBefore(q[p], q[i])
        BY <1>1, <1>6, <2>1, <2>3
      <3>2. d.type \in Types /\ q[i].type \in Types /\ q[p].type \in Types
        BY <1>5, <2>1 DEF YamlSpec
      <3> QED
        BY <2>1, <3>1, <3>2 DEF TypeBefore, Less, Types
    <2> QED
      BY <2>2, <2>3
  <1>8. ASSUME NEW j \in p + 1 .. Len(q) PROVE ~TypeBefore(q[j], d)
    <2>1. j \in 1 .. Len(q) /\ Less(d, q[j])
      BY <1>1, <1>2
    <2>2. q[j].type \in Types /\ d.type \in Types
      BY <1>5, <2>1 DEF YamlSpec
    <2> QED
      BY <2>1, <2>2 DEF TypeBefore, Less, Types
  <1>9. ASSUME NEW i \in 1 .. Len(q) + 1, NEW j \in 1 .. Len(q) + 1, i < j
        PROVE  ~TypeBefore(w[j], w[i])
    <2>1. CASE j <= p
      <3>1. i \in 1 .. p /\ j \in 1 .. p /\ i \in 1 .. Len(q) /\ j \in 1 .. Len(q)
        BY <1>1, <1>9, <2>1
      <3> QED
        BY <1>3, <1>6, <1>9, <3>1
    <2>2. CASE j = p + 1
      <3>1. i \in 1 .. p
        BY <1>1, <1>9, <2>2
      <3> QED
        BY <1>3, <1>7, <2>2, <3>1
    <2>3. CASE j > p + 1 /\ i = p + 1
      <3>1. j \in p + 2 .. Len(q) + 1 /\ j - 1 \in p + 1 .. Len(q)
        BY <1>1, <2>3
      <3> QED
        BY <1>3, <1>8, <2>3, <3>1
    <2>4. CASE j > p + 1 /\ i <= p
      <3>1. /\ j \in p + 2 .. Len(q) + 1 /\ j - 1 \in 1 .. Len(q)
            /\ i \in 1 .. p /\ i \in 1 .. Len(q) /\ i < j - 1
        BY <1>1, <2>4
      <3>2. w[j] = q[j - 1] /\ w[i] = q[i]
        BY <1>3, <3>1
      <3> QED
        BY <1>6, <3>1, <3>2
    <2>5. CASE j > p + 1 /\ i > p + 1
      <3>1. /\ j \in p + 2 .. Len(q) + 1 /\ j - 1 \in 1 .. Len(q)
            /\ i \in p + 2 .. Len(q) + 1 /\ i - 1 \in 1 .. Len(q) /\ i - 1 < j - 1
        BY <1>1, <1>9, <2>5
      <3>2. w[j] = q[j - 1] /\ w[i] = q[i - 1]
        BY <1>3, <3>1
      <3> QED
        BY <1>6, <3>1, <3>2
    <2> QED
      BY <1>1, <2>1, <2>2, <2>3, <2>4, <2>5
  <1>10. w \in Sorted
    BY <1>3, <1>4, <1>9 DEF Sorted
  <1>11. ToSet(w) = ToSet(q) \cup {d}
    <2>1. ASSUME NEW k \in 1 .. Len(q) + 1 PROVE w[k] \in ToSet(q) \cup {d}
      <3>1. CASE k <= p
        <4>1. k \in 1 .. p /\ k \in 1 .. Len(q)
          BY <1>1, <3>1
        <4> QED
          BY <1>1, <1>3, <4>1 DEF ToSet
      <3>2. CASE k = p + 1
        BY <1>3, <3>2
      <3>3. CASE k > p + 1
        <4>1. k \in p + 2 .. Len(q) + 1 /\ k - 1 \in 1 .. Len(q)
          BY <1>1, <3>3
        <4> QED
          BY <1>1, <1>3, <4>1 DEF ToSet
      <3> QED
        BY <1>1, <3>1, <3>2, <3>3
    <2>2. ASSUME NEW k \in 1 .. Len(q) PROVE \E m \in 1 .. Len(q) + 1 : w[m] = q[k]
      <3>1. CASE k <= p
        BY <1>1, <1>3, <3>1
      <3>2. CASE k > p
        <4>1. k + 1 \in p + 2 .. Len(q) + 1 /\ k + 1 \in 1 .. Len(q) + 1 /\ (k + 1) - 1 = k
          BY <1>1, <3>2
        <4>2. w[k + 1] = q[k]
          BY <1>3, <4>1
        <4> QED
          BY <4>1, <4>2
      <3> QED
        BY <1>1, <3>1, <3>2
    <2>3. p + 1 \in 1 .. Len(q) + 1
      BY <1>1
    <2>4. ToSet(q) \cup {d} \subseteq ToSet(w)
      <3>1. d \in ToSet(w)
        BY <1>3, <1>4, <2>3 DEF ToSet
      <3>2. ToSet(q) \subseteq ToSet(w)
        BY <1>1, <1>4, <2>2 DEF ToSet
      <3> QED
        BY <3>1, <3>2
    <2>5. ToSet(w) \subseteq ToSet(q) \cup {d}
      BY <1>4, <2>1 DEF ToSet
    <2> QED
      BY <2>4, <2>5
  <1> QED
    BY <1>2, <1>10, <1>11 DEF w

\* Sort keeps the specs and brings them into the order of their types.
LEMMA SortSorts ==
    ASSUME NEW specs \in Seq(YamlSpec)
    PROVE  Sort(specs) \in Sorted /\ ToSet(Sort(specs)) = ToSet(specs)
  <1> DEFINE n == Len(specs)
             Loaded(i) == {specs[k] : k \in 1 .. i}
             G == [i \in 0 .. n |-> {q \in Sorted : ToSet(q) = Loaded(i)}]
  <1>1. n \in Nat /\ DOMAIN specs = 1 .. n /\ \A i \in 1 .. n : specs[i] \in YamlSpec
    OBVIOUS
  <1> HIDE DEF n
  <1>2. <<>> \in G[0]
    <2>1. <<>> \in Sorted
      BY DEF Sorted
    <2>2. ToSet(<<>>) = {} /\ Loaded(0) = {}
      BY DEF ToSet
    <2> QED
      BY <1>1, <2>1, <2>2
  <1>3. ASSUME NEW i \in 1 .. n, NEW x \in G[i - 1] PROVE Insert(x, specs[i]) \in G[i]
    <2>1. i - 1 \in 0 .. n /\ i \in 0 .. n
      BY <1>1
    <2>2. x \in Sorted /\ ToSet(x) = Loaded(i - 1)
      BY <2>1
    <2>3. Loaded(i) = Loaded(i - 1) \cup {specs[i]}
      BY <1>1
    <2> HIDE DEF Loaded
    <2>4. Insert(x, specs[i]) \in Sorted /\ ToSet(Insert(x, specs[i])) = Loaded(i)
      BY <1>1, <2>2, <2>3, InsertSorts
    <2> QED
      BY <2>1, <2>4
  <1>4. Sort(specs) \in G[n]
    <2> HIDE DEF G
    <2> QED
      BY <1>1, <1>2, <1>3, SortIn DEF n
  <1>5. Loaded(n) = ToSet(specs)
    BY <1>1 DEF ToSet
  <1> HIDE DEF Loaded
  <1> QED
    BY <1>1, <1>4, <1>5

\* A flattened sequence has the elements of its sequences.
LEMMA FlattenedSet ==
    ASSUME NEW T, NEW n \in Nat, NEW seqs \in [1 .. n -> Seq(T)]
    PROVE  /\ FlattenSeq(seqs) \in Seq(T)
           /\ ToSet(FlattenSeq(seqs)) = UNION {ToSet(seqs[i]) : i \in 1 .. n}
  <1> DEFINE All(i) == UNION {ToSet(seqs[k]) : k \in 1 .. i}
             G == [i \in 1 .. n |-> {q \in Seq(T) : ToSet(q) = All(i)}]
  <1>1. Len(seqs) = n /\ DOMAIN seqs = 1 .. n
    OBVIOUS
  <1>2. CASE n = 0
    <2>1. FlattenSeq(seqs) = seqs /\ seqs = <<>>
      BY <1>1, <1>2 DEF FlattenSeq
    <2>2. ToSet(<<>>) = {} /\ All(0) = {} /\ <<>> \in Seq(T)
      BY DEF ToSet
    <2> QED
      BY <1>2, <2>1, <2>2
  <1>3. CASE n # 0
    <2>1. seqs[1] \in G[1]
      <3>1. 1 \in 1 .. n
        BY <1>3
      <3>2. All(1) = ToSet(seqs[1])
        OBVIOUS
      <3> HIDE DEF All
      <3> QED
        BY <3>1, <3>2
    <2>2. ASSUME NEW i \in 2 .. n, NEW x \in G[i - 1] PROVE x \o seqs[i] \in G[i]
      <3>1. i \in 1 .. n /\ i - 1 \in 1 .. n
        OBVIOUS
      <3>2. x \in Seq(T) /\ ToSet(x) = All(i - 1) /\ seqs[i] \in Seq(T)
        BY <3>1
      <3>3. All(i) = All(i - 1) \cup ToSet(seqs[i])
        <4>1. 1 .. i = (1 .. i - 1) \cup {i}
          BY <3>1
        <4> QED
          BY <4>1
      <3>4. ToSet(x \o seqs[i]) = ToSet(x) \cup ToSet(seqs[i])
        BY <3>2, ConcatSet
      <3>5. x \o seqs[i] \in Seq(T)
        BY <3>2, Concat
      <3> HIDE DEF All
      <3> QED
        BY <3>1, <3>2, <3>3, <3>4, <3>5
    <2>3. FlattenSeq(seqs) \in G[n]
      <3> HIDE DEF G
      <3> QED
        BY <1>1, <1>3, <2>1, <2>2, FlattenIn
    <2>4. n \in 1 .. n
      BY <1>3
    <2> HIDE DEF All
    <2>5. FlattenSeq(seqs) \in Seq(T) /\ ToSet(FlattenSeq(seqs)) = All(n)
      BY <2>3, <2>4
    <2> QED
      BY <2>5 DEF All
  <1> QED
    BY <1>2, <1>3

-----------------------------------------------------------------------------
(* From uploads to specs.                                                  *)

\* A file set: finitely many files, with specs.
IsFileSet(f) == /\ IsFiniteSet(DOMAIN f)
                /\ \A x \in DOMAIN f : f[x] \in Seq(YamlSpec)

SpecsOf(f) == UNION {ToSet(f[x]) : x \in DOMAIN f}

\* An order of a finite set has all its members.
LEMMA OrdersAreComplete ==
    ASSUME NEW S, IsFiniteSet(S), NEW order \in SetToSeqs(S)
    PROVE  /\ Cardinality(S) \in Nat
           /\ order \in [1 .. Cardinality(S) -> S]
           /\ \A x \in S : \E i \in 1 .. Cardinality(S) : order[i] = x
  <1> DEFINE n == Cardinality(S)
  <1>1. n \in Nat
    BY FS_CardinalityType
  <1>2. /\ order \in [1 .. n -> S]
        /\ \A i, j \in 1 .. n : i # j => order[i] # order[j]
    BY DEF SetToSeqs
  <1>3. order \in Injection(1 .. n, S)
    BY <1>2 DEF Injection, IsInjective
  <1>4. Cardinality(1 .. n) = n
    BY <1>1, FS_Interval
  <1> HIDE DEF n
  <1>5. order \in Surjection(1 .. n, S)
    BY <1>3, <1>4, FS_Injection DEF n
  <1> QED
    BY <1>1, <1>2, <1>5 DEF n, Surjection

LEMMA LoadedSpecs ==
    ASSUME NEW f, IsFileSet(f), NEW q \in loadYamlSpecs(f)
    PROVE  q \in Sorted /\ ToSet(q) = SpecsOf(f)
  <1> DEFINE n == Cardinality(DOMAIN f)
  <1>1. PICK order \in SetToSeqs(DOMAIN f) :
            q = Sort(FlattenSeq([i \in DOMAIN order |-> f[order[i]]]))
    BY DEF loadYamlSpecs
  <1>2. /\ n \in Nat /\ order \in [1 .. n -> DOMAIN f]
        /\ \A x \in DOMAIN f : \E i \in 1 .. n : order[i] = x
    BY OrdersAreComplete DEF IsFileSet
  <1> HIDE DEF n
  <1> DEFINE seqs == [i \in DOMAIN order |-> f[order[i]]]
  <1>3. seqs \in [1 .. n -> Seq(YamlSpec)] /\ DOMAIN order = 1 .. n
    BY <1>2 DEF IsFileSet
  <1>4. UNION {ToSet(seqs[i]) : i \in 1 .. n} = SpecsOf(f)
    BY <1>2, <1>3 DEF SpecsOf
  <1> HIDE DEF seqs
  <1>5. /\ FlattenSeq(seqs) \in Seq(YamlSpec)
        /\ ToSet(FlattenSeq(seqs)) = SpecsOf(f)
    BY <1>2, <1>3, <1>4, FlattenedSet
  <1> QED
    BY <1>1, <1>5, SortSorts DEF seqs

\* A spec to load, with the file set it is of.
Task == [set : Nat, spec : YamlSpec]

\* Specs of the same file set are in the order of their types.
InOrder(q) == \A i, j \in DOMAIN q :
    i < j /\ q[i].set = q[j].set => ~TypeBefore(q[j].spec, q[i].spec)

LEMMA ConcatInOrder ==
    ASSUME NEW x \in Seq(Task), NEW y \in Seq(Task), NEW m \in Nat,
           InOrder(x), \A i \in DOMAIN x : x[i].set < m,
           InOrder(y), \A i \in DOMAIN y : y[i].set = m
    PROVE  InOrder(x \o y) /\ \A i \in DOMAIN (x \o y) : (x \o y)[i].set < m + 1
  <1> DEFINE w == x \o y
  <1>1. Len(x) \in Nat /\ Len(y) \in Nat /\ DOMAIN x = 1 .. Len(x) /\ DOMAIN y = 1 .. Len(y)
    OBVIOUS
  <1>2. /\ w \in Seq(Task)
        /\ Len(w) = Len(x) + Len(y)
        /\ \A k \in 1 .. Len(x) : w[k] = x[k]
        /\ \A k \in 1 .. Len(y) : w[Len(x) + k] = y[k]
    BY Concat
  <1> HIDE DEF w
  <1>3. DOMAIN w = 1 .. Len(x) + Len(y)
    BY <1>2
  <1>4. ASSUME NEW k \in DOMAIN w, ~(k <= Len(x))
        PROVE  k - Len(x) \in DOMAIN y /\ w[k] = y[k - Len(x)]
    <2>1. k - Len(x) \in 1 .. Len(y) /\ Len(x) + (k - Len(x)) = k
      BY <1>1, <1>3, <1>4
    <2> QED
      BY <1>1, <1>2, <2>1
  <1>5. ASSUME NEW k \in DOMAIN w, k <= Len(x)
        PROVE  k \in DOMAIN x /\ w[k] = x[k]
    BY <1>1, <1>2, <1>3, <1>5
  <1>6. ASSUME NEW k \in DOMAIN w PROVE w[k].set \in Nat /\ w[k].set < m + 1
    <2>0. w[k] \in Task
      BY <1>2
    <2>1. w[k].set \in Nat
      BY <2>0 DEF Task
    <2>2. CASE k <= Len(x)
      BY <1>5, <2>1, <2>2
    <2>3. CASE ~(k <= Len(x))
      BY <1>4, <2>1, <2>3
    <2> QED
      BY <2>1, <2>2, <2>3
  <1>7. ASSUME NEW i \in DOMAIN w, NEW j \in DOMAIN w, i < j, w[i].set = w[j].set
        PROVE  ~TypeBefore(w[j].spec, w[i].spec)
    <2>0. i \in Nat /\ j \in Nat
      BY <1>1, <1>3
    <2>1. CASE j <= Len(x)
      <3>1. i <= Len(x)
        BY <1>1, <1>7, <2>0, <2>1
      <3> QED
        BY <1>5, <1>7, <2>1, <3>1 DEF InOrder
    <2>2. CASE ~(j <= Len(x)) /\ i <= Len(x)
      <3>1. w[i].set < m /\ w[j].set = m
        BY <1>4, <1>5, <2>2
      <3> QED
        BY <1>6, <1>7, <3>1
    <2>3. CASE ~(j <= Len(x)) /\ ~(i <= Len(x))
      <3>1. /\ i - Len(x) \in DOMAIN y /\ w[i] = y[i - Len(x)]
            /\ j - Len(x) \in DOMAIN y /\ w[j] = y[j - Len(x)]
        BY <1>4, <2>3
      <3>2. i - Len(x) < j - Len(x)
        BY <1>1, <1>7, <2>0
      <3> QED
        BY <1>7, <3>1, <3>2 DEF InOrder
    <2> QED
      BY <2>1, <2>2, <2>3
  <1>8. InOrder(w)
    BY <1>7 DEF InOrder
  <1> QED
    BY <1>6, <1>8 DEF w

LEMMA OrderedTasks ==
    ASSUME NEW n \in Nat, NEW fileSets, DOMAIN fileSets = 1 .. n,
           \A i \in 1 .. n : IsFileSet(fileSets[i]),
           NEW todo \in OrderedSpecs(fileSets)
    PROVE  /\ todo \in Seq(Task)
           /\ InOrder(todo)
           /\ {t.spec : t \in ToSet(todo)} = UNION {SpecsOf(fileSets[i]) : i \in 1 .. n}
  <1> DEFINE tasks(i, q) == [j \in DOMAIN q |-> [set |-> i, spec |-> q[j]]]
  <1>1. PICK choice \in [1 .. n -> UNION {loadYamlSpecs(fileSets[i]) : i \in 1 .. n}] :
            /\ \A i \in 1 .. n : choice[i] \in loadYamlSpecs(fileSets[i])
            /\ todo = FlattenSeq([i \in DOMAIN choice |-> tasks(i, choice[i])])
    BY DEF OrderedSpecs
  <1>2. ASSUME NEW i \in 1 .. n
        PROVE  choice[i] \in Sorted /\ ToSet(choice[i]) = SpecsOf(fileSets[i])
    BY <1>1, LoadedSpecs
  <1> DEFINE seqs == [i \in DOMAIN choice |-> tasks(i, choice[i])]
  <1>3. ASSUME NEW i \in 1 .. n
        PROVE  /\ tasks(i, choice[i]) \in Seq(Task)
               /\ InOrder(tasks(i, choice[i]))
               /\ \A j \in DOMAIN tasks(i, choice[i]) : tasks(i, choice[i])[j].set = i
               /\ {t.spec : t \in ToSet(tasks(i, choice[i]))} = SpecsOf(fileSets[i])
    <2> DEFINE q == choice[i]
               u == tasks(i, q)
    <2>1. q \in Seq(YamlSpec) /\ \A j, k \in DOMAIN q : j < k => ~TypeBefore(q[k], q[j])
      BY <1>2 DEF Sorted
    <2>2. Len(q) \in Nat /\ DOMAIN q = 1 .. Len(q) /\ \A j \in 1 .. Len(q) : q[j] \in YamlSpec
      BY <2>1
    <2> HIDE DEF q
    <2>3. /\ DOMAIN u = 1 .. Len(q)
          /\ \A j \in 1 .. Len(q) : u[j] = [set |-> i, spec |-> q[j]]
      BY <2>2
    <2>4. u = [j \in 1 .. Len(q) |-> [set |-> i, spec |-> q[j]]]
      BY <2>2
    <2>5. \A j \in 1 .. Len(q) : [set |-> i, spec |-> q[j]] \in Task
      BY <2>2 DEF Task
    <2>6. u \in [1 .. Len(q) -> Task]
      BY <2>4, <2>5
    <2> HIDE DEF u
    <2>7. u \in Seq(Task)
      BY <2>2, <2>6, IsSequence
    <2>8. ASSUME NEW j \in 1 .. Len(q) PROVE u[j].set = i /\ u[j].spec = q[j]
      <3>1. u[j] = [set |-> i, spec |-> q[j]]
        BY <2>3
      <3> QED
        BY <3>1
    <2>9. InOrder(u)
      BY <2>1, <2>2, <2>3, <2>8 DEF InOrder
    <2>10. {t.spec : t \in ToSet(u)} = ToSet(q)
      BY <2>2, <2>3, <2>8 DEF ToSet
    <2> QED
      BY <1>2, <2>3, <2>7, <2>8, <2>9, <2>10 DEF q, u
  <1>4. DOMAIN choice = 1 .. n
    BY <1>1
  <1> HIDE DEF tasks
  <1>5. seqs \in [1 .. n -> Seq(Task)] /\ \A i \in 1 .. n : seqs[i] = tasks(i, choice[i])
    BY <1>3, <1>4
  <1> HIDE DEF seqs
  <1>6. /\ FlattenSeq(seqs) \in Seq(Task)
        /\ ToSet(FlattenSeq(seqs)) = UNION {ToSet(seqs[i]) : i \in 1 .. n}
    BY <1>5, FlattenedSet
  <1>7. InOrder(FlattenSeq(seqs))
    <2> DEFINE G == [i \in 1 .. n |-> {q \in Seq(Task) : InOrder(q) /\ \A j \in DOMAIN q : q[j].set < i + 1}]
    <2>1. CASE n = 0
      <3>1. FlattenSeq(seqs) = seqs /\ DOMAIN seqs = {}
        BY <1>5, <2>1 DEF FlattenSeq
      <3> QED
        BY <3>1 DEF InOrder
    <2>2. CASE n # 0
      <3>1. 1 \in 1 .. n /\ n \in 1 .. n /\ Len(seqs) = n
        BY <1>5, <2>2
      <3>2. seqs[1] \in G[1]
        <4>1. /\ seqs[1] \in Seq(Task) /\ InOrder(seqs[1])
              /\ \A j \in DOMAIN seqs[1] : seqs[1][j].set = 1
          <5>1. seqs[1] = tasks(1, choice[1])
            BY <1>5, <3>1
          <5>2. /\ tasks(1, choice[1]) \in Seq(Task) /\ InOrder(tasks(1, choice[1]))
                /\ \A j \in DOMAIN tasks(1, choice[1]) : tasks(1, choice[1])[j].set = 1
            BY <1>3, <3>1
          <5> QED
            BY <5>1, <5>2
        <4>2. \A j \in DOMAIN seqs[1] : seqs[1][j].set < 1 + 1
          BY <4>1
        <4> QED
          BY <3>1, <4>1, <4>2
      <3>3. ASSUME NEW i \in 2 .. n, NEW x \in G[i - 1] PROVE x \o seqs[i] \in G[i]
        <4>1. i \in 1 .. n /\ i - 1 \in 1 .. n /\ (i - 1) + 1 = i /\ i \in Nat
          OBVIOUS
        <4>2. x \in Seq(Task) /\ InOrder(x) /\ \A j \in DOMAIN x : x[j].set < i
          BY <4>1
        <4>3. seqs[i] \in Seq(Task) /\ InOrder(seqs[i]) /\ \A j \in DOMAIN seqs[i] : seqs[i][j].set = i
          BY <1>3, <1>5, <4>1
        <4>4. x \o seqs[i] \in Seq(Task)
          BY <4>2, <4>3, Concat
        <4>5. InOrder(x \o seqs[i]) /\ \A j \in DOMAIN (x \o seqs[i]) : (x \o seqs[i])[j].set < i + 1
          BY <4>1, <4>2, <4>3, ConcatInOrder
        <4> QED
          BY <4>1, <4>4, <4>5
      <3>4. FlattenSeq(seqs) \in G[n]
        <4> HIDE DEF G
        <4> QED
          BY <2>2, <3>1, <3>2, <3>3, FlattenIn
      <3> QED
        BY <3>1, <3>4
    <2> QED
      BY <2>1, <2>2
  <1>8. {t.spec : t \in UNION {ToSet(seqs[i]) : i \in 1 .. n}}
            = UNION {SpecsOf(fileSets[i]) : i \in 1 .. n}
    <2>1. \A i \in 1 .. n : {t.spec : t \in ToSet(seqs[i])} = SpecsOf(fileSets[i])
      BY <1>3, <1>5
    <2> QED
      BY <2>1
  <1>9. todo = FlattenSeq(seqs)
    BY <1>1 DEF seqs
  <1> QED
    BY <1>6, <1>7, <1>8, <1>9

\* What is assumed of uploads.
LEMMA UploadFiles ==
    ASSUME NEW u \in Uploads
    PROVE  IsFileSet(u.files) /\ (u.archive \/ \E f : DOMAIN u.files = {f})
  BY UploadsAreFiles, FS_Singleton DEF IsFileSet

LEMMA ArchiveFiles ==
    ASSUME NEW uploads \in Seq(Uploads)
    PROVE  /\ Archives(uploads) \in Seq({u.files : u \in Uploads})
           /\ ToSet(Archives(uploads)) =
                  {uploads[i].files : i \in {k \in DOMAIN uploads : uploads[k].archive}}
  <1> DEFINE n == Len(uploads)
             Files == {u.files : u \in Uploads}
             one(i) == IF uploads[i].archive THEN <<uploads[i].files>> ELSE <<>>
             seqs == [i \in DOMAIN uploads |-> one(i)]
  <1>1. n \in Nat /\ DOMAIN uploads = 1 .. n /\ \A i \in 1 .. n : uploads[i] \in Uploads
    OBVIOUS
  <1> HIDE DEF n
  <1>2. ASSUME NEW i \in 1 .. n
        PROVE  /\ one(i) \in Seq(Files)
               /\ ToSet(one(i)) = IF uploads[i].archive THEN {uploads[i].files} ELSE {}
    <2>1. uploads[i].files \in Files
      BY <1>1
    <2> HIDE DEF Files
    <2>2. CASE uploads[i].archive
      BY <2>1, <2>2 DEF ToSet
    <2>3. CASE ~uploads[i].archive
      BY <2>3 DEF ToSet
    <2> QED
      BY <2>2, <2>3
  <1> HIDE DEF one, Files
  <1>3. seqs \in [1 .. n -> Seq(Files)] /\ \A i \in 1 .. n : seqs[i] = one(i)
    BY <1>1, <1>2
  <1>4. Archives(uploads) = FlattenSeq(seqs)
    BY DEF Archives, one
  <1> HIDE DEF seqs
  <1>5. /\ FlattenSeq(seqs) \in Seq(Files)
        /\ ToSet(FlattenSeq(seqs)) = UNION {ToSet(seqs[i]) : i \in 1 .. n}
    BY <1>1, <1>3, FlattenedSet
  <1>6. UNION {ToSet(seqs[i]) : i \in 1 .. n} = {uploads[i].files : i \in {k \in 1 .. n : uploads[k].archive}}
    BY <1>2, <1>3
  <1> QED
    BY <1>1, <1>4, <1>5, <1>6 DEF Files

\* The uploads that are no archives.
Raw(uploads) == {i \in DOMAIN uploads : ~uploads[i].archive}

LEMMA BaseFiles ==
    ASSUME NEW uploads \in Seq(Uploads)
    PROVE  /\ IsFileSet(BaseFileSet(uploads))
           /\ SpecsOf(BaseFileSet(uploads)) =
                  UNION {SpecsOf(uploads[i].files) : i \in Raw(uploads) \cap Current(uploads)}
  <1> DEFINE n == Len(uploads)
             raw == Raw(uploads)
             names == UNION {DOMAIN uploads[i].files : i \in raw}
             IsLast(f, i) == /\ f \in DOMAIN uploads[i].files
                             /\ \A j \in raw : f \in DOMAIN uploads[j].files => j <= i
             last(f) == CHOOSE i \in raw : IsLast(f, i)
             base == [f \in names |-> uploads[last(f)].files[f]]
  <1>1. n \in Nat /\ DOMAIN uploads = 1 .. n /\ \A i \in 1 .. n : uploads[i] \in Uploads
    OBVIOUS
  <1>2. BaseFileSet(uploads) = base
    BY DEF BaseFileSet, Raw
  <1>3. raw \in SUBSET Nat /\ raw \subseteq 1 .. n /\ \A i \in raw : i <= n
    BY <1>1 DEF Raw
  <1> HIDE DEF n
  <1>4. ASSUME NEW i \in raw
        PROVE  /\ IsFileSet(uploads[i].files)
               /\ \E f : DOMAIN uploads[i].files = {f}
    BY <1>1, UploadFiles DEF Raw
  <1> HIDE DEF raw
  <1>5. ASSUME NEW f \in names PROVE last(f) \in raw /\ IsLast(f, last(f))
    <2> DEFINE I == {i \in raw : f \in DOMAIN uploads[i].files}
    <2>1. I \in SUBSET Nat /\ I # {} /\ \A i \in I : i <= n
      BY <1>3
    <2>2. Max(I) \in I /\ \A i \in I : i <= Max(I)
      <3> HIDE DEF I
      <3> QED
        BY <1>1, <2>1, Greatest
    <2>3. Max(I) \in raw /\ IsLast(f, Max(I))
      BY <2>2
    <2> HIDE DEF IsLast
    <2> QED
      BY <2>3
  <1> HIDE DEF last
  <1>6. ASSUME NEW f \in names PROVE base[f] \in Seq(YamlSpec)
    BY <1>4, <1>5 DEF IsFileSet
  <1>7. IsFiniteSet(names)
    <2> DEFINE file == [i \in raw |-> CHOOSE f : f \in DOMAIN uploads[i].files]
    <2>1. ASSUME NEW i \in raw PROVE DOMAIN uploads[i].files = {file[i]}
      BY <1>4
    <2>2. file \in Surjection(raw, names)
      <3>1. file \in [raw -> names]
        BY <2>1
      <3>2. \A f \in names : \E i \in raw : file[i] = f
        BY <2>1
      <3> HIDE DEF file, names
      <3> QED
        BY <3>1, <3>2 DEF Surjection
    <2>3. IsFiniteSet(raw)
      BY <1>1, <1>3, FS_BoundedSetOfNaturals
    <2> HIDE DEF names
    <2> QED
      BY <2>2, <2>3, FS_Surjection
  <1>8. IsFileSet(base)
    BY <1>6, <1>7 DEF IsFileSet
  <1>9. ASSUME NEW f \in names PROVE last(f) \in Current(uploads)
    <2>1. last(f) \in raw /\ IsLast(f, last(f)) /\ last(f) \in 1 .. n
      BY <1>3, <1>5
    <2>2. ASSUME NEW j \in last(f) + 1 .. Len(uploads), ~uploads[j].archive
          PROVE  DOMAIN uploads[j].files # DOMAIN uploads[last(f)].files
      <3>1. j \in raw /\ ~(j <= last(f))
        BY <1>1, <2>1, <2>2 DEF Raw, raw, n
      <3> QED
        BY <2>1, <3>1
    <2> QED
      BY <1>1, <2>1, <2>2 DEF Current
  <1>10. ASSUME NEW i \in raw, i \in Current(uploads), NEW f \in DOMAIN uploads[i].files
         PROVE  f \in names /\ last(f) = i
    <2>1. f \in names
      OBVIOUS
    <2>2. last(f) \in raw /\ IsLast(f, last(f))
      BY <1>5, <2>1
    <2>3. DOMAIN uploads[last(f)].files = DOMAIN uploads[i].files
      BY <1>4, <2>2
    <2>4. i <= last(f) /\ i \in Nat /\ last(f) \in 1 .. n
      BY <1>3, <2>2
    <2>5. ~uploads[i].archive /\ ~uploads[last(f)].archive
      BY <2>2 DEF raw, Raw
    <2>6. ~(last(f) \in i + 1 .. Len(uploads))
      BY <1>10, <2>3, <2>5 DEF Current
    <2> QED
      BY <1>1, <2>1, <2>4, <2>6 DEF n
  <1>11. SpecsOf(base) = UNION {SpecsOf(uploads[i].files) : i \in raw \cap Current(uploads)}
    <2>1. ASSUME NEW d \in SpecsOf(base)
          PROVE  \E i \in raw \cap Current(uploads) : d \in SpecsOf(uploads[i].files)
      <3>1. PICK f \in names : d \in ToSet(uploads[last(f)].files[f])
        BY DEF SpecsOf
      <3>2. f \in DOMAIN uploads[last(f)].files /\ last(f) \in raw \cap Current(uploads)
        BY <1>5, <1>9
      <3> QED
        BY <3>1, <3>2 DEF SpecsOf
    <2>2. ASSUME NEW i \in raw \cap Current(uploads), NEW d \in SpecsOf(uploads[i].files)
          PROVE  d \in SpecsOf(base)
      <3>1. PICK f \in DOMAIN uploads[i].files : d \in ToSet(uploads[i].files[f])
        BY DEF SpecsOf
      <3>2. f \in names /\ last(f) = i
        BY <1>10
      <3>3. base[f] = uploads[i].files[f]
        BY <3>2
      <3> QED
        BY <3>1, <3>2, <3>3 DEF SpecsOf
    <2> HIDE DEF base
    <2> QED
      BY <2>1, <2>2
  <1> QED
    BY <1>2, <1>8, <1>11 DEF raw

\* What a last upload loads: the specs of the files that count, those of a file
\* set in the order of their types.
LEMMA SessionTasks ==
    ASSUME NEW uploads \in Seq(Uploads), NEW todo \in OrderedSpecs(loadFileSets(uploads))
    PROVE  /\ todo \in Seq(Task)
           /\ InOrder(todo)
           /\ {t.spec : t \in ToSet(todo)} =
                  UNION {SpecsOf(uploads[i].files) : i \in Current(uploads)}
  <1> DEFINE base == BaseFileSet(uploads)
             archives == Archives(uploads)
             rest == IF DOMAIN base = {} THEN <<>> ELSE <<base>>
             sets == archives \o rest
             Files == {u.files : u \in Uploads} \cup {base}
             n == Len(sets)
             packed == {k \in DOMAIN uploads : uploads[k].archive}
  <1>1. loadFileSets(uploads) = sets
    BY DEF loadFileSets
  <1>2. \A f \in Files : IsFileSet(f)
    BY UploadFiles, BaseFiles
  <1>3. archives \in Seq(Files) /\ ToSet(archives) = {uploads[i].files : i \in packed}
    <2>1. archives \in Seq({u.files : u \in Uploads})
      BY ArchiveFiles
    <2>2. {u.files : u \in Uploads} \subseteq Files
      OBVIOUS
    <2>3. archives \in Seq(Files)
      <3> HIDE DEF Files, archives
      <3> QED
        BY <2>1, <2>2
    <2> QED
      BY <2>3, ArchiveFiles
  <1>4. rest \in Seq(Files) /\ UNION {SpecsOf(f) : f \in ToSet(rest)} = SpecsOf(base)
    <2>1. base \in Files
      OBVIOUS
    <2> HIDE DEF Files, base
    <2>2. CASE DOMAIN base = {}
      <3>1. ToSet(<<>>) = {}
        BY DEF ToSet
      <3> QED
        BY <2>2, <3>1 DEF SpecsOf
    <2>3. CASE DOMAIN base # {}
      <3>1. ToSet(<<base>>) = {base}
        BY DEF ToSet
      <3> QED
        BY <2>1, <2>3, <3>1
    <2> QED
      BY <2>2, <2>3
  <1> HIDE DEF Files, archives, rest, base
  <1>5. sets \in Seq(Files) /\ ToSet(sets) = ToSet(archives) \cup ToSet(rest)
    BY <1>3, <1>4, Concat, ConcatSet
  <1> HIDE DEF sets
  <1>6. n \in Nat /\ DOMAIN sets = 1 .. n /\ \A i \in 1 .. n : sets[i] \in Files
    BY <1>5
  <1>7. \A i \in 1 .. n : IsFileSet(sets[i])
    BY <1>2, <1>6
  <1>8. /\ todo \in Seq(Task)
        /\ InOrder(todo)
        /\ {t.spec : t \in ToSet(todo)} = UNION {SpecsOf(sets[i]) : i \in 1 .. n}
    <2> HIDE DEF n
    <2>1. todo \in OrderedSpecs(sets)
      BY <1>1
    <2> QED
      BY <1>6, <1>7, <2>1, OrderedTasks, Zenon
  <1>9. UNION {SpecsOf(sets[i]) : i \in 1 .. n} = UNION {SpecsOf(f) : f \in ToSet(sets)}
    BY <1>6 DEF ToSet
  <1>10. UNION {SpecsOf(f) : f \in ToSet(sets)}
             = (UNION {SpecsOf(f) : f \in ToSet(archives)}) \cup SpecsOf(base)
    BY <1>4, <1>5
  <1>11. UNION {SpecsOf(f) : f \in ToSet(archives)} = UNION {SpecsOf(uploads[i].files) : i \in packed}
    BY <1>3
  <1>12. SpecsOf(base) = UNION {SpecsOf(uploads[i].files) : i \in Raw(uploads) \cap Current(uploads)}
    BY BaseFiles DEF base
  <1>13. Current(uploads) = packed \cup (Raw(uploads) \cap Current(uploads))
    BY DEF Current, Raw
  <1> HIDE DEF packed
  <1>14. UNION {SpecsOf(uploads[i].files) : i \in Current(uploads)}
             = (UNION {SpecsOf(uploads[i].files) : i \in packed})
               \cup UNION {SpecsOf(uploads[i].files) : i \in Raw(uploads) \cap Current(uploads)}
    BY <1>13
  <1> QED
    BY <1>8, <1>9, <1>10, <1>11, <1>12, <1>14

-----------------------------------------------------------------------------
(* The inductive invariant.                                                *)

SessionFields == {"project", "uploads", "events", "holder"}

LoadingFields == {"pc", "session", "project", "todo", "writes"}

SessionShape(q) == /\ DOMAIN q = SessionFields
                   /\ q.project \in Projects
                   /\ q.holder \in Requests \cup {NoRequest}

LoadingShape(q) == /\ DOMAIN q = LoadingFields
                   /\ q.pc \in {"loading", "sending"}
                   /\ q.session \in SessionIds
                   /\ q.project \in Projects

Shape == /\ DOMAIN sessions \subseteq SessionIds
         /\ \A s \in DOMAIN sessions : SessionShape(sessions[s])
         /\ DOMAIN request = Requests
         /\ \A r \in Requests : \/ request[r] \in {Idle} \cup Incoming
                                \/ LoadingShape(request[r])

\* A request works in a session of its own project.
InSession == \A r \in Requests :
    request[r] # Idle => /\ request[r].session \in DOMAIN sessions
                         /\ sessions[request[r].session].project = request[r].project

\* Open transactions write different rows.
Disjoint == \A q, r \in Pending :
    q # r => DOMAIN request[q].writes \cap DOMAIN request[r].writes = {}

\* What the rows of a transaction refer to can be seen by it.
Resolved == \A r \in Pending :
    Referenced(request[r].writes) \subseteq DOMAIN request[r].writes \cup DOMAIN catalog

\* The rows of a transaction are of the project of the request.
OwnRows == \A r \in Pending : \A e \in DOMAIN request[r].writes :
    e[1] = request[r].project

\* The content that a transaction writes is queued in its session, or is what
\* the catalog holds.
Noted == \A r \in Pending : \A e \in DOMAIN request[r].writes :
    \/ <<e, request[r].writes[e].content>> \in sessions[request[r].session].events
    \/ e \in DOMAIN catalog /\ catalog[e].content = request[r].writes[e].content

\* What the catalog holds was announced, or a request is about to do so.
Sending(e) == \E r \in Requests :
    /\ request[r].pc = "sending"
    /\ <<e, catalog[e].content>> \in sessions[request[r].session].events

Told == \A e \in DOMAIN catalog :
    <<e, catalog[e].content>> \in announced \/ Sending(e)

UInv == /\ Shape
        /\ SessionLock
        /\ InSession
        /\ Disjoint
        /\ Resolved
        /\ OwnRows
        /\ Noted
        /\ Told
        /\ UploadedReferencesLead

-----------------------------------------------------------------------------
(* Initially.                                                              *)

LEMMA InitUInv == Init => UInv
  <1> SUFFICES ASSUME Init PROVE UInv
    OBVIOUS
  <1>1. Pending = {} /\ \A r \in Requests : request[r].pc = "idle"
    BY DEF Init, Pending, Idle
  <1>2. Shape /\ InSession
    BY DEF Init, Shape, InSession
  <1>3. SessionLock /\ Told /\ UploadedReferencesLead
    BY DEF Init, SessionLock, Told, UploadedReferencesLead, Referenced
  <1>4. Disjoint /\ Resolved /\ OwnRows /\ Noted
    BY <1>1 DEF Disjoint, Resolved, OwnRows, Noted
  <1> QED
    BY <1>2, <1>3, <1>4 DEF UInv

-----------------------------------------------------------------------------
(* Steps that write no rows and announce nothing.                          *)

\* What the invariant needs of a step of r that only moves r, with no open
\* transaction or a new one, and keeps what sessions have queued.
Moves(r) == /\ DOMAIN sessions \subseteq DOMAIN sessions'
            /\ \A s \in DOMAIN sessions : /\ sessions'[s].project = sessions[s].project
                                          /\ sessions'[s].events = sessions[s].events
            /\ \A q \in Requests \ {r} : request'[q] = request[q]
            /\ request[r].pc # "sending"
            /\ request'[r].pc # "sending"
            /\ request'[r].pc = "loading" => DOMAIN request'[r].writes = {}
            /\ UNCHANGED <<catalog, announced>>

LEMMA PendingMoves ==
    ASSUME NEW r \in Requests, Moves(r)
    PROVE  \A q \in Pending' : \/ q \in Pending /\ q # r /\ request'[q] = request[q]
                               \/ q = r /\ DOMAIN request'[q].writes = {}
  BY DEF Moves, Pending

LEMMA MovesKeep ==
    ASSUME UInv, NEW r \in Requests, Moves(r), Shape', SessionLock', InSession'
    PROVE  UInv'
  <1> USE PendingMoves
  <1>a. UNCHANGED <<catalog, announced>>
    BY DEF Moves
  <1>1. Disjoint'
    BY DEF UInv, Disjoint
  <1>2. Resolved'
    <2> SUFFICES ASSUME NEW q \in Pending'
                 PROVE  Referenced(request'[q].writes) \subseteq
                            DOMAIN request'[q].writes \cup DOMAIN catalog'
      BY DEF Resolved, Referenced
    <2>1. CASE q \in Pending /\ request'[q] = request[q]
      BY <1>a, <2>1 DEF UInv, Resolved
    <2>2. CASE DOMAIN request'[q].writes = {}
      BY <2>2 DEF Referenced
    <2> QED
      BY <2>1, <2>2
  <1>3. OwnRows'
    BY DEF UInv, OwnRows
  <1>4. Noted'
    <2> SUFFICES ASSUME NEW q \in Pending', NEW e \in DOMAIN request'[q].writes
                 PROVE  \/ <<e, request'[q].writes[e].content>>
                               \in sessions'[request'[q].session].events
                        \/ e \in DOMAIN catalog' /\ catalog'[e].content = request'[q].writes[e].content
      BY DEF Noted
    <2>1. q \in Pending /\ request'[q] = request[q]
      OBVIOUS
    <2>2. request[q].session \in DOMAIN sessions
      BY <2>1 DEF UInv, InSession, Pending, Idle
    <2> QED
      BY <1>a, <2>1, <2>2 DEF UInv, Noted, Moves
  <1>5. Told'
    <2> SUFFICES ASSUME NEW e \in DOMAIN catalog,
                        <<e, catalog[e].content>> \notin announced
                 PROVE  Sending(e)'
      BY <1>a DEF Told
    <2>1. PICK q \in Requests : /\ request[q].pc = "sending"
                                /\ <<e, catalog[e].content>> \in sessions[request[q].session].events
      BY DEF UInv, Told, Sending
    <2>2. request[q].session \in DOMAIN sessions /\ request'[q] = request[q]
      BY <2>1 DEF UInv, InSession, Moves, Idle
    <2> QED
      BY <1>a, <2>1, <2>2 DEF Sending, Moves
  <1>6. UploadedReferencesLead'
    BY <1>a DEF UInv, UploadedReferencesLead, Referenced
  <1> QED
    BY <1>1, <1>2, <1>3, <1>4, <1>5, <1>6 DEF UInv

\* What a request is, by its pc.
LEMMA RequestShape ==
    ASSUME Shape, NEW r \in Requests
    PROVE  /\ request[r].pc \in {"idle", "waiting", "locked", "loading", "sending"}
           /\ request[r].pc \in {"waiting", "locked"} => request[r] \in Incoming
           /\ request[r].pc \in {"loading", "sending"} => LoadingShape(request[r])
           /\ request[r].pc = "idle" <=> request[r] = Idle
  BY DEF Shape, Idle, Incoming, LoadingShape

\* A request that is served works in a session, in its own project.
LEMMA RequestSession ==
    ASSUME UInv, NEW r \in Requests, request[r].pc # "idle"
    PROVE  /\ request[r].session \in DOMAIN sessions
           /\ SessionShape(sessions[request[r].session])
           /\ sessions[request[r].session].project = request[r].project
  BY DEF UInv, InSession, Shape, Idle

LEMMA ArriveKeeps ==
    ASSUME UInv, NEW r \in Requests, NEW s \in SessionIds, NEW project \in Projects,
           NEW u \in Uploads, NEW last \in BOOLEAN,
           request[r] = Idle,
           request' = [request EXCEPT
               ![r] = [pc |-> "waiting", session |-> s, project |-> project,
                       upload |-> u, last |-> last]],
           DOMAIN sessions' = DOMAIN sessions \cup {s},
           \A t \in DOMAIN sessions : sessions'[t] = sessions[t],
           SessionShape(sessions'[s]), sessions'[s].project = project,
           s \notin DOMAIN sessions => sessions'[s].holder = NoRequest,
           UNCHANGED <<catalog, announced>>
    PROVE  UInv'
  <1> DEFINE q == [pc |-> "waiting", session |-> s, project |-> project,
                   upload |-> u, last |-> last]
  <1>1. q \in Incoming
    BY DEF Incoming
  <1>2. DOMAIN request = Requests /\ request' = [request EXCEPT ![r] = q]
    BY DEF UInv, Shape
  <1>3. /\ DOMAIN request' = Requests
        /\ request'[r] = q
        /\ \A p \in Requests \ {r} : request'[p] = request[p]
    BY <1>2
  <1>4. q.pc = "waiting" /\ q.session = s /\ q.project = project /\ request[r].pc = "idle"
    BY DEF Idle
  <1> HIDE DEF q
  <1>5. Moves(r)
    BY <1>3, <1>4 DEF Moves
  <1>6. Shape'
    BY <1>1, <1>3 DEF UInv, Shape, SessionShape, LoadingShape
  <1>7. SessionLock'
    <2> SUFFICES ASSUME NEW t \in DOMAIN sessions', NEW p \in Requests
                 PROVE  sessions'[t].holder = p <=>
                            /\ request'[p].pc \in {"locked", "loading", "sending"}
                            /\ request'[p].session = t
      BY DEF SessionLock
    <2>1. CASE t \in DOMAIN sessions /\ p # r
      BY <1>3, <2>1 DEF UInv, SessionLock
    <2>2. CASE t \in DOMAIN sessions /\ p = r
      BY <1>3, <1>4, <2>2 DEF UInv, SessionLock
    <2>3. CASE t \notin DOMAIN sessions
      <3>1. t = s /\ sessions'[t].holder = NoRequest /\ NoRequest # p
        BY <2>3, UploadsAreFiles
      <3>2. CASE p = r
        BY <1>3, <1>4, <3>1, <3>2
      <3>3. CASE p # r
        BY <1>3, <2>3, <3>1, <3>3 DEF UInv, InSession, Idle
      <3> QED
        BY <3>2, <3>3
    <2> QED
      BY <2>1, <2>2, <2>3
  <1>8. InSession'
    BY <1>3, <1>4 DEF UInv, InSession
  <1> QED
    BY <1>5, <1>6, <1>7, <1>8, MovesKeep

LEMMA NewSessionKeeps ==
    ASSUME UInv, NEW r \in Requests, NEW project \in Projects, NEW u \in Uploads,
           NEW last \in BOOLEAN, newSession(r, project, u, last)
    PROVE  UInv'
  <1>1. PICK s \in SessionIds \ DOMAIN sessions :
            /\ sessions' = Over(One(s, [project |-> project, uploads |-> <<>>,
                                        events |-> {}, holder |-> NoRequest]), sessions)
            /\ request' = [request EXCEPT
                   ![r] = [pc |-> "waiting", session |-> s, project |-> project,
                           upload |-> u, last |-> last]]
    BY DEF newSession
  <1> DEFINE x == [project |-> project, uploads |-> <<>>,
                   events |-> {}, holder |-> NoRequest]
  <1>2. SessionShape(x) /\ x.project = project /\ x.holder = NoRequest
    BY DEF SessionShape, SessionFields
  <1> HIDE DEF x
  <1>3. /\ DOMAIN sessions' = DOMAIN sessions \cup {s}
        /\ \A t \in DOMAIN sessions : sessions'[t] = sessions[t]
        /\ sessions'[s] = x
    BY <1>1 DEF Over, One, x
  <1>4. request[r] = Idle /\ UNCHANGED <<catalog, announced>>
    BY DEF newSession
  <1> QED
    BY <1>1, <1>2, <1>3, <1>4, ArriveKeeps

LEMMA GetSessionKeeps ==
    ASSUME UInv, NEW r \in Requests, NEW project \in Projects, NEW u \in Uploads,
           NEW last \in BOOLEAN, NEW s, getSession(r, project, s, u, last)
    PROVE  UInv'
  <1>1. s \in DOMAIN sessions /\ s \in SessionIds /\ SessionShape(sessions[s])
    BY DEF getSession, UInv, Shape
  <1> QED
    BY <1>1, ArriveKeeps DEF getSession

\* A step of a request only changes the session it works in, and not whose it
\* is.
Touches(s) == /\ DOMAIN sessions' = DOMAIN sessions
              /\ \A t \in DOMAIN sessions \ {s} : sessions'[t] = sessions[t]
              /\ SessionShape(sessions'[s])
              /\ sessions'[s].project = sessions[s].project

\* The request returns, and the lock is released.
Leaves(r) == /\ Touches(request[r].session)
             /\ sessions'[request[r].session].holder = NoRequest
             /\ request' = [request EXCEPT ![r] = Idle]

LEMMA LeavesKeep ==
    ASSUME UInv, NEW r \in Requests, Leaves(r),
           request[r].pc \in {"locked", "loading", "sending"}
    PROVE  Shape' /\ SessionLock' /\ InSession'
  <1> DEFINE s == request[r].session
  <1>1. /\ DOMAIN request' = Requests
        /\ request'[r] = Idle
        /\ \A p \in Requests \ {r} : request'[p] = request[p]
    BY DEF Leaves, UInv, Shape
  <1>2. s \in DOMAIN sessions /\ sessions[s].holder = r
    BY RequestSession DEF UInv, SessionLock
  <1>3. Idle.pc = "idle"
    BY DEF Idle
  <1>4. Shape'
    BY <1>1, <1>2 DEF Leaves, Touches, UInv, Shape, SessionShape, LoadingShape
  <1>5. SessionLock'
    <2> SUFFICES ASSUME NEW t \in DOMAIN sessions, NEW p \in Requests
                 PROVE  sessions'[t].holder = p <=>
                            /\ request'[p].pc \in {"locked", "loading", "sending"}
                            /\ request'[p].session = t
      BY DEF SessionLock, Leaves, Touches
    <2>1. CASE p = r
      <3>1. CASE t = s
        BY <1>1, <1>3, <2>1, <3>1, UploadsAreFiles DEF Leaves
      <3>2. CASE t # s
        BY <1>1, <1>3, <2>1, <3>2 DEF Leaves, Touches, UInv, SessionLock
      <3> QED
        BY <3>1, <3>2
    <2>2. CASE p # r
      <3>1. CASE t = s
        BY <1>1, <1>2, <2>2, <3>1, UploadsAreFiles DEF Leaves, UInv, SessionLock
      <3>2. CASE t # s
        BY <1>1, <2>2, <3>2 DEF Leaves, Touches, UInv, SessionLock
      <3> QED
        BY <3>1, <3>2
    <2> QED
      BY <2>1, <2>2
  <1>6. InSession'
    BY <1>1 DEF Leaves, Touches, UInv, InSession
  <1> QED
    BY <1>4, <1>5, <1>6

LEMMA LeavesMoves ==
    ASSUME UInv, NEW r \in Requests, Leaves(r), request[r].pc \in {"locked", "loading"},
           sessions'[request[r].session].events = sessions[request[r].session].events,
           UNCHANGED <<catalog, announced>>
    PROVE  UInv'
  <1>1. /\ request'[r].pc = "idle"
        /\ \A p \in Requests \ {r} : request'[p] = request[p]
    BY DEF Leaves, UInv, Shape, Idle
  <1>2. Moves(r)
    BY <1>1 DEF Moves, Leaves, Touches
  <1> QED
    BY <1>2, LeavesKeep, MovesKeep

LEMMA RefuseKeeps ==
    ASSUME UInv, NEW r \in Requests, RefuseUpload(r) \/ RollbackUpload(r)
    PROVE  UInv'
  <1>1. request[r].pc \in {"locked", "loading"} /\ UNCHANGED <<catalog, announced>>
    BY DEF RefuseUpload, RollbackUpload
  <1>2. /\ request' = [request EXCEPT ![r] = Idle]
        /\ sessions' = [sessions EXCEPT ![request[r].session].holder = NoRequest]
    BY DEF RefuseUpload, RollbackUpload
  <1>3. request[r].session \in DOMAIN sessions /\ SessionShape(sessions[request[r].session])
    BY <1>1, RequestSession
  <1>4. sessions'[request[r].session] =
            [sessions[request[r].session] EXCEPT !.holder = NoRequest]
    BY <1>2, <1>3
  <1>5. /\ SessionShape(sessions'[request[r].session])
        /\ sessions'[request[r].session].holder = NoRequest
        /\ sessions'[request[r].session].project = sessions[request[r].session].project
        /\ sessions'[request[r].session].events = sessions[request[r].session].events
    BY <1>3, <1>4 DEF SessionShape, SessionFields
  <1>6. Leaves(r)
    BY <1>2, <1>3, <1>5 DEF Leaves, Touches
  <1> QED
    BY <1>1, <1>5, <1>6, LeavesMoves

LEMMA AddUploadKeeps ==
    ASSUME UInv, NEW r \in Requests, AddUpload(r)
    PROVE  UInv'
  <1> DEFINE s == request[r].session
             uploads == Append(sessions[s].uploads, request[r].upload)
  <1>1. request[r].pc = "locked" /\ UNCHANGED <<catalog, announced>>
    BY DEF AddUpload
  <1>2. /\ request' = [request EXCEPT ![r] = Idle]
        /\ sessions' = [sessions EXCEPT ![s].uploads = uploads, ![s].holder = NoRequest]
    BY DEF AddUpload
  <1>3. s \in DOMAIN sessions /\ SessionShape(sessions[s])
    BY <1>1, RequestSession
  <1> HIDE DEF uploads
  <1>4. sessions'[s] = [[sessions[s] EXCEPT !.uploads = uploads] EXCEPT !.holder = NoRequest]
    BY <1>2, <1>3
  <1>5. /\ SessionShape(sessions'[s])
        /\ sessions'[s].holder = NoRequest
        /\ sessions'[s].project = sessions[s].project
        /\ sessions'[s].events = sessions[s].events
    BY <1>3, <1>4 DEF SessionShape, SessionFields
  <1>6. Leaves(r)
    BY <1>2, <1>3, <1>5 DEF Leaves, Touches
  <1> QED
    BY <1>1, <1>5, <1>6, LeavesMoves

\* The request goes on in its session, and holds the lock.
Stays(r) == /\ Touches(request[r].session)
            /\ sessions[request[r].session].holder \in {r, NoRequest}
            /\ sessions'[request[r].session].holder = r
            /\ DOMAIN request' = Requests
            /\ \A p \in Requests \ {r} : request'[p] = request[p]
            /\ request'[r] \in Incoming \/ LoadingShape(request'[r])
            /\ request'[r].pc \in {"locked", "loading", "sending"}
            /\ request'[r].session = request[r].session
            /\ request'[r].project = request[r].project

LEMMA StaysKeep ==
    ASSUME UInv, NEW r \in Requests, Stays(r), request[r].pc # "idle"
    PROVE  Shape' /\ SessionLock' /\ InSession'
  <1> DEFINE s == request[r].session
  <1>2. s \in DOMAIN sessions /\ sessions[s].project = request[r].project
    BY RequestSession
  <1>4. Shape'
    BY <1>2 DEF Stays, Touches, UInv, Shape, SessionShape, LoadingShape
  <1>5. SessionLock'
    <2> SUFFICES ASSUME NEW t \in DOMAIN sessions, NEW p \in Requests
                 PROVE  sessions'[t].holder = p <=>
                            /\ request'[p].pc \in {"locked", "loading", "sending"}
                            /\ request'[p].session = t
      BY DEF SessionLock, Stays, Touches
    <2>1. CASE p = r
      <3>1. CASE t = s
        BY <2>1, <3>1 DEF Stays
      <3>2. CASE t # s
        BY <2>1, <3>2 DEF Stays, Touches, UInv, SessionLock
      <3> QED
        BY <3>1, <3>2
    <2>2. CASE p # r
      <3>1. CASE t = s
        BY <1>2, <2>2, <3>1, UploadsAreFiles DEF Stays, UInv, SessionLock
      <3>2. CASE t # s
        BY <2>2, <3>2 DEF Stays, Touches, UInv, SessionLock
      <3> QED
        BY <3>1, <3>2
    <2> QED
      BY <2>1, <2>2
  <1>6. InSession'
    <2> SUFFICES ASSUME NEW p \in Requests, request'[p] # Idle
                 PROVE  /\ request'[p].session \in DOMAIN sessions'
                        /\ sessions'[request'[p].session].project = request'[p].project
      BY DEF InSession
    <2>1. CASE p = r
      BY <1>2, <2>1 DEF Stays, Touches
    <2>2. CASE p # r
      BY <2>2 DEF Stays, Touches, UInv, InSession
    <2> QED
      BY <2>1, <2>2
  <1> QED
    BY <1>4, <1>5, <1>6

LEMMA LockSessionKeeps ==
    ASSUME UInv, NEW r \in Requests, LockSession(r)
    PROVE  UInv'
  <1> DEFINE s == request[r].session
  <1>1. /\ request[r].pc = "waiting"
        /\ sessions[s].holder = NoRequest
        /\ sessions' = [sessions EXCEPT ![s].holder = r]
        /\ request' = [request EXCEPT ![r].pc = "locked"]
        /\ UNCHANGED <<catalog, announced>>
    BY DEF LockSession
  <1>2. s \in DOMAIN sessions /\ SessionShape(sessions[s]) /\ DOMAIN request = Requests
    BY <1>1, RequestSession DEF UInv, Shape
  <1>3. request[r] \in Incoming
    BY <1>1, RequestShape DEF UInv
  <1>4. sessions'[s] = [sessions[s] EXCEPT !.holder = r]
    BY <1>1, <1>2
  <1>5. /\ SessionShape(sessions'[s])
        /\ sessions'[s].holder = r
        /\ sessions'[s].project = sessions[s].project
        /\ sessions'[s].events = sessions[s].events
    BY <1>2, <1>4 DEF SessionShape, SessionFields
  <1>6. request'[r] = [request[r] EXCEPT !.pc = "locked"]
    BY <1>1, <1>2
  <1>7. /\ request'[r] \in Incoming
        /\ request'[r].pc = "locked"
        /\ request'[r].session = s
        /\ request'[r].project = request[r].project
    BY <1>3, <1>6 DEF Incoming
  <1>8. Stays(r)
    BY <1>1, <1>2, <1>5, <1>7 DEF Stays, Touches
  <1>9. Moves(r)
    BY <1>1, <1>2, <1>5, <1>7 DEF Moves
  <1> QED
    BY <1>1, <1>8, <1>9, StaysKeep, MovesKeep

LEMMA AddLastUploadKeeps ==
    ASSUME UInv, NEW r \in Requests, AddLastUpload(r)
    PROVE  UInv'
  <1> DEFINE s == request[r].session
             uploads == Append(sessions[s].uploads, request[r].upload)
             none == [e \in {} |-> {}]
  <1>1. /\ request[r].pc = "locked"
        /\ sessions' = [sessions EXCEPT ![s].uploads = uploads]
        /\ UNCHANGED <<catalog, announced>>
    BY DEF AddLastUpload
  <1>0. PICK todo \in OrderedSpecs(loadFileSets(uploads)) :
            request' = [request EXCEPT
                ![r] = [pc |-> "loading", session |-> s, project |-> request[r].project,
                        todo |-> todo, writes |-> none]]
    BY DEF AddLastUpload
  <1>2. s \in DOMAIN sessions /\ SessionShape(sessions[s]) /\ DOMAIN request = Requests
    BY <1>1, RequestSession DEF UInv, Shape
  <1>3. request[r] \in Incoming /\ sessions[s].holder = r
    BY <1>1, <1>2, RequestShape DEF UInv, SessionLock
  <1> HIDE DEF uploads
  <1>4. sessions'[s] = [sessions[s] EXCEPT !.uploads = uploads]
    BY <1>1, <1>2
  <1>5. /\ SessionShape(sessions'[s])
        /\ sessions'[s].holder = r
        /\ sessions'[s].project = sessions[s].project
        /\ sessions'[s].events = sessions[s].events
    BY <1>2, <1>3, <1>4 DEF SessionShape, SessionFields
  <1>6. request'[r] = [pc |-> "loading", session |-> s, project |-> request[r].project,
                       todo |-> todo, writes |-> none]
    BY <1>0, <1>2
  <1>7. /\ LoadingShape(request'[r])
        /\ request'[r].pc = "loading"
        /\ request'[r].session = s
        /\ request'[r].project = request[r].project
        /\ DOMAIN request'[r].writes = {}
    BY <1>3, <1>6 DEF Incoming, LoadingShape, LoadingFields
  <1>a. /\ DOMAIN request' = Requests
        /\ \A p \in Requests \ {r} : request'[p] = request[p]
    BY <1>0, <1>2
  <1>8. Stays(r)
    BY <1>1, <1>2, <1>3, <1>5, <1>7, <1>a DEF Stays, Touches
  <1>9. Moves(r)
    BY <1>1, <1>2, <1>5, <1>7, <1>a DEF Moves
  <1> QED
    BY <1>1, <1>8, <1>9, StaysKeep, MovesKeep

-----------------------------------------------------------------------------
(* The transaction.                                                        *)

\* The row that a load leaves: what it refers to is there when what it looks up
\* is and what the rows before refer to was; its content is the spec's, or that
\* of the row before when there is no event.
LEMMA LoadedRowFacts ==
    ASSUME NEW view, NEW e, NEW row, LookedUp(view, e, row) \subseteq DOMAIN view,
           e \in DOMAIN view => view[e].refs \subseteq DOMAIN view
    PROVE  LET new == LoadedRow(view, e, row)
           IN  /\ new.refs \subseteq DOMAIN view
               /\ new.kind = row.kind
               /\ \/ /\ Queued(view, e, row) = {<<e, row.content>>}
                     /\ new.content = row.content
                     /\ \/ new.ignored = row.ignored
                        \/ e \in DOMAIN view /\ row.ignored = {} /\ new.ignored = view[e].ignored
                  \/ /\ Queued(view, e, row) = {}
                     /\ KindAlone(view, e, row)
                     /\ new.content = view[e].content
                     /\ new.ignored = view[e].ignored
  <1>1. CASE KindAlone(view, e, row)
    BY <1>1 DEF LoadedRow, Queued, KindAlone
  <1>2. CASE ~KindAlone(view, e, row)
    BY <1>2 DEF LoadedRow, Queued, LookedUp
  <1> QED
    BY <1>1, <1>2

\* What a load leaves behind: the row in the writes of the request, which no
\* other transaction has written, and the event in the queue of the session
\* unless the content is what the transaction sees already.
LEMMA LoadSpecSteps ==
    ASSUME UInv, NEW r \in Requests, LoadSpec(r)
    PROVE  LET s == request[r].session
               d == Head(request[r].todo).spec
               e == EntityOf(sessions[s].project, d)
               row == RowOf(sessions[s].project, d)
               view == Over(request[r].writes, catalog)
               new == LoadedRow(view, e, row)
           IN  /\ Stays(r)
               /\ request[r].pc = "loading"
               /\ request'[r].pc = "loading"
               /\ request'[r].writes = Over(One(e, new), request[r].writes)
               /\ \A q \in Pending \ {r} : e \notin DOMAIN request[q].writes
               /\ new.refs \subseteq DOMAIN view
               /\ sessions[s].events \subseteq sessions'[s].events
               /\ \/ <<e, new.content>> \in sessions'[s].events
                  \/ e \in DOMAIN view /\ view[e].content = new.content
               /\ UNCHANGED <<catalog, announced>>
  <1> DEFINE s == request[r].session
             d == Head(request[r].todo).spec
             e == EntityOf(sessions[s].project, d)
             row == RowOf(sessions[s].project, d)
             view == Over(request[r].writes, catalog)
             new == LoadedRow(view, e, row)
             queued == Queued(view, e, row)
             w == Over(One(e, new), request[r].writes)
  <1>1. /\ request[r].pc = "loading"
        /\ LookedUp(view, e, row) \subseteq DOMAIN view
        /\ \A q \in Pending \ {r} : e \notin DOMAIN request[q].writes
        /\ sessions' = [sessions EXCEPT ![s].events = @ \cup queued]
        /\ request' = [request EXCEPT ![r].todo = Tail(@), ![r].writes = Over(One(e, new), @)]
        /\ UNCHANGED <<catalog, announced>>
    BY DEF LoadSpec
  <1>2. s \in DOMAIN sessions /\ SessionShape(sessions[s]) /\ DOMAIN request = Requests
    BY <1>1, RequestSession DEF UInv, Shape
  <1>3. LoadingShape(request[r]) /\ sessions[s].holder = r
    BY <1>1, <1>2, RequestShape DEF UInv, SessionLock
  <1> HIDE DEF e, row
  <1>b. e \in DOMAIN view => view[e].refs \subseteq DOMAIN view
    <2>1. r \in Pending
      BY <1>1 DEF Pending
    <2>2. /\ Referenced(request[r].writes) \subseteq DOMAIN view
          /\ Referenced(catalog) \subseteq DOMAIN view
      BY <2>1 DEF UInv, Resolved, UploadedReferencesLead, Over
    <2>3. CASE e \in DOMAIN request[r].writes
      <3>1. view[e] = request[r].writes[e]
        BY <2>3 DEF Over
      <3> QED
        BY <2>2, <2>3, <3>1 DEF Referenced
    <2>4. CASE e \in DOMAIN catalog /\ e \notin DOMAIN request[r].writes
      <3>1. view[e] = catalog[e]
        BY <2>4 DEF Over
      <3> QED
        BY <2>2, <2>4, <3>1 DEF Referenced
    <2> QED
      BY <2>3, <2>4 DEF Over
  <1> HIDE DEF view
  <1>c. /\ new.refs \subseteq DOMAIN view
        /\ \/ <<e, new.content>> \in queued
           \/ e \in DOMAIN view /\ new.content = view[e].content
    BY <1>1, <1>b, LoadedRowFacts DEF KindAlone
  <1> HIDE DEF new, queued
  <1>4. /\ DOMAIN request' = Requests
        /\ \A p \in Requests \ {r} : request'[p] = request[p]
        /\ request'[r] = [[request[r] EXCEPT !.todo = Tail(@)] EXCEPT !.writes = w]
    <2>1. "writes" \in DOMAIN request[r] /\ "todo" \in DOMAIN request[r]
      BY <1>3 DEF LoadingShape, LoadingFields
    <2> QED
      BY <1>1, <1>2, <2>1
  <1> HIDE DEF w
  <1>5. /\ LoadingShape(request'[r])
        /\ request'[r].pc = "loading"
        /\ request'[r].session = s
        /\ request'[r].project = request[r].project
        /\ request'[r].writes = w
    BY <1>1, <1>3, <1>4 DEF LoadingShape, LoadingFields
  <1>6. /\ Touches(s)
        /\ sessions'[s].holder = r
        /\ sessions'[s].events = sessions[s].events \cup queued
    <2>1. sessions'[s] = [sessions[s] EXCEPT !.events = @ \cup queued]
      BY <1>1, <1>2
    <2>2. /\ SessionShape(sessions'[s])
          /\ sessions'[s].project = sessions[s].project
          /\ sessions'[s].holder = sessions[s].holder
          /\ sessions'[s].events = sessions[s].events \cup queued
      BY <1>2, <2>1 DEF SessionShape, SessionFields
    <2> QED
      BY <1>1, <1>2, <1>3, <2>2 DEF Touches
  <1>7. Stays(r)
    BY <1>3, <1>4, <1>5, <1>6 DEF Stays
  <1>8. /\ sessions[s].events \subseteq sessions'[s].events
        /\ <<e, new.content>> \in sessions'[s].events \/ (e \in DOMAIN view /\ view[e].content = new.content)
    BY <1>6, <1>c
  <1> QED
    BY <1>1, <1>5, <1>7, <1>8, <1>c DEF e, row, view, new, w

LEMMA LoadSpecKeeps ==
    ASSUME UInv, NEW r \in Requests, LoadSpec(r)
    PROVE  UInv'
  <1> DEFINE s == request[r].session
             d == Head(request[r].todo).spec
             e == EntityOf(sessions[s].project, d)
             view == Over(request[r].writes, catalog)
             row == LoadedRow(view, e, RowOf(sessions[s].project, d))
             old == request[r].writes
             w == request'[r].writes
  <1>1. /\ Stays(r)
        /\ request[r].pc = "loading"
        /\ request'[r].pc = "loading"
        /\ w = Over(One(e, row), old)
        /\ \A q \in Pending \ {r} : e \notin DOMAIN request[q].writes
        /\ row.refs \subseteq DOMAIN view
        /\ sessions[s].events \subseteq sessions'[s].events
        /\ <<e, row.content>> \in sessions'[s].events \/ (e \in DOMAIN view /\ view[e].content = row.content)
        /\ UNCHANGED <<catalog, announced>>
    BY LoadSpecSteps
  <1>2. /\ r \in Pending /\ Pending' = Pending
        /\ \A q \in Pending \ {r} : request'[q] = request[q]
        /\ request'[r].session = s /\ request'[r].project = request[r].project
    BY <1>1 DEF Pending, Stays
  <1>3. e[1] = request[r].project
    BY <1>1, RequestSession DEF EntityOf
  <1> HIDE DEF e, row
  <1>4. /\ DOMAIN w = DOMAIN old \cup {e}
        /\ w[e] = row
        /\ \A f \in DOMAIN old \ {e} : w[f] = old[f]
    BY <1>1 DEF Over, One
  <1>5. /\ DOMAIN view = DOMAIN old \cup DOMAIN catalog
        /\ e \in DOMAIN old => view[e] = old[e]
        /\ e \in DOMAIN view /\ e \notin DOMAIN old => e \in DOMAIN catalog /\ view[e] = catalog[e]
    BY DEF Over
  <1> HIDE DEF view
  <1>6. /\ DOMAIN sessions' = DOMAIN sessions
        /\ \A t \in DOMAIN sessions : sessions[t].events \subseteq sessions'[t].events
    BY <1>1 DEF Stays, Touches
  <1>7. Disjoint'
    <2> SUFFICES ASSUME NEW p \in Pending, NEW q \in Pending, p # q
                 PROVE  DOMAIN request'[p].writes \cap DOMAIN request'[q].writes = {}
      BY <1>2 DEF Disjoint
    <2>1. DOMAIN request[p].writes \cap DOMAIN request[q].writes = {}
      BY DEF UInv, Disjoint
    <2> QED
      BY <1>1, <1>2, <1>4, <2>1
  <1>8. Resolved'
    <2> SUFFICES ASSUME NEW q \in Pending
                 PROVE  Referenced(request'[q].writes) \subseteq
                            DOMAIN request'[q].writes \cup DOMAIN catalog
      BY <1>1, <1>2 DEF Resolved, Referenced
    <2>1. Referenced(request[q].writes) \subseteq DOMAIN request[q].writes \cup DOMAIN catalog
      BY DEF UInv, Resolved
    <2>2. CASE q # r
      BY <1>2, <2>1, <2>2
    <2>3. CASE q = r
      <3>1. Referenced(w) \subseteq Referenced(old) \cup row.refs
        BY <1>4 DEF Referenced
      <3> QED
        BY <1>1, <1>4, <1>5, <2>1, <2>3, <3>1
    <2> QED
      BY <2>2, <2>3
  <1>9. OwnRows'
    <2> SUFFICES ASSUME NEW q \in Pending, NEW f \in DOMAIN request'[q].writes
                 PROVE  f[1] = request'[q].project
      BY <1>2 DEF OwnRows
    <2>1. CASE q # r
      BY <1>2, <2>1 DEF UInv, OwnRows
    <2>2. CASE q = r /\ f = e
      BY <1>2, <1>3, <2>2
    <2>3. CASE q = r /\ f # e
      BY <1>2, <1>4, <2>3 DEF UInv, OwnRows
    <2> QED
      BY <2>1, <2>2, <2>3
  <1>10. Noted'
    <2> SUFFICES ASSUME NEW q \in Pending, NEW f \in DOMAIN request'[q].writes
                 PROVE  \/ <<f, request'[q].writes[f].content>>
                               \in sessions'[request'[q].session].events
                        \/ f \in DOMAIN catalog /\ catalog[f].content = request'[q].writes[f].content
      BY <1>1, <1>2 DEF Noted
    <2>1. request[q].session \in DOMAIN sessions /\ request'[q].session = request[q].session
      BY <1>2, RequestSession DEF Pending
    <2>2. ASSUME f \in DOMAIN request[q].writes,
                 request'[q].writes[f].content = request[q].writes[f].content
          PROVE  \/ <<f, request'[q].writes[f].content>>
                        \in sessions'[request'[q].session].events
                 \/ f \in DOMAIN catalog /\ catalog[f].content = request'[q].writes[f].content
      <3>1. \/ <<f, request[q].writes[f].content>> \in sessions[request[q].session].events
            \/ f \in DOMAIN catalog /\ catalog[f].content = request[q].writes[f].content
        BY <2>2 DEF UInv, Noted
      <3> QED
        BY <1>6, <2>1, <2>2, <3>1
    <2>3. CASE q # r
      BY <1>2, <2>2, <2>3
    <2>4. CASE q = r /\ f # e
      BY <1>4, <2>2, <2>4
    <2>5. CASE q = r /\ f = e
      <3>1. CASE <<e, row.content>> \in sessions'[s].events
        BY <1>2, <1>4, <2>5, <3>1
      <3>2. CASE e \in DOMAIN view /\ view[e].content = row.content /\ e \in DOMAIN old
        BY <1>4, <1>5, <2>2, <2>5, <3>2
      <3>3. CASE e \in DOMAIN view /\ view[e].content = row.content /\ e \notin DOMAIN old
        BY <1>4, <1>5, <2>5, <3>3
      <3> QED
        BY <1>1, <3>1, <3>2, <3>3
    <2> QED
      BY <2>3, <2>4, <2>5
  <1>11. Told'
    <2> SUFFICES ASSUME NEW f \in DOMAIN catalog,
                        <<f, catalog[f].content>> \notin announced
                 PROVE  Sending(f)'
      BY <1>1 DEF Told
    <2>1. PICK q \in Requests : /\ request[q].pc = "sending"
                                /\ <<f, catalog[f].content>> \in sessions[request[q].session].events
      BY DEF UInv, Told, Sending
    <2>2. request'[q] = request[q]
      BY <1>1, <2>1 DEF Stays
    <2>3. request[q].session \in DOMAIN sessions
      BY <2>1, RequestSession
    <2> QED
      BY <1>1, <1>6, <2>1, <2>2, <2>3 DEF Sending
  <1>12. UploadedReferencesLead'
    BY <1>1 DEF UInv, UploadedReferencesLead, Referenced
  <1>13. Shape' /\ SessionLock' /\ InSession'
    BY <1>1, StaysKeep
  <1> QED
    BY <1>7, <1>8, <1>9, <1>10, <1>11, <1>12, <1>13 DEF UInv

LEMMA CommitKeeps ==
    ASSUME UInv, NEW r \in Requests, CommitUpload(r)
    PROVE  UInv'
  <1> DEFINE s == request[r].session
             w == request[r].writes
  <1>1. /\ request[r].pc = "loading"
        /\ catalog' = Over(w, catalog)
        /\ request' = [request EXCEPT ![r].pc = "sending"]
        /\ UNCHANGED <<sessions, announced>>
    BY DEF CommitUpload
  <1>2. s \in DOMAIN sessions /\ SessionShape(sessions[s]) /\ DOMAIN request = Requests
    BY <1>1, RequestSession DEF UInv, Shape
  <1>3. LoadingShape(request[r]) /\ sessions[s].holder = r
    BY <1>1, <1>2, RequestShape DEF UInv, SessionLock
  <1>4. /\ DOMAIN request' = Requests
        /\ \A p \in Requests \ {r} : request'[p] = request[p]
        /\ request'[r] = [request[r] EXCEPT !.pc = "sending"]
    BY <1>1, <1>2
  <1>5. /\ LoadingShape(request'[r])
        /\ request'[r].pc = "sending"
        /\ request'[r].session = s
        /\ request'[r].project = request[r].project
    BY <1>3, <1>4 DEF LoadingShape, LoadingFields
  <1>6. Stays(r)
    BY <1>1, <1>2, <1>3, <1>4, <1>5 DEF Stays, Touches
  <1>7. r \in Pending /\ Pending' = Pending \ {r}
    BY <1>1, <1>4, <1>5 DEF Pending
  <1>8. /\ DOMAIN catalog' = DOMAIN w \cup DOMAIN catalog
        /\ \A e \in DOMAIN w : catalog'[e] = w[e]
        /\ \A e \in DOMAIN catalog \ DOMAIN w : catalog'[e] = catalog[e]
    BY <1>1 DEF Over
  <1>9. Disjoint' /\ OwnRows'
    BY <1>4, <1>7 DEF UInv, Disjoint, OwnRows, Pending
  <1>10. Resolved'
    <2> SUFFICES ASSUME NEW q \in Pending \ {r}
                 PROVE  Referenced(request[q].writes) \subseteq
                            DOMAIN request[q].writes \cup DOMAIN catalog'
      BY <1>4, <1>7 DEF Resolved, Referenced, Pending
    <2> QED
      BY <1>8 DEF UInv, Resolved
  <1>11. Noted'
    <2> SUFFICES ASSUME NEW q \in Pending \ {r}, NEW e \in DOMAIN request[q].writes
                 PROVE  \/ <<e, request[q].writes[e].content>>
                               \in sessions[request[q].session].events
                        \/ e \in DOMAIN catalog' /\ catalog'[e].content = request[q].writes[e].content
      BY <1>1, <1>4, <1>7 DEF Noted, Pending
    <2>1. e \notin DOMAIN w
      BY <1>7 DEF UInv, Disjoint
    <2> QED
      BY <1>8, <2>1 DEF UInv, Noted
  <1>12. Told'
    <2> SUFFICES ASSUME NEW e \in DOMAIN catalog',
                        <<e, catalog'[e].content>> \notin announced
                 PROVE  \E q \in Requests :
                            /\ request'[q].pc = "sending"
                            /\ <<e, catalog'[e].content>> \in sessions[request'[q].session].events
      BY <1>1 DEF Told, Sending
    <2>1. CASE e \in DOMAIN w /\ <<e, w[e].content>> \in sessions[s].events
      BY <1>5, <1>8, <2>1
    <2>2. CASE e \in DOMAIN catalog /\ catalog'[e].content = catalog[e].content
      <3>1. PICK q \in Requests : /\ request[q].pc = "sending"
                                  /\ <<e, catalog[e].content>>
                                         \in sessions[request[q].session].events
        BY <2>2 DEF UInv, Told, Sending
      <3>2. request'[q] = request[q]
        BY <1>1, <1>4, <3>1
      <3> QED
        BY <2>2, <3>1, <3>2
    <2>3. CASE e \in DOMAIN w /\ <<e, w[e].content>> \notin sessions[s].events
      BY <1>7, <1>8, <2>2, <2>3 DEF UInv, Noted
    <2> QED
      BY <1>8, <2>1, <2>2, <2>3
  <1>13. UploadedReferencesLead'
    <2>1. Referenced(catalog') \subseteq Referenced(w) \cup Referenced(catalog)
      BY <1>8 DEF Referenced
    <2>2. Referenced(w) \subseteq DOMAIN w \cup DOMAIN catalog
      BY <1>7 DEF UInv, Resolved
    <2>3. Referenced(catalog) \subseteq DOMAIN catalog
      BY DEF UInv, UploadedReferencesLead
    <2>4. Referenced(catalog') \subseteq DOMAIN catalog'
      BY <1>8, <2>1, <2>2, <2>3
    <2> QED
      BY <2>4 DEF UploadedReferencesLead, Referenced
  <1>14. Shape' /\ SessionLock' /\ InSession'
    BY <1>1, <1>6, StaysKeep
  <1> QED
    BY <1>9, <1>10, <1>11, <1>12, <1>13, <1>14 DEF UInv

LEMMA SendKeeps ==
    ASSUME UInv, NEW r \in Requests, SendEvents(r)
    PROVE  UInv'
  <1> DEFINE s == request[r].session
  <1>1. /\ request[r].pc = "sending"
        /\ announced' = announced \cup sessions[s].events
        /\ sessions' = [sessions EXCEPT ![s].holder = NoRequest]
        /\ request' = [request EXCEPT ![r] = Idle]
        /\ UNCHANGED catalog
    BY DEF SendEvents
  <1>2. s \in DOMAIN sessions /\ SessionShape(sessions[s]) /\ DOMAIN request = Requests
    BY <1>1, RequestSession DEF UInv, Shape
  <1>3. sessions'[s] = [sessions[s] EXCEPT !.holder = NoRequest]
    BY <1>1, <1>2
  <1>4. /\ SessionShape(sessions'[s])
        /\ sessions'[s].holder = NoRequest
        /\ sessions'[s].project = sessions[s].project
        /\ sessions'[s].events = sessions[s].events
    BY <1>2, <1>3 DEF SessionShape, SessionFields
  <1>5. Leaves(r)
    BY <1>1, <1>2, <1>4 DEF Leaves, Touches
  <1>6. /\ request'[r].pc = "idle"
        /\ \A p \in Requests \ {r} : request'[p] = request[p]
    BY <1>1, <1>2 DEF Idle
  <1>7. Pending' = Pending /\ r \notin Pending
    BY <1>1, <1>6 DEF Pending
  <1>8. \A t \in DOMAIN sessions : sessions'[t].events = sessions[t].events
    BY <1>4, <1>5 DEF Leaves, Touches
  <1>9. Disjoint' /\ OwnRows'
    BY <1>6, <1>7 DEF UInv, Disjoint, OwnRows, Pending
  <1>10. Resolved'
    <2> SUFFICES ASSUME NEW q \in Pending
                 PROVE  Referenced(request[q].writes) \subseteq
                            DOMAIN request[q].writes \cup DOMAIN catalog
      BY <1>1, <1>6, <1>7 DEF Resolved, Referenced, Pending
    <2> QED
      BY DEF UInv, Resolved
  <1>11. Noted'
    <2> SUFFICES ASSUME NEW q \in Pending, NEW e \in DOMAIN request[q].writes
                 PROVE  \/ <<e, request[q].writes[e].content>>
                               \in sessions'[request[q].session].events
                        \/ e \in DOMAIN catalog /\ catalog[e].content = request[q].writes[e].content
      BY <1>1, <1>6, <1>7 DEF Noted, Pending
    <2>1. request[q].session \in DOMAIN sessions
      BY RequestSession DEF Pending
    <2> QED
      BY <1>8, <2>1 DEF UInv, Noted
  <1>12. Told'
    <2> SUFFICES ASSUME NEW e \in DOMAIN catalog,
                        <<e, catalog[e].content>> \notin announced'
                 PROVE  Sending(e)'
      BY <1>1 DEF Told
    <2>1. PICK q \in Requests : /\ request[q].pc = "sending"
                                /\ <<e, catalog[e].content>> \in sessions[request[q].session].events
      BY <1>1 DEF UInv, Told, Sending
    <2>2. q # r
      BY <1>1, <2>1
    <2>3. request[q].session \in DOMAIN sessions
      BY <2>1, RequestSession
    <2> QED
      BY <1>1, <1>6, <1>8, <2>1, <2>2, <2>3 DEF Sending
  <1>13. UploadedReferencesLead'
    BY <1>1 DEF UInv, UploadedReferencesLead, Referenced
  <1>14. Shape' /\ SessionLock' /\ InSession'
    BY <1>1, <1>5, LeavesKeep
  <1> QED
    BY <1>9, <1>10, <1>11, <1>12, <1>13, <1>14 DEF UInv

LEMMA DeleteKeeps ==
    ASSUME UInv, NEW e, DeleteEntity(e)
    PROVE  UInv'
  <1>1. /\ e \notin Referenced(catalog)
        /\ \A r \in Pending : /\ e \notin DOMAIN request[r].writes
                              /\ e \notin Referenced(request[r].writes)
        /\ UNCHANGED <<sessions, request, announced>>
    BY DEF DeleteEntity
  <1>2. /\ DOMAIN catalog' = DOMAIN catalog \ {e}
        /\ \A f \in DOMAIN catalog' : catalog'[f] = catalog[f]
    BY DEF DeleteEntity
  <1>3. Pending' = Pending
    BY <1>1 DEF Pending
  <1>4. Shape' /\ SessionLock' /\ InSession' /\ Disjoint' /\ OwnRows'
    BY <1>1, <1>3 DEF UInv, Shape, SessionLock, InSession, Disjoint, OwnRows
  <1>5. Resolved'
    <2> SUFFICES ASSUME NEW r \in Pending
                 PROVE  Referenced(request[r].writes) \subseteq
                            DOMAIN request[r].writes \cup DOMAIN catalog'
      BY <1>1, <1>3 DEF Resolved, Referenced
    <2> QED
      BY <1>1, <1>2 DEF UInv, Resolved
  <1>6. Noted'
    BY <1>1, <1>2, <1>3 DEF UInv, Noted
  <1>7. Told'
    BY <1>1, <1>2 DEF UInv, Told, Sending
  <1>8. UploadedReferencesLead'
    <2>1. Referenced(catalog') \subseteq Referenced(catalog)
      BY <1>2 DEF Referenced
    <2>2. Referenced(catalog') \subseteq DOMAIN catalog'
      BY <1>1, <1>2, <2>1 DEF UInv, UploadedReferencesLead
    <2> QED
      BY <2>2 DEF UploadedReferencesLead, Referenced
  <1> QED
    BY <1>4, <1>5, <1>6, <1>7, <1>8 DEF UInv

LEMMA StutterKeeps == UInv /\ UNCHANGED vars => UInv'
  BY DEF vars, UInv, Shape, SessionLock, InSession, Disjoint, Resolved, OwnRows, Noted,
         Told, Sending, Pending, Referenced, UploadedReferencesLead

-----------------------------------------------------------------------------
(* The theorems.                                                           *)

LEMMA NextUInv == UInv /\ [Next]_vars => UInv'
  <1> SUFFICES ASSUME UInv, [Next]_vars PROVE UInv'
    OBVIOUS
  <1>1. CASE UNCHANGED vars
    BY <1>1, StutterKeeps
  <1>2. ASSUME NEW r \in Requests, Arrive(r) PROVE UInv'
    <2>1. PICK project \in Projects, u \in Uploads, last \in BOOLEAN :
              \/ newSession(r, project, u, last)
              \/ \E s \in DOMAIN sessions : getSession(r, project, s, u, last)
      BY <1>2 DEF Arrive
    <2> QED
      BY <2>1, NewSessionKeeps, GetSessionKeeps
  <1>3. ASSUME NEW r \in Requests, Serve(r) PROVE UInv'
    BY <1>3, LockSessionKeeps, RefuseKeeps, AddUploadKeeps, AddLastUploadKeeps,
       LoadSpecKeeps, CommitKeeps, SendKeeps DEF Serve
  <1>4. ASSUME NEW e \in DOMAIN catalog, DeleteEntity(e) PROVE UInv'
    BY <1>4, DeleteKeeps
  <1> QED
    BY <1>1, <1>2, <1>3, <1>4 DEF Next

THEOREM UploadInductive == Spec => []UInv
  BY InitUInv, NextUInv, PTL DEF Spec

\* The lock of a session: whoever is past session.lock.Lock() and has not
\* returned holds it, and nobody else does (UploadCatalogEntities).
THEOREM SessionsAreLocked == Spec => []SessionLock
  <1>1. UInv => SessionLock
    BY DEF UInv
  <1> QED
    BY <1>1, UploadInductive, PTL

\* What the rows of uploads refer to is in the catalog, whatever is uploaded at
\* once and deleted in between (the reads of loadApplication and
\* loadDeploymentPackage, and the row locks of their transaction).
THEOREM ReferencesLead == Spec => []UploadedReferencesLead
  <1>1. UInv => UploadedReferencesLead
    BY DEF UInv
  <1> QED
    BY <1>1, UploadInductive, PTL

\* What the catalog holds was announced unless a request is about to do so,
\* through failed attempts, updates that change nothing and other sessions
\* (the queues of a session, sendToAll after the commit).
THEOREM Announced == Spec => []CommittedIsAnnounced
  <1>1. UInv => CommittedIsAnnounced
    BY DEF UInv, Told, Sending, CommittedIsAnnounced
  <1> QED
    BY <1>1, UploadInductive, PTL

\* A commit only changes entities of the project that the last upload was sent
\* for (getSession, and the session's project in the load methods).
THEOREM InOneProject == Spec => UploadsStayInProject
  <1> DEFINE Change(e) == e \in DOMAIN catalog => catalog'[e] # catalog[e]
             Own(e) == \E r \in Requests : request[r].pc = "loading" /\ request[r].project = e[1]
             Stay == \A e \in DOMAIN catalog' : Change(e) => Own(e)
  <1>1. UInv /\ [Next]_vars => [Stay]_vars
    <2> SUFFICES ASSUME UInv, Next, NEW e \in DOMAIN catalog', Change(e)
                 PROVE  Own(e)
      OBVIOUS
    <2>1. catalog' # catalog
      OBVIOUS
    <2>2. CASE \E f \in DOMAIN catalog : DeleteEntity(f)
      BY <2>2 DEF DeleteEntity
    <2>3. CASE \E r \in Requests : CommitUpload(r)
      <3>1. PICK r \in Requests : CommitUpload(r)
        BY <2>3
      <3>2. /\ r \in Pending
            /\ e \in DOMAIN request[r].writes
        BY <3>1 DEF CommitUpload, Over, Pending
      <3> QED
        BY <3>2 DEF UInv, OwnRows, Pending
    <2> QED
      BY <2>1, <2>2, <2>3, ZenonT(40) DEF Next, Arrive, Serve, newSession, getSession, LockSession,
         RefuseUpload, AddUpload, AddLastUpload, LoadSpec, RollbackUpload, SendEvents
  <1>2. [][Stay]_vars <=> UploadsStayInProject
    BY DEF UploadsStayInProject
  <1> QED
    BY <1>1, <1>2, UploadInductive, PTL DEF Spec

-----------------------------------------------------------------------------
(* Types, the order of loading, and what a transaction loads.              *)

SessionTypes == \A s \in DOMAIN sessions : sessions[s] \in Session

Tasks(r) == /\ request[r].todo \in Seq(Task)
            /\ InOrder(request[r].todo)
            /\ Rows(request[r].writes)

RequestTypes == \A r \in Requests : request[r].pc \in {"loading", "sending"} => Tasks(r)

DataTypes == Rows(catalog) /\ announced \subseteq Entity \X Content

\* What the specs that are left to load say of entities.
Left(r) == {<<EntityOf(request[r].project, t.spec), Face(t.spec)>> : t \in ToSet(request[r].todo)}

\* The content of a written row is what the catalog holds, and nothing that was
\* loaded counts as a change of it.
Stayed(r, e) ==
    /\ HasKind(e)
    /\ e \in DOMAIN catalog
    /\ request[r].writes[e].content = catalog[e].content
    /\ \A x \in Uploaded(request[r].session) \ Left(r) :
           x[1] = e => ~changed(catalog[e].content, x[2].content)

\* Where a written row has its kind, content and ignored resources from.
Written(r, e) ==
    LET row == request[r].writes[e]
        said == {x \in Uploaded(request[r].session) : x[1] = e}
    IN  /\ \E x \in said : row.kind = x[2].kind
        /\ (\E x \in said : row.content = x[2].content) \/ Stayed(r, e)
        /\ \/ \E x \in said : row.ignored = x[2].ignored
           \/ /\ e \in DOMAIN catalog
              /\ row.ignored = catalog[e].ignored
              /\ Stayed(r, e) \/ \E x \in said : x[2].ignored = {}

\* What the transaction has written and has left to load is what the files of
\* its session describe.
WholeSession(r) ==
    /\ Left(r) \subseteq Uploaded(request[r].session)
    /\ \A e \in DOMAIN request[r].writes : Written(r, e)
    /\ \A x \in Uploaded(request[r].session) \ Left(r) : x[1] \in DOMAIN request[r].writes

Whole == \A r \in Pending : WholeSession(r)

TInv == SessionTypes /\ RequestTypes /\ DataTypes /\ Whole

LEMMA InitTInv == Init => TInv
  <1> SUFFICES ASSUME Init PROVE TInv
    OBVIOUS
  <1>1. Pending = {} /\ \A r \in Requests : request[r].pc = "idle"
    BY DEF Init, Pending, Idle
  <1>2. SessionTypes /\ DataTypes
    BY DEF Init, SessionTypes, DataTypes, Rows
  <1> QED
    BY <1>1, <1>2 DEF TInv, RequestTypes, Whole

\* What a session describes changes with its uploads only.
LEMMA UploadedSame ==
    ASSUME NEW s, sessions'[s].uploads = sessions[s].uploads,
           sessions'[s].project = sessions[s].project
    PROVE  Uploaded(s)' = Uploaded(s)
  BY DEF Uploaded

LEMMA WholeSame ==
    ASSUME NEW r, request'[r] = request[r], WholeSession(r),
           sessions'[request[r].session].uploads = sessions[request[r].session].uploads,
           sessions'[request[r].session].project = sessions[request[r].session].project,
           \A e \in DOMAIN request[r].writes \cap DOMAIN catalog :
               e \in DOMAIN catalog' /\ catalog'[e] = catalog[e]
    PROVE  WholeSession(r)'
  <1>1. Uploaded(request[r].session)' = Uploaded(request[r].session)
    BY UploadedSame
  <1>2. Left(r)' = Left(r)
    BY DEF Left
  <1>3. ASSUME NEW e \in DOMAIN request[r].writes PROVE Written(r, e)'
    <2>1. Written(r, e)
      BY DEF WholeSession
    <2>2. Stayed(r, e) => Stayed(r, e)'
      BY <1>1, <1>2 DEF Stayed
    <2> QED
      BY <1>1, <2>1, <2>2 DEF Written
  <1> QED
    BY <1>1, <1>2, <1>3 DEF WholeSession

\* A step of r that leaves the session of any other transaction its uploads.
LEMMA TypesKeep ==
    ASSUME UInv, UInv', TInv, NEW r \in Requests, SessionTypes', DataTypes',
           \A q \in Requests \ {r} : request'[q] = request[q],
           request'[r].pc \in {"loading", "sending"} => Tasks(r)',
           \A q \in Pending \ {r} :
               /\ sessions'[request[q].session].uploads = sessions[request[q].session].uploads
               /\ \A e \in DOMAIN request[q].writes \cap DOMAIN catalog :
                     e \in DOMAIN catalog' /\ catalog'[e] = catalog[e],
           r \in Pending' => WholeSession(r)'
    PROVE  TInv'
  <1>1. RequestTypes'
    <2> SUFFICES ASSUME NEW q \in Requests, request'[q].pc \in {"loading", "sending"}
                 PROVE  Tasks(q)'
      BY DEF RequestTypes
    <2>1. CASE q = r
      BY <2>1
    <2>2. CASE q # r
      <3>1. request'[q] = request[q]
        BY <2>2
      <3>2. Tasks(q)
        BY <3>1 DEF TInv, RequestTypes
      <3> QED
        BY <3>1, <3>2 DEF Tasks
    <2> QED
      BY <2>1, <2>2
  <1>2. Whole'
    <2> SUFFICES ASSUME NEW q \in Pending' PROVE WholeSession(q)'
      BY DEF Whole
    <2>1. CASE q = r
      BY <2>1
    <2>2. CASE q # r
      <3>1. q \in Requests /\ request'[q] = request[q] /\ q \in Pending /\ request[q].pc = "loading"
        BY <2>2 DEF Pending
      <3>2. sessions'[request[q].session].project = sessions[request[q].session].project
        BY <3>1 DEF UInv, InSession, Idle
      <3> QED
        BY <2>2, <3>1, <3>2, WholeSame DEF TInv, Whole
    <2> QED
      BY <2>1, <2>2
  <1> QED
    BY <1>1, <1>2 DEF TInv

\* Nobody else works in the session of a request that holds its lock.
LEMMA OthersElsewhere ==
    ASSUME UInv, NEW r \in Requests, request[r].pc \in {"locked", "loading", "sending"},
           NEW q \in Pending \ {r}
    PROVE  request[q].session # request[r].session /\ request[q].session \in DOMAIN sessions
  <1>1. q \in Requests /\ request[q].pc = "loading"
    BY DEF Pending
  <1>2. /\ request[q].session \in DOMAIN sessions
        /\ request[r].session \in DOMAIN sessions
    BY <1>1, RequestSession
  <1>3. sessions[request[q].session].holder = q /\ sessions[request[r].session].holder = r
    BY <1>1, <1>2 DEF UInv, SessionLock
  <1> QED
    BY <1>2, <1>3

LEMMA ArriveTypes ==
    ASSUME UInv, UInv', TInv, NEW r \in Requests, Arrive(r)
    PROVE  TInv'
  <1>1. PICK project \in Projects, u \in Uploads, last \in BOOLEAN :
            \/ newSession(r, project, u, last)
            \/ \E s \in DOMAIN sessions : getSession(r, project, s, u, last)
    BY DEF Arrive
  <1>2. PICK s : request' = [request EXCEPT
                    ![r] = [pc |-> "waiting", session |-> s, project |-> project,
                            upload |-> u, last |-> last]]
    BY <1>1 DEF newSession, getSession
  <1>3. /\ request'[r].pc = "waiting"
        /\ \A q \in Requests \ {r} : request'[q] = request[q]
    BY <1>2 DEF UInv, Shape
  <1>4. SessionTypes' /\ \A t \in DOMAIN sessions : sessions'[t] = sessions[t]
    <2>1. CASE newSession(r, project, u, last)
      <3>1. PICK t \in SessionIds \ DOMAIN sessions :
                sessions' = Over(One(t, [project |-> project, uploads |-> <<>>,
                                         events |-> {}, holder |-> NoRequest]), sessions)
        BY <2>1 DEF newSession
      <3> DEFINE x == [project |-> project, uploads |-> <<>>,
                       events |-> {}, holder |-> NoRequest]
      <3>2. x \in Session
        BY DEF Session
      <3> HIDE DEF x
      <3>3. /\ DOMAIN sessions' = DOMAIN sessions \cup {t}
            /\ \A v \in DOMAIN sessions : sessions'[v] = sessions[v]
            /\ sessions'[t] = x
        BY <3>1 DEF Over, One, x
      <3> QED
        BY <3>2, <3>3 DEF TInv, SessionTypes
    <2>2. CASE \E t \in DOMAIN sessions : getSession(r, project, t, u, last)
      BY <2>2 DEF getSession, TInv, SessionTypes
    <2> QED
      BY <1>1, <2>1, <2>2
  <1>5. UNCHANGED <<catalog, announced>>
    BY <1>1 DEF newSession, getSession
  <1>6. DataTypes'
    BY <1>5 DEF TInv, DataTypes, Rows
  <1>7. \A q \in Pending \ {r} :
            sessions'[request[q].session].uploads = sessions[request[q].session].uploads
    BY <1>4, RequestSession DEF Pending
  <1> QED
    BY <1>3, <1>4, <1>5, <1>6, <1>7, TypesKeep DEF Pending

\* Steps that only change the lock of the session, or what has become of r.
LEMMA QuietTypes ==
    ASSUME UInv, UInv', TInv, NEW r \in Requests,
           LockSession(r) \/ RefuseUpload(r) \/ RollbackUpload(r)
    PROVE  TInv'
  <1> DEFINE s == request[r].session
  <1>1. /\ request[r].pc \in {"waiting", "locked", "loading"}
        /\ UNCHANGED <<catalog, announced>>
    BY DEF LockSession, RefuseUpload, RollbackUpload
  <1>2. PICK h \in Requests \cup {NoRequest} : sessions' = [sessions EXCEPT ![s].holder = h]
    BY DEF LockSession, RefuseUpload, RollbackUpload
  <1>3. s \in DOMAIN sessions /\ sessions[s] \in Session
    BY <1>1, RequestSession DEF TInv, SessionTypes
  <1>4. sessions'[s] = [sessions[s] EXCEPT !.holder = h]
    BY <1>2, <1>3
  <1>5. sessions'[s] \in Session /\ sessions'[s].uploads = sessions[s].uploads
    BY <1>3, <1>4 DEF Session
  <1>6. /\ SessionTypes'
        /\ \A t \in DOMAIN sessions : sessions'[t].uploads = sessions[t].uploads
    BY <1>2, <1>5 DEF TInv, SessionTypes
  <1>7. /\ request'[r].pc \in {"locked", "idle"}
        /\ \A q \in Requests \ {r} : request'[q] = request[q]
    <2>1. DOMAIN request = Requests /\ Idle.pc = "idle"
      BY DEF UInv, Shape, Idle
    <2>2. CASE LockSession(r)
      <3>1. request[r] \in Incoming
        BY <2>2, RequestShape DEF UInv, LockSession
      <3>2. request'[r] = [request[r] EXCEPT !.pc = "locked"]
        BY <2>1, <2>2 DEF LockSession
      <3>3. request'[r].pc = "locked"
        BY <3>1, <3>2 DEF Incoming
      <3> QED
        BY <2>1, <2>2, <3>3 DEF LockSession
    <2>3. CASE RefuseUpload(r) \/ RollbackUpload(r)
      BY <2>1, <2>3 DEF RefuseUpload, RollbackUpload
    <2> QED
      BY <2>2, <2>3
  <1>8. DataTypes'
    BY <1>1 DEF TInv, DataTypes, Rows
  <1>9. \A q \in Pending \ {r} :
            sessions'[request[q].session].uploads = sessions[request[q].session].uploads
    BY <1>6, RequestSession DEF Pending
  <1>10. r \notin Pending'
    BY <1>7 DEF Pending
  <1> QED
    BY <1>1, <1>6, <1>7, <1>8, <1>9, <1>10, TypesKeep

LEMMA AddUploadTypes ==
    ASSUME UInv, UInv', TInv, NEW r \in Requests, AddUpload(r)
    PROVE  TInv'
  <1> DEFINE s == request[r].session
             uploads == Append(sessions[s].uploads, request[r].upload)
  <1>1. /\ request[r].pc = "locked"
        /\ sessions' = [sessions EXCEPT ![s].uploads = uploads, ![s].holder = NoRequest]
        /\ request' = [request EXCEPT ![r] = Idle]
        /\ UNCHANGED <<catalog, announced>>
    BY DEF AddUpload
  <1>2. s \in DOMAIN sessions /\ sessions[s] \in Session /\ request[r] \in Incoming
    BY <1>1, RequestSession, RequestShape DEF UInv, TInv, SessionTypes
  <1>3. uploads \in Seq(Uploads)
    BY <1>2 DEF Session, Incoming
  <1> HIDE DEF uploads
  <1>4. sessions'[s] = [[sessions[s] EXCEPT !.uploads = uploads] EXCEPT !.holder = NoRequest]
    BY <1>1, <1>2
  <1>5. sessions'[s] \in Session
    BY <1>2, <1>3, <1>4 DEF Session
  <1>6. /\ SessionTypes'
        /\ \A t \in DOMAIN sessions \ {s} : sessions'[t] = sessions[t]
    BY <1>1, <1>5 DEF TInv, SessionTypes
  <1>7. /\ request'[r].pc = "idle"
        /\ \A q \in Requests \ {r} : request'[q] = request[q]
    BY <1>1 DEF UInv, Shape, Idle
  <1>8. DataTypes'
    BY <1>1 DEF TInv, DataTypes, Rows
  <1>9. \A q \in Pending \ {r} :
            sessions'[request[q].session].uploads = sessions[request[q].session].uploads
    BY <1>1, <1>6, OthersElsewhere
  <1>10. r \notin Pending'
    BY <1>7 DEF Pending
  <1> QED
    BY <1>1, <1>6, <1>7, <1>8, <1>9, <1>10, TypesKeep

LEMMA AddLastUploadTypes ==
    ASSUME UInv, UInv', TInv, NEW r \in Requests, AddLastUpload(r)
    PROVE  TInv'
  <1> DEFINE s == request[r].session
             uploads == Append(sessions[s].uploads, request[r].upload)
             none == [e \in {} |-> {}]
  <1>1. /\ request[r].pc = "locked"
        /\ sessions' = [sessions EXCEPT ![s].uploads = uploads]
        /\ UNCHANGED <<catalog, announced>>
    BY DEF AddLastUpload
  <1>2. PICK todo \in OrderedSpecs(loadFileSets(uploads)) :
            request' = [request EXCEPT
                ![r] = [pc |-> "loading", session |-> s, project |-> request[r].project,
                        todo |-> todo, writes |-> none]]
    BY DEF AddLastUpload
  <1>3. s \in DOMAIN sessions /\ sessions[s] \in Session /\ request[r] \in Incoming
    BY <1>1, RequestSession, RequestShape DEF UInv, TInv, SessionTypes
  <1>4. uploads \in Seq(Uploads)
    BY <1>3 DEF Session, Incoming
  <1> HIDE DEF uploads
  <1>5. sessions'[s] = [sessions[s] EXCEPT !.uploads = uploads]
    BY <1>1, <1>3
  <1>6. /\ sessions'[s] \in Session
        /\ sessions'[s].uploads = uploads
        /\ sessions'[s].project = sessions[s].project
    BY <1>3, <1>4, <1>5 DEF Session
  <1>7. /\ SessionTypes'
        /\ \A t \in DOMAIN sessions \ {s} : sessions'[t] = sessions[t]
    BY <1>1, <1>6 DEF TInv, SessionTypes
  <1>8. /\ request'[r] = [pc |-> "loading", session |-> s, project |-> request[r].project,
                          todo |-> todo, writes |-> none]
        /\ \A q \in Requests \ {r} : request'[q] = request[q]
    BY <1>2 DEF UInv, Shape
  <1>9. /\ request'[r].session = s
        /\ request'[r].project = request[r].project
        /\ request'[r].todo = todo
        /\ DOMAIN request'[r].writes = {}
    BY <1>8
  <1>10. /\ todo \in Seq(Task)
         /\ InOrder(todo)
         /\ {t.spec : t \in ToSet(todo)} =
                UNION {SpecsOf(uploads[i].files) : i \in Current(uploads)}
    BY <1>4, SessionTasks
  <1>11. Tasks(r)'
    BY <1>9, <1>10 DEF Tasks, Rows
  <1>12. DataTypes'
    BY <1>1 DEF TInv, DataTypes, Rows
  <1>13. \A q \in Pending \ {r} :
             sessions'[request[q].session].uploads = sessions[request[q].session].uploads
    BY <1>1, <1>7, OthersElsewhere
  <1>14. WholeSession(r)'
    <2>0. PICK t, project : t = s /\ project = request[r].project
      OBVIOUS
    <2> DEFINE specs == {x.spec : x \in ToSet(todo)}
    <2>1. sessions'[t].project = project /\ sessions'[t].uploads = uploads
      BY <1>1, <1>6, <2>0, RequestSession
    <2>2. Uploaded(t)' = {<<EntityOf(sessions'[t].project, d), Face(d)>> :
                             d \in UNION {SpecsOf(sessions'[t].uploads[i].files) :
                                             i \in Current(sessions'[t].uploads)}}
      BY DEF Uploaded, SpecsOf
    <2>3. Uploaded(t)' = {<<EntityOf(project, d), Face(d)>> : d \in specs}
      <3>1. UNION {SpecsOf(sessions'[t].uploads[i].files) : i \in Current(sessions'[t].uploads)}
                = specs
        BY <1>10, <2>1
      <3> QED
        BY <2>1, <2>2, <3>1
    <2>4. Left(r)' = Uploaded(t)'
      BY <1>9, <2>0, <2>3 DEF Left
    <2> QED
      BY <1>9, <2>0, <2>4 DEF WholeSession
  <1> QED
    BY <1>1, <1>7, <1>8, <1>11, <1>12, <1>13, <1>14, TypesKeep

\* The specs left to load, but for the first.
LEMMA TailTasks ==
    ASSUME NEW todo \in Seq(Task), todo # <<>>, InOrder(todo)
    PROVE  /\ Head(todo) \in Task
           /\ Tail(todo) \in Seq(Task)
           /\ InOrder(Tail(todo))
           /\ ToSet(todo) = {Head(todo)} \cup ToSet(Tail(todo))
  <1> DEFINE n == Len(todo)
             q == Tail(todo)
  <1>1. n \in Nat /\ n # 0 /\ DOMAIN todo = 1 .. n
    OBVIOUS
  <1>2. Head(todo) = todo[1] /\ todo[1] \in Task
    OBVIOUS
  <1>3. /\ q \in Seq(Task) /\ Len(q) = n - 1
        /\ \A i \in 1 .. n - 1 : q[i] = todo[i + 1]
    OBVIOUS
  <1> HIDE DEF q, n
  <1>4. DOMAIN q = 1 .. n - 1
    BY <1>3
  <1>5. InOrder(q)
    <2> SUFFICES ASSUME NEW i \in 1 .. n - 1, NEW j \in 1 .. n - 1, i < j, q[i].set = q[j].set
                 PROVE  ~TypeBefore(q[j].spec, q[i].spec)
      BY <1>4 DEF InOrder
    <2>1. i + 1 \in DOMAIN todo /\ j + 1 \in DOMAIN todo /\ i + 1 < j + 1
      BY <1>1
    <2>2. q[i] = todo[i + 1] /\ q[j] = todo[j + 1]
      BY <1>3
    <2> QED
      BY <2>1, <2>2 DEF InOrder
  <1>6. ToSet(todo) = {todo[1]} \cup ToSet(q)
    <2>1. ASSUME NEW k \in 1 .. n PROVE todo[k] \in {todo[1]} \cup ToSet(q)
      <3>1. CASE k = 1
        BY <3>1
      <3>2. CASE k # 1
        <4>1. k - 1 \in 1 .. n - 1 /\ (k - 1) + 1 = k
          BY <1>1, <3>2
        <4>2. q[k - 1] = todo[k]
          BY <1>3, <4>1
        <4> QED
          BY <1>4, <4>1, <4>2 DEF ToSet
      <3> QED
        BY <3>1, <3>2
    <2>2. \A k \in 1 .. n - 1 : k + 1 \in 1 .. n
      BY <1>1
    <2>3. 1 \in 1 .. n
      BY <1>1
    <2> QED
      <3>1. ToSet(todo) \subseteq {todo[1]} \cup ToSet(q)
        BY <1>1, <2>1 DEF ToSet
      <3>2. \A k \in 1 .. n - 1 : q[k] \in ToSet(todo)
        BY <1>1, <1>3, <2>2 DEF ToSet
      <3>3. ToSet(q) \subseteq ToSet(todo)
        BY <1>4, <3>2 DEF ToSet
      <3>4. todo[1] \in ToSet(todo)
        BY <1>1, <2>3 DEF ToSet
      <3> QED
        BY <3>1, <3>3, <3>4
  <1> QED
    BY <1>2, <1>3, <1>5, <1>6 DEF q

\* Entities and rows of specs.
LEMMA SpecTypes ==
    ASSUME NEW project \in Projects, NEW d \in YamlSpec
    PROVE  /\ EntityOf(project, d) \in Entity
           /\ RowOf(project, d) \in Row
           /\ Face(RowOf(project, d)) = Face(d)
  <1>1. /\ d.type \in Types /\ d.name \in Nat /\ d.kind \in Nat /\ d.content \in Content
        /\ d.ignored \in SUBSET Nat /\ d.refs \subseteq Types \X Nat
    BY DEF YamlSpec, Key
  <1>2. \A ref \in d.refs : ref[1] \in Types /\ ref[2] \in Nat
    BY <1>1
  <1>3. {<<project, ref[1], ref[2]>> : ref \in d.refs} \subseteq Entity
    BY <1>2 DEF Entity
  <1> QED
    BY <1>1, <1>3 DEF EntityOf, RowOf, Row, Entity, Face

\* A loaded row is a row.
LEMMA LoadedRowType ==
    ASSUME NEW view, Rows(view), NEW e, NEW row \in Row
    PROVE  LoadedRow(view, e, row) \in Row
  <1> DEFINE from == IF KindAlone(view, e, row) THEN view[e] ELSE row
             ignored == IF e \in DOMAIN view /\ from.ignored = {} THEN view[e].ignored
                        ELSE from.ignored
  <1>1. e \in DOMAIN view => view[e] \in Row
    BY DEF Rows
  <1>2. from \in Row
    BY <1>1 DEF KindAlone
  <1>3. LoadedRow(view, e, row) = [kind |-> row.kind, content |-> from.content,
                                   refs |-> from.refs, ignored |-> ignored]
    BY DEF LoadedRow
  <1> HIDE DEF from
  <1>4. /\ row.kind \in Nat /\ from.content \in Content
        /\ from.refs \in SUBSET Entity /\ from.ignored \in SUBSET Nat
    BY <1>2 DEF Row
  <1>5. ignored \in SUBSET Nat
    BY <1>1, <1>4 DEF Row
  <1> HIDE DEF ignored
  <1> QED
    BY <1>3, <1>4, <1>5 DEF Row

\* A row that a transaction has written, after the load of a spec of another
\* entity.
LEMMA WrittenStays ==
    ASSUME NEW r, NEW f, Written(r, f), request'[r].session = request[r].session,
           Uploaded(request[r].session)' = Uploaded(request[r].session), UNCHANGED catalog,
           request'[r].writes[f] = request[r].writes[f],
           \A x \in Left(r) : x[1] = f => x \in Left(r)'
    PROVE  Written(r, f)'
  <1>1. Stayed(r, f) => Stayed(r, f)'
    BY DEF Stayed
  <1> QED
    BY <1>1 DEF Written

LEMMA LoadSpecTypes ==
    ASSUME UInv, UInv', TInv, NEW r \in Requests, LoadSpec(r)
    PROVE  TInv'
  <1> DEFINE s == request[r].session
             project == request[r].project
             todo == request[r].todo
             old == request[r].writes
             d == Head(todo).spec
             e == EntityOf(sessions[s].project, d)
             row == RowOf(sessions[s].project, d)
             view == Over(old, catalog)
             new == LoadedRow(view, e, row)
             queued == Queued(view, e, row)
             w == Over(One(e, new), old)
             x == <<e, Face(d)>>
  <1>1. /\ request[r].pc = "loading"
        /\ todo # <<>>
        /\ LookedUp(view, e, row) \subseteq DOMAIN view
        /\ sessions' = [sessions EXCEPT ![s].events = @ \cup queued]
        /\ request' = [request EXCEPT ![r].todo = Tail(@), ![r].writes = Over(One(e, new), @)]
        /\ UNCHANGED <<catalog, announced>>
    BY DEF LoadSpec
  <1>2. /\ s \in DOMAIN sessions /\ sessions[s] \in Session /\ sessions[s].project = project
        /\ project \in Projects
    BY <1>1, RequestSession DEF TInv, SessionTypes, Session
  <1>3. LoadingShape(request[r]) /\ DOMAIN request = Requests
    BY <1>1, RequestShape DEF UInv, Shape
  <1>4. todo \in Seq(Task) /\ InOrder(todo) /\ Rows(old)
    BY <1>1 DEF TInv, RequestTypes, Tasks
  <1>5. /\ Head(todo) \in Task
        /\ Tail(todo) \in Seq(Task)
        /\ InOrder(Tail(todo))
        /\ ToSet(todo) = {Head(todo)} \cup ToSet(Tail(todo))
    BY <1>1, <1>4, TailTasks
  <1>6. /\ e \in Entity /\ row \in Row /\ e = EntityOf(project, d)
        /\ row.kind = x[2].kind /\ row.content = x[2].content /\ row.ignored = x[2].ignored
    <2>1. d \in YamlSpec
      BY <1>5 DEF Task
    <2>2. x[2] = [kind |-> d.kind, content |-> d.content, ignored |-> d.ignored]
      BY DEF Face
    <2> HIDE DEF d
    <2>3. e \in Entity /\ row \in Row /\ e = EntityOf(project, d)
      BY <1>2, <2>1, SpecTypes
    <2>4. row.kind = d.kind /\ row.content = d.content /\ row.ignored = d.ignored
      BY DEF RowOf
    <2> QED
      BY <2>2, <2>3, <2>4
  <1>7. x[1] = e /\ x = <<EntityOf(project, Head(todo).spec), Face(Head(todo).spec)>>
    BY <1>6
  <1> HIDE DEF e, row, x
  <1>a. /\ DOMAIN view = DOMAIN old \cup DOMAIN catalog
        /\ \A f \in DOMAIN view : view[f] = IF f \in DOMAIN old THEN old[f] ELSE catalog[f]
    BY DEF Over
  <1> HIDE DEF view
  <1>b. Rows(view)
    BY <1>4, <1>a DEF TInv, DataTypes, Rows
  <1>c. new \in Row
    BY <1>6, <1>b, LoadedRowType
  <1>d. e \in DOMAIN view => view[e].refs \subseteq DOMAIN view
    <2>1. /\ Referenced(old) \subseteq DOMAIN view
          /\ Referenced(catalog) \subseteq DOMAIN view
      BY <1>1, <1>a DEF UInv, Resolved, UploadedReferencesLead, Pending
    <2> QED
      BY <1>a, <2>1 DEF Referenced
  <1>e. /\ new.kind = row.kind
        /\ \/ /\ queued = {<<e, row.content>>}
              /\ new.content = row.content
              /\ \/ new.ignored = row.ignored
                 \/ e \in DOMAIN view /\ row.ignored = {} /\ new.ignored = view[e].ignored
           \/ /\ queued = {}
              /\ HasKind(e) /\ e \in DOMAIN view
              /\ ~changed(view[e].content, row.content)
              /\ new.content = view[e].content
              /\ new.ignored = view[e].ignored
    BY <1>1, <1>d, LoadedRowFacts DEF KindAlone
  <1> HIDE DEF new, queued
  <1>8. /\ \A q \in Requests \ {r} : request'[q] = request[q]
        /\ request'[r] = [[request[r] EXCEPT !.todo = Tail(todo)] EXCEPT !.writes = w]
    <2>1. "writes" \in DOMAIN request[r] /\ "todo" \in DOMAIN request[r]
      BY <1>3 DEF LoadingShape, LoadingFields
    <2> QED
      BY <1>1, <1>3, <2>1
  <1>9. /\ DOMAIN w = DOMAIN old \cup {e}
        /\ w[e] = new
        /\ \A f \in DOMAIN old \ {e} : w[f] = old[f]
    BY DEF Over, One
  <1> HIDE DEF w
  <1>10. /\ request'[r].pc = "loading"
         /\ request'[r].session = s
         /\ request'[r].project = project
         /\ request'[r].todo = Tail(todo)
         /\ request'[r].writes = w
    BY <1>1, <1>3, <1>8 DEF LoadingShape, LoadingFields
  <1>11. Tasks(r)'
    BY <1>4, <1>5, <1>6, <1>9, <1>10, <1>c DEF Tasks, Rows
  <1>12. /\ SessionTypes'
         /\ \A t \in DOMAIN sessions : /\ sessions'[t].uploads = sessions[t].uploads
                                       /\ sessions'[t].project = sessions[t].project
    <2>1. sessions'[s] = [sessions[s] EXCEPT !.events = @ \cup queued]
      BY <1>1, <1>2
    <2>2. queued \subseteq Entity \X Content
      BY <1>6, <1>e DEF Row
    <2>3. /\ sessions'[s] \in Session
          /\ sessions'[s].uploads = sessions[s].uploads
          /\ sessions'[s].project = sessions[s].project
      BY <1>2, <2>1, <2>2 DEF Session
    <2> QED
      BY <1>1, <2>3 DEF TInv, SessionTypes
  <1>13. DataTypes'
    BY <1>1 DEF TInv, DataTypes, Rows
  <1>14. \A q \in Pending \ {r} :
             /\ sessions'[request[q].session].uploads = sessions[request[q].session].uploads
             /\ \A f \in DOMAIN request[q].writes \cap DOMAIN catalog :
                   f \in DOMAIN catalog' /\ catalog'[f] = catalog[f]
    BY <1>1, <1>12, RequestSession DEF Pending
  <1>15. WholeSession(r)'
    <2> DEFINE up == Uploaded(s)
               said == {y \in up : y[1] = e}
    <2>0. PICK v, g : v = s /\ g = e
      OBVIOUS
    <2>1. Uploaded(v)' = Uploaded(v)
      BY <1>2, <1>12, <2>0, UploadedSame
    <2>2. /\ Left(r) \subseteq up
          /\ \A f \in DOMAIN old : Written(r, f)
          /\ \A y \in up \ Left(r) : y[1] \in DOMAIN old
      BY <1>1 DEF TInv, Whole, WholeSession, Pending
    <2>3. Left(r) = {x} \cup Left(r)'
      <3>1. Left(r)' = {<<EntityOf(project, t.spec), Face(t.spec)>> : t \in ToSet(Tail(todo))}
        BY <1>10 DEF Left
      <3>2. Left(r) = {<<EntityOf(project, t.spec), Face(t.spec)>> : t \in ToSet(todo)}
        BY DEF Left
      <3> QED
        BY <1>5, <1>7, <3>1, <3>2
    <2>4. x \in said
      BY <1>7, <2>2, <2>3
    <2>5. Stayed(r, g)' <=>
              /\ HasKind(e)
              /\ e \in DOMAIN catalog
              /\ new.content = catalog[e].content
              /\ \A y \in up \ Left(r)' : y[1] = e => ~changed(catalog[e].content, y[2].content)
      BY <1>1, <1>9, <1>10, <2>0, <2>1 DEF Stayed
    <2>6. Written(r, g)' <=>
              /\ \E y \in said : new.kind = y[2].kind
              /\ (\E y \in said : new.content = y[2].content) \/ Stayed(r, g)'
              /\ \/ \E y \in said : new.ignored = y[2].ignored
                 \/ /\ e \in DOMAIN catalog
                    /\ new.ignored = catalog[e].ignored
                    /\ Stayed(r, g)' \/ \E y \in said : y[2].ignored = {}
      BY <1>1, <1>9, <1>10, <2>0, <2>1 DEF Written
    <2>7. e \in DOMAIN old =>
              /\ (\E y \in said : old[e].content = y[2].content) \/ Stayed(r, e)
              /\ \/ \E y \in said : old[e].ignored = y[2].ignored
                 \/ /\ e \in DOMAIN catalog
                    /\ old[e].ignored = catalog[e].ignored
                    /\ Stayed(r, e) \/ \E y \in said : y[2].ignored = {}
      BY <2>2 DEF Written
    <2>8. Stayed(r, e) <=>
              /\ HasKind(e)
              /\ e \in DOMAIN catalog
              /\ old[e].content = catalog[e].content
              /\ \A y \in up \ Left(r) : y[1] = e => ~changed(catalog[e].content, y[2].content)
      BY DEF Stayed
    <2>9. e \notin DOMAIN old => \A y \in up \ Left(r) : y[1] # e
      BY <2>2
    <2> HIDE DEF up
    <2>10. Written(r, g)'
      <3>1. CASE /\ HasKind(e) /\ e \in DOMAIN view
                 /\ ~changed(view[e].content, row.content)
                 /\ new.content = view[e].content
                 /\ new.ignored = view[e].ignored
        <4>1. CASE e \in DOMAIN old
          <5>1. view[e] = old[e]
            BY <1>a, <4>1
          <5>2. Stayed(r, e) => Stayed(r, g)'
            BY <1>6, <2>3, <2>5, <2>8, <3>1, <5>1
          <5>3. new.kind = x[2].kind
            BY <1>6, <1>e
          <5> QED
            BY <2>4, <2>6, <2>7, <3>1, <4>1, <5>1, <5>2, <5>3
        <4>2. CASE e \notin DOMAIN old
          <5>1. e \in DOMAIN catalog /\ view[e] = catalog[e]
            BY <1>a, <3>1, <4>2
          <5>2. Stayed(r, g)'
            BY <1>6, <2>3, <2>5, <2>9, <3>1, <4>2, <5>1
          <5>3. new.kind = x[2].kind
            BY <1>6, <1>e
          <5> QED
            BY <2>4, <2>6, <3>1, <5>1, <5>2, <5>3
        <4> QED
          BY <4>1, <4>2
      <3>2. CASE new.content = row.content
        <4>1. new.kind = x[2].kind /\ new.content = x[2].content
          BY <1>6, <1>e, <3>2
        <4>2. CASE new.ignored = row.ignored
          <5>1. new.ignored = x[2].ignored
            BY <1>6, <4>2
          <5> QED
            BY <2>4, <2>6, <4>1, <5>1
        <4>3. CASE e \in DOMAIN view /\ row.ignored = {} /\ new.ignored = view[e].ignored
          <5>1. x[2].ignored = {}
            BY <1>6, <4>3
          <5>2. CASE e \in DOMAIN old
            <6>1. new.ignored = old[e].ignored
              BY <1>a, <4>3, <5>2
            <6> QED
              BY <2>4, <2>6, <2>7, <4>1, <5>1, <5>2, <6>1
          <5>3. CASE e \notin DOMAIN old
            <6>1. e \in DOMAIN catalog /\ new.ignored = catalog[e].ignored
              BY <1>a, <4>3, <5>3
            <6> QED
              BY <2>4, <2>6, <4>1, <5>1, <6>1
          <5> QED
            BY <5>2, <5>3
        <4>4. CASE /\ HasKind(e) /\ e \in DOMAIN view
                   /\ ~changed(view[e].content, row.content)
                   /\ new.content = view[e].content
                   /\ new.ignored = view[e].ignored
          BY <3>1, <4>4
        <4> QED
          BY <1>e, <4>2, <4>3, <4>4
      <3> QED
        BY <1>e, <3>1, <3>2
    <2>11. ASSUME NEW f \in DOMAIN old \ {e} PROVE Written(r, f)'
      <3>1. Written(r, f) /\ w[f] = old[f]
        BY <1>9, <2>2
      <3>2. \A y \in Left(r) : y[1] = f => y \in Left(r)'
        BY <1>7, <2>3
      <3>3. Uploaded(request[r].session)' = Uploaded(request[r].session)
        BY <1>10, <2>0, <2>1
      <3> QED
        BY <1>1, <1>10, <3>1, <3>2, <3>3, WrittenStays
    <2>12. \A y \in up \ Left(r)' : y[1] \in DOMAIN w
      BY <1>7, <1>9, <2>2, <2>3 DEF up
    <2>13. Left(r)' \subseteq up
      BY <2>2, <2>3 DEF up
    <2> QED
      BY <1>9, <1>10, <2>0, <2>1, <2>10, <2>11, <2>12, <2>13 DEF WholeSession, up
  <1> QED
    BY <1>8, <1>11, <1>12, <1>13, <1>14, <1>15, TypesKeep

LEMMA CommitTypes ==
    ASSUME UInv, UInv', TInv, NEW r \in Requests, CommitUpload(r)
    PROVE  TInv'
  <1> DEFINE w == request[r].writes
  <1>1. /\ request[r].pc = "loading"
        /\ catalog' = Over(w, catalog)
        /\ request' = [request EXCEPT ![r].pc = "sending"]
        /\ UNCHANGED <<sessions, announced>>
    BY DEF CommitUpload
  <1>2. LoadingShape(request[r]) /\ DOMAIN request = Requests
    BY <1>1, RequestShape DEF UInv, Shape
  <1>3. /\ \A q \in Requests \ {r} : request'[q] = request[q]
        /\ request'[r] = [request[r] EXCEPT !.pc = "sending"]
    BY <1>1, <1>2
  <1>4. request'[r].pc = "sending" /\ request'[r].todo = request[r].todo /\ request'[r].writes = w
    BY <1>2, <1>3 DEF LoadingShape, LoadingFields
  <1>5. Tasks(r)
    BY <1>1 DEF TInv, RequestTypes
  <1>6. Tasks(r)'
    BY <1>4, <1>5 DEF Tasks
  <1>7. /\ DOMAIN catalog' = DOMAIN w \cup DOMAIN catalog
        /\ \A e \in DOMAIN w : catalog'[e] = w[e]
        /\ \A e \in DOMAIN catalog \ DOMAIN w : catalog'[e] = catalog[e]
    BY <1>1 DEF Over
  <1>8. DataTypes'
    BY <1>1, <1>5, <1>7 DEF TInv, DataTypes, Tasks, Rows
  <1>9. SessionTypes' /\ r \notin Pending'
    BY <1>1, <1>4 DEF TInv, SessionTypes, Pending
  <1>10. \A q \in Pending \ {r} : \A e \in DOMAIN request[q].writes \cap DOMAIN catalog :
             e \in DOMAIN catalog' /\ catalog'[e] = catalog[e]
    BY <1>1, <1>7 DEF UInv, Disjoint, Pending
  <1> QED
    BY <1>1, <1>3, <1>6, <1>8, <1>9, <1>10, TypesKeep

LEMMA SendTypes ==
    ASSUME UInv, UInv', TInv, NEW r \in Requests, SendEvents(r)
    PROVE  TInv'
  <1> DEFINE s == request[r].session
  <1>1. /\ request[r].pc = "sending"
        /\ announced' = announced \cup sessions[s].events
        /\ sessions' = [sessions EXCEPT ![s].holder = NoRequest]
        /\ request' = [request EXCEPT ![r] = Idle]
        /\ UNCHANGED catalog
    BY DEF SendEvents
  <1>2. s \in DOMAIN sessions /\ sessions[s] \in Session
    BY <1>1, RequestSession DEF TInv, SessionTypes
  <1>3. sessions'[s] = [sessions[s] EXCEPT !.holder = NoRequest]
    BY <1>1, <1>2
  <1>4. sessions'[s] \in Session /\ sessions'[s].uploads = sessions[s].uploads
    BY <1>2, <1>3 DEF Session
  <1>5. /\ SessionTypes'
        /\ \A t \in DOMAIN sessions : sessions'[t].uploads = sessions[t].uploads
    BY <1>1, <1>4 DEF TInv, SessionTypes
  <1>6. /\ request'[r].pc = "idle"
        /\ \A q \in Requests \ {r} : request'[q] = request[q]
    BY <1>1 DEF UInv, Shape, Idle
  <1>7. DataTypes'
    BY <1>1, <1>2 DEF TInv, DataTypes, Rows, Session
  <1>8. \A q \in Pending \ {r} :
            sessions'[request[q].session].uploads = sessions[request[q].session].uploads
    BY <1>5, RequestSession DEF Pending
  <1>9. r \notin Pending'
    BY <1>6 DEF Pending
  <1> QED
    BY <1>1, <1>5, <1>6, <1>7, <1>8, <1>9, TypesKeep

\* Whole speaks of sessions, requests, and the catalog where rows are written.
LEMMA WholeUnchanged ==
    ASSUME Whole, UNCHANGED <<sessions, request>>,
           \A r \in Pending : \A e \in DOMAIN request[r].writes \cap DOMAIN catalog :
               e \in DOMAIN catalog' /\ catalog'[e] = catalog[e]
    PROVE  Whole'
  <1>1. Pending' = Pending
    BY DEF Pending
  <1>2. ASSUME NEW r \in Pending PROVE WholeSession(r)'
    BY WholeSame DEF Whole
  <1> QED
    BY <1>1, <1>2 DEF Whole

LEMMA DeleteTypes ==
    ASSUME TInv, NEW e, DeleteEntity(e)
    PROVE  TInv'
  <1>1. UNCHANGED <<sessions, request, announced>>
    BY DEF DeleteEntity
  <1>2. /\ DOMAIN catalog' = DOMAIN catalog \ {e}
        /\ \A f \in DOMAIN catalog' : catalog'[f] = catalog[f]
    BY DEF DeleteEntity
  <1>3. SessionTypes' /\ RequestTypes' /\ DataTypes'
    BY <1>1, <1>2 DEF TInv, SessionTypes, RequestTypes, Tasks, DataTypes, Rows
  <1>4. Whole'
    <2>1. \A r \in Pending : e \notin DOMAIN request[r].writes
      BY DEF DeleteEntity
    <2> QED
      BY <1>1, <1>2, <2>1, WholeUnchanged DEF TInv
  <1> QED
    BY <1>3, <1>4 DEF TInv

LEMMA NextTInv == UInv /\ UInv' /\ TInv /\ [Next]_vars => TInv'
  <1> SUFFICES ASSUME UInv, UInv', TInv, [Next]_vars PROVE TInv'
    OBVIOUS
  <1>1. CASE UNCHANGED vars
    <2>1. UNCHANGED <<sessions, request, catalog, announced>>
      BY <1>1 DEF vars
    <2>2. SessionTypes' /\ RequestTypes' /\ DataTypes'
      BY <2>1 DEF TInv, SessionTypes, RequestTypes, Tasks, DataTypes, Rows
    <2>3. Whole'
      BY <2>1, WholeUnchanged DEF TInv
    <2> QED
      BY <2>2, <2>3 DEF TInv
  <1>2. ASSUME NEW r \in Requests, Arrive(r) PROVE TInv'
    BY <1>2, ArriveTypes
  <1>3. ASSUME NEW r \in Requests, Serve(r) PROVE TInv'
    BY <1>3, QuietTypes, AddUploadTypes, AddLastUploadTypes, LoadSpecTypes,
       CommitTypes, SendTypes DEF Serve
  <1>4. ASSUME NEW e \in DOMAIN catalog, DeleteEntity(e) PROVE TInv'
    BY <1>4, DeleteTypes
  <1> QED
    BY <1>1, <1>2, <1>3, <1>4 DEF Next

THEOREM UploadTyped == Spec => [](UInv /\ TInv)
  <1>1. Init => UInv /\ TInv
    BY InitUInv, InitTInv
  <1>2. (UInv /\ TInv) /\ [Next]_vars => (UInv /\ TInv)'
    BY NextUInv, NextTInv
  <1> QED
    BY <1>1, <1>2, PTL DEF Spec

\* The types, and the lock of a session, whatever is uploaded: what loadFileSets
\* and loadYamlSpecs return are specs with their file sets.
THEOREM UploadTypeCorrect == Spec => []TypeOK
  <1>1. UInv /\ TInv => TypeOK
    <2> SUFFICES ASSUME UInv, TInv PROVE TypeOK
      OBVIOUS
    <2>1. ASSUME NEW r \in Requests, request[r] \notin {Idle} \cup Incoming
          PROVE  Loading(request[r])
      <3>1. LoadingShape(request[r])
        BY <2>1 DEF UInv, Shape
      <3>2. Tasks(r)
        BY <3>1 DEF TInv, RequestTypes, LoadingShape
      <3> QED
        BY <3>1, <3>2 DEF Loading, LoadingShape, LoadingFields, Tasks, Task
    <2> QED
      BY <2>1 DEF TypeOK, UInv, Shape, TInv, SessionTypes, DataTypes
  <1> QED
    BY <1>1, UploadTyped, PTL

\* A spec is loaded after the specs of its file set that it refers to, however
\* many specs there are and in whatever order their files were ranged over
\* (Less, loadYamlSpecs).
THEOREM LoadedInOrder == Spec => []DefinedBeforeUse
  <1>1. UInv /\ TInv => DefinedBeforeUse
    <2> SUFFICES ASSUME TInv, NEW r \in Pending,
                        NEW i \in DOMAIN request[r].todo, NEW j \in DOMAIN request[r].todo
                 PROVE  LET c == request[r].todo[i]
                            d == request[r].todo[j]
                        IN  i < j /\ c.set = d.set /\ <<d.spec.type, d.spec.name>> \in c.spec.refs =>
                                c.spec.type = "Application" /\ d.spec.type = "DeploymentPackage"
      BY DEF DefinedBeforeUse
    <2> DEFINE todo == request[r].todo
               c == todo[i].spec
               d == todo[j].spec
    <2> SUFFICES ASSUME i < j, todo[i].set = todo[j].set, <<d.type, d.name>> \in c.refs
                 PROVE  c.type = "Application" /\ d.type = "DeploymentPackage"
      OBVIOUS
    <2>1. todo \in Seq(Task) /\ InOrder(todo)
      BY DEF TInv, RequestTypes, Tasks, Pending
    <2>2. todo[i] \in Task /\ todo[j] \in Task /\ ~TypeBefore(d, c)
      BY <2>1 DEF InOrder
    <2>3. c \in YamlSpec /\ d \in YamlSpec
      BY <2>2 DEF Task
    <2> HIDE DEF c, d
    <2>4. c.type \in Types /\ d.type \in Types /\ d.type \in RefTypes[c.type]
      BY <2>3 DEF YamlSpec
    <2>5. ~(d.type # c.type /\ Less(d, c))
      BY <2>2 DEF TypeBefore
    <2> QED
      BY <2>4, <2>5 DEF Less, Types, RefTypes
  <1> QED
    BY <1>1, UploadTyped, PTL

-----------------------------------------------------------------------------
(* Uploads implement AtomicUpload.                                         *)

\* What AtomicUpload sees of the sessions.
Contents == [e \in DOMAIN catalog |-> Face(catalog[e])]

Owners == [s \in DOMAIN sessions |-> sessions[s].project]

Descriptions == [s \in SessionIds |-> IF s \in DOMAIN sessions THEN Uploaded(s) ELSE {}]

\* Steps that AtomicUpload does not see.
LEMMA HiddenStep ==
    ASSUME DOMAIN sessions' = DOMAIN sessions,
           \A s \in DOMAIN sessions : /\ sessions'[s].project = sessions[s].project
                                      /\ sessions'[s].uploads = sessions[s].uploads,
           UNCHANGED catalog
    PROVE  UNCHANGED Upload!vars
  <1>1. Contents' = Contents
    BY DEF Contents
  <1>2. Owners' = Owners
    BY DEF Owners
  <1>3. \A s \in DOMAIN sessions : Uploaded(s)' = Uploaded(s)
    BY UploadedSame
  <1>4. Descriptions' = Descriptions
    BY <1>3 DEF Descriptions
  <1> QED
    BY <1>1, <1>2, <1>4 DEF Upload!vars, Contents, Owners, Descriptions

\* A step that changes one field of the session of r is hidden unless the field
\* is its uploads.
LEMMA QuietIsHidden ==
    ASSUME UInv, TInv, NEW r \in Requests,
           LockSession(r) \/ RefuseUpload(r) \/ RollbackUpload(r) \/ LoadSpec(r) \/ SendEvents(r)
    PROVE  UNCHANGED Upload!vars
  <1> DEFINE s == request[r].session
  <1>1. request[r].pc # "idle" /\ UNCHANGED catalog
    BY DEF LockSession, RefuseUpload, RollbackUpload, LoadSpec, SendEvents
  <1>2. s \in DOMAIN sessions /\ sessions[s] \in Session
    BY <1>1, RequestSession DEF TInv, SessionTypes
  <1>3. \/ \E h : sessions' = [sessions EXCEPT ![s].holder = h]
        \/ \E v : sessions' = [sessions EXCEPT ![s].events = v]
        \/ UNCHANGED sessions
    <2>1. CASE LoadSpec(r)
      <3>1. PICK queued : sessions' = [sessions EXCEPT ![s].events = @ \cup queued]
        BY <2>1 DEF LoadSpec
      <3>2. "events" \in DOMAIN sessions[s]
        BY <1>2 DEF Session
      <3>3. sessions' = [sessions EXCEPT ![s].events = sessions[s].events \cup queued]
        BY <1>2, <3>1, <3>2
      <3> QED
        BY <3>3
    <2> QED
      BY <2>1 DEF LockSession, RefuseUpload, RollbackUpload, SendEvents
  <1> DEFINE Same == /\ DOMAIN sessions' = DOMAIN sessions
                     /\ \A t \in DOMAIN sessions : /\ sessions'[t].project = sessions[t].project
                                                   /\ sessions'[t].uploads = sessions[t].uploads
  <1>4. Same
    <2>1. ASSUME NEW h, sessions' = [sessions EXCEPT ![s].holder = h] PROVE Same
      <3>1. sessions'[s] = [sessions[s] EXCEPT !.holder = h]
        BY <1>2, <2>1
      <3>2. /\ sessions'[s].project = sessions[s].project
            /\ sessions'[s].uploads = sessions[s].uploads
        BY <1>2, <3>1 DEF Session
      <3> QED
        BY <2>1, <3>2
    <2>2. ASSUME NEW v, sessions' = [sessions EXCEPT ![s].events = v] PROVE Same
      <3>1. sessions'[s] = [sessions[s] EXCEPT !.events = v]
        BY <1>2, <2>2
      <3>2. /\ sessions'[s].project = sessions[s].project
            /\ sessions'[s].uploads = sessions[s].uploads
        BY <1>2, <3>1 DEF Session
      <3> QED
        BY <2>2, <3>2
    <2> QED
      BY <1>3, <2>1, <2>2
  <1> QED
    BY <1>1, <1>4, HiddenStep

\* A session that is new describes nothing.
LEMMA NewSessionOpens ==
    ASSUME UInv, NEW r \in Requests, NEW project \in Projects, NEW u, NEW last,
           newSession(r, project, u, last)
    PROVE  \E s \in SessionIds : Upload!Open(s)
  <1>1. PICK s \in SessionIds \ DOMAIN sessions :
            sessions' = Over(One(s, [project |-> project, uploads |-> <<>>,
                                     events |-> {}, holder |-> NoRequest]), sessions)
    BY DEF newSession
  <1>2. /\ DOMAIN sessions' = DOMAIN sessions \cup {s}
        /\ \A t \in DOMAIN sessions : sessions'[t] = sessions[t]
        /\ sessions'[s].project = project
        /\ sessions'[s].uploads = <<>>
    BY <1>1 DEF Over, One
  <1>3. UNCHANGED catalog
    BY DEF newSession
  <1>4. /\ s \notin DOMAIN Owners
        /\ DOMAIN Owners' = DOMAIN Owners \cup {s}
        /\ Owners'[s] = project
        /\ \A t \in DOMAIN Owners : Owners'[t] = Owners[t]
    BY <1>1, <1>2 DEF Owners
  <1>5. Contents' = Contents
    BY <1>3 DEF Contents
  <1>6. Uploaded(s)' = {}
    <2>1. Current(<<>>) = {}
      BY DEF Current
    <2> QED
      BY <1>2, <2>1 DEF Uploaded
  <1>7. \A t \in DOMAIN sessions : Uploaded(t)' = Uploaded(t)
    BY <1>2, UploadedSame
  <1>8. Descriptions' = Descriptions
    BY <1>1, <1>2, <1>6, <1>7 DEF Descriptions
  <1> QED
    BY <1>4, <1>5, <1>8 DEF Upload!Open, Owners, Contents, Descriptions

\* What the files of a session describe is of its project.
LEMMA DescribedInProject ==
    ASSUME NEW project \in Projects, NEW uploads \in Seq(Uploads), NEW i \in DOMAIN uploads,
           NEW f \in DOMAIN uploads[i].files, NEW d \in ToSet(uploads[i].files[f])
    PROVE  EntityOf(project, d) \in Entity /\ ProjectOf(EntityOf(project, d)) = project
  <1>1. uploads[i] \in Uploads
    OBVIOUS
  <1>2. uploads[i].files[f] \in Seq(YamlSpec)
    BY <1>1, UploadFiles DEF IsFileSet
  <1>3. d \in YamlSpec
    BY <1>2 DEF ToSet
  <1> QED
    BY <1>3, SpecTypes DEF EntityOf, ProjectOf

LEMMA AddingCollects ==
    ASSUME UInv, TInv, TInv', NEW r \in Requests, AddUpload(r) \/ AddLastUpload(r)
    PROVE  \E s \in SessionIds : Upload!Collect(s)
  <1>1. PICK s : s = request[r].session
    OBVIOUS
  <1>2. request[r].pc = "locked" /\ UNCHANGED catalog
    BY DEF AddUpload, AddLastUpload
  <1>3. s \in DOMAIN sessions /\ s \in SessionIds /\ sessions[s] \in Session
    BY <1>1, <1>2, RequestSession DEF UInv, Shape, TInv, SessionTypes
  <1>4. /\ DOMAIN sessions' = DOMAIN sessions
        /\ \A t \in DOMAIN sessions \ {s} : sessions'[t] = sessions[t]
    BY <1>1 DEF AddUpload, AddLastUpload
  <1>5. sessions'[s].project = sessions[s].project
    <2> DEFINE uploads == Append(sessions[s].uploads, request[r].upload)
    <2> HIDE DEF uploads
    <2>1. CASE AddUpload(r)
      <3>1. sessions'[s] = [[sessions[s] EXCEPT !.uploads = uploads] EXCEPT !.holder = NoRequest]
        BY <1>1, <1>3, <2>1 DEF AddUpload, uploads
      <3> QED
        BY <1>3, <3>1 DEF Session
    <2>2. CASE AddLastUpload(r)
      <3>1. sessions'[s] = [sessions[s] EXCEPT !.uploads = uploads]
        BY <1>1, <1>3, <2>2 DEF AddLastUpload, uploads
      <3> QED
        BY <1>3, <3>1 DEF Session
    <2> QED
      BY <2>1, <2>2
  <1>6. Owners' = Owners
    BY <1>4, <1>5 DEF Owners
  <1>7. Contents' = Contents
    BY <1>2 DEF Contents
  <1>8. \A t \in DOMAIN sessions \ {s} : Uploaded(t)' = Uploaded(t)
    BY <1>4, UploadedSame
  <1>9. \A t \in SessionIds \ {s} : Descriptions'[t] = Descriptions[t]
    BY <1>4, <1>8 DEF Descriptions
  <1>10. \A x \in Uploaded(s)' : x[1] \in Entity /\ ProjectOf(x[1]) = sessions[s].project
    <2>1. sessions'[s].uploads \in Seq(Uploads) /\ sessions'[s].project \in Projects
      BY <1>3, <1>4 DEF TInv, SessionTypes, Session
    <2>2. PICK uploads \in Seq(Uploads), project \in Projects :
              uploads = sessions'[s].uploads /\ project = sessions'[s].project
      BY <2>1
    <2>3. Uploaded(s)' = {<<EntityOf(project, d), Face(d)>> :
                             d \in UNION {UNION {ToSet(uploads[i].files[f]) :
                                                    f \in DOMAIN uploads[i].files} :
                                             i \in Current(uploads)}}
      BY <2>2 DEF Uploaded
    <2>4. Current(uploads) \subseteq DOMAIN uploads
      BY DEF Current
    <2>5. ASSUME NEW x \in Uploaded(s)'
          PROVE  x[1] \in Entity /\ ProjectOf(x[1]) = project
      <3>1. PICK i \in Current(uploads) : \E f \in DOMAIN uploads[i].files :
                \E d \in ToSet(uploads[i].files[f]) : x = <<EntityOf(project, d), Face(d)>>
        BY <2>3
      <3>2. PICK f \in DOMAIN uploads[i].files :
                \E d \in ToSet(uploads[i].files[f]) : x = <<EntityOf(project, d), Face(d)>>
        BY <3>1
      <3>3. PICK d \in ToSet(uploads[i].files[f]) : x = <<EntityOf(project, d), Face(d)>>
        BY <3>2
      <3>4. x[1] = EntityOf(project, d)
        BY <3>3
      <3> QED
        BY <2>4, <3>4, DescribedInProject
    <2> QED
      BY <1>5, <2>2, <2>5
  <1>11. \A x \in Descriptions'[s] : x[1] \in Entity /\ ProjectOf(x[1]) = Owners[s]
    BY <1>3, <1>4, <1>10 DEF Descriptions, Owners
  <1>12. s \in DOMAIN Owners
    BY <1>3 DEF Owners
  <1> QED
    BY <1>3, <1>6, <1>7, <1>9, <1>11, <1>12
       DEF Upload!Collect, Owners, Contents, Descriptions

LEMMA CommitApplies ==
    ASSUME UInv, TInv, NEW r \in Requests, CommitUpload(r)
    PROVE  \E s \in SessionIds : Upload!Apply(s)
  <1>1. PICK s : s = request[r].session
    OBVIOUS
  <1> DEFINE w == request[r].writes
             About == {x[1] : x \in Descriptions[s]}
  <1>2. /\ request[r].pc = "loading" /\ request[r].todo = <<>>
        /\ catalog' = Over(w, catalog)
        /\ UNCHANGED sessions
    BY DEF CommitUpload
  <1>3. s \in DOMAIN sessions /\ s \in SessionIds
    BY <1>1, <1>2, RequestSession DEF UInv, Shape
  <1>4. Descriptions[s] = Uploaded(s)
    BY <1>3 DEF Descriptions
  <1>5. /\ \A e \in DOMAIN w : Written(r, e)
        /\ \A x \in Uploaded(s) : x[1] \in DOMAIN w
        /\ Left(r) = {}
    <2>1. WholeSession(r)
      BY <1>2 DEF TInv, Whole, Pending
    <2>2. ToSet(request[r].todo) = {}
      BY <1>2 DEF ToSet
    <2>3. Left(r) = {}
      BY <2>2 DEF Left
    <2> QED
      BY <1>1, <2>1, <2>3 DEF WholeSession
  <1>6. About = DOMAIN w
    <2>1. ASSUME NEW e \in DOMAIN w PROVE e \in About
      BY <1>1, <1>4, <1>5 DEF Written
    <2> QED
      BY <1>4, <1>5, <2>1
  <1>7. /\ DOMAIN catalog' = DOMAIN catalog \cup DOMAIN w
        /\ \A e \in DOMAIN w : catalog'[e] = w[e]
        /\ \A e \in DOMAIN catalog \ DOMAIN w : catalog'[e] = catalog[e]
    BY <1>2 DEF Over
  <1>8. ASSUME NEW e \in DOMAIN w
        PROVE  LET new == Contents'[e]
                   says == {d[2] : d \in {x \in Descriptions[s] : x[1] = e}}
                   stays == /\ HasKind(e)
                            /\ e \in DOMAIN Contents
                            /\ new.content = Contents[e].content
                            /\ \A d \in says : ~changed(Contents[e].content, d.content)
               IN  /\ \E d \in says : new.kind = d.kind
                   /\ (\E d \in says : new.content = d.content) \/ stays
                   /\ \/ \E d \in says : new.ignored = d.ignored
                      \/ /\ e \in DOMAIN Contents
                         /\ new.ignored = Contents[e].ignored
                         /\ stays \/ \E d \in says : d.ignored = {}
    <2> DEFINE says == {d[2] : d \in {x \in Uploaded(s) : x[1] = e}}
               said == {x \in Uploaded(s) : x[1] = e}
               stays == /\ HasKind(e)
                        /\ e \in DOMAIN catalog
                        /\ w[e].content = catalog[e].content
                        /\ \A d \in says : ~changed(catalog[e].content, d.content)
    <2>1. Contents'[e] = Face(w[e])
      BY <1>7 DEF Contents
    <2>2. /\ Contents'[e].kind = w[e].kind
          /\ Contents'[e].content = w[e].content
          /\ Contents'[e].ignored = w[e].ignored
      BY <2>1 DEF Face
    <2>3. e \in DOMAIN Contents <=> e \in DOMAIN catalog
      BY DEF Contents
    <2>4. e \in DOMAIN catalog => /\ Contents[e].content = catalog[e].content
                                  /\ Contents[e].ignored = catalog[e].ignored
      BY DEF Contents, Face
    <2>5. Stayed(r, e) => stays
      BY <1>1, <1>5 DEF Stayed
    <2>6. /\ \E x \in said : w[e].kind = x[2].kind
          /\ (\E x \in said : w[e].content = x[2].content) \/ Stayed(r, e)
          /\ \/ \E x \in said : w[e].ignored = x[2].ignored
             \/ /\ e \in DOMAIN catalog
                /\ w[e].ignored = catalog[e].ignored
                /\ Stayed(r, e) \/ \E x \in said : x[2].ignored = {}
      BY <1>1, <1>5 DEF Written
    <2>7. \A x \in said : x[2] \in says
      OBVIOUS
    <2> HIDE DEF said, stays, w
    <2>8. /\ \E d \in says : w[e].kind = d.kind
          /\ (\E d \in says : w[e].content = d.content) \/ stays
          /\ \/ \E d \in says : w[e].ignored = d.ignored
             \/ /\ e \in DOMAIN catalog
                /\ w[e].ignored = catalog[e].ignored
                /\ stays \/ \E d \in says : d.ignored = {}
      BY <2>5, <2>6, <2>7
    <2> QED
      BY <1>4, <2>2, <2>3, <2>4, <2>8 DEF stays
  <1>9. /\ DOMAIN Contents' = DOMAIN Contents \cup About
        /\ \A e \in DOMAIN Contents' \ About : Contents'[e] = Contents[e]
    BY <1>6, <1>7 DEF Contents
  <1>10. Owners' = Owners
    BY <1>2 DEF Owners
  <1>11. Descriptions' = Descriptions
    <2>1. \A t \in DOMAIN sessions : Uploaded(t)' = Uploaded(t)
      BY <1>2, UploadedSame
    <2> QED
      BY <1>2, <2>1 DEF Descriptions
  <1>12. Upload!About(s) = About
    BY DEF Upload!About, Descriptions
  <1>13. ASSUME NEW e \in About PROVE Upload!TakesEffect(s, e)
    BY <1>6, <1>8 DEF Upload!TakesEffect, Upload!Stays, Upload!Says, Contents, Descriptions
  <1> HIDE DEF w, About
  <1> QED
    BY <1>3, <1>9, <1>10, <1>11, <1>12, <1>13
       DEF Upload!Apply, Owners, Contents, Descriptions

LEMMA DeleteRemoves ==
    ASSUME NEW e \in DOMAIN catalog, DeleteEntity(e)
    PROVE  Upload!Remove(e)
  <1>1. /\ catalog' = [f \in DOMAIN catalog \ {e} |-> catalog[f]]
        /\ UNCHANGED sessions
    BY DEF DeleteEntity
  <1>2. Contents' = [f \in DOMAIN Contents \ {e} |-> Contents[f]]
    BY <1>1 DEF Contents
  <1>3. Owners' = Owners
    BY <1>1 DEF Owners
  <1>4. Descriptions' = Descriptions
    <2>1. \A t \in DOMAIN sessions : Uploaded(t)' = Uploaded(t)
      BY <1>1, UploadedSame
    <2> QED
      BY <1>1, <2>1 DEF Descriptions
  <1> QED
    BY <1>2, <1>3, <1>4 DEF Upload!Remove, Owners, Contents, Descriptions

\* Uploads implement AtomicUpload: the entities of all files of a session enter
\* the catalog in one step, and nothing else does, whatever is uploaded by
\* however many requests (processUploadSession, the session's lock).
THEOREM UploadsAreAtomic == Spec => ImplementsAtomicUpload
  <1>1. Init => Upload!Init
    BY DEF Init, Upload!Init
  <1>2. (UInv /\ TInv) /\ (UInv /\ TInv)' /\ [Next]_vars => [Upload!Next]_(Upload!vars)
    <2> SUFFICES ASSUME UInv, TInv, TInv', [Next]_vars, ~ UNCHANGED Upload!vars
                 PROVE  Upload!Next
      OBVIOUS
    <2>1. ASSUME NEW r \in Requests, Arrive(r) PROVE Upload!Next
      <3>1. PICK project \in Projects, u \in Uploads, last \in BOOLEAN :
                \/ newSession(r, project, u, last)
                \/ \E s \in DOMAIN sessions : getSession(r, project, s, u, last)
        BY <2>1 DEF Arrive
      <3>2. CASE \E s \in DOMAIN sessions : getSession(r, project, s, u, last)
        <4>1. UNCHANGED <<sessions, catalog>>
          BY <3>2 DEF getSession
        <4> QED
          BY <4>1, HiddenStep
      <3> QED
        BY <3>1, <3>2, NewSessionOpens DEF Upload!Next
    <2>2. ASSUME NEW r \in Requests, Serve(r) PROVE Upload!Next
      BY <2>2, QuietIsHidden, AddingCollects, CommitApplies DEF Serve, Upload!Next
    <2>3. ASSUME NEW e \in DOMAIN catalog, DeleteEntity(e) PROVE Upload!Next
      <3>1. e \in DOMAIN Contents
        BY DEF Contents
      <3> QED
        BY <2>3, <3>1, DeleteRemoves DEF Upload!Next, Contents
    <2>4. ~ UNCHANGED vars
      <3>1. UNCHANGED vars => UNCHANGED <<sessions, catalog>>
        BY DEF vars
      <3> QED
        BY <3>1, HiddenStep
    <2> QED
      BY <2>1, <2>2, <2>3, <2>4 DEF Next
  <1> QED
    BY <1>1, <1>2, UploadTyped, PTL DEF Spec, ImplementsAtomicUpload, Upload!Spec
=============================================================================
