---------------------------- MODULE ListProofs -----------------------------
(***************************************************************************)
(* What the operations of List do to a list of any length: they keep its   *)
(* pointers consistent, and to the list's users they are operations on the *)
(* sequence of its elements.                                               *)
(***************************************************************************)
EXTENDS EventQueue, SynchList, FiniteSetTheorems, SequenceTheorems, TLAPS

Cell(X) == [item : X, key : Int, next : Nat]

(* The list l, whose items are in X, consists of the elements at the       *)
(* addresses w, linked in that order.                                      *)
Chain(l, w, X) ==
    /\ l \in [first : Nat, last : Nat, heap : {l.heap}]
    /\ w \in Seq(Nat \ {0})
    /\ \A i, j \in 1..Len(w) : w[i] = w[j] => i = j
    /\ DOMAIN l.heap = {w[i] : i \in 1..Len(w)}
    /\ l.heap \in [DOMAIN l.heap -> Cell(X)]
    /\ \A i \in 1..Len(w) : l.heap[w[i]].next = IF i < Len(w) THEN w[i + 1] ELSE Nil
    /\ l.first = IF w = <<>> THEN Nil ELSE w[1]
    /\ l.last = IF w = <<>> THEN Nil ELSE w[Len(w)]

IsList(l, X) == Chain(l, Walk(l), X)

(* Every element has at most the key of its successor. *)
Ascending(l, w) == \A i \in 1..Len(w) : i < Len(w) => l.heap[w[i]].key <= l.heap[w[i + 1]].key

-----------------------------------------------------------------------------

LEMMA LeastNat ==
    ASSUME NEW T \in SUBSET Nat, T # {}
    PROVE  \E x \in T : \A y \in T : x <= y
<1> DEFINE R == OpToRel(<, Nat)
<1>1. IsWellFoundedOn(R, Nat)
  BY NatLessThanWellFounded
<1>2. \A x, y \in Nat : <<x, y>> \in R <=> x < y
  BY DEF OpToRel
<1> HIDE DEF R
<1>3. PICK x \in T : \A y \in T : ~ (<<y, x>> \in R)
  BY <1>1, WFMin
<1>4. ASSUME NEW y \in T PROVE x <= y
  <2>1. ~(y < x)
    BY <1>2, <1>3
  <2> QED
    BY <2>1
<1> QED
  BY <1>4

LEMMA MinNat ==
    ASSUME NEW T \in SUBSET Nat, T # {}
    PROVE  Min(T) \in T /\ \A y \in T : Min(T) <= y
BY LeastNat DEF Min

LEMMA IntervalSize ==
    ASSUME NEW n \in Nat
    PROVE  IsFiniteSet(1..n) /\ Cardinality(1..n) = n /\ Cardinality(0..(n - 1)) = n
<1>1. 1 \in Int /\ n \in Int /\ 0 \in Int /\ n - 1 \in Int
  OBVIOUS
<1>2. IsFiniteSet(1..n) /\ Cardinality(1..n) = IF 1 > n THEN 0 ELSE n - 1 + 1
  BY <1>1, FS_Interval, Zenon
<1>3. Cardinality(0..(n - 1)) = IF 0 > n - 1 THEN 0 ELSE n - 1 - 0 + 1
  BY <1>1, FS_Interval, Zenon
<1> QED
  BY <1>2, <1>3

(* A chain has as many elements as addresses. *)
LEMMA ChainSize ==
    ASSUME NEW l, NEW w, NEW X, Chain(l, w, X)
    PROVE  IsFiniteSet(DOMAIN l.heap) /\ Cardinality(DOMAIN l.heap) = Len(w)
<1>0. w \in Seq(Nat \ {0}) /\ Len(w) \in Nat
  BY LenProperties DEF Chain
<1> DEFINE D == DOMAIN l.heap
<1>a. D = {w[i] : i \in 1..Len(w)} /\ \A i, j \in 1..Len(w) : w[i] = w[j] => i = j
  BY DEF Chain
<1> HIDE DEF D
<1>b. w \in [1..Len(w) -> D]
  BY <1>0, <1>a
<1>1. w \in Bijection(1..Len(w), D)
  <2>1. w \in Injection(1..Len(w), D)
    BY <1>a, <1>b DEF Injection, IsInjective
  <2>2. w \in Surjection(1..Len(w), D)
    BY <1>a, <1>b DEF Surjection
  <2> QED
    BY <2>1, <2>2 DEF Bijection
<1>2. ExistsBijection(1..Len(w), D)
  BY <1>1 DEF ExistsBijection
<1>3. IsFiniteSet(1..Len(w)) /\ Cardinality(1..Len(w)) = Len(w)
  BY <1>0, IntervalSize
<1> QED
  BY <1>2, <1>3, FS_Bijection DEF D

(* The loops of list.cc meet the elements of a chain, in its order. *)
LEMMA WalkIsChain ==
    ASSUME NEW l, NEW w, NEW X, Chain(l, w, X)
    PROVE  Walk(l) = w
<1> DEFINE size == Cardinality(DOMAIN l.heap)
           ptr[n \in 0..size] ==
             IF n = 0 THEN l.first
             ELSE IF ptr[n - 1] \in DOMAIN l.heap THEN l.heap[ptr[n - 1]].next ELSE Nil
           p == [n \in 0..size |-> IF n < Len(w) THEN w[n + 1] ELSE Nil]
<1>0. Len(w) \in Nat /\ size = Len(w)
  BY ChainSize, LenProperties DEF Chain
<1>1. p = [n \in 0..size |->
             IF n = 0 THEN l.first
             ELSE IF p[n - 1] \in DOMAIN l.heap THEN l.heap[p[n - 1]].next ELSE Nil]
  <2>1. ASSUME NEW n \in 0..size
        PROVE  p[n] = IF n = 0 THEN l.first
                      ELSE IF p[n - 1] \in DOMAIN l.heap THEN l.heap[p[n - 1]].next ELSE Nil
    <3>1. CASE n = 0
      <4>1. w = <<>> <=> Len(w) = 0
        BY EmptySeq DEF Chain
      <4>2. l.first = IF w = <<>> THEN Nil ELSE w[1]
        BY DEF Chain
      <4> QED
        BY <1>0, <3>1, <4>1, <4>2
    <3>2. CASE n # 0
      <4>1. n - 1 \in 0..size /\ n - 1 < Len(w) /\ n \in 1..Len(w)
        BY <1>0, <3>2
      <4>2. p[n - 1] = w[n]
        BY <4>1
      <4>3. w[n] \in DOMAIN l.heap
        BY <4>1 DEF Chain
      <4> HIDE DEF p
      <4>4. l.heap[p[n - 1]].next = IF n < Len(w) THEN w[n + 1] ELSE Nil
        BY <4>1, <4>2 DEF Chain
      <4> QED
        BY <3>2, <4>2, <4>3, <4>4 DEF p
    <3> QED
      BY <3>1, <3>2
  <2> QED
    BY <2>1
<1>2. ptr = [n \in 0..size |->
               IF n = 0 THEN l.first
               ELSE IF ptr[n - 1] \in DOMAIN l.heap THEN l.heap[ptr[n - 1]].next ELSE Nil]
  BY <1>1
<1> HIDE DEF ptr, p
<1>3. \A n \in 0..size : ptr[n] = p[n]
  <2> SUFFICES ASSUME NEW m \in 0..size, ptr[m] # p[m] PROVE FALSE
    OBVIOUS
  <2> DEFINE T == {n \in 0..size : ptr[n] # p[n]}
  <2>1. T \in SUBSET Nat /\ T # {}
    BY <1>0
  <2>2. PICK n \in T : \A k \in T : n <= k
    BY <2>1, LeastNat
  <2>3. n # 0
    BY <1>0, <1>1, <1>2
  <2>4. n - 1 \in 0..size /\ n \in 0..size /\ n - 1 \notin T
    BY <1>0, <2>2, <2>3
  <2>5. ptr[n - 1] = p[n - 1]
    BY <2>4
  <2>6. ptr[n] = p[n]
    BY <1>1, <1>2, <2>3, <2>4, <2>5
  <2> QED
    BY <2>2, <2>6
<1>4. {n \in 0..size : ptr[n] # Nil} = 0..(Len(w) - 1)
  <2>1. \A n \in 0..size : p[n] # Nil <=> n < Len(w)
    <3>0. w \in Seq(Nat \ {0})
      BY DEF Chain
    <3>1. \A i \in 1..Len(w) : w[i] # 0
      BY <1>0, <3>0
    <3> QED
      BY <1>0, <3>1 DEF p, Nil
  <2> QED
    BY <1>0, <1>3, <2>1
<1>5. Cardinality({n \in 0..size : ptr[n] # Nil}) = Len(w)
  <2>1. Cardinality(0..(Len(w) - 1)) = Len(w)
    BY <1>0, IntervalSize
  <2> QED
    BY <1>4, <2>1
<1>6. [i \in 1..Len(w) |-> ptr[i - 1]] = w
  <2>1. \A i \in 1..Len(w) : ptr[i - 1] = w[i]
    BY <1>0, <1>3 DEF p
  <2>2. w = [i \in 1..Len(w) |-> w[i]]
    BY DEF Chain
  <2> QED
    BY <2>1, <2>2
<1>7. Walk(l) = [i \in 1..Cardinality({n \in 0..size : ptr[n] # Nil}) |-> ptr[i - 1]]
  BY DEF Walk, ptr
<1> QED
  BY <1>5, <1>6, <1>7

-----------------------------------------------------------------------------

(* "new" finds an address that no element has. *)
LEMMA FreshAddress ==
    ASSUME NEW l, NEW w, NEW X, Chain(l, w, X)
    PROVE  NewAddress(l) \in Nat \ {0} /\ NewAddress(l) \notin DOMAIN l.heap
<1> DEFINE D == DOMAIN l.heap
           n == Cardinality(D) + 1
<1>1. IsFiniteSet(D) /\ Cardinality(D) \in Nat
  BY ChainSize, FS_CardinalityType
<1> HIDE DEF D
<1>2. (1..n) \ D # {}
  <2> SUFFICES ASSUME 1..n \subseteq D PROVE FALSE
    OBVIOUS
  <2>1. Cardinality(1..n) <= Cardinality(D)
    BY <1>1, FS_Subset
  <2>2. Cardinality(1..n) = n
    BY <1>1, IntervalSize
  <2> QED
    BY <1>1, <2>1, <2>2
<1>3. Min((1..n) \ D) \in (1..n) \ D
  BY <1>1, <1>2, MinNat
<1> QED
  BY <1>1, <1>3 DEF NewAddress, D

(* The list with the new element c at address a, linked in behind the      *)
(* first k elements; and the addresses then.                               *)
Linked(l, w, k, a, c) ==
    [first |-> IF k = 0 THEN a ELSE l.first,
     last  |-> IF k = Len(w) THEN a ELSE l.last,
     heap  |-> [b \in DOMAIN l.heap \cup {a} |->
                  IF b = a THEN c
                  ELSE IF k > 0 /\ b = w[k] THEN [l.heap[b] EXCEPT !.next = a]
                  ELSE l.heap[b]]]

Spliced(w, k, a) ==
    [i \in 1..(Len(w) + 1) |-> IF i <= k THEN w[i] ELSE IF i = k + 1 THEN a ELSE w[i - 1]]

LEMMA LinkedIsChain ==
    ASSUME NEW l, NEW w, NEW X, Chain(l, w, X),
           NEW k \in 0..Len(w), NEW a \in Nat \ {0}, a \notin DOMAIN l.heap,
           NEW c \in Cell(X), c.next = IF k < Len(w) THEN w[k + 1] ELSE Nil
    PROVE  Chain(Linked(l, w, k, a, c), Spliced(w, k, a), X)
<1> DEFINE m == Linked(l, w, k, a, c)
           v == Spliced(w, k, a)
           h == l.heap
           g == m.heap
           N == Len(w)
<1>0. N \in Nat /\ k \in 0..N /\ w \in [1..N -> Nat \ {0}]
  BY LenProperties DEF Chain
<1>1. /\ DOMAIN h = {w[i] : i \in 1..N} /\ h \in [DOMAIN h -> Cell(X)]
      /\ \A i, j \in 1..N : w[i] = w[j] => i = j
      /\ \A i \in 1..N : h[w[i]].next = IF i < N THEN w[i + 1] ELSE Nil
  BY DEF Chain
<1>2. l.first \in Nat /\ l.last \in Nat
  BY DEF Chain
<1>3. /\ m.first = IF k = 0 THEN a ELSE l.first
      /\ m.last = IF k = N THEN a ELSE l.last
      /\ g = [b \in DOMAIN h \cup {a} |->
                IF b = a THEN c ELSE IF k > 0 /\ b = w[k] THEN [h[b] EXCEPT !.next = a] ELSE h[b]]
  BY DEF Linked
<1>4. m \in [first : Nat, last : Nat, heap : {m.heap}]
  BY <1>2 DEF Linked
<1>5. v \in Seq(Nat \ {0}) /\ Len(v) = N + 1
  <2>1. ASSUME NEW i \in 1..(N + 1)
        PROVE  (IF i <= k THEN w[i] ELSE IF i = k + 1 THEN a ELSE w[i - 1]) \in Nat \ {0}
    BY <1>0
  <2>2. v \in [1..(N + 1) -> Nat \ {0}]
    BY <2>1 DEF Spliced
  <2> QED
    BY <1>0, <2>2 DEF Spliced
<1>6. ASSUME NEW i \in 1..N PROVE w[i] \in DOMAIN h /\ w[i] # a
  BY <1>1
<1>a. \A i \in 1..(N + 1) : i <= k => i \in 1..N /\ v[i] = w[i]
  BY <1>0 DEF Spliced
<1>b. k + 1 \in 1..(N + 1) /\ v[k + 1] = a
  BY <1>0 DEF Spliced
<1>c. \A i \in 1..(N + 1) : i > k + 1 => i - 1 \in 1..N /\ v[i] = w[i - 1]
  BY <1>0 DEF Spliced
<1> HIDE DEF m, v, h, N
<1>7. \A i, j \in 1..Len(v) : v[i] = v[j] => i = j
  <2> SUFFICES ASSUME NEW i \in 1..(N + 1), NEW j \in 1..(N + 1), v[i] = v[j], i < j PROVE FALSE
    BY <1>0, <1>5
  <2>1. CASE j <= k
    <3>1. i \in 1..N /\ v[i] = w[i] /\ j \in 1..N /\ v[j] = w[j] /\ i # j
      BY <1>0, <1>a, <2>1
    <3> QED
      BY <1>1, <3>1
  <2>2. CASE j = k + 1
    BY <1>0, <1>6, <1>a, <1>b, <2>2
  <2>3. CASE j > k + 1
    <3>1. j - 1 \in 1..N /\ v[j] = w[j - 1]
      BY <1>c, <2>3
    <3>2. CASE i <= k
      BY <1>0, <1>1, <1>a, <2>3, <3>1, <3>2
    <3>3. CASE i = k + 1
      BY <1>6, <1>b, <3>1, <3>3
    <3>4. CASE i > k + 1
      BY <1>0, <1>1, <1>c, <2>3, <3>1, <3>4
    <3> QED
      BY <1>0, <3>2, <3>3, <3>4
  <2> QED
    BY <1>0, <2>1, <2>2, <2>3
<1>8. DOMAIN g = {v[i] : i \in 1..Len(v)}
  <2>1. ASSUME NEW i \in 1..Len(v) PROVE v[i] \in DOMAIN h \cup {a}
    <3>1. i \in 1..(N + 1) /\ (i <= k \/ i = k + 1 \/ i > k + 1)
      BY <1>0, <1>5
    <3> QED
      BY <1>6, <1>a, <1>b, <1>c, <3>1
  <2>2. ASSUME NEW b \in DOMAIN h \cup {a} PROVE \E i \in 1..Len(v) : v[i] = b
    <3>1. CASE b = a
      <4>1. k + 1 \in 1..Len(v) /\ v[k + 1] = a
        BY <1>5, <1>b
      <4> QED
        BY <3>1, <4>1
    <3>2. CASE b # a
      <4>1. PICK i \in 1..N : b = w[i]
        BY <1>1, <3>2
      <4>2. CASE i <= k
        BY <1>0, <1>5, <1>a, <4>1, <4>2
      <4>3. CASE i > k
        <5>1. i + 1 \in 1..Len(v) /\ v[i + 1] = w[i]
          BY <1>0, <1>5, <1>c, <4>3
        <5> QED
          BY <4>1, <5>1
      <4> QED
        BY <4>2, <4>3
    <3> QED
      BY <3>1, <3>2
  <2>3. DOMAIN g = DOMAIN h \cup {a}
    BY <1>3
  <2> QED
    BY <2>1, <2>2, <2>3
<1>9. g \in [DOMAIN g -> Cell(X)]
  <2>1. ASSUME NEW b \in DOMAIN h PROVE [h[b] EXCEPT !.next = a] \in Cell(X)
    BY <1>1 DEF Cell
  <2> QED
    BY <1>1, <1>3, <2>1
<1>10. ASSUME NEW i \in 1..Len(v)
       PROVE  g[v[i]].next = IF i < Len(v) THEN v[i + 1] ELSE Nil
  <2>1. CASE i = k + 1
    <3>1. g[v[i]] = c
      BY <1>3, <1>b, <2>1
    <3>2. i < Len(v) => v[i + 1] = w[k + 1]
      BY <1>0, <1>5, <1>c, <2>1
    <3> QED
      BY <1>0, <1>5, <2>1, <3>1, <3>2 DEF N
  <2>2. CASE i < k
    <3>1. i \in 1..N /\ k \in 1..N /\ i # k /\ i < N
      BY <1>0, <1>5, <2>2
    <3>a. i \in 1..(N + 1) /\ i + 1 \in 1..(N + 1) /\ i <= k /\ i + 1 <= k
      BY <1>0, <1>5, <2>2, <3>1
    <3>b. v[i] = w[i] /\ v[i + 1] = w[i + 1]
      BY <1>a, <3>a
    <3>2. v[i] = w[i] /\ v[i + 1] = w[i + 1] /\ w[i] # w[k]
      BY <1>1, <3>b, <3>1
    <3>3. g[v[i]] = h[w[i]]
      BY <1>3, <1>6, <3>1, <3>2
    <3>4. h[w[i]].next = w[i + 1] /\ i < Len(v)
      BY <1>0, <1>1, <1>5, <3>1
    <3> QED
      BY <3>2, <3>3, <3>4
  <2>3. CASE i = k
    <3>1. i \in 1..N /\ i < Len(v) /\ k > 0
      BY <1>0, <1>5, <2>3
    <3>2. v[i] = w[i] /\ v[i + 1] = a
      BY <1>a, <1>b, <1>5, <2>3, <3>1
    <3>3. g[v[i]] = [h[w[i]] EXCEPT !.next = a]
      BY <1>3, <1>6, <2>3, <3>1, <3>2
    <3>4. h[w[i]] \in Cell(X)
      BY <1>1, <1>6, <3>1
    <3> QED
      BY <3>1, <3>2, <3>3, <3>4 DEF Cell
  <2>4. CASE i > k + 1
    <3>1. i - 1 \in 1..N /\ (k > 0 => k \in 1..N /\ i - 1 # k)
      BY <1>0, <1>5, <2>4
    <3>2. v[i] = w[i - 1]
      BY <1>5, <1>c, <2>4
    <3>5. i < Len(v) => v[i + 1] = w[i] /\ i - 1 < N
      BY <1>0, <1>5, <1>c, <2>4
    <3>3. g[v[i]] = h[w[i - 1]]
      BY <1>1, <1>3, <1>6, <3>1, <3>2
    <3>4. h[w[i - 1]].next = IF i - 1 < N THEN w[(i - 1) + 1] ELSE Nil
      BY <1>1, <3>1
    <3>6. (i - 1) + 1 = i /\ (~(i < Len(v)) => ~(i - 1 < N))
      BY <1>0, <1>5
    <3> QED
      BY <3>3, <3>4, <3>5, <3>6
  <2> QED
    BY <1>0, <1>5, <2>1, <2>2, <2>3, <2>4
<1>11. v # <<>> /\ (w = <<>> <=> N = 0)
  BY <1>0, <1>5, EmptySeq DEF N
<1>12. m.first = v[1]
  <2>1. l.first = IF w = <<>> THEN Nil ELSE w[1]
    BY DEF Chain
  <2>2. CASE k = 0
    BY <1>3, <1>b, <2>2
  <2>3. CASE k # 0
    BY <1>0, <1>3, <1>11, <1>a, <2>1, <2>3
  <2> QED
    BY <2>2, <2>3
<1>13. m.last = v[Len(v)]
  <2>1. l.last = IF w = <<>> THEN Nil ELSE w[N]
    BY DEF Chain, N
  <2>2. CASE k = N
    BY <1>3, <1>5, <1>b, <2>2
  <2>3. CASE k # N
    <3>1. N + 1 \in 1..(N + 1) /\ N + 1 > k + 1 /\ N # 0 /\ (N + 1) - 1 = N
      BY <1>0, <2>3
    <3>2. v[N + 1] = w[(N + 1) - 1]
      BY <1>c, <3>1
    <3> QED
      BY <1>3, <1>5, <1>11, <2>1, <2>3, <3>1, <3>2
  <2> QED
    BY <2>2, <2>3
<1> QED
  BY <1>4, <1>5, <1>7, <1>8, <1>9, <1>10, <1>11, <1>12, <1>13 DEF Chain, m, v

(* What a chain says of the list's two pointers. *)
LEMMA ChainEnds ==
    ASSUME NEW l, NEW w, NEW X, Chain(l, w, X)
    PROVE  /\ Len(w) \in Nat /\ (w = <<>> <=> Len(w) = 0) /\ w \in [1..Len(w) -> DOMAIN l.heap]
           /\ IsEmpty(l) <=> w = <<>>
           /\ w # <<>> => l.first = w[1] /\ l.last = w[Len(w)] /\ 1 \in 1..Len(w) /\ Len(w) \in 1..Len(w)
<1>1. w \in Seq(Nat \ {0}) /\ Len(w) \in Nat /\ (w = <<>> <=> Len(w) = 0)
  BY LenProperties, EmptySeq DEF Chain
<1>2. w \in [1..Len(w) -> DOMAIN l.heap] /\ \A i \in 1..Len(w) : w[i] # 0
  BY <1>1 DEF Chain
<1>3. l.first = (IF w = <<>> THEN Nil ELSE w[1]) /\ l.last = (IF w = <<>> THEN Nil ELSE w[Len(w)])
  BY DEF Chain
<1> QED
  BY <1>1, <1>2, <1>3 DEF IsEmpty, Nil

(* A new element in the heap. *)
LEMMA NewCell ==
    ASSUME NEW l, NEW w, NEW X, Chain(l, w, X), NEW item, NEW key
    PROVE  New(l, item, key) =
             [first |-> l.first, last |-> l.last,
              heap |-> [b \in DOMAIN l.heap \cup {NewAddress(l)} |->
                          IF b = NewAddress(l) THEN ListElement(item, key) ELSE l.heap[b]]]
<1>1. l \in [first : Nat, last : Nat, heap : {l.heap}]
  BY DEF Chain
<1> QED
  BY <1>1 DEF New

(* The assignments of list.cc to two fields, one after the other. *)
LEMMA OnlyIs ==
    ASSUME NEW n, NEW f, NEW e, NEW H, n = [first |-> f, last |-> e, heap |-> H], NEW a
    PROVE  Only(n, a) = [first |-> a, last |-> a, heap |-> H]
<1> DEFINE m == [n EXCEPT !.first = a]
<1>1. m = [first |-> a, last |-> e, heap |-> H] /\ Only(n, a) = [m EXCEPT !.last = a]
  BY DEF Only
<1> HIDE DEF m
<1>2. [m EXCEPT !.last = a] = [first |-> a, last |-> a, heap |-> H]
  BY <1>1
<1> QED
  BY <1>1, <1>2

LEMMA AfterLastIs ==
    ASSUME NEW n, NEW f, NEW e, NEW H, n = [first |-> f, last |-> e, heap |-> H], NEW a
    PROVE  AfterLast(n, a) = [first |-> f, last |-> a, heap |-> [H EXCEPT ![e].next = a]]
<1> DEFINE m == [n EXCEPT !.heap[e].next = a]
           G == [H EXCEPT ![e].next = a]
<1>1. m = [first |-> f, last |-> e, heap |-> G] /\ AfterLast(n, a) = [m EXCEPT !.last = a]
  BY DEF AfterLast
<1> HIDE DEF m, G
<1>2. [m EXCEPT !.last = a] = [first |-> f, last |-> a, heap |-> G]
  BY <1>1
<1>3. AfterLast(n, a) = [first |-> f, last |-> a, heap |-> G]
  BY <1>1, <1>2
<1> QED
  BY <1>3 DEF G

LinkFirst(n, a, x) == [n EXCEPT !.heap[a].next = x, !.first = a]

LEMMA LinkFirstIs ==
    ASSUME NEW n, NEW f, NEW e, NEW H, n = [first |-> f, last |-> e, heap |-> H], NEW a, NEW x
    PROVE  LinkFirst(n, a, x) =
             [first |-> a, last |-> e, heap |-> [H EXCEPT ![a].next = x]]
<1> DEFINE G == [H EXCEPT ![a].next = x]
           m == [n EXCEPT !.heap[a].next = x]
<1>1. m = [first |-> f, last |-> e, heap |-> G]
  OBVIOUS
<1>2. [n EXCEPT !.heap[a].next = x, !.first = a] = [m EXCEPT !.first = a]
  OBVIOUS
<1> HIDE DEF m, G
<1>3. [m EXCEPT !.first = a] = [first |-> a, last |-> e, heap |-> G]
  BY <1>1
<1>4. [n EXCEPT !.heap[a].next = x, !.first = a] = [first |-> a, last |-> e, heap |-> G]
  BY <1>2, <1>3
<1> QED
  BY <1>4 DEF G, LinkFirst

TwoLinks(H, a, x, y) == [[H EXCEPT ![a].next = x] EXCEPT ![y].next = a]

LinkAfter(n, a, x, y) == [n EXCEPT !.heap[a].next = x, !.heap[y].next = a]

LEMMA LinkAfterIs ==
    ASSUME NEW n, NEW f, NEW e, NEW H, n = [first |-> f, last |-> e, heap |-> H], NEW a, NEW x, NEW y
    PROVE  LinkAfter(n, a, x, y) = [first |-> f, last |-> e, heap |-> TwoLinks(H, a, x, y)]
<1> DEFINE G == [H EXCEPT ![a].next = x]
           m == [n EXCEPT !.heap[a].next = x]
<1>1. m = [first |-> f, last |-> e, heap |-> G]
  OBVIOUS
<1>2. [n EXCEPT !.heap[a].next = x, !.heap[y].next = a] = [m EXCEPT !.heap[y].next = a]
  OBVIOUS
<1> HIDE DEF m, G
<1>3. [m EXCEPT !.heap[y].next = a] = [first |-> f, last |-> e, heap |-> [G EXCEPT ![y].next = a]]
  BY <1>1
<1>4. [n EXCEPT !.heap[a].next = x, !.heap[y].next = a] =
        [first |-> f, last |-> e, heap |-> [G EXCEPT ![y].next = a]]
  BY <1>2, <1>3
<1> QED
  BY <1>4 DEF G, LinkAfter, TwoLinks

(* List::Append links the element in behind the last one. *)
LEMMA AppendLinks ==
    ASSUME NEW l, NEW w, NEW X, Chain(l, w, X), NEW item
    PROVE  AppendTo(l, item) = Linked(l, w, Len(w), NewAddress(l), ListElement(item, 0))
<1> DEFINE a == NewAddress(l)
           n == New(l, item, 0)
           c == ListElement(item, 0)
           D == DOMAIN l.heap
           H == [b \in D \cup {a} |-> IF b = a THEN c ELSE l.heap[b]]
<1>1. a \notin D
  BY FreshAddress
<1>2. n = [first |-> l.first, last |-> l.last, heap |-> H]
  BY NewCell
<1> HIDE DEF a, n, c, H
<1>3. CASE w = <<>>
  <2>1. IsEmpty(l) /\ Len(w) = 0
    BY <1>3, ChainEnds
  <2>2. AppendTo(l, item) = Only(n, a)
    BY <2>1 DEF AppendTo, n, a
  <2>3. Only(n, a) = [first |-> a, last |-> a, heap |-> H]
    BY <1>2, OnlyIs
  <2>4. Linked(l, w, Len(w), a, c) = [first |-> a, last |-> a, heap |-> H]
    BY <2>1 DEF Linked, H
  <2> QED
    BY <2>2, <2>3, <2>4 DEF a, c
<1>4. CASE w # <<>>
  <2>1. ~IsEmpty(l) /\ Len(w) # 0 /\ Len(w) > 0 /\ l.last = w[Len(w)] /\ l.last \in D
    BY <1>4, ChainEnds
  <2>2. AppendTo(l, item) = AfterLast(n, a)
    BY <2>1 DEF AppendTo, n, a
  <2>3. AfterLast(n, a) =
          [first |-> l.first, last |-> a, heap |-> [H EXCEPT ![l.last].next = a]]
    BY <1>2, AfterLastIs
  <2>4. Linked(l, w, Len(w), a, c) =
          [first |-> l.first, last |-> a, heap |-> [H EXCEPT ![l.last].next = a]]
    <3>1. [H EXCEPT ![l.last].next = a] =
            [b \in D \cup {a} |->
               IF b = a THEN c ELSE IF b = l.last THEN [l.heap[b] EXCEPT !.next = a] ELSE l.heap[b]]
      BY <1>1, <2>1 DEF H
    <3> QED
      BY <2>1, <3>1 DEF Linked
  <2> QED
    BY <2>2, <2>3, <2>4 DEF a, c
<1> QED
  BY <1>3, <1>4

(* Where SortedInsert links the element in: behind an element with at most *)
(* its key and before one with a bigger key.                               *)
Fits(l, w, key, k) ==
    /\ k \in 0..Len(w)
    /\ k > 0 => l.heap[w[k]].key <= key
    /\ k < Len(w) => key < l.heap[w[k + 1]].key

LEMMA PlaceIsFirst ==
    ASSUME NEW l, NEW w, NEW X, Chain(l, w, X), NEW key \in Int
    PROVE  LET T == {i \in 1..Len(w) : i < Len(w) /\ key < l.heap[w[i + 1]].key}
           IN  /\ T = {} => Place(l, key) = 0
               /\ T # {} => Place(l, key) \in T /\ \A i \in T : Place(l, key) <= i
<1> DEFINE T == {i \in 1..Len(w) : i < Len(w) /\ key < l.heap[w[i + 1]].key}
           I == {i \in 1..Len(w) : l.heap[w[i]].next # Nil /\ key < l.heap[l.heap[w[i]].next].key}
<1>0. Len(w) \in Nat /\ Walk(l) = w /\ \A i \in 1..Len(w) : w[i] # Nil
  <2>1. w \in Seq(Nat \ {0})
    BY DEF Chain
  <2> QED
    BY <2>1, WalkIsChain, LenProperties DEF Nil
<1>1. I = T
  <2>1. ASSUME NEW i \in 1..Len(w)
        PROVE  /\ i < Len(w) => l.heap[w[i]].next = w[i + 1] /\ w[i + 1] # Nil
               /\ ~(i < Len(w)) => l.heap[w[i]].next = Nil
    <3>1. l.heap[w[i]].next = IF i < Len(w) THEN w[i + 1] ELSE Nil
      BY DEF Chain
    <3>2. i < Len(w) => i + 1 \in 1..Len(w)
      BY <1>0
    <3> QED
      BY <1>0, <3>1, <3>2
  <2> QED
    BY <2>1
<1>2. Place(l, key) = IF I # {} THEN Min(I) ELSE 0
  BY <1>0 DEF Place, SelectInSeq
<1>3. T \in SUBSET Nat
  BY <1>0
<1> HIDE DEF I, T
<1>4. T # {} => Min(T) \in T /\ \A i \in T : Min(T) <= i
  BY <1>3, MinNat
<1>5. /\ T = {} => Place(l, key) = 0
      /\ T # {} => Place(l, key) \in T /\ \A i \in T : Place(l, key) <= i
  BY <1>1, <1>2, <1>4
<1> QED
  BY <1>5 DEF T

(* List::SortedInsert links the element in where its key fits. *)
LEMMA InsertLinks ==
    ASSUME NEW l, NEW w, NEW X, Chain(l, w, X), NEW item, NEW key \in Int
    PROVE  \E k : /\ Fits(l, w, key, k)
                  /\ SortedInsert(l, item, key) =
                       Linked(l, w, k, NewAddress(l),
                              [item |-> item, key |-> key, next |-> IF k < Len(w) THEN w[k + 1] ELSE Nil])
<1> DEFINE a == NewAddress(l)
           n == New(l, item, key)
           c == ListElement(item, key)
           C(k) == [item |-> item, key |-> key, next |-> IF k < Len(w) THEN w[k + 1] ELSE Nil]
           D == DOMAIN l.heap
           H == [b \in D \cup {a} |-> IF b = a THEN c ELSE l.heap[b]]
           N == Len(w)
           Good(k) == Fits(l, w, key, k) /\ SortedInsert(l, item, key) = Linked(l, w, k, a, C(k))
<1>0. N \in Nat /\ Walk(l) = w /\ (w = <<>> <=> N = 0) /\ \A i \in 1..N : w[i] \in D
  BY ChainEnds, WalkIsChain
<1>1. a \notin D
  BY FreshAddress
<1>2. n = [first |-> l.first, last |-> l.last, heap |-> H]
  BY NewCell
<1>3. ASSUME NEW i \in 1..N
      PROVE  l.heap[w[i]].next = (IF i < N THEN w[i + 1] ELSE Nil) /\ l.heap[w[i]].key \in Int
  <2>1. l.heap[w[i]].next = (IF i < N THEN w[i + 1] ELSE Nil) /\ l.heap \in [D -> Cell(X)]
    BY DEF Chain
  <2> QED
    BY <1>0, <2>1 DEF Cell
<1> DEFINE T == {i \in 1..N : i < N /\ key < l.heap[w[i + 1]].key}
<1>4. /\ T = {} => Place(l, key) = 0
      /\ T # {} => Place(l, key) \in T /\ \A i \in T : Place(l, key) <= i
  BY PlaceIsFirst
<1> HIDE DEF a, n, H
<1>5. CASE w = <<>>
  <2>1. IsEmpty(l) /\ N = 0
    BY <1>5, ChainEnds
  <2>2. SortedInsert(l, item, key) = Only(n, a)
    BY <2>1 DEF SortedInsert, n, a
  <2>3. Only(n, a) = [first |-> a, last |-> a, heap |-> H]
    BY <1>2, OnlyIs
  <2>4. c = C(0)
    BY <2>1 DEF ListElement
  <2>5. Linked(l, w, 0, a, C(0)) = [first |-> a, last |-> a, heap |-> H]
    BY <2>1, <2>4 DEF Linked, H
  <2>6. Fits(l, w, key, 0)
    BY <2>1 DEF Fits
  <2> QED
    BY <2>2, <2>3, <2>5, <2>6 DEF a
<1>6. CASE w # <<>> /\ key < l.heap[w[1]].key
  <2>1. ~IsEmpty(l) /\ N # 0 /\ l.first = w[1] /\ 0 < N
    BY <1>0, <1>6, ChainEnds
  <2>2. SortedInsert(l, item, key) = [n EXCEPT !.heap[a].next = l.first, !.first = a]
    BY <1>6, <2>1 DEF SortedInsert, n, a
  <2>3. SortedInsert(l, item, key) =
          [first |-> a, last |-> l.last, heap |-> [H EXCEPT ![a].next = w[1]]]
    <3>1. LinkFirst(n, a, w[1]) =
            [first |-> a, last |-> l.last, heap |-> [H EXCEPT ![a].next = w[1]]]
      BY <1>2, LinkFirstIs
    <3> QED
      BY <2>1, <2>2, <3>1 DEF LinkFirst
  <2>4. C(0) = [c EXCEPT !.next = w[1]]
    BY <2>1 DEF ListElement
  <2> HIDE DEF C, c
  <2>5. [H EXCEPT ![a].next = w[1]] = [b \in D \cup {a} |-> IF b = a THEN C(0) ELSE l.heap[b]]
    BY <1>1, <2>4 DEF H
  <2>6. Linked(l, w, 0, a, C(0)) =
          [first |-> a, last |-> l.last,
           heap |-> [b \in D \cup {a} |-> IF b = a THEN C(0) ELSE l.heap[b]]]
    BY <2>1 DEF Linked
  <2>7. Fits(l, w, key, 0)
    BY <1>6, <2>1 DEF Fits
  <2>8. Good(0)
    BY <2>3, <2>5, <2>6, <2>7
  <2> QED
    BY <2>8 DEF a, C
<1>7. CASE w # <<>> /\ ~(key < l.heap[w[1]].key) /\ T # {}
  <2> DEFINE k == Place(l, key)
             G == [[H EXCEPT ![a].next = w[k + 1]] EXCEPT ![w[k]].next = a]
  <2>1. ~IsEmpty(l) /\ l.first = w[1]
    BY <1>7, ChainEnds
  <2>2. k \in 1..N /\ k < N /\ k # 0 /\ key < l.heap[w[k + 1]].key /\ \A i \in T : k <= i
    BY <1>0, <1>4, <1>7
  <2>3. l.heap[w[k]].next = w[k + 1] /\ w[k] \in D
    BY <1>0, <1>3, <2>2
  <2>4. SortedInsert(l, item, key) =
          [n EXCEPT !.heap[a].next = w[k + 1], !.heap[w[k]].next = a]
    BY <1>0, <1>7, <2>1, <2>2, <2>3 DEF SortedInsert, n, a
  <2>5. l.heap[w[k]].key <= key
    <3>1. CASE k = 1
      BY <1>3, <1>7, <2>2, <3>1
    <3>2. CASE k # 1
      <4>1. k - 1 \in 1..N /\ k - 1 < N /\ (k - 1) + 1 = k /\ ~(k <= k - 1)
        BY <1>0, <2>2, <3>2
      <4>2. k - 1 \notin T
        BY <2>2, <4>1
      <4> QED
        BY <1>3, <2>2, <4>1, <4>2
    <3> QED
      BY <3>1, <3>2
  <2> HIDE DEF k
  <2>6. SortedInsert(l, item, key) = [first |-> l.first, last |-> l.last, heap |-> G]
    <3> DEFINE x == w[k + 1]
               y == w[k]
    <3> HIDE DEF x, y
    <3>1. LinkAfter(n, a, x, y) =
            [first |-> l.first, last |-> l.last, heap |-> TwoLinks(H, a, x, y)]
      BY <1>2, LinkAfterIs
    <3> QED
      BY <2>4, <3>1 DEF LinkAfter, TwoLinks, x, y
  <2>7. C(k) = [c EXCEPT !.next = w[k + 1]]
    BY <2>2 DEF ListElement
  <2> HIDE DEF C, c
  <2>8. G = [b \in D \cup {a} |->
               IF b = a THEN C(k) ELSE IF b = w[k] THEN [l.heap[b] EXCEPT !.next = a] ELSE l.heap[b]]
    BY <1>1, <2>3, <2>7 DEF H
  <2>9. k > 0 /\ k # 0 /\ k # N
    BY <1>0, <2>2
  <2>10. Linked(l, w, k, a, C(k)) =
          [first |-> l.first, last |-> l.last,
           heap |-> [b \in D \cup {a} |->
              IF b = a THEN C(k) ELSE IF b = w[k] THEN [l.heap[b] EXCEPT !.next = a] ELSE l.heap[b]]]
    BY <2>9 DEF Linked
  <2>11. Fits(l, w, key, k)
    BY <1>0, <2>2, <2>5 DEF Fits
  <2> HIDE DEF G
  <2>12. Good(k)
    BY <2>6, <2>8, <2>10, <2>11
  <2> QED
    BY <2>12 DEF a, C
<1>8. CASE w # <<>> /\ ~(key < l.heap[w[1]].key) /\ T = {}
  <2>1. ~IsEmpty(l) /\ l.first = w[1] /\ l.last = w[N] /\ l.last \in D /\ N > 0 /\ N # 0 /\ N \in 1..N
    BY <1>0, <1>8, ChainEnds
  <2>2. SortedInsert(l, item, key) = AfterLast(n, a)
    BY <1>4, <1>8, <2>1 DEF SortedInsert, n, a
  <2>3. AfterLast(n, a) = [first |-> l.first, last |-> a, heap |-> [H EXCEPT ![l.last].next = a]]
    BY <1>2, AfterLastIs
  <2>4. c = C(N)
    BY <1>0 DEF ListElement
  <2> HIDE DEF C, c
  <2>5. [H EXCEPT ![l.last].next = a] =
          [b \in D \cup {a} |->
             IF b = a THEN C(N) ELSE IF b = l.last THEN [l.heap[b] EXCEPT !.next = a] ELSE l.heap[b]]
    BY <1>1, <2>1, <2>4 DEF H
  <2>6. Linked(l, w, N, a, C(N)) =
          [first |-> l.first, last |-> a,
           heap |-> [b \in D \cup {a} |->
             IF b = a THEN C(N) ELSE IF b = l.last THEN [l.heap[b] EXCEPT !.next = a] ELSE l.heap[b]]]
    BY <2>1 DEF Linked
  <2>7. l.heap[w[N]].key <= key
    <3>1. CASE N = 1
      BY <1>3, <1>8, <3>1
    <3>2. CASE N # 1
      <4>1. N - 1 \in 1..N /\ N - 1 < N /\ (N - 1) + 1 = N
        BY <1>0, <2>1, <3>2
      <4>2. N - 1 \notin T
        BY <1>8
      <4> QED
        BY <1>3, <2>1, <4>1, <4>2
    <3> QED
      BY <3>1, <3>2
  <2>8. Fits(l, w, key, N)
    BY <1>0, <2>1, <2>7 DEF Fits
  <2>9. Good(N)
    BY <2>2, <2>3, <2>5, <2>6, <2>8
  <2> QED
    BY <2>9 DEF a, C
<1> QED
  BY <1>5, <1>6, <1>7, <1>8

(* List::SortedRemove unlinks the first element and deletes it. *)
LEMMA RemoveUnlinks ==
    ASSUME NEW l, NEW w, NEW X, Chain(l, w, X), w # <<>>
    PROVE  SortedRemove(l) =
             [first |-> IF Len(w) = 1 THEN Nil ELSE w[2],
              last  |-> IF Len(w) = 1 THEN Nil ELSE l.last,
              heap  |-> [b \in DOMAIN l.heap \ {w[1]} |-> l.heap[b]]]
<1> DEFINE H == l.heap
           G == [b \in DOMAIN H \ {w[1]} |-> H[b]]
           m == IF l.first = l.last THEN Only(l, Nil) ELSE [l EXCEPT !.first = l.heap[l.first].next]
           f == IF Len(w) = 1 THEN Nil ELSE w[2]
           e == IF Len(w) = 1 THEN Nil ELSE l.last
<1>1. l = [first |-> l.first, last |-> l.last, heap |-> H]
  <2>1. l \in [first : Nat, last : Nat, heap : {l.heap}]
    BY DEF Chain
  <2> QED
    BY <2>1
<1>2. Len(w) \in Nat /\ Len(w) # 0 /\ l.first = w[1] /\ l.last = w[Len(w)] /\ 1 \in 1..Len(w)
      /\ Len(w) \in 1..Len(w)
  BY ChainEnds
<1>3. l.first = l.last <=> Len(w) = 1
  <2>1. \A i, j \in 1..Len(w) : w[i] = w[j] => i = j
    BY DEF Chain
  <2> QED
    BY <1>2, <2>1
<1>4. Len(w) # 1 => H[l.first].next = w[2]
  <2>1. \A i \in 1..Len(w) : H[w[i]].next = IF i < Len(w) THEN w[i + 1] ELSE Nil
    BY DEF Chain
  <2>2. H[w[1]].next = IF 1 < Len(w) THEN w[1 + 1] ELSE Nil
    BY <1>2, <2>1
  <2>3. ASSUME NEW N \in Nat, N # 0, N # 1 PROVE 1 < N
    BY <2>3
  <2>4. Len(w) # 1 => 1 < Len(w)
    BY <1>2, <2>3
  <2> HIDE DEF H
  <2> QED
    BY <1>2, <2>2, <2>4
<1> HIDE DEF H
<1>5. m = [first |-> f, last |-> e, heap |-> H]
  <2>1. CASE Len(w) = 1
    <3>1. Only(l, Nil) = [first |-> Nil, last |-> Nil, heap |-> H]
      BY <1>1, OnlyIs
    <3> QED
      BY <1>3, <2>1, <3>1
  <2>2. CASE Len(w) # 1
    <3>1. [l EXCEPT !.first = w[2]] = [first |-> w[2], last |-> l.last, heap |-> H]
      BY <1>1
    <3> QED
      BY <1>3, <1>4, <2>2, <3>1 DEF H
  <2> QED
    BY <2>1, <2>2
<1>6. SortedRemove(l) = [m EXCEPT !.heap = [b \in DOMAIN m.heap \ {w[1]} |-> m.heap[b]]]
  BY <1>2 DEF SortedRemove, Delete
<1> HIDE DEF m, f, e
<1>7. [b \in DOMAIN m.heap \ {w[1]} |-> m.heap[b]] = G
  BY <1>5
<1> HIDE DEF G
<1>8. SortedRemove(l) = [first |-> f, last |-> e, heap |-> G]
  BY <1>5, <1>6, <1>7
<1> QED
  BY <1>8 DEF f, e, G, H

LEMMA UnlinkedIsChain ==
    ASSUME NEW l, NEW w, NEW X, Chain(l, w, X), w # <<>>
    PROVE  Chain(SortedRemove(l), Tail(w), X)
<1> DEFINE m == SortedRemove(l)
           v == Tail(w)
           h == l.heap
           N == Len(w)
<1>0. /\ w \in Seq(Nat \ {0}) /\ N \in Nat /\ N # 0 /\ w \in [1..N -> DOMAIN h]
      /\ \A i \in 1..N : w[i] \in Nat \ {0}
      /\ l.first = w[1] /\ l.last = w[N] /\ l.last \in Nat
  <2>1. w \in Seq(Nat \ {0}) /\ l.last \in Nat
    BY DEF Chain
  <2> QED
    BY <2>1, ChainEnds
<1>1. /\ DOMAIN h = {w[i] : i \in 1..N} /\ h \in [DOMAIN h -> Cell(X)]
      /\ \A i, j \in 1..N : w[i] = w[j] => i = j
      /\ \A i \in 1..N : h[w[i]].next = IF i < N THEN w[i + 1] ELSE Nil
  BY DEF Chain
<1>2. v \in Seq(Nat \ {0}) /\ Len(v) = N - 1 /\ \A i \in 1..(N - 1) : v[i] = w[i + 1] /\ i + 1 \in 1..N
  BY <1>0
<1>3. /\ m.first = IF N = 1 THEN Nil ELSE w[2]
      /\ m.last = IF N = 1 THEN Nil ELSE l.last
      /\ m.heap = [b \in DOMAIN h \ {w[1]} |-> h[b]]
  <2> DEFINE f == IF N = 1 THEN Nil ELSE w[2]
             e == IF N = 1 THEN Nil ELSE l.last
             G == [b \in DOMAIN h \ {w[1]} |-> h[b]]
  <2>1. m = [first |-> f, last |-> e, heap |-> G]
    BY RemoveUnlinks
  <2> HIDE DEF f, e, G, m
  <2>2. m.first = f /\ m.last = e /\ m.heap = G
    BY <2>1
  <2> QED
    BY <2>2 DEF f, e, G
<1>4. m \in [first : Nat, last : Nat, heap : {m.heap}]
  <2>1. (IF N = 1 THEN Nil ELSE w[2]) \in Nat /\ (IF N = 1 THEN Nil ELSE l.last) \in Nat
    BY <1>0 DEF Nil
  <2>2. m = [first |-> IF N = 1 THEN Nil ELSE w[2], last |-> IF N = 1 THEN Nil ELSE l.last,
             heap |-> m.heap]
    BY <1>3, RemoveUnlinks
  <2> QED
    BY <2>1, <2>2
<1> HIDE DEF m, v, h, N
<1>5. \A i, j \in 1..Len(v) : v[i] = v[j] => i = j
  <2> SUFFICES ASSUME NEW i \in 1..(N - 1), NEW j \in 1..(N - 1), v[i] = v[j] PROVE i = j
    BY <1>2
  <2>1. w[i + 1] = w[j + 1] /\ i + 1 \in 1..N /\ j + 1 \in 1..N
    BY <1>2
  <2>2. i + 1 = j + 1
    BY <1>1, <2>1
  <2> QED
    BY <1>0, <2>2
<1>6. DOMAIN m.heap = {v[i] : i \in 1..Len(v)}
  <2>1. ASSUME NEW i \in 1..(N - 1) PROVE v[i] \in DOMAIN h \ {w[1]}
    <3>1. v[i] = w[i + 1] /\ i + 1 \in 1..N /\ i + 1 # 1 /\ 1 \in 1..N
      BY <1>0, <1>2
    <3> QED
      BY <1>1, <3>1
  <2>2. ASSUME NEW b \in DOMAIN h \ {w[1]} PROVE \E i \in 1..(N - 1) : v[i] = b
    <3>1. PICK j \in 1..N : b = w[j]
      BY <1>1
    <3>2. j - 1 \in 1..(N - 1) /\ (j - 1) + 1 = j
      BY <1>0, <3>1
    <3>3. v[j - 1] = w[j]
      BY <1>2, <3>2
    <3> QED
      BY <3>1, <3>2, <3>3
  <2> QED
    BY <1>2, <1>3, <2>1, <2>2
<1>7. m.heap \in [DOMAIN m.heap -> Cell(X)]
  BY <1>1, <1>3
<1>8. ASSUME NEW i \in 1..Len(v)
      PROVE  m.heap[v[i]].next = IF i < Len(v) THEN v[i + 1] ELSE Nil
  <2>1. i \in 1..(N - 1) /\ v[i] = w[i + 1] /\ i + 1 \in 1..N /\ i + 1 # 1 /\ 1 \in 1..N
        /\ (i < Len(v) <=> i + 1 < N)
    BY <1>0, <1>2
  <2>2. m.heap[v[i]] = h[w[i + 1]]
    BY <1>1, <1>3, <2>1
  <2>3. h[w[i + 1]].next = IF i + 1 < N THEN w[(i + 1) + 1] ELSE Nil
    BY <1>1, <2>1
  <2>4. i < Len(v) => v[i + 1] = w[(i + 1) + 1]
    BY <1>0, <1>2
  <2> QED
    BY <2>1, <2>2, <2>3, <2>4
<1>9. (v = <<>> <=> N = 1) /\ m.first = (IF v = <<>> THEN Nil ELSE v[1])
      /\ m.last = (IF v = <<>> THEN Nil ELSE v[Len(v)])
  <2>1. v = <<>> <=> N = 1
    BY <1>0, <1>2, EmptySeq
  <2>2. N # 1 => v[1] = w[2] /\ v[Len(v)] = w[N]
    <3>1. N # 1 => 1 \in 1..(N - 1) /\ N - 1 \in 1..(N - 1) /\ 1 + 1 = 2 /\ (N - 1) + 1 = N
      BY <1>0
    <3> QED
      BY <1>2, <3>1
  <2> QED
    BY <1>0, <1>3, <2>1, <2>2
<1> QED
  BY <1>2, <1>4, <1>5, <1>6, <1>7, <1>8, <1>9 DEF Chain, m, v

-----------------------------------------------------------------------------

(* The list and its items, as its users know them. *)
LEMMA ListFacts ==
    ASSUME NEW l, NEW X, IsList(l, X)
    PROVE  /\ WellFormed(l)
           /\ Items(l) \in Seq(X) /\ Len(Items(l)) = Len(Walk(l)) /\ Len(Walk(l)) \in Nat
           /\ \A i \in 1..Len(Walk(l)) : Items(l)[i] = l.heap[Walk(l)[i]].item
           /\ IsEmpty(l) <=> Items(l) = <<>>
           /\ IsEmpty(l) <=> DOMAIN l.heap = {}
           /\ ~IsEmpty(l) => l.first \in DOMAIN l.heap /\ First(l).item = Head(Items(l))
<1> DEFINE w == Walk(l)
           N == Len(w)
<1>1. Chain(l, w, X)
  BY DEF IsList
<1> HIDE DEF w
<1>2. /\ N \in Nat /\ (w = <<>> <=> N = 0) /\ w \in [1..N -> DOMAIN l.heap]
      /\ IsEmpty(l) <=> w = <<>>
      /\ w # <<>> => l.first = w[1] /\ l.last = w[N] /\ 1 \in 1..N
  BY <1>1, ChainEnds
<1>3. DOMAIN l.heap = {w[i] : i \in 1..N} /\ l.heap \in [DOMAIN l.heap -> Cell(X)] /\ DOMAIN w = 1..N
      /\ l.last = IF w = <<>> THEN Nil ELSE w[N]
  BY <1>1, <1>2 DEF Chain
<1>4. Items(l) = [i \in 1..N |-> l.heap[w[i]].item]
  BY <1>3 DEF Items, w
<1>5. ASSUME NEW i \in 1..N PROVE l.heap[w[i]].item \in X
  BY <1>2, <1>3 DEF Cell
<1>6. Items(l) \in [1..N -> X]
  BY <1>4, <1>5
<1>7. Items(l) \in Seq(X) /\ Len(Items(l)) = N
  BY <1>2, <1>6
<1>8. Items(l) = <<>> <=> N = 0
  BY <1>7, EmptySeq
<1>9. WellFormed(l)
  <2>1. Cardinality(DOMAIN l.heap) = N
    BY <1>1, ChainSize
  <2> QED
    BY <1>3, <2>1 DEF WellFormed, ToSet, Last, w
<1>10. N = 0 <=> DOMAIN l.heap = {}
  <2>1. (N # 0 => 1 \in 1..N) /\ (N = 0 => 1..N = {})
    BY <1>2
  <2>2. N = 0 => DOMAIN l.heap = {}
    BY <1>3, <2>1
  <2>3. N # 0 => w[1] \in DOMAIN l.heap
    BY <1>3, <2>1
  <2> QED
    BY <2>2, <2>3
<1>11. ~IsEmpty(l) => l.first \in DOMAIN l.heap /\ First(l).item = Head(Items(l))
  <2> SUFFICES ASSUME ~IsEmpty(l) PROVE l.first \in DOMAIN l.heap /\ First(l).item = Head(Items(l))
    OBVIOUS
  <2>1. l.first = w[1] /\ 1 \in 1..N
    BY <1>2
  <2>2. Head(Items(l)) = Items(l)[1]
    BY <1>7
  <2>3. Items(l)[1] = l.heap[w[1]].item
    BY <1>4, <2>1
  <2> QED
    BY <1>2, <2>1, <2>2, <2>3 DEF First
<1> QED
  BY <1>2, <1>4, <1>7, <1>8, <1>9, <1>10, <1>11 DEF w

LEMMA EmptyIsList ==
    ASSUME NEW X
    PROVE  /\ IsList(EmptyList, X) /\ IsEmpty(EmptyList) /\ Items(EmptyList) = <<>>
           /\ DOMAIN EmptyList.heap = {}
           /\ Ascending(EmptyList, Walk(EmptyList))
<1>1. <<>> \in Seq(Nat \ {0}) /\ Len(<<>>) = 0
  OBVIOUS
<1>2. EmptyList.heap = <<>> /\ DOMAIN EmptyList.heap = {} /\ EmptyList.first = Nil /\ EmptyList.last = Nil
  BY DEF EmptyList
<1>3. EmptyList \in [first : Nat, last : Nat, heap : {EmptyList.heap}]
  BY DEF EmptyList, Nil
<1>4. EmptyList.heap \in [DOMAIN EmptyList.heap -> Cell(X)]
  BY <1>2
<1>5. {<<>>[i] : i \in 1..Len(<<>>)} = {} /\ 1..Len(<<>>) = {}
  BY <1>1
<1>6. Chain(EmptyList, <<>>, X)
  BY <1>1, <1>2, <1>3, <1>4, <1>5 DEF Chain
<1>7. Walk(EmptyList) = <<>>
  BY <1>6, WalkIsChain
<1>8. IsList(EmptyList, X) /\ Ascending(EmptyList, Walk(EmptyList))
  BY <1>5, <1>6, <1>7 DEF IsList, Ascending
<1>9. IsEmpty(EmptyList)
  BY <1>2 DEF IsEmpty
<1> QED
  BY <1>2, <1>8, <1>9, ListFacts

(* What the elements that were there carry is not touched. *)
LEMMA LinkedCells ==
    ASSUME NEW l, NEW w, NEW X, Chain(l, w, X),
           NEW k \in 0..Len(w), NEW a \in Nat \ {0}, a \notin DOMAIN l.heap, NEW c
    PROVE  LET m == Linked(l, w, k, a, c) IN
           /\ DOMAIN m.heap = DOMAIN l.heap \cup {a} /\ m.heap[a] = c
           /\ \A b \in DOMAIN l.heap : /\ m.heap[b].item = l.heap[b].item
                                       /\ m.heap[b].key = l.heap[b].key
<1> DEFINE m == Linked(l, w, k, a, c)
<1>1. m.heap = [b \in DOMAIN l.heap \cup {a} |->
                  IF b = a THEN c
                  ELSE IF k > 0 /\ b = w[k] THEN [l.heap[b] EXCEPT !.next = a]
                  ELSE l.heap[b]]
  BY DEF Linked
<1>2. ASSUME NEW b \in DOMAIN l.heap
      PROVE  m.heap[b].item = l.heap[b].item /\ m.heap[b].key = l.heap[b].key
  <2>1. l.heap[b] \in Cell(X)
    BY DEF Chain
  <2>2. [l.heap[b] EXCEPT !.next = a].item = l.heap[b].item /\ [l.heap[b] EXCEPT !.next = a].key = l.heap[b].key
    BY <2>1 DEF Cell
  <2>3. m.heap[b] = l.heap[b] \/ m.heap[b] = [l.heap[b] EXCEPT !.next = a]
    BY <1>1
  <2> HIDE DEF m
  <2> QED
    BY <2>2, <2>3
<1>3. DOMAIN m.heap = DOMAIN l.heap \cup {a} /\ m.heap[a] = c
  BY <1>1
<1> QED
  BY <1>2, <1>3

(* threads/list.cc, List::Append: it adds its item at the end. *)
THEOREM AppendAddsAtEnd ==
    ASSUME NEW l, NEW X, IsList(l, X), NEW item \in X
    PROVE  /\ IsList(AppendTo(l, item), X)
           /\ Items(AppendTo(l, item)) = Append(Items(l), item)
<1> DEFINE w == Walk(l)
           N == Len(w)
           a == NewAddress(l)
           c == ListElement(item, 0)
           m == AppendTo(l, item)
           v == Spliced(w, N, a)
<1>1. Chain(l, w, X)
  BY DEF IsList
<1> HIDE DEF w
<1>2. a \in Nat \ {0} /\ a \notin DOMAIN l.heap
  BY <1>1, FreshAddress
<1>3. m = Linked(l, w, N, a, c)
  BY <1>1, AppendLinks
<1>4. N \in Nat /\ N \in 0..N /\ w \in [1..N -> DOMAIN l.heap]
  BY <1>1, ChainEnds
<1>5. c \in Cell(X) /\ c.item = item /\ c.next = IF N < N THEN w[N + 1] ELSE Nil
  BY <1>4 DEF Cell, ListElement, Nil
<1> HIDE DEF a, c, m
<1>6. Chain(m, v, X)
  BY <1>1, <1>2, <1>3, <1>4, <1>5, LinkedIsChain
<1>7. Walk(m) = v /\ IsList(m, X)
  BY <1>6, WalkIsChain DEF IsList
<1>8. /\ m.heap[a] = c
      /\ \A b \in DOMAIN l.heap : m.heap[b].item = l.heap[b].item
  BY <1>1, <1>2, <1>3, <1>4, LinkedCells
<1>9. Len(v) = N + 1 /\ v[N + 1] = a /\ \A i \in 1..N : v[i] = w[i]
  BY <1>4 DEF Spliced
<1>10. /\ Items(l) \in Seq(X) /\ Len(Items(l)) = N
       /\ \A i \in 1..N : Items(l)[i] = l.heap[w[i]].item
  BY ListFacts DEF w
<1> HIDE DEF v
<1>11. /\ Items(m) \in Seq(X) /\ Len(Items(m)) = N + 1
       /\ \A i \in 1..(N + 1) : Items(m)[i] = m.heap[v[i]].item
  BY <1>7, <1>9, ListFacts
<1>12. /\ Append(Items(l), item) \in Seq(X) /\ Len(Append(Items(l), item)) = N + 1
       /\ Append(Items(l), item)[N + 1] = item
       /\ \A i \in 1..N : Append(Items(l), item)[i] = Items(l)[i]
  BY <1>10, AppendProperties
<1>13. ASSUME NEW i \in 1..(N + 1) PROVE Items(m)[i] = Append(Items(l), item)[i]
  <2>1. CASE i = N + 1
    <3>1. Items(m)[N + 1] = m.heap[a].item
      BY <1>4, <1>9, <1>11
    <3> QED
      BY <1>5, <1>8, <1>12, <2>1, <3>1
  <2>2. CASE i \in 1..N
    <3>1. w[i] \in DOMAIN l.heap
      BY <1>4, <2>2
    <3>2. Items(m)[i] = m.heap[w[i]].item /\ Append(Items(l), item)[i] = l.heap[w[i]].item
      BY <1>9, <1>10, <1>11, <1>12, <2>2
    <3> QED
      BY <1>8, <3>1, <3>2
  <2>3. i = N + 1 \/ i \in 1..N
    BY <1>4
  <2> QED
    BY <2>1, <2>2, <2>3
<1>14. Items(m) = Append(Items(l), item)
  BY <1>11, <1>12, <1>13, SeqEqual
<1> QED
  BY <1>7, <1>14 DEF m

(* threads/list.cc, List::SortedRemove and Remove: they take the first     *)
(* element and leave the others as they are.                               *)
THEOREM RemoveTakesFirst ==
    ASSUME NEW l, NEW X, IsList(l, X), ~IsEmpty(l)
    PROVE  LET m == SortedRemove(l) IN
           /\ IsList(m, X)
           /\ Items(m) = Tail(Items(l))
           /\ DOMAIN m.heap = DOMAIN l.heap \ {l.first}
           /\ \A b \in DOMAIN m.heap : /\ m.heap[b].item = l.heap[b].item
                                       /\ m.heap[b].key = l.heap[b].key
           /\ Ascending(l, Walk(l)) => Ascending(m, Walk(m))
<1> DEFINE w == Walk(l)
           N == Len(w)
           m == SortedRemove(l)
           v == Tail(w)
<1>1. Chain(l, w, X)
  BY DEF IsList
<1> HIDE DEF w
<1>2. /\ w # <<>> /\ N \in Nat /\ N # 0 /\ l.first = w[1]
      /\ w \in Seq(Nat \ {0})
      /\ \A i, j \in 1..N : w[i] = w[j] => i = j
      /\ \A i \in 1..N : w[i] \in DOMAIN l.heap
  <2>1. w \in Seq(Nat \ {0}) /\ \A i, j \in 1..N : w[i] = w[j] => i = j
    BY <1>1 DEF Chain
  <2> QED
    BY <1>1, <2>1, ChainEnds
<1>3. Chain(m, v, X)
  BY <1>1, <1>2, UnlinkedIsChain
<1>4. m.heap = [b \in DOMAIN l.heap \ {w[1]} |-> l.heap[b]]
  <2> DEFINE f == IF N = 1 THEN Nil ELSE w[2]
             e == IF N = 1 THEN Nil ELSE l.last
             G == [b \in DOMAIN l.heap \ {w[1]} |-> l.heap[b]]
  <2>1. m = [first |-> f, last |-> e, heap |-> G]
    BY <1>1, <1>2, RemoveUnlinks
  <2> HIDE DEF f, e, G, m
  <2>2. m.heap = G
    BY <2>1
  <2> QED
    BY <2>2 DEF G
<1>5. Len(v) = N - 1 /\ \A i \in 1..(N - 1) : v[i] = w[i + 1] /\ i + 1 \in 1..N
  BY <1>2
<1> HIDE DEF m, v
<1>6. Walk(m) = v /\ IsList(m, X)
  BY <1>3, WalkIsChain DEF IsList
<1>a. ASSUME NEW i \in 1..(N - 1) PROVE m.heap[v[i]] = l.heap[w[i + 1]]
  <2>1. i + 1 \in 1..N /\ 1 \in 1..N /\ i + 1 # 1 /\ v[i] = w[i + 1]
    BY <1>2, <1>5
  <2>2. w[i + 1] \in DOMAIN l.heap \ {w[1]}
    BY <1>2, <2>1
  <2> QED
    BY <1>4, <2>1, <2>2
<1>7. Items(m) = Tail(Items(l))
  <2>1. /\ Items(l) \in Seq(X) /\ Len(Items(l)) = N
        /\ \A i \in 1..N : Items(l)[i] = l.heap[w[i]].item
    BY ListFacts DEF w
  <2>2. /\ Items(m) \in Seq(X) /\ Len(Items(m)) = N - 1
        /\ \A i \in 1..(N - 1) : Items(m)[i] = m.heap[v[i]].item
    BY <1>5, <1>6, ListFacts
  <2>3. Tail(Items(l)) \in Seq(X) /\ Len(Tail(Items(l))) = N - 1
        /\ \A i \in 1..(N - 1) : Tail(Items(l))[i] = Items(l)[i + 1]
    BY <1>2, <2>1
  <2>4. ASSUME NEW i \in 1..(N - 1) PROVE Items(m)[i] = Tail(Items(l))[i]
    BY <1>5, <1>a, <2>1, <2>2, <2>3
  <2> QED
    BY <2>2, <2>3, <2>4, SeqEqual
<1>8. Ascending(l, w) => Ascending(m, v)
  <2> SUFFICES ASSUME Ascending(l, w), NEW i \in 1..(N - 1), i < N - 1
               PROVE  m.heap[v[i]].key <= m.heap[v[i + 1]].key
    BY <1>5 DEF Ascending
  <2>1. i + 1 \in 1..(N - 1) /\ i + 1 \in 1..N /\ i + 1 < N
    BY <1>2
  <2>2. m.heap[v[i]] = l.heap[w[i + 1]] /\ m.heap[v[i + 1]] = l.heap[w[(i + 1) + 1]]
    BY <1>a, <2>1
  <2> QED
    BY <2>1, <2>2 DEF Ascending
<1>9. DOMAIN m.heap = DOMAIN l.heap \ {l.first} /\ \A b \in DOMAIN m.heap : m.heap[b] = l.heap[b]
  BY <1>2, <1>4
<1>10. /\ IsList(m, X) /\ Items(m) = Tail(Items(l)) /\ DOMAIN m.heap = DOMAIN l.heap \ {l.first}
       /\ \A b \in DOMAIN m.heap : m.heap[b].item = l.heap[b].item /\ m.heap[b].key = l.heap[b].key
       /\ Ascending(l, Walk(l)) => Ascending(m, Walk(m))
  BY <1>6, <1>7, <1>8, <1>9 DEF w
<1> QED
  BY <1>10 DEF m

(* threads/list.cc, List::SortedInsert: it adds one element, leaves the    *)
(* others as they are, and a list in the order of its keys stays so.       *)
THEOREM SortedInsertKeepsOrder ==
    ASSUME NEW l, NEW X, IsList(l, X), NEW item \in X, NEW key \in Int
    PROVE  LET m == SortedInsert(l, item, key)
               a == NewAddress(l) IN
           /\ IsList(m, X)
           /\ a \notin DOMAIN l.heap /\ DOMAIN m.heap = DOMAIN l.heap \cup {a}
           /\ m.heap[a].item = item /\ m.heap[a].key = key
           /\ \A b \in DOMAIN l.heap : /\ m.heap[b].item = l.heap[b].item
                                       /\ m.heap[b].key = l.heap[b].key
           /\ Ascending(l, Walk(l)) => Ascending(m, Walk(m))
<1> DEFINE w == Walk(l)
           N == Len(w)
           a == NewAddress(l)
           m == SortedInsert(l, item, key)
           C(k) == [item |-> item, key |-> key, next |-> IF k < Len(w) THEN w[k + 1] ELSE Nil]
<1>1. Chain(l, w, X)
  BY DEF IsList
<1> HIDE DEF w
<1>2. a \in Nat \ {0} /\ a \notin DOMAIN l.heap
  BY <1>1, FreshAddress
<1>3. PICK k : Fits(l, w, key, k) /\ m = Linked(l, w, k, a, C(k))
  BY <1>1, InsertLinks
<1> DEFINE c == C(k)
           v == Spliced(w, k, a)
<1>4. N \in Nat /\ k \in 0..N /\ w \in [1..N -> DOMAIN l.heap] /\ \A i \in 1..N : w[i] \in Nat
  <2>1. w \in Seq(Nat \ {0})
    BY <1>1 DEF Chain
  <2> QED
    BY <1>1, <1>3, <2>1, ChainEnds DEF Fits
<1>5. c \in Cell(X) /\ c.item = item /\ c.key = key /\ c.next = IF k < N THEN w[k + 1] ELSE Nil
  <2>1. (IF k < Len(w) THEN w[k + 1] ELSE Nil) \in Nat
    BY <1>4 DEF Nil
  <2> QED
    BY <2>1 DEF Cell
<1>6. m = Linked(l, w, k, a, c)
  BY <1>3
<1> HIDE DEF a, c, m
<1>7. Chain(m, v, X)
  BY <1>1, <1>2, <1>4, <1>5, <1>6, LinkedIsChain
<1>8. Walk(m) = v /\ IsList(m, X)
  BY <1>7, WalkIsChain DEF IsList
<1>9. /\ DOMAIN m.heap = DOMAIN l.heap \cup {a} /\ m.heap[a] = c
      /\ \A b \in DOMAIN l.heap : m.heap[b].item = l.heap[b].item /\ m.heap[b].key = l.heap[b].key
  BY <1>1, <1>2, <1>4, <1>6, LinkedCells
<1>10. /\ Len(v) = N + 1 /\ v[k + 1] = a
       /\ \A i \in 1..(N + 1) : i <= k => i \in 1..N /\ v[i] = w[i]
       /\ \A i \in 1..(N + 1) : i > k + 1 => i - 1 \in 1..N /\ v[i] = w[i - 1]
  BY <1>4 DEF Spliced
<1> HIDE DEF v
<1>11. Ascending(l, w) => Ascending(m, v)
  <2> SUFFICES ASSUME Ascending(l, w), NEW i \in 1..(N + 1), i < N + 1
               PROVE  m.heap[v[i]].key <= m.heap[v[i + 1]].key
    BY <1>10 DEF Ascending
  <2>0. i \in 1..N /\ i + 1 \in 1..(N + 1) /\ (i + 1) - 1 = i
    BY <1>4
  <2>1. CASE i < k
    <3>1. v[i] = w[i] /\ v[i + 1] = w[i + 1] /\ i \in 1..N /\ i + 1 \in 1..N /\ i < N
      BY <1>4, <1>10, <2>0, <2>1
    <3>2. m.heap[v[i]].key = l.heap[w[i]].key /\ m.heap[v[i + 1]].key = l.heap[w[i + 1]].key
      BY <1>4, <1>9, <3>1
    <3> QED
      BY <3>1, <3>2 DEF Ascending
  <2>2. CASE i = k
    <3>1. v[i] = w[k] /\ v[i + 1] = a /\ k > 0 /\ w[k] \in DOMAIN l.heap
      BY <1>4, <1>10, <2>0, <2>2
    <3> QED
      BY <1>3, <1>5, <1>9, <3>1 DEF Fits
  <2>3. CASE i = k + 1
    <3>1. v[i] = a /\ k < N /\ k + 1 \in 1..N
      BY <1>4, <1>10, <2>0, <2>3
    <3>2. v[i + 1] = w[k + 1]
      BY <1>4, <1>10, <2>0, <2>3
    <3>3. m.heap[v[i + 1]].key = l.heap[w[k + 1]].key /\ l.heap[w[k + 1]].key \in Int
      <4>1. w[k + 1] \in DOMAIN l.heap
        BY <1>4, <3>1
      <4>2. l.heap[w[k + 1]] \in Cell(X)
        BY <1>1, <4>1 DEF Chain
      <4> QED
        BY <1>9, <3>2, <4>1, <4>2 DEF Cell
    <3>4. key < l.heap[w[k + 1]].key
      BY <1>3, <3>1 DEF Fits
    <3> QED
      BY <1>5, <1>9, <3>1, <3>3, <3>4
  <2>4. CASE i > k + 1
    <3>1. i - 1 \in 1..N /\ i - 1 < N /\ (i - 1) + 1 = i /\ i + 1 > k + 1
      BY <1>4, <2>0, <2>4
    <3>2. v[i] = w[i - 1] /\ v[i + 1] = w[i]
      BY <1>10, <2>0, <2>4, <3>1
    <3>3. m.heap[v[i]].key = l.heap[w[i - 1]].key /\ m.heap[v[i + 1]].key = l.heap[w[i]].key
      BY <1>4, <1>9, <2>0, <3>1, <3>2
    <3>4. l.heap[w[i - 1]].key <= l.heap[w[(i - 1) + 1]].key
      BY <3>1 DEF Ascending
    <3> QED
      BY <3>1, <3>3, <3>4
  <2> QED
    BY <1>4, <2>1, <2>2, <2>3, <2>4
<1>12. /\ IsList(m, X)
       /\ a \notin DOMAIN l.heap /\ DOMAIN m.heap = DOMAIN l.heap \cup {a}
       /\ m.heap[a].item = item /\ m.heap[a].key = key
       /\ \A b \in DOMAIN l.heap : m.heap[b].item = l.heap[b].item /\ m.heap[b].key = l.heap[b].key
       /\ Ascending(l, Walk(l)) => Ascending(m, Walk(m))
  BY <1>2, <1>5, <1>8, <1>9, <1>11 DEF w
<1> QED
  BY <1>12 DEF a, m

(* The clock advances under the list: every key goes down by the same. *)
LEMMA ElapseKeepsOrder ==
    ASSUME NEW l, NEW X, IsList(l, X), NEW n \in Int
    PROVE  LET m == Elapse(l, n) IN
           /\ IsList(m, X) /\ m.first = l.first
           /\ DOMAIN m.heap = DOMAIN l.heap
           /\ \A b \in DOMAIN l.heap : /\ m.heap[b].item = l.heap[b].item
                                       /\ m.heap[b].key = l.heap[b].key - n
           /\ Ascending(l, Walk(l)) => Ascending(m, Walk(m))
<1> DEFINE w == Walk(l)
           N == Len(w)
           G == [a \in DOMAIN l.heap |-> [l.heap[a] EXCEPT !.key = @ - n]]
           m == Elapse(l, n)
<1>1. Chain(l, w, X)
  BY DEF IsList
<1> HIDE DEF w
<1>2. N \in Nat /\ w \in [1..N -> DOMAIN l.heap]
  BY <1>1, ChainEnds
<1>3. /\ l \in [first : Nat, last : Nat, heap : {l.heap}]
      /\ w \in Seq(Nat \ {0}) /\ \A i, j \in 1..N : w[i] = w[j] => i = j
      /\ DOMAIN l.heap = {w[i] : i \in 1..N} /\ l.heap \in [DOMAIN l.heap -> Cell(X)]
      /\ \A i \in 1..N : l.heap[w[i]].next = IF i < N THEN w[i + 1] ELSE Nil
      /\ l.first = (IF w = <<>> THEN Nil ELSE w[1]) /\ l.last = (IF w = <<>> THEN Nil ELSE w[N])
  BY <1>1 DEF Chain
<1>4. m = [l EXCEPT !.heap = G]
  BY DEF Elapse
<1>5. DOMAIN G = DOMAIN l.heap
  OBVIOUS
<1>6. ASSUME NEW b \in DOMAIN l.heap
      PROVE  /\ G[b] \in Cell(X) /\ G[b].item = l.heap[b].item /\ G[b].key = l.heap[b].key - n
             /\ G[b].next = l.heap[b].next /\ l.heap[b].key \in Int
  <2>1. l.heap[b] \in Cell(X)
    BY <1>3
  <2>2. G[b] = [l.heap[b] EXCEPT !.key = l.heap[b].key - n]
    OBVIOUS
  <2> HIDE DEF G
  <2> QED
    BY <2>1, <2>2 DEF Cell
<1>a. G \in [DOMAIN G -> Cell(X)]
  <2>1. \A b \in DOMAIN l.heap : [l.heap[b] EXCEPT !.key = @ - n] \in Cell(X)
    BY <1>6
  <2> QED
    BY <2>1
<1> HIDE DEF G, m
<1>7. m.heap = G /\ m.first = l.first /\ m.last = l.last /\ m \in [first : Nat, last : Nat, heap : {m.heap}]
  BY <1>3, <1>4
<1>8. \A i \in 1..N : G[w[i]].next = IF i < N THEN w[i + 1] ELSE Nil
  BY <1>2, <1>3, <1>6
<1>9. Chain(m, w, X)
  BY <1>3, <1>5, <1>7, <1>8, <1>a DEF Chain
<1>10. Walk(m) = w /\ IsList(m, X)
  BY <1>9, WalkIsChain DEF IsList
<1>11. Ascending(l, w) => Ascending(m, w)
  <2> SUFFICES ASSUME Ascending(l, w), NEW i \in 1..N, i < N
               PROVE  m.heap[w[i]].key <= m.heap[w[i + 1]].key
    BY DEF Ascending
  <2>1. l.heap[w[i]].key <= l.heap[w[i + 1]].key /\ i + 1 \in 1..N
    BY <1>2 DEF Ascending
  <2>2. w[i] \in DOMAIN l.heap /\ w[i + 1] \in DOMAIN l.heap
    BY <1>2, <2>1
  <2> QED
    BY <1>6, <1>7, <2>1, <2>2
<1>12. /\ IsList(m, X) /\ m.first = l.first /\ DOMAIN m.heap = DOMAIN l.heap
       /\ \A b \in DOMAIN l.heap : m.heap[b].item = l.heap[b].item /\ m.heap[b].key = l.heap[b].key - n
       /\ Ascending(l, Walk(l)) => Ascending(m, Walk(m))
  BY <1>5, <1>6, <1>7, <1>10, <1>11 DEF w
<1> QED
  BY <1>12 DEF m

(* In an ascending list every element has at most the key of any later one, *)
(* so none is due before the first.                                        *)
LEMMA AscendingIsSorted ==
    ASSUME NEW l, NEW X, IsList(l, X), Ascending(l, Walk(l))
    PROVE  Sorted(l) /\ \A b \in DOMAIN l.heap : First(l).key <= l.heap[b].key
<1> DEFINE w == Walk(l)
           N == Len(w)
           K(i) == l.heap[w[i]].key
<1>1. Chain(l, w, X) /\ Ascending(l, w)
  BY DEF IsList
<1> HIDE DEF w
<1>2. /\ N \in Nat /\ w \in [1..N -> DOMAIN l.heap] /\ (w = <<>> <=> N = 0)
      /\ w # <<>> => l.first = w[1] /\ 1 \in 1..N
  BY <1>1, ChainEnds
<1>3. DOMAIN l.heap = {w[i] : i \in 1..N} /\ l.heap \in [DOMAIN l.heap -> Cell(X)]
  BY <1>1 DEF Chain
<1>4. ASSUME NEW i \in 1..N PROVE K(i) \in Int
  BY <1>2, <1>3 DEF Cell
<1>5. \A i \in 1..N : i < N => K(i) <= K(i + 1)
  BY <1>1 DEF Ascending
<1> HIDE DEF K
<1>6. ASSUME NEW i \in 1..N, NEW j \in 1..N, i <= j PROVE K(i) <= K(j)
  <2> SUFFICES ASSUME ~(K(i) <= K(j)) PROVE FALSE
    OBVIOUS
  <2> DEFINE T == {k \in 1..N : i <= k /\ ~(K(i) <= K(k))}
  <2>1. T \in SUBSET Nat /\ T # {}
    BY <1>2, <1>6
  <2>2. PICK k \in T : \A y \in T : k <= y
    BY <2>1, LeastNat
  <2>3. k # i
    BY <1>4, <2>2
  <2>4. k - 1 \in 1..N /\ i <= k - 1 /\ k - 1 < N /\ (k - 1) + 1 = k /\ ~(k <= k - 1) /\ k \in 1..N
    BY <1>2, <2>2, <2>3
  <2>5. K(i) <= K(k - 1)
    BY <2>2, <2>4
  <2>6. K(k - 1) <= K((k - 1) + 1)
    BY <1>5, <2>4
  <2>7. K(i) <= K(k)
    BY <1>4, <2>4, <2>5, <2>6
  <2> QED
    BY <2>2, <2>7
<1>7. Sorted(l)
  <2>1. Elements(l) = [i \in 1..N |-> l.heap[w[i]]]
    <3>1. DOMAIN w = 1..N
      BY <1>2
    <3> QED
      BY <3>1 DEF Elements, w
  <2>2. ASSUME NEW i \in 1..N, NEW j \in 1..N, i < j
        PROVE  Elements(l)[i].key <= Elements(l)[j].key
    <3>1. K(i) <= K(j)
      BY <1>2, <1>6, <2>2
    <3> QED
      BY <2>1, <3>1 DEF K
  <2> QED
    BY <2>1, <2>2 DEF Sorted
<1>8. ASSUME NEW b \in DOMAIN l.heap PROVE First(l).key <= l.heap[b].key
  <2>1. PICK i \in 1..N : b = w[i]
    BY <1>3
  <2>2. l.first = w[1] /\ 1 \in 1..N /\ 1 <= i
    BY <1>2, <2>1
  <2>3. K(1) <= K(i)
    BY <1>6, <2>2
  <2> QED
    BY <2>1, <2>2, <2>3 DEF First, K
<1> QED
  BY <1>7, <1>8

-----------------------------------------------------------------------------
(* SynchList, for any threads and any number of items.                     *)

Item == 1..MaxItems

(* The threads inside a call of Append or Remove. *)
Busy == {t \in Callers : at[t] # "idle"}

(* The items in the list and those taken are all that was appended, and    *)
(* the calls of Append under way will not exceed the bound.                *)
ItemInv ==
    /\ IsList(list, Item) /\ removed \in Seq(Item) /\ appended \in Nat
    /\ lock \in Callers \cup {NULL} /\ at \in [Callers -> Places]
    /\ Monitor
    /\ IsFiniteSet(Busy)
    /\ appended + Cardinality(Appending) <= MaxItems
    /\ removed \o Items(list) = [i \in 1..appended |-> i]

-----------------------------------------------------------------------------

LEMMA AppendShift ==
    ASSUME NEW S, NEW r \in Seq(S), NEW s \in Seq(S), NEW x \in S
    PROVE  r \o Append(s, x) = Append(r \o s, x)
<1>1. /\ Len(r) \in Nat /\ Len(s) \in Nat
      /\ Append(s, x) \in Seq(S) /\ Len(Append(s, x)) = Len(s) + 1
      /\ \A i \in 1..Len(s) : Append(s, x)[i] = s[i]
      /\ Append(s, x)[Len(s) + 1] = x
  BY LenProperties, AppendProperties
<1>2. /\ r \o s \in Seq(S) /\ Len(r \o s) = Len(r) + Len(s)
      /\ \A i \in 1..(Len(r) + Len(s)) : (r \o s)[i] = IF i <= Len(r) THEN r[i] ELSE s[i - Len(r)]
  BY <1>1, ConcatProperties
<1>3. /\ Append(r \o s, x) \in Seq(S) /\ Len(Append(r \o s, x)) = Len(r) + Len(s) + 1
      /\ \A i \in 1..(Len(r) + Len(s)) : Append(r \o s, x)[i] = (r \o s)[i]
      /\ Append(r \o s, x)[Len(r) + Len(s) + 1] = x
  BY <1>2, AppendProperties
<1> DEFINE u == Append(s, x)
           v == Append(r \o s, x)
           c == r \o s
<1> HIDE DEF u, v, c
<1>4. /\ r \o u \in Seq(S) /\ Len(r \o u) = Len(r) + Len(s) + 1
      /\ \A i \in 1..(Len(r) + Len(s) + 1) : (r \o u)[i] = IF i <= Len(r) THEN r[i] ELSE u[i - Len(r)]
  BY <1>1, ConcatProperties DEF u
<1>5. ASSUME NEW i \in 1..(Len(r) + Len(s) + 1) PROVE (r \o u)[i] = v[i]
  <2>1. CASE i <= Len(r)
    <3>1. i \in 1..(Len(r) + Len(s))
      BY <1>1, <2>1
    <3> QED
      BY <1>2, <1>3, <1>4, <2>1, <3>1 DEF v
  <2>2. CASE i > Len(r) /\ i <= Len(r) + Len(s)
    <3>1. i \in 1..(Len(r) + Len(s)) /\ i - Len(r) \in 1..Len(s) /\ ~(i <= Len(r))
      BY <1>1, <2>2
    <3> QED
      BY <1>1, <1>2, <1>3, <1>4, <3>1 DEF u, v
  <2>3. CASE i = Len(r) + Len(s) + 1
    <3>1. i - Len(r) = Len(s) + 1 /\ ~(i <= Len(r))
      BY <1>1, <2>3
    <3>2. (r \o u)[i] = u[Len(s) + 1]
      BY <1>4, <3>1
    <3>3. u[Len(s) + 1] = x /\ v[i] = x
      BY <1>1, <1>3, <2>3 DEF u, v
    <3> QED
      BY <3>2, <3>3
  <2>4. i <= Len(r) \/ (i > Len(r) /\ i <= Len(r) + Len(s)) \/ i = Len(r) + Len(s) + 1
    BY <1>1
  <2> QED
    BY <2>1, <2>2, <2>3, <2>4
<1>6. r \o u = v
  BY <1>3, <1>4, <1>5, SeqEqual DEF v
<1> QED
  BY <1>6 DEF u, v

LEMMA MoveHead ==
    ASSUME NEW S, NEW r \in Seq(S), NEW s \in Seq(S), s # <<>>
    PROVE  Append(r, Head(s)) \o Tail(s) = r \o s
<1> DEFINE u == Append(r, Head(s))
           t == Tail(s)
           R == Len(r)
           N == Len(s)
<1>1. R \in Nat /\ N \in Nat /\ N # 0
  BY LenProperties, EmptySeq
<1>2. Head(s) \in S /\ Head(s) = s[1] /\ t \in Seq(S) /\ Len(t) = N - 1 /\ \A i \in 1..(N - 1) : t[i] = s[i + 1]
  BY <1>1, HeadTailProperties
<1>3. u \in Seq(S) /\ Len(u) = R + 1 /\ (\A i \in 1..R : u[i] = r[i]) /\ u[R + 1] = s[1]
  BY <1>1, <1>2, AppendProperties
<1> HIDE DEF u, t
<1>4. /\ u \o t \in Seq(S) /\ Len(u \o t) = R + N
      /\ \A i \in 1..(R + N) : (u \o t)[i] = IF i <= R + 1 THEN u[i] ELSE t[i - (R + 1)]
  <2>1. /\ u \o t \in Seq(S) /\ Len(u \o t) = Len(u) + Len(t)
        /\ \A i \in 1..(Len(u) + Len(t)) : (u \o t)[i] = IF i <= Len(u) THEN u[i] ELSE t[i - Len(u)]
    BY <1>2, <1>3, ConcatProperties
  <2>2. Len(u) + Len(t) = R + N
    BY <1>1, <1>2, <1>3
  <2> QED
    BY <1>3, <2>1, <2>2
<1>5. /\ r \o s \in Seq(S) /\ Len(r \o s) = R + N
      /\ \A i \in 1..(R + N) : (r \o s)[i] = IF i <= R THEN r[i] ELSE s[i - R]
  BY <1>1, ConcatProperties
<1>7. ASSUME NEW i \in 1..(R + N) PROVE (u \o t)[i] = (r \o s)[i]
  <2>1. CASE i <= R
    <3>1. i <= R + 1 /\ i \in 1..R
      BY <1>1, <2>1
    <3> QED
      BY <1>3, <1>4, <1>5, <2>1, <3>1
  <2>2. CASE i = R + 1
    <3>1. i <= R + 1 /\ ~(i <= R) /\ i - R = 1
      BY <1>1, <2>2
    <3> QED
      BY <1>3, <1>4, <1>5, <2>2, <3>1
  <2>3. CASE i > R + 1
    <3>1. ~(i <= R + 1) /\ ~(i <= R) /\ i - (R + 1) \in 1..(N - 1) /\ (i - (R + 1)) + 1 = i - R
      BY <1>1, <2>3
    <3>2. (u \o t)[i] = t[i - (R + 1)] /\ (r \o s)[i] = s[i - R]
      BY <1>4, <1>5, <3>1
    <3>3. t[i - (R + 1)] = s[(i - (R + 1)) + 1]
      BY <1>2, <3>1
    <3> QED
      BY <3>1, <3>2, <3>3
  <2>4. i <= R \/ i = R + 1 \/ i > R + 1
    BY <1>1
  <2> QED
    BY <2>1, <2>2, <2>3, <2>4
<1>8. u \o t = r \o s
  BY <1>4, <1>5, <1>7, SeqEqual
<1> QED
  BY <1>8 DEF u, t

-----------------------------------------------------------------------------

LEMMA InitItem == SynchListInit => ItemInv
<1> SUFFICES ASSUME SynchListInit PROVE ItemInv
  OBVIOUS
<1>1. IsList(list, Item) /\ Items(list) = <<>>
  BY EmptyIsList DEF SynchListInit
<1>2. removed \in Seq(Item) /\ appended \in Nat /\ lock \in Callers \cup {NULL} /\ at \in [Callers -> Places]
  BY DEF SynchListInit, Places
<1>3. Monitor
  BY SynchListAssumption DEF SynchListInit, Monitor
<1>4. Busy = {} /\ Appending = {}
  BY DEF SynchListInit, Busy, Appending
<1>5. IsFiniteSet(Busy) /\ appended + Cardinality(Appending) <= MaxItems
  BY <1>4, FS_EmptySet, SynchListAssumption DEF SynchListInit
<1>6. removed \o Items(list) = [i \in 1..appended |-> i]
  <2>1. <<>> \o <<>> = <<>>
    OBVIOUS
  <2>2. [i \in 1..0 |-> i] = <<>>
    OBVIOUS
  <2> QED
    BY <1>1, <2>1, <2>2 DEF SynchListInit
<1> QED
  BY <1>1, <1>2, <1>3, <1>5, <1>6 DEF ItemInv

(* A step that only moves threads between places. *)
LEMMA ItemUnmoved ==
    ASSUME ItemInv, UNCHANGED <<list, appended, removed>>, lock' \in Callers \cup {NULL},
           at' \in [Callers -> Places], Monitor', NEW t \in Callers, Busy' \subseteq Busy \cup {t},
           Appending' \subseteq Appending
           \/ (Appending' \subseteq Appending \cup {t} /\ appended + Cardinality(Appending) < MaxItems)
    PROVE  ItemInv'
<1>1. IsFiniteSet(Busy \cup {t}) /\ IsFiniteSet(Busy)
  BY FS_AddElement DEF ItemInv
<1>2. IsFiniteSet(Busy')
  BY <1>1, FS_Subset
<1>3. IsFiniteSet(Appending)
  <2>1. Appending \subseteq Busy
    BY DEF Appending, Busy
  <2> QED
    BY <1>1, <2>1, FS_Subset
<1>4. appended + Cardinality(Appending') <= MaxItems
  <2>0. appended \in Nat /\ Cardinality(Appending) \in Nat /\ MaxItems \in Nat
        /\ appended + Cardinality(Appending) <= MaxItems
    BY <1>3, FS_CardinalityType, SynchListAssumption DEF ItemInv
  <2>1. CASE Appending' \subseteq Appending
    <3>1. Cardinality(Appending') <= Cardinality(Appending) /\ IsFiniteSet(Appending')
      BY <1>3, <2>1, FS_Subset
    <3>2. Cardinality(Appending') \in Nat
      BY <3>1, FS_CardinalityType
    <3> QED
      BY <2>0, <3>1, <3>2
  <2>2. CASE Appending' \subseteq Appending \cup {t} /\ appended + Cardinality(Appending) < MaxItems
    <3> DEFINE U == Appending \cup {t}
    <3>1. IsFiniteSet(U) /\ Cardinality(U) <= Cardinality(Appending) + 1 /\ Cardinality(U) \in Nat
      <4>1. IsFiniteSet(U) /\ Cardinality(U) = IF t \in Appending THEN Cardinality(Appending)
                                                ELSE Cardinality(Appending) + 1
        BY <1>3, FS_AddElement
      <4> HIDE DEF U
      <4> QED
        BY <2>0, <4>1
    <3> HIDE DEF U
    <3>2. Cardinality(Appending') <= Cardinality(U) /\ IsFiniteSet(Appending')
      BY <2>2, <3>1, FS_Subset DEF U
    <3>3. Cardinality(Appending') \in Nat
      BY <3>2, FS_CardinalityType
    <3> QED
      BY <2>0, <2>2, <3>1, <3>2, <3>3
  <2> QED
    BY <2>1, <2>2
<1> QED
  BY <1>2, <1>4 DEF ItemInv

LEMMA ItemAppend == ASSUME ItemInv, NEW t \in Callers, AppendItem(t) PROVE ItemInv'
<1>1. /\ at[t] = "append" /\ list' = AppendTo(list, appended + 1) /\ appended' = appended + 1
      /\ at' = [at EXCEPT ![t] = "signal"] /\ UNCHANGED <<lock, removed>>
  BY DEF AppendItem, Goto
<1>2. /\ IsList(list, Item) /\ removed \in Seq(Item) /\ appended \in Nat
      /\ lock \in Callers \cup {NULL} /\ at \in [Callers -> Places] /\ Monitor /\ IsFiniteSet(Busy)
      /\ appended + Cardinality(Appending) <= MaxItems
      /\ removed \o Items(list) = [i \in 1..appended |-> i]
  BY DEF ItemInv
<1>3. at' \in [Callers -> Places] /\ Monitor'
  BY <1>1, <1>2 DEF Places, Monitor
<1>4. Busy' = Busy /\ Appending' = Appending \ {t} /\ t \in Appending /\ Appending \subseteq Busy
  BY <1>1, <1>2 DEF Busy, Appending
<1>5. appended + 1 + Cardinality(Appending') <= MaxItems /\ Cardinality(Appending') \in Nat
  <2>1. IsFiniteSet(Appending)
    BY <1>2, <1>4, FS_Subset
  <2>2. IsFiniteSet(Appending') /\ Cardinality(Appending') = Cardinality(Appending) - 1
    BY <1>4, <2>1, FS_RemoveElement
  <2>3. Cardinality(Appending) \in Nat /\ Cardinality(Appending') \in Nat
    BY <2>1, <2>2, FS_CardinalityType
  <2> QED
    BY <1>2, <2>2, <2>3, SynchListAssumption
<1>6. appended + 1 \in Item
  BY <1>2, <1>5, SynchListAssumption DEF Item
<1> DEFINE x == appended + 1
           s == Items(list)
<1>7. IsList(list', Item) /\ Items(list') = Append(s, x)
  BY <1>1, <1>2, <1>6, AppendAddsAtEnd
<1>8. s \in Seq(Item)
  BY <1>2, ListFacts
<1>9. removed \o Append(s, x) = Append(removed \o s, x)
  <2>1. x \in Item /\ removed \in Seq(Item)
    BY <1>2, <1>6
  <2> HIDE DEF s, x
  <2> QED
    BY <1>8, <2>1, AppendShift
<1>10. Append([i \in 1..appended |-> i], x) = [i \in 1..x |-> i]
  <2> DEFINE c == [i \in 1..appended |-> i]
             e == [i \in 1..x |-> i]
  <2>1. c \in Seq(Nat) /\ Len(c) = appended /\ \A i \in 1..appended : c[i] = i
    BY <1>2
  <2>2. e \in Seq(Nat) /\ Len(e) = x /\ \A i \in 1..x : e[i] = i
    BY <1>2
  <2>3. x \in Nat
    BY <1>2
  <2> HIDE DEF c, e
  <2>4. /\ Append(c, x) \in Seq(Nat) /\ Len(Append(c, x)) = appended + 1
        /\ (\A i \in 1..appended : Append(c, x)[i] = c[i]) /\ Append(c, x)[appended + 1] = x
    BY <2>1, <2>3, AppendProperties
  <2>5. ASSUME NEW i \in 1..x PROVE Append(c, x)[i] = e[i]
    <3>1. i \in 1..appended \/ i = appended + 1
      BY <1>2
    <3> QED
      BY <2>1, <2>2, <2>4, <3>1
  <2>6. Append(c, x) = e
    BY <2>2, <2>4, <2>5, SeqEqual
  <2> QED
    BY <2>6 DEF c, e
<1>11. removed' \o Items(list') = [i \in 1..appended' |-> i]
  BY <1>1, <1>2, <1>7, <1>9, <1>10
<1>12. appended' \in Nat /\ appended' + Cardinality(Appending') <= MaxItems /\ IsFiniteSet(Busy')
  BY <1>1, <1>2, <1>4, <1>5
<1> QED
  BY <1>1, <1>2, <1>3, <1>7, <1>11, <1>12 DEF ItemInv

LEMMA ItemRemove == ASSUME ItemInv, NEW t \in Callers, RemoveItem(t) PROVE ItemInv'
<1>1. /\ at[t] = "test" /\ ~IsEmpty(list) /\ removed' = Append(removed, First(list).item)
      /\ list' = SortedRemove(list) /\ at' = [at EXCEPT ![t] = "release"] /\ UNCHANGED <<lock, appended>>
  BY DEF RemoveItem, Goto
<1>2. /\ IsList(list, Item) /\ removed \in Seq(Item) /\ appended \in Nat
      /\ lock \in Callers \cup {NULL} /\ at \in [Callers -> Places] /\ Monitor /\ IsFiniteSet(Busy)
      /\ appended + Cardinality(Appending) <= MaxItems
      /\ removed \o Items(list) = [i \in 1..appended |-> i]
  BY DEF ItemInv
<1>3. at' \in [Callers -> Places] /\ Monitor'
  BY <1>1, <1>2 DEF Places, Monitor
<1>4. Busy' = Busy /\ Appending' = Appending
  BY <1>1, <1>2 DEF Busy, Appending
<1> DEFINE s == Items(list)
<1>5. s \in Seq(Item) /\ s # <<>> /\ First(list).item = Head(s)
  BY <1>1, <1>2, ListFacts
<1>6. IsList(list', Item) /\ Items(list') = Tail(s)
  BY <1>1, <1>2, RemoveTakesFirst
<1>7. Append(removed, Head(s)) \o Tail(s) = removed \o s
  BY <1>2, <1>5, MoveHead
<1>8. removed' \in Seq(Item)
  BY <1>1, <1>2, <1>5, HeadTailProperties, AppendProperties
<1>9. removed' \o Items(list') = [i \in 1..appended' |-> i]
  BY <1>1, <1>2, <1>5, <1>6, <1>7
<1> QED
  BY <1>1, <1>2, <1>3, <1>4, <1>6, <1>8, <1>9 DEF ItemInv

LEMMA ItemStep == ItemInv /\ [SynchListNext]_lvars => ItemInv'
<1> SUFFICES ASSUME ItemInv, [SynchListNext]_lvars PROVE ItemInv'
  OBVIOUS
<1>0. lock \in Callers \cup {NULL} /\ at \in [Callers -> Places] /\ Monitor /\ NULL \notin Callers
  BY SynchListAssumption DEF ItemInv
<1>1. ASSUME NEW t \in Callers, Call(t, "remove1") PROVE ItemInv'
  <2>1. at[t] = "idle" /\ at' = [at EXCEPT ![t] = "remove1"] /\ UNCHANGED <<list, lock, appended, removed>>
    BY <1>1 DEF Call, Goto
  <2>2. at' \in [Callers -> Places] /\ Monitor' /\ Busy' \subseteq Busy \cup {t} /\ Appending' \subseteq Appending
    BY <1>0, <2>1 DEF Places, Monitor, Busy, Appending
  <2> QED
    BY <1>0, <2>1, <2>2, ItemUnmoved
<1>2. ASSUME NEW t \in Callers, Call(t, "append1"), appended + Cardinality(Appending) < MaxItems PROVE ItemInv'
  <2>1. at[t] = "idle" /\ at' = [at EXCEPT ![t] = "append1"] /\ UNCHANGED <<list, lock, appended, removed>>
    BY <1>2 DEF Call, Goto
  <2>2. /\ at' \in [Callers -> Places] /\ Monitor' /\ Busy' \subseteq Busy \cup {t}
        /\ Appending' \subseteq Appending \cup {t}
    BY <1>0, <2>1 DEF Places, Monitor, Busy, Appending
  <2> QED
    BY <1>0, <1>2, <2>1, <2>2, ItemUnmoved
<1>3. ASSUME NEW t \in Callers, NEW from \in {"append1", "remove1", "woken"}, NEW to \in {"append", "test"},
             from = "append1" <=> to = "append", Acquire(t, from, to)
      PROVE  ItemInv'
  <2>1. at[t] = from /\ lock = NULL /\ lock' = t /\ at' = [at EXCEPT ![t] = to] /\ UNCHANGED <<list, appended, removed>>
    BY <1>3 DEF Acquire, Goto
  <2>2. at' \in [Callers -> Places] /\ Monitor' /\ Busy' \subseteq Busy \cup {t} /\ Appending' \subseteq Appending
    BY <1>0, <1>3, <2>1 DEF Places, Monitor, Busy, Appending
  <2> QED
    BY <1>0, <2>1, <2>2, ItemUnmoved
<1>4. ASSUME NEW t \in Callers, Signal(t) PROVE ItemInv'
  <2>1. at[t] = "signal" /\ UNCHANGED <<list, lock, appended, removed>>
    BY <1>4 DEF Signal
  <2>2. CASE Sleeping = {}
    <3>1. at' = [at EXCEPT ![t] = "release"]
      BY <1>4, <2>2 DEF Signal, Goto
    <3>2. at' \in [Callers -> Places] /\ Monitor' /\ Busy' \subseteq Busy \cup {t} /\ Appending' \subseteq Appending
      BY <1>0, <2>1, <3>1 DEF Places, Monitor, Busy, Appending
    <3> QED
      BY <1>0, <2>1, <3>2, ItemUnmoved
  <2>3. CASE Sleeping # {}
    <3>1. PICK u \in Sleeping : at' = [at EXCEPT ![t] = "release", ![u] = "woken"]
      BY <1>4, <2>3 DEF Signal
    <3>2. u \in Callers /\ at[u] = "sleep" /\ u # t
      BY <2>1 DEF Sleeping
    <3>3. \A v \in Callers : at'[v] = IF v = t THEN "release" ELSE IF v = u THEN "woken" ELSE at[v]
      BY <1>0, <3>1, <3>2
    <3>4. at' \in [Callers -> Places] /\ Monitor' /\ Busy' \subseteq Busy \cup {t} /\ Appending' \subseteq Appending
      <4>1. at' \in [Callers -> Places]
        BY <1>0, <3>1 DEF Places
      <4> QED
        BY <1>0, <2>1, <3>2, <3>3, <4>1 DEF Monitor, Busy, Appending
    <3> QED
      BY <1>0, <2>1, <3>4, ItemUnmoved
  <2> QED
    BY <2>2, <2>3
<1>5. ASSUME NEW t \in Callers, Wait(t) PROVE ItemInv'
  <2>1. at[t] = "test" /\ lock' = NULL /\ at' = [at EXCEPT ![t] = "sleep"] /\ UNCHANGED <<list, appended, removed>>
    BY <1>5 DEF Wait, Goto
  <2>2. at' \in [Callers -> Places] /\ Monitor' /\ Busy' \subseteq Busy \cup {t} /\ Appending' \subseteq Appending
    BY <1>0, <2>1 DEF Places, Monitor, Busy, Appending
  <2> QED
    BY <1>0, <2>1, <2>2, ItemUnmoved
<1>6. ASSUME NEW t \in Callers, Release(t) PROVE ItemInv'
  <2>1. at[t] = "release" /\ lock' = NULL /\ at' = [at EXCEPT ![t] = "idle"] /\ UNCHANGED <<list, appended, removed>>
    BY <1>6 DEF Release, Goto
  <2>2. at' \in [Callers -> Places] /\ Monitor' /\ Busy' \subseteq Busy \cup {t} /\ Appending' \subseteq Appending
    BY <1>0, <2>1 DEF Places, Monitor, Busy, Appending
  <2> QED
    BY <1>0, <2>1, <2>2, ItemUnmoved
<1>7. CASE UNCHANGED lvars
  BY <1>7 DEF lvars, ItemInv, Monitor, Busy, Appending
<1> QED
  BY <1>1, <1>2, <1>3, <1>4, <1>5, <1>6, <1>7, ItemAppend, ItemRemove DEF SynchListNext, Inside

(* threads/list.cc and threads/synchlist.cc: for any threads and any       *)
(* number of calls, the items come out in the order in which they went in, *)
(* each once, and the list's pointers stay consistent.                     *)
THEOREM ItemsComeInOrder == SynchListSpec => []FirstInFirstOut
<1>1. ItemInv => FirstInFirstOut
  BY ListFacts DEF ItemInv, FirstInFirstOut
<1> QED
  BY <1>1, InitItem, ItemStep, PTL DEF SynchListSpec

-----------------------------------------------------------------------------

(* The threads on their way to an item. *)
Coming == {t \in Callers : \/ at[t] \in {"woken", "signal"}
                           \/ at[t] = "test" /\ ~IsEmpty(list)}

AwaitInv == ItemInv /\ (Sleeping # {} => Cardinality(Coming) >= Len(Items(list)))

LEMMA ComingFinite == ASSUME ItemInv PROVE IsFiniteSet(Coming) /\ Cardinality(Coming) \in Nat
<1>1. Coming \subseteq Busy
  BY DEF Coming, Busy
<1> QED
  BY <1>1, FS_Subset, FS_CardinalityType DEF ItemInv

LEMMA ComingFiniteNext == ASSUME ItemInv' PROVE IsFiniteSet(Coming') /\ Cardinality(Coming') \in Nat
<1>1. Coming' \subseteq Busy' /\ IsFiniteSet(Busy')
  BY DEF Coming, Busy, ItemInv
<1> QED
  BY <1>1, FS_Subset, FS_CardinalityType

(* Nobody comes or goes but perhaps one more thread comes. *)
LEMMA AwaitKept ==
    ASSUME AwaitInv, ItemInv', list' = list, Sleeping' # {} => Sleeping # {},
           Coming \subseteq Coming' \/ IsEmpty(list)
    PROVE  AwaitInv'
<1>1. IsFiniteSet(Coming) /\ Cardinality(Coming) \in Nat
  BY ComingFinite DEF AwaitInv
<1>2. IsFiniteSet(Coming') /\ Cardinality(Coming') \in Nat
  BY ComingFiniteNext
<1>3. IsList(list, Item)
  BY DEF AwaitInv, ItemInv
<1>4. Len(Items(list)) \in Nat /\ (IsEmpty(list) <=> Items(list) = <<>>)
  BY <1>3, ListFacts
<1>5. CASE IsEmpty(list)
  <2>1. Len(Items(list)) = 0
    BY <1>4, <1>5
  <2> QED
    BY <1>2, <2>1 DEF AwaitInv
<1>6. CASE Coming \subseteq Coming'
  <2>1. Cardinality(Coming) <= Cardinality(Coming')
    BY <1>2, <1>6, FS_Subset
  <2> QED
    BY <1>1, <1>2, <1>4, <2>1 DEF AwaitInv
<1> QED
  BY <1>5, <1>6

LEMMA AwaitAppend == ASSUME AwaitInv, ItemInv', NEW t \in Callers, AppendItem(t) PROVE AwaitInv'
<1>1. /\ at[t] = "append" /\ list' = AppendTo(list, appended + 1)
      /\ at' = [at EXCEPT ![t] = "signal"]
  BY DEF AppendItem, Goto
<1>2. at \in [Callers -> Places] /\ Monitor /\ NULL \notin Callers
  BY SynchListAssumption DEF AwaitInv, ItemInv
<1>3. Sleeping' = Sleeping
  BY <1>1, <1>2 DEF Sleeping
<1>4. Coming' = Coming \cup {t} /\ t \notin Coming
  <2>1. \A u \in Callers : at[u] = "test" => u = t
    BY <1>1, <1>2 DEF Monitor
  <2>2. \A u \in Callers : at'[u] = IF u = t THEN "signal" ELSE at[u]
    BY <1>1, <1>2
  <2> QED
    BY <1>1, <2>1, <2>2 DEF Coming
<1>5. IsFiniteSet(Coming) /\ Cardinality(Coming) \in Nat
  BY ComingFinite DEF AwaitInv
<1>6. Cardinality(Coming') = Cardinality(Coming) + 1
  BY <1>4, <1>5, FS_AddElement
<1>7. Items(list) \in Seq(Item) /\ Items(list') = Append(Items(list), appended + 1)
  <2>1. IsList(list, Item) /\ appended' = appended + 1 /\ appended \in Nat
    BY DEF AwaitInv, ItemInv, AppendItem
  <2>2. appended + 1 \in Item
    <3>1. Appending' \subseteq Busy' /\ IsFiniteSet(Busy') /\ appended' + Cardinality(Appending') <= MaxItems
      BY DEF ItemInv, Appending, Busy
    <3>2. Cardinality(Appending') \in Nat
      BY <3>1, FS_Subset, FS_CardinalityType
    <3> QED
      BY <2>1, <3>1, <3>2, SynchListAssumption DEF Item
  <2> QED
    BY <1>1, <2>1, <2>2, AppendAddsAtEnd, ListFacts
<1>8. Len(Items(list')) = Len(Items(list)) + 1 /\ Len(Items(list)) \in Nat
  BY <1>7
<1> QED
  BY <1>3, <1>5, <1>6, <1>8 DEF AwaitInv

LEMMA AwaitRemove == ASSUME AwaitInv, ItemInv', NEW t \in Callers, RemoveItem(t) PROVE AwaitInv'
<1>1. /\ at[t] = "test" /\ ~IsEmpty(list) /\ list' = SortedRemove(list)
      /\ at' = [at EXCEPT ![t] = "release"]
  BY DEF RemoveItem, Goto
<1>2. at \in [Callers -> Places] /\ Monitor /\ NULL \notin Callers
  BY SynchListAssumption DEF AwaitInv, ItemInv
<1>3. Sleeping' = Sleeping
  BY <1>1, <1>2 DEF Sleeping
<1>4. Coming' = Coming \ {t} /\ t \in Coming
  <2>1. \A u \in Callers : at[u] = "test" => u = t
    BY <1>1, <1>2 DEF Monitor
  <2>2. \A u \in Callers : at'[u] = IF u = t THEN "release" ELSE at[u]
    BY <1>1, <1>2
  <2> QED
    BY <1>1, <2>1, <2>2 DEF Coming
<1>5. IsFiniteSet(Coming) /\ Cardinality(Coming) \in Nat
  BY ComingFinite DEF AwaitInv
<1>6. Cardinality(Coming') = Cardinality(Coming) - 1
  BY <1>4, <1>5, FS_RemoveElement
<1>7. Items(list) \in Seq(Item) /\ Items(list) # <<>> /\ Items(list') = Tail(Items(list))
  <2>1. IsList(list, Item)
    BY DEF AwaitInv, ItemInv
  <2> QED
    BY <1>1, <2>1, RemoveTakesFirst, ListFacts
<1>8. Len(Items(list')) = Len(Items(list)) - 1 /\ Len(Items(list)) \in Nat
  BY <1>7
<1> QED
  BY <1>3, <1>5, <1>6, <1>8 DEF AwaitInv

(* Condition::Signal: the signaller hands its place on to the one it wakes. *)
LEMMA AwaitSignal == ASSUME AwaitInv, ItemInv', NEW t \in Callers, Signal(t) PROVE AwaitInv'
<1>1. at[t] = "signal" /\ list' = list
  BY DEF Signal
<1>2. at \in [Callers -> Places]
  BY DEF AwaitInv, ItemInv
<1>3. CASE Sleeping = {}
  <2>1. at' = [at EXCEPT ![t] = "release"]
    BY <1>3 DEF Signal, Goto
  <2>2. Sleeping' = {}
    BY <1>2, <1>3, <2>1 DEF Sleeping
  <2> QED
    BY <2>2 DEF AwaitInv
<1>4. CASE Sleeping # {}
  <2>1. PICK u \in Sleeping : at' = [at EXCEPT ![t] = "release", ![u] = "woken"]
    BY <1>4 DEF Signal
  <2>2. u \in Callers /\ at[u] = "sleep" /\ u # t
    BY <1>1 DEF Sleeping
  <2>3. \A v \in Callers : at'[v] = IF v = t THEN "release" ELSE IF v = u THEN "woken" ELSE at[v]
    BY <1>2, <2>1, <2>2
  <2>4. Coming' = (Coming \ {t}) \cup {u} /\ t \in Coming /\ u \notin Coming
    BY <1>1, <2>2, <2>3 DEF Coming
  <2>5. IsFiniteSet(Coming) /\ Cardinality(Coming) \in Nat
    BY ComingFinite DEF AwaitInv
  <2>6. IsFiniteSet(Coming \ {t}) /\ Cardinality(Coming \ {t}) = Cardinality(Coming) - 1
    BY <2>4, <2>5, FS_RemoveElement
  <2>7. Cardinality((Coming \ {t}) \cup {u}) = Cardinality(Coming \ {t}) + 1
    BY <2>4, <2>6, FS_AddElement
  <2>8. Cardinality(Coming') = Cardinality(Coming)
    BY <2>4, <2>5, <2>6, <2>7
  <2> QED
    BY <1>1, <1>4, <2>8 DEF AwaitInv
<1> QED
  BY <1>3, <1>4

LEMMA AwaitStep == AwaitInv /\ [SynchListNext]_lvars => AwaitInv'
<1> SUFFICES ASSUME AwaitInv, [SynchListNext]_lvars PROVE AwaitInv'
  OBVIOUS
<1>0. ItemInv'
  BY ItemStep DEF AwaitInv
<1>1. at \in [Callers -> Places]
  BY DEF AwaitInv, ItemInv
<1>2. ASSUME NEW t \in Callers, NEW from \in Places, NEW to \in Places, at[t] = from,
             at' = [at EXCEPT ![t] = to], list' = list,
             to # "sleep" \/ IsEmpty(list),
             from \notin {"woken", "signal", "test"} \/ (from = "woken" /\ to = "test") \/ IsEmpty(list)
      PROVE  AwaitInv'
  <2>1. \A u \in Callers : at'[u] = IF u = t THEN to ELSE at[u]
    BY <1>1, <1>2
  <2>2. CASE IsEmpty(list)
    <3>1. Len(Items(list')) = 0 /\ Cardinality(Coming') \in Nat
      <4>1. IsList(list, Item)
        BY DEF AwaitInv, ItemInv
      <4>2. Items(list) = <<>>
        BY <2>2, <4>1, ListFacts
      <4>3. Cardinality(Coming') \in Nat
        BY <1>0, ComingFiniteNext
      <4> QED
        BY <1>2, <4>2, <4>3
    <3> QED
      BY <1>0, <3>1 DEF AwaitInv
  <2>3. CASE ~IsEmpty(list)
    <3>1. Coming \subseteq Coming'
      BY <1>2, <2>1, <2>3 DEF Coming
    <3>2. Sleeping' # {} => Sleeping # {}
      BY <1>2, <2>1, <2>3 DEF Sleeping
    <3> QED
      BY <1>0, <1>2, <3>1, <3>2, AwaitKept
  <2> QED
    BY <2>2, <2>3
<1>3. ASSUME NEW t \in Callers, Call(t, "remove1") \/ Call(t, "append1") PROVE AwaitInv'
  BY <1>2, <1>3 DEF Call, Goto, Places
<1>4. ASSUME NEW t \in Callers, Acquire(t, "append1", "append") \/ Acquire(t, "remove1", "test") PROVE AwaitInv'
  BY <1>2, <1>4 DEF Acquire, Goto, Places
<1>5. ASSUME NEW t \in Callers, Acquire(t, "woken", "test") PROVE AwaitInv'
  BY <1>2, <1>5 DEF Acquire, Goto, Places
<1>6. ASSUME NEW t \in Callers, Wait(t) PROVE AwaitInv'
  BY <1>2, <1>6 DEF Wait, Goto, Places
<1>7. ASSUME NEW t \in Callers, Release(t) PROVE AwaitInv'
  BY <1>2, <1>7 DEF Release, Goto, Places
<1>8. CASE UNCHANGED lvars
  BY <1>0, <1>8 DEF lvars, AwaitInv, Coming, Sleeping
<1> QED
  BY <1>0, <1>3, <1>4, <1>5, <1>6, <1>7, <1>8, AwaitAppend, AwaitRemove, AwaitSignal DEF SynchListNext, Inside

(* threads/synchlist.cc, SynchList::Append and Remove: for any number of   *)
(* threads, no wakeup is lost: while a thread sleeps in Remove there are   *)
(* at least as many threads on their way to the list as it has items.      *)
THEOREM NoItemUnattended == SynchListSpec => []EachItemAwaited
<1>1. SynchListInit => AwaitInv
  <2>1. SynchListInit => Sleeping = {}
    BY DEF SynchListInit, Sleeping
  <2> QED
    BY <2>1, InitItem DEF AwaitInv
<1>2. AwaitInv => EachItemAwaited
  <2> SUFFICES ASSUME AwaitInv PROVE EachItemAwaited
    OBVIOUS
  <2>1. ItemInv /\ IsList(list, Item) /\ IsFiniteSet(Busy) /\ Appending \subseteq Busy
    BY DEF AwaitInv, ItemInv, Appending, Busy
  <2>2. Items(list) \in Seq(1..MaxItems)
    BY <2>1, ListFacts DEF Item
  <2>3. Cardinality(Appending) \in Nat
    BY <2>1, FS_Subset, FS_CardinalityType
  <2>4. appended \in 0..MaxItems
    BY <2>1, <2>3, SynchListAssumption DEF ItemInv
  <2>5. SynchListTypeOK /\ Monitor
    BY <2>1, <2>2, <2>4 DEF ItemInv, SynchListTypeOK, Item
  <2> QED
    BY <2>5 DEF AwaitInv, Coming, EachItemAwaited
<1> QED
  BY <1>1, <1>2, AwaitStep, PTL DEF SynchListSpec

=============================================================================
