----------------------------- MODULE Recursion -----------------------------
(***************************************************************************)
(* Induction and recursion without operator parameters, so that SMT can    *)
(* use them: what is proved by induction is a set, and the step of a       *)
(* recursion is a function.                                                *)
(***************************************************************************)
EXTENDS Integers, Sequences, SequencesExt, SequenceTheorems,
        WellFoundedInduction, TLAPS

(* A set of naturals has a least element. *)
LEMMA Least ==
    ASSUME NEW T, T \subseteq Nat, T # {}
    PROVE  \E x \in T : \A y \in T : x <= y
<1>1. \E x \in T : \A y \in T : ~ (<<y, x>> \in OpToRel(<, Nat))
  BY NatLessThanWellFounded, WFMin
<1>2. \A x, y \in Nat : y < x => <<y, x>> \in OpToRel(<, Nat)
  BY Zenon DEF OpToRel
<1>3. \E x \in T : \A y \in T : ~(y < x)
  BY <1>1, <1>2, Zenon
<1> QED
  BY <1>3

(* The naturals from 0 to n, by induction.                                  *)
LEMMA UpTo ==
    ASSUME NEW n \in Nat, NEW T, 0 \in T,
           \A k \in 0 .. n - 1 : k \in T => k + 1 \in T
    PROVE  0 .. n \subseteq T
<1> SUFFICES ASSUME NEW m \in 0 .. n, m \notin T PROVE FALSE
  OBVIOUS
<1> DEFINE U == (0 .. n) \ T
<1>0. U \subseteq Nat /\ U # {}
  OBVIOUS
<1>1. PICK k \in U : \A j \in U : k <= j
  <2> HIDE DEF U
  <2> QED
    BY <1>0, Least
<1>2. k # 0 /\ k - 1 \in 0 .. n - 1 /\ k - 1 \in T
  <2>1. k # 0
    OBVIOUS
  <2>2. k - 1 \in 0 .. n - 1 /\ ~(k <= k - 1)
    BY <2>1
  <2> QED
    BY <1>1, <2>1, <2>2
<1> QED
  BY <1>2

(* A set of naturals with a bound has a greatest element.                   *)
LEMMA Greatest ==
    ASSUME NEW n \in Nat, NEW T, T \subseteq 1 .. n, T # {}
    PROVE  Max(T) \in T /\ \A y \in T : y <= Max(T)
<1> DEFINE U == {n - y : y \in T}
<1>1. U \subseteq Nat /\ U # {}
  <2>1. \A y \in T : n - y \in Nat
    OBVIOUS
  <2> QED
    BY <2>1
<1>2. PICK u \in U : \A v \in U : u <= v
  BY <1>1, Least
<1>3. PICK x \in T : u = n - x
  OBVIOUS
<1>4. \A y \in T : x >= y
  <2> TAKE y \in T
  <2>1. n - x <= n - y
    BY <1>2, <1>3
  <2> QED
    BY <2>1
<1>5. Max(T) \in T /\ \A y \in T : Max(T) >= y
  BY <1>4 DEF Max
<1> QED
  BY <1>5

IsSequence(q) == Len(q) \in Nat /\ DOMAIN q = 1 .. Len(q)

(* The recursion of FoldLeft, over the first k elements.                    *)
FoldsAs(f, base, g, k) ==
    f = [s \in SUBSET (1 .. k) |->
           IF s = {} THEN base ELSE g[<<f[s \ {Max(s)}], Max(s)>>]]

LEMMA FoldOneMore ==
    ASSUME NEW k \in Nat, NEW base, NEW g, NEW f, FoldsAs(f, base, g, k)
    PROVE  \E h : FoldsAs(h, base, g, k + 1)
<1> DEFINE n == k + 1
           Step(s) == IF n \in s THEN g[<<f[s \ {n}], n>>] ELSE f[s]
           h == [s \in SUBSET (1 .. n) |-> Step(s)]
<1>0. n \in Nat /\ 1 .. n = (1 .. k) \cup {n} /\ n \notin 1 .. k
  OBVIOUS
<1> HIDE DEF n
<1>1. ASSUME NEW s \in SUBSET (1 .. n)
      PROVE  h[s] = IF s = {} THEN base ELSE g[<<h[s \ {Max(s)}], Max(s)>>]
  <2>1. h[s] = Step(s)
    OBVIOUS
  <2>2. CASE n \in s
    <3>1. Max(s) = n
      <4>1. Max(s) \in s /\ n <= Max(s)
        BY <1>0, <2>2, Greatest
      <4>2. Max(s) \in 1 .. n
        BY <4>1
      <4> QED
        BY <1>0, <4>1, <4>2
    <3>2. s \ {n} \in SUBSET (1 .. k) /\ s \ {n} \in SUBSET (1 .. n) /\ n \notin s \ {n}
      BY <1>0
    <3>3. h[s \ {n}] = f[s \ {n}]
      BY <3>2
    <3> QED
      BY <2>1, <2>2, <3>1, <3>3
  <2>3. CASE n \notin s
    <3>1. s \in SUBSET (1 .. k) /\ h[s] = f[s]
      BY <1>0, <2>1, <2>3
    <3>2. f[s] = IF s = {} THEN base ELSE g[<<f[s \ {Max(s)}], Max(s)>>]
      BY <3>1 DEF FoldsAs
    <3>3. s \ {Max(s)} \in SUBSET (1 .. n) /\ n \notin s \ {Max(s)}
      BY <2>3
    <3>4. h[s \ {Max(s)}] = f[s \ {Max(s)}]
      BY <3>3
    <3> QED
      BY <3>1, <3>2, <3>4
  <2> QED
    BY <2>2, <2>3
<1>2. h = [s \in SUBSET (1 .. n) |->
             IF s = {} THEN base ELSE g[<<h[s \ {Max(s)}], Max(s)>>]]
  <2> HIDE DEF h
  <2>1. h = [s \in SUBSET (1 .. n) |-> h[s]]
    BY DEF h
  <2> QED
    BY <1>1, <2>1
<1>3. FoldsAs(h, base, g, n)
  BY <1>2 DEF FoldsAs
<1> QED
  BY <1>3 DEF n

LEMMA FoldExists ==
    ASSUME NEW n \in Nat, NEW base, NEW g
    PROVE  \E f : FoldsAs(f, base, g, n)
<1> DEFINE T == {k \in Nat : \E f : FoldsAs(f, base, g, k)}
<1>1. 0 \in T
  <2> DEFINE f == [s \in {{}} |-> base]
  <2>1. SUBSET (1 .. 0) = {{}}
    OBVIOUS
  <2>2. f = [s \in {{}} |-> IF s = {} THEN base ELSE g[<<f[s \ {Max(s)}], Max(s)>>]]
    OBVIOUS
  <2>3. FoldsAs(f, base, g, 0)
    BY <2>1, <2>2 DEF FoldsAs
  <2> QED
    BY <2>3
<1>2. \A k \in 0 .. n - 1 : k \in T => k + 1 \in T
  BY FoldOneMore
<1> HIDE DEF T
<1>3. n \in T
  BY <1>1, <1>2, UpTo
<1> QED
  BY <1>3 DEF T

(* The results of a fold have the type that its step preserves.             *)
LEMMA FoldTyped ==
    ASSUME NEW n \in Nat, NEW S, NEW base \in S, NEW g \in [S \X (1 .. n) -> S],
           NEW f, FoldsAs(f, base, g, n)
    PROVE  f \in [SUBSET (1 .. n) -> S]
<1> DEFINE T == {k \in Nat : k <= n => \A s \in SUBSET (1 .. k) : f[s] \in S}
<1>1. ASSUME NEW s \in SUBSET (1 .. n)
      PROVE  f[s] = IF s = {} THEN base ELSE g[<<f[s \ {Max(s)}], Max(s)>>]
  BY <1>1 DEF FoldsAs
<1>2. 0 \in T
  <2>1. {} \in SUBSET (1 .. n) /\ SUBSET (1 .. 0) = {{}}
    OBVIOUS
  <2> QED
    BY <1>1, <2>1
<1>3. ASSUME NEW k \in 0 .. n - 1, k \in T
      PROVE  k + 1 \in T
  <2>0. k \in Nat /\ k + 1 \in Nat /\ k + 1 <= n /\ k <= n
    OBVIOUS
  <2>a. \A s \in SUBSET (1 .. k) : f[s] \in S
    BY <1>3, <2>0
  <2>1. ASSUME NEW s \in SUBSET (1 .. k + 1), s # {}
        PROVE  f[s] \in S
    <3> DEFINE m == Max(s)
    <3>1. m \in s /\ \A y \in s : y <= m
      BY <2>0, <2>1, Greatest
    <3> HIDE DEF m
    <3>2. m \in 1 .. n /\ s \in SUBSET (1 .. n)
      BY <2>0, <3>1
    <3>3. \A y \in s : y # m => y \in 1 .. k
      BY <2>0, <3>1
    <3>4. s \ {m} \in SUBSET (1 .. k)
      BY <3>3
    <3>5. f[s \ {m}] \in S
      BY <2>a, <3>4
    <3>6. f[s] = g[<<f[s \ {m}], m>>]
      BY <1>1, <2>1, <3>2 DEF m
    <3> QED
      BY <3>2, <3>5, <3>6
  <2>2. \A s \in SUBSET (1 .. k + 1) : f[s] \in S
    <3>1. {} \in SUBSET (1 .. n)
      OBVIOUS
    <3>2. f[{}] = base
      BY <1>1, <3>1
    <3> QED
      BY <2>1, <3>2
  <2> QED
    BY <2>0, <2>2
<1> HIDE DEF T
<1>4. n \in T
  BY <1>2, <1>3, UpTo
<1>5. DOMAIN f = SUBSET (1 .. n) /\ f = [s \in DOMAIN f |-> f[s]]
  BY Zenon DEF FoldsAs
<1> QED
  BY <1>4, <1>5 DEF T

LEMMA FoldFor ==
    ASSUME NEW n \in Nat, NEW S, NEW base \in S, NEW g \in [S \X (1 .. n) -> S]
    PROVE  \E f \in [SUBSET (1 .. n) -> S] : FoldsAs(f, base, g, n)
BY FoldExists, FoldTyped

(* The elements that a fold has seen when it comes to the i-th.             *)
LEMMA Seen ==
    ASSUME NEW i \in Nat \ {0}
    PROVE  Max(1 .. i) = i /\ (1 .. i) \ {i} = 1 .. i - 1 /\ 1 .. i # {}
<1>1. i \in 1 .. i
  OBVIOUS
<1>2. Max(1 .. i) \in 1 .. i /\ i <= Max(1 .. i)
  BY <1>1, Greatest
<1> QED
  BY <1>1, <1>2

(* What holds at the start of a loop and after each turn holds at its end.  *)
LEMMA Loops ==
    ASSUME NEW n \in Nat, NEW S, NEW acc, acc[0] \in S,
           \A i \in 1 .. n : acc[i - 1] \in S => acc[i] \in S
    PROVE  \A i \in 0 .. n : acc[i] \in S
<1> DEFINE T == {k \in 0 .. n : acc[k] \in S}
<1>1. 0 \in T
  OBVIOUS
<1>2. \A k \in 0 .. n - 1 : k \in T => k + 1 \in T
  OBVIOUS
<1> HIDE DEF T
<1>3. 0 .. n \subseteq T
  BY <1>1, <1>2, UpTo
<1> QED
  BY <1>3 DEF T

LEMMA TupleSeq ==
    ASSUME NEW S, NEW n \in Nat, NEW f \in [1 .. n -> S]
    PROVE  f \in Seq(S) /\ Len(f) = n
OBVIOUS

(* FlattenSeq appends one sequence after another.                           *)
LEMMA Flattened ==
    ASSUME NEW S, NEW q \in Seq(Seq(S))
    PROVE  \E acc \in [0 .. Len(q) -> Seq(S)] :
             /\ acc[0] = <<>>
             /\ \A i \in 1 .. Len(q) : acc[i] = acc[i - 1] \o q[i]
             /\ FlattenSeq(q) = acc[Len(q)]
<1> DEFINE n == Len(q)
           g == [x \in Seq(S) \X (1 .. n) |-> x[1] \o q[x[2]]]
           Is(h) == h = [i \in 1 .. n |-> IF i = 1 THEN q[i] ELSE h[i - 1] \o q[i]]
<1>0. n \in Nat /\ \A i \in 1 .. n : q[i] \in Seq(S)
  OBVIOUS
<1>1. CASE n = 0
  <2>1. FlattenSeq(q) = <<>>
    BY <1>1 DEF FlattenSeq
  <2> DEFINE acc == [i \in 0 .. 0 |-> <<>>]
  <2>2. acc \in [0 .. n -> Seq(S)] /\ acc[0] = <<>> /\ acc[n] = <<>>
    BY <1>1
  <2>3. \A i \in 1 .. n : acc[i] = acc[i - 1] \o q[i]
    BY <1>1
  <2> HIDE DEF acc
  <2> QED
    BY <2>1, <2>2, <2>3
<1>2. CASE n # 0
  <2> HIDE DEF n
  <2>1. g \in [Seq(S) \X (1 .. n) -> Seq(S)] /\ <<>> \in Seq(S)
    BY <1>0
  <2>2. PICK f \in [SUBSET (1 .. n) -> Seq(S)] : FoldsAs(f, <<>>, g, n)
    <3> HIDE DEF g
    <3> QED
      BY <1>0, <2>1, FoldFor
  <2>3. f[{}] = <<>>
    BY <2>2 DEF FoldsAs
  <2>4. ASSUME NEW i \in 1 .. n PROVE f[1 .. i] = f[1 .. i - 1] \o q[i]
    <3>1. 1 .. i \in SUBSET (1 .. n) /\ 1 .. i - 1 \in SUBSET (1 .. n) /\ i \in Nat \ {0}
      BY <1>0
    <3>2. f[1 .. i] = g[<<f[1 .. i - 1], i>>]
      <4> HIDE DEF g
      <4>1. f[1 .. i] = g[<<f[(1 .. i) \ {Max(1 .. i)}], Max(1 .. i)>>]
        BY <2>2, <3>1, Seen DEF FoldsAs
      <4> QED
        BY <3>1, <4>1, Seen
    <3> QED
      BY <3>1, <3>2
  <2> DEFINE acc == [i \in 0 .. n |-> f[1 .. i]]
             flat == [i \in 1 .. n |-> f[1 .. i]]
  <2>5. acc \in [0 .. n -> Seq(S)] /\ acc[0] = <<>>
    <3>1. \A i \in 0 .. n : 1 .. i \in SUBSET (1 .. n)
      BY <1>0
    <3>2. 1 .. 0 = {}
      OBVIOUS
    <3> QED
      BY <1>0, <2>3, <3>1, <3>2
  <2>6. ASSUME NEW i \in 1 .. n PROVE acc[i] = acc[i - 1] \o q[i]
    <3>1. i \in 0 .. n /\ i - 1 \in 0 .. n
      BY <1>0
    <3>2. acc[i] = f[1 .. i] /\ acc[i - 1] = f[1 .. i - 1]
      BY <3>1
    <3> QED
      BY <2>4, <3>2
  <2>7. Is(flat)
    <3>1. ASSUME NEW i \in 1 .. n
          PROVE  f[1 .. i] = IF i = 1 THEN q[i] ELSE flat[i - 1] \o q[i]
      <4>1. CASE i = 1
        <5>1. f[1 .. i] = <<>> \o q[i]
          <6>1. 1 .. i - 1 = {}
            BY <4>1
          <6> QED
            BY <2>3, <2>4, <6>1
        <5> QED
          BY <1>0, <4>1, <5>1
      <4>2. CASE i # 1
        <5>1. i - 1 \in 1 .. n
          BY <1>0, <4>2
        <5> QED
          BY <2>4, <4>2, <5>1
      <4> QED
        BY <4>1, <4>2
    <3> QED
      BY <3>1
  <2> DEFINE H == CHOOSE h : Is(h)
  <2>8. Is(H)
    <3> HIDE DEF Is, flat
    <3> QED
      BY <2>7
  <2>a. ASSUME NEW i \in 1 .. n
        PROVE  /\ H[i] = IF i = 1 THEN q[i] ELSE H[i - 1] \o q[i]
               /\ flat[i] = IF i = 1 THEN q[i] ELSE flat[i - 1] \o q[i]
    <3> HIDE DEF H, flat
    <3> QED
      BY <2>7, <2>8
  <2>9. FlattenSeq(q) = H[n]
    BY <1>2 DEF FlattenSeq, n
  <2> HIDE DEF H, flat
  <2>10. \A i \in 1 .. n : H[i] = flat[i]
    <3> DEFINE T == {k \in Nat : \A i \in 1 .. k : i <= n => H[i] = flat[i]}
    <3>1. 0 \in T
      OBVIOUS
    <3>2. ASSUME NEW k \in 0 .. n - 1, k \in T PROVE k + 1 \in T
      <4>1. k + 1 \in 1 .. n /\ (k + 1 # 1 => k \in 1 .. n /\ k \in 1 .. k)
        BY <1>0
      <4>2. H[k + 1] = IF k + 1 = 1 THEN q[k + 1] ELSE H[k] \o q[k + 1]
        BY <2>a, <4>1
      <4>3. flat[k + 1] = IF k + 1 = 1 THEN q[k + 1] ELSE flat[k] \o q[k + 1]
        BY <2>a, <4>1
      <4>4. k + 1 # 1 => H[k] = flat[k]
        BY <3>2, <4>1
      <4>5. H[k + 1] = flat[k + 1]
        BY <4>2, <4>3, <4>4
      <4> QED
        <5>1. \A i \in 1 .. k + 1 : i = k + 1 \/ i \in 1 .. k
          OBVIOUS
        <5> QED
          BY <3>2, <4>5, <5>1
    <3> HIDE DEF T
    <3>3. n \in Nat
      BY <1>0
    <3>4. 0 .. n \subseteq T
      BY ONLY <3>1, <3>2, <3>3, UpTo
    <3>5. n \in T
      BY <3>3, <3>4
    <3> QED
      BY <3>5 DEF T
  <2>11. FlattenSeq(q) = acc[n]
    BY <1>0, <1>2, <2>9, <2>10 DEF flat
  <2> HIDE DEF acc
  <2> QED
    BY <2>5, <2>6, <2>11 DEF n
<1> QED
  BY <1>1, <1>2

LEMMA ConcatSet ==
    ASSUME NEW S, NEW a \in Seq(S), NEW b \in Seq(S)
    PROVE  ToSet(a \o b) = ToSet(a) \cup ToSet(b)
<1> DEFINE c == a \o b
<1>1. /\ DOMAIN a = 1 .. Len(a) /\ DOMAIN b = 1 .. Len(b) /\ DOMAIN c = 1 .. Len(c)
      /\ Len(a) \in Nat /\ Len(b) \in Nat /\ Len(c) = Len(a) + Len(b)
      /\ \A i \in 1 .. Len(a) + Len(b) : c[i] = IF i <= Len(a) THEN a[i] ELSE b[i - Len(a)]
  BY ConcatProperties, LenProperties
<1> HIDE DEF c
<1>2. ASSUME NEW i \in DOMAIN a PROVE \E k \in DOMAIN c : c[k] = a[i]
  BY <1>1
<1>3. ASSUME NEW i \in DOMAIN b PROVE \E k \in DOMAIN c : c[k] = b[i]
  <2>1. Len(a) + i \in DOMAIN c /\ c[Len(a) + i] = b[i]
    BY <1>1
  <2> QED
    BY <2>1
<1>4. ASSUME NEW k \in DOMAIN c
      PROVE  (\E i \in DOMAIN a : c[k] = a[i]) \/ (\E i \in DOMAIN b : c[k] = b[i])
  <2>1. CASE k <= Len(a)
    BY <1>1, <2>1
  <2>2. CASE ~(k <= Len(a))
    <3>1. k - Len(a) \in DOMAIN b /\ c[k] = b[k - Len(a)]
      BY <1>1, <2>2
    <3> QED
      BY <3>1
  <2> QED
    BY <2>1, <2>2
<1>5. ToSet(c) = ToSet(a) \cup ToSet(b)
  BY <1>2, <1>3, <1>4 DEF ToSet
<1> QED
  BY <1>5 DEF c

LEMMA AppendSet ==
    ASSUME NEW S, NEW a \in Seq(S), NEW x \in S
    PROVE  ToSet(Append(a, x)) = ToSet(a) \cup {x}
<1> DEFINE c == Append(a, x)
<1>1. /\ DOMAIN a = 1 .. Len(a) /\ DOMAIN c = 1 .. Len(a) + 1 /\ Len(a) \in Nat
      /\ \A i \in 1 .. Len(a) : c[i] = a[i]
      /\ c[Len(a) + 1] = x
  BY AppendProperties, LenProperties
<1> HIDE DEF c
<1>2. DOMAIN c = DOMAIN a \cup {Len(a) + 1}
  BY <1>1
<1>3. ToSet(c) = ToSet(a) \cup {x}
  BY <1>1, <1>2 DEF ToSet
<1> QED
  BY <1>3 DEF c

(* FlattenSeq has the elements of all of them.                                      *)
LEMMA FlattenedSet ==
    ASSUME NEW S, NEW q \in Seq(Seq(S))
    PROVE  /\ FlattenSeq(q) \in Seq(S)
           /\ ToSet(FlattenSeq(q)) = UNION {ToSet(q[i]) : i \in DOMAIN q}
<1> DEFINE n == Len(q)
           All(k) == UNION {ToSet(q[i]) : i \in 1 .. k}
<1>0. n \in Nat /\ DOMAIN q = 1 .. n /\ \A i \in 1 .. n : q[i] \in Seq(S)
  OBVIOUS
<1>1. PICK acc \in [0 .. n -> Seq(S)] :
             /\ acc[0] = <<>>
             /\ \A i \in 1 .. n : acc[i] = acc[i - 1] \o q[i]
             /\ FlattenSeq(q) = acc[n]
  BY Flattened
<1> DEFINE T == {k \in 0 .. n : ToSet(acc[k]) = All(k)}
<1> HIDE DEF n
<1>2. 0 \in T
  BY <1>0, <1>1 DEF ToSet
<1>3. ASSUME NEW k \in 0 .. n - 1, k \in T PROVE k + 1 \in T
  <2>1. k + 1 \in 1 .. n /\ k \in 0 .. n /\ (k + 1) - 1 = k
    BY <1>0
  <2>2. acc[k] \in Seq(S) /\ q[k + 1] \in Seq(S) /\ acc[k + 1] = acc[k] \o q[k + 1]
    BY <1>0, <1>1, <2>1
  <2>3. ToSet(acc[k + 1]) = ToSet(acc[k]) \cup ToSet(q[k + 1])
    BY <2>2, ConcatSet
  <2>4. All(k + 1) = All(k) \cup ToSet(q[k + 1])
    <3>1. 1 .. k + 1 = (1 .. k) \cup {k + 1}
      BY <2>1
    <3> QED
      BY <3>1
  <2>5. ToSet(acc[k]) = All(k)
    BY <1>3
  <2>6. ToSet(acc[k + 1]) = All(k + 1)
    BY <2>3, <2>4, <2>5
  <2>7. k + 1 \in 0 .. n
    BY <2>1
  <2> HIDE DEF All
  <2> QED
    BY <2>6, <2>7
<1> HIDE DEF T
<1>4. n \in T
  <2>1. n \in Nat
    BY <1>0
  <2>2. 0 .. n \subseteq T
    BY ONLY <1>2, <1>3, <2>1, UpTo
  <2> QED
    BY <2>1, <2>2
<1> QED
  BY <1>0, <1>1, <1>4 DEF T

(* Two sequences of known lengths, one after the other; a stretch of one.   *)
Joins(S, a, b, m, n) ==
    /\ a \o b \in Seq(S) /\ Len(a \o b) = m + n
    /\ \A i \in 1 .. m : (a \o b)[i] = a[i]
    /\ \A i \in 1 .. n : (a \o b)[m + i] = b[i]

LEMMA Joined ==
  ASSUME NEW S, NEW a \in Seq(S), NEW b \in Seq(S), NEW m \in Nat, NEW n \in Nat,
         Len(a) = m, Len(b) = n
  PROVE  Joins(S, a, b, m, n)
<1> DEFINE c == a \o b
<1>1. /\ c \in Seq(S) /\ Len(c) = m + n
      /\ \A i \in 1 .. m + n : c[i] = IF i <= m THEN a[i] ELSE b[i - m]
  BY ConcatProperties
<1> HIDE DEF c
<1>2. \A i \in 1 .. n : m + i \in 1 .. m + n /\ ~(m + i <= m) /\ (m + i) - m = i
  OBVIOUS
<1>3. \A i \in 1 .. m : i \in 1 .. m + n /\ i <= m
  OBVIOUS
<1> QED
  BY <1>1, <1>2, <1>3 DEF c, Joins

Stretches(c, S, s, m, n) ==
    c \in Seq(S) /\ Len(c) = n /\ \A i \in 1 .. n : c[i] = s[m + i]

LEMMA Stretch ==
  ASSUME NEW S, NEW s \in Seq(S), NEW m \in Nat, NEW n \in Nat, m + n <= Len(s)
  PROVE  Stretches(SubSeq(s, m + 1, m + n), S, s, m, n)
<1> DEFINE first == m + 1
           last == m + n
           c == SubSeq(s, first, last)
<1>1. first \in Int /\ last \in Int /\ \A i \in first .. last : s[i] \in S
  OBVIOUS
<1>2. /\ last - first + 1 = n /\ (~(first <= last) => n = 0)
      /\ \A i \in 1 .. n : first + i - 1 = m + i
  OBVIOUS
<1> HIDE DEF first, last
<1>3. /\ c \in Seq(S)
      /\ Len(c) = IF first <= last THEN last - first + 1 ELSE 0
      /\ \A i \in 1 .. last - first + 1 : c[i] = s[first + i - 1]
  BY <1>1, SubSeqProperties
<1> HIDE DEF c
<1>4. c \in Seq(S) /\ Len(c) = n /\ \A i \in 1 .. n : c[i] = s[m + i]
  BY <1>2, <1>3
<1> QED
  BY <1>4 DEF c, first, last, Stretches

(* &s[p..q] *)
LEMMA Slice ==
  ASSUME NEW S, NEW s \in Seq(S), NEW p \in Nat, NEW q \in Nat, p <= q, q <= Len(s)
  PROVE  SubSeq(s, p + 1, q) \in Seq(S) /\ Len(SubSeq(s, p + 1, q)) = q - p
<1> DEFINE n == q - p
           c == SubSeq(s, p + 1, p + n)
<1>1. n \in Nat /\ p + n = q
  OBVIOUS
<1> HIDE DEF n
<1>2. Stretches(SubSeq(s, p + 1, p + n), S, s, p, n)
  BY ONLY <1>1, p \in Nat, s \in Seq(S), q <= Len(s), Stretch
<1> QED
  BY <1>1, <1>2 DEF Stretches, n

(* Where each of the sequences of q begins in s, which is all of them.       *)
Places(at, q, s) ==
    /\ at[0] = 0 /\ at[Len(q)] = Len(s)
    /\ \A k \in 0 .. Len(q) - 1 :
         /\ at[k + 1] = at[k] + Len(q[k + 1]) /\ at[k + 1] <= Len(s)
         /\ \A j \in 1 .. Len(q[k + 1]) : s[at[k] + j] = q[k + 1][j]

LEMMA FlattenedAt ==
  ASSUME NEW S, NEW q \in Seq(Seq(S))
  PROVE  /\ FlattenSeq(q) \in Seq(S)
         /\ \E at \in [0 .. Len(q) -> Nat] : Places(at, q, FlattenSeq(q))
<1> DEFINE n == Len(q)
           s == FlattenSeq(q)
<1>0. n \in Nat /\ \A i \in 1 .. n : q[i] \in Seq(S)
  OBVIOUS
<1>1. PICK acc \in [0 .. n -> Seq(S)] :
             /\ acc[0] = <<>>
             /\ \A i \in 1 .. n : acc[i] = acc[i - 1] \o q[i]
             /\ s = acc[n]
  BY Flattened
<1> HIDE DEF n, s
<1> DEFINE at == [k \in 0 .. n |-> Len(acc[k])]
<1>2. at \in [0 .. n -> Nat] /\ at[0] = 0 /\ at[n] = Len(s) /\ s \in Seq(S)
  <2>1. 0 \in 0 .. n /\ n \in 0 .. n /\ \A k \in 0 .. n : Len(acc[k]) \in Nat
    BY <1>0, <1>1
  <2> QED
    BY <1>1, <2>1
<1>3. \A k \in 0 .. n : at[k] = Len(acc[k]) /\ acc[k] \in Seq(S)
  BY <1>1
<1> HIDE DEF at
<1>4. ASSUME NEW k \in 0 .. n - 1
      PROVE  /\ Joins(S, acc[k], q[k + 1], at[k], Len(q[k + 1]))
             /\ acc[k + 1] = acc[k] \o q[k + 1]
  <2>1. k \in 0 .. n /\ k + 1 \in 1 .. n /\ (k + 1) - 1 = k
    BY <1>0
  <2> DEFINE a == acc[k]
             b == q[k + 1]
             m == at[k]
             l == Len(b)
  <2>2. a \in Seq(S) /\ m = Len(a)
    BY ONLY <1>3, <2>1
  <2>3. b \in Seq(S)
    BY ONLY <1>0, <2>1
  <2> HIDE DEF a, b, m
  <2>4. m \in Nat /\ l \in Nat /\ Len(a) = m
    BY ONLY <2>2, <2>3
  <2>5. Len(b) = l
    OBVIOUS
  <2> HIDE DEF l
  <2>6. Joins(S, a, b, m, l)
    BY ONLY <2>2, <2>3, <2>4, <2>5, Joined
  <2>7. Joins(S, acc[k], q[k + 1], at[k], Len(q[k + 1]))
    BY <2>6 DEF a, b, m, l
  <2> QED
    BY <1>1, <2>1, <2>7
<1>5. ASSUME NEW k \in 0 .. n - 1
      PROVE  /\ at[k + 1] = at[k] + Len(q[k + 1]) /\ at[k] \in Nat /\ Len(q[k + 1]) \in Nat
             /\ \A j \in 1 .. at[k] : acc[k + 1][j] = acc[k][j]
             /\ \A j \in 1 .. Len(q[k + 1]) : acc[k + 1][at[k] + j] = q[k + 1][j]
  <2>1. k \in 0 .. n /\ k + 1 \in 0 .. n /\ k + 1 \in 1 .. n
    BY <1>0
  <2> DEFINE a == acc[k]
             b == q[k + 1]
             c == acc[k + 1]
             m == at[k]
             l == Len(b)
  <2>2. Joins(S, a, b, m, l) /\ c = a \o b
    BY ONLY <1>4, k \in 0 .. n - 1
  <2>3. at[k + 1] = Len(c) /\ m \in Nat
    BY ONLY <1>2, <1>3, <2>1
  <2>4. b \in Seq(S)
    BY ONLY <1>0, <2>1
  <2> HIDE DEF a, b, c, m
  <2>5. l \in Nat
    BY ONLY <2>4
  <2> HIDE DEF l
  <2>6. /\ at[k + 1] = m + l
        /\ \A j \in 1 .. m : c[j] = a[j]
        /\ \A j \in 1 .. l : c[m + j] = b[j]
    BY ONLY <2>2, <2>3 DEF Joins
  <2> QED
    BY <2>3, <2>5, <2>6 DEF a, b, c, m, l
<1> DEFINE T == {d \in 0 .. n :
                   at[n - d] <= Len(s) /\ \A j \in 1 .. at[n - d] : s[j] = acc[n - d][j]}
<1>6. 0 \in T
  BY <1>0, <1>1, <1>2
<1>7. ASSUME NEW d \in 0 .. n - 1, d \in T PROVE d + 1 \in T
  <2> DEFINE k == n - (d + 1)
  <2>1. k \in 0 .. n - 1 /\ k + 1 = n - d /\ d + 1 \in 0 .. n
    BY <1>0
  <2>2. at[k + 1] <= Len(s) /\ \A j \in 1 .. at[k + 1] : s[j] = acc[k + 1][j]
    BY <1>7, <2>1
  <2> HIDE DEF k, T
  <2>3. Len(s) \in Nat
    BY <1>2
  <2> DEFINE b == q[k + 1]
             l == Len(b)
             m == at[k]
  <2>4. /\ at[k + 1] = m + l /\ m \in Nat /\ l \in Nat
        /\ \A j \in 1 .. m : acc[k + 1][j] = acc[k][j]
    BY ONLY <1>5, <2>1
  <2> HIDE DEF l, m
  <2>5. m <= Len(s)
    BY ONLY <2>2, <2>3, <2>4
  <2>6. ASSUME NEW j \in 1 .. m PROVE s[j] = acc[k][j]
    <3>1. j \in 1 .. at[k + 1]
      BY ONLY <2>4, j \in 1 .. m
    <3> QED
      BY <2>2, <2>4, <3>1
  <2> QED
    BY <2>1, <2>5, <2>6 DEF T, k, m
<1> HIDE DEF T
<1>8. 0 .. n \subseteq T
  BY ONLY <1>0, <1>6, <1>7, UpTo
<1>9. ASSUME NEW k \in 0 .. n
      PROVE  at[k] <= Len(s) /\ \A j \in 1 .. at[k] : s[j] = acc[k][j]
  <2>1. n - k \in 0 .. n /\ n - (n - k) = k
    BY <1>0
  <2>2. n - k \in T
    BY <1>8, <2>1
  <2> QED
    BY <2>1, <2>2 DEF T
<1>10. ASSUME NEW k \in 0 .. n - 1
       PROVE  /\ at[k + 1] = at[k] + Len(q[k + 1]) /\ at[k + 1] <= Len(s)
              /\ \A j \in 1 .. Len(q[k + 1]) : s[at[k] + j] = q[k + 1][j]
  <2>1. k + 1 \in 0 .. n
    BY <1>0
  <2>2. at[k + 1] <= Len(s) /\ \A j \in 1 .. at[k + 1] : s[j] = acc[k + 1][j]
    BY <1>9, <2>1
  <2>3. ASSUME NEW j \in 1 .. Len(q[k + 1]) PROVE s[at[k] + j] = q[k + 1][j]
    <3>1. at[k] + j \in 1 .. at[k + 1]
      BY <1>5
    <3> QED
      BY <1>5, <2>2, <3>1
  <2> QED
    BY <1>5, <2>2, <2>3
<1>11. Places(at, q, s)
  BY <1>2, <1>10 DEF Places, n
<1> QED
  BY <1>2, <1>11 DEF n, s

(* A recursion from the end of a sequence of n to its start: next[i] is     *)
(* where it goes on after i, and past the end it is base.                   *)
BackFrom(f, n, base, next, g) ==
    \A i \in 1 .. n + 3 : f[i] = IF i > n THEN base ELSE g[<<i, f[next[i]]>>]

LEMMA Backwards ==
  ASSUME NEW n \in Nat, NEW S, NEW base \in S, NEW next,
         \A i \in 1 .. n : next[i] \in i + 1 .. n + 3,
         NEW g \in [(1 .. n) \X S -> S]
  PROVE  \E f \in [1 .. n + 3 -> S] : BackFrom(f, n, base, next, g)
<1> DEFINE Is(f, i) == f[i] = IF i > n THEN base ELSE g[<<i, f[next[i]]>>]
           T == {k \in 0 .. n : \E f \in [1 .. n + 3 -> S] :
                                  \A i \in n - k + 1 .. n + 3 : Is(f, i)}
<1>1. 0 \in T
  <2> DEFINE f == [i \in 1 .. n + 3 |-> base]
  <2>1. f \in [1 .. n + 3 -> S]
    OBVIOUS
  <2>2. \A i \in n - 0 + 1 .. n + 3 : i \in 1 .. n + 3 /\ i > n
    OBVIOUS
  <2>3. \A i \in n - 0 + 1 .. n + 3 : Is(f, i)
    BY <2>2
  <2> HIDE DEF f, Is
  <2> QED
    BY <2>1, <2>3
<1>2. ASSUME NEW k \in 0 .. n - 1, k \in T PROVE k + 1 \in T
  <2>1. PICK f \in [1 .. n + 3 -> S] : \A i \in n - k + 1 .. n + 3 : Is(f, i)
    BY <1>2
  <2> DEFINE j == n - k
             x == g[<<j, f[next[j]]>>]
             h == [i \in 1 .. n + 3 |-> IF i = j THEN x ELSE f[i]]
  <2>2. j \in 1 .. n /\ next[j] \in 1 .. n + 3 /\ next[j] # j
    <3>1. j \in 1 .. n
      OBVIOUS
    <3>2. next[j] \in j + 1 .. n + 3
      BY <3>1
    <3> HIDE DEF j
    <3> QED
      BY <3>1, <3>2
  <2> HIDE DEF j
  <2>3. x \in S
    BY <2>2
  <2> HIDE DEF x
  <2>4. h \in [1 .. n + 3 -> S]
    BY <2>3
  <2>5. ASSUME NEW i \in n - (k + 1) + 1 .. n + 3 PROVE Is(h, i)
    <3>1. i \in 1 .. n + 3 /\ i >= j
      BY <2>2 DEF j
    <3>2. CASE i = j
      <4>1. h[i] = x /\ h[next[j]] = f[next[j]] /\ ~(j > n)
        BY <2>2, <3>1, <3>2
      <4> QED
        BY <3>2, <4>1 DEF x
    <3>3. CASE i # j /\ i > n
      <4>1. i \in n - k + 1 .. n + 3
        BY <3>1, <3>3 DEF j
      <4> QED
        BY <2>1, <3>1, <3>3, <4>1
    <3>4. CASE i # j /\ ~(i > n)
      <4>1. i \in n - k + 1 .. n + 3 /\ i \in 1 .. n
        BY <3>1, <3>4 DEF j
      <4>2. next[i] \in 1 .. n + 3 /\ next[i] # j
        <5>1. next[i] \in i + 1 .. n + 3
          BY <4>1
        <5> QED
          BY <2>2, <3>1, <5>1
      <4>3. h[i] = f[i] /\ h[next[i]] = f[next[i]]
        BY <3>1, <3>4, <4>2
      <4> QED
        BY <2>1, <3>4, <4>1, <4>3
    <3> QED
      BY <3>2, <3>3, <3>4
  <2> HIDE DEF h, Is
  <2>6. k + 1 \in 0 .. n
    OBVIOUS
  <2> QED
    BY <2>4, <2>5, <2>6
<1>3. n \in T
  <2> HIDE DEF T
  <2>1. 0 .. n \subseteq T
    BY <1>1, <1>2, UpTo
  <2> QED
    BY <2>1
<1>4. PICK f \in [1 .. n + 3 -> S] : \A i \in n - n + 1 .. n + 3 : Is(f, i)
  BY <1>3
<1>5. \A i \in 1 .. n + 3 : i \in n - n + 1 .. n + 3
  OBVIOUS
<1> QED
  BY <1>4, <1>5 DEF BackFrom

=============================================================================
