--------------------------- MODULE MetainfoProofs ---------------------------
(***************************************************************************)
(* What from_bytes returns, for every file and every width of the numbers: *)
(* its types, the sum of the lengths, the pieces that piece_size cuts, and *)
(* what the info hash is of.                                               *)
(***************************************************************************)
EXTENDS MetainfoHash, BencodeProofs, FiniteSetTheorems

-----------------------------------------------------------------------------
(* piece_size. *)

(* Multiplication is monotonic. *)
LEMMA TimesMonotonic ==
  ASSUME NEW i \in Nat, NEW j \in Nat, NEW p \in Nat, i <= j
  PROVE  i * p <= j * p
<1>1. (j - i) * p >= 0
  <2>1. j - i \in Nat  OBVIOUS
  <2>2. \A a, b \in Nat : a * b >= 0  OBVIOUS
  <2> QED  BY <2>1, <2>2
<1>2. (j - i) * p = j * p - i * p  OBVIOUS
<1> QED  BY <1>1, <1>2

LEMMA Successor ==
  ASSUME NEW i \in Nat, NEW p \in Nat
  PROVE  (i + 1) * p = i * p + p /\ i * p \in Nat
OBVIOUS

(* What \div is, for a length that is positive.                             *)
LEMMA Quotient ==
  ASSUME NEW o \in Nat, NEW p \in Nat, p > 0
  PROVE  \E i \in Nat : i * p <= o /\ o < i * p + p
<1>1. o \div p \in Nat /\ o = p * (o \div p) + (o % p) /\ o % p \in 0 .. p - 1
  OBVIOUS
<1>2. p * (o \div p) = (o \div p) * p  BY <1>1
<1> DEFINE i == o \div p
<1>3. i * p <= o /\ o < i * p + p
  <2> DEFINE q == i * p
  <2>1. o = q + (o % p)  BY <1>1, <1>2
  <2>2. q \in Nat  BY <1>1, Successor
  <2> HIDE DEF q, i
  <2>3. q <= o /\ o < q + p  BY <1>1, <2>1, <2>2
  <2> QED  BY <2>3 DEF q
<1> QED  BY <1>1, <1>3

(* A piece that exists starts inside the torrent, and no product wraps.     *)
LEMMA StartExact ==
  ASSUME NEW count \in Nat, NEW p \in Nat, NEW total \in 0 .. Word - 1,
         Consistent(count, p, total), NEW i \in 0 .. count - 1
  PROVE  Start(i, p) = i * p /\ i * p < total /\ i * p \in Nat
<1>1. i \in Nat /\ count - 1 \in Nat /\ i <= count - 1  OBVIOUS
<1>2. i * p <= (count - 1) * p  BY <1>1, TimesMonotonic
<1>3. i * p \in Nat /\ (count - 1) * p \in Nat  BY <1>1, Successor
<1>4. (count - 1) * p < total  BY DEF Consistent
<1> DEFINE q == i * p
<1>5. q < total /\ q \in Nat
  <2> DEFINE r == (count - 1) * p
  <2>1. q <= r /\ r < total /\ q \in Nat /\ r \in Nat  BY <1>2, <1>3, <1>4
  <2> HIDE DEF q, r
  <2> QED  BY <2>1
<1>6. q % Word = q
  <2> HIDE DEF q
  <2>1. 0 <= q /\ q < Word /\ Word \in Nat  BY <1>5, WordOK
  <2> QED  BY <2>1, <1>5
<1> QED  BY <1>5, <1>6 DEF Start

LEMMA SizeExact ==
  ASSUME NEW count \in Nat, NEW p \in Nat, NEW total \in 0 .. Word - 1,
         Consistent(count, p, total), NEW i \in 0 .. count - 1
  PROVE  /\ PieceSize(i, p, total) = IF p < total - i * p THEN p ELSE total - i * p
         /\ PieceSize(i, p, total) \in Nat /\ PieceSize(i, p, total) > 0
         /\ i * p + PieceSize(i, p, total) <= total
<1> DEFINE q == i * p
<1>1. Start(i, p) = q /\ q < total /\ q \in Nat  BY StartExact
<1>2. p > 0  BY DEF Consistent
<1> HIDE DEF q
<1>3. PieceSize(i, p, total) = IF p < total - q THEN p ELSE total - q
  BY <1>1 DEF PieceSize, Cut, Minimum
<1> QED  BY <1>1, <1>2, <1>3 DEF q

(* metainfo.rs:256-261, "Calculate the expected length of a specific        *)
(* piece": whenever as many hashes were given as total_length asks for, the *)
(* pieces cover every byte once, none is empty and none passes the end.     *)
THEOREM PiecesPartition ==
  ASSUME NEW count \in Nat, NEW p \in Nat, NEW total \in 0 .. Word - 1,
         Consistent(count, p, total)
  PROVE  Partition(count, p, total)
<1>1. ASSUME NEW o \in 0 .. total - 1
      PROVE  \E i \in 0 .. count - 1 :
               /\ Holds(i, p, total, o)
               /\ \A j \in 0 .. count - 1 : Holds(j, p, total, o) => j = i
  <2>1. p > 0 /\ total <= count * p /\ o \in Nat /\ o < total  BY DEF Consistent
  <2>2. PICK i \in Nat : i * p <= o /\ o < i * p + p  BY <2>1, Quotient
  <2>3. i < count
    <3> SUFFICES ASSUME count <= i PROVE FALSE  OBVIOUS
    <3>1. count * p <= i * p  BY TimesMonotonic
    <3>2. count * p \in Nat /\ i * p \in Nat  BY Successor
    <3> QED  BY <3>1, <3>2, <2>1, <2>2
  <2>4. i \in 0 .. count - 1  BY <2>3
  <2>5. Holds(i, p, total, o)
    <3>1. Start(i, p) = i * p /\ i * p \in Nat  BY <2>4, StartExact
    <3>2. PieceSize(i, p, total) = IF p < total - i * p THEN p ELSE total - i * p
      BY <2>4, SizeExact
    <3> DEFINE q == i * p
    <3>3. q <= o /\ o < q + p /\ q \in Nat  BY <3>1, <2>2
    <3> HIDE DEF q
    <3>4. q <= o /\ o < q + (IF p < total - q THEN p ELSE total - q)
      BY <3>3, <2>1
    <3> QED  BY <3>1, <3>2, <3>4 DEF Holds, q
  <2>6. ASSUME NEW j \in 0 .. count - 1, Holds(j, p, total, o)
        PROVE  j = i
    <3>1. j * p <= o /\ o < j * p + p
      <4> DEFINE q == j * p
      <4>1. Start(j, p) = q /\ q \in Nat  BY StartExact
      <4>2. PieceSize(j, p, total) = IF p < total - q THEN p ELSE total - q
        BY SizeExact
      <4> HIDE DEF q
      <4>3. q <= o /\ o < q + p  BY <4>1, <4>2, <2>1, <2>6 DEF Holds
      <4> QED  BY <4>3 DEF q
    <3>2. ~(j < i)
      <4> SUFFICES ASSUME j < i PROVE FALSE  OBVIOUS
      <4>1. j \in Nat /\ j + 1 \in Nat /\ j + 1 <= i  OBVIOUS
      <4>2. (j + 1) * p <= i * p  BY <4>1, TimesMonotonic
      <4>3. (j + 1) * p = j * p + p /\ j * p \in Nat  BY <4>1, Successor
      <4>4. i * p \in Nat  BY Successor
      <4> QED  BY <4>2, <4>3, <4>4, <3>1, <2>1, <2>2
    <3>3. ~(i < j)
      <4> SUFFICES ASSUME i < j PROVE FALSE  OBVIOUS
      <4>1. j \in Nat /\ i + 1 \in Nat /\ i + 1 <= j  OBVIOUS
      <4>2. (i + 1) * p <= j * p  BY <4>1, TimesMonotonic
      <4>3. (i + 1) * p = i * p + p /\ i * p \in Nat  BY <4>1, Successor
      <4>4. j * p \in Nat  BY <4>1, Successor
      <4> QED  BY <4>2, <4>3, <4>4, <3>1, <2>1, <2>2
    <3> QED  BY <3>2, <3>3
  <2> QED  BY <2>4, <2>5, <2>6
<1>2. ASSUME NEW i \in 0 .. count - 1
      PROVE  /\ PieceSize(i, p, total) > 0
             /\ Start(i, p) + PieceSize(i, p, total) <= total
  <2>1. Start(i, p) = i * p  BY StartExact
  <2>2. PieceSize(i, p, total) > 0 /\ i * p + PieceSize(i, p, total) <= total
    BY SizeExact
  <2> QED  BY <2>1, <2>2
<1> QED  BY <1>1, <1>2 DEF Partition

-----------------------------------------------------------------------------
(* The loops over lists: acc[i] is what a loop has after i elements.         *)

(* The texts of a list.                                                     *)
AddTextRun(acc, S, base, q) ==
    /\ acc \in [0 .. Len(q) -> S]
    /\ acc[0] = base
    /\ \A i \in 1 .. Len(q) : acc[i] = AddText(acc[i - 1], q[i])
    /\ FoldLeft(AddText, base, q) = acc[Len(q)]

LEMMA AddTextRuns ==
  ASSUME NEW q, IsSequence(q), NEW S, NEW base \in S,
         \A x \in S, i \in DOMAIN q : AddText(x, q[i]) \in S
  PROVE  \E acc : AddTextRun(acc, S, base, q)
<1> DEFINE n == Len(q)
           g == [x \in S \X (1 .. n) |-> AddText(x[1], q[x[2]])]
           Is(h) == h = [s \in SUBSET DOMAIN q |->
                           IF s = {} THEN base ELSE AddText(h[s \ {Max(s)}], q[Max(s)])]
<1>0. n \in Nat /\ DOMAIN q = 1 .. n
  BY DEF IsSequence
<1> HIDE DEF n
<1>1. g \in [S \X (1 .. n) -> S]
  BY <1>0
<1>2. PICK f \in [SUBSET (1 .. n) -> S] :
             \A s \in SUBSET (1 .. n) :
               f[s] = IF s = {} THEN base ELSE AddText(f[s \ {Max(s)}], q[Max(s)])
  <2>1. PICK f \in [SUBSET (1 .. n) -> S] : FoldsAs(f, base, g, n)
    <3> HIDE DEF g
    <3> QED
      BY <1>0, <1>1, FoldFor
  <2>2. ASSUME NEW s \in SUBSET (1 .. n), s # {}
        PROVE  f[s] = AddText(f[s \ {Max(s)}], q[Max(s)])
    <3>1. Max(s) \in 1 .. n /\ f[s \ {Max(s)}] \in S
      BY <1>0, <2>2, Greatest
    <3>2. f[s] = g[<<f[s \ {Max(s)}], Max(s)>>]
      BY <2>1, <2>2 DEF FoldsAs
    <3> QED
      BY <3>1, <3>2
  <2>3. f[{}] = base
    BY <2>1 DEF FoldsAs
  <2> QED
    BY <2>2, <2>3
<1>3. Is(f)
  <2>1. f = [s \in SUBSET DOMAIN q |-> f[s]]
    BY <1>0
  <2> QED
    BY <1>0, <1>2, <2>1
<1> DEFINE h == CHOOSE h : Is(h)
<1>4. Is(h)
  <2> HIDE DEF Is
  <2> QED
    BY <1>3
<1>5. FoldLeft(AddText, base, q) = h[DOMAIN q]
  BY DEF FoldLeft, MapThenFoldSet
<1> HIDE DEF h
<1> DEFINE acc == [i \in 0 .. n |-> h[1 .. i]]
<1>6. acc[0] = base
  <2>1. 1 .. 0 = {} /\ 0 \in 0 .. n
    BY <1>0
  <2> QED
    BY <1>4, <2>1
<1>7. ASSUME NEW i \in 1 .. n PROVE acc[i] = AddText(acc[i - 1], q[i])
  <2>1. i \in Nat \ {0} /\ i \in 0 .. n /\ i - 1 \in 0 .. n /\ 1 .. i \in SUBSET DOMAIN q
    BY <1>0
  <2>2. h[1 .. i] = AddText(h[1 .. i - 1], q[i])
    BY <1>4, <2>1, Seen
  <2> QED
    BY <2>1, <2>2
<1>8. FoldLeft(AddText, base, q) = acc[n] /\ acc = [i \in 0 .. n |-> acc[i]]
  BY <1>0, <1>5
<1> HIDE DEF acc
<1>9. \A i \in 1 .. n : acc[i - 1] \in S => acc[i] \in S
  BY <1>0, <1>7
<1>10. \A i \in 0 .. n : acc[i] \in S
  BY <1>0, <1>6, <1>9, Loops
<1>11. acc \in [0 .. n -> S]
  BY <1>8, <1>10
<1> QED
  BY <1>6, <1>7, <1>8, <1>11 DEF n, AddTextRun

(* The tiers of announce-list.                                              *)
AddTierRun(acc, S, base, q) ==
    /\ acc \in [0 .. Len(q) -> S]
    /\ acc[0] = base
    /\ \A i \in 1 .. Len(q) : acc[i] = AddTier(acc[i - 1], q[i])
    /\ FoldLeft(AddTier, base, q) = acc[Len(q)]

LEMMA AddTierRuns ==
  ASSUME NEW q, IsSequence(q), NEW S, NEW base \in S,
         \A x \in S, i \in DOMAIN q : AddTier(x, q[i]) \in S
  PROVE  \E acc : AddTierRun(acc, S, base, q)
<1> DEFINE n == Len(q)
           g == [x \in S \X (1 .. n) |-> AddTier(x[1], q[x[2]])]
           Is(h) == h = [s \in SUBSET DOMAIN q |->
                           IF s = {} THEN base ELSE AddTier(h[s \ {Max(s)}], q[Max(s)])]
<1>0. n \in Nat /\ DOMAIN q = 1 .. n
  BY DEF IsSequence
<1> HIDE DEF n
<1>1. g \in [S \X (1 .. n) -> S]
  BY <1>0
<1>2. PICK f \in [SUBSET (1 .. n) -> S] :
             \A s \in SUBSET (1 .. n) :
               f[s] = IF s = {} THEN base ELSE AddTier(f[s \ {Max(s)}], q[Max(s)])
  <2>1. PICK f \in [SUBSET (1 .. n) -> S] : FoldsAs(f, base, g, n)
    <3> HIDE DEF g
    <3> QED
      BY <1>0, <1>1, FoldFor
  <2>2. ASSUME NEW s \in SUBSET (1 .. n), s # {}
        PROVE  f[s] = AddTier(f[s \ {Max(s)}], q[Max(s)])
    <3>1. Max(s) \in 1 .. n /\ f[s \ {Max(s)}] \in S
      BY <1>0, <2>2, Greatest
    <3>2. f[s] = g[<<f[s \ {Max(s)}], Max(s)>>]
      BY <2>1, <2>2 DEF FoldsAs
    <3> QED
      BY <3>1, <3>2
  <2>3. f[{}] = base
    BY <2>1 DEF FoldsAs
  <2> QED
    BY <2>2, <2>3
<1>3. Is(f)
  <2>1. f = [s \in SUBSET DOMAIN q |-> f[s]]
    BY <1>0
  <2> QED
    BY <1>0, <1>2, <2>1
<1> DEFINE h == CHOOSE h : Is(h)
<1>4. Is(h)
  <2> HIDE DEF Is
  <2> QED
    BY <1>3
<1>5. FoldLeft(AddTier, base, q) = h[DOMAIN q]
  BY DEF FoldLeft, MapThenFoldSet
<1> HIDE DEF h
<1> DEFINE acc == [i \in 0 .. n |-> h[1 .. i]]
<1>6. acc[0] = base
  <2>1. 1 .. 0 = {} /\ 0 \in 0 .. n
    BY <1>0
  <2> QED
    BY <1>4, <2>1
<1>7. ASSUME NEW i \in 1 .. n PROVE acc[i] = AddTier(acc[i - 1], q[i])
  <2>1. i \in Nat \ {0} /\ i \in 0 .. n /\ i - 1 \in 0 .. n /\ 1 .. i \in SUBSET DOMAIN q
    BY <1>0
  <2>2. h[1 .. i] = AddTier(h[1 .. i - 1], q[i])
    BY <1>4, <2>1, Seen
  <2> QED
    BY <2>1, <2>2
<1>8. FoldLeft(AddTier, base, q) = acc[n] /\ acc = [i \in 0 .. n |-> acc[i]]
  BY <1>0, <1>5
<1> HIDE DEF acc
<1>9. \A i \in 1 .. n : acc[i - 1] \in S => acc[i] \in S
  BY <1>0, <1>7
<1>10. \A i \in 0 .. n : acc[i] \in S
  BY <1>0, <1>6, <1>9, Loops
<1>11. acc \in [0 .. n -> S]
  BY <1>8, <1>10
<1> QED
  BY <1>6, <1>7, <1>8, <1>11 DEF n, AddTierRun

(* The files of a torrent.                                                  *)
AddFileRun(acc, S, q, checked) ==
    /\ acc \in [0 .. Len(q) -> S]
    /\ acc[0] = NoFiles
    /\ \A i \in 1 .. Len(q) : acc[i] = AddFile(acc[i - 1], q[i], checked)
    /\ AllFiles(q, checked) = acc[Len(q)]

LEMMA AddFileRuns ==
  ASSUME NEW q, IsSequence(q), NEW S, NoFiles \in S, NEW checked,
         \A x \in S, i \in DOMAIN q : AddFile(x, q[i], checked) \in S
  PROVE  \E acc : AddFileRun(acc, S, q, checked)
<1> DEFINE n == Len(q)
           g == [x \in S \X (1 .. n) |-> AddFile(x[1], q[x[2]], checked)]
           Is(h) == h = [s \in SUBSET DOMAIN q |->
                           IF s = {} THEN NoFiles ELSE AddFile(h[s \ {Max(s)}], q[Max(s)], checked)]
<1>0. n \in Nat /\ DOMAIN q = 1 .. n
  BY DEF IsSequence
<1> HIDE DEF n
<1>1. g \in [S \X (1 .. n) -> S]
  BY <1>0
<1>2. PICK f \in [SUBSET (1 .. n) -> S] :
             \A s \in SUBSET (1 .. n) :
               f[s] = IF s = {} THEN NoFiles ELSE AddFile(f[s \ {Max(s)}], q[Max(s)], checked)
  <2>1. PICK f \in [SUBSET (1 .. n) -> S] : FoldsAs(f, NoFiles, g, n)
    <3> HIDE DEF g
    <3> QED
      BY <1>0, <1>1, FoldFor
  <2>2. ASSUME NEW s \in SUBSET (1 .. n), s # {}
        PROVE  f[s] = AddFile(f[s \ {Max(s)}], q[Max(s)], checked)
    <3>1. Max(s) \in 1 .. n /\ f[s \ {Max(s)}] \in S
      BY <1>0, <2>2, Greatest
    <3>2. f[s] = g[<<f[s \ {Max(s)}], Max(s)>>]
      BY <2>1, <2>2 DEF FoldsAs
    <3> QED
      BY <3>1, <3>2
  <2>3. f[{}] = NoFiles
    BY <2>1 DEF FoldsAs
  <2> QED
    BY <2>2, <2>3
<1>3. Is(f)
  <2>1. f = [s \in SUBSET DOMAIN q |-> f[s]]
    BY <1>0
  <2> QED
    BY <1>0, <1>2, <2>1
<1> DEFINE h == CHOOSE h : Is(h)
<1>4. Is(h)
  <2> HIDE DEF Is
  <2> QED
    BY <1>3
<1>5. AllFiles(q, checked) = h[DOMAIN q]
  BY DEF AllFiles, FoldLeft, MapThenFoldSet
<1> HIDE DEF h
<1> DEFINE acc == [i \in 0 .. n |-> h[1 .. i]]
<1>6. acc[0] = NoFiles
  <2>1. 1 .. 0 = {} /\ 0 \in 0 .. n
    BY <1>0
  <2> QED
    BY <1>4, <2>1
<1>7. ASSUME NEW i \in 1 .. n PROVE acc[i] = AddFile(acc[i - 1], q[i], checked)
  <2>1. i \in Nat \ {0} /\ i \in 0 .. n /\ i - 1 \in 0 .. n /\ 1 .. i \in SUBSET DOMAIN q
    BY <1>0
  <2>2. h[1 .. i] = AddFile(h[1 .. i - 1], q[i], checked)
    BY <1>4, <2>1, Seen
  <2> QED
    BY <2>1, <2>2
<1>8. AllFiles(q, checked) = acc[n] /\ acc = [i \in 0 .. n |-> acc[i]]
  BY <1>0, <1>5
<1> HIDE DEF acc
<1>9. \A i \in 1 .. n : acc[i - 1] \in S => acc[i] \in S
  BY <1>0, <1>7
<1>10. \A i \in 0 .. n : acc[i] \in S
  BY <1>0, <1>6, <1>9, Loops
<1>11. acc \in [0 .. n -> S]
  BY <1>8, <1>10
<1> QED
  BY <1>6, <1>7, <1>8, <1>11 DEF n, AddFileRun

(* The sum of a sequence.                                                   *)
SumRun(acc, S, q) ==
    /\ acc \in [0 .. Len(q) -> S]
    /\ acc[0] = 0
    /\ \A i \in 1 .. Len(q) : acc[i] = acc[i - 1] + q[i]
    /\ SumOf(q) = acc[Len(q)]

LEMMA SumRuns ==
  ASSUME NEW q, IsSequence(q), NEW S, 0 \in S,
         \A x \in S, i \in DOMAIN q : x + q[i] \in S
  PROVE  \E acc : SumRun(acc, S, q)
<1> DEFINE n == Len(q)
           g == [x \in S \X (1 .. n) |-> x[1] + q[x[2]]]
           Is(h) == h = [s \in SUBSET DOMAIN q |->
                           IF s = {} THEN 0 ELSE h[s \ {Max(s)}] + q[Max(s)]]
<1>0. n \in Nat /\ DOMAIN q = 1 .. n
  BY DEF IsSequence
<1> HIDE DEF n
<1>1. g \in [S \X (1 .. n) -> S]
  BY <1>0
<1>2. PICK f \in [SUBSET (1 .. n) -> S] :
             \A s \in SUBSET (1 .. n) :
               f[s] = IF s = {} THEN 0 ELSE f[s \ {Max(s)}] + q[Max(s)]
  <2>1. PICK f \in [SUBSET (1 .. n) -> S] : FoldsAs(f, 0, g, n)
    <3> HIDE DEF g
    <3> QED
      BY <1>0, <1>1, FoldFor
  <2>2. ASSUME NEW s \in SUBSET (1 .. n), s # {}
        PROVE  f[s] = f[s \ {Max(s)}] + q[Max(s)]
    <3>1. Max(s) \in 1 .. n /\ f[s \ {Max(s)}] \in S
      BY <1>0, <2>2, Greatest
    <3>2. f[s] = g[<<f[s \ {Max(s)}], Max(s)>>]
      BY <2>1, <2>2 DEF FoldsAs
    <3> QED
      BY <3>1, <3>2
  <2>3. f[{}] = 0
    BY <2>1 DEF FoldsAs
  <2> QED
    BY <2>2, <2>3
<1>3. Is(f)
  <2>1. f = [s \in SUBSET DOMAIN q |-> f[s]]
    BY <1>0
  <2> QED
    BY <1>0, <1>2, <2>1
<1> DEFINE h == CHOOSE h : Is(h)
<1>4. Is(h)
  <2> HIDE DEF Is
  <2> QED
    BY <1>3
<1>5. SumOf(q) = h[DOMAIN q]
  BY DEF SumOf, FoldLeft, MapThenFoldSet
<1> HIDE DEF h
<1> DEFINE acc == [i \in 0 .. n |-> h[1 .. i]]
<1>6. acc[0] = 0
  <2>1. 1 .. 0 = {} /\ 0 \in 0 .. n
    BY <1>0
  <2> QED
    BY <1>4, <2>1
<1>7. ASSUME NEW i \in 1 .. n PROVE acc[i] = acc[i - 1] + q[i]
  <2>1. i \in Nat \ {0} /\ i \in 0 .. n /\ i - 1 \in 0 .. n /\ 1 .. i \in SUBSET DOMAIN q
    BY <1>0
  <2>2. h[1 .. i] = h[1 .. i - 1] + q[i]
    BY <1>4, <2>1, Seen
  <2> QED
    BY <2>1, <2>2
<1>8. SumOf(q) = acc[n] /\ acc = [i \in 0 .. n |-> acc[i]]
  BY <1>0, <1>5
<1> HIDE DEF acc
<1>9. \A i \in 1 .. n : acc[i - 1] \in S => acc[i] \in S
  BY <1>0, <1>7
<1>10. \A i \in 0 .. n : acc[i] \in S
  BY <1>0, <1>6, <1>9, Loops
<1>11. acc \in [0 .. n -> S]
  BY <1>8, <1>10
<1> QED
  BY <1>6, <1>7, <1>8, <1>11 DEF n, SumRun

-----------------------------------------------------------------------------
(* What the accessors return of a value whose parts are in V.               *)

TextSet == {b \in Seq(Byte) : Utf8(b)}
Word64  == 0 .. Word - 1

LEMMA U64Type == ASSUME NEW n \in Int PROVE U64(n) \in Word64
  BY WordOK DEF U64, Word64

LEMMA TheOne == ASSUME NEW S, S # {} PROVE The(S) \in S
  BY DEF The

LEMMA IntOfMade ==
    ASSUME NEW V, NEW v, Made(v, V), "int" \in DOMAIN v
    PROVE  v.int \in Integers64
<1>1. ASSUME NEW s, v = [list |-> s] PROVE FALSE
  BY <1>1
<1>2. ASSUME NEW b, v = [bytes |-> b] PROVE FALSE
  BY <1>2
<1>3. ASSUME NEW m, v = [dict |-> m] PROVE FALSE
  BY <1>3
<1>4. ASSUME NEW n \in Integers64, v = [int |-> n] PROVE v.int \in Integers64
  BY <1>4
<1> QED
  BY <1>1, <1>2, <1>3, <1>4, Zenon DEF Made

LEMMA ListOfMade ==
    ASSUME NEW V, NEW v, Made(v, V), "list" \in DOMAIN v
    PROVE  v.list \in Seq(V)
<1>1. ASSUME NEW n, v = [int |-> n] PROVE FALSE
  BY <1>1
<1>2. ASSUME NEW b, v = [bytes |-> b] PROVE FALSE
  BY <1>2
<1>3. ASSUME NEW m, v = [dict |-> m] PROVE FALSE
  BY <1>3
<1>4. ASSUME NEW s \in Seq(V), v = [list |-> s] PROVE v.list \in Seq(V)
  BY <1>4
<1> QED
  BY <1>1, <1>2, <1>3, <1>4, Zenon DEF Made

LEMMA DictOfMade ==
    ASSUME NEW V, NEW v, Made(v, V), "dict" \in DOMAIN v, NEW k \in DOMAIN v.dict
    PROVE  v.dict[k] \in V
<1>1. ASSUME NEW n, v = [int |-> n] PROVE FALSE
  BY <1>1
<1>2. ASSUME NEW b, v = [bytes |-> b] PROVE FALSE
  BY <1>2
<1>3. ASSUME NEW s, v = [list |-> s] PROVE FALSE
  BY <1>3
<1>4. ASSUME NEW K, NEW m \in [K -> V], v = [dict |-> m] PROVE v.dict[k] \in V
  BY <1>4
<1> QED
  BY <1>1, <1>2, <1>3, <1>4, Zenon DEF Made

LEMMA Accessors ==
    ASSUME NEW V, WellFormed(V), NEW v \in V
    PROVE  /\ AsInteger(v) \subseteq Integers64
           /\ AsBytes(v) \subseteq Seq(Byte)
           /\ AsStr(v) \subseteq TextSet
           /\ AsList(v) \subseteq Seq(V)
           /\ \A k : Get(v, k) \subseteq V
<1>1. Made(v, V)
  BY DEF WellFormed
<1>2. AsInteger(v) \subseteq Integers64
  BY <1>1, IntOfMade DEF AsInteger
<1>3. AsBytes(v) \subseteq Seq(Byte)
  BY <1>1, BytesOfMade DEF AsBytes
<1>4. AsStr(v) \subseteq TextSet
  BY <1>3 DEF AsStr, TextSet
<1>5. AsList(v) \subseteq Seq(V)
  BY <1>1, ListOfMade DEF AsList
<1>6. ASSUME NEW k PROVE Get(v, k) \subseteq V
  BY <1>1, DictOfMade DEF Get, AsDict
<1> QED
  BY <1>2, <1>3, <1>4, <1>5, <1>6

(* The fields of the dictionary v. *)
FieldsOf(v, V) ==
    \A k : /\ GetInteger(v, k) \subseteq Integers64
           /\ GetBytes(v, k) \subseteq Seq(Byte)
           /\ GetStr(v, k) \subseteq TextSet
           /\ GetList(v, k) \subseteq Seq(V)

LEMMA FieldTypes ==
    ASSUME NEW V, WellFormed(V), NEW v \in V
    PROVE  FieldsOf(v, V)
<1> SUFFICES ASSUME NEW k
             PROVE  /\ GetInteger(v, k) \subseteq Integers64
                    /\ GetBytes(v, k) \subseteq Seq(Byte)
                    /\ GetStr(v, k) \subseteq TextSet
                    /\ GetList(v, k) \subseteq Seq(V)
  BY DEF FieldsOf
<1>1. \A f \in Get(v, k) : f \in V
  BY Accessors
<1>2. GetInteger(v, k) \subseteq Integers64
  BY <1>1, Accessors DEF GetInteger
<1>3. GetBytes(v, k) \subseteq Seq(Byte)
  BY <1>1, Accessors DEF GetBytes
<1>4. GetStr(v, k) \subseteq TextSet
  BY <1>1, Accessors DEF GetStr
<1>5. GetList(v, k) \subseteq Seq(V)
  BY <1>1, Accessors DEF GetList
<1> QED
  BY <1>2, <1>3, <1>4, <1>5

(* A dictionary has one value for a key.                                    *)
LEMMA GetIsOne ==
    ASSUME NEW v, NEW k, NEW x \in Get(v, k)
    PROVE  The(Get(v, k)) = x
<1>1. \A y \in Get(v, k) : y = x
  BY DEF Get, AsDict
<1>2. The(Get(v, k)) \in Get(v, k)
  BY TheOne
<1> QED
  BY <1>1, <1>2

-----------------------------------------------------------------------------
(* The texts of a torrent. *)

LEMMA TextsType ==
    ASSUME NEW V, WellFormed(V), NEW list \in Seq(V)
    PROVE  Texts(list) \in Seq(TextSet)
<1>1. /\ IsSequence(list) /\ <<>> \in Seq(TextSet)
      /\ \A i \in DOMAIN list : list[i] \in V
  BY DEF IsSequence
<1>2. ASSUME NEW x \in Seq(TextSet), NEW i \in DOMAIN list
      PROVE  AddText(x, list[i]) \in Seq(TextSet)
  <2>1. AsStr(list[i]) # {} => The(AsStr(list[i])) \in TextSet
    BY <1>1, Accessors, TheOne
  <2> QED
    BY <2>1 DEF AddText
<1>3. PICK acc : AddTextRun(acc, Seq(TextSet), <<>>, list)
  BY <1>1, <1>2, AddTextRuns
<1>4. FoldLeft(AddText, <<>>, list) \in Seq(TextSet)
  BY <1>1, <1>3 DEF AddTextRun, IsSequence
<1> QED
  BY <1>4 DEF Texts

LEMMA TiersType ==
    ASSUME NEW V, WellFormed(V), NEW v \in V
    PROVE  Tiers(v) \subseteq Seq(Seq(TextSet))
<1> DEFINE S == Seq(Seq(TextSet))
<1> SUFFICES ASSUME NEW list \in Seq(V)
             PROVE  FoldLeft(AddTier, <<>>, list) \in S
  BY FieldTypes DEF Tiers, FieldsOf
<1>1. /\ IsSequence(list) /\ <<>> \in S
      /\ \A i \in DOMAIN list : list[i] \in V
  BY DEF IsSequence
<1>2. ASSUME NEW x \in S, NEW i \in DOMAIN list
      PROVE  AddTier(x, list[i]) \in S
  <2>1. AsList(list[i]) # {} => Texts(The(AsList(list[i]))) \in Seq(TextSet)
    BY <1>1, Accessors, TheOne, TextsType
  <2> QED
    BY <2>1 DEF AddTier
<1> HIDE DEF S
<1>3. PICK acc : AddTierRun(acc, S, <<>>, list)
  BY <1>1, <1>2, AddTierRuns
<1> QED
  BY <1>1, <1>3 DEF AddTierRun, IsSequence

-----------------------------------------------------------------------------
(* The files of a torrent. *)

FileRec == [length : Word64, path : Seq(TextSet)]

(* What may be wrong with the fields, and the failures that this makes.     *)
FieldErrors == Errors \ {"InfoDictNotFound"}
Failure == [error : FieldErrors]

LayoutRec == [files : Seq(FileRec), total : Word64]

LEMMA FailureType ==
    /\ \A r \in Failure : Failed(r) /\ r.error \in FieldErrors
    /\ \A r \in FileRec : ~Failed(r)
    /\ \A r \in LayoutRec : ~Failed(r)
<1>1. \A r \in Failure : Failed(r) /\ r.error \in FieldErrors
  BY DEF Failure, Failed
<1>2. \A r \in FileRec : ~Failed(r)
  BY DEF FileRec, Failed
<1>3. \A r \in LayoutRec : ~Failed(r)
  BY DEF LayoutRec, Failed
<1> QED
  BY <1>1, <1>2, <1>3

LEMMA FailIsFailure == ASSUME NEW e \in FieldErrors PROVE Fail(e) \in Failure
  BY DEF Fail, Failure

LEMMA FileOfType ==
    ASSUME NEW V, WellFormed(V), NEW entry \in V
    PROVE  \/ FileOf(entry) \in Failure
           \/ /\ FileOf(entry) \in FileRec
              /\ GetInteger(entry, LengthKey) # {}
              /\ FileOf(entry).length = U64(The(GetInteger(entry, LengthKey)))
<1>1. CASE AsDict(entry) = {}
  BY <1>1, FailIsFailure DEF FileOf, FieldErrors, Errors
<1>2. CASE AsDict(entry) # {} /\ (GetInteger(entry, LengthKey) = {} \/ GetList(entry, PathKey) = {})
  BY <1>2, FailIsFailure DEF FileOf, FieldErrors, Errors
<1>3. CASE AsDict(entry) # {} /\ GetInteger(entry, LengthKey) # {} /\ GetList(entry, PathKey) # {}
  <2> DEFINE n == The(GetInteger(entry, LengthKey))
             p == The(GetList(entry, PathKey))
  <2>1. n \in Integers64 /\ p \in Seq(V)
    BY <1>3, FieldTypes, TheOne DEF FieldsOf
  <2>2. n \in Int
    BY <2>1, InputsOK DEF Integers64
  <2>3. U64(n) \in Word64 /\ Texts(p) \in Seq(TextSet)
    BY <2>1, <2>2, U64Type, TextsType
  <2>4. FileOf(entry) = [length |-> U64(n), path |-> Texts(p)]
    BY <1>3 DEF FileOf
  <2> HIDE DEF n, p
  <2>5. FileOf(entry) \in FileRec /\ FileOf(entry).length = U64(n)
    BY <2>3, <2>4 DEF FileRec
  <2> QED
    BY <1>3, <2>5 DEF n
<1> QED
  BY <1>1, <1>2, <1>3

(* One turn of the loop over the files. *)
LEMMA AddFileType ==
    ASSUME NEW V, WellFormed(V), NEW entry \in V, NEW checked,
           NEW soFar \in LayoutRec \cup Failure
    PROVE  LET r == AddFile(soFar, entry, checked)
           IN  /\ r \in LayoutRec \cup Failure
               /\ ~Failed(r) =>
                    /\ soFar \in LayoutRec /\ FileOf(entry) \in FileRec
                    /\ r.files = Append(soFar.files, FileOf(entry))
                    /\ r.total = Plus(soFar.total, FileOf(entry).length)
<1> DEFINE f == FileOf(entry)
           r == AddFile(soFar, entry, checked)
<1>1. CASE Failed(soFar)
  BY <1>1, FailureType DEF AddFile
<1>2. CASE ~Failed(soFar) /\ Failed(f)
  <2>1. f \in Failure
    BY <1>2, FileOfType, FailureType
  <2> QED
    BY <1>2, <2>1 DEF AddFile
<1>3. CASE ~Failed(soFar) /\ ~Failed(f) /\ checked /\ soFar.total + f.length >= Word
  <2>1. r = Fail("panic") /\ Fail("panic") \in Failure
    BY <1>3, FailIsFailure DEF AddFile, FieldErrors, Errors
  <2> QED
    BY <2>1, FailureType
<1>4. CASE ~Failed(soFar) /\ ~Failed(f) /\ ~(checked /\ soFar.total + f.length >= Word)
  <2>1. soFar \in LayoutRec /\ f \in FileRec
    BY <1>4, FileOfType, FailureType
  <2>2. r = [files |-> Append(soFar.files, f), total |-> Plus(soFar.total, f.length)]
    BY <1>4 DEF AddFile
  <2> HIDE DEF f, r
  <2>3. /\ soFar.files \in Seq(FileRec) /\ soFar.total \in Word64
        /\ f.length \in Word64
    BY <2>1 DEF LayoutRec, FileRec
  <2>4. Append(soFar.files, f) \in Seq(FileRec)
    BY <2>1, <2>3
  <2>5. Plus(soFar.total, f.length) \in Word64
    BY <2>3, WordOK DEF Plus, Word64
  <2>6. r \in LayoutRec /\ r.files = Append(soFar.files, f)
        /\ r.total = Plus(soFar.total, f.length)
    BY <2>2, <2>4, <2>5 DEF LayoutRec
  <2> QED
    BY <2>1, <2>6 DEF f, r
<1> QED
  BY <1>1, <1>2, <1>3, <1>4

(* Addition wraps once at most. *)
LEMMA PlusWraps ==
    ASSUME NEW a \in Word64, NEW l \in Word64
    PROVE  Plus(a, l) = IF a + l < Word THEN a + l ELSE (a + l) - Word
<1> DEFINE s == a + l
<1>1. s \in Nat /\ s < 2 * Word /\ Word \in Nat \ {0}
  BY WordOK DEF Word64
<1> HIDE DEF s
<1>2. s % Word = IF s < Word THEN s ELSE s - Word
  <2>1. CASE s < Word
    BY <1>1, <2>1
  <2>2. CASE ~(s < Word)
    <3> DEFINE t == s - Word
    <3>1. t \in Nat /\ t < Word /\ s = t + Word
      BY <1>1, <2>2
    <3>2. t % Word = t
      BY <1>1, <3>1
    <3>3. s % Word = t % Word
      BY <1>1, <3>1
    <3> QED
      BY <2>2, <3>2, <3>3
  <2> QED
    BY <2>1, <2>2
<1>3. Plus(a, l) = IF s < Word THEN s ELSE s - Word
  BY <1>2, Zenon DEF Plus, s
<1> QED
  BY <1>3, Zenon DEF s

(* The sum of the lengths and the total, which wraps. *)
Congruent(sum, total) == \E q \in Nat : sum = total + q * Word

LEMMA StillCongruent ==
    ASSUME NEW sum \in Nat, NEW a \in Word64, NEW l \in Word64, Congruent(sum, a)
    PROVE  Congruent(sum + l, Plus(a, l))
<1>1. PICK q \in Nat : sum = a + q * Word
  BY DEF Congruent
<1> DEFINE x == q * Word
<1>2. x \in Nat /\ (q + 1) * Word = x + Word /\ Word \in Nat /\ a \in Nat /\ l \in Nat
  BY WordOK DEF Word64
<1>3. sum = a + x
  BY <1>1
<1> HIDE DEF x
<1>4. CASE a + l < Word
  <2>1. sum + l = Plus(a, l) + x
    BY <1>2, <1>3, <1>4, PlusWraps
  <2> QED
    BY <2>1 DEF Congruent, x
<1>5. CASE ~(a + l < Word)
  <2>1. sum + l = Plus(a, l) + (x + Word)
    BY <1>2, <1>3, <1>5, PlusWraps
  <2>2. sum + l = Plus(a, l) + (q + 1) * Word
    BY <1>2, <2>1
  <2> QED
    BY <2>2 DEF Congruent
<1> QED
  BY <1>4, <1>5
-----------------------------------------------------------------------------
(* Sums of sequences. *)

(* What a loop that adds up has after each element.                         *)
SumsUp(acc, q) ==
    /\ acc \in [0 .. Len(q) -> Nat]
    /\ acc[0] = 0
    /\ \A i \in 1 .. Len(q) : acc[i] = acc[i - 1] + q[i]
    /\ SumOf(q) = acc[Len(q)]

LEMMA Sums == ASSUME NEW q \in Seq(Nat) PROVE \E acc : SumsUp(acc, q)
<1>1. IsSequence(q) /\ 0 \in Nat /\ \A i \in DOMAIN q : q[i] \in Nat
  BY DEF IsSequence
<1>2. \A x \in Nat, i \in DOMAIN q : x + q[i] \in Nat
  BY <1>1
<1>3. PICK acc : SumRun(acc, Nat, q)
  BY <1>1, <1>2, SumRuns
<1> QED
  BY <1>3 DEF SumRun, SumsUp

LEMMA SumStep ==
    ASSUME NEW q \in Seq(Nat), NEW acc, SumsUp(acc, q), NEW k \in Nat, k < Len(q)
    PROVE  /\ acc[k + 1] = acc[k] + q[k + 1]
           /\ acc[k] \in Nat /\ q[k + 1] \in Nat
<1> DEFINE i == k + 1
           n == Len(q)
<1>1. n \in Nat /\ i \in 1 .. n /\ i - 1 = k /\ k \in 0 .. n /\ q[i] \in Nat
  OBVIOUS
<1>2. acc \in [0 .. n -> Nat] /\ \A j \in 1 .. n : acc[j] = acc[j - 1] + q[j]
  BY DEF SumsUp
<1> HIDE DEF i, n
<1>3. acc[i] = acc[k] + q[i] /\ acc[k] \in Nat
  BY <1>1, <1>2
<1> QED
  BY <1>1, <1>3 DEF i

LEMMA SumIsNat == ASSUME NEW q \in Seq(Nat) PROVE SumOf(q) \in Nat
<1>1. PICK acc : SumsUp(acc, q)
  BY Sums
<1> QED
  BY <1>1 DEF SumsUp

LEMMA SumOfNone == SumOf(<<>>) = 0
<1>1. <<>> \in Seq(Nat) /\ Len(<<>>) = 0
  OBVIOUS
<1>2. PICK acc : SumsUp(acc, <<>>)
  BY <1>1, Sums
<1> QED
  BY <1>1, <1>2 DEF SumsUp

LEMMA SumOfMore ==
    ASSUME NEW q \in Seq(Nat), NEW x \in Nat
    PROVE  SumOf(Append(q, x)) = SumOf(q) + x
<1> DEFINE n == Len(q)
           c == Append(q, x)
<1>1. n \in Nat /\ c \in Seq(Nat) /\ Len(c) = n + 1 /\ c[n + 1] = x
      /\ \A i \in 1 .. n : c[i] = q[i]
  OBVIOUS
<1> HIDE DEF c
<1>2. PICK a : SumsUp(a, q)
  BY Sums
<1>3. PICK b : SumsUp(b, c)
  BY <1>1, Sums
<1> DEFINE T == {i \in 0 .. n : a[i] = b[i]}
<1>4. 0 \in T
  BY <1>1, <1>2, <1>3 DEF SumsUp
<1>5. ASSUME NEW k \in 0 .. n - 1, k \in T PROVE k + 1 \in T
  <2>1. k \in Nat /\ k < n /\ k < n + 1 /\ k + 1 \in 1 .. n /\ k + 1 \in 0 .. n
    BY <1>1
  <2>2. a[k + 1] = a[k] + q[k + 1]
    BY <1>2, <2>1, SumStep
  <2>3. b[k + 1] = b[k] + c[k + 1]
    <3>1. c \in Seq(Nat) /\ k \in Nat /\ k < Len(c)
      BY <1>1, <2>1
    <3> QED
      BY ONLY <1>3, <3>1, SumStep
  <2> QED
    BY <1>1, <1>5, <2>1, <2>2, <2>3
<1>6. n \in T
  <2> HIDE DEF T, n
  <2>1. 0 .. n \subseteq T
    BY <1>1, <1>4, <1>5, UpTo
  <2> QED
    BY <1>1, <2>1
<1>7. b[n + 1] = b[n] + x
  BY <1>1, <1>3, SumStep
<1>8. SumOf(q) = a[n] /\ SumOf(c) = b[n + 1]
  BY <1>1, <1>2, <1>3 DEF SumsUp
<1> QED
  BY <1>6, <1>7, <1>8 DEF c

(* No part is more than the whole. *)
LEMMA PartOfSum ==
    ASSUME NEW q \in Seq(Nat), NEW j \in DOMAIN q
    PROVE  q[j] <= SumOf(q)
<1> DEFINE n == Len(q)
<1>1. n \in Nat /\ j \in 1 .. n /\ \A i \in 1 .. n : q[i] \in Nat
  OBVIOUS
<1>2. PICK a : SumsUp(a, q)
  BY Sums
<1> DEFINE T == {k \in 0 .. n : j <= k => q[j] <= a[k]}
<1>3. 0 \in T
  BY <1>1
<1>4. ASSUME NEW k \in 0 .. n - 1, k \in T PROVE k + 1 \in T
  <2>1. k + 1 \in 1 .. n /\ k + 1 \in 0 .. n /\ (k + 1) - 1 = k
    BY <1>1
  <2>2. a[k + 1] = a[k] + q[k + 1] /\ a[k] \in Nat /\ q[k + 1] \in Nat
    BY <1>1, <1>2, <2>1, SumStep
  <2>3. CASE j = k + 1
    BY <1>1, <2>1, <2>2, <2>3
  <2>4. CASE j # k + 1
    BY <1>1, <1>4, <2>1, <2>2, <2>4
  <2> QED
    BY <2>3, <2>4
<1>5. n \in T
  <2> HIDE DEF T, n
  <2>1. 0 .. n \subseteq T
    BY <1>1, <1>3, <1>4, UpTo
  <2> QED
    BY <1>1, <2>1
<1> QED
  BY <1>1, <1>2, <1>5 DEF SumsUp

-----------------------------------------------------------------------------
(* The loop over the files. *)

LengthsOf(files) == [i \in DOMAIN files |-> files[i].length]

LEMMA LengthsAreNat == ASSUME NEW files \in Seq(FileRec) PROVE LengthsOf(files) \in Seq(Nat)
<1> DEFINE n == Len(files)
           s == LengthsOf(files)
<1>1. n \in Nat /\ DOMAIN files = 1 .. n /\ \A i \in 1 .. n : files[i] \in FileRec
  OBVIOUS
<1>2. \A g \in FileRec : g.length \in Nat
  BY DEF FileRec, Word64
<1>3. s \in [1 .. n -> Nat]
  BY <1>1, <1>2 DEF LengthsOf
<1> HIDE DEF s
<1>4. s \in Seq(Nat)
  BY ONLY <1>1, <1>3, TupleSeq
<1> QED
  BY <1>4 DEF s

LEMMA LengthsOfMore ==
    ASSUME NEW files \in Seq(FileRec), NEW f \in FileRec
    PROVE  /\ LengthsOf(files) \in Seq(Nat)
           /\ LengthsOf(Append(files, f)) = Append(LengthsOf(files), f.length)
<1> DEFINE n == Len(files)
           s == LengthsOf(files)
           c == Append(files, f)
<1>1. /\ n \in Nat /\ DOMAIN files = 1 .. n /\ \A i \in 1 .. n : files[i] \in FileRec
      /\ DOMAIN c = 1 .. n + 1 /\ c[n + 1] = f /\ \A i \in 1 .. n : c[i] = files[i]
  OBVIOUS
<1> HIDE DEF n, c
<1>2. \A g \in FileRec : g.length \in Nat
  BY DEF FileRec, Word64
<1>3. s = [i \in 1 .. n |-> files[i].length]
  BY <1>1 DEF LengthsOf
<1>4. s \in [1 .. n -> Nat]
  BY <1>1, <1>2, <1>3
<1>5. s \in Seq(Nat) /\ Len(s) = n
  <2> HIDE DEF s
  <2> QED
    BY ONLY <1>1, <1>4, TupleSeq
<1>6. LengthsOf(c) = [i \in 1 .. n + 1 |-> c[i].length]
  BY <1>1 DEF LengthsOf
<1>7. ASSUME NEW i \in 1 .. n + 1 PROVE c[i].length = Append(s, f.length)[i]
  <2>1. CASE i = n + 1
    <3> HIDE DEF s
    <3> QED
      BY <1>1, <1>2, <1>5, <2>1
  <2>2. CASE i # n + 1
    <3>1. i \in 1 .. n
      BY <1>1, <2>2
    <3>2. c[i].length = s[i]
      BY <1>1, <1>3, <3>1
    <3> HIDE DEF s
    <3> QED
      BY <1>1, <1>2, <1>5, <3>1, <3>2
  <2> QED
    BY <2>1, <2>2
<1>8. Append(s, f.length) \in Seq(Nat) /\ Len(Append(s, f.length)) = n + 1
  <2> HIDE DEF s
  <2> QED
    BY <1>2, <1>5
<1>9. Append(s, f.length) = [i \in 1 .. n + 1 |-> Append(s, f.length)[i]]
  <2> HIDE DEF s
  <2> QED
    BY <1>8
<1> QED
  BY <1>5, <1>6, <1>7, <1>9 DEF c

(* What the loop has after k files.                                         *)
LaidOut(q, k, r) ==
    /\ r \in LayoutRec /\ Len(r.files) = k
    /\ \A j \in 1 .. k : FileOf(q[j]) \in FileRec /\ r.files[j] = FileOf(q[j])
    /\ Congruent(SumOf(LengthsOf(r.files)), r.total)

LEMMA NoneLaidOut == ASSUME NEW q PROVE LaidOut(q, 0, NoFiles)
<1>1. NoFiles.files = <<>> /\ NoFiles.total = 0 /\ NoFiles \in LayoutRec
  BY WordOK DEF NoFiles, LayoutRec, Word64
<1>2. LengthsOf(<<>>) = <<>>
  BY DEF LengthsOf
<1>3. 0 = 0 + 0 * Word
  BY WordOK
<1>4. Congruent(0, 0)
  BY <1>3 DEF Congruent
<1> QED
  BY <1>1, <1>2, <1>4, SumOfNone DEF LaidOut

LEMMA OneMoreLaidOut ==
    ASSUME NEW V, WellFormed(V), NEW q \in Seq(V), NEW k \in Nat, k + 1 \in DOMAIN q,
           NEW r, LaidOut(q, k, r), NEW checked,
           ~Failed(AddFile(r, q[k + 1], checked))
    PROVE  LaidOut(q, k + 1, AddFile(r, q[k + 1], checked))
<1> DEFINE f == FileOf(q[k + 1])
           s == AddFile(r, q[k + 1], checked)
<1>1. q[k + 1] \in V /\ r \in LayoutRec
  BY DEF LaidOut
<1>2. /\ s \in LayoutRec \cup Failure /\ ~Failed(s)
      /\ f \in FileRec
      /\ s.files = Append(r.files, f) /\ s.total = Plus(r.total, f.length)
  BY <1>1, AddFileType
<1>3. s \in LayoutRec
  BY <1>2, FailureType
<1> HIDE DEF s, f
<1>4. /\ r.files \in Seq(FileRec) /\ Len(r.files) = k /\ r.total \in Word64
      /\ f.length \in Word64 /\ f.length \in Nat
  BY <1>1, <1>2 DEF LayoutRec, FileRec, LaidOut, Word64
<1>5. /\ Len(s.files) = k + 1 /\ s.files[k + 1] = f
      /\ \A j \in 1 .. k : s.files[j] = r.files[j]
  BY <1>2, <1>4
<1>6. ASSUME NEW j \in 1 .. k + 1
      PROVE  FileOf(q[j]) \in FileRec /\ s.files[j] = FileOf(q[j])
  <2>1. CASE j = k + 1
    BY <1>2, <1>5, <2>1 DEF f
  <2>2. CASE j # k + 1
    <3>1. j \in 1 .. k
      BY <2>2
    <3> QED
      BY <1>5, <3>1 DEF LaidOut
  <2> QED
    BY <2>1, <2>2
<1>7. Congruent(SumOf(LengthsOf(s.files)), s.total)
  <2>1. /\ LengthsOf(r.files) \in Seq(Nat)
        /\ LengthsOf(s.files) = Append(LengthsOf(r.files), f.length)
    BY <1>2, <1>4, LengthsOfMore
  <2>2. SumOf(LengthsOf(s.files)) = SumOf(LengthsOf(r.files)) + f.length
        /\ SumOf(LengthsOf(r.files)) \in Nat
    BY <1>4, <2>1, SumOfMore, SumIsNat
  <2>3. Congruent(SumOf(LengthsOf(r.files)), r.total)
    BY DEF LaidOut
  <2> QED
    BY <1>2, <1>4, <2>2, <2>3, StillCongruent
<1>8. LaidOut(q, k + 1, s)
  BY <1>3, <1>5, <1>6, <1>7 DEF LaidOut
<1> QED
  BY <1>8 DEF s

LEMMA AllFilesType ==
    ASSUME NEW V, WellFormed(V), NEW q \in Seq(V), NEW checked
    PROVE  AllFiles(q, checked) \in Failure \/ LaidOut(q, Len(q), AllFiles(q, checked))
<1> DEFINE n == Len(q)
           S == LayoutRec \cup Failure
<1>1. n \in Nat /\ DOMAIN q = 1 .. n /\ IsSequence(q) /\ \A i \in 1 .. n : q[i] \in V
  BY DEF IsSequence
<1>2. NoFiles \in S /\ LaidOut(q, 0, NoFiles)
  BY NoneLaidOut DEF LaidOut
<1>3. \A x \in S, i \in DOMAIN q : AddFile(x, q[i], checked) \in S
  BY <1>1, AddFileType
<1>4. PICK acc : AddFileRun(acc, S, q, checked)
  <2> HIDE DEF S
  <2> QED
    BY <1>1, <1>2, <1>3, AddFileRuns
<1> DEFINE T == {k \in 0 .. n : acc[k] \in Failure \/ LaidOut(q, k, acc[k])}
<1>5. 0 \in T
  BY <1>1, <1>2, <1>4 DEF AddFileRun
<1>6. ASSUME NEW k \in 0 .. n - 1, k \in T PROVE k + 1 \in T
  <2>1. k \in Nat /\ k + 1 \in 1 .. n /\ k + 1 \in 0 .. n /\ (k + 1) - 1 = k
    BY <1>1
  <2>2. acc[k + 1] = AddFile(acc[k], q[k + 1], checked)
        /\ acc[k] \in S /\ acc[k + 1] \in S
    BY <1>1, <1>4, <2>1 DEF AddFileRun
  <2>3. CASE Failed(acc[k + 1])
    <3>1. acc[k + 1] \in Failure
      BY <2>2, <2>3, FailureType
    <3> QED
      BY <2>1, <3>1
  <2>4. CASE ~Failed(acc[k + 1])
    <3>1. acc[k] \in LayoutRec
      BY <1>1, <2>1, <2>2, <2>4, AddFileType
    <3>2. LaidOut(q, k, acc[k])
      BY <1>6, <3>1, FailureType
    <3>3. LaidOut(q, k + 1, acc[k + 1])
      BY <1>1, <2>1, <2>2, <2>4, <3>2, OneMoreLaidOut
    <3> QED
      BY <2>1, <3>3
  <2> QED
    BY <2>3, <2>4
<1>7. n \in T
  <2> HIDE DEF T, n
  <2>1. 0 .. n \subseteq T
    BY <1>1, <1>5, <1>6, UpTo
  <2> QED
    BY <1>1, <2>1
<1> QED
  BY <1>4, <1>7 DEF AddFileRun
-----------------------------------------------------------------------------
(* What Layout and Metainfo return. *)

(* The lengths that the info dictionary states.                             *)
StatedBy(info) ==
    IF Get(info, LengthKey) # {} THEN <<The(GetInteger(info, LengthKey))>>
    ELSE LET entries == The(GetList(info, FilesKey))
         IN  [i \in DOMAIN entries |-> The(GetInteger(entries[i], LengthKey))]

LayoutOf(info, files, total) ==
    /\ files \in Seq(FileRec) /\ total \in Word64
    /\ Congruent(SumOf(LengthsOf(files)), total)
    /\ StatedBy(info) \in Seq(Int)
    /\ LengthsOf(files) = [i \in DOMAIN StatedBy(info) |-> U64(StatedBy(info)[i])]

LEMMA OneFile ==
    ASSUME NEW f \in FileRec
    PROVE  /\ LengthsOf(<<f>>) = <<f.length>>
           /\ Congruent(SumOf(LengthsOf(<<f>>)), f.length)
<1>1. <<f>> = Append(<<>>, f) /\ <<>> \in Seq(FileRec) /\ <<>> \in Seq(Nat)
  OBVIOUS
<1>2. LengthsOf(<<>>) = <<>>
  BY DEF LengthsOf
<1>3. f.length \in Nat
  BY DEF FileRec, Word64
<1>4. LengthsOf(<<f>>) = Append(<<>>, f.length)
  BY <1>1, <1>2, LengthsOfMore
<1>5. SumOf(Append(<<>>, f.length)) = SumOf(<<>>) + f.length
  BY <1>1, <1>3, SumOfMore
<1> DEFINE l == f.length
<1>6. l = l + 0 * Word /\ 0 \in Nat
  BY <1>3, WordOK
<1>7. Congruent(l, l)
  BY <1>6, Zenon DEF Congruent
<1>8. SumOf(Append(<<>>, l)) = l
  BY <1>3, <1>5, SumOfNone
<1>9. Append(<<>>, l) = <<l>>
  BY <1>3
<1> QED
  BY <1>4, <1>7, <1>8, <1>9

LEMMA LayoutType ==
    ASSUME NEW V, WellFormed(V), NEW info \in V, NEW checked, GetStr(info, NameKey) # {}
    PROVE  \/ Layout(info, checked) \in Failure
           \/ /\ Layout(info, checked) \in LayoutRec
              /\ LayoutOf(info, Layout(info, checked).files, Layout(info, checked).total)
<1> DEFINE r == Layout(info, checked)
<1>1. FieldsOf(info, V)
  BY FieldTypes
<1>2. CASE Get(info, LengthKey) # {} /\ GetInteger(info, LengthKey) # {}
  <2> DEFINE n == The(GetInteger(info, LengthKey))
             name == The(GetStr(info, NameKey))
             f == [length |-> U64(n), path |-> <<name>>]
  <2>1. n \in Int /\ U64(n) \in Word64
    <3>1. n \in Integers64
      BY <1>1, <1>2, TheOne DEF FieldsOf
    <3>2. n \in Int
      BY <3>1, InputsOK DEF Integers64
    <3> QED
      BY <3>2, U64Type
  <2>2. name \in TextSet
    BY <1>1, TheOne DEF FieldsOf
  <2>3. r = [files |-> <<f>>, total |-> U64(n)] /\ StatedBy(info) = <<n>>
    BY <1>2 DEF Layout, StatedBy
  <2> HIDE DEF n, name
  <2>4. f \in FileRec /\ f.length = U64(n)
    <3>1. <<name>> \in Seq(TextSet)
      BY <2>2
    <3> QED
      BY <2>1, <3>1 DEF FileRec
  <2> HIDE DEF f, r
  <2>5. r.files = <<f>> /\ r.total = U64(n) /\ <<f>> \in Seq(FileRec)
    BY <2>3, <2>4
  <2>6. r \in LayoutRec
    BY <2>1, <2>3, <2>4, <2>5 DEF LayoutRec
  <2>7. LengthsOf(<<f>>) = <<U64(n)>> /\ Congruent(SumOf(LengthsOf(<<f>>)), U64(n))
    BY <2>4, OneFile
  <2>8. <<n>> \in Seq(Int) /\ <<U64(n)>> = [i \in DOMAIN <<n>> |-> U64(<<n>>[i])]
    BY <2>1
  <2>9. LayoutOf(info, r.files, r.total)
    BY <2>1, <2>3, <2>5, <2>7, <2>8 DEF LayoutOf
  <2> QED
    BY <2>6, <2>9 DEF r
<1>3. CASE Get(info, LengthKey) = {} /\ Get(info, FilesKey) # {} /\ GetList(info, FilesKey) # {}
  <2> DEFINE q == The(GetList(info, FilesKey))
             n == Len(q)
             stated == [i \in DOMAIN q |-> The(GetInteger(q[i], LengthKey))]
  <2>1. q \in Seq(V)
    BY <1>1, <1>3, TheOne DEF FieldsOf
  <2>2. r = AllFiles(q, checked) /\ StatedBy(info) = stated
    BY <1>3 DEF Layout, StatedBy
  <2> HIDE DEF q, r
  <2>3. CASE r \in Failure
    BY <2>3 DEF r
  <2>4. CASE LaidOut(q, n, r)
    <3>1. n \in Nat /\ DOMAIN q = 1 .. n /\ \A i \in 1 .. n : q[i] \in V
      BY <2>1
    <3>2. r \in LayoutRec /\ r.files \in Seq(FileRec) /\ r.total \in Word64
          /\ Len(r.files) = n
      BY <2>4 DEF LaidOut, LayoutRec
    <3>3. ASSUME NEW i \in 1 .. n
          PROVE  stated[i] \in Int /\ r.files[i].length = U64(stated[i])
      <4>1. /\ q[i] \in V /\ FileOf(q[i]) \in FileRec /\ r.files[i] = FileOf(q[i])
            /\ stated[i] = The(GetInteger(q[i], LengthKey))
        BY <2>4, <3>1 DEF LaidOut
      <4>2. /\ GetInteger(q[i], LengthKey) # {}
            /\ FileOf(q[i]).length = U64(The(GetInteger(q[i], LengthKey)))
        BY <4>1, FileOfType, FailureType
      <4>3. The(GetInteger(q[i], LengthKey)) \in Integers64
        BY <4>1, <4>2, FieldTypes, TheOne DEF FieldsOf
      <4> QED
        BY <4>1, <4>2, <4>3, InputsOK DEF Integers64
    <3>4. stated \in [1 .. n -> Int] /\ DOMAIN stated = 1 .. n
      BY <3>1, <3>3
    <3> HIDE DEF stated
    <3>5. stated \in Seq(Int)
      BY ONLY <3>1, <3>4, TupleSeq
    <3>6. LengthsOf(r.files) = [i \in DOMAIN stated |-> U64(stated[i])]
      <4>1. DOMAIN r.files = 1 .. n
        BY <3>1, <3>2
      <4> QED
        BY <3>3, <3>4, <4>1 DEF LengthsOf
    <3>7. Congruent(SumOf(LengthsOf(r.files)), r.total)
      BY <2>4 DEF LaidOut
    <3>8. LayoutOf(info, r.files, r.total)
      BY <2>2, <3>2, <3>5, <3>6, <3>7 DEF LayoutOf
    <3> QED
      BY <3>2, <3>8 DEF r
  <2> QED
    BY <2>1, <2>2, <2>3, <2>4, AllFilesType
<1>4. CASE \/ Get(info, LengthKey) # {} /\ GetInteger(info, LengthKey) = {}
           \/ Get(info, LengthKey) = {} /\ Get(info, FilesKey) # {}
              /\ GetList(info, FilesKey) = {}
  <2>1. r = Fail("InvalidField") /\ Fail("InvalidField") \in Failure
    BY <1>4, FailIsFailure DEF Layout, FieldErrors, Errors
  <2> QED
    BY <2>1
<1>5. CASE Get(info, LengthKey) = {} /\ Get(info, FilesKey) = {}
  <2>1. r = Fail("MissingField") /\ Fail("MissingField") \in Failure
    BY <1>5, FailIsFailure DEF Layout, FieldErrors, Errors
  <2> QED
    BY <2>1
<1> QED
  BY <1>2, <1>3, <1>4, <1>5

LEMMA WholeDigests ==
    ASSUME NEW n \in Nat, NEW h \in Nat \ {0}, NEW i \in 1 .. n \div h
    PROVE  /\ (i - 1) * h \in Nat /\ i * h \in Nat
           /\ i * h <= n /\ i * h = (i - 1) * h + h
<1>1. n \div h \in Nat /\ n = h * (n \div h) + (n % h) /\ n % h \in 0 .. h - 1
  OBVIOUS
<1>2. h * (n \div h) = (n \div h) * h
  BY <1>1
<1> DEFINE k == n \div h
           x == k * h
           y == i * h
           z == (i - 1) * h
<1>3. i \in Nat /\ i - 1 \in Nat /\ (i - 1) + 1 = i /\ i <= k
  BY <1>1
<1>4. x \in Nat /\ y \in Nat /\ z \in Nat /\ y = z + h
  <2>1. ((i - 1) + 1) * h = z + h
    BY <1>3, Successor
  <2> QED
    BY <1>1, <1>3, <2>1, Successor
<1>5. y <= x
  BY <1>1, <1>3, TimesMonotonic
<1>6. x <= n
  BY <1>1, <1>2
<1> HIDE DEF x, y, z
<1>7. y <= n
  BY <1>4, <1>5, <1>6
<1> QED
  BY <1>4, <1>7 DEF y, z

(* chunks_exact(20).                                                        *)
LEMMA DigestsHaveHashLen ==
    ASSUME NEW raw \in Seq(Byte)
    PROVE  /\ DOMAIN SplitPieceHashes(raw) = 1 .. Len(SplitPieceHashes(raw))
           /\ Len(SplitPieceHashes(raw)) \in Nat
           /\ \A i \in DOMAIN SplitPieceHashes(raw) : Len(SplitPieceHashes(raw)[i]) = HashLen
<1> DEFINE n == Len(raw)
           k == n \div HashLen
           s == SplitPieceHashes(raw)
<1>1. n \in Nat /\ HashLen \in Nat \ {0}
  BY WordIsU64
<1>2. k \in Nat
  <2> HIDE DEF n
  <2> QED
    BY <1>1
<1>3. s = [i \in 1 .. k |-> SubSeq(raw, (i - 1) * HashLen + 1, i * HashLen)]
  BY DEF SplitPieceHashes
<1>4. ASSUME NEW i \in 1 .. k PROVE s[i] \in Seq(Byte) /\ Len(s[i]) = HashLen
  <2> DEFINE p == (i - 1) * HashLen
             q == i * HashLen
  <2>1. p \in Nat /\ q \in Nat /\ q <= n /\ q = p + HashLen
    <3> HIDE DEF n
    <3> QED
      BY <1>1, WholeDigests
  <2>2. s[i] = SubSeq(raw, p + 1, q)
    BY <1>3
  <2> HIDE DEF p, q, k, s
  <2>3. p <= q /\ q <= Len(raw) /\ q - p = HashLen
    BY <1>1, <2>1
  <2> QED
    BY SMTT(20), <2>1, <2>2, <2>3, Slice
<1> HIDE DEF k
<1>5. s \in [1 .. k -> Seq(Byte)]
  <2>1. DOMAIN s = 1 .. k
    BY <1>3
  <2> QED
    BY <1>3, <1>4
<1> HIDE DEF s
<1>6. s \in Seq(Seq(Byte)) /\ Len(s) = k
  BY ONLY <1>2, <1>5, TupleSeq
<1> QED
  BY <1>2, <1>4, <1>5, <1>6 DEF s
(* A Metainfo, by the info dictionary it was read from.                     *)
Extracted(info, r) ==
    /\ ~Failed(r)
    /\ r.announce \in TextSet /\ r.name \in TextSet
    /\ r.announceList \in Seq(Seq(TextSet))
    /\ r.pieceLength \in Word64
    /\ Len(r.pieceHashes) \in Nat
    /\ \A i \in DOMAIN r.pieceHashes : Len(r.pieceHashes[i]) = HashLen
    /\ r.isSingleFile = (Get(info, LengthKey) # {})
    /\ LayoutOf(info, r.files, r.totalLength)

LEMMA MetainfoType ==
    ASSUME NEW V, WellFormed(V), NEW value \in V, NEW info \in V, NEW hash,
           NEW checked \in BOOLEAN
    PROVE  LET r == Metainfo(value, info, hash, checked)
           IN  r # <<>> /\ (r \in Failure \/ Extracted(info, r))
<1> DEFINE raw == GetBytes(info, PiecesKey)
           layout == Layout(info, checked)
           r == Metainfo(value, info, hash, checked)
<1>1. FieldsOf(info, V) /\ FieldsOf(value, V)
  BY FieldTypes
<1>2. \A x \in Failure : x # <<>>
  BY DEF Failure
<1>3. CASE GetStr(info, NameKey) = {} \/ GetInteger(info, PieceLengthKey) = {} \/ raw = {}
  <2>1. r = Fail("MissingField") /\ Fail("MissingField") \in Failure
    BY <1>3, FailIsFailure DEF Metainfo, FieldErrors, Errors
  <2> QED
    BY <1>2, <2>1
<1>4. CASE /\ GetStr(info, NameKey) # {} /\ GetInteger(info, PieceLengthKey) # {} /\ raw # {}
           /\ Len(The(raw)) % HashLen # 0
  <2>1. r = Fail("MalformedPieces") /\ Fail("MalformedPieces") \in Failure
    BY <1>4, FailIsFailure DEF Metainfo, FieldErrors, Errors
  <2> QED
    BY <1>2, <2>1
<1>5. CASE /\ GetStr(info, NameKey) # {} /\ GetInteger(info, PieceLengthKey) # {} /\ raw # {}
           /\ Len(The(raw)) % HashLen = 0
  <2>1. CASE Failed(layout)
    <3>1. r = layout
      BY <1>5, <2>1 DEF Metainfo
    <3> QED
      BY <1>2, <1>5, <2>1, <3>1, LayoutType, FailureType
  <2>2. CASE ~Failed(layout)
    <3> DEFINE announce == OrElse(GetStr(value, AnnounceKey), <<>>)
               list == OrElse(Tiers(value), <<>>)
               name == The(GetStr(info, NameKey))
               n == The(GetInteger(info, PieceLengthKey))
               hashes == SplitPieceHashes(The(raw))
               single == (Get(info, LengthKey) # {})
    <3>1. r = [announce |-> announce, announceList |-> list, infoHash |-> hash,
               name |-> name, pieceLength |-> U64(n), pieceHashes |-> hashes,
               totalLength |-> layout.total, files |-> layout.files,
               isSingleFile |-> single]
      BY <1>5, <2>2 DEF Metainfo
    <3>2. announce \in TextSet
      <4>1. <<>> \in TextSet
        BY DEF TextSet, Utf8
      <4> QED
        BY <1>1, <4>1, TheOne DEF OrElse, FieldsOf
    <3>3. list \in Seq(Seq(TextSet))
      BY TiersType, TheOne DEF OrElse
    <3>4. name \in TextSet
      BY <1>1, <1>5, TheOne DEF FieldsOf
    <3>5. U64(n) \in Word64
      <4>1. n \in Integers64
        BY <1>1, <1>5, TheOne DEF FieldsOf
      <4>2. n \in Int
        BY <4>1, InputsOK DEF Integers64
      <4> QED
        BY <4>2, U64Type
    <3>6. Len(hashes) \in Nat /\ \A i \in DOMAIN hashes : Len(hashes[i]) = HashLen
      <4>1. The(raw) \in Seq(Byte)
        BY <1>1, <1>5, TheOne DEF FieldsOf
      <4> QED
        BY <4>1, DigestsHaveHashLen
    <3>7. LayoutOf(info, layout.files, layout.total)
      BY <1>5, <2>2, LayoutType, FailureType
    <3> HIDE DEF announce, list, name, n, hashes, single, r, layout
    <3>8. /\ r.announce = announce /\ r.announceList = list /\ r.name = name
          /\ r.pieceLength = U64(n) /\ r.pieceHashes = hashes
          /\ r.totalLength = layout.total /\ r.files = layout.files
          /\ r.isSingleFile = single /\ "error" \notin DOMAIN r /\ DOMAIN r # {}
      BY <3>1
    <3>9. r # <<>>
      BY <3>8
    <3>10. Extracted(info, r)
      BY <3>2, <3>3, <3>4, <3>5, <3>6, <3>7, <3>8 DEF Extracted, Failed, single
    <3> QED
      BY <3>9, <3>10 DEF r
  <2> QED
    BY <2>1, <2>2
<1> QED
  BY <1>3, <1>4, <1>5
-----------------------------------------------------------------------------
(* The inductive invariant. *)

(* What from_bytes returns, in terms of what it decoded.                    *)
Returned ==
    \/ result \in Failure \cup {Fail("InfoDictNotFound")}
    \/ \E info \in Get(root, InfoKey) : Extracted(info, result)

MetaInv ==
    /\ DecoderInv /\ (pc = "done" => outcome # "running")
    /\ file \in Seq(Byte) /\ start \in 0 .. Len(file)
    /\ phase \in {"root", "info", "done"}
    /\ phase # "done" <=> result = <<>>
    /\ phase = "info" => IsValue(root)
    /\ phase = "done" => Returned

LEMMA MetaInitInv == Init => MetaInv
<1> SUFFICES ASSUME Init PROVE MetaInv
  OBVIOUS
<1>1. DecoderInv
  BY DecoderInitInv DEF Init
<1>2. file \in Seq(Byte)
  BY InputsOK DEF Init, DecoderInit
<1> QED
  BY <1>1, <1>2 DEF Init, DecoderInit, MetaInv

LEMMA DoneSays == ASSUME DecoderNext, pc' = "done" PROVE outcome' # "running"
<1>1. ASSUME NEW o, Done(o), o # "running" PROVE outcome' # "running"
  BY <1>1 DEF Done
<1>2. CASE Value
  BY <1>1, <1>2 DEF Value, ParseInteger, ParseBytes, Open, Return
<1>3. CASE Loop
  BY <1>1, <1>3 DEF Loop
<1>4. CASE Resume
  BY <1>1, <1>4 DEF Resume
<1> QED
  BY <1>2, <1>3, <1>4 DEF DecoderNext

LEMMA FinishInv ==
    ASSUME MetaInv, NEW r, Finish(r), r # <<>>,
           \/ r \in Failure \cup {Fail("InfoDictNotFound")}
           \/ \E info \in Get(root, InfoKey) : Extracted(info, r)
    PROVE  MetaInv'
<1>1. DecoderInv'
  <2>1. UNCHANGED decoderVars
    BY DEF Finish
  <2> QED
    BY <2>1, DecoderStepInv DEF MetaInv
<1>2. Returned'
  BY DEF Finish, Returned
<1> QED
  BY <1>1, <1>2 DEF MetaInv, Finish, decoderVars

LEMMA ErrorInv == ASSUME MetaInv, NEW e \in Errors, Finish(Fail(e)) PROVE MetaInv'
<1>1. Fail(e) \in Failure \cup {Fail("InfoDictNotFound")} /\ Fail(e) # <<>>
  BY FailIsFailure DEF Fail, FieldErrors
<1> QED
  BY <1>1, FinishInv

LEMMA DecodeInv == ASSUME MetaInv, Decode PROVE MetaInv'
<1>1. DecoderInv' /\ (pc' = "done" => outcome' # "running")
  BY DecoderStepInv, DoneSays DEF Decode, MetaInv
<1>2. UNCHANGED <<file, phase, start, root, result>>
  BY DEF Decode
<1>3. Returned => Returned'
  BY <1>2 DEF Returned
<1> QED
  BY <1>1, <1>2, <1>3 DEF MetaInv

LEMMA LocateInv == ASSUME MetaInv, LocateInfo PROVE MetaInv'
<1>1. CASE Marks = {}
  BY <1>1, ErrorInv DEF LocateInfo, Errors
<1>2. CASE Marks # {}
  <2> DEFINE i == FirstMark + Len(InfoMark) - 1
  <2>1. i \in 0 .. Len(file)
    <3>1. Len(InfoMark) = 4
      BY DEF InfoMark
    <3>2. Marks \subseteq 0 .. Len(file) - 5 /\ Len(file) \in Nat
      BY <3>1 DEF Marks, MetaInv
    <3>3. \E m \in Marks : \A j \in Marks : m <= j
      <4>1. Marks \subseteq Nat
        BY <3>2
      <4> QED
        BY <1>2, <4>1, Least
    <3>4. FirstMark \in Marks
      BY <3>3 DEF FirstMark
    <3> QED
      BY <3>1, <3>2, <3>4
  <2>2. /\ data' = SubSeq(file, i + 1, Len(file)) /\ whole' = FALSE
        /\ pos' = 0 /\ stack' = <<>> /\ pc' = "value"
        /\ outcome' = "running" /\ phase' = "info" /\ start' = i /\ root' = ret
        /\ file' = file /\ result' = result /\ phase = "root" /\ outcome = "ok"
    BY <1>2 DEF LocateInfo, Decoded
  <2> HIDE DEF i
  <2>3. data' \in Seq(Byte)
    BY <2>1, <2>2, Slice DEF MetaInv
  <2>4. Begun'
    BY <2>2, <2>3 DEF Begun
  <2>5. DecoderInv'
    BY <2>4, BegunInv, PTL
  <2>6. IsValue(root')
    BY <2>2, DecodedIsValue DEF MetaInv
  <2> QED
    BY <2>1, <2>2, <2>5, <2>6 DEF MetaInv
<1> QED
  BY <1>1, <1>2

LEMMA ExtractInv == ASSUME MetaInv, Extract PROVE MetaInv'
<1>1. PICK info \in Get(root, InfoKey), checked \in BOOLEAN :
             Finish(Metainfo(root, info, Hashed, checked))
  BY DEF Extract
<1>2. PICK V : WellFormed(V) /\ root \in V
  BY DEF Extract, Decoded, MetaInv, IsValue
<1>3. info \in V
  BY <1>1, <1>2, Accessors
<1> DEFINE r == Metainfo(root, info, Hashed, checked)
<1>4. r # <<>> /\ (r \in Failure \/ Extracted(info, r))
  BY <1>2, <1>3, MetainfoType
<1> HIDE DEF r
<1>5. Finish(r)
  BY <1>1 DEF r
<1> QED
  BY <1>1, <1>4, <1>5, FinishInv

LEMMA MetaStepInv == ASSUME MetaInv, [Next]_vars PROVE MetaInv'
<1>1. CASE UNCHANGED vars
  <2>1. DecoderInv'
    BY <1>1, DecoderStepInv DEF vars, MetaInv
  <2>2. UNCHANGED <<file, phase, start, root, result, pc, outcome>>
    BY <1>1 DEF vars, decoderVars
  <2>3. Returned => Returned'
    BY <2>2 DEF Returned
  <2> QED
    BY <2>1, <2>2, <2>3 DEF MetaInv
<1>2. CASE DecodeFails
  <2>1. outcome \in Errors
    BY <1>2 DEF DecodeFails, Decoded, MetaInv, DecoderInv, DecoderShape, Errors
  <2> QED
    BY <1>2, <2>1, ErrorInv DEF DecodeFails
<1>3. CASE NoInfo
  <2>1. \E e \in {"InvalidField", "MissingField"} : Finish(Fail(e))
    BY <1>3 DEF NoInfo
  <2> QED
    BY <2>1, ErrorInv DEF Errors
<1> QED
  BY <1>1, <1>2, <1>3, DecodeInv, LocateInv, ExtractInv DEF Next

-----------------------------------------------------------------------------
(* The theorems. *)

(* Whatever the file, from_bytes returns one of its errors or a Metainfo    *)
(* whose numbers fit their 64 bits, whose names are UTF-8 and whose digests *)
(* are whole, and both decodings keep the cursor in their bytes.            *)
THEOREM TypeCorrect == Spec => []TypeOK
<1>1. ASSUME MetaInv PROVE TypeOK
  <2>1. DecoderTypeOK
    BY <1>1, DecoderTyped DEF MetaInv
  <2>2. CASE result = <<>>
    BY <1>1, <2>1, <2>2 DEF MetaInv, TypeOK
  <2>3. CASE result # <<>> /\ result \in Failure \cup {Fail("InfoDictNotFound")}
    <3>1. Failed(result) /\ result.error \in Errors
      BY <2>3, FailureType DEF Fail, Failed, FieldErrors, Errors
    <3> QED
      BY <1>1, <2>1, <2>3, <3>1 DEF MetaInv, TypeOK
  <2>4. CASE result # <<>> /\ result \notin Failure \cup {Fail("InfoDictNotFound")}
    <3>1. PICK info : Extracted(info, result)
      BY <1>1, <2>4 DEF MetaInv, Returned
    <3>2. \A b \in TextSet : IsText(b)
      BY DEF TextSet, IsText
    <3>3. IsText(result.announce) /\ IsText(result.name)
      BY <3>1, <3>2 DEF Extracted
    <3>4. \A i \in DOMAIN result.announceList :
            \A j \in DOMAIN result.announceList[i] : IsText(result.announceList[i][j])
      <4>1. result.announceList \in Seq(Seq(TextSet))
        BY <3>1 DEF Extracted
      <4>2. \A i \in DOMAIN result.announceList : result.announceList[i] \in Seq(TextSet)
        BY <4>1
      <4> QED
        BY <3>2, <4>2
    <3>5. \A i \in DOMAIN result.files :
            /\ result.files[i].length \in 0 .. Word - 1
            /\ \A j \in DOMAIN result.files[i].path : IsText(result.files[i].path[j])
      <4>1. \A i \in DOMAIN result.files : result.files[i] \in FileRec
        BY <3>1 DEF Extracted, LayoutOf
      <4>2. \A f \in FileRec : f.length \in 0 .. Word - 1 /\ f.path \in Seq(TextSet)
        BY DEF FileRec, Word64
      <4> QED
        BY <3>2, <4>1, <4>2
    <3>6. /\ result.pieceLength \in 0 .. Word - 1 /\ result.totalLength \in 0 .. Word - 1
          /\ result.isSingleFile \in BOOLEAN /\ ~Failed(result)
          /\ \A i \in DOMAIN result.pieceHashes : Len(result.pieceHashes[i]) = HashLen
      BY <3>1 DEF Extracted, LayoutOf, Word64
    <3> QED
      BY <1>1, <2>1, <2>4, <3>3, <3>4, <3>5, <3>6 DEF MetaInv, TypeOK
  <2> QED
    BY <2>2, <2>3, <2>4
<1> QED
  BY <1>1, MetaInitInv, MetaStepInv, PTL DEF Spec

(* A sum that fits a word and is congruent to another word is that word.    *)
LEMMA FitsIsExact ==
    ASSUME NEW total \in Word64, NEW sum \in Nat, sum < Word, Congruent(sum, total)
    PROVE  total = sum
<1>1. PICK q \in Nat : sum = total + q * Word
  BY DEF Congruent
<1>2. CASE q = 0
  <2>1. 0 * Word = 0
    BY WordOK
  <2> QED
    BY <1>1, <1>2, <2>1 DEF Word64
<1>3. CASE q # 0
  <2> DEFINE x == q * Word
             y == 1 * Word
  <2>1. y <= x
    BY <1>3, WordOK, TimesMonotonic
  <2>2. y = Word /\ x \in Nat /\ sum = total + x /\ total \in Nat /\ Word \in Nat
    BY <1>1, WordOK, Successor DEF Word64
  <2> HIDE DEF x, y
  <2> QED
    BY <2>1, <2>2
<1> QED
  BY <1>2, <1>3

LEMMA CongruentIsMod ==
    ASSUME NEW total \in Word64, NEW sum \in Nat, Congruent(sum, total)
    PROVE  (sum - total) % Word = 0
<1>1. PICK q \in Nat : sum = total + q * Word
  BY DEF Congruent
<1> DEFINE x == q * Word
<1>2. x \in Nat /\ total \in Nat /\ Word \in Nat \ {0}
  BY WordOK, Successor DEF Word64
<1>3. sum - total = x
  <2> HIDE DEF x
  <2> QED
    BY <1>1, <1>2 DEF x
<1>4. x % Word = 0
  BY <1>2
<1> QED
  BY <1>3, <1>4

(* What U64 leaves alone. *)
LEMMA StatedIsCounted ==
    ASSUME NEW info, NEW files, NEW total, LayoutOf(info, files, total),
           \A i \in DOMAIN StatedBy(info) : StatedBy(info)[i] >= 0,
           SumOf(StatedBy(info)) < Word
    PROVE  total = SumOf(StatedBy(info))
<1> DEFINE s == StatedBy(info)
           n == Len(s)
<1>1. /\ s \in Seq(Int) /\ files \in Seq(FileRec) /\ total \in Word64
      /\ LengthsOf(files) = [i \in DOMAIN s |-> U64(s[i])]
      /\ Congruent(SumOf(LengthsOf(files)), total)
  BY DEF LayoutOf
<1>2. s \in Seq(Nat)
  <2>1. n \in Nat /\ DOMAIN s = 1 .. n /\ s = [i \in 1 .. n |-> s[i]]
    BY <1>1
  <2>2. \A i \in 1 .. n : s[i] \in Nat
    BY <1>1, <2>1
  <2> HIDE DEF s, n
  <2>3. s \in [1 .. n -> Nat]
    BY <2>1, <2>2
  <2> QED
    BY ONLY <2>1, <2>3, TupleSeq
<1> HIDE DEF s
<1>3. ASSUME NEW i \in DOMAIN s PROVE U64(s[i]) = s[i]
  <2>1. s[i] \in Nat /\ s[i] <= SumOf(s) /\ SumOf(s) \in Nat /\ SumOf(s) < Word
    BY <1>2, PartOfSum, SumIsNat DEF s
  <2> DEFINE x == s[i]
  <2>2. x \in Nat /\ x < Word /\ Word \in Nat
    BY <2>1, WordOK
  <2> HIDE DEF x
  <2>3. x % Word = x
    BY <2>2
  <2> QED
    BY <2>3 DEF x, U64
<1>4. LengthsOf(files) = s
  <2>1. s = [i \in DOMAIN s |-> s[i]]
    BY <1>2
  <2> QED
    BY <1>1, <1>3, <2>1
<1> QED
  BY <1>1, <1>2, <1>4, SumIsNat, FitsIsExact DEF s

(* metainfo.rs:163, "total += length", and piece_size: for every torrent    *)
(* file that is parsed, total_length is the sum of the lengths it states    *)
(* when they are no nonsense, is that sum modulo 2^64 otherwise, and when   *)
(* the digests are as many as it asks for, the pieces partition it.         *)
THEOREM SizesCorrect == Spec => []SizesAgree
<1>1. ASSUME MetaInv PROVE SizesAgree
  <2> SUFFICES ASSUME Parsed
               PROVE  /\ (SumOf(LengthsOf(result.files)) - result.totalLength) % Word = 0
                      /\ (\A i \in DOMAIN Stated : Stated[i] >= 0) /\ SumOf(Stated) < Word
                           => result.totalLength = SumOf(Stated)
                      /\ LET count == Len(result.pieceHashes)
                         IN  Consistent(count, result.pieceLength, result.totalLength)
                               => Partition(count, result.pieceLength, result.totalLength)
    BY DEF SizesAgree, LengthsOf
  <2>1. PICK info \in Get(root, InfoKey) : Extracted(info, result)
    BY <1>1, FailureType DEF Parsed, MetaInv, Returned, Fail, Failed
  <2>2. LayoutOf(info, result.files, result.totalLength)
    BY <2>1 DEF Extracted
  <2>3. Stated = StatedBy(info)
    <3>1. The(Get(root, InfoKey)) = info
      BY <2>1, GetIsOne
    <3> QED
      BY <2>1, <3>1 DEF Stated, StatedBy, Extracted
  <2>4. SumOf(LengthsOf(result.files)) \in Nat
    <3>1. LengthsOf(result.files) \in Seq(Nat)
      BY <2>2, LengthsAreNat DEF LayoutOf
    <3> QED
      BY <3>1, SumIsNat
  <2>5. (SumOf(LengthsOf(result.files)) - result.totalLength) % Word = 0
    BY <2>2, <2>4, CongruentIsMod DEF LayoutOf
  <2>6. (\A i \in DOMAIN Stated : Stated[i] >= 0) /\ SumOf(Stated) < Word
          => result.totalLength = SumOf(Stated)
    BY <2>2, <2>3, StatedIsCounted
  <2>7. /\ Len(result.pieceHashes) \in Nat /\ result.pieceLength \in Nat
        /\ result.totalLength \in 0 .. Word - 1
    BY <2>1 DEF Extracted, LayoutOf, Word64
  <2> QED
    BY <2>5, <2>6, <2>7, PiecesPartition
<1> QED
  BY <1>1, MetaInitInv, MetaStepInv, PTL DEF Spec

-----------------------------------------------------------------------------
(* The info hash. *)

LEMMA MarkIs ==
    ASSUME file \in Seq(Byte), NEW i \in Nat, i + 4 <= Len(file)
    PROVE  MarkAt(i) <=> /\ file[i + 1] = "1" /\ file[i + 2] = ":"
                         /\ file[i + 3] = "I" /\ file[i + 4] = "d"
<1> DEFINE c == SubSeq(file, i + 1, i + 4)
<1>1. Len(InfoMark) = 4 /\ InfoMark[1] = "1" /\ InfoMark[2] = ":" /\ InfoMark[3] = "I"
      /\ InfoMark[4] = "d" /\ InfoMark \in Seq({"1", ":", "I", "d"})
  BY DEF InfoMark
<1>2. Stretches(SubSeq(file, i + 1, i + 4), Byte, file, i, 4)
  BY Stretch
<1>3. c \in Seq(Byte) /\ Len(c) = 4 /\ \A j \in 1 .. 4 : c[j] = file[i + j]
  BY <1>2 DEF Stretches
<1>4. MarkAt(i) <=> c = InfoMark
  BY <1>1 DEF MarkAt
<1> HIDE DEF c
<1>5. c[1] = file[i + 1] /\ c[2] = file[i + 2] /\ c[3] = file[i + 3] /\ c[4] = file[i + 4]
  BY <1>3
<1>6. c = InfoMark <=> c[1] = "1" /\ c[2] = ":" /\ c[3] = "I" /\ c[4] = "d"
  <2>1. ASSUME c[1] = "1", c[2] = ":", c[3] = "I", c[4] = "d" PROVE c = InfoMark
    <3>1. \A j \in 1 .. 4 : c[j] = InfoMark[j]
      BY <1>1, <2>1
    <3> QED
      BY <1>1, <1>3, <3>1
  <2> QED
    BY <1>1, <2>1
<1> QED
  BY <1>4, <1>5, <1>6

(* What the root dictionary has under the info key, when it is a dictionary, *)
(* begins after a mark, and that mark is not at the end of the file.         *)
InfoAfter(i, w) ==
    /\ i \in Marks
    /\ \E e \in 0 .. Len(file) : w \in Meant(file, FALSE, i + 3, e)

LEMMA KeyAtMark ==
    ASSUME file \in Seq(Byte), NEW value \in Meant(file, FALSE, 0, Len(file)),
           NEW w \in Get(value, InfoKey), AsDict(w) # {}
    PROVE  \E i : InfoAfter(i, w)
<1> DEFINE n == Len(file)
<1>0. n \in Nat /\ 0 \in 0 .. n /\ n \in 0 .. n
  OBVIOUS
<1>1. PICK m \in AsDict(value) : InfoKey \in DOMAIN m /\ w = m[InfoKey]
  BY DEF Get
<1>2. "dict" \in DOMAIN value /\ m = value.dict
  BY <1>1 DEF AsDict
<1>3. file[0 + 1] = "d"
  BY <1>0, <1>2, DictBegins
<1>4. PICK got : IsOpened(file, FALSE, 0, n, got, value)
  BY <1>0, <1>3, OpenedOf
<1>5. /\ 2 <= n /\ got \in Runs(file, FALSE, 0 + 1, n - 1) /\ Entries(got)
      /\ value = [dict |-> Dictionary(got)]
  <2>1. 0 + 2 <= n /\ got \in Runs(file, FALSE, 0 + 1, n - 1)
    BY <1>4 DEF IsOpened
  <2>2. Entries(got) /\ value = [dict |-> Dictionary(got)]
    BY <1>3, <1>4, Zenon DEF IsOpened
  <2>3. 2 <= n
    BY <1>0, <2>1
  <2> QED
    BY <2>1, <2>2, <2>3
<1> DEFINE V == Values(file, FALSE)
<1>6. n - 1 \in 0 .. n /\ 0 + 1 \in 0 .. n
  BY <1>0, <1>5
<1>7. got \in Seq(V)
  BY <1>5, <1>6, ItemsTyped
<1> HIDE DEF V
<1>8. m = Dictionary(got)
  BY <1>2, <1>5
<1>9. PICK i \in 1 .. Len(got) - 1 :
             /\ "bytes" \in DOMAIN got[i] /\ got[i].bytes = InfoKey
             /\ Dictionary(got)[InfoKey] = got[i + 1]
  BY <1>1, <1>5, <1>7, <1>8, EntryOfDict
<1>10. w = got[i + 1]
  BY <1>1, <1>8, <1>9
<1>11. Beside(file, FALSE, n - 1, got[i], got[i + 1])
  BY <1>5, <1>6, Neighbours
<1>12. PICK c \in 0 .. n, d \in 0 .. n, e \in 0 .. n :
          e <= n - 1 /\ got[i] \in Meant(file, FALSE, c, d) /\ w \in Meant(file, FALSE, d, e)
  BY <1>10, <1>11 DEF Beside
<1> DEFINE v == got[i]
<1>13. v \in Meant(file, FALSE, c, d) /\ "bytes" \in DOMAIN v /\ v.bytes = <<"I">>
  BY <1>9, <1>12 DEF InfoKey
<1> HIDE DEF v
<1>14. d >= 3 /\ file[d - 2] = "1" /\ file[d - 1] = ":" /\ file[d] = "I"
  <2>1. EndsOneByteKey(file, d, "I")
    BY ONLY <1>12, <1>13, file \in Seq(Byte), OneByteKey, Zenon
  <2> QED
    BY <2>1 DEF EndsOneByteKey
<1>15. file[d + 1] = "d" /\ d + 2 <= e
  <2>1. "dict" \in DOMAIN w
    BY DEF AsDict
  <2> QED
    BY <1>12, <2>1, DictBegins, Starts
<1> DEFINE k == d - 3
<1>16. k \in Nat /\ k + 4 <= n /\ k + 1 = d - 2 /\ k + 2 = d - 1 /\ k + 3 = d /\ k + 4 = d + 1
       /\ k <= n - 5
  BY <1>0, <1>12, <1>14, <1>15
<1> HIDE DEF k
<1>17. MarkAt(k)
  BY <1>14, <1>15, <1>16, MarkIs
<1>18. k \in Marks
  <2>1. Len(InfoMark) = 4
    BY DEF InfoMark
  <2>2. k \in 0 .. n - 4 - 1
    BY <1>0, <1>16
  <2> QED
    BY <1>17, <2>1, <2>2 DEF Marks
<1>19. w \in Meant(file, FALSE, k + 3, e)
  BY <1>12, <1>16
<1> QED
  BY <1>12, <1>18, <1>19 DEF InfoAfter

(* A file with one mark has it there.                                       *)
LEMMA TheMark ==
    ASSUME OneMark, file \in Seq(Byte), NEW i \in Marks
    PROVE  FirstMark = i /\ Marks # {}
<1> DEFINE S == {j \in 0 .. Len(file) - Len(InfoMark) : MarkAt(j)}
<1>1. Len(InfoMark) = 4 /\ Len(file) \in Nat
  BY DEF InfoMark
<1>2. Marks \subseteq S
  BY <1>1 DEF Marks
<1>3. IsFiniteSet(S)
  <2>1. IsFiniteSet(0 .. Len(file) - Len(InfoMark))
    BY <1>1, FS_Interval
  <2> QED
    BY <2>1, FS_Subset
<1>4. Cardinality(S) = 1
  BY DEF OneMark
<1> HIDE DEF S
<1>5. PICK x : S = {x}
  BY <1>3, <1>4, FS_Singleton
<1>6. Marks = {i}
  BY <1>2, <1>5
<1>7. i \in 0 .. Len(file) - 5
  BY <1>1 DEF Marks
<1>8. \A j \in Marks : i <= j
  BY <1>6, <1>7
<1> DEFINE First(j) == \A m \in Marks : j <= m
<1>9. FirstMark = CHOOSE j \in Marks : First(j)
  BY DEF FirstMark
<1>10. First(i) /\ \A j \in Marks : j = i
  BY <1>6, <1>8
<1> HIDE DEF First
<1> QED
  BY <1>9, <1>10

LEMMA HashPassed ==
    ASSUME NEW value, NEW info, NEW hash, NEW checked,
           ~Failed(Metainfo(value, info, hash, checked))
    PROVE  Metainfo(value, info, hash, checked).infoHash = hash
<1> DEFINE layout == Layout(info, checked)
<1> HIDE DEF layout
<1>1. Failed(Fail("MissingField")) /\ Failed(Fail("MalformedPieces"))
  BY DEF Failed, Fail
<1> QED
  BY <1>1 DEF Metainfo, layout

(* The second decoding reads the file from the one mark, where the info      *)
(* dictionary is.                                                           *)
Second ==
    /\ data = SubSeq(file, start + 1, Len(file)) /\ whole = FALSE
    /\ OneMark => \E w : /\ Get(root, InfoKey) = {w}
                         /\ \E e \in 0 .. Len(file) : w \in Meant(file, FALSE, start, e)

RightHash ==
    /\ Parsed => Denotes(result.infoHash, FALSE) = Get(root, InfoKey)
    /\ Failed(result) => result.error # "InfoDictNotFound"

HashInv ==
    /\ MetaInv /\ GrammarInv
    /\ phase = "root" => data = file /\ whole = TRUE
    /\ phase = "info" => Second
    /\ phase = "done" /\ OneMark => RightHash

LEMMA PrefixIs ==
    ASSUME NEW s, NEW k PROVE Prefix(s, k, FALSE) = Meant(s, FALSE, 0, k)
  BY DEF Prefix, Meant

LEMMA RestOfFile ==
    ASSUME MetaInv, Second
    PROVE  /\ Len(file) - start \in Nat /\ start \in Nat /\ Len(file) \in Nat
           /\ PartOf(data, file, start, Len(file) - start)
           /\ Len(data) = Len(file) - start /\ data \in Seq(Byte)
<1> DEFINE l == Len(file) - start
<1>1. l \in Nat /\ start \in Nat /\ start + l = Len(file) /\ file \in Seq(Byte) /\ Len(file) \in Nat
  BY DEF MetaInv
<1> HIDE DEF l
<1>2. PartOf(data, file, start, l)
  BY <1>1 DEF PartOf, Second
<1>3. Len(data) = l /\ data \in Seq(Byte)
  BY <1>1, <1>2, PartIs
<1> QED
  BY <1>1, <1>2, <1>3 DEF l

(* decode_partial takes there what decode took.                             *)
LEMMA SecondDecoding ==
    ASSUME MetaInv, GrammarInv, Second, OneMark, pc = "done"
    PROVE  outcome = "ok" /\ {ret} = Get(root, InfoKey)
<1>1. PICK w : /\ Get(root, InfoKey) = {w}
               /\ \E e \in 0 .. Len(file) : w \in Meant(file, FALSE, start, e)
  BY DEF Second
<1>2. PICK e \in 0 .. Len(file) : w \in Meant(file, FALSE, start, e)
  BY <1>1
<1> DEFINE l == Len(file) - start
           k == e - start
<1>3. /\ l \in Nat /\ start \in Nat /\ Len(file) \in Nat /\ PartOf(data, file, start, l)
      /\ Len(data) = l /\ data \in Seq(Byte) /\ file \in Seq(Byte) /\ start \in 0 .. Len(file)
  BY RestOfFile DEF MetaInv
<1>4. start + 2 <= e
  BY <1>2, <1>3, Starts
<1>5. k \in 0 .. l /\ 0 \in 0 .. l /\ start + k = e /\ start + 0 = start
  BY <1>3, <1>4
<1> HIDE DEF l, k
<1>6. SameMeaning(data, file, FALSE, start, 0, k)
  BY ONLY <1>3, <1>5, SamePart, Zenon
<1>7. w \in Prefix(data, k, FALSE)
  BY ONLY <1>2, <1>5, <1>6, PrefixIs, Zenon DEF SameMeaning
<1>8. /\ outcome = "ok" => /\ Prefix(data, pos, FALSE) = {ret}
                           /\ \A j \in 0 .. Len(data) \ {pos} : Prefix(data, j, FALSE) = {}
      /\ outcome # "ok" => \A j \in 0 .. Len(data) : Prefix(data, j, FALSE) = {}
  BY GrammarDecides DEF AgreesWithGrammar, Second
<1>9. k \in 0 .. Len(data)
  BY <1>3, <1>5
<1>10. outcome = "ok"
  BY <1>7, <1>8, <1>9
<1>11. k = pos
  BY <1>7, <1>8, <1>9, <1>10
<1> QED
  BY <1>1, <1>7, <1>8, <1>10, <1>11

(* The bytes that are hashed mean what decode_partial took.                  *)
LEMMA HashedMeans ==
    ASSUME MetaInv, GrammarInv, Second, pc = "done", outcome = "ok"
    PROVE  Denotes(Hashed, FALSE) = {ret}
<1> DEFINE l == Len(file) - start
           h == Hashed
<1>1. /\ l \in Nat /\ start \in Nat /\ Len(file) \in Nat /\ PartOf(data, file, start, l)
      /\ Len(data) = l /\ data \in Seq(Byte) /\ file \in Seq(Byte)
      /\ start + l = Len(file)
  BY RestOfFile DEF MetaInv
<1>2. pos \in 0 .. Len(data)
  BY InBounds DEF MetaInv, Based
<1> HIDE DEF l
<1>3. /\ pos \in Nat /\ start + pos <= Len(file) /\ pos \in 0 .. pos /\ 0 \in 0 .. pos
      /\ pos \in 0 .. l /\ 0 \in 0 .. l
  BY <1>1, <1>2
<1>4. PartOf(h, file, start, pos)
  BY <1>3 DEF PartOf, Hashed
<1> HIDE DEF h
<1>5. Len(h) = pos
  BY <1>1, <1>3, <1>4, PartIs
<1>6. SameMeaning(h, file, FALSE, start, 0, pos)
  BY ONLY <1>1, <1>3, <1>4, SamePart, Zenon
<1>7. SameMeaning(data, file, FALSE, start, 0, pos)
  BY ONLY <1>1, <1>3, SamePart, Zenon
<1>8. Prefix(data, pos, FALSE) = {ret}
  BY GrammarDecides DEF AgreesWithGrammar
<1>9. Denotes(h, FALSE) = Prefix(h, pos, FALSE)
  BY <1>5 DEF Denotes
<1>10. Prefix(h, pos, FALSE) = Prefix(data, pos, FALSE)
  BY ONLY <1>6, <1>7, PrefixIs, Zenon DEF SameMeaning
<1> QED
  BY <1>8, <1>9, <1>10 DEF h

LEMMA HashInitInv == Init => HashInv
<1> SUFFICES ASSUME Init PROVE HashInv
  OBVIOUS
<1>1. Begun /\ Len(data) <= MaxLength
  BY InputsOK DEF Init, DecoderInit, Begun
<1>2. GrammarInv
  BY <1>1, BegunGrammar
<1> QED
  BY <1>2, MetaInitInv DEF Init, HashInv

(* A step that ends with a result other than that the mark is missing.      *)
LEMMA FinishHash ==
    ASSUME HashInv, MetaInv', NEW r, Finish(r),
           OneMark => /\ ~Failed(r) => Denotes(r.infoHash, FALSE) = Get(root, InfoKey)
                      /\ Failed(r) => r.error # "InfoDictNotFound"
    PROVE  HashInv'
<1>1. UNCHANGED <<decoderVars, file, start, root>> /\ phase' = "done" /\ result' = r
  BY DEF Finish
<1>2. GrammarInv'
  <2>1. UNCHANGED decoderVars
    BY <1>1
  <2> QED
    BY <2>1, GrammarStepInv DEF HashInv
<1>3. OneMark' => OneMark
  BY <1>1 DEF OneMark, MarkAt
<1>4. OneMark' => RightHash'
  BY <1>1, <1>3 DEF RightHash, Parsed
<1> QED
  BY <1>1, <1>2, <1>4 DEF HashInv

LEMMA HashDecode == ASSUME HashInv, MetaInv', Decode PROVE HashInv'
<1>1. UNCHANGED <<file, phase, start, root, result>> /\ DecoderNext
  BY DEF Decode
<1>2. data' = data /\ whole' = whole
  BY <1>1 DEF DecoderNext, Value, Loop, Resume
<1>3. GrammarInv'
  BY <1>1, GrammarStepInv DEF HashInv
<1>4. OneMark' <=> OneMark
  BY <1>1 DEF OneMark, MarkAt
<1>5. (Second => Second') /\ (RightHash => RightHash')
  BY <1>1, <1>2, <1>4 DEF Second, RightHash, Parsed
<1> QED
  BY <1>1, <1>2, <1>3, <1>4, <1>5 DEF HashInv

LEMMA HashLocate == ASSUME HashInv, MetaInv', LocateInfo PROVE HashInv'
<1>1. /\ phase = "root" /\ pc = "done" /\ outcome = "ok" /\ data = file /\ whole = TRUE
      /\ file \in Seq(Byte) /\ Len(file) <= MaxLength /\ GrammarInv
  BY DEF LocateInfo, Decoded, HashInv, MetaInv, GrammarInv
<1>2. PICK w \in Get(ret, InfoKey) : AsDict(w) # {}
  BY DEF LocateInfo, InfoIsDict
<1>3. ret \in Meant(file, FALSE, 0, Len(file))
  <2>1. Prefix(data, pos, FALSE) = {ret} /\ pos = Len(data)
    BY <1>1, GrammarDecides DEF AgreesWithGrammar
  <2> QED
    BY <1>1, <2>1, PrefixIs
<1>4. PICK i : InfoAfter(i, w)
  BY <1>1, <1>2, <1>3, KeyAtMark
<1>5. i \in Marks /\ \E e \in 0 .. Len(file) : w \in Meant(file, FALSE, i + 3, e)
  BY <1>4 DEF InfoAfter
<1>6. Get(ret, InfoKey) = {w}
  BY <1>2 DEF Get, AsDict
<1>7. /\ data' = SubSeq(file, start' + 1, Len(file)) /\ whole' = FALSE
      /\ start' = FirstMark + 3 /\ pos' = 0 /\ stack' = <<>> /\ pc' = "value"
      /\ outcome' = "running" /\ phase' = "info" /\ root' = ret /\ file' = file
  <2>1. Marks # {} /\ Len(InfoMark) = 4
    BY <1>5 DEF InfoMark
  <2>2. FirstMark \in Int
    <3>1. Marks \subseteq Nat
      BY DEF Marks
    <3>2. \E m \in Marks : \A j \in Marks : m <= j
      BY <2>1, <3>1, Least
    <3>3. FirstMark \in Marks
      BY <3>2 DEF FirstMark
    <3> QED
      BY <3>1, <3>3
  <2>3. FirstMark + Len(InfoMark) - 1 = FirstMark + 3
    BY <2>1, <2>2
  <2> QED
    BY <2>1, <2>3 DEF LocateInfo
<1>8. start' \in 0 .. Len(file)
  BY <1>7 DEF MetaInv
<1>9. data' \in Seq(Byte) /\ Len(data') <= MaxLength
  <2> DEFINE a == start'
  <2>1. a \in Nat /\ a <= Len(file) /\ Len(file) \in Nat /\ MaxLength \in Nat
    BY <1>1, <1>8, InputsOK
  <2>2. data' = SubSeq(file, a + 1, Len(file))
    BY <1>7
  <2> HIDE DEF a
  <2>3. data' \in Seq(Byte) /\ Len(data') = Len(file) - a
    BY <1>1, <2>1, <2>2, Slice
  <2> QED
    BY <1>1, <2>1, <2>3
<1>10. (Begun /\ Len(data) <= MaxLength)'
  BY <1>7, <1>9 DEF Begun
<1>11. GrammarInv'
  BY <1>10, BegunGrammar, PTL
<1>12. OneMark' <=> OneMark
  BY <1>7 DEF OneMark, MarkAt
<1>13. Second'
  <2>1. OneMark' => FirstMark = i
    BY <1>1, <1>5, <1>12, TheMark
  <2>2. OneMark' => \E e \in 0 .. Len(file') : w \in Meant(file', FALSE, start', e)
    BY <1>5, <1>7, <2>1
  <2>3. Get(root', InfoKey) = {w}
    BY <1>6, <1>7
  <2> QED
    BY <1>7, <2>2, <2>3 DEF Second
<1> QED
  BY <1>7, <1>11, <1>13 DEF HashInv

LEMMA HashExtract == ASSUME HashInv, MetaInv', Extract PROVE HashInv'
<1>1. PICK info \in Get(root, InfoKey), checked \in BOOLEAN :
             Finish(Metainfo(root, info, Hashed, checked))
  BY DEF Extract
<1> DEFINE r == Metainfo(root, info, Hashed, checked)
<1>2. MetaInv /\ GrammarInv /\ Second /\ pc = "done" /\ outcome = "ok"
  BY DEF Extract, Decoded, HashInv
<1>3. PICK V : WellFormed(V) /\ root \in V
  BY <1>2 DEF Extract, Decoded, MetaInv, IsValue
<1>4. info \in V
  BY <1>1, <1>3, Accessors
<1>5. r \in Failure \/ ~Failed(r)
  BY <1>3, <1>4, MetainfoType DEF Extracted
<1>6. Failed(r) => r.error # "InfoDictNotFound"
  BY <1>5, FailureType DEF FieldErrors
<1>7. ~Failed(r) => r.infoHash = Hashed
  BY HashPassed
<1> HIDE DEF r
<1>8. OneMark => Denotes(Hashed, FALSE) = Get(root, InfoKey)
  BY <1>2, HashedMeans, SecondDecoding
<1>9. Finish(r)
  BY <1>1 DEF r
<1> QED
  BY <1>6, <1>7, <1>8, <1>9, FinishHash

LEMMA HashError ==
    ASSUME HashInv, MetaInv', NEW e, e # "InfoDictNotFound", Finish(Fail(e)) PROVE HashInv'
<1>1. Failed(Fail(e)) /\ Fail(e).error = e
  BY DEF Failed, Fail
<1> QED
  BY <1>1, FinishHash

LEMMA HashStepInv == ASSUME HashInv, [Next]_vars PROVE HashInv'
<1>0. MetaInv'
  BY MetaStepInv DEF HashInv
<1>1. CASE UNCHANGED vars
  <2>1. GrammarInv'
    BY <1>1, GrammarStepInv DEF vars, HashInv
  <2>2. UNCHANGED <<data, whole, file, phase, start, root, result>>
    BY <1>1 DEF vars, decoderVars
  <2> QED
    BY <1>0, <2>1, <2>2 DEF HashInv, Second, RightHash, Parsed, OneMark, MarkAt
<1>2. CASE DecodeFails
  <2>1. outcome # "InfoDictNotFound"
    BY DEF HashInv, MetaInv, DecoderInv, DecoderShape, DecodeErrors
  <2> QED
    BY <1>0, <1>2, <2>1, HashError DEF DecodeFails
<1>3. CASE NoInfo
  <2>1. \E e \in {"InvalidField", "MissingField"} : Finish(Fail(e))
    BY <1>3 DEF NoInfo
  <2> QED
    BY <1>0, <2>1, HashError
<1> QED
  BY <1>0, <1>1, <1>2, <1>3, HashDecode, HashLocate, HashExtract DEF Next

LEMMA HashInvHash == HashInv => HashOfOnlyInfo
<1> SUFFICES ASSUME HashInv, OneMark
             PROVE  /\ Parsed => Denotes(result.infoHash, FALSE) = Get(root, InfoKey)
                    /\ phase = "info" /\ pc = "done" => outcome = "ok" /\ {ret} = Get(root, InfoKey)
                    /\ phase = "done" /\ Failed(result) => result.error # "InfoDictNotFound"
  BY DEF HashOfOnlyInfo
<1>1. phase = "info" /\ pc = "done" => outcome = "ok" /\ {ret} = Get(root, InfoKey)
  BY SecondDecoding DEF HashInv
<1> QED
  BY <1>1 DEF HashInv, RightHash, Parsed

(* metainfo.rs:188: whatever the file and the dictionaries in it, when the   *)
(* mark of the info key is in it once, the search finds the key of the root  *)
(* dictionary, the dictionary decoded again there is the one the fields come *)
(* from, and the bytes hashed encode it and nothing else.                    *)
THEOREM HashCorrect == Spec => []HashOfOnlyInfo
  BY HashInitInv, HashStepInv, HashInvHash, PTL DEF Spec
=============================================================================
