---------------------------- MODULE BencodeProofs ----------------------------
(***************************************************************************)
(* The cursor of BencodeDecoder stays in its input, its recursion is       *)
(* bounded by what it has read, and it decides BencodeGrammar: for every   *)
(* input and every width of the numbers.                                   *)
(***************************************************************************)
EXTENDS BencodeGrammar, Recursion

-----------------------------------------------------------------------------
(* Lemmas about the data. *)

(* The scan stops at the character or at the end, and before neither.       *)
LEMMA ScanFinds ==
    ASSUME data \in Seq(Byte), NEW p \in Nat, p <= Len(data), NEW c
    PROVE  /\ Scan(p, c) \in p .. Len(data)
           /\ Scan(p, c) = Len(data) \/ data[Scan(p, c) + 1] = c
           /\ \A r \in p .. Scan(p, c) - 1 : data[r + 1] # c
<1> DEFINE Stops == {q \in p .. Len(data) : q = Len(data) \/ data[q + 1] = c}
           Is(x) == /\ x = Len(data) \/ data[x + 1] = c
                    /\ \A r \in p .. x - 1 : data[r + 1] # c
<1>1. Stops \subseteq Nat /\ Len(data) \in Stops
  OBVIOUS
<1>2. PICK q \in Stops : \A r \in Stops : q <= r
  BY <1>1, Least
<1>3. ASSUME NEW r \in p .. q - 1 PROVE data[r + 1] # c
  <2>1. r \in p .. Len(data) /\ ~(q <= r)
    BY <1>2
  <2> QED
    BY <1>2, <2>1
<1>4. q \in p .. Len(data) /\ Is(q)
  BY <1>2, <1>3
<1>5. Scan(p, c) = CHOOSE x \in p .. Len(data) : Is(x)
  BY DEF Scan
<1>6. Scan(p, c) \in p .. Len(data) /\ Is(Scan(p, c))
  <2> HIDE DEF Is
  <2> QED
    BY <1>4, <1>5
<1> QED
  BY <1>6

LEMMA ScanStops ==
    ASSUME data \in Seq(Byte), NEW p \in Nat, p <= Len(data), NEW c
    PROVE  Scan(p, c) \in p .. Len(data)
  BY ScanFinds

(* What v may be when the values in V are: bencode::Value, with a dictionary *)
(* as a function from its keys.                                             *)
Made(v, V) ==
    \/ \E n \in Integers64 : v = [int |-> n]
    \/ \E b \in Seq(Byte) : v = [bytes |-> b]
    \/ \E s \in Seq(V) : v = [list |-> s]
    \/ \E K \in SUBSET Seq(Byte) : \E m \in [K -> V] : v = [dict |-> m]

(* V holds the parts of all that is in it. *)
WellFormed(V) == \A v \in V : Made(v, V)

LEMMA MadeOfMore ==
    ASSUME NEW V, NEW W, V \subseteq W, NEW v, Made(v, V)
    PROVE  Made(v, W)
<1>1. Seq(V) \subseteq Seq(W) /\ \A K : [K -> V] \subseteq [K -> W]
  OBVIOUS
<1> QED
  BY <1>1, Zenon DEF Made

LEMMA OneMoreValue ==
    ASSUME NEW V, WellFormed(V), NEW v, Made(v, V)
    PROVE  WellFormed(V \cup {v})
<1> DEFINE W == V \cup {v}
<1>1. \A u \in W : Made(u, V)
  BY Zenon DEF WellFormed
<1>2. V \subseteq W
  OBVIOUS
<1>3. \A u \in W : Made(u, W)
  <2> HIDE DEF W
  <2> QED
    BY <1>1, <1>2, MadeOfMore
<1> QED
  BY <1>3 DEF WellFormed

LEMMA SignedRange == ASSUME NEW s, NEW T PROVE Signed(s, T) \subseteq T
  BY DEF Signed, Unsigned, Only

LEMMA NumberRange == ASSUME NEW s, NEW T PROVE Unsigned(s, T) \subseteq T
  BY DEF Unsigned, Only

LEMMA BytesOfMade ==
    ASSUME NEW V, NEW v, Made(v, V), "bytes" \in DOMAIN v
    PROVE  v.bytes \in Seq(Byte)
<1>1. ASSUME NEW n, v = [int |-> n] PROVE FALSE
  BY <1>1
<1>2. ASSUME NEW s, v = [list |-> s] PROVE FALSE
  BY <1>2
<1>3. ASSUME NEW m, v = [dict |-> m] PROVE FALSE
  BY <1>3
<1>4. ASSUME NEW b \in Seq(Byte), v = [bytes |-> b] PROVE v.bytes \in Seq(Byte)
  BY <1>4
<1> QED
  BY <1>1, <1>2, <1>3, <1>4, Zenon DEF Made

LEMMA AfterKey ==
    ASSUME NEW n \in Nat, NEW e \in 1 .. n, e % 2 = 1, n % 2 = 0
    PROVE  e + 1 \in 1 .. n
<1>1. e # n
  OBVIOUS
<1> QED
  BY <1>1

(* What has an even number of parts, of which every other is a byte string, *)
(* makes a dictionary.                                                      *)
LEMMA DictMade ==
    ASSUME NEW V, WellFormed(V), NEW got \in Seq(V), Len(got) % 2 = 0,
           \A i \in DOMAIN got : i % 2 = 1 => "bytes" \in DOMAIN got[i]
    PROVE  Made([dict |-> DictOf(got)], V)
<1> DEFINE n == Len(got)
           keys == {got[i].bytes : i \in {j \in DOMAIN got : j % 2 = 1}}
           m == [k \in keys |-> got[EntryOf(got, k) + 1]]
<1>1. n \in Nat /\ DOMAIN got = 1 .. n /\ \A i \in 1 .. n : got[i] \in V
  OBVIOUS
<1>2. keys \in SUBSET Seq(Byte)
  <2>1. \A i \in DOMAIN got : i % 2 = 1 => got[i].bytes \in Seq(Byte)
    BY <1>1, BytesOfMade DEF WellFormed
  <2> QED
    BY <2>1
<1>3. ASSUME NEW k \in keys PROVE m[k] \in V
  <2> DEFINE T == {i \in 1 .. n : i % 2 = 1 /\ got[i].bytes = k}
             Is(i) == /\ i % 2 = 1 /\ got[i].bytes = k
                      /\ \A j \in i + 1 .. Len(got) : j % 2 = 1 => got[j].bytes # k
  <2>1. T # {} /\ T \subseteq 1 .. n
    BY <1>1
  <2>2. Max(T) \in T /\ \A i \in T : i <= Max(T)
    <3> HIDE DEF T
    <3> QED
      BY <1>1, <2>1, Greatest
  <2>3. Is(Max(T)) /\ Max(T) \in DOMAIN got
    <3> DEFINE x == Max(T)
    <3> HIDE DEF x
    <3>1. x \in 1 .. n /\ x % 2 = 1 /\ got[x].bytes = k
      BY <2>2 DEF x
    <3>2. ASSUME NEW j \in x + 1 .. n, j % 2 = 1 PROVE got[j].bytes # k
      <4>1. j \in 1 .. n /\ ~(j <= x)
        BY <1>1, <3>1, <3>2
      <4> QED
        BY <2>2, <3>2, <4>1 DEF x
    <3> QED
      BY <1>1, <3>1, <3>2 DEF x
  <2> DEFINE e == EntryOf(got, k)
  <2>4. Is(e) /\ e \in DOMAIN got
    <3>1. EntryOf(got, k) = CHOOSE i \in DOMAIN got : Is(i)
      BY DEF EntryOf
    <3> HIDE DEF Is, T
    <3> QED
      BY <2>3, <3>1
  <2> HIDE DEF e
  <2>5. e \in 1 .. n /\ e % 2 = 1 /\ n % 2 = 0
    BY <1>1, <2>4
  <2>6. e + 1 \in 1 .. n
    BY ONLY <1>1, <2>5, AfterKey
  <2> QED
    BY <1>1, <2>6 DEF e
<1>4. DictOf(got) = m
  BY DEF DictOf
<1>5. m \in [keys -> V]
  BY <1>3
<1> HIDE DEF keys, m
<1> QED
  BY <1>2, <1>4, <1>5, Zenon DEF Made

Frames(V) == [kind : {"list", "dict"}, at : Nat, got : Seq(V)]

(* More values may stand where fewer could. *)
LEMMA FramesGrow ==
    ASSUME NEW V, NEW W, V \subseteq W, NEW s \in Seq(Frames(V))
    PROVE  s \in Seq(Frames(W))
<1>1. Seq(V) \subseteq Seq(W)
  OBVIOUS
<1>2. Frames(V) \subseteq Frames(W)
  BY <1>1 DEF Frames
<1> QED
  BY <1>2

(* A dictionary that gets an odd value had an even number of them.          *)
LEMMA Parity == ASSUME NEW n \in Nat, (n + 1) % 2 = 1 PROVE n % 2 = 0
  OBVIOUS

(* The fields of a frame, and what replacing one leaves.                    *)
LEMMA Fields ==
    ASSUME NEW V, NEW s \in Seq(Frames(V)), NEW k \in DOMAIN s
    PROVE  /\ s[k].kind \in {"list", "dict"} /\ s[k].at \in Nat /\ s[k].got \in Seq(V)
           /\ DOMAIN s[k] = {"kind", "at", "got"}
<1>1. s[k] \in Frames(V)
  OBVIOUS
<1> QED
  BY <1>1 DEF Frames

(* What the steps do to the stack. *)
LEMMA Pushed ==
    ASSUME NEW V, NEW s \in Seq(Frames(V)), NEW f \in Frames(V)
    PROVE  /\ Append(s, f) \in Seq(Frames(V)) /\ Len(Append(s, f)) = Len(s) + 1
           /\ Append(s, f)[Len(s) + 1] = f
           /\ \A k \in 1 .. Len(s) : Append(s, f)[k] = s[k]
  OBVIOUS

LEMMA Popped ==
    ASSUME NEW V, NEW s \in Seq(Frames(V)), s # <<>>
    PROVE  /\ Front(s) \in Seq(Frames(V)) /\ Len(Front(s)) = Len(s) - 1
           /\ \A k \in 1 .. Len(s) - 1 : Front(s)[k] = s[k]
<1>1. Len(s) \in Nat /\ Len(s) >= 1
  OBVIOUS
<1>2. \A k \in 1 .. Len(s) - 1 : s[k] \in Frames(V)
  BY <1>1
<1> DEFINE t == [k \in 1 .. Len(s) - 1 |-> s[k]]
<1>3. t \in Seq(Frames(V)) /\ Len(t) = Len(s) - 1
  BY <1>1, <1>2
<1>4. Front(s) = t
  BY <1>1 DEF Front
<1> QED
  BY <1>1, <1>3, <1>4

LEMMA GotReplaced ==
    ASSUME NEW V, NEW f \in Frames(V), NEW g \in Seq(V)
    PROVE  /\ [f EXCEPT !.got = g] = [kind |-> f.kind, at |-> f.at, got |-> g]
           /\ [f EXCEPT !.got = g] \in Frames(V)
  BY DEF Frames

LEMMA Added ==
    ASSUME NEW V, stack \in Seq(Frames(V)), stack # <<>>, ret \in V,
           stack' = [stack EXCEPT ![Len(stack)].got = Append(@, ret)]
    PROVE  /\ stack' \in Seq(Frames(V)) /\ Len(stack') = Len(stack)
           /\ \A k \in 1 .. Len(stack) - 1 : stack'[k] = stack[k]
           /\ stack'[Len(stack)] = [kind |-> stack[Len(stack)].kind,
                                    at |-> stack[Len(stack)].at,
                                    got |-> Append(stack[Len(stack)].got, ret)]
<1> DEFINE n == Len(stack)
<1>1. n \in 1 .. Len(stack) /\ stack[n] \in Frames(V)
  OBVIOUS
<1>2. Append(stack[n].got, ret) \in Seq(V)
  BY <1>1 DEF Frames
<1>3. /\ [stack[n] EXCEPT !.got = Append(stack[n].got, ret)]
           = [kind |-> stack[n].kind, at |-> stack[n].at, got |-> Append(stack[n].got, ret)]
      /\ [stack[n] EXCEPT !.got = Append(stack[n].got, ret)] \in Frames(V)
  BY <1>1, <1>2, GotReplaced
<1>4. stack' = [stack EXCEPT ![n] = [stack[n] EXCEPT !.got = Append(stack[n].got, ret)]]
  BY <1>1
<1>5. stack' \in Seq(Frames(V)) /\ Len(stack') = n
  BY <1>1, <1>3, <1>4
<1>6. \A k \in 1 .. n : stack'[k] = IF k = n
                                  THEN [stack[n] EXCEPT !.got = Append(stack[n].got, ret)]
                                  ELSE stack[k]
  BY <1>1, <1>4
<1> QED
  BY <1>1, <1>3, <1>5, <1>6

-----------------------------------------------------------------------------
(* The inductive invariant. *)

(* V is a set of values to which those belong that the open lists and       *)
(* dictionaries hold, and the one that is returned.                         *)
DecoderShape(V) ==
    /\ data \in Seq(Byte) /\ whole \in BOOLEAN
    /\ pos \in 0 .. Len(data)
    /\ pc \in {"value", "loop", "return", "done"}
    /\ outcome \in DecodeErrors \cup {"running", "ok", "panic"}
    /\ WellFormed(V) /\ stack \in Seq(Frames(V))
    /\ pc = "loop" => stack # <<>>
    /\ pc = "return" \/ outcome = "ok" => ret \in V
    /\ pc # "done" => outcome = "running"

(* Every other value of a dictionary is a key, and where its loop goes on   *)
(* each key has its value.                                                  *)
Keyed ==
    /\ \A k \in DOMAIN stack : \A i \in DOMAIN stack[k].got :
         stack[k].kind = "dict" /\ i % 2 = 1 => "bytes" \in DOMAIN stack[k].got[i]
    /\ pc = "loop" /\ stack[Len(stack)].kind = "dict" => Len(stack[Len(stack)].got) % 2 = 0

DecoderInv == (\E V : DecoderShape(V)) /\ Keyed /\ DepthBounded

(* A Decoder that has just been made, by decode or by decode_partial.       *)
Begun ==
    /\ data \in Seq(Byte) /\ whole \in BOOLEAN
    /\ pos = 0 /\ stack = <<>> /\ pc = "value" /\ outcome = "running"

LEMMA BegunInv == Begun => DecoderInv
<1> SUFFICES ASSUME Begun PROVE DecoderInv
  OBVIOUS
<1>1. DecoderShape({})
  <2>1. stack \in Seq(Frames({}))
    BY DEF Begun
  <2> QED
    BY <2>1 DEF Begun, DecoderShape, WellFormed
<1>2. Keyed /\ DepthBounded
  BY DEF Begun, Keyed, DepthBounded
<1> QED
  BY <1>1, <1>2 DEF DecoderInv

LEMMA DecoderInitInv == DecoderInit => DecoderInv
<1>1. DecoderInit => Begun
  BY InputsOK DEF DecoderInit, Begun
<1> QED
  BY <1>1, BegunInv

(* A step that leaves the stack alone and does not move the cursor back.    *)
LEMMA Forward ==
    ASSUME NEW V, DecoderShape(V), Keyed, DepthBounded,
           NEW W, V \subseteq W, WellFormed(W),
           stack' = stack, data' = data, whole' = whole,
           pos' \in pos .. Len(data), pc' \in {"value", "return", "done"},
           outcome' \in DecodeErrors \cup {"running", "ok", "panic"},
           pc' = "return" \/ outcome' = "ok" => ret' \in W,
           pc' # "done" => outcome' = "running"
    PROVE  DecoderInv'
<1>1. DecoderShape(W)'
  <2>1. stack \in Seq(Frames(W))
    BY FramesGrow DEF DecoderShape
  <2> QED
    BY <2>1 DEF DecoderShape
<1>2. Keyed'
  BY DEF Keyed
<1>3. DepthBounded'
  <2>1. \A k \in DOMAIN stack : stack[k].at \in Nat
    BY Fields DEF DecoderShape
  <2>2. pos \in Nat /\ pos' \in Nat /\ pos <= pos' /\ Len(stack) \in Nat
    BY DEF DecoderShape
  <2> QED
    BY <2>1, <2>2 DEF DepthBounded
<1> QED
  BY <1>1, <1>2, <1>3 DEF DecoderInv

LEMMA OpenInv ==
    ASSUME NEW V, DecoderShape(V), Keyed, DepthBounded,
           NEW kind \in {"list", "dict"}, Open(kind), ~AtEnd,
           data[pos + 1] = IF kind = "list" THEN "l" ELSE "d",
           data' = data, whole' = whole, outcome = "running"
    PROVE  DecoderInv'
<1> DEFINE f == [kind |-> kind, at |-> pos, got |-> <<>>]
           n == Len(stack)
<1>1. f \in Frames(V) /\ stack \in Seq(Frames(V)) /\ n \in Nat
  BY DEF DecoderShape, Frames
<1>2. /\ stack' \in Seq(Frames(V)) /\ Len(stack') = n + 1 /\ stack'[n + 1] = f
      /\ \A k \in 1 .. n : stack'[k] = stack[k]
  BY <1>1, Pushed DEF Open
<1>3. pos \in Nat /\ pos' = pos + 1 /\ pos' \in 0 .. Len(data)
  BY DEF DecoderShape, AtEnd, Open
<1>4. DOMAIN stack' = 1 .. n + 1 /\ DOMAIN stack = 1 .. n
  BY <1>1, <1>2
<1>5. \A k \in 1 .. n : stack[k].at \in Nat
  BY <1>1, <1>4, Fields
<1>6. DecoderShape(V)'
  <2>1. stack' # <<>>
    BY <1>1, <1>2
  <2> QED
    BY <1>2, <1>3, <2>1 DEF DecoderShape, Open
<1>7. Keyed'
  <2>0. stack'[Len(stack')].got = <<>> /\ Len(<<>>) % 2 = 0
    BY <1>2
  <2> SUFFICES ASSUME NEW k \in 1 .. n + 1, NEW i \in DOMAIN stack'[k].got,
                      stack'[k].kind = "dict", i % 2 = 1
               PROVE  "bytes" \in DOMAIN stack'[k].got[i]
    BY <1>4, <2>0 DEF Keyed
  <2>1. CASE k = n + 1
    BY <2>1, <1>2
  <2>2. CASE k \in 1 .. n
    BY <2>2, <1>2, <1>4 DEF Keyed
  <2> QED
    BY <2>1, <2>2, <1>1
<1>8. DepthBounded'
  <2>1. \A k \in 1 .. n : stack[k].at < pos
    BY <1>4 DEF DepthBounded
  <2>2. ASSUME NEW k \in 1 .. n + 1
        PROVE  /\ stack'[k].at < pos'
               /\ data'[stack'[k].at + 1] = IF stack'[k].kind = "list" THEN "l" ELSE "d"
               /\ k > 1 => stack'[k - 1].at < stack'[k].at
    <3>1. CASE k = n + 1
      <4>1. stack'[k].at = pos /\ stack'[k].kind = kind
        BY <3>1, <1>2
      <4>2. k > 1 => k - 1 \in 1 .. n /\ stack'[k - 1] = stack[k - 1]
        BY <3>1, <1>1, <1>2
      <4> QED
        BY <4>1, <4>2, <2>1, <1>3
    <3>2. CASE k \in 1 .. n
      <4>1. stack'[k] = stack[k] /\ (k > 1 => stack'[k - 1] = stack[k - 1])
        BY <3>2, <1>1, <1>2
      <4>2. stack'[k].at < pos'
        BY <3>2, <4>1, <2>1, <1>3, <1>5
      <4>3. /\ data[stack[k].at + 1] = IF stack[k].kind = "list" THEN "l" ELSE "d"
            /\ k > 1 => stack[k - 1].at < stack[k].at
        BY <3>2, <1>4 DEF DepthBounded
      <4> QED
        BY <4>1, <4>2, <4>3
    <3> QED
      BY <3>1, <3>2, <1>1
  <2>3. Len(stack') <= pos'
    BY <1>1, <1>2, <1>3 DEF DepthBounded
  <2> QED
    BY <2>2, <2>3, <1>4 DEF DepthBounded
<1> QED
  BY <1>6, <1>7, <1>8 DEF DecoderInv

LEMMA ValueInv == ASSUME DecoderInv, Value PROVE DecoderInv'
<1> PICK V : DecoderShape(V)
  BY DEF DecoderInv
<1> USE DEF DecoderInv
<1>1. data \in Seq(Byte) /\ pos \in Nat /\ pos <= Len(data) /\ Len(data) \in Nat
  BY DEF DecoderShape
<1>2. data' = data /\ whole' = whole
  BY DEF Value
<1>0. WellFormed(V) /\ Keyed /\ DepthBounded
  BY DEF DecoderShape
<1>3. ASSUME NEW o \in DecodeErrors \cup {"panic"}, Done(o) PROVE DecoderInv'
  <2>1. o # "ok"
    BY DEF DecodeErrors
  <2> QED
    BY <1>0, <1>1, <1>2, <1>3, <2>1, Forward DEF Done
<1>4. ASSUME NEW v, Made(v, V), NEW p \in pos .. Len(data), Return(v, p) PROVE DecoderInv'
  <2> DEFINE W == V \cup {v}
  <2>1. V \subseteq W /\ WellFormed(W) /\ v \in W
    BY <1>0, <1>4, OneMoreValue
  <2>2. /\ stack' = stack /\ pos' \in pos .. Len(data) /\ pc' = "return" /\ ret' = v
        /\ outcome' = outcome
    BY <1>4 DEF Return
  <2>3. outcome = "running"
    BY DEF Value, DecoderShape
  <2> HIDE DEF W
  <2> QED
    BY <1>0, <1>2, <2>1, <2>2, <2>3, Forward
<1>5. CASE Here("i") /\ ParseInteger
  <2> DEFINE stop == Scan(pos + 1, "e")
  <2>1. stop \in pos + 1 .. Len(data)
    BY <1>1, <1>5, ScanStops DEF Here, AtEnd
  <2>2. CASE Done("InvalidInteger") \/ Done("UnexpectedEof")
    BY <2>2, <1>3 DEF DecodeErrors
  <2>3. CASE stop # Len(data) /\ \E n \in Integers64 : Return([int |-> n], stop + 1)
    <3>1. stop + 1 \in pos .. Len(data)
      BY <2>1, <2>3, <1>1
    <3>2. PICK n \in Integers64 : Return([int |-> n], stop + 1)
      BY <2>3
    <3>3. Made([int |-> n], V)
      BY Zenon DEF Made
    <3> QED
      BY <3>1, <3>2, <3>3, <1>4
  <2>4. Signed(Text(pos + 1, stop), Integers64) \subseteq Integers64
    BY SignedRange
  <2> QED
    BY <1>5, <2>2, <2>3, <2>4 DEF ParseInteger
<1>a. outcome = "running"
  BY DEF Value, DecoderShape
<1>6. CASE Here("l") /\ Open("list")
  BY <1>0, <1>2, <1>6, <1>a, OpenInv DEF Here
<1>7. CASE Here("d") /\ Open("dict")
  BY <1>0, <1>2, <1>7, <1>a, OpenInv DEF Here
<1>8. CASE ParseBytes
  <2> DEFINE stop == Scan(pos, ":")
             ns   == Unsigned(Text(pos, stop), Lengths)
  <2>1. stop \in pos .. Len(data)
    BY <1>1, ScanStops
  <2>2. CASE Done("InvalidStringLength") \/ Done("UnexpectedEof") \/ Done("panic")
    BY <2>2, <1>3 DEF DecodeErrors
  <2>3. CASE \E n \in ns : /\ stop # Len(data) /\ ~TooLong(stop + 1, n)
                           /\ Return([bytes |-> Text(stop + 1, stop + 1 + n)], stop + 1 + n)
    <3> PICK n \in ns : /\ stop # Len(data) /\ ~TooLong(stop + 1, n)
                        /\ Return([bytes |-> Text(stop + 1, stop + 1 + n)], stop + 1 + n)
      BY <2>3
    <3>1. n \in Nat
      BY NumberRange, InputsOK DEF Lengths
    <3>2. stop + 1 + n \in pos .. Len(data)
      BY <2>1, <3>1, <1>1 DEF TooLong
    <3>3. Text(stop + 1, stop + 1 + n) \in Seq(Byte)
      <4> DEFINE p == stop + 1
                 q == stop + 1 + n
      <4>1. p \in Nat /\ q \in Nat /\ p <= q /\ q <= Len(data)
        BY <1>1, <2>1, <3>1, <3>2
      <4> HIDE DEF p, q
      <4>2. SubSeq(data, p + 1, q) \in Seq(Byte)
        BY ONLY <1>1, <4>1, Slice
      <4>3. Text(p, q) \in Seq(Byte)
        BY <4>2 DEF Text
      <4> QED
        BY <4>3 DEF p, q
    <3>4. Made([bytes |-> Text(stop + 1, stop + 1 + n)], V)
      BY <3>3, Zenon DEF Made
    <3> QED
      BY <3>2, <3>4, <1>4
  <2> QED
    BY <1>8, <2>2, <2>3 DEF ParseBytes
<1>9. CASE Done("UnexpectedByte") \/ Done("UnexpectedEof")
  BY <1>9, <1>3 DEF DecodeErrors
<1> QED
  BY <1>5, <1>6, <1>7, <1>8, <1>9 DEF Value

LEMMA LoopInv == ASSUME DecoderInv, Loop PROVE DecoderInv'
<1> PICK V : DecoderShape(V)
  BY DEF DecoderInv
<1>0. Keyed /\ DepthBounded
  BY DEF DecoderInv
<1>1. data \in Seq(Byte) /\ pos \in Nat /\ pos <= Len(data) /\ Len(data) \in Nat
  BY DEF DecoderShape
<1>2. data' = data /\ whole' = whole
  BY DEF Loop
<1>a. WellFormed(V) /\ outcome = "running"
  BY DEF DecoderShape, Loop
<1>3. CASE AtEnd /\ Done("UnexpectedEof")
  BY <1>0, <1>1, <1>2, <1>3, <1>a, Forward DEF Done, DecodeErrors
<1>4. CASE ~AtEnd /\ ~Here("e") /\ pc' = "value" /\ UNCHANGED <<pos, stack, ret, outcome>>
  BY <1>0, <1>1, <1>2, <1>4, <1>a, Forward
<1>5. CASE Here("e") /\ stack' = Front(stack) /\ pos' = pos + 1 /\ pc' = "return"
           /\ ret' = Closed(Top) /\ UNCHANGED outcome
  <2> DEFINE n == Len(stack)
  <2> PICK W : W = V \cup {Closed(Top)}
    OBVIOUS
  <2>0. Made(Closed(Top), V)
    <3>1. stack \in Seq(Frames(V)) /\ stack # <<>> /\ Top = stack[n] /\ n \in DOMAIN stack
      BY DEF DecoderShape, Loop, Top, Last
    <3>2. Top.kind \in {"list", "dict"} /\ Top.got \in Seq(V)
      BY <3>1, Fields
    <3>3. CASE Top.kind = "list"
      <4>1. Closed(Top) = [list |-> Top.got]
        BY <3>3 DEF Closed
      <4> QED
        BY <3>2, <4>1, Zenon DEF Made
    <3>4. CASE Top.kind = "dict"
      <4>1. Closed(Top) = [dict |-> DictOf(Top.got)]
        BY <3>4 DEF Closed
      <4>2. Len(Top.got) % 2 = 0
        BY <1>0, <3>1, <3>4 DEF Keyed, Loop
      <4>3. \A i \in DOMAIN Top.got : i % 2 = 1 => "bytes" \in DOMAIN Top.got[i]
        BY <1>0, <3>1, <3>4 DEF Keyed
      <4> QED
        BY <1>a, <3>2, <4>1, <4>2, <4>3, DictMade
    <3> QED
      BY <3>2, <3>3, <3>4
  <2>a. V \subseteq W /\ WellFormed(W) /\ ret' \in W
    BY <1>5, <1>a, <2>0, OneMoreValue
  <2>1. stack \in Seq(Frames(V)) /\ stack # <<>> /\ n \in Nat
    BY DEF DecoderShape, Loop
  <2>2. /\ stack' \in Seq(Frames(W)) /\ Len(stack') = n - 1
        /\ \A k \in 1 .. n - 1 : stack'[k] = stack[k]
    <3>1. /\ stack' \in Seq(Frames(V)) /\ Len(stack') = n - 1
          /\ \A k \in 1 .. n - 1 : stack'[k] = stack[k]
      BY <1>5, <2>1, Popped
    <3> QED
      BY <2>a, <3>1, FramesGrow
  <2>3. DOMAIN stack' = 1 .. n - 1 /\ DOMAIN stack = 1 .. n
    BY <2>1, <2>2
  <2>4. pos' \in 0 .. Len(data)
    BY <1>1, <1>5 DEF Here, AtEnd
  <2>5. DecoderShape(W)'
    BY <1>2, <1>5, <1>a, <2>2, <2>4, <2>a DEF DecoderShape
  <2>6. Keyed'
    BY <1>0, <1>5, <2>1, <2>2, <2>3 DEF Keyed
  <2>7. DepthBounded'
    <3>1. \A k \in 1 .. n : stack[k].at \in Nat
      BY <2>1, <2>3, Fields
    <3>2. ASSUME NEW k \in 1 .. n - 1
          PROVE  k \in 1 .. n /\ stack'[k] = stack[k] /\ (k > 1 => stack'[k - 1] = stack[k - 1])
      BY <2>1, <2>2
    <3>3. Len(stack') <= pos'
      BY <1>0, <1>1, <1>5, <2>1, <2>2 DEF DepthBounded
    <3>4. ASSUME NEW k \in 1 .. n - 1
          PROVE  /\ stack'[k].at < pos'
                 /\ data'[stack'[k].at + 1] = IF stack'[k].kind = "list" THEN "l" ELSE "d"
                 /\ k > 1 => stack'[k - 1].at < stack'[k].at
      <4>1. /\ stack[k].at < pos
            /\ data[stack[k].at + 1] = IF stack[k].kind = "list" THEN "l" ELSE "d"
            /\ k > 1 => stack[k - 1].at < stack[k].at
        BY <1>0, <2>3, <3>2 DEF DepthBounded
      <4>2. stack[k].at < pos + 1
        BY <4>1, <3>1, <3>2, <1>1
      <4> QED
        BY <4>1, <4>2, <3>2, <1>2, <1>5
    <3> QED
      BY <3>3, <3>4, <2>3 DEF DepthBounded
  <2> QED
    BY <2>5, <2>6, <2>7 DEF DecoderInv
<1> QED
  BY <1>3, <1>4, <1>5 DEF Loop

LEMMA ResumeInv == ASSUME DecoderInv, Resume PROVE DecoderInv'
<1> PICK V : DecoderShape(V)
  BY DEF DecoderInv
<1>0. Keyed /\ DepthBounded
  BY DEF DecoderInv
<1>1. data \in Seq(Byte) /\ pos \in Nat /\ pos <= Len(data) /\ Len(data) \in Nat
  BY DEF DecoderShape
<1>2. data' = data /\ whole' = whole
  BY DEF Resume
<1>a. WellFormed(V) /\ ret \in V /\ outcome = "running"
  BY DEF DecoderShape, Resume
<1>3. ASSUME NEW o \in DecodeErrors \cup {"ok", "panic"}, Done(o) PROVE DecoderInv'
  BY <1>0, <1>1, <1>2, <1>3, <1>a, Forward DEF Done
<1>4. CASE /\ stack # <<>> /\ (KeyExpected(Top) => "bytes" \in DOMAIN ret)
           /\ stack' = [stack EXCEPT ![Len(stack)].got = Append(@, ret)]
           /\ pc' = IF KeyExpected(Top) THEN "value" ELSE "loop"
           /\ UNCHANGED <<pos, ret, outcome>>
  <2> DEFINE n == Len(stack)
  <2>1. stack \in Seq(Frames(V)) /\ n \in Nat /\ n >= 1
    <3>1. stack \in Seq(Frames(V))
      BY DEF DecoderShape
    <3> QED
      BY <3>1, <1>4
  <2>2. /\ stack' \in Seq(Frames(V)) /\ Len(stack') = n
        /\ \A k \in 1 .. n - 1 : stack'[k] = stack[k]
        /\ stack'[n] = [kind |-> stack[n].kind, at |-> stack[n].at,
                        got |-> Append(stack[n].got, ret)]
    BY <1>4, <1>a, <2>1, Added
  <2>3. DOMAIN stack' = 1 .. n /\ DOMAIN stack = 1 .. n
    BY <2>1, <2>2
  <2>4. DecoderShape(V)'
    <3>1. stack' # <<>>
      BY <2>1, <2>2
    <3> QED
      BY <1>2, <1>4, <1>a, <2>2, <3>1 DEF DecoderShape
  <2>5. Keyed'
    <3>0. pc' = "loop" /\ stack'[n].kind = "dict" => Len(stack'[n].got) % 2 = 0
      <4> DEFINE got == stack[n].got
                 m == Len(got)
      <4>1. Top = stack[n] /\ got \in Seq(V) /\ m \in Nat
        <5>1. n \in DOMAIN stack
          BY <2>1, <2>3
        <5>2. got \in Seq(V)
          BY <2>1, <5>1, Fields
        <5> QED
          BY <5>2 DEF Top, Last
      <4>2. /\ stack'[n].kind = stack[n].kind /\ stack'[n].got = Append(got, ret)
            /\ Len(Append(got, ret)) = m + 1
        BY <1>a, <2>2, <4>1
      <4>3. pc' = "loop" /\ stack[n].kind = "dict" => m % 2 # 0
        BY <1>4, <4>1 DEF KeyExpected
      <4> HIDE DEF m
      <4>4. m % 2 # 0 => (m + 1) % 2 = 0
        BY <4>1
      <4> QED
        BY <4>2, <4>3, <4>4
    <3> SUFFICES ASSUME NEW k \in 1 .. n, NEW i \in DOMAIN stack'[k].got,
                        stack'[k].kind = "dict", i % 2 = 1
                 PROVE  "bytes" \in DOMAIN stack'[k].got[i]
      BY <2>2, <2>3, <3>0 DEF Keyed
    <3>1. CASE k \in 1 .. n - 1
      BY <3>1, <1>0, <2>2, <2>3 DEF Keyed
    <3>2. CASE k = n
      <4> DEFINE got == stack[n].got
      <4>1. got \in Seq(V) /\ stack[n].kind = "dict"
        <5>1. n \in DOMAIN stack
          BY <2>1, <2>3
        <5>2. got \in Seq(V)
          BY <5>1, <2>1, Fields
        <5> QED
          BY <5>2, <3>2, <2>2
      <4>2. stack'[k].got = Append(got, ret) /\ i \in 1 .. Len(got) + 1
        BY <3>2, <2>2, <4>1
      <4>3. CASE i \in 1 .. Len(got)
        BY <4>1, <4>2, <4>3, <1>0, <2>1, <2>3 DEF Keyed
      <4>4. CASE i = Len(got) + 1
        <5>0. Len(got) \in Nat
          BY <4>1
        <5>1. Len(got) % 2 = 0
          <6> HIDE DEF got
          <6>1. (Len(got) + 1) % 2 = 1
            BY <4>4, Zenon
          <6> QED
            BY <5>0, <6>1, Parity
        <5>2. Top = stack[n]
          BY DEF Top, Last
        <5>3. "bytes" \in DOMAIN ret
          BY <5>1, <5>2, <4>1, <1>4 DEF KeyExpected
        <5> QED
          BY <5>3, <4>1, <4>2, <4>4
      <4> QED
        BY <4>1, <4>2, <4>3, <4>4
    <3> QED
      BY <3>1, <3>2, <2>1
  <2>6. DepthBounded'
    <3>1. \A k \in 1 .. n : stack'[k].at = stack[k].at /\ stack'[k].kind = stack[k].kind
      BY <2>1, <2>2
    <3>2. \A k \in 1 .. n : k > 1 => k - 1 \in 1 .. n
      BY <2>1
    <3> QED
      BY <1>0, <1>2, <1>4, <2>2, <2>3, <3>1, <3>2 DEF DepthBounded
  <2> QED
    BY <2>4, <2>5, <2>6 DEF DecoderInv
<1> QED
  BY <1>3, <1>4 DEF Resume, DecodeErrors

LEMMA DecoderStepInv == ASSUME DecoderInv, [DecoderNext]_decoderVars PROVE DecoderInv'
<1>1. CASE UNCHANGED decoderVars
  BY <1>1 DEF decoderVars, DecoderInv, DecoderShape, Keyed, DepthBounded
<1> QED
  BY <1>1, ValueInv, LoopInv, ResumeInv DEF DecoderNext

-----------------------------------------------------------------------------
(* The theorems. *)

LEMMA DecoderTyped == DecoderInv => DecoderTypeOK
<1> SUFFICES ASSUME DecoderInv PROVE DecoderTypeOK
  OBVIOUS
<1> PICK V : DecoderShape(V)
  BY DEF DecoderInv
<1>1. \A k \in DOMAIN stack : /\ DOMAIN stack[k] = {"kind", "at", "got"}
                              /\ stack[k].kind \in {"list", "dict"}
  BY Fields DEF DecoderShape
<1> QED
  BY <1>1 DEF DecoderInv, DecoderShape, Keyed, DecoderTypeOK

(* The cursor never leaves the input, and every dictionary key is a byte    *)
(* string, whatever the input and the widths of i64 and usize.              *)
THEOREM DecoderTypeCorrect == DecoderSpec => []DecoderTypeOK
  BY DecoderTyped, DecoderInitInv, DecoderStepInv, PTL DEF DecoderSpec

(* A result of parse_value: an i64, a byte string, a list of results, or a  *)
(* dictionary from byte strings to results.                                 *)
IsValue(v) == \E V : WellFormed(V) /\ v \in V

LEMMA DecodedIsValue == DecoderInv => (outcome = "ok" => IsValue(ret))
  BY DEF DecoderInv, DecoderShape, IsValue

(* What decode and decode_partial return is a bencode::Value down to its    *)
(* leaves: every integer in it fits i64, and every key is a byte string     *)
(* with a value of its own.                                                 *)
THEOREM ValueCorrect == DecoderSpec => [](outcome = "ok" => IsValue(ret))
  BY DecodedIsValue, DecoderInitInv, DecoderStepInv, PTL DEF DecoderSpec

(* parse_list and parse_dict nest no deeper than the opening bytes before   *)
(* the cursor, one for each.                                                *)
THEOREM DepthCorrect == DecoderSpec => []DepthBounded
<1>1. DecoderInv => DepthBounded
  BY DEF DecoderInv
<1> QED
  BY <1>1, DecoderInitInv, DecoderStepInv, PTL DEF DecoderSpec

(* What a step does to the cursor. *)
LEMMA StepMoves ==
    ASSUME DecoderInv, DecoderNext
    PROVE  /\ data' = data /\ pos \in 0 .. Len(data) /\ pos' \in 0 .. Len(data)
           /\ \/ pc = "value" /\ pos' >= pos + 1 /\ pc' \in {"return", "loop"}
              \/ pc = "loop" /\ pos' >= pos + 1 /\ pc' = "return"
              \/ pc = "loop" /\ pos' = pos /\ pc' = "value"
              \/ pc = "return" /\ pos' = pos /\ pc' \in {"value", "loop"}
              \/ pc \in {"value", "loop", "return"} /\ pos' = pos /\ pc' = "done"
<1> PICK V : DecoderShape(V)
  BY DEF DecoderInv
<1>1. data \in Seq(Byte) /\ pos \in Nat /\ pos <= Len(data) /\ Len(data) \in Nat
  BY DEF DecoderShape
<1>2. data' = data
  BY DEF DecoderNext, Value, Loop, Resume
<1>3. pos' \in 0 .. Len(data)
  <2>1. DecoderInv'
    BY DecoderStepInv
  <2> QED
    BY <1>2, <2>1 DEF DecoderInv, DecoderShape
<1>4. ASSUME NEW o, Done(o) PROVE pos' = pos /\ pc' = "done"
  BY <1>4 DEF Done
<1>5. CASE Value
  <2>1. pc = "value"
    BY <1>5 DEF Value
  <2>2. CASE Here("i") /\ ParseInteger
    <3> DEFINE stop == Scan(pos + 1, "e")
    <3>1. stop \in pos + 1 .. Len(data)
      BY <1>1, <2>2, ScanStops DEF Here, AtEnd
    <3>2. (\E o : Done(o)) \/ \E v : Return(v, stop + 1)
      BY <2>2 DEF ParseInteger
    <3> HIDE DEF stop
    <3>3. stop + 1 >= pos + 1
      BY <1>1, <3>1
    <3> QED
      BY <1>1, <1>2, <1>3, <1>4, <2>1, <3>2, <3>3 DEF Return
  <2>3. CASE ParseBytes
    <3> DEFINE stop == Scan(pos, ":")
               ns   == Unsigned(Text(pos, stop), Lengths)
    <3>1. stop \in pos .. Len(data)
      BY <1>1, ScanStops
    <3>2. ns \subseteq Nat
      BY NumberRange, InputsOK DEF Lengths
    <3>3. (\E o : Done(o)) \/ \E n \in ns : \E v : Return(v, stop + 1 + n)
      BY <2>3 DEF ParseBytes
    <3> HIDE DEF stop, ns
    <3>4. \A n \in ns : stop + 1 + n >= pos + 1
      BY <1>1, <3>1, <3>2
    <3> QED
      BY <1>1, <1>2, <1>3, <1>4, <2>1, <3>3, <3>4 DEF Return
  <2>4. CASE Open("list") \/ Open("dict")
    BY <1>1, <1>2, <1>3, <2>1, <2>4 DEF Open
  <2>5. CASE \E o : Done(o)
    BY <1>1, <1>2, <1>3, <1>4, <2>1, <2>5
  <2> QED
    BY <1>5, <2>2, <2>3, <2>4, <2>5 DEF Value
<1>6. CASE Loop
  BY <1>1, <1>2, <1>3, <1>4, <1>6 DEF Loop
<1>7. CASE Resume
  BY <1>1, <1>2, <1>3, <1>4, <1>7 DEF Resume
<1> QED
  BY <1>5, <1>6, <1>7 DEF DecoderNext

(* A byte that is read pays for four steps, and what does not read one goes *)
(* down in rank.                                                            *)
LEMMA FourPerByte ==
    ASSUME NEW n \in Nat, NEW p \in 0 .. n, NEW q \in 0 .. n,
           NEW a \in 0 .. 3, NEW b \in 0 .. 3,
           (q >= p + 1 /\ b < a + 4) \/ (q = p /\ b < a)
    PROVE  4 * (n - q) + b < 4 * (n - p) + a /\ 4 * (n - q) + b >= 0
  OBVIOUS

(* decode and decode_partial end after at most four steps for each byte of  *)
(* the input: what TLC checks as DecodeEnds, without its fairness.          *)
THEOREM LinearCorrect == DecoderSpec => Linear
<1>1. ASSUME DecoderInv, DecoderNext PROVE WorkLeft' < WorkLeft /\ WorkLeft' >= 0
  <2> DEFINE n == Len(data)
             a == PcRank[pc]
             b == PcRank[pc']
  <2>1. n \in Nat
    BY <1>1 DEF DecoderInv, DecoderShape
  <2>2. /\ a \in 0 .. 3 /\ b \in 0 .. 3
        /\ pos' >= pos + 1 => b < a + 4
        /\ pos' = pos => b < a
    <3>1. pos' >= pos + 1 => pos' # pos
      BY <1>1, StepMoves
    <3> QED
      BY <1>1, <3>1, StepMoves DEF PcRank
  <2>3. /\ data' = data /\ pos \in 0 .. n /\ pos' \in 0 .. n
        /\ pos' >= pos + 1 \/ pos' = pos
    BY <1>1, StepMoves
  <2>4. WorkLeft = 4 * (n - pos) + a /\ WorkLeft' = 4 * (n - pos') + b
    BY <2>3 DEF WorkLeft
  <2> HIDE DEF n, a, b
  <2> QED
    BY <2>1, <2>2, <2>3, <2>4, FourPerByte
<1>2. DecoderInv /\ [DecoderNext]_decoderVars
        => [WorkLeft' < WorkLeft /\ WorkLeft' >= 0]_decoderVars
  BY <1>1
<1> QED
  BY <1>2, DecoderInitInv, DecoderStepInv, PTL DEF DecoderSpec, Linear

-----------------------------------------------------------------------------
(* The grammar. *)

(* The encodings between two places of s, and the concatenations of them.    *)
Meant(s, strict, p, e) == Encoded(s, Items(s, strict), p, e, strict)
Runs(s, strict, a, b) == Items(s, strict)[<<a, b>>]

(* What is concatenated in a span depends on what is in shorter ones.        *)
LEMMA OnlyShorter ==
    ASSUME NEW s \in Seq(Byte), NEW strict, NEW m1, NEW m2, NEW n \in Nat,
           NEW a \in 0 .. Len(s), NEW b \in 0 .. Len(s), b - a <= n,
           \A c, d \in 0 .. Len(s) : d - c < n => m1[<<c, d>>] = m2[<<c, d>>]
    PROVE  Concatenated(s, m1, a, b, strict) = Concatenated(s, m2, a, b, strict)
<1> DEFINE F(m, k) == Followed(Encoded(s, m, a, k, strict), m[<<k, b>>])
<1>0. Len(s) \in Nat
  OBVIOUS
<1>1. ASSUME NEW k \in a + 2 .. b PROVE F(m1, k) = F(m2, k)
  <2>1. k \in 0 .. Len(s) /\ a + 1 \in 0 .. Len(s) /\ k - 1 \in 0 .. Len(s)
    BY <1>0
  <2>2. (k - 1) - (a + 1) < n /\ b - k < n
    BY <1>0, <2>1
  <2>3. m1[<<a + 1, k - 1>>] = m2[<<a + 1, k - 1>>] /\ m1[<<k, b>>] = m2[<<k, b>>]
    BY <2>1, <2>2
  <2>4. Encoded(s, m1, a, k, strict) = Encoded(s, m2, a, k, strict)
    BY <2>3 DEF Encoded
  <2> QED
    BY <2>3, <2>4
<1> HIDE DEF F
<1>2. {F(m1, k) : k \in a + 2 .. b} = {F(m2, k) : k \in a + 2 .. b}
  BY <1>1
<1> QED
  BY <1>2 DEF Concatenated, F

Solves(m, s, strict, n) ==
    /\ m = [x \in Spans(s) |-> m[x]]
    /\ \A a, b \in 0 .. Len(s) :
         b - a < n => m[<<a, b>>] = Concatenated(s, m, a, b, strict)

LEMMA OneLonger ==
    ASSUME NEW s \in Seq(Byte), NEW strict, NEW n \in Nat, NEW m, Solves(m, s, strict, n)
    PROVE  \E h : Solves(h, s, strict, n + 1)
<1> DEFINE Step(x) == IF x[2] - x[1] < n THEN m[x]
                      ELSE Concatenated(s, m, x[1], x[2], strict)
           h == [x \in Spans(s) |-> Step(x)]
<1>0. Len(s) \in Nat
  OBVIOUS
<1>1. ASSUME NEW a \in 0 .. Len(s), NEW b \in 0 .. Len(s)
      PROVE  h[<<a, b>>] = IF b - a < n THEN m[<<a, b>>] ELSE Concatenated(s, m, a, b, strict)
  <2>1. <<a, b>> \in Spans(s) /\ <<a, b>>[1] = a /\ <<a, b>>[2] = b
    BY DEF Spans
  <2> QED
    BY <2>1
<1>2. h = [x \in Spans(s) |-> h[x]]
  <2> HIDE DEF Step
  <2> QED
    OBVIOUS
<1> HIDE DEF h
<1>3. \A c, d \in 0 .. Len(s) : d - c < n => m[<<c, d>>] = h[<<c, d>>]
  BY <1>1
<1>4. ASSUME NEW a \in 0 .. Len(s), NEW b \in 0 .. Len(s), b - a < n + 1
      PROVE  h[<<a, b>>] = Concatenated(s, h, a, b, strict)
  <2>1. b - a <= n
    BY <1>0, <1>4
  <2>2. Concatenated(s, m, a, b, strict) = Concatenated(s, h, a, b, strict)
    BY <1>3, <2>1, OnlyShorter
  <2>3. h[<<a, b>>] = Concatenated(s, m, a, b, strict)
    BY <1>1 DEF Solves
  <2> QED
    BY <2>2, <2>3
<1> QED
  BY <1>2, <1>4 DEF Solves

LEMMA ItemsSolves ==
    ASSUME NEW s \in Seq(Byte), NEW strict
    PROVE  \A a, b \in 0 .. Len(s) :
             Items(s, strict)[<<a, b>>] = Concatenated(s, Items(s, strict), a, b, strict)
<1> DEFINE n == Len(s) + 1
           T == {k \in 0 .. n : \E m : Solves(m, s, strict, k)}
           Is(m) == m = [x \in Spans(s) |-> Concatenated(s, m, x[1], x[2], strict)]
<1>0. Len(s) \in Nat /\ n \in Nat
  OBVIOUS
<1>1. 0 \in T
  <2> DEFINE m == [x \in Spans(s) |-> {}]
  <2>1. ASSUME NEW a \in 0 .. Len(s), NEW b \in 0 .. Len(s), b - a < 0
        PROVE  m[<<a, b>>] = Concatenated(s, m, a, b, strict)
    <3>1. <<a, b>> \in Spans(s)
      BY DEF Spans
    <3>2. a # b /\ a + 2 .. b = {}
      BY <2>1, <1>0
    <3>3. Concatenated(s, m, a, b, strict) = {}
      BY <3>2 DEF Concatenated
    <3> QED
      BY <3>1, <3>3
  <2>2. m = [x \in Spans(s) |-> m[x]]
    OBVIOUS
  <2> HIDE DEF m
  <2>3. Solves(m, s, strict, 0)
    BY <2>1, <2>2 DEF Solves
  <2> QED
    BY <2>3, <1>0
<1>2. ASSUME NEW k \in 0 .. n - 1, k \in T PROVE k + 1 \in T
  <2>1. k \in Nat /\ k + 1 \in 0 .. n
    BY <1>0
  <2>2. PICK m : Solves(m, s, strict, k)
    BY <1>2
  <2>3. \E h : Solves(h, s, strict, k + 1)
    BY <2>1, <2>2, OneLonger
  <2> QED
    BY <2>1, <2>3
<1>3. n \in T
  <2>1. 0 .. n \subseteq T
    <3> HIDE DEF T, n
    <3> QED
      BY <1>0, <1>1, <1>2, UpTo
  <2> QED
    BY <1>0, <2>1
<1>4. PICK m : Solves(m, s, strict, n)
  BY <1>3
<1>5. Is(m)
  <2> DEFINE C(x) == Concatenated(s, m, x[1], x[2], strict)
  <2>1. ASSUME NEW x \in Spans(s) PROVE m[x] = C(x)
    <3>1. PICK a \in 0 .. Len(s), b \in 0 .. Len(s) : x = <<a, b>>
      BY DEF Spans
    <3>2. b - a < n
      BY <1>0
    <3>3. m[<<a, b>>] = Concatenated(s, m, a, b, strict)
      BY <1>4, <3>2 DEF Solves
    <3> QED
      BY <3>1, <3>3
  <2>2. m = [x \in Spans(s) |-> m[x]]
    BY <1>4 DEF Solves
  <2> HIDE DEF C
  <2>3. [x \in Spans(s) |-> m[x]] = [x \in Spans(s) |-> C(x)]
    BY <2>1
  <2> QED
    BY <2>2, <2>3 DEF C
<1> DEFINE I == Items(s, strict)
<1>6. I = CHOOSE h : Is(h)
  BY DEF Items
<1>7. Is(I)
  <2> HIDE DEF Is
  <2> QED
    BY <1>5, <1>6, Zenon
<1> HIDE DEF I
<1>8. ASSUME NEW a \in 0 .. Len(s), NEW b \in 0 .. Len(s)
      PROVE  I[<<a, b>>] = Concatenated(s, I, a, b, strict)
  <2>1. <<a, b>> \in Spans(s) /\ <<a, b>>[1] = a /\ <<a, b>>[2] = b
    BY DEF Spans
  <2> QED
    BY <1>7, <2>1
<1> QED
  BY <1>8 DEF I

(* A sequence whose encodings are one after the other from a to b.           *)
Heads(s, strict, a, b, q) ==
    \E k \in a + 2 .. b : \E v \in Meant(s, strict, a, k) : \E rest \in Runs(s, strict, k, b) :
      q = <<v>> \o rest

LEMMA CutUp ==
    ASSUME NEW s \in Seq(Byte), NEW strict, NEW a \in 0 .. Len(s), NEW b \in 0 .. Len(s), NEW q
    PROVE  q \in Runs(s, strict, a, b) <=> (a = b /\ q = <<>>) \/ Heads(s, strict, a, b, q)
<1> DEFINE F(k) == Followed(Meant(s, strict, a, k), Runs(s, strict, k, b))
<1>0. Len(s) \in Nat
  OBVIOUS
<1> DEFINE I == Items(s, strict)
<1>1. Runs(s, strict, a, b) = IF a = b THEN {<<>>} ELSE UNION {F(k) : k \in a + 2 .. b}
  <2>1. I[<<a, b>>] = Concatenated(s, I, a, b, strict)
    BY ItemsSolves
  <2>2. Runs(s, strict, a, b) = I[<<a, b>>] /\ \A k : Runs(s, strict, k, b) = I[<<k, b>>]
    BY DEF Runs
  <2>3. \A k : Meant(s, strict, a, k) = Encoded(s, I, a, k, strict)
    BY DEF Meant
  <2> DEFINE G(k) == Followed(Encoded(s, I, a, k, strict), I[<<k, b>>])
  <2> HIDE DEF I
  <2>4. \A k : G(k) = F(k)
    BY <2>2, <2>3
  <2>5. Concatenated(s, I, a, b, strict) = IF a = b THEN {<<>>} ELSE UNION {G(k) : k \in a + 2 .. b}
    BY DEF Concatenated
  <2> HIDE DEF F, G
  <2>6. {G(k) : k \in a + 2 .. b} = {F(k) : k \in a + 2 .. b}
    BY <2>4
  <2> QED
    BY <2>1, <2>2, <2>5, <2>6
<1>2. ASSUME NEW k PROVE q \in F(k) <=> \E v \in Meant(s, strict, a, k) :
                           \E rest \in Runs(s, strict, k, b) : q = <<v>> \o rest
  <2> DEFINE M == Meant(s, strict, a, k)
             R == Runs(s, strict, k, b)
  <2> HIDE DEF M, R
  <2> DEFINE After(v) == {<<v>> \o rest : rest \in R}
  <2>1. q \in F(k) <=> q \in UNION {After(v) : v \in M}
    BY Zenon DEF Followed, M, R
  <2>2. \A v : q \in After(v) <=> \E rest \in R : q = <<v>> \o rest
    OBVIOUS
  <2> HIDE DEF After
  <2>3. q \in F(k) <=> \E v \in M : \E rest \in R : q = <<v>> \o rest
    BY <2>1, <2>2
  <2> QED
    BY <2>3, Zenon DEF M, R
<1> HIDE DEF F
<1>3. a = b => a + 2 .. b = {}
  BY <1>0
<1>4. Heads(s, strict, a, b, q) <=> \E k \in a + 2 .. b : q \in F(k)
  BY <1>2 DEF Heads
<1>5. q \in UNION {F(k) : k \in a + 2 .. b} <=> \E k \in a + 2 .. b : q \in F(k)
  OBVIOUS
<1>6. CASE a = b
  <2>1. ~Heads(s, strict, a, b, q)
    BY <1>3, <1>4, <1>6
  <2> QED
    BY <1>1, <1>6, <2>1
<1>7. CASE a # b
  BY <1>1, <1>4, <1>5, <1>7
<1> QED
  BY <1>6, <1>7

Opening == Digit \cup {"i", "l", "d"}

(* An encoding is of at least two bytes and begins as one does.             *)
LEMMA Starts ==
    ASSUME NEW s \in Seq(Byte), NEW strict, NEW p \in 0 .. Len(s), NEW e \in 0 .. Len(s),
           NEW v \in Meant(s, strict, p, e)
    PROVE  /\ p + 2 <= e /\ p + 1 \in 1 .. Len(s) /\ s[p + 1] \in Opening
           /\ v \in Element(s, Runs(s, strict, p + 1, e - 1), p, e, strict)
<1>0. Len(s) \in Nat
  OBVIOUS
<1>1. ~(e - p < 2) /\ v \in Element(s, Runs(s, strict, p + 1, e - 1), p, e, strict)
  BY DEF Meant, Encoded, Runs
<1>2. s[p + 1] \in Opening
  BY <1>1 DEF Element, Opening
<1> QED
  BY <1>0, <1>1, <1>2

LEMMA OpeningIsNot == "e" \notin Opening /\ ":" \notin Opening /\ "+" \notin Opening
  BY DEF Opening, Digit, DigitChars

LEMMA Kinds ==
    /\ "i" \notin Digit /\ "l" \notin Digit /\ "d" \notin Digit /\ "e" \notin Digit
    /\ ":" \notin Digit /\ "+" \notin Digit /\ "-" \notin Digit
  BY DEF Digit, DigitChars

(* The values that can occur in s.                                          *)
Values(s, strict) == UNION {Meant(s, strict, x[1], x[2]) : x \in Spans(s)}

LEMMA ValueOf ==
    ASSUME NEW s \in Seq(Byte), NEW strict, NEW p \in 0 .. Len(s), NEW e \in 0 .. Len(s)
    PROVE  Meant(s, strict, p, e) \subseteq Values(s, strict)
<1>1. <<p, e>> \in Spans(s) /\ <<p, e>>[1] = p /\ <<p, e>>[2] = e
  BY DEF Spans
<1> QED
  BY <1>1 DEF Values

LEMMA Conses ==
    ASSUME NEW V, NEW v \in V, NEW r \in Seq(V)
    PROVE  /\ <<v>> \o r \in Seq(V) /\ Len(<<v>> \o r) = 1 + Len(r) /\ (<<v>> \o r)[1] = v
           /\ \A i \in 1 .. Len(r) : (<<v>> \o r)[1 + i] = r[i]
           /\ Tail(<<v>> \o r) = r
<1>1. <<v>> \in Seq(V) /\ Len(<<v>>) = 1
  OBVIOUS
<1>2. /\ <<v>> \o r \in Seq(V) /\ Len(<<v>> \o r) = 1 + Len(r) /\ (<<v>> \o r)[1] = v
      /\ \A i \in 1 .. Len(r) : (<<v>> \o r)[1 + i] = r[i]
  BY <1>1
<1> DEFINE c == <<v>> \o r
<1> HIDE DEF c
<1>3. c \in Seq(V) /\ Len(c) = 1 + Len(r) /\ \A i \in 1 .. Len(r) : c[1 + i] = r[i]
  BY <1>2 DEF c
<1>4. Len(r) \in Nat /\ c # <<>>
  BY <1>3
<1>5. Tail(c) \in Seq(V) /\ Len(Tail(c)) = Len(r) /\ \A i \in 1 .. Len(r) : Tail(c)[i] = c[i + 1]
  BY <1>3, <1>4
<1>6. Tail(c) = r
  BY <1>3, <1>4, <1>5
<1> QED
  BY <1>2, <1>6 DEF c

LEMMA ItemsTyped ==
    ASSUME NEW s \in Seq(Byte), NEW strict
    PROVE  \A a, b \in 0 .. Len(s) : Runs(s, strict, a, b) \subseteq Seq(Values(s, strict))
<1> DEFINE n == Len(s)
           V == Values(s, strict)
           T == {k \in 0 .. n : \A a, b \in 0 .. n : b - a <= k =>
                         Runs(s, strict, a, b) \subseteq Seq(V)}
<1>0. n \in Nat
  OBVIOUS
<1> HIDE DEF V
<1>1. ASSUME NEW k \in Nat, NEW a \in 0 .. n, NEW b \in 0 .. n, b - a <= k,
             \A c \in 0 .. n : b - c < k => Runs(s, strict, c, b) \subseteq Seq(V),
             NEW q \in Runs(s, strict, a, b)
      PROVE  q \in Seq(V)
  <2>1. CASE q = <<>>
    BY <2>1
  <2>2. CASE Heads(s, strict, a, b, q)
    <3>0. PICK j \in a + 2 .. b : \E v \in Meant(s, strict, a, j) :
                  \E rest \in Runs(s, strict, j, b) :
            q = <<v>> \o rest
      BY <2>2 DEF Heads
    <3>1. PICK v \in Meant(s, strict, a, j), rest \in Runs(s, strict, j, b) : q = <<v>> \o rest
      BY <3>0
    <3>2. j \in 0 .. n /\ b - j < k
      BY <1>0, <1>1
    <3>3. v \in V
      BY <3>2, ValueOf DEF V
    <3>4. rest \in Seq(V)
      BY <1>1, <3>2
    <3> QED
      BY <3>1, <3>3, <3>4, Conses
  <2> QED
    BY <2>1, <2>2, CutUp
<1>2. 0 \in T
  <2>1. ASSUME NEW a \in 0 .. n, NEW b \in 0 .. n, b - a <= 0, NEW q \in Runs(s, strict, a, b)
        PROVE  q \in Seq(V)
    <3>1. a + 2 .. b = {}
      BY <1>0, <2>1
    <3>2. ~Heads(s, strict, a, b, q)
      BY <3>1 DEF Heads
    <3>3. q = <<>>
      BY <2>1, <3>2, CutUp
    <3> QED
      BY <3>3
  <2> QED
    BY <1>0, <2>1
<1>3. ASSUME NEW k \in 0 .. n - 1, k \in T PROVE k + 1 \in T
  <2>1. k + 1 \in Nat /\ k + 1 \in 0 .. n
    BY <1>0
  <2>2. ASSUME NEW a \in 0 .. n, NEW b \in 0 .. n, b - a <= k + 1, NEW q \in Runs(s, strict, a, b)
        PROVE  q \in Seq(V)
    <3>1. \A c \in 0 .. n : b - c < k + 1 => Runs(s, strict, c, b) \subseteq Seq(V)
      BY <1>0, <1>3
    <3> QED
      BY <1>1, <2>1, <2>2, <3>1
  <2> QED
    BY <2>1, <2>2
<1>4. 0 .. n \subseteq T
  <2> HIDE DEF T, n
  <2> QED
    BY <1>0, <1>2, <1>3, UpTo
<1>5. n \in T
  BY <1>0, <1>4
<1>6. \A a, b \in 0 .. n : b - a <= n
  BY <1>0
<1>7. \A a, b \in 0 .. n : Runs(s, strict, a, b) \subseteq Seq(V)
  BY <1>5, <1>6
<1> QED
  BY <1>7 DEF V

(* The text of a number is of digits, after a sign perhaps, and it is the    *)
(* text of one number.                                                      *)
LEMMA NumberText ==
    ASSUME NEW t \in Seq(Byte), NEW R, NEW x \in Unsigned(t, R) \cup Signed(t, R)
    PROVE  \A i \in DOMAIN t : t[i] \in Digit \cup {"+", "-"}
<1>1. Len(t) \in Nat /\ DOMAIN t = 1 .. Len(t)
  OBVIOUS
<1>2. ASSUME IsDigits(t) PROVE \A i \in DOMAIN t : t[i] \in Digit
  BY <1>2 DEF IsDigits
<1>3. ASSUME IsDigits(Tail(t)), t # <<>> PROVE \A i \in 2 .. Len(t) : t[i] \in Digit
  <2>1. DOMAIN Tail(t) = 1 .. Len(t) - 1 /\ \A i \in 1 .. Len(t) - 1 : Tail(t)[i] = t[i + 1]
    BY <1>3
  <2>2. ASSUME NEW i \in 2 .. Len(t) PROVE t[i] \in Digit
    <3>1. i - 1 \in 1 .. Len(t) - 1 /\ (i - 1) + 1 = i
      BY <1>1
    <3> QED
      BY <1>3, <2>1, <3>1 DEF IsDigits
  <2> QED
    BY <2>2
<1>4. \/ IsDigits(t)
      \/ t # <<>> /\ t[1] \in {"+", "-"} /\ IsDigits(Tail(t))
  BY DEF Unsigned, Signed
<1>5. CASE t # <<>> /\ t[1] \in {"+", "-"} /\ IsDigits(Tail(t))
  BY <1>1, <1>3, <1>5
<1> QED
  BY <1>2, <1>4, <1>5

LEMMA TextOfNumber ==
    ASSUME NEW s \in Seq(Byte), NEW p \in Nat, NEW q \in Nat, p <= q, q <= Len(s), NEW R,
           NEW x \in Unsigned(SubSeq(s, p + 1, q), R) \cup Signed(SubSeq(s, p + 1, q), R)
    PROVE  \A j \in p + 1 .. q : s[j] # ":" /\ s[j] # "e"
<1> DEFINE n == q - p
           t == SubSeq(s, p + 1, p + n)
<1>1. n \in Nat /\ p + n = q
  OBVIOUS
<1> HIDE DEF n
<1>2. Stretches(SubSeq(s, p + 1, p + n), Byte, s, p, n)
  BY ONLY <1>1, p \in Nat, s \in Seq(Byte), q <= Len(s), Stretch
<1>3. t \in Seq(Byte) /\ Len(t) = n /\ \A i \in 1 .. n : t[i] = s[p + i]
  BY <1>2 DEF Stretches
<1>4. x \in Unsigned(t, R) \cup Signed(t, R)
  BY <1>1
<1> HIDE DEF t
<1>5. \A i \in DOMAIN t : t[i] \in Digit \cup {"+", "-"}
  BY <1>3, <1>4, NumberText
<1>6. ASSUME NEW j \in p + 1 .. q PROVE s[j] # ":" /\ s[j] # "e"
  <2>1. j - p \in 1 .. n /\ p + (j - p) = j
    BY <1>1
  <2>2. s[j] \in Digit \cup {"+", "-"}
    <3> DEFINE i == j - p
    <3>1. i \in 1 .. n /\ i \in DOMAIN t /\ p + i = j
      BY <1>3, <2>1
    <3> HIDE DEF i
    <3> QED
      BY <1>3, <1>5, <3>1
  <2> QED
    BY <2>2, Kinds
<1> QED
  BY <1>6

LEMMA OneNumber ==
    ASSUME NEW t, NEW R
    PROVE  /\ \A x, y \in Unsigned(t, R) : x = y
           /\ \A x, y \in Signed(t, R) : x = y
  BY DEF Unsigned, Signed, Only

(* What begins with a digit is a byte string: its length ends at the first   *)
(* colon.                                                                   *)
IsString(s, p, e, k, v) ==
    /\ k \in p + 2 .. e /\ s[k] = ":" /\ \A j \in p + 1 .. k - 1 : s[j] # ":"
    /\ e - k \in Unsigned(SubSeq(s, p + 1, k - 1), Lengths)
    /\ v = [bytes |-> SubSeq(s, k + 1, e)]

LEMMA StringOf ==
    ASSUME NEW s \in Seq(Byte), NEW strict, NEW p \in 0 .. Len(s), NEW e \in 0 .. Len(s),
           NEW v \in Meant(s, strict, p, e), s[p + 1] \in Digit
    PROVE  \E k : IsString(s, p, e, k, v)
<1>0. Len(s) \in Nat
  OBVIOUS
<1>1. v \in Element(s, Runs(s, strict, p + 1, e - 1), p, e, strict)
  BY Starts
<1>2. PICK k \in p + 2 .. e : /\ s[k] = ":" /\ e - k \in Unsigned(SubSeq(s, p + 1, k - 1), Lengths)
                              /\ v = [bytes |-> SubSeq(s, k + 1, e)]
  BY <1>1 DEF Element
<1>3. k - 1 \in Nat /\ p \in Nat /\ p <= k - 1 /\ k - 1 <= Len(s)
  BY <1>0
<1>4. e - k \in Unsigned(SubSeq(s, p + 1, k - 1), Lengths)
              \cup Signed(SubSeq(s, p + 1, k - 1), Lengths)
  BY <1>2
<1>5. \A j \in p + 1 .. k - 1 : s[j] # ":" /\ s[j] # "e"
  <2> DEFINE q == k - 1
             x == e - k
  <2>1. q \in Nat /\ p <= q /\ q <= Len(s)
    BY <1>3
  <2>2. x \in Unsigned(SubSeq(s, p + 1, q), Lengths) \cup Signed(SubSeq(s, p + 1, q), Lengths)
    BY <1>4
  <2> HIDE DEF q, x
  <2>3. \A j \in p + 1 .. q : s[j] # ":" /\ s[j] # "e"
    BY ONLY <2>1, <2>2, <1>3, s \in Seq(Byte), TextOfNumber
  <2> QED
    BY <2>3 DEF q
<1> QED
  BY <1>2, <1>5 DEF IsString

(* What begins with an "i" is an integer: its text ends at the first "e".    *)
IsInteger(s, p, e, v) ==
    /\ p + 2 <= e /\ s[e] = "e" /\ \A j \in p + 2 .. e - 1 : s[j] # "e"
    /\ \E n \in Signed(SubSeq(s, p + 2, e - 1), Integers64) : v = [int |-> n]

LEMMA IntegerOf ==
    ASSUME NEW s \in Seq(Byte), NEW strict, NEW p \in 0 .. Len(s), NEW e \in 0 .. Len(s),
           NEW v \in Meant(s, strict, p, e), s[p + 1] = "i"
    PROVE  IsInteger(s, p, e, v)
<1>0. Len(s) \in Nat
  OBVIOUS
<1>1. v \in Element(s, Runs(s, strict, p + 1, e - 1), p, e, strict) /\ p + 2 <= e
  BY Starts
<1>2. s[e] = "e" /\ \E n \in Signed(SubSeq(s, p + 2, e - 1), Integers64) : v = [int |-> n]
  BY <1>1, Kinds DEF Element
<1>3. \A j \in p + 2 .. e - 1 : s[j] # ":" /\ s[j] # "e"
  <2> DEFINE q == e - 1
             r == p + 1
  <2>1. q \in Nat /\ r \in Nat /\ r <= q /\ q <= Len(s) /\ r + 1 = p + 2
    BY <1>0, <1>1
  <2>2. \E x : x \in Unsigned(SubSeq(s, r + 1, q), Integers64)
                \cup Signed(SubSeq(s, r + 1, q), Integers64)
    BY <1>2, <2>1
  <2> HIDE DEF q, r
  <2>3. \A j \in r + 1 .. q : s[j] # ":" /\ s[j] # "e"
    BY ONLY <2>1, <2>2, s \in Seq(Byte), TextOfNumber
  <2> QED
    BY <2>1, <2>3 DEF q
<1> QED
  BY <1>1, <1>2, <1>3 DEF IsInteger

(* What begins with an "l" or a "d" is a list or a dictionary.                *)
IsOpened(s, strict, p, e, got, v) ==
    /\ p + 2 <= e /\ s[e] = "e" /\ got \in Runs(s, strict, p + 1, e - 1)
    /\ s[p + 1] = "l" => v = [list |-> got]
    /\ s[p + 1] = "d" => v = [dict |-> Dictionary(got)] /\ Entries(got)

LEMMA OpenedOf ==
    ASSUME NEW s \in Seq(Byte), NEW strict, NEW p \in 0 .. Len(s), NEW e \in 0 .. Len(s),
           NEW v \in Meant(s, strict, p, e), s[p + 1] \in {"l", "d"}
    PROVE  \E got : IsOpened(s, strict, p, e, got, v)
<1>1. v \in Element(s, Runs(s, strict, p + 1, e - 1), p, e, strict) /\ p + 2 <= e
  BY Starts
<1> DEFINE items == Runs(s, strict, p + 1, e - 1)
<1> HIDE DEF items
<1>2. s[e] = "e" /\ \E got \in items : /\ s[p + 1] = "l" => v = [list |-> got]
                                       /\ s[p + 1] = "d" => v = [dict |-> Dictionary(got)]
                                                     /\ Entries(got)
  <2>1. v \in Element(s, items, p, e, strict) /\ s[p + 1] \notin Digit /\ s[p + 1] # "i"
    BY <1>1, Kinds DEF items
  <2>2. CASE s[p + 1] = "l"
    BY <2>1, <2>2 DEF Element
  <2>3. CASE s[p + 1] = "d"
    BY <2>1, <2>3 DEF Element
  <2> QED
    BY <2>2, <2>3
<1> QED
  BY <1>1, <1>2 DEF IsOpened, items

-----------------------------------------------------------------------------
(* No string of bytes has two meanings. *)

(* What of at most n bytes begins at p is encoded there in one way.          *)
Single(s, strict, n) ==
    \A p, e1, e2 \in 0 .. Len(s) : e1 - p <= n =>
      \A v1 \in Meant(s, strict, p, e1), v2 \in Meant(s, strict, p, e2) : e1 = e2 /\ v1 = v2

(* A sequence that is followed by an "e" goes on after each that begins      *)
(* where it does.                                                           *)
GoesOn(s, strict, m, e, got, q) == \E r \in Runs(s, strict, m, e) : q = got \o r

Extends(s, strict, n) ==
    \A a, m, e \in 0 .. Len(s) : m - a <= n /\ e < Len(s) /\ s[e + 1] = "e" =>
      \A got \in Runs(s, strict, a, m), q \in Runs(s, strict, a, e) :
                    GoesOn(s, strict, m, e, got, q)

(* One value after the other.                                               *)
LEMMA ConsConcat ==
    ASSUME NEW V, NEW v \in V, NEW r \in Seq(V), NEW t \in Seq(V)
    PROVE  /\ (<<v>> \o r) \o t = <<v>> \o (r \o t)
           /\ <<>> \o t = t
<1>1. <<v>> \in Seq(V)
  OBVIOUS
<1> QED
  BY <1>1, ConcatAssociative, ConcatEmptySeq

LEMMA ExtendsMore ==
    ASSUME NEW s \in Seq(Byte), NEW strict, NEW n \in 0 .. Len(s), Single(s, strict, n),
           NEW k \in Nat, k < n, Extends(s, strict, k)
    PROVE  Extends(s, strict, k + 1)
<1> DEFINE V == Values(s, strict)
<1>0. Len(s) \in Nat
  OBVIOUS
<1> SUFFICES ASSUME NEW a \in 0 .. Len(s), NEW m \in 0 .. Len(s), NEW e \in 0 .. Len(s),
                    m - a <= k + 1, e < Len(s), s[e + 1] = "e",
                    NEW got \in Runs(s, strict, a, m), NEW q \in Runs(s, strict, a, e)
             PROVE  GoesOn(s, strict, m, e, got, q)
  BY DEF Extends
<1> HIDE DEF V
<1>1. got \in Seq(V) /\ q \in Seq(V)
  BY ItemsTyped DEF V
<1>2. CASE a = m /\ got = <<>>
  <2>1. <<>> \o q = q
    BY <1>1, ConcatEmptySeq
  <2> QED
    BY <1>2, <2>1 DEF GoesOn
<1>3. CASE Heads(s, strict, a, m, got)
  <2>0. PICK c \in a + 2 .. m : \E v \in Meant(s, strict, a, c) :
                \E rest \in Runs(s, strict, c, m) :
          got = <<v>> \o rest
    BY <1>3 DEF Heads
  <2>1. PICK v \in Meant(s, strict, a, c), rest \in Runs(s, strict, c, m) : got = <<v>> \o rest
    BY <2>0
  <2>2. c \in 0 .. Len(s) /\ m - c <= k /\ c - a <= n
    BY <1>0
  <2>3. s[a + 1] \in Opening
    BY <2>2, Starts
  <2>4. a # e
    BY <2>3, OpeningIsNot
  <2>5. Heads(s, strict, a, e, q)
    BY <2>4, CutUp
  <2>6. PICK c2 \in a + 2 .. e : \E v2 \in Meant(s, strict, a, c2) :
                \E r2 \in Runs(s, strict, c2, e) :
          q = <<v2>> \o r2
    BY <2>5 DEF Heads
  <2>7. PICK v2 \in Meant(s, strict, a, c2), r2 \in Runs(s, strict, c2, e) : q = <<v2>> \o r2
    BY <2>6
  <2>8. c2 \in 0 .. Len(s)
    BY <1>0
  <2>9. c = c2 /\ v = v2
    BY <2>2, <2>8 DEF Single
  <2>10. GoesOn(s, strict, m, e, rest, r2)
    BY <2>2, <2>9 DEF Extends
  <2>11. PICK r \in Runs(s, strict, m, e) : r2 = rest \o r
    BY <2>10 DEF GoesOn
  <2>12. v \in V /\ rest \in Seq(V) /\ r \in Seq(V)
    BY <2>2, ValueOf, ItemsTyped DEF V
  <2>13. (<<v>> \o rest) \o r = <<v>> \o (rest \o r)
    BY ONLY <2>12, ConsConcat
  <2>14. q = <<v>> \o (rest \o r)
    BY <2>7, <2>9, <2>11
  <2>15. q = got \o r
    BY <2>1, <2>13, <2>14
  <2> QED
    BY <2>15 DEF GoesOn
<1> QED
  BY <1>2, <1>3, CutUp

LEMMA ExtendsNone ==
    ASSUME NEW s \in Seq(Byte), NEW strict
    PROVE  Extends(s, strict, 0)
<1>0. Len(s) \in Nat
  OBVIOUS
<1> SUFFICES ASSUME NEW a \in 0 .. Len(s), NEW m \in 0 .. Len(s), NEW e \in 0 .. Len(s),
                    m - a <= 0, NEW got \in Runs(s, strict, a, m), NEW q \in Runs(s, strict, a, e)
             PROVE  GoesOn(s, strict, m, e, got, q)
  BY DEF Extends
<1>1. a + 2 .. m = {}
  BY <1>0
<1>5. ~Heads(s, strict, a, m, got)
  BY <1>1 DEF Heads
<1>2. a = m /\ got = <<>>
  BY <1>5, CutUp
<1>3. q \in Seq(Values(s, strict))
  BY ItemsTyped
<1>4. <<>> \o q = q
  BY <1>3, ConcatEmptySeq
<1> QED
  BY <1>2, <1>4 DEF GoesOn

LEMMA ExtendsSingle ==
    ASSUME NEW s \in Seq(Byte), NEW strict, NEW n \in 0 .. Len(s), Single(s, strict, n)
    PROVE  Extends(s, strict, n)
<1> DEFINE T == {k \in 0 .. n : Extends(s, strict, k)}
<1>0. n \in Nat
  OBVIOUS
<1>1. 0 \in T
  BY ExtendsNone
<1>2. ASSUME NEW k \in 0 .. n - 1, k \in T PROVE k + 1 \in T
  <2>1. k \in Nat /\ k < n /\ k + 1 \in 0 .. n
    OBVIOUS
  <2> QED
    BY <1>2, <2>1, ExtendsMore
<1>3. 0 .. n \subseteq T
  <2> HIDE DEF T
  <2> QED
    BY <1>0, <1>1, <1>2, UpTo
<1> QED
  BY <1>3

(* Two sequences that begin in one place and are followed by an "e".         *)
LEMMA OneSequence ==
    ASSUME NEW s \in Seq(Byte), NEW strict, NEW n \in Nat, Extends(s, strict, n),
           NEW a \in 0 .. Len(s), NEW m \in 0 .. Len(s), NEW e \in 0 .. Len(s), m - a <= n,
           m < Len(s), e < Len(s), s[m + 1] = "e", s[e + 1] = "e",
           NEW got \in Runs(s, strict, a, m), NEW q \in Runs(s, strict, a, e)
    PROVE  m = e /\ got = q
<1>1. GoesOn(s, strict, m, e, got, q)
  BY DEF Extends
<1>2. PICK r \in Runs(s, strict, m, e) : q = got \o r
  BY <1>1 DEF GoesOn
<1>3. ~Heads(s, strict, m, e, r)
  <2>1. ASSUME NEW k \in m + 2 .. e, NEW v \in Meant(s, strict, m, k) PROVE FALSE
    <3>1. k \in 0 .. Len(s)
      OBVIOUS
    <3>2. s[m + 1] \in Opening
      BY <3>1, Starts
    <3> QED
      BY <3>2, OpeningIsNot
  <2> QED
    BY <2>1 DEF Heads
<1>4. m = e /\ r = <<>>
  BY <1>3, CutUp
<1>5. got \in Seq(Values(s, strict))
  BY ItemsTyped
<1> QED
  BY <1>2, <1>4, <1>5, ConcatEmptySeq

(* Two strings, integers, lists or dictionaries that begin in one place.     *)
LEMMA OneString ==
    ASSUME NEW s \in Seq(Byte), NEW p \in 0 .. Len(s), NEW e1 \in 0 .. Len(s),
           NEW e2 \in 0 .. Len(s), NEW v1, NEW v2, NEW k1, NEW k2,
           IsString(s, p, e1, k1, v1), IsString(s, p, e2, k2, v2)
    PROVE  e1 = e2 /\ v1 = v2
<1>1. k1 \in p + 2 .. e1 /\ k2 \in p + 2 .. e2 /\ p \in Nat
  BY DEF IsString
<1>2. ~(k1 < k2) /\ ~(k2 < k1)
  <2>1. /\ s[k1] = ":" /\ \A j \in p + 1 .. k1 - 1 : s[j] # ":"
        /\ s[k2] = ":" /\ \A j \in p + 1 .. k2 - 1 : s[j] # ":"
    BY DEF IsString
  <2> QED
    BY ONLY <1>1, <2>1
<1>3. k1 = k2
  BY <1>1, <1>2
<1>4. e1 - k1 = e2 - k1
  BY <1>3, OneNumber DEF IsString
<1>5. e1 = e2
  BY <1>1, <1>4
<1> QED
  BY <1>3, <1>5 DEF IsString

LEMMA OneInteger ==
    ASSUME NEW s \in Seq(Byte), NEW p \in 0 .. Len(s), NEW e1 \in 0 .. Len(s),
           NEW e2 \in 0 .. Len(s), NEW v1, NEW v2,
           IsInteger(s, p, e1, v1), IsInteger(s, p, e2, v2)
    PROVE  e1 = e2 /\ v1 = v2
<1>1. ~(e1 < e2) /\ ~(e2 < e1)
  <2>1. /\ s[e1] = "e" /\ p + 2 <= e1 /\ \A j \in p + 2 .. e1 - 1 : s[j] # "e"
        /\ s[e2] = "e" /\ p + 2 <= e2 /\ \A j \in p + 2 .. e2 - 1 : s[j] # "e"
    BY DEF IsInteger
  <2>2. p \in Nat /\ e1 \in Nat /\ e2 \in Nat
    OBVIOUS
  <2> QED
    BY ONLY <2>1, <2>2
<1>2. e1 = e2
  BY <1>1
<1> QED
  BY <1>2, OneNumber DEF IsInteger

LEMMA OneOpened ==
    ASSUME NEW s \in Seq(Byte), NEW strict, NEW n \in Nat, Extends(s, strict, n),
           NEW p \in 0 .. Len(s), NEW e1 \in 0 .. Len(s), NEW e2 \in 0 .. Len(s),
           e1 - p <= n + 1, NEW v1, NEW v2, NEW g1, NEW g2, s[p + 1] \in {"l", "d"},
           IsOpened(s, strict, p, e1, g1, v1), IsOpened(s, strict, p, e2, g2, v2)
    PROVE  e1 = e2 /\ v1 = v2
<1> DEFINE a == p + 1
           m == e1 - 1
           e == e2 - 1
<1>1. p + 2 <= e1 /\ p + 2 <= e2 /\ Len(s) \in Nat
  BY DEF IsOpened
<1>2. /\ a \in 0 .. Len(s) /\ m \in 0 .. Len(s) /\ e \in 0 .. Len(s) /\ m - a <= n
      /\ m < Len(s) /\ e < Len(s)
  BY <1>1
<1>3. s[m + 1] = "e" /\ s[e + 1] = "e"
  BY <1>1 DEF IsOpened
<1>4. g1 \in Runs(s, strict, a, m) /\ g2 \in Runs(s, strict, a, e)
  BY DEF IsOpened
<1> HIDE DEF a, m, e
<1>5. m = e /\ g1 = g2
  BY ONLY s \in Seq(Byte), n \in Nat, Extends(s, strict, n), <1>2, <1>3, <1>4, OneSequence
<1>6. e1 = e2
  BY <1>1, <1>5 DEF m, e
<1>7. CASE s[p + 1] = "l"
  BY <1>5, <1>6, <1>7 DEF IsOpened
<1>8. CASE s[p + 1] = "d"
  BY <1>5, <1>6, <1>8 DEF IsOpened
<1> QED
  BY <1>7, <1>8

LEMMA SingleMore ==
    ASSUME NEW s \in Seq(Byte), NEW strict, NEW n \in 0 .. Len(s), Single(s, strict, n)
    PROVE  Single(s, strict, n + 1)
<1>0. Len(s) \in Nat /\ n \in Nat /\ Extends(s, strict, n)
  BY ExtendsSingle
<1> SUFFICES ASSUME NEW p \in 0 .. Len(s), NEW e1 \in 0 .. Len(s), NEW e2 \in 0 .. Len(s),
                    e1 - p <= n + 1,
                    NEW v1 \in Meant(s, strict, p, e1), NEW v2 \in Meant(s, strict, p, e2)
             PROVE  e1 = e2 /\ v1 = v2
  BY DEF Single
<1>1. s[p + 1] \in Opening
  BY Starts
<1>2. CASE s[p + 1] \in Digit
  <2>1. PICK k1 : IsString(s, p, e1, k1, v1)
    BY <1>2, StringOf
  <2>2. PICK k2 : IsString(s, p, e2, k2, v2)
    BY <1>2, StringOf
  <2> QED
    BY <2>1, <2>2, OneString
<1>3. CASE s[p + 1] = "i"
  BY <1>3, IntegerOf, OneInteger
<1>4. CASE s[p + 1] \in {"l", "d"}
  <2>1. PICK g1 : IsOpened(s, strict, p, e1, g1, v1)
    BY <1>4, OpenedOf
  <2>2. PICK g2 : IsOpened(s, strict, p, e2, g2, v2)
    BY <1>4, OpenedOf
  <2> QED
    BY <1>0, <1>4, <2>1, <2>2, OneOpened
<1> QED
  BY <1>1, <1>2, <1>3, <1>4 DEF Opening

(* Bytes that begin an encoding begin one only, and it means one value.      *)
LEMMA Unambiguous ==
    ASSUME NEW s \in Seq(Byte), NEW strict
    PROVE  Single(s, strict, Len(s)) /\ Extends(s, strict, Len(s))
<1> DEFINE n == Len(s)
           T == {k \in 0 .. n : Single(s, strict, k)}
<1>0. n \in Nat
  OBVIOUS
<1>1. 0 \in T
  <2>1. \A p, e \in 0 .. n : e - p <= 0 => Meant(s, strict, p, e) = {}
    <3>1. ASSUME NEW p \in 0 .. n, NEW e \in 0 .. n, e - p <= 0, NEW v \in Meant(s, strict, p, e)
          PROVE  FALSE
      <4>1. p + 2 <= e
        BY Starts
      <4> QED
        BY <3>1, <4>1
    <3> QED
      BY <3>1
  <2>2. Single(s, strict, 0)
    BY <2>1 DEF Single
  <2> QED
    BY <1>0, <2>2
<1>2. ASSUME NEW k \in 0 .. n - 1, k \in T PROVE k + 1 \in T
  <2>1. k \in 0 .. n /\ k + 1 \in 0 .. n
    BY <1>0
  <2>2. Single(s, strict, k + 1)
    BY <1>2, <2>1, SingleMore
  <2> QED
    BY <2>1, <2>2
<1>3. 0 .. n \subseteq T
  <2> HIDE DEF T, n
  <2> QED
    BY <1>0, <1>1, <1>2, UpTo
<1>4. n \in 0 .. n /\ Single(s, strict, n)
  BY <1>0, <1>3
<1>5. Extends(s, strict, n)
  BY <1>4, ExtendsSingle
<1> QED
  BY <1>4, <1>5

-----------------------------------------------------------------------------
(* What the decoder puts together is what the grammar takes apart. *)

LEMMA Nothing ==
    ASSUME NEW s \in Seq(Byte), NEW strict, NEW a \in 0 .. Len(s)
    PROVE  <<>> \in Runs(s, strict, a, a)
  BY CutUp

LEMMA ConsAppend ==
    ASSUME NEW V, NEW v \in V, NEW r \in Seq(V), NEW w \in V
    PROVE  Append(<<v>> \o r, w) = <<v>> \o Append(r, w)
<1>1. <<v>> \in Seq(V)
  OBVIOUS
<1>2. /\ Append(r, w) = r \o <<w>> /\ r \o <<w>> \in Seq(V) /\ <<w>> \in Seq(V)
      /\ Append(<<v>> \o r, w) = (<<v>> \o r) \o <<w>>
  BY <1>1, AppendIsConcat, ConcatProperties
<1> QED
  BY <1>1, <1>2, ConcatAssociative

Appends(s, strict, m, e, a) ==
    \A got \in Runs(s, strict, a, m), v \in Meant(s, strict, m, e) :
      Append(got, v) \in Runs(s, strict, a, e)

LEMMA Appended ==
    ASSUME NEW s \in Seq(Byte), NEW strict, NEW m \in 0 .. Len(s), NEW e \in 0 .. Len(s),
           NEW a \in 0 .. Len(s)
    PROVE  Appends(s, strict, m, e, a)
<1> DEFINE n == Len(s)
           V == Values(s, strict)
           T == {k \in 0 .. n : \A b \in 0 .. n : m - b <= k => Appends(s, strict, m, e, b)}
<1>0. n \in Nat
  OBVIOUS
<1> HIDE DEF V
<1>1. ASSUME NEW b \in 0 .. n, NEW got \in Runs(s, strict, b, m), NEW v \in Meant(s, strict, m, e),
             \A c \in b + 2 .. m : Appends(s, strict, m, e, c)
      PROVE  Append(got, v) \in Runs(s, strict, b, e)
  <2>0. m + 2 <= e /\ v \in V
    BY Starts, ValueOf DEF V
  <2>1. CASE b = m /\ got = <<>>
    <3>0. Append(<<>>, v) = <<v>> /\ <<v>> \in Seq(V)
      BY <2>0
    <3>4. <<v>> \o <<>> = <<v>>
      BY ONLY <3>0, ConcatEmptySeq
    <3>5. <<>> \in Runs(s, strict, e, e)
      BY Nothing
    <3>1. Append(<<>>, v) = <<v>> \o <<>> /\ <<>> \in Runs(s, strict, e, e)
      BY <3>0, <3>4, <3>5
    <3>2. Heads(s, strict, m, e, <<v>> \o <<>>)
      BY <2>0, <3>1 DEF Heads
    <3>3. <<v>> \o <<>> \in Runs(s, strict, m, e)
      BY <3>2, CutUp
    <3> QED
      BY <2>1, <3>1, <3>3
  <2>2. CASE Heads(s, strict, b, m, got)
    <3>0. PICK c \in b + 2 .. m : \E u \in Meant(s, strict, b, c) :
                  \E rest \in Runs(s, strict, c, m) :
            got = <<u>> \o rest
      BY <2>2 DEF Heads
    <3>1. PICK u \in Meant(s, strict, b, c), rest \in Runs(s, strict, c, m) : got = <<u>> \o rest
      BY <3>0
    <3>2. c \in 0 .. n /\ c \in b + 2 .. e
      BY <2>0, <1>0
    <3>3. Append(rest, v) \in Runs(s, strict, c, e)
      BY <1>1 DEF Appends
    <3>4. u \in V /\ rest \in Seq(V)
      BY <3>2, ValueOf, ItemsTyped DEF V
    <3>8. Append(<<u>> \o rest, v) = <<u>> \o Append(rest, v)
      BY ONLY <2>0, <3>4, ConsAppend
    <3>5. Append(got, v) = <<u>> \o Append(rest, v)
      BY <3>1, <3>8, Zenon
    <3>6. Heads(s, strict, b, e, <<u>> \o Append(rest, v))
      BY <3>2, <3>3 DEF Heads
    <3>7. <<u>> \o Append(rest, v) \in Runs(s, strict, b, e)
      BY <3>6, CutUp
    <3> QED
      BY <3>5, <3>7
  <2> QED
    BY <2>1, <2>2, CutUp
<1>2. ASSUME NEW k \in Nat, NEW b \in 0 .. n, m - b <= k,
             \A c \in 0 .. n : m - c < k => Appends(s, strict, m, e, c)
      PROVE  Appends(s, strict, m, e, b)
  <2>1. \A c \in b + 2 .. m : Appends(s, strict, m, e, c)
    <3>1. ASSUME NEW c \in b + 2 .. m PROVE c \in 0 .. n /\ m - c < k
      BY <1>0, <1>2
    <3> QED
      BY <1>2, <3>1
  <2> QED
    BY <1>1, <2>1 DEF Appends
<1>3. 0 \in T
  <2>1. ASSUME NEW b \in 0 .. n, m - b <= 0 PROVE Appends(s, strict, m, e, b)
    <3>1. b + 2 .. m = {}
      BY <1>0, <2>1
    <3> QED
      BY <1>1, <3>1 DEF Appends
  <2> QED
    BY <1>0, <2>1
<1>4. ASSUME NEW k \in 0 .. n - 1, k \in T PROVE k + 1 \in T
  <2>1. k + 1 \in Nat /\ k + 1 \in 0 .. n
    BY <1>0
  <2>2. \A c \in 0 .. n : m - c < k + 1 => Appends(s, strict, m, e, c)
    BY <1>0, <1>4
  <2>3. \A b \in 0 .. n : m - b <= k + 1 => Appends(s, strict, m, e, b)
    BY <1>2, <2>1, <2>2
  <2> QED
    BY <2>1, <2>3
<1>5. 0 .. n \subseteq T
  <2> HIDE DEF T, n
  <2> QED
    BY <1>0, <1>3, <1>4, UpTo
<1>6. n \in T /\ m - a <= n
  BY <1>0, <1>5
<1> QED
  BY <1>6

LEMMA ElementIsOne ==
    ASSUME NEW s \in Seq(Byte), NEW strict, NEW p \in 0 .. Len(s), NEW e \in 0 .. Len(s),
           p + 2 <= e
    PROVE  Meant(s, strict, p, e) = Element(s, Runs(s, strict, p + 1, e - 1), p, e, strict)
<1>1. ~(e - p < 2)
  OBVIOUS
<1> QED
  BY <1>1 DEF Meant, Encoded, Runs

LEMMA StringIsOne ==
    ASSUME NEW s \in Seq(Byte), NEW strict, NEW p \in 0 .. Len(s), NEW e \in 0 .. Len(s),
           NEW k \in p + 2 .. e, s[p + 1] \in Digit, s[k] = ":",
           e - k \in Unsigned(SubSeq(s, p + 1, k - 1), Lengths)
    PROVE  [bytes |-> SubSeq(s, k + 1, e)] \in Meant(s, strict, p, e)
<1>1. Meant(s, strict, p, e) = Element(s, Runs(s, strict, p + 1, e - 1), p, e, strict)
  BY ElementIsOne
<1> QED
  BY <1>1 DEF Element

LEMMA IntegerIsOne ==
    ASSUME NEW s \in Seq(Byte), NEW strict, NEW p \in 0 .. Len(s), NEW e \in 0 .. Len(s),
           p + 2 <= e, s[p + 1] = "i", s[e] = "e",
           NEW n \in Signed(SubSeq(s, p + 2, e - 1), Integers64)
    PROVE  [int |-> n] \in Meant(s, strict, p, e)
<1>1. Meant(s, strict, p, e) = Element(s, Runs(s, strict, p + 1, e - 1), p, e, strict)
  BY ElementIsOne
<1> QED
  BY <1>1, Kinds DEF Element

LEMMA ListIsOne ==
    ASSUME NEW s \in Seq(Byte), NEW strict, NEW p \in 0 .. Len(s), NEW e \in 0 .. Len(s),
           p + 2 <= e, s[p + 1] = "l", s[e] = "e",
           NEW got \in Runs(s, strict, p + 1, e - 1)
    PROVE  [list |-> got] \in Meant(s, strict, p, e)
<1> DEFINE items == Runs(s, strict, p + 1, e - 1)
<1> HIDE DEF items
<1>1. Meant(s, strict, p, e) = Element(s, items, p, e, strict)
  BY ElementIsOne DEF items
<1>2. got \in items
  BY DEF items
<1> QED
  BY <1>1, <1>2, Kinds DEF Element

LEMMA DictIsOne ==
    ASSUME NEW s \in Seq(Byte), NEW p \in 0 .. Len(s), NEW e \in 0 .. Len(s),
           p + 2 <= e, s[p + 1] = "d", s[e] = "e",
           NEW got \in Runs(s, FALSE, p + 1, e - 1), Entries(got)
    PROVE  [dict |-> Dictionary(got)] \in Meant(s, FALSE, p, e)
<1> DEFINE items == Runs(s, FALSE, p + 1, e - 1)
<1> HIDE DEF items
<1>1. Meant(s, FALSE, p, e) = Element(s, items, p, e, FALSE)
  BY ElementIsOne DEF items
<1>2. got \in {g \in items : Entries(g) /\ (FALSE => Sorted(g))}
  BY DEF items
<1>3. Element(s, items, p, e, FALSE)
        = {[dict |-> Dictionary(g)] : g \in {g \in items : Entries(g) /\ (FALSE => Sorted(g))}}
  BY Kinds DEF Element
<1> QED
  BY <1>1, <1>2, <1>3

(* Of the entries with a key the code and the grammar take the last.         *)
LEMMA LastEntry ==
    ASSUME NEW V, NEW got \in Seq(V)
    PROVE  DictOf(got) = Dictionary(got)
<1> DEFINE keys == {got[i].bytes : i \in {j \in DOMAIN got : j % 2 = 1}}
           KeyAt(k) == {i \in DOMAIN got : i % 2 = 1 /\ got[i].bytes = k}
           IsLast(k, i) == \A j \in KeyAt(k) : j <= i
           IsEntry(k, i) == /\ i % 2 = 1 /\ got[i].bytes = k
                            /\ \A j \in i + 1 .. Len(got) : j % 2 = 1 => got[j].bytes # k
           Pick(k) == CHOOSE i \in KeyAt(k) : IsLast(k, i)
<1>0. Len(got) \in Nat /\ DOMAIN got = 1 .. Len(got)
  OBVIOUS
<1>1. ASSUME NEW k \in keys PROVE EntryOf(got, k) = Pick(k) /\ EntryOf(got, k) \in Nat
  <2> DEFINE K == KeyAt(k)
  <2>1. K # {} /\ K \subseteq 1 .. Len(got)
    BY <1>0
  <2>2. Max(K) \in K /\ \A j \in K : j <= Max(K)
    <3> HIDE DEF K
    <3> QED
      BY <1>0, <2>1, Greatest
  <2> DEFINE x == Max(K)
  <2> HIDE DEF x
  <2>3. x \in KeyAt(k) /\ IsLast(k, x)
    BY <2>2 DEF x
  <2>4. \A i \in KeyAt(k) : IsLast(k, i) => i = x
    BY <2>3, <1>0
  <2>5. Pick(k) = x
    <3> HIDE DEF KeyAt, IsLast
    <3> QED
      BY <2>3, <2>4
  <2>6. \A i \in DOMAIN got : IsEntry(k, i) <=> i \in KeyAt(k) /\ IsLast(k, i)
    <3>1. ASSUME NEW i \in DOMAIN got, IsEntry(k, i), NEW j \in KeyAt(k) PROVE j <= i
      <4>1. j \in 1 .. Len(got) /\ i \in 1 .. Len(got) /\ j \notin i + 1 .. Len(got)
        BY <1>0, <3>1
      <4> QED
        BY <1>0, <4>1
    <3>2. ASSUME NEW i \in KeyAt(k), IsLast(k, i), NEW j \in i + 1 .. Len(got), j % 2 = 1
          PROVE  got[j].bytes # k
      <4>1. i \in 1 .. Len(got) /\ j \in DOMAIN got /\ ~(j <= i)
        BY <1>0
      <4> QED
        BY <3>2, <4>1
    <3> QED
      BY <3>1, <3>2
  <2>7. EntryOf(got, k) = CHOOSE i \in DOMAIN got : IsEntry(k, i)
    BY DEF EntryOf
  <2>8. x \in DOMAIN got
    BY <2>3
  <2>9. EntryOf(got, k) = x
    <3> HIDE DEF KeyAt, IsLast, IsEntry
    <3> QED
      BY <2>3, <2>4, <2>6, <2>7, <2>8
  <2> QED
    BY <1>0, <2>5, <2>8, <2>9
<1>2. DictOf(got) = [k \in keys |-> got[EntryOf(got, k) + 1]]
  BY DEF DictOf
<1>3. Dictionary(got) = [k \in keys |-> got[1 + Pick(k)]]
  BY DEF Dictionary
<1>4. ASSUME NEW k \in keys PROVE EntryOf(got, k) + 1 = 1 + Pick(k)
  <2> DEFINE x == EntryOf(got, k)
  <2>1. Pick(k) = x /\ x \in Nat
    BY <1>1
  <2>2. x + 1 = 1 + x
    <3> HIDE DEF x
    <3> QED
      BY <2>1
  <2> QED
    BY <2>1, <2>2
<1> HIDE DEF keys, Pick
<1>5. [k \in keys |-> got[EntryOf(got, k) + 1]] = [k \in keys |-> got[1 + Pick(k)]]
  BY <1>4
<1> QED
  BY <1>2, <1>3, <1>5

-----------------------------------------------------------------------------
(* The decoder follows the grammar: the second inductive invariant. *)

Begins(s, p) == \E e \in 0 .. Len(s) : Meant(s, FALSE, p, e) # {}

(* There is an encoding for decode or decode_partial to find.               *)
Denoted == \E k \in 0 .. Len(data) : Meant(data, FALSE, 0, k) # {} /\ (whole => k = Len(data))

(* The values got so far are those of the bytes up to m.                    *)
ReachedBy(s, frames, m) ==
    IF frames = <<>> THEN m = 0
    ELSE frames[Len(frames)].got \in Runs(s, FALSE, frames[Len(frames)].at + 1, m)

Reached(m) == ReachedBy(data, stack, m)

(* What is read is the beginning of an encoding. *)
Nested ==
    /\ stack # <<>> => stack[1].at = 0
    /\ \A k \in 1 .. Len(stack) - 1 :
         stack[k].got \in Runs(data, FALSE, stack[k].at + 1, stack[k + 1].at)

Yielded == \E m \in 0 .. Len(data) : ret \in Meant(data, FALSE, m, pos) /\ Reached(m)

ReadSoFar ==
    /\ pc # "done" => Nested
    /\ pc \in {"value", "loop"} => Reached(pos)
    /\ pc = "return" => Yielded
    /\ outcome = "ok" => ret \in Meant(data, FALSE, 0, pos) /\ (whole => pos = Len(data))

(* Where there is an encoding, it is what is being read. *)
OnTheWay ==
    /\ pc # "done" => \A k \in DOMAIN stack : Begins(data, stack[k].at)
    /\ pc = "value" => Begins(data, pos)
    /\ pc = "done" => outcome = "ok"

GrammarInv ==
    /\ DecoderInv /\ Len(data) <= MaxLength
    /\ ReadSoFar /\ (Denoted => OnTheWay)

(* The scan stops at the first c. *)
LEMMA ScanIs ==
    ASSUME data \in Seq(Byte), NEW p \in Nat, NEW c, NEW q \in Nat, p <= q, q < Len(data),
           data[q + 1] = c, \A j \in p + 1 .. q : data[j] # c
    PROVE  Scan(p, c) = q
<1> DEFINE x == Scan(p, c)
<1>0. Len(data) \in Nat /\ p <= Len(data)
  OBVIOUS
<1>1. /\ x \in p .. Len(data) /\ (x = Len(data) \/ data[x + 1] = c)
      /\ \A r \in p .. x - 1 : data[r + 1] # c
  BY <1>0, ScanFinds
<1> HIDE DEF x
<1>2. ~(x < q)
  <2> SUFFICES ASSUME x < q PROVE FALSE
    OBVIOUS
  <2>1. x # Len(data) /\ x + 1 \in p + 1 .. q
    BY <1>0, <1>1
  <2> QED
    BY <1>1, <2>1
<1>3. ~(q < x)
  <2> SUFFICES ASSUME q < x PROVE FALSE
    OBVIOUS
  <2>1. q \in p .. x - 1
    BY <1>0, <1>1
  <2> QED
    BY <1>1, <2>1
<1>4. x = q
  BY <1>0, <1>1, <1>2, <1>3
<1> QED
  BY <1>4 DEF x

(* A leaf is returned when one is encoded at the cursor, and the reading     *)
(* fails when none is.                                                      *)
ReadsLeaf ==
    \/ \E e \in 0 .. Len(data) : \E v \in Meant(data, FALSE, pos, e) : Return(v, e)
    \/ \E o \in DecodeErrors \cup {"panic"} : Done(o) /\ ~Begins(data, pos)

LEMMA IntegerRead ==
    ASSUME data \in Seq(Byte), pos \in Nat, pos < Len(data), data[pos + 1] = "i", ParseInteger
    PROVE  ReadsLeaf
<1> DEFINE stop == Scan(pos + 1, "e")
           ns == Signed(SubSeq(data, pos + 2, stop), Integers64)
<1>0. Len(data) \in Nat /\ pos \in 0 .. Len(data) /\ pos + 1 \in Nat /\ pos + 1 <= Len(data)
  OBVIOUS
<1>1. /\ stop \in pos + 1 .. Len(data) /\ (stop = Len(data) \/ data[stop + 1] = "e")
      /\ \A r \in pos + 1 .. stop - 1 : data[r + 1] # "e"
  BY <1>0, ScanFinds
<1>2. Text(pos + 1, stop) = SubSeq(data, pos + 2, stop)
  <2>1. (pos + 1) + 1 = pos + 2
    OBVIOUS
  <2> QED
    BY <2>1 DEF Text
<1>3. IF ns = {} THEN Done("InvalidInteger")
      ELSE IF stop = Len(data) THEN Done("UnexpectedEof")
      ELSE \E n \in ns : Return([int |-> n], stop + 1)
  BY <1>2 DEF ParseInteger
<1>4. ASSUME Begins(data, pos) PROVE ns # {} /\ stop # Len(data)
  <2>1. PICK e \in 0 .. Len(data) : \E v : v \in Meant(data, FALSE, pos, e)
    BY <1>4 DEF Begins
  <2>a. PICK v : v \in Meant(data, FALSE, pos, e)
    BY <2>1
  <2>2. IsInteger(data, pos, e, v)
    BY <1>0, <2>a, IntegerOf
  <2> DEFINE p == pos + 1
             q == e - 1
  <2>3. /\ p \in Nat /\ q \in Nat /\ p <= q /\ q < Len(data) /\ data[q + 1] = "e"
        /\ p + 1 = pos + 2
    BY <1>0, <2>2 DEF IsInteger
  <2>4. \A j \in p + 1 .. q : data[j] # "e"
    BY <2>2, <2>3 DEF IsInteger
  <2> HIDE DEF p, q
  <2>5. Scan(p, "e") = q
    BY <2>3, <2>4, ScanIs
  <2>6. stop = q
    BY <2>5 DEF p
  <2>7. Signed(SubSeq(data, pos + 2, q), Integers64) # {}
    BY <2>2 DEF IsInteger, q
  <2> QED
    BY <2>3, <2>6, <2>7
<1>5. ASSUME ns # {}, stop # Len(data), NEW n \in ns, Return([int |-> n], stop + 1)
      PROVE  ReadsLeaf
  <2> DEFINE e == stop + 1
  <2>1. e \in 0 .. Len(data) /\ pos + 2 <= e /\ data[e] = "e" /\ e - 1 = stop
    BY <1>0, <1>1, <1>5
  <2> HIDE DEF e
  <2>2. n \in Signed(SubSeq(data, pos + 2, e - 1), Integers64)
    BY <2>1
  <2>3. [int |-> n] \in Meant(data, FALSE, pos, e)
    BY <1>0, <2>1, <2>2, IntegerIsOne
  <2>4. Return([int |-> n], e)
    BY <1>5 DEF e
  <2> QED
    BY <2>1, <2>3, <2>4 DEF ReadsLeaf
<1>6. CASE ns = {}
  BY <1>3, <1>4, <1>6 DEF ReadsLeaf, DecodeErrors
<1>7. CASE ns # {} /\ stop = Len(data)
  BY <1>3, <1>4, <1>7 DEF ReadsLeaf, DecodeErrors
<1>8. CASE ns # {} /\ stop # Len(data)
  <2>1. PICK n \in ns : Return([int |-> n], stop + 1)
    BY <1>3, <1>8
  <2> QED
    BY <1>5, <1>8, <2>1
<1> QED
  BY <1>6, <1>7, <1>8

LEMMA StringRead ==
    ASSUME data \in Seq(Byte), Len(data) <= MaxLength, pos \in Nat, pos < Len(data),
           data[pos + 1] \in Digit, ParseBytes
    PROVE  ReadsLeaf
<1> DEFINE stop == Scan(pos, ":")
           ns == Unsigned(SubSeq(data, pos + 1, stop), Lengths)
<1>0. Len(data) \in Nat /\ pos \in 0 .. Len(data) /\ pos <= Len(data) /\ MaxLength \in Nat
  BY InputsOK
<1>1. /\ stop \in pos .. Len(data) /\ (stop = Len(data) \/ data[stop + 1] = ":")
      /\ \A r \in pos .. stop - 1 : data[r + 1] # ":"
  BY <1>0, ScanFinds
<1>2. stop \in pos + 1 .. Len(data)
  <2>1. stop # pos
    BY <1>1, Kinds
  <2> QED
    BY <1>0, <1>1, <2>1
<1>3. IF ns = {} THEN Done("InvalidStringLength")
      ELSE IF stop = Len(data) THEN Done("UnexpectedEof")
      ELSE \E n \in ns :
             IF Overflows(stop + 1, n) THEN Done("panic")
             ELSE IF TooLong(stop + 1, n) THEN Done("UnexpectedEof")
             ELSE Return([bytes |-> Text(stop + 1, stop + 1 + n)], stop + 1 + n)
  BY DEF ParseBytes, Text
<1>4. ns \subseteq Nat
  BY NumberRange, InputsOK DEF Lengths
<1>5. ASSUME Begins(data, pos)
      PROVE  ns # {} /\ stop # Len(data) /\ \A n \in ns : stop + 1 + n <= Len(data)
  <2>1. PICK e \in 0 .. Len(data) : \E v : v \in Meant(data, FALSE, pos, e)
    BY <1>5 DEF Begins
  <2>a. PICK v : v \in Meant(data, FALSE, pos, e)
    BY <2>1
  <2>2. PICK k : IsString(data, pos, e, k, v)
    BY <1>0, <2>a, StringOf
  <2> DEFINE q == k - 1
  <2>3. k \in pos + 2 .. e
    BY <2>2 DEF IsString
  <2>4. q \in Nat /\ pos <= q /\ q < Len(data) /\ data[q + 1] = ":" /\ q + 1 = k
    BY <1>0, <2>2, <2>3 DEF IsString
  <2>5. \A j \in pos + 1 .. q : data[j] # ":"
    BY <2>2 DEF IsString
  <2>6. e - k \in Unsigned(SubSeq(data, pos + 1, q), Lengths)
    BY <2>2 DEF IsString
  <2> HIDE DEF q
  <2>7. stop = q
    BY <2>4, <2>5, ScanIs
  <2>8. \A n \in ns : n = e - k
    BY <2>6, <2>7, OneNumber
  <2>10. e - k \in ns
    BY <2>6, <2>7
  <2> HIDE DEF ns, stop
  <2>9. stop + 1 + (e - k) = e /\ stop # Len(data) /\ e <= Len(data)
    <3>1. e \in Nat /\ k \in Nat /\ e <= Len(data)
      BY <1>0, <2>3
    <3> QED
      BY ONLY <1>0, <2>4, <2>7, <3>1
  <2>11. \A n \in ns : stop + 1 + n = e
    BY <2>8, <2>9
  <2> QED
    BY <2>9, <2>10, <2>11
<1>6. ASSUME stop # Len(data), NEW n \in ns, ~TooLong(stop + 1, n),
             Return([bytes |-> Text(stop + 1, stop + 1 + n)], stop + 1 + n)
      PROVE  ReadsLeaf
  <2> DEFINE k == stop + 1
             e == stop + 1 + n
  <2>1. n \in Nat
    BY <1>4
  <2>6. data[k] = ":" /\ stop \in pos + 1 .. Len(data) /\ stop + 1 + n <= Len(data)
    <3>1. stop \in Nat
      BY <1>0, <1>2
    <3> QED
      BY <1>0, <1>1, <1>2, <1>6, <2>1, <3>1 DEF TooLong
  <2>2. /\ e \in 0 .. Len(data) /\ k \in pos + 2 .. e /\ data[k] = ":" /\ k - 1 = stop
        /\ e - k = n
    <3> HIDE DEF stop
    <3> QED
      BY <1>0, <2>1, <2>6
  <2>3. Return([bytes |-> SubSeq(data, k + 1, e)], e)
    BY <1>6 DEF Text
  <2>4. e - k \in Unsigned(SubSeq(data, pos + 1, k - 1), Lengths)
    BY <2>2
  <2> HIDE DEF k, e
  <2>5. [bytes |-> SubSeq(data, k + 1, e)] \in Meant(data, FALSE, pos, e)
    BY <1>0, <2>2, <2>4, StringIsOne
  <2> QED
    BY <2>2, <2>3, <2>5 DEF ReadsLeaf
<1>7. CASE ns = {}
  BY <1>3, <1>5, <1>7 DEF ReadsLeaf, DecodeErrors
<1>8. CASE ns # {} /\ stop = Len(data)
  BY <1>3, <1>5, <1>8 DEF ReadsLeaf, DecodeErrors
<1>9. CASE ns # {} /\ stop # Len(data)
  <2>1. PICK n \in ns :
             IF Overflows(stop + 1, n) THEN Done("panic")
             ELSE IF TooLong(stop + 1, n) THEN Done("UnexpectedEof")
             ELSE Return([bytes |-> Text(stop + 1, stop + 1 + n)], stop + 1 + n)
    BY <1>3, <1>9
  <2>2. n \in Nat /\ stop \in Nat
    BY <1>0, <1>2, <1>4
  <2>3. CASE Overflows(stop + 1, n)
    <3>1. ~(stop + 1 + n <= Len(data))
      BY <1>0, <2>2, <2>3 DEF Overflows
    <3> QED
      BY <1>5, <2>1, <2>3, <3>1 DEF ReadsLeaf
  <2>4. CASE ~Overflows(stop + 1, n) /\ TooLong(stop + 1, n)
    <3>1. ~(stop + 1 + n <= Len(data))
      BY <1>0, <2>2, <2>4 DEF TooLong
    <3> QED
      BY <1>5, <2>1, <2>4, <3>1 DEF ReadsLeaf, DecodeErrors
  <2>5. CASE ~Overflows(stop + 1, n) /\ ~TooLong(stop + 1, n)
    BY <1>6, <1>9, <2>1, <2>5
  <2> QED
    BY <2>3, <2>4, <2>5
<1> QED
  BY <1>7, <1>8, <1>9

Based ==
    /\ data \in Seq(Byte) /\ Len(data) \in Nat /\ pos \in 0 .. Len(data)
    /\ Len(stack) \in Nat /\ DOMAIN stack = 1 .. Len(stack) /\ (stack = <<>> <=> Len(stack) = 0)
    /\ \A k \in DOMAIN stack :
         /\ stack[k].at \in 0 .. Len(data) /\ stack[k].at + 1 <= pos
         /\ stack[k].kind \in {"list", "dict"}
         /\ data[stack[k].at + 1] = IF stack[k].kind = "list" THEN "l" ELSE "d"

LEMMA InBounds == DecoderInv => Based
<1> SUFFICES ASSUME DecoderInv PROVE Based
  OBVIOUS
<1> PICK V : DecoderShape(V)
  BY DEF DecoderInv
<1>1. data \in Seq(Byte) /\ pos \in 0 .. Len(data) /\ stack \in Seq(Frames(V))
  BY DEF DecoderShape
<1>2. Len(data) \in Nat /\ Len(stack) \in Nat /\ DOMAIN stack = 1 .. Len(stack)
      /\ (stack = <<>> <=> Len(stack) = 0)
  BY <1>1
<1>3. ASSUME NEW k \in DOMAIN stack
      PROVE  /\ stack[k].at \in 0 .. Len(data) /\ stack[k].at + 1 <= pos
             /\ stack[k].kind \in {"list", "dict"}
             /\ data[stack[k].at + 1] = IF stack[k].kind = "list" THEN "l" ELSE "d"
  <2>1. stack[k].at \in Nat /\ stack[k].kind \in {"list", "dict"}
    BY <1>1, Fields
  <2>2. stack[k].at < pos /\ data[stack[k].at + 1] = IF stack[k].kind = "list" THEN "l" ELSE "d"
    BY DEF DecoderInv, DepthBounded
  <2> QED
    BY <1>1, <1>2, <2>1, <2>2
<1> QED
  BY <1>1, <1>2, <1>3 DEF Based

LEMMA SameInput == data' = data /\ whole' = whole => (Denoted' <=> Denoted)
  BY DEF Denoted

(* An error that is not one: nothing is encoded at the cursor.               *)
LEMMA LeafGrammar ==
    ASSUME GrammarInv, DecoderInv', pc = "value", data' = data, whole' = whole, ReadsLeaf
    PROVE  GrammarInv'
<1>0. Based /\ outcome = "running" /\ Nested /\ Reached(pos) /\ (Denoted' <=> Denoted)
  BY InBounds, SameInput DEF GrammarInv, DecoderInv, DecoderShape, ReadSoFar
<1>1. ASSUME NEW e \in 0 .. Len(data), NEW v \in Meant(data, FALSE, pos, e), Return(v, e)
      PROVE  GrammarInv'
  <2>1. stack' = stack /\ pc' = "return" /\ ret' = v /\ pos' = e /\ outcome' = "running"
    BY <1>0, <1>1 DEF Return
  <2>2. Nested'
    BY <1>0, <2>1 DEF Nested
  <2>3. Yielded'
    <3>1. pos \in 0 .. Len(data)
      BY <1>0 DEF Based
    <3>2. ReachedBy(data', stack', pos)
      BY <1>0, <2>1 DEF Reached
    <3>3. ret' \in Meant(data', FALSE, pos, pos')
      BY <1>1, <2>1
    <3>4. \E m \in 0 .. Len(data') : ret' \in Meant(data', FALSE, m, pos')
                  /\ ReachedBy(data', stack', m)
      BY <3>1, <3>2, <3>3
    <3> QED
      BY <3>4 DEF Yielded, Reached
  <2>4. Denoted' => OnTheWay'
    BY <1>0, <2>1 DEF GrammarInv, OnTheWay
  <2> QED
    BY <2>1, <2>2, <2>3, <2>4 DEF GrammarInv, ReadSoFar
<1>2. ASSUME NEW o \in DecodeErrors \cup {"panic"}, Done(o), ~Begins(data, pos)
      PROVE  GrammarInv'
  <2>1. pc' = "done" /\ outcome' # "ok"
    BY <1>2 DEF Done, DecodeErrors
  <2>2. ~Denoted
    BY <1>2 DEF GrammarInv, OnTheWay
  <2> QED
    BY <1>0, <2>1, <2>2 DEF GrammarInv, ReadSoFar
<1> QED
  BY <1>1, <1>2 DEF ReadsLeaf

LEMMA OpenGrammar ==
    ASSUME GrammarInv, DecoderInv', pc = "value", data' = data, whole' = whole,
           NEW kind \in {"list", "dict"}, Open(kind), pos < Len(data)
    PROVE  GrammarInv'
<1> DEFINE f == [kind |-> kind, at |-> pos, got |-> <<>>]
           n == Len(stack)
<1>0. Based /\ outcome = "running" /\ Nested /\ Reached(pos) /\ (Denoted' <=> Denoted)
  BY InBounds, SameInput DEF GrammarInv, DecoderInv, DecoderShape, ReadSoFar
<1>1. n \in Nat /\ pos \in 0 .. Len(data) /\ data \in Seq(Byte) /\ DOMAIN stack = 1 .. n
      /\ (stack = <<>> <=> n = 0)
  BY <1>0 DEF Based
<1>2. /\ Len(stack') = n + 1 /\ stack'[n + 1] = f /\ DOMAIN stack' = 1 .. n + 1
      /\ \A k \in 1 .. n : stack'[k] = stack[k]
  <2> PICK V : DecoderShape(V)
    BY DEF GrammarInv, DecoderInv
  <2>1. f \in Frames(V) /\ stack \in Seq(Frames(V))
    BY <1>1 DEF DecoderShape, Frames
  <2>2. /\ stack' \in Seq(Frames(V)) /\ Len(stack') = n + 1 /\ stack'[n + 1] = f
        /\ \A k \in 1 .. n : stack'[k] = stack[k]
    BY <2>1, Pushed DEF Open
  <2> QED
    BY <2>2
<1>3. /\ f.at = pos /\ f.got = <<>> /\ pos' = pos + 1 /\ pc' = "loop" /\ outcome' = "running"
      /\ stack' # <<>>
  BY <1>0, <1>1, <1>2 DEF Open
<1> HIDE DEF f, n
<1>4. Nested'
  <2>1. stack'[1].at = 0
    <3>1. CASE n = 0
      BY <1>0, <1>1, <1>2, <1>3, <3>1 DEF Reached, ReachedBy
    <3>2. CASE n # 0
      <4>1. 1 \in 1 .. n /\ stack # <<>>
        BY <1>1, <3>2
      <4> QED
        BY <1>0, <1>2, <4>1 DEF Nested
    <3> QED
      BY <3>1, <3>2
  <2>2. ASSUME NEW k \in 1 .. n
        PROVE  stack'[k].got \in Runs(data', FALSE, stack'[k].at + 1, stack'[k + 1].at)
    <3>1. CASE k = n
      <4>1. stack # <<>> /\ stack'[k] = stack[n] /\ stack'[k + 1] = f
        BY <1>1, <1>2, <3>1
      <4>2. stack[n].got \in Runs(data, FALSE, stack[n].at + 1, pos)
        BY <1>0, <4>1 DEF Reached, ReachedBy, n
      <4> QED
        BY <1>3, <4>1, <4>2
    <3>2. CASE k # n
      <4>1. k \in 1 .. n - 1 /\ k + 1 \in 1 .. n
        BY <1>1, <3>2
      <4>2. stack[k].got \in Runs(data, FALSE, stack[k].at + 1, stack[k + 1].at)
        BY <1>0, <4>1 DEF Nested, n
      <4> QED
        BY <1>2, <4>1, <4>2
    <3> QED
      BY <3>1, <3>2
  <2>3. Len(stack') - 1 = n
    BY <1>1, <1>2
  <2> QED
    BY <2>1, <2>2, <2>3 DEF Nested
<1>5. Reached(pos)'
  <2>1. <<>> \in Runs(data, FALSE, pos + 1, pos + 1)
    <3>1. pos + 1 \in 0 .. Len(data)
      BY <1>1
    <3> QED
      BY <1>1, <3>1, Nothing
  <2> QED
    BY <1>2, <1>3, <2>1 DEF Reached, ReachedBy
<1>6. Denoted' => OnTheWay'
  <2> SUFFICES ASSUME Denoted PROVE OnTheWay'
    BY <1>0
  <2>1. Begins(data, pos) /\ \A k \in 1 .. n : Begins(data, stack[k].at)
    BY <1>1 DEF GrammarInv, OnTheWay
  <2>2. \A k \in 1 .. n + 1 : Begins(data', stack'[k].at)
    <3>1. ASSUME NEW k \in 1 .. n + 1 PROVE k \in 1 .. n \/ k = n + 1
      BY <1>1
    <3> QED
      BY <1>2, <1>3, <2>1, <3>1
  <2> QED
    BY <1>2, <1>3, <2>2 DEF OnTheWay
<1> QED
  BY <1>3, <1>4, <1>5, <1>6 DEF GrammarInv, ReadSoFar

(* What an open list or dictionary has read goes on to its "e".              *)
AheadOf(s, p, b, got) ==
    \E e \in 1 .. Len(s) : \E r \in Runs(s, FALSE, b, e - 1) :
      s[e] = "e" /\ (s[p + 1] = "d" => Entries(got \o r))

LEMMA Ahead ==
    ASSUME NEW s \in Seq(Byte), NEW p \in 0 .. Len(s), p + 1 \in 0 .. Len(s), NEW b \in 0 .. Len(s),
           s[p + 1] \in {"l", "d"}, NEW got \in Runs(s, FALSE, p + 1, b), Begins(s, p)
    PROVE  AheadOf(s, p, b, got)
<1>a. Extends(s, FALSE, Len(s))
  BY Unambiguous, Zenon
<1>b. Len(s) \in Nat
  BY ONLY s \in Seq(Byte)
<1>0. Len(s) \in Nat /\ Extends(s, FALSE, Len(s))
  BY <1>a, <1>b
<1>1. PICK e \in 0 .. Len(s) : \E v : v \in Meant(s, FALSE, p, e)
  BY DEF Begins
<1>2. PICK v : v \in Meant(s, FALSE, p, e)
  BY <1>1
<1>3. PICK q : IsOpened(s, FALSE, p, e, q, v)
  BY <1>2, OpenedOf
<1> DEFINE a == p + 1
           m == e - 1
<1>4. a \in 0 .. Len(s) /\ m \in 0 .. Len(s) /\ b - a <= Len(s) /\ m < Len(s) /\ e \in 1 .. Len(s)
      /\ m + 1 = e
  BY <1>0, <1>3 DEF IsOpened
<1>5. q \in Runs(s, FALSE, a, m) /\ got \in Runs(s, FALSE, a, b) /\ s[m + 1] = "e"
  BY <1>3, <1>4 DEF IsOpened
<1>6. s[p + 1] = "d" => Entries(q)
  BY <1>3 DEF IsOpened
<1> HIDE DEF a, m
<1>7. GoesOn(s, FALSE, b, m, got, q)
  BY <1>0, <1>4, <1>5 DEF Extends
<1>8. PICK r \in Runs(s, FALSE, b, m) : q = got \o r
  BY <1>7 DEF GoesOn
<1>9. r \in Runs(s, FALSE, b, e - 1) /\ s[e] = "e"
  BY <1>4, <1>5, <1>8 DEF m
<1> QED
  BY <1>4, <1>6, <1>8, <1>9 DEF AheadOf

(* What goes on is at its "e", or at an encoding.                            *)
LEMMA Rest ==
    ASSUME NEW s \in Seq(Byte), NEW b \in 0 .. Len(s), NEW e \in 1 .. Len(s),
           NEW r \in Runs(s, FALSE, b, e - 1), s[e] = "e"
    PROVE  /\ b < Len(s)
           /\ (s[b + 1] = "e" /\ r = <<>>) \/ (Begins(s, b) /\ s[b + 1] # "e")
<1>0. Len(s) \in Nat /\ e - 1 \in 0 .. Len(s)
  OBVIOUS
<1>1. CASE b = e - 1 /\ r = <<>>
  BY <1>0, <1>1
<1>2. CASE Heads(s, FALSE, b, e - 1, r)
  <2>1. PICK k \in b + 2 .. e - 1 : \E v : v \in Meant(s, FALSE, b, k)
    BY <1>2 DEF Heads
  <2>2. PICK v : v \in Meant(s, FALSE, b, k)
    BY <2>1
  <2>3. k \in 0 .. Len(s) /\ b < Len(s)
    BY <1>0
  <2>4. s[b + 1] # "e"
    BY <2>2, <2>3, Starts, OpeningIsNot
  <2> QED
    BY <2>2, <2>3, <2>4 DEF Begins
<1> QED
  BY <1>0, <1>1, <1>2, CutUp

(* The frame on top, while its loop runs or waits.                           *)
LEMMA OnTop ==
    ASSUME Based, stack # <<>>, NEW m \in 0 .. Len(data), Reached(m), stack[Len(stack)].at + 1 <= m
    PROVE  /\ Top = stack[Len(stack)] /\ Len(stack) \in 1 .. Len(stack)
           /\ Top.at \in 0 .. Len(data) /\ Top.at + 1 \in 0 .. Len(data)
           /\ Top.got \in Runs(data, FALSE, Top.at + 1, m)
           /\ Top.kind \in {"list", "dict"}
           /\ data[Top.at + 1] = IF Top.kind = "list" THEN "l" ELSE "d"
<1>1. Top = stack[Len(stack)] /\ Len(stack) \in 1 .. Len(stack) /\ Len(stack) \in DOMAIN stack
  BY DEF Based, Top, Last
<1>2. Top.at \in 0 .. Len(data) /\ Top.at + 1 \in 0 .. Len(data)
  BY <1>1 DEF Based
<1> QED
  BY <1>1, <1>2 DEF Based, Reached, ReachedBy

LEMMA CloseIsOne ==
    ASSUME Based, Keyed, pc = "loop", stack # <<>>, Reached(pos), pos < Len(data),
           data[pos + 1] = "e"
    PROVE  Closed(Top) \in Meant(data, FALSE, Top.at, pos + 1)
<1> DEFINE p == Top.at
           e == pos + 1
           got == Top.got
<1>1. pos \in 0 .. Len(data) /\ data \in Seq(Byte) /\ Len(data) \in Nat
      /\ stack[Len(stack)].at + 1 <= pos
  BY DEF Based
<1>2. /\ Top = stack[Len(stack)] /\ Len(stack) \in 1 .. Len(stack)
      /\ p \in 0 .. Len(data) /\ p + 1 \in 0 .. Len(data)
      /\ got \in Runs(data, FALSE, p + 1, pos)
      /\ Top.kind \in {"list", "dict"}
      /\ data[p + 1] = IF Top.kind = "list" THEN "l" ELSE "d"
  BY <1>1, OnTop
<1>3. e \in 0 .. Len(data) /\ p + 2 <= e /\ e - 1 = pos /\ data[e] = "e"
  BY <1>1, <1>2
<1>4. got \in Runs(data, FALSE, p + 1, e - 1)
  BY <1>2, <1>3
<1>5. CASE Top.kind = "list"
  <2>1. Closed(Top) = [list |-> got]
    BY <1>5 DEF Closed
  <2>2. data[p + 1] = "l"
    BY <1>2, <1>5
  <2> HIDE DEF p, e, got
  <2>3. [list |-> got] \in Meant(data, FALSE, p, e)
    BY <1>1, <1>2, <1>3, <1>4, <2>2, ListIsOne
  <2> QED
    BY <2>1, <2>3 DEF p, e
<1>6. CASE Top.kind = "dict"
  <2>1. Closed(Top) = [dict |-> DictOf(got)]
    BY <1>6 DEF Closed
  <2>2. data[p + 1] = "d"
    BY <1>2, <1>6
  <2>3. Entries(got)
    <3>1. Len(stack) \in DOMAIN stack
      BY <1>2 DEF Based
    <3>2. Len(got) % 2 = 0
      BY <1>2, <1>6 DEF Keyed
    <3>3. \A i \in DOMAIN got : i % 2 = 1 => "bytes" \in DOMAIN got[i]
      BY <1>2, <1>6, <3>1 DEF Keyed
    <3> QED
      BY <3>2, <3>3 DEF Entries
  <2> HIDE DEF p, e, got
  <2>4. got \in Seq(Values(data, FALSE))
    BY <1>1, <1>2, ItemsTyped
  <2>5. DictOf(got) = Dictionary(got)
    BY <2>4, LastEntry
  <2>6. [dict |-> Dictionary(got)] \in Meant(data, FALSE, p, e)
    BY <1>1, <1>2, <1>3, <1>4, <2>2, <2>3, DictIsOne
  <2> QED
    BY <2>1, <2>5, <2>6 DEF p, e
<1> QED
  BY <1>2, <1>5, <1>6

LEMMA LoopGrammar == ASSUME GrammarInv, DecoderInv', Loop PROVE GrammarInv'
<1> DEFINE n == Len(stack)
<1>0. /\ Based /\ Keyed /\ outcome = "running" /\ Nested /\ Reached(pos) /\ pc = "loop"
      /\ stack # <<>> /\ data' = data /\ whole' = whole /\ (Denoted' <=> Denoted)
      /\ Len(data) <= MaxLength
  <2>1. pc = "loop" /\ data' = data /\ whole' = whole
    BY DEF Loop
  <2> QED
    BY <2>1, InBounds, SameInput DEF GrammarInv, DecoderInv, DecoderShape, ReadSoFar
<1>1. /\ data \in Seq(Byte) /\ Len(data) \in Nat /\ pos \in 0 .. Len(data) /\ n \in Nat
      /\ DOMAIN stack = 1 .. n /\ n \in 1 .. n /\ stack[n].at + 1 <= pos
  BY <1>0 DEF Based
<1>2. /\ Top = stack[n]
      /\ Top.at \in 0 .. Len(data) /\ Top.at + 1 \in 0 .. Len(data)
      /\ Top.got \in Runs(data, FALSE, Top.at + 1, pos)
      /\ data[Top.at + 1] \in {"l", "d"}
  BY <1>0, <1>1, OnTop
<1>3. ASSUME Denoted
      PROVE  pos < Len(data) /\ (data[pos + 1] = "e" \/ Begins(data, pos))
  <2>1. Begins(data, Top.at)
    BY <1>0, <1>1, <1>2, <1>3 DEF GrammarInv, OnTheWay
  <2> DEFINE p == Top.at
             got == Top.got
  <2> HIDE DEF p, got
  <2>2. AheadOf(data, p, pos, got)
    BY <1>1, <1>2, <2>1, Ahead DEF p, got
  <2>3. PICK e \in 1 .. Len(data) : data[e] = "e" /\ \E r : r \in Runs(data, FALSE, pos, e - 1)
    BY <2>2 DEF AheadOf
  <2>4. PICK r : r \in Runs(data, FALSE, pos, e - 1)
    BY <2>3
  <2> QED
    BY <1>1, <2>3, <2>4, Rest
<1>4. CASE AtEnd /\ Done("UnexpectedEof")
  <2>1. ~Denoted
    BY <1>1, <1>3, <1>4 DEF AtEnd
  <2>2. pc' = "done" /\ outcome' # "ok"
    BY <1>4 DEF Done
  <2> QED
    BY <1>0, <2>1, <2>2 DEF GrammarInv, ReadSoFar
<1>5. CASE ~AtEnd /\ ~Here("e") /\ pc' = "value" /\ UNCHANGED <<pos, stack, ret, outcome>>
  <2>1. Denoted => Begins(data, pos)
    BY <1>3, <1>5 DEF Here
  <2>2. Nested' /\ Reached(pos)'
    BY <1>0, <1>5 DEF Nested, Reached
  <2>3. Denoted' => OnTheWay'
    BY <1>0, <1>5, <2>1 DEF GrammarInv, OnTheWay
  <2> QED
    BY <1>0, <1>5, <2>2, <2>3 DEF GrammarInv, ReadSoFar
<1>6. CASE Here("e") /\ stack' = Front(stack) /\ pos' = pos + 1 /\ pc' = "return"
           /\ ret' = Closed(Top) /\ UNCHANGED outcome
  <2>1. pos < Len(data) /\ data[pos + 1] = "e"
    BY <1>1, <1>6 DEF Here, AtEnd
  <2>2. ret' \in Meant(data, FALSE, Top.at, pos')
    BY <1>0, <1>6, <2>1, CloseIsOne
  <2>3. Len(stack') = n - 1 /\ DOMAIN stack' = 1 .. n - 1 /\ (stack' = <<>> <=> n = 1)
        /\ \A k \in 1 .. n - 1 : stack'[k] = stack[k]
    <3> PICK V : DecoderShape(V)
      BY DEF GrammarInv, DecoderInv
    <3>1. stack \in Seq(Frames(V))
      BY DEF DecoderShape
    <3>2. /\ stack' \in Seq(Frames(V)) /\ Len(stack') = n - 1
          /\ \A k \in 1 .. n - 1 : stack'[k] = stack[k]
      BY <1>0, <1>6, <3>1, Popped
    <3> QED
      BY <1>1, <3>2
  <2> HIDE DEF n
  <2>4. Nested'
    <3>1. n # 1 => 1 \in 1 .. n - 1
      BY <1>1
    <3>2. \A k \in 1 .. (n - 1) - 1 : k \in 1 .. n - 1 /\ k + 1 \in 1 .. n - 1
      BY <1>1
    <3> QED
      BY <1>0, <2>3, <3>1, <3>2 DEF Nested, n
  <2>5. ReachedBy(data', stack', Top.at)
    <3>1. CASE n = 1
      BY <1>0, <1>2, <2>3, <3>1 DEF ReachedBy, Nested
    <3>2. CASE n # 1
      <4>1. n - 1 \in 1 .. n - 1 /\ (n - 1) + 1 = n
        BY <1>1, <3>2
      <4>2. stack[n - 1].got \in Runs(data, FALSE, stack[n - 1].at + 1, stack[n].at)
        BY <1>0, <4>1 DEF Nested, n
      <4> QED
        BY <1>0, <1>2, <2>3, <3>2, <4>1, <4>2 DEF ReachedBy
    <3> QED
      BY <3>1, <3>2
  <2>6. Yielded'
    <3>1. \E m \in 0 .. Len(data') : ret' \in Meant(data', FALSE, m, pos')
                  /\ ReachedBy(data', stack', m)
      BY <1>0, <1>2, <2>2, <2>5
    <3> QED
      BY <3>1 DEF Yielded, Reached
  <2>7. Denoted' => OnTheWay'
    <3>1. \A k \in 1 .. n - 1 : k \in 1 .. n
      BY <1>1
    <3>2. pc # "done" /\ pc' = "return"
      BY <1>0, <1>6
    <3> QED
      BY <1>0, <1>1, <2>3, <3>1, <3>2 DEF GrammarInv, OnTheWay
  <2>8. outcome' # "ok"
    BY <1>0, <1>6
  <2> QED
    BY <1>0, <1>6, <2>4, <2>6, <2>7, <2>8 DEF GrammarInv, ReadSoFar
<1> QED
  BY <1>4, <1>5, <1>6 DEF Loop

(* Where a key is expected and an encoding goes on, a byte string has been   *)
(* read and another value follows.                                          *)
LEMMA KeyThenValue ==
    ASSUME NEW s \in Seq(Byte), NEW b \in 0 .. Len(s), NEW e \in 1 .. Len(s), s[e] = "e",
           NEW V, NEW got \in Seq(V), NEW v \in V, Len(got) % 2 = 0,
           NEW r \in Runs(s, FALSE, b, e - 1), r \in Seq(V), Entries(Append(got, v) \o r)
    PROVE  "bytes" \in DOMAIN v /\ Begins(s, b)
<1> DEFINE g == Append(got, v)
           n == Len(got)
<1>1. n \in Nat /\ g \in Seq(V) /\ Len(g) = n + 1 /\ g[n + 1] = v
  OBVIOUS
<1> HIDE DEF g
<1> DEFINE q == g \o r
<1>2. /\ q \in Seq(V) /\ Len(q) = n + 1 + Len(r) /\ q[n + 1] = v /\ n + 1 \in 1 .. Len(q)
      /\ Len(r) \in Nat
  <2> DEFINE m == n + 1
             l == Len(r)
  <2>1. m \in Nat /\ l \in Nat /\ Len(g) = m /\ Len(r) = l /\ m \in 1 .. m
    BY <1>1
  <2> HIDE DEF m, l
  <2>2. Joins(V, g, r, m, l)
    BY ONLY <1>1, <2>1, r \in Seq(V), Joined
  <2>3. q \in Seq(V) /\ Len(q) = m + l /\ q[m] = g[m]
    BY <2>1, <2>2 DEF Joins
  <2>4. m \in 1 .. m + l
    BY ONLY <2>1
  <2>5. g[m] = v
    BY <1>1 DEF m
  <2> QED
    BY <2>1, <2>3, <2>4, <2>5 DEF m, l
<1>3. Len(q) % 2 = 0 /\ \A i \in DOMAIN q : i % 2 = 1 => "bytes" \in DOMAIN q[i]
  BY DEF Entries, g
<1> HIDE DEF q, n
<1>4. n % 2 = 0
  BY DEF n
<1>5. (n + 1) % 2 = 1
  BY ONLY <1>1, <1>4
<1>6. "bytes" \in DOMAIN v
  BY <1>2, <1>3, <1>5
<1>7. r # <<>>
  <2> SUFFICES ASSUME r = <<>> PROVE FALSE
    OBVIOUS
  <2>1. Len(q) = n + 1
    BY <1>1, <1>2
  <2> QED
    BY <1>1, <1>3, <1>5, <2>1
<1> QED
  BY <1>6, <1>7, Rest

LEMMA ResumeGrammar == ASSUME GrammarInv, DecoderInv', Resume PROVE GrammarInv'
<1> DEFINE n == Len(stack)
<1>0. /\ Based /\ Keyed /\ outcome = "running" /\ Nested /\ Yielded /\ pc = "return"
      /\ data' = data /\ whole' = whole /\ (Denoted' <=> Denoted) /\ Len(data) <= MaxLength
  <2>1. pc = "return" /\ data' = data /\ whole' = whole
    BY DEF Resume
  <2> QED
    BY <2>1, InBounds, SameInput DEF GrammarInv, DecoderInv, DecoderShape, ReadSoFar
<1>1. /\ data \in Seq(Byte) /\ Len(data) \in Nat /\ pos \in 0 .. Len(data) /\ n \in Nat
      /\ DOMAIN stack = 1 .. n /\ (stack = <<>> <=> n = 0)
  BY <1>0 DEF Based
<1>2. PICK m \in 0 .. Len(data) : ret \in Meant(data, FALSE, m, pos) /\ Reached(m)
  BY <1>0 DEF Yielded
<1>3. CASE stack = <<>>
  <2>1. m = 0 /\ ret \in Meant(data, FALSE, 0, pos)
    BY <1>2, <1>3 DEF Reached, ReachedBy
  <2>2. Done(IF Trailing THEN "TrailingData" ELSE "ok")
    BY <1>3 DEF Resume
  <2>3. pc' = "done" /\ pos' = pos /\ ret' = ret
    BY <2>2 DEF Done
  <2>4. outcome' = "ok" <=> ~Trailing
    BY <2>2 DEF Done
  <2>5. Trailing <=> whole /\ pos # Len(data)
    BY <1>1 DEF Trailing, AtEnd
  <2>6. ASSUME Denoted PROVE ~Trailing
    <3>1. PICK k \in 0 .. Len(data) : Meant(data, FALSE, 0, k) # {} /\ (whole => k = Len(data))
      BY <2>6 DEF Denoted
    <3>2. PICK v : v \in Meant(data, FALSE, 0, k)
      BY <3>1
    <3>3. Single(data, FALSE, Len(data))
      BY <1>1, Unambiguous
    <3>5. pos - 0 <= Len(data) /\ 0 \in 0 .. Len(data)
      BY <1>1
    <3>4. pos = k
      BY <1>1, <2>1, <3>2, <3>3, <3>5 DEF Single
    <3> QED
      BY <2>5, <3>1, <3>4
  <2>7. outcome' = "ok" => ret' \in Meant(data', FALSE, 0, pos') /\ (whole' => pos' = Len(data'))
    BY <1>0, <2>1, <2>3, <2>4, <2>5
  <2>8. Denoted' => OnTheWay'
    BY <1>0, <2>3, <2>4, <2>6 DEF OnTheWay
  <2> QED
    BY <1>0, <2>3, <2>7, <2>8 DEF GrammarInv, ReadSoFar
<1>4. CASE stack # <<>>
  <2> DEFINE p == Top.at
             got == Top.got
             V == Values(data, FALSE)
  <2>1. stack[n].at + 1 <= m
    <3>1. m + 2 <= pos
      BY <1>1, <1>2, Starts
    <3>2. CASE stack[n].at + 1 <= m
      BY <3>2
    <3>3. stack[n].got \in Runs(data, FALSE, stack[n].at + 1, m)
      BY <1>2, <1>4 DEF Reached, ReachedBy
    <3>4. n \in DOMAIN stack /\ stack[n].at \in 0 .. Len(data) /\ stack[n].at + 1 \in 0 .. Len(data)
      <4>1. n \in DOMAIN stack
        BY <1>1, <1>4
      <4>2. stack[n].at \in 0 .. Len(data) /\ stack[n].at + 1 <= pos
        BY <1>0, <4>1 DEF Based
      <4> QED
        BY <1>1, <4>1, <4>2
    <3> DEFINE a == stack[n].at + 1
    <3>5. a \in 0 .. Len(data) /\ stack[n].got \in Runs(data, FALSE, a, m)
      BY <3>3, <3>4
    <3> HIDE DEF a
    <3>6. a = m \/ Heads(data, FALSE, a, m, stack[n].got)
      BY <1>1, <3>5, CutUp
    <3>7. a <= m
      <4>1. CASE Heads(data, FALSE, a, m, stack[n].got)
        <5>1. PICK k \in a + 2 .. m : TRUE
          BY <4>1 DEF Heads
        <5> QED
          BY <1>1, <3>5, <5>1
      <4>2. a \in Nat /\ m \in Nat
        BY <1>1, <3>5
      <4>3. CASE a = m
        BY <4>2, <4>3
      <4> QED
        BY <3>6, <4>1, <4>3, Zenon
    <3> QED
      BY <3>7 DEF a
  <2>2. /\ Top = stack[n] /\ n \in 1 .. n
        /\ p \in 0 .. Len(data) /\ p + 1 \in 0 .. Len(data)
        /\ got \in Runs(data, FALSE, p + 1, m)
        /\ Top.kind \in {"list", "dict"}
        /\ data[p + 1] = IF Top.kind = "list" THEN "l" ELSE "d"
    BY <1>0, <1>2, <1>4, <2>1, OnTop
  <2>3. got \in Seq(V) /\ ret \in V
    BY <1>1, <1>2, <2>2, ItemsTyped, ValueOf
  <2> HIDE DEF p, got, V
  <2>4. Append(got, ret) \in Runs(data, FALSE, p + 1, pos)
    <3>1. Appends(data, FALSE, m, pos, p + 1)
      BY <1>1, <2>2, Appended
    <3> QED
      BY <1>2, <2>2, <3>1 DEF Appends
  <2>5. ASSUME Denoted, KeyExpected(Top) PROVE "bytes" \in DOMAIN ret /\ Begins(data, pos)
    <3>1. Begins(data, p)
      BY <1>0, <1>1, <2>2, <2>5 DEF GrammarInv, OnTheWay, p
    <3>2. data[p + 1] = "d" /\ Len(got) % 2 = 0
      BY <2>2, <2>5 DEF KeyExpected, got
    <3> DEFINE g == Append(got, ret)
    <3> HIDE DEF g
    <3>3. g \in Runs(data, FALSE, p + 1, pos)
      BY <2>4 DEF g
    <3>4. AheadOf(data, p, pos, g)
      BY <1>1, <2>2, <3>1, <3>2, <3>3, Ahead
    <3>5. PICK e \in 1 .. Len(data) : data[e] = "e" /\ \E r \in Runs(data, FALSE, pos, e - 1) :
            Entries(g \o r)
      BY <3>2, <3>4 DEF AheadOf
    <3>6. PICK r \in Runs(data, FALSE, pos, e - 1) : Entries(g \o r)
      BY <3>5
    <3>7. r \in Seq(V)
      <4>1. e - 1 \in 0 .. Len(data)
        BY <1>1
      <4> QED
        BY <1>1, <3>6, <4>1, ItemsTyped DEF V
    <3>8. Entries(Append(got, ret) \o r)
      BY <3>6 DEF g
    <3> QED
      BY ONLY <1>1, <2>3, <3>2, <3>5, <3>6, <3>7, <3>8, KeyThenValue
  <2>6. CASE Done("InvalidDictKey") /\ KeyExpected(Top) /\ "bytes" \notin DOMAIN ret
    <3>1. ~Denoted
      BY <2>5, <2>6
    <3>2. pc' = "done" /\ outcome' # "ok"
      BY <2>6 DEF Done
    <3> QED
      BY <1>0, <3>1, <3>2 DEF GrammarInv, ReadSoFar
  <2>7. CASE /\ stack' = [stack EXCEPT ![n].got = Append(@, ret)]
             /\ pc' = IF KeyExpected(Top) THEN "value" ELSE "loop"
             /\ UNCHANGED <<pos, ret, outcome>>
    <3>1. /\ Len(stack') = n /\ DOMAIN stack' = 1 .. n /\ stack' # <<>>
          /\ \A k \in 1 .. n - 1 : stack'[k] = stack[k]
          /\ stack'[n].at = stack[n].at /\ stack'[n].got = Append(got, ret)
      <4> PICK W : DecoderShape(W)
        BY DEF GrammarInv, DecoderInv
      <4>1. stack \in Seq(Frames(W)) /\ ret \in W
        BY <1>0 DEF DecoderShape
      <4>2. stack' = [stack EXCEPT ![Len(stack)].got = Append(@, ret)]
        BY <2>7
      <4>3. /\ stack' \in Seq(Frames(W)) /\ Len(stack') = Len(stack)
            /\ \A k \in 1 .. Len(stack) - 1 : stack'[k] = stack[k]
            /\ stack'[Len(stack)] = [kind |-> stack[Len(stack)].kind,
                                     at |-> stack[Len(stack)].at,
                                     got |-> Append(stack[Len(stack)].got, ret)]
        BY ONLY <1>4, <4>1, <4>2, Added
      <4> QED
        BY <1>1, <1>4, <2>2, <4>3 DEF got
    <3> HIDE DEF n
    <3>2. ReachedBy(data', stack', pos')
      BY <1>0, <2>2, <2>4, <2>7, <3>1 DEF ReachedBy, p
    <3>3. Nested'
      <4>1. 1 \in 1 .. n /\ stack'[1].at = stack[1].at
        BY <2>2, <3>1, <1>1
      <4>2. \A k \in 1 .. n - 1 : k + 1 \in 1 .. n /\ stack'[k + 1].at = stack[k + 1].at
        BY <1>1, <3>1
      <4> QED
        BY <1>0, <1>4, <3>1, <4>1, <4>2 DEF Nested, n
    <3>4. Denoted' => OnTheWay'
      <4>1. \A k \in 1 .. n : stack'[k].at = stack[k].at
        BY <1>1, <3>1
      <4>2. Denoted => \A k \in 1 .. n : Begins(data, stack[k].at)
        BY <1>0, <1>1 DEF GrammarInv, OnTheWay
      <4> QED
        BY <1>0, <2>5, <2>7, <3>1, <4>1, <4>2 DEF OnTheWay
    <3>5. pc' \in {"value", "loop"} /\ outcome' # "ok"
      BY <1>0, <2>7
    <3> QED
      BY <1>0, <3>2, <3>3, <3>4, <3>5 DEF GrammarInv, ReadSoFar, Reached
  <2> QED
    BY <1>4, <2>6, <2>7 DEF Resume
<1> QED
  BY <1>3, <1>4

LEMMA ValueGrammar == ASSUME GrammarInv, DecoderInv', Value PROVE GrammarInv'
<1>1. /\ Based /\ pc = "value" /\ data' = data /\ whole' = whole /\ Len(data) <= MaxLength
  BY InBounds DEF GrammarInv, Value
<1>2. data \in Seq(Byte) /\ pos \in Nat /\ Len(data) \in Nat /\ pos \in 0 .. Len(data)
  BY <1>1 DEF Based
<1>3. (AtEnd <=> pos = Len(data)) /\ \A c : Here(c) <=> pos < Len(data) /\ data[pos + 1] = c
  BY <1>2 DEF AtEnd, Here
<1>4. CASE Here("i") /\ ParseInteger
  BY <1>1, <1>2, <1>3, <1>4, IntegerRead, LeafGrammar
<1>5. CASE (\E c \in Digit : Here(c)) /\ ParseBytes
  <2>1. pos < Len(data) /\ data[pos + 1] \in Digit
    BY <1>3, <1>5
  <2> QED
    BY <1>1, <1>2, <1>5, <2>1, StringRead, LeafGrammar
<1>6. CASE Here("l") /\ Open("list")
  BY <1>1, <1>3, <1>6, OpenGrammar
<1>7. CASE Here("d") /\ Open("dict")
  BY <1>1, <1>3, <1>7, OpenGrammar
<1>8. CASE (\E c \in {"e", ":", "+", "-"} \cup Letters : Here(c)) /\ Done("UnexpectedByte")
  <2>1. data[pos + 1] \in {"e", ":", "+", "-"} \cup Letters
    BY <1>3, <1>8
  <2>2. data[pos + 1] \notin Opening
    <3>1. \A c \in Letters : c \notin Digit /\ c \notin {"i", "l", "d", "e", ":", "+", "-"}
      BY InputsOK
    <3> QED
      BY <2>1, <3>1, Kinds DEF Opening
  <2>3. ~Begins(data, pos)
    <3>1. ASSUME NEW e \in 0 .. Len(data), NEW v \in Meant(data, FALSE, pos, e) PROVE FALSE
      BY <1>2, <2>2, Starts
    <3> QED
      BY <3>1 DEF Begins
  <2>4. ReadsLeaf
    BY <1>8, <2>3 DEF ReadsLeaf, DecodeErrors
  <2> QED
    BY <1>1, <2>4, LeafGrammar
<1>9. CASE AtEnd /\ Done("UnexpectedEof")
  <2>1. ~Begins(data, pos)
    <3>1. ASSUME NEW e \in 0 .. Len(data), NEW v \in Meant(data, FALSE, pos, e) PROVE FALSE
      <4>1. pos + 2 <= e
        BY <1>2, Starts
      <4> QED
        BY <1>2, <1>3, <1>9, <4>1
    <3> QED
      BY <3>1 DEF Begins
  <2>2. ReadsLeaf
    BY <1>9, <2>1 DEF ReadsLeaf, DecodeErrors
  <2> QED
    BY <1>1, <2>2, LeafGrammar
<1> QED
  BY <1>4, <1>5, <1>6, <1>7, <1>8, <1>9 DEF Value

LEMMA BegunGrammar == Begun /\ Len(data) <= MaxLength => GrammarInv
<1> SUFFICES ASSUME Begun, Len(data) <= MaxLength PROVE GrammarInv
  OBVIOUS
<1>1. stack = <<>> /\ pos = 0 /\ pc = "value" /\ outcome = "running" /\ Len(stack) = 0
      /\ Len(data) \in Nat
  BY DEF Begun
<1>2. ReadSoFar
  BY <1>1 DEF ReadSoFar, Nested, Reached, ReachedBy
<1>3. Denoted => OnTheWay
  <2>1. Denoted => Begins(data, 0)
    BY DEF Denoted, Begins
  <2>2. DOMAIN stack = {}
    BY <1>1
  <2> QED
    BY <1>1, <2>1, <2>2 DEF OnTheWay
<1> QED
  BY <1>2, <1>3, BegunInv DEF GrammarInv

LEMMA GrammarStepInv == ASSUME GrammarInv, [DecoderNext]_decoderVars PROVE GrammarInv'
<1>1. DecoderInv'
  BY DecoderStepInv DEF GrammarInv
<1>2. CASE UNCHANGED decoderVars
  BY <1>1, <1>2 DEF decoderVars, GrammarInv, ReadSoFar, Nested, Yielded, Reached, Denoted, OnTheWay
<1> QED
  BY <1>1, <1>2, ValueGrammar, LoopGrammar, ResumeGrammar DEF DecoderNext

LEMMA GrammarDecides == GrammarInv => AgreesWithGrammar
<1> SUFFICES ASSUME GrammarInv, pc = "done"
             PROVE  IF outcome = "ok"
                      THEN /\ Prefix(data, pos, FALSE) = {ret}
                           /\ whole => pos = Len(data)
                           /\ \A k \in 0 .. Len(data) \ {pos} : Prefix(data, k, FALSE) = {}
                      ELSE IF whole THEN Prefix(data, Len(data), FALSE) = {}
                                    ELSE \A k \in 0 .. Len(data) : Prefix(data, k, FALSE) = {}
  BY DEF AgreesWithGrammar
<1>0. data \in Seq(Byte) /\ Len(data) \in Nat /\ pos \in 0 .. Len(data)
  BY InBounds DEF GrammarInv, Based
<1>1. \A k : Prefix(data, k, FALSE) = Meant(data, FALSE, 0, k)
  BY DEF Prefix, Meant
<1>2. CASE outcome = "ok"
  <2>1. ret \in Meant(data, FALSE, 0, pos) /\ (whole => pos = Len(data))
    BY <1>2 DEF GrammarInv, ReadSoFar
  <2>2. ASSUME NEW k \in 0 .. Len(data), NEW v \in Meant(data, FALSE, 0, k) PROVE k = pos /\ v = ret
    <3>1. Single(data, FALSE, Len(data))
      BY <1>0, Unambiguous
    <3>2. k - 0 <= Len(data) /\ 0 \in 0 .. Len(data)
      BY <1>0
    <3> QED
      BY <1>0, <2>1, <2>2, <3>1, <3>2 DEF Single
  <2>3. Prefix(data, pos, FALSE) = {ret}
    BY <1>0, <1>1, <2>1, <2>2
  <2>4. \A k \in 0 .. Len(data) \ {pos} : Prefix(data, k, FALSE) = {}
    BY <1>1, <2>2
  <2> QED
    BY <1>2, <2>1, <2>3, <2>4
<1>3. CASE outcome # "ok"
  <2>1. ~Denoted
    BY <1>3 DEF GrammarInv, OnTheWay
  <2>2. \A k \in 0 .. Len(data) : (whole => k = Len(data)) => Prefix(data, k, FALSE) = {}
    BY <1>1, <2>1 DEF Denoted
  <2>3. Len(data) \in 0 .. Len(data)
    BY <1>0
  <2>4. whole \in BOOLEAN
    BY DEF GrammarInv, DecoderInv, DecoderShape
  <2> QED
    BY <1>3, <2>2, <2>3, <2>4
<1> QED
  BY <1>2, <1>3

(* decode accepts an input just when it is an encoding, decode_partial just  *)
(* when it begins with one, and both return the one value that is encoded   *)
(* there, for every input that a usize can measure.                         *)
THEOREM GrammarCorrect == DecoderSpec => []AgreesWithGrammar
<1>1. DecoderInit => GrammarInv
  <2>1. DecoderInit => Begun /\ Len(data) <= MaxLength
    BY InputsOK DEF DecoderInit, Begun
  <2> QED
    BY <2>1, BegunGrammar
<1> QED
  BY <1>1, GrammarStepInv, GrammarDecides, PTL DEF DecoderSpec

(* No input is an encoding of two values, nor begins with two encodings.     *)
THEOREM OneMeaning ==
    ASSUME NEW s \in Seq(Byte), NEW strict
    PROVE  \A k1, k2 \in 0 .. Len(s) :
             \A v1 \in Prefix(s, k1, strict), v2 \in Prefix(s, k2, strict) : k1 = k2 /\ v1 = v2
<1>1. \A k : Prefix(s, k, strict) = Meant(s, strict, 0, k)
  BY DEF Prefix, Meant
<1>2. Single(s, strict, Len(s))
  BY Unambiguous
<1>3. Len(s) \in Nat /\ 0 \in 0 .. Len(s) /\ \A k \in 0 .. Len(s) : k - 0 <= Len(s)
  OBVIOUS
<1> QED
  BY <1>1, <1>2, <1>3 DEF Single

-----------------------------------------------------------------------------
(* A string means the same on its own as where it is a part of another.      *)

(* The part of s from o to o + l.                                           *)
PartOf(t, s, o, l) == o + l <= Len(s) /\ t = SubSeq(s, o + 1, o + l)

LEMMA PartIs ==
    ASSUME NEW s \in Seq(Byte), NEW o \in Nat, NEW l \in Nat, NEW t, PartOf(t, s, o, l)
    PROVE  t \in Seq(Byte) /\ Len(t) = l /\ \A i \in 1 .. l : t[i] = s[o + i]
<1>1. Stretches(SubSeq(s, o + 1, o + l), Byte, s, o, l)
  BY Stretch DEF PartOf
<1> QED
  BY <1>1 DEF PartOf, Stretches

SameText(t, s, o, p, q) == SubSeq(t, p + 1, q) = SubSeq(s, (o + p) + 1, o + q)

LEMMA PartOfPart ==
    ASSUME NEW s \in Seq(Byte), NEW o \in Nat, NEW l \in Nat, NEW t, PartOf(t, s, o, l),
           NEW p \in Nat, NEW q \in Nat, p <= q, q <= l
    PROVE  SameText(t, s, o, p, q)
<1> DEFINE n == q - p
           a == o + p
           x == SubSeq(t, p + 1, p + n)
           y == SubSeq(s, a + 1, a + n)
<1>1. n \in Nat /\ p + n = q /\ a \in Nat /\ a + n = o + q /\ a + n <= Len(s) /\ p + n <= l
  BY DEF PartOf
<1>2. t \in Seq(Byte) /\ Len(t) = l /\ \A i \in 1 .. l : t[i] = s[o + i]
  BY PartIs
<1> HIDE DEF n
<1>3. Stretches(x, Byte, t, p, n)
  BY <1>1, <1>2, Stretch
<1> HIDE DEF a, x
<1>4. Stretches(y, Byte, s, a, n)
  BY <1>1, Stretch
<1> HIDE DEF y
<1>5. \A i \in 1 .. n : p + i \in 1 .. l /\ o + (p + i) = a + i
  BY <1>1 DEF a
<1>6. \A i \in 1 .. n : x[i] = y[i]
  BY <1>2, <1>3, <1>4, <1>5 DEF Stretches
<1>7. x = y
  BY <1>3, <1>4, <1>6 DEF Stretches
<1> QED
  BY <1>1, <1>7 DEF x, y, a, SameText

(* What is between the first byte and the last is the same.                 *)
SameMeaning(t, s, strict, o, p, e) == Meant(t, strict, p, e) = Meant(s, strict, o + p, o + e)
SameRuns(t, s, strict, o, a, b)    == Runs(t, strict, a, b) = Runs(s, strict, o + a, o + b)

LEMMA MeantIs ==
    ASSUME NEW s, NEW strict, NEW p, NEW e
    PROVE  Meant(s, strict, p, e)
             = IF e - p < 2 THEN {} ELSE Element(s, Runs(s, strict, p + 1, e - 1), p, e, strict)
  BY DEF Meant, Encoded, Runs

LEMMA MeaningOfPart ==
    ASSUME NEW s \in Seq(Byte), NEW strict, NEW o \in Nat, NEW l \in Nat, NEW t,
           PartOf(t, s, o, l), NEW p \in 0 .. l, NEW e \in 0 .. l,
           p + 2 <= e => SameRuns(t, s, strict, o, p + 1, e - 1)
    PROVE  SameMeaning(t, s, strict, o, p, e)
<1> DEFINE P == o + p
           E == o + e
<1>0. /\ t \in Seq(Byte) /\ Len(t) = l /\ \A i \in 1 .. l : t[i] = s[o + i]
      /\ Len(s) \in Nat /\ P \in 0 .. Len(s) /\ E \in 0 .. Len(s)
      /\ p \in Nat /\ e \in Nat /\ P \in Nat /\ E \in Nat /\ E - P = e - p
  <2>1. t \in Seq(Byte) /\ Len(t) = l /\ \A i \in 1 .. l : t[i] = s[o + i]
    BY PartIs
  <2>2. o + l <= Len(s) /\ Len(s) \in Nat
    BY DEF PartOf
  <2>3. p \in Nat /\ e \in Nat /\ p <= l /\ e <= l
    OBVIOUS
  <2>4. P \in Nat /\ E \in Nat /\ P <= Len(s) /\ E <= Len(s) /\ E - P = e - p
    BY <2>2, <2>3
  <2> QED
    BY <2>1, <2>2, <2>3, <2>4
<1>1. CASE e - p < 2
  BY <1>0, <1>1, MeantIs DEF SameMeaning
<1>2. CASE ~(e - p < 2)
  <2> DEFINE items == Runs(t, strict, p + 1, e - 1)
  <2>1. p + 2 <= e /\ o + (p + 1) = P + 1 /\ o + (e - 1) = E - 1 /\ ~(E - P < 2)
    BY <1>0, <1>2
  <2>2. items = Runs(s, strict, P + 1, E - 1)
    BY <2>1 DEF SameRuns
  <2>3. /\ Meant(t, strict, p, e) = Element(t, items, p, e, strict)
        /\ Meant(s, strict, P, E) = Element(s, items, P, E, strict)
    BY <1>2, <2>1, <2>2, MeantIs
  <2> HIDE DEF items
  <2>0. P = o + p /\ E = o + e
    OBVIOUS
  <2> HIDE DEF P, E
  <2>4. t[p + 1] = s[P + 1] /\ t[e] = s[E]
    <3>1. p + 1 \in 1 .. l /\ e \in 1 .. l /\ o + (p + 1) = P + 1
      BY <1>0, <2>0, <2>1
    <3> QED
      BY <1>0, <2>0, <3>1
  <2>5. SubSeq(t, p + 2, e - 1) = SubSeq(s, P + 2, E - 1)
    <3> DEFINE x == p + 1
               y == e - 1
    <3>1. x \in Nat /\ y \in Nat /\ x <= y /\ y <= l /\ x + 1 = p + 2
          /\ (o + x) + 1 = P + 2 /\ o + y = E - 1 /\ y = e - 1
      BY <1>0, <2>0, <2>1
    <3> HIDE DEF x, y
    <3>2. SameText(t, s, o, x, y)
      BY <3>1, PartOfPart
    <3>3. p + 2 = x + 1 /\ e - 1 = y /\ P + 2 = (o + x) + 1 /\ E - 1 = o + y
      BY <3>1
    <3> QED
      BY ONLY <3>2, <3>3, Zenon DEF SameText
  <2> DEFINE C(z, a, b) == {k \in a + 2 .. b : z[k] = ":"
                              /\ b - k \in Unsigned(SubSeq(z, a + 1, k - 1), Lengths)}
             B(z, a, b) == {[bytes |-> SubSeq(z, k + 1, b)] : k \in C(z, a, b)}
  <2>6. ASSUME NEW k \in p + 2 .. e
        PROVE  /\ o + k \in P + 2 .. E /\ t[k] = s[o + k] /\ E - (o + k) = e - k
               /\ SubSeq(t, p + 1, k - 1) = SubSeq(s, P + 1, (o + k) - 1)
               /\ SubSeq(t, k + 1, e) = SubSeq(s, (o + k) + 1, E)
    <3> DEFINE y == k - 1
    <3>1. k \in Nat /\ y \in Nat /\ p <= y /\ y <= l /\ k <= e /\ e <= l /\ k \in 1 .. l
          /\ o + y = (o + k) - 1 /\ y = k - 1
      BY <1>0
    <3> HIDE DEF y
    <3>2. SameText(t, s, o, p, y)
      BY <1>0, <3>1, PartOfPart
    <3>3. SameText(t, s, o, k, e)
      BY <1>0, <3>1, PartOfPart
    <3>4. o + k \in P + 2 .. E /\ E - (o + k) = e - k /\ t[k] = s[o + k]
      BY <1>0, <2>0, <3>1
    <3>5. SubSeq(t, p + 1, k - 1) = SubSeq(s, P + 1, (o + k) - 1)
      BY ONLY <2>0, <3>1, <3>2, Zenon DEF SameText
    <3>6. SubSeq(t, k + 1, e) = SubSeq(s, (o + k) + 1, E)
      BY ONLY <2>0, <3>3, Zenon DEF SameText
    <3> QED
      BY <3>4, <3>5, <3>6
  <2>7. ASSUME NEW k \in P + 2 .. E PROVE k - o \in p + 2 .. e /\ o + (k - o) = k
    BY <1>0, <2>0
  <2>8. \A k \in p + 2 .. e : k \in C(t, p, e) <=> o + k \in C(s, P, E)
    BY <2>6
  <2>9. \A v : v \in B(t, p, e) <=> \E k \in p + 2 .. e :
                 k \in C(t, p, e) /\ v = [bytes |-> SubSeq(t, k + 1, e)]
    OBVIOUS
  <2>10. \A v : v \in B(s, P, E) <=> \E k \in P + 2 .. E :
                 k \in C(s, P, E) /\ v = [bytes |-> SubSeq(s, k + 1, E)]
    OBVIOUS
  <2> HIDE DEF C, B
  <2>11. \A v : v \in B(t, p, e) => v \in B(s, P, E)
    BY <2>6, <2>8, <2>9, <2>10
  <2>12. \A v : v \in B(s, P, E) => v \in B(t, p, e)
    <3> TAKE v
    <3>1. ASSUME NEW k \in P + 2 .. E, k \in C(s, P, E), v = [bytes |-> SubSeq(s, k + 1, E)]
          PROVE  v \in B(t, p, e)
      <4> DEFINE j == k - o
      <4>1. j \in p + 2 .. e /\ o + j = k
        BY <2>7
      <4> HIDE DEF j
      <4>2. j \in C(t, p, e) /\ v = [bytes |-> SubSeq(t, j + 1, e)]
        BY <2>6, <2>8, <3>1, <4>1
      <4> QED
        BY <2>9, <4>1, <4>2
    <3> QED
      BY <2>10, <3>1
  <2>13. B(t, p, e) = B(s, P, E)
    BY <2>11, <2>12
  <2>14. Element(t, items, p, e, strict) = Element(s, items, P, E, strict)
    BY <2>4, <2>5, <2>13 DEF Element, B, C
  <2> QED
    BY <2>0, <2>3, <2>14, Zenon DEF SameMeaning
<1> QED
  BY <1>1, <1>2

LEMMA RunsOfPart ==
    ASSUME NEW s \in Seq(Byte), NEW strict, NEW o \in Nat, NEW l \in Nat, NEW t, PartOf(t, s, o, l)
    PROVE  \A a, b \in 0 .. l : SameRuns(t, s, strict, o, a, b)
<1> DEFINE T == {k \in 0 .. l : \A a, b \in 0 .. l : b - a <= k => SameRuns(t, s, strict, o, a, b)}
<1>0. /\ t \in Seq(Byte) /\ Len(t) = l /\ Len(s) \in Nat
      /\ \A x \in 0 .. l : o + x \in 0 .. Len(s)
  <2>1. t \in Seq(Byte) /\ Len(t) = l
    BY PartIs
  <2>2. o + l <= Len(s) /\ Len(s) \in Nat
    BY DEF PartOf
  <2> QED
    BY <2>1, <2>2
<1>1. ASSUME NEW k \in 0 .. l, NEW a \in 0 .. l, NEW b \in 0 .. l, b - a <= k,
             \A c, d \in 0 .. l : d - c < k => SameRuns(t, s, strict, o, c, d)
      PROVE  SameRuns(t, s, strict, o, a, b)
  <2> DEFINE A == o + a
             B == o + b
  <2>0. A \in 0 .. Len(s) /\ B \in 0 .. Len(s) /\ A \in Nat /\ B \in Nat /\ A = o + a /\ B = o + b
    BY <1>0
  <2> HIDE DEF A, B
  <2>1. ASSUME NEW j \in a + 2 .. b
        PROVE  /\ j \in 0 .. l /\ o + j \in A + 2 .. B
               /\ Meant(t, strict, a, j) = Meant(s, strict, A, o + j)
               /\ Runs(t, strict, j, b) = Runs(s, strict, o + j, B)
    <3>1. j \in 0 .. l /\ b - j < k /\ a + 1 \in 0 .. l /\ j - 1 \in 0 .. l
          /\ (j - 1) - (a + 1) < k /\ o + j \in A + 2 .. B
      BY <1>0, <1>1, <2>0
    <3>2. SameRuns(t, s, strict, o, j, b) /\ SameRuns(t, s, strict, o, a + 1, j - 1)
      BY <1>1, <3>1
    <3>3. SameMeaning(t, s, strict, o, a, j)
      BY <3>1, <3>2, MeaningOfPart
    <3> QED
      BY <2>0, <3>1, <3>2, <3>3, Zenon DEF SameRuns, SameMeaning
  <2>2. \A j \in A + 2 .. B : j - o \in a + 2 .. b /\ o + (j - o) = j
    BY <1>0, <2>0
  <2>3. ASSUME NEW q PROVE Heads(t, strict, a, b, q) => Heads(s, strict, A, B, q)
    BY <2>1, Zenon DEF Heads
  <2>4. ASSUME NEW q PROVE Heads(s, strict, A, B, q) => Heads(t, strict, a, b, q)
    <3> SUFFICES ASSUME NEW j \in A + 2 .. B,
                        \E v \in Meant(s, strict, A, j) : \E rest \in Runs(s, strict, j, B) :
                          q = <<v>> \o rest
                 PROVE  Heads(t, strict, a, b, q)
      BY DEF Heads
    <3> DEFINE i == j - o
    <3>1. i \in a + 2 .. b /\ o + i = j
      BY <2>2
    <3> HIDE DEF i
    <3>2. Meant(t, strict, a, i) = Meant(s, strict, A, j)
                  /\ Runs(t, strict, i, b) = Runs(s, strict, j, B)
      BY <2>1, <3>1
    <3> QED
      BY <3>1, <3>2, Zenon DEF Heads
  <2>5. a = b <=> A = B
    BY <2>0
  <2>6. ASSUME NEW q PROVE q \in Runs(t, strict, a, b) <=> q \in Runs(s, strict, A, B)
    <3>1. q \in Runs(t, strict, a, b) <=> (a = b /\ q = <<>>) \/ Heads(t, strict, a, b, q)
      BY <1>0, CutUp
    <3>2. q \in Runs(s, strict, A, B) <=> (A = B /\ q = <<>>) \/ Heads(s, strict, A, B, q)
      BY <2>0, CutUp
    <3> QED
      BY <2>3, <2>4, <2>5, <3>1, <3>2
  <2>7. Runs(t, strict, a, b) = Runs(s, strict, A, B)
    BY <2>6
  <2> QED
    BY <2>0, <2>7 DEF SameRuns
<1>2. 0 \in T
  <2>1. ASSUME NEW a \in 0 .. l, NEW b \in 0 .. l, b - a <= 0
        PROVE  SameRuns(t, s, strict, o, a, b)
    <3> DEFINE A == o + a
               B == o + b
    <3>a. A \in 0 .. Len(s) /\ B \in 0 .. Len(s)
      BY <1>0
    <3>b. (a = b <=> A = B) /\ a + 2 .. b = {} /\ A + 2 .. B = {}
      BY <2>1
    <3>0. A \in 0 .. Len(s) /\ B \in 0 .. Len(s) /\ (a = b <=> A = B)
          /\ a + 2 .. b = {} /\ A + 2 .. B = {}
      BY <3>a, <3>b
    <3> HIDE DEF A, B
    <3>1. ASSUME NEW q PROVE q \in Runs(t, strict, a, b) <=> q \in Runs(s, strict, A, B)
      <4>1. ~Heads(t, strict, a, b, q) /\ ~Heads(s, strict, A, B, q)
        BY <3>0 DEF Heads
      <4>2. q \in Runs(t, strict, a, b) <=> (a = b /\ q = <<>>) \/ Heads(t, strict, a, b, q)
        BY <1>0, CutUp
      <4>3. q \in Runs(s, strict, A, B) <=> (A = B /\ q = <<>>) \/ Heads(s, strict, A, B, q)
        BY <3>0, CutUp
      <4> QED
        BY <3>0, <4>1, <4>2, <4>3
    <3> QED
      BY <3>1 DEF SameRuns, A, B
  <2> QED
    BY <2>1
<1>3. ASSUME NEW k \in 0 .. l - 1, k \in T PROVE k + 1 \in T
  <2>1. k + 1 \in 0 .. l /\ \A c, d \in 0 .. l : d - c < k + 1 => d - c <= k
    OBVIOUS
  <2>2. \A c, d \in 0 .. l : d - c < k + 1 => SameRuns(t, s, strict, o, c, d)
    BY <1>3, <2>1
  <2>3. \A a, b \in 0 .. l : b - a <= k + 1 => SameRuns(t, s, strict, o, a, b)
    BY <1>1, <2>1, <2>2
  <2> QED
    BY <2>1, <2>3
<1>4. 0 .. l \subseteq T
  <2> HIDE DEF T
  <2> QED
    BY <1>2, <1>3, UpTo
<1> QED
  <2>1. l \in T /\ \A a, b \in 0 .. l : b - a <= l
    BY <1>4
  <2> QED
    BY <2>1

LEMMA SamePart ==
    ASSUME NEW s \in Seq(Byte), NEW strict, NEW o \in Nat, NEW l \in Nat, NEW t, PartOf(t, s, o, l),
           NEW p \in 0 .. l, NEW e \in 0 .. l
    PROVE  SameMeaning(t, s, strict, o, p, e)
<1>0. p + 2 <= e => p + 1 \in 0 .. l /\ e - 1 \in 0 .. l
  OBVIOUS
<1>1. \A a, b \in 0 .. l : SameRuns(t, s, strict, o, a, b)
  BY RunsOfPart
<1>2. p + 2 <= e => SameRuns(t, s, strict, o, p + 1, e - 1)
  BY <1>0, <1>1
<1> QED
  BY <1>2, MeaningOfPart

-----------------------------------------------------------------------------
(* What is next to what. *)

(* Two neighbours of a sequence are encoded one after the other.            *)
Beside(s, strict, b, v, w) ==
    \E c, d, e \in 0 .. Len(s) : e <= b /\ v \in Meant(s, strict, c, d)
                  /\ w \in Meant(s, strict, d, e)

LEMMA FirstOfRun ==
    ASSUME NEW s \in Seq(Byte), NEW strict, NEW a \in 0 .. Len(s), NEW b \in 0 .. Len(s),
           NEW q \in Runs(s, strict, a, b), Len(q) >= 1
    PROVE  \E c \in 0 .. Len(s) : c <= b /\ q[1] \in Meant(s, strict, a, c)
<1>0. Len(s) \in Nat /\ q # <<>>
  OBVIOUS
<1>1. Heads(s, strict, a, b, q)
  BY <1>0, CutUp
<1>2. PICK c \in a + 2 .. b : \E v \in Meant(s, strict, a, c) : \E rest \in Runs(s, strict, c, b) :
        q = <<v>> \o rest
  BY <1>1 DEF Heads
<1>3. PICK v \in Meant(s, strict, a, c), rest \in Runs(s, strict, c, b) : q = <<v>> \o rest
  BY <1>2
<1>4. c \in 0 .. Len(s) /\ c <= b
  BY <1>0
<1>5. v \in Values(s, strict) /\ rest \in Seq(Values(s, strict))
  BY <1>4, ValueOf, ItemsTyped
<1>6. q[1] = v
  BY <1>3, <1>5, Conses
<1> QED
  BY <1>4, <1>6

LEMMA Neighbours ==
    ASSUME NEW s \in Seq(Byte), NEW strict, NEW b \in 0 .. Len(s)
    PROVE  \A a \in 0 .. Len(s) : \A q \in Runs(s, strict, a, b) : \A i \in 1 .. Len(q) - 1 :
             Beside(s, strict, b, q[i], q[i + 1])
<1> DEFINE n == Len(s)
           All(q) == \A i \in 1 .. Len(q) - 1 : Beside(s, strict, b, q[i], q[i + 1])
           T == {k \in 0 .. n : \A a \in 0 .. n : b - a <= k =>
                         \A q \in Runs(s, strict, a, b) : All(q)}
           V == Values(s, strict)
<1>0. n \in Nat /\ b \in 0 .. n
  OBVIOUS
<1> HIDE DEF V
<1>1. ASSUME NEW k \in 0 .. n, NEW a \in 0 .. n, b - a <= k,
             \A c \in 0 .. n : b - c < k => \A q \in Runs(s, strict, c, b) : All(q),
             NEW q \in Runs(s, strict, a, b), NEW i \in 1 .. Len(q) - 1
      PROVE  Beside(s, strict, b, q[i], q[i + 1])
  <2>1. q # <<>>
    OBVIOUS
  <2>2. Heads(s, strict, a, b, q)
    BY <2>1, CutUp
  <2>3. PICK c \in a + 2 .. b : \E v \in Meant(s, strict, a, c) :
                \E rest \in Runs(s, strict, c, b) :
          q = <<v>> \o rest
    BY <2>2 DEF Heads
  <2>4. PICK v \in Meant(s, strict, a, c), rest \in Runs(s, strict, c, b) : q = <<v>> \o rest
    BY <2>3
  <2>5. c \in 0 .. n /\ b - c < k
    BY <1>0, <1>1
  <2>6. v \in V /\ rest \in Seq(V)
    BY <2>5, ValueOf, ItemsTyped DEF V
  <2>7. Len(q) = 1 + Len(rest) /\ q[1] = v /\ \A j \in 1 .. Len(rest) : q[1 + j] = rest[j]
    BY <2>4, <2>6, Conses
  <2>8. Len(rest) \in Nat /\ i \in 1 .. Len(rest)
    BY <2>6, <2>7
  <2>9. CASE i = 1
    <3>1. q[i] = v /\ q[i + 1] = rest[1] /\ Len(rest) >= 1
      BY <2>7, <2>8, <2>9
    <3>2. PICK e \in 0 .. n : e <= b /\ rest[1] \in Meant(s, strict, c, e)
      BY <2>5, <3>1, FirstOfRun
    <3> QED
      BY <2>5, <3>1, <3>2 DEF Beside
  <2>10. CASE i # 1
    <3>1. i - 1 \in 1 .. Len(rest) - 1 /\ (i - 1) + 1 = i /\ 1 + (i - 1) = i /\ 1 + i = i + 1
      BY <2>8, <2>10
    <3>2. Beside(s, strict, b, rest[i - 1], rest[(i - 1) + 1])
      BY <1>1, <2>5, <3>1
    <3>3. i - 1 \in 1 .. Len(rest) /\ q[1 + (i - 1)] = rest[i - 1] /\ q[1 + i] = rest[i]
      BY <2>7, <2>8, <3>1
    <3>4. q[i] = rest[i - 1] /\ q[i + 1] = rest[i] /\ rest[(i - 1) + 1] = rest[i]
      BY ONLY <3>1, <3>3, Zenon
    <3> QED
      BY ONLY <3>2, <3>4, Zenon
  <2> QED
    BY <2>9, <2>10
<1> HIDE DEF All
<1>2. 0 \in T
  <2>1. ASSUME NEW a \in 0 .. n, b - a <= 0, NEW q \in Runs(s, strict, a, b) PROVE All(q)
    <3>1. a + 2 .. b = {}
      BY <1>0, <2>1
    <3>2. ~Heads(s, strict, a, b, q)
      BY <3>1 DEF Heads
    <3>3. q = <<>>
      BY <2>1, <3>2, CutUp
    <3>4. 1 .. Len(q) - 1 = {}
      BY <3>3
    <3> QED
      BY <3>4 DEF All
  <2> QED
    BY <1>0, <2>1
<1>3. ASSUME NEW k \in 0 .. n - 1, k \in T PROVE k + 1 \in T
  <2>1. k + 1 \in 0 .. n
    BY <1>0
  <2>2. ASSUME NEW a \in 0 .. n, b - a <= k + 1, NEW q \in Runs(s, strict, a, b) PROVE All(q)
    <3>1. \A c \in 0 .. n : b - c < k + 1 => \A r \in Runs(s, strict, c, b) : All(r)
      BY <1>0, <1>3
    <3> QED
      BY <1>1, <2>1, <2>2, <3>1 DEF All
  <2> QED
    BY <2>1, <2>2
<1>4. 0 .. n \subseteq T
  <2> HIDE DEF T, n
  <2> QED
    BY <1>0, <1>2, <1>3, UpTo
<1>5. n \in T /\ \A a \in 0 .. n : b - a <= n
  <2> HIDE DEF T, n
  <2> QED
    BY <1>0, <1>4
<1>6. \A a \in 0 .. n : \A q \in Runs(s, strict, a, b) : All(q)
  <2> HIDE DEF All, n
  <2> QED
    BY <1>5
<1> QED
  BY <1>6 DEF All

-----------------------------------------------------------------------------
(* The number 1 ends with the digit 1. *)

LEMMA DigitIs ==
    ASSUME NEW c \in Digit
    PROVE  DigitOf(c) \in 0 .. 9 /\ DigitChars[DigitOf(c) + 1] = c
<1> DEFINE Is(i) == DigitChars[i] = c
           i == CHOOSE j \in DOMAIN DigitChars : Is(j)
<1>1. \E j \in DOMAIN DigitChars : Is(j)
  BY DEF Digit
<1>2. i \in DOMAIN DigitChars /\ Is(i)
  <2> HIDE DEF Is
  <2> QED
    BY <1>1
<1>3. DigitOf(c) = i - 1
  BY DEF DigitOf
<1>4. DOMAIN DigitChars = 1 .. 10
  BY DEF DigitChars
<1> HIDE DEF i
<1>5. i \in 1 .. 10 /\ DigitChars[i] = c
  BY <1>2, <1>4
<1>6. i - 1 \in 0 .. 9 /\ (i - 1) + 1 = i
  BY <1>5
<1> QED
  BY <1>3, <1>5, <1>6

(* What the fold has after each digit.                                      *)
LEMMA LastDigit ==
    ASSUME NEW t \in Seq(Byte), IsDigits(t)
    PROVE  \E x \in Nat : Magnitude(t) = AddDigit(x, t[Len(t)])
<1> DEFINE n == Len(t)
           g == [x \in Nat \X (1 .. n) |-> AddDigit(x[1], t[x[2]])]
           Is(h) == h = [s \in SUBSET DOMAIN t |->
                           IF s = {} THEN 0 ELSE AddDigit(h[s \ {Max(s)}], t[Max(s)])]
<1>0. n \in Nat /\ DOMAIN t = 1 .. n /\ n > 0
  BY DEF IsDigits
<1>a. \A i \in 1 .. n : DigitOf(t[i]) \in Nat
  BY <1>0, DigitIs DEF IsDigits
<1>b. \A x \in Nat, i \in 1 .. n : AddDigit(x, t[i]) \in Nat
  BY <1>a DEF AddDigit
<1> HIDE DEF n
<1>1. g \in [Nat \X (1 .. n) -> Nat]
  BY <1>0, <1>b
<1>2. PICK f \in [SUBSET (1 .. n) -> Nat] :
             \A s \in SUBSET (1 .. n) :
               f[s] = IF s = {} THEN 0 ELSE AddDigit(f[s \ {Max(s)}], t[Max(s)])
  <2>1. PICK f \in [SUBSET (1 .. n) -> Nat] : FoldsAs(f, 0, g, n)
    <3> HIDE DEF g
    <3>1. 0 \in Nat
      OBVIOUS
    <3> QED
      BY <1>0, <1>1, <3>1, FoldFor
  <2>2. ASSUME NEW s \in SUBSET (1 .. n), s # {}
        PROVE  f[s] = AddDigit(f[s \ {Max(s)}], t[Max(s)])
    <3>1. Max(s) \in 1 .. n /\ f[s \ {Max(s)}] \in Nat
      BY <1>0, <2>2, Greatest
    <3>2. f[s] = g[<<f[s \ {Max(s)}], Max(s)>>]
      BY <2>1, <2>2 DEF FoldsAs
    <3> QED
      BY <3>1, <3>2
  <2>3. f[{}] = 0
    BY <2>1 DEF FoldsAs
  <2> QED
    BY <2>2, <2>3
<1>3. Is(f)
  <2>1. f = [s \in SUBSET DOMAIN t |-> f[s]]
    BY <1>0
  <2> QED
    BY <1>0, <1>2, <2>1
<1> DEFINE h == CHOOSE h : Is(h)
<1>4. Is(h)
  <2> HIDE DEF Is
  <2> QED
    BY <1>3
<1>5. Magnitude(t) = h[DOMAIN t]
  BY DEF Magnitude, FoldLeft, MapThenFoldSet
<1> HIDE DEF h
<1> DEFINE acc == [i \in 0 .. n |-> h[1 .. i]]
<1>6. acc[0] = 0
  <2>1. 1 .. 0 = {} /\ 0 \in 0 .. n
    BY <1>0
  <2> QED
    BY <1>4, <2>1
<1>7. ASSUME NEW i \in 1 .. n PROVE acc[i] = AddDigit(acc[i - 1], t[i])
  <2>1. i \in Nat \ {0} /\ i \in 0 .. n /\ i - 1 \in 0 .. n /\ 1 .. i \in SUBSET DOMAIN t
    BY <1>0
  <2>2. h[1 .. i] = AddDigit(h[1 .. i - 1], t[i])
    BY <1>4, <2>1, Seen
  <2> QED
    BY <2>1, <2>2
<1>8. Magnitude(t) = acc[n]
  BY <1>0, <1>5
<1> HIDE DEF acc
<1>9. \A i \in 1 .. n : acc[i - 1] \in Nat => acc[i] \in Nat
  BY <1>0, <1>7, <1>b
<1>10. \A i \in 0 .. n : acc[i] \in Nat
  <2>1. PICK S : S = Nat
    OBVIOUS
  <2>2. acc[0] \in S /\ \A i \in 1 .. n : acc[i - 1] \in S => acc[i] \in S
    BY <1>6, <1>9, <2>1
  <2>3. \A i \in 0 .. n : acc[i] \in S
    BY ONLY <1>0, <2>2, Loops
  <2> QED
    BY <2>1, <2>3
<1>11. n - 1 \in 0 .. n /\ n \in 1 .. n
  BY <1>0
<1> QED
  BY <1>7, <1>8, <1>10, <1>11 DEF n

LEMMA OneEndsWithOne ==
    ASSUME NEW t \in Seq(Byte), IsDigits(t), Magnitude(t) = 1
    PROVE  t[Len(t)] = "1"
<1> DEFINE c == t[Len(t)]
<1>1. c \in Digit
  BY DEF IsDigits
<1>2. PICK x \in Nat : Magnitude(t) = 10 * x + DigitOf(c)
  BY LastDigit DEF AddDigit
<1> HIDE DEF c
<1>3. DigitOf(c) = 1
  BY <1>1, <1>2, DigitIs
<1>4. c = DigitChars[2]
  BY <1>1, <1>3, DigitIs
<1> QED
  BY <1>4 DEF DigitChars, c

-----------------------------------------------------------------------------
(* Values by what they are. *)

LEMMA DictBegins ==
    ASSUME NEW s \in Seq(Byte), NEW strict, NEW p \in 0 .. Len(s), NEW e \in 0 .. Len(s),
           NEW v \in Meant(s, strict, p, e), "dict" \in DOMAIN v
    PROVE  s[p + 1] = "d"
<1> DEFINE items == Runs(s, strict, p + 1, e - 1)
<1>1. v \in Element(s, items, p, e, strict)
  BY Starts
<1> HIDE DEF items
<1> QED
  BY <1>1 DEF Element

LEMMA BytesBegin ==
    ASSUME NEW s \in Seq(Byte), NEW strict, NEW p \in 0 .. Len(s), NEW e \in 0 .. Len(s),
           NEW v \in Meant(s, strict, p, e), "bytes" \in DOMAIN v
    PROVE  s[p + 1] \in Digit
<1> DEFINE items == Runs(s, strict, p + 1, e - 1)
<1>1. v \in Element(s, items, p, e, strict)
  BY Starts
<1> HIDE DEF items
<1> QED
  BY <1>1 DEF Element

(* A dictionary's value is after its key: "1:" and the key, if that is of    *)
(* one byte.                                                                *)
LEMMA EntryOfDict ==
    ASSUME NEW V, NEW got \in Seq(V), Entries(got), NEW key, key \in DOMAIN Dictionary(got)
    PROVE  \E i \in 1 .. Len(got) - 1 :
             /\ "bytes" \in DOMAIN got[i] /\ got[i].bytes = key
             /\ Dictionary(got)[key] = got[i + 1]
<1> DEFINE keys == {got[i].bytes : i \in {j \in DOMAIN got : j % 2 = 1}}
           KeyAt(k) == {i \in DOMAIN got : i % 2 = 1 /\ got[i].bytes = k}
           IsLast(k, i) == \A j \in KeyAt(k) : j <= i
           Pick(k) == CHOOSE i \in KeyAt(k) : IsLast(k, i)
<1>0. Len(got) \in Nat /\ DOMAIN got = 1 .. Len(got)
  OBVIOUS
<1>1. Dictionary(got) = [k \in keys |-> got[1 + Pick(k)]]
  BY DEF Dictionary
<1>2. key \in keys /\ Dictionary(got)[key] = got[1 + Pick(key)]
  <2> HIDE DEF Pick, keys
  <2> QED
    BY <1>1
<1> DEFINE K == KeyAt(key)
<1>3. K # {} /\ K \subseteq 1 .. Len(got)
  BY <1>0, <1>2
<1> DEFINE x == Max(K)
<1>4. x \in K /\ \A j \in K : j <= x
  <2> HIDE DEF K
  <2> QED
    BY <1>0, <1>3, Greatest
<1> HIDE DEF x
<1>5. Pick(key) \in K
  <2>1. x \in KeyAt(key) /\ IsLast(key, x)
    BY <1>4
  <2> HIDE DEF IsLast, KeyAt
  <2>2. Pick(key) \in KeyAt(key)
    BY <2>1
  <2> QED
    BY <2>2
<1> DEFINE i == Pick(key)
<1> HIDE DEF Pick
<1>6. i \in DOMAIN got /\ i % 2 = 1 /\ got[i].bytes = key
  BY <1>5
<1> HIDE DEF i
<1>7. Len(got) % 2 = 0 /\ "bytes" \in DOMAIN got[i]
  BY <1>6 DEF Entries
<1>8. i \in 1 .. Len(got) - 1
  BY <1>0, <1>6, <1>7
<1>9. 1 + i = i + 1
  BY <1>0, <1>6
<1>10. Dictionary(got)[key] = got[i + 1]
  BY <1>2, <1>9 DEF i
<1> QED
  BY <1>6, <1>7, <1>8, <1>10

EndsOneByteKey(s, d, x) ==
    d >= 3 /\ d <= Len(s) /\ s[d - 2] = "1" /\ s[d - 1] = ":" /\ s[d] = x

LEMMA OneByteKey ==
    ASSUME NEW s \in Seq(Byte), NEW strict, NEW c \in 0 .. Len(s), NEW d \in 0 .. Len(s),
           NEW v \in Meant(s, strict, c, d), "bytes" \in DOMAIN v, NEW x, v.bytes = <<x>>
    PROVE  EndsOneByteKey(s, d, x)
<1>0. Len(s) \in Nat /\ c \in Nat /\ d \in Nat
  OBVIOUS
<1>1. s[c + 1] \in Digit
  BY BytesBegin
<1>2. PICK k : IsString(s, c, d, k, v)
  BY <1>1, StringOf
<1>3. /\ k \in c + 2 .. d /\ s[k] = ":" /\ SubSeq(s, k + 1, d) = <<x>>
      /\ d - k \in Unsigned(SubSeq(s, c + 1, k - 1), Lengths)
  BY <1>2 DEF IsString
<1>4. d - k = 1 /\ s[d] = x
  <2>1. k \in Nat /\ k <= d /\ d <= Len(s)
    BY <1>0, <1>3
  <2> DEFINE z == SubSeq(s, k + 1, d)
             n == d - k
  <2>2. n \in Nat /\ k + n = d
    BY <2>1
  <2> HIDE DEF n
  <2>3. Stretches(SubSeq(s, k + 1, k + n), Byte, s, k, n)
    BY <2>1, <2>2, Stretch
  <2>4. Len(z) = n /\ \A i \in 1 .. n : z[i] = s[k + i]
    BY <2>2, <2>3 DEF Stretches
  <2>5. z = <<x>>
    BY <1>3
  <2> HIDE DEF z
  <2>6. n = 1 /\ z[1] = x
    BY <2>4, <2>5
  <2>7. z[1] = s[k + 1] /\ d = k + 1
    BY <2>2, <2>4, <2>6
  <2> QED
    BY <2>6, <2>7 DEF n
<1> DEFINE y == k - 1
           t == SubSeq(s, c + 1, y)
<1>5. y \in Nat /\ c < y /\ y <= Len(s)
  BY <1>0, <1>3
<1>6. 1 \in Unsigned(t, Lengths)
  BY <1>3, <1>4
<1> HIDE DEF y
<1> DEFINE n == y - c
<1>7. n \in Nat /\ n >= 1 /\ c + n = y
  BY <1>5
<1> HIDE DEF n
<1>8. Stretches(SubSeq(s, c + 1, c + n), Byte, s, c, n)
  BY ONLY <1>0, <1>5, <1>7, s \in Seq(Byte), Stretch
<1>9. t \in Seq(Byte) /\ Len(t) = n /\ \A i \in 1 .. n : t[i] = s[c + i]
  BY <1>7, <1>8 DEF Stretches
<1> HIDE DEF t
<1>10. t[1] = s[c + 1] /\ t[n] = s[y] /\ t[1] # "+"
  <2>1. 1 \in 1 .. n /\ n \in 1 .. n
    BY <1>7
  <2> QED
    BY <1>1, <1>7, <1>9, <2>1, Kinds
<1>11. IsDigits(t) /\ Magnitude(t) = 1
  BY <1>6, <1>10 DEF Unsigned, Only
<1>12. s[y] = "1"
  BY <1>9, <1>10, <1>11, OneEndsWithOne
<1>13. k = d - 1 /\ y = d - 2 /\ d >= 3 /\ d <= Len(s)
  BY <1>0, <1>3, <1>4, <1>5 DEF y
<1> QED
  BY <1>3, <1>4, <1>12, <1>13 DEF EndsOneByteKey

=============================================================================
