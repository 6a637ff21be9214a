--------------------------- MODULE CommandsProofs ---------------------------
(***************************************************************************)
(* What `rusty info` and `rusty magnet` display, for every file and every  *)
(* link: info is Metainfo, and the hash, the name and the trackers of a    *)
(* link come out as they were put in.                                      *)
(***************************************************************************)
EXTENDS Commands, MetainfoProofs, FiniteSetTheorems

-----------------------------------------------------------------------------
(* info is from_bytes. *)

(* cmd_info adds nothing to Metainfo::from_bytes, and cmd_magnet does not   *)
(* touch it: what is proved of Metainfo holds of the commands.              *)
THEOREM InfoIsMetainfo == CommandSpec => Spec
<1>1. CommandInit => Init
  BY DEF CommandInit
<1>2. ASSUME [CommandNext]_<<vars, commandVars>> PROVE [Next]_vars
  <2>1. CASE FromFile
    BY <2>1 DEF FromFile
  <2>2. CASE Unreadable \/ ShowInfo \/ ShowMagnet
    BY <2>2 DEF Unreadable, ShowInfo, ShowMagnet
  <2> QED
    BY <1>2, <2>1, <2>2 DEF CommandNext
<1> QED
  BY <1>1, <1>2, PTL DEF CommandSpec, Spec

(* The types of the program that runs, whatever it is given.                *)
THEOREM InfoTypes == CommandSpec => []TypeOK
  BY InfoIsMetainfo, TypeCorrect, PTL

(* The lengths add up in what `rusty info` displays (metainfo.rs:163).      *)
THEOREM InfoSizes == CommandSpec => []SizesAgree
  BY InfoIsMetainfo, SizesCorrect, PTL

(* The hash displayed is of the info dictionary that the other fields come   *)
(* from (metainfo.rs:188), when the file has one mark.                       *)
THEOREM InfoHash == CommandSpec => []HashOfOnlyInfo
  BY InfoIsMetainfo, HashCorrect, PTL

-----------------------------------------------------------------------------
(* The parameters of a link. *)

LEMMA FirstIsLeast ==
    ASSUME NEW K, K \subseteq Nat, K # {}
    PROVE  FirstOf(K) \in K /\ \A j \in K : FirstOf(K) <= j
<1>1. \E x \in K : \A y \in K : x <= y
  BY Least
<1> QED
  BY <1>1 DEF FirstOf

Keys(params, key) == {i \in DOMAIN params : params[i].key = key}

LEMMA FirstFound ==
    ASSUME NEW params, IsSequence(params), NEW key
    PROVE  IF Keys(params, key) = {} THEN FindFirst(params, key) = {}
           ELSE FindFirst(params, key) = {params[FirstOf(Keys(params, key))].value}
<1> DEFINE K == Keys(params, key)
           Firsts == {j \in DOMAIN params :
                        params[j].key = key /\ \A k \in 1 .. j - 1 : params[k].key # key}
<1>1. FindFirst(params, key) = {params[i].value : i \in Firsts}
  BY DEF FindFirst
<1>2. Firsts \subseteq K
  BY DEF Keys
<1>3. CASE K = {}
  BY <1>1, <1>2, <1>3
<1>4. CASE K # {}
  <2> DEFINE f == FirstOf(K)
             n == Len(params)
  <2>1. K \subseteq 1 .. n /\ n \in Nat /\ DOMAIN params = 1 .. n
    BY DEF Keys, IsSequence
  <2>2. f \in K /\ \A j \in K : f <= j
    <3>1. K \subseteq Nat
      BY <2>1
    <3> QED
      BY <1>4, <3>1, FirstIsLeast
  <2>3. f \in Firsts
    <3>1. ASSUME NEW k \in 1 .. f - 1, params[k].key = key PROVE FALSE
      <4>1. k \in K
        BY <2>1, <2>2, <3>1 DEF Keys
      <4> QED
        BY <2>1, <2>2, <4>1
    <3> QED
      BY <2>2, <3>1 DEF Keys
  <2>4. ASSUME NEW j \in Firsts PROVE j = f
    <3>1. j \in K /\ f <= j /\ params[f].key = key
      BY <1>2, <2>2 DEF Keys
    <3>2. ~(f <= j - 1)
      BY <2>1, <2>2, <3>1
    <3> QED
      BY <2>1, <2>2, <3>1, <3>2
  <2>5. Firsts = {f}
    BY <2>3, <2>4
  <2> HIDE DEF Firsts, f
  <2> QED
    BY <1>1, <1>4, <2>5 DEF f
<1> QED
  BY <1>3, <1>4

-----------------------------------------------------------------------------
(* The hash of a link. *)

LEMMA DigitValues ==
    /\ \A c \in HexDigit : c \in Nat /\ DigitValue(c) \in 0 .. 15 /\ c # PlusSign
                           /\ c \notin ContinuationByte
    /\ \A c \in Nat : Lower(c) \in HexDigit => c \in HexDigit
  BY DEF HexDigit, DigitValue, PlusSign, ContinuationByte, Lower

HexChar(d) == IF d < 10 THEN 48 + d ELSE 87 + d

LEMMA HexChars ==
    /\ \A d \in 0 .. 15 : HexChar(d) \in HexDigit /\ DigitValue(HexChar(d)) = d
    /\ \A c \in HexDigit : HexChar(DigitValue(c)) = Lower(c)
  BY DEF HexDigit, DigitValue, HexChar, Lower

LEMMA TwoDigits ==
    ASSUME NEW a \in HexDigit, NEW b \in HexDigit
    PROVE  HexByte(<<a, b>>) = {16 * DigitValue(a) + DigitValue(b)}
<1>1. a # PlusSign
  BY DigitValues
<1>2. /\ <<a, b>> # <<>> /\ <<a, b>>[1] = a /\ <<a, b>>[2] = b
      /\ DOMAIN <<a, b>> = {1, 2} /\ Len(<<a, b>>) = 2
  OBVIOUS
<1> QED
  BY <1>1, <1>2 DEF HexByte

LEMMA NibblesBack ==
    ASSUME NEW x \in 0 .. 15, NEW y \in 0 .. 15
    PROVE  /\ 16 * x + y \in 0 .. 255
           /\ (16 * x + y) \div 16 = x /\ (16 * x + y) % 16 = y
  OBVIOUS

LEMMA OneByte ==
    ASSUME NEW h \in Seq(Nat), NEW b \in HexByte(h)
    PROVE  b \in 0 .. 255
<1> DEFINE digits == IF h # <<>> /\ h[1] = PlusSign THEN Tail(h) ELSE h
<1>1. digits \in Seq(Nat)
  OBVIOUS
<1> HIDE DEF digits
<1>2. HexByte(h) =
        IF \E i \in DOMAIN digits : digits[i] \notin HexDigit THEN {}
        ELSE IF Len(digits) = 1 THEN {DigitValue(digits[1])}
        ELSE IF Len(digits) = 2 THEN {16 * DigitValue(digits[1]) + DigitValue(digits[2])}
        ELSE {}
  BY DEF HexByte, digits
<1>3. \A i \in DOMAIN digits : digits[i] \in HexDigit
  BY <1>2
<1>4. CASE Len(digits) = 1
  <2>1. DigitValue(digits[1]) \in 0 .. 15
    BY <1>1, <1>3, <1>4, DigitValues
  <2> QED
    BY <1>2, <1>3, <1>4, <2>1
<1>5. CASE Len(digits) = 2
  <2>1. DigitValue(digits[1]) \in 0 .. 15 /\ DigitValue(digits[2]) \in 0 .. 15
    BY <1>1, <1>3, <1>5, DigitValues
  <2>2. b = 16 * DigitValue(digits[1]) + DigitValue(digits[2])
    BY <1>2, <1>3, <1>5
  <2> QED
    BY ONLY <2>1, <2>2, NibblesBack
<1> QED
  BY <1>2, <1>4, <1>5

Half == HashChars \div 2

LEMMA TwoHalves == Half \in Nat /\ HashChars = 2 * Half /\ HashChars \in Nat
  BY HashCharsOK DEF Half

(* The two characters of a byte of the hash. *)
LEMMA PairOf ==
    ASSUME NEW hash \in Seq(Nat), Len(hash) = HashChars, NEW i \in 1 .. Half
    PROVE  /\ 2 * i - 1 \in 1 .. HashChars /\ 2 * i \in 1 .. HashChars
           /\ Pair(hash, i) = <<hash[2 * i - 1], hash[2 * i]>>
           /\ Pair(hash, i) \in Seq(Nat)
<1> DEFINE m == 2 * i - 2
           n == 2
           c == SubSeq(hash, m + 1, m + n)
<1>1. /\ m \in Nat /\ n \in Nat /\ m + n <= Len(hash) /\ m + 1 = 2 * i - 1 /\ m + n = 2 * i
      /\ m + 1 \in 1 .. HashChars /\ m + 2 \in 1 .. HashChars
  BY TwoHalves
<1>2. Stretches(c, Nat, hash, m, n)
  <2> HIDE DEF m, n
  <2> QED
    BY ONLY <1>1, hash \in Seq(Nat), Stretch
<1>3. c \in Seq(Nat) /\ Len(c) = 2 /\ c[1] = hash[m + 1] /\ c[2] = hash[m + 2]
  BY <1>2 DEF Stretches
<1>4. Pair(hash, i) = c
  BY <1>1 DEF Pair
<1> HIDE DEF c, m, n
<1>5. c = <<hash[m + 1], hash[m + 2]>>
  BY <1>3
<1> QED
  BY <1>1, <1>3, <1>4, <1>5 DEF n

(* The bytes of the hash that are none, and those that parse_xt returns.    *)
BadBytes(hash) ==
    {i \in 1 .. HashChars \div 2 : MidCharacter(hash, i) \/ HexByte(Pair(hash, i)) = {}}

BytesOf(hash) ==
    [i \in 1 .. HashChars \div 2 |-> CHOOSE b \in HexByte(Pair(hash, i)) : TRUE]

LEMMA Accepted ==
    ASSUME NEW xt, xt # <<>>, xt[1] = UrnBtih, Len(Tail(xt)) = HashChars,
           BadBytes(Tail(xt)) = {}
    PROVE  ParseXt(xt) = [hash |-> BytesOf(Tail(xt))]
  BY Zenon DEF ParseXt, BadBytes, BytesOf

(* What parse_xt makes of forty hexadecimal digits. *)
LEMMA ParsedDigits ==
    ASSUME NEW hash \in Seq(Nat), Len(hash) = HashChars,
           \A k \in 1 .. HashChars : hash[k] \in HexDigit,
           NEW xt, xt # <<>>, xt[1] = UrnBtih, Tail(xt) = hash
    PROVE  ParseXt(xt) = [hash |-> [i \in 1 .. Half |->
                            16 * DigitValue(hash[2 * i - 1]) + DigitValue(hash[2 * i])]]
<1> DEFINE val(i) == 16 * DigitValue(hash[2 * i - 1]) + DigitValue(hash[2 * i])
           byte(i) == CHOOSE b \in HexByte(Pair(hash, i)) : TRUE
<1>1. ASSUME NEW i \in 1 .. Half
      PROVE  ~MidCharacter(hash, i) /\ HexByte(Pair(hash, i)) = {val(i)}
  <2>1. hash[2 * i - 1] \in HexDigit /\ hash[2 * i] \in HexDigit
    BY PairOf
  <2>2. HexByte(Pair(hash, i)) = {val(i)}
    BY <2>1, PairOf, TwoDigits
  <2>3. ASSUME 2 * i < HashChars PROVE hash[2 * i + 1] \notin ContinuationByte
    <3>1. 2 * i + 1 \in 1 .. HashChars
      BY <2>3, TwoHalves
    <3> QED
      BY <3>1, DigitValues
  <2> QED
    BY <2>2, <2>3 DEF MidCharacter
<1>2. BadBytes(hash) = {}
  BY <1>1 DEF Half, BadBytes
<1>3. ASSUME NEW i \in 1 .. Half PROVE byte(i) = val(i)
  <2>1. HexByte(Pair(hash, i)) = {val(i)}
    BY <1>1
  <2> HIDE DEF val
  <2> QED
    BY <2>1
<1>4. ParseXt(xt) = [hash |-> BytesOf(hash)]
  BY <1>2, Accepted
<1>5. BytesOf(hash) = [i \in 1 .. Half |-> byte(i)]
  BY DEF BytesOf, Half
<1> HIDE DEF byte
<1>6. BytesOf(hash) = [i \in 1 .. Half |-> val(i)]
  BY <1>3, <1>5
<1> QED
  BY <1>4, <1>6

(* The bytes of a hash, whatever it was parsed from. *)
LEMMA ParsedBytes ==
    ASSUME NEW xt \in Seq(Nat), "error" \notin DOMAIN ParseXt(xt)
    PROVE  ParseXt(xt).hash \in [1 .. Half -> 0 .. 255]
<1> DEFINE hash == Tail(xt)
           bad == {i \in 1 .. HashChars \div 2 :
                     MidCharacter(hash, i) \/ HexByte(Pair(hash, i)) = {}}
           byte(i) == CHOOSE b \in HexByte(Pair(hash, i)) : TRUE
<1>1. /\ xt # <<>> /\ Len(hash) = HashChars /\ bad = {}
      /\ ParseXt(xt) = [hash |-> [i \in 1 .. HashChars \div 2 |-> byte(i)]]
  BY DEF ParseXt
<1>2. hash \in Seq(Nat)
  BY <1>1
<1> HIDE DEF hash
<1>3. ASSUME NEW i \in 1 .. Half PROVE byte(i) \in 0 .. 255
  <2>1. HexByte(Pair(hash, i)) # {}
    BY <1>1, <1>3 DEF Half
  <2>2. byte(i) \in HexByte(Pair(hash, i)) /\ Pair(hash, i) \in Seq(Nat)
    BY <1>1, <1>2, <2>1, PairOf
  <2> HIDE DEF byte
  <2> QED
    BY <2>2, OneByte
<1> HIDE DEF byte
<1>4. [i \in 1 .. Half |-> byte(i)] \in [1 .. Half -> 0 .. 255]
  BY <1>3
<1> QED
  BY <1>1, <1>4 DEF Half

LEMMA HexOf ==
    ASSUME NEW h, NEW N \in Nat, h \in [1 .. N -> 0 .. 255]
    PROVE  /\ DOMAIN InfoHashHex(h) = 1 .. 2 * N
           /\ InfoHashHex(h) = [k \in 1 .. 2 * N |-> InfoHashHex(h)[k]]
           /\ \A i \in 1 .. N :
                /\ InfoHashHex(h)[2 * i - 1] = HexChar(h[i] \div 16)
                /\ InfoHashHex(h)[2 * i] = HexChar(h[i] % 16)
<1>1. Len(h) = N
  <2>1. h \in Seq(0 .. 255)
    OBVIOUS
  <2> QED
    OBVIOUS
<1>2. InfoHashHex(h) =
        [k \in 1 .. 2 * N |-> HexChar(IF k % 2 = 1 THEN h[(k + 1) \div 2] \div 16
                                      ELSE h[k \div 2] % 16)]
  BY <1>1 DEF InfoHashHex, HexChar
<1>3. ASSUME NEW i \in 1 .. N
      PROVE  /\ InfoHashHex(h)[2 * i - 1] = HexChar(h[i] \div 16)
             /\ InfoHashHex(h)[2 * i] = HexChar(h[i] % 16)
  <2> DEFINE a == 2 * i - 1
             b == 2 * i
  <2>1. /\ a \in 1 .. 2 * N /\ a % 2 = 1 /\ (a + 1) \div 2 = i
        /\ b \in 1 .. 2 * N /\ b % 2 = 0 /\ b \div 2 = i
    OBVIOUS
  <2> HIDE DEF a, b
  <2>2. InfoHashHex(h)[a] = HexChar(h[i] \div 16) /\ InfoHashHex(h)[b] = HexChar(h[i] % 16)
    BY <1>2, <2>1
  <2> QED
    BY <2>2 DEF a, b
<1> QED
  BY <1>2, <1>3

(* Every place in a text of 2 * N is the first or the second of a pair. *)
LEMMA InPairs ==
    ASSUME NEW N \in Nat, NEW k \in 1 .. 2 * N
    PROVE  \E i \in 1 .. N : k = 2 * i - 1 \/ k = 2 * i
<1>1. CASE k % 2 = 1
  <2>1. (k + 1) \div 2 \in 1 .. N /\ k = 2 * ((k + 1) \div 2) - 1
    BY <1>1
  <2> QED
    BY <2>1
<1>2. CASE k % 2 # 1
  <2>1. k \div 2 \in 1 .. N /\ k = 2 * (k \div 2)
    BY <1>2
  <2> QED
    BY <2>1
<1> QED
  BY <1>1, <1>2

LEMMA Nibbles ==
    ASSUME NEW b \in 0 .. 255
    PROVE  b \div 16 \in 0 .. 15 /\ b % 16 \in 0 .. 15 /\ 16 * (b \div 16) + (b % 16) = b
  OBVIOUS

(* What is displayed is parsed to what was displayed. *)
LEMMA HexRoundTrip ==
    ASSUME NEW h \in [1 .. Half -> 0 .. 255]
    PROVE  ParseXt(<<UrnBtih>> \o InfoHashHex(h)) = [hash |-> h]
<1> DEFINE s == InfoHashHex(h)
           xt == <<UrnBtih>> \o s
<1>1. /\ Half \in Nat /\ HashChars = 2 * Half /\ DOMAIN s = 1 .. HashChars
      /\ \A i \in 1 .. Half : /\ s[2 * i - 1] = HexChar(h[i] \div 16)
                              /\ s[2 * i] = HexChar(h[i] % 16)
  <2>1. Half \in Nat /\ HashChars = 2 * Half
    BY TwoHalves
  <2> QED
    BY <2>1, HexOf
<1>2. ASSUME NEW i \in 1 .. Half
      PROVE  /\ s[2 * i - 1] \in HexDigit /\ s[2 * i] \in HexDigit
             /\ 16 * DigitValue(s[2 * i - 1]) + DigitValue(s[2 * i]) = h[i]
  <2> DEFINE x == h[i] \div 16
             y == h[i] % 16
  <2>1. x \in 0 .. 15 /\ y \in 0 .. 15 /\ 16 * x + y = h[i]
    BY Nibbles
  <2>2. s[2 * i - 1] = HexChar(x) /\ s[2 * i] = HexChar(y)
    BY <1>1
  <2> HIDE DEF x, y, s
  <2> QED
    BY <2>1, <2>2, HexChars
<1>3. \A k \in 1 .. HashChars : s[k] \in HexDigit
  <2> SUFFICES ASSUME NEW k \in 1 .. HashChars PROVE s[k] \in HexDigit
    OBVIOUS
  <2>1. PICK i \in 1 .. Half : k = 2 * i - 1 \/ k = 2 * i
    BY <1>1, InPairs
  <2> QED
    BY <1>2, <2>1
<1>4. s \in Seq(Nat) /\ Len(s) = HashChars
  <2>1. \A k \in 1 .. HashChars : s[k] \in Nat
    BY <1>3, DigitValues
  <2>2. s = [k \in 1 .. HashChars |-> s[k]]
    BY <1>1 DEF InfoHashHex
  <2> HIDE DEF s
  <2>3. s \in [1 .. HashChars -> Nat]
    BY <2>1, <2>2
  <2> QED
    BY ONLY <1>1, <2>3, TwoHalves, TupleSeq
<1> HIDE DEF s
<1>5. xt # <<>> /\ xt[1] = UrnBtih /\ Tail(xt) = s
  <2>1. UrnBtih \in Nat
    BY DEF UrnBtih
  <2> HIDE DEF xt
  <2> QED
    BY <1>4, <2>1 DEF xt
<1>6. ParseXt(xt) = [hash |-> [i \in 1 .. Half |->
                        16 * DigitValue(s[2 * i - 1]) + DigitValue(s[2 * i])]]
  <2> HIDE DEF xt
  <2> QED
    BY <1>3, <1>4, <1>5, ParsedDigits
<1>7. [i \in 1 .. Half |-> 16 * DigitValue(s[2 * i - 1]) + DigitValue(s[2 * i])] = h
  BY <1>2
<1> QED
  BY <1>6, <1>7 DEF s

(* Forty digits of either case are displayed in lower case. *)
LEMMA HexIsShown ==
    ASSUME NEW xt \in Seq(Nat), xt # <<>>, xt[1] = UrnBtih, Len(Tail(xt)) = HashChars,
           \A k \in 1 .. HashChars : Lower(Tail(xt)[k]) \in HexDigit
    PROVE  /\ "error" \notin DOMAIN ParseXt(xt)
           /\ InfoHashHex(ParseXt(xt).hash) = [k \in DOMAIN Tail(xt) |-> Lower(Tail(xt)[k])]
<1> DEFINE hash == Tail(xt)
           val(i) == 16 * DigitValue(hash[2 * i - 1]) + DigitValue(hash[2 * i])
           h == [i \in 1 .. Half |-> val(i)]
<1>1. hash \in Seq(Nat) /\ Len(hash) = HashChars /\ DOMAIN hash = 1 .. HashChars
  OBVIOUS
<1>2. \A k \in 1 .. HashChars : hash[k] \in HexDigit
  BY <1>1, DigitValues
<1>3. ParseXt(xt) = [hash |-> h]
  BY <1>1, <1>2, ParsedDigits
<1> HIDE DEF hash
<1>4. ASSUME NEW i \in 1 .. Half
      PROVE  /\ val(i) \in 0 .. 255
             /\ HexChar(val(i) \div 16) = Lower(hash[2 * i - 1])
             /\ HexChar(val(i) % 16) = Lower(hash[2 * i])
  <2>1. hash[2 * i - 1] \in HexDigit /\ hash[2 * i] \in HexDigit
    BY <1>1, <1>2, PairOf
  <2>2. DigitValue(hash[2 * i - 1]) \in 0 .. 15 /\ DigitValue(hash[2 * i]) \in 0 .. 15
    BY <2>1, DigitValues
  <2>3. /\ val(i) \in 0 .. 255
        /\ val(i) \div 16 = DigitValue(hash[2 * i - 1]) /\ val(i) % 16 = DigitValue(hash[2 * i])
    BY <2>2, NibblesBack
  <2> HIDE DEF val
  <2> QED
    BY <2>1, <2>3, HexChars
<1>5. h \in [1 .. Half -> 0 .. 255]
  BY <1>4
<1>6. /\ DOMAIN InfoHashHex(h) = 1 .. HashChars
      /\ InfoHashHex(h) = [k \in 1 .. HashChars |-> InfoHashHex(h)[k]]
      /\ \A i \in 1 .. Half : /\ InfoHashHex(h)[2 * i - 1] = HexChar(h[i] \div 16)
                              /\ InfoHashHex(h)[2 * i] = HexChar(h[i] % 16)
  <2> HIDE DEF h
  <2>1. Half \in Nat /\ HashChars = 2 * Half
    BY TwoHalves
  <2> HIDE DEF Half
  <2> QED
    BY ONLY <1>5, <2>1, HexOf
<1>7. ASSUME NEW k \in 1 .. HashChars PROVE InfoHashHex(h)[k] = Lower(hash[k])
  <2>1. PICK i \in 1 .. Half : k = 2 * i - 1 \/ k = 2 * i
    BY TwoHalves, InPairs
  <2>2. h[i] = val(i)
    OBVIOUS
  <2> HIDE DEF h, val
  <2> QED
    BY <1>4, <1>6, <2>1, <2>2
<1>8. InfoHashHex(h) = [k \in 1 .. HashChars |-> Lower(hash[k])]
  <2> HIDE DEF h
  <2> QED
    BY <1>6, <1>7
<1> HIDE DEF h
<1>9. "error" \notin DOMAIN ParseXt(xt) /\ ParseXt(xt).hash = h
  BY <1>3
<1> QED
  BY <1>1, <1>8, <1>9 DEF hash

-----------------------------------------------------------------------------
(* url_decode. *)

(* The two characters after a percent sign, or those that are left; and     *)
(* what they are decoded to.                                                *)
HexAfter(s, i) == SubSeq(s, i + 1, IF i + 2 < Len(s) THEN i + 2 ELSE Len(s))

Decoded1(h) ==
    IF HexByte(h) = {} THEN <<Percent>> \o h ELSE <<CHOOSE b \in HexByte(h) : TRUE>>

(* What is pushed for the character at i, and where the loop goes on.       *)
PushedAt(s, i) == IF s[i] = Percent THEN Decoded1(HexAfter(s, i)) ELSE <<Plain(s[i])>>

NextAt(s, i) == IF s[i] = Percent THEN i + 3 ELSE i + 1

DecodedFrom(f, s) ==
    \A i \in 1 .. Len(s) + 3 :
      f[i] = IF i > Len(s) THEN <<>> ELSE PushedAt(s, i) \o f[NextAt(s, i)]

LEMMA PushedType ==
    ASSUME NEW s \in Seq(Nat), NEW i \in 1 .. Len(s)
    PROVE  PushedAt(s, i) \in Seq(Nat)
<1>1. Plain(s[i]) \in Nat /\ Percent \in Nat
  BY DEF Plain, Percent, Space
<1>2. CASE s[i] # Percent
  BY <1>1, <1>2 DEF PushedAt
<1>3. CASE s[i] = Percent
  <2> DEFINE q == IF i + 2 < Len(s) THEN i + 2 ELSE Len(s)
             h == HexAfter(s, i)
  <2>1. i \in Nat /\ q \in Nat /\ i <= q /\ q <= Len(s)
    OBVIOUS
  <2>2. h = SubSeq(s, i + 1, q)
    BY DEF HexAfter
  <2> HIDE DEF q, h
  <2>3. h \in Seq(Nat)
    BY ONLY s \in Seq(Nat), <2>1, <2>2, Slice
  <2>4. Decoded1(h) \in Seq(Nat)
    <3>1. CASE HexByte(h) = {}
      BY <1>1, <2>3, <3>1 DEF Decoded1
    <3>2. CASE HexByte(h) # {}
      <4> DEFINE b == CHOOSE b \in HexByte(h) : TRUE
      <4>1. b \in HexByte(h)
        BY <3>2
      <4>2. b \in Nat
        <5> HIDE DEF b
        <5>1. b \in 0 .. 255
          BY <2>3, <4>1, OneByte
        <5> QED
          BY <5>1
      <4>3. Decoded1(h) = <<b>>
        BY <3>2 DEF Decoded1
      <4> HIDE DEF b
      <4> QED
        BY <4>2, <4>3
    <3> QED
      BY <3>1, <3>2
  <2> QED
    BY <1>3, <2>4 DEF PushedAt, h
<1> QED
  BY <1>2, <1>3

(* The recursion of UrlDecode has a solution, and that is what it returns.  *)
LEMMA UrlDecodes ==
    ASSUME NEW s \in Seq(Nat)
    PROVE  \E f : DecodedFrom(f, s) /\ UrlDecode(s) = f[1]
<1> DEFINE n == Len(s)
           S == Seq(Nat)
           next == [i \in 1 .. n |-> NextAt(s, i)]
           g == [x \in (1 .. n) \X S |-> PushedAt(s, x[1]) \o x[2]]
           Is(f) == f = [i \in 1 .. n + 3 |->
                           IF i > n THEN <<>>
                           ELSE IF s[i] = Percent THEN Decoded1(HexAfter(s, i)) \o f[i + 3]
                           ELSE <<Plain(s[i])>> \o f[i + 1]]
<1>1. n \in Nat /\ <<>> \in S
  OBVIOUS
<1>2. \A i \in 1 .. n : next[i] \in i + 1 .. n + 3
  BY <1>1 DEF NextAt
<1>3. g \in [(1 .. n) \X S -> S]
  BY PushedType
<1>4. PICK f \in [1 .. n + 3 -> S] : BackFrom(f, n, <<>>, next, g)
  <2> HIDE DEF next, g, S, n
  <2> QED
    BY <1>1, <1>2, <1>3, Backwards
<1>5. ASSUME NEW i \in 1 .. n + 3
      PROVE  f[i] = IF i > n THEN <<>>
                    ELSE IF s[i] = Percent THEN Decoded1(HexAfter(s, i)) \o f[i + 3]
                    ELSE <<Plain(s[i])>> \o f[i + 1]
  <2>1. CASE i > n
    BY <1>4, <2>1 DEF BackFrom
  <2>2. CASE ~(i > n)
    <3>1. i \in 1 .. n
      BY <1>1, <2>2
    <3>2. next[i] \in 1 .. n + 3 /\ next[i] = NextAt(s, i)
      BY <1>1, <1>2, <3>1 DEF NextAt
    <3>3. f[next[i]] \in S
      BY <1>4, <3>2
    <3>4. f[i] = g[<<i, f[next[i]]>>]
      <4> HIDE DEF g, next
      <4> QED
        BY <1>4, <2>2 DEF BackFrom
    <3>5. f[i] = PushedAt(s, i) \o f[next[i]]
      <4> HIDE DEF next
      <4> QED
        BY <3>1, <3>3, <3>4
    <3>6. f[i] = PushedAt(s, i) \o f[NextAt(s, i)]
      BY <3>2, <3>5
    <3> QED
      BY <2>2, <3>6 DEF PushedAt, NextAt
  <2> QED
    BY <2>1, <2>2
<1>6. Is(f)
  <2>1. f = [i \in 1 .. n + 3 |-> f[i]]
    BY <1>4
  <2> QED
    BY <1>5, <2>1
<1> DEFINE h == CHOOSE h : Is(h)
<1>7. Is(h)
  <2> HIDE DEF Is
  <2> QED
    BY <1>6
<1>8. UrlDecode(s) = h[1]
  BY DEF UrlDecode, HexAfter, Decoded1
<1> HIDE DEF h
<1>9. DecodedFrom(h, s)
  BY <1>7 DEF DecodedFrom, PushedAt, NextAt
<1> QED
  BY <1>8, <1>9

-----------------------------------------------------------------------------
(* What url_decode makes of an encoding. *)

LEMMA WayType ==
    ASSUME NEW c \in Nat, NEW w \in Ways(c)
    PROVE  w \in Seq(Nat)
<1>1. \A a \in HexDigit : a \in Nat
  BY DigitValues
<1>2. Percent \in Nat /\ PlusSign \in Nat
  BY DEF Percent, PlusSign
<1>3. \A a, b \in HexDigit : <<Percent, a, b>> \in Seq(Nat)
  BY <1>1, <1>2
<1>4. (\E a, b \in HexDigit : w = <<Percent, a, b>>) \/ w = <<PlusSign>> \/ w = <<c>>
  BY DEF Ways
<1>5. CASE \E a, b \in HexDigit : w = <<Percent, a, b>>
  BY <1>3, <1>5
<1>6. CASE w = <<PlusSign>> \/ w = <<c>>
  <2>1. <<PlusSign>> \in Seq(Nat) /\ <<c>> \in Seq(Nat)
    BY <1>2
  <2> QED
    BY <1>6, <2>1
<1> QED
  BY ONLY <1>4, <1>5, <1>6

(* The character c is encoded at the place p of s.                          *)
LEMMA OneWay ==
    ASSUME NEW c \in Nat, NEW w \in Ways(c), NEW s \in Seq(Nat),
           NEW p \in Nat, p + Len(w) <= Len(s),
           \A j \in 1 .. Len(w) : s[p + j] = w[j]
    PROVE  /\ Len(w) \in 1 .. 3
           /\ PushedAt(s, p + 1) = <<c>> /\ NextAt(s, p + 1) = p + Len(w) + 1
<1>1. CASE \E a, b \in HexDigit : w = <<Percent, a, b>>
                                  /\ c = 16 * DigitValue(w[2]) + DigitValue(w[3])
  <2> PICK a \in HexDigit, b \in HexDigit :
             w = <<Percent, a, b>> /\ c = 16 * DigitValue(w[2]) + DigitValue(w[3])
    BY <1>1
  <2>1. /\ Len(w) = 3 /\ w[1] = Percent /\ w[2] = a /\ w[3] = b
        /\ c = 16 * DigitValue(a) + DigitValue(b)
    OBVIOUS
  <2>2. s[p + 1] = Percent /\ s[p + 2] = a /\ s[p + 3] = b /\ p + 3 <= Len(s)
    BY <2>1, SMTT(20)
  <2> DEFINE i == p + 1
             n == 2
             h == SubSeq(s, i + 1, i + n)
  <2>3. HexAfter(s, i) = h
    <3>1. i + 2 <= Len(s) /\ i + 2 \in Nat /\ Len(s) \in Nat
      BY <2>2
    <3>2. (IF i + 2 < Len(s) THEN i + 2 ELSE Len(s)) = i + 2
      BY <3>1
    <3> QED
      BY <3>2 DEF HexAfter
  <2>4. i \in Nat /\ n \in Nat /\ i + n <= Len(s)
    BY <2>2
  <2>5. Stretches(h, Nat, s, i, n)
    <3> HIDE DEF i, n
    <3> QED
      BY ONLY <2>4, s \in Seq(Nat), Stretch
  <2>6. h \in Seq(Nat) /\ Len(h) = 2 /\ h[1] = s[p + 2] /\ h[2] = s[p + 3]
    <3>1. i + 1 = p + 2 /\ i + 2 = p + 3 /\ 1 \in 1 .. n /\ 2 \in 1 .. n
      OBVIOUS
    <3> HIDE DEF h, i
    <3>2. h \in Seq(Nat) /\ Len(h) = n /\ \A j \in 1 .. n : h[j] = s[i + j]
      BY ONLY <2>5 DEF Stretches
    <3> QED
      BY ONLY <3>1, <3>2 DEF n
  <2> HIDE DEF h
  <2>7. h = <<a, b>>
    BY <2>2, <2>6
  <2>8. HexByte(h) = {c}
    BY <2>1, <2>7, TwoDigits
  <2>9. Decoded1(h) = <<c>>
    BY <2>8 DEF Decoded1
  <2> QED
    BY <2>1, <2>2, <2>3, <2>9 DEF PushedAt, NextAt
<1>2. CASE c = Space /\ w = <<PlusSign>>
  <2>1. s[p + 1] = PlusSign /\ PlusSign # Percent /\ Plain(PlusSign) = Space
        /\ Len(w) = 1
    BY <1>2 DEF PlusSign, Percent, Plain
  <2> QED
    BY <1>2, <2>1 DEF PushedAt, NextAt
<1>3. CASE c \notin {Percent, PlusSign} /\ w = <<c>>
  <2>1. s[p + 1] = c /\ Plain(c) = c /\ Len(w) = 1
    BY <1>3 DEF Plain
  <2> QED
    BY <1>3, <2>1 DEF PushedAt, NextAt
<1>4. w \in {v \in {<<Percent, a, b>> : a, b \in HexDigit} :
               c < 128 /\ c = 16 * DigitValue(v[2]) + DigitValue(v[3])}
      \/ (c = Space /\ w = <<PlusSign>>) \/ (c \notin {Percent, PlusSign} /\ w = <<c>>)
  BY DEF Ways
<1> QED
  BY <1>1, <1>2, <1>3, <1>4

(* From the start of each piece, f pushes a character and goes on at the     *)
(* next piece.                                                               *)
PushesAt(f, at, t) ==
    /\ f[at[Len(t)] + 1] = <<>>
    /\ \A k \in 0 .. Len(t) - 1 : f[at[k] + 1] = <<t[k + 1]>> \o f[at[k + 1] + 1]

(* Where s is w, and w the text t, the recursion goes from the start of each *)
(* w[i] to the next one, and pushes t[i].                                    *)
LEMMA EncodedAt ==
    ASSUME NEW t \in Seq(Nat), NEW w \in Seq(Seq(Nat)), Encodes(w, t), NEW s \in Seq(Nat),
           NEW at \in [0 .. Len(w) -> Nat], Places(at, w, s),
           NEW f, DecodedFrom(f, s)
    PROVE  Len(w) = Len(t) /\ PushesAt(f, at, t)
<1> DEFINE n == Len(t)
<1>1. n \in Nat /\ Len(w) = n /\ DOMAIN t = 1 .. n /\ Len(s) \in Nat
  BY DEF Encodes
<1>2. at[n] = Len(s)
  BY <1>1 DEF Places
<1>3. f[at[n] + 1] = <<>>
  <2>1. Len(s) + 1 \in 1 .. Len(s) + 3 /\ Len(s) + 1 > Len(s)
    BY <1>1
  <2> QED
    BY <1>2, <2>1 DEF DecodedFrom
<1>4. ASSUME NEW k \in 0 .. n - 1
      PROVE  f[at[k] + 1] = <<t[k + 1]>> \o f[at[k + 1] + 1]
  <2> DEFINE c == t[k + 1]
             v == w[k + 1]
             p == at[k]
             l == Len(v)
  <2>1. k + 1 \in 1 .. n /\ k \in 0 .. n /\ k \in 0 .. Len(w) - 1
    BY <1>1
  <2>2. c \in Nat /\ v \in Ways(c) /\ v \in Seq(Nat) /\ p \in Nat
    <3>1. p \in Nat
      BY ONLY <1>1, <2>1, at \in [0 .. Len(w) -> Nat]
    <3>2. c \in Nat
      BY ONLY <1>1, <2>1, t \in Seq(Nat)
    <3>3. v \in Ways(c)
      BY ONLY <1>1, <2>1, Encodes(w, t) DEF Encodes
    <3> QED
      BY ONLY <3>1, <3>2, <3>3, WayType
  <2>3. /\ at[k + 1] = p + l /\ at[k + 1] <= Len(s)
        /\ \A j \in 1 .. l : s[p + j] = v[j]
    BY <2>1 DEF Places
  <2>4. l \in Nat
    BY <2>2
  <2> HIDE DEF c, v, p, n
  <2>5. p + Len(v) <= Len(s) /\ \A j \in 1 .. Len(v) : s[p + j] = v[j]
    BY ONLY <2>3
  <2>6. Len(v) \in 1 .. 3 /\ PushedAt(s, p + 1) = <<c>> /\ NextAt(s, p + 1) = p + Len(v) + 1
    BY ONLY <2>2, <2>5, s \in Seq(Nat), OneWay
  <2>7. p + 1 \in 1 .. Len(s) + 3 /\ ~(p + 1 > Len(s)) /\ p + Len(v) + 1 = at[k + 1] + 1
    <3>1. Len(v) \in 1 .. 3 /\ Len(s) \in Nat /\ p \in Nat
      BY ONLY <1>1, <2>2, <2>6
    <3>2. at[k + 1] = p + Len(v)
      BY ONLY <2>3
    <3>3. p + Len(v) <= Len(s)
      BY ONLY <2>5
    <3> DEFINE m == Len(s)
               u == Len(v)
               e == at[k + 1]
    <3>4. u \in 1 .. 3 /\ m \in Nat /\ p \in Nat /\ e = p + u /\ p + u <= m
      BY ONLY <3>1, <3>2, <3>3
    <3> HIDE DEF m, u, e
    <3>5. p + 1 \in 1 .. m + 3 /\ ~(p + 1 > m) /\ p + u + 1 = e + 1
      BY ONLY <3>4
    <3> QED
      BY ONLY <3>5 DEF m, u, e
  <2>8. f[p + 1] = PushedAt(s, p + 1) \o f[NextAt(s, p + 1)]
    BY <2>7 DEF DecodedFrom
  <2>9. f[p + 1] = <<c>> \o f[at[k + 1] + 1]
    BY ONLY <2>6, <2>7, <2>8
  <2> QED
    BY <2>9 DEF c, p
<1> QED
  BY <1>1, <1>3, <1>4 DEF PushesAt

(* url_decode gives back the text that a value encodes.                      *)
LEMMA Decodes ==
    ASSUME NEW t \in Seq(Nat), NEW s \in EncodingsOf(t)
    PROVE  s \in Seq(Nat) /\ UrlDecode(s) = t
<1> DEFINE n == Len(t)
<1>1. PICK w : s = FlattenSeq(w) /\ Encodes(w, t)
               /\ w \in [DOMAIN t -> UNION {Ways(t[i]) : i \in DOMAIN t}]
  BY DEF EncodingsOf
<1>2. n \in Nat /\ DOMAIN t = 1 .. n /\ \A i \in 1 .. n : t[i] \in Nat
  OBVIOUS
<1>3. w \in Seq(Seq(Nat))
  <2>1. \A i \in 1 .. n : w[i] \in Seq(Nat)
    BY <1>1, <1>2, WayType DEF Encodes
  <2>2. w \in [1 .. n -> Seq(Nat)]
    BY <1>1, <1>2, <2>1
  <2> HIDE DEF n
  <2> QED
    BY ONLY <1>2, <2>2, TupleSeq
<1>4. s \in Seq(Nat) /\ \E at \in [0 .. Len(w) -> Nat] : Places(at, w, s)
  BY ONLY <1>1, <1>3, FlattenedAt
<1>5. PICK at \in [0 .. Len(w) -> Nat] : Places(at, w, s)
  BY <1>4
<1>6. PICK f : DecodedFrom(f, s) /\ UrlDecode(s) = f[1]
  BY <1>4, UrlDecodes
<1>7. /\ Len(w) = n /\ f[at[n] + 1] = <<>>
      /\ \A k \in 0 .. n - 1 : f[at[k] + 1] = <<t[k + 1]>> \o f[at[k + 1] + 1]
  <2>1. Encodes(w, t) /\ s \in Seq(Nat) /\ DecodedFrom(f, s)
    BY ONLY <1>1, <1>4, <1>6
  <2>2. Len(w) = Len(t) /\ PushesAt(f, at, t)
    BY ONLY <1>3, <1>5, <2>1, t \in Seq(Nat), at \in [0 .. Len(w) -> Nat], EncodedAt
  <2> QED
    BY ONLY <2>2 DEF PushesAt
<1> DEFINE rest == [k \in 0 .. n |-> f[at[k] + 1]]
           T == {d \in 0 .. n : Stretches(rest[n - d], Nat, t, n - d, d)}
<1> HIDE DEF n
<1>8. /\ rest[n] = <<>>
      /\ \A k \in 0 .. n - 1 : rest[k] = <<t[k + 1]>> \o rest[k + 1]
  <2>1. n \in 0 .. n /\ \A k \in 0 .. n - 1 : k \in 0 .. n /\ k + 1 \in 0 .. n
    BY <1>2
  <2> QED
    BY <1>7, <2>1
<1> HIDE DEF rest
<1>9. 0 \in T
  <2>1. Stretches(<<>>, Nat, t, n, 0)
    BY DEF Stretches
  <2>2. n - 0 = n /\ 0 \in 0 .. n
    BY <1>2
  <2>3. Stretches(rest[n - 0], Nat, t, n - 0, 0)
    BY <1>8, <2>1, <2>2
  <2> QED
    BY <2>2, <2>3
<1>10. ASSUME NEW d \in 0 .. n - 1, d \in T PROVE d + 1 \in T
  <2> DEFINE k == n - (d + 1)
             r == rest[k + 1]
             c == t[k + 1]
             o == 1
             b == <<c>>
  <2>1. k \in 0 .. n - 1 /\ k + 1 = n - d /\ d + 1 \in 0 .. n /\ k + 1 \in 1 .. n /\ d \in Nat
    BY <1>2
  <2>2. Stretches(r, Nat, t, k + 1, d)
    BY <1>10, <2>1
  <2>3. rest[k] = b \o r /\ c \in Nat
    BY <1>2, <1>8, <2>1
  <2> HIDE DEF k, r, T
  <2>4. r \in Seq(Nat) /\ Len(r) = d /\ \A i \in 1 .. d : r[i] = t[(k + 1) + i]
    BY <2>2 DEF Stretches
  <2>5. b \in Seq(Nat) /\ Len(b) = o /\ b[1] = c /\ o \in Nat
    BY <2>3
  <2> HIDE DEF b, o, c
  <2>6. Joins(Nat, b, r, o, d)
    BY ONLY <2>1, <2>4, <2>5, Joined
  <2>7. /\ rest[k] \in Seq(Nat) /\ Len(rest[k]) = 1 + d /\ rest[k][1] = c
        /\ \A i \in 1 .. d : rest[k][1 + i] = r[i]
    <3> DEFINE y == rest[k]
    <3>1. /\ y \in Seq(Nat) /\ Len(y) = o + d
          /\ \A i \in 1 .. o : y[i] = b[i]
          /\ \A i \in 1 .. d : y[o + i] = r[i]
      BY ONLY <2>3, <2>6 DEF Joins
    <3> HIDE DEF y
    <3>2. y \in Seq(Nat) /\ Len(y) = 1 + d /\ y[1] = c /\ \A i \in 1 .. d : y[1 + i] = r[i]
      BY ONLY <2>5, <3>1 DEF o
    <3> QED
      BY <3>2 DEF y
  <2>8. ASSUME NEW i \in 1 .. d + 1 PROVE rest[k][i] = t[k + i]
    <3>1. CASE i = 1
      BY <2>7, <3>1 DEF c
    <3>2. CASE i # 1
      <4>1. i - 1 \in 1 .. d /\ 1 + (i - 1) = i /\ (k + 1) + (i - 1) = k + i
        BY <2>1, <3>2
      <4> QED
        BY <2>4, <2>7, <4>1
    <3> QED
      BY <3>1, <3>2
  <2>9. Stretches(rest[k], Nat, t, k, d + 1)
    BY <2>1, <2>7, <2>8 DEF Stretches
  <2> QED
    BY <2>1, <2>9 DEF T, k
<1> HIDE DEF T
<1>11. n \in T
  <2>1. 0 .. n \subseteq T
    BY ONLY <1>2, <1>9, <1>10, UpTo
  <2> QED
    BY <1>2, <2>1
<1>12. rest[0] = f[1]
  BY <1>2, <1>5, <1>7 DEF rest, Places
<1>13. f[1] \in Seq(Nat) /\ Len(f[1]) = n /\ \A i \in 1 .. n : f[1][i] = t[i]
  <2>1. Stretches(rest[n - n], Nat, t, n - n, n)
    BY <1>11 DEF T
  <2>2. n - n = 0 /\ \A i \in 1 .. n : 0 + i = i
    BY <1>2
  <2> QED
    BY <1>12, <2>1, <2>2 DEF Stretches
<1>14. f[1] = t
  BY <1>2, <1>13 DEF n
<1> QED
  BY <1>4, <1>6, <1>14

-----------------------------------------------------------------------------
(* The trackers of a link: acc[i] is what the loop has after i parameters.   *)

AddTrackerRun(acc, S, base, q) ==
    /\ acc \in [0 .. Len(q) -> S]
    /\ acc[0] = base
    /\ \A i \in 1 .. Len(q) : acc[i] = AddTracker(acc[i - 1], q[i])
    /\ FoldLeft(AddTracker, base, q) = acc[Len(q)]

LEMMA AddTrackerRuns ==
  ASSUME NEW q, IsSequence(q), NEW S, NEW base \in S,
         \A x \in S, i \in DOMAIN q : AddTracker(x, q[i]) \in S
  PROVE  \E acc : AddTrackerRun(acc, S, base, q)
<1> DEFINE n == Len(q)
           g == [x \in S \X (1 .. n) |-> AddTracker(x[1], q[x[2]])]
           Is(h) == h = [s \in SUBSET DOMAIN q |->
                           IF s = {} THEN base ELSE AddTracker(h[s \ {Max(s)}], q[Max(s)])]
<1>0. n \in Nat /\ DOMAIN q = 1 .. n
  BY DEF IsSequence
<1> HIDE DEF n
<1>1. g \in [S \X (1 .. n) -> S]
  BY <1>0
<1>2. PICK f \in [SUBSET (1 .. n) -> S] :
             \A s \in SUBSET (1 .. n) :
               f[s] = IF s = {} THEN base ELSE AddTracker(f[s \ {Max(s)}], q[Max(s)])
  <2>1. PICK f \in [SUBSET (1 .. n) -> S] : FoldsAs(f, base, g, n)
    <3> HIDE DEF g
    <3> QED
      BY <1>0, <1>1, FoldFor
  <2>2. ASSUME NEW s \in SUBSET (1 .. n), s # {}
        PROVE  f[s] = AddTracker(f[s \ {Max(s)}], q[Max(s)])
    <3>1. Max(s) \in 1 .. n /\ f[s \ {Max(s)}] \in S
      BY <1>0, <2>2, Greatest
    <3>2. f[s] = g[<<f[s \ {Max(s)}], Max(s)>>]
      BY <2>1, <2>2 DEF FoldsAs
    <3> QED
      BY <3>1, <3>2
  <2>3. f[{}] = base
    BY <2>1 DEF FoldsAs
  <2> QED
    BY <2>2, <2>3
<1>3. Is(f)
  <2>1. f = [s \in SUBSET DOMAIN q |-> f[s]]
    BY <1>0
  <2> QED
    BY <1>0, <1>2, <2>1
<1> DEFINE h == CHOOSE h : Is(h)
<1>4. Is(h)
  <2> HIDE DEF Is
  <2> QED
    BY <1>3
<1>5. FoldLeft(AddTracker, base, q) = h[DOMAIN q]
  BY DEF FoldLeft, MapThenFoldSet
<1> HIDE DEF h
<1> DEFINE acc == [i \in 0 .. n |-> h[1 .. i]]
<1>6. acc[0] = base
  <2>1. 1 .. 0 = {} /\ 0 \in 0 .. n
    BY <1>0
  <2> QED
    BY <1>4, <2>1
<1>7. ASSUME NEW i \in 1 .. n PROVE acc[i] = AddTracker(acc[i - 1], q[i])
  <2>1. i \in Nat \ {0} /\ i \in 0 .. n /\ i - 1 \in 0 .. n /\ 1 .. i \in SUBSET DOMAIN q
    BY <1>0
  <2>2. h[1 .. i] = AddTracker(h[1 .. i - 1], q[i])
    BY <1>4, <2>1, Seen
  <2> QED
    BY <2>1, <2>2
<1>8. FoldLeft(AddTracker, base, q) = acc[n] /\ acc = [i \in 0 .. n |-> acc[i]]
  BY <1>0, <1>5
<1> HIDE DEF acc
<1>9. \A i \in 1 .. n : acc[i - 1] \in S => acc[i] \in S
  BY <1>0, <1>7
<1>10. \A i \in 0 .. n : acc[i] \in S
  BY <1>0, <1>6, <1>9, Loops
<1>11. acc \in [0 .. n -> S]
  BY <1>8, <1>10
<1> QED
  BY <1>6, <1>7, <1>8, <1>11 DEF n, AddTrackerRun

(* The tr parameters among the first k, and how many they are.               *)
Trs(params, k) == {j \in 1 .. k : params[j].key = "tr"}

Count(params, k) == Cardinality(Trs(params, k))

LEMMA Counts ==
    ASSUME NEW params, NEW k \in Nat
    PROVE  /\ IsFiniteSet(Trs(params, k)) /\ Count(params, k) \in Nat /\ Count(params, 0) = 0
           /\ \A i \in Trs(params, k) : Count(params, i) \in 1 .. Count(params, k)
           /\ Count(params, k + 1) =
                IF params[k + 1].key = "tr" THEN Count(params, k) + 1 ELSE Count(params, k)
           /\ Trs(params, k + 1) =
                IF params[k + 1].key = "tr" THEN Trs(params, k) \cup {k + 1} ELSE Trs(params, k)
<1>1. ASSUME NEW i \in Nat PROVE IsFiniteSet(Trs(params, i)) /\ Count(params, i) \in Nat
  <2>1. IsFiniteSet(1 .. i) /\ Trs(params, i) \in SUBSET (1 .. i)
    BY FS_Interval DEF Trs
  <2>2. IsFiniteSet(Trs(params, i))
    BY ONLY <2>1, FS_Subset
  <2> QED
    BY <2>2, FS_CardinalityType DEF Count
<1>2. Count(params, 0) = 0
  <2>1. Trs(params, 0) = {}
    BY DEF Trs
  <2> QED
    BY <2>1, FS_EmptySet DEF Count
<1>3. ASSUME NEW i \in Trs(params, k) PROVE Count(params, i) \in 1 .. Count(params, k)
  <2>1. i \in Nat /\ i \in Trs(params, i) /\ Trs(params, i) \in SUBSET Trs(params, k)
    BY DEF Trs
  <2>2. Count(params, i) <= Count(params, k)
    BY <1>1, <2>1, FS_Subset DEF Count
  <2>3. Count(params, i) # 0
    BY <1>1, <2>1, FS_EmptySet DEF Count
  <2>4. Count(params, i) \in Nat /\ Count(params, k) \in Nat
    BY <1>1, <2>1
  <2> QED
    BY <2>2, <2>3, <2>4
<1>4. Trs(params, k + 1) =
        IF params[k + 1].key = "tr" THEN Trs(params, k) \cup {k + 1} ELSE Trs(params, k)
  <2>1. 1 .. k + 1 = (1 .. k) \cup {k + 1}
    OBVIOUS
  <2> QED
    BY <2>1 DEF Trs
<1>5. Count(params, k + 1) =
        IF params[k + 1].key = "tr" THEN Count(params, k) + 1 ELSE Count(params, k)
  <2>1. k + 1 \notin Trs(params, k)
    BY DEF Trs
  <2>2. IsFiniteSet(Trs(params, k))
    BY <1>1
  <2>3. Cardinality(Trs(params, k) \cup {k + 1}) = Cardinality(Trs(params, k)) + 1
    BY ONLY <2>1, <2>2, FS_AddElement
  <2> QED
    BY <1>4, <2>3 DEF Count
<1> QED
  BY <1>1, <1>2, <1>3, <1>4, <1>5

(* Every tr parameter is decoded to the place that its rank among them says. *)
Ranked(acc, params, k) ==
    /\ Len(acc) = Count(params, k)
    /\ \A i \in Trs(params, k) : acc[Count(params, i)] = UrlDecode(params[i].value)

LEMMA TrackersRanked ==
    ASSUME NEW params, IsSequence(params)
    PROVE  Ranked(FoldLeft(AddTracker, <<>>, params), params, Len(params))
<1> DEFINE n == Len(params)
           D == {UrlDecode(params[i].value) : i \in 1 .. n}
<1>0. n \in Nat /\ DOMAIN params = 1 .. n
  BY DEF IsSequence
<1>1. ASSUME NEW x \in Seq(D), NEW i \in DOMAIN params
      PROVE  AddTracker(x, params[i]) \in Seq(D)
  <2>1. UrlDecode(params[i].value) \in D
    BY <1>0
  <2> HIDE DEF D
  <2> QED
    BY <2>1 DEF AddTracker
<1>2. PICK acc : AddTrackerRun(acc, Seq(D), <<>>, params)
  <2>1. <<>> \in Seq(D)
    OBVIOUS
  <2> HIDE DEF D
  <2> QED
    BY <1>1, <2>1, AddTrackerRuns
<1> HIDE DEF D
<1>3. /\ acc \in [0 .. n -> Seq(D)] /\ acc[0] = <<>>
      /\ \A i \in 1 .. n : acc[i] = AddTracker(acc[i - 1], params[i])
      /\ FoldLeft(AddTracker, <<>>, params) = acc[n]
  BY <1>2 DEF AddTrackerRun
<1> HIDE DEF n
<1> DEFINE T == {k \in 0 .. n : Ranked(acc[k], params, k)}
<1>4. 0 \in T
  <2>0. Trs(params, 0) = {}
    BY DEF Trs
  <2>1. Count(params, 0) = 0 /\ Trs(params, 0) = {}
    BY <2>0, FS_EmptySet DEF Count
  <2>2. Len(<<>>) = 0
    OBVIOUS
  <2> QED
    BY <1>0, <1>3, <2>1, <2>2 DEF Ranked
<1>5. ASSUME NEW k \in 0 .. n - 1, k \in T PROVE k + 1 \in T
  <2> DEFINE p == params[k + 1]
             a == acc[k]
             b == acc[k + 1]
             d == UrlDecode(p.value)
             c == Count(params, k)
  <2>1. k \in 0 .. n /\ k + 1 \in 1 .. n /\ k + 1 \in 0 .. n /\ (k + 1) - 1 = k /\ k \in Nat
    BY <1>0
  <2>2. a \in Seq(D) /\ b \in Seq(D) /\ b = AddTracker(a, p) /\ Ranked(a, params, k)
    BY <1>3, <1>5, <2>1
  <2>3. c \in Nat /\ \A i \in Trs(params, k) : Count(params, i) \in 1 .. c
    BY <2>1, Counts
  <2>4. CASE p.key # "tr"
    <3>1. b = a
      BY <2>2, <2>4 DEF AddTracker
    <3>2. Count(params, k + 1) = c /\ Trs(params, k + 1) = Trs(params, k)
      BY <2>1, <2>4, Counts
    <3>3. Ranked(b, params, k + 1)
      BY <2>2, <3>1, <3>2 DEF Ranked
    <3> QED
      BY <2>1, <3>3
  <2>5. CASE p.key = "tr"
    <3>1. b = Append(a, d) /\ d \in D
      BY <1>0, <2>1, <2>2, <2>5 DEF AddTracker, D
    <3>2. Count(params, k + 1) = c + 1 /\ Trs(params, k + 1) = Trs(params, k) \cup {k + 1}
      BY <2>1, <2>5, Counts
    <3>3. Len(a) = c /\ \A i \in Trs(params, k) : a[Count(params, i)] = UrlDecode(params[i].value)
      BY <2>2 DEF Ranked
    <3>4. Len(b) = c + 1 /\ b[c + 1] = d /\ \A j \in 1 .. c : b[j] = a[j]
      <4> HIDE DEF a, b, c, d
      <4> QED
        BY ONLY <2>2, <2>3, <3>1, <3>3, AppendProperties
    <3>5. ASSUME NEW i \in Trs(params, k + 1)
          PROVE  b[Count(params, i)] = UrlDecode(params[i].value)
      <4>1. CASE i = k + 1
        <5> HIDE DEF b, c
        <5> QED
          BY <3>2, <3>4, <4>1
      <4>2. CASE i # k + 1
        <5>1. i \in Trs(params, k)
          BY <3>2, <4>2
        <5> HIDE DEF a, b, c
        <5> QED
          BY <2>3, <3>3, <3>4, <5>1
      <4> QED
        BY <4>1, <4>2
    <3>6. Ranked(b, params, k + 1)
      BY <3>2, <3>4, <3>5 DEF Ranked
    <3> QED
      BY <2>1, <3>6
  <2> QED
    BY <2>4, <2>5
<1> HIDE DEF T
<1>6. n \in T
  <2>1. 0 .. n \subseteq T
    BY ONLY <1>0, <1>4, <1>5, UpTo
  <2> QED
    BY <1>0, <2>1
<1> QED
  BY <1>3, <1>6 DEF T, n

-----------------------------------------------------------------------------
(* What `rusty magnet` displays. *)

(* What a link with the hash xt is parsed to, and what parse_xt refuses.     *)
LinkOf(u, xt) ==
    [infoHash    |-> ParseXt(xt).hash,
     displayName |-> {UrlDecode(v) : v \in FindFirst(u.params, "dn")},
     trackers    |-> FoldLeft(AddTracker, <<>>, u.params)]

LEMMA ParsedLink ==
    ASSUME NEW u, u.magnet, NEW xt, FindFirst(u.params, "xt") = {xt}
    PROVE  MagnetLink(u) = IF "error" \in DOMAIN ParseXt(xt) THEN ParseXt(xt) ELSE LinkOf(u, xt)
<1>1. (CHOOSE v \in FindFirst(u.params, "xt") : TRUE) = xt
  OBVIOUS
<1> QED
  BY <1>1 DEF MagnetLink, LinkOf

LEMMA NotALink ==
    ASSUME NEW u, ~u.magnet \/ FindFirst(u.params, "xt") = {}
    PROVE  Failed(MagnetLink(u))
  BY DEF MagnetLink, Failed

(* A link of the user: its parameters, and its first xt.                     *)
LEMMA UriParams ==
    ASSUME NEW u \in Uris
    PROVE  /\ u.magnet \in BOOLEAN /\ IsSequence(u.params)
           /\ \A i \in DOMAIN u.params :
                /\ u.params[i].value \in Seq(Nat)
                /\ \A t \in u.meant[i] : t = UrlDecode(u.params[i].value)
           /\ Keys(u.params, "xt") # {} =>
                FirstXt(u) \in Seq(Nat) /\ FindFirst(u.params, "xt") = {FirstXt(u)}
<1> DEFINE P == u.params
           R == [key : STRING, value : Seq(Nat)]
<1>1. P \in Seq(R) /\ u.magnet \in BOOLEAN
  BY UrisOK
<1>2. IsSequence(P)
  <2> HIDE DEF P, R
  <2> QED
    BY <1>1 DEF IsSequence
<1>3. \A i \in DOMAIN P : P[i].value \in Seq(Nat)
  <2> HIDE DEF P
  <2>1. \A i \in DOMAIN P : P[i] \in R
    <3> HIDE DEF R
    <3> QED
      BY ONLY <1>1
  <2> QED
    BY <2>1
<1>4. ASSUME NEW i \in DOMAIN P, NEW t \in u.meant[i] PROVE t = UrlDecode(P[i].value)
  <2>1. t \in Seq(Nat) /\ P[i].value \in EncodingsOf(t)
    BY <1>4, UrisOK
  <2> QED
    BY <2>1, Decodes
<1>5. ASSUME Keys(P, "xt") # {}
      PROVE  FirstXt(u) \in Seq(Nat) /\ FindFirst(P, "xt") = {FirstXt(u)}
  <2> DEFINE K == Keys(P, "xt")
  <2>1. FirstXt(u) = P[FirstOf(K)].value
    BY DEF FirstXt, Keys
  <2>2. FindFirst(P, "xt") = {P[FirstOf(K)].value}
    <3> HIDE DEF P
    <3> QED
      BY <1>2, <1>5, FirstFound
  <2>3. FirstOf(K) \in DOMAIN P
    <3>1. K \subseteq Nat
      BY <1>2 DEF Keys, IsSequence
    <3>2. FirstOf(K) \in K
      <4> HIDE DEF K
      <4> QED
        BY ONLY <1>5, <3>1, FirstIsLeast DEF K
    <3> QED
      BY <3>2 DEF Keys
  <2> HIDE DEF P
  <2> QED
    BY <1>3, <2>1, <2>2, <2>3
<1> QED
  BY <1>1, <1>2, <1>3, <1>4, <1>5

(* A command keeps its argument, and magnet ends in what parse returns.      *)
CommandInv ==
    command = "magnet" =>
      /\ uri \in Uris
      /\ exit # "none" => link = MagnetLink(uri) /\ (exit = "ok" <=> ~Failed(link))

LEMMA CommandHolds == CommandSpec => []CommandInv
<1>1. CommandInit => CommandInv
  BY DEF CommandInit, CommandInv
<1>2. ASSUME CommandInv, [CommandNext]_<<vars, commandVars>> PROVE CommandInv'
  <2>1. CASE FromFile
    BY <1>2, <2>1 DEF CommandInv, FromFile, commandVars
  <2>2. CASE Unreadable
    BY <1>2, <2>2 DEF CommandInv, Unreadable, Exit
  <2>3. CASE ShowInfo
    BY <1>2, <2>3 DEF CommandInv, ShowInfo, Exit
  <2>4. CASE ShowMagnet
    <3>1. /\ command' = command /\ uri' = uri /\ command = "magnet" /\ exit = "none"
          /\ link' = MagnetLink(uri)
      BY <2>4 DEF ShowMagnet, Exit
    <3>2. exit' = "ok" <=> ~Failed(MagnetLink(uri))
      BY <2>4 DEF ShowMagnet, Exit
    <3>3. Failed(link') <=> Failed(MagnetLink(uri))
      BY <3>1
    <3> QED
      BY <1>2, <3>1, <3>2, <3>3 DEF CommandInv, Failed
  <2>5. CASE UNCHANGED <<vars, commandVars>>
    BY <1>2, <2>5 DEF CommandInv, commandVars, Failed
  <2> QED
    BY <1>2, <2>1, <2>2, <2>3, <2>4, <2>5 DEF CommandNext
<1> QED
  BY <1>1, <1>2, PTL DEF CommandSpec

(* What is displayed of a link that was parsed.                              *)
LEMMA Displayed ==
    ASSUME CommandInv, command = "magnet", exit = "ok"
    PROVE  /\ uri \in Uris /\ Keys(uri.params, "xt") # {}
           /\ "error" \notin DOMAIN ParseXt(FirstXt(uri))
           /\ link = LinkOf(uri, FirstXt(uri))
<1> DEFINE xt == FirstXt(uri)
<1>1. uri \in Uris /\ link = MagnetLink(uri) /\ ~Failed(MagnetLink(uri))
  BY DEF CommandInv
<1>2. uri.magnet /\ FindFirst(uri.params, "xt") # {}
  BY <1>1, NotALink
<1>3. IsSequence(uri.params) /\ Keys(uri.params, "xt") # {}
  <2>1. IsSequence(uri.params)
    BY <1>1, UriParams
  <2> QED
    BY <1>2, <2>1, FirstFound
<1>4. FindFirst(uri.params, "xt") = {xt}
  BY <1>1, <1>3, UriParams
<1>5. MagnetLink(uri) = IF "error" \in DOMAIN ParseXt(xt) THEN ParseXt(xt) ELSE LinkOf(uri, xt)
  <2> HIDE DEF xt
  <2> QED
    BY <1>2, <1>4, ParsedLink
<1>6. "error" \notin DOMAIN ParseXt(xt)
  BY <1>1, <1>5 DEF Failed
<1> QED
  BY <1>1, <1>3, <1>5, <1>6

LEMMA HashDisplayed == CommandInv => HashIsShown
<1> SUFFICES ASSUME CommandInv, command = "magnet", exit # "none" PROVE HashIsShown
  BY DEF HashIsShown
<1> DEFINE xt == FirstXt(uri)
           text == [i \in DOMAIN Tail(xt) |-> Lower(Tail(xt)[i])]
<1>1. uri \in Uris /\ link = MagnetLink(uri) /\ (exit = "ok" <=> ~Failed(link))
  BY DEF CommandInv
<1>2. ASSUME uri.magnet, \E i \in DOMAIN uri.params : uri.params[i].key = "xt",
             xt # <<>>, xt[1] = UrnBtih, Len(text) = HashChars,
             \A i \in DOMAIN text : text[i] \in HexDigit
      PROVE  exit = "ok" /\ InfoHashHex(link.infoHash) = text
  <2>1. Keys(uri.params, "xt") # {}
    BY <1>2 DEF Keys
  <2>2. xt \in Seq(Nat) /\ FindFirst(uri.params, "xt") = {xt}
    BY <1>1, <2>1, UriParams
  <2> HIDE DEF xt
  <2>3. Tail(xt) \in Seq(Nat)
    BY <1>2, <2>2
  <2>4. Len(Tail(xt)) = HashChars /\ \A k \in 1 .. HashChars : Lower(Tail(xt)[k]) \in HexDigit
    <3> DEFINE s == Tail(xt)
               m == Len(s)
    <3>1. m \in Nat /\ DOMAIN s = 1 .. m /\ \A k \in 1 .. m : s[k] \in Nat
      BY <2>3
    <3> HIDE DEF s, m
    <3>2. \A k \in 1 .. m : Lower(s[k]) \in Nat
      BY <3>1 DEF Lower
    <3>3. text = [k \in 1 .. m |-> Lower(s[k])]
      BY <3>1 DEF s
    <3>4. text \in [1 .. m -> Nat]
      BY <3>2, <3>3
    <3>5. Len(text) = m
      <4> HIDE DEF text
      <4> QED
        BY ONLY <3>1, <3>4, TupleSeq
    <3>6. \A k \in 1 .. m : text[k] = Lower(s[k]) /\ k \in DOMAIN text
      BY <3>3
    <3> HIDE DEF text
    <3> QED
      BY <1>2, <3>5, <3>6 DEF s, m
  <2>5. "error" \notin DOMAIN ParseXt(xt) /\ InfoHashHex(ParseXt(xt).hash) = text
    BY ONLY <1>2, <2>2, <2>4, HexIsShown
  <2>6. MagnetLink(uri) = LinkOf(uri, xt)
    BY <1>2, <2>2, <2>5, ParsedLink
  <2>7. ~Failed(MagnetLink(uri)) /\ MagnetLink(uri).infoHash = ParseXt(xt).hash
    BY <2>6 DEF Failed, LinkOf
  <2> HIDE DEF text
  <2> QED
    BY <1>1, <2>5, <2>7
<1>3. ASSUME exit = "ok"
      PROVE  ParseXt(<<UrnBtih>> \o InfoHashHex(link.infoHash)) = [hash |-> link.infoHash]
  <2>1. /\ uri \in Uris /\ Keys(uri.params, "xt") # {}
        /\ "error" \notin DOMAIN ParseXt(xt) /\ link = LinkOf(uri, xt)
    BY <1>3, Displayed
  <2>2. xt \in Seq(Nat)
    BY <2>1, UriParams
  <2>3. link.infoHash = ParseXt(xt).hash
    BY <2>1 DEF LinkOf
  <2> HIDE DEF xt
  <2>4. ParseXt(xt).hash \in [1 .. Half -> 0 .. 255]
    BY <2>1, <2>2, ParsedBytes
  <2> QED
    BY <2>3, <2>4, HexRoundTrip
<1> QED
  BY <1>2, <1>3 DEF HashIsShown

LEMMA TextDisplayed == CommandInv => TextIsShown
<1> SUFFICES ASSUME CommandInv, command = "magnet", exit = "ok" PROVE TextIsShown
  BY DEF TextIsShown
<1> DEFINE P == uri.params
           n == Len(P)
           trs == {i \in DOMAIN P : P[i].key = "tr"}
           dns == {i \in DOMAIN P : P[i].key = "dn"}
<1>1. uri \in Uris /\ link = LinkOf(uri, FirstXt(uri))
  BY Displayed
<1>2. /\ IsSequence(P)
      /\ \A i \in DOMAIN P : \A t \in uri.meant[i] : t = UrlDecode(P[i].value)
  BY <1>1, UriParams
<1>3. /\ link.trackers = FoldLeft(AddTracker, <<>>, P)
      /\ link.displayName = {UrlDecode(v) : v \in FindFirst(P, "dn")}
  BY <1>1 DEF LinkOf
<1>4. n \in Nat /\ DOMAIN P = 1 .. n
  BY <1>2 DEF IsSequence
<1>5. Ranked(link.trackers, P, n)
  <2> HIDE DEF P
  <2> QED
    BY <1>2, <1>3, TrackersRanked
<1>6. trs = Trs(P, n)
  BY <1>4 DEF Trs
<1>7. ASSUME NEW i \in trs
      PROVE  uri.meant[i] \subseteq {link.trackers[Cardinality({j \in trs : j <= i})]}
  <2>1. {j \in trs : j <= i} = Trs(P, i)
    BY <1>4 DEF Trs
  <2>2. link.trackers[Count(P, i)] = UrlDecode(P[i].value)
    BY <1>5, <1>6 DEF Ranked
  <2> QED
    BY <1>2, <2>1, <2>2 DEF Count
<1>8. Len(link.trackers) = Cardinality(trs)
  BY <1>5, <1>6 DEF Ranked, Count
<1>9. ASSUME dns # {} PROVE uri.meant[FirstOf(dns)] \subseteq link.displayName
  <2>1. dns = Keys(P, "dn")
    BY DEF Keys
  <2>2. FindFirst(P, "dn") = {P[FirstOf(dns)].value}
    <3> HIDE DEF P, dns
    <3> QED
      BY <1>2, <1>9, <2>1, FirstFound
  <2>3. FirstOf(dns) \in DOMAIN P
    <3>1. dns \subseteq Nat
      BY <1>4
    <3>2. FirstOf(dns) \in dns
      <4> HIDE DEF dns
      <4> QED
        BY ONLY <1>9, <3>1, FirstIsLeast
    <3> QED
      BY <3>2
  <2>4. link.displayName = {UrlDecode(P[FirstOf(dns)].value)}
    BY <1>3, <2>2
  <2> HIDE DEF P, dns
  <2> QED
    BY <1>2, <2>3, <2>4
<1> QED
  BY <1>7, <1>8, <1>9 DEF TextIsShown

(* Forty hexadecimal digits are accepted and displayed as they were given,   *)
(* and what is displayed of any link parses to its hash (magnet.rs:147).     *)
THEOREM HashShown == CommandSpec => []HashIsShown
  BY CommandHolds, HashDisplayed, PTL

(* The name and every tracker come out as they were before they were encoded *)
(* (magnet.rs:160-165).                                                      *)
THEOREM TextShown == CommandSpec => []TextIsShown
  BY CommandHolds, TextDisplayed, PTL
=============================================================================
