------------------------------- MODULE Magnet -------------------------------
(***************************************************************************)
(* MagnetLink::parse of src/torrent/magnet.rs.  A URI is what the split at *)
(* '&' and '=' makes of it: whether it starts with "magnet:?", and pairs   *)
(* of a key and a value.  A character is its code point.  The value of xt  *)
(* is taken as bytes, since it is measured and sliced as such; the others  *)
(* as characters.  The letter u stands for "urn:btih:".                    *)
(***************************************************************************)
EXTENDS Integers, Sequences, SequencesExt

CONSTANT HashChars    \* 40

ASSUME HashCharsOK == HashChars \in Nat /\ HashChars % 2 = 0

Percent == 37
PlusSign == 43
Space == 32
UrnBtih == 117

ContinuationByte == 128 .. 191

HexDigit == (48 .. 57) \cup (65 .. 70) \cup (97 .. 102)
DigitValue(c) == IF c <= 57 THEN c - 48 ELSE IF c <= 70 THEN c - 55 ELSE c - 87

(* u8::from_str_radix(h, 16) of at most two characters.                     *)
HexByte(h) ==
    LET digits == IF h # <<>> /\ h[1] = PlusSign THEN Tail(h) ELSE h
    IN  IF \E i \in DOMAIN digits : digits[i] \notin HexDigit THEN {}
        ELSE IF Len(digits) = 1 THEN {DigitValue(digits[1])}
        ELSE IF Len(digits) = 2 THEN {16 * DigitValue(digits[1]) + DigitValue(digits[2])}
        ELSE {}

FirstOf(S) == CHOOSE i \in S : \A j \in S : i <= j

Sliding(hash, i) == SubSeq(hash, i, i + 1)         \* mutant: i for 2 * i
Pair(hash, i)    == SubSeq(hash, 2 * i - 1, 2 * i)

(* &hash_hex[i * 2..i * 2 + 2] does not end at a character.                 *)
MidCharacter(hash, i) == 2 * i < Len(hash) /\ hash[2 * i + 1] \in ContinuationByte

ParseXt(xt) ==
    LET hash == Tail(xt)
        bad  == {i \in 1 .. HashChars \div 2 :
                   MidCharacter(hash, i) \/ HexByte(Pair(hash, i)) = {}}
    IN  IF xt = <<>> \/ xt[1] # UrnBtih THEN [error |-> "InvalidUrn"]
        ELSE IF Len(hash) # HashChars THEN [error |-> "InvalidInfoHash"]
        ELSE IF bad = {}
          THEN [hash |-> [i \in 1 .. HashChars \div 2 |->
                            CHOOSE b \in HexByte(Pair(hash, i)) : TRUE]]
        ELSE [error |-> IF MidCharacter(hash, FirstOf(bad)) THEN "panic" ELSE "HexDecode"]

InfoHashHex(hash) ==
    LET Char(d) == IF d < 10 THEN 48 + d ELSE 87 + d
    IN  [k \in 1 .. 2 * Len(hash) |->
           Char(IF k % 2 = 1 THEN hash[(k + 1) \div 2] \div 16 ELSE hash[k \div 2] % 16)]

PlusKept(c) == c                                       \* mutant
Plain(c)    == IF c = PlusSign THEN Space ELSE c

(* A byte that is decoded is pushed as the character of that code point.    *)
UrlDecode(s) ==
    LET Hex(i)  == SubSeq(s, i + 1, IF i + 2 < Len(s) THEN i + 2 ELSE Len(s))
        Char(h) == IF HexByte(h) = {} THEN <<Percent>> \o h
                   ELSE <<CHOOSE b \in HexByte(h) : TRUE>>
        from[i \in 1 .. Len(s) + 3] ==
          IF i > Len(s) THEN <<>>
          ELSE IF s[i] = Percent THEN Char(Hex(i)) \o from[i + 3]
          ELSE <<Plain(s[i])>> \o from[i + 1]
    IN  from[1]

(* params.iter().find(..), an Option.                                       *)
FindFirst(params, key) ==
    {params[i].value : i \in {j \in DOMAIN params :
       params[j].key = key /\ \A k \in 1 .. j - 1 : params[k].key # key}}

AddTracker(trackers, p) ==
    IF p.key = "tr" THEN Append(trackers, UrlDecode(p.value)) ELSE trackers

MagnetLink(uri) ==
    LET xts == FindFirst(uri.params, "xt")
        xt  == ParseXt(CHOOSE v \in xts : TRUE)
    IN  IF ~uri.magnet THEN [error |-> "InvalidScheme"]
        ELSE IF xts = {} THEN [error |-> "MissingInfoHash"]
        ELSE IF "error" \in DOMAIN xt THEN xt
        ELSE [infoHash    |-> xt.hash,
              displayName |-> {UrlDecode(v) : v \in FindFirst(uri.params, "dn")},
              trackers    |-> FoldLeft(AddTracker, <<>>, uri.params)]

-----------------------------------------------------------------------------
(* What a text is encoded as.                                               *)

(* An ASCII character may be written in hexadecimal, a space as +, and any  *)
(* character but those two signs as itself.                                 *)
Ways(c) ==
    {w \in {<<Percent, a, b>> : a, b \in HexDigit} :
       c < 128 /\ c = 16 * DigitValue(w[2]) + DigitValue(w[3])}
      \cup (IF c = Space THEN {<<PlusSign>>} ELSE {})
      \cup (IF c \notin {Percent, PlusSign} THEN {<<c>>} ELSE {})

(* w is the text t, character by character.                                 *)
Encodes(w, t) == DOMAIN w = DOMAIN t /\ \A i \in DOMAIN t : w[i] \in Ways(t[i])

EncodingsOf(t) ==
    {FlattenSeq(w) : w \in {v \in [DOMAIN t -> UNION {Ways(t[i]) : i \in DOMAIN t}] :
                              Encodes(v, t)}}
=============================================================================
