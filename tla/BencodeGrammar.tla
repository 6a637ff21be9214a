--------------------------- MODULE BencodeGrammar ---------------------------
(***************************************************************************)
(* What bencode means, without a cursor: the values a string denotes,      *)
(* defined by how it can be cut into parts.  BencodeDecoder is checked     *)
(* against it.  Numbers are those str::parse takes.                        *)
(***************************************************************************)
EXTENDS BencodeDecoder

Less(a, b) ==     \* byte strings in the order of their bytes, for Letters = {"a"}
    LET order == <<"+", "-">> \o DigitChars \o <<":", "a", "d", "e", "i", "l">>
        Rank(c) == CHOOSE i \in DOMAIN order : order[i] = c
    IN  \E k \in 1 .. Len(b) :
          /\ k <= Len(a) + 1
          /\ \A i \in 1 .. k - 1 : a[i] = b[i]
          /\ k <= Len(a) => Rank(a[k]) < Rank(b[k])

Sorted(got) ==
    \A i, j \in {m \in DOMAIN got : m % 2 = 1} : i < j => Less(got[i].bytes, got[j].bytes)

Entries(got) ==
    Len(got) % 2 = 0 /\ \A i \in DOMAIN got : i % 2 = 1 => "bytes" \in DOMAIN got[i]

(* The dictionary of keys and values that alternate: of equal keys the last  *)
(* one counts.                                                              *)
Dictionary(got) ==
    LET KeyAt(k) == {i \in DOMAIN got : i % 2 = 1 /\ got[i].bytes = k}
        keys     == {got[i].bytes : i \in {j \in DOMAIN got : j % 2 = 1}}
    IN  [k \in keys |-> got[1 + (CHOOSE i \in KeyAt(k) : \A j \in KeyAt(k) : j <= i)]]

(* The values that the bytes of s from p to e are an encoding of, where what *)
(* is between the first byte and the last is the concatenation of encodings *)
(* of the sequences in items; strict asks for sorted keys.                  *)
Element(s, items, p, e, strict) ==
    LET inner == SubSeq(s, p + 2, e - 1)
        colon == {k \in p + 2 .. e :
                    s[k] = ":" /\ e - k \in Unsigned(SubSeq(s, p + 1, k - 1), Lengths)}
    IN  IF s[p + 1] \in Digit THEN {[bytes |-> SubSeq(s, k + 1, e)] : k \in colon}
        ELSE IF s[e] # "e" THEN {}
        ELSE IF s[p + 1] = "i" THEN {[int |-> n] : n \in Signed(inner, Integers64)}
        ELSE IF s[p + 1] = "l" THEN {[list |-> got] : got \in items}
        ELSE IF s[p + 1] = "d"
          THEN {[dict |-> Dictionary(got)] :
                  got \in {g \in items : Entries(g) /\ (strict => Sorted(g))}}
        ELSE {}

(* m[<<a, b>>] is what is between a and b. *)
Encoded(s, m, p, e, strict) ==
    IF e - p < 2 THEN {} ELSE Element(s, m[<<p + 1, e - 1>>], p, e, strict)

Followed(vs, seqs) == UNION {{<<v>> \o rest : rest \in seqs} : v \in vs}

(* The bytes from a to b are nothing, or an encoding and what is after it.  *)
Concatenated(s, m, a, b, strict) ==
    IF a = b THEN {<<>>}
    ELSE UNION {Followed(Encoded(s, m, a, k, strict), m[<<k, b>>]) : k \in a + 2 .. b}

Spans(s) == (0 .. Len(s)) \X (0 .. Len(s))

(* The sequences of values that the bytes of s between two places are the   *)
(* concatenation of.                                                        *)
Items(s, strict) ==
    LET m[x \in Spans(s)] == Concatenated(s, m, x[1], x[2], strict)
    IN  m

Prefix(s, k, strict) == Encoded(s, Items(s, strict), 0, k, strict)

(* The values that s is an encoding of.                                     *)
Denotes(s, strict) == Prefix(s, Len(s), strict)

(* decode accepts a string just when it is an encoding and returns the one  *)
(* value it denotes; decode_partial does so for a prefix, there is only one *)
(* such prefix, and its length is what compute_info_hash hashes             *)
(* (metainfo.rs:207-209).                                                   *)
AgreesWithGrammar ==
    pc = "done" =>
      IF outcome = "ok"
        THEN /\ Prefix(data, pos, FALSE) = {ret}
             /\ whole => pos = Len(data)
             /\ \A k \in 0 .. Len(data) \ {pos} : Prefix(data, k, FALSE) = {}
        ELSE IF whole THEN Prefix(data, Len(data), FALSE) = {}
                      ELSE \A k \in 0 .. Len(data) : Prefix(data, k, FALSE) = {}

(* "Keys must be byte strings and appear in sorted order per the spec"       *)
(* (decoder.rs:139): what is accepted has sorted keys.                      *)
KeysSorted == outcome = "ok" => Prefix(data, pos, TRUE) # {}

=============================================================================
