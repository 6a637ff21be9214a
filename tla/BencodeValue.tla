---------------------------- MODULE BencodeValue ----------------------------
(***************************************************************************)
(* The accessors of bencode::Value.  A value is what BencodeDecoder        *)
(* returns: a record with the one field int, bytes, list or dict.  An      *)
(* Option is the set of what it holds: {} is None.                         *)
(***************************************************************************)
EXTENDS Integers, Sequences

CONSTANTS Lead,          \* bytes that start a character of two bytes
          Continuation   \* bytes that end one

(* from_utf8 takes b.                                                       *)
Utf8(b) ==
    \A i \in 1 .. Len(b) + 1 :
      (i \in DOMAIN b /\ b[i] \in Continuation) <=> (i > 1 /\ b[i - 1] \in Lead)

AsInteger(v) == IF "int" \in DOMAIN v THEN {v.int} ELSE {}
AsBytes(v)   == IF "bytes" \in DOMAIN v THEN {v.bytes} ELSE {}
AsStr(v)     == {b \in AsBytes(v) : Utf8(b)}
AsList(v)    == IF "list" \in DOMAIN v THEN {v.list} ELSE {}
AsDict(v)    == IF "dict" \in DOMAIN v THEN {v.dict} ELSE {}

Get(v, key) == {d[key] : d \in {m \in AsDict(v) : key \in DOMAIN m}}

(* Get and one of the conversions: get_str(key).and_then(Value::as_...).    *)
GetInteger(v, key) == UNION {AsInteger(f) : f \in Get(v, key)}
GetBytes(v, key)   == UNION {AsBytes(f) : f \in Get(v, key)}
GetStr(v, key)     == UNION {AsStr(f) : f \in Get(v, key)}
GetList(v, key)    == UNION {AsList(f) : f \in Get(v, key)}
=============================================================================
