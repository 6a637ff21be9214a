--------------------------- MODULE BencodeDecoder ---------------------------
(***************************************************************************)
(* src/bencode/decoder.rs: decode and decode_partial.  The recursion of    *)
(* parse_value, parse_list and parse_dict is a stack with one frame for    *)
(* each list or dictionary that is open; a frame holds the values its loop *)
(* has got so far, a dictionary's keys and values in turn.                 *)
(*                                                                         *)
(* A byte is the character that names it.  pos counts from 0, as in the    *)
(* code: the byte at the cursor is data[pos + 1].                          *)
(***************************************************************************)
EXTENDS Integers, Sequences, FiniteSets, Folds, SequencesExt

CONSTANTS
    Inputs,     \* byte strings that are decoded
    Letters,    \* the bytes that have no meaning here
    MaxInteger, \* i64::MAX
    MaxLength   \* usize::MAX

DigitChars == <<"0", "1", "2", "3", "4", "5", "6", "7", "8", "9">>
Digit == {DigitChars[i] : i \in DOMAIN DigitChars}
Byte  == Digit \cup {"i", "l", "d", "e", ":", "+", "-"} \cup Letters

ASSUME InputsOK ==
    /\ Inputs \subseteq Seq(Byte)
    /\ MaxInteger \in Nat /\ MaxLength \in Nat
    /\ \A s \in Inputs : Len(s) <= MaxLength
    /\ Letters \cap (Digit \cup {"i", "l", "d", "e", ":", "+", "-"}) = {}

VARIABLES
    data, pos,  \* the Decoder
    whole,      \* TRUE for decode, FALSE for decode_partial
    stack,      \* lists and dictionaries that are open
    pc,         \* "value": parse_value is called; "return": it returns ret;
                \* "loop": the while of the frame on top; "done"
    ret,        \* the value being returned, <<>> before the first
    outcome     \* "running", "ok", or the DecodeError

decoderVars == <<data, pos, whole, stack, pc, ret, outcome>>

DecodeErrors == {"UnexpectedEof", "InvalidInteger", "InvalidStringLength",
           "UnexpectedByte", "InvalidDictKey", "TrailingData"}

DecoderInit ==
    /\ data \in Inputs /\ whole \in BOOLEAN
    /\ pos = 0 /\ stack = <<>>
    /\ pc = "value" /\ ret = <<>> /\ outcome = "running"

-----------------------------------------------------------------------------
(* The text of a number, as str::parse takes it.                            *)

DigitOf(c) == (CHOOSE i \in DOMAIN DigitChars : DigitChars[i] = c) - 1

AddDigit(n, c) == 10 * n + DigitOf(c)

Magnitude(s) == FoldLeft(AddDigit, 0, s)

IsDigits(s) == s # <<>> /\ \A i \in DOMAIN s : s[i] \in Digit

(* The number of a range that a text stands for, if there is one.           *)
Only(n, range) == {n} \cap range

Unsigned(s, range) ==
    LET digits == IF s # <<>> /\ s[1] = "+" THEN Tail(s) ELSE s
    IN  IF IsDigits(digits) THEN Only(Magnitude(digits), range) ELSE {}

Signed(s, range) ==
    IF s # <<>> /\ s[1] = "-"
      THEN IF IsDigits(Tail(s)) THEN Only(-Magnitude(Tail(s)), range) ELSE {}
      ELSE Unsigned(s, range)

Integers64 == -MaxInteger - 1 .. MaxInteger
Lengths    == 0 .. MaxLength

(* Where the scan for c that starts at p stops: at c, or past the input.    *)
Scan(p, c) ==
    CHOOSE q \in p .. Len(data) :
      /\ q = Len(data) \/ data[q + 1] = c
      /\ \A r \in p .. q - 1 : data[r + 1] # c

Text(p, q) == SubSeq(data, p + 1, q)      \* &data[p..q]

-----------------------------------------------------------------------------
TryAgain(o) ==   \* mutant: a loop that does not leave on an error
    /\ pc' = "value" /\ outcome' = "running"
    /\ UNCHANGED <<pos, stack, ret>>

Done(o) ==
    /\ pc' = "done" /\ outcome' = o
    /\ UNCHANGED <<pos, stack, ret>>

Return(v, p) ==
    /\ pc' = "return" /\ ret' = v /\ pos' = p
    /\ UNCHANGED <<stack, outcome>>

AtEnd   == pos = Len(data)
Here(c) == ~AtEnd /\ data[pos + 1] = c

(* The number is parsed before its 'e' is looked for. *)
ParseInteger ==
    LET stop == Scan(pos + 1, "e")
        ns   == Signed(Text(pos + 1, stop), Integers64)
    IN  IF ns = {} THEN Done("InvalidInteger")
        ELSE IF stop = Len(data) THEN Done("UnexpectedEof")
        ELSE \E n \in ns : Return([int |-> n], stop + 1)

LastByteLost(p, n) == p + n >= Len(data)   \* mutant

(* usize overflows: debug builds stop, and in release builds the wrapped sum *)
(* is below p, so the slice is out of range.  Both panic.                   *)
Overflows(p, n) == p + n > MaxLength
TooLong(p, n)   == p + n > Len(data)

ParseBytes ==
    LET stop == Scan(pos, ":")
        ns   == Unsigned(Text(pos, stop), Lengths)
    IN  IF ns = {} THEN Done("InvalidStringLength")
        ELSE IF stop = Len(data) THEN Done("UnexpectedEof")
        ELSE \E n \in ns :
               IF Overflows(stop + 1, n) THEN Done("panic")
               ELSE IF TooLong(stop + 1, n) THEN Done("UnexpectedEof")
               ELSE Return([bytes |-> Text(stop + 1, stop + 1 + n)], stop + 1 + n)

OpenWithoutAdvance(kind) ==   \* mutant: expect(b'l') forgotten
    /\ stack' = Append(stack, [kind |-> kind, at |-> pos, got |-> <<>>])
    /\ pc' = "loop"
    /\ UNCHANGED <<pos, ret, outcome>>

Open(kind) ==
    /\ stack' = Append(stack, [kind |-> kind, at |-> pos, got |-> <<>>])
    /\ pos' = pos + 1 /\ pc' = "loop"
    /\ UNCHANGED <<ret, outcome>>

Value ==
    /\ pc = "value"
    /\ \/ Here("i") /\ ParseInteger
       \/ Here("l") /\ Open("list")
       \/ Here("d") /\ Open("dict")
       \/ (\E c \in Digit : Here(c)) /\ ParseBytes
       \/ (\E c \in {"e", ":", "+", "-"} \cup Letters : Here(c)) /\ Done("UnexpectedByte")
       \/ AtEnd /\ Done("UnexpectedEof")
    /\ UNCHANGED <<data, whole>>

Top == Last(stack)

(* A key that comes again replaces the value it had.                        *)
FirstWins(got, k) == CHOOSE i \in DOMAIN got :   \* mutant
    /\ i % 2 = 1 /\ got[i].bytes = k
    /\ \A j \in 1 .. i - 1 : j % 2 = 1 => got[j].bytes # k

EntryOf(got, k) == CHOOSE i \in DOMAIN got :
    /\ i % 2 = 1 /\ got[i].bytes = k
    /\ \A j \in i + 1 .. Len(got) : j % 2 = 1 => got[j].bytes # k

DictOf(got) ==
    LET keys == {got[i].bytes : i \in {j \in DOMAIN got : j % 2 = 1}}
    IN  [k \in keys |-> got[EntryOf(got, k) + 1]]

Closed(f) == IF f.kind = "list" THEN [list |-> f.got] ELSE [dict |-> DictOf(f.got)]

(* while self.peek()? != b'e' *)
Loop ==
    /\ pc = "loop"
    /\ \/ AtEnd /\ Done("UnexpectedEof")
       \/ /\ Here("e")
          /\ ret' = Closed(Top) /\ stack' = Front(stack)
          /\ pos' = pos + 1 /\ pc' = "return"
          /\ UNCHANGED outcome
       \/ /\ ~AtEnd /\ ~Here("e")
          /\ pc' = "value"
          /\ UNCHANGED <<pos, stack, ret, outcome>>
    /\ UNCHANGED <<data, whole>>

AnyKey(f) == FALSE   \* mutant: a key of any kind taken

KeyExpected(f) == f.kind = "dict" /\ Len(f.got) % 2 = 0

TrailingAllowed == FALSE   \* mutant

Trailing == whole /\ ~AtEnd

(* parse_value returns, to the loop that called it or to decode.            *)
Resume ==
    /\ pc = "return"
    /\ IF stack = <<>>
         THEN Done(IF Trailing THEN "TrailingData" ELSE "ok")
         ELSE IF KeyExpected(Top) /\ "bytes" \notin DOMAIN ret
           THEN Done("InvalidDictKey")
           ELSE /\ stack' = [stack EXCEPT ![Len(stack)].got = Append(@, ret)]
                /\ pc' = IF KeyExpected(Top) THEN "value" ELSE "loop"
                /\ UNCHANGED <<pos, ret, outcome>>
    /\ UNCHANGED <<data, whole>>

DecoderNext == Value \/ Loop \/ Resume

DecoderSpec     == DecoderInit /\ [][DecoderNext]_decoderVars
DecoderFairSpec == DecoderSpec /\ WF_decoderVars(DecoderNext)

-----------------------------------------------------------------------------
(* Properties. *)

(* Types of every variable; the cursor stays in the input, and every other  *)
(* value of a dictionary that is being read is a byte string: its keys.     *)
DecoderTypeOK ==
    /\ data \in Seq(Byte) /\ whole \in BOOLEAN
    /\ pos \in 0 .. Len(data)
    /\ pc \in {"value", "loop", "return", "done"}
    /\ outcome \in DecodeErrors \cup {"running", "ok", "panic"}
    /\ \A k \in DOMAIN stack :
         /\ DOMAIN stack[k] = {"kind", "at", "got"}
         /\ stack[k].kind \in {"list", "dict"}
         /\ \A i \in DOMAIN stack[k].got :
              stack[k].kind = "dict" /\ i % 2 = 1 => "bytes" \in DOMAIN stack[k].got[i]
    /\ pc = "loop" => stack # <<>>

(* The recursion is never deeper than the bytes it has read: each open list *)
(* or dictionary has its own opening byte, in order, before the cursor.     *)
DepthBounded ==
    /\ \A k \in DOMAIN stack :
         /\ stack[k].at < pos
         /\ data[stack[k].at + 1] = IF stack[k].kind = "list" THEN "l" ELSE "d"
         /\ k > 1 => stack[k - 1].at < stack[k].at
    /\ Len(stack) <= pos

(* Whatever the input, decode is linear in its length: each step uses up   *)
(* some of the four that a byte allows, so that no step can be repeated for *)
(* ever and no byte is read in more than four of them.                      *)
PcRank == [done |-> 0, value |-> 1, loop |-> 2, return |-> 3]

WorkLeft == 4 * (Len(data) - pos) + PcRank[pc]

Linear == [][WorkLeft' < WorkLeft /\ WorkLeft' >= 0]_decoderVars

(* decode returns. *)
DecodeEnds == <>(pc = "done")

=============================================================================
