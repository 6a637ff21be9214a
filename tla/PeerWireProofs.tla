--------------------------- MODULE PeerWireProofs ---------------------------
(***************************************************************************)
(* Proofs about PeerWire, for any messages, sizes and piece.               *)
(***************************************************************************)
EXTENDS PeerWire, SequenceTheorems, TLAPS

-----------------------------------------------------------------------------
(* Words. *)

LEMMA BaseOK == Base \in Nat /\ Base > 9 /\ Byte = 0 .. Base - 1
BY ConstantsOK DEF Byte

(* One byte is split off a number, and put back.                            *)
LEMMA ShiftBack ==
  ASSUME NEW n \in Nat
  PROVE  Shifted(n) \in Nat /\ n % Base \in Byte /\ Shifted(n) * Base + (n % Base) = n
<1>1. Base \in Nat /\ Base > 0  BY BaseOK
<1>2. n \div Base \in Nat /\ n % Base \in 0 .. Base - 1
      /\ n = Base * (n \div Base) + (n % Base)
  BY <1>1
<1>3. Base * (n \div Base) = (n \div Base) * Base  BY <1>1, <1>2
<1> QED  BY <1>2, <1>3 DEF Shifted, Byte

LEMMA ShiftBound ==
  ASSUME NEW n \in Nat, NEW b \in Nat, n < b * Base
  PROVE  Shifted(n) < b
<1>1. Shifted(n) \in Nat /\ n % Base \in Byte /\ Shifted(n) * Base + (n % Base) = n
  BY ShiftBack
<1>2. Base \in Nat /\ Base > 0  BY BaseOK
<1> SUFFICES ASSUME b <= Shifted(n) PROVE FALSE  BY <1>1
<1>3. (Shifted(n) - b) * Base >= 0
  <2>1. Shifted(n) - b \in Nat  BY <1>1
  <2>2. \A x, y \in Nat : x * y >= 0  OBVIOUS
  <2> QED  BY <2>1, <2>2, <1>2
<1>4. (Shifted(n) - b) * Base = Shifted(n) * Base - b * Base  BY <1>1, <1>2
<1> DEFINE x == Shifted(n) * Base
           y == b * Base
<1>5. x \in Nat /\ y \in Nat  BY <1>1, <1>2
<1>6. x >= y /\ x + (n % Base) = n /\ n < y  BY <1>1, <1>3, <1>4, <1>5
<1>7. n % Base >= 0 /\ n % Base \in Int  BY <1>1, BaseOK
<1> HIDE DEF x, y
<1> QED  BY <1>5, <1>6, <1>7

(* put_u32 and get_u32 are inverse on every u32: message.rs:92, 139, 166.   *)
THEOREM WordRoundTrip ==
  ASSUME NEW n \in U32
  PROVE  /\ PutU32(n) \in Seq(Byte) /\ Len(PutU32(n)) = 4
         /\ GetU32(PutU32(n), 0) = n
<1>1. Base \in Nat /\ Base > 0  BY BaseOK
<1>2. n \in Nat /\ n < Base * Base * Base * Base
  <2>1. Pow4 \in Nat  BY <1>1 DEF Pow4
  <2> QED  BY <2>1 DEF U32, Pow4
<1> DEFINE n1 == Shifted(n)
           n2 == Shifted(n1)
           n3 == Shifted(n2)
<1>3. n1 \in Nat /\ n % Base \in Byte /\ n1 * Base + (n % Base) = n  BY <1>2, ShiftBack
<1>4. n2 \in Nat /\ n1 % Base \in Byte /\ n2 * Base + (n1 % Base) = n1  BY <1>3, ShiftBack
<1>5. n3 \in Nat /\ n2 % Base \in Byte /\ n3 * Base + (n2 % Base) = n2  BY <1>4, ShiftBack
<1>6. n3 < Base
  <2>1. Base * Base \in Nat /\ Base * Base * Base \in Nat  BY <1>1
  <2>2. n1 < Base * Base * Base  BY <1>2, <2>1, ShiftBound
  <2>3. n2 < Base * Base  BY <1>3, <2>1, <2>2, ShiftBound
  <2> QED  BY <1>1, <1>4, <2>3, ShiftBound
<1>7. n3 % Base = n3  BY <1>1, <1>5, <1>6
<1>8. PutU32(n) = <<n3 % Base, n2 % Base, n1 % Base, n % Base>>  BY DEF PutU32
<1>9. n3 % Base \in Byte  BY <1>5, <1>6, <1>7, BaseOK
<1> HIDE DEF n1, n2, n3
<1>10. PutU32(n) \in Seq(Byte) /\ Len(PutU32(n)) = 4
  BY <1>3, <1>4, <1>5, <1>8, <1>9
<1>11. GetU32(PutU32(n), 0)
         = ((n3 * Base + (n2 % Base)) * Base + (n1 % Base)) * Base + (n % Base)
  BY <1>7, <1>8 DEF GetU32
<1> QED  BY <1>3, <1>4, <1>5, <1>10, <1>11

(* One more byte.                                                           *)
LEMMA ByteMore ==
  ASSUME NEW a \in Nat, NEW b \in Byte, NEW m \in Nat, a < m
  PROVE  a * Base + b \in Nat /\ a * Base + b < m * Base
<1>1. Base \in Nat /\ b \in Nat /\ b < Base  BY BaseOK
<1>2. (m - a - 1) * Base >= 0
  <2>1. m - a - 1 \in Nat  OBVIOUS
  <2>2. \A x, y \in Nat : x * y >= 0  OBVIOUS
  <2> QED  BY <2>1, <2>2, <1>1
<1>3. (m - a - 1) * Base = m * Base - a * Base - Base  BY <1>1
<1> DEFINE x == a * Base
           y == m * Base
<1>4. x \in Nat /\ y \in Nat  BY <1>1
<1>5. y - x - Base >= 0  BY <1>2, <1>3
<1> HIDE DEF x, y
<1>6. x + b \in Nat /\ x + b < y  BY <1>1, <1>4, <1>5
<1> QED  BY <1>6 DEF x, y

(* Four bytes are a u32. *)
LEMMA WordBound ==
  ASSUME NEW s \in Seq(Byte), NEW at \in Nat, at + 4 <= Len(s)
  PROVE  GetU32(s, at) \in U32 /\ GetU32(s, at) \in Nat /\ GetU32(s, at) < Pow4
<1>1. Base \in Nat /\ Base > 0 /\ Byte = 0 .. Base - 1  BY BaseOK
<1>2. s[at + 1] \in Byte /\ s[at + 2] \in Byte /\ s[at + 3] \in Byte /\ s[at + 4] \in Byte
  OBVIOUS
<1> DEFINE w1 == s[at + 1]
           w2 == w1 * Base + s[at + 2]
           w3 == w2 * Base + s[at + 3]
           w4 == w3 * Base + s[at + 4]
<1>3. w1 \in Nat /\ w1 < Base  BY <1>1, <1>2
<1>4. w2 \in Nat /\ w2 < Base * Base  BY <1>1, <1>2, <1>3, ByteMore, Zenon
<1>5. Base * Base \in Nat /\ Base * Base * Base \in Nat  BY <1>1
<1>6. w3 \in Nat /\ w3 < Base * Base * Base  BY <1>2, <1>4, <1>5, ByteMore
<1>7. w4 \in Nat /\ w4 < Base * Base * Base * Base  BY <1>2, <1>5, <1>6, ByteMore
<1>8. Pow4 \in Nat  BY <1>1 DEF Pow4
<1>9. GetU32(s, at) = w4  BY DEF GetU32
<1> HIDE DEF w1, w2, w3, w4
<1> QED  BY <1>7, <1>8, <1>9 DEF Pow4, U32

(* Whatever number is written, bytes are.                                   *)
LEMMA WordBytes ==
  ASSUME NEW n \in Nat
  PROVE  PutU32(n) \in Seq(Byte) /\ Len(PutU32(n)) = 4
<1> DEFINE n1 == Shifted(n)
           n2 == Shifted(n1)
           n3 == Shifted(n2)
<1>1. n1 \in Nat /\ n % Base \in Byte  BY ShiftBack
<1>2. n2 \in Nat /\ n1 % Base \in Byte  BY <1>1, ShiftBack
<1>3. n3 \in Nat /\ n2 % Base \in Byte  BY <1>2, ShiftBack
<1>4. n3 % Base \in Byte  BY <1>3, ShiftBack
<1>5. PutU32(n) = <<n3 % Base, n2 % Base, n1 % Base, n % Base>>  BY DEF PutU32
<1> HIDE DEF n1, n2, n3
<1> QED  BY <1>1, <1>2, <1>3, <1>4, <1>5

(* Message::have, request and serialize give bytes.                         *)
LEMMA EncodedBytes ==
  ASSUME NEW m \in Messages
  PROVE  Encoded(m) \in Seq(Byte)
<1>1. 0 .. 8 \subseteq Byte  BY BaseOK
<1>2. U32 \subseteq Nat  BY ConstantsOK DEF U32
<1>3. ASSUME NEW w, w.id \in 0 .. 8, w.payload \in Seq(Byte)
      PROVE  Serialize(w) \in Seq(Byte)
  <2>1. 1 + Len(w.payload) \in Nat  BY <1>3
  <2>2. PutU32(1 + Len(w.payload)) \in Seq(Byte)  BY <2>1, WordBytes
  <2>3. <<w.id>> \in Seq(Byte)  BY <1>1, <1>3
  <2> QED  BY <1>3, <2>2, <2>3 DEF Serialize
<1>4. CASE m.kind \in {"malformed", "ignored"}
  BY <1>4, MessagesOK DEF Encoded
<1>5. CASE m.kind = "keep_alive"
  BY <1>5, WordBytes DEF Encoded
<1>6. CASE m.kind \in {"have", "request", "piece", "plain"}
  <2>1. Built(m).id \in 0 .. 8 /\ Built(m).payload \in Seq(Byte)
    <3>1. CASE m.kind = "have"
      <4>1. PutU32(m.index) \in Seq(Byte)  BY <3>1, <1>2, MessagesOK, WordBytes
      <4> QED  BY <3>1, <4>1 DEF Built, WithPayload, Have
    <3>2. CASE m.kind = "request"
      <4>1. PutU32(m.index) \in Seq(Byte) /\ PutU32(m.begin) \in Seq(Byte)
            /\ PutU32(m.length) \in Seq(Byte)
        BY <3>2, <1>2, MessagesOK, WordBytes
      <4> QED  BY <3>2, <4>1 DEF Built, WithPayload, Request
    <3>3. CASE m.kind = "piece"
      <4>1. PutU32(m.index) \in Seq(Byte) /\ PutU32(m.begin) \in Seq(Byte)
            /\ m.data \in Seq(Byte)
        BY <3>3, <1>2, MessagesOK, WordBytes
      <4> QED  BY <3>3, <4>1 DEF Built, WithPayload, PieceId
    <3>4. CASE m.kind = "plain"
      <4>1. m.id \in 0 .. 8  BY <3>4, MessagesOK
      <4> QED  BY <3>4, <4>1 DEF Built, WithPayload
    <3> QED  BY <1>6, <3>1, <3>2, <3>3, <3>4
  <2>2. Encoded(m) = Serialize(Built(m))  BY <1>6 DEF Encoded
  <2> QED  BY <1>3, <2>1, <2>2
<1> QED  BY <1>4, <1>5, <1>6, MessagesOK

-----------------------------------------------------------------------------
(* The reader. *)

Inv == TypeOK /\ NoPanic

LEMMA InitInv == Init => Inv
<1> SUFFICES ASSUME Init PROVE Inv  OBVIOUS
<1>1. 0 \in Byte  BY BaseOK
<1>2. [o \in 1 .. BufLen |-> 0] \in [1 .. BufLen -> Byte]  BY <1>1
<1>3. MaxSize \in Nat  BY ConstantsOK
<1>4. NoMessage \in [id : 0 .. 8, payload : Seq(Byte)] /\ Len(NoMessage.payload) = 0
  BY DEF NoMessage
<1>5. <<>> \in Seq(Messages) /\ <<>> \in Seq(Byte) /\ Len(<<>>) = 0  OBVIOUS
<1>6. haves \subseteq U32 /\ buf \in [1 .. BufLen -> Byte] /\ closed \in BOOLEAN
  BY <1>2 DEF Init
<1>7. msg \in [id : 0 .. 8, payload : Seq(Byte)] /\ Len(msg.payload) <= MaxSize
  BY <1>3, <1>4 DEF Init
<1> QED  BY <1>5, <1>6, <1>7 DEF Init, Inv, TypeOK, NoPanic

(* A failure changes no more than pc and err.                               *)
LEMMA FailInv ==
  ASSUME Inv, NEW e \in {"Io", "TooLarge", "InvalidId", "PayloadTooShort", "IndexMismatch"},
         Fail(e)
  PROVE  Inv'
BY DEF Inv, TypeOK, NoPanic, Fail

LEMMA WriteInv ==
  ASSUME Inv, NEW m \in Messages, Write(m)
  PROVE  Inv'
<1>1. wire' \in Seq(Byte)  BY EncodedBytes DEF Inv, TypeOK, Write
<1>2. sent' \in Seq(Messages)  BY DEF Inv, TypeOK, Write
<1> QED  BY <1>1, <1>2 DEF Inv, TypeOK, NoPanic, Write

(* A sequence of bytes in two parts.                                        *)
LEMMA CutBytes ==
  ASSUME NEW s \in Seq(Byte), NEW k \in 0 .. Len(s)
  PROVE  /\ SubSeq(s, 1, k) \in Seq(Byte) /\ SubSeq(s, k + 1, Len(s)) \in Seq(Byte)
         /\ SubSeq(s, 1, k) \o SubSeq(s, k + 1, Len(s)) = s
<1>1. \A i \in 1 .. Len(s) : s[i] \in Byte  BY ElementOfSeq
<1>2. k \in Int /\ Len(s) \in Int /\ 0 <= k /\ k <= Len(s)  OBVIOUS
<1>3. (\A i \in 1 .. k : s[i] \in Byte) /\ \A i \in k + 1 .. Len(s) : s[i] \in Byte
  BY <1>1, <1>2
<1>4. SubSeq(s, 1, k) \in Seq(Byte) /\ SubSeq(s, k + 1, Len(s)) \in Seq(Byte)
  BY <1>2, <1>3, SubSeqProperties
<1>5. SubSeq(s, 1, k) \o SubSeq(s, k + 1, Len(s)) = s
  <2>1. CASE k = 0
    <3>1. SubSeq(s, 1, 0) = <<>> /\ SubSeq(s, 0 + 1, Len(s)) = s  OBVIOUS
    <3> QED  BY <2>1, <3>1, ConcatEmptySeq
  <2>2. CASE k # 0
    <3>1. Len(s) \in Nat /\ k \in 1 .. Len(s)  BY <2>2
    <3> QED  BY <3>1
  <2> QED  BY <2>1, <2>2
<1> QED  BY <1>4, <1>5

LEMMA CloseInv ==
  ASSUME Inv, Close
  PROVE  Inv'
<1>1. PICK k \in 0 .. Len(wire) :
           wire' = SubSeq(wire, 1, k) /\ lost' = SubSeq(wire, k + 1, Len(wire))
  BY DEF Close
<1>2. wire \in Seq(Byte)  BY DEF Inv, TypeOK
<1>3. wire' \in Seq(Byte) /\ lost' \in Seq(Byte)  BY <1>1, <1>2, CutBytes
<1> QED  BY <1>3 DEF Inv, TypeOK, NoPanic, Close

LEMMA ReceiveInv ==
  ASSUME Inv, NEW k \in 1 .. Len(wire), Receive(k)
  PROVE  Inv'
<1>1. wire \in Seq(Byte) /\ part \in Seq(Byte) /\ Len(part) <= need /\ need \in Nat
  BY DEF Inv, TypeOK
<1>2. SubSeq(wire, 1, k) \in Seq(Byte) /\ Len(SubSeq(wire, 1, k)) = k
  BY <1>1, SubSeqProperties
<1>3. part' \in Seq(Byte) /\ Len(part') = Len(part) + k
  BY <1>1, <1>2, ConcatProperties DEF Receive
<1>4. wire' \in Seq(Byte)
  BY <1>1, SubSeqProperties DEF Receive
<1>5. Len(part') <= need  BY <1>1, <1>3 DEF Receive
<1> QED  BY <1>3, <1>4, <1>5 DEF Inv, TypeOK, NoPanic, Receive

LEMMA ReadLengthInv ==
  ASSUME Inv, ReadLength
  PROVE  Inv'
<1> DEFINE length == GetU32(part, 0)
<1>1. length \in Nat
  <2>1. part \in Seq(Byte) /\ Len(part) = 4  BY DEF Inv, TypeOK, ReadLength
  <2>2. 0 \in Nat /\ 0 + 4 <= Len(part)  BY <2>1
  <2> QED  BY <2>1, <2>2, WordBound
<1>2. <<>> \in Seq(Byte) /\ Len(<<>>) = 0  OBVIOUS
<1>3. MaxSize \in Nat  BY ConstantsOK
<1> HIDE DEF length
<1>4. CASE Expect("len", 4) /\ taken' = taken + 1
           /\ UNCHANGED <<sent, wire, closed, lost, msg, haves, buf, err>>
  BY <1>2, <1>4 DEF Inv, TypeOK, NoPanic, Expect
<1>5. CASE Fail("TooLarge")
  BY <1>5, FailInv
<1>6. CASE length # 0 /\ ~TooLarge(length) /\ Expect("body", BodyLength(length))
           /\ UNCHANGED <<sent, wire, closed, lost, msg, taken, haves, buf, err>>
  <2>1. BodyLength(length) \in 1 .. MaxSize
    BY <1>1, <1>3, <1>6 DEF TooLarge, BodyLength
  <2> QED  BY <1>2, <1>3, <1>6, <2>1 DEF Inv, TypeOK, NoPanic, Expect
<1> QED  BY <1>4, <1>5, <1>6 DEF ReadLength, length

LEMMA ReadBodyInv ==
  ASSUME Inv, ReadBody
  PROVE  Inv'
<1>1. part \in Seq(Byte) /\ part # <<>> /\ Len(part) <= MaxSize /\ MaxSize \in Nat
  BY ConstantsOK DEF Inv, TypeOK, ReadBody
<1>2. CASE Fail("InvalidId")
  BY <1>2, FailInv
<1>3. CASE part[1] <= 8 /\ msg' = WithPayload(part[1], Tail(part)) /\ Expect("got", 0)
           /\ UNCHANGED <<sent, wire, closed, lost, taken, haves, buf, err>>
  <2>1. Tail(part) \in Seq(Byte) /\ Len(Tail(part)) = Len(part) - 1
    BY <1>1
  <2>2. part[1] \in 0 .. 8
    <3>1. part[1] \in Byte  BY <1>1
    <3> QED  BY <1>3, <3>1, BaseOK
  <2>3. msg' \in [id : 0 .. 8, payload : Seq(Byte)] /\ Len(msg'.payload) <= MaxSize
    BY <1>1, <1>3, <2>1, <2>2 DEF WithPayload
  <2>4. <<>> \in Seq(Byte) /\ Len(<<>>) = 0  OBVIOUS
  <2> QED  BY <1>3, <2>3, <2>4 DEF Inv, TypeOK, NoPanic, Expect
<1> QED  BY <1>2, <1>3 DEF ReadBody

(* The message is used up, and the caller waits for another.                *)
LEMMA NextMessageInv ==
  ASSUME Inv, NextMessage, haves' \subseteq U32, buf' \in [1 .. BufLen -> Byte]
  PROVE  Inv'
<1>1. <<>> \in Seq(Byte) /\ Len(<<>>) = 0  OBVIOUS
<1> QED  BY <1>1 DEF Inv, TypeOK, NoPanic, NextMessage, Expect

LEMMA ParseHaveInv ==
  ASSUME Inv, ParseHave
  PROVE  Inv'
<1>1. CASE Len(msg.payload) < 4
  BY <1>1, NextMessageInv DEF Inv, TypeOK, ParseHave
<1>2. CASE Len(msg.payload) >= 4
  <2>1. GetU32(msg.payload, 0) \in U32  BY <1>2, WordBound DEF Inv, TypeOK
  <2> QED  BY <1>2, <2>1, NextMessageInv DEF Inv, TypeOK, ParseHave
<1>3. Len(msg.payload) \in Nat  BY DEF Inv, TypeOK
<1> QED  BY <1>1, <1>2, <1>3

(* The sum of an offset and a length is far from usize::MAX, so that the    *)
(* comparison with the length of the buffer means what it says.             *)
LEMMA ParsePieceInv ==
  ASSUME Inv, ParsePiece
  PROVE  Inv'
<1>1. msg.payload \in Seq(Byte) /\ Len(msg.payload) <= MaxSize
  BY DEF Inv, TypeOK
<1>2. CASE Len(msg.payload) < 8 /\ Fail("PayloadTooShort")
  BY <1>2, FailInv
<1>3. CASE Len(msg.payload) >= 8
  <2> DEFINE index == GetU32(msg.payload, 0)
             begin == GetU32(msg.payload, 4)
             block == SubSeq(msg.payload, 9, Len(msg.payload))
  <2>1. begin \in Nat /\ begin < Pow4  BY <1>1, <1>3, WordBound
  <2>2. block \in Seq(Byte) /\ Len(block) <= MaxSize
    <3> DEFINE n == Len(msg.payload)
    <3>1. n \in Nat /\ n >= 8 /\ n <= MaxSize /\ MaxSize \in Nat
      BY <1>1, <1>3, ConstantsOK
    <3>2. \A i \in 9 .. n : msg.payload[i] \in Byte  BY <1>1
    <3> HIDE DEF n
    <3>3. SubSeq(msg.payload, 9, n) \in Seq(Byte)
          /\ Len(SubSeq(msg.payload, 9, n)) = IF 9 <= n THEN n - 9 + 1 ELSE 0
      BY <3>1, <3>2, SubSeqProperties
    <3>4. Len(SubSeq(msg.payload, 9, n)) <= MaxSize  BY <3>1, <3>3
    <3> QED  BY <3>3, <3>4 DEF n
  <2> HIDE DEF index, begin, block
  <2>3. CASE Fail("IndexMismatch")  BY <2>3, FailInv
  <2>4. CASE Fail("PayloadTooShort")  BY <2>4, FailInv
  <2>5. CASE /\ index = Piece /\ ~TooShort(begin, Len(block))
             /\ IF InRange(begin, Len(block))
                  THEN buf' = Copied(begin, block) /\ NextMessage /\ UNCHANGED haves
                  ELSE Fail("panic")
    <3>1. InRange(begin, Len(block))
      <4>1. Pow4 \in Nat /\ MaxSize \in Nat /\ Usize \in Nat /\ Pow4 + MaxSize < Usize
            /\ BufLen \in Nat
        <5>1. Pow4 \in Nat  BY BaseOK DEF Pow4
        <5> QED  BY <5>1, ConstantsOK
      <4>2. begin + Len(block) < Usize /\ begin + Len(block) \in Nat
        BY <2>1, <2>2, <4>1
      <4>3. (begin + Len(block)) % Usize = begin + Len(block)  BY <4>1, <4>2
      <4> QED  BY <2>5, <4>1, <4>2, <4>3 DEF TooShort, InRange
    <3>2. Copied(begin, block) \in [1 .. BufLen -> Byte]
      <4>1. buf \in [1 .. BufLen -> Byte] /\ BufLen \in Nat
        BY ConstantsOK DEF Inv, TypeOK
      <4>2. ASSUME NEW o \in 1 .. BufLen, begin < o, o <= begin + Len(block)
            PROVE  block[o - begin] \in Byte
        <5>1. o - begin \in 1 .. Len(block)  BY <2>1, <2>2, <4>1, <4>2
        <5> QED  BY <2>2, <5>1
      <4> QED  BY <4>1, <4>2 DEF Copied
    <3> QED  BY <2>5, <3>1, <3>2, NextMessageInv DEF Inv, TypeOK
  <2> QED  BY <1>3, <2>3, <2>4, <2>5 DEF ParsePiece, index, begin, block
<1> QED  BY <1>1, <1>2, <1>3 DEF ParsePiece

LEMMA StepInv == Inv /\ [Next]_vars => Inv'
<1> SUFFICES ASSUME Inv, [Next]_vars PROVE Inv'  OBVIOUS
<1>1. ASSUME NEW m \in Messages, Write(m) PROVE Inv'  BY <1>1, WriteInv
<1>2. CASE Close  BY <1>2, CloseInv
<1>3. CASE ReadLength  BY <1>3, ReadLengthInv
<1>4. CASE ReadBody  BY <1>4, ReadBodyInv
<1>5. CASE EndOfFile  BY <1>5, FailInv DEF EndOfFile
<1>6. ASSUME NEW k \in 1 .. Len(wire), Receive(k) PROVE Inv'  BY <1>6, ReceiveInv
<1>7. CASE ParseHave  BY <1>7, ParseHaveInv
<1>8. CASE ParsePiece  BY <1>8, ParsePieceInv
<1>9. CASE Other  BY <1>9, NextMessageInv DEF Other, Inv, TypeOK
<1>10. CASE UNCHANGED vars  BY <1>10 DEF Inv, TypeOK, NoPanic, vars
<1> QED
  BY <1>1, <1>2, <1>3, <1>4, <1>5, <1>6, <1>7, <1>8, <1>9, <1>10 DEF Next, Read, Use

THEOREM Invariant == Spec => []Inv
BY InitInv, StepInv, PTL DEF Spec

(* The reader's variables have their types, for any peer: read_exact never  *)
(* has more than it wants and no body passes the limit.                     *)
THEOREM TypeCorrect == Spec => []TypeOK
<1>1. Inv => TypeOK  BY DEF Inv
<1> QED  BY <1>1, Invariant, PTL

(* parse_piece never reaches copy_from_slice with a range that the buffer   *)
(* does not have, whatever offset and block the peer sends.                 *)
THEOREM NeverPanics == Spec => []NoPanic
<1>1. Inv => NoPanic  BY DEF Inv
<1> QED  BY <1>1, Invariant, PTL

-----------------------------------------------------------------------------
(* PeerWire implements Blocks: whatever the chunks in which the bytes       *)
(* arrive, what the parsers take from them are the messages.                *)

(* Words, the other way round. *)

LEMMA Unshift ==
  ASSUME NEW a \in Nat, NEW b \in Byte
  PROVE  Shifted(a * Base + b) = a /\ (a * Base + b) % Base = b
<1> DEFINE n == a * Base + b
           q == Shifted(n)
           r == n % Base
<1>1. Base \in Nat /\ Base > 0 /\ b \in Nat /\ b < Base  BY BaseOK
<1>2. n \in Nat  BY <1>1
<1>3. q \in Nat /\ r \in Byte /\ q * Base + r = n  BY <1>2, ShiftBack
<1>4. n < (a + 1) * Base
  <2>1. a + 1 \in Nat /\ a < a + 1  OBVIOUS
  <2> QED  BY <2>1, ByteMore
<1>5. q < a + 1  BY <1>2, <1>4, ShiftBound
<1>6. ~(q < a)
  <2> SUFFICES ASSUME q < a PROVE FALSE  OBVIOUS
  <2>1. q * Base + r < a * Base  BY <1>3, ByteMore
  <2> DEFINE x == a * Base
  <2>2. x \in Nat  BY <1>1
  <2>3. x + b < x  BY <1>3, <2>1
  <2> HIDE DEF x
  <2> QED  BY <1>1, <2>2, <2>3
<1>7. q = a
  <2> HIDE DEF n, q
  <2> QED  BY <1>3, <1>5, <1>6
<1>8. r = b
  <2> DEFINE x == a * Base
  <2>1. x \in Nat /\ r \in Nat  BY <1>1, <1>3
  <2>2. x + r = x + b  BY <1>3, <1>7
  <2> HIDE DEF x, r
  <2> QED  BY <1>1, <2>1, <2>2
<1> QED  BY <1>7, <1>8

LEMMA WordBack ==
  ASSUME NEW s \in Seq(Byte), Len(s) = 4
  PROVE  PutU32(GetU32(s, 0)) = s
<1> DEFINE w1 == s[1]
           w2 == w1 * Base + s[2]
           w3 == w2 * Base + s[3]
           w4 == w3 * Base + s[4]
<1>0. Base \in Nat /\ Base > 0  BY BaseOK
<1>1. s[1] \in Byte /\ s[2] \in Byte /\ s[3] \in Byte /\ s[4] \in Byte
  <2>1. \A i \in 1 .. 4 : s[i] \in Byte  BY ElementOfSeq
  <2> QED  BY <2>1
<1>2. w1 \in Nat /\ w1 < Base  BY <1>1, BaseOK
<1>3. w2 \in Nat  BY <1>0, <1>1, <1>2, ByteMore
<1>4. w3 \in Nat
  <2>1. w2 + 1 \in Nat /\ w2 < w2 + 1  BY <1>3
  <2> HIDE DEF w2
  <2> QED  BY <1>1, <1>3, <2>1, ByteMore
<1>5. Shifted(w4) = w3 /\ w4 % Base = s[4]
  <2> HIDE DEF w3
  <2> QED  BY <1>1, <1>4, Unshift
<1>6. Shifted(w3) = w2 /\ w3 % Base = s[3]
  <2> HIDE DEF w2
  <2> QED  BY <1>1, <1>3, Unshift
<1>7. Shifted(w2) = w1 /\ w2 % Base = s[2]  BY <1>1, <1>2, Unshift
<1>8. w1 % Base = w1
  <2> HIDE DEF w1
  <2> QED  BY <1>0, <1>2
<1>9. GetU32(s, 0) = w4  BY DEF GetU32
<1> HIDE DEF w1, w2, w3, w4
<1>10. PutU32(w4) = <<w1, s[2], s[3], s[4]>>
  BY <1>5, <1>6, <1>7, <1>8 DEF PutU32
<1> USE DEF w1
<1>11. <<w1, s[2], s[3], s[4]>> = s  OBVIOUS
<1> QED  BY <1>9, <1>10, <1>11

-----------------------------------------------------------------------------
(* Frames. *)

(* What s \o t holds, and where.                                            *)
LEMMA Joined ==
  ASSUME NEW s \in Seq(Byte), NEW t \in Seq(Byte)
  PROVE  /\ s \o t \in Seq(Byte) /\ Len(s \o t) = Len(s) + Len(t)
         /\ \A i \in 1 .. Len(s) : (s \o t)[i] = s[i]
         /\ \A i \in 1 .. Len(t) : (s \o t)[Len(s) + i] = t[i]
<1>1. /\ s \o t \in Seq(Byte) /\ Len(s \o t) = Len(s) + Len(t)
      /\ \A i \in 1 .. Len(s) + Len(t) :
           (s \o t)[i] = IF i <= Len(s) THEN s[i] ELSE t[i - Len(s)]
  BY ConcatProperties
<1>2. Len(s) \in Nat /\ Len(t) \in Nat  OBVIOUS
<1>3. ASSUME NEW i \in 1 .. Len(t) PROVE (s \o t)[Len(s) + i] = t[i]
  <2>1. Len(s) + i \in 1 .. Len(s) + Len(t) /\ ~(Len(s) + i <= Len(s))
        /\ Len(s) + i - Len(s) = i
    BY <1>2
  <2> QED  BY <1>1, <2>1
<1> QED  BY <1>1, <1>2, <1>3

LEMMA Regrouped ==
  \A s, t, u \in Seq(Byte) : (s \o t) \o u = s \o (t \o u)
BY ConcatAssociative

Framed(a) == a \in Seq(Byte) /\ Len(a) >= 4 /\ Len(a) = 4 + GetU32(a, 0)

(* The length prefix of a stream is that of its first frame.                *)
LEMMA SamePrefix ==
  ASSUME NEW a \in Seq(Byte), NEW x \in Seq(Byte), NEW b \in Seq(Byte), NEW y \in Seq(Byte),
         Len(a) >= 4, Len(b) >= 4, a \o x = b \o y
  PROVE  GetU32(a, 0) = GetU32(b, 0)
<1>1. \A i \in 1 .. 4 : (a \o x)[i] = a[i] /\ (b \o y)[i] = b[i]  BY ConcatProperties
<1>2. a[1] = b[1] /\ a[2] = b[2] /\ a[3] = b[3] /\ a[4] = b[4]  BY <1>1
<1> QED  BY <1>2 DEF GetU32

(* A stream can be cut into frames in one way only.                         *)
LEMMA SameFrame ==
  ASSUME NEW a, NEW x \in Seq(Byte), NEW b, NEW y \in Seq(Byte),
         Framed(a), Framed(b), a \o x = b \o y
  PROVE  a = b /\ x = y
<1>1. a \in Seq(Byte) /\ b \in Seq(Byte) /\ Len(a) = Len(b)
  BY SamePrefix DEF Framed
<1>2. a = b
  <2>1. \A i \in 1 .. Len(a) : (a \o x)[i] = a[i] /\ (b \o y)[i] = b[i]
    BY <1>1, ConcatProperties
  <2>2. \A i \in 1 .. Len(a) : a[i] = b[i]  BY <2>1
  <2> QED  BY <1>1, <2>2, SeqEqual
<1>3. x = y
  <2>1. Len(x) = Len(y)
    <3>1. Len(a \o x) = Len(a) + Len(x) /\ Len(b \o y) = Len(b) + Len(y)
      BY <1>1, ConcatProperties
    <3> QED  BY <1>1, <3>1
  <2>2. ASSUME NEW i \in 1 .. Len(x) PROVE x[i] = y[i]
    <3>1. (a \o x)[Len(a) + i] = x[i]  BY <1>1, Joined
    <3>2. i \in 1 .. Len(y)  BY <2>1
    <3>3. (b \o y)[Len(b) + i] = y[i]  BY <1>1, <3>2, Joined
    <3> QED  BY <1>1, <3>1, <3>3
  <2> QED  BY <2>1, <2>2, SeqEqual
<1> QED  BY <1>2, <1>3

(* serialize makes a frame, whose prefix is the length of what follows.     *)
LEMMA SerializeFramed ==
  ASSUME NEW w, w.id \in Byte, w.payload \in Seq(Byte), 1 + Len(w.payload) \in U32
  PROVE  /\ Framed(Serialize(w)) /\ GetU32(Serialize(w), 0) = 1 + Len(w.payload)
         /\ Serialize(w)[5] = w.id
         /\ Len(Serialize(w)) = 5 + Len(w.payload)
         /\ \A i \in 1 .. Len(w.payload) : Serialize(w)[5 + i] = w.payload[i]
<1> DEFINE p == PutU32(1 + Len(w.payload))
           h == p \o <<w.id>>
           a == Serialize(w)
<1>1. p \in Seq(Byte) /\ Len(p) = 4 /\ GetU32(p, 0) = 1 + Len(w.payload)
  BY WordRoundTrip
<1>2. <<w.id>> \in Seq(Byte) /\ Len(<<w.id>>) = 1 /\ <<w.id>>[1] = w.id  OBVIOUS
<1>3. h \in Seq(Byte) /\ Len(h) = 5 /\ h[5] = w.id
      /\ h[1] = p[1] /\ h[2] = p[2] /\ h[3] = p[3] /\ h[4] = p[4]
  <2> HIDE DEF p
  <2>1. h \in Seq(Byte) /\ Len(h) = Len(p) + Len(<<w.id>>)
        /\ (\A i \in 1 .. Len(p) : h[i] = p[i])
        /\ \A i \in 1 .. Len(<<w.id>>) : h[Len(p) + i] = <<w.id>>[i]
    BY <1>1, <1>2, Joined
  <2> HIDE DEF h
  <2>2. h[Len(p) + 1] = <<w.id>>[1]  BY <1>2, <2>1
  <2> QED  BY <1>1, <1>2, <2>1, <2>2
<1>4. a = h \o w.payload  BY DEF Serialize
<1> HIDE DEF p, h, a
<1>5. a \in Seq(Byte) /\ Len(a) = 5 + Len(w.payload)
      /\ (\A i \in 1 .. 5 : a[i] = h[i])
      /\ \A i \in 1 .. Len(w.payload) : a[5 + i] = w.payload[i]
  <2>1. a \in Seq(Byte) /\ Len(a) = Len(h) + Len(w.payload)
        /\ (\A i \in 1 .. Len(h) : a[i] = h[i])
        /\ \A i \in 1 .. Len(w.payload) : a[Len(h) + i] = w.payload[i]
    BY <1>3, <1>4, Joined
  <2> QED  BY <1>3, <2>1
<1>6. Len(w.payload) \in Nat  OBVIOUS
<1>7. a[1] = p[1] /\ a[2] = p[2] /\ a[3] = p[3] /\ a[4] = p[4] /\ a[5] = w.id
  BY <1>3, <1>5, <1>6
<1>8. GetU32(a, 0) = 1 + Len(w.payload)  BY <1>1, <1>7 DEF GetU32
<1> QED  BY <1>5, <1>6, <1>7, <1>8 DEF Framed, a

LEMMA SerializeInjective ==
  ASSUME NEW w, w.id \in Byte, w.payload \in Seq(Byte), 1 + Len(w.payload) \in U32,
         NEW v, v.id \in Byte, v.payload \in Seq(Byte), 1 + Len(v.payload) \in U32,
         Serialize(w) = Serialize(v)
  PROVE  w.id = v.id /\ w.payload = v.payload
<1>1. w.id = v.id  BY SerializeFramed
<1>2. Len(w.payload) = Len(v.payload)
  <2>1. 1 + Len(w.payload) = 1 + Len(v.payload)  BY SerializeFramed
  <2>2. Len(w.payload) \in Nat /\ Len(v.payload) \in Nat  OBVIOUS
  <2> QED  BY <2>1, <2>2
<1>3. \A i \in 1 .. Len(w.payload) : w.payload[i] = v.payload[i]
  <2>1. \A i \in 1 .. Len(w.payload) : Serialize(w)[5 + i] = w.payload[i]
    BY SerializeFramed
  <2>2. \A i \in 1 .. Len(v.payload) : Serialize(v)[5 + i] = v.payload[i]
    BY SerializeFramed
  <2> QED  BY <1>2, <2>1, <2>2
<1> QED  BY <1>1, <1>2, <1>3, SeqEqual

(* What the constructors put into a message, and where.                     *)
LEMMA BuiltMessage ==
  ASSUME NEW m \in Messages, m.kind \in {"have", "request", "piece", "plain"}
  PROVE  /\ Built(m).id \in 0 .. 8 /\ Built(m).payload \in Seq(Byte)
         /\ 1 + Len(Built(m).payload) \in U32
         /\ m.kind = "have" => Built(m) = WithPayload(Have, PutU32(m.index))
         /\ m.kind = "request" => Built(m).id = Request
         /\ m.kind = "piece" =>
              Built(m) = WithPayload(PieceId, PutU32(m.index) \o PutU32(m.begin) \o m.data)
         /\ m.kind = "plain" => Built(m) = WithPayload(m.id, <<>>)
         /\ m.kind # "piece" => Len(Built(m).payload) <= 12
         /\ m.kind = "piece" => Len(Built(m).payload) = 8 + Len(m.data)
<1>1. U32 \subseteq Nat /\ \A n \in Nat : n < 10000 => n \in U32
  <2>1. Pow4 \in Nat /\ 10000 <= Pow4
    <3>1. Base \in Nat /\ Base >= 10  BY BaseOK
    <3>2. \A x, y, a \in Nat : x >= a /\ y >= 10 => x * y >= a * 10
      <4>1. ASSUME NEW x \in Nat, NEW y \in Nat, NEW a \in Nat, x >= a, y >= 10
            PROVE  x * y >= a * 10
        <5>1. (x - a) * y >= 0 /\ a * (y - 10) >= 0
          <6>1. x - a \in Nat /\ y - 10 \in Nat  BY <4>1
          <6>2. \A i, j \in Nat : i * j >= 0  OBVIOUS
          <6> QED  BY <6>1, <6>2
        <5>2. (x - a) * y = x * y - a * y /\ a * (y - 10) = a * y - a * 10  OBVIOUS
        <5> DEFINE s == x * y
                   t == a * y
        <5>3. s \in Nat /\ t \in Nat  OBVIOUS
        <5>4. s - t >= 0 /\ t - a * 10 >= 0  BY <5>1, <5>2
        <5> HIDE DEF s, t
        <5>5. s >= a * 10  BY <5>3, <5>4
        <5> QED  BY <5>5 DEF s
      <4> QED  BY <4>1
    <3>3. Base * Base \in Nat /\ Base * Base >= 10 * 10  BY <3>1, <3>2
    <3>4. Base * Base * Base \in Nat /\ Base * Base * Base >= 100 * 10
      BY <3>1, <3>2, <3>3
    <3>5. Base * Base * Base * Base \in Nat /\ Base * Base * Base * Base >= 1000 * 10
      BY <3>1, <3>2, <3>4
    <3> QED  BY <3>5 DEF Pow4
  <2> QED  BY <2>1 DEF U32
<1>2. CASE m.kind = "have"
  <2>1. PutU32(m.index) \in Seq(Byte) /\ Len(PutU32(m.index)) = 4
    BY <1>2, MessagesOK, WordRoundTrip
  <2>2. Built(m) = WithPayload(Have, PutU32(m.index))  BY <1>2 DEF Built
  <2>3. Built(m).id = 4 /\ Built(m).payload = PutU32(m.index)
    BY <2>2 DEF WithPayload, Have
  <2>4. Len(Built(m).payload) = 4  BY <2>1, <2>3
  <2>5. 1 + Len(Built(m).payload) \in U32
    <3>1. 5 \in U32  BY <1>1
    <3> QED  BY <2>4, <3>1
  <2>6. Built(m).payload \in Seq(Byte)  BY <2>1, <2>3
  <2>7. Built(m).id \in 0 .. 8  BY <2>3
  <2> QED  BY <1>2, <2>2, <2>4, <2>5, <2>6, <2>7
<1>3. CASE m.kind = "request"
  <2> DEFINE i == PutU32(m.index)
             b == PutU32(m.begin)
             l == PutU32(m.length)
  <2>1. i \in Seq(Byte) /\ Len(i) = 4 /\ b \in Seq(Byte) /\ Len(b) = 4
        /\ l \in Seq(Byte) /\ Len(l) = 4
    BY <1>3, MessagesOK, WordRoundTrip
  <2>2. Built(m) = WithPayload(Request, i \o b \o l)  BY <1>3 DEF Built
  <2> HIDE DEF i, b, l
  <2>3. i \o b \in Seq(Byte) /\ Len(i \o b) = 8
    <3>1. i \o b \in Seq(Byte) /\ Len(i \o b) = Len(i) + Len(b)  BY <2>1, Joined
    <3> QED  BY <2>1, <3>1
  <2>4. i \o b \o l \in Seq(Byte) /\ Len(i \o b \o l) = 12
    <3>1. i \o b \o l \in Seq(Byte) /\ Len(i \o b \o l) = Len(i \o b) + Len(l)
      BY <2>1, <2>3, Joined
    <3> QED  BY <2>1, <2>3, <3>1
  <2>5. Built(m).id = 6 /\ Built(m).payload = i \o b \o l
    BY <2>2 DEF WithPayload, Request
  <2>6. 1 + Len(Built(m).payload) = 13  BY <2>4, <2>5
  <2> QED  BY <1>1, <1>3, <2>4, <2>5, <2>6 DEF Request
<1>4. CASE m.kind = "piece"
  <2> DEFINE i == PutU32(m.index)
             b == PutU32(m.begin)
  <2>1. i \in Seq(Byte) /\ Len(i) = 4 /\ b \in Seq(Byte) /\ Len(b) = 4
    BY <1>4, MessagesOK, WordRoundTrip
  <2>2. Built(m) = WithPayload(PieceId, i \o b \o m.data)  BY <1>4 DEF Built
  <2>3. m.data \in Seq(Byte) /\ Len(m.data) + 9 \in U32  BY <1>4, MessagesOK, FramesOK
  <2> HIDE DEF i, b
  <2>7. i \o b \in Seq(Byte) /\ Len(i \o b) = 8
    <3>1. i \o b \in Seq(Byte) /\ Len(i \o b) = Len(i) + Len(b)  BY <2>1, Joined
    <3> QED  BY <2>1, <3>1
  <2>4. i \o b \o m.data \in Seq(Byte) /\ Len(i \o b \o m.data) = 8 + Len(m.data)
    <3>1. i \o b \o m.data \in Seq(Byte) /\ Len(i \o b \o m.data) = Len(i \o b) + Len(m.data)
      BY <2>3, <2>7, Joined
    <3> QED  BY <2>3, <2>7, <3>1
  <2>5. Len(m.data) \in Nat  BY <2>3
  <2>6. 1 + (8 + Len(m.data)) = Len(m.data) + 9  BY <2>5
  <2> DEFINE x == i \o b \o m.data
  <2>8. x \in Seq(Byte) /\ 1 + Len(x) \in U32  BY <2>3, <2>4, <2>6
  <2>9. Built(m) = WithPayload(PieceId, x)  BY <2>2
  <2> HIDE DEF x
  <2>10. Built(m).id = 7 /\ Built(m).payload = x  BY <2>9 DEF WithPayload, PieceId
  <2>11. Built(m).id \in 0 .. 8 /\ Built(m).payload \in Seq(Byte)
         /\ 1 + Len(Built(m).payload) \in U32
    BY <2>8, <2>10
  <2>12. Built(m) = WithPayload(PieceId, PutU32(m.index) \o PutU32(m.begin) \o m.data)
    BY <2>9 DEF x, i, b
  <2>13. Len(Built(m).payload) = 8 + Len(m.data)  BY <2>4, <2>10 DEF x
  <2> QED  BY <1>4, <2>11, <2>12, <2>13
<1>5. CASE m.kind = "plain"
  <2>1. m.id \in 0 .. 8  BY <1>5, MessagesOK
  <2>2. <<>> \in Seq(Byte) /\ Len(<<>>) = 0  OBVIOUS
  <2>3. Built(m) = WithPayload(m.id, <<>>)  BY <1>5 DEF Built
  <2>4. Built(m).id = m.id /\ Built(m).payload = <<>>  BY <2>3 DEF WithPayload
  <2>5. 1 + Len(Built(m).payload) \in U32
    <3>1. 1 \in U32  BY <1>1
    <3>2. 1 + Len(<<>>) = 1  BY <2>2
    <3> QED  BY <2>4, <3>1, <3>2
  <2>6. Built(m).id \in 0 .. 8 /\ Built(m).payload \in Seq(Byte)  BY <2>1, <2>2, <2>4
  <2>7. Len(Built(m).payload) <= 12  BY <2>2, <2>4
  <2> QED  BY <1>5, <2>3, <2>5, <2>6, <2>7
<1> QED  BY <1>2, <1>3, <1>4, <1>5

LEMMA EncodedSerialized ==
  ASSUME NEW m \in Messages, m.kind \in {"have", "request", "piece", "plain"}
  PROVE  Encoded(m) = Serialize(Built(m)) /\ Built(m).id \in Byte
<1>1. 0 .. 8 \subseteq Byte  BY BaseOK
<1> QED  BY <1>1, BuiltMessage DEF Encoded

LEMMA KeepAliveFramed ==
  Framed(PutU32(0)) /\ GetU32(PutU32(0), 0) = 0
<1>1. 0 \in U32
  <2>1. Pow4 \in Nat /\ Pow4 > 0
    <3>1. Base \in Nat /\ Base > 0  BY BaseOK
    <3>2. \A x, y \in Nat : x > 0 /\ y > 0 => x * y > 0  OBVIOUS
    <3>3. Base * Base \in Nat /\ Base * Base > 0  BY <3>1, <3>2
    <3>4. Base * Base * Base \in Nat /\ Base * Base * Base > 0  BY <3>1, <3>2, <3>3
    <3>5. Base * Base * Base * Base \in Nat /\ Base * Base * Base * Base > 0
      BY <3>1, <3>2, <3>4
    <3> QED  BY <3>5 DEF Pow4
  <2> QED  BY <2>1 DEF U32
<1>2. PutU32(0) \in Seq(Byte) /\ Len(PutU32(0)) = 4 /\ GetU32(PutU32(0), 0) = 0
  BY <1>1, WordRoundTrip
<1> DEFINE z == PutU32(0)
           g == GetU32(z, 0)
<1>3. z \in Seq(Byte) /\ Len(z) = 4 /\ g = 0  BY <1>2
<1> HIDE DEF z, g
<1>4. Len(z) = 4 + g /\ Len(z) >= 4  BY <1>3
<1> QED  BY <1>3, <1>4 DEF Framed, z, g

(* What a message can be, by the length prefix of the stream it starts.     *)
LEMMA MessageForms ==
  ASSUME NEW m \in Messages
  PROVE  /\ m.kind \in {"piece", "have", "request", "plain", "keep_alive", "malformed", "ignored"}
         /\ Encoded(m) \in Seq(Byte) /\ Len(Encoded(m)) >= 4
         /\ GetU32(Encoded(m), 0) = 0 => m.kind = "keep_alive"
         /\ m.kind = "keep_alive" => Encoded(m) = PutU32(0)
         /\ Framed(Encoded(m)) \/ GetU32(Encoded(m), 0) > MaxSize
<1>1. m.kind \in {"piece", "have", "request", "plain", "keep_alive", "malformed", "ignored"}
  BY MessagesOK
<1>2. Encoded(m) \in Seq(Byte)  BY EncodedBytes
<1>3. CASE m.kind \in {"have", "request", "piece", "plain"}
  <2> DEFINE w == Built(m)
  <2>1. Encoded(m) = Serialize(w) /\ w.id \in Byte  BY <1>3, EncodedSerialized
  <2>2. w.payload \in Seq(Byte) /\ 1 + Len(w.payload) \in U32  BY <1>3, BuiltMessage
  <2> HIDE DEF w
  <2>3. Framed(Serialize(w)) /\ GetU32(Serialize(w), 0) = 1 + Len(w.payload)
    BY <2>1, <2>2, SerializeFramed
  <2>4. Len(w.payload) \in Nat  BY <2>2
  <2>5. GetU32(Encoded(m), 0) # 0  BY <2>1, <2>3, <2>4
  <2>6. Framed(Encoded(m)) /\ Len(Encoded(m)) >= 4  BY <2>1, <2>3 DEF Framed
  <2> QED  BY <1>1, <1>2, <1>3, <2>5, <2>6
<1>4. CASE m.kind = "keep_alive"
  <2>1. Encoded(m) = PutU32(0)  BY <1>4 DEF Encoded
  <2> QED  BY <1>1, <1>2, <1>4, <2>1, KeepAliveFramed DEF Framed
<1>5. CASE m.kind = "ignored"
  <2>1. Encoded(m) = m.raw  BY <1>5 DEF Encoded
  <2>2. OneFrame(m.raw)  BY <1>5, FramesOK
  <2>3. Len(m.raw) \in Nat /\ GetU32(m.raw, 0) \in Nat
    BY <1>2, <2>1, <2>2, WordBound DEF OneFrame
  <2>4. Framed(m.raw) /\ GetU32(m.raw, 0) # 0
    BY <1>2, <2>1, <2>2, <2>3 DEF OneFrame, Framed
  <2> QED  BY <1>1, <1>2, <1>5, <2>1, <2>4 DEF Framed
<1>6. CASE m.kind = "malformed"
  <2>1. Encoded(m) = m.raw  BY <1>6 DEF Encoded
  <2>2. (Len(m.raw) >= 4 /\ GetU32(m.raw, 0) > MaxSize) \/ OneFrame(m.raw)
    BY <1>6, FramesOK
  <2>3. Len(m.raw) \in Nat /\ Len(m.raw) >= 4  BY <1>2, <2>1, <2>2 DEF OneFrame
  <2>4. GetU32(m.raw, 0) \in Nat /\ MaxSize \in Nat
    BY <1>2, <2>1, <2>3, WordBound, ConstantsOK
  <2>5. GetU32(m.raw, 0) # 0
    BY <2>2, <2>3, <2>4 DEF OneFrame
  <2>6. Framed(m.raw) \/ GetU32(m.raw, 0) > MaxSize
    BY <1>2, <2>1, <2>2, <2>3 DEF OneFrame, Framed
  <2> QED  BY <1>1, <1>2, <1>6, <2>1, <2>3, <2>5, <2>6
<1> QED  BY <1>1, <1>3, <1>4, <1>5, <1>6

-----------------------------------------------------------------------------
(* Streams. *)

(* The bytes are the encoding of the messages of s after the n-th; f[k] are *)
(* those that come after the k-th.                                          *)
Carries(f, s, n, bytes) ==
    /\ f \in [n .. Len(s) -> Seq(Byte)]
    /\ f[Len(s)] = <<>>
    /\ \A k \in n + 1 .. Len(s) : f[k - 1] = Encoded(s[k]) \o f[k]
    /\ f[n] = bytes

LEMMA NothingCarried == Carries([k \in 0 .. 0 |-> <<>>], <<>>, 0, <<>>)
BY DEF Carries

(* A message that is written comes last.                                    *)
LEMMA CarriesMore ==
  ASSUME NEW s \in Seq(Messages), NEW n \in 0 .. Len(s), NEW bytes \in Seq(Byte),
         NEW f, Carries(f, s, n, bytes), NEW m \in Messages
  PROVE  \E g : Carries(g, Append(s, m), n, bytes \o Encoded(m))
<1> DEFINE e == Encoded(m)
           t == Append(s, m)
           l == Len(s)
           g == [k \in n .. l + 1 |-> IF k = l + 1 THEN <<>> ELSE f[k] \o e]
<1>1. l \in Nat /\ n \in Nat /\ n <= l /\ Len(t) = l + 1 /\ t[l + 1] = m
      /\ \A k \in 1 .. l : t[k] = s[k]
  OBVIOUS
<1>2. e \in Seq(Byte)  BY EncodedBytes
<1>3. /\ f \in [n .. l -> Seq(Byte)] /\ f[l] = <<>> /\ f[n] = bytes
      /\ \A k \in n + 1 .. l : f[k - 1] = Encoded(s[k]) \o f[k]
  BY DEF Carries
<1> HIDE DEF e, t, l
<1>4. g \in [n .. l + 1 -> Seq(Byte)]
  <2>1. ASSUME NEW k \in n .. l + 1, k # l + 1 PROVE f[k] \o e \in Seq(Byte)
    <3>1. k \in n .. l  BY <1>1, <2>1
    <3> QED  BY <1>2, <1>3, <3>1, ConcatProperties
  <2>2. <<>> \in Seq(Byte)  OBVIOUS
  <2> QED  BY <2>1, <2>2
<1>5. g[l + 1] = <<>>  BY <1>1
<1>6. g[n] = bytes \o e  BY <1>1, <1>3
<1>7. ASSUME NEW k \in n + 1 .. l + 1 PROVE g[k - 1] = Encoded(t[k]) \o g[k]
  <2>1. k - 1 \in n .. l + 1 /\ k - 1 # l + 1 /\ k \in n .. l + 1  BY <1>1
  <2>2. g[k - 1] = f[k - 1] \o e  BY <2>1
  <2>3. CASE k = l + 1
    <3>0. k - 1 = l  BY <1>1, <2>3
    <3>1. g[k - 1] = <<>> \o e  BY <1>3, <2>2, <3>0
    <3>2. g[k] = <<>> /\ Encoded(t[k]) = e  BY <1>1, <1>5, <2>3 DEF e
    <3> QED  BY <1>2, <3>1, <3>2, ConcatEmptySeq
  <2>4. CASE k # l + 1
    <3>1. k \in n + 1 .. l /\ k \in 1 .. l /\ k \in n .. l  BY <1>1, <2>4
    <3>2. f[k - 1] = Encoded(s[k]) \o f[k] /\ t[k] = s[k] /\ g[k] = f[k] \o e
      BY <1>1, <1>3, <2>1, <2>4, <3>1
    <3>3. s[k] \in Messages  BY <3>1, ElementOfSeq DEF l
    <3>4. Encoded(s[k]) \in Seq(Byte) /\ f[k] \in Seq(Byte)
      BY <1>3, <3>1, <3>3, EncodedBytes
    <3>5. (Encoded(s[k]) \o f[k]) \o e = Encoded(s[k]) \o (f[k] \o e)
      BY <1>2, <3>4, Regrouped
    <3> QED  BY <2>2, <3>2, <3>5
  <2> QED  BY <2>3, <2>4
<1> HIDE DEF g
<1>8. Carries(g, t, n, bytes \o e)  BY <1>1, <1>4, <1>5, <1>6, <1>7 DEF Carries
<1> QED  BY <1>8 DEF e, t

(* Bytes begin a message, and what follows it are the other messages.       *)
LEMMA CarriesNext ==
  ASSUME NEW s \in Seq(Messages), NEW n \in 0 .. Len(s), NEW bytes \in Seq(Byte),
         NEW f, Carries(f, s, n, bytes), bytes # <<>>
  PROVE  /\ n + 1 \in 1 .. Len(s) /\ s[n + 1] \in Messages
         /\ \E rest, g :
              rest \in Seq(Byte) /\ bytes = Encoded(s[n + 1]) \o rest /\ Carries(g, s, n + 1, rest)
<1> DEFINE l == Len(s)
           g == [k \in n + 1 .. l |-> f[k]]
<1>1. l \in Nat /\ n \in Nat /\ n <= l  OBVIOUS
<1>2. /\ f \in [n .. l -> Seq(Byte)] /\ f[l] = <<>> /\ f[n] = bytes
      /\ \A k \in n + 1 .. l : f[k - 1] = Encoded(s[k]) \o f[k]
  BY DEF Carries
<1> HIDE DEF l
<1>3. n + 1 \in 1 .. l /\ n + 1 \in n + 1 .. l  BY <1>1, <1>2
<1>4. s[n + 1] \in Messages  BY <1>3, ElementOfSeq DEF l
<1>5. f[n + 1] \in Seq(Byte) /\ bytes = Encoded(s[n + 1]) \o f[n + 1]
  <2>1. n + 1 \in n .. l /\ (n + 1) - 1 = n  BY <1>1, <1>3
  <2> QED  BY <1>2, <1>3, <2>1
<1>6. Carries(g, s, n + 1, f[n + 1])
  <2>1. g \in [n + 1 .. l -> Seq(Byte)]  BY <1>1, <1>2
  <2>2. g[l] = <<>> /\ g[n + 1] = f[n + 1]  BY <1>1, <1>2, <1>3
  <2>3. ASSUME NEW k \in (n + 1) + 1 .. l PROVE g[k - 1] = Encoded(s[k]) \o g[k]
    <3>1. k \in n + 1 .. l /\ k - 1 \in n + 1 .. l  BY <1>1
    <3> QED  BY <1>2, <3>1
  <2> HIDE DEF g
  <2> QED  BY <2>1, <2>2, <2>3 DEF Carries, l
<1> QED  BY <1>3, <1>4, <1>5, <1>6 DEF l

-----------------------------------------------------------------------------
(* The invariant: the bytes of the message being read that were taken,      *)
(* those on the wire and those that were lost with the connection carry the *)
(* messages that are not taken.                                             *)

Consumed ==
    IF pc = "len" THEN part
    ELSE IF pc = "body" THEN PutU32(need) \o part ELSE Serialize(msg)

Ahead == wire \o lost

Stream ==
    /\ taken \in 0 .. Len(sent)
    /\ pc = "body" => need \in U32
    /\ pc = "got" => 1 + Len(msg.payload) \in U32 /\ 1 + Len(msg.payload) <= MaxSize
    /\ pc # "failed" => \E f : Carries(f, sent, taken, Consumed \o Ahead)

LEMMA Types ==
  ASSUME Inv
  PROVE  /\ sent \in Seq(Messages) /\ wire \in Seq(Byte) /\ part \in Seq(Byte)
         /\ Ahead \in Seq(Byte) /\ lost \in Seq(Byte)
         /\ need \in Nat /\ Len(part) <= need
         /\ pc \in {"len", "body", "got", "failed"}
         /\ pc = "len" => need = 4
         /\ pc = "body" => need \in 1 .. MaxSize
         /\ msg.id \in 0 .. 8 /\ msg.id \in Byte /\ msg.payload \in Seq(Byte)
         /\ taken \in Nat /\ buf \in [1 .. BufLen -> Byte]
         /\ U32 \subseteq Nat /\ MaxSize \in Nat
<1>1. msg.id \in 0 .. 8 /\ msg.payload \in Seq(Byte)  BY DEF Inv, TypeOK
<1>2. 0 .. 8 \subseteq Byte  BY BaseOK
<1>3. U32 \subseteq Nat /\ MaxSize \in Nat  BY ConstantsOK DEF U32
<1>4. Ahead \in Seq(Byte)  BY ConcatProperties DEF Inv, TypeOK, Ahead
<1> QED  BY <1>1, <1>2, <1>3, <1>4 DEF Inv, TypeOK

LEMMA ConsumedBytes ==
  ASSUME Inv, Stream, pc # "failed"
  PROVE  Consumed \in Seq(Byte) /\ Consumed \o Ahead \in Seq(Byte)
<1>1. Consumed \in Seq(Byte)
  <2>1. CASE pc = "len"  BY <2>1, Types DEF Consumed
  <2>2. CASE pc = "body"
    <3>1. PutU32(need) \in Seq(Byte)  BY Types, WordBytes
    <3> QED  BY <2>2, <3>1, Types, Joined DEF Consumed
  <2>3. CASE pc = "got"
    <3>1. Serialize(msg) \in Seq(Byte)  BY <2>3, Types, SerializeFramed DEF Stream, Framed
    <3> QED  BY <2>3, <3>1 DEF Consumed
  <2> QED  BY <2>1, <2>2, <2>3, Types
<1> QED  BY <1>1, Types, Joined

(* The bytes taken begin the next message of the peer, and when they are a  *)
(* whole frame that read lets pass, they are that message.                  *)
LEMMA Begun ==
  ASSUME Inv, Stream, pc # "failed", Len(Consumed) >= 4
  PROVE  /\ taken + 1 \in 1 .. Len(sent) /\ sent[taken + 1] \in Messages
         /\ taken < Len(sent)
         /\ GetU32(Encoded(sent[taken + 1]), 0) = GetU32(Consumed, 0)
         /\ Framed(Consumed) /\ GetU32(Consumed, 0) <= MaxSize =>
              /\ Encoded(sent[taken + 1]) = Consumed
              /\ \E g : Carries(g, sent, taken + 1, Ahead)
<1> DEFINE a == Consumed
           bytes == a \o Ahead
           m == sent[taken + 1]
           e == Encoded(m)
<1>1. PICK f : Carries(f, sent, taken, bytes)  BY DEF Stream
<1>2. a \in Seq(Byte) /\ Ahead \in Seq(Byte) /\ Len(a) >= 4  BY ConsumedBytes, Types
<1>3. taken \in 0 .. Len(sent) /\ sent \in Seq(Messages)  BY Types DEF Stream
<1> HIDE DEF a
<1>4. bytes \in Seq(Byte) /\ Len(bytes) = Len(a) + Len(Ahead)  BY <1>2, Joined
<1>5. bytes # <<>>
  <2>1. Len(Ahead) \in Nat /\ Len(a) \in Nat  BY <1>2
  <2>2. Len(bytes) # 0  BY <1>2, <1>4, <2>1
  <2>3. Len(<<>>) = 0  OBVIOUS
  <2> QED  BY <2>2, <2>3
<1> HIDE DEF bytes
<1>6. /\ taken + 1 \in 1 .. Len(sent) /\ m \in Messages
      /\ \E rest, g :
           rest \in Seq(Byte) /\ bytes = Encoded(m) \o rest /\ Carries(g, sent, taken + 1, rest)
  BY <1>1, <1>3, <1>4, <1>5, CarriesNext
<1>7. PICK rest, g :
        rest \in Seq(Byte) /\ bytes = Encoded(m) \o rest /\ Carries(g, sent, taken + 1, rest)
  BY <1>6
<1>8. e \in Seq(Byte) /\ Len(e) >= 4 /\ (Framed(e) \/ GetU32(e, 0) > MaxSize)
  BY <1>6, MessageForms
<1>9. a \o Ahead = e \o rest /\ rest \in Seq(Byte)  BY <1>7 DEF bytes
<1>10. taken < Len(sent)
  <2>1. taken \in Nat /\ Len(sent) \in Nat  BY <1>3
  <2> QED  BY <1>6, <2>1
<1> HIDE DEF e, m
<1>11. GetU32(a, 0) = GetU32(e, 0)  BY <1>2, <1>8, <1>9, SamePrefix
<1>12. ASSUME Framed(a), GetU32(a, 0) <= MaxSize
       PROVE  e = a /\ Ahead = rest
  <2>1. GetU32(a, 0) \in Nat /\ MaxSize \in Nat
    <3>1. 0 \in Nat /\ 0 + 4 <= Len(a)  BY <1>2
    <3> QED  BY <1>2, <3>1, WordBound, ConstantsOK
  <2>2. Framed(e)  BY <1>8, <1>11, <1>12, <2>1
  <2> QED  BY <1>2, <1>9, <1>12, <2>2, SameFrame
<1> QED  BY <1>6, <1>7, <1>10, <1>11, <1>12 DEF a, e, m

(* The message read is the next one of the peer.                            *)
LEMMA Got ==
  ASSUME Inv, Stream, pc = "got"
  PROVE  /\ taken + 1 \in 1 .. Len(sent) /\ sent[taken + 1] \in Messages
         /\ taken < Len(sent)
         /\ Encoded(sent[taken + 1]) = Serialize(msg)
         /\ \E g : Carries(g, sent, taken + 1, Ahead)
<1>1. Consumed = Serialize(msg)  BY DEF Consumed
<1>2. 1 + Len(msg.payload) \in U32 /\ 1 + Len(msg.payload) <= MaxSize  BY DEF Stream
<1>3. Framed(Consumed) /\ GetU32(Consumed, 0) = 1 + Len(msg.payload)
  BY <1>1, <1>2, Types, SerializeFramed
<1>4. Len(Consumed) >= 4  BY <1>3 DEF Framed
<1> QED  BY <1>1, <1>2, <1>3, <1>4, Begun

(* What it then is, by its kind.                                            *)
LEMMA GotMessage ==
  ASSUME Inv, Stream, pc = "got", NEW m, m = sent[taken + 1]
  PROVE  /\ m.kind \in {"have", "request", "piece", "plain", "ignored", "malformed"}
         /\ m.kind \in {"have", "request", "piece", "plain"} =>
              msg.id = Built(m).id /\ msg.payload = Built(m).payload
         /\ m.kind = "ignored" => msg.id = Have /\ Len(msg.payload) < 4
         /\ m.kind = "malformed" => msg.id = PieceId /\ Len(msg.payload) < 8
<1>1. m \in Messages /\ Encoded(m) = Serialize(msg)  BY Got
<1>2. msg.id \in Byte /\ msg.id \in 0 .. 8 /\ msg.payload \in Seq(Byte)  BY Types
<1>3. 1 + Len(msg.payload) \in U32 /\ 1 + Len(msg.payload) <= MaxSize  BY DEF Stream
<1>4. /\ GetU32(Serialize(msg), 0) = 1 + Len(msg.payload)
      /\ Serialize(msg)[5] = msg.id /\ Len(Serialize(msg)) = 5 + Len(msg.payload)
  BY <1>2, <1>3, SerializeFramed
<1>5. Len(msg.payload) \in Nat  BY <1>2
<1>6. m.kind # "keep_alive"
  <2> SUFFICES ASSUME m.kind = "keep_alive" PROVE FALSE  OBVIOUS
  <2>1. Encoded(m) = PutU32(0)  BY <1>1, MessageForms
  <2>2. 1 + Len(msg.payload) = 0  BY <1>1, <1>4, <2>1, KeepAliveFramed
  <2> QED  BY <1>5, <2>2
<1>7. m.kind \in {"have", "request", "piece", "plain", "ignored", "malformed"}
  BY <1>1, <1>6, MessageForms
<1>8. ASSUME m.kind \in {"have", "request", "piece", "plain"}
      PROVE  msg.id = Built(m).id /\ msg.payload = Built(m).payload
  <2> DEFINE w == Built(m)
  <2>1. Serialize(msg) = Serialize(w) /\ w.id \in Byte  BY <1>1, <1>8, EncodedSerialized
  <2>2. w.payload \in Seq(Byte) /\ 1 + Len(w.payload) \in U32  BY <1>1, <1>8, BuiltMessage
  <2> HIDE DEF w
  <2>3. msg.id = w.id /\ msg.payload = w.payload
    BY <1>2, <1>3, <2>1, <2>2, SerializeInjective
  <2> QED  BY <2>3 DEF w
<1>9. ASSUME m.kind = "ignored" PROVE msg.id = Have /\ Len(msg.payload) < 4
  <2>1. Encoded(m) = m.raw  BY <1>9 DEF Encoded
  <2>2. m.raw[5] = Have /\ Len(m.raw) < 9  BY <1>1, <1>9, FramesOK
  <2>3. 5 + Len(msg.payload) < 9  BY <1>1, <1>4, <2>1, <2>2
  <2> QED  BY <1>1, <1>4, <1>5, <2>1, <2>2, <2>3
<1>10. ASSUME m.kind = "malformed" PROVE msg.id = PieceId /\ Len(msg.payload) < 8
  <2>1. m.raw = Serialize(msg)  BY <1>1, <1>10 DEF Encoded
  <2>2. \/ GetU32(m.raw, 0) > MaxSize
        \/ m.raw[5] > 8
        \/ m.raw[5] = PieceId /\ Len(m.raw) < 13
    BY <1>1, <1>10, FramesOK
  <2>3. \/ 1 + Len(msg.payload) > MaxSize
        \/ msg.id > 8
        \/ msg.id = PieceId /\ 5 + Len(msg.payload) < 13
    BY <1>4, <2>1, <2>2
  <2>4. MaxSize \in Nat  BY Types
  <2> QED  BY <1>2, <1>3, <1>5, <2>3, <2>4
<1> QED  BY <1>7, <1>8, <1>9, <1>10

-----------------------------------------------------------------------------
(* Where the fields of a block are.                                         *)
LEMMA ThreeParts ==
  ASSUME NEW x \in Seq(Byte), NEW y \in Seq(Byte), NEW d \in Seq(Byte),
         Len(x) = 4, Len(y) = 4
  PROVE  /\ x \o y \o d \in Seq(Byte) /\ Len(x \o y \o d) = 8 + Len(d)
         /\ GetU32(x \o y \o d, 0) = GetU32(x, 0)
         /\ GetU32(x \o y \o d, 4) = GetU32(y, 0)
         /\ \A k \in 1 .. Len(d) : (x \o y \o d)[8 + k] = d[k]
<1> DEFINE h == x \o y
           q == h \o d
<1>1. h \in Seq(Byte) /\ Len(h) = Len(x) + Len(y)
      /\ (\A k \in 1 .. Len(x) : h[k] = x[k])
      /\ \A k \in 1 .. Len(y) : h[Len(x) + k] = y[k]
  BY Joined
<1> HIDE DEF h
<1>2. q \in Seq(Byte) /\ Len(q) = Len(h) + Len(d)
      /\ (\A k \in 1 .. Len(h) : q[k] = h[k])
      /\ \A k \in 1 .. Len(d) : q[Len(h) + k] = d[k]
  BY <1>1, Joined
<1> HIDE DEF q
<1>3. Len(h) = 8 /\ Len(q) = 8 + Len(d)  BY <1>1, <1>2
<1>4. /\ h[1] = x[1] /\ h[2] = x[2] /\ h[3] = x[3] /\ h[4] = x[4]
      /\ h[4 + 1] = y[1] /\ h[4 + 2] = y[2] /\ h[4 + 3] = y[3] /\ h[4 + 4] = y[4]
  BY <1>1
<1>5. \A k \in 1 .. 8 : q[k] = h[k]  BY <1>2, <1>3
<1>6. /\ q[1] = x[1] /\ q[2] = x[2] /\ q[3] = x[3] /\ q[4] = x[4]
      /\ q[5] = y[1] /\ q[6] = y[2] /\ q[7] = y[3] /\ q[8] = y[4]
  BY <1>4, <1>5
<1>7. GetU32(q, 0) = GetU32(x, 0) /\ GetU32(q, 4) = GetU32(y, 0)
  BY <1>6 DEF GetU32
<1>8. \A k \in 1 .. Len(d) : q[8 + k] = d[k]  BY <1>2, <1>3
<1> QED  BY <1>2, <1>3, <1>7, <1>8 DEF q, h

LEMMA LastPart ==
  ASSUME NEW p \in Seq(Byte), NEW d \in Seq(Byte), Len(p) = 8 + Len(d),
         \A k \in 1 .. Len(d) : p[8 + k] = d[k]
  PROVE  SubSeq(p, 9, Len(p)) = d
<1> DEFINE n == Len(p)
           q == SubSeq(p, 9, n)
<1>1. n \in Nat /\ Len(d) \in Nat /\ n = 8 + Len(d)  OBVIOUS
<1>2. \A k \in 9 .. n : p[k] \in Byte
  <2>1. \A k \in 1 .. Len(p) : p[k] \in Byte  BY ElementOfSeq
  <2> QED  BY <1>1, <2>1
<1> HIDE DEF n
<1>3. /\ SubSeq(p, 9, n) \in Seq(Byte)
      /\ Len(SubSeq(p, 9, n)) = IF 9 <= n THEN n - 9 + 1 ELSE 0
      /\ \A k \in 1 .. n - 9 + 1 : SubSeq(p, 9, n)[k] = p[9 + k - 1]
  BY <1>1, <1>2, SubSeqProperties
<1>4. q \in Seq(Byte) /\ Len(q) = Len(d)  BY <1>1, <1>3
<1>5. \A k \in 1 .. n - 9 + 1 : q[k] = p[9 + k - 1]  BY <1>3
<1> HIDE DEF q
<1>6. ASSUME NEW k \in 1 .. Len(q) PROVE q[k] = d[k]
  <2>1. k \in 1 .. n - 9 + 1 /\ 9 + k - 1 = 8 + k /\ k \in 1 .. Len(d)
    BY <1>1, <1>4
  <2>2. q[k] = p[8 + k]  BY <1>5, <2>1
  <2> QED  BY <2>1, <2>2
<1>7. q = d  BY <1>4, <1>6, SeqEqual
<1> QED  BY <1>7 DEF q, n

BlockBytes(i, b, d) == PutU32(i) \o PutU32(b) \o d

LEMMA BlockFields ==
  ASSUME NEW i \in U32, NEW b \in U32, NEW d \in Seq(Byte)
  PROVE  /\ GetU32(BlockBytes(i, b, d), 0) = i /\ GetU32(BlockBytes(i, b, d), 4) = b
         /\ SubSeq(BlockBytes(i, b, d), 9, Len(BlockBytes(i, b, d))) = d
<1> DEFINE p == BlockBytes(i, b, d)
           x == PutU32(i)
           y == PutU32(b)
           z == x \o y \o d
<1>1. x \in Seq(Byte) /\ Len(x) = 4 /\ GetU32(x, 0) = i  BY WordRoundTrip
<1>2. y \in Seq(Byte) /\ Len(y) = 4 /\ GetU32(y, 0) = b  BY WordRoundTrip
<1>3. p = z  BY DEF BlockBytes
<1> HIDE DEF x, y, p
<1>4. /\ x \o y \o d \in Seq(Byte) /\ Len(x \o y \o d) = 8 + Len(d)
      /\ GetU32(x \o y \o d, 0) = GetU32(x, 0)
      /\ GetU32(x \o y \o d, 4) = GetU32(y, 0)
      /\ \A k \in 1 .. Len(d) : (x \o y \o d)[8 + k] = d[k]
  BY <1>1, <1>2, ThreeParts
<1>5. /\ z \in Seq(Byte) /\ Len(z) = 8 + Len(d)
      /\ GetU32(z, 0) = i /\ GetU32(z, 4) = b
      /\ \A k \in 1 .. Len(d) : z[8 + k] = d[k]
  BY <1>1, <1>2, <1>4
<1> HIDE DEF z
<1>6. SubSeq(z, 9, Len(z)) = d  BY <1>5, LastPart
<1> QED  BY <1>3, <1>5, <1>6 DEF p

-----------------------------------------------------------------------------
(* When the reader gives up.                                                *)

(* A message that is longer than read allows is malformed or a piece with   *)
(* too large a block.                                                       *)
LEMMA LargeUnusable ==
  ASSUME NEW m \in Messages, GetU32(Encoded(m), 0) > MaxSize
  PROVE  ~Abstract!Usable(m)
<1>1. MaxSize \in Nat /\ MaxSize >= 13  BY ConstantsOK
<1>2. CASE m.kind \in {"have", "request", "piece", "plain"}
  <2> DEFINE w == Built(m)
  <2>1. Encoded(m) = Serialize(w) /\ w.id \in Byte  BY <1>2, EncodedSerialized
  <2>2. /\ w.payload \in Seq(Byte) /\ 1 + Len(w.payload) \in U32
        /\ m.kind # "piece" => Len(w.payload) <= 12
        /\ m.kind = "piece" => Len(w.payload) = 8 + Len(m.data)
    BY <1>2, BuiltMessage
  <2> HIDE DEF w
  <2>3. GetU32(Serialize(w), 0) = 1 + Len(w.payload)
    BY <2>1, <2>2, SerializeFramed
  <2>4. Len(w.payload) \in Nat /\ 1 + Len(w.payload) > MaxSize  BY <2>1, <2>2, <2>3
  <2>5. m.kind = "piece"  BY <1>1, <2>2, <2>4
  <2>6. Len(m.data) \in Nat
    <3>1. m.data \in Seq(Byte)  BY <2>5, MessagesOK
    <3> QED  BY <3>1
  <2>7. ~(Len(m.data) <= MaxSize - 9)  BY <1>1, <2>2, <2>4, <2>5, <2>6
  <2> QED  BY <2>5, <2>7 DEF Abstract!Usable
<1>3. CASE m.kind = "keep_alive"
  <2>1. GetU32(Encoded(m), 0) = 0  BY <1>3, MessageForms, KeepAliveFramed
  <2> QED  BY <1>1, <2>1
<1>4. CASE m.kind = "ignored"
  <2>1. Encoded(m) = m.raw /\ OneFrame(m.raw) /\ Len(m.raw) < 9
    BY <1>4, FramesOK DEF Encoded
  <2>2. m.raw \in Seq(Byte)  BY <1>4, MessagesOK
  <2>3. Len(m.raw) \in Nat /\ GetU32(m.raw, 0) \in Nat
    BY <2>1, <2>2, WordBound DEF OneFrame
  <2>4. Len(m.raw) = 4 + GetU32(m.raw, 0)  BY <2>1 DEF OneFrame
  <2>5. GetU32(m.raw, 0) > MaxSize  BY <2>1
  <2> QED  BY <1>1, <2>1, <2>3, <2>4, <2>5
<1>5. CASE m.kind = "malformed"
  BY <1>5 DEF Abstract!Usable
<1> QED  BY <1>2, <1>3, <1>4, <1>5, MessageForms

(* A whole frame whose id is not one of the protocol is malformed.          *)
LEMMA StrangeUnusable ==
  ASSUME NEW m \in Messages, Framed(Encoded(m)), GetU32(Encoded(m), 0) # 0,
         Encoded(m)[5] > 8
  PROVE  ~Abstract!Usable(m)
<1>1. CASE m.kind \in {"have", "request", "piece", "plain"}
  <2> DEFINE w == Built(m)
  <2>1. Encoded(m) = Serialize(w) /\ w.id \in Byte  BY <1>1, EncodedSerialized
  <2>2. w.payload \in Seq(Byte) /\ 1 + Len(w.payload) \in U32 /\ w.id \in 0 .. 8
    BY <1>1, BuiltMessage
  <2> HIDE DEF w
  <2>3. Encoded(m)[5] = w.id  BY <2>1, <2>2, SerializeFramed
  <2> QED  BY <2>2, <2>3
<1>2. CASE m.kind = "keep_alive"
  BY <1>2, MessageForms, KeepAliveFramed
<1>3. CASE m.kind = "ignored"
  BY <1>3, FramesOK DEF Encoded, Have
<1>4. CASE m.kind = "malformed"
  BY <1>4 DEF Abstract!Usable
<1> QED  BY <1>1, <1>2, <1>3, <1>4, MessageForms

(* What parse_piece is given: a block of the peer, with its fields, or less *)
(* than the head of one.                                                    *)
LEMMA GotPiece ==
  ASSUME Inv, Stream, pc = "got", msg.id = PieceId, NEW m, m = sent[taken + 1]
  PROVE  \/ m.kind = "malformed" /\ Len(msg.payload) < 8
         \/ /\ m.kind = "piece" /\ Len(msg.payload) >= 8
            /\ m.index \in U32 /\ m.begin \in U32 /\ m.data \in Seq(Byte)
            /\ GetU32(msg.payload, 0) = m.index /\ GetU32(msg.payload, 4) = m.begin
            /\ SubSeq(msg.payload, 9, Len(msg.payload)) = m.data
            /\ Len(m.data) <= MaxSize - 9
<1> DEFINE p == msg.payload
<1>1. m \in Messages  BY Got
<1>2. /\ m.kind \in {"have", "request", "piece", "plain", "ignored", "malformed"}
      /\ m.kind \in {"have", "request", "piece", "plain"} =>
           msg.id = Built(m).id /\ msg.payload = Built(m).payload
      /\ m.kind = "ignored" => msg.id = Have /\ Len(msg.payload) < 4
      /\ m.kind = "malformed" => msg.id = PieceId /\ Len(msg.payload) < 8
  BY GotMessage
<1>3. CASE m.kind = "malformed"  BY <1>2, <1>3
<1>4. m.kind # "request"  BY <1>1, <1>2, BuiltMessage DEF Request, PieceId
<1>5. m.kind # "ignored"  BY <1>2 DEF Have, PieceId
<1>6. m.kind # "have"
  <2> SUFFICES ASSUME m.kind = "have" PROVE FALSE  OBVIOUS
  <2>1. Built(m) = WithPayload(Have, PutU32(m.index))  BY <1>1, BuiltMessage
  <2>2. Built(m).id = 4  BY <2>1 DEF WithPayload, Have
  <2> QED  BY <1>2, <2>2 DEF PieceId
<1>7. m.kind # "plain"
  <2> SUFFICES ASSUME m.kind = "plain" PROVE FALSE  OBVIOUS
  <2>1. Built(m) = WithPayload(m.id, <<>>)  BY <1>1, BuiltMessage
  <2>2. Built(m).id = m.id  BY <2>1 DEF WithPayload
  <2> QED  BY <1>1, <1>2, <2>2, FramesOK
<1>8. CASE m.kind = "piece"
  <2>1. m.index \in U32 /\ m.begin \in U32 /\ m.data \in Seq(Byte)
    BY <1>1, <1>8, MessagesOK
  <2> DEFINE c == PutU32(m.index) \o PutU32(m.begin) \o m.data
  <2>2. Built(m) = WithPayload(PieceId, c) /\ Len(Built(m).payload) = 8 + Len(m.data)
    BY <1>1, <1>8, BuiltMessage
  <2> HIDE DEF c
  <2>3. Built(m).payload = c  BY <2>2 DEF WithPayload
  <2>4. p = c /\ Len(p) = 8 + Len(m.data)  BY <1>2, <1>8, <2>2, <2>3
  <2>5. 1 + Len(p) <= MaxSize  BY DEF Stream
  <2> HIDE DEF p
  <2>6. GetU32(p, 0) = m.index /\ GetU32(p, 4) = m.begin /\ SubSeq(p, 9, Len(p)) = m.data
    <3> DEFINE i == m.index
               b == m.begin
               d == m.data
    <3>1. i \in U32 /\ b \in U32 /\ d \in Seq(Byte) /\ p = BlockBytes(i, b, d)
      BY <2>1, <2>4 DEF BlockBytes, c
    <3> HIDE DEF i, b, d
    <3>2. GetU32(p, 0) = i /\ GetU32(p, 4) = b /\ SubSeq(p, 9, Len(p)) = d
      BY <3>1, BlockFields
    <3> QED  BY <3>2 DEF i, b, d
  <2>7. Len(m.data) \in Nat /\ MaxSize \in Nat  BY <2>1, ConstantsOK
  <2>8. Len(p) >= 8 /\ Len(m.data) <= MaxSize - 9  BY <2>4, <2>5, <2>7
  <2> QED  BY <1>8, <2>1, <2>6, <2>8 DEF p
<1> QED  BY <1>2, <1>3, <1>4, <1>5, <1>6, <1>7, <1>8

-----------------------------------------------------------------------------
(* Every step keeps Stream, and is a step of Blocks or none.                *)

Mapped == Stream' /\ [Abstract!Next]_(Abstract!vars)

(* What Blocks does not see.                                                *)
LEMMA Unseen ==
  ASSUME UNCHANGED <<sent, taken, haves, buf, closed>>, (pc = "failed") = (pc' = "failed")
  PROVE  UNCHANGED Abstract!vars
BY DEF Abstract!vars

LEMMA FailMapped ==
  ASSUME Stream, pc # "failed", NEW e, Fail(e), closed \/ Abstract!Stuck
  PROVE  Mapped
<1>1. Abstract!End  BY DEF Abstract!End, Fail
<1>2. Stream'  BY DEF Stream, Fail
<1> QED  BY <1>1, <1>2 DEF Mapped, Abstract!Next

LEMMA WriteMapped ==
  ASSUME Inv, Stream, NEW m \in Messages, Write(m)
  PROVE  Mapped
<1>1. Abstract!Send(m)  BY DEF Write, Abstract!Send
<1>2. sent \in Seq(Messages) /\ wire \in Seq(Byte) /\ Encoded(m) \in Seq(Byte)
  BY Types, EncodedBytes
<1>3. pc # "failed" /\ pc' = pc /\ taken' = taken /\ Consumed' = Consumed
  BY DEF Write, Consumed
<1>4. Consumed \in Seq(Byte) /\ Consumed \o Ahead \in Seq(Byte)  BY <1>3, ConsumedBytes
<1>5. taken \in 0 .. Len(sent)  BY DEF Stream
<1>6. Ahead = wire /\ Ahead' = wire \o Encoded(m)
  <2>1. lost = <<>> /\ lost' = <<>>  BY DEF Write, Inv, TypeOK
  <2>2. wire \o Encoded(m) \in Seq(Byte)  BY <1>2, Joined
  <2>3. Ahead = wire  BY <1>2, <2>1, ConcatEmptySeq DEF Ahead
  <2>4. Ahead' = (wire \o Encoded(m)) \o <<>>  BY <2>1 DEF Ahead, Write
  <2> QED  BY <2>2, <2>3, <2>4, ConcatEmptySeq
<1>7. PICK f : Carries(f, sent, taken, Consumed \o Ahead)  BY <1>3 DEF Stream
<1>8. \E g : Carries(g, Append(sent, m), taken, (Consumed \o Ahead) \o Encoded(m))
  BY <1>2, <1>4, <1>5, <1>7, CarriesMore
<1>9. (Consumed \o Ahead) \o Encoded(m) = Consumed \o Ahead'
  BY <1>2, <1>4, <1>6, Regrouped
<1>10. \E g : Carries(g, sent', taken', Consumed' \o Ahead')
  BY <1>3, <1>8, <1>9 DEF Write
<1>11. taken' \in 0 .. Len(sent')
  <2>1. Len(sent') = Len(sent) + 1 /\ Len(sent) \in Nat  BY <1>2 DEF Write
  <2> QED  BY <1>3, <1>5, <2>1
<1>12. Stream'
  BY <1>3, <1>10, <1>11 DEF Stream, Write
<1> QED  BY <1>1, <1>12 DEF Mapped, Abstract!Next

(* Where the connection is cut makes no difference to what was written.     *)
LEMMA CloseMapped ==
  ASSUME Inv, Stream, Close
  PROVE  Mapped
<1>1. Abstract!Close  BY DEF Close, Abstract!Close
<1>2. Ahead' = Ahead
  <2>1. PICK k \in 0 .. Len(wire) :
             wire' = SubSeq(wire, 1, k) /\ lost' = SubSeq(wire, k + 1, Len(wire))
    BY DEF Close
  <2>2. wire \in Seq(Byte)  BY Types
  <2>3. wire' \o lost' = wire  BY <2>1, <2>2, CutBytes
  <2>4. lost = <<>>  BY DEF Close, Inv, TypeOK
  <2>5. wire \o lost = wire  BY <2>2, <2>4, ConcatEmptySeq
  <2> QED  BY <2>3, <2>5 DEF Ahead
<1>3. Consumed' = Consumed /\ UNCHANGED <<sent, taken, pc, need, msg>>
  BY DEF Close, Consumed
<1>4. Stream'  BY <1>2, <1>3 DEF Stream
<1> QED  BY <1>1, <1>4 DEF Mapped, Abstract!Next

LEMMA ReceiveMapped ==
  ASSUME Inv, Stream, NEW k \in 1 .. Len(wire), Receive(k)
  PROVE  Mapped
<1> DEFINE x == SubSeq(wire, 1, k)
           y == SubSeq(wire, k + 1, Len(wire))
<1>1. wire \in Seq(Byte) /\ part \in Seq(Byte)  BY Types
<1>2. x \in Seq(Byte) /\ y \in Seq(Byte) /\ x \o y = wire
  <2>1. k \in 0 .. Len(wire)  BY <1>1
  <2> QED  BY <1>1, <2>1, CutBytes
<1>3. lost \in Seq(Byte) /\ lost' = lost  BY Types DEF Receive
<1>4. part' = part \o x /\ wire' = y /\ pc' = pc /\ pc \in {"len", "body"} /\ need' = need
  BY DEF Receive, Reading
<1> HIDE DEF x, y
<1>5. part' \o Ahead' = part \o Ahead
  <2>1. Ahead' = y \o lost /\ Ahead = (x \o y) \o lost  BY <1>2, <1>3, <1>4 DEF Ahead
  <2>2. Ahead = x \o (y \o lost)  BY <1>2, <1>3, <2>1, Regrouped
  <2>3. y \o lost \in Seq(Byte)  BY <1>2, <1>3, Joined
  <2>4. (part \o x) \o (y \o lost) = part \o (x \o (y \o lost))
    BY <1>1, <1>2, <2>3, Regrouped
  <2> QED  BY <1>4, <2>1, <2>2, <2>4
<1>6. Consumed' \o Ahead' = Consumed \o Ahead
  <2>0. Ahead \in Seq(Byte) /\ Ahead' \in Seq(Byte)
    <3>1. wire' \in Seq(Byte) /\ lost' \in Seq(Byte)  BY <1>2, <1>3, <1>4
    <3> QED  BY <3>1, Types, Joined DEF Ahead
  <2>1. CASE pc = "len"  BY <1>4, <1>5, <2>1 DEF Consumed
  <2>2. CASE pc = "body"
    <3> DEFINE h == PutU32(need)
    <3>1. h \in Seq(Byte)  BY Types, WordBytes
    <3>2. part' \in Seq(Byte)  BY <1>1, <1>2, <1>4, Joined
    <3>3. Consumed = h \o part /\ Consumed' = h \o part'  BY <1>4, <2>2 DEF Consumed
    <3> HIDE DEF h
    <3>4. (h \o part') \o Ahead' = h \o (part' \o Ahead')
      BY <2>0, <3>1, <3>2, Regrouped
    <3>5. (h \o part) \o Ahead = h \o (part \o Ahead)
      BY <1>1, <2>0, <3>1, Regrouped
    <3> QED  BY <1>5, <3>3, <3>4, <3>5
  <2> QED  BY <1>4, <2>1, <2>2
<1>7. Stream'
  BY <1>4, <1>6 DEF Stream, Receive
<1>8. UNCHANGED Abstract!vars
  BY Unseen, <1>4 DEF Receive
<1> QED  BY <1>7, <1>8 DEF Mapped

(* The message is done with: the bytes ahead carry those after it.          *)
LEMMA Advanced ==
  ASSUME Inv, Stream, taken + 1 \in 1 .. Len(sent),
         \E g : Carries(g, sent, taken + 1, Ahead),
         NextMessage, lost' = lost
  PROVE  Stream'
<1>1. Ahead \in Seq(Byte)  BY Types
<1>2. /\ pc' = "len" /\ part' = <<>> /\ taken' = taken + 1
      /\ sent' = sent /\ Ahead' = Ahead
  BY DEF NextMessage, Expect, Ahead
<1>3. Consumed' \o Ahead' = Ahead
  <2>1. Consumed' = <<>>  BY <1>2 DEF Consumed
  <2> QED  BY <1>1, <1>2, <2>1, ConcatEmptySeq
<1>4. taken' \in 0 .. Len(sent')
  <2>1. Len(sent) \in Nat  BY Types
  <2> QED  BY <1>2, <2>1
<1>5. \E g : Carries(g, sent', taken', Consumed' \o Ahead')  BY <1>2, <1>3
<1> QED  BY <1>2, <1>4, <1>5 DEF Stream

LEMMA ReadLengthMapped ==
  ASSUME Inv, Stream, ReadLength
  PROVE  Mapped
<1> DEFINE length == GetU32(part, 0)
           m == sent[taken + 1]
<1>1. pc = "len" /\ Len(part) = 4 /\ part \in Seq(Byte) /\ Consumed = part
  BY Types DEF ReadLength, Consumed
<1>2. length \in U32 /\ length \in Nat
  <2>1. 0 \in Nat /\ 0 + 4 <= Len(part)  BY <1>1
  <2>2. GetU32(part, 0) \in U32 /\ GetU32(part, 0) \in Nat  BY <1>1, <2>1, WordBound
  <2> QED  BY <2>2
<1>3. Len(Consumed) >= 4 /\ pc # "failed"  BY <1>1
<1>4. /\ taken + 1 \in 1 .. Len(sent) /\ m \in Messages /\ taken < Len(sent)
      /\ GetU32(Encoded(m), 0) = length
      /\ Framed(part) /\ length <= MaxSize =>
           Encoded(m) = part /\ \E g : Carries(g, sent, taken + 1, Ahead)
  BY <1>1, <1>3, Begun
<1>5. ASSUME length = 0, Expect("len", 4), taken' = taken + 1,
             UNCHANGED <<sent, wire, closed, lost, msg, haves, buf, err>>
      PROVE  Mapped
  <2>1. Framed(part) /\ length <= MaxSize  BY <1>1, <1>5, ConstantsOK DEF Framed
  <2>2. NextMessage  BY <1>5 DEF NextMessage
  <2>3. Stream'  BY <1>4, <1>5, <2>1, <2>2, Advanced
  <2>4. m.kind = "keep_alive"  BY <1>4, <1>5, MessageForms
  <2> HIDE DEF length
  <2>5. Abstract!Take(m)
    BY <1>1, <1>4, <1>5, <2>4 DEF Abstract!Take, Abstract!Usable, Expect
  <2>6. Abstract!Next
    <3> HIDE DEF m
    <3> QED  BY <1>4, <2>5 DEF Abstract!Next
  <2> QED  BY <2>3, <2>6 DEF Mapped
<1>6. ASSUME TooLarge(length), Fail("TooLarge") PROVE Mapped
  <2>1. ~Abstract!Usable(m)  BY <1>4, <1>6, LargeUnusable DEF TooLarge
  <2>2. Abstract!Stuck  BY <1>4, <2>1 DEF Abstract!Stuck
  <2> QED  BY <1>1, <1>6, <2>2, FailMapped
<1>7. ASSUME length # 0, Expect("body", BodyLength(length)),
             UNCHANGED <<sent, wire, closed, lost, msg, taken, haves, buf, err>>
      PROVE  Mapped
  <2>1. pc' = "body" /\ part' = <<>> /\ need' = length  BY <1>7 DEF Expect, BodyLength
  <2>2. PutU32(length) = part  BY <1>1, WordBack
  <2>3. Consumed' = Consumed
    <3>1. Consumed' = PutU32(length) \o <<>>  BY <2>1 DEF Consumed
    <3> QED  BY <1>1, <2>2, <3>1, ConcatEmptySeq
  <2>4. Ahead' = Ahead  BY <1>7 DEF Ahead
  <2>5. Stream'  BY <1>1, <1>2, <1>7, <2>1, <2>3, <2>4 DEF Stream
  <2>6. UNCHANGED Abstract!vars  BY <1>1, <1>7, <2>1, Unseen
  <2> QED  BY <2>5, <2>6 DEF Mapped
<1> QED  BY <1>5, <1>6, <1>7 DEF ReadLength

LEMMA ReadBodyMapped ==
  ASSUME Inv, Stream, ReadBody
  PROVE  Mapped
<1>1. /\ pc = "body" /\ Len(part) = need /\ part \in Seq(Byte) /\ wire \in Seq(Byte)
      /\ need \in U32 /\ need \in 1 .. MaxSize /\ MaxSize \in Nat
  BY Types DEF ReadBody, Stream
<1>2. ASSUME part[1] > 8, Fail("InvalidId") PROVE Mapped
  <2> DEFINE h == PutU32(need)
             a == h \o part
             m == sent[taken + 1]
  <2>1. h \in Seq(Byte) /\ Len(h) = 4 /\ GetU32(h, 0) = need
    BY <1>1, WordRoundTrip
  <2>2. Consumed = a  BY <1>1 DEF Consumed
  <2> HIDE DEF h
  <2>3. /\ a \in Seq(Byte) /\ Len(a) = Len(h) + Len(part)
        /\ (\A i \in 1 .. Len(h) : a[i] = h[i])
        /\ \A i \in 1 .. Len(part) : a[Len(h) + i] = part[i]
    BY <1>1, <2>1, Joined
  <2> HIDE DEF a
  <2>4. a[1] = h[1] /\ a[2] = h[2] /\ a[3] = h[3] /\ a[4] = h[4] /\ a[5] = part[1]
    BY <1>1, <2>1, <2>3
  <2>5. GetU32(a, 0) = need  BY <2>1, <2>4 DEF GetU32
  <2>6. Framed(a) /\ Len(a) >= 4  BY <1>1, <2>1, <2>3, <2>5 DEF Framed
  <2>7. need <= MaxSize /\ need # 0  BY <1>1
  <2>8. /\ m \in Messages /\ taken < Len(sent) /\ Encoded(m) = a
    BY <1>1, <2>2, <2>5, <2>6, <2>7, Begun
  <2>9. ~Abstract!Usable(m)
    BY <1>2, <2>4, <2>5, <2>6, <2>7, <2>8, StrangeUnusable
  <2>10. Abstract!Stuck  BY <2>8, <2>9 DEF Abstract!Stuck
  <2> QED  BY <1>1, <1>2, <2>10, FailMapped
<1>3. ASSUME part[1] <= 8, msg' = WithPayload(part[1], Tail(part)), Expect("got", 0),
             UNCHANGED <<sent, wire, closed, lost, taken, haves, buf, err>>
      PROVE  Mapped
  <2> DEFINE t == Tail(part)
             h == PutU32(need)
             i == <<part[1]>>
  <2>1. msg'.id = part[1] /\ msg'.payload = t /\ pc' = "got"
    BY <1>3 DEF WithPayload, Expect
  <2>2. part # <<>>
    <3>1. Len(<<>>) = 0 /\ Len(part) # 0  BY <1>1
    <3> QED  BY <3>1
  <2>3. t \in Seq(Byte) /\ Len(t) = Len(part) - 1 /\ i \o t = part
        /\ i \in Seq(Byte)
    <3>1. Head(part) \in Byte /\ t \in Seq(Byte)  BY <1>1, <2>2, HeadTailProperties
    <3>2. Head(part) = part[1]  OBVIOUS
    <3>3. Len(t) = Len(part) - 1  BY <1>1, <2>2, HeadTailProperties
    <3>4. i \in Seq(Byte)  BY <3>1, <3>2
    <3>5. i \o t = part
      <4> DEFINE c == i \o t
      <4>0. Len(i) = 1 /\ i[1] = part[1]  OBVIOUS
      <4> HIDE DEF i
      <4>1. /\ c \in Seq(Byte) /\ Len(c) = Len(i) + Len(t)
            /\ (\A k \in 1 .. Len(i) : c[k] = i[k])
            /\ \A k \in 1 .. Len(t) : c[Len(i) + k] = t[k]
        BY <3>1, <3>4, Joined
      <4>2. \A k \in 1 .. Len(t) : t[k] = part[k + 1]
        BY <1>1, <2>2, HeadTailProperties
      <4> HIDE DEF c, t
      <4>3. Len(c) = Len(part)  BY <1>1, <3>3, <4>0, <4>1
      <4>4. ASSUME NEW k \in 1 .. Len(c) PROVE c[k] = part[k]
        <5>1. CASE k = 1  BY <4>0, <4>1, <5>1
        <5>2. CASE k # 1
          <6>1. k - 1 \in 1 .. Len(t) /\ 1 + (k - 1) = k /\ (k - 1) + 1 = k
            BY <1>1, <3>3, <4>3, <5>2
          <6>2. c[1 + (k - 1)] = t[k - 1]  BY <4>0, <4>1, <6>1
          <6>3. t[k - 1] = part[(k - 1) + 1]  BY <4>2, <6>1
          <6> QED  BY <6>1, <6>2, <6>3
        <5> QED  BY <5>1, <5>2
      <4>5. c = part  BY <1>1, <4>1, <4>3, <4>4, SeqEqual
      <4> QED  BY <4>5 DEF c
    <3> QED  BY <3>1, <3>3, <3>4, <3>5
  <2>4. 1 + Len(t) = need  BY <1>1, <2>3
  <2>5. h \in Seq(Byte)  BY <1>1, Types, WordBytes
  <2>6. Consumed' = h \o i \o t
    BY <2>1, <2>4 DEF Consumed, Serialize
  <2> HIDE DEF h, i, t
  <2>7. (h \o i) \o t = h \o (i \o t)  BY <2>3, <2>5, Regrouped
  <2>8. Consumed' = Consumed  BY <1>1, <2>3, <2>6, <2>7 DEF Consumed, h
  <2>9. 1 + Len(msg'.payload) \in U32 /\ 1 + Len(msg'.payload) <= MaxSize
    BY <1>1, <2>1, <2>4
  <2>10. Stream'  BY <1>1, <1>3, <2>1, <2>8, <2>9 DEF Stream, Ahead
  <2>11. UNCHANGED Abstract!vars  BY <1>1, <1>3, <2>1, Unseen
  <2> QED  BY <2>10, <2>11 DEF Mapped
<1> QED  BY <1>2, <1>3 DEF ReadBody

LEMMA EndOfFileMapped ==
  ASSUME Stream, EndOfFile
  PROVE  Mapped
<1>1. pc # "failed" /\ Fail("Io") /\ closed  BY DEF EndOfFile, Reading
<1> QED  BY <1>1, FailMapped

(* The message is not the last one, and Blocks takes it.                    *)
LEMMA TakeMapped ==
  ASSUME Inv, Stream, pc = "got", NextMessage, NEW m, m = sent[taken + 1],
         Abstract!Usable(m),
         haves' = IF m.kind = "have" THEN haves \cup {m.index} ELSE haves,
         buf' = IF m.kind = "piece" THEN Abstract!Placed(m) ELSE buf
  PROVE  Mapped
<1>1. taken + 1 \in 1 .. Len(sent) /\ m \in Messages /\ taken < Len(sent)
      /\ \E g : Carries(g, sent, taken + 1, Ahead)
  BY Got
<1>2. Stream'  BY <1>1, Advanced DEF NextMessage
<1>3. /\ pc # "failed" /\ pc' # "failed" /\ taken' = taken + 1
      /\ sent' = sent /\ closed' = closed
  BY DEF NextMessage, Expect
<1>4. Abstract!Take(m)  BY <1>1, <1>3 DEF Abstract!Take
<1>5. Abstract!Next  BY <1>1, <1>4 DEF Abstract!Next
<1> QED  BY <1>2, <1>5 DEF Mapped

LEMMA ParseHaveMapped ==
  ASSUME Inv, Stream, ParseHave
  PROVE  Mapped
<1> DEFINE m == sent[taken + 1]
<1>1. /\ pc = "got" /\ msg.id = 4 /\ NextMessage /\ buf' = buf
      /\ haves' = IF Len(msg.payload) < 4 THEN haves
                  ELSE haves \cup {GetU32(msg.payload, 0)}
  BY DEF ParseHave, Have
<1>2. m \in Messages  BY <1>1, Got
<1>3. /\ m.kind \in {"have", "request", "piece", "plain", "ignored", "malformed"}
      /\ m.kind \in {"have", "request", "piece", "plain"} =>
           msg.id = Built(m).id /\ msg.payload = Built(m).payload
      /\ m.kind = "ignored" => msg.id = Have /\ Len(msg.payload) < 4
      /\ m.kind = "malformed" => msg.id = PieceId /\ Len(msg.payload) < 8
  BY <1>1, GotMessage
<1> HIDE DEF m
<1>4. m.kind \in {"have", "plain", "ignored"}
  <2>1. m.kind # "malformed"  BY <1>1, <1>3 DEF PieceId
  <2>2. m.kind # "request"  BY <1>1, <1>2, <1>3, BuiltMessage DEF Request
  <2>3. m.kind # "piece"
    <3> SUFFICES ASSUME m.kind = "piece" PROVE FALSE  OBVIOUS
    <3>1. Built(m) = WithPayload(PieceId, PutU32(m.index) \o PutU32(m.begin) \o m.data)
      BY <1>2, BuiltMessage
    <3>2. Built(m).id = 7  BY <3>1 DEF WithPayload, PieceId
    <3> QED  BY <1>1, <1>3, <3>2
  <2> QED  BY <1>3, <2>1, <2>2, <2>3
<1>5. haves' = IF m.kind = "have" THEN haves \cup {m.index} ELSE haves
  <2>1. CASE m.kind = "have"
    <3>1. Built(m) = WithPayload(Have, PutU32(m.index))  BY <1>2, <2>1, BuiltMessage
    <3>2. msg.payload = PutU32(m.index)  BY <1>3, <2>1, <3>1 DEF WithPayload
    <3>3. m.index \in U32  BY <1>2, <2>1, MessagesOK
    <3>4. Len(msg.payload) = 4 /\ GetU32(msg.payload, 0) = m.index
      BY <3>2, <3>3, WordRoundTrip
    <3>5. ~(Len(msg.payload) < 4)  BY <3>4
    <3> QED  BY <1>1, <2>1, <3>4, <3>5
  <2>2. CASE m.kind = "plain"
    <3>1. Built(m) = WithPayload(m.id, <<>>)  BY <1>2, <2>2, BuiltMessage
    <3>2. msg.payload = <<>>  BY <1>3, <2>2, <3>1 DEF WithPayload
    <3>3. Len(msg.payload) < 4
      <4>1. Len(<<>>) = 0  OBVIOUS
      <4> QED  BY <3>2, <4>1
    <3> QED  BY <1>1, <2>2, <3>3
  <2>3. CASE m.kind = "ignored"  BY <1>1, <1>3, <2>3
  <2> QED  BY <1>4, <2>1, <2>2, <2>3
<1>6. Abstract!Usable(m)  BY <1>4 DEF Abstract!Usable
<1> QED  BY <1>1, <1>4, <1>5, <1>6, TakeMapped DEF m

LEMMA ParsePieceMapped ==
  ASSUME Inv, Stream, ParsePiece
  PROVE  Mapped
<1> DEFINE m == sent[taken + 1]
           p == msg.payload
           begin == GetU32(p, 4)
           block == SubSeq(p, 9, Len(p))
<1>1. pc = "got" /\ msg.id = PieceId  BY DEF ParsePiece
<1>2. m \in Messages /\ taken < Len(sent)  BY <1>1, Got
<1>3. \/ m.kind = "malformed" /\ Len(p) < 8
      \/ /\ m.kind = "piece" /\ Len(p) >= 8
         /\ m.index \in U32 /\ m.begin \in U32 /\ m.data \in Seq(Byte)
         /\ GetU32(p, 0) = m.index /\ begin = m.begin /\ block = m.data
         /\ Len(m.data) <= MaxSize - 9
  BY <1>1, GotPiece
<1>4. Len(p) \in Nat
  <2>1. p \in Seq(Byte)  BY Types
  <2> QED  BY <2>1
<1> HIDE DEF m, p, begin, block
<1>5. ASSUME NEW e, Fail(e), ~Abstract!Usable(m) PROVE Mapped
  <2>1. Abstract!Stuck  BY <1>2, <1>5 DEF Abstract!Stuck, m
  <2> QED  BY <1>1, <1>5, <2>1, FailMapped
<1>6. CASE Len(p) < 8 /\ Fail("PayloadTooShort")
  <2>1. m.kind = "malformed"  BY <1>3, <1>4, <1>6
  <2> QED  BY <1>5, <1>6, <2>1 DEF Abstract!Usable
<1>7. CASE Len(p) >= 8
  <2>1. /\ m.kind = "piece" /\ m.index \in U32 /\ m.begin \in U32 /\ m.data \in Seq(Byte)
        /\ GetU32(p, 0) = m.index /\ begin = m.begin /\ block = m.data
        /\ Len(m.data) <= MaxSize - 9
    BY <1>3, <1>4, <1>7
  <2>2. m.begin \in Nat /\ Len(m.data) \in Nat /\ BufLen \in Nat /\ Usize \in Nat
        /\ m.begin + Len(m.data) < Usize
    <3>1. Pow4 \in Nat  BY BaseOK DEF Pow4
    <3>2. m.begin \in Nat /\ m.begin < Pow4  BY <2>1, <3>1 DEF U32
    <3>3. Len(m.data) \in Nat /\ MaxSize \in Nat /\ Usize \in Nat
          /\ Pow4 + MaxSize < Usize /\ BufLen \in Nat
      BY <2>1, ConstantsOK
    <3> QED  BY <2>1, <3>1, <3>2, <3>3
  <2>3. (m.begin + Len(m.data)) % Usize = m.begin + Len(m.data)
    <3> DEFINE end == m.begin + Len(m.data)
    <3>1. end \in Nat /\ Usize \in Nat /\ end < Usize  BY <2>2
    <3> HIDE DEF end
    <3>2. end % Usize = end  BY <3>1
    <3> QED  BY <3>2 DEF end
  <2>4. CASE m.index # Piece /\ Fail("IndexMismatch")
    BY <1>5, <2>1, <2>4 DEF Abstract!Usable
  <2>5. CASE TooShort(begin, Len(block)) /\ Fail("PayloadTooShort")
    <3>1. ~(m.begin + Len(m.data) <= BufLen)  BY <2>1, <2>2, <2>3, <2>5 DEF TooShort
    <3> QED  BY <1>5, <2>1, <2>5, <3>1 DEF Abstract!Usable
  <2>6. CASE /\ m.index = Piece /\ ~TooShort(begin, Len(block))
             /\ IF InRange(begin, Len(block))
                  THEN buf' = Copied(begin, block) /\ NextMessage /\ UNCHANGED haves
                  ELSE Fail("panic")
    <3>1. m.begin + Len(m.data) <= BufLen  BY <2>1, <2>2, <2>3, <2>6 DEF TooShort
    <3>2. InRange(begin, Len(block))  BY <2>1, <2>2, <3>1 DEF InRange
    <3>3. Abstract!Usable(m)  BY <2>1, <2>6, <3>1 DEF Abstract!Usable
    <3>4. buf' = Abstract!Placed(m)
      <4>1. DOMAIN buf = 1 .. BufLen  BY Types
      <4>2. \A o \in 1 .. BufLen : (m.begin < o /\ o <= m.begin + Len(m.data))
                                     <=> o \in m.begin + 1 .. m.begin + Len(m.data)
        BY <2>2
      <4>3. buf' = Copied(m.begin, m.data)  BY <2>1, <2>6, <3>2
      <4> QED  BY <4>1, <4>2, <4>3 DEF Copied, Abstract!Placed
    <3> QED  BY <1>1, <2>1, <2>6, <3>2, <3>3, <3>4, TakeMapped DEF m
  <2> QED  BY <1>7, <2>1, <2>4, <2>5, <2>6 DEF ParsePiece, p, begin, block
<1> QED  BY <1>4, <1>6, <1>7 DEF ParsePiece, p

LEMMA OtherMapped ==
  ASSUME Inv, Stream, Other
  PROVE  Mapped
<1> DEFINE m == sent[taken + 1]
<1>1. /\ pc = "got" /\ msg.id # 4 /\ msg.id # 7 /\ NextMessage
      /\ haves' = haves /\ buf' = buf
  BY DEF Other, Have, PieceId
<1>2. m \in Messages  BY <1>1, Got
<1>3. /\ m.kind \in {"have", "request", "piece", "plain", "ignored", "malformed"}
      /\ m.kind \in {"have", "request", "piece", "plain"} =>
           msg.id = Built(m).id /\ msg.payload = Built(m).payload
      /\ m.kind = "ignored" => msg.id = Have /\ Len(msg.payload) < 4
      /\ m.kind = "malformed" => msg.id = PieceId /\ Len(msg.payload) < 8
  BY <1>1, GotMessage
<1> HIDE DEF m
<1>4. m.kind # "malformed" /\ m.kind # "ignored"  BY <1>1, <1>3 DEF Have, PieceId
<1>5. m.kind # "have"
  <2> SUFFICES ASSUME m.kind = "have" PROVE FALSE  OBVIOUS
  <2>1. Built(m) = WithPayload(Have, PutU32(m.index))  BY <1>2, BuiltMessage
  <2>2. Built(m).id = 4  BY <2>1 DEF WithPayload, Have
  <2> QED  BY <1>1, <1>3, <2>2
<1>6. m.kind # "piece"
  <2> SUFFICES ASSUME m.kind = "piece" PROVE FALSE  OBVIOUS
  <2>1. Built(m) = WithPayload(PieceId, PutU32(m.index) \o PutU32(m.begin) \o m.data)
    BY <1>2, BuiltMessage
  <2>2. Built(m).id = 7  BY <2>1 DEF WithPayload, PieceId
  <2> QED  BY <1>1, <1>3, <2>2
<1>7. Abstract!Usable(m)  BY <1>4, <1>6 DEF Abstract!Usable
<1> QED  BY <1>1, <1>5, <1>6, <1>7, TakeMapped DEF m

LEMMA StepMapped ==
  ASSUME Inv, Stream, [Next]_vars
  PROVE  Mapped
<1>1. ASSUME NEW m \in Messages, Write(m) PROVE Mapped  BY <1>1, WriteMapped
<1>2. CASE Close  BY <1>2, CloseMapped
<1>3. CASE ReadLength  BY <1>3, ReadLengthMapped
<1>4. CASE ReadBody  BY <1>4, ReadBodyMapped
<1>5. CASE EndOfFile  BY <1>5, EndOfFileMapped
<1>6. ASSUME NEW k \in 1 .. Len(wire), Receive(k) PROVE Mapped  BY <1>6, ReceiveMapped
<1>7. CASE ParseHave  BY <1>7, ParseHaveMapped
<1>8. CASE ParsePiece  BY <1>8, ParsePieceMapped
<1>9. CASE Other  BY <1>9, OtherMapped
<1>10. CASE UNCHANGED vars
  <2>1. UNCHANGED Abstract!vars  BY <1>10, Unseen DEF vars
  <2>2. Stream'  BY <1>10 DEF vars, Stream, Consumed, Ahead
  <2> QED  BY <2>1, <2>2 DEF Mapped
<1> QED
  BY <1>1, <1>2, <1>3, <1>4, <1>5, <1>6, <1>7, <1>8, <1>9, <1>10 DEF Next, Read, Use

LEMMA InitMapped ==
  ASSUME Init
  PROVE  Stream /\ Abstract!Init
<1>1. Carries([k \in 0 .. 0 |-> <<>>], <<>>, 0, <<>>)  BY NothingCarried
<1>2. Consumed \o Ahead = <<>>
  <2>1. Consumed = <<>> /\ Ahead = <<>> \o <<>>  BY DEF Init, Consumed, Ahead
  <2>2. <<>> \in Seq(Byte) /\ <<>> \o <<>> = <<>>  OBVIOUS
  <2> QED  BY <2>1, <2>2
<1>3. \E f : Carries(f, sent, taken, Consumed \o Ahead)  BY <1>1, <1>2 DEF Init
<1>4. taken \in 0 .. Len(sent)
  <2>1. Len(<<>>) = 0  OBVIOUS
  <2> QED  BY <2>1 DEF Init
<1>5. Stream  BY <1>3, <1>4 DEF Stream, Init
<1>6. Abstract!Init  BY DEF Init, Abstract!Init
<1> QED  BY <1>5, <1>6

(* Whatever the chunks in which the bytes come, the caller gets the         *)
(* messages that serialize was given, in their order and each one once, and *)
(* a block lands at its offset: nothing is lost, merged or read twice.  The *)
(* reader gives up only when the connection is gone or the next message is  *)
(* malformed, too large or does not fit.                                    *)
THEOREM BlocksCorrect == Spec => ImplementsBlocks
<1>1. Inv /\ Stream /\ [Next]_vars => Stream' /\ [Abstract!Next]_(Abstract!vars)
  BY StepMapped DEF Mapped
<1>2. Init => Stream /\ Abstract!Init  BY InitMapped
<1> QED  BY <1>1, <1>2, Invariant, PTL DEF Spec, ImplementsBlocks, Abstract!Spec
=============================================================================
