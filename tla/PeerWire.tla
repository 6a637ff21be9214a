------------------------------ MODULE PeerWire ------------------------------
(***************************************************************************)
(* src/peer/message.rs, byte by byte: serialize and write, read, and the   *)
(* parsing of have and piece, over a stream that hands over its bytes in   *)
(* chunks of any size and may close at any byte, also inside a message.    *)
(* PeerClient models what a connection does with the messages; here is     *)
(* what they are.                                                          *)
(*                                                                         *)
(* A byte is a number below Base (256), a word is four of them, big end    *)
(* first.  The caller is handle_message of src/peer/client.rs for a have,  *)
(* and, external, the engine for a piece: it stops at the first error.     *)
(* External too: the peer that writes.                                     *)
(***************************************************************************)
EXTENDS Integers, Sequences
LOCAL INSTANCE SequencesExt

CONSTANTS
    Base,       \* 256
    MaxSize,    \* MAX_MESSAGE_SIZE
    Usize,      \* usize::MAX + 1
    Messages,   \* what the peer may send; of kind "malformed", or "ignored"
                \* (a have too short), those with raw bytes
    Piece,      \* expected_index
    BufLen,     \* buf.len()
    MaxSent     \* bound: messages the peer sends

Byte == 0 .. Base - 1
Pow4 == Base * Base * Base * Base
U32  == 0 .. Pow4 - 1

(* usize has 64 bits (32 would not do), and no message or buffer comes near *)
(* to filling it.  A message but a piece always fits: the longest, a        *)
(* request, has 13 bytes after its length.                                  *)
ASSUME ConstantsOK ==
    /\ Base \in Nat /\ Base > 9
    /\ MaxSize \in Nat /\ MaxSize >= 13
    /\ Usize \in Nat /\ Pow4 + MaxSize < Usize
    /\ Piece \in U32 /\ BufLen \in Nat /\ MaxSent \in Nat

(* What a message of each kind holds.                                       *)
ASSUME MessagesOK ==
    \A m \in Messages :
      \/ m.kind = "piece" /\ m.index \in U32 /\ m.begin \in U32 /\ m.data \in Seq(Byte)
      \/ m.kind = "have" /\ m.index \in U32
      \/ m.kind = "request" /\ m.index \in U32 /\ m.begin \in U32 /\ m.length \in U32
      \/ m.kind = "plain" /\ m.id \in 0 .. 8
      \/ m.kind = "keep_alive"
      \/ m.kind \in {"malformed", "ignored"} /\ m.raw \in Seq(Byte)

VARIABLES
    sent,       \* messages the peer wrote
    wire,       \* their bytes that were not read yet
    closed,     \* the connection is gone,
    lost,       \* and with it the bytes that did not arrive
    pc,         \* "len", "body": read_exact; "got": a message; "failed"
    part, need, \* the bytes read_exact has, and how many it wants
    msg,        \* the Message that read returned
    taken,      \* how many messages the caller is done with
    haves, buf, \* what parse_have and parse_piece gave it
    err         \* the MessageError, or "panic"

vars == <<sent, wire, closed, lost, pc, part, need, msg, taken, haves, buf, err>>

NoMessage == [id |-> 0, payload |-> <<>>]

Init ==
    /\ sent = <<>> /\ wire = <<>> /\ closed = FALSE /\ lost = <<>>
    /\ pc = "len" /\ part = <<>> /\ need = 4 /\ msg = NoMessage
    /\ taken = 0 /\ haves = {} /\ buf = [o \in 1 .. BufLen |-> 0]
    /\ err = "none"

-----------------------------------------------------------------------------
(* put_u32 and get_u32. *)
Shifted(n) == n \div Base     \* n >> 8

PutU32(n) == <<Shifted(Shifted(Shifted(n))) % Base, Shifted(Shifted(n)) % Base,
               Shifted(n) % Base, n % Base>>

GetU32(b, at) ==
    ((b[at + 1] * Base + b[at + 2]) * Base + b[at + 3]) * Base + b[at + 4]

Have    == 4
Request == 6
PieceId == 7

WithPayload(id, payload) == [id |-> id, payload |-> payload]

(* Message::have and Message::request; a piece as the tests build it.       *)
Built(m) ==
    IF m.kind = "have" THEN WithPayload(Have, PutU32(m.index))
    ELSE IF m.kind = "request"
      THEN WithPayload(Request, PutU32(m.index) \o PutU32(m.begin) \o PutU32(m.length))
    ELSE IF m.kind = "piece"
      THEN WithPayload(PieceId, PutU32(m.index) \o PutU32(m.begin) \o m.data)
    ELSE WithPayload(m.id, <<>>)

Serialize(message) ==
    PutU32(1 + Len(message.payload)) \o <<message.id>> \o message.payload

Encoded(m) ==
    IF m.kind \in {"malformed", "ignored"} THEN m.raw
    ELSE IF m.kind = "keep_alive" THEN PutU32(0)
    ELSE Serialize(Built(m))

(* What a peer makes up: a frame that read or parse_piece refuses, or a     *)
(* have whose error is ignored.  Honest lengths fit their prefix, and a     *)
(* piece is more than its id.                                               *)
OneFrame(raw) == Len(raw) >= 5 /\ Len(raw) = 4 + GetU32(raw, 0)

ASSUME FramesOK ==
    \A m \in Messages :
      /\ m.kind = "piece" => Len(m.data) + 9 \in U32
      /\ m.kind = "plain" => m.id # PieceId
      /\ m.kind = "ignored" => OneFrame(m.raw) /\ m.raw[5] = Have /\ Len(m.raw) < 9
      /\ m.kind = "malformed" =>
           \/ Len(m.raw) >= 4 /\ GetU32(m.raw, 0) > MaxSize
           \/ OneFrame(m.raw) /\ m.raw[5] > 8
           \/ OneFrame(m.raw) /\ m.raw[5] = PieceId /\ Len(m.raw) < 13

(* Message::write; the stream takes all of it. *)
Write(m) ==
    /\ ~closed /\ Len(sent) < MaxSent /\ pc # "failed"
    /\ sent' = Append(sent, m) /\ wire' = wire \o Encoded(m)
    /\ UNCHANGED <<closed, lost, pc, part, need, msg, taken, haves, buf, err>>

(* The connection goes: of what is under way, the first k bytes arrive.     *)
Close ==
    /\ ~closed /\ closed' = TRUE
    /\ \E k \in 0 .. Len(wire) :
         wire' = SubSeq(wire, 1, k) /\ lost' = SubSeq(wire, k + 1, Len(wire))
    /\ UNCHANGED <<sent, pc, part, need, msg, taken, haves, buf, err>>

-----------------------------------------------------------------------------
(* Message::read. *)
Reading == pc \in {"len", "body"}

(* read_exact gets some of the bytes it wants.                              *)
Receive(k) ==
    /\ Reading /\ k <= need - Len(part) /\ k <= Len(wire)
    /\ part' = part \o SubSeq(wire, 1, k) /\ wire' = SubSeq(wire, k + 1, Len(wire))
    /\ UNCHANGED <<sent, closed, lost, pc, need, msg, taken, haves, buf, err>>

Fail(e) ==
    /\ pc' = "failed" /\ err' = e
    /\ UNCHANGED <<sent, wire, closed, lost, part, need, msg, taken, haves, buf>>

EndOfFile == Reading /\ closed /\ wire = <<>> /\ Len(part) < need /\ Fail("Io")

Expect(p, n) == pc' = p /\ part' = <<>> /\ need' = n

AnySize(length)  == FALSE   \* mutant: the limit is not looked at
AtLimit(length)  == length >= MaxSize   \* mutant: the limit itself refused
TooLarge(length) == length > MaxSize

WholeFrame(length) == length + 4   \* mutant: the length taken for that of the frame
BodyLength(length) == length

ReadLength ==
    /\ pc = "len" /\ Len(part) = 4
    /\ LET length == GetU32(part, 0)
       IN  \/ /\ length = 0                   \* None: a keep-alive
              /\ Expect("len", 4) /\ taken' = taken + 1
              /\ UNCHANGED <<sent, wire, closed, lost, msg, haves, buf, err>>
           \/ TooLarge(length) /\ Fail("TooLarge")
           \/ /\ length # 0 /\ ~TooLarge(length)
              /\ Expect("body", BodyLength(length))
              /\ UNCHANGED <<sent, wire, closed, lost, msg, taken, haves, buf, err>>

ReadBody ==
    /\ pc = "body" /\ Len(part) = need
    /\ \/ part[1] > 8 /\ Fail("InvalidId")
       \/ /\ part[1] <= 8
          /\ msg' = WithPayload(part[1], Tail(part))
          /\ Expect("got", 0)
          /\ UNCHANGED <<sent, wire, closed, lost, taken, haves, buf, err>>

-----------------------------------------------------------------------------
(* The caller. *)
NextMessage ==
    /\ Expect("len", 4) /\ taken' = taken + 1
    /\ UNCHANGED <<sent, wire, closed, lost, msg, err>>

(* parse_have, whose error handle_message ignores.                          *)
ParseHave ==
    /\ pc = "got" /\ msg.id = Have
    /\ haves' = IF Len(msg.payload) < 4 THEN haves
                ELSE haves \cup {GetU32(msg.payload, 0)}
    /\ NextMessage /\ UNCHANGED buf

BlockAlone(begin, len) == len > BufLen   \* mutant: begin left out

TooShort(begin, len) == (begin + len) % Usize > BufLen

(* buf[begin..begin + len] exists, and the sum did not overflow.            *)
InRange(begin, len) == begin + len < Usize /\ begin + len <= BufLen

AtStart(begin, block) ==   \* mutant: copied to the start of the buffer
    [o \in DOMAIN buf |-> IF o <= Len(block) THEN block[o] ELSE buf[o]]

Copied(begin, block) ==
    [o \in DOMAIN buf |->
       IF begin < o /\ o <= begin + Len(block) THEN block[o - begin] ELSE buf[o]]

ParsePiece ==
    /\ pc = "got" /\ msg.id = PieceId
    /\ \/ Len(msg.payload) < 8 /\ Fail("PayloadTooShort")
       \/ /\ Len(msg.payload) >= 8
          /\ LET index == GetU32(msg.payload, 0)
                 begin == GetU32(msg.payload, 4)
                 block == SubSeq(msg.payload, 9, Len(msg.payload))
             IN  \/ index # Piece /\ Fail("IndexMismatch")
                 \/ /\ index = Piece /\ TooShort(begin, Len(block))
                    /\ Fail("PayloadTooShort")
                 \/ /\ index = Piece /\ ~TooShort(begin, Len(block))
                    /\ IF InRange(begin, Len(block))
                         THEN /\ buf' = Copied(begin, block)
                              /\ NextMessage /\ UNCHANGED haves
                         ELSE Fail("panic")

(* The caller has nothing to parse. *)
Other ==
    /\ pc = "got" /\ msg.id \notin {Have, PieceId}
    /\ NextMessage /\ UNCHANGED <<haves, buf>>

Read == ReadLength \/ ReadBody \/ EndOfFile \/ \E k \in 1 .. Len(wire) : Receive(k)
Use  == ParseHave \/ ParsePiece \/ Other
Next == (\E m \in Messages : Write(m)) \/ Close \/ Read \/ Use

(* The stream delivers what was written and the reader is polled.           *)
Spec     == Init /\ [][Next]_vars
FairSpec == Spec /\ WF_vars(Read) /\ WF_vars(Use)

-----------------------------------------------------------------------------
(* Properties. *)

(* Types of every variable; read_exact never has more than it wants, and a  *)
(* message body is never longer than MaxSize.                               *)
TypeOK ==
    /\ sent \in Seq(Messages) /\ wire \in Seq(Byte) /\ closed \in BOOLEAN
    /\ lost \in Seq(Byte) /\ (closed \/ lost = <<>>)
    /\ pc \in {"len", "body", "got", "failed"}
    /\ part \in Seq(Byte) /\ need \in Nat /\ Len(part) <= need
    /\ pc = "len" => need = 4
    /\ pc = "body" => need \in 1 .. MaxSize
    /\ msg \in [id : 0 .. 8, payload : Seq(Byte)] /\ Len(msg.payload) <= MaxSize
    /\ taken \in Nat /\ haves \subseteq U32
    /\ buf \in [1 .. BufLen -> Byte]
    /\ err \in {"none", "Io", "TooLarge", "InvalidId", "PayloadTooShort",
                "IndexMismatch", "panic"}

(* Whatever the peer sends, copy_from_slice has a slice of the buffer to    *)
(* copy to (message.rs:201-210).                                            *)
NoPanic == err # "panic"

(* The bytes carry the messages: read and the parsers take, in order, what  *)
(* serialize was given, place each block at its offset, and give up only    *)
(* when the connection is gone or the next message is malformed, too large  *)
(* or does not fit.                                                         *)
Abstract == INSTANCE Blocks WITH ended <- pc = "failed", MaxBlock <- MaxSize - 9
ImplementsBlocks == Abstract!Spec

BytesAfter(n) ==
    FoldLeft(LAMBDA b, m : b + Len(Encoded(m)), 0, SubSeq(sent, n + 1, Len(sent)))

(* A message that can be used, as those before it, is read in the end if    *)
(* all its bytes arrive, however they are cut, and also when the connection *)
(* goes after them.                                                         *)
AllRead ==
    \A n \in 1 .. MaxSent :
      Len(sent) >= n /\ (\A i \in 1 .. n : Abstract!Usable(sent[i]))
        ~> taken >= n \/ Len(lost) > BytesAfter(n)
=============================================================================
