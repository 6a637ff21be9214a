----------------------------- MODULE PeerClient -----------------------------
(***************************************************************************)
(* One connection to one peer: PeerClient::connect and the methods the     *)
(* download engine drives it with (src/peer/client.rs), over the handshake *)
(* of src/peer/handshake.rs and Message::read / write of                   *)
(* src/peer/message.rs.                                                    *)
(*                                                                         *)
(* The code runs between two awaits without interference, so one action is *)
(* the code from one await to the next.  The stream is read a byte at a    *)
(* time because a timeout may drop a read at any byte: read_exact then     *)
(* loses the bytes it already took.  The bytes of a frame are not spelled  *)
(* out: `cur` frames were consumed whole and `off` bytes of the next one,  *)
(* and a Message::read that starts at off # 0 decodes arbitrary bytes.     *)
(*                                                                         *)
(* External, from how src/ uses them: the peer, the network, and the       *)
(* engine, which calls one method at a time, hands each message it reads   *)
(* to handle_message, and drops the client when a method returns an error. *)
(***************************************************************************)
EXTENDS Bitfield

CONSTANTS
    NumPieces,    \* pieces of the torrent
    SimpleKinds,  \* kinds of frame without data the peer may send
    HaveIndices,  \* piece indices the peer may announce
    Payloads,     \* bitfield payloads the peer may send
    HeaderLen,    \* bytes of the length prefix: 4
    MaxLen,       \* MAX_MESSAGE_SIZE: the longest body that is accepted
    OutKinds,     \* kinds of message the engine sends
    MaxSent,      \* bound: frames the peer sends
    Garbage,      \* bound: messages that arbitrary bytes decode to
    MaxAhead,     \* bound: frames sent and not yet read whole
    MaxOut        \* bound: messages written, the handshake among them

(* Ignored by recv_bitfield, which reads on. *)
SkippedKinds ==
    {"unchoke", "have", "bad_have", "choke", "interested", "not_interested"}

AllSimpleKinds ==
    {"choke", "unchoke", "interested", "not_interested",
     "request", "piece", "cancel",
     "keep_alive",   \* length 0
     "bad_have",     \* a Have shorter than its 4-byte index
     "bad_id",       \* an id above 8
     "too_large"}    \* a length above MaxLen

ASSUME ConstantsOK ==
    /\ NumPieces \in Nat
    /\ SimpleKinds \subseteq AllSimpleKinds
    /\ HaveIndices \subseteq Nat
    /\ Payloads \subseteq Seq(Byte)
    /\ HeaderLen \in Nat \ {0}
    /\ MaxLen \in Nat /\ MaxLen >= 2
    /\ OutKinds \subseteq {"interested", "have", "request"}
    /\ MaxSent \in Nat /\ MaxAhead \in Nat
    /\ MaxOut \in Nat

Simple(k) == [kind |-> k, index |-> 0, data |-> <<>>]
Messages ==
    {Simple(k) : k \in SimpleKinds}
      \cup [kind : {"have"}, index : HaveIndices, data : {<<>>}]
      \cup [kind : {"bitfield"}, index : {0}, data : Payloads]

ASSUME GarbageOK ==
    \A m \in Garbage : m \in Messages /\ m.kind \notin {"keep_alive", "too_large"}

VARIABLES
    pc,        \* where the client is
    err,       \* the ClientError it returned, "none" before
    choked, bitfield,   \* fields of PeerClient
    wbuf, out, \* BufStream's write buffer; what it flushed to the peer
    rd,        \* the pending Message::read: its phase, the bytes read_exact
               \* still wants, and the offset in a frame where it started
    msg,       \* the message read_message returned, until it is handled
    hs, hsSent,\* the peer's handshake, and whether it arrived
    sent,      \* every frame the peer sent
    closed,    \* the connection is gone
    cur, off,  \* position of the reader in the frames of sent
    log,       \* history: every message Message::read returned
    base,      \* history: length of log when connect returned
    late, cut  \* history: the bitfield wait timed out; inside a frame

clientVars == <<pc, err, choked, bitfield, msg>>
writeVars  == <<wbuf, out>>
readVars   == <<rd, cur, off, log>>
peerVars   == <<hs, hsSent, sent, closed>>
histVars   == <<base, late, cut>>
vars == <<clientVars, writeVars, readVars, peerVars, histVars>>

Handshaking == {"hs_flush", "hs_len", "hs_rest"}
Connecting  == {"dial", "bitfield"} \cup Handshaking
Connected   == {"ready", "flush", "reading", "got"}
Reading     == {"bitfield", "reading"}
Pcs         == Connecting \cup Connected \cup {"failed"}

Handshakes == [len_ok : BOOLEAN, proto_ok : BOOLEAN, hash_ok : BOOLEAN]
Genuine(h) == h.len_ok /\ h.proto_ok /\ h.hash_ok

FreshRead(o) == [phase |-> "len", left |-> HeaderLen, from |-> o]

Init ==
    /\ pc = "dial" /\ err = "none"
    /\ choked = TRUE /\ bitfield = NewBitfield(NumPieces)
    /\ wbuf = <<>> /\ out = <<>>
    /\ rd = FreshRead(0) /\ msg = Simple("keep_alive")
    /\ hs \in Handshakes /\ hsSent = FALSE
    /\ sent = <<>> /\ closed = FALSE
    /\ cur = 0 /\ off = 0
    /\ log = <<>> /\ base = 0
    /\ late = FALSE /\ cut = FALSE

Fail(e) == pc' = "failed" /\ err' = e

-----------------------------------------------------------------------------
(* connect: TCP, then the handshake.  A failed handshake drops the stream,  *)
(* so its bytes need no position.                                           *)

(* TCP is up; perform_handshake puts its 68 bytes into the write buffer. *)
Dial ==
    /\ pc = "dial"
    /\ pc' = "hs_flush"
    /\ wbuf' = Append(wbuf, "handshake")
    /\ UNCHANGED <<err, choked, bitfield, msg, out, readVars, peerVars, histVars>>

DialError ==
    /\ pc = "dial"
    /\ Fail("connect")
    /\ UNCHANGED <<choked, bitfield, msg, writeVars, readVars, peerVars, histVars>>

DialTimeout ==
    /\ pc = "dial"
    /\ Fail("timeout")
    /\ UNCHANGED <<choked, bitfield, msg, writeVars, readVars, peerVars, histVars>>

HandshakeUnflushed ==   \* mutant: write_all without flush
    /\ pc = "hs_flush"
    /\ pc' = "hs_len"
    /\ UNCHANGED <<err, choked, bitfield, msg, writeVars, readVars, peerVars,
                   histVars>>

HandshakeFlush ==
    /\ pc = "hs_flush"
    /\ pc' = "hs_len"
    /\ out' = out \o wbuf /\ wbuf' = <<>>
    /\ UNCHANGED <<err, choked, bitfield, msg, readVars, peerVars, histVars>>

(* read_handshake: the length byte, then the other 67. *)
HandshakeLen ==
    /\ pc = "hs_len" /\ hsSent
    /\ IF hs.len_ok THEN pc' = "hs_rest" /\ UNCHANGED err
                    ELSE Fail("handshake")
    /\ UNCHANGED <<choked, bitfield, msg, writeVars, readVars, peerVars, histVars>>

HandshakeAnyTorrent(h) == h.proto_ok   \* mutant: info_hash not compared

HandshakeAccepted(h) == h.proto_ok /\ h.hash_ok

HandshakeRest ==
    /\ pc = "hs_rest"
    /\ IF HandshakeAccepted(hs)
         THEN pc' = "bitfield" /\ rd' = FreshRead(off) /\ UNCHANGED err
         ELSE Fail("handshake") /\ UNCHANGED rd
    /\ UNCHANGED <<choked, bitfield, msg, writeVars, cur, off, log,
                   peerVars, histVars>>

HandshakeTimeout ==
    /\ pc \in Handshaking
    /\ Fail("timeout")
    /\ UNCHANGED <<choked, bitfield, msg, writeVars, readVars, peerVars, histVars>>

HandshakeIoError ==
    /\ pc \in Handshaking /\ closed
    /\ Fail("handshake")
    /\ UNCHANGED <<choked, bitfield, msg, writeVars, readVars, peerVars, histVars>>

-----------------------------------------------------------------------------
(* Message::read, one byte at a time, and what its two callers do with the  *)
(* message.                                                                 *)

(* The length field of a frame; the frame is HeaderLen + LengthOf(m) bytes. *)
LengthOf(m) ==
    CASE m.kind = "keep_alive" -> 0
      [] m.kind = "too_large"  -> MaxLen + 1
      [] m.kind \in {"have", "bitfield", "bad_have"} -> 2
      [] OTHER -> 1

Frame == sent[cur + 1]

(* The reader takes one byte of the current frame. *)
Consume ==
    IF off + 1 = HeaderLen + LengthOf(Frame)
      THEN cur' = cur + 1 /\ off' = 0
      ELSE cur' = cur /\ off' = off + 1

(* What the length bytes, and the body, say when the read began at a      *)
(* frame's first byte; any value when it began inside one.                  *)
Lengths == IF rd.from = 0 THEN {LengthOf(Frame)} ELSE 0 .. MaxLen + 1
Bodies  == IF rd.from = 0 THEN {Frame} ELSE Garbage

(* recv_bitfield got a message: read on, or end connect. *)
Received(m) ==
    /\ log' = Append(log, m)
    /\ IF m.kind \in SkippedKinds \cup {"keep_alive"}
         THEN /\ rd' = FreshRead(off')
              /\ UNCHANGED <<pc, bitfield, base>>
         ELSE /\ pc' = "ready"
              /\ bitfield' = IF m.kind = "bitfield"
                               THEN FromBytes(m.data, NumPieces)
                               ELSE NewBitfield(NumPieces)
              /\ base' = Len(log')
              /\ UNCHANGED rd
    /\ UNCHANGED msg

(* read_message returns to the engine; a keep-alive is None, nothing to     *)
(* handle.                                                                  *)
Returned(m) ==
    /\ log' = Append(log, m)
    /\ IF m.kind = "keep_alive" THEN pc' = "ready" /\ UNCHANGED msg
                                ELSE pc' = "got" /\ msg' = m
    /\ UNCHANGED <<rd, bitfield, base>>

Deliver(m) ==
    /\ IF pc = "bitfield" THEN Received(m) ELSE Returned(m)
    /\ UNCHANGED err

ReadFails ==
    /\ Fail("message")
    /\ UNCHANGED <<rd, log, bitfield, base, msg>>

BodyWithoutId(len) == len - 1   \* mutant: the id byte taken as not counted

(* The length field counts the id byte and the payload. *)
BodyBytes(len) == len

(* The length prefix is complete. *)
LengthRead(len) ==
    \/ len = 0 /\ Deliver(Simple("keep_alive"))
    \/ len > MaxLen /\ ReadFails
    \/ /\ len \in 1 .. MaxLen
       /\ rd' = [rd EXCEPT !.phase = "body", !.left = BodyBytes(len)]
       /\ UNCHANGED <<pc, err, log, bitfield, base, msg>>

BodyRead(m) ==
    IF m.kind = "bad_id" THEN ReadFails ELSE Deliver(m)

ReadByte ==
    /\ pc \in Reading /\ cur < Len(sent)
    /\ Consume
    /\ IF rd.left > 1
         THEN /\ rd' = [rd EXCEPT !.left = @ - 1]
              /\ UNCHANGED <<pc, err, log, bitfield, base, msg>>
         ELSE IF rd.phase = "len" THEN \E len \in Lengths : LengthRead(len)
                                  ELSE \E m \in Bodies : BodyRead(m)
    /\ UNCHANGED <<choked, writeVars, peerVars, late, cut>>

(* read_exact meets the end of the stream, or a reset that loses what was   *)
(* still on its way.                                                        *)
ReadEof ==
    /\ pc \in Reading /\ closed
    /\ Fail("message")
    /\ UNCHANGED <<choked, bitfield, msg, writeVars, readVars, peerVars, histVars>>

WaitForBitfield == FALSE /\ UNCHANGED vars   \* mutant: no timeout

(* The bitfield did not come in 10 s: connect succeeds with an empty one,   *)
(* and the pending read is dropped with the bytes it took.                  *)
BitfieldTimeout ==
    /\ pc = "bitfield"
    /\ pc' = "ready"
    /\ bitfield' = NewBitfield(NumPieces)
    /\ base' = Len(log)
    /\ late' = TRUE
    /\ cut' = (cut \/ off # 0)
    /\ UNCHANGED <<err, choked, msg, writeVars, readVars, peerVars>>

-----------------------------------------------------------------------------
(* The methods of a connected client. *)

(* read_message is called: a fresh Message::read where the stream stands. *)
StartRead ==
    /\ pc = "ready"
    /\ pc' = "reading"
    /\ rd' = FreshRead(off)
    /\ UNCHANGED <<err, choked, bitfield, msg, writeVars, cur, off, log,
                   peerVars, histVars>>

ChokeIgnored(m, c) == c /\ m.kind # "unchoke"   \* mutant

ChokedAfter(m, c) == m.kind = "choke" \/ (c /\ m.kind # "unchoke")

BitfieldReplaced(m, bf) ==   \* mutant: a late Bitfield is taken over
    CASE m.kind = "have"     -> SetPiece(bf, m.index)
      [] m.kind = "bitfield" -> FromBytes(m.data, NumPieces)
      [] OTHER -> bf

BitfieldAfter(m, bf) ==
    IF m.kind = "have" THEN SetPiece(bf, m.index) ELSE bf

(* handle_message: every kind but Choke, Unchoke and Have is ignored. *)
HandleMessage ==
    /\ pc = "got"
    /\ pc' = "ready"
    /\ choked' = ChokedAfter(msg, choked)
    /\ bitfield' = BitfieldAfter(msg, bitfield)
    /\ UNCHANGED <<err, msg, writeVars, readVars, peerVars, histVars>>

(* send_interested, send_have, send_request: write_all into the buffer. *)
Send(k) ==
    /\ pc = "ready" /\ Len(out) < MaxOut
    /\ pc' = "flush"
    /\ wbuf' = Append(wbuf, k)
    /\ UNCHANGED <<err, choked, bitfield, msg, out, readVars, peerVars, histVars>>

Flush ==
    /\ pc = "flush"
    /\ pc' = "ready"
    /\ out' = out \o wbuf /\ wbuf' = <<>>
    /\ UNCHANGED <<err, choked, bitfield, msg, readVars, peerVars, histVars>>

FlushError ==
    /\ pc = "flush" /\ closed
    /\ Fail("message")
    /\ UNCHANGED <<choked, bitfield, msg, writeVars, readVars, peerVars, histVars>>

Client ==
    \/ Dial \/ DialError \/ DialTimeout
    \/ HandshakeFlush \/ HandshakeLen \/ HandshakeRest
    \/ HandshakeTimeout \/ HandshakeIoError
    \/ ReadByte \/ ReadEof \/ BitfieldTimeout
    \/ StartRead \/ HandleMessage
    \/ \E k \in OutKinds : Send(k)
    \/ Flush \/ FlushError

-----------------------------------------------------------------------------
(* The peer answers our handshake, sends frames, and may go away.  Once the  *)
(* client has failed, its stream is dropped and nothing reads what comes.    *)

PeerHandshake ==
    /\ ~hsSent /\ ~closed
    /\ \E i \in 1 .. Len(out) : out[i] = "handshake"
    /\ hsSent' = TRUE
    /\ UNCHANGED <<clientVars, writeVars, readVars, hs, sent, closed, histVars>>

PeerSend(m) ==
    /\ hsSent /\ ~closed
    /\ Len(sent) < MaxSent /\ Len(sent) - cur < MaxAhead
    /\ sent' = Append(sent, m)
    /\ UNCHANGED <<clientVars, writeVars, readVars, hs, hsSent, closed, histVars>>

PeerClose ==
    /\ ~closed /\ pc # "dial"
    /\ closed' = TRUE
    /\ UNCHANGED <<clientVars, writeVars, readVars, hs, hsSent, sent, histVars>>

Peer ==
    /\ pc # "failed"
    /\ PeerHandshake \/ (\E m \in Messages : PeerSend(m)) \/ PeerClose

Next == Client \/ Peer

Spec == Init /\ [][Next]_vars

(* tokio's timers: a timeout around a pending future eventually expires. *)
FairSpec ==
    Spec /\ WF_vars(DialTimeout) /\ WF_vars(HandshakeTimeout)
         /\ WF_vars(BitfieldTimeout)

-----------------------------------------------------------------------------
(* Properties. *)

(* Types of every variable, and the position never runs past what was sent. *)
TypeOK ==
    /\ pc \in Pcs
    /\ err \in {"none", "connect", "timeout", "handshake", "message"}
    /\ choked \in BOOLEAN /\ bitfield \in BitfieldType
    /\ wbuf \in Seq(OutKinds \cup {"handshake"})
    /\ out \in Seq(OutKinds \cup {"handshake"})
    /\ rd \in [phase : {"len", "body"}, left : Nat, from : Nat]
    /\ msg \in Messages \cup {Simple("keep_alive")}
    /\ hs \in Handshakes /\ hsSent \in BOOLEAN
    /\ sent \in Seq(Messages) /\ closed \in BOOLEAN
    /\ cur \in 0 .. Len(sent) /\ off \in Nat
    /\ log \in Seq(Messages \cup {Simple("keep_alive")})
    /\ base \in 0 .. Len(log)
    /\ late \in BOOLEAN /\ cut \in BOOLEAN

(* Message::read returns the peer's messages as sent: none lost, repeated,  *)
(* reordered or made up, as long as the bitfield wait was not cut inside a  *)
(* frame.                                                                   *)
FramesInOrder ==
    ~cut => Len(log) <= cur /\ \A k \in 1 .. Len(log) : log[k] = sent[k]

(* The client believes it may request only if, of the choke messages it has *)
(* read, the peer's last one is an unchoke: what recv_bitfield skips can    *)
(* make it too careful, never too bold.                                     *)
UnchokeIsReal ==
    pc \in Connected \ {"got"} /\ ~cut /\ ~choked =>
      \E k \in 1 .. cur :
        /\ sent[k].kind = "unchoke"
        /\ \A j \in k + 1 .. cur : sent[j].kind # "choke"

(* Messages the engine has passed to handle_message. *)
Handled == {k \in base + 1 .. Len(log) : ~(pc = "got" /\ k = Len(log))}

Announced(i) ==
    \/ /\ base > 0 /\ log[base].kind = "bitfield"
       /\ HasPiece(FromBytes(log[base].data, NumPieces), i)
    \/ /\ Stored(bitfield, i)
       /\ \E k \in Handled : log[k].kind = "have" /\ log[k].index = i

(* has_piece says exactly what the peer announced: the Bitfield that ended  *)
(* recv_bitfield, and each later Have that the bitfield has a byte for.     *)
BitfieldExact ==
    pc \in Connected =>
      \A i \in 0 .. NumPieces - 1 : HasPiece(bitfield, i) <=> Announced(i)

(* The client never waits for the peer with bytes the peer is waiting for   *)
(* still in its own write buffer (the hazard handshake.rs:65 names).        *)
NothingUnflushed ==
    pc \in Reading \cup {"hs_len", "hs_rest"} => wbuf = <<>> /\ out # <<>>

(* No message of a peer is acted on before its whole handshake was found to *)
(* be of our protocol and our torrent.                                      *)
SameSwarm == pc \in Connected \cup {"bitfield"} => Genuine(hs)

(* connect returns, whatever the peer does or leaves out. *)
ConnectEnds == <>(pc \notin Connecting)

(* A peer whose bitfield is late keeps a usable connection: the next read   *)
(* starts where one of its frames starts.                                   *)
LatePeerReadable == late /\ pc = "reading" => rd.from = 0

(* A Have that was handled is recorded. *)
HaveRecorded ==
    pc \in Connected =>
      \A k \in Handled :
        log[k].kind = "have" /\ log[k].index < NumPieces
          => HasPiece(bitfield, log[k].index)

=============================================================================
