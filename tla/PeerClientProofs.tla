-------------------------- MODULE PeerClientProofs --------------------------
(***************************************************************************)
(* What holds of a connection for every torrent, every peer and every      *)
(* bound: theorems about PeerClient, with the invariant they rest on.      *)
(***************************************************************************)
EXTENDS PeerClient, TLAPS

-----------------------------------------------------------------------------
(* Lemmas about the data. *)

(* A new bitfield is one, whatever the number of pieces. *)
LEMMA NewBitfieldType == ASSUME NEW n \in Nat PROVE NewBitfield(n) \in BitfieldType
  BY DEF NewBitfield, BitfieldType, Byte

(* Whatever bytes a peer sends make a bitfield. *)
LEMMA FromBytesType ==
    ASSUME NEW d \in Seq(Byte), NEW n \in Nat
    PROVE  FromBytes(d, n) \in BitfieldType
  BY DEF FromBytes, BitfieldType

(* The bytes of a bitfield with piece i set. *)
DataWith(bf, i) == [bf.data EXCEPT ![1 + (i \div 8)] = @ \cup {Bit(i)}]

LEMMA SetPieceStored ==
    ASSUME NEW bf \in BitfieldType, NEW i \in Nat, Stored(bf, i)
    PROVE  /\ SetPiece(bf, i) = [data |-> DataWith(bf, i),
                                 num_pieces |-> bf.num_pieces]
           /\ DataWith(bf, i) \in Seq(Byte)
           /\ Len(DataWith(bf, i)) = Len(bf.data)
<1>1. bf.data \in Seq(Byte) /\ bf.num_pieces \in Nat
      /\ bf = [data |-> bf.data, num_pieces |-> bf.num_pieces]
  BY DEF BitfieldType
<1>2. Bit(i) \in 0 .. 7
  BY DEF Bit
<1>3. 1 + (i \div 8) \in 1 .. Len(bf.data)
  BY <1>1 DEF Stored
<1>4. DataWith(bf, i) \in Seq(Byte) /\ Len(DataWith(bf, i)) = Len(bf.data)
  BY <1>1, <1>2, <1>3 DEF Byte, DataWith
<1>5. SetPiece(bf, i) = [bf EXCEPT !.data = DataWith(bf, i)]
  BY DEF SetPiece, DataWith
<1> QED
  BY <1>1, <1>4, <1>5

LEMMA SetPieceType ==
    ASSUME NEW bf \in BitfieldType, NEW i \in Nat
    PROVE  /\ SetPiece(bf, i) \in BitfieldType
           /\ SetPiece(bf, i).num_pieces = bf.num_pieces
           /\ Len(SetPiece(bf, i).data) = Len(bf.data)
<1>1. CASE ~Stored(bf, i)
  BY <1>1 DEF SetPiece
<1>2. CASE Stored(bf, i)
  BY <1>2, SetPieceStored DEF BitfieldType
<1> QED
  BY <1>1, <1>2

(* set_piece adds the one piece it is told of, if there is a byte for it,   *)
(* and touches no other.                                                    *)
LEMMA SetPieceHas ==
    ASSUME NEW bf \in BitfieldType, NEW i \in Nat, NEW j \in Nat
    PROVE  HasPiece(SetPiece(bf, i), j)
             <=> HasPiece(bf, j) \/ (i = j /\ Stored(bf, i))
<1>1. CASE ~Stored(bf, i)
  BY <1>1 DEF SetPiece
<1>2. CASE Stored(bf, i)
  <2>1. bf.data \in Seq(Byte) /\ bf.num_pieces \in Nat
    BY DEF BitfieldType
  <2>2. Stored(SetPiece(bf, i), j) <=> Stored(bf, j)
    BY SetPieceType DEF Stored
  <2>3. SetPiece(bf, i).data = DataWith(bf, i)
    BY <1>2, SetPieceStored
  <2>4. CASE ~Stored(bf, j)
    BY <1>2, <2>2, <2>4 DEF HasPiece
  <2>5. CASE Stored(bf, j)
    <3>1. 1 + (j \div 8) \in 1 .. Len(bf.data) /\ 1 + (i \div 8) \in 1 .. Len(bf.data)
      BY <1>2, <2>1, <2>5 DEF Stored
    <3>2. i \div 8 = j \div 8 /\ Bit(i) = Bit(j) => i = j
      BY DEF Bit
    <3>3. DataWith(bf, i)[1 + (j \div 8)]
            = IF i \div 8 = j \div 8 THEN bf.data[1 + (j \div 8)] \cup {Bit(i)}
                                     ELSE bf.data[1 + (j \div 8)]
      <4>1. i \div 8 \in Nat /\ j \div 8 \in Nat
        OBVIOUS
      <4>2. \A x \in 1 .. Len(bf.data) :
              DataWith(bf, i)[x] = IF x = 1 + (i \div 8) THEN bf.data[x] \cup {Bit(i)}
                                                         ELSE bf.data[x]
        <5>1. DOMAIN bf.data = 1 .. Len(bf.data)
          BY <2>1
        <5> QED
          BY <5>1, Zenon DEF DataWith
      <4>3. 1 + (j \div 8) = 1 + (i \div 8) <=> i \div 8 = j \div 8
        BY <4>1
      <4> QED
        BY <3>1, <4>2, <4>3
    <3>4. Bit(j) \in DataWith(bf, i)[1 + (j \div 8)]
            <=> Bit(j) \in bf.data[1 + (j \div 8)] \/ i = j
      BY <3>2, <3>3
    <3> QED
      BY <1>2, <2>2, <2>3, <2>5, <3>4 DEF HasPiece
  <2> QED
    BY <2>4, <2>5
<1> QED
  BY <1>1, <1>2

(* Every message is a record of the three fields, and what its length field *)
(* says.                                                                    *)
LEMMA MessageType ==
    ASSUME NEW m \in Messages \cup {Simple("keep_alive")}
    PROVE  /\ m.data \in Seq(Byte) /\ m.index \in Nat
           /\ LengthOf(m) \in Nat
           /\ LengthOf(m) = 0 <=> m = Simple("keep_alive")
           /\ LengthOf(m) > MaxLen <=> m.kind = "too_large"
<1>1. m.data \in Seq(Byte) /\ m.index \in Nat
  <2>1. <<>> \in Seq(Byte) /\ 0 \in Nat
    OBVIOUS
  <2>2. CASE \E k : m = Simple(k)
    BY <2>1, <2>2 DEF Simple
  <2>3. CASE m \in [kind : {"have"}, index : HaveIndices, data : {<<>>}]
    BY <2>1, <2>3, ConstantsOK
  <2>4. CASE m \in [kind : {"bitfield"}, index : {0}, data : Payloads]
    BY <2>1, <2>4, ConstantsOK
  <2> QED
    BY <2>2, <2>3, <2>4 DEF Messages
<1>2. m.kind = "keep_alive" => m = Simple("keep_alive")
  BY DEF Messages, Simple
<1>3. MaxLen \in Nat /\ MaxLen >= 2
  BY ConstantsOK
<1>4. LengthOf(m) \in Nat /\ (LengthOf(m) = 0 <=> m.kind = "keep_alive")
  BY <1>3 DEF LengthOf
<1>5. LengthOf(m) > MaxLen <=> m.kind = "too_large"
  BY <1>3 DEF LengthOf
<1>6. Simple("keep_alive").kind = "keep_alive"
  BY DEF Simple
<1> QED
  BY <1>1, <1>2, <1>4, <1>5, <1>6

-----------------------------------------------------------------------------
(* Type correctness. *)

LEMMA InitType == Init => TypeOK
<1> SUFFICES ASSUME Init PROVE TypeOK
  OBVIOUS
<1>1. bitfield \in BitfieldType
  BY ConstantsOK, NewBitfieldType DEF Init
<1>2. rd \in [phase : {"len", "body"}, left : Nat, from : Nat]
  BY ConstantsOK DEF Init, FreshRead
<1>3. /\ wbuf \in Seq(OutKinds \cup {"handshake"}) /\ out \in Seq(OutKinds \cup {"handshake"})
      /\ sent \in Seq(Messages) /\ log \in Seq(Messages \cup {Simple("keep_alive")})
      /\ Len(sent) = 0 /\ Len(log) = 0
  BY DEF Init
<1>4. cur \in 0 .. Len(sent) /\ off \in Nat /\ base \in 0 .. Len(log)
  BY <1>3 DEF Init
<1> QED
  BY <1>1, <1>2, <1>3, <1>4 DEF Init, TypeOK, Pcs, Connecting

(* What a read takes, and what it returns, are messages. *)
LEMMA ReadTypes ==
    ASSUME TypeOK, cur < Len(sent)
    PROVE  /\ Frame \in Messages
           /\ Bodies \subseteq Messages
           /\ Lengths \subseteq Nat
<1>1. Frame \in Messages
  BY DEF TypeOK, Frame
<1>2. LengthOf(Frame) \in Nat
  BY <1>1, MessageType
<1> QED
  BY <1>1, <1>2, GarbageOK, ConstantsOK DEF Bodies, Lengths

(* A step that ends in a message of the peer keeps the types. *)
LEMMA DeliverType ==
    ASSUME TypeOK, NEW m \in Messages \cup {Simple("keep_alive")},
           pc \in Reading, Consume, cur < Len(sent), Deliver(m),
           UNCHANGED <<choked, writeVars, peerVars, late, cut>>
    PROVE  TypeOK'
<1>1. cur' \in 0 .. Len(sent') /\ off' \in Nat
  <2>1. cur \in 0 .. Len(sent) /\ off \in Nat /\ Len(sent) \in Nat
    BY DEF TypeOK
  <2> QED
    BY <2>1 DEF Consume, peerVars
<1>2. log' = Append(log, m) /\ err' = err
  BY DEF Deliver, Received, Returned
<1>3. log' \in Seq(Messages \cup {Simple("keep_alive")})
      /\ Len(log') = Len(log) + 1 /\ Len(log) \in Nat
  BY <1>2 DEF TypeOK
<1>4. CASE pc = "bitfield"
  <2>1. rd' \in [phase : {"len", "body"}, left : Nat, from : Nat]
    BY <1>1, <1>4, ConstantsOK DEF Deliver, Received, FreshRead, TypeOK
  <2>2. bitfield' \in BitfieldType
    BY <1>4, ConstantsOK, MessageType, FromBytesType, NewBitfieldType
       DEF Deliver, Received, TypeOK
  <2>3. pc' \in Pcs /\ base' \in 0 .. Len(log') /\ msg' = msg
    BY <1>3, <1>4 DEF Deliver, Received, TypeOK, Pcs, Connected
  <2> QED
    BY <1>1, <1>2, <1>3, <2>1, <2>2, <2>3 DEF TypeOK, writeVars, peerVars
<1>5. CASE pc # "bitfield"
  <2>1. pc' \in Pcs /\ msg' \in Messages \cup {Simple("keep_alive")}
    BY <1>5 DEF Deliver, Returned, TypeOK, Pcs, Connected
  <2>2. rd' = rd /\ bitfield' = bitfield /\ base' = base
    BY <1>5 DEF Deliver, Returned
  <2>3. base' \in 0 .. Len(log')
    BY <1>3, <2>2 DEF TypeOK
  <2> QED
    BY <1>1, <1>2, <1>3, <2>1, <2>2, <2>3 DEF TypeOK, writeVars, peerVars
<1> QED
  BY <1>4, <1>5

LEMMA ReadFailsType ==
    ASSUME TypeOK, Consume, cur < Len(sent), ReadFails,
           UNCHANGED <<choked, writeVars, peerVars, late, cut>>
    PROVE  TypeOK'
<1>1. cur \in 0 .. Len(sent) /\ off \in Nat /\ Len(sent) \in Nat
  BY DEF TypeOK
<1>2. cur' \in 0 .. Len(sent') /\ off' \in Nat
  BY <1>1 DEF Consume, peerVars
<1> QED
  BY <1>2 DEF TypeOK, ReadFails, Fail, Pcs, writeVars, peerVars

LEMMA ReadByteType == ASSUME TypeOK, ReadByte PROVE TypeOK'
<1> USE DEF ReadByte
<1>1. cur \in 0 .. Len(sent) /\ off \in Nat /\ Len(sent) \in Nat
  BY DEF TypeOK
<1>2. cur' \in 0 .. Len(sent') /\ off' \in Nat
  BY <1>1 DEF Consume, peerVars
<1>3. CASE rd.left > 1
  <2>1. rd' \in [phase : {"len", "body"}, left : Nat, from : Nat]
    BY SMTT(20), <1>3 DEF TypeOK
  <2> QED
    BY <1>2, <1>3, <2>1 DEF TypeOK, writeVars, peerVars
<1>4. ASSUME NEW len \in Lengths, LengthRead(len) PROVE TypeOK'
  <2>1. CASE len = 0 /\ Deliver(Simple("keep_alive"))
    BY <2>1, DeliverType
  <2>2. CASE len > MaxLen /\ ReadFails
    BY <2>2, ReadFailsType
  <2>3. CASE /\ len \in 1 .. MaxLen
             /\ rd' = [rd EXCEPT !.phase = "body", !.left = BodyBytes(len)]
             /\ UNCHANGED <<pc, err, log, bitfield, base, msg>>
    <3>1. rd' \in [phase : {"len", "body"}, left : Nat, from : Nat]
      <4>1. rd \in [phase : {"len", "body"}, left : Nat, from : Nat]
        BY DEF TypeOK
      <4>2. BodyBytes(len) \in Nat
        BY <2>3, ConstantsOK DEF BodyBytes
      <4> QED
        BY <2>3, <4>1, <4>2
    <3> QED
      BY <1>2, <2>3, <3>1 DEF TypeOK, writeVars, peerVars
  <2> QED
    BY <1>4, <2>1, <2>2, <2>3 DEF LengthRead
<1>5. ASSUME NEW m \in Bodies, BodyRead(m) PROVE TypeOK'
  BY <1>5, ReadTypes, DeliverType, ReadFailsType DEF BodyRead
<1> QED
  BY <1>3, <1>4, <1>5

LEMMA NextType == TypeOK /\ [Next]_vars => TypeOK'
<1> SUFFICES ASSUME TypeOK, [Next]_vars PROVE TypeOK'
  OBVIOUS
<1> USE DEF writeVars, readVars, peerVars, histVars, clientVars
<1>0. Pcs = {"dial", "bitfield", "hs_flush", "hs_len", "hs_rest", "ready",
             "flush", "reading", "got", "failed"}
  BY DEF Pcs, Connecting, Handshaking, Connected
<1>1. CASE Dial
  <2>1. wbuf' \in Seq(OutKinds \cup {"handshake"})
    BY <1>1 DEF Dial, TypeOK
  <2> QED
    BY <1>0, <1>1, <2>1 DEF Dial, TypeOK
<1>2. CASE DialError \/ DialTimeout \/ HandshakeTimeout \/ HandshakeIoError
           \/ ReadEof \/ FlushError
  <2>1. /\ pc' = "failed" /\ err' \in {"connect", "timeout", "handshake", "message"}
        /\ UNCHANGED <<choked, bitfield, msg, writeVars, readVars, peerVars, histVars>>
    BY <1>2 DEF DialError, DialTimeout, HandshakeTimeout, HandshakeIoError,
                ReadEof, FlushError, Fail
  <2> QED
    BY <1>0, <2>1 DEF TypeOK
<1>3. CASE HandshakeFlush \/ Flush
  <2>1. /\ out' \in Seq(OutKinds \cup {"handshake"})
        /\ wbuf' \in Seq(OutKinds \cup {"handshake"})
    <3> DEFINE S == OutKinds \cup {"handshake"}
    <3>1. wbuf \in Seq(S) /\ out \in Seq(S)
      BY DEF TypeOK
    <3>2. out' = out \o wbuf /\ wbuf' = <<>>
      BY <1>3 DEF HandshakeFlush, Flush
    <3> HIDE DEF S
    <3>3. out' \in Seq(S) /\ wbuf' \in Seq(S)
      BY <3>1, <3>2
    <3> QED
      BY <3>3 DEF S
  <2> QED
    BY <1>0, <1>3, <2>1 DEF HandshakeFlush, Flush, TypeOK
<1>4. CASE HandshakeLen
  BY <1>0, <1>4 DEF HandshakeLen, Fail, TypeOK
<1>5. CASE HandshakeRest
  <2>1. rd' \in [phase : {"len", "body"}, left : Nat, from : Nat]
    BY <1>5, ConstantsOK DEF HandshakeRest, FreshRead, TypeOK
  <2> QED
    BY <1>0, <1>5, <2>1 DEF HandshakeRest, Fail, TypeOK
<1>6. CASE ReadByte
  BY <1>6, ReadByteType
<1>7. CASE BitfieldTimeout
  <2>1. bitfield' \in BitfieldType /\ base' \in 0 .. Len(log') /\ cut' \in BOOLEAN
    BY <1>7, ConstantsOK, NewBitfieldType DEF BitfieldTimeout, TypeOK
  <2> QED
    BY <1>0, <1>7, <2>1 DEF BitfieldTimeout, TypeOK
<1>8. CASE StartRead
  <2>1. rd' \in [phase : {"len", "body"}, left : Nat, from : Nat]
    BY <1>8, ConstantsOK DEF StartRead, FreshRead, TypeOK
  <2> QED
    BY <1>0, <1>8, <2>1 DEF StartRead, TypeOK
<1>9. CASE HandleMessage
  <2>1. msg.index \in Nat
    BY MessageType DEF TypeOK
  <2>2. bitfield' \in BitfieldType
    BY <1>9, <2>1, SetPieceType DEF HandleMessage, BitfieldAfter, TypeOK
  <2>3. choked' \in BOOLEAN
    BY <1>9 DEF HandleMessage, ChokedAfter
  <2> QED
    BY <1>0, <1>9, <2>2, <2>3 DEF HandleMessage, TypeOK
<1>10. ASSUME NEW k \in OutKinds, Send(k) PROVE TypeOK'
  BY <1>0, <1>10 DEF Send, TypeOK
<1>11. CASE Peer
  <2>1. CASE PeerHandshake \/ PeerClose
    BY <2>1 DEF PeerHandshake, PeerClose, TypeOK
  <2>2. ASSUME NEW m \in Messages, PeerSend(m) PROVE TypeOK'
    <3>1. sent' \in Seq(Messages) /\ Len(sent') = Len(sent) + 1 /\ Len(sent) \in Nat
      BY <2>2 DEF PeerSend, TypeOK
    <3>2. cur' \in 0 .. Len(sent')
      BY <2>2, <3>1 DEF PeerSend, TypeOK
    <3> QED
      BY <2>2, <3>1, <3>2 DEF PeerSend, TypeOK
  <2> QED
    BY <1>11, <2>1, <2>2 DEF Peer
<1>12. CASE UNCHANGED vars
  BY <1>12 DEF vars, TypeOK
<1> QED
  BY <1>1, <1>2, <1>3, <1>4, <1>5, <1>6, <1>7, <1>8, <1>9, <1>10, <1>11, <1>12
     DEF Next, Client

(* Every variable keeps its type, the stored bitfield is one whatever the   *)
(* peer sent, and the reader never runs past what was sent.                 *)
THEOREM TypeCorrect == Spec => []TypeOK
  BY InitType, NextType, PTL DEF Spec

-----------------------------------------------------------------------------
(* The order of frames. *)

(* Where the reader stands: at the end of the last frame it returned, plus  *)
(* what the pending read took of the next one.                              *)
FramePosition ==
  ~cut =>
    /\ Len(log) <= cur /\ \A k \in 1 .. Len(log) : log[k] = sent[k]
    /\ pc # "failed" => cur = Len(log)
    /\ pc \notin Reading \cup {"failed"} => off = 0
    /\ pc \in Reading =>
         /\ rd.from = 0
         /\ rd.phase = "len" =>
              rd.left \in 1 .. HeaderLen /\ off = HeaderLen - rd.left
         /\ rd.phase = "body" =>
              /\ cur < Len(sent)
              /\ LengthOf(Frame) \in 1 .. MaxLen
              /\ rd.left \in 1 .. LengthOf(Frame)
              /\ off = HeaderLen + LengthOf(Frame) - rd.left

LEMMA InitPosition == Init => FramePosition
  BY DEF Init, FramePosition, Reading

(* A frame that was read whole is the next one of sent.                     *)
LEMMA DeliverPosition ==
    ASSUME TypeOK, FramePosition, ~cut, cut' = cut, sent' = sent,
           pc \in Reading, cur < Len(sent),
           cur' = cur + 1, off' = 0, Deliver(Frame)
    PROVE  FramePosition'
<1>1. log' = Append(log, Frame)
  BY DEF Deliver, Received, Returned
<1>2. cur = Len(log) /\ \A k \in 1 .. Len(log) : log[k] = sent[k]
  BY DEF FramePosition, Reading
<1>3. Len(log) \in Nat /\ Len(log') = Len(log) + 1
      /\ \A k \in 1 .. Len(log') :
           log'[k] = IF k = Len(log) + 1 THEN Frame ELSE log[k]
  BY <1>1 DEF TypeOK
<1>4. Len(log') = cur' /\ \A k \in 1 .. Len(log') : log'[k] = sent'[k]
  BY <1>2, <1>3 DEF Frame
<1>5. CASE pc = "bitfield"
  <2>1. pc' \in {"bitfield", "ready"}
    BY <1>5 DEF Deliver, Received
  <2>2. pc' = "bitfield" => rd' = [phase |-> "len", left |-> HeaderLen, from |-> 0]
    BY <1>5 DEF Deliver, Received, FreshRead
  <2> QED
    BY <1>4, <2>1, <2>2, ConstantsOK DEF FramePosition, Reading
<1>6. CASE pc # "bitfield"
  <2>1. pc' \in {"ready", "got"}
    BY <1>6 DEF Deliver, Returned
  <2> QED
    BY <1>4, <2>1 DEF FramePosition, Reading
<1> QED
  BY <1>5, <1>6

(* A read that fails may have gone on to the next frame, but returns none.  *)
LEMMA ReadFailsPosition ==
    ASSUME TypeOK, FramePosition, ~cut, cut' = cut, sent' = sent,
           Consume, ReadFails
    PROVE  FramePosition'
<1>1. cur \in Nat /\ (cur' = cur \/ cur' = cur + 1) /\ Len(log) \in Nat
  BY DEF Consume, TypeOK
<1> QED
  BY <1>1 DEF ReadFails, Fail, FramePosition, Reading

LEMMA ReadBytePosition ==
    ASSUME TypeOK, FramePosition, ReadByte PROVE FramePosition'
<1> SUFFICES ASSUME ~cut PROVE FramePosition'
  BY DEF ReadByte, FramePosition
<1>1. /\ cut' = cut /\ sent' = sent /\ pc \in Reading /\ cur < Len(sent) /\ Consume
  BY DEF ReadByte, peerVars
<1>2. /\ cur \in Nat /\ off \in Nat /\ Len(sent) \in Nat /\ HeaderLen \in Nat \ {0}
      /\ rd \in [phase : {"len", "body"}, left : Nat, from : Nat]
      /\ MaxLen \in Nat
  BY ConstantsOK DEF TypeOK
<1>3. Frame \in Messages /\ LengthOf(Frame) \in Nat
  BY <1>1, ReadTypes, MessageType
<1>4. rd.from = 0 /\ cur = Len(log) /\ Lengths = {LengthOf(Frame)} /\ Bodies = {Frame}
  BY <1>1 DEF FramePosition, Reading, Lengths, Bodies
<1>5. CASE rd.phase = "len"
  <2>1. rd.left \in 1 .. HeaderLen /\ off = HeaderLen - rd.left
    BY <1>1, <1>5 DEF FramePosition
  <2>2. CASE rd.left > 1
    <3>1. cur' = cur /\ off' = off + 1
      BY <1>1, <1>2, <1>3, <2>1, <2>2 DEF Consume
    <3>2. rd' = [rd EXCEPT !.left = @ - 1] /\ UNCHANGED <<pc, log>>
      BY <2>2 DEF ReadByte
    <3>3. /\ rd'.from = 0 /\ rd'.phase = "len"
          /\ rd'.left = rd.left - 1
      BY <1>2, <1>4, <1>5, <3>2
    <3> QED
      BY <1>1, <1>2, <2>1, <2>2, <3>1, <3>2, <3>3 DEF FramePosition, Reading
  <2>3. CASE rd.left = 1
    <3>1. off + 1 = HeaderLen
      BY <1>2, <2>1, <2>3
    <3>2. LengthRead(LengthOf(Frame))
      BY <1>4, <1>5, <2>3 DEF ReadByte
    <3>3. CASE LengthOf(Frame) = 0 /\ Deliver(Simple("keep_alive"))
      <4>1. Frame = Simple("keep_alive")
        BY <1>3, <3>3, MessageType
      <4>2. cur' = cur + 1 /\ off' = 0
        BY <1>1, <1>2, <3>1, <3>3 DEF Consume
      <4> QED
        BY <1>1, <3>3, <4>1, <4>2, DeliverPosition
    <3>4. CASE ReadFails
      BY <1>1, <3>4, ReadFailsPosition
    <3>5. CASE /\ LengthOf(Frame) \in 1 .. MaxLen
               /\ rd' = [rd EXCEPT !.phase = "body", !.left = LengthOf(Frame)]
               /\ UNCHANGED <<pc, err, log, bitfield, base, msg>>
      <4>1. cur' = cur /\ off' = HeaderLen
        BY <1>1, <1>2, <3>1, <3>5 DEF Consume
      <4>2. rd'.from = 0 /\ rd'.phase = "body" /\ rd'.left = LengthOf(Frame)
        BY <1>2, <1>4, <3>5
      <4>3. Frame' = Frame
        BY <1>1, <4>1 DEF Frame
      <4>4. LengthOf(Frame') = LengthOf(Frame)
        BY <4>3
      <4> QED
        BY <1>1, <1>2, <1>4, <3>5, <4>1, <4>2, <4>4 DEF FramePosition, Reading
    <3> QED
      BY <3>2, <3>3, <3>4, <3>5 DEF LengthRead, BodyBytes
  <2> QED
    BY <1>2, <2>1, <2>2, <2>3
<1>6. CASE rd.phase = "body"
  <2>1. /\ LengthOf(Frame) \in 1 .. MaxLen
        /\ rd.left \in 1 .. LengthOf(Frame)
        /\ off = HeaderLen + LengthOf(Frame) - rd.left
    BY <1>1, <1>6 DEF FramePosition
  <2>2. CASE rd.left > 1
    <3>1. cur' = cur /\ off' = off + 1
      BY <1>1, <1>2, <1>3, <2>1, <2>2 DEF Consume
    <3>2. rd' = [rd EXCEPT !.left = @ - 1] /\ UNCHANGED <<pc, log>>
      BY <2>2 DEF ReadByte
    <3>3. rd'.from = 0 /\ rd'.phase = "body" /\ rd'.left = rd.left - 1
      BY <1>2, <1>4, <1>6, <3>2
    <3>4. Frame' = Frame
      BY <1>1, <3>1 DEF Frame
    <3>5. LengthOf(Frame') = LengthOf(Frame)
      BY <3>4
    <3> QED
      BY <1>1, <1>2, <1>4, <2>1, <2>2, <3>1, <3>2, <3>3, <3>5
         DEF FramePosition, Reading
  <2>3. CASE rd.left = 1
    <3>1. cur' = cur + 1 /\ off' = 0
      BY <1>1, <1>2, <1>3, <2>1, <2>3 DEF Consume
    <3>2. BodyRead(Frame)
      BY <1>4, <1>6, <2>3 DEF ReadByte
    <3> QED
      BY <1>1, <3>1, <3>2, DeliverPosition, ReadFailsPosition DEF BodyRead
  <2> QED
    BY <1>2, <2>1, <2>2, <2>3
<1> QED
  BY <1>2, <1>5, <1>6

LEMMA NextPosition == TypeOK /\ FramePosition /\ [Next]_vars => FramePosition'
<1> SUFFICES ASSUME TypeOK, FramePosition, [Next]_vars PROVE FramePosition'
  OBVIOUS
<1> USE DEF readVars, peerVars, histVars
<1>1. CASE Dial \/ HandshakeFlush \/ HandshakeLen
  BY <1>1 DEF Dial, HandshakeFlush, HandshakeLen, Fail, FramePosition, Reading
<1>2. CASE DialError \/ DialTimeout \/ HandshakeTimeout \/ HandshakeIoError
           \/ ReadEof \/ FlushError
  BY <1>2 DEF DialError, DialTimeout, HandshakeTimeout, HandshakeIoError,
              ReadEof, FlushError, Fail, FramePosition, Reading
<1>3. CASE HandshakeRest
  BY <1>3, ConstantsOK DEF HandshakeRest, FreshRead, Fail, FramePosition, Reading
<1>4. CASE ReadByte
  BY <1>4, ReadBytePosition
<1>5. CASE BitfieldTimeout
  BY <1>5 DEF BitfieldTimeout, FramePosition, Reading
<1>6. CASE StartRead
  BY <1>6, ConstantsOK DEF StartRead, FreshRead, FramePosition, Reading
<1>7. CASE HandleMessage \/ Flush
  BY <1>7 DEF HandleMessage, Flush, FramePosition, Reading
<1>8. ASSUME NEW k \in OutKinds, Send(k) PROVE FramePosition'
  BY <1>8 DEF Send, FramePosition, Reading
<1>9. CASE Peer
  <2>1. CASE PeerHandshake \/ PeerClose
    BY <2>1 DEF PeerHandshake, PeerClose, FramePosition, Frame, clientVars
  <2>2. ASSUME NEW m \in Messages, PeerSend(m) PROVE FramePosition'
    <3>1. /\ Len(sent) \in Nat /\ Len(sent') = Len(sent) + 1
          /\ \A k \in 1 .. Len(sent) : sent'[k] = sent[k]
      BY <2>2 DEF PeerSend, TypeOK
    <3>2. /\ UNCHANGED <<pc, cur, off, rd, log, cut>>
          /\ cur \in Nat /\ cur <= Len(sent) /\ Len(log) \in Nat
      BY <2>2 DEF PeerSend, clientVars, TypeOK
    <3>3. cur < Len(sent) => LengthOf(Frame') = LengthOf(Frame)
      <4>1. cur < Len(sent) => Frame' = Frame
        BY <3>1, <3>2 DEF Frame
      <4> QED
        BY <4>1
    <3> QED
      BY <3>1, <3>2, <3>3 DEF FramePosition
  <2> QED
    BY <1>9, <2>1, <2>2 DEF Peer
<1>10. CASE UNCHANGED vars
  BY <1>10 DEF vars, clientVars, FramePosition, Frame
<1> QED
  BY <1>1, <1>2, <1>3, <1>4, <1>5, <1>6, <1>7, <1>8, <1>9, <1>10 DEF Next, Client

(* Message::read loses, repeats, reorders and invents nothing, for every    *)
(* length prefix, every longest body and every peer, unless the bitfield    *)
(* wait was cut inside a frame.                                             *)
THEOREM FramesCorrect == Spec => []FramesInOrder
<1>1. FramePosition => FramesInOrder
  BY DEF FramePosition, FramesInOrder
<1> QED
  BY <1>1, InitType, NextType, InitPosition, NextPosition, PTL DEF Spec

-----------------------------------------------------------------------------
(* Choking, as the log tells it. *)

(* After n messages, the last of the choke and unchoke ones is an unchoke.  *)
UnchokedIn(n) ==
    \E k \in 1 .. n :
      log[k].kind = "unchoke" /\ \A j \in k + 1 .. n : log[j].kind # "choke"

(* choked is what the messages handled so far say; the one just read is the *)
(* last of the log.                                                         *)
ChokeLogged ==
    /\ pc \in Connecting => choked
    /\ pc \in Connected \ {"got"} /\ ~choked => UnchokedIn(Len(log))
    /\ pc = "got" =>
         /\ Len(log) > base /\ msg = log[Len(log)]
         /\ ~choked => UnchokedIn(Len(log) - 1)

(* A message that is delivered keeps to one of these.                       *)
LEMMA DeliverChoke ==
    ASSUME TypeOK, ChokeLogged, NEW m \in Messages \cup {Simple("keep_alive")},
           pc \in Reading, Deliver(m), choked' = choked
    PROVE  ChokeLogged'
<1>1. log' = Append(log, m) /\ Len(log) \in Nat /\ base \in 0 .. Len(log)
  BY DEF Deliver, Received, Returned, TypeOK
<1>2. /\ Len(log') = Len(log) + 1 /\ log'[Len(log')] = m
      /\ \A k \in 1 .. Len(log) : log'[k] = log[k]
  BY <1>1 DEF TypeOK
<1>3. CASE pc = "bitfield"
  <2>1. choked' /\ pc' \in {"bitfield", "ready"}
    BY <1>3 DEF ChokeLogged, Connecting, Deliver, Received
  <2> QED
    BY <2>1 DEF ChokeLogged, Connecting, Connected, Handshaking
<1>4. CASE pc = "reading"
  <2>1. ~choked => UnchokedIn(Len(log))
    BY <1>4 DEF ChokeLogged, Connected
  <2>2. base' = base /\ choked' = choked
    BY <1>4 DEF Deliver, Returned
  <2>3. CASE m.kind = "keep_alive"
    <3>1. pc' = "ready"
      BY <1>4, <2>3 DEF Deliver, Returned
    <3>2. ~choked => UnchokedIn(Len(log))'
      BY <1>1, <1>2, <2>1, <2>3, SMTT(20) DEF UnchokedIn
    <3> QED
      BY <2>2, <3>1, <3>2 DEF ChokeLogged, Connecting, Connected, Handshaking
  <2>4. CASE m.kind # "keep_alive"
    <3>1. pc' = "got" /\ msg' = m
      BY <1>4, <2>4 DEF Deliver, Returned
    <3>2. ~choked => UnchokedIn(Len(log) - 1)'
      <4>1. Len(log') - 1 = Len(log)
        BY <1>1, <1>2
      <4>2. ~choked => \E k \in 1 .. Len(log) :
              log'[k].kind = "unchoke"
              /\ \A j \in k + 1 .. Len(log) : log'[j].kind # "choke"
        BY <1>1, <1>2, <2>1 DEF UnchokedIn
      <4> QED
        BY <4>1, <4>2 DEF UnchokedIn
    <3>3. Len(log') > base'
      BY <1>1, <1>2, <2>2
    <3> QED
      BY <1>2, <2>2, <3>1, <3>2, <3>3
         DEF ChokeLogged, Connecting, Connected, Handshaking
  <2> QED
    BY <2>3, <2>4
<1> QED
  BY <1>3, <1>4 DEF Reading

(* handle_message moves the flag with the message at the end of the log.    *)
LEMMA HandleChoke ==
    ASSUME TypeOK, ChokeLogged, HandleMessage PROVE ChokeLogged'
<1>1. /\ pc = "got" /\ pc' = "ready" /\ log' = log
      /\ choked' = (msg.kind = "choke" \/ (choked /\ msg.kind # "unchoke"))
  BY DEF HandleMessage, ChokedAfter, readVars
<1>2. /\ Len(log) \in Nat /\ Len(log) > 0 /\ msg = log[Len(log)]
      /\ ~choked => UnchokedIn(Len(log) - 1)
  BY <1>1 DEF ChokeLogged, TypeOK
<1>3. ASSUME ~choked' PROVE UnchokedIn(Len(log))
  <2>1. CASE msg.kind = "unchoke"
    BY <1>2, <2>1 DEF UnchokedIn
  <2>2. CASE msg.kind # "unchoke"
    <3>1. msg.kind # "choke" /\ ~choked
      BY <1>1, <1>3, <2>2
    <3>2. PICK k \in 1 .. Len(log) - 1 :
            log[k].kind = "unchoke"
            /\ \A j \in k + 1 .. Len(log) - 1 : log[j].kind # "choke"
      BY <1>2, <3>1 DEF UnchokedIn
    <3>3. \A j \in k + 1 .. Len(log) : log[j].kind # "choke"
      BY <1>2, <3>1, <3>2
    <3> QED
      BY <1>2, <3>2, <3>3 DEF UnchokedIn
  <2> QED
    BY <2>1, <2>2
<1>4. ~choked' => UnchokedIn(Len(log))'
  BY <1>1, <1>3 DEF UnchokedIn
<1> QED
  BY <1>1, <1>4 DEF ChokeLogged, Connecting, Connected, Handshaking

LEMMA InitChoke == Init => ChokeLogged
  BY DEF Init, ChokeLogged, Connected

(* A byte taken without completing a message touches none of this.          *)
LEMMA ReadByteCases ==
    ASSUME TypeOK, ReadByte
    PROVE  \/ UNCHANGED <<pc, err, log, bitfield, base, msg>>
           \/ ReadFails
           \/ \E m \in Messages \cup {Simple("keep_alive")} : Deliver(m)
<1>1. CASE rd.left > 1
  BY <1>1 DEF ReadByte
<1>2. ASSUME NEW len \in Lengths, LengthRead(len)
      PROVE  \/ UNCHANGED <<pc, err, log, bitfield, base, msg>>
             \/ ReadFails
             \/ \E m \in Messages \cup {Simple("keep_alive")} : Deliver(m)
  BY <1>2 DEF LengthRead
<1>3. ASSUME NEW m \in Bodies, BodyRead(m)
      PROVE  ReadFails \/ \E n \in Messages \cup {Simple("keep_alive")} : Deliver(n)
  BY <1>3, ReadTypes DEF BodyRead, ReadByte
<1> QED
  BY <1>1, <1>2, <1>3 DEF ReadByte

LEMMA NextChoke == TypeOK /\ ChokeLogged /\ [Next]_vars => ChokeLogged'
<1> SUFFICES ASSUME TypeOK, ChokeLogged, [Next]_vars PROVE ChokeLogged'
  OBVIOUS
<1> USE DEF Connecting, Connected, Handshaking
<1>1. CASE ReadByte
  <2>1. choked' = choked /\ pc \in Reading
    BY <1>1 DEF ReadByte
  <2>2. CASE UNCHANGED <<pc, err, log, bitfield, base, msg>>
    BY <2>1, <2>2 DEF ChokeLogged, UnchokedIn
  <2>3. CASE ReadFails
    BY <2>3 DEF ReadFails, Fail, ChokeLogged
  <2> QED
    BY <1>1, <2>1, <2>2, <2>3, ReadByteCases, DeliverChoke
<1>2. CASE HandleMessage
  BY <1>2, HandleChoke
<1>3. CASE UNCHANGED <<choked, log, base, msg>> /\ pc # "got" /\ pc' # "got"
           /\ (pc' \in Connecting => pc \in Connecting)
           /\ (pc' \in Connected => pc \in Connected \cup {"bitfield"})
  BY <1>3 DEF ChokeLogged, UnchokedIn
<1>4. CASE BitfieldTimeout
  BY <1>4 DEF BitfieldTimeout, ChokeLogged, writeVars, peerVars
<1>5. CASE \/ Dial \/ DialError \/ DialTimeout \/ HandshakeFlush \/ HandshakeLen
           \/ HandshakeRest \/ HandshakeTimeout \/ HandshakeIoError
           \/ ReadEof \/ StartRead \/ Flush \/ FlushError
           \/ \E k \in OutKinds : Send(k)
  <2> USE DEF readVars, histVars, Fail
  <2>1. CASE Dial \/ DialError \/ DialTimeout
    BY <1>3, <2>1 DEF Dial, DialError, DialTimeout
  <2>2. CASE HandshakeFlush \/ HandshakeLen \/ HandshakeRest
             \/ HandshakeTimeout \/ HandshakeIoError
    BY <1>3, <2>2 DEF HandshakeFlush, HandshakeLen, HandshakeRest,
                      HandshakeTimeout, HandshakeIoError
  <2>3. CASE ReadEof \/ FlushError
    BY <1>3, <2>3 DEF ReadEof, FlushError, Reading
  <2>4. CASE StartRead \/ Flush \/ \E k \in OutKinds : Send(k)
    BY <1>3, <2>4 DEF StartRead, Flush, Send
  <2> QED
    BY <1>5, <2>1, <2>2, <2>3, <2>4
<1>6. CASE Peer \/ UNCHANGED vars
  <2>1. UNCHANGED <<clientVars, readVars, histVars>>
    BY <1>6 DEF Peer, PeerHandshake, PeerSend, PeerClose, vars
  <2> QED
    BY <2>1 DEF ChokeLogged, UnchokedIn, clientVars, readVars, histVars
<1> QED
  BY <1>1, <1>2, <1>4, <1>5, <1>6 DEF Next, Client

(* A client that believes it is unchoked was unchoked by this peer, after   *)
(* the last choke the client has read.                                      *)
THEOREM UnchokeCorrect == Spec => []UnchokeIsReal
<1>1. TypeOK /\ FramePosition /\ ChokeLogged => UnchokeIsReal
  <2> SUFFICES ASSUME TypeOK, FramePosition, ChokeLogged,
                      pc \in Connected \ {"got"}, ~cut, ~choked
               PROVE  \E k \in 1 .. cur :
                        /\ sent[k].kind = "unchoke"
                        /\ \A j \in k + 1 .. cur : sent[j].kind # "choke"
    BY DEF UnchokeIsReal
  <2>1. cur = Len(log) /\ \A k \in 1 .. Len(log) : log[k] = sent[k]
    BY DEF FramePosition, Connected
  <2>2. UnchokedIn(Len(log)) /\ Len(log) \in Nat
    BY DEF ChokeLogged, TypeOK
  <2> QED
    BY <2>1, <2>2 DEF UnchokedIn
<1> QED
  BY <1>1, InitType, NextType, InitPosition, NextPosition, InitChoke, NextChoke,
     PTL DEF Spec

-----------------------------------------------------------------------------
(* What goes out, and to whom. *)

(* Nothing waits in the write buffer, once the handshake has gone out.      *)
WriteBuffer ==
    /\ pc = "dial" => wbuf = <<>>
    /\ pc = "hs_flush" => wbuf # <<>>
    /\ pc \notin {"dial", "hs_flush", "flush", "failed"} => wbuf = <<>>
    /\ pc \notin {"dial", "hs_flush", "failed"} => out # <<>>

Swarm ==
    /\ pc = "hs_rest" => hs.len_ok
    /\ SameSwarm

LEMMA InitOut == Init => WriteBuffer /\ Swarm
  BY DEF Init, WriteBuffer, Swarm, SameSwarm, Connected

LEMMA NextOut ==
    TypeOK /\ WriteBuffer /\ Swarm /\ [Next]_vars => WriteBuffer' /\ Swarm'
<1> SUFFICES ASSUME TypeOK, WriteBuffer, Swarm, [Next]_vars
             PROVE  WriteBuffer' /\ Swarm'
  OBVIOUS
<1> USE DEF WriteBuffer, Swarm, SameSwarm, Connected, Genuine, Fail
<1>1. CASE UNCHANGED <<writeVars, hs>> /\ pc' = "failed"
  BY <1>1 DEF writeVars
<1>2. CASE DialError \/ DialTimeout \/ HandshakeTimeout \/ HandshakeIoError
           \/ ReadEof \/ FlushError
  BY <1>1, <1>2 DEF DialError, DialTimeout, HandshakeTimeout, HandshakeIoError,
                    ReadEof, FlushError, peerVars
<1>3. wbuf \in Seq(OutKinds \cup {"handshake"}) /\ out \in Seq(OutKinds \cup {"handshake"})
  BY DEF TypeOK
<1>4. CASE Dial
  <2>1. wbuf' = <<"handshake">>
    BY <1>4 DEF Dial
  <2> QED
    BY <1>4, <2>1 DEF Dial, peerVars
<1>5. CASE HandshakeFlush \/ Flush
  <2>1. wbuf # <<>> \/ out # <<>>
    BY <1>5 DEF HandshakeFlush, Flush
  <2>2. out \o wbuf # <<>>
    BY <1>3, <2>1
  <2> QED
    BY <1>5, <2>2 DEF HandshakeFlush, Flush, peerVars
<1>6. CASE HandshakeLen
  BY <1>6 DEF HandshakeLen, writeVars, peerVars
<1>7. CASE HandshakeRest
  BY <1>7 DEF HandshakeRest, HandshakeAccepted, writeVars, peerVars
<1>8. CASE ReadByte
  <2>1. UNCHANGED <<writeVars, hs>> /\ pc \in Reading
    BY <1>8 DEF ReadByte, peerVars
  <2>2. pc' = pc \/ pc' = "failed" \/ pc' \in {"ready", "got"}
    BY <1>8, ReadByteCases DEF ReadFails, Deliver, Received, Returned
  <2> QED
    BY <2>1, <2>2 DEF writeVars, Reading
<1>9. CASE BitfieldTimeout \/ StartRead \/ HandleMessage
  BY <1>9 DEF BitfieldTimeout, StartRead, HandleMessage, writeVars, peerVars
<1>10. ASSUME NEW k \in OutKinds, Send(k) PROVE WriteBuffer' /\ Swarm'
  BY <1>10 DEF Send, peerVars
<1>11. CASE Peer \/ UNCHANGED vars
  <2>1. UNCHANGED <<pc, writeVars, hs>>
    BY <1>11 DEF Peer, PeerHandshake, PeerSend, PeerClose, vars, clientVars, peerVars
  <2> QED
    BY <2>1 DEF writeVars
<1> QED
  BY <1>2, <1>4, <1>5, <1>6, <1>7, <1>8, <1>9, <1>10, <1>11 DEF Next, Client

(* The client never waits on a peer that still waits for bytes the client   *)
(* has not flushed.                                                         *)
THEOREM FlushCorrect == Spec => []NothingUnflushed
<1>1. WriteBuffer => NothingUnflushed
  BY DEF WriteBuffer, NothingUnflushed, Reading
<1> QED
  BY <1>1, InitType, NextType, InitOut, NextOut, PTL DEF Spec

(* No message is acted on before the whole handshake was that of a peer of  *)
(* our torrent.                                                             *)
THEOREM SwarmCorrect == Spec => []SameSwarm
<1>1. Swarm => SameSwarm
  BY DEF Swarm
<1> QED
  BY <1>1, InitType, NextType, InitOut, NextOut, PTL DEF Spec

-----------------------------------------------------------------------------
(* Which pieces the peer has. *)

(* recv_bitfield stops at the first Bitfield, so none is behind it.         *)
PiecesLogged ==
    /\ pc \in Connecting => \A k \in 1 .. Len(log) : log[k].kind # "bitfield"
    /\ pc \in Connected => bitfield.num_pieces = NumPieces
    /\ BitfieldExact

(* A new bitfield has nothing in it. *)
LEMMA NewHasNothing ==
    ASSUME NEW n \in Nat, NEW i \in Nat PROVE ~HasPiece(NewBitfield(n), i)
<1>1. ASSUME Stored(NewBitfield(n), i)
      PROVE  NewBitfield(n).data[1 + (i \div 8)] = {}
  <2>1. (n + 7) \div 8 \in Nat /\ i \div 8 \in Nat
    OBVIOUS
  <2>2. Len(NewBitfield(n).data) = (n + 7) \div 8
    BY <2>1 DEF NewBitfield
  <2>3. 1 + (i \div 8) \in 1 .. (n + 7) \div 8
    BY <1>1, <2>1, <2>2 DEF Stored
  <2> QED
    BY <2>3 DEF NewBitfield
<1> QED
  BY <1>1 DEF HasPiece

LEMMA InitPieces == Init => PiecesLogged
  BY DEF Init, PiecesLogged, BitfieldExact, Connected

(* Nothing in the properties of the pieces moves. *)
LEMMA SamePieces ==
    ASSUME PiecesLogged, UNCHANGED <<bitfield, log, base>>,
           pc # "got", pc' # "got",
           pc' \in Connecting => pc \in Connecting,
           pc' \in Connected => pc \in Connected
    PROVE  PiecesLogged'
<1>1. Handled' = Handled
  BY DEF Handled
<1>2. \A i \in 0 .. NumPieces - 1 : Announced(i)' <=> Announced(i)
  BY <1>1 DEF Announced
<1> QED
  BY <1>2 DEF PiecesLogged, BitfieldExact

(* connect returns: with the Bitfield, with none, or late.                  *)
LEMMA ConnectedPieces ==
    ASSUME TypeOK', pc' = "ready", base' = Len(log'),
           \/ bitfield' = NewBitfield(NumPieces)
              /\ (base' > 0 => log'[base'].kind # "bitfield")
           \/ base' > 0 /\ log'[base'].kind = "bitfield"
              /\ bitfield' = FromBytes(log'[base'].data, NumPieces)
    PROVE  PiecesLogged'
<1>1. bitfield'.num_pieces = NumPieces
  BY DEF NewBitfield, FromBytes
<1>2. Handled' = {}
  BY DEF Handled, TypeOK
<1>3. ASSUME NEW i \in 0 .. NumPieces - 1
      PROVE  HasPiece(bitfield', i) <=> Announced(i)'
  <2>1. Announced(i)' <=> /\ base' > 0 /\ log'[base'].kind = "bitfield"
                          /\ HasPiece(FromBytes(log'[base'].data, NumPieces), i)
    BY <1>2 DEF Announced
  <2>2. i \in Nat /\ NumPieces \in Nat
    BY ConstantsOK
  <2> QED
    BY <2>1, <2>2, NewHasNothing
<1> QED
  BY <1>1, <1>3 DEF PiecesLogged, BitfieldExact, Connecting, Handshaking

LEMMA DeliverPieces ==
    ASSUME TypeOK, TypeOK', PiecesLogged, pc \in Reading,
           NEW m \in Messages \cup {Simple("keep_alive")}, Deliver(m)
    PROVE  PiecesLogged'
<1>1. log' = Append(log, m) /\ Len(log) \in Nat /\ base \in 0 .. Len(log)
  <2>1. log' = Append(log, m)
    BY DEF Deliver, Received, Returned
  <2> QED
    BY <2>1 DEF TypeOK
<1>2. /\ Len(log') = Len(log) + 1 /\ log'[Len(log')] = m
      /\ \A k \in 1 .. Len(log) : log'[k] = log[k]
  BY <1>1 DEF TypeOK
<1>3. CASE pc = "bitfield" /\ m.kind \in SkippedKinds \cup {"keep_alive"}
  <2>1. pc' = "bitfield" /\ m.kind # "bitfield"
    BY <1>3 DEF Deliver, Received, SkippedKinds
  <2>2. \A k \in 1 .. Len(log') : log'[k].kind # "bitfield"
    BY <1>1, <1>2, <1>3, <2>1 DEF PiecesLogged, Connecting
  <2> QED
    BY <2>1, <2>2 DEF PiecesLogged, BitfieldExact, Connected
<1>4. CASE pc = "bitfield" /\ m.kind \notin SkippedKinds \cup {"keep_alive"}
  <2>1. /\ pc' = "ready" /\ base' = Len(log')
        /\ bitfield' = IF m.kind = "bitfield" THEN FromBytes(m.data, NumPieces)
                                              ELSE NewBitfield(NumPieces)
    BY <1>4 DEF Deliver, Received
  <2> QED
    BY <1>1, <1>2, <2>1, ConnectedPieces
<1>5. CASE pc = "reading"
  <2>1. /\ base' = base /\ bitfield' = bitfield /\ pc' \in {"ready", "got"}
        /\ pc' = "ready" => m.kind = "keep_alive"
    BY <1>5 DEF Deliver, Returned
  <2>2. {k \in Handled' : log'[k].kind = "have"} = {k \in Handled : log[k].kind = "have"}
    BY <1>1, <1>2, <1>5, <2>1 DEF Handled
  <2>3. base > 0 => log'[base] = log[base]
    BY <1>1, <1>2
  <2>4. \A k \in Handled : log'[k] = log[k]
    BY <1>1, <1>2 DEF Handled
  <2>5. \A i \in 0 .. NumPieces - 1 : Announced(i)' <=> Announced(i)
    BY <1>1, <2>1, <2>2, <2>3, <2>4 DEF Announced
  <2> QED
    BY <1>5, <2>1, <2>5
       DEF PiecesLogged, BitfieldExact, Connected, Connecting, Handshaking
<1> QED
  BY <1>3, <1>4, <1>5 DEF Reading

LEMMA HandlePieces ==
    ASSUME TypeOK, ChokeLogged, PiecesLogged, HandleMessage PROVE PiecesLogged'
<1>1. /\ pc = "got" /\ pc' = "ready" /\ log' = log /\ base' = base
      /\ bitfield' = BitfieldAfter(msg, bitfield)
  BY DEF HandleMessage, readVars, histVars
<1>2. /\ Len(log) \in Nat /\ base \in 0 .. Len(log) /\ Len(log) > base
      /\ msg = log[Len(log)] /\ msg.index \in Nat /\ bitfield \in BitfieldType
      /\ bitfield.num_pieces = NumPieces
  BY <1>1, MessageType DEF ChokeLogged, PiecesLogged, Connected, TypeOK
<1>3. Handled' = Handled \cup {Len(log)}
  BY <1>1, <1>2 DEF Handled
<1>4. /\ bitfield'.num_pieces = NumPieces
      /\ \A i \in Nat : Stored(bitfield', i) <=> Stored(bitfield, i)
  BY <1>1, <1>2, SetPieceType DEF BitfieldAfter, Stored
<1>5. ASSUME NEW i \in 0 .. NumPieces - 1
      PROVE  HasPiece(bitfield', i) <=> Announced(i)'
  <2>1. HasPiece(bitfield, i) <=> Announced(i)
    BY <1>1 DEF PiecesLogged, BitfieldExact, Connected
  <2>2. i \in Nat
    BY ConstantsOK
  <2>3. HasPiece(bitfield', i) <=>
          \/ HasPiece(bitfield, i)
          \/ msg.kind = "have" /\ msg.index = i /\ Stored(bitfield, i)
    BY <1>1, <1>2, <2>2, SetPieceHas DEF BitfieldAfter
  <2>4. (\E k \in Handled' : log[k].kind = "have" /\ log[k].index = i)
          <=> \/ \E k \in Handled : log[k].kind = "have" /\ log[k].index = i
              \/ msg.kind = "have" /\ msg.index = i
    BY <1>2, <1>3
  <2> QED
    BY <1>1, <1>4, <2>1, <2>2, <2>3, <2>4 DEF Announced
<1> QED
  BY <1>1, <1>4, <1>5 DEF PiecesLogged, BitfieldExact, Connecting, Handshaking

LEMMA NextPieces ==
    TypeOK /\ TypeOK' /\ ChokeLogged /\ PiecesLogged /\ [Next]_vars => PiecesLogged'
<1> SUFFICES ASSUME TypeOK, TypeOK', ChokeLogged, PiecesLogged, [Next]_vars
             PROVE  PiecesLogged'
  OBVIOUS
<1>1. CASE ReadByte
  <2>1. CASE UNCHANGED <<pc, err, log, bitfield, base, msg>>
    BY <1>1, <2>1, SamePieces DEF ReadByte, Reading
  <2>2. CASE ReadFails
    BY <2>2 DEF ReadFails, Fail, PiecesLogged, BitfieldExact,
                Connected, Connecting, Handshaking
  <2> QED
    BY <1>1, <2>1, <2>2, ReadByteCases, DeliverPieces DEF ReadByte
<1>2. CASE HandleMessage
  BY <1>2, HandlePieces
<1>3. CASE BitfieldTimeout
  <2>1. /\ pc = "bitfield" /\ pc' = "ready" /\ base' = Len(log) /\ log' = log
        /\ bitfield' = NewBitfield(NumPieces)
    BY <1>3 DEF BitfieldTimeout, readVars
  <2>2. base' > 0 => log'[base'].kind # "bitfield"
    BY <2>1 DEF PiecesLogged, Connecting, TypeOK
  <2> QED
    BY <2>1, <2>2, ConnectedPieces
<1>4. CASE DialError \/ DialTimeout \/ HandshakeTimeout \/ HandshakeIoError
           \/ ReadEof \/ FlushError
  <2>1. pc' = "failed"
    BY <1>4 DEF DialError, DialTimeout, HandshakeTimeout, HandshakeIoError,
                ReadEof, FlushError, Fail
  <2> QED
    BY <2>1 DEF PiecesLogged, BitfieldExact, Connected, Connecting, Handshaking
<1>5. CASE Dial \/ HandshakeFlush \/ HandshakeLen \/ HandshakeRest
  BY <1>5, SamePieces
     DEF Dial, HandshakeFlush, HandshakeLen, HandshakeRest, Fail,
         Connected, Connecting, Handshaking, readVars, histVars
<1>6. CASE StartRead \/ Flush \/ \E k \in OutKinds : Send(k)
  BY <1>6, SamePieces
     DEF StartRead, Flush, Send, Connected, Connecting, Handshaking,
         readVars, histVars
<1>7. CASE Peer \/ UNCHANGED vars
  <2>1. UNCHANGED <<pc, bitfield, log, base>>
    BY <1>7 DEF Peer, PeerHandshake, PeerSend, PeerClose, vars, clientVars,
                readVars, histVars
  <2>2. \A i \in 0 .. NumPieces - 1 : Announced(i)' <=> Announced(i)
    BY <2>1 DEF Announced, Handled
  <2> QED
    BY <2>1, <2>2 DEF PiecesLogged, BitfieldExact
<1> QED
  BY <1>1, <1>2, <1>3, <1>4, <1>5, <1>6, <1>7 DEF Next, Client

(* has_piece says, for every torrent and every sequence of messages, exactly *)
(* what the peer has announced and the stored bytes have room for.          *)
THEOREM BitfieldCorrect == Spec => []BitfieldExact
<1>1. PiecesLogged => BitfieldExact
  BY DEF PiecesLogged
<1> QED
  BY <1>1, InitType, NextType, InitChoke, NextChoke, InitPieces, NextPieces,
     PTL DEF Spec
=============================================================================
