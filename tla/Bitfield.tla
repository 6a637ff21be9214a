------------------------------ MODULE Bitfield ------------------------------
(***************************************************************************)
(* src/peer/bitfield.rs: which pieces a peer has.  A byte is the set of    *)
(* its bits that are 1; bit 7 is the most significant, so piece 0 is bit 7 *)
(* of the first byte.  Sequences count from 1, the Vec from 0.             *)
(***************************************************************************)
EXTENDS Integers, Sequences, FiniteSets

Byte == SUBSET (0 .. 7)

BitfieldType == [data : Seq(Byte), num_pieces : Nat]

NewBitfield(n) ==
    [data |-> [b \in 1 .. (n + 7) \div 8 |-> {}], num_pieces |-> n]

(* The bytes a peer sent are taken as they are, whatever their number. *)
FromBytes(bytes, n) == [data |-> bytes, num_pieces |-> n]

BitOffByOne(i) == 8 - (i % 8)   \* mutant

Bit(i) == 7 - (i % 8)

(* The two bounds has_piece, set_piece and clear_piece all check: the index *)
(* against the torrent, the byte against what the peer sent.                *)
Stored(bf, i) == i < bf.num_pieces /\ i \div 8 < Len(bf.data)

HasPiece(bf, i) == Stored(bf, i) /\ Bit(i) \in bf.data[1 + (i \div 8)]

SetPiece(bf, i) ==
    IF Stored(bf, i)
      THEN [bf EXCEPT !.data[1 + (i \div 8)] = @ \cup {Bit(i)}]
      ELSE bf

=============================================================================
