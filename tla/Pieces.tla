------------------------------- MODULE Pieces -------------------------------
(***************************************************************************)
(* Metainfo::piece_size: how the bytes of a torrent are cut into pieces.   *)
(***************************************************************************)
EXTENDS Integers, FiniteSets

CONSTANT Word     \* 2^64: u64 holds 0 .. Word - 1

ASSUME WordOK == Word \in Nat \ {0}

Minimum(a, b) == IF a < b THEN a ELSE b

(* index as u64 * piece_length, as a release build computes it.             *)
Start(index, pieceLength) == (index * pieceLength) % Word

ToTheEnd(remaining, pieceLength) == pieceLength   \* mutant: the last piece is full too

Cut(remaining, pieceLength) == Minimum(pieceLength, remaining)

PieceSize(index, pieceLength, total) ==
    LET start     == Start(index, pieceLength)
        remaining == IF start < total THEN total - start ELSE 0
    IN  Cut(remaining, pieceLength)

(* There are as many hashes as the length asks for.  from_bytes does not    *)
(* look at this.                                                            *)
Consistent(count, pieceLength, total) ==
    /\ pieceLength > 0 /\ count > 0
    /\ (count - 1) * pieceLength < total /\ total <= count * pieceLength

Holds(index, pieceLength, total, o) ==
    LET start == Start(index, pieceLength)
    IN  start <= o /\ o < start + PieceSize(index, pieceLength, total)

(* The pieces partition the torrent: each byte is in exactly one of them,   *)
(* none is empty and none reaches past the end.                             *)
Partition(count, pieceLength, total) ==
    /\ \A o \in 0 .. total - 1 :
         \E i \in 0 .. count - 1 :
           /\ Holds(i, pieceLength, total, o)
           /\ \A j \in 0 .. count - 1 : Holds(j, pieceLength, total, o) => j = i
    /\ \A i \in 0 .. count - 1 :
         /\ PieceSize(i, pieceLength, total) > 0
         /\ Start(i, pieceLength) + PieceSize(i, pieceLength, total) <= total
=============================================================================
