---------------------------- MODULE MetainfoHash ----------------------------
(***************************************************************************)
(* What the info hash should be, by the grammar of BencodeGrammar: the     *)
(* SHA-1 of the encoding of the info dictionary that the fields are        *)
(* extracted from.                                                         *)
(***************************************************************************)
EXTENDS Metainfo, BencodeGrammar

(* The bytes hashed encode the dictionary the fields come from.             *)
(* "Look for "4:info" key in the top-level dictionary" (metainfo.rs:188).   *)
HashOfInfo ==
    Parsed => Denotes(result.infoHash, FALSE) = Get(root, InfoKey)

(* The file is d...1:I<dict>...e with the mark nowhere else.                *)
OneMark == Cardinality({i \in 0 .. Len(file) - Len(InfoMark) : MarkAt(i)}) = 1

(* In a file that holds the mark once, where it must be the key of the root *)
(* dictionary since that one has an info dictionary, the search finds it,   *)
(* decode_partial takes the dictionary that decode took there, and the      *)
(* bytes hashed are its encoding and no other (metainfo.rs:192-207).        *)
HashOfOnlyInfo ==
    OneMark =>
      /\ Parsed => Denotes(result.infoHash, FALSE) = Get(root, InfoKey)
      /\ phase = "info" /\ pc = "done" => outcome = "ok" /\ {ret} = Get(root, InfoKey)
      /\ phase = "done" /\ Failed(result) => result.error # "InfoDictNotFound"
=============================================================================
