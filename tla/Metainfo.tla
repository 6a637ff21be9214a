------------------------------ MODULE Metainfo ------------------------------
(***************************************************************************)
(* Metainfo::from_bytes of src/torrent/metainfo.rs.  The file is decoded,  *)
(* then compute_info_hash looks for the info dictionary in its bytes and   *)
(* decodes it again to see where it ends; then the fields are extracted.   *)
(* Both decodings are BencodeDecoder, step by step; Inputs are the files.  *)
(*                                                                         *)
(* A key is one letter here, so "4:infod" is "1:Id".  SHA-1 stands for the *)
(* bytes it is given; a digest in "pieces" has HashLen bytes.              *)
(***************************************************************************)
EXTENDS BencodeDecoder, BencodeValue, Pieces

CONSTANT HashLen     \* 20

ASSUME WordIsU64 == Word = 2 * (MaxInteger + 1) /\ HashLen \in Nat \ {0}

VARIABLES
    file,       \* the bytes of the file
    phase,      \* "root": decode; "info": decode_partial; "done"
    start,      \* where the info dictionary starts, for the hash
    root,       \* value, once decoded
    result      \* <<>>, or what from_bytes returns

vars == <<decoderVars, file, phase, start, root, result>>

AnnounceKey     == <<"u">>
AnnounceListKey == <<"t">>
InfoKey         == <<"I">>
NameKey         == <<"n">>
PieceLengthKey  == <<"p">>
PiecesKey       == <<"h">>
LengthKey       == <<"z">>
FilesKey        == <<"f">>
PathKey         == <<"q">>
InfoMark        == <<"1", ":", "I", "d">>

Init ==
    /\ DecoderInit /\ whole = TRUE
    /\ file = data /\ phase = "root" /\ start = 0
    /\ root = <<>> /\ result = <<>>

-----------------------------------------------------------------------------
The(option) == CHOOSE x \in option : TRUE

Unconverted(n) == n     \* mutant
U64(n) == n % Word      \* as u64

(* The texts of a list: what is not UTF-8, or no byte string, is left out.  *)
AddText(texts, v) == IF AsStr(v) = {} THEN texts ELSE Append(texts, The(AsStr(v)))

Texts(list) == FoldLeft(AddText, <<>>, list)

(* parse_announce_list: what is not a list is no tier.                      *)
AddTier(tiers, v) == IF AsList(v) = {} THEN tiers ELSE Append(tiers, Texts(The(AsList(v))))

Tiers(value) ==
    {FoldLeft(AddTier, <<>>, list) : list \in GetList(value, AnnounceListKey)}

OrElse(option, default) == IF option = {} THEN default ELSE The(option)

SplitPieceHashes(raw) ==
    [i \in 1 .. Len(raw) \div HashLen |-> SubSeq(raw, (i - 1) * HashLen + 1, i * HashLen)]

Fail(e) == [error |-> e]
Failed(r) == "error" \in DOMAIN r

FileOf(entry) ==
    IF AsDict(entry) = {} THEN Fail("InvalidField")
    ELSE IF GetInteger(entry, LengthKey) = {} \/ GetList(entry, PathKey) = {}
      THEN Fail("MissingField")
      ELSE [length |-> U64(The(GetInteger(entry, LengthKey))),
            path   |-> Texts(The(GetList(entry, PathKey)))]

Plus(total, length) == (total + length) % Word

(* total += length panics on overflow where the build checks for it.        *)
AddFile(soFar, entry, checked) ==
    LET f == FileOf(entry)
    IN  IF Failed(soFar) THEN soFar
        ELSE IF Failed(f) THEN f
        ELSE IF checked /\ soFar.total + f.length >= Word THEN Fail("panic")
        ELSE [files |-> Append(soFar.files, f), total |-> Plus(soFar.total, f.length)]

NoFiles == [files |-> <<>>, total |-> 0]

AllFiles(entries, checked) ==
    FoldLeft(LAMBDA soFar, entry : AddFile(soFar, entry, checked), NoFiles, entries)

(* The files and the total length.                                          *)
Layout(info, checked) ==
    IF Get(info, LengthKey) # {} THEN
      IF GetInteger(info, LengthKey) = {} THEN Fail("InvalidField")
      ELSE LET length == U64(The(GetInteger(info, LengthKey)))
           IN  [files |-> <<[length |-> length, path |-> <<The(GetStr(info, NameKey))>>]>>,
                total |-> length]
    ELSE IF Get(info, FilesKey) = {} THEN Fail("MissingField")
    ELSE IF GetList(info, FilesKey) = {} THEN Fail("InvalidField")
    ELSE AllFiles(The(GetList(info, FilesKey)), checked)

Metainfo(value, info, infoHash, checked) ==
    LET raw    == GetBytes(info, PiecesKey)
        layout == Layout(info, checked)
    IN  IF GetStr(info, NameKey) = {} \/ GetInteger(info, PieceLengthKey) = {} \/ raw = {}
          THEN Fail("MissingField")
        ELSE IF Len(The(raw)) % HashLen # 0 THEN Fail("MalformedPieces")
        ELSE IF Failed(layout) THEN layout
        ELSE [announce     |-> OrElse(GetStr(value, AnnounceKey), <<>>),
              announceList |-> OrElse(Tiers(value), <<>>),
              infoHash     |-> infoHash,
              name         |-> The(GetStr(info, NameKey)),
              pieceLength  |-> U64(The(GetInteger(info, PieceLengthKey))),
              pieceHashes  |-> SplitPieceHashes(The(raw)),
              totalLength  |-> layout.total,
              files        |-> layout.files,
              isSingleFile |-> Get(info, LengthKey) # {}]

-----------------------------------------------------------------------------
Finish(r) ==
    /\ phase' = "done" /\ result' = r
    /\ UNCHANGED <<decoderVars, file, start, root>>

Decode == DecoderNext /\ UNCHANGED <<file, phase, start, root, result>>

Decoded(p) == phase = p /\ pc = "done"

(* The ? on decode and on decode_partial.                                   *)
DecodeFails ==
    /\ Decoded("root") \/ Decoded("info")
    /\ outcome # "ok"
    /\ Finish(Fail(outcome))

NoInfo ==
    /\ Decoded("root") /\ outcome = "ok"
    /\ \/ AsDict(ret) = {} /\ Finish(Fail("InvalidField"))
       \/ AsDict(ret) # {} /\ Get(ret, InfoKey) = {} /\ Finish(Fail("MissingField"))
       \/ \E info \in Get(ret, InfoKey) : AsDict(info) = {} /\ Finish(Fail("InvalidField"))

MarkAt(i) == SubSeq(file, i + 1, i + Len(InfoMark)) = InfoMark

(* The places where the info key is looked for: the last one is not tried.  *)
Marks == {i \in 0 .. Len(file) - Len(InfoMark) - 1 : MarkAt(i)}

FirstMark  == CHOOSE i \in Marks : \A j \in Marks : i <= j

InfoIsDict == \E info \in Get(ret, InfoKey) : AsDict(info) # {}

(* compute_info_hash up to decode_partial.                                  *)
LocateInfo ==
    /\ Decoded("root") /\ outcome = "ok" /\ InfoIsDict
    /\ IF Marks = {} THEN Finish(Fail("InfoDictNotFound"))
       ELSE LET i == FirstMark + Len(InfoMark) - 1
            IN  /\ data' = SubSeq(file, i + 1, Len(file)) /\ whole' = FALSE
                /\ pos' = 0 /\ stack' = <<>> /\ pc' = "value" /\ ret' = <<>>
                /\ outcome' = "running"
                /\ phase' = "info" /\ start' = i /\ root' = ret
                /\ UNCHANGED <<file, result>>

HashedToTheEnd == SubSeq(file, start + 1, Len(file))   \* mutant: consumed not used

Hashed == SubSeq(file, start + 1, start + pos)     \* &data[start..start + consumed]

Extract ==
    /\ Decoded("info") /\ outcome = "ok"
    /\ \E info \in Get(root, InfoKey), checked \in BOOLEAN :
         Finish(Metainfo(root, info, Hashed, checked))

Next == Decode \/ DecodeFails \/ NoInfo \/ LocateInfo \/ Extract

Spec == Init /\ [][Next]_vars

-----------------------------------------------------------------------------
(* Properties. *)

Errors == DecodeErrors \cup
    {"InvalidField", "MissingField", "InfoDictNotFound", "MalformedPieces", "panic"}

IsText(b) == b \in Seq(Byte) /\ Utf8(b)

(* Types of every variable, and of the Metainfo returned: all of its        *)
(* numbers fit their 64 bits and all of its names are UTF-8.                *)
TypeOK ==
    /\ DecoderTypeOK
    /\ phase \in {"root", "info", "done"}
    /\ start \in 0 .. Len(file)
    /\ phase # "done" <=> result = <<>>
    /\ result # <<>> =>
         IF Failed(result) THEN result.error \in Errors
         ELSE /\ IsText(result.announce) /\ IsText(result.name)
              /\ \A i \in DOMAIN result.announceList :
                   \A j \in DOMAIN result.announceList[i] : IsText(result.announceList[i][j])
              /\ result.pieceLength \in 0 .. Word - 1
              /\ \A i \in DOMAIN result.pieceHashes : Len(result.pieceHashes[i]) = HashLen
              /\ result.totalLength \in 0 .. Word - 1
              /\ \A i \in DOMAIN result.files :
                   /\ result.files[i].length \in 0 .. Word - 1
                   /\ \A j \in DOMAIN result.files[i].path : IsText(result.files[i].path[j])
              /\ result.isSingleFile \in BOOLEAN

Parsed == phase = "done" /\ ~Failed(result)

(* The lengths the file states, as the integers they are.                   *)
Stated ==
    LET info == The(Get(root, InfoKey))
    IN  IF result.isSingleFile THEN <<The(GetInteger(info, LengthKey))>>
        ELSE LET entries == The(GetList(info, FilesKey))
             IN  [i \in DOMAIN entries |-> The(GetInteger(entries[i], LengthKey))]

SumOf(s) == FoldLeft(LAMBDA a, b : a + b, 0, s)

(* The lengths add up (metainfo.rs:163): when none is negative and their    *)
(* sum fits 64 bits, total_length is that sum; otherwise it is the sum up   *)
(* to a multiple of 2^64.  A number of hashes that goes with total_length   *)
(* makes the pieces, as piece_size cuts them, a partition of its bytes.     *)
SizesAgree ==
    Parsed =>
      /\ (SumOf([i \in DOMAIN result.files |-> result.files[i].length]) - result.totalLength)
           % Word = 0
      /\ LET stated == Stated
         IN  (\A i \in DOMAIN stated : stated[i] >= 0) /\ SumOf(stated) < Word
               => result.totalLength = SumOf(stated)
      /\ LET count == Len(result.pieceHashes)
         IN  Consistent(count, result.pieceLength, result.totalLength)
               => Partition(count, result.pieceLength, result.totalLength)
=============================================================================
