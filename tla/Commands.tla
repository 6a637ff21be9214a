------------------------------ MODULE Commands ------------------------------
(***************************************************************************)
(* main of src/main.rs for the commands that only read: `rusty info` is    *)
(* Metainfo::from_file and its display, `rusty magnet` is                  *)
(* MagnetLink::parse and its display.  Download is the third command.      *)
(***************************************************************************)
EXTENDS Metainfo, Magnet, FiniteSets

CONSTANTS Uris,      \* what the user may give to `rusty magnet`
          Shown      \* characters of the announce URL that are displayed: 40

ASSUME ShownOK == Shown \in Nat /\ Shown >= 3

(* The parameters of a URI.  meant says, for each of them, what text its    *)
(* value is an encoding of; {} where the value was not made that way.       *)
ASSUME UrisOK ==
    \A u \in Uris :
      /\ u.magnet \in BOOLEAN
      /\ u.params \in Seq([key : STRING, value : Seq(Nat)])
      /\ \A i \in DOMAIN u.params : \A t \in u.meant[i] :
           t \in Seq(Nat) /\ u.params[i].value \in EncodingsOf(t)

VARIABLES command,   \* "info" or "magnet"
          uri, link, \* the argument of magnet, and what parse made of it
          exit       \* "none", or how the process ends

commandVars == <<command, uri, link, exit>>

(* The argument that a command does not have.                               *)
NoFile == CHOOSE f \in Inputs : TRUE
NoUri  == CHOOSE u \in Uris : TRUE

CommandInit ==
    /\ Init
    /\ \/ command = "info" /\ uri = NoUri
       \/ command = "magnet" /\ file = NoFile /\ uri \in Uris
    /\ link = <<>> /\ exit = "none"

Exit(how) == exit = "none" /\ exit' = how /\ UNCHANGED <<command, uri>>

FromFile ==
    /\ command = "info" /\ exit = "none"
    /\ Next /\ UNCHANGED commandVars

(* fs::read *)
Unreadable ==
    /\ command = "info" /\ phase = "root" /\ pos = 0 /\ pc = "value"
    /\ Exit("error") /\ UNCHANGED <<vars, link>>

(* truncate slices the announce URL without regard to its characters.       *)
CutsCharacter(s) == Len(s) > Shown /\ s[Shown - 2] \in Continuation

ShowInfo ==
    /\ command = "info" /\ phase = "done"
    /\ \/ Failed(result) /\ Exit(IF result.error = "panic" THEN "panic" ELSE "error")
       \/ ~Failed(result) /\ Exit(IF CutsCharacter(result.announce) THEN "panic" ELSE "ok")
    /\ UNCHANGED <<vars, link>>

ShowMagnet ==
    /\ command = "magnet"
    /\ LET parsed == MagnetLink(uri)
       IN  /\ link' = parsed
           /\ \/ ~Failed(parsed) /\ Exit("ok")
              \/ Failed(parsed) /\ Exit(IF parsed.error = "panic" THEN "panic" ELSE "error")
    /\ UNCHANGED vars

CommandNext == FromFile \/ Unreadable \/ ShowInfo \/ ShowMagnet

CommandSpec == CommandInit /\ [][CommandNext]_<<vars, commandVars>>

-----------------------------------------------------------------------------
(* Properties. *)

Lower(c) == IF c \in 65 .. 70 THEN c + 32 ELSE c

FirstXt(u) == u.params[FirstOf({i \in DOMAIN u.params : u.params[i].key = "xt"})].value

(* A link whose first xt is the prefix and 40 hex digits is accepted, and   *)
(* the hash displayed is what the user gave (magnet.rs:147, "info_hash_hex" *)
(* of the test); a hash that is displayed parses to itself.                 *)
HashIsShown ==
    command = "magnet" /\ exit # "none" =>
      /\ uri.magnet /\ (\E i \in DOMAIN uri.params : uri.params[i].key = "xt") =>
           LET xt   == FirstXt(uri)
               text == [i \in DOMAIN Tail(xt) |-> Lower(Tail(xt)[i])]
           IN  xt # <<>> /\ xt[1] = UrnBtih /\ Len(text) = HashChars
                 /\ (\A i \in DOMAIN text : text[i] \in HexDigit)
                 => exit = "ok" /\ InfoHashHex(link.infoHash) = text
      /\ exit = "ok" =>
           ParseXt(<<UrnBtih>> \o InfoHashHex(link.infoHash))
             = [hash |-> link.infoHash]

(* Names and trackers come out as they were before they were encoded, when  *)
(* they are ASCII (magnet.rs:160-165); uri.meant holds their texts, in the  *)
(* order of the parameters, or nothing where the value was no encoding.     *)
TextIsShown ==
    command = "magnet" /\ exit = "ok" =>
      LET trs == {i \in DOMAIN uri.params : uri.params[i].key = "tr"}
          dns == {i \in DOMAIN uri.params : uri.params[i].key = "dn"}
          Rank(i) == Cardinality({j \in trs : j <= i})
      IN  /\ \A i \in trs : uri.meant[i] \subseteq {link.trackers[Rank(i)]}
          /\ Len(link.trackers) = Cardinality(trs)
          /\ dns # {} => uri.meant[FirstOf(dns)] \subseteq link.displayName
=============================================================================
