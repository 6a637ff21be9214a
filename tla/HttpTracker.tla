---------------------------- MODULE HttpTracker ----------------------------
(***************************************************************************)
(* tracker::http::announce (src/tracker/http.rs), one per task: build the  *)
(* URL, one GET under a timeout of 15 s, decode the body, extract the      *)
(* interval and the compact peers.  offers and outcome are those of        *)
(* Announce.                                                               *)
(*                                                                         *)
(* A body is what decoder::decode makes of it: a value, or Undecodable.    *)
(* External: Url::parse, reqwest, and the tracker, which answers with the  *)
(* encoding of an AnnounceResponse or with one of BadBodies.               *)
(***************************************************************************)
EXTENDS Integers, Sequences, SequencesExt

CONSTANTS Tasks, Answers,
          Word,       \* 2^64
          BadBodies   \* bodies that carry no response

VARIABLES http,       \* http[t]: where the announce is, and the body it got
          offers, outcome

Announces == INSTANCE Announce
Value     == INSTANCE BencodeValue WITH Lead <- {}, Continuation <- {}

vars == <<http, offers, outcome>>

FailureKey  == "failure reason"
IntervalKey == "interval"
PeersKey    == "peers"
Undecodable == [error |-> "decode"]

Init ==
    /\ http = [t \in Tasks |-> [stage |-> "build", body |-> Undecodable]]
    /\ Announces!Init

-----------------------------------------------------------------------------
PeerSize == 6

BytesSwapped(c) == [ip |-> SubSeq(c, 1, 4), port |-> c[5] + 256 * c[6]]   \* mutant

PeerOf(c) == [ip |-> SubSeq(c, 1, 4), port |-> 256 * c[5] + c[6]]

UnmarshalPeers(raw) ==
    [i \in 1 .. Len(raw) \div PeerSize |-> PeerOf(SubSeq(raw, (i - 1) * PeerSize + 1, i * PeerSize))]

(* unwrap_or(900) as u64 *)
IntervalOf(v) ==
    LET stated == Value!GetInteger(v, IntervalKey)
    IN  (IF stated = {} THEN 900 ELSE CHOOSE n \in stated : TRUE) % Word

Refused(v) == v = Undecodable \/ Value!Get(v, FailureKey) # {}

(* The outcome of a body: MissingField and MalformedPeers fail it too.      *)
OutcomeOf(v) ==
    LET raws == {r \in Value!GetBytes(v, PeersKey) : Len(r) % PeerSize = 0}
    IN  IF Refused(v) \/ raws = {} THEN Announces!Failed
        ELSE LET raw == CHOOSE r \in raws : TRUE
             IN  Announces!Ok([interval |-> IntervalOf(v), peers |-> UnmarshalPeers(raw)])

-----------------------------------------------------------------------------
At(t, stage) == http[t].stage = stage /\ outcome[t] = Announces!Running

(* build_announce_url and Client::build, either of which may fail.          *)
Build(t) ==
    /\ At(t, "build")
    /\ http' = [http EXCEPT ![t].stage = "get"]
    /\ UNCHANGED <<offers, outcome>>

BuildFails(t) ==
    /\ At(t, "build") /\ Announces!Fail(t)
    /\ UNCHANGED http

(* send and bytes; the status is not looked at.                             *)
Receive(t, body) ==
    /\ At(t, "get")
    /\ http' = [http EXCEPT ![t] = [stage |-> "got", body |-> body]]
    /\ UNCHANGED outcome

(* The encodings of a response; the interval may be left out when it is the *)
(* default, and one above i64::MAX is stated as the negative number whose   *)
(* cast it is.                                                              *)
Bodies(a) ==
    LET n     == IF 2 * a.interval < Word THEN a.interval ELSE a.interval - Word
        Bytes(p) == p.ip \o <<p.port \div 256, p.port % 256>>
        raw   == FlattenSeq([i \in DOMAIN a.peers |-> Bytes(a.peers[i])])
        Dict(keys) == [k \in keys |-> IF k = PeersKey THEN [bytes |-> raw] ELSE [int |-> n]]
    IN  {[dict |-> Dict({PeersKey, IntervalKey})]}
          \cup (IF a.interval = 900 THEN {[dict |-> Dict({PeersKey})]} ELSE {})

ReceiveAnswer(t, a) ==
    /\ \E body \in Bodies(a) : Receive(t, body)
    /\ offers' = [offers EXCEPT ![t] = @ \cup {a}]

ReceiveBad(t) ==
    /\ \E body \in BadBodies : Receive(t, body)
    /\ UNCHANGED offers

Parse(t) ==
    /\ At(t, "got")
    /\ outcome' = [outcome EXCEPT ![t] = OutcomeOf(http[t].body)]
    /\ UNCHANGED <<http, offers>>

(* The request fails, or its 15 s are over.                                 *)
GiveUp(t) ==
    /\ At(t, "get") /\ Announces!Fail(t)
    /\ UNCHANGED http

Tracker(t) == (\E a \in Answers : ReceiveAnswer(t, a)) \/ ReceiveBad(t)
Step(t)    == Build(t) \/ BuildFails(t) \/ Parse(t) \/ GiveUp(t)
=============================================================================
