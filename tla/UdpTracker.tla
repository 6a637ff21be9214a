----------------------------- MODULE UdpTracker -----------------------------
(***************************************************************************)
(* tracker::udp::announce, one task per tracker URL (src/tracker/udp.rs).  *)
(* A task resolves the host, opens a socket, sends a connect request, takes *)
(* the ONE datagram that comes next as its answer, sends the announce from  *)
(* the same socket, and takes the one datagram that comes next again.      *)
(*                                                                         *)
(* The network loses, delays, reorders and duplicates datagrams.  A port   *)
(* goes back to the system when its task ends, so a later task may bind it *)
(* and meet the answers an earlier one did not wait for.                   *)
(*                                                                         *)
(* rand::random() is modelled as never repeating: <<t, phase>> is the id   *)
(* task t draws.  External: name lookup, the system's ports, the network   *)
(* and the trackers.                                                       *)
(***************************************************************************)
EXTENDS Integers, Sequences, SequencesExt

CONSTANTS
    Tasks,        \* the announces cmd_download spawned
    Trackers,     \* addresses a name may resolve to
    Ports,        \* local ports the system hands out
    Responses,    \* what a tracker may put in an announce response
    MaxPeers,     \* peers the receive buffer has room for: 500
    Ids,          \* bound: the connection ids the trackers draw, in order
    ConnectLens,  \* bytes in a tracker's connect response: 16 when whole
    ErrorLens,    \* bytes in a tracker's error response: 8 and the message
    MaxDup        \* bound: datagrams the network delivers twice

Port == 0 .. 65535
PeerAddr == [ip : Nat, port : Port]
Zero == 0                           \* the port of a task that has none
ConnId == [1 .. 8 -> 0 .. 255]      \* the bytes of a connection id
NoId == [i \in 1 .. 8 |-> 0]

ASSUME ConstantsOK ==
    /\ Responses \subseteq [interval : Nat, peers : Seq(PeerAddr)]
    /\ MaxPeers \in Nat
    /\ Zero \notin Ports
    /\ Ids \in Seq(ConnId)
    /\ ConnectLens \subseteq Nat /\ ErrorLens \subseteq Nat
    /\ \A n \in ConnectLens \cup ErrorLens : n >= 8
    /\ MaxDup \in Nat

None == [interval |-> 0, peers |-> <<>>]

VARIABLES
    pc, err,     \* where each task is; the UdpTrackerError it returned
    addr, port,  \* its peer address and local port
    connid,      \* the connection id it read
    resp,        \* the AnnounceResponse it returned
    reqs, reps,  \* datagrams under way to the trackers, and to us
    issued,      \* the connects answered: id, tracker, port, transaction, bytes
    offers,      \* history: answers a tracker gave to each task's announce
    refused,     \* history: tasks a tracker answered with an error
    dups         \* datagrams delivered twice

taskVars == <<pc, err, addr, port, connid, resp>>
netVars  == <<reqs, reps, issued, offers, refused, dups>>
vars     == <<taskVars, netVars>>

Pcs == {"resolve", "bind", "connect_send", "connect_recv",
        "announce_send", "announce_recv", "ok", "failed"}
Alarms == {"connection_failed", "invalid_response", "tracker_error"}
Errs   == {"none", "invalid_url", "socket", "timeout"} \cup Alarms
Sending   == {"connect_send", "announce_send"}
Receiving == {"connect_recv", "announce_recv"}
Open(t)   == pc[t] \in Sending \cup Receiving

Init ==
    /\ pc = [t \in Tasks |-> "resolve"]
    /\ err = [t \in Tasks |-> "none"]
    /\ addr \in [Tasks -> Trackers]
    /\ port = [t \in Tasks |-> Zero]
    /\ connid = [t \in Tasks |-> NoId]
    /\ resp = [t \in Tasks |-> None]
    /\ reqs = {} /\ reps = {} /\ issued = <<>>
    /\ offers = [t \in Tasks |-> {}]
    /\ refused = {} /\ dups = 0

Goto(t, l) == pc' = [pc EXCEPT ![t] = l] /\ UNCHANGED err
Fail(t, e) == pc' = [pc EXCEPT ![t] = "failed"] /\ err' = [err EXCEPT ![t] = e]

-----------------------------------------------------------------------------
(* announce: lookup, then connect_and_announce up to its first await. *)

Resolve(t) ==
    /\ pc[t] = "resolve"
    /\ Goto(t, "bind") \/ Fail(t, "invalid_url")
    /\ UNCHANGED <<addr, port, connid, resp, netVars>>

(* UdpSocket::bind on port 0, then connect: the socket has a port of its   *)
(* own and takes datagrams of its tracker only.                            *)
Bind(t) ==
    /\ pc[t] = "bind"
    /\ \/ \E p \in Ports :
            /\ \A u \in Tasks : Open(u) => port[u] # p
            /\ port' = [port EXCEPT ![t] = p]
            /\ Goto(t, "connect_send")
       \/ Fail(t, "socket") /\ UNCHANGED port
    /\ UNCHANGED <<addr, connid, resp, netVars>>

Request(t, action, phase, c) ==
    [to |-> addr[t], port |-> port[t], action |-> action,
     txid |-> <<t, phase>>, connid |-> c]

SendConnect(t) ==
    /\ pc[t] = "connect_send"
    /\ reqs' = reqs \cup {Request(t, 0, "connect", NoId)}
    /\ Goto(t, "connect_recv")
    /\ UNCHANGED <<addr, port, connid, resp, reps, issued, offers, refused, dups>>

(* recv: any datagram of this tracker to this port, which then is gone     *)
(* unless the network delivers it again.                                   *)
Arrives(t, d) ==
    /\ d \in reps /\ d.from = addr[t] /\ d.port = port[t]
    /\ \/ reps' = reps \ {d} /\ UNCHANGED dups
       \/ dups < MaxDup /\ dups' = dups + 1 /\ UNCHANGED reps
    /\ UNCHANGED <<reqs, issued, offers, refused>>

(* The 16-byte buffer starts as zeros, and the length received is not      *)
(* looked at: of a short answer, the bytes of the id that came are kept,   *)
(* and the rest reads as zeros.                                            *)
ConnectionId(d) == [i \in 1 .. 8 |-> IF 8 + i <= d.len THEN d.connid[i] ELSE 0]

ConnectAnyTxid(t, d) == TRUE   \* mutant: transaction id not compared

ConnectMatches(t, d) == d.txid = <<t, "connect">>

RecvConnect(t, d) ==
    /\ pc[t] = "connect_recv" /\ Arrives(t, d)
    /\ IF d.action # 0 THEN Fail(t, "connection_failed") /\ UNCHANGED connid
       ELSE IF ~ConnectMatches(t, d)
         THEN Fail(t, "invalid_response") /\ UNCHANGED connid
         ELSE /\ connid' = [connid EXCEPT ![t] = ConnectionId(d)]
              /\ Goto(t, "announce_send")
    /\ UNCHANGED <<addr, port, resp>>

SendAnnounce(t) ==
    /\ pc[t] = "announce_send"
    /\ reqs' = reqs \cup {Request(t, 1, "announce", connid[t])}
    /\ Goto(t, "announce_recv")
    /\ UNCHANGED <<addr, port, connid, resp, reps, issued, offers, refused, dups>>

EmptyTooShort(n) == n <= 20   \* mutant: an answer without peers refused

TooShort(n) == n < 20

(* A longer datagram is cut off at the end of the buffer, between two peers. *)
Fitting(a) ==
    SubSeq(a.peers, 1, IF Len(a.peers) < MaxPeers THEN Len(a.peers) ELSE MaxPeers)

PortZeroKept(a) == Fitting(a)   \* mutant

KeepUsable(peers, p) == IF p.port # 0 THEN Append(peers, p) ELSE peers

PeersOf(a) == FoldLeft(KeepUsable, <<>>, Fitting(a))

Decoded(a) == [interval |-> a.interval, peers |-> PeersOf(a)]

AnnounceAnyTxid(t, d) == TRUE   \* mutant: transaction id not compared

AnnounceMatches(t, d) == d.txid = <<t, "announce">>

RecvAnnounce(t, d) ==
    /\ pc[t] = "announce_recv" /\ Arrives(t, d)
    /\ IF TooShort(d.len) THEN Fail(t, "invalid_response") /\ UNCHANGED resp
       ELSE IF d.action = 3 THEN Fail(t, "tracker_error") /\ UNCHANGED resp
       ELSE IF d.action # 1 \/ ~AnnounceMatches(t, d)
         THEN Fail(t, "invalid_response") /\ UNCHANGED resp
         ELSE resp' = [resp EXCEPT ![t] = Decoded(d.body)] /\ Goto(t, "ok")
    /\ UNCHANGED <<addr, port, connid>>

NoTimeout(t) == FALSE /\ UNCHANGED vars   \* mutant: recv not under a timeout

(* Each send and each recv is under a timeout of 15 s of its own. *)
Timeout(t) ==
    /\ Open(t)
    /\ Fail(t, "timeout")
    /\ UNCHANGED <<addr, port, connid, resp, netVars>>

(* The system refuses a send, or reports an ICMP error to a recv. *)
SocketError(t) ==
    /\ Open(t)
    /\ Fail(t, "socket")
    /\ UNCHANGED <<addr, port, connid, resp, netVars>>

-----------------------------------------------------------------------------
(* The trackers.  An id is good for the source it was issued to.            *)

Reply(q, action, c, n, a) ==
    [from |-> q.to, port |-> q.port, action |-> action, txid |-> q.txid,
     connid |-> c, len |-> n, body |-> a]

(* A request arrives once, or twice. *)
Taken(q) ==
    \/ reqs' = reqs \ {q} /\ UNCHANGED dups
    \/ dups < MaxDup /\ dups' = dups + 1 /\ UNCHANGED reqs

NextId == Ids[Len(issued) + 1]

Issue(q, id, n) ==
    [id |-> id, to |-> q.to, port |-> q.port, txid |-> q.txid, len |-> n]

AnswerConnect(q) ==
    /\ q.action = 0 /\ Len(issued) < Len(Ids)
    /\ Taken(q)
    /\ \E n \in ConnectLens :
         /\ issued' = Append(issued, Issue(q, NextId, n))
         /\ reps' = reps \cup {Reply(q, 0, NextId, n, None)}
    /\ UNCHANGED <<taskVars, offers, refused>>

Valid(q) ==
    \E c \in DOMAIN issued :
      issued[c].id = q.connid /\ issued[c].to = q.to /\ issued[c].port = q.port

AnswerAnnounce(q, a) ==
    /\ q.action = 1 /\ Valid(q)
    /\ Taken(q)
    /\ reps' = reps \cup {Reply(q, 1, NoId, 20 + 6 * Len(a.peers), a)}
    /\ offers' = [offers EXCEPT ![q.txid[1]] = @ \cup {Decoded(a)}]
    /\ UNCHANGED <<taskVars, issued, refused>>

Refuse(q) ==
    /\ Taken(q)
    /\ \E n \in ErrorLens : reps' = reps \cup {Reply(q, 3, NoId, n, None)}
    /\ refused' = refused \cup {q.txid[1]}
    /\ UNCHANGED <<taskVars, issued, offers>>

Tracker(q) ==
    \/ AnswerConnect(q)
    \/ \E a \in Responses : AnswerAnnounce(q, a)
    \/ Refuse(q)

Task(t) ==
    \/ Resolve(t) \/ Bind(t) \/ SendConnect(t) \/ SendAnnounce(t)
    \/ \E d \in reps : RecvConnect(t, d) \/ RecvAnnounce(t, d)
    \/ Timeout(t) \/ SocketError(t)

Next == (\E t \in Tasks : Task(t)) \/ (\E q \in reqs : Tracker(q))

Spec == Init /\ [][Next]_vars

(* The lookup returns, the system answers a bind, and timers expire. *)
FairSpec ==
    Spec /\ \A t \in Tasks :
              WF_vars(Resolve(t)) /\ WF_vars(Bind(t)) /\ WF_vars(Timeout(t))

-----------------------------------------------------------------------------
(* Properties. *)

Txids == Tasks \X {"connect", "announce"}
Requests ==
    [to : Trackers, port : Ports, action : {0, 1}, txid : Txids, connid : ConnId]
Replies ==
    [from : Trackers, port : Ports, action : {0, 1, 3}, txid : Txids,
     connid : ConnId, len : Nat, body : Responses \cup {None}]
Issues ==
    [id : ConnId, to : Trackers, port : Ports, txid : Txids, len : Nat]
UsablePeer == [ip : Nat, port : Port \ {0}]

(* Types of every variable; a peer that is returned can be dialled. *)
TypeOK ==
    /\ pc \in [Tasks -> Pcs]
    /\ err \in [Tasks -> Errs]
    /\ addr \in [Tasks -> Trackers]
    /\ port \in [Tasks -> Ports \cup {Zero}]
    /\ connid \in [Tasks -> ConnId]
    /\ resp \in [Tasks -> [interval : Nat, peers : Seq(UsablePeer)]]
    /\ reqs \subseteq Requests /\ reps \subseteq Replies
    /\ issued \in Seq(Issues)
    /\ offers \in [Tasks -> SUBSET [interval : Nat, peers : Seq(UsablePeer)]]
    /\ refused \subseteq Tasks /\ dups \in 0 .. MaxDup

(* The id an announce carries was issued by its own tracker to its own     *)
(* socket in answer to its own connect (udp.rs:62-65), whoever had the     *)
(* port before: all of it when the answer was whole, and of an answer cut  *)
(* short the bytes that came, with zeros after them.                       *)
IdIsMine ==
    \A t \in Tasks :
      pc[t] \in {"announce_send", "announce_recv", "ok"} =>
        \E c \in DOMAIN issued :
          /\ issued[c].to = addr[t] /\ issued[c].port = port[t]
          /\ issued[c].txid = <<t, "connect">>
          /\ issued[c].len >= 16 => connid[t] = issued[c].id
          /\ \A i \in 1 .. 8 :
               connid[t][i] = IF 8 + i <= issued[c].len THEN issued[c].id[i] ELSE 0

(* A good answer is never turned down: an announce that fails on what it    *)
(* received was refused by its tracker, or met a datagram that came twice  *)
(* or belonged to the port's earlier owner.                                *)
NoFalseAlarm ==
    \A t \in Tasks :
      err[t] \in Alarms =>
        \/ t \in refused
        \/ dups > 0
        \/ \E u \in Tasks \ {t} : port[u] = port[t]

(* A task as the owner of its JoinHandle sees it. *)
Outcome(t) ==
    CASE pc[t] = "ok"     -> [state |-> "ok", answer |-> resp[t]]
      [] pc[t] = "failed" -> [state |-> "failed"]
      [] OTHER            -> [state |-> "running"]

Abstract == INSTANCE Announce WITH
    Answers <- {Decoded(a) : a \in Responses},
    outcome <- [t \in Tasks |-> Outcome(t)]

(* Each task is an announce as cmd_download understands it: it ends, and   *)
(* what it returns is an answer that a tracker gave to its own request.    *)
ImplementsAnnounce == Abstract!Spec

(* Every announce the tracker sees carries an id it issued to that source. *)
AnnouncesAreValid == \A q \in reqs : q.action = 1 => Valid(q)

=============================================================================
