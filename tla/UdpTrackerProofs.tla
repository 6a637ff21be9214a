-------------------------- MODULE UdpTrackerProofs --------------------------
(***************************************************************************)
(* What holds of announces over UDP for any number of tasks, trackers and  *)
(* ports and any network: theorems about UdpTracker, with the invariants   *)
(* they rest on.                                                           *)
(***************************************************************************)
EXTENDS UdpTracker, Recursion

-----------------------------------------------------------------------------
(* The invariants. *)

Answered == {Decoded(a) : a \in Responses}

(* Types, without what PeersOf makes of an answer. *)
Shape ==
    /\ pc \in [Tasks -> Pcs] /\ err \in [Tasks -> Errs]
    /\ addr \in [Tasks -> Trackers] /\ port \in [Tasks -> Ports \cup {Zero}]
    /\ connid \in [Tasks -> ConnId]
    /\ resp \in [Tasks -> Answered \cup {None}]
    /\ reqs \subseteq Requests /\ reps \subseteq Replies
    /\ issued \in Seq(Issues)
    /\ offers \in [Tasks -> SUBSET Answered]
    /\ refused \subseteq Tasks /\ dups \in 0 .. MaxDup

Unsent == {"resolve", "bind", "connect_send"}

(* A task has its port once it is past bind, and only then.                 *)
Started ==
    \A t \in Tasks :
      /\ pc[t] \in {"resolve", "bind"} => port[t] = Zero
      /\ Open(t) \/ err[t] \in Alarms => port[t] \in Ports
      /\ pc[t] # "failed" => err[t] = "none"

(* A request was sent by the task its transaction id belongs to. *)
RequestSent(q) ==
    /\ q.port = port[q.txid[1]]
    /\ pc[q.txid[1]] \notin Unsent
    /\ q.txid[2] = "announce" => pc[q.txid[1]] \notin {"connect_recv", "announce_send"}
    /\ q.action = 0 <=> q.txid[2] = "connect"

(* A reply goes to the port of the task its transaction id belongs to, and  *)
(* says what the tracker did.                                               *)
ReplyMeant(d) ==
    /\ d.port = port[d.txid[1]]
    /\ pc[d.txid[1]] \notin Unsent
    /\ d.txid[2] = "announce" => pc[d.txid[1]] \notin {"connect_recv", "announce_send"}
    /\ d.action = 0 =>
         /\ d.txid[2] = "connect"
         /\ \E c \in DOMAIN issued :
              issued[c] = [id |-> d.connid, to |-> d.from, port |-> d.port,
                           txid |-> d.txid, len |-> d.len]
    /\ d.action = 1 =>
         /\ d.txid[2] = "announce" /\ d.len >= 20
         /\ d.body \in Responses /\ Decoded(d.body) \in offers[d.txid[1]]
    /\ d.action = 3 => d.txid[1] \in refused

Genuine == (\A q \in reqs : RequestSent(q)) /\ (\A d \in reps : ReplyMeant(d))

(* While nothing was delivered twice, an exchange is one datagram, and the  *)
(* connect exchange is over when the announce begins.                       *)
Single ==
    dups = 0 =>
      /\ \A q \in reqs, d \in reps : q.txid # d.txid
      /\ \A q, r \in reqs : q.txid = r.txid => q = r
      /\ \A d, e \in reps : d.txid = e.txid => d = e
      /\ \A t \in Tasks : pc[t] \in {"announce_send", "announce_recv"} =>
           /\ \A q \in reqs : q.txid # <<t, "connect">>
           /\ \A d \in reps : d.txid # <<t, "connect">>

UdpInv == Shape /\ Started /\ Genuine /\ Single /\ IdIsMine /\ NoFalseAlarm

-----------------------------------------------------------------------------
(* What a task makes of an answer.                                          *)

(* The loop of announce over the peers: acc[i] is what it has after i.       *)
KeepRun(acc, S, base, q) ==
    /\ acc \in [0 .. Len(q) -> S]
    /\ acc[0] = base
    /\ \A i \in 1 .. Len(q) : acc[i] = KeepUsable(acc[i - 1], q[i])
    /\ FoldLeft(KeepUsable, base, q) = acc[Len(q)]

LEMMA KeepRuns ==
  ASSUME NEW q, IsSequence(q), NEW S, NEW base \in S,
         \A x \in S, i \in DOMAIN q : KeepUsable(x, q[i]) \in S
  PROVE  \E acc : KeepRun(acc, S, base, q)
<1> DEFINE n == Len(q)
           g == [x \in S \X (1 .. n) |-> KeepUsable(x[1], q[x[2]])]
           Is(h) == h = [s \in SUBSET DOMAIN q |->
                           IF s = {} THEN base ELSE KeepUsable(h[s \ {Max(s)}], q[Max(s)])]
<1>0. n \in Nat /\ DOMAIN q = 1 .. n
  BY DEF IsSequence
<1> HIDE DEF n
<1>1. g \in [S \X (1 .. n) -> S]
  BY <1>0
<1>2. PICK f \in [SUBSET (1 .. n) -> S] :
             \A s \in SUBSET (1 .. n) : f[s] = IF s = {} THEN base ELSE KeepUsable(f[s \ {Max(s)}], q[Max(s)])
  <2>1. PICK f \in [SUBSET (1 .. n) -> S] : FoldsAs(f, base, g, n)
    <3> HIDE DEF g
    <3> QED
      BY <1>0, <1>1, FoldFor
  <2>2. ASSUME NEW s \in SUBSET (1 .. n), s # {}
        PROVE  f[s] = KeepUsable(f[s \ {Max(s)}], q[Max(s)])
    <3>1. Max(s) \in 1 .. n /\ f[s \ {Max(s)}] \in S
      BY <1>0, <2>2, Greatest
    <3>2. f[s] = g[<<f[s \ {Max(s)}], Max(s)>>]
      BY <2>1, <2>2 DEF FoldsAs
    <3> QED
      BY <3>1, <3>2
  <2>3. f[{}] = base
    BY <2>1 DEF FoldsAs
  <2> QED
    BY <2>2, <2>3
<1>3. Is(f)
  <2>1. f = [s \in SUBSET DOMAIN q |-> f[s]]
    BY <1>0
  <2> QED
    BY <1>0, <1>2, <2>1
<1> DEFINE h == CHOOSE h : Is(h)
<1>4. Is(h)
  <2> HIDE DEF Is
  <2> QED
    BY <1>3
<1>5. FoldLeft(KeepUsable, base, q) = h[DOMAIN q]
  BY DEF FoldLeft, MapThenFoldSet
<1> HIDE DEF h
<1> DEFINE acc == [i \in 0 .. n |-> h[1 .. i]]
<1>6. acc[0] = base
  <2>1. 1 .. 0 = {} /\ 0 \in 0 .. n
    BY <1>0
  <2> QED
    BY <1>4, <2>1
<1>7. ASSUME NEW i \in 1 .. n PROVE acc[i] = KeepUsable(acc[i - 1], q[i])
  <2>1. i \in Nat \ {0} /\ i \in 0 .. n /\ i - 1 \in 0 .. n /\ 1 .. i \in SUBSET DOMAIN q
    BY <1>0
  <2>2. h[1 .. i] = KeepUsable(h[1 .. i - 1], q[i])
    BY <1>4, <2>1, Seen
  <2> QED
    BY <2>1, <2>2
<1>8. FoldLeft(KeepUsable, base, q) = acc[n] /\ acc = [i \in 0 .. n |-> acc[i]]
  BY <1>0, <1>5
<1> HIDE DEF acc
<1>9. \A i \in 1 .. n : acc[i - 1] \in S => acc[i] \in S
  BY <1>0, <1>7
<1>10. \A i \in 0 .. n : acc[i] \in S
  BY <1>0, <1>6, <1>9, Loops
<1>11. acc \in [0 .. n -> S]
  BY <1>8, <1>10
<1> QED
  BY <1>6, <1>7, <1>8, <1>11 DEF n, KeepRun

LEMMA AnswerShape ==
    ASSUME NEW a \in Responses
    PROVE  a.interval \in Nat /\ a.peers \in Seq(PeerAddr) /\ MaxPeers \in Nat
BY ConstantsOK

(* What is cut off at the end of the buffer is still a sequence of peers.   *)
LEMMA FittingType ==
    ASSUME NEW a \in Responses
    PROVE  Fitting(a) \in Seq(PeerAddr)
<1> DEFINE n == IF Len(a.peers) < MaxPeers THEN Len(a.peers) ELSE MaxPeers
           none == 0
<1>1. a.peers \in Seq(PeerAddr) /\ MaxPeers \in Nat /\ Len(a.peers) \in Nat
  BY AnswerShape
<1>2. n \in Nat /\ none \in Nat /\ none + n <= Len(a.peers)
  BY <1>1
<1>3. Fitting(a) = SubSeq(a.peers, none + 1, none + n)
  BY <1>1 DEF Fitting
<1> HIDE DEF n, none
<1>4. Stretches(SubSeq(a.peers, none + 1, none + n), PeerAddr, a.peers, none, n)
  BY ONLY <1>1, <1>2, Stretch
<1> QED
  BY <1>3, <1>4 DEF Stretches

(* A peer that is returned can be dialled. *)
LEMMA KeptIsUsable ==
    ASSUME NEW s \in Seq(UsablePeer), NEW p \in PeerAddr
    PROVE  KeepUsable(s, p) \in Seq(UsablePeer)
<1>1. p.port # 0 => p \in UsablePeer
  BY Zenon DEF PeerAddr, UsablePeer
<1> QED
  BY <1>1 DEF KeepUsable

Answer == [interval : Nat, peers : Seq(UsablePeer)]

LEMMA DecodedType ==
    ASSUME NEW a \in Responses
    PROVE  Decoded(a) \in Answer
<1> DEFINE q == Fitting(a)
<1>1. q \in Seq(PeerAddr)
  BY FittingType
<1> HIDE DEF q
<1>2. /\ IsSequence(q) /\ <<>> \in Seq(UsablePeer)
      /\ \A i \in DOMAIN q : q[i] \in PeerAddr
  BY <1>1 DEF IsSequence
<1>3. \A x \in Seq(UsablePeer), i \in DOMAIN q : KeepUsable(x, q[i]) \in Seq(UsablePeer)
  BY <1>2, KeptIsUsable
<1>4. PICK acc : KeepRun(acc, Seq(UsablePeer), <<>>, q)
  BY <1>2, <1>3, KeepRuns
<1>5. FoldLeft(KeepUsable, <<>>, q) \in Seq(UsablePeer)
  BY <1>2, <1>4 DEF KeepRun, IsSequence
<1>6. PeersOf(a) \in Seq(UsablePeer)
  BY <1>5 DEF PeersOf, q
<1> QED
  BY <1>6, AnswerShape DEF Decoded, Answer

-----------------------------------------------------------------------------
(* Shape. *)

LEMMA ConstantFacts ==
    /\ Zero = 0 /\ 0 \notin Ports /\ 0 \in Nat
    /\ MaxDup \in Nat
    /\ NoId \in ConnId /\ Ids \in Seq(ConnId)
    /\ \A n \in ConnectLens : n \in Nat
    /\ \A n \in ErrorLens : n \in Nat
    /\ \A a \in Responses : Len(a.peers) \in Nat
<1>1. \A a \in Responses : a.peers \in Seq(PeerAddr)
  BY ConstantsOK
<1>2. \A a \in Responses : Len(a.peers) \in Nat
  BY <1>1
<1>3. \A n \in ConnectLens : n \in Nat
  BY ConstantsOK
<1>4. NoId \in ConnId
  BY DEF NoId, ConnId
<1> QED
  BY <1>2, <1>3, <1>4, ConstantsOK DEF Zero

(* A datagram that arrives is gone, unless it comes again. *)
LEMMA ArrivesEffect ==
    ASSUME Shape, NEW t \in Tasks, NEW d, Arrives(t, d)
    PROVE  /\ d \in reps /\ d.from = addr[t] /\ d.port = port[t]
           /\ reps' \subseteq reps /\ dups' \in 0 .. MaxDup
           /\ dups' = 0 => dups = 0 /\ reps' = reps \ {d}
           /\ UNCHANGED <<reqs, issued, offers, refused>>
<1>1. /\ dups \in 0 .. MaxDup /\ dups + 1 # 0
      /\ dups < MaxDup => dups + 1 \in 0 .. MaxDup
  BY ConstantFacts DEF Shape
<1> QED
  BY <1>1 DEF Arrives

(* So is a request that a tracker takes. *)
LEMMA TakenEffect ==
    ASSUME Shape, NEW q \in reqs, Taken(q)
    PROVE  /\ reqs' \subseteq reqs /\ dups' \in 0 .. MaxDup
           /\ dups' = 0 => dups = 0 /\ reqs' = reqs \ {q}
<1>1. /\ dups \in 0 .. MaxDup /\ dups + 1 # 0
      /\ dups < MaxDup => dups + 1 \in 0 .. MaxDup
  BY ConstantFacts DEF Shape
<1> QED
  BY <1>1 DEF Taken

(* What a task sends and a tracker answers are datagrams of their kinds. *)
LEMMA RequestType ==
    ASSUME Shape, NEW t \in Tasks, port[t] \in Ports, NEW n \in {0, 1},
           NEW phase \in {"connect", "announce"}, NEW c \in ConnId
    PROVE  Request(t, n, phase, c) \in Requests
  BY DEF Request, Requests, Shape, Txids

LEMMA ReplyType ==
    ASSUME NEW q \in Requests, NEW n \in {0, 1, 3}, NEW c \in ConnId,
           NEW l \in Nat, NEW a \in Responses \cup {None}
    PROVE  Reply(q, n, c, l, a) \in Replies
  BY DEF Reply, Replies, Requests

(* A tracker answers with the id it draws next. *)
LEMMA IssueType ==
    ASSUME NEW q \in Requests, NEW id \in ConnId, NEW n \in Nat
    PROVE  Issue(q, id, n) \in Issues
  BY DEF Issue, Issues, Requests

LEMMA NextIdType ==
    ASSUME Shape, Len(issued) < Len(Ids)
    PROVE  NextId \in ConnId
<1>1. Ids \in Seq(ConnId) /\ Len(issued) \in Nat
  BY ConstantsOK DEF Shape
<1>2. Len(issued) + 1 \in 1 .. Len(Ids)
  BY <1>1
<1> QED
  BY <1>1, <1>2 DEF NextId

LEMMA InitShape == Init => Shape
<1> SUFFICES ASSUME Init PROVE Shape
  OBVIOUS
<1>1. <<>> \in Seq(Issues)
  OBVIOUS
<1> QED
  BY <1>1, ConstantFacts DEF Init, Shape, Pcs, Errs

LEMMA NextShape == Shape /\ Started /\ Genuine /\ [Next]_vars => Shape'
<1> SUFFICES ASSUME Shape, Started, Genuine, [Next]_vars PROVE Shape'
  OBVIOUS
<1> USE ConstantFacts
<1>1. ASSUME NEW t \in Tasks, Resolve(t) \/ Timeout(t) \/ SocketError(t)
      PROVE  Shape'
  BY <1>1 DEF Resolve, Timeout, SocketError, Goto, Fail, Shape, Pcs, Errs,
              netVars
<1>2. ASSUME NEW t \in Tasks, Bind(t) PROVE Shape'
  BY <1>2, ZenonT(20) DEF Bind, Goto, Fail, Shape, Pcs, Errs, netVars
<1>3. ASSUME NEW t \in Tasks, SendConnect(t) PROVE Shape'
  <2>1. port[t] \in Ports
    BY <1>3 DEF SendConnect, Started, Open, Sending
  <2>2. Request(t, 0, "connect", NoId) \in Requests
    BY <2>1, RequestType
  <2> QED
    BY <1>3, <2>2 DEF SendConnect, Goto, Shape, Pcs
<1>4. ASSUME NEW t \in Tasks, SendAnnounce(t) PROVE Shape'
  <2>1. port[t] \in Ports
    BY <1>4 DEF SendAnnounce, Started, Open, Sending
  <2>2. Request(t, 1, "announce", connid[t]) \in Requests
    BY <2>1, RequestType DEF Shape
  <2> QED
    BY <1>4, <2>2 DEF SendAnnounce, Goto, Shape, Pcs
<1>5. ASSUME NEW t \in Tasks, NEW d \in reps, RecvConnect(t, d) PROVE Shape'
  <2>1. d \in Replies
    BY DEF Shape
  <2>2. ConnectionId(d) \in ConnId
    <3>1. d.connid \in [1 .. 8 -> 0 .. 255] /\ d.len \in Nat
      BY <2>1 DEF Replies, ConnId
    <3>2. \A i \in 1 .. 8 : d.connid[i] \in 0 .. 255
      BY <3>1
    <3>3. 0 \in 0 .. 255  OBVIOUS
    <3> QED
      BY <3>2, <3>3, Zenon DEF ConnectionId, ConnId
  <2>3. Arrives(t, d) /\ UNCHANGED <<addr, port, resp>>
    BY <1>5 DEF RecvConnect
  <2>4. pc' \in [Tasks -> Pcs] /\ err' \in [Tasks -> Errs]
    BY <1>5 DEF RecvConnect, Goto, Fail, Shape, Pcs, Errs, Alarms
  <2>5. connid' \in [Tasks -> ConnId]
    BY <1>5, <2>2 DEF RecvConnect, Shape
  <2> QED
    BY <2>3, <2>4, <2>5, ArrivesEffect DEF Shape
<1>6. ASSUME NEW t \in Tasks, NEW d \in reps, RecvAnnounce(t, d)
      PROVE  Shape'
  <2>1. d \in Replies
    BY DEF Shape
  <2>2. d.action = 1 => Decoded(d.body) \in Answered
    BY DEF Genuine, ReplyMeant, Answered
  <2>3. Arrives(t, d) /\ UNCHANGED <<addr, port, connid>>
    BY <1>6 DEF RecvAnnounce
  <2>4. pc' \in [Tasks -> Pcs] /\ err' \in [Tasks -> Errs]
    BY <1>6 DEF RecvAnnounce, Goto, Fail, Shape, Pcs, Errs, Alarms
  <2>5. resp' \in [Tasks -> Answered \cup {None}]
    BY <1>6, <2>2 DEF RecvAnnounce, Shape
  <2> QED
    BY <2>3, <2>4, <2>5, ArrivesEffect DEF Shape
<1>7. ASSUME NEW q \in reqs, AnswerConnect(q) PROVE Shape'
  <2>1. q \in Requests /\ NextId \in ConnId
    BY <1>7, NextIdType DEF Shape, AnswerConnect
  <2>2. \A n \in ConnectLens : Reply(q, 0, NextId, n, None) \in Replies
    BY <2>1, ReplyType
  <2>3. \A n \in ConnectLens : Issue(q, NextId, n) \in Issues
    BY <2>1, IssueType
  <2>4. PICK n \in ConnectLens :
             /\ issued' = Append(issued, Issue(q, NextId, n))
             /\ reps' = reps \cup {Reply(q, 0, NextId, n, None)}
    BY <1>7 DEF AnswerConnect
  <2>5. issued' \in Seq(Issues) /\ reps' \subseteq Replies
    BY <2>2, <2>3, <2>4 DEF Shape
  <2> QED
    BY <1>7, <2>5, TakenEffect DEF AnswerConnect, Shape, taskVars
<1>8. ASSUME NEW q \in reqs, NEW a \in Responses, AnswerAnnounce(q, a) PROVE Shape'
  <2>1. q \in Requests /\ 20 + 6 * Len(a.peers) \in Nat
    BY DEF Shape
  <2>2. Reply(q, 1, NoId, 20 + 6 * Len(a.peers), a) \in Replies
    BY <2>1, ReplyType
  <2>3. Decoded(a) \in Answered
    BY DEF Answered
  <2> QED
    BY <1>8, <2>2, <2>3, TakenEffect DEF AnswerAnnounce, Shape, taskVars
<1>9. ASSUME NEW q \in reqs, Refuse(q) PROVE Shape'
  <2>1. q \in Requests /\ q.txid[1] \in Tasks
    BY DEF Shape, Requests, Txids
  <2>2. \A n \in ErrorLens : Reply(q, 3, NoId, n, None) \in Replies
    BY <2>1, ReplyType
  <2> QED
    BY <1>9, <2>1, <2>2, TakenEffect DEF Refuse, Shape, taskVars
<1>10. CASE UNCHANGED vars
  BY <1>10 DEF vars, taskVars, netVars, Shape
<1> QED
  BY <1>1, <1>2, <1>3, <1>4, <1>5, <1>6, <1>7, <1>8, <1>9, <1>10
     DEF Next, Task, Tracker

-----------------------------------------------------------------------------
(* What the steps do to the state the invariants speak of. *)

(* A tracker touches no task. *)
LEMMA TrackerEffect ==
    ASSUME NEW q, Tracker(q)
    PROVE  UNCHANGED taskVars
  BY DEF Tracker, AnswerConnect, AnswerAnnounce, Refuse

(* A task changes itself only, and its port when it binds.                 *)
TaskFrame(t) ==
    /\ \E l \in Pcs : pc' = [pc EXCEPT ![t] = l]
    /\ \A u \in Tasks \ {t} :
         UNCHANGED <<pc[u], err[u], port[u], connid[u], resp[u]>>
    /\ pc[t] # "bind" => UNCHANGED port
    /\ UNCHANGED <<addr, issued, offers, refused>>

LEMMA TaskEffect ==
    ASSUME Shape, NEW t \in Tasks, Task(t)
    PROVE  TaskFrame(t)
<1>1. CASE Resolve(t) \/ Bind(t) \/ Timeout(t) \/ SocketError(t)
  BY <1>1 DEF Resolve, Bind, Timeout, SocketError, Goto, Fail, Pcs, Shape, netVars,
              TaskFrame
<1>2. CASE SendConnect(t) \/ SendAnnounce(t)
  BY <1>2 DEF SendConnect, SendAnnounce, Goto, Pcs, Shape, TaskFrame
<1>3. ASSUME NEW d \in reps, RecvConnect(t, d) PROVE TaskFrame(t)
  <2>1. UNCHANGED <<issued, offers, refused>>
    BY <1>3, ArrivesEffect DEF RecvConnect
  <2> QED
    BY <1>3, <2>1 DEF RecvConnect, Goto, Fail, Pcs, Shape, TaskFrame
<1>4. ASSUME NEW d \in reps, RecvAnnounce(t, d) PROVE TaskFrame(t)
  <2>1. UNCHANGED <<issued, offers, refused>>
    BY <1>4, ArrivesEffect DEF RecvAnnounce
  <2> QED
    BY <1>4, <2>1 DEF RecvAnnounce, Goto, Fail, Pcs, Shape, TaskFrame
<1> QED
  BY <1>1, <1>2, <1>3, <1>4 DEF Task

(* No task goes back to before it sent something, or changes its port then; *)
(* what trackers did is never undone.                                       *)
Early == Unsent \cup {"connect_recv", "announce_send"}

Forward ==
    /\ \A u \in Tasks : pc[u] \notin Unsent => pc'[u] \notin Unsent /\ port'[u] = port[u]
    /\ \A u \in Tasks : pc[u] \notin Early => pc'[u] \notin Early
    /\ \A c \in DOMAIN issued : c \in DOMAIN issued' /\ issued'[c] = issued[c]
    /\ \A u \in Tasks : offers[u] \subseteq offers'[u]
    /\ refused \subseteq refused'
    /\ UNCHANGED addr

LEMMA NextForward == Shape /\ [Next]_vars => Forward
<1> SUFFICES ASSUME Shape, [Next]_vars PROVE Forward
  OBVIOUS
<1>1. ASSUME NEW t \in Tasks, Task(t) PROVE Forward
  <2>1. TaskFrame(t)
    BY <1>1, TaskEffect
  <2>2. pc[t] \notin Unsent => pc'[t] \notin Unsent
    BY <1>1 DEF Task, Resolve, Bind, SendConnect, SendAnnounce, RecvConnect,
                RecvAnnounce, Timeout, SocketError, Goto, Fail, Unsent, Shape
  <2>3. pc[t] \notin Early => pc'[t] \notin Early
    BY <1>1 DEF Task, Resolve, Bind, SendConnect, SendAnnounce, RecvConnect,
                RecvAnnounce, Timeout, SocketError, Goto, Fail, Early, Unsent, Shape
  <2> QED
    BY <2>1, <2>2, <2>3 DEF TaskFrame, Forward, Unsent
<1>2. ASSUME NEW q \in reqs, AnswerConnect(q) PROVE Forward
  BY <1>2 DEF AnswerConnect, taskVars, Forward, Shape
<1>3. ASSUME NEW q \in reqs, NEW a \in Responses, AnswerAnnounce(q, a) PROVE Forward
  BY <1>3 DEF AnswerAnnounce, taskVars, Forward, Shape
<1>4. ASSUME NEW q \in reqs, Refuse(q) PROVE Forward
  BY <1>4 DEF Refuse, taskVars, Forward
<1>5. CASE UNCHANGED vars
  BY <1>5 DEF vars, taskVars, netVars, Forward
<1> QED
  BY <1>1, <1>2, <1>3, <1>4, <1>5 DEF Next, Tracker

(* So what was true of a datagram stays true.                               *)
LEMMA RequestKept ==
    ASSUME Shape, Forward, NEW q \in Requests, RequestSent(q)
    PROVE  RequestSent(q)'
<1>1. q.txid[1] \in Tasks
  BY DEF Requests, Txids
<1> QED
  BY <1>1 DEF RequestSent, Forward, Early

LEMMA ReplyKept ==
    ASSUME Shape, Forward, NEW d \in Replies, ReplyMeant(d)
    PROVE  ReplyMeant(d)'
<1>1. d.txid[1] \in Tasks
  BY DEF Replies, Txids
<1> QED
  BY <1>1 DEF ReplyMeant, Forward, Early

-----------------------------------------------------------------------------
(* Started. *)

LEMMA NextStarted == Shape /\ Started /\ [Next]_vars => Started'
<1> SUFFICES ASSUME Shape, Started, [Next]_vars PROVE Started'
  OBVIOUS
<1> USE DEF Started, Open, Sending, Receiving, Alarms
<1>1. ASSUME NEW t \in Tasks, Task(t) PROVE Started'
  <2>1. TaskFrame(t)
    BY <1>1, TaskEffect
  <2>2. ASSUME NEW u \in Tasks \ {t}
        PROVE  UNCHANGED <<pc[u], err[u], port[u], connid[u]>>
    BY <2>1 DEF TaskFrame
  <2>3. CASE Resolve(t)
    BY <1>1, <2>2, <2>3 DEF Resolve, Goto, Fail, Shape
  <2>4. CASE Bind(t)
    BY <1>1, <2>2, <2>4 DEF Bind, Goto, Fail, Shape
  <2>5. CASE SendConnect(t) \/ SendAnnounce(t)
    BY <1>1, <2>2, <2>5 DEF SendConnect, SendAnnounce, Goto, Shape
  <2>6. ASSUME NEW d \in reps, RecvConnect(t, d) PROVE Started'
    BY <1>1, <2>2, <2>6 DEF RecvConnect, Goto, Fail, Shape
  <2>7. ASSUME NEW d \in reps, RecvAnnounce(t, d) PROVE Started'
    BY <1>1, <2>2, <2>7 DEF RecvAnnounce, Goto, Fail, Shape
  <2>8. CASE Timeout(t) \/ SocketError(t)
    BY <1>1, <2>2, <2>8 DEF Timeout, SocketError, Fail, Shape
  <2> QED
    BY <1>1, <2>3, <2>4, <2>5, <2>6, <2>7, <2>8 DEF Task
<1>2. ASSUME NEW q \in reqs, Tracker(q) PROVE Started'
  BY <1>2, TrackerEffect DEF taskVars
<1>3. CASE UNCHANGED vars
  BY <1>3 DEF vars, taskVars
<1> QED
  BY <1>1, <1>2, <1>3 DEF Next

-----------------------------------------------------------------------------
(* Genuine: a datagram that is added is one of those its sender may send.   *)

LEMMA NextGenuine == Shape /\ Started /\ Genuine /\ [Next]_vars => Genuine'
<1> SUFFICES ASSUME Shape, Started, Genuine, [Next]_vars PROVE Genuine'
  OBVIOUS
<1>1. Forward
  BY NextForward
<1>2. /\ \A q \in reqs : RequestSent(q)'
      /\ \A d \in reps : ReplyMeant(d)'
  <2>1. reqs \subseteq Requests /\ reps \subseteq Replies
    BY DEF Shape
  <2> QED
    BY <1>1, <2>1, RequestKept, ReplyKept DEF Genuine
<1>3. CASE reqs' \subseteq reqs /\ reps' \subseteq reps
  BY <1>2, <1>3 DEF Genuine
<1>4. ASSUME NEW t \in Tasks, SendConnect(t) PROVE Genuine'
  <2>1. ASSUME NEW r, r = Request(t, 0, "connect", NoId) PROVE RequestSent(r)'
    BY <1>4, <2>1 DEF SendConnect, Goto, RequestSent, Request, Unsent, Shape
  <2> QED
    BY <1>2, <1>4, <2>1 DEF SendConnect, Genuine
<1>5. ASSUME NEW t \in Tasks, SendAnnounce(t) PROVE Genuine'
  <2>1. ASSUME NEW r, r = Request(t, 1, "announce", connid[t]) PROVE RequestSent(r)'
    BY <1>5, <2>1 DEF SendAnnounce, Goto, RequestSent, Request, Unsent, Shape
  <2> QED
    BY <1>2, <1>5, <2>1 DEF SendAnnounce, Genuine
<1>6. ASSUME NEW q \in reqs, Tracker(q) PROVE Genuine'
  <2>1. q \in Requests /\ q.txid[1] \in Tasks /\ q.to \in Trackers
    BY DEF Shape, Requests, Txids
  <2>2. reqs' \subseteq reqs
    BY <1>6, TakenEffect DEF Tracker, AnswerConnect, AnswerAnnounce, Refuse
  <2>3. /\ q.port = port'[q.txid[1]] /\ pc'[q.txid[1]] \notin Unsent
        /\ q.txid[2] = "announce" =>
             pc'[q.txid[1]] \notin {"connect_recv", "announce_send"}
        /\ q.action = 0 <=> q.txid[2] = "connect"
    BY <1>2 DEF RequestSent
  <2>4. q.txid[2] \in {"connect", "announce"}
    BY <2>1 DEF Requests, Txids
  <2>5. CASE AnswerConnect(q)
    <3>1. PICK n \in ConnectLens :
               /\ issued' = Append(issued, Issue(q, NextId, n))
               /\ reps' = reps \cup {Reply(q, 0, NextId, n, None)}
      BY <2>5 DEF AnswerConnect
    <3>0. PICK c, d : c = Len(issued) + 1 /\ d = Reply(q, 0, NextId, n, None)
      OBVIOUS
    <3>2. c \in DOMAIN issued' /\ issued'[c] = Issue(q, NextId, n)
      BY <3>0, <3>1 DEF Shape
    <3>3. /\ d.connid = NextId /\ d.from = q.to /\ d.port = q.port
          /\ d.txid = q.txid /\ d.len = n /\ d.action = 0
      BY <3>0 DEF Reply
    <3>4. issued'[c] = [id |-> d.connid, to |-> d.from, port |-> d.port,
                        txid |-> d.txid, len |-> d.len]
      BY <3>2, <3>3 DEF Issue
    <3>5. q.txid[2] = "connect"
      BY <2>3, <2>5 DEF AnswerConnect
    <3>6. ReplyMeant(d)'
      BY <2>3, <3>2, <3>3, <3>4, <3>5 DEF ReplyMeant
    <3>7. reps' = reps \cup {d}
      BY <3>0, <3>1
    <3> QED
      BY <1>2, <2>2, <3>6, <3>7 DEF Genuine
  <2>6. ASSUME NEW a \in Responses, AnswerAnnounce(q, a) PROVE Genuine'
    <3>1. q.txid[2] = "announce"
      BY <2>3, <2>4, <2>6 DEF AnswerAnnounce
    <3>2. 20 + 6 * Len(a.peers) >= 20
      BY ConstantFacts
    <3>3. Decoded(a) \in offers'[q.txid[1]]
      BY <2>1, <2>6 DEF AnswerAnnounce, Shape
    <3>4. ReplyMeant(Reply(q, 1, NoId, 20 + 6 * Len(a.peers), a))'
      BY <2>3, <3>1, <3>2, <3>3 DEF ReplyMeant, Reply
    <3> QED
      BY <1>2, <2>2, <2>6, <3>4 DEF AnswerAnnounce, Genuine
  <2>7. CASE Refuse(q)
    <3>1. ASSUME NEW n \in ErrorLens
          PROVE  ReplyMeant(Reply(q, 3, NoId, n, None))'
      BY <2>3, <2>7 DEF Refuse, ReplyMeant, Reply
    <3> QED
      BY <1>2, <2>2, <2>7, <3>1 DEF Refuse, Genuine
  <2> QED
    BY <1>6, <2>5, <2>6, <2>7 DEF Tracker
<1>7. ASSUME NEW t \in Tasks, NEW d \in reps, RecvConnect(t, d) \/ RecvAnnounce(t, d)
      PROVE  Genuine'
  BY <1>3, <1>7, ArrivesEffect DEF RecvConnect, RecvAnnounce
<1>8. ASSUME NEW t \in Tasks, Resolve(t) \/ Bind(t) \/ Timeout(t) \/ SocketError(t)
      PROVE  Genuine'
  BY <1>3, <1>8 DEF Resolve, Bind, Timeout, SocketError, netVars
<1>9. CASE UNCHANGED vars
  BY <1>3, <1>9 DEF vars, netVars
<1> QED
  BY <1>4, <1>5, <1>6, <1>7, <1>8, <1>9 DEF Next, Task

-----------------------------------------------------------------------------
(* Single. *)

(* It survives any step that adds no datagram and starts no announce.       *)
LEMMA SingleKept ==
    ASSUME Shape, Single, dups' = 0 => dups = 0,
           reqs' \subseteq reqs, reps' \subseteq reps,
           \A t \in Tasks : pc'[t] \in {"announce_send", "announce_recv"}
                             => pc'[t] = pc[t]
    PROVE  Single'
  BY DEF Single

(* A transaction id names its task and its exchange.                        *)
LEMMA TxidParts == \A t, p, x : x = <<t, p>> => x[1] = t /\ x[2] = p
  OBVIOUS

LEMMA NextSingle ==
    Shape /\ Shape' /\ Genuine /\ Single /\ [Next]_vars => Single'
<1> SUFFICES ASSUME Shape, Shape', Genuine, Single, [Next]_vars, dups' = 0
             PROVE  Single'
  BY DEF Single
<1>1. ASSUME NEW t \in Tasks, SendConnect(t) PROVE Single'
  <2>1. /\ \A q \in reqs : q.txid # <<t, "connect">>
        /\ \A d \in reps : d.txid # <<t, "connect">>
    <3>1. pc[t] = "connect_send"
      BY <1>1 DEF SendConnect
    <3>2. ASSUME NEW q \in reqs, q.txid = <<t, "connect">> PROVE FALSE
      BY <3>1, <3>2, TxidParts DEF Genuine, RequestSent, Unsent
    <3>3. ASSUME NEW d \in reps, d.txid = <<t, "connect">> PROVE FALSE
      <4>1. ReplyMeant(d) /\ d.txid[1] = t /\ d.txid[2] = "connect"
        BY <3>3, TxidParts DEF Genuine
      <4> QED
        BY <3>1, <4>1 DEF ReplyMeant, Unsent
    <3> QED
      BY <3>2, <3>3
  <2>2. PICK r : r.txid = <<t, "connect">> /\ reqs' = reqs \cup {r}
    BY <1>1 DEF SendConnect, Request
  <2>3. \A u \in Tasks : pc'[u] \in {"announce_send", "announce_recv"}
                           => u # t /\ pc'[u] = pc[u]
    BY <1>1 DEF SendConnect, Goto, Shape
  <2>4. reps' = reps /\ dups = 0
    BY <1>1 DEF SendConnect
  <2> QED
    BY <2>1, <2>2, <2>3, <2>4 DEF Single
<1>2. ASSUME NEW t \in Tasks, SendAnnounce(t) PROVE Single'
  <2>1. /\ \A q \in reqs : q.txid # <<t, "announce">>
        /\ \A d \in reps : d.txid # <<t, "announce">>
    <3>1. pc[t] = "announce_send"
      BY <1>2 DEF SendAnnounce
    <3>2. ASSUME NEW q \in reqs, q.txid = <<t, "announce">> PROVE FALSE
      BY <3>1, <3>2, TxidParts DEF Genuine, RequestSent, Unsent
    <3>3. ASSUME NEW d \in reps, d.txid = <<t, "announce">> PROVE FALSE
      <4>1. ReplyMeant(d) /\ d.txid[1] = t /\ d.txid[2] = "announce"
        BY <3>3, TxidParts DEF Genuine
      <4> QED
        BY <3>1, <4>1 DEF ReplyMeant, Unsent
    <3> QED
      BY <3>2, <3>3
  <2>2. PICK r : r.txid = <<t, "announce">> /\ reqs' = reqs \cup {r}
    BY <1>2 DEF SendAnnounce, Request
  <2>3. \A u \in Tasks : pc'[u] \in {"announce_send", "announce_recv"}
                           => pc[u] \in {"announce_send", "announce_recv"}
    BY <1>2 DEF SendAnnounce, Goto, Shape
  <2>4. reps' = reps /\ dups = 0
    BY <1>2 DEF SendAnnounce
  <2> QED
    BY <2>1, <2>2, <2>3, <2>4 DEF Single
<1>3. ASSUME NEW t \in Tasks, NEW d \in reps, RecvConnect(t, d) PROVE Single'
  <2>1. dups = 0 /\ reqs' = reqs /\ reps' = reps \ {d}
    BY <1>3, ArrivesEffect DEF RecvConnect
  <2>2. CASE pc'[t] = "failed"
    <3>1. \A u \in Tasks : pc'[u] \in {"announce_send", "announce_recv"}
                             => pc'[u] = pc[u]
      BY <1>3, <2>2 DEF RecvConnect, Goto, Fail, Shape
    <3> QED
      BY <2>1, <3>1, SingleKept
  <2>3. CASE pc'[t] # "failed"
    <3>1. d.txid = <<t, "connect">> /\ pc' = [pc EXCEPT ![t] = "announce_send"]
      BY <1>3, <2>3 DEF RecvConnect, ConnectMatches, Goto, Fail, Shape
    <3>2. /\ \A q \in reqs' : q.txid # <<t, "connect">>
          /\ \A e \in reps' : e.txid # <<t, "connect">>
      BY <2>1, <3>1 DEF Single
    <3>3. \A u \in Tasks \ {t} : pc'[u] = pc[u]
      BY <3>1 DEF Shape
    <3> QED
      BY <2>1, <3>2, <3>3 DEF Single
  <2> QED
    BY <2>2, <2>3
<1>4. ASSUME NEW t \in Tasks, NEW d \in reps, RecvAnnounce(t, d) PROVE Single'
  <2>1. dups = 0 /\ reqs' = reqs /\ reps' = reps \ {d}
    BY <1>4, ArrivesEffect DEF RecvAnnounce
  <2>2. \A u \in Tasks : pc'[u] \in {"announce_send", "announce_recv"}
                           => pc'[u] = pc[u]
    BY <1>4 DEF RecvAnnounce, Goto, Fail, Shape
  <2> QED
    BY <2>1, <2>2, SingleKept
<1>5. ASSUME NEW t \in Tasks, Resolve(t) \/ Bind(t) \/ Timeout(t) \/ SocketError(t)
      PROVE  Single'
  <2>1. UNCHANGED <<reqs, reps, dups>>
    BY <1>5 DEF Resolve, Bind, Timeout, SocketError, netVars
  <2>2. \A u \in Tasks : pc'[u] \in {"announce_send", "announce_recv"}
                           => pc'[u] = pc[u]
    BY <1>5 DEF Resolve, Bind, Timeout, SocketError, Goto, Fail, Shape
  <2> QED
    BY <2>1, <2>2, SingleKept
<1>6. ASSUME NEW q \in reqs, Tracker(q) PROVE Single'
  <2>1. dups = 0 /\ reqs' = reqs \ {q} /\ pc' = pc
    BY <1>6, TakenEffect, TrackerEffect
       DEF Tracker, AnswerConnect, AnswerAnnounce, Refuse, taskVars
  <2>2. PICK r : r.txid = q.txid /\ reps' = reps \cup {r}
    BY <1>6 DEF Tracker, AnswerConnect, AnswerAnnounce, Refuse, Reply
  <2> QED
    BY <2>1, <2>2 DEF Single
<1>7. CASE UNCHANGED vars
  BY <1>7, SingleKept DEF vars, taskVars, netVars
<1> QED
  BY <1>1, <1>2, <1>3, <1>4, <1>5, <1>6, <1>7 DEF Next, Task

-----------------------------------------------------------------------------
(* IdIsMine. *)

(* A port that was bound stays its task's.                                  *)
LEMMA PortKept ==
    ASSUME Shape, [Next]_vars, NEW u \in Tasks, pc[u] \notin {"resolve", "bind"}
    PROVE  port'[u] = port[u]
<1>1. ASSUME NEW t \in Tasks, Task(t) PROVE port'[u] = port[u]
  BY <1>1, TaskEffect DEF TaskFrame
<1>2. CASE (\E q \in reqs : Tracker(q)) \/ UNCHANGED vars
  BY <1>2, TrackerEffect DEF taskVars, vars
<1> QED
  BY <1>1, <1>2 DEF Next

(* What IdIsMine says of one task. *)
Carries(u) ==
    \E c \in DOMAIN issued :
      /\ issued[c].to = addr[u] /\ issued[c].port = port[u]
      /\ issued[c].txid = <<u, "connect">>
      /\ issued[c].len >= 16 => connid[u] = issued[c].id
      /\ \A i \in 1 .. 8 :
           connid[u][i] = IF 8 + i <= issued[c].len THEN issued[c].id[i] ELSE 0

Connected == {"announce_send", "announce_recv", "ok"}

(* Of a whole answer the whole id is kept. *)
LEMMA WholeId ==
    ASSUME NEW d \in Replies, d.len >= 16
    PROVE  ConnectionId(d) = d.connid
<1>1. d.connid \in [1 .. 8 -> 0 .. 255] /\ d.len \in Nat
  BY DEF Replies, ConnId
<1>2. \A i \in 1 .. 8 : 8 + i <= d.len
  BY <1>1
<1> QED
  BY <1>1, <1>2 DEF ConnectionId

LEMMA NextIdIsMine ==
    Shape /\ Started /\ Genuine /\ IdIsMine /\ [Next]_vars => IdIsMine'
<1> SUFFICES ASSUME Shape, Started, Genuine, IdIsMine, [Next]_vars,
                    NEW u \in Tasks, pc'[u] \in Connected
             PROVE  Carries(u)'
  BY DEF IdIsMine, Carries, Connected
<1>1. Forward
  BY NextForward
<1>2. CASE pc[u] \in Connected /\ connid'[u] = connid[u]
  <2>1. pc[u] \notin {"resolve", "bind"}
    BY <1>2 DEF Connected
  <2>2. port'[u] = port[u] /\ addr'[u] = addr[u]
    BY <1>1, <2>1, PortKept DEF Forward
  <2>3. PICK c \in DOMAIN issued :
          /\ issued[c].to = addr[u] /\ issued[c].port = port[u]
          /\ issued[c].txid = <<u, "connect">>
          /\ issued[c].len >= 16 => connid[u] = issued[c].id
          /\ \A i \in 1 .. 8 :
               connid[u][i] = IF 8 + i <= issued[c].len THEN issued[c].id[i] ELSE 0
    BY <1>2 DEF IdIsMine, Connected
  <2>4. c \in DOMAIN issued' /\ issued'[c] = issued[c]
    BY <1>1 DEF Forward
  <2> QED
    BY <1>2, <2>2, <2>3, <2>4 DEF Carries
<1>3. CASE pc[u] \notin Connected \/ connid'[u] # connid[u]
  <2>1. PICK d \in reps : RecvConnect(u, d)
    <3>1. PICK t \in Tasks : Task(t)
      BY <1>3, TrackerEffect DEF Next, vars, taskVars
    <3>2. t = u
      BY <1>3, <3>1, TaskEffect DEF TaskFrame
    <3> QED
      BY <1>3, <3>1, <3>2 DEF Task, Resolve, Bind, SendConnect, SendAnnounce,
                              RecvAnnounce, Timeout, SocketError, Goto, Fail,
                              Connected, Shape
  <2>2. /\ d.action = 0 /\ d.txid = <<u, "connect">>
        /\ connid'[u] = ConnectionId(d)
    BY <2>1 DEF RecvConnect, ConnectMatches, Fail, Connected, Shape
  <2>3. d \in Replies /\ ReplyMeant(d)
    BY DEF Shape, Genuine
  <2>4. d.from = addr[u] /\ d.port = port[u] /\ port' = port /\ addr' = addr
    BY <2>1 DEF RecvConnect, Arrives
  <2>5. PICK c \in DOMAIN issued :
             issued[c] = [id |-> d.connid, to |-> d.from, port |-> d.port,
                          txid |-> d.txid, len |-> d.len]
    BY <2>2, <2>3 DEF ReplyMeant
  <2>6. c \in DOMAIN issued' /\ issued'[c] = issued[c]
    BY <1>1 DEF Forward
  <2>7. /\ issued'[c].to = addr'[u] /\ issued'[c].port = port'[u]
        /\ issued'[c].txid = <<u, "connect">>
        /\ issued'[c].len = d.len /\ issued'[c].id = d.connid
    BY <2>2, <2>4, <2>5, <2>6
  <2>8. d.len >= 16 => connid'[u] = d.connid
    BY <2>2, <2>3, WholeId
  <2>9. \A i \in 1 .. 8 :
          connid'[u][i] = IF 8 + i <= d.len THEN d.connid[i] ELSE 0
    BY <2>2 DEF ConnectionId
  <2> QED
    BY <2>6, <2>7, <2>8, <2>9 DEF Carries
<1> QED
  BY <1>2, <1>3

-----------------------------------------------------------------------------
(* NoFalseAlarm. *)

(* What was delivered twice is never forgotten. *)
LEMMA NextDups == Shape /\ [Next]_vars => (dups' = 0 => dups = 0)
<1> SUFFICES ASSUME Shape, [Next]_vars, dups' = 0 PROVE dups = 0
  OBVIOUS
<1>1. ASSUME NEW t \in Tasks, NEW d \in reps, RecvConnect(t, d) \/ RecvAnnounce(t, d)
      PROVE  dups = 0
  BY <1>1, ArrivesEffect DEF RecvConnect, RecvAnnounce
<1>2. ASSUME NEW q \in reqs, Tracker(q) PROVE dups = 0
  BY <1>2, TakenEffect DEF Tracker, AnswerConnect, AnswerAnnounce, Refuse
<1> QED
  BY <1>1, <1>2 DEF Next, Task, Resolve, Bind, SendConnect, SendAnnounce, Timeout,
                    SocketError, netVars, vars

(* What a task turns down at the moment it turns it down. *)
LEMMA NewAlarm ==
    ASSUME Shape, Genuine, Single, dups = 0, NEW t \in Tasks, NEW d \in reps,
           RecvConnect(t, d) \/ RecvAnnounce(t, d), err'[t] \in Alarms,
           err[t] = "none", d.txid[1] = t
    PROVE  t \in refused
<1>1. d \in Replies /\ ReplyMeant(d)
  BY DEF Shape, Genuine
<1>2. d.txid = <<d.txid[1], d.txid[2]>> /\ d.action \in {0, 1, 3}
  BY <1>1 DEF Replies, Txids
<1>3. CASE d.action = 3
  BY <1>1, <1>3 DEF ReplyMeant
<1>4. CASE RecvConnect(t, d) /\ d.action # 3
  <2>1. pc[t] = "connect_recv"
    BY <1>4 DEF RecvConnect
  <2>2. d.action = 0 /\ d.txid = <<t, "connect">>
    BY <1>1, <1>2, <1>4, <2>1 DEF ReplyMeant
  <2>3. UNCHANGED err
    BY <1>4, <2>2 DEF RecvConnect, ConnectMatches, Goto
  <2> QED
    BY <2>3 DEF Alarms
<1>5. CASE RecvAnnounce(t, d) /\ d.action # 3
  <2>1. pc[t] = "announce_recv"
    BY <1>5 DEF RecvAnnounce
  <2>2. d.txid # <<t, "connect">>
    BY <2>1 DEF Single
  <2>3. d.action = 1 /\ d.txid = <<t, "announce">> /\ d.len >= 20
    BY <1>1, <1>2, <1>5, <2>2 DEF ReplyMeant
  <2>4. ~TooShort(d.len)
    BY <1>1, <2>3 DEF TooShort, Replies
  <2>5. UNCHANGED err
    BY <1>5, <2>3, <2>4 DEF RecvAnnounce, AnnounceMatches, Goto
  <2> QED
    BY <2>5 DEF Alarms
<1> QED
  BY <1>3, <1>4, <1>5

LEMMA NextAlarm ==
    /\ Shape /\ Shape' /\ Started /\ Genuine /\ Single /\ NoFalseAlarm
    /\ [Next]_vars
    => NoFalseAlarm'
<1> SUFFICES ASSUME Shape, Shape', Started, Genuine, Single, NoFalseAlarm, [Next]_vars,
                    NEW t \in Tasks, err'[t] \in Alarms, dups' = 0, t \notin refused'
             PROVE  \E u \in Tasks \ {t} : port'[u] = port'[t]
  BY DEF NoFalseAlarm, Shape
<1>1. dups = 0 /\ t \notin refused
  BY NextDups, NextForward DEF Forward
<1>2. CASE err[t] \in Alarms
  <2>1. PICK u \in Tasks \ {t} : port[u] = port[t]
    BY <1>1, <1>2 DEF NoFalseAlarm
  <2>2. port[t] \in Ports /\ port[t] # Zero
    BY <1>2, ConstantFacts DEF Started
  <2>3. pc[u] \notin {"resolve", "bind"} /\ pc[t] \notin {"resolve", "bind"}
    BY <2>1, <2>2 DEF Started
  <2> QED
    BY <2>1, <2>3, PortKept
<1>3. CASE err[t] \notin Alarms
  <2>1. PICK d \in reps : RecvConnect(t, d) \/ RecvAnnounce(t, d)
    <3>1. PICK u \in Tasks : Task(u)
      BY <1>3, TrackerEffect DEF Next, vars, taskVars
    <3>2. u = t
      BY <1>3, <3>1, TaskEffect DEF TaskFrame
    <3> QED
      BY <1>3, <3>1, <3>2 DEF Task, Resolve, Bind, SendConnect, SendAnnounce, Timeout,
                              SocketError, Goto, Fail, Alarms, Shape
  <2>2. pc[t] \in Receiving /\ d.port = port[t] /\ port' = port
    BY <2>1 DEF RecvConnect, RecvAnnounce, Arrives, Receiving
  <2>3. err[t] = "none"
    BY <2>2 DEF Started, Receiving
  <2>4. d.txid[1] # t
    BY <1>1, <2>1, <2>3, NewAlarm
  <2>5. d.txid[1] \in Tasks /\ d.port = port[d.txid[1]]
    BY DEF Shape, Replies, Txids, Genuine, ReplyMeant
  <2> QED
    BY <2>2, <2>4, <2>5
<1> QED
  BY <1>2, <1>3

-----------------------------------------------------------------------------
(* The theorems. *)

LEMMA InitInv == Init => UdpInv
<1> SUFFICES ASSUME Init PROVE UdpInv
  OBVIOUS
<1>1. Shape
  BY InitShape
<1>2. Started
  BY DEF Init, Started, Open, Sending, Receiving, Alarms
<1>3. Genuine /\ Single
  BY DEF Init, Genuine, Single
<1>4. IdIsMine /\ NoFalseAlarm
  BY DEF Init, IdIsMine, NoFalseAlarm, Alarms
<1> QED
  BY <1>1, <1>2, <1>3, <1>4 DEF UdpInv

LEMMA NextInv == UdpInv /\ [Next]_vars => UdpInv'
  BY NextShape, NextStarted, NextGenuine, NextSingle, NextIdIsMine, NextAlarm
     DEF UdpInv

LEMMA UdpInvHolds == Spec => []UdpInv
  BY InitInv, NextInv, PTL DEF Spec

(* Whatever the network does and whoever had the port before, an announce   *)
(* carries the id that was issued to this very connect (udp.rs:62-65), or,  *)
(* after an answer cut short, its first bytes with zeros after them.        *)
THEOREM IdCorrect == Spec => []IdIsMine
<1>1. UdpInv => IdIsMine
  BY DEF UdpInv
<1> QED
  BY <1>1, UdpInvHolds, PTL

(* An announce turns an answer down only if its tracker refused it, a       *)
(* datagram came twice, or its port was another task's as well.             *)
THEOREM AlarmCorrect == Spec => []NoFalseAlarm
<1>1. UdpInv => NoFalseAlarm
  BY DEF UdpInv
<1> QED
  BY <1>1, UdpInvHolds, PTL

(* Every variable keeps its type; in particular an announce returns only    *)
(* peers that can be dialled, whatever a tracker sends (udp.rs:167-176).    *)
THEOREM TypeCorrect == Spec => []TypeOK
<1>1. UdpInv => TypeOK
  <2> SUFFICES ASSUME Shape PROVE TypeOK
    BY DEF UdpInv
  <2>1. Answered \subseteq Answer
    BY DecodedType DEF Answered
  <2>2. None \in Answer
    BY DEF None, Answer
  <2>3. resp \in [Tasks -> Answer] /\ offers \in [Tasks -> SUBSET Answer]
    BY <2>1, <2>2 DEF Shape
  <2> QED
    BY <2>3 DEF Shape, TypeOK, Answer
<1> QED
  BY <1>1, UdpInvHolds, PTL

-----------------------------------------------------------------------------
(* The announces implement Announce, but for its fairness.                  *)

Outcomes == [t \in Tasks |-> Outcome(t)]

(* A step that leaves a task where it was, or running, leaves its outcome.   *)
LEMMA OutcomeKept ==
    ASSUME NEW t \in Tasks,
           \/ UNCHANGED <<pc[t], resp[t]>>
           \/ pc[t] \notin {"ok", "failed"} /\ pc'[t] \notin {"ok", "failed"}
    PROVE  Outcome(t)' = Outcome(t)
  BY DEF Outcome

LEMMA StepImplements == UdpInv /\ [Next]_vars => [Abstract!Next]_(Abstract!vars)
<1> SUFFICES ASSUME UdpInv, [Next]_vars
             PROVE  Abstract!Next \/ (offers' = offers /\ Outcomes' = Outcomes)
  BY DEF Abstract!vars, Outcomes
<1>1. Shape /\ Genuine
  BY DEF UdpInv
<1>2. ASSUME NEW t \in Tasks, Resolve(t) \/ Bind(t) \/ Timeout(t) \/ SocketError(t)
                              \/ SendConnect(t) \/ SendAnnounce(t),
             pc'[t] # "failed"
      PROVE  offers' = offers /\ Outcomes' = Outcomes
  <2>1. /\ offers' = offers /\ resp' = resp
        /\ pc[t] \notin {"ok", "failed"} /\ pc'[t] \notin {"ok", "failed"}
        /\ \A u \in Tasks \ {t} : pc'[u] = pc[u]
    BY <1>1, <1>2 DEF Resolve, Bind, Timeout, SocketError, SendConnect, SendAnnounce,
                      Goto, Fail, netVars, Shape, Open, Sending, Receiving
  <2>2. \A u \in Tasks : Outcome(u)' = Outcome(u)
    BY <2>1, OutcomeKept
  <2> QED
    BY <2>1, <2>2 DEF Outcomes
<1>3. ASSUME NEW t \in Tasks, Task(t), pc[t] # "failed", pc'[t] = "failed"
      PROVE  Abstract!Next
  <2>1. TaskFrame(t) /\ pc[t] # "ok"
    BY <1>1, <1>3, TaskEffect DEF Task, Resolve, Bind, SendConnect, SendAnnounce,
       RecvConnect, RecvAnnounce, Timeout, SocketError, Open, Sending, Receiving
  <2>2. \A u \in Tasks \ {t} : Outcome(u)' = Outcome(u)
    BY <2>1, OutcomeKept DEF TaskFrame
  <2>3. Outcome(t) = [state |-> "running"] /\ Outcome(t)' = [state |-> "failed"]
    BY <1>3, <2>1 DEF Outcome
  <2>4. Abstract!Fail(t)
    BY <2>1, <2>2, <2>3 DEF Abstract!Fail, Abstract!Running, Abstract!Failed, TaskFrame
  <2> QED
    BY <2>4 DEF Abstract!Next, Abstract!End
<1>4. ASSUME NEW t \in Tasks, NEW d \in reps, RecvConnect(t, d), pc'[t] # "failed"
      PROVE  offers' = offers /\ Outcomes' = Outcomes
  <2>1. /\ offers' = offers /\ resp' = resp
        /\ pc[t] \notin {"ok", "failed"} /\ pc'[t] \notin {"ok", "failed"}
        /\ \A u \in Tasks \ {t} : pc'[u] = pc[u]
    BY <1>1, <1>4, ArrivesEffect DEF RecvConnect, Goto, Fail, Shape
  <2>2. \A u \in Tasks : Outcome(u)' = Outcome(u)
    BY <2>1, OutcomeKept
  <2> QED
    BY <2>1, <2>2 DEF Outcomes
<1>5. ASSUME NEW t \in Tasks, NEW d \in reps, RecvAnnounce(t, d), pc'[t] # "failed"
      PROVE  Abstract!Next
  <2>1. /\ pc[t] = "announce_recv" /\ offers' = offers
        /\ pc' = [pc EXCEPT ![t] = "ok"]
        /\ resp' = [resp EXCEPT ![t] = Decoded(d.body)]
        /\ d.action = 1 /\ d.txid = <<t, "announce">>
    BY <1>1, <1>5, ArrivesEffect DEF RecvAnnounce, AnnounceMatches, Goto, Fail, Shape
  <2>2. Decoded(d.body) \in offers[t]
    <3>1. ReplyMeant(d) /\ d.txid[1] = t
      BY <1>1, <2>1, TxidParts DEF Genuine
    <3> QED
      BY <2>1, <3>1 DEF ReplyMeant
  <2>3. \A u \in Tasks \ {t} : Outcome(u)' = Outcome(u)
    BY <1>1, <2>1, OutcomeKept DEF Shape
  <2>4. /\ Outcome(t) = [state |-> "running"]
        /\ Outcome(t)' = [state |-> "ok", answer |-> Decoded(d.body)]
    BY <1>1, <2>1 DEF Outcome, Shape
  <2>5. Abstract!Succeed(t)
    BY <2>1, <2>2, <2>3, <2>4 DEF Abstract!Succeed, Abstract!Running, Abstract!Ok
  <2> QED
    BY <2>5 DEF Abstract!Next, Abstract!End
<1>6. ASSUME NEW q \in reqs, AnswerConnect(q) \/ Refuse(q)
      PROVE  offers' = offers /\ Outcomes' = Outcomes
  <2>1. UNCHANGED <<pc, resp, offers>>
    BY <1>6 DEF AnswerConnect, Refuse, taskVars
  <2> QED
    BY <2>1 DEF Outcomes, Outcome
<1>7. ASSUME NEW q \in reqs, NEW a \in Responses, AnswerAnnounce(q, a)
      PROVE  Abstract!Next
  <2>1. /\ UNCHANGED <<pc, resp>>
        /\ offers' = [offers EXCEPT ![q.txid[1]] = @ \cup {Decoded(a)}]
    BY <1>7 DEF AnswerAnnounce, taskVars
  <2>2. q.txid[1] \in Tasks
    BY <1>1 DEF Shape, Requests, Txids
  <2>3. Abstract!Offer(q.txid[1], Decoded(a))
    BY <2>1, <2>2 DEF Abstract!Offer, Outcome
  <2> QED
    BY <2>2, <2>3 DEF Abstract!Next
<1>8. CASE UNCHANGED vars
  BY <1>8 DEF vars, taskVars, netVars, Outcomes, Outcome
<1>9. ASSUME NEW t \in Tasks, Task(t) PROVE pc[t] # "failed"
  BY <1>9 DEF Task, Resolve, Bind, SendConnect, SendAnnounce, RecvConnect,
              RecvAnnounce, Timeout, SocketError, Open, Sending, Receiving
<1> QED
  BY <1>2, <1>3, <1>4, <1>5, <1>6, <1>7, <1>8, <1>9 DEF Next, Task, Tracker

(* Whatever the network does, a task returns an error or an answer that a   *)
(* tracker gave to its own announce: the safety part of ImplementsAnnounce, *)
(* on which cmd_download relies when it merges the answers.                 *)
THEOREM AnnounceCorrect == Spec => Abstract!Init /\ [][Abstract!Next]_(Abstract!vars)
<1>1. Init => Abstract!Init
  <2> SUFFICES ASSUME Init PROVE Abstract!Init
    OBVIOUS
  <2>1. \A t \in Tasks : Outcome(t) = [state |-> "running"]
    BY DEF Init, Outcome
  <2> QED
    BY <2>1 DEF Init, Abstract!Init, Abstract!Running
<1> QED
  BY <1>1, UdpInvHolds, StepImplements, PTL DEF Spec

=============================================================================
