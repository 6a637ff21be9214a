------------------------------- MODULE Blocks -------------------------------
(***************************************************************************)
(* What the wire messages of src/peer/message.rs promise, without a byte:  *)
(* the reader takes the messages in the order they were sent, each one     *)
(* once; a have tells it a piece index; a block of the piece that is being *)
(* downloaded lands at its offset in the buffer and nowhere else.  The     *)
(* reader ends when the connection is gone, or at a message that it cannot *)
(* use, leaving all as it was; never at any other.  A message of a kind    *)
(* "ignored" is no more than skipped.                                      *)
(***************************************************************************)
EXTENDS Integers, Sequences

CONSTANTS
    Messages,   \* records with a kind
    Piece,      \* the index of the piece that is being downloaded
    BufLen,     \* its length
    MaxBlock    \* the longest block that a message may hold

VARIABLES
    sent,    \* the messages sent
    taken,   \* how many of them the reader took
    haves,   \* piece indices the peer announced
    buf,     \* the piece
    closed,  \* the connection is gone
    ended    \* the reader gave up

vars == <<sent, taken, haves, buf, closed, ended>>

Init ==
    /\ sent = <<>> /\ taken = 0 /\ haves = {} /\ closed = FALSE /\ ended = FALSE
    /\ buf = [o \in 1 .. BufLen |-> 0]

Send(m) ==
    /\ ~ended /\ ~closed
    /\ sent' = Append(sent, m)
    /\ UNCHANGED <<taken, haves, buf, closed, ended>>

Placed(m) ==
    [o \in 1 .. BufLen |->
       IF o \in m.begin + 1 .. m.begin + Len(m.data) THEN m.data[o - m.begin] ELSE buf[o]]

Usable(m) ==
    /\ m.kind # "malformed"
    /\ m.kind = "piece" =>
         m.index = Piece /\ m.begin + Len(m.data) <= BufLen /\ Len(m.data) <= MaxBlock

Take(m) ==
    /\ ~ended /\ taken < Len(sent) /\ m = sent[taken + 1] /\ Usable(m)
    /\ taken' = taken + 1
    /\ haves' = IF m.kind = "have" THEN haves \cup {m.index} ELSE haves
    /\ buf' = IF m.kind = "piece" THEN Placed(m) ELSE buf
    /\ UNCHANGED <<sent, closed, ended>>

Close ==
    /\ ~closed /\ closed' = TRUE
    /\ UNCHANGED <<sent, taken, haves, buf, ended>>

Stuck == taken < Len(sent) /\ ~Usable(sent[taken + 1])

End ==
    /\ ~ended /\ (closed \/ Stuck) /\ ended' = TRUE
    /\ UNCHANGED <<sent, taken, haves, buf, closed>>

Next == (\E m \in Messages : Send(m) \/ Take(m)) \/ Close \/ End

Spec == Init /\ [][Next]_vars
=============================================================================
