------------------------------ MODULE Announce ------------------------------
(***************************************************************************)
(* What one announce promises cmd_download, whichever tracker module runs  *)
(* it: a spawned task ends, with an error or with an AnnounceResponse that *)
(* the tracker offered to this very task.                                  *)
(***************************************************************************)
CONSTANTS Tasks,     \* the spawned announces
          Answers    \* the AnnounceResponses there can be

Running == [state |-> "running"]
Failed  == [state |-> "failed"]
Ok(a)   == [state |-> "ok", answer |-> a]

VARIABLES offers,    \* offers[t]: what trackers answered to t
          outcome    \* outcome[t]: the task's JoinHandle

vars == <<offers, outcome>>

Init ==
    /\ offers = [t \in Tasks |-> {}]
    /\ outcome = [t \in Tasks |-> Running]

(* A tracker answers; the answer may be lost on its way, or come too late. *)
Offer(t, a) ==
    /\ offers' = [offers EXCEPT ![t] = @ \cup {a}]
    /\ UNCHANGED outcome

Succeed(t) ==
    /\ outcome[t] = Running
    /\ \E a \in offers[t] : outcome' = [outcome EXCEPT ![t] = Ok(a)]
    /\ UNCHANGED offers

Fail(t) ==
    /\ outcome[t] = Running
    /\ outcome' = [outcome EXCEPT ![t] = Failed]
    /\ UNCHANGED offers

End(t) == Succeed(t) \/ Fail(t)

Next == \E t \in Tasks : (\E a \in Answers : Offer(t, a)) \/ End(t)

Spec == Init /\ [][Next]_vars /\ \A t \in Tasks : WF_vars(End(t))
=============================================================================
