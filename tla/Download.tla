------------------------------ MODULE Download ------------------------------
(***************************************************************************)
(* cmd_download of src/main.rs: from the torrent file to the file on disk. *)
(* One announce task per distinct tracker URL runs beside the command, and *)
(* the handles are awaited in the order of the URLs, whatever order the    *)
(* tasks end in.  A task of a udp URL is module Announce, which UdpTracker *)
(* implements, or panics; a task of an http URL is HttpTracker.            *)
(*                                                                         *)
(* External, from how main.rs uses them: download::engine (it runs on the  *)
(* merged peers, reports to a channel, ends with the data or an error, and *)
(* its sender is gone with it) and tui::dashboard (it reads the channel    *)
(* and ends when it is closed or the user leaves).                         *)
(***************************************************************************)
EXTENDS Integers, Sequences, SequencesExt

CONSTANTS
    Urls,        \* the tracker URLs a torrent may name
    UdpUrls,     \* those that start with udp://
    HttpUrls,    \* those that start with http:// or https://
    Tiers,       \* announce-list values a torrent may have
    Answers,     \* AnnounceResponses a tracker may give
    Word, BadBodies,   \* of HttpTracker
    Capacity,    \* of the stats channel: 64
    MaxTasks     \* bound: announce tasks

Byte == 0 .. 255
Port == 0 .. 65535
PeerAddr == [ip : [1 .. 4 -> Byte], port : Port]

ASSUME ConstantsOK ==
    /\ UdpUrls \subseteq Urls /\ HttpUrls \subseteq Urls \ UdpUrls
    /\ Tiers \subseteq Seq(Seq(Urls))
    /\ Answers \subseteq [interval : 0 .. Word - 1, peers : Seq(PeerAddr)]
    /\ Word \in Nat \ {0} /\ Word > 1800
    /\ Capacity \in Nat \ {0}
    /\ MaxTasks \in Nat

VARIABLES
    pc,             \* where cmd_download is
    tiers, announce,\* fields of the Metainfo
    noTui,          \* the --no-tui flag
    handles,        \* tracker_futures: the URLs that got a task
    joined,         \* handles awaited so far
    peers, interval,\* all_peers, announce_interval
    offers, outcome,\* the announce tasks: see Announce
    http,           \* and HttpTracker
    engine, tui,    \* the two tasks; "running" from their first poll
    queue,          \* stats in the channel
    disk            \* the output file: none, partial or complete

cmdVars  == <<pc, handles, joined, peers, interval>>
metaVars == <<tiers, announce, noTui>>
taskVars == <<offers, outcome, http>>
runVars  == <<engine, tui, queue>>
vars     == <<cmdVars, metaVars, taskVars, runVars, disk>>

-----------------------------------------------------------------------------
(* The URLs: every tier in order, then the primary one, each once.         *)

DuplicatesKept(urls, u) == Append(urls, u)   \* mutant

AddUrl(urls, u) == IF Contains(urls, u) THEN urls ELSE Append(urls, u)

AnnounceUrls(ts, primary) ==
    FoldLeft(AddUrl, <<>>, Append(FlattenSeq(ts), primary))

Contactable == UdpUrls \cup HttpUrls

(* An URL of another scheme is left out. *)
SpawnFor(hs, u) == IF u \in Contactable THEN Append(hs, u) ELSE hs

Spawned(ts, primary) == FoldLeft(SpawnFor, <<>>, AnnounceUrls(ts, primary))

Announces == INSTANCE Announce WITH Tasks <- 1 .. MaxTasks
Http      == INSTANCE HttpTracker WITH Tasks <- 1 .. MaxTasks

(* MaxTasks leaves no tracker out, and no bad body passes for a response.   *)
ASSUME EnoughTasks ==
    \A ts \in Tiers, u \in Urls : Len(Spawned(ts, u)) <= MaxTasks

ASSUME BadBodiesOK ==
    \A b \in BadBodies : Http!OutcomeOf(b) = Announces!Failed

(* Merge one answer: the peers that are new, in the answer's order.        *)
PeersTwice(ps, p) == Append(ps, p)   \* mutant

AddPeer(ps, p) == IF Contains(ps, p) THEN ps ELSE Append(ps, p)

MergePeers(ps, a) == FoldLeft(AddPeer, ps, a.peers)

LastInterval(i, a) == a.interval   \* mutant

MergeInterval(i, a) == IF a.interval < i THEN a.interval ELSE i

-----------------------------------------------------------------------------
Init ==
    /\ pc = "parse"
    /\ tiers \in Tiers /\ announce \in Urls /\ noTui \in BOOLEAN
    /\ handles = <<>> /\ joined = 0 /\ peers = <<>> /\ interval = 1800
    /\ Http!Init
    /\ engine = "idle" /\ tui = "idle" /\ queue = 0
    /\ disk = "none"

(* A step that main.rs ends with `?`: on to the next one, or out.           *)
Try(here, next) ==
    /\ pc = here
    /\ pc' \in {next, "error"}
    /\ UNCHANGED <<handles, joined, peers, interval, metaVars, taskVars, runVars, disk>>

Parse == Try("parse", "mkdir")          \* Metainfo::from_file
CreateDir == Try("mkdir", "spawn")      \* create_dir_all of the parent

(* The announces run from here on, beside the loop that joins them.         *)
SpawnAnnounces ==
    /\ pc = "spawn"
    /\ pc' = "join"
    /\ handles' = Spawned(tiers, announce)
    /\ UNCHANGED <<joined, peers, interval, metaVars, taskVars, runVars, disk>>

(* A spawned task goes on whether or not its handle is being awaited.       *)
Live(j) == j \in DOMAIN handles /\ pc \notin {"done", "error"}

Of(j, urls) == Live(j) /\ handles[j] \in urls

UdpOffer(j) ==
    /\ Of(j, UdpUrls) /\ outcome[j] = Announces!Running
    /\ \E a \in Answers : Announces!Offer(j, a)
    /\ UNCHANGED <<http, cmdVars, metaVars, runVars, disk>>

UdpEnd(j) ==
    /\ Of(j, UdpUrls) /\ Announces!End(j)
    /\ UNCHANGED <<http, cmdVars, metaVars, runVars, disk>>

HttpAnswer(j) ==
    /\ Of(j, HttpUrls) /\ Http!Tracker(j)
    /\ UNCHANGED <<cmdVars, metaVars, runVars, disk>>

HttpStep(j) ==
    /\ Of(j, HttpUrls) /\ Http!Step(j)
    /\ UNCHANGED <<cmdVars, metaVars, runVars, disk>>

(* One turn of the loop: handle.await, then the merge.                      *)
Join ==
    /\ pc = "join" /\ joined < Len(handles)
    /\ LET o == outcome[joined + 1]
       IN  /\ o # Announces!Running
           /\ joined' = joined + 1
           /\ IF o.state = "ok"
                THEN /\ peers' = MergePeers(peers, o.answer)
                     /\ interval' = MergeInterval(interval, o.answer)
                ELSE UNCHANGED <<peers, interval>>
    /\ UNCHANGED <<pc, handles, metaVars, taskVars, runVars, disk>>

FirstSuccess == joined > 0 /\ (peers # <<>> \/ joined = Len(handles))   \* mutant

AllJoined == joined = Len(handles)

(* No peers is an error; otherwise the engine starts, and with it the TUI.  *)
Start ==
    /\ pc = "join" /\ AllJoined
    /\ IF peers = <<>>
         THEN pc' = "error" /\ UNCHANGED <<engine, tui>>
         ELSE /\ pc' = "run" /\ engine' = "running"
              /\ tui' = IF noTui THEN "idle" ELSE "running"
    /\ UNCHANGED <<handles, joined, peers, interval, metaVars, taskVars, queue, disk>>

(* engine.download, or download_handle, is awaited; `?` on its error.       *)
EngineJoined ==
    /\ pc = "run" /\ engine # "running"
    /\ pc' = IF engine = "ok" THEN "write" ELSE "error"
    /\ UNCHANGED <<handles, joined, peers, interval, metaVars, taskVars, runVars, disk>>

WriteUnchecked ==   \* mutant: the result of fs::write ignored
    /\ pc = "write"
    /\ disk' \in {"none", "partial", "complete"}
    /\ pc' = IF noTui THEN "done" ELSE "wait_tui"
    /\ UNCHANGED <<handles, joined, peers, interval, metaVars, taskVars, runVars>>

(* fs::write opens (and truncates) the file, then writes; it may fail at    *)
(* either.                                                                  *)
Write ==
    /\ pc = "write"
    /\ \/ disk' \in {"none", "partial"} /\ pc' = "error"
       \/ disk' = "complete" /\ pc' = IF noTui THEN "done" ELSE "wait_tui"
    /\ UNCHANGED <<handles, joined, peers, interval, metaVars, taskVars, runVars>>

TuiJoined ==
    /\ pc = "wait_tui" /\ tui = "ended"
    /\ pc' = "done"
    /\ UNCHANGED <<handles, joined, peers, interval, metaVars, taskVars, runVars, disk>>

Command ==
    \/ Parse \/ CreateDir \/ SpawnAnnounces \/ Join \/ Start
    \/ EngineJoined \/ Write \/ TuiJoined

-----------------------------------------------------------------------------
(* External: the engine and the dashboard.  Once the command has returned,  *)
(* main returns and the runtime drops every task that is left.              *)

Alive == pc \notin {"done", "error"}

UnboundedChannel(n) == TRUE   \* mutant

HasRoom(n) == n < Capacity

(* A report finds room in the channel, or is dropped.                       *)
EngineReport ==
    /\ Alive /\ engine = "running" /\ HasRoom(queue)
    /\ queue' = queue + 1
    /\ UNCHANGED <<cmdVars, metaVars, taskVars, engine, tui, disk>>

EngineEnd ==
    /\ Alive /\ engine = "running"
    /\ engine' \in {"ok", "error"}
    /\ UNCHANGED <<cmdVars, metaVars, taskVars, tui, queue, disk>>

TuiRead ==
    /\ Alive /\ tui = "running" /\ queue > 0
    /\ queue' = queue - 1
    /\ UNCHANGED <<cmdVars, metaVars, taskVars, engine, tui, disk>>

TuiWaitsForUser == FALSE /\ UNCHANGED vars   \* mutant: a closed channel ignored

TuiClosed ==
    /\ Alive /\ tui = "running" /\ queue = 0 /\ engine # "running"
    /\ tui' = "ended"
    /\ UNCHANGED <<cmdVars, metaVars, taskVars, engine, queue, disk>>

TuiQuit ==
    /\ Alive /\ tui = "running"
    /\ tui' = "ended" /\ queue' = 0
    /\ UNCHANGED <<cmdVars, metaVars, taskVars, engine, disk>>

Next ==
    \/ Command
    \/ \E j \in 1 .. MaxTasks : UdpOffer(j) \/ UdpEnd(j) \/ HttpAnswer(j) \/ HttpStep(j)
    \/ EngineReport \/ EngineEnd \/ TuiRead \/ TuiClosed \/ TuiQuit

Spec == Init /\ [][Next]_vars

(* The command, the tasks and the dashboard are run when they can; a udp    *)
(* announce ends (UdpTracker), so does an HTTP request, by its timeout, and *)
(* the engine is taken to.                                                  *)
FairSpec ==
    /\ Spec
    /\ WF_vars(Command)
    /\ \A j \in 1 .. MaxTasks : WF_vars(UdpEnd(j)) /\ WF_vars(HttpStep(j))
    /\ WF_vars(EngineEnd) /\ WF_vars(TuiRead) /\ WF_vars(TuiClosed)

-----------------------------------------------------------------------------
(* Properties. *)

Named == {announce} \cup UNION {ToSet(tiers[i]) : i \in DOMAIN tiers}
Answered(n) == {outcome[j].answer : j \in {k \in 1 .. n : outcome[k].state = "ok"}}

(* Types of every variable; more handles are not joined than were spawned.  *)
TypeOK ==
    /\ pc \in {"parse", "mkdir", "spawn", "join", "run", "write", "wait_tui",
               "done", "error"}
    /\ tiers \in Tiers /\ announce \in Urls /\ noTui \in BOOLEAN
    /\ handles \in Seq(Urls) /\ joined \in 0 .. Len(handles)
    /\ ToSet(peers) \subseteq UNION {ToSet(a.peers) : a \in Answers}
    /\ interval \in 0 .. Word - 1
    /\ \A j \in DOMAIN http : http[j].stage \in {"build", "get", "got"}
    /\ engine \in {"idle", "running", "ok", "error"}
    /\ tui \in {"idle", "running", "ended"}
    /\ queue \in 0 .. Capacity
    /\ disk \in {"none", "partial", "complete"}

(* Each usable tracker the torrent names, in whatever tiers and however     *)
(* often, is contacted by exactly one task.                                 *)
ContactedOnce ==
  pc \in {"join", "run", "write", "wait_tui", "done"} =>
    ToSet(handles) = Named \cap Contactable /\ IsInjective(handles)

(* The engine gets every peer of every tracker that answered, each once:    *)
(* main.rs:223-225, "don't stop on the first success - gather as many peers *)
(* as possible", whatever order the tasks ended in.                         *)
AllPeersGathered ==
    engine # "idle" =>
      /\ ToSet(peers) = UNION {ToSet(a.peers) : a \in Answered(Len(handles))}
      /\ IsInjective(peers)

(* Whatever a tracker sends, an announce ends once, with an error or with   *)
(* the very response it was offered: an HTTP body that carries a response   *)
(* is understood, negative casts and all, and a bad one is not.             *)
TasksAnnounce == [][Announces!Next]_Announces!vars

(* The re-announce interval that is reported (main.rs:279-283) is the       *)
(* shortest a joined tracker asked for, and at most 1800 s.                 *)
ShortestInterval ==
    LET asked == {1800} \cup {a.interval : a \in Answered(joined)}
    IN  interval \in asked /\ \A i \in asked : interval <= i

(* The command succeeds only with the whole file on disk and the dashboard  *)
(* gone, and writes nothing of a download that failed (the engine, which    *)
(* is given the path too, main.rs:298, is taken not to write to it).        *)
SavedOnSuccess ==
    /\ pc = "done" => disk = "complete" /\ tui # "running"
    /\ disk # "none" => engine = "ok"

(* The command ends, with the file or with an error.                        *)
CommandEnds == <>(pc \in {"done", "error"})

(* main.rs:313 "TUI will exit when download finishes", main.rs:319 "Wait    *)
(* for TUI to clean up": no return leaves the dashboard running.            *)
TuiCleanedUp == pc \in {"done", "error"} => tui # "running"

=============================================================================
