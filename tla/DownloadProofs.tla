---------------------------- MODULE DownloadProofs ----------------------------
(***************************************************************************)
(* Proofs about Download: what the command leaves on disk, what it hands   *)
(* to the engine, and the re-announce interval it reports.                 *)
(***************************************************************************)
EXTENDS Download, Recursion

(* Where the command is decides what became of the engine, the dashboard    *)
(* and the file.                                                            *)
Progress ==
    /\ pc \in {"parse", "mkdir", "spawn", "join"} =>
         engine = "idle" /\ tui = "idle" /\ disk = "none"
    /\ pc = "run" => disk = "none"
    /\ pc = "write" => disk = "none" /\ engine = "ok"
    /\ pc = "wait_tui" => disk = "complete" /\ engine = "ok"
    /\ pc = "done" => disk = "complete" /\ engine = "ok" /\ tui # "running"
    /\ disk # "none" => engine = "ok"
    /\ noTui => tui = "idle"

LEMMA InitProgress == Init => Progress
BY DEF Init, Progress

LEMMA StepProgress == Progress /\ [Next]_vars => Progress'
<1> SUFFICES ASSUME Progress, [Next]_vars PROVE Progress'
  OBVIOUS
<1>1. CASE Parse \/ CreateDir
  BY <1>1 DEF Parse, CreateDir, Try, Progress, metaVars, taskVars, runVars
<1>2. CASE SpawnAnnounces
  BY <1>2 DEF SpawnAnnounces, Progress, metaVars, taskVars, runVars
<1>3. CASE Join
  BY <1>3 DEF Join, Progress, metaVars, taskVars, runVars
<1>4. CASE Start
  BY <1>4 DEF Start, Progress, metaVars, taskVars
<1>5. CASE EngineJoined
  BY <1>5 DEF EngineJoined, Progress, metaVars, taskVars, runVars
<1>6. CASE Write
  BY <1>6 DEF Write, Progress, metaVars, taskVars, runVars
<1>7. CASE TuiJoined
  BY <1>7 DEF TuiJoined, Progress, metaVars, taskVars, runVars
<1>8. ASSUME NEW j \in 1 .. MaxTasks,
             UdpOffer(j) \/ UdpEnd(j) \/ HttpAnswer(j) \/ HttpStep(j)
      PROVE  Progress'
  <2>1. UNCHANGED <<cmdVars, metaVars, runVars, disk>>
    BY <1>8 DEF UdpOffer, UdpEnd, HttpAnswer, HttpStep
  <2> QED
    BY <2>1 DEF Progress, cmdVars, metaVars, runVars
<1>9. CASE EngineReport \/ TuiRead
  BY <1>9 DEF EngineReport, TuiRead, Progress, cmdVars, metaVars, taskVars
<1>10. CASE EngineEnd
  BY <1>10 DEF EngineEnd, Alive, Progress, cmdVars, metaVars, taskVars
<1>11. CASE TuiClosed \/ TuiQuit
  BY <1>11 DEF TuiClosed, TuiQuit, Progress, cmdVars, metaVars, taskVars
<1>12. CASE UNCHANGED vars
  BY <1>12 DEF vars, cmdVars, metaVars, runVars, Progress
<1> QED
  BY <1>1, <1>2, <1>3, <1>4, <1>5, <1>6, <1>7, <1>8, <1>9, <1>10, <1>11, <1>12
  DEF Next, Command

(* Whatever trackers, engine, dashboard and file system do, the command     *)
(* succeeds only with the whole file on disk and no dashboard on the        *)
(* terminal, and writes nothing of a download that failed.                  *)
THEOREM SavedCorrect == Spec => []SavedOnSuccess
<1>1. Progress => SavedOnSuccess
  BY DEF Progress, SavedOnSuccess
<1> QED
  BY <1>1, InitProgress, StepProgress, PTL DEF Spec

-----------------------------------------------------------------------------
(* The loops over sequences. *)

(* A loop of AddPeer: what is gathered after each element.                  *)
AddRun(acc, S, base, q) ==
    /\ acc \in [0 .. Len(q) -> S]
    /\ acc[0] = base
    /\ \A i \in 1 .. Len(q) : acc[i] = AddPeer(acc[i - 1], q[i])
    /\ FoldLeft(AddPeer, base, q) = acc[Len(q)]

LEMMA AddRuns ==
  ASSUME NEW q, IsSequence(q), NEW S, NEW base \in S,
         \A x \in S, i \in DOMAIN q : AddPeer(x, q[i]) \in S
  PROVE  \E acc : AddRun(acc, S, base, q)
<1> DEFINE n == Len(q)
           g == [x \in S \X (1 .. n) |-> AddPeer(x[1], q[x[2]])]
           Is(h) == h = [s \in SUBSET DOMAIN q |->
                           IF s = {} THEN base ELSE AddPeer(h[s \ {Max(s)}], q[Max(s)])]
<1>0. n \in Nat /\ DOMAIN q = 1 .. n
  BY DEF IsSequence
<1> HIDE DEF n
<1>1. g \in [S \X (1 .. n) -> S]
  BY <1>0
<1>2. PICK f \in [SUBSET (1 .. n) -> S] :
             \A s \in SUBSET (1 .. n) : f[s] = IF s = {} THEN base ELSE AddPeer(f[s \ {Max(s)}], q[Max(s)])
  <2>1. PICK f \in [SUBSET (1 .. n) -> S] : FoldsAs(f, base, g, n)
    <3> HIDE DEF g
    <3> QED
      BY <1>0, <1>1, FoldFor
  <2>2. ASSUME NEW s \in SUBSET (1 .. n), s # {}
        PROVE  f[s] = AddPeer(f[s \ {Max(s)}], q[Max(s)])
    <3>1. Max(s) \in 1 .. n /\ f[s \ {Max(s)}] \in S
      BY <1>0, <2>2, Greatest
    <3>2. f[s] = g[<<f[s \ {Max(s)}], Max(s)>>]
      BY <2>1, <2>2 DEF FoldsAs
    <3> QED
      BY <3>1, <3>2
  <2>3. f[{}] = base
    BY <2>1 DEF FoldsAs
  <2> QED
    BY <2>2, <2>3
<1>3. Is(f)
  <2>1. f = [s \in SUBSET DOMAIN q |-> f[s]]
    BY <1>0
  <2> QED
    BY <1>0, <1>2, <2>1
<1> DEFINE h == CHOOSE h : Is(h)
<1>4. Is(h)
  <2> HIDE DEF Is
  <2> QED
    BY <1>3
<1>5. FoldLeft(AddPeer, base, q) = h[DOMAIN q]
  BY DEF FoldLeft, MapThenFoldSet
<1> HIDE DEF h
<1> DEFINE acc == [i \in 0 .. n |-> h[1 .. i]]
<1>6. acc[0] = base
  <2>1. 1 .. 0 = {} /\ 0 \in 0 .. n
    BY <1>0
  <2> QED
    BY <1>4, <2>1
<1>7. ASSUME NEW i \in 1 .. n PROVE acc[i] = AddPeer(acc[i - 1], q[i])
  <2>1. i \in Nat \ {0} /\ i \in 0 .. n /\ i - 1 \in 0 .. n /\ 1 .. i \in SUBSET DOMAIN q
    BY <1>0
  <2>2. h[1 .. i] = AddPeer(h[1 .. i - 1], q[i])
    BY <1>4, <2>1, Seen
  <2> QED
    BY <2>1, <2>2
<1>8. FoldLeft(AddPeer, base, q) = acc[n] /\ acc = [i \in 0 .. n |-> acc[i]]
  BY <1>0, <1>5
<1> HIDE DEF acc
<1>9. \A i \in 1 .. n : acc[i - 1] \in S => acc[i] \in S
  BY <1>0, <1>7
<1>10. \A i \in 0 .. n : acc[i] \in S
  BY <1>0, <1>6, <1>9, Loops
<1>11. acc \in [0 .. n -> S]
  BY <1>8, <1>10
<1> QED
  BY <1>6, <1>7, <1>8, <1>11 DEF n, AddRun

LEMMA AddOne ==
  ASSUME NEW E, NEW ps \in Seq(E), NEW p \in E, IsInjective(ps)
  PROVE  /\ AddPeer(ps, p) \in Seq(E)
         /\ ToSet(AddPeer(ps, p)) = ToSet(ps) \cup {p}
         /\ IsInjective(AddPeer(ps, p))
<1>1. CASE Contains(ps, p)
  BY <1>1 DEF AddPeer, Contains, ToSet
<1>2. CASE ~Contains(ps, p)
  <2> DEFINE c == Append(ps, p)
  <2>1. /\ DOMAIN ps = 1 .. Len(ps) /\ DOMAIN c = 1 .. Len(ps) + 1 /\ Len(ps) \in Nat
        /\ c \in Seq(E) /\ c[Len(ps) + 1] = p
        /\ \A i \in 1 .. Len(ps) : c[i] = ps[i]
    BY AppendProperties, LenProperties
  <2> HIDE DEF c
  <2>2. \A i \in DOMAIN c : i \in DOMAIN ps \/ i = Len(ps) + 1
    BY <2>1
  <2>3. \A i \in DOMAIN ps : ps[i] # p
    BY <1>2, <2>1 DEF Contains
  <2>4. IsInjective(c)
    BY <2>1, <2>2, <2>3 DEF IsInjective
  <2>5. AddPeer(ps, p) = c
    BY <1>2 DEF AddPeer, c
  <2>6. ToSet(c) = ToSet(ps) \cup {p}
    BY AppendSet DEF c
  <2> QED
    BY <2>1, <2>4, <2>5, <2>6
<1> QED
  BY <1>1, <1>2

(* What is new is added, each once.                                         *)
LEMMA AddAll ==
  ASSUME NEW E, NEW base \in Seq(E), NEW q \in Seq(E), IsInjective(base)
  PROVE  LET r == FoldLeft(AddPeer, base, q)
         IN  r \in Seq(E) /\ ToSet(r) = ToSet(base) \cup ToSet(q) /\ IsInjective(r)
<1> DEFINE n == Len(q)
           Before(k) == {q[i] : i \in 1 .. k}
<1>1. PICK acc : AddRun(acc, Seq(E), base, q)
  <2>1. IsSequence(q) /\ \A x \in Seq(E), i \in DOMAIN q : AddPeer(x, q[i]) \in Seq(E)
    BY DEF AddPeer, IsSequence
  <2> QED
    BY <2>1, AddRuns
<1>0. n \in Nat /\ DOMAIN q = 1 .. n /\ \A i \in 1 .. n : q[i] \in E
  OBVIOUS
<1>a. /\ acc[0] = base
      /\ \A i \in 1 .. n : acc[i] = AddPeer(acc[i - 1], q[i])
      /\ FoldLeft(AddPeer, base, q) = acc[n]
  BY <1>1 DEF AddRun
<1> DEFINE T == {k \in Nat : k <= n =>
                   /\ acc[k] \in Seq(E) /\ IsInjective(acc[k])
                   /\ ToSet(acc[k]) = ToSet(base) \cup Before(k)}
<1> HIDE DEF n
<1>2. 0 \in T
  <2>1. Before(0) = {}
    OBVIOUS
  <2> QED
    BY <1>a, <2>1
<1>3. ASSUME NEW k \in 0 .. n - 1, k \in T PROVE k + 1 \in T
  <2>1. k + 1 \in 1 .. n /\ k \in Nat /\ k + 1 \in Nat /\ k <= n /\ (k + 1) - 1 = k
    BY <1>0
  <2>2. acc[k + 1] = AddPeer(acc[k], q[k + 1]) /\ q[k + 1] \in E
    BY <1>0, <1>a, <2>1
  <2>3. /\ acc[k] \in Seq(E) /\ IsInjective(acc[k])
        /\ ToSet(acc[k]) = ToSet(base) \cup Before(k)
    BY <1>3, <2>1
  <2>4. /\ acc[k + 1] \in Seq(E) /\ IsInjective(acc[k + 1])
        /\ ToSet(acc[k + 1]) = ToSet(acc[k]) \cup {q[k + 1]}
    <3> DEFINE a == acc[k]
               x == q[k + 1]
    <3>1. a \in Seq(E) /\ IsInjective(a) /\ x \in E /\ acc[k + 1] = AddPeer(a, x)
      BY <2>2, <2>3
    <3> HIDE DEF a, x
    <3>2. /\ AddPeer(a, x) \in Seq(E) /\ IsInjective(AddPeer(a, x))
          /\ ToSet(AddPeer(a, x)) = ToSet(a) \cup {x}
      BY ONLY <3>1, AddOne
    <3> QED
      BY <3>1, <3>2 DEF a, x
  <2>5. Before(k + 1) = Before(k) \cup {q[k + 1]}
    <3>1. 1 .. k + 1 = (1 .. k) \cup {k + 1}
      BY <2>1
    <3> QED
      BY <3>1
  <2>6. ToSet(acc[k + 1]) = ToSet(base) \cup Before(k + 1)
    <3> HIDE DEF Before
    <3> QED
      BY <2>3, <2>4, <2>5
  <2> HIDE DEF Before
  <2> QED
    BY <2>1, <2>4, <2>6
<1> HIDE DEF T
<1>4. n \in T
  <2>1. n \in Nat
    BY <1>0
  <2>2. 0 .. n \subseteq T
    BY ONLY <1>2, <1>3, <2>1, UpTo
  <2> QED
    BY <2>1, <2>2
<1>5. Before(n) = ToSet(q) /\ n <= n
  BY <1>0 DEF ToSet
<1> QED
  BY <1>a, <1>4, <1>5 DEF T

(* A loop of SpawnFor: the handles after each URL.                           *)
SpawnRun(acc, S, base, q) ==
    /\ acc \in [0 .. Len(q) -> S]
    /\ acc[0] = base
    /\ \A i \in 1 .. Len(q) : acc[i] = SpawnFor(acc[i - 1], q[i])
    /\ FoldLeft(SpawnFor, base, q) = acc[Len(q)]

LEMMA SpawnRuns ==
  ASSUME NEW q, IsSequence(q), NEW S, NEW base \in S,
         \A x \in S, i \in DOMAIN q : SpawnFor(x, q[i]) \in S
  PROVE  \E acc : SpawnRun(acc, S, base, q)
<1> DEFINE n == Len(q)
           g == [x \in S \X (1 .. n) |-> SpawnFor(x[1], q[x[2]])]
           Is(h) == h = [s \in SUBSET DOMAIN q |->
                           IF s = {} THEN base ELSE SpawnFor(h[s \ {Max(s)}], q[Max(s)])]
<1>0. n \in Nat /\ DOMAIN q = 1 .. n
  BY DEF IsSequence
<1> HIDE DEF n
<1>1. g \in [S \X (1 .. n) -> S]
  BY <1>0
<1>2. PICK f \in [SUBSET (1 .. n) -> S] :
             \A s \in SUBSET (1 .. n) : f[s] = IF s = {} THEN base ELSE SpawnFor(f[s \ {Max(s)}], q[Max(s)])
  <2>1. PICK f \in [SUBSET (1 .. n) -> S] : FoldsAs(f, base, g, n)
    <3> HIDE DEF g
    <3> QED
      BY <1>0, <1>1, FoldFor
  <2>2. ASSUME NEW s \in SUBSET (1 .. n), s # {}
        PROVE  f[s] = SpawnFor(f[s \ {Max(s)}], q[Max(s)])
    <3>1. Max(s) \in 1 .. n /\ f[s \ {Max(s)}] \in S
      BY <1>0, <2>2, Greatest
    <3>2. f[s] = g[<<f[s \ {Max(s)}], Max(s)>>]
      BY <2>1, <2>2 DEF FoldsAs
    <3> QED
      BY <3>1, <3>2
  <2>3. f[{}] = base
    BY <2>1 DEF FoldsAs
  <2> QED
    BY <2>2, <2>3
<1>3. Is(f)
  <2>1. f = [s \in SUBSET DOMAIN q |-> f[s]]
    BY <1>0
  <2> QED
    BY <1>0, <1>2, <2>1
<1> DEFINE h == CHOOSE h : Is(h)
<1>4. Is(h)
  <2> HIDE DEF Is
  <2> QED
    BY <1>3
<1>5. FoldLeft(SpawnFor, base, q) = h[DOMAIN q]
  BY DEF FoldLeft, MapThenFoldSet
<1> HIDE DEF h
<1> DEFINE acc == [i \in 0 .. n |-> h[1 .. i]]
<1>6. acc[0] = base
  <2>1. 1 .. 0 = {} /\ 0 \in 0 .. n
    BY <1>0
  <2> QED
    BY <1>4, <2>1
<1>7. ASSUME NEW i \in 1 .. n PROVE acc[i] = SpawnFor(acc[i - 1], q[i])
  <2>1. i \in Nat \ {0} /\ i \in 0 .. n /\ i - 1 \in 0 .. n /\ 1 .. i \in SUBSET DOMAIN q
    BY <1>0
  <2>2. h[1 .. i] = SpawnFor(h[1 .. i - 1], q[i])
    BY <1>4, <2>1, Seen
  <2> QED
    BY <2>1, <2>2
<1>8. FoldLeft(SpawnFor, base, q) = acc[n] /\ acc = [i \in 0 .. n |-> acc[i]]
  BY <1>0, <1>5
<1> HIDE DEF acc
<1>9. \A i \in 1 .. n : acc[i - 1] \in S => acc[i] \in S
  BY <1>0, <1>7
<1>10. \A i \in 0 .. n : acc[i] \in S
  BY <1>0, <1>6, <1>9, Loops
<1>11. acc \in [0 .. n -> S]
  BY <1>8, <1>10
<1> QED
  BY <1>6, <1>7, <1>8, <1>11 DEF n, SpawnRun

(* A task for each of the distinct URLs that can be contacted.               *)
LEMMA SpawnAll ==
  ASSUME NEW E, NEW q \in Seq(E), IsInjective(q)
  PROVE  LET r == FoldLeft(SpawnFor, <<>>, q)
         IN  r \in Seq(E) /\ ToSet(r) = ToSet(q) \cap Contactable /\ IsInjective(r)
<1> DEFINE n == Len(q)
           Before(k) == {q[i] : i \in 1 .. k} \cap Contactable
<1>1. PICK acc : SpawnRun(acc, Seq(E), <<>>, q)
  <2>1. IsSequence(q) /\ <<>> \in Seq(E) /\ \A x \in Seq(E), i \in DOMAIN q : SpawnFor(x, q[i]) \in Seq(E)
    BY DEF SpawnFor, IsSequence
  <2> QED
    BY <2>1, SpawnRuns
<1>0. n \in Nat /\ DOMAIN q = 1 .. n /\ \A i \in 1 .. n : q[i] \in E
  OBVIOUS
<1>a. /\ acc[0] = <<>>
      /\ \A i \in 1 .. n : acc[i] = SpawnFor(acc[i - 1], q[i])
      /\ FoldLeft(SpawnFor, <<>>, q) = acc[n]
  BY <1>1 DEF SpawnRun
<1> DEFINE T == {k \in Nat : k <= n =>
                   /\ acc[k] \in Seq(E) /\ IsInjective(acc[k])
                   /\ ToSet(acc[k]) = Before(k)}
<1> HIDE DEF n
<1>2. 0 \in T
  <2>1. Before(0) = {} /\ ToSet(<<>>) = {} /\ IsInjective(<<>>) /\ <<>> \in Seq(E)
    BY DEF ToSet, IsInjective
  <2> QED
    BY <1>a, <2>1
<1>3. ASSUME NEW k \in 0 .. n - 1, k \in T PROVE k + 1 \in T
  <2> DEFINE a == acc[k]
             x == q[k + 1]
  <2>1. k + 1 \in 1 .. n /\ k \in Nat /\ k + 1 \in Nat /\ k <= n /\ (k + 1) - 1 = k
    BY <1>0
  <2>2. acc[k + 1] = SpawnFor(a, x) /\ x \in E
    BY <1>0, <1>a, <2>1
  <2>3. a \in Seq(E) /\ IsInjective(a) /\ ToSet(a) = Before(k)
    BY <1>3, <2>1
  <2>4. Before(k + 1) = Before(k) \cup ({x} \cap Contactable)
    <3>1. 1 .. k + 1 = (1 .. k) \cup {k + 1}
      BY <2>1
    <3> QED
      BY <3>1
  <2>5. x \notin Before(k)
    BY <1>0, <2>1 DEF IsInjective
  <2> HIDE DEF Before, a, x
  <2>6. CASE x \in Contactable
    <3>1. ~Contains(a, x)
      BY <2>3, <2>5 DEF Contains, ToSet
    <3>2. SpawnFor(a, x) = AddPeer(a, x)
      BY <2>6, <3>1 DEF SpawnFor, AddPeer
    <3>3. /\ AddPeer(a, x) \in Seq(E) /\ IsInjective(AddPeer(a, x))
          /\ ToSet(AddPeer(a, x)) = ToSet(a) \cup {x}
      BY ONLY <2>2, <2>3, AddOne
    <3> QED
      BY <2>1, <2>2, <2>3, <2>4, <2>6, <3>2, <3>3
  <2>7. CASE x \notin Contactable
    BY <2>1, <2>2, <2>3, <2>4, <2>7 DEF SpawnFor
  <2> QED
    BY <2>6, <2>7
<1> HIDE DEF T
<1>4. n \in T
  <2>1. n \in Nat
    BY <1>0
  <2>2. 0 .. n \subseteq T
    BY ONLY <1>2, <1>3, <2>1, UpTo
  <2> QED
    BY <2>1, <2>2
<1>5. Before(n) = ToSet(q) \cap Contactable /\ n <= n
  BY <1>0 DEF ToSet
<1> QED
  BY <1>a, <1>4, <1>5 DEF T

(* The URLs of the tiers and the primary one, each once.                    *)
LEMMA AllUrls ==
  ASSUME NEW ts \in Seq(Seq(Urls)), NEW u \in Urls
  PROVE  LET r == AnnounceUrls(ts, u)
         IN  /\ r \in Seq(Urls) /\ IsInjective(r)
             /\ ToSet(r) = {u} \cup UNION {ToSet(ts[i]) : i \in DOMAIN ts}
<1> DEFINE flat == FlattenSeq(ts)
           q == Append(flat, u)
<1>1. flat \in Seq(Urls) /\ ToSet(flat) = UNION {ToSet(ts[i]) : i \in DOMAIN ts}
  BY FlattenedSet
<1> HIDE DEF flat
<1>2. q \in Seq(Urls) /\ ToSet(q) = ToSet(flat) \cup {u}
  BY <1>1, AppendSet
<1>3. AnnounceUrls(ts, u) = FoldLeft(AddPeer, <<>>, q)
  BY DEF AnnounceUrls, FoldLeft, MapThenFoldSet, AddUrl, AddPeer, flat
<1> HIDE DEF q
<1> DEFINE none == <<>>
           r == FoldLeft(AddPeer, none, q)
<1>4. ToSet(none) = {} /\ IsInjective(none) /\ none \in Seq(Urls)
  BY DEF ToSet, IsInjective
<1> HIDE DEF none
<1>5. r \in Seq(Urls) /\ ToSet(r) = ToSet(none) \cup ToSet(q) /\ IsInjective(r)
  BY ONLY <1>2, <1>4, AddAll
<1>6. AnnounceUrls(ts, u) = r
  BY <1>3 DEF none
<1> HIDE DEF r
<1>7. ToSet(r) = {u} \cup ToSet(flat)
  BY ONLY <1>2, <1>4, <1>5
<1> QED
  BY ONLY <1>1, <1>5, <1>6, <1>7

LEMMA AllSpawned ==
  ASSUME NEW ts \in Seq(Seq(Urls)), NEW u \in Urls
  PROVE  LET r == Spawned(ts, u)
         IN  /\ r \in Seq(Urls) /\ IsInjective(r)
             /\ ToSet(r) = ({u} \cup UNION {ToSet(ts[i]) : i \in DOMAIN ts}) \cap Contactable
<1> DEFINE q == AnnounceUrls(ts, u)
<1>1. /\ q \in Seq(Urls) /\ IsInjective(q)
      /\ ToSet(q) = {u} \cup UNION {ToSet(ts[i]) : i \in DOMAIN ts}
  BY AllUrls
<1>2. Spawned(ts, u) = FoldLeft(SpawnFor, <<>>, q)
  BY DEF Spawned
<1> HIDE DEF q
<1> QED
  BY <1>1, <1>2, SpawnAll

-----------------------------------------------------------------------------
(* What an HTTP tracker answers is what the task understands. *)

LEMMA WordOK == Word \in Nat /\ Word > 0
BY ConstantsOK

LEMMA AnswersOK ==
  ASSUME NEW a \in Answers
  PROVE  /\ a = [interval |-> a.interval, peers |-> a.peers]
         /\ a.interval \in 0 .. Word - 1 /\ a.peers \in Seq(PeerAddr)
BY ConstantsOK

(* The casts of http.rs: an i64 that is read as an u64 is what it was.      *)
LEMMA CastBack ==
  ASSUME NEW i \in 0 .. Word - 1
  PROVE  i % Word = i /\ (i - Word) % Word = i
BY WordOK

LEMMA PeerShape ==
  ASSUME NEW p \in PeerAddr
  PROVE  /\ p.ip \in [1 .. 4 -> Byte] /\ p.port \in Port
         /\ p = [ip |-> p.ip, port |-> p.port]
BY DEF PeerAddr

LEMMA PortBytes ==
  ASSUME NEW x \in Port
  PROVE  x \div 256 \in Byte /\ x % 256 \in Byte /\ 256 * (x \div 256) + (x % 256) = x
BY SMTT(40) DEF Byte, Port

Bytes(p) == p.ip \o <<p.port \div 256, p.port % 256>>

LEMMA BytesOfPeer ==
  ASSUME NEW p \in PeerAddr
  PROVE  /\ Bytes(p) \in Seq(Byte) /\ Len(Bytes(p)) = 6
         /\ \A j \in 1 .. 4 : Bytes(p)[j] = p.ip[j]
         /\ 256 * Bytes(p)[5] + Bytes(p)[6] = p.port
<1> DEFINE ip == p.ip
           hi == p.port \div 256
           lo == p.port % 256
           port == <<hi, lo>>
           c == ip \o port
           four == 4
           two == 2
<1>0. ip \in [1 .. four -> Byte] /\ p.port \in Port
  BY PeerShape
<1>2. hi \in Byte /\ lo \in Byte /\ 256 * hi + lo = p.port
  BY <1>0, PortBytes
<1> HIDE DEF hi, lo, ip
<1>3. port \in Seq(Byte) /\ Len(port) = two /\ port[1] = hi /\ port[2] = lo
  BY <1>2
<1>a. four \in Nat /\ two \in Nat
  OBVIOUS
<1> HIDE DEF port, four, two
<1>1. ip \in Seq(Byte) /\ Len(ip) = four
  BY <1>0, <1>a, TupleSeq
<1>4. /\ c \in Seq(Byte) /\ Len(c) = four + two
      /\ \A j \in 1 .. four : c[j] = ip[j]
      /\ \A j \in 1 .. two : c[four + j] = port[j]
  <2>1. Joins(Byte, ip, port, four, two)
    BY ONLY <1>1, <1>3, <1>a, Joined
  <2> QED
    BY <2>1 DEF Joins
<1>5. Bytes(p) = c
  BY DEF Bytes, port, hi, lo, ip
<1> HIDE DEF c
<1>6. Len(c) = 6 /\ c[5] = hi /\ c[6] = lo
  <2>1. c[4 + 1] = port[1] /\ c[4 + 2] = port[2] /\ Len(c) = 4 + 2
    BY <1>4 DEF four, two
  <2> QED
    BY <1>3, <2>1
<1> QED
  BY <1>2, <1>4, <1>5, <1>6 DEF ip, four

Packed(ps) == FlattenSeq([i \in DOMAIN ps |-> Bytes(ps[i])])

LEMMA PackedPeers ==
  ASSUME NEW ps \in Seq(PeerAddr)
  PROVE  /\ Packed(ps) \in Seq(Byte) /\ Len(Packed(ps)) = 6 * Len(ps)
         /\ \A i \in 1 .. Len(ps), j \in 1 .. 6 :
              Packed(ps)[6 * (i - 1) + j] = Bytes(ps[i])[j]
<1> DEFINE q == [i \in DOMAIN ps |-> Bytes(ps[i])]
           n == Len(ps)
<1>0. n \in Nat /\ DOMAIN ps = 1 .. n /\ \A i \in 1 .. n : ps[i] \in PeerAddr
  OBVIOUS
<1>1. \A i \in 1 .. n : Bytes(ps[i]) \in Seq(Byte) /\ Len(Bytes(ps[i])) = 6
  BY <1>0, BytesOfPeer
<1>2. /\ q \in Seq(Seq(Byte)) /\ Len(q) = n
      /\ \A i \in 1 .. n : q[i] = Bytes(ps[i])
  BY <1>0, <1>1
<1> HIDE DEF q
<1>a. PICK acc \in [0 .. Len(q) -> Seq(Byte)] :
             /\ acc[0] = <<>>
             /\ \A i \in 1 .. Len(q) : acc[i] = acc[i - 1] \o q[i]
             /\ FlattenSeq(q) = acc[Len(q)]
  BY <1>2, Flattened
<1>3. /\ \A i \in 0 .. n : acc[i] \in Seq(Byte)
      /\ acc[0] = <<>>
      /\ \A i \in 1 .. n : acc[i] = acc[i - 1] \o q[i]
      /\ FlattenSeq(q) = acc[n]
  BY <1>2, <1>a
<1> HIDE DEF n
<1> DEFINE T == {k \in Nat : k <= n =>
                   /\ Len(acc[k]) = 6 * k
                   /\ \A i \in 1 .. k, j \in 1 .. 6 : acc[k][6 * (i - 1) + j] = q[i][j]}
<1>4. 0 \in T
  BY <1>3
<1>5. ASSUME NEW k \in 0 .. n - 1, k \in T PROVE k + 1 \in T
  <2> DEFINE a == acc[k]
             b == q[k + 1]
             c == acc[k + 1]
  <2>1. k + 1 \in 1 .. n /\ k \in Nat /\ k + 1 \in Nat /\ k <= n /\ (k + 1) - 1 = k /\ k \in 0 .. n
    BY <1>0
  <2>2. /\ a \in Seq(Byte) /\ b \in Seq(Byte) /\ Len(b) = 6 /\ c = a \o b
        /\ Len(a) = 6 * k
        /\ \A i \in 1 .. k, j \in 1 .. 6 : a[6 * (i - 1) + j] = q[i][j]
    BY <1>1, <1>2, <1>3, <1>5, <2>1
  <2>3. b = q[k + 1]
    OBVIOUS
  <2> HIDE DEF a, b, c
  <2>4. /\ Len(c) = 6 * k + 6
        /\ \A m \in 1 .. 6 * k : c[m] = a[m]
        /\ \A m \in 1 .. 6 : c[6 * k + m] = b[m]
    <3> DEFINE l == 6 * k
               six == 6
    <3>1. l \in Nat /\ Len(a) = l /\ six \in Nat /\ Len(b) = six
      BY <2>1, <2>2
    <3> HIDE DEF l, six
    <3>2. /\ Len(a \o b) = l + six
          /\ \A m \in 1 .. l : (a \o b)[m] = a[m]
          /\ \A m \in 1 .. six : (a \o b)[l + m] = b[m]
      <4>1. Joins(Byte, a, b, l, six)
        BY ONLY <2>2, <3>1, Joined
      <4> QED
        BY <4>1 DEF Joins
    <3> QED
      BY <2>2, <3>2 DEF l, six
  <2>5. ASSUME NEW i \in 1 .. k + 1, NEW j \in 1 .. 6
        PROVE  c[6 * (i - 1) + j] = q[i][j]
    <3>1. CASE i = k + 1
      <4>1. 6 * (i - 1) + j = 6 * k + j
        BY <2>1, <3>1
      <4> QED
        BY <2>3, <2>4, <3>1, <4>1
    <3>2. CASE i # k + 1
      <4>1. i \in 1 .. k /\ 6 * (i - 1) + j \in 1 .. 6 * k
        BY <2>1, <3>2
      <4> QED
        BY <2>2, <2>4, <4>1
    <3> QED
      BY <3>1, <3>2
  <2>6. Len(c) = 6 * (k + 1)
    BY <2>1, <2>4
  <2> QED
    BY <2>1, <2>5, <2>6 DEF c
<1> HIDE DEF T
<1>6. n \in T
  <2>1. n \in Nat
    BY <1>0
  <2>2. 0 .. n \subseteq T
    BY ONLY <1>4, <1>5, <2>1, UpTo
  <2> QED
    BY <2>1, <2>2
<1>7. Packed(ps) = acc[n] /\ acc[n] \in Seq(Byte)
  BY <1>0, <1>3 DEF Packed, q
<1>8. /\ Len(acc[n]) = 6 * n
      /\ \A i \in 1 .. n, j \in 1 .. 6 : acc[n][6 * (i - 1) + j] = q[i][j]
  BY <1>0, <1>6 DEF T
<1> QED
  BY <1>2, <1>7, <1>8 DEF n

LEMMA PeersRead ==
  ASSUME NEW ps \in Seq(PeerAddr)
  PROVE  /\ Len(Packed(ps)) % Http!PeerSize = 0
         /\ Http!UnmarshalPeers(Packed(ps)) = ps
<1> DEFINE raw == Packed(ps)
           n == Len(ps)
<1>0. n \in Nat /\ ps \in [1 .. n -> PeerAddr] /\ \A i \in 1 .. n : ps[i] \in PeerAddr
  OBVIOUS
<1>1. /\ raw \in Seq(Byte) /\ Len(raw) = 6 * n
      /\ \A i \in 1 .. n, j \in 1 .. 6 : raw[6 * (i - 1) + j] = Bytes(ps[i])[j]
  BY PackedPeers
<1> HIDE DEF raw, n
<1>2. Len(raw) % 6 = 0 /\ Len(raw) \div 6 = n
  BY <1>0, <1>1
<1>3. ASSUME NEW i \in 1 .. n
      PROVE  Http!PeerOf(SubSeq(raw, (i - 1) * 6 + 1, i * 6)) = ps[i]
  <2> DEFINE m == 6 * (i - 1)
             c == SubSeq(raw, m + 1, m + 6)
             ip == SubSeq(c, 1, 4)
  <2>1. m \in Nat /\ m + 6 <= Len(raw) /\ (i - 1) * 6 + 1 = m + 1 /\ i * 6 = m + 6
    BY <1>0, <1>1
  <2>2. \A j \in 1 .. 6 : raw[m + j] = Bytes(ps[i])[j]
    BY <1>1
  <2> HIDE DEF m
  <2>3. c \in Seq(Byte) /\ Len(c) = 6 /\ \A j \in 1 .. 6 : c[j] = raw[m + j]
    <3> DEFINE six == 6
    <3>1. m + six <= Len(raw) /\ six \in Nat
      BY <2>1
    <3> HIDE DEF six
    <3>2. Stretches(SubSeq(raw, m + 1, m + six), Byte, raw, m, six)
      BY ONLY <1>1, <2>1, <3>1, Stretch
    <3> QED
      BY <3>2 DEF Stretches, six
  <2>4. SubSeq(raw, (i - 1) * 6 + 1, i * 6) = c
    BY <2>1
  <2> HIDE DEF c
  <2>5. ps[i] \in PeerAddr
    BY <1>0
  <2>6. /\ \A j \in 1 .. 4 : c[j] = ps[i].ip[j]
        /\ 256 * c[5] + c[6] = ps[i].port
    BY <2>2, <2>3, <2>5, BytesOfPeer
  <2>7. ip = ps[i].ip
    <3> DEFINE zero == 0
               four == 4
    <3>1. SubSeq(c, zero + 1, zero + four) = ip
      OBVIOUS
    <3>2. zero + four <= Len(c) /\ zero \in Nat /\ four \in Nat
      BY <2>3
    <3> HIDE DEF ip, zero, four
    <3>3. ip \in Seq(Byte) /\ Len(ip) = four /\ \A j \in 1 .. four : ip[j] = c[zero + j]
      <4>1. Stretches(SubSeq(c, zero + 1, zero + four), Byte, c, zero, four)
        BY ONLY <2>3, <3>2, Stretch
      <4> QED
        BY <3>1, <4>1 DEF Stretches
    <3>4. ip = [j \in 1 .. 4 |-> ip[j]] /\ \A j \in 1 .. 4 : ip[j] = c[j]
      BY <3>3 DEF zero, four
    <3>5. ps[i].ip = [j \in 1 .. 4 |-> ps[i].ip[j]]
      BY <2>5, PeerShape
    <3> QED
      BY <2>6, <3>4, <3>5
  <2>8. Http!PeerOf(c) = [ip |-> ps[i].ip, port |-> ps[i].port]
    BY <2>6, <2>7 DEF Http!PeerOf
  <2> QED
    BY <2>4, <2>5, <2>8, PeerShape
<1>4. Http!UnmarshalPeers(raw)
        = [i \in 1 .. n |-> Http!PeerOf(SubSeq(raw, (i - 1) * 6 + 1, i * 6))]
  BY <1>2 DEF Http!UnmarshalPeers, Http!PeerSize
<1>5. ps = [i \in 1 .. n |-> ps[i]]
  BY <1>0
<1>6. Http!UnmarshalPeers(raw) = ps
  BY <1>3, <1>4, <1>5
<1> QED
  BY <1>2, <1>6 DEF raw, Http!PeerSize

LEMMA GetOne ==
  ASSUME NEW v, NEW d, NEW key, Http!Value!AsDict(v) = {d}, key \in DOMAIN d
  PROVE  Http!Value!Get(v, key) = {d[key]}
BY DEF Http!Value!Get

LEMMA GetNone ==
  ASSUME NEW v, NEW d, NEW key, Http!Value!AsDict(v) = {d}, key \notin DOMAIN d
  PROVE  Http!Value!Get(v, key) = {}
BY DEF Http!Value!Get

(* The body of a response, its negative casts and its default included, is  *)
(* read as that response.                                                   *)
LEMMA BodyRead ==
  ASSUME NEW a \in Answers, NEW b \in Http!Bodies(a)
  PROVE  Http!OutcomeOf(b) = Announces!Ok(a)
<1> DEFINE n == IF 2 * a.interval < Word THEN a.interval ELSE a.interval - Word
           raw == Packed(a.peers)
           Dict(keys) == [k \in keys |-> IF k = "peers" THEN [bytes |-> raw]
                                        ELSE [int |-> n]]
<1>0. /\ a = [interval |-> a.interval, peers |-> a.peers]
      /\ a.interval \in 0 .. Word - 1 /\ a.peers \in Seq(PeerAddr)
  BY AnswersOK
<1>1. n % Word = a.interval
  BY <1>0, CastBack
<1>2. Len(raw) % Http!PeerSize = 0 /\ Http!UnmarshalPeers(raw) = a.peers
  BY <1>0, PeersRead
<1>3. \/ b = [dict |-> Dict({"peers", "interval"})]
      \/ b = [dict |-> Dict({"peers"})] /\ a.interval = 900
  <2>1. raw = Http!FlattenSeq([i \in DOMAIN a.peers |->
                 a.peers[i].ip \o <<a.peers[i].port \div 256, a.peers[i].port % 256>>])
    BY DEF Packed, Bytes, FlattenSeq, Http!FlattenSeq
  <2> HIDE DEF raw
  <2>2. Http!Bodies(a) = {[dict |-> Dict({"peers", "interval"})]}
          \cup (IF a.interval = 900 THEN {[dict |-> Dict({"peers"})]} ELSE {})
    BY <2>1 DEF Http!Bodies, Http!PeersKey, Http!IntervalKey
  <2> HIDE DEF Dict
  <2> QED
    BY <2>2
<1> HIDE DEF n, raw
<1>4. ASSUME NEW keys, keys = {"peers", "interval"} \/ keys = {"peers"},
             b = [dict |-> Dict(keys)], keys = {"peers"} => a.interval = 900
      PROVE  Http!OutcomeOf(b) = Announces!Ok(a)
  <2> DEFINE d == Dict(keys)
  <2>0. /\ keys = {"peers", "interval"} \/ keys = {"peers"}
        /\ keys = {"peers"} => a.interval = 900
    BY <1>4
  <2>1. DOMAIN d = keys /\ "peers" \in keys /\ d["peers"] = [bytes |-> raw]
    BY <2>0
  <2>2. "interval" \in keys => d["interval"] = [int |-> n]
    OBVIOUS
  <2>b. b = [dict |-> d]
    BY <1>4
  <2> HIDE DEF d, Dict
  <2>3. Http!Value!AsDict(b) = {d}
    BY <2>b DEF Http!Value!AsDict
  <2>4. Http!Value!Get(b, Http!FailureKey) = {}
    <3>1. Http!FailureKey # "peers" /\ Http!FailureKey # "interval"
      BY Zenon DEF Http!FailureKey
    <3>2. Http!FailureKey \notin DOMAIN d
      BY <2>0, <2>1, <3>1
    <3> QED
      BY <2>3, <3>2, GetNone
  <2>5. b # Http!Undecodable
    BY <2>b DEF Http!Undecodable
  <2>6. ~Http!Refused(b)
    BY <2>4, <2>5 DEF Http!Refused
  <2>7. Http!Value!GetBytes(b, "peers") = {raw}
    <3>1. Http!Value!Get(b, "peers") = {[bytes |-> raw]}
      BY <2>1, <2>3, GetOne
    <3>2. Http!Value!AsBytes([bytes |-> raw]) = {raw}
      BY DEF Http!Value!AsBytes
    <3> QED
      BY <3>1, <3>2 DEF Http!Value!GetBytes
  <2>8. Http!IntervalOf(b) = a.interval
    <3>1. CASE "interval" \in keys
      <4>1. Http!Value!Get(b, "interval") = {[int |-> n]}
        BY <2>1, <2>2, <2>3, <3>1, GetOne
      <4>2. Http!Value!AsInteger([int |-> n]) = {n}
        BY DEF Http!Value!AsInteger
      <4>3. Http!Value!GetInteger(b, "interval") = {n}
        BY <4>1, <4>2 DEF Http!Value!GetInteger
      <4> QED
        BY <1>1, <4>3 DEF Http!IntervalOf, Http!IntervalKey
    <3>2. CASE "interval" \notin keys
      <4>1. Http!Value!Get(b, "interval") = {} /\ a.interval = 900
        <5>a. keys # {"peers", "interval"}
          BY <3>2
        <5>1. a.interval = 900
          BY <2>0, <5>a
        <5>2. "interval" \notin DOMAIN d
          BY <2>1, <3>2
        <5> QED
          BY <2>3, <5>1, <5>2, GetNone
      <4>2. Http!Value!GetInteger(b, "interval") = {}
        BY <4>1 DEF Http!Value!GetInteger
      <4>3. Http!IntervalOf(b) = 900 % Word
        BY <4>2 DEF Http!IntervalOf, Http!IntervalKey
      <4> QED
        BY <1>0, <4>1, <4>3, CastBack
    <3> QED
      BY <3>1, <3>2
  <2>9. Http!OutcomeOf(b) = Http!Announces!Ok([interval |-> Http!IntervalOf(b),
                                               peers |-> Http!UnmarshalPeers(raw)])
    <3> DEFINE raws == {r \in Http!Value!GetBytes(b, Http!PeersKey) : Len(r) % Http!PeerSize = 0}
    <3>1. raws = {raw}
      BY <1>2, <2>7 DEF Http!PeersKey
    <3>2. Http!OutcomeOf(b) = LET x == CHOOSE r \in raws : TRUE
                              IN  Http!Announces!Ok([interval |-> Http!IntervalOf(b),
                                                     peers |-> Http!UnmarshalPeers(x)])
      <4>1. raws # {}
        BY <3>1
      <4> QED
        BY <2>6, <4>1 DEF Http!OutcomeOf
    <3> HIDE DEF raws
    <3>3. (CHOOSE r \in raws : TRUE) = raw
      BY <3>1
    <3> QED
      BY <3>2, <3>3
  <2> QED
    BY <1>0, <1>2, <2>8, <2>9 DEF Http!Announces!Ok, Announces!Ok
<1> HIDE DEF Dict
<1> QED
  BY <1>3, <1>4

-----------------------------------------------------------------------------
(* The announce tasks: what they may come to, and that each step of one is  *)
(* a step of Announce.                                                      *)

Slots == 1 .. MaxTasks

Results == {Announces!Running, Announces!Failed} \cup {Announces!Ok(a) : a \in Answers}
Readings(offered) == {Announces!Failed} \cup {Announces!Ok(a) : a \in offered}

TasksOK ==
    /\ outcome = [t \in Slots |-> outcome[t]] /\ offers = [t \in Slots |-> offers[t]]
    /\ http = [t \in Slots |-> http[t]]
    /\ \A t \in Slots : outcome[t] \in Results /\ offers[t] \subseteq Answers
    /\ \A t \in Slots : http[t].stage \in {"build", "get", "got"}
    /\ \A t \in Slots : Http!OutcomeOf(http[t].body) \in Readings(offers[t])

AnnounceStep == [Announces!Next]_Announces!vars

LEMMA FailedAgree ==
  /\ Http!Announces!Failed = Announces!Failed /\ Http!Announces!Running = Announces!Running
  /\ Announces!Failed # Announces!Running
  /\ \A a : Announces!Ok(a) # Announces!Running /\ Announces!Ok(a) # Announces!Failed
BY DEF Http!Announces!Failed, Announces!Failed, Http!Announces!Running, Announces!Running,
       Announces!Ok

LEMMA OffersStep ==
  ASSUME TasksOK, NEW j \in Slots, NEW a \in Answers,
         offers' = [offers EXCEPT ![j] = @ \cup {a}], outcome' = outcome,
         http' = [t \in Slots |-> http'[t]],
         \A t \in Slots \ {j} : http'[t] = http[t],
         http'[j].stage \in {"build", "get", "got"},
         Http!OutcomeOf(http'[j].body) \in Readings(offers[j] \cup {a})
  PROVE  TasksOK' /\ AnnounceStep
<1>1. offers' = [t \in Slots |-> offers'[t]] /\ \A t \in Slots : offers'[t] \subseteq Answers
  BY DEF TasksOK
<1>2. \A t \in Slots : http'[t].stage \in {"build", "get", "got"}
  BY DEF TasksOK
<1>3. \A t \in Slots : Http!OutcomeOf(http'[t].body) \in Readings(offers'[t])
  <2> TAKE t \in Slots
  <2>1. CASE t = j
    BY <2>1 DEF TasksOK
  <2>2. CASE t # j
    BY <2>2 DEF TasksOK
  <2> QED
    BY <2>1, <2>2
<1>4. TasksOK'
  BY <1>1, <1>2, <1>3 DEF TasksOK
<1>5. Announces!Offer(j, a)
  BY DEF Announces!Offer
<1> QED
  BY <1>4, <1>5 DEF AnnounceStep, Announces!Next, Slots

LEMMA OutcomeStep ==
  ASSUME TasksOK, NEW j \in Slots, NEW o \in Readings(offers[j]),
         outcome[j] = Announces!Running,
         outcome' = [outcome EXCEPT ![j] = o], UNCHANGED <<offers, http>>
  PROVE  TasksOK' /\ AnnounceStep
<1>1. o \in Results
  BY DEF TasksOK, Readings, Results
<1>2. outcome' = [t \in Slots |-> outcome'[t]] /\ \A t \in Slots : outcome'[t] \in Results
  BY <1>1 DEF TasksOK
<1>3. TasksOK'
  BY <1>2 DEF TasksOK
<1>4. Announces!End(j)
  BY DEF Readings, Announces!End, Announces!Succeed, Announces!Fail
<1> QED
  BY <1>3, <1>4 DEF AnnounceStep, Announces!Next, Slots

LEMMA OkAnswer ==
  ASSUME NEW o \in Results, o.state = "ok"
  PROVE  o.answer \in Answers /\ o = Announces!Ok(o.answer)
BY DEF Results, Announces!Running, Announces!Failed, Announces!Ok

LEMMA UdpStep ==
  ASSUME TasksOK, NEW j \in Slots, UdpOffer(j) \/ UdpEnd(j)
  PROVE  TasksOK' /\ AnnounceStep
<1>1. CASE UdpOffer(j)
  <2>1. PICK a \in Answers : Announces!Offer(j, a)
    BY <1>1 DEF UdpOffer
  <2>2. /\ offers' = [offers EXCEPT ![j] = @ \cup {a}] /\ outcome' = outcome
        /\ http' = http
    BY <1>1, <2>1 DEF UdpOffer, Announces!Offer
  <2>3. Http!OutcomeOf(http[j].body) \in Readings(offers[j] \cup {a})
    BY DEF TasksOK, Readings
  <2> QED
    BY <2>2, <2>3, OffersStep DEF TasksOK
<1>2. CASE UdpEnd(j)
  <2>1. UNCHANGED <<offers, http>> /\ outcome[j] = Announces!Running
    BY <1>2 DEF UdpEnd, Announces!End, Announces!Succeed, Announces!Fail
  <2>2. \E o \in Readings(offers[j]) : outcome' = [outcome EXCEPT ![j] = o]
    BY <1>2 DEF UdpEnd, Announces!End, Announces!Succeed, Announces!Fail, Readings
  <2> QED
    BY <2>1, <2>2, OutcomeStep
<1> QED
  BY <1>1, <1>2

LEMMA HttpAnswers ==
  ASSUME TasksOK, NEW j \in Slots, HttpAnswer(j)
  PROVE  TasksOK' /\ AnnounceStep
<1>0. ASSUME NEW b, Http!Receive(j, b)
      PROVE  /\ outcome' = outcome /\ http' = [t \in Slots |-> http'[t]]
             /\ http'[j].stage = "got" /\ http'[j].body = b
             /\ \A t \in Slots \ {j} : http'[t] = http[t]
  BY <1>0 DEF Http!Receive, TasksOK
<1>1. ASSUME NEW a \in Answers, Http!ReceiveAnswer(j, a)
      PROVE  TasksOK' /\ AnnounceStep
  <2>1. PICK b \in Http!Bodies(a) : Http!Receive(j, b)
    BY <1>1 DEF Http!ReceiveAnswer
  <2>2. Http!OutcomeOf(b) = Announces!Ok(a)
    BY BodyRead
  <2>3. /\ outcome' = outcome /\ http' = [t \in Slots |-> http'[t]]
        /\ http'[j].stage = "got" /\ http'[j].body = b
        /\ \A t \in Slots \ {j} : http'[t] = http[t]
    BY <1>0, <2>1
  <2>4. offers' = [offers EXCEPT ![j] = @ \cup {a}]
    BY <1>1 DEF Http!ReceiveAnswer
  <2>5. Http!OutcomeOf(http'[j].body) \in Readings(offers[j] \cup {a})
    BY <2>2, <2>3 DEF Readings
  <2> QED
    BY <2>3, <2>4, <2>5, OffersStep
<1>2. ASSUME Http!ReceiveBad(j) PROVE TasksOK' /\ AnnounceStep
  <2>1. PICK b \in BadBodies : Http!Receive(j, b)
    BY <1>2 DEF Http!ReceiveBad
  <2>2. Http!OutcomeOf(b) = Announces!Failed
    BY BadBodiesOK
  <2>3. /\ outcome' = outcome /\ http' = [t \in Slots |-> http'[t]]
        /\ http'[j].stage = "got" /\ http'[j].body = b
        /\ \A t \in Slots \ {j} : http'[t] = http[t]
    BY <1>0, <2>1
  <2>4. offers' = offers
    BY <1>2 DEF Http!ReceiveBad
  <2>5. \A t \in Slots : Http!OutcomeOf(http'[t].body) \in Readings(offers[t])
    BY <2>2, <2>3 DEF TasksOK, Readings
  <2>6. TasksOK'
    BY <2>3, <2>4, <2>5 DEF TasksOK
  <2> QED
    BY <2>3, <2>4, <2>6 DEF AnnounceStep, Announces!vars
<1> QED
  BY <1>1, <1>2 DEF HttpAnswer, Http!Tracker

LEMMA HttpSteps ==
  ASSUME TasksOK, NEW j \in Slots, HttpStep(j)
  PROVE  TasksOK' /\ AnnounceStep
<1>1. CASE Http!Build(j)
  <2>1. UNCHANGED <<offers, outcome>> /\ http' = [http EXCEPT ![j].stage = "get"]
    BY <1>1 DEF Http!Build
  <2>2. /\ http' = [t \in Slots |-> http'[t]]
        /\ \A t \in Slots : http'[t].body = http[t].body
        /\ \A t \in Slots : http'[t].stage \in {"build", "get", "got"}
    BY <2>1 DEF TasksOK
  <2>3. TasksOK'
    BY <2>1, <2>2 DEF TasksOK
  <2> QED
    BY <2>1, <2>3 DEF AnnounceStep, Announces!vars
<1>2. CASE Http!BuildFails(j) \/ Http!GiveUp(j)
  <2>1. /\ UNCHANGED <<offers, http>> /\ outcome[j] = Announces!Running
        /\ outcome' = [outcome EXCEPT ![j] = Announces!Failed]
    BY <1>2, FailedAgree DEF Http!BuildFails, Http!GiveUp, Http!Announces!Fail
  <2>2. Announces!Failed \in Readings(offers[j])
    BY DEF Readings
  <2> QED
    BY <2>1, <2>2, OutcomeStep
<1>3. CASE Http!Parse(j)
  <2> DEFINE o == Http!OutcomeOf(http[j].body)
  <2>1. /\ UNCHANGED <<offers, http>> /\ outcome[j] = Announces!Running
        /\ outcome' = [outcome EXCEPT ![j] = o]
    BY <1>3, FailedAgree DEF Http!Parse, Http!At
  <2>2. o \in Readings(offers[j])
    BY DEF TasksOK
  <2> HIDE DEF o
  <2> QED
    BY <2>1, <2>2, OutcomeStep
<1> QED
  BY <1>1, <1>2, <1>3 DEF HttpStep, Http!Step

LEMMA TaskStep ==
  ASSUME TasksOK, NEW j \in Slots,
         UdpOffer(j) \/ UdpEnd(j) \/ HttpAnswer(j) \/ HttpStep(j)
  PROVE  TasksOK' /\ AnnounceStep /\ UNCHANGED <<cmdVars, metaVars, runVars, disk>>
<1>1. UNCHANGED <<cmdVars, metaVars, runVars, disk>>
  BY DEF UdpOffer, UdpEnd, HttpAnswer, HttpStep
<1> QED
  BY <1>1, UdpStep, HttpAnswers, HttpSteps

LEMMA InitTasks == Init => TasksOK
<1> SUFFICES ASSUME Init PROVE TasksOK
  OBVIOUS
<1>1. /\ outcome = [t \in Slots |-> Announces!Running] /\ offers = [t \in Slots |-> {}]
      /\ http = [t \in Slots |-> [stage |-> "build", body |-> Http!Undecodable]]
  BY DEF Init, Http!Init, Http!Announces!Init, Http!Announces!Running,
         Announces!Running, Slots
<1>2. Http!OutcomeOf(Http!Undecodable) = Announces!Failed
  BY FailedAgree DEF Http!OutcomeOf, Http!Refused
<1> QED
  BY <1>1, <1>2 DEF TasksOK, Results, Readings

(* Only the tasks touch what is theirs. *)
LEMMA TasksStep ==
  ASSUME TasksOK, [Next]_vars
  PROVE  TasksOK' /\ AnnounceStep
<1>1. ASSUME UNCHANGED taskVars PROVE TasksOK' /\ AnnounceStep
  BY <1>1 DEF TasksOK, taskVars, AnnounceStep, Announces!vars
<1>2. CASE Command
  BY <1>1, <1>2 DEF Command, Parse, CreateDir, Try, SpawnAnnounces, Join, Start,
                    EngineJoined, Write, TuiJoined
<1>3. ASSUME NEW j \in Slots, UdpOffer(j) \/ UdpEnd(j) \/ HttpAnswer(j) \/ HttpStep(j)
      PROVE  TasksOK' /\ AnnounceStep
  BY <1>3, TaskStep
<1>4. CASE EngineReport \/ EngineEnd \/ TuiRead \/ TuiClosed \/ TuiQuit
  BY <1>1, <1>4 DEF EngineReport, EngineEnd, TuiRead, TuiClosed, TuiQuit
<1>5. CASE UNCHANGED vars
  BY <1>1, <1>5 DEF vars
<1> QED
  BY <1>2, <1>3, <1>4, <1>5 DEF Next, Slots

(* Whatever a tracker sends to whichever task, a udp or an http one, each   *)
(* announce ends once, with an error or with the very response that this    *)
(* task was offered.                                                        *)
THEOREM TasksCorrect == Spec => TasksAnnounce
<1>1. TasksOK /\ [Next]_vars => TasksOK'
  BY TasksStep
<1>2. TasksOK /\ [Next]_vars => [Announces!Next]_Announces!vars
  BY TasksStep DEF AnnounceStep
<1> QED
  BY <1>1, <1>2, InitTasks, PTL DEF Spec, TasksAnnounce

-----------------------------------------------------------------------------
(* The merge. *)

JoinOK ==
    /\ tiers \in Tiers /\ announce \in Urls
    /\ handles = <<>> \/ handles = Spawned(tiers, announce)
    /\ joined \in 0 .. MaxTasks
    /\ \A t \in 1 .. joined : outcome[t] # Announces!Running

IntervalInv == TasksOK /\ JoinOK /\ ShortestInterval

(* The handles are the sequence of the distinct usable URLs.                *)
LEMMA HandlesOK ==
  ASSUME JoinOK
  PROVE  handles \in Seq(Urls) /\ Len(handles) \in 0 .. MaxTasks
<1>1. tiers \in Seq(Seq(Urls)) /\ announce \in Urls /\ tiers \in Tiers /\ MaxTasks \in Nat
  BY ConstantsOK DEF JoinOK
<1>2. CASE handles = <<>>
  BY <1>1, <1>2
<1>3. CASE handles = Spawned(tiers, announce)
  <2>1. Spawned(tiers, announce) \in Seq(Urls)
    BY <1>1, AllSpawned
  <2>2. Len(Spawned(tiers, announce)) <= MaxTasks
    BY <1>1, EnoughTasks
  <2> QED
    BY <1>1, <1>3, <2>1, <2>2
<1> QED
  BY <1>2, <1>3 DEF JoinOK

Asked(n) == {1800} \cup {a.interval : a \in Answered(n)}

(* An outcome that was joined is final.                                     *)
LEMMA JoinedFinal ==
  ASSUME IntervalInv, AnnounceStep
  PROVE  \A t \in 1 .. joined : outcome'[t] = outcome[t]
<1>1. \A t \in 1 .. joined : t \in Slots /\ outcome[t] # Announces!Running
  BY ConstantsOK DEF IntervalInv, JoinOK, Slots
<1>2. \/ outcome' = outcome
      \/ \E j \in Slots : outcome[j] = Announces!Running
                        /\ \E o : outcome' = [outcome EXCEPT ![j] = o]
  BY DEF AnnounceStep, Announces!Next, Announces!vars, Announces!Offer, Announces!End,
         Announces!Succeed, Announces!Fail, Slots
<1>3. outcome = [t \in Slots |-> outcome[t]]
  BY DEF IntervalInv, TasksOK
<1> QED
  BY <1>1, <1>2, <1>3

(* Only what was joined counts. *)
LEMMA TaskStepKeeps ==
  ASSUME IntervalInv, TasksOK', AnnounceStep,
         UNCHANGED <<cmdVars, metaVars>>
  PROVE  IntervalInv'
<1>1. /\ tiers' = tiers /\ announce' = announce /\ handles' = handles
      /\ joined' = joined /\ interval' = interval
  BY DEF cmdVars, metaVars
<1>2. joined \in 0 .. MaxTasks /\ MaxTasks \in Nat
  BY ConstantsOK DEF IntervalInv, JoinOK
<1>3. \A t \in 1 .. joined : outcome'[t] = outcome[t]
  BY JoinedFinal
<1>4. JoinOK'
  BY <1>1, <1>3 DEF IntervalInv, JoinOK
<1>5. Answered(joined)' = Answered(joined)
  BY <1>1, <1>3 DEF Answered
<1>6. ShortestInterval'
  <2>1. ShortestInterval
    BY DEF IntervalInv
  <2>2. {a.interval : a \in Answered(joined)}' = {a.interval : a \in Answered(joined)}
    BY ONLY <1>5
  <2>3. interval' = interval
    BY ONLY <1>1
  <2> QED
    BY ONLY <2>1, <2>2, <2>3 DEF ShortestInterval
<1> QED
  BY <1>4, <1>6 DEF IntervalInv

LEMMA AnsweredOne ==
  ASSUME joined \in Nat
  PROVE  Answered(joined + 1) = Answered(joined) \cup
           (IF outcome[joined + 1].state = "ok" THEN {outcome[joined + 1].answer} ELSE {})
<1> DEFINE n == joined + 1
<1>1. 1 .. n = (1 .. joined) \cup {n}
  OBVIOUS
<1> HIDE DEF n
<1>2. Answered(n) = Answered(joined) \cup (IF outcome[n].state = "ok" THEN {outcome[n].answer} ELSE {})
  BY <1>1 DEF Answered
<1> QED
  BY <1>2 DEF n

LEMMA JoinKeeps ==
  ASSUME IntervalInv, Join
  PROVE  IntervalInv'
<1> DEFINE n == joined + 1
           o == outcome[n]
<1>1. /\ joined < Len(handles) /\ o # Announces!Running /\ joined' = n
      /\ UNCHANGED <<handles, tiers, announce, outcome, offers, http>>
      /\ IF o.state = "ok" THEN interval' = MergeInterval(interval, o.answer)
                           ELSE interval' = interval
  BY DEF Join, metaVars, taskVars
<1>2. joined \in 0 .. MaxTasks /\ MaxTasks \in Nat /\ Len(handles) \in 0 .. MaxTasks
  BY ConstantsOK, HandlesOK DEF IntervalInv, JoinOK
<1>3. n \in Slots /\ 1 .. n = (1 .. joined) \cup {n}
  BY <1>1, <1>2 DEF Slots
<1>4. TasksOK'
  BY <1>1 DEF IntervalInv, TasksOK
<1>5. JoinOK'
  <2>1. joined' \in 0 .. MaxTasks
    BY <1>1, <1>2
  <2>2. \A t \in 1 .. n : outcome[t] # Announces!Running
    BY <1>1, <1>3 DEF IntervalInv, JoinOK
  <2> QED
    BY <1>1, <2>1, <2>2 DEF IntervalInv, JoinOK
<1>6. Answered(n) = Answered(joined) \cup (IF o.state = "ok" THEN {o.answer} ELSE {})
  BY <1>2, AnsweredOne
<1>7. Answered(joined)' = Answered(n)
  BY <1>1 DEF Answered
<1>8. interval \in Asked(joined) /\ \A i \in Asked(joined) : interval <= i
  BY DEF IntervalInv, ShortestInterval, Asked
<1>9. \A i \in Asked(joined) : i \in Int
  <2>1. \A t \in 1 .. joined : outcome[t].state = "ok" => outcome[t].answer \in Answers
    BY <1>2, OkAnswer DEF IntervalInv, TasksOK, Slots
  <2>2. Answered(joined) \subseteq Answers
    BY <2>1 DEF Answered
  <2> QED
    BY <2>2, AnswersOK DEF Asked
<1>10. interval' \in Asked(n) /\ \A i \in Asked(n) : interval' <= i
  <2>1. CASE o.state = "ok"
    <3> DEFINE x == o.answer.interval
    <3>1. Asked(n) = Asked(joined) \cup {x}
      BY <1>6, <2>1 DEF Asked
    <3>2. x \in Int
      <4>1. o.answer \in Answers
        BY <1>3, <2>1, OkAnswer DEF IntervalInv, TasksOK
      <4> QED
        BY <4>1, AnswersOK
    <3>3. interval' = IF x < interval THEN x ELSE interval
      BY <1>1, <2>1 DEF MergeInterval
    <3> HIDE DEF x, n
    <3> QED
      BY <1>8, <1>9, <3>1, <3>2, <3>3
  <2>2. CASE o.state # "ok"
    BY <1>1, <1>6, <1>8, <2>2 DEF Asked
  <2> QED
    BY <2>1, <2>2
<1>11. ShortestInterval'
  BY <1>7, <1>10 DEF ShortestInterval, Asked
<1> QED
  BY <1>4, <1>5, <1>11 DEF IntervalInv

LEMMA InitInterval == Init => IntervalInv
<1> SUFFICES ASSUME Init PROVE IntervalInv
  OBVIOUS
<1>3. TasksOK
  BY InitTasks
<1>4. MaxTasks \in Nat
  BY ConstantsOK
<1>5. JoinOK
  BY <1>4 DEF Init, JoinOK
<1>6. ShortestInterval
  <2>1. Answered(joined) = {}
    BY DEF Init, Answered
  <2>2. Asked(joined) = {1800}
    BY <2>1 DEF Asked
  <2>3. interval = 1800
    BY DEF Init
  <2>4. interval \in Asked(joined) /\ \A i \in Asked(joined) : interval <= i
    BY <2>2, <2>3
  <2> QED
    BY <2>4 DEF ShortestInterval, Asked
<1> QED
  BY <1>3, <1>5, <1>6 DEF IntervalInv

LEMMA IntervalKept ==
  ASSUME ShortestInterval, UNCHANGED <<joined, interval, taskVars>>
  PROVE  ShortestInterval'
<1>1. joined' = joined /\ interval' = interval /\ outcome' = outcome
  BY DEF taskVars
<1>2. Answered(joined)' = Answered(joined)
  BY <1>1 DEF Answered
<1> QED
  BY <1>1, <1>2 DEF ShortestInterval

LEMMA StepInterval == IntervalInv /\ [Next]_vars => IntervalInv'
<1> SUFFICES ASSUME IntervalInv, [Next]_vars PROVE IntervalInv'
  OBVIOUS
<1>1. ASSUME UNCHANGED <<joined, interval, metaVars, taskVars>>, handles' = handles
      PROVE  IntervalInv'
  <2>1. ShortestInterval'
    BY <1>1, IntervalKept DEF IntervalInv
  <2> QED
    BY <1>1, <2>1 DEF IntervalInv, TasksOK, JoinOK, metaVars, taskVars
<1>2. CASE SpawnAnnounces
  <2>1. /\ handles' = Spawned(tiers, announce)
        /\ UNCHANGED <<joined, interval, metaVars, taskVars>>
    BY <1>2 DEF SpawnAnnounces
  <2>2. ShortestInterval'
    BY <2>1, IntervalKept DEF IntervalInv
  <2> QED
    BY <2>1, <2>2 DEF IntervalInv, TasksOK, JoinOK, metaVars, taskVars
<1>3. CASE Join
  BY <1>3, JoinKeeps
<1>4. ASSUME NEW j \in Slots, UdpOffer(j) \/ UdpEnd(j) \/ HttpAnswer(j) \/ HttpStep(j)
      PROVE  IntervalInv'
  BY <1>4, TaskStep, TaskStepKeeps DEF IntervalInv
<1>5. CASE Parse \/ CreateDir \/ Start \/ EngineJoined \/ Write \/ TuiJoined
  BY <1>1, <1>5 DEF Parse, CreateDir, Try, Start, EngineJoined, Write, TuiJoined
<1>6. CASE EngineReport \/ EngineEnd \/ TuiRead \/ TuiClosed \/ TuiQuit
  BY <1>1, <1>6 DEF EngineReport, EngineEnd, TuiRead, TuiClosed, TuiQuit, cmdVars
<1>7. CASE UNCHANGED vars
  BY <1>1, <1>7 DEF vars, cmdVars
<1> QED
  BY <1>2, <1>3, <1>4, <1>5, <1>6, <1>7 DEF Next, Command, Slots

(* Whatever order the trackers answer in, and whatever they answer, the     *)
(* interval that cmd_download reports (main.rs:279-283; the engine is not   *)
(* given it) is the shortest a joined tracker asked for, or 1800 s.         *)
THEOREM IntervalCorrect == Spec => []ShortestInterval
<1>1. IntervalInv => ShortestInterval
  BY DEF IntervalInv
<1> QED
  BY <1>1, InitInterval, StepInterval, PTL DEF Spec

-----------------------------------------------------------------------------
(* What the engine is given: the handles are those of the URLs, and what is *)
(* merged is what the joined tasks answered.                                *)

Stages == {"parse", "mkdir", "spawn", "join", "run", "write", "wait_tui", "done", "error"}

ControlOK ==
    /\ pc \in Stages /\ noTui \in BOOLEAN
    /\ engine \in {"idle", "running", "ok", "error"}
    /\ tui \in {"idle", "running", "ended"}
    /\ queue \in 0 .. Capacity /\ Capacity \in Nat
    /\ disk \in {"none", "partial", "complete"}

HandlesFixed ==
    /\ pc \in {"parse", "mkdir", "spawn"} => handles = <<>> /\ joined = 0
    /\ pc \in {"join", "run", "write", "wait_tui", "done"} =>
         handles = Spawned(tiers, announce)
    /\ joined <= Len(handles)
    /\ engine # "idle" => joined = Len(handles)

Merged(n) == UNION {ToSet(a.peers) : a \in Answered(n)}

PeersOK ==
    /\ peers \in Seq(PeerAddr) /\ IsInjective(peers)
    /\ ToSet(peers) = Merged(joined)

GatherInv == IntervalInv /\ Progress /\ ControlOK /\ HandlesFixed /\ PeersOK

LEMMA ControlStep ==
  ASSUME ControlOK, [Next]_vars
  PROVE  ControlOK'
<1>1. CASE Parse \/ CreateDir
  BY <1>1 DEF Parse, CreateDir, Try, ControlOK, Stages, metaVars, taskVars, runVars
<1>2. CASE SpawnAnnounces \/ Join
  BY <1>2 DEF SpawnAnnounces, Join, ControlOK, Stages, metaVars, taskVars, runVars
<1>3. CASE Start
  BY <1>3 DEF Start, ControlOK, Stages, metaVars, taskVars
<1>4. CASE EngineJoined \/ Write \/ TuiJoined
  BY <1>4 DEF EngineJoined, Write, TuiJoined, ControlOK, Stages, metaVars, taskVars, runVars
<1>5. ASSUME NEW j \in Slots, UdpOffer(j) \/ UdpEnd(j) \/ HttpAnswer(j) \/ HttpStep(j)
      PROVE  ControlOK'
  <2>1. UNCHANGED <<cmdVars, metaVars, runVars, disk>>
    BY <1>5 DEF UdpOffer, UdpEnd, HttpAnswer, HttpStep
  <2> QED
    BY <2>1 DEF ControlOK, cmdVars, metaVars, runVars
<1>6. CASE EngineReport \/ TuiRead
  <2>1. UNCHANGED <<cmdVars, metaVars, engine, tui, disk>> /\ queue' \in 0 .. Capacity
    BY <1>6 DEF EngineReport, TuiRead, HasRoom, ControlOK
  <2> QED
    BY <2>1 DEF ControlOK, cmdVars, metaVars
<1>7. CASE EngineEnd \/ TuiClosed \/ TuiQuit
  <2>1. UNCHANGED <<cmdVars, metaVars, disk>> /\ queue' \in 0 .. Capacity
    BY <1>7 DEF EngineEnd, TuiClosed, TuiQuit, ControlOK
  <2>2. /\ engine' \in {"idle", "running", "ok", "error"}
        /\ tui' \in {"idle", "running", "ended"}
    BY <1>7 DEF EngineEnd, TuiClosed, TuiQuit, ControlOK
  <2> QED
    BY <2>1, <2>2 DEF ControlOK, cmdVars, metaVars
<1>8. CASE UNCHANGED vars
  BY <1>8 DEF vars, cmdVars, metaVars, runVars, ControlOK
<1> QED
  BY <1>1, <1>2, <1>3, <1>4, <1>5, <1>6, <1>7, <1>8 DEF Next, Command, Slots

(* Nothing is joined once the engine runs, nor spawned again.               *)
LEMMA HandlesStep ==
  ASSUME GatherInv, [Next]_vars
  PROVE  HandlesFixed'
<1>1. Len(handles) \in Nat /\ joined \in Nat
  BY HandlesOK, ConstantsOK DEF GatherInv, IntervalInv, JoinOK
<1>2. CASE Parse \/ CreateDir
  BY <1>2 DEF Parse, CreateDir, Try, GatherInv, HandlesFixed, Progress, metaVars, taskVars, runVars
<1>3. CASE SpawnAnnounces
  <2>1. /\ pc = "spawn" /\ pc' = "join" /\ joined' = 0 /\ engine' = "idle"
        /\ handles' = Spawned(tiers, announce) /\ UNCHANGED <<tiers, announce>>
    BY <1>3 DEF SpawnAnnounces, GatherInv, HandlesFixed, Progress, metaVars, runVars
  <2>2. Len(Spawned(tiers, announce)) \in Nat
    <3>1. tiers \in Seq(Seq(Urls)) /\ announce \in Urls
      BY ConstantsOK DEF GatherInv, IntervalInv, JoinOK
    <3>2. Spawned(tiers, announce) \in Seq(Urls)
      BY <3>1, AllSpawned
    <3> QED
      BY <3>2
  <2> QED
    BY <2>1, <2>2 DEF HandlesFixed
<1>4. CASE Join
  <2>1. /\ pc = "join" /\ pc' = pc /\ joined < Len(handles) /\ joined' = joined + 1
        /\ UNCHANGED <<handles, tiers, announce, engine>>
    BY <1>4 DEF Join, metaVars, runVars
  <2> QED
    BY <1>1, <2>1 DEF GatherInv, HandlesFixed, Progress
<1>5. CASE Start
  BY <1>1, <1>5 DEF Start, AllJoined, GatherInv, HandlesFixed, metaVars
<1>6. CASE EngineJoined \/ Write \/ TuiJoined
  BY <1>6 DEF EngineJoined, Write, TuiJoined, GatherInv, HandlesFixed, metaVars, runVars
<1>7. ASSUME NEW j \in Slots, UdpOffer(j) \/ UdpEnd(j) \/ HttpAnswer(j) \/ HttpStep(j)
      PROVE  HandlesFixed'
  <2>1. UNCHANGED <<cmdVars, metaVars, runVars>>
    BY <1>7 DEF UdpOffer, UdpEnd, HttpAnswer, HttpStep
  <2> QED
    BY <2>1 DEF GatherInv, HandlesFixed, cmdVars, metaVars, runVars
<1>8. CASE EngineReport \/ EngineEnd \/ TuiRead \/ TuiClosed \/ TuiQuit
  <2>1. UNCHANGED <<cmdVars, metaVars>> /\ (engine' # "idle" => engine # "idle")
    BY <1>8 DEF EngineReport, EngineEnd, TuiRead, TuiClosed, TuiQuit
  <2> QED
    BY <2>1 DEF GatherInv, HandlesFixed, cmdVars, metaVars
<1>9. CASE UNCHANGED vars
  BY <1>9 DEF vars, cmdVars, metaVars, runVars, GatherInv, HandlesFixed
<1> QED
  BY <1>2, <1>3, <1>4, <1>5, <1>6, <1>7, <1>8, <1>9 DEF Next, Command, Slots

(* Merging an answer adds its peers, each once.                             *)
LEMMA MergeAll ==
  ASSUME PeersOK, NEW a \in Answers
  PROVE  LET r == MergePeers(peers, a)
         IN  /\ r \in Seq(PeerAddr) /\ IsInjective(r)
             /\ ToSet(r) = ToSet(peers) \cup ToSet(a.peers)
<1> DEFINE q == a.peers
           r == FoldLeft(AddPeer, peers, q)
<1>1. q \in Seq(PeerAddr) /\ peers \in Seq(PeerAddr) /\ IsInjective(peers)
  BY AnswersOK DEF PeersOK
<1> HIDE DEF q
<1>2. r \in Seq(PeerAddr) /\ ToSet(r) = ToSet(peers) \cup ToSet(q) /\ IsInjective(r)
  BY ONLY <1>1, AddAll
<1>3. MergePeers(peers, a) = r
  BY DEF MergePeers, q
<1> HIDE DEF r
<1> QED
  BY <1>2, <1>3 DEF q

LEMMA PeersStep ==
  ASSUME GatherInv, [Next]_vars
  PROVE  PeersOK'
<1>1. ASSUME UNCHANGED <<peers, joined>>, Answered(joined)' = Answered(joined)
      PROVE  PeersOK'
  BY <1>1 DEF GatherInv, PeersOK, Merged
<1>2. ASSUME UNCHANGED <<peers, joined, taskVars>> PROVE PeersOK'
  <2>1. Answered(joined)' = Answered(joined)
    BY <1>2 DEF taskVars, Answered
  <2> QED
    BY <1>1, <1>2, <2>1
<1>3. CASE Join
  <2> DEFINE n == joined + 1
             o == outcome[n]
  <2>1. /\ joined < Len(handles) /\ joined' = n /\ outcome' = outcome
        /\ IF o.state = "ok" THEN peers' = MergePeers(peers, o.answer)
                             ELSE peers' = peers
    BY <1>3 DEF Join, taskVars
  <2>2. n \in Slots /\ joined \in Nat
    BY <2>1, HandlesOK, ConstantsOK DEF GatherInv, IntervalInv, JoinOK, Slots
  <2>3. Answered(n) = Answered(joined) \cup (IF o.state = "ok" THEN {o.answer} ELSE {})
    BY <2>2, AnsweredOne
  <2>4. Answered(joined)' = Answered(n)
    BY <2>1 DEF Answered
  <2> HIDE DEF n
  <2>5. CASE o.state = "ok"
    <3>1. o.answer \in Answers
      BY <2>2, <2>5, OkAnswer DEF GatherInv, IntervalInv, TasksOK
    <3>2. /\ peers' \in Seq(PeerAddr) /\ IsInjective(peers')
          /\ ToSet(peers') = ToSet(peers) \cup ToSet(o.answer.peers)
      BY <2>1, <2>5, <3>1, MergeAll DEF GatherInv
    <3>3. Merged(n) = Merged(joined) \cup ToSet(o.answer.peers)
      BY <2>3, <2>5 DEF Merged
    <3>4. Merged(joined)' = Merged(n)
      BY <2>4 DEF Merged
    <3> QED
      BY <3>2, <3>3, <3>4 DEF GatherInv, PeersOK
  <2>6. CASE o.state # "ok"
    <3>1. Merged(joined)' = Merged(joined) /\ peers' = peers
      BY <2>1, <2>3, <2>4, <2>6 DEF Merged
    <3> QED
      BY <3>1 DEF GatherInv, PeersOK
  <2> QED
    BY <2>5, <2>6
<1>4. ASSUME NEW j \in Slots, UdpOffer(j) \/ UdpEnd(j) \/ HttpAnswer(j) \/ HttpStep(j)
      PROVE  PeersOK'
  <2>1. AnnounceStep /\ UNCHANGED <<peers, joined>>
    BY <1>4, TaskStep DEF GatherInv, IntervalInv, cmdVars
  <2>2. \A t \in 1 .. joined : outcome'[t] = outcome[t]
    BY <2>1, JoinedFinal DEF GatherInv
  <2>3. Answered(joined)' = Answered(joined)
    BY <2>1, <2>2 DEF Answered
  <2> QED
    BY <1>1, <2>1, <2>3
<1>5. CASE Parse \/ CreateDir \/ SpawnAnnounces \/ Start \/ EngineJoined \/ Write \/ TuiJoined
  BY <1>2, <1>5 DEF Parse, CreateDir, Try, SpawnAnnounces, Start, EngineJoined, Write, TuiJoined
<1>6. CASE EngineReport \/ EngineEnd \/ TuiRead \/ TuiClosed \/ TuiQuit
  BY <1>2, <1>6 DEF EngineReport, EngineEnd, TuiRead, TuiClosed, TuiQuit, cmdVars
<1>7. CASE UNCHANGED vars
  BY <1>2, <1>7 DEF vars, cmdVars
<1> QED
  BY <1>3, <1>4, <1>5, <1>6, <1>7 DEF Next, Command, Slots

LEMMA InitGather == Init => GatherInv
<1> SUFFICES ASSUME Init PROVE GatherInv
  OBVIOUS
<1>1. IntervalInv /\ Progress
  BY InitInterval, InitProgress
<1>2. ControlOK
  BY ConstantsOK DEF Init, ControlOK, Stages
<1>3. HandlesFixed
  BY DEF Init, HandlesFixed
<1>4. PeersOK
  <2>1. peers = <<>> /\ joined = 0
    BY DEF Init
  <2>2. Merged(joined) = {}
    BY <2>1 DEF Merged, Answered
  <2>3. ToSet(peers) = {} /\ IsInjective(peers) /\ peers \in Seq(PeerAddr)
    BY <2>1 DEF ToSet, IsInjective
  <2> QED
    BY <2>2, <2>3 DEF PeersOK
<1> QED
  BY <1>1, <1>2, <1>3, <1>4 DEF GatherInv

LEMMA StepGather == GatherInv /\ [Next]_vars => GatherInv'
<1> SUFFICES ASSUME GatherInv, [Next]_vars PROVE GatherInv'
  OBVIOUS
<1>1. IntervalInv' /\ Progress'
  BY StepInterval, StepProgress DEF GatherInv
<1>2. ControlOK'
  BY ControlStep DEF GatherInv
<1>3. HandlesFixed' /\ PeersOK'
  BY HandlesStep, PeersStep
<1> QED
  BY <1>1, <1>2, <1>3 DEF GatherInv

LEMMA AnsweredTyped ==
  ASSUME IntervalInv
  PROVE  Answered(joined) \subseteq Answers
<1>1. \A t \in 1 .. joined : t \in Slots
  BY ConstantsOK DEF IntervalInv, JoinOK, Slots
<1>2. \A t \in 1 .. joined : outcome[t].state = "ok" => outcome[t].answer \in Answers
  BY <1>1, OkAnswer DEF IntervalInv, TasksOK
<1> QED
  BY <1>2 DEF Answered

(* However the tiers repeat the URLs and whatever their schemes are, each   *)
(* usable tracker gets one task.                                            *)
THEOREM ContactedCorrect == Spec => []ContactedOnce
<1>1. GatherInv => ContactedOnce
  <2> SUFFICES ASSUME GatherInv, pc \in {"join", "run", "write", "wait_tui", "done"}
               PROVE  ToSet(handles) = Named \cap Contactable /\ IsInjective(handles)
    BY DEF ContactedOnce
  <2>1. handles = Spawned(tiers, announce)
    BY DEF GatherInv, HandlesFixed
  <2>2. tiers \in Seq(Seq(Urls)) /\ announce \in Urls
    BY ConstantsOK DEF GatherInv, IntervalInv, JoinOK
  <2> QED
    BY <2>1, <2>2, AllSpawned DEF Named
<1> QED
  BY <1>1, InitGather, StepGather, PTL DEF Spec

(* In whatever order the tasks end, the engine starts on every peer of      *)
(* every tracker that answered, each once.                                  *)
THEOREM GatheredCorrect == Spec => []AllPeersGathered
<1>1. GatherInv => AllPeersGathered
  BY DEF GatherInv, HandlesFixed, PeersOK, Merged, AllPeersGathered
<1> QED
  BY <1>1, InitGather, StepGather, PTL DEF Spec

(* Every variable has its type, whatever the trackers, the engine and the   *)
(* dashboard do: the stats channel is never over its capacity, and no more  *)
(* handles are joined than were spawned.                                    *)
THEOREM TypeCorrect == Spec => []TypeOK
<1>1. GatherInv => TypeOK
  <2> SUFFICES ASSUME GatherInv PROVE TypeOK
    OBVIOUS
  <2>1. handles \in Seq(Urls) /\ joined \in 0 .. Len(handles)
    BY HandlesOK, ConstantsOK DEF GatherInv, IntervalInv, JoinOK, HandlesFixed
  <2>2. Answered(joined) \subseteq Answers
    BY AnsweredTyped DEF GatherInv
  <2>3. ToSet(peers) \subseteq UNION {ToSet(a.peers) : a \in Answers}
    BY <2>2 DEF GatherInv, PeersOK, Merged
  <2>4. interval \in 0 .. Word - 1
    <3>1. interval = 1800 \/ \E a \in Answers : interval = a.interval
      BY <2>2 DEF GatherInv, IntervalInv, ShortestInterval
    <3> QED
      BY <3>1, ConstantsOK, AnswersOK
  <2>5. \A j \in DOMAIN http : http[j].stage \in {"build", "get", "got"}
    <3>1. DOMAIN http = Slots
      BY DEF GatherInv, IntervalInv, TasksOK
    <3> QED
      BY <3>1 DEF GatherInv, IntervalInv, TasksOK
  <2> QED
    BY <2>1, <2>3, <2>4, <2>5 DEF GatherInv, IntervalInv, JoinOK, ControlOK, Stages, TypeOK
<1> QED
  BY <1>1, InitGather, StepGather, PTL DEF Spec

=============================================================================
