# A verification development for rusty-torrent

rusty-torrent is a BitTorrent client: it reads a `.torrent` file, asks every
tracker the file names for peers, connects to the peers and downloads the
pieces. This directory holds TLA+ modules of the parts of it that keep state and
interact, TLC configurations that check them on small instances, and proofs that
TLAPS checks for instances of any size.

The repository declares three modules whose source it does not contain:
`download` (the engine that drives the peers), `tui` (the dashboard) and
`bencode::encoder`. What the rest of the code relies on is modelled from its
side and marked external.

## Inventory

| Component | Source | State | Operations | Modelled in |
|---|---|---|---|---|
| Peer connection | `peer/client.rs` | stream, `choked`, `bitfield`, write buffer | `connect`, `recv_bitfield`, `read_message`, `handle_message`, `send_*` | `PeerClient` |
| Handshake | `peer/handshake.rs` | what was read of the 68 bytes | `perform_handshake`, `read_handshake` | `PeerClient` |
| Wire messages | `peer/message.rs` | a pending read | `read`, `write`; `serialize`, `have`, `request`, `parse_have`, `parse_piece` | `PeerClient` (framing within a connection), `PeerWire` (the bytes) |
| Piece bitfield | `peer/bitfield.rs` | bytes, number of pieces | `new`, `from_bytes`, `has_piece`, `set_piece` | `Bitfield` |
| UDP tracker | `tracker/udp.rs` | socket, two transaction ids, connection id | `announce`, `connect_and_announce` | `UdpTracker` |
| HTTP tracker | `tracker/http.rs` | none between calls | `announce`, `unmarshal_peers` | `HttpTracker` |
| Download command | `main.rs` | handles, merged peers, tasks, output file | `cmd_download` | `Download` |
| `info`, `magnet` commands | `main.rs` | none | parse one argument, display it | `Commands` |
| Bencode | `bencode/decoder.rs`, `bencode/mod.rs` | a cursor and the call stack | `decode`, `decode_partial`; the accessors of `Value` | `BencodeDecoder`, `BencodeValue` |
| Metainfo | `torrent/metainfo.rs` | none | `from_file`, `from_bytes`, `compute_info_hash`, `piece_size` | `Metainfo`, `MetainfoHash`, `Pieces` |
| Magnet links | `torrent/magnet.rs` | none | `parse`, `parse_xt`, `url_decode`, `info_hash_hex` | `Magnet` |
| Configuration | `config.rs` | none | `load` | no (see "Not modelled") |

**How they interact.** `cmd_download` parses the file, spawns one tokio task per
distinct tracker URL (shared state: none; result: a `JoinHandle`), joins them in
the order of the URLs, and merges the peers. It hands them to the engine, which
opens a `PeerClient` per peer and reports through an `mpsc` channel of 64
entries that the dashboard task reads. Engine and dashboard end on their own.

**What is hard.**

- *Peer connection.* Every wait is under a timeout that drops the future it
  waits for, and a dropped `read_exact` loses the bytes it took. Messages come
  in any order around the bitfield exchange. Writes go through a buffer that
  both sides can wait behind. What must hold: the messages returned are the
  peer's, in order; `choked` and the bitfield agree with them; no wait with
  unflushed bytes; nothing is read from a peer of another torrent; `connect`
  returns.
- *UDP tracker.* One datagram decides each of the two phases. The network
  duplicates and delays; ports are reused by later tasks. What must hold: an
  answer is taken only by the request it answers; a good one is not turned down;
  every announce ends.
- *Download command.* Tasks end in any order but are joined in a fixed one; the
  engine, the save and the dashboard fail independently. What must hold: every
  usable tracker is contacted once; every peer of every answer reaches the engine
  once; success means a file on disk; the command ends.
- *Wire messages.* The bytes of a frame come in chunks of any size and frames run
  into each other; offsets and lengths come from the peer. What must hold: the
  messages taken are those written, whatever the chunks; a block lands at its
  offset or is refused; nothing panics.
- *Decoding* (bencode, metainfo, HTTP answers, magnet links): numeric edges, casts
  between signed and unsigned, keys out of order or repeated, a second `4:infod`
  in the file. What must hold: decoding agrees with the grammar, the hash is of
  the dictionary whose fields were used, sizes add up, and what is displayed is
  what was given.

`PROJECT.json` lists each hazard at its line with the properties that cover it.

## Modules

| Module | What it is |
|---|---|
| `Bitfield` | `Bitfield` as operators; a byte is the set of its 1 bits |
| `PeerClient` | one connection: client, its buffers, the stream, the peer |
| `PeerClientProofs` | its theorems |
| `PeerWire` | the bytes of the messages: `serialize`, `read`, the parsers; implements `Blocks` |
| `Blocks` | the abstract exchange: messages taken in order, blocks placed at their offset |
| `PeerWireProofs` | its theorems, and the proof that it implements `Blocks` |
| `Announce` | the abstract announce: it ends, with an error or with an answer given to it |
| `UdpTracker` | the UDP announces, the network and the trackers; implements `Announce` |
| `UdpTrackerProofs` | its theorems |
| `HttpTracker` | the HTTP announces: request, timeout, decoding; implements `Announce` |
| `Download` | `cmd_download`, composed with `Announce` and `HttpTracker` for its tasks, an engine and a dashboard |
| `DownloadProofs` | its theorems |
| `Recursion` | lemmas about sequences, folds and recursion from the end, which the other proofs cite |
| `BencodeDecoder` | `decode` and `decode_partial`: a cursor and a stack |
| `BencodeGrammar` | the values a string denotes, and the properties that compare the decoder with it |
| `BencodeProofs` | theorems of `BencodeDecoder`, and that it decides `BencodeGrammar` |
| `BencodeValue` | the accessors of `Value` |
| `Metainfo` | `from_bytes`: two runs of `BencodeDecoder` and the extraction of the fields |
| `MetainfoHash` | what the info hash should be, by `BencodeGrammar` |
| `Pieces` | `piece_size` |
| `MetainfoProofs` | theorems of `Metainfo`, what the info hash is of, and that the pieces are a partition |
| `Magnet` | `MagnetLink::parse` and what it calls |
| `Commands` | the `info` and `magnet` commands, over `Metainfo` and `Magnet` |
| `CommandsProofs` | theorems of `Commands` |
| `MC...` | values of the constants for TLC |

How they compose: `Download` instantiates `Announce` (which `UdpTracker`
implements) and `HttpTracker`; `Commands` extends `Metainfo` and `Magnet`, and
`Metainfo` extends `BencodeDecoder`, whose steps its own `Decode` takes; `PeerClient` takes a frame
as a unit, which is what `PeerWire` shows of the bytes.

A definition named `...` followed by `\* mutant` is a plausible mistake in the
definition after it; it is used only to see that the property notices.

### PeerClient

`pc` is where the client's code stands, `dial` to `bitfield` inside `connect`,
`ready` between two calls, `reading`, `got` and `flush` inside a method. The
client is one task, so an action is the code from one await to the next, except
that the stream is read a byte at a time: a timeout may fall between any two.

- `choked`, `bitfield`: the fields of the struct. `wbuf` and `out`: the
  `BufStream`'s buffer and what it passed on. `rd`: the pending `Message::read`
  (length or body, bytes wanted, and where in a frame it began).
- `sent`, `hs`, `closed`: the peer's side. `cur`, `off`: frames consumed whole
  and bytes of the next one. Bytes are not spelled out; a read that begins
  inside a frame decodes *any* length and *any* message of `Garbage`.
- `log`, `base`, `late`, `cut`: history. `log` holds every message that
  `Message::read` returned; `base` how many `connect` consumed; `late` that its
  wait for the bitfield timed out; `cut` that it did so inside a frame.
- The engine is external. It calls one method at a time, passes what it read to
  `handle_message`, and drops the client on an error. The requests it sends are
  not tied to `choked`: the code does not tie them either.
- Not modelled: `PeerStats` (counters that nothing in `src/` reads), the Fast and
  extension protocols (the code has none), `clear_piece` and `count` (dead code).

### UdpTracker

One process per spawned announce. `reqs` and `reps` are the datagrams under way,
as sets: any of them may be delivered next, or never (loss), and up to `MaxDup`
are delivered without being removed (duplication). `issued` is what the trackers
remember of the ids they gave out, each with the length of the answer that
carried it. An id is its eight bytes. The buffers' lengths matter in three places
and are modelled there: the unchecked 16-byte connect buffer (`ConnectionId`: the
bytes of the id that came, and zeros where none did), the 20-byte check
(`TooShort`), the peers that do not fit (`Fitting`).

Assumed: `rand::random()` never repeats a transaction id (a collision has odds of
2^-32 per pair); an answer has at least the eight bytes of its action and
transaction id (of one that is cut inside those, the zeros would have to stand
for the end of a random number); `bind` followed by `connect` is one step, as nothing is awaited on the
network in between; trackers answer only what they were sent, a connection id
being good for the address and port it was issued to (what `udp.rs:62-65` says).
`offers`, `refused` and `dups` are history.

### PeerWire

One direction of a connection, with its bytes. The connection may go at any
moment (`Close`), and then any part of what is under way arrives, up to the middle
of a message; `lost` is the rest. A byte is a number below `Base`,
256 in the code; a word is four of them. `wire` holds the bytes that were
written and not read; `Receive` takes any number of those that the pending
`read_exact` still wants; `part` and `need` are its buffer. `ReadLength` and
`ReadBody` are what `Message::read` does after each of its two `read_exact`. The
caller then parses: `parse_have` as `handle_message` does, which ignores its
error, and `parse_piece` into `buf`, whose callers are outside `src/` and are
taken to stop at an error. `TooShort` is the guard of `parse_piece`, `InRange` what
`copy_from_slice` and the addition need not to panic: two definitions, so that
`NoPanic` compares them. The peer writes what the constructors build, keep-alives,
and frames that are refused: too long, of an unknown id, a piece too short, a
have too short.

`Blocks` has no bytes: messages are sent and taken in order, and the exchange ends
when the connection is gone or the next message cannot be used: malformed, longer
than a message may be (`MaxBlock`), past the buffer, of another piece.
The mapping is the identity on `sent`, `taken`, `haves`, `buf` and `closed`, and `pc =
"failed"` for its end. A message that cannot be used is never taken, and one that can
is never a reason to end. So a reader that accepted a malformed frame, refused a good
one, skipped one, or wrote a block anywhere else would have no step to map to.

`usize` has 64 bits here. `begin + block.len()` cannot overflow then, which
`ConstantsOK` states; it rules a 32-bit `usize` out, on which the
sum wraps for an offset near 2^32, and `NoPanic` says nothing of such a build.

### HttpTracker

One process per announce: `Build` (URL and client), a request that is answered,
fails or times out, `Parse`. A body is what `decoder::decode` makes of it: a
value, which `OutcomeOf` reads with the accessors of `BencodeValue`, or an error.
A tracker that answers encodes an `AnnounceResponse`; an interval above
`i64::MAX` comes as a negative integer and has to survive the cast back. Ports are two
bytes, of which the order matters. `BadBodies` are what carries no response: an
error page, a failure reason, peers that are missing, of another type or ragged.

### Download

`pc` follows `cmd_download`; `handles` are the spawned tasks and `outcome` what
their `JoinHandle`s hold. A task of a `udp://` URL takes the steps of `Announce`,
the module that `UdpTracker` is shown to implement; one of an `http(s)://` URL those of
`HttpTracker`, and `TasksAnnounce` says that these are steps of `Announce` too. A panic
in a task is a `Failed` outcome, as `Err(e)` of a join is handled like an error.
The two modes of `--no-tui` differ in who polls the engine and whether a
dashboard exists. When the command has returned, `main` returns and the runtime
drops what is left, so `Alive` guards the other tasks.

### BencodeDecoder

`data` and `pos` are the `Decoder`; `whole` tells `decode` from
`decode_partial`. The recursion of `parse_value` is the variable `stack`, a frame
per open list or dictionary with the byte it was opened at (`at`, history) and
the values its loop has got. `Value` is a call of `parse_value` down to its first
recursive call or its return, `Loop` the test of a `while`, `Resume` what the
caller does with the value that came back. A dictionary's frame holds keys and
values in turn, and becomes a map (`DictOf`, a later equal key replaces an earlier one)
when it closes. A byte is the character that names it; "a" is any byte without a
meaning, one that is not UTF-8 included: `from_utf8` and `parse` fail with the
same error. `str::parse` takes a sign and leading zeros, which `Signed` and
`Unsigned` do too. `pos + length` beyond `usize::MAX` is a panic in every build.

`BencodeGrammar` says what a string means with no cursor: the set of values it
can be cut into. That the prefix which is a value (what `compute_info_hash` hashes)
is unique is part of `AgreesWithGrammar`. The recursion of the grammar is a
function, `Items`, from the stretches of the string to the sequences of values they encode.

### Metainfo, MetainfoHash, Pieces

`from_bytes` decodes the file (`phase` "root"), looks for the info key in its
bytes, and decodes again from there (`phase` "info") to learn how long the
dictionary is. Both decodings are `BencodeDecoder`, a step at a time, the
variables of the second being those of the first. `Extract` is everything
after: `Layout` the single length or the list of files, `U64` the casts, `AddFile` the sum,
which wraps or panics by the build (`checked`). Keys are one letter,
`InfoMark` is `4:infod` with such a key, and the SHA-1 of some bytes is those bytes:
injective, which is what one relies on. `MetainfoHash` states what the hash should be
with the grammar, which has no cursor: the bytes hashed denote exactly the
dictionary the fields come from. `Pieces` is `piece_size`, in arithmetic modulo 2^64.

### Magnet, Commands

A URI is the pairs that the split at `&` and `=` gives. The value of `xt` is bytes,
as its length and its slices are in bytes, so a character of two may be
cut (a panic); names and trackers are characters. `from_str_radix` takes a leading `+`
and a single digit, which `HexByte` does too. `Commands` runs `info` on a file or
`magnet` on a link and records how the process ends: `truncate` may cut the URL it
displays inside a character. How fields are laid out on the screen is left out.

## Runs

| Run | Distinct states | What it checks |
|---|---|---|
| `peer_client` | 4,161,166 | `TypeOK`, `FramesInOrder`, `UnchokeIsReal`, `BitfieldExact`, `NothingUnflushed`, `SameSwarm`, `ConnectEnds` |
| `peer_late_bitfield` | | violated: `LatePeerReadable` (finding 1) |
| `peer_short_bitfield` | | violated: `HaveRecorded` (finding 2) |
| `udp_announce` | 1,134,824 | `TypeOK`, `IdIsMine`, `NoFalseAlarm`, `ImplementsAnnounce` |
| `udp_short_connect` | | violated: `AnnouncesAreValid` (finding 3) |
| `download` | 53,051 | `TypeOK`, `ContactedOnce`, `TasksAnnounce`, `AllPeersGathered`, `ShortestInterval`, `SavedOnSuccess`, `CommandEnds` |
| `download_tui` | | violated: `TuiCleanedUp` (finding 4) |
| `bencode_decoder` | 142,812 | `DecoderTypeOK`, `DepthBounded`, `AgreesWithGrammar`, `Linear`, `DecodeEnds` |
| `bencode_keys` | | violated: `KeysSorted` (finding 5) |
| `commands` | 28,550 | `TypeOK`, `SizesAgree`, `HashOfOnlyInfo`, `HashIsShown`, `TextIsShown` |
| `metainfo_hash` | | violated: `HashOfInfo` (finding 6) |
| `peer_wire` | 133,268 | `TypeOK`, `NoPanic`, `ImplementsBlocks`, `AllRead` |

What they show, where the name does not say it: `FramesInOrder`, the messages
`read_message` returned are the peer's, in order, each one once; `IdIsMine`, an
announce carries an id that its own tracker issued to this task's own connect and
port, or, after an answer shorter than 16 bytes, the bytes of such an id that came,
followed by zeros; `TasksAnnounce`, an HTTP
announce ends once, with the response it was offered or an error;
`AgreesWithGrammar`, `decode` accepts exactly the strings of the grammar, returns
their value and consumes its bytes; `Linear`, every step uses up some of the four
that a byte of the input allows; `ImplementsBlocks`, what is parsed is what was built, and the reader gives up at no
other message than one it cannot use; `AllRead`, a message that can be used and
comes whole after others like it is read in the end, however it was cut and also when
the connection goes after it; `ShortestInterval`, of the interval that is printed
(`main.rs:279-283`): the engine is not given it;
`SavedOnSuccess`, that the file on disk is the command's doing: the engine is given the path
too (`main.rs:298`, `306`) and is taken not to write there;
`SizesAgree`, `total_length` is the sum of the lengths as far as 64 bits go, and
when the number of hashes goes with it the pieces partition the torrent;
`HashOfOnlyInfo`, in a file with one `4:infod` the hash is right;
`HashIsShown` and `TextIsShown`, a hash in hexadecimal and a percent-encoded text come
out as they were, the latter when it is ASCII.

**Bounds, and why they are enough.**

- `peer_client`: three frames sent, at most one ahead of the reader, one message
  written after the handshake; nine pieces, so that a bitfield takes two bytes and
  one payload is short. Three frames are the least for an Unchoke and a
  Choke on either side of a Bitfield. A length prefix is 2 bytes instead of
  4 and a body at most 2: the loop of `read_exact` has a first, a middle and a
  last byte in the frame whatever the numbers are. `HeaderLen` and `MaxLen` are
  constants, and the theorems hold for 4 and 16 MiB. The kinds are one of each
  class that the code tells apart.
- `udp_announce`: two tasks and two ports give both separate and reused ports; two
  trackers and lookups that may meet at one; one duplicate. `Ids` are the ids drawn, one per
answered connect: two of them, which share seven bytes, the second ending in the zero that a
cut would leave. A connect answer has 16 bytes or 15, so the id may lose its last byte;
`udp_short_connect` has 8, 12, 15 and 16. The theorem holds for any length from 8 on. A buffer
  of two peers and an answer of three with a zero port in it meet both the
  truncation and the filter.
- `download`: at most four URLs in two tiers with every kind of repetition, one of
  an unknown scheme; answers that overlap, repeat, are empty, and ask for
  intervals on both sides of 1800 s, one of which is stated as a negative
  integer; bodies that are bad in six ways; a channel of two entries.
- `peer_wire`: two messages, so that the bytes of one run into the other's and a
  read begins where the last one ended; every chunking of them. Bytes are below 10, so
  that a word is four decimal digits and 9999 the greatest; a body is at most 13.
  Blocks fit, overlap, end at the end of the buffer, pass it by one, start past it
  or at the greatest offset, are of another piece, or fit the buffer (of five bytes) and
  not a message. Messages of every kind. The connection goes at every byte.
- `bencode_decoder`: every string of up to four tokens (each byte with a meaning,
  one without, a string of one byte's prefix), every dictionary of up to four
  parts drawn from keys that repeat, are unsorted or are no keys at all, and
  integers of up to three signs and digits. `i64::MAX` is 98 and `usize::MAX` 20,
  so that one more than either can be written, and -99 (the least) too.
- `commands`: info dictionaries with every pair of a piece length or hashes and a
  length or file list from a set that has each missing, ill-typed, negative, zero,
  ragged and overflowing; files with an entry before and one after the info
  dictionary that is a tracker list, holds the mark as text, nests another info or repeats it. A word is 198, twice 99. Hashes of two bytes
  with every combination of three digits, signs and characters of two bytes; texts of up to two
  characters in each of their encodings. The commands read one argument, so
  more files than one add nothing.

**Fairness.** tokio's timers expire and wake their task, so each timeout is
weakly fair: those of `connect` in `PeerClient`, of the four sends and receives
in `UdpTracker`. In the latter the name lookup and the bind are
taken to return: they are the system's, and no timeout in the code covers the
lookup (a hazard listed as uncovered). In `Download` the command and the
dashboard run when they can (tokio's scheduler), a UDP announce ends (which is
what `udp_announce` shows of it), so does an HTTP request, by the client's 15 s
timeout, and the engine ends: an assumption about code that is not here. Nothing is assumed of peers, trackers,
the network or the user. In `PeerWire` the reader is polled and
the stream delivers what was written (`Read`, `Use`); the peer writes and closes as
it likes. `BencodeDecoder` is one sequential call: it takes its next
step. `Commands` states no liveness. Deadlock is not checked, since every system
here stops: a client that failed, an announce that ended, a process that exited,
a `decode` that returned, a peer that writes no more.

## Proofs

The modules named `...Proofs` are checked by TLAPS with the constants free: any
number of pieces, frames, tasks, trackers, ports, messages, any file and any
link. They rest on the named assumptions of the modules they are about
(`ConstantsOK`, `GarbageOK`, `MessagesOK`, `FramesOK`, `EnoughTasks`, `BadBodiesOK`,
`InputsOK`, `WordIsU64`, `WordOK`, `HashCharsOK`, `ShownOK`, `UrisOK`), which TLC evaluates in every
run. Each invariant and each action property of the passing runs is stated by a theorem;
of the refinement `ImplementsAnnounce`, the safety part.

**Recursion.** The library's induction theorems take an operator, which the
provers cannot instantiate. `Recursion` states induction over a *set* instead
(`UpTo`, from `Least`, which is the well-foundedness of the naturals) and recursion
over a *function*: `FoldExists` gives, for a step function, the function of the partial
results of a fold; `FoldOneMore`, `FoldTyped` and `FoldFor` what one more element does
and that a fold with the same steps is the same; `Seen`, `Flattened`, `FlattenedAt`,
`Joined` and `Backwards` what `FlattenSeq` and a recursion from the end
give. Every fold of the models is then a `...Run` with a lemma of what it keeps.

**PeerClient.** `TypeCorrect`, `FramesCorrect`, `UnchokeCorrect`, `FlushCorrect`,
`SwarmCorrect` and `BitfieldCorrect` prove the run's six invariants.
None of these but the type invariant is inductive as it stands. The
strengthenings are:

- `FramePosition` ties the pending read to the stream (a read that began at a
  frame's first byte wants exactly the bytes that are left of it), from which
  `FramesInOrder` follows: what it decodes is the frame.
- `ChokeLogged` says what `choked` is in terms of the *log*; with `FramesInOrder`
  the log is a prefix of what the peer sent.
- `PiecesLogged` adds to `BitfieldExact` what holds while a message waits to be
  handled. It rests on the lemma `SetPieceHas`: `set_piece` adds the one piece
  it was told of, when there is a byte for it, and touches no other.
- `WriteBuffer` and `Swarm` say where the client may be with something in
  the buffer, and with an unverified handshake.

**UdpTracker.** `IdCorrect` and `AlarmCorrect` prove `IdIsMine` and `NoFalseAlarm`;
`AnnounceCorrect` proves the safety part of `ImplementsAnnounce` (the initial
states map to initial states, each step to a step of `Announce` or a stutter). They
share one inductive invariant, `UdpInv`:

- `Genuine`: a datagram carries the port of the task its transaction id belongs to,
  that task has sent the request, and a reply of each kind says what the tracker
  did (the id it issued, the answer it offered, the refusal).
- `Single`: while nothing was delivered twice, an exchange is one datagram, so
  nothing of the connect exchange is left when the announce begins. Without it
  `NoFalseAlarm` would not be inductive: a leftover connect answer would be
  turned down in the announce phase.
- `Started` and `Shape`: ports, errors and types.

`TypeCorrect` proves `TypeOK`, which is what a task returns in particular: the peers of an
`Ok` are a filtered prefix of an answer (`KeepRun`, the fold behind the filter), so
each has a port.

**BencodeDecoder.** `DecoderTypeCorrect`, `DepthCorrect` and `ValueCorrect` come from one
invariant, `DecoderInv`. The values on the stack have no type one can write
without recursion, so it says that the frames hold values of *some* well-formed set
`V`, each of whose members is a number, a byte string, or made of members of `V`;
a step may enlarge the set. `LinearCorrect` proves `Linear`. That the cursor stays in the input
rests on `ScanStops`: the scan has a least stopping point and ends at it.

`GrammarCorrect` proves `AgreesWithGrammar`, by `GrammarInv`:

- `ReadSoFar` is soundness. The stack cuts the bytes before the cursor: each frame's
  `got` is what the grammar reads between its opening and the next one's.
- `OnTheWay` is completeness. While the input has a meaning (`Denoted`), the decoder
  has not failed, and each value it is about to read begins where the grammar has one.
- Both meet in *unambiguity*: from one place the grammar reads at most one value, and it ends in
  one place. This is an induction on the length of the stretch (`Single`,
  `Extends`): the first byte settles the form, a digit run ends at its colon, and the values of
  a list are peeled off from the front. `OneMeaning` states it by itself.

**PeerWire.** `WordRoundTrip`: `get_u32` of `put_u32` is the identity on words, by the
division of a number into a quotient and a remainder below `Base`. `TypeCorrect` and
`NeverPanics` follow from one inductive invariant. `BlocksCorrect` proves
`ImplementsBlocks`: `PeerWire` implements `Blocks` for every set of messages and
every chunking. `TypeOK` does not say enough for that. The invariant `Stream` says that
the bytes consumed of the current frame, followed by those on the wire, are the
encodings of the messages not yet taken, when the bytes that were lost are added (`Carries`, which names the bytes after each
message rather than fold over them, so that no recursion is needed). Each
step needs one lemma about streams: a write adds an encoding at the end
(`CarriesMore`), a message read is the first of them (`CarriesNext`), and, since every
encoding is a frame whose length is in its first four bytes, a stream can be cut
into frames in one way only (`SameFrame`). That `serialize` is injective
(`SerializeInjective`) then gives the message back, and `BlockFields` its parts.
`FramesOK` says what a peer may make up: frames that are too long, or whole and refused.
That the reader gives up only where `Blocks` does is the converse: bytes missing means that
the connection is gone (`CutBytes`, `EndOfFile` comes only then), and a frame that is
refused is that of a message which cannot be used (`LargeUnusable`, `StrangeUnusable`, `GotPiece`).

**Download.** `SavedCorrect` proves `SavedOnSuccess` from `Progress`, which says what
engine, dashboard and file are at each point of the command. `TasksCorrect` proves
`TasksAnnounce`: each step of an HTTP task maps to one of `Announce`,
because the peers that `unmarshal_peers` cuts from the concatenated bytes are those that were
concatenated (`Packed`). `IntervalCorrect` proves `ShortestInterval`. It needs more than the merge:
that an outcome which was joined never changes again (`JoinOK`, `TaskStepKeeps`),
and that what a task holds is an answer it was offered, whatever the body held
(`TasksOK`, `BodyRead`). `ContactedCorrect` and
`GatheredCorrect` prove `ContactedOnce` and `AllPeersGathered` from `GatherInv`: the handles are
those that the two folds over the URLs give, from the spawn on (`HandlesFixed`), and
the peers those of the answers joined so far, none twice (`PeersOK`). `TypeCorrect` proves `TypeOK`
from the same. `EnoughTasks` says that the bound `MaxTasks` leaves no
tracker out, `BadBodiesOK` that what is called a bad body is one.

**Metainfo.** `TypeCorrect` and `SizesCorrect` follow from `MetaInv`: the root dictionary is a
well-formed value, whose fields `Extract` gets. `SumsUp` says of the sum of the
lengths, which may wrap, what it is congruent to and when it is exact.
`PiecesPartition`: for every piece length, total length and count that go together,
each byte of the torrent is in one piece, no piece is empty, and none passes the end. In 64
bits this needs that the last piece starts within them, which `Consistent` gives.

`HashCorrect` proves `HashOfOnlyInfo`, in four steps. (1) The bytes of a dictionary
hold its entries in turn, so before the info dictionary the bytes of its key come
(`EntryOfDict`, `Neighbours`); a key of one byte is written with a length that ends in the
digit 1 (`OneEndsWithOne`), whatever zeros or sign `str::parse` lets stand before it. So the mark stands
there. (2) It is the only one, hence the one the search finds (`TheMark`).
(3) The second decoding begins right behind it. A part of a string means what it means inside
(`SamePart`), so its input has the prefix that the first decoding took for the info
dictionary. (4) `AgreesWithGrammar` holds of both decodings, and the grammar has one meaning:
the second one accepts, returns that dictionary and stops at its end. The
invariant that carries this across the steps is `HashInv`.

**Commands.** `InfoIsMetainfo`: a command takes no step of `from_bytes` but its own, which
carries `InfoTypes`, `InfoSizes` and `InfoHash` over. `HashShown` proves `HashIsShown`: a digit
and the byte it is written into determine each other, in either case of the letters,
so a hash that is displayed parses to itself. `TextShown` proves `TextIsShown`.
`url_decode` goes over the text from the front while `EncodingsOf` spells it character by character;
`Backwards` and `FlattenedAt` line the two up. That no tracker is lost or moved is a
count: the tracker of the k-th `tr` is the k-th (`Count`, `Ranked`). `CommandInv` ties
the link to the parameters.

**Only model-checked.** Liveness, which is out of the provers' reach since it needs
`ENABLED`: `ConnectEnds`, `CommandEnds`, `DecodeEnds`, `AllRead`, and the fairness part of
`ImplementsAnnounce`. For `DecodeEnds`, `Linear` bounds the number of
steps; what is left to TLC is that a step is enabled until the end.

## Findings

1. *A late bitfield may desynchronise the connection* (`client.rs:111`). The
   timeout around `recv_bitfield` drops it wherever it is. Inside a frame, the
   bytes already taken are lost, `connect` returns `Ok` as the comment at
   `client.rs:107` intends, and the next `read_message` takes the rest of that frame
   for a length prefix. `FramesInOrder` has the exception `~cut` for this.
2. *A Have beyond a short bitfield is lost* (`bitfield.rs:47`). A payload
   is kept at the length it came; `set_piece` ignores an index whose byte is not
   there. `BitfieldExact` states what does hold.
3. *A short connect response yields an id nobody issued* (`udp.rs:90`). The number of
   bytes received is not looked at, unlike in the announce phase, and the buffer was
   zeroed: an answer of 8 to 15 bytes leaves the bytes of the id that came, followed by
   zeros (0 for 8 bytes). `IdIsMine` states what does hold.
4. *The dashboard is not waited for on errors* (`main.rs:314`, `317`). The
   comments promise that it exits with the download and is cleaned up.
5. *The order of keys is not checked* (`decoder.rs:152`), unlike what the comment at
   `decoder.rs:139` says of keys. A repeated key replaces the earlier value.
6. *The hash may be of something else* (`metainfo.rs:192`). The search takes the
   first `4:infod` of the file, in a text, in a nested dictionary or in the first of
   two `info` keys, and not the key of the root dictionary that
   `metainfo.rs:188` speaks of. `HashOfOnlyInfo` states what does hold.

Two more stand in the models, and no run states them. `parse_xt` (`magnet.rs:91`) slices by
bytes and reads by `from_str_radix`, which takes a sign: `+1` is accepted as the byte 1, and
40 bytes that are not 40 characters may panic, where `magnet.rs:15` has an error. `url_decode`
(`magnet.rs:116`) pushes each decoded byte as a character, so a text beyond ASCII comes out
garbled. `HashIsShown` and `TextIsShown` are about hexadecimal hashes and ASCII texts, and say
nothing of those.

## Not modelled

- *Engine, dashboard, `bencode::encoder`*: their source is not in the repository.
  So nothing can be said of resuming a download, of the pieces' hashes being
  compared, or of who reads the stats with `--no-tui`.
- *Configuration* (`config.rs`): one read with defaults on any failure, no state, and
  every value goes to the engine.
- *`PeerStats`* (`client.rs`): counters and a score that nothing in `src/` reads.
- *`clear_piece`, `count`* (`bitfield.rs`), the `Display` of `Value`: used by nothing.
- *`build_announce_url`, `parse_udp_url`, the split of a magnet URI*: string
  formatting and parsing by library calls; the models have their outcomes (a URL, a
  host and a port, the pairs, or an error).
- *Layout of the output*, `human_size`, logging.

## Plan

The modules above are what the code in `src/` allows. What is left:

1. That a `Have` or a block a connection reads is what `PeerWire` parses: `PeerClient`
   over the bytes of `PeerWire` instead of over frames.
2. The hazards of `PROJECT.json` that no property covers; each has a note saying why.
