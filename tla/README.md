# P2PFileTransfer: specifications, model checking and proofs

TLA+ specifications of the parts of P2PFileTransfer that are hard to test: the
folder transfer with its retries and resumptions, the `.partial` file it leaves
behind, what a chunk goes through on its way (compression, bandwidth limit), the
rendezvous server, the UDP relay, the two peers that pair through them, the history
file that several processes share, and the desktop application with its background
tasks. TLC checks them on small
instances; TLAPS proves the safety properties for every value of the
constants. `PROJECT.json` lists components, runs, mutants, findings, hazards
and theorems, and maps definitions to source lines.

To check a run: `tlc -config <run>.cfg <MC module>`; a proof: `tlapm <module>.tla`.

## 1. The system

| Part | State it keeps | Operations | Talks to |
|---|---|---|---|
| Sender (`session.rs` `send_path`, `transfer_folder.rs` `send`, `transfer_file.rs` `send_file`) | `FolderTransferState` in memory and in a state file, attempt counter | send manifest, chunk streams, checksums, Complete; retry, save, resume | receiver, over QUIC |
| Receiver (`receive.rs`, `receive_folder`, `receive_file`, `ChunkWriter`) | output directory, `.partial` files, chunks seen, history record | accept or reject, write chunks, finalize, verify, re-accept | sender |
| QUIC connection (`network/quic.rs`, `framing.rs`) | one control stream each way, a uni-stream per chunk | send, receive, lose | both |
| Session (`session.rs`, `handshake.rs`) | negotiated config, role, reconnect target | connect, accept, pair, reconnect | both ends, rendezvous |
| Rendezvous server (`server.rs`) | waiting table, oneshot channels, permits | pair two clients by code, expire, reject | clients over TCP, relay |
| Relay (`relay.rs`) | sessions, address index, token bucket | reserve, bind a hello to a slot, forward, sweep | server, peers over UDP |
| NAT traversal and rendezvous client (`traversal/`, `client.rs`) | sockets, STUN mappings | STUN, punch (connect raced with accept), join a relay | rendezvous, relay, peer |
| Bandwidth limiter, adaptive compression (`bandwidth.rs`, `compression.rs`) | token bucket; sampling counters | wait for tokens; compress | sender |
| Transfer history (`history.rs`) | `history.json`, its lock, temporary and quarantined files | append under a lock, list without one | every CLI process |
| Desktop application (`p2p-gui`) | `AppState`, cancel flag, background tasks | listen, connect, pair, stop, send; handle a task's report | user, sessions |
| Discovery, identity, known peers | table of peers with last-seen times; files | beacon, expire; load | LAN, file system |
| CLI, `rendezvousd` | arguments | start and stop the above | user |

**What is hard.** Two processes count chunk streams independently and would wait
for each other for ever if they disagreed. A chunk is acknowledged by QUIC before
the receiver has written it. The rename of `.partial` and the exchange of
checksums are separate steps, with a connection loss possible in between. The
resume state, `.partial` and the config that relates them are kept by different
processes. The server's tasks look up, take and insert waiters under a lock they
release in between, against a ttl. The relay keeps two maps that three tasks
change, and sends after releasing the lock. Two peers race a connection out against a
connection in, and must keep the same one. A background task of the desktop
application reports once, long after the state it was started from may have changed,
and is stopped by a flag the next start lowers again. The history is replaced by a
rename that a power loss can undo.

**What makes each part correct.** *Transfer*: a file counted as complete is
delivered byte for byte; success means everything is delivered; no chunk lands in
another file; both ends expect the same streams; every call returns. *`.partial`*:
written chunks stay intact and the source's bytes end up at their places. *Server*:
pairs do not overlap and do not disagree, nobody is told Expired without a reason, no
waiter is leaked, every connection is answered. *Relay*: index and table agree, traffic stays within
its session, slots do not change hands, idle sessions go, the cap holds.
*Traversal*: no one-sided session, near peers pair, both calls end alike. *Pipeline*:
the limit holds, the decision is the sample's, sending ends.
*History*: a reported record is kept, a reader sees all of them, every append ends.
*Desktop*: a send is recorded once with its own outcome, the label is that of the newest
task or of the last report, no listener is out of reach without a cause, a stop is heard.

## 2. Modules

```
Transport  <- Sender, Receiver <- FolderTransfer  <- MCFolderTransfer
                                  | implements        FolderTransferProofs
                                  FileDelivery
PartialFile       <- MCPartialFile,       PartialFileProofs
Relay             <- MCRelay,             RelayProofs
RendezvousServer  <- MCRendezvousServer,  RendezvousServerProofs
Traversal         <- MCTraversal,         TraversalProofs
SendPipeline      <- MCSendPipeline,      SendPipelineProofs
HistoryFile       <- MCHistoryFile,       HistoryFileProofs
Desktop           <- MCDesktop,           DesktopProofs
```

Definitions named "Mutant of X" are not part of a specification. Each is a
plausible mistake in X that some property must notice; `PROJECT.json` says which.

### Transport, Sender, Receiver, FolderTransfer

`Transport`: `link` is the connection, `toR` and `toS` are the control streams,
`inbox` the chunk streams the receiver's QUIC stack has. When the connection goes,
each end can still read a prefix of what was sent to it, the last frame perhaps
truncated (`Torn`).

`Sender`: `sPhase` is the place in `send_path`/`send`/`send_single_file`/`send_file`
where the process waits; `state` is `FolderTransferState` (completed files, chunks
claimed per file), `disk` the state file, `attempt` the retry counter. One action per
await: manifest, Ready, a chunk stream, its acknowledgement, the checksums,
Complete, and the error paths (`GiveUp` for fatal errors, `Recoverable` for retried
ones), with the saves each of them makes. A save overwrites the state file in place
and its failure is ignored, so it leaves the new state, the old one, or a file cut
short that `resume` cannot load (`save_to_file`).

`Receiver`: `rPhase`, the manifest `rInfo`, the file being received `rFile`, the
chunks seen in this session `rSeen`, `partial` and `final` per file, and the history
record. A file's content is the set of pieces `<<chunk, file>>` in it, so a chunk in
the wrong file is visible, and a checksum is that set.

`FolderTransfer` composes the two and adds the disturbances: connection losses
(while up, or while connecting or in the handshake), kills of the sender, crashes of
the receiver, unreadable source files, a user who declines, a user who runs
`resume` or `send` again. `MaxFaults` bounds each kind, `MaxDisturbances` all together.

`FileDelivery` is the abstract promise: files are stored, good ones are confirmed,
confirmed ones are never touched again, success needs all of them confirmed.

Abstractions: sources do not change during a transfer; SHA-256 is injective; renames
are not undone by a power loss; a disk error at the receiver is like its crash; nobody
sets a `chunk_size` beyond `MAX_CHUNK_STREAM_BYTES` (16 MiB), whose streams the receiver
would take for a disconnect; only the latest transfer's state file is
tracked; `file_chunks` is a set (its `Vec` never holds an index twice); compression and
the bandwidth limit are `SendPipeline`'s.

### PartialFile

One file as a sequence of bytes, a byte being abstracted to the version of the source
and the offset it comes from. `read_chunk`, `WrittenAt` (seek and write, zeros in the
gap) and `Opened` (`ChunkWriter::new` with its truncation) are the layout; sessions
negotiate a `chunk_size` and are interrupted anywhere. `.partial` survives both
sessions and transfers. The receiver may be behind the sender's acknowledgements, so
the state may claim a chunk that was never written: that case is FolderTransfer's
(section 5), and the properties here are about states whose claims are true. The four
messages of the handshake are one step: its outcome is the initiator's config, or no
session.

### RendezvousServer

One handler per connection; `pc` is the await it is at. `waiting` maps a code to the
connection whose `Waiter` it holds, `channel` is the oneshot to a first peer's handler,
`taken` the waiter a second peer's handler has removed, `reply` what the client was
told. Each lock acquisition, each write and the notification are separate steps. The
ttl is a flag raised at any time after the registration. `cert_fingerprint` gives each
device id, which is new in every process, the identity of its machine; `ReserveSession`
refuses a relay to two ids of one identity, as the server does. A client that has left shows as a failing write.

### Relay

`sessions`, `addr_to_token`, `bytes_forwarded` and the bucket are the variables of
`RelayState` and `forward_loop`; `sending` is the datagram between the release of the
lock and `send_to`. A tick is half a second. The sweep wakes up in time. Session
tokens are random and do not collide. A datagram that is not a hello, or a hello that
is refused, changes no table (`Ignored`) but costs tokens.

### Traversal

Both peers of a pair, from STUN over the registration, the match and the relay's
hellos to the race of `connect` against `accept` and the session handshake over the
connection each has kept. A connection is named by the peer that opens it; `side[p][c]`
is what connection `c` is at peer `p`, `kept` what the race returned, `packets` what is
under way, each with its age. Time is discrete, because the code relies on it: the
peer with the larger id connects `SECONDARY_CONNECT_DELAY` later. The server pairs the
two or does not (`RendezvousServer` says how), hellos may be lost, and a relayed pair
has a path once the relay has both (`Relay` says how). STUN is one step that may fail.
Connections of third parties are left out.

### SendPipeline

`send_file` between disk and stream: an `AdaptiveCompressor` (three sampled chunks, then
a decision) and a `BandwidthLimiter` (bucket, elapsed time, sleep). Both are made anew for each file, as
`FileTransferSession::new` does. zstd is a pair of sizes; the unit of time is the one
in which the limiter earns a byte, and only differences of time are kept. `level` is
what has been let through ahead of the limit: it grows with the bytes and falls with
time, so that a bound on it bounds every stretch of time.

### HistoryFile

`append_record_locked`, one system call an action: lock, load (with the quarantine of a
file that does not parse), open, write, fsync, rename, unlock; any may fail, a process
may die at any of them, the power may go, and something else may damage
`history.json`. A file is its form, its records and whether it is synced; a power loss
leaves anything of a file that is not. `disk` is the directory as it was written back,
to which a power loss may return, since the code never syncs it. The `history` command
reads without the lock.

### Desktop

`AppState` and the background tasks. `update` handles one message at a time; a task
(listening loop, connection attempt, send) goes from await to await and queues its only
message when it ends. `cancel_listener` is the flag shared by all listening loops,
`socket` says whose endpoint holds a port until quinn has drained it. Actions are the
buttons (when the view shows them), the awaits of the tasks, and the handlers of their
messages. `last_report` is history: the connection task whose message was handled last,
and how many tasks had been started by then; the code keeps no such mark. Form fields, settings and console are left out.

## 3. Runs

| Run | Instance | Shows |
|---|---|---|
| `transfer` | an empty, a two-chunk and a one-chunk file, 3 attempts; any 3 disturbances out of 2 losses and 1 each of kill, crash, source error, rejection, re-run | complete means delivered, success means delivered, honest history records, no foreign pieces, equal stream counts, implements `FileDelivery`; with readable sources `send_path` returns and the receiver does not stay in a transfer; an undisturbed transfer succeeds |
| `partial_file` | sizes 0..4, chunk sizes 1..3, two transfers | written chunks stay intact; the source's bytes are delivered; exact delivery when nothing was left over |
| `rendezvous` | 3 connections of 3 devices, 2 of them with one identity; 1 code, 2 permits, a failing write | exclusive and mutual pairs, no Expired without a reason, no leaked waiter; every connection is accepted and ended |
| `relay` | 2 sessions, 3 addresses, 2 fingerprints, idle timeout 1, sweep 2, 4 ticks | index, datagrams in flight, slots, idle bound, rate cap |
| `traversal` | latencies 1 and 3, stagger 4, timeout 14; relay wanted or not, 3 hellos | no one-sided session; near peers pair; both calls end, alike |
| `send_pipeline` | 2 files of 4 chunks, any of them already complete; limits 0, 2, 3; data that shrinks and data that grows | the limit, the compressor's decision, and that sending ends |
| `history_file` | 2 processes, 3 records, 2 damages, 2 seconds; any failure, death or power loss | no reported record lost; complete reads; appends end |
| `desktop` | 3 tasks, 2 ports | sends recorded once; labels of the newest task or the last report; hidden listeners explained; a stop is heard |
| `resume_after_checksum_loss`, `source_error_hang`, `disconnect_ends_receiver`, `cleanup_drops_retry` | as small as the disagreement allows | the findings of section 5 |

**Why the bounds are enough.** Two files with chunks make a chunk of one reach the other, one
chunk in flight while another is written, and skipped files ahead of a resumed one;
an empty file, here the first, has no streams at all. Two losses give a loss during the
recovery from a loss; a third disturbance adds a kill, a crash or a re-run to them. With sizes up to 4 and chunks up to 3 there are short, full and missing last
chunks and leftovers shorter than, within and beyond the rounded-up size. Three
connections on one code are a first peer, a second and one that races with either, or
a retry; two permits keep one of them waiting at the listener. Three addresses and two sessions let an address leave one session and join
another while a datagram of the first is being sent. With a stagger of 4, latency 1 is
within what it settles and latency 3 beyond it, where handshakes cross; every exchange
ends well before 14. Four chunks are the sample and one after the decision; with a limit
of 2 and 3 there are chunks that fit the bucket at once, after a wait, and never. Three
records make an append that loads what two others wrote; two damages in one second or in
two make the names of quarantined files collide or not. Three tasks are a listener that
was stopped, one started after it and the report of a third, or a connection and two
sends. The runs take at most two and a half minutes with two workers.

**Deadlock** is not checked: every system here may stop legitimately (the transfer is
over, all connections are answered, the bound on time is reached). Unwanted waiting is
what the liveness properties are about.

**Fairness.** `transfer`: weak fairness of the sender's steps, of the
receiver's steps, of a connection attempt both ends are ready for, and of the end of
one nobody answers: both are running processes, and quinn's 60 s idle timeout ends an
attempt. Nothing is assumed about disturbances, restarts or re-runs.
`rendezvous`: weak fairness of each handler, of the accept loop per connection
and of the ttl: tokio runs every ready task, the first frame has a timeout, time
passes. `traversal`: weak fairness of each peer's steps, which all have timeouts, of the delivery
of packets, and of time; a match is owed to nobody. Time does not pass beyond a
packet's latency or an expired timer, which is how a bound on the delay is stated.
`send_pipeline`: the sending task runs when it can, and time passes.
`history_file`: strong fairness of each process's system calls: the kernel queues waiters
for a lock, so one that wants it gets it although others come and go; processes may
still die and calls fail.
`desktop`: weak fairness of each listening or connecting task and of the handling of
messages (the poll sleeps 100 ms; connecting and pairing have timeouts); nothing of
users, of peers that connect, or of sends. Symmetry is used where no liveness is checked, over model values the
specification treats alike.

## 4. Proofs

| Module | Theorems |
|---|---|
| `FolderTransferProofs` | `TypeCorrect`; `LockstepCorrect`, `CompletedFilesAreDelivered`, `SuccessMeansDelivery`, `RecordIsHonest`, `TransferImplementsDelivery`; `StreamInvariance`, `ChunksLandInTheirFile`, `StreamCountsAlwaysAgree` |
| `PartialFileProofs` | `Invariance`, `TypeCorrect`, `WrittenStaysWritten`, `SourceIsDelivered`, `ExactlyTheSource` |
| `RelayProofs` | `Invariance`, `TypeCorrect`, `IndexCorrect`, `PartnersAreDistinct`, `DatagramsStayInSession`, `SlotsStable`, `IdleSessionsEvicted`, `RateCapHolds` |
| `RendezvousServerProofs` | `Invariance`, `TypeCorrect`, `NoWaiterLeaks`, `ExpiriesForReason`, `PairsAreExclusive`, `PairsAreMutual` |
| `HistoryFileProofs` | `Invariance`, `TypeCorrect`, `RecordsNotLost`, `HistoryNeverTorn`, `HistoryReadsComplete` |
| `SendPipelineProofs` | `Invariance`, `TypeCorrect`, `RateHolds`, `DecisionIsOnSample` |
| `TraversalProofs` | `Invariance`, `TypeCorrect`, `SessionsAlwaysAgree` |
| `DesktopProofs` | `Invariance`, `TypeCorrect`, `SendsRecordedOnceAlways`, `LabelsTrueAlways`, `HiddenListenerExplainedAlways` |

Together they state every safety property the passing runs check: all invariants, the
action properties and the refinement.

What is proved as part of an inductive invariant and says nothing else (types, `Lockstep`,
distinct partners, a history that is never torn) is not repeated in the runs.

The assumptions are the named `ASSUME`s of the modules: numbers are naturals, there is
at least one file, `None` is not an element of the sets it is added to, connections
are finitely many. The theorems of `PartialFileProofs` have one hypothesis more,
`SameConfig`: sessions are direct, or nobody passes `--chunk-size`. Without it they are
false (section 5: a transfer resumed through a rendezvous).

**Lockstep.** That a completed file is delivered is not inductive: the sender marks a
file because of a checksum it reads, and one must know that this checksum is of that
file and still describes what is on disk. `Lockstep` says that. Files complete in order
(`CompletedInOrder`); the receiver is never at a file the sender has completed
(`ReceiverNotBehind`); the answers in the control stream are, in order, the checksums
of the current file and those after it, and of their present content
(`AnswersTruthful`); while the connection lives, what one side has sent and the other
has not read adds up to the difference of their positions (`NothingLost`). The awkward
cases have a part each: a manifest that is still unread (`ManifestCurrent`), and a
sender that starts over on a live connection after a source error (`StartedOver`).
`ReceiverVerified` does the same for what the receiver relies on. The refinement then
needs only that a step that changes `final[f]` does so for a file not confirmed.

**Relay.** The datagram between lock and `send_to` stays within its session because the
forwarding loop is the only task that binds addresses and is busy with it; the sweep
may only unbind both. The rate cap needs the sum of what was forwarded and what a
topped-up bucket would allow (`BucketAccounts`); the idle bound needs when the next
sweep comes, relative to each session (`SweepInTime`).

**Server.** Pairs are exclusive because a waiter is taken once and is then out of the
table (`TakenOnce`), and a handler that took one never waits itself (`Roles`). They are
mutual because a payload in a oneshot was sent by the handler that took the waiter,
after telling its own client the same (`MessagesTrue`, `RepliesFounded`). Expired is
told when a oneshot sender was dropped, and that happened for a reason which stays one
(`DropsForReason`): the ttl, a second peer that took the waiter, or the cleanup of an
earlier connection of the same device (finding 4). Inserting is no reason, since another
waiter is looked for again under the same lock.

**History.** That a reported record stays needs to know, for each process in the critical
section, that it is the only one (`Exclusive`), that what it has loaded is still all
there is (`Loaded`), that its temporary file holds that and its own record
(`Written`), and that after the rename so does `history.json` (`Renamed`); what is
written back (`OnDisk`) lacks only what a power loss would undo. A complete read needs
in addition that without damage nothing was ever set aside (`RInv`).

**Pipeline.** As in the relay, the limit needs a sum: what is ahead of the limit and
what a topped-up bucket would still let through are covered by the bursts of the files
begun (`Accounts`). The decision needs that a chunk is in hand only inside a file
(`InFile`).

**Streams.** A chunk stream names its chunk, not its file; that it reaches the right one
follows from counting. `StreamInv` takes the lockstep as given and adds: the streams in
flight are of the file the receiver is at or comes to next (`StreamsOwned`); those it
has seen, those in flight and those the sender has yet to open are disjoint and add up
to what it was told (`StreamsAccounted`); a file it has finalized before the sender read
the checksum was sent in full (`FinalizedIsSent`). For the next file the sum starts right
because neither the state nor the manifest has chunks of a file ahead of the current one
(`FutureUntouched`, `ClaimsBehind`).

**Layout.** The bytes of a chunk are compared place by place (`InPlace`), so no induction over
sequences is needed. Two chunks have no byte in common (`ChunksApart`), every byte is in
one (`ChunkOfByte`), and a session truncates to at least the size of the file
(`CountFacts`); hence a written chunk stays. That finalize finds all of them needs the
count: streams waited for and chunks seen add up to the chunks of the file
(`SessionInv`), and a set of as many chunks as the file has is all of them
(`ChunksFinite`). `LengthInv` bounds what is behind. With it a chunk may be treated as
one piece, as `FolderTransfer` does.

**Traversal.** A race returns once (`KeptOnce`), so the connection a peer has kept is never
another one later; a message of the handshake is on the connection its sender has kept
(`MessagesOnKept`), and perform_handshake reads only the connection its own side has
kept. The match is read once, by a call that still waits for it (`MatchAwaited`), or a
decided race would start over.

**Desktop.** The send button and `current_transfer` guard each other: the only send under way
or with its message queued is the current one (`SendInv`), a message is queued once
(`QueueInv`) and is one of its task's kind (`TasksInv`). The labels and the hidden
listener need in addition that the task of the last report has reported, and that the mark of when
it was handled is not ahead of the tasks started (`LastReportInv`).

**Only model-checked.** The temporal properties under fairness: `ReturnsIfReadable`,
`UndisturbedTransferSucceeds`, `ReceiverNotStuck`, `HandlersEnd`, `AppendsEnd`,
`SendFileEnds`, `NearPeersPair`, `EndsTogether` and `StopReachesListeners`. Liveness and
ENABLED are beyond the prover. It cannot use RECURSIVE operators either; the modules have
none.

## 5. Findings

Each is a run that TLC ends with a counterexample; `PROJECT.json` quotes the text the
code disagrees with.

1. `resume_after_checksum_loss`: a loss between the rename of `.partial` and the
   sender's reading of the checksum. The retry claims all chunks, the receiver renames a
   new, empty `.partial` over the good file, and the transfer fails for good.
2. `source_error_hang`: an unreadable source file is retried like a lost connection.
   The sender waits for Ready on the old connection, the receiver for chunk streams
   (`SendPathTerminates`; `ReturnsIfReadable` is what holds).
3. `disconnect_ends_receiver`: a connection lost while the receiver writes Ready or a
   checksum is an io error, which the receive loop takes for a fatal one: the process
   ends instead of waiting for the next peer (`DisconnectsRecovered`). `ReceiverNotStuck`
   is what holds: it is never left inside a transfer.
4. `cleanup_drops_retry`: the server's cleanup recognises its own waiter by device id. A
   retry of the same device that comes between the end of the ttl and the cleanup is
   taken out of the table with it (`WaiterLeavesForReason`).

Also visible in the models, without a run of their own:

- QUIC's acknowledgement is taken for the receiver's (`transfer_file.rs:324`, against the
  comment at 450-454). After a crash of the receiver, or a connection lost while it
  verifies a file and a chunk of the next is unread, the state claims a chunk nobody has;
  the resumed file then fails its checksum and is never counted as complete.
- The truncation of a leftover `.partial` goes by the size rounded up to whole chunks
  (`transfer_file.rs:218`, against 406-410): bytes of an older, longer version can survive
  at the end of the finalized file (hence `ExactWithoutLeftover`), and the checksum
  notices.
- A transfer resumed through a rendezvous gets the receiver's default `chunk_size` when
  the receiver's random id is the smaller one (`session.rs:129`, against
  `transfer_folder.rs:700-704`). With `Rendezvous = TRUE` in `partial_file.cfg`,
  `SourceDelivered` fails.
- A chunk larger than two seconds of the limit is never let through (`bandwidth.rs:107`,
  against the doc at 88): `TooLarge`, which `SendFileEnds` excepts. The example of
  `cli.rs:120`, 512K, covers the default chunk of 1 MiB exactly, and not a sampled chunk
  that compression has made larger.
- Every file has a limiter of its own: `RateBounded` allows a burst of two seconds for
  each, so many small files are not limited.
- Peers whose packets take longer than the stagger settles each keep the connection they
  opened, and both calls fail (`punch.rs:41-43` and `quic.rs:8-9` say whichever direction
  wins is fine). `NearPeersPair` states when it is, `EndsTogether` that nobody hangs.
- Two damaged histories found in one second share a quarantine name, and so do all found
  on a clock before 1970 (`history.rs:288`, against 293); a reported record can be undone
  by a power loss, because the directory is not synced (`history.rs:262`). They are the
  two exceptions of `NoRecordLost`.
- A quick stop and start leaves two listening loops, and the report of the first is taken
  for the second's: a listener may run behind an idle display, where no button stops it
  (`HiddenListenerExplained` says that only another task's failure, handled while the
  listener runs, does that); a stopped listener may report itself as Connected
  (`LabelsTrue`: until the next report or start).
- An interrupted `resume` leaves the state file as it was (`SenderKilled`); the server may pair a device with itself, may tell one side of a pair
  Expired when the ttl fires between lookup and notification, and makes a late second peer
  a first one (`Lookup`, `Notify`).
- `should_retry` allows one retry fewer than its documentation says (`reconnect.rs:72`).

## 6. Not modelled, and the plan

- Identity, TLS and known peers: key files and third-party cryptography, without a
  protocol of their own.
- LAN discovery: beacons and a table of peers, of which a session takes the first address.
- `TransferState` (`state.rs`): a bitmap no transfer uses; the transfer path has
  `FolderTransferState`.
- Encodings (frames, STUN messages, zstd), progress and statistics for display, argument
  parsing, `rendezvousd`'s start-up, the desktop application's forms, settings and layout.
- Backoff delays (a retry comes at any time) and `retry_with_backoff`, which no transfer
  uses.

Next: what the liveness properties rest on and is itself safety (bounds on retries, on the
time a race and a handler may take), proved as the rest is; then discovery's table of
peers.
