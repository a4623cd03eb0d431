----------------------------- MODULE PartialFile -----------------------------
(***************************************************************************)
(* One file at the level of bytes: the layout of chunks that ChunkReader   *)
(* and ChunkWriter compute from the session's chunk_size, the .partial     *)
(* file that survives sessions and transfers, and the config that the      *)
(* handshake of each session settles on.                                   *)
(*                                                                         *)
(* FolderTransfer treats a chunk as an indivisible piece; here it is a     *)
(* range of bytes, and a byte is abstracted to where it comes from.        *)
(***************************************************************************)
EXTENDS Integers, Sequences, FiniteSets

CONSTANTS
    MaxSize,            \* bound of the model: size of the source file
    ChunkSizes,         \* values of --chunk-size
    DefaultChunkSize,   \* ConfigMessage::default().chunk_size
    Rendezvous,         \* are sessions established with a rendezvous code?
    None,               \* Option::None
    MaxTransfers        \* bound of the model: times `send` is run

ASSUME PartialFileAssumption ==
    /\ MaxSize \in Nat /\ MaxTransfers \in Nat
    /\ ChunkSizes \subseteq Nat \ {0}
    /\ DefaultChunkSize \in ChunkSizes
    /\ Rendezvous \in BOOLEAN
    /\ None \notin Nat /\ None \notin Seq(Nat \X Nat)
    /\ None \notin [chunk_size : ChunkSizes, chunks : SUBSET Nat]

VARIABLES
    version,      \* how often the source has been sent; its bytes differ each time
    size,         \* bytes in the source file
    state,        \* resume state: the config it was made with, the chunks it claims
    chunk_size,   \* negotiated for the session; None between sessions
    unacked,      \* chunk whose stream the sender waits to see acknowledged
    inflight,     \* chunks the receiver has not read yet
    left,         \* streams receive_file still waits for
    partial,      \* content of <path>.partial
    final,        \* content of <path>
    written,      \* history: chunks written to .partial in this transfer
    clean         \* history: did this transfer start without a .partial?

sessionVars == <<chunk_size, unacked, inflight, left>>
vars == <<version, size, state, chunk_size, unacked, inflight, left, partial,
          final, written, clean>>

-----------------------------------------------------------------------------
(* Layout. *)

chunk_count(file_size, cs) == (file_size + cs - 1) \div cs

Chunks(file_size, cs) == 0 .. chunk_count(file_size, cs) - 1

Byte(v, i) == <<v, i>>
Zero == <<0, 0>>         \* what a write past the end leaves in between

Source == [i \in 1 .. size |-> Byte(version, i)]

Least(i, j) == IF i <= j THEN i ELSE j
Greatest(i, j) == IF i >= j THEN i ELSE j

\* Mutant of read_chunk: the last chunk is read like every other.
read_chunkFull(c, cs) == [i \in 1 .. cs |-> Byte(version, c * cs + i)]

read_chunk(c, cs) == SubSeq(Source, c * cs + 1, Least((c + 1) * cs, size))

\* seek and write_all: the gap behind the old end, if any, reads as zeros.
WrittenAt(content, offset, data) ==
    [i \in 1 .. Greatest(Len(content), offset + Len(data)) |->
        IF i \in offset + 1 .. offset + Len(data) THEN data[i - offset]
        ELSE IF i <= Len(content) THEN content[i]
        ELSE Zero]

\* Mutant of Opened: whatever was left is kept.
OpenedAsIs(content, expected_file_size) ==
    IF content = None THEN <<>> ELSE content

\* Mutant of Opened: off by one.
OpenedShort(content, expected_file_size) ==
    IF content = None THEN <<>>
    ELSE SubSeq(content, 1, Least(Len(content), expected_file_size - 1))

\* ChunkWriter::new: created, or kept up to the expected size.
Opened(content, expected_file_size) ==
    IF content = None THEN <<>>
    ELSE SubSeq(content, 1, Least(Len(content), expected_file_size))

TypeOK ==
    /\ version \in 0 .. MaxTransfers
    /\ size \in 0 .. MaxSize
    /\ state = None \/ /\ state.chunk_size \in ChunkSizes
                       /\ state.chunks \subseteq Chunks(size, state.chunk_size)
    /\ chunk_size \in ChunkSizes \cup {None}
    /\ chunk_size # None => /\ state # None
                            /\ inflight \cup written \subseteq Chunks(size, chunk_size)
                            /\ unacked \in Chunks(size, chunk_size) \cup {None}
                            /\ left \in 0 .. chunk_count(size, chunk_size)
                            /\ partial = None => left = 0
    /\ clean \in BOOLEAN

Init ==
    /\ version = 0 /\ size = 0
    /\ state = None
    /\ chunk_size = None /\ unacked = None /\ inflight = {} /\ left = 0
    /\ partial = None /\ final = None
    /\ written = {} /\ clean = TRUE

-----------------------------------------------------------------------------
(* Sessions. *)

\* The config of a session is the initiator's.  A direct session is initiated
\* by the sender; through a rendezvous the smaller device id initiates, and
\* both ids are random: the receiver, which has the default config, is as
\* likely as the sender.
Negotiated(cs) == IF Rendezvous THEN {cs, DefaultChunkSize} ELSE {cs}

\* total_chunks.saturating_sub(already_sent)
StreamsToReceive(claimed, cs) ==
    Greatest(chunk_count(size', cs) - Cardinality(claimed), 0)

\* send() and receive_folder have come to the file: the receiver opens .partial.
SessionWith(claimed, cs) ==
    /\ chunk_size' = cs
    /\ unacked' = None
    /\ inflight' = {}
    /\ left' = StreamsToReceive(claimed, cs)
    /\ partial' = Opened(partial, chunk_count(size', cs) * cs)

\* `send` of a file that may have changed since; the state starts empty.
StartSend(n, cs) ==
    /\ chunk_size = None
    /\ version < MaxTransfers
    /\ version' = version + 1
    /\ size' = n
    /\ \E agreed \in Negotiated(cs) :
          /\ state' = [chunk_size |-> agreed, chunks |-> {}]
          /\ SessionWith({}, agreed)
    /\ written' = {}
    /\ clean' = (partial = None)
    /\ UNCHANGED final

\* Mutant of Resume: the session is established with the default config.
ResumeWithDefault ==
    /\ chunk_size = None
    /\ state # None
    /\ UNCHANGED <<version, size, state, final, written, clean>>
    /\ SessionWith(state.chunks, DefaultChunkSize)

\* `resume`, or send_path's reconnect: the state's config is offered.
Resume ==
    /\ chunk_size = None
    /\ state # None
    /\ UNCHANGED <<version, size, state, final, written, clean>>
    /\ \E agreed \in Negotiated(state.chunk_size) : SessionWith(state.chunks, agreed)

\* send_file: the next chunk the state does not claim, one at a time.
SendChunk ==
    /\ chunk_size # None
    /\ unacked = None
    /\ \E c \in Chunks(size, chunk_size) \ state.chunks :
          /\ \A d \in Chunks(size, chunk_size) \ state.chunks : c <= d
          /\ unacked' = c
          /\ inflight' = inflight \cup {c}
    /\ UNCHANGED <<version, size, state, chunk_size, left, partial, final, written, clean>>

\* The receiver's QUIC stack has the stream: the chunk is marked complete.
ChunkAcknowledged ==
    /\ chunk_size # None
    /\ unacked # None
    /\ state' = [state EXCEPT !.chunks = @ \cup {unacked}]
    /\ unacked' = None
    /\ UNCHANGED <<version, size, chunk_size, inflight, left, partial, final, written, clean>>

\* receive_file reads a stream and writes its chunk at its offset.
RecvChunk(c) ==
    /\ chunk_size # None
    /\ left > 0
    /\ c \in inflight
    /\ inflight' = inflight \ {c}
    /\ left' = left - 1
    /\ partial' = WrittenAt(partial, c * chunk_size, read_chunk(c, chunk_size))
    /\ written' = written \cup {c}
    /\ UNCHANGED <<version, size, state, chunk_size, unacked, final, clean>>

\* finalize: .partial takes the file's name.
Finalize ==
    /\ chunk_size # None
    /\ left = 0
    /\ partial # None
    /\ final' = partial
    /\ partial' = None
    /\ written' = {}
    /\ UNCHANGED <<version, size, state, sessionVars, clean>>

\* The sender, through with its chunks, and the receiver exchange checksums; the
\* state file is removed when they agree and kept when they do not.
Verdict ==
    /\ chunk_size # None
    /\ partial = None
    /\ Chunks(size, chunk_size) \subseteq state.chunks
    /\ state' = IF final = Source THEN None ELSE state
    /\ chunk_size' = None
    /\ UNCHANGED <<version, size, unacked, inflight, left, partial, final, written, clean>>

\* The connection is lost, or either process ends: streams the receiver has not
\* read are gone, .partial and the resume state stay.
Interrupt ==
    /\ chunk_size # None
    /\ chunk_size' = None
    /\ unacked' = None
    /\ inflight' = {}
    /\ UNCHANGED <<version, size, state, left, partial, final, written, clean>>

Next ==
    \/ \E n \in 0 .. MaxSize, cs \in ChunkSizes : StartSend(n, cs)
    \/ Resume
    \/ SendChunk
    \/ ChunkAcknowledged
    \/ \E c \in inflight : RecvChunk(c)
    \/ Finalize
    \/ Verdict
    \/ Interrupt

Spec == Init /\ [][Next]_vars

-----------------------------------------------------------------------------
(* Correctness. *)

\* The bytes of chunk c are in .partial, at their place.
OnDisk(c, cs) ==
    LET end == Least((c + 1) * cs, size)
    IN  Len(partial) >= end /\ SubSeq(partial, c * cs + 1, end) = read_chunk(c, cs)

\* A chunk once written stays written: neither a later chunk, in whatever order
\* they come, nor the truncation when a later session opens .partial again
\* touches its bytes.
WrittenChunksIntact == \A c \in written : OnDisk(c, state.chunk_size)

\* The state claims nothing that was not written (QUIC acknowledged every
\* stream only after, or shortly before, the receiver wrote it).
ClaimsTrue == state.chunks \subseteq written

\* As long as the claims are true, finalize delivers all of the source's bytes
\* at their places, and nothing behind the end of the last chunk: what an
\* earlier transfer left in .partial is overwritten or cut off up to there.
SourceDelivered ==
    [][Finalize /\ ClaimsTrue =>
          /\ Len(final') >= size
          /\ SubSeq(final', 1, size) = Source
          /\ Len(final') <= chunk_count(size, chunk_size) * chunk_size]_vars

\* A transfer that started without a .partial delivers exactly the source,
\* over any number of interruptions, as long as the claims are true.
ExactWithoutLeftover ==
    [][Finalize /\ ClaimsTrue /\ clean => final' = Source]_vars
=============================================================================
