------------------------------ MODULE Transport ------------------------------
(***************************************************************************)
(* What the two ends of a transfer share: the files being transferred, the *)
(* control-plane messages, and one QUIC connection with its control stream *)
(* (a FIFO in each direction) and its unidirectional chunk streams.        *)
(*                                                                         *)
(* File contents are abstracted to sets of pieces.  The piece <<k, f>>     *)
(* stands for the bytes of chunk k of file f lying at chunk offset k, so a *)
(* chunk that lands in the wrong file, or never lands, is visible.  SHA-256*)
(* is collision free: the checksum of a content is the content itself.     *)
(***************************************************************************)
EXTENDS Naturals, Sequences, FiniteSets

CONSTANTS
    NumFiles,      \* number of files in the manifest (TransferInfo.items)
    ChunkCount,    \* ChunkCount[f] = chunk_count(size of file f, chunk_size)
    NoFile         \* "there is no such file on disk"

File     == 0 .. (NumFiles - 1)
Chunk(f) == 0 .. (ChunkCount[f] - 1)
Piece    == UNION {{<<k, f>> : k \in Chunk(f)} : f \in File}

\* The content of file f at the sender.  The sources do not change while a
\* transfer and its resumptions run.
Source(f) == {<<k, f>> : k \in Chunk(f)}

\* send() refuses an empty folder, receive_folder an empty manifest.
ASSUME TransportAssumption ==
    /\ NumFiles \in Nat \ {0}
    /\ ChunkCount \in [File -> Nat]
    /\ \A content \in SUBSET Piece : NoFile # content

-----------------------------------------------------------------------------
(* Control messages.  Torn is the head of a frame whose rest was lost with *)
(* the connection: read_message reports it as Error::Protocol.             *)

TransferInfo(completed, resumeFile, resumeLen) ==
    [type |-> "TransferInfo", completed_files |-> completed,
     file_index |-> resumeFile, completed_chunks |-> resumeLen]
FileChecksum(f, sum) ==
    [type |-> "FileChecksum", file_index |-> f, checksum |-> sum]
Ready    == [type |-> "Ready"]
Cancel   == [type |-> "Cancel"]
Complete == [type |-> "Complete"]
Torn     == [type |-> "Torn"]

\* file_index = NumFiles in a TransferInfo stands for resume_from = None.
Message ==
    [type : {"TransferInfo"}, completed_files : SUBSET File,
     file_index : 0 .. NumFiles, completed_chunks : Nat]
    \cup [type : {"FileChecksum"}, file_index : File, checksum : SUBSET Piece]
    \cup [type : {"Ready", "Cancel", "Complete", "Torn"}]

-----------------------------------------------------------------------------
VARIABLES
    link,    \* "up" while the connection is alive, "down" once it is lost
    toR,     \* control stream, sender to receiver
    toS,     \* control stream, receiver to sender
    inbox    \* chunk streams opened by the sender, not yet accept_uni()ed

transportVars == <<link, toR, toS, inbox>>

TransportTypeOK ==
    /\ link \in {"up", "down"}
    /\ toR \in Seq(Message)
    /\ toS \in Seq(Message)
    /\ inbox \subseteq Piece

TransportInit ==
    /\ link = "down"
    /\ toR = <<>>
    /\ toS = <<>>
    /\ inbox = {}

\* What is left of a control stream when the connection is lost: the frames
\* that had arrived stay readable, possibly followed by a truncated one.
Arrived(q) ==
    {SubSeq(q, 1, n) : n \in 0 .. Len(q)}
    \cup {Append(SubSeq(q, 1, n), Torn) : n \in 0 .. (Len(q) - 1)}

\* A fresh connection after a completed handshake: nothing is in flight.
Connected ==
    /\ link' = "up"
    /\ toR' = <<>>
    /\ toS' = <<>>
    /\ inbox' = {}

\* The connection is lost.  A chunk stream that was not acknowledged yet may
\* or may not have arrived; acknowledged ones stay readable.
Dropped(unacked) ==
    /\ link' = "down"
    /\ toR' \in Arrived(toR)
    /\ toS' \in Arrived(toS)
    /\ inbox' \in {inbox, inbox \ unacked}

\* One end's process is gone, and its half of the connection with it; the
\* other end may still read what had arrived.
SenderGone(unacked) ==
    /\ link' = "down"
    /\ toR' \in IF link = "up" THEN Arrived(toR) ELSE {toR}
    /\ toS' = <<>>
    /\ inbox' \in IF link = "up" THEN {inbox, inbox \ unacked} ELSE {inbox}

ReceiverGone ==
    /\ link' = "down"
    /\ toR' = <<>>
    /\ toS' \in IF link = "up" THEN Arrived(toS) ELSE {toS}
    /\ inbox' = {}
=============================================================================
