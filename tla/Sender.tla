------------------------------- MODULE Sender -------------------------------
(***************************************************************************)
(* The sending process: P2PSession::send_path and, inside its retry loop,  *)
(* FolderTransferSession::send, send_single_file and                       *)
(* FileTransferSession::send_file, with the resume state in memory and in  *)
(* transfer_<id>.json.                                                     *)
(*                                                                         *)
(* send() always works on the first file that is not in completed_files,   *)
(* and send_file on the first chunk index that is not marked complete, so  *)
(* neither loop counter is a variable.                                     *)
(***************************************************************************)
EXTENDS Transport

CONSTANTS
    MaxAttempts,   \* ReconnectConfig::max_attempts; 0 = retry for ever
    NoState        \* "there is no state file"

ASSUME SenderAssumption == MaxAttempts \in Nat

VARIABLES
    sPhase,    \* where the sender's control is
    sError,    \* the error send_path returned
    state,     \* FolderTransferState in memory
    disk,      \* FolderTransferState in the state file, or NoState
    attempt    \* retry counter of send_path

senderVars == <<sPhase, sError, state, disk, attempt>>

TransferState ==
    [completed_files : SUBSET File,
     file_chunks : {c \in [File -> SUBSET Nat] : \A f \in File : c[f] \subseteq Chunk(f)}]

SPhases == {"connect", "send", "ready", "file", "stream", "sum", "backoff",
            "done", "failed"}
SErrors == {"none", "connect", "cancelled", "protocol", "verification",
            "exhausted", "interrupted"}

SRunning == sPhase \notin {"done", "failed"}

FreshState == [completed_files |-> {}, file_chunks |-> [f \in File |-> {}]]

SenderInit ==
    /\ sPhase = "connect"
    /\ sError = "none"
    /\ state = FreshState
    /\ disk = NoState
    /\ attempt = 0

-----------------------------------------------------------------------------
(* The resume state. *)

\* Smallest element of a set of naturals, or otherwise when it is empty.
FirstOr(S, otherwise) ==
    IF S = {} THEN otherwise ELSE CHOOSE i \in S : \A j \in S : i <= j

next_file(s) == FirstOr(File \ s.completed_files, NumFiles)

CurFile == next_file(state)

\* Chunks of the current file send_file still has to send.
Pending == Chunk(CurFile) \ state.file_chunks[CurFile]

CurChunk == FirstOr(Pending, 0)

\* The stream whose acknowledgement the sender is waiting for.
Unacked == IF sPhase = "stream" THEN {<<CurChunk, CurFile>>} ELSE {}

\* Mutant of Manifest: a file all of whose chunks were acknowledged is listed
\* as complete before its checksum has been compared.
ManifestUnverified ==
    LET done == {f \in File : state.file_chunks[f] = Chunk(f) /\ ChunkCount[f] > 0}
    IN  TransferInfo(state.completed_files \cup done, NumFiles, 0)

\* The manifest announces how many chunks of the first incomplete file the
\* receiver should already have; resume_from is None when there is none.
Manifest ==
    LET f == CurFile
        resuming == f \in File /\ state.file_chunks[f] # {}
    IN  TransferInfo(state.completed_files,
                     IF resuming THEN f ELSE NumFiles,
                     IF resuming THEN Cardinality(state.file_chunks[f]) ELSE 0)

\* In the type invariant: which file and chunks each phase works on.
SenderTypeOK ==
    /\ sPhase \in SPhases
    /\ sError \in SErrors
    /\ state \in TransferState
    /\ disk \in TransferState \cup {NoState}
    /\ attempt \in Nat
    /\ sPhase = "stream" => CurFile \in File /\ Pending # {}
    /\ sPhase = "sum" => CurFile \in File /\ Pending = {}

mark_chunk_complete(f, k) ==
    state' = [state EXCEPT !.file_chunks[f] = @ \cup {k}]

mark_file_complete(f) ==
    state' = [state EXCEPT !.completed_files = @ \cup {f}]

\* ReconnectConfig::should_retry
should_retry(a) == MaxAttempts = 0 \/ a + 1 < MaxAttempts

\* With unlimited retries the counter never matters and is not kept.
NextAttempt == IF MaxAttempts = 0 THEN attempt ELSE attempt + 1

-----------------------------------------------------------------------------
(* How send_path leaves one round of send(). *)

\* save_to_file overwrites the state file in place, and send_path goes on when
\* that fails: the old file is still there, or one cut short that resume cannot
\* load, as a kill in the middle of the write leaves it.
save_to_file == disk' \in {state, disk, NoState}

\* send_path returns an error: the state file is written and the command ends.
GiveUp(error) ==
    /\ sPhase' = "failed"
    /\ sError' = error
    /\ save_to_file
    /\ SenderGone({})
    /\ UNCHANGED <<state, attempt>>

\* A recoverable error: save the state and back off, unless out of attempts.
Recoverable ==
    \/ /\ should_retry(attempt)
       /\ sPhase' = "backoff"
       /\ save_to_file
       /\ UNCHANGED <<sError, state, attempt, transportVars>>
    \/ /\ ~ should_retry(attempt)
       /\ GiveUp("exhausted")

-----------------------------------------------------------------------------
(* send() *)

SendTransferInfo ==
    /\ sPhase = "send"
    /\ link = "up"
    /\ toR' = Append(toR, Manifest)
    /\ sPhase' = "ready"
    /\ UNCHANGED <<sError, state, disk, attempt, link, toS, inbox>>

RecvReady ==
    /\ sPhase = "ready"
    /\ toS # <<>>
    /\ \/ /\ Head(toS) = Ready
          /\ toS' = Tail(toS)
          /\ sPhase' = "file"
          /\ UNCHANGED <<sError, state, disk, attempt, link, toR, inbox>>
       \/ /\ Head(toS) = Cancel
          /\ GiveUp("cancelled")
       \/ /\ Head(toS) \notin {Ready, Cancel}
          /\ GiveUp("protocol")

\* Losing the connection before Ready is taken for a rejection.
LostBeforeReady ==
    /\ sPhase = "ready"
    /\ link = "down"
    /\ toS = <<>>
    /\ GiveUp("cancelled")

\* send_chunk_stream: the stream is written and finished; the sender waits in
\* stopped() for QUIC to acknowledge it.
SendChunkStream ==
    /\ sPhase = "file"
    /\ link = "up"
    /\ CurFile \in File
    /\ Pending # {}
    /\ inbox' = inbox \cup {<<CurChunk, CurFile>>}
    /\ sPhase' = "stream"
    /\ UNCHANGED <<sError, state, disk, attempt, link, toR, toS>>

\* stopped() returns: the peer's QUIC stack has the whole stream, and the
\* chunk is marked complete.
ChunkAcknowledged ==
    /\ sPhase = "stream"
    /\ link = "up"
    /\ mark_chunk_complete(CurFile, CurChunk)
    /\ sPhase' = "file"
    /\ UNCHANGED <<sError, disk, attempt, transportVars>>

\* Mutant of SendFileChecksum: the sender does not wait for the receiver's
\* checksum before it starts on the next file.
SendFileChecksumPipelined ==
    /\ sPhase = "file"
    /\ link = "up"
    /\ CurFile \in File
    /\ Pending = {}
    /\ toR' = Append(toR, FileChecksum(CurFile, Source(CurFile)))
    /\ mark_file_complete(CurFile)
    /\ UNCHANGED <<sPhase, sError, disk, attempt, link, toS, inbox>>

SendFileChecksum ==
    /\ sPhase = "file"
    /\ link = "up"
    /\ CurFile \in File
    /\ Pending = {}
    /\ toR' = Append(toR, FileChecksum(CurFile, Source(CurFile)))
    /\ sPhase' = "sum"
    /\ UNCHANGED <<sError, state, disk, attempt, link, toS, inbox>>

\* Mutant of RecvFileChecksum: the checksum is read and not compared.
RecvFileChecksumUnchecked ==
    /\ sPhase = "sum"
    /\ toS # <<>>
    /\ Head(toS).type = "FileChecksum"
    /\ toS' = Tail(toS)
    /\ mark_file_complete(CurFile)
    /\ sPhase' = "file"
    /\ UNCHANGED <<sError, disk, attempt, link, toR, inbox>>

\* The receiver's checksum decides whether the file is complete.
RecvFileChecksum ==
    /\ sPhase = "sum"
    /\ toS # <<>>
    /\ LET m == Head(toS)
       IN  \/ /\ m.type = "FileChecksum"
              /\ m.checksum = Source(CurFile)
              /\ toS' = Tail(toS)
              /\ mark_file_complete(CurFile)
              /\ sPhase' = "file"
              /\ UNCHANGED <<sError, disk, attempt, link, toR, inbox>>
           \/ /\ m.type = "FileChecksum"
              /\ m.checksum # Source(CurFile)
              /\ GiveUp("verification")
           \/ /\ m.type # "FileChecksum"
              /\ GiveUp("protocol")

\* Mutant of SendComplete: the file loop stops one file early.
SendCompleteEarly ==
    /\ sPhase = "file"
    /\ link = "up"
    /\ CurFile + 1 >= NumFiles
    /\ toR' = Append(toR, Complete)
    /\ sPhase' = "done"
    /\ disk' = NoState
    /\ UNCHANGED <<sError, state, attempt, link, toS, inbox>>

\* All files are complete: send Complete, delete the state file, return Ok.
SendComplete ==
    /\ sPhase = "file"
    /\ link = "up"
    /\ CurFile = NumFiles
    /\ toR' = Append(toR, Complete)
    /\ sPhase' = "done"
    /\ disk' = NoState
    /\ UNCHANGED <<sError, state, attempt, link, toS, inbox>>

\* Mutant of SenderIoError: the wait for the peer's checksum does not notice
\* that the connection is gone.
SenderIoErrorMissed ==
    /\ link = "down"
    /\ sPhase \in {"send", "file", "stream"}
    /\ Recoverable

\* Writing a message or a stream, awaiting an acknowledgement or reading the
\* peer's checksum fails because the connection is gone.
SenderIoError ==
    /\ link = "down"
    /\ \/ sPhase \in {"send", "file", "stream"}
       \/ sPhase = "sum" /\ toS = <<>>
    /\ Recoverable

\* Scanning the source folder (only done while the state is empty), or opening
\* or reading a source file, fails.  The error is Error::Network, so it is
\* handled like a lost connection although the connection is alive.
SourceError ==
    /\ \/ sPhase = "send" /\ state = FreshState
       \/ sPhase = "file" /\ CurFile \in File
    /\ Recoverable

-----------------------------------------------------------------------------
(* The process around send_path. *)

\* After success the command returns and the connection is dropped.
SenderExit ==
    /\ sPhase = "done"
    /\ link = "up"
    /\ SenderGone({})
    /\ UNCHANGED senderVars

\* Ctrl+C or a crash: nothing is saved.
SenderKilled ==
    /\ SRunning
    /\ sPhase' = "failed"
    /\ sError' = "interrupted"
    /\ SenderGone(Unacked)
    /\ UNCHANGED <<state, disk, attempt>>

\* Mutant of StartResume: the new process keeps a file the old one had only
\* just started on as complete.
StartResumeAhead ==
    /\ sPhase = "failed"
    /\ disk # NoState
    /\ sPhase' = "connect"
    /\ sError' = "none"
    /\ state' = [disk EXCEPT !.completed_files =
                     @ \cup {f \in File : disk.file_chunks[f] # {}}]
    /\ attempt' = 0
    /\ UNCHANGED <<disk, transportVars>>

\* The user runs `resume`: a new process loads the state file.
StartResume ==
    /\ sPhase = "failed"
    /\ disk # NoState
    /\ sPhase' = "connect"
    /\ sError' = "none"
    /\ state' = disk
    /\ attempt' = 0
    /\ UNCHANGED <<disk, transportVars>>

\* The user runs `send` again: a new transfer with a new state file.
StartSend ==
    /\ sPhase = "failed"
    /\ sPhase' = "connect"
    /\ sError' = "none"
    /\ state' = FreshState
    /\ disk' = NoState
    /\ attempt' = 0
    /\ UNCHANGED transportVars

\* The first connection of a process fails: the command ends.
ConnectFails ==
    /\ sPhase = "connect"
    /\ sPhase' = "failed"
    /\ sError' = "connect"
    /\ UNCHANGED <<state, disk, attempt, transportVars>>

\* reconnect() fails: send_path only warns and runs send() on the old
\* connection again.
ReconnectFails ==
    /\ sPhase = "backoff"
    /\ sPhase' = "send"
    /\ attempt' = NextAttempt
    /\ UNCHANGED <<sError, state, disk, transportVars>>

\* connect() or reconnect() succeeds (the sender's half).
SenderConnected ==
    \/ /\ sPhase = "connect"
       /\ sPhase' = "send"
       /\ UNCHANGED <<sError, state, disk, attempt>>
    \/ /\ sPhase = "backoff"
       /\ sPhase' = "send"
       /\ attempt' = NextAttempt
       /\ UNCHANGED <<sError, state, disk>>
=============================================================================
