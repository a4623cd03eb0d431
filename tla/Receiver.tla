------------------------------ MODULE Receiver ------------------------------
(***************************************************************************)
(* The receiving process: the CLI's receive loop around                    *)
(* FolderTransferSession::receive_folder, receive_single_file,             *)
(* FileTransferSession::receive_file and ChunkWriter, with the files it    *)
(* leaves on disk.                                                         *)
(***************************************************************************)
EXTENDS Transport

VARIABLES
    rPhase,     \* where the receiver's control is
    rInfo,      \* the TransferInfo being served
    rFile,      \* file_index of receive_folder's loop
    rSeen,      \* receive_file's set of chunk indices seen on this file
    partial,    \* content of <path>.partial, NoFile if there is none
    final,      \* content of <path>, NoFile if there is none
    rRecord     \* status of the last TransferRecord written to the history

receiverVars == <<rPhase, rInfo, rFile, rSeen, partial, final, rRecord>>

RPhases == {"listen", "info", "file", "sum", "complete", "dead"}

ReceiverTypeOK ==
    /\ rPhase \in RPhases
    /\ rInfo \in Message /\ rInfo.type = "TransferInfo"
    /\ rFile \in 0 .. NumFiles
    /\ rPhase \in {"file", "sum"} => rFile \in File
    /\ rSeen \in SUBSET Nat
    /\ partial \in [File -> (SUBSET Piece) \cup {NoFile}]
    /\ rPhase = "file" => partial[rFile] # NoFile
    /\ final \in [File -> (SUBSET Piece) \cup {NoFile}]
    /\ rRecord \in {"none", "completed", "interrupted", "failed"}

ReceiverInit ==
    /\ rPhase = "listen"
    /\ rInfo = TransferInfo({}, NumFiles, 0)
    /\ rFile = 0
    /\ rSeen = {}
    /\ partial = [f \in File |-> NoFile]
    /\ final = [f \in File |-> NoFile]
    /\ rRecord = "none"

-----------------------------------------------------------------------------
\* ChunkWriter::new opens f's .partial, or creates it empty.
Opened(f) ==
    partial' = [partial EXCEPT ![f] = IF @ = NoFile THEN {} ELSE @]

\* write_chunk: the bytes at chunk offset k are replaced.
write_chunk(content, k, bytes) == {p \in content : p[1] # k} \cup {<<k, bytes>>}

\* Mutants of StreamsToReceive: the resumed chunks are not subtracted; one
\* stream too many.
StreamsToReceiveAll == ChunkCount[rFile]
StreamsToReceivePlusOne ==
    LET have == IF rInfo.file_index = rFile THEN rInfo.completed_chunks ELSE 0
    IN  IF have >= ChunkCount[rFile] THEN 0 ELSE (ChunkCount[rFile] - have) + 1

\* Distinct streams receive_file waits for: the chunks the manifest does not
\* claim for the file being resumed (saturating subtraction).
StreamsToReceive ==
    LET have == IF rInfo.file_index = rFile THEN rInfo.completed_chunks ELSE 0
    IN  IF have >= ChunkCount[rFile] THEN 0 ELSE ChunkCount[rFile] - have

\* receive_folder's loop from index i on: the next file the manifest does not
\* list as complete, or the wait for Complete.
EnterFile(i, info) ==
    LET todo == {f \in File : f >= i /\ f \notin info.completed_files}
    IN  /\ rSeen' = {}
        /\ IF todo = {}
           THEN rPhase' = "complete" /\ rFile' = NumFiles /\ UNCHANGED partial
           ELSE /\ rPhase' = "file"
                /\ rFile' = CHOOSE f \in todo : \A g \in todo : f <= g
                /\ Opened(rFile')

\* receive_one returns Fatal: the process ends.
Fatal ==
    /\ rPhase' = "dead"
    /\ rRecord' = "failed"
    /\ ReceiverGone
    /\ UNCHANGED <<rInfo, rFile, rSeen>>

-----------------------------------------------------------------------------
(* receive_folder *)

\* An accepted manifest is answered with Ready.  If the connection is gone by
\* then, the failing write is Error::Network, which receive_one takes as fatal.
AcceptTransfer ==
    /\ rPhase = "info"
    /\ toR # <<>>
    /\ Head(toR).type = "TransferInfo"
    /\ \/ /\ link = "up"
          /\ toR' = Tail(toR)
          /\ toS' = Append(toS, Ready)
          /\ rInfo' = Head(toR)
          /\ EnterFile(0, Head(toR))
          /\ UNCHANGED <<link, inbox, final, rRecord>>
       \/ /\ link = "down"
          /\ Fatal
          /\ UNCHANGED <<partial, final>>

\* The user declines: Cancel, an "interrupted" record, and the next transfer.
RejectTransfer ==
    /\ rPhase = "info"
    /\ toR # <<>>
    /\ Head(toR).type = "TransferInfo"
    /\ \/ /\ link = "up"
          /\ toR' = Tail(toR)
          /\ toS' = Append(toS, Cancel)
          /\ rRecord' = "interrupted"
          /\ UNCHANGED <<rPhase, rInfo, rFile, rSeen, link, inbox>>
       \/ /\ link = "down"
          /\ Fatal
    /\ UNCHANGED <<partial, final>>

\* accept_uni: the header carries the chunk index only, so the bytes go to the
\* file being received, whichever file they came from. No stream is longer than
\* MAX_CHUNK_STREAM_BYTES, as long as chunk_size is not.
RecvChunk ==
    /\ rPhase = "file"
    /\ Cardinality(rSeen) < StreamsToReceive
    /\ \E p \in inbox :
         LET k == p[1]
         IN  \/ /\ k >= ChunkCount[rFile]
                /\ Fatal
                /\ UNCHANGED <<partial, final>>
             \/ /\ k < ChunkCount[rFile]
                /\ inbox' = inbox \ {p}
                /\ rSeen' = rSeen \cup {k}
                /\ partial' = [partial EXCEPT ![rFile] =
                        IF k \in rSeen THEN @ ELSE write_chunk(@, k, p[2])]
                /\ UNCHANGED <<rPhase, rInfo, rFile, final, rRecord, link, toR, toS>>

\* finalize: sync, rename .partial over the final path, hash the final file;
\* then the checksum is sent, which is fatal when the connection is gone.
FinishFile ==
    /\ rPhase = "file"
    /\ Cardinality(rSeen) >= StreamsToReceive
    /\ final' = [final EXCEPT ![rFile] = partial[rFile]]
    /\ partial' = [partial EXCEPT ![rFile] = NoFile]
    /\ \/ /\ link = "up"
          /\ toS' = Append(toS, FileChecksum(rFile, partial[rFile]))
          /\ rPhase' = "sum"
          /\ UNCHANGED <<rInfo, rFile, rSeen, rRecord, link, toR, inbox>>
       \/ /\ link = "down"
          /\ Fatal

\* The sender's checksum: the file is verified and the loop goes on, or the
\* process ends with a verification or protocol error.
CheckFile ==
    /\ rPhase = "sum"
    /\ toR # <<>>
    /\ LET m == Head(toR)
           verified == /\ m.type = "FileChecksum"
                       /\ m.file_index = rFile
                       /\ m.checksum = final[rFile]
       IN  \/ /\ verified
              /\ toR' = Tail(toR)
              /\ EnterFile(rFile + 1, rInfo)
              /\ UNCHANGED <<rInfo, rRecord, link, toS, inbox>>
           \/ /\ ~ verified
              /\ Fatal
              /\ UNCHANGED partial
    /\ UNCHANGED final

\* Any message is taken for Complete (others only warn); the history gets a
\* "completed" record and the loop waits for the next transfer.
RecvComplete ==
    /\ rPhase = "complete"
    /\ toR # <<>>
    /\ \/ /\ Head(toR) # Torn
          /\ toR' = Tail(toR)
          /\ rPhase' = "info"
          /\ rRecord' = "completed"
          /\ UNCHANGED <<rInfo, rFile, rSeen, link, toS, inbox>>
       \/ /\ Head(toR) = Torn
          /\ Fatal
    /\ UNCHANGED <<partial, final>>

\* Anything but a manifest where a manifest is expected ends the process.
BadManifest ==
    /\ rPhase = "info"
    /\ toR # <<>>
    /\ Head(toR).type # "TransferInfo"
    /\ Fatal
    /\ UNCHANGED <<partial, final>>

\* Mutant of ReceiverSeesLoss: the wait for a stream misses the loss.
ReceiverMissesLoss ==
    /\ link = "down"
    /\ rPhase \in {"info", "sum", "complete"} /\ toR = <<>>
    /\ rPhase' = "listen"
    /\ toR' = <<>>
    /\ UNCHANGED <<rInfo, rFile, rSeen, partial, final, rRecord, link, toS, inbox>>

\* A clean end of the control stream or of the stream queue: the loop goes
\* back to accepting connections (reaccept).
ReceiverSeesLoss ==
    /\ link = "down"
    /\ \/ rPhase \in {"info", "sum", "complete"} /\ toR = <<>>
       \/ rPhase = "file" /\ Cardinality(rSeen) < StreamsToReceive /\ inbox = {}
    /\ rPhase' = "listen"
    /\ toR' = <<>>
    /\ UNCHANGED <<rInfo, rFile, rSeen, partial, final, rRecord, link, toS, inbox>>

-----------------------------------------------------------------------------
(* The process around the receive loop. *)

\* A crash or Ctrl+C: what was written stays, what QUIC had buffered is gone.
ReceiverKilled ==
    /\ rPhase # "dead"
    /\ rPhase' = "dead"
    /\ ReceiverGone
    /\ UNCHANGED <<rInfo, rFile, rSeen, partial, final, rRecord>>

\* The user starts `receive` again on the same output directory.
ReceiverRestart ==
    /\ rPhase = "dead"
    /\ rPhase' = "listen"
    /\ UNCHANGED <<rInfo, rFile, rSeen, partial, final, rRecord, transportVars>>

\* accept() or reaccept() with a completed handshake (the receiver's half).
ReceiverConnected ==
    /\ rPhase = "listen"
    /\ rPhase' = "info"
    /\ UNCHANGED <<rInfo, rFile, rSeen, partial, final, rRecord>>

\* A handshake that breaks off makes reaccept() fail, which ends the process.
HandshakeBroken ==
    /\ rPhase = "listen"
    /\ rPhase' = "dead"
    /\ UNCHANGED <<rInfo, rFile, rSeen, partial, final, rRecord, transportVars>>
=============================================================================
