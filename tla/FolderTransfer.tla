--------------------------- MODULE FolderTransfer ---------------------------
(***************************************************************************)
(* A sending and a receiving process joined by one connection at a time:   *)
(* the whole of a folder transfer with its retries and resumptions, under  *)
(* connection losses, kills and crashes of either process, source files    *)
(* that cannot be read, and a receiving user who declines.                 *)
(***************************************************************************)
EXTENDS Sender, Receiver

CONSTANTS
    MaxFaults,         \* bound of the model: how often each disturbance may happen
    MaxDisturbances    \* bound of the model: how many may happen in all

Disturbance == {"loss",      \* the connection is lost or cannot be made
                "kill",      \* the sending process is killed
                "crash",     \* the receiving process is killed
                "source",    \* a source file cannot be opened or read
                "reject",    \* the receiving user declines
                "rerun"}     \* the sending user runs `resume` or `send` again

ASSUME FaultsAssumption ==
    /\ MaxFaults \in [Disturbance -> Nat]
    /\ MaxDisturbances \in Nat

VARIABLE faults    \* disturbances still allowed

vars == <<transportVars, senderVars, receiverVars, faults>>

TypeOK ==
    /\ TransportTypeOK
    /\ SenderTypeOK
    /\ ReceiverTypeOK
    /\ faults \in [Disturbance -> Nat]

Init ==
    /\ TransportInit
    /\ SenderInit
    /\ ReceiverInit
    /\ faults = MaxFaults

\* The disturbances that have happened.
Spent == UNION {{d} \X (faults[d] + 1 .. MaxFaults[d]) : d \in Disturbance}

Spend(kind) ==
    /\ faults[kind] > 0
    /\ Cardinality(Spent) < MaxDisturbances
    /\ faults' = [faults EXCEPT ![kind] = @ - 1]

-----------------------------------------------------------------------------
SenderStep ==
    /\ \/ SendTransferInfo
       \/ RecvReady
       \/ LostBeforeReady
       \/ SendChunkStream
       \/ ChunkAcknowledged
       \/ SendFileChecksum
       \/ RecvFileChecksum
       \/ SendComplete
       \/ SenderIoError
       \/ SenderExit
    /\ UNCHANGED <<receiverVars, faults>>

ReceiverStep ==
    /\ \/ AcceptTransfer
       \/ BadManifest
       \/ RecvChunk
       \/ FinishFile
       \/ CheckFile
       \/ RecvComplete
       \/ ReceiverSeesLoss
    /\ UNCHANGED <<senderVars, faults>>

\* Both ends complete the QUIC and the application handshake.
Connect ==
    /\ SenderConnected
    /\ ReceiverConnected
    /\ Connected
    /\ UNCHANGED faults

\* Nobody accepts the connection attempt: it times out.
ConnectTimeout ==
    /\ rPhase # "listen"
    /\ ConnectFails \/ ReconnectFails
    /\ UNCHANGED <<receiverVars, faults>>

\* The attempt fails for the sender, or breaks off half way for both ends.
ConnectLost ==
    /\ Spend("loss")
    /\ rPhase = "listen"
    /\ ConnectFails \/ ReconnectFails
    /\ UNCHANGED receiverVars \/ HandshakeBroken

ConnectionLost ==
    /\ Spend("loss")
    /\ link = "up"
    /\ Dropped(Unacked)
    /\ UNCHANGED <<senderVars, receiverVars>>

Interrupt == Spend("kill") /\ SenderKilled /\ UNCHANGED receiverVars

Crash == Spend("crash") /\ ReceiverKilled /\ UNCHANGED senderVars

SourceFault == Spend("source") /\ SourceError /\ UNCHANGED receiverVars

Decline == Spend("reject") /\ RejectTransfer /\ UNCHANGED senderVars

Rerun ==
    /\ Spend("rerun")
    /\ StartResume \/ StartSend
    /\ UNCHANGED receiverVars

Restart == ReceiverRestart /\ UNCHANGED <<senderVars, faults>>

Next ==
    \/ SenderStep
    \/ ReceiverStep
    \/ Connect
    \/ ConnectTimeout
    \/ ConnectLost
    \/ ConnectionLost
    \/ Interrupt
    \/ Crash
    \/ SourceFault
    \/ Decline
    \/ Rerun
    \/ Restart

Spec == Init /\ [][Next]_vars

\* Each process keeps running its own code, and a connection attempt ends.
Fairness ==
    /\ WF_vars(SenderStep)
    /\ WF_vars(ReceiverStep)
    /\ WF_vars(Connect)
    /\ WF_vars(ConnectTimeout)

FairSpec == Spec /\ Fairness

-----------------------------------------------------------------------------
(* Correctness. *)

\* The receiver's copy of f is the sender's file.
Delivered(f) == final[f] = Source(f)

\* A file the sender counts as complete, in memory or in the state file it
\* will resume from, is in the receiver's output directory, byte for byte:
\* send() skips such files for ever and receive_folder never asks for them.
CompletedFilesDelivered ==
    /\ \A f \in state.completed_files : Delivered(f)
    /\ disk # NoState => \A f \in disk.completed_files : Delivered(f)

\* When send_path returns Ok, every file has been delivered.
DoneMeansDelivered == sPhase = "done" => \A f \in File : Delivered(f)

\* When the receiver records a transfer as completed, every file of the
\* manifest is in place, the ones it skipped on the sender's word included.
CompletedRecordIsHonest ==
    [][rRecord' = "completed" /\ rPhase = "complete" /\ rPhase' = "info"
        => \A f \in File : Delivered(f)]_vars

\* Chunk streams carry no file index: no file ever holds a chunk of another.
NoForeignPieces ==
    \A f \in File :
        /\ partial[f] # NoFile => partial[f] \subseteq Source(f)
        /\ final[f] # NoFile => final[f] \subseteq Source(f)

\* While both ends work on the same file over a live connection, the receiver
\* waits for exactly the streams that are in flight or still to be opened.
\* One more and it would wait for ever, one less and it would finalize early.
StreamCountsAgree ==
    (link = "up" /\ sPhase \in {"file", "stream"} /\ rPhase = "file" /\ rFile = CurFile)
    => StreamsToReceive - Cardinality(rSeen)
         = Cardinality(inbox) + Cardinality({k \in Pending : <<k, CurFile>> \notin Unacked})

\* The whole transfer keeps FileDelivery's promise: a step of either process
\* stores an unconfirmed file, confirms a good one, ends or restarts the
\* sender, or changes nothing of this.
GoodFiles == {f \in File : Delivered(f)}

Outcome == IF SRunning THEN "running" ELSE sPhase

Delivery == INSTANCE FileDelivery
                WITH Files <- File, good <- GoodFiles,
                     confirmed <- state.completed_files, outcome <- Outcome

ImplementsDelivery == Delivery!Spec

\* Every send_path call returns (the retry loop of session.rs: each round ends
\* and uses up an attempt), as long as its sources can be read.
SourcesReadable == faults["source"] = MaxFaults["source"]

ReturnsIfReadable == []SourcesReadable => <>[](sPhase \in {"done", "failed"})

\* A transfer nothing disturbs succeeds.
UndisturbedTransferSucceeds == <>(sPhase = "done" \/ faults # MaxFaults)

\* The receiver never stays in the middle of a transfer: whatever happens to the
\* sender reaches it wherever receive_folder waits, and it goes back to waiting
\* for a peer or a manifest, or ends. (That it ends is not always right: see
\* DisconnectsRecovered.)
ReceiverNotStuck == []SourcesReadable => []<>(rPhase \in {"listen", "info", "dead"})

-----------------------------------------------------------------------------
(* Why it holds: the two ends move through the files in lockstep.  The     *)
(* sender works on CurFile; the receiver on rFile.  These are the parts of *)
(* the inductive invariant of FolderTransferProofs.                        *)

\* Files are completed in order, and the state file never runs ahead.
Closed(S) == \A f \in S : \A g \in File : g < f => g \in S

CompletedInOrder ==
    /\ Closed(state.completed_files)
    /\ disk # NoState => /\ disk.completed_files \subseteq state.completed_files
                         /\ Closed(disk.completed_files)
    /\ sPhase = "done" => CurFile = NumFiles

\* A process that is not talking to the other has no connection.
ConnectionsMatch ==
    /\ rPhase \in {"listen", "dead"} => link = "down"
    /\ sPhase \in {"connect", "failed"} => link = "down"

\* The receiver never works on a file the sender counts as complete.
ReceiverNotBehind ==
    /\ rPhase = "file" => rFile \in File /\ CurFile <= rFile
    /\ rPhase = "sum" => rFile \in File /\ CurFile <= rFile + 1
    /\ rPhase \in {"file", "sum"} => \A f \in rInfo.completed_files : f < rFile

\* The sender has got Ready, or will read it next: the receiver answered its
\* current manifest.
Answered ==
    \/ sPhase \in {"file", "stream", "sum"}
    \/ sPhase = "ready" /\ toS # <<>> /\ toS[1] = Ready

\* Index in toS of the answer for CurFile.
Base == IF sPhase = "ready" THEN 2 ELSE 1

\* The answers the sender is about to read are the receiver's checksums of
\* CurFile and the files after it, in order, and they still are the checksums
\* of what lies in the output directory.
AnswersTruthful ==
    Answered =>
        \A i \in Base .. Len(toS) :
            \/ link = "down" /\ toS[i] = Torn
            \/ /\ CurFile + (i - Base) \in File
               /\ toS[i] = FileChecksum(CurFile + (i - Base), final[CurFile + (i - Base)])
               /\ rPhase = "file" => CurFile + (i - Base) < rFile
               /\ rPhase = "sum" => CurFile + (i - Base) <= rFile

\* Files for which each end has sent its checksum, and for which the receiver
\* has read the sender's.
SenderSent   == IF sPhase = "sum" THEN CurFile + 1 ELSE CurFile
ReceiverSent == CASE rPhase = "file" -> rFile
                  [] rPhase = "sum"  -> rFile + 1
                  [] OTHER           -> NumFiles
ReceiverRead == IF rPhase \in {"file", "sum"} THEN rFile ELSE NumFiles

\* While the connection lives, nothing was lost: what one end has sent and the
\* other has not read is in the control streams.
NothingLost ==
    link = "up" /\ Answered =>
        /\ rPhase \in {"file", "sum", "complete"}
        /\ ReceiverSent = CurFile + (Len(toS) - (Base - 1))
        /\ ReceiverRead + Len(toR) = SenderSent
        /\ \A i \in 1 .. Len(toR) : toR[i].type = "FileChecksum"

\* A receiver waiting for a manifest waits for the current one.
ManifestCurrent ==
    link = "up" /\ rPhase = "info" =>
        \/ sPhase \in {"send", "backoff"} /\ toR = <<>> /\ toS = <<>>
        \/ sPhase = "ready" /\ toR = <<Manifest>> /\ toS = <<>>
        \/ sPhase = "ready" /\ toR = <<>> /\ toS = <<Cancel>>
        \/ sPhase = "done"

\* After a source error the sender starts over on a connection on which the
\* receiver is still busy with CurFile or an earlier file; the new manifest
\* waits behind the checksums and is never accepted.
StartedOver ==
    link = "up" /\ sPhase \in {"backoff", "send", "ready"} /\ ~ Answered
                /\ rPhase # "info" =>
        /\ rPhase \in {"file", "sum"}
        /\ CurFile \in File
        /\ \A i \in 1 .. Len(toS) : toS[i].type = "FileChecksum"
        /\ IF sPhase = "ready"
           THEN /\ Len(toR) > 0
                /\ toR[Len(toR)].type = "TransferInfo"
                /\ rFile + (Len(toR) - 1) = CurFile
           ELSE rFile + Len(toR) = CurFile

\* No manifest follows Complete.
DoneIsLast ==
    link = "up" /\ sPhase = "done" =>
        \A i \in 1 .. Len(toR) : toR[i].type # "TransferInfo"

\* The checksums the receiver is about to read are those of the sources, and
\* every file it is through with, by verification or on the sender's word, is
\* in place.
ReceiverVerified ==
    /\ \A i \in 1 .. Len(toR) :
          toR[i].type = "FileChecksum" => toR[i].checksum = Source(toR[i].file_index)
    /\ rPhase \in {"file", "sum"} => \A f \in File : f < rFile => Delivered(f)
    /\ rPhase = "complete" => \A f \in File : Delivered(f)

Lockstep ==
    /\ CompletedInOrder
    /\ ConnectionsMatch
    /\ ReceiverNotBehind
    /\ AnswersTruthful
    /\ NothingLost
    /\ ManifestCurrent
    /\ StartedOver
    /\ DoneIsLast
    /\ ReceiverVerified

-----------------------------------------------------------------------------
(* What the repository says of the program and the code does not do: each  *)
(* of these is violated, see the findings in README.md.                    *)

\* "Reconnects pick up where they left off": with unchanged sources and no
\* crash, a retry or a resume never ends in a checksum mismatch.
ResumeNeverMismatches == sError # "verification"

\* The send loops on a recoverable error and re-runs: every send_path call
\* returns, also when a source file cannot be read.
SendPathTerminates == <>[](sPhase \in {"done", "failed"})

\* "recover from peer disconnects": a receive loop that has a peer is ended by
\* its user only; with unchanged sources it goes back to waiting when the
\* connection is lost, whatever it was doing.
DisconnectsRecovered ==
    [][rPhase # "listen" /\ rPhase' = "dead" => faults'["crash"] # faults["crash"]]_vars
=============================================================================
