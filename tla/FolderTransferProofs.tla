------------------------ MODULE FolderTransferProofs ------------------------
(***************************************************************************)
(* Proofs about FolderTransfer, for any number of files, any chunk counts, *)
(* any retry limit and any number of disturbances, in three parts: types;  *)
(* the lockstep of sender and receiver, with what the user is told and the *)
(* refinement of FileDelivery; the chunk streams.                          *)
(***************************************************************************)
EXTENDS FolderTransfer, FiniteSetTheorems, WellFoundedInduction, TLAPS

-----------------------------------------------------------------------------
(* The operators the model is built from. *)

LEMMA FilesType ==
    /\ NumFiles \in Nat
    /\ NumFiles > 0
    /\ \A f \in File : ChunkCount[f] \in Nat
  BY TransportAssumption

\* FirstOr picks the least element of a non-empty set of naturals.
LEMMA FirstOrFacts ==
    ASSUME NEW S \in SUBSET Nat, NEW o, S # {}
    PROVE  /\ FirstOr(S, o) \in S
           /\ \A j \in S : FirstOr(S, o) <= j
  <1> DEFINE R == OpToRel(<, Nat)
  <1>1. PICK i \in S : \A j \in S : ~ (<<j, i>> \in R)
    BY NatLessThanWellFounded, WFMin
  <1>2. \A j \in S : ~ (j < i)
    <2> TAKE j \in S
    <2>1. <<j, i>> \in Nat \X Nat
      OBVIOUS
    <2>2. SUFFICES ASSUME j < i
                   PROVE  <<j, i>> \in OpToRel(<, Nat)
      BY <1>1
    <2>3. <<j, i>>[1] = j /\ <<j, i>>[2] = i
      OBVIOUS
    <2> QED
      BY <2>1, <2>2, <2>3, Zenon DEF OpToRel
  <1>3. \A j \in S : i <= j
    BY <1>2
  <1> QED
    BY <1>3 DEF FirstOr

\* next_file: every file below it is complete, it is not, and it is NumFiles
\* only when all files are complete.
LEMMA NextFileFacts ==
    ASSUME NEW s, s.completed_files \in SUBSET File
    PROVE  /\ next_file(s) \in 0 .. NumFiles
           /\ next_file(s) \in File => next_file(s) \notin s.completed_files
           /\ \A f \in File : f < next_file(s) => f \in s.completed_files
           /\ next_file(s) = NumFiles => s.completed_files = File
  <1> DEFINE T == File \ s.completed_files
  <1>1. CASE T = {}
    <2>1. next_file(s) = NumFiles
      BY <1>1 DEF next_file, FirstOr
    <2>2. s.completed_files = File
      BY <1>1
    <2> QED
      BY <2>1, <2>2, FilesType DEF File
  <1>2. CASE T # {}
    <2>1. T \in SUBSET Nat
      BY FilesType DEF File
    <2>2. /\ next_file(s) \in T
          /\ \A j \in T : next_file(s) <= j
      BY <1>2, <2>1, FirstOrFacts DEF next_file
    <2> QED
      BY <2>2, FilesType DEF File
  <1> QED
    BY <1>1, <1>2

\* When files are completed in order, the complete ones are those below
\* next_file.
LEMMA ClosedFacts ==
    ASSUME NEW s, s.completed_files \in SUBSET File, Closed(s.completed_files)
    PROVE  \A f \in File : f \in s.completed_files <=> f < next_file(s)
  <1>1. ASSUME NEW f \in s.completed_files, ~ (f < next_file(s))
        PROVE  FALSE
    <2>1. next_file(s) \in File /\ next_file(s) \notin s.completed_files
      BY <1>1, NextFileFacts, FilesType DEF File
    <2>2. next_file(s) # f /\ next_file(s) < f
      BY <1>1, <2>1, NextFileFacts, FilesType DEF File
    <2> QED
      BY <1>1, <2>1, <2>2 DEF Closed
  <1> QED
    BY <1>1, NextFileFacts, FilesType DEF File

\* Completing the next file moves next_file on by one and keeps the order.
LEMMA MarkFileFacts ==
    ASSUME NEW s, NEW t, s.completed_files \in SUBSET File,
           Closed(s.completed_files), next_file(s) \in File,
           t.completed_files = s.completed_files \cup {next_file(s)}
    PROVE  /\ Closed(t.completed_files)
           /\ next_file(t) = next_file(s) + 1
  <1>1. \A f \in File : f \in s.completed_files <=> f < next_file(s)
    BY ClosedFacts
  <1>2. t.completed_files \in SUBSET File
    OBVIOUS
  <1>3. Closed(t.completed_files)
    BY <1>1, FilesType DEF Closed, File
  <1>4. \A f \in File : f \in t.completed_files <=> f < next_file(t)
    BY <1>2, <1>3, ClosedFacts
  <1>5. \A f \in File : f \in t.completed_files <=> f <= next_file(s)
    BY <1>1, FilesType DEF File
  <1>6. next_file(t) \in 0 .. NumFiles
    BY <1>2, NextFileFacts
  <1>7. next_file(s) < next_file(t)
    BY <1>4, <1>5, <1>6, FilesType DEF File
  <1>8. ~ (next_file(s) + 1 < next_file(t))
    BY <1>4, <1>5, <1>6, FilesType DEF File
  <1> QED
    BY <1>3, <1>6, <1>7, <1>8, FilesType DEF File

\* What a control stream holds after a loss: some of its first frames, the
\* last of them possibly truncated.
LEMMA ArrivedFacts ==
    ASSUME NEW q \in Seq(Message), NEW r \in Arrived(q)
    PROVE  /\ r \in Seq(Message)
           /\ Len(r) <= Len(q)
           /\ \A i \in 1 .. Len(r) : r[i] = q[i] \/ r[i] = Torn
  <1>0. Torn \in Message
    BY DEF Torn, Message
  <1>1. CASE \E n \in 0 .. Len(q) : r = SubSeq(q, 1, n)
    BY <1>1
  <1>2. CASE \E n \in 0 .. (Len(q) - 1) : r = Append(SubSeq(q, 1, n), Torn)
    BY <1>0, <1>2
  <1> QED
    BY <1>1, <1>2 DEF Arrived

\* Losing completed files moves next_file back.
LEMMA NextFileMonotone ==
    ASSUME NEW s, NEW t, t.completed_files \in SUBSET File,
           s.completed_files \subseteq t.completed_files, Closed(t.completed_files)
    PROVE  next_file(s) <= next_file(t)
  <1>1. s.completed_files \in SUBSET File
    OBVIOUS
  <1>2. next_file(t) \in File => next_file(t) \notin s.completed_files
    BY NextFileFacts
  <1>3. /\ next_file(s) \in 0 .. NumFiles
        /\ \A f \in File : f < next_file(s) => f \in s.completed_files
    BY <1>1, NextFileFacts
  <1>4. next_file(t) \in 0 .. NumFiles
    BY NextFileFacts
  <1> QED
    BY <1>2, <1>3, <1>4, FilesType DEF File

-----------------------------------------------------------------------------
(* Messages. *)

LEMMA PlainMessages ==
    /\ Ready \in Message
    /\ Cancel \in Message
    /\ Complete \in Message
    /\ Torn \in Message
  BY DEF Message, Ready, Cancel, Complete, Torn

LEMMA ChecksumMessage ==
    ASSUME NEW f \in File, NEW sum \in SUBSET Piece
    PROVE  FileChecksum(f, sum) \in Message
  BY DEF Message, FileChecksum

LEMMA InfoMessage ==
    ASSUME NEW S \in SUBSET File, NEW f \in 0 .. NumFiles, NEW n \in Nat
    PROVE  /\ TransferInfo(S, f, n) \in Message
           /\ TransferInfo(S, f, n).type = "TransferInfo"
           /\ TransferInfo(S, f, n).completed_files = S
  BY DEF Message, TransferInfo

LEMMA InfoFields ==
    ASSUME NEW m \in Message, m.type = "TransferInfo"
    PROVE  m.completed_files \in SUBSET File
  BY DEF Message

LEMMA SourceType == \A f \in File : Source(f) \in SUBSET Piece
  BY DEF Source, Piece

LEMMA CurFileType ==
    ASSUME state \in TransferState
    PROVE  /\ state.completed_files \in SUBSET File
           /\ state.file_chunks \in [File -> SUBSET Nat]
           /\ \A f \in File : state.file_chunks[f] \subseteq Chunk(f)
           /\ CurFile \in 0 .. NumFiles
  BY NextFileFacts DEF TransferState, CurFile

LEMMA CurChunkFacts ==
    ASSUME CurFile \in File, Pending # {}
    PROVE  CurChunk \in Pending /\ CurChunk \in Chunk(CurFile)
  <1>1. Pending \in SUBSET Nat
    BY FilesType DEF Pending, Chunk
  <1> QED
    BY <1>1, FirstOrFacts DEF CurChunk, Pending

LEMMA ManifestType ==
    ASSUME state \in TransferState
    PROVE  /\ Manifest \in Message
           /\ Manifest.type = "TransferInfo"
           /\ Manifest.completed_files = state.completed_files
  <1> DEFINE resuming == CurFile \in File /\ state.file_chunks[CurFile] # {}
             n == IF resuming THEN Cardinality(state.file_chunks[CurFile]) ELSE 0
             i == IF resuming THEN CurFile ELSE NumFiles
  <1>1. n \in Nat
    <2>1. CASE resuming
      <3>1. IsFiniteSet(Chunk(CurFile))
        BY <2>1, FilesType, FS_Interval DEF Chunk
      <3>2. state.file_chunks[CurFile] \in SUBSET Chunk(CurFile)
        BY <2>1, CurFileType
      <3>3. IsFiniteSet(state.file_chunks[CurFile])
        BY <3>1, <3>2, FS_Subset
      <3> QED
        BY <2>1, <3>3, FS_CardinalityType
    <2> QED
      BY <2>1
  <1>2. i \in 0 .. NumFiles
    BY CurFileType, FilesType
  <1>3. Manifest = TransferInfo(state.completed_files, i, n)
    BY DEF Manifest
  <1> QED
    BY <1>1, <1>2, <1>3, CurFileType, InfoMessage

-----------------------------------------------------------------------------
(* Type correctness. *)

LEMMA GoneTypes ==
    ASSUME TransportTypeOK, NEW u,
           Dropped(u) \/ SenderGone(u) \/ ReceiverGone
    PROVE  TransportTypeOK'
  <1>1. \A q \in Seq(Message) : \A r \in Arrived(q) : r \in Seq(Message)
    BY ArrivedFacts
  <1>2. <<>> \in Seq(Message)
    OBVIOUS
  <1>3. CASE Dropped(u)
    BY <1>1, <1>3 DEF TransportTypeOK, Dropped
  <1>4. CASE SenderGone(u)
    BY <1>1, <1>2, <1>4 DEF TransportTypeOK, SenderGone
  <1>5. CASE ReceiverGone
    BY <1>1, <1>2, <1>5 DEF TransportTypeOK, ReceiverGone
  <1> QED
    BY <1>3, <1>4, <1>5

\* A sender step that keeps the resume state and does not enter a phase that
\* is tied to a chunk.
LEMMA SenderKeepsTypes ==
    ASSUME SenderTypeOK, state' = state, sPhase' \in SPhases \ {"stream", "sum"},
           sError' \in SErrors, disk' \in {disk, state, NoState}, attempt' \in Nat
    PROVE  SenderTypeOK'
  BY DEF SenderTypeOK

LEMMA GiveUpTypes ==
    ASSUME TransportTypeOK, SenderTypeOK, NEW e \in SErrors, GiveUp(e)
    PROVE  TransportTypeOK' /\ SenderTypeOK'
  <1>1. TransportTypeOK'
    BY GoneTypes DEF GiveUp
  <1>2. SenderTypeOK'
    BY SenderKeepsTypes DEF GiveUp, save_to_file, SPhases, SenderTypeOK
  <1> QED
    BY <1>1, <1>2

LEMMA RecoverableTypes ==
    ASSUME TransportTypeOK, SenderTypeOK, Recoverable
    PROVE  TransportTypeOK' /\ SenderTypeOK'
  <1>1. CASE GiveUp("exhausted")
    BY <1>1, GiveUpTypes DEF SErrors
  <1>2. CASE /\ sPhase' = "backoff"
             /\ save_to_file
             /\ UNCHANGED <<sError, state, attempt, transportVars>>
    <2>1. TransportTypeOK'
      BY <1>2 DEF TransportTypeOK, transportVars
    <2>2. SenderTypeOK'
      BY <1>2, SenderKeepsTypes DEF save_to_file, SPhases, SenderTypeOK
    <2> QED
      BY <2>1, <2>2
  <1> QED
    BY <1>1, <1>2 DEF Recoverable

LEMMA SenderStepTypes ==
    ASSUME TransportTypeOK, SenderTypeOK,
           \/ SendTransferInfo \/ RecvReady \/ LostBeforeReady
           \/ SendChunkStream \/ ChunkAcknowledged \/ SendFileChecksum
           \/ RecvFileChecksum \/ SendComplete \/ SenderIoError
           \/ SourceError \/ SenderExit \/ SenderKilled
    PROVE  TransportTypeOK' /\ SenderTypeOK'
  <1> USE DEF SPhases
  <1>0. state \in TransferState
    BY DEF SenderTypeOK
  <1>1. CASE SendTransferInfo
    <2>1. TransportTypeOK'
      BY <1>0, <1>1, ManifestType DEF TransportTypeOK, SendTransferInfo
    <2>2. SenderTypeOK'
      BY <1>1, SenderKeepsTypes DEF SendTransferInfo, SenderTypeOK
    <2> QED
      BY <2>1, <2>2
  <1>2. CASE RecvReady
    <2>1. CASE Head(toS) = Ready /\ toS' = Tail(toS)
               /\ sPhase' = "file"
               /\ UNCHANGED <<sError, state, disk, attempt, link, toR, inbox>>
      <3>1. TransportTypeOK'
        BY <1>2, <2>1 DEF TransportTypeOK, RecvReady
      <3>2. SenderTypeOK'
        BY <2>1, SenderKeepsTypes DEF SenderTypeOK
      <3> QED
        BY <3>1, <3>2
    <2>2. CASE GiveUp("cancelled") \/ GiveUp("protocol")
      BY <2>2, GiveUpTypes DEF SErrors
    <2> QED
      BY <1>2, <2>1, <2>2 DEF RecvReady
  <1>3. CASE LostBeforeReady
    BY <1>3, GiveUpTypes DEF LostBeforeReady, SErrors
  <1>4. CASE SendChunkStream
    <2>1. <<CurChunk, CurFile>> \in Piece
      BY <1>4, CurChunkFacts DEF SendChunkStream, Piece
    <2>2. TransportTypeOK'
      BY <1>4, <2>1 DEF TransportTypeOK, SendChunkStream
    <2>3. CurFile' = CurFile /\ Pending' = Pending
      BY <1>4 DEF SendChunkStream, CurFile, Pending
    <2> QED
      BY <1>4, <2>2, <2>3 DEF SendChunkStream, SenderTypeOK
  <1>5. CASE ChunkAcknowledged
    <2>1. CurFile \in File /\ CurChunk \in Chunk(CurFile) /\ CurChunk \in Nat
      BY <1>5, CurChunkFacts, FilesType DEF ChunkAcknowledged, SenderTypeOK, Chunk
    <2>2. state' \in TransferState
      BY <1>0, <1>5, <2>1 DEF ChunkAcknowledged, mark_chunk_complete, TransferState
    <2>3. SenderTypeOK'
      BY <1>5, <2>2 DEF ChunkAcknowledged, SenderTypeOK
    <2>4. TransportTypeOK'
      BY <1>5 DEF ChunkAcknowledged, TransportTypeOK, transportVars
    <2> QED
      BY <2>3, <2>4
  <1>6. CASE SendFileChecksum
    <2>1. TransportTypeOK'
      BY <1>6, ChecksumMessage, SourceType DEF TransportTypeOK, SendFileChecksum
    <2>2. CurFile' = CurFile /\ Pending' = Pending
      BY <1>6 DEF SendFileChecksum, CurFile, Pending
    <2> QED
      BY <1>6, <2>1, <2>2 DEF SendFileChecksum, SenderTypeOK
  <1>7. CASE RecvFileChecksum
    <2>1. CASE /\ toS' = Tail(toS)
               /\ mark_file_complete(CurFile)
               /\ sPhase' = "file"
               /\ UNCHANGED <<sError, disk, attempt, link, toR, inbox>>
      <3>1. CurFile \in File
        BY <1>7 DEF RecvFileChecksum, SenderTypeOK
      <3>2. state' \in TransferState
        BY <1>0, <2>1, <3>1 DEF mark_file_complete, TransferState
      <3>3. SenderTypeOK'
        BY <2>1, <3>2 DEF SenderTypeOK
      <3>4. TransportTypeOK'
        BY <1>7, <2>1 DEF RecvFileChecksum, TransportTypeOK
      <3> QED
        BY <3>3, <3>4
    <2>2. CASE GiveUp("verification") \/ GiveUp("protocol")
      BY <2>2, GiveUpTypes DEF SErrors
    <2> QED
      BY <1>7, <2>1, <2>2 DEF RecvFileChecksum
  <1>8. CASE SendComplete
    <2>1. TransportTypeOK'
      BY <1>8, PlainMessages DEF TransportTypeOK, SendComplete
    <2>2. SenderTypeOK'
      BY <1>8, SenderKeepsTypes DEF SendComplete, SenderTypeOK
    <2> QED
      BY <2>1, <2>2
  <1>9. CASE SenderIoError \/ SourceError
    BY <1>9, RecoverableTypes DEF SenderIoError, SourceError
  <1>10. CASE SenderExit
    <2>1. TransportTypeOK'
      BY <1>10, GoneTypes DEF SenderExit
    <2>2. SenderTypeOK'
      BY <1>10, SenderKeepsTypes DEF SenderExit, senderVars, SenderTypeOK
    <2> QED
      BY <2>1, <2>2
  <1>11. CASE SenderKilled
    <2>1. TransportTypeOK'
      BY <1>11, GoneTypes DEF SenderKilled
    <2>2. SenderTypeOK'
      BY <1>11, SenderKeepsTypes DEF SenderKilled, SenderTypeOK, SErrors
    <2> QED
      BY <2>1, <2>2
  <1> QED
    BY <1>1, <1>2, <1>3, <1>4, <1>5, <1>6, <1>7, <1>8, <1>9, <1>10, <1>11

\* A sender process that starts, or that fails to connect.
LEMMA SenderStartTypes ==
    ASSUME SenderTypeOK,
           \/ StartResume \/ StartSend \/ ConnectFails \/ ReconnectFails
           \/ SenderConnected
    PROVE  SenderTypeOK'
  <1> USE DEF SPhases, SErrors
  <1>1. FreshState \in TransferState
    BY DEF FreshState, TransferState
  <1>2. attempt \in Nat /\ NextAttempt \in Nat
    BY DEF SenderTypeOK, NextAttempt
  <1>3. CASE StartResume
    BY <1>3 DEF StartResume, SenderTypeOK
  <1>4. CASE StartSend
    BY <1>1, <1>4 DEF StartSend, SenderTypeOK
  <1>5. CASE ConnectFails \/ ReconnectFails \/ SenderConnected
    BY <1>2, <1>5, SenderKeepsTypes
    DEF ConnectFails, ReconnectFails, SenderConnected, SenderTypeOK
  <1> QED
    BY <1>3, <1>4, <1>5

\* receive_folder's loop enters the first file that is still to be received.
LEMMA EnterFileFacts ==
    ASSUME NEW i \in Nat, NEW info, info.completed_files \in SUBSET File,
           EnterFile(i, info),
           partial \in [File -> (SUBSET Piece) \cup {NoFile}]
    PROVE  /\ rSeen' = {}
           /\ partial' \in [File -> (SUBSET Piece) \cup {NoFile}]
           /\ \/ /\ rPhase' = "complete"
                 /\ rFile' = NumFiles
                 /\ \A f \in File : f >= i => f \in info.completed_files
              \/ /\ rPhase' = "file"
                 /\ rFile' \in File
                 /\ rFile' >= i
                 /\ rFile' \notin info.completed_files
                 /\ \A f \in File : f >= i /\ f < rFile' => f \in info.completed_files
                 /\ partial'[rFile'] # NoFile
  <1> DEFINE todo == {f \in File : f >= i /\ f \notin info.completed_files}
  <1>1. CASE todo = {}
    BY <1>1 DEF EnterFile
  <1>2. CASE todo # {}
    <2>1. todo \in SUBSET Nat
      BY FilesType DEF File
    <2>2. /\ rPhase' = "file"
          /\ rFile' = FirstOr(todo, NumFiles)
          /\ rSeen' = {}
          /\ Opened(rFile')
      BY <1>2 DEF EnterFile, FirstOr
    <2>3. rFile' \in todo /\ \A g \in todo : rFile' <= g
      BY <1>2, <2>1, <2>2, FirstOrFacts
    <2>4. NoFile # {}
      BY TransportAssumption
    <2>5. /\ partial' \in [File -> (SUBSET Piece) \cup {NoFile}]
          /\ partial'[rFile'] # NoFile
      BY <2>2, <2>3, <2>4 DEF Opened
    <2>6. \A f \in File : f >= i /\ f < rFile' => f \in info.completed_files
      BY <2>3, FilesType DEF File
    <2> QED
      BY <2>2, <2>3, <2>5, <2>6
  <1> QED
    BY <1>1, <1>2

\* The receiver ends, or leaves the file it is on.
LEMMA ReceiverLeavesTypes ==
    ASSUME ReceiverTypeOK, rPhase' \in RPhases \ {"file"},
           rPhase' = "sum" => rPhase \in {"file", "sum"},
           UNCHANGED <<rInfo, rFile>>, rSeen' \in SUBSET Nat,
           partial' \in [File -> (SUBSET Piece) \cup {NoFile}],
           final' \in [File -> (SUBSET Piece) \cup {NoFile}],
           rRecord' \in {rRecord, "completed", "interrupted", "failed"}
    PROVE  ReceiverTypeOK'
  BY DEF ReceiverTypeOK

LEMMA FatalTypes ==
    ASSUME TransportTypeOK, ReceiverTypeOK, Fatal,
           partial' \in [File -> (SUBSET Piece) \cup {NoFile}],
           final' \in [File -> (SUBSET Piece) \cup {NoFile}]
    PROVE  TransportTypeOK' /\ ReceiverTypeOK'
  <1>1. TransportTypeOK'
    BY GoneTypes DEF Fatal
  <1>2. ReceiverTypeOK'
    BY ReceiverLeavesTypes DEF Fatal, RPhases, ReceiverTypeOK
  <1> QED
    BY <1>1, <1>2

LEMMA ReceiverStepTypes ==
    ASSUME TransportTypeOK, ReceiverTypeOK,
           \/ AcceptTransfer \/ RejectTransfer \/ BadManifest \/ RecvChunk
           \/ FinishFile \/ CheckFile \/ RecvComplete \/ ReceiverSeesLoss
           \/ ReceiverKilled
    PROVE  TransportTypeOK' /\ ReceiverTypeOK'
  <1> USE DEF RPhases
  <1> DEFINE Disk == [File -> (SUBSET Piece) \cup {NoFile}]
  <1>0. partial \in Disk /\ final \in Disk /\ toR \in Seq(Message)
        /\ rSeen \in SUBSET Nat
    BY DEF ReceiverTypeOK, TransportTypeOK
  <1>1. CASE AcceptTransfer
    <2>1. CASE link = "down"
      BY <1>0, <1>1, <2>1, FatalTypes DEF AcceptTransfer
    <2>2. CASE link = "up"
      <3>1. /\ toR # <<>> /\ toR' = Tail(toR)
            /\ toS' = Append(toS, Ready)
            /\ rInfo' = Head(toR)
            /\ EnterFile(0, Head(toR))
            /\ UNCHANGED <<link, inbox, final, rRecord>>
        BY <1>1, <2>2 DEF AcceptTransfer
      <3>2. Head(toR) \in Message /\ Head(toR).type = "TransferInfo"
        BY <1>0, <1>1 DEF AcceptTransfer
      <3>3. TransportTypeOK'
        BY <3>1, PlainMessages DEF TransportTypeOK
      <3>4. /\ rSeen' = {}
            /\ partial' \in Disk
            /\ \/ rPhase' = "complete" /\ rFile' = NumFiles
               \/ rPhase' = "file" /\ rFile' \in File /\ partial'[rFile'] # NoFile
        BY <1>0, <3>1, <3>2, InfoFields, EnterFileFacts
      <3>5. ReceiverTypeOK'
        BY <3>1, <3>2, <3>4, FilesType DEF ReceiverTypeOK, File
      <3> QED
        BY <3>3, <3>5
    <2> QED
      BY <2>1, <2>2 DEF TransportTypeOK
  <1>2. CASE RejectTransfer
    <2>1. CASE Fatal
      BY <1>0, <1>2, <2>1, FatalTypes DEF RejectTransfer
    <2>2. CASE ~ Fatal
      <3>1. /\ rPhase = "info" /\ toR # <<>> /\ toR' = Tail(toR)
            /\ toS' = Append(toS, Cancel)
            /\ rRecord' = "interrupted"
            /\ UNCHANGED <<rPhase, rInfo, rFile, rSeen, link, inbox, partial, final>>
        BY <1>2, <2>2 DEF RejectTransfer
      <3>2. TransportTypeOK'
        BY <3>1, PlainMessages DEF TransportTypeOK
      <3>3. ReceiverTypeOK'
        BY <1>0, <3>1, ReceiverLeavesTypes
      <3> QED
        BY <3>2, <3>3
    <2> QED
      BY <2>1, <2>2
  <1>3. CASE BadManifest
    BY <1>0, <1>3, FatalTypes DEF BadManifest
  <1>4. CASE RecvChunk
    <2>1. PICK p \in inbox :
            \/ Fatal /\ UNCHANGED <<partial, final>>
            \/ /\ inbox' = inbox \ {p}
               /\ rSeen' = rSeen \cup {p[1]}
               /\ partial' = [partial EXCEPT ![rFile] =
                       IF p[1] \in rSeen THEN @ ELSE write_chunk(@, p[1], p[2])]
               /\ UNCHANGED <<rPhase, rInfo, rFile, final, rRecord, link, toR, toS>>
      BY <1>4 DEF RecvChunk
    <2>2. CASE Fatal /\ UNCHANGED <<partial, final>>
      BY <1>0, <2>2, FatalTypes
    <2>3. CASE /\ inbox' = inbox \ {p}
               /\ rSeen' = rSeen \cup {p[1]}
               /\ partial' = [partial EXCEPT ![rFile] =
                       IF p[1] \in rSeen THEN @ ELSE write_chunk(@, p[1], p[2])]
               /\ UNCHANGED <<rPhase, rInfo, rFile, final, rRecord, link, toR, toS>>
      <3>1. p \in Piece /\ p[1] \in Nat /\ p = <<p[1], p[2]>>
        BY FilesType DEF TransportTypeOK, Piece, Chunk
      <3>2. rFile \in File /\ rPhase = "file"
        BY <1>4 DEF RecvChunk, ReceiverTypeOK
      <3>3. partial[rFile] \in SUBSET Piece
        BY <3>2 DEF ReceiverTypeOK
      <3> DEFINE c == IF p[1] \in rSeen THEN partial[rFile]
                                        ELSE write_chunk(partial[rFile], p[1], p[2])
      <3>4. c \in SUBSET Piece
        BY <3>1, <3>3 DEF write_chunk
      <3>5. partial' = [partial EXCEPT ![rFile] = c]
        BY <2>3
      <3> HIDE DEF c
      <3>6. partial' \in Disk /\ partial'[rFile] # NoFile
        BY <1>0, <3>2, <3>4, <3>5, TransportAssumption
      <3>7. TransportTypeOK'
        BY <2>3 DEF TransportTypeOK
      <3>8. ReceiverTypeOK'
        BY <2>3, <3>1, <3>6 DEF ReceiverTypeOK
      <3> QED
        BY <3>7, <3>8
    <2> QED
      BY <2>1, <2>2, <2>3
  <1>5. CASE FinishFile
    <2>1. rFile \in File /\ rPhase = "file" /\ partial[rFile] \in SUBSET Piece
      BY <1>5 DEF FinishFile, ReceiverTypeOK
    <2>2. partial' \in Disk /\ final' \in Disk
      BY <1>0, <1>5, <2>1 DEF FinishFile
    <2>3. CASE Fatal
      BY <2>2, <2>3, FatalTypes
    <2>4. CASE ~ Fatal
      <3>1. /\ toS' = Append(toS, FileChecksum(rFile, partial[rFile]))
            /\ rPhase' = "sum"
            /\ UNCHANGED <<rInfo, rFile, rSeen, rRecord, link, toR, inbox>>
        BY <1>5, <2>4 DEF FinishFile
      <3>2. TransportTypeOK'
        BY <2>1, <3>1, ChecksumMessage DEF TransportTypeOK
      <3>3. ReceiverTypeOK'
        BY <1>0, <2>1, <2>2, <3>1, ReceiverLeavesTypes
      <3> QED
        BY <3>2, <3>3
    <2> QED
      BY <2>3, <2>4
  <1>6. CASE CheckFile
    <2>1. CASE Fatal /\ UNCHANGED partial
      BY <1>0, <1>6, <2>1, FatalTypes DEF CheckFile
    <2>2. CASE /\ toR' = Tail(toR)
               /\ EnterFile(rFile + 1, rInfo)
               /\ UNCHANGED <<rInfo, rRecord, link, toS, inbox>>
      <3>1. rFile + 1 \in Nat /\ rInfo.completed_files \in SUBSET File
        BY InfoFields, FilesType DEF ReceiverTypeOK
      <3>2. /\ rSeen' = {}
            /\ partial' \in Disk
            /\ \/ rPhase' = "complete" /\ rFile' = NumFiles
               \/ rPhase' = "file" /\ rFile' \in File /\ partial'[rFile'] # NoFile
        BY <1>0, <2>2, <3>1, EnterFileFacts
      <3>3. TransportTypeOK'
        BY <1>6, <2>2 DEF TransportTypeOK, CheckFile
      <3>4. ReceiverTypeOK'
        BY <1>6, <2>2, <3>2, FilesType DEF ReceiverTypeOK, File, CheckFile
      <3> QED
        BY <3>3, <3>4
    <2> QED
      BY <1>6, <2>1, <2>2 DEF CheckFile
  <1>7. CASE RecvComplete
    <2>1. CASE Fatal
      BY <1>0, <1>7, <2>1, FatalTypes DEF RecvComplete
    <2>2. CASE ~ Fatal
      <3>1. /\ toR # <<>> /\ toR' = Tail(toR)
            /\ rPhase' = "info"
            /\ rRecord' = "completed"
            /\ UNCHANGED <<rInfo, rFile, rSeen, link, toS, inbox, partial, final>>
        BY <1>7, <2>2 DEF RecvComplete
      <3>2. TransportTypeOK'
        BY <3>1 DEF TransportTypeOK
      <3>3. ReceiverTypeOK'
        BY <1>0, <3>1, ReceiverLeavesTypes
      <3> QED
        BY <3>2, <3>3
    <2> QED
      BY <2>1, <2>2
  <1>8. CASE ReceiverSeesLoss
    <2>1. TransportTypeOK'
      BY <1>8 DEF ReceiverSeesLoss, TransportTypeOK
    <2>2. ReceiverTypeOK'
      BY <1>0, <1>8, ReceiverLeavesTypes DEF ReceiverSeesLoss
    <2> QED
      BY <2>1, <2>2
  <1>9. CASE ReceiverKilled
    <2>1. TransportTypeOK'
      BY <1>9, GoneTypes DEF ReceiverKilled
    <2>2. ReceiverTypeOK'
      BY <1>0, <1>9, ReceiverLeavesTypes DEF ReceiverKilled
    <2> QED
      BY <2>1, <2>2
  <1> QED
    BY <1>1, <1>2, <1>3, <1>4, <1>5, <1>6, <1>7, <1>8, <1>9

LEMMA ReceiverStartTypes ==
    ASSUME ReceiverTypeOK, ReceiverRestart \/ ReceiverConnected \/ HandshakeBroken
    PROVE  ReceiverTypeOK'
  BY DEF ReceiverTypeOK, RPhases, ReceiverRestart, ReceiverConnected, HandshakeBroken

LEMMA InitTypes ==
    ASSUME Init
    PROVE  TypeOK
  <1>1. TransportTypeOK
    BY DEF Init, TransportInit, TransportTypeOK
  <1>2. SenderTypeOK
    BY DEF Init, SenderInit, SenderTypeOK, SPhases, SErrors, FreshState, TransferState
  <1>3. NumFiles \in 0 .. NumFiles /\ 0 \in 0 .. NumFiles
    BY FilesType
  <1>4. ReceiverTypeOK
    BY <1>3, InfoMessage DEF Init, ReceiverInit, ReceiverTypeOK, RPhases
  <1> QED
    BY <1>1, <1>2, <1>4, FaultsAssumption DEF Init, TypeOK

LEMMA NextTypes ==
    ASSUME TypeOK, Next
    PROVE  TypeOK'
  <1> DEFINE FaultsOK == faults \in [Disturbance -> Nat]
  <1>0. FaultsOK /\ TransportTypeOK /\ SenderTypeOK /\ ReceiverTypeOK
    BY DEF TypeOK
  <1>1. ASSUME NEW d \in Disturbance, Spend(d)
        PROVE  FaultsOK'
    BY <1>0, <1>1 DEF Spend
  <1>2. ASSUME UNCHANGED faults
        PROVE  FaultsOK'
    BY <1>0, <1>2
  <1>3. ASSUME UNCHANGED receiverVars
        PROVE  ReceiverTypeOK'
    BY <1>0, <1>3 DEF ReceiverTypeOK, receiverVars
  <1>4. ASSUME UNCHANGED senderVars
        PROVE  SenderTypeOK'
    BY <1>0, <1>4 DEF SenderTypeOK, senderVars, CurFile, Pending
  <1>5. ASSUME UNCHANGED transportVars
        PROVE  TransportTypeOK'
    BY <1>0, <1>5 DEF TransportTypeOK, transportVars
  <1> HIDE DEF FaultsOK
  <1>6. SUFFICES FaultsOK' /\ TransportTypeOK' /\ SenderTypeOK' /\ ReceiverTypeOK'
    BY DEF TypeOK, FaultsOK
  <1>7. CASE SenderStep
    BY <1>0, <1>2, <1>3, <1>7, SenderStepTypes DEF SenderStep
  <1>8. CASE ReceiverStep
    BY <1>0, <1>2, <1>4, <1>8, ReceiverStepTypes DEF ReceiverStep
  <1>9. CASE Connect
    <2>1. TransportTypeOK'
      BY <1>9 DEF Connect, Connected, TransportTypeOK
    <2> QED
      BY <1>0, <1>2, <1>9, <2>1, SenderStartTypes, ReceiverStartTypes DEF Connect
  <1>10. CASE ConnectTimeout
    <2>1. TransportTypeOK'
      BY <1>5, <1>10 DEF ConnectTimeout, ConnectFails, ReconnectFails
    <2> QED
      BY <1>0, <1>2, <1>3, <1>10, <2>1, SenderStartTypes DEF ConnectTimeout
  <1>11. CASE ConnectLost
    <2>1. TransportTypeOK'
      BY <1>5, <1>11 DEF ConnectLost, ConnectFails, ReconnectFails
    <2>2. ReceiverTypeOK'
      BY <1>0, <1>3, <1>11, ReceiverStartTypes DEF ConnectLost
    <2> QED
      BY <1>0, <1>1, <1>11, <2>1, <2>2, SenderStartTypes DEF ConnectLost, Disturbance
  <1>12. CASE ConnectionLost
    BY <1>0, <1>1, <1>3, <1>4, <1>12, GoneTypes DEF ConnectionLost, Disturbance
  <1>13. CASE Interrupt
    BY <1>0, <1>1, <1>3, <1>13, SenderStepTypes DEF Interrupt, Disturbance
  <1>14. CASE Crash
    BY <1>0, <1>1, <1>4, <1>14, ReceiverStepTypes DEF Crash, Disturbance
  <1>15. CASE SourceFault
    BY <1>0, <1>1, <1>3, <1>15, SenderStepTypes DEF SourceFault, Disturbance
  <1>16. CASE Decline
    BY <1>0, <1>1, <1>4, <1>16, ReceiverStepTypes DEF Decline, Disturbance
  <1>17. CASE Rerun
    <2>1. TransportTypeOK'
      BY <1>5, <1>17 DEF Rerun, StartResume, StartSend
    <2> QED
      BY <1>0, <1>1, <1>3, <1>17, <2>1, SenderStartTypes DEF Rerun, Disturbance
  <1>18. CASE Restart
    <2>1. TransportTypeOK'
      BY <1>5, <1>18 DEF Restart, ReceiverRestart
    <2> QED
      BY <1>0, <1>2, <1>4, <1>18, <2>1, ReceiverStartTypes DEF Restart
  <1> QED
    BY <1>7, <1>8, <1>9, <1>10, <1>11, <1>12, <1>13, <1>14, <1>15, <1>16, <1>17, <1>18
       DEF Next

LEMMA StutterTypes ==
    ASSUME TypeOK, UNCHANGED vars
    PROVE  TypeOK'
  BY DEF TypeOK, vars, TransportTypeOK, transportVars, SenderTypeOK, senderVars,
         CurFile, Pending, ReceiverTypeOK, receiverVars

\* Every variable keeps its type; in particular the sender only ever works on
\* an existing file and an unsent chunk of it, and the receiver only finalizes
\* a .partial it has opened.
THEOREM TypeCorrect == Spec => []TypeOK
  <1>1. Init => TypeOK
    BY InitTypes
  <1>2. TypeOK /\ [Next]_vars => TypeOK'
    BY NextTypes, StutterTypes
  <1> QED
    BY <1>1, <1>2, PTL DEF Spec

-----------------------------------------------------------------------------
(***************************************************************************)
(* Lockstep and CompletedFilesDelivered are invariants of FolderTransfer,  *)
(* hence DoneMeansDelivered and CompletedRecordIsHonest, and FolderTransfer*)
(* implements FileDelivery.                                                *)
(***************************************************************************)

IInv ==
    /\ TypeOK
    /\ Lockstep
    /\ CompletedFilesDelivered

-----------------------------------------------------------------------------
(* Facts about one state. *)

\* The files the sender counts as complete are those below CurFile.
LEMMA CurFileFacts ==
    ASSUME IInv
    PROVE  /\ state \in TransferState
           /\ CurFile \in 0 .. NumFiles
           /\ \A f \in File : f \in state.completed_files <=> f < CurFile
           /\ disk # NoState => disk.completed_files \subseteq state.completed_files
  <1>1. state \in TransferState /\ Closed(state.completed_files)
    BY DEF IInv, TypeOK, SenderTypeOK, Lockstep, CompletedInOrder
  <1>2. state.completed_files \in SUBSET File
    BY <1>1, CurFileType
  <1> QED
    BY <1>1, <1>2, CurFileType, ClosedFacts
       DEF CurFile, IInv, Lockstep, CompletedInOrder

\* A file that changes at the receiver is not one the sender relies on.
LEMMA StoredFileIsUnconfirmed ==
    ASSUME IInv, rPhase = "file"
    PROVE  /\ rFile \in File
           /\ rFile \notin state.completed_files
           /\ disk # NoState => rFile \notin disk.completed_files
  <1>1. rFile \in File /\ CurFile <= rFile
    BY DEF IInv, Lockstep, ReceiverNotBehind
  <1> QED
    BY <1>1, CurFileFacts, FilesType DEF File

\* Messages of different types are different.
LEMMA MessageTypes ==
    /\ Ready.type = "Ready"
    /\ Cancel.type = "Cancel"
    /\ Complete.type = "Complete"
    /\ Torn.type = "Torn"
    /\ \A f, sum : /\ FileChecksum(f, sum).type = "FileChecksum"
                   /\ FileChecksum(f, sum).file_index = f
                   /\ FileChecksum(f, sum).checksum = sum
  BY DEF Ready, Cancel, Complete, Torn, FileChecksum

-----------------------------------------------------------------------------
(* Steps after which there is no connection. *)

\* The connection is lost or stays lost and the sender does nothing: the
\* receiver ends, goes back to listening, or does nothing either.
LEMMA LossStep ==
    ASSUME IInv, TypeOK', link' = "down", UNCHANGED senderVars,
           Len(toS') <= Len(toS),
           \A i \in 1 .. Len(toS') : toS'[i] = toS[i] \/ toS'[i] = Torn,
           \A i \in 1 .. Len(toR') :
               toR'[i] = Torn \/ \E j \in 1 .. Len(toR) : toR'[i] = toR[j],
           \/ UNCHANGED <<rPhase, rFile, rInfo, final>>
           \/ /\ rPhase' \in {"dead", "listen"}
              /\ \A f \in File : final'[f] = final[f] \/ (rPhase = "file" /\ f = rFile)
    PROVE  Lockstep' /\ CompletedFilesDelivered'
  <1>1. CurFile' = CurFile /\ Base' = Base /\ UNCHANGED <<sPhase, state, disk>>
    BY DEF CurFile, Base, senderVars
  <1>2. CompletedInOrder'
    BY <1>1 DEF IInv, Lockstep, CompletedInOrder
  <1>3. ConnectionsMatch'
    BY DEF ConnectionsMatch
  <1>4. ReceiverNotBehind'
    BY <1>1 DEF IInv, Lockstep, ReceiverNotBehind
  <1>5. AnswersTruthful'
    <2> SUFFICES ASSUME Answered', NEW i \in Base .. Len(toS')
                 PROVE  \/ toS'[i] = Torn
                        \/ /\ CurFile + (i - Base) \in File
                           /\ toS'[i] = FileChecksum(CurFile + (i - Base),
                                                     final'[CurFile + (i - Base)])
                           /\ rPhase' = "file" => CurFile + (i - Base) < rFile'
                           /\ rPhase' = "sum" => CurFile + (i - Base) <= rFile'
      BY <1>1 DEF AnswersTruthful
    <2>1. toS \in Seq(Message) /\ toS' \in Seq(Message)
      BY DEF IInv, TypeOK, TransportTypeOK
    <2>2. Base \in {1, 2}
      BY DEF Base
    <2>3. i \in 1 .. Len(toS') /\ i \in Base .. Len(toS)
      BY <2>1, <2>2
    <2>4. Answered
      BY <1>1, <2>1, MessageTypes DEF Answered
    <2>5. \/ toS[i] = Torn
          \/ /\ CurFile + (i - Base) \in File
             /\ toS[i] = FileChecksum(CurFile + (i - Base), final[CurFile + (i - Base)])
             /\ rPhase = "file" => CurFile + (i - Base) < rFile
             /\ rPhase = "sum" => CurFile + (i - Base) <= rFile
      BY <2>3, <2>4 DEF IInv, Lockstep, AnswersTruthful
    <2>6. CASE toS'[i] = toS[i] /\ toS[i] # Torn
      <3> DEFINE f == CurFile + (i - Base)
      <3>1. /\ f \in File
            /\ toS[i] = FileChecksum(f, final[f])
            /\ rPhase = "file" => f < rFile
            /\ rPhase = "sum" => f <= rFile
        BY <2>5, <2>6
      <3> HIDE DEF f
      <3>2. final'[f] = final[f]
        BY <3>1, StoredFileIsUnconfirmed, FilesType DEF File
      <3>3. /\ f \in File
            /\ toS'[i] = FileChecksum(f, final'[f])
            /\ rPhase' = "file" => f < rFile'
            /\ rPhase' = "sum" => f <= rFile'
        BY <2>6, <3>1, <3>2
      <3> QED
        BY <3>3 DEF f
    <2> QED
      BY <2>3, <2>6
  <1>6. ReceiverVerified'
    BY MessageTypes DEF IInv, Lockstep, ReceiverVerified, Delivered
  <1>7. NothingLost' /\ ManifestCurrent' /\ StartedOver' /\ DoneIsLast'
    BY DEF NothingLost, ManifestCurrent, StartedOver, DoneIsLast
  <1>8. CompletedFilesDelivered'
    BY <1>1, CurFileFacts, StoredFileIsUnconfirmed
       DEF IInv, CompletedFilesDelivered, Delivered, TransferState
  <1> QED
    BY <1>2, <1>3, <1>4, <1>5, <1>6, <1>7, <1>8 DEF Lockstep

\* The sending process ends.
LEMMA SenderEndsStep ==
    ASSUME IInv, TypeOK', link' = "down", state' = state,
           disk' \in {disk, state, NoState},
           \/ sPhase' = "failed"
           \/ sPhase = "done" /\ sPhase' = "done",
           UNCHANGED receiverVars,
           \A i \in 1 .. Len(toR') :
               toR'[i] = Torn \/ \E j \in 1 .. Len(toR) : toR'[i] = toR[j]
    PROVE  Lockstep' /\ CompletedFilesDelivered'
  <1>1. CurFile' = CurFile /\ UNCHANGED <<rPhase, rInfo, rFile, final>>
    BY DEF CurFile, receiverVars
  <1>2. CompletedInOrder'
    BY <1>1 DEF IInv, Lockstep, CompletedInOrder
  <1>3. ConnectionsMatch'
    BY DEF ConnectionsMatch
  <1>4. ReceiverNotBehind'
    BY <1>1 DEF IInv, Lockstep, ReceiverNotBehind
  <1>5. AnswersTruthful'
    BY DEF AnswersTruthful, Answered
  <1>6. ReceiverVerified'
    BY <1>1, MessageTypes DEF IInv, Lockstep, ReceiverVerified, Delivered
  <1>7. NothingLost' /\ ManifestCurrent' /\ StartedOver' /\ DoneIsLast'
    BY DEF NothingLost, ManifestCurrent, StartedOver, DoneIsLast
  <1>8. CompletedFilesDelivered'
    BY <1>1 DEF IInv, CompletedFilesDelivered, Delivered
  <1> QED
    BY <1>2, <1>3, <1>4, <1>5, <1>6, <1>7, <1>8 DEF Lockstep

\* What SenderGone leaves in toR.
LEMMA SenderGoneFacts ==
    ASSUME TypeOK, NEW u, SenderGone(u)
    PROVE  /\ link' = "down"
           /\ \A i \in 1 .. Len(toR') :
                toR'[i] = Torn \/ \E j \in 1 .. Len(toR) : toR'[i] = toR[j]
  <1>1. toR \in Seq(Message)
    BY DEF TypeOK, TransportTypeOK
  <1>2. CASE toR' = toR
    BY <1>2 DEF SenderGone
  <1>3. CASE toR' \in Arrived(toR)
    BY <1>1, <1>3, ArrivedFacts DEF SenderGone
  <1> QED
    BY <1>2, <1>3 DEF SenderGone

\* What ReceiverGone and Dropped leave in toS and toR.
LEMMA ReceiverGoneFacts ==
    ASSUME TypeOK, NEW u, ReceiverGone \/ Dropped(u)
    PROVE  /\ link' = "down"
           /\ Len(toS') <= Len(toS)
           /\ \A i \in 1 .. Len(toS') : toS'[i] = toS[i] \/ toS'[i] = Torn
           /\ \A i \in 1 .. Len(toR') :
                toR'[i] = Torn \/ \E j \in 1 .. Len(toR) : toR'[i] = toR[j]
  <1>1. toR \in Seq(Message) /\ toS \in Seq(Message)
    BY DEF TypeOK, TransportTypeOK
  <1>2. toS' = toS \/ toS' \in Arrived(toS)
    BY DEF ReceiverGone, Dropped
  <1>3. /\ Len(toS') <= Len(toS)
        /\ \A i \in 1 .. Len(toS') : toS'[i] = toS[i] \/ toS'[i] = Torn
    BY <1>1, <1>2, ArrivedFacts
  <1>4. toR' = <<>> \/ toR' \in Arrived(toR)
    BY DEF ReceiverGone, Dropped
  <1>5. \A i \in 1 .. Len(toR') :
          toR'[i] = Torn \/ \E j \in 1 .. Len(toR) : toR'[i] = toR[j]
    BY <1>1, <1>4, ArrivedFacts
  <1> QED
    BY <1>3, <1>5 DEF ReceiverGone, Dropped

LEMMA GiveUpStep ==
    ASSUME IInv, TypeOK', NEW e, GiveUp(e), UNCHANGED receiverVars
    PROVE  Lockstep' /\ CompletedFilesDelivered'
  <1>1. TypeOK
    BY DEF IInv
  <1> QED
    BY <1>1, SenderGoneFacts, SenderEndsStep DEF GiveUp, save_to_file

LEMMA FatalStep ==
    ASSUME IInv, TypeOK', Fatal, UNCHANGED senderVars,
           \A f \in File : final'[f] = final[f] \/ (rPhase = "file" /\ f = rFile)
    PROVE  Lockstep' /\ CompletedFilesDelivered'
  <1>1. TypeOK
    BY DEF IInv
  <1> QED
    BY <1>1, ReceiverGoneFacts, LossStep DEF Fatal

-----------------------------------------------------------------------------
(* Steps of the sender. *)

\* Backing off after a recoverable error, on a dead connection or, after a
\* source error, on a live one.
LEMMA BackoffStep ==
    ASSUME IInv, TypeOK', UNCHANGED receiverVars, UNCHANGED transportVars,
           sPhase' = "backoff", disk' \in {disk, state, NoState}, state' = state,
           \/ link = "down"
           \/ sPhase = "send"
           \/ sPhase = "file" /\ CurFile \in File
    PROVE  Lockstep' /\ CompletedFilesDelivered'
  <1>1. /\ CurFile' = CurFile
        /\ UNCHANGED <<rPhase, rInfo, rFile, final, link, toR, toS>>
        /\ Manifest' = Manifest
    BY DEF CurFile, receiverVars, transportVars, Manifest
  <1>2. CompletedInOrder' /\ ConnectionsMatch' /\ ReceiverNotBehind' /\ DoneIsLast'
    BY <1>1 DEF IInv, Lockstep, CompletedInOrder, ConnectionsMatch, ReceiverNotBehind,
                DoneIsLast
  <1>3. ~ Answered'
    BY DEF Answered
  <1>4. AnswersTruthful' /\ NothingLost'
    BY <1>3 DEF AnswersTruthful, NothingLost
  <1>5. ReceiverVerified' /\ CompletedFilesDelivered'
    BY <1>1 DEF IInv, Lockstep, ReceiverVerified, CompletedFilesDelivered, Delivered
  <1>6. CASE link = "down"
    BY <1>1, <1>2, <1>4, <1>5, <1>6 DEF Lockstep, ManifestCurrent, StartedOver
  <1>7. CASE link = "up" /\ sPhase = "send"
    <2>1. ~ Answered
      BY <1>7 DEF Answered
    <2>2. ManifestCurrent'
      BY <1>1, <1>7 DEF IInv, Lockstep, ManifestCurrent
    <2>3. StartedOver'
      BY <1>1, <1>3, <1>7, <2>1 DEF IInv, Lockstep, StartedOver
    <2> QED
      BY <1>2, <1>4, <1>5, <2>2, <2>3 DEF Lockstep
  <1>8. CASE link = "up" /\ sPhase = "file" /\ CurFile \in File
    <2>1. Answered /\ Base = 1 /\ SenderSent = CurFile
      BY <1>8 DEF Answered, Base, SenderSent
    <2>2. /\ rPhase \in {"file", "sum", "complete"}
          /\ ReceiverRead + Len(toR) = CurFile
      BY <1>8, <2>1 DEF IInv, Lockstep, NothingLost
    <2>3. Len(toR) \in Nat /\ toS \in Seq(Message)
      BY DEF IInv, TypeOK, TransportTypeOK
    <2>4. rPhase \in {"file", "sum"} /\ rFile + Len(toR) = CurFile
      BY <1>8, <2>2, <2>3, FilesType DEF ReceiverRead, File
    <2>5. \A i \in 1 .. Len(toS) : toS[i].type = "FileChecksum"
      BY <1>8, <2>1, MessageTypes DEF IInv, Lockstep, AnswersTruthful
    <2>6. ManifestCurrent'
      BY <1>1, <2>4 DEF ManifestCurrent
    <2>7. StartedOver'
      BY <1>1, <1>8, <2>4, <2>5 DEF StartedOver
    <2> QED
      BY <1>2, <1>4, <1>5, <2>6, <2>7 DEF Lockstep
  <1> QED
    BY <1>6, <1>7, <1>8 DEF IInv, TypeOK, TransportTypeOK

LEMMA RecoverableStep ==
    ASSUME IInv, TypeOK', UNCHANGED receiverVars, Recoverable,
           \/ link = "down"
           \/ sPhase = "send"
           \/ sPhase = "file" /\ CurFile \in File
    PROVE  Lockstep' /\ CompletedFilesDelivered'
  <1>1. CASE GiveUp("exhausted")
    BY <1>1, GiveUpStep
  <1>2. CASE /\ sPhase' = "backoff"
             /\ save_to_file
             /\ UNCHANGED <<sError, state, attempt, transportVars>>
    BY <1>2, BackoffStep DEF save_to_file
  <1> QED
    BY <1>1, <1>2 DEF Recoverable

LEMMA SendTransferInfoStep ==
    ASSUME IInv, TypeOK', SendTransferInfo, UNCHANGED receiverVars
    PROVE  Lockstep' /\ CompletedFilesDelivered'
  <1>1. /\ CurFile' = CurFile /\ Manifest' = Manifest
        /\ link = "up" /\ sPhase = "send" /\ sPhase' = "ready"
        /\ toR' = Append(toR, Manifest)
        /\ UNCHANGED <<rPhase, rInfo, rFile, final, link, toS, state, disk>>
    BY DEF CurFile, Manifest, receiverVars, SendTransferInfo
  <1>2. toR \in Seq(Message) /\ toS \in Seq(Message)
    BY DEF IInv, TypeOK, TransportTypeOK
  <1>3. Manifest \in Message /\ Manifest.type = "TransferInfo"
    BY CurFileFacts, ManifestType
  <1>4. /\ ~ Answered
        /\ rPhase = "info" => toR = <<>> /\ toS = <<>>
        /\ rPhase # "info" => \A i \in 1 .. Len(toS) : toS[i].type = "FileChecksum"
    BY <1>1 DEF Answered, IInv, Lockstep, ManifestCurrent, StartedOver
  <1>5. ~ Answered'
    BY <1>1, <1>2, <1>4, MessageTypes DEF Answered
  <1>6. CompletedInOrder' /\ ConnectionsMatch' /\ ReceiverNotBehind' /\ DoneIsLast'
    BY <1>1 DEF IInv, Lockstep, CompletedInOrder, ConnectionsMatch, ReceiverNotBehind,
                DoneIsLast
  <1>7. AnswersTruthful' /\ NothingLost'
    BY <1>5 DEF AnswersTruthful, NothingLost
  <1>8. ManifestCurrent'
    BY <1>1, <1>2, <1>3, <1>4 DEF ManifestCurrent
  <1>9. StartedOver'
    <2> SUFFICES ASSUME rPhase # "info"
                 PROVE  /\ rPhase \in {"file", "sum"}
                        /\ CurFile \in File
                        /\ \A i \in 1 .. Len(toS) : toS[i].type = "FileChecksum"
                        /\ Len(toR') > 0
                        /\ toR'[Len(toR')].type = "TransferInfo"
                        /\ rFile + (Len(toR') - 1) = CurFile
      BY <1>1 DEF StartedOver
    <2>1. /\ rPhase \in {"file", "sum"}
          /\ CurFile \in File
          /\ rFile + Len(toR) = CurFile
      BY <1>1, <1>4 DEF IInv, Lockstep, StartedOver
    <2>2. Len(toR') = Len(toR) + 1 /\ toR'[Len(toR')] = Manifest
      BY <1>1, <1>2, <1>3
    <2>3. Len(toR) \in Nat /\ rFile \in Nat
      BY <1>2, FilesType DEF IInv, TypeOK, ReceiverTypeOK
    <2> QED
      BY <1>3, <1>4, <2>1, <2>2, <2>3
  <1>10. ReceiverVerified'
    <2>1. \A i \in 1 .. Len(toR') :
            toR'[i].type = "FileChecksum" => toR'[i].checksum = Source(toR'[i].file_index)
      BY <1>1, <1>2, <1>3 DEF IInv, Lockstep, ReceiverVerified
    <2> QED
      BY <1>1, <2>1 DEF IInv, Lockstep, ReceiverVerified, Delivered
  <1>11. CompletedFilesDelivered'
    BY <1>1 DEF IInv, CompletedFilesDelivered, Delivered
  <1> QED
    BY <1>6, <1>7, <1>8, <1>9, <1>10, <1>11 DEF Lockstep

LEMMA RecvReadyStep ==
    ASSUME IInv, TypeOK', RecvReady, UNCHANGED receiverVars
    PROVE  Lockstep' /\ CompletedFilesDelivered'
  <1>1. CASE GiveUp("cancelled") \/ GiveUp("protocol")
    BY <1>1, GiveUpStep
  <1>2. CASE /\ Head(toS) = Ready
             /\ toS' = Tail(toS)
             /\ sPhase' = "file"
             /\ UNCHANGED <<sError, state, disk, attempt, link, toR, inbox>>
    <2>1. /\ CurFile' = CurFile /\ sPhase = "ready" /\ toS # <<>>
          /\ UNCHANGED <<rPhase, rInfo, rFile, final>>
      BY <1>2 DEF CurFile, receiverVars, RecvReady
    <2>2. toR \in Seq(Message) /\ toS \in Seq(Message)
      BY DEF IInv, TypeOK, TransportTypeOK
    <2>3. /\ Answered /\ Base = 2 /\ Answered' /\ Base' = 1
          /\ SenderSent = CurFile /\ SenderSent' = CurFile
          /\ ReceiverSent' = ReceiverSent /\ ReceiverRead' = ReceiverRead
      BY <1>2, <2>1, <2>2
         DEF Answered, Base, SenderSent, ReceiverSent, ReceiverRead
    <2>4. /\ Len(toS') = Len(toS) - 1
          /\ \A i \in 1 .. Len(toS') : toS'[i] = toS[i + 1]
      BY <1>2, <2>1, <2>2
    <2>5. CompletedInOrder' /\ ConnectionsMatch' /\ ReceiverNotBehind' /\ DoneIsLast'
      BY <1>2, <2>1
         DEF IInv, Lockstep, CompletedInOrder, ConnectionsMatch, ReceiverNotBehind,
             DoneIsLast
    <2>6. AnswersTruthful'
      <3> SUFFICES ASSUME NEW i \in 1 .. Len(toS')
                   PROVE  \/ link = "down" /\ toS'[i] = Torn
                          \/ /\ CurFile + (i - 1) \in File
                             /\ toS'[i] = FileChecksum(CurFile + (i - 1), final[CurFile + (i - 1)])
                             /\ rPhase = "file" => CurFile + (i - 1) < rFile
                             /\ rPhase = "sum" => CurFile + (i - 1) <= rFile
        BY <1>2, <2>1, <2>3 DEF AnswersTruthful
      <3>1. i + 1 \in 2 .. Len(toS) /\ (i + 1) - 2 = i - 1
        BY <2>2, <2>4
      <3> QED
        BY <2>3, <2>4, <3>1 DEF IInv, Lockstep, AnswersTruthful
    <2>7. NothingLost'
      BY <1>2, <2>1, <2>2, <2>3, <2>4 DEF IInv, Lockstep, NothingLost
    <2>8. ManifestCurrent' /\ StartedOver'
      BY <1>2, <2>1, <2>3 DEF IInv, Lockstep, NothingLost, ManifestCurrent, StartedOver
    <2>9. ReceiverVerified' /\ CompletedFilesDelivered'
      BY <1>2, <2>1 DEF IInv, Lockstep, ReceiverVerified, CompletedFilesDelivered, Delivered
    <2> QED
      BY <2>5, <2>6, <2>7, <2>8, <2>9 DEF Lockstep
  <1> QED
    BY <1>1, <1>2 DEF RecvReady

\* Steps inside send_file: the control streams and CurFile stay as they are.
LEMMA SendFileStep ==
    ASSUME IInv, TypeOK', SendChunkStream \/ ChunkAcknowledged, UNCHANGED receiverVars
    PROVE  Lockstep' /\ CompletedFilesDelivered'
  <1>1. /\ state'.completed_files = state.completed_files
        /\ UNCHANGED <<disk, link, toR, toS, rPhase, rInfo, rFile, final>>
        /\ sPhase \in {"file", "stream"} /\ sPhase' \in {"file", "stream"}
    <2>1. state.completed_files = state'.completed_files
      BY CurFileFacts DEF SendChunkStream, ChunkAcknowledged, mark_chunk_complete, TransferState
    <2> QED
      BY <2>1 DEF receiverVars, SendChunkStream, ChunkAcknowledged, transportVars
  <1>2. CurFile' = CurFile
    BY <1>1 DEF CurFile, next_file
  <1>3. /\ Answered /\ Answered' /\ Base = 1 /\ Base' = 1
        /\ SenderSent = CurFile /\ SenderSent' = CurFile
        /\ ReceiverSent' = ReceiverSent /\ ReceiverRead' = ReceiverRead
    BY <1>1, <1>2 DEF Answered, Base, SenderSent, ReceiverSent, ReceiverRead
  <1>4. CompletedInOrder' /\ ConnectionsMatch' /\ ReceiverNotBehind' /\ DoneIsLast'
    BY <1>1, <1>2
       DEF IInv, Lockstep, CompletedInOrder, ConnectionsMatch, ReceiverNotBehind,
           DoneIsLast
  <1>5. AnswersTruthful' /\ NothingLost'
    BY <1>1, <1>2, <1>3 DEF IInv, Lockstep, AnswersTruthful, NothingLost
  <1>6. ManifestCurrent' /\ StartedOver'
    BY <1>1, <1>3 DEF IInv, Lockstep, NothingLost, ManifestCurrent, StartedOver
  <1>7. ReceiverVerified' /\ CompletedFilesDelivered'
    BY <1>1 DEF IInv, Lockstep, ReceiverVerified, CompletedFilesDelivered, Delivered
  <1> QED
    BY <1>4, <1>5, <1>6, <1>7 DEF Lockstep

LEMMA SendFileChecksumStep ==
    ASSUME IInv, TypeOK', SendFileChecksum, UNCHANGED receiverVars
    PROVE  Lockstep' /\ CompletedFilesDelivered'
  <1> DEFINE m == FileChecksum(CurFile, Source(CurFile))
  <1>1. /\ CurFile' = CurFile /\ CurFile \in File
        /\ sPhase = "file" /\ sPhase' = "sum"
        /\ toR' = Append(toR, m)
        /\ UNCHANGED <<state, disk, link, toS, rPhase, rInfo, rFile, final>>
    BY DEF CurFile, receiverVars, SendFileChecksum
  <1>2. toR \in Seq(Message) /\ m \in Message
    BY <1>1, ChecksumMessage, SourceType DEF IInv, TypeOK, TransportTypeOK
  <1>3. /\ m.type = "FileChecksum" /\ m.checksum = Source(m.file_index)
    BY MessageTypes
  <1> HIDE DEF m
  <1>4. /\ Len(toR') = Len(toR) + 1
        /\ \A i \in 1 .. Len(toR') : toR'[i] = m \/ (i \in 1 .. Len(toR) /\ toR'[i] = toR[i])
    BY <1>1, <1>2
  <1>5. /\ Answered /\ Answered' /\ Base = 1 /\ Base' = 1
        /\ SenderSent = CurFile /\ SenderSent' = CurFile + 1
        /\ ReceiverSent' = ReceiverSent /\ ReceiverRead' = ReceiverRead
    BY <1>1 DEF Answered, Base, SenderSent, ReceiverSent, ReceiverRead
  <1>6. CompletedInOrder' /\ ConnectionsMatch' /\ ReceiverNotBehind' /\ DoneIsLast'
    BY <1>1
       DEF IInv, Lockstep, CompletedInOrder, ConnectionsMatch, ReceiverNotBehind,
           DoneIsLast
  <1>7. AnswersTruthful'
    BY <1>1, <1>5 DEF IInv, Lockstep, AnswersTruthful
  <1>8. NothingLost'
    <2>1. /\ ReceiverRead \in Nat /\ Len(toR) \in Nat
      BY <1>2, FilesType DEF ReceiverRead, IInv, TypeOK, ReceiverTypeOK
    <2> QED
      BY <1>1, <1>3, <1>4, <1>5, <2>1, CurFileFacts DEF IInv, Lockstep, NothingLost
  <1>9. ManifestCurrent' /\ StartedOver'
    BY <1>1, <1>5 DEF IInv, Lockstep, NothingLost, ManifestCurrent, StartedOver
  <1>10. ReceiverVerified'
    BY <1>1, <1>3, <1>4 DEF IInv, Lockstep, ReceiverVerified, Delivered
  <1>11. CompletedFilesDelivered'
    BY <1>1 DEF IInv, CompletedFilesDelivered, Delivered
  <1> QED
    BY <1>6, <1>7, <1>8, <1>9, <1>10, <1>11 DEF Lockstep

\* The answer the sender reads is the checksum of what the receiver has stored
\* for CurFile, so a match means the file is delivered.
LEMMA ChecksumIsTruthful ==
    ASSUME IInv, sPhase = "sum", toS # <<>>, Head(toS).type = "FileChecksum"
    PROVE  /\ CurFile \in File
           /\ Head(toS).checksum = final[CurFile]
           /\ rPhase = "file" => CurFile < rFile
           /\ rPhase = "sum" => CurFile <= rFile
  <1>1. toS \in Seq(Message)
    BY DEF IInv, TypeOK, TransportTypeOK
  <1>2. Answered /\ Base = 1 /\ 1 \in 1 .. Len(toS) /\ Head(toS) = toS[1]
    BY <1>1 DEF Answered, Base
  <1>3. CurFile + (1 - 1) = CurFile
    BY CurFileFacts, FilesType
  <1> QED
    BY <1>2, <1>3, MessageTypes DEF IInv, Lockstep, AnswersTruthful

LEMMA RecvFileChecksumStep ==
    ASSUME IInv, TypeOK', RecvFileChecksum, UNCHANGED receiverVars
    PROVE  Lockstep' /\ CompletedFilesDelivered'
  <1>1. CASE GiveUp("verification") \/ GiveUp("protocol")
    BY <1>1, GiveUpStep
  <1>2. CASE /\ Head(toS).type = "FileChecksum"
             /\ Head(toS).checksum = Source(CurFile)
             /\ toS' = Tail(toS)
             /\ mark_file_complete(CurFile)
             /\ sPhase' = "file"
             /\ UNCHANGED <<sError, disk, attempt, link, toR, inbox>>
    <2>1. /\ sPhase = "sum" /\ toS # <<>>
          /\ UNCHANGED <<rPhase, rInfo, rFile, final>>
      BY DEF receiverVars, RecvFileChecksum
    <2>2. /\ CurFile \in File
          /\ Delivered(CurFile)
          /\ rPhase = "file" => CurFile < rFile
          /\ rPhase = "sum" => CurFile <= rFile
      BY <1>2, <2>1, ChecksumIsTruthful DEF Delivered
    <2>3. state'.completed_files = state.completed_files \cup {CurFile}
      BY <1>2, CurFileFacts DEF mark_file_complete, TransferState
    <2>4. CurFile' = CurFile + 1 /\ Closed(state'.completed_files)
      <3>1. state.completed_files \in SUBSET File /\ Closed(state.completed_files)
        BY CurFileFacts, CurFileType DEF IInv, Lockstep, CompletedInOrder
      <3> QED
        BY <2>2, <2>3, <3>1, MarkFileFacts DEF CurFile
    <2>5. toR \in Seq(Message) /\ toS \in Seq(Message) /\ rFile \in Nat
      BY FilesType DEF IInv, TypeOK, TransportTypeOK, ReceiverTypeOK
    <2>6. /\ Len(toS') = Len(toS) - 1 /\ Len(toS) \in Nat
          /\ \A i \in 1 .. Len(toS') : toS'[i] = toS[i + 1]
      BY <1>2, <2>1, <2>5
    <2>7. /\ Answered /\ Answered' /\ Base = 1 /\ Base' = 1
          /\ SenderSent = CurFile + 1 /\ SenderSent' = CurFile'
          /\ ReceiverSent' = ReceiverSent /\ ReceiverRead' = ReceiverRead
      BY <1>2, <2>1 DEF Answered, Base, SenderSent, ReceiverSent, ReceiverRead
    <2>8. CompletedInOrder' /\ ConnectionsMatch' /\ DoneIsLast'
      BY <1>2, <2>1, <2>3, <2>4
         DEF IInv, Lockstep, CompletedInOrder, ConnectionsMatch, DoneIsLast
    <2>9. ReceiverNotBehind'
      BY <2>1, <2>2, <2>4, <2>5, FilesType DEF IInv, Lockstep, ReceiverNotBehind, File
    <2>10. AnswersTruthful'
      <3> SUFFICES ASSUME NEW i \in 1 .. Len(toS')
                   PROVE  \/ link = "down" /\ toS'[i] = Torn
                          \/ /\ CurFile' + (i - 1) \in File
                             /\ toS'[i] = FileChecksum(CurFile' + (i - 1), final[CurFile' + (i - 1)])
                             /\ rPhase = "file" => CurFile' + (i - 1) < rFile
                             /\ rPhase = "sum" => CurFile' + (i - 1) <= rFile
        BY <1>2, <2>1, <2>7 DEF AnswersTruthful
      <3>1. i + 1 \in 1 .. Len(toS) /\ CurFile' + (i - 1) = CurFile + ((i + 1) - 1)
        BY <2>2, <2>4, <2>6, FilesType DEF File
      <3> QED
        BY <2>6, <2>7, <3>1 DEF IInv, Lockstep, AnswersTruthful
    <2>11. NothingLost'
      <3> SUFFICES ASSUME link = "up"
                   PROVE  /\ rPhase \in {"file", "sum", "complete"}
                          /\ ReceiverSent = CurFile' + (Len(toS') - (1 - 1))
                          /\ ReceiverRead + Len(toR) = CurFile'
                          /\ \A i \in 1 .. Len(toR) : toR[i].type = "FileChecksum"
        BY <1>2, <2>1, <2>7 DEF NothingLost
      <3> QED
        BY <2>2, <2>4, <2>6, <2>7, FilesType DEF IInv, Lockstep, NothingLost, File
    <2>12. ManifestCurrent' /\ StartedOver'
      BY <1>2, <2>1, <2>7 DEF IInv, Lockstep, NothingLost, ManifestCurrent, StartedOver
    <2>13. ReceiverVerified'
      BY <1>2, <2>1 DEF IInv, Lockstep, ReceiverVerified, Delivered
    <2>14. CompletedFilesDelivered'
      BY <1>2, <2>1, <2>2, <2>3 DEF IInv, CompletedFilesDelivered, Delivered
    <2> QED
      BY <2>8, <2>9, <2>10, <2>11, <2>12, <2>13, <2>14 DEF Lockstep
  <1> QED
    BY <1>1, <1>2 DEF RecvFileChecksum

LEMMA SendCompleteStep ==
    ASSUME IInv, TypeOK', SendComplete, UNCHANGED receiverVars
    PROVE  Lockstep' /\ CompletedFilesDelivered'
  <1>1. /\ CurFile' = CurFile /\ CurFile = NumFiles
        /\ sPhase = "file" /\ sPhase' = "done" /\ link = "up"
        /\ toR' = Append(toR, Complete) /\ disk' = NoState
        /\ UNCHANGED <<state, link, toS, rPhase, rInfo, rFile, final>>
    BY DEF CurFile, receiverVars, SendComplete
  <1>2. toR \in Seq(Message)
    BY DEF IInv, TypeOK, TransportTypeOK
  <1>3. \A i \in 1 .. Len(toR') :
            toR'[i] = Complete \/ (i \in 1 .. Len(toR) /\ toR'[i] = toR[i])
    BY <1>1, <1>2, PlainMessages
  <1>4. \A i \in 1 .. Len(toR) : toR[i].type = "FileChecksum"
    BY <1>1 DEF IInv, Lockstep, NothingLost, Answered
  <1>5. CompletedInOrder' /\ ConnectionsMatch' /\ ReceiverNotBehind'
    BY <1>1 DEF IInv, Lockstep, CompletedInOrder, ConnectionsMatch, ReceiverNotBehind
  <1>6. AnswersTruthful' /\ NothingLost' /\ ManifestCurrent' /\ StartedOver'
    BY <1>1 DEF AnswersTruthful, NothingLost, Answered, ManifestCurrent, StartedOver
  <1>7. DoneIsLast'
    BY <1>3, <1>4, MessageTypes DEF DoneIsLast
  <1>8. ReceiverVerified'
    BY <1>1, <1>3, MessageTypes DEF IInv, Lockstep, ReceiverVerified, Delivered
  <1>9. CompletedFilesDelivered'
    BY <1>1 DEF IInv, CompletedFilesDelivered, Delivered
  <1> QED
    BY <1>5, <1>6, <1>7, <1>8, <1>9 DEF Lockstep

\* A new sending process starts from the state file, or from nothing.
LEMMA StartStep ==
    ASSUME IInv, TypeOK', StartResume \/ StartSend, UNCHANGED receiverVars
    PROVE  Lockstep' /\ CompletedFilesDelivered'
  <1>1. /\ sPhase = "failed" /\ sPhase' = "connect"
        /\ UNCHANGED <<link, toR, toS, rPhase, rInfo, rFile, final>>
        /\ link = "down"
    BY DEF StartResume, StartSend, receiverVars, transportVars, IInv, Lockstep,
           ConnectionsMatch
  <1>2. /\ state'.completed_files \subseteq state.completed_files
        /\ Closed(state'.completed_files)
        /\ disk' # NoState => disk' = state'
    BY DEF StartResume, StartSend, FreshState, IInv, Lockstep, CompletedInOrder, Closed
  <1>3. state.completed_files \in SUBSET File
    BY CurFileFacts, CurFileType
  <1>4. CurFile' <= CurFile /\ CurFile' \in 0 .. NumFiles /\ CurFile \in 0 .. NumFiles
    <2>1. Closed(state.completed_files)
      BY DEF IInv, Lockstep, CompletedInOrder
    <2> QED
      BY <1>2, <1>3, <2>1, NextFileMonotone, NextFileFacts DEF CurFile
  <1>5. CompletedInOrder' /\ ConnectionsMatch'
    BY <1>1, <1>2 DEF CompletedInOrder, ConnectionsMatch
  <1>6. ReceiverNotBehind'
    BY <1>1, <1>4, FilesType DEF IInv, Lockstep, ReceiverNotBehind, File
  <1>7. AnswersTruthful' /\ NothingLost' /\ ManifestCurrent' /\ StartedOver' /\ DoneIsLast'
    BY <1>1 DEF AnswersTruthful, NothingLost, Answered, ManifestCurrent, StartedOver,
                DoneIsLast
  <1>8. ReceiverVerified' /\ CompletedFilesDelivered'
    BY <1>1, <1>2 DEF IInv, Lockstep, ReceiverVerified, CompletedFilesDelivered, Delivered
  <1> QED
    BY <1>5, <1>6, <1>7, <1>8 DEF Lockstep

\* A connection attempt that fails, possibly taking the receiver with it.
LEMMA NoConnectionStep ==
    ASSUME IInv, TypeOK', ConnectFails \/ ReconnectFails,
           UNCHANGED receiverVars \/ HandshakeBroken
    PROVE  Lockstep' /\ CompletedFilesDelivered'
  <1>1. /\ UNCHANGED <<state, disk, link, toR, toS, rInfo, rFile, final>>
        /\ rPhase' = rPhase \/ (rPhase = "listen" /\ rPhase' = "dead")
        /\ CurFile' = CurFile /\ Manifest' = Manifest
    BY DEF ConnectFails, ReconnectFails, HandshakeBroken, receiverVars, transportVars,
           CurFile, Manifest
  <1>2. /\ ~ Answered /\ ~ Answered'
        /\ \/ sPhase = "connect" /\ sPhase' = "failed" /\ link = "down"
           \/ sPhase = "backoff" /\ sPhase' = "send"
    BY DEF Answered, ConnectFails, ReconnectFails, IInv, Lockstep, ConnectionsMatch
  <1>3. CompletedInOrder' /\ ConnectionsMatch' /\ ReceiverNotBehind' /\ DoneIsLast'
    BY <1>1, <1>2
       DEF IInv, Lockstep, CompletedInOrder, ConnectionsMatch, ReceiverNotBehind,
           DoneIsLast
  <1>4. AnswersTruthful' /\ NothingLost'
    BY <1>2 DEF AnswersTruthful, NothingLost
  <1>5. ManifestCurrent' /\ StartedOver'
    BY <1>1, <1>2 DEF IInv, Lockstep, ConnectionsMatch, ManifestCurrent, StartedOver
  <1>6. ReceiverVerified' /\ CompletedFilesDelivered'
    BY <1>1 DEF IInv, Lockstep, ReceiverVerified, CompletedFilesDelivered, Delivered
  <1> QED
    BY <1>3, <1>4, <1>5, <1>6 DEF Lockstep

LEMMA ConnectStep ==
    ASSUME IInv, TypeOK', Connect
    PROVE  Lockstep' /\ CompletedFilesDelivered'
  <1>1. /\ UNCHANGED <<state, disk, rInfo, rFile, final>>
        /\ link' = "up" /\ toR' = <<>> /\ toS' = <<>>
        /\ sPhase' = "send" /\ rPhase' = "info" /\ CurFile' = CurFile
    BY DEF Connect, SenderConnected, ReceiverConnected, Connected, CurFile
  <1>2. ~ Answered'
    BY <1>1 DEF Answered
  <1>3. CompletedInOrder' /\ ConnectionsMatch' /\ ReceiverNotBehind'
    BY <1>1 DEF IInv, Lockstep, CompletedInOrder, ConnectionsMatch, ReceiverNotBehind
  <1>4. AnswersTruthful' /\ NothingLost' /\ ManifestCurrent' /\ StartedOver' /\ DoneIsLast'
    BY <1>1, <1>2 DEF AnswersTruthful, NothingLost, ManifestCurrent, StartedOver, DoneIsLast
  <1>5. ReceiverVerified' /\ CompletedFilesDelivered'
    BY <1>1 DEF IInv, Lockstep, ReceiverVerified, CompletedFilesDelivered, Delivered
  <1> QED
    BY <1>3, <1>4, <1>5 DEF Lockstep

-----------------------------------------------------------------------------
(* Steps of the receiver. *)

\* A manifest is only ever accepted on a connection on which it is the first
\* message, and then it is the sender's current one.
LEMMA AcceptTransferStep ==
    ASSUME IInv, TypeOK', AcceptTransfer, UNCHANGED senderVars
    PROVE  Lockstep' /\ CompletedFilesDelivered'
  <1>1. CASE Fatal /\ UNCHANGED <<partial, final>>
    BY <1>1, FatalStep
  <1>2. CASE /\ link = "up"
             /\ toR' = Tail(toR)
             /\ toS' = Append(toS, Ready)
             /\ rInfo' = Head(toR)
             /\ EnterFile(0, Head(toR))
             /\ UNCHANGED <<link, inbox, final, rRecord>>
    <2>1. /\ rPhase = "info" /\ toR # <<>> /\ Head(toR).type = "TransferInfo"
          /\ UNCHANGED <<sPhase, state, disk>> /\ CurFile' = CurFile
      BY DEF AcceptTransfer, senderVars, CurFile
    <2>2. toR \in Seq(Message) /\ partial \in [File -> (SUBSET Piece) \cup {NoFile}]
      BY DEF IInv, TypeOK, TransportTypeOK, ReceiverTypeOK
    <2>3. sPhase = "ready" /\ toR = <<Manifest>> /\ toS = <<>>
      BY <1>2, <2>1, <2>2 DEF IInv, Lockstep, ManifestCurrent, DoneIsLast
    <2>4. /\ rInfo' = Manifest
          /\ Manifest.completed_files = state.completed_files
          /\ state.completed_files \in SUBSET File
      BY <1>2, <2>3, CurFileFacts, CurFileType, ManifestType
    <2>5. toR' = <<>> /\ toS' = <<Ready>> /\ Len(toS') = 1 /\ toS'[1] = Ready
      BY <1>2, <2>3
    <2>6. \/ rPhase' = "complete" /\ rFile' = NumFiles /\ CurFile = NumFiles
          \/ rPhase' = "file" /\ rFile' \in File /\ rFile' = CurFile
      <3>1. Head(toR) = Manifest
        BY <2>3
      <3>2. \/ /\ rPhase' = "complete"
               /\ rFile' = NumFiles
               /\ \A f \in File : f >= 0 => f \in state.completed_files
            \/ /\ rPhase' = "file"
               /\ rFile' \in File
               /\ rFile' \notin state.completed_files
               /\ \A f \in File : f >= 0 /\ f < rFile' => f \in state.completed_files
        BY <1>2, <2>2, <2>4, <3>1, EnterFileFacts
      <3> QED
        BY <3>2, CurFileFacts, FilesType DEF File
    <2>7. Answered' /\ Base' = 2 /\ SenderSent' = CurFile
      BY <2>1, <2>3, <2>5 DEF Answered, Base, SenderSent
    <2>8. CompletedInOrder' /\ ConnectionsMatch' /\ DoneIsLast'
      BY <1>2, <2>1, <2>3, <2>6
         DEF IInv, Lockstep, CompletedInOrder, ConnectionsMatch, DoneIsLast
    <2>9. ReceiverNotBehind'
      BY <2>1, <2>4, <2>6, CurFileFacts, FilesType DEF ReceiverNotBehind, File
    <2>10. AnswersTruthful'
      BY <2>5, <2>7 DEF AnswersTruthful
    <2>11. NothingLost'
      BY <2>1, <2>5, <2>6, <2>7, CurFileFacts, FilesType
         DEF NothingLost, ReceiverSent, ReceiverRead
    <2>12. ManifestCurrent' /\ StartedOver'
      BY <2>6, <2>7 DEF ManifestCurrent, StartedOver
    <2>13. ReceiverVerified'
      <3>1. \A f \in File : f < CurFile => Delivered(f)'
        BY <1>2, CurFileFacts DEF IInv, CompletedFilesDelivered, Delivered
      <3>2. \A f \in File : f < NumFiles
        BY FilesType DEF File
      <3>3. Len(toR') = 0
        BY <2>5
      <3>4. \A i \in 1 .. Len(toR') : FALSE
        BY <3>3
      <3> QED
        BY <2>6, <3>1, <3>2, <3>4 DEF ReceiverVerified
    <2>14. CompletedFilesDelivered'
      BY <1>2, <2>1 DEF IInv, CompletedFilesDelivered, Delivered
    <2> QED
      BY <2>8, <2>9, <2>10, <2>11, <2>12, <2>13, <2>14 DEF Lockstep
  <1> QED
    BY <1>1, <1>2 DEF AcceptTransfer

LEMMA RejectTransferStep ==
    ASSUME IInv, TypeOK', RejectTransfer, UNCHANGED senderVars
    PROVE  Lockstep' /\ CompletedFilesDelivered'
  <1>0. UNCHANGED final
    BY DEF RejectTransfer
  <1>1. CASE Fatal
    BY <1>0, <1>1, FatalStep
  <1>2. CASE /\ link = "up"
             /\ toR' = Tail(toR)
             /\ toS' = Append(toS, Cancel)
             /\ rRecord' = "interrupted"
             /\ UNCHANGED <<rPhase, rInfo, rFile, rSeen, link, inbox>>
    <2>1. /\ rPhase = "info" /\ toR # <<>> /\ Head(toR).type = "TransferInfo"
          /\ UNCHANGED <<sPhase, state, disk>> /\ CurFile' = CurFile
      BY DEF RejectTransfer, senderVars, CurFile
    <2>2. toR \in Seq(Message)
      BY DEF IInv, TypeOK, TransportTypeOK
    <2>3. sPhase = "ready" /\ toR = <<Manifest>> /\ toS = <<>>
      BY <1>2, <2>1, <2>2 DEF IInv, Lockstep, ManifestCurrent, DoneIsLast
    <2>4. toR' = <<>> /\ toS' = <<Cancel>> /\ toS'[1] # Ready
      BY <1>2, <2>3, MessageTypes
    <2>5. ~ Answered'
      BY <2>1, <2>3, <2>4 DEF Answered
    <2>6. CompletedInOrder' /\ ConnectionsMatch' /\ ReceiverNotBehind' /\ DoneIsLast'
      BY <1>2, <2>1, <2>3
         DEF IInv, Lockstep, CompletedInOrder, ConnectionsMatch, ReceiverNotBehind,
             DoneIsLast
    <2>7. AnswersTruthful' /\ NothingLost' /\ ManifestCurrent' /\ StartedOver'
      BY <1>2, <2>1, <2>3, <2>4, <2>5
         DEF AnswersTruthful, NothingLost, ManifestCurrent, StartedOver
    <2>8. ReceiverVerified' /\ CompletedFilesDelivered'
      BY <1>0, <1>2, <2>1, <2>4
         DEF IInv, Lockstep, ReceiverVerified, CompletedFilesDelivered, Delivered
    <2> QED
      BY <2>6, <2>7, <2>8 DEF Lockstep
  <1> QED
    BY <1>1, <1>2 DEF RejectTransfer

LEMMA RecvChunkStep ==
    ASSUME IInv, TypeOK', RecvChunk, UNCHANGED senderVars
    PROVE  Lockstep' /\ CompletedFilesDelivered'
  <1>1. CASE Fatal /\ UNCHANGED final
    BY <1>1, FatalStep
  <1>2. CASE UNCHANGED <<rPhase, rInfo, rFile, final, rRecord, link, toR, toS>>
    <2>1. /\ UNCHANGED <<sPhase, state, disk>>
          /\ CurFile' = CurFile /\ Manifest' = Manifest /\ Base' = Base
          /\ Answered' = Answered /\ SenderSent' = SenderSent
          /\ ReceiverSent' = ReceiverSent /\ ReceiverRead' = ReceiverRead
      BY <1>2 DEF senderVars, CurFile, Manifest, Base, Answered, SenderSent, ReceiverSent,
                  ReceiverRead
    <2>2. CompletedInOrder' /\ ConnectionsMatch' /\ ReceiverNotBehind' /\ DoneIsLast'
      BY <1>2, <2>1
         DEF IInv, Lockstep, CompletedInOrder, ConnectionsMatch, ReceiverNotBehind,
             DoneIsLast
    <2>3. AnswersTruthful' /\ NothingLost'
      BY <1>2, <2>1 DEF IInv, Lockstep, AnswersTruthful, NothingLost
    <2>4. ManifestCurrent' /\ StartedOver'
      BY <1>2, <2>1 DEF IInv, Lockstep, ManifestCurrent, StartedOver
    <2>5. ReceiverVerified' /\ CompletedFilesDelivered'
      BY <1>2, <2>1 DEF IInv, Lockstep, ReceiverVerified, CompletedFilesDelivered, Delivered
    <2> QED
      BY <2>2, <2>3, <2>4, <2>5 DEF Lockstep
  <1> QED
    BY <1>1, <1>2 DEF RecvChunk

LEMMA FinishFileStep ==
    ASSUME IInv, TypeOK', FinishFile, UNCHANGED senderVars
    PROVE  Lockstep' /\ CompletedFilesDelivered'
  <1>1. /\ rPhase = "file" /\ rFile \in File
        /\ final' = [final EXCEPT ![rFile] = partial[rFile]]
        /\ final \in [File -> (SUBSET Piece) \cup {NoFile}]
    BY StoredFileIsUnconfirmed DEF FinishFile, IInv, TypeOK, ReceiverTypeOK
  <1>2. \A f \in File : f # rFile => final'[f] = final[f]
    BY <1>1
  <1>3. final'[rFile] = partial[rFile]
    BY <1>1
  <1>4. CASE Fatal
    BY <1>1, <1>2, <1>4, FatalStep
  <1>5. CASE /\ link = "up"
             /\ toS' = Append(toS, FileChecksum(rFile, partial[rFile]))
             /\ rPhase' = "sum"
             /\ UNCHANGED <<rInfo, rFile, rSeen, rRecord, link, toR, inbox>>
    <2> DEFINE m == FileChecksum(rFile, final'[rFile])
    <2>1. /\ UNCHANGED <<sPhase, state, disk>>
          /\ CurFile' = CurFile /\ Base' = Base /\ SenderSent' = SenderSent
          /\ ReceiverSent = rFile /\ ReceiverSent' = rFile + 1
          /\ ReceiverRead' = ReceiverRead
      BY <1>1, <1>5 DEF senderVars, CurFile, Base, SenderSent, ReceiverSent, ReceiverRead
    <2>2. toS \in Seq(Message) /\ toS' \in Seq(Message) /\ toS' = Append(toS, m)
      BY <1>3, <1>5 DEF IInv, TypeOK, TransportTypeOK
    <2>3. m.type = "FileChecksum" /\ m # Ready
      BY MessageTypes
    <2> HIDE DEF m
    <2>4. /\ Len(toS') = Len(toS) + 1 /\ Len(toS) \in Nat
          /\ \A i \in 1 .. Len(toS) : toS'[i] = toS[i]
          /\ toS'[Len(toS) + 1] = m
      BY <2>2
    <2>5. Answered' => Answered
      BY <2>1, <2>2, <2>3, <2>4 DEF Answered
    <2>6. CompletedInOrder' /\ ConnectionsMatch' /\ DoneIsLast'
      BY <1>5, <2>1 DEF IInv, Lockstep, CompletedInOrder, ConnectionsMatch, DoneIsLast
    <2>7. ReceiverNotBehind'
      BY <1>1, <1>5, <2>1, CurFileFacts, FilesType
         DEF IInv, Lockstep, ReceiverNotBehind, File
    <2>8. ASSUME Answered
          PROVE  rFile = CurFile + (Len(toS) - (Base - 1)) /\ Base \in {1, 2}
      BY <1>5, <2>1, <2>8 DEF IInv, Lockstep, NothingLost, Base
    <2>9. AnswersTruthful'
      <3> SUFFICES ASSUME Answered, NEW i \in Base .. Len(toS')
                   PROVE  /\ CurFile + (i - Base) \in File
                          /\ toS'[i] = FileChecksum(CurFile + (i - Base), final'[CurFile + (i - Base)])
                          /\ CurFile + (i - Base) <= rFile
        BY <1>5, <2>1, <2>5 DEF AnswersTruthful
      <3>1. CASE i = Len(toS) + 1
        <4>1. CurFile + (i - Base) = rFile
          BY <2>4, <2>8, <3>1, CurFileFacts, FilesType
        <4> QED
          BY <1>1, <2>4, <3>1, <4>1, FilesType DEF m, File
      <3>2. CASE i \in Base .. Len(toS)
        <4> DEFINE f == CurFile + (i - Base)
        <4>1. f \in File /\ toS[i] = FileChecksum(f, final[f]) /\ f < rFile
          BY <1>1, <1>5, <3>2 DEF IInv, Lockstep, AnswersTruthful
        <4>2. i \in 1 .. Len(toS)
          BY <2>4, <2>8, <3>2
        <4> HIDE DEF f
        <4>3. f # rFile /\ f <= rFile
          BY <1>1, <4>1, FilesType DEF File
        <4>4. toS'[i] = FileChecksum(f, final'[f])
          BY <1>2, <2>4, <4>1, <4>2, <4>3
        <4> QED
          BY <4>1, <4>3, <4>4 DEF f
      <3> QED
        BY <2>4, <2>8, <3>1, <3>2
    <2>10. NothingLost'
      BY <1>1, <1>5, <2>1, <2>4, <2>5, <2>8, CurFileFacts, FilesType
         DEF IInv, Lockstep, NothingLost, File
    <2>11. ManifestCurrent'
      BY <1>5 DEF ManifestCurrent
    <2>12. StartedOver'
      <3>1. ~ Answered' => ~ Answered
        BY <2>1, <2>2, <2>4 DEF Answered
      <3> QED
        BY <1>1, <1>5, <2>1, <2>3, <2>4, <3>1 DEF IInv, Lockstep, StartedOver
    <2>13. ReceiverVerified'
      BY <1>1, <1>2, <1>5, FilesType DEF IInv, Lockstep, ReceiverVerified, Delivered, File
    <2>14. CompletedFilesDelivered'
      BY <1>1, <1>2, <2>1, CurFileFacts, CurFileType, StoredFileIsUnconfirmed
         DEF IInv, CompletedFilesDelivered, Delivered
    <2> QED
      BY <2>6, <2>7, <2>9, <2>10, <2>11, <2>12, <2>13, <2>14 DEF Lockstep
  <1> QED
    BY <1>4, <1>5 DEF FinishFile

LEMMA CheckFileStep ==
    ASSUME IInv, TypeOK', CheckFile, UNCHANGED senderVars
    PROVE  Lockstep' /\ CompletedFilesDelivered'
  <1>0. /\ UNCHANGED final
        /\ rPhase = "sum" /\ toR # <<>>
    BY DEF CheckFile
  <1>1. CASE Fatal
    BY <1>0, <1>1, FatalStep
  <1>2. CASE /\ Head(toR).type = "FileChecksum"
             /\ Head(toR).file_index = rFile
             /\ Head(toR).checksum = final[rFile]
             /\ toR' = Tail(toR)
             /\ EnterFile(rFile + 1, rInfo)
             /\ UNCHANGED <<rInfo, rRecord, link, toS, inbox>>
    <2>1. /\ UNCHANGED <<sPhase, state, disk>>
          /\ CurFile' = CurFile /\ Base' = Base /\ SenderSent' = SenderSent
          /\ Answered' = Answered
      BY <1>2 DEF senderVars, CurFile, Base, SenderSent, Answered
    <2>2. /\ toR \in Seq(Message) /\ toS \in Seq(Message) /\ rFile \in File
          /\ rInfo.completed_files \in SUBSET File
          /\ partial \in [File -> (SUBSET Piece) \cup {NoFile}]
      BY <1>0, InfoFields DEF IInv, TypeOK, TransportTypeOK, ReceiverTypeOK
    <2>3. /\ Len(toR') = Len(toR) - 1 /\ Len(toR) \in Nat /\ Len(toR) >= 1
          /\ \A i \in 1 .. Len(toR') : toR'[i] = toR[i + 1]
          /\ Head(toR) = toR[1]
      BY <1>0, <1>2, <2>2
    <2>4. \A f \in rInfo.completed_files : f < rFile
      BY <1>0 DEF IInv, Lockstep, ReceiverNotBehind
    <2>5. \/ rPhase' = "complete" /\ rFile' = NumFiles /\ rFile + 1 = NumFiles
          \/ rPhase' = "file" /\ rFile' = rFile + 1 /\ rFile' \in File
      <3>1. rFile + 1 \in Nat
        BY <2>2, FilesType DEF File
      <3>2. \/ /\ rPhase' = "complete"
               /\ rFile' = NumFiles
               /\ \A f \in File : f >= rFile + 1 => f \in rInfo.completed_files
            \/ /\ rPhase' = "file"
               /\ rFile' \in File
               /\ rFile' >= rFile + 1
               /\ \A f \in File : f >= rFile + 1 /\ f < rFile' => f \in rInfo.completed_files
        BY <1>2, <2>2, <3>1, EnterFileFacts
      <3>3. rFile + 1 \in File => rFile + 1 \notin rInfo.completed_files
        BY <2>2, <2>4, FilesType DEF File
      <3> QED
        BY <2>2, <3>2, <3>3, FilesType DEF File
    <2>6. Delivered(rFile)
      BY <1>2, <2>3 DEF IInv, Lockstep, ReceiverVerified, Delivered
    <2>7. CompletedInOrder' /\ ConnectionsMatch' /\ DoneIsLast'
      BY <1>2, <2>1, <2>3, <2>5
         DEF IInv, Lockstep, CompletedInOrder, ConnectionsMatch, DoneIsLast
    <2>8. CurFile <= rFile + 1
      BY <1>0 DEF IInv, Lockstep, ReceiverNotBehind
    <2>9. ReceiverNotBehind'
      BY <1>2, <2>1, <2>2, <2>4, <2>5, <2>8, FilesType DEF ReceiverNotBehind, File
    <2>10. AnswersTruthful'
      <3> SUFFICES ASSUME Answered, NEW i \in Base .. Len(toS)
                   PROVE  \/ link = "down" /\ toS[i] = Torn
                          \/ /\ CurFile + (i - Base) \in File
                             /\ toS[i] = FileChecksum(CurFile + (i - Base), final[CurFile + (i - Base)])
                             /\ rPhase' = "file" => CurFile + (i - Base) < rFile'
        BY <1>0, <1>2, <2>1, <2>5 DEF AnswersTruthful
      <3>1. \/ link = "down" /\ toS[i] = Torn
            \/ /\ CurFile + (i - Base) \in File
               /\ toS[i] = FileChecksum(CurFile + (i - Base), final[CurFile + (i - Base)])
               /\ CurFile + (i - Base) <= rFile
        BY <1>0 DEF IInv, Lockstep, AnswersTruthful
      <3> QED
        BY <2>2, <2>5, <3>1, FilesType DEF File
    <2>11. NothingLost'
      <3>1. /\ ReceiverSent = rFile + 1 /\ ReceiverRead = rFile
            /\ ReceiverSent' = rFile + 1 /\ ReceiverRead' = rFile + 1
        BY <1>0, <2>5 DEF ReceiverSent, ReceiverRead
      <3> SUFFICES ASSUME link = "up", Answered
                   PROVE  /\ rFile + 1 = CurFile + (Len(toS) - (Base - 1))
                          /\ (rFile + 1) + Len(toR') = SenderSent
                          /\ \A i \in 1 .. Len(toR') : toR'[i].type = "FileChecksum"
        BY <1>2, <2>1, <2>5, <3>1 DEF NothingLost
      <3>2. /\ rFile + 1 = CurFile + (Len(toS) - (Base - 1))
            /\ rFile + Len(toR) = SenderSent
            /\ \A i \in 1 .. Len(toR) : toR[i].type = "FileChecksum"
        BY <3>1 DEF IInv, Lockstep, NothingLost
      <3>3. \A i \in 1 .. Len(toR') : toR'[i].type = "FileChecksum"
        BY <2>3, <3>2
      <3>4. (rFile + 1) + Len(toR') = rFile + Len(toR)
        BY <2>2, <2>3, FilesType DEF File
      <3> QED
        BY <3>2, <3>3, <3>4
    <2>12. ManifestCurrent'
      BY <2>5 DEF ManifestCurrent
    <2>13. StartedOver'
      <3> SUFFICES ASSUME link = "up", sPhase \in {"backoff", "send", "ready"}, ~ Answered
                   PROVE  /\ rPhase' \in {"file", "sum"}
                          /\ CurFile \in File
                          /\ \A i \in 1 .. Len(toS) : toS[i].type = "FileChecksum"
                          /\ IF sPhase = "ready"
                             THEN /\ Len(toR') > 0
                                  /\ toR'[Len(toR')].type = "TransferInfo"
                                  /\ rFile' + (Len(toR') - 1) = CurFile
                             ELSE rFile' + Len(toR') = CurFile
        BY <1>2, <2>1 DEF StartedOver
      <3>1. /\ CurFile \in File
            /\ \A i \in 1 .. Len(toS) : toS[i].type = "FileChecksum"
            /\ IF sPhase = "ready"
               THEN /\ toR[Len(toR)].type = "TransferInfo"
                    /\ rFile + (Len(toR) - 1) = CurFile
               ELSE rFile + Len(toR) = CurFile
        BY <1>0 DEF IInv, Lockstep, StartedOver
      <3>2. CASE sPhase = "ready"
        <4>1. Len(toR) # 1
          BY <1>2, <2>3, <3>1, <3>2
        <4>2. Len(toR') \in 1 .. Len(toR') /\ Len(toR') + 1 = Len(toR)
          BY <2>3, <4>1
        <4>3. toR'[Len(toR')] = toR[Len(toR)]
          BY <2>3, <4>2
        <4>4. rFile + 1 <= CurFile
          BY <2>2, <2>3, <3>1, <3>2, <4>1, FilesType DEF File
        <4>5. rPhase' = "file" /\ rFile' = rFile + 1
          BY <2>2, <2>5, <3>1, <4>4, FilesType DEF File
        <4> QED
          BY <2>2, <2>3, <3>1, <3>2, <4>2, <4>3, <4>5, FilesType DEF File
      <3>3. CASE sPhase # "ready"
        <4>1. rFile + 1 <= CurFile
          BY <2>2, <2>3, <3>1, <3>3, FilesType DEF File
        <4>2. rPhase' = "file" /\ rFile' = rFile + 1
          BY <2>2, <2>5, <3>1, <4>1, FilesType DEF File
        <4>3. rFile + Len(toR) = CurFile
          BY <3>1, <3>3
        <4>4. rFile' + Len(toR') = CurFile
          BY <2>2, <2>3, <4>2, <4>3, FilesType DEF File
        <4> QED
          BY <3>1, <3>3, <4>2, <4>4
      <3> QED
        BY <3>2, <3>3
    <2>14. ReceiverVerified'
      <3>1. \A f \in File : f < rFile + 1 => Delivered(f)'
        BY <1>0, <2>2, <2>6, FilesType DEF IInv, Lockstep, ReceiverVerified, Delivered, File
      <3>2. \A f \in File : f < NumFiles
        BY FilesType DEF File
      <3>3. \A i \in 1 .. Len(toR') :
              toR'[i].type = "FileChecksum" => toR'[i].checksum = Source(toR'[i].file_index)
        BY <2>3 DEF IInv, Lockstep, ReceiverVerified
      <3> QED
        BY <2>5, <3>1, <3>2, <3>3 DEF ReceiverVerified
    <2>15. CompletedFilesDelivered'
      BY <1>0, <2>1 DEF IInv, CompletedFilesDelivered, Delivered
    <2> QED
      BY <2>7, <2>9, <2>10, <2>11, <2>12, <2>13, <2>14, <2>15 DEF Lockstep
  <1> QED
    BY <1>1, <1>2 DEF CheckFile

\* The receiver only gets past the last file on a live connection when the
\* sender is done.
LEMMA RecvCompleteStep ==
    ASSUME IInv, TypeOK', RecvComplete, UNCHANGED senderVars
    PROVE  Lockstep' /\ CompletedFilesDelivered'
  <1>0. UNCHANGED final /\ rPhase = "complete" /\ toR # <<>>
    BY DEF RecvComplete
  <1>1. CASE Fatal
    BY <1>0, <1>1, FatalStep
  <1>2. CASE /\ toR' = Tail(toR)
             /\ rPhase' = "info"
             /\ rRecord' = "completed"
             /\ UNCHANGED <<rInfo, rFile, rSeen, link, toS, inbox>>
    <2>1. /\ UNCHANGED <<sPhase, state, disk>>
          /\ CurFile' = CurFile /\ Base' = Base /\ Answered' = Answered
      BY <1>2 DEF senderVars, CurFile, Base, Answered
    <2>2. toR \in Seq(Message) /\ toS \in Seq(Message)
      BY DEF IInv, TypeOK, TransportTypeOK
    <2>3. /\ Len(toR) \in Nat /\ Len(toR) > 0 /\ Len(toR') = Len(toR) - 1
          /\ \A i \in 1 .. Len(toR') : toR'[i] = toR[i + 1]
      BY <1>0, <1>2, <2>2
    <2>4. link = "up" => sPhase = "done"
      <3> SUFFICES ASSUME link = "up" PROVE sPhase = "done"
        OBVIOUS
      <3>1. ~ Answered
        <4> SUFFICES ASSUME Answered PROVE FALSE
          OBVIOUS
        <4>1. NumFiles + Len(toR) = SenderSent
          BY <1>0 DEF IInv, Lockstep, NothingLost, ReceiverRead
        <4>2. SenderSent <= NumFiles
          BY CurFileFacts, FilesType DEF SenderSent, IInv, TypeOK, SenderTypeOK, File
        <4> QED
          BY <2>3, <4>1, <4>2, FilesType
      <3>2. sPhase \notin {"backoff", "send", "ready"}
        BY <1>0, <3>1 DEF IInv, Lockstep, StartedOver
      <3> QED
        BY <3>1, <3>2
           DEF Answered, IInv, TypeOK, SenderTypeOK, SPhases, Lockstep, ConnectionsMatch
    <2>5. CompletedInOrder' /\ ConnectionsMatch' /\ ReceiverNotBehind' /\ DoneIsLast'
      BY <1>2, <2>1, <2>3
         DEF IInv, Lockstep, CompletedInOrder, ConnectionsMatch, ReceiverNotBehind,
             DoneIsLast
    <2>6. AnswersTruthful'
      BY <1>0, <1>2, <2>1 DEF IInv, Lockstep, AnswersTruthful
    <2>7. NothingLost' /\ ManifestCurrent' /\ StartedOver'
      BY <1>2, <2>1, <2>4 DEF NothingLost, ManifestCurrent, StartedOver, Answered
    <2>8. ReceiverVerified'
      BY <1>2, <2>3 DEF IInv, Lockstep, ReceiverVerified
    <2>9. CompletedFilesDelivered'
      BY <1>0, <2>1 DEF IInv, CompletedFilesDelivered, Delivered
    <2> QED
      BY <2>5, <2>6, <2>7, <2>8, <2>9 DEF Lockstep
  <1> QED
    BY <1>1, <1>2 DEF RecvComplete

\* Losses the receiver notices, and its being killed or restarted.
LEMMA ReceiverLossStep ==
    ASSUME IInv, TypeOK', ReceiverSeesLoss \/ ReceiverKilled \/ ReceiverRestart,
           UNCHANGED senderVars
    PROVE  Lockstep' /\ CompletedFilesDelivered'
  <1>1. CASE ReceiverSeesLoss
    BY <1>1, LossStep DEF ReceiverSeesLoss
  <1>2. CASE ReceiverKilled
    <2>1. TypeOK
      BY DEF IInv
    <2> QED
      BY <1>2, <2>1, ReceiverGoneFacts, LossStep DEF ReceiverKilled
  <1>3. CASE ReceiverRestart
    <2>1. link = "down"
      BY <1>3 DEF ReceiverRestart, IInv, Lockstep, ConnectionsMatch
    <2> QED
      BY <1>3, <2>1, LossStep DEF ReceiverRestart, transportVars
  <1> QED
    BY <1>1, <1>2, <1>3

-----------------------------------------------------------------------------
(* The theorems. *)

LEMMA InitIInv ==
    ASSUME Init
    PROVE  IInv
  <1>1. TypeOK
    BY InitTypes
  <1>2. /\ link = "down" /\ toR = <<>> /\ sPhase = "connect" /\ rPhase = "listen"
        /\ state.completed_files = {} /\ disk = NoState
    BY DEF Init, TransportInit, SenderInit, ReceiverInit, FreshState
  <1>3. \A i \in 1 .. Len(toR) : FALSE
    BY <1>2
  <1>4. Lockstep
    BY <1>2, <1>3
       DEF Lockstep, CompletedInOrder, Closed, ConnectionsMatch, ReceiverNotBehind,
           AnswersTruthful, Answered, NothingLost, ManifestCurrent, StartedOver,
           DoneIsLast, ReceiverVerified
  <1> QED
    BY <1>1, <1>2, <1>4 DEF IInv, CompletedFilesDelivered

LEMMA NextIInv ==
    ASSUME IInv, Next
    PROVE  IInv'
  <1>0. TypeOK /\ TypeOK'
    BY NextTypes DEF IInv
  <1> SUFFICES Lockstep' /\ CompletedFilesDelivered'
    BY <1>0 DEF IInv
  <1>1. CASE SenderStep
    <2> UNCHANGED receiverVars
      BY <1>1 DEF SenderStep
    <2>1. CASE SendTransferInfo
      BY <1>0, <2>1, SendTransferInfoStep
    <2>2. CASE RecvReady
      BY <1>0, <2>2, RecvReadyStep
    <2>3. CASE LostBeforeReady
      BY <1>0, <2>3, GiveUpStep DEF LostBeforeReady
    <2>4. CASE SendChunkStream \/ ChunkAcknowledged
      BY <1>0, <2>4, SendFileStep
    <2>5. CASE SendFileChecksum
      BY <1>0, <2>5, SendFileChecksumStep
    <2>6. CASE RecvFileChecksum
      BY <1>0, <2>6, RecvFileChecksumStep
    <2>7. CASE SendComplete
      BY <1>0, <2>7, SendCompleteStep
    <2>8. CASE SenderIoError
      BY <1>0, <2>8, RecoverableStep DEF SenderIoError
    <2>9. CASE SenderExit
      BY <1>0, <2>9, SenderGoneFacts, SenderEndsStep DEF SenderExit, senderVars
    <2> QED
      BY <1>1, <2>1, <2>2, <2>3, <2>4, <2>5, <2>6, <2>7, <2>8, <2>9 DEF SenderStep
  <1>2. CASE ReceiverStep
    <2> UNCHANGED senderVars
      BY <1>2 DEF ReceiverStep
    <2>1. CASE AcceptTransfer
      BY <1>0, <2>1, AcceptTransferStep
    <2>2. CASE BadManifest
      BY <1>0, <2>2, FatalStep DEF BadManifest
    <2>3. CASE RecvChunk
      BY <1>0, <2>3, RecvChunkStep
    <2>4. CASE FinishFile
      BY <1>0, <2>4, FinishFileStep
    <2>5. CASE CheckFile
      BY <1>0, <2>5, CheckFileStep
    <2>6. CASE RecvComplete
      BY <1>0, <2>6, RecvCompleteStep
    <2>7. CASE ReceiverSeesLoss
      BY <1>0, <2>7, ReceiverLossStep
    <2> QED
      BY <1>2, <2>1, <2>2, <2>3, <2>4, <2>5, <2>6, <2>7 DEF ReceiverStep
  <1>3. CASE Connect
    BY <1>0, <1>3, ConnectStep
  <1>4. CASE ConnectTimeout \/ ConnectLost
    BY <1>0, <1>4, NoConnectionStep DEF ConnectTimeout, ConnectLost
  <1>5. CASE ConnectionLost
    BY <1>0, <1>5, ReceiverGoneFacts, LossStep DEF ConnectionLost, receiverVars
  <1>6. CASE Interrupt
    BY <1>0, <1>6, SenderGoneFacts, SenderEndsStep DEF Interrupt, SenderKilled
  <1>7. CASE Crash
    BY <1>0, <1>7, ReceiverLossStep DEF Crash
  <1>8. CASE SourceFault
    BY <1>0, <1>8, RecoverableStep DEF SourceFault, SourceError
  <1>9. CASE Decline
    BY <1>0, <1>9, RejectTransferStep DEF Decline
  <1>10. CASE Rerun
    BY <1>0, <1>10, StartStep DEF Rerun
  <1>11. CASE Restart
    BY <1>0, <1>11, ReceiverLossStep DEF Restart
  <1> QED
    BY <1>1, <1>2, <1>3, <1>4, <1>5, <1>6, <1>7, <1>8, <1>9, <1>10, <1>11 DEF Next

LEMMA StutterIInv ==
    ASSUME IInv, UNCHANGED vars
    PROVE  IInv'
  <1>1. TypeOK'
    BY StutterTypes DEF IInv
  <1>2. /\ CurFile' = CurFile /\ Base' = Base /\ Answered' = Answered
        /\ SenderSent' = SenderSent /\ ReceiverSent' = ReceiverSent
        /\ ReceiverRead' = ReceiverRead /\ Manifest' = Manifest
    BY DEF vars, transportVars, senderVars, receiverVars, CurFile, Base, Answered,
           SenderSent, ReceiverSent, ReceiverRead, Manifest
  <1>3. CompletedInOrder' /\ ConnectionsMatch' /\ ReceiverNotBehind' /\ DoneIsLast'
    BY <1>2 DEF vars, transportVars, senderVars, receiverVars, IInv, Lockstep,
                CompletedInOrder, ConnectionsMatch, ReceiverNotBehind, DoneIsLast
  <1>4. AnswersTruthful' /\ NothingLost' /\ ManifestCurrent' /\ StartedOver'
    BY <1>2 DEF vars, transportVars, senderVars, receiverVars, IInv, Lockstep,
                AnswersTruthful, NothingLost, ManifestCurrent, StartedOver
  <1>5. ReceiverVerified' /\ CompletedFilesDelivered'
    BY DEF vars, transportVars, senderVars, receiverVars, IInv, Lockstep,
           ReceiverVerified, CompletedFilesDelivered, Delivered
  <1> QED
    BY <1>1, <1>3, <1>4, <1>5 DEF IInv, Lockstep

\* The inductive invariant: the two ends move through the files in lockstep,
\* whatever is lost, killed, retried or resumed.
THEOREM Invariance == Spec => []IInv
  <1>1. Init => IInv
    BY InitIInv
  <1>2. IInv /\ [Next]_vars => IInv'
    BY NextIInv, StutterIInv
  <1> QED
    BY <1>1, <1>2, PTL DEF Spec

\* The sender's and the receiver's positions, and the messages between them,
\* always fit together as Lockstep says.
THEOREM LockstepCorrect == Spec => []Lockstep
  <1>1. IInv => Lockstep
    BY DEF IInv
  <1> QED
    BY <1>1, Invariance, PTL

\* A file the sender counts as complete, in memory or on disk, is delivered:
\* neither send() nor receive_folder will ever look at it again.
THEOREM CompletedFilesAreDelivered == Spec => []CompletedFilesDelivered
  <1>1. IInv => CompletedFilesDelivered
    BY DEF IInv
  <1> QED
    BY <1>1, Invariance, PTL

\* send_path returns Ok only when every file is delivered.
THEOREM SuccessMeansDelivery == Spec => []DoneMeansDelivered
  <1>1. IInv => DoneMeansDelivered
    <2> SUFFICES ASSUME IInv, sPhase = "done", NEW f \in File
                 PROVE  Delivered(f)
      BY DEF DoneMeansDelivered
    <2>1. CurFile = NumFiles
      BY DEF IInv, Lockstep, CompletedInOrder
    <2>2. f \in state.completed_files
      BY <2>1, CurFileFacts, FilesType DEF File
    <2> QED
      BY <2>2 DEF IInv, CompletedFilesDelivered
  <1> QED
    BY <1>1, Invariance, PTL

\* The receiver records a transfer as completed only when every file of the
\* manifest is in place, those it skipped on the sender's word included.
THEOREM RecordIsHonest == Spec => CompletedRecordIsHonest
  <1>1. IInv /\ [Next]_vars
        => [rRecord' = "completed" /\ rPhase = "complete" /\ rPhase' = "info"
              => \A f \in File : Delivered(f)]_vars
    BY DEF IInv, Lockstep, ReceiverVerified
  <1> QED
    BY <1>1, Invariance, PTL DEF Spec, CompletedRecordIsHonest

-----------------------------------------------------------------------------
(* FolderTransfer implements FileDelivery. *)

\* A step that neither stores a file nor completes one changes at most the
\* outcome, from running to failed.
LEMMA QuietStep ==
    ASSUME IInv, final' = final, state'.completed_files = state.completed_files,
           \/ sPhase' = sPhase
           \/ SRunning /\ sPhase' # "done"
    PROVE  Delivery!Next \/ UNCHANGED Delivery!deliveryVars
  <1>1. GoodFiles' = GoodFiles
    BY DEF GoodFiles, Delivered
  <1>2. CASE Outcome' = Outcome
    BY <1>1, <1>2 DEF Delivery!deliveryVars
  <1>3. CASE Outcome' # Outcome
    <2>1. Outcome = "running" /\ Outcome' = "failed"
      BY <1>3 DEF Outcome, SRunning
    <2>2. Delivery!Fail
      BY <1>1, <2>1 DEF Delivery!Fail
    <2> QED
      BY <2>2 DEF Delivery!Next
  <1> QED
    BY <1>2, <1>3

LEMMA SenderRefines ==
    ASSUME IInv, SenderStep \/ SourceFault \/ Interrupt
    PROVE  Delivery!Next \/ UNCHANGED Delivery!deliveryVars
  <1>0. final' = final
    BY DEF SenderStep, SourceFault, Interrupt, receiverVars
  <1>1. CASE SendComplete
    <2>1. GoodFiles' = GoodFiles /\ state' = state
      BY <1>0, <1>1 DEF GoodFiles, Delivered, SendComplete
    <2>2. state.completed_files = File
      <3>1. CurFile = NumFiles
        BY <1>1 DEF SendComplete
      <3>2. \A f \in File : f \in state.completed_files
        BY <3>1, CurFileFacts, FilesType DEF File
      <3> QED
        BY <3>2, CurFileFacts, CurFileType
    <2>3. Outcome = "running" /\ Outcome' = "done"
      BY <1>1 DEF Outcome, SRunning, SendComplete
    <2>4. Delivery!Succeed
      BY <2>1, <2>2, <2>3 DEF Delivery!Succeed
    <2> QED
      BY <2>4 DEF Delivery!Next
  <1>2. CASE RecvFileChecksum
    <2>1. CASE GiveUp("verification") \/ GiveUp("protocol")
      BY <1>0, <1>2, <2>1, QuietStep DEF GiveUp, RecvFileChecksum, SRunning
    <2>2. CASE /\ Head(toS).type = "FileChecksum"
               /\ Head(toS).checksum = Source(CurFile)
               /\ mark_file_complete(CurFile)
               /\ sPhase' = "file"
      <3>1. CurFile \in File /\ CurFile \in GoodFiles
        BY <1>2, <2>2, ChecksumIsTruthful DEF GoodFiles, Delivered, RecvFileChecksum
      <3>2. state'.completed_files = state.completed_files \cup {CurFile}
        BY <2>2, CurFileFacts DEF mark_file_complete, TransferState
      <3>3. Outcome = "running" /\ Outcome' = "running" /\ GoodFiles' = GoodFiles
        BY <1>0, <1>2, <2>2 DEF Outcome, SRunning, RecvFileChecksum, GoodFiles, Delivered
      <3>4. Delivery!Confirm(CurFile)
        BY <3>1, <3>2, <3>3 DEF Delivery!Confirm
      <3> QED
        BY <3>1, <3>4 DEF Delivery!Next
    <2> QED
      BY <1>2, <2>1, <2>2 DEF RecvFileChecksum
  <1>3. CASE ~ SendComplete /\ ~ RecvFileChecksum
    <2>1. state'.completed_files = state.completed_files
      <3>1. CASE ChunkAcknowledged
        BY <3>1, CurFileFacts DEF ChunkAcknowledged, mark_chunk_complete, TransferState
      <3>2. CASE state' = state
        BY <3>2
      <3> QED
        BY <1>3, <3>1, <3>2
           DEF SenderStep, SourceFault, Interrupt, SendTransferInfo, RecvReady,
               LostBeforeReady, SendChunkStream, SendFileChecksum, SenderIoError,
               SenderExit, SourceError, SenderKilled, Recoverable, GiveUp, senderVars
    <2>2. \/ sPhase' = sPhase
          \/ SRunning /\ sPhase' # "done"
      BY <1>3
         DEF SenderStep, SourceFault, Interrupt, SendTransferInfo, RecvReady, SRunning,
             LostBeforeReady, SendChunkStream, ChunkAcknowledged, SendFileChecksum,
             SenderIoError, SenderExit, SourceError, SenderKilled, Recoverable, GiveUp,
             senderVars
    <2> QED
      BY <1>0, <2>1, <2>2, QuietStep
  <1> QED
    BY <1>1, <1>2, <1>3

LEMMA ReceiverRefines ==
    ASSUME IInv, ReceiverStep \/ Crash \/ Decline \/ Restart
    PROVE  Delivery!Next \/ UNCHANGED Delivery!deliveryVars
  <1>0. state' = state /\ sPhase' = sPhase
    BY DEF ReceiverStep, Crash, Decline, Restart, senderVars
  <1>1. CASE FinishFile
    <2>1. /\ rFile \in File /\ rFile \notin state.completed_files
          /\ final' = [final EXCEPT ![rFile] = partial[rFile]]
          /\ final \in [File -> (SUBSET Piece) \cup {NoFile}]
      BY <1>1, StoredFileIsUnconfirmed DEF FinishFile, IInv, TypeOK, ReceiverTypeOK
    <2>2. \A f \in File : f # rFile => (f \in GoodFiles' <=> f \in GoodFiles)
      BY <2>1 DEF GoodFiles, Delivered
    <2>3. GoodFiles \subseteq File /\ GoodFiles' \subseteq File
      BY DEF GoodFiles
    <2>4. GoodFiles' \in {GoodFiles \cup {rFile}, GoodFiles \ {rFile}}
      BY <2>1, <2>2, <2>3
    <2>5. Outcome' = Outcome
      BY <1>0 DEF Outcome, SRunning
    <2>6. Delivery!Store(rFile)
      BY <1>0, <2>1, <2>4, <2>5 DEF Delivery!Store
    <2> QED
      BY <2>1, <2>6 DEF Delivery!Next
  <1>2. CASE ~ FinishFile
    <2>1. final' = final
      BY <1>2
         DEF ReceiverStep, Crash, Decline, Restart, AcceptTransfer, BadManifest,
             RecvChunk, CheckFile, RecvComplete, ReceiverSeesLoss, ReceiverKilled,
             RejectTransfer, ReceiverRestart
    <2> QED
      BY <1>0, <2>1, QuietStep
  <1> QED
    BY <1>1, <1>2

LEMMA OtherRefines ==
    ASSUME IInv,
           \/ Connect \/ ConnectTimeout \/ ConnectLost \/ ConnectionLost \/ Rerun
    PROVE  Delivery!Next \/ UNCHANGED Delivery!deliveryVars
  <1>0. final' = final
    BY DEF Connect, ReceiverConnected, ConnectTimeout, ConnectLost, HandshakeBroken,
           ConnectionLost, Rerun, receiverVars
  <1>1. CASE Rerun
    <2>1. GoodFiles' = GoodFiles
      BY <1>0 DEF GoodFiles, Delivered
    <2>2. Outcome = "failed" /\ Outcome' = "running"
      BY <1>1 DEF Rerun, StartResume, StartSend, Outcome, SRunning
    <2>3. state'.completed_files \subseteq state.completed_files
      BY <1>1, CurFileFacts DEF Rerun, StartResume, StartSend, FreshState
    <2>4. Delivery!Retry
      BY <2>1, <2>2, <2>3 DEF Delivery!Retry
    <2> QED
      BY <2>4 DEF Delivery!Next
  <1>2. CASE ~ Rerun
    <2>1. state' = state
      BY <1>2 DEF Connect, SenderConnected, ConnectTimeout, ConnectLost, ConnectFails,
                  ReconnectFails, ConnectionLost, senderVars
    <2>2. \/ sPhase' = sPhase
          \/ SRunning /\ sPhase' # "done"
      BY <1>2 DEF Connect, SenderConnected, ConnectTimeout, ConnectLost, ConnectFails,
                  ReconnectFails, ConnectionLost, senderVars, SRunning
    <2> QED
      BY <1>0, <2>1, <2>2, QuietStep
  <1> QED
    BY <1>1, <1>2

\* The whole transfer, with its losses, kills, retries and resumptions, keeps
\* the promise stated in FileDelivery.
THEOREM TransferImplementsDelivery == Spec => ImplementsDelivery
  <1>1. Init => Delivery!Init
    <2> SUFFICES ASSUME Init PROVE Delivery!Init
      OBVIOUS
    <2>1. GoodFiles = {}
      BY SourceType, TransportAssumption DEF Init, ReceiverInit, GoodFiles, Delivered
    <2>2. state.completed_files = {} /\ Outcome = "running"
      BY DEF Init, SenderInit, FreshState, Outcome, SRunning
    <2> QED
      BY <2>1, <2>2 DEF Delivery!Init
  <1>2. IInv /\ [Next]_vars => [Delivery!Next]_Delivery!deliveryVars
    <2> SUFFICES ASSUME IInv, [Next]_vars
                 PROVE  Delivery!Next \/ UNCHANGED Delivery!deliveryVars
      OBVIOUS
    <2>1. CASE UNCHANGED vars
      BY <2>1 DEF vars, senderVars, receiverVars, Delivery!deliveryVars, GoodFiles,
                  Delivered, Outcome, SRunning
    <2>2. CASE SenderStep \/ SourceFault \/ Interrupt
      BY <2>2, SenderRefines
    <2>3. CASE ReceiverStep \/ Crash \/ Decline \/ Restart
      BY <2>3, ReceiverRefines
    <2>4. CASE \/ Connect \/ ConnectTimeout \/ ConnectLost \/ ConnectionLost \/ Rerun
      BY <2>4, OtherRefines
    <2> QED
      BY <2>1, <2>2, <2>3, <2>4 DEF Next
  <1> QED
    BY <1>1, <1>2, Invariance, PTL DEF Spec, ImplementsDelivery, Delivery!Spec

-----------------------------------------------------------------------------
(***************************************************************************)
(* Chunk streams reach the file they belong to, and the receiver waits for *)
(* as many of them as the sender opens: NoForeignPieces and                *)
(* StreamCountsAgree are invariants of FolderTransfer.                     *)
(***************************************************************************)

\* The file whose chunk streams the receiver reads now, or reads next: between
\* two files the sender may be ahead, with streams of the next one in flight.
StreamFile == IF rPhase = "file" THEN rFile ELSE rFile + 1

\* Chunks of that file that the receiver has seen.
StreamSeen == IF rPhase = "file" THEN rSeen ELSE {}

\* Streams the receiver waits for in all, on file g (see StreamsToReceive).
Announced(g) ==
    LET have == IF rInfo.file_index = g THEN rInfo.completed_chunks ELSE 0
    IN  IF have >= ChunkCount[g] THEN 0 ELSE ChunkCount[g] - have

\* Chunks of g whose stream the sender has not opened yet.
Unsent(g) == {k \in Chunk(g) \ state.file_chunks[g] : <<k, g>> \notin Unacked}

\* Every stream in flight is one of the file the receiver reads (next).
StreamsOwned ==
    /\ rPhase \in {"file", "sum"} => \A p \in inbox : p[2] = StreamFile
    /\ rPhase \in {"info", "complete"} => inbox = {}

\* No chunk of a file is sent before the files in front of it are complete.
Untouched(s) == \A f \in File : f > next_file(s) => s.file_chunks[f] = {}

FutureUntouched ==
    /\ Untouched(state)
    /\ disk # NoState => Untouched(disk)

\* The manifest claims chunks of no file behind the one being received.
ClaimsBehind ==
    rPhase \in {"file", "sum"} =>
        rInfo.file_index <= rFile \/ rInfo.file_index = NumFiles

\* While the connection lives, the streams of a file are those the receiver has
\* seen, those in flight and those to come; no chunk is among two of these, and
\* together they are as many as the receiver was told.
StreamsAccounted ==
    link = "up" /\ rPhase \in {"file", "sum"} /\ StreamFile \in File =>
        /\ StreamSeen \subseteq Chunk(StreamFile)
        /\ \A k \in StreamSeen : <<k, StreamFile>> \notin inbox /\ k \notin Unsent(StreamFile)
        /\ \A k \in Unsent(StreamFile) : <<k, StreamFile>> \notin inbox
        /\ Cardinality(StreamSeen) + Cardinality(inbox) + Cardinality(Unsent(StreamFile))
             = Announced(StreamFile)

\* A file the receiver has finalized before the sender read its checksum has
\* been sent.
FinalizedIsSent ==
    link = "up" /\ rPhase = "sum" /\ CurFile <= rFile => Unsent(rFile) = {}

StreamInv ==
    /\ StreamsOwned
    /\ FutureUntouched
    /\ ClaimsBehind
    /\ StreamsAccounted
    /\ FinalizedIsSent
    /\ NoForeignPieces
-----------------------------------------------------------------------------
(* Sets of chunks and streams are finite. *)

LEMMA ChunksFinite ==
    ASSUME NEW g \in File
    PROVE  /\ IsFiniteSet(Chunk(g))
           /\ Cardinality(Chunk(g)) = ChunkCount[g]
           /\ \A S \in SUBSET Chunk(g) : IsFiniteSet(S) /\ Cardinality(S) \in Nat
  <1>1. ChunkCount[g] \in Nat
    BY FilesType
  <1>2. IsFiniteSet(Chunk(g)) /\ Cardinality(Chunk(g)) = ChunkCount[g]
    <2> DEFINE b == ChunkCount[g] - 1
    <2>1. 0 \in Int /\ b \in Int /\ (IF 0 > b THEN 0 ELSE b - 0 + 1) = ChunkCount[g]
      BY <1>1
    <2>2. Chunk(g) = 0 .. b
      BY DEF Chunk
    <2> HIDE DEF b
    <2> QED
      BY <2>1, <2>2, FS_Interval
  <1> QED
    BY <1>2, FS_Subset, FS_CardinalityType

LEMMA RestOfSubset ==
    ASSUME NEW S, IsFiniteSet(S), NEW T \in SUBSET S
    PROVE  /\ Cardinality(S \ T) = Cardinality(S) - Cardinality(T)
           /\ Cardinality(T) <= Cardinality(S)
  <1>1. S \cap T = T
    OBVIOUS
  <1>2. Cardinality(S \ T) = Cardinality(S) - Cardinality(S \cap T)
    BY FS_Difference
  <1> QED
    BY <1>1, <1>2, FS_Subset

LEMMA UnsentFinite ==
    ASSUME NEW g \in File
    PROVE  /\ Unsent(g) \in SUBSET Chunk(g)
           /\ IsFiniteSet(Unsent(g))
           /\ Cardinality(Unsent(g)) \in Nat
  BY ChunksFinite DEF Unsent

\* What is in flight are streams of StreamFile.
LEMMA StreamsFinite ==
    ASSUME TypeOK, StreamsOwned, rPhase \in {"file", "sum"}
    PROVE  /\ StreamFile \notin File => inbox = {}
           /\ StreamFile \in File =>
                 /\ \A p \in inbox : p[1] \in Chunk(StreamFile) /\ p = <<p[1], StreamFile>>
                 /\ IsFiniteSet(inbox)
                 /\ Cardinality(inbox) \in Nat
  <1>1. ASSUME NEW p \in inbox
        PROVE  /\ StreamFile \in File
               /\ p[1] \in Chunk(StreamFile)
               /\ p = <<p[1], StreamFile>>
    <2>1. PICK f \in File : \E k \in Chunk(f) : p = <<k, f>>
      BY <1>1 DEF TypeOK, TransportTypeOK, Piece
    <2>2. p[2] = StreamFile
      BY DEF StreamsOwned
    <2> QED
      BY <2>1, <2>2
  <1>2. ASSUME StreamFile \in File
        PROVE  IsFiniteSet(inbox) /\ Cardinality(inbox) \in Nat
    <2>1. inbox \in SUBSET (Chunk(StreamFile) \X {StreamFile})
      <3>1. \A p \in inbox : p \in Chunk(StreamFile) \X {StreamFile}
        BY <1>1
      <3> QED
        BY <3>1
    <2>2. IsFiniteSet(Chunk(StreamFile) \X {StreamFile})
      BY <1>2, ChunksFinite, FS_Singleton, FS_Product
    <2> QED
      BY <2>1, <2>2, FS_Subset, FS_CardinalityType
  <1> QED
    BY <1>1, <1>2

-----------------------------------------------------------------------------
(* Steps of the sender. *)

\* The step leaves the receiver alone and opens no stream.
LEMMA NoStreamStep ==
    ASSUME TypeOK, StreamInv, FutureUntouched', UNCHANGED receiverVars,
           inbox' \subseteq inbox,
           link' = "up" => /\ link = "up"
                           /\ inbox' = inbox
                           /\ CurFile \in Nat /\ CurFile' \in Nat /\ CurFile <= CurFile'
                           /\ \A g \in File : Unsent(g)' = Unsent(g)
    PROVE  StreamInv'
  <1> USE DEF receiverVars
  <1>1. /\ StreamFile' = StreamFile
        /\ StreamSeen' = StreamSeen
        /\ \A g : Announced(g)' = Announced(g)
    BY DEF StreamFile, StreamSeen, Announced
  <1>2. StreamsOwned' /\ ClaimsBehind' /\ NoForeignPieces'
    BY <1>1 DEF StreamInv, StreamsOwned, ClaimsBehind, NoForeignPieces
  <1>3. StreamsAccounted'
    <2> SUFFICES ASSUME link' = "up", rPhase' \in {"file", "sum"}, StreamFile' \in File
                 PROVE  StreamsAccounted'
      BY DEF StreamsAccounted
    <2>1. Unsent(StreamFile)' = Unsent(StreamFile)
      BY <1>1 DEF Unsent
    <2> QED
      BY <1>1, <2>1 DEF StreamInv, StreamsAccounted
  <1>4. FinalizedIsSent'
    <2> SUFFICES ASSUME link' = "up", rPhase = "sum", CurFile' <= rFile
                 PROVE  Unsent(rFile)' = {}
      BY DEF FinalizedIsSent
    <2>1. rFile \in File
      BY DEF TypeOK, ReceiverTypeOK
    <2>2. CurFile <= rFile
      BY <2>1, FilesType DEF File
    <2>3. Unsent(rFile)' = Unsent(rFile)
      BY <2>1 DEF Unsent
    <2> QED
      BY <2>2, <2>3 DEF StreamInv, FinalizedIsSent
  <1> QED
    BY <1>2, <1>3, <1>4 DEF StreamInv
\* The sender works on, on a connection that is up, without a stream on its way.
LEMMA UnsentKept ==
    ASSUME state'.file_chunks = state.file_chunks, Unacked = {}, Unacked' = {}
    PROVE  \A g \in File : Unsent(g)' = Unsent(g)
  BY DEF Unsent

\* The resume state is kept, and written to the state file or not.
LEMMA SavedUntouched ==
    ASSUME FutureUntouched, state' = state, disk' \in {state, disk, NoState}
    PROVE  FutureUntouched'
  BY DEF FutureUntouched

\* send_path gives up, or the process ends.
LEMMA SenderEndsStreams ==
    ASSUME TypeOK, StreamInv, NEW u, SenderGone(u), state' = state,
           disk' \in {state, disk, NoState}, UNCHANGED receiverVars
    PROVE  StreamInv'
  <1>1. FutureUntouched'
    BY SavedUntouched DEF StreamInv
  <1> QED
    BY <1>1, NoStreamStep DEF SenderGone

\* A recoverable error: no stream is on its way while the connection is up.
LEMMA RecoverableStreams ==
    ASSUME TypeOK, StreamInv, Recoverable, link = "up" => sPhase # "stream",
           UNCHANGED receiverVars
    PROVE  StreamInv'
  <1>1. CASE GiveUp("exhausted")
    BY <1>1, SenderEndsStreams DEF GiveUp, save_to_file
  <1>2. CASE /\ sPhase' = "backoff"
             /\ save_to_file
             /\ UNCHANGED <<sError, state, attempt, transportVars>>
    <2>1. FutureUntouched'
      BY <1>2, SavedUntouched DEF StreamInv, save_to_file
    <2>2. CurFile' = CurFile /\ CurFile \in Nat
      BY <1>2, CurFileType, FilesType DEF CurFile, TypeOK, SenderTypeOK
    <2>3. link = "up" => \A g \in File : Unsent(g)' = Unsent(g)
      BY <1>2, UnsentKept DEF Unacked
    <2> QED
      BY <1>2, <2>1, <2>2, <2>3, NoStreamStep DEF transportVars
  <1> QED
    BY <1>1, <1>2 DEF Recoverable

\* The sender reads or writes a control message, or a reconnect fails.
LEMMA ControlStreams ==
    ASSUME TypeOK, StreamInv, UNCHANGED <<receiverVars, state, link, inbox>>,
           disk' \in {disk, NoState}, sPhase # "stream", sPhase' # "stream"
    PROVE  StreamInv'
  <1>1. FutureUntouched'
    BY SavedUntouched DEF StreamInv
  <1>2. CurFile' = CurFile /\ CurFile \in Nat
    BY CurFileType, FilesType DEF CurFile, TypeOK, SenderTypeOK
  <1>3. \A g \in File : Unsent(g)' = Unsent(g)
    BY UnsentKept DEF Unacked
  <1> QED
    BY <1>1, <1>2, <1>3, NoStreamStep

\* The chunk whose stream is acknowledged was already counted as sent.
LEMMA ChunkAcknowledgedStreams ==
    ASSUME IInv, StreamInv, ChunkAcknowledged, UNCHANGED receiverVars
    PROVE  StreamInv'
  <1>0. state \in TransferState /\ CurFile \in File /\ Pending # {} /\ sPhase = "stream"
    BY DEF IInv, TypeOK, SenderTypeOK, ChunkAcknowledged
  <1>1. /\ state'.completed_files = state.completed_files
        /\ state'.file_chunks =
              [state.file_chunks EXCEPT ![CurFile] = @ \cup {CurChunk}]
        /\ state.file_chunks \in [File -> SUBSET Nat]
    BY <1>0, CurFileType DEF ChunkAcknowledged, mark_chunk_complete, TransferState
  <1>2. next_file(state') = CurFile /\ CurFile' = CurFile /\ CurFile \in Nat
    BY <1>0, <1>1, CurFileType, FilesType DEF next_file, CurFile
  <1>3. FutureUntouched'
    <2>1. Untouched(state')
      BY <1>1, <1>2, FilesType DEF StreamInv, FutureUntouched, Untouched, CurFile, File
    <2>2. disk' = disk
      BY DEF ChunkAcknowledged
    <2> QED
      BY <2>1, <2>2 DEF StreamInv, FutureUntouched
  <1>4. ASSUME NEW g \in File PROVE Unsent(g)' = Unsent(g)
    <2>1. Unacked = {<<CurChunk, CurFile>>} /\ Unacked' = {}
      BY <1>0 DEF Unacked, ChunkAcknowledged
    <2>2. ASSUME NEW k PROVE k \in Unsent(g)' <=> k \in Unsent(g)
      <3>1. state'.file_chunks[g] =
                IF g = CurFile THEN state.file_chunks[g] \cup {CurChunk}
                ELSE state.file_chunks[g]
        BY <1>1
      <3>2. <<k, g>> \in Unacked <=> k = CurChunk /\ g = CurFile
        BY <2>1
      <3> QED
        BY <2>1, <3>1, <3>2 DEF Unsent
    <2> QED
      BY <2>2
  <1>5. UNCHANGED <<link, inbox>>
    BY DEF ChunkAcknowledged, transportVars
  <1> QED
    BY <1>2, <1>3, <1>4, <1>5, NoStreamStep DEF IInv

\* The receiver's checksum is right: the sender goes on to the next file.
LEMMA RecvFileChecksumStreams ==
    ASSUME IInv, StreamInv, UNCHANGED receiverVars, RecvFileChecksum
    PROVE  StreamInv'
  <1>0. TypeOK /\ state \in TransferState
    BY DEF IInv, TypeOK, SenderTypeOK
  <1>1. ASSUME NEW e, GiveUp(e) PROVE StreamInv'
    BY <1>0, <1>1, SenderEndsStreams DEF GiveUp, save_to_file
  <1>2. CASE /\ mark_file_complete(CurFile)
             /\ sPhase = "sum" /\ sPhase' = "file"
             /\ UNCHANGED <<disk, link, inbox>>
    <2>1. CurFile \in File
      BY <1>0, <1>2 DEF TypeOK, SenderTypeOK
    <2>2. /\ state'.completed_files = state.completed_files \cup {CurFile}
          /\ state'.file_chunks = state.file_chunks
          /\ state.completed_files \in SUBSET File
      BY <1>0, <1>2, CurFileType DEF mark_file_complete, TransferState
    <2>3. next_file(state') = CurFile + 1 /\ CurFile' = CurFile + 1
      <3>1. Closed(state.completed_files) /\ next_file(state) = CurFile
        BY DEF IInv, Lockstep, CompletedInOrder, CurFile
      <3> QED
        BY <2>1, <2>2, <3>1, MarkFileFacts DEF CurFile
    <2>4. CurFile \in Nat
      BY <2>1, FilesType DEF File
    <2>5. FutureUntouched'
      <3>1. Untouched(state')
        BY <2>2, <2>3, <2>4, FilesType
           DEF StreamInv, FutureUntouched, Untouched, CurFile, File
      <3> QED
        BY <1>2, <3>1 DEF StreamInv, FutureUntouched
    <2>6. \A g \in File : Unsent(g)' = Unsent(g)
      BY <1>2, <2>2, UnsentKept DEF Unacked
    <2> QED
      BY <1>0, <1>2, <2>3, <2>4, <2>5, <2>6, NoStreamStep
  <1> QED
    BY <1>1, <1>2 DEF RecvFileChecksum

\* A new process takes up the state file, or starts afresh: there is no
\* connection yet.
LEMMA StartStreams ==
    ASSUME IInv, StreamInv, StartResume \/ StartSend, UNCHANGED receiverVars
    PROVE  StreamInv'
  <1>1. link' = "down" /\ inbox' = inbox
    BY DEF IInv, Lockstep, ConnectionsMatch, StartResume, StartSend, transportVars
  <1>2. FutureUntouched'
    <2>1. CASE StartResume
      BY <2>1 DEF StartResume, StreamInv, FutureUntouched
    <2>2. CASE StartSend
      BY <2>2 DEF StartSend, FutureUntouched, Untouched, FreshState
    <2> QED
      BY <2>1, <2>2
  <1> QED
    BY <1>1, <1>2, NoStreamStep DEF IInv
\* The sender opens streams of the file the receiver reads, or reads next.
LEMMA SenderOnStreamFile ==
    ASSUME IInv, FinalizedIsSent, link = "up", sPhase = "file", CurFile \in File, Pending # {}
    PROVE  rPhase \in {"file", "sum"} /\ StreamFile = CurFile
  <1>1. Answered /\ SenderSent = CurFile
    BY DEF Answered, SenderSent
  <1>2. toR \in Seq(Message) /\ toS \in Seq(Message) /\ Base = 1
    BY DEF IInv, TypeOK, TransportTypeOK, Base
  <1>3. /\ rPhase \in {"file", "sum", "complete"}
        /\ ReceiverSent = CurFile + Len(toS)
        /\ ReceiverRead + Len(toR) = CurFile
    BY <1>1, <1>2, CurFileFacts, FilesType DEF IInv, Lockstep, NothingLost
  <1>4. CurFile \in Nat /\ CurFile < NumFiles /\ NumFiles \in Nat
    BY FilesType DEF File
  <1>5. rPhase \in {"file", "sum"} => rFile \in Nat
    BY FilesType DEF IInv, TypeOK, ReceiverTypeOK, File
  <1>6. Len(toR) \in Nat /\ Len(toS) \in Nat
    BY <1>2
  <1>7. rPhase # "complete"
    BY <1>3, <1>4, <1>6 DEF ReceiverRead
  <1>8. CASE rPhase = "file"
    BY <1>3, <1>4, <1>5, <1>6, <1>8 DEF ReceiverRead, ReceiverSent, StreamFile
  <1>9. CASE rPhase = "sum"
    <2>1. rFile + Len(toR) = CurFile /\ rFile + 1 = CurFile + Len(toS)
      BY <1>3, <1>9 DEF ReceiverRead, ReceiverSent
    <2>2. Unsent(CurFile) = Pending
      BY DEF Unsent, Pending, Unacked
    <2>3. rFile # CurFile
      BY <1>4, <1>9, <2>2 DEF FinalizedIsSent
    <2>4. rFile + 1 = CurFile
      BY <1>4, <1>5, <1>6, <1>9, <2>1, <2>3
    <2> QED
      BY <1>9, <2>4 DEF StreamFile
  <1> QED
    BY <1>3, <1>7, <1>8, <1>9

\* A stream is opened: its chunk goes from the unsent ones to those in flight.
LEMMA SendChunkStreamStreams ==
    ASSUME IInv, StreamInv, SendChunkStream, UNCHANGED receiverVars
    PROVE  StreamInv'
  <1> USE DEF receiverVars
  <1>0. /\ link = "up" /\ link' = "up" /\ sPhase = "file" /\ sPhase' = "stream"
        /\ CurFile \in File /\ Pending # {}
        /\ inbox' = inbox \cup {<<CurChunk, CurFile>>}
        /\ UNCHANGED <<state, disk>>
    BY DEF SendChunkStream
  <1>1. rPhase \in {"file", "sum"} /\ StreamFile = CurFile
    BY <1>0, SenderOnStreamFile DEF StreamInv
  <1>2. /\ StreamFile' = StreamFile /\ StreamSeen' = StreamSeen
        /\ CurFile' = CurFile /\ CurChunk' = CurChunk
        /\ \A g : Announced(g)' = Announced(g)
    BY <1>0 DEF StreamFile, StreamSeen, Announced, CurFile, CurChunk, Pending
  <1>3. CurChunk \in Pending /\ CurChunk \in Chunk(CurFile)
    BY <1>0, CurChunkFacts
  <1>4. Unacked = {} /\ Unacked' = {<<CurChunk, CurFile>>}
    BY <1>0, <1>2 DEF Unacked
  <1>5. /\ CurChunk \in Unsent(CurFile)
        /\ \A g \in File : Unsent(g)' = Unsent(g) \ {k \in {CurChunk} : g = CurFile}
    <2>1. CurChunk \in Unsent(CurFile)
      BY <1>3, <1>4 DEF Unsent, Pending
    <2>2. ASSUME NEW g \in File, NEW k
          PROVE  k \in Unsent(g)' <=> k \in Unsent(g) /\ ~ (k = CurChunk /\ g = CurFile)
      BY <1>0, <1>4 DEF Unsent
    <2> QED
      BY <2>1, <2>2
  <1>6. StreamsOwned' /\ ClaimsBehind' /\ NoForeignPieces' /\ FutureUntouched'
    <2>1. \A p \in inbox' : p[2] = StreamFile
      BY <1>0, <1>1 DEF StreamInv, StreamsOwned
    <2> QED
      BY <1>0, <1>1, <1>2, <2>1
         DEF StreamInv, StreamsOwned, ClaimsBehind, NoForeignPieces, FutureUntouched
  <1>7. FinalizedIsSent'
    <2> SUFFICES ASSUME rPhase = "sum", CurFile' <= rFile
                 PROVE  FALSE
      BY DEF FinalizedIsSent
    <2>1. rFile \in Nat /\ rFile + 1 = CurFile
      BY <1>1, FilesType DEF IInv, TypeOK, ReceiverTypeOK, StreamFile, File
    <2> QED
      BY <1>2, <2>1
  <1>8. StreamsAccounted'
    <2> DEFINE U == Unsent(CurFile)
               x == <<CurChunk, CurFile>>
    <2>1. /\ StreamSeen \subseteq Chunk(CurFile)
          /\ \A k \in StreamSeen : <<k, CurFile>> \notin inbox /\ k \notin U
          /\ \A k \in U : <<k, CurFile>> \notin inbox
          /\ Cardinality(StreamSeen) + Cardinality(inbox) + Cardinality(U) = Announced(CurFile)
      BY <1>0, <1>1 DEF StreamInv, StreamsAccounted
    <2>2. Unsent(CurFile)' = U \ {CurChunk}
      BY <1>0, <1>2, <1>5 DEF Unsent
    <2>3. x \notin inbox /\ CurChunk \in U
      BY <1>5, <2>1
    <2>4. /\ IsFiniteSet(U) /\ Cardinality(U) \in Nat
          /\ IsFiniteSet(inbox) /\ Cardinality(inbox) \in Nat
          /\ Cardinality(StreamSeen) \in Nat
      BY <1>0, <1>1, <2>1, UnsentFinite, StreamsFinite, ChunksFinite DEF IInv, StreamInv
    <2>5. /\ Cardinality(U \ {CurChunk}) = Cardinality(U) - 1
          /\ Cardinality(inbox') = Cardinality(inbox) + 1
      BY <1>0, <2>3, <2>4, FS_AddElement, FS_RemoveElement
    <2>6. \A k \in StreamSeen : <<k, CurFile>> \notin inbox' /\ k \notin U \ {CurChunk}
      BY <1>0, <2>1, <2>3
    <2>7. \A k \in U \ {CurChunk} : <<k, CurFile>> \notin inbox'
      BY <1>0, <2>1
    <2>8. Cardinality(StreamSeen) + Cardinality(inbox') + Cardinality(U \ {CurChunk})
            = Announced(CurFile)
      BY <2>1, <2>4, <2>5
    <2> HIDE DEF U
    <2>9. /\ StreamFile' = CurFile /\ StreamSeen' = StreamSeen
          /\ Unsent(StreamFile)' = U \ {CurChunk}
          /\ Announced(StreamFile)' = Announced(CurFile)
          /\ Chunk(StreamFile)' = Chunk(CurFile)
      <3>1. StreamFile' = CurFile'
        BY <1>1, <1>2
      <3> QED
        BY <1>1, <1>2, <2>2, <3>1 DEF Unsent, Announced, Chunk
    <2> QED
      BY <2>1, <2>6, <2>7, <2>8, <2>9 DEF StreamsAccounted
  <1> QED
    BY <1>6, <1>7, <1>8 DEF StreamInv
-----------------------------------------------------------------------------
(* Steps of the receiver. *)

\* The receiving process ends or goes back to listening.
LEMMA ReceiverLeavesStreams ==
    ASSUME StreamInv, UNCHANGED senderVars, NoForeignPieces',
           rPhase' \in {"dead", "listen"}, link' = "down"
    PROVE  StreamInv'
  BY DEF StreamInv, StreamsOwned, FutureUntouched, ClaimsBehind, StreamsAccounted,
         FinalizedIsSent, senderVars

LEMMA SameFiles ==
    ASSUME NoForeignPieces, UNCHANGED <<partial, final>>
    PROVE  NoForeignPieces'
  BY DEF NoForeignPieces

LEMMA FatalStreams ==
    ASSUME StreamInv, UNCHANGED senderVars, Fatal, UNCHANGED <<partial, final>>
    PROVE  StreamInv'
  BY ReceiverLeavesStreams, SameFiles DEF Fatal, ReceiverGone, StreamInv

\* Opening a file's .partial adds nothing to it.
LEMMA EnterFileContents ==
    ASSUME NoForeignPieces, ReceiverTypeOK, NEW i, NEW info, EnterFile(i, info), final' = final
    PROVE  NoForeignPieces'
  <1>1. \A f \in File : partial'[f] = partial[f] \/ partial'[f] = {}
    BY DEF EnterFile, Opened, ReceiverTypeOK
  <1> QED
    BY <1>1 DEF NoForeignPieces

\* Between transfers nothing is in flight.
LEMMA BetweenTransfersStreams ==
    ASSUME StreamInv, UNCHANGED senderVars, UNCHANGED <<partial, final, rInfo, rFile>>,
           rPhase' = "info", inbox' = {}
    PROVE  StreamInv'
  BY SameFiles
     DEF StreamInv, StreamsOwned, FutureUntouched, ClaimsBehind, StreamsAccounted,
         FinalizedIsSent, senderVars

\* What the sender has still to send is its own business.
LEMMA UnsentOfSender ==
    ASSUME UNCHANGED senderVars
    PROVE  /\ CurFile' = CurFile
           /\ \A g : Unsent(g)' = Unsent(g)
  BY DEF senderVars, CurFile, Unsent, Unacked, CurChunk, Pending

\* The manifest is accepted: all that it does not claim of its first file is
\* still to be sent.
LEMMA AcceptTransferStreams ==
    ASSUME IInv, StreamInv, AcceptTransfer, UNCHANGED senderVars
    PROVE  StreamInv'
  <1>1. CASE Fatal /\ UNCHANGED <<partial, final>>
    BY <1>1, FatalStreams
  <1>2. CASE /\ link = "up"
             /\ rInfo' = Head(toR)
             /\ EnterFile(0, Head(toR))
             /\ UNCHANGED <<link, inbox, final>>
    <2>0. /\ rPhase = "info" /\ toR # <<>> /\ Head(toR).type = "TransferInfo"
          /\ toR \in Seq(Message) /\ state \in TransferState
          /\ ReceiverTypeOK /\ partial \in [File -> (SUBSET Piece) \cup {NoFile}]
      BY DEF AcceptTransfer, IInv, TypeOK, TransportTypeOK, SenderTypeOK, ReceiverTypeOK
    <2>1. sPhase = "ready" /\ Head(toR) = Manifest
      BY <1>2, <2>0 DEF IInv, Lockstep, ManifestCurrent, DoneIsLast
    <2>2. /\ Manifest.completed_files = state.completed_files
          /\ state.completed_files \in SUBSET File
          /\ CurFile \in 0 .. NumFiles
          /\ state.file_chunks \in [File -> SUBSET Nat]
          /\ \A f \in File : state.file_chunks[f] \in SUBSET Chunk(f)
      BY <2>0, CurFileType, ManifestType
    <2>3. \/ rPhase' = "complete"
          \/ rPhase' = "file" /\ rFile' \in File /\ rFile' = CurFile /\ rSeen' = {}
      <3>1. \/ rPhase' = "complete"
            \/ /\ rPhase' = "file" /\ rSeen' = {}
               /\ rFile' \in File
               /\ rFile' \notin state.completed_files
               /\ \A f \in File : f >= 0 /\ f < rFile' => f \in state.completed_files
        BY <1>2, <2>0, <2>1, <2>2, EnterFileFacts
      <3> QED
        BY <3>1, CurFileFacts, FilesType DEF File
    <2>4. inbox = {} /\ inbox' = {}
      BY <1>2, <2>0 DEF StreamInv, StreamsOwned
    <2>5. CurFile' = CurFile /\ \A g : Unsent(g)' = Unsent(g)
      BY UnsentOfSender
    <2>6. NoForeignPieces'
      BY <1>2, <2>0, EnterFileContents DEF StreamInv
    <2>7. FutureUntouched'
      BY DEF senderVars, StreamInv, FutureUntouched
    <2>8. StreamsOwned' /\ FinalizedIsSent'
      BY <2>3, <2>4 DEF StreamsOwned, FinalizedIsSent
    <2>9. CASE rPhase' = "complete"
      BY <2>6, <2>7, <2>8, <2>9 DEF StreamInv, ClaimsBehind, StreamsAccounted
    <2>10. CASE rPhase' = "file"
      <3> DEFINE C == state.file_chunks[CurFile]
                 resuming == C # {}
      <3>1. CurFile \in File /\ rFile' = CurFile /\ rSeen' = {}
        BY <2>3, <2>10
      <3>2. /\ rInfo'.file_index = IF resuming THEN CurFile ELSE NumFiles
            /\ rInfo'.completed_chunks = IF resuming THEN Cardinality(C) ELSE 0
        BY <1>2, <2>1, <3>1 DEF Manifest, TransferInfo
      <3>3. C \in SUBSET Chunk(CurFile)
        BY <2>2, <3>1
      <3>4. Unsent(CurFile) = Chunk(CurFile) \ C
        BY <2>1 DEF Unsent, Unacked
      <3>5. CurFile \in Nat /\ CurFile < NumFiles /\ NumFiles \in Nat /\ ChunkCount[CurFile] \in Nat
        BY <3>1, FilesType DEF File
      <3>6. /\ Cardinality(C) \in Nat
            /\ Cardinality(Chunk(CurFile) \ C) = ChunkCount[CurFile] - Cardinality(C)
            /\ Cardinality(C) <= ChunkCount[CurFile]
            /\ C = {} => Cardinality(C) = 0
        <4>1. /\ IsFiniteSet(Chunk(CurFile)) /\ Cardinality(Chunk(CurFile)) = ChunkCount[CurFile]
              /\ Cardinality(C) \in Nat
          BY <3>1, <3>3, ChunksFinite
        <4> HIDE DEF C
        <4>2. /\ Cardinality(Chunk(CurFile) \ C) = ChunkCount[CurFile] - Cardinality(C)
              /\ Cardinality(C) <= ChunkCount[CurFile]
          BY <3>3, <4>1, RestOfSubset
        <4> QED
          BY <4>1, <4>2, FS_EmptySet
      <3> HIDE DEF C
      <3>7. (Announced(CurFile))' = ChunkCount[CurFile] - Cardinality(C)
        <4>1. CASE resuming
          <5>1. rInfo'.file_index = CurFile /\ rInfo'.completed_chunks = Cardinality(C)
            BY <3>2, <4>1
          <5> QED
            BY <2>5, <3>5, <3>6, <5>1 DEF Announced
        <4>2. CASE ~ resuming
          <5>1. rInfo'.file_index = NumFiles /\ rInfo'.completed_chunks = 0
            BY <3>2, <4>2
          <5> QED
            BY <2>5, <3>5, <3>6, <4>2, <5>1 DEF Announced
        <4> QED
          BY <4>1, <4>2
      <3>8. StreamFile' = CurFile' /\ StreamFile' = CurFile /\ StreamSeen' = {}
        BY <2>5, <2>10, <3>1 DEF StreamFile, StreamSeen
      <3>9. Unsent(StreamFile)' = Chunk(CurFile) \ C /\ Announced(StreamFile)' = (Announced(CurFile))'
        BY <2>5, <3>4, <3>8 DEF Announced
      <3>10. Cardinality({}) = 0
        BY FS_EmptySet
      <3>11. 0 + 0 + Cardinality(Chunk(CurFile) \ C) = ChunkCount[CurFile] - Cardinality(C)
        BY <3>5, <3>6
      <3>12. StreamsAccounted'
        BY <2>4, <3>7, <3>8, <3>9, <3>10, <3>11 DEF StreamsAccounted
      <3>13. ClaimsBehind'
        BY <3>1, <3>2, <3>5 DEF ClaimsBehind
      <3> QED
        BY <2>6, <2>7, <2>8, <3>12, <3>13 DEF StreamInv
    <2> QED
      BY <2>3, <2>9, <2>10
  <1> QED
    BY <1>1, <1>2 DEF AcceptTransfer
\* What is in flight is written to the file it belongs to, and counted once.
LEMMA RecvChunkStreams ==
    ASSUME IInv, StreamInv, RecvChunk, UNCHANGED senderVars
    PROVE  StreamInv'
  <1>0. rPhase = "file" /\ TypeOK /\ rFile \in File /\ StreamFile = rFile /\ StreamSeen = rSeen
    BY DEF RecvChunk, IInv, TypeOK, ReceiverTypeOK, StreamFile, StreamSeen
  <1>1. PICK p \in inbox :
            \/ Fatal /\ UNCHANGED <<partial, final>>
            \/ /\ inbox' = inbox \ {p}
               /\ rSeen' = rSeen \cup {p[1]}
               /\ partial' = [partial EXCEPT ![rFile] =
                       IF p[1] \in rSeen THEN @ ELSE write_chunk(@, p[1], p[2])]
               /\ UNCHANGED <<rPhase, rInfo, rFile, final, rRecord, link, toR, toS>>
    BY DEF RecvChunk
  <1>2. CASE Fatal /\ UNCHANGED <<partial, final>>
    BY <1>2, FatalStreams
  <1>3. CASE /\ inbox' = inbox \ {p}
             /\ rSeen' = rSeen \cup {p[1]}
             /\ partial' = [partial EXCEPT ![rFile] =
                     IF p[1] \in rSeen THEN @ ELSE write_chunk(@, p[1], p[2])]
             /\ UNCHANGED <<rPhase, rInfo, rFile, final, rRecord, link, toR, toS>>
    <2>0. p[1] \in Chunk(rFile) /\ p = <<p[1], rFile>> /\ p[2] = rFile
      BY <1>0, StreamsFinite DEF StreamInv, StreamsOwned
    <2>1. /\ StreamFile' = rFile /\ StreamSeen' = rSeen \cup {p[1]}
          /\ \A g : Announced(g)' = Announced(g)
          /\ CurFile' = CurFile /\ \A g : Unsent(g)' = Unsent(g)
      BY <1>0, <1>3, UnsentOfSender DEF StreamFile, StreamSeen, Announced
    <2>2. NoForeignPieces'
      <3>1. <<p[1], rFile>> \in Source(rFile)
        BY <2>0 DEF Source
      <3>2. partial[rFile] # NoFile /\ partial[rFile] \subseteq Source(rFile)
        BY <1>0 DEF TypeOK, ReceiverTypeOK, StreamInv, NoForeignPieces
      <3>3. write_chunk(partial[rFile], p[1], p[2]) \subseteq Source(rFile)
        BY <2>0, <3>1, <3>2 DEF write_chunk
      <3>4. partial'[rFile] \subseteq Source(rFile)
        BY <1>0, <1>3, <3>2, <3>3 DEF TypeOK, ReceiverTypeOK
      <3>5. \A f \in File : f # rFile => partial'[f] = partial[f]
        BY <1>0, <1>3 DEF TypeOK, ReceiverTypeOK
      <3> QED
        BY <1>3, <3>4, <3>5 DEF StreamInv, NoForeignPieces
    <2>3. FutureUntouched' /\ ClaimsBehind' /\ FinalizedIsSent'
      BY <1>0, <1>3 DEF senderVars, StreamInv, FutureUntouched, ClaimsBehind, FinalizedIsSent
    <2>4. StreamsOwned'
      BY <1>0, <1>3, <2>1 DEF StreamInv, StreamsOwned
    <2>5. StreamsAccounted'
      <3> SUFFICES ASSUME link = "up" PROVE StreamsAccounted'
        BY <1>3 DEF StreamsAccounted
      <3> DEFINE U == Unsent(rFile)
                 k == p[1]
      <3>1. /\ rSeen \subseteq Chunk(rFile)
            /\ \A j \in rSeen : <<j, rFile>> \notin inbox /\ j \notin U
            /\ \A j \in U : <<j, rFile>> \notin inbox
            /\ Cardinality(rSeen) + Cardinality(inbox) + Cardinality(U) = Announced(rFile)
        BY <1>0 DEF StreamInv, StreamsAccounted
      <3>2. /\ IsFiniteSet(rSeen) /\ Cardinality(rSeen) \in Nat
            /\ IsFiniteSet(inbox) /\ Cardinality(inbox) \in Nat
            /\ Cardinality(U) \in Nat
        BY <1>0, <3>1, UnsentFinite, StreamsFinite, ChunksFinite DEF StreamInv
      <3>3. k \notin rSeen /\ k \notin U /\ k \in Chunk(rFile) /\ p \in inbox
        BY <2>0, <3>1
      <3>4. /\ Cardinality(rSeen \cup {k}) = Cardinality(rSeen) + 1
            /\ Cardinality(inbox') = Cardinality(inbox) - 1
        BY <1>3, <3>2, <3>3, FS_AddElement, FS_RemoveElement
      <3>5. \A j \in rSeen \cup {k} : <<j, rFile>> \notin inbox' /\ j \notin U
        BY <1>3, <2>0, <3>1, <3>3
      <3>6. \A j \in U : <<j, rFile>> \notin inbox'
        BY <1>3, <3>1
      <3>7. Cardinality(rSeen \cup {k}) + Cardinality(inbox') + Cardinality(U) = Announced(rFile)
        BY <3>1, <3>2, <3>4
      <3>8. rSeen \cup {k} \subseteq Chunk(rFile)
        BY <3>1, <3>3
      <3>9. /\ StreamFile' = rFile /\ StreamSeen' = rSeen \cup {k}
            /\ Unsent(StreamFile)' = U
            /\ Announced(StreamFile)' = Announced(rFile)
            /\ Chunk(StreamFile)' = Chunk(rFile)
        BY <1>0, <1>3, <2>1 DEF Chunk
      <3> HIDE DEF U, k
      <3> QED
        BY <3>5, <3>6, <3>7, <3>8, <3>9 DEF StreamsAccounted
    <2> QED
      BY <2>2, <2>3, <2>4, <2>5 DEF StreamInv
  <1> QED
    BY <1>1, <1>2, <1>3

\* The receiver finalizes a file when all of its streams have been read, and
\* none of the next file has been opened.
LEMMA FinishFileStreams ==
    ASSUME IInv, StreamInv, FinishFile, UNCHANGED senderVars
    PROVE  StreamInv'
  <1>0. /\ rPhase = "file" /\ TypeOK /\ rFile \in File /\ StreamFile = rFile /\ StreamSeen = rSeen
        /\ rFile \in Nat /\ NumFiles \in Nat /\ ChunkCount[rFile] \in Nat
    BY FilesType DEF FinishFile, IInv, TypeOK, ReceiverTypeOK, StreamFile, StreamSeen, File
  <1>1. NoForeignPieces'
    <2>1. /\ \A f \in File : final'[f] = IF f = rFile THEN partial[rFile] ELSE final[f]
          /\ \A f \in File : partial'[f] = IF f = rFile THEN NoFile ELSE partial[f]
      BY <1>0 DEF FinishFile, TypeOK, ReceiverTypeOK
    <2>2. partial[rFile] \subseteq Source(rFile)
      BY <1>0 DEF TypeOK, ReceiverTypeOK, StreamInv, NoForeignPieces
    <2> QED
      BY <2>1, <2>2 DEF StreamInv, NoForeignPieces
  <1>2. CASE Fatal
    BY <1>1, <1>2, ReceiverLeavesStreams DEF Fatal, ReceiverGone
  <1>3. CASE /\ link = "up"
             /\ rPhase' = "sum"
             /\ UNCHANGED <<rInfo, rFile, rSeen, rRecord, link, toR, inbox>>
    <2>1. CurFile' = CurFile /\ \A g : Unsent(g)' = Unsent(g)
      BY UnsentOfSender
    <2>2. inbox = {} /\ Unsent(rFile) = {}
      <3>1. /\ rSeen \subseteq Chunk(rFile)
            /\ Cardinality(rSeen) + Cardinality(inbox) + Cardinality(Unsent(rFile))
                 = Announced(rFile)
        BY <1>0, <1>3 DEF StreamInv, StreamsAccounted
      <3>2. /\ Cardinality(rSeen) \in Nat
            /\ IsFiniteSet(inbox) /\ Cardinality(inbox) \in Nat
            /\ IsFiniteSet(Unsent(rFile)) /\ Cardinality(Unsent(rFile)) \in Nat
        BY <1>0, <3>1, UnsentFinite, StreamsFinite, ChunksFinite DEF StreamInv
      <3>3. Announced(rFile) = StreamsToReceive
        BY DEF Announced, StreamsToReceive
      <3>4. Cardinality(rSeen) >= StreamsToReceive
        BY DEF FinishFile
      <3>5. Cardinality(inbox) = 0 /\ Cardinality(Unsent(rFile)) = 0
        BY <3>1, <3>2, <3>3, <3>4
      <3> QED
        BY <3>2, <3>5, FS_EmptySet
    <2>3. StreamsOwned' /\ FutureUntouched' /\ ClaimsBehind'
      BY <1>0, <1>3, <2>2
         DEF senderVars, StreamInv, StreamsOwned, FutureUntouched, ClaimsBehind
    <2>4. FinalizedIsSent'
      BY <1>3, <2>1, <2>2 DEF FinalizedIsSent
    <2>5. StreamFile' = rFile + 1 /\ StreamSeen' = {}
      BY <1>3 DEF StreamFile, StreamSeen
    <2>6. StreamsAccounted'
      <3> SUFFICES ASSUME rFile + 1 \in File PROVE StreamsAccounted'
        BY <2>5 DEF StreamsAccounted
      <3> PICK g \in File : g = rFile + 1
        OBVIOUS
      <3>1. CurFile \in Nat /\ CurFile <= rFile
        BY <1>0, CurFileFacts DEF IInv, Lockstep, ReceiverNotBehind
      <3>2. g # CurFile /\ CurFile < g /\ g # rInfo.file_index /\ ChunkCount[g] \in Nat
        <4>1. rInfo.file_index <= rFile \/ rInfo.file_index = NumFiles
          BY <1>0 DEF StreamInv, ClaimsBehind
        <4>2. rInfo.file_index \in 0 .. NumFiles
          BY <1>0 DEF TypeOK, ReceiverTypeOK, Message
        <4> QED
          BY <1>0, <3>1, <4>1, <4>2, FilesType DEF File
      <3>3. state.file_chunks[g] = {}
        BY <3>2 DEF StreamInv, FutureUntouched, Untouched, CurFile
      <3>4. Unsent(g) = Chunk(g)
        BY <3>2, <3>3 DEF Unsent, Unacked
      <3>5. Announced(g)' = ChunkCount[g]
        BY <1>3, <3>2 DEF Announced
      <3>6. Cardinality(Chunk(g)) = ChunkCount[g] /\ Cardinality({}) = 0
        BY ChunksFinite, FS_EmptySet
      <3>7. 0 + 0 + Cardinality(Chunk(g)) = ChunkCount[g]
        BY <3>2, <3>6
      <3>8. /\ StreamFile' = g /\ StreamSeen' = {} /\ inbox' = {}
            /\ Unsent(StreamFile)' = Chunk(g)
            /\ Announced(StreamFile)' = ChunkCount[g]
        BY <1>3, <2>1, <2>2, <2>5, <3>4, <3>5
      <3> QED
        BY <3>6, <3>7, <3>8 DEF StreamsAccounted
    <2> QED
      BY <1>1, <2>3, <2>4, <2>6 DEF StreamInv
  <1> QED
    BY <1>2, <1>3 DEF FinishFile

\* The receiver has verified a file and goes on to the next, whose streams may
\* be in flight already.
LEMMA CheckFileStreams ==
    ASSUME IInv, StreamInv, CheckFile, UNCHANGED senderVars
    PROVE  StreamInv'
  <1>0. /\ rPhase = "sum" /\ TypeOK /\ rFile \in File /\ ReceiverTypeOK
        /\ StreamFile = rFile + 1 /\ StreamSeen = {} /\ rFile \in Nat /\ NumFiles \in Nat
    BY FilesType DEF CheckFile, IInv, TypeOK, ReceiverTypeOK, StreamFile, StreamSeen, File
  <1>1. CASE Fatal /\ UNCHANGED <<partial, final>>
    BY <1>1, FatalStreams
  <1>2. CASE EnterFile(rFile + 1, rInfo) /\ UNCHANGED <<rInfo, link, inbox, final>>
    <2>1. NoForeignPieces'
      BY <1>0, <1>2, EnterFileContents DEF StreamInv
    <2>2. CurFile' = CurFile /\ \A g : Unsent(g)' = Unsent(g)
      BY UnsentOfSender
    <2>3. FutureUntouched'
      BY DEF senderVars, StreamInv, FutureUntouched
    <2>4. \/ rPhase' = "complete" /\ rFile + 1 \notin File
          \/ rPhase' = "file" /\ rFile' = rFile + 1 /\ rSeen' = {}
      <3>1. rInfo.completed_files \in SUBSET File /\ \A f \in rInfo.completed_files : f < rFile
        BY <1>0, InfoFields DEF ReceiverTypeOK, IInv, Lockstep, ReceiverNotBehind
      <3>2. rFile + 1 \in Nat /\ partial \in [File -> (SUBSET Piece) \cup {NoFile}]
        BY <1>0 DEF ReceiverTypeOK
      <3>3. \/ /\ rPhase' = "complete"
               /\ \A f \in File : f >= rFile + 1 => f \in rInfo.completed_files
            \/ /\ rPhase' = "file" /\ rSeen' = {}
               /\ rFile' \in File
               /\ rFile' >= rFile + 1
               /\ \A f \in File : f >= rFile + 1 /\ f < rFile' => f \in rInfo.completed_files
        BY <1>2, <3>1, <3>2, EnterFileFacts
      <3>4. rFile + 1 \in File => rFile + 1 \notin rInfo.completed_files
        BY <1>0, <3>1
      <3>5. rPhase' = "file" => rFile' = rFile + 1
        BY <1>0, <3>3, <3>4, FilesType DEF File
      <3> QED
        BY <1>0, <3>3, <3>4, <3>5
    <2>5. CASE rPhase' = "complete" /\ rFile + 1 \notin File
      <3>1. inbox = {}
        BY <1>0, <2>5, StreamsFinite DEF StreamInv
      <3> QED
        BY <1>2, <2>1, <2>3, <2>5, <3>1
           DEF StreamInv, StreamsOwned, ClaimsBehind, StreamsAccounted, FinalizedIsSent
    <2>6. CASE rPhase' = "file" /\ rFile' = rFile + 1 /\ rSeen' = {}
      <3>1. /\ StreamFile' = StreamFile /\ StreamSeen' = StreamSeen
            /\ \A g : Announced(g)' = Announced(g)
        BY <1>0, <1>2, <2>6 DEF StreamFile, StreamSeen, Announced
      <3>2. StreamsOwned' /\ FinalizedIsSent'
        BY <1>0, <1>2, <2>6, <3>1 DEF StreamInv, StreamsOwned, FinalizedIsSent
      <3>3. ClaimsBehind'
        <4>1. rInfo.file_index <= rFile \/ rInfo.file_index = NumFiles
          BY <1>0 DEF StreamInv, ClaimsBehind
        <4>2. rInfo.file_index \in 0 .. NumFiles
          BY <1>0 DEF ReceiverTypeOK, Message
        <4> QED
          BY <1>0, <1>2, <2>6, <4>1, <4>2 DEF ClaimsBehind
      <3>4. StreamsAccounted'
        <4> SUFFICES ASSUME link = "up", StreamFile \in File PROVE StreamsAccounted'
          BY <1>2, <3>1 DEF StreamsAccounted
        <4>1. Unsent(StreamFile)' = Unsent(StreamFile)
          BY <2>2, <3>1
        <4> QED
          BY <1>0, <1>2, <3>1, <4>1 DEF StreamInv, StreamsAccounted
      <3> QED
        BY <2>1, <2>3, <3>2, <3>3, <3>4 DEF StreamInv
    <2> QED
      BY <2>4, <2>5, <2>6
  <1> QED
    BY <1>1, <1>2 DEF CheckFile
-----------------------------------------------------------------------------
(* The theorems. *)

LEMMA InitStreams ==
    ASSUME Init
    PROVE  StreamInv
  <1>1. /\ link = "down" /\ rPhase = "listen" /\ state = FreshState /\ disk = NoState
        /\ \A f \in File : partial[f] = NoFile /\ final[f] = NoFile
    BY DEF Init, TransportInit, SenderInit, ReceiverInit
  <1> QED
    BY <1>1
       DEF StreamInv, StreamsOwned, FutureUntouched, Untouched, FreshState, ClaimsBehind,
           StreamsAccounted, FinalizedIsSent, NoForeignPieces

LEMMA NextStreams ==
    ASSUME IInv, StreamInv, Next
    PROVE  StreamInv'
  <1>0. TypeOK /\ ConnectionsMatch
    BY DEF IInv, Lockstep
  <1>1. CASE SenderStep
    <2>0. UNCHANGED receiverVars
      BY <1>1 DEF SenderStep
    <2>1. CASE SendTransferInfo
      BY <1>0, <2>0, <2>1, ControlStreams DEF SendTransferInfo
    <2>2. CASE RecvReady
      <3>1. ASSUME NEW e, GiveUp(e) PROVE StreamInv'
        BY <1>0, <2>0, <3>1, SenderEndsStreams DEF GiveUp, save_to_file
      <3>2. CASE sPhase' = "file" /\ UNCHANGED <<state, disk, link, inbox>>
        BY <1>0, <2>0, <2>2, <3>2, ControlStreams DEF RecvReady
      <3> QED
        BY <2>2, <3>1, <3>2 DEF RecvReady
    <2>3. CASE LostBeforeReady
      BY <1>0, <2>0, <2>3, SenderEndsStreams DEF LostBeforeReady, GiveUp, save_to_file
    <2>4. CASE SendChunkStream
      BY <2>0, <2>4, SendChunkStreamStreams
    <2>5. CASE ChunkAcknowledged
      BY <2>0, <2>5, ChunkAcknowledgedStreams
    <2>6. CASE SendFileChecksum
      BY <1>0, <2>0, <2>6, ControlStreams DEF SendFileChecksum
    <2>7. CASE RecvFileChecksum
      BY <2>0, <2>7, RecvFileChecksumStreams
    <2>8. CASE SendComplete
      BY <1>0, <2>0, <2>8, ControlStreams DEF SendComplete
    <2>9. CASE SenderIoError
      BY <1>0, <2>0, <2>9, RecoverableStreams DEF SenderIoError
    <2>10. CASE SenderExit
      BY <1>0, <2>0, <2>10, SenderEndsStreams DEF SenderExit, senderVars
    <2> QED
      BY <1>1, <2>1, <2>2, <2>3, <2>4, <2>5, <2>6, <2>7, <2>8, <2>9, <2>10 DEF SenderStep
  <1>2. CASE ReceiverStep
    <2>0. UNCHANGED senderVars
      BY <1>2 DEF ReceiverStep
    <2>1. CASE AcceptTransfer
      BY <2>0, <2>1, AcceptTransferStreams
    <2>2. CASE BadManifest
      BY <2>0, <2>2, FatalStreams DEF BadManifest
    <2>3. CASE RecvChunk
      BY <2>0, <2>3, RecvChunkStreams
    <2>4. CASE FinishFile
      BY <2>0, <2>4, FinishFileStreams
    <2>5. CASE CheckFile
      BY <2>0, <2>5, CheckFileStreams
    <2>6. CASE RecvComplete
      <3>1. inbox = {}
        BY <2>6 DEF RecvComplete, StreamInv, StreamsOwned
      <3> QED
        BY <2>0, <2>6, <3>1, FatalStreams, BetweenTransfersStreams DEF RecvComplete
    <2>7. CASE ReceiverSeesLoss
      BY <2>0, <2>7, ReceiverLeavesStreams, SameFiles DEF ReceiverSeesLoss, StreamInv
    <2> QED
      BY <1>2, <2>1, <2>2, <2>3, <2>4, <2>5, <2>6, <2>7 DEF ReceiverStep
  <1>3. CASE Connect
    <2>1. /\ rPhase' = "info" /\ inbox' = {} /\ UNCHANGED <<state, disk, partial, final>>
      BY <1>3 DEF Connect, SenderConnected, ReceiverConnected, Connected
    <2> QED
      BY <2>1, SameFiles
         DEF StreamInv, StreamsOwned, FutureUntouched, ClaimsBehind, StreamsAccounted,
             FinalizedIsSent
  <1>4. CASE ConnectTimeout \/ ConnectLost
    <2>1. /\ UNCHANGED <<state, disk, link, inbox>>
          /\ sPhase \in {"connect", "backoff"} /\ sPhase' \in {"failed", "send"}
      BY <1>4 DEF ConnectTimeout, ConnectLost, ConnectFails, ReconnectFails, transportVars
    <2>2. CASE UNCHANGED receiverVars
      BY <1>0, <2>1, <2>2, ControlStreams
    <2>3. CASE HandshakeBroken
      <3>1. link' = "down" /\ rPhase' = "dead" /\ UNCHANGED <<partial, final>>
        BY <1>0, <2>1, <2>3 DEF HandshakeBroken, ConnectionsMatch
      <3> QED
        BY <2>1, <3>1, SameFiles
           DEF StreamInv, StreamsOwned, FutureUntouched, ClaimsBehind, StreamsAccounted,
               FinalizedIsSent
    <2> QED
      BY <1>4, <2>2, <2>3 DEF ConnectTimeout, ConnectLost
  <1>5. CASE ConnectionLost
    <2>1. link' = "down" /\ inbox' \subseteq inbox /\ UNCHANGED <<receiverVars, state, disk>>
      BY <1>5 DEF ConnectionLost, Dropped, senderVars
    <2>2. FutureUntouched'
      BY <2>1, SavedUntouched DEF StreamInv
    <2> QED
      BY <1>0, <2>1, <2>2, NoStreamStep
  <1>6. CASE Interrupt
    BY <1>0, <1>6, SenderEndsStreams DEF Interrupt, SenderKilled
  <1>7. CASE Crash
    BY <1>7, ReceiverLeavesStreams, SameFiles DEF Crash, ReceiverKilled, ReceiverGone, StreamInv
  <1>8. CASE SourceFault
    BY <1>0, <1>8, RecoverableStreams DEF SourceFault, SourceError
  <1>9. CASE Decline
    <2>1. CASE Fatal
      BY <1>9, <2>1, FatalStreams DEF Decline, RejectTransfer
    <2>2. CASE UNCHANGED <<rPhase, rInfo, rFile, inbox>>
      <3>1. rPhase = "info" /\ inbox = {}
        BY <1>9 DEF Decline, RejectTransfer, StreamInv, StreamsOwned
      <3> QED
        BY <1>9, <2>2, <3>1, BetweenTransfersStreams DEF Decline, RejectTransfer
    <2> QED
      BY <1>9, <2>1, <2>2 DEF Decline, RejectTransfer
  <1>10. CASE Rerun
    BY <1>10, StartStreams DEF Rerun
  <1>11. CASE Restart
    <2>1. link = "down"
      BY <1>0, <1>11 DEF Restart, ReceiverRestart, ConnectionsMatch
    <2> QED
      BY <1>11, <2>1, ReceiverLeavesStreams, SameFiles
         DEF Restart, ReceiverRestart, transportVars, StreamInv
  <1> QED
    BY <1>1, <1>2, <1>3, <1>4, <1>5, <1>6, <1>7, <1>8, <1>9, <1>10, <1>11 DEF Next

LEMMA StutterStreams ==
    ASSUME IInv, StreamInv, UNCHANGED vars
    PROVE  StreamInv'
  <1>1. UNCHANGED <<receiverVars, senderVars, link, inbox>> /\ TypeOK
    BY DEF vars, transportVars, IInv
  <1>2. FutureUntouched'
    BY <1>1, SavedUntouched DEF StreamInv, senderVars
  <1>3. CurFile \in Nat
    BY <1>1, CurFileType, FilesType DEF TypeOK, SenderTypeOK
  <1> QED
    BY <1>1, <1>2, <1>3, UnsentOfSender, NoStreamStep

\* Chunk streams are unordered and carry no file index; still every stream in
\* flight belongs to the file the receiver reads or reads next.
THEOREM StreamInvariance == Spec => []StreamInv
  <1>1. Init => StreamInv
    BY InitStreams
  <1>2. IInv /\ StreamInv /\ [Next]_vars => StreamInv'
    BY NextStreams, StutterStreams
  <1> QED
    BY <1>1, <1>2, Invariance, PTL DEF Spec

\* accept_uni hands receive_file streams without a file index; no chunk ever
\* lands in the .partial, or in the final file, of another file.
THEOREM ChunksLandInTheirFile == Spec => []NoForeignPieces
  <1>1. StreamInv => NoForeignPieces
    BY DEF StreamInv
  <1> QED
    BY <1>1, StreamInvariance, PTL

\* receive_file waits for chunk_count minus the chunks the manifest claims; this
\* is always the number of streams that send_file has in flight or will open.
THEOREM StreamCountsAlwaysAgree == Spec => []StreamCountsAgree
  <1>1. IInv /\ StreamInv => StreamCountsAgree
    <2> SUFFICES ASSUME IInv, StreamInv, link = "up", rPhase = "file", rFile = CurFile
                 PROVE  StreamsToReceive - Cardinality(rSeen)
                          = Cardinality(inbox)
                            + Cardinality({k \in Pending : <<k, CurFile>> \notin Unacked})
      BY DEF StreamCountsAgree
    <2>1. rFile \in File /\ StreamFile = rFile /\ StreamSeen = rSeen
      BY DEF IInv, TypeOK, ReceiverTypeOK, StreamFile, StreamSeen
    <2>2. Unsent(rFile) = {k \in Pending : <<k, CurFile>> \notin Unacked}
      BY DEF Unsent, Pending
    <2>3. /\ rSeen \subseteq Chunk(rFile)
          /\ Cardinality(rSeen) + Cardinality(inbox) + Cardinality(Unsent(rFile))
               = Announced(rFile)
      BY <2>1 DEF StreamInv, StreamsAccounted
    <2>4. Announced(rFile) = StreamsToReceive
      BY DEF Announced, StreamsToReceive
    <2>5. /\ Cardinality(rSeen) \in Nat /\ Cardinality(inbox) \in Nat
          /\ Cardinality(Unsent(rFile)) \in Nat
      BY <2>1, <2>3, UnsentFinite, StreamsFinite, ChunksFinite DEF StreamInv, IInv
    <2>6. Announced(rFile) - Cardinality(rSeen) = Cardinality(inbox) + Cardinality(Unsent(rFile))
      BY <2>3, <2>5
    <2> QED
      BY <2>2, <2>4, <2>6
  <1> QED
    BY <1>1, Invariance, StreamInvariance, PTL
=============================================================================
