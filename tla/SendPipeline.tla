---------------------------- MODULE SendPipeline ----------------------------
(***************************************************************************)
(* What happens to a chunk between disk and stream: send_file reads it,    *)
(* an AdaptiveCompressor compresses it or not, and a BandwidthLimiter (a   *)
(* token bucket) makes it wait. Each file of a transfer has a compressor   *)
(* and a limiter of its own. Of the data only its length is kept, and not  *)
(* the flag that tells receive_file to decompress it.                      *)
(*                                                                         *)
(* Time is measured in units in which the limiter earns one byte, so a     *)
(* second is Limit units. Only its passing is kept: how long ago the       *)
(* bucket was refilled, how long the sender still sleeps.                  *)
(***************************************************************************)
EXTENDS Naturals

CONSTANTS
    Limits,            \* values of bandwidth_limit, bytes a second; 0 = unlimited
    Sizes,             \* pairs of a chunk's size and its size compressed
    Chunks,            \* chunks of a file
    Files              \* files of the transfer

SampleSize == 3        \* chunks the adaptive compressor samples

ASSUME PipelineAssumption ==
    /\ Limits \subseteq Nat
    /\ Sizes \subseteq Nat \X (Nat \ {0})
    /\ Chunks \in Nat /\ Files \in Nat

VARIABLES
    limit,         \* config.bandwidth_limit
    compression,   \* config.compression_enabled and .adaptive_compression
    file,          \* files begun
    chunk,         \* chunk_index
    completed,     \* completed_chunks, of an earlier attempt at this file
    pc,            \* where send_file is
    payload,       \* length of the chunk after compression, final_data.len()
    sampled, original, compressed,  \* statistics of the AdaptiveCompressor
    decided, enabled,               \* its decision
    tokens,        \* TokenBucket.tokens
    elapsed,       \* time since TokenBucket.last_refill
    remaining,     \* rest of the sleep of wait_for_tokens
    level          \* bytes let through ahead of the limit, see RateBounded

compressorVars == <<sampled, original, compressed, decided, enabled>>
bucketVars == <<tokens, elapsed, remaining>>
configVars == <<limit, compression>>
vars == <<limit, compression, file, chunk, completed, pc, payload, sampled, original,
          compressed, decided, enabled, tokens, elapsed, remaining, level>>

Index == 0 .. Chunks - 1

Capacity == 2 * limit

TypeOK ==
    /\ limit \in Limits /\ compression \in {"off", "always", "adaptive"}
    /\ file \in 0 .. Files /\ chunk \in 0 .. Chunks /\ completed \subseteq Index
    /\ pc \in {"open", "chunk", "tokens", "sleep", "send", "end"}
    /\ payload \in Nat
    /\ sampled \in 0 .. SampleSize /\ original \in Nat /\ compressed \in Nat
    /\ decided \in BOOLEAN /\ enabled \in BOOLEAN
    /\ tokens \in 0 .. Capacity /\ elapsed \in 0 .. Capacity /\ remaining \in Nat
    /\ level \in Nat

Init ==
    /\ limit \in Limits /\ compression \in {"off", "always", "adaptive"}
    /\ file = 0 /\ chunk = 0 /\ completed = {}
    /\ pc = "open" /\ payload = 0
    /\ sampled = 0 /\ original = 0 /\ compressed = 0
    /\ decided = FALSE /\ enabled = TRUE
    /\ tokens = 0 /\ elapsed = 0 /\ remaining = 0
    /\ level = 0

Least(a, b) == IF a < b THEN a ELSE b

-----------------------------------------------------------------------------
(* send_file. *)

\* FileTransferSession::new and the head of send_file: a compressor that has
\* decided nothing (unless it does not adapt), a full bucket, and the chunks an
\* earlier attempt has completed. After the last file the transfer is over.
OpenFile ==
    /\ pc = "open"
    /\ file < Files
    /\ file' = file + 1 /\ chunk' = 0 /\ completed' \in SUBSET Index
    /\ sampled' = 0 /\ original' = 0 /\ compressed' = 0
    /\ decided' = (compression = "always") /\ enabled' = TRUE
    /\ tokens' = Capacity /\ elapsed' = 0 /\ remaining' = 0
    /\ pc' = "chunk"
    /\ UNCHANGED <<configVars, payload, level>>

Finished ==
    /\ pc = "open" /\ file = Files
    /\ pc' = "end"
    /\ UNCHANGED <<configVars, file, chunk, completed, payload, compressorVars,
                   bucketVars, level>>

CloseFile ==
    /\ pc = "chunk" /\ chunk = Chunks
    /\ pc' = "open"
    /\ payload' = 0
    /\ UNCHANGED <<configVars, file, chunk, completed, compressorVars, bucketVars,
                   level>>

\* A completed chunk is folded into the checksum and not sent.
SkipChunk ==
    /\ pc = "chunk" /\ chunk \in completed
    /\ chunk' = chunk + 1
    /\ UNCHANGED <<configVars, file, completed, pc, payload, compressorVars, bucketVars,
                   level>>

\* original / compressed is at least the threshold of 1.05.
Beneficial(o, c) == 100 * o >= 105 * c

\* Mutant of Sample: the decision comes a chunk late.
SampleLate(size) ==
    /\ sampled' = sampled + 1
    /\ original' = original + size[1] /\ compressed' = compressed + size[2]
    /\ IF sampled' > SampleSize
       THEN decided' = TRUE /\ enabled' = Beneficial(original', compressed')
       ELSE UNCHANGED <<decided, enabled>>

\* The sampling phase of AdaptiveCompressor::compress.
Sample(size) ==
    /\ sampled' = sampled + 1
    /\ original' = original + size[1] /\ compressed' = compressed + size[2]
    /\ IF sampled' >= SampleSize
       THEN decided' = TRUE /\ enabled' = Beneficial(original', compressed')
       ELSE UNCHANGED <<decided, enabled>>

\* AdaptiveCompressor::compress of a chunk of size[1] bytes, which zstd makes
\* size[2]; a sampled chunk is sent compressed even if it grew.
compress(size) ==
    IF decided /\ ~enabled
    THEN payload' = size[1] /\ UNCHANGED compressorVars
    ELSE /\ payload' = size[2]
         /\ IF decided THEN UNCHANGED compressorVars ELSE Sample(size)

\* The next chunk is read and, if the config says so, goes through the compressor.
ReadChunk(size) ==
    /\ pc = "chunk" /\ chunk < Chunks /\ chunk \notin completed
    /\ IF compression = "off"
       THEN payload' = size[1] /\ UNCHANGED compressorVars
       ELSE compress(size)
    /\ pc' = IF limit > 0 THEN "tokens" ELSE "send"
    /\ UNCHANGED <<configVars, file, chunk, completed, bucketVars, level>>

-----------------------------------------------------------------------------
(* BandwidthLimiter::wait_for_tokens. *)

\* Mutant of Refilled: nothing is lost when the bucket is full.
RefilledUncapped == tokens + elapsed

Refilled == Least(tokens + elapsed, Capacity)

\* Mutant of WaitForTokens: a round that does not find enough tokens spends
\* the time it has waited without crediting it.
WaitWithoutCredit ==
    /\ pc = "tokens"
    /\ elapsed' = 0
    /\ IF Refilled >= payload
       THEN /\ tokens' = Refilled - payload /\ remaining' = 0
            /\ level' = level + payload
            /\ pc' = "send"
       ELSE /\ remaining' = 1
            /\ pc' = "sleep"
            /\ UNCHANGED <<tokens, level>>
    /\ UNCHANGED <<configVars, file, chunk, completed, payload, compressorVars>>

\* One round of the loop: refill, then take the tokens or sleep for the missing ones.
WaitForTokens ==
    /\ pc = "tokens"
    /\ elapsed' = 0
    /\ IF Refilled >= payload
       THEN /\ tokens' = Refilled - payload /\ remaining' = 0
            /\ level' = level + payload
            /\ pc' = "send"
       ELSE /\ tokens' = Refilled /\ remaining' = payload - Refilled
            /\ pc' = "sleep"
            /\ UNCHANGED level
    /\ UNCHANGED <<configVars, file, chunk, completed, payload, compressorVars>>

\* The sleep is over; it may have taken longer.
Wake ==
    /\ pc = "sleep" /\ remaining = 0
    /\ pc' = "tokens"
    /\ UNCHANGED <<configVars, file, chunk, completed, payload, compressorVars, bucketVars,
                   level>>

Past(t) == IF t = 0 THEN 0 ELSE t - 1

\* Time passes. Beyond a full bucket's worth it makes no difference to the limiter.
Tick ==
    /\ limit > 0 /\ pc # "end"
    /\ elapsed' = Least(elapsed + 1, Capacity)
    /\ remaining' = Past(remaining)
    /\ level' = Past(level)
    /\ UNCHANGED <<configVars, file, chunk, completed, pc, payload, compressorVars,
                   tokens>>

-----------------------------------------------------------------------------
(* send_chunk_stream. *)

SendChunk ==
    /\ pc = "send"
    /\ chunk' = chunk + 1
    /\ pc' = "chunk"
    /\ UNCHANGED <<configVars, file, completed, payload, compressorVars, bucketVars, level>>

-----------------------------------------------------------------------------
SendFile ==
    \/ OpenFile
    \/ Finished
    \/ CloseFile
    \/ SkipChunk
    \/ \E size \in Sizes : ReadChunk(size)
    \/ WaitForTokens
    \/ Wake
    \/ SendChunk

Next == SendFile \/ Tick

Spec == Init /\ [][Next]_vars

\* The sending task runs when it can, and time passes.
FairSpec == Spec /\ WF_vars(SendFile) /\ WF_vars(Tick)

-----------------------------------------------------------------------------
(* Properties. *)

\* The limit holds. level grows by what wait_for_tokens lets through and shrinks
\* with time at the rate of the limit, so a bound on it bounds what passes in any
\* stretch of time: the bytes the limit allows for it, plus the bound. The burst
\* of two seconds (BandwidthLimiter::new) is granted anew to every file.
RateBounded == level <= Capacity * file

\* The adaptive compressor compresses until it has seen exactly three chunks
\* of this file that are sent, and its decision is the one their sizes call
\* for; without adaptation it never stops compressing.
DecidedOnSample ==
    /\ compression # "adaptive" => enabled
    /\ compression = "adaptive" /\ ~decided => enabled /\ sampled < SampleSize
    /\ compression = "adaptive" /\ decided =>
           sampled = SampleSize /\ enabled = Beneficial(original, compressed)

\* A chunk no full bucket can pay for: wait_for_tokens sleeps and tries again
\* for ever. A limit of less than half a chunk a second is enough.
TooLarge == limit > 0 /\ pc \in {"tokens", "sleep"} /\ payload > Capacity

\* Every file is sent in the end: wait_for_tokens returns for every chunk that
\* fits into the bucket, however often the bucket has been drained.
SendFileEnds == <>(pc = "end" \/ TooLarge)
=============================================================================
