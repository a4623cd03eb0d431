------------------------- MODULE SendPipelineProofs -------------------------
(***************************************************************************)
(* The bandwidth limit holds and the compressor decides on its sample, for *)
(* any limit, sizes of chunks, number of chunks and of files.              *)
(***************************************************************************)
EXTENDS SendPipeline, TLAPS

\* Where send_file may be: a chunk is in hand only inside a file.
InFile ==
    /\ pc \in {"chunk", "tokens", "sleep", "send"} => file > 0
    /\ pc \in {"tokens", "sleep", "send"} => chunk < Chunks
    /\ compression = "always" /\ file > 0 => decided

\* What was let through and what the bucket would let through now, together,
\* are covered by the bursts of the files begun.
Accounts ==
    /\ file = 0 => level = 0
    /\ file > 0 => level + Refilled <= Capacity * file

IInv ==
    /\ TypeOK
    /\ InFile
    /\ Accounts
    /\ DecidedOnSample

-----------------------------------------------------------------------------
LEMMA CapacityType ==
    ASSUME TypeOK
    PROVE  Capacity \in Nat
  BY PipelineAssumption DEF TypeOK, Capacity

\* The bucket never holds more than its capacity.
LEMMA RefilledType ==
    ASSUME TypeOK
    PROVE  Refilled \in Nat /\ Refilled <= Capacity
  BY CapacityType DEF TypeOK, Refilled, Least

\* A bucket just refilled holds its tokens.
LEMMA JustRefilled ==
    ASSUME NEW t \in Nat, NEW c \in Nat, t <= c
    PROVE  Least(t + 0, c) = t
  BY DEF Least

\* One more file, one more burst.
LEMMA Bursts ==
    ASSUME NEW c \in Nat, NEW f \in Nat
    PROVE  /\ c * f \in Nat
           /\ c * (f + 1) = c * f + c
           /\ f > 0 => c <= c * f
<1>1. c * f \in Nat /\ c * (f + 1) = c * f + c
  OBVIOUS
<1>2. ASSUME f > 0 PROVE c <= c * f
  <2>1. f - 1 \in Nat /\ f = (f - 1) + 1
    BY <1>2
  <2>2. c * f = c * (f - 1) + c /\ c * (f - 1) \in Nat
    BY <2>1
  <2> QED BY <2>2
<1> QED BY <1>1, <1>2

LEMMA InitIInv == Init => IInv
<1> SUFFICES ASSUME Init PROVE IInv
  OBVIOUS
<1>1. TypeOK
  <2>1. /\ file \in 0 .. Files /\ chunk \in 0 .. Chunks /\ sampled \in 0 .. SampleSize
        /\ tokens \in 0 .. Capacity /\ elapsed \in 0 .. Capacity
    BY PipelineAssumption DEF Init, Capacity, SampleSize
  <2>2. decided \in BOOLEAN /\ enabled \in BOOLEAN /\ payload \in Nat
    BY Zenon DEF Init
  <2>3. /\ original \in Nat /\ compressed \in Nat /\ remaining \in Nat /\ level \in Nat
        /\ completed \subseteq Index
    BY DEF Init
  <2> QED BY <2>1, <2>2, <2>3, Zenon DEF Init, TypeOK
<1>2. InFile /\ Accounts
  BY DEF Init, InFile, Accounts
<1>3. DecidedOnSample
  BY DEF Init, DecidedOnSample, SampleSize
<1> QED BY <1>1, <1>2, <1>3 DEF IInv

-----------------------------------------------------------------------------
(* Steps that change neither bucket nor level. *)

LEMMA AccountsSame ==
    ASSUME Accounts, UNCHANGED <<limit, file, tokens, elapsed, level>>
    PROVE  Accounts'
  BY DEF Accounts, Refilled, Least, Capacity

LEMMA StepsInFileKeep ==
    ASSUME IInv, Finished \/ CloseFile \/ SkipChunk \/ Wake
    PROVE  IInv'
<1> USE DEF Finished, CloseFile, SkipChunk, Wake, configVars, compressorVars, bucketVars
<1>1. TypeOK'
  <2>1. chunk' \in 0 .. Chunks /\ payload' \in Nat
    BY PipelineAssumption DEF IInv, TypeOK, Index
  <2>2. UNCHANGED <<decided, enabled, sampled, original, compressed, file, completed,
                    limit, compression, tokens, elapsed, remaining, level>>
    OBVIOUS
  <2>3. pc' \in {"open", "chunk", "tokens", "sleep", "send", "end"}
    BY DEF IInv, TypeOK
  <2> QED BY <2>1, <2>2, <2>3 DEF IInv, TypeOK, Capacity
<1>2. Accounts'
  BY AccountsSame DEF IInv
<1>3. InFile' /\ DecidedOnSample'
  BY DEF IInv, InFile, DecidedOnSample
<1> QED BY <1>1, <1>2, <1>3 DEF IInv

LEMMA SendChunkKeeps ==
    ASSUME IInv, SendChunk
    PROVE  IInv'
<1> USE DEF SendChunk, configVars, compressorVars, bucketVars
<1>1. TypeOK'
  BY PipelineAssumption DEF IInv, TypeOK, InFile, Capacity
<1>2. Accounts'
  BY AccountsSame DEF IInv
<1>3. InFile' /\ DecidedOnSample'
  BY DEF IInv, InFile, DecidedOnSample
<1> QED BY <1>1, <1>2, <1>3 DEF IInv

\* The compressor while it samples, and what it makes of a chunk.
LEMMA CompressKeeps ==
    ASSUME IInv, NEW size \in Sizes, compression # "off", compress(size),
           UNCHANGED compression, file > 0
    PROVE  /\ payload' \in Nat
           /\ sampled' \in 0 .. SampleSize /\ original' \in Nat /\ compressed' \in Nat
           /\ decided' \in BOOLEAN /\ enabled' \in BOOLEAN
           /\ decided => decided'
           /\ DecidedOnSample'
<1> USE DEF SampleSize
<1>1. size[1] \in Nat /\ size[2] \in Nat
  BY PipelineAssumption
<1>4. payload' \in Nat
  BY <1>1 DEF compress
<1>5. CASE decided
  <2>1. UNCHANGED compressorVars
    BY <1>5 DEF compress
  <2> QED BY <1>4, <2>1 DEF compressorVars, IInv, TypeOK, DecidedOnSample
<1>6. CASE ~decided
  <2>1. compression = "adaptive" /\ sampled < 3 /\ enabled
    BY <1>6 DEF IInv, TypeOK, InFile, DecidedOnSample
  <2>2. Sample(size)
    BY <1>6 DEF compress
  <2>3. sampled' = sampled + 1 /\ sampled' \in 0 .. 3
    BY <2>1, <2>2 DEF Sample, IInv, TypeOK
  <2>4. original' \in Nat /\ compressed' \in Nat
    BY <1>1, <2>2 DEF Sample, IInv, TypeOK
  <2>5. CASE sampled' >= 3
    <3>1. decided' = TRUE /\ enabled' = Beneficial(original', compressed')
      BY <2>2, <2>5 DEF Sample
    <3>2. enabled' \in BOOLEAN
      BY <3>1 DEF Beneficial
    <3>3. sampled' = 3
      BY <2>3, <2>5
    <3>4. DecidedOnSample'
      BY <2>1, <3>1, <3>3 DEF DecidedOnSample
    <3> QED BY <1>4, <2>3, <2>4, <3>1, <3>2, <3>4
  <2>6. CASE ~(sampled' >= 3)
    <3>1. UNCHANGED <<decided, enabled>>
      BY <2>2, <2>6 DEF Sample
    <3>2. sampled' < 3
      BY <2>3, <2>6
    <3> QED BY <1>4, <1>6, <2>1, <2>3, <2>4, <3>1, <3>2 DEF DecidedOnSample, IInv, TypeOK
  <2> QED BY <2>5, <2>6
<1> QED BY <1>5, <1>6 DEF IInv, TypeOK

LEMMA ReadChunkKeeps ==
    ASSUME IInv, NEW size \in Sizes, ReadChunk(size)
    PROVE  IInv'
<1> USE DEF ReadChunk, configVars, bucketVars
<1>1. /\ payload' \in Nat
      /\ sampled' \in 0 .. SampleSize /\ original' \in Nat /\ compressed' \in Nat
      /\ decided' \in BOOLEAN /\ enabled' \in BOOLEAN
      /\ decided => decided'
      /\ DecidedOnSample'
  <2>1. CASE compression = "off"
    <3>1. payload' = size[1] /\ UNCHANGED <<sampled, original, compressed, decided, enabled>>
      BY <2>1 DEF compressorVars
    <3>2. payload' \in Nat
      BY <3>1, PipelineAssumption
    <3>3. DecidedOnSample'
      BY <3>1 DEF IInv, DecidedOnSample
    <3> QED BY <3>1, <3>2, <3>3 DEF IInv, TypeOK
  <2>2. CASE compression # "off"
    BY <2>2, CompressKeeps DEF IInv, InFile
  <2> QED BY <2>1, <2>2
<1>2. TypeOK'
  BY <1>1 DEF IInv, TypeOK, Capacity
<1>3. Accounts'
  BY AccountsSame DEF IInv
<1>4. InFile'
  BY <1>1 DEF IInv, TypeOK, InFile
<1> QED BY <1>1, <1>2, <1>3, <1>4 DEF IInv

-----------------------------------------------------------------------------
(* Steps of the bucket. *)

\* A new file has a full bucket and a compressor that has sampled nothing.
LEMMA OpenFileKeeps ==
    ASSUME IInv, OpenFile
    PROVE  IInv'
<1> USE DEF OpenFile, configVars
<1>0. Capacity \in Nat /\ Capacity' = Capacity
  BY CapacityType DEF IInv, Capacity
<1>1. TypeOK'
  BY <1>0, PipelineAssumption DEF IInv, TypeOK, Index, SampleSize
<1>2. Refilled' = Capacity
  BY <1>0 DEF Refilled, Least
<1>3. level + Capacity <= Capacity * (file + 1)
  <2>1. Refilled \in Nat /\ file \in Nat /\ level \in Nat
    BY RefilledType DEF IInv, TypeOK
  <2>2. level <= Capacity * file
    BY <1>0, <2>1, Bursts DEF IInv, Accounts
  <2>3. Capacity * (file + 1) = Capacity * file + Capacity /\ Capacity * file \in Nat
    BY <1>0, <2>1, Bursts
  <2> QED BY <1>0, <2>1, <2>2, <2>3
<1>4. Accounts'
  BY <1>0, <1>2, <1>3 DEF IInv, TypeOK, Accounts
<1>5. InFile'
  <2>1. file' > 0 /\ pc' = "chunk"
    BY DEF IInv, TypeOK
  <2>2. compression' = "always" => decided'
    OBVIOUS
  <2> QED BY <2>1, <2>2 DEF InFile
<1>6. DecidedOnSample'
  <2>1. enabled' = TRUE /\ sampled' = 0
    OBVIOUS
  <2>2. compression' = "adaptive" => ~decided'
    OBVIOUS
  <2> QED BY <2>1, <2>2 DEF DecidedOnSample, SampleSize
<1> QED BY <1>1, <1>4, <1>5, <1>6 DEF IInv

LEMMA WaitForTokensKeeps ==
    ASSUME IInv, WaitForTokens
    PROVE  IInv'
<1> USE DEF WaitForTokens, configVars, compressorVars
<1>0. /\ Capacity \in Nat /\ Capacity' = Capacity
      /\ Refilled \in Nat /\ Refilled <= Capacity
      /\ payload \in Nat /\ level \in Nat
  BY CapacityType, RefilledType DEF IInv, TypeOK, Capacity
<1>1. /\ tokens' \in 0 .. Capacity /\ level' \in Nat /\ remaining' \in Nat
      /\ level' + tokens' = level + Refilled
  <2> DEFINE held == Refilled
             room == Capacity
             need == payload
  <2>0. held \in Nat /\ room \in Nat /\ need \in Nat /\ held <= room /\ level \in Nat
    BY <1>0
  <2>1. CASE held >= need
    <3>1. tokens' = held - need /\ remaining' = 0 /\ level' = level + need
      BY <2>1
    <3> HIDE DEF held, room, need
    <3>2. tokens' \in 0 .. room /\ level' \in Nat /\ level' + tokens' = level + held
      BY <2>0, <2>1, <3>1
    <3> QED BY <3>1, <3>2 DEF held, room
  <2>2. CASE ~(held >= need)
    <3>1. tokens' = held /\ remaining' = need - held /\ level' = level
      BY <2>2
    <3> HIDE DEF held, room, need
    <3>2. tokens' \in 0 .. room /\ remaining' \in Nat /\ level' + tokens' = level + held
      BY <2>0, <2>2, <3>1
    <3> QED BY <2>0, <3>1, <3>2 DEF held, room
  <2> QED BY <2>1, <2>2
<1>2. Refilled' = tokens'
  <2>1. tokens' \in Nat /\ tokens' <= Capacity /\ elapsed' = 0 /\ Capacity' = Capacity
    BY <1>0, <1>1
  <2>2. Least(tokens' + 0, Capacity) = tokens'
    BY <1>0, <2>1, JustRefilled
  <2> QED BY <2>1, <2>2 DEF Refilled
<1>3. TypeOK'
  BY <1>0, <1>1 DEF IInv, TypeOK
<1>4. Accounts'
  BY <1>0, <1>1, <1>2 DEF IInv, InFile, Accounts
<1>5. InFile' /\ DecidedOnSample'
  BY DEF IInv, InFile, DecidedOnSample
<1> QED BY <1>3, <1>4, <1>5 DEF IInv

\* In a unit of time the bucket earns at most a byte, and level loses one.
LEMMA TickKeeps ==
    ASSUME IInv, Tick
    PROVE  IInv'
<1> USE DEF Tick, configVars, compressorVars
<1>0. /\ Capacity \in Nat /\ Capacity' = Capacity
      /\ Refilled \in Nat /\ Refilled <= Capacity
      /\ tokens \in Nat /\ elapsed \in Nat /\ level \in Nat /\ file \in Nat
  BY CapacityType, RefilledType DEF IInv, TypeOK, Capacity
<1>1. TypeOK'
  BY <1>0 DEF IInv, TypeOK, Least, Past
<1>2. Refilled' \in Nat /\ Refilled' <= Refilled + 1 /\ Refilled' <= Capacity
  BY <1>0 DEF Refilled, Least
<1>3. Accounts'
  <2>1. CASE file = 0
    BY <2>1 DEF IInv, Accounts, Past
  <2>2. CASE file > 0
    <3> DEFINE all == Capacity * file
    <3>1. all \in Nat /\ Capacity <= all
      BY <1>0, <2>2, Bursts
    <3>2. level + Refilled <= all
      BY <2>2 DEF IInv, Accounts
    <3>3. level' + Refilled' <= all
      <4> DEFINE now == Refilled
                 later == Refilled'
      <4>0. now \in Nat /\ later \in Nat /\ later <= now + 1 /\ later <= Capacity
        BY <1>0, <1>2
      <4> HIDE DEF all, now, later
      <4>1. level + now <= all
        BY <3>2 DEF now
      <4>2. CASE level = 0
        <5>1. level' = 0
          BY <4>2 DEF Past
        <5>2. level' + later <= all
          BY <1>0, <3>1, <4>0, <5>1
        <5> QED BY <5>2 DEF later
      <4>3. CASE level > 0
        <5>1. level' = level - 1
          BY <1>0, <4>3 DEF Past
        <5>2. level' + later <= all
          BY <1>0, <3>1, <4>0, <4>1, <4>3, <5>1
        <5> QED BY <5>2 DEF later
      <4> QED BY <1>0, <4>2, <4>3
    <3> QED BY <1>0, <2>2, <3>3 DEF Accounts
  <2> QED BY <1>0, <2>1, <2>2
<1>4. InFile' /\ DecidedOnSample'
  BY DEF IInv, InFile, DecidedOnSample
<1> QED BY <1>1, <1>3, <1>4 DEF IInv

-----------------------------------------------------------------------------
LEMMA NextKeeps == IInv /\ [Next]_vars => IInv'
<1> SUFFICES ASSUME IInv, [Next]_vars PROVE IInv'
  OBVIOUS
<1>1. CASE Next
  BY <1>1, StepsInFileKeep, SendChunkKeeps, ReadChunkKeeps, OpenFileKeeps,
     WaitForTokensKeeps, TickKeeps DEF Next, SendFile
<1>2. CASE UNCHANGED vars
  <2> USE <1>2 DEF vars
  <2>1. TypeOK'
    BY DEF IInv, TypeOK, Capacity
  <2>2. Accounts'
    BY AccountsSame DEF IInv
  <2>3. InFile' /\ DecidedOnSample'
    BY DEF IInv, InFile, DecidedOnSample
  <2> QED BY <2>1, <2>2, <2>3 DEF IInv
<1> QED BY <1>1, <1>2

\* Every step of send_file, of its limiter and of the compression decision keeps
\* the inductive invariant.
THEOREM Invariance == Spec => []IInv
  BY InitIInv, NextKeeps, PTL DEF Spec

\* The bucket stays between empty and full, the sample between none and three.
THEOREM TypeCorrect == Spec => []TypeOK
<1>1. IInv => TypeOK
  BY DEF IInv
<1> QED BY <1>1, Invariance, PTL

\* wait_for_tokens keeps to the limit, with a burst for every file.
THEOREM RateHolds == Spec => []RateBounded
<1>1. IInv => RateBounded
  <2> SUFFICES ASSUME IInv PROVE RateBounded
    OBVIOUS
  <2>1. Capacity \in Nat /\ Refilled \in Nat /\ level \in Nat /\ file \in Nat
    BY CapacityType, RefilledType DEF IInv, TypeOK
  <2>2. Capacity * file \in Nat
    BY <2>1, Bursts
  <2> QED BY <2>1, <2>2 DEF IInv, Accounts, RateBounded
<1> QED BY <1>1, Invariance, PTL

\* The adaptive decision is made on exactly three chunks, and made right.
THEOREM DecisionIsOnSample == Spec => []DecidedOnSample
<1>1. IInv => DecidedOnSample
  BY DEF IInv
<1> QED BY <1>1, Invariance, PTL
=============================================================================
