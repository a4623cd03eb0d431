-------------------------- MODULE PartialFileProofs --------------------------
(***************************************************************************)
(* Proofs about PartialFile: the chunks of a file land at their places in  *)
(* .partial and stay there over any number of sessions, for every size,    *)
(* every chunk size and every number of transfers.                         *)
(***************************************************************************)
EXTENDS PartialFile, SequenceTheorems, FiniteSetTheorems, TLAPS

\* Every session of a transfer has the config of its first: sessions are direct,
\* or nobody gives --chunk-size. (Otherwise a resumption through a rendezvous may
\* lay the chunks out anew, see the findings in README.md.)
SameConfig == Rendezvous => ChunkSizes = {DefaultChunkSize}

-----------------------------------------------------------------------------
(* The inductive invariant. *)

Content == Seq(Nat \X Nat)

\* What survives sessions.
FilesInv ==
    /\ version \in 0 .. MaxTransfers
    /\ size \in 0 .. MaxSize
    /\ state \in [chunk_size : ChunkSizes, chunks : SUBSET Nat] \cup {None}
    /\ state # None => state.chunks \cup written \subseteq Chunks(size, state.chunk_size)
    /\ partial \in Content \cup {None}
    /\ partial = None => written = {}
    /\ state = None => chunk_size = None /\ written = {}
    /\ clean \in BOOLEAN

\* Chunks whose stream the sender has opened, in this session or before.
SentChunks == state.chunks \cup ({unacked} \ {None})

\* Every session has the config of the state; a stream is in flight once, and the
\* receiver waits for those it has not seen.
SessionInv ==
    chunk_size # None =>
        /\ chunk_size = state.chunk_size
        /\ unacked \in Chunks(size, chunk_size) \cup {None}
        /\ unacked \notin state.chunks
        /\ inflight \subseteq SentChunks
        /\ left \in Nat
        /\ left + Cardinality(SentChunks \ inflight) = chunk_count(size, chunk_size)
        /\ partial = None => left = 0
        /\ partial # None => SentChunks \ inflight \subseteq state.chunks \cup written

\* .partial never reaches behind the last chunk of the session that writes it,
\* nor, if there was none when the transfer began, behind the end of the source.
LengthInv ==
    /\ chunk_size # None /\ partial # None =>
           Len(partial) <= chunk_count(size, chunk_size) * chunk_size
    /\ clean /\ partial # None => Len(partial) <= size

IInv ==
    /\ FilesInv
    /\ SessionInv
    /\ LengthInv
    /\ WrittenChunksIntact
-----------------------------------------------------------------------------
(* Arithmetic of the layout. *)

LEMMA Quotient ==
    ASSUME NEW n \in Nat, NEW m \in Nat \ {0}
    PROVE  /\ n \div m \in Nat
           /\ (n \div m) * m <= n
           /\ n < (n \div m) * m + m
OBVIOUS

LEMMA TimesNat ==
    ASSUME NEW a \in Nat, NEW m \in Nat
    PROVE  a * m \in Nat
OBVIOUS

LEMMA NextMultiple ==
    ASSUME NEW a \in Nat, NEW m \in Nat
    PROVE  (a + 1) * m = a * m + m
OBVIOUS

LEMMA TimesMonotone ==
    ASSUME NEW a \in Nat, NEW b \in Nat, NEW m \in Nat, a <= b
    PROVE  a * m <= b * m
OBVIOUS

\* The chunks of a file begin inside it and reach at least to its end.
LEMMA CountFacts ==
    ASSUME NEW n \in Nat, NEW cs \in Nat \ {0}
    PROVE  /\ chunk_count(n, cs) \in Nat
           /\ chunk_count(n, cs) * cs \in Nat
           /\ n <= chunk_count(n, cs) * cs
           /\ Chunks(n, cs) = 0 .. chunk_count(n, cs) - 1
           /\ \A c \in Chunks(n, cs) :
                 /\ c \in Nat /\ c * cs \in Nat
                 /\ c * cs < n
                 /\ (c + 1) * cs = c * cs + cs
                 /\ (c + 1) * cs <= chunk_count(n, cs) * cs
<1> DEFINE q == chunk_count(n, cs)
<1>1. n + cs - 1 \in Nat
  OBVIOUS
<1>2. q \in Nat /\ q * cs <= n + cs - 1 /\ n + cs - 1 < q * cs + cs
  BY <1>1, Quotient DEF chunk_count
<1>3. Chunks(n, cs) = 0 .. q - 1
  BY DEF Chunks
<1> HIDE DEF q
<1>4. q * cs \in Nat
  BY <1>2, TimesNat
<1>5. n <= q * cs
  BY <1>2, <1>4
<1>6. ASSUME NEW c \in 0 .. q - 1
      PROVE  /\ c \in Nat /\ c * cs \in Nat
             /\ c * cs < n
             /\ (c + 1) * cs = c * cs + cs
             /\ (c + 1) * cs <= q * cs
  <2>1. c \in Nat /\ c + 1 \in Nat /\ c + 1 <= q
    BY <1>2
  <2>2. c * cs \in Nat /\ (c + 1) * cs = c * cs + cs /\ (c + 1) * cs <= q * cs
    BY <1>2, <2>1, TimesNat, NextMultiple, TimesMonotone
  <2> QED BY <1>2, <1>4, <2>1, <2>2
<1> QED BY <1>2, <1>3, <1>4, <1>5, <1>6 DEF q

\* Where a chunk ends.
LEMMA ChunkEnd ==
    ASSUME NEW n \in Nat, NEW cs \in Nat \ {0}, NEW c \in Chunks(n, cs)
    PROVE  /\ c * cs \in Nat
           /\ Least((c + 1) * cs, n) \in Nat
           /\ c * cs < Least((c + 1) * cs, n)
           /\ Least((c + 1) * cs, n) <= n
           /\ Least((c + 1) * cs, n) <= (c + 1) * cs
<1> DEFINE o == c * cs
           x == (c + 1) * cs
<1>1. o \in Nat /\ o < n /\ x = o + cs
  BY CountFacts
<1> HIDE DEF o, x
<1>2. /\ Least(x, n) \in Nat /\ o < Least(x, n)
      /\ Least(x, n) <= n /\ Least(x, n) <= x
  BY <1>1 DEF Least
<1> QED BY <1>1, <1>2 DEF o, x

\* Every byte is in some chunk.
LEMMA ChunkOfByte ==
    ASSUME NEW n \in Nat, NEW cs \in Nat \ {0}, NEW i \in 1 .. n
    PROVE  \E c \in Chunks(n, cs) : c * cs < i /\ i <= (c + 1) * cs
<1> DEFINE c == (i - 1) \div cs
<1>1. i - 1 \in Nat /\ i \in Nat
  OBVIOUS
<1>2. c \in Nat /\ c * cs <= i - 1 /\ i - 1 < c * cs + cs
  BY <1>1, Quotient
<1> HIDE DEF c
<1>3. c * cs \in Nat /\ (c + 1) * cs = c * cs + cs
  BY <1>2, TimesNat, NextMultiple
<1>4. c * cs < i /\ i <= (c + 1) * cs
  BY <1>1, <1>2, <1>3
<1> DEFINE q == chunk_count(n, cs)
<1>5. q \in Nat /\ q * cs \in Nat /\ n <= q * cs /\ Chunks(n, cs) = 0 .. q - 1
  BY CountFacts
<1> HIDE DEF q
<1>6. ~ (q <= c)
  <2> SUFFICES ASSUME q <= c PROVE FALSE
    OBVIOUS
  <2>1. q * cs <= c * cs
    BY <1>2, <1>5, TimesMonotone
  <2> QED BY <1>1, <1>3, <1>4, <1>5, <2>1
<1>7. c \in Chunks(n, cs)
  BY <1>2, <1>5, <1>6
<1> QED BY <1>4, <1>7

\* Two chunks have no byte in common.
LEMMA ChunksApart ==
    ASSUME NEW c \in Nat, NEW d \in Nat, c # d, NEW cs \in Nat \ {0}
    PROVE  (c + 1) * cs <= d * cs \/ (d + 1) * cs <= c * cs
<1>1. CASE c + 1 <= d
  BY <1>1, TimesMonotone
<1>2. CASE d + 1 <= c
  BY <1>2, TimesMonotone
<1> QED BY <1>1, <1>2

-----------------------------------------------------------------------------
(* Reading and writing. *)

LEMMA SourceFacts ==
    ASSUME size \in Nat, version \in Nat
    PROVE  /\ Source \in Content
           /\ Len(Source) = size
           /\ \A i \in 1 .. size : Source[i] = Byte(version, i)
BY DEF Source, Content, Byte

LEMMA ReadChunkFacts ==
    ASSUME size \in Nat, version \in Nat, NEW cs \in Nat \ {0}, NEW c \in Chunks(size, cs)
    PROVE  /\ read_chunk(c, cs) \in Content
           /\ Len(read_chunk(c, cs)) = Least((c + 1) * cs, size) - c * cs
           /\ \A i \in 1 .. Least((c + 1) * cs, size) - c * cs :
                 read_chunk(c, cs)[i] = Byte(version, c * cs + i)
<1> DEFINE e == Least((c + 1) * cs, size)
           o == c * cs
<1>1. o \in Nat /\ e \in Nat /\ o < e /\ e <= size
  BY ChunkEnd
<1>2. read_chunk(c, cs) = SubSeq(Source, o + 1, e)
  BY DEF read_chunk
<1> HIDE DEF o, e
<1>3. /\ Source \in Content
      /\ \A i \in o + 1 .. e : i \in 1 .. size /\ Source[i] \in Nat \X Nat
      /\ \A i \in 1 .. size : Source[i] = Byte(version, i)
  BY <1>1, SourceFacts DEF Content, Byte
<1>4. /\ SubSeq(Source, o + 1, e) \in Content
      /\ Len(SubSeq(Source, o + 1, e)) = e - o
      /\ \A i \in 1 .. e - o : SubSeq(Source, o + 1, e)[i] = Source[o + i]
  <2>1. o + 1 \in Int /\ e \in Int /\ o + 1 <= e
    BY <1>1
  <2>2. /\ SubSeq(Source, o + 1, e) \in Content
        /\ Len(SubSeq(Source, o + 1, e)) = e - (o + 1) + 1
        /\ \A i \in 1 .. e - (o + 1) + 1 : SubSeq(Source, o + 1, e)[i] = Source[o + 1 + i - 1]
    BY <1>3, <2>1, SubSeqProperties DEF Content
  <2> QED BY <1>1, <2>2
<1>5. \A i \in 1 .. e - o : SubSeq(Source, o + 1, e)[i] = Byte(version, o + i)
  BY <1>1, <1>3, <1>4
<1> QED BY <1>2, <1>4, <1>5 DEF o, e

\* A chunk is on disk when every byte of it is at its place.
LEMMA OnDiskBytes ==
    ASSUME size \in Nat, version \in Nat, NEW cs \in Nat \ {0}, NEW c \in Chunks(size, cs),
           partial \in Content
    PROVE  OnDisk(c, cs) <=>
               /\ Len(partial) >= Least((c + 1) * cs, size)
               /\ \A i \in c * cs + 1 .. Least((c + 1) * cs, size) :
                     partial[i] = Byte(version, i)
<1> DEFINE e == Least((c + 1) * cs, size)
           o == c * cs
           r == read_chunk(c, cs)
<1>1. o \in Nat /\ e \in Nat /\ o < e /\ e <= size
  BY ChunkEnd
<1>2. r \in Content /\ Len(r) = e - o /\ \A i \in 1 .. e - o : r[i] = Byte(version, o + i)
  BY ReadChunkFacts
<1>3. OnDisk(c, cs) <=> Len(partial) >= e /\ SubSeq(partial, o + 1, e) = r
  BY DEF OnDisk
<1> HIDE DEF o, e, r
<1>4. SUFFICES ASSUME Len(partial) >= e
               PROVE  SubSeq(partial, o + 1, e) = r
                        <=> \A i \in o + 1 .. e : partial[i] = Byte(version, i)
  BY <1>3 DEF o, e
<1> DEFINE p == SubSeq(partial, o + 1, e)
<1>5. /\ p \in Content
      /\ Len(p) = e - o
      /\ \A i \in 1 .. e - o : p[i] = partial[o + i]
  <2>1. o + 1 \in Int /\ e \in Int /\ o + 1 <= e
    BY <1>1
  <2>2. \A i \in o + 1 .. e : partial[i] \in Nat \X Nat
    BY <1>1, <1>4 DEF Content
  <2>3. /\ p \in Content
        /\ Len(p) = e - (o + 1) + 1
        /\ \A i \in 1 .. e - (o + 1) + 1 : p[i] = partial[o + 1 + i - 1]
    BY <2>1, <2>2, SubSeqProperties DEF Content
  <2> QED BY <1>1, <2>3
<1> HIDE DEF p
<1>6. ASSUME p = r, NEW i \in o + 1 .. e PROVE partial[i] = Byte(version, i)
  <2>1. i - o \in 1 .. e - o /\ o + (i - o) = i
    BY <1>1
  <2>2. p[i - o] = partial[o + (i - o)] /\ r[i - o] = Byte(version, o + (i - o))
    BY <1>2, <1>5, <2>1
  <2> QED BY <1>6, <2>1, <2>2
<1>7. ASSUME \A i \in o + 1 .. e : partial[i] = Byte(version, i) PROVE p = r
  <2>1. \A i \in 1 .. e - o : p[i] = r[i]
    BY <1>1, <1>2, <1>5, <1>7
  <2> QED BY <1>1, <1>2, <1>5, <2>1, SeqEqual DEF Content
<1> QED BY <1>6, <1>7 DEF p

\* seek and write_all: the data is at its offset, the rest is as it was.
LEMMA WrittenAtFacts ==
    ASSUME NEW content \in Content, NEW offset \in Nat, NEW data \in Content
    PROVE  /\ WrittenAt(content, offset, data) \in Content
           /\ Len(WrittenAt(content, offset, data)) = Greatest(Len(content), offset + Len(data))
           /\ \A i \in offset + 1 .. offset + Len(data) :
                 WrittenAt(content, offset, data)[i] = data[i - offset]
           /\ \A i \in 1 .. Len(content) :
                 i \notin offset + 1 .. offset + Len(data)
                     => WrittenAt(content, offset, data)[i] = content[i]
<1> DEFINE n == Greatest(Len(content), offset + Len(data))
           w == WrittenAt(content, offset, data)
<1>1. Len(content) \in Nat /\ Len(data) \in Nat
  BY DEF Content
<1>2. n \in Nat /\ Len(content) <= n /\ offset + Len(data) <= n
  BY <1>1 DEF Greatest
<1>3. w = [i \in 1 .. n |-> IF i \in offset + 1 .. offset + Len(data) THEN data[i - offset]
                            ELSE IF i <= Len(content) THEN content[i]
                            ELSE Zero]
  BY DEF WrittenAt
<1> HIDE DEF n, w
<1>4. \A i \in offset + 1 .. offset + Len(data) : i \in 1 .. n /\ i - offset \in 1 .. Len(data)
  BY <1>1, <1>2
<1>5. w \in [1 .. n -> Nat \X Nat]
  <2>1. Zero \in Nat \X Nat
    BY DEF Zero
  <2> QED BY <1>1, <1>3, <1>4, <2>1 DEF Content
<1>6. w \in Content /\ Len(w) = n
  BY <1>2, <1>5 DEF Content
<1>7. \A i \in offset + 1 .. offset + Len(data) : w[i] = data[i - offset]
  BY <1>3, <1>4
<1>8. ASSUME NEW i \in 1 .. Len(content), i \notin offset + 1 .. offset + Len(data)
      PROVE  w[i] = content[i]
  BY <1>1, <1>2, <1>3, <1>8
<1> QED BY <1>6, <1>7, <1>8 DEF n, w

\* ChunkWriter::new keeps what is there, up to the expected size.
LEMMA OpenedFacts ==
    ASSUME NEW content \in Content \cup {None}, NEW expected \in Nat
    PROVE  /\ Opened(content, expected) \in Content
           /\ Len(Opened(content, expected)) <= expected
           /\ content = None => Len(Opened(content, expected)) = 0
           /\ content # None =>
                 /\ Len(Opened(content, expected)) = Least(Len(content), expected)
                 /\ \A i \in 1 .. Least(Len(content), expected) :
                       Opened(content, expected)[i] = content[i]
<1>1. CASE content = None
  BY <1>1 DEF Opened, Content
<1>2. CASE content # None
  <2> DEFINE n == Least(Len(content), expected)
  <2>1. content \in Seq(Nat \X Nat) /\ Len(content) \in Nat
    BY <1>2 DEF Content
  <2>2. n \in Nat /\ n <= Len(content) /\ n <= expected
    BY <2>1 DEF Least
  <2>3. Opened(content, expected) = SubSeq(content, 1, n)
    BY <1>2 DEF Opened
  <2> HIDE DEF n
  <2>4. \A i \in 1 .. n : content[i] \in Nat \X Nat
    BY <2>1, <2>2
  <2>5. /\ SubSeq(content, 1, n) \in Seq(Nat \X Nat)
        /\ Len(SubSeq(content, 1, n)) = n
        /\ \A i \in 1 .. n : SubSeq(content, 1, n)[i] = content[i]
    BY <2>1, <2>2, <2>4
  <2> QED BY <1>2, <2>2, <2>3, <2>5 DEF n, Content
<1> QED BY <1>1, <1>2

LEMMA ChunksFinite ==
    ASSUME NEW n \in Nat, NEW cs \in Nat \ {0}, NEW S \in SUBSET Chunks(n, cs)
    PROVE  /\ IsFiniteSet(S)
           /\ Cardinality(S) \in Nat
           /\ Cardinality(S) <= chunk_count(n, cs)
           /\ Cardinality(S) = chunk_count(n, cs) => S = Chunks(n, cs)
<1> DEFINE q == chunk_count(n, cs)
<1>1. q \in Nat /\ Chunks(n, cs) = 0 .. q - 1
  BY CountFacts
<1> HIDE DEF q
<1>2. IsFiniteSet(0 .. q - 1) /\ Cardinality(0 .. q - 1) = q
  <2>1. 0 \in Int /\ q - 1 \in Int
    BY <1>1
  <2> QED BY <1>1, <2>1, FS_Interval
<1>3. /\ IsFiniteSet(S)
      /\ Cardinality(S) <= q
      /\ Cardinality(S) = q => S = 0 .. q - 1
  BY <1>1, <1>2, FS_Subset
<1>4. Cardinality(S) \in Nat
  BY <1>3, FS_CardinalityType
<1> QED BY <1>1, <1>3, <1>4 DEF q

\* Chunk c of version v of a source of n bytes is in content, byte by byte.
InPlace(content, n, v, cs, c) ==
    /\ Len(content) >= Least((c + 1) * cs, n)
    /\ \A i \in c * cs + 1 .. Least((c + 1) * cs, n) : content[i] = Byte(v, i)

LEMMA StateFacts ==
    ASSUME FilesInv
    PROVE  /\ size \in Nat /\ version \in Nat
           /\ state # None =>
                 /\ state \in [chunk_size : ChunkSizes, chunks : SUBSET Nat]
                 /\ state.chunk_size \in ChunkSizes
                 /\ state.chunk_size \in Nat \ {0}
                 /\ state.chunks \subseteq Chunks(size, state.chunk_size)
<1>1. size \in Nat /\ version \in Nat
  BY PartialFileAssumption DEF FilesInv
<1>2. ASSUME state # None
      PROVE  /\ state \in [chunk_size : ChunkSizes, chunks : SUBSET Nat]
             /\ state.chunk_size \in ChunkSizes
             /\ state.chunks \subseteq Chunks(size, state.chunk_size)
  BY <1>2 DEF FilesInv
<1>3. ChunkSizes \subseteq Nat \ {0}
  BY PartialFileAssumption
<1> QED BY <1>1, <1>2, <1>3

LEMMA IntactBytes ==
    FilesInv => (WrittenChunksIntact <=>
                    \A c \in written : InPlace(partial, size, version, state.chunk_size, c))
<1> SUFFICES ASSUME FilesInv
             PROVE  \A c \in written :
                       OnDisk(c, state.chunk_size)
                          <=> InPlace(partial, size, version, state.chunk_size, c)
  BY DEF WrittenChunksIntact
<1> SUFFICES ASSUME NEW c \in written
             PROVE  OnDisk(c, state.chunk_size)
                       <=> InPlace(partial, size, version, state.chunk_size, c)
  OBVIOUS
<1>1. state # None /\ partial # None
  BY DEF FilesInv
<1>2. c \in Chunks(size, state.chunk_size) /\ partial \in Content
  BY <1>1 DEF FilesInv
<1> QED BY <1>1, <1>2, StateFacts, OnDiskBytes DEF InPlace

LEMMA IntactBytesNext ==
    FilesInv' => (WrittenChunksIntact' <=>
                    \A c \in written' : InPlace(partial', size', version', state'.chunk_size, c))
<1>1. (FilesInv => (WrittenChunksIntact <=>
                    \A c \in written : InPlace(partial, size, version, state.chunk_size, c)))'
  BY IntactBytes, PTL
<1> QED BY <1>1

\* A chunk stays in place when the content is only extended or changed elsewhere.
LEMMA InPlaceKept ==
    ASSUME NEW n \in Nat, NEW v, NEW cs \in Nat \ {0}, NEW c \in Chunks(n, cs),
           NEW a \in Content, NEW b \in Content,
           InPlace(a, n, v, cs, c),
           Len(b) >= Least((c + 1) * cs, n),
           \A i \in c * cs + 1 .. Least((c + 1) * cs, n) : b[i] = a[i]
    PROVE  InPlace(b, n, v, cs, c)
BY DEF InPlace

-----------------------------------------------------------------------------
(* One lemma per operation. *)

LEMMA ConfigFacts ==
    ASSUME SameConfig, NEW cs \in ChunkSizes
    PROVE  Negotiated(cs) = {cs} /\ cs \in Nat \ {0} /\ cs # None
BY PartialFileAssumption DEF SameConfig, Negotiated

LEMMA InitHolds == Init => IInv
<1> SUFFICES ASSUME Init PROVE IInv
  OBVIOUS
<1>1. FilesInv
  BY PartialFileAssumption DEF Init, FilesInv
<1>2. SessionInv /\ LengthInv /\ WrittenChunksIntact
  BY DEF Init, SessionInv, LengthInv, WrittenChunksIntact
<1> QED BY <1>1, <1>2 DEF IInv

\* The sender starts a transfer; the state claims nothing yet.
LEMMA StartSendKeeps ==
    ASSUME SameConfig, IInv, NEW n \in 0 .. MaxSize, NEW cs \in ChunkSizes, StartSend(n, cs)
    PROVE  IInv'
<1> DEFINE q == chunk_count(n, cs)
<1>1. cs \in Nat \ {0} /\ cs # None /\ n \in Nat
  BY ConfigFacts, PartialFileAssumption
<1>2. /\ state' = [chunk_size |-> cs, chunks |-> {}]
      /\ chunk_size' = cs /\ unacked' = None /\ inflight' = {}
      /\ left' = Greatest(q - Cardinality({}), 0)
      /\ partial' = Opened(partial, q * cs)
      /\ version' = version + 1 /\ size' = n /\ written' = {} /\ clean' = (partial = None)
  BY ConfigFacts DEF StartSend, SessionWith, StreamsToReceive
<1>3. q \in Nat /\ q * cs \in Nat /\ n <= q * cs
  BY <1>1, CountFacts
<1>4. /\ partial' \in Content /\ Len(partial') <= q * cs
      /\ partial = None => Len(partial') = 0
  BY <1>2, <1>3, OpenedFacts DEF IInv, FilesInv
<1>5. partial' # None
  BY <1>4, PartialFileAssumption DEF Content
<1> HIDE DEF q
<1>6. left' = q
  BY <1>2, <1>3, FS_EmptySet DEF Greatest
<1>7. FilesInv'
  <2>1. version' \in 0 .. MaxTransfers
    BY <1>2, PartialFileAssumption DEF StartSend, IInv, FilesInv
  <2>2. /\ state' \in [chunk_size : ChunkSizes, chunks : SUBSET Nat]
        /\ state'.chunks \cup written' = {}
    BY <1>2
  <2>3. state' # None
    BY <2>2, PartialFileAssumption
  <2> QED BY <1>2, <1>4, <2>1, <2>2, <2>3 DEF FilesInv
<1>8. SessionInv'
  <2>1. SentChunks' = {}
    BY <1>2 DEF SentChunks
  <2>2. q = chunk_count(size', chunk_size')
    BY <1>2 DEF q
  <2>3. Cardinality(SentChunks' \ inflight') = 0
    BY <1>2, <2>1, FS_EmptySet
  <2> QED BY <1>2, <1>3, <1>5, <1>6, <2>1, <2>2, <2>3 DEF SessionInv
<1>9. LengthInv'
  <2>1. q * cs = chunk_count(size', chunk_size') * chunk_size'
    BY <1>2 DEF q
  <2>2. ASSUME clean' PROVE Len(partial') <= size'
    <3>1. partial = None
      BY <1>2, <2>2
    <3> QED BY <1>1, <1>2, <1>4, <3>1
  <2> QED BY <1>4, <2>1, <2>2 DEF LengthInv
<1>10. WrittenChunksIntact'
  BY <1>2 DEF WrittenChunksIntact
<1> QED BY <1>7, <1>8, <1>9, <1>10 DEF IInv

\* A later session: .partial is opened again and cut off behind the last chunk.
LEMMA ResumeKeeps ==
    ASSUME SameConfig, IInv, Resume
    PROVE  IInv'
<1> DEFINE cs == state.chunk_size
           q  == chunk_count(size, cs)
<1>0. /\ FilesInv /\ state # None /\ size \in Nat
      /\ cs \in ChunkSizes /\ cs \in Nat \ {0}
      /\ state.chunks \subseteq Chunks(size, cs)
  BY StateFacts DEF Resume, IInv
<1>1. /\ UNCHANGED <<version, size, state, final, written, clean>>
      /\ chunk_size' = cs /\ unacked' = None /\ inflight' = {}
      /\ left' = Greatest(q - Cardinality(state.chunks), 0)
      /\ partial' = Opened(partial, q * cs)
  BY <1>0, ConfigFacts DEF Resume, SessionWith, StreamsToReceive
<1>2. q \in Nat /\ q * cs \in Nat /\ size <= q * cs
  BY <1>0, CountFacts
<1>3. /\ partial' \in Content /\ Len(partial') <= q * cs
      /\ partial = None => Len(partial') = 0
      /\ partial # None =>
            /\ Len(partial') = Least(Len(partial), q * cs)
            /\ \A i \in 1 .. Least(Len(partial), q * cs) : partial'[i] = partial[i]
  BY <1>0, <1>1, <1>2, OpenedFacts DEF FilesInv
<1>4. partial' # None
  BY <1>3, PartialFileAssumption DEF Content
<1>5. cs # None /\ None \notin state.chunks
  BY <1>0, PartialFileAssumption, StateFacts
<1>6. FilesInv'
  BY <1>0, <1>1, <1>3, <1>4 DEF FilesInv
<1>7. SessionInv'
  <2>1. SentChunks' \ inflight' = state.chunks
    BY <1>1, <1>5 DEF SentChunks
  <2>2. Cardinality(state.chunks) \in Nat /\ Cardinality(state.chunks) <= q
    BY <1>0, ChunksFinite
  <2>3. q = chunk_count(size', chunk_size')
    BY <1>1
  <2> HIDE DEF q
  <2>4. left' \in Nat /\ left' + Cardinality(state.chunks) = q
    BY <1>1, <1>2, <2>2 DEF Greatest
  <2>5. /\ chunk_size' = state'.chunk_size /\ unacked' = None /\ unacked' \notin state'.chunks
        /\ inflight' \subseteq SentChunks'
    BY <1>1, <1>5
  <2>6. partial' # None => SentChunks' \ inflight' \subseteq state'.chunks \cup written'
    BY <1>1, <2>1
  <2> QED BY <1>4, <2>1, <2>3, <2>4, <2>5, <2>6 DEF SessionInv
<1>8. LengthInv'
  <2>1. q * cs = chunk_count(size', chunk_size') * chunk_size'
    BY <1>1
  <2> HIDE DEF q, cs
  <2>2. ASSUME clean' PROVE Len(partial') <= size'
    <3>1. CASE partial = None
      BY <1>0, <1>1, <1>3, <3>1
    <3>2. CASE partial # None
      <4>1. Len(partial) \in Nat /\ Len(partial) <= size
        BY <1>0, <1>1, <2>2, <3>2 DEF IInv, LengthInv, FilesInv, Content
      <4> QED BY <1>0, <1>1, <1>2, <1>3, <3>2, <4>1 DEF Least
    <3> QED BY <3>1, <3>2
  <2> QED BY <1>3, <2>1, <2>2 DEF LengthInv
<1>9. WrittenChunksIntact'
  <2> SUFFICES ASSUME NEW c \in written
               PROVE  InPlace(partial', size, version, cs, c)
    BY <1>1, <1>6, IntactBytesNext
  <2>1. c \in Chunks(size, cs) /\ partial # None /\ partial \in Content
    BY <1>0 DEF FilesInv
  <2>2. InPlace(partial, size, version, cs, c)
    BY <1>0, IntactBytes DEF IInv
  <2> DEFINE e == Least((c + 1) * cs, size)
             o == c * cs
  <2>3. o \in Nat /\ e \in Nat /\ e <= size
    BY <1>0, <2>1, ChunkEnd
  <2>4. Len(partial) \in Nat /\ Len(partial) >= e
    BY <2>1, <2>2 DEF InPlace, Content
  <2> HIDE DEF o, e, q, cs
  <2>5. Len(partial') >= e /\ \A i \in o + 1 .. e : partial'[i] = partial[i]
    <3>1. e <= Least(Len(partial), q * cs)
      BY <1>0, <1>2, <2>3, <2>4 DEF Least
    <3>2. Least(Len(partial), q * cs) \in Nat
      BY <1>2, <2>4 DEF Least
    <3> QED BY <1>3, <2>1, <2>3, <3>1, <3>2
  <2> QED BY <1>0, <1>3, <2>1, <2>2, <2>5, InPlaceKept DEF o, e
<1> QED BY <1>6, <1>7, <1>8, <1>9 DEF IInv

\* What holds in a session.
LEMMA SessionFacts ==
    ASSUME IInv, chunk_size # None
    PROVE  /\ FilesInv /\ state # None /\ size \in Nat /\ version \in Nat
           /\ chunk_size = state.chunk_size
           /\ chunk_size \in ChunkSizes /\ chunk_size \in Nat \ {0}
           /\ state.chunks \subseteq Chunks(size, chunk_size)
           /\ written \subseteq Chunks(size, chunk_size)
           /\ None \notin Chunks(size, chunk_size)
           /\ SentChunks \subseteq Chunks(size, chunk_size)
           /\ inflight \subseteq SentChunks
<1>1. FilesInv /\ state # None /\ chunk_size = state.chunk_size
  BY DEF IInv, FilesInv, SessionInv
<1>2. /\ size \in Nat /\ version \in Nat
      /\ chunk_size \in ChunkSizes /\ chunk_size \in Nat \ {0}
      /\ state.chunks \subseteq Chunks(size, chunk_size)
  BY <1>1, StateFacts
<1>3. written \subseteq Chunks(size, chunk_size)
  BY <1>1 DEF FilesInv
<1>4. None \notin Chunks(size, chunk_size)
  BY <1>2, PartialFileAssumption, CountFacts
<1>5. inflight \subseteq SentChunks /\ unacked \in Chunks(size, chunk_size) \cup {None}
  BY DEF IInv, SessionInv
<1>6. SentChunks \subseteq Chunks(size, chunk_size)
  BY <1>2, <1>5 DEF SentChunks
<1> QED BY <1>1, <1>2, <1>3, <1>4, <1>5, <1>6

LEMMA SendChunkKeeps ==
    ASSUME IInv, SendChunk
    PROVE  IInv'
<1>0. chunk_size # None /\ unacked = None
  BY DEF SendChunk
<1>1. PICK c \in Chunks(size, chunk_size) \ state.chunks :
          unacked' = c /\ inflight' = inflight \cup {c}
  BY DEF SendChunk
<1>2. UNCHANGED <<version, size, state, chunk_size, left, partial, final, written, clean>>
  BY DEF SendChunk
<1>3. c # None
  BY <1>0, SessionFacts
<1>4. SentChunks' = SentChunks \cup {c} /\ c \notin SentChunks
  BY <1>0, <1>1, <1>2, <1>3 DEF SentChunks
<1>5. inflight' \subseteq SentChunks' /\ SentChunks' \ inflight' = SentChunks \ inflight
  BY <1>0, <1>1, <1>4, SessionFacts
<1>6. FilesInv' /\ LengthInv' /\ WrittenChunksIntact'
  BY <1>2 DEF IInv, FilesInv, LengthInv, WrittenChunksIntact, OnDisk, read_chunk, Source
<1>7. SessionInv'
  BY <1>0, <1>1, <1>2, <1>5 DEF IInv, SessionInv
<1> QED BY <1>6, <1>7 DEF IInv

\* The chunk moves from unacked to the claims.
LEMMA ChunkAcknowledgedKeeps ==
    ASSUME IInv, ChunkAcknowledged
    PROVE  IInv'
<1>0. chunk_size # None /\ unacked # None
  BY DEF ChunkAcknowledged
<1>1. /\ state' = [state EXCEPT !.chunks = @ \cup {unacked}] /\ unacked' = None
      /\ UNCHANGED <<version, size, chunk_size, inflight, left, partial, final, written, clean>>
  BY DEF ChunkAcknowledged
<1>2. unacked \in Chunks(size, chunk_size)
  BY <1>0 DEF IInv, SessionInv
<1>3. state \in [chunk_size : ChunkSizes, chunks : SUBSET Nat]
  BY <1>0, SessionFacts, StateFacts
<1>4. unacked \in Nat
  BY <1>0, <1>2, SessionFacts, CountFacts
<1>5. /\ state' \in [chunk_size : ChunkSizes, chunks : SUBSET Nat]
      /\ state'.chunk_size = state.chunk_size
      /\ state'.chunks = state.chunks \cup {unacked}
  BY <1>1, <1>3, <1>4
<1>6. state' # None
  BY <1>5, PartialFileAssumption
<1>7. SentChunks' = SentChunks /\ unacked' \notin state'.chunks
  BY <1>0, <1>1, <1>2, <1>5, SessionFacts DEF SentChunks
<1>8. FilesInv'
  <2>1. (state'.chunks \cup written') \subseteq Chunks(size', state'.chunk_size)
    BY <1>0, <1>1, <1>2, <1>5, SessionFacts
  <2> QED BY <1>0, <1>1, <1>5, <1>6, <2>1 DEF IInv, FilesInv
<1>9. SessionInv'
  <2>1. SentChunks \ inflight \subseteq state.chunks \cup written
          => SentChunks' \ inflight' \subseteq state'.chunks \cup written'
    BY <1>1, <1>5, <1>7
  <2> QED BY <1>0, <1>1, <1>5, <1>7, <2>1 DEF IInv, SessionInv
<1>10. LengthInv'
  BY <1>1 DEF IInv, LengthInv
<1>11. WrittenChunksIntact'
  BY <1>1, <1>5 DEF IInv, WrittenChunksIntact, OnDisk, read_chunk, Source
<1> QED BY <1>8, <1>9, <1>10, <1>11 DEF IInv

\* The chunk is written at its offset; no other chunk has a byte there.
LEMMA RecvChunkKeeps ==
    ASSUME IInv, NEW c \in inflight, RecvChunk(c)
    PROVE  IInv'
<1> DEFINE cs == chunk_size
           q  == chunk_count(size, cs)
           o  == c * cs
           e  == Least((c + 1) * cs, size)
           r  == read_chunk(c, cs)
<1>0. chunk_size # None /\ left > 0
  BY DEF RecvChunk
<1>1. /\ inflight' = inflight \ {c} /\ left' = left - 1
      /\ partial' = WrittenAt(partial, o, r)
      /\ written' = written \cup {c}
      /\ UNCHANGED <<version, size, state, chunk_size, unacked, final, clean>>
  BY DEF RecvChunk
<1>2. /\ FilesInv /\ state # None /\ size \in Nat /\ version \in Nat
      /\ cs = state.chunk_size /\ cs \in Nat \ {0}
      /\ state.chunks \subseteq Chunks(size, cs) /\ written \subseteq Chunks(size, cs)
      /\ SentChunks \subseteq Chunks(size, cs) /\ inflight \subseteq SentChunks
  BY <1>0, SessionFacts
<1>3. c \in Chunks(size, cs) /\ c \in Nat
  BY <1>2, CountFacts
<1>4. /\ left \in Nat /\ partial # None /\ partial \in Content /\ Len(partial) \in Nat
      /\ left + Cardinality(SentChunks \ inflight) = q
      /\ SentChunks \ inflight \subseteq state.chunks \cup written
  BY <1>0 DEF IInv, SessionInv, FilesInv, Content
<1>5. /\ o \in Nat /\ e \in Nat /\ o < e /\ e <= size
      /\ q \in Nat /\ q * cs \in Nat /\ e <= q * cs
  <2>1. o \in Nat /\ e \in Nat /\ o < e /\ e <= size /\ e <= (c + 1) * cs
    BY <1>2, <1>3, ChunkEnd
  <2>2. q \in Nat /\ q * cs \in Nat /\ size <= q * cs
    BY <1>2, <1>3, CountFacts
  <2> HIDE DEF o, e, q
  <2> QED BY <1>2, <2>1, <2>2
<1>6. /\ r \in Content /\ Len(r) = e - o
      /\ \A i \in 1 .. e - o : r[i] = Byte(version, o + i)
  BY <1>2, <1>3, ReadChunkFacts
<1>7. /\ partial' \in Content /\ Len(partial') = Greatest(Len(partial), e)
      /\ \A i \in o + 1 .. e : partial'[i] = Byte(version, i)
      /\ \A i \in 1 .. Len(partial) : i \notin o + 1 .. e => partial'[i] = partial[i]
  <2> HIDE DEF o, e, r
  <2>1. o + Len(r) = e
    BY <1>5, <1>6
  <2>2. /\ partial' \in Content /\ Len(partial') = Greatest(Len(partial), e)
        /\ \A i \in o + 1 .. e : partial'[i] = r[i - o]
        /\ \A i \in 1 .. Len(partial) : i \notin o + 1 .. e => partial'[i] = partial[i]
    <3> DEFINE w == WrittenAt(partial, o, r)
    <3>1. /\ w \in Content /\ Len(w) = Greatest(Len(partial), o + Len(r))
          /\ \A i \in o + 1 .. o + Len(r) : w[i] = r[i - o]
          /\ \A i \in 1 .. Len(partial) : i \notin o + 1 .. o + Len(r) => w[i] = partial[i]
      BY <1>4, <1>5, <1>6, WrittenAtFacts
    <3>2. partial' = w
      BY <1>1
    <3> HIDE DEF w
    <3> QED BY <2>1, <3>1, <3>2
  <2>3. ASSUME NEW i \in o + 1 .. e PROVE r[i - o] = Byte(version, i)
    <3>1. i - o \in 1 .. e - o /\ o + (i - o) = i
      BY <1>5
    <3>2. r[i - o] = Byte(version, o + (i - o))
      BY <1>6, <3>1
    <3> QED BY <3>1, <3>2
  <2> QED BY <2>2, <2>3
<1>8. partial' # None
  BY <1>7, PartialFileAssumption DEF Content
<1>9. Len(partial') >= Len(partial) /\ Len(partial') >= e
  <2> HIDE DEF e
  <2> QED BY <1>4, <1>5, <1>7 DEF Greatest
<1>10. FilesInv'
  <2>1. (state'.chunks \cup written') \subseteq Chunks(size', state'.chunk_size)
    BY <1>1, <1>2, <1>3
  <2> QED BY <1>1, <1>2, <1>7, <1>8, <2>1 DEF FilesInv
<1>11. SessionInv'
  <2> DEFINE Seen == SentChunks \ inflight
  <2>1. SentChunks' = SentChunks
    BY <1>1 DEF SentChunks
  <2>2. Seen' = Seen \cup {c} /\ c \notin Seen /\ inflight' \subseteq SentChunks'
    BY <1>1, <1>2, <2>1
  <2>3. IsFiniteSet(Seen) /\ Cardinality(Seen) \in Nat
    <3>1. Seen \in SUBSET Chunks(size, cs)
      BY <1>2
    <3> QED BY <1>2, <3>1, ChunksFinite
  <2>4. Cardinality(Seen') = Cardinality(Seen) + 1
    BY <2>2, <2>3, FS_AddElement
  <2>5. Seen' \subseteq state'.chunks \cup written'
    BY <1>1, <1>4, <2>2
  <2>6. q' = q
    BY <1>1
  <2> DEFINE k == Cardinality(Seen)
  <2>7. left + k = q /\ k' = k + 1 /\ k \in Nat
    BY <1>4, <2>3, <2>4
  <2>8. left' \in Nat /\ left' + k' = q'
    <3> HIDE DEF q, k
    <3> QED BY <1>0, <1>1, <1>4, <2>6, <2>7
  <2>9. /\ chunk_size' = state'.chunk_size
        /\ unacked' \in Chunks(size', chunk_size') \cup {None}
        /\ unacked' \notin state'.chunks
    BY <1>0, <1>1 DEF IInv, SessionInv
  <2> QED BY <1>8, <2>2, <2>5, <2>8, <2>9 DEF SessionInv
<1>12. LengthInv'
  <2>1. Len(partial) <= q * cs /\ (clean => Len(partial) <= size)
    BY <1>0, <1>4 DEF IInv, LengthInv
  <2>2. q * cs = chunk_count(size', chunk_size') * chunk_size'
    BY <1>1
  <2> HIDE DEF q, cs, e
  <2>3. Len(partial') <= q * cs
    BY <1>4, <1>5, <1>7, <2>1 DEF Greatest
  <2>4. ASSUME clean' PROVE Len(partial') <= size'
    <3>1. Len(partial) <= size
      BY <1>1, <2>1, <2>4
    <3> QED BY <1>1, <1>2, <1>4, <1>5, <1>7, <3>1 DEF Greatest
  <2> QED BY <2>2, <2>3, <2>4 DEF LengthInv
<1>13. WrittenChunksIntact'
  <2> SUFFICES ASSUME NEW d \in written \cup {c}
               PROVE  InPlace(partial', size, version, cs, d)
    <3>1. /\ size' = size /\ version' = version /\ state'.chunk_size = cs
          /\ written' = written \cup {c}
      BY <1>1, <1>2
    <3> HIDE DEF cs
    <3> QED BY <1>10, <3>1, IntactBytesNext
  <2>1. CASE d = c
    BY <1>7, <1>9, <2>1 DEF InPlace
  <2>2. CASE d # c
    <3> DEFINE p == d * cs
               f == Least((d + 1) * cs, size)
    <3>1. d \in written /\ d \in Chunks(size, cs) /\ d \in Nat
      BY <1>2, <2>2, CountFacts
    <3>2. InPlace(partial, size, version, cs, d)
      BY <1>2, <3>1, IntactBytes DEF IInv
    <3>3. p \in Nat /\ f \in Nat /\ p < f /\ f <= (d + 1) * cs
      BY <1>2, <3>1, ChunkEnd
    <3>4. e <= (c + 1) * cs
      BY <1>2, <1>3, ChunkEnd
    <3>5. (c + 1) * cs <= p \/ (d + 1) * cs <= o
      BY <1>2, <1>3, <2>2, <3>1, ChunksApart
    <3>6. f <= Len(partial)
      BY <3>2 DEF InPlace
    <3>7. (c + 1) * cs \in Int /\ (d + 1) * cs \in Int
      BY <1>2, <1>3, <3>1
    <3> DEFINE x == (c + 1) * cs
               y == (d + 1) * cs
    <3>8. /\ f <= y /\ e <= x /\ x \in Int /\ y \in Int
          /\ x <= p \/ y <= o
      BY <3>3, <3>4, <3>5, <3>7
    <3> HIDE DEF o, e, p, f, x, y
    <3>9. e <= p \/ f <= o
      BY <1>5, <3>3, <3>8
    <3>10. Len(partial') >= f
      <4>1. Len(partial') \in Nat
        BY <1>7 DEF Content
      <4> QED BY <1>4, <1>9, <3>3, <3>6, <4>1
    <3>11. ASSUME NEW i \in p + 1 .. f PROVE partial'[i] = partial[i]
      <4>1. i \in 1 .. Len(partial) /\ i \notin o + 1 .. e
        BY <1>4, <1>5, <3>3, <3>6, <3>9
      <4> QED BY <1>7, <4>1
    <3> HIDE DEF cs
    <3> QED BY <1>2, <1>4, <1>7, <3>1, <3>2, <3>10, <3>11, InPlaceKept DEF p, f
  <2> QED BY <2>1, <2>2
<1> QED BY <1>10, <1>11, <1>12, <1>13 DEF IInv

\* finalize, the verdict and an interruption write nothing to .partial.
LEMMA SettledKeeps ==
    ASSUME IInv, Finalize \/ Verdict \/ Interrupt \/ UNCHANGED vars
    PROVE  IInv'
<1>1. CASE Finalize
  <2>1. /\ chunk_size # None /\ left = 0 /\ partial' = None /\ written' = {}
        /\ UNCHANGED <<version, size, state, chunk_size, unacked, inflight, left, clean>>
    BY <1>1 DEF Finalize, sessionVars
  <2>2. FilesInv'
    BY <2>1 DEF IInv, FilesInv
  <2>3. SessionInv'
    BY <2>1 DEF IInv, SessionInv, SentChunks
  <2>4. LengthInv' /\ WrittenChunksIntact'
    BY <2>1 DEF LengthInv, WrittenChunksIntact
  <2> QED BY <2>2, <2>3, <2>4 DEF IInv
<1>2. CASE Verdict
  <2>1. /\ partial = None /\ state' \in {state, None} /\ chunk_size' = None
        /\ UNCHANGED <<version, size, unacked, inflight, left, partial, final, written, clean>>
    BY <1>2 DEF Verdict
  <2>2. written = {}
    BY <2>1 DEF IInv, FilesInv
  <2>3. FilesInv'
    BY <2>1, <2>2 DEF IInv, FilesInv
  <2>4. SessionInv' /\ LengthInv' /\ WrittenChunksIntact'
    BY <2>1, <2>2 DEF SessionInv, LengthInv, WrittenChunksIntact
  <2> QED BY <2>3, <2>4 DEF IInv
<1>3. CASE Interrupt
  <2>1. /\ chunk_size' = None
        /\ UNCHANGED <<version, size, state, partial, final, written, clean>>
    BY <1>3 DEF Interrupt
  <2>2. FilesInv'
    BY <2>1 DEF IInv, FilesInv
  <2>3. SessionInv' /\ LengthInv'
    BY <2>1 DEF IInv, SessionInv, LengthInv
  <2>4. WrittenChunksIntact'
    BY <2>1 DEF IInv, WrittenChunksIntact, OnDisk, read_chunk, Source
  <2> QED BY <2>2, <2>3, <2>4 DEF IInv
<1>4. CASE UNCHANGED vars
  <2>1. FilesInv' /\ SessionInv' /\ LengthInv'
    BY <1>4 DEF vars, IInv, FilesInv, SessionInv, SentChunks, LengthInv
  <2>2. WrittenChunksIntact'
    BY <1>4 DEF vars, IInv, WrittenChunksIntact, OnDisk, read_chunk, Source
  <2> QED BY <2>1, <2>2 DEF IInv
<1> QED BY <1>1, <1>2, <1>3, <1>4

LEMMA NextKeeps ==
    ASSUME SameConfig, IInv, [Next]_vars
    PROVE  IInv'
<1>1. CASE \E n \in 0 .. MaxSize, cs \in ChunkSizes : StartSend(n, cs)
  BY <1>1, StartSendKeeps
<1>2. CASE Resume
  BY <1>2, ResumeKeeps
<1>3. CASE SendChunk
  BY <1>3, SendChunkKeeps
<1>4. CASE ChunkAcknowledged
  BY <1>4, ChunkAcknowledgedKeeps
<1>5. CASE \E c \in inflight : RecvChunk(c)
  BY <1>5, RecvChunkKeeps
<1>6. CASE Finalize \/ Verdict \/ Interrupt \/ UNCHANGED vars
  BY <1>6, SettledKeeps
<1> QED BY <1>1, <1>2, <1>3, <1>4, <1>5, <1>6 DEF Next

\* Every step of send_file and of receive_file's ChunkWriter, and every
\* interruption, keeps the inductive invariant.
THEOREM Invariance ==
    ASSUME SameConfig
    PROVE  Spec => []IInv
<1>1. IInv /\ [Next]_vars => IInv'
  BY NextKeeps
<1> QED BY <1>1, InitHolds, PTL DEF Spec

-----------------------------------------------------------------------------
(* The properties. *)

LEMMA TypeOfIInv == IInv => TypeOK
<1> SUFFICES ASSUME IInv PROVE TypeOK
  OBVIOUS
<1>1. /\ version \in 0 .. MaxTransfers /\ size \in 0 .. MaxSize /\ clean \in BOOLEAN
  BY DEF IInv, FilesInv
<1>2. state = None \/ /\ state.chunk_size \in ChunkSizes
                      /\ state.chunks \subseteq Chunks(size, state.chunk_size)
  BY StateFacts DEF IInv
<1>3. chunk_size \in ChunkSizes \cup {None}
  BY SessionFacts
<1>4. ASSUME chunk_size # None
      PROVE  /\ state # None
             /\ inflight \cup written \subseteq Chunks(size, chunk_size)
             /\ unacked \in Chunks(size, chunk_size) \cup {None}
             /\ left \in 0 .. chunk_count(size, chunk_size)
             /\ partial = None => left = 0
  <2> DEFINE q == chunk_count(size, chunk_size)
             k == Cardinality(SentChunks \ inflight)
  <2>1. state # None /\ inflight \cup written \subseteq Chunks(size, chunk_size)
    BY <1>4, SessionFacts
  <2>2. /\ unacked \in Chunks(size, chunk_size) \cup {None}
        /\ left \in Nat /\ left + k = q
        /\ partial = None => left = 0
    BY <1>4 DEF IInv, SessionInv
  <2>3. k \in Nat
    <3>1. SentChunks \ inflight \in SUBSET Chunks(size, chunk_size)
      BY <1>4, SessionFacts
    <3> QED BY <1>4, <3>1, SessionFacts, ChunksFinite
  <2> HIDE DEF k, q
  <2>4. left \in 0 .. q
    BY <2>2, <2>3
  <2> QED BY <2>1, <2>2, <2>4 DEF q
<1> QED BY <1>1, <1>2, <1>3, <1>4 DEF TypeOK

\* finalize after the last stream: every chunk was written, so every byte is there.
LEMMA FinalizeDelivers ==
    ASSUME IInv, Finalize, ClaimsTrue
    PROVE  /\ Len(final') >= size
           /\ SubSeq(final', 1, size) = Source
           /\ Len(final') <= chunk_count(size, chunk_size) * chunk_size
           /\ clean => final' = Source
<1> DEFINE cs == chunk_size
           q  == chunk_count(size, cs)
<1>1. chunk_size # None /\ left = 0 /\ partial # None /\ final' = partial
  BY DEF Finalize
<1>2. /\ FilesInv /\ size \in Nat /\ version \in Nat
      /\ cs = state.chunk_size /\ cs \in Nat \ {0}
      /\ SentChunks \subseteq Chunks(size, cs)
  BY <1>1, SessionFacts
<1>3. partial \in Content /\ Len(partial) \in Nat
  BY <1>1, <1>2 DEF FilesInv, Content
<1>4. Chunks(size, cs) \subseteq written
  <2>1. /\ left + Cardinality(SentChunks \ inflight) = q
        /\ SentChunks \ inflight \subseteq state.chunks \cup written
    BY <1>1 DEF IInv, SessionInv
  <2>2. SentChunks \ inflight \in SUBSET Chunks(size, cs)
    BY <1>2
  <2>3. Cardinality(SentChunks \ inflight) \in Nat
    BY <1>2, <2>2, ChunksFinite
  <2>4. Cardinality(SentChunks \ inflight) = q
    <3> HIDE DEF q
    <3> QED BY <1>1, <2>1, <2>3
  <2>5. SentChunks \ inflight = Chunks(size, cs)
    BY <1>2, <2>2, <2>4, ChunksFinite
  <2> QED BY <2>1, <2>5 DEF ClaimsTrue
<1>5. ASSUME NEW i \in 1 .. size
      PROVE  i <= Len(partial) /\ partial[i] = Byte(version, i)
  <2>1. PICK c \in Chunks(size, cs) : c * cs < i /\ i <= (c + 1) * cs
    BY <1>2, ChunkOfByte
  <2>2. InPlace(partial, size, version, cs, c)
    BY <1>2, <1>4, IntactBytes DEF IInv
  <2> DEFINE o == c * cs
             e == Least((c + 1) * cs, size)
  <2>3. /\ o \in Nat /\ e \in Nat
        /\ Len(partial) >= e /\ \A j \in o + 1 .. e : partial[j] = Byte(version, j)
    BY <1>2, <2>2, ChunkEnd DEF InPlace
  <2>4. o < i /\ i <= e
    BY <2>1 DEF Least
  <2> HIDE DEF o, e
  <2>5. i \in o + 1 .. e
    BY <2>3, <2>4
  <2> QED BY <1>3, <2>3, <2>4, <2>5
<1>6. Len(partial) >= size
  <2>1. CASE size = 0
    BY <1>3, <2>1
  <2>2. CASE size # 0
    BY <1>2, <1>5, <2>2
  <2> QED BY <2>1, <2>2
<1>7. Source \in Content /\ Len(Source) = size /\ \A i \in 1 .. size : Source[i] = Byte(version, i)
  BY <1>2, SourceFacts
<1>8. SubSeq(partial, 1, size) = Source
  <2>1. /\ SubSeq(partial, 1, size) \in Seq(Nat \X Nat)
        /\ Len(SubSeq(partial, 1, size)) = size
        /\ \A i \in 1 .. size : SubSeq(partial, 1, size)[i] = partial[i]
    <3>1. \A i \in 1 .. size : partial[i] \in Nat \X Nat
      BY <1>2, <1>3, <1>6 DEF Content
    <3> QED BY <1>2, <1>3, <1>6, <3>1 DEF Content
  <2> QED BY <1>2, <1>5, <1>7, <2>1, SeqEqual DEF Content
<1>9. Len(partial) <= q * cs
  BY <1>1 DEF IInv, LengthInv
<1>10. ASSUME clean PROVE partial = Source
  <2>1. Len(partial) <= size
    BY <1>1, <1>10 DEF IInv, LengthInv
  <2>2. Len(partial) = Len(Source)
    BY <1>2, <1>3, <1>6, <1>7, <2>1
  <2>3. \A i \in 1 .. Len(partial) : partial[i] = Source[i]
    BY <1>5, <1>7, <2>2
  <2> QED BY <1>3, <1>7, <2>2, <2>3, SeqEqual DEF Content
<1> QED BY <1>1, <1>6, <1>8, <1>9, <1>10

\* The resume state, the session and .partial keep their shape, for every size of
\* the file and every chunk size: every chunk the state claims, that is on its way
\* or that was written is a chunk of the file, and receive_file never waits for
\* more streams than the file has chunks.
THEOREM TypeCorrect ==
    ASSUME SameConfig
    PROVE  Spec => []TypeOK
BY TypeOfIInv, Invariance, PTL

\* ChunkWriter: a chunk once written to .partial keeps its bytes, whatever chunks
\* are written around it and however often a later session opens the file again
\* and cuts it off.
THEOREM WrittenStaysWritten ==
    ASSUME SameConfig
    PROVE  Spec => []WrittenChunksIntact
<1>1. IInv => WrittenChunksIntact
  BY DEF IInv
<1> QED BY <1>1, Invariance, PTL

\* ChunkWriter::finalize: when the claims of the resume state are true, the file
\* that takes the final name begins with the source, byte for byte, and ends
\* with the last chunk at the latest.
THEOREM SourceIsDelivered ==
    ASSUME SameConfig
    PROVE  Spec => SourceDelivered
<1>1. IInv /\ [Next]_vars =>
         [Finalize /\ ClaimsTrue =>
             /\ Len(final') >= size
             /\ SubSeq(final', 1, size) = Source
             /\ Len(final') <= chunk_count(size, chunk_size) * chunk_size]_vars
  BY FinalizeDelivers
<1> QED BY <1>1, Invariance, PTL DEF Spec, SourceDelivered

\* ChunkWriter::new and finalize: a transfer that found no .partial delivers
\* exactly the source, however often it was interrupted.
THEOREM ExactlyTheSource ==
    ASSUME SameConfig
    PROVE  Spec => ExactWithoutLeftover
<1>1. IInv /\ [Next]_vars => [Finalize /\ ClaimsTrue /\ clean => final' = Source]_vars
  BY FinalizeDelivers
<1> QED BY <1>1, Invariance, PTL DEF Spec, ExactWithoutLeftover
=============================================================================
