--------------------------- MODULE TraversalProofs ---------------------------
(***************************************************************************)
(* Proofs about Traversal: whatever the delays, the losses and the order   *)
(* in which the two races end, a session is over the connection that both  *)
(* peers have kept.                                                        *)
(***************************************************************************)
EXTENDS Traversal, TLAPS

-----------------------------------------------------------------------------
(* The inductive invariant. *)

Messages == {"Hello", "HelloAck", "Config", "ConfigAck"}

Undecided == {"stun", "register", "waiting", "hello", "race"}

\* A race returns once: until then the peer has kept no connection, and what it
\* has kept it keeps.
KeptOnce == \A p \in Peer : phase[p] \in Undecided => kept[p] = 0

\* A session is over a connection.
SessionsKept == \A p \in Peer : phase[p] = "session" => kept[p] \in Peer

\* Only a match is not of a connection.
ConnectionsNamed == \A x \in packets : x.kind # "match" => x.conn \in Peer

\* A message of the session's handshake is on the connection its sender has kept.
MessagesOnKept == \A x \in packets : x.kind \in Messages => kept[Other(x.to)] = x.conn

\* The server's answer is read once, by the call that waits for it.
MatchAwaited ==
    \A x \in packets : x.kind = "match" =>
        /\ phase[x.to] = "waiting"
        /\ \A y \in packets : y.kind = "match" /\ y.to = x.to => y = x

IInv ==
    /\ TypeOK
    /\ KeptOnce
    /\ SessionsKept
    /\ ConnectionsNamed
    /\ MessagesOnKept
    /\ MatchAwaited
    /\ SessionsAgree

\* The types, but for the packets.
Phases == {"stun", "register", "waiting", "hello", "race", "app", "session", "failed"}
Sides == {"none", "connecting", "accepting", "up", "closed"}

ShapeOK ==
    /\ latency \in Latencies
    /\ want_relay \in [Peer -> BOOLEAN] /\ relayed \in BOOLEAN /\ joined \in [Peer -> BOOLEAN]
    /\ phase \in [Peer -> Phases]
    /\ hellos \in [Peer -> 0 .. Hellos]
    /\ timer \in [Peer -> 0 .. Stagger] /\ patience \in [Peer -> 0 .. PunchTimeout]
    /\ side \in [Peer -> [Peer -> Sides]]
    /\ kept \in [Peer -> 0 .. 2]

\* What the invariant says of one packet.
Sound(x) ==
    /\ x \in Packet /\ x.age <= latency
    /\ x.kind # "match" => x.conn \in Peer
    /\ x.kind \in Messages => kept[Other(x.to)] = x.conn

\* What it says of the phases and the connections kept.
PhasesOK == KeptOnce /\ SessionsKept /\ SessionsAgree

LEMMA Parts ==
    IInv <=> ShapeOK /\ PhasesOK /\ MatchAwaited /\ \A x \in packets : Sound(x)
<1>1. TypeOK <=> ShapeOK /\ \A x \in packets : x \in Packet /\ x.age <= latency
  BY DEF TypeOK, ShapeOK, Phases, Sides
<1> QED BY <1>1 DEF IInv, PhasesOK, Sound, ConnectionsNamed, MessagesOnKept

LEMMA PartsNext ==
    IInv' <=> ShapeOK' /\ PhasesOK' /\ MatchAwaited' /\ \A x \in packets' : Sound(x)'
<1>1. (IInv <=> ShapeOK /\ PhasesOK /\ MatchAwaited /\ \A x \in packets : Sound(x))'
  BY Parts, PTL
<1> QED BY <1>1

LEMMA OtherFacts ==
    ASSUME NEW p \in Peer
    PROVE  Other(p) \in Peer /\ Other(Other(p)) = p /\ Other(p) # p
BY DEF Peer, Other

-----------------------------------------------------------------------------
(* Lemmas on the kinds of step. *)

\* A packet just sent.
LEMMA SentFacts ==
    ASSUME ShapeOK', NEW kind \in Kinds, NEW c \in 0 .. 2, NEW p \in Peer
    PROVE  /\ Sent(kind, c, p) \in Packet
           /\ Sent(kind, c, p).age = 0 /\ Sent(kind, c, p).age <= latency'
           /\ Sent(kind, c, p).kind = kind
           /\ Sent(kind, c, p).conn = c
           /\ Sent(kind, c, p).to = p
<1>1. latency' \in Nat
  BY TraversalAssumption DEF ShapeOK
<1> QED BY <1>1 DEF Sent, Packet

\* One that is not of the session's handshake is sound.
LEMMA SentSound ==
    ASSUME ShapeOK', NEW kind \in Kinds \ Messages, NEW c \in 0 .. 2, NEW p \in Peer,
           kind = "match" \/ c \in Peer
    PROVE  Sound(Sent(kind, c, p))'
<1>1. Sent(kind, c, p) \in Packet /\ Sent(kind, c, p).age <= latency'
      /\ Sent(kind, c, p).kind = kind /\ Sent(kind, c, p).conn = c
  BY SentFacts
<1> QED BY <1>1 DEF Sound

\* One of the handshake is, if its sender has kept its connection.
LEMMA MessageSound ==
    ASSUME ShapeOK', NEW kind \in Messages, NEW p \in Peer, NEW c \in Peer, kept'[p] = c
    PROVE  Sound(Sent(kind, c, Other(p)))'
<1>1. kind \in Kinds /\ c \in 0 .. 2
  BY DEF Messages, Kinds, Peer
<1>2. Other(p) \in Peer /\ Other(Other(p)) = p
  BY OtherFacts
<1> DEFINE q == Other(p)
           s == Sent(kind, c, q)
<1>3. q \in Peer /\ Other(q) = p
  BY <1>2
<1> HIDE DEF q
<1>4. s \in Packet /\ s.age <= latency' /\ s.kind = kind /\ s.conn = c /\ s.to = q
  BY <1>1, <1>3, SentFacts
<1> HIDE DEF s
<1>5. Sound(s)'
  <2>1. c \in Peer /\ kept'[Other(s.to)] = s.conn
    BY <1>3, <1>4
  <2> QED BY <1>4, <2>1 DEF Sound
<1> QED BY <1>5 DEF s, q

\* What is under way stays sound when no peer changes its mind.
LEMMA OldSound ==
    ASSUME NEW x, Sound(x), UNCHANGED <<latency, kept>>
    PROVE  Sound(x)'
BY DEF Sound

\* A peer goes on, without a race to be decided.
LEMMA GoKeeps ==
    ASSUME IInv, NEW p \in Peer, NEW ph \in Phases, Go(p, ph), UNCHANGED kept,
           ph \in Undecided => phase[p] \in Undecided,
           ph = "session" => kept[p] \in Peer /\ kept[Other(p)] = kept[p]
    PROVE  phase' \in [Peer -> Phases] /\ PhasesOK'
<1>1. /\ phase \in [Peer -> Phases]
      /\ phase' = [phase EXCEPT ![p] = ph] /\ kept' = kept
  BY Parts DEF ShapeOK, Go
<1>2. phase' \in [Peer -> Phases]
  BY <1>1
<1>3. ASSUME NEW q \in Peer
      PROVE  /\ phase'[q] \in Undecided => kept'[q] = 0
             /\ phase'[q] = "session" => kept'[q] \in Peer /\ kept'[Other(q)] = kept'[q]
  <2>1. /\ phase[q] \in Undecided => kept[q] = 0
        /\ phase[q] = "session" => kept[q] \in Peer /\ kept[Other(q)] = kept[q]
    BY DEF IInv, KeptOnce, SessionsKept, SessionsAgree
  <2>2. CASE q = p
    BY <1>1, <2>1, <2>2
  <2>3. CASE q # p
    BY <1>1, <2>1, <2>3
  <2> QED BY <2>2, <2>3
<1> QED BY <1>2, <1>3 DEF PhasesOK, KeptOnce, SessionsKept, SessionsAgree

LEMMA PhasesUnchanged ==
    ASSUME IInv, UNCHANGED <<phase, kept>>
    PROVE  PhasesOK'
BY DEF IInv, PhasesOK, KeptOnce, SessionsKept, SessionsAgree

\* A step that sends no match and takes nobody who has one out of its wait.
LEMMA MatchKeeps ==
    ASSUME IInv,
           \A x \in packets' : x.kind = "match" => x \in packets /\ phase'[x.to] = phase[x.to]
    PROVE  MatchAwaited'
BY Parts DEF MatchAwaited

LEMMA InitHolds == Init => IInv
<1> SUFFICES ASSUME Init PROVE IInv
  OBVIOUS
<1>1. Stagger \in Nat /\ PunchTimeout \in Nat
  BY TraversalAssumption
<1>2. ShapeOK
  <2>1. side \in [Peer -> [Peer -> Sides]] /\ phase \in [Peer -> Phases]
    BY DEF Init, Sides, Phases
  <2>2. hellos \in [Peer -> 0 .. Hellos] /\ kept \in [Peer -> 0 .. 2]
    BY DEF Init, Hellos
  <2>3. timer \in [Peer -> 0 .. Stagger] /\ patience \in [Peer -> 0 .. PunchTimeout]
    BY <1>1 DEF Init
  <2>4. joined \in [Peer -> BOOLEAN] /\ relayed \in BOOLEAN
    BY DEF Init
  <2> QED BY <2>1, <2>2, <2>3, <2>4 DEF Init, ShapeOK
<1>3. PhasesOK
  BY DEF Init, PhasesOK, KeptOnce, SessionsKept, SessionsAgree
<1>4. MatchAwaited /\ \A x \in packets : Sound(x)
  BY DEF Init, MatchAwaited
<1> QED BY <1>2, <1>3, <1>4, Parts

\* establish_via_rendezvous, up to its wait for the match.
LEMMA EarlyKeeps ==
    ASSUME IInv, NEW p \in Peer, StunFails(p) \/ Stun(p) \/ Register(p) \/ RegisterFails(p)
    PROVE  IInv'
<1>1. /\ UNCHANGED <<matchVars, raceVars, side, kept>> /\ packets' \subseteq packets
      /\ phase[p] \in Undecided
  BY DEF StunFails, Stun, Register, RegisterFails, Undecided
<1>2. PICK ph \in {"failed", "register", "waiting"} : Go(p, ph)
  BY DEF StunFails, Stun, Register, RegisterFails
<1>3. phase' \in [Peer -> Phases] /\ PhasesOK'
  <2>1. ph \in Phases /\ ph # "session"
    BY DEF Phases
  <2> QED BY <1>1, <1>2, <2>1, GoKeeps
<1>4. ShapeOK'
  BY <1>1, <1>3, Parts DEF ShapeOK, matchVars, raceVars
<1>5. \A x \in packets' : Sound(x)'
  BY <1>1, Parts, OldSound DEF matchVars
<1>6. MatchAwaited'
  <2> SUFFICES ASSUME NEW x \in packets', x.kind = "match"
               PROVE  x \in packets /\ phase'[x.to] = phase[x.to]
    BY MatchKeeps
  <2>1. x \in packets /\ phase[x.to] = "waiting"
    BY <1>1, Parts DEF MatchAwaited
  <2>2. x.to # p
    BY <2>1 DEF StunFails, Stun, Register, RegisterFails
  <2>3. phase \in [Peer -> Phases]
    BY Parts DEF ShapeOK
  <2> QED BY <1>2, <2>1, <2>2, <2>3 DEF Go
<1> QED BY <1>3, <1>4, <1>5, <1>6, PartsNext

LEMMA PairKeeps ==
    ASSUME IInv, Pair
    PROVE  IInv'
<1>1. /\ UNCHANGED <<latency, want_relay, joined, phase, raceVars, side, kept>>
      /\ relayed' \in BOOLEAN
      /\ packets' = {Sent("match", 0, p) : p \in Peer}
  BY DEF Pair
<1>2. ShapeOK'
  BY <1>1, Parts DEF ShapeOK, raceVars
<1>3. PhasesOK'
  BY <1>1, PhasesUnchanged
<1>4. "match" \in Kinds \ Messages /\ 0 \in 0 .. 2
  BY DEF Kinds, Messages
<1>5. \A x \in packets' : Sound(x)'
  BY <1>1, <1>2, <1>4, SentSound
<1>6. MatchAwaited'
  <2>1. ASSUME NEW x \in packets' PROVE x.to \in Peer /\ x = Sent("match", 0, x.to)
    BY <1>1 DEF Sent
  <2>2. \A p \in Peer : phase'[p] = "waiting"
    BY <1>1 DEF Pair
  <2> QED BY <2>1, <2>2 DEF MatchAwaited
<1> QED BY <1>2, <1>3, <1>5, <1>6, PartsNext

\* race_connect_and_accept begins.
LEMMA StartRaceKeeps ==
    ASSUME IInv, NEW p \in Peer, StartRace(p), phase[p] \in Undecided, UNCHANGED kept
    PROVE  /\ phase' \in [Peer -> Phases] /\ PhasesOK'
           /\ timer' \in [Peer -> 0 .. Stagger] /\ patience' \in [Peer -> 0 .. PunchTimeout]
<1>1. "race" \in Phases /\ "race" \in Undecided /\ Go(p, "race")
  BY DEF Phases, Undecided, StartRace
<1>2. phase' \in [Peer -> Phases] /\ PhasesOK'
  BY <1>1, GoKeeps
<1>3. Stagger \in Nat /\ PunchTimeout \in Nat
  BY TraversalAssumption
<1>4. timer \in [Peer -> 0 .. Stagger] /\ patience \in [Peer -> 0 .. PunchTimeout]
  BY Parts DEF ShapeOK
<1> QED BY <1>2, <1>3, <1>4 DEF StartRace

\* A step of a peer that does not wait for its match, and sends none.
LEMMA MatchKept ==
    ASSUME IInv, NEW p \in Peer, NEW ph, Go(p, ph), phase[p] # "waiting",
           \A x \in packets' : x.kind = "match" => x \in packets
    PROVE  MatchAwaited'
<1> SUFFICES ASSUME NEW x \in packets', x.kind = "match"
             PROVE  x \in packets /\ phase'[x.to] = phase[x.to]
  BY MatchKeeps
<1>1. x \in packets /\ phase[x.to] = "waiting"
  BY Parts DEF MatchAwaited
<1>2. phase \in [Peer -> Phases] /\ x.to # p
  BY <1>1, Parts DEF ShapeOK
<1> QED BY <1>1, <1>2 DEF Go

LEMMA MatchUntouched ==
    ASSUME IInv, UNCHANGED phase, \A x \in packets' : x.kind = "match" => x \in packets
    PROVE  MatchAwaited'
BY MatchKeeps

\* A packet is read and has no effect.
LEMMA IgnoredKeeps ==
    ASSUME IInv, packets' \subseteq packets, UNCHANGED <<matchVars, raceVars, phase, side, kept>>
    PROVE  IInv'
<1>1. ShapeOK' /\ PhasesOK'
  BY Parts, PhasesUnchanged DEF ShapeOK, matchVars, raceVars
<1>2. \A x \in packets' : Sound(x)'
  BY Parts, OldSound DEF matchVars
<1>3. MatchAwaited'
  BY MatchUntouched
<1> QED BY <1>1, <1>2, <1>3, PartsNext

\* The match arrives: to the relay's hellos, or to the race.
LEMMA MatchedKeeps ==
    ASSUME IInv, NEW x \in packets, Matched(x)
    PROVE  IInv'
<1> DEFINE p == x.to
<1>1. /\ x.kind = "match" /\ packets' = packets \ {x}
      /\ UNCHANGED <<matchVars, hellos, side, kept>>
  BY DEF Matched
<1>2. p \in Peer /\ phase[p] = "waiting" /\ phase[p] \in Undecided
  BY <1>1, Parts DEF Sound, Packet, MatchAwaited, Undecided
<1>3. \/ Go(p, "hello") /\ UNCHANGED <<timer, patience>>
      \/ StartRace(p)
  BY DEF Matched
<1>4. /\ phase' \in [Peer -> Phases] /\ PhasesOK'
      /\ timer' \in [Peer -> 0 .. Stagger] /\ patience' \in [Peer -> 0 .. PunchTimeout]
  <2>1. CASE Go(p, "hello") /\ UNCHANGED <<timer, patience>>
    <3>1. "hello" \in Phases /\ "hello" # "session"
      BY DEF Phases
    <3> QED BY <1>1, <1>2, <2>1, <3>1, GoKeeps, Parts DEF ShapeOK
  <2>2. CASE StartRace(p)
    BY <1>1, <1>2, <2>2, StartRaceKeeps
  <2> QED BY <1>3, <2>1, <2>2
<1>5. ShapeOK'
  BY <1>1, <1>4, Parts DEF ShapeOK, matchVars
<1>6. \A y \in packets' : Sound(y)'
  BY <1>1, Parts, OldSound DEF matchVars
<1>7. MatchAwaited'
  <2> SUFFICES ASSUME NEW y \in packets', y.kind = "match"
               PROVE  y \in packets /\ phase'[y.to] = phase[y.to]
    BY MatchKeeps
  <2>1. y \in packets /\ y.to # p
    BY <1>1, Parts DEF MatchAwaited
  <2>2. PICK ph : Go(p, ph)
    BY <1>3 DEF StartRace
  <2> QED BY <2>1, <2>2, Parts DEF ShapeOK, Go
<1> QED BY <1>4, <1>5, <1>6, <1>7, PartsNext

\* establish_via_relay.
LEMMA HelloKeeps ==
    ASSUME IInv, NEW p \in Peer, SendHello(p) \/ HellosSent(p)
    PROVE  IInv'
<1>1. CASE SendHello(p)
  <2>1. /\ hellos[p] < Hellos /\ hellos' = [hellos EXCEPT ![p] = @ + 1]
        /\ timer' = [timer EXCEPT ![p] = Stagger]
        /\ joined' \in {joined, [joined EXCEPT ![p] = TRUE]}
        /\ UNCHANGED <<latency, want_relay, relayed, phase, patience, side, kept, packets>>
    BY <1>1 DEF SendHello
  <2>2. ShapeOK
    BY Parts
  <2>3. hellos' \in [Peer -> 0 .. Hellos]
    BY <2>1, <2>2 DEF ShapeOK, Hellos
  <2>4. timer' \in [Peer -> 0 .. Stagger]
    BY <2>1, <2>2, TraversalAssumption DEF ShapeOK
  <2>5. joined' \in [Peer -> BOOLEAN]
    BY <2>1, <2>2 DEF ShapeOK
  <2>6. ShapeOK'
    BY <2>1, <2>2, <2>3, <2>4, <2>5 DEF ShapeOK
  <2>7. PhasesOK' /\ MatchAwaited'
    BY <2>1, PhasesUnchanged, MatchUntouched
  <2>8. \A x \in packets' : Sound(x)'
    BY <2>1, Parts, OldSound
  <2> QED BY <2>6, <2>7, <2>8, PartsNext
<1>2. CASE HellosSent(p)
  <2>1. /\ phase[p] = "hello" /\ phase[p] \in Undecided /\ StartRace(p)
        /\ UNCHANGED <<matchVars, hellos, side, kept, packets>>
    BY <1>2 DEF HellosSent, Undecided
  <2>2. /\ phase' \in [Peer -> Phases] /\ PhasesOK'
        /\ timer' \in [Peer -> 0 .. Stagger] /\ patience' \in [Peer -> 0 .. PunchTimeout]
    BY <2>1, StartRaceKeeps
  <2>3. ShapeOK'
    BY <2>1, <2>2, Parts DEF ShapeOK, matchVars
  <2>4. \A x \in packets' : Sound(x)'
    BY <2>1, Parts, OldSound DEF matchVars
  <2>5. MatchAwaited'
    BY <2>1, MatchKept DEF StartRace
  <2> QED BY <2>2, <2>3, <2>4, <2>5, PartsNext
<1> QED BY <1>1, <1>2

\* One side of a connection gets on, a packet is answered.
LEMMA SideKeeps ==
    ASSUME IInv, NEW p \in Peer, NEW c \in Peer, NEW s \in Sides,
           side' = [side EXCEPT ![p][c] = s],
           NEW kind \in {"initial", "reply"}, NEW q \in Peer, NEW rest \in SUBSET packets,
           packets' = rest \cup {Sent(kind, c, q)},
           UNCHANGED <<matchVars, phase, raceVars, kept>>
    PROVE  IInv'
<1>1. kind \in Kinds \ Messages /\ kind # "match" /\ c \in 0 .. 2
  BY DEF Kinds, Messages, Peer
<1>2. side' \in [Peer -> [Peer -> Sides]]
  BY Parts DEF ShapeOK
<1>3. ShapeOK'
  BY <1>2, Parts DEF ShapeOK, matchVars, raceVars
<1>4. Sound(Sent(kind, c, q))'
  BY <1>1, <1>3, SentSound
<1>5. \A x \in packets' : Sound(x)'
  BY <1>4, Parts, OldSound DEF matchVars
<1>6. Sent(kind, c, q).kind = kind
  BY DEF Sent
<1>7. PhasesOK' /\ MatchAwaited'
  BY <1>1, <1>6, PhasesUnchanged, MatchUntouched
<1> QED BY <1>3, <1>5, <1>7, PartsNext

LEMMA ConnectKeeps ==
    ASSUME IInv, NEW p \in Peer, Connect(p)
    PROVE  IInv'
<1>1. "connecting" \in Sides /\ Other(p) \in Peer
  BY OtherFacts DEF Sides
<1> QED BY <1>1, SideKeeps DEF Connect

LEMMA InitialKeeps ==
    ASSUME IInv, NEW x \in packets, Initial(x)
    PROVE  IInv'
<1> DEFINE p == x.to
<1>1. x.kind = "initial" /\ UNCHANGED <<matchVars, phase, raceVars, kept>>
  BY DEF Initial
<1>2. p \in Peer /\ x.conn \in Peer /\ Other(p) \in Peer
  BY <1>1, Parts, OtherFacts DEF Sound, Packet
<1>3. CASE phase[p] = "race" /\ side[p][x.conn] = "none"
  <2>1. /\ side' = [side EXCEPT ![p][x.conn] = "accepting"]
        /\ packets' = (packets \ {x}) \cup {Sent("reply", x.conn, Other(p))}
    BY <1>3 DEF Initial
  <2>2. "accepting" \in Sides /\ packets \ {x} \in SUBSET packets
    BY DEF Sides
  <2> QED BY <1>1, <1>2, <2>1, <2>2, SideKeeps
<1>4. CASE ~ (phase[p] = "race" /\ side[p][x.conn] = "none")
  BY <1>1, <1>4, IgnoredKeeps DEF Initial
<1> QED BY <1>3, <1>4

\* A race is decided: nobody can have had a session with this peer before, and
\* nothing of a handshake is under way from it.
LEMMA WinsKeeps ==
    ASSUME IInv, NEW p \in Peer, NEW c \in Peer, NEW x \in packets, NEW answer,
           answer \subseteq {Sent("finish", c, Other(p))},
           phase[p] = "race", Wins(p, c, x, answer), UNCHANGED <<matchVars, raceVars>>
    PROVE  IInv'
<1> DEFINE o == Other(p)
<1>1. /\ phase' = [phase EXCEPT ![p] = "app"]
      /\ kept' = [kept EXCEPT ![p] = c]
      /\ side' = [side EXCEPT ![p] = [d \in Peer |->
                     IF d = c THEN "up" ELSE IF d \in Loser(p, c) THEN "closed" ELSE @[d]]]
  BY DEF Wins, Go
<1>2. ShapeOK /\ PhasesOK /\ \A y \in packets : Sound(y)
  BY Parts
<1>3. kept[p] = 0
  BY <1>2 DEF PhasesOK, KeptOnce, Undecided
<1>4. o \in Peer /\ Other(o) = p /\ o # p /\ \A q \in Peer : q = p \/ q = o
  BY OtherFacts DEF Peer, Other
<1>5. 0 \notin Peer /\ c \in 0 .. 2
  BY DEF Peer
<1>6. ShapeOK'
  <2>1. phase' \in [Peer -> Phases]
    BY <1>1, <1>2 DEF ShapeOK, Phases
  <2>2. kept' \in [Peer -> 0 .. 2]
    BY <1>1, <1>2, <1>5 DEF ShapeOK
  <2>3. side' \in [Peer -> [Peer -> Sides]]
    <3>1. side \in [Peer -> [Peer -> Sides]] /\ side[p] \in [Peer -> Sides]
      BY <1>2 DEF ShapeOK
    <3>2. [d \in Peer |-> IF d = c THEN "up"
                          ELSE IF d \in Loser(p, c) THEN "closed" ELSE side[p][d]]
              \in [Peer -> Sides]
      BY <3>1 DEF Sides
    <3> QED BY <1>1, <3>1, <3>2
  <2> QED BY <1>2, <2>1, <2>2, <2>3 DEF ShapeOK, matchVars, raceVars
<1>7. /\ kept'[p] = c /\ kept'[o] = kept[o]
      /\ phase'[p] = "app" /\ phase'[o] = phase[o]
  BY <1>1, <1>2, <1>4 DEF ShapeOK
<1>8. PhasesOK'
  <2>1. phase[o] # "session"
    BY <1>2, <1>3, <1>4, <1>5 DEF PhasesOK, SessionsKept, SessionsAgree
  <2>2. phase[o] \in Undecided => kept[o] = 0
    BY <1>2, <1>4 DEF PhasesOK, KeptOnce
  <2>3. "app" \notin Undecided
    BY DEF Undecided
  <2> QED BY <1>4, <1>7, <2>1, <2>2, <2>3 DEF PhasesOK, KeptOnce, SessionsKept, SessionsAgree
<1>9. \A y \in packets' : y \notin packets => Sound(y)' /\ y.kind # "match"
  <2> SUFFICES ASSUME NEW y \in packets', y \notin packets
               PROVE  Sound(y)' /\ y.kind # "match"
    OBVIOUS
  <2>1. \/ y = Sent("finish", c, o)
        \/ \E d \in Peer : y = Sent("close", d, o)
        \/ y = Sent("Hello", c, o)
    BY DEF Wins, Loser
  <2>2. /\ "finish" \in Kinds \ Messages /\ "close" \in Kinds \ Messages
        /\ "Hello" \in Messages /\ \A d \in Peer : d \in 0 .. 2
    BY DEF Kinds, Messages, Peer
  <2>3. CASE y = Sent("finish", c, o)
    <3>1. Sound(Sent("finish", c, o))'
      BY <1>4, <1>5, <1>6, <2>2, SentSound
    <3>2. y.kind = "finish"
      BY <2>3 DEF Sent
    <3> QED BY <2>3, <3>1, <3>2
  <2>4. CASE \E d \in Peer : y = Sent("close", d, o)
    <3>1. PICK d \in Peer : y = Sent("close", d, o)
      BY <2>4
    <3>2. Sound(Sent("close", d, o))'
      BY <1>4, <1>6, <2>2, SentSound
    <3>3. y.kind = "close"
      BY <3>1 DEF Sent
    <3> QED BY <3>1, <3>2, <3>3
  <2>5. CASE y = Sent("Hello", c, o)
    BY <1>6, <1>7, <2>2, <2>5, MessageSound DEF Sent
  <2> QED BY <2>1, <2>3, <2>4, <2>5
<1>10. ASSUME NEW y \in packets PROVE Sound(y)'
  <2>1. Sound(y) /\ y.to \in Peer /\ Other(y.to) \in Peer
    BY <1>2, OtherFacts DEF Sound, Packet
  <2>2. ASSUME y.kind \in Messages PROVE kept'[Other(y.to)] = y.conn
    <3>1. y.kind # "match"
      BY <2>2 DEF Messages
    <3>2. kept[Other(y.to)] = y.conn /\ y.conn \in Peer
      BY <2>1, <2>2, <3>1 DEF Sound
    <3>3. Other(y.to) # p
      BY <1>3, <1>5, <3>2
    <3> QED BY <1>4, <1>7, <2>1, <3>2, <3>3
  <2> QED BY <2>1, <2>2 DEF Sound, matchVars
<1>11. MatchAwaited'
  BY <1>9, MatchKept DEF Wins
<1> QED BY <1>6, <1>8, <1>9, <1>10, <1>11, PartsNext

LEMMA RacePacketKeeps ==
    ASSUME IInv, NEW x \in packets, Replied(x) \/ Finish(x)
    PROVE  IInv'
<1> DEFINE p == x.to
<1>1. x.kind # "match" /\ UNCHANGED <<matchVars, raceVars>>
  BY DEF Replied, Finish
<1>2. p \in Peer /\ x.conn \in Peer
  BY <1>1, Parts DEF Sound, Packet
<1>3. CASE packets' = packets \ {x} /\ UNCHANGED <<phase, kept, side>>
  BY <1>1, <1>3, IgnoredKeeps
<1>4. CASE phase[p] = "race" /\ Wins(p, x.conn, x, {Sent("finish", x.conn, Other(p))})
  BY <1>1, <1>2, <1>4, WinsKeeps
<1>5. CASE phase[p] = "race" /\ Wins(p, x.conn, x, {})
  BY <1>1, <1>2, <1>5, WinsKeeps
<1> QED BY <1>3, <1>4, <1>5 DEF Replied, Finish

\* The call of a peer fails.
LEMMA FailKeeps ==
    ASSUME IInv, NEW p \in Peer, NEW rest \in SUBSET packets, Fail(p, rest),
           phase[p] # "waiting", UNCHANGED <<matchVars, raceVars, kept>>
    PROVE  IInv'
<1> DEFINE dropped == {c \in Peer : side[p][c] \in {"connecting", "accepting", "up"}}
<1>1. /\ Go(p, "failed")
      /\ side' = [side EXCEPT ![p] = [c \in Peer |->
                     IF c \in dropped THEN "closed" ELSE @[c]]]
      /\ packets' \in {rest, rest \cup {Sent("close", c, Other(p)) : c \in dropped}}
  BY DEF Fail
<1>2. "failed" \in Phases /\ "failed" \notin Undecided /\ "failed" # "session"
  BY DEF Phases, Undecided
<1>3. phase' \in [Peer -> Phases] /\ PhasesOK'
  BY <1>1, <1>2, GoKeeps
<1>4. side' \in [Peer -> [Peer -> Sides]]
  <2>1. side \in [Peer -> [Peer -> Sides]] /\ side[p] \in [Peer -> Sides]
    BY Parts DEF ShapeOK
  <2>2. [c \in Peer |-> IF c \in dropped THEN "closed" ELSE side[p][c]] \in [Peer -> Sides]
    BY <2>1 DEF Sides
  <2> HIDE DEF dropped
  <2> QED BY <1>1, <2>1, <2>2
<1>5. ShapeOK'
  BY <1>3, <1>4, Parts DEF ShapeOK, matchVars, raceVars
<1>6. \A c \in Peer : Sound(Sent("close", c, Other(p)))' /\ Sent("close", c, Other(p)).kind # "match"
  <2>1. "close" \in Kinds \ Messages /\ \A c \in Peer : c \in 0 .. 2
    BY DEF Kinds, Messages, Peer
  <2>2. Other(p) \in Peer
    BY OtherFacts
  <2>3. \A c \in Peer : Sound(Sent("close", c, Other(p)))'
    BY <1>5, <2>1, <2>2, SentSound
  <2> QED BY <2>3 DEF Sent
<1>7. \A x \in packets' : x \in packets \/ \E c \in Peer : x = Sent("close", c, Other(p))
  BY <1>1
<1>8. \A x \in packets' : Sound(x)'
  BY <1>6, <1>7, Parts, OldSound DEF matchVars
<1>9. MatchAwaited'
  BY <1>1, <1>6, <1>7, MatchKept
<1> QED BY <1>3, <1>5, <1>8, <1>9, PartsNext

\* Timeouts of the race and of the connection, and a close.
LEMMA EndKeeps ==
    ASSUME IInv, NEW p \in Peer, PunchTimesOut(p) \/ IdleTimeout(p)
    PROVE  IInv'
<1>1. /\ UNCHANGED <<matchVars, raceVars, kept>> /\ phase[p] # "waiting"
      /\ Fail(p, packets) \/ Fail(p, {})
  BY DEF PunchTimesOut, IdleTimeout
<1> QED BY <1>1, FailKeeps

LEMMA ClosedKeeps ==
    ASSUME IInv, NEW x \in packets, Deliverable(x), ClosedByPeer(x)
    PROVE  IInv'
<1>1. /\ x.kind = "close" /\ UNCHANGED <<matchVars, raceVars, kept>>
      /\ \/ Fail(x.to, packets \ {x})
         \/ packets' = packets \ {x} /\ UNCHANGED <<phase, side>>
  BY DEF ClosedByPeer
<1>2. x.to \in Peer /\ phase[x.to] # "waiting"
  BY <1>1, Parts DEF Sound, Packet, Deliverable
<1>3. CASE Fail(x.to, packets \ {x})
  BY <1>1, <1>2, <1>3, FailKeeps
<1>4. CASE packets' = packets \ {x} /\ UNCHANGED <<phase, side>>
  BY <1>1, <1>4, IgnoredKeeps
<1> QED BY <1>1, <1>3, <1>4

\* perform_handshake: the message is on the connection both have kept.
LEMMA HandshakeKeeps ==
    ASSUME IInv, NEW x \in packets, Handshake(x)
    PROVE  IInv'
<1> DEFINE p == x.to
<1>1. x.kind \in Messages /\ x.kind # "match" /\ UNCHANGED <<matchVars, raceVars, kept>>
  BY DEF Handshake, Messages
<1>2. p \in Peer /\ x.conn \in Peer /\ kept[Other(p)] = x.conn
  BY <1>1, Parts DEF Sound, Packet
<1>3. CASE packets' = packets \ {x} /\ UNCHANGED <<phase, side>>
  BY <1>1, <1>3, IgnoredKeeps
<1>4. CASE phase[p] = "app" /\ Fail(p, packets \ {x})
  BY <1>1, <1>2, <1>4, FailKeeps
<1>5. CASE /\ phase[p] = "app" /\ kept[p] = x.conn
           /\ Go(p, IF x.kind \in {"Config", "ConfigAck"} THEN "session" ELSE "app")
           /\ packets' = (packets \ {x})
                  \cup {Sent(k, x.conn, Other(p)) : k \in Answer(x.kind)}
           /\ UNCHANGED side
  <2>1. PICK ph \in {"session", "app"} : Go(p, ph)
    BY <1>5
  <2>2. ph \in Phases /\ ph \notin Undecided
    BY DEF Phases, Undecided
  <2>3. phase' \in [Peer -> Phases] /\ PhasesOK'
    BY <1>1, <1>2, <1>5, <2>1, <2>2, GoKeeps
  <2>4. ShapeOK'
    BY <1>1, <1>5, <2>3, Parts DEF ShapeOK, matchVars, raceVars
  <2>5. Answer(x.kind) \subseteq Messages
    BY <1>1 DEF Answer, Messages
  <2>6. ASSUME NEW k \in Answer(x.kind)
        PROVE  Sound(Sent(k, x.conn, Other(p)))' /\ Sent(k, x.conn, Other(p)).kind # "match"
    <3>1. k \in Messages /\ k # "match" /\ kept'[p] = x.conn
      BY <1>1, <1>5, <2>5 DEF Messages
    <3>2. Sound(Sent(k, x.conn, Other(p)))'
      BY <1>2, <2>4, <3>1, MessageSound
    <3> QED BY <3>1, <3>2 DEF Sent
  <2>7. \A y \in packets' : Sound(y)'
    BY <1>1, <1>5, <2>6, Parts, OldSound DEF matchVars
  <2>8. MatchAwaited'
    BY <1>2, <1>5, <2>1, <2>6, MatchKept
  <2> QED BY <2>3, <2>4, <2>7, <2>8, PartsNext
<1> QED BY <1>3, <1>4, <1>5 DEF Handshake

\* Time passes: packets age, timers run.
LEMMA TickKeeps ==
    ASSUME IInv, Tick
    PROVE  IInv'
<1> DEFINE Older(x) == [x EXCEPT !.age = IF @ < latency THEN @ + 1 ELSE @]
<1>1. /\ timer' = [p \in Peer |-> Past(timer[p])]
      /\ patience' = [p \in Peer |-> IF phase[p] = "race" THEN Past(patience[p]) ELSE 0]
      /\ packets' = {Older(x) : x \in packets}
      /\ UNCHANGED <<matchVars, phase, hellos, side, kept>>
  BY DEF Tick
<1>2. ShapeOK /\ latency \in Nat /\ Stagger \in Nat /\ PunchTimeout \in Nat
  BY Parts, TraversalAssumption DEF ShapeOK
<1>3. ShapeOK'
  <2>0. \A n \in Nat : \A t \in 0 .. n : Past(t) \in 0 .. n /\ 0 \in 0 .. n
    BY DEF Past
  <2>1. timer' \in [Peer -> 0 .. Stagger]
    BY <1>1, <1>2, <2>0 DEF ShapeOK
  <2>2. patience' \in [Peer -> 0 .. PunchTimeout]
    <3>1. patience \in [Peer -> 0 .. PunchTimeout]
      BY <1>2 DEF ShapeOK
    <3>2. \A p \in Peer : (IF phase[p] = "race" THEN Past(patience[p]) ELSE 0) \in 0 .. PunchTimeout
      BY <1>2, <2>0, <3>1
    <3> QED BY <1>1, <3>2
  <2> QED BY <1>1, <1>2, <2>1, <2>2 DEF ShapeOK, matchVars
<1>4. PhasesOK'
  BY <1>1, PhasesUnchanged
<1>5. ASSUME NEW x \in packets
      PROVE  /\ Older(x) \in Packet /\ Older(x).age <= latency
             /\ Older(x).kind = x.kind /\ Older(x).conn = x.conn /\ Older(x).to = x.to
  <2>1. x \in Packet /\ x.age <= latency
    BY Parts DEF Sound
  <2> QED BY <1>2, <2>1 DEF Packet
<1> HIDE DEF Older
<1>6. \A y \in packets' : Sound(y)'
  <2> SUFFICES ASSUME NEW y \in packets' PROVE Sound(y)'
    OBVIOUS
  <2>1. PICK x \in packets : y = Older(x)
    BY <1>1
  <2>2. Sound(x) /\ latency' = latency /\ kept' = kept
    BY <1>1, Parts DEF matchVars
  <2>3. /\ y \in Packet /\ y.age <= latency
        /\ y.kind = x.kind /\ y.conn = x.conn /\ y.to = x.to
    BY <1>5, <2>1
  <2> QED BY <2>2, <2>3 DEF Sound
<1>7. MatchAwaited'
  <2> SUFFICES ASSUME NEW x \in packets, Older(x).kind = "match"
               PROVE  /\ phase'[Older(x).to] = "waiting"
                      /\ \A y \in packets : Older(y).kind = "match" /\ Older(y).to = Older(x).to
                             => Older(y) = Older(x)
    BY <1>1 DEF MatchAwaited
  <2> QED BY <1>1, <1>5, Parts DEF MatchAwaited
<1> QED BY <1>3, <1>4, <1>6, <1>7, PartsNext

LEMMA NextKeeps ==
    ASSUME IInv, [Next]_vars
    PROVE  IInv'
<1>1. CASE \E p \in Peer : StunFails(p) \/ Stun(p) \/ Register(p) \/ RegisterFails(p)
  BY <1>1, EarlyKeeps
<1>2. CASE Pair
  BY <1>2, PairKeeps
<1>3. CASE Deliver
  <2>1. PICK x \in packets : Deliverable(x) /\ Arrives(x)
    BY <1>3 DEF Deliver
  <2> QED BY <2>1, MatchedKeeps, InitialKeeps, RacePacketKeeps, ClosedKeeps, HandshakeKeeps
          DEF Arrives
<1>4. CASE \E p \in Peer : Local(p)
  BY <1>4, HelloKeeps, ConnectKeeps, EndKeeps DEF Local
<1>5. CASE \E p \in Peer : IdleTimeout(p)
  BY <1>5, EndKeeps
<1>6. CASE Tick
  BY <1>6, TickKeeps
<1>7. CASE UNCHANGED vars
  BY <1>7, IgnoredKeeps DEF vars, matchVars, raceVars
<1> QED BY <1>1, <1>2, <1>3, <1>4, <1>5, <1>6, <1>7 DEF Next

\* Spec and with it FairSpec keep the invariant, for any delays and timeouts.
THEOREM Invariance == Spec => []IInv
<1>1. IInv /\ [Next]_vars => IInv'
  BY NextKeeps
<1> QED BY <1>1, InitHolds, PTL DEF Spec

-----------------------------------------------------------------------------
(* The properties. *)

\* Phases, timers, the two connections and the packets keep their types in
\* from_rendezvous, for any delays and timeouts.
THEOREM TypeCorrect == Spec => []TypeOK
<1>1. IInv => TypeOK
  BY DEF IInv
<1> QED BY <1>1, Invariance, PTL

\* from_rendezvous: whoever has a session has it over the connection that the
\* other peer's race has kept too, however the two races, their timeouts and the
\* packets interleave.
THEOREM SessionsAlwaysAgree == Spec => []SessionsAgree
<1>1. IInv => SessionsAgree
  BY DEF IInv
<1> QED BY <1>1, Invariance, PTL
=============================================================================
