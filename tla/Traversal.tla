----------------------------- MODULE Traversal -----------------------------
(***************************************************************************)
(* Two peers that pair through the rendezvous server: each learns its NAT, *)
(* registers, is matched, joins the relay if there is one, and races an    *)
(* outgoing QUIC connection against an incoming one. The handshake of the  *)
(* session then runs over the connection the race has kept.                *)
(*                                                                         *)
(* A connection is named by the peer that opens it. Time is discrete; a    *)
(* packet takes at most latency units, the peer with the larger device id  *)
(* connects Stagger units late. PunchTimeout stands for thirty seconds, by *)
(* which nothing is still under way that is going to happen.               *)
(***************************************************************************)
EXTENDS Naturals

CONSTANTS
    Latencies,      \* bounds on the one-way delay of a packet
    Stagger,        \* SECONDARY_CONNECT_DELAY, also the pause after a hello
    PunchTimeout    \* PUNCH_TIMEOUT

Peer == 1 .. 2      \* device ids
Other(p) == 3 - p
Hellos == 3         \* relay hellos a peer sends

ASSUME TraversalAssumption ==
    Latencies \subseteq Nat /\ Stagger \in Nat /\ PunchTimeout \in Nat

VARIABLES
    latency,     \* bound on the delay in this behaviour
    want_relay,  \* of the peers' RegisterRequests
    relayed,     \* are the peers matched through the relay?
    joined,      \* has a hello of the peer reached the relay?
    phase,       \* where from_rendezvous is
    hellos,      \* hellos sent
    timer,       \* rest of the peer's sleep: after a hello, or before its connect
    patience,    \* rest of PUNCH_TIMEOUT
    side,        \* side[p][c]: connection c at peer p
    kept,        \* the connection the peer's race returned; 0 = none
    packets      \* what is under way

vars == <<latency, want_relay, relayed, joined, phase, hellos, timer, patience, side,
          kept, packets>>
matchVars == <<latency, want_relay, relayed, joined>>
raceVars == <<hellos, timer, patience>>

Kinds == {"match", "initial", "reply", "finish", "close",
          "Hello", "HelloAck", "Config", "ConfigAck"}
Packet == [kind : Kinds, conn : 0 .. 2, to : Peer, age : Nat]

TypeOK ==
    /\ latency \in Latencies
    /\ want_relay \in [Peer -> BOOLEAN] /\ relayed \in BOOLEAN /\ joined \in [Peer -> BOOLEAN]
    /\ phase \in [Peer -> {"stun", "register", "waiting", "hello", "race", "app",
                           "session", "failed"}]
    /\ hellos \in [Peer -> 0 .. Hellos]
    /\ timer \in [Peer -> 0 .. Stagger] /\ patience \in [Peer -> 0 .. PunchTimeout]
    /\ side \in [Peer -> [Peer -> {"none", "connecting", "accepting", "up", "closed"}]]
    /\ kept \in [Peer -> 0 .. 2]
    /\ packets \subseteq Packet
    /\ \A x \in packets : x.age <= latency

Init ==
    /\ latency \in Latencies
    /\ want_relay \in [Peer -> BOOLEAN] /\ relayed = FALSE
    /\ joined = [p \in Peer |-> FALSE]
    /\ phase = [p \in Peer |-> "stun"]
    /\ hellos = [p \in Peer |-> 0]
    /\ timer = [p \in Peer |-> 0] /\ patience = [p \in Peer |-> 0]
    /\ side = [p \in Peer |-> [c \in Peer |-> "none"]]
    /\ kept = [p \in Peer |-> 0]
    /\ packets = {}

-----------------------------------------------------------------------------
(* Packets. *)

Sent(kind, c, p) == [kind |-> kind, conn |-> c, to |-> p, age |-> 0]

\* Packets of a connection pass the relay once both peers have joined. QUIC
\* repeats a packet the relay drops: it counts as being under way until then.
PathOpen == relayed => \A p \in Peer : joined[p]

\* A packet that can be handed to its peer: the socket's buffer holds it until the
\* endpoint exists, quinn holds stream data until the control stream is up.
Deliverable(x) ==
    IF x.kind = "match" THEN TRUE
    ELSE /\ PathOpen
         /\ phase[x.to] \notin {"stun", "register", "waiting", "hello"}
         /\ x.kind \in {"Hello", "HelloAck", "Config", "ConfigAck"} =>
                side[x.to][x.conn] \in {"up", "closed"}

Go(p, ph) == phase' = [phase EXCEPT ![p] = ph]

-----------------------------------------------------------------------------
(* establish_via_rendezvous, up to the match. *)

\* STUN fails: a server does not resolve or does not answer in time.
StunFails(p) ==
    /\ phase[p] = "stun"
    /\ Go(p, "failed")
    /\ UNCHANGED <<matchVars, raceVars, side, kept, packets>>

\* classify_nat: a symmetric NAT asks for the relay, as --force-relay does; a
\* loopback rendezvous needs no STUN. All of it is in the request's want_relay.
Stun(p) ==
    /\ phase[p] = "stun"
    /\ Go(p, "register")
    /\ UNCHANGED <<matchVars, raceVars, side, kept, packets>>

\* register_full, up to its wait for the server's answer.
Register(p) ==
    /\ phase[p] = "register"
    /\ Go(p, "waiting")
    /\ UNCHANGED <<matchVars, raceVars, side, kept, packets>>

\* register_full fails: no server, Expired, Rejected, a broken connection, an
\* unexpected message, no answer in REGISTER_WAIT_TIMEOUT.
RegisterFails(p) ==
    /\ phase[p] \in {"register", "waiting"}
    /\ Go(p, "failed")
    /\ packets' = {x \in packets : x.to # p \/ x.kind # "match"}
    /\ UNCHANGED <<matchVars, raceVars, side, kept>>

\* The server pairs the two and tells both, over the relay if it has one and
\* either of them wants it.
Pair ==
    /\ \A p \in Peer : phase[p] = "waiting"
    /\ packets = {}
    /\ relayed' \in {FALSE, \E p \in Peer : want_relay[p]}
    /\ packets' = {Sent("match", 0, p) : p \in Peer}
    /\ UNCHANGED <<latency, want_relay, joined, phase, raceVars, side, kept>>

\* Mutant of StartRace: nobody waits before its connect.
StartTogether(p) ==
    /\ Go(p, "race")
    /\ patience' = [patience EXCEPT ![p] = PunchTimeout]
    /\ timer' = [timer EXCEPT ![p] = 0]

\* race_connect_and_accept begins: accept at once, connect now or a little later.
StartRace(p) ==
    /\ Go(p, "race")
    /\ patience' = [patience EXCEPT ![p] = PunchTimeout]
    /\ timer' = [timer EXCEPT ![p] = IF p < Other(p) THEN 0 ELSE Stagger]

\* The match arrives.
Matched(x) ==
    /\ x.kind = "match"
    /\ packets' = packets \ {x}
    /\ IF relayed
       THEN Go(x.to, "hello") /\ UNCHANGED <<timer, patience>>
       ELSE StartRace(x.to)
    /\ UNCHANGED <<matchVars, hellos, side, kept>>

\* Mutant of SendHello: one hello too many.
SendHelloAgain(p) ==
    /\ phase[p] = "hello" /\ timer[p] = 0 /\ hellos[p] <= Hellos
    /\ hellos' = [hellos EXCEPT ![p] = @ + 1]
    /\ timer' = [timer EXCEPT ![p] = Stagger]
    /\ joined' \in {joined, [joined EXCEPT ![p] = TRUE]}
    /\ UNCHANGED <<latency, want_relay, relayed, phase, patience, side, kept, packets>>

\* establish_via_relay: a hello, which the network may lose, and a pause.
SendHello(p) ==
    /\ phase[p] = "hello" /\ timer[p] = 0 /\ hellos[p] < Hellos
    /\ hellos' = [hellos EXCEPT ![p] = @ + 1]
    /\ timer' = [timer EXCEPT ![p] = Stagger]
    /\ joined' \in {joined, [joined EXCEPT ![p] = TRUE]}
    /\ UNCHANGED <<latency, want_relay, relayed, phase, patience, side, kept, packets>>

HellosSent(p) ==
    /\ phase[p] = "hello" /\ timer[p] = 0 /\ hellos[p] = Hellos
    /\ StartRace(p)
    /\ UNCHANGED <<matchVars, hellos, side, kept, packets>>

-----------------------------------------------------------------------------
(* race_connect_and_accept. *)

Connect(p) ==
    /\ phase[p] = "race" /\ timer[p] = 0 /\ side[p][p] = "none"
    /\ side' = [side EXCEPT ![p][p] = "connecting"]
    /\ packets' = packets \cup {Sent("initial", p, Other(p))}
    /\ UNCHANGED <<matchVars, phase, raceVars, kept>>

\* The peer's accept takes the incoming connection and answers; after the race
\* nobody accepts any more.
Initial(x) ==
    LET p == x.to IN
    /\ x.kind = "initial"
    /\ IF phase[p] = "race" /\ side[p][x.conn] = "none"
       THEN /\ side' = [side EXCEPT ![p][x.conn] = "accepting"]
            /\ packets' = (packets \ {x}) \cup {Sent("reply", x.conn, Other(p))}
       ELSE packets' = packets \ {x} /\ UNCHANGED side
    /\ UNCHANGED <<matchVars, phase, raceVars, kept>>

\* Mutant of Loser: the connection that lost the race is left as it is.
LoserLeft(p, c) == {}

\* select! drops the future that lost, and with it the connection it had begun.
Loser(p, c) == {d \in Peer \ {c} : side[p][d] \in {"connecting", "accepting"}}

\* from_rendezvous: who says Hello depends on the device ids, not on who connected.
we_initiate(p) == p < Other(p)

\* The race of peer p returns connection c: the loser is closed, and the
\* handshake of the session begins.
Wins(p, c, x, answer) ==
    /\ Go(p, "app")
    /\ kept' = [kept EXCEPT ![p] = c]
    /\ side' = [side EXCEPT ![p] = [d \in Peer |->
                   IF d = c THEN "up" ELSE IF d \in Loser(p, c) THEN "closed" ELSE @[d]]]
    /\ packets' = (packets \ {x}) \cup answer
           \cup {Sent("close", d, Other(p)) : d \in Loser(p, c)}
           \cup (IF we_initiate(p) THEN {Sent("Hello", c, Other(p))} ELSE {})

\* The outgoing handshake completes; the magic goes out with its last flight.
Replied(x) ==
    LET p == x.to IN
    /\ x.kind = "reply"
    /\ IF phase[p] = "race" /\ side[p][x.conn] = "connecting"
       THEN Wins(p, x.conn, x, {Sent("finish", x.conn, Other(p))})
       ELSE packets' = packets \ {x} /\ UNCHANGED <<phase, kept, side>>
    /\ UNCHANGED <<matchVars, raceVars>>

\* The incoming handshake and the control stream's magic complete.
Finish(x) ==
    LET p == x.to IN
    /\ x.kind = "finish"
    /\ IF phase[p] = "race" /\ side[p][x.conn] = "accepting"
       THEN Wins(p, x.conn, x, {})
       ELSE packets' = packets \ {x} /\ UNCHANGED <<phase, kept, side>>
    /\ UNCHANGED <<matchVars, raceVars>>

\* The call of peer p ends with an error: its connections are dropped. The process
\* may be gone before it has told the other side so.
Fail(p, rest) ==
    LET dropped == {c \in Peer : side[p][c] \in {"connecting", "accepting", "up"}} IN
    /\ Go(p, "failed")
    /\ side' = [side EXCEPT ![p] = [c \in Peer |-> IF c \in dropped THEN "closed" ELSE @[c]]]
    /\ packets' \in {rest, rest \cup {Sent("close", c, Other(p)) : c \in dropped}}

PunchTimesOut(p) ==
    /\ phase[p] = "race" /\ patience[p] = 0
    /\ Fail(p, packets)
    /\ UNCHANGED <<matchVars, raceVars, kept>>

\* A connection is closed by the other side. The peer's call fails whether it is
\* the connection kept or either half of the race: select! returns the error.
ClosedByPeer(x) ==
    LET p == x.to IN
    /\ x.kind = "close"
    /\ IF side[p][x.conn] \in {"connecting", "accepting", "up"}
       THEN Fail(p, packets \ {x})
       ELSE packets' = packets \ {x} /\ UNCHANGED <<phase, side>>
    /\ UNCHANGED <<matchVars, raceVars, kept>>

\* quinn's idle timeout: nobody is left at the other end.
IdleTimeout(p) ==
    /\ phase[p] \in {"app", "session"}
    /\ side[Other(p)][kept[p]] = "closed"
    /\ packets = {}
    /\ Fail(p, {})
    /\ UNCHANGED <<matchVars, raceVars, kept>>

-----------------------------------------------------------------------------
(* The handshake of the session: Hello, HelloAck, Config, ConfigAck in turn. *)

Answer(kind) ==
    CASE kind = "Hello"    -> {"HelloAck"}
      [] kind = "HelloAck" -> {"Config"}
      [] kind = "Config"   -> {"ConfigAck"}
      [] OTHER             -> {}

\* Mutant of Handshake: a message is taken from whatever connection it comes on.
HandshakeAnyConnection(x) ==
    LET p == x.to IN
    /\ x.kind \in {"Hello", "HelloAck", "Config", "ConfigAck"}
    /\ IF phase[p] = "app"
       THEN /\ IF we_initiate(p) = (x.kind \in {"HelloAck", "ConfigAck"})
               THEN /\ Go(p, IF x.kind \in {"Config", "ConfigAck"} THEN "session" ELSE "app")
                    /\ packets' = (packets \ {x})
                           \cup {Sent(k, x.conn, Other(p)) : k \in Answer(x.kind)}
                    /\ UNCHANGED side
               ELSE Fail(p, packets \ {x})
       ELSE packets' = packets \ {x} /\ UNCHANGED <<phase, side>>
    /\ UNCHANGED <<matchVars, raceVars, kept>>

\* perform_handshake of either role; a message out of turn ends it with an error.
Handshake(x) ==
    LET p == x.to IN
    /\ x.kind \in {"Hello", "HelloAck", "Config", "ConfigAck"}
    /\ IF phase[p] = "app" /\ kept[p] = x.conn
       THEN /\ IF we_initiate(p) = (x.kind \in {"HelloAck", "ConfigAck"})
               THEN /\ Go(p, IF x.kind \in {"Config", "ConfigAck"} THEN "session" ELSE "app")
                    /\ packets' = (packets \ {x})
                           \cup {Sent(k, x.conn, Other(p)) : k \in Answer(x.kind)}
                    /\ UNCHANGED side
               ELSE Fail(p, packets \ {x})
       ELSE packets' = packets \ {x} /\ UNCHANGED <<phase, side>>
    /\ UNCHANGED <<matchVars, raceVars, kept>>

-----------------------------------------------------------------------------
Arrives(x) ==
    \/ Matched(x)
    \/ Initial(x)
    \/ Replied(x)
    \/ Finish(x)
    \/ ClosedByPeer(x)
    \/ Handshake(x)

Deliver == \E x \in packets : Deliverable(x) /\ Arrives(x)

\* What a peer does by itself as soon as it can.
Local(p) ==
    \/ SendHello(p)
    \/ HellosSent(p)
    \/ Connect(p)
    \/ PunchTimesOut(p)

Due(p) ==
    \/ phase[p] = "hello" /\ timer[p] = 0
    \/ phase[p] = "race" /\ timer[p] = 0 /\ side[p][p] = "none"
    \/ phase[p] = "race" /\ patience[p] = 0

Past(t) == IF t = 0 THEN 0 ELSE t - 1

\* Time passes, but not while something is due.
Tick ==
    /\ \E p \in Peer : phase[p] \in {"hello", "race"}
    /\ \A p \in Peer : ~ Due(p)
    /\ \A x \in packets : Deliverable(x) => x.age < latency
    /\ timer' = [p \in Peer |-> Past(timer[p])]
    /\ patience' = [p \in Peer |-> IF phase[p] = "race" THEN Past(patience[p]) ELSE 0]
    /\ packets' = {[x EXCEPT !.age = IF @ < latency THEN @ + 1 ELSE @] : x \in packets}
    /\ UNCHANGED <<matchVars, phase, hellos, side, kept>>

Next ==
    \/ \E p \in Peer : StunFails(p) \/ Stun(p) \/ Register(p) \/ RegisterFails(p)
    \/ Pair
    \/ Deliver
    \/ \E p \in Peer : Local(p)
    \/ \E p \in Peer : IdleTimeout(p)
    \/ Tick

Spec == Init /\ [][Next]_vars

\* Every step of a peer has its timeout, packets arrive or are repeated, and time
\* passes; a match is not owed to anybody.
FairSpec ==
    /\ Spec
    /\ \A p \in Peer : /\ WF_vars(Stun(p) \/ StunFails(p))
                       /\ WF_vars(Register(p) \/ RegisterFails(p))
                       /\ WF_vars(Local(p))
                       /\ WF_vars(IdleTimeout(p))
    /\ WF_vars(Deliver)
    /\ WF_vars(Tick)

-----------------------------------------------------------------------------
(* Properties. *)

\* A peer has a session only over the connection the other has kept too,
\* whatever the order in which the two races ended: from_rendezvous never
\* returns a session that hangs on the connection the other side dropped.
SessionsAgree ==
    \A p \in Peer : phase[p] = "session" => kept[Other(p)] = kept[p]

NearAndRacing == 3 * latency < Stagger /\ PathOpen /\ \A p \in Peer : phase[p] = "race"
BothInSession == \A p \in Peer : phase[p] = "session"
BothFailed == \A p \in Peer : phase[p] = "failed"

\* The stagger settles the race if it is longer than a match, an Initial and a
\* Reply can take together: the first peer has its connection before an Initial
\* of the second can arrive, and both get their session, directly or over the
\* relay. Beyond that the handshakes may cross, each peer keeps the connection
\* it opened itself, and both calls fail (EndsTogether).
NearPeersPair == NearAndRacing ~> BothInSession

\* Both calls end, and in the same way: no peer is left with a session, or
\* waiting for one, when the other has failed.
EndsTogether == <>[](BothInSession \/ BothFailed)
=============================================================================
