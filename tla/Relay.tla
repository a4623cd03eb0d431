-------------------------------- MODULE Relay --------------------------------
(***************************************************************************)
(* The UDP relay of rendezvousd: RelayState with its table of sessions and *)
(* its reverse index from source address to session, changed by three      *)
(* tasks under one mutex: the rendezvous server reserves sessions, the     *)
(* forwarding loop binds addresses and forwards, the sweep evicts.         *)
(*                                                                         *)
(* A tick of the clock is half a second, the burst the token bucket allows.*)
(***************************************************************************)
EXTENDS Naturals

CONSTANTS
    Token,           \* session tokens
    Addr,            \* UDP source addresses
    Fingerprint,     \* certificate fingerprints
    None,            \* Option::None
    HalfCap,         \* bytes per tick under --max-relay-mbps; 0 = no cap
    Length,          \* lengths of datagrams
    IdleTimeout,     \* SESSION_IDLE_TIMEOUT, in ticks
    SweepInterval,   \* IDLE_SWEEP_INTERVAL, in ticks
    MaxClock,        \* bound of the model: how long the relay is watched
    MaxBytes         \* bound of the model: bytes_forwarded

Session ==
    [peer_a : Addr \cup {None}, peer_b : Addr \cup {None},
     created_at : Nat, last_active : Nat,
     fp_a : Fingerprint, fp_b : Fingerprint]

Datagram == [src : Addr, dest : Addr]

ASSUME RelayAssumption ==
    /\ None \notin Addr /\ None \notin Token
    /\ None \notin Session /\ None \notin Datagram
    /\ HalfCap \in Nat
    /\ Length \subseteq Nat
    /\ IdleTimeout \in Nat /\ SweepInterval \in Nat
    /\ MaxClock \in Nat /\ MaxBytes \in Nat

VARIABLES
    sessions,          \* RelayState.sessions; None where there is no entry
    addr_to_token,     \* RelayState.addr_to_token, likewise
    bytes_forwarded,   \* RelayState.bytes_forwarded
    bucket_tokens,     \* token bucket of forward_loop: bytes available ...
    bucket_last,       \* ... and when it was last topped up
    sending,           \* the datagram forward_loop is about to send_to
    clock,             \* Instant::now()
    next_sweep         \* when idle_sweep_loop wakes up

bucketVars == <<bucket_tokens, bucket_last>>
tableVars  == <<sessions, addr_to_token>>
vars == <<sessions, addr_to_token, bytes_forwarded, bucket_tokens, bucket_last,
          sending, clock, next_sweep>>

TypeOK ==
    /\ sessions \in [Token -> Session \cup {None}]
    /\ addr_to_token \in [Addr -> Token \cup {None}]
    /\ bytes_forwarded \in Nat
    /\ bucket_tokens \in Nat
    /\ bucket_last \in Nat /\ bucket_last <= clock
    /\ sending \in Datagram \cup {None}
    /\ clock \in Nat
    /\ next_sweep \in Nat /\ clock <= next_sweep

Init ==
    /\ sessions = [t \in Token |-> None]
    /\ addr_to_token = [a \in Addr |-> None]
    /\ bytes_forwarded = 0
    /\ bucket_tokens = 2 * HalfCap
    /\ bucket_last = 0
    /\ sending = None
    /\ clock = 0
    /\ next_sweep = SweepInterval

-----------------------------------------------------------------------------
(* Reservation, eviction. *)

Live == {t \in Token : sessions[t] # None}

HalfOpen(s) == s.peer_a = None \/ s.peer_b = None

\* A half-open session ages from its creation, a full one from its last packet.
Since(s) == IF HalfOpen(s) THEN s.created_at ELSE s.last_active

\* The rendezvous server reserves a session for two peers it has paired.
\* Tokens are random and never collide; equal fingerprints are refused.
reserve(t, fpA, fpB) ==
    /\ t \notin Live
    /\ fpA # fpB
    /\ sessions' = [sessions EXCEPT ![t] =
           [peer_a |-> None, peer_b |-> None,
            created_at |-> clock, last_active |-> clock,
            fp_a |-> fpA, fp_b |-> fpB]]
    /\ UNCHANGED <<addr_to_token, bytes_forwarded, bucketVars, sending, clock, next_sweep>>

\* Mutant of forget: only the first peer's address leaves the index.
forgetOnlyA(ts) ==
    /\ sessions' = [t \in Token |-> IF t \in ts THEN None ELSE sessions[t]]
    /\ addr_to_token' = [a \in Addr |->
           IF \E t \in ts : a = sessions[t].peer_a
           THEN None ELSE addr_to_token[a]]

\* The sessions ts leave the table, and both their addresses the index.
forget(ts) ==
    /\ sessions' = [t \in Token |-> IF t \in ts THEN None ELSE sessions[t]]
    /\ addr_to_token' = [a \in Addr |->
           IF \E t \in ts : a \in {sessions[t].peer_a, sessions[t].peer_b}
           THEN None ELSE addr_to_token[a]]

\* Mutant of Stale: traffic of the one peer keeps a half-open session alive.
StaleByActivity(s) == clock - s.last_active > IdleTimeout

Stale(s) == clock - Since(s) > IdleTimeout

evict_idle == forget({t \in Live : Stale(sessions[t])})

\* One round of idle_sweep_loop; the next sleep starts when it is through.
Sweep ==
    /\ clock = next_sweep
    /\ next_sweep' = clock + SweepInterval
    /\ evict_idle
    /\ UNCHANGED <<bytes_forwarded, bucketVars, sending, clock>>

\* The sweep wakes up in time.
Tick ==
    /\ clock < next_sweep
    /\ clock < MaxClock
    /\ clock' = clock + 1
    /\ UNCHANGED <<tableVars, bytes_forwarded, bucketVars, sending, next_sweep>>

-----------------------------------------------------------------------------
(* forward_loop: one task, one datagram at a time. *)

\* Mutant of AtRecv: datagrams are handled by more than one task.
AtRecvConcurrent == TRUE

AtRecv == sending = None

Least(i, j) == IF i <= j THEN i ELSE j

Refilled == Least(bucket_tokens + (clock - bucket_last) * HalfCap, HalfCap)

\* Mutant of Admitted: the same time is credited again with every datagram.
AdmittedUnstamped(len) ==
    IF HalfCap = 0
    THEN UNCHANGED bucketVars
    ELSE /\ len <= Refilled
         /\ bucket_tokens' = Refilled - len
         /\ UNCHANGED bucket_last

\* The datagram passes the rate cap.
Admitted(len) ==
    IF HalfCap = 0
    THEN UNCHANGED bucketVars
    ELSE /\ len <= Refilled
         /\ bucket_tokens' = Refilled - len
         /\ bucket_last' = clock

RateCapped(len) ==
    /\ AtRecv
    /\ HalfCap > 0
    /\ len > Refilled
    /\ bucket_tokens' = Refilled
    /\ bucket_last' = clock
    /\ UNCHANGED <<tableVars, bytes_forwarded, sending, clock, next_sweep>>

\* A datagram, hello or not, from a bound address: it keeps the session alive
\* and goes to the partner, if there is one.  The mutex is released before
\* send_to.
Forward(src, len) ==
    LET t == addr_to_token[src]
        s == sessions[t]
    IN  /\ AtRecv
        /\ t # None
        /\ t \in Live
        /\ Admitted(len)
        /\ sessions' = [sessions EXCEPT ![t].last_active = clock]
        /\ \/ /\ ~ HalfOpen(s)
              /\ src \in {s.peer_a, s.peer_b}
              /\ bytes_forwarded + len <= MaxBytes
              /\ bytes_forwarded' = bytes_forwarded + len
              /\ sending' = [src |-> src,
                             dest |-> IF src = s.peer_a THEN s.peer_b ELSE s.peer_a]
           \/ /\ HalfOpen(s) \/ src \notin {s.peer_a, s.peer_b}
              /\ UNCHANGED <<bytes_forwarded, sending>>
        /\ UNCHANGED <<addr_to_token, clock, next_sweep>>

\* Mutant of SlotOf: a hello for a taken slot takes it over.
SlotOfTakeover(s, fp) ==
    IF fp = s.fp_a THEN "A" ELSE IF fp = s.fp_b THEN "B" ELSE "none"

\* The slot a hello with this fingerprint may take.
SlotOf(s, fp) ==
    IF fp = s.fp_a /\ s.peer_a = None THEN "A"
    ELSE IF fp # s.fp_a /\ fp = s.fp_b /\ s.peer_b = None THEN "B"
    ELSE "none"

\* A hello from an unbound address takes its slot.
Join(src, t, fp, len) ==
    /\ AtRecv
    /\ addr_to_token[src] = None
    /\ Admitted(len)
    /\ t \in Live
    /\ \/ /\ SlotOf(sessions[t], fp) = "A"
          /\ sessions' = [sessions EXCEPT ![t].peer_a = src, ![t].last_active = clock]
       \/ /\ SlotOf(sessions[t], fp) = "B"
          /\ sessions' = [sessions EXCEPT ![t].peer_b = src, ![t].last_active = clock]
    /\ addr_to_token' = [addr_to_token EXCEPT ![src] = t]
    /\ UNCHANGED <<bytes_forwarded, sending, clock, next_sweep>>

\* A datagram that changes no table: not a hello, a hello for an unknown token,
\* a taken slot or with an unknown fingerprint, or from an address whose
\* session is gone.  It still costs tokens.
Ignored(src, len) ==
    /\ AtRecv
    /\ addr_to_token[src] \notin Live
    /\ Admitted(len)
    /\ UNCHANGED <<tableVars, bytes_forwarded, sending, clock, next_sweep>>

\* send_to; an error is only logged.
SendTo ==
    /\ sending # None
    /\ sending' = None
    /\ UNCHANGED <<tableVars, bytes_forwarded, bucketVars, clock, next_sweep>>

ForwardLoop ==
    \/ \E len \in Length :
          \/ RateCapped(len)
          \/ \E src \in Addr :
                \/ Forward(src, len)
                \/ Ignored(src, len)
                \/ \E t \in Token, fp \in Fingerprint : Join(src, t, fp, len)
    \/ SendTo

Next ==
    \/ \E t \in Token, fpA, fpB \in Fingerprint : reserve(t, fpA, fpB)
    \/ ForwardLoop
    \/ Sweep
    \/ Tick

Spec == Init /\ [][Next]_vars

-----------------------------------------------------------------------------
(* Correctness. *)

\* The index and the table agree: an address is indexed under t exactly when it
\* holds a slot of session t.  A stale entry would swallow the hello of a peer
\* that wants to join another session, a missing one its packets.
IndexConsistent ==
    \A a \in Addr, t \in Token :
        addr_to_token[a] = t <=> /\ t \in Live
                                 /\ a \in {sessions[t].peer_a, sessions[t].peer_b}

\* No address is its own partner: the relay never echoes.
PartnersDistinct ==
    \A t \in Live : ~ HalfOpen(sessions[t]) => sessions[t].peer_a # sessions[t].peer_b

\* The datagram about to be sent stays within the session it was received in,
\* although the mutex is free and the session may be evicted meanwhile: its two
\* addresses are still partners, or neither belongs to any session.
DatagramStaysInSession ==
    sending # None =>
        /\ sending.dest # sending.src
        /\ addr_to_token[sending.dest] = addr_to_token[sending.src]

\* A slot keeps its address for as long as the session lives.
SlotsAreStable ==
    [][\A t \in Token : t \in Live /\ sessions'[t] # None =>
          /\ sessions[t].peer_a # None => sessions'[t].peer_a = sessions[t].peer_a
          /\ sessions[t].peer_b # None => sessions'[t].peer_b = sessions[t].peer_b]_vars

\* No session outlives the idle timeout by more than a sweep interval, a
\* half-open one not even when its one peer keeps sending.
IdleBounded ==
    \A t \in Live : clock - Since(sessions[t]) <= IdleTimeout + SweepInterval

\* The rate cap holds over the relay's whole life, with one burst of half a
\* second: the bytes forwarded never exceed it.
RateBounded == HalfCap > 0 => bytes_forwarded <= (clock + 1) * HalfCap

-----------------------------------------------------------------------------
(* The inductive forms of the last two, for RelayProofs. *)

\* What has been forwarded and what the bucket still allows fit under the cap.
BucketAccounts == HalfCap > 0 => bytes_forwarded + Refilled <= (clock + 1) * HalfCap

\* The next sweep comes in time for every session.
SweepInTime ==
    /\ next_sweep <= clock + SweepInterval
    /\ \A t \in Live : /\ Since(sessions[t]) <= clock
                       /\ next_sweep <= Since(sessions[t]) + IdleTimeout + SweepInterval
=============================================================================
