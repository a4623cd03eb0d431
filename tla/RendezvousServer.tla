-------------------------- MODULE RendezvousServer --------------------------
(***************************************************************************)
(* The rendezvous server: one task per TCP connection runs                 *)
(* handle_connection, and all of them share the table of waiting codes.    *)
(* Each await of the code (a lock, a frame, the oneshot channel from the   *)
(* second peer's task to the first's) is a point where other tasks run.    *)
(*                                                                         *)
(* The deadline of a waiting registration is abstracted to the flag        *)
(* expired, raised at any time after the registration; expires_at and the  *)
(* timeout around the oneshot are set to the same ttl one after the other. *)
(***************************************************************************)
EXTENDS Naturals, FiniteSets

CONSTANTS
    Conn,             \* accepted connections; a device that retries makes a new one
    Code,             \* valid rendezvous codes
    Device,           \* device ids, one per process of the application
    cert_fingerprint, \* of a device: processes of one installation share the identity
    None,             \* Option::None
    HasRelay,         \* is a relay attached (--relay-bind)?
    MaxConcurrent,    \* permits of the concurrency semaphore
    MaxWriteErrors    \* bound of the model: writes that fail because the client left

Request == [code : Code, device_id : Device, want_relay : BOOLEAN]

ASSUME ServerAssumption ==
    /\ None \notin Conn /\ None \notin Request
    /\ IsFiniteSet(Conn)
    /\ DOMAIN cert_fingerprint = Device
    /\ HasRelay \in BOOLEAN
    /\ MaxConcurrent \in Nat \ {0}
    /\ MaxWriteErrors \in Nat

VARIABLES
    pc,           \* where each connection's handler is
    req,          \* its RegisterRequest
    waiting,      \* State.waiting: the connection whose Waiter the code has, or None
    expired,      \* has the connection's ttl run out?
    taken,        \* connection whose Waiter the second peer's handler removed
    channel,      \* the oneshot back to a first peer's handler
    outcome,      \* what a first peer's handler got out of its wait
    reply,        \* what the client has been told
    writeErrors   \* writes that may still fail

vars == <<pc, req, waiting, expired, taken, channel, outcome, reply, writeErrors>>

\* What is said to a client: peer is the connection it is paired with, whose
\* endpoint, fingerprint and device id the message carries.
Match(kind, peer) == [type |-> kind, peer |-> peer]
Silent   == [type |-> "none", peer |-> None]
Rejected == [type |-> "Rejected", peer |-> None]
Expired  == [type |-> "Expired", peer |-> None]
Closed   == [type |-> "closed", peer |-> None]

MatchType == {"Match", "RelayMatch"}
Reply == [type : MatchType, peer : Conn] \cup {Silent, Rejected, Expired, Closed}

\* A oneshot: open, its sender dropped, or holding the second peer's payload.
Open    == [type |-> "open", peer |-> None]
Dropped == [type |-> "dropped", peer |-> None]
Channel == [type : MatchType, peer : Conn] \cup {Open, Dropped}

Phases == {"queued", "read", "lookup", "insert", "wait", "cleanup", "answer",
           "reserve", "tell", "notify", "done"}

TypeOK ==
    /\ pc \in [Conn -> Phases]
    /\ req \in [Conn -> Request \cup {None}]
    /\ \A c \in Conn : pc[c] \notin {"queued", "read", "done"} => req[c] # None
    /\ waiting \in [Code -> Conn \cup {None}]
    /\ expired \in [Conn -> BOOLEAN]
    /\ taken \in [Conn -> Conn \cup {None}]
    /\ channel \in [Conn -> Channel]
    /\ outcome \in [Conn -> Channel]
    /\ reply \in [Conn -> Reply]
    /\ writeErrors \in Nat

Init ==
    /\ pc = [c \in Conn |-> "queued"]
    /\ req = [c \in Conn |-> None]
    /\ waiting = [k \in Code |-> None]
    /\ expired = [c \in Conn |-> FALSE]
    /\ taken = [c \in Conn |-> None]
    /\ channel = [c \in Conn |-> Open]
    /\ outcome = [c \in Conn |-> Open]
    /\ reply = [c \in Conn |-> Silent]
    /\ writeErrors = MaxWriteErrors

-----------------------------------------------------------------------------
Go(c, phase) == pc' = [pc EXCEPT ![c] = phase]

\* The handler answers with m and ends; the client may be gone.
Says(c, m) ==
    \/ /\ reply' = [reply EXCEPT ![c] = m]
       /\ UNCHANGED writeErrors
    \/ /\ writeErrors > 0
       /\ writeErrors' = writeErrors - 1
       /\ reply' = [reply EXCEPT ![c] = Closed]

\* Dropping a Waiter drops the sender of its oneshot.
DropSenders(cs) ==
    channel' = [c \in Conn |->
        IF c \in cs /\ channel[c] = Open THEN Dropped ELSE channel[c]]

\* run(): a permit is taken before the connection is accepted.
Accept(c) ==
    /\ pc[c] = "queued"
    /\ Cardinality({d \in Conn : pc[d] \notin {"queued", "done"}}) < MaxConcurrent
    /\ Go(c, "read")
    /\ UNCHANGED <<req, waiting, expired, taken, channel, outcome, reply, writeErrors>>

\* The first frame is a Register with the right version and a valid code.
ReadRegister(c) ==
    /\ pc[c] = "read"
    /\ req' \in {[req EXCEPT ![c] = r] : r \in Request}
    /\ Go(c, "lookup")
    /\ UNCHANGED <<waiting, expired, taken, channel, outcome, reply, writeErrors>>

\* It is something else, undecodable, or does not come in time.
BadFirstFrame(c) ==
    /\ pc[c] = "read"
    /\ reply' \in {[reply EXCEPT ![c] = m] : m \in {Rejected, Closed}}
    /\ Go(c, "done")
    /\ UNCHANGED <<req, waiting, expired, taken, channel, outcome, writeErrors>>

\* Mutant of Lookup: the waiter is read but stays in the table.
LookupNoRemove(c) ==
    LET code == req[c].code
        stale == {k \in Code : waiting[k] # None /\ expired[waiting[k]]}
        found == IF code \in stale THEN None ELSE waiting[code]
    IN  /\ pc[c] = "lookup"
        /\ waiting' = [k \in Code |-> IF k \in stale THEN None ELSE waiting[k]]
        /\ DropSenders({waiting[k] : k \in stale})
        /\ taken' = [taken EXCEPT ![c] = found]
        /\ Go(c, IF found = None THEN "insert" ELSE "reserve")
        /\ UNCHANGED <<req, expired, outcome, reply, writeErrors>>

\* Under the lock: expired waiters of every code are dropped, then the waiter
\* of this code, if any, is taken out of the table.
Lookup(c) ==
    LET code == req[c].code
        stale == {k \in Code : waiting[k] # None /\ expired[waiting[k]]}
        found == IF code \in stale THEN None ELSE waiting[code]
    IN  /\ pc[c] = "lookup"
        /\ waiting' = [k \in Code |-> IF k \in stale \cup {code} THEN None ELSE waiting[k]]
        /\ DropSenders({waiting[k] : k \in stale})
        /\ taken' = [taken EXCEPT ![c] = found]
        /\ Go(c, IF found = None THEN "insert" ELSE "reserve")
        /\ UNCHANGED <<req, expired, outcome, reply, writeErrors>>

-----------------------------------------------------------------------------
(* The second peer's handler. *)

needs_relay(c) == HasRelay /\ (req[c].want_relay \/ req[taken[c]].want_relay)

MatchKind(c) == IF needs_relay(c) THEN "RelayMatch" ELSE "Match"

\* A relayed pair needs a session; the relay refuses one to peers with the same
\* certificate, and the first peer's waiter is dropped.
ReserveSession(c) ==
    /\ pc[c] = "reserve"
    /\ IF /\ needs_relay(c)
          /\ cert_fingerprint[req[c].device_id] = cert_fingerprint[req[taken[c]].device_id]
       THEN /\ Says(c, Rejected)
            /\ DropSenders({taken[c]})
            /\ Go(c, "done")
       ELSE /\ Go(c, "tell")
            /\ UNCHANGED <<channel, reply, writeErrors>>
    /\ UNCHANGED <<req, waiting, expired, taken, outcome>>

\* The match is written to this peer first; when that fails the handler ends
\* and the first peer's waiter is dropped.
TellSecond(c) ==
    /\ pc[c] = "tell"
    /\ Says(c, Match(MatchKind(c), taken[c]))
    /\ IF reply'[c] = Closed
       THEN DropSenders({taken[c]}) /\ Go(c, "done")
       ELSE UNCHANGED channel /\ Go(c, "notify")
    /\ UNCHANGED <<req, waiting, expired, taken, outcome>>

\* Mutant of Notify: the first peer is always sent a direct match.
NotifyDirect(c) ==
    /\ pc[c] = "notify"
    /\ channel' = [channel EXCEPT ![taken[c]] =
           IF pc[taken[c]] = "wait" THEN Match("Match", c) ELSE @]
    /\ Go(c, "done")
    /\ UNCHANGED <<req, waiting, expired, taken, outcome, reply, writeErrors>>

\* Then the first peer's handler is told, which fails unnoticed when it has
\* given up waiting.
Notify(c) ==
    /\ pc[c] = "notify"
    /\ channel' = [channel EXCEPT ![taken[c]] =
           IF pc[taken[c]] = "wait" THEN Match(MatchKind(c), c) ELSE @]
    /\ Go(c, "done")
    /\ UNCHANGED <<req, waiting, expired, taken, outcome, reply, writeErrors>>

-----------------------------------------------------------------------------
(* The first peer's handler. *)

\* Mutant of Insert: a registration that got in between is overwritten, and its
\* Waiter dropped.
InsertOverwrites(c) ==
    /\ pc[c] = "insert"
    /\ waiting' = [waiting EXCEPT ![req[c].code] = c]
    /\ DropSenders({waiting[req[c].code]})
    /\ Go(c, "wait")
    /\ UNCHANGED <<req, expired, taken, outcome, reply, writeErrors>>

\* The lock is taken again: another connection may have registered the code.
Insert(c) ==
    /\ pc[c] = "insert"
    /\ \/ /\ waiting[req[c].code] = None
          /\ waiting' = [waiting EXCEPT ![req[c].code] = c]
          /\ Go(c, "wait")
          /\ UNCHANGED <<reply, writeErrors>>
       \/ /\ waiting[req[c].code] # None
          /\ Says(c, Rejected)
          /\ Go(c, "done")
          /\ UNCHANGED waiting
    /\ UNCHANGED <<req, expired, taken, channel, outcome>>

\* The ttl of a waiting registration runs out.
Expire(c) ==
    /\ pc[c] = "wait"
    /\ ~ expired[c]
    /\ expired' = [expired EXCEPT ![c] = TRUE]
    /\ UNCHANGED <<pc, req, waiting, taken, channel, outcome, reply, writeErrors>>

\* Mutant of WaitEnds: only a message ends the wait.
WaitEndsNoTimeout(c) ==
    /\ pc[c] = "wait"
    /\ channel[c].type \in MatchType
    /\ outcome' = [outcome EXCEPT ![c] = channel[c]]
    /\ Go(c, "cleanup")
    /\ UNCHANGED <<req, waiting, expired, taken, channel, reply, writeErrors>>

\* timeout(ttl, rx) returns: a payload counts even when the ttl has run out.
WaitEnds(c) ==
    /\ pc[c] = "wait"
    /\ channel[c] # Open \/ expired[c]
    /\ outcome' = [outcome EXCEPT ![c] = IF channel[c] = Open THEN Dropped ELSE channel[c]]
    /\ Go(c, "cleanup")
    /\ UNCHANGED <<req, waiting, expired, taken, channel, reply, writeErrors>>

\* Mutant of Cleanup: the table is only cleaned by later lookups.
CleanupSkipped(c) ==
    /\ pc[c] = "cleanup"
    /\ Go(c, "answer")
    /\ UNCHANGED <<req, waiting, expired, taken, channel, outcome, reply, writeErrors>>

\* The code's waiter is removed if it was registered by the same device.
Cleanup(c) ==
    LET w == waiting[req[c].code]
    IN  /\ pc[c] = "cleanup"
        /\ IF w # None /\ req[w].device_id = req[c].device_id
           THEN /\ waiting' = [waiting EXCEPT ![req[c].code] = None]
                /\ DropSenders({w})
           ELSE UNCHANGED <<waiting, channel>>
        /\ Go(c, "answer")
        /\ UNCHANGED <<req, expired, taken, outcome, reply, writeErrors>>

\* The match, or Expired when the ttl ran out or the waiter was dropped.
AnswerFirst(c) ==
    /\ pc[c] = "answer"
    /\ Says(c, IF outcome[c] = Dropped THEN Expired ELSE outcome[c])
    /\ Go(c, "done")
    /\ UNCHANGED <<req, waiting, expired, taken, channel, outcome>>

-----------------------------------------------------------------------------
Handler(c) ==
    \/ ReadRegister(c)
    \/ BadFirstFrame(c)
    \/ Lookup(c)
    \/ ReserveSession(c)
    \/ TellSecond(c)
    \/ Notify(c)
    \/ Insert(c)
    \/ WaitEnds(c)
    \/ Cleanup(c)
    \/ AnswerFirst(c)

Next == \E c \in Conn : Accept(c) \/ Handler(c) \/ Expire(c)

Spec == Init /\ [][Next]_vars

\* Every task keeps running, every read has a timeout, time passes.
Fairness == \A c \in Conn : WF_vars(Handler(c)) /\ WF_vars(Expire(c)) /\ WF_vars(Accept(c))

FairSpec == Spec /\ Fairness

-----------------------------------------------------------------------------
(* Correctness. *)

IsMatch(m) == m.type \in MatchType

\* A client is told of one peer, and no two clients are told of the same one:
\* however the lookups of a code interleave, pairs do not overlap.
PairsExclusive ==
    \A c, d \in Conn :
        IsMatch(reply[c]) /\ IsMatch(reply[d]) /\ reply[c].peer = reply[d].peer => c = d

\* The two sides of a pair never disagree: if c was told of d, then d has been
\* told of c in the same way (direct or relayed), or hears later, or gets no
\* match at all; it is never told of a third client.
PairsMutual ==
    \A c \in Conn : IsMatch(reply[c]) =>
        LET d == reply[c].peer
        IN  IsMatch(reply[d]) => reply[d] = Match(reply[c].type, c)

\* What may take a waiting client out of the table: its ttl, a second peer, or
\* (see WaiterLeavesForReason) the cleanup of an earlier connection of its own
\* device under the same code.
LostItsPlace(c) ==
    \/ expired[c]
    \/ \E d \in Conn : taken[d] = c
    \/ \E d \in Conn \ {c} : /\ outcome[d] # Open
                            /\ req[d].code = req[c].code
                            /\ req[d].device_id = req[c].device_id

\* A client is told that its code has expired only then: a client that comes
\* between its lookup and the insertion of another is not displaced by it, and
\* of a lookup, a refused session or a second peer that has left only the one
\* who was waiting for that peer hears.
ExpiredForReason == \A c \in Conn : reply[c] = Expired => LostItsPlace(c)

\* The table holds no waiter of a handler that has ended: codes become free
\* again and the table does not grow.
NoLeakedWaiter ==
    \A k \in Code : waiting[k] # None =>
        /\ pc[waiting[k]] \in {"wait", "cleanup"}
        /\ req[waiting[k]].code = k

\* Every connection, those that wait in the listener's queue for a permit too,
\* is accepted, then answered or closed.
HandlersEnd == \A c \in Conn : <>(pc[c] = "done")

-----------------------------------------------------------------------------
(* Why pairs do not overlap: the parts of the inductive invariant of       *)
(* RendezvousServerProofs.                                                 *)

\* A handler that has taken a waiter stays a second peer's handler, and the one
\* it has taken it from a first peer's.
Roles ==
    \A c \in Conn :
        /\ pc[c] \in {"reserve", "tell", "notify"} => taken[c] # None
        /\ taken[c] # None => /\ pc[c] \in {"reserve", "tell", "notify", "done"}
                              /\ pc[taken[c]] \in {"wait", "cleanup", "answer", "done"}
                              /\ taken[taken[c]] = None
        /\ pc[c] \in {"cleanup", "answer"} => outcome[c] # Open
        /\ pc[c] \in {"queued", "read", "lookup", "insert"} =>
               channel[c] = Open /\ outcome[c] = Open

\* A waiter is taken once, and is then out of the table.
TakenOnce ==
    /\ \A c, d \in Conn : taken[c] = taken[d] /\ taken[c] # None => c = d
    /\ \A k \in Code : waiting[k] # None => /\ channel[waiting[k]] = Open
                                            /\ \A d \in Conn : taken[d] # waiting[k]

\* What a client is told is what its handler learnt: as a second peer from the
\* waiter it took, as a first peer from the second.
RepliesFounded ==
    \A c \in Conn :
        /\ IsMatch(reply[c]) =>
               \/ /\ taken[c] # None
                  /\ pc[c] \in {"notify", "done"}
                  /\ reply[c].peer = taken[c]
               \/ /\ taken[c] = None
                  /\ pc[c] = "done"
                  /\ reply[c] = outcome[c]
        /\ pc[c] = "notify" => reply[c] = Match(MatchKind(c), taken[c])

\* What a first peer's handler is sent comes from the handler that took its
\* waiter, after that one has told its own client the same.
MatchFrom(m, c) ==
    IsMatch(m) => /\ taken[m.peer] = c
                  /\ pc[m.peer] = "done"
                  /\ reply[m.peer] = Match(m.type, c)

MessagesTrue ==
    \A c \in Conn : MatchFrom(channel[c], c) /\ MatchFrom(outcome[c], c)

\* A Waiter is dropped, and its handler's wait in vain, for a reason.
DropsForReason ==
    \A c \in Conn :
        /\ channel[c] = Dropped \/ outcome[c] = Dropped => LostItsPlace(c)
        /\ reply[c] = Expired => pc[c] = "done" /\ outcome[c] = Dropped

-----------------------------------------------------------------------------
(* What a comment says of the program and the code does not do: violated,  *)
(* see the findings in README.md.                                          *)

\* "Same generation only": a registration loses its place only when its ttl is
\* over or a second peer takes it, not to the cleanup of an earlier connection.
WaiterLeavesForReason ==
    [][\A k \in Code : waiting[k] # None /\ waiting'[k] # waiting[k] =>
          \/ expired[waiting[k]]
          \/ \E d \in Conn : pc'[d] \in {"reserve", "tell", "notify"} /\ taken'[d] = waiting[k]]_vars
=============================================================================
