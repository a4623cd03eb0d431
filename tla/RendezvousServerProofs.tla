----------------------- MODULE RendezvousServerProofs -----------------------
(***************************************************************************)
(* However the handlers of the rendezvous server interleave, the pairs it  *)
(* makes do not overlap and no waiting client is turned away for another,  *)
(* for any number of connections, codes and devices.                       *)
(***************************************************************************)
EXTENDS RendezvousServer, TLAPS

\* What every step preserves.  That pairs are exclusive and mutual follows:
\* replies go back to a waiter that was taken, and no waiter is taken twice.
IInv ==
    /\ TypeOK
    /\ NoLeakedWaiter
    /\ Roles
    /\ TakenOnce
    /\ RepliesFounded
    /\ MessagesTrue
    /\ DropsForReason

\* A handler that has ended does nothing any more.
DoneStays ==
    \A d \in Conn : pc[d] = "done" =>
        pc'[d] = "done" /\ reply'[d] = reply[d] /\ taken'[d] = taken[d]

\* A step that sends nothing to a first peer's handler keeps what is in the
\* channels true.
LEMMA MessagesKept ==
    ASSUME TypeOK, MessagesTrue, DoneStays,
           \A d \in Conn : IsMatch(channel'[d]) => channel'[d] = channel[d],
           \A d \in Conn : IsMatch(outcome'[d]) => outcome'[d] \in {outcome[d], channel[d]}
    PROVE  MessagesTrue'
<1>1. ASSUME NEW c \in Conn, NEW m \in {outcome[c], channel[c]}, IsMatch(m)
      PROVE  /\ taken'[m.peer] = c
             /\ pc'[m.peer] = "done"
             /\ reply'[m.peer] = Match(m.type, c)
  <2>1. m.peer \in Conn
    BY <1>1 DEF TypeOK, Channel, IsMatch, MatchType, Open, Dropped
  <2>2. /\ taken[m.peer] = c
        /\ pc[m.peer] = "done"
        /\ reply[m.peer] = Match(m.type, c)
    BY <1>1 DEF MessagesTrue, MatchFrom
  <2> QED BY <2>1, <2>2 DEF DoneStays
<1>2. ASSUME NEW c \in Conn, IsMatch(channel'[c])
      PROVE  /\ taken'[channel'[c].peer] = c
             /\ pc'[channel'[c].peer] = "done"
             /\ reply'[channel'[c].peer] = Match(channel'[c].type, c)
  BY <1>1, <1>2
<1>3. ASSUME NEW c \in Conn, IsMatch(outcome'[c])
      PROVE  /\ taken'[outcome'[c].peer] = c
             /\ pc'[outcome'[c].peer] = "done"
             /\ reply'[outcome'[c].peer] = Match(outcome'[c].type, c)
  <2>1. outcome'[c] \in {outcome[c], channel[c]}
    BY <1>3
  <2> QED BY <1>1, <1>3, <2>1
<1> QED BY <1>2, <1>3 DEF MessagesTrue, MatchFrom, IsMatch, Match

\* What has taken a client out of the table stays a reason.
LEMMA ReasonStays ==
    ASSUME \A d \in Conn : expired[d] => expired'[d],
           \A d \in Conn : taken[d] # None => taken'[d] = taken[d],
           \A d \in Conn : outcome[d] # Open => outcome'[d] # Open /\ req'[d] = req[d],
           NEW c \in Conn, req'[c] = req[c], LostItsPlace(c)
    PROVE  LostItsPlace(c)'
<1>1. CASE expired[c]
  BY <1>1 DEF LostItsPlace
<1>2. CASE \E d \in Conn : taken[d] = c
  BY <1>2, ServerAssumption DEF LostItsPlace
<1>3. CASE \E d \in Conn \ {c} : /\ outcome[d] # Open
                                /\ req[d].code = req[c].code
                                /\ req[d].device_id = req[c].device_id
  BY <1>3 DEF LostItsPlace, Open
<1> QED BY <1>1, <1>2, <1>3 DEF LostItsPlace

\* run() accepts a connection.
LEMMA AcceptKeeps ==
    ASSUME IInv, NEW c \in Conn, Accept(c)
    PROVE  IInv'
<1> USE ServerAssumption DEF IInv, Accept, Go
<1>1. TypeOK'
  BY DEF TypeOK, Phases, Request, Channel, Reply, MatchType, Open, Dropped,
     Silent, Rejected, Expired, Closed, Match, Roles, MatchKind
<1>2. NoLeakedWaiter'
  BY DEF NoLeakedWaiter, TypeOK, Request
<1>3. Roles'
  BY DEF Roles, TypeOK, NoLeakedWaiter, Request, Open, Dropped
<1>4. TakenOnce'
  BY DEF TakenOnce, TypeOK, NoLeakedWaiter, Roles, Request
<1>5. RepliesFounded'
  BY DEF RepliesFounded, TypeOK, Roles, IsMatch, MatchKind, needs_relay,
     Match, MatchType, Silent, Rejected, Expired, Closed, Open, Dropped
<1>6. MessagesTrue'
  <2>1. DoneStays
    BY DEF DoneStays, TypeOK
  <2>2. \A d \in Conn : IsMatch(channel'[d]) => channel'[d] = channel[d]
    BY DEF TypeOK, IsMatch, MatchType, Dropped
  <2>3. \A d \in Conn : IsMatch(outcome'[d]) => outcome'[d] \in {outcome[d], channel[d]}
    BY DEF TypeOK, IsMatch, MatchType, Dropped
  <2> QED BY <2>1, <2>2, <2>3, MessagesKept
<1>7. DropsForReason'
  BY DEF DropsForReason, LostItsPlace, TypeOK, Roles, TakenOnce, Request, Open,
     Dropped, Match, Silent, Rejected, Expired, Closed
<1> QED BY <1>1, <1>2, <1>3, <1>4, <1>5, <1>6, <1>7

\* A registration is read.
LEMMA ReadRegisterKeeps ==
    ASSUME IInv, NEW c \in Conn, ReadRegister(c)
    PROVE  IInv'
<1> USE ServerAssumption DEF IInv, ReadRegister, Go
<1>1. TypeOK'
  BY DEF TypeOK, Phases, Request, Channel, Reply, MatchType, Open, Dropped,
     Silent, Rejected, Expired, Closed, Match, Roles, MatchKind
<1>2. NoLeakedWaiter'
  BY DEF NoLeakedWaiter, TypeOK, Request
<1>3. Roles'
  BY DEF Roles, TypeOK, NoLeakedWaiter, Request, Open, Dropped
<1>4. TakenOnce'
  BY DEF TakenOnce, TypeOK, NoLeakedWaiter, Roles, Request
<1>5. RepliesFounded'
  BY DEF RepliesFounded, TypeOK, Roles, IsMatch, MatchKind, needs_relay,
     Match, MatchType, Silent, Rejected, Expired, Closed, Open, Dropped
<1>6. MessagesTrue'
  <2>1. DoneStays
    BY DEF DoneStays, TypeOK
  <2>2. \A d \in Conn : IsMatch(channel'[d]) => channel'[d] = channel[d]
    BY DEF TypeOK, IsMatch, MatchType, Dropped
  <2>3. \A d \in Conn : IsMatch(outcome'[d]) => outcome'[d] \in {outcome[d], channel[d]}
    BY DEF TypeOK, IsMatch, MatchType, Dropped
  <2> QED BY <2>1, <2>2, <2>3, MessagesKept
<1>7. DropsForReason'
  <2>1. \A d \in Conn : outcome[d] # Open \/ channel[d] # Open => req'[d] = req[d]
    BY DEF Roles, TypeOK
  <2>2. \A d \in Conn : (channel[d] = Dropped \/ outcome[d] = Dropped) => LostItsPlace(d)'
    BY <2>1, ReasonStays DEF DropsForReason, Open, Dropped
  <2>3. \A d \in Conn : reply'[d] = Expired => pc'[d] = "done" /\ outcome'[d] = Dropped
    BY DEF DropsForReason, TypeOK
  <2> QED BY <2>2, <2>3 DEF DropsForReason, Dropped
<1> QED BY <1>1, <1>2, <1>3, <1>4, <1>5, <1>6, <1>7

\* A connection without a registration is closed.
LEMMA BadFirstFrameKeeps ==
    ASSUME IInv, NEW c \in Conn, BadFirstFrame(c)
    PROVE  IInv'
<1> USE ServerAssumption DEF IInv, BadFirstFrame, Go
<1>1. TypeOK'
  BY DEF TypeOK, Phases, Request, Channel, Reply, MatchType, Open, Dropped,
     Silent, Rejected, Expired, Closed, Match, Roles, MatchKind
<1>2. NoLeakedWaiter'
  BY DEF NoLeakedWaiter, TypeOK, Request
<1>3. Roles'
  BY DEF Roles, TypeOK, NoLeakedWaiter, Request, Open, Dropped
<1>4. TakenOnce'
  BY DEF TakenOnce, TypeOK, NoLeakedWaiter, Roles, Request
<1>5. RepliesFounded'
  BY DEF RepliesFounded, TypeOK, Roles, IsMatch, MatchKind, needs_relay,
     Match, MatchType, Silent, Rejected, Expired, Closed, Open, Dropped
<1>6. MessagesTrue'
  <2>1. DoneStays
    BY DEF DoneStays, TypeOK
  <2>2. \A d \in Conn : IsMatch(channel'[d]) => channel'[d] = channel[d]
    BY DEF TypeOK, IsMatch, MatchType, Dropped
  <2>3. \A d \in Conn : IsMatch(outcome'[d]) => outcome'[d] \in {outcome[d], channel[d]}
    BY DEF TypeOK, IsMatch, MatchType, Dropped
  <2> QED BY <2>1, <2>2, <2>3, MessagesKept
<1>7. DropsForReason'
  <2>1. \A d \in Conn : (channel[d] = Dropped \/ outcome[d] = Dropped) => LostItsPlace(d)'
    BY ReasonStays DEF DropsForReason
  <2>2. \A d \in Conn : reply'[d] = Expired => reply[d] = Expired
    BY DEF TypeOK, Expired, Rejected, Closed
  <2>3. \A d \in Conn : reply'[d] = Expired => pc'[d] = "done" /\ outcome'[d] = Dropped
    BY <2>2 DEF DropsForReason, TypeOK
  <2> QED BY <2>1, <2>3 DEF DropsForReason, Dropped
<1> QED BY <1>1, <1>2, <1>3, <1>4, <1>5, <1>6, <1>7

\* The lookup: a waiter goes from the table to exactly one second peer's handler,
\* expired ones are dropped.
LEMMA LookupKeeps ==
    ASSUME IInv, NEW c \in Conn, Lookup(c)
    PROVE  IInv'
<1> USE ServerAssumption DEF IInv, Lookup, Go, DropSenders
<1>1. TypeOK'
  BY DEF TypeOK, Phases, Request, Channel, Reply, MatchType, Open, Dropped,
     Silent, Rejected, Expired, Closed, Match, Roles, MatchKind
<1>2. NoLeakedWaiter'
  BY DEF NoLeakedWaiter, TypeOK, Request
<1>3. Roles'
  BY DEF Roles, TypeOK, NoLeakedWaiter, Request, Open, Dropped
<1>4. TakenOnce'
  BY DEF TakenOnce, TypeOK, NoLeakedWaiter, Roles, Request
<1>5. RepliesFounded'
  BY DEF RepliesFounded, TypeOK, Roles, IsMatch, MatchKind, needs_relay,
     Match, MatchType, Silent, Rejected, Expired, Closed, Open, Dropped
<1>6. MessagesTrue'
  <2>1. DoneStays
    BY DEF DoneStays, TypeOK
  <2>2. \A d \in Conn : IsMatch(channel'[d]) => channel'[d] = channel[d]
    BY DEF TypeOK, IsMatch, MatchType, Dropped
  <2>3. \A d \in Conn : IsMatch(outcome'[d]) => outcome'[d] \in {outcome[d], channel[d]}
    BY DEF TypeOK, IsMatch, MatchType, Dropped
  <2> QED BY <2>1, <2>2, <2>3, MessagesKept
<1>7. DropsForReason'
  BY DEF DropsForReason, LostItsPlace, TypeOK, Roles, TakenOnce, Request, Open,
     Dropped, Match, Silent, Rejected, Expired, Closed
<1> QED BY <1>1, <1>2, <1>3, <1>4, <1>5, <1>6, <1>7

\* A second peer's handler reserves a relay session or is refused one.
LEMMA ReserveSessionKeeps ==
    ASSUME IInv, NEW c \in Conn, ReserveSession(c)
    PROVE  IInv'
<1> USE ServerAssumption DEF IInv, ReserveSession, Go, Says, DropSenders
<1>1. TypeOK'
  <2>1. pc' \in [Conn -> Phases]
    BY DEF TypeOK, Phases
  <2>2. \A d \in Conn : pc'[d] \notin {"queued", "read", "done"} => req'[d] # None
    BY DEF TypeOK
  <2>3. channel' \in [Conn -> Channel]
    BY DEF TypeOK, Channel, Dropped
  <2>4. reply' \in [Conn -> Reply]
    <3>1. taken[c] \in Conn
      BY DEF TypeOK, Roles
    <3>2. Match(MatchKind(c), taken[c]) \in Reply
      BY <3>1 DEF MatchKind, Match, MatchType, Reply
    <3>3. Rejected \in Reply /\ Closed \in Reply
      BY DEF Reply
    <3> QED BY <3>2, <3>3 DEF TypeOK
  <2>5. writeErrors' \in Nat
    BY DEF TypeOK
  <2> QED BY <2>1, <2>2, <2>3, <2>4, <2>5 DEF TypeOK
<1>2. NoLeakedWaiter'
  BY DEF NoLeakedWaiter, TypeOK, Request
<1>3. Roles'
  BY DEF Roles, TypeOK, NoLeakedWaiter, Request, Open, Dropped
<1>4. TakenOnce'
  BY DEF TakenOnce, TypeOK, NoLeakedWaiter, Roles, Request
<1>5. RepliesFounded'
  BY DEF RepliesFounded, TypeOK, Roles, IsMatch, MatchKind, needs_relay,
     Match, MatchType, Silent, Rejected, Expired, Closed, Open, Dropped
<1>6. MessagesTrue'
  <2>1. DoneStays
    BY DEF DoneStays, TypeOK
  <2>2. \A d \in Conn : IsMatch(channel'[d]) => channel'[d] = channel[d]
    BY DEF TypeOK, IsMatch, MatchType, Dropped
  <2>3. \A d \in Conn : IsMatch(outcome'[d]) => outcome'[d] \in {outcome[d], channel[d]}
    BY DEF TypeOK, IsMatch, MatchType, Dropped
  <2> QED BY <2>1, <2>2, <2>3, MessagesKept
<1>7. DropsForReason'
  BY DEF DropsForReason, LostItsPlace, TypeOK, Roles, TakenOnce, Request, Open,
     Dropped, Match, Silent, Rejected, Expired, Closed
<1> QED BY <1>1, <1>2, <1>3, <1>4, <1>5, <1>6, <1>7

\* The second peer is told, or has left and the waiter is dropped.
LEMMA TellSecondKeeps ==
    ASSUME IInv, NEW c \in Conn, TellSecond(c)
    PROVE  IInv'
<1> USE ServerAssumption DEF IInv, TellSecond, Go, Says, DropSenders
<1>1. TypeOK'
  <2>1. pc' \in [Conn -> Phases]
    BY DEF TypeOK, Phases
  <2>2. \A d \in Conn : pc'[d] \notin {"queued", "read", "done"} => req'[d] # None
    BY DEF TypeOK
  <2>3. channel' \in [Conn -> Channel]
    BY DEF TypeOK, Channel, Dropped
  <2>4. reply' \in [Conn -> Reply]
    <3>1. taken[c] \in Conn
      BY DEF TypeOK, Roles
    <3>2. Match(MatchKind(c), taken[c]) \in Reply
      BY <3>1 DEF MatchKind, Match, MatchType, Reply
    <3>3. Rejected \in Reply /\ Closed \in Reply
      BY DEF Reply
    <3> QED BY <3>2, <3>3 DEF TypeOK
  <2>5. writeErrors' \in Nat
    BY DEF TypeOK
  <2> QED BY <2>1, <2>2, <2>3, <2>4, <2>5 DEF TypeOK
<1>2. NoLeakedWaiter'
  BY DEF NoLeakedWaiter, TypeOK, Request
<1>3. Roles'
  BY DEF Roles, TypeOK, NoLeakedWaiter, Request, Open, Dropped
<1>4. TakenOnce'
  BY DEF TakenOnce, TypeOK, NoLeakedWaiter, Roles, Request
<1>5. RepliesFounded'
  BY DEF RepliesFounded, TypeOK, Roles, IsMatch, MatchKind, needs_relay,
     Match, MatchType, Silent, Rejected, Expired, Closed, Open, Dropped
<1>6. MessagesTrue'
  <2>1. DoneStays
    BY DEF DoneStays, TypeOK
  <2>2. \A d \in Conn : IsMatch(channel'[d]) => channel'[d] = channel[d]
    BY DEF TypeOK, IsMatch, MatchType, Dropped
  <2>3. \A d \in Conn : IsMatch(outcome'[d]) => outcome'[d] \in {outcome[d], channel[d]}
    BY DEF TypeOK, IsMatch, MatchType, Dropped
  <2> QED BY <2>1, <2>2, <2>3, MessagesKept
<1>7. DropsForReason'
  BY DEF DropsForReason, LostItsPlace, TypeOK, Roles, TakenOnce, Request, Open,
     Dropped, Match, Silent, Rejected, Expired, Closed
<1> QED BY <1>1, <1>2, <1>3, <1>4, <1>5, <1>6, <1>7

\* The first peer's handler is sent the match its second peer has been told.
LEMMA NotifyKeeps ==
    ASSUME IInv, NEW c \in Conn, Notify(c)
    PROVE  IInv'
<1> USE ServerAssumption DEF IInv, Notify, Go
<1>1. TypeOK'
  BY DEF TypeOK, Phases, Request, Channel, Reply, MatchType, Open, Dropped,
     Silent, Rejected, Expired, Closed, Match, Roles, MatchKind
<1>2. NoLeakedWaiter'
  BY DEF NoLeakedWaiter, TypeOK, Request
<1>3. Roles'
  BY DEF Roles, TypeOK, NoLeakedWaiter, Request, Open, Dropped
<1>4. TakenOnce'
  BY DEF TakenOnce, TypeOK, NoLeakedWaiter, Roles, Request
<1>5. RepliesFounded'
  BY DEF RepliesFounded, TypeOK, Roles, IsMatch, MatchKind, needs_relay,
     Match, MatchType, Silent, Rejected, Expired, Closed, Open, Dropped
<1>6. MessagesTrue'
  <2> DEFINE w == taken[c]
             m == Match(MatchKind(c), c)
  <2>1. w \in Conn /\ w # c
    BY DEF TypeOK, Roles
  <2>2. reply[c] = Match(MatchKind(c), w)
    BY DEF RepliesFounded
  <2>3. \A d \in Conn : channel'[d] = channel[d] \/ (d = w /\ channel'[d] = m)
    <3> HIDE DEF w, m
    <3>1. channel' = [channel EXCEPT ![w] = IF pc[w] = "wait" THEN m ELSE @]
      BY DEF w, m
    <3>2. channel' = [d \in Conn |-> IF d = w /\ pc[w] = "wait" THEN m ELSE channel[d]]
      BY <2>1, <3>1 DEF TypeOK
    <3> QED BY <3>2
  <2>4. /\ pc' = [pc EXCEPT ![c] = "done"]
        /\ taken' = taken /\ reply' = reply /\ outcome' = outcome
    OBVIOUS
  <2>5. ASSUME NEW d \in Conn, NEW v \in {channel[d], outcome[d]}, IsMatch(v)
        PROVE  taken[v.peer] = d /\ pc'[v.peer] = "done" /\ reply[v.peer] = Match(v.type, d)
    <3>1. v.peer \in Conn
      BY <2>5 DEF TypeOK, Channel, IsMatch, MatchType, Open, Dropped
    <3> QED BY <2>4, <2>5, <3>1 DEF MessagesTrue, MatchFrom, TypeOK
  <2>6. m.peer = c /\ m.type = MatchKind(c) /\ pc'[c] = "done"
    BY <2>4 DEF Match, TypeOK
  <2>7. ASSUME NEW d \in Conn, IsMatch(channel'[d])
        PROVE  /\ taken[channel'[d].peer] = d
               /\ pc'[channel'[d].peer] = "done"
               /\ reply[channel'[d].peer] = Match(channel'[d].type, d)
    <3>1. CASE channel'[d] = channel[d]
      BY <2>5, <2>7, <3>1
    <3>2. CASE d = w /\ channel'[d] = m
      BY <2>2, <2>6, <3>2
    <3> QED BY <2>3, <3>1, <3>2
  <2>8. ASSUME NEW d \in Conn, IsMatch(outcome'[d])
        PROVE  /\ taken[outcome'[d].peer] = d
               /\ pc'[outcome'[d].peer] = "done"
               /\ reply[outcome'[d].peer] = Match(outcome'[d].type, d)
    BY <2>4, <2>5, <2>8
  <2> HIDE DEF IInv, Notify, Go
  <2> QED BY <2>4, <2>7, <2>8 DEF MessagesTrue, MatchFrom, IsMatch, Match
<1>7. DropsForReason'
  BY DEF DropsForReason, LostItsPlace, TypeOK, Roles, TakenOnce, Request, Open,
     Dropped, Match, Silent, Rejected, Expired, Closed
<1> QED BY <1>1, <1>2, <1>3, <1>4, <1>5, <1>6, <1>7

\* A first peer's handler registers its waiter or is turned away.
LEMMA InsertKeeps ==
    ASSUME IInv, NEW c \in Conn, Insert(c)
    PROVE  IInv'
<1> USE ServerAssumption DEF IInv, Insert, Go, Says
<1>1. TypeOK'
  BY DEF TypeOK, Phases, Request, Channel, Reply, MatchType, Open, Dropped,
     Silent, Rejected, Expired, Closed, Match, Roles, MatchKind
<1>2. NoLeakedWaiter'
  BY DEF NoLeakedWaiter, TypeOK, Request
<1>3. Roles'
  BY DEF Roles, TypeOK, NoLeakedWaiter, Request, Open, Dropped
<1>4. TakenOnce'
  BY DEF TakenOnce, TypeOK, NoLeakedWaiter, Roles, Request
<1>5. RepliesFounded'
  BY DEF RepliesFounded, TypeOK, Roles, IsMatch, MatchKind, needs_relay,
     Match, MatchType, Silent, Rejected, Expired, Closed, Open, Dropped
<1>6. MessagesTrue'
  <2>1. DoneStays
    BY DEF DoneStays, TypeOK
  <2>2. \A d \in Conn : IsMatch(channel'[d]) => channel'[d] = channel[d]
    BY DEF TypeOK, IsMatch, MatchType, Dropped
  <2>3. \A d \in Conn : IsMatch(outcome'[d]) => outcome'[d] \in {outcome[d], channel[d]}
    BY DEF TypeOK, IsMatch, MatchType, Dropped
  <2> QED BY <2>1, <2>2, <2>3, MessagesKept
<1>7. DropsForReason'
  BY DEF DropsForReason, LostItsPlace, TypeOK, Roles, TakenOnce, Request, Open,
     Dropped, Match, Silent, Rejected, Expired, Closed
<1> QED BY <1>1, <1>2, <1>3, <1>4, <1>5, <1>6, <1>7

\* A ttl runs out.
LEMMA ExpireKeeps ==
    ASSUME IInv, NEW c \in Conn, Expire(c)
    PROVE  IInv'
<1> USE ServerAssumption DEF IInv, Expire
<1>1. TypeOK'
  BY DEF TypeOK, Phases, Request, Channel, Reply, MatchType, Open, Dropped,
     Silent, Rejected, Expired, Closed, Match, Roles, MatchKind
<1>2. NoLeakedWaiter'
  BY DEF NoLeakedWaiter, TypeOK, Request
<1>3. Roles'
  BY DEF Roles, TypeOK, NoLeakedWaiter, Request, Open, Dropped
<1>4. TakenOnce'
  BY DEF TakenOnce, TypeOK, NoLeakedWaiter, Roles, Request
<1>5. RepliesFounded'
  BY DEF RepliesFounded, TypeOK, Roles, IsMatch, MatchKind, needs_relay,
     Match, MatchType, Silent, Rejected, Expired, Closed, Open, Dropped
<1>6. MessagesTrue'
  <2>1. DoneStays
    BY DEF DoneStays, TypeOK
  <2>2. \A d \in Conn : IsMatch(channel'[d]) => channel'[d] = channel[d]
    BY DEF TypeOK, IsMatch, MatchType, Dropped
  <2>3. \A d \in Conn : IsMatch(outcome'[d]) => outcome'[d] \in {outcome[d], channel[d]}
    BY DEF TypeOK, IsMatch, MatchType, Dropped
  <2> QED BY <2>1, <2>2, <2>3, MessagesKept
<1>7. DropsForReason'
  BY DEF DropsForReason, LostItsPlace, TypeOK, Roles, TakenOnce, Request, Open,
     Dropped, Match, Silent, Rejected, Expired, Closed
<1> QED BY <1>1, <1>2, <1>3, <1>4, <1>5, <1>6, <1>7

\* A first peer's wait ends.
LEMMA WaitEndsKeeps ==
    ASSUME IInv, NEW c \in Conn, WaitEnds(c)
    PROVE  IInv'
<1> USE ServerAssumption DEF IInv, WaitEnds, Go
<1>1. TypeOK'
  BY DEF TypeOK, Phases, Request, Channel, Reply, MatchType, Open, Dropped,
     Silent, Rejected, Expired, Closed, Match, Roles, MatchKind
<1>2. NoLeakedWaiter'
  BY DEF NoLeakedWaiter, TypeOK, Request
<1>3. Roles'
  BY DEF Roles, TypeOK, NoLeakedWaiter, Request, Open, Dropped
<1>4. TakenOnce'
  BY DEF TakenOnce, TypeOK, NoLeakedWaiter, Roles, Request
<1>5. RepliesFounded'
  BY DEF RepliesFounded, TypeOK, Roles, IsMatch, MatchKind, needs_relay,
     Match, MatchType, Silent, Rejected, Expired, Closed, Open, Dropped
<1>6. MessagesTrue'
  <2>1. DoneStays
    BY DEF DoneStays, TypeOK
  <2>2. \A d \in Conn : IsMatch(channel'[d]) => channel'[d] = channel[d]
    BY DEF TypeOK, IsMatch, MatchType, Dropped
  <2>3. \A d \in Conn : IsMatch(outcome'[d]) => outcome'[d] \in {outcome[d], channel[d]}
    BY DEF TypeOK, IsMatch, MatchType, Dropped
  <2> QED BY <2>1, <2>2, <2>3, MessagesKept
<1>7. DropsForReason'
  BY DEF DropsForReason, LostItsPlace, TypeOK, Roles, TakenOnce, Request, Open,
     Dropped, Match, Silent, Rejected, Expired, Closed
<1> QED BY <1>1, <1>2, <1>3, <1>4, <1>5, <1>6, <1>7

\* A first peer's handler cleans its code up.
LEMMA CleanupKeeps ==
    ASSUME IInv, NEW c \in Conn, Cleanup(c)
    PROVE  IInv'
<1> USE ServerAssumption DEF IInv, Cleanup, Go, DropSenders
<1>1. TypeOK'
  BY DEF TypeOK, Phases, Request, Channel, Reply, MatchType, Open, Dropped,
     Silent, Rejected, Expired, Closed, Match, Roles, MatchKind
<1>2. NoLeakedWaiter'
  BY DEF NoLeakedWaiter, TypeOK, Request
<1>3. Roles'
  BY DEF Roles, TypeOK, NoLeakedWaiter, Request, Open, Dropped
<1>4. TakenOnce'
  BY DEF TakenOnce, TypeOK, NoLeakedWaiter, Roles, Request
<1>5. RepliesFounded'
  BY DEF RepliesFounded, TypeOK, Roles, IsMatch, MatchKind, needs_relay,
     Match, MatchType, Silent, Rejected, Expired, Closed, Open, Dropped
<1>6. MessagesTrue'
  <2>1. DoneStays
    BY DEF DoneStays, TypeOK
  <2>2. \A d \in Conn : IsMatch(channel'[d]) => channel'[d] = channel[d]
    BY DEF TypeOK, IsMatch, MatchType, Dropped
  <2>3. \A d \in Conn : IsMatch(outcome'[d]) => outcome'[d] \in {outcome[d], channel[d]}
    BY DEF TypeOK, IsMatch, MatchType, Dropped
  <2> QED BY <2>1, <2>2, <2>3, MessagesKept
<1>7. DropsForReason'
  <2> DEFINE w == waiting[req[c].code]
  <2>1. \A d \in Conn : LostItsPlace(d) => LostItsPlace(d)'
    BY ReasonStays
  <2>2. \A d \in Conn : channel'[d] = Dropped => channel[d] = Dropped \/ d = w
    BY DEF TypeOK
  <2>3. ASSUME w \in Conn, req[w].device_id = req[c].device_id PROVE LostItsPlace(w)
    <3>0. outcome[c] # Open /\ outcome[c] \in Channel
      BY DEF Roles, TypeOK
    <3>1. CASE w = c
      <4>1. CASE outcome[c] = Dropped
        BY <3>1, <4>1 DEF DropsForReason
      <4>2. CASE outcome[c] # Dropped
        <5>1. outcome[c].peer \in Conn /\ IsMatch(outcome[c])
          BY <3>0, <4>2 DEF Channel, IsMatch
        <5> QED BY <3>1, <5>1 DEF MessagesTrue, MatchFrom, LostItsPlace
      <4> QED BY <4>1, <4>2
    <3>2. CASE w # c
      <4>1. req[w].code = req[c].code
        <5>1. req[c] \in Request
          BY DEF TypeOK
        <5>2. req[c].code \in Code
          BY <5>1 DEF Request
        <5> QED BY <2>3, <5>2 DEF NoLeakedWaiter
      <4> QED BY <2>3, <3>0, <3>2, <4>1 DEF LostItsPlace
    <3> QED BY <3>1, <3>2
  <2>4. \A d \in Conn : channel'[d] # channel[d] => d = w /\ req[w].device_id = req[c].device_id
    BY DEF TypeOK
  <2>5. \A d \in Conn : channel'[d] = Dropped \/ outcome'[d] = Dropped => LostItsPlace(d)'
    BY <2>1, <2>3, <2>4 DEF DropsForReason
  <2>6. \A d \in Conn : reply'[d] = Expired => pc'[d] = "done" /\ outcome'[d] = Dropped
    BY DEF DropsForReason, TypeOK
  <2> QED BY <2>5, <2>6 DEF DropsForReason, Dropped
<1> QED BY <1>1, <1>2, <1>3, <1>4, <1>5, <1>6, <1>7

\* The first peer is told.
LEMMA AnswerFirstKeeps ==
    ASSUME IInv, NEW c \in Conn, AnswerFirst(c)
    PROVE  IInv'
<1> USE ServerAssumption DEF IInv, AnswerFirst, Go, Says
<1>1. TypeOK'
  <2>1. outcome[c] \in Channel /\ outcome[c] # Open
    BY DEF Roles, TypeOK
  <2>2. (IF outcome[c] = Dropped THEN Expired ELSE outcome[c]) \in Reply /\ Closed \in Reply
    BY <2>1 DEF Channel, Reply
  <2>3. reply' \in [Conn -> Reply]
    BY <2>2 DEF TypeOK
  <2> QED BY <2>3 DEF TypeOK, Phases
<1>2. NoLeakedWaiter'
  BY DEF NoLeakedWaiter, TypeOK, Request
<1>3. Roles'
  BY DEF Roles, TypeOK, NoLeakedWaiter, Request, Open, Dropped
<1>4. TakenOnce'
  BY DEF TakenOnce, TypeOK, NoLeakedWaiter, Roles, Request
<1>5. RepliesFounded'
  BY DEF RepliesFounded, TypeOK, Roles, IsMatch, MatchKind, needs_relay,
     Match, MatchType, Silent, Rejected, Expired, Closed, Open, Dropped
<1>6. MessagesTrue'
  <2>1. DoneStays
    BY DEF DoneStays, TypeOK
  <2>2. \A d \in Conn : IsMatch(channel'[d]) => channel'[d] = channel[d]
    BY DEF TypeOK, IsMatch, MatchType, Dropped
  <2>3. \A d \in Conn : IsMatch(outcome'[d]) => outcome'[d] \in {outcome[d], channel[d]}
    BY DEF TypeOK, IsMatch, MatchType, Dropped
  <2> QED BY <2>1, <2>2, <2>3, MessagesKept
<1>7. DropsForReason'
  <2>1. \A d \in Conn : (channel[d] = Dropped \/ outcome[d] = Dropped) => LostItsPlace(d)'
    BY ReasonStays DEF DropsForReason
  <2>2. outcome[c] \in Channel /\ outcome[c] # Open
    BY DEF Roles, TypeOK
  <2>3. outcome[c] # Dropped => outcome[c].type # "Expired"
    BY <2>2 DEF Channel, MatchType
  <2>4. \A d \in Conn : reply'[d] = Expired =>
            reply[d] = Expired \/ (d = c /\ outcome[c] = Dropped)
    <3>1. \A d \in Conn : d # c => reply'[d] = reply[d]
      BY DEF TypeOK
    <3>2. reply'[c] \in {Closed, IF outcome[c] = Dropped THEN Expired ELSE outcome[c]}
      BY DEF TypeOK
    <3>3. Closed # Expired /\ (outcome[c] # Dropped => outcome[c] # Expired)
      BY <2>3 DEF Closed, Expired
    <3>4. reply'[c] = Expired => outcome[c] = Dropped
      BY <3>2, <3>3
    <3> HIDE DEF IInv, AnswerFirst, Go, Says
    <3> QED BY <3>1, <3>4
  <2>5. \A d \in Conn : reply'[d] = Expired => pc'[d] = "done" /\ outcome'[d] = Dropped
    BY <2>4 DEF DropsForReason, TypeOK
  <2> QED BY <2>1, <2>5 DEF DropsForReason, Dropped
<1> QED BY <1>1, <1>2, <1>3, <1>4, <1>5, <1>6, <1>7

LEMMA InitIInv == Init => IInv
  BY ServerAssumption DEF Init, IInv, TypeOK, Phases, Channel, Reply, NoLeakedWaiter,
     Roles, TakenOnce, RepliesFounded, MessagesTrue, MatchFrom, DropsForReason,
     IsMatch, MatchType, Silent, Expired, Open, Dropped

LEMMA NextKeeps == IInv /\ [Next]_vars => IInv'
<1> SUFFICES ASSUME IInv, [Next]_vars PROVE IInv'
  OBVIOUS
<1>1. CASE Next
  BY <1>1, AcceptKeeps, ReadRegisterKeeps, BadFirstFrameKeeps, LookupKeeps,
     ReserveSessionKeeps, TellSecondKeeps, NotifyKeeps, InsertKeeps,
     ExpireKeeps, WaitEndsKeeps, CleanupKeeps, AnswerFirstKeeps
     DEF Next, Handler
<1>2. CASE UNCHANGED vars
  BY <1>2 DEF vars, IInv, TypeOK, NoLeakedWaiter, Roles, TakenOnce, RepliesFounded,
     MessagesTrue, MatchFrom, DropsForReason, LostItsPlace, IsMatch, MatchKind, needs_relay
<1> QED BY <1>1, <1>2

\* The inductive invariant holds in every state of the server.
THEOREM Invariance == Spec => []IInv
  BY InitIInv, NextKeeps, PTL DEF Spec

\* The server's table holds waiters of living handlers only.
THEOREM NoWaiterLeaks == Spec => []NoLeakedWaiter
<1>1. IInv => NoLeakedWaiter
  BY DEF IInv
<1> QED BY <1>1, Invariance, PTL

\* handle_connection tells a first peer that its code expired only when its ttl
\* ran out, a second peer had taken its registration, or an earlier connection of
\* its own device cleaned it up: never because another peer registered the code.
THEOREM ExpiriesForReason == Spec => []ExpiredForReason
<1>1. IInv => ExpiredForReason
  BY DEF IInv, ExpiredForReason, DropsForReason
<1> QED BY <1>1, Invariance, PTL

\* A match in a reply is a taken waiter, on one side or the other.
LEMMA ReplyCases ==
    ASSUME IInv, NEW c \in Conn, IsMatch(reply[c])
    PROVE  /\ reply[c].peer \in Conn
           /\ \/ /\ taken[c] = reply[c].peer
                 /\ taken[reply[c].peer] = None
              \/ /\ taken[c] = None
                 /\ taken[reply[c].peer] = c
                 /\ reply[reply[c].peer] = Match(reply[c].type, c)
<1>1. reply[c].peer \in Conn
  BY DEF IInv, TypeOK, Reply, IsMatch, MatchType, Silent, Rejected, Expired, Closed
<1>2. CASE taken[c] # None
  BY <1>1, <1>2 DEF IInv, RepliesFounded, Roles
<1>3. CASE taken[c] = None
  <2>1. reply[c] = outcome[c]
    BY <1>3 DEF IInv, RepliesFounded
  <2>2. MatchFrom(outcome[c], c)
    BY DEF IInv, MessagesTrue
  <2> QED BY <1>1, <1>3, <2>1, <2>2 DEF MatchFrom
<1> QED BY <1>1, <1>2, <1>3

\* No two clients are ever told of the same peer, however their handlers'
\* lookups of a code interleave.
THEOREM PairsAreExclusive == Spec => []PairsExclusive
<1>1. IInv => PairsExclusive
  <2> SUFFICES ASSUME IInv, NEW c \in Conn, NEW d \in Conn,
                      IsMatch(reply[c]), IsMatch(reply[d]),
                      reply[c].peer = reply[d].peer
               PROVE  c = d
    BY DEF PairsExclusive
  <2> QED BY ReplyCases, ServerAssumption DEF IInv, TakenOnce
<1> QED BY <1>1, Invariance, PTL

\* The two sides of a pair are told of each other, in the same way.
THEOREM PairsAreMutual == Spec => []PairsMutual
<1>1. IInv => PairsMutual
  <2> SUFFICES ASSUME IInv, NEW c \in Conn, NEW d, d = reply[c].peer,
                      IsMatch(reply[c]), IsMatch(reply[d])
               PROVE  reply[d] = Match(reply[c].type, c)
    BY DEF PairsMutual
  <2>1. d \in Conn
    BY ReplyCases
  <2>2. CASE taken[c] = None
    BY <2>2, ReplyCases, ServerAssumption
  <2>3. CASE taken[c] # None
    <3>1. taken[c] = d /\ taken[d] = None
      BY <2>3, ReplyCases
    <3>2. taken[reply[d].peer] = d /\ reply[reply[d].peer] = Match(reply[d].type, d)
      BY <2>1, <3>1, ReplyCases, ServerAssumption
    <3>3. reply[d].peer = c
      BY <2>1, <3>1, <3>2, ReplyCases, ServerAssumption DEF IInv, TakenOnce
    <3>4. reply[c].type = reply[d].type
      BY <3>2, <3>3 DEF Match
    <3>5. reply[d] \in [type : MatchType, peer : Conn]
      BY <2>1 DEF IInv, TypeOK, Reply, IsMatch, MatchType, Silent, Rejected, Expired, Closed
    <3> QED BY <3>3, <3>4, <3>5 DEF Match
  <2> QED BY <2>2, <2>3
<1> QED BY <1>1, Invariance, PTL

\* The handlers, the table of waiters and the channels between them keep their
\* shape, for any number of connections, codes and permits.
THEOREM TypeCorrect == Spec => []TypeOK
<1>1. IInv => TypeOK
  BY DEF IInv
<1> QED BY <1>1, Invariance, PTL
=============================================================================
