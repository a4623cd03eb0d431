----------------------------- MODULE RelayProofs -----------------------------
(***************************************************************************)
(* The relay's tables are consistent, its datagrams stay in their session, *)
(* its sessions do not outlive their timeout and its rate cap holds, for   *)
(* any number of sessions, addresses and fingerprints.                     *)
(***************************************************************************)
EXTENDS Relay, TLAPS

\* What every step preserves: the two tables agree, the datagram in hand stays
\* in its session, and the accounts of the bucket and the sweep balance.
IInv ==
    /\ TypeOK
    /\ IndexConsistent
    /\ PartnersDistinct
    /\ DatagramStaysInSession
    /\ BucketAccounts
    /\ SweepInTime

\* A step that leaves tables, datagram in hand and clock alone.
LEMMA TablesKept ==
    ASSUME IndexConsistent, PartnersDistinct, DatagramStaysInSession, SweepInTime,
           UNCHANGED <<sessions, addr_to_token, sending, clock, next_sweep>>
    PROVE  /\ IndexConsistent'
           /\ PartnersDistinct'
           /\ DatagramStaysInSession'
           /\ SweepInTime'
  BY DEF IndexConsistent, PartnersDistinct, DatagramStaysInSession, SweepInTime,
         Live, HalfOpen, Since

\* Refilled is a number of bytes between 0 and the burst.
LEMMA RefilledType ==
    ASSUME TypeOK
    PROVE  Refilled \in Nat /\ Refilled <= HalfCap
<1> DEFINE gain == (clock - bucket_last) * HalfCap
<1>1. clock - bucket_last \in Nat
  BY DEF TypeOK
<1>2. gain \in Nat
  BY <1>1, RelayAssumption
<1> QED BY <1>2, RelayAssumption DEF TypeOK, Refilled, Least

\* An admitted datagram of len bytes takes len bytes out of the bucket.
LEMMA AdmittedTakes ==
    ASSUME TypeOK, NEW len \in Nat, Admitted(len), UNCHANGED clock
    PROVE  /\ bucket_tokens' \in Nat
           /\ bucket_last' \in Nat /\ bucket_last' <= clock'
           /\ HalfCap > 0 => Refilled' \in Nat /\ Refilled' + len = Refilled
<1>1. CASE HalfCap = 0
  BY <1>1 DEF Admitted, bucketVars, TypeOK
<1>2. CASE HalfCap # 0
  <2>1. Refilled \in Nat /\ Refilled <= HalfCap
    BY RefilledType
  <2>2. len <= Refilled /\ bucket_tokens' = Refilled - len /\ bucket_last' = clock
    BY <1>2 DEF Admitted
  <2>3. (clock' - bucket_last') * HalfCap = 0
    BY <2>2, RelayAssumption DEF TypeOK
  <2>4. Refilled' = Refilled - len
    BY <2>1, <2>2, <2>3, RelayAssumption DEF Refilled, Least
  <2>5. Refilled' \in Nat /\ Refilled' + len = Refilled
    BY <2>1, <2>2, <2>4
  <2> QED BY <2>1, <2>2, <2>4, <2>5 DEF TypeOK
<1> QED BY <1>1, <1>2

\* Forgetting a set of sessions keeps the tables consistent.
LEMMA ForgetKeeps ==
    ASSUME TypeOK, IndexConsistent, PartnersDistinct, DatagramStaysInSession,
           NEW ts, ts \subseteq Live, forget(ts), UNCHANGED sending
    PROVE  /\ sessions' \in [Token -> Session \cup {None}]
           /\ addr_to_token' \in [Addr -> Token \cup {None}]
           /\ IndexConsistent'
           /\ PartnersDistinct'
           /\ DatagramStaysInSession'
<1>1. sessions' = [t \in Token |-> IF t \in ts THEN None ELSE sessions[t]]
  BY DEF forget
<1>2. addr_to_token' = [a \in Addr |->
           IF \E t \in ts : a \in {sessions[t].peer_a, sessions[t].peer_b}
           THEN None ELSE addr_to_token[a]]
  BY DEF forget
<1>3. sessions' \in [Token -> Session \cup {None}]
  BY <1>1 DEF TypeOK
<1>4. addr_to_token' \in [Addr -> Token \cup {None}]
  BY <1>2 DEF TypeOK
<1>5. Live' = Live \ ts
  BY <1>1 DEF Live
<1>6. \A a \in Addr : addr_to_token'[a] = IF addr_to_token[a] \in ts THEN None ELSE addr_to_token[a]
  <2> TAKE a \in Addr
  <2>1. \A t \in ts : a \in {sessions[t].peer_a, sessions[t].peer_b} <=> addr_to_token[a] = t
    BY DEF IndexConsistent, Live
  <2> QED BY <2>1, <1>2
<1>7. IndexConsistent'
  <2> SUFFICES ASSUME NEW a \in Addr, NEW t \in Token
               PROVE  addr_to_token'[a] = t <=> /\ t \in Live'
                          /\ a \in {sessions'[t].peer_a, sessions'[t].peer_b}
    BY DEF IndexConsistent
  <2>1. CASE t \in ts
    BY <2>1, <1>5, <1>6, RelayAssumption
  <2>2. CASE t \notin ts
    <3>1. sessions'[t] = sessions[t]
      BY <2>2, <1>1
    <3>2. addr_to_token'[a] = t <=> addr_to_token[a] = t
      BY <2>2, <1>6, RelayAssumption
    <3> QED BY <3>1, <3>2, <1>5, <2>2 DEF IndexConsistent
  <2> QED BY <2>1, <2>2
<1>8. PartnersDistinct'
  BY <1>1, <1>5 DEF PartnersDistinct, HalfOpen, Live
<1>9. DatagramStaysInSession'
  <2> SUFFICES ASSUME sending # None
               PROVE  /\ sending.dest # sending.src
                      /\ addr_to_token'[sending.dest] = addr_to_token'[sending.src]
    BY DEF DatagramStaysInSession
  <2>1. sending.dest \in Addr /\ sending.src \in Addr
    BY DEF TypeOK, Datagram
  <2> QED BY <2>1, <1>6 DEF DatagramStaysInSession
<1> QED BY <1>3, <1>4, <1>7, <1>8, <1>9

LEMMA InitIInv == Init => IInv
<1> SUFFICES ASSUME Init PROVE IInv
  OBVIOUS
<1>1. TypeOK
  BY RelayAssumption DEF Init, TypeOK
<1>2. Live = {}
  BY DEF Init, Live
<1>3. IndexConsistent /\ PartnersDistinct /\ DatagramStaysInSession
  BY <1>2, RelayAssumption DEF Init, IndexConsistent, PartnersDistinct, DatagramStaysInSession
<1>4. BucketAccounts
  <2>1. Refilled <= HalfCap /\ Refilled \in Nat
    BY <1>1, RefilledType
  <2>2. (clock + 1) * HalfCap = HalfCap
    BY RelayAssumption DEF Init
  <2> QED BY <2>1, <2>2, RelayAssumption DEF Init, BucketAccounts
<1>5. SweepInTime
  BY <1>2, RelayAssumption DEF Init, SweepInTime
<1> QED BY <1>1, <1>3, <1>4, <1>5 DEF IInv

LEMMA ReserveKeeps ==
    ASSUME IInv, NEW t \in Token, NEW fpA \in Fingerprint, NEW fpB \in Fingerprint,
           reserve(t, fpA, fpB)
    PROVE  IInv'
<1> DEFINE s == [peer_a |-> None, peer_b |-> None,
                 created_at |-> clock, last_active |-> clock,
                 fp_a |-> fpA, fp_b |-> fpB]
<1> USE DEF IInv
<1>1. /\ sessions' = [sessions EXCEPT ![t] = s]
      /\ t \notin Live
      /\ UNCHANGED <<addr_to_token, bytes_forwarded, bucket_tokens, bucket_last,
                     sending, clock, next_sweep>>
  BY DEF reserve, bucketVars
<1>2. s \in Session
  BY DEF Session, TypeOK
<1>3. TypeOK'
  BY <1>1, <1>2 DEF TypeOK
<1>4. /\ Live' = Live \cup {t}
      /\ sessions'[t] = s
      /\ \A u \in Token \ {t} : sessions'[u] = sessions[u]
  BY <1>1, <1>2, RelayAssumption DEF Live, TypeOK
<1>5. IndexConsistent'
  BY <1>1, <1>4, RelayAssumption DEF IndexConsistent, Live
<1>6. PartnersDistinct'
  BY <1>4 DEF PartnersDistinct, HalfOpen, Live
<1>7. DatagramStaysInSession' /\ BucketAccounts'
  BY <1>1 DEF DatagramStaysInSession, BucketAccounts, Refilled, Least
<1>8. SweepInTime'
  <2> SUFFICES ASSUME NEW u \in Live'
               PROVE  /\ Since(sessions'[u]) <= clock
                      /\ next_sweep <= Since(sessions'[u]) + IdleTimeout + SweepInterval
    BY <1>1 DEF SweepInTime, Since, HalfOpen
  <2>1. CASE u = t
    BY <2>1, <1>4, RelayAssumption DEF Since, HalfOpen, SweepInTime, TypeOK
  <2>2. CASE u # t
    BY <2>2, <1>4 DEF SweepInTime, Live
  <2> QED BY <2>1, <2>2
<1> QED BY <1>3, <1>5, <1>6, <1>7, <1>8

LEMMA SweepKeeps ==
    ASSUME IInv, Sweep
    PROVE  IInv'
<1> USE DEF IInv
<1> DEFINE ts == {t \in Live : Stale(sessions[t])}
<1>1. /\ clock = next_sweep /\ next_sweep' = clock + SweepInterval
      /\ forget(ts)
      /\ UNCHANGED <<bytes_forwarded, bucket_tokens, bucket_last, sending, clock>>
  BY DEF Sweep, evict_idle, bucketVars
<1>2. /\ sessions' \in [Token -> Session \cup {None}]
      /\ addr_to_token' \in [Addr -> Token \cup {None}]
      /\ IndexConsistent' /\ PartnersDistinct' /\ DatagramStaysInSession'
  <2>1. ts \subseteq Live
    OBVIOUS
  <2> HIDE DEF ts
  <2> QED BY <2>1, <1>1, ForgetKeeps
<1>3. TypeOK'
  BY <1>1, <1>2, RelayAssumption DEF TypeOK
<1>4. BucketAccounts'
  BY <1>1 DEF BucketAccounts, Refilled, Least
<1>5. SweepInTime'
  <2> SUFFICES ASSUME NEW u \in Live'
               PROVE  /\ Since(sessions'[u]) <= clock
                      /\ next_sweep' <= Since(sessions'[u]) + IdleTimeout + SweepInterval
    BY <1>1, RelayAssumption DEF SweepInTime, Since, HalfOpen, TypeOK
  <2>1. u \in Live /\ u \notin ts /\ sessions'[u] = sessions[u]
    BY <1>1 DEF forget, Live
  <2>2. ~ Stale(sessions[u]) /\ sessions[u] \in Session
    BY <2>1 DEF Live, TypeOK
  <2>3. Since(sessions[u]) \in Nat /\ Since(sessions[u]) <= clock
    BY <2>1, <2>2 DEF Since, SweepInTime, Session
  <2> QED BY <1>1, <2>1, <2>2, <2>3, RelayAssumption DEF Stale, TypeOK
<1> QED BY <1>2, <1>3, <1>4, <1>5

LEMMA TickKeeps ==
    ASSUME IInv, Tick
    PROVE  IInv'
<1> USE DEF IInv
<1>1. /\ clock < next_sweep /\ clock' = clock + 1
      /\ UNCHANGED <<sessions, addr_to_token, bytes_forwarded, bucket_tokens,
                     bucket_last, sending, next_sweep>>
  BY DEF Tick, tableVars, bucketVars
<1>2. TypeOK'
  BY <1>1 DEF TypeOK
<1>3. IndexConsistent' /\ PartnersDistinct' /\ DatagramStaysInSession'
  BY <1>1 DEF IndexConsistent, PartnersDistinct, DatagramStaysInSession, Live, HalfOpen
<1>4. BucketAccounts'
  <2> DEFINE gain == (clock - bucket_last) * HalfCap
  <2>1. gain \in Nat
    <3>1. clock - bucket_last \in Nat
      BY DEF TypeOK
    <3> QED BY <3>1, RelayAssumption
  <2>2. (clock' - bucket_last') * HalfCap = gain + HalfCap
    BY <1>1, RelayAssumption DEF TypeOK
  <2>3. (clock' + 1) * HalfCap = (clock + 1) * HalfCap + HalfCap
    BY <1>1, RelayAssumption DEF TypeOK
  <2>4. (clock + 1) * HalfCap \in Nat
    BY RelayAssumption DEF TypeOK
  <2>5. Refilled = Least(bucket_tokens + gain, HalfCap)
    BY DEF Refilled
  <2>6. Refilled' = Least(bucket_tokens + (gain + HalfCap), HalfCap)
    BY <1>1, <2>2 DEF Refilled, Least
  <2> HIDE DEF gain
  <2>7. Refilled' <= Refilled + HalfCap
    BY <2>1, <2>5, <2>6, RelayAssumption DEF Least, TypeOK
  <2>8. Refilled \in Nat /\ Refilled' \in Nat
    BY <2>1, <2>5, <2>6, RelayAssumption DEF Least, TypeOK
  <2> DEFINE allowed == (clock + 1) * HalfCap
  <2>9. HalfCap > 0 => bytes_forwarded + Refilled <= allowed
    BY DEF BucketAccounts
  <2>10. (clock' + 1) * HalfCap = allowed + HalfCap
    BY <2>3
  <2>11. allowed \in Nat
    BY <2>4
  <2> HIDE DEF allowed
  <2>12. bytes_forwarded \in Nat /\ HalfCap \in Nat
    BY RelayAssumption DEF TypeOK
  <2>13. HalfCap > 0 => bytes_forwarded + Refilled' <= allowed + HalfCap
    <3>1. \A b, r, r1, a, h \in Nat : r1 <= r + h /\ b + r <= a => b + r1 <= a + h
      OBVIOUS
    <3> QED BY <3>1, <2>7, <2>8, <2>9, <2>11, <2>12
  <2> QED BY <1>1, <2>10, <2>13 DEF BucketAccounts
<1>5. SweepInTime'
  <2> SUFFICES ASSUME NEW u \in Live
               PROVE  Since(sessions[u]) <= clock + 1
    BY <1>1, RelayAssumption DEF SweepInTime, Live, Since, HalfOpen, TypeOK
  <2>1. Since(sessions[u]) \in Nat
    BY DEF Live, TypeOK, Session, Since
  <2> QED BY <2>1 DEF SweepInTime, TypeOK
<1> QED BY <1>2, <1>3, <1>4, <1>5

\* Handling a datagram that touches no table: dropped by the rate cap, or
\* ignored.
LEMMA DropKeeps ==
    ASSUME IInv, NEW len \in Length,
           RateCapped(len) \/ \E src \in Addr : Ignored(src, len)
    PROVE  IInv'
<1> USE DEF IInv
<1>1. UNCHANGED <<sessions, addr_to_token, bytes_forwarded, sending, clock, next_sweep>>
  BY DEF RateCapped, Ignored, tableVars
<1>2. len \in Nat
  BY RelayAssumption
<1>3. /\ bucket_tokens' \in Nat
      /\ bucket_last' \in Nat /\ bucket_last' <= clock'
      /\ HalfCap > 0 => Refilled' \in Nat /\ Refilled' <= Refilled
  <2>1. Refilled \in Nat /\ Refilled <= HalfCap
    BY RefilledType
  <2>2. CASE RateCapped(len)
    <3>1. bucket_tokens' = Refilled /\ bucket_last' = clock
      BY <2>2 DEF RateCapped
    <3>2. (clock' - bucket_last') * HalfCap = 0
      BY <3>1, <1>1, RelayAssumption DEF TypeOK
    <3>3. Refilled' = Refilled
      BY <2>1, <3>1, <3>2, RelayAssumption DEF Refilled, Least
    <3> QED BY <2>1, <3>1, <3>3, <1>1 DEF TypeOK
  <2>3. CASE \E src \in Addr : Ignored(src, len)
    <3>1. Admitted(len)
      BY <2>3 DEF Ignored
    <3>2. bucket_tokens' \in Nat /\ bucket_last' \in Nat /\ bucket_last' <= clock'
      BY <1>1, <1>2, <3>1, AdmittedTakes
    <3>3. HalfCap > 0 => Refilled' \in Nat /\ Refilled' + len = Refilled
      BY <1>1, <1>2, <3>1, AdmittedTakes
    <3> QED BY <1>2, <2>1, <3>2, <3>3
  <2> QED BY <2>2, <2>3
<1>4. TypeOK'
  BY <1>1, <1>3 DEF TypeOK
<1>5. IndexConsistent' /\ PartnersDistinct' /\ DatagramStaysInSession' /\ SweepInTime'
  BY <1>1, TablesKept
<1>6. BucketAccounts'
  <2> DEFINE allowed == (clock + 1) * HalfCap
  <2>1. allowed \in Nat /\ allowed = (clock' + 1) * HalfCap
    BY <1>1, RelayAssumption DEF TypeOK
  <2>2. HalfCap > 0 => bytes_forwarded + Refilled <= allowed
    BY DEF BucketAccounts
  <2>3. Refilled \in Nat
    BY RefilledType
  <2> HIDE DEF allowed
  <2>4. HalfCap > 0 => bytes_forwarded' + Refilled' <= allowed
    BY <1>1, <1>3, <2>1, <2>2, <2>3 DEF TypeOK
  <2> QED BY <2>1, <2>4 DEF BucketAccounts
<1> QED BY <1>4, <1>5, <1>6

\* Two ways to keep the accounts: nothing forwarded, or exactly what was
\* admitted.
LEMMA AdmittedAccounts ==
    ASSUME TypeOK, BucketAccounts, NEW len \in Nat, Admitted(len), UNCHANGED clock,
           bytes_forwarded' \in {bytes_forwarded, bytes_forwarded + len}
    PROVE  BucketAccounts'
<1> DEFINE allowed == (clock + 1) * HalfCap
<1>1. allowed \in Nat /\ allowed = (clock' + 1) * HalfCap
  BY RelayAssumption DEF TypeOK
<1>2. HalfCap > 0 => bytes_forwarded + Refilled <= allowed
  BY DEF BucketAccounts
<1>3. Refilled \in Nat /\ bytes_forwarded \in Nat
  BY RefilledType DEF TypeOK
<1>4. HalfCap > 0 => Refilled' \in Nat /\ Refilled' + len = Refilled
  BY AdmittedTakes
<1> HIDE DEF allowed
<1>5. HalfCap > 0 => bytes_forwarded' + Refilled' <= allowed
  <2>1. \A b, r, r1, a, l \in Nat : b + r <= a /\ r1 + l = r
            => b + r1 <= a /\ b + l + r1 <= a
    OBVIOUS
  <2> QED BY <2>1, <1>1, <1>2, <1>3, <1>4
<1> QED BY <1>1, <1>5 DEF BucketAccounts

LEMMA ForwardKeeps ==
    ASSUME IInv, NEW len \in Length, NEW src \in Addr, Forward(src, len)
    PROVE  IInv'
<1> USE DEF IInv
<1> DEFINE t == addr_to_token[src]
           s == sessions[t]
<1>1. /\ t \in Live
      /\ t \in Token
      /\ Admitted(len)
      /\ sessions' = [sessions EXCEPT ![t].last_active = clock]
      /\ UNCHANGED <<addr_to_token, clock, next_sweep>>
  BY DEF Forward, Live
<1>2. len \in Nat
  BY RelayAssumption
<1>3. s \in Session
  BY <1>1 DEF Live, TypeOK
<1>4. /\ sessions'[t] = [s EXCEPT !.last_active = clock]
      /\ \A u \in Token \ {t} : sessions'[u] = sessions[u]
  BY <1>1 DEF TypeOK
<1>5. /\ sessions'[t] \in Session
      /\ sessions'[t].peer_a = s.peer_a /\ sessions'[t].peer_b = s.peer_b
      /\ sessions'[t].created_at = s.created_at
      /\ sessions'[t].last_active = clock
  BY <1>3, <1>4 DEF Session, TypeOK
<1>6. Live' = Live
  BY <1>1, <1>4, <1>5, RelayAssumption DEF Live
<1>7. \/ /\ ~ HalfOpen(s)
         /\ src \in {s.peer_a, s.peer_b}
         /\ bytes_forwarded' = bytes_forwarded + len
         /\ sending' = [src |-> src,
                        dest |-> IF src = s.peer_a THEN s.peer_b ELSE s.peer_a]
      \/ UNCHANGED <<bytes_forwarded, sending>>
  BY DEF Forward
<1>8. bytes_forwarded' \in {bytes_forwarded, bytes_forwarded + len}
  BY <1>7
<1>9. sending' \in Datagram \cup {None}
  BY <1>3, <1>7 DEF TypeOK, Datagram, Session, HalfOpen
<1>10. TypeOK'
  <2>1. bucket_tokens' \in Nat /\ bucket_last' \in Nat /\ bucket_last' <= clock'
    BY <1>1, <1>2, AdmittedTakes
  <2>2. sessions' \in [Token -> Session \cup {None}]
    BY <1>1, <1>4, <1>5 DEF TypeOK
  <2>3. bytes_forwarded' \in Nat
    BY <1>2, <1>8 DEF TypeOK
  <2> QED BY <1>1, <1>9, <2>1, <2>2, <2>3 DEF TypeOK
<1>11. IndexConsistent'
  BY <1>1, <1>4, <1>5, <1>6 DEF IndexConsistent
<1>12. PartnersDistinct'
  BY <1>1, <1>4, <1>5, <1>6 DEF PartnersDistinct, HalfOpen, Live
<1>13. DatagramStaysInSession'
  <2>1. CASE UNCHANGED sending
    BY <2>1, <1>1 DEF DatagramStaysInSession
  <2>2. CASE ~ UNCHANGED sending
    <3>1. /\ ~ HalfOpen(s)
          /\ sending'.src = src
          /\ sending'.dest = IF src = s.peer_a THEN s.peer_b ELSE s.peer_a
          /\ src \in {s.peer_a, s.peer_b}
      BY <2>2, <1>7
    <3>2. sending'.dest \in Addr
      BY <1>3, <3>1 DEF HalfOpen, Session
    <3>3. addr_to_token[sending'.dest] = t
      BY <1>1, <3>1, <3>2 DEF IndexConsistent
    <3>4. sending'.dest # src
      BY <1>1, <3>1 DEF PartnersDistinct
    <3> QED BY <1>1, <3>1, <3>3, <3>4 DEF DatagramStaysInSession
  <2> QED BY <2>1, <2>2
<1>14. BucketAccounts'
  BY <1>1, <1>2, <1>8, AdmittedAccounts
<1>15. SweepInTime'
  <2> SUFFICES ASSUME NEW u \in Live
               PROVE  /\ Since(sessions'[u]) <= clock
                      /\ next_sweep <= Since(sessions'[u]) + IdleTimeout + SweepInterval
    BY <1>1, <1>6 DEF SweepInTime, Since, HalfOpen
  <2>1. CASE u = t
    BY <2>1, <1>1, <1>5, RelayAssumption DEF SweepInTime, Since, HalfOpen, TypeOK
  <2>2. CASE u # t
    BY <2>2, <1>4 DEF SweepInTime, Live
  <2> QED BY <2>1, <2>2
<1> QED BY <1>10, <1>11, <1>12, <1>13, <1>14, <1>15

LEMMA JoinKeeps ==
    ASSUME IInv, NEW len \in Length, NEW src \in Addr, NEW t \in Token,
           NEW fp \in Fingerprint, Join(src, t, fp, len)
    PROVE  IInv'
<1> USE DEF IInv
<1> DEFINE s == sessions[t]
<1>1. /\ sending = None
      /\ addr_to_token[src] = None
      /\ Admitted(len)
      /\ t \in Live
      /\ addr_to_token' = [addr_to_token EXCEPT ![src] = t]
      /\ UNCHANGED <<bytes_forwarded, sending, clock, next_sweep>>
  BY DEF Join, AtRecv
<1>2. len \in Nat
  BY RelayAssumption
<1>3. s \in Session
  BY <1>1 DEF Live, TypeOK
<1>4. /\ \/ s.peer_a = None /\ sessions' = [sessions EXCEPT ![t].peer_a = src, ![t].last_active = clock]
         \/ s.peer_b = None /\ sessions' = [sessions EXCEPT ![t].peer_b = src, ![t].last_active = clock]
  BY DEF Join, SlotOf
<1>5. /\ \A u \in Token \ {t} : sessions'[u] = sessions[u]
      /\ sessions'[t] \in Session
      /\ sessions' \in [Token -> Session \cup {None}]
      /\ sessions'[t].created_at = s.created_at
      /\ sessions'[t].last_active = clock
      /\ \/ s.peer_a = None /\ sessions'[t].peer_a = src /\ sessions'[t].peer_b = s.peer_b
         \/ s.peer_b = None /\ sessions'[t].peer_b = src /\ sessions'[t].peer_a = s.peer_a
  BY <1>3, <1>4 DEF Session, TypeOK
<1>6. Live' = Live
  BY <1>1, <1>5, RelayAssumption DEF Live
<1>7. src \notin {s.peer_a, s.peer_b}
  BY <1>1, RelayAssumption DEF IndexConsistent
<1>8. TypeOK'
  <2>1. bucket_tokens' \in Nat /\ bucket_last' \in Nat /\ bucket_last' <= clock'
    BY <1>1, <1>2, AdmittedTakes
  <2> QED BY <1>1, <1>5, <2>1 DEF TypeOK
<1>9. IndexConsistent'
  <2> SUFFICES ASSUME NEW a \in Addr, NEW u \in Token
               PROVE  addr_to_token'[a] = u <=> /\ u \in Live
                          /\ a \in {sessions'[u].peer_a, sessions'[u].peer_b}
    BY <1>6 DEF IndexConsistent
  <2>1. addr_to_token'[a] = IF a = src THEN t ELSE addr_to_token[a]
    BY <1>1 DEF TypeOK
  <2>2. CASE u = t
    <3>1. a \in {sessions'[t].peer_a, sessions'[t].peer_b} <=>
              a = src \/ a \in {s.peer_a, s.peer_b}
      BY <1>5, RelayAssumption
    <3> QED BY <2>1, <2>2, <3>1, <1>1 DEF IndexConsistent
  <2>3. CASE u # t
    <3>1. a = src => ~ (u \in Live /\ a \in {sessions[u].peer_a, sessions[u].peer_b})
      BY <1>1, RelayAssumption DEF IndexConsistent
    <3> QED BY <2>1, <2>3, <3>1, <1>5 DEF IndexConsistent
  <2> QED BY <2>2, <2>3
<1>10. PartnersDistinct'
  <2> SUFFICES ASSUME NEW u \in Live, ~ HalfOpen(sessions'[u])
               PROVE  sessions'[u].peer_a # sessions'[u].peer_b
    BY <1>6 DEF PartnersDistinct, HalfOpen
  <2>1. CASE u = t
    BY <2>1, <1>5, <1>7
  <2>2. CASE u # t
    BY <2>2, <1>5 DEF PartnersDistinct, Live
  <2> QED BY <2>1, <2>2
<1>11. DatagramStaysInSession'
  BY <1>1 DEF DatagramStaysInSession
<1>12. BucketAccounts'
  BY <1>1, <1>2, AdmittedAccounts
<1>13. SweepInTime'
  <2> SUFFICES ASSUME NEW u \in Live
               PROVE  /\ Since(sessions'[u]) <= clock
                      /\ next_sweep <= Since(sessions'[u]) + IdleTimeout + SweepInterval
    BY <1>1, <1>6 DEF SweepInTime, Since, HalfOpen
  <2>1. CASE u # t
    BY <2>1, <1>5 DEF SweepInTime, Live
  <2>2. CASE u = t /\ HalfOpen(sessions'[t])
    <3>1. Since(sessions'[t]) = Since(s)
      BY <2>2, <1>4, <1>5 DEF Since, HalfOpen
    <3> QED BY <2>2, <3>1, <1>1 DEF SweepInTime
  <2>3. CASE u = t /\ ~ HalfOpen(sessions'[t])
    BY <2>3, <1>5, RelayAssumption DEF SweepInTime, Since, TypeOK
  <2> QED BY <2>1, <2>2, <2>3
<1> QED BY <1>8, <1>9, <1>10, <1>11, <1>12, <1>13

LEMMA NextKeeps == IInv /\ [Next]_vars => IInv'
<1> SUFFICES ASSUME IInv, [Next]_vars PROVE IInv'
  OBVIOUS
<1>1. CASE \E t \in Token, fpA, fpB \in Fingerprint : reserve(t, fpA, fpB)
  BY <1>1, ReserveKeeps
<1>2. CASE \E len \in Length : RateCapped(len) \/ \E src \in Addr : Ignored(src, len)
  BY <1>2, DropKeeps
<1>3. CASE \E len \in Length, src \in Addr : Forward(src, len)
  BY <1>3, ForwardKeeps
<1>4. CASE \E len \in Length, src \in Addr, t \in Token, fp \in Fingerprint :
              Join(src, t, fp, len)
  BY <1>4, JoinKeeps
<1>5. CASE SendTo
  <2>1. /\ sending' = None
        /\ UNCHANGED <<sessions, addr_to_token, bytes_forwarded, bucket_tokens,
                       bucket_last, clock, next_sweep>>
    BY <1>5 DEF SendTo, tableVars, bucketVars
  <2> QED BY <2>1 DEF IInv, TypeOK, IndexConsistent, PartnersDistinct, Live, HalfOpen,
             DatagramStaysInSession, BucketAccounts, Refilled, Least, SweepInTime, Since
<1>6. CASE Sweep
  BY <1>6, SweepKeeps
<1>7. CASE Tick
  BY <1>7, TickKeeps
<1>8. CASE UNCHANGED vars
  <2>1. UNCHANGED <<sessions, addr_to_token, sending, clock, next_sweep,
                    bytes_forwarded, bucket_tokens, bucket_last>>
    BY <1>8 DEF vars
  <2> QED BY <2>1, TablesKept DEF IInv, TypeOK, BucketAccounts, Refilled, Least
<1> QED BY <1>1, <1>2, <1>3, <1>4, <1>5, <1>6, <1>7, <1>8 DEF Next, ForwardLoop

\* The inductive invariant holds in every state of the relay.
THEOREM Invariance == Spec => []IInv
  BY InitIInv, NextKeeps, PTL DEF Spec

\* The relay's reverse index and its session table agree in every state: no
\* stale address survives an eviction, no bound address is missing.
THEOREM IndexCorrect == Spec => []IndexConsistent
<1>1. IInv => IndexConsistent
  BY DEF IInv
<1> QED BY <1>1, Invariance, PTL

\* A datagram never leaves its session, whatever the sweep and the rendezvous
\* server do between the choice of its destination and send_to.
THEOREM DatagramsStayInSession == Spec => []DatagramStaysInSession
<1>1. IInv => DatagramStaysInSession
  BY DEF IInv
<1> QED BY <1>1, Invariance, PTL

\* A slot is never taken over while its session lives.
THEOREM SlotsStable == Spec => SlotsAreStable
<1>1. IInv /\ [Next]_vars =>
        [\A t \in Token : t \in Live /\ sessions'[t] # None =>
          /\ sessions[t].peer_a # None => sessions'[t].peer_a = sessions[t].peer_a
          /\ sessions[t].peer_b # None => sessions'[t].peer_b = sessions[t].peer_b]_vars
  <2> SUFFICES ASSUME IInv, Next, NEW t \in Token, t \in Live, sessions'[t] # None
               PROVE  /\ sessions[t].peer_a # None => sessions'[t].peer_a = sessions[t].peer_a
                      /\ sessions[t].peer_b # None => sessions'[t].peer_b = sessions[t].peer_b
    OBVIOUS
  <2>1. sessions \in [Token -> Session \cup {None}] /\ sessions[t] \in Session
    BY DEF IInv, TypeOK, Live
  <2>2. CASE sessions'[t] = sessions[t]
    BY <2>2
  <2>3. CASE \E u \in Token, fpA, fpB \in Fingerprint : reserve(u, fpA, fpB)
    BY <2>1, <2>3 DEF reserve
  <2>4. CASE \E len \in Length, src \in Addr : Forward(src, len)
    <3> PICK len \in Length, src \in Addr : Forward(src, len)
      BY <2>4
    <3>1. sessions' = [sessions EXCEPT ![addr_to_token[src]].last_active = clock]
      BY DEF Forward
    <3> QED BY <2>1, <3>1 DEF Session
  <2>5. CASE \E len \in Length, src \in Addr, u \in Token, fp \in Fingerprint :
                Join(src, u, fp, len)
    <3> PICK len \in Length, src \in Addr, u \in Token, fp \in Fingerprint :
                Join(src, u, fp, len)
      BY <2>5
    <3>1. \/ sessions[u].peer_a = None /\ sessions' = [sessions EXCEPT ![u].peer_a = src, ![u].last_active = clock]
          \/ sessions[u].peer_b = None /\ sessions' = [sessions EXCEPT ![u].peer_b = src, ![u].last_active = clock]
      BY DEF Join, SlotOf
    <3> QED BY <2>1, <3>1 DEF Session
  <2>6. CASE Sweep
    BY <2>1, <2>6 DEF Sweep, evict_idle, forget
  <2> QED BY <2>1, <2>2, <2>3, <2>4, <2>5, <2>6
          DEF Next, ForwardLoop, RateCapped, Ignored, SendTo, Tick, tableVars
<1> QED BY <1>1, Invariance, PTL DEF Spec, SlotsAreStable

\* No session outlives its idle timeout by more than one sweep interval.
THEOREM IdleSessionsEvicted == Spec => []IdleBounded
<1>1. IInv => IdleBounded
  <2> SUFFICES ASSUME IInv, NEW t \in Live
               PROVE  clock - Since(sessions[t]) <= IdleTimeout + SweepInterval
    BY DEF IdleBounded
  <2>1. Since(sessions[t]) \in Nat
    BY DEF IInv, Live, TypeOK, Session, Since
  <2> QED BY <2>1, RelayAssumption DEF IInv, SweepInTime, TypeOK
<1> QED BY <1>1, Invariance, PTL

\* The rate cap holds over the whole life of the relay.
THEOREM RateCapHolds == Spec => []RateBounded
<1>1. IInv => RateBounded
  <2> SUFFICES ASSUME IInv, HalfCap > 0
               PROVE  bytes_forwarded <= (clock + 1) * HalfCap
    BY DEF RateBounded
  <2> DEFINE allowed == (clock + 1) * HalfCap
  <2>1. allowed \in Nat /\ bytes_forwarded \in Nat
    BY RelayAssumption DEF IInv, TypeOK
  <2>2. Refilled \in Nat
    BY RefilledType DEF IInv
  <2>3. bytes_forwarded + Refilled <= allowed
    BY DEF IInv, BucketAccounts
  <2> HIDE DEF allowed
  <2>4. bytes_forwarded <= allowed
    BY <2>1, <2>2, <2>3
  <2> QED BY <2>4 DEF allowed
<1> QED BY <1>1, Invariance, PTL

\* reserve, the joins of handle_datagram and evict_idle keep sessions, index,
\* bucket and clocks well-formed.
THEOREM TypeCorrect == Spec => []TypeOK
<1>1. IInv => TypeOK
  BY DEF IInv
<1> QED BY <1>1, Invariance, PTL

\* handle_datagram never puts one address into both slots of a session: what a
\* peer sends is never forwarded back to it.
THEOREM PartnersAreDistinct == Spec => []PartnersDistinct
<1>1. IInv => PartnersDistinct
  BY DEF IInv
<1> QED BY <1>1, Invariance, PTL
=============================================================================
