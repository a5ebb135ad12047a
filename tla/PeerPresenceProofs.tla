-------------------------- MODULE PeerPresenceProofs ------------------------
(***************************************************************************)
(* Proofs about PeerPresence, for any other pages, delays and numbers of   *)
(* events: who is there is kept, who is gone is dropped in time, and the   *)
(* ping runs for somebody, but is sent only in silence.                    *)
(***************************************************************************)
EXTENDS PeerPresence, TLAPS

-----------------------------------------------------------------------------
(* Counted time, and messages.                                             *)

LEMMA CapIsNat ==
    /\ Cap \in Nat /\ Reach \in Nat /\ Patience \in Nat
    /\ Reach < Cap /\ MaxDelay + Patience < Cap
<1>1. (MaxEvents + 1) * AnnounceEvery \in Nat
  BY PresenceAssumption
<1>2. Reach \in Nat /\ Patience \in Nat /\ MaxDelay \in Nat
  BY <1>1, PresenceAssumption DEF Reach, Patience
<1> QED
  BY <1>2 DEF Cap

LEMMA OlderIsLater ==
    ASSUME NEW n \in Nat
    PROVE  /\ Older(n) \in Nat /\ Older(n) <= n + 1
           /\ n < Cap => Older(n) = n + 1
           /\ n <= Cap => Older(n) <= Cap
BY CapIsNat DEF Older

LEMMA MessagesTyped ==
    ASSUME NEW r \in Remotes
    PROVE  /\ ToMe(r) \in Messages /\ FromMe(r) \in Messages
           /\ ToMe(r).from = r /\ ToMe(r).toMe /\ ToMe(r).ttl = MaxDelay
BY PresenceAssumption DEF ToMe, FromMe, Messages

(* A message on its way, a tick later. *)
Aged(m) == [m EXCEPT !.ttl = @ - 1]

LEMMA AgedMessage ==
    ASSUME NEW m \in Messages, m.ttl > 0
    PROVE  /\ Aged(m) \in Messages /\ m.ttl \in 0..MaxDelay
           /\ Aged(m).from = m.from /\ Aged(m).toMe = m.toMe /\ Aged(m).ttl = m.ttl - 1
<1>1. m.ttl \in 0..MaxDelay /\ m.ttl - 1 \in 0..MaxDelay
  BY PresenceAssumption DEF Messages
<1> QED
  BY <1>1 DEF Aged, Messages

-----------------------------------------------------------------------------
(* Types. *)

LEMMA TypeInit == Init => TypeOK
<1> SUFFICES ASSUME Init PROVE TypeOK
  OBVIOUS
<1>1. remoteIn \in [Remotes -> {Off} \cup 0..AnnounceEvery]
  BY PresenceAssumption DEF Init
<1> QED
  BY <1>1, CapIsNat, PresenceAssumption DEF Init, TypeOK

LEMMA TypeStep == TypeOK /\ [Next]_vars => TypeOK'
<1> SUFFICES ASSUME TypeOK, [Next]_vars PROVE TypeOK'
  OBVIOUS
<1>1. CASE AnnouncePresence
  <2>1. wire' \subseteq Messages
    BY <1>1, MessagesTyped DEF AnnouncePresence, TypeOK
  <2> QED
    BY <1>1, <2>1, PresenceAssumption DEF AnnouncePresence, TypeOK, counters, clocks
<1>2. ASSUME NEW r \in Remotes, RemoteAnnounces(r) PROVE TypeOK'
  <2>1. wire' \subseteq Messages
    BY <1>2, MessagesTyped DEF RemoteAnnounces, TypeOK
  <2>2. remoteIn' \in [Remotes -> {Off} \cup 0..AnnounceEvery]
    BY <1>2, PresenceAssumption DEF RemoteAnnounces, TypeOK
  <2> QED
    BY <1>2, <2>1, <2>2 DEF RemoteAnnounces, TypeOK, counters, clocks
<1>3. ASSUME NEW m \in wire, RemoteHears(m) PROVE TypeOK'
  <2>1. wire' \subseteq Messages
    BY <1>3, MessagesTyped DEF RemoteHears, Reply, TypeOK
  <2> QED
    BY <1>3, <2>1 DEF RemoteHears, TypeOK, counters, clocks
<1>4. ASSUME NEW m \in wire, HearPresence(m) PROVE TypeOK'
  <2>1. m.from \in Remotes
    BY DEF TypeOK, Messages
  <2>2. age' \in [Remotes -> 0..Cap]
    <3>1. 0 \in 0..Cap
      BY CapIsNat
    <3> QED
      BY <1>4, <3>1 DEF HearPresence, TypeOK
  <2> QED
    BY <1>4, <2>1, <2>2, PresenceAssumption
       DEF HearPresence, Entered, StartPing, TypeOK, counters
<1>5. ASSUME NEW m \in wire, Lose(m) PROVE TypeOK'
  <2>1. lost' \in 0..MaxEvents
    BY <1>5, PresenceAssumption DEF Lose, TypeOK
  <2> QED
    BY <1>5, <2>1 DEF Lose, TypeOK, clocks
<1>6. Event => events' \in 0..MaxEvents
  BY PresenceAssumption DEF Event, TypeOK
<1>7. ASSUME NEW r \in Remotes, HandleIncomingPacket(r) PROVE TypeOK'
  BY <1>6, <1>7, CapIsNat DEF HandleIncomingPacket, TypeOK
<1>8. CASE Ping
  BY <1>8, PresenceAssumption DEF Ping, TypeOK, counters, clocks
<1>9. CASE Prune
  <2>1. age' \in [Remotes -> 0..Cap]
    BY <1>9, CapIsNat DEF Prune, TypeOK
  <2> QED
    BY <1>9, <2>1, PresenceAssumption DEF Prune, PingAfter, TypeOK, counters, clocks
<1>10. ASSUME NEW r \in Remotes, Come(r) PROVE TypeOK'
  <2>1. since' \in [Remotes -> 0..Cap]
    BY <1>10, CapIsNat DEF Come, TypeOK
  <2>2. remoteIn' \in [Remotes -> {Off} \cup 0..AnnounceEvery]
    BY <1>10, PresenceAssumption DEF Come, TypeOK
  <2> QED
    BY <1>6, <1>10, <2>1, <2>2 DEF Come, TypeOK
<1>11. ASSUME NEW r \in Remotes, Go(r) PROVE TypeOK'
  <2>1. since' \in [Remotes -> 0..Cap]
    BY <1>11, CapIsNat DEF Go, TypeOK
  <2>2. remoteIn' \in [Remotes -> {Off} \cup 0..AnnounceEvery]
    BY <1>11 DEF Go, TypeOK
  <2> QED
    BY <1>6, <1>11, <2>1, <2>2 DEF Go, TypeOK
<1>12. CASE Tick
  <2>1. wire' \subseteq Messages
    BY <1>12, AgedMessage DEF Tick, TypeOK, Aged
  <2>2. ASSUME NEW n \in 0..Cap PROVE Older(n) \in 0..Cap
    BY OlderIsLater, CapIsNat
  <2>3. age' \in [Remotes -> 0..Cap] /\ since' \in [Remotes -> 0..Cap] /\ quiet' \in 0..Cap
    BY <1>12, <2>2, CapIsNat DEF Tick, TypeOK
  <2>4. remoteIn' \in [Remotes -> {Off} \cup 0..AnnounceEvery]
    <3>1. ASSUME NEW r \in Remotes
          PROVE  remoteIn'[r] \in {Off} \cup 0..AnnounceEvery
      <4>1. remoteIn[r] \in {Off} \cup 0..AnnounceEvery
        BY DEF TypeOK
      <4>2. remoteIn'[r] = IF r \in here THEN Down(remoteIn[r]) ELSE remoteIn[r]
        BY <1>12 DEF Tick
      <4>3. r \in here => remoteIn[r] # 0
        BY <1>12 DEF Tick
      <4> QED
        BY <4>1, <4>2, <4>3, PresenceAssumption DEF Down, Off
    <3> QED
      BY <1>12, <3>1 DEF Tick
  <2>5. /\ announceIn' \in 0..AnnounceEvery /\ pruneIn' \in 0..PruneEvery
        /\ pingIn' \in {Off} \cup 0..PingEvery
    BY <1>12, PresenceAssumption DEF Tick, TypeOK, Down, Off
  <2> QED
    BY <1>12, <2>1, <2>3, <2>4, <2>5 DEF Tick, TypeOK, counters
<1>13. CASE UNCHANGED vars
  BY <1>13 DEF vars, TypeOK, counters, clocks
<1> QED
  BY <1>1, <1>2, <1>3, <1>4, <1>5, <1>7, <1>8, <1>9, <1>10, <1>11, <1>12, <1>13
     DEF Next

(* Counters and timers stay within their bounds. *)
THEOREM TypeCorrect == Safety => []TypeOK
BY TypeInit, TypeStep, PTL DEF Safety

-----------------------------------------------------------------------------
(* The ping runs for somebody.                                             *)

LEMMA PingHasPeerKept == PingHasPeer /\ [Next]_vars => PingHasPeer'
<1> SUFFICES ASSUME PingHasPeer, [Next]_vars PROVE PingHasPeer'
  OBVIOUS
<1>1. CASE UNCHANGED <<peers, pingIn>>
  BY <1>1 DEF PingHasPeer
<1>2. ASSUME NEW m \in wire, HearPresence(m)
      PROVE  PingHasPeer'
  BY <1>2 DEF HearPresence, Entered, PingHasPeer
<1>3. CASE Prune
  BY <1>3 DEF Prune, PingAfter, PingHasPeer, Off
<1>4. CASE Ping
  BY <1>4 DEF Ping, PingHasPeer, Off
<1>5. CASE Tick
  <2>1. pingIn = Off => pingIn' = Off
    BY <1>5 DEF Tick, Down
  <2> QED
    BY <1>5, <2>1 DEF Tick, PingHasPeer
<1>6. CASE AnnouncePresence
  BY <1>1, <1>6 DEF AnnouncePresence
<1>7. ASSUME NEW r \in Remotes,
             RemoteAnnounces(r) \/ HandleIncomingPacket(r) \/ Come(r) \/ Go(r)
      PROVE  PingHasPeer'
  BY <1>1, <1>7 DEF RemoteAnnounces, HandleIncomingPacket, Come, Go
<1>8. ASSUME NEW m \in wire, RemoteHears(m) \/ Lose(m)
      PROVE  PingHasPeer'
  BY <1>1, <1>8 DEF RemoteHears, Lose
<1>9. CASE UNCHANGED vars
  BY <1>1, <1>9 DEF vars
<1> QED
  BY <1>2, <1>3, <1>4, <1>5, <1>6, <1>7, <1>8, <1>9 DEF Next

(* Whoever drops the last peer stops the ping.                             *)
THEOREM PingIsForSomebody == Safety => []PingHasPeer
<1>1. Init => PingHasPeer
  BY DEF Init, PingHasPeer
<1> QED
  BY <1>1, PingHasPeerKept, PTL DEF Safety

-----------------------------------------------------------------------------
(* The ping is sent only in silence.  No ping is due before a page whose   *)
(* intervals fire has restarted the interval again: a message of it is on  *)
(* its way and comes in time, or its next one will, or it has just come    *)
(* and its first message is not late yet.                                  *)

FirstOnItsWay(r) ==
    \/ remoteIn[r] = 0 /\ since[r] = 0
    \/ \E m \in wire : m.from = r /\ m.toMe /\ m.ttl + since[r] <= MaxDelay

HeardInTime(r) ==
    \/ \E m \in wire : m.from = r /\ m.toMe /\ m.ttl < pingIn
    \/ remoteIn[r] + MaxDelay < pingIn
    \/ FirstOnItsWay(r)

Awake == here \ Throttled

(* What the timers can be, as far as the ping depends on it.               *)
Timers ==
    /\ here \subseteq Remotes
    /\ pingIn \in {Off} \cup Nat
    /\ since \in [Remotes -> Nat]
    /\ remoteIn \in [Remotes -> Int]
    /\ \A r \in Awake : remoteIn[r] \in 0..AnnounceEvery
    /\ wire \subseteq Messages
    /\ lost \in Nat

Restarted ==
    lost = 0 /\ pingIn # Off => \A r \in Awake : HeardInTime(r)

ShortWay == AnnounceEvery + MaxDelay < PingEvery

LEMMA TimersInit == Init => Timers
<1> SUFFICES ASSUME Init PROVE Timers
  OBVIOUS
<1>1. ASSUME NEW r \in Awake PROVE remoteIn[r] \in 0..AnnounceEvery
  BY <1>1, PresenceAssumption DEF Init, Awake, Off
<1>2. since \in [Remotes -> Nat]
  BY CapIsNat DEF Init
<1>3. remoteIn \in [Remotes -> Int]
  BY PresenceAssumption DEF Init, Off
<1> QED
  BY <1>1, <1>2, <1>3 DEF Init, Timers

LEMMA TimersKept == Timers /\ [Next]_vars => Timers'
<1> SUFFICES ASSUME Timers, [Next]_vars PROVE Timers'
  OBVIOUS
<1> USE DEF Awake
<1>1. CASE AnnouncePresence
  <2>1. wire' \subseteq Messages
    BY <1>1, MessagesTyped DEF AnnouncePresence, Timers
  <2> QED
    BY <1>1, <2>1 DEF AnnouncePresence, Timers, counters, clocks
<1>2. ASSUME NEW r \in Remotes, RemoteAnnounces(r) PROVE Timers'
  <2>1. wire' \subseteq Messages
    BY <1>2, MessagesTyped DEF RemoteAnnounces, Timers
  <2>2. remoteIn' \in [Remotes -> Int]
    BY <1>2, PresenceAssumption DEF RemoteAnnounces, Timers, Off
  <2>3. \A q \in here \ Throttled : remoteIn'[q] \in 0..AnnounceEvery
    BY <1>2, PresenceAssumption DEF RemoteAnnounces, Timers
  <2> QED
    BY <1>2, <2>1, <2>2, <2>3 DEF RemoteAnnounces, Timers, counters, clocks
<1>3. ASSUME NEW m \in wire, RemoteHears(m) PROVE Timers'
  <2>1. wire' \subseteq Messages
    BY <1>3, MessagesTyped DEF RemoteHears, Reply, Timers
  <2> QED
    BY <1>3, <2>1 DEF RemoteHears, Timers, counters, clocks
<1>4. ASSUME NEW m \in wire, HearPresence(m) PROVE Timers'
  BY <1>4, PresenceAssumption DEF HearPresence, StartPing, Timers, counters
<1>5. ASSUME NEW m \in wire, Lose(m) PROVE Timers'
  BY <1>5 DEF Lose, Timers, clocks
<1>6. ASSUME NEW r \in Remotes, HandleIncomingPacket(r) PROVE Timers'
  BY <1>6 DEF HandleIncomingPacket, Timers
<1>7. CASE Ping
  BY <1>7, PresenceAssumption DEF Ping, Timers, counters, clocks
<1>8. CASE Prune
  BY <1>8 DEF Prune, PingAfter, Timers, counters, clocks
<1>9. ASSUME NEW r \in Remotes, Come(r) \/ Go(r) PROVE Timers'
  BY <1>9, PresenceAssumption DEF Come, Go, Timers, Off
<1>10. CASE Tick
  <2>1. wire' \subseteq Messages
    <3>1. ASSUME NEW m \in wire PROVE [m EXCEPT !.ttl = @ - 1] \in Messages
      <4>1. m \in Messages /\ m.ttl > 0
        BY <1>10 DEF Tick, Timers
      <4>2. m.ttl - 1 \in 0..MaxDelay
        BY <4>1, PresenceAssumption DEF Messages
      <4> QED
        BY <4>1, <4>2 DEF Messages
    <3> QED
      BY <1>10, <3>1 DEF Tick
  <2>2. since' \in [Remotes -> Nat]
    BY <1>10, OlderIsLater DEF Tick, Timers
  <2>3. remoteIn' \in [Remotes -> Int]
    BY <1>10 DEF Tick, Timers, Down, Off
  <2>4. \A q \in here \ Throttled : remoteIn'[q] \in 0..AnnounceEvery
    BY <1>10, PresenceAssumption DEF Tick, Timers, Down, Off
  <2>5. pingIn' \in {Off} \cup Nat
    BY <1>10 DEF Tick, Timers, Down, Off
  <2> QED
    BY <1>10, <2>1, <2>2, <2>3, <2>4, <2>5 DEF Tick, Timers, counters
<1>11. CASE UNCHANGED vars
  BY <1>11 DEF vars, Timers, counters, clocks
<1> QED
  BY <1>1, <1>2, <1>3, <1>4, <1>5, <1>6, <1>7, <1>8, <1>9, <1>10, <1>11
     DEF Next

(* Where the interval has just been restarted, all is well.                *)
LEMMA RestartedIsTimely ==
    ASSUME ShortWay, Timers, NEW r \in Awake, pingIn' = PingEvery,
           remoteIn' = remoteIn
    PROVE  HeardInTime(r)'
<1>1. remoteIn[r] \in 0..AnnounceEvery
  BY DEF Timers
<1>2. remoteIn'[r] + MaxDelay < pingIn'
  BY <1>1, PresenceAssumption DEF ShortWay
<1> QED
  BY <1>2 DEF HeardInTime

(* What hurries a message along or leaves it, and leaves the intervals and *)
(* the time since r came, changes nothing for r.                           *)
LEMMA TimelyKept ==
    ASSUME NEW r, HeardInTime(r), pingIn' = pingIn,
           remoteIn'[r] = remoteIn[r], since'[r] = since[r],
           \A m \in wire : m.toMe => m \in wire'
    PROVE  HeardInTime(r)'
BY DEF HeardInTime, FirstOnItsWay

LEMMA AnnouncedIsTimely ==
    ASSUME Timers, NEW r \in Awake, HeardInTime(r), RemoteAnnounces(r)
    PROVE  HeardInTime(r)'
<1>1. ToMe(r) \in wire' /\ wire \subseteq wire' /\ pingIn' = pingIn /\ since' = since
  BY DEF RemoteAnnounces, clocks
<1>2. remoteIn[r] = 0 /\ r \in Remotes
  BY DEF RemoteAnnounces, Timers, Awake
<1>3. ToMe(r).from = r /\ ToMe(r).toMe /\ ToMe(r).ttl = MaxDelay
  BY <1>2, MessagesTyped
<1>4. CASE \E m \in wire : m.from = r /\ m.toMe /\ m.ttl < pingIn
  BY <1>1, <1>4 DEF HeardInTime
<1>5. CASE remoteIn[r] + MaxDelay < pingIn
  <2>1. ToMe(r).ttl < pingIn
    BY <1>2, <1>3, <1>5, PresenceAssumption DEF Timers
  <2> QED
    BY <1>1, <1>3, <2>1 DEF HeardInTime
<1>6. CASE since[r] = 0
  <2>1. ToMe(r).ttl + since'[r] <= MaxDelay
    BY <1>1, <1>3, <1>6, PresenceAssumption
  <2> QED
    BY <1>1, <1>3, <2>1 DEF HeardInTime, FirstOnItsWay
<1>7. CASE \E m \in wire : m.from = r /\ m.toMe /\ m.ttl + since[r] <= MaxDelay
  BY <1>1, <1>7 DEF HeardInTime, FirstOnItsWay
<1> QED
  BY <1>4, <1>5, <1>6, <1>7 DEF HeardInTime, FirstOnItsWay

LEMMA TickIsTimely ==
    ASSUME Timers, NEW r \in Awake, HeardInTime(r), Tick, pingIn # Off
    PROVE  HeardInTime(r)'
<1>1. /\ r \in Remotes /\ r \in here
      /\ pingIn \in Nat /\ pingIn' = pingIn - 1
      /\ remoteIn[r] \in Nat \ {0} /\ remoteIn'[r] = remoteIn[r] - 1
      /\ since[r] \in Nat /\ since'[r] = Older(since[r])
  BY DEF Timers, Tick, Awake, Down, Off
<1>2. since'[r] \in Nat /\ since'[r] <= since[r] + 1
  BY <1>1, OlderIsLater
<1>3. ASSUME NEW m \in wire
      PROVE  LET n == [m EXCEPT !.ttl = @ - 1]
             IN  n \in wire' /\ n.from = m.from /\ n.toMe = m.toMe
                 /\ m.ttl \in Nat /\ n.ttl = m.ttl - 1
  <2>1. m \in Messages
    BY DEF Timers
  <2>2. m.ttl \in Nat
    BY <2>1, PresenceAssumption DEF Messages
  <2> QED
    BY <2>1, <2>2 DEF Tick, Messages
<1>4. ASSUME NEW m \in wire, m.from = r, m.toMe, m.ttl < pingIn
      PROVE  HeardInTime(r)'
  <2> DEFINE n == [m EXCEPT !.ttl = @ - 1]
  <2>1. n \in wire' /\ n.from = r /\ n.toMe /\ n.ttl = m.ttl - 1 /\ m.ttl \in Nat
    BY <1>3, <1>4
  <2>2. n.ttl < pingIn'
    BY <1>1, <1>4, <2>1
  <2> HIDE DEF n
  <2> QED
    BY <2>1, <2>2 DEF HeardInTime
<1>5. CASE remoteIn[r] + MaxDelay < pingIn
  <2>1. remoteIn'[r] + MaxDelay < pingIn'
    BY <1>1, <1>5, PresenceAssumption
  <2> QED
    BY <2>1 DEF HeardInTime
<1>6. ASSUME NEW m \in wire, m.from = r, m.toMe, m.ttl + since[r] <= MaxDelay
      PROVE  HeardInTime(r)'
  <2> DEFINE n == [m EXCEPT !.ttl = @ - 1]
  <2>1. n \in wire' /\ n.from = r /\ n.toMe /\ n.ttl = m.ttl - 1 /\ m.ttl \in Nat
    BY <1>3, <1>6
  <2>2. n.ttl + since'[r] <= MaxDelay
    BY <1>1, <1>2, <1>6, <2>1, PresenceAssumption
  <2> HIDE DEF n
  <2> QED
    BY <2>1, <2>2 DEF HeardInTime, FirstOnItsWay
<1>7. remoteIn[r] # 0
  BY <1>1
<1> QED
  BY <1>4, <1>5, <1>6, <1>7 DEF HeardInTime, FirstOnItsWay

LEMMA RestartedKept ==
    ASSUME ShortWay, Timers, Restarted, [Next]_vars
    PROVE  Restarted'
<1> SUFFICES ASSUME lost' = 0, pingIn' # Off, NEW r \in Awake'
             PROVE  HeardInTime(r)'
  BY DEF Restarted
<1>1. CASE AnnouncePresence
  <2>1. HeardInTime(r)
    BY <1>1 DEF AnnouncePresence, Restarted, Awake, counters
  <2> QED
    BY <1>1, <2>1, TimelyKept DEF AnnouncePresence, clocks
<1>2. ASSUME NEW q \in Remotes, RemoteAnnounces(q) PROVE HeardInTime(r)'
  <2>1. HeardInTime(r) /\ r \in Awake
    BY <1>2 DEF RemoteAnnounces, Restarted, Awake, counters
  <2>2. CASE q = r
    BY <1>2, <2>1, <2>2, AnnouncedIsTimely
  <2>3. CASE q # r
    <3>1. remoteIn'[r] = remoteIn[r]
      BY <1>2, <2>3 DEF RemoteAnnounces, Timers, Awake
    <3> QED
      BY <1>2, <2>1, <3>1, TimelyKept DEF RemoteAnnounces, clocks
  <2> QED
    BY <2>2, <2>3
<1>3. ASSUME NEW m \in wire, RemoteHears(m) PROVE HeardInTime(r)'
  <2>1. HeardInTime(r)
    BY <1>3 DEF RemoteHears, Restarted, Awake, counters
  <2>2. \A n \in wire : n.toMe => n \in wire'
    BY <1>3 DEF RemoteHears, Reply
  <2> QED
    BY <1>3, <2>1, <2>2, TimelyKept DEF RemoteHears, clocks
<1>4. ASSUME NEW m \in wire, HearPresence(m) PROVE HeardInTime(r)'
  BY <1>4, RestartedIsTimely DEF HearPresence, StartPing, Awake
<1>5. ASSUME NEW m \in wire, Lose(m) PROVE HeardInTime(r)'
  BY <1>5 DEF Lose, Timers
<1>6. ASSUME NEW q \in Remotes, HandleIncomingPacket(q) PROVE HeardInTime(r)'
  <2>1. HeardInTime(r)
    BY <1>6 DEF HandleIncomingPacket, Restarted, Awake
  <2> QED
    BY <1>6, <2>1, TimelyKept DEF HandleIncomingPacket
<1>7. CASE Ping
  BY <1>7, RestartedIsTimely DEF Ping, Awake
<1>8. CASE Prune
  <2>1. pingIn' = pingIn
    BY <1>8 DEF Prune, PingAfter
  <2>2. HeardInTime(r)
    BY <1>8, <2>1 DEF Prune, Restarted, Awake, counters
  <2> QED
    BY <1>8, <2>1, <2>2, TimelyKept DEF Prune, clocks
<1>9. ASSUME NEW q \in Remotes, Come(q) PROVE HeardInTime(r)'
  <2>1. CASE q = r
    <3>1. remoteIn'[r] = 0 /\ since'[r] = 0
      BY <1>9, <2>1 DEF Come, Timers
    <3> QED
      BY <3>1 DEF HeardInTime, FirstOnItsWay
  <2>2. CASE q # r
    <3>1. HeardInTime(r) /\ remoteIn'[r] = remoteIn[r] /\ since'[r] = since[r]
      BY <1>9, <2>2 DEF Come, Timers, Awake, Restarted
    <3> QED
      BY <1>9, <3>1, TimelyKept DEF Come
  <2> QED
    BY <2>1, <2>2
<1>10. ASSUME NEW q \in Remotes, Go(q) PROVE HeardInTime(r)'
  <2>1. HeardInTime(r) /\ remoteIn'[r] = remoteIn[r] /\ since'[r] = since[r]
    BY <1>10 DEF Go, Timers, Awake, Restarted
  <2> QED
    BY <1>10, <2>1, TimelyKept DEF Go
<1>11. CASE Tick
  <2>1. pingIn # Off /\ r \in Awake
    BY <1>11 DEF Tick, Down, Awake
  <2>2. HeardInTime(r)
    BY <1>11, <2>1 DEF Tick, Restarted, counters
  <2> QED
    BY <1>11, <2>1, <2>2, TickIsTimely
<1>12. CASE UNCHANGED vars
  <2>1. HeardInTime(r)
    BY <1>12 DEF vars, Restarted, Awake, counters
  <2> QED
    BY <1>12, <2>1, TimelyKept DEF vars, clocks
<1> QED
  BY <1>1, <1>2, <1>3, <1>4, <1>5, <1>6, <1>7, <1>8, <1>9, <1>10, <1>11,
     <1>12 DEF Next

LEMMA PingFindsSilence ==
    ASSUME ShortWay, Timers, Restarted, Ping
    PROVE  \/ lost > 0
           \/ \A r \in Awake : since[r] < PingEvery
<1> SUFFICES ASSUME lost = 0, NEW r \in Awake PROVE since[r] < PingEvery
  BY DEF Timers
<1>1. pingIn = 0 /\ HeardInTime(r) /\ r \in Remotes
  BY DEF Ping, Restarted, Off, Timers, Awake
<1>2. \A m \in wire : m.ttl \in Nat
  BY PresenceAssumption DEF Timers, Messages
<1>3. remoteIn[r] \in Nat /\ since[r] \in Nat
  BY <1>1, PresenceAssumption DEF Timers
<1>4. FirstOnItsWay(r)
  BY <1>1, <1>2, <1>3, PresenceAssumption DEF HeardInTime
<1>5. since[r] <= MaxDelay
  BY <1>2, <1>3, <1>4, PresenceAssumption DEF FirstOnItsWay
<1> QED
  BY <1>3, <1>5, PresenceAssumption DEF ShortWay

(* Why PeersArePinged fails: each presence message restarts the interval of*)
(* the ping, so that a ping that is sent follows a silence.                *)
PingOnlyInSilence ==
    [][Ping => \/ lost > 0
               \/ \A r \in here \ Throttled : since[r] < PingEvery]_vars

(* No ping is sent as long as a page whose intervals fire is there and its *)
(* messages arrive, if an announcement and its way take less than the      *)
(* interval of the ping: 1.5 s and the delay of the broker against 3 s.    *)
(* The defect is no accident of the times of the instance.                 *)
THEOREM PingsOnlyInSilence == ShortWay /\ Safety => PingOnlyInSilence
<1> SUFFICES ASSUME ShortWay PROVE Safety => PingOnlyInSilence
  OBVIOUS
<1> DEFINE Quietly == Ping => \/ lost > 0
                             \/ \A r \in here \ Throttled : since[r] < PingEvery
<1>1. Init => Timers /\ Restarted
  BY TimersInit DEF Init, Restarted
<1>2. Timers /\ Restarted /\ [Next]_vars => Timers' /\ Restarted'
  BY TimersKept, RestartedKept
<1>3. Timers /\ Restarted => Quietly
  BY PingFindsSilence DEF Awake
<1>4. Timers /\ Restarted /\ [Next]_vars => [Quietly]_vars
  BY <1>3
<1> QED
  BY <1>1, <1>2, <1>4, PTL DEF Safety, PingOnlyInSilence

-----------------------------------------------------------------------------
(* A page that is gone is dropped in time.  The pruner finds a silent peer *)
(* with its next run; what a page said before it went arrives in MaxDelay; *)
(* so a peer that is gone was heard MaxDelay after it went at the latest,  *)
(* unless a packet of another page counted for it since.                   *)

PrunedInTime == \A r \in peers : age[r] + pruneIn <= Patience
LastWords == \A m \in wire : m.toMe /\ m.from \notin here =>
                 m.ttl + since[m.from] <= MaxDelay
HeardHere == \A r \in peers \ here : since[r] <= age[r] + MaxDelay \/ quiet <= age[r]
GoneInv == PrunedInTime /\ LastWords /\ HeardHere

(* Timers and clocks of a state that is typed. *)
LEMMA Numbers ==
    ASSUME TypeOK
    PROVE  /\ \A r \in Remotes : age[r] \in 0..Cap /\ since[r] \in 0..Cap
           /\ quiet \in 0..Cap /\ pruneIn \in 0..PruneEvery /\ announceIn \in 0..AnnounceEvery
           /\ lost \in 0..MaxEvents
           /\ \A m \in wire : m.from \in Remotes /\ m.ttl \in 0..MaxDelay /\ m \in Messages
           /\ peers \subseteq Remotes /\ here \subseteq Remotes
BY DEF TypeOK, Messages

LEMMA PrunedInTimeKept ==
    ASSUME TypeOK, PrunedInTime, [Next]_vars
    PROVE  PrunedInTime'
<1>1. CASE UNCHANGED <<peers, age, pruneIn>>
  BY <1>1 DEF PrunedInTime
<1>2. ASSUME NEW m \in wire, HearPresence(m) PROVE PrunedInTime'
  <2>1. pruneIn <= Patience
    BY Numbers, PresenceAssumption DEF Patience
  <2>2. ASSUME NEW r \in peers' PROVE age'[r] + pruneIn <= Patience
    <3>1. r \in Remotes /\ (r \in peers \/ r = m.from)
      BY <1>2, <2>2, Numbers DEF HearPresence, Entered
    <3>2. CASE r = m.from
      BY <1>2, <2>1, <3>1, <3>2, Numbers DEF HearPresence, TypeOK
    <3>3. CASE r # m.from
      BY <1>2, <3>1, <3>3 DEF HearPresence, TypeOK, PrunedInTime
    <3> QED
      BY <3>2, <3>3
  <2> QED
    BY <1>2, <2>2 DEF HearPresence, PrunedInTime
<1>3. ASSUME NEW r \in Remotes, HandleIncomingPacket(r) PROVE PrunedInTime'
  <2>1. pruneIn <= Patience
    BY Numbers, PresenceAssumption DEF Patience
  <2> QED
    BY <1>3, <2>1, Numbers DEF HandleIncomingPacket, PrunedInTime
<1>4. CASE Prune
  <2>1. ASSUME NEW r \in peers' PROVE age'[r] + pruneIn' <= Patience
    <3>1. r \in Remotes /\ ~Silent(r) /\ age'[r] = age[r] /\ pruneIn' = PruneEvery
      BY <1>4, <2>1, Numbers DEF Prune
    <3> QED
      BY <3>1, Numbers, CapIsNat, PresenceAssumption DEF Silent, Patience
  <2> QED
    BY <2>1 DEF PrunedInTime
<1>5. CASE Tick
  <2>1. ASSUME NEW r \in peers PROVE age'[r] + pruneIn' <= Patience
    <3>1. r \in Remotes /\ age'[r] = Older(age[r]) /\ pruneIn' = pruneIn - 1
      BY <1>5, <2>1, Numbers DEF Tick
    <3>2. age[r] \in Nat /\ Older(age[r]) \in Nat /\ Older(age[r]) <= age[r] + 1
      BY <3>1, Numbers, OlderIsLater, CapIsNat
    <3> QED
      BY <2>1, <3>1, <3>2, Numbers, CapIsNat, PresenceAssumption DEF PrunedInTime
  <2> QED
    BY <1>5, <2>1 DEF Tick, PrunedInTime
<1>6. CASE AnnouncePresence \/ Ping
  BY <1>1, <1>6 DEF AnnouncePresence, Ping
<1>7. ASSUME NEW r \in Remotes, RemoteAnnounces(r) \/ Come(r) \/ Go(r)
      PROVE  PrunedInTime'
  BY <1>1, <1>7 DEF RemoteAnnounces, Come, Go
<1>8. ASSUME NEW m \in wire, RemoteHears(m) \/ Lose(m)
      PROVE  PrunedInTime'
  BY <1>1, <1>8 DEF RemoteHears, Lose
<1>9. CASE UNCHANGED vars
  BY <1>1, <1>9 DEF vars
<1> QED
  BY <1>2, <1>3, <1>4, <1>5, <1>6, <1>7, <1>8, <1>9 DEF Next

LEMMA LastWordsKept ==
    ASSUME TypeOK, LastWords, [Next]_vars
    PROVE  LastWords'
<1>1. ASSUME UNCHANGED <<here, since>>,
             \A m \in wire' : m.toMe => m \in wire \/ m.from \in here
      PROVE  LastWords'
  BY <1>1 DEF LastWords
<1>2. CASE AnnouncePresence
  BY <1>1, <1>2 DEF AnnouncePresence, FromMe, clocks
<1>3. ASSUME NEW r \in Remotes, RemoteAnnounces(r) PROVE LastWords'
  BY <1>1, <1>3, MessagesTyped DEF RemoteAnnounces, clocks
<1>4. ASSUME NEW m \in wire, RemoteHears(m) PROVE LastWords'
  <2>1. m.from \in Remotes
    BY Numbers
  <2> QED
    BY <1>1, <1>4, <2>1, MessagesTyped DEF RemoteHears, Reply, clocks
<1>5. ASSUME NEW m \in wire, HearPresence(m) \/ Lose(m) PROVE LastWords'
  BY <1>1, <1>5 DEF HearPresence, Lose, clocks
<1>6. ASSUME NEW r \in Remotes, HandleIncomingPacket(r) PROVE LastWords'
  BY <1>1, <1>6 DEF HandleIncomingPacket
<1>7. CASE Ping \/ Prune
  BY <1>1, <1>7 DEF Ping, Prune, clocks
<1>8. ASSUME NEW r \in Remotes, Come(r) PROVE LastWords'
  <2>1. \A q \in Remotes : q \notin here' => q \notin here /\ since'[q] = since[q]
    BY <1>8 DEF Come, TypeOK
  <2> QED
    BY <1>8, <2>1, Numbers DEF Come, LastWords
<1>9. ASSUME NEW r \in Remotes, Go(r) PROVE LastWords'
  <2>1. ASSUME NEW m \in wire, m.toMe, m.from \notin here'
        PROVE  m.ttl + since'[m.from] <= MaxDelay
    <3>1. CASE m.from = r
      BY <1>9, <3>1, Numbers, PresenceAssumption DEF Go, TypeOK
    <3>2. CASE m.from # r
      BY <1>9, <2>1, <3>2, Numbers DEF Go, TypeOK, LastWords
    <3> QED
      BY <3>1, <3>2
  <2> QED
    BY <1>9, <2>1 DEF Go, LastWords
<1>10. CASE Tick
  <2>1. ASSUME NEW m \in wire, m.toMe, m.from \notin here
        PROVE  (m.ttl - 1) + since'[m.from] <= MaxDelay
    <3>1. m.from \in Remotes /\ since[m.from] \in Nat /\ m.ttl \in Nat
      BY Numbers, CapIsNat, PresenceAssumption
    <3>2. since'[m.from] = Older(since[m.from])
      BY <1>10, <3>1 DEF Tick
    <3>3. Older(since[m.from]) \in Nat /\ Older(since[m.from]) <= since[m.from] + 1
      BY <3>1, OlderIsLater
    <3>4. m.ttl + since[m.from] <= MaxDelay
      BY <2>1 DEF LastWords
    <3> QED
      BY <3>1, <3>2, <3>3, <3>4, PresenceAssumption
  <2>2. ASSUME NEW n \in wire', n.toMe, n.from \notin here'
        PROVE  n.ttl + since'[n.from] <= MaxDelay
    <3>1. PICK m \in wire : n = Aged(m) /\ m.ttl > 0
      BY <1>10 DEF Tick, Aged
    <3>2. n.from = m.from /\ n.toMe = m.toMe /\ n.ttl = m.ttl - 1
      BY <3>1, Numbers, AgedMessage
    <3> QED
      BY <1>10, <2>1, <2>2, <3>2 DEF Tick
  <2> QED
    BY <2>2 DEF LastWords
<1>11. CASE UNCHANGED vars
  BY <1>1, <1>11 DEF vars, clocks
<1> QED
  BY <1>2, <1>3, <1>4, <1>5, <1>6, <1>7, <1>8, <1>9, <1>10, <1>11 DEF Next

LEMMA HeardHereKept ==
    ASSUME TypeOK, PrunedInTime, LastWords, HeardHere, [Next]_vars
    PROVE  HeardHere'
<1>1. CASE UNCHANGED <<peers, age, here, since, quiet>>
  BY <1>1 DEF HeardHere
<1>2. ASSUME NEW m \in wire, HearPresence(m) PROVE HeardHere'
  <2>1. ASSUME NEW r \in peers' \ here
        PROVE  since[r] <= age'[r] + MaxDelay \/ quiet <= age'[r]
    <3>1. CASE r = m.from
      <4>1. m.ttl + since[r] <= MaxDelay /\ age'[r] = 0 /\ r \in Remotes
        BY <1>2, <2>1, <3>1, Numbers DEF LastWords, HearPresence, TypeOK
      <4> QED
        BY <4>1, <3>1, Numbers, CapIsNat, PresenceAssumption
    <3>2. CASE r # m.from
      BY <1>2, <2>1, <3>2 DEF HearPresence, Entered, TypeOK, HeardHere
    <3> QED
      BY <3>1, <3>2
  <2> QED
    BY <1>2, <2>1 DEF HearPresence, HeardHere
<1>3. ASSUME NEW r \in Remotes, HandleIncomingPacket(r) PROVE HeardHere'
  BY <1>3, Numbers DEF HandleIncomingPacket, HeardHere
<1>4. CASE Prune
  <2>1. ASSUME NEW r \in peers' PROVE r \in peers /\ age'[r] = age[r]
    BY <1>4, <2>1, Numbers DEF Prune
  <2> QED
    BY <1>4, <2>1 DEF Prune, HeardHere, clocks
<1>5. CASE Tick
  <2>1. ASSUME NEW r \in peers \ here
        PROVE  since'[r] <= age'[r] + MaxDelay \/ quiet' <= age'[r]
    <3>1. /\ r \in Remotes /\ age'[r] = Older(age[r])
          /\ since'[r] = Older(since[r]) /\ quiet' = Older(quiet)
      BY <1>5, Numbers DEF Tick
    <3>2. age[r] \in Nat /\ since[r] \in Nat /\ quiet \in Nat /\ pruneIn \in Nat
      BY <3>1, Numbers, CapIsNat, PresenceAssumption
    <3>3. age[r] < Cap
      <4>1. age[r] + pruneIn <= Patience
        BY DEF PrunedInTime
      <4> QED
        BY <3>2, <4>1, CapIsNat, PresenceAssumption
    <3>4. /\ Older(age[r]) = age[r] + 1
          /\ Older(since[r]) \in Nat /\ Older(since[r]) <= since[r] + 1
          /\ Older(quiet) \in Nat /\ Older(quiet) <= quiet + 1
      BY <3>2, <3>3, OlderIsLater
    <3>5. since[r] <= age[r] + MaxDelay \/ quiet <= age[r]
      BY DEF HeardHere
    <3> QED
      BY <3>1, <3>2, <3>4, <3>5, PresenceAssumption
  <2> QED
    BY <1>5, <2>1 DEF Tick, HeardHere
<1>6. ASSUME NEW r \in Remotes, Come(r) PROVE HeardHere'
  <2>1. \A q \in Remotes : q \notin here' => q \notin here /\ since'[q] = since[q]
    BY <1>6 DEF Come, TypeOK
  <2> QED
    BY <1>6, <2>1, Numbers DEF Come, HeardHere
<1>7. ASSUME NEW r \in Remotes, Go(r) PROVE HeardHere'
  <2>1. ASSUME NEW q \in peers \ here'
        PROVE  since'[q] <= age[q] + MaxDelay \/ quiet <= age[q]
    <3>1. CASE q = r
      BY <1>7, <3>1, Numbers, CapIsNat, PresenceAssumption DEF Go, TypeOK
    <3>2. CASE q # r
      BY <1>7, <2>1, <3>2, Numbers DEF Go, TypeOK, HeardHere
    <3> QED
      BY <3>1, <3>2
  <2> QED
    BY <1>7, <2>1 DEF Go, HeardHere
<1>8. CASE AnnouncePresence \/ Ping
  BY <1>1, <1>8 DEF AnnouncePresence, Ping, clocks
<1>9. ASSUME NEW r \in Remotes, RemoteAnnounces(r) PROVE HeardHere'
  BY <1>1, <1>9 DEF RemoteAnnounces, clocks
<1>10. ASSUME NEW m \in wire, RemoteHears(m) \/ Lose(m) PROVE HeardHere'
  BY <1>1, <1>10 DEF RemoteHears, Lose, clocks
<1>11. CASE UNCHANGED vars
  BY <1>1, <1>11 DEF vars, clocks
<1> QED
  BY <1>2, <1>3, <1>4, <1>5, <1>6, <1>7, <1>8, <1>9, <1>10, <1>11 DEF Next

(* A page that is gone stays among the peers no longer than the pruner's   *)
(* patience and the delay of its last message, unless packets of another   *)
(* page keep it there.                                                     *)
THEOREM GoneAreDropped == Safety => []GoneIsDropped
<1>1. Init => GoneInv
  BY DEF Init, GoneInv, PrunedInTime, LastWords, HeardHere
<1>2. TypeOK /\ GoneInv /\ [Next]_vars => TypeOK' /\ GoneInv'
  BY TypeStep, PrunedInTimeKept, LastWordsKept, HeardHereKept DEF GoneInv
<1>3. TypeOK /\ GoneInv => GoneIsDropped
  <2> SUFFICES ASSUME TypeOK, GoneInv, NEW r \in peers \ here
               PROVE  since[r] <= MaxDelay + Patience \/ quiet <= Patience
    BY DEF GoneIsDropped
  <2>1. /\ age[r] + pruneIn <= Patience
        /\ since[r] <= age[r] + MaxDelay \/ quiet <= age[r]
    BY DEF GoneInv, PrunedInTime, HeardHere
  <2> QED
    BY <2>1, Numbers, CapIsNat, PresenceAssumption
<1> QED
  BY <1>1, <1>2, <1>3, TypeInit, PTL DEF Safety

-----------------------------------------------------------------------------
(* A page that is there is kept.  It owes a reply to each announcement of  *)
(* this page, a round, which takes up to MaxDelay each way; a lost message *)
(* ends at most one round.  So either no round is under way and r was      *)
(* heard, or came, at most lost rounds before this one; or a message of    *)
(* the latest round, of the one before, or of each, is still to come, and  *)
(* makes up for one or for two more.                                       *)

SinceRound == AnnounceEvery - announceIn
Latest(r) ==
    \E m \in wire :
        /\ m.from = r
        /\ \/ ~m.toMe /\ m.ttl = MaxDelay - SinceRound
           \/ m.toMe /\ m.ttl >= MaxDelay - SinceRound /\ m.ttl <= 2 * MaxDelay - SinceRound
Previous(r) ==
    \E m \in wire :
        m.from = r /\ m.toMe /\ m.ttl <= 2 * MaxDelay - AnnounceEvery - SinceRound
Unheard(r) == IF age[r] <= since[r] THEN age[r] ELSE since[r]
Within(r, n) == Unheard(r) + announceIn <= (lost + n) * AnnounceEvery
HeardOrDue(r) ==
    \/ Within(r, 1)
    \/ Within(r, 2) /\ (Latest(r) \/ Previous(r))
    \/ Within(r, 3) /\ Latest(r) /\ Previous(r)
Rounds == \A r \in peers \cap here : HeardOrDue(r)

(* The messages of a round come before the round after the next one.       *)
InTwoRounds == MaxDelay < AnnounceEvery

LEMMA RoundNumbers ==
    ASSUME TypeOK, NEW r \in Remotes
    PROVE  /\ age[r] \in Nat /\ since[r] \in Nat /\ Unheard(r) \in Nat
           /\ announceIn \in Nat /\ announceIn <= AnnounceEvery
           /\ AnnounceEvery \in Nat /\ MaxDelay \in Nat /\ SinceRound \in Nat
           /\ lost * AnnounceEvery \in Nat /\ lost \in Nat
           /\ \A n \in Nat : (lost + n) * AnnounceEvery = lost * AnnounceEvery + n * AnnounceEvery
           /\ \A n \in Nat : (lost + 1 + n) * AnnounceEvery
                                = lost * AnnounceEvery + (1 + n) * AnnounceEvery
<1>1. /\ age[r] \in Nat /\ since[r] \in Nat
      /\ announceIn \in Nat /\ announceIn <= AnnounceEvery
      /\ AnnounceEvery \in Nat /\ MaxDelay \in Nat /\ lost \in Nat
  BY Numbers, CapIsNat, PresenceAssumption
<1>2. Unheard(r) \in Nat /\ SinceRound \in Nat
  BY <1>1 DEF Unheard, SinceRound
<1>3. ASSUME NEW a \in Nat, NEW b \in Nat
      PROVE  /\ a * b \in Nat
             /\ \A n \in Nat : (a + n) * b = a * b + n * b
             /\ \A n \in Nat : (a + 1 + n) * b = a * b + (1 + n) * b
  OBVIOUS
<1> QED
  BY <1>1, <1>2, <1>3

(* Within, without products of variables. *)
LEMMA WithinRounds ==
    ASSUME TypeOK, NEW r \in Remotes
    PROVE  LET L == lost * AnnounceEvery IN
           /\ Within(r, 1) <=> Unheard(r) + announceIn <= L + AnnounceEvery
           /\ Within(r, 2) <=> Unheard(r) + announceIn <= L + 2 * AnnounceEvery
           /\ Within(r, 3) <=> Unheard(r) + announceIn <= L + 3 * AnnounceEvery
<1>1. /\ (lost + 1) * AnnounceEvery = lost * AnnounceEvery + 1 * AnnounceEvery
      /\ (lost + 2) * AnnounceEvery = lost * AnnounceEvery + 2 * AnnounceEvery
      /\ (lost + 3) * AnnounceEvery = lost * AnnounceEvery + 3 * AnnounceEvery
  BY RoundNumbers
<1> QED
  BY <1>1, PresenceAssumption DEF Within

(* Whoever is heard by a step, or comes with it. *)
LEMMA HeardIsWithin ==
    ASSUME TypeOK', NEW r \in Remotes, age'[r] = 0 \/ since'[r] = 0
    PROVE  HeardOrDue(r)'
<1>1. /\ age'[r] \in Nat /\ since'[r] \in Nat
      /\ announceIn' \in Nat /\ announceIn' <= AnnounceEvery
      /\ lost' \in Nat /\ AnnounceEvery \in Nat
  BY CapIsNat, PresenceAssumption DEF TypeOK
<1>2. Unheard(r)' = 0
  BY <1>1 DEF Unheard
<1>3. ASSUME NEW a \in Nat, NEW b \in Nat, NEW t \in Nat, t <= b
      PROVE  0 + t <= (a + 1) * b
  <2>1. a * b \in Nat /\ (a + 1) * b = a * b + b
    OBVIOUS
  <2> QED
    BY <1>3, <2>1
<1>4. Unheard(r)' + announceIn' <= (lost' + 1) * AnnounceEvery
  BY <1>1, <1>2, <1>3, Zenon
<1> QED
  BY <1>4 DEF HeardOrDue, Within

(* A message that is still on its way. *)
LEMMA RoundsKept ==
    ASSUME NEW r, HeardOrDue(r), UNCHANGED <<announceIn, lost>>,
           age'[r] = age[r], since'[r] = since[r],
           \A m \in wire : m.from = r => m \in wire'
    PROVE  HeardOrDue(r)'
<1>1. (Latest(r) => Latest(r)') /\ (Previous(r) => Previous(r)')
  BY DEF Latest, Previous, SinceRound
<1>2. /\ Within(r, 1)' <=> Within(r, 1)
      /\ Within(r, 2)' <=> Within(r, 2)
      /\ Within(r, 3)' <=> Within(r, 3)
  BY DEF Within, Unheard
<1> QED
  BY <1>1, <1>2 DEF HeardOrDue

(* A new round.  By then the messages of the round before the last are     *)
(* there, and of the last one only a reply can be on its way.              *)
LEMMA RoundsAnnounced ==
    ASSUME TypeOK, InTwoRounds, AnnouncePresence, NEW r \in Remotes, r \in here,
           HeardOrDue(r)
    PROVE  HeardOrDue(r)'
<1> DEFINE L == lost * AnnounceEvery
<1>1. /\ announceIn = 0 /\ announceIn' = AnnounceEvery
      /\ SinceRound = AnnounceEvery /\ SinceRound' = 0
      /\ wire' = wire \cup {FromMe(q) : q \in here}
      /\ UNCHANGED <<age, since, lost>>
  BY PresenceAssumption DEF AnnouncePresence, counters, clocks, SinceRound
<1>2. Unheard(r)' = Unheard(r) /\ Unheard(r) \in Nat /\ L \in Nat
      /\ AnnounceEvery \in Nat /\ MaxDelay \in Nat
  BY <1>1, RoundNumbers DEF Unheard
<1>3. /\ Within(r, 1) <=> Unheard(r) <= L + AnnounceEvery
      /\ Within(r, 2) <=> Unheard(r) <= L + 2 * AnnounceEvery
      /\ Within(r, 3) <=> Unheard(r) <= L + 3 * AnnounceEvery
  BY <1>1, <1>2, WithinRounds
<1>4. /\ Within(r, 2)' <=> Unheard(r) + AnnounceEvery <= L + 2 * AnnounceEvery
      /\ Within(r, 3)' <=> Unheard(r) + AnnounceEvery <= L + 3 * AnnounceEvery
  <2>1. /\ (lost + 2) * AnnounceEvery = L + 2 * AnnounceEvery
        /\ (lost + 3) * AnnounceEvery = L + 3 * AnnounceEvery
    BY RoundNumbers
  <2>2. /\ Within(r, 2)' <=> Unheard(r)' + announceIn' <= (lost' + 2) * AnnounceEvery
        /\ Within(r, 3)' <=> Unheard(r)' + announceIn' <= (lost' + 3) * AnnounceEvery
    BY DEF Within
  <2> QED
    BY <1>1, <1>2, <2>1, <2>2, Zenon
<1> HIDE DEF L
<1>5. Latest(r)'
  <2>1. FromMe(r) \in wire'
    BY <1>1
  <2>2. FromMe(r).from = r /\ ~FromMe(r).toMe /\ FromMe(r).ttl = MaxDelay
    BY DEF FromMe
  <2>3. MaxDelay = MaxDelay - SinceRound'
    BY <1>1, <1>2
  <2> QED
    BY <2>1, <2>2, <2>3 DEF Latest
<1>6. ~Previous(r)
  <2> SUFFICES ASSUME NEW m \in wire, m.toMe,
                      m.ttl <= 2 * MaxDelay - AnnounceEvery - SinceRound
               PROVE  FALSE
    BY DEF Previous
  <2>1. m.ttl \in Nat
    BY Numbers, PresenceAssumption
  <2> QED
    BY <1>1, <1>2, <2>1 DEF InTwoRounds
<1>7. Latest(r) => Previous(r)'
  <2> SUFFICES ASSUME NEW m \in wire, m.from = r,
                      \/ ~m.toMe /\ m.ttl = MaxDelay - SinceRound
                      \/ m.toMe /\ m.ttl <= 2 * MaxDelay - SinceRound
               PROVE  Previous(r)'
    BY DEF Latest
  <2>1. m.ttl \in Nat /\ m \in wire'
    BY <1>1, Numbers, PresenceAssumption
  <2>2. m.toMe /\ m.ttl <= 2 * MaxDelay - AnnounceEvery - SinceRound'
    BY <1>1, <1>2, <2>1 DEF InTwoRounds
  <2> QED
    BY <2>1, <2>2 DEF Previous
<1>8. CASE Within(r, 1)
  <2>1. Within(r, 2)'
    BY <1>2, <1>3, <1>4, <1>8
  <2> QED
    BY <1>5, <2>1 DEF HeardOrDue
<1>9. CASE Within(r, 2) /\ Latest(r)
  <2>1. Within(r, 3)'
    BY <1>2, <1>3, <1>4, <1>9
  <2> QED
    BY <1>5, <1>7, <1>9, <2>1 DEF HeardOrDue
<1> QED
  BY <1>6, <1>8, <1>9 DEF HeardOrDue

(* One message less ends one round at most.                                *)
LEMMA RoundsLost ==
    ASSUME TypeOK, InTwoRounds, NEW n \in wire, Lose(n), NEW r \in Remotes, HeardOrDue(r)
    PROVE  HeardOrDue(r)'
<1> DEFINE L == lost * AnnounceEvery
<1>1. /\ lost' = lost + 1 /\ wire' = wire \ {n}
      /\ UNCHANGED <<age, since, announceIn>> /\ SinceRound' = SinceRound
      /\ Unheard(r)' = Unheard(r)
  BY DEF Lose, clocks, SinceRound, Unheard
<1>2. /\ Within(r, 1)' <=> Within(r, 2)
      /\ Within(r, 2)' <=> Within(r, 3)
  <2>1. lost' + 1 = lost + 2 /\ lost' + 2 = lost + 3
    BY <1>1, RoundNumbers
  <2> QED
    BY <1>1, <2>1 DEF Within
<1>3. Within(r, 1) => Within(r, 2)
  <2>1. Unheard(r) \in Nat /\ announceIn \in Nat /\ AnnounceEvery \in Nat /\ L \in Nat
    BY RoundNumbers
  <2>2. /\ Within(r, 1) <=> Unheard(r) + announceIn <= L + AnnounceEvery
        /\ Within(r, 2) <=> Unheard(r) + announceIn <= L + 2 * AnnounceEvery
    BY WithinRounds
  <2> HIDE DEF L
  <2> QED
    BY <2>1, <2>2
<1>4. ASSUME Latest(r), Previous(r)
      PROVE  Latest(r)' \/ Previous(r)'
  <2>1. PICK p \in wire : /\ p.from = r /\ p.toMe
                          /\ p.ttl <= 2 * MaxDelay - AnnounceEvery - SinceRound
    BY <1>4 DEF Previous
  <2>2. PICK q \in wire :
            /\ q.from = r
            /\ \/ ~q.toMe /\ q.ttl = MaxDelay - SinceRound
               \/ q.toMe /\ q.ttl >= MaxDelay - SinceRound /\ q.ttl <= 2 * MaxDelay - SinceRound
    BY <1>4 DEF Latest
  <2>3. p # q
    <3>1. /\ p.ttl \in Nat /\ SinceRound \in Nat /\ MaxDelay \in Nat /\ AnnounceEvery \in Nat
      <4>1. SinceRound \in Nat /\ MaxDelay \in Nat /\ AnnounceEvery \in Nat
        BY RoundNumbers
      <4> QED
        BY <4>1, Numbers
    <3>2. 2 * MaxDelay - AnnounceEvery - SinceRound < MaxDelay - SinceRound
      BY <3>1 DEF InTwoRounds
    <3> QED
      BY <2>1, <2>2, <3>1, <3>2
  <2>4. p \in wire' \/ q \in wire'
    BY <1>1, <2>3
  <2> QED
    BY <1>1, <2>1, <2>2, <2>4 DEF Latest, Previous
<1> QED
  BY <1>2, <1>3, <1>4 DEF HeardOrDue

(* Time passes for a round as it does for who was not heard.               *)
LEMMA RoundsAged ==
    ASSUME TypeOK, Tick, NEW r \in peers, HeardOrDue(r)
    PROVE  HeardOrDue(r)'
<1>1. r \in Remotes
  BY Numbers
<1>2. /\ age'[r] = Older(age[r]) /\ since'[r] = Older(since[r])
      /\ announceIn' = announceIn - 1 /\ lost' = lost
      /\ SinceRound' = SinceRound + 1
  <2>1. announceIn \in Nat /\ AnnounceEvery \in Nat
    BY <1>1, RoundNumbers
  <2>2. announceIn' = announceIn - 1
    BY DEF Tick
  <2>3. SinceRound' = SinceRound + 1
    BY <2>1, <2>2 DEF SinceRound
  <2> QED
    BY <1>1, <2>2, <2>3 DEF Tick, counters
<1>3. Unheard(r)' \in Nat /\ Unheard(r)' <= Unheard(r) + 1
  <2>1. /\ age[r] \in Nat /\ since[r] \in Nat
    BY <1>1, RoundNumbers
  <2>2. /\ age'[r] \in Nat /\ age'[r] <= age[r] + 1
        /\ since'[r] \in Nat /\ since'[r] <= since[r] + 1
    BY <1>2, <2>1, OlderIsLater
  <2> QED
    BY <2>1, <2>2 DEF Unheard
<1>4. ASSUME NEW n \in {1, 2, 3}, Within(r, n)
      PROVE  Within(r, n)'
  <2>1. Unheard(r) \in Nat /\ announceIn \in Nat
    BY <1>1, RoundNumbers
  <2> DEFINE bound == (lost + n) * AnnounceEvery
  <2>2. bound \in Int
    <3>1. lost + n \in Int /\ AnnounceEvery \in Int
      BY <1>1, RoundNumbers
    <3> QED
      BY <3>1
  <2>3. Unheard(r) + announceIn <= bound
    BY <1>4 DEF Within
  <2> HIDE DEF bound
  <2>4. Unheard(r)' + announceIn' <= bound
    BY <1>2, <1>3, <2>1, <2>2, <2>3
  <2>5. bound = (lost' + n) * AnnounceEvery
    BY <1>2 DEF bound
  <2> QED
    BY <2>4, <2>5 DEF Within
<1>5. ASSUME NEW m \in wire
      PROVE  /\ Aged(m) \in wire' /\ m.ttl \in Int
             /\ Aged(m).from = m.from /\ Aged(m).toMe = m.toMe /\ Aged(m).ttl = m.ttl - 1
  <2>1. m \in Messages /\ m.ttl > 0
    <3>1. m \in Messages /\ m.ttl \in 0..MaxDelay
      BY Numbers
    <3> QED
      BY <3>1 DEF Tick
  <2>2. Aged(m) \in wire'
    BY DEF Tick, Aged
  <2> QED
    BY <2>1, <2>2, AgedMessage
<1>6. SinceRound \in Int /\ MaxDelay \in Int /\ AnnounceEvery \in Int
  BY <1>1, RoundNumbers
<1>7. Latest(r) => Latest(r)'
  <2> SUFFICES ASSUME NEW m \in wire, m.from = r,
                      \/ ~m.toMe /\ m.ttl = MaxDelay - SinceRound
                      \/ /\ m.toMe /\ m.ttl >= MaxDelay - SinceRound
                         /\ m.ttl <= 2 * MaxDelay - SinceRound
               PROVE  Latest(r)'
    BY DEF Latest
  <2> DEFINE a == Aged(m)
  <2>1. a \in wire' /\ m.ttl \in Int /\ a.from = r /\ a.toMe = m.toMe /\ a.ttl = m.ttl - 1
    BY <1>5
  <2> HIDE DEF a
  <2>2. \/ ~a.toMe /\ a.ttl = MaxDelay - SinceRound'
        \/ a.toMe /\ a.ttl >= MaxDelay - SinceRound' /\ a.ttl <= 2 * MaxDelay - SinceRound'
    BY <1>2, <1>6, <2>1
  <2> QED
    BY <2>1, <2>2 DEF Latest
<1>8. Previous(r) => Previous(r)'
  <2> SUFFICES ASSUME NEW m \in wire, m.from = r, m.toMe,
                      m.ttl <= 2 * MaxDelay - AnnounceEvery - SinceRound
               PROVE  Previous(r)'
    BY DEF Previous
  <2> DEFINE a == Aged(m)
  <2>1. a \in wire' /\ m.ttl \in Int /\ a.from = r /\ a.toMe /\ a.ttl = m.ttl - 1
    BY <1>5
  <2> HIDE DEF a
  <2>2. a.ttl <= 2 * MaxDelay - AnnounceEvery - SinceRound'
    BY <1>2, <1>6, <2>1
  <2> QED
    BY <2>1, <2>2 DEF Previous
<1> QED
  BY <1>4, <1>7, <1>8 DEF HeardOrDue

(* The page of r answers the announcement of this page.                    *)
LEMMA RoundsAnswered ==
    ASSUME TypeOK, NEW n \in wire, RemoteHears(n), NEW r \in Remotes, r \in here, HeardOrDue(r)
    PROVE  HeardOrDue(r)'
<1>1. /\ wire' = Reply(n) /\ ~n.toMe
      /\ UNCHANGED <<announceIn, lost, age, since>>
  BY DEF RemoteHears, counters, clocks
<1>2. \A m \in wire : m.toMe => m \in wire'
  BY <1>1 DEF Reply
<1>3. SinceRound' = SinceRound
  BY <1>1 DEF SinceRound
<1>4. Previous(r) => Previous(r)'
  BY <1>2, <1>3 DEF Previous
<1>5. Latest(r) => Latest(r)'
  <2> SUFFICES ASSUME NEW m \in wire, m.from = r,
                      \/ ~m.toMe /\ m.ttl = MaxDelay - SinceRound
                      \/ /\ m.toMe /\ m.ttl >= MaxDelay - SinceRound
                         /\ m.ttl <= 2 * MaxDelay - SinceRound
               PROVE  Latest(r)'
    BY DEF Latest
  <2>1. CASE m \in wire'
    BY <1>3, <2>1 DEF Latest
  <2>2. CASE m \notin wire'
    <3>1. m = n /\ ~m.toMe /\ m.ttl = MaxDelay - SinceRound
      BY <1>1, <1>2, <2>2 DEF Reply
    <3>2. ToMe(r) \in wire'
      BY <1>1, <3>1 DEF Reply
    <3>3. ToMe(r).from = r /\ ToMe(r).toMe /\ ToMe(r).ttl = MaxDelay
      BY MessagesTyped
    <3>4. m.ttl \in Nat /\ SinceRound \in Nat /\ MaxDelay \in Nat
      <4>1. SinceRound \in Nat /\ MaxDelay \in Nat
        BY RoundNumbers
      <4> QED
        BY <4>1, Numbers
    <3>5. MaxDelay >= MaxDelay - SinceRound /\ MaxDelay <= 2 * MaxDelay - SinceRound
      BY <3>1, <3>4
    <3> QED
      BY <1>3, <3>2, <3>3, <3>5 DEF Latest
  <2> QED
    BY <2>1, <2>2
<1>6. /\ Within(r, 1)' <=> Within(r, 1)
      /\ Within(r, 2)' <=> Within(r, 2)
      /\ Within(r, 3)' <=> Within(r, 3)
  BY <1>1 DEF Within, Unheard
<1> QED
  BY <1>4, <1>5, <1>6 DEF HeardOrDue

LEMMA RoundsStep ==
    ASSUME TypeOK, InTwoRounds, Rounds, [Next]_vars
    PROVE  Rounds'
<1> SUFFICES ASSUME NEW r \in peers' \cap here' PROVE HeardOrDue(r)'
  BY DEF Rounds
<1>1. TypeOK'
  BY TypeStep
<1>2. r \in Remotes
  BY <1>1 DEF TypeOK
<1>3. ASSUME age'[r] = 0 \/ since'[r] = 0
      PROVE  HeardOrDue(r)'
  BY <1>1, <1>2, <1>3, HeardIsWithin
<1>4. ASSUME r \in peers, r \in here
      PROVE  HeardOrDue(r)
  BY <1>4 DEF Rounds
<1>5. CASE AnnouncePresence
  BY <1>2, <1>4, <1>5, RoundsAnnounced DEF AnnouncePresence
<1>6. ASSUME NEW q \in Remotes, RemoteAnnounces(q) PROVE HeardOrDue(r)'
  BY <1>4, <1>6, RoundsKept DEF RemoteAnnounces, counters, clocks
<1>7. ASSUME NEW m \in wire, RemoteHears(m) PROVE HeardOrDue(r)'
  BY <1>2, <1>4, <1>7, RoundsAnswered DEF RemoteHears
<1>8. ASSUME NEW m \in wire, HearPresence(m) PROVE HeardOrDue(r)'
  <2>1. CASE r = m.from
    BY <1>2, <1>3, <1>8, <2>1 DEF HearPresence, TypeOK
  <2>2. CASE r # m.from
    <3>1. r \in peers /\ r \in here /\ age'[r] = age[r]
      BY <1>2, <1>8, <2>2 DEF HearPresence, Entered, TypeOK
    <3> QED
      BY <1>4, <1>8, <2>2, <3>1, RoundsKept DEF HearPresence, counters
  <2> QED
    BY <2>1, <2>2
<1>9. ASSUME NEW m \in wire, Lose(m) PROVE HeardOrDue(r)'
  BY <1>2, <1>4, <1>9, RoundsLost DEF Lose
<1>10. ASSUME NEW q \in Remotes, HandleIncomingPacket(q) PROVE HeardOrDue(r)'
  BY <1>2, <1>3, <1>10 DEF HandleIncomingPacket
<1>11. CASE Ping
  BY <1>4, <1>11, RoundsKept DEF Ping, counters, clocks
<1>12. CASE Prune
  <2>1. r \in peers /\ age'[r] = age[r]
    BY <1>2, <1>12 DEF Prune
  <2> QED
    BY <1>4, <1>12, <2>1, RoundsKept DEF Prune, counters, clocks
<1>13. ASSUME NEW q \in Remotes, Come(q) PROVE HeardOrDue(r)'
  <2>1. CASE q = r
    BY <1>2, <1>3, <1>13, <2>1 DEF Come, TypeOK
  <2>2. CASE q # r
    BY <1>2, <1>4, <1>13, <2>2, RoundsKept DEF Come, TypeOK
  <2> QED
    BY <2>1, <2>2
<1>14. ASSUME NEW q \in Remotes, Go(q) PROVE HeardOrDue(r)'
  BY <1>2, <1>4, <1>14, RoundsKept DEF Go, TypeOK
<1>15. CASE Tick
  BY <1>4, <1>15, RoundsAged DEF Tick
<1>16. CASE UNCHANGED vars
  BY <1>4, <1>16, RoundsKept DEF vars, counters, clocks
<1> QED
  BY <1>5, <1>6, <1>7, <1>8, <1>9, <1>10, <1>11, <1>12, <1>13, <1>14, <1>15,
     <1>16 DEF Next

(* Whatever is still to come of a round, a page that is there was heard,   *)
(* or came, within Reach.                                                  *)
LEMMA HeardInReach ==
    ASSUME TypeOK, InTwoRounds, NEW r \in Remotes, HeardOrDue(r)
    PROVE  Unheard(r) <= Reach
<1> DEFINE L == lost * AnnounceEvery
<1>1. /\ Unheard(r) \in Nat /\ announceIn \in Nat /\ L \in Nat
      /\ AnnounceEvery \in Nat /\ MaxDelay \in Nat
      /\ SinceRound \in Nat /\ SinceRound = AnnounceEvery - announceIn
  BY RoundNumbers DEF SinceRound
<1>2. L + AnnounceEvery + 2 * MaxDelay <= Reach
  <2>1. lost \in Nat /\ MaxEvents \in Nat /\ lost <= MaxEvents /\ AnnounceEvery \in Nat
    BY Numbers, PresenceAssumption
  <2>2. lost * AnnounceEvery <= MaxEvents * AnnounceEvery
    BY <2>1
  <2>3. (MaxEvents + 1) * AnnounceEvery = MaxEvents * AnnounceEvery + AnnounceEvery
        /\ MaxEvents * AnnounceEvery \in Nat
    BY <2>1
  <2> QED
    BY <1>1, <2>2, <2>3 DEF Reach
<1>3. /\ Within(r, 1) <=> Unheard(r) + announceIn <= L + AnnounceEvery
      /\ Within(r, 2) <=> Unheard(r) + announceIn <= L + 2 * AnnounceEvery
      /\ Within(r, 3) <=> Unheard(r) + announceIn <= L + 3 * AnnounceEvery
  BY WithinRounds
<1> HIDE DEF L
<1>4. Reach \in Nat
  BY CapIsNat
<1>5. Latest(r) => SinceRound <= 2 * MaxDelay
  <2> SUFFICES ASSUME NEW m \in wire,
                      \/ m.ttl = MaxDelay - SinceRound
                      \/ m.ttl <= 2 * MaxDelay - SinceRound
               PROVE  SinceRound <= 2 * MaxDelay
    BY DEF Latest
  <2>1. m.ttl \in Nat
    BY Numbers
  <2> QED
    BY <1>1, <2>1
<1>6. Previous(r) => SinceRound + AnnounceEvery <= 2 * MaxDelay
  <2> SUFFICES ASSUME NEW m \in wire,
                      m.ttl <= 2 * MaxDelay - AnnounceEvery - SinceRound
               PROVE  SinceRound + AnnounceEvery <= 2 * MaxDelay
    BY DEF Previous
  <2>1. m.ttl \in Nat
    BY Numbers
  <2> QED
    BY <1>1, <2>1
<1>7. CASE Within(r, 1)
  BY <1>1, <1>2, <1>3, <1>4, <1>7
<1>8. CASE Within(r, 2) /\ (Latest(r) \/ Previous(r))
  BY <1>1, <1>2, <1>3, <1>4, <1>5, <1>6, <1>8
<1>9. CASE Within(r, 3) /\ Previous(r)
  BY <1>1, <1>2, <1>3, <1>4, <1>6, <1>9
<1> QED
  BY <1>7, <1>8, <1>9 DEF HeardOrDue

(* The pruner drops no page that is in the room, if a message of the       *)
(* broker takes less than the interval of presence, and if the pruner's    *)
(* 8 s are enough for the announcements that may get lost.                 *)
THEOREM PresentAreKept ==
    InTwoRounds /\ Reach <= PruneAfter /\ Safety => PresentIsKept
<1> SUFFICES ASSUME InTwoRounds, Reach <= PruneAfter PROVE Safety => PresentIsKept
  OBVIOUS
<1> DEFINE Kept == \A r \in peers \ peers' : r \notin here \/ since[r] <= Reach
<1>1. Init => Rounds
  BY DEF Init, Rounds
<1>2. TypeOK /\ Rounds /\ [Next]_vars => TypeOK' /\ Rounds'
  BY TypeStep, RoundsStep
<1>3. TypeOK /\ Rounds /\ Next => Kept
  <2> SUFFICES ASSUME TypeOK, Rounds, Next, NEW r \in peers \ peers', r \in here
               PROVE  since[r] <= Reach
    OBVIOUS
  <2>1. r \in Remotes /\ Prune
    BY DEF Next, AnnouncePresence, RemoteAnnounces, RemoteHears, HearPresence, Entered,
           Lose, HandleIncomingPacket, Ping, Come, Go, Tick, TypeOK
  <2>2. Unheard(r) <= Reach
    BY <2>1, HeardInReach DEF Rounds
  <2>3. Silent(r)
    BY <2>1 DEF Prune
  <2>4. /\ age[r] \in Nat /\ since[r] \in Nat /\ Reach \in Nat /\ PruneAfter \in Nat
        /\ age[r] > PruneAfter
    BY <2>1, <2>3, Numbers, CapIsNat, PresenceAssumption DEF Silent
  <2> QED
    BY <2>2, <2>4 DEF Unheard
<1>4. TypeOK /\ Rounds /\ [Next]_vars => [Kept]_vars
  BY <1>3
<1> QED
  BY <1>1, <1>2, <1>4, TypeInit, PTL DEF Safety, PresentIsKept
=============================================================================
