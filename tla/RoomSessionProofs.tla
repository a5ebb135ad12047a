-------------------------- MODULE RoomSessionProofs -------------------------
(***************************************************************************)
(* Proofs about RoomSession, for any rooms, passwords, number of brokers,  *)
(* visits and failures: its types, that a room is served and saved, and    *)
(* that one client is all there is, and none in the lobby.                 *)
(***************************************************************************)
EXTENDS RoomSession, FiniteSetTheorems, TLAPS

BrokerNrs == 0..Brokers - 1
ClientType == [nr : 1..made, broker : BrokerNrs, topic : Pairs,
               up : BOOLEAN, asked : SUBSET Pairs, subs : SUBSET Pairs,
                    refused : SUBSET Pairs]
TimersType == timers \in [BrokerNrs -> Nat]

LEMMA BrokerNumbers ==
    ASSUME NEW i \in BrokerNrs
    PROVE  NextBroker(i) \in BrokerNrs /\ 0 \in BrokerNrs
  BY SessionAssumption, SMT DEF BrokerNrs, NextBroker

(* A client that is made, and one that lives on when others are made.      *)
LEMMA Clients ==
    ASSUME TypeOK, NEW i \in BrokerNrs, NEW t \in Pairs
    PROVE  /\ Client(made + 1, i, t) \in
                [nr : 1..made + 1, broker : BrokerNrs, topic : Pairs,
                 up : BOOLEAN, asked : SUBSET Pairs, subs : SUBSET Pairs,
                    refused : SUBSET Pairs]
           /\ ClientType \subseteq
                [nr : 1..made + 1, broker : BrokerNrs, topic : Pairs,
                 up : BOOLEAN, asked : SUBSET Pairs, subs : SUBSET Pairs,
                    refused : SUBSET Pairs]
<1>1. made \in Nat
  BY DEF TypeOK
<1>2. made + 1 \in 1..made + 1 /\ 1..made \subseteq 1..made + 1
  BY <1>1
<1> QED
  BY <1>2 DEF Client, ClientType

(* connectSignaling.                                                       *)
LEMMA ConnectType ==
    ASSUME TypeOK, NEW i \in BrokerNrs, NEW t \in Pairs,
           NEW running \in [BrokerNrs -> Nat], ConnectSignaling(i, t, running)
    PROVE  /\ made' \in Nat /\ client' \in 0..made'
           /\ live' \subseteq ClientType'
           /\ timers' \in [BrokerNrs -> Nat]
           /\ failures' \in 0..MaxFailures
<1>1. CASE /\ made' = made + 1 /\ client' = made'
           /\ live' = live \cup {Client(made', i, t)}
           /\ timers' = running /\ failures' = failures
  <2>1. made' \in Nat /\ client' \in 0..made'
    BY <1>1 DEF TypeOK
  <2>2. live' \subseteq ClientType'
    BY <1>1, Clients DEF TypeOK, ClientType, BrokerNrs
  <2> QED
    BY <1>1, <2>1, <2>2 DEF TypeOK
<1>2. CASE /\ Fails
           /\ timers' = [running EXCEPT ![NextBroker(i)] = @ + 1]
           /\ UNCHANGED <<made, client, live>>
  <2>1. failures' \in 0..MaxFailures
    BY <1>2, SessionAssumption DEF Fails, TypeOK
  <2>2. timers' \in [BrokerNrs -> Nat]
    BY <1>2, BrokerNumbers
  <2>3. made' = made /\ client' = client /\ live' = live /\ ClientType' = ClientType
    BY <1>2 DEF ClientType
  <2> QED
    BY <2>1, <2>2, <2>3 DEF TypeOK, ClientType, BrokerNrs
<1> QED
  BY <1>1, <1>2 DEF ConnectSignaling

(* What does not make clients leaves their number alone.                   *)
LEMMA SameClients ==
    ASSUME UNCHANGED made
    PROVE  ClientType' = ClientType
  BY DEF ClientType

LEMMA EndedType ==
    ASSUME TypeOK
    PROVE  Ended \subseteq ClientType
  BY DEF TypeOK, Ended, ClientType, BrokerNrs

(* A client whose connection is lost or whose subscription is answered.    *)
LEMMA OneChanged ==
    ASSUME TypeOK, NEW c \in live, OnClose(c) \/ \E t \in c.asked : OnSubscribed(c, t)
    PROVE  \E e \in ClientType :
               /\ live' = (live \ {c}) \cup {e}
               /\ e.nr = c.nr /\ e.topic = c.topic
               /\ e.asked \subseteq c.asked /\ e.subs \subseteq c.subs \cup c.asked
<1>1. c \in ClientType
  BY DEF TypeOK, ClientType, BrokerNrs
<1> DEFINE Changed(e) ==
              /\ e.nr = c.nr /\ e.topic = c.topic
              /\ e.asked \subseteq c.asked /\ e.subs \subseteq c.subs \cup c.asked
<1>2. Down(c) \in ClientType /\ Changed(Down(c))
  BY <1>1 DEF ClientType, Down
<1>3. ASSUME NEW t \in c.asked
      PROVE  /\ Granted(c, t) \in ClientType /\ Changed(Granted(c, t))
             /\ Refused(c, t) \in ClientType /\ Changed(Refused(c, t))
  BY <1>1 DEF ClientType, Granted, Refused
<1> HIDE DEF Changed
<1>4. \E e \in ClientType : Changed(e) /\ live' = (live \ {c}) \cup {e}
  <2>1. CASE OnClose(c)
    BY <1>2, <2>1 DEF OnClose
  <2>2. ASSUME NEW t \in c.asked, OnSubscribed(c, t)
        PROVE  \E e \in ClientType : Changed(e) /\ live' = (live \ {c}) \cup {e}
    BY <1>3, <2>2 DEF OnSubscribed
  <2> QED
    BY <2>1, <2>2
<1> QED
  BY <1>4 DEF Changed

LEMMA LobbyType ==
    ASSUME TypeOK, ShowLobbyView
    PROVE  /\ view' = "lobby" /\ client' \in 0..made' /\ made' \in Nat
           /\ live' \subseteq ClientType'
           /\ announcing' \in BOOLEAN /\ pruning' \in BOOLEAN
           /\ strayed' \in BOOLEAN
           /\ timers' = timers /\ failures' = failures
<1>1. live' \subseteq ClientType'
  BY EndedType, SameClients DEF ShowLobbyView, CleanupConnection
<1>2. strayed' \in BOOLEAN
  BY DEF ShowLobbyView, TypeOK, InFlight, TimerRuns
<1>3. client' \in 0..made' /\ made' \in Nat
  BY DEF ShowLobbyView, CleanupConnection, TypeOK
<1> QED
  BY <1>1, <1>2, <1>3 DEF ShowLobbyView, CleanupConnection

(* Whom initApp lets in has a room and a password.                         *)
LEMMA AutoEntryType ==
    ASSUME TypeOK, NEW c \in AutoEntry
    PROVE  c \in [room : Rooms, pw : Pws]
  BY DEF AutoEntry, TypeOK, Pairs

LEMMA CallType ==
    ASSUME TypeOK, NEW c \in [room : Rooms, pw : Pws], Call(c)
    PROVE  current' \in Pairs /\ calls' \in [Pws -> Nat]
  BY DEF Call, TypeOK, Pairs

LEMMA NoPairType == NoPair \in Pairs
  BY DEF NoPair, Pair, Pairs

LEMMA TypeKept == TypeOK /\ [Next]_vars => TypeOK'
<1> SUFFICES ASSUME TypeOK, [Next]_vars PROVE TypeOK'
  OBVIOUS
<1> USE DEF page
<1>1. CASE UNCHANGED vars
  BY <1>1 DEF TypeOK, vars
<1>2. ASSUME NEW i \in BrokerNrs, TimerFires(i)
      PROVE  TypeOK'
  <2> DEFINE running == [timers EXCEPT ![i] = @ - 1]
  <2>1. running \in [BrokerNrs -> Nat]
    BY <1>2 DEF TimerFires, TypeOK, BrokerNrs
  <2>2. ConnectSignaling(i, topic, running) /\ topic \in Pairs
    BY <1>2 DEF TimerFires, TypeOK
  <2> HIDE DEF running
  <2>3. /\ made' \in Nat /\ client' \in 0..made' /\ live' \subseteq ClientType'
        /\ timers' \in [BrokerNrs -> Nat] /\ failures' \in 0..MaxFailures
    BY <2>1, <2>2, ConnectType
  <2> QED
    BY <1>2, <2>3 DEF TimerFires, TypeOK, ClientType, BrokerNrs
<1>3. ASSUME NEW c \in live, OnConnect(c)
      PROVE  TypeOK'
  <2>1. c \in ClientType /\ live \subseteq ClientType
    BY DEF TypeOK, ClientType, BrokerNrs
  <2>2. \A d \in live :
            [d EXCEPT !.up = @ \/ d = c,
                      !.asked = IF d.nr = client THEN @ \cup {c.topic} ELSE @]
                \in ClientType
    BY <2>1 DEF ClientType
  <2>3. live' \subseteq ClientType'
    BY <1>3, <2>2, SameClients DEF OnConnect, Asked
  <2> QED
    BY <1>3, <2>3 DEF OnConnect, TypeOK, ClientType, BrokerNrs
<1>4. ASSUME NEW c \in live, OnClose(c) \/ \E t \in c.asked : OnSubscribed(c, t)
      PROVE  TypeOK'
  <2>1. live \subseteq ClientType /\ (\A t \in c.asked : t \in Pairs)
    BY DEF TypeOK, ClientType, BrokerNrs
  <2>2. PICK e \in ClientType : live' = (live \ {c}) \cup {e}
    BY <1>4, <2>1, OneChanged
  <2>3. live' \subseteq ClientType'
    BY <1>4, <2>1, <2>2, SameClients DEF OnClose, OnSubscribed
  <2>4. failures' \in 0..MaxFailures
    <3>1. failures' = failures \/ Fails
      BY <1>4 DEF OnClose, OnSubscribed
    <3> QED
      BY <3>1, SessionAssumption DEF Fails, TypeOK
  <2>5. announcing' \in BOOLEAN
    <3>1. announcing' = announcing \/ announcing' = TRUE
      BY <1>4 DEF OnClose, OnSubscribed
    <3> QED
      BY <3>1 DEF TypeOK
  <2> QED
    BY <1>4, <2>3, <2>4, <2>5 DEF OnClose, OnSubscribed, TypeOK, ClientType, BrokerNrs
<1>5. ASSUME NEW c \in live, OnError(c)
      PROVE  TypeOK'
  <2>1. c.broker \in BrokerNrs
    BY DEF TypeOK, BrokerNrs
  <2>2. timers' \in [BrokerNrs -> Nat]
    <3>1. NextBroker(c.broker) \in BrokerNrs /\ timers \in [BrokerNrs -> Nat]
      BY <2>1, BrokerNumbers DEF TypeOK, BrokerNrs
    <3> QED
      BY <1>5, <3>1 DEF OnError, SetTimer
  <2>3. failures' \in 0..MaxFailures
    BY <1>5, SessionAssumption DEF OnError, Fails, TypeOK
  <2>4. live' \subseteq ClientType'
    BY <1>5, EndedType, SameClients DEF OnError
  <2> QED
    BY <1>5, <2>2, <2>3, <2>4 DEF OnError, TypeOK, ClientType, BrokerNrs
<1>6. ASSUME NEW c \in [room : Rooms, pw : Pws], EnterRoom(c)
      PROVE  TypeOK'
  <2>1. visits' \in 0..MaxVisits
    BY <1>6, SessionAssumption DEF EnterRoom, TypeOK
  <2> QED
    BY <1>6, <2>1, CallType DEF EnterRoom, TypeOK
<1>7. ASSUME NEW p \in Pws, Hashed(p)
      PROVE  TypeOK'
  <2>1. topic' \in Pairs /\ saved' \in Pairs /\ url' \in Pairs
    BY <1>7 DEF Hashed, SavedSession, Pair, Pairs, TypeOK
  <2>2. calls' \in [Pws -> Nat]
    BY <1>7 DEF Hashed, TypeOK
  <2>3. timers \in [BrokerNrs -> Nat] /\ 0 \in BrokerNrs
    BY SessionAssumption DEF TypeOK, BrokerNrs
  <2>4. topic' = Pair(current.room, p) /\ Pair(current.room, p) \in Pairs
        /\ ConnectSignaling(0, Pair(current.room, p), timers)
    BY <1>7, <2>1 DEF Hashed
  <2>5. /\ made' \in Nat /\ client' \in 0..made' /\ live' \subseteq ClientType'
        /\ timers' \in [BrokerNrs -> Nat] /\ failures' \in 0..MaxFailures
    BY <2>3, <2>4, ConnectType
  <2>6. strayed' \in BOOLEAN
    BY <1>7 DEF Hashed, TypeOK
  <2> QED
    BY <1>7, <2>1, <2>2, <2>5, <2>6 DEF Hashed, TypeOK, ClientType, BrokerNrs
<1>8. CASE LeaveRoom
  BY <1>8, LobbyType, NoPairType DEF LeaveRoom, TypeOK, ClientType, BrokerNrs
<1>9. CASE InitApp
  <2>1. master' \in Pws \cup {None} /\ url' \in Pairs /\ loading' = FALSE
    BY <1>9, SessionAssumption, NoPairType DEF InitApp, TypeOK
  <2>2. CASE ~fresh /\ AutoEntry # {}
    <3>1. PICK c \in AutoEntry :
              IF Accepted(c.pw, master') THEN Call(c) ELSE UNCHANGED <<current, calls>>
      BY <1>9, <2>2 DEF InitApp
    <3>2. current' \in Pairs /\ calls' \in [Pws -> Nat]
      BY <3>1, AutoEntryType, CallType DEF TypeOK
    <3> QED
      BY <1>9, <2>1, <2>2, <3>2 DEF InitApp, TypeOK
  <2>3. CASE ~(~fresh /\ AutoEntry # {})
    BY <1>9, <2>1, <2>3, LobbyType DEF InitApp, TypeOK, ClientType, BrokerNrs
  <2> QED
    BY <2>2, <2>3
<1>10. ASSUME NEW deployed \in BOOLEAN, Load(deployed)
       PROVE  TypeOK'
  <2>1. visits' \in 0..MaxVisits
    BY <1>10, SessionAssumption DEF Load, TypeOK
  <2>2. 0 \in 0..made
    BY DEF TypeOK
  <2> QED
    BY <1>10, <2>1, <2>2, NoPairType DEF Load, TypeOK
<1> QED
  BY <1>1, <1>2, <1>3, <1>4, <1>5, <1>6, <1>7, <1>8, <1>9, <1>10 DEF Next, BrokerNrs

(* The state keeps its types.                                              *)
THEOREM TypeCorrect == Safety => []TypeOK
<1>1. Init => TypeOK
  <2> SUFFICES ASSUME Init PROVE TypeOK
    OBVIOUS
  <2>1. url \in Pairs
    BY NoPairType DEF Init, Links, Pairs
  <2>2. /\ made = 0 /\ 0 \in Nat /\ client \in 0..made
        /\ visits \in 0..MaxVisits /\ failures \in 0..MaxFailures
    BY SessionAssumption DEF Init
  <2>3. timers \in [0..Brokers - 1 -> Nat] /\ calls \in [Pws -> Nat]
    BY DEF Init
  <2>4. {current, topic, url, saved} \subseteq Pairs
    BY <2>1, NoPairType DEF Init
  <2> QED
    BY <2>2, <2>3, <2>4 DEF Init, TypeOK
<1> QED
  BY <1>1, TypeKept, PTL DEF Safety

-----------------------------------------------------------------------------
(* A room is served.                                                       *)

(* connectSignaling makes a client or a timer.                             *)
LEMMA ConnectServes ==
    ASSUME TypeOK, NEW i \in BrokerNrs, NEW t,
           NEW running \in [BrokerNrs -> Nat], ConnectSignaling(i, t, running)
    PROVE  live' # {} \/ TimerRuns'
<1>1. NextBroker(i) \in BrokerNrs
  BY BrokerNumbers
<1>2. CASE timers' = [running EXCEPT ![NextBroker(i)] = @ + 1]
  <2>1. timers'[NextBroker(i)] > 0
    BY <1>1, <1>2
  <2> QED
    BY <1>1, <2>1 DEF TimerRuns, BrokerNrs
<1> QED
  BY <1>2 DEF ConnectSignaling

LEMMA ServedKept == TypeOK /\ RoomIsServed /\ [Next]_vars => RoomIsServed'
<1> SUFFICES ASSUME TypeOK, RoomIsServed, [Next]_vars PROVE RoomIsServed'
  OBVIOUS
<1>1. CASE UNCHANGED <<view, live, timers>>
  BY <1>1 DEF RoomIsServed, TimerRuns
<1>2. ASSUME NEW i \in BrokerNrs, TimerFires(i)
      PROVE  RoomIsServed'
  <2> DEFINE running == [timers EXCEPT ![i] = @ - 1]
  <2>1. running \in [BrokerNrs -> Nat]
    BY <1>2 DEF TimerFires, TypeOK, BrokerNrs
  <2>2. ConnectSignaling(i, topic, running)
    BY <1>2 DEF TimerFires
  <2> HIDE DEF running
  <2> QED
    BY <2>1, <2>2, ConnectServes DEF RoomIsServed
<1>3. ASSUME NEW c \in live, OnConnect(c)
      PROVE  RoomIsServed'
  BY <1>3 DEF OnConnect, Asked, RoomIsServed
<1>4. ASSUME NEW c \in live, OnClose(c) \/ \E t \in c.asked : OnSubscribed(c, t)
      PROVE  RoomIsServed'
  BY <1>4 DEF OnClose, OnSubscribed, RoomIsServed
<1>5. ASSUME NEW c \in live, OnError(c)
      PROVE  RoomIsServed'
  <2>1. NextBroker(c.broker) \in BrokerNrs
    BY BrokerNumbers DEF TypeOK, BrokerNrs
  <2>2. timers'[NextBroker(c.broker)] > 0
    BY <1>5, <2>1 DEF OnError, SetTimer, TypeOK, BrokerNrs
  <2> QED
    BY <2>1, <2>2 DEF RoomIsServed, TimerRuns, BrokerNrs
<1>6. ASSUME NEW p \in Pws, Hashed(p)
      PROVE  RoomIsServed'
  <2>1. 0 \in BrokerNrs /\ timers \in [BrokerNrs -> Nat]
    BY SessionAssumption DEF TypeOK, BrokerNrs
  <2>2. ConnectSignaling(0, topic', timers)
    BY <1>6 DEF Hashed
  <2>3. ASSUME NEW t, ConnectSignaling(0, t, timers)
        PROVE  live' # {} \/ TimerRuns'
    BY <2>1, <2>3, ConnectServes
  <2> QED
    BY <2>2, <2>3 DEF RoomIsServed
<1>7. ASSUME NEW c \in [room : Rooms, pw : Pws], EnterRoom(c)
      PROVE  RoomIsServed'
  BY <1>1, <1>7 DEF EnterRoom
<1>8. CASE LeaveRoom
  BY <1>8 DEF LeaveRoom, ShowLobbyView, RoomIsServed
<1>9. CASE InitApp
  BY <1>1, <1>9 DEF InitApp, ShowLobbyView, RoomIsServed
<1>10. ASSUME NEW deployed \in BOOLEAN, Load(deployed)
       PROVE  RoomIsServed'
  BY <1>10 DEF Load, RoomIsServed
<1>11. CASE UNCHANGED vars
  BY <1>1, <1>11 DEF vars, page
<1> QED
  BY <1>2, <1>3, <1>4, <1>5, <1>6, <1>7, <1>8, <1>9, <1>10, <1>11
     DEF Next, BrokerNrs

(* A page that shows a room has a client or will make one.                 *)
THEOREM RoomsAreServed == Safety => []RoomIsServed
<1>1. Init => RoomIsServed
  BY DEF Init, RoomIsServed
<1> QED
  BY <1>1, ServedKept, TypeCorrect, PTL DEF Safety

-----------------------------------------------------------------------------
(* A room is saved.                                                        *)

(* A call in flight has a room and a password of its own to save.          *)
SavedInv == RoomIsSaved /\ (InFlight => current \in [room : Rooms, pw : Pws])

LEMMA SavedKept == TypeOK /\ SavedInv /\ [Next]_vars => SavedInv'
<1> SUFFICES ASSUME TypeOK, SavedInv, [Next]_vars PROVE SavedInv'
  OBVIOUS
<1>1. CASE UNCHANGED <<view, current, url, saved, calls>>
  BY <1>1 DEF SavedInv, RoomIsSaved, InFlight, AutoEntry
<1>2. ASSUME NEW c \in [room : Rooms, pw : Pws], Call(c)
      PROVE  InFlight' /\ current' = c
  BY <1>2 DEF Call, InFlight, TypeOK
<1>3. ASSUME NEW c \in [room : Rooms, pw : Pws], EnterRoom(c)
      PROVE  SavedInv'
  BY <1>2, <1>3 DEF EnterRoom, SavedInv, RoomIsSaved
<1>4. ASSUME NEW p \in Pws, Hashed(p)
      PROVE  SavedInv'
  <2>1. current \in [room : Rooms, pw : Pws]
    BY <1>4 DEF Hashed, SavedInv, InFlight
  <2>2. /\ current' = current /\ saved' = current
        /\ url' = Pair(current.room, None)
    BY <1>4 DEF Hashed, SavedSession
  <2>3. current.room # None /\ current.pw # None
    BY <2>1, SessionAssumption
  <2>4. url'.room = current.room /\ url'.pw = None
    BY <2>2 DEF Pair
  <2>5. AutoEntry' = {current}
    BY <2>2, <2>3, <2>4 DEF AutoEntry
  <2> QED
    BY <2>1, <2>2, <2>5 DEF SavedInv, RoomIsSaved
<1>5. CASE LeaveRoom
  <2>1. view' = "lobby" /\ UNCHANGED <<calls, current>>
    BY <1>5 DEF LeaveRoom, ShowLobbyView
  <2> QED
    BY <2>1 DEF SavedInv, RoomIsSaved, InFlight
<1>6. CASE InitApp
  <2>1. CASE ~fresh /\ AutoEntry # {}
    <3>1. PICK c \in AutoEntry :
              IF Accepted(c.pw, master') THEN Call(c) ELSE UNCHANGED <<current, calls>>
      BY <1>6, <2>1 DEF InitApp
    <3>2. UNCHANGED <<view, url, saved>>
      BY <1>6, <2>1 DEF InitApp
    <3>3. CASE Call(c)
      <4>1. c \in [room : Rooms, pw : Pws]
        BY AutoEntryType
      <4> QED
        BY <1>2, <3>3, <4>1 DEF SavedInv, RoomIsSaved
    <3>4. CASE UNCHANGED <<current, calls>>
      BY <1>1, <3>2, <3>4
    <3> QED
      BY <3>1, <3>3, <3>4
  <2>2. CASE ~(~fresh /\ AutoEntry # {})
    <3>1. view' = "lobby" /\ UNCHANGED <<calls, current>>
      BY <1>6, <2>2 DEF InitApp, ShowLobbyView
    <3> QED
      BY <3>1 DEF SavedInv, RoomIsSaved, InFlight
  <2> QED
    BY <2>1, <2>2
<1>7. ASSUME NEW deployed \in BOOLEAN, Load(deployed)
      PROVE  SavedInv'
  BY <1>7 DEF Load, SavedInv, RoomIsSaved, InFlight
<1>8. ASSUME NEW i \in BrokerNrs, TimerFires(i)
      PROVE  SavedInv'
  BY <1>1, <1>8 DEF TimerFires, page
<1>9. ASSUME NEW c \in live, \/ OnConnect(c) \/ OnClose(c) \/ OnError(c)
                             \/ \E t \in c.asked : OnSubscribed(c, t)
      PROVE  SavedInv'
  BY <1>1, <1>9 DEF OnConnect, OnSubscribed, OnClose, OnError, page
<1>10. CASE UNCHANGED vars
  BY <1>1, <1>10 DEF vars, page
<1> QED
  BY <1>3, <1>4, <1>5, <1>6, <1>7, <1>8, <1>9, <1>10 DEF Next, BrokerNrs

(* Storage and address lead back to the room that is shown.                *)
THEOREM RoomsAreSaved == Safety => []RoomIsSaved
<1>1. Init => SavedInv
  BY DEF Init, SavedInv, RoomIsSaved, InFlight
<1>2. SavedInv => RoomIsSaved
  BY DEF SavedInv
<1> QED
  BY <1>1, <1>2, SavedKept, TypeCorrect, PTL DEF Safety

-----------------------------------------------------------------------------
(* One client.                                                             *)

NoTimers == \A i \in BrokerNrs : timers[i] = 0
Lone(c) == /\ c.nr = client /\ c.topic = topic
           /\ c.asked \subseteq {topic} /\ c.subs \subseteq {topic}

(* A client or one timer, never both: each of them becomes the other.      *)
Single ==
    /\ \A c \in live : Lone(c) /\ \A d \in live : d = c
    /\ live # {} => NoTimers
    /\ \A i, j \in BrokerNrs : timers[i] > 0 /\ timers[j] > 0 => i = j /\ timers[i] = 1
Silent == live = {} /\ NoTimers /\ ~announcing /\ ~pruning

OneInv == ~strayed => Single /\ (view = "lobby" => Silent)

(* connectSignaling where there is neither client nor timer.               *)
LEMMA ConnectSingle ==
    ASSUME TypeOK, NEW i \in BrokerNrs, NEW running \in [BrokerNrs -> Nat],
           live = {}, \A j \in BrokerNrs : running[j] = 0,
           NEW t, t = topic', ConnectSignaling(i, t, running)
    PROVE  Single'
<1>1. CASE /\ made' = made + 1 /\ client' = made'
           /\ live' = live \cup {Client(made', i, t)}
           /\ timers' = running
  <2>1. PICK c : c = Client(made', i, t)
    OBVIOUS
  <2>2. c.nr = made' /\ c.topic = t /\ c.asked = {} /\ c.subs = {}
    BY <2>1 DEF Client
  <2>3. live' = {c} /\ client' = made' /\ topic' = t
    BY <1>1, <2>1
  <2>4. \A j \in BrokerNrs : timers'[j] = 0
    BY <1>1
  <2> QED
    BY <2>2, <2>3, <2>4 DEF Single, NoTimers, Lone
<1>2. CASE /\ timers' = [running EXCEPT ![NextBroker(i)] = @ + 1]
           /\ UNCHANGED <<made, client, live>>
  <2>1. \A j \in BrokerNrs :
            timers'[j] = IF j = NextBroker(i) THEN 1 ELSE 0
    BY <1>2, BrokerNumbers
  <2> QED
    BY <1>2, <2>1 DEF Single
<1> QED
  BY <1>1, <1>2 DEF ConnectSignaling

(* Back to the lobby with nothing in flight.                               *)
LEMMA LobbySilent ==
    ASSUME TypeOK, OneInv, ShowLobbyView
    PROVE  OneInv'
<1> SUFFICES ASSUME ~strayed' PROVE (Single /\ Silent)'
  BY DEF OneInv
<1>1. ~strayed /\ ~TimerRuns /\ timers' = timers
  BY DEF ShowLobbyView
<1>2. NoTimers
  BY <1>1 DEF TimerRuns, NoTimers, TypeOK, BrokerNrs
<1>3. live' = {}
  BY <1>1 DEF OneInv, Single, Lone, ShowLobbyView, CleanupConnection, Ended
<1>4. ~announcing' /\ ~pruning'
  BY DEF ShowLobbyView, CleanupConnection
<1> QED
  BY <1>1, <1>2, <1>3, <1>4 DEF Single, Silent, NoTimers

LEMMA OneKept == TypeOK /\ OneInv /\ [Next]_vars => OneInv'
<1> SUFFICES ASSUME TypeOK, OneInv, [Next]_vars PROVE OneInv'
  OBVIOUS
<1>1. CASE UNCHANGED <<view, topic, client, live, timers, announcing, pruning, strayed>>
  BY <1>1 DEF OneInv, Single, Lone, Silent, NoTimers
<1>2. ASSUME NEW i \in BrokerNrs, TimerFires(i), ~strayed
      PROVE  OneInv'
  <2> DEFINE running == [timers EXCEPT ![i] = @ - 1]
  <2>1. timers \in [BrokerNrs -> Nat] /\ timers[i] > 0
    BY <1>2 DEF TimerFires, TypeOK, BrokerNrs
  <2>2. live = {} /\ view # "lobby"
    BY <1>2, <2>1 DEF OneInv, Single, Silent, NoTimers
  <2>3. /\ running \in [BrokerNrs -> Nat]
        /\ \A j \in BrokerNrs : running[j] = 0
    BY <1>2, <2>1 DEF OneInv, Single
  <2>4. ConnectSignaling(i, topic, running) /\ UNCHANGED <<view, topic>>
    BY <1>2 DEF TimerFires, page
  <2> HIDE DEF running
  <2>5. Single'
    BY <2>2, <2>3, <2>4, ConnectSingle
  <2> QED
    BY <2>2, <2>4, <2>5 DEF OneInv
<1>3. ASSUME NEW c \in live, OnConnect(c), ~strayed
      PROVE  OneInv'
  <2>1. /\ Lone(c) /\ live = {c} /\ NoTimers /\ view # "lobby"
    BY <1>3 DEF OneInv, Single, Silent
  <2>2. UNCHANGED <<view, topic, client, timers, strayed>>
    BY <1>3 DEF OnConnect, page
  <2>3. PICK e : e = [c EXCEPT !.up = @ \/ c = c,
                               !.asked = IF c.nr = client THEN @ \cup {c.topic} ELSE @]
    OBVIOUS
  <2>4. /\ e.nr = c.nr /\ e.topic = c.topic /\ e.subs = c.subs
        /\ e.asked \subseteq c.asked \cup {c.topic}
    BY <2>3 DEF TypeOK
  <2>5. live' = {e}
    <3>1. live' = {[d EXCEPT !.up = @ \/ d = c,
                             !.asked = IF d.nr = client THEN @ \cup {c.topic} ELSE @]
                       : d \in {c}}
      BY <1>3, <2>1 DEF OnConnect, Asked
    <3> QED
      BY <2>3, <3>1
  <2>6. Lone(e)'
    BY <2>1, <2>2, <2>4 DEF Lone
  <2> QED
    BY <2>1, <2>2, <2>5, <2>6 DEF OneInv, Single, NoTimers
<1>4. ASSUME NEW c \in live, ~strayed,
             OnClose(c) \/ \E t \in c.asked : OnSubscribed(c, t)
      PROVE  OneInv'
  <2>1. /\ Lone(c) /\ live = {c} /\ NoTimers /\ view # "lobby"
    BY <1>4 DEF OneInv, Single, Silent
  <2>2. UNCHANGED <<view, topic, client, timers, strayed>>
    BY <1>4 DEF OnClose, OnSubscribed, page
  <2>3. PICK e \in ClientType :
            /\ live' = (live \ {c}) \cup {e}
            /\ e.nr = c.nr /\ e.topic = c.topic
            /\ e.asked \subseteq c.asked /\ e.subs \subseteq c.subs \cup c.asked
    BY <1>4, OneChanged
  <2>4. live' = {e}
    BY <2>1, <2>3
  <2>5. Lone(e)'
    BY <2>1, <2>2, <2>3 DEF Lone
  <2> QED
    BY <2>1, <2>2, <2>4, <2>5 DEF OneInv, Single, NoTimers
<1>5. ASSUME NEW c \in live, OnError(c), ~strayed
      PROVE  OneInv'
  <2>1. /\ c.nr = client /\ live = {c} /\ NoTimers /\ view # "lobby"
    BY <1>5 DEF OneInv, Single, Lone, Silent
  <2>2. /\ live' = {} /\ UNCHANGED <<view, topic, client, strayed>>
    BY <1>5, <2>1 DEF OnError, Ended, page
  <2>3. NextBroker(c.broker) \in BrokerNrs
    BY BrokerNumbers DEF TypeOK, BrokerNrs
  <2>4. \A j \in BrokerNrs :
            timers'[j] = IF j = NextBroker(c.broker) THEN 1 ELSE 0
    BY <1>5, <2>1, <2>3 DEF OnError, SetTimer, NoTimers, TypeOK, BrokerNrs
  <2> QED
    BY <2>1, <2>2, <2>4 DEF OneInv, Single
<1>6. ASSUME NEW p \in Pws, Hashed(p), ~strayed, view # "room"
      PROVE  OneInv'
  <2>1. live = {} /\ NoTimers
    BY <1>6 DEF OneInv, Silent, TypeOK
  <2>2. /\ ConnectSignaling(0, Pair(current.room, p), timers)
        /\ topic' = Pair(current.room, p) /\ view' = "room"
    BY <1>6 DEF Hashed
  <2>3. 0 \in BrokerNrs /\ timers \in [BrokerNrs -> Nat]
    BY SessionAssumption DEF TypeOK, BrokerNrs
  <2>4. Single'
    BY <2>1, <2>2, <2>3, ConnectSingle DEF NoTimers
  <2> QED
    BY <2>2, <2>4 DEF OneInv
<1>7. CASE LeaveRoom
  BY <1>7, LobbySilent DEF LeaveRoom
<1>8. CASE InitApp
  <2>1. CASE ~fresh /\ AutoEntry # {}
    BY <1>1, <1>8, <2>1 DEF InitApp
  <2>2. CASE ~(~fresh /\ AutoEntry # {})
    BY <1>8, <2>2, LobbySilent DEF InitApp
  <2> QED
    BY <2>1, <2>2
<1>9. ASSUME NEW deployed \in BOOLEAN, Load(deployed)
      PROVE  OneInv'
  <2>1. NoTimers' /\ live' = {} /\ ~announcing' /\ ~pruning'
    BY <1>9 DEF Load, NoTimers, BrokerNrs
  <2> QED
    BY <2>1 DEF OneInv, Single, Silent, NoTimers
<1>10. ASSUME NEW c \in [room : Rooms, pw : Pws], EnterRoom(c)
       PROVE  OneInv'
  BY <1>1, <1>10 DEF EnterRoom
<1>11. CASE UNCHANGED vars
  BY <1>1, <1>11 DEF vars, page
<1>12. ASSUME strayed,
              \/ \E i \in BrokerNrs : TimerFires(i)
              \/ \E c \in live : \/ OnConnect(c) \/ OnClose(c) \/ OnError(c)
                                 \/ \E t \in c.asked : OnSubscribed(c, t)
       PROVE  OneInv'
  BY <1>12 DEF OneInv, TimerFires, OnConnect, OnSubscribed, OnClose, OnError
<1>13. ASSUME NEW p \in Pws, Hashed(p), strayed \/ view = "room"
       PROVE  OneInv'
  BY <1>13 DEF OneInv, Hashed
<1> QED
  BY <1>2, <1>3, <1>4, <1>5, <1>6, <1>7, <1>8, <1>9, <1>10, <1>11, <1>12, <1>13
     DEF Next, BrokerNrs

LEMMA OneClientInvariant == Safety => []OneInv
<1>1. Init => OneInv
  BY DEF Init, OneInv, Single, Silent, NoTimers, BrokerNrs
<1> QED
  BY <1>1, OneKept, TypeCorrect, PTL DEF Safety

(* One MQTT client at most, in the topic of the room and no other, while   *)
(* rooms are entered one by one and left with nothing in flight.           *)
THEOREM AtMostOneClient == Safety => []OneClient
<1>1. OneInv => OneClient
  <2> SUFFICES ASSUME OneInv, ~strayed
               PROVE  /\ Cardinality(live) <= 1
                      /\ \A c \in live : /\ c.nr = client /\ c.topic = topic
                                        /\ c.subs \subseteq {topic}
    BY DEF OneClient
  <2>1. CASE live = {}
    BY <2>1, FS_EmptySet
  <2>2. ASSUME NEW c \in live
        PROVE  Cardinality(live) <= 1
    <3>1. live = {c}
      BY DEF OneInv, Single
    <3>2. Cardinality({c}) = 1
      BY FS_Singleton
    <3> QED
      BY <3>1, <3>2
  <2> QED
    BY <2>1, <2>2 DEF OneInv, Single, Lone
<1> QED
  BY <1>1, OneClientInvariant, PTL

(* Under the same condition nothing of a room runs on in the lobby.        *)
THEOREM LobbyIsSilent == Safety => []NothingLeftBehind
<1>1. TypeOK /\ OneInv => NothingLeftBehind
  BY DEF OneInv, Silent, NoTimers, NothingLeftBehind, TimerRuns, BrokerNrs
<1> QED
  BY <1>1, OneClientInvariant, TypeCorrect, PTL
=============================================================================
