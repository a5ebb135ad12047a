------------------------- MODULE SignalingHubProofs -------------------------
(***************************************************************************)
(* Proofs about SignalingHub, for any number of connections, rooms and     *)
(* messages: its types, and that the hub never touches a closed channel,   *)
(* never lets a third client into a room, greets before anything else,     *)
(* keeps the order of signals, and tells members who is in their room.     *)
(***************************************************************************)
EXTENDS SignalingHub, FiniteSetTheorems, SequenceTheorems, TLAPS

NewsType == [Clients -> Seq(Messages)]

(* A queue that is clipped keeps its type and, if it has one, its head.    *)
LEMMA ClipKeeps ==
    ASSUME NEW queue \in Seq(Messages)
    PROVE  /\ Clip(queue) \in Seq(Messages)
           /\ queue # <<>> => Clip(queue) # <<>> /\ Clip(queue)[1] = queue[1]
           /\ Len(Clip(queue)) <= SendCap
<1> DEFINE n == IF Len(queue) <= SendCap THEN Len(queue) ELSE SendCap
<1>1. /\ Len(queue) \in Nat
      /\ n \in Nat /\ n <= Len(queue)
      /\ Len(queue) > 0 => n > 0
  BY HubAssumption, LenProperties
<1>2. queue # <<>> => Len(queue) > 0
  BY <1>1, EmptySeq
<1>3. \A i \in 1 .. n : queue[i] \in Messages
  BY <1>1, ElementOfSeq
<1>4. /\ Clip(queue) \in Seq(Messages)
      /\ Len(Clip(queue)) = n
      /\ \A i \in 1 .. n : Clip(queue)[i] = queue[i]
  BY <1>1, <1>3, SubSeqProperties DEF Clip
<1> QED
  BY <1>1, <1>2, <1>4

(* The head of a concatenation. *)
LEMMA ConcatHead ==
    ASSUME NEW q \in Seq(Messages), NEW r \in Seq(Messages)
    PROVE  /\ q # <<>> => q \o r # <<>> /\ (q \o r)[1] = q[1]
           /\ q = <<>> => q \o r = r
<1>1. /\ q \o r \in Seq(Messages)
      /\ Len(q \o r) = Len(q) + Len(r)
      /\ Len(q) \in Nat /\ Len(r) \in Nat
      /\ Len(q) > 0 => (q \o r)[1] = q[1]
  BY ConcatProperties, LenProperties
<1>2. CASE q # <<>>
  <2>1. Len(q) > 0
    BY <1>1, <1>2, EmptySeq
  <2>2. Len(q \o r) # 0
    BY <1>1, <2>1
  <2> QED
    BY <1>1, <1>2, <2>1, <2>2
<1>3. CASE q = <<>>
  BY <1>3, ConcatEmptySeq
<1> QED
  BY <1>2, <1>3

(* Sending what is of the right type keeps the queues in theirs. *)
LEMMA SendAllType ==
    ASSUME Types, NEW news \in NewsType, SendAll(news)
    PROVE  /\ send' \in [Clients -> Seq(Messages)]
           /\ dropped' \subseteq Clients
<1>1. ASSUME NEW c \in Clients
      PROVE  Clip(send[c] \o news[c]) \in Seq(Messages)
  <2>1. send[c] \o news[c] \in Seq(Messages)
    BY ConcatProperties DEF Types, NewsType
  <2> QED
    BY <2>1, ClipKeeps
<1> QED
  BY <1>1 DEF SendAll, Types

(* Notices and signals are messages. *)
LEMMA MessageTypes ==
    ASSUME NEW c \in Clients
    PROVE  /\ \A type \in Notices : Notice(type, c) \in Messages
           /\ \A k \in Nat : Signal(c, k) \in Messages
BY DEF Notice, Signal, Messages

(* What the handlers send is of the right type. *)
LEMMA JoinNewsType ==
    ASSUME Types, NEW c \in Clients
    PROVE  [d \in Clients |-> JoinNews(c, d) \o MateNews(c, d)] \in NewsType
<1>1. ASSUME NEW d \in Clients
      PROVE  JoinNews(c, d) \o MateNews(c, d) \in Seq(Messages)
  <2>1. JoinNews(c, d) \in Seq(Messages)
    BY MessageTypes DEF JoinNews, Notices
  <2>2. MateNews(c, d) \in Seq(Messages)
    <3> DEFINE mates == (Members(c) \cup {c}) \ {d}
               mate == CHOOSE m \in mates : TRUE
    <3>1. CASE d \in Members(c) \cup {c} /\ mates # {}
      <4>1. mate \in mates
        BY <3>1
      <4> HIDE DEF mate
      <4>2. mate \in Clients
        BY <4>1, HubAssumption DEF Members, Types
      <4>3. <<Notice("peer_joined", mate)>> \in Seq(Messages)
        BY <4>2, MessageTypes DEF Notices
      <4> QED
        BY <3>1, <4>3 DEF MateNews, mate
    <3> QED
      BY <3>1 DEF MateNews
  <2> QED
    BY <2>1, <2>2, ConcatProperties
<1> QED
  BY <1>1 DEF NewsType

(* What Leave and Forward send is of the right type. *)
LEMMA LeaveNewsType ==
    ASSUME NEW c \in Clients
    PROVE  [d \in Clients |-> IF d \in Members(c) \ {c}
                              THEN <<Notice("peer_left", c)>> ELSE <<>>] \in NewsType
<1>1. <<Notice("peer_left", c)>> \in Seq(Messages)
  BY MessageTypes DEF Notices
<1> QED
  BY <1>1 DEF NewsType

(* The message Forward takes is one, and so is what it passes on. *)
LEMMA ForwardTypes ==
    ASSUME Types, broadcast # <<>>
    PROVE  LET message == Head(broadcast) IN
           /\ message \in Messages
           /\ Tail(broadcast) \in Seq(Messages)
           /\ [d \in Clients |->
                  IF d \in Members(message.from) /\ IdOf[d] # IdOf[message.from]
                  THEN <<message>> ELSE <<>>] \in NewsType
<1>1. Head(broadcast) \in Messages /\ Tail(broadcast) \in Seq(Messages)
  BY HeadTailProperties DEF Types
<1>2. <<Head(broadcast)>> \in Seq(Messages)
  BY <1>1
<1> QED
  BY <1>1, <1>2 DEF NewsType

(* What a client that is turned away is sent is of the right type. *)
LEMMA FullNewsType ==
    ASSUME NEW c \in Clients
    PROVE  [d \in Clients |-> IF d = c THEN <<Notice("error", c)>> ELSE <<>>] \in NewsType
<1>1. <<Notice("error", c)>> \in Seq(Messages)
  BY MessageTypes DEF Notices
<1> QED
  BY <1>1 DEF NewsType

-----------------------------------------------------------------------------
(* Every step keeps the types. *)
LEMMA TypeStep == Types /\ [Next]_vars => Types'
<1> SUFFICES ASSUME Types, [Next]_vars PROVE Types'
  OBVIOUS
<1>1. CASE Forward
  <2> DEFINE news == [d \in Clients |->
                 IF d \in Members(Head(broadcast).from)
                    /\ IdOf[d] # IdOf[Head(broadcast).from]
                 THEN <<Head(broadcast)>> ELSE <<>>]
  <2>1. news \in NewsType /\ Tail(broadcast) \in Seq(Messages) /\ SendAll(news)
    BY <1>1, ForwardTypes DEF Forward
  <2> HIDE DEF news
  <2>2. send' \in [Clients -> Seq(Messages)] /\ dropped' \subseteq Clients
    BY <2>1, SendAllType
  <2> QED
    BY <1>1, <2>1, <2>2 DEF Forward, Types
<1>2. ASSUME NEW c \in Clients, RegisterFull(c)
      PROVE  Types'
  <2>1. send' \in [Clients -> Seq(Messages)] /\ dropped' \subseteq Clients
    BY <1>2, FullNewsType, SendAllType DEF RegisterFull
  <2> QED
    BY <1>2, <2>1 DEF RegisterFull, Connect, Types
<1>3. ASSUME NEW c \in Clients, Register(c)
      PROVE  Types'
  <2>1. send' \in [Clients -> Seq(Messages)] /\ dropped' \subseteq Clients
    BY <1>3, JoinNewsType, SendAllType DEF Register
  <2> QED
    BY <1>3, <2>1, HubAssumption DEF Register, Connect, Types
<1>4. ASSUME NEW c \in Clients, Unregister(c)
      PROVE  Types'
  <2>1. CASE Leave(c)
    <3>1. send' \in [Clients -> Seq(Messages)] /\ dropped' \subseteq Clients
      BY <2>1, LeaveNewsType, SendAllType DEF Leave
    <3> QED
      BY <1>4, <2>1, <3>1, HubAssumption DEF Unregister, Leave, Types
  <2>2. CASE UNCHANGED <<rooms, shut, send, dropped>>
    BY <1>4, <2>2 DEF Unregister, Types
  <2> QED
    BY <1>4, <2>1, <2>2 DEF Unregister
<1>5. ASSUME NEW c \in Clients, Post(c)
      PROVE  Types'
  <2>1. Append(broadcast, Signal(c, posted[c])) \in Seq(Messages)
    BY MessageTypes, AppendProperties DEF Types
  <2> QED
    BY <1>5, <2>1 DEF Post, Types
<1>6. ASSUME NEW c \in Clients, Write(c)
      PROVE  Types'
  <2>1. /\ Tail(send[c]) \in Seq(Messages)
        /\ Append(taken[c], Head(send[c])) \in Seq(Messages)
    BY <1>6, HeadTailProperties, AppendProperties DEF Write, Types
  <2> QED
    BY <1>6, <2>1 DEF Write, StopWriting, Types
<1>7. ASSUME NEW c \in Clients, Read(c) \/ ReadError(c) \/ LosePeer(c)
      PROVE  Types'
  <2>1. CASE Read(c)
    BY <2>1 DEF Read, Types
  <2>2. CASE ReadError(c)
    BY <2>2 DEF ReadError, Types
  <2>3. CASE LosePeer(c)
    BY <2>3 DEF LosePeer, Types
  <2> QED
    BY <1>7, <2>1, <2>2, <2>3
<1>8. ASSUME NEW c \in Clients, WriteClose(c) \/ PingError(c)
      PROVE  Types'
  BY <1>8 DEF WriteClose, PingError, StopWriting, Types
<1>9. CASE UNCHANGED vars
  BY <1>9 DEF vars, Types
<1> QED
  BY Zenon, <1>1, <1>2, <1>3, <1>4, <1>5, <1>6, <1>7, <1>8, <1>9 DEF Next

(* The initial state has its types. *)
LEMMA TypeInit == Init => Types
<1>1. <<>> \in Seq(Messages)
  BY EmptySeq
<1> QED
  BY <1>1 DEF Init, Types

(* The channels have room for what is in them, and a connection has both   *)
(* its pumps or is yet to come.                                            *)
Bounds ==
    /\ Len(broadcast) <= BroadcastCap
    /\ \A c \in Clients : Len(send[c]) <= SendCap
Pumps(c) ==
    /\ reader[c] = "none" <=> conn[c] = "none"
    /\ writer[c] = "none" <=> conn[c] = "none"

LEMMA SendAllBounded ==
    ASSUME Types, NEW news \in NewsType, SendAll(news)
    PROVE  \A c \in Clients : Len(send'[c]) <= SendCap
<1> SUFFICES ASSUME NEW c \in Clients PROVE Len(send'[c]) <= SendCap
  OBVIOUS
<1>1. send[c] \o news[c] \in Seq(Messages)
  BY ConcatProperties DEF Types, NewsType
<1> QED
  BY <1>1, ClipKeeps DEF SendAll

LEMMA BoundsStep == Types /\ Bounds /\ [Next]_vars => Bounds'
<1> SUFFICES ASSUME Types, Bounds, [Next]_vars PROVE Bounds'
  OBVIOUS
<1> DEFINE Roomy == \A c \in Clients : Len(send'[c]) <= SendCap
<1>1. ASSUME broadcast' = broadcast, Roomy PROVE Bounds'
  BY <1>1 DEF Bounds
<1>2. send' = send => Roomy
  BY DEF Bounds
<1> HIDE DEF Roomy
<1>3. CASE Forward
  <2>1. /\ Head(broadcast) \in Messages
        /\ [d \in Clients |->
               IF d \in Members(Head(broadcast).from)
                  /\ IdOf[d] # IdOf[Head(broadcast).from]
               THEN <<Head(broadcast)>> ELSE <<>>] \in NewsType
    BY <1>3, ForwardTypes DEF Forward
  <2>2. Roomy
    BY <1>3, <2>1, SendAllBounded DEF Forward, Roomy
  <2>3. Len(broadcast') <= BroadcastCap
    <3>1. /\ broadcast \in Seq(Messages) /\ Len(broadcast) <= BroadcastCap
          /\ BroadcastCap \in Nat /\ broadcast # <<>> /\ broadcast' = Tail(broadcast)
      BY <1>3, HubAssumption DEF Forward, Types, Bounds
    <3>2. Len(Tail(broadcast)) = Len(broadcast) - 1 /\ Len(broadcast) \in Nat
      BY <3>1, HeadTailProperties, LenProperties
    <3> QED
      BY <3>1, <3>2
  <2> QED
    BY <2>2, <2>3 DEF Bounds, Roomy
<1>4. ASSUME NEW c \in Clients, RegisterFull(c) PROVE Bounds'
  <2>1. Roomy
    BY <1>4, FullNewsType, SendAllBounded DEF RegisterFull, Roomy
  <2> QED
    BY <1>1, <1>4, <2>1 DEF RegisterFull, Connect
<1>5. ASSUME NEW c \in Clients, Register(c) PROVE Bounds'
  <2>1. Roomy
    BY <1>5, JoinNewsType, SendAllBounded DEF Register, Roomy
  <2> QED
    BY <1>1, <1>5, <2>1 DEF Register, Connect
<1>6. ASSUME NEW c \in Clients, Unregister(c) PROVE Bounds'
  <2>1. CASE Leave(c)
    <3>1. Roomy
      BY <2>1, LeaveNewsType, SendAllBounded DEF Leave, Roomy
    <3> QED
      BY <1>1, <1>6, <3>1 DEF Unregister
  <2>2. CASE UNCHANGED <<rooms, shut, send, dropped>>
    BY <1>1, <1>2, <1>6, <2>2 DEF Unregister
  <2> QED
    BY <1>6, <2>1, <2>2 DEF Unregister
<1>7. ASSUME NEW c \in Clients, Post(c) PROVE Bounds'
  <2>1. Len(broadcast') <= BroadcastCap
    <3>1. /\ broadcast \in Seq(Messages) /\ Signal(c, posted[c]) \in Messages
          /\ BroadcastCap \in Nat /\ Len(broadcast) < BroadcastCap
          /\ broadcast' = Append(broadcast, Signal(c, posted[c]))
      BY <1>7, MessageTypes, HubAssumption DEF Post, Types
    <3>2. Len(broadcast') = Len(broadcast) + 1 /\ Len(broadcast) \in Nat
      BY <3>1, AppendProperties, LenProperties
    <3> QED
      BY <3>1, <3>2
  <2> QED
    BY <1>2, <1>7, <2>1 DEF Post, Bounds, Roomy
<1>8. ASSUME NEW c \in Clients, Write(c) PROVE Bounds'
  <2>1. Roomy
    <3>1. /\ send[c] \in Seq(Messages) /\ send[c] # <<>> /\ SendCap \in Nat
          /\ send' = [send EXCEPT ![c] = Tail(send[c])] /\ DOMAIN send = Clients
      BY <1>8, HubAssumption DEF Write, Types
    <3>2. Len(Tail(send[c])) = Len(send[c]) - 1 /\ Len(send[c]) \in Nat
      BY <3>1, HeadTailProperties, LenProperties
    <3>3. \A d \in Clients : Len(send[d]) <= SendCap
      BY DEF Bounds
    <3> QED
      BY <3>1, <3>2, <3>3 DEF Roomy
  <2> QED
    BY <1>1, <1>8, <2>1 DEF Write
<1>9. ASSUME \/ UNCHANGED vars
             \/ \E c \in Clients : \/ Read(c) \/ ReadError(c) \/ WriteClose(c)
                                   \/ PingError(c) \/ LosePeer(c)
      PROVE  Bounds'
  <2>1. UNCHANGED <<broadcast, send>>
    BY <1>9 DEF vars, Read, ReadError, WriteClose, PingError, LosePeer
  <2> QED
    BY <1>1, <1>2, <2>1
<1> QED
  BY Zenon, <1>3, <1>4, <1>5, <1>6, <1>7, <1>8, <1>9 DEF Next

LEMMA PumpsStep ==
    Types /\ (\A c \in Clients : Pumps(c)) /\ [Next]_vars => \A c \in Clients : Pumps(c)'
<1> SUFFICES ASSUME Types, \A c \in Clients : Pumps(c), [Next]_vars,
                    NEW d \in Clients
             PROVE  Pumps(d)'
  OBVIOUS
<1>1. Pumps(d) /\ DOMAIN reader = Clients /\ DOMAIN writer = Clients /\ DOMAIN conn = Clients
  BY DEF Types
<1>2. ASSUME NEW c \in Clients, RegisterFull(c) \/ Register(c) PROVE Pumps(d)'
  BY <1>1, <1>2 DEF RegisterFull, Register, Connect, Pumps
<1>3. ASSUME NEW c \in Clients, Unregister(c) \/ Write(c) \/ WriteClose(c) \/ PingError(c)
      PROVE  Pumps(d)'
  <2>1. Pumps(c)
    OBVIOUS
  <2> QED
    BY <1>1, <1>3, <2>1 DEF Unregister, Write, WriteClose, PingError, StopWriting, Pumps
<1>4. ASSUME NEW c \in Clients, Read(c) \/ Post(c) \/ ReadError(c) \/ LosePeer(c)
      PROVE  Pumps(d)'
  <2>1. Pumps(c)
    OBVIOUS
  <2> QED
    BY <1>1, <1>4, <2>1 DEF Read, Post, ReadError, LosePeer, Pumps
<1>5. CASE UNCHANGED vars \/ Forward
  BY <1>1, <1>5 DEF vars, Forward, Pumps
<1> QED
  BY Zenon, <1>2, <1>3, <1>4, <1>5 DEF Next

(* The state keeps its types; no channel is asked to hold more than it has *)
(* room for; and no connection is ever left with one pump, for any number  *)
(* of connections and any capacities.                                      *)
THEOREM TypeCorrect == Safety => []TypeOK
<1> DEFINE AllPumps == \A c \in Clients : Pumps(c)
<1>1. Init => Types /\ Bounds /\ AllPumps
  <2>1. Init => Bounds
    BY EmptySeq, HubAssumption DEF Init, Bounds
  <2>2. Init => AllPumps
    BY DEF Init, Pumps
  <2> QED
    BY <2>1, <2>2, TypeInit
<1>2. /\ Types /\ Bounds /\ AllPumps /\ [Next]_vars
      => Types' /\ Bounds' /\ AllPumps'
  BY TypeStep, BoundsStep, PumpsStep
<1>3. Types /\ Bounds /\ AllPumps => TypeOK
  BY DEF TypeOK, Bounds, Pumps
<1> QED
  BY <1>1, <1>2, <1>3, PTL DEF Safety

-----------------------------------------------------------------------------
(* MembersAreLive and RoomsArePairs together, strengthened: a closed Send  *)
(* belongs to a connection whose ReadPump has returned, and only finite    *)
(* rooms have a size.                                                      *)
ShutAreGone == \A c \in shut : reader[c] = "gone"
FiniteRooms == \A r \in Rooms : IsFiniteSet(rooms[r])
RoomInv == MembersAreLive /\ RoomsArePairs /\ ShutAreGone /\ FiniteRooms

(* RoomInv holds initially. *)
LEMMA RoomInit == Init => RoomInv
BY FS_EmptySet, HubAssumption
DEF Init, RoomInv, MembersAreLive, RoomsArePairs, ShutAreGone, FiniteRooms, RoomSize

(* A step that leaves rooms and closed channels alone keeps RoomInv if it  *)
(* neither starts nor ends a ReadPump.                                     *)
LEMMA RoomUnchanged ==
    ASSUME Types, RoomInv, UNCHANGED <<rooms, shut>>,
           \A c \in Clients :
               \/ reader'[c] = reader[c]
               \/ /\ reader[c] \in {"reading", "posting"}
                  /\ reader'[c] \in {"reading", "posting", "unregistering"}
    PROVE  RoomInv'
<1>1. \A r \in Rooms : rooms[r] \subseteq Clients
  BY DEF Types
<1>2. MembersAreLive'
  BY <1>1 DEF RoomInv, MembersAreLive
<1>3. ShutAreGone'
  BY DEF RoomInv, ShutAreGone, Types
<1> QED
  BY <1>2, <1>3 DEF RoomInv, RoomsArePairs, FiniteRooms

(* Every step keeps RoomInv. *)
LEMMA RoomStep == Types /\ RoomInv /\ [Next]_vars => RoomInv'
<1> SUFFICES ASSUME Types, RoomInv, [Next]_vars PROVE RoomInv'
  OBVIOUS
<1>1. CASE Forward
  BY <1>1, RoomUnchanged DEF Forward
<1>2. ASSUME NEW c \in Clients, RegisterFull(c)
      PROVE  RoomInv'
  <2>1. \A r \in Rooms : c \notin rooms[r]
    BY <1>2 DEF RegisterFull, Connect, RoomInv, MembersAreLive
  <2>2. MembersAreLive'
    BY <1>2, <2>1 DEF RegisterFull, Connect, RoomInv, MembersAreLive, Types
  <2>3. ShutAreGone'
    BY <1>2 DEF RegisterFull, Connect, RoomInv, ShutAreGone, Types
  <2> QED
    BY <1>2, <2>2, <2>3 DEF RegisterFull, RoomInv, RoomsArePairs, FiniteRooms, Connect
<1>3. ASSUME NEW c \in Clients, Register(c)
      PROVE  RoomInv'
  <2>1. /\ RoomOf[c] \in Rooms
        /\ reader[c] = "none" /\ reader' = [reader EXCEPT ![c] = "reading"]
        /\ rooms' = [rooms EXCEPT ![RoomOf[c]] = @ \cup {c}]
        /\ shut' = shut
        /\ Cardinality(rooms[RoomOf[c]]) < RoomSize
    BY <1>3, HubAssumption DEF Register, Connect, Members
  <2>2. /\ ShutAreGone'
        /\ c \notin shut
    BY <2>1 DEF RoomInv, ShutAreGone, Types
  <2>3. MembersAreLive'
    BY <2>1, <2>2 DEF RoomInv, MembersAreLive, Types
  <2>4. ASSUME NEW r \in Rooms
        PROVE  IsFiniteSet(rooms'[r]) /\ Cardinality(rooms'[r]) <= RoomSize
    <3>1. CASE r = RoomOf[c]
      <4>1. IsFiniteSet(rooms[r])
        BY DEF RoomInv, FiniteRooms
      <4>2. /\ Cardinality(rooms[r]) \in Nat
            /\ IsFiniteSet(rooms[r] \cup {c})
            /\ \/ Cardinality(rooms[r] \cup {c}) = Cardinality(rooms[r])
               \/ Cardinality(rooms[r] \cup {c}) = Cardinality(rooms[r]) + 1
        BY <4>1, FS_CardinalityType, FS_AddElement
      <4>3. rooms'[r] = rooms[r] \cup {c}
        BY <2>1, <3>1 DEF Types
      <4>4. Cardinality(rooms[r]) < 2
        BY <2>1, <3>1 DEF RoomSize
      <4> QED
        BY <4>2, <4>3, <4>4 DEF RoomSize
    <3>2. CASE r # RoomOf[c]
      BY <2>1, <3>2 DEF RoomInv, RoomsArePairs, FiniteRooms, Types
    <3> QED
      BY <3>1, <3>2
  <2> QED
    BY <2>2, <2>3, <2>4 DEF RoomInv, RoomsArePairs, FiniteRooms
<1>4. ASSUME NEW c \in Clients, Unregister(c)
      PROVE  RoomInv'
  <2>1. reader[c] = "unregistering" /\ reader' = [reader EXCEPT ![c] = "gone"]
    BY <1>4 DEF Unregister
  <2>2. CASE c \in Members(c) /\ Leave(c)
    <3>1. /\ RoomOf[c] \in Rooms
          /\ rooms' = [rooms EXCEPT ![RoomOf[c]] = @ \ {c}]
          /\ shut' = shut \cup {c}
      BY <2>2, HubAssumption DEF Leave
    <3>2. ShutAreGone'
      BY <2>1, <3>1 DEF RoomInv, ShutAreGone, Types
    <3>3. \A r \in Rooms : c \notin rooms'[r] /\ rooms'[r] \subseteq rooms[r]
      BY <3>1 DEF RoomInv, MembersAreLive, Types
    <3>4. MembersAreLive'
      BY <2>1, <3>1, <3>3 DEF RoomInv, MembersAreLive, Types
    <3>5. ASSUME NEW r \in Rooms
          PROVE  IsFiniteSet(rooms'[r]) /\ Cardinality(rooms'[r]) <= RoomSize
      <4>1. IsFiniteSet(rooms[r]) /\ Cardinality(rooms[r]) <= RoomSize
        BY DEF RoomInv, RoomsArePairs, FiniteRooms
      <4>2. /\ IsFiniteSet(rooms'[r])
            /\ Cardinality(rooms'[r]) <= Cardinality(rooms[r])
            /\ Cardinality(rooms'[r]) \in Nat /\ Cardinality(rooms[r]) \in Nat
        BY <4>1, <3>3, FS_Subset, FS_CardinalityType
      <4> QED
        BY <4>1, <4>2 DEF RoomSize
    <3> QED
      BY <3>2, <3>4, <3>5 DEF RoomInv, RoomsArePairs, FiniteRooms
  <2>3. CASE c \notin Members(c) /\ UNCHANGED <<rooms, shut, send, dropped>>
    <3>1. \A r \in Rooms : c \notin rooms[r]
      BY <2>3 DEF RoomInv, MembersAreLive, Members
    <3>2. MembersAreLive' /\ ShutAreGone'
      BY <2>1, <2>3, <3>1 DEF RoomInv, MembersAreLive, ShutAreGone, Types
    <3> QED
      BY <2>3, <3>2 DEF RoomInv, RoomsArePairs, FiniteRooms
  <2> QED
    BY <1>4, <2>2, <2>3 DEF Unregister
<1>5. ASSUME NEW c \in Clients, Read(c) \/ Post(c) \/ ReadError(c)
      PROVE  RoomInv'
  BY <1>5, RoomUnchanged DEF Read, Post, ReadError, Types
<1>6. ASSUME NEW c \in Clients,
             Write(c) \/ WriteClose(c) \/ PingError(c) \/ LosePeer(c)
      PROVE  RoomInv'
  BY <1>6, RoomUnchanged DEF Write, WriteClose, PingError, LosePeer
<1>7. CASE UNCHANGED vars
  BY <1>7, RoomUnchanged DEF vars
<1> QED
  BY Zenon, <1>1, <1>2, <1>3, <1>4, <1>5, <1>6, <1>7 DEF Next

(* RoomInv is an invariant. *)
LEMMA RoomInvariant == Safety => []RoomInv
<1>1. Types /\ RoomInv /\ [Next]_vars => Types' /\ RoomInv'
  BY TypeStep, RoomStep
<1> QED
  BY <1>1, TypeInit, RoomInit, PTL DEF Safety

(* The hub sends to, and closes, open Send channels only: a member of a    *)
(* room is a live connection, however pumps and handlers interleave.       *)
THEOREM MembersStayLive == Safety => []MembersAreLive
<1>1. RoomInv => MembersAreLive
  BY DEF RoomInv
<1> QED
  BY <1>1, RoomInvariant, PTL

(* No room ever holds a third client. *)
THEOREM NoThirdClient == Safety => []RoomsArePairs
<1>1. RoomInv => RoomsArePairs
  BY DEF RoomInv
<1> QED
  BY <1>1, RoomInvariant, PTL

-----------------------------------------------------------------------------
(* GreetedFirst, strengthened: a member has been told something, and a     *)
(* connection that is yet to come nothing.  First(c) is the head of Told(c)*)
(* without the concatenation.                                              *)
Greetings == {"room_status", "error"}
Quiet(c) == taken[c] = <<>> /\ send[c] = <<>>
First(c) == IF taken[c] # <<>> THEN taken[c][1] ELSE send[c][1]
Greeted(c) ==
    /\ Quiet(c) \/ First(c).type \in Greetings
    /\ c \in Members(c) => ~Quiet(c)
    /\ reader[c] = "none" => Quiet(c)
GreetInv == \A c \in Clients : Greeted(c)

(* GreetInv is GreetedFirst in terms of the two halves of Told. *)
LEMMA GreetInvParts == Types /\ GreetInv => GreetedFirst
<1> SUFFICES ASSUME Types, GreetInv, NEW c \in Clients, Told(c) # <<>>
             PROVE  Head(Told(c)).type \in Greetings
  BY DEF GreetedFirst, Greetings
<1>1. /\ taken[c] \in Seq(Messages) /\ send[c] \in Seq(Messages)
      /\ Told(c) = taken[c] \o send[c]
  BY DEF Types, Told
<1>2. CASE taken[c] = <<>>
  <2>1. Told(c) = send[c]
    BY <1>1, <1>2, ConcatEmptySeq
  <2> QED
    BY <1>1, <1>2, <2>1 DEF GreetInv, Greeted, Quiet, First
<1>3. CASE taken[c] # <<>>
  <2>1. Told(c) # <<>> /\ Told(c)[1] = taken[c][1]
    BY <1>1, <1>3, ConcatHead
  <2>2. Told(c) \in Seq(Messages)
    BY <1>1, ConcatProperties
  <2>3. Head(Told(c)) = taken[c][1]
    BY <2>1, <2>2
  <2>4. First(c).type \in Greetings /\ First(c) = taken[c][1]
    BY <1>3 DEF GreetInv, Greeted, Quiet, First
  <2> QED
    BY <2>3, <2>4
<1> QED
  BY <1>2, <1>3

(* Sending goes behind what a client was told; what comes first to one     *)
(* that was told nothing is what it is sent first.                         *)
LEMMA SendAllTells ==
    ASSUME Types, NEW news \in NewsType, SendAll(news), taken' = taken,
           NEW d \in Clients
    PROVE  /\ ~Quiet(d) => ~Quiet(d)' /\ First(d)' = First(d)
           /\ Quiet(d) /\ news[d] = <<>> => Quiet(d)'
           /\ Quiet(d) /\ news[d] # <<>> => ~Quiet(d)' /\ First(d)' = news[d][1]
<1>1. /\ send[d] \in Seq(Messages) /\ news[d] \in Seq(Messages)
      /\ taken[d] \in Seq(Messages)
      /\ send'[d] = Clip(send[d] \o news[d])
  BY DEF Types, NewsType, SendAll
<1>2. send[d] \o news[d] \in Seq(Messages)
  BY <1>1, ConcatProperties
<1>3. /\ send[d] # <<>> => /\ send[d] \o news[d] # <<>>
                           /\ (send[d] \o news[d])[1] = send[d][1]
      /\ send[d] = <<>> => send[d] \o news[d] = news[d]
  BY <1>1, ConcatHead
<1>4. /\ send[d] \o news[d] # <<>> =>
            send'[d] # <<>> /\ send'[d][1] = (send[d] \o news[d])[1]
      /\ send[d] \o news[d] = <<>> => send'[d] = <<>>
  <2> DEFINE queue == send[d] \o news[d]
  <2>1. CASE queue # <<>>
    <3>1. queue \in Seq(Messages) /\ send'[d] = Clip(queue)
      BY <1>1, <1>2
    <3> HIDE DEF queue
    <3>2. send'[d] # <<>> /\ send'[d][1] = queue[1]
      BY <2>1, <3>1, ClipKeeps
    <3> QED
      BY <2>1, <3>2 DEF queue
  <2>2. CASE send[d] \o news[d] = <<>>
    BY <1>1, <2>2, HubAssumption DEF Clip
  <2> QED
    BY <2>1, <2>2
<1> QED
  BY <1>3, <1>4 DEF Quiet, First

(* A connection that stays as it is and is told nothing new stays greeted. *)
LEMMA GreetedSame ==
    ASSUME Types, GreetInv, UNCHANGED <<send, taken, reader>>,
           \A c \in Clients : c \in Members(c)' => c \in Members(c)
    PROVE  GreetInv'
BY DEF GreetInv, Greeted, Quiet, First

(* Members only are sent something, so whoever is sent something was       *)
(* greeted.                                                                *)
LEMMA GreetedMembers ==
    ASSUME Types, GreetInv, NEW news \in NewsType, SendAll(news), taken' = taken,
           \A d \in Clients : news[d] # <<>> => d \in Members(d),
           \A d \in Clients : d \in Members(d)' => d \in Members(d),
           \A d \in Clients : reader'[d] = "none" => reader[d] = "none"
    PROVE  GreetInv'
<1> SUFFICES ASSUME NEW d \in Clients PROVE Greeted(d)'
  BY DEF GreetInv
<1>1. Greeted(d)
  BY DEF GreetInv
<1>2. CASE Quiet(d)
  <2>1. d \notin Members(d) /\ news[d] = <<>>
    BY <1>1, <1>2 DEF Greeted
  <2>2. Quiet(d)'
    BY <1>2, <2>1, SendAllTells
  <2> QED
    BY <2>1, <2>2 DEF Greeted
<1>3. CASE ~Quiet(d)
  <2>1. ~Quiet(d)' /\ First(d)' = First(d)
    BY <1>3, SendAllTells
  <2>2. reader[d] # "none" /\ First(d).type \in Greetings
    BY <1>1, <1>3 DEF Greeted
  <2> QED
    BY <2>1, <2>2 DEF Greeted
<1> QED
  BY <1>2, <1>3

(* A new connection is greeted, and whoever else is sent something was.    *)
LEMMA GreetedNewcomer ==
    ASSUME Types, GreetInv, NEW c \in Clients, NEW news \in NewsType,
           SendAll(news), taken' = taken,
           reader[c] = "none", reader' = [reader EXCEPT ![c] = "reading"],
           news[c] # <<>>, news[c][1].type \in Greetings,
           \A d \in Clients \ {c} : news[d] # <<>> => d \in Members(d),
           \A d \in Clients \ {c} : d \in Members(d)' => d \in Members(d)
    PROVE  GreetInv'
<1> SUFFICES ASSUME NEW d \in Clients PROVE Greeted(d)'
  BY DEF GreetInv
<1>1. Greeted(d)
  BY DEF GreetInv
<1>2. CASE d = c
  <2>1. Quiet(d)
    BY <1>1, <1>2 DEF Greeted
  <2>2. ~Quiet(d)' /\ First(d)'.type \in Greetings
    BY <1>2, <2>1, SendAllTells
  <2>3. reader'[d] # "none"
    BY <1>2 DEF Types
  <2> QED
    BY <2>2, <2>3 DEF Greeted
<1>3. CASE d # c /\ Quiet(d)
  <2>1. d \notin Members(d) /\ news[d] = <<>>
    BY <1>1, <1>3 DEF Greeted
  <2>2. Quiet(d)'
    BY <1>3, <2>1, SendAllTells
  <2>3. d \notin Members(d)'
    BY <1>3, <2>1
  <2> QED
    BY <2>2, <2>3 DEF Greeted
<1>4. CASE d # c /\ ~Quiet(d)
  <2>1. ~Quiet(d)' /\ First(d)' = First(d)
    BY <1>4, SendAllTells
  <2>2. reader'[d] # "none" /\ First(d).type \in Greetings
    BY <1>1, <1>4 DEF Greeted, Types
  <2> QED
    BY <2>1, <2>2 DEF Greeted
<1> QED
  BY <1>2, <1>3, <1>4

(* Every step keeps GreetInv. *)
LEMMA GreetStep == Types /\ RoomInv /\ GreetInv /\ [Next]_vars => GreetInv'
<1> SUFFICES ASSUME Types, RoomInv, GreetInv, [Next]_vars PROVE GreetInv'
  OBVIOUS
<1>1. ASSUME NEW c \in Clients, NEW d \in Members(c)
      PROVE  d \in Clients /\ Members(d) = Members(c)
  BY HubAssumption DEF RoomInv, MembersAreLive, Members, Types
<1>2. CASE Forward
  <2> DEFINE news == [d \in Clients |->
                 IF d \in Members(Head(broadcast).from)
                    /\ IdOf[d] # IdOf[Head(broadcast).from]
                 THEN <<Head(broadcast)>> ELSE <<>>]
  <2>1. /\ news \in NewsType /\ SendAll(news)
        /\ Head(broadcast) \in Messages
    BY <1>2, ForwardTypes DEF Forward
  <2>2. \A d \in Clients : news[d] # <<>> => d \in Members(d)
    BY <2>1, <1>1 DEF Messages
  <2>3. UNCHANGED <<rooms, reader, taken>>
    BY <1>2 DEF Forward
  <2>4. \A d \in Clients : d \in Members(d)' => d \in Members(d)
    BY <2>3 DEF Members
  <2> HIDE DEF news
  <2> QED
    BY <2>1, <2>2, <2>3, <2>4, GreetedMembers
<1>3. ASSUME NEW c \in Clients, RegisterFull(c)
      PROVE  GreetInv'
  <2> DEFINE news == [d \in Clients |-> IF d = c THEN <<Notice("error", c)>> ELSE <<>>]
  <2>1. news \in NewsType /\ SendAll(news)
    BY <1>3, FullNewsType DEF RegisterFull
  <2>2. /\ news[c] # <<>> /\ news[c][1].type \in Greetings
        /\ \A d \in Clients \ {c} : news[d] = <<>>
    BY DEF Notice, Greetings
  <2>3. /\ reader[c] = "none" /\ reader' = [reader EXCEPT ![c] = "reading"]
        /\ UNCHANGED <<taken, rooms>>
    BY <1>3 DEF RegisterFull, Connect
  <2>4. \A d \in Clients : d \in Members(d)' => d \in Members(d)
    BY <2>3 DEF Members
  <2> HIDE DEF news
  <2> QED
    BY <2>1, <2>2, <2>3, <2>4, GreetedNewcomer
<1>4. ASSUME NEW c \in Clients, Register(c)
      PROVE  GreetInv'
  <2> DEFINE news == [d \in Clients |-> JoinNews(c, d) \o MateNews(c, d)]
  <2>1. news \in NewsType /\ SendAll(news)
    BY <1>4, JoinNewsType DEF Register
  <2>2. /\ reader[c] = "none" /\ reader' = [reader EXCEPT ![c] = "reading"]
        /\ taken' = taken
        /\ rooms' = [rooms EXCEPT ![RoomOf[c]] = @ \cup {c}]
    BY <1>4 DEF Register, Connect
  <2>3. news[c] # <<>> /\ news[c][1].type \in Greetings
    <3>1. JoinNews(c, c) = <<Notice("room_status", c)>>
      BY DEF JoinNews
    <3>2. MateNews(c, c) = <<>> \/ \E m : MateNews(c, c) = <<Notice("peer_joined", m)>>
      BY DEF MateNews
    <3>3. /\ JoinNews(c, c) \o MateNews(c, c) # <<>>
          /\ (JoinNews(c, c) \o MateNews(c, c))[1] = Notice("room_status", c)
      BY <3>1, <3>2
    <3> QED
      BY <3>3 DEF Notice, Greetings
  <2>4. ASSUME NEW d \in Clients \ {c}, news[d] # <<>>
        PROVE  d \in Members(d)
    <3>1. JoinNews(c, d) = <<>>
      BY DEF JoinNews
    <3>2. d \notin Members(c) => MateNews(c, d) = <<>>
      BY DEF MateNews
    <3>3. d \notin Members(c) => news[d] = <<>>
      BY <3>1, <3>2
    <3> QED
      BY <2>4, <3>3, <1>1
  <2>5. \A d \in Clients \ {c} : d \in Members(d)' => d \in Members(d)
    BY <2>2 DEF Members, Types
  <2> HIDE DEF news
  <2> QED
    BY <2>1, <2>2, <2>3, <2>4, <2>5, GreetedNewcomer
<1>5. ASSUME NEW c \in Clients, Unregister(c)
      PROVE  GreetInv'
  <2>1. reader' = [reader EXCEPT ![c] = "gone"] /\ taken' = taken
    BY <1>5 DEF Unregister
  <2>2. \A d \in Clients : reader'[d] = "none" => reader[d] = "none"
    BY <2>1 DEF Types
  <2>3. CASE Leave(c)
    <3> DEFINE news == [d \in Clients |-> IF d \in Members(c) \ {c}
                                         THEN <<Notice("peer_left", c)>> ELSE <<>>]
    <3>1. news \in NewsType /\ SendAll(news)
      BY <2>3, LeaveNewsType DEF Leave
    <3>2. \A d \in Clients : news[d] # <<>> => d \in Members(d)
      BY <1>1
    <3>3. \A d \in Clients : d \in Members(d)' => d \in Members(d)
      BY <2>3, HubAssumption DEF Leave, Members, Types
    <3> HIDE DEF news
    <3> QED
      BY <2>1, <2>2, <3>1, <3>2, <3>3, GreetedMembers
  <2>4. CASE UNCHANGED <<rooms, shut, send, dropped>>
    BY <2>1, <2>2, <2>4 DEF GreetInv, Greeted, Quiet, First, Members
  <2> QED
    BY <1>5, <2>3, <2>4 DEF Unregister
<1>6. ASSUME NEW c \in Clients, Write(c)
      PROVE  GreetInv'
  <2>1. /\ send[c] \in Seq(Messages) /\ send[c] # <<>>
        /\ taken[c] \in Seq(Messages)
        /\ send' = [send EXCEPT ![c] = Tail(@)]
        /\ taken' = [taken EXCEPT ![c] = Append(@, Head(send[c]))]
        /\ UNCHANGED <<rooms, reader>>
    BY <1>6 DEF Write, Types
  <2>2. /\ taken'[c] = Append(taken[c], Head(send[c]))
        /\ taken'[c] # <<>>
        /\ taken'[c][1] = IF taken[c] = <<>> THEN send[c][1] ELSE taken[c][1]
    BY <2>1 DEF Types
  <2>3. First(c)' = First(c) /\ ~Quiet(c)' /\ ~Quiet(c)
    BY <2>1, <2>2 DEF First, Quiet
  <2>4. \A d \in Clients \ {c} : taken'[d] = taken[d] /\ send'[d] = send[d]
    BY <2>1 DEF Types
  <2> QED
    BY <2>1, <2>3, <2>4 DEF GreetInv, Greeted, Members, Quiet, First
<1>7. ASSUME NEW c \in Clients, Read(c) \/ Post(c) \/ ReadError(c)
      PROVE  GreetInv'
  <2>1. /\ UNCHANGED <<rooms, send, taken>>
        /\ \A d \in Clients : reader'[d] = "none" => reader[d] = "none"
    BY <1>7 DEF Read, Post, ReadError, Types
  <2> QED
    BY <2>1 DEF GreetInv, Greeted, Quiet, First, Members
<1>8. ASSUME NEW c \in Clients, WriteClose(c) \/ PingError(c) \/ LosePeer(c)
      PROVE  GreetInv'
  BY <1>8, GreetedSame DEF WriteClose, PingError, LosePeer, Members
<1>9. CASE UNCHANGED vars
  BY <1>9, GreetedSame DEF vars, Members
<1> QED
  BY Zenon, <1>2, <1>3, <1>4, <1>5, <1>6, <1>7, <1>8, <1>9 DEF Next

(* Whatever a client hears first is room_status or error. *)
THEOREM GreetingComesFirst == Safety => []GreetedFirst
<1>1. Init => GreetInv
  BY HubAssumption DEF Init, GreetInv, Greeted, Quiet, Members
<1>2. Types /\ RoomInv /\ GreetInv /\ [Next]_vars => Types' /\ RoomInv' /\ GreetInv'
  BY TypeStep, RoomStep, GreetStep
<1>3. Types /\ GreetInv => GreetedFirst
  BY GreetInvParts
<1> QED
  BY <1>1, <1>2, <1>3, TypeInit, RoomInit, PTL DEF Safety

-----------------------------------------------------------------------------
(* What a client was told grows at its end only.                           *)

Prefix(s, t) == Len(s) <= Len(t) /\ \A i \in 1 .. Len(s) : s[i] = t[i]

LEMMA ToldType ==
    ASSUME Types, NEW c \in Clients
    PROVE  Told(c) \in Seq(Messages)
BY ConcatProperties DEF Types, Told

(* A queue and what is clipped of it.                                      *)
LEMMA ClipPrefix ==
    ASSUME NEW queue \in Seq(Messages)
    PROVE  /\ Clip(queue) \in Seq(Messages)
           /\ Prefix(Clip(queue), queue)
           /\ Len(queue) <= SendCap => Clip(queue) = queue
<1> DEFINE n == IF Len(queue) <= SendCap THEN Len(queue) ELSE SendCap
<1>1. /\ Len(queue) \in Nat
      /\ n \in Nat /\ n <= Len(queue)
  BY HubAssumption, LenProperties
<1>2. \A i \in 1 .. n : queue[i] \in Messages
  BY <1>1, ElementOfSeq
<1>3. /\ Clip(queue) \in Seq(Messages)
      /\ Len(Clip(queue)) = n
      /\ \A i \in 1 .. n : Clip(queue)[i] = queue[i]
  BY <1>1, <1>2, SubSeqProperties DEF Clip
<1>4. Len(queue) <= SendCap => Clip(queue) = queue
  BY SubSeqFull DEF Clip
<1> QED
  BY <1>1, <1>3, <1>4 DEF Prefix

(* What comes behind the same sequence keeps a prefix a prefix.            *)
LEMMA PrefixBehind ==
    ASSUME NEW t \in Seq(Messages), NEW q \in Seq(Messages), NEW r \in Seq(Messages),
           Prefix(q, r)
    PROVE  Prefix(t \o q, t \o r)
<1> DEFINE tq == t \o q
           tr == t \o r
<1>1. Len(t) \in Nat /\ Len(q) \in Nat /\ Len(r) \in Nat
  BY LenProperties
<1>2. /\ Len(tq) = Len(t) + Len(q)
      /\ \A i \in 1 .. Len(t) + Len(q) :
            tq[i] = IF i <= Len(t) THEN t[i] ELSE q[i - Len(t)]
  BY ConcatProperties
<1>3. /\ Len(tr) = Len(t) + Len(r)
      /\ \A i \in 1 .. Len(t) + Len(r) :
            tr[i] = IF i <= Len(t) THEN t[i] ELSE r[i - Len(t)]
  BY ConcatProperties
<1> HIDE DEF tq, tr
<1>4. ASSUME NEW i \in 1 .. Len(tq) PROVE tq[i] = tr[i]
  <2>1. i \in 1 .. Len(t) + Len(q) /\ i \in 1 .. Len(t) + Len(r)
    BY <1>1, <1>2 DEF Prefix
  <2>2. CASE i <= Len(t)
    BY <1>2, <1>3, <2>1, <2>2
  <2>3. CASE ~(i <= Len(t))
    <3>1. i - Len(t) \in 1 .. Len(q)
      BY <1>1, <2>1, <2>3
    <3>2. q[i - Len(t)] = r[i - Len(t)]
      BY <3>1 DEF Prefix
    <3> QED
      BY <1>2, <1>3, <2>1, <2>3, <3>2
  <2> QED
    BY <2>2, <2>3
<1>5. Len(tq) <= Len(tr)
  BY <1>1, <1>2, <1>3 DEF Prefix
<1> QED
  BY <1>4, <1>5 DEF Prefix, tq, tr

LEMMA ThreeParts ==
    ASSUME NEW t \in Seq(Messages), NEW q \in Seq(Messages), NEW r \in Seq(Messages)
    PROVE  (t \o q) \o r = t \o (q \o r)
BY ConcatAssociative

(* SendJSON goes behind, if anything arrives, and all of it does for a     *)
(* client that missed nothing.                                             *)
LEMMA SendAllBehind ==
    ASSUME Types, NEW news \in NewsType, SendAll(news), taken' = taken,
           NEW d \in Clients
    PROVE  /\ Told(d)' \in Seq(Messages)
           /\ Told(d) \o news[d] \in Seq(Messages)
           /\ Prefix(Told(d)', Told(d) \o news[d])
           /\ d \notin dropped' => Told(d)' = Told(d) \o news[d]
<1>1. /\ taken[d] \in Seq(Messages) /\ send[d] \in Seq(Messages)
      /\ news[d] \in Seq(Messages)
  BY DEF Types, NewsType
<1> DEFINE queue == send[d] \o news[d]
<1>2. /\ queue \in Seq(Messages)
      /\ Len(queue) = Len(send[d]) + Len(news[d])
  BY <1>1, ConcatProperties
<1>3. Told(d)' = taken[d] \o Clip(queue)
  BY DEF Told, SendAll
<1>4. Told(d) \o news[d] = taken[d] \o queue
  <2>1. (taken[d] \o send[d]) \o news[d] = taken[d] \o (send[d] \o news[d])
    BY <1>1, ThreeParts, Zenon
  <2> QED
    BY <2>1 DEF Told
<1>5. d \notin dropped' => Len(queue) <= SendCap
  <2>1. d \notin dropped' => ~(Len(send[d]) + Len(news[d]) > SendCap)
    BY DEF SendAll
  <2>2. Len(send[d]) \in Nat /\ Len(news[d]) \in Nat /\ SendCap \in Nat
    BY <1>1, LenProperties, HubAssumption
  <2>3. ASSUME NEW a \in Nat, NEW b \in Nat, NEW e \in Nat, ~(a + b > e)
        PROVE  a + b <= e
    BY <2>3
  <2>4. ~(Len(send[d]) + Len(news[d]) > SendCap) => Len(send[d]) + Len(news[d]) <= SendCap
    BY <2>2, <2>3
  <2> HIDE DEF queue
  <2> QED
    BY <1>2, <2>1, <2>4, Zenon
<1> HIDE DEF queue
<1>6. /\ Clip(queue) \in Seq(Messages)
      /\ Prefix(Clip(queue), queue)
      /\ Len(queue) <= SendCap => Clip(queue) = queue
  BY <1>2, ClipPrefix
<1>7. /\ taken[d] \o Clip(queue) \in Seq(Messages)
      /\ taken[d] \o queue \in Seq(Messages)
  BY <1>1, <1>2, <1>6, ConcatProperties
<1>8. Prefix(taken[d] \o Clip(queue), taken[d] \o queue)
  BY <1>1, <1>2, <1>6, PrefixBehind
<1> QED
  BY <1>3, <1>4, <1>5, <1>6, <1>7, <1>8

(* WritePump moves a message from what a client will be told to what it    *)
(* was told.                                                               *)
LEMMA WriteTells ==
    ASSUME Types, NEW c \in Clients, Write(c), NEW d \in Clients
    PROVE  Told(d)' = Told(d)
<1>1. CASE d # c
  BY <1>1 DEF Write, Told, Types
<1>2. CASE d = c
  <2> DEFINE t == taken[c]
             s == send[c]
             h == Head(s)
  <2>1. t \in Seq(Messages) /\ s \in Seq(Messages) /\ s # <<>>
    BY DEF Types, Write
  <2>2. Told(d)' = Append(t, h) \o Tail(s) /\ Told(d) = t \o s
    BY <1>2 DEF Write, Told, Types
  <2> HIDE DEF t, s
  <2>3. /\ h \in Messages /\ Tail(s) \in Seq(Messages)
        /\ Len(Tail(s)) = Len(s) - 1
        /\ \A i \in 1 .. Len(Tail(s)) : Tail(s)[i] = s[i + 1]
    BY <2>1, HeadTailProperties
  <2>4. h = s[1] /\ Len(s) \in Nat /\ Len(s) > 0
    BY <2>1, EmptySeq, LenProperties
  <2> HIDE DEF h
  <2>5. <<h>> \in Seq(Messages) /\ Len(<<h>>) = 1 /\ <<h>>[1] = h
    BY <2>3
  <2>6. <<h>> \o Tail(s) = s
    <3> DEFINE u == <<h>> \o Tail(s)
    <3>1. /\ u \in Seq(Messages) /\ Len(u) = 1 + Len(Tail(s))
          /\ \A i \in 1 .. 1 + Len(Tail(s)) :
                u[i] = IF i <= 1 THEN <<h>>[i] ELSE Tail(s)[i - 1]
      BY <2>3, <2>5, ConcatProperties
    <3> HIDE DEF u
    <3>2. Len(u) = Len(s)
      BY <2>3, <2>4, <3>1
    <3>3. ASSUME NEW i \in 1 .. Len(u) PROVE u[i] = s[i]
      <4>1. CASE i = 1
        BY <2>3, <2>4, <2>5, <3>1, <4>1
      <4>2. CASE i # 1
        <5>1. /\ i - 1 \in 1 .. Len(Tail(s)) /\ i \in 1 .. 1 + Len(Tail(s))
              /\ ~(i <= 1) /\ i - 1 + 1 = i
          BY <2>3, <2>4, <3>2, <4>2
        <5>2. u[i] = Tail(s)[i - 1] /\ Tail(s)[i - 1] = s[i - 1 + 1]
          BY <2>3, <3>1, <5>1
        <5> QED
          BY <5>1, <5>2
      <4> QED
        BY <4>1, <4>2
    <3>4. u = s
      BY <2>1, <3>1, <3>2, <3>3, SeqEqual
    <3> QED
      BY <3>4 DEF u
  <2>7. Append(t, h) = t \o <<h>>
    BY <2>1, <2>3, AppendIsConcat
  <2>8. (t \o <<h>>) \o Tail(s) = t \o (<<h>> \o Tail(s))
    BY <2>1, <2>3, <2>5, ConcatAssociative
  <2> QED
    BY <2>2, <2>6, <2>7, <2>8
<1> QED
  BY <1>1, <1>2

-----------------------------------------------------------------------------
(* SignalsInOrder, strengthened over the whole way of a signal: what a     *)
(* client was told, then Broadcast, then what its sender has yet to post.  *)
Later(m, n) ==
    m.type = "signal" /\ n.type = "signal" /\ m.from = n.from => m.nr < n.nr
InOrder(s) == \A i, j \in 1 .. Len(s) : i < j => Later(s[i], s[j])
Ahead(s, t) == \A i \in 1 .. Len(s), j \in 1 .. Len(t) : Later(s[i], t[j])

IsSent(m) ==
    m.type = "signal" =>
        /\ m.nr <= posted[m.from]
        /\ reader[m.from] = "posting" => m.nr < posted[m.from]
AllSent(s) == \A i \in 1 .. Len(s) : IsSent(s[i])

OrderInBroadcast ==
    /\ \A i \in 1 .. Len(broadcast) : broadcast[i].type = "signal"
    /\ InOrder(broadcast) /\ AllSent(broadcast)
OrderFor(c) == InOrder(Told(c)) /\ AllSent(Told(c)) /\ Ahead(Told(c), broadcast)
OrderInv == OrderInBroadcast /\ \A c \in Clients : OrderFor(c)

(* Two queues in order, the one ahead of the other, are one in order, and  *)
(* ahead of whatever both are ahead of.                                    *)
LEMMA OrderConcat ==
    ASSUME NEW s \in Seq(Messages), NEW t \in Seq(Messages)
    PROVE  /\ InOrder(s) /\ InOrder(t) /\ Ahead(s, t) => InOrder(s \o t)
           /\ \A u \in Seq(Messages) :
                 /\ Ahead(s, u) /\ Ahead(t, u) => Ahead(s \o t, u)
                 /\ Ahead(u, s) /\ Ahead(u, t) => Ahead(u, s \o t)
<1> DEFINE st == s \o t
<1>1. /\ Len(s) \in Nat /\ Len(t) \in Nat
      /\ Len(st) = Len(s) + Len(t)
      /\ \A i \in 1 .. Len(s) + Len(t) :
            st[i] = IF i <= Len(s) THEN s[i] ELSE t[i - Len(s)]
  BY ConcatProperties, LenProperties
<1> HIDE DEF st
<1>2. ASSUME NEW i \in 1 .. Len(st)
      PROVE  \/ i \in 1 .. Len(s) /\ st[i] = s[i]
             \/ i - Len(s) \in 1 .. Len(t) /\ st[i] = t[i - Len(s)] /\ i > Len(s)
  BY <1>1
<1>3. ASSUME InOrder(s), InOrder(t), Ahead(s, t),
             NEW i \in 1 .. Len(st), NEW j \in 1 .. Len(st), i < j
      PROVE  Later(st[i], st[j])
  <2>1. CASE i \in 1 .. Len(s) /\ st[i] = s[i]
    <3>1. CASE j \in 1 .. Len(s) /\ st[j] = s[j]
      BY <1>3, <2>1, <3>1 DEF InOrder
    <3>2. CASE j - Len(s) \in 1 .. Len(t) /\ st[j] = t[j - Len(s)]
      BY <1>3, <2>1, <3>2 DEF Ahead
    <3> QED
      BY <1>2, <3>1, <3>2
  <2>2. CASE i - Len(s) \in 1 .. Len(t) /\ st[i] = t[i - Len(s)] /\ i > Len(s)
    <3>1. j - Len(s) \in 1 .. Len(t) /\ st[j] = t[j - Len(s)]
      BY <1>1, <1>2, <1>3, <2>2
    <3>2. i - Len(s) < j - Len(s)
      BY <1>1, <1>3
    <3> QED
      BY <1>3, <2>2, <3>1, <3>2 DEF InOrder
  <2> QED
    BY <1>2, <2>1, <2>2
<1>4. ASSUME NEW u \in Seq(Messages)
      PROVE  /\ Ahead(s, u) /\ Ahead(t, u) => Ahead(st, u)
             /\ Ahead(u, s) /\ Ahead(u, t) => Ahead(u, st)
  BY <1>2 DEF Ahead
<1>5. InOrder(s) /\ InOrder(t) /\ Ahead(s, t) => InOrder(st)
  BY <1>3 DEF InOrder
<1> QED
  BY <1>4, <1>5 DEF st

(* A prefix is in order if the whole is, and ahead of what the whole is    *)
(* ahead of.                                                               *)
LEMMA OrderPrefix ==
    ASSUME NEW s \in Seq(Messages), NEW t \in Seq(Messages), Prefix(s, t)
    PROVE  /\ InOrder(t) => InOrder(s)
           /\ AllSent(t) => AllSent(s)
           /\ \A u \in Seq(Messages) : Ahead(t, u) => Ahead(s, u)
<1>1. Len(s) \in Nat /\ Len(t) \in Nat /\ Len(s) <= Len(t)
  BY LenProperties DEF Prefix
<1>2. \A i \in 1 .. Len(s) : i \in 1 .. Len(t) /\ s[i] = t[i]
  BY <1>1 DEF Prefix
<1> QED
  BY <1>2 DEF InOrder, Ahead, AllSent

(* Two queues of sent messages are one.                                    *)
LEMMA SentConcat ==
    ASSUME NEW s \in Seq(Messages), NEW t \in Seq(Messages), AllSent(s), AllSent(t)
    PROVE  AllSent(s \o t)
<1> DEFINE st == s \o t
<1>1. /\ Len(s) \in Nat /\ Len(t) \in Nat
      /\ Len(st) = Len(s) + Len(t)
      /\ \A i \in 1 .. Len(s) + Len(t) :
            st[i] = IF i <= Len(s) THEN s[i] ELSE t[i - Len(s)]
  BY ConcatProperties, LenProperties
<1> HIDE DEF st
<1>2. ASSUME NEW i \in 1 .. Len(st)
      PROVE  IsSent(st[i])
  <2>1. CASE i <= Len(s)
    BY <1>1, <2>1 DEF AllSent
  <2>2. CASE ~(i <= Len(s))
    <3>1. i - Len(s) \in 1 .. Len(t) /\ st[i] = t[i - Len(s)]
      BY <1>1, <2>2
    <3> QED
      BY <3>1 DEF AllSent
  <2> QED
    BY <2>1, <2>2
<1> QED
  BY <1>2 DEF AllSent, st

(* A message that is sent stays so.                                        *)
LEMMA SentKept ==
    ASSUME Types, [Next]_vars, NEW m \in Messages, IsSent(m)
    PROVE  IsSent(m)'
<1> SUFFICES ASSUME m.type = "signal" PROVE IsSent(m)'
  BY DEF IsSent
<1> DEFINE f == m.from
<1>1. f \in Clients /\ m.nr \in Nat
  BY DEF Messages
<1> HIDE DEF f
<1>2. posted[f] \in Nat
  BY <1>1 DEF Types
<1> DEFINE Counted ==
        \/ posted'[f] = posted[f] /\ (reader'[f] = "posting" => reader[f] = "posting")
        \/ posted'[f] = posted[f] + 1
<1>3. Counted
  <2>1. ASSUME NEW c \in Clients, Read(c)
        PROVE  Counted
    BY <1>1, <2>1 DEF Read, Types
  <2>2. ASSUME NEW c \in Clients, RegisterFull(c) \/ Register(c) \/ Unregister(c)
        PROVE  Counted
    BY <1>1, <2>2 DEF RegisterFull, Register, Unregister, Connect, Types
  <2>3. ASSUME NEW c \in Clients, Post(c) \/ ReadError(c)
        PROVE  Counted
    BY <1>1, <2>3 DEF Post, ReadError, Types
  <2>4. ASSUME NEW c \in Clients, Write(c) \/ WriteClose(c) \/ PingError(c) \/ LosePeer(c)
        PROVE  Counted
    BY <2>4 DEF Write, WriteClose, PingError, LosePeer
  <2>5. CASE Forward \/ UNCHANGED vars
    BY <2>5 DEF Forward, vars
  <2> QED
    BY Zenon, <2>1, <2>2, <2>3, <2>4, <2>5 DEF Next
<1> QED
  BY <1>1, <1>2, <1>3 DEF IsSent, f

LEMMA AllSentKept ==
    ASSUME Types, [Next]_vars, NEW s \in Seq(Messages), AllSent(s)
    PROVE  AllSent(s)'
<1>1. \A i \in 1 .. Len(s) : s[i] \in Messages
  BY ElementOfSeq, LenProperties
<1> QED
  BY <1>1, SentKept DEF AllSent

(* A client that is told something behind what it was told.                *)
LEMMA OrderNews ==
    ASSUME Types, [Next]_vars, NEW news \in NewsType, SendAll(news), taken' = taken,
           NEW d \in Clients, OrderFor(d), broadcast' \in Seq(Messages),
           InOrder(news[d]), AllSent(news[d]), Ahead(Told(d), news[d]),
           Ahead(Told(d), broadcast'), Ahead(news[d], broadcast')
    PROVE  OrderFor(d)'
<1>1. PICK told \in Seq(Messages) : told = Told(d)
  BY ToldType
<1>2. PICK more \in Seq(Messages) : more = news[d]
  BY DEF NewsType
<1>3. PICK later \in Seq(Messages) : later = Told(d)'
  BY SendAllBehind
<1>4. told \o more \in Seq(Messages) /\ Prefix(later, told \o more)
  BY <1>1, <1>2, <1>3, SendAllBehind
<1>5. /\ InOrder(told) /\ InOrder(more) /\ Ahead(told, more)
      /\ AllSent(told) /\ AllSent(more)
      /\ Ahead(told, broadcast') /\ Ahead(more, broadcast')
  BY <1>1, <1>2 DEF OrderFor
<1>6. InOrder(told \o more) /\ Ahead(told \o more, broadcast')
  BY <1>5, OrderConcat
<1>7. AllSent(told \o more)
  BY <1>5, SentConcat
<1>8. InOrder(later) /\ AllSent(later) /\ Ahead(later, broadcast')
  BY <1>4, <1>6, <1>7, OrderPrefix
<1>9. AllSent(later)'
  BY <1>8, AllSentKept
<1> QED
  BY <1>3, <1>8, <1>9 DEF OrderFor

(* A client that is told nothing.                                          *)
LEMMA OrderSilence ==
    ASSUME Types, [Next]_vars, NEW d \in Clients, OrderFor(d),
           Told(d)' = Told(d), Ahead(Told(d), broadcast')
    PROVE  OrderFor(d)'
<1>1. PICK told \in Seq(Messages) : told = Told(d)
  BY ToldType
<1>2. AllSent(told)'
  BY <1>1, AllSentKept DEF OrderFor
<1> QED
  BY <1>1, <1>2 DEF OrderFor

(* Signals that wait in Broadcast stay as they are.                        *)
LEMMA OrderWaiting ==
    ASSUME Types, [Next]_vars, OrderInBroadcast, broadcast' = broadcast
    PROVE  OrderInBroadcast'
<1>1. PICK queue \in Seq(Messages) : queue = broadcast
  BY DEF Types
<1>2. AllSent(queue)'
  BY <1>1, AllSentKept DEF OrderInBroadcast
<1> QED
  BY <1>1, <1>2 DEF OrderInBroadcast

(* Notices are in order with everything.                                   *)
LEMMA OrderNotices ==
    ASSUME NEW s \in Seq(Messages), \A i \in 1 .. Len(s) : s[i].type # "signal"
    PROVE  /\ InOrder(s) /\ AllSent(s)
           /\ \A t \in Seq(Messages) : Ahead(s, t) /\ Ahead(t, s)
BY DEF InOrder, AllSent, IsSent, Ahead, Later

(* A handler that sends notices only.                                      *)
LEMMA OrderNoticesSent ==
    ASSUME Types, OrderInv, [Next]_vars, NEW news \in NewsType, SendAll(news),
           UNCHANGED <<taken, broadcast>>,
           \A d \in Clients : \A i \in 1 .. Len(news[d]) : news[d][i].type # "signal"
    PROVE  OrderInv'
<1>1. OrderInBroadcast'
  BY OrderWaiting DEF OrderInv
<1>2. ASSUME NEW d \in Clients
      PROVE  OrderFor(d)'
  <2>1. OrderFor(d)
    BY DEF OrderInv
  <2>2. broadcast' \in Seq(Messages) /\ Told(d) \in Seq(Messages)
    BY ToldType DEF Types
  <2>3. news[d] \in Seq(Messages)
    BY DEF NewsType
  <2>4. /\ InOrder(news[d]) /\ AllSent(news[d])
        /\ Ahead(Told(d), news[d]) /\ Ahead(news[d], broadcast')
    BY <2>2, <2>3, OrderNotices
  <2>5. Ahead(Told(d), broadcast')
    BY <2>1 DEF OrderFor
  <2> QED
    BY <2>1, <2>2, <2>4, <2>5, OrderNews
<1> QED
  BY <1>1, <1>2 DEF OrderInv

(* What Register sends are notices. *)
LEMMA JoinNewsNotices ==
    ASSUME NEW c \in Clients, NEW d \in Clients
    PROVE  \A i \in 1 .. Len(JoinNews(c, d) \o MateNews(c, d)) :
               (JoinNews(c, d) \o MateNews(c, d))[i].type # "signal"
<1>1. \/ JoinNews(c, d) = <<>>
      \/ JoinNews(c, d) = <<Notice("room_status", c)>>
  BY DEF JoinNews
<1>2. \/ MateNews(c, d) = <<>>
      \/ \E m : MateNews(c, d) = <<Notice("peer_joined", m)>>
  BY DEF MateNews
<1> QED
  BY <1>1, <1>2 DEF Notice

LEMMA OneMessage ==
    ASSUME NEW m \in Messages
    PROVE  /\ <<m>> \in Seq(Messages)
           /\ Len(<<m>>) = 1
           /\ <<m>>[1] = m
OBVIOUS

LEMMA TwoMessages ==
    ASSUME NEW m \in Messages, NEW n \in Messages
    PROVE  /\ Len(<<m>> \o <<n>>) = 2
           /\ (<<m>> \o <<n>>)[2] = n
<1> DEFINE a == <<m>>
           b == <<n>>
           ab == a \o b
<1>1. /\ a \in Seq(Messages) /\ b \in Seq(Messages)
      /\ Len(a) = 1 /\ Len(b) = 1 /\ b[1] = n
  BY OneMessage
<1> HIDE DEF a, b
<1>2. /\ Len(ab) = Len(a) + Len(b)
      /\ \A i \in 1 .. Len(a) + Len(b) : ab[i] = IF i <= Len(a) THEN a[i] ELSE b[i - Len(a)]
  BY <1>1, ConcatProperties
<1> HIDE DEF ab
<1>3. Len(ab) = 2 /\ ab[2] = n
  BY <1>1, <1>2
<1> QED
  BY <1>3 DEF ab, a, b

(* The hub takes a signal from Broadcast for each of the others.           *)
LEMMA OrderForward ==
    ASSUME Types, OrderInv, Forward
    PROVE  OrderInv'
<1> DEFINE news == [d \in Clients |->
               IF d \in Members(Head(broadcast).from)
                  /\ IdOf[d] # IdOf[Head(broadcast).from]
               THEN <<Head(broadcast)>> ELSE <<>>]
<1>1. /\ news \in NewsType /\ SendAll(news)
      /\ broadcast \in Seq(Messages) /\ broadcast # <<>>
      /\ broadcast' = Tail(broadcast) /\ UNCHANGED <<taken, posted, reader>>
  BY ForwardTypes DEF Forward, Types
<1>2. PICK queue \in Seq(Messages) : queue = broadcast
  BY <1>1
<1>3. PICK head \in Messages : head = Head(queue) /\ head = queue[1]
  BY <1>1, <1>2, HeadTailProperties
<1>4. PICK tail \in Seq(Messages) :
          /\ tail = broadcast' /\ Len(tail) = Len(queue) - 1
          /\ \A i \in 1 .. Len(tail) : tail[i] = queue[i + 1]
  BY <1>1, <1>2, HeadTailProperties
<1>5. /\ Len(queue) \in Nat /\ Len(queue) > 0
      /\ \A i \in 1 .. Len(tail) : i + 1 \in 1 .. Len(queue)
      /\ 1 \in 1 .. Len(queue)
  BY <1>1, <1>2, <1>4, EmptySeq, LenProperties
<1>6. [Next]_vars
  BY DEF Next
<1>7. InOrder(queue) /\ AllSent(queue) /\ \A i \in 1 .. Len(queue) : queue[i].type = "signal"
  BY <1>2 DEF OrderInv, OrderInBroadcast
<1>8. OrderInBroadcast'
  <2>1. InOrder(tail)
    BY <1>4, <1>5, <1>7 DEF InOrder
  <2>2. AllSent(tail)
    BY <1>4, <1>5, <1>7 DEF AllSent
  <2>3. \A i \in 1 .. Len(tail) : tail[i].type = "signal"
    BY <1>4, <1>5, <1>7
  <2>4. AllSent(tail)'
    BY <1>6, <2>2, AllSentKept
  <2> QED
    BY <1>4, <2>1, <2>3, <2>4 DEF OrderInBroadcast
<1>9. ASSUME NEW d \in Clients
      PROVE  OrderFor(d)'
  <2>1. OrderFor(d) /\ Told(d) \in Seq(Messages)
    BY ToldType DEF OrderInv
  <2>2. Ahead(Told(d), tail)
    BY <1>2, <1>4, <1>5, <2>1 DEF OrderFor, Ahead
  <2>3. CASE news[d] = <<>>
    <3> HIDE DEF news
    <3>1. news[d] \in Seq(Messages) /\ Len(news[d]) = 0
      BY <1>1, <2>3 DEF NewsType
    <3>2. \A i \in 1 .. Len(news[d]) : news[d][i].type # "signal"
      BY <3>1
    <3>3. InOrder(news[d]) /\ AllSent(news[d]) /\ Ahead(Told(d), news[d]) /\ Ahead(news[d], tail)
      BY <2>1, <3>1, <3>2, OrderNotices
    <3> QED
      BY <1>1, <1>4, <1>6, <2>1, <2>2, <3>3, OrderNews
  <2>4. CASE news[d] = <<Head(broadcast)>>
    <3> HIDE DEF news
    <3>1. PICK more \in Seq(Messages) : more = news[d] /\ Len(more) = 1 /\ more[1] = head
      <4>1. news[d] = <<head>>
        BY <1>2, <1>3, <2>4
      <4> QED
        BY <4>1, OneMessage
    <3>2. InOrder(more)
      BY <3>1 DEF InOrder
    <3>3. AllSent(more)
      BY <1>3, <1>5, <1>7, <3>1 DEF AllSent
    <3>4. Ahead(Told(d), more)
      <4>1. \A i \in 1 .. Len(Told(d)) : Later(Told(d)[i], head)
        BY <1>2, <1>3, <1>5, <2>1 DEF OrderFor, Ahead
      <4> QED
        BY <3>1, <4>1 DEF Ahead
    <3>5. Ahead(more, tail)
      <4>1. \A i \in 1 .. Len(tail) : Later(head, tail[i])
        BY <1>3, <1>4, <1>5, <1>7 DEF InOrder
      <4> QED
        BY <3>1, <4>1 DEF Ahead
    <3> QED
      BY <1>1, <1>4, <1>6, <2>1, <2>2, <3>1, <3>2, <3>3, <3>4, <3>5, OrderNews
  <2> QED
    BY <2>3, <2>4
<1> QED
  BY <1>8, <1>9 DEF OrderInv

(* ReadPump puts the signal it read behind all it sent before.             *)
LEMMA OrderPost ==
    ASSUME Types, OrderInv, NEW c \in Clients, Post(c)
    PROVE  OrderInv'
<1>1. /\ broadcast \in Seq(Messages) /\ posted[c] \in Nat /\ reader[c] = "posting"
      /\ broadcast' = Append(broadcast, Signal(c, posted[c]))
      /\ UNCHANGED <<send, taken, posted>> /\ reader' = [reader EXCEPT ![c] = "reading"]
  BY DEF Post, Types
<1>2. [Next]_vars
  BY DEF Next
<1>3. PICK queue \in Seq(Messages) : queue = broadcast
  BY <1>1
<1>4. PICK signal \in Messages : signal = Signal(c, posted[c])
  BY <1>1, MessageTypes
<1>5. PICK new \in Seq(Messages) : new = <<signal>> /\ Len(new) = 1 /\ new[1] = signal
  BY OneMessage
<1>6. broadcast' = queue \o new
  BY <1>1, <1>3, <1>4, <1>5, AppendIsConcat
<1>7. ASSUME NEW s \in Seq(Messages), AllSent(s)
      PROVE  Ahead(s, new)
  <2>1. ASSUME NEW i \in 1 .. Len(s)
        PROVE  Later(s[i], signal)
    <3>1. IsSent(s[i])
      BY <1>7 DEF AllSent
    <3> QED
      BY <1>1, <1>4, <3>1 DEF IsSent, Later, Signal
  <2> QED
    BY <1>5, <2>1 DEF Ahead
<1>8. InOrder(queue) /\ AllSent(queue) /\ \A i \in 1 .. Len(queue) : queue[i].type = "signal"
  BY <1>3 DEF OrderInv, OrderInBroadcast
<1>9. InOrder(new) /\ Ahead(queue, new)
  BY <1>5, <1>7, <1>8 DEF InOrder
<1>10. InOrder(queue \o new)
  BY <1>8, <1>9, OrderConcat
<1>11. AllSent(queue)'
  BY <1>2, <1>8, AllSentKept
<1>12. /\ Len(queue) \in Nat /\ Len(queue \o new) = Len(queue) + 1
       /\ \A i \in 1 .. Len(queue) : (queue \o new)[i] = queue[i]
       /\ (queue \o new)[Len(queue) + 1] = signal
  <2>1. /\ Len(queue) \in Nat
        /\ Len(queue \o new) = Len(queue) + Len(new)
        /\ \A i \in 1 .. Len(queue) + Len(new) :
              (queue \o new)[i] = IF i <= Len(queue) THEN queue[i] ELSE new[i - Len(queue)]
    BY ConcatProperties, LenProperties
  <2>2. Len(queue) + 1 - Len(queue) = 1 /\ ~(Len(queue) + 1 <= Len(queue))
    BY <2>1
  <2> QED
    BY <1>5, <2>1, <2>2
<1>13. signal.type = "signal" /\ IsSent(signal)'
  BY <1>1, <1>4 DEF Signal, IsSent, Types
<1>14. \A i \in 1 .. Len(queue \o new) : i \in 1 .. Len(queue) \/ i = Len(queue) + 1
  BY <1>12
<1>15. OrderInBroadcast'
  <2> DEFINE all == queue \o new
  <2> HIDE DEF all
  <2>1. \A i \in 1 .. Len(all) : all[i].type = "signal" /\ IsSent(all[i])'
    BY <1>8, <1>11, <1>12, <1>13, <1>14 DEF AllSent, all
  <2>2. InOrder(all) /\ broadcast' = all
    BY <1>6, <1>10 DEF all
  <2> QED
    BY <2>1, <2>2 DEF OrderInBroadcast, AllSent
<1>16. ASSUME NEW d \in Clients
       PROVE  OrderFor(d)'
  <2>1. PICK told \in Seq(Messages) : told = Told(d)
    BY ToldType
  <2>2. OrderFor(d) /\ Told(d)' = Told(d)
    BY <1>1 DEF OrderInv, Told
  <2>3. Ahead(told, queue) /\ Ahead(told, new)
    BY <1>3, <1>7, <2>1, <2>2 DEF OrderFor
  <2>4. Ahead(told, queue \o new)
    BY <2>3, OrderConcat
  <2> QED
    BY <1>2, <1>6, <2>1, <2>2, <2>4, OrderSilence
<1> QED
  BY <1>15, <1>16 DEF OrderInv

(* Every step keeps OrderInv. *)
LEMMA OrderStep == Types /\ OrderInv /\ [Next]_vars => OrderInv'
<1> SUFFICES ASSUME Types, OrderInv, [Next]_vars PROVE OrderInv'
  OBVIOUS
<1>1. CASE Forward
  BY <1>1, OrderForward
<1>2. ASSUME NEW c \in Clients, Post(c)
      PROVE  OrderInv'
  BY <1>2, OrderPost
<1>3. ASSUME NEW c \in Clients, RegisterFull(c)
      PROVE  OrderInv'
  <2> DEFINE news == [d \in Clients |-> IF d = c THEN <<Notice("error", c)>> ELSE <<>>]
  <2>1. news \in NewsType /\ SendAll(news) /\ UNCHANGED <<taken, broadcast>>
    BY <1>3, FullNewsType DEF RegisterFull, Connect
  <2>2. \A d \in Clients : \A i \in 1 .. Len(news[d]) : news[d][i].type # "signal"
    BY DEF Notice
  <2> HIDE DEF news
  <2> QED
    BY <2>1, <2>2, OrderNoticesSent
<1>4. ASSUME NEW c \in Clients, Register(c)
      PROVE  OrderInv'
  <2> DEFINE news == [d \in Clients |-> JoinNews(c, d) \o MateNews(c, d)]
  <2>1. news \in NewsType /\ SendAll(news) /\ UNCHANGED <<taken, broadcast>>
    BY <1>4, JoinNewsType DEF Register, Connect
  <2>2. \A d \in Clients : \A i \in 1 .. Len(news[d]) : news[d][i].type # "signal"
    BY JoinNewsNotices
  <2> HIDE DEF news
  <2> QED
    BY <2>1, <2>2, OrderNoticesSent
<1>5. ASSUME UNCHANGED broadcast, \A d \in Clients : Told(d)' = Told(d)
      PROVE  OrderInv'
  <2>1. OrderInBroadcast'
    BY <1>5, OrderWaiting DEF OrderInv
  <2>2. ASSUME NEW d \in Clients
        PROVE  OrderFor(d)'
    <3>1. OrderFor(d) /\ Ahead(Told(d), broadcast')
      BY <1>5 DEF OrderInv, OrderFor
    <3> QED
      BY <1>5, <3>1, OrderSilence
  <2> QED
    BY <2>1, <2>2 DEF OrderInv
<1>6. ASSUME NEW c \in Clients, Unregister(c)
      PROVE  OrderInv'
  <2>1. CASE Leave(c)
    <3> DEFINE news == [d \in Clients |-> IF d \in Members(c) \ {c}
                                         THEN <<Notice("peer_left", c)>> ELSE <<>>]
    <3>1. news \in NewsType /\ SendAll(news) /\ UNCHANGED <<taken, broadcast>>
      BY <1>6, <2>1, LeaveNewsType DEF Leave, Unregister
    <3>2. \A d \in Clients : \A i \in 1 .. Len(news[d]) : news[d][i].type # "signal"
      BY DEF Notice
    <3> HIDE DEF news
    <3> QED
      BY <3>1, <3>2, OrderNoticesSent
  <2>2. CASE UNCHANGED <<rooms, shut, send, dropped>>
    BY <1>5, <1>6, <2>2 DEF Unregister, Told
  <2> QED
    BY <1>6, <2>1, <2>2 DEF Unregister
<1>7. ASSUME NEW c \in Clients, Write(c)
      PROVE  OrderInv'
  BY <1>5, <1>7, WriteTells DEF Write
<1>8. ASSUME NEW c \in Clients,
             Read(c) \/ ReadError(c) \/ WriteClose(c) \/ PingError(c) \/ LosePeer(c)
      PROVE  OrderInv'
  <2>1. UNCHANGED <<send, taken, broadcast>>
    BY <1>8 DEF Read, ReadError, WriteClose, PingError, LosePeer
  <2> QED
    BY <1>5, <2>1 DEF Told
<1>9. CASE UNCHANGED vars
  BY <1>5, <1>9 DEF vars, Told
<1> QED
  BY Zenon, <1>1, <1>2, <1>3, <1>4, <1>6, <1>7, <1>8, <1>9 DEF Next

(* Nothing has been said yet. *)
LEMMA OrderInit == Init => OrderInv
<1> SUFFICES ASSUME Init PROVE OrderInv
  OBVIOUS
<1>1. broadcast = <<>> /\ \A c \in Clients : Told(c) = <<>>
  <2>1. <<>> \o <<>> = <<>>
    OBVIOUS
  <2> QED
    BY <2>1 DEF Init, Told
<1>2. Len(<<>>) = 0
  OBVIOUS
<1> QED
  BY <1>1, <1>2 DEF OrderInv, OrderInBroadcast, OrderFor, InOrder, AllSent, Ahead

(* Signals of one connection reach another in the order they were sent,    *)
(* none of them twice: from ReadPump through Hub.Broadcast and Send, past  *)
(* whatever did not fit and however the pumps and the hub interleave.      *)
THEOREM SignalsStayInOrder == Safety => []SignalsInOrder
<1>1. Types /\ OrderInv => SignalsInOrder
  <2> SUFFICES ASSUME Types, OrderInv, NEW c \in Clients
               PROVE  \A i, j \in DOMAIN Told(c) :
                          i < j => Later(Told(c)[i], Told(c)[j])
    BY Zenon DEF SignalsInOrder, Later
  <2>1. DOMAIN Told(c) = 1 .. Len(Told(c))
    BY ToldType, LenProperties
  <2> QED
    BY <2>1 DEF OrderInv, OrderFor, InOrder
<1>2. Types /\ OrderInv /\ [Next]_vars => Types' /\ OrderInv'
  BY TypeStep, OrderStep
<1> QED
  BY <1>1, <1>2, TypeInit, OrderInit, PTL DEF Safety

-----------------------------------------------------------------------------
(* ViewIsRoom.  View(s, mates): the last notice of s says that the mates   *)
(* are these.  It is inductive together with RoomInv (with more than a     *)
(* pair in a room one name could not be all of it) and with what waits in  *)
(* Broadcast being signals.                                                *)
NamedMates(notice) == IF notice.type = "peer_joined" THEN {notice.from} ELSE {}
View(s, mates) ==
    \E i \in 1 .. Len(s) :
        /\ IsMembership(s[i])
        /\ \A j \in 1 .. Len(s) : IsMembership(s[j]) => j <= i
        /\ mates = NamedMates(s[i])
ViewFor(d) == d \in Members(d) /\ d \notin dropped => View(Told(d), Members(d) \ {d})
ViewInv == \A d \in Clients : ViewFor(d)

(* Signals behind a view leave it as it is; a notice replaces it.          *)
LEMMA ViewConcat ==
    ASSUME NEW s \in Seq(Messages), NEW t \in Seq(Messages), NEW mates
    PROVE  /\ View(s, mates) /\ (\A i \in 1 .. Len(t) : ~IsMembership(t[i]))
              => View(s \o t, mates)
           /\ Len(t) > 0 /\ IsMembership(t[Len(t)]) /\ mates = NamedMates(t[Len(t)])
              => View(s \o t, mates)
<1> DEFINE st == s \o t
<1>1. /\ Len(s) \in Nat /\ Len(t) \in Nat
      /\ Len(st) = Len(s) + Len(t)
      /\ \A i \in 1 .. Len(s) + Len(t) :
            st[i] = IF i <= Len(s) THEN s[i] ELSE t[i - Len(s)]
  BY ConcatProperties, LenProperties
<1> HIDE DEF st
<1>2. ASSUME View(s, mates), \A i \in 1 .. Len(t) : ~IsMembership(t[i])
      PROVE  View(st, mates)
  <2>1. PICK i \in 1 .. Len(s) :
            /\ IsMembership(s[i])
            /\ \A j \in 1 .. Len(s) : IsMembership(s[j]) => j <= i
            /\ mates = NamedMates(s[i])
    BY <1>2 DEF View
  <2>2. i \in 1 .. Len(st) /\ st[i] = s[i]
    BY <1>1
  <2>3. ASSUME NEW j \in 1 .. Len(st), IsMembership(st[j])
        PROVE  j <= i
    <3>1. CASE j <= Len(s)
      BY <1>1, <2>1, <2>3, <3>1
    <3>2. CASE ~(j <= Len(s))
      <4>1. j - Len(s) \in 1 .. Len(t) /\ st[j] = t[j - Len(s)]
        BY <1>1, <3>2
      <4> QED
        BY <1>2, <2>3, <4>1
    <3> QED
      BY <3>1, <3>2
  <2> QED
    BY <2>1, <2>2, <2>3 DEF View
<1>3. ASSUME Len(t) > 0, IsMembership(t[Len(t)]), mates = NamedMates(t[Len(t)])
      PROVE  View(st, mates)
  <2>1. Len(st) \in 1 .. Len(st) /\ st[Len(st)] = t[Len(t)]
    <3>1. Len(st) \in 1 .. Len(s) + Len(t) /\ ~(Len(st) <= Len(s))
          /\ Len(st) - Len(s) = Len(t)
      BY <1>1, <1>3
    <3> QED
      BY <1>1, <3>1
  <2>2. \A j \in 1 .. Len(st) : j <= Len(st)
    BY <1>1
  <2> QED
    BY <1>3, <2>1, <2>2 DEF View
<1> QED
  BY <1>2, <1>3 DEF st

(* What a handler tells a client that misses nothing.                      *)
LEMMA ViewNews ==
    ASSUME Types, NEW news \in NewsType, SendAll(news), taken' = taken,
           NEW d \in Clients, d \notin dropped', NEW mates,
           LET n == Len(news[d]) IN
           \/ View(Told(d), mates) /\ \A i \in 1 .. n : ~IsMembership(news[d][i])
           \/ n > 0 /\ IsMembership(news[d][n]) /\ mates = NamedMates(news[d][n])
    PROVE  View(Told(d)', mates)
<1>1. Told(d)' = Told(d) \o news[d]
  BY SendAllBehind
<1>2. Told(d) \in Seq(Messages) /\ news[d] \in Seq(Messages)
  BY ToldType DEF NewsType
<1>3. View(Told(d) \o news[d], mates)
  BY <1>2, ViewConcat
<1> QED
  BY <1>1, <1>3

LEMMA ViewNotice ==
    ASSUME Types, NEW news \in NewsType, SendAll(news), taken' = taken,
           NEW d \in Clients, d \notin dropped', NEW k \in Nat, k > 0,
           Len(news[d]) = k, IsMembership(news[d][k])
    PROVE  View(Told(d)', NamedMates(news[d][k]))
BY ViewNews

(* The mates in a pair. *)
LEMMA PairMates ==
    ASSUME NEW S, IsFiniteSet(S), Cardinality(S) <= 2,
           NEW c \in S, NEW d \in S, c # d
    PROVE  S = {c, d}
<1>1. /\ IsFiniteSet(S \ {c}) /\ Cardinality(S \ {c}) = Cardinality(S) - 1
      /\ Cardinality(S) \in Nat
  BY FS_RemoveElement, FS_CardinalityType
<1>2. Cardinality(S \ {c}) \in Nat /\ Cardinality(S \ {c}) # 0
  <2>1. S \ {c} # {}
    OBVIOUS
  <2>2. Cardinality(S \ {c}) # 0
    BY <1>1, <2>1, FS_EmptySet
  <2> QED
    BY <1>1, <2>2, FS_CardinalityType
<1>3. Cardinality(S \ {c}) = 1
  BY <1>1, <1>2
<1>4. PICK x : S \ {c} = {x}
  BY <1>1, <1>3, FS_Singleton
<1> QED
  BY <1>4

(* A step that tells nobody and moves nobody.                              *)
LEMMA ViewSame ==
    ASSUME ViewInv, UNCHANGED <<rooms, dropped>>, \A d \in Clients : Told(d)' = Told(d)
    PROVE  ViewInv'
BY DEF ViewInv, ViewFor, Members

(* A new member hears of the other one, and the other one of it.           *)
LEMMA ViewRegister ==
    ASSUME Types, RoomInv, ViewInv, NEW c \in Clients, Register(c)
    PROVE  ViewInv'
<1> DEFINE news == [d \in Clients |-> JoinNews(c, d) \o MateNews(c, d)]
<1>1. /\ news \in NewsType /\ SendAll(news) /\ UNCHANGED taken
      /\ rooms' = [rooms EXCEPT ![RoomOf[c]] = @ \cup {c}]
      /\ Cardinality(Members(c)) < 2 /\ RoomOf[c] \in Rooms
      /\ reader[c] = "none"
  BY JoinNewsType, HubAssumption DEF Register, Connect, RoomSize
<1>2. c \notin Members(c) /\ Members(c) \subseteq Clients
  BY <1>1 DEF RoomInv, MembersAreLive, Members, Types
<1>3. Members(c) = {} \/ \E x \in Clients : x # c /\ Members(c) = {x}
  <2>1. IsFiniteSet(Members(c)) /\ Cardinality(Members(c)) \in Nat
    BY <1>1, FS_CardinalityType DEF RoomInv, FiniteRooms, Members
  <2>2. CASE Cardinality(Members(c)) = 0
    BY <2>1, <2>2, FS_EmptySet
  <2>3. CASE Cardinality(Members(c)) = 1
    <3>1. \E x : Members(c) = {x}
      BY <2>1, <2>3, FS_Singleton
    <3> QED
      BY <1>2, <3>1
  <2> QED
    BY <1>1, <2>1, <2>2, <2>3
<1>4. \A d \in Clients : news[d] = JoinNews(c, d) \o MateNews(c, d)
  OBVIOUS
<1>5. dropped \subseteq dropped'
  BY <1>1 DEF SendAll
<1> HIDE DEF news
<1> SUFFICES ASSUME NEW d \in Clients, (d \in Members(d))', d \notin dropped'
             PROVE  View(Told(d)', Members(d)' \ {d})
  BY DEF ViewInv, ViewFor
<1>6. CASE d = c
  <2>1. Members(d)' = Members(c) \cup {c} /\ Members(d)' \ {d} = Members(c)
    BY <1>1, <1>2, <1>6 DEF Members, Types
  <2>2. JoinNews(c, d) = <<Notice("room_status", c)>>
    BY <1>6 DEF JoinNews
  <2>3. CASE Members(c) = {}
    <3>1. MateNews(c, d) = <<>>
      BY <1>6, <2>3 DEF MateNews
    <3>2. news[d] = <<Notice("room_status", c)>>
      BY <1>4, <2>2, <3>1
    <3>3. /\ Len(news[d]) = 1 /\ IsMembership(news[d][1])
          /\ NamedMates(news[d][1]) = {}
      BY <3>2 DEF Notice, IsMembership, NamedMates
    <3> DEFINE n == 1
    <3>6. n \in Nat /\ n > 0 /\ Len(news[d]) = n /\ IsMembership(news[d][n])
      BY <3>3
    <3>7. View(Told(d)', NamedMates(news[d][n]))
      <4> HIDE DEF n
      <4> QED
        BY <1>1, <3>6, ViewNotice
    <3> QED
      BY <2>1, <2>3, <3>3, <3>7
  <2>4. CASE \E x \in Clients : x # c /\ Members(c) = {x}
    <3>1. PICK x \in Clients : x # c /\ Members(c) = {x}
      BY <2>4
    <3>2. /\ (Members(c) \cup {c}) \ {d} = {x} /\ {x} # {}
          /\ (CHOOSE m \in {x} : TRUE) = x
          /\ d \in Members(c) \cup {c}
      BY <1>6, <3>1
    <3>3. MateNews(c, d) = <<Notice("peer_joined", x)>>
      BY <3>2 DEF MateNews
    <3>4. /\ Len(news[d]) = 2
          /\ news[d][2] = Notice("peer_joined", x)
      <4>1. /\ Notice("room_status", c) \in Messages
            /\ Notice("peer_joined", x) \in Messages
        BY MessageTypes DEF Notices
      <4>2. PICK m \in Messages : m = Notice("room_status", c)
        BY <4>1
      <4>3. PICK n \in Messages : n = Notice("peer_joined", x)
        BY <4>1
      <4>4. news[d] = <<m>> \o <<n>>
        BY <1>4, <2>2, <3>3, <4>2, <4>3
      <4>5. Len(<<m>> \o <<n>>) = 2 /\ (<<m>> \o <<n>>)[2] = n
        BY TwoMessages
      <4> QED
        BY <4>3, <4>4, <4>5
    <3>5. IsMembership(news[d][2]) /\ NamedMates(news[d][2]) = {x}
      BY <3>4 DEF Notice, IsMembership, NamedMates
    <3> DEFINE n == 2
    <3>6. n \in Nat /\ n > 0 /\ Len(news[d]) = n /\ IsMembership(news[d][n])
      BY <3>4, <3>5
    <3>7. View(Told(d)', NamedMates(news[d][n]))
      <4> HIDE DEF n
      <4> QED
        BY <1>1, <3>6, ViewNotice
    <3> QED
      BY <2>1, <3>1, <3>5, <3>7
  <2> QED
    BY <1>3, <2>3, <2>4
<1>7. CASE d # c /\ d \in Members(c)
  <2>1. Members(c) = {d} /\ RoomOf[d] = RoomOf[c]
    BY <1>1, <1>3, <1>7 DEF RoomInv, MembersAreLive, Members
  <2>2. Members(d)' \ {d} = {c}
    BY <1>1, <1>7, <2>1 DEF Members, Types
  <2>3. JoinNews(c, d) = <<>>
    BY <1>7 DEF JoinNews
  <2>4. /\ (Members(c) \cup {c}) \ {d} = {c} /\ {c} # {}
        /\ (CHOOSE m \in {c} : TRUE) = c
        /\ d \in Members(c) \cup {c}
    BY <1>7, <2>1
  <2>5. MateNews(c, d) = <<Notice("peer_joined", c)>>
    BY <2>4 DEF MateNews
  <2>6. news[d] = <<Notice("peer_joined", c)>>
    BY <1>4, <2>3, <2>5
  <2>7. /\ Len(news[d]) = 1 /\ IsMembership(news[d][1])
        /\ NamedMates(news[d][1]) = {c}
    BY <2>6 DEF Notice, IsMembership, NamedMates
  <2> DEFINE n == 1
  <2>8. n \in Nat /\ n > 0 /\ Len(news[d]) = n /\ IsMembership(news[d][n])
    BY <2>7
  <2>9. View(Told(d)', NamedMates(news[d][n]))
    <3> HIDE DEF n
    <3> QED
      BY <1>1, <2>8, ViewNotice
  <2> QED
    BY <2>2, <2>7, <2>9
<1>8. CASE d # c /\ d \notin Members(c)
  <2>1. news[d] = <<>>
    BY <1>4, <1>8 DEF JoinNews, MateNews
  <2>2. RoomOf[d] # RoomOf[c] /\ Members(d)' = Members(d)
    BY <1>1, <1>8 DEF Members, Types
  <2>3. View(Told(d), Members(d)' \ {d})
    BY <1>5, <2>2 DEF ViewInv, ViewFor
  <2>4. \A i \in 1 .. Len(news[d]) : ~IsMembership(news[d][i])
    BY <2>1
  <2> QED
    BY <1>1, <2>3, <2>4, ViewNews
<1> QED
  BY <1>6, <1>7, <1>8

(* Whoever stays behind hears so.                                          *)
LEMMA ViewLeave ==
    ASSUME Types, RoomInv, ViewInv, NEW c \in Clients, c \in Members(c),
           Leave(c), taken' = taken
    PROVE  ViewInv'
<1> DEFINE news == [d \in Clients |-> IF d \in Members(c) \ {c}
                                     THEN <<Notice("peer_left", c)>> ELSE <<>>]
<1>1. /\ news \in NewsType /\ SendAll(news) /\ RoomOf[c] \in Rooms
      /\ rooms' = [rooms EXCEPT ![RoomOf[c]] = @ \ {c}]
  BY LeaveNewsType, HubAssumption DEF Leave
<1>2. \A d \in Clients : news[d] = IF d \in Members(c) \ {c}
                                   THEN <<Notice("peer_left", c)>> ELSE <<>>
  OBVIOUS
<1>3. dropped \subseteq dropped'
  BY <1>1 DEF SendAll
<1> HIDE DEF news
<1> SUFFICES ASSUME NEW d \in Clients, (d \in Members(d))', d \notin dropped'
             PROVE  View(Told(d)', Members(d)' \ {d})
  BY DEF ViewInv, ViewFor
<1>4. CASE d \in Members(c) \ {c}
  <2>1. IsFiniteSet(Members(c)) /\ Cardinality(Members(c)) <= 2
    BY <1>1 DEF RoomInv, RoomsArePairs, FiniteRooms, RoomSize, Members
  <2>2. Members(c) = {c, d}
    BY <1>4, <2>1, PairMates
  <2>3. RoomOf[d] = RoomOf[c]
    BY <1>1, <1>4 DEF RoomInv, MembersAreLive, Members
  <2>4. Members(d)' \ {d} = {}
    BY <1>1, <2>2, <2>3 DEF Members, Types
  <2>5. news[d] = <<Notice("peer_left", c)>>
    BY <1>2, <1>4
  <2>6. /\ Len(news[d]) = 1 /\ IsMembership(news[d][1])
        /\ NamedMates(news[d][1]) = {}
    BY <2>5 DEF Notice, IsMembership, NamedMates
  <2> DEFINE n == 1
  <2>8. n \in Nat /\ n > 0 /\ Len(news[d]) = n /\ IsMembership(news[d][n])
    BY <2>6
  <2>9. View(Told(d)', NamedMates(news[d][n]))
    <3> HIDE DEF n
    <3> QED
      BY <1>1, <2>8, ViewNotice
  <2> QED
    BY <2>4, <2>6, <2>9
<1>5. CASE d \notin Members(c) \ {c}
  <2>1. news[d] = <<>>
    BY <1>2, <1>5
  <2>2. RoomOf[d] # RoomOf[c] /\ Members(d)' = Members(d)
    BY <1>1, <1>5, HubAssumption DEF Members, Types
  <2>3. View(Told(d), Members(d)' \ {d})
    BY <1>3, <2>2 DEF ViewInv, ViewFor
  <2>4. \A i \in 1 .. Len(news[d]) : ~IsMembership(news[d][i])
    BY <2>1
  <2> QED
    BY <1>1, <2>3, <2>4, ViewNews
<1> QED
  BY <1>4, <1>5

(* News that name nobody's mates leave every view as it is.                *)
LEMMA ViewKept ==
    ASSUME Types, ViewInv, NEW news \in NewsType, SendAll(news),
           UNCHANGED <<rooms, taken>>,
           \A d \in Clients : d \in Members(d) =>
               \A i \in 1 .. Len(news[d]) : ~IsMembership(news[d][i])
    PROVE  ViewInv'
<1>1. dropped \subseteq dropped' /\ \A d \in Clients : Members(d)' = Members(d)
  BY DEF SendAll, Members
<1> SUFFICES ASSUME NEW d \in Clients, d \in Members(d), d \notin dropped'
             PROVE  View(Told(d)', Members(d) \ {d})
  BY <1>1 DEF ViewInv, ViewFor
<1>2. View(Told(d), Members(d) \ {d})
  BY <1>1 DEF ViewInv, ViewFor
<1> QED
  BY <1>2, ViewNews

(* Every step keeps ViewInv. *)
LEMMA ViewStep ==
    Types /\ RoomInv /\ OrderInv /\ ViewInv /\ [Next]_vars => ViewInv'
<1> SUFFICES ASSUME Types, RoomInv, OrderInv, ViewInv, [Next]_vars PROVE ViewInv'
  OBVIOUS
<1>1. CASE Forward
  <2> DEFINE news == [d \in Clients |->
                 IF d \in Members(Head(broadcast).from)
                    /\ IdOf[d] # IdOf[Head(broadcast).from]
                 THEN <<Head(broadcast)>> ELSE <<>>]
  <2>1. /\ news \in NewsType /\ SendAll(news) /\ UNCHANGED <<rooms, taken>>
        /\ broadcast \in Seq(Messages) /\ broadcast # <<>>
    BY <1>1, ForwardTypes DEF Forward, Types
  <2>2. Head(broadcast).type = "signal"
    <3>1. Head(broadcast) = broadcast[1] /\ 1 \in 1 .. Len(broadcast)
      BY <2>1, EmptySeq, LenProperties
    <3> QED
      BY <3>1 DEF OrderInv, OrderInBroadcast
  <2>3. \A d \in Clients : \A i \in 1 .. Len(news[d]) : ~IsMembership(news[d][i])
    BY <2>2 DEF IsMembership
  <2> HIDE DEF news
  <2> QED
    BY <2>1, <2>3, ViewKept
<1>2. ASSUME NEW c \in Clients, RegisterFull(c)
      PROVE  ViewInv'
  <2> DEFINE news == [d \in Clients |-> IF d = c THEN <<Notice("error", c)>> ELSE <<>>]
  <2>1. news \in NewsType /\ SendAll(news) /\ UNCHANGED <<rooms, taken>>
    BY <1>2, FullNewsType DEF RegisterFull, Connect
  <2>2. c \notin Members(c)
    BY <1>2, HubAssumption DEF RegisterFull, Connect, RoomInv, MembersAreLive, Members
  <2>3. \A d \in Clients : d \in Members(d) =>
            \A i \in 1 .. Len(news[d]) : ~IsMembership(news[d][i])
    BY <2>2
  <2> HIDE DEF news
  <2> QED
    BY <2>1, <2>3, ViewKept
<1>3. ASSUME NEW c \in Clients, Register(c)
      PROVE  ViewInv'
  BY <1>3, ViewRegister
<1>4. ASSUME NEW c \in Clients, Unregister(c)
      PROVE  ViewInv'
  <2>1. CASE c \in Members(c) /\ Leave(c)
    BY <1>4, <2>1, ViewLeave DEF Unregister
  <2>2. CASE UNCHANGED <<rooms, shut, send, dropped>>
    BY <1>4, <2>2, ViewSame DEF Unregister, Told
  <2> QED
    BY <1>4, <2>1, <2>2 DEF Unregister
<1>5. ASSUME NEW c \in Clients, Write(c)
      PROVE  ViewInv'
  BY <1>5, WriteTells, ViewSame DEF Write
<1>6. ASSUME NEW c \in Clients,
             \/ Read(c) \/ Post(c) \/ ReadError(c)
             \/ WriteClose(c) \/ PingError(c) \/ LosePeer(c)
      PROVE  ViewInv'
  <2>1. UNCHANGED <<send, taken, rooms, dropped>>
    BY <1>6 DEF Read, Post, ReadError, WriteClose, PingError, LosePeer
  <2> QED
    BY <2>1, ViewSame DEF Told
<1>7. CASE UNCHANGED vars
  BY <1>7, ViewSame DEF vars, Told
<1> QED
  BY Zenon, <1>1, <1>2, <1>3, <1>4, <1>5, <1>6, <1>7 DEF Next

(* What a member that missed nothing was last told about its room is so,   *)
(* however registrations, departures and forwarded signals interleave.     *)
THEOREM ViewsAreRight == Safety => []ViewIsRoom
<1>1. Types /\ ViewInv => ViewIsRoom
  <2> SUFFICES ASSUME Types, ViewInv, NEW c \in Clients, c \in Members(c) \ dropped
               PROVE  \E i \in DOMAIN Told(c) :
                         /\ IsMembership(Told(c)[i])
                         /\ \A j \in DOMAIN Told(c) : IsMembership(Told(c)[j]) => j <= i
                         /\ Members(c) \ {c} = NamedMates(Told(c)[i])
    BY Zenon DEF ViewIsRoom, NamedMates
  <2>1. DOMAIN Told(c) = 1 .. Len(Told(c))
    BY ToldType, LenProperties
  <2> QED
    BY <2>1 DEF ViewInv, ViewFor, View
<1>2. Init => ViewInv
  BY HubAssumption DEF Init, ViewInv, ViewFor, Members
<1>3. /\ Types /\ RoomInv /\ OrderInv /\ ViewInv /\ [Next]_vars
      => Types' /\ RoomInv' /\ OrderInv' /\ ViewInv'
  BY TypeStep, RoomStep, OrderStep, ViewStep
<1> QED
  BY <1>1, <1>2, <1>3, TypeInit, RoomInit, OrderInit, PTL DEF Safety
=============================================================================
