---------------------------- MODULE SignalingHub ----------------------------
(***************************************************************************)
(* The WebSocket signaling server: hub.go's event loop and client.go's two *)
(* goroutines per connection.  The hub is one goroutine that takes one     *)
(* register, unregister or broadcast at a time; a connection is read by    *)
(* ReadPump and written by WritePump, and the three meet in channels only. *)
(*                                                                         *)
(* A client is one connection: a browser that connects again is another    *)
(* client, which may carry the same ClientID.                              *)
(***************************************************************************)
EXTENDS Integers, Sequences, FiniteSets

CONSTANTS
    Clients,        \* connections
    Rooms, Ids,     \* room names and ClientIDs
    RoomOf, IdOf,   \* what a connection gave in its query
    SendCap,        \* capacity of Client.Send, 256 in the code
    BroadcastCap,   \* capacity of Hub.Broadcast, 256 in the code
    PostLimit       \* bound: valid messages connection c sends in all

ASSUME HubAssumption ==
    /\ RoomOf \in [Clients -> Rooms]
    /\ IdOf \in [Clients -> Ids]
    /\ SendCap \in Nat /\ SendCap >= 2   \* what one handler sends to a client fits
    /\ BroadcastCap \in Nat \ {0}
    /\ PostLimit \in [Clients -> Nat]

RoomSize == 2

(* "from" and "nr" are for the properties: the connection a message is     *)
(* about, and the place of a signal among those of its connection.         *)
Notices == {"error", "room_status", "peer_joined", "peer_left"}
Messages == [type : Notices \cup {"signal"}, from : Clients, nr : Nat]
Notice(type, c) == [type |-> type, from |-> c, nr |-> 0]
Signal(c, k) == [type |-> "signal", from |-> c, nr |-> k]

VARIABLES
    rooms,      \* rooms[r]: clients in room r; {} is the same as no entry
    broadcast,  \* Hub.Broadcast
    reader,     \* reader[c]: where ServeWS and then ReadPump of c is
    writer,     \* writer[c]: where WritePump of c is
    conn,       \* conn[c]: "open", "lost" (peer gone), "closed" (by us)
    send,       \* send[c]: Client.Send
    shut,       \* clients whose Send channel is closed
    posted,     \* posted[c]: messages read from c so far
    taken,      \* taken[c]: messages WritePump took from Send so far
    dropped     \* clients that missed a message because Send was full

vars == <<rooms, broadcast, reader, writer, conn, send, shut, posted,
          taken, dropped>>

Init ==
    /\ rooms = [r \in Rooms |-> {}]
    /\ broadcast = <<>>
    /\ reader = [c \in Clients |-> "none"]
    /\ writer = [c \in Clients |-> "none"]
    /\ conn = [c \in Clients |-> "none"]
    /\ send = [c \in Clients |-> <<>>]
    /\ shut = {}
    /\ posted = [c \in Clients |-> 0]
    /\ taken = [c \in Clients |-> <<>>]
    /\ dropped = {}

Members(c) == rooms[RoomOf[c]]

-----------------------------------------------------------------------------
(* SendJSON: what does not fit is dropped.  The handlers below send to     *)
(* several clients; "news[c]" are the messages for c, in order.            *)
Clip(queue) ==
    SubSeq(queue, 1, IF Len(queue) <= SendCap THEN Len(queue) ELSE SendCap)

(* Faulty variant: what is new goes to the front. *)
SendAllInFront(news) ==
    /\ send' = [c \in Clients |-> Clip(news[c] \o send[c])]
    /\ dropped' = dropped \cup
                  {c \in Clients : Len(send[c]) + Len(news[c]) > SendCap}

SendAll(news) ==
    /\ send' = [c \in Clients |-> Clip(send[c] \o news[c])]
    /\ dropped' = dropped \cup
                  {c \in Clients : Len(send[c]) + Len(news[c]) > SendCap}

(* Faulty variant: WritePump is not started. *)
ConnectUnwritten(c) ==
    /\ reader[c] = "none"
    /\ reader' = [reader EXCEPT ![c] = "reading"]
    /\ conn' = [conn EXCEPT ![c] = "open"]
    /\ UNCHANGED <<broadcast, writer, shut, posted, taken>>

(* ServeWS up to its return: the connection is upgraded, the hub takes it  *)
(* from h.register (ServeWS waits for that), and both pumps are started,   *)
(* also for a client that is turned away.                                  *)
Connect(c) ==
    /\ reader[c] = "none"
    /\ reader' = [reader EXCEPT ![c] = "reading"]
    /\ writer' = [writer EXCEPT ![c] = "writing"]
    /\ conn' = [conn EXCEPT ![c] = "open"]
    /\ UNCHANGED <<broadcast, shut, posted, taken>>

RegisterFull(c) ==
    /\ Connect(c)
    /\ Cardinality(Members(c)) >= RoomSize
    /\ SendAll([d \in Clients |-> IF d = c THEN <<Notice("error", c)>> ELSE <<>>])
    /\ UNCHANGED rooms

JoinNews(c, d) ==
    IF d = c THEN <<Notice("room_status", c)>> ELSE <<>>

MateNews(c, d) ==
    LET mates == (Members(c) \cup {c}) \ {d}
    IN  IF d \in Members(c) \cup {c} /\ mates # {}
        THEN <<Notice("peer_joined", CHOOSE m \in mates : TRUE)>> ELSE <<>>

(* Faulty variants: one client too many fits; peer_joined overtakes.       *)
RegisterThird(c) ==
    /\ Connect(c)
    /\ Cardinality(Members(c)) <= RoomSize
    /\ rooms' = [rooms EXCEPT ![RoomOf[c]] = @ \cup {c}]
    /\ SendAll([d \in Clients |-> JoinNews(c, d) \o MateNews(c, d)])

RegisterMateFirst(c) ==
    /\ Connect(c)
    /\ Cardinality(Members(c)) < RoomSize
    /\ rooms' = [rooms EXCEPT ![RoomOf[c]] = @ \cup {c}]
    /\ SendAll([d \in Clients |-> MateNews(c, d) \o JoinNews(c, d)])

Register(c) ==
    /\ Connect(c)
    /\ Cardinality(Members(c)) < RoomSize
    /\ rooms' = [rooms EXCEPT ![RoomOf[c]] = @ \cup {c}]
    /\ SendAll([d \in Clients |-> JoinNews(c, d) \o MateNews(c, d)])

(* handleUnregister, for a member: out of the room, Send closed, the other *)
(* told.  ReadPump, which waited for the hub to take c, then closes its    *)
(* connection.                                                             *)
Leave(c) ==
    /\ rooms' = [rooms EXCEPT ![RoomOf[c]] = @ \ {c}]
    /\ shut' = shut \cup {c}
    /\ SendAll([d \in Clients |-> IF d \in Members(c) \ {c}
                                  THEN <<Notice("peer_left", c)>> ELSE <<>>])

(* Faulty variants: the client stays in the room; nobody is told. *)
UnregisterInPlace(c) ==
    /\ reader[c] = "unregistering"
    /\ reader' = [reader EXCEPT ![c] = "gone"]
    /\ conn' = [conn EXCEPT ![c] = "closed"]
    /\ shut' = IF c \in Members(c) THEN shut \cup {c} ELSE shut
    /\ UNCHANGED <<rooms, broadcast, writer, send, posted, taken, dropped>>

UnregisterSilently(c) ==
    /\ reader[c] = "unregistering"
    /\ reader' = [reader EXCEPT ![c] = "gone"]
    /\ conn' = [conn EXCEPT ![c] = "closed"]
    /\ rooms' = [rooms EXCEPT ![RoomOf[c]] = @ \ {c}]
    /\ shut' = IF c \in Members(c) THEN shut \cup {c} ELSE shut
    /\ UNCHANGED <<broadcast, writer, send, posted, taken, dropped>>

Unregister(c) ==
    /\ reader[c] = "unregistering"
    /\ reader' = [reader EXCEPT ![c] = "gone"]
    /\ conn' = [conn EXCEPT ![c] = "closed"]
    /\ \/ c \in Members(c) /\ Leave(c)
       \/ c \notin Members(c) /\ UNCHANGED <<rooms, shut, send, dropped>>
    /\ UNCHANGED <<broadcast, writer, posted, taken>>

(* handleBroadcast: to the members whose ClientID is not the sender's. *)
Forward ==
    /\ broadcast # <<>>
    /\ broadcast' = Tail(broadcast)
    /\ LET message == Head(broadcast) IN
       SendAll([d \in Clients |->
                   IF d \in Members(message.from) /\ IdOf[d] # IdOf[message.from]
                   THEN <<message>> ELSE <<>>])
    /\ UNCHANGED <<rooms, reader, writer, conn, shut, posted, taken>>

-----------------------------------------------------------------------------
(* ReadPump.  A message read becomes one for the hub; malformed JSON is    *)
(* skipped.  What the peer sent before it went away can still be read.     *)
Read(c) ==
    /\ reader[c] = "reading"
    /\ conn[c] # "closed"
    /\ posted[c] < PostLimit[c]
    /\ posted' = [posted EXCEPT ![c] = @ + 1]
    /\ reader' = [reader EXCEPT ![c] = "posting"]
    /\ UNCHANGED <<rooms, broadcast, writer, conn, send, shut, taken, dropped>>

Post(c) ==
    /\ reader[c] = "posting"
    /\ Len(broadcast) < BroadcastCap
    /\ broadcast' = Append(broadcast, Signal(c, posted[c]))
    /\ reader' = [reader EXCEPT ![c] = "reading"]
    /\ UNCHANGED <<rooms, writer, conn, send, shut, posted, taken, dropped>>

(* Faulty variant: the pump returns and tells nobody. *)
ReadErrorUnnoticed(c) ==
    /\ reader[c] = "reading"
    /\ conn[c] # "open"
    /\ reader' = [reader EXCEPT ![c] = "gone"]
    /\ UNCHANGED <<rooms, broadcast, writer, conn, send, shut, posted, taken,
                   dropped>>

(* ReadMessage fails (peer gone, pong overdue, or closed by WritePump).    *)
ReadError(c) ==
    /\ reader[c] = "reading"
    /\ conn[c] # "open"
    /\ reader' = [reader EXCEPT ![c] = "unregistering"]
    /\ UNCHANGED <<rooms, broadcast, writer, conn, send, shut, posted, taken,
                   dropped>>

-----------------------------------------------------------------------------
(* WritePump returns: its deferred Conn.Close(). *)
StopWriting(c) ==
    /\ writer' = [writer EXCEPT ![c] = "gone"]
    /\ conn' = [conn EXCEPT ![c] = "closed"]

(* The next message of Send is taken and written.  On a lost or closed     *)
(* connection the write fails (on a lost one it may look fine for a while).*)
Write(c) ==
    /\ writer[c] = "writing"
    /\ send[c] # <<>>
    /\ send' = [send EXCEPT ![c] = Tail(@)]
    /\ taken' = [taken EXCEPT ![c] = Append(@, Head(send[c]))]
    /\ \/ conn[c] # "closed" /\ UNCHANGED <<writer, conn>>
       \/ conn[c] # "open" /\ StopWriting(c)
    /\ UNCHANGED <<rooms, broadcast, reader, shut, posted, dropped>>

(* Send is drained and closed. *)
WriteClose(c) ==
    /\ writer[c] = "writing"
    /\ send[c] = <<>>
    /\ c \in shut
    /\ StopWriting(c)
    /\ UNCHANGED <<rooms, broadcast, reader, send, shut, posted, taken, dropped>>

(* Faulty variant: a failed ping is ignored. *)
PingErrorIgnored(c) ==
    /\ writer[c] = "writing"
    /\ conn[c] # "open"
    /\ UNCHANGED vars

(* The ticker's ping fails.  One that succeeds changes nothing. *)
PingError(c) ==
    /\ writer[c] = "writing"
    /\ conn[c] # "open"
    /\ StopWriting(c)
    /\ UNCHANGED <<rooms, broadcast, reader, send, shut, posted, taken, dropped>>

(* The browser goes away, or the network between, or it sends more than    *)
(* the read limit allows: from here on reads and writes fail, soon or late.*)
LosePeer(c) ==
    /\ conn[c] = "open"
    /\ conn' = [conn EXCEPT ![c] = "lost"]
    /\ UNCHANGED <<rooms, broadcast, reader, writer, send, shut, posted, taken,
                   dropped>>

-----------------------------------------------------------------------------
Next ==
    \/ Forward
    \/ \E c \in Clients :
          \/ RegisterFull(c) \/ Register(c) \/ Unregister(c)
          \/ Read(c) \/ Post(c) \/ ReadError(c)
          \/ Write(c) \/ WriteClose(c) \/ PingError(c)
          \/ LosePeer(c)

(* The hub's select is fair among ready cases, goroutines run, the ticker  *)
(* ticks.  Browsers owe nothing.                                           *)
Fairness ==
    /\ WF_vars(Forward)
    /\ \A c \in Clients :
          /\ WF_vars(Unregister(c))
          /\ SF_vars(Post(c))
          /\ WF_vars(ReadError(c))
          /\ WF_vars(Write(c))
          /\ WF_vars(WriteClose(c))
          /\ WF_vars(PingError(c))

Safety == Init /\ [][Next]_vars
Spec == Safety /\ Fairness

-----------------------------------------------------------------------------
Types ==
    /\ rooms \in [Rooms -> SUBSET Clients]
    /\ broadcast \in Seq(Messages)
    /\ reader \in [Clients -> {"none", "reading", "posting", "unregistering", "gone"}]
    /\ writer \in [Clients -> {"none", "writing", "gone"}]
    /\ conn \in [Clients -> {"none", "open", "lost", "closed"}]
    /\ send \in [Clients -> Seq(Messages)]
    /\ shut \subseteq Clients
    /\ posted \in [Clients -> Nat]
    /\ taken \in [Clients -> Seq(Messages)]
    /\ dropped \subseteq Clients

(* Types of the state; the channels hold no more than they have room for,  *)
(* whatever the handlers send at once; and a connection, also one that is  *)
(* turned away, has both its pumps or is yet to come: with one of them it  *)
(* would never be closed, or its Send never emptied.                       *)
TypeOK ==
    /\ Types
    /\ Len(broadcast) <= BroadcastCap
    /\ \A c \in Clients :
          /\ Len(send[c]) <= SendCap
          /\ reader[c] = "none" <=> conn[c] = "none"
          /\ writer[c] = "none" <=> conn[c] = "none"

(* A member of a room is a connection whose pumps run, in its own room,    *)
(* and its Send is not closed: the hub neither sends on a closed channel   *)
(* nor closes one twice, either of which would take the server down.       *)
MembersAreLive ==
    \A r \in Rooms : \A c \in rooms[r] :
        /\ RoomOf[c] = r
        /\ c \notin shut
        /\ reader[c] \in {"reading", "posting", "unregistering"}

(* A room never holds more than a pair. *)
RoomsArePairs == \A r \in Rooms : Cardinality(rooms[r]) <= RoomSize

(* Everything c was or will be told, in order. *)
Told(c) == taken[c] \o send[c]

(* Whatever a client hears first is room_status, or error when it was      *)
(* turned away: no signal and no peer_joined comes before.                 *)
GreetedFirst ==
    \A c \in Clients : Told(c) # <<>> =>
        Head(Told(c)).type \in {"room_status", "error"}

(* Signals of one connection reach another in the order they were sent,    *)
(* none of them twice, whatever was dropped in between.                    *)
SignalsInOrder ==
    \A c \in Clients : \A i, j \in DOMAIN Told(c) :
        /\ i < j
        /\ Told(c)[i].type = "signal"
        /\ Told(c)[j].type = "signal"
        /\ Told(c)[i].from = Told(c)[j].from
        => Told(c)[i].nr < Told(c)[j].nr

(* What a member that missed nothing was last told about its room is so:   *)
(* peer_joined names the one other member, anything else means it is alone.*)
IsMembership(message) == message.type # "signal"
ViewIsRoom ==
    \A c \in Clients : c \in Members(c) \ dropped =>
        \E i \in DOMAIN Told(c) :
            LET latest == Told(c)[i] IN
            /\ IsMembership(latest)
            /\ \A j \in DOMAIN Told(c) : IsMembership(Told(c)[j]) => j <= i
            /\ Members(c) \ {c} = IF latest.type = "peer_joined"
                                  THEN {latest.from} ELSE {}

(* The connection of a browser that went away is given up in the end: out  *)
(* of its room and both goroutines returned, also for one turned away.     *)
LostIsReleased ==
    \A c \in Clients :
        conn[c] = "lost" ~> /\ reader[c] = "gone" /\ writer[c] = "gone"
                            /\ c \notin Members(c)

(* A signal is forwarded to a member only from the other member of its     *)
(* room (hub.go: Forward message to the OTHER peer in the room).           *)
SignalsComeFromThePeer ==
    [][\A c \in Clients : Len(send'[c]) > Len(send[c]) =>
          LET newest == send'[c][Len(send'[c])]
          IN  newest.type = "signal" => newest.from \in Members(c) \ {c}]_vars
=============================================================================
