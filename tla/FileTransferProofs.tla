------------------------- MODULE FileTransferProofs -------------------------
(***************************************************************************)
(* Proofs about FileTransfer: its inductive invariant IInv, the safety     *)
(* properties that follow, and that it implements FileDelivery.            *)
(***************************************************************************)
EXTENDS FileTransfer, FiniteSetTheorems, SequenceTheorems, TLAPS

PcValues == {"idle", "yield", "drain", "read", "done", "cancelled",
             "interrupted", "failed", "stuck", "gone"}
Buttons == {"none", "cancel", "retry"}

(* There are two pages, and Other swaps them. *)
LEMMA OtherPage ==
    ASSUME NEW p \in Peers
    PROVE  Other(p) \in Peers /\ Other(p) # p
BY TransferAssumption DEF Other

(* A file has one owner, a chunk count and another page as recipient. *)
LEMMA OwnerType ==
    ASSUME NEW f \in FileIds
    PROVE  /\ Owner[f] \in Peers
           /\ Chunks[f] \in Nat
           /\ Recipient(f) \in Peers
           /\ Recipient(f) # Owner[f]
BY TransferAssumption, OtherPage DEF Recipient

(* What a step may do to the queues: drop some, append to one, take from one. *)
Dropped == \A path \in Paths, q \in Peers :
               wire'[path][q] = wire[path][q] \/ wire'[path][q] = <<>>
Appended(q, packet) ==
    \/ wire' = wire
    \/ \E path \in Paths : wire' = [wire EXCEPT ![path][q] = Append(@, packet)]
Taken(path, q) == wire' = [wire EXCEPT ![path][q] = Tail(@)]

WireType == wire \in [Paths -> [Peers -> Seq(Packets)]]

(* Sending adds at most one packet, to a queue of the other page. *)
LEMMA TransmitAppends ==
    ASSUME NEW p \in Peers, NEW packet, Transmit(p, packet)
    PROVE  Appended(Other(p), packet)
BY DEF Transmit, Appended, Paths

(* Queues that gain a packet remain queues of packets. *)
LEMMA AppendedType ==
    ASSUME WireType, NEW q \in Peers, NEW packet \in Packets, Appended(q, packet)
    PROVE  WireType'
<1>1. CASE wire' = wire
  BY <1>1 DEF WireType
<1>2. ASSUME NEW path \in Paths, wire' = [wire EXCEPT ![path][q] = Append(@, packet)]
      PROVE  WireType'
  <2>1. Append(wire[path][q], packet) \in Seq(Packets)
    BY AppendProperties DEF WireType
  <2> QED
    BY <1>2, <2>1 DEF WireType
<1> QED
  BY <1>1, <1>2 DEF Appended

(* Queues that lose their head remain queues of packets. *)
LEMMA TakenType ==
    ASSUME WireType, NEW path \in Paths, NEW q \in Peers,
           wire[path][q] # <<>>, Taken(path, q)
    PROVE  /\ WireType'
           /\ Head(wire[path][q]) \in Packets
<1>1. /\ Tail(wire[path][q]) \in Seq(Packets)
      /\ Head(wire[path][q]) \in Packets
  BY HeadTailProperties DEF WireType
<1> QED
  BY <1>1 DEF Taken, WireType

(* The packets the code sends are packets. *)
LEMMA PacketTypes ==
    ASSUME NEW f \in FileIds, NEW i \in Nat
    PROVE  Meta(f) \in Packets /\ Chunk(f, i) \in Packets /\ Cancel(f) \in Packets
BY DEF Meta, Chunk, Cancel, Packets

(* The head of the loop keeps the sender's state in its types. *)
LEMMA LoopTopType ==
    ASSUME TypeOK, NEW f \in FileIds, NEW n \in Nat,
           NEW shown \in [FileIds -> Buttons], LoopTop(f, n, shown)
    PROVE  /\ pc' \in [FileIds -> PcValues]
           /\ active' \in [Peers -> FileIds \cup {NoFile}]
           /\ button' \in [FileIds -> Buttons]
           /\ cancelledOut' \subseteq FileIds
           /\ hook' \in [Peers -> FileIds \cup {NoFile}]
<1> USE DEF TypeOK, PcValues, Buttons
<1>1. CASE Complete(f, shown)
  BY <1>1 DEF Complete
<1>2. CASE Abandon(f, shown)
  BY <1>2 DEF Abandon
<1>3. CASE Interrupt(f, shown)
  BY <1>3 DEF Interrupt, NotifyInterrupted
<1>4. CASE ReadOn(f, shown)
  BY <1>4 DEF ReadOn
<1>5. CASE WaitForBufferDrain(f, shown)
  BY <1>5 DEF WaitForBufferDrain
<1> QED
  BY <1>1, <1>2, <1>3, <1>4, <1>5 DEF LoopTop

(* A redraw only takes retry buttons away. *)
LEMMA RedrawnType ==
    ASSUME TypeOK, NEW f \in FileIds, NEW shown \in Redrawn(f)
    PROVE  /\ shown \in [FileIds -> Buttons]
           /\ \A g \in FileIds : shown[g] # button[g] =>
                 shown[g] = "none" /\ button[g] = "retry"
BY DEF TypeOK, Redrawn, Buttons

(* Storing chunks keeps the receiver's state in its types. *)
LEMMA StoreType ==
    ASSUME TypeOK, NEW f \in FileIds, NEW held \in SUBSET Nat,
           NEW complete, Store(f, held, complete)
    PROVE  /\ got' \in [FileIds -> SUBSET Nat]
           /\ incoming' \subseteq FileIds
           /\ saved' \in [FileIds -> Nat]
BY DEF TypeOK, Store

(* Releasing a file keeps the receiver's state in its types. *)
LEMMA ReleaseType ==
    ASSUME TypeOK, NEW f \in FileIds, Release(f)
    PROVE  /\ incoming' \subseteq FileIds
           /\ early' \in [FileIds -> SUBSET Nat]
           /\ got' \in [FileIds -> SUBSET Nat]
           /\ cancelledIn' \subseteq FileIds
           /\ saved' \in [FileIds -> Nat]
BY DEF TypeOK, Release

(* Handling a packet keeps the types. *)
LEMMA ReceiveType ==
    ASSUME TypeOK, NEW path \in Paths, NEW q \in Peers, Receive(path, q)
    PROVE  TypeOK'
<1> DEFINE packet == Head(wire[path][q])
<1>1. Taken(path, q) /\ wire[path][q] # <<>>
  BY DEF Receive, Taken
<1>2. wire' \in [Paths -> [Peers -> Seq(Packets)]] /\ packet \in Packets
  BY <1>1, TakenType DEF TypeOK, WireType
<1> DEFINE f == packet.file
<1>3. f \in FileIds /\ packet.seq \in Nat
  BY <1>2 DEF Packets
<1> USE DEF TypeOK, drainVars
<1>4. CASE packet.type = "meta"
  <2>1. ReceiveMeta(f) /\ UNCHANGED <<cancelledOut, button, active>>
    BY <1>4 DEF Receive
  <2>2. early[f] \in SUBSET Nat
    BY <1>3
  <2>3. /\ got' \in [FileIds -> SUBSET Nat]
        /\ incoming' \subseteq FileIds
        /\ early' \in [FileIds -> SUBSET Nat]
        /\ cancelledIn' \subseteq FileIds
        /\ saved' \in [FileIds -> Nat]
    BY <2>1, <2>2, <1>3, StoreType DEF ReceiveMeta, receiverVars
  <2> QED
    BY <1>2, <2>1, <2>3 DEF Receive
<1>5. CASE packet.type = "chunk"
  <2>1. ReceiveChunk(f, packet.seq) /\ UNCHANGED <<cancelledOut, button, active>>
    BY <1>5 DEF Receive
  <2>2. got[f] \cup {packet.seq} \in SUBSET Nat
    BY <1>3
  <2>3. /\ got' \in [FileIds -> SUBSET Nat]
        /\ incoming' \subseteq FileIds
        /\ early' \in [FileIds -> SUBSET Nat]
        /\ cancelledIn' \subseteq FileIds
        /\ saved' \in [FileIds -> Nat]
    <3> DEFINE full == Cardinality(got[f] \cup {packet.seq}) >= Chunks[f]
    <3>1. CASE Store(f, got[f] \cup {packet.seq}, full) /\ UNCHANGED <<early, cancelledIn>>
      <4> HIDE DEF full
      <4> QED
        BY <3>1, <2>2, <1>3, StoreType
    <3>2. CASE UNCHANGED receiverVars
      BY <3>2 DEF receiverVars
    <3>3. CASE /\ early' = [early EXCEPT ![f] = @ \cup {packet.seq}]
               /\ UNCHANGED <<incoming, got, cancelledIn, saved>>
      BY <3>3, <1>3
    <3> QED
      BY <2>1, <3>1, <3>2, <3>3 DEF ReceiveChunk
  <2> QED
    BY <1>2, <2>1, <2>3 DEF Receive
<1>6. CASE packet.type = "cancel"
  <2>1. ReceiveCancel(q, f)
    BY <1>6 DEF Receive
  <2>2. /\ active' \in [Peers -> FileIds \cup {NoFile}]
        /\ cancelledOut' \subseteq FileIds
        /\ button' \in [FileIds -> {"none", "cancel", "retry"}]
    BY <2>1, <1>3 DEF ReceiveCancel
  <2>3. /\ got' \in [FileIds -> SUBSET Nat]
        /\ incoming' \subseteq FileIds
        /\ early' \in [FileIds -> SUBSET Nat]
        /\ cancelledIn' \subseteq FileIds
        /\ saved' \in [FileIds -> Nat]
    BY <2>1, <1>3, ReleaseType DEF ReceiveCancel, receiverVars
  <2> QED
    BY <1>2, <2>2, <2>3 DEF Receive
<1> QED
  BY <1>4, <1>5, <1>6 DEF Receive

(* Sending a chunk keeps the types. *)
LEMMA SendChunkType ==
    ASSUME TypeOK, NEW f \in FileIds, SendChunk(f)
    PROVE  TypeOK'
<1>1. next[f] \in Nat /\ next[f] + 1 \in Nat
  BY DEF TypeOK
<1>2. wire' \in [Paths -> [Peers -> Seq(Packets)]]
  BY <1>1, OwnerType, OtherPage, PacketTypes, TransmitAppends, AppendedType
  DEF SendChunk, TypeOK, WireType
<1>3. PICK shown \in Redrawn(f) :
          \/ /\ pc' = [pc EXCEPT ![f] = "yield"]
             /\ button' = shown
             /\ UNCHANGED <<cancelledOut, active, hook>>
          \/ LoopTop(f, next[f] + 1, shown)
  BY DEF SendChunk
<1>4. shown \in [FileIds -> Buttons]
  BY <1>3, RedrawnType
<1>5. /\ pc' \in [FileIds -> PcValues]
      /\ active' \in [Peers -> FileIds \cup {NoFile}]
      /\ button' \in [FileIds -> Buttons]
      /\ cancelledOut' \subseteq FileIds
      /\ hook' \in [Peers -> FileIds \cup {NoFile}]
  <2>1. CASE LoopTop(f, next[f] + 1, shown)
    BY <2>1, <1>1, <1>4, LoopTopType
  <2>2. CASE ~LoopTop(f, next[f] + 1, shown)
    BY <2>2, <1>3, <1>4 DEF TypeOK, PcValues
  <2> QED
    BY <2>1, <2>2
<1>6. next' \in [FileIds -> Nat]
  BY <1>1 DEF SendChunk, TypeOK
<1> QED
  BY <1>2, <1>5, <1>6 DEF SendChunk, TypeOK, PcValues, Buttons, receiverVars

(* Starting to send keeps the types. *)
LEMMA StartSendType ==
    ASSUME TypeOK, NEW f \in FileIds, NEW replaced \in SUBSET FileIds,
           StartSend(f, replaced)
    PROVE  TypeOK'
<1>1. wire' \in [Paths -> [Peers -> Seq(Packets)]]
  BY OwnerType, OtherPage, PacketTypes, TransmitAppends, AppendedType
  DEF StartSend, TypeOK, WireType
<1> QED
  BY <1>1 DEF StartSend, TypeOK, drainVars, receiverVars

(* Cancelling, on either side, keeps the types. *)
LEMMA CancelType ==
    ASSUME TypeOK, NEW f \in FileIds, CancelOutgoing(f) \/ CancelIncoming(f)
    PROVE  TypeOK'
<1>1. wire' \in [Paths -> [Peers -> Seq(Packets)]]
  BY OwnerType, OtherPage, PacketTypes, TransmitAppends, AppendedType
  DEF CancelOutgoing, CancelIncoming, TypeOK, WireType
<1>2. CASE CancelOutgoing(f)
  BY <1>1, <1>2 DEF CancelOutgoing, TypeOK, drainVars, receiverVars
<1>3. CASE CancelIncoming(f)
  <2>1. Release(f)
    BY <1>3 DEF CancelIncoming
  <2> QED
    BY <1>1, <1>3, <2>1, ReleaseType DEF CancelIncoming, TypeOK, senderVars, drainVars
<1> QED
  BY <1>2, <1>3

(* The broker takes a packet out, and nothing else happens. *)
LEMMA LoseFacts ==
    ASSUME NEW p \in Peers, Lose(p)
    PROVE  /\ "relay" \in Paths
           /\ wire["relay"][p] # <<>> /\ Taken("relay", p)
           /\ UNCHANGED <<senderVars, drainVars, receiverVars>>
BY DEF Lose, Taken, Paths

(* Steps of the network and of the page: no packet is added. *)
NetStep(p) ==
    \/ PeerSeen(p) \/ PeerLost(p) \/ LeaveRoom(p) \/ Reload(p) \/ EnterRoom(p)
    \/ DcOpen(p) \/ DcClosed(p) \/ LinkUp \/ LinkDown

(* The presence, page and link steps keep the types. *)
LEMMA NetType ==
    ASSUME TypeOK, NEW p \in Peers, NetStep(p)
    PROVE  TypeOK' /\ Dropped
<1> USE DEF TypeOK, senderVars, drainVars, receiverVars, Paths
<1>0. <<>> \in Seq(Packets)
  BY EmptySeq
<1>1. CASE PeerSeen(p)
  BY <1>1 DEF PeerSeen, Dropped
<1>7. CASE EnterRoom(p)
  BY <1>7 DEF EnterRoom, Dropped
<1>8. CASE DcOpen(p)
  BY <1>8 DEF DcOpen, Dropped
<1>9. CASE LinkDown
  BY <1>9 DEF LinkDown, Dropped
<1>2. CASE PeerLost(p)
  <2>1. wire' \in [Paths -> [Peers -> Seq(Packets)]] /\ Dropped
    BY <1>0, <1>2 DEF PeerLost, Dropped
  <2>2. /\ button' \in [FileIds -> {"none", "cancel", "retry"}]
        /\ active' \in [Peers -> FileIds \cup {NoFile}]
    <3>1. \/ NotifyInterrupted(p, button)
          \/ button' = button /\ active' = active
      BY <1>2 DEF PeerLost
    <3> QED
      BY <3>1 DEF NotifyInterrupted
  <2>3. /\ orphaned' \subseteq FileIds
        /\ hook' \in [Peers -> FileIds \cup {NoFile}]
    BY <1>2 DEF PeerLost, CloseChannel
  <2> QED
    BY <1>2, <2>1, <2>2, <2>3 DEF PeerLost, CloseChannel
<1>3. CASE LeaveRoom(p)
  BY <1>0, <1>3 DEF LeaveRoom, CloseChannel, Dropped
<1>4. CASE Reload(p)
  BY <1>0, <1>4 DEF Reload, CloseChannel, Dropped
<1>5. CASE DcClosed(p)
  BY <1>0, <1>5 DEF DcClosed, Dropped
<1>6. CASE LinkUp
  BY <1>0, <1>6 DEF LinkUp, Dropped
<1> QED
  BY <1>1, <1>2, <1>3, <1>4, <1>5, <1>6, <1>7, <1>8, <1>9 DEF NetStep


(* A file read or a wait for the channel is over, well or badly. *)
AwaitOver(f) == DrainOver(f) \/ LateLow(f) \/ ReadFail(f)

(* Next, with the network's steps gathered. *)
LEMMA NextCases ==
    ASSUME Next
    PROVE  \/ \E f \in FileIds, replaced \in SUBSET FileIds : StartSend(f, replaced)
           \/ \E f \in FileIds : \/ Resume(f) \/ SendChunk(f) \/ AwaitOver(f)
                                 \/ CancelOutgoing(f) \/ CancelIncoming(f)
           \/ \E path \in Paths, p \in Peers : Receive(path, p)
           \/ \E p \in Peers : NetStep(p) \/ Lose(p)
<1> USE DEF Next, Work, Trouble, NetStep, AwaitOver
<1>1. CASE \E f \in FileIds : SendFile(f)
  BY <1>1 DEF SendFile
<1>2. CASE \E f, g \in FileIds : RetryFile(f, g)
  BY <1>2 DEF RetryFile
<1>3. CASE LinkUp \/ LinkDown
  BY <1>3, TransferAssumption
<1> QED
  BY <1>1, <1>2, <1>3

(* Every step keeps the types. *)
LEMMA TypeStep == TypeOK /\ [Next]_vars => TypeOK'
<1> SUFFICES ASSUME TypeOK, [Next]_vars PROVE TypeOK'
  OBVIOUS
<1>1. CASE UNCHANGED vars
  BY <1>1 DEF TypeOK, vars, senderVars, drainVars, receiverVars, netVars
<1>2. ASSUME NEW f \in FileIds, Resume(f) PROVE TypeOK'
  <2>1. next[f] \in Nat /\ button \in [FileIds -> Buttons]
    BY DEF TypeOK, Buttons
  <2>2. LoopTop(f, next[f], button)
    BY <1>2 DEF Resume
  <2>3. /\ pc' \in [FileIds -> PcValues]
        /\ active' \in [Peers -> FileIds \cup {NoFile}]
        /\ button' \in [FileIds -> Buttons]
        /\ cancelledOut' \subseteq FileIds
        /\ hook' \in [Peers -> FileIds \cup {NoFile}]
    BY <2>1, <2>2, LoopTopType
  <2> QED
    BY <1>2, <2>3 DEF Resume, TypeOK, PcValues, Buttons, receiverVars, netVars
<1>3. ASSUME NEW f \in FileIds, AwaitOver(f) PROVE TypeOK'
  BY <1>3 DEF AwaitOver, DrainOver, LateLow, ReadFail, TypeOK, drainVars,
              receiverVars, netVars
<1>4. ASSUME NEW p \in Peers, Lose(p) PROVE TypeOK'
  <2>1. WireType'
    BY <1>4, LoseFacts, TakenType DEF TypeOK, WireType
  <2> QED
    BY <1>4, <2>1 DEF Lose, TypeOK, WireType, senderVars, drainVars, receiverVars
<1> QED
  BY <1>1, <1>2, <1>3, <1>4, NextCases, StartSendType, SendChunkType, CancelType,
     ReceiveType, NetType

(* The initial state has its types. *)
LEMMA TypeInit == Init => TypeOK
<1>1. <<>> \in Seq(Packets)
  BY EmptySeq
<1>2. Init => wire \in [Paths -> [Peers -> Seq(Packets)]]
  BY <1>1 DEF Init
<1>3. Init => /\ got \in [FileIds -> SUBSET Nat]
              /\ early \in [FileIds -> SUBSET Nat]
              /\ saved \in [FileIds -> Nat]
              /\ next \in [FileIds -> Nat]
  BY DEF Init
<1>4. Init => /\ joined \in [Peers -> BOOLEAN]
              /\ up \in [Peers -> BOOLEAN]
              /\ dc \in [Peers -> BOOLEAN]
  BY DEF Init
<1>7. Init => link \in BOOLEAN
  BY Zenon DEF Init
<1>8. Init => active \in [Peers -> FileIds \cup {NoFile}]
  BY DEF Init
<1>5. Init => /\ cached \subseteq FileIds
              /\ cancelledOut \subseteq FileIds
              /\ incoming \subseteq FileIds
              /\ cancelledIn \subseteq FileIds
  BY DEF Init
<1>6. Init => /\ button \in [FileIds -> {"none", "cancel", "retry"}]
              /\ pc \in [FileIds -> {"idle", "yield", "drain", "read", "done",
                                      "cancelled", "interrupted", "failed",
                                      "stuck", "gone"}]
  BY DEF Init
<1>9. Init => /\ hook \in [Peers -> FileIds \cup {NoFile}]
              /\ orphaned \subseteq FileIds
  BY DEF Init
<1> QED
  BY <1>2, <1>3, <1>4, <1>5, <1>6, <1>7, <1>8, <1>9 DEF TypeOK

(* The state keeps its types, for any files, chunk counts and faults. *)
THEOREM TypeCorrect == Safety => []TypeOK
<1> QED
  BY TypeInit, TypeStep, PTL DEF Safety


-----------------------------------------------------------------------------
(* The parts of Causality and MetaOnce that speak of packets on their way. *)
Good(q, packet) ==
    /\ packet.type # "cancel" => q = Recipient(packet.file)
    /\ packet.type = "chunk" => packet.seq < next[packet.file]

WireCausal ==
    \A path \in Paths, q \in Peers : \A i \in DOMAIN wire[path][q] :
        Good(q, wire[path][q][i])

InFlight(f) ==
    \E path \in Paths, q \in Peers : \E i \in DOMAIN wire[path][q] :
        IsMeta(wire[path][q][i], f)

MetaUnique(f) ==
    \A c, d \in Paths, q, r \in Peers :
        \A i \in DOMAIN wire[c][q], j \in DOMAIN wire[d][r] :
            IsMeta(wire[c][q][i], f) /\ IsMeta(wire[d][r][j], f)
                => c = d /\ q = r /\ i = j

Held(f) ==
    /\ InFlight(f) => f \notin incoming /\ saved[f] = 0 /\ pc[f] # "idle"
    /\ f \in incoming => saved[f] = 0 /\ pc[f] # "idle"
    /\ saved[f] > 0 => saved[f] = 1 /\ pc[f] # "idle"

(* Causality, split into its wire half and its sender half. *)
LEMMA CausalityParts ==
    Causality <=> /\ WireCausal
                  /\ \A f \in FileIds :
                        /\ next[f] <= Chunks[f]
                        /\ pc[f] \in {"read", "drain"} => next[f] < Chunks[f]
                        /\ pc[f] = "idle" => next[f] = 0
                        /\ \A i \in got[f] \cup early[f] : i < next[f]
BY DEF Causality, WireCausal, Good

(* MetaOnce, one file at a time. *)
LEMMA MetaOnceParts ==
    MetaOnce <=> \A f \in FileIds : MetaUnique(f) /\ Held(f)
BY DEF MetaOnce, MetaUnique, Held, InFlight

(* Where the packets of a queue were before the step. *)
LEMMA TakenAt ==
    ASSUME WireType, NEW path \in Paths, NEW q \in Peers,
           wire[path][q] # <<>>, Taken(path, q),
           NEW c \in Paths, NEW r \in Peers, NEW i \in DOMAIN wire'[c][r]
    PROVE  /\ i \in Nat
           /\ c = path /\ r = q =>
                 /\ i + 1 \in DOMAIN wire[c][r]
                 /\ wire'[c][r][i] = wire[c][r][i + 1]
           /\ ~(c = path /\ r = q) => wire'[c][r] = wire[c][r]
<1>0. wire[c][r] \in Seq(Packets) /\ wire'[c][r] \in Seq(Packets)
  BY TakenType DEF WireType
<1>1. i \in Nat
  BY <1>0, LenProperties
<1>2. CASE c = path /\ r = q
  <2>1. wire'[c][r] = Tail(wire[c][r])
    BY <1>2 DEF Taken, WireType
  <2> QED
    BY <1>0, <1>1, <1>2, <2>1, HeadTailProperties, LenProperties
<1>3. CASE ~(c = path /\ r = q)
  BY <1>1, <1>3 DEF Taken, WireType
<1> QED
  BY <1>2, <1>3

(* A packet of a queue that may have grown is old or the new one. *)
LEMMA AppendedAt ==
    ASSUME WireType, NEW q \in Peers, NEW packet \in Packets,
           NEW path \in Paths,
           wire' = [wire EXCEPT ![path][q] = Append(@, packet)],
           NEW c \in Paths, NEW r \in Peers, NEW i \in DOMAIN wire'[c][r]
    PROVE  /\ i \in Nat
           /\ \/ /\ i \in DOMAIN wire[c][r]
                 /\ wire'[c][r][i] = wire[c][r][i]
              \/ /\ c = path /\ r = q
                 /\ i = Len(wire[path][q]) + 1
                 /\ wire'[c][r][i] = packet
<1>0. wire[c][r] \in Seq(Packets)
  BY DEF WireType
<1>1. CASE c = path /\ r = q
  <2>1. wire'[c][r] = Append(wire[c][r], packet)
    BY <1>1 DEF WireType
  <2> QED
    BY <1>0, <1>1, <2>1, AppendProperties, LenProperties
<1>2. CASE ~(c = path /\ r = q)
  <2>1. wire'[c][r] = wire[c][r]
    BY <1>2 DEF WireType
  <2> QED
    BY <1>0, <2>1, LenProperties
<1> QED
  BY <1>1, <1>2

(* A packet of queues of which some were emptied was there before. *)
LEMMA DroppedAt ==
    ASSUME Dropped, NEW c \in Paths, NEW r \in Peers, NEW i \in DOMAIN wire'[c][r]
    PROVE  wire'[c][r] = wire[c][r]
<1>1. CASE wire'[c][r] = <<>>
  <2>1. DOMAIN wire'[c][r] = {}
    BY <1>1
  <2> QED
    BY <2>1
<1> QED
  BY <1>1 DEF Dropped

(* Good packets stay good while the senders only move forward. *)
LEMMA WireCausalStep ==
    ASSUME WireType, WireCausal, next \in [FileIds -> Nat],
           next' \in [FileIds -> Nat],
           \A f \in FileIds : next[f] <= next'[f],
           \/ Dropped
           \/ \E q \in Peers, packet \in Packets :
                 Appended(q, packet) /\ Good(q, packet)'
           \/ \E path \in Paths, q \in Peers :
                 wire[path][q] # <<>> /\ Taken(path, q)
    PROVE  WireCausal'
<1> SUFFICES ASSUME NEW c \in Paths, NEW r \in Peers, NEW i \in DOMAIN wire'[c][r]
             PROVE  Good(r, wire[c][r][i])'
  BY DEF WireCausal
<1> DEFINE Kept(j) == j \in DOMAIN wire[c][r] /\ wire'[c][r][i] = wire[c][r][j]
<1>1. ASSUME NEW j, Kept(j) PROVE Good(r, wire[c][r][i])'
  <2>1. wire[c][r][j] \in Packets
    BY <1>1, ElementOfSeq, LenProperties DEF WireType
  <2>2. Good(r, wire[c][r][j])
    BY <1>1 DEF WireCausal
  <2> QED
    BY <1>1, <2>1, <2>2 DEF Good, Packets
<1>2. CASE Dropped
  BY <1>1, <1>2, DroppedAt
<1>3. ASSUME NEW q \in Peers, NEW packet \in Packets,
             Appended(q, packet), Good(q, packet)'
      PROVE  Good(r, wire[c][r][i])'
  <2>1. CASE wire' = wire
    BY <2>1, <1>1
  <2>2. ASSUME NEW path \in Paths,
               wire' = [wire EXCEPT ![path][q] = Append(@, packet)]
        PROVE  Good(r, wire[c][r][i])'
    <3>1. CASE Kept(i)
      BY <3>1, <1>1
    <3>2. CASE r = q /\ wire'[c][r][i] = packet
      BY <3>2, <1>3 DEF Good
    <3> QED
      BY <2>2, <3>1, <3>2, AppendedAt
  <2> QED
    BY <1>3, <2>1, <2>2 DEF Appended
<1>4. ASSUME NEW path \in Paths, NEW q \in Peers,
             wire[path][q] # <<>>, Taken(path, q)
      PROVE  Good(r, wire[c][r][i])'
  BY <1>1, <1>4, TakenAt
<1> QED
  BY <1>2, <1>3, <1>4


(* Dropping and taking packets, and adding one that is no META of f.       *)
LEMMA MetaKept ==
    ASSUME WireType, NEW f \in FileIds, MetaUnique(f),
           \/ Dropped
           \/ \E q \in Peers, packet \in Packets :
                 Appended(q, packet) /\ ~IsMeta(packet, f)
           \/ \E path \in Paths, q \in Peers :
                 wire[path][q] # <<>> /\ Taken(path, q)
    PROVE  /\ MetaUnique(f)'
           /\ InFlight(f)' => InFlight(f)
<1> DEFINE M(c, r, i) == i \in DOMAIN wire[c][r] /\ IsMeta(wire[c][r][i], f)
           N(c, r, i) == i \in DOMAIN wire'[c][r] /\ IsMeta(wire'[c][r][i], f)
           Same == \A c \in Paths, r \in Peers : \A i : N(c, r, i) => M(c, r, i)
           Shifted(path, q) ==
               \A c \in Paths, r \in Peers : \A i : N(c, r, i) =>
                   /\ i \in Nat
                   /\ c = path /\ r = q => M(c, r, i + 1)
                   /\ ~(c = path /\ r = q) => M(c, r, i)
<1>1. Same \/ \E path \in Paths, q \in Peers : Shifted(path, q)
  <2>1. CASE Dropped
    BY <2>1, DroppedAt
  <2>2. ASSUME NEW q \in Peers, NEW packet \in Packets,
               Appended(q, packet), ~IsMeta(packet, f)
        PROVE  Same
    <3>1. CASE wire' = wire
      BY <3>1
    <3>2. ASSUME NEW path \in Paths,
                 wire' = [wire EXCEPT ![path][q] = Append(@, packet)],
                 NEW c \in Paths, NEW r \in Peers, NEW i, N(c, r, i)
          PROVE  M(c, r, i)
      BY <2>2, <3>2, AppendedAt
    <3> QED
      BY <2>2, <3>1, <3>2 DEF Appended
  <2>3. ASSUME NEW path \in Paths, NEW q \in Peers,
               wire[path][q] # <<>>, Taken(path, q)
        PROVE  Shifted(path, q)
    <3> SUFFICES ASSUME NEW c \in Paths, NEW r \in Peers, NEW i, N(c, r, i)
                 PROVE  /\ i \in Nat
                        /\ c = path /\ r = q => M(c, r, i + 1)
                        /\ ~(c = path /\ r = q) => M(c, r, i)
      OBVIOUS
    <3> QED
      BY <2>3, TakenAt
  <2> HIDE DEF Same, Shifted
  <2> QED
    BY <2>1, <2>2, <2>3
<1>2. MetaUnique(f) <=> \A c, d \in Paths, q, r \in Peers : \A i, j :
          M(c, q, i) /\ M(d, r, j) => c = d /\ q = r /\ i = j
  BY DEF MetaUnique
<1>3. MetaUnique(f)' <=> \A c, d \in Paths, q, r \in Peers : \A i, j :
          N(c, q, i) /\ N(d, r, j) => c = d /\ q = r /\ i = j
  BY DEF MetaUnique
<1>4. InFlight(f) <=> \E c \in Paths, r \in Peers : \E i : M(c, r, i)
  BY DEF InFlight
<1>5. InFlight(f)' <=> \E c \in Paths, r \in Peers : \E i : N(c, r, i)
  BY DEF InFlight
<1> HIDE DEF M, N
<1>6. InFlight(f)' => InFlight(f)
  BY <1>1, <1>4, <1>5
<1>7. MetaUnique(f)'
  <2> SUFFICES ASSUME NEW c \in Paths, NEW d \in Paths, NEW q \in Peers, NEW r \in Peers,
                      NEW i, NEW j, N(c, q, i), N(d, r, j)
               PROVE  c = d /\ q = r /\ i = j
    BY <1>3
  <2>1. CASE Same
    BY <2>1, <1>2
  <2>2. ASSUME NEW path \in Paths, NEW p \in Peers, Shifted(path, p)
        PROVE  c = d /\ q = r /\ i = j
    <3>1. i \in Nat /\ j \in Nat
      BY <2>2
    <3>2. c = d /\ q = r
      BY <2>2, <1>2
    <3>3. i + 1 = j + 1 \/ i = j
      BY <2>2, <1>2, <3>2
    <3> QED
      BY <3>1, <3>2, <3>3
  <2> HIDE DEF Same, Shifted
  <2> QED
    BY <1>1, <2>1, <2>2
<1> QED
  BY <1>6, <1>7

(* Taking the META of f leaves none. *)
LEMMA MetaTaken ==
    ASSUME WireType, NEW f \in FileIds, MetaUnique(f),
           NEW path \in Paths, NEW q \in Peers,
           wire[path][q] # <<>>, Taken(path, q), IsMeta(Head(wire[path][q]), f)
    PROVE  InFlight(f) /\ ~InFlight(f)'
<1>1. /\ 1 \in DOMAIN wire[path][q]
      /\ Head(wire[path][q]) = wire[path][q][1]
  BY LenProperties, HeadTailProperties, EmptySeq DEF WireType
<1>2. InFlight(f)
  BY <1>1 DEF InFlight
<1>3. ASSUME NEW c \in Paths, NEW r \in Peers, NEW i \in DOMAIN wire'[c][r],
             IsMeta(wire'[c][r][i], f)
      PROVE  FALSE
  <2>1. CASE c = path /\ r = q
    <3>1. /\ i \in Nat
          /\ i + 1 \in DOMAIN wire[c][r]
          /\ IsMeta(wire[c][r][i + 1], f)
      BY <2>1, <1>3, TakenAt
    <3>2. i + 1 = 1
      BY <3>1, <2>1, <1>1 DEF MetaUnique
    <3>3. i # 0
      <4>1. wire'[c][r] \in Seq(Packets)
        BY TakenType DEF WireType
      <4> QED
        BY <4>1, LenProperties
    <3> QED
      BY <3>1, <3>2, <3>3
  <2>2. CASE ~(c = path /\ r = q)
    <3>1. i \in DOMAIN wire[c][r] /\ IsMeta(wire[c][r][i], f)
      BY <2>2, <1>3, TakenAt
    <3> QED
      BY <3>1, <2>2, <1>1 DEF MetaUnique
  <2> QED
    BY <2>1, <2>2
<1> QED
  BY <1>2, <1>3 DEF InFlight

(* Sending the META of a file that has none on its way. *)
LEMMA MetaSent ==
    ASSUME WireType, NEW f \in FileIds, ~InFlight(f), NEW q \in Peers,
           NEW packet \in Packets, Appended(q, packet)
    PROVE  MetaUnique(f)'
<1>1. CASE wire' = wire
  BY <1>1 DEF MetaUnique, InFlight
<1>2. ASSUME NEW path \in Paths,
             wire' = [wire EXCEPT ![path][q] = Append(@, packet)]
      PROVE  MetaUnique(f)'
  <2>1. ASSUME NEW c \in Paths, NEW r \in Peers, NEW i \in DOMAIN wire'[c][r],
               IsMeta(wire'[c][r][i], f)
        PROVE  c = path /\ r = q /\ i = Len(wire[path][q]) + 1
    BY <1>2, <2>1, AppendedAt DEF InFlight
  <2> QED
    BY <2>1 DEF MetaUnique
<1> QED
  BY <1>1, <1>2 DEF Appended


-----------------------------------------------------------------------------
(* How far a sender may be: the parts of Causality about pc and next.      *)
Paced(f) ==
    /\ next[f] <= Chunks[f]
    /\ pc[f] \in {"read", "drain"} => next[f] < Chunks[f]
    /\ pc[f] = "idle" => next[f] = 0

(* A step moves senders forward only; a started loop is never idle again.  *)
Forward(f) ==
    /\ next[f] <= next'[f]
    /\ pc[f] # "idle" => pc'[f] # "idle"

(* The head of the loop only moves its own program counter. *)
LEMMA LoopTopMoves ==
    ASSUME TypeOK, NEW f \in FileIds, NEW n \in Nat, n <= Chunks[f],
           NEW shown, LoopTop(f, n, shown)
    PROVE  /\ pc'[f] \in {"done", "cancelled", "interrupted", "read", "drain"}
           /\ pc'[f] \in {"read", "drain"} => n < Chunks[f]
           /\ \A g \in FileIds \ {f} : pc'[g] = pc[g]
<1>0. Chunks[f] \in Nat
  BY OwnerType
<1> USE <1>0 DEF TypeOK
<1>1. CASE n = Chunks[f] /\ Complete(f, shown)
  BY <1>1 DEF Complete
<1>2. CASE Abandon(f, shown)
  BY <1>2 DEF Abandon
<1>3. CASE Interrupt(f, shown)
  BY <1>3 DEF Interrupt
<1>4. CASE n # Chunks[f] /\ ReadOn(f, shown)
  BY <1>4 DEF ReadOn
<1>5. CASE n # Chunks[f] /\ WaitForBufferDrain(f, shown)
  BY <1>5 DEF WaitForBufferDrain
<1> QED
  BY <1>1, <1>2, <1>3, <1>4, <1>5 DEF LoopTop

(* Every step keeps Paced: next stays within the file's chunks. *)
LEMMA PaceStep ==
    ASSUME TypeOK, [Next]_vars, \A f \in FileIds : Paced(f)
    PROVE  \A f \in FileIds : Paced(f)' /\ Forward(f)
<1> USE DEF TypeOK, Paced, Forward
<1>0. \A f \in FileIds : Chunks[f] \in Nat
  BY OwnerType
<1>1. CASE UNCHANGED <<pc, next>>
  BY <1>1
<1>2. ASSUME NEW g \in FileIds, NEW replaced \in SUBSET FileIds, StartSend(g, replaced)
      PROVE  \A f \in FileIds : Paced(f)' /\ Forward(f)
  BY <1>2 DEF StartSend
<1>3. ASSUME NEW g \in FileIds, Resume(g)
      PROVE  \A f \in FileIds : Paced(f)' /\ Forward(f)
  <2>1. /\ next[g] \in Nat /\ next[g] <= Chunks[g]
        /\ LoopTop(g, next[g], button) /\ next' = next
    BY <1>3 DEF Resume
  <2>2. /\ pc'[g] \in {"done", "cancelled", "interrupted", "read", "drain"}
        /\ pc'[g] \in {"read", "drain"} => next[g] < Chunks[g]
        /\ \A h \in FileIds \ {g} : pc'[h] = pc[h]
    BY <2>1, LoopTopMoves
  <2> QED
    BY <2>1, <2>2
<1>4. ASSUME NEW g \in FileIds, SendChunk(g)
      PROVE  \A f \in FileIds : Paced(f)' /\ Forward(f)
  <2>1. /\ next[g] \in Nat /\ next[g] + 1 <= Chunks[g] /\ next[g] + 1 \in Nat
        /\ next' = [next EXCEPT ![g] = @ + 1]
    BY <1>4, <1>0 DEF SendChunk
  <2>2. /\ pc'[g] \in {"done", "cancelled", "interrupted", "read", "drain", "yield"}
        /\ pc'[g] \in {"read", "drain"} => next[g] + 1 < Chunks[g]
        /\ \A h \in FileIds \ {g} : pc'[h] = pc[h]
    <3>1. CASE pc' = [pc EXCEPT ![g] = "yield"]
      BY <3>1
    <3>2. ASSUME NEW shown, LoopTop(g, next[g] + 1, shown)
          PROVE  /\ pc'[g] \in {"done", "cancelled", "interrupted", "read", "drain"}
                 /\ pc'[g] \in {"read", "drain"} => next[g] + 1 < Chunks[g]
                 /\ \A h \in FileIds \ {g} : pc'[h] = pc[h]
      BY <2>1, <3>2, LoopTopMoves
    <3> QED
      BY <1>4, <3>1, <3>2 DEF SendChunk
  <2> QED
    BY <1>0, <2>1, <2>2
<1>5. ASSUME NEW g \in FileIds, AwaitOver(g)
      PROVE  \A f \in FileIds : Paced(f)' /\ Forward(f)
  BY <1>5 DEF AwaitOver, DrainOver, LateLow, ReadFail
<1>6. ASSUME NEW p \in Peers, NetStep(p), ~UNCHANGED <<pc, next>>
      PROVE  \A f \in FileIds : Paced(f)' /\ Forward(f)
  <2>1. Reload(p)
    BY <1>6 DEF NetStep, PeerSeen, PeerLost, LeaveRoom, EnterRoom, DcOpen, DcClosed,
                LinkUp, LinkDown, senderVars
  <2> QED
    BY <2>1 DEF Reload
<1>7. ASSUME NEW g \in FileIds, CancelOutgoing(g) \/ CancelIncoming(g)
      PROVE  UNCHANGED <<pc, next>>
  BY <1>7 DEF CancelOutgoing, CancelIncoming, senderVars
<1>8. ASSUME NEW path \in Paths, NEW p \in Peers, Receive(path, p)
      PROVE  UNCHANGED <<pc, next>>
  BY <1>8 DEF Receive
<1>9. UNCHANGED vars => UNCHANGED <<pc, next>>
  BY DEF vars, senderVars
<1>10. ASSUME NEW p \in Peers, Lose(p) PROVE UNCHANGED <<pc, next>>
  BY <1>10, LoseFacts DEF senderVars
<1> QED
  BY <1>1, <1>2, <1>3, <1>4, <1>5, <1>6, <1>7, <1>8, <1>9, <1>10, NextCases

(* A set of chunks that were handed over and are as many as the file has   *)
(* is the whole file, and all of it was handed over.                       *)
LEMMA CountedIsWhole ==
    ASSUME NEW f \in FileIds, TypeOK, Paced(f), NEW held \in SUBSET Nat, held # {},
           \A i \in held : i < next[f], Cardinality(held) >= Chunks[f]
    PROVE  held = Whole(f) /\ next[f] = Chunks[f]
<1>0. next[f] \in Nat /\ Chunks[f] \in Nat /\ next[f] <= Chunks[f]
  BY OwnerType DEF TypeOK, Paced
<1>1. held \subseteq Whole(f)
  BY <1>0 DEF Whole
<1>2. Chunks[f] # 0
  <2>1. PICK i \in held : i < next[f]
    OBVIOUS
  <2> QED
    BY <1>0, <2>1
<1>3. /\ IsFiniteSet(Whole(f))
      /\ Cardinality(Whole(f)) = Chunks[f]
  BY <1>0, <1>2, FS_Interval DEF Whole
<1>4. /\ IsFiniteSet(held) /\ Cardinality(held) \in Nat
      /\ Cardinality(held) <= Cardinality(Whole(f))
      /\ Cardinality(held) = Cardinality(Whole(f)) => held = Whole(f)
  BY <1>1, <1>3, FS_Subset, FS_CardinalityType
<1>5. held = Whole(f)
  BY <1>0, <1>3, <1>4
<1>6. Chunks[f] - 1 \in held
  BY <1>0, <1>2, <1>5 DEF Whole
<1> QED
  BY <1>0, <1>5, <1>6


-----------------------------------------------------------------------------
(* What the steps do to the packets under way. *)
LEMMA StartSendFacts ==
    ASSUME TypeOK, NEW g \in FileIds, NEW replaced, StartSend(g, replaced)
    PROVE  /\ Appended(Recipient(g), Meta(g))
           /\ Meta(g) \in Packets
           /\ pc[g] = "idle" /\ pc' = [pc EXCEPT ![g] = "yield"]
           /\ UNCHANGED <<next, receiverVars>>
<1>1. 0 \in Nat
  OBVIOUS
<1> QED
  BY <1>1, OwnerType, TransmitAppends, PacketTypes DEF StartSend, Recipient

(* What sending a chunk puts on the wire. *)
LEMMA SendChunkFacts ==
    ASSUME TypeOK, NEW g \in FileIds, SendChunk(g)
    PROVE  /\ Appended(Recipient(g), Chunk(g, next[g]))
           /\ Chunk(g, next[g]) \in Packets
           /\ next' = [next EXCEPT ![g] = @ + 1]
           /\ UNCHANGED receiverVars
BY OwnerType, TransmitAppends, PacketTypes DEF SendChunk, Recipient, TypeOK

(* What cancelling puts on the wire. *)
LEMMA CancelFacts ==
    ASSUME TypeOK, NEW g \in FileIds, CancelOutgoing(g) \/ CancelIncoming(g)
    PROVE  /\ \E q \in Peers : Appended(q, Cancel(g))
           /\ Cancel(g) \in Packets
           /\ UNCHANGED <<pc, next>>
           /\ Release(g) \/ UNCHANGED receiverVars
<1>1. 0 \in Nat
  OBVIOUS
<1>2. Owner[g] \in Peers /\ Recipient(g) \in Peers
      /\ Other(Owner[g]) \in Peers /\ Other(Recipient(g)) \in Peers
  BY OwnerType, OtherPage
<1>3. Cancel(g) \in Packets
  BY <1>1, PacketTypes
<1>4. CASE CancelOutgoing(g)
  BY <1>2, <1>3, <1>4, TransmitAppends DEF CancelOutgoing
<1>5. CASE CancelIncoming(g)
  BY <1>2, <1>3, <1>5, TransmitAppends DEF CancelIncoming, senderVars
<1> QED
  BY <1>4, <1>5

(* What handling a packet takes from the wire. *)
LEMMA ReceiveFacts ==
    ASSUME TypeOK, NEW path \in Paths, NEW q \in Peers, Receive(path, q)
    PROVE  /\ wire[path][q] # <<>> /\ Taken(path, q)
           /\ Head(wire[path][q]) \in Packets
           /\ UNCHANGED <<pc, next>>
<1>1. wire[path][q] # <<>> /\ Taken(path, q) /\ UNCHANGED <<pc, next>>
  BY DEF Receive, Taken
<1> QED
  BY <1>1, TakenType DEF TypeOK, WireType

(* No step doubles a META; only the start of its file puts one under way.  *)
LEMMA MetaStep ==
    ASSUME TypeOK, [Next]_vars, NEW f \in FileIds, MetaUnique(f), Held(f)
    PROVE  /\ MetaUnique(f)'
           /\ InFlight(f)' => \/ InFlight(f)
                              \/ pc[f] = "idle" /\ pc'[f] = "yield"
<1>0. WireType
  BY DEF TypeOK, WireType
<1>1. ASSUME NEW g \in FileIds, NEW replaced \in SUBSET FileIds, StartSend(g, replaced)
      PROVE  /\ MetaUnique(f)'
             /\ InFlight(f)' => \/ InFlight(f)
                                \/ pc[f] = "idle" /\ pc'[f] = "yield"
  <2>1. CASE g = f
    <3>1. ~InFlight(f) /\ pc[f] = "idle" /\ pc'[f] = "yield"
      BY <1>1, <2>1, StartSendFacts DEF Held, TypeOK
    <3> QED
      BY <1>0, <1>1, <2>1, <3>1, StartSendFacts, MetaSent, OwnerType
  <2>2. CASE g # f
    <3>1. ~IsMeta(Meta(g), f)
      BY <2>2 DEF IsMeta, Meta
    <3> QED
      BY <1>0, <1>1, <3>1, StartSendFacts, MetaKept, OwnerType
  <2> QED
    BY <2>1, <2>2
<1>2. ASSUME NEW g \in FileIds, SendChunk(g)
      PROVE  MetaUnique(f)' /\ (InFlight(f)' => InFlight(f))
  <2>1. ~IsMeta(Chunk(g, next[g]), f)
    BY DEF IsMeta, Chunk
  <2> QED
    BY <1>0, <1>2, <2>1, SendChunkFacts, MetaKept, OwnerType
<1>3. ASSUME NEW g \in FileIds, CancelOutgoing(g) \/ CancelIncoming(g)
      PROVE  MetaUnique(f)' /\ (InFlight(f)' => InFlight(f))
  <2>1. ~IsMeta(Cancel(g), f)
    BY DEF IsMeta, Cancel
  <2> QED
    BY <1>0, <1>3, <2>1, CancelFacts, MetaKept
<1>4. ASSUME NEW path \in Paths, NEW p \in Peers, Receive(path, p)
      PROVE  MetaUnique(f)' /\ (InFlight(f)' => InFlight(f))
  BY <1>0, <1>4, ReceiveFacts, MetaKept
<1>5. ASSUME NEW p \in Peers, NetStep(p)
      PROVE  MetaUnique(f)' /\ (InFlight(f)' => InFlight(f))
  BY <1>0, <1>5, NetType, MetaKept
<1>6. CASE wire' = wire
  BY <1>6 DEF MetaUnique, InFlight
<1>7. ASSUME NEW g \in FileIds, Resume(g) \/ AwaitOver(g) PROVE wire' = wire
  BY <1>7 DEF Resume, AwaitOver, DrainOver, LateLow, ReadFail, netVars
<1>8. UNCHANGED vars => wire' = wire
  BY DEF vars, netVars
<1>9. ASSUME NEW p \in Peers, Lose(p)
      PROVE  MetaUnique(f)' /\ (InFlight(f)' => InFlight(f))
  BY <1>0, <1>9, LoseFacts, MetaKept
<1> QED
  BY <1>1, <1>2, <1>3, <1>4, <1>5, <1>6, <1>7, <1>8, <1>9, NextCases


-----------------------------------------------------------------------------
(* What the receiver knows of f. *)
Received(f) ==
    /\ \A i \in got[f] \cup early[f] : i < next[f]
    /\ saved[f] > 0 => got[f] = Whole(f)
    /\ f \in cancelledIn => f \notin incoming /\ early[f] = {}
    /\ Held(f)

(* FileDelivery's step on f: nothing, or its one delivery. *)
DeliveredStep(f) ==
    \/ saved'[f] = saved[f]
    \/ saved[f] = 0 /\ saved'[f] = 1 /\ next[f] = Chunks[f]

(* A step that leaves the receiver alone keeps Received. *)
LEMMA IdleReceiver ==
    ASSUME TypeOK, NEW f \in FileIds, Received(f), Forward(f),
           next' \in [FileIds -> Nat],
           UNCHANGED <<incoming, got, early, cancelledIn, saved>>,
           InFlight(f)' => \/ InFlight(f)
                           \/ pc[f] = "idle" /\ pc'[f] = "yield"
    PROVE  Received(f)'
<1>1. \A i \in got'[f] \cup early'[f] : i < next'[f]
  BY DEF Received, Forward, TypeOK
<1>2. Held(f)'
  <2>1. saved[f] \in Nat /\ saved'[f] = saved[f]
    BY DEF TypeOK
  <2> QED
    BY <2>1 DEF Received, Held, Forward
<1> QED
  BY <1>1, <1>2 DEF Received, Whole

(* Releasing a file keeps Received. *)
LEMMA ReleasingReceiver ==
    ASSUME TypeOK, NEW f \in FileIds, NEW g \in FileIds, Received(f), Release(g),
           UNCHANGED <<pc, next>>, InFlight(f)' => InFlight(f)
    PROVE  Received(f)' /\ saved'[f] = saved[f]
<1>1. /\ \A i \in got'[f] \cup early'[f] : i < next'[f]
      /\ saved'[f] > 0 => got'[f] = Whole(f)
  BY DEF Received, Held, Release, TypeOK
<1>2. f \in cancelledIn' => f \notin incoming' /\ early'[f] = {}
  BY DEF Received, Release, TypeOK
<1>3. Held(f)'
  BY DEF Received, Held, Release
<1> QED
  BY <1>1, <1>2, <1>3 DEF Received, Whole, Release

(* Storing handed-over chunks keeps Received. *)
LEMMA StoringReceiver ==
    ASSUME TypeOK, NEW f \in FileIds, Received(f), Paced(f), UNCHANGED <<pc, next>>,
           NEW held \in SUBSET Nat, \A i \in held : i < next[f],
           f \notin cancelledIn, saved[f] = 0, pc[f] # "idle", ~InFlight(f)',
           NEW complete,
           complete => held # {} /\ Cardinality(held) >= Chunks[f],
           Store(f, held, complete),
           early' = early \/ early' = [early EXCEPT ![f] = {}],
           cancelledIn' = cancelledIn
    PROVE  Received(f)' /\ DeliveredStep(f)
<1>1. /\ \A i \in got'[f] \cup early'[f] : i < next'[f]
  BY DEF Received, Store, TypeOK
<1>2. CASE complete
  <2>1. held = Whole(f) /\ next[f] = Chunks[f]
    BY <1>2, CountedIsWhole
  <2>2. /\ got'[f] = held
        /\ f \notin incoming'
        /\ saved'[f] = 1
    BY <1>2 DEF Store, TypeOK
  <2>3. Held(f)'
    BY <2>2 DEF Held
  <2> QED
    BY <1>1, <2>1, <2>2, <2>3 DEF Received, DeliveredStep, Whole
<1>3. CASE ~complete
  <2>1. saved'[f] = 0
    BY <1>3 DEF Store
  <2>2. Held(f)'
    BY <2>1 DEF Held
  <2> QED
    BY <1>1, <2>1, <2>2 DEF Received, DeliveredStep
<1> QED
  BY <1>2, <1>3

(* What happens to one file does not touch what is held of another. *)
LEMMA OtherFileReceiver ==
    ASSUME TypeOK, NEW f \in FileIds, Received(f), UNCHANGED <<pc, next>>,
           saved'[f] = saved[f], got'[f] = got[f], early'[f] = early[f],
           f \in incoming' <=> f \in incoming,
           f \in cancelledIn' <=> f \in cancelledIn,
           InFlight(f)' => InFlight(f)
    PROVE  Received(f)'
<1>1. Held(f)'
  BY DEF Received, Held
<1> QED
  BY <1>1 DEF Received, Whole


(* handleIncomingPacket at the receiver *)
LEMMA ReceivingReceiver ==
    ASSUME TypeOK, NEW f \in FileIds, Received(f), Paced(f), MetaUnique(f),
           WireCausal, NEW path \in Paths, NEW q \in Peers, Receive(path, q),
           InFlight(f)' => InFlight(f)
    PROVE  Received(f)' /\ DeliveredStep(f)
<1> DEFINE packet == Head(wire[path][q])
           g == packet.file
<1>1. /\ wire[path][q] # <<>> /\ Taken(path, q)
      /\ packet \in Packets
      /\ UNCHANGED <<pc, next>>
  BY ReceiveFacts
<1>2. g \in FileIds /\ packet.seq \in Nat
  BY <1>1 DEF Packets
<1>3. CASE receiverVars' = receiverVars
  BY <1>1, <1>3, OtherFileReceiver DEF receiverVars, DeliveredStep
<1>4. CASE /\ packet.type = "meta" /\ g \notin cancelledIn
           /\ ReceiveMeta(g)
  <2>0. /\ Store(g, early[g], early[g] # {} /\ Cardinality(early[g]) >= Chunks[g])
        /\ early' = [early EXCEPT ![g] = {}]
        /\ UNCHANGED cancelledIn
    BY <1>4 DEF ReceiveMeta
  <2>1. CASE g = f
    <3>1. InFlight(f) /\ ~InFlight(f)'
      BY <1>1, <1>4, <2>1, MetaTaken DEF IsMeta, TypeOK, WireType
    <3>2. saved[f] = 0 /\ pc[f] # "idle"
      BY <3>1 DEF Received, Held
    <3>3. early[f] \in SUBSET Nat /\ \A i \in early[f] : i < next[f]
      BY DEF Received, TypeOK
    <3> DEFINE full == early[f] # {} /\ Cardinality(early[f]) >= Chunks[f]
    <3>4. /\ full => early[f] # {} /\ Cardinality(early[f]) >= Chunks[f]
          /\ Store(f, early[f], full)
      BY <2>0, <2>1
    <3> HIDE DEF full
    <3> QED
      BY <1>1, <1>4, <2>0, <2>1, <3>1, <3>2, <3>3, <3>4, StoringReceiver
  <2>2. CASE g # f
    <3>1. /\ saved'[f] = saved[f] /\ got'[f] = got[f] /\ early'[f] = early[f]
          /\ f \in incoming' <=> f \in incoming
      BY <2>0, <2>2, <1>2 DEF Store, TypeOK
    <3> QED
      BY <1>1, <2>0, <3>1, OtherFileReceiver DEF DeliveredStep
  <2> QED
    BY <2>1, <2>2
<1>5. CASE /\ packet.type = "chunk" /\ g \notin cancelledIn \cup incoming
           /\ early' = [early EXCEPT ![g] = @ \cup {packet.seq}]
           /\ UNCHANGED <<incoming, got, cancelledIn, saved>>
  <2>1. packet.seq < next[g]
    <3>1. 1 \in DOMAIN wire[path][q] /\ packet = wire[path][q][1]
      BY <1>1, LenProperties, HeadTailProperties, EmptySeq DEF TypeOK
    <3> QED
      BY <1>5, <3>1 DEF WireCausal, Good
  <2>2. \A i \in got'[f] \cup early'[f] : i < next'[f]
    BY <1>1, <1>2, <1>5, <2>1 DEF Received, TypeOK
  <2>3. Held(f)'
    BY <1>1, <1>5 DEF Received, Held
  <2>4. f \in cancelledIn' => f \notin incoming' /\ early'[f] = {}
    BY <1>2, <1>5 DEF Received, TypeOK
  <2> QED
    BY <1>5, <2>2, <2>3, <2>4 DEF Received, DeliveredStep, Whole
<1>6. CASE /\ packet.type = "chunk" /\ g \notin cancelledIn /\ g \in incoming
           /\ Store(g, got[g] \cup {packet.seq},
                    Cardinality(got[g] \cup {packet.seq}) >= Chunks[g])
           /\ UNCHANGED <<early, cancelledIn>>
  <2>1. packet.seq < next[g]
    <3>1. 1 \in DOMAIN wire[path][q] /\ packet = wire[path][q][1]
      BY <1>1, LenProperties, HeadTailProperties, EmptySeq DEF TypeOK
    <3> QED
      BY <1>6, <3>1 DEF WireCausal, Good
  <2>2. CASE g = f
    <3> DEFINE held == got[f] \cup {packet.seq}
               full == Cardinality(held) >= Chunks[f]
    <3>1. /\ held \in SUBSET Nat /\ held # {}
          /\ \A i \in held : i < next[f]
      BY <1>2, <2>1, <2>2 DEF Received, TypeOK
    <3>2. saved[f] = 0 /\ pc[f] # "idle" /\ ~InFlight(f)'
      BY <1>6, <2>2 DEF Received, Held
    <3>3. Store(f, held, full)
      BY <1>6, <2>2
    <3>4. full => held # {} /\ Cardinality(held) >= Chunks[f]
      BY <3>1
    <3> HIDE DEF held, full
    <3> QED
      BY <1>1, <1>6, <2>2, <3>1, <3>2, <3>3, <3>4, StoringReceiver
  <2>3. CASE g # f
    <3>1. /\ saved'[f] = saved[f] /\ got'[f] = got[f] /\ early'[f] = early[f]
          /\ f \in incoming' <=> f \in incoming
      BY <1>6, <2>3, <1>2 DEF Store, TypeOK
    <3> QED
      BY <1>1, <1>6, <3>1, OtherFileReceiver DEF DeliveredStep
  <2> QED
    BY <2>2, <2>3
<1>7. CASE Release(g)
  BY <1>1, <1>2, <1>7, ReleasingReceiver DEF DeliveredStep
<1> QED
  BY <1>3, <1>4, <1>5, <1>6, <1>7
  DEF Receive, ReceiveMeta, ReceiveChunk, ReceiveCancel

(* Every step keeps Received, and delivers only what FileDelivery allows.  *)
LEMMA ReceivedStep ==
    ASSUME TypeOK, TypeOK', [Next]_vars, NEW f \in FileIds,
           Received(f), Paced(f), MetaUnique(f), WireCausal, Forward(f),
           InFlight(f)' => \/ InFlight(f)
                           \/ pc[f] = "idle" /\ pc'[f] = "yield"
    PROVE  Received(f)' /\ DeliveredStep(f)
<1>0. next' \in [FileIds -> Nat]
  BY DEF TypeOK
<1>1. CASE receiverVars' = receiverVars
  <2>1. Received(f)'
    BY <1>0, <1>1, IdleReceiver DEF receiverVars
  <2> QED
    BY <1>1, <2>1 DEF receiverVars, DeliveredStep
<1>2. ASSUME NEW g \in FileIds, CancelOutgoing(g) \/ CancelIncoming(g)
      PROVE  Received(f)' /\ DeliveredStep(f)
  <2>1. CASE Release(g)
    <3>1. UNCHANGED <<pc, next>>
      BY <1>2, CancelFacts
    <3> QED
      BY <2>1, <3>1, ReleasingReceiver DEF DeliveredStep
  <2> QED
    BY <1>1, <1>2, <2>1, CancelFacts
<1>3. ASSUME NEW path \in Paths, NEW q \in Peers, Receive(path, q)
      PROVE  Received(f)' /\ DeliveredStep(f)
  <2>1. UNCHANGED <<pc, next>>
    BY <1>3, ReceiveFacts
  <2> QED
    BY <1>3, <2>1, ReceivingReceiver
<1>4. ASSUME NEW p \in Peers, Reload(p)
      PROVE  Received(f)' /\ DeliveredStep(f)
  <2>1. InFlight(f)' => InFlight(f)
    BY <1>4 DEF Reload, TypeOK
  <2>2. /\ next' = next /\ saved' = saved
        /\ got'[f] = got[f] \/ (got'[f] = {} /\ f \in incoming)
        /\ early'[f] \subseteq early[f]
        /\ f \in incoming' => f \in incoming
        /\ f \in cancelledIn' => f \in cancelledIn
    BY <1>4 DEF Reload
  <2>3. \A i \in got'[f] \cup early'[f] : i < next'[f]
    BY <2>2 DEF Received
  <2>4. Held(f)'
    BY <2>1, <2>2 DEF Received, Held, Forward
  <2>5. saved'[f] > 0 => got'[f] = Whole(f)
    BY <2>2 DEF Received, Held
  <2> QED
    BY <2>2, <2>3, <2>4, <2>5 DEF Received, Whole, DeliveredStep
<1>5. ASSUME NEW p \in Peers, NetStep(p), ~Reload(p)
      PROVE  receiverVars' = receiverVars
  BY <1>5 DEF NetStep, PeerSeen, PeerLost, LeaveRoom, EnterRoom, DcOpen, DcClosed,
              LinkUp, LinkDown
<1>6. ASSUME NEW g \in FileIds, Resume(g) \/ SendChunk(g) \/ AwaitOver(g)
      PROVE  receiverVars' = receiverVars
  BY <1>6 DEF Resume, SendChunk, AwaitOver, DrainOver, LateLow, ReadFail
<1>7. ASSUME NEW g \in FileIds, NEW replaced, StartSend(g, replaced)
      PROVE  receiverVars' = receiverVars
  BY <1>7 DEF StartSend
<1>8. UNCHANGED vars => receiverVars' = receiverVars
  BY DEF vars
<1>9. ASSUME NEW p \in Peers, Lose(p) PROVE receiverVars' = receiverVars
  BY <1>9, LoseFacts
<1> QED
  BY <1>1, <1>2, <1>3, <1>4, <1>5, <1>6, <1>7, <1>8, <1>9, NextCases


(* Every step keeps the wire half of Causality. *)
LEMMA WireCausalNext ==
    ASSUME TypeOK, TypeOK', [Next]_vars, WireCausal,
           \A f \in FileIds : Paced(f), \A f \in FileIds : Forward(f)
    PROVE  WireCausal'
<1>0. /\ WireType
      /\ next \in [FileIds -> Nat] /\ next' \in [FileIds -> Nat]
      /\ \A f \in FileIds : next[f] <= next'[f]
  BY DEF TypeOK, WireType, Forward
<1>1. ASSUME NEW g \in FileIds, NEW replaced, StartSend(g, replaced) PROVE WireCausal'
  <2>1. Good(Recipient(g), Meta(g))'
    BY DEF Good, Meta
  <2> QED
    BY <1>0, <1>1, <2>1, StartSendFacts, OwnerType, WireCausalStep
<1>2. ASSUME NEW g \in FileIds, SendChunk(g) PROVE WireCausal'
  <2>1. PICK packet \in Packets : /\ packet = Chunk(g, next[g])
                                 /\ Appended(Recipient(g), packet)
    BY <1>2, SendChunkFacts
  <2>2. Good(Recipient(g), packet)'
    <3>1. next'[g] = next[g] + 1 /\ next[g] \in Nat
      BY <1>0, <1>2, SendChunkFacts
    <3> QED
      BY <2>1, <3>1 DEF Good, Chunk
  <2> QED
    BY <1>0, <2>1, <2>2, OwnerType, WireCausalStep
<1>3. ASSUME NEW g \in FileIds, CancelOutgoing(g) \/ CancelIncoming(g) PROVE WireCausal'
  <2>1. ASSUME NEW q \in Peers PROVE Good(q, Cancel(g))'
    BY DEF Good, Cancel
  <2> QED
    BY <1>0, <1>3, <2>1, CancelFacts, WireCausalStep
<1>4. ASSUME NEW path \in Paths, NEW q \in Peers, Receive(path, q) PROVE WireCausal'
  BY <1>0, <1>4, ReceiveFacts, WireCausalStep
<1>5. ASSUME NEW p \in Peers, NetStep(p) PROVE WireCausal'
  BY <1>0, <1>5, NetType, WireCausalStep
<1>6. CASE wire' = wire
  BY <1>0, <1>6, WireCausalStep DEF Dropped
<1>7. ASSUME NEW g \in FileIds, Resume(g) \/ AwaitOver(g) PROVE wire' = wire
  BY <1>7 DEF Resume, AwaitOver, DrainOver, LateLow, ReadFail, netVars
<1>8. UNCHANGED vars => wire' = wire
  BY DEF vars, netVars
<1>9. ASSUME NEW p \in Peers, Lose(p) PROVE WireCausal'
  BY <1>0, <1>9, LoseFacts, WireCausalStep
<1> QED
  BY <1>1, <1>2, <1>3, <1>4, <1>5, <1>6, <1>7, <1>8, <1>9, NextCases

-----------------------------------------------------------------------------
(* The receiving half of the inductive invariant. *)
TransferInv == TypeOK /\ Causality /\ MetaOnce /\ WholeFile /\ CancelledReleased

(* TransferInv, as the parts the step lemmas are about. *)
LEMMA TransferInvParts ==
    TransferInv <=> /\ TypeOK
                    /\ WireCausal
                    /\ \A f \in FileIds : Paced(f) /\ MetaUnique(f) /\ Received(f)
<1>1. TypeOK => (CancelledReleased <=>
          \A f \in FileIds : f \in cancelledIn => f \notin incoming /\ early[f] = {})
  BY DEF TypeOK, CancelledReleased
<1> QED
  BY <1>1, CausalityParts, MetaOnceParts DEF TransferInv, WholeFile, Paced, Received

(* TransferInv holds initially. *)
LEMMA TransferInit == Init => TransferInv
<1> SUFFICES ASSUME Init PROVE TransferInv
  OBVIOUS
<1>1. TypeOK
  BY TypeInit
<1>2. ASSUME NEW path \in Paths, NEW q \in Peers PROVE DOMAIN wire[path][q] = {}
  BY DEF Init
<1>3. WireCausal
  BY <1>2 DEF WireCausal
<1>4. ASSUME NEW f \in FileIds PROVE Paced(f) /\ MetaUnique(f) /\ Received(f)
  <2>1. Chunks[f] \in Nat
    BY OwnerType
  <2>2. MetaUnique(f) /\ ~InFlight(f)
    BY <1>2 DEF MetaUnique, InFlight
  <2>3. Paced(f)
    BY <2>1 DEF Init, Paced
  <2>4. Received(f)
    BY <2>2 DEF Init, Received, Held
  <2> QED
    BY <2>2, <2>3, <2>4
<1> QED
  BY <1>1, <1>3, <1>4, TransferInvParts

(* Every step keeps TransferInv. *)
LEMMA TransferStep ==
    TransferInv /\ [Next]_vars
        => TransferInv' /\ \A f \in FileIds : DeliveredStep(f)
<1> SUFFICES ASSUME TransferInv, [Next]_vars
             PROVE  TransferInv' /\ \A f \in FileIds : DeliveredStep(f)
  OBVIOUS
<1>1. /\ TypeOK /\ WireCausal
      /\ \A f \in FileIds : Paced(f) /\ MetaUnique(f) /\ Received(f)
  BY TransferInvParts
<1>2. TypeOK'
  BY <1>1, TypeStep
<1>3. \A f \in FileIds : Paced(f)' /\ Forward(f)
  BY <1>1, PaceStep
<1>4. WireCausal'
  BY <1>1, <1>2, <1>3, WireCausalNext
<1>5. ASSUME NEW f \in FileIds
      PROVE  MetaUnique(f)' /\ Received(f)' /\ DeliveredStep(f)
  <2>1. /\ MetaUnique(f)'
        /\ InFlight(f)' => \/ InFlight(f)
                           \/ pc[f] = "idle" /\ pc'[f] = "yield"
    BY <1>1, MetaStep DEF Received
  <2> QED
    BY <1>1, <1>2, <1>3, <2>1, ReceivedStep
<1>6. TransferInv' <=> (/\ TypeOK
                        /\ WireCausal
                        /\ \A f \in FileIds : Paced(f) /\ MetaUnique(f) /\ Received(f))'
  BY TransferInvParts, PTL
<1> QED
  BY <1>2, <1>3, <1>4, <1>5, <1>6

(* TransferInv is an invariant. *)
LEMMA TransferInvariant == Safety => []TransferInv
<1>1. TransferInv /\ [Next]_vars => TransferInv'
  BY TransferStep
<1> QED
  BY <1>1, TransferInit, PTL DEF Safety

(* A logged and downloaded file is the whole file. *)
THEOREM OnlyWholeFilesSaved == Safety => []WholeFile
<1>1. TransferInv => WholeFile
  BY DEF TransferInv
<1> QED
  BY <1>1, TransferInvariant, PTL

(* A cancelled incoming file stays released. *)
THEOREM CancelReleasesForGood == Safety => []CancelledReleased
<1>1. TransferInv => CancelledReleased
  BY DEF TransferInv
<1> QED
  BY <1>1, TransferInvariant, PTL


-----------------------------------------------------------------------------
(* The sending half: the slot and the retry buttons. *)
SenderInv == SlotBacked /\ SlotNamesLiveLoop /\ RetryBacked

(* A step that leaves the sender alone keeps SenderInv. *)
LEMMA SenderUnchanged ==
    ASSUME SenderInv, UNCHANGED <<pc, button, cached, active>>
    PROVE  SenderInv'
BY DEF SenderInv, SlotBacked, SlotNamesLiveLoop, RetryBacked

(* The slot of p is emptied and its file is offered for a retry. *)
LEMMA InterruptKeeps ==
    ASSUME TypeOK, SenderInv, NEW p \in Peers, NEW f \in FileIds,
           NEW shown \in [FileIds -> Buttons],
           \A g \in FileIds : shown[g] # button[g] => shown[g] = "none",
           NotifyInterrupted(p, shown), cached' = cached,
           pc' = pc \/ (/\ Owner[f] = p /\ pc[f] \in {"yield", "read"}
                        /\ pc' = [pc EXCEPT ![f] = "interrupted"])
    PROVE  SenderInv'
<1> USE DEF TypeOK, Buttons
<1>1. \A q \in Peers : active'[q] # NoFile => q # p /\ active'[q] = active[q]
  BY DEF NotifyInterrupted
<1>2. SlotBacked'
  <2>1. \A g \in FileIds : pc'[g] = "idle" => pc[g] = "idle" /\ g # active[p]
    BY TransferAssumption DEF SenderInv, SlotNamesLiveLoop
  <2>2. \A g \in FileIds : pc'[g] = "idle" => button'[g] = "none"
    BY <2>1 DEF SenderInv, SlotBacked, NotifyInterrupted
  <2> QED
    BY <1>1, <2>2 DEF SenderInv, SlotBacked
<1>3. SlotNamesLiveLoop'
  BY <1>1 DEF SenderInv, SlotBacked, SlotNamesLiveLoop
<1>4. RetryBacked'
  BY TransferAssumption
  DEF SenderInv, SlotBacked, SlotNamesLiveLoop, RetryBacked, NotifyInterrupted
<1> QED
  BY <1>2, <1>3, <1>4 DEF SenderInv

(* The head of the loop keeps SenderInv. *)
LEMMA LoopTopKeeps ==
    ASSUME TypeOK, SenderInv, NEW f \in FileIds, NEW n,
           pc[f] \in {"yield", "read"}, NEW shown \in [FileIds -> Buttons],
           \A g \in FileIds : shown[g] # button[g] => shown[g] = "none",
           LoopTop(f, n, shown), cached' = cached
    PROVE  SenderInv'
<1> USE DEF TypeOK, Buttons, SenderInv, SlotBacked, SlotNamesLiveLoop, RetryBacked
<1>0. Owner[f] \in Peers
  BY OwnerType
<1>1. CASE Complete(f, shown)
  BY <1>0, <1>1 DEF Complete
<1>2. CASE Abandon(f, shown)
  BY <1>0, <1>2 DEF Abandon
<1>3. CASE Interrupt(f, shown)
  <2>1. /\ NotifyInterrupted(Owner[f], shown)
        /\ pc' = [pc EXCEPT ![f] = "interrupted"]
    BY <1>3 DEF Interrupt
  <2> HIDE DEF SenderInv
  <2> QED
    BY <1>0, <2>1, InterruptKeeps
<1>4. CASE ReadOn(f, shown)
  BY <1>0, <1>4 DEF ReadOn
<1>5. CASE WaitForBufferDrain(f, shown)
  BY <1>0, <1>5 DEF WaitForBufferDrain
<1> QED
  BY <1>1, <1>2, <1>3, <1>4, <1>5 DEF LoopTop

(* Every step keeps SenderInv. *)
LEMMA SenderStep ==
    ASSUME TypeOK, SenderInv, [Next]_vars
    PROVE  SenderInv'
<1>0. button \in [FileIds -> Buttons]
  BY DEF TypeOK, Buttons
<1>1. ASSUME NEW g \in FileIds, NEW replaced \in SUBSET FileIds, StartSend(g, replaced),
             \/ replaced = {}
             \/ \E f \in FileIds : replaced = {f} /\ Owner[f] = Owner[g]
      PROVE  SenderInv'
  <2>0. Owner[g] \in Peers
    BY OwnerType
  <2>1. \A p \in Peers : active'[p] = IF p = Owner[g] THEN g ELSE active[p]
    BY <1>1, <2>0 DEF StartSend, TypeOK
  <2>2. \A p \in Peers : p # Owner[g] /\ active[p] # NoFile => active[p] \notin replaced
    BY <1>1 DEF SenderInv, SlotBacked
  <2>3. SlotBacked'
    BY <1>1, <2>0, <2>1, <2>2 DEF SenderInv, SlotBacked, StartSend, TypeOK
  <2>4. SlotNamesLiveLoop'
    BY <1>1, <2>1 DEF SenderInv, SlotNamesLiveLoop, StartSend, TypeOK
  <2>5. RetryBacked'
    BY <1>1 DEF SenderInv, RetryBacked, StartSend, TypeOK
  <2> QED
    BY <2>3, <2>4, <2>5 DEF SenderInv
<1>2. ASSUME NEW g \in FileIds, SendFile(g) PROVE SenderInv'
  BY <1>1, <1>2 DEF SendFile
<1>3. ASSUME NEW f \in FileIds, NEW g \in FileIds, RetryFile(f, g) PROVE SenderInv'
  BY <1>1, <1>3 DEF RetryFile
<1>4. ASSUME NEW g \in FileIds, Resume(g) PROVE SenderInv'
  BY <1>0, <1>4, LoopTopKeeps DEF Resume
<1>5. ASSUME NEW g \in FileIds, SendChunk(g) PROVE SenderInv'
  <2>1. PICK shown \in Redrawn(g) :
            \/ /\ pc' = [pc EXCEPT ![g] = "yield"]
               /\ button' = shown
               /\ UNCHANGED <<cancelledOut, active, hook>>
            \/ LoopTop(g, next[g] + 1, shown)
    BY <1>5 DEF SendChunk
  <2>2. /\ shown \in [FileIds -> Buttons]
        /\ \A h \in FileIds : shown[h] # button[h] => shown[h] = "none"
    BY <2>1, RedrawnType
  <2>3. pc[g] = "read" /\ cached' = cached
    BY <1>5 DEF SendChunk
  <2>4. CASE LoopTop(g, next[g] + 1, shown)
    BY <2>2, <2>3, <2>4, LoopTopKeeps
  <2>5. CASE /\ pc' = [pc EXCEPT ![g] = "yield"]
             /\ button' = shown
             /\ UNCHANGED <<cancelledOut, active, hook>>
    BY <2>2, <2>3, <2>5
    DEF SenderInv, SlotBacked, SlotNamesLiveLoop, RetryBacked, TypeOK
  <2> QED
    BY <2>1, <2>4, <2>5
<1>6. ASSUME NEW g \in FileIds, AwaitOver(g) PROVE SenderInv'
  <2>1. /\ UNCHANGED <<button, cached, active>>
        /\ pc[g] \in {"drain", "read"}
        /\ \E here \in {"read", "failed", "stuck"} : pc' = [pc EXCEPT ![g] = here]
    BY <1>6 DEF AwaitOver, DrainOver, LateLow, ReadFail
  <2> QED
    BY <2>1 DEF SenderInv, SlotBacked, SlotNamesLiveLoop, RetryBacked, TypeOK
<1>7. ASSUME NEW g \in FileIds, CancelOutgoing(g) PROVE SenderInv'
  BY <1>7, OwnerType
  DEF CancelOutgoing, SenderInv, SlotBacked, SlotNamesLiveLoop, RetryBacked, TypeOK
<1>8. ASSUME NEW g \in FileIds, CancelIncoming(g) PROVE SenderInv'
  BY <1>8, SenderUnchanged DEF CancelIncoming, senderVars
<1>9. ASSUME NEW path \in Paths, NEW q \in Peers, Receive(path, q) PROVE SenderInv'
  <2>1. CASE UNCHANGED <<button, active>>
    BY <1>9, <2>1, SenderUnchanged DEF Receive
  <2>2. CASE ReceiveCancel(q, Head(wire[path][q]).file)
    <3> DEFINE g == Head(wire[path][q]).file
    <3>1. /\ active' = [active EXCEPT ![q] = NoFile]
          /\ button' = button \/ button' = [button EXCEPT ![g] = "none"]
          /\ pc' = pc /\ cached' = cached
      BY <1>9, <2>2 DEF ReceiveCancel, Receive
    <3> HIDE DEF g
    <3> QED
      BY <3>1 DEF SenderInv, SlotBacked, SlotNamesLiveLoop, RetryBacked, TypeOK
  <2> QED
    BY <1>9, <2>1, <2>2 DEF Receive
<1>10. ASSUME NEW p \in Peers, PeerLost(p) PROVE SenderInv'
  <2>1. CASE NotifyInterrupted(p, button)
    <3>1. CASE FileIds = {}
      BY <1>10, <2>1, <3>1
      DEF PeerLost, NotifyInterrupted, SenderInv, SlotBacked, SlotNamesLiveLoop,
          RetryBacked, TypeOK
    <3>2. CASE FileIds # {}
      BY <1>0, <1>10, <2>1, <3>2, InterruptKeeps DEF PeerLost
    <3> QED
      BY <3>1, <3>2
  <2> QED
    BY <1>10, <2>1, SenderUnchanged DEF PeerLost
<1>11. ASSUME NEW p \in Peers, Reload(p) PROVE SenderInv'
  BY <1>11 DEF Reload, SenderInv, SlotBacked, SlotNamesLiveLoop, RetryBacked, TypeOK
<1>12. ASSUME NEW p \in Peers,
              \/ PeerSeen(p) \/ LeaveRoom(p) \/ EnterRoom(p) \/ DcOpen(p) \/ DcClosed(p)
              \/ LinkUp \/ LinkDown
       PROVE  SenderInv'
  BY <1>12, SenderUnchanged
  DEF PeerSeen, LeaveRoom, EnterRoom, DcOpen, DcClosed, LinkUp, LinkDown, senderVars
<1>13. CASE UNCHANGED vars
  BY <1>13, SenderUnchanged DEF vars, senderVars
<1>14. ASSUME LinkUp \/ LinkDown PROVE \E p \in Peers : LinkUp \/ LinkDown
  BY <1>14, TransferAssumption
<1>15. ASSUME NEW p \in Peers, Lose(p) PROVE SenderInv'
  BY <1>15, LoseFacts, SenderUnchanged DEF senderVars
<1> QED
  BY <1>2, <1>3, <1>4, <1>5, <1>6, <1>7, <1>8, <1>9, <1>10, <1>11, <1>12, <1>13,
     <1>14, <1>15 DEF Next, Work, Trouble, AwaitOver

(* SenderInv holds initially. *)
LEMMA SenderInit == Init => SenderInv
BY DEF Init, SenderInv, SlotBacked, SlotNamesLiveLoop, RetryBacked

(* The invariant that the runs check as IInv. *)
THEOREM InductiveInvariant == Safety => []IInv
<1>1. TransferInv /\ SenderInv <=> IInv
  BY DEF TransferInv, SenderInv, IInv
<1>2. TransferInv /\ SenderInv /\ [Next]_vars => SenderInv'
  BY SenderStep DEF TransferInv
<1>3. Init => SenderInv
  BY SenderInit
<1> QED
  BY <1>1, <1>2, <1>3, TransferInvariant, PTL DEF Safety

(* The refresh warning's slot is never left behind by a loop that ended,   *)
(* other than by a failed read or a drain wait that is never over.         *)
THEOREM SlotNeverStale == Safety => []SlotNamesLiveLoop
<1>1. IInv => SlotNamesLiveLoop
  BY DEF IInv
<1> QED
  BY <1>1, InductiveInvariant, PTL

(* A retry button always has a cached, unsent file behind it. *)
THEOREM RetryAlwaysBacked == Safety => []RetryBacked
<1>1. IInv => RetryBacked
  BY DEF IInv
<1> QED
  BY <1>1, InductiveInvariant, PTL


(* The transfer implements FileDelivery: a file is delivered at most once, *)
(* and only after its sender handed over every chunk.                      *)
THEOREM ImplementsDelivery == Safety => DeliverySpec
<1>1. Init => Delivery!Init
  BY DEF Init, Delivery!Init
<1>2. TransferInv /\ [Next]_vars => [Delivery!Next]_(Delivery!vars)
  <2> SUFFICES ASSUME TransferInv, [Next]_vars
               PROVE  Delivery!Next \/ UNCHANGED <<next, saved>>
    BY DEF Delivery!vars
  <2>1. /\ TypeOK /\ TypeOK' /\ \A f \in FileIds : Paced(f)'
        /\ \A f \in FileIds : DeliveredStep(f)
    BY TransferStep, TransferInvParts, TypeStep, PaceStep
  <2>2. ASSUME NEW g \in FileIds, SendChunk(g) PROVE Delivery!Next
    <3>1. /\ next' = [next EXCEPT ![g] = @ + 1] /\ saved' = saved
          /\ next[g] < Chunks[g]
      <4>1. pc[g] = "read" /\ Paced(g)
        BY <2>2, TransferInvParts DEF SendChunk
      <4> QED
        BY <2>1, <2>2, <4>1, SendChunkFacts DEF Paced, receiverVars
    <3> QED
      BY <3>1 DEF Delivery!Next, Delivery!HandOver
  <2>3. ASSUME NEW path \in Paths, NEW q \in Peers, Receive(path, q)
        PROVE  Delivery!Next \/ UNCHANGED <<next, saved>>
    <3>1. next' = next
      BY <2>3 DEF Receive
    <3>2. \E g \in FileIds : \/ saved' = saved
                             \/ saved' = [saved EXCEPT ![g] = @ + 1]
      <4>1. Head(wire[path][q]).file \in FileIds
        BY <2>1, <2>3, ReceiveFacts DEF Packets
      <4> QED
        BY <2>3, <4>1 DEF Receive, ReceiveMeta, ReceiveChunk, ReceiveCancel, Store,
                          Release, receiverVars
    <3>3. PICK g \in FileIds : saved' = saved \/ saved' = [saved EXCEPT ![g] = @ + 1]
      BY <3>2
    <3>4. CASE saved' = [saved EXCEPT ![g] = @ + 1]
      <4>1. saved[g] = 0 /\ next[g] = Chunks[g] /\ saved'[g] = 1
        BY <2>1, <3>4 DEF DeliveredStep, TypeOK
      <4> QED
        BY <3>1, <3>4, <4>1 DEF Delivery!Next, Delivery!Deliver
    <3> QED
      BY <3>1, <3>3, <3>4
  <2>4. ASSUME NEW g \in FileIds, \/ Resume(g) \/ AwaitOver(g)
                                  \/ CancelOutgoing(g) \/ CancelIncoming(g)
        PROVE  UNCHANGED <<next, saved>>
    BY <2>4 DEF Resume, AwaitOver, DrainOver, LateLow, ReadFail, CancelOutgoing,
                CancelIncoming, Release, senderVars, receiverVars
  <2>5. ASSUME NEW g \in FileIds, NEW replaced, StartSend(g, replaced)
        PROVE  UNCHANGED <<next, saved>>
    BY <2>5 DEF StartSend, receiverVars
  <2>6. ASSUME NEW p \in Peers, NetStep(p) PROVE UNCHANGED <<next, saved>>
    BY <2>6 DEF NetStep, PeerSeen, PeerLost, LeaveRoom, EnterRoom, Reload, DcOpen,
                DcClosed, LinkUp, LinkDown, senderVars, receiverVars
  <2>7. UNCHANGED vars => UNCHANGED <<next, saved>>
    BY DEF vars, senderVars, receiverVars
  <2>8. ASSUME NEW p \in Peers, Lose(p) PROVE UNCHANGED <<next, saved>>
    BY <2>8, LoseFacts DEF senderVars, receiverVars
  <2> QED
    BY <2>2, <2>3, <2>4, <2>5, <2>6, <2>7, <2>8, NextCases
<1> QED
  BY <1>1, <1>2, TransferInvariant, PTL DEF Safety, DeliverySpec, Delivery!Spec


(* A cancelled loop sends at most the chunk it was reading or waiting for. *)
THEOREM CancelledLoopStops == Safety => CancelStopsLoop
<1>1. TransferInv /\ [Next]_vars =>
          [\A f \in FileIds :
              f \in cancelledOut /\ next'[f] # next[f]
                  => pc'[f] \notin {"read", "drain"}]_vars
  <2> SUFFICES ASSUME TransferInv, [Next]_vars, NEW f \in FileIds,
                      f \in cancelledOut, next'[f] # next[f]
               PROVE  pc'[f] \notin {"read", "drain"}
    OBVIOUS
  <2>0. TypeOK
    BY DEF TransferInv
  <2>1. SendChunk(f)
    <3>1. ASSUME NEW g \in FileIds, SendChunk(g) PROVE g = f
      BY <2>0, <3>1 DEF SendChunk, TypeOK
    <3>2. ASSUME NEW g \in FileIds, \/ Resume(g) \/ AwaitOver(g)
                                    \/ CancelOutgoing(g) \/ CancelIncoming(g)
          PROVE  next' = next
      BY <3>2 DEF Resume, AwaitOver, DrainOver, LateLow, ReadFail, CancelOutgoing,
                  CancelIncoming, senderVars
    <3>3. ASSUME NEW g \in FileIds, NEW replaced, StartSend(g, replaced)
          PROVE  next' = next
      BY <3>3 DEF StartSend
    <3>4. ASSUME NEW path \in Paths, NEW q \in Peers, Receive(path, q)
          PROVE  next' = next
      BY <3>4 DEF Receive
    <3>5. ASSUME NEW p \in Peers, NetStep(p) PROVE next' = next
      BY <3>5 DEF NetStep, PeerSeen, PeerLost, LeaveRoom, EnterRoom, Reload, DcOpen,
                  DcClosed, LinkUp, LinkDown, senderVars
    <3>6. UNCHANGED vars => next' = next
      BY DEF vars, senderVars
    <3>7. ASSUME NEW p \in Peers, Lose(p) PROVE next' = next
      BY <3>7, LoseFacts DEF senderVars
    <3> QED
      BY <3>1, <3>2, <3>3, <3>4, <3>5, <3>6, <3>7, NextCases
  <2>2. CASE pc' = [pc EXCEPT ![f] = "yield"]
    BY <2>0, <2>2 DEF TypeOK
  <2>3. ASSUME NEW shown, LoopTop(f, next[f] + 1, shown) PROVE pc'[f] \notin {"read", "drain"}
    BY <2>0, <2>3 DEF LoopTop, Complete, Abandon, Interrupt, TypeOK
  <2> QED
    BY <2>1, <2>2, <2>3 DEF SendChunk
<1> QED
  BY <1>1, TransferInvariant, PTL DEF Safety, CancelStopsLoop

=============================================================================
