# Verification of p2p_support

TLA+ models of the peer-to-peer file sharing application in `src/`, the TLC
configurations that check them and TLAPS proofs about them. Line numbers refer
to the files under `src/`.

## The system

The program is a browser application (`src/app.js`, `src/protocol.js`,
`src/qr.min.js`, `src/index.html`; the files under `src/web/static/` are copies
that the Go binary embeds) and a Go program that serves it and offers a
WebSocket signaling server. The browser application finds its peer through a
public MQTT broker, opens a WebRTC data channel to it, and sends chat and files
over that channel, or through the broker while no channel is open. It does not
use the Go signaling server, which is a component with its own protocol and tests.

| Component | Where | State | Operations | Hard part |
|---|---|---|---|---|
| File transfer | app.js 1163-1489 and 1034-1060 | `activeSendingFile`, `cachedOutgoingFiles`, `incomingTransfers`, `pendingEarlyChunks`, the two cancelled sets, one suspended `sendFile` loop per file | send, retry, cancel on either side, META, CHUNK, CANCEL | concurrent loops over one slot, awaits between check and use, two paths that overtake each other, loss, reload |
| Flow control | app.js 1354-1375 | `onbufferedamountlow` and a poll | wait for drain | shared handler, channel closed during the wait |
| Presence and ping | app.js 407-445, 730-762, 983-998 | `activePeers`, three intervals | announce, reply, prune, choose the primary peer, ping | time-outs against delays, liveness of stale ids |
| WebRTC negotiation | app.js 787-964 | `peerConnection`, `dataChannel`, `candidateQueue` | offer, answer, candidate, cleanup | globals across awaits, lost messages, reconnection |
| Room session | app.js 214-385, 673-728, 811-821 | room, password, topic, MQTT client | enter, leave, restore, broker failover | await in `enterRoom`, timers that outlive the room |
| Chat and history | app.js 531-668, 1067-1138, 1556-1598 | bubbles, rows and check boxes, `sessionStorage` | send, show, ping and pong, log, select, delete, restore | caps, rows that name entries by index, a full storage, a clock cut to 32 bits |
| Packet codec | protocol.js, internal/protocol/packet.go | none | encode, decode | big-endian words, 32-bit times with and without sign |
| Signaling server | internal/signaling/hub.go, client.go | rooms, `Send`, `Broadcast`, two goroutines per connection | register, unregister, broadcast, read, write, ping | closed channels, full channels, order, dead connections |
| QR generation | qr.min.js, internal/qr/qr.go | none | encode | tables, versions |
| Launcher, network helper | main.go, internal/network/ip.go, web/embed.go | none that protocols use | serve | I/O |
| Configuration and build check | app.js 175-209 | configured password, build version | fetch at start-up, clear the storage | the await of `initApp`, during which the lobby can be used |
| User interface | index.html, style.css, rendering code | DOM | render | only the transfer's buttons matter to the protocol |

What makes each correct: a transfer delivers whole files only, at most once, and
a cancelled one leaves nothing behind; the refresh warning and the retry button
tell the truth; every loop ends; without faults every file arrives. The hub
never touches a closed channel, keeps rooms to pairs, tells members who is in
their room, keeps signals in order, and gives up dead connections. Presence must
drop exactly the peers that are gone; negotiation must not get stuck while both
pages are there, and its handlers must find in the global variables the
connection they began with; a room that is shown must be served and saved, and
leaving it must leave nothing running in it; texts must arrive as they were sent
and the histories hold what the page shows.

## Modules

| Module | Models | Used by |
|---|---|---|
| `FileDelivery` | the promise of a transfer: hand over chunks, deliver once | `FileTransfer` |
| `FileTransfer` | the file transfer of two pages, their paths, and presence, page and link as environment | `MCFileTransfer`, `FileTransferProofs` |
| `MCFileTransfer` | instances of it for TLC | |
| `FileTransferProofs` | theorems about it | |
| `SignalingHub` | the Go signaling server | `MCSignalingHub`, `SignalingHubProofs` |
| `MCSignalingHub` | instances of it for TLC | |
| `SignalingHubProofs` | theorems about it | |
| `PeerPresence` | the list of peers of one page, the pruner and the ping, in discrete time | `MCPeerPresence`, `PeerPresenceProofs` |
| `PeerNegotiation` | offers, answers, candidates and the data channel of two pages | `MCPeerNegotiation`, `PeerNegotiationProofs` |
| `RoomSession` | entering and leaving rooms, the saved session, MQTT clients and their failover | `MCRoomSession`, `RoomSessionProofs` |
| `PacketCodec` | the bytes of packets | `ChatHistory`, `PacketCodecProofs` |
| `ChatHistory` | chat, round-trip times, both histories and the log of completed files | `MCChatHistory`, `ChatHistoryProofs` |
| `MCPeerPresence`, `MCPeerNegotiation`, `MCRoomSession`, `MCChatHistory` | instances of them for TLC | |
| `PeerPresenceProofs`, `PeerNegotiationProofs`, `RoomSessionProofs`, `PacketCodecProofs` | theorems about them | |
| `ChatHistoryProofs` | theorems about it, with those about the codec | |

The modules meet at their edges: what `PeerPresence` decides (a peer is seen, the
last one is lost) is an action of the environment in `FileTransfer` and
`PeerNegotiation`; the channel that `PeerNegotiation` brings up or takes down is
`DcOpen` and `DcClosed` of `FileTransfer`; the room that `RoomSession` enters is
`EnterRoom` of the others. In each case the environment may do more than the
module that stands behind it, so what is shown under it holds with it.

Definitions whose comment starts with "Faulty variant" are not part of a model.
They are the definition that follows with a plausible mistake in it; each
property of each run has one that it catches (`mutants` in `PROJECT.json`).

### FileTransfer

JavaScript runs one callback at a time, so an action is one callback from its
start to its next `await` or its end.

| Action | Code |
|---|---|
| `SendFile`, `RetryFile` | `sendFile` up to its first await; `retryFileTransfer` |
| `Resume` | a timer of `sendFile` fires; head of the loop |
| `DrainOver` | `waitForBufferDrain` is over, by its poll or its handler (1354-1375) |
| `LateLow` | its handler runs after the channel was cleaned up, and throws (1370-1371) |
| `SendChunk` | the read is over: send the chunk, redraw, head of the loop or timer |
| `ReadFail` | the read rejects |
| `CancelOutgoing`, `CancelIncoming` | `cancelTransfer` |
| `Receive` | `handleIncomingPacket` for META, CHUNK, CANCEL |
| `Lose` | the relay drops a packet |
| `PeerSeen`, `PeerLost` | first peer seen; pruner drops the last, `handleAllPeersDisconnected` |
| `LeaveRoom`, `Reload`, `EnterRoom` | leave button, page reload, `enterRoom` |
| `LinkUp`, `DcOpen`, `LinkDown`, `DcClosed` | the WebRTC stack |

`pc[f]` is where the loop of `f` is suspended (`yield` in a timer, `drain` in
`waitForBufferDrain`, `read` in `arrayBuffer()`) or how it ended; `failed` is a
read that rejected and `stuck` a drain wait whose promise is never settled.
`next[f]` is its `chunkIndex`. `hook[p]` is the loop whose handler
`onbufferedamountlow` of the channel of `p` is (a second waiter replaces the first
one's), `orphaned` the loops whose handler was left on a channel that was cleaned
up. `active`, `cached`, `cancelledOut`,
`incoming`, `early`, `cancelledIn` are the variables of the page with the same
role; `button` is the button the outgoing list item shows; `got` and `saved` the
chunks of an item and the downloads made of it. `wire` holds the packets on
their way, in order for each path and page.

What is simplified:

- Chunk contents are left out; a chunk is its index. File ids are distinct
  (the code draws them from 2^31 values).
- A FILE_CANCEL enters the id in both cancelled sets of a page; the model keeps
  only the one that page ever reads for that file.
- The number of bytes in the channel's buffer is left open: while the channel is
  open a loop may find it high and wait, after any chunk, so that few chunks
  stand for the many after which it is; it drains in the end while the transport works.
- Presence and negotiation are environment: peers are seen and lost at any time,
  and channels come up whenever both pages have a peer. One remote peer.
- A second room on the same page is not distinguished from the first.

### SignalingHub

The hub's goroutine handles one channel operation at a time, each an action:
`Register` or `RegisterFull` (with the part of `ServeWS` around it: ServeWS
blocks until the hub takes the client, and the pumps can do nothing to the hub
before), `Unregister` (with the `Conn.Close` of `ReadPump` after it, which waits
for the hub in the same way), `Forward`. `Read`, `Post` and `ReadError` are
`ReadPump`; `Write`, `WriteClose` and `PingError` are `WritePump`; `LosePeer` is
the browser going away. A handler's sends are one step: `WritePump` taking a
message between two of them is the same as taking it before.
`send` and `broadcast` are the two buffered channels; `shut` the closed `Send`
channels; `taken` remembers what `WritePump` took, so that `taken[c] \o send[c]`
is all a client was told; `dropped` the clients that missed something.
Closing the connection in the same step as `Unregister` leaves out that
`WritePump` may still write to a connection whose reading has failed.

### PeerPresence

One page and what it can notice of the others. Time is discrete: a timer counts
the ticks until it fires, a message the ticks until it must have arrived, and
`Tick` waits for whoever is due, so that the safety properties need no fairness. A tick of the runs is 750 ms.

| Action | Code |
|---|---|
| `AnnouncePresence`, `RemoteAnnounces` | `startPresenceBroadcast`, `announcePresence` (730-743) of this page and of another |
| `RemoteHears` | the other page replies to an announcement (826-830) |
| `HearPresence` | `updatePeerPresence` (407-420) and `startPing` (832) |
| `HandleIncomingPacket` | any packet counts for all peers (1003-1009) |
| `Ping` | the interval of `startPing` (985-990) |
| `Prune` | `startPeerPruner`, `handleAllPeersDisconnected` (422-445) |
| `Come`, `Go`, `Lose`, `Tick` | other pages, the broker, the clock |

Background tabs, whose intervals the browser may hold back, are `Throttled`: they
reply but announce nothing after the first time. The bounds that the
properties use are derived, not chosen: `Reach` is the time in which a page is
heard although `MaxEvents` messages are lost, `Patience` the time in which the
pruner finds a silent one.

### PeerNegotiation

`handleSignalingMessage` is asynchronous, so that an action is a part of it from
one await to the next; `tasks[p]` are the handlers of page `p` that are suspended,
each with the connection whose promise it waits for. What they find in
`peerConnection` when they resume is `pc[p]`, which may be another.

| Action | Code |
|---|---|
| `HearPresence`, `SendOffer` | presence, and the offer after its awaits (823-845) |
| `HearOffer`, `TakeOffer`, `SendAnswer` | an offer: `createPeerConnection`, `setRemoteDescription`, flush, answer (847-861) |
| `HearAnswer`, `TakeAnswer` | an answer (863-873) |
| `HearCandidate`, `FlushOn` | `handleIncomingCandidate`, `flushCandidateQueue` (884-903) |
| `IceUp`, `DcOpen`, `DcClosed` | events of the connection and its channel (916-955) |
| `Prune`, `LeaveRoom`, `Reload` | the three ways to `cleanupPeerConnection` (787-809), or to a new page |
| `AnnouncePresence`, `EnterRoom`, `Lose` | the interval, the subscription, the broker |

`RTCPeerConnection` is external: it has a number, a `signalingState`, the number
of the connection that its remote description describes (`remote`), and those
whose candidates it was given (`heard`). Two connections that have each other's
description and candidate connect. Each gathers one candidate. The channel of `ondatachannel` (927-930) takes the place
of one that was closed; two open ones for one connection do not occur, as only its
offerer creates one. Signals are a set:
they may overtake each other, as MQTT with QoS 0 over two connections lets them.

### RoomSession

| Action | Code |
|---|---|
| `Load`, `InitApp` | `checkBuildVersion`, `initApp` before and after it fetched `.p2p.env` (197-255) |
| `EnterRoom`, `Hashed` | `enterRoom` before and after its await of the hash (279-313) |
| `LeaveRoom` | the leave button, `showLobbyView`, `cleanupConnection` (257-264, 376-385, 811-821) |
| `OnConnect`, `OnSubscribed` | the client is connected and asks for the subscription; the callback of `subscribe`, granted or with an error (690-701, 730-736) |
| `OnClose`, `OnError` | handlers of the MQTT client (703-728) |
| `TimerFires` | the failover timer (684-688, 726) |

`live` are the MQTT clients that were made and not ended, each with the topics it
asked for, was granted and was refused on its connection; `client` is the number of
the one in `mqttClient`. A refused subscription has no consequence in the code
(`if (!err)`, 697): the page stays connected, hears nothing and starts no announcements
until that connection is lost. `strayed` records that a room was entered while another
was shown, or left while a hash or a failover timer was in flight. The code
cancels neither, so that from there on it may have two clients, or one in the
lobby: a timer that fires after the page left its room connects to the topic
that was left (726, 673-701). `OneClient` and `NothingLeftBehind` are stated for
pages that did not stray and say how far the code can be relied on; the other
properties of the module hold for all pages.

### PacketCodec and ChatHistory

`PacketCodec` has every encoder of `protocol.js` and `decode`, over bytes of any
number of values (`Byte`, 256 in the code). `packet.go` has the same layout of a
header of 9 bytes and is used by its own test only. `ChatHistory` sends chat and
pings as such bytes over a wire that loses and reorders them.

| Action | Code |
|---|---|
| `SendChat` | `chatForm`, `btnSendClipboard` (1100-1138) |
| `Ping`, `HandleIncomingPacket` | `startPing`; CHAT, PING and PONG (1003-1078) |
| `AddFileToCompletedLog` | `addFileToCompletedLog` (531-535) |
| `TickRow`, `TickAll` | the check boxes (608-637) |
| `DeleteSingleLog`, `DeleteSelected`, `ClearAll` | the three ways to delete (598-606, 639-668) |
| `EnterRoom`, `LeaveRoom`, `Load` | `restoreSessionHistory` (1574-1598), leaving, `checkBuildVersion` |

Each write to the session storage may fail once it is full (1563, 1571), which the
code ignores. Pages without a room send and receive nothing, system messages
and times of day are left out. While the 32-bit time of the ping or the pong has
its sign bit set (25 of each 50 days), the difference is negative and the badge
shows 1 ms; `RttIsElapsed` says so and that no other wrong time is shown.

## Runs

| Run | Instance | Question | Result |
|---|---|---|---|
| `transfer` | one file of 3 chunks with all faults and at most 2 disturbances, or a file each way of 1 chunk without faults | `TypeOK`, `WholeFile`, `CancelledReleased`, `IInv`, `CancelStopsLoop`, `LoopEnds`, implements `FileDelivery` (`DeliverySpec`), `CalmDelivery` | holds, 0.16M states |
| `transfer_two_loops` | two files of one page, 1 chunk each, prune, failed reads, late handlers, 1 disturbance | `SlotNamesLiveLoop`, `RetryBacked` | holds, 0.8M states |
| `transfer_refresh_guard` | two files of one page, no faults | `RefreshGuard` | violated |
| `transfer_drain` | one file of 1 chunk, prune and late handler | `DrainEnds` | violated |
| `hub` | 3 connections, 2 ClientIDs, no messages; or 2 connections and 3 messages | `TypeOK`, `MembersAreLive`, `RoomsArePairs`, `GreetedFirst`, `ViewIsRoom`, `SignalsInOrder`, `LostIsReleased` | holds, 0.2M states |
| `hub_turned_away` | 3 connections, 3 ClientIDs, the last one posts | `SignalsComeFromThePeer` | violated |
| `presence` | one page, a remote in front and one in a background tab, 2 events | `TypeOK`, `GoneIsDropped`, `PingHasPeer`, `PresentIsKept` | holds, 2.4M states |
| `presence_ping` | the same, nobody leaves and nothing is lost | `PeersArePinged` | violated |
| `negotiation` | 2 pages, 1 fault of four kinds, 4 connections | `TypeOK`, `NoGlare`, `NoCandidateStranded`, `GlobalsAgree`, `NoConnectionLeaks`, `FirstContact` | holds, 0.4M states |
| `negotiation_reload` | the same, the fault is a reload | `ChannelComesBack` | violated |
| `session` | 2 rooms, 2 passwords, 2 brokers, 2 visits, 2 failures, a refused subscription among them | `TypeOK`, `OneClient`, `NothingLeftBehind`, `RoomIsServed`, `RoomIsSaved`, `SubscribedInTheEnd` | holds, 1.3M states |
| `chat` | 2 pages; 3 packets, or 2 and a clock, or 4 files | `ReceivedAsSent`, `HistoryIsTail`, `SelectionAgrees`, `RttIsElapsed`, `OnlyChosenGo` | holds, 1.2M states |

Bounds and why they suffice:

- `Chunks`: three chunks give a first, a middle and a last one and both parities
  of `chunkIndex % 2`; one suffices where the question is about loops, not
  chunks, and to have META and chunk overtake each other. `MaxDisturbances` rations
  link failures, peers dropped, and pages left or reloaded; two of them are a fault
  and another while the system recovers from it. Lost packets, failed reads, late
  handlers and cancels are not rationed. `plan` chooses what is sent in a behaviour. Two files are the smallest number that share a slot, and what one
  loop can do to the slot it does to any other.
- `SendCap` 2 and `BroadcastCap` 1 stand for 256: they are reached, so that full
  channels are part of every run. `PostLimit` bounds the messages of a connection,
  two being what an order needs. Three connections are one more than a room holds.
  `plan` lets either three connections come and go, or two talk.
- `presence` has the times of the code in ticks of 750 ms: 2 for announcements and
  the pruner (1500 ms), 10 for the silence a peer may keep (8000 ms are more
  than 10 ticks and less than 11), 4 for the ping (3000 ms), and a broker that
  takes up to one tick. Two events are a message lost and another, or a page that goes
  and comes back; with two remotes one can keep the other listed.
- `negotiation`: three client ids let a page that is loaded again come before,
  between or after the others; two connections are what a first contact takes,
  and two more let both pages begin anew after a fault.
- `session`: two visits are a room left for another, a room entered twice, or a
  page loaded again; two failures take the failover around both brokers, or are one
  before or after a refused subscription. A link, if the page has one, leads to the
  first room; the second is entered by hand, and the rooms differ in nothing else.
- `chat`: bytes of 8 values make a word of 4096, and the clock starts just below
  2048, where the sign bit is set, and below 4096, where the word is full.
  `ChatCap` 2 and `LogCap` 3 stand for 50 and are exceeded by 3 messages and 4
  files. `Sessions` rations what happens together in one behaviour, as chat, log
  and clock share no state but the storage.

`CHECK_DEADLOCK FALSE`: users, browsers and peers may simply do nothing more
(all files sent, all connections gone), which is no error.

### What the violations say

- `RefreshGuard`. Two files are dropped on the page. The first loop to finish
  (app.js 1246), a cancel of either (1038, 1270), or a loop that notices its
  cancel (1204) sets `activeSendingFile` to null while the other loop goes on;
  the `beforeunload` handler (121-128, "Accidental Refresh Protection") then asks
  nothing.
- `DrainEnds`. A loop waits for the channel to drain; the channel is cleaned up,
  because its peer was dropped or the room left, while its event is queued.
  `cleanupPeerConnection` (787-797) takes off four handlers but not
  `onbufferedamountlow`, which then clears the poll (1370), assigns to a property of
  null (1371) and throws before `resolve()`: `sendFile` neither returns nor throws.
  architecture.html:629-632 draws an arrow from the wait back into the loop.
- `SignalsComeFromThePeer`. A third browser is told "Room is full" but keeps its
  pumps (hub.go 193-196); what it posts is forwarded to both members, although
  `handleBroadcast` is said to forward "to the OTHER peer in the room" (155).
- `PeersArePinged`. Each presence message restarts the ping's interval of 3 s (832),
  and one comes each 1.5 s, so that no ping is sent to a peer that is well.
  The latency of architecture.html:594, protocol.js:17 and app.js:981 is measured
  only when presence stops or the peer's page is in the background.
- `ChannelComesBack`. A page that is reloaded has a new client id and is back
  within the 8 s after which its old id would be dropped. The other page then
  always has a peer, never runs `handleAllPeersDisconnected` (435-437), and keeps
  `peerConnection` to the page that is gone, so that it offers nothing (834); the
  reloaded page offers only if its id is the smaller one. All packets
  go through the broker from then on, while README.md:13 promises direct
  transfer and app.js:785 calls this part "Dynamic Re-negotiation".

`FirstContact` holds only without faults: an offer or answer that is lost is not
repeated (834).

## Fairness

`FileTransfer`: timers fire, file reads end, and a channel drains while its transport
works or its poll finds it closed (weak fairness of `Resume`, `SendChunk` and
`DrainOver`, which but for a transport that comes and goes stay enabled until they
happen); packets that reached a page's
queue are handled; a channel whose transport is up opens and one whose
transport is gone closes. Nothing is assumed of users, of presence, or of the
link. `LoopEnds` says of a loop that it goes on until it returns, rejects because a
read failed, or hangs in its drain wait; that the last happens at all is the finding
`DrainEnds`.

`SignalingHub`: goroutines run, the hub's `select` picks among ready cases at
random and so neglects none (weak fairness of `Forward` and `Unregister`, strong
fairness of `Post`, whose channel may fill up again and again before this reader
gets its turn), writes and pings happen, and on a lost connection reads and pings
fail in the end (the deadlines of 60 s and 10 s). Browsers owe nothing.

`PeerNegotiation`: pages enter, presence is announced again and again, the broker
delivers each kind of signal, the promises of the browser are settled, the pruner
finds who is gone, and two connections that can connect open their channel. Faults
and `IceUp` have none.

`RoomSession`: the fetch and the hashes end, failover timers fire, an MQTT client that was not
ended goes on connecting, and a broker that is connected answers a subscription, by
an error perhaps. Users owe nothing; brokers fail a bounded number of times.
`SubscribedInTheEnd` exempts a refused subscription.

`PeerPresence`: time goes on and intervals fire, what has arrived is handled; only
`PeersArePinged` uses it, so that its violation is not a page that stopped.
`ChatHistory` needs none.

## Proofs

All theorems about a component are of the form `Safety => ...`, the specification
without its fairness (`Spec => ...` for `ChatHistory`, which has none), and hold for any number of files, chunks, connections, rooms, texts and
for any capacities. They rest on
the named assumptions of the modules: two pages, and owners and chunk counts of the right
type (`TransferAssumption`); `Send` with room for the two messages a handler sends
(`HubAssumption`); client ids that are positive numbers (`NegotiationAssumption`); a
broker at least, and a configured password among the passwords
(`SessionAssumption`); intervals of at least a tick (`PresenceAssumption`); bytes of
more than 7 values, so that a packet type is one (`CodecAssumption`); two pages, texts
of bytes and caps of at least one entry (`ChatAssumption`). Three theorems have a
hypothesis about the constants besides, which the times of the code satisfy:
`ShortWay`, `InTwoRounds` with `Reach <= PruneAfter`, and `ShortSessions`, below.

`FileTransferProofs`. None of the safety properties is inductive alone. A file
saved is whole because the receiver counts *distinct* chunks, so the proof needs
that every chunk held or on its way was handed over and is below the file's
count (`Causality`); saved at most once because its META exists once, on the
wire, as an item, or as a saved file (`MetaOnce`); a set of chunk indices below
`Chunks[f]` with `Chunks[f]` members is all of them (`CountedIsWhole`). The slot and the
retry button need that the slot of a page names a cached file of its own
(`SlotBacked`). Together they are `IInv`, which `transfer` also checks.

| Theorem | States |
|---|---|
| `TypeCorrect`, `InductiveInvariant` | `TypeOK`, `IInv` |
| `OnlyWholeFilesSaved`, `CancelReleasesForGood` | `WholeFile`, `CancelledReleased` |
| `SlotNeverStale`, `RetryAlwaysBacked` | `SlotNamesLiveLoop`, `RetryBacked` |
| `CancelledLoopStops` | `CancelStopsLoop` |
| `ImplementsDelivery` | the transfer implements `FileDelivery` |

`SignalingHubProofs`. That members are live needs that a closed `Send` belongs to
a connection whose `ReadPump` has returned (`ShutAreGone`), for then a
registering client is not among them; that rooms are pairs needs finite rooms.
That the greeting comes first needs that whoever is in a room was told something
and that a connection yet to come was not (`GreetInv`): signals and notices go
to members only, so they never come first.

The order of signals is an invariant of whole routes: for each sender, what a client
was told, then what waits in `Broadcast`, then what the sender has yet to post is
numbered upwards (`OrderFor`, with `OrderInBroadcast` for the middle part).
`SignalsInOrder` alone is not inductive, because nothing in it keeps `Broadcast`
from holding an older signal. That the views are right needs that the last notice of
membership a member was told, read or still in `Send`, names all its mates (`View`,
in `ViewInv`); this is inductive with rooms of at most two, as with more one notice
could not name them all, and with a `Broadcast` that holds signals only.

| Theorem | States |
|---|---|
| `TypeCorrect` | `TypeOK` |
| `MembersStayLive`, `NoThirdClient` | `MembersAreLive`, `RoomsArePairs` |
| `GreetingComesFirst` | `GreetedFirst` |
| `SignalsStayInOrder` | `SignalsInOrder` |
| `ViewsAreRight` | `ViewIsRoom` |

`PeerNegotiationProofs`. The invariant (`Inv`) is about each page alone: whatever is
suspended waits for the connection there is, as cleanup ends the handlers of the
one it closes, and only the flush of the queue survives it (`Owned`); offers are
out, or under way, only to larger ids (`Offers`); candidates that wait although
there is a description have a flush of this very connection (`Flushed`), which is
stronger than `NoCandidateStranded` because a flush may find another connection
when it resumes. `Step` says once what a step of one page does, for all actions.

| Theorem | States |
|---|---|
| `TypeCorrect` | `TypeOK` |
| `GlobalsStayTogether`, `NeverGlare` | `GlobalsAgree`, `NoGlare` |
| `CandidatesAreFlushed` | `NoCandidateStranded` |
| `ConnectionsDoNotLeak` | `NoConnectionLeaks` |

`RoomSessionProofs`. One client is inductive only together with its timers: a page
that did not stray has a client or one failover timer, never both, as each
becomes the other (`Single`), and in the lobby neither (`Silent`); together
`OneInv`. What is saved needs that a call in flight has a room and password
to save (`SavedInv`).

| Theorem | States |
|---|---|
| `TypeCorrect` | `TypeOK` |
| `RoomsAreServed`, `RoomsAreSaved` | `RoomIsServed`, `RoomIsSaved` |
| `AtMostOneClient`, `LobbyIsSilent` | `OneClient`, `NothingLeftBehind` |

`PeerPresenceProofs`. `PingsOnlyInSilence` is the finding `PeersArePinged` for all
parameters: a ping is due only when no page whose intervals fire has been heard
(`PingOnlyInSilence`, defined there). It is what the code does, not what it should do.
It assumes `ShortWay`, an announcement interval and a delay that are together
shorter than the ping's interval. The invariant (`Restarted`) says that a message of
each page in front is on its way and comes before the ping is due, or that its
next one will, or that the page has just come and its first message is not late.

That who is gone is dropped (`GoneAreDropped`) relates the age of an entry to the
pruner's own clock: an entry older than the pruner's limit meets a pruner that
fires soon (`PrunedInTime`), a packet of a page that left is not on its way for
longer than a delay (`LastWords`), so that its entry was last refreshed within a delay
of its leaving, or by a packet of another page (`HeardHere`); together `GoneInv`. It
needs no hypothesis.

That who is there is kept (`PresentAreKept`) assumes that a packet's way is shorter
than the announcement interval (`InTwoRounds`) and that `Reach`, the silence that
`MaxEvents` lost messages and two delays can make, is within the pruner's limit. In a
background tab a page only answers, so the proof follows the rounds of announcement and
reply: each lost message ends one round at most, and a silence that is one or two rounds
longer than the losses explain has a message of the latest round, of the one before,
or of each still to come (`HeardOrDue`). Without `InTwoRounds` messages of more than two
rounds are on their way at once.

| Theorem | States |
|---|---|
| `TypeCorrect` | `TypeOK` |
| `GoneAreDropped`, `PresentAreKept` | `GoneIsDropped`, `PresentIsKept` |
| `PingIsForSomebody` | `PingHasPeer` |
| `PingsOnlyInSilence` | `PingOnlyInSilence` |

`PacketCodecProofs`. `DecodeUndoesEncode`: `decode` returns the type, the numbers and
the payload of each encoder's packet, the numbers cut to four bytes, as `setUint32`
does with any integer. It rests on `WordOfBytes`, four quotients and remainders that make
the last word of a number, and on `Remainder`, that there is only one such word.

`ChatHistoryProofs` extends them with the pages. That texts arrive as they were sent
needs that each packet on its way is a text that the other page sent, a ping with
the time it was sent, or a pong with that time cut to a word (`Carries`, in
`TalkInv`); `DecodeChat` and `DecodeTime` then say what the handler sees. The badge
needs that the time of a ping survives being cut and given a sign twice
(`SignedWord`), and that the two words of the clock are of the same turn or one has
its sign bit set (`Elapsed`); `BadgeIsElapsed` assumes `ShortSessions`, less than 2^31
milliseconds (24 days) of a session, as a pong that old shows any time. The history
is the end of what is shown only while a room is shown: after a load it is more than
the empty page has, until the next `EnterRoom` brings it back (`KeptInv`). That only
chosen entries go (the one whose row was clicked, the ones ticked, all of them by the
clear button, the oldest when a new one exceeds the cap, each in its own action) needs that the rows are those of the log while a room is shown, that
no file is logged twice, and that the log keeps within its cap (`LogInv`); `IsRest`
says what a splice and a filter have in common. `Without` gives the filter's result by
the rank of each index among those that stay, which has a proof without induction
(`RankOfKept`: ranks are distinct, and as many as indices).

| Theorem | States |
|---|---|
| `TextsArriveAsSent` | `ReceivedAsSent` |
| `HistoryIsKept` | `HistoryIsTail` |
| `BoxesAgree` | `SelectionAgrees` |
| `OnlyChosenAreGone` | `OnlyChosenGo` |
| `BadgeIsElapsed` | `RttIsElapsed` |

Model-checked only: the liveness properties (`LoopEnds`, `CalmDelivery`,
`LostIsReleased`, `FirstContact`, `SubscribedInTheEnd`), which the prover does not
reach under fairness.

## Plan

Done: `FileTransfer` with `FileDelivery`, `SignalingHub`, `PeerPresence`,
`PeerNegotiation`, `RoomSession`, `PacketCodec` and `ChatHistory`, each checked, and
proofs of every safety property that a run checks and that holds. Left, in this order:

1. The hub as an implementation of an abstract room that tells its members who is
   there and passes on what they post.
2. Composition of `PeerNegotiation` with `FileTransfer`, which now has its channel as
   an environment.

## Not modelled

- Of flow control (1354-1375), the amount in the channel's buffer; that a wait is
  over, replaced by another, or never over is modelled.
- QR generation: a pure algorithm of tables and bit layout without interaction, whose
  functions on whole symbols are too large to enumerate.
- The user interface: rendering, wording, styling, drag and drop, the architecture
  page. Buttons are modelled where they change protocol state. Status texts and
  the blob URLs of restored log entries, which are dead after a reload, are not.
- The Go launcher, the LAN address helper and the embedded files: I/O without state
  that a protocol reads.
