---------------------------- MODULE FileTransfer ----------------------------
(***************************************************************************)
(* Chunked file transfer between the two browsers of a room (app.js, the   *)
(* File Transfer and Incoming File sections).                              *)
(*                                                                         *)
(* A file travels as one META packet followed by its chunks.  A packet     *)
(* goes over the direct WebRTC data channel while that is open at the      *)
(* sender and over the MQTT relay otherwise, so packets of one file may    *)
(* overtake each other when the path changes.  Every sendFile call is an   *)
(* asynchronous loop of its own; all loops of a page share one slot,       *)
(* activeSendingFile.                                                      *)
(*                                                                         *)
(* The state of a file's sender and of its receiver is indexed by the file *)
(* alone, because Owner fixes which page plays which role.  fileIds are    *)
(* drawn at random from 2^31 values by the code and taken to be distinct.  *)
(***************************************************************************)
EXTENDS Integers, Sequences, FiniteSets

CONSTANTS
    Peers,      \* the two pages of the room
    FileIds,    \* one identifier per sendFile call that may happen
    NoFile,     \* null in activeSendingFile
    Owner,      \* Owner[f]: the page that calls sendFile for f
    Chunks,     \* Chunks[f]: Math.ceil(file.size / CHUNK_SIZE)
    Faults      \* what may go wrong, a subset of FaultKinds

FaultKinds ==
    {"loss", "linkdown", "prune", "leave", "reload", "readfail", "latelow"}

ASSUME TransferAssumption ==
    /\ \E a, b \in Peers : a # b /\ Peers = {a, b}
    /\ NoFile \notin FileIds
    /\ Owner \in [FileIds -> Peers]
    /\ Chunks \in [FileIds -> Nat]
    /\ Faults \subseteq FaultKinds

Other(p) == CHOOSE q \in Peers : q # p
Recipient(f) == Other(Owner[f])

Paths == {"direct", "relay"}
Packets == [type : {"meta", "chunk", "cancel"}, file : FileIds, seq : Nat]
Meta(f) == [type |-> "meta", file |-> f, seq |-> 0]
(* Faulty variant: chunks numbered from -1. *)
ChunkFromMinusOne(f, i) == [type |-> "chunk", file |-> f, seq |-> i - 1]
Chunk(f, i) == [type |-> "chunk", file |-> f, seq |-> i]
Cancel(f) == [type |-> "cancel", file |-> f, seq |-> 0]

VARIABLES
    pc,             \* pc[f]: where the sendFile loop of f is suspended
    next,           \* next[f]: chunkIndex of that loop
    button,         \* button[f]: the button its outgoing list item shows
    cached,         \* keys of cachedOutgoingFiles
    cancelledOut,   \* cancelledOutgoingFileIds
    active,         \* active[p]: activeSendingFile of page p
    hook,           \* hook[p]: loop that dataChannel.onbufferedamountlow of p resumes
    orphaned,       \* loops whose handler is on a channel that was cleaned up
    incoming,       \* keys of incomingTransfers
    got,            \* got[f]: chunks held by its item, or by the blob made of it
    early,          \* early[f]: pendingEarlyChunks
    cancelledIn,    \* cancelledIncomingFileIds
    saved,          \* saved[f]: how often f was logged and downloaded
    joined,         \* joined[p]: page p is in the room, subscribed at the broker
    up,             \* up[p]: activePeers is not empty
    dc,             \* dc[p]: dataChannel is set and its readyState is open
    link,           \* the transport under the current pair of data channels works
    wire            \* wire[path][p]: packets on their way to p

senderVars == <<pc, next, button, cached, cancelledOut, active>>
receiverVars == <<incoming, got, early, cancelledIn, saved>>
netVars == <<joined, up, dc, link, wire>>
drainVars == <<hook, orphaned>>
vars == <<senderVars, drainVars, receiverVars, netVars>>

Init ==
    /\ pc = [f \in FileIds |-> "idle"]
    /\ next = [f \in FileIds |-> 0]
    /\ button = [f \in FileIds |-> "none"]
    /\ cached = {}
    /\ cancelledOut = {}
    /\ active = [p \in Peers |-> NoFile]
    /\ hook = [p \in Peers |-> NoFile]
    /\ orphaned = {}
    /\ incoming = {}
    /\ got = [f \in FileIds |-> {}]
    /\ early = [f \in FileIds |-> {}]
    /\ cancelledIn = {}
    /\ saved = [f \in FileIds |-> 0]
    /\ joined = [p \in Peers |-> TRUE]
    /\ up = [p \in Peers |-> FALSE]
    /\ dc = [p \in Peers |-> FALSE]
    /\ link = FALSE
    /\ wire = [path \in Paths |-> [p \in Peers |-> <<>>]]

-----------------------------------------------------------------------------
(* channelSend.  An open data channel whose transport is already gone      *)
(* swallows the packet; the relay has no store, so a page that is not      *)
(* subscribed misses it.                                                   *)
Transmit(p, packet) ==
    LET q == Other(p)
        path == IF dc[p] THEN "direct" ELSE "relay"
        reaches == IF dc[p] THEN link ELSE up[p] /\ joined[q]
    IN  wire' = IF reaches THEN [wire EXCEPT ![path][q] = Append(@, packet)] ELSE wire

(* Faulty variant: the slot is not emptied. *)
NotifyKeepsSlot(p, shown) ==
    /\ button' = [f \in FileIds |->
                    IF f = active[p] THEN "retry" ELSE shown[f]]
    /\ UNCHANGED active

(* notifyInterruptedTransfer: only the file in the slot gets a retry       *)
(* button, whichever loop noticed.  "shown" is the list before the call.   *)
NotifyInterrupted(p, shown) ==
    /\ button' = [f \in FileIds |->
                    IF f = active[p] THEN "retry" ELSE shown[f]]
    /\ active' = [active EXCEPT ![p] = NoFile]

(* Faulty variant: a file that is through keeps the slot. *)
CompleteKeepsSlot(f, shown) ==
    /\ pc' = [pc EXCEPT ![f] = "done"]
    /\ button' = [shown EXCEPT ![f] = "none"]
    /\ UNCHANGED <<cancelledOut, active, hook>>

(* The head of the loop of sendFile, up to its next await or its return:   *)
(* the file is through, or cancelled, or nobody is there, or it reads on, *)
(* at once or when the data channel has less to send.                      *)
Complete(f, shown) ==
    /\ pc' = [pc EXCEPT ![f] = "done"]
    /\ active' = [active EXCEPT ![Owner[f]] = NoFile]
    /\ button' = [shown EXCEPT ![f] = "none"]
    /\ UNCHANGED <<cancelledOut, hook>>

Abandon(f, shown) ==
    /\ pc' = [pc EXCEPT ![f] = "cancelled"]
    /\ cancelledOut' = cancelledOut \ {f}
    /\ active' = [active EXCEPT ![Owner[f]] = NoFile]
    /\ button' = shown
    /\ UNCHANGED hook

Interrupt(f, shown) ==
    /\ pc' = [pc EXCEPT ![f] = "interrupted"]
    /\ NotifyInterrupted(Owner[f], shown)
    /\ UNCHANGED <<cancelledOut, hook>>

ReadOn(f, shown) ==
    /\ pc' = [pc EXCEPT ![f] = "read"]
    /\ button' = shown
    /\ UNCHANGED <<cancelledOut, active, hook>>

(* The data channel has more than 256 KB to send: waitForBufferDrain puts a*)
(* handler on it, instead of the one of another loop, and polls besides.   *)
WaitForBufferDrain(f, shown) ==
    /\ dc[Owner[f]]
    /\ pc' = [pc EXCEPT ![f] = "drain"]
    /\ hook' = [hook EXCEPT ![Owner[f]] = f]
    /\ button' = shown
    /\ UNCHANGED <<cancelledOut, active>>

(* Faulty variants: the cancelled set is not looked at; with nobody there  *)
(* the loop waits for somebody instead of giving up.                       *)
LoopTopDeaf(f, n, shown) ==
    \/ n = Chunks[f] /\ Complete(f, shown)
    \/ n # Chunks[f] /\ ~up[Owner[f]] /\ Interrupt(f, shown)
    \/ n # Chunks[f] /\ up[Owner[f]] /\ ReadOn(f, shown)

LoopTopWaits(f, n, shown) ==
    \/ n = Chunks[f] /\ Complete(f, shown)
    \/ n # Chunks[f] /\ f \in cancelledOut /\ Abandon(f, shown)
    \/ /\ n # Chunks[f] /\ f \notin cancelledOut /\ ~up[Owner[f]]
       /\ pc' = [pc EXCEPT ![f] = "yield"]
       /\ button' = shown
       /\ UNCHANGED <<cancelledOut, active, hook>>
    \/ n # Chunks[f] /\ f \notin cancelledOut /\ up[Owner[f]] /\ ReadOn(f, shown)

LoopTop(f, n, shown) ==
    \/ n = Chunks[f] /\ Complete(f, shown)
    \/ n # Chunks[f] /\ f \in cancelledOut /\ Abandon(f, shown)
    \/ n # Chunks[f] /\ f \notin cancelledOut /\ ~up[Owner[f]] /\ Interrupt(f, shown)
    \/ /\ n # Chunks[f] /\ f \notin cancelledOut /\ up[Owner[f]]
       /\ ReadOn(f, shown) \/ WaitForBufferDrain(f, shown)

(* Faulty variant: the file is not put into the cache. *)
StartSendUncached(f, replaced) ==
    /\ pc[f] = "idle"
    /\ up[Owner[f]]
    /\ pc' = [pc EXCEPT ![f] = "yield"]
    /\ cached' = cached \ replaced
    /\ active' = [active EXCEPT ![Owner[f]] = f]
    /\ button' = [g \in FileIds |-> IF g = f THEN "cancel"
                                    ELSE IF g \in replaced THEN "none"
                                    ELSE button[g]]
    /\ Transmit(Owner[f], Meta(f))
    /\ UNCHANGED <<next, cancelledOut, drainVars, receiverVars, joined, up, dc, link>>

(* sendFile up to its first await.  The list item of a retried file is     *)
(* gone and its cache entry dropped: "replaced" is that file.              *)
StartSend(f, replaced) ==
    /\ pc[f] = "idle"
    /\ up[Owner[f]]
    /\ pc' = [pc EXCEPT ![f] = "yield"]
    /\ cached' = (cached \ replaced) \cup {f}
    /\ active' = [active EXCEPT ![Owner[f]] = f]
    /\ button' = [g \in FileIds |-> IF g = f THEN "cancel"
                                    ELSE IF g \in replaced THEN "none"
                                    ELSE button[g]]
    /\ Transmit(Owner[f], Meta(f))
    /\ UNCHANGED <<next, cancelledOut, drainVars, receiverVars, joined, up, dc, link>>

SendFile(f) == StartSend(f, {})

(* The retry button of f: the same file is sent again under a new id g.    *)
RetryFile(f, g) ==
    /\ button[f] = "retry"
    /\ f \in cached
    /\ Owner[g] = Owner[f]
    /\ Chunks[g] = Chunks[f]
    /\ StartSend(g, {f})

(* The timer after META (40 ms) or after an even chunk (4 ms) fires.       *)
Resume(f) ==
    /\ pc[f] = "yield"
    /\ LoopTop(f, next[f], button)
    /\ UNCHANGED <<next, cached, orphaned, receiverVars, netVars>>

(* waitForBufferDrain is over, by its poll or by the handler of the channel*)
(* in dataChannel: less is left to send, or there is no open channel.  The *)
(* loop reads on, whoever has been cancelled or gone meanwhile.            *)
DrainOver(f) ==
    /\ pc[f] = "drain"
    /\ ~dc[Owner[f]] \/ link
    /\ pc' = [pc EXCEPT ![f] = "read"]
    /\ hook' = [hook EXCEPT ![Owner[f]] = NoFile]
    /\ orphaned' = orphaned \ {f}
    /\ UNCHANGED <<next, button, cached, cancelledOut, active, receiverVars, netVars>>

(* onbufferedamountlow of a channel that was cleaned up before it ran: the *)
(* handler clears the poll and then throws, as dataChannel is null.  The   *)
(* wait is never over.                                                     *)
LateLow(f) ==
    /\ "latelow" \in Faults
    /\ pc[f] = "drain"
    /\ f \in orphaned
    /\ pc' = [pc EXCEPT ![f] = "stuck"]
    /\ orphaned' = orphaned \ {f}
    /\ UNCHANGED <<next, button, cached, cancelledOut, active, hook,
                   receiverVars, netVars>>

(* A progress redraw rewrites the status line and with it a retry button.  *)
(* It happens on the last chunk, or when 100 ms have passed since the last.*)
Redrawn(f) ==
    LET plain == IF button[f] = "retry" THEN [button EXCEPT ![f] = "none"]
                 ELSE button
    IN  IF next[f] + 1 = Chunks[f] THEN {plain} ELSE {plain, button}

(* The file read is over: send the chunk, go on to the next await.         *)
SendChunk(f) ==
    /\ pc[f] = "read"
    /\ Transmit(Owner[f], Chunk(f, next[f]))
    /\ next' = [next EXCEPT ![f] = @ + 1]
    /\ \E shown \in Redrawn(f) :
          \/ /\ (next[f] + 1) % 2 = 0
             /\ pc' = [pc EXCEPT ![f] = "yield"]
             /\ button' = shown
             /\ UNCHANGED <<cancelledOut, active, hook>>
          \/ /\ (next[f] + 1) % 2 # 0
             /\ LoopTop(f, next[f] + 1, shown)
    /\ UNCHANGED <<cached, orphaned, receiverVars, joined, up, dc, link>>

(* slice.arrayBuffer() rejects: nothing catches it, the slot stays taken.  *)
ReadFail(f) ==
    /\ "readfail" \in Faults
    /\ pc[f] = "read"
    /\ pc' = [pc EXCEPT ![f] = "failed"]
    /\ UNCHANGED <<next, button, cached, cancelledOut, active, drainVars,
                   receiverVars, netVars>>

CancelOutgoing(f) ==
    /\ button[f] = "cancel"
    /\ button' = [button EXCEPT ![f] = "none"]
    /\ cancelledOut' = cancelledOut \cup {f}
    /\ active' = [active EXCEPT ![Owner[f]] = NoFile]
    /\ Transmit(Owner[f], Cancel(f))
    /\ UNCHANGED <<pc, next, cached, drainVars, receiverVars, joined, up, dc, link>>

-----------------------------------------------------------------------------
(* Faulty variant: chunks that came before META stay. *)
ReleaseKeepsEarly(f) ==
    /\ incoming' = incoming \ {f}
    /\ got' = [got EXCEPT ![f] = IF f \in incoming THEN {} ELSE @]
    /\ cancelledIn' = cancelledIn \cup {f}
    /\ UNCHANGED <<early, saved>>

(* Dropping what the receiver holds of f; a finished blob is not its.      *)
Release(f) ==
    /\ incoming' = incoming \ {f}
    /\ early' = [early EXCEPT ![f] = {}]
    /\ got' = [got EXCEPT ![f] = IF f \in incoming THEN {} ELSE @]
    /\ cancelledIn' = cancelledIn \cup {f}
    /\ UNCHANGED saved

CancelIncoming(f) ==
    /\ f \in incoming
    /\ Release(f)
    /\ Transmit(Recipient(f), Cancel(f))
    /\ UNCHANGED <<senderVars, drainVars, joined, up, dc, link>>

(* The item of f now holds the chunks "held"; finalizeIncomingFile runs    *)
(* when the caller found it complete.                                      *)
Store(f, held, complete) ==
    /\ got' = [got EXCEPT ![f] = held]
    /\ \/ /\ complete
          /\ incoming' = incoming \ {f}
          /\ saved' = [saved EXCEPT ![f] = @ + 1]
       \/ /\ ~complete
          /\ incoming' = incoming \cup {f}
          /\ saved' = saved

(* Faulty variants: one chunk short counts as complete; chunks that came   *)
(* before META are forgotten.                                              *)
ReceiveMetaEager(f) ==
    \/ f \in cancelledIn /\ UNCHANGED receiverVars
    \/ /\ f \notin cancelledIn
       /\ Store(f, early[f],
                early[f] # {} /\ Cardinality(early[f]) >= Chunks[f] - 1)
       /\ early' = [early EXCEPT ![f] = {}]
       /\ UNCHANGED cancelledIn

ReceiveMetaFresh(f) ==
    \/ f \in cancelledIn /\ UNCHANGED receiverVars
    \/ /\ f \notin cancelledIn
       /\ Store(f, {}, FALSE)
       /\ early' = [early EXCEPT ![f] = {}]
       /\ UNCHANGED cancelledIn

(* onReceiveFileMeta: completeness is only looked at when chunks overtook. *)
ReceiveMeta(f) ==
    \/ /\ f \in cancelledIn
       /\ UNCHANGED receiverVars
    \/ /\ f \notin cancelledIn
       /\ Store(f, early[f],
                early[f] # {} /\ Cardinality(early[f]) >= Chunks[f])
       /\ early' = [early EXCEPT ![f] = {}]
       /\ UNCHANGED cancelledIn

(* Faulty variant: the last chunk is not waited for. *)
ReceiveChunkEager(f, i) ==
    \/ f \in cancelledIn /\ UNCHANGED receiverVars
    \/ /\ f \notin cancelledIn \cup incoming
       /\ early' = [early EXCEPT ![f] = @ \cup {i}]
       /\ UNCHANGED <<incoming, got, cancelledIn, saved>>
    \/ /\ f \notin cancelledIn
       /\ f \in incoming
       /\ Store(f, got[f] \cup {i}, Cardinality(got[f]) >= Chunks[f] - 2)
       /\ UNCHANGED <<early, cancelledIn>>

(* onReceiveFileChunk *)
ReceiveChunk(f, i) ==
    \/ /\ f \in cancelledIn
       /\ UNCHANGED receiverVars
    \/ /\ f \notin cancelledIn \cup incoming
       /\ early' = [early EXCEPT ![f] = @ \cup {i}]
       /\ UNCHANGED <<incoming, got, cancelledIn, saved>>
    \/ /\ f \notin cancelledIn
       /\ f \in incoming
       /\ Store(f, got[f] \cup {i}, Cardinality(got[f] \cup {i}) >= Chunks[f])
       /\ UNCHANGED <<early, cancelledIn>>

(* FILE_CANCEL does not say which role it addresses: the page enters f in  *)
(* both cancelled sets (the one of the other role is never read) and       *)
(* empties its slot, whatever file is in there.                            *)
ReceiveCancel(q, f) ==
    /\ active' = [active EXCEPT ![q] = NoFile]
    /\ \/ /\ q = Owner[f]
          /\ cancelledOut' = cancelledOut \cup {f}
          /\ button' = [button EXCEPT ![f] = "none"]
          /\ UNCHANGED receiverVars
       \/ /\ q # Owner[f]
          /\ Release(f)
          /\ UNCHANGED <<cancelledOut, button>>

(* handleIncomingPacket for the packets of a transfer *)
Receive(path, q) ==
    /\ wire[path][q] # <<>>
    /\ IF path = "direct" THEN dc[q] ELSE joined[q]
    /\ wire' = [wire EXCEPT ![path][q] = Tail(@)]
    /\ LET packet == Head(wire[path][q]) IN
       \/ /\ packet.type = "meta"
          /\ ReceiveMeta(packet.file)
          /\ UNCHANGED <<cancelledOut, button, active>>
       \/ /\ packet.type = "chunk"
          /\ ReceiveChunk(packet.file, packet.seq)
          /\ UNCHANGED <<cancelledOut, button, active>>
       \/ /\ packet.type = "cancel"
          /\ ReceiveCancel(q, packet.file)
    /\ UNCHANGED <<pc, next, cached, drainVars, joined, up, dc, link>>

(* The broker, which sends with QoS 0, loses a packet.                     *)
Lose(q) ==
    /\ "loss" \in Faults
    /\ wire["relay"][q] # <<>>
    /\ wire' = [wire EXCEPT !["relay"][q] = Tail(@)]
    /\ UNCHANGED <<senderVars, drainVars, receiverVars, joined, up, dc, link>>

-----------------------------------------------------------------------------
(* cleanupPeerConnection: the page's handlers are gone, so what was still  *)
(* under way to it on the data channel is lost; all but one handler, that  *)
(* of a loop that waits for the channel to drain.                          *)
CloseChannel(p) ==
    /\ dc' = [dc EXCEPT ![p] = FALSE]
    /\ link' = FALSE
    /\ hook' = [hook EXCEPT ![p] = NoFile]

(* updatePeerPresence for a first peer *)
PeerSeen(p) ==
    /\ joined[p]
    /\ ~up[p]
    /\ up' = [up EXCEPT ![p] = TRUE]
    /\ UNCHANGED <<senderVars, drainVars, receiverVars, joined, dc, link, wire>>

(* startPeerPruner drops the last peer: handleAllPeersDisconnected *)
PeerLost(p) ==
    /\ "prune" \in Faults
    /\ up[p]
    /\ up' = [up EXCEPT ![p] = FALSE]
    /\ CloseChannel(p)
    /\ orphaned' = orphaned \cup ({hook[p]} \ {NoFile})
    /\ wire' = [wire EXCEPT !.direct[p] = <<>>]
    /\ IF active[p] # NoFile THEN NotifyInterrupted(p, button)
                             ELSE UNCHANGED <<button, active>>
    /\ UNCHANGED <<pc, next, cached, cancelledOut, receiverVars, joined>>

(* btnLeaveRoom: showLobbyView, cleanupConnection.  No loop is told.       *)
LeaveRoom(p) ==
    /\ "leave" \in Faults
    /\ joined[p]
    /\ joined' = [joined EXCEPT ![p] = FALSE]
    /\ up' = [up EXCEPT ![p] = FALSE]
    /\ CloseChannel(p)
    /\ orphaned' = orphaned \cup ({hook[p]} \ {NoFile})
    /\ wire' = [path \in Paths |-> [wire[path] EXCEPT ![p] = <<>>]]
    /\ UNCHANGED <<senderVars, receiverVars>>

(* The page is reloaded, in the room or in the lobby: the new one knows    *)
(* nothing, downloads are kept.                                            *)
Reload(p) ==
    LET mine == {f \in FileIds : Owner[f] = p}
    IN  /\ "reload" \in Faults
        /\ joined' = [joined EXCEPT ![p] = FALSE]
        /\ up' = [up EXCEPT ![p] = FALSE]
        /\ CloseChannel(p)
        /\ orphaned' = orphaned \ mine
        /\ wire' = [path \in Paths |-> [wire[path] EXCEPT ![p] = <<>>]]
        /\ pc' = [f \in FileIds |-> IF f \in mine /\ pc[f] # "idle"
                                    THEN "gone" ELSE pc[f]]
        /\ button' = [f \in FileIds |-> IF f \in mine THEN "none" ELSE button[f]]
        /\ cached' = cached \ mine
        /\ cancelledOut' = cancelledOut \ mine
        /\ active' = [active EXCEPT ![p] = NoFile]
        /\ incoming' = incoming \cap mine
        /\ got' = [f \in FileIds |-> IF f \in incoming \ mine THEN {} ELSE got[f]]
        /\ early' = [f \in FileIds |-> IF f \in mine THEN early[f] ELSE {}]
        /\ cancelledIn' = cancelledIn \cap mine
        /\ UNCHANGED <<next, saved>>

(* enterRoom, from the lobby or from initApp after a reload *)
EnterRoom(p) ==
    /\ ~joined[p]
    /\ joined' = [joined EXCEPT ![p] = TRUE]
    /\ UNCHANGED <<senderVars, drainVars, receiverVars, up, dc, link, wire>>

-----------------------------------------------------------------------------
(* The WebRTC stack.  How a pair of channels comes about is negotiation,   *)
(* which this module leaves open: it may succeed whenever none is open and *)
(* both pages have a peer, without which they have no peerConnection.      *)
LinkUp ==
    /\ ~link
    /\ \A p \in Peers : up[p] /\ ~dc[p]
    /\ link' = TRUE
    /\ wire' = [wire EXCEPT !.direct = [p \in Peers |-> <<>>]]
    /\ UNCHANGED <<senderVars, drainVars, receiverVars, joined, up, dc>>

(* dataChannel is a new channel, on which a late handler of an old one can *)
(* work as on its own.                                                     *)
DcOpen(p) ==
    /\ link
    /\ ~dc[p]
    /\ dc' = [dc EXCEPT ![p] = TRUE]
    /\ orphaned' = {f \in orphaned : Owner[f] # p}
    /\ UNCHANGED <<senderVars, hook, receiverVars, joined, up, link, wire>>

LinkDown ==
    /\ "linkdown" \in Faults
    /\ link
    /\ link' = FALSE
    /\ UNCHANGED <<senderVars, drainVars, receiverVars, joined, up, dc, wire>>

(* The channel of p notices: readyState is closed from here on, and it has *)
(* nothing more to tell its handler.                                       *)
DcClosed(p) ==
    /\ ~link
    /\ dc[p]
    /\ dc' = [dc EXCEPT ![p] = FALSE]
    /\ wire' = [wire EXCEPT !.direct[p] = <<>>]
    /\ hook' = [hook EXCEPT ![p] = NoFile]
    /\ UNCHANGED <<senderVars, orphaned, receiverVars, joined, up, link>>

-----------------------------------------------------------------------------
(* What the pages, the broker and the browsers do when all is well.        *)
Work ==
    \/ \E f \in FileIds :
          \/ SendFile(f)
          \/ \E g \in FileIds : RetryFile(f, g)
          \/ Resume(f)
          \/ DrainOver(f)
          \/ SendChunk(f)
          \/ CancelOutgoing(f)
          \/ CancelIncoming(f)
    \/ \E p \in Peers :
          \/ \E path \in Paths : Receive(path, p)
          \/ PeerSeen(p)
          \/ EnterRoom(p)
          \/ DcOpen(p)
          \/ DcClosed(p)
    \/ LinkUp

(* What may go wrong, if Faults has it.                                    *)
Trouble ==
    \/ \E f \in FileIds : ReadFail(f) \/ LateLow(f)
    \/ \E p \in Peers : Lose(p) \/ PeerLost(p) \/ LeaveRoom(p) \/ Reload(p)
    \/ LinkDown

Next == Work \/ Trouble

(* Timers fire, reads end and channels drain (Resume, SendChunk and        *)
(* DrainOver); a subscribed page gets its packets; a channel whose         *)
(* transport is up opens, or notices that it is down.  Users, presence and *)
(* the link owe nothing.                                                   *)
Fairness ==
    /\ \A f \in FileIds :
          WF_vars(Resume(f)) /\ WF_vars(DrainOver(f)) /\ WF_vars(SendChunk(f))
    /\ \A p \in Peers :
          /\ \A path \in Paths : WF_vars(Receive(path, p))
          /\ WF_vars(DcOpen(p))
          /\ WF_vars(DcClosed(p))

Safety == Init /\ [][Next]_vars
Spec == Safety /\ Fairness
-----------------------------------------------------------------------------
(* Types of the state; a packet names a file and a non-negative index.     *)
TypeOK ==
    /\ pc \in [FileIds -> {"idle", "yield", "drain", "read", "done", "cancelled",
                           "interrupted", "failed", "stuck", "gone"}]
    /\ next \in [FileIds -> Nat]
    /\ button \in [FileIds -> {"none", "cancel", "retry"}]
    /\ cached \subseteq FileIds
    /\ cancelledOut \subseteq FileIds
    /\ active \in [Peers -> FileIds \cup {NoFile}]
    /\ hook \in [Peers -> FileIds \cup {NoFile}]
    /\ orphaned \subseteq FileIds
    /\ incoming \subseteq FileIds
    /\ got \in [FileIds -> SUBSET Nat]
    /\ early \in [FileIds -> SUBSET Nat]
    /\ cancelledIn \subseteq FileIds
    /\ saved \in [FileIds -> Nat]
    /\ joined \in [Peers -> BOOLEAN]
    /\ up \in [Peers -> BOOLEAN]
    /\ dc \in [Peers -> BOOLEAN]
    /\ link \in BOOLEAN
    /\ wire \in [Paths -> [Peers -> Seq(Packets)]]

Whole(f) == 0 .. Chunks[f] - 1

(* A file that finalizeIncomingFile logged and downloaded was made of all  *)
(* its chunks, however they were reordered, lost or early: counting them   *)
(* never lets a blob with a hole through.                                  *)
WholeFile == \A f \in FileIds : saved[f] > 0 => got[f] = Whole(f)

(* Once a receiver holds f for cancelled, by its user or by FILE_CANCEL,   *)
(* nothing of f is held and nothing comes back: not by a META that the     *)
(* cancel overtook, not by chunks still under way on the other path.       *)
CancelledReleased ==
    \A f \in cancelledIn : f \notin incoming /\ early[f] = {}

(* activeSendingFile never names a file whose loop has ended (the refresh  *)
(* warning would stay on for good); a file read that failed and a drain    *)
(* wait that is never over are the exceptions.                             *)
SlotNamesLiveLoop ==
    \A p \in Peers : active[p] # NoFile =>
        pc[active[p]] \in {"yield", "drain", "read", "failed", "stuck"}

(* A retry button means that there is something to retry with and a need   *)
(* to: the file is still cached and was not reported as sent.              *)
RetryBacked ==
    \A f \in FileIds : button[f] = "retry" => f \in cached /\ pc[f] # "done"

(* A cancelled loop sends at most the chunk it was reading, or was about to*)
(* read when the channel has drained: a step that sends a chunk of a       *)
(* cancelled file does not go on to the next.                              *)
CancelStopsLoop ==
    [][\A f \in FileIds :
          f \in cancelledOut /\ next'[f] # next[f]
              => pc'[f] \notin {"read", "drain"}]_vars

(* The beforeunload handler asks before the page p is left. *)
AsksBeforeUnload(p) ==
    active[p] # NoFile \/ \E f \in incoming : Recipient(f) = p

(* Where a sendFile loop is that has not ended.                            *)
Underway == {"yield", "drain", "read"}

(* While a page is sending a file, to a peer that is there and without a   *)
(* cancel, leaving the page asks first (Accidental Refresh Protection).    *)
RefreshGuard ==
    \A f \in FileIds :
        pc[f] \in Underway /\ up[Owner[f]] /\ f \notin cancelledOut
            => AsksBeforeUnload(Owner[f])

(* Every sendFile loop comes to an end, whatever happens to the link, the  *)
(* peers and the page; or it rejects (a failed read), or it hangs in its   *)
(* wait for the channel to drain, which is what DrainEnds is about.        *)
LoopEnds ==
    \A f \in FileIds : pc[f] \in Underway ~> pc[f] \notin Underway

(* A loop that waits for the data channel to drain goes on in the end      *)
(* (architecture.html: from Drain back to CheckBuf).                       *)
DrainEnds ==
    \A f \in FileIds : pc[f] = "drain" ~> pc[f] \notin {"drain", "stuck"}

(* If nothing goes wrong, a file with at least one chunk is saved at the   *)
(* receiver or cancelled there, also when its packets switch from relay to *)
(* channel.                                                                *)
DeliveredOrCancelled ==
    \A f \in FileIds :
        (pc[f] # "idle" /\ Chunks[f] > 0) ~> (saved[f] = 1 \/ f \in cancelledIn)

(* The transfer implements FileDelivery: at most one download of a file,   *)
(* only after the sender handed all of it over.                            *)
Delivery == INSTANCE FileDelivery WITH handed <- next, delivered <- saved
DeliverySpec == Delivery!Spec

-----------------------------------------------------------------------------
(* The inductive invariant behind the safety properties.                   *)
(* A META or chunk is on its way to the recipient of its file only, and a  *)
(* chunk on its way or held has been handed over by the sender.            *)
Causality ==
    /\ \A path \in Paths, q \in Peers : \A i \in DOMAIN wire[path][q] :
          LET packet == wire[path][q][i] IN
          /\ packet.type # "cancel" => q = Recipient(packet.file)
          /\ packet.type = "chunk" => packet.seq < next[packet.file]
    /\ \A f \in FileIds :
          /\ next[f] <= Chunks[f]
          /\ pc[f] \in {"read", "drain"} => next[f] < Chunks[f]
          /\ pc[f] = "idle" => next[f] = 0
          /\ \A i \in got[f] \cup early[f] : i < next[f]

IsMeta(packet, f) == packet.type = "meta" /\ packet.file = f

(* The META of a file exists once: on its way, or turned into an item, or  *)
(* turned into a saved file.                                               *)
MetaOnce ==
    \A f \in FileIds :
        /\ \A c, d \in Paths, q, r \in Peers :
              \A i \in DOMAIN wire[c][q], j \in DOMAIN wire[d][r] :
                 IsMeta(wire[c][q][i], f) /\ IsMeta(wire[d][r][j], f)
                     => c = d /\ q = r /\ i = j
        /\ \A c \in Paths, q \in Peers : \A i \in DOMAIN wire[c][q] :
              IsMeta(wire[c][q][i], f)
                  => f \notin incoming /\ saved[f] = 0 /\ pc[f] # "idle"
        /\ f \in incoming => saved[f] = 0 /\ pc[f] # "idle"
        /\ saved[f] > 0 => saved[f] = 1 /\ pc[f] # "idle"

(* The slot of a page names a file of its own, and a file that could still *)
(* be retried is cached.                                                   *)
SlotBacked ==
    /\ \A p \in Peers : active[p] # NoFile =>
          Owner[active[p]] = p /\ active[p] \in cached
    /\ \A f \in FileIds : pc[f] = "idle" => button[f] = "none"

IInv ==
    /\ TypeOK
    /\ Causality
    /\ MetaOnce
    /\ SlotBacked
    /\ WholeFile
    /\ CancelledReleased
    /\ SlotNamesLiveLoop
    /\ RetryBacked
=============================================================================
