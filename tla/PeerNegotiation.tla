--------------------------- MODULE PeerNegotiation --------------------------
(***************************************************************************)
(* How two pages of app.js agree on a WebRTC connection: presence makes    *)
(* the one with the smaller client id send an offer, which the other       *)
(* answers; both send candidates.  The handlers are asynchronous functions *)
(* over global variables, so an action is a handler from one await to the  *)
(* next, and what it finds in the globals then may be another connection.  *)
(*                                                                         *)
(* The browser's RTCPeerConnection is the environment: it is what app.js   *)
(* needs of it, a number, a signaling state, and whose description and     *)
(* candidates it was given.  Two connections with each other's description *)
(* and candidates connect.                                                 *)
(***************************************************************************)
EXTENDS Integers, FiniteSets

CONSTANTS
    Pages,
    Ids,        \* the client ids that pages draw, ordered
    Faults,     \* kinds of faults: "lose", "reload", "leave", "prune"
    MaxFaults,  \* bound: faults
    MaxConns    \* bound: connections created

FaultKinds == {"lose", "reload", "leave", "prune"}

ASSUME NegotiationAssumption ==
    /\ Ids \subseteq Nat \ {0}
    /\ Faults \subseteq FaultKinds
    /\ MaxFaults \in Nat /\ MaxConns \in Nat

VARIABLES
    id,       \* id[p]: myClientId
    room,     \* pages that are in the room and connected to the broker
    peers,    \* peers[p]: keys of activePeers
    pc,       \* pc[p]: peerConnection, NoConn if null
    dc,       \* dc[p]: dataChannel, NoChannel if null
    direct,   \* direct[p]: isDirectP2P
    queue,    \* queue[p]: candidateQueue
    tasks,    \* tasks[p]: handlers that are suspended in an await
    wire,     \* signals on their way, in no order
    conns,    \* connections created so far
    used,     \* ids drawn so far
    faults    \* faults so far

vars == <<id, room, peers, pc, dc, direct, queue, tasks, wire, conns, used,
          faults>>
bounds == <<conns, used, faults>>

(* A connection: its number, for whom it was created, signalingState, the  *)
(* number of the connection that remoteDescription describes, and those    *)
(* that candidates were added of.                                          *)
(* Faulty variant: connectionState taken for signalingState.                *)
ConnNew(n, to) == [nr |-> n, to |-> to, sig |-> "new", remote |-> 0, heard |-> {}]
Conn(n, to) == [nr |-> n, to |-> to, sig |-> "stable", remote |-> 0, heard |-> {}]
NoConn == Conn(0, 0)
Channel(n, state) == [nr |-> n, state |-> state]
NoChannel == Channel(0, "closed")

Signal(type, from, to, sdp) == [type |-> type, from |-> from, to |-> to, sdp |-> sdp]

(* A suspended handler: what it waits for and on which connection, to whom *)
(* it will answer, and the description it was given.                       *)
Task(step, on, to, sdp) == [step |-> step, on |-> on, to |-> to, sdp |-> sdp]

InRoom(i) == \E q \in room : id[q] = i

(* publishSignal: nothing without a broker; a signal whose target has left *)
(* reaches nobody.                                                         *)
Publish(p, msgs) ==
    wire \cup {m \in msgs : p \in room /\ InRoom(m.to)}

Init ==
    /\ id \in [Pages -> Ids]
    /\ \A p, q \in Pages : p # q => id[p] # id[q]
    /\ room = {}
    /\ peers = [p \in Pages |-> {}]
    /\ pc = [p \in Pages |-> NoConn]
    /\ dc = [p \in Pages |-> NoChannel]
    /\ direct = [p \in Pages |-> FALSE]
    /\ queue = [p \in Pages |-> {}]
    /\ tasks = [p \in Pages |-> {}]
    /\ wire = {}
    /\ conns = 0
    /\ used = {id[p] : p \in Pages}
    /\ faults = 0

-----------------------------------------------------------------------------
(* Presence and the offer.                                                 *)

(* announcePresence, by its interval or as a reply.                        *)
AnnouncePresence(p) ==
    /\ p \in room
    /\ wire' = Publish(p, {Signal("presence", id[p], id[q], 0) : q \in room \ {p}})
    /\ UNCHANGED <<id, room, peers, pc, dc, direct, queue, tasks, bounds>>

(* Faulty variant: whoever hears of the other offers.                      *)
OffersToAll(p, i) == pc[p] = NoConn
OffersTo(p, i) == id[p] < i /\ pc[p] = NoConn

HearPresence(p, m) ==
    /\ m.type = "presence"
    /\ wire' = wire \ {m}
    /\ peers' = [peers EXCEPT ![p] = @ \cup {m.from}]
    /\ IF OffersTo(p, m.from)
       THEN /\ conns < MaxConns
            /\ conns' = conns + 1
            /\ pc' = [pc EXCEPT ![p] = Conn(conns', m.from)]
            /\ dc' = [dc EXCEPT ![p] = Channel(conns', "connecting")]
            /\ tasks' = [tasks EXCEPT ![p] =
                            @ \cup {Task("offer", conns', m.from, 0)}]
       ELSE UNCHANGED <<pc, dc, tasks, conns>>
    /\ UNCHANGED <<id, room, direct, queue, used, faults>>

(* The connection gathers a candidate once it has a local description.     *)
Described(p, type, t) ==
    {Signal(type, id[p], t.to, t.on), Signal("candidate", id[p], pc[p].to, t.on)}

(* createOffer and setLocalDescription are over: the offer goes out, if    *)
(* no offer of the other page has come in between.                         *)
SendOffer(p, t) ==
    /\ t.step = "offer"
    /\ tasks' = [tasks EXCEPT ![p] = @ \ {t}]
    /\ IF pc[p].sig = "stable"
       THEN /\ pc' = [pc EXCEPT ![p].sig = "have-local-offer"]
            /\ wire' = Publish(p, Described(p, "offer", t))
       ELSE UNCHANGED <<pc, wire>>
    /\ UNCHANGED <<id, room, peers, dc, direct, queue, bounds>>

-----------------------------------------------------------------------------
(* The answer.                                                             *)

(* Faulty variant: a second connection while there is one.                 *)
CreateAnother(p, to) == Conn(conns + 1, to)
(* createPeerConnection keeps a connection that there is, whoever it is to.*)
CreatePeerConnection(p, to) == IF pc[p] # NoConn THEN pc[p] ELSE Conn(conns + 1, to)

HearOffer(p, m) ==
    LET c == CreatePeerConnection(p, m.from)
    IN  /\ m.type = "offer"
        /\ c.nr <= MaxConns
        /\ conns' = IF c.nr > conns THEN c.nr ELSE conns
        /\ wire' = wire \ {m}
        /\ peers' = [peers EXCEPT ![p] = @ \cup {m.from}]
        /\ pc' = [pc EXCEPT ![p] = c]
        /\ tasks' = [tasks EXCEPT ![p] =
                        @ \cup {Task("remote offer", c.nr, m.from, m.sdp)}]
        /\ UNCHANGED <<id, room, dc, direct, queue, used, faults>>

(* Faulty variant: the queue is left as it is.                             *)
NoFlush(p, c, t) ==
    /\ pc' = [pc EXCEPT ![p] = c]
    /\ tasks' = [tasks EXCEPT ![p] = (@ \ {t}) \cup
                    (IF c.sig = "have-remote-offer"
                     THEN {Task("answer", c.nr, t.to, t.sdp)} ELSE {})]
    /\ queue' = queue
(* flushCandidateQueue of a handler that finds connection c: it adds one   *)
(* candidate and waits, or finds none left and goes on to createAnswer,    *)
(* which only a connection with a remote offer can do.  A candidate counts *)
(* only for the connection it belongs to; all errors are swallowed.        *)
Flush(p, c, t) ==
    \/ /\ queue[p] = {}
       /\ pc' = [pc EXCEPT ![p] = c]
       /\ tasks' = [tasks EXCEPT ![p] = (@ \ {t}) \cup
                       (IF t.to # 0 /\ c.sig = "have-remote-offer"
                        THEN {Task("answer", c.nr, t.to, t.sdp)} ELSE {})]
       /\ queue' = queue
    \/ \E n \in queue[p] :
       /\ queue' = [queue EXCEPT ![p] = @ \ {n}]
       /\ pc' = [pc EXCEPT ![p] = [c EXCEPT !.heard = @ \cup ({n} \cap {c.remote})]]
       /\ tasks' = [tasks EXCEPT ![p] =
                       (@ \ {t}) \cup {Task("flush", c.nr, t.to, t.sdp)}]

(* setRemoteDescription of an offer is over.  An offer of a connection     *)
(* other than the one it has been talking to may be rejected.              *)
TakeOffer(p, t) ==
    /\ t.step = "remote offer"
    /\ \/ Flush(p, [pc[p] EXCEPT !.sig = "have-remote-offer", !.remote = t.sdp], t)
       \/ /\ pc[p].remote \notin {0, t.sdp}
          /\ tasks' = [tasks EXCEPT ![p] = @ \ {t}]
          /\ UNCHANGED <<pc, queue>>
    /\ UNCHANGED <<id, room, peers, dc, direct, wire, bounds>>

(* addIceCandidate of the flush is over, or failed as cleanup closed the   *)
(* connection, and the loop goes on with the connection that is there now; *)
(* on a closed connection it may also never be over.                       *)
FlushOn(p, t) ==
    /\ t.step = "flush"
    /\ \/ pc[p] # NoConn /\ Flush(p, pc[p], t)
       \/ /\ pc[p] = NoConn
          /\ queue' = [queue EXCEPT ![p] = {}]
          /\ tasks' = [tasks EXCEPT ![p] = @ \ {t}]
          /\ UNCHANGED pc
       \/ /\ pc[p].nr # t.on
          /\ tasks' = [tasks EXCEPT ![p] = @ \ {t}]
          /\ UNCHANGED <<pc, queue>>
    /\ UNCHANGED <<id, room, peers, dc, direct, wire, bounds>>

(* createAnswer and setLocalDescription are over, unless another handler   *)
(* has answered the offer before: the answer goes out.                     *)
SendAnswer(p, t) ==
    /\ t.step = "answer"
    /\ tasks' = [tasks EXCEPT ![p] = @ \ {t}]
    /\ IF pc[p].sig = "have-remote-offer"
       THEN /\ pc' = [pc EXCEPT ![p].sig = "stable"]
            /\ wire' = Publish(p, Described(p, "answer", t))
       ELSE UNCHANGED <<pc, wire>>
    /\ UNCHANGED <<id, room, peers, dc, direct, queue, bounds>>

HearAnswer(p, m) ==
    /\ m.type = "answer"
    /\ wire' = wire \ {m}
    /\ tasks' = IF pc[p].sig # "stable"
                THEN [tasks EXCEPT ![p] =
                        @ \cup {Task("remote answer", pc[p].nr, 0, m.sdp)}]
                ELSE tasks
    /\ UNCHANGED <<id, room, peers, pc, dc, direct, queue, bounds>>

(* setRemoteDescription of an answer is over: it needs an offer of ours.   *)
TakeAnswer(p, t) ==
    /\ t.step = "remote answer"
    /\ \/ /\ pc[p].sig = "have-local-offer"
          /\ Flush(p, [pc[p] EXCEPT !.sig = "stable", !.remote = t.sdp], t)
       \/ /\ pc[p].sig # "have-local-offer"
          /\ tasks' = [tasks EXCEPT ![p] = @ \ {t}]
          /\ UNCHANGED <<pc, queue>>
    /\ UNCHANGED <<id, room, peers, dc, direct, wire, bounds>>

HearCandidate(p, m) ==
    /\ m.type = "candidate"
    /\ wire' = wire \ {m}
    /\ IF pc[p].remote # 0
       THEN /\ pc' = [pc EXCEPT ![p].heard = @ \cup ({m.sdp} \cap {pc[p].remote})]
            /\ UNCHANGED queue
       ELSE /\ queue' = [queue EXCEPT ![p] = @ \cup {m.sdp}]
            /\ UNCHANGED pc
    /\ UNCHANGED <<id, room, peers, dc, direct, tasks, bounds>>

(* handleSignalingMessage; signals for others are ignored.                 *)
Receive(p, m) ==
    /\ p \in room /\ m.to = id[p]
    /\ HearPresence(p, m) \/ HearOffer(p, m) \/ HearAnswer(p, m) \/ HearCandidate(p, m)

-----------------------------------------------------------------------------
(* The browsers connect.                                                   *)

Joined(p, q) ==
    /\ pc[p] # NoConn /\ pc[q] # NoConn
    /\ pc[p].sig = "stable" /\ pc[q].sig = "stable"
    /\ pc[p].remote = pc[q].nr /\ pc[q].remote = pc[p].nr
    /\ pc[q].nr \in pc[p].heard /\ pc[p].nr \in pc[q].heard

(* ICE reports "connected".                                                *)
IceUp(p) ==
    /\ ~direct[p]
    /\ \E q \in Pages : Joined(p, q)
    /\ direct' = [direct EXCEPT ![p] = TRUE]
    /\ UNCHANGED <<id, room, peers, pc, dc, queue, tasks, wire, bounds>>

(* onopen, at the answering page after ondatachannel, whose channel takes  *)
(* the place of one that is there and closed.  (In the place of an open    *)
(* one, which has lost its other end, it would leave the same state.)      *)
DcOpen(p) ==
    /\ \E q \in Pages :
        /\ Joined(p, q)
        /\ \/ dc[p].state = "connecting"
           \/ dc[p].state = "closed" /\ dc[q].state # "closed"
    /\ dc' = [dc EXCEPT ![p] = Channel(pc[p].nr, "open")]
    /\ direct' = [direct EXCEPT ![p] = TRUE]
    /\ UNCHANGED <<id, room, peers, pc, queue, tasks, wire, bounds>>

(* The other end is gone: onclose, or ICE reports "disconnected".          *)
DcClosed(p) ==
    /\ direct[p] \/ dc[p].state = "open"
    /\ \A q \in Pages : ~Joined(p, q)
    /\ dc' = [dc EXCEPT ![p].state = "closed"]
    /\ direct' = [direct EXCEPT ![p] = FALSE]
    /\ UNCHANGED <<id, room, peers, pc, queue, tasks, wire, bounds>>

-----------------------------------------------------------------------------
(* Cleanup and faults.                                                     *)

(* Faulty variant: the channel is closed, but stays in its variable.       *)
CleanupKeepsChannel(p) ==
    /\ pc' = [pc EXCEPT ![p] = NoConn]
    /\ direct' = [direct EXCEPT ![p] = FALSE]
    /\ queue' = [queue EXCEPT ![p] = {}]
    /\ tasks' = [tasks EXCEPT ![p] = {t \in @ : t.step = "flush"}]
    /\ dc' = [dc EXCEPT ![p].state = "closed"]
(* cleanupPeerConnection.  What waits for the closed connection fails or   *)
(* waits for ever, which ends a handler; only the flush loop goes on.      *)
CleanupPeerConnection(p) ==
    /\ pc' = [pc EXCEPT ![p] = NoConn]
    /\ dc' = [dc EXCEPT ![p] = NoChannel]
    /\ direct' = [direct EXCEPT ![p] = FALSE]
    /\ queue' = [queue EXCEPT ![p] = {}]
    /\ tasks' = [tasks EXCEPT ![p] = {t \in @ : t.step = "flush"}]

Fault(kind) ==
    /\ kind \in Faults
    /\ faults < MaxFaults
    /\ faults' = faults + 1
    /\ UNCHANGED conns

(* The pruner drops a peer: one that is gone, or, as a fault, one that was *)
(* not heard of for too long.  With the last peer goes the connection.     *)
Prune(p, i) ==
    /\ i \in peers[p]
    /\ IF InRoom(i) THEN Fault("prune") ELSE UNCHANGED <<conns, faults>>
    /\ peers' = [peers EXCEPT ![p] = @ \ {i}]
    /\ IF peers[p] = {i} THEN CleanupPeerConnection(p)
       ELSE UNCHANGED <<pc, dc, direct, queue, tasks>>
    /\ UNCHANGED <<id, room, wire, used>>

Unheard(p) == {m \in wire : m.to # id[p]}

EnterRoom(p) ==
    /\ p \notin room
    /\ room' = room \cup {p}
    /\ UNCHANGED <<id, peers, pc, dc, direct, queue, tasks, wire, bounds>>

(* showLobbyView and cleanupConnection.                                    *)
LeaveRoom(p) ==
    /\ p \in room
    /\ Fault("leave")
    /\ room' = room \ {p}
    /\ peers' = [peers EXCEPT ![p] = {}]
    /\ CleanupPeerConnection(p)
    /\ wire' = Unheard(p)
    /\ UNCHANGED <<id, used>>

(* The page is loaded again: it draws a new client id and, as its room is  *)
(* in the session storage, enters again.                                   *)
Reload(p) ==
    /\ p \in room
    /\ Fault("reload")
    /\ \E i \in Ids \ used :
        /\ id' = [id EXCEPT ![p] = i]
        /\ used' = used \cup {i}
    /\ room' = room \ {p}
    /\ peers' = [peers EXCEPT ![p] = {}]
    /\ pc' = [pc EXCEPT ![p] = NoConn]
    /\ dc' = [dc EXCEPT ![p] = NoChannel]
    /\ direct' = [direct EXCEPT ![p] = FALSE]
    /\ queue' = [queue EXCEPT ![p] = {}]
    /\ tasks' = [tasks EXCEPT ![p] = {}]
    /\ wire' = Unheard(p)

Lose(m) ==
    /\ Fault("lose")
    /\ wire' = wire \ {m}
    /\ UNCHANGED <<id, room, peers, pc, dc, direct, queue, tasks, used>>

-----------------------------------------------------------------------------
Resume(p, t) ==
    \/ SendOffer(p, t)
    \/ TakeOffer(p, t)
    \/ FlushOn(p, t)
    \/ SendAnswer(p, t)
    \/ TakeAnswer(p, t)

Next ==
    \/ \E p \in Pages, m \in wire : Receive(p, m)
    \/ \E p \in Pages : \E t \in tasks[p] : Resume(p, t)
    \/ \E p \in Pages :
        \/ AnnouncePresence(p)
        \/ IceUp(p)
        \/ DcOpen(p)
        \/ DcClosed(p)
        \/ EnterRoom(p)
        \/ LeaveRoom(p)
        \/ Reload(p)
    \/ \E p \in Pages, i \in Ids : Prune(p, i)
    \/ \E m \in wire : Lose(m)

Hears(p, m) == p \in room /\ m.to = id[p]

(* Timers fire, the broker delivers, promises are settled, and browsers    *)
(* that can connect do.                                                    *)
Fairness ==
    \A p \in Pages :
        /\ WF_vars(EnterRoom(p))
        /\ WF_vars(AnnouncePresence(p))
        /\ WF_vars(\E i \in Ids : ~InRoom(i) /\ Prune(p, i))
        /\ WF_vars(\E m \in wire : Hears(p, m) /\ HearPresence(p, m))
        /\ WF_vars(\E m \in wire : Hears(p, m) /\ HearOffer(p, m))
        /\ WF_vars(\E m \in wire : Hears(p, m) /\ HearAnswer(p, m))
        /\ WF_vars(\E m \in wire : Hears(p, m) /\ HearCandidate(p, m))
        /\ WF_vars(\E t \in tasks[p] : Resume(p, t))
        /\ WF_vars(DcOpen(p))

Safety == Init /\ [][Next]_vars
Spec == Safety /\ Fairness

-----------------------------------------------------------------------------
(* Properties.                                                             *)

SigStates == {"stable", "have-local-offer", "have-remote-offer"}
Steps == {"offer", "remote offer", "flush", "answer", "remote answer"}
SignalTypes == {"presence", "offer", "answer", "candidate"}
AnyId == Ids \cup {0}
ConnNrs == 0..MaxConns
ConnType == [nr : ConnNrs, to : AnyId, sig : SigStates, remote : ConnNrs,
             heard : SUBSET ConnNrs]

(* The type of the state.                                                  *)
TypeOK ==
    /\ id \in [Pages -> Ids] /\ used \subseteq Ids
    /\ room \subseteq Pages
    /\ peers \in [Pages -> SUBSET Ids]
    /\ pc \in [Pages -> ConnType]
    /\ dc \in [Pages -> [nr : ConnNrs, state : {"connecting", "open", "closed"}]]
    /\ direct \in [Pages -> BOOLEAN]
    /\ queue \in [Pages -> SUBSET ConnNrs]
    /\ tasks \in [Pages -> SUBSET [step : Steps, on : ConnNrs, to : AnyId,
                                   sdp : ConnNrs]]
    /\ wire \subseteq [type : SignalTypes, from : Ids, to : Ids, sdp : ConnNrs]
    /\ conns \in ConnNrs /\ faults \in 0..MaxFaults

(* Of two pages that wait for an answer, never each waits for the other's: *)
(* the client ids decide who offers.                                       *)
NoGlare ==
    \A p, q \in Pages :
        ~ /\ pc[p].sig = "have-local-offer" /\ pc[p].to = id[q]
          /\ pc[q].sig = "have-local-offer" /\ pc[q].to = id[p]

(* A candidate that came before the description of its connection does not *)
(* stay in the queue when the description is there: a handler flushes it.  *)
NoCandidateStranded ==
    \A p \in Pages :
        pc[p].remote # 0 /\ queue[p] # {} => \E t \in tasks[p] : t.step = "flush"

(* The globals belong together although handlers and events of an earlier  *)
(* connection may still come: the channel is one of the connection there   *)
(* is, and the page shows "direct" only while it has a connection.         *)
GlobalsAgree ==
    \A p \in Pages :
        /\ dc[p] # NoChannel => dc[p].nr = pc[p].nr
        /\ direct[p] => pc[p] # NoConn

(* A connection that was created is the page's own or was closed: what is  *)
(* there is not replaced by another, which would go on beside it.          *)
NoConnectionLeaks ==
    [][\A p \in Pages : pc[p] # NoConn /\ pc'[p] # NoConn => pc'[p].nr = pc[p].nr]_vars

Connected == \A p \in Pages : dc[p].state = "open"

(* Two pages that come to a room get their direct channel, whoever comes   *)
(* first and however presence, offer, answer and candidates overtake each  *)
(* other, if nothing is lost and nobody leaves.                            *)
FirstContact == [](faults = 0) => <>[]Connected

(* After a reload, too, the two pages end up with a direct channel: the    *)
(* "Dynamic Re-negotiation" of app.js 785 would have to see to that.       *)
ChannelComesBack == <>[]Connected
=============================================================================
