---------------------------- MODULE PeerPresence ----------------------------
(***************************************************************************)
(* How one page of app.js keeps its list of peers: it announces itself on  *)
(* an interval, answers the announcements of others, drops who was silent  *)
(* for more than 8 s, and pings.  Time passes in ticks; a timer is the     *)
(* number of ticks until it fires and fires before time goes on.           *)
(*                                                                         *)
(* The other pages run the same code.  Of each of them the model has what  *)
(* this page can notice: its announcements and replies, and its packets.   *)
(* A page that is reloaded comes back as another remote.                   *)
(***************************************************************************)
EXTENDS Integers

CONSTANTS
    Remotes,        \* client ids of the other pages
    Throttled,      \* those in a background tab: their intervals do not fire
    AnnounceEvery,  \* ticks of the presence interval, 1500 ms
    PruneEvery,     \* ticks of the pruner's interval, 1500 ms
    PruneAfter,     \* ticks of silence that a peer may keep, 8000 ms
    PingEvery,      \* ticks of the ping interval, 3000 ms
    MaxDelay,       \* bound: ticks a message of the broker may take
    MaxEvents       \* bound: messages lost, pages that come or go, packets

ASSUME PresenceAssumption ==
    /\ Throttled \subseteq Remotes
    /\ {AnnounceEvery, PruneEvery, PruneAfter, PingEvery} \subseteq Nat \ {0}
    /\ {MaxDelay, MaxEvents} \subseteq Nat

VARIABLES
    peers,       \* the keys of activePeers; no step here reads their order
    age,         \* age[r]: ticks since lastSeen of peer r
    announceIn, pruneIn,    \* joinBroadcastInterval, peerPruneInterval
    pingIn,      \* pingInterval, or Off
    remoteIn,    \* remoteIn[r]: the presence interval of page r
    here,        \* remotes that are in the room
    wire,        \* presence messages on their way, with the ticks they have left
    lost, events,           \* messages lost, other events so far
    since,       \* since[r]: ticks since r came or went
    quiet        \* ticks since the last packet of anyone

vars == <<peers, age, announceIn, pruneIn, pingIn, remoteIn, here, wire,
          lost, events, since, quiet>>
clocks == <<since, quiet>>
counters == <<lost, events>>

Off == -1

(* In how many ticks a page in the room is heard, although MaxEvents       *)
(* messages are lost: there is a round of announcement and reply each      *)
(* AnnounceEvery ticks, which takes up to MaxDelay ticks each way.         *)
Reach == (MaxEvents + 1) * AnnounceEvery + 2 * MaxDelay
(* In how many ticks the pruner finds a silent peer.                       *)
Patience == PruneAfter + PruneEvery
Cap == IF Reach > MaxDelay + Patience THEN Reach + 1 ELSE MaxDelay + Patience + 1

Older(n) == IF n < Cap THEN n + 1 ELSE n

ToMe(r) == [from |-> r, toMe |-> TRUE, ttl |-> MaxDelay]
FromMe(r) == [from |-> r, toMe |-> FALSE, ttl |-> MaxDelay]
Messages == [from : Remotes, toMe : BOOLEAN, ttl : 0..MaxDelay]

Event == lost + events < MaxEvents /\ events' = events + 1

(* The page has entered a room, where others may be already: its pruner    *)
(* runs, and its first announcement is due.                                *)
Init ==
    /\ peers = {}
    /\ age = [r \in Remotes |-> 0]
    /\ announceIn = 0
    /\ pruneIn \in 0..PruneEvery - 1
    /\ pingIn = Off
    /\ here \in SUBSET Remotes
    /\ remoteIn \in [Remotes -> {Off} \cup 0..AnnounceEvery - 1]
    /\ \A r \in Remotes : remoteIn[r] = Off <=> r \in Throttled \/ r \notin here
    /\ wire = {}
    /\ lost = 0 /\ events = 0
    /\ since = [r \in Remotes |-> Cap]
    /\ quiet = Cap

-----------------------------------------------------------------------------
(* Presence.                                                               *)

(* announcePresence(false) of this page, by startPresenceBroadcast and its *)
(* interval; the broker passes it on to all who are in the room.           *)
AnnouncePresence ==
    /\ announceIn = 0
    /\ announceIn' = AnnounceEvery
    /\ wire' = wire \cup {FromMe(r) : r \in here}
    /\ UNCHANGED <<peers, age, pruneIn, pingIn, remoteIn, here, counters, clocks>>

(* The same in another page.                                               *)
RemoteAnnounces(r) ==
    /\ r \in here
    /\ remoteIn[r] = 0
    /\ remoteIn' = [remoteIn EXCEPT ![r] = IF r \in Throttled THEN Off
                                           ELSE AnnounceEvery]
    /\ wire' = wire \cup {ToMe(r)}
    /\ UNCHANGED <<peers, age, announceIn, pruneIn, pingIn, here, counters, clocks>>

(* Faulty variant: an announcement is not answered.                        *)
ReplyNever(m) == wire \ {m}
(* announcePresence(true) in the page that hears an announcement.          *)
Reply(m) ==
    (wire \ {m}) \cup (IF m.from \in here THEN {ToMe(m.from)} ELSE {})

RemoteHears(m) ==
    /\ m \in wire /\ ~m.toMe
    /\ wire' = Reply(m)
    /\ UNCHANGED <<peers, age, announceIn, pruneIn, pingIn, remoteIn, here,
                   counters, clocks>>

(* Faulty variant: an interval with the pruner's period is started.        *)
StartPingAtLeisure == PruneAfter
(* Clears the interval if there is one and starts another.                 *)
StartPing == PingEvery

(* updatePeerPresence: a known peer keeps its place.                       *)
Entered(r) == peers \cup {r}

(* handleSignalingMessage with a presence message.  What this page replies *)
(* changes nothing that it notices, as a reply is not answered.            *)
HearPresence(m) ==
    /\ m \in wire /\ m.toMe
    /\ wire' = wire \ {m}
    /\ peers' = Entered(m.from)
    /\ age' = [age EXCEPT ![m.from] = 0]
    /\ pingIn' = StartPing
    /\ UNCHANGED <<announceIn, pruneIn, remoteIn, here, counters, since, quiet>>

Lose(m) ==
    /\ m \in wire
    /\ lost + events < MaxEvents
    /\ lost' = lost + 1
    /\ wire' = wire \ {m}
    /\ UNCHANGED <<peers, age, announceIn, pruneIn, pingIn, remoteIn, here,
                   events, clocks>>

-----------------------------------------------------------------------------
(* Packets and pings.                                                      *)

(* A packet of remote r, of any type and well-formed or not: before it is  *)
(* decoded, and as it does not name its sender, all peers count as seen.   *)
HandleIncomingPacket(r) ==
    /\ r \in here
    /\ Event
    /\ age' = [p \in Remotes |-> 0]
    /\ quiet' = 0
    /\ UNCHANGED <<peers, announceIn, pruneIn, pingIn, remoteIn, here, wire,
                   lost, since>>

(* The interval of startPing fires.  The pong, if the first peer is here   *)
(* to give it, is one of the packets above.                                *)
Ping ==
    /\ pingIn = 0
    /\ pingIn' = PingEvery
    /\ UNCHANGED <<peers, age, announceIn, pruneIn, remoteIn, here, wire,
                   counters, clocks>>

-----------------------------------------------------------------------------
(* The pruner.                                                             *)

(* Faulty variant: one run of the pruner too late.                         *)
SilentLate(r) == age[r] > PruneAfter + PruneEvery
Silent(r) == age[r] > PruneAfter

(* Faulty variant: the ping goes on without peers.                         *)
PingAfterKept(left) == pingIn
(* handleAllPeersDisconnected: stopPing with the last of the peers.        *)
PingAfter(left) == IF peers # {} /\ left = {} THEN Off ELSE pingIn

Prune ==
    LET left == {r \in peers : ~Silent(r)}
    IN  /\ pruneIn = 0
        /\ pruneIn' = PruneEvery
        /\ peers' = left
        /\ age' = [r \in Remotes |-> IF Silent(r) THEN 0 ELSE age[r]]
        /\ pingIn' = PingAfter(left)
        /\ UNCHANGED <<announceIn, remoteIn, here, wire, counters, clocks>>

-----------------------------------------------------------------------------
(* Other pages come and go, and time passes.                               *)

(* A page enters the room and startPresenceBroadcast announces it at once. *)
Come(r) ==
    /\ r \notin here
    /\ Event
    /\ here' = here \cup {r}
    /\ remoteIn' = [remoteIn EXCEPT ![r] = 0]
    /\ since' = [since EXCEPT ![r] = 0]
    /\ UNCHANGED <<peers, age, announceIn, pruneIn, pingIn, wire, lost,
                   quiet>>

(* A page is closed, reloaded or left: nothing tells the others.           *)
Go(r) ==
    /\ r \in here
    /\ Event
    /\ here' = here \ {r}
    /\ remoteIn' = [remoteIn EXCEPT ![r] = Off]
    /\ since' = [since EXCEPT ![r] = 0]
    /\ UNCHANGED <<peers, age, announceIn, pruneIn, pingIn, wire, lost,
                   quiet>>

Down(n) == IF n = Off THEN Off ELSE n - 1

(* Time passes when no timer is due and no message has to arrive.          *)
Tick ==
    /\ 0 \notin {announceIn, pruneIn, pingIn}
    /\ \A r \in here : remoteIn[r] # 0
    /\ \A m \in wire : m.ttl > 0
    /\ announceIn' = announceIn - 1
    /\ pruneIn' = pruneIn - 1
    /\ pingIn' = Down(pingIn)
    /\ remoteIn' = [r \in Remotes |-> IF r \in here THEN Down(remoteIn[r])
                                      ELSE remoteIn[r]]
    /\ wire' = {[m EXCEPT !.ttl = @ - 1] : m \in wire}
    /\ age' = [r \in Remotes |-> IF r \in peers THEN Older(age[r]) ELSE 0]
    /\ since' = [r \in Remotes |-> Older(since[r])]
    /\ quiet' = Older(quiet)
    /\ UNCHANGED <<peers, here, counters>>

Next ==
    \/ AnnouncePresence
    \/ \E r \in Remotes : RemoteAnnounces(r)
    \/ \E m \in wire : RemoteHears(m)
    \/ \E m \in wire : HearPresence(m)
    \/ \E m \in wire : Lose(m)
    \/ \E r \in Remotes : HandleIncomingPacket(r)
    \/ Ping
    \/ Prune
    \/ \E r \in Remotes : Come(r)
    \/ \E r \in Remotes : Go(r)
    \/ Tick

(* Timers fire, what the broker took arrives, and time goes on.            *)
Fairness ==
    /\ WF_vars(AnnouncePresence) /\ WF_vars(Ping) /\ WF_vars(Prune)
    /\ \A r \in Remotes : WF_vars(RemoteAnnounces(r))
    /\ WF_vars(\E m \in wire : RemoteHears(m))
    /\ WF_vars(\E m \in wire : HearPresence(m))
    /\ WF_vars(Tick)

Safety == Init /\ [][Next]_vars
Spec == Safety /\ Fairness

-----------------------------------------------------------------------------
(* Properties.                                                             *)

(* The type of the state: what is counted stays below Cap and the bound on *)
(* events, and no timer is ever later than the period it was started with. *)
TypeOK ==
    /\ peers \subseteq Remotes
    /\ age \in [Remotes -> 0..Cap] /\ since \in [Remotes -> 0..Cap]
    /\ quiet \in 0..Cap
    /\ announceIn \in 0..AnnounceEvery /\ pruneIn \in 0..PruneEvery
    /\ pingIn \in {Off} \cup 0..PingEvery
    /\ remoteIn \in [Remotes -> {Off} \cup 0..AnnounceEvery]
    /\ here \subseteq Remotes /\ wire \subseteq Messages
    /\ lost \in 0..MaxEvents /\ events \in 0..MaxEvents

(* The pruner of startPeerPruner drops no page that is in the room: its    *)
(* announcements and its replies to ours come soon enough, also those of a *)
(* background tab whose intervals do not fire, and also if some are lost.  *)
(* A page that has just come back may still be dropped for its absence.    *)
PresentIsKept ==
    [][\A r \in peers \ peers' : r \notin here \/ since[r] <= Reach]_vars

(* A page that is gone stays in activePeers, and so may stay the one that  *)
(* relayed packets go to, no longer than the pruner's patience since it    *)
(* was last heard; unless packets of another page keep it there.           *)
GoneIsDropped ==
    \A r \in peers \ here : since[r] <= MaxDelay + Patience \/ quiet <= Patience

(* The ping interval runs only while there is a peer to ping: whoever      *)
(* drops the last peer stops it.                                           *)
PingHasPeer == pingIn # Off => peers # {}

(* A page with a peer measures the round trip: sooner or later it pings, or*)
(* the peer is gone (architecture.html: PING / PONG, RTT and monitoring of *)
(* the connection in real time).                                           *)
PeersArePinged == peers # {} ~> (pingIn = 0 \/ peers = {})
=============================================================================
