------------------------ MODULE PeerNegotiationProofs -----------------------
(***************************************************************************)
(* Proofs about PeerNegotiation, for any number of pages, client ids,      *)
(* connections and faults: its types, and that the global variables of a   *)
(* page stay those of one connection whatever handlers are suspended.      *)
(***************************************************************************)
EXTENDS PeerNegotiation, TLAPS

ChannelType == [nr : ConnNrs, state : {"connecting", "open", "closed"}]
TaskType == [step : Steps, on : ConnNrs, to : AnyId, sdp : ConnNrs]
WireType == [type : SignalTypes, from : Ids, to : Ids, sdp : ConnNrs]

-----------------------------------------------------------------------------
(* Types.                                                                  *)

(* What the code makes of numbers and ids is of the right type.            *)
LEMMA Made ==
    ASSUME NEW n \in ConnNrs, NEW to \in AnyId, NEW sdp \in ConnNrs
    PROVE  /\ Conn(n, to) \in ConnType
           /\ \A state \in {"connecting", "open", "closed"} :
                  Channel(n, state) \in ChannelType
           /\ \A step \in Steps : Task(step, n, to, sdp) \in TaskType
<1>1. 0 \in ConnNrs
  BY NegotiationAssumption DEF ConnNrs
<1>2. Conn(n, to) \in ConnType
  BY <1>1 DEF Conn, ConnType, SigStates
<1>3. \A state \in {"connecting", "open", "closed"} : Channel(n, state) \in ChannelType
  BY DEF Channel, ChannelType
<1>4. \A step \in Steps : Task(step, n, to, sdp) \in TaskType
  BY DEF Task, TaskType
<1> QED
  BY <1>2, <1>3, <1>4

LEMMA Nulls == NoConn \in ConnType /\ NoChannel \in ChannelType /\ 0 \in ConnNrs
<1>1. 0 \in ConnNrs /\ 0 \in AnyId
  BY NegotiationAssumption DEF ConnNrs, AnyId
<1> QED
  BY <1>1, Made DEF NoConn, NoChannel

(* What is published are signals.                                          *)
LEMMA PublishType ==
    ASSUME TypeOK, NEW p \in Pages, NEW msgs,
           \A m \in msgs : m \in [type : SignalTypes, from : Ids, to : AnyId,
                                  sdp : ConnNrs]
    PROVE  Publish(p, msgs) \subseteq WireType
<1> SUFFICES ASSUME NEW m \in msgs, InRoom(m.to) PROVE m \in WireType
  BY DEF Publish, TypeOK, WireType
<1>1. m.to \in Ids
  BY DEF InRoom, TypeOK
<1> QED
  BY <1>1 DEF WireType

LEMMA DescribedType ==
    ASSUME TypeOK, NEW p \in Pages, NEW t \in tasks[p], NEW type \in SignalTypes
    PROVE  Publish(p, Described(p, type, t)) \subseteq WireType
<1>1. id[p] \in Ids /\ t \in TaskType /\ pc[p] \in ConnType
  BY DEF TypeOK, TaskType
<1>2. t.to \in AnyId /\ t.on \in ConnNrs /\ pc[p].to \in AnyId
  BY <1>1 DEF TaskType, ConnType
<1> QED
  BY <1>1, <1>2, PublishType DEF Described, Signal, SignalTypes

(* The flush of the queue on connection c.                                 *)
LEMMA FlushType ==
    ASSUME TypeOK, NEW p \in Pages, NEW t \in tasks[p], NEW c \in ConnType,
           Flush(p, c, t)
    PROVE  /\ pc' \in [Pages -> ConnType]
           /\ tasks' \in [Pages -> SUBSET TaskType]
           /\ queue' \in [Pages -> SUBSET ConnNrs]
<1>1. /\ t.to \in AnyId /\ t.sdp \in ConnNrs /\ c.nr \in ConnNrs
      /\ tasks \in [Pages -> SUBSET TaskType] /\ queue \in [Pages -> SUBSET ConnNrs]
      /\ pc \in [Pages -> ConnType]
  BY DEF TypeOK, TaskType, ConnType
<1>2. /\ Task("answer", c.nr, t.to, t.sdp) \in TaskType
      /\ Task("flush", c.nr, t.to, t.sdp) \in TaskType
  BY <1>1, Made DEF Steps
<1>3. ASSUME NEW n \in queue[p],
             queue' = [queue EXCEPT ![p] = @ \ {n}],
             pc' = [pc EXCEPT ![p] = [c EXCEPT !.heard = @ \cup ({n} \cap {c.remote})]],
             tasks' = [tasks EXCEPT ![p] =
                          (@ \ {t}) \cup {Task("flush", c.nr, t.to, t.sdp)}]
      PROVE  /\ pc' \in [Pages -> ConnType]
             /\ tasks' \in [Pages -> SUBSET TaskType]
             /\ queue' \in [Pages -> SUBSET ConnNrs]
  <2>1. [c EXCEPT !.heard = @ \cup ({n} \cap {c.remote})] \in ConnType
    BY <1>1 DEF ConnType
  <2> QED
    BY <1>1, <1>2, <1>3, <2>1
<1>4. CASE queue[p] = {} /\ pc' = [pc EXCEPT ![p] = c]
           /\ tasks' = [tasks EXCEPT ![p] = (@ \ {t}) \cup
                       (IF t.to # 0 /\ c.sig = "have-remote-offer"
                        THEN {Task("answer", c.nr, t.to, t.sdp)} ELSE {})]
           /\ queue' = queue
  BY <1>1, <1>2, <1>4
<1> QED
  BY <1>3, <1>4 DEF Flush

(* cleanupPeerConnection leaves nulls.                                     *)
LEMMA CleanupType ==
    ASSUME TypeOK, NEW p \in Pages, CleanupPeerConnection(p)
    PROVE  /\ pc' \in [Pages -> ConnType]
           /\ dc' \in [Pages -> ChannelType]
           /\ direct' \in [Pages -> BOOLEAN]
           /\ queue' \in [Pages -> SUBSET ConnNrs]
           /\ tasks' \in [Pages -> SUBSET TaskType]
  BY Nulls DEF TypeOK, CleanupPeerConnection, ChannelType, TaskType

LEMMA FaultType ==
    ASSUME TypeOK, NEW kind, Fault(kind)
    PROVE  conns' \in ConnNrs /\ faults' \in 0..MaxFaults
  BY NegotiationAssumption DEF TypeOK, Fault

(* The handlers of the four signals.                                       *)
LEMMA ReceiveType ==
    ASSUME TypeOK, NEW p \in Pages, NEW m \in wire, Receive(p, m)
    PROVE  TypeOK'
<1>1. m \in WireType /\ wire \subseteq WireType
  BY DEF TypeOK, WireType
<1>2. m.from \in Ids /\ m.from \in AnyId /\ m.sdp \in ConnNrs /\ 0 \in AnyId
  BY <1>1 DEF WireType, AnyId
<1> USE DEF bounds
<1>3. CASE HearPresence(p, m)
  <2>1. CASE OffersTo(p, m.from)
    <3>1. conns' = conns + 1 /\ conns + 1 \in ConnNrs
      BY <1>3, <2>1, NegotiationAssumption DEF HearPresence, TypeOK, ConnNrs
    <3>2. /\ Conn(conns + 1, m.from) \in ConnType
          /\ Channel(conns + 1, "connecting") \in ChannelType
          /\ Task("offer", conns + 1, m.from, 0) \in TaskType
      <4>1. "connecting" \in {"connecting", "open", "closed"} /\ "offer" \in Steps
        BY DEF Steps
      <4>2. 0 \in ConnNrs
        BY Nulls
      <4>3. Conn(conns + 1, m.from) \in ConnType
        BY <1>2, <3>1, Made
      <4>4. Channel(conns + 1, "connecting") \in ChannelType
        BY <1>2, <3>1, <4>1, Made
      <4>5. Task("offer", conns + 1, m.from, 0) \in TaskType
        BY <1>2, <3>1, <4>1, <4>2 DEF Task, TaskType
      <4> QED
        BY <4>3, <4>4, <4>5
    <3>3. pc' = [pc EXCEPT ![p] = Conn(conns + 1, m.from)]
      BY <1>3, <2>1, <3>1 DEF HearPresence
    <3>4. dc' = [dc EXCEPT ![p] = Channel(conns + 1, "connecting")]
      BY <1>3, <2>1, <3>1 DEF HearPresence
    <3>5. tasks' = [tasks EXCEPT ![p] = @ \cup {Task("offer", conns + 1, m.from, 0)}]
      BY <1>3, <2>1, <3>1 DEF HearPresence
    <3>6. /\ wire' = wire \ {m} /\ peers' = [peers EXCEPT ![p] = @ \cup {m.from}]
          /\ UNCHANGED <<id, room, direct, queue, used, faults>>
      BY <1>3 DEF HearPresence
    <3> QED
      BY <1>2, <3>1, <3>2, <3>3, <3>4, <3>5, <3>6 DEF TypeOK, ChannelType, TaskType
  <2>2. CASE ~OffersTo(p, m.from)
    BY <1>2, <1>3, <2>2 DEF HearPresence, TypeOK
  <2> QED
    BY <2>1, <2>2
<1>4. CASE HearOffer(p, m)
  <2> DEFINE c == CreatePeerConnection(p, m.from)
  <2>1. c \in ConnType
    <3>1. CASE pc[p] # NoConn
      BY <3>1 DEF CreatePeerConnection, TypeOK
    <3>2. CASE pc[p] = NoConn
      <4>1. c = Conn(conns + 1, m.from)
        BY <3>2 DEF CreatePeerConnection
      <4> HIDE DEF c
      <4>2. c.nr = conns + 1
        BY <4>1 DEF Conn
      <4>3. conns + 1 \in ConnNrs
        <5>1. c.nr <= MaxConns
          BY <1>4 DEF HearOffer, c
        <5> QED
          BY <4>2, <5>1, NegotiationAssumption DEF TypeOK, ConnNrs
      <4> QED
        BY <1>2, <4>1, <4>3, Made
    <3> QED
      BY <3>1, <3>2
  <2>2. Task("remote offer", c.nr, m.from, m.sdp) \in TaskType /\ c.nr \in ConnNrs
    <3>1. c.nr \in ConnNrs
      BY <2>1 DEF ConnType
    <3> QED
      BY <1>2, <3>1, Made DEF Steps
  <2> HIDE DEF c
  <2>3. /\ conns' = IF c.nr > conns THEN c.nr ELSE conns
        /\ wire' = wire \ {m}
        /\ peers' = [peers EXCEPT ![p] = @ \cup {m.from}]
        /\ pc' = [pc EXCEPT ![p] = c]
        /\ tasks' = [tasks EXCEPT ![p] =
                        @ \cup {Task("remote offer", c.nr, m.from, m.sdp)}]
        /\ UNCHANGED <<id, room, dc, direct, queue, used, faults>>
    BY <1>4 DEF HearOffer, c
  <2> QED
    BY <1>2, <2>1, <2>2, <2>3 DEF TypeOK, TaskType
<1>5. CASE HearAnswer(p, m)
  <2>1. pc[p].nr \in ConnNrs
    BY DEF TypeOK, ConnType
  <2>2. Task("remote answer", pc[p].nr, 0, m.sdp) \in TaskType
    BY <1>2, <2>1, Made DEF Steps
  <2> QED
    BY <1>5, <2>2 DEF HearAnswer, TypeOK, TaskType
<1>6. CASE HearCandidate(p, m)
  <2>1. CASE pc[p].remote # 0
    <3>1. [pc[p] EXCEPT !.heard = @ \cup ({m.sdp} \cap {pc[p].remote})] \in ConnType
      BY <1>2 DEF TypeOK, ConnType
    <3> QED
      BY <1>6, <2>1, <3>1 DEF HearCandidate, TypeOK
  <2>2. CASE pc[p].remote = 0
    BY <1>2, <1>6, <2>2 DEF HearCandidate, TypeOK
  <2> QED
    BY <2>1, <2>2
<1> QED
  BY <1>3, <1>4, <1>5, <1>6 DEF Receive

(* What follows an await.                                                  *)
LEMMA ResumeType ==
    ASSUME TypeOK, NEW p \in Pages, NEW t \in tasks[p], Resume(p, t)
    PROVE  TypeOK'
<1>1. pc[p] \in ConnType /\ t \in TaskType /\ t.sdp \in ConnNrs
  BY DEF TypeOK, TaskType
<1>2. ASSUME NEW c \in ConnType, Flush(p, c, t),
             UNCHANGED <<id, room, peers, dc, direct, wire, bounds>>
      PROVE  TypeOK'
  BY <1>2, FlushType DEF TypeOK, TaskType, bounds
<1>3. ASSUME tasks' = [tasks EXCEPT ![p] = @ \ {t}],
             UNCHANGED <<id, room, peers, pc, dc, direct, queue, wire, bounds>>
      PROVE  TypeOK'
  BY <1>3 DEF TypeOK, bounds
<1>4. ASSUME NEW sig \in SigStates, NEW type \in SignalTypes,
             tasks' = [tasks EXCEPT ![p] = @ \ {t}],
             pc' = [pc EXCEPT ![p].sig = sig],
             wire' = Publish(p, Described(p, type, t)),
             UNCHANGED <<id, room, peers, dc, direct, queue, bounds>>
      PROVE  TypeOK'
  <2>1. [pc[p] EXCEPT !.sig = sig] \in ConnType
    BY <1>1 DEF ConnType
  <2>2. wire' \subseteq WireType
    BY <1>4, DescribedType
  <2> QED
    BY <1>4, <2>1, <2>2 DEF TypeOK, WireType, bounds
<1>5. CASE SendOffer(p, t)
  BY <1>3, <1>4, <1>5 DEF SendOffer, SigStates, SignalTypes
<1>6. CASE TakeOffer(p, t)
  <2>1. [pc[p] EXCEPT !.sig = "have-remote-offer", !.remote = t.sdp] \in ConnType
    BY <1>1 DEF ConnType, SigStates
  <2> QED
    BY <1>2, <1>3, <1>6, <2>1 DEF TakeOffer
<1>7. CASE FlushOn(p, t)
  <2>1. CASE /\ queue' = [queue EXCEPT ![p] = {}]
             /\ tasks' = [tasks EXCEPT ![p] = @ \ {t}]
             /\ UNCHANGED <<pc, id, room, peers, dc, direct, wire, bounds>>
    BY <2>1 DEF TypeOK, bounds
  <2> QED
    BY <1>1, <1>2, <1>3, <1>7, <2>1 DEF FlushOn
<1>8. CASE SendAnswer(p, t)
  BY <1>3, <1>4, <1>8 DEF SendAnswer, SigStates, SignalTypes
<1>9. CASE TakeAnswer(p, t)
  <2>1. [pc[p] EXCEPT !.sig = "stable", !.remote = t.sdp] \in ConnType
    BY <1>1 DEF ConnType, SigStates
  <2> QED
    BY <1>2, <1>3, <1>9, <2>1 DEF TakeAnswer
<1> QED
  BY <1>5, <1>6, <1>7, <1>8, <1>9 DEF Resume

LEMMA TypeKept == TypeOK /\ [Next]_vars => TypeOK'
<1> SUFFICES ASSUME TypeOK, [Next]_vars PROVE TypeOK'
  OBVIOUS
<1>1. CASE UNCHANGED vars
  BY <1>1 DEF TypeOK, vars
<1>2. ASSUME NEW p \in Pages, AnnouncePresence(p)
      PROVE  TypeOK'
  <2> DEFINE msgs == {Signal("presence", id[p], id[q], 0) : q \in room \ {p}}
  <2>1. \A m \in msgs : m \in [type : SignalTypes, from : Ids, to : AnyId, sdp : ConnNrs]
    BY Nulls DEF Signal, SignalTypes, AnyId, TypeOK
  <2>2. wire' = Publish(p, msgs)
    BY <1>2 DEF AnnouncePresence
  <2> HIDE DEF msgs
  <2>3. wire' \subseteq WireType
    BY <2>1, <2>2, PublishType
  <2> QED
    BY <1>2, <2>3 DEF AnnouncePresence, TypeOK, WireType, bounds
<1>3. ASSUME NEW p \in Pages, IceUp(p)
      PROVE  TypeOK'
  BY <1>3 DEF IceUp, TypeOK, bounds
<1>4. ASSUME NEW p \in Pages, DcOpen(p)
      PROVE  TypeOK'
  <2>1. Channel(pc[p].nr, "open") \in ChannelType
    BY DEF TypeOK, ConnType, Channel, ChannelType
  <2> QED
    BY <1>4, <2>1 DEF DcOpen, TypeOK, ChannelType, bounds
<1>5. ASSUME NEW p \in Pages, DcClosed(p)
      PROVE  TypeOK'
  <2>1. [dc[p] EXCEPT !.state = "closed"] \in ChannelType
    BY DEF TypeOK, ChannelType
  <2> QED
    BY <1>5, <2>1 DEF DcClosed, TypeOK, ChannelType, bounds
<1>6. ASSUME NEW p \in Pages, EnterRoom(p)
      PROVE  TypeOK'
  BY <1>6 DEF EnterRoom, TypeOK, bounds
<1>7. ASSUME NEW p \in Pages, LeaveRoom(p)
      PROVE  TypeOK'
  BY <1>7, CleanupType, FaultType
     DEF LeaveRoom, Unheard, TypeOK, ChannelType, TaskType
<1>8. ASSUME NEW p \in Pages, Reload(p)
      PROVE  TypeOK'
  BY <1>8, Nulls, FaultType DEF Reload, Unheard, TypeOK, ChannelType, TaskType
<1>9. ASSUME NEW p \in Pages, NEW i \in Ids, Prune(p, i)
      PROVE  TypeOK'
  <2>1. conns' \in ConnNrs /\ faults' \in 0..MaxFaults
    BY <1>9, FaultType DEF Prune, TypeOK
  <2> QED
    BY <1>9, <2>1, CleanupType DEF Prune, TypeOK, ChannelType, TaskType
<1>10. ASSUME NEW m \in wire, Lose(m)
       PROVE  TypeOK'
  BY <1>10, FaultType DEF Lose, TypeOK
<1> QED
  BY <1>1, <1>2, <1>3, <1>4, <1>5, <1>6, <1>7, <1>8, <1>9, <1>10,
     ReceiveType, ResumeType DEF Next

(* The state keeps its types: no handler that resumes finds or leaves      *)
(* anything else.                                                          *)
THEOREM TypeCorrect == Safety => []TypeOK
<1>1. Init => TypeOK
  <2> SUFFICES ASSUME Init PROVE TypeOK
    OBVIOUS
  <2>1. pc \in [Pages -> ConnType] /\ dc \in [Pages -> ChannelType]
    BY Nulls DEF Init
  <2> QED
    BY <2>1, Nulls, NegotiationAssumption DEF Init, TypeOK, ChannelType
<1> QED
  BY <1>1, TypeKept, PTL DEF Safety

-----------------------------------------------------------------------------
(* The globals of a page.                                                  *)

(* A page without connection has no channel, and no handler waits for its  *)
(* connection; what waits otherwise, the flush of the queue apart, waits   *)
(* for the connection there is.                                            *)
Owned(p) ==
    /\ pc[p].nr = 0 => pc[p] = NoConn /\ dc[p] = NoChannel /\ ~direct[p]
    /\ dc[p] # NoChannel => dc[p].nr = pc[p].nr
    /\ \A t \in tasks[p] : t.step # "flush" => t.on = pc[p].nr /\ t.on # 0

(* A page offers only to a larger client id than its own.                  *)
Offers(p) ==
    /\ \A t \in tasks[p] : t.step = "offer" => pc[p].to > id[p]
    /\ pc[p].sig = "have-local-offer" => pc[p].to > id[p]

(* Who finds candidates of the connection there is flushes them.           *)
Flushed(p) ==
    pc[p].remote # 0 /\ queue[p] # {} =>
        \E t \in tasks[p] : t.step = "flush" /\ t.on = pc[p].nr

Local(p) == Owned(p) /\ Offers(p) /\ Flushed(p)
Inv == \A p \in Pages : Local(p)

Others(p) ==
    \A q \in Pages \ {p} :
        /\ id'[q] = id[q] /\ pc'[q] = pc[q] /\ dc'[q] = dc[q]
        /\ direct'[q] = direct[q] /\ queue'[q] = queue[q] /\ tasks'[q] = tasks[q]

Kept(p) == pc[p] # NoConn /\ pc'[p] # NoConn => pc'[p].nr = pc[p].nr

(* A step of page p: nothing of the other pages changes, p is left as it   *)
(* must be, and its connection is not replaced by another.                 *)
Step(p) == Others(p) /\ Local(p)' /\ Kept(p)

LEMMA StepKeeps ==
    ASSUME Inv, NEW p \in Pages, Step(p)
    PROVE  /\ Inv'
           /\ \A q \in Pages : Kept(q)
<1>1. ASSUME NEW q \in Pages, q # p
      PROVE  Local(q)' /\ Kept(q)
  <2>1. /\ id'[q] = id[q] /\ pc'[q] = pc[q] /\ dc'[q] = dc[q]
        /\ direct'[q] = direct[q] /\ queue'[q] = queue[q] /\ tasks'[q] = tasks[q]
    BY <1>1 DEF Step, Others
  <2>2. Owned(q)' /\ Kept(q)
    BY <2>1 DEF Inv, Local, Owned, Kept
  <2>3. Offers(q)'
    BY <2>1 DEF Inv, Local, Offers
  <2>4. Flushed(q)'
    BY <2>1 DEF Inv, Local, Flushed
  <2> QED
    BY <2>2, <2>3, <2>4 DEF Local
<1> QED
  BY <1>1 DEF Step, Inv

LEMMA IdleStep ==
    ASSUME Inv, NEW p \in Pages, UNCHANGED <<id, pc, dc, direct, queue, tasks>>
    PROVE  Step(p)
  BY DEF Inv, Step, Others, Local, Owned, Offers, Flushed, Kept

LEMMA NullNumbers ==
    /\ NoConn.nr = 0 /\ NoConn.sig = "stable" /\ NoConn.remote = 0
    /\ NoChannel.nr = 0 /\ NoChannel.state = "closed"
    /\ NoChannel = [nr |-> 0, state |-> "closed"]
  BY DEF NoConn, Conn, NoChannel, Channel

(* A page has a connection if and only if its number is not 0.             *)
LEMMA HasConnection ==
    ASSUME Inv, NEW p \in Pages
    PROVE  pc[p] = NoConn <=> pc[p].nr = 0
  BY NullNumbers DEF Inv, Local, Owned

(* A handler that drops out, or one that starts.                           *)
LEMMA TaskDropped ==
    ASSUME TypeOK, Inv, NEW p \in Pages, NEW t \in tasks[p],
           t.step # "flush" \/ t.on # pc[p].nr,
           tasks' = [tasks EXCEPT ![p] = @ \ {t}],
           UNCHANGED <<id, pc, dc, direct, queue>>
    PROVE  Step(p)
<1>1. tasks'[p] = tasks[p] \ {t} /\ \A q \in Pages \ {p} : tasks'[q] = tasks[q]
  BY DEF TypeOK
<1>2. Others(p) /\ Kept(p)
  BY <1>1 DEF Others, Kept
<1>3. Owned(p)'
  BY <1>1 DEF Inv, Local, Owned
<1>4. Offers(p)'
  BY <1>1 DEF Inv, Local, Offers
<1>5. Flushed(p)'
  BY <1>1 DEF Inv, Local, Flushed
<1> QED
  BY <1>2, <1>3, <1>4, <1>5 DEF Step, Local

(* Flushing the queue on what is the page's connection, or on what the     *)
(* description just given made of it.                                      *)
LEMMA FlushStep ==
    ASSUME TypeOK, Inv, NEW p \in Pages, NEW t \in tasks[p], NEW c \in ConnType,
           c.nr = pc[p].nr, c.nr # 0, c.to = pc[p].to,
           c.sig = "have-local-offer" => pc[p].sig = "have-local-offer",
           Flush(p, c, t), UNCHANGED <<id, dc, direct>>
    PROVE  Step(p)
<1>1. \A q \in Pages \ {p} : /\ pc'[q] = pc[q] /\ tasks'[q] = tasks[q]
                            /\ queue'[q] = queue[q]
  BY DEF Flush, TypeOK
<1>2. /\ pc'[p].nr = c.nr /\ pc'[p].to = c.to /\ pc'[p].sig = c.sig
      /\ \A u \in tasks'[p] : u \notin tasks[p] =>
             u.step \in {"flush", "answer"} /\ u.on = c.nr
      /\ queue'[p] # {} => \E u \in tasks'[p] : u.step = "flush" /\ u.on = c.nr
  <2>1. CASE queue[p] = {} /\ pc' = [pc EXCEPT ![p] = c]
             /\ tasks' = [tasks EXCEPT ![p] = (@ \ {t}) \cup
                         (IF t.to # 0 /\ c.sig = "have-remote-offer"
                          THEN {Task("answer", c.nr, t.to, t.sdp)} ELSE {})]
             /\ queue' = queue
    <3> DEFINE k == Task("answer", c.nr, t.to, t.sdp)
    <3>1. k.step = "answer" /\ k.on = c.nr
      BY DEF Task
    <3>2. pc'[p] = c /\ queue'[p] = {}
      BY <2>1 DEF TypeOK
    <3> HIDE DEF k
    <3>3. tasks'[p] \subseteq tasks[p] \cup {k}
      BY <2>1 DEF TypeOK, k
    <3> QED
      BY <3>1, <3>2, <3>3
  <2>2. ASSUME NEW n \in queue[p],
               pc' = [pc EXCEPT ![p] = [c EXCEPT !.heard = @ \cup ({n} \cap {c.remote})]],
               tasks' = [tasks EXCEPT ![p] =
                            (@ \ {t}) \cup {Task("flush", c.nr, t.to, t.sdp)}]
        PROVE  /\ pc'[p].nr = c.nr /\ pc'[p].to = c.to /\ pc'[p].sig = c.sig
               /\ \A u \in tasks'[p] : u \notin tasks[p] =>
                      u.step = "flush" /\ u.on = c.nr
               /\ \E u \in tasks'[p] : u.step = "flush" /\ u.on = c.nr
    <3> DEFINE k == Task("flush", c.nr, t.to, t.sdp)
    <3>1. k.step = "flush" /\ k.on = c.nr
      BY DEF Task
    <3>2. pc'[p] = [c EXCEPT !.heard = @ \cup ({n} \cap {c.remote})]
      BY <2>2 DEF TypeOK
    <3>3. pc'[p].nr = c.nr /\ pc'[p].to = c.to /\ pc'[p].sig = c.sig
      BY <3>2 DEF ConnType
    <3> HIDE DEF k
    <3>4. tasks'[p] = (tasks[p] \ {t}) \cup {k}
      BY <2>2 DEF TypeOK, k
    <3> QED
      BY <3>1, <3>3, <3>4
  <2> QED
    BY <2>1, <2>2 DEF Flush
<1>3. Owned(p)'
  BY <1>2 DEF Inv, Local, Owned
<1>4. Offers(p)'
  BY <1>2 DEF Inv, Local, Offers
<1>5. Flushed(p)'
  BY <1>2 DEF Flushed
<1>6. Others(p) /\ Kept(p)
  BY <1>1, <1>2 DEF Others, Kept
<1> QED
  BY <1>3, <1>4, <1>5, <1>6 DEF Step, Local

(* cleanupPeerConnection.                                                  *)
LEMMA CleanupStep ==
    ASSUME TypeOK, Inv, NEW p \in Pages, CleanupPeerConnection(p), UNCHANGED id
    PROVE  Step(p)
<1>1. /\ pc'[p] = NoConn /\ dc'[p] = NoChannel /\ direct'[p] = FALSE
      /\ queue'[p] = {} /\ \A t \in tasks'[p] : t.step = "flush"
  BY DEF CleanupPeerConnection, TypeOK
<1>2. Others(p)
  BY DEF Others, CleanupPeerConnection, TypeOK
<1>3. Local(p)'
  BY <1>1, NullNumbers DEF Local, Owned, Offers, Flushed
<1> QED
  BY <1>1, <1>2, <1>3 DEF Step, Kept

(* The handlers of the four signals.                                       *)
LEMMA ReceiveStep ==
    ASSUME TypeOK, Inv, NEW p \in Pages, NEW m \in wire, Receive(p, m)
    PROVE  Step(p)
<1>1. CASE HearPresence(p, m)
  <2>1. CASE OffersTo(p, m.from)
    <3> DEFINE n == conns + 1
               k == Task("offer", n, m.from, 0)
    <3>1. /\ pc' = [pc EXCEPT ![p] = Conn(n, m.from)]
          /\ dc' = [dc EXCEPT ![p] = Channel(n, "connecting")]
          /\ tasks' = [tasks EXCEPT ![p] = @ \cup {k}]
          /\ UNCHANGED <<id, direct, queue>>
      BY <1>1, <2>1 DEF HearPresence
    <3>2. n # 0 /\ k.step = "offer" /\ k.on = n
      BY DEF TypeOK, ConnNrs, Task
    <3>3. /\ Conn(n, m.from).nr = n /\ Conn(n, m.from).to = m.from
          /\ Conn(n, m.from).sig = "stable" /\ Conn(n, m.from).remote = 0
          /\ Channel(n, "connecting").nr = n
      BY DEF Conn, Channel
    <3> HIDE DEF n, k
    <3>4. pc[p] = NoConn /\ m.from > id[p]
      BY <2>1 DEF OffersTo, TypeOK
    <3>5. \A t \in tasks[p] : t.step = "flush"
      BY <3>4, NullNumbers DEF Inv, Local, Owned
    <3>6. /\ pc'[p] = Conn(n, m.from) /\ dc'[p] = Channel(n, "connecting")
          /\ tasks'[p] = tasks[p] \cup {k} /\ id'[p] = id[p]
      BY <3>1 DEF TypeOK
    <3>7. Others(p) /\ Kept(p)
      BY <3>1, <3>4 DEF Others, Kept, TypeOK
    <3>8. Owned(p)'
      BY <3>2, <3>3, <3>5, <3>6 DEF Owned
    <3>9. Offers(p)'
      BY <3>3, <3>4, <3>6 DEF Offers
    <3>10. Flushed(p)'
      BY <3>3, <3>6 DEF Flushed
    <3> QED
      BY <3>7, <3>8, <3>9, <3>10 DEF Step, Local
  <2>2. CASE ~OffersTo(p, m.from)
    BY <1>1, <2>2, IdleStep DEF HearPresence
  <2> QED
    BY <2>1, <2>2
<1>2. CASE HearOffer(p, m)
  <2> DEFINE c == CreatePeerConnection(p, m.from)
             k == Task("remote offer", c.nr, m.from, m.sdp)
  <2>1. /\ pc' = [pc EXCEPT ![p] = c]
        /\ tasks' = [tasks EXCEPT ![p] = @ \cup {k}]
        /\ UNCHANGED <<id, dc, direct, queue>>
    BY <1>2 DEF HearOffer
  <2>2. k.step = "remote offer" /\ k.on = c.nr
    BY DEF Task
  <2> HIDE DEF k
  <2>3. /\ pc'[p] = c /\ tasks'[p] = tasks[p] \cup {k}
        /\ id'[p] = id[p] /\ dc'[p] = dc[p] /\ queue'[p] = queue[p]
        /\ direct'[p] = direct[p]
    BY <2>1 DEF TypeOK
  <2>4. CASE pc[p] # NoConn
    <3>1. c = pc[p] /\ c.nr # 0
      BY <2>4, HasConnection DEF CreatePeerConnection
    <3> HIDE DEF c
    <3>2. Owned(p)'
      BY <2>2, <2>3, <3>1 DEF Inv, Local, Owned
    <3>3. Offers(p)'
      BY <2>2, <2>3, <3>1 DEF Inv, Local, Offers
    <3>4. Flushed(p)'
      BY <2>3, <3>1 DEF Inv, Local, Flushed
    <3>5. Others(p) /\ Kept(p)
      BY <2>1, <2>3, <3>1 DEF Others, Kept, TypeOK
    <3> QED
      BY <3>2, <3>3, <3>4, <3>5 DEF Step, Local
  <2>5. CASE pc[p] = NoConn
    <3>1. /\ c.nr = conns + 1 /\ c.sig = "stable" /\ c.remote = 0
          /\ c.nr # 0
      BY <2>5 DEF CreatePeerConnection, Conn, TypeOK, ConnNrs
    <3> HIDE DEF c
    <3>2. dc[p] = NoChannel /\ \A t \in tasks[p] : t.step = "flush"
      BY <2>5, NullNumbers DEF Inv, Local, Owned
    <3>3. Owned(p)'
      BY <2>2, <2>3, <3>1, <3>2 DEF Owned
    <3>4. Offers(p)' /\ Flushed(p)'
      BY <2>2, <2>3, <3>1, <3>2 DEF Offers, Flushed
    <3>5. Others(p) /\ Kept(p)
      BY <2>1, <2>5 DEF Others, Kept, TypeOK
    <3> QED
      BY <3>3, <3>4, <3>5 DEF Step, Local
  <2> QED
    BY <2>4, <2>5
<1>3. CASE HearAnswer(p, m)
  <2>1. CASE pc[p].sig = "stable"
    BY <1>3, <2>1, IdleStep DEF HearAnswer
  <2>2. CASE pc[p].sig # "stable"
    <3> DEFINE k == Task("remote answer", pc[p].nr, 0, m.sdp)
    <3>1. k.step = "remote answer" /\ k.on = pc[p].nr
      BY DEF Task
    <3>2. pc[p].nr # 0
      BY <2>2, NullNumbers, HasConnection
    <3>3. /\ tasks' = [tasks EXCEPT ![p] = @ \cup {k}]
          /\ UNCHANGED <<id, pc, dc, direct, queue>>
      BY <1>3, <2>2 DEF HearAnswer
    <3> HIDE DEF k
    <3>4. tasks'[p] = tasks[p] \cup {k}
      BY <3>3 DEF TypeOK
    <3>5. Owned(p)'
      BY <3>1, <3>2, <3>3, <3>4 DEF Inv, Local, Owned
    <3>6. Offers(p)' /\ Flushed(p)'
      BY <3>1, <3>3, <3>4 DEF Inv, Local, Offers, Flushed
    <3>7. Others(p) /\ Kept(p)
      BY <3>3 DEF Others, Kept, TypeOK
    <3> QED
      BY <3>5, <3>6, <3>7 DEF Step, Local
  <2> QED
    BY <2>1, <2>2
<1>4. CASE HearCandidate(p, m)
  <2>1. CASE pc[p].remote # 0
    <3>1. pc[p].nr # 0
      BY <2>1, NullNumbers, HasConnection
    <3>2. /\ pc' = [pc EXCEPT ![p].heard = @ \cup ({m.sdp} \cap {pc[p].remote})]
          /\ UNCHANGED <<id, dc, direct, queue, tasks>>
      BY <1>4, <2>1 DEF HearCandidate
    <3>3. /\ pc'[p].nr = pc[p].nr /\ pc'[p].to = pc[p].to
          /\ pc'[p].sig = pc[p].sig /\ pc'[p].remote = pc[p].remote
      BY <3>2 DEF TypeOK, ConnType
    <3>4. Owned(p)'
      BY <3>1, <3>2, <3>3 DEF Inv, Local, Owned
    <3>5. Offers(p)' /\ Flushed(p)'
      BY <3>2, <3>3 DEF Inv, Local, Offers, Flushed
    <3>6. Others(p) /\ Kept(p)
      BY <3>2, <3>3 DEF Others, Kept, TypeOK
    <3> QED
      BY <3>4, <3>5, <3>6 DEF Step, Local
  <2>2. CASE pc[p].remote = 0
    <3>1. /\ queue' = [queue EXCEPT ![p] = @ \cup {m.sdp}]
          /\ UNCHANGED <<id, pc, dc, direct, tasks>>
      BY <1>4, <2>2 DEF HearCandidate
    <3>2. Local(p)'
      BY <2>2, <3>1 DEF Inv, Local, Owned, Offers, Flushed
    <3>3. Others(p) /\ Kept(p)
      BY <3>1 DEF Others, Kept, TypeOK
    <3> QED
      BY <3>2, <3>3 DEF Step
  <2> QED
    BY <2>1, <2>2
<1> QED
  BY <1>1, <1>2, <1>3, <1>4 DEF Receive

(* What follows an await.                                                  *)
LEMMA ResumeStep ==
    ASSUME TypeOK, Inv, NEW p \in Pages, NEW t \in tasks[p], Resume(p, t)
    PROVE  Step(p)
<1>1. pc[p] \in ConnType /\ t.sdp \in ConnNrs
  BY DEF TypeOK
<1>2. t.step # "flush" => t.on = pc[p].nr /\ t.on # 0
  BY DEF Inv, Local, Owned
(* The description is set and goes out: an offer only to a larger id.      *)
<1>3. ASSUME NEW sig \in SigStates, t.step # "flush",
             sig = "have-local-offer" => t.step = "offer",
             tasks' = [tasks EXCEPT ![p] = @ \ {t}],
             pc' = [pc EXCEPT ![p].sig = sig],
             UNCHANGED <<id, dc, direct, queue>>
      PROVE  Step(p)
  <2>1. /\ pc'[p].nr = pc[p].nr /\ pc'[p].to = pc[p].to
        /\ pc'[p].sig = sig /\ pc'[p].remote = pc[p].remote
        /\ tasks'[p] = tasks[p] \ {t}
    BY <1>3 DEF TypeOK, ConnType
  <2>2. Owned(p)'
    BY <1>2, <1>3, <2>1 DEF Inv, Local, Owned
  <2>3. Offers(p)'
    BY <1>3, <2>1 DEF Inv, Local, Offers
  <2>4. Flushed(p)'
    BY <1>3, <2>1 DEF Inv, Local, Flushed
  <2>5. Others(p) /\ Kept(p)
    BY <1>3, <2>1 DEF Others, Kept, TypeOK
  <2> QED
    BY <2>2, <2>3, <2>4, <2>5 DEF Step, Local
<1>4. CASE SendOffer(p, t)
  <2>1. t.step = "offer"
    BY <1>4 DEF SendOffer
  <2> QED
    BY <1>3, <1>4, <2>1, TaskDropped DEF SendOffer, SigStates
<1>5. CASE TakeOffer(p, t)
  <2> DEFINE c == [pc[p] EXCEPT !.sig = "have-remote-offer", !.remote = t.sdp]
  <2>1. /\ c \in ConnType /\ c.nr = pc[p].nr /\ c.to = pc[p].to
        /\ c.sig = "have-remote-offer"
    BY <1>1 DEF ConnType, SigStates
  <2>2. /\ t.step = "remote offer" /\ UNCHANGED <<id, dc, direct>>
        /\ \/ Flush(p, c, t)
           \/ tasks' = [tasks EXCEPT ![p] = @ \ {t}] /\ UNCHANGED <<pc, queue>>
    BY <1>5 DEF TakeOffer
  <2> HIDE DEF c
  <2> QED
    BY <1>2, <2>1, <2>2, FlushStep, TaskDropped
<1>6. CASE FlushOn(p, t)
  <2>1. CASE pc[p] # NoConn /\ Flush(p, pc[p], t)
    BY <1>1, <1>6, <2>1, HasConnection, FlushStep DEF FlushOn
  <2>2. CASE /\ pc[p] = NoConn
             /\ queue' = [queue EXCEPT ![p] = {}]
             /\ tasks' = [tasks EXCEPT ![p] = @ \ {t}]
             /\ UNCHANGED pc
    <3>1. /\ UNCHANGED <<id, dc, direct, pc>> /\ queue'[p] = {}
          /\ tasks'[p] \subseteq tasks[p]
      BY <1>6, <2>2 DEF FlushOn, TypeOK
    <3>2. Owned(p)'
      BY <3>1 DEF Inv, Local, Owned
    <3>3. Offers(p)' /\ Flushed(p)'
      BY <3>1 DEF Inv, Local, Offers, Flushed
    <3>4. Others(p) /\ Kept(p)
      BY <2>2, <3>1 DEF Others, Kept, TypeOK
    <3> QED
      BY <3>2, <3>3, <3>4 DEF Step, Local
  <2>3. CASE /\ pc[p].nr # t.on
             /\ tasks' = [tasks EXCEPT ![p] = @ \ {t}]
             /\ UNCHANGED <<pc, queue>>
    BY <1>6, <2>3, TaskDropped DEF FlushOn
  <2> QED
    BY <1>6, <2>1, <2>2, <2>3 DEF FlushOn
<1>7. CASE SendAnswer(p, t)
  <2>1. t.step = "answer"
    BY <1>7 DEF SendAnswer
  <2> QED
    BY <1>3, <1>7, <2>1, TaskDropped DEF SendAnswer, SigStates
<1>8. CASE TakeAnswer(p, t)
  <2> DEFINE c == [pc[p] EXCEPT !.sig = "stable", !.remote = t.sdp]
  <2>1. /\ c \in ConnType /\ c.nr = pc[p].nr /\ c.to = pc[p].to /\ c.sig = "stable"
    BY <1>1 DEF ConnType, SigStates
  <2>2. /\ t.step = "remote answer" /\ UNCHANGED <<id, dc, direct>>
        /\ \/ Flush(p, c, t)
           \/ tasks' = [tasks EXCEPT ![p] = @ \ {t}] /\ UNCHANGED <<pc, queue>>
    BY <1>8 DEF TakeAnswer
  <2> HIDE DEF c
  <2> QED
    BY <1>2, <2>1, <2>2, FlushStep, TaskDropped
<1> QED
  BY <1>4, <1>5, <1>6, <1>7, <1>8 DEF Resume

(* ICE and the channel report only of a connection there is.               *)
LEMMA ConnectStep ==
    ASSUME TypeOK, Inv, NEW p \in Pages, IceUp(p) \/ DcOpen(p) \/ DcClosed(p)
    PROVE  Step(p)
<1>1. CASE IceUp(p)
  <2>1. pc[p].nr # 0 /\ UNCHANGED <<id, pc, dc, queue, tasks>>
    BY <1>1, HasConnection DEF IceUp, Joined
  <2>2. Local(p)'
    BY <2>1 DEF Inv, Local, Owned, Offers, Flushed
  <2>3. Others(p) /\ Kept(p)
    BY <1>1, <2>1 DEF IceUp, Others, Kept, TypeOK
  <2> QED
    BY <2>2, <2>3 DEF Step
<1>2. CASE DcOpen(p)
  <2>1. /\ pc[p].nr # 0 /\ UNCHANGED <<id, pc, queue, tasks>>
        /\ dc'[p].nr = pc[p].nr
    BY <1>2, HasConnection DEF DcOpen, Joined, Channel, TypeOK
  <2>2. Local(p)'
    BY <2>1 DEF Inv, Local, Owned, Offers, Flushed
  <2>3. Others(p) /\ Kept(p)
    BY <1>2, <2>1 DEF DcOpen, Others, Kept, TypeOK
  <2> QED
    BY <2>2, <2>3 DEF Step
<1>3. CASE DcClosed(p)
  <2>1. /\ UNCHANGED <<id, pc, queue, tasks>> /\ direct'[p] = FALSE
        /\ dc'[p].nr = dc[p].nr /\ dc'[p] = [dc[p] EXCEPT !.state = "closed"]
    BY <1>3 DEF DcClosed, TypeOK
  <2>2. dc[p] = NoChannel => dc'[p] = NoChannel
    BY <2>1, NullNumbers
  <2>3. Local(p)'
    BY <2>1, <2>2 DEF Inv, Local, Owned, Offers, Flushed
  <2>4. Others(p) /\ Kept(p)
    BY <1>3, <2>1 DEF DcClosed, Others, Kept, TypeOK
  <2> QED
    BY <2>3, <2>4 DEF Step
<1> QED
  BY <1>1, <1>2, <1>3

(* Leaving, pruning and loading again.                                     *)
LEMMA GoStep ==
    ASSUME TypeOK, Inv, NEW p \in Pages, NEW i \in Ids,
           LeaveRoom(p) \/ Reload(p) \/ Prune(p, i)
    PROVE  Step(p)
<1>1. CASE LeaveRoom(p)
  BY <1>1, CleanupStep DEF LeaveRoom
<1>2. CASE Reload(p)
  <2>1. /\ pc'[p] = NoConn /\ dc'[p] = NoChannel /\ direct'[p] = FALSE
        /\ queue'[p] = {} /\ tasks'[p] = {}
    BY <1>2 DEF Reload, TypeOK
  <2>2. Local(p)' /\ Kept(p)
    BY <2>1, NullNumbers DEF Local, Owned, Offers, Flushed, Kept
  <2>3. Others(p)
    BY <1>2 DEF Reload, Others, TypeOK
  <2> QED
    BY <2>2, <2>3 DEF Step
<1>3. CASE Prune(p, i)
  <2>1. CASE peers[p] = {i}
    BY <1>3, <2>1, CleanupStep DEF Prune
  <2>2. CASE peers[p] # {i}
    BY <1>3, <2>2, IdleStep DEF Prune
  <2> QED
    BY <2>1, <2>2
<1> QED
  BY <1>1, <1>2, <1>3

LEMMA InvKept ==
    ASSUME TypeOK, Inv, [Next]_vars
    PROVE  Inv' /\ \A p \in Pages : Kept(p)
<1>1. ASSUME UNCHANGED <<id, pc, dc, direct, queue, tasks>>
      PROVE  Inv' /\ \A p \in Pages : Kept(p)
  BY <1>1 DEF Inv, Local, Owned, Offers, Flushed, Kept
<1>2. CASE \E p \in Pages : Step(p)
  BY <1>2, StepKeeps
<1>3. ASSUME NEW p \in Pages, AnnouncePresence(p) \/ EnterRoom(p)
      PROVE  UNCHANGED <<id, pc, dc, direct, queue, tasks>>
  BY <1>3 DEF AnnouncePresence, EnterRoom
<1>4. ASSUME NEW m \in wire, Lose(m)
      PROVE  UNCHANGED <<id, pc, dc, direct, queue, tasks>>
  BY <1>4 DEF Lose
<1>5. CASE UNCHANGED vars
  BY <1>1, <1>5 DEF vars
<1>6. CASE \E p \in Pages, m \in wire : Receive(p, m)
  BY <1>2, <1>6, ReceiveStep
<1>7. CASE \E p \in Pages : \E t \in tasks[p] : Resume(p, t)
  BY <1>2, <1>7, ResumeStep
<1>8. CASE \E p \in Pages : IceUp(p) \/ DcOpen(p) \/ DcClosed(p)
  BY <1>2, <1>8, ConnectStep
<1>9. CASE \E p \in Pages : LeaveRoom(p) \/ Reload(p)
  <2>1. PICK p \in Pages : LeaveRoom(p) \/ Reload(p)
    BY <1>9
  <2>2. id[p] \in Ids
    BY DEF TypeOK
  <2> QED
    BY <1>2, <2>1, <2>2, GoStep
<1>10. CASE \E p \in Pages, i \in Ids : Prune(p, i)
  BY <1>2, <1>10, GoStep
<1> QED
  BY <1>1, <1>3, <1>4, <1>5, <1>6, <1>7, <1>8, <1>9, <1>10 DEF Next

LEMMA Invariant == Safety => [](TypeOK /\ Inv)
<1>1. Init => Inv
  BY NullNumbers DEF Init, Inv, Local, Owned, Offers, Flushed
<1>2. TypeOK /\ Inv /\ [Next]_vars => Inv'
  BY InvKept
<1> QED
  BY <1>1, <1>2, TypeCorrect, PTL DEF Safety

(* The channel is one of the connection there is, and "direct" is shown    *)
(* only with a connection, whatever handlers of an earlier connection      *)
(* resume and in whatever order.                                           *)
THEOREM GlobalsStayTogether == Safety => []GlobalsAgree
<1>1. Inv => GlobalsAgree
  BY NullNumbers DEF Inv, Local, Owned, GlobalsAgree
<1> QED
  BY <1>1, Invariant, PTL

(* Two pages never wait for each other's answer.                           *)
THEOREM NeverGlare == Safety => []NoGlare
<1>1. TypeOK /\ Inv => NoGlare
  <2> SUFFICES ASSUME TypeOK, Inv, NEW p \in Pages, NEW q \in Pages,
                      pc[p].sig = "have-local-offer", pc[p].to = id[q],
                      pc[q].sig = "have-local-offer", pc[q].to = id[p]
               PROVE  FALSE
    BY DEF NoGlare
  <2>1. id[q] > id[p] /\ id[p] > id[q]
    BY DEF Inv, Local, Offers
  <2>2. id[p] \in Nat /\ id[q] \in Nat
    BY NegotiationAssumption DEF TypeOK
  <2> QED
    BY <2>1, <2>2
<1> QED
  BY <1>1, Invariant, PTL

(* Candidates that wait although their connection has its description have *)
(* a handler that flushes them.                                            *)
THEOREM CandidatesAreFlushed == Safety => []NoCandidateStranded
<1>1. Inv => NoCandidateStranded
  BY DEF Inv, Local, Flushed, NoCandidateStranded
<1> QED
  BY <1>1, Invariant, PTL

(* createPeerConnection and its callers never replace a connection that    *)
(* was not closed.                                                         *)
THEOREM ConnectionsDoNotLeak == Safety => NoConnectionLeaks
<1>1. TypeOK /\ Inv /\ [Next]_vars =>
          [\A p \in Pages : pc[p] # NoConn /\ pc'[p] # NoConn =>
                                pc'[p].nr = pc[p].nr]_vars
  BY InvKept DEF Kept
<1> QED
  BY <1>1, Invariant, PTL DEF Safety, NoConnectionLeaks
=============================================================================
