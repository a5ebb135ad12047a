----------------------------- MODULE RoomSession ----------------------------
(***************************************************************************)
(* A page's way into a room and out of it: initApp, enterRoom, the leave   *)
(* button, the saved session, and connectSignaling with its failover from  *)
(* one MQTT broker to the next.                                            *)
(*                                                                         *)
(* Three things are in flight across callbacks: the fetch that initApp     *)
(* waits for, the hash that each enterRoom waits for, and the failover     *)
(* timers.  The lobby can be used while initApp waits.                     *)
(***************************************************************************)
EXTENDS Integers, FiniteSets

CONSTANTS
    Rooms, Pws,     \* room keys and passwords of valid length
    None,           \* no room, no password, null
    Master,         \* ACCESS_PASSWORD of .p2p.env, None if not configured
    Brokers,        \* number of BROKER_URLS, 2
    MaxVisits,      \* bound: rooms entered by hand, and page loads
    MaxFailures     \* bound: errors and lost connections of MQTT clients

ASSUME SessionAssumption ==
    /\ None \notin Rooms \cup Pws
    /\ Master \in Pws \cup {None}
    /\ Brokers \in Nat \ {0} /\ MaxVisits \in Nat /\ MaxFailures \in Nat

VARIABLES
    view,       \* "lobby" or "room"
    loading,    \* initApp waits for .p2p.env
    fresh,      \* checkBuildVersion found a new deployment at this page load
    master,     \* envMasterPassword
    current,    \* currentRoomId and currentPassword
    topic,      \* currentSecureTopic: room and the password that was hashed
    url,        \* room and password of the query
    saved,      \* room and password in the session storage
    calls,      \* calls[p]: enterRoom calls that wait for the hash of p
    client,     \* number of mqttClient, 0 if null
    live,       \* MQTT clients that were made and not ended
    timers,     \* timers[i]: failover timers that will connect to broker i
    announcing, pruning,    \* joinBroadcastInterval and peerPruneInterval are set
    made,       \* MQTT clients made so far
    visits, failures,
    strayed     \* a room was entered twice, or left while something was in flight

page == <<view, loading, fresh, master, current, topic, url, saved, calls>>
vars == <<page, client, live, timers, announcing, pruning, made, visits,
          failures, strayed>>

Pair(r, p) == [room |-> r, pw |-> p]
NoPair == Pair(None, None)

Links == {NoPair} \cup [room : Rooms, pw : Pws \cup {None}]
InFlight == \E p \in Pws : calls[p] > 0
TimerRuns == \E i \in 0..Brokers - 1 : timers[i] > 0

(* A page just loaded; its lobby shows until a room is entered.            *)
Init ==
    /\ view = "lobby" /\ loading = TRUE /\ fresh = FALSE
    /\ master = None /\ current = NoPair /\ topic = NoPair
    /\ calls = [p \in Pws |-> 0]
    /\ client = 0 /\ live = {}
    /\ timers = [i \in 0..Brokers - 1 |-> 0]
    /\ announcing = FALSE /\ pruning = FALSE /\ strayed = FALSE
    /\ url \in Links
    /\ saved = NoPair
    /\ made = 0 /\ visits = 0 /\ failures = 0

-----------------------------------------------------------------------------
(* MQTT clients.                                                           *)

Fails == failures < MaxFailures /\ failures' = failures + 1

(* Faulty variant: a failed broker is tried again later, but not the next. *)
SetTimerNever(i) == timers
SetTimer(i) == [timers EXCEPT ![i] = @ + 1]
NextBroker(i) == (i + 1) % Brokers

(* Faulty variant: the index is counted up before its broker is looked up. *)
ClientNext(n, i, t) ==
    [nr |-> n, broker |-> i + 1, topic |-> t, up |-> FALSE,
     asked |-> {}, subs |-> {}, refused |-> {}]
(* topic is that of the call that made it; asked are the subscriptions that*)
(* wait for an answer, subs those that were granted, on this connection.   *)
Client(n, i, t) ==
    [nr |-> n, broker |-> i, topic |-> t, up |-> FALSE,
     asked |-> {}, subs |-> {}, refused |-> {}]

(* connectSignaling(i) with t in currentSecureTopic: mqttClient becomes a  *)
(* new client, whatever it was; mqtt.connect may also throw.               *)
ConnectSignaling(i, t, running) ==
    \/ /\ made' = made + 1
       /\ client' = made'
       /\ live' = live \cup {Client(made', i, t)}
       /\ timers' = running
       /\ UNCHANGED failures
    \/ /\ Fails
       /\ timers' = [running EXCEPT ![NextBroker(i)] = @ + 1]
       /\ UNCHANGED <<made, client, live>>

(* The failover timer of an earlier connectSignaling.                      *)
TimerFires(i) ==
    /\ timers[i] > 0
    /\ ConnectSignaling(i, topic, [timers EXCEPT ![i] = @ - 1])
    /\ UNCHANGED <<page, announcing, pruning, visits, strayed>>

(* Faulty variant: what comes up subscribes nothing.                       *)
AskedNot(c) == {IF d = c THEN [d EXCEPT !.up = TRUE] ELSE d : d \in live}
(* The handler subscribes to the topic of its own call, but on mqttClient, *)
(* which may be another client or have been ended.                         *)
Asked(c) ==
    {[d EXCEPT !.up = @ \/ d = c,
               !.asked = IF d.nr = client THEN @ \cup {c.topic} ELSE @] : d \in live}

(* "connect".                                                              *)
OnConnect(c) ==
    /\ c \in live /\ ~c.up
    /\ live' = Asked(c)
    /\ UNCHANGED <<page, client, timers, announcing, pruning, made, visits,
                   failures, strayed>>

Granted(c, t) == [c EXCEPT !.asked = @ \ {t}, !.subs = @ \cup {t}]
Refused(c, t) == [c EXCEPT !.asked = @ \ {t}, !.refused = @ \cup {t}]

(* The callback of subscribe starts the broadcast of presence; of an error *)
(* it takes no notice, and nothing subscribes again on this connection.    *)
OnSubscribed(c, t) ==
    /\ c \in live /\ c.up /\ t \in c.asked
    /\ \/ /\ live' = (live \ {c}) \cup {Granted(c, t)}
          /\ announcing' = TRUE
          /\ UNCHANGED failures
       \/ /\ Fails
          /\ live' = (live \ {c}) \cup {Refused(c, t)}
          /\ UNCHANGED announcing
    /\ UNCHANGED <<page, client, timers, pruning, made, visits, strayed>>

(* The connection is lost; the client itself connects again.               *)
Down(c) == [c EXCEPT !.up = FALSE, !.asked = {}, !.subs = {}, !.refused = {}]
OnClose(c) ==
    /\ c \in live /\ c.up
    /\ Fails
    /\ live' = (live \ {c}) \cup {Down(c)}
    /\ UNCHANGED <<page, client, timers, announcing, pruning, made, visits, strayed>>

(* Faulty variant: the client that failed goes on trying.                  *)
FailedKept == live
(* mqttClient.end(true).                                                   *)
Ended == {d \in live : d.nr # client}

(* "error": ends mqttClient, whoever failed, and tries the next broker; it *)
(* throws if mqttClient is null.                                           *)
OnError(c) ==
    /\ c \in live
    /\ client # 0
    /\ Fails
    /\ live' = Ended
    /\ timers' = SetTimer(NextBroker(c.broker))
    /\ UNCHANGED <<page, client, announcing, pruning, made, visits, strayed>>

-----------------------------------------------------------------------------
(* Entering and leaving.                                                   *)

(* Faulty variant: mqttClient is forgotten, but not ended.                 *)
ForgetConnection ==
    /\ client' = 0
    /\ announcing' = FALSE /\ pruning' = FALSE
    /\ UNCHANGED live
CleanupConnection ==
    /\ client' = 0
    /\ announcing' = FALSE /\ pruning' = FALSE
    /\ live' = Ended

ShowLobbyView ==
    /\ view' = "lobby"
    /\ CleanupConnection
    /\ strayed' = (strayed \/ InFlight \/ TimerRuns)
    /\ UNCHANGED <<timers, made, failures>>

(* enterRoom up to its await; a password other than the configured one is  *)
(* turned down.                                                            *)
Accepted(p, m) == m = None \/ p = m

Call(c) ==
    /\ current' = c
    /\ calls' = [calls EXCEPT ![c.pw] = @ + 1]

(* The lobby's buttons; btnGenerateKey draws the room key.                 *)
EnterRoom(c) ==
    /\ view = "lobby"
    /\ Accepted(c.pw, master)
    /\ visits < MaxVisits
    /\ visits' = visits + 1
    /\ Call(c)
    /\ UNCHANGED <<view, loading, fresh, master, topic, url, saved, client, live,
                   timers, announcing, pruning, made, failures, strayed>>

(* Faulty variant: the room alone is saved.                                *)
SavedRoom == Pair(current.room, None)
SavedSession == current

(* enterRoom from the hash on, with the room that is current by now.       *)
Hashed(p) ==
    /\ calls[p] > 0
    /\ calls' = [calls EXCEPT ![p] = @ - 1]
    /\ topic' = Pair(current.room, p)
    /\ saved' = SavedSession
    /\ url' = Pair(current.room, None)
    /\ view' = "room"
    /\ ConnectSignaling(0, topic', timers)
    /\ pruning' = TRUE
    /\ strayed' = (strayed \/ view = "room")
    /\ UNCHANGED <<loading, fresh, master, current, announcing, visits>>

(* The leave button.                                                       *)
LeaveRoom ==
    /\ view = "room"
    /\ saved' = NoPair
    /\ url' = NoPair
    /\ ShowLobbyView
    /\ UNCHANGED <<loading, fresh, master, current, topic, calls, visits>>

(* Whom initApp lets in at once: a link with a password, or one to the     *)
(* room of the saved session.                                              *)
AutoEntry ==
    IF url.room = None THEN {}
    ELSE IF url.pw # None THEN {url}
    ELSE IF saved.room = url.room /\ saved.pw # None THEN {saved}
    ELSE {}

(* initApp from loadEnvConfig on, which may also fail.                     *)
InitApp ==
    /\ loading
    /\ loading' = FALSE
    /\ master' \in {None, Master}
    /\ url' = IF fresh THEN NoPair ELSE url
    /\ IF ~fresh /\ AutoEntry # {}
       THEN /\ \A c \in AutoEntry :
                 IF Accepted(c.pw, master') THEN Call(c) ELSE UNCHANGED <<current, calls>>
            /\ UNCHANGED <<view, client, live, timers, announcing, pruning, made,
                           failures, strayed>>
       ELSE /\ ShowLobbyView
            /\ UNCHANGED <<current, calls>>
    /\ UNCHANGED <<fresh, topic, saved, visits>>

(* The page is loaded again, perhaps after a deployment: checkBuildVersion *)
(* then clears the session storage.                                        *)
Load(deployed) ==
    /\ visits < MaxVisits
    /\ visits' = visits + 1
    /\ view' = "lobby" /\ loading' = TRUE
    /\ master' = None /\ current' = NoPair /\ topic' = NoPair
    /\ calls' = [p \in Pws |-> 0]
    /\ client' = 0 /\ live' = {}
    /\ timers' = [i \in 0..Brokers - 1 |-> 0]
    /\ announcing' = FALSE /\ pruning' = FALSE /\ strayed' = FALSE
    /\ fresh' = deployed
    /\ saved' = IF deployed THEN NoPair ELSE saved
    /\ UNCHANGED <<url, made, failures>>

Next ==
    \/ \E i \in 0..Brokers - 1 : TimerFires(i)
    \/ \E c \in live : OnConnect(c)
    \/ \E c \in live : \E t \in c.asked : OnSubscribed(c, t)
    \/ \E c \in live : OnClose(c)
    \/ \E c \in live : OnError(c)
    \/ \E c \in [room : Rooms, pw : Pws] : EnterRoom(c)
    \/ \E p \in Pws : Hashed(p)
    \/ LeaveRoom
    \/ InitApp
    \/ \E deployed \in BOOLEAN : Load(deployed)

(* The fetch and the hashes end, timers fire, clients that are not ended go*)
(* on connecting, and a broker that is connected answers.                  *)
Fairness ==
    /\ WF_vars(InitApp)
    /\ WF_vars(\E p \in Pws : Hashed(p))
    /\ WF_vars(\E i \in 0..Brokers - 1 : TimerFires(i))
    /\ WF_vars(\E c \in live : OnConnect(c))
    /\ WF_vars(\E c \in live : \E t \in c.asked : OnSubscribed(c, t))

Safety == Init /\ [][Next]_vars
Spec == Safety /\ Fairness

-----------------------------------------------------------------------------
(* Properties.                                                             *)

Pairs == [room : Rooms \cup {None}, pw : Pws \cup {None}]

(* The type of the state.                                                  *)
TypeOK ==
    /\ view \in {"lobby", "room"}
    /\ loading \in BOOLEAN /\ fresh \in BOOLEAN
    /\ master \in Pws \cup {None}
    /\ {current, topic, url, saved} \subseteq Pairs
    /\ calls \in [Pws -> Nat]
    /\ client \in 0..made /\ made \in Nat
    /\ live \subseteq [nr : 1..made, broker : 0..Brokers - 1, topic : Pairs,
                       up : BOOLEAN, asked : SUBSET Pairs, subs : SUBSET Pairs,
                       refused : SUBSET Pairs]
    /\ timers \in [0..Brokers - 1 -> Nat]
    /\ announcing \in BOOLEAN /\ pruning \in BOOLEAN /\ strayed \in BOOLEAN
    /\ visits \in 0..MaxVisits /\ failures \in 0..MaxFailures

(* While rooms are entered one after the other and left with nothing in    *)
(* flight, there is one MQTT client at most: mqttClient, in the topic of   *)
(* the room and in no other, although brokers fail and clients reconnect.  *)
OneClient ==
    ~strayed => /\ Cardinality(live) <= 1
                /\ \A c \in live : c.nr = client /\ c.topic = topic /\ c.subs \subseteq {topic}

(* Under the same condition the lobby is silent: no client, no timer that  *)
(* will make one, no announcements and no pruner of the room that was left.*)
NothingLeftBehind ==
    ~strayed /\ view = "lobby" => live = {} /\ ~TimerRuns /\ ~announcing /\ ~pruning

(* A page that shows a room has a client or will make one, whatever failed *)
(* and whatever is left of earlier rooms.                                  *)
RoomIsServed == view = "room" => live # {} \/ TimerRuns

(* The session storage and the address hold the room that is shown, so     *)
(* that loading the page again leads back to it.                           *)
RoomIsSaved ==
    view = "room" /\ ~InFlight =>
        saved = current /\ url = Pair(current.room, None) /\ AutoEntry = {current}

(* When brokers stop failing, a page in a room is subscribed in the end and*)
(* announces itself, unless the broker refused a subscription and kept the *)
(* connection: the code then waits for that connection to be lost.         *)
SubscribedInTheEnd ==
    view = "room" ~>
        \/ view = "lobby"
        \/ \E c \in live : c.up /\ topic \in c.subs /\ announcing
        \/ \E c \in live : c.up /\ topic \in c.refused
=============================================================================
