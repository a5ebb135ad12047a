----------------------------- MODULE ChatHistory ----------------------------
(***************************************************************************)
(* What two pages show and keep: chat, the log of completed files with its *)
(* check boxes, and the round-trip time; and what the session storage      *)
(* brings back when a page is loaded again.                                *)
(*                                                                         *)
(* Packets travel as the bytes of PacketCodec; they may be lost and may    *)
(* overtake each other, as channelSend has two paths.  System messages and *)
(* times of day are left out.                                              *)
(***************************************************************************)
EXTENDS PacketCodec, FiniteSets, SequencesExt

CONSTANTS
    Pages,
    Texts,       \* chat messages, as bytes
    Sessions,    \* bounds: which files are completed where; how many packets are
                 \* sent, pages loaded and milliseconds pass; may a write fail
    ChatCap,     \* longest chat history, 50
    LogCap,      \* longest log of files, 50
    Starts,      \* values of Date.now() to begin with
    None         \* no round-trip time yet

ASSUME ChatAssumption ==
    /\ \E p, q \in Pages : p # q /\ Pages = {p, q}
    /\ Texts \subseteq Seq(0..Byte - 1)
    /\ ChatCap \in Nat \ {0} /\ LogCap \in Nat \ {0}
    /\ Starts \subseteq Nat
    /\ \A s \in Sessions :
        /\ DOMAIN s.files = Pages
        /\ {s.packets, s.loads, s.ticks} \subseteq Nat
        /\ s.full \in {"never", "may"}

VARIABLES
    inRoom,     \* inRoom[p]: the main view shows
    shown,      \* shown[p]: bubbles of chatMessages
    chats,      \* chats[p]: STORAGE_KEY_CHAT
    log,        \* log[p]: STORAGE_KEY_FILES, newest first
    rows,       \* rows[p]: items of completedFilesLog
    ticked,     \* ticked[p]: rows whose box is checked
    bar,        \* bar[p]: chkSelectAllLogs.checked, btnDeleteSelectedLogs enabled
    left,       \* left[p]: files yet to be completed
    badge,      \* badge[p]: pingBadge, with the times of the ping and the pong
    wire,       \* packets on their way
    now,        \* Date.now()
    packets, loads, ticks,  \* how many there may yet be
    full,       \* whether a write to the storage "may" or "never" fail, or it "was" full
    spoken      \* spoken[p]: texts that p sent

dom == <<shown, rows, ticked, bar, badge>>
storage == <<chats, log>>
bounds == <<packets, loads, ticks, full>>
vars == <<inRoom, dom, storage, left, wire, now, bounds, spoken>>

Bubble(text, direction, shared) ==
    [text |-> text, direction |-> direction, shared |-> shared]
Bar(all, deletable) == [all |-> all, deletable |-> deletable]
NoBadge == [rtt |-> None, sentAt |-> None, readAt |-> None]
Packet(to, nr, at, bytes) == [to |-> to, nr |-> nr, at |-> at, bytes |-> bytes]

Init ==
    /\ inRoom = [p \in Pages |-> FALSE]
    /\ shown = [p \in Pages |-> <<>>]
    /\ chats = [p \in Pages |-> <<>>]
    /\ log = [p \in Pages |-> <<>>]
    /\ rows = [p \in Pages |-> <<>>]
    /\ ticked = [p \in Pages |-> {}]
    /\ bar = [p \in Pages |-> Bar(FALSE, FALSE)]
    /\ \E s \in Sessions :
        /\ left = s.files /\ packets = s.packets
        /\ loads = s.loads /\ ticks = s.ticks /\ full = s.full
    /\ badge = [p \in Pages |-> NoBadge]
    /\ wire = {}
    /\ now \in Starts
    /\ spoken = [p \in Pages |-> {}]

-----------------------------------------------------------------------------
(* The histories in the session storage.                                   *)

(* Faulty variant: the newest entry goes when there are too many.          *)
PushedKeepOld(s, e) == IF Len(s) = ChatCap THEN s ELSE Append(s, e)
Pushed(s, e) == IF Len(s) = ChatCap THEN Append(Tail(s), e) ELSE Append(s, e)
Unshifted(s, e) == IF Len(s) = LogCap THEN <<e>> \o Front(s) ELSE <<e>> \o s

(* A write may find the storage full, which is ignored.                    *)
Save(store, p, new) ==
    \/ store' = [store EXCEPT ![p] = new] /\ UNCHANGED full
    \/ full = "may" /\ full' = "was" /\ UNCHANGED store

(* appendChatMessage and saveChatToSession.                                *)
ShowChat(p, b) ==
    /\ shown' = [shown EXCEPT ![p] = Append(@, b)]
    /\ Save(chats, p, Pushed(chats[p], b))

(* Faulty variant: rows that are there are kept, new ones come behind.     *)
RenderBehind(p) ==
    /\ rows' = [rows EXCEPT ![p] =
                   @ \o SelectSeq(log'[p], LAMBDA f : ~Contains(rows[p], f))]
    /\ ticked' = [ticked EXCEPT ![p] = {}]
    /\ bar' = [bar EXCEPT ![p] = Bar(FALSE, FALSE)]
(* renderCompletedFilesLog makes the rows anew, unchecked.                 *)
RenderCompletedFilesLog(p) ==
    /\ rows' = [rows EXCEPT ![p] = log'[p]]
    /\ ticked' = [ticked EXCEPT ![p] = {}]
    /\ bar' = [bar EXCEPT ![p] = Bar(FALSE, FALSE)]

-----------------------------------------------------------------------------
(* Chat and ping.                                                          *)

Other(p) == CHOOSE q \in Pages : q # p

Send(p, at, bytes) ==
    /\ packets > 0
    /\ packets' = packets - 1
    /\ wire' = wire \cup {Packet(Other(p), packets, at, bytes)}

(* chatForm and btnSendClipboard, which marks the message, but only for    *)
(* its own page.                                                           *)
SendChat(p, text, shared) ==
    /\ inRoom[p]
    /\ Send(p, now, EncodeChat(text))
    /\ ShowChat(p, Bubble(text, "outgoing", shared))
    /\ spoken' = [spoken EXCEPT ![p] = @ \cup {text}]
    /\ UNCHANGED <<inRoom, log, rows, ticked, bar, badge, left, now, loads, ticks>>

(* The interval of startPing.                                              *)
Ping(p) ==
    /\ inRoom[p]
    /\ Send(p, now, EncodePing(ToInt32(now)))
    /\ UNCHANGED <<inRoom, dom, storage, left, now, loads, full, ticks, spoken>>

(* Faulty variant: no lower bound, as if the difference were never negative.*)
RttWild(sentTime) == ToInt32(now) - sentTime
Rtt(sentTime) ==
    IF ToInt32(now) - sentTime > 1 THEN ToInt32(now) - sentTime ELSE 1

(* handleIncomingPacket, but for the packets of file transfers.            *)
HandleIncomingPacket(p, m) ==
    LET packet == Decode(m.bytes)
    IN  /\ inRoom[p] /\ m.to = p
        /\ \/ /\ packet.type = CHAT
              /\ ShowChat(p, Bubble(packet.payload, "incoming", FALSE))
              /\ wire' = wire \ {m}
              /\ UNCHANGED badge
           \/ /\ packet.type = PING
              /\ wire' = (wire \ {m}) \cup
                         {[m EXCEPT !.to = Other(p),
                                    !.bytes = EncodePong(packet.seqOrLen)]}
              /\ UNCHANGED <<shown, chats, badge, full>>
           \/ /\ packet.type = PONG
              /\ badge' = [badge EXCEPT ![p] =
                              [rtt |-> Rtt(packet.seqOrLen), sentAt |-> m.at,
                               readAt |-> now]]
              /\ wire' = wire \ {m}
              /\ UNCHANGED <<shown, chats, full>>
        /\ UNCHANGED <<inRoom, log, rows, ticked, bar, left, now, packets, loads,
                       ticks, spoken>>

Lose(m) ==
    /\ wire' = wire \ {m}
    /\ UNCHANGED <<inRoom, dom, storage, left, now, bounds, spoken>>

Tick ==
    /\ ticks > 0
    /\ ticks' = ticks - 1
    /\ now' = now + 1
    /\ UNCHANGED <<inRoom, dom, storage, left, wire, packets, loads, full, spoken>>

-----------------------------------------------------------------------------
(* The log of completed files.                                             *)

shownOnly == <<inRoom, shown, chats, badge, wire, now, packets, loads, ticks, spoken>>

(* addFileToCompletedLog, at the end of a transfer.                        *)
AddFileToCompletedLog(p, f) ==
    /\ inRoom[p] /\ f \in left[p]
    /\ left' = [left EXCEPT ![p] = @ \ {f}]
    /\ Save(log, p, Unshifted(log[p], f))
    /\ RenderCompletedFilesLog(p)
    /\ UNCHANGED shownOnly

Rows(p) == DOMAIN rows[p]

(* Faulty variant: "select all" stays as it was clicked last.              *)
SelectAlone(p, boxes) ==
    /\ ticked' = [ticked EXCEPT ![p] = boxes]
    /\ bar' = [bar EXCEPT ![p].deletable = boxes # {}]
    /\ UNCHANGED <<rows, log, left, full, shownOnly>>
(* updateSelectedLogsCount.                                                *)
Select(p, boxes) ==
    /\ ticked' = [ticked EXCEPT ![p] = boxes]
    /\ bar' = [bar EXCEPT ![p] = Bar(boxes = Rows(p), boxes # {})]
    /\ UNCHANGED <<rows, log, left, full, shownOnly>>

TickRow(p, i) ==
    /\ inRoom[p] /\ i \in Rows(p)
    /\ Select(p, IF i \in ticked[p] THEN ticked[p] \ {i} ELSE ticked[p] \cup {i})

TickAll(p) ==
    /\ inRoom[p] /\ Rows(p) # {}
    /\ Select(p, IF bar[p].all THEN {} ELSE Rows(p))

Rewrite(p, entries) ==
    /\ log' = [log EXCEPT ![p] = entries]
    /\ RenderCompletedFilesLog(p)
    /\ UNCHANGED <<left, full, shownOnly>>

(* deleteSingleLog, by the number its row was made with.                   *)
DeleteSingleLog(p, i) ==
    /\ inRoom[p] /\ i \in Rows(p)
    /\ i <= Len(log[p])
    /\ Rewrite(p, RemoveAt(log[p], i))

Without(s, S) ==
    LET kept == DOMAIN s \ S
    IN  [n \in 1..Cardinality(kept) |->
            s[CHOOSE i \in kept : Cardinality(kept \cap 1..i) = n]]

DeleteSelected(p) ==
    /\ inRoom[p] /\ bar[p].deletable
    /\ ticked[p] # {}
    /\ Rewrite(p, Without(log[p], ticked[p]))

ClearAll(p) ==
    /\ inRoom[p] /\ log[p] # <<>>
    /\ Rewrite(p, <<>>)

-----------------------------------------------------------------------------
(* Coming, going and loading again.                                        *)

(* Faulty variant: the messages come back newest first.                    *)
RestoredBackwards(p) == Reverse(chats[p])
Restored(p) == IF chats[p] # <<>> THEN chats[p] ELSE shown[p]

(* enterRoom: restoreSessionHistory.                                       *)
EnterRoom(p) ==
    /\ ~inRoom[p]
    /\ inRoom' = [inRoom EXCEPT ![p] = TRUE]
    /\ shown' = [shown EXCEPT ![p] = Restored(p)]
    /\ UNCHANGED log
    /\ RenderCompletedFilesLog(p)
    /\ UNCHANGED <<chats, badge, left, wire, now, bounds, spoken>>

(* The leave button keeps both histories, in the page and in the storage.  *)
LeaveRoom(p) ==
    /\ inRoom[p]
    /\ inRoom' = [inRoom EXCEPT ![p] = FALSE]
    /\ UNCHANGED <<dom, storage, left, wire, now, bounds, spoken>>

(* The page is loaded again; a new deployment clears the storage.          *)
Load(p, deployed) ==
    /\ loads > 0
    /\ loads' = loads - 1
    /\ inRoom' = [inRoom EXCEPT ![p] = FALSE]
    /\ shown' = [shown EXCEPT ![p] = <<>>]
    /\ rows' = [rows EXCEPT ![p] = <<>>]
    /\ ticked' = [ticked EXCEPT ![p] = {}]
    /\ bar' = [bar EXCEPT ![p] = Bar(FALSE, FALSE)]
    /\ badge' = [badge EXCEPT ![p] = NoBadge]
    /\ IF deployed
       THEN /\ chats' = [chats EXCEPT ![p] = <<>>]
            /\ log' = [log EXCEPT ![p] = <<>>]
       ELSE UNCHANGED storage
    /\ UNCHANGED <<left, wire, now, packets, full, ticks, spoken>>

Next ==
    \/ \E p \in Pages :
        \/ \E text \in Texts, shared \in BOOLEAN : SendChat(p, text, shared)
        \/ Ping(p)
        \/ \E m \in wire : HandleIncomingPacket(p, m)
        \/ \E f \in left[p] : AddFileToCompletedLog(p, f)
        \/ \E i \in Rows(p) : TickRow(p, i)
        \/ TickAll(p)
        \/ \E i \in Rows(p) : DeleteSingleLog(p, i)
        \/ DeleteSelected(p)
        \/ ClearAll(p)
        \/ EnterRoom(p)
        \/ LeaveRoom(p)
        \/ \E deployed \in BOOLEAN : Load(p, deployed)
    \/ \E m \in wire : Lose(m)
    \/ Tick

Spec == Init /\ [][Next]_vars

-----------------------------------------------------------------------------
(* Properties.                                                             *)

(* What was sent arrives as it was sent: an incoming bubble, in the page   *)
(* or in its history, holds a text that the other page sent.               *)
ReceivedAsSent ==
    \A p \in Pages : \A b \in ToSet(shown[p]) \cup ToSet(chats[p]) :
        b.direction = "incoming" => b.text \in spoken[Other(p)]

(* The history is the end of the conversation that the page shows, in its  *)
(* order, and as much of it as the cap allows, unless the storage was full.*)
HistoryIsTail ==
    \A p \in Pages :
        inRoom[p] /\ full # "was" =>
            /\ IsSuffix(chats[p], shown[p])
            /\ Len(chats[p]) = IF Len(shown[p]) > ChatCap THEN ChatCap ELSE Len(shown[p])

(* "Select all" is checked when all rows are, and the delete button can be *)
(* used when one is, although rows come and go meanwhile.                  *)
SelectionAgrees ==
    \A p \in Pages :
        /\ bar[p].all <=> Rows(p) # {} /\ ticked[p] = Rows(p)
        /\ bar[p].deletable <=> ticked[p] # {}

(* Nothing is in t but what is in s, and two of t are as they are in s.    *)
KeepsOrder(t, s) ==
    /\ ToSet(t) \subseteq ToSet(s)
    /\ \A i, j \in DOMAIN t : i < j =>
          \E k, l \in DOMAIN s : k < l /\ t[i] = s[k] /\ t[j] = s[l]

(* An entry of the log goes for one of four reasons: it is the oldest of a *)
(* full log and a file is completed; the user clicked "delete" in the row  *)
(* that shows this very entry; its row is checked and the user deletes what*)
(* is checked; or he clears the log.  What the rows show at the click says *)
(* which entry is meant, while the code goes by the numbers the rows were  *)
(* made with: a row with an old number would delete another file's entry.  *)
(* The others stay, in their order.                                        *)
OnlyChosenGo ==
    [][\A p \in Pages :
        LET gone == ToSet(log[p]) \ ToSet(log'[p])
        IN  log'[p] # log[p] /\ inRoom'[p] =>
            \/ \E f \in left[p] :
                /\ AddFileToCompletedLog(p, f)
                /\ \/ log'[p] = <<f>> \o log[p] /\ Len(log'[p]) <= LogCap
                   \/ log'[p] = <<f>> \o Front(log[p]) /\ Len(log[p]) = LogCap
            \/ /\ KeepsOrder(log'[p], log[p])
               /\ \/ \E i \in Rows(p) : DeleteSingleLog(p, i) /\ gone = {rows[p][i]}
                  \/ DeleteSelected(p) /\ gone = {rows[p][i] : i \in ticked[p]}
                  \/ ClearAll(p) /\ log'[p] = <<>>]_vars

(* The time shown is the round trip in milliseconds, at least 1, unless    *)
(* the word of the clock has its sign bit set at the ping or at the pong:  *)
(* then it is 1, however long it took, but never a time that is far off.   *)
RttIsElapsed ==
    \A p \in Pages : badge[p] # NoBadge =>
        LET at == badge[p].sentAt
            got == badge[p].readAt
        IN  badge[p].rtt =
                IF ToInt32(at) >= 0 /\ ToInt32(got) >= 0 /\ got > at THEN got - at ELSE 1
=============================================================================
