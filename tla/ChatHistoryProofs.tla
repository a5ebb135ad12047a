-------------------------- MODULE ChatHistoryProofs -------------------------
(***************************************************************************)
(* What ChatHistory keeps for any pages, texts, caps, clocks and losses:   *)
(* that texts arrive as they were sent, that the history in the storage is *)
(* the end of what the page shows, that the boxes of the log agree with    *)
(* their bar, that its entries go only when the user or the cap says so,   *)
(* and that the time of a ping is the one that passed.                     *)
(***************************************************************************)
EXTENDS ChatHistory, PacketCodecProofs, FiniteSetTheorems

-----------------------------------------------------------------------------
(* The boxes and their bar.                                                *)

Agree ==
    /\ DOMAIN bar = Pages /\ DOMAIN ticked = Pages /\ DOMAIN rows = Pages
    /\ SelectionAgrees

(* Rows that are made anew are unchecked, and so is the bar.               *)
LEMMA RenderingAgrees ==
    ASSUME Agree, NEW p \in Pages, RenderCompletedFilesLog(p)
    PROVE  Agree'
  BY DEF Agree, SelectionAgrees, Rows, RenderCompletedFilesLog, Bar

LEMMA SelectingAgrees ==
    ASSUME Agree, NEW p \in Pages, NEW boxes, Select(p, boxes), Rows(p) # {}
    PROVE  Agree'
<1>1. /\ rows' = rows /\ ticked' = [ticked EXCEPT ![p] = boxes]
      /\ bar' = [bar EXCEPT ![p] = Bar(boxes = Rows(p), boxes # {})]
  BY DEF Select
<1>2. /\ bar'[p].all <=> boxes = Rows(p)
      /\ bar'[p].deletable <=> boxes # {}
  BY <1>1 DEF Agree, Bar
<1>3. \A q \in Pages \ {p} : bar'[q] = bar[q] /\ ticked'[q] = ticked[q]
  BY <1>1 DEF Agree
<1>4. ticked'[p] = boxes /\ DOMAIN bar' = Pages /\ DOMAIN ticked' = Pages
  BY <1>1 DEF Agree
<1> QED
  BY <1>1, <1>2, <1>3, <1>4 DEF Agree, SelectionAgrees, Rows

LEMMA AgreeStep == Agree /\ [Next]_vars => Agree'
<1> SUFFICES ASSUME Agree, [Next]_vars PROVE Agree'
  OBVIOUS
<1> USE DEF dom, storage, bounds, shownOnly
<1>1. ASSUME UNCHANGED <<rows, ticked, bar>>
      PROVE  Agree'
  BY <1>1 DEF Agree, SelectionAgrees, Rows
<1>2. ASSUME NEW p \in Pages, NEW text \in Texts, NEW shared \in BOOLEAN,
             SendChat(p, text, shared)
      PROVE  Agree'
  BY <1>1, <1>2 DEF SendChat
<1>3. ASSUME NEW p \in Pages, Ping(p)
      PROVE  Agree'
  BY <1>1, <1>3 DEF Ping
<1>4. ASSUME NEW p \in Pages, NEW m \in wire, HandleIncomingPacket(p, m)
      PROVE  Agree'
  BY <1>1, <1>4 DEF HandleIncomingPacket
<1>5. ASSUME NEW p \in Pages, NEW f \in left[p], AddFileToCompletedLog(p, f)
      PROVE  Agree'
  BY <1>5, RenderingAgrees DEF AddFileToCompletedLog
<1>6. ASSUME NEW p \in Pages, NEW i \in Rows(p), TickRow(p, i)
      PROVE  Agree'
  BY <1>6, SelectingAgrees DEF TickRow
<1>7. ASSUME NEW p \in Pages, TickAll(p)
      PROVE  Agree'
  BY <1>7, SelectingAgrees DEF TickAll
<1>8. ASSUME NEW p \in Pages, NEW i \in Rows(p), DeleteSingleLog(p, i)
      PROVE  Agree'
  BY <1>8, RenderingAgrees DEF DeleteSingleLog, Rewrite
<1>9. ASSUME NEW p \in Pages, DeleteSelected(p)
      PROVE  Agree'
  BY <1>9, RenderingAgrees DEF DeleteSelected, Rewrite
<1>10. ASSUME NEW p \in Pages, ClearAll(p)
       PROVE  Agree'
  BY <1>10, RenderingAgrees DEF ClearAll, Rewrite
<1>11. ASSUME NEW p \in Pages, EnterRoom(p)
       PROVE  Agree'
  BY <1>11, RenderingAgrees DEF EnterRoom
<1>12. ASSUME NEW p \in Pages, LeaveRoom(p)
       PROVE  Agree'
  BY <1>1, <1>12 DEF LeaveRoom
<1>13. ASSUME NEW p \in Pages, NEW deployed \in BOOLEAN, Load(p, deployed)
       PROVE  Agree'
  <2>1. /\ rows' = [rows EXCEPT ![p] = <<>>] /\ ticked' = [ticked EXCEPT ![p] = {}]
        /\ bar' = [bar EXCEPT ![p] = Bar(FALSE, FALSE)]
    BY <1>13 DEF Load
  <2> QED
    BY <2>1 DEF Agree, SelectionAgrees, Rows, Bar
<1>14. ASSUME NEW m \in wire, Lose(m)
       PROVE  Agree'
  BY <1>1, <1>14 DEF Lose
<1>15. ASSUME Tick
       PROVE  Agree'
  BY <1>1, <1>15 DEF Tick
<1>16. ASSUME UNCHANGED vars
       PROVE  Agree'
  BY <1>1, <1>16 DEF vars
<1> QED
  BY <1>2, <1>3, <1>4, <1>5, <1>6, <1>7, <1>8, <1>9, <1>10, <1>11, <1>12, <1>13,
     <1>14, <1>15, <1>16 DEF Next

(* "Select all" is checked when all rows are, and the delete button can be *)
(* used when one is, whatever renders, ticks and deletes meanwhile.        *)
THEOREM BoxesAgree == Spec => []SelectionAgrees
<1>1. Init => Agree
  BY DEF Init, Agree, SelectionAgrees, Rows, Bar
<1>2. Agree => SelectionAgrees
  BY DEF Agree
<1> QED
  BY <1>1, <1>2, AgreeStep, PTL DEF Spec

-----------------------------------------------------------------------------
(* What the packets on their way carry.                                    *)

Bubbles == [text : Texts, direction : {"incoming", "outgoing"}, shared : BOOLEAN]
Badges == [rtt : Int, sentAt : Nat, readAt : Nat]

Typed ==
    /\ inRoom \in [Pages -> BOOLEAN]
    /\ shown \in [Pages -> Seq(Bubbles)]
    /\ chats \in [Pages -> Seq(Bubbles)]
    /\ badge \in [Pages -> Badges \cup {NoBadge}]
    /\ wire \subseteq [to : Pages, nr : Nat, at : Nat, bytes : Seq(Bytes)]
    /\ now \in Nat /\ packets \in Nat /\ ticks \in Nat
    /\ spoken \in [Pages -> SUBSET Texts]

(* A packet is a text that the other page sent, a ping with the time it    *)
(* was sent, or the pong that brings that time back.                       *)
Carries(m) ==
    \/ \E text \in spoken[Other(m.to)] : m.bytes = EncodeChat(text)
    \/ m.bytes = EncodePing(ToInt32(m.at))
    \/ m.bytes = EncodePong(m.at % WordSize)

(* The incoming bubbles of s are among texts.                              *)
Heard(s, texts) ==
    \A i \in 1..Len(s) : s[i].direction = "incoming" => s[i].text \in texts

TalkInv ==
    /\ Typed
    /\ \A m \in wire : m.at <= now /\ Carries(m)
    /\ \A p \in Pages : Heard(shown[p], spoken[Other(p)])
                       /\ Heard(chats[p], spoken[Other(p)])

LEMMA OtherPage ==
    ASSUME NEW p \in Pages
    PROVE  Other(p) \in Pages /\ Other(p) # p /\ Other(Other(p)) = p
<1>1. PICK a \in Pages, b \in Pages : a # b /\ Pages = {a, b}
  BY ChatAssumption
<1>2. ASSUME NEW r \in Pages
      PROVE  Other(r) \in Pages /\ Other(r) # r
  <2>1. \E q \in Pages : q # r
    BY <1>1
  <2> QED
    BY <2>1 DEF Other
<1> QED
  BY <1>1, <1>2

(* A word with a sign is the word it was made of, and another once cut.    *)
LEMMA SignedWord ==
    ASSUME NEW n \in Int
    PROVE  /\ ToInt32(n) \in Int
           /\ ToInt32(n) % WordSize = n % WordSize
           /\ ToInt32(n) = IF 2 * (n % WordSize) >= WordSize
                           THEN (n % WordSize) - WordSize ELSE n % WordSize
<1> DEFINE w == n % WordSize
<1>1. w \in Words /\ WordSize \in Nat
  BY Remainder, SizeOfWord
<1>2. ToInt32(n) = IF 2 * w >= WordSize THEN w - WordSize ELSE w
  BY DEF ToInt32
<1> HIDE DEF w
<1>3. w \in Int /\ ToInt32(n) \in Int
  BY <1>1, <1>2 DEF Words
<1>4. ToInt32(n) = WordSize * 0 + w \/ ToInt32(n) = WordSize * (-1) + w
  <2> HIDE DEF WordSize
  <2> QED
    BY <1>1, <1>2, <1>3
<1>5. ToInt32(n) % WordSize = w
  <2>1. \A k \in Int, v \in Words :
            ToInt32(n) = WordSize * k + v => ToInt32(n) % WordSize = v
    BY <1>3, Remainder, Zenon
  <2>2. 0 \in Int /\ -1 \in Int
    OBVIOUS
  <2> QED
    BY <1>1, <1>4, <2>1, <2>2, Zenon
<1> QED
  BY <1>2, <1>3, <1>5 DEF w

(* A word is what is left of itself.                                       *)
LEMMA WordOfWord ==
    ASSUME NEW n \in Int
    PROVE  n % WordSize \in Nat /\ (n % WordSize) % WordSize = n % WordSize
<1> DEFINE w == n % WordSize
<1>1. w \in Words /\ WordSize \in Nat
  BY Remainder, SizeOfWord
<1> HIDE DEF w
<1>2. w \in Nat
  BY <1>1 DEF Words
<1>3. w = WordSize * 0 + w
  BY <1>1, <1>2
<1>4. w \in Int /\ 0 \in Int
  BY <1>2
<1>5. w % WordSize = w
  BY <1>1, <1>3, <1>4, Remainder, Zenon
<1> QED
  BY <1>2, <1>5 DEF w

LEMMA DecodeChat ==
    ASSUME NEW text \in Texts
    PROVE  /\ EncodeChat(text) \in Seq(Bytes)
           /\ Decode(EncodeChat(text)).type = CHAT
           /\ Decode(EncodeChat(text)).payload = text
<1>1. text \in Seq(0..Byte - 1) /\ Len(text) \in Int
  BY ChatAssumption
<1>2. CHAT \in Types /\ 0 \in Int
  BY DEF CHAT, Types
<1> QED
  BY <1>1, <1>2, DecodeUndoesEncode DEF EncodeChat, Bytes

LEMMA DecodeTime ==
    ASSUME NEW n \in Nat
    PROVE  /\ EncodePing(ToInt32(n)) \in Seq(Bytes)
           /\ Decode(EncodePing(ToInt32(n))).type = PING
           /\ Decode(EncodePing(ToInt32(n))).seqOrLen = n % WordSize
           /\ EncodePong(n % WordSize) \in Seq(Bytes)
           /\ Decode(EncodePong(n % WordSize)).type = PONG
           /\ Decode(EncodePong(n % WordSize)).seqOrLen = n % WordSize
<1>1. <<>> \in Seq(0..Byte - 1) /\ 0 \in Int /\ PING \in Types /\ PONG \in Types
  BY DEF PING, PONG, Types
<1>2. ToInt32(ToInt32(n)) \in Int /\ ToInt32(ToInt32(n)) % WordSize = n % WordSize
  BY SignedWord
<1>3. /\ ToInt32(n % WordSize) \in Int
      /\ ToInt32(n % WordSize) % WordSize = n % WordSize
  BY SignedWord, WordOfWord
<1>4. /\ EncodePing(ToInt32(n)) \in Seq(Bytes)
      /\ Decode(EncodePing(ToInt32(n))).type = PING
      /\ Decode(EncodePing(ToInt32(n))).seqOrLen = n % WordSize
  <2>1. ToInt32(ToInt32(n)) % WordSize = n % WordSize
    BY <1>2
  <2> DEFINE t == ToInt32(ToInt32(n))
  <2>2. EncodePing(ToInt32(n)) = Encode(PING, 0, t, <<>>)
    BY DEF EncodePing
  <2>3. t \in Int
    BY <1>2
  <2> HIDE DEF t
  <2>4. /\ Encode(PING, 0, t, <<>>) \in Seq(0..Byte - 1)
        /\ Decode(Encode(PING, 0, t, <<>>)) =
               [type |-> PING, fileId |-> 0 % WordSize,
                seqOrLen |-> t % WordSize, payload |-> <<>>]
    BY <1>1, <2>3, DecodeUndoesEncode, Zenon
  <2>5. /\ Decode(Encode(PING, 0, t, <<>>)).type = PING
        /\ Decode(Encode(PING, 0, t, <<>>)).seqOrLen = t % WordSize
    BY <2>4
  <2> QED
    BY <2>1, <2>2, <2>4, <2>5, Zenon DEF t, Bytes
<1>5. /\ EncodePong(n % WordSize) \in Seq(Bytes)
      /\ Decode(EncodePong(n % WordSize)).type = PONG
      /\ Decode(EncodePong(n % WordSize)).seqOrLen = n % WordSize
  <2> DEFINE t == ToInt32(n % WordSize)
  <2>1. EncodePong(n % WordSize) = Encode(PONG, 0, t, <<>>)
    BY DEF EncodePong
  <2>2. t \in Int /\ t % WordSize = n % WordSize
    BY <1>3
  <2> HIDE DEF t
  <2>3. /\ Encode(PONG, 0, t, <<>>) \in Seq(0..Byte - 1)
        /\ Decode(Encode(PONG, 0, t, <<>>)) =
               [type |-> PONG, fileId |-> 0 % WordSize,
                seqOrLen |-> t % WordSize, payload |-> <<>>]
    BY <1>1, <2>2, DecodeUndoesEncode, Zenon
  <2>4. /\ Decode(Encode(PONG, 0, t, <<>>)).type = PONG
        /\ Decode(Encode(PONG, 0, t, <<>>)).seqOrLen = t % WordSize
    BY <2>3
  <2> QED
    BY <2>1, <2>2, <2>3, <2>4, Zenon DEF Bytes
<1> QED
  BY <1>4, <1>5

(* What the page it is for makes of a packet.                              *)
LEMMA PacketIsHandled ==
    ASSUME Typed, NEW m \in wire, Carries(m)
    PROVE  LET packet == Decode(m.bytes)
           IN  /\ packet.type = CHAT => packet.payload \in spoken[Other(m.to)]
               /\ packet.type = PING => packet.seqOrLen = m.at % WordSize
               /\ packet.type = PONG => packet.seqOrLen = m.at % WordSize
<1>1. m.to \in Pages /\ m.at \in Nat /\ spoken[Other(m.to)] \subseteq Texts
  BY OtherPage DEF Typed
<1>2. CHAT # PING /\ CHAT # PONG /\ PING # PONG
  BY DEF CHAT, PING, PONG
<1>3. CASE \E text \in spoken[Other(m.to)] : m.bytes = EncodeChat(text)
  BY <1>1, <1>2, <1>3, DecodeChat
<1>4. CASE m.bytes = EncodePing(ToInt32(m.at))
  BY <1>1, <1>2, <1>4, DecodeTime
<1>5. CASE m.bytes = EncodePong(m.at % WordSize)
  BY <1>1, <1>2, <1>5, DecodeTime
<1> QED
  BY <1>3, <1>4, <1>5 DEF Carries
(* A history with one more bubble, cut to the cap at its beginning.        *)
LEMMA PushedBubble ==
    ASSUME NEW s \in Seq(Bubbles), NEW b \in Bubbles
    PROVE  LET r == Pushed(s, b)
           IN  /\ r \in Seq(Bubbles)
               /\ Len(r) = IF Len(s) = ChatCap THEN Len(s) ELSE Len(s) + 1
               /\ r[Len(r)] = b
               /\ \A i \in 1..Len(r) - 1 : r[i] = s[Len(s) - Len(r) + i + 1]
<1>1. ASSUME NEW t \in Seq(Bubbles)
      PROVE  /\ Append(t, b) \in Seq(Bubbles) /\ Len(Append(t, b)) = Len(t) + 1
             /\ Append(t, b)[Len(t) + 1] = b /\ Len(t) \in Nat
             /\ \A i \in 1..Len(t) : Append(t, b)[i] = t[i]
  BY AppendProperties
<1>2. CASE Len(s) = ChatCap
  <2>1. s # <<>>
    BY <1>2, ChatAssumption
  <2>2. /\ Tail(s) \in Seq(Bubbles) /\ Len(Tail(s)) = Len(s) - 1
        /\ \A i \in 1..Len(Tail(s)) : Tail(s)[i] = s[i + 1]
    BY <2>1, HeadTailProperties
  <2>3. Pushed(s, b) = Append(Tail(s), b)
    BY <1>2 DEF Pushed
  <2> DEFINE t == Tail(s)
             r == Pushed(s, b)
  <2>4. r \in Seq(Bubbles) /\ Len(r) = Len(s) /\ r[Len(r)] = b /\ Len(s) \in Nat
    BY <1>1, <2>2, <2>3
  <2>5. ASSUME NEW i \in 1..Len(r) - 1
        PROVE  r[i] = s[Len(s) - Len(r) + i + 1]
    <3>1. i \in 1..Len(Tail(s)) /\ Len(s) - Len(r) + i + 1 = i + 1
      BY <2>2, <2>4
    <3>2. r[i] = Tail(s)[i]
      BY <1>1, <2>2, <2>3, <3>1
    <3> QED
      BY <2>2, <3>1, <3>2
  <2> QED
    BY <1>2, <2>4, <2>5
<1>3. CASE Len(s) # ChatCap
  <2>1. Pushed(s, b) = Append(s, b)
    BY <1>3 DEF Pushed
  <2> QED
    BY <1>1, <1>3, <2>1
<1> QED
  BY <1>2, <1>3

LEMMA HeardMore ==
    ASSUME NEW s, NEW S, NEW T, Heard(s, S), S \subseteq T
    PROVE  Heard(s, T)
  BY DEF Heard

LEMMA HeardAppended ==
    ASSUME NEW s \in Seq(Bubbles), NEW b \in Bubbles, NEW texts, Heard(s, texts),
           b.direction = "incoming" => b.text \in texts
    PROVE  /\ Append(s, b) \in Seq(Bubbles) /\ Heard(Append(s, b), texts)
           /\ Pushed(s, b) \in Seq(Bubbles) /\ Heard(Pushed(s, b), texts)
<1> DEFINE t == Append(s, b)
           r == Pushed(s, b)
<1>1. /\ t \in Seq(Bubbles) /\ Len(t) = Len(s) + 1 /\ t[Len(s) + 1] = b
      /\ \A i \in 1..Len(s) : t[i] = s[i]
  BY AppendProperties
<1>2. /\ r \in Seq(Bubbles) /\ r[Len(r)] = b
      /\ Len(r) = IF Len(s) = ChatCap THEN Len(s) ELSE Len(s) + 1
      /\ \A i \in 1..Len(r) - 1 : r[i] = s[Len(s) - Len(r) + i + 1]
  BY PushedBubble, Zenon
<1>3. Len(s) \in Nat
  OBVIOUS
<1> HIDE DEF t, r
<1>4. Heard(t, texts)
  BY <1>1, <1>3 DEF Heard
<1>5. ASSUME NEW i \in 1..Len(r), r[i].direction = "incoming"
      PROVE  r[i].text \in texts
  <2>1. CASE i = Len(r)
    BY <1>2, <1>5, <2>1
  <2>2. CASE i # Len(r)
    <3> DEFINE j == Len(s) - Len(r) + i + 1
    <3>1. i \in 1..Len(r) - 1 /\ j \in 1..Len(s)
      BY <1>2, <1>3, <2>2
    <3>2. r[i] = s[j]
      BY <1>2, <3>1
    <3> HIDE DEF j
    <3> QED
      BY <1>5, <3>1, <3>2 DEF Heard
  <2> QED
    BY <2>1, <2>2
<1>6. Heard(r, texts)
  BY <1>5 DEF Heard
<1> QED
  BY <1>1, <1>2, <1>4, <1>6 DEF t, r

(* A bubble is shown and, if the storage has room, kept.                   *)
LEMMA ShownIsHeard ==
    ASSUME TalkInv, NEW p \in Pages, NEW b \in Bubbles, ShowChat(p, b),
           b.direction = "incoming" => b.text \in spoken[Other(p)]
    PROVE  /\ shown' \in [Pages -> Seq(Bubbles)]
           /\ chats' \in [Pages -> Seq(Bubbles)]
           /\ \A q \in Pages : /\ Heard(shown'[q], spoken[Other(q)])
                              /\ Heard(chats'[q], spoken[Other(q)])
<1>1. /\ shown[p] \in Seq(Bubbles) /\ Heard(shown[p], spoken[Other(p)])
      /\ chats[p] \in Seq(Bubbles) /\ Heard(chats[p], spoken[Other(p)])
  BY DEF TalkInv, Typed
<1>2. /\ Append(shown[p], b) \in Seq(Bubbles)
      /\ Heard(Append(shown[p], b), spoken[Other(p)])
      /\ Pushed(chats[p], b) \in Seq(Bubbles)
      /\ Heard(Pushed(chats[p], b), spoken[Other(p)])
  BY <1>1, HeardAppended
<1>3. /\ shown' = [shown EXCEPT ![p] = Append(shown[p], b)]
      /\ \/ chats' = [chats EXCEPT ![p] = Pushed(chats[p], b)]
         \/ chats' = chats
  BY DEF ShowChat, Save
<1>4. shown \in [Pages -> Seq(Bubbles)] /\ chats \in [Pages -> Seq(Bubbles)]
  BY DEF TalkInv, Typed
<1>5. ASSUME NEW q \in Pages
      PROVE  /\ shown'[q] = IF q = p THEN Append(shown[p], b) ELSE shown[q]
             /\ (chats'[q] = Pushed(chats[p], b) /\ q = p) \/ chats'[q] = chats[q]
  BY <1>3, <1>4
<1>6. ASSUME NEW q \in Pages
      PROVE  /\ Heard(shown'[q], spoken[Other(q)])
             /\ Heard(chats'[q], spoken[Other(q)])
  BY <1>2, <1>5 DEF TalkInv
<1>7. shown' \in [Pages -> Seq(Bubbles)] /\ chats' \in [Pages -> Seq(Bubbles)]
  BY <1>2, <1>3, <1>4
<1> QED
  BY <1>6, <1>7

LEMMA StillCarries ==
    ASSUME NEW m, Carries(m), spoken[Other(m.to)] \subseteq spoken'[Other(m.to)]
    PROVE  Carries(m)'
  BY DEF Carries

(* What is on its way and what was heard stays true while nobody speaks.   *)
LEMMA TalkUntouched ==
    ASSUME TalkInv, UNCHANGED <<shown, chats, spoken>>, Typed', now <= now',
           \A m \in wire' : m \in wire \/ (m.at <= now /\ Carries(m))
    PROVE  TalkInv'
<1>1. ASSUME NEW m \in wire'
      PROVE  m.at <= now' /\ Carries(m)'
  <2>1. m.at <= now /\ Carries(m) /\ m.at \in Nat /\ now \in Nat /\ now' \in Nat
    BY DEF TalkInv, Typed
  <2> QED
    BY <2>1, StillCarries
<1> QED
  BY <1>1 DEF TalkInv
LEMMA SentPacket ==
    ASSUME Typed, NEW p \in Pages, NEW bytes \in Seq(Bytes), Send(p, now, bytes)
    PROVE  /\ packets' \in Nat
           /\ wire' \subseteq [to : Pages, nr : Nat, at : Nat, bytes : Seq(Bytes)]
           /\ \A m \in wire' :
                 m \in wire \/ (m.to = Other(p) /\ m.at = now /\ m.bytes = bytes)
<1> DEFINE n == Packet(Other(p), packets, now, bytes)
<1>1. n \in [to : Pages, nr : Nat, at : Nat, bytes : Seq(Bytes)]
  BY OtherPage DEF Packet, Typed
<1>2. n.to = Other(p) /\ n.at = now /\ n.bytes = bytes
  BY DEF Packet
<1>3. packets > 0 /\ packets' = packets - 1 /\ wire' = wire \cup {n}
  BY DEF Send
<1> HIDE DEF n
<1> QED
  BY <1>1, <1>2, <1>3 DEF Typed

LEMMA ChatSent ==
    ASSUME TalkInv, NEW p \in Pages, NEW text \in Texts, NEW shared \in BOOLEAN,
           SendChat(p, text, shared)
    PROVE  TalkInv'
<1> DEFINE b == Bubble(text, "outgoing", shared)
<1>1. b \in Bubbles /\ b.direction = "outgoing"
  BY DEF Bubble, Bubbles
<1>2. /\ Send(p, now, EncodeChat(text)) /\ ShowChat(p, b)
      /\ spoken' = [spoken EXCEPT ![p] = spoken[p] \cup {text}]
      /\ UNCHANGED <<inRoom, badge, now, ticks>>
  BY DEF SendChat
<1> HIDE DEF b
<1>3. /\ shown' \in [Pages -> Seq(Bubbles)] /\ chats' \in [Pages -> Seq(Bubbles)]
      /\ \A q \in Pages : /\ Heard(shown'[q], spoken[Other(q)])
                         /\ Heard(chats'[q], spoken[Other(q)])
  BY <1>1, <1>2, ShownIsHeard
<1>4. /\ packets' \in Nat
      /\ wire' \subseteq [to : Pages, nr : Nat, at : Nat, bytes : Seq(Bytes)]
      /\ \A m \in wire' : m \in wire
                         \/ (m.to = Other(p) /\ m.at = now /\ m.bytes = EncodeChat(text))
  BY <1>2, DecodeChat, SentPacket DEF TalkInv
<1>5. /\ spoken' \in [Pages -> SUBSET Texts] /\ text \in spoken'[p]
      /\ \A q \in Pages : spoken[q] \subseteq spoken'[q]
  BY <1>2 DEF TalkInv, Typed
<1>6. Typed'
  BY <1>2, <1>3, <1>4, <1>5 DEF TalkInv, Typed
<1>7. ASSUME NEW m \in wire'
      PROVE  m.at <= now' /\ Carries(m)'
  <2>1. CASE m \in wire
    <3>1. m.to \in Pages
      BY <2>1 DEF TalkInv, Typed
    <3> QED
      BY <1>2, <1>5, <2>1, <3>1, OtherPage, StillCarries DEF TalkInv
  <2>2. CASE m.to = Other(p) /\ m.at = now /\ m.bytes = EncodeChat(text)
    BY <1>2, <1>5, <2>2, OtherPage DEF Carries, TalkInv, Typed
  <2> QED
    BY <1>4, <2>1, <2>2
<1>8. \A q \in Pages : /\ Heard(shown'[q], spoken'[Other(q)])
                     /\ Heard(chats'[q], spoken'[Other(q)])
  BY <1>3, <1>5, OtherPage, HeardMore
<1> QED
  BY <1>6, <1>7, <1>8 DEF TalkInv

LEMMA PingSent ==
    ASSUME TalkInv, NEW p \in Pages, Ping(p)
    PROVE  TalkInv'
<1>1. /\ Send(p, now, EncodePing(ToInt32(now)))
      /\ UNCHANGED <<inRoom, shown, badge, chats, now, ticks, spoken>>
  BY DEF Ping, dom, storage
<1>2. now \in Nat
  BY DEF TalkInv, Typed
<1>3. /\ packets' \in Nat
      /\ wire' \subseteq [to : Pages, nr : Nat, at : Nat, bytes : Seq(Bytes)]
      /\ \A m \in wire' :
            m \in wire \/ (m.at = now /\ m.bytes = EncodePing(ToInt32(now)))
  BY <1>1, <1>2, DecodeTime, SentPacket DEF TalkInv
<1>4. Typed'
  BY <1>1, <1>3 DEF TalkInv, Typed
<1>5. \A m \in wire' : m \in wire \/ (m.at <= now /\ Carries(m))
  BY <1>2, <1>3 DEF Carries
<1> QED
  BY <1>1, <1>2, <1>4, <1>5, TalkUntouched

LEMMA RttIsNumber ==
    ASSUME NEW n \in Nat, now \in Nat
    PROVE  Rtt(n) \in Int
  BY SignedWord DEF Rtt

LEMMA PacketRead ==
    ASSUME TalkInv, NEW p \in Pages, NEW m \in wire, HandleIncomingPacket(p, m)
    PROVE  TalkInv'
<1> DEFINE packet == Decode(m.bytes)
           b == Bubble(packet.payload, "incoming", FALSE)
           pong == [m EXCEPT !.to = Other(p), !.bytes = EncodePong(packet.seqOrLen)]
<1>1. /\ m \in [to : Pages, nr : Nat, at : Nat, bytes : Seq(Bytes)]
      /\ m.to = p /\ m.at <= now /\ Carries(m) /\ m.at \in Nat /\ now \in Nat
      /\ UNCHANGED <<inRoom, now, packets, ticks, spoken>>
  BY DEF HandleIncomingPacket, TalkInv, Typed
<1>2. /\ packet.type = CHAT => packet.payload \in spoken[Other(p)]
      /\ packet.type = PING => packet.seqOrLen = m.at % WordSize
      /\ packet.type = PONG => packet.seqOrLen = m.at % WordSize
  BY <1>1, PacketIsHandled DEF TalkInv
<1>3. CASE /\ packet.type = CHAT /\ ShowChat(p, b)
           /\ wire' = wire \ {m} /\ UNCHANGED badge
  <2>1. b \in Bubbles /\ b.text \in spoken[Other(p)]
    BY <1>2, <1>3, OtherPage DEF Bubble, Bubbles, TalkInv, Typed
  <2> HIDE DEF b, packet
  <2>2. /\ shown' \in [Pages -> Seq(Bubbles)] /\ chats' \in [Pages -> Seq(Bubbles)]
        /\ \A q \in Pages : /\ Heard(shown'[q], spoken[Other(q)])
                           /\ Heard(chats'[q], spoken[Other(q)])
    BY <1>3, <2>1, ShownIsHeard
  <2>3. Typed'
    BY <1>1, <1>3, <2>2 DEF TalkInv, Typed
  <2>4. \A n \in wire' : n.at <= now' /\ Carries(n)'
    BY <1>1, <1>3, StillCarries DEF TalkInv
  <2> QED
    BY <1>1, <2>2, <2>3, <2>4 DEF TalkInv
<1>4. CASE /\ packet.type = PING /\ wire' = (wire \ {m}) \cup {pong}
           /\ UNCHANGED <<shown, chats, badge, full>>
  <2>1. pong = [m EXCEPT !.to = Other(p), !.bytes = EncodePong(m.at % WordSize)]
    BY <1>2, <1>4
  <2>2. EncodePong(m.at % WordSize) \in Seq(Bytes) /\ Other(p) \in Pages
    BY <1>1, DecodeTime, OtherPage
  <2>3. /\ pong \in [to : Pages, nr : Nat, at : Nat, bytes : Seq(Bytes)]
        /\ pong.at = m.at /\ pong.bytes = EncodePong(m.at % WordSize)
    BY <1>1, <2>1, <2>2
  <2> HIDE DEF pong, packet
  <2>4. Typed'
    BY <1>1, <1>4, <2>3 DEF TalkInv, Typed
  <2>5. \A n \in wire' : n \in wire \/ (n.at <= now /\ Carries(n))
    BY <1>1, <1>4, <2>3 DEF Carries
  <2> QED
    BY <1>1, <1>4, <2>4, <2>5, TalkUntouched
<1>5. CASE /\ packet.type = PONG
           /\ badge' = [badge EXCEPT ![p] = [rtt |-> Rtt(packet.seqOrLen),
                                             sentAt |-> m.at, readAt |-> now]]
           /\ wire' = wire \ {m} /\ UNCHANGED <<shown, chats, full>>
  <2>1. Rtt(packet.seqOrLen) \in Int
    BY <1>1, <1>2, <1>5, WordOfWord, RttIsNumber
  <2> HIDE DEF packet
  <2>2. Typed'
    BY <1>1, <1>5, <2>1 DEF TalkInv, Typed, Badges
  <2> QED
    BY <1>1, <1>5, <2>2, TalkUntouched
<1> QED
  BY <1>3, <1>4, <1>5 DEF HandleIncomingPacket
LEMMA RoomEntered ==
    ASSUME TalkInv, NEW p \in Pages, EnterRoom(p)
    PROVE  TalkInv'
<1>1. /\ inRoom' = [inRoom EXCEPT ![p] = TRUE]
      /\ shown' = [shown EXCEPT ![p] = Restored(p)]
      /\ UNCHANGED <<chats, badge, wire, now, packets, ticks, spoken>>
  BY DEF EnterRoom, bounds
<1>2. Restored(p) = chats[p] \/ Restored(p) = shown[p]
  BY DEF Restored
<1>3. Typed'
  BY <1>1, <1>2 DEF TalkInv, Typed
<1>4. \A q \in Pages : shown'[q] \in {shown[q], chats[q]}
  BY <1>1, <1>2 DEF TalkInv, Typed
<1>5. \A q \in Pages : /\ Heard(shown'[q], spoken[Other(q)])
                     /\ Heard(chats'[q], spoken[Other(q)])
  BY <1>1, <1>4 DEF TalkInv
<1>6. \A m \in wire' : m.at <= now' /\ Carries(m)'
  BY <1>1, StillCarries DEF TalkInv
<1> QED
  BY <1>1, <1>3, <1>5, <1>6 DEF TalkInv

LEMMA PageLoaded ==
    ASSUME TalkInv, NEW p \in Pages, NEW deployed \in BOOLEAN, Load(p, deployed)
    PROVE  TalkInv'
<1>1. /\ inRoom' = [inRoom EXCEPT ![p] = FALSE]
      /\ shown' = [shown EXCEPT ![p] = <<>>]
      /\ badge' = [badge EXCEPT ![p] = NoBadge]
      /\ chats' = [chats EXCEPT ![p] = <<>>] \/ chats' = chats
      /\ UNCHANGED <<wire, now, packets, ticks, spoken>>
  BY DEF Load, storage
<1>2. <<>> \in Seq(Bubbles) /\ \A texts : Heard(<<>>, texts)
  BY DEF Heard
<1>3. Typed'
  BY <1>1, <1>2 DEF TalkInv, Typed
<1>4. \A q \in Pages : shown'[q] \in {<<>>, shown[q]} /\ chats'[q] \in {<<>>, chats[q]}
  BY <1>1 DEF TalkInv, Typed
<1>5. \A q \in Pages : /\ Heard(shown'[q], spoken[Other(q)])
                     /\ Heard(chats'[q], spoken[Other(q)])
  BY <1>2, <1>4 DEF TalkInv
<1>6. \A m \in wire' : m.at <= now' /\ Carries(m)'
  BY <1>1, StillCarries DEF TalkInv
<1> QED
  BY <1>1, <1>3, <1>5, <1>6 DEF TalkInv

LEMMA TalkStep == TalkInv /\ [Next]_vars => TalkInv'
<1> SUFFICES ASSUME TalkInv, [Next]_vars PROVE TalkInv'
  OBVIOUS
<1> USE DEF dom, storage, bounds, shownOnly
<1>1. ASSUME UNCHANGED <<inRoom, shown, chats, badge, wire, now, packets, ticks, spoken>>
      PROVE  TalkInv'
  <2>1. Typed' /\ now <= now'
    BY <1>1 DEF TalkInv, Typed
  <2> QED
    BY <1>1, <2>1, TalkUntouched
<1>2. ASSUME NEW p \in Pages, NEW text \in Texts, NEW shared \in BOOLEAN,
             SendChat(p, text, shared)
      PROVE  TalkInv'
  BY <1>2, ChatSent
<1>3. ASSUME NEW p \in Pages, Ping(p)
      PROVE  TalkInv'
  BY <1>3, PingSent
<1>4. ASSUME NEW p \in Pages, NEW m \in wire, HandleIncomingPacket(p, m)
      PROVE  TalkInv'
  BY <1>4, PacketRead
<1>5. ASSUME NEW p \in Pages, NEW f \in left[p], AddFileToCompletedLog(p, f)
      PROVE  TalkInv'
  BY <1>1, <1>5 DEF AddFileToCompletedLog
<1>6. ASSUME NEW p \in Pages, NEW i \in Rows(p), TickRow(p, i)
      PROVE  TalkInv'
  BY <1>1, <1>6 DEF TickRow, Select
<1>7. ASSUME NEW p \in Pages, TickAll(p)
      PROVE  TalkInv'
  BY <1>1, <1>7 DEF TickAll, Select
<1>8. ASSUME NEW p \in Pages, NEW i \in Rows(p), DeleteSingleLog(p, i)
      PROVE  TalkInv'
  BY <1>1, <1>8 DEF DeleteSingleLog, Rewrite
<1>9. ASSUME NEW p \in Pages, DeleteSelected(p)
      PROVE  TalkInv'
  BY <1>1, <1>9 DEF DeleteSelected, Rewrite
<1>10. ASSUME NEW p \in Pages, ClearAll(p)
       PROVE  TalkInv'
  BY <1>1, <1>10 DEF ClearAll, Rewrite
<1>11. ASSUME NEW p \in Pages, EnterRoom(p)
       PROVE  TalkInv'
  BY <1>11, RoomEntered
<1>12. ASSUME NEW p \in Pages, LeaveRoom(p)
       PROVE  TalkInv'
  <2>1. Typed' /\ now <= now'
    BY <1>12 DEF TalkInv, Typed, LeaveRoom
  <2> QED
    BY <1>12, <2>1, TalkUntouched DEF LeaveRoom, TalkInv
<1>13. ASSUME NEW p \in Pages, NEW deployed \in BOOLEAN, Load(p, deployed)
       PROVE  TalkInv'
  BY <1>13, PageLoaded
<1>14. ASSUME NEW m \in wire, Lose(m)
       PROVE  TalkInv'
  <2>1. Typed' /\ now <= now'
    BY <1>14 DEF TalkInv, Typed, Lose
  <2> QED
    BY <1>14, <2>1, TalkUntouched DEF Lose, TalkInv
<1>15. ASSUME Tick
       PROVE  TalkInv'
  <2>1. Typed' /\ now <= now'
    BY <1>15 DEF TalkInv, Typed, Tick
  <2> QED
    BY <1>15, <2>1, TalkUntouched DEF Tick, TalkInv
<1>16. ASSUME UNCHANGED vars
       PROVE  TalkInv'
  BY <1>1, <1>16 DEF vars
<1> QED
  BY <1>2, <1>3, <1>4, <1>5, <1>6, <1>7, <1>8, <1>9, <1>10, <1>11, <1>12, <1>13,
     <1>14, <1>15, <1>16 DEF Next

LEMMA TalkInit == Init => TalkInv
<1> SUFFICES ASSUME Init PROVE TalkInv
  OBVIOUS
<1>1. now \in Nat /\ packets \in Nat /\ ticks \in Nat
  BY ChatAssumption DEF Init
<1>2. <<>> \in Seq(Bubbles) /\ \A texts : Heard(<<>>, texts)
  BY DEF Heard
<1>3. Typed
  BY <1>1, <1>2 DEF Init, Typed
<1> QED
  BY <1>2, <1>3 DEF Init, TalkInv

(* An incoming bubble, in the page or in its history, holds a text that    *)
(* the other page sent: encode and decode lose nothing, and packets of     *)
(* other types are never taken for a text.                                 *)
THEOREM TextsArriveAsSent == Spec => []ReceivedAsSent
<1>1. TalkInv => ReceivedAsSent
  <2> SUFFICES ASSUME TalkInv, NEW p \in Pages,
                      NEW b \in ToSet(shown[p]) \cup ToSet(chats[p]),
                      b.direction = "incoming"
               PROVE  b.text \in spoken[Other(p)]
    BY DEF ReceivedAsSent
  <2>1. shown[p] \in Seq(Bubbles) /\ chats[p] \in Seq(Bubbles)
    BY DEF TalkInv, Typed
  <2>2. /\ DOMAIN shown[p] = 1..Len(shown[p]) /\ DOMAIN chats[p] = 1..Len(chats[p])
    BY <2>1
  <2> QED
    BY <2>2 DEF TalkInv, Heard, ToSet
<1> QED
  BY <1>1, TalkInit, TalkStep, PTL DEF Spec

-----------------------------------------------------------------------------
(* The round-trip time.                                                    *)

(* No page is open for half the time that a word of milliseconds takes to  *)
(* come round, which is 24 days.                                           *)
ShortSessions == \A s \in Sessions : 2 * s.ticks < WordSize

(* A packet can only be answered while it is recent.                       *)
Recent ==
    /\ 2 * ticks < WordSize
    /\ \A m \in wire : 2 * (now - m.at + ticks) < WordSize

(* What Rtt makes of the two words, against the time that passed.          *)
LEMMA Elapsed ==
    ASSUME NEW at \in Nat, now \in Nat, at <= now, 2 * (now - at) < WordSize
    PROVE  Rtt(at % WordSize) =
               IF ToInt32(at) >= 0 /\ ToInt32(now) >= 0 /\ now > at
               THEN now - at ELSE 1
<1> DEFINE v == at % WordSize
           w == now % WordSize
<1>1. WordSize \in Nat /\ WordSize > 7
  BY SizeOfWord
<1>2. PICK j \in Int : at = WordSize * j + v
  BY Remainder
<1>3. PICK k \in Int : now = WordSize * k + w
  BY Remainder
<1>4. v \in Words /\ w \in Words
  BY Remainder
<1>5. /\ ToInt32(at) = IF 2 * v >= WordSize THEN v - WordSize ELSE v
      /\ ToInt32(now) = IF 2 * w >= WordSize THEN w - WordSize ELSE w
  BY SignedWord
<1>6. Rtt(v) = IF ToInt32(now) - v > 1 THEN ToInt32(now) - v ELSE 1
  BY DEF Rtt
<1> HIDE DEF v, w
<1>7. v \in 0..WordSize - 1 /\ w \in 0..WordSize - 1
  BY <1>4 DEF Words
<1>8. CASE 2 * v >= WordSize \/ 2 * w >= WordSize
  <2> HIDE DEF WordSize
  <2> QED
    BY <1>1, <1>5, <1>6, <1>7, <1>8 DEF v
<1>9. CASE 2 * v < WordSize /\ 2 * w < WordSize
  <2>1. WordSize * (k - j) = (now - at) - (w - v)
    BY <1>1, <1>2, <1>3, <1>7
  <2>2. k - j \in Int /\ -WordSize < (now - at) - (w - v) /\ (now - at) - (w - v) < WordSize
    BY <1>1, <1>7, <1>9
  <2>3. ASSUME NEW d \in Int, d >= 1 PROVE WordSize * d >= WordSize
    BY <1>1, <2>3
  <2>4. ASSUME NEW d \in Int, d <= -1 PROVE WordSize * d <= -WordSize
    BY <1>1, <2>4
  <2>5. k - j = 0
    BY <1>1, <1>7, <2>1, <2>2, <2>3, <2>4
  <2>6. now - at = w - v
    BY <1>1, <1>7, <2>1, <2>5
  <2> QED
    BY <1>1, <1>5, <1>6, <1>7, <1>9, <2>6 DEF v
<1> QED
  BY <1>1, <1>7, <1>8, <1>9

LEMMA RecentStep == TalkInv /\ Recent /\ [Next]_vars => Recent'
<1> SUFFICES ASSUME TalkInv, Recent, [Next]_vars PROVE Recent'
  OBVIOUS
<1> USE DEF dom, storage, bounds, shownOnly
<1>1. now \in Nat /\ ticks \in Nat /\ \A m \in wire : m.at \in Nat
  BY DEF TalkInv, Typed
<1>2. ASSUME UNCHANGED <<now, ticks>>,
             \A m \in wire' : m \in wire \/ m.at = now \/ \E n \in wire : m.at = n.at
      PROVE  Recent'
  <2> HIDE DEF WordSize
  <2> QED
    BY <1>1, <1>2, SizeOfWord DEF Recent
<1>3. ASSUME NEW p \in Pages, NEW text \in Texts, NEW shared \in BOOLEAN,
             SendChat(p, text, shared)
      PROVE  Recent'
  BY <1>2, <1>3 DEF SendChat, Send, Packet
<1>4. ASSUME NEW p \in Pages, Ping(p)
      PROVE  Recent'
  BY <1>2, <1>4 DEF Ping, Send, Packet
<1>5. ASSUME NEW p \in Pages, NEW m \in wire, HandleIncomingPacket(p, m)
      PROVE  Recent'
  <2> DEFINE pong == [m EXCEPT !.to = Other(p),
                               !.bytes = EncodePong(Decode(m.bytes).seqOrLen)]
  <2>1. m \in [to : Pages, nr : Nat, at : Nat, bytes : Seq(Bytes)]
    BY DEF TalkInv, Typed
  <2>2. pong.at = m.at
    BY <2>1
  <2>3. /\ UNCHANGED <<now, ticks>>
        /\ wire' = wire \ {m} \/ wire' = (wire \ {m}) \cup {pong}
    BY <1>5 DEF HandleIncomingPacket
  <2> QED
    BY <1>2, <2>2, <2>3
<1>6. ASSUME Tick
      PROVE  Recent'
  <2>1. /\ ticks > 0 /\ ticks' = ticks - 1 /\ now' = now + 1 /\ wire' = wire
    BY <1>6 DEF Tick
  <2> HIDE DEF WordSize
  <2> QED
    BY <1>1, <2>1, SizeOfWord DEF Recent
<1>7. ASSUME UNCHANGED <<wire, now, ticks>> PROVE Recent'
  BY <1>2, <1>7
<1>8. ASSUME NEW p \in Pages,
             \/ \E f \in left[p] : AddFileToCompletedLog(p, f)
             \/ \E i \in Rows(p) : TickRow(p, i) \/ DeleteSingleLog(p, i)
             \/ TickAll(p) \/ DeleteSelected(p) \/ ClearAll(p)
             \/ EnterRoom(p) \/ LeaveRoom(p)
             \/ \E deployed \in BOOLEAN : Load(p, deployed)
      PROVE  Recent'
  BY <1>7, <1>8 DEF AddFileToCompletedLog, TickRow, TickAll, Select, DeleteSingleLog,
     DeleteSelected, ClearAll, Rewrite, EnterRoom, LeaveRoom, Load
<1>9. ASSUME NEW m \in wire, Lose(m)
      PROVE  Recent'
  BY <1>2, <1>9 DEF Lose
<1>10. ASSUME UNCHANGED vars
       PROVE  Recent'
  BY <1>7, <1>10 DEF vars
<1> QED
  BY <1>3, <1>4, <1>5, <1>6, <1>8, <1>9, <1>10 DEF Next
LEMMA BadgeStep == TalkInv /\ Recent /\ RttIsElapsed /\ [Next]_vars => RttIsElapsed'
<1> SUFFICES ASSUME TalkInv, Recent, RttIsElapsed, [Next]_vars PROVE RttIsElapsed'
  OBVIOUS
<1> USE DEF dom, storage, bounds, shownOnly
<1>1. ASSUME UNCHANGED badge PROVE RttIsElapsed'
  BY <1>1 DEF RttIsElapsed
<1>2. badge \in [Pages -> Badges \cup {NoBadge}]
  BY DEF TalkInv, Typed
<1>3. ASSUME NEW p \in Pages, NEW m \in wire, HandleIncomingPacket(p, m)
      PROVE  RttIsElapsed'
  <2> DEFINE packet == Decode(m.bytes)
             new == [rtt |-> Rtt(packet.seqOrLen), sentAt |-> m.at, readAt |-> now]
  <2>1. CASE packet.type # PONG
    BY <1>1, <1>3, <2>1 DEF HandleIncomingPacket
  <2>2. CASE packet.type = PONG
    <3>1. m.at \in Nat /\ now \in Nat /\ m.at <= now /\ Carries(m)
      BY DEF TalkInv, Typed
    <3>2. packet.seqOrLen = m.at % WordSize
      BY <2>2, <3>1, PacketIsHandled DEF TalkInv
    <3>3. 2 * (now - m.at) < WordSize
      <4>1. 2 * (now - m.at + ticks) < WordSize /\ ticks \in Nat
        BY DEF TalkInv, Typed, Recent
      <4> HIDE DEF WordSize
      <4> QED
        BY <3>1, <4>1, SizeOfWord
    <3>4. Rtt(packet.seqOrLen) =
              IF ToInt32(m.at) >= 0 /\ ToInt32(now) >= 0 /\ now > m.at
              THEN now - m.at ELSE 1
      BY <3>1, <3>2, <3>3, Elapsed
    <3>5. badge' = [badge EXCEPT ![p] = new] \/ badge' = badge
      BY <1>3 DEF HandleIncomingPacket
    <3>6. new.rtt = Rtt(packet.seqOrLen) /\ new.sentAt = m.at /\ new.readAt = now
      OBVIOUS
    <3> HIDE DEF new, packet
    <3>7. \A q \in Pages : badge'[q] = badge[q] \/ badge'[q] = new
      BY <1>2, <3>5
    <3>8. ASSUME NEW q \in Pages, badge'[q] = new
          PROVE  LET at == badge'[q].sentAt
                     got == badge'[q].readAt
                 IN  badge'[q].rtt = IF ToInt32(at) >= 0 /\ ToInt32(got) >= 0 /\ got > at
                                     THEN got - at ELSE 1
      BY <3>4, <3>6, <3>8
    <3> QED
      BY <3>7, <3>8 DEF RttIsElapsed
  <2> QED
    BY <2>1, <2>2
<1>4. ASSUME NEW p \in Pages, NEW deployed \in BOOLEAN, Load(p, deployed)
      PROVE  RttIsElapsed'
  <2>1. \A q \in Pages : badge'[q] \in {badge[q], NoBadge}
    BY <1>2, <1>4 DEF Load
  <2> QED
    BY <2>1 DEF RttIsElapsed
<1>5. ASSUME NEW p \in Pages,
             \/ \E text \in Texts, shared \in BOOLEAN : SendChat(p, text, shared)
             \/ Ping(p)
             \/ \E f \in left[p] : AddFileToCompletedLog(p, f)
             \/ \E i \in Rows(p) : TickRow(p, i) \/ DeleteSingleLog(p, i)
             \/ TickAll(p) \/ DeleteSelected(p) \/ ClearAll(p)
             \/ EnterRoom(p) \/ LeaveRoom(p)
      PROVE  RttIsElapsed'
  BY <1>1, <1>5 DEF SendChat, Ping, AddFileToCompletedLog, TickRow, TickAll, Select,
     DeleteSingleLog, DeleteSelected, ClearAll, Rewrite, EnterRoom, LeaveRoom
<1>6. ASSUME Tick \/ UNCHANGED vars \/ \E m \in wire : Lose(m)
      PROVE  RttIsElapsed'
  BY <1>1, <1>6 DEF Tick, Lose, vars
<1> QED
  BY <1>3, <1>4, <1>5, <1>6 DEF Next

(* The badge shows the milliseconds that passed, and 1 if the word of the  *)
(* clock had its sign bit set at the ping or at the pong, although the     *)
(* time travels as a word and comes back once more cut.                    *)
THEOREM BadgeIsElapsed == ShortSessions /\ Spec => []RttIsElapsed
<1>1. ShortSessions /\ Init => Recent /\ RttIsElapsed
  <2> SUFFICES ASSUME ShortSessions, Init PROVE Recent /\ RttIsElapsed
    OBVIOUS
  <2>1. 2 * ticks < WordSize
    BY DEF ShortSessions, Init
  <2> QED
    BY <2>1 DEF Init, Recent, RttIsElapsed
<1> QED
  BY <1>1, TalkInit, TalkStep, RecentStep, BadgeStep, PTL DEF Spec

-----------------------------------------------------------------------------
(* The history in the storage.                                             *)

(* s is the end of t, as long as the cap allows.                           *)
IsEnd(s, t) ==
    /\ Len(s) = IF Len(t) > ChatCap THEN ChatCap ELSE Len(t)
    /\ \A i \in 1..Len(s) : s[i] = t[Len(t) - Len(s) + i]

(* A page that was loaded again shows nothing until it enters a room.      *)
KeptInv ==
    \A p \in Pages : full # "was" =>
        \/ IsEnd(chats[p], shown[p])
        \/ ~inRoom[p] /\ shown[p] = <<>> /\ Len(chats[p]) <= ChatCap

LEMMA EndIsSuffix ==
    ASSUME NEW s \in Seq(Bubbles), NEW t \in Seq(Bubbles), IsEnd(s, t)
    PROVE  IsSuffix(s, t)
<1> DEFINE u == Reverse(s)
           v == Reverse(t)
           m == Len(s)
           n == Len(t)
<1>1. m \in Nat /\ n \in Nat /\ m <= n
  BY ChatAssumption DEF IsEnd
<1>2. u = [i \in 1..m |-> s[m - i + 1]] /\ v = [i \in 1..n |-> t[n - i + 1]]
  BY DEF Reverse
<1>3. \A i \in 1..m : m - i + 1 \in 1..m /\ s[m - i + 1] = t[n - m + (m - i + 1)]
  <2>1. \A i \in 1..m : m - i + 1 \in 1..m
    BY <1>1
  <2> QED
    BY <2>1, Zenon DEF IsEnd
<1>4. (\A i \in 1..m : s[m - i + 1] \in Bubbles) /\ \A i \in 1..n : t[n - i + 1] \in Bubbles
  BY <1>1
<1>5. Len(u) = m /\ Len(v) = n
  BY <1>1, <1>2, <1>4
<1>6. \A i \in 1..m : u[i] = v[i] /\ u[i] \in Bubbles /\ v[i] \in Bubbles
  <2> TAKE i \in 1..m
  <2>1. i \in 1..n /\ n - m + (m - i + 1) = n - i + 1
    BY <1>1
  <2>2. u[i] = s[m - i + 1] /\ v[i] = t[n - i + 1]
    BY <1>2, <2>1
  <2>3. s[m - i + 1] = t[n - i + 1]
    BY <1>3, <2>1
  <2> QED
    BY <1>4, <2>1, <2>2, <2>3
<1> HIDE DEF u, v, m, n
<1>7. /\ SubSeq(u, 1, m) \in Seq(Bubbles) /\ Len(SubSeq(u, 1, m)) = m
      /\ SubSeq(v, 1, m) \in Seq(Bubbles) /\ Len(SubSeq(v, 1, m)) = m
      /\ \A i \in 1..m : SubSeq(u, 1, m)[i] = u[i] /\ SubSeq(v, 1, m)[i] = v[i]
  <2>1. ASSUME NEW w, \A i \in 1..m : w[i] \in Bubbles
        PROVE  /\ SubSeq(w, 1, m) \in Seq(Bubbles) /\ Len(SubSeq(w, 1, m)) = m
               /\ \A i \in 1..m : SubSeq(w, 1, m)[i] = w[i]
    <3>1. 1 \in Int /\ m \in Int
      BY <1>1
    <3>2. /\ SubSeq(w, 1, m) \in Seq(Bubbles)
          /\ Len(SubSeq(w, 1, m)) = IF 1 <= m THEN m - 1 + 1 ELSE 0
          /\ \A i \in 1..m - 1 + 1 : SubSeq(w, 1, m)[i] = w[1 + i - 1]
      BY <2>1, <3>1, SubSeqProperties
    <3>3. \A i \in 1..m : 1 + i - 1 = i /\ m - 1 + 1 = m
      BY <1>1
    <3> QED
      BY <1>1, <3>2, <3>3
  <2> QED
    BY <1>6, <2>1
<1>8. SubSeq(u, 1, m) = SubSeq(v, 1, m)
  BY <1>6, <1>7, SeqEqual
<1> QED
  BY <1>1, <1>5, <1>8 DEF IsSuffix, IsPrefix, u, v

(* A bubble more at the end of both.                                       *)
LEMMA EndGrows ==
    ASSUME NEW s \in Seq(Bubbles), NEW t \in Seq(Bubbles), NEW b \in Bubbles, IsEnd(s, t)
    PROVE  IsEnd(Pushed(s, b), Append(t, b))
<1> DEFINE r == Pushed(s, b)
           u == Append(t, b)
<1>1. /\ r \in Seq(Bubbles) /\ r[Len(r)] = b
      /\ Len(r) = IF Len(s) = ChatCap THEN Len(s) ELSE Len(s) + 1
      /\ \A i \in 1..Len(r) - 1 : r[i] = s[Len(s) - Len(r) + i + 1]
  BY PushedBubble, Zenon
<1>2. /\ u \in Seq(Bubbles) /\ Len(u) = Len(t) + 1 /\ u[Len(t) + 1] = b
      /\ \A i \in 1..Len(t) : u[i] = t[i]
  BY AppendProperties
<1>3. Len(s) \in Nat /\ Len(t) \in Nat /\ ChatCap \in Nat \ {0}
  BY ChatAssumption
<1> HIDE DEF r, u
<1>4. Len(r) = IF Len(u) > ChatCap THEN ChatCap ELSE Len(u)
  BY <1>1, <1>2, <1>3 DEF IsEnd
<1>5. Len(r) <= Len(u) /\ Len(r) \in Nat /\ Len(r) >= 1 /\ Len(s) <= Len(t)
  BY <1>1, <1>2, <1>3, <1>4 DEF IsEnd
<1>6. ASSUME NEW i \in 1..Len(r)
      PROVE  r[i] = u[Len(u) - Len(r) + i]
  <2>1. CASE i = Len(r)
    <3>1. Len(u) - Len(r) + i = Len(t) + 1
      BY <1>2, <1>3, <1>5, <2>1
    <3> QED
      BY <1>1, <1>2, <2>1, <3>1
  <2>2. CASE i # Len(r)
    <3> DEFINE j == Len(s) - Len(r) + i + 1
               k == Len(u) - Len(r) + i
    <3>1. i \in 1..Len(r) - 1 /\ j \in 1..Len(s) /\ k \in 1..Len(t)
          /\ Len(t) - Len(s) + j = k
      BY <1>1, <1>2, <1>3, <1>5, <2>2
    <3>2. r[i] = s[j] /\ u[k] = t[k]
      BY <1>1, <1>2, <3>1
    <3> HIDE DEF j, k
    <3>3. s[j] = t[Len(t) - Len(s) + j]
      BY <3>1 DEF IsEnd
    <3> QED
      BY <3>1, <3>2, <3>3 DEF k
  <2> QED
    BY <2>1, <2>2
<1> QED
  BY <1>4, <1>6 DEF IsEnd, r, u
LEMMA KeptWithinCap ==
    ASSUME TalkInv, KeptInv, full # "was", NEW p \in Pages
    PROVE  Len(chats[p]) \in Nat /\ Len(chats[p]) <= ChatCap
<1>1. chats[p] \in Seq(Bubbles) /\ shown[p] \in Seq(Bubbles)
  BY DEF TalkInv, Typed
<1>2. Len(chats[p]) \in Nat /\ Len(shown[p]) \in Nat /\ ChatCap \in Nat
  BY <1>1, ChatAssumption
<1>3. IsEnd(chats[p], shown[p]) \/ Len(chats[p]) <= ChatCap
  BY DEF KeptInv
<1>4. IsEnd(chats[p], shown[p]) => Len(chats[p]) <= ChatCap
  BY <1>2 DEF IsEnd
<1> QED
  BY <1>2, <1>3, <1>4

LEMMA KeptStep == TalkInv /\ KeptInv /\ [Next]_vars => KeptInv'
<1> SUFFICES ASSUME TalkInv, KeptInv, [Next]_vars PROVE KeptInv'
  OBVIOUS
<1> USE DEF dom, storage, bounds, shownOnly
<1>1. /\ inRoom \in [Pages -> BOOLEAN]
      /\ shown \in [Pages -> Seq(Bubbles)] /\ chats \in [Pages -> Seq(Bubbles)]
  BY DEF TalkInv, Typed
<1>2. ASSUME UNCHANGED <<inRoom, shown, chats>>, full' = full \/ full' = "was"
      PROVE  KeptInv'
  BY <1>2 DEF KeptInv
<1>3. ASSUME NEW p \in Pages, NEW b \in Bubbles, ShowChat(p, b), inRoom[p],
             inRoom' = inRoom
      PROVE  KeptInv'
  <2>1. CASE chats' = [chats EXCEPT ![p] = Pushed(chats[p], b)] /\ full' = full
    <3>1. shown' = [shown EXCEPT ![p] = Append(shown[p], b)]
      BY <1>3 DEF ShowChat
    <3>2. ASSUME full # "was" PROVE IsEnd(chats'[p], shown'[p])
      <4>1. IsEnd(chats[p], shown[p])
        BY <1>3, <3>2 DEF KeptInv
      <4>2. IsEnd(Pushed(chats[p], b), Append(shown[p], b))
        BY <1>1, <4>1, EndGrows
      <4> QED
        BY <1>1, <2>1, <3>1, <4>2
    <3>3. \A q \in Pages \ {p} : shown'[q] = shown[q] /\ chats'[q] = chats[q]
      BY <1>1, <2>1, <3>1
    <3> QED
      BY <1>3, <2>1, <3>2, <3>3 DEF KeptInv
  <2>2. CASE full' = "was"
    BY <2>2 DEF KeptInv
  <2> QED
    BY <1>3, <2>1, <2>2 DEF ShowChat, Save
<1>4. ASSUME NEW p \in Pages, NEW text \in Texts, NEW shared \in BOOLEAN,
             SendChat(p, text, shared)
      PROVE  KeptInv'
  <2>1. Bubble(text, "outgoing", shared) \in Bubbles
    BY DEF Bubble, Bubbles
  <2> QED
    BY <1>3, <1>4, <2>1 DEF SendChat
<1>5. ASSUME NEW p \in Pages, NEW m \in wire, HandleIncomingPacket(p, m)
      PROVE  KeptInv'
  <2> DEFINE packet == Decode(m.bytes)
             b == Bubble(packet.payload, "incoming", FALSE)
  <2>1. inRoom[p] /\ m.to = p /\ Carries(m) /\ inRoom' = inRoom
    BY <1>5 DEF HandleIncomingPacket, TalkInv
  <2>2. CASE packet.type = CHAT /\ ShowChat(p, b)
    <3>1. packet.payload \in spoken[Other(p)]
      BY <2>1, <2>2, PacketIsHandled DEF TalkInv
    <3>2. packet.payload \in Texts
      BY <3>1, OtherPage DEF TalkInv, Typed
    <3>3. b \in Bubbles
      BY <3>2 DEF Bubble, Bubbles
    <3> QED
      BY <1>3, <2>1, <2>2, <3>3
  <2>3. CASE UNCHANGED <<shown, chats, full>>
    BY <1>2, <2>1, <2>3
  <2> QED
    BY <1>5, <2>2, <2>3 DEF HandleIncomingPacket
<1>6. ASSUME NEW p \in Pages, EnterRoom(p)
      PROVE  KeptInv'
  <2>1. /\ inRoom' = [inRoom EXCEPT ![p] = TRUE]
        /\ shown' = [shown EXCEPT ![p] = Restored(p)]
        /\ UNCHANGED <<chats, full>>
    BY <1>6 DEF EnterRoom
  <2>2. ASSUME full # "was" PROVE IsEnd(chats[p], Restored(p))
    <3>1. chats[p] \in Seq(Bubbles) /\ shown[p] \in Seq(Bubbles) /\ ChatCap \in Nat \ {0}
      BY <1>1, ChatAssumption
    <3>2. Len(chats[p]) \in Nat /\ Len(chats[p]) <= ChatCap
      BY <2>2, KeptWithinCap
    <3>3. CASE chats[p] # <<>>
      BY <3>1, <3>2, <3>3 DEF Restored, IsEnd
    <3>4. CASE chats[p] = <<>>
      <4>1. Restored(p) = shown[p] /\ Len(chats[p]) = 0
        BY <3>4 DEF Restored
      <4>2. CASE IsEnd(chats[p], shown[p])
        BY <4>1, <4>2
      <4>3. CASE shown[p] = <<>>
        BY <3>1, <4>1, <4>3 DEF IsEnd
      <4> QED
        BY <2>2, <4>2, <4>3 DEF KeptInv
    <3> QED
      BY <3>3, <3>4
  <2>3. /\ inRoom'[p] /\ shown'[p] = Restored(p)
        /\ \A q \in Pages \ {p} : inRoom'[q] = inRoom[q] /\ shown'[q] = shown[q]
    BY <1>1, <2>1
  <2> QED
    BY <2>1, <2>2, <2>3 DEF KeptInv
<1>7. ASSUME NEW p \in Pages, LeaveRoom(p)
      PROVE  KeptInv'
  <2>1. /\ inRoom' = [inRoom EXCEPT ![p] = FALSE] /\ inRoom[p]
        /\ UNCHANGED <<shown, chats, full>>
    BY <1>7 DEF LeaveRoom
  <2> QED
    BY <1>1, <2>1 DEF KeptInv
<1>8. ASSUME NEW p \in Pages, NEW deployed \in BOOLEAN, Load(p, deployed)
      PROVE  KeptInv'
  <2>1. /\ inRoom' = [inRoom EXCEPT ![p] = FALSE] /\ full' = full
        /\ shown' = [shown EXCEPT ![p] = <<>>]
        /\ chats' = [chats EXCEPT ![p] = <<>>] \/ chats' = chats
    BY <1>8 DEF Load
  <2>2. /\ ~inRoom'[p] /\ shown'[p] = <<>> /\ chats'[p] \in {<<>>, chats[p]}
        /\ \A q \in Pages \ {p} :
              inRoom'[q] = inRoom[q] /\ shown'[q] = shown[q] /\ chats'[q] = chats[q]
    BY <1>1, <2>1
  <2>3. ASSUME full # "was" PROVE Len(chats'[p]) <= ChatCap
    <3>1. Len(chats[p]) <= ChatCap
      BY <2>3, KeptWithinCap
    <3>2. Len(<<>>) <= ChatCap
      BY ChatAssumption
    <3> QED
      BY <2>2, <3>1, <3>2
  <2> QED
    BY <2>1, <2>2, <2>3 DEF KeptInv
<1>9. ASSUME NEW p \in Pages,
             \/ Ping(p)
             \/ \E f \in left[p] : AddFileToCompletedLog(p, f)
             \/ \E i \in Rows(p) : TickRow(p, i) \/ DeleteSingleLog(p, i)
             \/ TickAll(p) \/ DeleteSelected(p) \/ ClearAll(p)
      PROVE  KeptInv'
  BY <1>2, <1>9 DEF Ping, AddFileToCompletedLog, Save, TickRow, TickAll, Select,
     DeleteSingleLog, DeleteSelected, ClearAll, Rewrite
<1>10. ASSUME Tick \/ UNCHANGED vars \/ \E m \in wire : Lose(m)
       PROVE  KeptInv'
  BY <1>2, <1>10 DEF Tick, Lose, vars
<1> QED
  BY <1>4, <1>5, <1>6, <1>7, <1>8, <1>9, <1>10 DEF Next

(* While a room is shown, the history is the end of what is shown, and as  *)
(* much of it as the cap allows, through leaving, entering and loading the *)
(* page again, unless the storage was full.                                *)
THEOREM HistoryIsKept == Spec => []HistoryIsTail
<1>1. Init => KeptInv
  <2> SUFFICES ASSUME Init PROVE KeptInv
    OBVIOUS
  <2>1. \A p \in Pages : ~inRoom[p] /\ shown[p] = <<>> /\ Len(chats[p]) = 0
    BY DEF Init
  <2> QED
    BY <2>1, ChatAssumption DEF KeptInv
<1>2. TalkInv /\ KeptInv => HistoryIsTail
  <2> SUFFICES ASSUME TalkInv, KeptInv, NEW p \in Pages, inRoom[p], full # "was"
               PROVE  /\ IsSuffix(chats[p], shown[p])
                      /\ Len(chats[p]) = IF Len(shown[p]) > ChatCap THEN ChatCap
                                                                   ELSE Len(shown[p])
    BY DEF HistoryIsTail
  <2>1. IsEnd(chats[p], shown[p])
    BY DEF KeptInv
  <2>2. chats[p] \in Seq(Bubbles) /\ shown[p] \in Seq(Bubbles)
    BY DEF TalkInv, Typed
  <2> QED
    BY <2>1, <2>2, EndIsSuffix DEF IsEnd
<1> QED
  BY <1>1, <1>2, TalkInit, TalkStep, KeptStep, PTL DEF Spec
-----------------------------------------------------------------------------
(* The log of completed files.                                             *)

Files == UNION {s.files[p] : s \in Sessions, p \in Pages}

Distinct(s) == \A i, j \in 1..Len(s) : i # j => s[i] # s[j]

(* t is what is left of s when only the positions kept stay.               *)
IsRest(t, s, kept) ==
    /\ Len(t) <= Len(s)
    /\ \E e \in [1..Len(t) -> kept] :
          /\ \A n \in 1..Len(t) : t[n] = s[e[n]]
          /\ \A m, n \in 1..Len(t) : m < n => e[m] < e[n]
          /\ \A k \in kept : \E n \in 1..Len(t) : e[n] = k

(* Among the kept positions each has a rank of its own, and each rank is   *)
(* somebody's.                                                             *)
LEMMA RankOfKept ==
    ASSUME NEW N \in Nat, NEW kept \in SUBSET (1..N)
    PROVE  /\ Cardinality(kept) \in 0..N
           /\ \A i \in kept : Cardinality(kept \cap 1..i) \in 1..Cardinality(kept)
           /\ \A i, j \in kept :
                 i < j => Cardinality(kept \cap 1..i) < Cardinality(kept \cap 1..j)
           /\ \A n \in 1..Cardinality(kept) :
                 \E i \in kept : Cardinality(kept \cap 1..i) = n
<1> DEFINE R(i) == Cardinality(kept \cap 1..i)
           C == Cardinality(kept)
           r == [i \in kept |-> R(i)]
<1>1. IsFiniteSet(kept) /\ C \in Nat /\ C <= N
  <2>1. IsFiniteSet(1..N) /\ Cardinality(1..N) = N
    BY FS_Interval
  <2> QED
    BY <2>1, FS_Subset, FS_CardinalityType
<1>2. ASSUME NEW i \in kept
      PROVE  R(i) \in 1..C
  <2>1. IsFiniteSet(kept \cap 1..i) /\ R(i) <= C
    BY <1>1, FS_Subset
  <2>2. i \in kept \cap 1..i
    OBVIOUS
  <2>3. R(i) \in Nat /\ R(i) # 0
    BY <2>1, <2>2, FS_CardinalityType, FS_EmptySet
  <2> QED
    BY <1>1, <2>1, <2>3
<1>3. ASSUME NEW i \in kept, NEW j \in kept, i < j
      PROVE  R(i) < R(j)
  <2> DEFINE S == kept \cap 1..j
  <2>1. IsFiniteSet(S) /\ j \in S
    BY <1>1, FS_Subset
  <2>2. IsFiniteSet(S \ {j}) /\ Cardinality(S \ {j}) = Cardinality(S) - 1
    BY <2>1, FS_RemoveElement
  <2>3. kept \cap 1..i \in SUBSET (S \ {j})
    BY <1>3
  <2>4. R(i) <= Cardinality(S \ {j})
    BY <2>2, <2>3, FS_Subset
  <2> QED
    BY <1>2, <2>2, <2>4
<1>4. r \in Injection(kept, 1..C)
  <2>1. r \in [kept -> 1..C]
    BY <1>2
  <2>2. ASSUME NEW i \in kept, NEW j \in kept, i # j
        PROVE  r[i] # r[j]
    <3>1. i < j \/ j < i
      BY <2>2
    <3>2. R(i) \in Int /\ R(j) \in Int
      BY <1>2
    <3> QED
      BY <1>3, <3>1, <3>2
  <2> QED
    BY <2>1, <2>2 DEF Injection, IsInjective
<1>5. r \in Surjection(kept, 1..C)
  <2>1. IsFiniteSet(1..C) /\ Cardinality(1..C) = C
    BY <1>1, FS_Interval
  <2> QED
    BY <1>4, <2>1, FS_Injection
<1>6. ASSUME NEW n \in 1..C
      PROVE  \E i \in kept : R(i) = n
  BY <1>5 DEF Surjection
<1> QED
  BY <1>1, <1>2, <1>3, <1>6

(* The filter keeps what is not chosen, in its order.                      *)
LEMMA WithoutIsRest ==
    ASSUME NEW s \in Seq(Files), NEW S
    PROVE  /\ Without(s, S) \in Seq(Files)
           /\ IsRest(Without(s, S), s, DOMAIN s \ S)
<1> DEFINE kept == DOMAIN s \ S
           C == Cardinality(kept)
           R(i) == Cardinality(kept \cap 1..i)
           e == [n \in 1..C |-> CHOOSE i \in kept : R(i) = n]
           t == Without(s, S)
<1>1. kept \in SUBSET (1..Len(s)) /\ Len(s) \in Nat
  OBVIOUS
<1> HIDE DEF kept
<1>2. /\ C \in Nat /\ C <= Len(s)
      /\ \A i \in kept : R(i) \in 1..C
      /\ \A i, j \in kept : i < j => R(i) < R(j)
      /\ \A n \in 1..C : \E i \in kept : R(i) = n
  <2>1. /\ C \in 0..Len(s)
        /\ \A i \in kept : R(i) \in 1..C
        /\ \A i, j \in kept : i < j => R(i) < R(j)
        /\ \A n \in 1..C : \E i \in kept : R(i) = n
    BY <1>1, RankOfKept, Zenon
  <2> HIDE DEF C, R
  <2> QED
    BY <1>1, <2>1
<1> HIDE DEF C, R
<1>3. ASSUME NEW n \in 1..C
      PROVE  e[n] \in kept /\ R(e[n]) = n
  BY <1>2
<1>4. t = [n \in 1..C |-> s[e[n]]]
  BY DEF Without, kept, C, R
<1>5. e \in [1..C -> kept]
  BY <1>3
<1> HIDE DEF e, t
<1>6. \A n \in 1..C : s[e[n]] \in Files
  <2>1. \A k \in 1..Len(s) : s[k] \in Files
    OBVIOUS
  <2> QED
    BY <1>1, <1>3, <2>1
<1>7. t \in Seq(Files) /\ Len(t) = C
  BY <1>2, <1>4, <1>6
<1>8. ASSUME NEW m \in 1..C, NEW n \in 1..C, m < n
      PROVE  e[m] < e[n]
  <2>1. e[m] \in 1..Len(s) /\ e[n] \in 1..Len(s)
    BY <1>1, <1>3
  <2>2. e[m] # e[n] /\ ~(e[n] < e[m])
    BY <1>2, <1>3, <1>8
  <2> QED
    BY <2>1, <2>2
<1>9. ASSUME NEW k \in kept
      PROVE  \E n \in 1..C : e[n] = k
  <2>1. R(k) \in 1..C /\ R(e[R(k)]) = R(k) /\ e[R(k)] \in kept
    BY <1>2, <1>3
  <2>2. e[R(k)] = k
    <3>1. k \in 1..Len(s) /\ e[R(k)] \in 1..Len(s)
      BY <1>1, <2>1
    <3>2. ~(k < e[R(k)]) /\ ~(e[R(k)] < k)
      BY <1>2, <2>1
    <3> QED
      BY <3>1, <3>2
  <2> QED
    BY <2>1, <2>2
<1>10. IsRest(t, s, kept)
  BY <1>2, <1>4, <1>5, <1>7, <1>8, <1>9 DEF IsRest
<1> QED
  BY <1>7, <1>10 DEF t, kept

(* So does the splice of one entry.                                        *)
LEMMA RemovedIsRest ==
    ASSUME NEW s \in Seq(Files), NEW i \in 1..Len(s)
    PROVE  /\ RemoveAt(s, i) \in Seq(Files)
           /\ IsRest(RemoveAt(s, i), s, (DOMAIN s) \ {i})
<1> DEFINE u == SubSeq(s, 1, i - 1)
           v == SubSeq(s, i + 1, Len(s))
           t == u \o v
           kept == (DOMAIN s) \ {i}
           e == [n \in 1..Len(s) - 1 |-> IF n < i THEN n ELSE n + 1]
<1>1. /\ Len(s) \in Nat /\ DOMAIN s = 1..Len(s) /\ i \in Nat
      /\ \A k \in 1..Len(s) : s[k] \in Files
  OBVIOUS
<1>2. /\ u \in Seq(Files) /\ Len(u) = i - 1
      /\ \A n \in 1..i - 1 : u[n] = s[n]
  <2>1. 1 \in Int /\ i - 1 \in Int /\ \A k \in 1..i - 1 : s[k] \in Files
    BY <1>1
  <2>2. /\ u \in Seq(Files) /\ Len(u) = IF 1 <= i - 1 THEN i - 1 - 1 + 1 ELSE 0
        /\ \A n \in 1..i - 1 - 1 + 1 : u[n] = s[1 + n - 1]
    BY <2>1, SubSeqProperties
  <2> HIDE DEF u
  <2>3. \A n \in 1..i - 1 : n \in 1..i - 1 - 1 + 1 /\ 1 + n - 1 = n
    BY <1>1
  <2> QED
    BY <1>1, <2>2, <2>3
<1>3. /\ v \in Seq(Files) /\ Len(v) = Len(s) - i
      /\ \A n \in 1..Len(s) - i : v[n] = s[i + n]
  <2>1. i + 1 \in Int /\ Len(s) \in Int /\ \A k \in i + 1..Len(s) : s[k] \in Files
    BY <1>1
  <2>2. /\ v \in Seq(Files)
        /\ Len(v) = IF i + 1 <= Len(s) THEN Len(s) - (i + 1) + 1 ELSE 0
        /\ \A n \in 1..Len(s) - (i + 1) + 1 : v[n] = s[i + 1 + n - 1]
    BY <2>1, SubSeqProperties
  <2> HIDE DEF v
  <2>3. ASSUME NEW n \in 1..Len(s) - i
        PROVE  v[n] = s[i + n]
    <3>1. n \in 1..Len(s) - (i + 1) + 1 /\ i + 1 + n - 1 = i + n
      BY <1>1
    <3>2. v[n] = s[i + 1 + n - 1]
      BY <2>2, <3>1
    <3> QED
      BY <3>1, <3>2, Zenon
  <2>4. Len(v) = Len(s) - i
    <3>1. \A n \in Nat : i <= n =>
              (IF i + 1 <= n THEN n - (i + 1) + 1 ELSE 0) = n - i
      BY <1>1
    <3>2. i <= Len(s)
      BY <1>1
    <3>3. Len(v) = IF i + 1 <= Len(s) THEN Len(s) - (i + 1) + 1 ELSE 0
      BY <2>2
    <3> QED
      BY <1>1, <3>1, <3>2, <3>3, Zenon
  <2> QED
    BY <2>2, <2>3, <2>4
<1> HIDE DEF u, v
<1>4. /\ t \in Seq(Files) /\ Len(t) = Len(u) + Len(v)
      /\ \A n \in 1..Len(u) + Len(v) :
            t[n] = IF n <= Len(u) THEN u[n] ELSE v[n - Len(u)]
  BY <1>2, <1>3, ConcatProperties
<1> HIDE DEF t
<1>5. Len(t) = Len(s) - 1
  BY <1>1, <1>2, <1>3, <1>4
<1>6. ASSUME NEW n \in 1..Len(t)
      PROVE  t[n] = s[e[n]] /\ e[n] \in kept
  <2>1. CASE n < i
    <3>1. n \in 1..Len(u) + Len(v) /\ n <= Len(u) /\ n \in 1..i - 1 /\ e[n] = n
      BY <1>1, <1>2, <1>4, <1>5, <2>1
    <3> QED
      BY <1>1, <1>2, <1>4, <2>1, <3>1
  <2>2. CASE ~(n < i)
    <3>1. /\ n \in 1..Len(u) + Len(v) /\ ~(n <= Len(u)) /\ e[n] = n + 1
          /\ n - Len(u) \in 1..Len(s) - i /\ i + (n - Len(u)) = n + 1
          /\ n + 1 \in 1..Len(s) /\ n + 1 # i
      BY <1>1, <1>2, <1>4, <1>5, <2>2
    <3> HIDE DEF e
    <3>2. t[n] = s[n + 1]
      BY <1>3, <1>4, <3>1
    <3> QED
      BY <1>1, <3>1, <3>2
  <2> QED
    BY <2>1, <2>2
<1>7. ASSUME NEW k \in kept
      PROVE  \E n \in 1..Len(t) : e[n] = k
  <2>1. k \in 1..Len(s) /\ k # i
    BY <1>1
  <2>2. CASE k < i
    BY <1>1, <1>5, <2>1, <2>2
  <2>3. CASE ~(k < i)
    <3>1. k - 1 \in 1..Len(t) /\ e[k - 1] = k
      BY <1>1, <1>5, <2>1, <2>3
    <3> QED
      BY <3>1
  <2> QED
    BY <2>2, <2>3
<1>8. e \in [1..Len(t) -> kept]
  BY <1>5, <1>6
<1>9. \A m, n \in 1..Len(t) : m < n => e[m] < e[n]
  BY <1>1, <1>5
<1> HIDE DEF e, kept
<1>10. IsRest(t, s, kept)
  <2>1. Len(t) <= Len(s)
    BY <1>1, <1>5
  <2>2. \A n \in 1..Len(t) : t[n] = s[e[n]]
    BY <1>6
  <2> QED
    BY <1>7, <1>8, <1>9, <2>1, <2>2, Zenon DEF IsRest
<1> QED
  BY <1>4, <1>10 DEF RemoveAt, t, u, v, kept

(* What is said of the rest of a log whose entries are distinct.           *)
LEMMA RestOfLog ==
    ASSUME NEW s \in Seq(Files), Distinct(s), NEW kept \in SUBSET (DOMAIN s),
           NEW t \in Seq(Files), IsRest(t, s, kept)
    PROVE  /\ Distinct(t) /\ Len(t) <= Len(s) /\ KeepsOrder(t, s)
           /\ ToSet(s) \ ToSet(t) = {s[i] : i \in (DOMAIN s) \ kept}
<1>1. PICK e \in [1..Len(t) -> kept] :
          /\ \A n \in 1..Len(t) : t[n] = s[e[n]]
          /\ \A m, n \in 1..Len(t) : m < n => e[m] < e[n]
          /\ \A k \in kept : \E n \in 1..Len(t) : e[n] = k
  BY DEF IsRest
<1>2. /\ DOMAIN s = 1..Len(s) /\ DOMAIN t = 1..Len(t)
      /\ Len(s) \in Nat /\ Len(t) \in Nat
  OBVIOUS
<1>3. \A n \in 1..Len(t) : e[n] \in kept /\ e[n] \in 1..Len(s)
  BY <1>1, <1>2
<1>4. Distinct(t)
  <2> SUFFICES ASSUME NEW m \in 1..Len(t), NEW n \in 1..Len(t), m # n
               PROVE  t[m] # t[n]
    BY DEF Distinct
  <2>1. m < n \/ n < m
    OBVIOUS
  <2>2. e[m] # e[n]
    BY <1>1, <1>3, <2>1
  <2> QED
    BY <1>1, <1>3, <2>2 DEF Distinct
<1>5. KeepsOrder(t, s)
  BY <1>1, <1>2, <1>3 DEF KeepsOrder, ToSet
<1>6. ToSet(s) \ ToSet(t) = {s[i] : i \in (DOMAIN s) \ kept}
  <2>1. ASSUME NEW x \in ToSet(s) \ ToSet(t)
        PROVE  x \in {s[i] : i \in (DOMAIN s) \ kept}
    <3>1. PICK i \in DOMAIN s : x = s[i]
      BY DEF ToSet
    <3>2. i \notin kept
      BY <1>1, <1>2, <2>1, <3>1 DEF ToSet
    <3> QED
      BY <3>1, <3>2
  <2>2. ASSUME NEW i \in (DOMAIN s) \ kept
        PROVE  s[i] \in ToSet(s) \ ToSet(t)
    <3>1. ASSUME NEW n \in 1..Len(t) PROVE t[n] # s[i]
      BY <1>1, <1>2, <1>3, <2>2 DEF Distinct
    <3> QED
      BY <1>2, <3>1 DEF ToSet
  <2> QED
    BY <2>1, <2>2
<1> QED
  BY <1>4, <1>5, <1>6 DEF IsRest
(* Files are logged once; the rows are those of the log while a room is    *)
(* shown, so that a box stands for the entry it stands next to.            *)
LogFor(p) ==
    /\ log[p] \in Seq(Files) /\ Len(log[p]) <= LogCap /\ Distinct(log[p])
    /\ left[p] \subseteq Files /\ \A i \in 1..Len(log[p]) : log[p][i] \notin left[p]
    /\ inRoom[p] => rows[p] = log[p] /\ ticked[p] \subseteq DOMAIN rows[p]
LogDomains ==
    /\ DOMAIN log = Pages /\ DOMAIN left = Pages /\ DOMAIN inRoom = Pages
    /\ DOMAIN rows = Pages /\ DOMAIN ticked = Pages
LogInv == LogDomains /\ \A p \in Pages : LogFor(p)

(* What a step may do to the log of p.                                     *)
Gone(p) == ToSet(log[p]) \ ToSet(log'[p])
ChosenGo(p) ==
    log'[p] # log[p] /\ inRoom'[p] =>
        \/ \E f \in left[p] :
            /\ AddFileToCompletedLog(p, f)
            /\ \/ log'[p] = <<f>> \o log[p] /\ Len(log'[p]) <= LogCap
               \/ log'[p] = <<f>> \o Front(log[p]) /\ Len(log[p]) = LogCap
        \/ /\ KeepsOrder(log'[p], log[p])
           /\ \/ \E i \in Rows(p) : DeleteSingleLog(p, i) /\ Gone(p) = {rows[p][i]}
              \/ DeleteSelected(p) /\ Gone(p) = {rows[p][i] : i \in ticked[p]}
              \/ ClearAll(p) /\ log'[p] = <<>>

(* A step of p leaves the other pages alone.                               *)
OthersStay(p) ==
    /\ LogDomains'
    /\ \A q \in Pages \ {p} :
          /\ log'[q] = log[q] /\ left'[q] = left[q] /\ inRoom'[q] = inRoom[q]
          /\ rows'[q] = rows[q] /\ ticked'[q] = ticked[q]

LEMMA LogOfOne ==
    ASSUME LogInv, NEW p \in Pages, OthersStay(p), LogFor(p)', ChosenGo(p)
    PROVE  LogInv' /\ \A q \in Pages : ChosenGo(q)
<1>1. ASSUME NEW q \in Pages \ {p} PROVE LogFor(q)' /\ ChosenGo(q)
  <2>1. LogFor(q)
    BY DEF LogInv
  <2>2. /\ log'[q] = log[q] /\ left'[q] = left[q] /\ inRoom'[q] = inRoom[q]
        /\ rows'[q] = rows[q] /\ ticked'[q] = ticked[q]
    BY DEF OthersStay
  <2> QED
    BY <2>1, <2>2 DEF LogFor, ChosenGo
<1> QED
  BY <1>1 DEF LogInv, OthersStay

LEMMA LogUntouched ==
    ASSUME LogInv, UNCHANGED <<inRoom, log, left, rows, ticked>>
    PROVE  LogInv' /\ \A p \in Pages : ChosenGo(p)
  BY DEF LogInv, LogDomains, LogFor, ChosenGo

(* A new entry in front of those that have room.                           *)
LEMMA UnshiftedFile ==
    ASSUME NEW s \in Seq(Files), NEW f \in Files, Distinct(s), Len(s) <= LogCap,
           \A i \in 1..Len(s) : s[i] # f
    PROVE  LET t == Unshifted(s, f)
           IN  /\ t \in Seq(Files) /\ Distinct(t) /\ Len(t) <= LogCap
               /\ \A n \in 1..Len(t) : t[n] = f \/ \E i \in 1..Len(s) : t[n] = s[i]
               /\ \/ t = <<f>> \o s
                  \/ t = <<f>> \o Front(s) /\ Len(s) = LogCap
<1> DEFINE t == Unshifted(s, f)
           v == IF Len(s) = LogCap THEN Front(s) ELSE s
<1>1. Len(s) \in Nat /\ LogCap \in Nat \ {0}
  BY ChatAssumption
<1>2. /\ v \in Seq(Files) /\ Len(v) < LogCap /\ Len(v) <= Len(s) /\ Len(v) \in Nat
      /\ \A i \in 1..Len(v) : v[i] = s[i]
  <2>1. CASE Len(s) # LogCap
    BY <1>1, <2>1
  <2>2. CASE Len(s) = LogCap
    <3> DEFINE u == SubSeq(s, 1, Len(s) - 1)
    <3>1. 1 \in Int /\ Len(s) - 1 \in Int /\ \A k \in 1..Len(s) - 1 : s[k] \in Files
      BY <1>1
    <3>2. /\ u \in Seq(Files)
          /\ Len(u) = IF 1 <= Len(s) - 1 THEN Len(s) - 1 - 1 + 1 ELSE 0
          /\ \A i \in 1..Len(s) - 1 - 1 + 1 : u[i] = s[1 + i - 1]
      BY <3>1, SubSeqProperties
    <3>3. v = u
      BY <2>2 DEF Front
    <3> HIDE DEF u, v
    <3>4. Len(u) = Len(s) - 1
      BY <1>1, <2>2, <3>2
    <3>5. ASSUME NEW i \in 1..Len(u) PROVE u[i] = s[i]
      <4>1. i \in 1..Len(s) - 1 - 1 + 1 /\ 1 + i - 1 = i
        BY <1>1, <3>4
      <4>2. u[i] = s[1 + i - 1]
        BY <3>2, <4>1
      <4> QED
        BY <4>1, <4>2, Zenon
    <3> QED
      BY <1>1, <2>2, <3>2, <3>3, <3>4, <3>5
  <2> QED
    BY <2>1, <2>2
<1>3. t = <<f>> \o v
  BY DEF Unshifted
<1>4. (t = <<f>> \o s) \/ (t = <<f>> \o Front(s) /\ Len(s) = LogCap)
  BY DEF Unshifted
<1> HIDE DEF t, v
<1>5. <<f>> \in Seq(Files) /\ Len(<<f>>) = 1 /\ <<f>>[1] = f
  OBVIOUS
<1>6. /\ t \in Seq(Files) /\ Len(t) = 1 + Len(v)
      /\ \A n \in 1..1 + Len(v) : t[n] = IF n <= 1 THEN f ELSE v[n - 1]
  <2> DEFINE g == <<f>>
  <2>1. g \in Seq(Files) /\ Len(g) = 1 /\ g[1] = f /\ t = g \o v
    BY <1>3, <1>5
  <2> HIDE DEF g
  <2>2. /\ t \in Seq(Files) /\ Len(t) = Len(g) + Len(v)
        /\ \A n \in 1..Len(g) + Len(v) :
              t[n] = IF n <= Len(g) THEN g[n] ELSE v[n - Len(g)]
    BY <1>2, <2>1, ConcatProperties
  <2>3. ASSUME NEW n \in 1..1 + Len(v)
        PROVE  t[n] = IF n <= 1 THEN f ELSE v[n - 1]
    <3>1. n <= 1 => n = 1
      BY <1>2
    <3> QED
      BY <2>1, <2>2, <3>1
  <2> QED
    BY <2>1, <2>2, <2>3
<1>7. /\ t[1] = f
      /\ \A n \in 1..Len(t) : n # 1 => n - 1 \in 1..Len(s) /\ t[n] = s[n - 1]
  BY <1>1, <1>2, <1>6
<1>8. Distinct(t)
  <2> SUFFICES ASSUME NEW m \in 1..Len(t), NEW n \in 1..Len(t), m # n
               PROVE  t[m] # t[n]
    BY DEF Distinct
  <2>1. CASE m = 1
    BY <1>7, <2>1
  <2>2. CASE n = 1
    BY <1>7, <2>2
  <2>3. CASE m # 1 /\ n # 1
    BY <1>7, <2>3 DEF Distinct
  <2> QED
    BY <2>1, <2>2, <2>3
<1>9. \A n \in 1..Len(t) : t[n] = f \/ \E i \in 1..Len(s) : t[n] = s[i]
  BY <1>7
<1>10. Len(t) <= LogCap
  BY <1>1, <1>2, <1>6
<1> QED
  BY <1>4, <1>6, <1>8, <1>9, <1>10 DEF t

LEMMA FileLogged ==
    ASSUME LogInv, NEW p \in Pages, NEW f \in left[p], AddFileToCompletedLog(p, f)
    PROVE  LogInv' /\ \A q \in Pages : ChosenGo(q)
<1> DEFINE t == Unshifted(log[p], f)
<1>1. LogFor(p) /\ LogDomains /\ inRoom[p]
  BY DEF LogInv, AddFileToCompletedLog
<1>2. /\ t \in Seq(Files) /\ Distinct(t) /\ Len(t) <= LogCap
      /\ \A n \in 1..Len(t) : t[n] = f \/ \E i \in 1..Len(log[p]) : t[n] = log[p][i]
      /\ \/ t = <<f>> \o log[p]
         \/ t = <<f>> \o Front(log[p]) /\ Len(log[p]) = LogCap
  <2>1. /\ log[p] \in Seq(Files) /\ f \in Files /\ Distinct(log[p])
        /\ Len(log[p]) <= LogCap /\ \A i \in 1..Len(log[p]) : log[p][i] # f
    BY <1>1 DEF LogFor
  <2> QED
    BY <2>1, UnshiftedFile, Zenon
<1> HIDE DEF t
<1>3. /\ inRoom' = inRoom /\ left' = [left EXCEPT ![p] = left[p] \ {f}]
      /\ log' = [log EXCEPT ![p] = t] \/ log' = log
      /\ rows' = [rows EXCEPT ![p] = log'[p]] /\ ticked' = [ticked EXCEPT ![p] = {}]
  BY DEF AddFileToCompletedLog, Save, RenderCompletedFilesLog, shownOnly, t
<1>4. /\ OthersStay(p) /\ left'[p] = left[p] \ {f} /\ log'[p] \in {t, log[p]}
      /\ rows'[p] = log'[p] /\ ticked'[p] = {}
  BY <1>1, <1>3 DEF OthersStay, LogDomains
<1>5. LogFor(p)'
  BY <1>1, <1>2, <1>4 DEF LogFor
<1>6. ChosenGo(p)
  <2>1. log'[p] # log[p] => log'[p] = t
    BY <1>4
  <2> QED
    BY <1>2, <2>1 DEF ChosenGo
<1> QED
  BY <1>4, <1>5, <1>6, LogOfOne

(* The log is written anew with the rest of it, for one of the reasons.    *)
LEMMA LogRewritten ==
    ASSUME LogInv, NEW p \in Pages, NEW t \in Seq(Files), Distinct(t),
           Len(t) <= Len(log[p]), KeepsOrder(t, log[p]), Rewrite(p, t),
           LET gone == ToSet(log[p]) \ ToSet(t)
           IN  \/ \E i \in Rows(p) : DeleteSingleLog(p, i) /\ gone = {rows[p][i]}
               \/ DeleteSelected(p) /\ gone = {rows[p][i] : i \in ticked[p]}
               \/ ClearAll(p) /\ t = <<>>
    PROVE  LogInv' /\ \A q \in Pages : ChosenGo(q)
<1>1. LogFor(p) /\ LogDomains
  BY DEF LogInv
<1>2. /\ inRoom' = inRoom /\ left' = left /\ log' = [log EXCEPT ![p] = t]
      /\ rows' = [rows EXCEPT ![p] = log'[p]] /\ ticked' = [ticked EXCEPT ![p] = {}]
  BY DEF Rewrite, RenderCompletedFilesLog, shownOnly
<1>3. OthersStay(p) /\ log'[p] = t /\ rows'[p] = t /\ ticked'[p] = {}
  BY <1>1, <1>2 DEF OthersStay, LogDomains
<1>4. \A i \in 1..Len(t) : t[i] \notin left[p]
  <2>1. ASSUME NEW i \in 1..Len(t) PROVE \E k \in 1..Len(log[p]) : t[i] = log[p][k]
    <3>1. DOMAIN t = 1..Len(t) /\ DOMAIN log[p] = 1..Len(log[p])
      BY <1>1 DEF LogFor
    <3>2. t[i] \in ToSet(log[p])
      BY <3>1 DEF KeepsOrder, ToSet
    <3> QED
      BY <3>1, <3>2 DEF ToSet
  <2> QED
    BY <1>1, <2>1 DEF LogFor
<1>5. Len(t) <= LogCap
  <2>1. Len(t) \in Nat /\ Len(log[p]) \in Nat /\ LogCap \in Nat /\ Len(log[p]) <= LogCap
    BY <1>1, ChatAssumption DEF LogFor
  <2> QED
    BY <2>1
<1>6. LogFor(p)'
  BY <1>1, <1>2, <1>3, <1>4, <1>5 DEF LogFor
<1>7. ChosenGo(p)
  <2>1. Gone(p) = ToSet(log[p]) \ ToSet(t)
    BY <1>3 DEF Gone
  <2> QED
    BY <1>3, <2>1 DEF ChosenGo
<1> QED
  BY <1>3, <1>6, <1>7, LogOfOne

LEMMA LogSpliced ==
    ASSUME LogInv, NEW p \in Pages, NEW i \in Rows(p), DeleteSingleLog(p, i)
    PROVE  LogInv' /\ \A q \in Pages : ChosenGo(q)
<1> DEFINE s == log[p]
           t == RemoveAt(s, i)
<1>1. /\ s \in Seq(Files) /\ Distinct(s) /\ i \in 1..Len(s) /\ DOMAIN s = 1..Len(s)
      /\ rows[p] = s /\ Rewrite(p, t)
  BY DEF LogInv, LogFor, DeleteSingleLog, Rows
<1>2. t \in Seq(Files) /\ IsRest(t, s, (DOMAIN s) \ {i})
  BY <1>1, RemovedIsRest
<1>3. /\ Distinct(t) /\ Len(t) <= Len(s) /\ KeepsOrder(t, s)
      /\ ToSet(s) \ ToSet(t) = {s[k] : k \in (DOMAIN s) \ ((DOMAIN s) \ {i})}
  <2>1. (DOMAIN s) \ {i} \in SUBSET (DOMAIN s)
    OBVIOUS
  <2> HIDE DEF s, t
  <2> QED
    BY <1>1, <1>2, <2>1, RestOfLog
<1>4. ToSet(s) \ ToSet(t) = {rows[p][i]}
  <2>1. (DOMAIN s) \ ((DOMAIN s) \ {i}) = {i}
    BY <1>1
  <2> QED
    BY <1>1, <1>3, <2>1
<1> QED
  BY <1>1, <1>2, <1>3, <1>4, LogRewritten

LEMMA LogFiltered ==
    ASSUME LogInv, NEW p \in Pages, DeleteSelected(p)
    PROVE  LogInv' /\ \A q \in Pages : ChosenGo(q)
<1> DEFINE s == log[p]
           t == Without(s, ticked[p])
<1>1. /\ s \in Seq(Files) /\ Distinct(s) /\ Rewrite(p, t)
      /\ rows[p] = s /\ ticked[p] \subseteq DOMAIN s
  BY DEF LogInv, LogFor, DeleteSelected
<1>2. t \in Seq(Files) /\ IsRest(t, s, (DOMAIN s) \ ticked[p])
  BY <1>1, WithoutIsRest
<1>3. /\ Distinct(t) /\ Len(t) <= Len(s) /\ KeepsOrder(t, s)
      /\ ToSet(s) \ ToSet(t) = {s[k] : k \in (DOMAIN s) \ ((DOMAIN s) \ ticked[p])}
  <2>1. (DOMAIN s) \ ticked[p] \in SUBSET (DOMAIN s)
    OBVIOUS
  <2> HIDE DEF s, t
  <2> QED
    BY <1>1, <1>2, <2>1, RestOfLog
<1>4. ToSet(s) \ ToSet(t) = {rows[p][k] : k \in ticked[p]}
  <2>1. (DOMAIN s) \ ((DOMAIN s) \ ticked[p]) = ticked[p]
    BY <1>1
  <2> QED
    BY <1>1, <1>3, <2>1
<1> QED
  BY <1>1, <1>2, <1>3, <1>4, LogRewritten

LEMMA LogStep == LogInv /\ [Next]_vars => LogInv' /\ [\A p \in Pages : ChosenGo(p)]_vars
<1> SUFFICES ASSUME LogInv, [Next]_vars
             PROVE  LogInv' /\ [\A p \in Pages : ChosenGo(p)]_vars
  OBVIOUS
<1> DEFINE Goal == LogInv' /\ \A p \in Pages : ChosenGo(p)
<1> USE DEF dom, storage, bounds, shownOnly
<1>1. ASSUME UNCHANGED <<inRoom, log, left, rows, ticked>> PROVE Goal
  BY <1>1, LogUntouched
<1> HIDE DEF Goal
<1>2. ASSUME NEW p \in Pages,
             \/ \E text \in Texts, shared \in BOOLEAN : SendChat(p, text, shared)
             \/ Ping(p)
             \/ \E m \in wire : HandleIncomingPacket(p, m)
      PROVE  Goal
  BY <1>1, <1>2 DEF SendChat, Ping, HandleIncomingPacket
<1>3. ASSUME NEW p \in Pages, NEW f \in left[p], AddFileToCompletedLog(p, f) PROVE Goal
  BY <1>3, FileLogged DEF Goal
<1>4. ASSUME NEW p \in Pages, NEW i \in Rows(p), DeleteSingleLog(p, i) PROVE Goal
  BY <1>4, LogSpliced DEF Goal
<1>5. ASSUME NEW p \in Pages, DeleteSelected(p) PROVE Goal
  BY <1>5, LogFiltered DEF Goal
<1>6. ASSUME NEW p \in Pages, ClearAll(p) PROVE Goal
  <2>1. /\ <<>> \in Seq(Files) /\ Distinct(<<>>) /\ KeepsOrder(<<>>, log[p])
        /\ Len(<<>>) <= Len(log[p])
    <3>1. Len(log[p]) \in Nat
      BY DEF LogInv, LogFor
    <3> QED
      BY <3>1 DEF Distinct, KeepsOrder, ToSet
  <2> QED
    BY <1>6, <2>1, LogRewritten DEF ClearAll, Goal
<1>7. ASSUME NEW p \in Pages, NEW boxes, Select(p, boxes),
             inRoom[p] => boxes \subseteq Rows(p)
      PROVE  Goal
  <2>1. LogFor(p) /\ LogDomains
    BY DEF LogInv
  <2>2. /\ UNCHANGED <<inRoom, log, left, rows>>
        /\ ticked' = [ticked EXCEPT ![p] = boxes]
    BY <1>7 DEF Select
  <2>3. OthersStay(p) /\ ticked'[p] = boxes
    BY <2>1, <2>2 DEF OthersStay, LogDomains
  <2>4. LogFor(p)' /\ ChosenGo(p)
    BY <1>7, <2>1, <2>2, <2>3 DEF LogFor, ChosenGo, Rows
  <2> QED
    BY <2>3, <2>4, LogOfOne DEF Goal
<1>8. ASSUME NEW p \in Pages, NEW i \in Rows(p), TickRow(p, i) PROVE Goal
  <2> DEFINE boxes == IF i \in ticked[p] THEN ticked[p] \ {i} ELSE ticked[p] \cup {i}
  <2>1. Select(p, boxes)
    BY <1>8 DEF TickRow
  <2>2. inRoom[p] => boxes \subseteq Rows(p)
    BY DEF LogInv, LogFor, Rows
  <2> HIDE DEF boxes
  <2> QED
    BY <1>7, <2>1, <2>2
<1>9. ASSUME NEW p \in Pages, TickAll(p) PROVE Goal
  <2> DEFINE boxes == IF bar[p].all THEN {} ELSE Rows(p)
  <2>1. Select(p, boxes)
    BY <1>9 DEF TickAll
  <2>2. boxes \subseteq Rows(p)
    OBVIOUS
  <2> HIDE DEF boxes
  <2> QED
    BY <1>7, <2>1, <2>2
<1>10. ASSUME NEW p \in Pages, EnterRoom(p) PROVE Goal
  <2>1. LogFor(p) /\ LogDomains
    BY DEF LogInv
  <2>2. /\ inRoom' = [inRoom EXCEPT ![p] = TRUE] /\ log' = log /\ left' = left
        /\ rows' = [rows EXCEPT ![p] = log'[p]] /\ ticked' = [ticked EXCEPT ![p] = {}]
    BY <1>10 DEF EnterRoom, RenderCompletedFilesLog
  <2>3. OthersStay(p) /\ rows'[p] = log[p] /\ ticked'[p] = {}
    BY <2>1, <2>2 DEF OthersStay, LogDomains
  <2>4. LogFor(p)' /\ ChosenGo(p)
    BY <2>1, <2>2, <2>3 DEF LogFor, ChosenGo
  <2> QED
    BY <2>3, <2>4, LogOfOne DEF Goal
<1>11. ASSUME NEW p \in Pages, LeaveRoom(p) PROVE Goal
  <2>1. LogFor(p) /\ LogDomains
    BY DEF LogInv
  <2>2. inRoom' = [inRoom EXCEPT ![p] = FALSE] /\ UNCHANGED <<log, left, rows, ticked>>
    BY <1>11 DEF LeaveRoom
  <2>3. OthersStay(p) /\ ~inRoom'[p]
    BY <2>1, <2>2 DEF OthersStay, LogDomains
  <2>4. LogFor(p)' /\ ChosenGo(p)
    BY <2>1, <2>2, <2>3 DEF LogFor, ChosenGo
  <2> QED
    BY <2>3, <2>4, LogOfOne DEF Goal
<1>12. ASSUME NEW p \in Pages, NEW deployed \in BOOLEAN, Load(p, deployed) PROVE Goal
  <2>1. LogFor(p) /\ LogDomains
    BY DEF LogInv
  <2>2. /\ inRoom' = [inRoom EXCEPT ![p] = FALSE] /\ left' = left
        /\ rows' = [rows EXCEPT ![p] = <<>>] /\ ticked' = [ticked EXCEPT ![p] = {}]
        /\ log' = [log EXCEPT ![p] = <<>>] \/ log' = log
    BY <1>12 DEF Load
  <2>3. OthersStay(p) /\ ~inRoom'[p] /\ log'[p] \in {<<>>, log[p]}
    BY <2>1, <2>2 DEF OthersStay, LogDomains
  <2>4. <<>> \in Seq(Files) /\ Distinct(<<>>) /\ Len(<<>>) = 0 /\ LogCap >= 0
    BY ChatAssumption DEF Distinct
  <2>5. LogFor(p)'
    <3>1. CASE log'[p] = log[p]
      BY <2>1, <2>2, <2>3, <3>1 DEF LogFor
    <3>2. CASE log'[p] = <<>>
      BY <2>1, <2>2, <2>3, <2>4, <3>2 DEF LogFor
    <3> QED
      BY <2>3, <3>1, <3>2
  <2>6. ChosenGo(p)
    BY <2>3 DEF ChosenGo
  <2> QED
    BY <2>3, <2>5, <2>6, LogOfOne DEF Goal
<1>13. ASSUME Tick \/ UNCHANGED vars \/ \E m \in wire : Lose(m) PROVE Goal
  BY <1>1, <1>13 DEF Tick, Lose, vars
<1>14. Goal
  BY <1>2, <1>3, <1>4, <1>5, <1>6, <1>8, <1>9, <1>10, <1>11, <1>12, <1>13 DEF Next
<1> QED
  BY <1>14 DEF Goal

(* An entry goes from the log only as the oldest of a full one, when a file*)
(* is completed, or because the user chose it: the entry his row shows, the*)
(* entries of the checked rows, or all by clearing the log.  The others    *)
(* stay in their order.  For any log and any cap.                          *)
THEOREM OnlyChosenAreGone == Spec => OnlyChosenGo
<1>1. Init => LogInv
  <2> SUFFICES ASSUME Init PROVE LogInv
    OBVIOUS
  <2>1. LogDomains
    BY ChatAssumption DEF Init, LogDomains
  <2>2. ASSUME NEW p \in Pages PROVE LogFor(p)
    <3>1. log[p] = <<>> /\ ~inRoom[p] /\ left[p] \subseteq Files
      BY DEF Init, Files
    <3>2. Len(<<>>) = 0 /\ <<>> \in Seq(Files) /\ LogCap >= 0
      BY ChatAssumption
    <3> QED
      BY <3>1, <3>2 DEF LogFor, Distinct
  <2> QED
    BY <2>1, <2>2 DEF LogInv
<1>2. LogInv /\ [Next]_vars => LogInv' /\ [\A p \in Pages : ChosenGo(p)]_vars
  BY LogStep
<1>3. [][\A p \in Pages : ChosenGo(p)]_vars => OnlyChosenGo
  BY DEF OnlyChosenGo, ChosenGo, Gone
<1> QED
  BY <1>1, <1>2, <1>3, PTL DEF Spec
=============================================================================
