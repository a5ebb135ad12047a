---------------------------- MODULE MCRoomSession ---------------------------
(* Instances of RoomSession for TLC: two rooms, two passwords of which one *)
(* is configured, and the two brokers of the code.                         *)
EXTENDS RoomSession, TLC

CONSTANTS r1, r2, p1, p2

TwoRooms == {r1, r2}
TwoPasswords == {p1, p2}

(* A link, if there is one, leads to r1; r2 may be entered by hand.  Which *)
(* of the rooms the link names makes no difference.                        *)
MCInit == Init /\ url.room # r2
MCSpec == MCInit /\ [][Next]_vars /\ Fairness
=============================================================================
