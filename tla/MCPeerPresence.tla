--------------------------- MODULE MCPeerPresence ---------------------------
(* Instances of PeerPresence for TLC: a page in the foreground and one in  *)
(* a background tab, with the times of the code.                           *)
EXTENDS PeerPresence, TLC

CONSTANTS front, back

TwoRemotes == {front, back}
OneThrottled == {back}
=============================================================================
