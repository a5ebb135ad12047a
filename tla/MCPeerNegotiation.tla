-------------------------- MODULE MCPeerNegotiation -------------------------
(* Instances of PeerNegotiation for TLC: two pages, and a third client id  *)
(* for a page that is loaded again, so that it comes before, between or    *)
(* after the others.                                                       *)
EXTENDS PeerNegotiation, TLC

CONSTANTS a, b

TwoPages == {a, b}
ThreeIds == 1..3
OnlyReload == {"reload"}
=============================================================================
