--------------------------- MODULE MCSignalingHub ---------------------------
(* Instances of SignalingHub for TLC: one room and three connections to it.*)
EXTENDS SignalingHub, TLC

CONSTANTS c1, c2, c3, r

ThreeClients == {c1, c2, c3}
OneRoom == {r}
InTheRoom == [c \in ThreeClients |-> r]

OwnIds == [c \in ThreeClients |-> c]
(* c3 is a second connection of the browser of c1. *)
Reconnect == c1 :> c1 @@ c2 :> c2 @@ c3 :> c1

(* Who sends how many messages. *)
OneFromLast == c1 :> 0 @@ c2 :> 0 @@ c3 :> 1
PairTalks == c1 :> 2 @@ c2 :> 1 @@ c3 :> 0

(* Either three come and go, so that the third is turned away or comes     *)
(* after another has left, and nobody sends; or two come, go and talk; or  *)
(* all do as they like.                                                    *)
VARIABLE plan

MCNext ==
    /\ Next
    /\ plan = "crowd" => posted' = posted
    /\ plan = "talk" => reader'[c3] = "none"
    /\ UNCHANGED plan
mcvars == <<vars, plan>>
MCInit(plans) == Init /\ plan \in plans
MCSpec == MCInit({"crowd", "talk"}) /\ [][MCNext]_mcvars /\ Fairness
FreeSafety == MCInit({"free"}) /\ [][MCNext]_mcvars
=============================================================================
