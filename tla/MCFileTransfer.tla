--------------------------- MODULE MCFileTransfer ---------------------------
(* Instances of FileTransfer for TLC. *)
EXTENDS FileTransfer, TLC

CONSTANTS pa, pb, f1, f2, f3

TwoPeers == {pa, pb}
OneFile == {f1}
TwoFiles == {f1, f2}
ThreeFiles == {f1, f2, f3}

(* f1 and f2 from one page: concurrent loops, and f2 as the retry of f1;   *)
(* f3 the other way.                                                       *)
Owners == [x \in FileIds |-> IF x = f3 THEN pb ELSE pa]
OneChunk == [x \in FileIds |-> 1]
ThreeOneOne == [x \in FileIds |-> IF x = f1 THEN 3 ELSE 1]

(* A disturbance takes the link, a peer or a page away.  The instances     *)
(* allow MaxDisturbances of them in one behaviour; lost packets, failed    *)
(* reads, late handlers and cancels are not rationed.                      *)
CONSTANT MaxDisturbances
(* "faults": f1 alone is sent; "calm": nothing goes wrong, f2 and f3 are   *)
(* sent, one each way; "any": whatever is sent and whatever goes wrong.    *)
VARIABLES disturbed, plan

Disturbance ==
    \/ link /\ ~link'
    \/ \E p \in Peers : (up[p] /\ ~up'[p]) \/ (joined[p] /\ ~joined'[p])

Sent(f) == pc'[f] # "idle"
MCNext ==
    /\ Work \/ (plan # "calm" /\ Trouble)
    /\ plan = "faults" => \A f \in FileIds : Sent(f) => f = f1
    /\ plan = "calm" => ~Sent(f1)
    /\ disturbed' = disturbed + (IF Disturbance THEN 1 ELSE 0)
    /\ disturbed' <= MaxDisturbances
    /\ UNCHANGED plan

mcvars == <<vars, disturbed, plan>>
MCInit(plans) == Init /\ disturbed = 0 /\ plan \in plans
MCSafety == MCInit({"any"}) /\ [][MCNext]_mcvars
MCSpec == MCSafety /\ Fairness
MCPlans == MCInit({"faults", "calm"}) /\ [][MCNext]_mcvars /\ Fairness

(* DeliveredOrCancelled where nothing goes wrong: META and chunks may still*)
(* be reordered, as packets change from the relay to the data channel in   *)
(* both directions at once.                                                *)
CalmDelivery == plan = "calm" => DeliveredOrCancelled
=============================================================================
