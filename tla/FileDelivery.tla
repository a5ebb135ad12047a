---------------------------- MODULE FileDelivery ----------------------------
(***************************************************************************)
(* What a file transfer promises, without packets, paths or pages: the     *)
(* sender hands over the chunks of a file one by one, and the receiver     *)
(* gets the file at most once and only after all of it was handed over.    *)
(***************************************************************************)
EXTENDS Naturals

CONSTANTS FileIds, Chunks

VARIABLES
    handed,     \* handed[f]: chunks of f given to a channel so far
    delivered   \* delivered[f]: how often the receiver was given f

vars == <<handed, delivered>>

Init ==
    /\ handed = [f \in FileIds |-> 0]
    /\ delivered = [f \in FileIds |-> 0]

HandOver(f) ==
    /\ handed[f] < Chunks[f]
    /\ handed' = [handed EXCEPT ![f] = @ + 1]
    /\ UNCHANGED delivered

Deliver(f) ==
    /\ handed[f] = Chunks[f]
    /\ delivered[f] = 0
    /\ delivered' = [delivered EXCEPT ![f] = 1]
    /\ UNCHANGED handed

Next == \E f \in FileIds : HandOver(f) \/ Deliver(f)

Spec == Init /\ [][Next]_vars
=============================================================================
