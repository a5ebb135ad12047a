---------------------------- MODULE MCChatHistory ---------------------------
(* An instance of ChatHistory for TLC: both pages talk, one of them logs   *)
(* four files, over a clock that passes the ends of a signed and of an    *)
(* unsigned word of four bytes of 8 values.                                *)
EXTENDS ChatHistory, TLC

CONSTANTS a, b, f1, f2, f3, f4

TwoPages == {a, b}
TwoTexts == {<<1>>, <<2, 7>>}
NoFiles == [p \in TwoPages |-> {}]
OneLogs == a :> {} @@ b :> {f1, f2, f3, f4}
Session(fs, nPackets, nLoads, nTicks, mayFill) ==
    [files |-> fs, packets |-> nPackets, loads |-> nLoads, ticks |-> nTicks,
     full |-> mayFill]
TalkPingLog ==
    {Session(NoFiles, 3, 1, 0, "never"), Session(NoFiles, 2, 1, 0, "may"),
     Session(NoFiles, 2, 0, 4, "never"), Session(OneLogs, 0, 1, 0, "may")}
BeforeTheEnds == {2045, 4094}
=============================================================================
