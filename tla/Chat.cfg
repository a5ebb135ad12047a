CONSTANTS
    a = a
    b = b
    f1 = f1
    f2 = f2
    f3 = f3
    f4 = f4
    None = None
    Byte = 8
    Pages <- TwoPages
    Texts <- TwoTexts
    Sessions <- TalkPingLog
    ChatCap = 2
    LogCap = 3
    Starts <- BeforeTheEnds

SPECIFICATION Spec
CHECK_DEADLOCK FALSE
INVARIANTS ReceivedAsSent HistoryIsTail SelectionAgrees RttIsElapsed
PROPERTIES OnlyChosenGo
