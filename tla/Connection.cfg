CONSTANTS
    Options = {help, repeat}
    Switches = {repeat}
    Arguments = {word}
    Help = help
    Segment = 4
    Capacity = 4
    Paddings = {"none", "open", "bad"}
    MaxWords = 4
    MaxLeaked = 2
SPECIFICATION Spec
CHECK_DEADLOCK FALSE
INVARIANTS
    TypeOK
    HandlersGetTheLine
    SuccessMeansRun
    OnlyPaddingIsKept
PROPERTY EveryExchangeEnds
