CONSTANTS
    MaxCount = 5
    Hidden = {}
    InitCount = 4
    Values = {v}
    Blank = Blank
    Steps <- MoveSteps
    Lookahead = 2
    Liberties = {}
SPECIFICATION Spec
INVARIANTS TypeOK QueueNeverStale
PROPERTIES BehavesLikePlain
