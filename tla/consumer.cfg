SPECIFICATION LiveSpec
CONSTANTS
    Consumer = {c1}
    MaxMessage = 2
    GroupOf <- OneGroup
    Poison = {2}
    BatchSize = 2
    MaxReceive = 2
    None = None
INVARIANTS TypeOK NothingIsLost CleanStopIsQuiet
PROPERTIES EveryMessageLeaves
