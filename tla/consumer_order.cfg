SPECIFICATION Spec
CONSTANTS
    Consumer = {c1}
    MaxMessage = 2
    GroupOf <- OneGroup
    Poison = {}
    BatchSize = 2
    MaxReceive = 2
    None = None
INVARIANTS GroupOrderIsKept
