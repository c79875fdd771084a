SPECIFICATION ReconSpec
CONSTANTS
    w1 = w1  e1 = e1  x1 = x1  k1 = k1  None = None
    MaxInt = 255
    Wallet = {w1}
    ExtId = {e1}
    ProviderOf <- OneProvider
    Key = {k1}
    Hash = {x1}
    Msg = {}
    Agent = {h1}
    Handler = {h1}
    Calls <- OneBet
    MaxConflictAttempts = 1
INVARIANTS NoFalseAlarm
