SPECIFICATION LiveSystemSpec
CONSTANTS
    w1 = w1
    e1 = e1  e2 = e2  e3 = e3  e4 = e4
    k1 = k1
    x1 = x1
    m2 = m2  m3 = m3  m4 = m4
    None = None
    MaxInt = 255
    Wallet = {w1}
    ExtId = {e1, e2}
    ProviderOf <- OneProvider
    Key = {k1}
    Hash = {x1}
    Msg = {m2}
    Agent = {h1, a1}
    Handler = {h1}
    Worker = {a1}
    Calls <- NegativeRefund
    MaxConflictAttempts = 1
    MaxAttempts = 1
PROPERTIES NothingStaysParked
