SPECIFICATION LiveMCSpec
CONSTANTS
    w1 = w1  w2 = w2
    e1 = e1  e2 = e2  e3 = e3  e4 = e4
    k1 = k1
    x1 = x1
    m1 = m1  m2 = m2  m3 = m3  m4 = m4
    None = None
    MaxInt = 255
    Wallet = {w1}
    ExtId = {e1, e2, e3}
    ProviderOf <- OneProvider
    Key = {k1}
    Hash = {x1}
    Msg = {m2, m3}
    Agent = {h1, a1, b1}
    Handler = {h1}
    Worker = {a1}
    Recoverer = {b1}
    Leftover <- HalfBets
    Scenarios = {"chain", "leftover"}
    Calls <- AllCalls
    MaxConflictAttempts = 2
    MaxAttempts = 1
INVARIANTS RecoveryFollowsTheLedger
PROPERTIES ParkedReversalSettles EveryCallEnds StalePendingSettles
