SPECIFICATION ServiceSpec
CONSTANTS
    w1 = w1  w2 = w2
    e1 = e1  e2 = e2  e3 = e3  e4 = e4
    k1 = k1  k2 = k2  k3 = k3
    x1 = x1  x2 = x2  x3 = x3
    m1 = m1  m2 = m2  m3 = m3
    h1 = h1  h2 = h2
    None = None
    MaxInt = 255
    Wallet = {w1}
    ExtId = {e1, e2, e3, e4}
    ProviderOf <- Providers
    Key = {k1, k2, k3}
    Hash = {x1, x2, x3}
    Msg = {m1, m2, m3}
    Agent = {h1}
    Handler = {h1}
    Calls <- MixedCalls
    MaxConflictAttempts = 2
INVARIANTS DuplicatePairIsAConflict
