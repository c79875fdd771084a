SPECIFICATION MCSpec
CONSTANTS
    w1 = w1  w2 = w2
    e1 = e1  e2 = e2  e3 = e3  e4 = e4
    k1 = k1
    x1 = x1
    m1 = m1  m2 = m2  m3 = m3  m4 = m4
    None = None
    MaxInt = 255
    Wallet = {w1, w2}
    ExtId = {e1, e2, e3, e4}
    ProviderOf <- OneProvider
    Key = {k1}
    Hash = {x1}
    Msg = {m1, m2, m3, m4}
    Agent = {h1, h2, a1, a2}
    Handler = {h1, h2}
    Worker = {a1, a2}
    Recoverer = {}
    Leftover = {}
    Scenarios = {"refund", "rollback", "limit", "wallets"}
    Calls <- AllCalls
    MaxConflictAttempts = 1
    MaxAttempts = 1
SYMMETRY SymmetricSystem
INVARIANTS SystemTypeOK BooksBalance OutboxTellsTheTables
           RoundOwnsItsItems OneResolutionPerKind ReversalOpposesOriginal
PROPERTIES SettledForGood ImplementsBook
