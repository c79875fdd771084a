SPECIFICATION MCSpec
CONSTANTS
    k1 = k1  k2 = k2
    None = None
    Client = {c1, c2}
    Reader = {c1}
    KeyId = {k1, k2}
    Rotation <- KeyChange
    Limit = {1, 2}
    MaxRow = 3
    Skew = 2
INVARIANTS QueryTypeOK VerdictsAreOfTheirTime PagesMoveForward PagesSkipOnlyLateRows
PROPERTIES CacheNeverGoesBack RotationIsFollowed ReadingEnds
