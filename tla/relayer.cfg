SPECIFICATION LiveSpec
CONSTANTS
    Relayer = {r1, r2}
    MaxEvent = 2
    BatchSize = 2
    MaxRetries = 2
    CountCap = 3
INVARIANTS TypeOK PublishedWasSent GivenUpLate ClaimsOverlapOnlyAfterExpiry
PROPERTIES FinalStatusHolds EveryEventIsSettled
CHECK_DEADLOCK FALSE
