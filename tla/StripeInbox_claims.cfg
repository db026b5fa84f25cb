\* Two invocations, deliveries of two payloads, manual retries, one crash.
CONSTANTS
    Events = {e1}
    Workers = {w1, w2}
    Tokens = {t1, t2, t3, t4}
    Hashes = {h1, h2}
    NoToken = NoToken
    LegacyHash = LegacyHash
    MaxAttempts = 2
    CrashLimit = 1
SPECIFICATION FairSpec
CHECK_DEADLOCK FALSE
INVARIANTS
    SucceededMeansApplied
PROPERTIES
    ProcessingEnds
    LeaseSpec
