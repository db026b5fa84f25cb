\* A refund overlaps a delivery; nothing is minted, nothing crashes and no answer is
\* lost.
CONSTANTS
    Issues = {i1}
    Senders = {w1}
    Tokens = {t1, t2}
    NoToken = NoToken
    MaxAttempts = 2
    CrashLimit = 0
    Env = {"refund"}
SPECIFICATION Spec
SYMMETRY Symmetry
CHECK_DEADLOCK FALSE
INVARIANTS
    RevokedIsTakenBack
