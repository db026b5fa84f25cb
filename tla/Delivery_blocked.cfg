\* Two rows of a destination that can never be sent are older than a third whose
\* id arrives late, and a round takes two rows of a destination.
CONSTANTS
    Issues = {i1}
    Senders = {w1}
    Tokens = {t1}
    NoToken = NoToken
    MaxAttempts = 2
    CrashLimit = 0
    Env = {}
    Parts <- RoundsOnly
    Tables <- MCFull
    Rounds = {"k1"}
    BatchLimit = 3
    LaneLimit = 2
SPECIFICATION DeliverySpec
CHECK_DEADLOCK FALSE
PROPERTY BlockedResumes
