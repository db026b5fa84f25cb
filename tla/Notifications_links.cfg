\* One event, two workers, two visits of the account; everything may go wrong.
CONSTANTS
    Events = {e1}
    Workers = {w1, w2}
    Links = {l1, l2, l3}
    Visits = {v1, v2}
    None = None
    MaxAttempts = 2
    Scopes <- MailsAndVisits
    VersionLimit = 2
SPECIFICATION FairSpec
CHECK_DEADLOCK FALSE
INVARIANTS
    MailedLinksWork
    SessionsFollowPassword
PROPERTIES
    NotificationsEnd
