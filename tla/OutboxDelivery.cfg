SPECIFICATION OutboxFairSpec
CONSTANTS
    Sender = {s1, s2}
    MaxSends = 3
    MaxSenderDeaths = 2
INVARIANTS BoundedMail RowTellsTheMail
PROPERTIES RowSettles
CHECK_DEADLOCK FALSE
