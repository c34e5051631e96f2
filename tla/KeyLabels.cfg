SPECIFICATION Spec
CONSTANTS
    Keys = {k1, k2}
    Comments = {laptop}
    NoComment = none
    NotListed = unlisted
    Places = {p1}
    Slack = 1
    MaxNow = 2
    MaxEdits = 2
    MaxLogins = 2
INVARIANTS
    CacheCurrent
    
    SessionShowsItsKey
PROPERTIES
    GivenOutCurrent
CHECK_DEADLOCK FALSE
