SPECIFICATION OrderlySpec
CONSTANTS
    Images = {a}
    NoImage = NoImage
    MaxRetries = 1
    Handlers = {p, q}
    Poller = poller
    Nobody = Nobody
    Unlimited = Unlimited
    Wants = {"running"}
    ChanCap = 1
    Slow = {"list", "recovered", "pause"}
    Budget <- GoalAndDown
INVARIANTS
    TypeOK
    

    
CHECK_DEADLOCK FALSE
