SPECIFICATION Spec
CONSTANTS
    Images = {a}
    NoImage = NoImage
    MaxRetries = 1
    Handlers = {p}
    Poller = poller
    Nobody = Nobody
    Unlimited = Unlimited
    Wants = {"running"}
    ChanCap = 1
    Slow = {"list", "recovered", "pause"}
    Budget <- PowerDown
INVARIANTS
    Barrier
CHECK_DEADLOCK FALSE
