SPECIFICATION OrderlySpec
CONSTANTS
    Images = {a}
    NoImage = NoImage
    MaxRetries = 1
    Handlers = {p, q}
    Poller = poller
    Nobody = Nobody
    Unlimited = Unlimited
    Wants = {"running"}
    ChanCap = 2
    Slow = {}
    Budget <- Overtaken
INVARIANTS
    SetStateDerived
CHECK_DEADLOCK FALSE
