SPECIFICATION FairSpec
CONSTANTS
    Images = {a}
    NoImage = NoImage
    MaxRetries = 0
    Handlers = {p}
    Poller = poller
    Nobody = Nobody
    Unlimited = Unlimited
    Wants = {"running"}
    ChanCap = 1
    Slow = {}
    Budget <- Crash
PROPERTIES
    ContainersLearned
