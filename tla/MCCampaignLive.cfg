\* Refinement and liveness: one campaign, two workers, one broadcast.
CONSTANTS
    s1 = s1
    Campaigns = {c1}
    Broadcasts = {b1}
    Subscribers = {s1}
    Messenger = {s1}
    Active = {s1}
    AudienceOf <- MCAudienceOf
    Workers = {w1, w2}
    BatchSize = 1
    MaxTries = 1
    NoBroadcast = NoBroadcast
    NoWorker = NoWorker
    NoCampaign = NoCampaign
SPECIFICATION CFairSpec
PROPERTIES
    ImplementsBroadcast
    DispatchEnds
CHECK_DEADLOCK FALSE
