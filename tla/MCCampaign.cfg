\* Safety: one campaign, two workers that can each make a broadcast.
CONSTANTS
    s1 = s1
    Campaigns = {c1}
    Broadcasts = {b1, b2}
    Subscribers = {s1}
    Messenger = {s1}
    Active = {s1}
    AudienceOf <- MCAudienceOf
    Workers = {w1, w2}
    BatchSize = 1
    MaxTries = 1
    NoBroadcast = NoBroadcast
    NoWorker = NoWorker
    NoCampaign = NoCampaign
SYMMETRY WorkerSymmetry
CONSTRAINT NoMeddling
SPECIFICATION CSpec
INVARIANTS
    CampaignInv
CHECK_DEADLOCK FALSE
