\* Two workers over one broadcast to three subscribers, one of them
\* out of send_dm's reach, in batches of two; two beats over one enrolment
\* in three steps; a sweep and the calendar over one post.
CONSTANTS
    Broadcasts = {b1}
    Subscribers = {s1, s2, s3}
    Messenger = {s1, s2}
    Workers = {w1, w2}
    BatchSize = 2
    MaxTries = 2
    NoBroadcast = NoBroadcast
    Enrolments = {1}
    LastStep = 2
    Beats = {d1, d2}
    MaxMishaps = 1
    ScheduledPost = {p1}
    Sweeps = {sweep}
    Engines = {engine}
    MaxAttempts = 2
    MaxTroubles = 1
SPECIFICATION MCSpec
INVARIANTS
    BroadcastInv
    DripInv
    PostsInv
PROPERTIES
    EnrolmentsAdvance
    PublishedStays
    BroadcastsEnd
    ClaimsAreFreed
CHECK_DEADLOCK FALSE
