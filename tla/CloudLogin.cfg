\* Every answer of the cloud, outages, expiry, revocation, reloads and crashes.
CONSTANT MayReload = TRUE
SPECIFICATION FairSpec
INVARIANT TypeOK
INVARIANT EntryIsCurrent
PROPERTY PollSucceedsAgain
CHECK_DEADLOCK FALSE
