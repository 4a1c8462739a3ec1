\* The same; what an outage may do to the login.
CONSTANT MayReload = FALSE
SPECIFICATION FairSpec
PROPERTY PollRecovers
CHECK_DEADLOCK FALSE
