\* The same sessions; what a failure on a full disk leaves.
CONSTANTS
    r1 = r1
    r2 = r2
    F = F
    uA = uA
    uB = uB
    uC = uC
    uP = uP
    Recordings = {r1, r2}
    Start <- MCStart
    End <- MCEnd
    Targets = {2, 4, 9}
    Tolerance = 2
    Listings <- MCListings
    PageSize = 2
    MaxPages = 2
    OpenRetries = 1
    Frames <- MCFrames
    Scripts <- AllScripts
    NameOf <- Names2
    Content <- MCContent
    ScriptsOf <- MCScripts
    WholeScripts <- Whole
    Ftyp = F
    ProbeLimit = 2
    Overhead = 3
    HardCap = 8
    MinFrames = 2
SPECIFICATION DownloadSpec
PROPERTY FailureRemovesPart
CHECK_DEADLOCK FALSE
