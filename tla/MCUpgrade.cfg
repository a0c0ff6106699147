SPECIFICATION UpgradeFairSpec
CONSTANTS
    old = old
    new = new
    broken = broken
    Versions = {old, new, broken}
    Broken = {broken}
    NoVersion = NoVersion
    Torn = Torn
    Accepts <- MCAccepts
    MaxCrashes = 1
    MaxScripts = 4
    MaxInterrupts = 1
INVARIANTS UpgradeTypeOK LinkResolves ConfigAccepted ReadyIsServing EveryObjectRecorded
 
CHECK_DEADLOCK FALSE
