SPECIFICATION FairSpec
CONSTANTS
    Requests = {"r1", "r2"}
    Profiles <- MCProfiles
    Targets = {"us", "eu", "keyless"}
    Route <- MCRoute
    Residents = {"eu"}
    Keyless = {"keyless"}
    Guarded = {"g"}
    Attempts = 2
    MaxRounds = 1
    MaxChunks = 1
    NoTarget = "none"
INVARIANTS   CountedOnce 
  
CHECK_DEADLOCK FALSE
