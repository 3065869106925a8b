\* A holder may die while two operations wait; a takeover of every target;
\* three pushes sent four times over a failed append and a death; a branch of
\* three commits moved twice over a cut-off run and one command.
SPECIFICATION MCSpec
CONSTANTS
    o1 = o1
    o2 = o2
    o3 = o3
    h1 = h1
    f1 = f1
    u1 = u1
    Ops = {o1, o2, o3}
    Renewing = {o1, o2}
    Patient = {o2, o3}
    Heals = {h1}
    Freezers = {}
    Unlockers = {}
    NoOne = NoOne
    AutoTTL = 3
    HealTTL = 1
    RenewEvery = 1
    CrashAt = {"held"}
    Lossy = FALSE
    ping = ping
    MaxPushes = 3
    Others = {ping}
    MaxSends = 4
    MaxFaults = 1
    MaxCrashes = 1
    Parent <- DocsAndAFork
    Docs = {2}
    MaxDeployAttempts = 2
    MaxMoves = 2
    MaxFailures = 1
    MaxCommands = 1
INVARIANTS
    ProceedsOnlyClean TableIsSound
    TriggersTypeOK AckedIsDurable LedgerSound NoneForgotten
    AttemptsBounded
PROPERTIES WaiterGetsThrough NeverBackwards AckedIsTried NoForcedDeploy HeadIsDealtWith
CHECK_DEADLOCK FALSE
