\* The limiter and the dispatch: both channels, requests that fail, a cooldown of two
\* ticks and one restart.  The rebalancer: three nodes, two of which may go down, and
\* three services, one of which may not run on the third node; commands fail and the
\* script restarts at any time, without a bound on time.
SPECIFICATION MCSpec
CONSTANTS
    Nodes <- MCNodes
    Labels <- MCLabels
    Classes <- MCClasses
    Lower <- MCLower
    Results <- MCResults
    Cooldown = 2
    Enabled = TRUE
    DryRun = FALSE
    Channels <- MCBothChannels
    MaxTime = 2
    MaxRestarts = 1
    MaxCalls = 3
    NodeList <- MCSwarm
    ServiceList <- MCServices
    Eligible <- MCMotionPinned
    Poll = 1
    MoveCooldown = 2
    FailingNodes <- MCTwoNodes
    Failures = TRUE
INVARIANTS
    ManagerTypeOK
    AlertSpacing
    SummaryJustified
    DispatchComplete
    TypeOK
PROPERTIES
    ThrottlePromise
    MovesSpaced
    MoveJustified
    BalanceRestored
