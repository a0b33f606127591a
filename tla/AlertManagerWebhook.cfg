\* README.md:55: a webhook POST that the server accepts succeeds.
SPECIFICATION ManagerSpec
CONSTANTS
    Nodes <- MCNodes
    Labels <- MCLabels
    Classes <- MCClasses
    Lower <- MCLower
    Results <- MCResults
    Cooldown = 2
    Enabled = TRUE
    DryRun = FALSE
    Channels <- MCBothChannels
    MaxTime = 1
    MaxRestarts = 0
    MaxCalls = 1
INVARIANTS
    WebhookDelivers
