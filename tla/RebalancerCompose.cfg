\* README.md:61: balance is restored, with the constraints of docker-compose.yml
\* and no failure.
SPECIFICATION Spec
CONSTANTS
    NodeList <- MCComposeNodes
    ServiceList <- MCComposeServices
    Eligible <- MCCompose
    Poll = 1
    MoveCooldown = 4
    FailingNodes <- MCNoNode
    Failures = FALSE
PROPERTIES
    BalanceRestored
