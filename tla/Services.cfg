SPECIFICATION ServicesSpec
CHECK_DEADLOCK FALSE
CONSTANTS
    Clients = {"client"}
    MaxRequests = 3
    Window = 3
    MaxTokens = 3
    PartsPerToken = 4
    MaxSetBack = 2
    RuleTables <- MCRuleTables
    RoutePayments <- MCRoutePayments
    Minutes <- MCMinutes
    NoRoute = NoRoute
    Acks = {"a1", "a2"}
    Subscriptions = {"s1"}
    StatusOf <- MCStatusOf
    EventChoices = {{"COMPLETED", "REJECTED", "FAILED"}, {"COMPLETED"}}
    MaxLost = 1
    MaxRestarts = 1
    Never = Never
    Period = 3
    Lookback = 10
    Threshold = 2
    MaxQuery = 1
    MaxMissed = 1
    Viewers = {"v1", "v2", "v3"}
    Watches <- MCWatches
    Updated = {"p1", "p2"}
    MaxUpdates = 2
INVARIANTS AtMostTwoWindows BurstsAreBounded RoutedByBestRule ClosedRailsAreAvoided OneRequestPerAck AttemptsAreCounted StuckIsReported PromptPaymentsAreNotStuck EveryoneIsTold
PROPERTIES SubscribersAreTold
