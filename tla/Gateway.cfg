SPECIFICATION FairSpec
CONSTANTS
    r1 = r1
    r2 = r2
    Shared = Shared
    Replicas = {r1, r2}
    Configs <- EitherWay
    Chars <- PlainChars
    Ids <- Tricky
    MaxCallbackDataBytes = 7
    None = None
    Budget <- GatewayBudget
INVARIANT PressMeansButton
INVARIANT ConfiguredIsSafe
INVARIANT SomeReplicaAccepts
PROPERTY PressesHandled
CHECK_DEADLOCK FALSE
