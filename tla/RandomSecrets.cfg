SPECIFICATION Spec
CONSTANTS
    r1 = r1
    r2 = r2
    Shared = Shared
    Replicas = {r1, r2}
    Configs <- Unset
    Chars <- PlainChars
    Ids <- Plain
    MaxCallbackDataBytes = 7
    None = None
    Budget <- RandomSecretsBudget
INVARIANT AnyReplicaAccepts
CHECK_DEADLOCK FALSE
