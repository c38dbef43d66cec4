SPECIFICATION Spec
CONSTANTS
    Uids = {alice}
    None = None
    Kinds = {"sign_in", "refresh"}
    MaxCalls = 2
    MaxTokens = 3
    MaxFaults = 0
PROPERTY
    SignedOutIsForgotten
