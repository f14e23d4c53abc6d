CONSTANTS
    Keys = {k1, k2}
    KillAnchors = {k1}
    Nonces = {n1, n2}
    Reasons = {drill, breach}
    Receipts = {r1}
    MaxBoots = 2
    None = None
SPECIFICATION Spec
INVARIANTS HaltedIsBacked HaltIsAuthorized OrderAcceptedOnce
CHECK_DEADLOCK FALSE
