CONSTANTS
    courier = courier
    anchor = anchor
    n1 = n1
    n2 = n2
    Conns = {c1, c2, c3}
    Ledgered = {c1, c2}
    Frames <- MCFrames
    Ids <- MCIds
    Nonces <- MCNonces
    Anchors <- MCAnchors
    LedgerCap = 2
    GateCap = 1
    Armed = TRUE
    MaxClock = 1
    Node = Node
    NoFrame = NoFrame
SPECIFICATION Spec
INVARIANTS OnlyDeliveredRecorded GateAcceptsOnce NodeAcceptsOnce WithdrawnStaysOut
CHECK_DEADLOCK FALSE
