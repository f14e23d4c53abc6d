CONSTANTS
    writer = writer
    relay = relay
    leaf = leaf
    Nodes = {writer, relay, leaf}
    Writer = writer
    Keepers = {writer, leaf}
    Links <- MCLinks
    MaxEvents = 2
    MaxPersists = 2
    MaxFaults = 2
SPECIFICATION Spec
CHECK_DEADLOCK FALSE
INVARIANTS OneHistory
PROPERTIES SavedSurvives RestoresOwnPast LogsConverge
