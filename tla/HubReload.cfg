CONSTANTS
    auth = auth
    money = money
    b1 = b1
    b2 = b2
    Appliers = {reloader, other}
    Reloader = reloader
    Categories = {auth, money}
    Binds = {b1, b2}
    BootAllow = {money}
    BootBinds = {b1}
    Texts <- MCTexts
    MaxRevision = 2
    MaxClock = 2
SPECIFICATION ReloadSpec
INVARIANTS WithinBoot OpenedByLiveOnly
PROPERTIES InTurn ListenersFollow EditTakesEffect
