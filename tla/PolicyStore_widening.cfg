CONSTANTS
    Appliers = {a1, a2}
    Categories = {money}
    Binds = {b1}
    BootAllow = {money}
    BootBinds = {b1}
    MaxRevision = 2
SPECIFICATION Spec
PROPERTIES NeverWidens
