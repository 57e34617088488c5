SPECIFICATION Spec
CONSTANTS
    k1 = k1
    k2 = k2
    Keys = {k1, k2}
    Texts = {t1}
    None = None
    NoRow = NoRow
    Clients = {c1}
    Scopes <- AllScopes
    MaxVersion = 3
    NoVersion = NoVersion
INVARIANTS KBBuilds NoSilentOverwrite
PROPERTIES ApprovedEditsSurvive
