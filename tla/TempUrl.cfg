CONSTANTS
    Links = {l1}
    Handlers = {h1, h2, h3}
    Limits = {0, 1, 2}
    MaxServed = 4
    None = None
SPECIFICATION Spec
INVARIANTS TypeOK GrantKept RevokedStays
