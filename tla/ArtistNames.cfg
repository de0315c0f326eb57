SPECIFICATION Spec
CONSTANTS
    P = P
    Q = Q
    A = A
    u = u
    v = v
    w = w
    n = n
    Guids = {P, Q, A}
    Urls = {u, v, w}
    Roles = {"artist", "label"}
    Names = {n}
    Unknown = Unknown
    Bodies <- MCBodies
    None = None
    Start <- MCStart
    MinAge = 1
    MaxWrites = 1
PROPERTY CatchesUp
INVARIANTS NamesInv LinksAgree CreditIsMutual
CHECK_DEADLOCK FALSE
