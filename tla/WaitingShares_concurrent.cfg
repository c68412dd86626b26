CONSTANTS
    Host = host
    Guest = guest
    Resources = {r1}
    Conns = {c1, c2}
    Invs = {i1}
    Shares = {w1, w2}
    Sessions = {t1, t2}
    None = none
SPECIFICATION HostSharesSpec
SYMMETRY Symmetric
CHECK_DEADLOCK FALSE
INVARIANTS
    TypeOK
    NoShareStrandedAlone
PROPERTIES
    EndedSharesStayEnded
    GrantsAnswerTheirShare
