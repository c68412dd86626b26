CONSTANTS
    u1 = u1
    u2 = u2
    event = event
    task = task
    Users = {u1, u2}
    SpaceIds = {1, 2}
    Records = {event, task}
    ScopeOf <- MCScopeOf
    PersonalOwner <- MCPersonalOwner
    Roles = {"owner", "editor"}
    None = none
    Sessions = {t1, t2}
    Asked <- MCAsked
SPECIFICATION FencedSpec
INVARIANTS
    FencedInv
    SpacesKeepAnOwner
    DeletedSpacesAreClosed
PROPERTIES
    ActsAsIfAlone
    EveryTransactionEnds
