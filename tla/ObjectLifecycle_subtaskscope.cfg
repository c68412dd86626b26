SPECIFICATION Spec
CONSTANTS
    t1 = t1 t2 = t2 t3 = t3 e1 = e1 e2 = e2 p1 = p1 s1 = s1 home = home club = club
    Tasks = {t1, t2}
    Events = {e1}
    People = {}
    Sections <- NoSections
    EventOf <- EventsOfSections
    Spaces = {home}
    None = None
    MaxVersion = 3
INVARIANTS SubtaskSharesScope
SYMMETRY SymmetryOfTasks
CHECK_DEADLOCK FALSE
