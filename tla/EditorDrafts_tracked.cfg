SPECIFICATION Spec
CONSTANTS
    Dialogs = {d1}
    Composers = {c1}
    Texts = {a, b}
    Blank = Blank
    NoEditor = NoEditor
    Limit = 1
    MaxRequests = 2
PROPERTIES PendingSavesStayTracked
CHECK_DEADLOCK FALSE
