SPECIFICATION Spec
CONSTANTS
    Tabs = {t1}
    Clients = {c1}
    UndoLimit = 2
    MaxVersion = 5
    None = None
INVARIANTS
    LayoutsInv
    StacksFollowTheirTab
    UndosStayWithTheirTab
PROPERTIES
    LayoutsNeverGoBack
CHECK_DEADLOCK FALSE
