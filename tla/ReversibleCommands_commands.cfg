SPECIFICATION WholeCommandsSpec
CONSTANTS
    alice = alice task = task event = event
    op1 = op1 op2 = op2 op3 = op3
    c1 = c1 c2 = c2 k1 = k1
    Users = {alice}
    Objects = {task, event}
    Ops = {op1, op2, op3}
    Contents = {c1, c2}
    Kept = {k1}
    Untracked = Untracked
    StackLimit = 2
    MaxEdits = 2
    MoveScopes <- EventScope
    MaxVersion = 4
INVARIANTS IInv StackBounded StackCoherent ExpectsWhatIsInReach ExpectsOwnWrites ReceiptsMatchLedger
PROPERTIES InverseReversesHead
SYMMETRY Symmetry
CHECK_DEADLOCK FALSE
