------------------------ MODULE MCReversibleCommands ------------------------
(* Instances of ReversibleCommands small enough for TLC.                    *)
EXTENDS ReversibleCommands, TLC

CONSTANTS alice, task, event, op1, op2, op3, c1, c2, k1

EventScope == {{event}}

Symmetry == Permutations({op1, op2, op3}) \cup Permutations({c1, c2})

\* Bound: the Task is what a user may lose the permission for.
EventIsEdited == \A u \in Users : <<u, event>> \in editors

EditedInit == Init /\ EventIsEdited

\* WholeCommands with a user who may always edit the Event.
WholeCommandsSpec == EditedInit /\ [][Next /\ ~ SplitsACommand /\ EventIsEdited']_vars
=============================================================================
