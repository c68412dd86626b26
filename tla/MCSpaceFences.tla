---------------------------- MODULE MCSpaceFences ----------------------------
(* An instance of SpaceFences: a Personal space and a shared one, two users, *)
(* an Event and a task scoped to it.                                         *)
EXTENDS SpaceFences, TLC

CONSTANTS u1, u2, event, task

MCScopeOf == event :> event @@ task :> event

\* Either user changes members, moves the Event and deletes the shared space;
\* the first does what else is done with records, and shares the Event there.
MCAsked ==
    {op \in Operations :
        /\ op.do \in {"change", "delete", "remove"} => op.in = 2
        /\ op.do = "move" => op.what = event /\ op.to # op.in
        /\ op.do \in {"create", "trash", "recover"} => op.by = u1
        /\ op.do \in {"share", "unshare", "queue", "revoke"} =>
             op.by = u1 /\ op.in = 2 /\ op.what = event}

MCPersonalOwner == 1 :> u1 @@ 2 :> None
=============================================================================
