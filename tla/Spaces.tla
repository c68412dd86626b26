------------------------------- MODULE Spaces -------------------------------
(***************************************************************************)
(* Spaces, their members and what the members do with the records in them, *)
(* each operation as one step: what apps/api/src/workspaces/               *)
(* membership-store.ts promises of the Owners of a space and of a space    *)
(* that was deleted.  SpaceFences says how the transactions keep to it.    *)
(*                                                                         *)
(* Records are shared with one guest, who is in no space: a waiting share  *)
(* is one queued on the guest's request, a grant is the guest's.           *)
(***************************************************************************)
EXTENDS Integers, FiniteSets

CONSTANTS
    Users,
    SpaceIds,       \* ids of spaces, compared by the order of fences
    Records,
    ScopeOf,        \* a record's permission scope: itself, or an Event
    PersonalOwner,  \* whose Personal space it is, None for a shared space
    Roles,
    None

ASSUME SpaceIdsAreOrdered == SpaceIds \subseteq Nat
ASSUME ScopesAreTheirOwn ==
    ScopeOf \in [Records -> Records] /\ \A r \in Records : ScopeOf[ScopeOf[r]] = ScopeOf[r]
ASSUME PersonalOwnersAreUsers == PersonalOwner \in [SpaceIds -> Users \cup {None}]
ASSUME RolesAreNamed == Roles \subseteq {"owner", "editor", "viewer"} /\ "owner" \in Roles
ASSUME NoneIsNothing ==
    None \notin Users /\ None \notin SpaceIds /\ None \notin {"owner", "editor", "viewer"}

VARIABLES
    space,    \* workspaces: absent, live or deleted
    role,     \* workspace_members: the role of each user in each space, or None
    home,     \* objects.workspace_id, None before the record is created
    trashed,  \* objects.deleted_at
    waiting,  \* pending_shares: who queued the share that waits, or None
    shared    \* resource_grants: the records the guest holds a grant on

vars == <<space, role, home, trashed, waiting, shared>>

-----------------------------------------------------------------------------
Shared(s) == PersonalOwner[s] = None
Owner(u, s) == role[s][u] = "owner"
Edits(u, s) == role[s][u] \in {"owner", "editor"}

\* Mutant of HasAnotherOwner: any other member will do.
HasAnotherMember(s, u) == \E v \in Users \ {u} : role[s][v] # None

HasAnotherOwner(s, u) == \E v \in Users \ {u} : Owner(v, s)

\* A record is in Trash with its scope.
Live(r) == home[r] # None /\ ~ trashed[r] /\ ~ trashed[ScopeOf[r]]

\* recordCounts
LiveRecords(s) == {r \in Records : home[r] = s /\ Live(r)}

\* What a move carries: the Event and what is scoped to it.
Carried(r) == {x \in Records : ScopeOf[x] = r /\ home[x] = home[r]}

-----------------------------------------------------------------------------
\* What a signed-in user asks for; "in" is the space of the request.
Operations ==
    [do: {"add", "change"}, by: Users, in: SpaceIds, who: Users, role: Roles]
    \cup [do: {"remove"}, by: Users, in: SpaceIds, who: Users]
    \cup [do: {"leave", "delete"}, by: Users, in: SpaceIds]
    \cup [do: {"create", "trash", "recover", "share", "unshare", "queue", "revoke"},
          by: Users, in: SpaceIds, what: Records]
    \cup [do: {"move"}, by: Users, in: SpaceIds, what: Records, to: SpaceIds]

MayAdd(op) ==
    /\ Owner(op.by, op.in)
    /\ op.role = "owner" => Shared(op.in)
    /\ op.who # op.by

MayChange(op) ==
    /\ Owner(op.by, op.in)
    /\ role[op.in][op.who] # None
    /\ op.who # PersonalOwner[op.in]
    /\ op.role = "owner" => Shared(op.in)
    /\ Owner(op.who, op.in) /\ op.role # "owner" => HasAnotherOwner(op.in, op.who)

MayRemove(op) ==
    /\ Owner(op.by, op.in)
    /\ op.who # op.by /\ op.who # PersonalOwner[op.in]
    /\ role[op.in][op.who] # None

MayLeave(op) ==
    /\ role[op.in][op.by] # None
    /\ op.by # PersonalOwner[op.in]
    /\ Owner(op.by, op.in) => HasAnotherOwner(op.in, op.by)

MayDelete(op) ==
    /\ space[op.in] = "live"
    /\ Shared(op.in)
    /\ Owner(op.by, op.in)
    /\ LiveRecords(op.in) = {}

\* The trigger chronelle_guard_deleted_workspace: no live record is added.
MayCreate(op) ==
    /\ space[op.in] = "live"
    /\ home[op.what] = None
    /\ Edits(op.by, op.in)
    /\ ScopeOf[op.what] # op.what =>
         home[ScopeOf[op.what]] = op.in /\ Live(ScopeOf[op.what])

MayRecover(op) ==
    /\ space[op.in] = "live"
    /\ home[op.what] = op.in
    /\ Owner(op.by, op.in)
    /\ trashed[op.what]
    /\ ScopeOf[op.what] # op.what => ~ trashed[ScopeOf[op.what]]

\* assertMovable and assertTarget
MayMove(op) ==
    /\ home[op.what] = op.in
    /\ Owner(op.by, op.in)
    /\ ScopeOf[op.what] = op.what /\ ~ trashed[op.what]
    /\ op.to # op.in
    /\ Edits(op.by, op.to)

\* Trash, and the grants and waiting shares of a record, are its Owners'.
MayOwn(op) == home[op.what] = op.in /\ Live(op.what) /\ Owner(op.by, op.in)

May(op) ==
    CASE op.do = "add"     -> MayAdd(op)
      [] op.do = "change"  -> MayChange(op)
      [] op.do = "remove"  -> MayRemove(op)
      [] op.do = "leave"   -> MayLeave(op)
      [] op.do = "delete"  -> MayDelete(op)
      [] op.do = "create"  -> MayCreate(op)
      [] op.do = "recover" -> MayRecover(op)
      [] op.do = "move"    -> MayMove(op)
      [] OTHER             -> MayOwn(op)

-----------------------------------------------------------------------------
Members(op) ==
    /\ \/ op.do \in {"add", "change"} /\ role' = [role EXCEPT ![op.in][op.who] = op.role]
       \/ op.do = "remove" /\ role' = [role EXCEPT ![op.in][op.who] = None]
       \/ op.do = "leave" /\ role' = [role EXCEPT ![op.in][op.by] = None]
    /\ UNCHANGED <<space, home, trashed, waiting, shared>>

InSpace(s) == {r \in Records : home[r] = s}

\* Waiting shares are revoked, then grants removed, then members, in one
\* transaction that holds the rows of the shares.
Delete(op) ==
    /\ op.do = "delete"
    /\ space' = [space EXCEPT ![op.in] = "deleted"]
    /\ role' = [role EXCEPT ![op.in] = [u \in Users |-> None]]
    /\ waiting' = [r \in Records |-> IF r \in InSpace(op.in) THEN None ELSE waiting[r]]
    /\ shared' = shared \ InSpace(op.in)
    /\ UNCHANGED <<home, trashed>>

Place(op) ==
    /\ \/ op.do = "create" /\ home' = [home EXCEPT ![op.what] = op.in]
       \/ /\ op.do = "move"
          /\ home' = [r \in Records |-> IF r \in Carried(op.what) THEN op.to ELSE home[r]]
    /\ UNCHANGED <<space, role, trashed, waiting, shared>>

Discard(op) ==
    /\ op.do \in {"trash", "recover"}
    /\ trashed' = [trashed EXCEPT ![op.what] = op.do = "trash"]
    /\ UNCHANGED <<space, role, home, waiting, shared>>

Grant(op) ==
    /\ \/ op.do = "share" /\ shared' = shared \cup {op.what}
       \/ op.do = "unshare" /\ shared' = shared \ {op.what}
    /\ UNCHANGED <<space, role, home, trashed, waiting>>

Wait(op) ==
    /\ \/ op.do = "queue" /\ waiting' = [waiting EXCEPT ![op.what] = op.by]
       \/ op.do = "revoke" /\ waiting' = [waiting EXCEPT ![op.what] = None]
    /\ UNCHANGED <<space, role, home, trashed, shared>>

Do(op) == Members(op) \/ Delete(op) \/ Place(op) \/ Discard(op) \/ Grant(op) \/ Wait(op)

-----------------------------------------------------------------------------
\* create: a shared space with its first Owner; or signIn: the account's own.
Found(s, u) ==
    /\ space[s] = "absent"
    /\ PersonalOwner[s] \in {None, u}
    /\ space' = [space EXCEPT ![s] = "live"]
    /\ role' = [role EXCEPT ![s][u] = "owner"]
    /\ UNCHANGED <<home, trashed, waiting, shared>>

\* The guest's request is answered: the share that waits is granted or lapses.
Settle(r, granted) ==
    /\ waiting[r] # None
    /\ waiting' = [waiting EXCEPT ![r] = None]
    /\ shared' = IF granted THEN shared \cup {r} ELSE shared
    /\ UNCHANGED <<space, role, home, trashed>>

Init ==
    /\ space = [s \in SpaceIds |-> "absent"]
    /\ role = [s \in SpaceIds |-> [u \in Users |-> None]]
    /\ home = [r \in Records |-> None]
    /\ trashed = [r \in Records |-> FALSE]
    /\ waiting = [r \in Records |-> None]
    /\ shared = {}

Next ==
    \/ \E op \in Operations : May(op) /\ Do(op)
    \/ \E s \in SpaceIds, u \in Users : Found(s, u)
    \/ \E r \in Records, granted \in BOOLEAN : Settle(r, granted)

Spec == Init /\ [][Next]_vars

-----------------------------------------------------------------------------
(* What the members of a space can rely on.                                *)

\* Every variable has its type.
TypeOK ==
    /\ space \in [SpaceIds -> {"absent", "live", "deleted"}]
    /\ role \in [SpaceIds -> [Users -> Roles \cup {None}]]
    /\ home \in [Records -> SpaceIds \cup {None}]
    /\ trashed \in [Records -> BOOLEAN]
    /\ waiting \in [Records -> Users \cup {None}]
    /\ shared \subseteq Records

\* A record is in the space of its scope, and no record is of an absent space.
ScopesStayTogether ==
    \A r \in Records : home[r] # None =>
        home[ScopeOf[r]] = home[r] /\ space[home[r]] # "absent"

\* A live space keeps an Owner, and a Personal space keeps its own and no other:
\* whoever leaves, is removed, added again with another role, or demoted.
SpacesKeepAnOwner ==
    \A s \in SpaceIds : space[s] = "live" =>
        /\ \E u \in Users : Owner(u, s)
        /\ ~ Shared(s) => \A u \in Users : Owner(u, s) <=> u = PersonalOwner[s]

\* A deleted space lets nobody in and holds nothing live: no member, no share
\* that could still be granted, no grant, no record out of Trash, whatever was
\* created, recovered, moved, queued or answered around the deletion.
DeletedSpacesAreClosed ==
    \A s \in SpaceIds : space[s] = "deleted" =>
        /\ Shared(s)
        /\ \A u \in Users : role[s][u] = None
        /\ LiveRecords(s) = {}
        /\ \A r \in InSpace(s) : waiting[r] = None /\ r \notin shared
=============================================================================
