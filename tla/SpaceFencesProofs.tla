-------------------------- MODULE SpaceFencesProofs --------------------------
(* Proofs about Spaces, for every set of users, spaces and records, and     *)
(* about SpaceFences: under the fences, decisions stand and the             *)
(* transactions implement Spaces.                                           *)
EXTENDS SpaceFences, TLAPS

-----------------------------------------------------------------------------
(* What Spaces keeps.                                                       *)

\* A space that was not created has no members.
AbsentSpacesAreEmpty ==
    \A s \in SpaceIds : space[s] = "absent" => \A u \in Users : role[s][u] = None

SpacesInv ==
    /\ TypeOK
    /\ AbsentSpacesAreEmpty
    /\ ScopesStayTogether
    /\ SpacesKeepAnOwner
    /\ DeletedSpacesAreClosed

USE SpaceIdsAreOrdered, ScopesAreTheirOwn, PersonalOwnersAreUsers, RolesAreNamed, NoneIsNothing

-----------------------------------------------------------------------------
\* The fields of an operation have the types of its kind.
LEMMA OperationFields ==
    ASSUME NEW op \in Operations
    PROVE  /\ op.by \in Users /\ op.in \in SpaceIds
           /\ op.do \in {"add", "change"} => op.who \in Users /\ op.role \in Roles
           /\ op.do = "remove" => op.who \in Users
           /\ op.do \in {"create", "trash", "recover", "share", "unshare", "queue", "revoke", "move"} =>
                op.what \in Records
           /\ op.do = "move" => op.to \in SpaceIds
           /\ op.do \in {"add", "change", "remove", "leave", "delete", "create", "trash", "recover",
                         "share", "unshare", "queue", "revoke", "move"}
  BY DEF Operations

\* Whoever has a role in a space is in a live one.
LEMMA MembersAreInLiveSpaces ==
    ASSUME SpacesInv, NEW s \in SpaceIds, NEW u \in Users, role[s][u] # None
    PROVE  space[s] = "live"
  BY DEF SpacesInv, TypeOK, AbsentSpacesAreEmpty, DeletedSpacesAreClosed

\* What an operation may do is in live spaces.
LEMMA OperationsAreInLiveSpaces ==
    ASSUME SpacesInv, NEW op \in Operations, May(op)
    PROVE  /\ space[op.in] = "live"
           /\ op.do = "move" => space[op.to] = "live"
  <1>1. op.by \in Users /\ op.in \in SpaceIds /\ (op.do = "move" => op.to \in SpaceIds)
    BY OperationFields
  <1>2. role[op.in][op.by] # None
    <2>1. CASE op.do = "add"
      BY <2>1, <1>1 DEF May, MayAdd, Owner
    <2>2. CASE op.do = "change"
      BY <2>2, <1>1 DEF May, MayChange, Owner
    <2>3. CASE op.do = "remove"
      BY <2>3, <1>1 DEF May, MayRemove, Owner
    <2>4. CASE op.do = "leave"
      BY <2>4, <1>1 DEF May, MayLeave, Owner
    <2>5. CASE op.do = "delete"
      BY <2>5, <1>1 DEF May, MayDelete, Owner
    <2>6. CASE op.do = "create"
      BY <2>6, <1>1 DEF May, MayCreate, Edits
    <2>7. CASE op.do = "recover"
      BY <2>7, <1>1 DEF May, MayRecover, Owner
    <2>8. CASE op.do = "move"
      BY <2>8, <1>1 DEF May, MayMove, Owner
    <2>9. CASE op.do \in {"trash", "share", "unshare", "queue", "revoke"}
      BY <2>9, <1>1 DEF May, MayOwn, Owner
    <2> QED
      BY <2>1, <2>2, <2>3, <2>4, <2>5, <2>6, <2>7, <2>8, <2>9, OperationFields
  <1>3. op.do = "move" => role[op.to][op.by] # None
    BY <1>1 DEF May, MayMove, Edits
  <1> QED
    BY <1>1, <1>2, <1>3, MembersAreInLiveSpaces

\* While nobody's role, no record and no space changes, a step that leaves the
\* waiting shares and grants of deleted spaces empty keeps the invariant.
LEMMA SharingKeepsTheInvariant ==
    ASSUME SpacesInv,
           UNCHANGED <<space, role, home, trashed>>,
           waiting' \in [Records -> Users \cup {None}], shared' \subseteq Records,
           \A r \in Records : home[r] # None /\ space[home[r]] = "deleted" =>
               waiting'[r] = None /\ r \notin shared'
    PROVE  SpacesInv'
  <1>1. TypeOK' /\ AbsentSpacesAreEmpty' /\ ScopesStayTogether'
    BY DEF SpacesInv, TypeOK, AbsentSpacesAreEmpty, ScopesStayTogether
  <1>2. SpacesKeepAnOwner'
    BY DEF SpacesInv, SpacesKeepAnOwner, Owner, Shared
  <1>3. DeletedSpacesAreClosed'
    <2> SUFFICES ASSUME NEW s \in SpaceIds, space[s] = "deleted"
                 PROVE  /\ Shared(s)'
                        /\ \A u \in Users : (role[s][u] = None)'
                        /\ (LiveRecords(s) = {})'
                        /\ \A r \in InSpace(s)' : (waiting[r] = None /\ r \notin shared)'
      BY DEF DeletedSpacesAreClosed
    <2>1. /\ Shared(s) /\ \A u \in Users : role[s][u] = None
          /\ LiveRecords(s) = {}
      BY DEF SpacesInv, DeletedSpacesAreClosed
    <2>2. LiveRecords(s)' = LiveRecords(s) /\ InSpace(s)' = InSpace(s)
      BY DEF LiveRecords, Live, InSpace
    <2>3. \A r \in InSpace(s) : waiting'[r] = None /\ r \notin shared'
      BY DEF InSpace
    <2> QED
      BY <2>1, <2>2, <2>3 DEF Shared
  <1> QED
    BY <1>1, <1>2, <1>3 DEF SpacesInv

\* Changes of members: whoever loses the role of Owner leaves another behind.
LEMMA MembersKeepTheInvariant ==
    ASSUME SpacesInv, NEW op \in Operations, May(op), Members(op)
    PROVE  SpacesInv'
  <1> DEFINE s == op.in
  <1>1. /\ op.by \in Users /\ s \in SpaceIds /\ space[s] = "live"
        /\ op.do \in {"add", "change"} => op.who \in Users /\ op.role \in Roles
        /\ op.do = "remove" => op.who \in Users
    BY OperationFields, OperationsAreInLiveSpaces
  <1>2. UNCHANGED <<space, home, trashed, waiting, shared>>
    BY DEF Members
  <1>3. /\ role' \in [SpaceIds -> [Users -> Roles \cup {None}]]
        /\ \A x \in SpaceIds \ {s} : role'[x] = role[x]
    BY <1>1 DEF SpacesInv, TypeOK, Members
  <1>4. TypeOK' /\ AbsentSpacesAreEmpty' /\ ScopesStayTogether'
    BY <1>1, <1>2, <1>3 DEF SpacesInv, TypeOK, AbsentSpacesAreEmpty, ScopesStayTogether
  <1>5. DeletedSpacesAreClosed'
    <2>1. \A x \in SpaceIds : LiveRecords(x)' = LiveRecords(x) /\ InSpace(x)' = InSpace(x)
      BY <1>2 DEF LiveRecords, Live, InSpace
    <2>2. \A x \in SpaceIds : space[x] = "deleted" => x # s
      BY <1>1
    <2> QED
      BY <1>2, <1>3, <2>1, <2>2 DEF SpacesInv, DeletedSpacesAreClosed, Shared
  <1>6. role \in [SpaceIds -> [Users -> Roles \cup {None}]]
    BY DEF SpacesInv, TypeOK
  <1>7. /\ \E u \in Users : Owner(u, s)'
        /\ ~ Shared(s) => \A u \in Users : Owner(u, s)' <=> u = PersonalOwner[s]
    <2>1. /\ \E u \in Users : Owner(u, s)
          /\ ~ Shared(s) => \A u \in Users : Owner(u, s) <=> u = PersonalOwner[s]
      BY <1>1 DEF SpacesInv, SpacesKeepAnOwner
    <2>2. CASE op.do = "add"
      <3>1. Owner(op.by, s) /\ (op.role = "owner" => Shared(s)) /\ op.who # op.by
        BY <2>2 DEF May, MayAdd
      <3>2. \A u \in Users : role'[s][u] = IF u = op.who THEN op.role ELSE role[s][u]
        <4>1. role' = [role EXCEPT ![s][op.who] = op.role]
          BY <2>2 DEF Members
        <4> QED
          BY <1>1, <2>2, <4>1, <1>6
      <3> QED
        BY <1>1, <2>1, <3>1, <3>2 DEF Owner
    <2>3. CASE op.do = "change"
      <3>1. /\ op.who # PersonalOwner[s]
            /\ op.role = "owner" => Shared(s)
            /\ Owner(op.who, s) /\ op.role # "owner" => HasAnotherOwner(s, op.who)
        BY <2>3 DEF May, MayChange
      <3>2. \A u \in Users : role'[s][u] = IF u = op.who THEN op.role ELSE role[s][u]
        <4>1. role' = [role EXCEPT ![s][op.who] = op.role]
          BY <2>3 DEF Members
        <4> QED
          BY <1>1, <2>3, <4>1, <1>6
      <3> QED
        BY <1>1, <2>1, <2>3, <3>1, <3>2 DEF Owner, HasAnotherOwner
    <2>4. CASE op.do = "remove"
      <3>1. Owner(op.by, s) /\ op.who # op.by /\ op.who # PersonalOwner[s]
        BY <2>4 DEF May, MayRemove
      <3>2. \A u \in Users : role'[s][u] = IF u = op.who THEN None ELSE role[s][u]
        <4>1. role' = [role EXCEPT ![s][op.who] = None]
          BY <2>4 DEF Members
        <4> QED
          BY <1>1, <2>4, <4>1, <1>6
      <3> QED
        BY <1>1, <2>1, <2>4, <3>1, <3>2 DEF Owner
    <2>5. CASE op.do = "leave"
      <3>1. /\ op.by # PersonalOwner[s]
            /\ Owner(op.by, s) => HasAnotherOwner(s, op.by)
        BY <2>5 DEF May, MayLeave
      <3>2. \A u \in Users : role'[s][u] = IF u = op.by THEN None ELSE role[s][u]
        <4>1. role' = [role EXCEPT ![s][op.by] = None]
          BY <2>5 DEF Members
        <4> QED
          BY <1>1, <2>5, <4>1, <1>6
      <3> QED
        BY <1>1, <2>1, <3>1, <3>2 DEF Owner, HasAnotherOwner
    <2> QED
      BY <2>2, <2>3, <2>4, <2>5 DEF Members
  <1>8. SpacesKeepAnOwner'
    BY <1>1, <1>2, <1>3, <1>7 DEF SpacesInv, SpacesKeepAnOwner, Owner, Shared
  <1> QED
    BY <1>4, <1>5, <1>8 DEF SpacesInv

\* A deletion closes a space without live records.
LEMMA DeleteKeepsTheInvariant ==
    ASSUME SpacesInv, NEW op \in Operations, May(op), Delete(op)
    PROVE  SpacesInv'
  <1> DEFINE s == op.in
  <1>1. s \in SpaceIds /\ Shared(s) /\ LiveRecords(s) = {}
    BY OperationFields DEF Delete, May, MayDelete
  <1>2. UNCHANGED <<home, trashed>>
    BY DEF Delete
  <1>3. /\ space' = [space EXCEPT ![s] = "deleted"]
        /\ role' = [role EXCEPT ![s] = [u \in Users |-> None]]
        /\ \A r \in Records : waiting'[r] = IF r \in InSpace(s) THEN None ELSE waiting[r]
        /\ shared' = shared \ InSpace(s)
    BY DEF Delete
  <1>4. TypeOK'
    BY <1>1, <1>2 DEF SpacesInv, TypeOK, Delete
  <1>5. AbsentSpacesAreEmpty' /\ ScopesStayTogether'
    BY <1>1, <1>2, <1>3 DEF SpacesInv, TypeOK, AbsentSpacesAreEmpty, ScopesStayTogether
  <1>6. SpacesKeepAnOwner'
    BY <1>1, <1>3 DEF SpacesInv, TypeOK, SpacesKeepAnOwner, Owner, Shared
  <1>7. DeletedSpacesAreClosed'
    <2>1. \A x \in SpaceIds : LiveRecords(x)' = LiveRecords(x) /\ InSpace(x)' = InSpace(x)
      BY <1>2 DEF LiveRecords, Live, InSpace
    <2>2. \A x \in SpaceIds \ {s} : space'[x] = space[x] /\ role'[x] = role[x]
      BY <1>1, <1>3 DEF SpacesInv, TypeOK
    <2>3. \A u \in Users : role'[s][u] = None
      BY <1>1, <1>3 DEF SpacesInv, TypeOK
    <2>4. \A x \in SpaceIds : InSpace(x) \subseteq Records
      BY DEF InSpace
    <2> QED
      BY <1>1, <1>3, <2>1, <2>2, <2>3, <2>4 DEF SpacesInv, DeletedSpacesAreClosed, Shared
  <1> QED
    BY <1>4, <1>5, <1>6, <1>7 DEF SpacesInv

\* A record that is created or moved goes to a live space.
LEMMA PlaceKeepsTheInvariant ==
    ASSUME SpacesInv, NEW op \in Operations, May(op), Place(op)
    PROVE  SpacesInv'
  <1>1. /\ op.in \in SpaceIds /\ op.what \in Records /\ space[op.in] = "live"
        /\ op.do = "move" => op.to \in SpaceIds /\ space[op.to] = "live"
    BY OperationFields, OperationsAreInLiveSpaces DEF Place
  <1>2. UNCHANGED <<space, role, trashed, waiting, shared>>
    BY DEF Place
  <1>3. home' \in [Records -> SpaceIds \cup {None}]
    BY <1>1 DEF SpacesInv, TypeOK, Place
  <1>4. TypeOK' /\ AbsentSpacesAreEmpty'
    BY <1>2, <1>3 DEF SpacesInv, TypeOK, AbsentSpacesAreEmpty
  <1>5. SpacesKeepAnOwner'
    BY <1>2 DEF SpacesInv, SpacesKeepAnOwner, Owner, Shared
  <1>6. \A r \in Records : home[r] # None => home[ScopeOf[r]] = home[r] /\ space[home[r]] # "absent"
    BY DEF SpacesInv, ScopesStayTogether
  <1>7. /\ \A r \in Records : home'[r] # home[r] => home'[r] # None /\ space[home'[r]] = "live"
        /\ \A r \in Records : home'[r] # None => home'[ScopeOf[r]] = home'[r]
        /\ \A r \in Records : home'[r] # home[r] /\ home[r] # None => space[home[r]] = "live"
    <2>1. CASE op.do = "create"
      <3>1. /\ home' = [home EXCEPT ![op.what] = op.in] /\ home[op.what] = None
            /\ ScopeOf[op.what] # op.what => home[ScopeOf[op.what]] = op.in
        BY <2>1 DEF Place, May, MayCreate
      <3> QED
        BY <1>1, <1>6, <3>1 DEF SpacesInv, TypeOK
    <2>2. CASE op.do = "move"
      <3>1. /\ home' = [r \in Records |-> IF r \in Carried(op.what) THEN op.to ELSE home[r]]
            /\ home[op.what] = op.in /\ ScopeOf[op.what] = op.what
        BY <2>2 DEF Place, May, MayMove
      <3>2. \A r \in Records : r \in Carried(op.what) <=> ScopeOf[r] = op.what /\ home[r] = op.in
        BY <3>1 DEF Carried
      <3> QED
        BY <1>1, <1>6, <2>2, <3>1, <3>2 DEF SpacesInv, TypeOK
    <2> QED
      BY <2>1, <2>2 DEF Place
  <1>8. ScopesStayTogether'
    BY <1>2, <1>6, <1>7 DEF ScopesStayTogether
  <1>9. DeletedSpacesAreClosed'
    <2> SUFFICES ASSUME NEW s \in SpaceIds, space[s] = "deleted"
                 PROVE  /\ Shared(s)'
                        /\ \A u \in Users : (role[s][u] = None)'
                        /\ (LiveRecords(s) = {})'
                        /\ \A r \in InSpace(s)' : (waiting[r] = None /\ r \notin shared)'
      BY <1>2 DEF DeletedSpacesAreClosed
    <2>1. /\ Shared(s) /\ \A u \in Users : role[s][u] = None
          /\ LiveRecords(s) = {} /\ \A r \in InSpace(s) : waiting[r] = None /\ r \notin shared
      BY DEF SpacesInv, DeletedSpacesAreClosed
    <2>2. \A r \in Records : home'[r] = s <=> home[r] = s
      BY <1>7
    <2>3. InSpace(s)' = InSpace(s) /\ LiveRecords(s)' \subseteq LiveRecords(s)
      BY <1>2, <2>2 DEF InSpace, LiveRecords, Live
    <2> QED
      BY <1>2, <2>1, <2>3 DEF Shared
  <1> QED
    BY <1>4, <1>5, <1>8, <1>9 DEF SpacesInv

\* A record leaves Trash only in a live space, and so does what is scoped to it.
LEMMA DiscardKeepsTheInvariant ==
    ASSUME SpacesInv, NEW op \in Operations, May(op), Discard(op)
    PROVE  SpacesInv'
  <1>1. op.in \in SpaceIds /\ op.what \in Records /\ space[op.in] = "live"
    BY OperationFields, OperationsAreInLiveSpaces DEF Discard
  <1>2. home[op.what] = op.in
    BY DEF Discard, May, MayOwn, MayRecover
  <1>3. UNCHANGED <<space, role, home, waiting, shared>>
    BY DEF Discard
  <1>4. /\ trashed' \in [Records -> BOOLEAN]
        /\ \A r \in Records \ {op.what} : trashed'[r] = trashed[r]
    BY <1>1 DEF SpacesInv, TypeOK, Discard
  <1>5. TypeOK' /\ AbsentSpacesAreEmpty' /\ ScopesStayTogether'
    BY <1>3, <1>4 DEF SpacesInv, TypeOK, AbsentSpacesAreEmpty, ScopesStayTogether
  <1>6. SpacesKeepAnOwner'
    BY <1>3 DEF SpacesInv, SpacesKeepAnOwner, Owner, Shared
  <1>7. DeletedSpacesAreClosed'
    <2> SUFFICES ASSUME NEW s \in SpaceIds, space[s] = "deleted"
                 PROVE  /\ Shared(s)'
                        /\ \A u \in Users : (role[s][u] = None)'
                        /\ (LiveRecords(s) = {})'
                        /\ \A r \in InSpace(s)' : (waiting[r] = None /\ r \notin shared)'
      BY <1>3 DEF DeletedSpacesAreClosed
    <2>1. /\ Shared(s) /\ \A u \in Users : role[s][u] = None
          /\ LiveRecords(s) = {} /\ \A r \in InSpace(s) : waiting[r] = None /\ r \notin shared
      BY DEF SpacesInv, DeletedSpacesAreClosed
    <2>2. \A r \in Records : home[r] = s => r # op.what /\ ScopeOf[r] # op.what
      BY <1>1, <1>2 DEF SpacesInv, TypeOK, ScopesStayTogether
    <2>3. InSpace(s)' = InSpace(s) /\ LiveRecords(s)' = LiveRecords(s)
      BY <1>3, <1>4, <2>2 DEF InSpace, LiveRecords, Live
    <2> QED
      BY <1>3, <2>1, <2>3 DEF Shared
  <1> QED
    BY <1>5, <1>6, <1>7 DEF SpacesInv

\* A share, or one that waits, is of a record of a live space.
LEMMA SharesKeepTheInvariant ==
    ASSUME SpacesInv, NEW op \in Operations, May(op), Grant(op) \/ Wait(op)
    PROVE  SpacesInv'
  <1>1. /\ op.by \in Users /\ op.in \in SpaceIds /\ op.what \in Records
        /\ space[op.in] = "live"
    BY OperationFields, OperationsAreInLiveSpaces DEF Grant, Wait
  <1>2. home[op.what] = op.in
    BY DEF Grant, Wait, May, MayOwn
  <1>3. UNCHANGED <<space, role, home, trashed>>
    BY DEF Grant, Wait
  <1>4. /\ waiting' \in [Records -> Users \cup {None}] /\ shared' \subseteq Records
        /\ \A r \in Records \ {op.what} :
             waiting'[r] = waiting[r] /\ (r \in shared' <=> r \in shared)
    BY <1>1 DEF SpacesInv, TypeOK, Grant, Wait
  <1>5. \A r \in Records : home[r] # None /\ space[home[r]] = "deleted" =>
            waiting[r] = None /\ r \notin shared
    BY DEF SpacesInv, TypeOK, DeletedSpacesAreClosed, InSpace
  <1>6. \A r \in Records : home[r] # None /\ space[home[r]] = "deleted" => r # op.what
    BY <1>1, <1>2
  <1> QED
    BY <1>3, <1>4, <1>5, <1>6, SharingKeepsTheInvariant

-----------------------------------------------------------------------------
\* Every operation that is allowed keeps the invariant.
LEMMA OperationsKeepTheInvariant ==
    ASSUME SpacesInv, NEW op \in Operations, May(op), Do(op)
    PROVE  SpacesInv'
  BY MembersKeepTheInvariant, DeleteKeepsTheInvariant, PlaceKeepsTheInvariant,
     DiscardKeepsTheInvariant, SharesKeepTheInvariant DEF Do

\* A new space has its founder as its only member, and as its Owner.
LEMMA FoundingKeepsTheInvariant ==
    ASSUME SpacesInv, NEW s \in SpaceIds, NEW u \in Users, Found(s, u)
    PROVE  SpacesInv'
  <1>1. /\ space[s] = "absent" /\ PersonalOwner[s] \in {None, u}
        /\ space' = [space EXCEPT ![s] = "live"] /\ role' = [role EXCEPT ![s][u] = "owner"]
        /\ UNCHANGED <<home, trashed, waiting, shared>>
    BY DEF Found
  <1>2. \A v \in Users : role[s][v] = None
    BY <1>1 DEF SpacesInv, AbsentSpacesAreEmpty
  <1>3. /\ space' \in [SpaceIds -> {"absent", "live", "deleted"}]
        /\ role' \in [SpaceIds -> [Users -> Roles \cup {None}]]
        /\ \A x \in SpaceIds \ {s} : space'[x] = space[x] /\ role'[x] = role[x]
        /\ space'[s] = "live"
        /\ \A v \in Users : role'[s][v] = IF v = u THEN "owner" ELSE None
    BY <1>1, <1>2 DEF SpacesInv, TypeOK
  <1>4. TypeOK' /\ AbsentSpacesAreEmpty' /\ ScopesStayTogether'
    BY <1>1, <1>3 DEF SpacesInv, TypeOK, AbsentSpacesAreEmpty, ScopesStayTogether
  <1>5. SpacesKeepAnOwner'
    <2>1. None # "owner"
      OBVIOUS
    <2> QED
      BY <1>1, <1>3, <2>1 DEF SpacesInv, SpacesKeepAnOwner, Owner, Shared
  <1>6. DeletedSpacesAreClosed'
    <2>1. \A x \in SpaceIds : LiveRecords(x)' = LiveRecords(x) /\ InSpace(x)' = InSpace(x)
      BY <1>1 DEF LiveRecords, Live, InSpace
    <2> QED
      BY <1>1, <1>3, <2>1 DEF SpacesInv, DeletedSpacesAreClosed, Shared
  <1> QED
    BY <1>4, <1>5, <1>6 DEF SpacesInv

\* An answer settles a share that waits, which none does in a deleted space.
LEMMA SettlingKeepsTheInvariant ==
    ASSUME SpacesInv, NEW r \in Records, NEW granted \in BOOLEAN, Settle(r, granted)
    PROVE  SpacesInv'
  <1>1. UNCHANGED <<space, role, home, trashed>> /\ waiting[r] # None
    BY DEF Settle
  <1>2. /\ waiting' \in [Records -> Users \cup {None}] /\ shared' \subseteq Records
        /\ \A x \in Records \ {r} : waiting'[x] = waiting[x] /\ (x \in shared' <=> x \in shared)
    BY DEF SpacesInv, TypeOK, Settle
  <1>3. \A x \in Records : home[x] # None /\ space[home[x]] = "deleted" =>
            waiting[x] = None /\ x \notin shared
    BY DEF SpacesInv, TypeOK, DeletedSpacesAreClosed, InSpace
  <1> QED
    BY <1>1, <1>2, <1>3, SharingKeepsTheInvariant

-----------------------------------------------------------------------------
\* The invariant holds in every behaviour: no operation, sign-in, new space or
\* answer breaks it.
THEOREM SpacesKeepTheirInvariant == Spec => []SpacesInv
  <1>1. Init => SpacesInv
    <2> SUFFICES ASSUME Init PROVE SpacesInv
      OBVIOUS
    <2>1. TypeOK /\ AbsentSpacesAreEmpty /\ ScopesStayTogether
      BY DEF Init, TypeOK, AbsentSpacesAreEmpty, ScopesStayTogether
    <2>2. SpacesKeepAnOwner /\ DeletedSpacesAreClosed
      BY DEF Init, SpacesKeepAnOwner, DeletedSpacesAreClosed
    <2> QED
      BY <2>1, <2>2 DEF SpacesInv
  <1>2. SpacesInv /\ [Next]_vars => SpacesInv'
    <2>1. ASSUME SpacesInv, Next PROVE SpacesInv'
      BY <2>1, OperationsKeepTheInvariant, FoundingKeepsTheInvariant,
         SettlingKeepsTheInvariant DEF Next
    <2>2. ASSUME SpacesInv, UNCHANGED vars PROVE SpacesInv'
      <3>1. /\ UNCHANGED <<space, role, home, trashed>>
            /\ waiting' \in [Records -> Users \cup {None}] /\ shared' \subseteq Records
            /\ \A x \in Records : home[x] # None /\ space[home[x]] = "deleted" =>
                 waiting'[x] = None /\ x \notin shared'
        BY <2>2 DEF vars, SpacesInv, TypeOK, DeletedSpacesAreClosed, InSpace
      <3> QED
        BY <2>2, <3>1, SharingKeepsTheInvariant
    <2> QED
      BY <2>1, <2>2
  <1> QED
    BY <1>1, <1>2, PTL DEF Spec

\* A live space keeps an Owner and a Personal space its own: leave, remove,
\* changeRole and add of membership-store.ts, for any number of members.
THEOREM OwnersAreKept == Spec => []SpacesKeepAnOwner
  BY SpacesKeepTheirInvariant, PTL DEF SpacesInv

\* Nothing gets into a deleted space: delete of membership-store.ts, against
\* every operation of Spaces.
THEOREM DeletionIsFinal == Spec => []DeletedSpacesAreClosed
  BY SpacesKeepTheirInvariant, PTL DEF SpacesInv

-----------------------------------------------------------------------------
(* What the fences keep.                                                    *)

USE AskedAreOperations

\* A step that writes nothing outside the spaces F and the records in them.
StaysIn(F) ==
    /\ \A s \in SpaceIds \ F : space'[s] = space[s] /\ role'[s] = role[s]
    /\ \A r \in Records : home[r] # None /\ home[r] \notin F =>
          home'[r] = home[r] /\ trashed'[r] = trashed[r]
    /\ \A r \in Records : home'[r] # home[r] => home'[r] \in F

-----------------------------------------------------------------------------
\* An allowed operation writes only in the spaces whose fences it takes.
LEMMA OperationsStayInTheirFences ==
    ASSUME SpacesInv, NEW op \in Operations, May(op), Do(op)
    PROVE  StaysIn(Fences(op))
  <1>1. op.in \in Fences(op) /\ (op.do = "move" => op.to \in Fences(op))
    BY DEF Fences
  <1>2. op.in \in SpaceIds
    BY OperationFields
  <1>3. CASE Members(op)
    BY <1>1, <1>2, <1>3 DEF Members, StaysIn, SpacesInv, TypeOK
  <1>4. CASE Delete(op)
    BY <1>1, <1>2, <1>4 DEF Delete, StaysIn, SpacesInv, TypeOK
  <1>5. CASE Place(op)
    <2>1. UNCHANGED <<space, role, trashed>>
      BY <1>5 DEF Place
    <2>2. CASE op.do = "create"
      <3>1. home' = [home EXCEPT ![op.what] = op.in] /\ home[op.what] = None
        BY <1>5, <2>2 DEF Place, May, MayCreate
      <3>2. \A r \in Records : home'[r] = IF r = op.what THEN op.in ELSE home[r]
        BY <3>1 DEF SpacesInv, TypeOK
      <3> QED
        BY <1>1, <2>1, <3>1, <3>2 DEF StaysIn
    <2>3. CASE op.do = "move"
      <3>1. /\ home' = [r \in Records |-> IF r \in Carried(op.what) THEN op.to ELSE home[r]]
            /\ home[op.what] = op.in
        BY <1>5, <2>3 DEF Place, May, MayMove
      <3> QED
        BY <1>1, <2>1, <2>3, <3>1 DEF StaysIn, Carried
    <2> QED
      BY <1>5, <2>2, <2>3 DEF Place
  <1>6. CASE Discard(op)
    <2>1. home[op.what] = op.in
      BY <1>6 DEF Discard, May, MayOwn, MayRecover
    <2> QED
      BY <1>1, <1>6, <2>1 DEF Discard, StaysIn, SpacesInv, TypeOK
  <1>7. CASE Grant(op) \/ Wait(op)
    BY <1>7 DEF Grant, Wait, StaysIn
  <1> QED
    BY <1>3, <1>4, <1>5, <1>6, <1>7 DEF Do

\* What an operation may do is decided by the spaces whose fences it takes, and
\* for a creation by the id of the record being free.
LEMMA DecisionsAreMadeInTheirFences ==
    ASSUME SpacesInv, NEW op \in Operations, May(op),
           NEW F, StaysIn(F), F \cap Fences(op) = {},
           op.do = "create" => home'[op.what] = None
    PROVE  May(op)'
  <1>1. op.in \in SpaceIds \ F /\ (op.do = "move" => op.to \in SpaceIds \ F)
    BY OperationFields DEF Fences
  <1>2. /\ space'[op.in] = space[op.in] /\ role'[op.in] = role[op.in]
        /\ op.do = "move" => role'[op.to] = role[op.to]
    BY <1>1 DEF StaysIn
  <1>3. \A r \in Records : home[r] = op.in =>
            /\ home'[r] = op.in /\ trashed'[r] = trashed[r]
            /\ home[ScopeOf[r]] = op.in /\ home'[ScopeOf[r]] = op.in
            /\ trashed'[ScopeOf[r]] = trashed[ScopeOf[r]]
    BY <1>1 DEF StaysIn, SpacesInv, ScopesStayTogether
  <1>4. \A r \in Records : home'[r] = op.in <=> home[r] = op.in
    BY <1>1, <1>3 DEF StaysIn
  <1>5. \A r \in Records : home[r] = op.in => (Live(r)' <=> Live(r))
    BY <1>1, <1>3 DEF Live
  <1>6. LiveRecords(op.in)' = LiveRecords(op.in)
    BY <1>4, <1>5 DEF LiveRecords
  <1>7. /\ \A u : Owner(u, op.in)' <=> Owner(u, op.in)
        /\ \A u : Edits(u, op.in)' <=> Edits(u, op.in)
        /\ op.do = "move" => \A u : Edits(u, op.to)' <=> Edits(u, op.to)
    BY <1>2 DEF Owner, Edits
  <1>8. \A u : HasAnotherOwner(op.in, u)' <=> HasAnotherOwner(op.in, u)
    BY <1>7 DEF HasAnotherOwner
  <1>9. CASE op.do \in {"add", "change", "remove", "leave"}
    <2>1. op.do \in {"add", "change", "remove"} => op.who \in Users
      BY OperationFields
    <2> QED
      BY <1>2, <1>7, <1>8, <1>9
      DEF May, MayAdd, MayChange, MayRemove, MayLeave, Shared
  <1>10. CASE op.do = "delete"
    BY <1>2, <1>6, <1>7, <1>10 DEF May, MayDelete, Shared
  <1>11. CASE op.do = "create"
    <2>1. op.what \in Records
      BY <1>11, OperationFields
    <2>2. MayCreate(op)
      BY <1>11 DEF May
    <2>3. MayCreate(op)'
      BY <1>2, <1>3, <1>5, <1>7, <1>11, <2>1, <2>2 DEF MayCreate
    <2> QED
      BY <1>11, <2>3 DEF May
  <1>12. CASE op.do = "recover"
    <2>1. op.what \in Records /\ MayRecover(op)
      BY <1>12, OperationFields DEF May
    <2>2. MayRecover(op)'
      BY <1>2, <1>3, <1>7, <2>1 DEF MayRecover
    <2> QED
      BY <1>12, <2>2 DEF May
  <1>13. CASE op.do = "move"
    <2>1. op.what \in Records /\ MayMove(op)
      BY <1>13, OperationFields DEF May
    <2>2. MayMove(op)'
      BY <1>2, <1>3, <1>7, <1>13, <2>1 DEF MayMove
    <2> QED
      BY <1>13, <2>2 DEF May
  <1>14. CASE op.do \in {"trash", "share", "unshare", "queue", "revoke"}
    <2>1. op.what \in Records /\ MayOwn(op)
      BY <1>14, OperationFields DEF May
    <2>2. MayOwn(op)'
      BY <1>3, <1>5, <1>7, <2>1 DEF MayOwn
    <2> QED
      BY <1>14, <2>2 DEF May
  <1> QED
    BY <1>9, <1>10, <1>11, <1>12, <1>13, <1>14, OperationFields

-----------------------------------------------------------------------------
\* The next fence is one the operation needs and the transaction does not hold.
LEMMA NextFenceIsMissing ==
    ASSUME NEW op \in Operations, NEW held \in SUBSET Fences(op), held # Fences(op)
    PROVE  NextFence(op, held) \in Fences(op) \ held
  <1>1. Fences(op) \subseteq Nat
    BY OperationFields DEF Fences
  <1>2. \E s \in Fences(op) \ held : \A other \in Fences(op) \ held : s <= other
    <2>1. CASE op.do # "move"
      BY <1>1, <2>1 DEF Fences
    <2>2. CASE op.do = "move"
      <3>1. Fences(op) = {op.in, op.to}
        BY <2>2 DEF Fences
      <3>2. op.in \in Nat /\ op.to \in Nat
        BY <1>1, <3>1
      <3>3. CASE op.in <= op.to /\ op.in \notin held
        BY <3>1, <3>2, <3>3
      <3>4. CASE op.in <= op.to /\ op.in \in held
        BY <3>1, <3>2, <3>4
      <3>5. CASE ~ (op.in <= op.to) /\ op.to \notin held
        BY <3>1, <3>2, <3>5
      <3>6. CASE ~ (op.in <= op.to) /\ op.to \in held
        BY <3>1, <3>2, <3>6
      <3> QED
        BY <3>3, <3>4, <3>5, <3>6
    <2> QED
      BY <2>1, <2>2
  <1> QED
    BY <1>2 DEF NextFence

\* The whole invariant, with that of the spaces.
FencesInv == SpacesInv /\ FencedInv

\* What a session's open transaction is.
LEMMA OpenTransactions ==
    ASSUME FencesInv, NEW t \in Sessions, doing[t] # Idle
    PROVE  /\ doing[t].op \in Asked /\ doing[t].op \in Operations
           /\ doing[t].held \subseteq Fences(doing[t].op)
           /\ doing[t].stage \in {"fencing", "decided"}
           /\ doing[t] = [op |-> doing[t].op, held |-> doing[t].held, stage |-> doing[t].stage]
           /\ doing[t].stage = "decided" <=> doing[t].held = Fences(doing[t].op)
  BY DEF FencesInv, FencedInv, FencedTypeOK, FencesExclude, Transactions, Idle

\* A step of the spaces that stays out of every other session's fences leaves
\* what those sessions decided as it was.
LEMMA OthersDecisionsStand ==
    ASSUME FencesInv, NEW t \in Sessions, NEW F, StaysIn(F),
           doing[t].stage = "decided", doing'[t] = doing[t],
           F \cap Fences(doing[t].op) = {},
           doing[t].op.do = "create" => home'[doing[t].op.what] = None
    PROVE  May(doing[t].op)'
  <1>1. doing[t] # Idle /\ doing[t].op \in Operations
    <2>1. doing[t] # Idle
      BY DEF Idle
    <2> QED
      BY <2>1, OpenTransactions
  <1>2. PICK o \in Operations : o = doing[t].op
    BY <1>1
  <1>3. May(o)
    BY <1>2 DEF FencesInv, FencedInv, DecisionsStand
  <1>4. May(o)'
    BY <1>2, <1>3, DecisionsAreMadeInTheirFences DEF FencesInv
  <1> QED
    BY <1>2, <1>4

-----------------------------------------------------------------------------
\* What the steps that leave the spaces alone keep.
LEMMA SpacesAlone ==
    ASSUME FencesInv, UNCHANGED <<space, role, home, trashed, waiting, shared>>
    PROVE  /\ SpacesInv' /\ TypeOK' /\ ScopesStayTogether'
           /\ StaysIn({})
           /\ \A op \in Operations : May(op)' <=> May(op)
  <1>1. UNCHANGED vars
    BY DEF vars
  <1>2. SpacesInv' /\ TypeOK' /\ ScopesStayTogether'
    <2>1. \A x \in Records : home[x] # None /\ space[home[x]] = "deleted" =>
                 waiting'[x] = None /\ x \notin shared'
      BY DEF FencesInv, SpacesInv, TypeOK, DeletedSpacesAreClosed, InSpace
    <2>2. waiting' \in [Records -> Users \cup {None}] /\ shared' \subseteq Records
      BY DEF FencesInv, SpacesInv, TypeOK
    <2>3. SpacesInv'
      BY <2>1, <2>2, SharingKeepsTheInvariant DEF FencesInv
    <2> QED
      BY <2>3 DEF SpacesInv
  <1>3. StaysIn({})
    BY DEF StaysIn
  <1>4. ASSUME NEW op \in Operations PROVE May(op)' <=> May(op)
    BY DEF May, MayAdd, MayChange, MayRemove, MayLeave, MayDelete, MayCreate, MayRecover,
           MayMove, MayOwn, Owner, Edits, HasAnotherOwner, LiveRecords, Live, Shared
  <1> QED
    BY <1>2, <1>3, <1>4

\* A step that changes one session and nothing else keeps the invariant when
\* the transaction it leaves open keeps its part.
LEMMA SessionKeepsTheInvariant ==
    ASSUME FencesInv, NEW t \in Sessions,
           UNCHANGED <<space, role, home, trashed, waiting, shared, answer>>,
           NEW new \in Transactions, doing' = [doing EXCEPT ![t] = new],
           new # Idle =>
               /\ new.held \subseteq Fences(new.op)
               /\ \A s \in Fences(new.op) : space[s] # "absent"
               /\ new.stage = "decided" <=> new.held = Fences(new.op)
               /\ \A o \in Sessions \ {t} : Held(o) \cap new.held = {}
               /\ \A o \in Sessions \ {t} : new.op.do = "create" /\ doing[o] # Idle =>
                     ~ (doing[o].op.do = "create" /\ doing[o].op.what = new.op.what)
               /\ new.stage = "decided" => May(new.op)
    PROVE  FencesInv'
  <1>1. /\ doing \in [Sessions -> Transactions]
        /\ doing' \in [Sessions -> Transactions]
        /\ doing'[t] = new /\ \A o \in Sessions \ {t} : doing'[o] = doing[o]
    BY DEF FencesInv, FencedInv, FencedTypeOK
  <1>2. SpacesInv' /\ TypeOK' /\ ScopesStayTogether'
    BY SpacesAlone
  <1>3. FencedTypeOK'
    BY <1>1, <1>2 DEF FencedTypeOK, FencesInv, FencedInv
  <1>4. \A o \in Sessions : Held(o)' = IF o = t THEN (IF new = Idle THEN {} ELSE new.held) ELSE Held(o)
    BY <1>1 DEF Held
  <1>5. FencesExclude'
    <2> SUFFICES ASSUME NEW a \in Sessions, doing'[a] # Idle
                 PROVE  /\ doing'[a].held \subseteq Fences(doing'[a].op)
                        /\ \A s \in Fences(doing'[a].op) : space'[s] # "absent"
                        /\ doing'[a].stage = "decided" <=> doing'[a].held = Fences(doing'[a].op)
                        /\ \A o \in Sessions \ {a} : Held(o)' \cap doing'[a].held = {}
                        /\ \A o \in Sessions \ {a} : doing'[a].op.do = "create" /\ doing'[o] # Idle =>
                              ~ (doing'[o].op.do = "create" /\ doing'[o].op.what = doing'[a].op.what)
      BY DEF FencesExclude, Fences
    <2>1. CASE a = t
      BY <1>1, <1>4, <2>1
    <2>2. CASE a # t
      <3>1. /\ doing[a] # Idle /\ doing'[a] = doing[a] /\ Held(a) = doing[a].held
        BY <1>1, <2>2 DEF Held
      <3>2. /\ doing[a].held \subseteq Fences(doing[a].op)
            /\ \A s \in Fences(doing[a].op) : space[s] # "absent"
            /\ doing[a].stage = "decided" <=> doing[a].held = Fences(doing[a].op)
            /\ \A o \in Sessions \ {a} : Held(o) \cap doing[a].held = {}
            /\ \A o \in Sessions \ {a} : doing[a].op.do = "create" /\ doing[o] # Idle =>
                  ~ (doing[o].op.do = "create" /\ doing[o].op.what = doing[a].op.what)
        BY <3>1 DEF FencesInv, FencedInv, FencesExclude
      <3>3. new # Idle => Held(a) \cap new.held = {}
        BY <2>2
      <3> QED
        BY <1>1, <1>4, <2>2, <3>1, <3>2, <3>3
    <2> QED
      BY <2>1, <2>2
  <1>6. AnswersHoldTheirShare'
    BY DEF FencesInv, FencedInv, AnswersHoldTheirShare
  <1>7. DecisionsStand'
    <2> SUFFICES ASSUME NEW a \in Sessions, doing'[a].stage = "decided"
                 PROVE  May(doing[a].op)'
      BY DEF DecisionsStand
    <2>1. doing'[a] # Idle
      BY DEF Idle
    <2>2. PICK op \in Operations : op = doing'[a].op
      BY <1>1, <2>1 DEF Transactions
    <2>3. May(op)
      BY <1>1, <2>1, <2>2 DEF FencesInv, FencedInv, DecisionsStand
    <2> QED
      BY <2>2, <2>3, SpacesAlone
  <1> QED
    BY <1>2, <1>3, <1>5, <1>6, <1>7 DEF FencesInv, FencedInv

-----------------------------------------------------------------------------
\* Taking a fence that is free, the first or the last, keeps the invariant.
LEMMA TakingKeepsTheInvariant ==
    ASSUME FencesInv, NEW t \in Sessions, NEW op \in Asked, NEW held,
           held \subseteq Fences(op), held # Fences(op), Take(t, op, held),
           \A o \in Sessions \ {t} : Held(o) \cap held = {},
           \A s \in Fences(op) : space[s] # "absent",
           \A o \in Sessions \ {t} : op.do = "create" /\ doing[o] # Idle =>
               ~ (doing[o].op.do = "create" /\ doing[o].op.what = op.what)
    PROVE  FencesInv'
  <1> DEFINE next == NextFence(op, held)
             now  == held \cup {next}
             new  == IF now # Fences(op) THEN [op |-> op, held |-> now, stage |-> "fencing"]
                     ELSE IF May(op) THEN [op |-> op, held |-> now, stage |-> "decided"]
                     ELSE Idle
  <1>1. next \in Fences(op) \ held
    BY NextFenceIsMissing
  <1>2. /\ Free(next) /\ doing' = [doing EXCEPT ![t] = new]
        /\ UNCHANGED <<space, role, home, trashed, waiting, shared, answer>>
    BY DEF Take
  <1>3. Fences(op) \subseteq SpaceIds
    BY OperationFields DEF Fences
  <1>4. new \in Transactions
    BY <1>1, <1>3 DEF Transactions
  <1>5. \A o \in Sessions \ {t} : Held(o) \cap now = {}
    BY <1>2 DEF Free
  <1>6. new # Idle => /\ new.op = op /\ new.held = now
                      /\ new.stage = "decided" <=> now = Fences(op)
                      /\ new.stage = "decided" => May(op)
    BY DEF Idle
  <1> QED
    BY <1>1, <1>2, <1>4, <1>5, <1>6, SessionKeepsTheInvariant

LEMMA BeginKeepsTheInvariant ==
    ASSUME FencesInv, NEW t \in Sessions, NEW op \in Asked, Begin(t, op)
    PROVE  FencesInv'
  <1>1. op.in \in Fences(op)
    BY DEF Fences
  <1> QED
    BY <1>1, TakingKeepsTheInvariant DEF Begin

LEMMA ResumeKeepsTheInvariant ==
    ASSUME FencesInv, NEW t \in Sessions, Resume(t)
    PROVE  FencesInv'
  <1>1. doing[t] # Idle /\ doing[t].stage = "fencing"
    BY DEF Resume, Idle
  <1>2. /\ doing[t].op \in Asked
        /\ doing[t].held \subseteq Fences(doing[t].op) /\ doing[t].held # Fences(doing[t].op)
    BY <1>1, OpenTransactions
  <1>3. /\ \A s \in Fences(doing[t].op) : space[s] # "absent"
        /\ \A o \in Sessions \ {t} : Held(o) \cap doing[t].held = {}
        /\ \A o \in Sessions \ {t} : doing[t].op.do = "create" /\ doing[o] # Idle =>
              ~ (doing[o].op.do = "create" /\ doing[o].op.what = doing[t].op.what)
    BY <1>1 DEF FencesInv, FencedInv, FencesExclude
  <1>4. PICK op \in Asked, held \in SUBSET Fences(doing[t].op) : op = doing[t].op /\ held = doing[t].held
    BY <1>2
  <1> QED
    BY <1>2, <1>3, <1>4, TakingKeepsTheInvariant DEF Resume

LEMMA RollBackKeepsTheInvariant ==
    ASSUME FencesInv, NEW t \in Sessions, RollBack(t)
    PROVE  FencesInv'
  BY SessionKeepsTheInvariant DEF RollBack, Transactions

\* A step of the spaces that closes one session's transaction, or none, and
\* stays out of the fences of the others keeps the invariant.
LEMMA SpaceStepKeepsTheInvariant ==
    ASSUME FencesInv, SpacesInv', NEW F, StaysIn(F),
           NEW closed \in SUBSET Sessions,
           doing' = [t \in Sessions |-> IF t \in closed THEN Idle ELSE doing[t]],
           \A s \in SpaceIds : space[s] # "absent" => space'[s] # "absent",
           answer' \in [Records -> {"none", "grant", "lapse"}],
           \A r \in Records : answer'[r] # "none" => waiting'[r] # None,
           \A t \in Sessions \ closed : doing[t] # Idle =>
               /\ F \cap Fences(doing[t].op) = {} \/ (doing[t].stage = "fencing")
               /\ doing[t].op.do = "create" /\ doing[t].stage = "decided" =>
                    home'[doing[t].op.what] = None
    PROVE  FencesInv'
  <1>1. /\ doing \in [Sessions -> Transactions] /\ doing' \in [Sessions -> Transactions]
        /\ \A t \in Sessions : doing'[t] # Idle => t \notin closed /\ doing'[t] = doing[t]
        /\ \A t \in Sessions : Held(t)' \subseteq Held(t)
    BY DEF FencesInv, FencedInv, FencedTypeOK, Transactions, Held
  <1>2. FencedTypeOK' /\ ScopesStayTogether' /\ AnswersHoldTheirShare'
    BY <1>1 DEF FencedTypeOK, SpacesInv, AnswersHoldTheirShare
  <1>3. FencesExclude'
    <2> SUFFICES ASSUME NEW a \in Sessions, doing'[a] # Idle
                 PROVE  /\ doing'[a].held \subseteq Fences(doing'[a].op)
                        /\ \A s \in Fences(doing'[a].op) : space'[s] # "absent"
                        /\ doing'[a].stage = "decided" <=> doing'[a].held = Fences(doing'[a].op)
                        /\ \A o \in Sessions \ {a} : Held(o)' \cap doing'[a].held = {}
                        /\ \A o \in Sessions \ {a} : doing'[a].op.do = "create" /\ doing'[o] # Idle =>
                              ~ (doing'[o].op.do = "create" /\ doing'[o].op.what = doing'[a].op.what)
      BY DEF FencesExclude, Fences
    <2>1. doing[a] # Idle /\ doing'[a] = doing[a]
      BY <1>1
    <2>2. doing[a].op \in Operations
      BY <2>1, OpenTransactions
    <2>3. Fences(doing[a].op) \subseteq SpaceIds
      BY <2>2, OperationFields DEF Fences
    <2> QED
      BY <1>1, <2>1, <2>3 DEF FencesInv, FencedInv, FencesExclude
  <1>4. DecisionsStand'
    <2> SUFFICES ASSUME NEW a \in Sessions, doing'[a].stage = "decided"
                 PROVE  May(doing[a].op)'
      BY DEF DecisionsStand
    <2>1. doing'[a] # Idle
      BY DEF Idle
    <2>2. a \in Sessions \ closed /\ doing'[a] = doing[a] /\ doing[a] # Idle
      BY <1>1, <2>1
    <2> QED
      BY <2>2, OthersDecisionsStand
  <1> QED
    BY <1>2, <1>3, <1>4 DEF FencesInv, FencedInv

\* What an operation does to the rest of the state.
LEMMA OperationEffects ==
    ASSUME SpacesInv, NEW op \in Operations, May(op), Do(op)
    PROVE  /\ \A s \in SpaceIds : space[s] # "absent" => space'[s] # "absent"
           /\ \A r \in Records : home[r] = None /\ home'[r] # None =>
                 op.do = "create" /\ op.what = r
           /\ \A r \in Records \ Rows(op) : waiting'[r] = waiting[r]
  <1>1. op.in \in SpaceIds
    BY OperationFields
  <1>2. \A s \in SpaceIds : space[s] # "absent" => space'[s] # "absent"
    BY <1>1 DEF Do, Members, Delete, Place, Discard, Grant, Wait, SpacesInv, TypeOK
  <1>3. \A r \in Records : home[r] = None /\ home'[r] # None =>
            op.do = "create" /\ op.what = r
    <2>1. CASE Place(op) /\ op.do = "create"
      BY <2>1 DEF Place, SpacesInv, TypeOK
    <2>2. CASE Place(op) /\ op.do = "move"
      <3>1. home[op.what] = op.in
        BY <2>2 DEF May, MayMove
      <3> QED
        BY <1>1, <2>2, <3>1 DEF Place, Carried
    <2>3. CASE ~ Place(op)
      BY <2>3 DEF Do, Members, Delete, Discard, Grant, Wait
    <2> QED
      BY <2>1, <2>2, <2>3 DEF Place
  <1>4. \A r \in Records \ Rows(op) : waiting'[r] = waiting[r]
    <2>1. CASE Delete(op)
      BY <2>1 DEF Delete, Rows
    <2>2. CASE Wait(op)
      BY <2>2 DEF Wait, Rows, SpacesInv, TypeOK
    <2>3. CASE ~ Delete(op) /\ ~ Wait(op)
      BY <2>3 DEF Do, Members, Place, Discard, Grant
    <2> QED
      BY <2>1, <2>2, <2>3
  <1> QED
    BY <1>2, <1>3, <1>4

LEMMA CommitKeepsTheInvariant ==
    ASSUME FencesInv, NEW t \in Sessions, Commit(t)
    PROVE  FencesInv'
  <1>1. doing[t] # Idle
    BY DEF Commit, Idle
  <1>2. PICK op \in Operations : op = doing[t].op
    BY <1>1, OpenTransactions
  <1>3. /\ May(op) /\ Do(op) /\ \A r \in Rows(op) : answer[r] = "none"
        /\ doing' = [doing EXCEPT ![t] = Idle] /\ answer' = answer
    BY <1>2 DEF Commit, FencesInv, FencedInv, DecisionsStand
  <1>4. SpacesInv' /\ StaysIn(Fences(op))
    BY <1>3, OperationsKeepTheInvariant, OperationsStayInTheirFences DEF FencesInv
  <1>5. /\ \A s \in SpaceIds : space[s] # "absent" => space'[s] # "absent"
        /\ \A r \in Records : home[r] = None /\ home'[r] # None =>
              op.do = "create" /\ op.what = r
        /\ \A r \in Records \ Rows(op) : waiting'[r] = waiting[r]
    BY <1>3, OperationEffects DEF FencesInv
  <1>6. /\ answer' \in [Records -> {"none", "grant", "lapse"}]
        /\ \A r \in Records : answer'[r] # "none" => waiting'[r] # None
    BY <1>3, <1>5 DEF FencesInv, FencedInv, FencedTypeOK, AnswersHoldTheirShare
  <1>7. doing' = [a \in Sessions |-> IF a \in {t} THEN Idle ELSE doing[a]]
    BY <1>3 DEF FencesInv, FencedInv, FencedTypeOK
  <1>8. Held(t) = Fences(op)
    BY <1>1, <1>2, OpenTransactions DEF Held, Commit
  <1>9. ASSUME NEW a \in Sessions \ {t}, doing[a] # Idle, doing[a].stage = "decided"
        PROVE  /\ Fences(op) \cap Fences(doing[a].op) = {}
               /\ doing[a].op.do = "create" => home'[doing[a].op.what] = None
    <2>1. doing[a].op \in Operations /\ doing[a].held = Fences(doing[a].op)
      BY <1>9, OpenTransactions
    <2>2. Held(t) \cap doing[a].held = {}
      BY <1>9 DEF FencesInv, FencedInv, FencesExclude
    <2>3. May(doing[a].op)
      BY <1>9 DEF FencesInv, FencedInv, DecisionsStand
    <2>4. ASSUME doing[a].op.do = "create"
          PROVE  home'[doing[a].op.what] = None
      <3>1. doing[a].op.what \in Records
        BY <2>1, <2>4, OperationFields
      <3>2. home[doing[a].op.what] = None
        BY <2>3, <2>4 DEF May, MayCreate
      <3>3. ~ (op.do = "create" /\ op.what = doing[a].op.what)
        BY <1>1, <1>2, <1>9, <2>4 DEF FencesInv, FencedInv, FencesExclude
      <3> QED
        BY <1>5, <3>1, <3>2, <3>3
    <2> QED
      BY <1>8, <2>1, <2>2, <2>4
  <1>10. \A a \in Sessions \ {t} : doing[a] # Idle => doing[a].stage \in {"fencing", "decided"}
    BY OpenTransactions
  <1>11. \A a \in Sessions \ {t} : doing[a] # Idle =>
            /\ Fences(op) \cap Fences(doing[a].op) = {} \/ (doing[a].stage = "fencing")
            /\ doing[a].op.do = "create" /\ doing[a].stage = "decided" =>
                 home'[doing[a].op.what] = None
    BY <1>9, <1>10
  <1>12. PICK F \in {Fences(op)}, closed \in {{t}} : TRUE
    OBVIOUS
  <1>13. /\ StaysIn(F) /\ closed \in SUBSET Sessions
         /\ doing' = [a \in Sessions |-> IF a \in closed THEN Idle ELSE doing[a]]
         /\ \A a \in Sessions \ closed : doing[a] # Idle =>
              /\ F \cap Fences(doing[a].op) = {} \/ (doing[a].stage = "fencing")
              /\ doing[a].op.do = "create" /\ doing[a].stage = "decided" =>
                   home'[doing[a].op.what] = None
    BY <1>4, <1>7, <1>11, <1>12
  <1>14. \A s \in SpaceIds : space[s] # "absent" => space'[s] # "absent"
    BY <1>5
  <1> QED
    BY <1>4, <1>6, <1>13, <1>14, SpaceStepKeepsTheInvariant

LEMMA FoundKeepsTheInvariant ==
    ASSUME FencesInv, NEW s \in SpaceIds, NEW u \in Users, Found(s, u), UNCHANGED <<doing, answer>>
    PROVE  FencesInv'
  <1>1. /\ space[s] = "absent" /\ space' = [space EXCEPT ![s] = "live"]
        /\ role' = [role EXCEPT ![s][u] = "owner"]
        /\ UNCHANGED <<home, trashed, waiting, shared>>
    BY DEF Found
  <1>2. SpacesInv' /\ StaysIn({s})
    BY <1>1, FoundingKeepsTheInvariant DEF FencesInv, StaysIn, SpacesInv, TypeOK
  <1>3. \A x \in SpaceIds : space[x] # "absent" => space'[x] # "absent"
    BY <1>1 DEF FencesInv, SpacesInv, TypeOK
  <1>4. doing' = [a \in Sessions |-> IF a \in {} THEN Idle ELSE doing[a]]
    BY DEF FencesInv, FencedInv, FencedTypeOK
  <1>5. ASSUME NEW a \in Sessions, doing[a] # Idle
        PROVE  /\ {s} \cap Fences(doing[a].op) = {}
               /\ doing[a].op.do = "create" /\ doing[a].stage = "decided" =>
                    home'[doing[a].op.what] = None
    <2>1. \A x \in Fences(doing[a].op) : space[x] # "absent"
      BY <1>5 DEF FencesInv, FencedInv, FencesExclude
    <2>2. doing[a].stage = "decided" => May(doing[a].op)
      BY DEF FencesInv, FencedInv, DecisionsStand
    <2> QED
      BY <1>1, <2>1, <2>2 DEF May, MayCreate
  <1>6. /\ answer' \in [Records -> {"none", "grant", "lapse"}]
        /\ \A r \in Records : answer'[r] # "none" => waiting'[r] # None
    BY <1>1 DEF FencesInv, FencedInv, FencedTypeOK, AnswersHoldTheirShare
  <1>7. \A a \in Sessions \ {} : doing[a] # Idle =>
            /\ {s} \cap Fences(doing[a].op) = {} \/ (doing[a].stage = "fencing")
            /\ doing[a].op.do = "create" /\ doing[a].stage = "decided" =>
                 home'[doing[a].op.what] = None
    BY <1>5
  <1>8. {} \in SUBSET Sessions
    OBVIOUS
  <1> QED
    BY <1>2, <1>3, <1>4, <1>6, <1>7, <1>8, SpaceStepKeepsTheInvariant

\* The answers to waiting shares change no space, no role and no record.
LEMMA AnswersKeepTheInvariant ==
    ASSUME FencesInv, NEW r \in Records, BeginAnswer(r) \/ EndAnswer(r) \/ RollBackAnswer(r)
    PROVE  FencesInv'
  <1>1. UNCHANGED <<space, role, home, trashed, doing>>
    BY DEF BeginAnswer, EndAnswer, RollBackAnswer
  <1>2. StaysIn({})
    BY <1>1 DEF StaysIn
  <1>3. SpacesInv'
    <2>1. CASE EndAnswer(r)
      <3>1. Settle(r, answer[r] = "grant")
        BY <2>1 DEF EndAnswer, Settle, FencesInv, FencedInv, AnswersHoldTheirShare
      <3> QED
        BY <3>1, SettlingKeepsTheInvariant DEF FencesInv
    <2>2. CASE BeginAnswer(r) \/ RollBackAnswer(r)
      BY <2>2, SpacesAlone DEF BeginAnswer, RollBackAnswer
    <2> QED
      BY <2>1, <2>2
  <1>4. doing' = [a \in Sessions |-> IF a \in {} THEN Idle ELSE doing[a]]
    BY <1>1 DEF FencesInv, FencedInv, FencedTypeOK
  <1>5. /\ answer' \in [Records -> {"none", "grant", "lapse"}]
        /\ \A x \in Records : answer'[x] # "none" => waiting'[x] # None
    BY DEF FencesInv, FencedInv, FencedTypeOK, AnswersHoldTheirShare, SpacesInv, TypeOK,
           BeginAnswer, EndAnswer, RollBackAnswer
  <1>6. ASSUME NEW a \in Sessions, doing[a] # Idle, doing[a].stage = "decided",
               doing[a].op.do = "create"
        PROVE  home'[doing[a].op.what] = None
    <2>1. May(doing[a].op)
      BY <1>6 DEF FencesInv, FencedInv, DecisionsStand
    <2> QED
      BY <1>1, <1>6, <2>1 DEF May, MayCreate
  <1>7. \A a \in Sessions \ {} : doing[a] # Idle =>
            /\ {} \cap Fences(doing[a].op) = {} \/ (doing[a].stage = "fencing")
            /\ doing[a].op.do = "create" /\ doing[a].stage = "decided" =>
                 home'[doing[a].op.what] = None
    BY <1>6
  <1>8. {} \in SUBSET Sessions
    OBVIOUS
  <1>9. \A x \in SpaceIds : space[x] # "absent" => space'[x] # "absent"
    BY <1>1
  <1> QED
    BY <1>2, <1>3, <1>4, <1>5, <1>7, <1>8, <1>9, SpaceStepKeepsTheInvariant

-----------------------------------------------------------------------------
LEMMA FencesStart == FencedInit => FencesInv
  <1> SUFFICES ASSUME FencedInit PROVE FencesInv
    OBVIOUS
  <1>1. TypeOK /\ AbsentSpacesAreEmpty /\ ScopesStayTogether
    BY DEF FencedInit, Init, TypeOK, AbsentSpacesAreEmpty, ScopesStayTogether
  <1>2. SpacesKeepAnOwner /\ DeletedSpacesAreClosed
    BY DEF FencedInit, Init, SpacesKeepAnOwner, DeletedSpacesAreClosed
  <1>3. FencedTypeOK /\ FencesExclude /\ AnswersHoldTheirShare
    BY <1>1 DEF FencedInit, FencedTypeOK, FencesExclude, AnswersHoldTheirShare, Transactions
  <1>4. DecisionsStand
    BY DEF FencedInit, DecisionsStand, Idle
  <1> QED
    BY <1>1, <1>2, <1>3, <1>4 DEF FencesInv, FencedInv, SpacesInv

LEMMA FencedStepsKeepTheInvariant == FencesInv /\ [FencedNext]_fencedVars => FencesInv'
  <1>1. ASSUME FencesInv, FencedNext PROVE FencesInv'
    BY <1>1, BeginKeepsTheInvariant, ResumeKeepsTheInvariant, CommitKeepsTheInvariant,
       RollBackKeepsTheInvariant, AnswersKeepTheInvariant, FoundKeepsTheInvariant
    DEF FencedNext, Proceed
  <1>2. ASSUME FencesInv, UNCHANGED fencedVars PROVE FencesInv'
    <2>1. CASE \E t \in Sessions : TRUE
      <3>1. PICK t \in Sessions : TRUE
        BY <2>1
      <3>2. doing' = [doing EXCEPT ![t] = doing[t]]
        BY <1>2 DEF fencedVars, FencesInv, FencedInv, FencedTypeOK
      <3>3. doing[t] \in Transactions
        BY <1>2 DEF FencesInv, FencedInv, FencedTypeOK
      <3>4. doing[t] # Idle =>
               /\ doing[t].held \subseteq Fences(doing[t].op)
               /\ \A s \in Fences(doing[t].op) : space[s] # "absent"
               /\ doing[t].stage = "decided" <=> doing[t].held = Fences(doing[t].op)
               /\ \A o \in Sessions \ {t} : Held(o) \cap doing[t].held = {}
               /\ \A o \in Sessions \ {t} : doing[t].op.do = "create" /\ doing[o] # Idle =>
                     ~ (doing[o].op.do = "create" /\ doing[o].op.what = doing[t].op.what)
               /\ doing[t].stage = "decided" => May(doing[t].op)
        BY <1>2 DEF FencesInv, FencedInv, FencesExclude, DecisionsStand
      <3>5. PICK new \in Transactions : new = doing[t]
        BY <3>3
      <3> QED
        BY <1>2, <3>2, <3>4, <3>5, SessionKeepsTheInvariant DEF fencedVars
    <2>2. CASE Sessions = {}
      <3>1. SpacesInv' /\ TypeOK' /\ ScopesStayTogether'
        BY <1>2, SpacesAlone DEF fencedVars
      <3> QED
        BY <1>2, <2>2, <3>1 DEF fencedVars, FencesInv, FencedInv, FencedTypeOK, FencesExclude,
           AnswersHoldTheirShare, DecisionsStand
    <2> QED
      BY <2>1, <2>2
  <1> QED
    BY <1>1, <1>2

\* Fences exclude, decisions stand and open answers hold their share in every
\* behaviour: withStableAuthorizationAcross and lockedRole, for any number of
\* sessions, users and spaces.
THEOREM FencesKeepTheirInvariant == FencedSpec => []FencedInv
  <1>1. FencedSpec => []FencesInv
    BY FencesStart, FencedStepsKeepTheInvariant, PTL DEF FencedSpec
  <1>2. FencesInv => FencedInv
    BY DEF FencesInv
  <1> QED
    BY <1>1, <1>2, PTL

\* Under the fences every live space keeps an Owner and nothing gets into a
\* deleted one, whatever transactions are open.
THEOREM FencedSpacesAreSafe == FencedSpec => [](SpacesKeepAnOwner /\ DeletedSpacesAreClosed)
  <1>1. FencedSpec => []FencesInv
    BY FencesStart, FencedStepsKeepTheInvariant, PTL DEF FencedSpec
  <1>2. FencesInv => SpacesKeepAnOwner /\ DeletedSpacesAreClosed
    BY DEF FencesInv, SpacesInv
  <1> QED
    BY <1>1, <1>2, PTL

\* The transactions implement the operations of Spaces, each of them as one step.
THEOREM TransactionsAreAtomic == FencedSpec => ActsAsIfAlone
  <1>1. FencedInit => Atomic!Init
    BY DEF FencedInit, Init, Atomic!Init
  <1>2. FencesInv /\ [FencedNext]_fencedVars => [Atomic!Next]_(Atomic!vars)
    <2> SUFFICES ASSUME FencesInv, FencedNext PROVE Atomic!Next \/ UNCHANGED vars
      BY DEF fencedVars, vars, Atomic!vars
    <2>1. ASSUME NEW t \in Sessions, NEW op \in Asked, Begin(t, op) PROVE UNCHANGED vars
      BY <2>1 DEF Begin, Take, vars
    <2>2. ASSUME NEW t \in Sessions, Resume(t) \/ RollBack(t) PROVE UNCHANGED vars
      BY <2>2 DEF Resume, Take, RollBack, vars
    <2>3. ASSUME NEW t \in Sessions, Commit(t) PROVE Next
      <3>1. doing[t] # Idle
        BY <2>3 DEF Commit, Idle
      <3>2. doing[t].op \in Operations /\ May(doing[t].op) /\ Do(doing[t].op)
        BY <2>3, <3>1, OpenTransactions DEF Commit, FencesInv, FencedInv, DecisionsStand
      <3> QED
        BY <3>2 DEF Next
    <2>4. ASSUME NEW r \in Records, EndAnswer(r) PROVE Next
      <3>1. Settle(r, answer[r] = "grant")
        BY <2>4 DEF EndAnswer, Settle, FencesInv, FencedInv, AnswersHoldTheirShare
      <3> QED
        BY <3>1 DEF Next
    <2>5. ASSUME NEW r \in Records, BeginAnswer(r) \/ RollBackAnswer(r) PROVE UNCHANGED vars
      BY <2>5 DEF BeginAnswer, RollBackAnswer, vars
    <2>6. ASSUME NEW s \in SpaceIds, NEW u \in Users, Found(s, u) PROVE Next
      BY <2>6 DEF Next
    <2>7. Next \/ UNCHANGED vars
      BY <2>1, <2>2, <2>3, <2>4, <2>5, <2>6 DEF FencedNext, Proceed
    <2>8. Next => Atomic!Next
      <3>1. Operations = Atomic!Operations
        BY DEF Operations, Atomic!Operations
      <3>2. \A op : May(op) => Atomic!May(op)
        BY DEF Shared, Owner, Edits, HasAnotherOwner, Live, LiveRecords, MayAdd, MayChange, MayRemove, MayLeave, MayDelete, MayCreate, MayRecover, MayMove, MayOwn, May, Atomic!Shared, Atomic!Owner, Atomic!Edits, Atomic!HasAnotherOwner, Atomic!Live, Atomic!LiveRecords, Atomic!MayAdd, Atomic!MayChange, Atomic!MayRemove, Atomic!MayLeave, Atomic!MayDelete, Atomic!MayCreate, Atomic!MayRecover, Atomic!MayMove, Atomic!MayOwn, Atomic!May
      <3>3. \A op : Do(op) => Atomic!Do(op)
        BY DEF Carried, InSpace, Members, Delete, Place, Discard, Grant, Wait, Do, Atomic!Carried, Atomic!InSpace, Atomic!Members, Atomic!Delete, Atomic!Place, Atomic!Discard, Atomic!Grant, Atomic!Wait, Atomic!Do
      <3>4. \A s, u : Found(s, u) => Atomic!Found(s, u)
        BY DEF Found, Atomic!Found
      <3>5. \A r, granted : Settle(r, granted) => Atomic!Settle(r, granted)
        BY DEF Settle, Atomic!Settle
      <3> QED
        BY <3>1, <3>2, <3>3, <3>4, <3>5 DEF Next, Atomic!Next
    <2> QED
      BY <2>7, <2>8
  <1>3. FencedSpec => []FencesInv
    BY FencesStart, FencedStepsKeepTheInvariant, PTL DEF FencedSpec
  <1> QED
    BY <1>1, <1>2, <1>3, PTL DEF FencedSpec, ActsAsIfAlone, Atomic!Spec
=============================================================================
