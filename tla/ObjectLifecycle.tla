--------------------------- MODULE ObjectLifecycle ---------------------------
(***************************************************************************)
(* Where canonical objects live: the space, the permission scope, the      *)
(* parent task and the Trash state of Events, Tasks and People cards       *)
(* (packages/object-model/src/object-service.ts, recovery-service.ts,      *)
(* recovery-reads.ts, sections.ts, object-move.ts).                        *)
(*                                                                         *)
(* Every write holds the fence of its space (a move: of both spaces), so   *)
(* it is one step.  An update is two: updateTask reads the task before it  *)
(* takes the fence, and what it read decides which rules are checked       *)
(* under it.  Permissions are those of an Owner of every space; requests   *)
(* the code refuses change nothing and are not steps.                      *)
(***************************************************************************)
EXTENDS Integers, FiniteSets

CONSTANTS
    Tasks, Events,  \* canonical objects, by type
    People,         \* People cards, which never move
    Sections,       \* sections of Events' To-dos views
    EventOf,        \* the Event a section belongs to
    Spaces,
    None,           \* no parent, no section, no open edit
    MaxVersion      \* bound: versions of one object

Objects == Tasks \cup Events \cup People

ASSUME TypesAreDisjoint ==
    Tasks \cap Events = {} /\ Tasks \cap People = {} /\ Events \cap People = {}
ASSUME SectionsHaveEvents == EventOf \in [Sections -> Events]
ASSUME NoneIsNothing == None \notin Objects \cup Sections
ASSUME VersionsArePositive == MaxVersion \in Nat \ {0}

VARIABLES
    rows,      \* objects and tasks: the row of every object created so far
    sections,  \* the sections that exist
    draft,     \* the row an update read before its transaction, or None
    taken      \* history: the subtasks each task last took to Trash with it

vars == <<rows, sections, draft, taken>>

-----------------------------------------------------------------------------
Row == [space: Spaces, scope: Objects, live: BOOLEAN, version: 1 .. MaxVersion,
        parent: Tasks \cup {None}, deletedWith: Tasks \cup {None},
        section: Sections \cup {None}]

Created == DOMAIN rows
In(o, space) == o \in Created /\ rows[o].space = space

\* Mutant of LiveIn: the query does not name the space.
LiveAnywhere(o, space) == o \in Created /\ rows[o].live

LiveIn(o, space) == In(o, space) /\ rows[o].live
Subtasks(p) == {c \in Created : rows[c].parent = p}

\* A write steps the version of each object it writes.
MayStep(os) == \A o \in os : rows[o].version < MaxVersion
Stepped(row) == [row EXCEPT !.version = @ + 1]

\* Mutant of ParentAllowed: any live task is a parent.
AnyLiveParent(t, p, scope, space) == p = None \/ (p \in Tasks \ {t} /\ LiveIn(p, space))

\* assertTaskParent: a live task of the space with no parent of its own, for a
\* task with no subtasks, in the same scope.
ParentAllowed(t, p, scope, space) ==
    \/ p = None
    \/ /\ p \in Tasks \ {t}
       /\ LiveIn(p, space)
       /\ rows[p].parent = None
       /\ \A c \in Subtasks(t) : rows[c].space # space
       /\ rows[p].scope = scope

\* assertSectionMember: a section of the Event whose scope the task inherits.
SectionAllowed(t, section, scope, space) ==
    \/ section = None
    \/ /\ scope # t
       /\ section \in sections
       /\ EventOf[section] = scope
       /\ In(scope, space)

-----------------------------------------------------------------------------
\* #createObject: in its own scope, or in that of an object the user may edit.
Create(o, space, scope, parent, section) ==
    /\ o \notin Created
    /\ scope = o \/ LiveIn(scope, space)
    /\ o \notin Tasks => parent = None /\ section = None
    /\ ParentAllowed(o, parent, scope, space)
    /\ SectionAllowed(o, section, scope, space)
    /\ rows' = [x \in Created \cup {o} |->
                  IF x = o
                  THEN [space |-> space, scope |-> scope, live |-> TRUE, version |-> 1,
                        parent |-> parent, deletedWith |-> None, section |-> section]
                  ELSE rows[x]]
    /\ UNCHANGED <<sections, draft, taken>>

\* updateTask reads the current task, authorized, in a snapshot of its own.
OpenEdit(t) ==
    /\ draft = None
    /\ t \in Created /\ rows[t].live
    /\ draft' = [task |-> t, read |-> rows[t]]
    /\ UNCHANGED <<rows, sections, taken>>

\* Mutant of StillAsRead: the update does not compare versions.
StillLive(t, read) == LiveIn(t, read.space)

\* #updateObject writes only the version it read, live and in that space.
StillAsRead(t, read) == LiveIn(t, read.space) /\ rows[t].version = read.version

\* The transaction of updateTask: the parent rules apply when the parent
\* changes, with the scope that was read; the section rule when one is sent.
SaveEdit(parent, section) ==
    LET t    == draft.task
        read == draft.read
    IN  /\ draft # None
        /\ StillAsRead(t, read)
        /\ MayStep({t})
        /\ parent # read.parent => ParentAllowed(t, parent, read.scope, read.space)
        /\ \/ section = rows[t].section
           \/ SectionAllowed(t, section, read.scope, read.space)
        /\ rows' = [rows EXCEPT ![t] =
                      Stepped([@ EXCEPT !.parent = parent, !.section = section])]
        /\ draft' = None
        /\ UNCHANGED <<sections, taken>>

\* The update conflicts, is refused, or is never sent.
DropEdit ==
    /\ draft # None
    /\ draft' = None
    /\ UNCHANGED <<rows, sections, taken>>

-----------------------------------------------------------------------------
\* liveSubtaskIds
LiveSubtasks(p) == {c \in Subtasks(p) : LiveIn(c, rows[p].space)}

\* Mutant of ToTrash: the subtasks are not marked as trashed with their task.
ToTrashUnmarked(row, with) == Stepped([row EXCEPT !.live = FALSE])

ToTrash(row, with) ==
    Stepped([row EXCEPT !.live = FALSE,
                        !.deletedWith = IF with = None THEN @ ELSE with])

\* softDelete: a task takes its live subtasks with it.
SoftDelete(o) ==
    LET takes == LiveSubtasks(o) IN
    /\ o \in Created /\ rows[o].live
    /\ MayStep({o} \cup takes)
    /\ rows' = [x \in Created |->
                  IF x = o THEN ToTrash(rows[x], None)
                  ELSE IF x \in takes THEN ToTrash(rows[x], o)
                  ELSE rows[x]]
    /\ taken' = [t \in Tasks |-> IF t = o THEN takes ELSE IF t \in takes THEN {} ELSE taken[t]]
    /\ UNCHANGED <<sections, draft>>

\* Mutant of Unblocked: only the scope blocks a recovery.
ScopeIsBack(o) == rows[o].scope = o \/ LiveIn(rows[o].scope, rows[o].space)

\* recoveryBlockedReason is null: neither the scope nor the parent is in Trash.
Unblocked(o) ==
    /\ rows[o].scope = o \/ LiveIn(rows[o].scope, rows[o].space)
    /\ \A p \in Tasks : (rows[o].parent = p /\ In(p, rows[o].space)) => rows[p].live

\* Mutant of WentWith: every subtask comes back.
AllSubtasks(p) == {c \in Subtasks(p) : rows[c].space = rows[p].space /\ ~ rows[c].live}

\* The subtasks that went to Trash with the task.
WentWith(p) ==
    {c \in Subtasks(p) : rows[c].space = rows[p].space /\ rows[c].deletedWith = p}

Back(row) == Stepped([row EXCEPT !.live = TRUE, !.deletedWith = None])

\* recover: the object, and the subtasks that went to Trash with it.
Recover(o) ==
    LET back == {o} \cup (IF o \in Tasks THEN WentWith(o) ELSE {}) IN
    /\ o \in Created /\ ~ rows[o].live
    /\ Unblocked(o)
    /\ MayStep(back)
    /\ rows' = [x \in Created |->
                  IF x \in back THEN Back(rows[x]) ELSE rows[x]]
    /\ UNCHANGED <<sections, draft, taken>>

\* updatePermissionScope: the object itself, or a live self-scoped Event.
Rescope(o, scope) ==
    /\ o \in Created /\ rows[o].live
    /\ rows[o].scope # scope
    /\ \/ scope = o
       \/ /\ scope \in Events
          /\ LiveIn(scope, rows[o].space)
          /\ rows[scope].scope = scope
    /\ MayStep({o})
    /\ rows' = [rows EXCEPT ![o] = Stepped([@ EXCEPT !.scope = scope])]
    /\ UNCHANGED <<sections, draft, taken>>

-----------------------------------------------------------------------------
\* createSection and deleteSection; the foreign key clears the tasks' section
\* and steps no version.
CreateSection(section) ==
    /\ section \notin sections
    /\ EventOf[section] \in Created /\ rows[EventOf[section]].live
    /\ sections' = sections \cup {section}
    /\ UNCHANGED <<rows, draft, taken>>

DeleteSection(section) ==
    /\ section \in sections
    /\ EventOf[section] \in Created /\ rows[EventOf[section]].live
    /\ sections' = sections \ {section}
    /\ rows' = [x \in Created |->
                  IF rows[x].section = section THEN [rows[x] EXCEPT !.section = None]
                  ELSE rows[x]]
    /\ UNCHANGED <<draft, taken>>

-----------------------------------------------------------------------------
\* readScopeIds: the Event and what inherits its scope, in Trash or not, but
\* People cards.
ScopeOf(e) ==
    {x \in Created \ People : rows[x].space = rows[e].space /\ (x = e \/ rows[x].scope = e)}

CardsOf(e) == {c \in Created \cap People : rows[c].space = rows[e].space /\ rows[c].scope = e}

\* Mutant of FamiliesStayTogether: a subtask moves without its task.
NoFamilyRule(carried) == TRUE

\* "A subtask and its task are in different scopes." ends the move.
FamiliesStayTogether(carried) ==
    \A c \in Created :
        rows[c].parent # None => (c \in carried <=> rows[c].parent \in carried)

\* objects_permission_scope_workspace_fk: what stays has its scope there too.
ScopesStayTogether(carried, cards) ==
    \A x \in Created \ cards : rows[x].scope \in carried => x \in carried

\* carryScope: the Event and its scope change space, People cards stay in a
\* scope of their own, and the tasks whose assignee or labels the move rewrites
\* step their version.
Move(e, space, rewritten) ==
    LET carried == ScopeOf(e)
        cards   == CardsOf(e)
    IN  /\ e \in Events /\ e \in Created /\ rows[e].live /\ rows[e].scope = e
        /\ space # rows[e].space
        /\ FamiliesStayTogether(carried)
        /\ ScopesStayTogether(carried, cards)
        /\ rewritten \subseteq carried \cap Tasks
        /\ MayStep(rewritten \cup cards)
        /\ rows' = [x \in Created |->
                      IF x \in cards THEN Stepped([rows[x] EXCEPT !.scope = x])
                      ELSE IF x \notin carried THEN rows[x]
                      ELSE [rows[x] EXCEPT !.space = space,
                                           !.version = IF x \in rewritten THEN @ + 1 ELSE @]]
        /\ UNCHANGED <<sections, draft, taken>>

-----------------------------------------------------------------------------
Init ==
    /\ rows = [o \in {} |-> 0]
    /\ sections = {}
    /\ draft = None
    /\ taken = [t \in Tasks |-> {}]

Next ==
    \/ \E o \in Objects, space \in Spaces, scope \in Objects,
          parent \in Tasks \cup {None}, section \in Sections \cup {None} :
             Create(o, space, scope, parent, section)
    \/ \E t \in Tasks : OpenEdit(t)
    \/ \E parent \in Tasks \cup {None}, section \in Sections \cup {None} :
             SaveEdit(parent, section)
    \/ DropEdit
    \/ \E o \in Objects : SoftDelete(o) \/ Recover(o)
    \/ \E o, scope \in Objects : Rescope(o, scope)
    \/ \E section \in Sections : CreateSection(section) \/ DeleteSection(section)
    \/ \E e \in Events, space \in Spaces, rewritten \in SUBSET Tasks :
             Move(e, space, rewritten)

Spec == Init /\ [][Next]_vars

-----------------------------------------------------------------------------
(* What holds of the objects of every space.                               *)

\* Every variable has its type.
TypeOK ==
    /\ Created \subseteq Objects
    /\ rows \in [Created -> Row]
    /\ sections \subseteq Sections
    /\ draft = None \/ draft \in [task: Tasks, read: Row]
    /\ taken \in [Tasks -> SUBSET Tasks]

\* Subtasks are one level deep, whatever order tasks were attached, trashed,
\* recovered and moved in: a task with a parent is a subtask of a task without
\* one, and both are in one space ("one level deep", docs/api.md).
OneLevelDeep ==
    \A c \in Created : rows[c].parent # None =>
        /\ c \in Tasks /\ rows[c].parent \in Created
        /\ rows[rows[c].parent].parent = None
        /\ rows[rows[c].parent].space = rows[c].space

\* No live subtask has its parent in Trash: attaching, trashing and recovering
\* either side, in any order, never leaves one where no view shows it.
NoLiveOrphan ==
    \A c \in Created : rows[c].live /\ rows[c].parent # None => rows[rows[c].parent].live

\* The mark of a cascade names the parent, and both are in Trash: a mark left
\* behind would bring a subtask back later with a task it did not go with.
MarksAreCurrent ==
    \A c \in Created : rows[c].deletedWith # None =>
        /\ rows[c].deletedWith = rows[c].parent
        /\ ~ rows[c].live
        /\ rows[rows[c].parent].live = FALSE

\* A recovered task brings back exactly the subtasks it took to Trash the last
\* time: none that was trashed on its own, and none is left behind
\* ("recovering the parent brings back exactly those", docs/api.md).
BringsBackWhatItTook ==
    [][\A p \in Created \cap Tasks :
          ~ rows[p].live /\ rows'[p].live =>
              {c \in Subtasks(p) : ~ rows[c].live /\ rows'[c].live} = taken[p]]_vars

\* A task is attached under the scope both have at that moment, although its
\* own scope was read before the fence was taken.
AttachesWithinScope ==
    [][\A c \in Created :
          rows'[c].parent # rows[c].parent /\ rows'[c].parent # None =>
              rows'[c].scope = rows'[rows'[c].parent].scope]_vars

\* A task takes a section of the Event it belongs to at that moment and that is
\* in its space, although both were read before the fence was taken; rescoping,
\* a move and the deletion of the section may come between.
TakesSectionOfItsEvent ==
    [][\A t \in Created :
          rows'[t].section # rows[t].section /\ rows'[t].section # None =>
              LET e == EventOf[rows'[t].section] IN
                 /\ rows'[t].section \in sections
                 /\ rows'[t].scope = e
                 /\ e \in Created /\ rows'[e].space = rows'[t].space]_vars

\* An object and the scope it inherits are in one space: access is never
\* decided by grants on an object of another space.
ScopeInSpace ==
    \A o \in Created : rows[o].scope \in Created /\ rows[rows[o].scope].space = rows[o].space

\* "A key violation or deadlock from a write that raced the move"
\* (object-move.ts): an Event that may move, and whose families are whole,
\* meets no key violation while nothing else writes.
MovesWhole ==
    \A e \in Created \cap Events :
        rows[e].live /\ rows[e].scope = e /\ FamiliesStayTogether(ScopeOf(e))
            => ScopesStayTogether(ScopeOf(e), CardsOf(e))

\* "a subtask shares its parent's permission scope (permissionScopeId must
\* equal the parent's ...)" (docs/api.md).
SubtaskSharesScope ==
    \A c \in Created : rows[c].parent # None => rows[c].scope = rows[rows[c].parent].scope

\* The history of cascades is what the marks say.
MarksAreHistory ==
    \A p \in Created \cap Tasks : ~ rows[p].live =>
        taken[p] = {c \in Created : rows[c].deletedWith = p}

\* An open edit read its task in the past: as long as the version is the one
\* it read, so are the parent and the scope.
DraftIsPast ==
    draft # None =>
        /\ draft.task \in Created
        /\ draft.read.version <= rows[draft.task].version
        /\ draft.read.version = rows[draft.task].version =>
              /\ draft.read.parent = rows[draft.task].parent
              /\ draft.read.scope = rows[draft.task].scope

\* The inductive invariant behind NoLiveOrphan and BringsBackWhatItTook.
LifecycleInv ==
    TypeOK /\ OneLevelDeep /\ NoLiveOrphan /\ MarksAreCurrent /\ MarksAreHistory
    /\ DraftIsPast
=============================================================================
