------------------------- MODULE ReversibleCommands -------------------------
(***************************************************************************)
(* The reversible content commands of one workspace                        *)
(* (packages/object-model/src/command-service.ts, command-store.ts,        *)
(* command-reads.ts), together with everything that can come between two   *)
(* commands of a user: the PATCH endpoints and restoration, Trash and      *)
(* recovery, permission changes, and the move of an Event's scope to       *)
(* another space (object-move.ts), which prunes the stacks.                *)
(*                                                                         *)
(* Every write takes the workspace row FOR NO KEY UPDATE before it reads   *)
(* the stack or authorizes (authorization-transaction.ts), so a write is   *)
(* one atomic step here; a request pins the versions its client read       *)
(* earlier, so anything may have happened between its composition and its  *)
(* arrival.  A repeated request whose operation id has a receipt returns   *)
(* the receipt and writes nothing: the Fresh guard stands for it.          *)
(***************************************************************************)
EXTENDS Integers, Sequences, FiniteSets, Filters

CONSTANTS
    Objects,     \* canonical Events and Tasks of the workspace
    Users,       \* users with a stack in the workspace
    Ops,         \* client-chosen operation ids (a command id is the id of its execute)
    Contents,    \* restorable content: name, typed fields, custom properties
    Kept,        \* typed fields a patch may set and restoration preserves (rank, labels, ...)
    Untracked,   \* provenance of a revision no command wrote
    StackLimit,  \* commands kept on a stack: 50 in the code
    MaxEdits,    \* edits in one command: 10 in the schema
    MoveScopes,  \* the scopes a move may carry to another space
    MaxVersion   \* bound: versions of one object

ASSUME LimitsAreCounts ==
    /\ StackLimit \in Nat \ {0}
    /\ MaxEdits \in Nat \ {0}
    /\ MaxVersion \in Nat \ {0}
ASSUME ScopesAreObjects == MoveScopes \subseteq SUBSET Objects
ASSUME UntrackedIsNoOperation == Untracked \notin Users \X Ops

VARIABLES
    rev,       \* object_revisions: per object, the sequence of its snapshots
    here,      \* the objects whose row is in this workspace
    editors,   \* the <<user, object>> pairs the current grants and roles let edit
    stack,     \* command_stacks
    changes,   \* command_changes: per user and command, object -> before_version
    receipts   \* command_receipts: per user and operation, the recorded receipt

vars == <<rev, here, editors, stack, changes, receipts>>

-----------------------------------------------------------------------------
Directions == {"execute", "undo", "redo"}
Snapshot == [content: Contents, kept: Kept, live: BOOLEAN,
             by: (Users \X Ops) \cup {Untracked}]

\* Functions whose domain is a subset of D.
PartialFunctions(D, R) == UNION {[S -> R] : S \in SUBSET D}
NoExpectations == [o \in {} |-> 0]
RangeOf(s) == {s[i] : i \in 1 .. Len(s)}

\* An edit names the version its client read; a patch sets new content.
Edit == [expected: 1 .. MaxVersion, content: Contents, kept: Kept]
EditSets == {e \in PartialFunctions(Objects, Edit) :
                DOMAIN e # {} /\ Cardinality(DOMAIN e) <= MaxEdits}

Version(o) == Len(rev[o])
Current(o) == rev[o][Version(o)]

\* assertCan(..., "edit", o): a role that edits, on a live object of the workspace.
CanEdit(u, o) == <<u, o>> \in editors /\ o \in here /\ Current(o).live

\* The objects the given commands of u changed (command_changes).
Touched(ch, cmds) == UNION {DOMAIN ch[c] : c \in cmds}

\* Mutant of Accepted: a retry whose receipt is already recorded runs again.
RetryRunsAgain(u, op, sv) == sv = stack[u].version

\* Both handlers begin alike: replay() finds no receipt of the operation, and
\* the request pins the current version of the user's stack.
Accepted(u, op, sv) == op \notin DOMAIN receipts[u] /\ sv = stack[u].version

-----------------------------------------------------------------------------
\* recordObjectRevision: each written object gets its next version.
Written(new, by) ==
    [o \in Objects |->
        IF o \in DOMAIN new
        THEN Append(rev[o], [content |-> new[o].content, kept |-> new[o].kept,
                             live |-> TRUE, by |-> by])
        ELSE rev[o]]

\* Mutant of SavedStack: expectations are kept for commands out of reach.
KeepsExpectations(st, ch, undo, redo, expected) ==
    [version |-> st.version + 1, undo |-> undo, redo |-> redo, expected |-> expected]

\* saveCommandStack: the next stack version, and the expectations of the
\* objects that commands still reachable have changed.
SavedStack(st, ch, undo, redo, expected) ==
    LET retained == Touched(ch, RangeOf(undo) \cup RangeOf(redo)) IN
    [version  |-> st.version + 1,
     undo     |-> undo,
     redo     |-> redo,
     expected |-> [o \in DOMAIN expected \cap retained |-> expected[o]]]

\* Mutant of Advanced: the version read before the write is the one expected.
ExpectsVersionRead(expected, written) ==
    [o \in DOMAIN expected \cup written |->
        IF o \in written THEN Version(o) ELSE expected[o]]

\* Object.assign(stack.expectedVersions, versions): each written object is
\* expected at the version the write gave it.
Advanced(expected, written) ==
    [o \in DOMAIN expected \cup written |->
        IF o \in written THEN Version(o) + 1 ELSE expected[o]]

\* Mutant of LastCommands: the stack is never cut.
AllCommands(s) == s

\* slice(-50)
LastCommands(s) ==
    IF Len(s) > StackLimit THEN SubSeq(s, Len(s) - StackLimit + 1, Len(s)) ELSE s

Receipt(cmd, direction, version, written) ==
    [command |-> cmd, direction |-> direction, stackVersion |-> version,
     objects |-> [o \in written |-> Version(o) + 1]]

Recorded(u, op, receipt) ==
    [receipts EXCEPT ![u] = [x \in DOMAIN @ \cup {op} |->
                                IF x = op THEN receipt ELSE @[x]]]

\* Mutant of HasDiverged: an intervening edit does not clear the undo branch.
NeverDiverges(u, edits) == FALSE

\* Some edited object moved past the version the stack expects it at.
HasDiverged(u, edits) ==
    \E o \in DOMAIN edits \cap DOMAIN stack[u].expected :
        stack[u].expected[o] # Version(o)

Execute(u, op, edits) ==
    LET st       == stack[u]
        diverged == HasDiverged(u, edits)
        undo     == IF diverged THEN <<>> ELSE st.undo
        expected == IF diverged THEN NoExpectations ELSE st.expected
        ch       == [c \in DOMAIN changes[u] \cup {op} |->
                        IF c = op THEN [o \in DOMAIN edits |-> edits[o].expected]
                        ELSE changes[u][c]]
    IN  /\ \A o \in DOMAIN edits : /\ CanEdit(u, o)
                                   /\ Version(o) = edits[o].expected
                                   /\ Version(o) < MaxVersion
        /\ rev' = Written(edits, <<u, op>>)
        /\ changes' = [changes EXCEPT ![u] = ch]
        /\ stack' = [stack EXCEPT ![u] =
                        SavedStack(st, ch, LastCommands(Append(undo, op)), <<>>,
                                   Advanced(expected, DOMAIN edits))]
        /\ receipts' = Recorded(u, op,
                          Receipt(op, "execute", st.version + 1, DOMAIN edits))
        /\ UNCHANGED <<here, editors>>

\* Mutant of SourceVersion: undo and redo read each other's revision.
SwappedSource(u, cmd, o, direction) ==
    IF direction = "undo" THEN changes[u][cmd][o] + 1 ELSE changes[u][cmd][o]

\* The revision whose content an undo (or redo) of change o of cmd puts back.
SourceVersion(u, cmd, o, direction) ==
    IF direction = "undo" THEN changes[u][cmd][o] ELSE changes[u][cmd][o] + 1

\* readContentEdit: the restorable content of that revision; what is not
\* restorable stays as it is.
InverseEdits(u, cmd, direction) ==
    [o \in DOMAIN changes[u][cmd] |->
        [content |-> rev[o][SourceVersion(u, cmd, o, direction)].content,
         kept    |-> Current(o).kept]]

Popped(s) == SubSeq(s, 1, Len(s) - 1)
HeadIs(s, cmd) == s # <<>> /\ s[Len(s)] = cmd

\* Mutant of MembersUnmoved: an inverse does not compare versions.
MembersEditable(u, cmd) == \A o \in DOMAIN changes[u][cmd] : CanEdit(u, o)

\* The preconditions on the members of a command that is undone or redone.
MembersUnmoved(u, cmd) ==
    \A o \in DOMAIN changes[u][cmd] :
        /\ CanEdit(u, o)
        /\ o \in DOMAIN stack[u].expected
        /\ Version(o) = stack[u].expected[o]

Transition(u, op, cmd, direction) ==
    LET st      == stack[u]
        source  == IF direction = "undo" THEN st.undo ELSE st.redo
        written == DOMAIN changes[u][cmd]
    IN  /\ HeadIs(source, cmd)
        /\ MembersUnmoved(u, cmd)
        /\ \A o \in written : Version(o) < MaxVersion
        /\ rev' = Written(InverseEdits(u, cmd, direction), <<u, op>>)
        /\ stack' = [stack EXCEPT ![u] =
                        SavedStack(st, changes[u],
                            IF direction = "undo" THEN Popped(st.undo) ELSE Append(st.undo, cmd),
                            IF direction = "undo" THEN Append(st.redo, cmd) ELSE Popped(st.redo),
                            Advanced(st.expected, written))]
        /\ receipts' = Recorded(u, op, Receipt(cmd, direction, st.version + 1, written))
        /\ UNCHANGED <<here, editors, changes>>

-----------------------------------------------------------------------------
(* What else changes the objects, the permissions and the stacks.          *)

\* PATCH, restoration or any other content write outside the commands, here
\* or in the space the object was moved to.
UntrackedEdit(o, content, kept) ==
    /\ Current(o).live
    /\ Version(o) < MaxVersion
    /\ rev' = [rev EXCEPT ![o] = Append(@, [content |-> content, kept |-> kept,
                                            live |-> TRUE, by |-> Untracked])]
    /\ UNCHANGED <<here, editors, stack, changes, receipts>>

\* softDelete and recover: an object, or a task with the subtasks that go to
\* Trash or come back with it, each gets a version with the same content and
\* the other life.
TrashOrRecover(os) ==
    /\ \A o, p \in os : Current(o).live = Current(p).live
    /\ \A o \in os : Version(o) < MaxVersion
    /\ rev' = [o \in Objects |->
                  IF o \in os
                  THEN Append(rev[o], [Current(o) EXCEPT !.live = ~ @, !.by = Untracked])
                  ELSE rev[o]]
    /\ UNCHANGED <<here, editors, stack, changes, receipts>>

\* A grant, a membership or a revocation changes who may edit the object.
ChangeAccess(u, o) ==
    /\ editors' = IF <<u, o>> \in editors THEN editors \ {<<u, o>>}
                                          ELSE editors \cup {<<u, o>>}
    /\ UNCHANGED <<rev, here, stack, changes, receipts>>

\* No user's command of this id changed a carried object: the prune collects
\* the ids over the whole workspace.
Stays(c, scope) ==
    \A u \in Users : c \in DOMAIN changes[u] => DOMAIN changes[u][c] \cap scope = {}

\* Mutant of PrunedStack: a move takes the heads that changed a carried object
\* off the stacks and leaves the older entries of that object.
PrunedHeads(u, scope) ==
    LET stays(c) == Stays(c, scope)
        Cut(s) == IF s # <<>> /\ ~ stays(s[Len(s)]) THEN SubSeq(s, 1, Len(s) - 1) ELSE s
    IN  SavedStack(stack[u], changes[u], Cut(stack[u].undo), Cut(stack[u].redo),
                   stack[u].expected)

\* pruneCommandStacks: entries whose command changed a carried object leave
\* the stack, and the versions only they expected go with them.
PrunedStack(u, scope) ==
    LET staying == {c \in Ops : Stays(c, scope)} IN
    IF RangeOf(stack[u].undo) \cup RangeOf(stack[u].redo) \subseteq staying
    THEN stack[u]
    ELSE SavedStack(stack[u], changes[u], Filtered(stack[u].undo, staying),
                    Filtered(stack[u].redo, staying), stack[u].expected)

\* A carried task that had an assignee or labels loses or renames them, in a
\* revision of its own.
Rewritten(tasks, kept) ==
    [o \in Objects |->
        IF o \in tasks
        THEN Append(rev[o], [Current(o) EXCEPT !.kept = kept, !.by = Untracked])
        ELSE rev[o]]

\* carryScope: the scope leaves for another space.
MoveAway(scope, tasks, kept) ==
    /\ scope # {} /\ scope \subseteq here
    /\ \A o \in tasks : Version(o) < MaxVersion
    /\ here' = here \ scope
    /\ stack' = [u \in Users |-> PrunedStack(u, scope)]
    /\ rev' = Rewritten(tasks, kept)
    /\ UNCHANGED <<editors, changes, receipts>>

\* A later move brings the scope back; it prunes the stacks of the other space.
MoveBack(scope, tasks, kept) ==
    /\ scope # {} /\ scope \cap here = {}
    /\ \A o \in tasks : Version(o) < MaxVersion
    /\ here' = here \cup scope
    /\ rev' = Rewritten(tasks, kept)
    /\ UNCHANGED <<editors, stack, changes, receipts>>

-----------------------------------------------------------------------------
\* readCommandStack of a user with no row
EmptyStack == [version |-> 0, undo |-> <<>>, redo |-> <<>>, expected |-> NoExpectations]

Init ==
    /\ rev \in [Objects -> {<<[content |-> c, kept |-> k, live |-> TRUE, by |-> Untracked]>> :
                                c \in Contents, k \in Kept}]
    /\ here = Objects
    /\ editors = Users \X Objects
    /\ stack = [u \in Users |-> EmptyStack]
    /\ changes = [u \in Users |-> [c \in {} |-> NoExpectations]]
    /\ receipts = [u \in Users |-> [x \in {} |-> {}]]

\* A request of user u reaches the command service; it pins the stack version
\* its client last read.  Every receipt and every prune steps that version.
StackVersions == 0 .. 2 * Cardinality(Ops)
CommandRequest(u) ==
    \E op \in Ops, sv \in StackVersions :
        /\ Accepted(u, op, sv)
        /\ \/ \E edits \in EditSets : Execute(u, op, edits)
           \/ \E cmd \in DOMAIN changes[u], direction \in {"undo", "redo"} :
                    Transition(u, op, cmd, direction)

Next ==
    \/ \E u \in Users : CommandRequest(u)
    \/ \E o \in Objects, c \in Contents, k \in Kept : UntrackedEdit(o, c, k)
    \/ \E os \in (SUBSET Objects) \ {{}} : TrashOrRecover(os)
    \/ \E u \in Users, o \in Objects : ChangeAccess(u, o)
    \/ \E scope \in MoveScopes : \E tasks \in SUBSET scope, k \in Kept :
          MoveAway(scope, tasks, k) \/ MoveBack(scope, tasks, k)

Spec == Init /\ [][Next]_vars

-----------------------------------------------------------------------------
(* What the commands promise.                                              *)

Versions(f) == DOMAIN f \subseteq Objects /\ f \in [DOMAIN f -> 1 .. MaxVersion]

\* Every variable has its type, and every object has a revision.
TypeOK ==
    /\ rev \in [Objects -> Seq(Snapshot) \ {<<>>}]
    /\ here \in SUBSET Objects
    /\ editors \in SUBSET (Users \X Objects)
    /\ DOMAIN stack = Users /\ DOMAIN changes = Users /\ DOMAIN receipts = Users
    /\ \A u \in Users :
        /\ stack[u].version \in Nat
        /\ stack[u].undo \in Seq(Ops) /\ stack[u].redo \in Seq(Ops)
        /\ Versions(stack[u].expected)
        /\ DOMAIN changes[u] \subseteq Ops
        /\ \A c \in DOMAIN changes[u] : Versions(changes[u][c])
        /\ DOMAIN receipts[u] \subseteq Ops
        /\ \A op \in DOMAIN receipts[u] :
              /\ receipts[u][op].command \in DOMAIN changes[u]
              /\ receipts[u][op].direction \in Directions
              /\ Versions(receipts[u][op].objects)

Reachable(u) == RangeOf(stack[u].undo) \cup RangeOf(stack[u].redo)

\* Undo and redo together stay within the limit (the CHECK of migration 0009
\* would turn anything above it into a failed request).
StackBounded ==
    \A u \in Users : Len(stack[u].undo) + Len(stack[u].redo) <= StackLimit

\* The stack expects a version of exactly the objects that a command still in
\* reach has changed: an inverse never lacks the version it has to compare,
\* and a version expected for a command out of reach never clears the branch.
ExpectsWhatIsInReach ==
    \A u \in Users :
        /\ Reachable(u) \subseteq DOMAIN changes[u]
        /\ DOMAIN stack[u].expected = Touched(changes[u], Reachable(u))

\* The content an object had before and after command c: its revisions in r
\* around the version in ch that the command read.
Before(r, ch, c, o) == r[o][ch[c][o]].content
After(r, ch, c, o) == r[o][ch[c][o] + 1].content

\* The places of s whose command changed o, and whether place j is the next
\* of them after place i.
Places(ch, s, o) == {i \in 1 .. Len(s) : o \in DOMAIN ch[s[i]]}
Follows(ch, s, o, i, j) ==
    /\ i \in Places(ch, s, o) /\ j \in Places(ch, s, o) /\ i < j
    /\ \A k \in Places(ch, s, o) : k <= i \/ j <= k
IsTop(ch, s, o, i) ==
    i \in Places(ch, s, o) /\ \A k \in Places(ch, s, o) : k <= i

\* The reachable commands of u that changed o form one chain of content: each
\* undo entry left the content the next one found, each redo entry found the
\* content the one above it left, and the version the stack expects of o holds
\* the content the top undo entry left and the top redo entry found.
Chain(r, ch, undo, redo, now, o) ==
    /\ \A i \in 1 .. Len(undo) : IsTop(ch, undo, o, i) => After(r, ch, undo[i], o) = now
    /\ \A i \in 1 .. Len(redo) : IsTop(ch, redo, o, i) => Before(r, ch, redo[i], o) = now
    /\ \A i, j \in 1 .. Len(undo) : Follows(ch, undo, o, i, j) =>
          After(r, ch, undo[i], o) = Before(r, ch, undo[j], o)
    /\ \A i, j \in 1 .. Len(redo) : Follows(ch, redo, o, i, j) =>
          After(r, ch, redo[j], o) = Before(r, ch, redo[i], o)
ChainOfContent(u, o) ==
    Chain(rev, changes[u], stack[u].undo, stack[u].redo,
          rev[o][stack[u].expected[o]].content, o)

\* Every object a user can undo or redo a change of has such a chain: it is
\* what lets consecutive inverses run without crossing an edit that the stack
\* does not know of (saveCommandStack and the divergence check keep it).
StackCoherent ==
    \A u \in Users : \A o \in DOMAIN stack[u].expected : ChainOfContent(u, o)

\* The version a stack expects of an object is one its own user's commands
\* wrote: an inverse never starts from a PATCH, a restoration, a recovery or
\* another user's command.
ExpectsOwnWrites ==
    \A u \in Users : \A o \in DOMAIN stack[u].expected :
        /\ stack[u].expected[o] \in 1 .. Version(o)
        /\ rev[o][stack[u].expected[o]].by \in {u} \X Ops

\* A recorded command has a receipt, and both its revisions exist.
ChangesRecorded ==
    \A u \in Users : \A c \in DOMAIN changes[u] :
        /\ c \in DOMAIN receipts[u]
        /\ \A o \in DOMAIN changes[u][c] : changes[u][c][o] < Version(o)

\* Receipts and the revision ledger tell the same story: every revision a
\* command, undo or redo wrote is the one version its receipt names for that
\* object, and every version a receipt names was written by its operation.
\* A retry therefore wrote nothing, whatever came in between.
ReceiptsMatchLedger ==
    \A u \in Users :
        /\ \A op \in DOMAIN receipts[u] : \A o \in DOMAIN receipts[u][op].objects :
              /\ receipts[u][op].objects[o] <= Version(o)
              /\ rev[o][receipts[u][op].objects[o]].by = <<u, op>>
        /\ \A o \in Objects : \A v \in 1 .. Version(o) : \A op \in Ops :
              rev[o][v].by = <<u, op>> =>
                  /\ op \in DOMAIN receipts[u]
                  /\ o \in DOMAIN receipts[u][op].objects
                  /\ receipts[u][op].objects[o] = v

\* What every step keeps, the moves included.
RecordsInv == /\ TypeOK /\ ChangesRecorded /\ StackBounded
              /\ ExpectsWhatIsInReach /\ ExpectsOwnWrites /\ ReceiptsMatchLedger

\* The inductive invariant behind StackCoherent and InverseReversesHead: the
\* chains alone do not say that the revisions they compare exist, nor that a
\* new command id is not one already in reach.
IInv == RecordsInv /\ StackCoherent

\* A scope leaves that takes a command off the stack of u although an object
\* the command changed stays behind.
SplitsACommand ==
    LET gone == here \ here' IN
    \E u \in Users : \E cmd \in Reachable(u) :
        ~ Stays(cmd, gone) /\ DOMAIN changes[u][cmd] \ gone # {}

\* Every behaviour but those that split a command: StackCoherent and
\* InverseReversesHead do not survive them.
WholeCommands == Init /\ [][Next /\ ~ SplitsACommand]_vars

Undoes(u, cmd) == HeadIs(stack[u].undo, cmd) /\ stack'[u].redo = Append(stack[u].redo, cmd)
Redoes(u, cmd) ==
    /\ HeadIs(stack[u].redo, cmd)
    /\ stack'[u].undo = Append(stack[u].undo, cmd)
    /\ stack'[u].redo = Popped(stack[u].redo)

\* An undo replaces exactly what its command did, on every member: the
\* content it finds is the content the command left, and the content it
\* writes is the content the command found; a redo the other way round.
\* "A new command must not make an older inverse cross an intervening
\* untracked edit" (command-service.ts:111).
InverseReversesHead ==
    [][\A u \in Users : \A cmd \in DOMAIN changes[u] : \A o \in DOMAIN changes[u][cmd] :
        /\ Undoes(u, cmd) => /\ Current(o).content = After(rev, changes[u], cmd, o)
                             /\ Current(o)'.content = Before(rev, changes[u], cmd, o)
        /\ Redoes(u, cmd) => /\ Current(o).content = Before(rev, changes[u], cmd, o)
                             /\ Current(o)'.content = After(rev, changes[u], cmd, o)]_vars
=============================================================================
