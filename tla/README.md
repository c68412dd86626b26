# Chronelle in TLA+

Models, model-checking runs and proofs of the parts of Chronelle whose
correctness depends on the order things happen in. Paths are relative to the
repository; `object-model` stands for `packages/object-model/src`, `api` for
`apps/api/src`, `web` for `apps/web`.

## The system

Chronelle keeps a family's planning records (Events, Tasks, Expenses,
Reminders, Notes, People cards, Documents) in *spaces* (workspaces). An API
server runs every operation as one PostgreSQL transaction; web and WeChat
clients call it. There are no workers or queues: concurrency is that of
transactions, of requests that read in one transaction and write in another,
of bytes in a storage that is no part of a transaction, and of browser tabs
that keep state of their own over a network that delays and loses answers.

| Part | State | Operations | What is hard |
| --- | --- | --- | --- |
| Content commands (`object-model/command-service.ts`, `command-store.ts`) | per user and space an undo and a redo stack with the object versions it expects; receipts and their changes | execute, undo, redo, replay of a recorded operation | other users and other writes change the same objects between a command and its inverse |
| Revision ledger, restoration (`object-revisions.ts`, `restoration-*.ts`) | one snapshot per version | record, restore | what a snapshot does not restore |
| Canonical objects (`object-service.ts`) | rows with space, permission scope, parent, section, Trash and version; the ledger of creations | create once per command, update, Trash, change of scope | an update reads before it takes the fence; cascades |
| Trash and recovery (`recovery-service.ts`, `recovery-reads.ts`) | `deletedAt`, `deletedWith` | recover | what comes back with what, under whom |
| Moves (`object-move.ts`) | the space of an Event and all it scopes | targets, preview, move | foreign keys, stacks, links, grants and labels left behind; two fences |
| Sections, ranks (`sections.ts`, `schemas/src/rank.ts`) | sections of an Event's views and their order | create, update, delete | neighbours, equal ranks |
| Friends (`api/friends/friend-store.ts`) | requests and invitations | invite, request, respond, withdraw, remove, resend, link, claim, accept | several answers to one item; no fence is taken |
| Waiting shares (`api/sharing/pending-share-store.ts`) | shares queued on a request or an invitation | queue, revoke; settle, lapse and carry inside the friend store's transactions | a share queued while its item is being answered |
| Authorization, grants (`packages/authorization/src`) | members, grants, narrowed grants; the fence of a space | can, predicates, share, revoke, leave | two evaluations that must agree; the fence and its order |
| Spaces and members (`api/workspaces/membership-store.ts`) | members and their roles | create, rename, add, change, remove, leave, delete | the last Owner; deleting a space that is being filled |
| Documents (`document-service.ts`, `document-transfers.ts`, `packages/storage`) | transfers, stored bytes | authorize, upload, finalize, download | bytes and rows are not one transaction |
| Event pages (`event-layout-service.ts`; `web/lib/event-layout-queries.ts`, `layout-undo.ts`) | revisions of an Event's layout; a tab's cached layout and undo stacks | read, save, restore, undo, redo | late answers, other tabs |
| Drafts of new records (`web/lib/editor-draft-store.ts`, `editor-draft-context.tsx`, `queries.ts`, editors under `web/features`; `event-context-service.ts`) | a tab's retained drafts, mounted editors, creations on their way | keep, resume, discard, save, retry | lost answers, an editor left while its save is pending |
| Identity and sessions (`api/authentication`, `api/identity`) | accounts, credentials, sessions | sign up, sign in, verify, reset | single-use tokens, expiry |
| Labels, relations | rows under the fence | create, update, remove | idempotent retries |
| Database functions (`infrastructure/migrations`), CloudBase adapters | the same tables | the same operations in PL/pgSQL | must stay the twin of the services |
| The rest of the clients, seed data, operations | | | |

**How they interact.** A write to a space takes its *fence*
(`withStableAuthorization`: the workspace row FOR NO KEY UPDATE), so writes of
one space are serial; a move takes two fences in id order. Reads that come
before the fence are checked under it by version. The friend store takes no
fence: its transactions are ordered only by row locks, and answering a request
settles waiting shares into grants of a space whose fence it does not hold.
Commands call the object service's update inside their own transaction; a move
prunes the command stacks of the space it leaves. A tab's draft carries the id
of a command, by which the server finds what an earlier try created. A tab saves
a layout at the version it shows, and the server refuses any other.

**What makes each part correct.** The properties in brackets are checked; the
others belong to the parts of the plan.

- Commands: an inverse writes back exactly what its command changed, and never
  crosses an edit the stack does not know of (`InverseReversesHead`,
  `StackCoherent`, `ExpectsWhatIsInReach`); a command's second edit expects what
  its first wrote (`ExpectsOwnWrites`); a repeated operation runs once
  (`ReceiptsMatchLedger`); stacks are bounded (`StackBounded`).
- Objects, Trash and moves: families are one level deep, in one space, and never
  half in Trash (`OneLevelDeep`, `NoLiveOrphan`); a recovery brings back what went
  with the task (`BringsBackWhatItTook`); scopes, parents and sections belong
  together (`ScopeInSpace`, `AttachesWithinScope`, `TakesSectionOfItsEvent`).
- Friends and waiting shares: every waiting share can still be answered
  (`NoShareStrandedAlone`, as long as no two transactions overlap; finding 4); an
  ended one stays ended (`EndedSharesStayEnded`); a grant needs an answer that has
  asked, since it held the share, whether this sharer may share
  (`GrantsAnswerTheirShare`).
- Spaces: a live shared space keeps an Owner and a Personal space its own
  (`SpacesKeepAnOwner`); a deleted space has nothing live in it and gets nothing
  (`DeletedSpacesAreClosed`).
- Fences: what was decided under them still holds at commit (`FencedInv`), the
  interleaved transactions implement one-step operations (`ActsAsIfAlone`), and
  no two wait for each other (`EveryTransactionEnds`).
- Documents: one document per upload (`OneDocumentPerUpload`), never without the
  declared bytes (`DocumentsHaveTheirBytes`); a consumed upload can still be
  finalized (`ConsumedUploadsAreStored`); a transfer is used once
  (`ConsumedOnce`), by somebody who may at that moment (`CompletesAsAllowed`).
- Event pages: a tab never shows an older layout after a newer one
  (`LayoutsNeverGoBack`), its stacks are its own latest changes
  (`StacksFollowTheirTab`), and an undo takes back nobody else's
  (`UndosStayWithTheirTab`).
- Drafts: an unchanged retry makes one record (`RetriesMakeOneObject`), two saves
  make two (`SavesAreTheirOwn`), a command keeps its input
  (`CommandsKeepTheirInput`), an answer touches its own draft
  (`AnswersSettleTheirSave`), every pending save settles (`PendingSavesSettle`)
  and the store stays within its limit (`StoreIsBounded`).
- Authorization: the predicate and the evaluation agree. Sessions: a token is
  used at most once and never after its expiry. Ranks: a rank between two others
  exists and sorts between them.

## Modules

| Module | Models |
| --- | --- |
| `ReversibleCommands` | the command stacks, receipts and ledger, against writes outside the stacks and moves |
| `ObjectLifecycle` | space, scope, parent, section and Trash state of Events, Tasks and People cards |
| `WaitingShares` | requests, invitations and the shares that wait on them, as overlapping transactions |
| `Spaces` | spaces, members, and what they do with records, each operation as one step |
| `SpaceFences` | the transactions behind `Spaces`, which they implement |
| `DocumentTransfers` | uploads and downloads, their bytes and the documents made from them |
| `EventLayouts` | the versioned layout of an Event, tabs' caches of it and their undo stacks |
| `EditorDrafts` | a tab's drafts of new records, their saves, and the ledger of creations |
| `Filters` | `Array.prototype.filter`, as a recursive function |
| `...Proofs` | the proofs about the module of that name; those about `Spaces` are in `SpaceFencesProofs` |
| `FilterTheorems` | what filtering a sequence keeps, and an induction over the natural numbers |
| `MC...` | symmetry sets, small definitions and history variables for TLC |

### ReversibleCommands

`rev[o]` is the ledger of an object: one record per version with the content,
the fields restoration keeps (`kept`), its Trash state and its space.
`stack[u]` is a row of `command_stacks`, `changes[u]` the versions a command
read and wrote, `receipts` the answered operations. `Execute` and `Transition`
(undo and redo) are whole transactions under the fence: guards from the
service's refusals, then the writes, the stack and the receipt. `UntrackedEdit`
is a PATCH, `TrashOrRecover` and `ChangeAccess` what else changes an object's
version or who may edit it. `MoveAway` and `MoveBack` are the move, with
`PrunedStack` for `pruneCommandStacks`. Content is a small number instead of the
fields of an edit, since the properties compare contents and never look inside.
`SplitsACommand` is a move that takes away only some of the objects a command in
reach has changed: finding 1 is about those, and `WholeCommands` is every
behaviour without them.

### ObjectLifecycle

`rows` holds the row of every object; objects not created have none. An update
is two steps, as in `updateTask`: `OpenEdit` reads the task in a snapshot,
`SaveEdit` runs under the fence with what was read, and `DropEdit` is a conflict
or a request that is never sent. All other operations are one step. `taken` is a
history variable, the subtasks a task last took to Trash, so that "brings back
exactly those" can be stated without the mark (`deletedWith`) the code uses.
Permissions are those of an Owner of every space. A request the code refuses is
not a step.

### WaitingShares

Two accounts, the host of a record and a guest who may not have signed up yet.
Transactions run at READ COMMITTED. One that decides from rows it has locked is
one step at its commit. The others are several; a session runs one at a time,
and any of them may be rolled back:

- `queue` and a withdrawal or refusal read in a `Begin` step and write in a
  `Finish` step.
- An answer (`BeginRespond`, or `BeginTake` for `accept` and `claimInvitations`)
  locks its request or invitation. It then locks the shares that wait on it:
  `Settle` those of a request, `Hand` those of a link, `Carry` those a claim
  moves to the connection and settles there. `Ask` is one statement for one
  share: `chronelle_can_share`, of rows the answer neither locks nor fences, and
  for a link whether the taker has the record. The last step writes the shares
  and the grants as they were decided, whatever has become of the permission.
  The rows an answer writes on the way it holds locked, and nobody sees them
  before the commit, so they are written there in one step.
- `ChangeOwner`, `TrashOrRecover` and `ChangeGrant` are what decides the
  permission. They go on between the steps of an answer; a queue holds the fence
  against them, except against a new Owner.

`Holds`, `SharesHeld` and `Fenced` say what an open transaction keeps from
others. Roles are left out: whoever holds a grant holds the shared role, and an
Owner is one by a membership or by a grant. A claim takes one invitation: an
address has at most one pending invitation of an account
(`user_invitations_pending_idx`).

`MCWaitingShares` adds two histories. `overlapped` is whether two transactions
have ever been open at once: with it the property that finding 4 refutes is
checked for every serial history of the same instance. `could` is, for each
share an answer holds, who could share its record at some moment since. That an
answer grants for a sharer who may share at the commit is not true of the code
(see the end of the findings); that it has asked, of this sharer and not before
it held the share, is. `MCSpec` bounds nothing and is what the theorems are
about; the runs add `HostShares`.

### Spaces and SpaceFences

`Spaces` is the abstract specification: the state of every space, the role of
each user in it, where each record is and whether it is in Trash, who queued the
share that waits on it, and whether the guest has a grant. `Operations` is what
a user may ask for, `May(op)` the conditions under which the code does it,
`Do(op)` what it writes; `Found` is the creation of a space (a Personal one at
the first sign-in) and `Settle` an answer to the guest's request. Each is one
step. A waiting share and a grant are kept per record; the guest is no member.

`SpaceFences` has the same variables and two more: the transaction each session
has open, with the fences it holds, and the open answer to each waiting share.
`Begin` and `Resume` take the next fence in the order of ids
(`withStableAuthorizationAcross`, `lockedRole`); under the last one the
transaction decides (`May`) from what is committed then, and writes only at
`Commit`. Between the two other sessions, sign-ins and answers go on. An answer
holds no fence: it locks its share, decides, and writes later, and `Rows` are
the locks that make a deletion, a move, a queue and a revocation wait for it.
`RollBack` is a lost connection, a failed statement or the victim of a deadlock.
`Atomic == INSTANCE Spaces WITH ...` is the refinement: each detailed step is a
step of `Spaces` or changes none of its variables. With decisions and writes
apart, it says that no operation commits what it could not have decided at its
commit, in one space or in two.

### DocumentTransfers

`upload` and `download` are the rows of `document_transfer_authorizations`,
`stored` what is at the storage key of an upload, `document` the Documents.
Storage is no part of a transaction, so every request is several steps, kept in
`doing`: it finds its transfer, does its storage work, and writes its rows in a
transaction of its own. `Abandon` ends it after any of them (a crash, a lost
connection, a refusal). `Expire`, `ChangeAccess` and `PutDirectly` (bytes, right
or wrong, put straight to the provider) happen at any moment. `WriteObject` is
the storage's own rule: bytes are published where there are none, and bytes that
are there must be the same. `uses` and `served` count what was recorded and what
was handed over.

### EventLayouts

`saved` is the history of the layout, one revision per version, with who saved
it and, of an undo or redo, which version it brought back. A tab has a `cached`
version, an `undo` state (`layout-undo.ts`), an open read and the answers it has
not had. A save is one step with its handling on the server: it is accepted only
at the version the tab shows and while that is the latest, and a refused one
changes nothing but may be tried again. `Accept` is `acceptLayout`, for any of
the answers the tab waits for, in any order or never. An arrangement of pages is
named by the version that first had it. A reload of the page is a new tab. What
a tab knows of another tab is what the other has saved, so one tab that is
followed and one client that only saves show every interleaving that matters to
it; the proofs hold for any number of both.

### EditorDrafts

One tab, with its store (`drafts`, in the `order` the store evicts by), the
editors that are mounted, the creations it has sent (`requests`, with what each
side knows of them) and the server's `ledger` of creation commands. An editor is
a dialog, which offers what it finds in the store, or the composer of an add
row, which takes it up by itself. `Type`, `RoomChanges` and `OpenEmpty` include
the effect that keeps or forgets the draft; `Submit` is `save` with `commandFor`;
`Handle` is the server's transaction, which holds the fence and is one step;
`Succeed`, `Deny` and `Fail` are the three ways the promise of a save settles,
`Fail` at any moment and whether or not the server has handled or will handle
the request. `EndSession` is a sign-out, a reload or another space. `last` is a
history variable by which `retries` is known: the request is the same text from
the same draft as the one before. A denied reply is recorded only while somebody
waits for it.

## Runs

| Run | Instance | Shows |
| --- | --- | --- |
| `commands` | 1 user, a Task and an Event, 2 contents, 3 operations with retries, commands of 1 or 2 edits, stack limit 2, 4 versions, an Event that leaves and returns | the inductive invariant; stacks expect their own writes and nothing else; an inverse reverses its command; receipts match the ledger |
| `crossmove` (violation) | the same with moves that split a command | finding 1 |
| `spaces` | 2 tasks, an Event with a section, a People card, 2 spaces, 3 versions | families, cascades, scopes, parents and sections across Trash, recovery, moves, rescoping and stale reads |
| `subtaskscope`, `stuckmove` (violations) | smaller instances of the same | findings 2, 3 |
| `concurrent` | 2 sessions, 2 requests, 1 invitation, 2 shares of a record of the host (`HostShares`) | ended shares stay ended; a grant answers its share and was asked for under its lock; nothing waits on an answered item unless transactions overlapped |
| `stranded` (violation) | the same | finding 4 |
| `fences` | 2 transactions, 2 users, a Personal and a shared space, an Event and a task scoped to it, an answer | the transactions implement `Spaces`; Owners and deleted spaces; every transaction ends |
| `documents` | 2 uploads, 2 downloads, 2 Documents, 2 requests | one document per upload, bytes before rows, single use, revocation and expiry |
| `layouts` | 1 tab followed, 1 other client, 5 versions, stacks of 2 | no older layout, stacks along the tab's own changes |
| `drafts` | a dialog and a composer, 2 texts, a store of 1 draft, 2 creations | retries, answers, the limit, and that every pending save settles |
| `tracked` (violation) | the same | finding 5 |

**Bounds.** The finite sets and numbers of the configurations are the only
bounds; each is a CONSTANT.

- A stack limit of 2 is enough for a command to fall off the end while two
  remain. To a stack another user's command is an edit it does not know of, so
  one user with `UntrackedEdit` meets all of them; the proofs hold for any number
  of users. Four versions let two commands and an inverse meet an untracked edit.
  The Task is what a user may lose the permission for (`EventIsEdited`).
- Two tasks are a family, with room for each to be the other's parent; families
  of any size are covered by the proofs. Two spaces are what a move needs. Three
  versions let a family be attached at its creation, trashed and recovered, or
  attached by an update and trashed, with another update open; longer histories
  are covered by the proofs; the People card, which no rule about tasks reads,
  is written once after it was created (`FewCardsSpec`).
- Two requests of one pair are one that ended and its successor. Two overlapping
  transactions are what a race needs; the fence admits only one queue at a time.
  `HostShares` keeps the guest from owning the record, so every share is queued
  by the host, and keeps the host an Owner while the record is in Trash, so the
  permission is lost in one of the two ways at a time. That a share is queued
  again under the other account's name is covered by the proofs only.
- Two spaces in either order make the two opposite moves; an Event and a task
  make a move that carries more than its record.
- Two requests over one upload, with a second upload beside it, are the race of
  `finalize`; a second download is what a wrong consumption would hit.
- Three edits make a stack of two drop its oldest version; five versions leave
  room for an undo and another client's save after them, with answers still out.
- A store of one draft with two keys is full as soon as one draft is kept, and
  full of pending ones as soon as it is sent. Which of several drafts is let go
  first does not arise in the run: that is left to the proof, which holds for any
  limit. Two creations are a try and its retry, or a save and the next one. With three the run passes ten million
  states; the proofs hold for any number.

`CHECK_DEADLOCK FALSE` is set where versions, ids or requests run out; `fences`
checks deadlock.

**Fairness.** Two runs check liveness.

- `SpaceFences`: strong fairness of `Proceed` (take the next fence, or commit)
  for each session. PostgreSQL queues who waits for a row lock, so a transaction
  that waits gets its turn although others take the row before it; weak fairness
  would not say that, since the lock is not free all the time. Weak fairness of
  `EndAnswer`: an open answer waits for nothing. `RollBack` has no fairness: the
  property holds without a deadlock detector that ends one of two transactions,
  and breaks when fences are taken in the order of the request.
- `EditorDrafts`: weak fairness of `Answer`: the transport gives every request a
  timeout, so its promise settles. Nothing is assumed of the person, of the
  server or of the network.

Elsewhere the steps are requests that may never come, and what must happen in
the end (a waiting share must end) is stated as a safety invariant: a share
never waits on an item that no longer can be answered.

**Mutants.** Operators commented "Mutant of X" are plausible wrong forms of X.
They are used by nothing; replacing X by one must break the property PROJECT.json
names beside it.

## Proofs

TLAPS checks all eight proof modules completely, for every value of the
constants that the named assumptions allow.

*ReversibleCommands.* `RecordsInv` holds whatever a move carries: types, the
bounds of the stacks, receipts that agree with the changes and the ledger on
every command ever executed, and expectations that name what is in reach and
what its own commands wrote. It gives `TypeCorrectness`, `StacksStayBounded`,
`StacksExpectTheirWrites`, `ExpectationsAreInReach` and `ReceiptsTellTheLedger`,
for every behaviour of the specification. `IInv` adds `StackCoherent`: the
expected version of an object is what the command nearest the heads wrote or
restored it to. With a move that splits a command that is false (finding 1), so
`StacksStayCoherent` and `InversesReverseTheirCommand` are theorems of
`WholeCommands`. `StackCoherent` speaks of every two commands that follow one
another on an object, since a step pops a head and exposes an older one. It is
not inductive alone: what it compares must be in the ledger already, and every
object that a reachable command changed must have an expectation
(`ChangesRecorded`, `ExpectsWhatIsInReach`). A move that splits none removes
whole commands from the stacks, and what is left is a subsequence, whose
commands still follow one another.

*ObjectLifecycle.* `LifecycleInv` is inductive without assumptions beyond the
named ones on the constants: types, `OneLevelDeep`, `NoLiveOrphan`,
`MarksAreCurrent`, that the marks agree with the history `taken`
(`MarksAreHistory`), and that an open update read its task in the past
(`DraftIsPast`). The last is what makes `SaveEdit` safe: as long as the version
is the one it read, so are the parent and the scope, so no rule was skipped.
`FamiliesStayWhole`, `FamiliesStayShallow` and `RecoveryIsExact` follow, moves
included, and so do the two properties of a step, `TasksAttachWithinScope` and
`TasksTakeSectionsOfTheirEvent`. `ScopesStayInTheirSpace` adds `ScopeInSpace` to
the invariant: a change of scope stays in the space, and a move that succeeds has
found no record scoped to one it carries that it does not carry too.

*WaitingShares.* `WaitInv` says what row locks are for: no two open transactions
hold one item or one share (`LocksExclude`), what a transaction read of what it
holds is still so (`ReadsStand`), and a share waits on one item at most
(`WaitsOnOne`). So the shares an answer asks of, and those it is to grant, are
pending and wait on what it answers until it commits (`AnswerStands`), and no
share that a withdrawal or a refusal has read is granted or waits elsewhere when
it writes, which makes `EndsAreFinal` a theorem of all interleavings.
`ReadsStand` is proved session by session (`ReadApart`): a step is one of the
session's own, or it leaves what others hold alone (`DoingStep`, `FinishStep`,
`QuietStep`). `AskedInv` links the history `could` to the locks: who may share
now is in it as long as the share is held, and so is every sharer for whom an
answer has decided to grant; nobody else can change the sharer of a share that
is held. It gives `GrantsComeFromAnswers`. What is read without a lock is in
none of these, and `NoShareStranded` is false for that reason (finding 4).
`AloneInv` adds, for histories in which no two transactions were open at once,
that what the open one read without a lock is still so (`OneIsOpen`, `StillSo`),
and that an answer has asked of every share that waits on what it answers;
`NoneIsStrandedAlone` follows.

*Spaces.* (in `SpaceFencesProofs`) `SpacesInv` adds to the two properties that a
space nobody created has no members and that a record is in the space of its
scope. The second is what a move needs: it empties a space of an Event only if
everything the Event scopes goes with it. `OwnersAreKept` and `DeletionIsFinal`
follow.

*SpaceFences.* `FencesInv` is `SpacesInv` with `FencedInv`: fences exclude, a
transaction that decided holds all of them, an open answer's share still waits,
and what was decided still holds (`DecisionsStand`). The argument is that
everything `May(op)` reads belongs to the spaces of `op`
(`DecisionsAreMadeInTheirFences`), that an operation writes only in its own
(`OperationsStayInTheirFences`), and that what goes on without a fence, sign-ins
and answers, writes nothing a decision reads: the answer adds a grant and ends a
waiting share, which the locks of `Rows` keep from the operations that read
them. `FencedSpacesAreSafe` carries the two properties over to the detailed
transactions, and `TransactionsAreAtomic` is the refinement: a commit is the
operation, every other step of a session a stutter.

*DocumentTransfers.* `TransfersInv` adds what the rows keep of the past
(`RowsRecordUses`) and what a request that is between two steps still finds
(`FindingsStand`): bytes that were inspected or written stay, since nothing is
published over them, and a recorded download belongs to one request until it is
served. `UploadsMakeOneDocument`, `DocumentsKeepTheirBytes`,
`ConsumedUploadsStayStored`, `TransfersAreUsedOnce` and
`RevocationPreventsCompletion` follow.

*EventLayouts.* `LayoutsInv` adds to `UndosStayWithTheirTab` that what a tab holds
is of the past, that an open read is no older than what the tab shows, and that
since each version in a tab's stacks the tab alone has saved, up to the version
the stacks belong to. Without the last an undo of an old entry could cross
another tab's version. `UndosTakeBackTheirTab` and `LayoutsOnlyMoveForward`
follow. `StacksKeepTheirChain` is about `Chain`, which says by recursion over
the ledger what the stacks of a tab are to hold. The proof first shows that the
recursion has a solution and only one (`ChainsExist`, `ChainsAgree`), so that a
longer ledger has the chain of a shorter one as its beginning; then that the
stacks of a tab are the upper ends of the chain's at the version they belong to,
and that an answer moves both by the same step, the cut at the stack limit
included.

*EditorDrafts.* `DraftsInv` says whose each command is: the first request that
carries an id drew it, all that carry it agree in key and text
(`CommandsAreDrawn`); the attempts of an editor and of its draft are the same and
so drawn (`AttemptsAreDrawn`); a command waits at most once, with its draft
(`OneRequestAtATime`, `SavingHasItsCommand`, `PendingIsUnanswered`); one reported
as done is kept by no draft or editor (`SavedIsOver`); and the ledger has the
text of the command (`LedgerIsRight`). A late answer needs all of them: it finds
a store, an editor and a ledger that have moved on. `RetriesCreateOnce`,
`SavesCreateTheirOwn`, `CommandsAreNotReused`, `AnsweredDraftsAreSettled` and
`AnswersAreTheirDrafts` follow. `StoreStaysBounded` needs another invariant,
`OrderInv`: the order of the store has each kept draft once. A draft is taken in
only when the store has room or a settled draft, and then the first settled one
of the order is what goes.

*Filters.* The library's induction theorems take an operator as a parameter,
which no installed prover can instantiate. `Induct` says the same of a set of
numbers, and each induction is done over a set made for it. With it
`FilterTheorems` shows that `Filtered` has a solution and that a filtered
sequence is a subsequence with exactly the chosen entries
(`FilteredIsSubsequence`); the pruned stacks of a move and the evictions of the
store rest on that. What is recursive is written as a recursive function for
this reason.

*Only model-checked* is liveness, `EveryTransactionEnds` and
`PendingSavesSettle`: liveness under fairness and `ENABLED` are out of the
prover's reach.

## Findings

1. **A move leaves an expectation its stack no longer earns** (`crossmove`).
   `pruneCommandStacks` removes a command that changed a moved record and
   another one, but keeps the other's expected version because an older command
   names it too. Undoing that older command overwrites the removed one's edit.
2. **A change of scope splits a family** (`subtaskscope`): the subtask's and the
   task's scope differ, which the docs exclude and a later move answers with an
   internal error. In the same way a task keeps its section of the Event it
   leaves; no run is spent on that.
3. **An Event that can never move** (`stuckmove`): a record scoped to one of its
   tasks is not carried, and the foreign key fails on every attempt, reported as
   a conflict with another write.
4. **A share queued while its request is answered waits for ever** (`stranded`).
   `sentItem` reads the request without a lock; the answer finds no share to
   settle. The database function does the same.
5. **A pending save is forgotten** (`tracked`). A composer opened while its own
   draft is being saved takes no draft up, starts empty, and its first effect
   forgets the key with the pending draft under it. If the save fails or its
   answer is lost, the text and the command a retry would carry are gone, and
   the record typed again may be made twice. Some rows open by themselves
   (`web/lib/use-open-row.ts`), so nobody has to press anything.

**Seen on the way**, without a run:

- An answer grants a share whose record is put in Trash, or whose sharer stops
  being an Owner, after it asked and before it commits: it asks of rows it
  neither locks nor fences (`pending-share-store.ts`, `friend-store.ts`). The
  comment of `settlePendingShares` says "while it can still share the resource"
  and `docs/api.md` that "a record in Trash lapses silently". The model has
  these steps; the grant stands, and gives access again if the record comes back.
- `restoration-policy.ts` keeps rank, assignee, labels, parent and section by
  design, so an undo restores less than an edit may set, while
  `docs/commands.md` counts the typed fields as reversible.
- `useForgetInaccessibleEventDrafts` forgets the keys of an Event's dialogs, not
  those of its composers, which stay in the store after the access is lost.
- A composer that is asked for another row may discard its draft while the save
  is pending; a dialog may not.
- `finalizeUpload` does not ask for the time left again under the fence; its
  database function does. `receiveUpload` consumes with the time at which the
  request began. Both let an upload that was in time when it was found finish,
  which is what `docs/object-model.md` promises of a consumed one.

## Not modelled

- The database functions and CloudBase adapters: they are to behave as the
  services do. Findings 1 and 4 were read in them too.
- A repeated operation id with another request, which the commands refuse by its
  hash. An upload that expires between its stored bytes and its consumption: what
  the code does then is under "Seen on the way", and no property is about it.
- Dates, amounts, labels, assignees, messages and all other data no property
  compares; lists, search and projections, which only read; audit events, but
  for the uses of transfers.
- Links and labels that a move drops or joins, and narrowed grants.
- Daily limits, resend intervals and the linking of cards to accounts.
- The evaluation of roles and grants against its SQL twin, ranks, sessions and
  accounts: see the plan.
- Of the clients: drafts of edits, whose comparison with a newer version is a
  three-way merge of fields; the buttons of the command history; every view; the
  sandbox, a second implementation of the API in the browser for
  demonstrations; the WeChat client. The `failed` mark of a draft, which is only
  shown.
- The HTTP boundary and the API client, which parse and validate; storage
  providers beyond the rule that bytes are not overwritten; operator tools,
  seed data, schema and migrations, which have no protocol of their own.

## Plan

1. `AccessPolicy`: the role an account holds by membership, grants and narrowed
   grants, as the service evaluates it and as the predicates do; compared over
   all small configurations.
2. `Ranks` and the placement of sections, as a pure algorithm.
3. `Sessions`: single-use tokens, expiry, and the creation of an account with its
   Personal space.
