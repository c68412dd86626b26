----------------------------- MODULE EditorDrafts -----------------------------
(***************************************************************************)
(* The drafts of new records in one browser tab, and the creation they     *)
(* send: the tab's store of drafts (apps/web/lib/editor-draft-store.ts),   *)
(* the editors that keep, save and discard them                            *)
(* (lib/editor-draft-context.tsx, features/events, features/tasks), the    *)
(* command an unchanged retry carries (lib/queries.ts) and the server's    *)
(* ledger of creations (object-service.ts, event-context-service.ts).      *)
(*                                                                         *)
(* Answers are lost, late or never sent; the person leaves an editor and   *)
(* comes back while its save is on its way.  A dialog offers what it finds *)
(* in the store; a composer (an add row) takes it up by itself.  The       *)
(* server's transaction holds the fence of its space, so it is one step.   *)
(***************************************************************************)
EXTENDS Integers, FiniteSets, Sequences, Filters

CONSTANTS
    Dialogs,     \* keys of drafts that a dialog edits
    Composers,   \* keys of drafts that an add row's composer edits
    Texts,       \* what a person may type
    Blank,       \* an empty editor
    NoEditor,    \* no editor is mounted
    Limit,       \* drafts a tab retains (twenty in the code)
    MaxRequests  \* bound: creations sent

Keys == Dialogs \cup Composers

ASSUME KeysAreApart == Dialogs \cap Composers = {}
ASSUME BlankIsNoText == Blank \notin Texts
ASSUME NoEditorIsNone == NoEditor \notin [text: Texts \cup {Blank}, attempt: Nat, room: BOOLEAN]
ASSUME LimitIsPositive == Limit \in Nat \ {0}
ASSUME RequestsAreBounded == MaxRequests \in Nat

VARIABLES
    drafts,    \* the store: the drafts kept, by key
    order,     \* the keys of the store, the one changed longest ago first
    editors,   \* the editor mounted for each key, or NoEditor
    requests,  \* the creations sent, with what became of them on both sides
    ledger,    \* object_create_commands: what each command created
    allowed,   \* the person may edit the Event (or create in the space)
    last       \* history: the last request of the draft in the store, or 0

vars == <<drafts, order, editors, requests, ledger, allowed, last>>

-----------------------------------------------------------------------------
Sent == DOMAIN requests
Kept == DOMAIN drafts
Open(k) == editors[k] # NoEditor

\* A command is named by the request that drew its id; an attempt of 0 has
\* none.  An editor and the draft it keeps share one attempt.
Attempts == 0 .. MaxRequests
Draft == [text: Texts, attempt: Attempts, saving: Attempts]
Editor == [text: Texts \cup {Blank}, attempt: Attempts, room: BOOLEAN]
Request == [key: Keys, text: Texts, command: Attempts,
            client: {"waiting", "saved", "failed", "left"},
            reply: {"none", "object", "denied", "conflict"},
            object: Attempts, retries: Attempts]

Pending(k) == k \in Kept /\ drafts[k].saving # 0
Waiting(i) == i \in Sent /\ requests[i].client = "waiting"

\* isPending of the editor's own mutation.
Busy(k) ==
    /\ Open(k)
    /\ \E i \in Sent : Waiting(i) /\ requests[i].command = editors[k].attempt

-----------------------------------------------------------------------------
\* canKeep
CanKeep(k) == k \in Kept \/ Cardinality(Kept) < Limit \/ \E e \in Kept : ~ Pending(e)

Before(e, f) == \E m, n \in DOMAIN order : m < n /\ order[m] = e /\ order[n] = f

\* Mutant of Evicted: a full store takes one more draft.
EvictsNone(k) == {}

\* keep: a new draft in a full store takes the place of the settled one that
\* changed longest ago.
Evicted(k) ==
    IF k \in Kept \/ Cardinality(Kept) < Limit THEN {}
    ELSE {e \in Kept : ~ Pending(e) /\ \A f \in Kept : Before(f, e) => Pending(f)}

\* What the store holds once some keys have left it and k, if any, was set.
Stored(gone, k, entry) ==
    [x \in (Kept \ gone) \cup k |-> IF x \in k THEN entry ELSE drafts[x]]
Without(gone) == Filtered(order, Keys \ gone)

\* A draft that leaves the store has no request a later one could retry.
Remember(k, i) ==
    last' = [x \in Keys |-> IF x \notin DOMAIN drafts' THEN 0
                            ELSE IF x \in k THEN i ELSE last[x]]

Forget(gone) ==
    /\ drafts' = Stored(gone, {}, 0)
    /\ order' = Without(gone)
    /\ Remember({}, 0)

\* keep, with the editor's text and attempt; nothing while a save is pending.
Keep(k, text, attempt) ==
    LET gone == Evicted(k) IN
    IF Pending(k) \/ ~ CanKeep(k) THEN UNCHANGED <<drafts, order, last>>
    ELSE /\ drafts' = Stored(gone, {k},
                        [text |-> text, attempt |-> attempt, saving |-> 0])
         /\ order' = Append(Without(gone \cup {k}), k)
         /\ Remember({}, 0)

-----------------------------------------------------------------------------
Mounted(k, text, attempt) ==
    editors' = [editors EXCEPT ![k] = [text |-> text, attempt |-> attempt,
                                       room |-> CanKeep(k)]]
Unmounted(keys) == editors' = [k \in Keys |-> IF k \in keys THEN NoEditor ELSE editors[k]]

\* An editor opens empty: a dialog when the store has nothing for it, a
\* composer also while its draft is being saved.  Its effect forgets the key.
OpenEmpty(k) ==
    /\ ~ Open(k)
    /\ k \notin Kept \/ (k \in Composers /\ Pending(k))
    /\ Mounted(k, Blank, 0)
    /\ Forget({k})
    /\ UNCHANGED <<requests, ledger, allowed>>

\* Mutant of Resumed: the editor draws a command of its own.
ResumedAnew(k) == 0

\* The attempt a resumed editor retries with.
Resumed(k) == drafts[k].attempt

\* ResumeDraft checks the access first; a composer takes its draft up as it is.
Resume(k) ==
    /\ ~ Open(k) /\ k \in Kept /\ ~ Pending(k)
    /\ allowed \/ k \in Composers
    /\ Mounted(k, drafts[k].text, Resumed(k))
    /\ Keep(k, drafts[k].text, Resumed(k))
    /\ UNCHANGED <<requests, ledger, allowed>>

\* Discard of ResumeDraft, or its check that finds the access gone.
DropKept(k) ==
    /\ k \in Dialogs /\ ~ Open(k) /\ k \in Kept /\ ~ Pending(k)
    /\ Forget({k})
    /\ UNCHANGED <<editors, requests, ledger, allowed>>

\* The fields change, and the effect keeps the draft or forgets an empty one.
Type(k, text) ==
    /\ Open(k) /\ ~ Busy(k) /\ text # editors[k].text
    /\ Mounted(k, text, editors[k].attempt)
    /\ IF text = Blank THEN Forget({k}) ELSE Keep(k, text, editors[k].attempt)
    /\ UNCHANGED <<requests, ledger, allowed>>

\* The effect again, when the room for the draft comes or goes.
RoomChanges(k) ==
    /\ Open(k) /\ editors[k].room # CanKeep(k)
    /\ Mounted(k, editors[k].text, editors[k].attempt)
    /\ IF editors[k].text = Blank THEN Forget({k})
       ELSE Keep(k, editors[k].text, editors[k].attempt)
    /\ UNCHANGED <<requests, ledger, allowed>>

\* The view goes away; the draft stays.
Leave(k) ==
    /\ Open(k)
    /\ Unmounted({k})
    /\ UNCHANGED <<drafts, order, requests, ledger, allowed, last>>

\* Cancel or Discard: not while the save of a dialog is pending, but a composer
\* that is asked for another row may discard then too.
Discard(k) ==
    /\ Open(k)
    /\ Busy(k) => k \in Composers
    /\ Unmounted({k})
    /\ Forget({k})
    /\ UNCHANGED <<requests, ledger, allowed>>

-----------------------------------------------------------------------------
\* Mutant of CommandFor: the id outlives a change of the input.
KeepsItsCommand(attempt, text) == IF attempt # 0 THEN attempt ELSE Len(requests) + 1

\* commandFor: the command of an unchanged attempt, or a fresh one.
CommandFor(attempt, text) ==
    IF attempt # 0 /\ requests[attempt].text = text THEN attempt ELSE Len(requests) + 1

\* save of useKeepEditorDraft: the draft is kept, then pending, and its creation
\* is sent.
Submit(k) ==
    LET text    == editors[k].text
        i       == Len(requests) + 1
        command == CommandFor(editors[k].attempt, text)
        gone    == Evicted(k)
    IN  /\ Open(k) /\ text # Blank
        /\ ~ Busy(k) /\ editors[k].room
        /\ CanKeep(k) /\ ~ Pending(k)
        /\ i <= MaxRequests
        /\ drafts' = Stored(gone, {k}, [text |-> text, attempt |-> command,
                                        saving |-> i])
        /\ order' = IF k \in Kept THEN order ELSE Append(Without(gone), k)
        /\ editors' = [editors EXCEPT ![k].attempt = command]
        /\ requests' = Append(requests,
              [key |-> k, text |-> text, command |-> command, client |-> "waiting",
               reply |-> "none", object |-> 0,
               retries |-> IF last[k] # 0 /\ requests[last[k]].text = text
                           THEN last[k] ELSE 0])
        /\ Remember({k}, i)
        /\ UNCHANGED <<ledger, allowed>>

\* Mutant of Created: the server does not look the command up.
CreatedAgain(i) == [text |-> requests[i].text, object |-> i]

\* The creation the ledger holds for the command, or this one.
Created(i) ==
    LET c == requests[i].command IN
    IF c \in DOMAIN ledger THEN ledger[c] ELSE [text |-> requests[i].text, object |-> i]

\* The server's transaction, before or after the tab gave up waiting: the
\* access, the ledger, the object and its row in the ledger.
Handle(i) ==
    LET r == requests[i]
        c == Created(i)
        Reply(what, object) ==
            requests' = [requests EXCEPT ![i].reply = what, ![i].object = object]
    IN  /\ i \in Sent /\ r.reply = "none"
        /\ \/ ~ allowed /\ Waiting(i) /\ Reply("denied", 0) /\ UNCHANGED ledger
           \/ allowed /\ c.text # r.text /\ Reply("conflict", 0) /\ UNCHANGED ledger
           \/ /\ allowed /\ c.text = r.text
              /\ Reply("object", c.object)
              /\ ledger' = [x \in DOMAIN ledger \cup {r.command} |->
                              IF x = r.command THEN c ELSE ledger[x]]
        /\ UNCHANGED <<drafts, order, editors, allowed, last>>

-----------------------------------------------------------------------------
\* Mutant of IsSaving: the store does not compare the draft with its save.
AnyDraftOfTheKey(i) == requests[i].key \in Kept

\* this.get(id) === saving
IsSaving(i) == requests[i].key \in Kept /\ drafts[requests[i].key].saving = i

\* The editor that sent the request is still mounted.
StillMounted(i) ==
    LET k == requests[i].key IN Open(k) /\ editors[k].attempt = requests[i].command

Settled(i, outcome) == requests' = [requests EXCEPT ![i].client = outcome]
Closes(i) == Unmounted(IF StillMounted(i) THEN {requests[i].key} ELSE {})

\* Mutant of Finished: the attempt outlives its success.
FinishedWithAttempt(i) == [editors[requests[i].key] EXCEPT !.text = Blank]

\* What a composer shows after it created: an empty row, for the next command.
Finished(i) == [editors[requests[i].key] EXCEPT !.text = Blank, !.attempt = 0]

\* save resolves: the draft goes, and the editor closes or starts over.
Succeed(i) ==
    LET k == requests[i].key IN
    /\ Waiting(i) /\ requests[i].reply = "object"
    /\ Settled(i, "saved")
    /\ Forget(IF IsSaving(i) THEN {k} ELSE {})
    /\ IF StillMounted(i) /\ k \in Composers
       THEN editors' = [editors EXCEPT ![k] = Finished(i)]
       ELSE Closes(i)
    /\ UNCHANGED <<ledger, allowed>>

\* save rejects with 401, 403 or 404: the draft goes and the editor closes.
Deny(i) ==
    /\ Waiting(i) /\ requests[i].reply = "denied"
    /\ Settled(i, "failed")
    /\ Forget(IF IsSaving(i) THEN {requests[i].key} ELSE {})
    /\ Closes(i)
    /\ UNCHANGED <<ledger, allowed>>

\* Mutant of Failed: the draft of a failed save stays pending.
FailedAndPending(draft) == draft

\* The draft of a failed save may be edited and saved again.
Failed(draft) == [draft EXCEPT !.saving = 0]

\* save rejects for any other reason: a refusal, a lost answer or the timeout
\* of the request, at any moment.
Fail(i) ==
    LET k == requests[i].key IN
    /\ Waiting(i)
    /\ Settled(i, "failed")
    /\ drafts' = IF IsSaving(i) THEN [drafts EXCEPT ![k] = Failed(@)] ELSE drafts
    /\ UNCHANGED <<order, editors, ledger, allowed, last>>

-----------------------------------------------------------------------------
\* Sign-out, reload or another space: the store is cleared, requests aborted.
EndSession ==
    /\ \E k \in Keys : Open(k) \/ k \in Kept
    /\ Forget(Keys)
    /\ Unmounted(Keys)
    /\ requests' = [i \in Sent |-> IF Waiting(i) THEN [requests[i] EXCEPT !.client = "left"]
                                   ELSE requests[i]]
    /\ UNCHANGED <<ledger, allowed>>

ChangeAccess ==
    /\ allowed' = ~ allowed
    /\ UNCHANGED <<drafts, order, editors, requests, ledger, last>>

\* useForgetInaccessibleEventDrafts: a read of the Event was denied.
LoseAccess ==
    /\ ~ allowed
    /\ \E k \in Keys : Open(k) \/ k \in Kept \cap Dialogs
    /\ Forget(Dialogs)
    /\ Unmounted(Keys)
    /\ UNCHANGED <<requests, ledger, allowed>>

-----------------------------------------------------------------------------
Init ==
    /\ drafts = [k \in {} |-> 0]
    /\ order = <<>>
    /\ editors = [k \in Keys |-> NoEditor]
    /\ requests = <<>>
    /\ ledger = [c \in {} |-> 0]
    /\ allowed = TRUE
    /\ last = [k \in Keys |-> 0]

Edit == \E k \in Keys :
    OpenEmpty(k) \/ Resume(k) \/ DropKept(k) \/ RoomChanges(k) \/ Leave(k) \/ Discard(k)
    \/ \E text \in Texts \cup {Blank} : Type(k, text)
Answer(i) == Succeed(i) \/ Deny(i) \/ Fail(i)

Next ==
    \/ Edit
    \/ \E k \in Keys : Submit(k)
    \/ \E i \in 1 .. MaxRequests : Handle(i) \/ Answer(i)
    \/ EndSession \/ ChangeAccess \/ LoseAccess

Spec == Init /\ [][Next]_vars

\* A request is answered or times out.
Fairness == \A i \in 1 .. MaxRequests : WF_vars(Answer(i))
FairSpec == Spec /\ Fairness

-----------------------------------------------------------------------------
(* What holds of drafts and the objects they make.                         *)

\* Every variable has its type.
TypeOK ==
    /\ Kept \subseteq Keys /\ drafts \in [Kept -> Draft]
    /\ editors \in [Keys -> Editor \cup {NoEditor}]
    /\ Len(requests) <= MaxRequests /\ requests \in Seq(Request)
    /\ DOMAIN ledger \subseteq 1 .. MaxRequests
    /\ ledger \in [DOMAIN ledger -> [text: Texts, object: 1 .. MaxRequests]]
    /\ allowed \in BOOLEAN
    /\ last \in [Keys -> Attempts]

\* The store never holds more drafts than its limit, also when every draft in
\* it is pending and others are typed, and its order names each of them once.
StoreIsBounded ==
    /\ Cardinality(Kept) <= Limit
    /\ Len(order) = Cardinality(Kept) /\ {order[n] : n \in DOMAIN order} = Kept

\* The invariant behind it: the order names every draft kept, and none twice.
OrderInv ==
    /\ order \in Seq(Keys)
    /\ \A m, n \in 1 .. Len(order) : order[m] = order[n] => m = n
    /\ {order[n] : n \in 1 .. Len(order)} = Kept
    /\ Len(order) <= Limit

\* A draft that shows as saving has one request on its way with exactly the
\* text it keeps: none is locked after its answer, and no edit is kept out of
\* what is sent.
PendingIsUnanswered ==
    \A k \in Kept : Pending(k) =>
        LET i == drafts[k].saving IN
           Waiting(i) /\ requests[i].key = k /\ requests[i].text = drafts[k].text

\* A command id never reaches the server with another input (the server would
\* refuse it, "a different input under the same id returns HTTP 409
\* command_conflict", docs/api.md): also when an editor was left, resumed or
\* changed between two tries.
CommandsKeepTheirInput == \A i \in Sent : requests[i].reply # "conflict"

\* "a retry after a lost response cannot duplicate an object" (docs/api.md): a
\* draft sent again unchanged, by the editor that sent it or one that resumed
\* it, makes one object, whichever request the server handles first and however
\* late.
RetriesMakeOneObject ==
    \A i \in Sent :
        LET j == requests[i].retries IN
        j # 0 /\ requests[i].reply = "object" /\ requests[j].reply = "object"
            => requests[i].object = requests[j].object

\* Two saves that were reported as done made two objects: a second record with
\* the same text, typed after the first one was saved, is not taken for a retry.
SavesAreTheirOwn ==
    \A i, j \in Sent :
        i # j /\ requests[i].client = "saved" /\ requests[j].client = "saved"
            => requests[i].object # requests[j].object

\* A command is drawn by the first request that carries it, and the requests
\* that carry it agree in their key and text.
CommandsAreDrawn ==
    \A i \in Sent :
        LET c == requests[i].command IN
        /\ c \in Sent /\ requests[c].command = c
        /\ requests[c].text = requests[i].text /\ requests[c].key = requests[i].key

\* So are the attempts of an editor and of the draft it keeps, which agree: an
\* editor that is emptied keeps none.
Drawn(k, attempt) ==
    attempt # 0 => /\ attempt \in Sent
                   /\ requests[attempt].command = attempt /\ requests[attempt].key = k
AttemptsAreDrawn ==
    \A k \in Keys :
        /\ Open(k) => Drawn(k, editors[k].attempt)
        /\ k \in Kept => Drawn(k, drafts[k].attempt)
        /\ Open(k) /\ k \in Kept =>
              editors[k].attempt = drafts[k].attempt /\ editors[k].text # Blank

\* A command is sent once at a time: while it waits, a draft or an editor that
\* has it is the one that is being saved.
OneRequestAtATime ==
    \A i \in Sent : Waiting(i) =>
        LET c == requests[i].command IN
        /\ \A j \in Sent : Waiting(j) /\ requests[j].command = c => j = i
        /\ \A k \in Kept : drafts[k].attempt = c => drafts[k].saving = i
        /\ \A k \in Keys : Open(k) /\ editors[k].attempt = c => k \in Kept

\* A draft that is being saved has the command of its request.
SavingHasItsCommand ==
    \A k \in Kept : Pending(k) => requests[drafts[k].saving].command = drafts[k].attempt

\* A command that was reported as done is not sent, kept or edited again.
SavedIsOver ==
    \A i \in Sent : requests[i].client = "saved" =>
        LET c == requests[i].command IN
        /\ requests[i].reply = "object"
        /\ \A j \in Sent : requests[j].command = c /\ requests[j].client \in {"waiting", "saved"}
                            => j = i
        /\ \A k \in Kept : drafts[k].attempt # c
        /\ \A k \in Keys : Open(k) => editors[k].attempt # c

\* The ledger has the text of the command and the object of one of its requests,
\* and an answer says what the ledger says.
LedgerIsRight ==
    /\ \A c \in DOMAIN ledger :
          /\ c \in Sent /\ ledger[c].text = requests[c].text
          /\ ledger[c].object \in Sent /\ requests[ledger[c].object].command = c
    /\ \A i \in Sent : requests[i].reply = "object" =>
          /\ requests[i].command \in DOMAIN ledger
          /\ requests[i].object = ledger[requests[i].command].object

\* The last request of a draft in the store carried the draft's command, and so
\* did a request and the one it retries.
RetriesKeepTheirCommand ==
    /\ \A k \in Keys : last[k] # 0 =>
          k \in Kept /\ last[k] \in Sent /\ drafts[k].attempt = requests[last[k]].command
    /\ \A i \in Sent : requests[i].retries # 0 =>
          /\ requests[i].retries \in Sent
          /\ requests[requests[i].retries].command = requests[i].command

\* The inductive invariant behind the safety properties of creations.
DraftsInv ==
    /\ TypeOK /\ CommandsAreDrawn /\ AttemptsAreDrawn /\ PendingIsUnanswered
    /\ SavingHasItsCommand /\ OneRequestAtATime /\ SavedIsOver
    /\ LedgerIsRight /\ RetriesKeepTheirCommand /\ CommandsKeepTheirInput

\* An answer changes the draft whose save it answers and no other: not the one
\* typed under the same key meanwhile, nor a cleared session ("late results
\* cannot repopulate a cleared session", docs/architecture.md).
AnswersSettleTheirSave ==
    [][\A k \in Keys : \A i \in Sent :
          Waiting(i) /\ requests'[i].client \in {"saved", "failed"}
                     /\ ~ (k \in Kept /\ drafts[k].saving = i) =>
              /\ k \in Kept <=> k \in DOMAIN drafts'
              /\ k \in Kept => drafts'[k] = drafts[k]]_vars

\* Every save that shows as pending settles, so a store that is full of pending
\* drafts has room again.
PendingSavesSettle == \A k \in Keys : Pending(k) ~> ~ Pending(k)

\* "Pending saves remain tracked after navigation: reopening cannot submit them
\* twice" (docs/web-experience.md): once its editor is away, a draft stays in
\* the store while its save is unanswered and the person may edit.
PendingSavesStayTracked ==
    [][\A i \in Sent :
          /\ Waiting(i) /\ requests'[i].client = "waiting"
          /\ IsSaving(i) /\ ~ Open(requests[i].key) /\ allowed
          => IsSaving(i)']_vars
=============================================================================
