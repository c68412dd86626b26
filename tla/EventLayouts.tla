----------------------------- MODULE EventLayouts -----------------------------
(***************************************************************************)
(* The pages of one Event, as the server keeps them (packages/object-model *)
(* /src/event-layout-service.ts) and as browser tabs edit, undo and redo   *)
(* them (apps/web/lib/event-layout-queries.ts, layout-undo.ts), over a     *)
(* network that delays and loses answers.                                  *)
(*                                                                         *)
(* A request is one step with its handling.  It is saved only at the       *)
(* version it left with, and as long as that is the latest one, what its   *)
(* tab shows cannot change; a request that comes later is refused.  An     *)
(* arrangement of pages is named by the version that first had it.  What a *)
(* tab knows of other clients is what they saved, so the tabs that are     *)
(* followed and the clients that only save are apart.                      *)
(***************************************************************************)
EXTENDS Integers, Sequences, SequencesExt

CONSTANTS
    Tabs,
    Clients,     \* other tabs, of which only what they save is followed
    UndoLimit,   \* how many versions an undo or redo stack keeps
    MaxVersion,  \* bound: versions saved
    None

ASSUME BoundsArePositive == UndoLimit \in Nat \ {0} /\ MaxVersion \in Nat
ASSUME NoneIsNoVersion == None \notin Int

VARIABLES
    saved,    \* event_page_revisions: the revision of each version
    cached,   \* the version of the layout in a tab's query cache
    undo,     \* a tab's undo state
    reading,  \* the version a tab's open GET has read, or None
    answers   \* the versions a tab saved whose answer it has not had: late, or lost

vars == <<saved, cached, undo, reading, answers>>

-----------------------------------------------------------------------------
Versions == 0..MaxVersion
Latest == Len(saved)

\* Version 0 is the empty arrangement no row stands for.
PagesAt(v) == IF v = 0 THEN 0 ELSE saved[v].pages

Revision ==
    [pages: Versions, by: Tabs \cup Clients, intent: {"edit", "undo", "redo"}, from: Versions \cup {None}]
UndoState == [version: Versions, undo: Seq(Versions), redo: Seq(Versions)]
EmptyUndo == [version |-> 0, undo |-> <<>>, redo |-> <<>>]

-----------------------------------------------------------------------------
LastOf(versions) ==
    SubSeq(versions, IF Len(versions) > UndoLimit THEN Len(versions) - UndoLimit + 1 ELSE 1,
           Len(versions))

\* slice(0, -1), of an empty stack too
Shortened(versions) == SubSeq(versions, 1, Len(versions) - 1)

\* Mutant of Current: the stacks survive a version that came from elsewhere.
AnyState(state, previous) == state

Current(state, previous) == IF state.version = previous THEN state ELSE EmptyUndo

\* Mutant of Advanced: an edit keeps what could be redone.
KeepsRedo(state, previous, version, intent) ==
    LET now == Current(state, previous) IN
    [version |-> version,
     undo |-> IF intent = "undo" THEN Shortened(now.undo) ELSE LastOf(Append(now.undo, previous)),
     redo |-> CASE intent = "undo" -> LastOf(Append(now.redo, previous))
                [] intent = "redo" -> Shortened(now.redo)
                [] OTHER -> now.redo]

\* advanceLayoutUndo
Advanced(state, previous, version, intent) ==
    LET now == Current(state, previous) IN
    [version |-> version,
     undo |-> IF intent = "undo" THEN Shortened(now.undo)
              ELSE LastOf(Append(now.undo, previous)),
     redo |-> CASE intent = "undo" -> LastOf(Append(now.redo, previous))
                [] intent = "redo" -> Shortened(now.redo)
                [] OTHER -> <<>>]

-----------------------------------------------------------------------------
\* useEventLayout: a GET, which replaces one that is open.
BeginRead(t) ==
    /\ reading' = [reading EXCEPT ![t] = Latest]
    /\ UNCHANGED <<saved, cached, undo, answers>>

EndRead(t) ==
    /\ reading[t] # None
    /\ cached' = [cached EXCEPT ![t] = reading[t]]
    /\ reading' = [reading EXCEPT ![t] = None]
    /\ UNCHANGED <<saved, undo, answers>>

\* Mutant of Expected: the last writer wins.
AnyVersion(t) == TRUE

\* Under the fence of the space: the tab's version is the latest.
Expected(t) == cached[t] = Latest

\* saveLayout
Saved(t, pages, intent, from) ==
    /\ Expected(t)
    /\ Latest < MaxVersion
    /\ saved' = Append(saved, [pages |-> pages, by |-> t, intent |-> intent, from |-> from])
    /\ answers' = [answers EXCEPT ![t] = @ \cup {Latest + 1}]
    /\ UNCHANGED <<cached, undo, reading>>

\* useUpdateEventLayout and update: pages composed from those the tab shows.
Update(t) == Saved(t, Latest + 1, "edit", None)

\* useRestoreEventLayout and restore: by hand, a version of the history.
Restore(t, v) == v <= Latest /\ Saved(t, PagesAt(v), "edit", v)

\* useRestoreEventLayout: the top of a stack, if the stacks are of the tab's
\* version.
Rewind(t, intent) ==
    LET versions == IF intent = "undo" THEN undo[t].undo ELSE undo[t].redo IN
    /\ undo[t].version = cached[t]
    /\ versions # <<>>
    /\ Saved(t, PagesAt(Last(versions)), intent, Last(versions))

\* Another client saves new pages, or those of an earlier version.
SaveElsewhere(c, v) ==
    /\ v <= Latest + 1 /\ Latest < MaxVersion
    /\ saved' = Append(saved, [pages |-> IF v > Latest THEN v ELSE PagesAt(v),
                               by |-> c, intent |-> "edit", from |-> None])
    /\ UNCHANGED <<cached, undo, reading, answers>>

\* Mutant of Outdated: every answer is newer than what the tab has.
NeverOutdated(t, v) == FALSE

Outdated(t, v) == cached[t] > v

\* Mutant of AfterCancel: the open GET is left to end.
LeftOpen(t) == reading

AfterCancel(t) == [reading EXCEPT ![t] = None]

\* acceptLayout, of the answer to the tab's request at version v - 1.
Accept(t, v) ==
    /\ answers' = [answers EXCEPT ![t] = @ \ {v}]
    /\ reading' = AfterCancel(t)
    /\ IF Outdated(t, v) THEN UNCHANGED <<cached, undo>>
       ELSE /\ undo' = [undo EXCEPT ![t] = Advanced(@, v - 1, v, saved[v].intent)]
            /\ cached' = [cached EXCEPT ![t] = v]
    /\ UNCHANGED saved

-----------------------------------------------------------------------------
Init ==
    /\ saved = <<>>
    /\ cached = [t \in Tabs |-> 0]
    /\ undo = [t \in Tabs |-> EmptyUndo]
    /\ reading = [t \in Tabs |-> None]
    /\ answers = [t \in Tabs |-> {}]

Next ==
    \/ \E t \in Tabs :
          \/ BeginRead(t) \/ EndRead(t) \/ Update(t)
          \/ \E v \in Versions : Restore(t, v)
          \/ \E intent \in {"undo", "redo"} : Rewind(t, intent)
          \/ \E v \in answers[t] : Accept(t, v)
    \/ \E c \in Clients, v \in Versions : SaveElsewhere(c, v)

Spec == Init /\ [][Next]_vars

-----------------------------------------------------------------------------
(* What holds of layouts.                                                  *)

\* Every variable has its type.
TypeOK ==
    /\ saved \in Seq(Revision) /\ Latest <= MaxVersion
    /\ cached \in [Tabs -> Versions]
    /\ undo \in [Tabs -> UndoState]
    /\ reading \in [Tabs -> Versions \cup {None}]
    /\ answers \in [Tabs -> SUBSET (1..Latest)]

\* What a tab has done up to a version and not taken back, read from the ledger:
\* the pages before each of its changes, and those its undos left.
Chain(t) ==
    LET chain[v \in 0..Latest] ==
            IF v = 0 \/ (v > 0 /\ saved[v].by # t) THEN [past |-> <<>>, future |-> <<>>]
            ELSE LET was == chain[v - 1]
                     old == PagesAt(v - 1)
                 IN
                 CASE saved[v].intent = "edit" -> [past |-> Append(was.past, old), future |-> <<>>]
                   [] saved[v].intent = "undo" -> [past |-> Shortened(was.past),
                                                   future |-> Append(was.future, old)]
                   [] OTHER -> [past |-> Append(was.past, old), future |-> Shortened(was.future)]
    IN chain

PagesOf(versions) == [i \in 1..Len(versions) |-> PagesAt(versions[i])]

\* A tab's stacks lead through the tab's own changes, in their order, whichever
\* answers were lost or late: undo and redo move along its latest ones, never
\* into a change that another tab made or that the tab took back.
StacksFollowTheirTab ==
    \A t \in Tabs :
        LET chain == Chain(t)[undo[t].version] IN
        /\ IsSuffix(PagesOf(undo[t].undo), chain.past)
        /\ IsSuffix(PagesOf(undo[t].redo), chain.future)

\* An undo or redo the server saved takes back changes of its own tab only: a
\* "newer layout from another client invalidates the local chain"
\* (docs/event-pages.md).
UndosStayWithTheirTab ==
    \A v \in 1..Latest : saved[v].intent # "edit" =>
        \A w \in (saved[v].from + 1)..(v - 1) : saved[w].by = saved[v].by

\* A tab never shows an older layout than it has shown, though answers to its
\* requests and the layouts it reads arrive in any order.
LayoutsNeverGoBack == [][\A t \in Tabs : cached'[t] >= cached[t]]_vars

-----------------------------------------------------------------------------
\* What a tab holds is of the past: its layout, its stacks, and its open GET,
\* which has read no older layout than the tab shows.
TabsHoldThePast ==
    \A t \in Tabs :
        /\ cached[t] <= Latest /\ undo[t].version <= Latest
        /\ reading[t] # None => cached[t] <= reading[t] /\ reading[t] <= Latest
        /\ \A v \in answers[t] : saved[v].by = t

\* An undo or redo names an earlier version.
UndosNameAVersion ==
    \A v \in 1..Latest : saved[v].intent # "edit" => saved[v].from \in 0..(v - 1)

\* Since each version a stack holds, its tab alone has saved.
OnlyTheTabSince(t, stack) ==
    \A i \in 1..Len(stack) :
        /\ stack[i] <= undo[t].version
        /\ \A w \in (stack[i] + 1)..undo[t].version : saved[w].by = t

\* The inductive invariant of layouts.
LayoutsInv ==
    /\ TypeOK
    /\ UndosNameAVersion
    /\ UndosStayWithTheirTab
    /\ TabsHoldThePast
    /\ \A t \in Tabs : OnlyTheTabSince(t, undo[t].undo) /\ OnlyTheTabSince(t, undo[t].redo)
=============================================================================
