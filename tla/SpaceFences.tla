----------------------------- MODULE SpaceFences -----------------------------
(***************************************************************************)
(* The transactions behind Spaces: each takes the fence of every space it  *)
(* writes in (packages/authorization/src/authorization-transaction.ts and  *)
(* lockedRole of apps/api/src/workspaces/membership-store.ts), decides     *)
(* under the fences and commits later, at READ COMMITTED.  Signing in, a   *)
(* new space and the answer to the guest's request take no fence.          *)
(***************************************************************************)
EXTENDS Spaces

CONSTANTS
    Sessions,  \* transactions that may be open at once
    Asked      \* the operations users ask for

ASSUME AskedAreOperations == Asked \subseteq Operations

VARIABLES
    doing,  \* the open transaction of each session
    answer  \* the open answer to each waiting share, with what it read

fencedVars == <<space, role, home, trashed, waiting, shared, doing, answer>>

\* The specification the transactions implement.
Atomic ==
    INSTANCE Spaces WITH space <- space, role <- role, home <- home,
                         trashed <- trashed, waiting <- waiting, shared <- shared

-----------------------------------------------------------------------------
Idle == [stage |-> "idle"]
Transactions ==
    {Idle} \cup [op: Asked, held: SUBSET SpaceIds, stage: {"fencing", "decided"}]

\* Mutant of Fences: a move takes the fence of its own space only.
OwnFence(op) == {op.in}

Fences(op) == {op.in} \cup (IF op.do = "move" THEN {op.to} ELSE {})

\* Mutant of NextFence: the space of the request first.
RequestOrder(op, held) == IF op.in \notin held THEN op.in ELSE op.to

\* withStableAuthorizationAcross: ascending order of ids.
NextFence(op, held) ==
    CHOOSE s \in Fences(op) \ held : \A other \in Fences(op) \ held : s <= other

Held(t) == IF doing[t] = Idle THEN {} ELSE doing[t].held

\* Mutant of Free: a mode of the lock that does not conflict with itself.
FreeToShare(s) == TRUE

Free(s) == \A t \in Sessions : s \notin Held(t)

\* Under its last fence the transaction decides, from what is committed then.
Take(t, op, held) ==
    LET next == NextFence(op, held)
        now  == held \cup {next}
    IN
    /\ Free(next)
    /\ doing' = [doing EXCEPT ![t] =
                   IF now # Fences(op) THEN [op |-> op, held |-> now, stage |-> "fencing"]
                   ELSE IF May(op) THEN [op |-> op, held |-> now, stage |-> "decided"]
                   ELSE Idle]
    /\ UNCHANGED <<space, role, home, trashed, waiting, shared, answer>>

\* A space that does not exist has no fence; two records never draw one id.
Begin(t, op) ==
    /\ doing[t] = Idle
    /\ \A s \in Fences(op) : space[s] # "absent"
    /\ op.do = "create" => \A o \in Sessions : doing[o] # Idle =>
                              ~ (doing[o].op.do = "create" /\ doing[o].op.what = op.what)
    /\ Take(t, op, {})

Resume(t) == doing[t].stage = "fencing" /\ Take(t, doing[t].op, doing[t].held)

\* Mutant of Rows: a deletion does not wait for the waiting shares.
RowsButDeletion(op) ==
    IF op.do = "move" THEN Carried(op.what)
    ELSE IF op.do \in {"queue", "revoke"} THEN {op.what} ELSE {}

\* The records whose waiting shares the transaction locks: FOR UPDATE, or by
\* the keys that carry them with their record.
Rows(op) ==
    IF op.do = "delete" THEN InSpace(op.in)
    ELSE IF op.do = "move" THEN Carried(op.what)
    ELSE IF op.do \in {"queue", "revoke"} THEN {op.what} ELSE {}

Commit(t) ==
    /\ doing[t].stage = "decided"
    /\ \A r \in Rows(doing[t].op) : answer[r] = "none"
    /\ Do(doing[t].op)
    /\ doing' = [doing EXCEPT ![t] = Idle]
    /\ UNCHANGED answer

\* A lost connection, a failed statement, or the victim of a deadlock.
RollBack(t) ==
    /\ doing[t] # Idle
    /\ doing' = [doing EXCEPT ![t] = Idle]
    /\ UNCHANGED <<space, role, home, trashed, waiting, shared, answer>>

-----------------------------------------------------------------------------
\* settlePendingShares locks the share and asks whether who queued it may share.
BeginAnswer(r) ==
    /\ waiting[r] # None /\ answer[r] = "none"
    /\ answer' = [answer EXCEPT ![r] =
                    IF Live(r) /\ Owner(waiting[r], home[r]) THEN "grant" ELSE "lapse"]
    /\ UNCHANGED <<space, role, home, trashed, waiting, shared, doing>>

\* It writes what it decided to the share it has locked.
EndAnswer(r) ==
    /\ answer[r] # "none"
    /\ waiting' = [waiting EXCEPT ![r] = None]
    /\ shared' = IF answer[r] = "grant" THEN shared \cup {r} ELSE shared
    /\ answer' = [answer EXCEPT ![r] = "none"]
    /\ UNCHANGED <<space, role, home, trashed, doing>>

RollBackAnswer(r) ==
    /\ answer[r] # "none"
    /\ answer' = [answer EXCEPT ![r] = "none"]
    /\ UNCHANGED <<space, role, home, trashed, waiting, shared, doing>>

-----------------------------------------------------------------------------
FencedInit ==
    /\ Init
    /\ doing = [t \in Sessions |-> Idle]
    /\ answer = [r \in Records |-> "none"]

Proceed(t) == Resume(t) \/ Commit(t)

FencedNext ==
    \/ \E t \in Sessions : \/ \E op \in Asked : Begin(t, op)
                           \/ Proceed(t) \/ RollBack(t)
    \/ \E r \in Records : BeginAnswer(r) \/ EndAnswer(r) \/ RollBackAnswer(r)
    \/ \E s \in SpaceIds, u \in Users : Found(s, u) /\ UNCHANGED <<doing, answer>>

\* PostgreSQL queues who waits for a row, so a transaction that waits gets its
\* turn, and one that does not wait runs to its end.
Fairness ==
    /\ \A t \in Sessions : SF_fencedVars(Proceed(t))
    /\ \A r \in Records : WF_fencedVars(EndAnswer(r))

FencedSpec == FencedInit /\ [][FencedNext]_fencedVars /\ Fairness

-----------------------------------------------------------------------------
(* What the fences give.                                                   *)

\* Every variable of the transactions has its type.
FencedTypeOK ==
    /\ TypeOK
    /\ doing \in [Sessions -> Transactions]
    /\ answer \in [Records -> {"none", "grant", "lapse"}]

\* The fences a transaction holds are of spaces it writes in and that exist, no
\* two hold one, and one that decided has all of them.
FencesExclude ==
    \A t \in Sessions : doing[t] # Idle =>
        /\ doing[t].held \subseteq Fences(doing[t].op)
        /\ \A s \in Fences(doing[t].op) : space[s] # "absent"
        /\ doing[t].stage = "decided" <=> doing[t].held = Fences(doing[t].op)
        /\ \A o \in Sessions \ {t} : Held(o) \cap doing[t].held = {}
        /\ \A o \in Sessions \ {t} : doing[t].op.do = "create" /\ doing[o] # Idle =>
              ~ (doing[o].op.do = "create" /\ doing[o].op.what = doing[t].op.what)

\* The share of an open answer waits, whatever is revoked, moved or deleted.
AnswersHoldTheirShare == \A r \in Records : answer[r] # "none" => waiting[r] # None

\* What a transaction decided under its fences still holds when it commits,
\* whatever the other transactions, sign-ins and answers wrote meanwhile.
DecisionsStand == \A t \in Sessions : doing[t].stage = "decided" => May(doing[t].op)

\* The inductive invariant of the transactions.
FencedInv ==
    /\ FencedTypeOK
    /\ ScopesStayTogether
    /\ FencesExclude
    /\ AnswersHoldTheirShare
    /\ DecisionsStand

\* The transactions act as if each were alone: they implement Spaces.
ActsAsIfAlone == Atomic!Spec

\* A transaction that has a fence ends: no two of them wait for each other.
EveryTransactionEnds ==
    \A t \in Sessions : doing[t].stage # "idle" ~> doing[t].stage = "idle"
=============================================================================
