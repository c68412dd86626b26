---------------------------- MODULE WaitingShares ----------------------------
(***************************************************************************)
(* Shares that wait for an answer: a share queued on a friend request or   *)
(* an invitation, granted when it is accepted and lapsed when it ends      *)
(* otherwise (apps/api/src/sharing/pending-share-store.ts and              *)
(* apps/api/src/friends/friend-store.ts), between two accounts.            *)
(*                                                                         *)
(* Transactions run at READ COMMITTED.  One that decides from rows it has  *)
(* locked is one step, at its commit.  One that decides from rows it read  *)
(* without a lock is several: it reads and locks, asks, and writes at its  *)
(* Finish, which commits.  An answer locks the shares that wait on it, and *)
(* asks of each, in a statement of its own, whether its sharer may still   *)
(* share the record: that is decided by rows it neither locks nor fences.  *)
(* Queueing, revoking, Trash and changes of access hold the fence of the   *)
(* space; the friend store's transactions take no fence.  Roles are left   *)
(* out: who holds a grant holds the role that is shared.                   *)
(***************************************************************************)
EXTENDS Integers, FiniteSets

CONSTANTS
    Host, Guest,   \* the two accounts; the guest's may not exist yet
    Resources,     \* records of the host's space
    Conns, Invs,   \* ids of requests and of invitations
    Shares,        \* ids of waiting shares
    Sessions,      \* transactions that may be open at once
    None

Accounts == {Host, Guest}
Items == Conns \cup Invs

ASSUME AccountsDiffer == Host # Guest
ASSUME ItemsDiffer == Conns \cap Invs = {} /\ None \notin Items
ASSUME ResourcesExist == Resources # {}

VARIABLES
    accounts,  \* users: the accounts that exist
    conn,      \* user_connections
    inv,       \* user_invitations
    share,     \* pending_shares
    grants,    \* resource_grants: who holds a share of what
    owners,    \* who owns what, by membership or by a grant
    trashed,   \* the records in Trash
    doing      \* the open transaction of each session

access == <<grants, owners, trashed>>
vars == <<accounts, conn, inv, share, access, doing>>

-----------------------------------------------------------------------------
Other(account) == IF account = Host THEN Guest ELSE Host

Connection == [from: Accounts,
               status: {"absent", "pending", "accepted", "declined", "withdrawn", "removed"}]
Invitation == [from: Accounts, addressed: BOOLEAN, current: BOOLEAN,
               status: {"absent", "pending", "consumed", "withdrawn"}]
PendingShare == [conn: Conns \cup {None}, inv: Invs \cup {None}, by: Accounts,
                 resource: Resources,
                 status: {"absent", "pending", "granted", "revoked", "lapsed"}]

\* An answer: to a request, to a link, or at sign-in to the invitations of an
\* address.  Of the shares it has read it is to ask of some, and has decided to
\* grant, to lapse and to move others.
Answer == [do: {"respond", "accept", "claim"}, by: Accounts, inv: Invs \cup {None},
           conn: Conns \cup {None}, was: {"none", "pending", "accepted"},
           at: {"begun", "settling", "handing"},
           ask: SUBSET Shares, grant: SUBSET Shares, lapse: SUBSET Shares,
           move: SUBSET Shares]

Idle == [do |-> "nothing"]
Transactions ==
    {Idle}
    \cup [do: {"queue"}, by: Accounts, item: Items, resource: Resources]
    \cup [do: {"close"}, item: Items, end: {"declined", "withdrawn"}, shares: SUBSET Shares]
    \cup Answer

\* liveConnection: the pair has at most one (user_connections_live_pair_idx).
LiveConns == {c \in Conns : conn[c].status \in {"pending", "accepted"}}

Waiting(item) ==
    {s \in Shares : share[s].status = "pending" /\ item \in {share[s].conn, share[s].inv}}

\* The row locks open transactions hold on requests and invitations: of the one
\* that is answered, and of the request a link accepts on the way.
Holds(t, item) ==
    \/ doing[t].do = "close" /\ doing[t].item = item
    \/ doing[t].do \in {"accept", "claim"} /\ doing[t].inv = item
    \/ doing[t].do = "respond" /\ doing[t].conn = item
    \/ /\ doing[t].do = "accept" /\ doing[t].at # "begun"
       /\ doing[t].was = "pending" /\ doing[t].conn = item

Locked(item) == \E t \in Sessions : Holds(t, item)

Answers(t) == doing[t].do \in {"respond", "accept", "claim"}

\* The row locks an answer holds on waiting shares.
SharesHeld(t) ==
    IF Answers(t) /\ doing[t].at # "begun"
    THEN doing[t].ask \cup doing[t].grant \cup doing[t].lapse \cup doing[t].move
    ELSE {}

\* Mutant of Unlocked: nobody waits for the row locks of shares.
NobodyWaits(some) == TRUE

Unlocked(some) == \A t \in Sessions : SharesHeld(t) \cap some = {}

\* withStableAuthorization: the fence of the space.
Fenced == \E t \in Sessions : doing[t].do = "queue"

\* chronelle_can_share: an Owner, of a record that is live.
MayShare(a, r) == <<a, r>> \in owners /\ r \notin trashed

\* Mutant of Allowed: the sharer's permission is not asked again.
AlwaysAllowed(row) == TRUE

\* The account that queued the share may still share the record.
Allowed(row) == MayShare(row.by, row.resource)

\* The other account: each share of a set, to the side that did not queue it.
Grantees(some) == {<<Other(share[s].by), share[s].resource>> : s \in some}

\* accept: the taker queued the share, or holds the record, by ownership, by a
\* grant or by one this transaction has made (chronelle_held_role).
HasIt(t, row) ==
    \/ doing[t].by = row.by
    \/ <<doing[t].by, row.resource>> \in grants \cup owners \cup Grantees(doing[t].grant)

\* Mutant of Lapsed: the shares of an ended item are left waiting.
LeftWaiting(rows, read) == rows

\* lapsePendingShares: by the ids it read.
Lapsed(rows, read) ==
    [s \in Shares |-> IF s \in read THEN [rows[s] EXCEPT !.status = "lapsed"] ELSE rows[s]]

\* carryPendingShares: of the shares it read, the ones whose record already
\* waits on the connection.
Doubled(t) ==
    {s \in doing[t].move : \E d \in Shares :
        /\ doing[t].conn # None /\ d \in Waiting(doing[t].conn)
        /\ share[d].resource = share[s].resource}

\* Mutant of Written: the invitation's id is written as the connection's.
WrittenUnderItsInvitation(d, c) ==
    [s \in Shares |-> IF s \in d.move THEN [share[s] EXCEPT !.conn = d.inv] ELSE share[s]]

\* What an answer writes of the shares, by their ids.
Written(d, c) ==
    [s \in Shares |->
        [share[s] EXCEPT !.conn = IF s \in d.move THEN c ELSE @,
                         !.status = IF s \in d.grant THEN "granted"
                                    ELSE IF s \in d.lapse THEN "lapsed" ELSE @]]

-----------------------------------------------------------------------------
\* The first sign-in of the guest.
Join ==
    /\ accounts # Accounts
    /\ accounts' = Accounts
    /\ UNCHANGED <<conn, inv, share, access, doing>>

\* A membership or an Owner's grant is given, or is taken under the fence; an
\* answer may give one without it.
ChangeOwner(a, r) ==
    /\ a \in accounts
    /\ owners' = IF <<a, r>> \in owners THEN owners \ {<<a, r>>} ELSE owners \cup {<<a, r>>}
    /\ <<a, r>> \in owners => ~ Fenced
    /\ UNCHANGED <<accounts, conn, inv, share, grants, trashed, doing>>

\* softDelete and recover, under the fence.
TrashOrRecover(r) ==
    /\ ~ Fenced
    /\ trashed' = IF r \in trashed THEN trashed \ {r} ELSE trashed \cup {r}
    /\ UNCHANGED <<accounts, conn, inv, share, grants, owners, doing>>

\* A direct share with an account, or its end, under the fence.
ChangeGrant(a, r) ==
    /\ accounts = Accounts
    /\ ~ Fenced
    /\ grants' = IF <<a, r>> \in grants THEN grants \ {<<a, r>>} ELSE grants \cup {<<a, r>>}
    /\ <<a, r>> \notin grants => MayShare(Other(a), r)
    /\ UNCHANGED <<accounts, conn, inv, share, owners, trashed, doing>>

-----------------------------------------------------------------------------
\* request, or invite of an address that has an account.
Request(by, c) ==
    /\ accounts = Accounts
    /\ conn[c].status = "absent" /\ LiveConns = {}
    /\ conn' = [conn EXCEPT ![c] = [from |-> by, status |-> "pending"]]
    /\ UNCHANGED <<accounts, inv, share, access, doing>>

\* invite of an address without an account, or by a link without an address.
Invite(by, i, addressed) ==
    /\ by \in accounts
    /\ inv[i].status = "absent"
    /\ addressed => /\ Other(by) \notin accounts
                    /\ ~ \E j \in Invs : /\ inv[j].status = "pending"
                                         /\ inv[j].from = by /\ inv[j].addressed
    /\ inv' = [inv EXCEPT ![i] = [from |-> by, addressed |-> addressed,
                                  current |-> TRUE, status |-> "pending"]]
    /\ UNCHANGED <<accounts, conn, share, access, doing>>

\* The fourteen days of an invitation pass.
Expire(i) ==
    /\ inv[i].status = "pending" /\ inv[i].current
    /\ inv' = [inv EXCEPT ![i].current = FALSE]
    /\ UNCHANGED <<accounts, conn, share, access, doing>>

\* resend and link give it a fresh token and expiry.
Rotate(i) ==
    /\ inv[i].status = "pending"
    /\ ~ Locked(i)
    /\ inv' = [inv EXCEPT ![i].current = TRUE]
    /\ UNCHANGED <<accounts, conn, share, access, doing>>

Remove(c) ==
    /\ conn[c].status = "accepted"
    /\ ~ Locked(c)
    /\ conn' = [conn EXCEPT ![c].status = "removed"]
    /\ UNCHANGED <<accounts, inv, share, access, doing>>

-----------------------------------------------------------------------------
\* respond with decline, or withdraw: it locks the item and reads the shares
\* that wait on it, without locking them.
BeginClose(t, item, end) ==
    /\ doing[t] = Idle
    /\ ~ Locked(item)
    /\ \/ item \in Conns /\ conn[item].status = "pending"
       \/ item \in Invs /\ inv[item].status = "pending" /\ end = "withdrawn"
    /\ doing' = [doing EXCEPT ![t] = [do |-> "close", item |-> item, end |-> end,
                                      shares |-> Waiting(item)]]
    /\ UNCHANGED <<accounts, conn, inv, share, access>>

FinishClose(t) ==
    /\ doing[t].do = "close"
    /\ Unlocked(doing[t].shares)
    /\ LET item == doing[t].item IN
         IF item \in Conns
         THEN conn' = [conn EXCEPT ![item].status = doing[t].end] /\ UNCHANGED inv
         ELSE inv' = [inv EXCEPT ![item].status = doing[t].end] /\ UNCHANGED conn
    /\ share' = Lapsed(share, doing[t].shares)
    /\ doing' = [doing EXCEPT ![t] = Idle]
    /\ UNCHANGED <<accounts, access>>

\* respond with accept: it accepts the pending request, locks the shares that
\* wait on it, and is to ask of each.
BeginRespond(t, c) ==
    /\ doing[t] = Idle
    /\ conn[c].status = "pending"
    /\ ~ Locked(c)
    /\ Unlocked(Waiting(c))
    /\ doing' = [doing EXCEPT ![t] =
                   [do |-> "respond", by |-> Other(conn[c].from), inv |-> None, conn |-> c,
                    was |-> "pending", at |-> "settling", ask |-> Waiting(c),
                    grant |-> {}, lapse |-> {}, move |-> {}]]
    /\ UNCHANGED <<accounts, conn, inv, share, access>>

\* accept a link, or claimInvitations at sign-in: it locks the invitation and
\* reads the pair's live connection, without locking it.  A claim also reads the
\* shares to carry, without locking them.
BeginTake(t, do, by, i) ==
    /\ doing[t] = Idle
    /\ by \in accounts
    /\ inv[i].status = "pending" /\ inv[i].current /\ inv[i].from # by
    /\ do = "claim" => inv[i].addressed
    /\ ~ Locked(i)
    /\ \E c \in LiveConns \cup {None} :
         /\ c = None => LiveConns = {}
         /\ doing' = [doing EXCEPT ![t] =
                        [do |-> do, by |-> by, inv |-> i, conn |-> c,
                         was |-> IF c = None THEN "none" ELSE conn[c].status,
                         at |-> "begun", ask |-> {}, grant |-> {}, lapse |-> {},
                         move |-> IF do = "claim" THEN Waiting(i) ELSE {}]]
    /\ UNCHANGED <<accounts, conn, inv, share, access>>

\* accept goes on: it accepts the request it read, whatever that has become, and
\* locks the shares that wait on it.
Settle(t) ==
    /\ doing[t].do = "accept" /\ doing[t].at = "begun" /\ doing[t].was = "pending"
    /\ ~ Locked(doing[t].conn)
    /\ Unlocked(Waiting(doing[t].conn))
    /\ doing' = [doing EXCEPT ![t].at = "settling", ![t].ask = Waiting(doing[t].conn)]
    /\ UNCHANGED <<accounts, conn, inv, share, access>>

\* Then it locks the shares of the link.
Hand(t) ==
    /\ doing[t].do = "accept"
    /\ \/ doing[t].at = "begun" /\ doing[t].was # "pending"
       \/ doing[t].at = "settling" /\ doing[t].ask = {}
    /\ Unlocked(Waiting(doing[t].inv))
    /\ doing' = [doing EXCEPT ![t].at = "handing", ![t].ask = Waiting(doing[t].inv)]
    /\ UNCHANGED <<accounts, conn, inv, share, access>>

\* carryPendingShares: it moves the shares it read to the connection, which locks
\* them, and locks all that wait there if the connection was accepted.
Carry(t) ==
    LET moved  == doing[t].move \ Doubled(t)
        there  == IF doing[t].was # "accepted" THEN {}
                  ELSE Waiting(doing[t].conn) \cup {s \in moved : share[s].status = "pending"}
    IN
    /\ doing[t].do = "claim" /\ doing[t].at = "begun"
    /\ Unlocked(doing[t].move \cup there)
    /\ doing' = [doing EXCEPT ![t].at = "settling", ![t].ask = there,
                              ![t].lapse = Doubled(t), ![t].move = moved]
    /\ UNCHANGED <<accounts, conn, inv, share, access>>

\* An answer asks whether a share it has locked may be granted; a link's share
\* lapses too if its taker has the record.
Ask(t, s) ==
    /\ Answers(t) /\ s \in doing[t].ask
    /\ LET yes == Allowed(share[s]) /\ (doing[t].at = "handing" => ~ HasIt(t, share[s])) IN
         doing' = [doing EXCEPT ![t].ask = @ \ {s},
                                ![t].grant = IF yes THEN @ \cup {s} ELSE @,
                                ![t].lapse = IF yes THEN @ ELSE @ \cup {s}]
    /\ UNCHANGED <<accounts, conn, inv, share, access>>

\* An answer that has asked of every share writes them and the grants.
Decided(t, c) ==
    /\ doing[t].ask = {}
    /\ share' = Written(doing[t], c)
    /\ grants' = grants \cup Grantees(doing[t].grant)
    /\ doing' = [doing EXCEPT ![t] = Idle]
    /\ UNCHANGED <<accounts, owners, trashed>>

FinishRespond(t, c) ==
    /\ doing[t].do = "respond" /\ doing[t].conn = c
    /\ Decided(t, c)
    /\ conn' = [conn EXCEPT ![c].status = "accepted"]
    /\ UNCHANGED inv

\* The connection of the pair after an invitation was taken: a new one, or the
\* one that was read, whatever it has become since.  A pair has one live
\* connection at most.
Joined(t, c, status) ==
    LET was == doing[t].was IN
    IF was = "none"
    THEN /\ conn[c].status = "absent" /\ LiveConns = {}
         /\ conn' = [conn EXCEPT ![c] = [from |-> inv[doing[t].inv].from, status |-> status]]
    ELSE /\ doing[t].conn = c
         /\ IF was = "pending" /\ status = "accepted"
            THEN LiveConns \subseteq {c} /\ conn' = [conn EXCEPT ![c].status = status]
            ELSE UNCHANGED conn

FinishAccept(t, c) ==
    /\ doing[t].do = "accept" /\ doing[t].at = "handing"
    /\ Decided(t, c)
    /\ Joined(t, c, "accepted")
    /\ inv' = [inv EXCEPT ![doing[t].inv].status = "consumed"]

FinishClaim(t, c) ==
    /\ doing[t].do = "claim" /\ doing[t].at = "settling"
    /\ Decided(t, c)
    /\ Joined(t, c, "pending")
    /\ inv' = [inv EXCEPT ![doing[t].inv].status = "consumed"]

-----------------------------------------------------------------------------
\* queue: under the fence it asks the permission and reads the item, a pending
\* one the caller sent (sentItem), without locking it.
BeginQueue(t, by, item, r) ==
    /\ doing[t] = Idle
    /\ ~ Fenced
    /\ MayShare(by, r)
    /\ \/ item \in Conns /\ conn[item].status = "pending" /\ conn[item].from = by
       \/ /\ item \in Invs /\ inv[item].status = "pending"
          /\ inv[item].from = by /\ inv[item].current
    /\ doing' = [doing EXCEPT ![t] = [do |-> "queue", by |-> by, item |-> item, resource |-> r]]
    /\ UNCHANGED <<accounts, conn, inv, share, access>>

\* A share of the record that waits on the item is updated, or one is inserted:
\* unless an answer has locked the invitation FOR UPDATE, or carries a share of
\* the record there (pending_shares_live_idx).
FinishQueue(t, s) ==
    LET q        == doing[t]
        standing == {x \in Waiting(q.item) : share[x].resource = q.resource}
    IN
    /\ q.do = "queue"
    /\ IF standing # {} THEN s \in standing /\ Unlocked(standing)
       ELSE /\ share[s].status = "absent"
            /\ \A u \in Sessions :
                 /\ doing[u].do \in {"accept", "claim"} => doing[u].inv # q.item
                 /\ doing[u].do = "claim" /\ doing[u].at # "begun" /\ doing[u].conn = q.item =>
                       \A x \in doing[u].move : share[x].resource # q.resource
    /\ share' = [share EXCEPT ![s] =
                   IF standing # {} THEN [@ EXCEPT !.by = q.by]
                   ELSE [conn |-> IF q.item \in Conns THEN q.item ELSE None,
                         inv |-> IF q.item \in Invs THEN q.item ELSE None,
                         by |-> q.by, resource |-> q.resource, status |-> "pending"]]
    /\ doing' = [doing EXCEPT ![t] = Idle]
    /\ UNCHANGED <<accounts, conn, inv, access>>

\* revoke: under the fence and the lock of the share, by an Owner (recover), be
\* the record live or in Trash.
Revoke(s) ==
    /\ ~ Fenced
    /\ share[s].status = "pending"
    /\ Unlocked({s})
    /\ \E a \in Accounts : <<a, share[s].resource>> \in owners
    /\ share' = [share EXCEPT ![s].status = "revoked"]
    /\ UNCHANGED <<accounts, conn, inv, access, doing>>

\* An open transaction is refused, fails on a unique index, or is rolled back.
RollBack(t) ==
    /\ doing[t] # Idle
    /\ doing' = [doing EXCEPT ![t] = Idle]
    /\ UNCHANGED <<accounts, conn, inv, share, access>>

-----------------------------------------------------------------------------
Init ==
    /\ accounts = {Host}
    /\ conn = [c \in Conns |-> [from |-> Host, status |-> "absent"]]
    /\ inv = [i \in Invs |-> [from |-> Host, addressed |-> FALSE,
                              current |-> FALSE, status |-> "absent"]]
    /\ share = [s \in Shares |-> [conn |-> None, inv |-> None, by |-> Host,
                                  resource |-> CHOOSE r \in Resources : TRUE,
                                  status |-> "absent"]]
    /\ grants = {}
    /\ owners = {Host} \X Resources
    /\ trashed = {}
    /\ doing = [t \in Sessions |-> Idle]

\* A transaction of one step runs in a session that has none open.
OneStep ==
    /\ \E t \in Sessions : doing[t] = Idle
    /\ \/ Join
       \/ \E a \in Accounts, r \in Resources : ChangeOwner(a, r) \/ ChangeGrant(a, r)
       \/ \E r \in Resources : TrashOrRecover(r)
       \/ \E by \in Accounts, c \in Conns : Request(by, c)
       \/ \E by \in Accounts, i \in Invs, addressed \in BOOLEAN : Invite(by, i, addressed)
       \/ \E i \in Invs : Expire(i) \/ Rotate(i)
       \/ \E c \in Conns : Remove(c)
       \/ \E s \in Shares : Revoke(s)

Begin(t) ==
    \/ \E item \in Items, end \in {"declined", "withdrawn"} : BeginClose(t, item, end)
    \/ \E c \in Conns : BeginRespond(t, c)
    \/ \E do \in {"accept", "claim"}, by \in Accounts, i \in Invs : BeginTake(t, do, by, i)
    \/ \E by \in Accounts, item \in Items, r \in Resources : BeginQueue(t, by, item, r)

GoOn(t) == Settle(t) \/ Hand(t) \/ Carry(t) \/ \E s \in Shares : Ask(t, s)

Finish(t) ==
    \/ FinishClose(t)
    \/ \E c \in Conns : FinishRespond(t, c) \/ FinishAccept(t, c) \/ FinishClaim(t, c)
    \/ \E s \in Shares : FinishQueue(t, s)
    \/ RollBack(t)

Next == OneStep \/ \E t \in Sessions : Begin(t) \/ GoOn(t) \/ Finish(t)

Spec == Init /\ [][Next]_vars

-----------------------------------------------------------------------------
(* What holds of waiting shares.                                           *)

\* Every variable has its type.
TypeOK ==
    /\ accounts \subseteq Accounts
    /\ conn \in [Conns -> Connection]
    /\ inv \in [Invs -> Invitation]
    /\ share \in [Shares -> PendingShare]
    /\ grants \subseteq Accounts \X Resources
    /\ owners \subseteq Accounts \X Resources
    /\ trashed \subseteq Resources
    /\ doing \in [Sessions -> Transactions]

\* A share that was granted stays granted, and one that was revoked or lapsed
\* is never granted: no answer, carried invitation or queue that is still
\* running brings back what the sharer took back.
EndedSharesStayEnded ==
    [][\A s \in Shares :
          /\ share[s].status = "granted" => share'[s].status = "granted"
          /\ share[s].status \in {"revoked", "lapsed"} =>
                share'[s].status \in {"revoked", "lapsed"}]_vars

\* A waiting share waits on a request or invitation that still can be answered:
\* "The share is granted ... when the request or the link is accepted; it
\* lapses when the request is declined or withdrawn" (docs/api.md).
NoShareStranded ==
    \A s \in Shares : share[s].status = "pending" =>
        IF share[s].conn # None THEN conn[share[s].conn].status = "pending"
        ELSE inv[share[s].inv].status = "pending"

\* No two open transactions hold a lock on one request or invitation, or on one
\* share.
LocksExclude ==
    \A t, u \in Sessions : t # u =>
        /\ \A item \in Items : ~ (Holds(t, item) /\ Holds(u, item))
        /\ SharesHeld(t) \cap SharesHeld(u) = {}

\* What a withdrawal or a refusal read under its lock still stands: its item is
\* pending, and no share it is to lapse was granted or waits elsewhere.
ClosingStands(t) ==
    doing[t].do = "close" =>
        /\ doing[t].item \in Conns => conn[doing[t].item].status = "pending"
        /\ doing[t].item \in Invs =>
              inv[doing[t].item].status = "pending" /\ doing[t].end = "withdrawn"
        /\ \A s \in doing[t].shares :
              /\ share[s].status \in {"pending", "revoked", "lapsed"}
              /\ doing[t].item \in {share[s].conn, share[s].inv}

\* A share an answer asks of waits on the invitation it takes, on the request it
\* accepts, or on the accepted one that it carries shares to.
AsksOf(t, s) ==
    \/ doing[t].inv # None /\ share[s].inv = doing[t].inv
    \/ /\ doing[t].conn # None /\ share[s].conn = doing[t].conn
       /\ doing[t].do = "claim" => doing[t].was = "accepted"
       /\ doing[t].do = "accept" => doing[t].was = "pending"

\* What an answer read under its locks still stands: its request or invitation is
\* pending, and so are the shares it asks of and is to grant; none it is to lapse
\* or to carry was granted.
AnswerStands(t) ==
    Answers(t) =>
        /\ doing[t].do = "respond" =>
              /\ doing[t].inv = None /\ doing[t].at = "settling" /\ doing[t].move = {}
              /\ doing[t].conn # None /\ conn[doing[t].conn].status = "pending"
        /\ doing[t].do # "respond" =>
              doing[t].inv # None /\ inv[doing[t].inv].status = "pending"
        /\ doing[t].do = "accept" => doing[t].move = {}
        /\ doing[t].conn = None <=> doing[t].was = "none"
        /\ doing[t].conn # None => conn[doing[t].conn].status # "absent"
        /\ doing[t].was = "accepted" => conn[doing[t].conn].status \in {"accepted", "removed"}
        /\ doing[t].at = "begun" => doing[t].ask \cup doing[t].grant \cup doing[t].lapse = {}
        /\ \A s \in doing[t].ask \cup doing[t].grant : share[s].status = "pending"
        /\ \A s \in doing[t].lapse \cup doing[t].move :
              share[s].status \in {"pending", "revoked", "lapsed"}
        /\ \A s \in doing[t].ask \cup doing[t].grant \cup doing[t].lapse : AsksOf(t, s)
        /\ \A s \in doing[t].move : share[s].inv = doing[t].inv

ReadsStand == \A t \in Sessions : ClosingStands(t) /\ AnswerStands(t)

\* A share waits on one item: the invitation of one that was carried to a
\* connection is consumed.
WaitsOnOne ==
    \A s \in Shares :
        /\ share[s].status # "absent" => share[s].conn # None \/ share[s].inv # None
        /\ share[s].conn # None /\ share[s].inv # None =>
              inv[share[s].inv].status = "consumed"

\* The inductive invariant behind EndedSharesStayEnded.
WaitInv == TypeOK /\ LocksExclude /\ ReadsStand /\ WaitsOnOne
=============================================================================
