------------------------- MODULE WaitingSharesProofs -------------------------
(***************************************************************************)
(* Proofs about WaitingShares, for any number of requests, invitations,    *)
(* shares, records and sessions.  What open transactions have read lies    *)
(* apart (ReadApart), so one lemma serves the steps that only open a       *)
(* transaction or carry it on (DoingStep), one those that commit           *)
(* (FinishStep), one those that touch neither (QuietStep).                 *)
(***************************************************************************)
EXTENDS MCWaitingShares, TLAPS

\* What ending a share leaves alone.
SameShare(row, old) ==
    row.conn = old.conn /\ row.inv = old.inv /\ row.by = old.by /\ row.resource = old.resource

\* What a step leaves alone in a share that open transactions have read.
SamePlace(row, old) ==
    row.conn = old.conn /\ row.inv = old.inv /\ row.status = old.status

Rows == [Shares -> PendingShare]

\* The shares an open transaction has read, be they locked or not.
ReadBy(t) ==
    IF doing[t].do = "close" THEN doing[t].shares
    ELSE IF Answers(t)
         THEN doing[t].ask \cup doing[t].grant \cup doing[t].lapse \cup doing[t].move
         ELSE {}

-----------------------------------------------------------------------------
(* The operators, row by row.                                              *)

\* The account that is not the sharer is the other one.
LEMMA OtherIsAnAccount == \A a \in Accounts : Other(a) \in Accounts /\ Other(a) # a
BY AccountsDiffer DEF Other, Accounts

\* A row keeps its type when it ends.
LEMMA EndedRow ==
    ASSUME NEW row \in PendingShare, NEW end \in {"granted", "lapsed", "revoked"}
    PROVE  /\ [row EXCEPT !.status = end] \in PendingShare
           /\ [row EXCEPT !.status = end].status = end
           /\ SameShare([row EXCEPT !.status = end], row)
BY DEF PendingShare, SameShare

\* Lapsing ends the shares that were read.
LEMMA LapsedRows ==
    ASSUME NEW rows \in Rows, NEW read
    PROVE  /\ Lapsed(rows, read) \in Rows
           /\ \A s \in Shares :
                /\ SameShare(Lapsed(rows, read)[s], rows[s])
                /\ Lapsed(rows, read)[s].status = IF s \in read THEN "lapsed" ELSE rows[s].status
<1> DEFINE new(s) == IF s \in read THEN [rows[s] EXCEPT !.status = "lapsed"] ELSE rows[s]
<1>1. Lapsed(rows, read) = [s \in Shares |-> new(s)]
  BY DEF Lapsed
<1>2. ASSUME NEW s \in Shares
      PROVE  /\ new(s) \in PendingShare /\ SameShare(new(s), rows[s])
             /\ new(s).status = IF s \in read THEN "lapsed" ELSE rows[s].status
  <2>1. rows[s] \in PendingShare
    BY DEF Rows
  <2>2. QED
    BY <2>1, EndedRow, ZenonT(30) DEF SameShare
<1> HIDE DEF new
<1>3. QED
  BY <1>1, <1>2 DEF Rows

\* What an answer writes: a share it moves waits on the connection, one it
\* grants or lapses ends, and the others are as they were.
LEMMA WrittenRows ==
    ASSUME share \in Rows, NEW d, NEW c \in Conns
    PROVE  /\ Written(d, c) \in Rows
           /\ \A s \in Shares :
                /\ Written(d, c)[s].inv = share[s].inv /\ Written(d, c)[s].by = share[s].by
                /\ Written(d, c)[s].resource = share[s].resource
                /\ Written(d, c)[s].conn = IF s \in d.move THEN c ELSE share[s].conn
                /\ Written(d, c)[s].status = IF s \in d.grant THEN "granted"
                                             ELSE IF s \in d.lapse THEN "lapsed"
                                             ELSE share[s].status
<1> DEFINE at(s)  == IF s \in d.move THEN c ELSE share[s].conn
           end(s) == IF s \in d.grant THEN "granted"
                     ELSE IF s \in d.lapse THEN "lapsed" ELSE share[s].status
           new(s) == [share[s] EXCEPT !.conn = at(s), !.status = end(s)]
<1>1. Written(d, c) = [s \in Shares |-> new(s)]
  BY DEF Written
<1>2. ASSUME NEW s \in Shares
      PROVE  /\ new(s) \in PendingShare
             /\ new(s).inv = share[s].inv /\ new(s).by = share[s].by
             /\ new(s).resource = share[s].resource
             /\ new(s).conn = at(s) /\ new(s).status = end(s)
  <2>1. share[s] \in PendingShare
    BY DEF Rows
  <2>2. at(s) \in Conns \cup {None}
        /\ end(s) \in {"absent", "pending", "granted", "revoked", "lapsed"}
    BY <2>1 DEF PendingShare
  <2> HIDE DEF at, end
  <2>3. QED
    BY <2>1, <2>2 DEF PendingShare
<1> HIDE DEF new
<1>3. QED
  BY <1>1, <1>2 DEF Rows

\* What an answer grants is a share of a record of the space.
LEMMA GranteesType ==
    ASSUME share \in Rows, NEW some \in SUBSET Shares
    PROVE  Grantees(some) \subseteq Accounts \X Resources
BY OtherIsAnAccount DEF Grantees, Rows, PendingShare

-----------------------------------------------------------------------------
(* The open transactions.                                                  *)

\* What each kind of open transaction holds.
LEMMA OpenTransaction ==
    ASSUME NEW d \in Transactions
    PROVE  /\ d.do \in {"nothing", "queue", "close", "respond", "accept", "claim"}
           /\ d.do = "queue" =>
                 d.by \in Accounts /\ d.item \in Items /\ d.resource \in Resources
           /\ d.do = "close" =>
                 d.item \in Items /\ d.end \in {"declined", "withdrawn"} /\ d.shares \subseteq Shares
           /\ d.do \in {"respond", "accept", "claim"} =>
                 /\ d \in Answer
                 /\ d.by \in Accounts /\ d.inv \in Invs \cup {None} /\ d.conn \in Conns \cup {None}
                 /\ d.was \in {"none", "pending", "accepted"}
                 /\ d.at \in {"begun", "settling", "handing"}
                 /\ d.ask \subseteq Shares /\ d.grant \subseteq Shares
                 /\ d.lapse \subseteq Shares /\ d.move \subseteq Shares
BY DEF Transactions, Answer, Idle

LEMMA Typed ==
    ASSUME WaitInv
    PROVE  /\ share \in Rows
           /\ conn \in [Conns -> Connection] /\ inv \in [Invs -> Invitation]
           /\ doing \in [Sessions -> Transactions]
           /\ \A t \in Sessions : doing[t] \in Transactions
BY DEF WaitInv, TypeOK, Rows

\* No id is None.
LEMMA ItemsExist == \A item \in Items : item # None
BY ItemsDiffer

\* What waits on a request or on an invitation names it.
LEMMA WaitingRows ==
    ASSUME share \in Rows
    PROVE  /\ \A item : Waiting(item) \subseteq Shares
           /\ \A item, s : s \in Waiting(item) => share[s].status = "pending"
           /\ \A c \in Conns, s \in Shares :
                 s \in Waiting(c) <=> share[s].status = "pending" /\ share[s].conn = c
           /\ \A i \in Invs, s \in Shares :
                 s \in Waiting(i) <=> share[s].status = "pending" /\ share[s].inv = i
BY ItemsDiffer DEF Waiting, Rows, PendingShare, Items

\* A share an open transaction has read waits on an item the transaction has
\* locked, or, carried, on an accepted connection.
LEMMA ReadPlace ==
    ASSUME WaitInv, NEW t \in Sessions, NEW s \in ReadBy(t)
    PROVE  /\ s \in Shares
           /\ \/ \E i \in Invs : /\ share[s].inv = i /\ inv[i].status = "pending"
                                 /\ Holds(t, i)
              \/ \E c \in Conns : /\ share[s].conn = c /\ Holds(t, c)
                                  /\ doing[t].do = "close" => conn[c].status = "pending"
                                  /\ Answers(t) => s \in SharesHeld(t)
              \/ \E c \in Conns : /\ share[s].conn = c
                                  /\ conn[c].status \in {"accepted", "removed"}
                                  /\ Answers(t) /\ s \in SharesHeld(t)
<1>1. CASE doing[t].do = "close"
  <2>1. s \in doing[t].shares /\ doing[t].item \in Items /\ doing[t].shares \subseteq Shares
    BY <1>1, Typed, OpenTransaction DEF ReadBy
  <2>2. ClosingStands(t) /\ Holds(t, doing[t].item) /\ ~ Answers(t)
    BY <1>1 DEF WaitInv, ReadsStand, Holds, Answers
  <2>3. share[s].conn \in Conns \cup {None} /\ share[s].inv \in Invs \cup {None}
    BY <2>1, Typed DEF Rows, PendingShare
  <2>4. doing[t].item \in {share[s].conn, share[s].inv}
    BY <1>1, <2>1, <2>2 DEF ClosingStands
  <2>5. QED
    BY <1>1, <2>1, <2>2, <2>3, <2>4, ItemsExist DEF ClosingStands, Items
<1>2. CASE Answers(t)
  <2>1. /\ doing[t].do \in {"respond", "accept", "claim"} /\ doing[t].do # "close"
        /\ s \in doing[t].ask \cup doing[t].grant \cup doing[t].lapse \cup doing[t].move
    BY <1>2 DEF ReadBy, Answers
  <2>2. /\ s \in Shares /\ doing[t].inv \in Invs \cup {None} /\ doing[t].conn \in Conns \cup {None}
        /\ doing[t].at \in {"begun", "settling", "handing"}
    BY <2>1, Typed, OpenTransaction
  <2>3. AnswerStands(t)
    BY DEF WaitInv, ReadsStand
  <2>4. doing[t].inv # None => doing[t].do # "respond"
    BY <1>2, <2>3 DEF AnswerStands
  <2>5. CASE doing[t].inv # None /\ share[s].inv = doing[t].inv
    <3>1. Holds(t, doing[t].inv) /\ inv[doing[t].inv].status = "pending"
      BY <1>2, <2>1, <2>3, <2>4, <2>5 DEF Holds, AnswerStands
    <3>2. QED
      BY <2>2, <2>5, <3>1
  <2>6. CASE ~ (doing[t].inv # None /\ share[s].inv = doing[t].inv)
    <3>1. s \notin doing[t].move
      BY <1>2, <2>1, <2>3, <2>6 DEF AnswerStands
    <3>2. AsksOf(t, s) /\ doing[t].at # "begun" /\ s \in SharesHeld(t)
      BY <1>2, <2>1, <2>3, <3>1 DEF AnswerStands, SharesHeld
    <3>3. doing[t].conn \in Conns /\ share[s].conn = doing[t].conn
      BY <2>2, <2>6, <3>2 DEF AsksOf
    <3>4. CASE doing[t].do = "claim"
      <4>1. conn[doing[t].conn].status \in {"accepted", "removed"}
        BY <1>2, <2>3, <2>6, <3>2, <3>4 DEF AnswerStands, AsksOf
      <4>2. QED
        BY <1>2, <2>2, <3>2, <3>3, <4>1
    <3>5. CASE doing[t].do \in {"respond", "accept"}
      <4>1. Holds(t, doing[t].conn)
        BY <2>6, <3>2, <3>5 DEF AsksOf, Holds
      <4>2. QED
        BY <2>1, <2>2, <3>2, <3>3, <4>1
    <3>6. QED
      BY <2>1, <3>4, <3>5
  <2>7. QED
    BY <2>5, <2>6
<1>3. QED
  BY <1>1, <1>2 DEF ReadBy

\* No share is read by two open transactions, be it locked or not.
LEMMA ReadApart ==
    ASSUME WaitInv, NEW t \in Sessions, NEW u \in Sessions, t # u,
           NEW s \in ReadBy(t), s \in ReadBy(u)
    PROVE  FALSE
<1>1. s \in Shares
  BY ReadPlace
<1>2. /\ \A item \in Items : ~ (Holds(t, item) /\ Holds(u, item))
      /\ ~ (s \in SharesHeld(t) /\ s \in SharesHeld(u))
  BY DEF WaitInv, LocksExclude
<1>3. share[s].conn # None /\ share[s].inv # None => inv[share[s].inv].status = "consumed"
  BY <1>1 DEF WaitInv, WaitsOnOne
<1>4. \A v \in Sessions : s \in ReadBy(v) => doing[v].do = "close" \/ Answers(v)
  BY DEF ReadBy
<1>5. QED
  BY <1>1, <1>2, <1>3, <1>4, ReadPlace, ItemsExist DEF Items

-----------------------------------------------------------------------------
(* Three kinds of steps.                                                   *)

\* What another session has read stands after a step of t that leaves alone the
\* shares t has not read and the items t does not hold.
LEMMA OthersStand ==
    ASSUME WaitInv, NEW t \in Sessions, NEW u \in Sessions, u # t, doing'[u] = doing[u],
           \A c \in Conns : \/ conn'[c].status = conn[c].status
                            \/ Holds(t, c) \/ conn[c].status = "absent",
           \A c \in Conns : conn[c].status \in {"accepted", "removed"} =>
                               conn'[c].status \in {"accepted", "removed"},
           \A c \in Conns : conn[c].status # "absent" => conn'[c].status # "absent",
           \A i \in Invs : inv'[i].status = inv[i].status \/ Holds(t, i),
           \A s \in Shares : \/ SamePlace(share'[s], share[s])
                             \/ s \in ReadBy(t) \/ share[s].status = "absent"
    PROVE  ClosingStands(u)' /\ AnswerStands(u)'
<1>1. \A item \in Items : Holds(u, item) => ~ Holds(t, item)
  BY DEF WaitInv, LocksExclude
<1>2. ClosingStands(u) /\ AnswerStands(u)
  BY DEF WaitInv, ReadsStand
<1>3. \A s \in ReadBy(u) : s \in Shares /\ s \notin ReadBy(t)
  BY ReadPlace, ReadApart
<1>4. \A s \in ReadBy(u) : share[s].status # "absent" => SamePlace(share'[s], share[s])
  BY <1>3
<1>5. CASE doing[u].do = "close"
  <2>1. doing[u].item \in Items /\ Holds(u, doing[u].item) /\ doing'[u].do = "close"
    BY <1>5, Typed, OpenTransaction DEF Holds
  <2>2. \A s \in doing[u].shares : s \in ReadBy(u)
    BY <1>5 DEF ReadBy
  <2>3. ~ Answers(u)'
    BY <2>1 DEF Answers
  <2>4. /\ doing[u].item \in Conns => conn'[doing[u].item].status = "pending"
        /\ doing[u].item \in Invs => inv'[doing[u].item].status = "pending"
    BY <1>1, <1>2, <1>5, <2>1 DEF ClosingStands, Items
  <2>5. \A s \in doing[u].shares : SamePlace(share'[s], share[s])
    BY <1>2, <1>4, <1>5, <2>2 DEF ClosingStands
  <2>6. QED
    BY <1>2, <1>5, <2>3, <2>4, <2>5 DEF ClosingStands, AnswerStands, SamePlace
<1>6. CASE Answers(u)
  <2>1. /\ doing[u].inv \in Invs \cup {None} /\ doing[u].conn \in Conns \cup {None}
        /\ doing[u].do \in {"respond", "accept", "claim"}
    BY <1>6, Typed, OpenTransaction DEF Answers
  <2>2. Answers(u)' /\ doing'[u].do # "close"
    BY <1>6, <2>1 DEF Answers
  <2>3. doing[u].do = "respond" =>
           doing[u].conn # None /\ conn'[doing[u].conn].status = "pending"
    <3>1. SUFFICES ASSUME doing[u].do = "respond"
                   PROVE  doing[u].conn # None /\ conn'[doing[u].conn].status = "pending"
      OBVIOUS
    <3>2. doing[u].conn # None /\ conn[doing[u].conn].status = "pending"
          /\ Holds(u, doing[u].conn)
      BY <1>2, <1>6, <3>1 DEF AnswerStands, Holds
    <3>3. QED
      BY <1>1, <2>1, <3>2 DEF Items
  <2>4. doing[u].do # "respond" =>
           doing[u].inv # None /\ inv'[doing[u].inv].status = "pending"
    <3>1. SUFFICES ASSUME doing[u].do # "respond"
                   PROVE  doing[u].inv # None /\ inv'[doing[u].inv].status = "pending"
      OBVIOUS
    <3>2. doing[u].inv # None /\ inv[doing[u].inv].status = "pending" /\ Holds(u, doing[u].inv)
      BY <1>2, <1>6, <2>1, <3>1 DEF AnswerStands, Holds
    <3>3. QED
      BY <1>1, <2>1, <3>2 DEF Items
  <2>5. /\ doing[u].conn # None => conn'[doing[u].conn].status # "absent"
        /\ doing[u].was = "accepted" => conn'[doing[u].conn].status \in {"accepted", "removed"}
    BY <1>2, <1>6, <2>1 DEF AnswerStands
  <2>6. \A s \in doing[u].ask \cup doing[u].grant \cup doing[u].lapse \cup doing[u].move :
           SamePlace(share'[s], share[s])
    <3>1. \A s \in doing[u].ask \cup doing[u].grant \cup doing[u].lapse \cup doing[u].move :
             s \in ReadBy(u) /\ share[s].status # "absent"
      BY <1>2, <1>6, <2>1 DEF AnswerStands, ReadBy
    <3>2. QED
      BY <1>4, <3>1
  <2>7. \A s \in doing[u].ask \cup doing[u].grant \cup doing[u].lapse : AsksOf(u, s)'
    BY <1>2, <1>6, <2>6 DEF AnswerStands, AsksOf, SamePlace
  <2>8. /\ \A s \in doing[u].ask \cup doing[u].grant : share'[s].status = "pending"
        /\ \A s \in doing[u].lapse \cup doing[u].move :
              share'[s].status \in {"pending", "revoked", "lapsed"}
        /\ \A s \in doing[u].move : share'[s].inv = doing[u].inv
    BY <1>2, <1>6, <2>6 DEF AnswerStands, SamePlace
  <2>9. ClosingStands(u)'
    BY <2>2 DEF ClosingStands
  <2>10. AnswerStands(u)'
    BY <1>2, <1>6, <2>3, <2>4, <2>5, <2>7, <2>8 DEF AnswerStands
  <2>11. QED
    BY <2>9, <2>10
<1>7. CASE doing[u].do # "close" /\ ~ Answers(u)
  BY <1>7 DEF ClosingStands, AnswerStands, Answers
<1>8. QED
  BY <1>5, <1>6, <1>7

\* A session without an open transaction has read nothing.
LEMMA IdleStands ==
    ASSUME NEW t \in Sessions, doing[t] = Idle
    PROVE  /\ ClosingStands(t) /\ AnswerStands(t)
           /\ \A item \in Items : ~ Holds(t, item)
           /\ SharesHeld(t) = {}
           /\ ReadBy(t) = {}
BY DEF Idle, ClosingStands, AnswerStands, Holds, SharesHeld, Answers, ReadBy

\* A step that only opens a transaction, or carries it on, keeps the invariant if
\* it takes locks nobody holds and what it has read stands.
LEMMA DoingStep ==
    ASSUME WaitInv, NEW t \in Sessions, NEW d \in Transactions,
           doing' = [doing EXCEPT ![t] = d],
           UNCHANGED <<accounts, conn, inv, share, access>>,
           \A item \in Items : Holds(t, item)' => Holds(t, item) \/ ~ Locked(item),
           \A s \in SharesHeld(t)' : s \in SharesHeld(t) \/ Unlocked({s}),
           ClosingStands(t)', AnswerStands(t)'
    PROVE  WaitInv'
<1>1. doing'[t] = d /\ \A u \in Sessions : u # t => doing'[u] = doing[u]
  BY Typed
<1>2. UNCHANGED <<accounts, conn, inv, share, grants, owners, trashed>>
  BY DEF access
<1>3. doing' \in [Sessions -> Transactions]
  BY Typed
<1>4. TypeOK'
  BY <1>2, <1>3 DEF WaitInv, TypeOK
<1>5. LocksExclude'
  <2>1. \A u \in Sessions : u # t => SharesHeld(u)' = SharesHeld(u)
    BY <1>1 DEF SharesHeld, Answers
  <2>2. \A u \in Sessions, item \in Items : u # t => (Holds(u, item)' <=> Holds(u, item))
    BY <1>1 DEF Holds
  <2>3. \A u \in Sessions : u # t =>
           /\ \A item \in Items : ~ (Holds(t, item)' /\ Holds(u, item))
           /\ \A s \in SharesHeld(t)' : s \notin SharesHeld(u)
    BY DEF WaitInv, LocksExclude, Locked, Unlocked
  <2>4. ASSUME NEW u \in Sessions, NEW v \in Sessions, u # v
        PROVE  /\ \A item \in Items : ~ (Holds(u, item)' /\ Holds(v, item)')
               /\ \A s \in SharesHeld(u)' : s \notin SharesHeld(v)'
    <3>1. CASE u = t
      BY <2>1, <2>2, <2>3, <2>4, <3>1
    <3>2. CASE v = t
      BY <2>1, <2>2, <2>3, <2>4, <3>2
    <3>3. CASE u # t /\ v # t
      BY <2>1, <2>2, <2>4, <3>3 DEF WaitInv, LocksExclude
    <3>4. QED
      BY <3>1, <3>2, <3>3
  <2>5. \A u, v \in Sessions : u # v => SharesHeld(u)' \cap SharesHeld(v)' = {}
    BY <2>4
  <2>6. QED
    BY <2>4, <2>5 DEF LocksExclude
<1>6. ReadsStand'
  <2>1. \A u \in Sessions : u # t => ClosingStands(u)' /\ AnswerStands(u)'
    BY <1>1, <1>2, OthersStand DEF SamePlace
  <2>2. QED
    BY <2>1 DEF ReadsStand
<1>7. WaitsOnOne'
  BY <1>2 DEF WaitInv, WaitsOnOne
<1>8. QED
  BY <1>4, <1>5, <1>6, <1>7 DEF WaitInv

\* A step that ends a transaction keeps the invariant if it writes only shares it
\* has read, or new ones, and only items it has locked, or new ones.
LEMMA FinishStep ==
    ASSUME WaitInv, TypeOK', WaitsOnOne', NEW t \in Sessions, doing' = [doing EXCEPT ![t] = Idle],
           \A c \in Conns : \/ conn'[c].status = conn[c].status
                            \/ Holds(t, c) \/ conn[c].status = "absent",
           \A c \in Conns : conn[c].status \in {"accepted", "removed"} =>
                               conn'[c].status \in {"accepted", "removed"},
           \A c \in Conns : conn[c].status # "absent" => conn'[c].status # "absent",
           \A i \in Invs : inv'[i].status = inv[i].status \/ Holds(t, i),
           \A s \in Shares : \/ SamePlace(share'[s], share[s])
                             \/ s \in ReadBy(t) \/ share[s].status = "absent"
    PROVE  WaitInv'
<1>1. doing'[t] = Idle /\ \A u \in Sessions : u # t => doing'[u] = doing[u]
  BY Typed
<1>2. /\ SharesHeld(t)' = {} /\ \A item \in Items : ~ Holds(t, item)'
      /\ ClosingStands(t)' /\ AnswerStands(t)'
  BY <1>1 DEF Idle, ClosingStands, AnswerStands, Holds, SharesHeld, Answers
<1>3. \A u \in Sessions : u # t => SharesHeld(u)' = SharesHeld(u)
  BY <1>1 DEF SharesHeld, Answers
<1>4. \A u \in Sessions, item \in Items : u # t => (Holds(u, item)' <=> Holds(u, item))
  BY <1>1 DEF Holds
<1>5. LocksExclude'
  BY <1>2, <1>3, <1>4 DEF WaitInv, LocksExclude
<1>6. ReadsStand'
  BY <1>1, <1>2, OthersStand DEF ReadsStand
<1>7. QED
  BY <1>5, <1>6 DEF WaitInv

\* A step that leaves the open transactions alone keeps the invariant if it
\* changes no item one of them holds, and ends shares none of them has locked.
LEMMA QuietStep ==
    ASSUME WaitInv, TypeOK', UNCHANGED doing,
           \A c \in Conns : \/ conn'[c].status = conn[c].status
                            \/ conn[c].status = "absent"
                            \/ conn[c].status = "accepted" /\ conn'[c].status = "removed",
           \A c \in Conns : conn[c].status # "absent" => conn'[c].status # "absent",
           \A i \in Invs : inv'[i].status = inv[i].status \/ inv[i].status = "absent",
           \A s \in Shares : share'[s].conn = share[s].conn /\ share'[s].inv = share[s].inv,
           \A s \in Shares : \/ share'[s].status = share[s].status
                             \/ /\ share[s].status = "pending" /\ share'[s].status = "revoked"
                                /\ Unlocked({s})
    PROVE  WaitInv'
<1>1. LocksExclude'
  BY DEF WaitInv, LocksExclude, Holds, SharesHeld, Answers
<1>2. ASSUME NEW t \in Sessions
      PROVE  ClosingStands(t)' /\ AnswerStands(t)'
  <2>1. ClosingStands(t) /\ AnswerStands(t)
    BY DEF WaitInv, ReadsStand
  <2>2. ClosingStands(t)'
    <3>1. SUFFICES ASSUME doing[t].do = "close" PROVE ClosingStands(t)'
      BY DEF ClosingStands
    <3>2. doing[t].shares \subseteq Shares
      BY <3>1, Typed, OpenTransaction
    <3>3. QED
      BY <2>1, <3>1, <3>2, ZenonT(30) DEF ClosingStands
  <2>3. AnswerStands(t)'
    <3>1. SUFFICES ASSUME Answers(t) PROVE AnswerStands(t)'
      BY DEF AnswerStands, Answers
    <3>2. /\ doing[t].inv \in Invs \cup {None} /\ doing[t].conn \in Conns \cup {None}
          /\ doing[t].do \in {"respond", "accept", "claim"}
          /\ doing[t].ask \subseteq Shares /\ doing[t].grant \subseteq Shares
          /\ doing[t].lapse \subseteq Shares /\ doing[t].move \subseteq Shares
      BY <3>1, Typed, OpenTransaction DEF Answers
    <3>3. /\ doing[t].do = "respond" => conn'[doing[t].conn].status = "pending"
          /\ doing[t].do # "respond" => inv'[doing[t].inv].status = "pending"
          /\ doing[t].conn # None => conn'[doing[t].conn].status # "absent"
          /\ doing[t].was = "accepted" => conn'[doing[t].conn].status \in {"accepted", "removed"}
      BY <2>1, <3>1, <3>2 DEF AnswerStands
    <3>4. \A s \in doing[t].ask \cup doing[t].grant : share'[s].status = "pending"
      <4>1. TAKE s \in doing[t].ask \cup doing[t].grant
      <4>2. doing[t].at # "begun" /\ s \in SharesHeld(t)
        BY <2>1, <3>1 DEF AnswerStands, SharesHeld
      <4>3. ~ Unlocked({s}) /\ share[s].status = "pending" /\ s \in Shares
        BY <2>1, <3>1, <3>2, <4>2 DEF AnswerStands, Unlocked
      <4>4. QED
        BY <4>3
    <3>5. \A s \in doing[t].lapse \cup doing[t].move :
             share'[s].status \in {"pending", "revoked", "lapsed"}
      BY <2>1, <3>1, <3>2 DEF AnswerStands
    <3>6. /\ \A s \in doing[t].ask \cup doing[t].grant \cup doing[t].lapse : AsksOf(t, s)'
          /\ \A s \in doing[t].move : share'[s].inv = doing[t].inv
      BY <2>1, <3>1, <3>2 DEF AnswerStands, AsksOf
    <3>7. QED
      BY <2>1, <3>1, <3>3, <3>4, <3>5, <3>6 DEF AnswerStands
  <2>4. QED
    BY <2>2, <2>3
<1>3. WaitsOnOne'
  <2>1. SUFFICES ASSUME NEW s \in Shares
                 PROVE  /\ share'[s].status # "absent" =>
                              share'[s].conn # None \/ share'[s].inv # None
                        /\ share'[s].conn # None /\ share'[s].inv # None =>
                              inv'[share'[s].inv].status = "consumed"
    BY DEF WaitsOnOne
  <2>2. share[s].inv \in Invs \cup {None}
    BY Typed DEF Rows, PendingShare
  <2>3. /\ share[s].status # "absent" => share[s].conn # None \/ share[s].inv # None
        /\ share[s].conn # None /\ share[s].inv # None => inv[share[s].inv].status = "consumed"
    BY DEF WaitInv, WaitsOnOne
  <2>4. share'[s].conn = share[s].conn /\ share'[s].inv = share[s].inv
    OBVIOUS
  <2>5. share'[s].status # "absent" => share[s].status # "absent"
    OBVIOUS
  <2>6. \A i \in Invs : inv[i].status = "consumed" => inv'[i].status = "consumed"
    OBVIOUS
  <2>7. QED
    BY <2>2, <2>3, <2>4, <2>5, <2>6
<1>4. QED
  BY <1>1, <1>2, <1>3 DEF WaitInv, ReadsStand

-----------------------------------------------------------------------------
(* Each action keeps the invariant.                                        *)

LEMMA InitKeeps == Init => WaitInv
<1> SUFFICES ASSUME Init PROVE WaitInv
  OBVIOUS
<1>1. (CHOOSE r \in Resources : TRUE) \in Resources
  BY ResourcesExist
<1>2. TypeOK
  BY <1>1 DEF Init, TypeOK, Accounts, Connection, Invitation, PendingShare, Transactions
<1>3. \A t \in Sessions : doing[t] = Idle
  BY DEF Init
<1>4. LocksExclude /\ ReadsStand
  BY <1>3, IdleStands DEF LocksExclude, ReadsStand
<1>5. WaitsOnOne
  BY DEF Init, WaitsOnOne
<1>6. QED
  BY <1>2, <1>4, <1>5 DEF WaitInv

\* A step that moves no request, no invitation, no share and no transaction.
LEMMA AccessKeeps ==
    ASSUME WaitInv, UNCHANGED <<conn, inv, share, doing>>, accounts' \subseteq Accounts,
           grants' \subseteq Accounts \X Resources, owners' \subseteq Accounts \X Resources,
           trashed' \subseteq Resources
    PROVE  WaitInv'
<1>1. TypeOK'
  BY DEF WaitInv, TypeOK
<1>2. QED
  BY <1>1, QuietStep

LEMMA JoinKeeps == ASSUME WaitInv, Join PROVE WaitInv'
BY AccessKeeps DEF Join, WaitInv, TypeOK, access

LEMMA ChangeOwnerKeeps ==
    ASSUME WaitInv, NEW a \in Accounts, NEW r \in Resources, ChangeOwner(a, r)
    PROVE  WaitInv'
BY AccessKeeps DEF ChangeOwner, WaitInv, TypeOK

LEMMA TrashOrRecoverKeeps ==
    ASSUME WaitInv, NEW r \in Resources, TrashOrRecover(r)
    PROVE  WaitInv'
BY AccessKeeps DEF TrashOrRecover, WaitInv, TypeOK

LEMMA ChangeGrantKeeps ==
    ASSUME WaitInv, NEW a \in Accounts, NEW r \in Resources, ChangeGrant(a, r)
    PROVE  WaitInv'
BY AccessKeeps DEF ChangeGrant, WaitInv, TypeOK

LEMMA RequestKeeps ==
    ASSUME WaitInv, NEW by \in Accounts, NEW c \in Conns, Request(by, c)
    PROVE  WaitInv'
<1>1. TypeOK'
  BY DEF Request, WaitInv, TypeOK, Connection, access
<1>2. \A d \in Conns : d # c => conn'[d] = conn[d]
  BY Typed DEF Request
<1>3. conn[c].status = "absent" /\ conn'[c].status = "pending" /\ UNCHANGED <<inv, share, doing>>
  BY Typed DEF Request
<1>4. QED
  BY <1>1, <1>2, <1>3, QuietStep

LEMMA InviteKeeps ==
    ASSUME WaitInv, NEW by \in Accounts, NEW i \in Invs, NEW addressed \in BOOLEAN,
           Invite(by, i, addressed)
    PROVE  WaitInv'
<1>1. TypeOK'
  BY DEF Invite, WaitInv, TypeOK, Invitation, access
<1>2. \A j \in Invs : inv'[j].status = inv[j].status \/ inv[j].status = "absent"
  BY Typed DEF Invite
<1>3. QED
  BY <1>1, <1>2, QuietStep DEF Invite

\* An invitation that expires, or is renewed, keeps its status.
LEMMA CurrentKeeps ==
    ASSUME WaitInv, NEW i \in Invs, Expire(i) \/ Rotate(i)
    PROVE  WaitInv'
<1>1. PICK current \in BOOLEAN : inv' = [inv EXCEPT ![i].current = current]
  BY DEF Expire, Rotate
<1>2. UNCHANGED <<accounts, conn, share, access, doing>>
  BY DEF Expire, Rotate
<1>3. inv' \in [Invs -> Invitation] /\ \A j \in Invs : inv'[j].status = inv[j].status
  BY <1>1, Typed DEF Invitation
<1>4. TypeOK'
  BY <1>2, <1>3 DEF WaitInv, TypeOK, access
<1>5. QED
  BY <1>2, <1>3, <1>4, QuietStep

LEMMA RemoveKeeps ==
    ASSUME WaitInv, NEW c \in Conns, Remove(c)
    PROVE  WaitInv'
<1>1. /\ conn' = [conn EXCEPT ![c].status = "removed"] /\ conn[c].status = "accepted"
      /\ UNCHANGED <<accounts, inv, share, access, doing>>
  BY DEF Remove
<1>2. /\ conn' \in [Conns -> Connection]
      /\ \A d \in Conns : conn'[d].status = IF d = c THEN "removed" ELSE conn[d].status
  BY <1>1, Typed DEF Connection
<1>3. TypeOK'
  BY <1>1, <1>2 DEF WaitInv, TypeOK, access
<1>4. QED
  BY <1>1, <1>2, <1>3, QuietStep

LEMMA RevokeKeeps ==
    ASSUME WaitInv, NEW s \in Shares, Revoke(s)
    PROVE  WaitInv'
<1>1. /\ share' = [share EXCEPT ![s].status = "revoked"] /\ share[s].status = "pending"
      /\ Unlocked({s}) /\ UNCHANGED <<accounts, conn, inv, access, doing>>
  BY DEF Revoke
<1>2. share' \in Rows /\ \A x \in Shares :
         SameShare(share'[x], share[x])
         /\ share'[x].status = IF x = s THEN "revoked" ELSE share[x].status
  <2> DEFINE ended == [share[s] EXCEPT !.status = "revoked"]
  <2>1. share' = [share EXCEPT ![s] = ended]
    BY <1>1
  <2>2. ended \in PendingShare /\ ended.status = "revoked" /\ SameShare(ended, share[s])
    BY Typed, EndedRow DEF Rows
  <2>3. \A x \in Shares : share'[x] = IF x = s THEN ended ELSE share[x]
    BY <2>1, Typed DEF Rows
  <2> HIDE DEF ended
  <2>4. QED
    BY <2>1, <2>2, <2>3, Typed DEF Rows, SameShare
<1>3. TypeOK'
  BY <1>1, <1>2 DEF WaitInv, TypeOK, Rows, access
<1>4. QED
  BY <1>1, <1>2, <1>3, QuietStep DEF SameShare

-----------------------------------------------------------------------------
(* Steps that open a transaction.                                          *)

LEMMA BeginCloseKeeps ==
    ASSUME WaitInv, NEW t \in Sessions, NEW item \in Items, NEW end \in {"declined", "withdrawn"},
           BeginClose(t, item, end)
    PROVE  WaitInv'
<1> DEFINE d == [do |-> "close", item |-> item, end |-> end, shares |-> Waiting(item)]
<1>1. /\ doing' = [doing EXCEPT ![t] = d]
      /\ UNCHANGED <<accounts, conn, inv, share, access>>
      /\ ~ Locked(item)
      /\ item \in Conns => conn[item].status = "pending"
      /\ item \in Invs => inv[item].status = "pending" /\ end = "withdrawn"
  BY ItemsDiffer DEF BeginClose
<1>2. d \in Transactions /\ doing'[t] = d
  BY <1>1, Typed DEF Transactions, Waiting
<1>3. \A s \in d.shares : share[s].status = "pending" /\ item \in {share[s].conn, share[s].inv}
  BY DEF Waiting
<1>4. d.do = "close" /\ d.item = item /\ d.end = end
  OBVIOUS
<1> HIDE DEF d
<1>5. ClosingStands(t)' /\ AnswerStands(t)'
  BY <1>1, <1>2, <1>3, <1>4 DEF ClosingStands, AnswerStands, Answers
<1>6. /\ \A x \in Items : Holds(t, x)' => ~ Locked(x)
      /\ SharesHeld(t)' = {}
  BY <1>1, <1>2, <1>4 DEF Holds, SharesHeld, Answers
<1>7. QED
  BY <1>1, <1>2, <1>5, <1>6, DoingStep

LEMMA BeginQueueKeeps ==
    ASSUME WaitInv, NEW t \in Sessions, NEW by \in Accounts, NEW item \in Items,
           NEW r \in Resources, BeginQueue(t, by, item, r)
    PROVE  WaitInv'
<1> DEFINE d == [do |-> "queue", by |-> by, item |-> item, resource |-> r]
<1>1. doing' = [doing EXCEPT ![t] = d] /\ UNCHANGED <<accounts, conn, inv, share, access>>
  BY DEF BeginQueue
<1>2. d \in Transactions /\ d.do = "queue" /\ doing'[t] = d
  BY <1>1, Typed DEF Transactions
<1> HIDE DEF d
<1>3. /\ ClosingStands(t)' /\ AnswerStands(t)' /\ SharesHeld(t)' = {}
      /\ \A x \in Items : ~ Holds(t, x)'
  BY <1>2 DEF ClosingStands, AnswerStands, Answers, SharesHeld, Holds
<1>4. QED
  BY <1>1, <1>2, <1>3, DoingStep

LEMMA RollBackKeeps ==
    ASSUME WaitInv, NEW t \in Sessions, RollBack(t)
    PROVE  WaitInv'
<1>1. doing' = [doing EXCEPT ![t] = Idle] /\ UNCHANGED <<accounts, conn, inv, share, access>>
  BY DEF RollBack
<1>2. Idle \in Transactions /\ doing'[t] = Idle
  BY <1>1, Typed DEF Transactions
<1>3. /\ ClosingStands(t)' /\ AnswerStands(t)' /\ SharesHeld(t)' = {}
      /\ \A x \in Items : ~ Holds(t, x)'
  BY <1>2 DEF ClosingStands, AnswerStands, Answers, SharesHeld, Holds, Idle
<1>4. QED
  BY <1>1, <1>2, <1>3, DoingStep

LEMMA BeginRespondKeeps ==
    ASSUME WaitInv, NEW t \in Sessions, NEW c \in Conns, BeginRespond(t, c)
    PROVE  WaitInv'
<1> DEFINE by == Other(conn[c].from)
           d == [do |-> "respond", by |-> by, inv |-> None, conn |-> c,
                 was |-> "pending", at |-> "settling", ask |-> Waiting(c),
                 grant |-> {}, lapse |-> {}, move |-> {}]
<1>1. /\ doing' = [doing EXCEPT ![t] = d] /\ UNCHANGED <<accounts, conn, inv, share, access>>
      /\ ~ Locked(c) /\ Unlocked(Waiting(c)) /\ conn[c].status = "pending"
  BY DEF BeginRespond
<1>2. by \in Accounts
  BY Typed, OtherIsAnAccount DEF Connection
<1>3. d \in Answer
  <2> HIDE DEF by
  <2>1. QED
    BY <1>2, Typed, WaitingRows DEF Answer
<1>4. /\ d.do = "respond" /\ d.inv = None /\ d.conn = c /\ d.was = "pending"
      /\ d.at = "settling" /\ d.ask = Waiting(c) /\ d.grant = {} /\ d.lapse = {} /\ d.move = {}
  OBVIOUS
<1> HIDE DEF d
<1>5. d \in Transactions /\ doing'[t] = d
  BY <1>1, <1>3, Typed DEF Transactions
<1>6. \A s \in Waiting(c) : share[s].status = "pending" /\ share[s].conn = c
  BY Typed, WaitingRows
<1>7. ClosingStands(t)' /\ AnswerStands(t)'
  BY <1>1, <1>4, <1>5, <1>6, ItemsExist DEF ClosingStands, AnswerStands, Answers, AsksOf, Items
<1>8. /\ \A x \in Items : Holds(t, x)' => ~ Locked(x)
      /\ \A s \in SharesHeld(t)' : Unlocked({s})
  BY <1>1, <1>4, <1>5 DEF Holds, SharesHeld, Answers, Unlocked
<1>9. QED
  BY <1>1, <1>5, <1>7, <1>8, DoingStep

LEMMA BeginTakeKeeps ==
    ASSUME WaitInv, NEW t \in Sessions, NEW do \in {"accept", "claim"}, NEW by \in Accounts,
           NEW i \in Invs, BeginTake(t, do, by, i)
    PROVE  WaitInv'
<1> DEFINE move == IF do = "claim" THEN Waiting(i) ELSE {}
           was(c) == IF c = None THEN "none" ELSE conn[c].status
           d(c)   == [do |-> do, by |-> by, inv |-> i, conn |-> c, was |-> was(c),
                      at |-> "begun", ask |-> {}, grant |-> {}, lapse |-> {}, move |-> move]
<1>1. PICK c \in LiveConns \cup {None} : doing' = [doing EXCEPT ![t] = d(c)]
  BY DEF BeginTake
<1>2. /\ UNCHANGED <<accounts, conn, inv, share, access>>
      /\ ~ Locked(i) /\ inv[i].status = "pending"
  BY DEF BeginTake
<1>3. /\ c \in Conns \cup {None}
      /\ c # None => c \in Conns /\ conn[c].status \in {"pending", "accepted"}
      /\ was(c) \in {"none", "pending", "accepted"} /\ (c = None <=> was(c) = "none")
      /\ was(c) = "accepted" => c # None /\ conn[c].status = "accepted"
  BY DEF LiveConns
<1>4. /\ move \subseteq Shares
      /\ \A s \in move : share[s].status = "pending" /\ share[s].inv = i
      /\ do = "accept" => move = {}
  BY Typed, WaitingRows
<1> HIDE DEF move, was
<1>5. d(c) \in Answer
  BY <1>3, <1>4 DEF Answer
<1>6. /\ d(c).do = do /\ d(c).inv = i /\ d(c).conn = c /\ d(c).was = was(c)
      /\ d(c).at = "begun" /\ d(c).ask = {} /\ d(c).grant = {} /\ d(c).lapse = {}
      /\ d(c).move = move
  OBVIOUS
<1> HIDE DEF d
<1>7. d(c) \in Transactions /\ doing'[t] = d(c)
  BY <1>1, <1>5, Typed DEF Transactions
<1>8. ClosingStands(t)' /\ AnswerStands(t)'
  BY <1>2, <1>3, <1>4, <1>6, <1>7, ItemsExist
  DEF ClosingStands, AnswerStands, Answers, Items
<1>9. /\ \A x \in Items : Holds(t, x)' => ~ Locked(x)
      /\ SharesHeld(t)' = {}
  BY <1>2, <1>6, <1>7 DEF Holds, SharesHeld, Answers
<1>10. QED
  BY <1>1, <1>2, <1>7, <1>8, <1>9, DoingStep

-----------------------------------------------------------------------------
(* Steps that carry an answer on.                                          *)

\* What an answer keeps of AnswerStands when it is carried on.
LEMMA CarryOnStep ==
    ASSUME WaitInv, NEW t \in Sessions, Answers(t), NEW d \in Transactions,
           doing' = [doing EXCEPT ![t] = d], doing'[t] = d,
           UNCHANGED <<accounts, conn, inv, share, access>>,
           d.do = doing[t].do, d.inv = doing[t].inv, d.conn = doing[t].conn, d.was = doing[t].was,
           d.at \in {"settling", "handing"}, d.do = "respond" => d.at = "settling",
           d.move \subseteq doing[t].move,
           ~ Holds(t, d.conn) /\ d.do = "accept" /\ d.was = "pending" => ~ Locked(d.conn),
           \A s \in d.ask \cup d.grant \cup d.lapse \cup d.move :
              s \in SharesHeld(t) \/ Unlocked({s}),
           \A s \in d.ask \cup d.grant : share[s].status = "pending",
           \A s \in d.lapse : share[s].status \in {"pending", "revoked", "lapsed"},
           \A s \in d.ask \cup d.grant \cup d.lapse : AsksOf(t, s)
    PROVE  WaitInv'
<1>1. AnswerStands(t) /\ doing[t].do \in {"respond", "accept", "claim"}
  BY DEF WaitInv, ReadsStand, Answers
<1>2. Answers(t)' /\ ClosingStands(t)'
  BY <1>1 DEF Answers, ClosingStands
<1>3. \A s \in d.ask \cup d.grant \cup d.lapse : AsksOf(t, s)'
  BY DEF AsksOf
<1>4. \A s \in d.move : /\ share[s].status \in {"pending", "revoked", "lapsed"}
                        /\ share[s].inv = doing[t].inv
  BY <1>1 DEF AnswerStands
<1>5. AnswerStands(t)'
  BY <1>1, <1>3, <1>4 DEF AnswerStands
<1>6. \A item \in Items : Holds(t, item)' => Holds(t, item) \/ ~ Locked(item)
  BY <1>1 DEF Holds
<1>7. \A s \in SharesHeld(t)' : s \in SharesHeld(t) \/ Unlocked({s})
  BY DEF SharesHeld
<1>8. QED
  BY <1>2, <1>5, <1>6, <1>7, DoingStep

LEMMA SettleKeeps ==
    ASSUME WaitInv, NEW t \in Sessions, Settle(t)
    PROVE  WaitInv'
<1> DEFINE c == doing[t].conn
<1>1. /\ doing[t].do = "accept" /\ doing[t].at = "begun" /\ doing[t].was = "pending"
      /\ ~ Locked(c) /\ Unlocked(Waiting(c)) /\ Answers(t)
      /\ doing' = [doing EXCEPT ![t].at = "settling", ![t].ask = Waiting(c)]
      /\ UNCHANGED <<accounts, conn, inv, share, access>>
  BY DEF Settle, Answers
<1>2. AnswerStands(t) /\ doing[t] \in Answer
  BY <1>1, Typed, OpenTransaction DEF WaitInv, ReadsStand
<1>3. c \in Conns /\ Waiting(c) \subseteq Shares
      /\ \A s \in Waiting(c) : share[s].status = "pending" /\ share[s].conn = c
  BY <1>1, <1>2, Typed, WaitingRows DEF AnswerStands, Answer
<1>4. doing[t].grant = {} /\ doing[t].lapse = {} /\ doing[t].move = {}
  BY <1>1, <1>2 DEF AnswerStands
<1> DEFINE d == [doing[t] EXCEPT !.at = "settling", !.ask = Waiting(c)]
<1>5. /\ d \in Answer
      /\ d.do = "accept" /\ d.inv = doing[t].inv /\ d.conn = c /\ d.was = "pending"
      /\ d.at = "settling" /\ d.ask = Waiting(c)
      /\ d.grant = {} /\ d.lapse = {} /\ d.move = {}
  BY <1>1, <1>2, <1>3, <1>4 DEF Answer
<1>6. doing' = [doing EXCEPT ![t] = d]
  BY <1>1, Typed
<1> HIDE DEF d
<1>7. doing'[t] = d /\ d \in Transactions
  BY <1>5, <1>6, Typed DEF Transactions
<1>8. \A s \in Waiting(c) : AsksOf(t, s) /\ Unlocked({s})
  BY <1>1, <1>3, ItemsExist DEF AsksOf, Items, Unlocked
<1>9. /\ \A s \in d.ask \cup d.grant \cup d.lapse \cup d.move :
            s \in SharesHeld(t) \/ Unlocked({s})
      /\ \A s \in d.ask \cup d.grant : share[s].status = "pending"
      /\ \A s \in d.lapse : share[s].status \in {"pending", "revoked", "lapsed"}
      /\ \A s \in d.ask \cup d.grant \cup d.lapse : AsksOf(t, s)
  BY <1>3, <1>5, <1>8
<1>10. d.move \subseteq doing[t].move /\ ~ Locked(d.conn)
  BY <1>1, <1>4, <1>5
<1>11. QED
  <2>1. /\ d.do = doing[t].do /\ d.inv = doing[t].inv /\ d.conn = doing[t].conn
        /\ d.was = doing[t].was /\ d.at = "settling"
    BY <1>1, <1>5
  <2>2. QED
    BY <1>1, <1>6, <1>7, <1>9, <1>10, <2>1, CarryOnStep, ZenonT(30)

LEMMA HandKeeps ==
    ASSUME WaitInv, NEW t \in Sessions, Hand(t)
    PROVE  WaitInv'
<1> DEFINE i == doing[t].inv
<1>1. /\ doing[t].do = "accept" /\ Answers(t) /\ Unlocked(Waiting(i))
      /\ (doing[t].at = "begun" /\ doing[t].was # "pending") \/ doing[t].at = "settling"
      /\ doing' = [doing EXCEPT ![t].at = "handing", ![t].ask = Waiting(i)]
      /\ UNCHANGED <<accounts, conn, inv, share, access>>
  BY DEF Hand, Answers
<1>2. AnswerStands(t) /\ doing[t] \in Answer
  BY <1>1, Typed, OpenTransaction DEF WaitInv, ReadsStand
<1>3. i \in Invs /\ Waiting(i) \subseteq Shares
      /\ \A s \in Waiting(i) : share[s].status = "pending" /\ share[s].inv = i
  BY <1>1, <1>2, Typed, WaitingRows DEF AnswerStands, Answer
<1> DEFINE d == [doing[t] EXCEPT !.at = "handing", !.ask = Waiting(i)]
<1>4. /\ d \in Answer
      /\ d.do = "accept" /\ d.inv = i /\ d.conn = doing[t].conn /\ d.was = doing[t].was
      /\ d.at = "handing" /\ d.ask = Waiting(i)
      /\ d.grant = doing[t].grant /\ d.lapse = doing[t].lapse /\ d.move = doing[t].move
  BY <1>1, <1>2, <1>3 DEF Answer
<1>5. doing' = [doing EXCEPT ![t] = d]
  BY <1>1, Typed
<1> HIDE DEF d
<1>6. doing'[t] = d /\ d \in Transactions
  BY <1>4, <1>5, Typed DEF Transactions
<1>7. \A s \in Waiting(i) : AsksOf(t, s) /\ Unlocked({s})
  BY <1>1, <1>3, ItemsExist DEF AsksOf, Items, Unlocked
<1>8. \A s \in doing[t].grant \cup doing[t].lapse : s \in SharesHeld(t) /\ AsksOf(t, s)
  BY <1>1, <1>2 DEF AnswerStands, SharesHeld
<1>9. ~ Holds(t, doing[t].conn) => doing[t].was # "pending"
  BY <1>1 DEF Holds
<1>10. doing[t].move = {}
  BY <1>1, <1>2 DEF AnswerStands
<1>11. /\ \A s \in doing[t].grant : share[s].status = "pending"
       /\ \A s \in doing[t].lapse : share[s].status \in {"pending", "revoked", "lapsed"}
  BY <1>1, <1>2 DEF AnswerStands
<1>12. /\ \A s \in d.ask \cup d.grant \cup d.lapse \cup d.move :
             s \in SharesHeld(t) \/ Unlocked({s})
       /\ \A s \in d.ask \cup d.grant : share[s].status = "pending"
       /\ \A s \in d.lapse : share[s].status \in {"pending", "revoked", "lapsed"}
       /\ \A s \in d.ask \cup d.grant \cup d.lapse : AsksOf(t, s)
  BY <1>3, <1>4, <1>7, <1>8, <1>10, <1>11
<1>13. QED
  <2>1. /\ d.do = doing[t].do /\ d.inv = doing[t].inv /\ d.conn = doing[t].conn
        /\ d.was = doing[t].was /\ d.at = "handing" /\ d.do # "respond"
        /\ d.move \subseteq doing[t].move
    BY <1>1, <1>4
  <2>2. ~ Holds(t, d.conn) => d.was # "pending"
    BY <1>9, <2>1
  <2>3. QED
    BY <1>1, <1>5, <1>6, <1>12, <2>1, <2>2, CarryOnStep, ZenonT(30)

LEMMA CarryKeeps ==
    ASSUME WaitInv, NEW t \in Sessions, Carry(t)
    PROVE  WaitInv'
<1> DEFINE c     == doing[t].conn
           moved == doing[t].move \ Doubled(t)
           there == IF doing[t].was # "accepted" THEN {}
                    ELSE Waiting(c) \cup {s \in moved : share[s].status = "pending"}
<1>1. /\ doing[t].do = "claim" /\ doing[t].at = "begun" /\ Answers(t)
      /\ Unlocked(doing[t].move \cup there)
      /\ doing' = [doing EXCEPT ![t].at = "settling", ![t].ask = there,
                                ![t].lapse = Doubled(t), ![t].move = moved]
      /\ UNCHANGED <<accounts, conn, inv, share, access>>
  BY DEF Carry, Answers
<1>2. AnswerStands(t) /\ doing[t] \in Answer
  BY <1>1, Typed, OpenTransaction DEF WaitInv, ReadsStand
<1>3. Doubled(t) \subseteq doing[t].move /\ moved \subseteq doing[t].move
      /\ doing[t].move \subseteq Shares
  BY <1>2 DEF Doubled, Answer
<1>4. /\ doing[t].inv # None /\ doing[t].grant = {}
      /\ \A s \in doing[t].move : /\ share[s].status \in {"pending", "revoked", "lapsed"}
                                  /\ share[s].inv = doing[t].inv
  BY <1>1, <1>2 DEF AnswerStands
<1>5. /\ there \subseteq Shares
      /\ \A s \in there : share[s].status = "pending" /\ AsksOf(t, s)
  <2>1. CASE doing[t].was # "accepted"
    BY <2>1
  <2>2. CASE doing[t].was = "accepted"
    <3>1. c \in Conns
      BY <1>2, <2>2, <1>1 DEF AnswerStands, Answer
    <3>2. \A s \in Waiting(c) : s \in Shares /\ share[s].status = "pending" /\ share[s].conn = c
      BY <3>1, Typed, WaitingRows
    <3>3. QED
      BY <1>1, <1>3, <1>4, <2>2, <3>1, <3>2, ItemsExist DEF AsksOf, Items
  <2>3. QED
    BY <2>1, <2>2
<1>6. \A s \in doing[t].move : AsksOf(t, s)
  BY <1>4 DEF AsksOf
<1>7. \A s \in doing[t].move \cup there : Unlocked({s})
  BY <1>1 DEF Unlocked
<1> HIDE DEF there, moved
<1> DEFINE d == [doing[t] EXCEPT !.at = "settling", !.ask = there, !.lapse = Doubled(t),
                                 !.move = moved]
<1>8. /\ d \in Answer
      /\ d.do = "claim" /\ d.inv = doing[t].inv /\ d.conn = c /\ d.was = doing[t].was
      /\ d.at = "settling" /\ d.ask = there /\ d.grant = {}
      /\ d.lapse = Doubled(t) /\ d.move = moved
  BY <1>1, <1>2, <1>3, <1>4, <1>5 DEF Answer
<1>9. doing' = [doing EXCEPT ![t] = d]
  BY <1>1, Typed
<1> HIDE DEF d
<1>10. doing'[t] = d /\ d \in Transactions
  BY <1>8, <1>9, Typed DEF Transactions
<1>11. /\ \A s \in d.ask \cup d.grant \cup d.lapse \cup d.move :
             s \in SharesHeld(t) \/ Unlocked({s})
       /\ \A s \in d.ask \cup d.grant : share[s].status = "pending"
       /\ \A s \in d.lapse : share[s].status \in {"pending", "revoked", "lapsed"}
       /\ \A s \in d.ask \cup d.grant \cup d.lapse : AsksOf(t, s)
  BY <1>3, <1>4, <1>5, <1>6, <1>7, <1>8
<1>12. QED
  BY <1>1, <1>3, <1>8, <1>9, <1>10, <1>11, CarryOnStep

LEMMA AskKeeps ==
    ASSUME WaitInv, NEW t \in Sessions, NEW s \in Shares, Ask(t, s)
    PROVE  WaitInv'
<1> DEFINE yes   == Allowed(share[s]) /\ (doing[t].at = "handing" => ~ HasIt(t, share[s]))
           grant == IF yes THEN doing[t].grant \cup {s} ELSE doing[t].grant
           lapse == IF yes THEN doing[t].lapse ELSE doing[t].lapse \cup {s}
           ask   == doing[t].ask \ {s}
<1>1. /\ Answers(t) /\ s \in doing[t].ask
      /\ doing' = [doing EXCEPT ![t].ask = ask, ![t].grant = grant, ![t].lapse = lapse]
      /\ UNCHANGED <<accounts, conn, inv, share, access>>
  BY DEF Ask
<1>2. AnswerStands(t) /\ doing[t] \in Answer
  BY <1>1, Typed, OpenTransaction DEF WaitInv, ReadsStand, Answers
<1>3. /\ doing[t].at \in {"settling", "handing"} /\ doing[t].do \in {"respond", "accept", "claim"}
      /\ doing[t].do = "respond" => doing[t].at = "settling"
  BY <1>1, <1>2 DEF AnswerStands, Answer
<1>4. /\ grant \subseteq doing[t].grant \cup {s} /\ lapse \subseteq doing[t].lapse \cup {s}
      /\ ask \subseteq doing[t].ask
  OBVIOUS
<1> HIDE DEF grant, lapse, ask
<1> DEFINE d == [doing[t] EXCEPT !.ask = ask, !.grant = grant, !.lapse = lapse]
<1>5. /\ d \in Answer
      /\ d.do = doing[t].do /\ d.inv = doing[t].inv /\ d.conn = doing[t].conn
      /\ d.was = doing[t].was /\ d.at = doing[t].at /\ d.ask = ask /\ d.grant = grant
      /\ d.lapse = lapse /\ d.move = doing[t].move
  BY <1>1, <1>2, <1>4 DEF Answer
<1>6. doing' = [doing EXCEPT ![t] = d]
  BY <1>1, Typed
<1> HIDE DEF d
<1>7. doing'[t] = d /\ d \in Transactions
  BY <1>5, <1>6, Typed DEF Transactions
<1>8. \A x \in d.ask \cup d.grant \cup d.lapse \cup d.move : x \in SharesHeld(t)
  BY <1>1, <1>3, <1>4, <1>5 DEF SharesHeld
<1>9. /\ \A x \in d.ask \cup d.grant : share[x].status = "pending"
      /\ \A x \in d.lapse : share[x].status \in {"pending", "revoked", "lapsed"}
      /\ \A x \in d.ask \cup d.grant \cup d.lapse : AsksOf(t, x)
  BY <1>1, <1>2, <1>4, <1>5 DEF AnswerStands
<1>10. d.do = "accept" /\ d.was = "pending" => Holds(t, d.conn)
  BY <1>3, <1>5 DEF Holds
<1>11. QED
  BY <1>1, <1>3, <1>5, <1>6, <1>7, <1>8, <1>9, <1>10, CarryOnStep

-----------------------------------------------------------------------------
(* Steps that commit.                                                      *)

LEMMA FinishCloseKeeps ==
    ASSUME WaitInv, NEW t \in Sessions, FinishClose(t)
    PROVE  WaitInv'
<1> DEFINE item == doing[t].item
           end  == doing[t].end
<1>1. /\ doing[t].do = "close" /\ doing' = [doing EXCEPT ![t] = Idle]
      /\ share' = Lapsed(share, doing[t].shares) /\ UNCHANGED <<accounts, grants, owners, trashed>>
  BY DEF FinishClose, access
<1>2. item \in Items /\ end \in {"declined", "withdrawn"} /\ Holds(t, item)
  BY <1>1, Typed, OpenTransaction DEF Holds
<1>3. /\ item \in Conns => conn[item].status = "pending"
      /\ item \in Invs => inv[item].status = "pending" /\ end = "withdrawn"
  BY <1>1 DEF WaitInv, ReadsStand, ClosingStands
<1>4. /\ conn' \in [Conns -> Connection] /\ inv' \in [Invs -> Invitation]
      /\ \A c \in Conns : conn'[c].status = IF c = item THEN end ELSE conn[c].status
      /\ \A i \in Invs : inv'[i].status = IF i = item THEN end ELSE inv[i].status
  <2>1. CASE item \in Conns
    <3>1. conn' = [conn EXCEPT ![item].status = end] /\ UNCHANGED inv /\ item \notin Invs
      BY <2>1, ItemsDiffer DEF FinishClose
    <3>2. QED
      BY <1>2, <2>1, <3>1, Typed DEF Connection
  <2>2. CASE item \notin Conns
    <3>1. inv' = [inv EXCEPT ![item].status = end] /\ UNCHANGED conn /\ item \in Invs
      BY <1>2, <2>2 DEF FinishClose, Items
    <3>2. end = "withdrawn"
      BY <1>3, <3>1
    <3>3. QED
      BY <2>2, <3>1, <3>2, Typed DEF Invitation
  <2>3. QED
    BY <2>1, <2>2
<1>5. /\ share' \in Rows
      /\ \A s \in Shares :
            /\ SameShare(share'[s], share[s])
            /\ share'[s].status = IF s \in doing[t].shares THEN "lapsed" ELSE share[s].status
  BY <1>1, Typed, LapsedRows
<1>6. doing' \in [Sessions -> Transactions]
  BY <1>1, Typed DEF Transactions
<1>7. TypeOK'
  BY <1>1, <1>4, <1>5, <1>6 DEF WaitInv, TypeOK, Rows
<1>8. \A s \in Shares : SamePlace(share'[s], share[s]) \/ s \in ReadBy(t)
  BY <1>1, <1>5 DEF SamePlace, SameShare, ReadBy
<1>9. WaitsOnOne'
  <2>1. SUFFICES ASSUME NEW s \in Shares
                 PROVE  /\ share'[s].status # "absent" =>
                              share'[s].conn # None \/ share'[s].inv # None
                        /\ share'[s].conn # None /\ share'[s].inv # None =>
                              inv'[share'[s].inv].status = "consumed"
    BY DEF WaitsOnOne
  <2>2. share[s].inv \in Invs \cup {None} /\ share'[s].conn = share[s].conn
        /\ share'[s].inv = share[s].inv
    BY <1>5, Typed DEF Rows, PendingShare, SameShare
  <2>3. share'[s].status # "absent" => share[s].status # "absent"
    <3>1. s \in doing[t].shares => share[s].status # "absent"
      BY <1>1 DEF WaitInv, ReadsStand, ClosingStands
    <3>2. QED
      BY <1>5, <3>1
  <2>4. \A i \in Invs : inv[i].status = "consumed" => inv'[i].status = "consumed"
    BY <1>3, <1>4
  <2>5. QED
    BY <2>2, <2>3, <2>4 DEF WaitInv, WaitsOnOne
<1>10. /\ \A c \in Conns : conn'[c].status = conn[c].status \/ Holds(t, c)
       /\ \A i \in Invs : inv'[i].status = inv[i].status \/ Holds(t, i)
       /\ \A c \in Conns : conn[c].status \in {"accepted", "removed"} =>
              conn'[c].status \in {"accepted", "removed"}
       /\ \A c \in Conns : conn[c].status # "absent" => conn'[c].status # "absent"
  BY <1>2, <1>3, <1>4
<1>11. QED
  BY <1>1, <1>7, <1>8, <1>9, <1>10, FinishStep

\* What an answer does to each share, and to its session.
LEMMA DecidedRows ==
    ASSUME WaitInv, NEW t \in Sessions, NEW c \in Conns, Answers(t), Decided(t, c)
    PROVE  /\ share' \in Rows
           /\ doing' = [doing EXCEPT ![t] = Idle] /\ doing' \in [Sessions -> Transactions]
           /\ grants' \subseteq Accounts \X Resources /\ UNCHANGED <<accounts, owners, trashed>>
           /\ \A s \in Shares :
                /\ share'[s].inv = share[s].inv /\ share'[s].by = share[s].by
                /\ share'[s].resource = share[s].resource
                /\ share'[s].conn = IF s \in doing[t].move THEN c ELSE share[s].conn
                /\ share'[s].status = IF s \in doing[t].grant THEN "granted"
                                      ELSE IF s \in doing[t].lapse THEN "lapsed"
                                      ELSE share[s].status
                /\ s \in doing[t].move => share[s].inv = doing[t].inv /\ share[s].status # "absent"
                /\ s \in doing[t].grant => share[s].status = "pending"
                /\ s \in doing[t].lapse => share[s].status \in {"pending", "revoked", "lapsed"}
                /\ SamePlace(share'[s], share[s]) \/ s \in ReadBy(t)
<1>1. /\ share' = Written(doing[t], c) /\ grants' = grants \cup Grantees(doing[t].grant)
      /\ doing' = [doing EXCEPT ![t] = Idle] /\ UNCHANGED <<accounts, owners, trashed>>
  BY DEF Decided
<1>2. AnswerStands(t) /\ doing[t] \in Answer /\ doing[t].do # "close"
  BY Typed, OpenTransaction DEF WaitInv, ReadsStand, Answers
<1>3. doing' \in [Sessions -> Transactions]
  BY <1>1, Typed DEF Transactions
<1>4. grants' \subseteq Accounts \X Resources
  <2>1. grants \subseteq Accounts \X Resources /\ doing[t].grant \in SUBSET Shares
    BY <1>2 DEF WaitInv, TypeOK, Answer
  <2>2. QED
    BY <1>1, <2>1, Typed, GranteesType
<1>5. /\ share' \in Rows
      /\ \A s \in Shares :
           /\ share'[s].inv = share[s].inv /\ share'[s].by = share[s].by
           /\ share'[s].resource = share[s].resource
           /\ share'[s].conn = IF s \in doing[t].move THEN c ELSE share[s].conn
           /\ share'[s].status = IF s \in doing[t].grant THEN "granted"
                                 ELSE IF s \in doing[t].lapse THEN "lapsed"
                                 ELSE share[s].status
  BY <1>1, Typed, WrittenRows
<1>6. \A s \in Shares :
        /\ s \in doing[t].move => share[s].inv = doing[t].inv /\ share[s].status # "absent"
        /\ s \in doing[t].grant => share[s].status = "pending"
        /\ s \in doing[t].lapse => share[s].status \in {"pending", "revoked", "lapsed"}
  BY <1>2 DEF AnswerStands
<1>7. \A s \in Shares : SamePlace(share'[s], share[s]) \/ s \in ReadBy(t)
  BY <1>2, <1>5 DEF SamePlace, ReadBy
<1>8. QED
  BY <1>1, <1>3, <1>4, <1>5, <1>6, <1>7

\* The shares an answer has written wait on one item.
LEMMA DecidedWait ==
    ASSUME WaitInv, NEW t \in Sessions, NEW c \in Conns, Answers(t), Decided(t, c),
           \A i \in Invs : inv[i].status = "consumed" => inv'[i].status = "consumed",
           doing[t].move # {} => doing[t].inv \in Invs /\ inv'[doing[t].inv].status = "consumed"
    PROVE  WaitsOnOne'
<1>1. SUFFICES ASSUME NEW s \in Shares
               PROVE  /\ share'[s].status # "absent" =>
                            share'[s].conn # None \/ share'[s].inv # None
                      /\ share'[s].conn # None /\ share'[s].inv # None =>
                            inv'[share'[s].inv].status = "consumed"
  BY DEF WaitsOnOne
<1>2. /\ share[s].inv \in Invs \cup {None} /\ share'[s].inv = share[s].inv
      /\ share'[s].status # "absent" => share[s].status # "absent"
  BY Typed, DecidedRows DEF Rows, PendingShare
<1>3. /\ share[s].status # "absent" => share[s].conn # None \/ share[s].inv # None
      /\ share[s].conn # None /\ share[s].inv # None => inv[share[s].inv].status = "consumed"
  BY DEF WaitInv, WaitsOnOne
<1>4. CASE s \in doing[t].move
  <2>1. share[s].inv = doing[t].inv /\ share'[s].conn = c
    BY <1>4, DecidedRows
  <2>2. QED
    BY <1>2, <1>4, <2>1, ItemsExist DEF Items
<1>5. CASE s \notin doing[t].move
  <2>1. share'[s].conn = share[s].conn
    BY <1>5, DecidedRows
  <2>2. QED
    BY <1>2, <1>3, <2>1
<1>6. QED
  BY <1>4, <1>5

LEMMA FinishRespondKeeps ==
    ASSUME WaitInv, NEW t \in Sessions, NEW c \in Conns, FinishRespond(t, c)
    PROVE  WaitInv'
<1>1. /\ doing[t].do = "respond" /\ doing[t].conn = c /\ Decided(t, c) /\ Answers(t)
      /\ conn' = [conn EXCEPT ![c].status = "accepted"] /\ UNCHANGED inv
  BY DEF FinishRespond, Answers
<1>2. doing[t].move = {} /\ Holds(t, c)
  BY <1>1 DEF WaitInv, ReadsStand, AnswerStands, Holds
<1>3. /\ conn' \in [Conns -> Connection]
      /\ \A d \in Conns : conn'[d].status = IF d = c THEN "accepted" ELSE conn[d].status
  BY <1>1, Typed DEF Connection
<1>4. TypeOK'
  BY <1>1, <1>3, DecidedRows DEF WaitInv, TypeOK, Rows
<1>5. WaitsOnOne'
  BY <1>1, <1>2, DecidedWait
<1>6. /\ doing' = [doing EXCEPT ![t] = Idle]
      /\ \A s \in Shares : SamePlace(share'[s], share[s]) \/ s \in ReadBy(t)
  BY <1>1, DecidedRows
<1>7. /\ \A d \in Conns : conn'[d].status = conn[d].status \/ Holds(t, d)
      /\ \A d \in Conns : conn[d].status \in {"accepted", "removed"} =>
                             conn'[d].status \in {"accepted", "removed"}
      /\ \A d \in Conns : conn[d].status # "absent" => conn'[d].status # "absent"
      /\ \A i \in Invs : inv'[i].status = inv[i].status
  BY <1>1, <1>2, <1>3
<1>8. QED
  BY <1>4, <1>5, <1>6, <1>7, FinishStep

\* The connection after an invitation was taken: what was read, accepted or new.
LEMMA JoinedConn ==
    ASSUME WaitInv, NEW t \in Sessions, NEW c \in Conns, NEW status \in {"pending", "accepted"},
           doing[t].do \in {"accept", "claim"}, Joined(t, c, status)
    PROVE  /\ conn' \in [Conns -> Connection]
           /\ \A d \in Conns : d # c => conn'[d] = conn[d]
           /\ \/ /\ doing[t].was = "none" /\ conn[c].status = "absent"
                 /\ conn'[c].status = status
              \/ /\ doing[t].was = "pending" /\ status = "accepted" /\ doing[t].conn = c
                 /\ conn'[c].status = "accepted"
              \/ /\ doing[t].was = "pending" /\ status = "pending" /\ doing[t].conn = c
                 /\ conn'[c] = conn[c]
              \/ /\ doing[t].was = "accepted" /\ doing[t].conn = c
                 /\ conn'[c] = conn[c] /\ conn[c].status \in {"accepted", "removed"}
<1> DEFINE was == doing[t].was
<1>1. doing[t].inv \in Invs \cup {None} /\ was \in {"none", "pending", "accepted"}
  BY Typed, OpenTransaction
<1>2. AnswerStands(t) /\ Answers(t)
  BY DEF WaitInv, ReadsStand, Answers
<1>3. /\ conn \in [Conns -> Connection] /\ doing[t].inv \in Invs
      /\ inv[doing[t].inv].from \in Accounts
  BY <1>1, <1>2, Typed DEF AnswerStands, Invitation
<1>4. CASE was = "none"
  <2> DEFINE new == [from |-> inv[doing[t].inv].from, status |-> status]
  <2>1. conn' = [conn EXCEPT ![c] = new] /\ conn[c].status = "absent"
    BY <1>4 DEF Joined
  <2>2. new \in Connection /\ new.status = status
    BY <1>3 DEF Connection
  <2> HIDE DEF new
  <2>3. QED
    BY <1>3, <1>4, <2>1, <2>2
<1>5. CASE was = "pending" /\ status = "accepted"
  <2>1. conn' = [conn EXCEPT ![c].status = status] /\ doing[t].conn = c
    BY <1>5 DEF Joined
  <2>2. /\ conn' \in [Conns -> Connection] /\ conn'[c].status = status
        /\ \A d \in Conns : d # c => conn'[d] = conn[d]
    BY <1>3, <2>1 DEF Connection
  <2>3. QED
    BY <1>5, <2>1, <2>2
<1>6. CASE was # "none" /\ ~ (was = "pending" /\ status = "accepted")
  <2>1. conn' = conn /\ doing[t].conn = c
    BY <1>6 DEF Joined
  <2>2. was = "accepted" => conn[c].status \in {"accepted", "removed"}
    BY <1>2, <2>1 DEF AnswerStands
  <2>3. QED
    BY <1>1, <1>3, <1>6, <2>1, <2>2
<1>7. QED
  BY <1>1, <1>4, <1>5, <1>6

\* The invitation that was taken is consumed, and the others are as they were.
LEMMA TakenInvitation ==
    ASSUME WaitInv, NEW t \in Sessions, doing[t].do \in {"accept", "claim"},
           inv' = [inv EXCEPT ![doing[t].inv].status = "consumed"]
    PROVE  /\ inv' \in [Invs -> Invitation] /\ doing[t].inv \in Invs /\ Holds(t, doing[t].inv)
           /\ \A i \in Invs : inv'[i].status = IF i = doing[t].inv THEN "consumed" ELSE inv[i].status
<1>1. doing[t].inv \in Invs \cup {None} /\ inv \in [Invs -> Invitation]
  BY Typed, OpenTransaction
<1>2. doing[t].inv # None /\ Holds(t, doing[t].inv)
  BY DEF WaitInv, ReadsStand, AnswerStands, Answers, Holds
<1>3. QED
  BY <1>1, <1>2 DEF Invitation

\* Both ways of taking an invitation.
LEMMA TakeKeeps ==
    ASSUME WaitInv, NEW t \in Sessions, NEW c \in Conns, NEW status \in {"pending", "accepted"},
           doing[t].do \in {"accept", "claim"}, Decided(t, c), Joined(t, c, status),
           status = "accepted" => doing[t].do = "accept" /\ doing[t].at = "handing",
           inv' = [inv EXCEPT ![doing[t].inv].status = "consumed"]
    PROVE  WaitInv'
<1>1. Answers(t)
  BY DEF Answers
<1>2. TypeOK'
  <2>1. conn' \in [Conns -> Connection] /\ inv' \in [Invs -> Invitation]
    BY JoinedConn, TakenInvitation
  <2>2. /\ share' \in Rows /\ doing' \in [Sessions -> Transactions]
        /\ grants' \subseteq Accounts \X Resources /\ UNCHANGED <<accounts, owners, trashed>>
    BY <1>1, DecidedRows
  <2>3. QED
    BY <2>1, <2>2 DEF WaitInv, TypeOK, Rows
<1>3. WaitsOnOne'
  BY <1>1, DecidedWait, TakenInvitation
<1>4. /\ \A d \in Conns : \/ conn'[d].status = conn[d].status
                          \/ Holds(t, d) \/ conn[d].status = "absent"
      /\ \A d \in Conns : conn[d].status \in {"accepted", "removed"} =>
                             conn'[d].status \in {"accepted", "removed"}
      /\ \A d \in Conns : conn[d].status # "absent" => conn'[d].status # "absent"
  <2>1. doing[t].was = "pending" /\ status = "accepted" /\ doing[t].conn = c => Holds(t, c)
    BY DEF Holds
  <2>2. QED
    BY <2>1, JoinedConn
<1>5. \A i \in Invs : inv'[i].status = inv[i].status \/ Holds(t, i)
  BY TakenInvitation
<1>6. /\ doing' = [doing EXCEPT ![t] = Idle]
      /\ \A s \in Shares : SamePlace(share'[s], share[s]) \/ s \in ReadBy(t)
  BY <1>1, DecidedRows
<1>7. QED
  BY <1>2, <1>3, <1>4, <1>5, <1>6, FinishStep

LEMMA FinishAcceptKeeps ==
    ASSUME WaitInv, NEW t \in Sessions, NEW c \in Conns, FinishAccept(t, c)
    PROVE  WaitInv'
BY TakeKeeps DEF FinishAccept

LEMMA FinishClaimKeeps ==
    ASSUME WaitInv, NEW t \in Sessions, NEW c \in Conns, FinishClaim(t, c)
    PROVE  WaitInv'
BY TakeKeeps DEF FinishClaim

\* What a queue writes: a share of its item, new, or updated while unlocked.
LEMMA QueuedRow ==
    ASSUME WaitInv, NEW t \in Sessions, NEW s \in Shares, FinishQueue(t, s)
    PROVE  /\ share' \in Rows
           /\ \A x \in Shares : x # s => share'[x] = share[x]
           /\ share'[s].status = "pending"
           /\ \/ /\ share[s].status = "pending" /\ Unlocked({s})
                 /\ share'[s].conn = share[s].conn /\ share'[s].inv = share[s].inv
              \/ share[s].status = "absent" /\ share'[s].conn \in Conns /\ share'[s].inv = None
              \/ share[s].status = "absent" /\ share'[s].conn = None /\ share'[s].inv \in Invs
           /\ \/ share'[s].conn = doing[t].item \/ share'[s].inv = doing[t].item
<1> DEFINE q        == doing[t]
           standing == {x \in Waiting(q.item) : share[x].resource = q.resource}
           new      == IF standing # {} THEN [share[s] EXCEPT !.by = q.by]
                       ELSE [conn |-> IF q.item \in Conns THEN q.item ELSE None,
                             inv |-> IF q.item \in Invs THEN q.item ELSE None,
                             by |-> q.by, resource |-> q.resource, status |-> "pending"]
<1>1. /\ share' = [share EXCEPT ![s] = new]
      /\ standing # {} => s \in standing /\ Unlocked(standing)
      /\ standing = {} => share[s].status = "absent"
      /\ q.do = "queue"
  BY DEF FinishQueue
<1>2. q.by \in Accounts /\ q.item \in Items /\ q.resource \in Resources
  BY <1>1, Typed, OpenTransaction
<1>3. share[s] \in PendingShare
  BY Typed DEF Rows
<1>4. CASE standing # {}
  <2>1. s \in Waiting(q.item) /\ new = [share[s] EXCEPT !.by = q.by] /\ Unlocked({s})
    BY <1>1, <1>4 DEF Unlocked
  <2>2. share[s].status = "pending" /\ q.item \in {share[s].conn, share[s].inv}
    BY <2>1 DEF Waiting
  <2>3. /\ new \in PendingShare /\ new.status = share[s].status
        /\ new.conn = share[s].conn /\ new.inv = share[s].inv
    BY <1>2, <1>3, <2>1 DEF PendingShare
  <2> HIDE DEF new
  <2>4. QED
    BY <1>1, <2>1, <2>2, <2>3, Typed DEF Rows
<1>5. CASE standing = {}
  <2>1. new = [conn |-> IF q.item \in Conns THEN q.item ELSE None,
               inv |-> IF q.item \in Invs THEN q.item ELSE None,
               by |-> q.by, resource |-> q.resource, status |-> "pending"]
    BY <1>5
  <2>2. /\ new \in PendingShare /\ new.status = "pending" /\ share[s].status = "absent"
        /\ \/ new.conn = q.item /\ new.conn \in Conns /\ new.inv = None
           \/ new.inv = q.item /\ new.conn = None /\ new.inv \in Invs
    BY <1>1, <1>2, <1>5, <2>1, ItemsDiffer DEF PendingShare, Items
  <2> HIDE DEF new
  <2>3. QED
    BY <1>1, <2>2, Typed DEF Rows
<1>6. QED
  BY <1>4, <1>5

LEMMA FinishQueueKeeps ==
    ASSUME WaitInv, NEW t \in Sessions, NEW s \in Shares, FinishQueue(t, s)
    PROVE  WaitInv'
<1>1. /\ doing' = [doing EXCEPT ![t] = Idle]
      /\ UNCHANGED <<accounts, conn, inv, grants, owners, trashed>>
  BY DEF FinishQueue, access
<1>2. doing' \in [Sessions -> Transactions]
  BY <1>1, Typed DEF Transactions
<1>3. TypeOK'
  BY <1>1, <1>2, QueuedRow DEF WaitInv, TypeOK, Rows
<1>4. \A x \in Shares : SamePlace(share'[x], share[x]) \/ share[x].status = "absent"
  BY QueuedRow DEF SamePlace
<1>5. WaitsOnOne'
  <2>1. SUFFICES ASSUME NEW x \in Shares
                 PROVE  /\ share'[x].status # "absent" =>
                              share'[x].conn # None \/ share'[x].inv # None
                        /\ share'[x].conn # None /\ share'[x].inv # None =>
                              inv[share'[x].inv].status = "consumed"
    BY <1>1 DEF WaitsOnOne
  <2>2. CASE SamePlace(share'[x], share[x])
    BY <2>2 DEF WaitInv, WaitsOnOne, SamePlace
  <2>3. CASE ~ SamePlace(share'[x], share[x])
    <3>1. \/ share'[x].conn \in Conns /\ share'[x].inv = None
          \/ share'[x].conn = None /\ share'[x].inv \in Invs
      BY <2>3, QueuedRow DEF SamePlace
    <3>2. QED
      BY <3>1, ItemsExist DEF Items
  <2>4. QED
    BY <2>2, <2>3
<1>6. QED
  BY <1>1, <1>3, <1>4, <1>5, FinishStep

\* A step of the system, whatever it is, keeps the invariant.
LEMMA StepKeeps ==
    ASSUME WaitInv, [Next]_vars
    PROVE  WaitInv'
<1>1. CASE UNCHANGED vars
  BY <1>1, AccessKeeps DEF vars, access, WaitInv, TypeOK
<1>2. CASE OneStep
  BY <1>2, JoinKeeps, ChangeOwnerKeeps, TrashOrRecoverKeeps, ChangeGrantKeeps, RequestKeeps,
     InviteKeeps, CurrentKeeps, RemoveKeeps, RevokeKeeps DEF OneStep
<1>3. ASSUME NEW t \in Sessions, Begin(t)
      PROVE  WaitInv'
  BY <1>3, BeginCloseKeeps, BeginRespondKeeps, BeginTakeKeeps, BeginQueueKeeps DEF Begin
<1>4. ASSUME NEW t \in Sessions, GoOn(t)
      PROVE  WaitInv'
  BY <1>4, SettleKeeps, HandKeeps, CarryKeeps, AskKeeps DEF GoOn
<1>5. ASSUME NEW t \in Sessions, Finish(t)
      PROVE  WaitInv'
  BY <1>5, FinishCloseKeeps, FinishRespondKeeps, FinishAcceptKeeps, FinishClaimKeeps,
     FinishQueueKeeps, RollBackKeeps DEF Finish
<1>6. QED
  BY <1>1, <1>2, <1>3, <1>4, <1>5 DEF Next

-----------------------------------------------------------------------------
(* What a step does to one share.                                          *)

\* Only these steps write shares.
LEMMA OnlySettlersWriteShares ==
    ASSUME [Next]_vars, share' # share
    PROVE  \/ \E s \in Shares : Revoke(s)
           \/ \E t \in Sessions : FinishClose(t)
           \/ \E t \in Sessions, c \in Conns :
                 FinishRespond(t, c) \/ FinishAccept(t, c) \/ FinishClaim(t, c)
           \/ \E t \in Sessions, s \in Shares : FinishQueue(t, s)
<1>1. ~ UNCHANGED vars
  BY DEF vars
<1>2. OneStep => \E s \in Shares : Revoke(s)
  BY DEF OneStep, Join, ChangeOwner, TrashOrRecover, ChangeGrant, Request, Invite, Expire,
         Rotate, Remove
<1>3. \A t \in Sessions : ~ Begin(t) /\ ~ GoOn(t) /\ ~ RollBack(t)
  <2>1. SUFFICES ASSUME NEW t \in Sessions, Begin(t) \/ GoOn(t) \/ RollBack(t)
                 PROVE  share' = share
    OBVIOUS
  <2>2. CASE Begin(t)
    BY <2>2 DEF Begin, BeginClose, BeginRespond, BeginTake, BeginQueue
  <2>3. CASE GoOn(t)
    BY <2>3 DEF GoOn, Settle, Hand, Carry, Ask
  <2>4. CASE RollBack(t)
    BY <2>4 DEF RollBack
  <2>5. QED
    BY <2>1, <2>2, <2>3, <2>4
<1>4. QED
  BY <1>1, <1>2, <1>3 DEF Next, Finish

\* An answer that commits has decided.
LEMMA AnswersDecide ==
    ASSUME NEW t \in Sessions, NEW c \in Conns,
           FinishRespond(t, c) \/ FinishAccept(t, c) \/ FinishClaim(t, c)
    PROVE  Answers(t) /\ Decided(t, c)
BY DEF FinishRespond, FinishAccept, FinishClaim, Answers

LEMMA RevokedRow ==
    ASSUME WaitInv, NEW x \in Shares, Revoke(x)
    PROVE  /\ \A s \in Shares : s # x => share'[s] = share[s]
           /\ share[x].status = "pending" /\ share'[x].status = "revoked"
           /\ SameShare(share'[x], share[x])
BY Typed, EndedRow DEF Revoke, Rows, SameShare

\* How the status of one share may change, whatever the step.
LEMMA ShareSteps ==
    ASSUME WaitInv, [Next]_vars, NEW s \in Shares
    PROVE  /\ share[s].status = "granted" => share'[s].status = "granted"
           /\ share[s].status \in {"revoked", "lapsed"} => share'[s].status \in {"revoked", "lapsed"}
<1>1. CASE share' = share
  BY <1>1
<1>2. ASSUME NEW x \in Shares, Revoke(x)
      PROVE  share[s].status # "pending" => share'[s].status = share[s].status
  BY <1>2, RevokedRow
<1>3. ASSUME NEW t \in Sessions, FinishClose(t)
      PROVE  \/ share'[s].status = share[s].status
             \/ share[s].status \in {"pending", "revoked", "lapsed"} /\ share'[s].status = "lapsed"
  <2>1. share' = Lapsed(share, doing[t].shares) /\ doing[t].do = "close"
    BY <1>3 DEF FinishClose
  <2>2. share'[s].status = IF s \in doing[t].shares THEN "lapsed" ELSE share[s].status
    BY <2>1, Typed, LapsedRows
  <2>3. s \in doing[t].shares => share[s].status \in {"pending", "revoked", "lapsed"}
    BY <2>1 DEF WaitInv, ReadsStand, ClosingStands
  <2>4. QED
    BY <2>2, <2>3
<1>4. ASSUME NEW t \in Sessions, NEW c \in Conns,
             FinishRespond(t, c) \/ FinishAccept(t, c) \/ FinishClaim(t, c)
      PROVE  \/ share'[s].status = share[s].status
             \/ share[s].status = "pending" /\ share'[s].status = "granted"
             \/ share[s].status \in {"pending", "revoked", "lapsed"} /\ share'[s].status = "lapsed"
  BY <1>4, AnswersDecide, DecidedRows
<1>5. ASSUME NEW t \in Sessions, NEW x \in Shares, FinishQueue(t, x)
      PROVE  share[s].status \notin {"pending", "absent"} => share'[s].status = share[s].status
  BY <1>5, QueuedRow
<1>6. QED
  BY <1>1, <1>2, <1>3, <1>4, <1>5, OnlySettlersWriteShares

\* A waiting share becomes a grant only by an answer that has decided to grant it.
LEMMA GrantSteps ==
    ASSUME WaitInv, [Next]_vars, NEW s \in Shares,
           share[s].status = "pending", share'[s].status = "granted"
    PROVE  \E t \in Sessions, c \in Conns :
              /\ FinishRespond(t, c) \/ FinishAccept(t, c) \/ FinishClaim(t, c)
              /\ s \in doing[t].grant
<1>1. ASSUME NEW x \in Shares, Revoke(x)
      PROVE  share'[s].status # "granted"
  BY <1>1, RevokedRow
<1>2. ASSUME NEW t \in Sessions, FinishClose(t)
      PROVE  share'[s].status # "granted"
  BY <1>2, Typed, LapsedRows DEF FinishClose
<1>3. ASSUME NEW t \in Sessions, NEW x \in Shares, FinishQueue(t, x)
      PROVE  share'[s].status # "granted"
  BY <1>3, QueuedRow
<1>4. ASSUME NEW t \in Sessions, NEW c \in Conns,
             FinishRespond(t, c) \/ FinishAccept(t, c) \/ FinishClaim(t, c)
      PROVE  s \in doing[t].grant
  BY <1>4, AnswersDecide, DecidedRows
<1>5. QED
  BY <1>1, <1>2, <1>3, <1>4, OnlySettlersWriteShares

-----------------------------------------------------------------------------
(* What an answer asked while it held the share.                           *)

\* A share that an answer is to grant after a step was held before it, by the
\* same answer and under the same sharer's name; if the answer has just asked,
\* the sharer might share the record.
LEMMA AskedOfTheSharer ==
    ASSUME WaitInv, Next, NEW t \in Sessions, NEW s \in SharesHeld(t)', s \in doing'[t].grant
    PROVE  /\ s \in SharesHeld(t) /\ s \in Shares
           /\ share'[s].by = share[s].by
           /\ s \in doing[t].grant \/ Allowed(share[s])
<1> DEFINE Held == /\ s \in SharesHeld(t) /\ s \in Shares /\ share'[s].by = share[s].by
                   /\ s \in doing[t].grant \/ Allowed(share[s])
<1>1. AnswerStands(t)
  BY DEF WaitInv, ReadsStand
<1>2. SharesHeld(t) \subseteq Shares
  BY Typed, OpenTransaction DEF SharesHeld, Answers
<1>3. CASE doing'[t] = doing[t]
  <2>1. s \in SharesHeld(t) /\ s \in doing[t].grant /\ s \in Shares /\ share[s].status = "pending"
    BY <1>1, <1>2, <1>3 DEF SharesHeld, Answers, AnswerStands
  <2>2. share'[s].by = share[s].by
    <3>1. CASE share' = share
      BY <3>1
    <3>2. ASSUME NEW x \in Shares, Revoke(x)
          PROVE  share'[s].by = share[s].by
      BY <2>1, <3>2, RevokedRow DEF SameShare
    <3>3. ASSUME NEW u \in Sessions, FinishClose(u)
          PROVE  share'[s].by = share[s].by
      BY <2>1, <3>3, Typed, LapsedRows DEF FinishClose, SameShare
    <3>4. ASSUME NEW u \in Sessions, NEW c \in Conns,
                 FinishRespond(u, c) \/ FinishAccept(u, c) \/ FinishClaim(u, c)
          PROVE  share'[s].by = share[s].by
      BY <2>1, <3>4, AnswersDecide, DecidedRows
    <3>5. ASSUME NEW u \in Sessions, NEW x \in Shares, FinishQueue(u, x)
          PROVE  share'[s].by = share[s].by
      <4>1. s # x
        BY <2>1, <3>5, QueuedRow DEF Unlocked
      <4>2. QED
        BY <2>1, <3>5, <4>1, QueuedRow
    <3>6. QED
      BY <3>1, <3>2, <3>3, <3>4, <3>5, OnlySettlersWriteShares
  <2>3. QED
    BY <2>1, <2>2
<1>4. ASSUME NEW u \in Sessions, Begin(u), doing'[t] # doing[t]
      PROVE  FALSE
  <2>1. u = t
    BY <1>4, Typed DEF Begin, BeginClose, BeginRespond, BeginTake, BeginQueue
  <2>2. ASSUME NEW item \in Items, NEW end \in {"declined", "withdrawn"}, BeginClose(t, item, end)
        PROVE  doing'[t].do = "close"
    BY <2>2, Typed DEF BeginClose
  <2>3. ASSUME NEW c \in Conns, BeginRespond(t, c)
        PROVE  doing'[t].grant = {}
    BY <2>3, Typed DEF BeginRespond
  <2>4. ASSUME NEW do \in {"accept", "claim"}, NEW by \in Accounts, NEW i \in Invs,
               BeginTake(t, do, by, i)
        PROVE  doing'[t].grant = {}
    BY <2>4, Typed DEF BeginTake
  <2>5. ASSUME NEW by \in Accounts, NEW item \in Items, NEW r \in Resources,
               BeginQueue(t, by, item, r)
        PROVE  doing'[t].do = "queue"
    BY <2>5, Typed DEF BeginQueue
  <2>6. doing'[t].do \notin {"close", "queue"} /\ doing'[t].grant # {}
    BY DEF SharesHeld, Answers
  <2>7. QED
    BY <1>4, <2>1, <2>2, <2>3, <2>4, <2>5, <2>6 DEF Begin
<1>5. ASSUME NEW u \in Sessions, GoOn(u), doing'[t] # doing[t]
      PROVE  Held
  <2>1. u = t /\ share' = share /\ Answers(t) /\ doing[t] \in Answer
    BY <1>5, Typed, OpenTransaction DEF GoOn, Settle, Hand, Carry, Ask, Answers
  <2>2. ASSUME Settle(t) \/ Hand(t) \/ Carry(t)
        PROVE  doing'[t].grant = doing[t].grant
    <3>1. CASE Settle(t)
      BY <2>1, <3>1, Typed DEF Settle, Answer
    <3>2. CASE Hand(t)
      BY <2>1, <3>2, Typed DEF Hand, Answer
    <3>3. CASE Carry(t)
      <4>1. PICK there, moved : doing' = [doing EXCEPT ![t].at = "settling", ![t].ask = there,
                                     ![t].lapse = Doubled(t), ![t].move = moved]
        BY <3>3 DEF Carry
      <4>2. QED
        BY <2>1, <4>1, Typed DEF Answer
    <3>4. QED
      BY <2>2, <3>1, <3>2, <3>3
  <2>3. s \in doing[t].grant => s \in SharesHeld(t)
    BY <1>1, <2>1 DEF AnswerStands, SharesHeld
  <2>4. ASSUME NEW x \in Shares, Ask(t, x)
        PROVE  Held
    <3> DEFINE yes == Allowed(share[x]) /\ (doing[t].at = "handing" => ~ HasIt(t, share[x]))
               grant == IF yes THEN doing[t].grant \cup {x} ELSE doing[t].grant
               lapse == IF yes THEN doing[t].lapse ELSE doing[t].lapse \cup {x}
               ask   == doing[t].ask \ {x}
    <3>1. /\ doing' = [doing EXCEPT ![t].ask = ask, ![t].grant = grant, ![t].lapse = lapse]
          /\ x \in doing[t].ask
      BY <2>4 DEF Ask
    <3>2. s \in grant
      <4> HIDE DEF grant, ask, lapse
      <4>1. doing'[t].grant = grant
        BY <2>1, <3>1, Typed DEF Answer
      <4>2. QED
        BY <4>1
    <3>3. s \in doing[t].grant \/ (s = x /\ Allowed(share[x]))
      BY <3>2
    <3>4. x \in SharesHeld(t)
      BY <1>1, <2>1, <3>1 DEF AnswerStands, SharesHeld
    <3>5. QED
      BY <1>2, <2>1, <2>3, <3>3, <3>4
  <2>5. QED
    BY <1>2, <1>5, <2>1, <2>2, <2>3, <2>4 DEF GoOn
<1>6. ASSUME NEW u \in Sessions, Finish(u), doing'[t] # doing[t]
      PROVE  FALSE
  <2>1. doing' = [doing EXCEPT ![u] = Idle]
    BY <1>6 DEF Finish, FinishClose, FinishRespond, FinishAccept, FinishClaim, Decided,
                FinishQueue, RollBack
  <2>2. doing'[t] = Idle
    BY <1>6, <2>1, Typed
  <2>3. QED
    BY <2>2 DEF SharesHeld, Answers, Idle
<1>7. OneStep => doing' = doing
  BY DEF OneStep, Join, ChangeOwner, TrashOrRecover, ChangeGrant, Request, Invite, Expire,
         Rotate, Remove, Revoke
<1>8. QED
  BY <1>3, <1>4, <1>5, <1>6, <1>7 DEF Next

\* An answer's history keeps up with what it asks.
LEMMA AskedKeeps ==
    ASSUME WaitInv, WaitInv', AskedInv, [MCNext]_<<vars, overlapped, could>>
    PROVE  AskedInv'
<1>1. CASE UNCHANGED <<vars, overlapped, could>>
  BY <1>1 DEF AskedInv, vars, access, SharesHeld, Answers, MayNow, MayShare, Unlocked
<1>2. CASE MCNext
  <2>1. SUFFICES ASSUME NEW t \in Sessions, NEW s \in SharesHeld(t)'
                 PROVE  /\ MayNow(s)' \subseteq could'[s]
                        /\ s \in doing'[t].grant => share'[s].by \in could'[s]
    BY DEF AskedInv
  <2>2. s \in Shares
    <3>1. doing'[t] \in Transactions
      BY DEF WaitInv, TypeOK
    <3>2. QED
      BY <2>1, <3>1, OpenTransaction DEF SharesHeld, Answers
  <2>3. could'[s] = could[s] \cup MayNow(s)'
    <3>1. ~ Unlocked({s})'
      BY <2>1 DEF Unlocked
    <3>2. QED
      BY <1>2, <2>2, <3>1 DEF MCNext
  <2>4. ASSUME s \in doing'[t].grant
        PROVE  share'[s].by \in could[s]
    <3>1. /\ s \in SharesHeld(t) /\ share'[s].by = share[s].by
          /\ s \in doing[t].grant \/ Allowed(share[s])
      BY <1>2, <2>1, <2>4, AskedOfTheSharer DEF MCNext
    <3>2. CASE s \in doing[t].grant
      BY <3>1, <3>2 DEF AskedInv
    <3>3. CASE Allowed(share[s])
      <4>1. share[s].by \in Accounts
        BY <2>2, Typed DEF Rows, PendingShare
      <4>2. share[s].by \in MayNow(s)
        BY <3>1, <3>3, <4>1 DEF MayNow, Unlocked, Allowed
      <4>3. QED
        BY <3>1, <4>2 DEF AskedInv
    <3>4. QED
      BY <3>1, <3>2, <3>3
  <2>5. QED
    BY <2>3, <2>4
<1>3. QED
  BY <1>1, <1>2

-----------------------------------------------------------------------------
(* While transactions do not overlap.                                      *)

\* What the proofs of one step assume: no two transactions have overlapped, and
\* this step is of the one that is open, or finds none.
AloneBefore == WaitInv /\ NoShareStranded /\ OneIsOpen /\ Alone

\* A waiting share waits on an item that still can be answered.
LEMMA WaitsOnPending ==
    ASSUME AloneBefore, NEW s \in Shares, share[s].status = "pending"
    PROVE  /\ share[s].conn \in Conns \cup {None} /\ share[s].inv \in Invs \cup {None}
           /\ share[s].conn = None => share[s].inv # None
           /\ share[s].conn # None => conn[share[s].conn].status = "pending"
           /\ share[s].conn = None => inv[share[s].inv].status = "pending"
BY Typed DEF AloneBefore, WaitInv, WaitsOnOne, Rows, PendingShare, NoShareStranded

\* A step of one transaction leaves none open, and no waiting share stranded.
LEMMA OneStepAlone ==
    ASSUME AloneBefore, OneStep
    PROVE  NoShareStranded' /\ \A t \in Sessions : doing'[t] = Idle
<1>1. doing' = doing
  BY DEF OneStep, Join, ChangeOwner, TrashOrRecover, ChangeGrant, Request, Invite, Expire, Rotate,
         Remove, Revoke
<1>2. \A t \in Sessions : doing'[t] = Idle
  BY <1>1 DEF AloneBefore, Alone
<1>3. CASE UNCHANGED <<conn, inv, share>>
  BY <1>2, <1>3 DEF AloneBefore, NoShareStranded
<1>4. ASSUME NEW by \in Accounts, NEW c \in Conns, Request(by, c)
      PROVE  NoShareStranded'
  <2>1. UNCHANGED <<inv, share>> /\ \A d \in Conns : conn[d].status # "absent" => conn'[d] = conn[d]
    BY <1>4, Typed DEF Request, AloneBefore
  <2>2. QED
    BY <2>1, WaitsOnPending DEF NoShareStranded
<1>5. ASSUME NEW by \in Accounts, NEW i \in Invs, NEW addressed \in BOOLEAN,
             Invite(by, i, addressed)
      PROVE  NoShareStranded'
  <2>1. UNCHANGED <<conn, share>> /\ \A j \in Invs : inv[j].status # "absent" => inv'[j] = inv[j]
    BY <1>5, Typed DEF Invite, AloneBefore
  <2>2. QED
    BY <2>1, WaitsOnPending DEF NoShareStranded
<1>6. ASSUME NEW i \in Invs, Expire(i) \/ Rotate(i)
      PROVE  NoShareStranded'
  <2>1. PICK current \in BOOLEAN : inv' = [inv EXCEPT ![i].current = current]
    BY <1>6 DEF Expire, Rotate
  <2>2. UNCHANGED <<conn, share>> /\ \A j \in Invs : inv'[j].status = inv[j].status
    BY <1>6, <2>1, Typed DEF Expire, Rotate, Invitation, AloneBefore
  <2>3. QED
    BY <2>2, WaitsOnPending DEF NoShareStranded
<1>7. ASSUME NEW c \in Conns, Remove(c)
      PROVE  NoShareStranded'
  <2>1. UNCHANGED <<inv, share>> /\ \A d \in Conns : conn[d].status = "pending" => conn'[d] = conn[d]
    BY <1>7, Typed DEF Remove, AloneBefore
  <2>2. QED
    BY <2>1, WaitsOnPending DEF NoShareStranded
<1>8. ASSUME NEW s \in Shares, Revoke(s)
      PROVE  NoShareStranded'
  <2>1. UNCHANGED <<conn, inv>>
    BY <1>8 DEF Revoke
  <2>2. (\A x \in Shares : x # s => share'[x] = share[x]) /\ share'[s].status = "revoked"
    BY <1>8, RevokedRow DEF AloneBefore
  <2>3. QED
    BY <2>1, <2>2 DEF AloneBefore, NoShareStranded
<1>9. QED
  BY <1>2, <1>3, <1>4, <1>5, <1>6, <1>7, <1>8
  DEF OneStep, Join, ChangeOwner, TrashOrRecover, ChangeGrant

\* Sessions without a transaction have read nothing that could change.
LEMMA IdleIsSo == ASSUME NEW t, doing'[t] = Idle PROVE StillSo(t)'
BY DEF StillSo, Answers, Idle

\* A step that only opens a transaction or carries it on, while no other is open.
LEMMA OneGoesOn ==
    ASSUME AloneBefore, NEW t \in Sessions, UNCHANGED <<conn, inv, share>>,
           \A u \in Sessions : u # t => doing'[u] = Idle, StillSo(t)'
    PROVE  NoShareStranded' /\ OneIsOpen'
<1>1. NoShareStranded'
  BY DEF AloneBefore, NoShareStranded
<1>2. \A u \in Sessions : StillSo(u)'
  BY IdleIsSo
<1>3. QED
  BY <1>1, <1>2 DEF OneIsOpen

\* A transaction that begins finds none open, and what it reads is so.
LEMMA BeginAlone ==
    ASSUME AloneBefore, NEW t \in Sessions, Begin(t)
    PROVE  NoShareStranded' /\ OneIsOpen'
<1>1. UNCHANGED <<conn, inv, share>>
  BY DEF Begin, BeginClose, BeginRespond, BeginTake, BeginQueue
<1>2. doing \in [Sessions -> Transactions]
  BY Typed DEF AloneBefore
<1>3. \A u \in Sessions : u # t => doing'[u] = Idle
  <2>1. \A u \in Sessions : u # t => doing'[u] = doing[u]
    BY <1>2 DEF Begin, BeginClose, BeginRespond, BeginTake, BeginQueue
  <2>2. QED
    BY <2>1 DEF AloneBefore, Alone
<1>4. ASSUME NEW item \in Items, NEW end \in {"declined", "withdrawn"}, BeginClose(t, item, end)
      PROVE  StillSo(t)'
  <2>1. doing'[t].do = "close" /\ doing'[t].shares = Waiting(doing'[t].item)
    BY <1>2, <1>4 DEF BeginClose
  <2>2. QED
    BY <1>1, <2>1 DEF StillSo, Answers, Waiting
<1>5. ASSUME NEW c \in Conns, BeginRespond(t, c)
      PROVE  StillSo(t)'
  <2>1. /\ doing'[t].do = "respond" /\ doing'[t].conn = c /\ doing'[t].was = "pending"
        /\ doing'[t].ask = Waiting(c) /\ conn[c].status = "pending"
    BY <1>2, <1>5 DEF BeginRespond
  <2>2. Waiting(c)' = Waiting(c)
    BY <1>1 DEF Waiting
  <2>3. QED
    BY <1>1, <2>1, <2>2 DEF StillSo, Answers
<1>6. ASSUME NEW do \in {"accept", "claim"}, NEW by \in Accounts, NEW i \in Invs,
             BeginTake(t, do, by, i)
      PROVE  StillSo(t)'
  <2>1. /\ doing'[t].do = do /\ doing'[t].at = "begun" /\ doing'[t].inv = i
        /\ doing'[t].conn # None => conn[doing'[t].conn].status = doing'[t].was
        /\ do = "claim" => doing'[t].move = Waiting(i)
    BY <1>2, <1>6 DEF BeginTake
  <2>2. Waiting(i)' = Waiting(i)
    BY <1>1 DEF Waiting
  <2>3. QED
    BY <1>1, <2>1, <2>2 DEF StillSo, Answers
<1>7. ASSUME NEW by \in Accounts, NEW item \in Items, NEW r \in Resources,
             BeginQueue(t, by, item, r)
      PROVE  StillSo(t)'
  <2>1. /\ doing'[t].do = "queue"
        /\ doing'[t].item \in Conns => conn[doing'[t].item].status = "pending"
        /\ doing'[t].item \in Invs => inv[doing'[t].item].status = "pending"
    BY <1>2, <1>7, ItemsDiffer DEF BeginQueue
  <2>2. QED
    BY <1>1, <2>1 DEF StillSo, Answers
<1>8. StillSo(t)'
  BY <1>4, <1>5, <1>6, <1>7 DEF Begin
<1>9. QED
  BY <1>1, <1>3, <1>8, OneGoesOn

\* The one open transaction goes on: what it reads then is so, and what it asked
\* of it has decided.
LEMMA GoOnAlone ==
    ASSUME AloneBefore, NEW t \in Sessions, GoOn(t)
    PROVE  NoShareStranded' /\ OneIsOpen'
<1>1. UNCHANGED <<conn, inv, share>> /\ Answers(t) /\ doing[t] # Idle
  <2>1. UNCHANGED <<conn, inv, share>> /\ Answers(t)
    BY DEF GoOn, Settle, Hand, Carry, Ask, Answers
  <2>2. QED
    BY <2>1 DEF Answers, Idle
<1>2. doing \in [Sessions -> Transactions] /\ doing[t] \in Answer /\ StillSo(t)
  BY <1>1, Typed, OpenTransaction DEF AloneBefore, OneIsOpen, Answers
<1>3. \A u \in Sessions : u # t => doing'[u] = Idle
  <2>1. \A u \in Sessions : u # t => doing'[u] = doing[u]
    BY <1>2 DEF GoOn, Settle, Hand, Carry, Ask
  <2>2. QED
    BY <1>1, <2>1 DEF AloneBefore, OneIsOpen
<1>4. \A item : Waiting(item)' = Waiting(item)
  BY <1>1 DEF Waiting
<1>5. ASSUME Settle(t)
      PROVE  StillSo(t)'
  <2>1. /\ doing[t].do = "accept"
        /\ doing' = [doing EXCEPT ![t].at = "settling", ![t].ask = Waiting(doing[t].conn)]
    BY <1>5 DEF Settle
  <2>2. /\ doing'[t].do = "accept" /\ doing'[t].at = "settling"
        /\ doing'[t].conn = doing[t].conn /\ doing'[t].was = doing[t].was
        /\ doing'[t].ask = Waiting(doing[t].conn)
    BY <1>2, <2>1 DEF Answer
  <2>3. QED
    BY <1>1, <1>2, <1>4, <2>2 DEF StillSo, Answers
<1>6. ASSUME Hand(t)
      PROVE  StillSo(t)'
  <2>1. /\ doing[t].do = "accept"
        /\ (doing[t].at = "begun" /\ doing[t].was # "pending")
              \/ (doing[t].at = "settling" /\ doing[t].ask = {})
        /\ doing' = [doing EXCEPT ![t].at = "handing", ![t].ask = Waiting(doing[t].inv)]
    BY <1>6 DEF Hand
  <2>2. /\ doing'[t].do = "accept" /\ doing'[t].at = "handing" /\ doing'[t].inv = doing[t].inv
        /\ doing'[t].conn = doing[t].conn /\ doing'[t].was = doing[t].was
        /\ doing'[t].ask = Waiting(doing[t].inv)
        /\ doing'[t].grant = doing[t].grant /\ doing'[t].lapse = doing[t].lapse
    BY <1>2, <2>1 DEF Answer
  <2>3. doing[t].was = "pending" =>
           Waiting(doing[t].conn) \subseteq doing[t].grant \cup doing[t].lapse
    BY <1>2, <2>1 DEF StillSo
  <2>4. QED
    BY <1>1, <1>2, <1>4, <2>2, <2>3 DEF StillSo, Answers
<1>7. ASSUME Carry(t)
      PROVE  StillSo(t)'
  <2> DEFINE moved == doing[t].move \ Doubled(t)
             there == IF doing[t].was # "accepted" THEN {}
                      ELSE Waiting(doing[t].conn) \cup {s \in moved : share[s].status = "pending"}
  <2>1. /\ doing[t].do = "claim"
        /\ doing' = [doing EXCEPT ![t].at = "settling", ![t].ask = there,
                                  ![t].lapse = Doubled(t), ![t].move = moved]
    BY <1>7 DEF Carry
  <2>2. doing[t].move \subseteq moved \cup Doubled(t)
    OBVIOUS
  <2>3. doing[t].was = "accepted" =>
           \A s \in moved : share[s].status = "pending" => s \in there
    OBVIOUS
  <2>4. /\ Waiting(doing[t].inv) \subseteq doing[t].move \cup doing[t].lapse
        /\ doing[t].lapse = {}
    BY <1>1, <1>2, <1>7 DEF StillSo, AloneBefore, WaitInv, ReadsStand, AnswerStands, Carry
  <2> HIDE DEF moved, there
  <2>5. /\ doing'[t].do = "claim" /\ doing'[t].at = "settling" /\ doing'[t].inv = doing[t].inv
        /\ doing'[t].conn = doing[t].conn /\ doing'[t].was = doing[t].was
        /\ doing'[t].ask = there /\ doing'[t].lapse = Doubled(t) /\ doing'[t].move = moved
    BY <1>2, <2>1 DEF Answer
  <2>6. \A s \in Waiting(doing[t].inv) : share[s].status = "pending"
    BY DEF Waiting
  <2>7. doing[t].was = "accepted" => Waiting(doing[t].inv) \subseteq there \cup Doubled(t)
    BY <2>2, <2>3, <2>4, <2>6
  <2>8. QED
    BY <1>1, <1>2, <1>4, <2>2, <2>4, <2>5, <2>7 DEF StillSo, Answers
<1>8. ASSUME NEW s \in Shares, Ask(t, s)
      PROVE  StillSo(t)'
  <2> DEFINE yes   == Allowed(share[s]) /\ (doing[t].at = "handing" => ~ HasIt(t, share[s]))
             grant == IF yes THEN doing[t].grant \cup {s} ELSE doing[t].grant
             lapse == IF yes THEN doing[t].lapse ELSE doing[t].lapse \cup {s}
             ask   == doing[t].ask \ {s}
             asked == doing[t].ask \cup doing[t].grant \cup doing[t].lapse
  <2>1. doing' = [doing EXCEPT ![t].ask = ask, ![t].grant = grant, ![t].lapse = lapse]
    BY <1>8 DEF Ask
  <2>2. asked \subseteq ask \cup grant \cup lapse /\ doing[t].lapse \subseteq lapse
    OBVIOUS
  <2> HIDE DEF grant, lapse, ask, asked
  <2>3. /\ doing'[t].do = doing[t].do /\ doing'[t].at = doing[t].at
        /\ doing'[t].inv = doing[t].inv /\ doing'[t].move = doing[t].move
        /\ doing'[t].conn = doing[t].conn /\ doing'[t].was = doing[t].was
        /\ doing'[t].ask = ask /\ doing'[t].grant = grant /\ doing'[t].lapse = lapse
    BY <1>2, <2>1 DEF Answer
  <2>4. doing[t].do \in {"respond", "accept", "claim"}
    BY <1>1 DEF Answers
  <2>5. /\ doing[t].conn # None => conn[doing[t].conn].status = doing[t].was
        /\ doing[t].do = "respond" => Waiting(doing[t].conn) \subseteq asked
        /\ doing[t].do = "accept" =>
             /\ doing[t].at = "begun" \/ doing[t].was # "pending" \/ Waiting(doing[t].conn) \subseteq asked
             /\ doing[t].at = "handing" => Waiting(doing[t].inv) \subseteq asked
        /\ doing[t].do = "claim" =>
             /\ Waiting(doing[t].inv) \subseteq doing[t].move \cup doing[t].lapse
             /\ doing[t].at = "begun" \/ doing[t].was # "accepted" \/ Waiting(doing[t].inv) \subseteq asked
    BY <1>1, <1>2 DEF StillSo, asked
  <2>6. QED
    BY <1>1, <1>4, <2>2, <2>3, <2>4, <2>5 DEF StillSo, Answers
<1>9. StillSo(t)'
  BY <1>5, <1>6, <1>7, <1>8 DEF GoOn
<1>10. QED
  BY <1>1, <1>3, <1>9, OneGoesOn

\* The one open transaction ends, and leaves no waiting share stranded.
LEMMA FinishAlone ==
    ASSUME AloneBefore, NEW t \in Sessions, Finish(t)
    PROVE  NoShareStranded' /\ \A u \in Sessions : doing'[u] = Idle
<1>1. doing' = [doing EXCEPT ![t] = Idle] /\ doing[t] # Idle
  <2>1. /\ doing' = [doing EXCEPT ![t] = Idle]
        /\ doing[t].do \in {"close", "respond", "accept", "claim", "queue"} \/ doing[t] # Idle
    <3>1. CASE FinishClose(t)
      BY <3>1 DEF FinishClose
    <3>2. CASE \E c \in Conns : FinishRespond(t, c) \/ FinishAccept(t, c) \/ FinishClaim(t, c)
      BY <3>2 DEF FinishRespond, FinishAccept, FinishClaim, Decided
    <3>3. CASE \E s \in Shares : FinishQueue(t, s)
      BY <3>3 DEF FinishQueue
    <3>4. CASE RollBack(t)
      BY <3>4 DEF RollBack
    <3>5. QED
      BY <3>1, <3>2, <3>3, <3>4 DEF Finish
  <2>2. Idle.do = "nothing"
    BY DEF Idle
  <2>3. QED
    BY <2>1, <2>2
<1>2. \A u \in Sessions : doing'[u] = Idle
  <2>1. doing'[t] = Idle /\ \A u \in Sessions : u # t => doing'[u] = doing[u]
    BY <1>1, Typed DEF AloneBefore
  <2>2. QED
    BY <1>1, <2>1 DEF AloneBefore, OneIsOpen
<1>3. WaitInv /\ StillSo(t)
  BY DEF AloneBefore, OneIsOpen
<1>4. share \in Rows
  BY <1>3, Typed
<1>5. ASSUME FinishClose(t)
      PROVE  NoShareStranded'
  <2> DEFINE item == doing[t].item
  <2>1. doing[t].do = "close" /\ item \in Items /\ doing[t].shares = Waiting(item)
    BY <1>3, <1>5, Typed, OpenTransaction DEF FinishClose, StillSo
  <2>2. \A s \in Shares : SameShare(share'[s], share[s]) /\
           (share'[s].status = "pending" => share[s].status = "pending" /\ s \notin Waiting(item))
    BY <1>3, <1>5, <2>1, Typed, LapsedRows DEF FinishClose
  <2>3. /\ \A c \in Conns : c # item => conn'[c] = conn[c]
        /\ \A i \in Invs : i # item => inv'[i] = inv[i]
    BY <1>3, <1>5, Typed DEF FinishClose
  <2>4. QED
    BY <2>2, <2>3, WaitsOnPending DEF NoShareStranded, SameShare, Waiting
<1>6. ASSUME NEW c \in Conns, FinishRespond(t, c)
      PROVE  NoShareStranded'
  <2>1. /\ Answers(t) /\ Decided(t, c) /\ doing[t].ask = {} /\ doing[t].move = {}
        /\ Waiting(c) \subseteq doing[t].grant \cup doing[t].lapse
        /\ UNCHANGED inv /\ \A d \in Conns : d # c => conn'[d] = conn[d]
    BY <1>3, <1>6, AnswersDecide, Typed
    DEF FinishRespond, Decided, StillSo, WaitInv, ReadsStand, AnswerStands
  <2>2. SUFFICES ASSUME NEW s \in Shares, share'[s].status = "pending"
                 PROVE  IF share'[s].conn # None THEN conn'[share'[s].conn].status = "pending"
                        ELSE inv'[share'[s].inv].status = "pending"
    BY DEF NoShareStranded
  <2>3. /\ share'[s].conn = share[s].conn /\ share'[s].inv = share[s].inv
        /\ share[s].status = "pending" /\ s \notin Waiting(c)
    BY <1>3, <2>1, <2>2, DecidedRows
  <2>4. share[s].conn # c
    BY <1>4, <2>3, WaitingRows
  <2>5. QED
    BY <2>1, <2>3, <2>4, WaitsOnPending
<1>7. ASSUME NEW c \in Conns, FinishAccept(t, c)
      PROVE  NoShareStranded'
  <2> DEFINE i == doing[t].inv
  <2>1. /\ Answers(t) /\ Decided(t, c) /\ doing[t].ask = {} /\ doing[t].move = {}
        /\ doing[t].do = "accept" /\ Joined(t, c, "accepted")
        /\ Waiting(i) \subseteq doing[t].grant \cup doing[t].lapse
        /\ doing[t].was # "pending"
              \/ Waiting(doing[t].conn) \subseteq doing[t].grant \cup doing[t].lapse
        /\ inv' = [inv EXCEPT ![i].status = "consumed"]
    BY <1>3, <1>7, AnswersDecide
    DEF FinishAccept, Decided, StillSo, WaitInv, ReadsStand, AnswerStands
  <2>2. /\ i \in Invs /\ \A j \in Invs : j # i => inv'[j].status = inv[j].status
        /\ \A d \in Conns : d # c => conn'[d] = conn[d]
    <3>1. i \in Invs /\ \A j \in Invs : j # i => inv'[j].status = inv[j].status
      BY <1>3, <2>1, TakenInvitation
    <3>2. \A d \in Conns : d # c => conn'[d] = conn[d]
      BY <1>3, <2>1, JoinedConn
    <3>3. QED
      BY <3>1, <3>2
  <2>3. SUFFICES ASSUME NEW s \in Shares, share'[s].status = "pending"
                 PROVE  IF share'[s].conn # None THEN conn'[share'[s].conn].status = "pending"
                        ELSE inv'[share'[s].inv].status = "pending"
    BY DEF NoShareStranded
  <2>4. /\ share'[s].conn = share[s].conn /\ share'[s].inv = share[s].inv
        /\ share[s].status = "pending" /\ s \notin doing[t].grant \cup doing[t].lapse
    BY <1>3, <2>1, <2>3, DecidedRows
  <2>5. share[s].inv # i
    BY <1>4, <2>1, <2>2, <2>4, WaitingRows
  <2>6. share[s].conn # c
    <3>1. SUFFICES ASSUME share[s].conn = c PROVE FALSE
      OBVIOUS
    <3>2. conn[c].status = "pending" /\ s \in Waiting(c)
      BY <1>4, <2>4, <3>1, WaitsOnPending, WaitingRows, ItemsExist DEF Items
    <3>3. QED
      BY <1>3, <2>1, <2>4, <3>2, JoinedConn
  <2>7. QED
    BY <2>2, <2>4, <2>5, <2>6, WaitsOnPending
<1>8. ASSUME NEW c \in Conns, FinishClaim(t, c)
      PROVE  NoShareStranded'
  <2> DEFINE i == doing[t].inv
  <2>1. /\ Answers(t) /\ Decided(t, c) /\ doing[t].ask = {}
        /\ doing[t].do = "claim" /\ Joined(t, c, "pending")
        /\ Waiting(i) \subseteq doing[t].move \cup doing[t].lapse
        /\ doing[t].was # "accepted" \/ Waiting(i) \subseteq doing[t].grant \cup doing[t].lapse
        /\ doing[t].conn # None => conn[doing[t].conn].status = doing[t].was
        /\ inv' = [inv EXCEPT ![i].status = "consumed"]
    BY <1>3, <1>8, AnswersDecide DEF FinishClaim, Decided, StillSo
  <2>2. /\ i \in Invs /\ \A j \in Invs : j # i => inv'[j].status = inv[j].status
        /\ \A d \in Conns : d # c => conn'[d] = conn[d]
    <3>1. i \in Invs /\ \A j \in Invs : j # i => inv'[j].status = inv[j].status
      BY <1>3, <2>1, TakenInvitation
    <3>2. \A d \in Conns : d # c => conn'[d] = conn[d]
      BY <1>3, <2>1, JoinedConn
    <3>3. QED
      BY <3>1, <3>2
  <2>3. /\ doing[t].was # "accepted" => conn'[c].status = "pending"
        /\ doing[t].was = "accepted" => conn'[c] = conn[c]
    BY <1>3, <2>1, JoinedConn, ItemsExist DEF Items
  <2>4. SUFFICES ASSUME NEW s \in Shares, share'[s].status = "pending"
                 PROVE  IF share'[s].conn # None THEN conn'[share'[s].conn].status = "pending"
                        ELSE inv'[share'[s].inv].status = "pending"
    BY DEF NoShareStranded
  <2>5. /\ share'[s].inv = share[s].inv /\ share[s].status = "pending"
        /\ s \notin doing[t].grant \cup doing[t].lapse
        /\ share'[s].conn = IF s \in doing[t].move THEN c ELSE share[s].conn
        /\ s \in doing[t].move => share[s].inv = i
    BY <1>3, <2>1, <2>4, DecidedRows
  <2>6. share[s].inv = i => s \in doing[t].move /\ doing[t].was # "accepted"
    BY <1>4, <2>1, <2>2, <2>5, WaitingRows
  <2>7. CASE s \in doing[t].move
    BY <2>3, <2>5, <2>6, <2>7, ItemsExist DEF Items
  <2>8. CASE s \notin doing[t].move
    <3>1. share'[s].conn = share[s].conn /\ share[s].inv # i
      BY <2>5, <2>6, <2>8
    <3>2. share[s].conn = c => conn'[c].status = "pending"
      BY <2>3, <2>5, WaitsOnPending, ItemsExist DEF Items
    <3>3. QED
      BY <2>2, <2>5, <3>1, <3>2, WaitsOnPending
  <2>9. QED
    BY <2>7, <2>8
<1>9. ASSUME NEW x \in Shares, FinishQueue(t, x)
      PROVE  NoShareStranded'
  <2>1. /\ doing[t].do = "queue" /\ UNCHANGED <<conn, inv>>
    BY <1>9 DEF FinishQueue
  <2>2. /\ doing[t].item \in Items
        /\ doing[t].item \in Conns => conn[doing[t].item].status = "pending"
        /\ doing[t].item \in Invs => inv[doing[t].item].status = "pending"
    BY <1>3, <2>1, Typed, OpenTransaction DEF StillSo
  <2>3. /\ \A s \in Shares : s # x => share'[s] = share[s]
        /\ \/ /\ share[x].status = "pending"
              /\ share'[x].conn = share[x].conn /\ share'[x].inv = share[x].inv
           \/ share'[x].conn \in Conns /\ share'[x].inv = None
           \/ share'[x].conn = None /\ share'[x].inv \in Invs
        /\ \/ share'[x].conn = doing[t].item \/ share'[x].inv = doing[t].item
    BY <1>3, <1>9, QueuedRow
  <2>4. QED
    BY <2>1, <2>2, <2>3, WaitsOnPending, ItemsExist DEF NoShareStranded, Items
<1>10. ASSUME RollBack(t)
       PROVE  NoShareStranded'
  BY <1>10 DEF RollBack, AloneBefore, NoShareStranded
<1>11. QED
  BY <1>2, <1>5, <1>6, <1>7, <1>8, <1>9, <1>10 DEF Finish

-----------------------------------------------------------------------------
(* The theorems.                                                           *)

\* The inductive invariant holds of every reachable state: locks on items and on
\* shares exclude, and what an open transaction read under its lock still stands
\* when it commits.
THEOREM WaitingKeepsItsInvariant == Spec => []WaitInv
<1>1. Init => WaitInv
  BY InitKeeps
<1>2. WaitInv /\ [Next]_vars => WaitInv'
  BY StepKeeps
<1>3. QED
  BY <1>1, <1>2, PTL DEF Spec

\* Every variable keeps its type: a carried share waits on a connection, never
\* on an invitation's id in its place (carryPendingShares).
THEOREM TypeCorrectness == Spec => []TypeOK
<1>1. WaitInv => TypeOK
  BY DEF WaitInv
<1>2. QED
  BY <1>1, WaitingKeepsItsInvariant, PTL

\* A granted share stays granted, and one that was revoked or lapsed is never
\* granted: no answer, carried invitation, close or queue that is still running
\* brings it back (settlePendingShares, lapsePendingShares, carryPendingShares).
THEOREM EndsAreFinal == Spec => EndedSharesStayEnded
<1> DEFINE Stay == \A s \in Shares :
        /\ share[s].status = "granted" => share'[s].status = "granted"
        /\ share[s].status \in {"revoked", "lapsed"} => share'[s].status \in {"revoked", "lapsed"}
<1>1. ASSUME WaitInv, [Next]_vars
      PROVE  [Stay]_vars
  BY <1>1, ShareSteps
<1>2. QED
  BY <1>1, WaitingKeepsItsInvariant, PTL DEF EndedSharesStayEnded, Spec

\* A step of the instance with its histories is a step of the system.
LEMMA StepOfTheSystem == [MCNext]_<<vars, overlapped, could>> => [Next]_vars
BY DEF MCNext

\* The two invariants behind the next theorem, of the system with its histories.
LEMMA AskedIsInvariant == MCSpec => [](WaitInv /\ AskedInv)
<1>1. MCInit => WaitInv /\ AskedInv
  <2>1. MCInit => WaitInv
    BY InitKeeps DEF MCInit
  <2>2. MCInit => AskedInv
    BY IdleStands DEF MCInit, Init, AskedInv
  <2>3. QED
    BY <2>1, <2>2
<1>2. WaitInv /\ AskedInv /\ [MCNext]_<<vars, overlapped, could>> => WaitInv' /\ AskedInv'
  BY StepOfTheSystem, StepKeeps, AskedKeeps
<1>3. QED
  BY <1>1, <1>2, PTL DEF MCSpec

\* A waiting share is granted only by an answer to the item it waits on, to the
\* other account, and under the name of a sharer who could share the record at
\* some moment while the answer held the share: the answer has asked of this
\* sharer, and under the lock (settlePendingShares, accept).
THEOREM GrantsComeFromAnswers == MCSpec => GrantsAnswerTheirShare
<1> DEFINE Granted(s) ==
        /\ share'[s].by \in could[s]
        /\ <<Other(share'[s].by), share'[s].resource>> \in grants'
        /\ \/ share'[s].conn # None /\ conn'[share'[s].conn].status \in {"accepted", "removed"}
           \/ share'[s].inv # None /\ inv'[share'[s].inv].status = "consumed"
           Stay == \A s \in Shares :
        share[s].status = "pending" /\ share'[s].status = "granted" => Granted(s)
<1>1. ASSUME WaitInv, AskedInv, [Next]_vars, NEW s \in Shares,
             share[s].status = "pending", share'[s].status = "granted"
      PROVE  Granted(s)
  <2>1. PICK t \in Sessions, c \in Conns :
           /\ FinishRespond(t, c) \/ FinishAccept(t, c) \/ FinishClaim(t, c)
           /\ s \in doing[t].grant
    BY <1>1, GrantSteps
  <2>2. Answers(t) /\ Decided(t, c) /\ AnswerStands(t) /\ doing[t] \in Answer
    BY <1>1, <2>1, AnswersDecide, Typed, OpenTransaction DEF WaitInv, ReadsStand, Answers
  <2>3. /\ share'[s].by = share[s].by /\ share'[s].resource = share[s].resource
        /\ share'[s].inv = share[s].inv
        /\ share'[s].conn = IF s \in doing[t].move THEN c ELSE share[s].conn
        /\ s \in doing[t].move => share[s].inv = doing[t].inv
    BY <1>1, <2>2, DecidedRows
  <2>4. share'[s].by \in could[s]
    <3>1. s \in SharesHeld(t)
      BY <2>1, <2>2 DEF AnswerStands, SharesHeld
    <3>2. QED
      BY <1>1, <2>1, <2>3, <3>1 DEF AskedInv
  <2>5. <<Other(share'[s].by), share'[s].resource>> \in grants'
    BY <2>1, <2>2, <2>3 DEF Decided, Grantees
  <2>6. CASE doing[t].inv # None /\ share[s].inv = doing[t].inv
    <3>1. doing[t].do \in {"accept", "claim"} /\ inv' = [inv EXCEPT ![doing[t].inv].status = "consumed"]
      BY <2>1, <2>2, <2>6 DEF FinishRespond, FinishAccept, FinishClaim, AnswerStands
    <3>2. inv'[doing[t].inv].status = "consumed"
      BY <1>1, <3>1, TakenInvitation
    <3>3. QED
      BY <2>3, <2>4, <2>5, <2>6, <3>2
  <2>7. CASE ~ (doing[t].inv # None /\ share[s].inv = doing[t].inv)
    <3>1. /\ doing[t].conn # None /\ share[s].conn = doing[t].conn
          /\ doing[t].do = "claim" => doing[t].was = "accepted"
          /\ doing[t].do = "accept" => doing[t].was = "pending"
      BY <2>1, <2>2, <2>7 DEF AnswerStands, AsksOf
    <3>2. s \notin doing[t].move
      BY <2>2, <2>3, <2>7 DEF AnswerStands, Answers
    <3>3. CASE FinishRespond(t, c)
      <4>1. doing[t].conn = c /\ conn'[c].status = "accepted"
        BY <1>1, <3>3, Typed DEF FinishRespond, Connection
      <4>2. QED
        BY <2>3, <2>4, <2>5, <3>1, <3>2, <4>1
    <3>4. CASE FinishAccept(t, c) \/ FinishClaim(t, c)
      <4>1. doing[t].conn = c /\ conn'[c].status \in {"accepted", "removed"}
        BY <1>1, <3>1, <3>4, JoinedConn DEF FinishAccept, FinishClaim
      <4>2. QED
        BY <2>3, <2>4, <2>5, <3>1, <3>2, <4>1
    <3>5. QED
      BY <2>1, <3>3, <3>4
  <2>8. QED
    BY <2>6, <2>7
<1> HIDE DEF Granted
<1>2. ASSUME WaitInv /\ AskedInv, [MCNext]_<<vars, overlapped, could>>
      PROVE  [Stay]_<<vars, overlapped, could>>
  BY <1>1, <1>2, StepOfTheSystem
<1> USE DEF Granted
<1>3. QED
  BY <1>2, AskedIsInvariant, PTL DEF GrantsAnswerTheirShare, MCSpec

\* As long as no two transactions have overlapped, no waiting share is left on
\* an item that was answered, withdrawn or claimed (respond, withdraw, accept,
\* claimInvitations, queue, revoke).
THEOREM NoneIsStrandedAlone == MCSpec => []NoShareStrandedAlone
<1>1. MCInit => AloneInv
  <2>1. SUFFICES ASSUME MCInit PROVE AloneInv
    OBVIOUS
  <2>2. WaitInv
    BY <2>1, InitKeeps DEF MCInit
  <2>3. NoShareStranded /\ OneIsOpen
    BY <2>1 DEF MCInit, Init, NoShareStranded, OneIsOpen, StillSo, Answers, Idle
  <2>4. QED
    BY <2>2, <2>3 DEF AloneInv
<1>2. AloneInv /\ [MCNext]_<<vars, overlapped, could>> => AloneInv'
  <2>1. SUFFICES ASSUME AloneInv, [MCNext]_<<vars, overlapped, could>>
                 PROVE  AloneInv'
    OBVIOUS
  <2>2. WaitInv'
    BY <2>1, StepOfTheSystem, StepKeeps DEF AloneInv
  <2>3. SUFFICES ASSUME ~ overlapped'
                 PROVE  NoShareStranded' /\ OneIsOpen'
    BY <2>2 DEF AloneInv
  <2>4. CASE UNCHANGED <<vars, overlapped, could>>
    <3>1. ~ overlapped /\ NoShareStranded /\ OneIsOpen /\ UNCHANGED <<conn, inv, share, doing>>
      BY <2>1, <2>3, <2>4 DEF AloneInv, vars
    <3>2. QED
      BY <3>1 DEF NoShareStranded, OneIsOpen, StillSo, Answers, Waiting
  <2>5. CASE MCNext
    <3>1. AloneBefore /\ Next
      BY <2>1, <2>3, <2>5 DEF MCNext, AloneInv, AloneBefore
    <3>2. (\A t \in Sessions : doing'[t] = Idle) => OneIsOpen'
      BY IdleIsSo DEF OneIsOpen
    <3>3. QED
      BY <3>1, <3>2, OneStepAlone, BeginAlone, GoOnAlone, FinishAlone DEF Next
  <2>6. QED
    BY <2>1, <2>4, <2>5
<1>3. AloneInv => NoShareStrandedAlone
  BY DEF AloneInv, NoShareStrandedAlone
<1>4. QED
  BY <1>1, <1>2, <1>3, PTL DEF MCSpec
=============================================================================
