--------------------------- MODULE MCWaitingShares ---------------------------
(* Small instances of WaitingShares, with a history of whether transactions *)
(* have overlapped, and of who could share what an answer has locked.       *)
EXTENDS WaitingShares, TLC

VARIABLES overlapped, could

MCInit == Init /\ overlapped = FALSE /\ could = [s \in Shares |-> {}]

\* The step is one of the one open transaction, or there is none.
Alone == \A t \in Sessions : doing[t] # Idle =>
             doing'[t] # doing[t] /\ \A other \in Sessions \ {t} : doing[other] = Idle

\* Who may share the record of a share at this moment, while it is locked.
MayNow(s) ==
    IF Unlocked({s}) THEN {} ELSE {a \in Accounts : MayShare(a, share[s].resource)}

MCNext ==
    /\ Next
    /\ overlapped' = (overlapped \/ ~ Alone)
    /\ could' = [s \in Shares |-> IF Unlocked({s})' THEN {} ELSE could[s] \cup MayNow(s)']

MCSpec == MCInit /\ [][MCNext]_<<vars, overlapped, could>>

\* Bound of the runs: the guest owns no record, so that every share is queued by
\* the host, and no record is in Trash while the host is no Owner.
HostShares ==
    /\ owners \subseteq {Host} \X Resources
    /\ trashed = {} \/ {Host} \X Resources \subseteq owners

HostSharesSpec == MCInit /\ [][MCNext /\ HostShares']_<<vars, overlapped, could>>

\* A share becomes a grant only by an answer to the item it waited on (a request
\* that was accepted, an invitation that was taken), to the other account, and
\* when the account under whose name it is granted could share the record at
\* some moment since the answer locked the share: what was asked long before, or
\* asked of another sharer, does not count.  At the commit that may be over.
GrantsAnswerTheirShare ==
    [][\A s \in Shares :
          share[s].status = "pending" /\ share'[s].status = "granted" =>
            /\ share'[s].by \in could[s]
            /\ <<Other(share'[s].by), share'[s].resource>> \in grants'
            /\ \/ share'[s].conn # None /\ conn'[share'[s].conn].status \in {"accepted", "removed"}
               \/ share'[s].inv # None /\ inv'[share'[s].inv].status = "consumed"
      ]_<<vars, overlapped, could>>

\* As long as no two transactions have overlapped, a waiting share waits on a
\* request or invitation that still can be answered, whatever was answered,
\* withdrawn, claimed, carried or revoked before.
NoShareStrandedAlone == overlapped \/ NoShareStranded

\* What an open transaction has read is still so, be it locked or not.
StillSo(t) ==
    LET asked == doing[t].ask \cup doing[t].grant \cup doing[t].lapse IN
    /\ doing[t].do = "close" => doing[t].shares = Waiting(doing[t].item)
    /\ doing[t].do = "queue" =>
          /\ doing[t].item \in Conns => conn[doing[t].item].status = "pending"
          /\ doing[t].item \in Invs => inv[doing[t].item].status = "pending"
    /\ Answers(t) /\ doing[t].conn # None => conn[doing[t].conn].status = doing[t].was
    /\ doing[t].do = "respond" => Waiting(doing[t].conn) \subseteq asked
    /\ doing[t].do = "accept" =>
          /\ doing[t].at = "begun" \/ doing[t].was # "pending" \/ Waiting(doing[t].conn) \subseteq asked
          /\ doing[t].at = "handing" => Waiting(doing[t].inv) \subseteq asked
    /\ doing[t].do = "claim" =>
          /\ Waiting(doing[t].inv) \subseteq doing[t].move \cup doing[t].lapse
          /\ doing[t].at = "begun" \/ doing[t].was # "accepted" \/ Waiting(doing[t].inv) \subseteq asked

\* As long as no two transactions have overlapped, at most one is open.
OneIsOpen ==
    /\ \A t, u \in Sessions : doing[t] # Idle /\ doing[u] # Idle => t = u
    /\ \A t \in Sessions : StillSo(t)

\* The inductive invariant behind NoShareStrandedAlone.
AloneInv == WaitInv /\ (overlapped \/ (NoShareStranded /\ OneIsOpen))

\* What an answer has granted could be shared when it asked.
AskedInv ==
    \A t \in Sessions : \A s \in SharesHeld(t) :
        /\ MayNow(s) \subseteq could[s]
        /\ s \in doing[t].grant => share[s].by \in could[s]

Symmetric ==
    Permutations(Conns) \cup Permutations(Shares) \cup Permutations(Sessions)
    \cup Permutations(Invs)
=============================================================================
