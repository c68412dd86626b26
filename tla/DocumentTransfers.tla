-------------------------- MODULE DocumentTransfers --------------------------
(***************************************************************************)
(* Attachments: the rows of document_transfer_authorizations, the bytes at *)
(* their storage keys and the Documents made from them                     *)
(* (packages/object-model/src/document-service.ts).  Storage is no part of *)
(* a transaction, so a request is several steps: it finds its transfer,    *)
(* does its storage work, and writes its rows in a transaction of its own, *)
(* under the fence where it asks for a permission again.  It may end after *)
(* any of them: a lost connection, a refusal, or an exit of the process.   *)
(*                                                                         *)
(* One user authorizes the uploads to one record.  "allowed" is what the   *)
(* user may do with the record and with the Documents in its scope.  An    *)
(* upload goes through the API or straight to the provider; downloads are  *)
(* those of the local provider, which go through the API.                  *)
(***************************************************************************)
EXTENDS Integers, FiniteSets

CONSTANTS
    Uploads, Downloads,  \* ids of transfers
    Documents,           \* ids drawn for the Documents
    Requests,            \* requests that may be open at once
    None

ASSUME NoneIsNoId == None \notin Uploads \cup Downloads \cup Documents \cup Requests
ASSUME TransfersAreApart == Uploads \cap Downloads = {}

VARIABLES
    allowed,   \* what the user may do: "none", "view" or "edit"
    expired,   \* the transfers whose time has passed
    upload,    \* the row of each upload
    stored,    \* the bytes at the storage key of each upload
    document,  \* the upload each Document was made from, or None
    download,  \* the row of each download
    uses,      \* audit_events: how often a transfer was recorded as used
    served,    \* how often the bytes of a download were handed over
    doing      \* the request in progress, with what it has read

vars == <<allowed, expired, upload, stored, document, download, uses, served, doing>>

-----------------------------------------------------------------------------
Idle == [do |-> "nothing"]

UploadRow ==
    [path: {"absent", "api", "provider"}, consumed: BOOLEAN, finalized: BOOLEAN]
DownloadRow == [of: Documents \cup {None}, consumed: BOOLEAN]
Bytes == {"none", "declared", "others"}

Handlers ==
    {Idle}
    \cup [do: {"receive"}, of: Uploads, stage: {"write", "consume"}]
    \cup [do: {"finalize"}, of: Uploads, stage: {"inspect", "commit"}]
    \cup [do: {"fetch"}, of: Downloads, stage: {"read", "commit", "send"}]

Edits == allowed = "edit"
Views == allowed # "none"

\* Mutant of Vacant: the last writer wins.
Overwritable(u) == TRUE

\* link, and x-cos-forbid-overwrite: bytes are published where there are none.
Vacant(u) == stored[u] = "none"

\* Mutant of AsDeclared: that the key has bytes is enough.
Present(u) == stored[u] # "none"

AsDeclared(u) == stored[u] = "declared"

-----------------------------------------------------------------------------
\* A grant or a role changes, or the record goes to Trash or to another space.
ChangeAccess(a) ==
    /\ allowed' = a
    /\ UNCHANGED <<expired, upload, stored, document, download, uses, served, doing>>

Expire(x) ==
    /\ \/ x \in Uploads /\ upload[x].path # "absent"
       \/ x \in Downloads /\ download[x].of # None
    /\ expired' = expired \cup {x}
    /\ UNCHANGED <<allowed, upload, stored, document, download, uses, served, doing>>

\* The permission is asked again under the fence that covers the new row.
AuthorizeUpload(u, path) ==
    /\ upload[u].path = "absent"
    /\ Edits
    /\ upload' = [upload EXCEPT ![u].path = path]
    /\ UNCHANGED <<allowed, expired, stored, document, download, uses, served, doing>>

AuthorizeDownload(x, d) ==
    /\ download[x].of = None
    /\ document[d] # None
    /\ Views
    /\ download' = [download EXCEPT ![x].of = d]
    /\ UNCHANGED <<allowed, expired, upload, stored, document, uses, served, doing>>

\* A PUT to the signed address, of any bytes of the signed length.
PutDirectly(u, bytes) ==
    /\ upload[u].path = "provider" /\ u \notin expired
    /\ Vacant(u)
    /\ stored' = [stored EXCEPT ![u] = bytes]
    /\ UNCHANGED <<allowed, expired, upload, document, download, uses, served, doing>>

-----------------------------------------------------------------------------
Go(r, stage) == doing' = [doing EXCEPT ![r].stage = stage]
End(r) == doing' = [doing EXCEPT ![r] = Idle]

At(r, do, stage) == doing[r].do = do /\ doing[r].stage = stage

\* Mutant of Received: the transfer is consumed as soon as it is found.
ConsumedFirst(u) == [do |-> "receive", of |-> u, stage |-> "consume"]

\* receiveUpload stores the bytes, then consumes the transfer.
Received(u) == [do |-> "receive", of |-> u, stage |-> "write"]

\* The transfer is found, and the bytes are those declared.
BeginReceive(r, u) ==
    /\ doing[r] = Idle
    /\ upload[u].path = "api" /\ ~ upload[u].consumed /\ u \notin expired
    /\ doing' = [doing EXCEPT ![r] = Received(u)]
    /\ UNCHANGED <<allowed, expired, upload, stored, document, download, uses, served>>

\* writeObject: bytes that are there already must be the same.
WriteObject(r) ==
    LET u == doing[r].of IN
    /\ At(r, "receive", "write")
    /\ Vacant(u) \/ AsDeclared(u)
    /\ stored' = [stored EXCEPT ![u] = "declared"]
    /\ Go(r, "consume")
    /\ UNCHANGED <<allowed, expired, upload, document, download, uses, served>>

\* #consumeTransfer, with the time at which the request began: an upload that
\* expired since is consumed all the same.
ConsumeUpload(r) ==
    LET u == doing[r].of IN
    /\ At(r, "receive", "consume")
    /\ ~ upload[u].consumed
    /\ upload' = [upload EXCEPT ![u].consumed = TRUE]
    /\ uses' = [uses EXCEPT ![u] = @ + 1]
    /\ End(r)
    /\ UNCHANGED <<allowed, expired, stored, document, download, served>>

-----------------------------------------------------------------------------
\* finalizeUpload: a transfer not finalized that is consumed or has time left.
BeginFinalize(r, u) ==
    /\ doing[r] = Idle
    /\ upload[u].path # "absent" /\ ~ upload[u].finalized
    /\ upload[u].consumed \/ u \notin expired
    /\ Edits
    /\ doing' = [doing EXCEPT ![r] = [do |-> "finalize", of |-> u, stage |-> "inspect"]]
    /\ UNCHANGED <<allowed, expired, upload, stored, document, download, uses, served>>

Inspect(r) ==
    /\ At(r, "finalize", "inspect")
    /\ AsDeclared(doing[r].of)
    /\ Go(r, "commit")
    /\ UNCHANGED <<allowed, expired, upload, stored, document, download, uses, served>>

\* Mutant of Unfinalized: the transfer as it was found is relied on.
AsFound(u) == TRUE

Unfinalized(u) == ~ upload[u].finalized

\* Under the fence; the time left is not asked again.
CommitFinalize(r, d) ==
    LET u == doing[r].of IN
    /\ At(r, "finalize", "commit")
    /\ Edits
    /\ Unfinalized(u)
    /\ document[d] = None
    /\ upload' = [upload EXCEPT ![u].consumed = TRUE, ![u].finalized = TRUE]
    /\ document' = [document EXCEPT ![d] = u]
    /\ End(r)
    /\ UNCHANGED <<allowed, expired, stored, download, uses, served>>

-----------------------------------------------------------------------------
\* consumeDownload: the transfer is found and its user may view the Document.
BeginFetch(r, x) ==
    /\ doing[r] = Idle
    /\ download[x].of # None /\ ~ download[x].consumed /\ x \notin expired
    /\ Views
    /\ doing' = [doing EXCEPT ![r] = [do |-> "fetch", of |-> x, stage |-> "read"]]
    /\ UNCHANGED <<allowed, expired, upload, stored, document, download, uses, served>>

ReadObject(r) ==
    /\ At(r, "fetch", "read")
    /\ AsDeclared(document[download[doing[r].of].of])
    /\ Go(r, "commit")
    /\ UNCHANGED <<allowed, expired, upload, stored, document, download, uses, served>>

\* Mutant of Fetchable: the transfer as it was found is relied on.
StillViewed(x) == Views /\ x \notin expired

\* Mutant of Fetchable: the permission asked before the read is relied on.
StillUnused(x) == ~ download[x].consumed /\ x \notin expired

\* Under the fence, with the time it is then.
Fetchable(x) == Views /\ ~ download[x].consumed /\ x \notin expired

ConsumeDownload(r) ==
    LET x == doing[r].of IN
    /\ At(r, "fetch", "commit")
    /\ Fetchable(x)
    /\ download' = [download EXCEPT ![x].consumed = TRUE]
    /\ uses' = [uses EXCEPT ![x] = @ + 1]
    /\ Go(r, "send")
    /\ UNCHANGED <<allowed, expired, upload, stored, document, served>>

Send(r) ==
    /\ At(r, "fetch", "send")
    /\ served' = [served EXCEPT ![doing[r].of] = @ + 1]
    /\ End(r)
    /\ UNCHANGED <<allowed, expired, upload, stored, document, download, uses>>

Abandon(r) ==
    /\ doing[r] # Idle
    /\ End(r)
    /\ UNCHANGED <<allowed, expired, upload, stored, document, download, uses, served>>

-----------------------------------------------------------------------------
Init ==
    /\ allowed = "edit"
    /\ expired = {}
    /\ upload = [u \in Uploads |-> [path |-> "absent", consumed |-> FALSE, finalized |-> FALSE]]
    /\ stored = [u \in Uploads |-> "none"]
    /\ document = [d \in Documents |-> None]
    /\ download = [x \in Downloads |-> [of |-> None, consumed |-> FALSE]]
    /\ uses = [x \in Uploads \cup Downloads |-> 0]
    /\ served = [x \in Downloads |-> 0]
    /\ doing = [r \in Requests |-> Idle]

Authorize ==
    \/ \E u \in Uploads, path \in {"api", "provider"} : AuthorizeUpload(u, path)
    \/ \E x \in Downloads, d \in Documents : AuthorizeDownload(x, d)

Environment ==
    \/ \E a \in {"none", "view", "edit"} : ChangeAccess(a)
    \/ \E x \in Uploads \cup Downloads : Expire(x)
    \/ \E u \in Uploads, bytes \in {"declared", "others"} : PutDirectly(u, bytes)

Receive(r) == (\E u \in Uploads : BeginReceive(r, u)) \/ WriteObject(r) \/ ConsumeUpload(r)

Finalize(r) ==
    \/ \E u \in Uploads : BeginFinalize(r, u)
    \/ Inspect(r)
    \/ \E d \in Documents : CommitFinalize(r, d)

Fetch(r) ==
    \/ \E x \in Downloads : BeginFetch(r, x)
    \/ ReadObject(r) \/ ConsumeDownload(r) \/ Send(r)

Next ==
    \/ Authorize \/ Environment
    \/ \E r \in Requests : Receive(r) \/ Finalize(r) \/ Fetch(r) \/ Abandon(r)

Spec == Init /\ [][Next]_vars

-----------------------------------------------------------------------------
(* What holds of transfers.                                                *)

\* Every variable has its type.
TypeOK ==
    /\ allowed \in {"none", "view", "edit"}
    /\ expired \subseteq Uploads \cup Downloads
    /\ upload \in [Uploads -> UploadRow]
    /\ stored \in [Uploads -> Bytes]
    /\ document \in [Documents -> Uploads \cup {None}]
    /\ download \in [Downloads -> DownloadRow]
    /\ uses \in [Uploads \cup Downloads -> Nat]
    /\ served \in [Downloads -> Nat]
    /\ doing \in [Requests -> Handlers]

\* However often an upload is finalized, at once or again after a lost answer,
\* "the same authorization cannot create two Documents" (docs/object-model.md).
OneDocumentPerUpload ==
    \A d, e \in Documents : document[d] = document[e] /\ document[d] # None => d = e

\* A Document's key holds the bytes declared for it, whatever is sent there
\* between the inspection and the row, or once the row is there.
DocumentsHaveTheirBytes ==
    \A d \in Documents : document[d] # None => stored[document[d]] = "declared"

\* "A consumed upload remains recoverable after expiry": its bytes are there,
\* wherever the request that consumed it ended.
ConsumedUploadsAreStored == \A u \in Uploads : upload[u].consumed => stored[u] = "declared"

\* Tickets are "consumed once": requests that overlap or are repeated record one
\* use of a transfer, and hand over the bytes of a download once, if recorded.
ConsumedOnce ==
    /\ \A x \in Uploads \cup Downloads : uses[x] <= 1
    /\ \A x \in Downloads : served[x] <= uses[x]

\* "Revocation that commits during storage I/O prevents completion"
\* (docs/permissions.md), and so does the expiry of a download.
CompletesAsAllowed ==
    [][/\ document' # document => allowed = "edit"
       /\ \A x \in Downloads : uses'[x] # uses[x] => allowed # "none" /\ x \notin expired]_vars

-----------------------------------------------------------------------------
\* What the rows keep of the Documents made and of the uses recorded.
RowsRecordUses ==
    /\ \A d \in Documents : document[d] # None => upload[document[d]].finalized
    /\ \A u \in Uploads : uses[u] = 1 => upload[u].consumed
    /\ \A x \in Downloads : uses[x] = 1 => download[x].consumed

\* What a request found still holds at its last step: bytes found or written
\* stay, and the use of a download belongs to one request until it is served.
FindingsStand ==
    \A r \in Requests :
        /\ doing[r].do \in {"receive", "finalize"} /\ doing[r].stage \in {"consume", "commit"} =>
              stored[doing[r].of] = "declared"
        /\ At(r, "fetch", "send") =>
              /\ uses[doing[r].of] = 1 /\ served[doing[r].of] = 0
              /\ \A o \in Requests \ {r} : At(o, "fetch", "send") => doing[o].of # doing[r].of

\* The inductive invariant of transfers.
TransfersInv ==
    /\ TypeOK
    /\ OneDocumentPerUpload
    /\ DocumentsHaveTheirBytes
    /\ ConsumedUploadsAreStored
    /\ ConsumedOnce
    /\ RowsRecordUses
    /\ FindingsStand
=============================================================================
