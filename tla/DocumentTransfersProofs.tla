----------------------- MODULE DocumentTransfersProofs -----------------------
(***************************************************************************)
(* Transfers keep their invariant, for any number of uploads, downloads,   *)
(* Documents and requests.                                                 *)
(***************************************************************************)
EXTENDS DocumentTransfers, TLAPS

\* Transfers start with nothing stored and nothing made.
LEMMA InitHolds == Init => TransfersInv
  BY NoneIsNoId, TransfersAreApart
  DEF Init, TransfersInv, TypeOK, OneDocumentPerUpload, DocumentsHaveTheirBytes,
      ConsumedUploadsAreStored, ConsumedOnce, RowsRecordUses, FindingsStand, At,
      Idle, Handlers, UploadRow, DownloadRow, Bytes

\* A request that has its fields is one of the three.
LEMMA HandlerFields ==
  ASSUME TypeOK, NEW r \in Requests
  PROVE  /\ At(r, "receive", "write") \/ At(r, "receive", "consume") =>
              doing[r].of \in Uploads /\ doing[r] = [do |-> "receive", of |-> doing[r].of, stage |-> doing[r].stage]
         /\ At(r, "finalize", "inspect") \/ At(r, "finalize", "commit") =>
              doing[r].of \in Uploads /\ doing[r] = [do |-> "finalize", of |-> doing[r].of, stage |-> doing[r].stage]
         /\ At(r, "fetch", "read") \/ At(r, "fetch", "commit") \/ At(r, "fetch", "send") =>
              doing[r].of \in Downloads /\ doing[r] = [do |-> "fetch", of |-> doing[r].of, stage |-> doing[r].stage]
  BY DEF TypeOK, At, Handlers, Idle

\* An upload's row stays one when it is consumed or finalized.
LEMMA UploadRows ==
  ASSUME NEW f \in [Uploads -> UploadRow], NEW u \in Uploads
  PROVE  /\ [f EXCEPT ![u].consumed = TRUE] \in [Uploads -> UploadRow]
         /\ [f EXCEPT ![u].consumed = TRUE, ![u].finalized = TRUE] \in [Uploads -> UploadRow]
  BY DEF UploadRow

\* A download's request that goes on is a download's request.
LEMMA FetchGoesOn ==
  ASSUME NEW f \in [Requests -> Handlers], NEW r \in Requests, NEW x \in Downloads,
         NEW here, NEW next \in {"commit", "send"}, f[r] = [do |-> "fetch", of |-> x, stage |-> here]
  PROVE  [f EXCEPT ![r].stage = next] \in [Requests -> Handlers]
  <1>1. [f[r] EXCEPT !.stage = next] = [do |-> "fetch", of |-> x, stage |-> next]
    OBVIOUS
  <1>2. [do |-> "fetch", of |-> x, stage |-> next] \in Handlers
    BY DEF Handlers
  <1> QED
    BY <1>1, <1>2

\* Every step keeps the types.
LEMMA TypeStep == TypeOK /\ [Next]_vars => TypeOK'
  <1> SUFFICES ASSUME TypeOK, [Next]_vars PROVE TypeOK'
    OBVIOUS
  <1> USE DEF TypeOK, UploadRow, DownloadRow, Bytes, Handlers, Idle
  <1>1. ASSUME NEW a \in {"none", "view", "edit"}, ChangeAccess(a) PROVE TypeOK'
    BY <1>1 DEF ChangeAccess
  <1>2. ASSUME NEW x \in Uploads \cup Downloads, Expire(x) PROVE TypeOK'
    BY <1>2 DEF Expire
  <1>3. ASSUME NEW u \in Uploads, NEW path \in {"api", "provider"}, AuthorizeUpload(u, path)
        PROVE TypeOK'
    BY <1>3 DEF AuthorizeUpload
  <1>4. ASSUME NEW x \in Downloads, NEW d \in Documents, AuthorizeDownload(x, d) PROVE TypeOK'
    BY <1>4 DEF AuthorizeDownload
  <1>5. ASSUME NEW u \in Uploads, NEW bytes \in {"declared", "others"}, PutDirectly(u, bytes)
        PROVE TypeOK'
    BY <1>5 DEF PutDirectly
  <1>6. ASSUME NEW r \in Requests, Receive(r) PROVE TypeOK'
    <2>1. CASE \E u \in Uploads : BeginReceive(r, u)
      BY <2>1 DEF BeginReceive, Received
    <2>2. CASE WriteObject(r)
      BY <2>2, HandlerFields DEF WriteObject, Go, At
    <2>3. CASE ConsumeUpload(r)
      <3>1. doing[r].of \in Uploads
        BY <2>3, HandlerFields DEF ConsumeUpload
      <3>2. upload' \in [Uploads -> UploadRow]
        BY <2>3, <3>1, UploadRows DEF ConsumeUpload
      <3>3. uses' \in [Uploads \cup Downloads -> Nat]
        BY <2>3, <3>1 DEF ConsumeUpload
      <3>4. doing' \in [Requests -> Handlers]
        BY <2>3 DEF ConsumeUpload, End
      <3> QED
        BY <2>3, <3>2, <3>3, <3>4 DEF ConsumeUpload
    <2> QED
      BY <1>6, <2>1, <2>2, <2>3 DEF Receive
  <1>7. ASSUME NEW r \in Requests, Finalize(r) PROVE TypeOK'
    <2>1. CASE \E u \in Uploads : BeginFinalize(r, u)
      BY <2>1 DEF BeginFinalize
    <2>2. CASE Inspect(r)
      BY <2>2, HandlerFields DEF Inspect, Go, At
    <2>3. CASE \E d \in Documents : CommitFinalize(r, d)
      <3> PICK d \in Documents : CommitFinalize(r, d)
        BY <2>3
      <3>1. doing[r].of \in Uploads
        BY HandlerFields DEF CommitFinalize
      <3>2. upload' \in [Uploads -> UploadRow]
        BY <3>1, UploadRows DEF CommitFinalize
      <3>3. document' \in [Documents -> Uploads \cup {None}]
        BY <3>1 DEF CommitFinalize
      <3>4. doing' \in [Requests -> Handlers]
        BY DEF CommitFinalize, End
      <3> QED
        BY <3>2, <3>3, <3>4 DEF CommitFinalize
    <2> QED
      BY <1>7, <2>1, <2>2, <2>3 DEF Finalize
  <1>8. ASSUME NEW r \in Requests, Fetch(r) PROVE TypeOK'
    <2>1. CASE \E x \in Downloads : BeginFetch(r, x)
      BY <2>1 DEF BeginFetch
    <2>2. CASE ReadObject(r)
      BY <2>2, HandlerFields DEF ReadObject, Go, At
    <2>3. CASE ConsumeDownload(r)
      <3>1. doing[r].of \in Downloads /\ doing[r] = [do |-> "fetch", of |-> doing[r].of, stage |-> "commit"]
        BY <2>3, HandlerFields DEF ConsumeDownload, At
      <3>2. download' \in [Downloads -> DownloadRow]
        BY <2>3, <3>1 DEF ConsumeDownload
      <3>3. uses' \in [Uploads \cup Downloads -> Nat]
        BY <2>3, <3>1 DEF ConsumeDownload
      <3>4. doing' \in [Requests -> Handlers]
        BY <2>3, <3>1, FetchGoesOn DEF ConsumeDownload, Go
      <3> QED
        BY <2>3, <3>2, <3>3, <3>4 DEF ConsumeDownload
    <2>4. CASE Send(r)
      BY <2>4, HandlerFields DEF Send, End, At
    <2> QED
      BY <1>8, <2>1, <2>2, <2>3, <2>4 DEF Fetch
  <1>9. ASSUME NEW r \in Requests, Abandon(r) PROVE TypeOK'
    BY <1>9 DEF Abandon, End
  <1>10. CASE UNCHANGED vars
    BY <1>10 DEF vars
  <1> QED
    BY <1>1, <1>2, <1>3, <1>4, <1>5, <1>6, <1>7, <1>8, <1>9, <1>10
    DEF Next, Authorize, Environment

\* Bytes that are as declared stay so, whatever is sent to their key.
LEMMA BytesStay ==
  ASSUME TypeOK, [Next]_vars, NEW u \in Uploads, stored[u] = "declared"
  PROVE  stored'[u] = "declared"
  <1>1. ASSUME NEW v \in Uploads, NEW bytes \in {"declared", "others"}, PutDirectly(v, bytes)
        PROVE  stored'[u] = "declared"
    BY <1>1 DEF PutDirectly, Vacant, TypeOK
  <1>2. ASSUME NEW r \in Requests, WriteObject(r) PROVE stored'[u] = "declared"
    BY <1>2 DEF WriteObject, TypeOK
  <1> QED
    BY <1>1, <1>2
    DEF Next, vars, Authorize, Environment, Receive, Finalize, Fetch, ChangeAccess, Expire,
        AuthorizeUpload, AuthorizeDownload, BeginReceive, ConsumeUpload, BeginFinalize, Inspect,
        CommitFinalize, BeginFetch, ReadObject, ConsumeDownload, Send, Abandon

\* The invariant without what open requests remember.
Rows ==
  /\ OneDocumentPerUpload
  /\ DocumentsHaveTheirBytes
  /\ ConsumedUploadsAreStored
  /\ ConsumedOnce
  /\ RowsRecordUses

\* The invariant of the rows needs of a step only that bytes stay.
LEMMA RowsStay ==
  ASSUME TypeOK, [Next]_vars, Rows, UNCHANGED <<upload, document, download, uses, served>>
  PROVE  Rows'
  BY BytesStay
  DEF Rows, OneDocumentPerUpload, DocumentsHaveTheirBytes, ConsumedUploadsAreStored, ConsumedOnce,
      RowsRecordUses, TypeOK

\* Every step keeps the invariant.
LEMMA InvStep == TransfersInv /\ [Next]_vars => TransfersInv'
  <1> SUFFICES ASSUME TransfersInv, [Next]_vars PROVE TransfersInv'
    OBVIOUS
  <1>0. TypeOK /\ Rows /\ FindingsStand /\ TypeOK'
    BY TypeStep DEF TransfersInv, Rows
  <1> SUFFICES Rows' /\ FindingsStand'
    BY <1>0 DEF TransfersInv, Rows
  <1>a. ASSUME UNCHANGED <<upload, document, download, uses, served>>, UNCHANGED doing
        PROVE  Rows' /\ FindingsStand'
    <2>1. Rows'
      BY <1>0, <1>a, RowsStay
    <2>2. FindingsStand'
      BY <1>0, <1>a, BytesStay DEF FindingsStand, TypeOK, Handlers, Idle, At
    <2> QED
      BY <2>1, <2>2
  <1>b. ASSUME NEW r \in Requests, NEW h, doing' = [doing EXCEPT ![r] = h],
               UNCHANGED <<upload, document, download, uses, served>>,
               ~ (h.do = "fetch" /\ h.stage = "send"),
               h.do \in {"receive", "finalize"} /\ h.stage \in {"consume", "commit"} =>
                  h.of \in Uploads /\ stored'[h.of] = "declared"
        PROVE  Rows' /\ FindingsStand'
    <2>1. Rows'
      BY <1>0, <1>b, RowsStay
    <2>2. FindingsStand'
      BY <1>0, <1>b, BytesStay DEF FindingsStand, TypeOK, Handlers, Idle, At
    <2> QED
      BY <2>1, <2>2
  <1>1. CASE Environment
    BY <1>1, <1>a DEF Environment, ChangeAccess, Expire, PutDirectly
  <1>2. CASE Authorize
    <2>1. UNCHANGED <<stored, document, uses, served, doing>>
      BY <1>2 DEF Authorize, AuthorizeUpload, AuthorizeDownload
    <2>2. \A u \in Uploads : /\ upload'[u].consumed = upload[u].consumed
                             /\ upload'[u].finalized = upload[u].finalized
      BY <1>2, <1>0 DEF Authorize, AuthorizeUpload, AuthorizeDownload, TypeOK, UploadRow
    <2>3. \A x \in Downloads : download'[x].consumed = download[x].consumed
      BY <1>2, <1>0 DEF Authorize, AuthorizeUpload, AuthorizeDownload, TypeOK, DownloadRow
    <2>4. Rows'
      BY <2>1, <2>2, <2>3, <1>0
      DEF Rows, TypeOK, OneDocumentPerUpload, DocumentsHaveTheirBytes, ConsumedUploadsAreStored,
          ConsumedOnce, RowsRecordUses
    <2>5. FindingsStand'
      BY <2>1, <1>0 DEF FindingsStand, At
    <2> QED
      BY <2>4, <2>5
  <1>3. ASSUME NEW r \in Requests, Receive(r) PROVE Rows' /\ FindingsStand'
    <2>1. CASE \E u \in Uploads : BeginReceive(r, u)
      BY <2>1, <1>b DEF BeginReceive, Received
    <2>2. CASE WriteObject(r)
      <3>1. doing[r].of \in Uploads /\ doing' = [doing EXCEPT ![r] = [do |-> "receive", of |-> doing[r].of, stage |-> "consume"]]
        <4>1. doing[r].of \in Uploads /\ doing[r] = [do |-> "receive", of |-> doing[r].of, stage |-> doing[r].stage]
          BY <2>2, <1>0, HandlerFields DEF WriteObject
        <4>2. [doing[r] EXCEPT !.stage = "consume"] = [do |-> "receive", of |-> doing[r].of, stage |-> "consume"]
          BY <4>1
        <4> QED
          BY <2>2, <4>1, <4>2 DEF WriteObject, Go
      <3>2. stored'[doing[r].of] = "declared"
        BY <2>2, <3>1, <1>0 DEF WriteObject, TypeOK
      <3> QED
        BY <2>2, <3>1, <3>2, <1>b DEF WriteObject
    <2>3. CASE ConsumeUpload(r)
      <3> DEFINE u == doing[r].of
      <3>1. u \in Uploads /\ stored[u] = "declared" /\ ~ upload[u].consumed
        BY <2>3, <1>0, HandlerFields DEF ConsumeUpload, FindingsStand, At
      <3>2. uses[u] = 0
        BY <3>1, <1>0 DEF Rows, RowsRecordUses, ConsumedOnce, TypeOK
      <3>3. Rows'
        BY <2>3, <3>1, <3>2, <1>0, TransfersAreApart
        DEF ConsumeUpload, Rows, TypeOK, UploadRow, OneDocumentPerUpload,
            DocumentsHaveTheirBytes, ConsumedUploadsAreStored, ConsumedOnce, RowsRecordUses
      <3>4. FindingsStand'
        BY <2>3, <3>1, <1>0, TransfersAreApart
        DEF ConsumeUpload, End, FindingsStand, At, TypeOK, Handlers, Idle
      <3> QED
        BY <3>3, <3>4
    <2> QED
      BY <1>3, <2>1, <2>2, <2>3 DEF Receive
  <1>4. ASSUME NEW r \in Requests, Finalize(r) PROVE Rows' /\ FindingsStand'
    <2>1. CASE \E u \in Uploads : BeginFinalize(r, u)
      BY <2>1, <1>b DEF BeginFinalize
    <2>2. CASE Inspect(r)
      <3>1. doing[r].of \in Uploads /\ doing' = [doing EXCEPT ![r] = [do |-> "finalize", of |-> doing[r].of, stage |-> "commit"]]
        <4>1. doing[r].of \in Uploads /\ doing[r] = [do |-> "finalize", of |-> doing[r].of, stage |-> doing[r].stage]
          BY <2>2, <1>0, HandlerFields DEF Inspect
        <4>2. [doing[r] EXCEPT !.stage = "commit"] = [do |-> "finalize", of |-> doing[r].of, stage |-> "commit"]
          BY <4>1
        <4> QED
          BY <2>2, <4>1, <4>2 DEF Inspect, Go
      <3> QED
        BY <2>2, <3>1, <1>b DEF Inspect, AsDeclared
    <2>3. CASE \E d \in Documents : CommitFinalize(r, d)
      <3> DEFINE u == doing[r].of
      <3> PICK d \in Documents : CommitFinalize(r, d)
        BY <2>3
      <3>1. u \in Uploads /\ stored[u] = "declared" /\ ~ upload[u].finalized
        BY <1>0, HandlerFields DEF CommitFinalize, Unfinalized, FindingsStand, At
      <3>2. \A e \in Documents : document[e] # u
        BY <3>1, <1>0, NoneIsNoId DEF Rows, RowsRecordUses, TypeOK
      <3>3. Rows'
        BY <3>1, <3>2, <1>0
        DEF CommitFinalize, Rows, TypeOK, UploadRow, OneDocumentPerUpload,
            DocumentsHaveTheirBytes, ConsumedUploadsAreStored, ConsumedOnce, RowsRecordUses
      <3>4. FindingsStand'
        BY <1>0 DEF CommitFinalize, End, FindingsStand, At, TypeOK, Handlers, Idle
      <3> QED
        BY <3>3, <3>4
    <2> QED
      BY <1>4, <2>1, <2>2, <2>3 DEF Finalize
  <1>5. ASSUME NEW r \in Requests, Fetch(r) PROVE Rows' /\ FindingsStand'
    <2>1. CASE \E x \in Downloads : BeginFetch(r, x)
      BY <2>1, <1>b DEF BeginFetch
    <2>2. CASE ReadObject(r)
      <3>1. doing' = [doing EXCEPT ![r] = [do |-> "fetch", of |-> doing[r].of, stage |-> "commit"]]
        <4>1. doing[r] = [do |-> "fetch", of |-> doing[r].of, stage |-> doing[r].stage]
          BY <2>2, <1>0, HandlerFields DEF ReadObject
        <4>2. [doing[r] EXCEPT !.stage = "commit"] = [do |-> "fetch", of |-> doing[r].of, stage |-> "commit"]
          BY <4>1
        <4> QED
          BY <2>2, <4>1, <4>2 DEF ReadObject, Go
      <3> QED
        BY <2>2, <3>1, <1>b DEF ReadObject
    <2>3. CASE ConsumeDownload(r)
      <3> DEFINE x == doing[r].of
      <3>1. /\ x \in Downloads /\ ~ download[x].consumed
            /\ doing' = [doing EXCEPT ![r] = [do |-> "fetch", of |-> x, stage |-> "send"]]
        <4>1. x \in Downloads /\ doing[r] = [do |-> "fetch", of |-> x, stage |-> doing[r].stage]
          BY <2>3, <1>0, HandlerFields DEF ConsumeDownload
        <4>2. [doing[r] EXCEPT !.stage = "send"] = [do |-> "fetch", of |-> x, stage |-> "send"]
          BY <4>1
        <4> QED
          BY <2>3, <4>1, <4>2 DEF ConsumeDownload, Fetchable, Go
      <3>2. uses[x] = 0 /\ served[x] = 0
        <4>1. uses[x] \in Nat /\ served[x] \in Nat /\ uses[x] <= 1 /\ served[x] <= uses[x]
          BY <3>1, <1>0 DEF Rows, ConsumedOnce, TypeOK
        <4>2. uses[x] # 1
          BY <3>1, <1>0 DEF Rows, RowsRecordUses
        <4> QED
          BY <4>1, <4>2
      <3>3. Rows'
        BY <2>3, <3>1, <3>2, <1>0, TransfersAreApart
        DEF ConsumeDownload, Rows, TypeOK, DownloadRow, OneDocumentPerUpload,
            DocumentsHaveTheirBytes, ConsumedUploadsAreStored, ConsumedOnce, RowsRecordUses
      <3>4. FindingsStand'
        BY <2>3, <3>1, <3>2, <1>0
        DEF ConsumeDownload, FindingsStand, At, TypeOK, Handlers, Idle
      <3> QED
        BY <3>3, <3>4
    <2>4. CASE Send(r)
      <3> DEFINE x == doing[r].of
      <3>1. x \in Downloads /\ uses[x] = 1 /\ served[x] = 0
        BY <2>4, <1>0, HandlerFields DEF Send, FindingsStand, At
      <3>2. Rows'
        BY <2>4, <3>1, <1>0
        DEF Send, Rows, TypeOK, OneDocumentPerUpload,
            DocumentsHaveTheirBytes, ConsumedUploadsAreStored, ConsumedOnce, RowsRecordUses
      <3>3. FindingsStand'
        BY <2>4, <3>1, <1>0 DEF Send, End, FindingsStand, At, TypeOK, Handlers, Idle
      <3> QED
        BY <3>2, <3>3
    <2> QED
      BY <1>5, <2>1, <2>2, <2>3, <2>4 DEF Fetch
  <1>6. ASSUME NEW r \in Requests, Abandon(r) PROVE Rows' /\ FindingsStand'
    BY <1>6, <1>b DEF Abandon, End, Idle
  <1>7. CASE UNCHANGED vars
    BY <1>7, <1>a DEF vars
  <1> QED
    BY <1>1, <1>2, <1>3, <1>4, <1>5, <1>6, <1>7 DEF Next

\* Whatever requests overlap, are repeated or end half-way, and whatever is sent
\* straight to storage, transfers keep their invariant.
THEOREM TransfersKeepTheirInvariant == Spec => []TransfersInv
  BY InitHolds, InvStep, PTL DEF Spec

\* No authorization makes two Documents, whatever requests finalize it at once
\* (the row finalizeUpload locks and asks again).
THEOREM UploadsMakeOneDocument == Spec => []OneDocumentPerUpload
  <1>1. TransfersInv => OneDocumentPerUpload
    BY DEF TransfersInv
  <1> QED
    BY <1>1, TransfersKeepTheirInvariant, PTL

\* A Document's key holds the bytes declared for it, whatever is put there before
\* or after its row (the storage overwrites nothing).
THEOREM DocumentsKeepTheirBytes == Spec => []DocumentsHaveTheirBytes
  <1>1. TransfersInv => DocumentsHaveTheirBytes
    BY DEF TransfersInv
  <1> QED
    BY <1>1, TransfersKeepTheirInvariant, PTL

\* The bytes of a consumed upload are stored, wherever its request ended
\* (receiveUpload stores before it consumes).
THEOREM ConsumedUploadsStayStored == Spec => []ConsumedUploadsAreStored
  <1>1. TransfersInv => ConsumedUploadsAreStored
    BY DEF TransfersInv
  <1> QED
    BY <1>1, TransfersKeepTheirInvariant, PTL

\* One use of a transfer is recorded, and a download handed over at most as often
\* (#consumeTransfer, consumeDownload).
THEOREM TransfersAreUsedOnce == Spec => []ConsumedOnce
  <1>1. TransfersInv => ConsumedOnce
    BY DEF TransfersInv
  <1> QED
    BY <1>1, TransfersKeepTheirInvariant, PTL

\* No Document is made and no download used but by who may then, and no
\* download after its time, whatever was allowed when the request began.
THEOREM RevocationPreventsCompletion == Spec => CompletesAsAllowed
  <1> DEFINE Allowed ==
        /\ document' # document => allowed = "edit"
        /\ \A x \in Downloads : uses'[x] # uses[x] => allowed # "none" /\ x \notin expired
  <1>1. ASSUME TypeOK, [Next]_vars PROVE Allowed
    <2>1. ASSUME NEW r \in Requests, NEW d \in Documents, CommitFinalize(r, d) PROVE Allowed
      BY <2>1 DEF CommitFinalize, Edits
    <2>2. ASSUME NEW r \in Requests, ConsumeUpload(r) PROVE Allowed
      <3>1. doing[r].of \in Uploads
        BY <2>2, <1>1, HandlerFields DEF ConsumeUpload
      <3> QED
        BY <2>2, <3>1, <1>1, TransfersAreApart DEF ConsumeUpload, TypeOK
    <2>3. ASSUME NEW r \in Requests, ConsumeDownload(r) PROVE Allowed
      <3>1. doing[r].of \in Downloads
        BY <2>3, <1>1, HandlerFields DEF ConsumeDownload
      <3> QED
        BY <2>3, <3>1, <1>1 DEF ConsumeDownload, Fetchable, Views, TypeOK
    <2> QED
      BY <1>1, <2>1, <2>2, <2>3
      DEF Next, vars, Authorize, Environment, Receive, Finalize, Fetch, ChangeAccess, Expire,
          AuthorizeUpload, AuthorizeDownload, PutDirectly, BeginReceive, WriteObject,
          BeginFinalize, Inspect, BeginFetch, ReadObject, Send, Abandon
  <1>2. TransfersInv /\ [Next]_vars => [Allowed]_vars
    BY <1>1 DEF TransfersInv
  <1> QED
    BY <1>2, TransfersKeepTheirInvariant, PTL DEF Spec, CompletesAsAllowed
=============================================================================
