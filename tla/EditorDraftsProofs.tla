-------------------------- MODULE EditorDraftsProofs --------------------------
(***************************************************************************)
(* A retried creation makes one object and two saves make two, for any     *)
(* number of editors, texts and requests, any limit of the store and       *)
(* whichever answers are lost or late.                                     *)
(***************************************************************************)
EXTENDS EditorDrafts, FilterTheorems, SequenceTheorems, TLAPS

\* What the types say of one request, draft or editor.
LEMMA TypesOfParts ==
  ASSUME TypeOK
  PROVE  /\ Sent = 1..Len(requests) /\ Len(requests) \in Nat /\ Len(requests) <= MaxRequests
         /\ MaxRequests \in Nat
         /\ \A i \in Sent : requests[i] \in Request /\ i \in Attempts /\ i # 0
         /\ \A k \in Kept : k \in Keys /\ drafts[k] \in Draft
         /\ \A k \in Keys : Open(k) => editors[k] \in Editor
         /\ \A k \in Keys : last[k] \in Attempts
         /\ requests \in [Sent -> Request]
  <1>1. requests \in Seq(Request) /\ Len(requests) <= MaxRequests /\ MaxRequests \in Nat
    BY RequestsAreBounded DEF TypeOK
  <1>2. Len(requests) \in Nat /\ DOMAIN requests = 1..Len(requests)
        /\ requests \in [1..Len(requests) -> Request]
    BY <1>1, LenProperties
  <1>3. \A i \in Sent : requests[i] \in Request
    BY <1>2 DEF Sent
  <1>4. /\ \A k \in Kept : k \in Keys /\ drafts[k] \in Draft
        /\ \A k \in Keys : Open(k) => editors[k] \in Editor
        /\ \A k \in Keys : last[k] \in Attempts
    BY DEF TypeOK, Kept, Open
  <1> QED
    BY <1>1, <1>2, <1>3, <1>4 DEF Sent, Attempts

\* What forgetting keys leaves.
LEMMA ForgetFacts ==
  ASSUME TypeOK, NEW gone, Forget(gone)
  PROVE  /\ Kept' = Kept \ gone
         /\ \A x \in Kept' : drafts'[x] = drafts[x]
         /\ \A x \in Keys : last'[x] = IF x \in Kept' THEN last[x] ELSE 0
         /\ drafts' \in [Kept' -> Draft] /\ Kept' \subseteq Keys
         /\ last' \in [Keys -> Attempts]
  <1>1. drafts' = [x \in Kept \ gone |-> drafts[x]]
    BY DEF Forget, Stored
  <1>2. last' = [x \in Keys |-> IF x \notin DOMAIN drafts' THEN 0 ELSE last[x]]
    BY DEF Forget, Remember
  <1>3. Kept' = Kept \ gone /\ \A x \in Kept' : drafts'[x] = drafts[x]
    BY <1>1 DEF Kept
  <1>4. \A x \in Keys : last'[x] = IF x \in Kept' THEN last[x] ELSE 0
    BY <1>2 DEF Kept
  <1>5. drafts' \in [Kept' -> Draft] /\ Kept' \subseteq Keys
    BY <1>1, <1>3 DEF TypeOK, Kept
  <1>6. last' \in [Keys -> Attempts]
    BY <1>2, TypesOfParts DEF Attempts
  <1> QED
    BY <1>3, <1>4, <1>5, <1>6

\* Only settled drafts are evicted, and never the one that is kept.
LEMMA EvictedAreSettled ==
  ASSUME NEW k
  PROVE  \A e \in Evicted(k) : e \in Kept /\ ~ Pending(e) /\ e # k
  BY DEF Evicted

\* What keeping a draft leaves.
LEMMA KeepFacts ==
  ASSUME TypeOK, NEW k \in Keys, NEW text \in Texts, NEW attempt \in Attempts,
         Keep(k, text, attempt)
  PROVE  /\ \A x \in Kept' : \/ x \in Kept /\ drafts'[x] = drafts[x]
                             \/ /\ x = k /\ ~ Pending(k)
                                /\ drafts'[k].saving = 0 /\ drafts'[k].attempt = attempt
         /\ \A x \in Kept : Pending(x) => x \in Kept' /\ drafts'[x] = drafts[x]
         /\ \A x \in Keys : last'[x] # 0 => last'[x] = last[x] /\ (x \in Kept => x \in Kept')
         /\ drafts' \in [Kept' -> Draft] /\ Kept' \subseteq Keys
         /\ last' \in [Keys -> Attempts]
  <1>1. CASE Pending(k) \/ ~ CanKeep(k)
    <2>1. drafts' = drafts /\ last' = last /\ Kept' = Kept
      BY <1>1 DEF Keep, Kept
    <2> QED
      BY <2>1 DEF TypeOK, Kept
  <1>2. CASE ~ (Pending(k) \/ ~ CanKeep(k))
    <2> DEFINE gone == Evicted(k)
               entry == [text |-> text, attempt |-> attempt, saving |-> 0]
    <2>1. /\ drafts' = [x \in (Kept \ gone) \cup {k} |-> IF x \in {k} THEN entry ELSE drafts[x]]
          /\ last' = [x \in Keys |-> IF x \notin DOMAIN drafts' THEN 0
                                     ELSE IF x \in {} THEN 0 ELSE last[x]]
      BY <1>2 DEF Keep, Stored, Remember
    <2>2. entry \in Draft /\ entry.saving = 0 /\ entry.attempt = attempt
      BY RequestsAreBounded DEF Draft, Attempts
    <2>3. Kept' = (Kept \ gone) \cup {k}
      BY <2>1 DEF Kept
    <2>4. \A e \in gone : e \in Kept /\ ~ Pending(e) /\ e # k
      BY EvictedAreSettled
    <2>5. \A x \in Kept' : \/ x \in Kept /\ drafts'[x] = drafts[x]
                           \/ x = k /\ drafts'[k] = entry
      BY <2>1, <2>3
    <2>6. \A x \in Kept : Pending(x) => x \in Kept' /\ drafts'[x] = drafts[x]
      BY <2>1, <2>3, <2>4, <1>2
    <2>7. \A x \in Keys : last'[x] # 0 => last'[x] = last[x] /\ x \in Kept'
      BY <2>1 DEF Kept
    <2>8. drafts' \in [Kept' -> Draft] /\ Kept' \subseteq Keys
      BY <2>1, <2>2, <2>3 DEF TypeOK, Kept
    <2>9. last' \in [Keys -> Attempts]
      BY <2>1, TypesOfParts DEF Attempts
    <2> HIDE DEF gone, entry
    <2> QED
      BY <2>2, <2>5, <2>6, <2>7, <2>8, <2>9, <1>2
  <1> QED
    BY <1>1, <1>2

-----------------------------------------------------------------------------
\* A step of an editor, which sends nothing and hears nothing: its draft has
\* its attempt, and what is pending stays while an editor has its attempt.
LEMMA EditKeeps ==
  ASSUME DraftsInv, TypeOK', UNCHANGED <<requests, ledger, allowed>>,
         NEW k \in Keys,
         \A x \in Kept' : \/ x \in Kept /\ drafts'[x] = drafts[x]
                          \/ /\ x = k /\ Open(k)' /\ drafts'[k].saving = 0
                             /\ drafts'[k].attempt = editors'[k].attempt,
         \A x \in Keys : last'[x] # 0 => last'[x] = last[x] /\ x \in Kept',
         \A x \in Keys \ {k} : Open(x)' => Open(x) /\ editors'[x] = editors[x],
         \A x \in Keys \ {k} : Pending(x) /\ Open(x)' => x \in Kept',
         Open(k)' => \/ editors'[k].attempt = 0
                     \/ Open(k) /\ editors'[k].attempt = editors[k].attempt
                     \/ k \in Kept /\ editors'[k].attempt = drafts[k].attempt,
         Open(k)' /\ k \in Kept' =>
             editors'[k].attempt = drafts'[k].attempt /\ editors'[k].text # Blank,
         k \in Kept /\ k \in Kept' => drafts'[k].attempt = drafts[k].attempt,
         Pending(k) /\ Open(k)' /\ editors'[k].attempt # 0 =>
             k \in Kept' /\ drafts'[k] = drafts[k]
  PROVE  DraftsInv'
  <1> USE DEF DraftsInv
  <1>0. /\ requests' = requests /\ ledger' = ledger /\ Sent' = Sent
        /\ \A i : Waiting(i)' <=> Waiting(i)
    BY DEF Sent, Waiting
  <1>1. /\ \A i \in Sent : i # 0 /\ requests[i].command \in Sent /\ requests[i].command # 0
        /\ \A x \in Kept : x \in Keys
        /\ \A x \in Kept' : x \in Keys
    BY TypesOfParts DEF CommandsAreDrawn, TypeOK
  <1>2. CommandsAreDrawn' /\ LedgerIsRight' /\ CommandsKeepTheirInput'
    BY <1>0 DEF CommandsAreDrawn, LedgerIsRight, CommandsKeepTheirInput
  <1>3. \A x \in Keys : \A a : Drawn(x, a)' <=> Drawn(x, a)
    BY <1>0 DEF Drawn
  <1>4. \A x \in Keys : Open(x)' => Drawn(x, editors'[x].attempt)
    BY <1>1 DEF AttemptsAreDrawn, Drawn
  <1>5. \A x \in Keys : x \in Kept' => Drawn(x, drafts'[x].attempt)
    BY <1>1, <1>4 DEF AttemptsAreDrawn
  <1>6. \A x \in Keys : Open(x)' /\ x \in Kept' =>
            editors'[x].attempt = drafts'[x].attempt /\ editors'[x].text # Blank
    BY DEF AttemptsAreDrawn
  <1>7. AttemptsAreDrawn'
    BY <1>3, <1>4, <1>5, <1>6 DEF AttemptsAreDrawn
  <1>8. PendingIsUnanswered' /\ SavingHasItsCommand'
    BY <1>0 DEF PendingIsUnanswered, SavingHasItsCommand, Pending
  <1>9. ASSUME NEW i \in Sent, Waiting(i), Open(k)', editors'[k].attempt = requests[i].command
        PROVE  k \in Kept' /\ drafts'[k] = drafts[k] /\ drafts[k].saving = i
    <2>1. k \in Kept /\ drafts[k].attempt = requests[i].command
      BY <1>1, <1>9 DEF OneRequestAtATime, AttemptsAreDrawn
    <2>2. drafts[k].saving = i /\ Pending(k)
      BY <1>1, <1>9, <2>1 DEF OneRequestAtATime, Pending
    <2> QED
      BY <1>1, <1>9, <2>2
  <1>10. OneRequestAtATime'
    <2> SUFFICES ASSUME NEW i \in Sent, Waiting(i), NEW c, c = requests[i].command
                 PROVE  /\ \A j \in Sent : Waiting(j) /\ requests[j].command = c => j = i
                        /\ \A x \in Kept' : drafts'[x].attempt = c => drafts'[x].saving = i
                        /\ \A x \in Keys : Open(x)' /\ editors'[x].attempt = c => x \in Kept'
      BY <1>0 DEF OneRequestAtATime
    <2>1. \A j \in Sent : Waiting(j) /\ requests[j].command = c => j = i
      BY DEF OneRequestAtATime
    <2>2. ASSUME NEW x \in Kept', drafts'[x].attempt = c PROVE drafts'[x].saving = i
      BY <1>9, <2>2 DEF OneRequestAtATime
    <2>3. ASSUME NEW x \in Keys, Open(x)', editors'[x].attempt = c PROVE x \in Kept'
      <3>1. CASE x = k
        BY <1>9, <2>3, <3>1
      <3>2. CASE x # k
        <4>1. x \in Kept /\ drafts[x].attempt = c
          BY <2>3, <3>2 DEF OneRequestAtATime, AttemptsAreDrawn
        <4>2. Pending(x)
          BY <1>1, <4>1 DEF OneRequestAtATime, Pending
        <4> QED
          BY <2>3, <3>2, <4>2
      <3> QED
        BY <3>1, <3>2
    <2> QED
      BY <2>1, <2>2, <2>3
  <1>11. SavedIsOver'
    <2> SUFFICES ASSUME NEW i \in Sent, requests[i].client = "saved",
                        NEW c, c = requests[i].command
                 PROVE  /\ requests[i].reply = "object"
                        /\ \A j \in Sent : requests[j].command = c
                              /\ requests[j].client \in {"waiting", "saved"} => j = i
                        /\ \A x \in Kept' : drafts'[x].attempt # c
                        /\ \A x \in Keys : Open(x)' => editors'[x].attempt # c
      BY <1>0 DEF SavedIsOver
    <2>1. /\ requests[i].reply = "object" /\ c # 0
          /\ \A j \in Sent : requests[j].command = c
                /\ requests[j].client \in {"waiting", "saved"} => j = i
          /\ \A x \in Kept : drafts[x].attempt # c
          /\ \A x \in Keys : Open(x) => editors[x].attempt # c
      BY <1>1 DEF SavedIsOver
    <2>2. \A x \in Keys : Open(x)' => editors'[x].attempt # c
      BY <2>1
    <2>3. \A x \in Kept' : drafts'[x].attempt # c
      BY <2>1, <2>2
    <2> QED
      BY <2>1, <2>2, <2>3
  <1>12. RetriesKeepTheirCommand'
    <2>1. \A x \in Keys : last'[x] # 0 => /\ x \in Kept' /\ last'[x] \in Sent
                                          /\ drafts'[x].attempt = requests[last'[x]].command
      BY DEF RetriesKeepTheirCommand
    <2> QED
      BY <1>0, <2>1 DEF RetriesKeepTheirCommand
  <1> QED
    BY <1>2, <1>7, <1>8, <1>10, <1>11, <1>12

\* What mounting an editor, or closing some, leaves.
LEMMA MountedFacts ==
  ASSUME TypeOK, NEW k \in Keys, NEW text \in Texts \cup {Blank}, NEW attempt \in Attempts,
         Mounted(k, text, attempt)
  PROVE  /\ editors' \in [Keys -> Editor \cup {NoEditor}]
         /\ Open(k)' /\ editors'[k].attempt = attempt /\ editors'[k].text = text
         /\ \A x \in Keys \ {k} : editors'[x] = editors[x]
  <1> DEFINE e == [text |-> text, attempt |-> attempt, room |-> CanKeep(k)]
  <1>1. e \in Editor /\ e # NoEditor
    <2>1. CanKeep(k) \in BOOLEAN
      BY DEF CanKeep
    <2>2. e \in Editor /\ Editor \subseteq [text: Texts \cup {Blank}, attempt: Nat, room: BOOLEAN]
      BY <2>1, RequestsAreBounded DEF Editor, Attempts
    <2> QED
      BY <2>2, NoEditorIsNone
  <1>2. editors' = [editors EXCEPT ![k] = e] /\ editors \in [Keys -> Editor \cup {NoEditor}]
    BY DEF Mounted, TypeOK
  <1>3. editors'[k] = e
    BY <1>2
  <1>4. e.attempt = attempt /\ e.text = text
    OBVIOUS
  <1> HIDE DEF e
  <1> QED
    BY <1>1, <1>2, <1>3, <1>4 DEF Open

LEMMA UnmountedFacts ==
  ASSUME TypeOK, NEW keys, Unmounted(keys)
  PROVE  /\ editors' \in [Keys -> Editor \cup {NoEditor}]
         /\ \A x \in Keys : Open(x)' => Open(x) /\ editors'[x] = editors[x] /\ x \notin keys
  BY DEF Unmounted, TypeOK, Open

\* Emptying an editor, or opening an empty one, forgets its key.
LEMMA ForgetsKey ==
  ASSUME DraftsInv, NEW k \in Keys, NEW attempt \in Attempts, Mounted(k, Blank, attempt),
         Forget({k}), UNCHANGED <<requests, ledger, allowed>>,
         attempt = 0 \/ (Open(k) /\ attempt = editors[k].attempt),
         Pending(k) => attempt = 0
  PROVE  DraftsInv'
  <1>1. TypeOK
    BY DEF DraftsInv
  <1>2. TypeOK'
    BY <1>1, ForgetFacts, MountedFacts DEF TypeOK, Kept
  <1>3. /\ \A x \in Keys : last'[x] # 0 => last'[x] = last[x] /\ x \in Kept'
        /\ Kept' = Kept \ {k} /\ \A x \in Kept' : drafts'[x] = drafts[x]
    BY <1>1, ForgetFacts
  <1>4. /\ Open(k)' /\ editors'[k].attempt = attempt
        /\ \A x \in Keys \ {k} : editors'[x] = editors[x]
    BY <1>1, MountedFacts
  <1>5. \A x \in Keys \ {k} : Open(x)' => Open(x) /\ editors'[x] = editors[x]
    BY <1>4 DEF Open
  <1>6. \A x \in Keys \ {k} : Pending(x) /\ Open(x)' => x \in Kept'
    BY <1>3 DEF Pending
  <1> QED
    BY <1>2, <1>3, <1>4, <1>5, <1>6, EditKeeps

\* Keeping the draft of an editor, whose attempt it had.
LEMMA KeepsKey ==
  ASSUME DraftsInv, NEW k \in Keys, NEW text \in Texts, NEW attempt \in Attempts,
         Mounted(k, text, attempt), Keep(k, text, attempt),
         UNCHANGED <<requests, ledger, allowed>>,
         \/ Open(k) /\ attempt = editors[k].attempt
         \/ k \in Kept /\ attempt = drafts[k].attempt,
         k \in Kept => attempt = drafts[k].attempt
  PROVE  DraftsInv'
  <1>1. TypeOK
    BY DEF DraftsInv
  <1>2. TypeOK'
    BY <1>1, KeepFacts, MountedFacts DEF TypeOK, Kept
  <1>3. /\ Open(k)' /\ editors'[k].attempt = attempt /\ editors'[k].text # Blank
        /\ \A x \in Keys \ {k} : editors'[x] = editors[x]
    BY <1>1, MountedFacts, BlankIsNoText
  <1>4. /\ \A x \in Kept' : \/ x \in Kept /\ drafts'[x] = drafts[x]
                            \/ /\ x = k /\ drafts'[k].saving = 0
                               /\ drafts'[k].attempt = attempt
        /\ \A x \in Kept : Pending(x) => x \in Kept' /\ drafts'[x] = drafts[x]
        /\ \A x \in Keys : last'[x] # 0 => last'[x] = last[x] /\ (x \in Kept => x \in Kept')
    BY <1>1, KeepFacts
  <1>5. \A x \in Keys : last'[x] # 0 => last'[x] = last[x] /\ x \in Kept'
    BY <1>4 DEF DraftsInv, RetriesKeepTheirCommand
  <1>6. \A x \in Keys \ {k} : Open(x)' => Open(x) /\ editors'[x] = editors[x]
    BY <1>3 DEF Open
  <1>7. \A x \in Keys : Pending(x) => x \in Kept' /\ drafts'[x] = drafts[x]
    BY <1>4 DEF Pending
  <1> QED
    BY <1>2, <1>3, <1>4, <1>5, <1>6, <1>7, EditKeeps

\* Closing editors, or leaving their drafts as well.
LEMMA ClosesKeys ==
  ASSUME DraftsInv, NEW k \in Keys, TypeOK', UNCHANGED <<requests, ledger, allowed>>,
         \A x \in Kept' : x \in Kept /\ drafts'[x] = drafts[x],
         \A x \in Keys : last'[x] # 0 => last'[x] = last[x] /\ x \in Kept',
         \A x \in Keys : Open(x)' => Open(x) /\ editors'[x] = editors[x],
         \A x \in Keys : Pending(x) /\ Open(x)' => x \in Kept'
  PROVE  DraftsInv'
  <1>1. Open(k)' /\ k \in Kept' =>
            editors'[k].attempt = drafts'[k].attempt /\ editors'[k].text # Blank
    BY DEF DraftsInv, AttemptsAreDrawn
  <1> QED
    BY <1>1, EditKeeps

\* Every step of an editor keeps the invariant.
LEMMA EditsKeep ==
  ASSUME DraftsInv, Edit
  PROVE  DraftsInv'
  <1>1. PICK k \in Keys :
            \/ OpenEmpty(k) \/ Resume(k) \/ DropKept(k) \/ RoomChanges(k) \/ Leave(k)
            \/ Discard(k) \/ \E text \in Texts \cup {Blank} : Type(k, text)
    BY DEF Edit
  <1>2. TypeOK
    BY DEF DraftsInv
  <1>3. /\ k \in Kept => drafts[k].text \in Texts /\ drafts[k].attempt \in Attempts
        /\ Open(k) => editors[k].text \in Texts \cup {Blank} /\ editors[k].attempt \in Attempts
        /\ 0 \in Attempts
    BY <1>2, TypesOfParts DEF Draft, Editor, Attempts
  <1>4. Open(k) /\ k \in Kept => editors[k].attempt = drafts[k].attempt
    BY DEF DraftsInv, AttemptsAreDrawn
  <1>5. Open(k) /\ Pending(k) => Busy(k)
    BY <1>4, TypesOfParts, <1>2
       DEF DraftsInv, PendingIsUnanswered, SavingHasItsCommand, Busy, Pending, Waiting
  <1>6. CASE OpenEmpty(k)
    <2>1. Mounted(k, Blank, 0) /\ Forget({k}) /\ UNCHANGED <<requests, ledger, allowed>>
      BY <1>6 DEF OpenEmpty
    <2> QED
      BY <1>3, <2>1, ForgetsKey
  <1>7. CASE Resume(k)
    BY <1>3, <1>7, KeepsKey DEF Resume, Resumed
  <1>8. CASE DropKept(k)
    <2>1. Forget({k}) /\ UNCHANGED <<editors, requests, ledger, allowed>> /\ ~ Pending(k)
      BY <1>8 DEF DropKept
    <2>2. TypeOK'
      BY <1>2, <2>1, ForgetFacts DEF TypeOK, Kept
    <2>3. /\ Kept' = Kept \ {k} /\ \A x \in Kept' : drafts'[x] = drafts[x]
          /\ \A x \in Keys : last'[x] # 0 => last'[x] = last[x] /\ x \in Kept'
          /\ \A x \in Keys : Open(x)' => Open(x) /\ editors'[x] = editors[x]
      BY <1>2, <2>1, ForgetFacts DEF Open
    <2>4. \A x \in Keys : Pending(x) /\ Open(x)' => x \in Kept'
      BY <2>1, <2>3 DEF Pending
    <2> QED
      BY <2>1, <2>2, <2>3, <2>4, ClosesKeys
  <1>9. CASE RoomChanges(k)
    <2>1. ASSUME editors[k].text = Blank PROVE DraftsInv'
      <3>1. ~ Pending(k)
        BY <1>9, <2>1 DEF DraftsInv, AttemptsAreDrawn, RoomChanges, Pending
      <3> QED
        BY <1>3, <1>9, <2>1, <3>1, ForgetsKey DEF RoomChanges
    <2>2. ASSUME editors[k].text # Blank PROVE DraftsInv'
      BY <1>3, <1>4, <1>9, <2>2, KeepsKey DEF RoomChanges
    <2> QED
      BY <2>1, <2>2
  <1>10. CASE Leave(k)
    <2>1. Unmounted({k}) /\ UNCHANGED <<drafts, requests, ledger, allowed, last>>
      BY <1>10 DEF Leave
    <2>2. TypeOK' /\ Kept' = Kept
      BY <1>2, <2>1, UnmountedFacts DEF TypeOK, Kept
    <2>3. /\ \A x \in Keys : last'[x] # 0 => last'[x] = last[x] /\ x \in Kept'
          /\ \A x \in Keys : Open(x)' => Open(x) /\ editors'[x] = editors[x]
          /\ \A x \in Keys : Pending(x) /\ Open(x)' => x \in Kept'
      BY <1>2, <2>1, <2>2, UnmountedFacts DEF DraftsInv, RetriesKeepTheirCommand, Pending
    <2> QED
      BY <2>1, <2>2, <2>3, ClosesKeys
  <1>11. CASE Discard(k)
    <2>1. Unmounted({k}) /\ Forget({k}) /\ UNCHANGED <<requests, ledger, allowed>>
      BY <1>11 DEF Discard
    <2>2. TypeOK'
      BY <1>2, <2>1, UnmountedFacts, ForgetFacts DEF TypeOK, Kept
    <2>3. /\ Kept' = Kept \ {k} /\ \A x \in Kept' : drafts'[x] = drafts[x]
          /\ \A x \in Keys : last'[x] # 0 => last'[x] = last[x] /\ x \in Kept'
          /\ \A x \in Keys : Open(x)' => Open(x) /\ editors'[x] = editors[x] /\ x # k
      BY <1>2, <2>1, ForgetFacts, UnmountedFacts
    <2>4. \A x \in Keys : Pending(x) /\ Open(x)' => x \in Kept'
      BY <2>3 DEF Pending
    <2> QED
      BY <2>1, <2>2, <2>3, <2>4, ClosesKeys
  <1>12. ASSUME NEW text \in Texts \cup {Blank}, Type(k, text) PROVE DraftsInv'
    <2>1. /\ Mounted(k, text, editors[k].attempt) /\ Open(k) /\ ~ Pending(k)
          /\ UNCHANGED <<requests, ledger, allowed>>
          /\ IF text = Blank THEN Forget({k}) ELSE Keep(k, text, editors[k].attempt)
      BY <1>5, <1>12 DEF Type
    <2>2. CASE text = Blank
      BY <1>3, <2>1, <2>2, ForgetsKey
    <2>3. CASE text # Blank
      BY <1>3, <1>4, <2>1, <2>3, KeepsKey
    <2> QED
      BY <2>2, <2>3
  <1> QED
    BY <1>1, <1>6, <1>7, <1>8, <1>9, <1>10, <1>11, <1>12

-----------------------------------------------------------------------------
\* A request's record is replaced.
LEMMA OneRequestChanges ==
  ASSUME TypeOK, NEW i \in Sent, NEW r \in Request, requests' = [requests EXCEPT ![i] = r]
  PROVE  /\ requests' \in Seq(Request) /\ Len(requests') = Len(requests) /\ Sent' = Sent
         /\ requests'[i] = r
         /\ \A j \in Sent : j # i => requests'[j] = requests[j]
  <1>1. requests \in Seq(Request) /\ i \in 1..Len(requests)
    BY TypesOfParts DEF TypeOK
  <1>2. requests' \in Seq(Request) /\ Len(requests') = Len(requests)
    BY <1>1, ExceptSeq
  <1>3. Sent' = Sent
    BY <1>1, <1>2, LenProperties DEF Sent
  <1> QED
    BY <1>1, <1>2, <1>3, ExceptSeq DEF Sent

\* What the tab records of an answer.
LEMMA SettledFacts ==
  ASSUME TypeOK, NEW i \in Sent, NEW outcome \in {"saved", "failed"}, Settled(i, outcome)
  PROVE  /\ requests' \in Seq(Request) /\ Len(requests') = Len(requests) /\ Sent' = Sent
         /\ requests'[i].client = outcome
         /\ \A j \in Sent : j # i => requests'[j] = requests[j]
         /\ \A j \in Sent : /\ requests'[j].key = requests[j].key
                            /\ requests'[j].text = requests[j].text
                            /\ requests'[j].command = requests[j].command
                            /\ requests'[j].reply = requests[j].reply
                            /\ requests'[j].object = requests[j].object
                            /\ requests'[j].retries = requests[j].retries
  <1> DEFINE r == [requests[i] EXCEPT !.client = outcome]
  <1>1. requests[i] \in Request
    BY TypesOfParts
  <1>2. /\ r \in Request /\ r.client = outcome
        /\ r.key = requests[i].key /\ r.text = requests[i].text
        /\ r.command = requests[i].command /\ r.reply = requests[i].reply
        /\ r.object = requests[i].object /\ r.retries = requests[i].retries
    BY <1>1 DEF Request
  <1>3. requests' = [requests EXCEPT ![i] = r]
    BY DEF Settled
  <1> HIDE DEF r
  <1> QED
    BY <1>2, <1>3, OneRequestChanges

\* A draft or an editor with the command of a waiting request is the one whose
\* save the request is.
LEMMA WaitingHasItsDraft ==
  ASSUME DraftsInv, NEW i \in Sent, Waiting(i), NEW x \in Keys,
         \/ x \in Kept /\ drafts[x].attempt = requests[i].command
         \/ x \in Kept /\ drafts[x].saving = i
         \/ Open(x) /\ editors[x].attempt = requests[i].command
  PROVE  /\ x \in Kept /\ drafts[x].saving = i /\ requests[i].key = x /\ IsSaving(i)
         /\ drafts[x].attempt = requests[i].command
  <1>1. i # 0
    BY TypesOfParts DEF DraftsInv
  <1>2. x \in Kept /\ drafts[x].saving = i
    BY DEF DraftsInv, OneRequestAtATime, AttemptsAreDrawn
  <1> QED
    BY <1>1, <1>2 DEF DraftsInv, PendingIsUnanswered, SavingHasItsCommand, Pending, IsSaving

\* An answer of either kind keeps the invariant.
LEMMA SettleKeeps ==
  ASSUME DraftsInv, TypeOK', NEW i \in Sent, Waiting(i), NEW outcome \in {"saved", "failed"},
         Settled(i, outcome), UNCHANGED ledger,
         \A x \in Kept' : /\ x \in Kept /\ drafts'[x].attempt = drafts[x].attempt
                          /\ drafts[x].saving = i => drafts'[x].saving = 0,
         \A x \in Kept : drafts[x].saving # i => x \in Kept' /\ drafts'[x] = drafts[x],
         \A x \in Keys : last'[x] # 0 => last'[x] = last[x] /\ x \in Kept',
         \A x \in Keys : Open(x)' =>
             \/ Open(x) /\ editors'[x] = editors[x]
             \/ editors'[x].attempt = 0 /\ x \notin Kept',
         outcome = "saved" =>
             /\ requests[i].reply = "object"
             /\ \A x \in Kept : drafts[x].saving = i => x \notin Kept'
             /\ \A x \in Keys : Open(x)' => editors'[x].attempt # requests[i].command
  PROVE  DraftsInv'
  <1> USE DEF DraftsInv
  <1>0. /\ Sent' = Sent /\ requests'[i].client = outcome
        /\ \A j \in Sent : j # i => requests'[j] = requests[j]
        /\ \A j \in Sent : /\ requests'[j].key = requests[j].key
                           /\ requests'[j].text = requests[j].text
                           /\ requests'[j].command = requests[j].command
                           /\ requests'[j].reply = requests[j].reply
                           /\ requests'[j].object = requests[j].object
                           /\ requests'[j].retries = requests[j].retries
    BY SettledFacts
  <1>1. \A j \in Sent : Waiting(j)' => j # i /\ Waiting(j)
    BY <1>0 DEF Waiting
  <1>2. \A j \in Sent : j # i => (Waiting(j)' <=> Waiting(j))
    BY <1>0 DEF Waiting
  <1>3. /\ \A j \in Sent : j # 0 /\ requests[j].command \in Sent /\ requests[j].command # 0
        /\ \A x \in Kept : x \in Keys
        /\ \A x \in Kept' : x \in Keys
    BY TypesOfParts DEF CommandsAreDrawn, TypeOK
  <1>4. CommandsAreDrawn'
    BY <1>0 DEF CommandsAreDrawn
  <1>5. LedgerIsRight'
    <2>1. UNCHANGED ledger
      OBVIOUS
    <2> QED
      BY <1>0, <1>3, <2>1 DEF LedgerIsRight
  <1>6. CommandsKeepTheirInput'
    BY <1>0 DEF CommandsKeepTheirInput
  <1>7. AttemptsAreDrawn'
    <2>1. \A x \in Keys : \A a : Drawn(x, a)' <=> Drawn(x, a)
      BY <1>0 DEF Drawn
    <2>2. \A x \in Keys : Open(x)' => Drawn(x, editors'[x].attempt)
      BY DEF AttemptsAreDrawn, Drawn
    <2>3. \A x \in Keys : x \in Kept' => Drawn(x, drafts'[x].attempt)
      BY DEF AttemptsAreDrawn
    <2>4. \A x \in Keys : Open(x)' /\ x \in Kept' =>
              editors'[x].attempt = drafts'[x].attempt /\ editors'[x].text # Blank
      BY DEF AttemptsAreDrawn
    <2> QED
      BY <2>1, <2>2, <2>3, <2>4 DEF AttemptsAreDrawn
  <1>8. ASSUME NEW x \in Kept', drafts'[x].saving # 0
        PROVE  x \in Kept /\ drafts'[x] = drafts[x] /\ drafts[x].saving # i /\ Pending(x)
    BY <1>3, <1>8 DEF Pending
  <1>9. PendingIsUnanswered'
    <2> SUFFICES ASSUME NEW x \in Kept', drafts'[x].saving # 0, NEW j, j = drafts'[x].saving
                 PROVE  Waiting(j)' /\ requests'[j].key = x /\ requests'[j].text = drafts'[x].text
      BY DEF PendingIsUnanswered, Pending
    <2>1. /\ j # i /\ Waiting(j) /\ requests[j].key = x /\ requests[j].text = drafts[x].text
          /\ drafts'[x] = drafts[x]
      BY <1>8 DEF PendingIsUnanswered
    <2>2. j \in Sent
      BY <2>1 DEF Waiting
    <2> QED
      BY <1>0, <1>2, <2>1, <2>2
  <1>10. SavingHasItsCommand'
    <2> SUFFICES ASSUME NEW x \in Kept', drafts'[x].saving # 0
                 PROVE  requests'[drafts'[x].saving].command = drafts'[x].attempt
      BY DEF SavingHasItsCommand, Pending
    <2>1. /\ drafts'[x] = drafts[x] /\ requests[drafts[x].saving].command = drafts[x].attempt
          /\ drafts[x].saving \in Sent
      BY <1>8 DEF SavingHasItsCommand, PendingIsUnanswered, Waiting
    <2> QED
      BY <1>0, <2>1
  <1>11. OneRequestAtATime'
    <2> SUFFICES ASSUME NEW j \in Sent, Waiting(j)', NEW c, c = requests'[j].command
                 PROVE  /\ \A n \in Sent : Waiting(n)' /\ requests'[n].command = c => n = j
                        /\ \A x \in Kept' : drafts'[x].attempt = c => drafts'[x].saving = j
                        /\ \A x \in Keys : Open(x)' /\ editors'[x].attempt = c => x \in Kept'
      BY <1>0 DEF OneRequestAtATime
    <2>1. Waiting(j) /\ j # i /\ c = requests[j].command /\ c # 0
      BY <1>0, <1>1, <1>3
    <2>2. \A n \in Sent : Waiting(n)' /\ requests'[n].command = c => n = j
      BY <1>0, <1>1, <2>1 DEF OneRequestAtATime
    <2>3. \A x \in Kept' : drafts'[x].attempt = c => drafts'[x].saving = j
      BY <2>1 DEF OneRequestAtATime
    <2>4. ASSUME NEW x \in Keys, Open(x)', editors'[x].attempt = c PROVE x \in Kept'
      BY <2>1, <2>4, WaitingHasItsDraft
    <2> QED
      BY <2>2, <2>3, <2>4
  <1>12. SavedIsOver'
    <2> SUFFICES ASSUME NEW j \in Sent, requests'[j].client = "saved",
                        NEW c, c = requests'[j].command
                 PROVE  /\ requests'[j].reply = "object"
                        /\ \A n \in Sent : requests'[n].command = c
                              /\ requests'[n].client \in {"waiting", "saved"} => n = j
                        /\ \A x \in Kept' : drafts'[x].attempt # c
                        /\ \A x \in Keys : Open(x)' => editors'[x].attempt # c
      BY <1>0 DEF SavedIsOver
    <2>0. c = requests[j].command /\ c # 0 /\ requests[i].client = "waiting"
      BY <1>0, <1>3 DEF Waiting
    <2>1. CASE j = i
      <3>1. outcome = "saved" /\ requests'[j].reply = "object"
        BY <1>0, <2>1
      <3>2. ASSUME NEW n \in Sent, requests'[n].command = c, n # i,
                   requests'[n].client \in {"waiting", "saved"}
            PROVE  FALSE
        <4>1. /\ requests[n].command = requests[i].command
              /\ requests[n].client \in {"waiting", "saved"}
          BY <1>0, <2>0, <2>1, <3>2
        <4>2. CASE requests[n].client = "waiting"
          BY <3>2, <4>1, <4>2 DEF OneRequestAtATime, Waiting
        <4>3. CASE requests[n].client = "saved"
          BY <2>0, <3>2, <4>1, <4>3 DEF SavedIsOver
        <4> QED
          BY <4>1, <4>2, <4>3
      <3>3. \A x \in Kept' : drafts'[x].attempt # c
        BY <1>3, <2>0, <2>1, <3>1, WaitingHasItsDraft
      <3>4. \A x \in Keys : Open(x)' => editors'[x].attempt # c
        BY <2>0, <2>1, <3>1
      <3> QED
        BY <2>1, <3>1, <3>2, <3>3, <3>4
    <2>2. CASE j # i
      <3>1. requests[j].client = "saved"
        BY <1>0, <2>2
      <3>2. /\ requests[j].reply = "object"
            /\ \A n \in Sent : requests[n].command = c
                  /\ requests[n].client \in {"waiting", "saved"} => n = j
            /\ \A x \in Kept : drafts[x].attempt # c
            /\ \A x \in Keys : Open(x) => editors[x].attempt # c
        BY <2>0, <3>1 DEF SavedIsOver
      <3>3. \A n \in Sent : requests'[n].command = c
                  /\ requests'[n].client \in {"waiting", "saved"} => n = j
        BY <1>0, <2>0, <2>2, <3>2
      <3>4. \A x \in Kept' : drafts'[x].attempt # c
        BY <3>2
      <3>5. \A x \in Keys : Open(x)' => editors'[x].attempt # c
        BY <2>0, <3>2
      <3> QED
        BY <1>0, <3>2, <3>3, <3>4, <3>5
    <2> QED
      BY <2>1, <2>2
  <1>13. RetriesKeepTheirCommand'
    <2>1. \A x \in Keys : last'[x] # 0 =>
             /\ x \in Kept' /\ last'[x] \in Sent
             /\ drafts'[x].attempt = requests'[last'[x]].command
      BY <1>0 DEF RetriesKeepTheirCommand
    <2>2. \A j \in Sent : requests'[j].retries # 0 =>
             /\ requests'[j].retries \in Sent
             /\ requests'[requests'[j].retries].command = requests'[j].command
      BY <1>0 DEF RetriesKeepTheirCommand
    <2> QED
      BY <1>0, <2>1, <2>2 DEF RetriesKeepTheirCommand
  <1> QED
    BY <1>4, <1>5, <1>6, <1>7, <1>9, <1>10, <1>11, <1>12, <1>13

\* What the tab does with an answer keeps the invariant.
LEMMA AnswersKeep ==
  ASSUME DraftsInv, NEW i \in Sent, Answer(i)
  PROVE  DraftsInv'
  <1>0. TypeOK /\ Waiting(i) /\ requests[i].command # 0
    <2>1. TypeOK /\ Waiting(i) /\ requests[i].command \in Sent
      BY DEF DraftsInv, Answer, Succeed, Deny, Fail, CommandsAreDrawn
    <2> QED
      BY <2>1, TypesOfParts
  <1> DEFINE k == requests[i].key
             c == requests[i].command
             gone == IF IsSaving(i) THEN {k} ELSE {}
  <1>1. k \in Keys
    BY <1>0, TypesOfParts DEF Request
  <1>2. \A x \in Keys : \/ x \in Kept /\ drafts[x].attempt = c
                        \/ x \in Kept /\ drafts[x].saving = i
                        \/ Open(x) /\ editors[x].attempt = c
          => x = k /\ IsSaving(i) /\ x \in Kept
    BY <1>0, WaitingHasItsDraft
  <1>3. ASSUME Forget(gone)
        PROVE  /\ \A x \in Kept' : x \in Kept /\ drafts'[x] = drafts[x]
               /\ \A x \in Kept : drafts[x].saving = i => x \notin Kept'
               /\ \A x \in Kept : drafts[x].saving # i => x \in Kept' /\ drafts'[x] = drafts[x]
               /\ \A x \in Keys : last'[x] # 0 => last'[x] = last[x] /\ x \in Kept'
               /\ drafts' \in [Kept' -> Draft] /\ Kept' \subseteq Keys
               /\ last' \in [Keys -> Attempts]
    <2>1. \A x \in Kept : drafts[x].saving = i <=> x \in gone
      BY <1>0, <1>2, TypesOfParts DEF IsSaving
    <2> HIDE DEF gone
    <2> QED
      BY <1>0, <1>3, <2>1, ForgetFacts
  <1>4. ASSUME Closes(i)
        PROVE  /\ editors' \in [Keys -> Editor \cup {NoEditor}]
               /\ \A x \in Keys : Open(x)' => /\ Open(x) /\ editors'[x] = editors[x]
                                              /\ editors[x].attempt # c
    <2> DEFINE keys == IF StillMounted(i) THEN {k} ELSE {}
    <2>1. Unmounted(keys)
      BY <1>4 DEF Closes
    <2>2. \A x \in Keys : Open(x) /\ editors[x].attempt = c => x \in keys
      BY <1>2 DEF StillMounted
    <2> HIDE DEF keys
    <2> QED
      BY <1>0, <2>1, <2>2, UnmountedFacts
  <1>5. CASE Succeed(i)
    <2>1. /\ Settled(i, "saved") /\ Forget(gone) /\ UNCHANGED <<ledger, allowed>>
          /\ requests[i].reply = "object"
      BY <1>5 DEF Succeed
    <2>2. /\ editors' \in [Keys -> Editor \cup {NoEditor}]
          /\ \A x \in Keys : Open(x)' => /\ \/ Open(x) /\ editors'[x] = editors[x]
                                            \/ editors'[x].attempt = 0 /\ x \notin Kept'
                                         /\ editors'[x].attempt # c
      <3>1. CASE StillMounted(i) /\ k \in Composers
        <4>1. editors' = [editors EXCEPT ![k] = Finished(i)]
          BY <1>5, <3>1 DEF Succeed
        <4>2. Open(k) /\ editors[k] \in Editor
          BY <1>0, <1>1, <3>1, TypesOfParts DEF StillMounted
        <4>3. Finished(i) \in Editor /\ Finished(i).attempt = 0
          <5> DEFINE e == [editors[k] EXCEPT !.text = Blank]
          <5>1. 0 \in Attempts
            BY RequestsAreBounded DEF Attempts
          <5>2. e \in Editor
            BY <4>2 DEF Editor
          <5>3. Finished(i) = [e EXCEPT !.attempt = 0]
            BY <4>2 DEF Finished, Editor
          <5> HIDE DEF e
          <5>4. [e EXCEPT !.attempt = 0] \in Editor
            BY <5>1, <5>2 DEF Editor
          <5>5. [e EXCEPT !.attempt = 0].attempt = 0
            BY <5>2 DEF Editor
          <5> QED
            BY <5>3, <5>4, <5>5
        <4>4. k \notin Kept'
          BY <1>0, <1>1, <1>2, <1>3, <2>1, <3>1, TypesOfParts DEF IsSaving, StillMounted
        <4>5. \A x \in Keys : x # k => editors'[x] = editors[x] /\ (Open(x)' => Open(x))
          BY <4>1 DEF Open
        <4>6. editors'[k].attempt = 0
          BY <1>0, <1>1, <4>1, <4>3 DEF TypeOK
        <4>7. editors' \in [Keys -> Editor \cup {NoEditor}]
          BY <1>0, <1>1, <4>1, <4>3 DEF TypeOK
        <4>8. \A x \in Keys : x # k /\ Open(x) => editors[x].attempt # c
          BY <1>2
        <4> HIDE DEF k
        <4> QED
          BY <1>0, <4>4, <4>5, <4>6, <4>7, <4>8
      <3>2. CASE ~ (StillMounted(i) /\ k \in Composers)
        <4>1. Closes(i)
          BY <1>5, <3>2 DEF Succeed
        <4> QED
          BY <1>4, <4>1
      <3> QED
        BY <3>1, <3>2
    <2>3. TypeOK'
      BY <1>0, <1>3, <2>1, <2>2, SettledFacts DEF TypeOK, Kept
    <2> QED
      BY <1>0, <1>3, <2>1, <2>2, <2>3, SettleKeeps
  <1>6. CASE Deny(i)
    <2>1. /\ Settled(i, "failed") /\ Forget(gone) /\ Closes(i)
          /\ UNCHANGED <<ledger, allowed>>
      BY <1>6 DEF Deny
    <2>2. TypeOK'
      BY <1>0, <1>3, <1>4, <2>1, SettledFacts DEF TypeOK, Kept
    <2> QED
      BY <1>0, <1>3, <1>4, <2>1, <2>2, SettleKeeps
  <1>7. CASE Fail(i)
    <2>1. /\ Settled(i, "failed") /\ UNCHANGED <<editors, ledger, allowed, last>>
          /\ drafts' = IF IsSaving(i) THEN [drafts EXCEPT ![k] = Failed(@)] ELSE drafts
      BY <1>7 DEF Fail
    <2>2. /\ Kept' = Kept
          /\ \A x \in Kept : drafts'[x].attempt = drafts[x].attempt
          /\ \A x \in Kept : drafts[x].saving = i => drafts'[x].saving = 0
          /\ \A x \in Kept : drafts[x].saving # i => drafts'[x] = drafts[x]
          /\ drafts' \in [Kept -> Draft]
      <3>1. CASE IsSaving(i)
        <4>1. /\ k \in Kept /\ drafts[k].saving = i /\ drafts[k] \in Draft
              /\ drafts' = [drafts EXCEPT ![k] = Failed(drafts[k])]
              /\ drafts \in [Kept -> Draft]
          BY <1>0, <2>1, <3>1, TypesOfParts DEF IsSaving, TypeOK
        <4>2. /\ Failed(drafts[k]) \in Draft /\ Failed(drafts[k]).saving = 0
              /\ Failed(drafts[k]).attempt = drafts[k].attempt
          BY <4>1, RequestsAreBounded DEF Failed, Draft, Attempts
        <4>3. \A x \in Kept : drafts[x].saving = i => x = k
          BY <1>0, <1>2, TypesOfParts
        <4> HIDE DEF k
        <4> QED
          BY <4>1, <4>2, <4>3 DEF Kept
      <3>2. CASE ~ IsSaving(i)
        <4>1. drafts' = drafts /\ drafts \in [Kept -> Draft]
          BY <1>0, <2>1, <3>2 DEF TypeOK
        <4>2. \A x \in Kept : drafts[x].saving # i
          BY <1>0, <1>2, <3>2, TypesOfParts
        <4> QED
          BY <4>1, <4>2 DEF Kept
      <3> QED
        BY <3>1, <3>2
    <2>3. TypeOK'
      BY <1>0, <2>1, <2>2, SettledFacts DEF TypeOK, Kept
    <2>4. \A x \in Keys : last'[x] # 0 => last'[x] = last[x] /\ x \in Kept'
      BY <2>1, <2>2 DEF DraftsInv, RetriesKeepTheirCommand
    <2>5. \A x \in Keys : Open(x)' => Open(x) /\ editors'[x] = editors[x]
      BY <2>1 DEF Open
    <2> QED
      BY <1>0, <2>1, <2>2, <2>3, <2>4, <2>5, SettleKeeps
  <1> QED
    BY <1>5, <1>6, <1>7 DEF Answer

-----------------------------------------------------------------------------
\* The command of a creation that is about to be sent: no request that waits or
\* was saved carries it, and no other draft or editor has it.
LEMMA CommandIsFree ==
  ASSUME DraftsInv, NEW k \in Keys, Open(k), ~ Busy(k), NEW text \in Texts,
         NEW c, c = CommandFor(editors[k].attempt, text), NEW i, i = Len(requests) + 1
  PROVE  /\ \/ c = i
            \/ /\ c \in Sent /\ c = editors[k].attempt /\ c # 0
               /\ requests[c].command = c /\ requests[c].text = text /\ requests[c].key = k
         /\ \A j \in Sent : requests[j].command = c => requests[j].client \notin {"waiting", "saved"}
         /\ \A x \in Kept : x # k => drafts[x].attempt # c
         /\ \A x \in Keys : x # k /\ Open(x) => editors[x].attempt # c
         /\ editors[k].attempt # 0 /\ requests[editors[k].attempt].text = text
               => c = editors[k].attempt
  <1>0. /\ TypeOK /\ i \notin Sent /\ 0 \notin Sent /\ i # 0
        /\ \A x \in Kept : x \in Keys
    BY TypesOfParts DEF DraftsInv
  <1>1. /\ Drawn(k, editors[k].attempt)
        /\ \A x \in Keys : Open(x) => Drawn(x, editors[x].attempt)
        /\ \A x \in Keys : x \in Kept => Drawn(x, drafts[x].attempt)
    BY DEF DraftsInv, AttemptsAreDrawn
  <1>2. CASE editors[k].attempt # 0 /\ requests[editors[k].attempt].text = text
    <2>1. c = editors[k].attempt /\ c # 0
      BY <1>2 DEF CommandFor
    <2>2. c \in Sent /\ requests[c].command = c /\ requests[c].text = text /\ requests[c].key = k
      BY <1>1, <1>2, <2>1 DEF Drawn
    <2>3. \A j \in Sent : requests[j].command = c => requests[j].client # "waiting"
      BY <2>1 DEF Busy, Waiting
    <2>4. \A j \in Sent : requests[j].command = c => requests[j].client # "saved"
      BY <2>1 DEF DraftsInv, SavedIsOver
    <2>5. /\ \A x \in Kept : x # k => drafts[x].attempt # c
          /\ \A x \in Keys : x # k /\ Open(x) => editors[x].attempt # c
      BY <1>0, <1>1, <2>1, <2>2 DEF Drawn
    <2> QED
      BY <2>1, <2>2, <2>3, <2>4, <2>5
  <1>3. CASE ~ (editors[k].attempt # 0 /\ requests[editors[k].attempt].text = text)
    <2>1. c = i
      BY <1>3 DEF CommandFor
    <2>2. \A j \in Sent : requests[j].command \in Sent
      BY DEF DraftsInv, CommandsAreDrawn
    <2>3. /\ \A x \in Kept : drafts[x].attempt # c
          /\ \A x \in Keys : Open(x) => editors[x].attempt # c
      BY <1>0, <1>1, <2>1 DEF Drawn
    <2> QED
      BY <1>0, <1>3, <2>1, <2>2, <2>3
  <1> QED
    BY <1>2, <1>3

\* Sending a creation keeps the invariant.
LEMMA SubmitKeeps ==
  ASSUME DraftsInv, NEW k \in Keys, Submit(k)
  PROVE  DraftsInv'
  <1> DEFINE text    == editors[k].text
             i       == Len(requests) + 1
             c       == CommandFor(editors[k].attempt, text)
             gone    == Evicted(k)
             entry   == [text |-> text, attempt |-> c, saving |-> i]
             retries == IF last[k] # 0 /\ requests[last[k]].text = text THEN last[k] ELSE 0
             r       == [key |-> k, text |-> text, command |-> c, client |-> "waiting",
                         reply |-> "none", object |-> 0, retries |-> retries]
             editor  == [editors[k] EXCEPT !.attempt = c]
  <1>0. /\ TypeOK /\ i \notin Sent /\ i # 0 /\ i <= MaxRequests /\ i \in Nat
        /\ Open(k) /\ ~ Busy(k) /\ ~ Pending(k) /\ text # Blank
        /\ \A x \in Kept : x \in Keys
        /\ \A j \in Sent : j # i
    BY TypesOfParts DEF DraftsInv, Submit
  <1>1. /\ text \in Texts /\ i \in Attempts /\ c \in Attempts /\ editors[k] \in Editor
        /\ last[k] \in Attempts /\ 0 \in Attempts
    <2>1. text \in Texts /\ editors[k].attempt \in Attempts /\ editors[k] \in Editor
      BY <1>0, TypesOfParts DEF Editor
    <2>2. i \in Attempts /\ 0 \in Attempts
      BY <1>0, TypesOfParts DEF Attempts
    <2> QED
      BY <1>0, <2>1, <2>2, TypesOfParts DEF CommandFor
  <1>2. /\ \/ c = i
           \/ /\ c \in Sent /\ c = editors[k].attempt /\ c # 0
              /\ requests[c].command = c /\ requests[c].text = text /\ requests[c].key = k
        /\ \A j \in Sent : requests[j].command = c => requests[j].client \notin {"waiting", "saved"}
        /\ \A x \in Kept : x # k => drafts[x].attempt # c
        /\ \A x \in Keys : x # k /\ Open(x) => editors[x].attempt # c
        /\ editors[k].attempt # 0 /\ requests[editors[k].attempt].text = text
              => c = editors[k].attempt
    <2> HIDE DEF text, i, c
    <2>1. c = CommandFor(editors[k].attempt, text) /\ i = Len(requests) + 1
      BY DEF c, i
    <2> QED
      BY <1>0, <1>1, <2>1, CommandIsFree
  <1>3. /\ drafts' = [x \in (Kept \ gone) \cup {k} |-> IF x \in {k} THEN entry ELSE drafts[x]]
        /\ editors' = [editors EXCEPT ![k] = editor]
        /\ requests' = Append(requests, r)
        /\ last' = [x \in Keys |-> IF x \notin DOMAIN drafts' THEN 0
                                   ELSE IF x \in {k} THEN i ELSE last[x]]
        /\ UNCHANGED <<ledger, allowed>>
    BY DEF Submit, Stored, Remember
  <1>4. /\ entry \in Draft /\ entry.attempt = c /\ entry.saving = i /\ entry.text = text
    BY <1>1 DEF Draft
  <1>5. editor \in Editor /\ editor.attempt = c /\ editor.text = text
    <2> HIDE DEF c
    <2> QED
      BY <1>1 DEF Editor
  <1>6. /\ r \in Request /\ r.key = k /\ r.text = text /\ r.command = c /\ r.client = "waiting"
        /\ r.reply = "none" /\ r.retries = retries
    <2> HIDE DEF c, text
    <2> QED
      BY <1>1 DEF Request
  <1>7. /\ Sent' = Sent \cup {i} /\ requests'[i] = r
        /\ \A j \in Sent : requests'[j] = requests[j]
        /\ requests' \in Seq(Request) /\ Len(requests') = i
    <2>1. requests \in Seq(Request) /\ Sent = 1..Len(requests) /\ Len(requests) \in Nat
      BY <1>0, TypesOfParts DEF TypeOK
    <2>2. /\ requests' \in Seq(Request) /\ Len(requests') = i /\ requests'[i] = r
          /\ \A j \in 1..Len(requests) : requests'[j] = requests[j]
      <3> HIDE DEF r
      <3> QED
        BY <1>3, <1>6, <2>1, AppendProperties
    <2>3. Sent' = 1..i
      BY <2>2, LenProperties DEF Sent
    <2> QED
      BY <2>1, <2>2, <2>3
  <1>8. /\ Kept' = (Kept \ gone) \cup {k} /\ drafts'[k] = entry
        /\ \A x \in Kept' : x # k => x \in Kept /\ drafts'[x] = drafts[x]
        /\ \A x \in Kept : Pending(x) => x # k /\ x \in Kept'
        /\ drafts' \in [Kept' -> Draft] /\ Kept' \subseteq Keys
    <2>1. \A e \in gone : e \in Kept /\ ~ Pending(e) /\ e # k
      BY EvictedAreSettled
    <2> HIDE DEF gone, entry
    <2>2. Kept' = (Kept \ gone) \cup {k}
      BY <1>3 DEF Kept
    <2> QED
      BY <1>0, <1>3, <1>4, <2>1, <2>2 DEF TypeOK, Kept
  <1>9. /\ editors'[k] = editor /\ Open(k)'
        /\ \A x \in Keys : x # k => editors'[x] = editors[x] /\ (Open(x)' <=> Open(x))
        /\ editors' \in [Keys -> Editor \cup {NoEditor}]
    <2> HIDE DEF editor
    <2>1. editors'[k] = editor /\ editors' \in [Keys -> Editor \cup {NoEditor}]
          /\ \A x \in Keys : x # k => editors'[x] = editors[x]
      BY <1>0, <1>3, <1>5 DEF TypeOK
    <2>2. editor # NoEditor
      <3>1. Editor \subseteq [text: Texts \cup {Blank}, attempt: Nat, room: BOOLEAN]
        BY RequestsAreBounded DEF Editor, Attempts
      <3> QED
        BY <1>5, <3>1, NoEditorIsNone
    <2> QED
      BY <2>1, <2>2 DEF Open
  <1>10. /\ last' \in [Keys -> Attempts] /\ last'[k] = i
         /\ \A x \in Keys : x # k => (last'[x] # 0 => last'[x] = last[x] /\ x \in Kept')
    <2> HIDE DEF i
    <2> QED
      BY <1>0, <1>1, <1>3, <1>8, TypesOfParts DEF Kept
  <1> HIDE DEF text, i, c, gone, entry, retries, r, editor
  <1>11. TypeOK'
    BY <1>0, <1>3, <1>7, <1>8, <1>9, <1>10 DEF TypeOK, Kept
  <1>12. CommandsAreDrawn'
    <2>1. \A j \in Sent : /\ requests[j].command \in Sent
                          /\ requests[requests[j].command].command = requests[j].command
                          /\ requests[requests[j].command].text = requests[j].text
                          /\ requests[requests[j].command].key = requests[j].key
      BY DEF DraftsInv, CommandsAreDrawn
    <2>2. /\ c \in Sent' /\ requests'[c].command = c
          /\ requests'[c].text = text /\ requests'[c].key = k
      BY <1>2, <1>6, <1>7
    <2> QED
      BY <1>6, <1>7, <2>1, <2>2 DEF CommandsAreDrawn
  <1>13. \A j \in Sent : requests[j].command \in Sent /\ j # 0
    BY <1>0, TypesOfParts DEF DraftsInv, CommandsAreDrawn
  <1>14. AttemptsAreDrawn'
    <2> DEFINE Now(x, a) == a # 0 =>
                  a \in Sent' /\ requests'[a].command = a /\ requests'[a].key = x
    <2>1. \A x \in Keys : \A a : Drawn(x, a) => Now(x, a)
      BY <1>7 DEF Drawn
    <2>2. Now(k, c)
      BY <1>2, <1>6, <1>7
    <2>3. /\ \A x \in Keys : Open(x) => Drawn(x, editors[x].attempt)
          /\ \A x \in Keys : x \in Kept => Drawn(x, drafts[x].attempt)
          /\ \A x \in Keys : Open(x) /\ x \in Kept =>
                editors[x].attempt = drafts[x].attempt /\ editors[x].text # Blank
      BY DEF DraftsInv, AttemptsAreDrawn
    <2> HIDE DEF Now
    <2>4. \A x \in Keys : Open(x)' => Now(x, editors'[x].attempt)
      BY <1>5, <1>9, <2>1, <2>2, <2>3
    <2>5. \A x \in Keys : x \in Kept' => Now(x, drafts'[x].attempt)
      BY <1>4, <1>8, <2>1, <2>2, <2>3
    <2>6. \A x \in Keys : Open(x)' /\ x \in Kept' =>
              editors'[x].attempt = drafts'[x].attempt /\ editors'[x].text # Blank
      BY <1>0, <1>4, <1>5, <1>8, <1>9, <2>3
    <2> QED
      BY <2>4, <2>5, <2>6 DEF AttemptsAreDrawn, Drawn, Now
  <1>15. \A j \in Sent : (Waiting(j)' <=> Waiting(j))
    BY <1>7 DEF Waiting
  <1>16. i \in Sent' /\ requests'[i].client = "waiting"
    BY <1>6, <1>7
  <1>17. PendingIsUnanswered' /\ SavingHasItsCommand'
    <2> SUFFICES ASSUME NEW x \in Kept', Pending(x)', NEW j, j = drafts'[x].saving
                 PROVE  /\ Waiting(j)' /\ requests'[j].key = x /\ requests'[j].text = drafts'[x].text
                        /\ requests'[j].command = drafts'[x].attempt
      BY DEF PendingIsUnanswered, SavingHasItsCommand
    <2>1. CASE x = k
      BY <1>4, <1>6, <1>7, <1>8, <1>16, <2>1 DEF Waiting
    <2>2. CASE x # k
      <3>1. x \in Kept /\ Pending(x) /\ drafts'[x] = drafts[x]
        BY <1>8, <2>2 DEF Pending
      <3>2. /\ Waiting(j) /\ requests[j].key = x /\ requests[j].text = drafts[x].text
            /\ requests[j].command = drafts[x].attempt
        BY <3>1 DEF DraftsInv, PendingIsUnanswered, SavingHasItsCommand
      <3>3. j \in Sent
        BY <3>2 DEF Waiting
      <3> QED
        BY <1>7, <1>15, <3>1, <3>2, <3>3
    <2> QED
      BY <2>1, <2>2
  <1>18. OneRequestAtATime'
    <2> SUFFICES ASSUME NEW j \in Sent', Waiting(j)', NEW d, d = requests'[j].command
                 PROVE  /\ \A n \in Sent' : Waiting(n)' /\ requests'[n].command = d => n = j
                        /\ \A x \in Kept' : drafts'[x].attempt = d => drafts'[x].saving = j
                        /\ \A x \in Keys : Open(x)' /\ editors'[x].attempt = d => x \in Kept'
      BY DEF OneRequestAtATime
    <2>1. CASE j = i
      <3>1. d = c
        BY <1>6, <1>7, <2>1
      <3>2. \A n \in Sent' : Waiting(n)' /\ requests'[n].command = d => n = j
        BY <1>2, <1>7, <1>15, <2>1, <3>1 DEF Waiting
      <3>3. \A x \in Kept' : drafts'[x].attempt = d => drafts'[x].saving = j
        BY <1>2, <1>4, <1>8, <2>1, <3>1
      <3>4. \A x \in Keys : Open(x)' /\ editors'[x].attempt = d => x \in Kept'
        BY <1>2, <1>8, <1>9, <3>1
      <3> QED
        BY <3>2, <3>3, <3>4
    <2>2. CASE j # i
      <3>1. j \in Sent /\ Waiting(j) /\ d = requests[j].command /\ d # c
        BY <1>2, <1>7, <1>15, <2>2 DEF Waiting
      <3>2. \A n \in Sent' : Waiting(n)' /\ requests'[n].command = d => n = j
        BY <1>6, <1>7, <1>15, <3>1 DEF DraftsInv, OneRequestAtATime
      <3>3. \A x \in Kept' : drafts'[x].attempt = d => drafts'[x].saving = j
        BY <1>4, <1>8, <3>1 DEF DraftsInv, OneRequestAtATime
      <3>4. ASSUME NEW x \in Keys, Open(x)', editors'[x].attempt = d PROVE x \in Kept'
        <4>1. x # k /\ Open(x) /\ editors[x].attempt = d
          BY <1>5, <1>9, <3>1, <3>4
        <4>2. x \in Kept /\ Pending(x)
          BY <1>13, <3>1, <4>1, WaitingHasItsDraft DEF Pending
        <4> QED
          BY <1>8, <4>2
      <3> QED
        BY <3>2, <3>3, <3>4
    <2> QED
      BY <2>1, <2>2
  <1>19. SavedIsOver'
    <2> SUFFICES ASSUME NEW j \in Sent', requests'[j].client = "saved",
                        NEW d, d = requests'[j].command
                 PROVE  /\ requests'[j].reply = "object"
                        /\ \A n \in Sent' : requests'[n].command = d
                              /\ requests'[n].client \in {"waiting", "saved"} => n = j
                        /\ \A x \in Kept' : drafts'[x].attempt # d
                        /\ \A x \in Keys : Open(x)' => editors'[x].attempt # d
      BY DEF SavedIsOver
    <2>1. j \in Sent /\ requests[j].client = "saved" /\ d = requests[j].command /\ d # c
      BY <1>2, <1>6, <1>7
    <2>2. /\ requests[j].reply = "object"
          /\ \A n \in Sent : requests[n].command = d
                /\ requests[n].client \in {"waiting", "saved"} => n = j
          /\ \A x \in Kept : drafts[x].attempt # d
          /\ \A x \in Keys : Open(x) => editors[x].attempt # d
      BY <2>1 DEF DraftsInv, SavedIsOver
    <2> QED
      BY <1>4, <1>5, <1>6, <1>7, <1>8, <1>9, <2>1, <2>2
  <1>20. LedgerIsRight'
    <2>1. UNCHANGED ledger
      BY <1>3
    <2>2. requests'[i].reply # "object"
      BY <1>6, <1>7
    <2> QED
      BY <1>7, <1>13, <2>1, <2>2 DEF DraftsInv, LedgerIsRight
  <1>21. RetriesKeepTheirCommand'
    <2>1. /\ \A x \in Keys : last[x] # 0 => /\ x \in Kept /\ last[x] \in Sent
                                            /\ drafts[x].attempt = requests[last[x]].command
          /\ \A j \in Sent : requests[j].retries # 0 =>
                /\ requests[j].retries \in Sent
                /\ requests[requests[j].retries].command = requests[j].command
      BY DEF DraftsInv, RetriesKeepTheirCommand
    <2>2. \A x \in Keys : last'[x] # 0 =>
             /\ x \in Kept' /\ last'[x] \in Sent'
             /\ drafts'[x].attempt = requests'[last'[x]].command
      BY <1>4, <1>6, <1>7, <1>8, <1>10, <2>1
    <2>3. retries # 0 => retries \in Sent /\ requests[retries].command = c
      <3> SUFFICES ASSUME retries # 0
                   PROVE  retries \in Sent /\ requests[retries].command = c
        OBVIOUS
      <3>1. retries = last[k] /\ last[k] # 0 /\ requests[last[k]].text = text
        BY DEF retries
      <3>2. k \in Kept /\ last[k] \in Sent /\ drafts[k].attempt = requests[last[k]].command
        BY <2>1, <3>1
      <3>3. editors[k].attempt = requests[last[k]].command
        BY <1>0, <3>2 DEF DraftsInv, AttemptsAreDrawn
      <3>4. editors[k].attempt # 0 /\ requests[editors[k].attempt].text = text
        BY <1>13, <3>1, <3>2, <3>3 DEF DraftsInv, CommandsAreDrawn
      <3> QED
        BY <1>2, <3>1, <3>2, <3>3, <3>4
    <2>4. \A j \in Sent' : requests'[j].retries # 0 =>
             /\ requests'[j].retries \in Sent'
             /\ requests'[requests'[j].retries].command = requests'[j].command
      BY <1>6, <1>7, <2>1, <2>3
    <2> QED
      BY <2>2, <2>4 DEF RetriesKeepTheirCommand
  <1>22. CommandsKeepTheirInput'
    BY <1>6, <1>7 DEF DraftsInv, CommandsKeepTheirInput
  <1> QED
    BY <1>11, <1>12, <1>14, <1>17, <1>18, <1>19, <1>20, <1>21, <1>22 DEF DraftsInv

\* The server's transaction keeps the invariant.
LEMMA HandleKeeps ==
  ASSUME DraftsInv, NEW i \in Sent, Handle(i)
  PROVE  DraftsInv'
  <1> DEFINE c == requests[i].command
             d == Created(i)
  <1>0. /\ TypeOK /\ requests[i] \in Request /\ i \in Attempts /\ i # 0
        /\ requests[i].reply = "none"
        /\ c \in Sent /\ requests[c].command = c /\ requests[c].text = requests[i].text
        /\ \A j \in Sent : requests[j].command \in Sent
        /\ MaxRequests \in Nat /\ Sent = 1..Len(requests) /\ Len(requests) <= MaxRequests
        /\ Len(requests) \in Nat
    BY TypesOfParts DEF DraftsInv, Handle, CommandsAreDrawn
  <1>1. /\ d.text = requests[i].text
        /\ d.object \in Sent /\ requests[d.object].command = c
        /\ c \in DOMAIN ledger => d = ledger[c]
        /\ d \in [text: Texts, object: 1..MaxRequests]
    <2>1. CASE c \in DOMAIN ledger
      BY <1>0, <2>1 DEF DraftsInv, LedgerIsRight, Created, TypeOK
    <2>2. CASE c \notin DOMAIN ledger
      <3>1. d = [text |-> requests[i].text, object |-> i]
        BY <2>2 DEF Created
      <3>2. requests[i].text \in Texts /\ i \in 1..MaxRequests
        BY <1>0 DEF Request
      <3> QED
        BY <2>2, <3>1, <3>2
    <2> QED
      BY <2>1, <2>2
  <1>2. PICK what \in {"denied", "object"}, object \in Attempts :
           /\ requests' = [requests EXCEPT ![i].reply = what, ![i].object = object]
           /\ what = "denied" => UNCHANGED ledger
           /\ what = "object" =>
                 /\ object = d.object
                 /\ ledger' = [x \in DOMAIN ledger \cup {c} |-> IF x = c THEN d ELSE ledger[x]]
    <2>1. 0 \in Attempts /\ d.object \in Attempts
      BY <1>0, <1>1 DEF Attempts
    <2> QED
      BY <1>1, <2>1 DEF Handle
  <1>3. UNCHANGED <<drafts, order, editors, allowed, last>>
    BY DEF Handle
  <1> DEFINE r == [requests[i] EXCEPT !.reply = what, !.object = object]
  <1>4. /\ r \in Request /\ r.reply = what /\ r.object = object
        /\ r.key = requests[i].key /\ r.text = requests[i].text
        /\ r.command = requests[i].command /\ r.client = requests[i].client
        /\ r.retries = requests[i].retries
    BY <1>0 DEF Request
  <1>5. requests' = [requests EXCEPT ![i] = r]
    BY <1>2
  <1> HIDE DEF r
  <1>6. /\ requests' \in Seq(Request) /\ Len(requests') = Len(requests) /\ Sent' = Sent
        /\ requests'[i].reply = what /\ requests'[i].object = object
        /\ \A j \in Sent : j # i => requests'[j] = requests[j]
        /\ \A j \in Sent : /\ requests'[j].key = requests[j].key
                           /\ requests'[j].text = requests[j].text
                           /\ requests'[j].command = requests[j].command
                           /\ requests'[j].client = requests[j].client
                           /\ requests'[j].retries = requests[j].retries
    BY <1>0, <1>4, <1>5, OneRequestChanges
  <1>7. /\ DOMAIN ledger' \subseteq 1..MaxRequests
        /\ ledger' \in [DOMAIN ledger' -> [text: Texts, object: 1..MaxRequests]]
    <2>1. CASE what = "denied"
      BY <1>0, <1>2, <2>1 DEF TypeOK
    <2>2. CASE what = "object"
      <3>1. c \in 1..MaxRequests
        BY <1>0
      <3> HIDE DEF c, d
      <3> QED
        BY <1>0, <1>1, <1>2, <2>2, <3>1 DEF TypeOK
    <2> QED
      BY <2>1, <2>2
  <1>8. TypeOK'
    BY <1>0, <1>3, <1>6, <1>7 DEF TypeOK, Kept
  <1>9. Kept' = Kept /\ \A j : Waiting(j)' <=> Waiting(j)
    BY <1>3, <1>6 DEF Kept, Waiting
  <1>10. \A k \in Keys : Open(k)' <=> Open(k)
    BY <1>3 DEF Open
  <1>11. CommandsAreDrawn' /\ CommandsKeepTheirInput'
    BY <1>0, <1>2, <1>6 DEF DraftsInv, CommandsAreDrawn, CommandsKeepTheirInput
  <1>12. AttemptsAreDrawn'
    <2>1. \A k \in Keys : \A a : Drawn(k, a)' <=> Drawn(k, a)
      BY <1>6 DEF Drawn
    <2> QED
      BY <1>3, <1>9, <1>10, <2>1 DEF DraftsInv, AttemptsAreDrawn
  <1>13. PendingIsUnanswered' /\ SavingHasItsCommand'
    <2>1. \A k \in Kept : Pending(k)' <=> Pending(k)
      BY <1>3, <1>9 DEF Pending
    <2> QED
      BY <1>3, <1>6, <1>9, <2>1
         DEF DraftsInv, PendingIsUnanswered, SavingHasItsCommand, Waiting
  <1>14. OneRequestAtATime'
    BY <1>3, <1>6, <1>9, <1>10 DEF DraftsInv, OneRequestAtATime
  <1>15. SavedIsOver'
    <2>1. \A j \in Sent : requests[j].client = "saved" => j # i
      BY <1>0 DEF DraftsInv, SavedIsOver
    <2> QED
      BY <1>3, <1>6, <1>9, <1>10, <2>1 DEF DraftsInv, SavedIsOver
  <1>16. RetriesKeepTheirCommand'
    BY <1>3, <1>6, <1>9 DEF DraftsInv, RetriesKeepTheirCommand
  <1>17. LedgerIsRight'
    <2>0. /\ \A x \in DOMAIN ledger :
                /\ x \in Sent /\ ledger[x].text = requests[x].text
                /\ ledger[x].object \in Sent /\ requests[ledger[x].object].command = x
          /\ \A j \in Sent : requests[j].reply = "object" =>
                /\ requests[j].command \in DOMAIN ledger
                /\ requests[j].object = ledger[requests[j].command].object
      BY DEF DraftsInv, LedgerIsRight
    <2>1. CASE what = "denied"
      <3>1. ledger' = ledger /\ requests'[i].reply # "object"
        BY <1>2, <1>6, <2>1
      <3>2. \A j \in Sent : requests'[j].reply = "object" =>
               j # i /\ requests'[j].object = requests[j].object
        BY <1>6, <3>1
      <3>3. \A j \in Sent : requests'[j].reply = "object" =>
               /\ requests'[j].command \in DOMAIN ledger
               /\ requests'[j].object = ledger[requests'[j].command].object
        BY <1>6, <2>0, <3>2
      <3> HIDE DEF c, d
      <3> QED
        BY <1>6, <2>0, <3>1, <3>3 DEF LedgerIsRight
    <2>2. CASE what = "object"
      <3>1. /\ DOMAIN ledger' = DOMAIN ledger \cup {c} /\ ledger'[c] = d
            /\ \A x \in DOMAIN ledger : ledger'[x] = ledger[x]
        <4> HIDE DEF c, d
        <4> QED
          BY <1>1, <1>2, <2>2
      <3>2. \A x \in DOMAIN ledger' :
               /\ x \in Sent' /\ ledger'[x].text = requests'[x].text
               /\ ledger'[x].object \in Sent' /\ requests'[ledger'[x].object].command = x
        <4> HIDE DEF d
        <4> QED
          BY <1>0, <1>1, <1>6, <2>0, <3>1
      <3>3. \A j \in Sent : requests'[j].reply = "object" =>
               /\ requests'[j].command \in DOMAIN ledger'
               /\ requests'[j].object = ledger'[requests'[j].command].object
        <4>1. object = d.object
          BY <1>2, <2>2
        <4> SUFFICES ASSUME NEW j \in Sent, requests'[j].reply = "object"
                     PROVE  /\ requests[j].command \in DOMAIN ledger'
                            /\ requests'[j].object = ledger'[requests[j].command].object
          BY <1>6
        <4> HIDE DEF d
        <4>2. CASE j = i
          BY <1>6, <3>1, <4>1, <4>2
        <4>3. CASE j # i
          <5>1. /\ requests[j].command \in DOMAIN ledger
                /\ requests'[j].object = ledger[requests[j].command].object
            BY <1>6, <2>0, <4>3
          <5> QED
            BY <3>1, <5>1
        <4> QED
          BY <4>2, <4>3
      <3> QED
        BY <1>6, <3>2, <3>3 DEF LedgerIsRight
    <2> QED
      BY <2>1, <2>2
  <1> QED
    BY <1>8, <1>11, <1>12, <1>13, <1>14, <1>15, <1>16, <1>17 DEF DraftsInv

\* The end of a session and the loss of the Event keep the invariant.
LEMMA EndSessionKeeps ==
  ASSUME DraftsInv, EndSession
  PROVE  DraftsInv'
  <1>0. TypeOK /\ Forget(Keys) /\ Unmounted(Keys) /\ UNCHANGED <<ledger, allowed>>
    BY DEF DraftsInv, EndSession
  <1>1. /\ Kept' = {} /\ \A x \in Keys : ~ Open(x)' /\ last'[x] = 0
        /\ drafts' \in [Kept' -> Draft] /\ last' \in [Keys -> Attempts]
        /\ editors' \in [Keys -> Editor \cup {NoEditor}]
    BY <1>0, ForgetFacts, UnmountedFacts DEF TypeOK
  <1>2. /\ Sent = 1..Len(requests) /\ Len(requests) \in Nat
        /\ \A i \in Sent : requests[i] \in Request
    BY <1>0, TypesOfParts
  <1> DEFINE f == [i \in Sent |-> IF Waiting(i) THEN [requests[i] EXCEPT !.client = "left"]
                                  ELSE requests[i]]
  <1>3. \A i \in Sent : /\ f[i] \in Request
                        /\ f[i].client # "waiting"
                        /\ f[i].client = "saved" => requests[i].client = "saved"
                        /\ f[i].key = requests[i].key /\ f[i].text = requests[i].text
                        /\ f[i].command = requests[i].command /\ f[i].reply = requests[i].reply
                        /\ f[i].object = requests[i].object /\ f[i].retries = requests[i].retries
    BY <1>2 DEF Request, Waiting
  <1>4. requests' = f
    BY DEF EndSession
  <1>5. f \in [1..Len(requests) -> Request]
    BY <1>2, <1>3
  <1>6. DOMAIN f = Sent
    OBVIOUS
  <1> HIDE DEF f
  <1>7. requests' \in Seq(Request) /\ Len(requests') = Len(requests) /\ Sent' = Sent
    BY <1>2, <1>4, <1>5, <1>6 DEF Sent
  <1>8. TypeOK'
    BY <1>0, <1>1, <1>7 DEF TypeOK, Kept
  <1>9. CommandsAreDrawn' /\ CommandsKeepTheirInput' /\ LedgerIsRight'
    <2>1. UNCHANGED ledger /\ \A i \in Sent : requests[i].command \in Sent
      BY <1>0 DEF DraftsInv, CommandsAreDrawn
    <2> QED
      BY <1>3, <1>4, <1>7, <2>1
         DEF DraftsInv, CommandsAreDrawn, CommandsKeepTheirInput, LedgerIsRight
  <1>10. AttemptsAreDrawn' /\ PendingIsUnanswered' /\ SavingHasItsCommand'
    BY <1>1 DEF AttemptsAreDrawn, PendingIsUnanswered, SavingHasItsCommand
  <1>11. OneRequestAtATime'
    BY <1>3, <1>4, <1>7 DEF OneRequestAtATime, Waiting
  <1>12. SavedIsOver'
    <2>1. \A i \in Sent : f[i].client = "saved" =>
             /\ requests[i].reply = "object"
             /\ \A j \in Sent : requests[j].command = requests[i].command
                                /\ requests[j].client = "saved" => j = i
      BY <1>3 DEF DraftsInv, SavedIsOver
    <2> QED
      BY <1>1, <1>3, <1>4, <1>7, <2>1 DEF SavedIsOver
  <1>13. RetriesKeepTheirCommand'
    BY <1>1, <1>3, <1>4, <1>7 DEF DraftsInv, RetriesKeepTheirCommand
  <1> QED
    BY <1>8, <1>9, <1>10, <1>11, <1>12, <1>13 DEF DraftsInv

LEMMA LoseAccessKeeps ==
  ASSUME DraftsInv, LoseAccess
  PROVE  DraftsInv'
  <1>1. /\ TypeOK /\ Forget(Dialogs) /\ Unmounted(Keys)
        /\ UNCHANGED <<requests, ledger, allowed>>
    BY DEF DraftsInv, LoseAccess
  <1>2. PICK k \in Keys : TRUE
    BY DEF LoseAccess
  <1>3. TypeOK'
    BY <1>1, ForgetFacts, UnmountedFacts DEF TypeOK, Kept
  <1>4. /\ \A x \in Kept' : x \in Kept /\ drafts'[x] = drafts[x]
        /\ \A x \in Keys : last'[x] # 0 => last'[x] = last[x] /\ x \in Kept'
        /\ \A x \in Keys : ~ Open(x)'
    BY <1>1, ForgetFacts, UnmountedFacts
  <1> QED
    BY <1>1, <1>2, <1>3, <1>4, ClosesKeys

\* A step that changes none of what the invariant reads.
LEMMA StutterKeeps ==
  ASSUME DraftsInv, allowed' \in BOOLEAN, UNCHANGED <<drafts, editors, requests, ledger, last>>
  PROVE  DraftsInv'
  BY DEF DraftsInv, TypeOK, CommandsAreDrawn, AttemptsAreDrawn, Drawn, PendingIsUnanswered,
         SavingHasItsCommand, OneRequestAtATime, SavedIsOver, LedgerIsRight,
         RetriesKeepTheirCommand, CommandsKeepTheirInput, Pending, Waiting, Open, Kept, Sent

LEMMA DraftsStep ==
  ASSUME DraftsInv, [Next]_vars
  PROVE  DraftsInv'
  <1>1. CASE Edit
    BY <1>1, EditsKeep
  <1>2. ASSUME NEW k \in Keys, Submit(k) PROVE DraftsInv'
    BY <1>2, SubmitKeeps
  <1>3. ASSUME NEW i \in 1..MaxRequests, Handle(i) \/ Answer(i) PROVE DraftsInv'
    <2>1. i \in Sent
      BY <1>3 DEF Handle, Answer, Succeed, Deny, Fail, Waiting
    <2> QED
      BY <1>3, <2>1, HandleKeeps, AnswersKeep
  <1>4. CASE EndSession
    BY <1>4, EndSessionKeeps
  <1>5. CASE ChangeAccess
    BY <1>5, StutterKeeps DEF ChangeAccess
  <1>6. CASE LoseAccess
    BY <1>6, LoseAccessKeeps
  <1>7. CASE UNCHANGED vars
    <2>1. allowed' \in BOOLEAN
      BY <1>7 DEF vars, DraftsInv, TypeOK
    <2> QED
      BY <1>7, <2>1, StutterKeeps DEF vars
  <1> QED
    BY <1>1, <1>2, <1>3, <1>4, <1>5, <1>6, <1>7 DEF Next

LEMMA DraftsStart == Init => DraftsInv
  <1> SUFFICES ASSUME Init PROVE DraftsInv
    OBVIOUS
  <1>1. /\ Kept = {} /\ Sent = {} /\ DOMAIN ledger = {} /\ Len(requests) = 0
        /\ requests = <<>> /\ \A k \in Keys : ~ Open(k) /\ last[k] = 0
    BY DEF Init, Kept, Sent, Open
  <1>2. TypeOK
    <2>1. requests \in Seq(Request) /\ Len(requests) <= MaxRequests
      BY <1>1, RequestsAreBounded
    <2>2. drafts \in [Kept -> Draft] /\ Kept \subseteq Keys
      BY <1>1 DEF Init
    <2>3. last \in [Keys -> Attempts]
      BY RequestsAreBounded DEF Init, Attempts
    <2>4. editors \in [Keys -> Editor \cup {NoEditor}] /\ allowed \in BOOLEAN
      BY DEF Init
    <2>5. DOMAIN ledger \subseteq 1..MaxRequests
          /\ ledger \in [DOMAIN ledger -> [text: Texts, object: 1..MaxRequests]]
      BY <1>1 DEF Init
    <2> QED
      BY <2>1, <2>2, <2>3, <2>4, <2>5 DEF TypeOK
  <1> QED
    BY <1>1, <1>2
       DEF DraftsInv, CommandsAreDrawn, AttemptsAreDrawn, PendingIsUnanswered,
           SavingHasItsCommand, OneRequestAtATime, SavedIsOver, LedgerIsRight,
           RetriesKeepTheirCommand, CommandsKeepTheirInput

-----------------------------------------------------------------------------
\* Whatever is typed, left, resumed, lost or answered late, the store, the
\* editors, the requests and the ledger agree on which command is whose.
THEOREM DraftsKeepTheirInvariant == Spec => []DraftsInv
  <1>1. DraftsInv /\ [Next]_vars => DraftsInv'
    BY DraftsStep
  <1> QED
    BY DraftsStart, <1>1, PTL DEF Spec

\* A draft that is sent again unchanged makes one object, in whatever order the
\* tries are handled (#createObject finds the command in its ledger).
THEOREM RetriesCreateOnce == Spec => []RetriesMakeOneObject
  <1>1. DraftsInv => RetriesMakeOneObject
    BY DEF DraftsInv, LedgerIsRight, RetriesKeepTheirCommand, RetriesMakeOneObject
  <1> QED
    BY <1>1, DraftsKeepTheirInvariant, PTL

\* Two saves that were reported made two objects (an editor that goes on after
\* its save draws another command).
THEOREM SavesCreateTheirOwn == Spec => []SavesAreTheirOwn
  <1>1. DraftsInv => SavesAreTheirOwn
    <2> SUFFICES ASSUME DraftsInv, NEW i \in Sent, NEW j \in Sent,
                        requests[i].client = "saved", requests[j].client = "saved",
                        requests[i].object = requests[j].object
                 PROVE  i = j
      BY DEF SavesAreTheirOwn
    <2>1. requests[i].command = requests[j].command
      BY DEF DraftsInv, SavedIsOver, LedgerIsRight
    <2> QED
      BY <2>1 DEF DraftsInv, SavedIsOver
  <1> QED
    BY <1>1, DraftsKeepTheirInvariant, PTL

\* No command reaches the server with another input (commandFor draws a fresh one
\* when the input changes).
THEOREM CommandsAreNotReused == Spec => []CommandsKeepTheirInput
  <1>1. DraftsInv => CommandsKeepTheirInput
    BY DEF DraftsInv
  <1> QED
    BY <1>1, DraftsKeepTheirInvariant, PTL

\* A draft that shows as saving waits for an answer, and none stays pending after
\* its own (save of editor-draft-store.ts).
THEOREM AnsweredDraftsAreSettled == Spec => []PendingIsUnanswered
  <1>1. DraftsInv => PendingIsUnanswered
    BY DEF DraftsInv
  <1> QED
    BY <1>1, DraftsKeepTheirInvariant, PTL

\* An answer changes the draft whose save it answers and no other, whatever was
\* typed, saved, forgotten or cleared before it came.
THEOREM AnswersAreTheirDrafts == Spec => AnswersSettleTheirSave
  <1> DEFINE A == \A k \in Keys : \A i \in Sent :
                 Waiting(i) /\ requests'[i].client \in {"saved", "failed"}
                            /\ ~ (k \in Kept /\ drafts[k].saving = i) =>
                     /\ k \in Kept <=> k \in DOMAIN drafts'
                     /\ k \in Kept => drafts'[k] = drafts[k]
  <1>1. DraftsInv /\ [Next]_vars => [A]_vars
    <2> SUFFICES ASSUME DraftsInv, Next, NEW k \in Keys, NEW i \in Sent,
                        Waiting(i), requests'[i].client \in {"saved", "failed"},
                        ~ (k \in Kept /\ drafts[k].saving = i)
                 PROVE  /\ k \in Kept <=> k \in DOMAIN drafts'
                        /\ k \in Kept => drafts'[k] = drafts[k]
      OBVIOUS
    <2>1. TypeOK /\ requests[i].client = "waiting"
      BY DEF DraftsInv, Waiting
    <2>2. PICK n \in Sent : Answer(n)
      <3>1. CASE Edit \/ ChangeAccess \/ LoseAccess
        <4>1. requests' = requests
          BY <3>1 DEF Edit, ChangeAccess, LoseAccess, OpenEmpty, Resume, DropKept, RoomChanges,
                      Leave, Discard, Type
        <4> QED
          BY <2>1, <4>1
      <3>2. ASSUME NEW x \in Keys, Submit(x) PROVE FALSE
        <4>1. PICK r : requests' = Append(requests, r)
          BY <3>2 DEF Submit
        <4>2. requests'[i] = requests[i]
          BY <2>1, <4>1, TypesOfParts
        <4> QED
          BY <2>1, <4>2
      <3>3. ASSUME NEW n \in 1..MaxRequests, Handle(n) PROVE FALSE
        <4>1. n \in Sent /\ requests[n] \in Request /\ requests \in [Sent -> Request]
          BY <2>1, <3>3, TypesOfParts DEF Handle
        <4>2. PICK what, object :
                 requests' = [requests EXCEPT ![n].reply = what, ![n].object = object]
          BY <3>3 DEF Handle
        <4>3. requests'[i].client = requests[i].client
          BY <4>1, <4>2 DEF Request
        <4> QED
          BY <2>1, <4>3
      <3>4. ASSUME EndSession PROVE FALSE
        <4>1. requests'[i] = [requests[i] EXCEPT !.client = "left"]
          BY <3>4 DEF EndSession
        <4>2. requests[i] \in Request
          BY <2>1, TypesOfParts
        <4>3. requests'[i].client = "left"
          BY <4>1, <4>2 DEF Request
        <4> QED
          BY <4>3
      <3>5. ASSUME NEW n \in 1..MaxRequests, Answer(n) PROVE n \in Sent
        BY <3>5 DEF Answer, Succeed, Deny, Fail, Waiting
      <3> QED
        BY <3>1, <3>2, <3>3, <3>4, <3>5 DEF Next
    <2>3. n = i
      <3>1. PICK outcome \in {"saved", "failed"} : Settled(n, outcome)
        BY <2>2 DEF Answer, Succeed, Deny, Fail
      <3> QED
        BY <2>1, <3>1, SettledFacts
    <2>4. k \notin (IF IsSaving(i) THEN {requests[i].key} ELSE {})
      BY DEF IsSaving
    <2>5. CASE Forget(IF IsSaving(i) THEN {requests[i].key} ELSE {})
      <3>1. PICK gone : Forget(gone) /\ k \notin gone
        BY <2>4, <2>5
      <3> QED
        BY <2>1, <3>1, ForgetFacts DEF Kept
    <2>6. CASE drafts' = IF IsSaving(i) THEN [drafts EXCEPT ![requests[i].key] = Failed(@)]
                         ELSE drafts
      BY <2>1, <2>4, <2>6 DEF TypeOK, Kept
    <2> QED
      BY <2>2, <2>3, <2>5, <2>6 DEF Answer, Succeed, Deny, Fail
  <1> QED
    BY <1>1, DraftsKeepTheirInvariant, PTL DEF Spec, AnswersSettleTheirSave

-----------------------------------------------------------------------------
(* The store's order names every draft it holds, and never too many.       *)

Entries(t) == {t[n] : n \in 1 .. Len(t)}
NoneTwice(t) == \A m, n \in 1 .. Len(t) : t[m] = t[n] => m = n

\* A sequence that names nothing twice is as long as the set it names.
LEMMA EntriesAreCounted ==
  ASSUME NEW S, NEW t \in Seq(S), NoneTwice(t)
  PROVE  IsFiniteSet(Entries(t)) /\ Cardinality(Entries(t)) = Len(t)
  <1>1. Len(t) \in Nat /\ t \in [1 .. Len(t) -> S]
    OBVIOUS
  <1>2. IsFiniteSet(1 .. Len(t)) /\ Cardinality(1 .. Len(t)) = Len(t)
    BY <1>1, FS_Interval
  <1>3. t \in [1 .. Len(t) -> Entries(t)]
    BY <1>1 DEF Entries
  <1>4. t \in Surjection(1 .. Len(t), Entries(t)) /\ t \in Injection(1 .. Len(t), Entries(t))
    BY <1>3 DEF Entries, NoneTwice, Surjection, Injection, IsInjective
  <1> QED
    BY <1>2, <1>4, FS_Surjection

\* What the order keeps of itself when some keys have left the store.
LEMMA WithoutFacts ==
  ASSUME OrderInv, NEW gone, NEW t, t = Without(gone)
  PROVE  /\ t \in Seq(Keys) /\ NoneTwice(t) /\ Entries(t) = Kept \ gone
         /\ Len(t) \in Nat /\ Len(order) \in Nat /\ Len(t) <= Len(order)
         /\ \A x \in Kept \cap gone : Len(t) < Len(order)
  <1>1. /\ order \in Seq(Keys) /\ NoneTwice(order) /\ Entries(order) = Kept
        /\ Len(order) \in Nat /\ \A n \in 1 .. Len(order) : order[n] \in Keys
    BY DEF OrderInv, NoneTwice, Entries
  <1>2. /\ t \in Seq(Keys)
        /\ \E g : Selects(order, Keys \ gone, Len(order), t, g)
    BY <1>1, FilteredIsSubsequence DEF Without
  <1>3. PICK g : Selects(order, Keys \ gone, Len(order), t, g)
    BY <1>2
  <1>4. /\ Len(t) <= Len(order)
        /\ g \in [1 .. Len(t) -> 1 .. Len(order)]
        /\ \A i \in 1 .. Len(t) : t[i] = order[g[i]] /\ t[i] \in Keys \ gone
        /\ \A i, j \in 1 .. Len(t) : i < j => g[i] < g[j]
        /\ \A n \in 1 .. Len(order) :
              order[n] \in Keys \ gone => \E i \in 1 .. Len(t) : g[i] = n
    BY <1>3 DEF Selects
  <1>5. Len(t) \in Nat
    BY <1>2
  <1>6. NoneTwice(t)
    <2> SUFFICES ASSUME NEW m \in 1 .. Len(t), NEW n \in 1 .. Len(t), t[m] = t[n]
                 PROVE  m = n
      BY DEF NoneTwice
    <2>1. g[m] \in 1 .. Len(order) /\ g[n] \in 1 .. Len(order) /\ order[g[m]] = order[g[n]]
      BY <1>4
    <2>2. g[m] = g[n]
      BY <1>1, <2>1 DEF NoneTwice
    <2>3. ~ (m < n) /\ ~ (n < m)
      BY <1>4, <2>1, <2>2
    <2> QED
      BY <1>5, <2>3
  <1>7. Entries(t) = Kept \ gone
    <2>1. \A i \in 1 .. Len(t) : t[i] \in Kept \ gone
      BY <1>1, <1>4 DEF Entries
    <2>2. ASSUME NEW x \in Kept \ gone PROVE \E i \in 1 .. Len(t) : t[i] = x
      <3>1. PICK n \in 1 .. Len(order) : order[n] = x
        BY <1>1 DEF Entries
      <3>2. PICK i \in 1 .. Len(t) : g[i] = n
        BY <1>1, <1>4, <3>1
      <3> QED
        BY <1>4, <3>1, <3>2
    <2> QED
      BY <2>1, <2>2 DEF Entries
  <1>8. ASSUME NEW x \in Kept \cap gone PROVE Len(t) < Len(order)
    <2>1. IsFiniteSet(Kept) /\ Cardinality(Kept) = Len(order)
      BY <1>1, EntriesAreCounted
    <2>2. IsFiniteSet(Kept \ {x}) /\ Cardinality(Kept \ {x}) = Len(order) - 1
      BY <1>1, <2>1, FS_RemoveElement
    <2>3. Cardinality(Entries(t)) = Len(t)
      BY <1>2, <1>6, EntriesAreCounted
    <2>4. Entries(t) \in SUBSET (Kept \ {x})
      BY <1>7
    <2>5. Len(t) <= Len(order) - 1
      BY <2>2, <2>3, <2>4, FS_Subset
    <2> QED
      BY <1>1, <1>5, <2>5
  <1> QED
    BY <1>1, <1>2, <1>4, <1>5, <1>6, <1>7, <1>8

\* A full store that takes one more draft always finds one to let go: the first
\* in its order that is settled.
LEMMA FullStoreEvicts ==
  ASSUME OrderInv, NEW k, k \notin Kept, CanKeep(k), ~ (Cardinality(Kept) < Limit)
  PROVE  \E e \in Kept : e \in Evicted(k)
  <1>1. /\ \A m, n \in 1 .. Len(order) : order[m] = order[n] => m = n
        /\ \A x : x \in Kept <=> \E n \in 1 .. Len(order) : order[n] = x
        /\ Len(order) \in Nat /\ DOMAIN order = 1 .. Len(order)
    BY DEF OrderInv
  <1> DEFINE T == {n \in 1 .. Len(order) : ~ Pending(order[n])}
  <1>2. T \subseteq Nat /\ T # {}
    <2>1. PICK e \in Kept : ~ Pending(e)
      BY DEF CanKeep
    <2>2. PICK n \in 1 .. Len(order) : order[n] = e
      BY <1>1
    <2> QED
      BY <2>1, <2>2
  <1>3. PICK n \in T : \A m \in T : ~ (m < n)
    <2> HIDE DEF T
    <2> QED
      BY <1>2, NatMin
  <1>4. n \in 1 .. Len(order) /\ order[n] \in Kept /\ ~ Pending(order[n])
    BY <1>1, <1>3
  <1>5. ASSUME NEW f \in Kept, Before(f, order[n]) PROVE Pending(f)
    <2>1. PICK l \in 1 .. Len(order), m \in 1 .. Len(order) :
             l < m /\ order[l] = f /\ order[m] = order[n]
      BY <1>1, <1>5 DEF Before
    <2>2. m = n
      BY <1>1, <1>4, <2>1
    <2>3. l \notin T
      BY <1>3, <2>1, <2>2
    <2> QED
      BY <2>1, <2>3
  <1>6. order[n] \in Evicted(k)
    BY <1>4, <1>5 DEF Evicted
  <1> QED
    BY <1>4, <1>6

LEMMA ForgetKeepsOrder ==
  ASSUME OrderInv, NEW gone, Forget(gone)
  PROVE  OrderInv'
  <1> SUFFICES ASSUME NEW t, t = Without(gone) PROVE OrderInv'
    OBVIOUS
  <1>1. order' = t /\ Kept' = Kept \ gone
    BY DEF Forget, Stored, Kept
  <1>2. Len(order) <= Limit /\ Limit \in Nat
    BY LimitIsPositive DEF OrderInv
  <1> QED
    BY <1>1, <1>2, WithoutFacts DEF OrderInv, NoneTwice, Entries

\* A draft that is set comes last, in the room of those that left.
LEMMA AppendKeepsOrder ==
  ASSUME OrderInv, NEW k \in Keys, CanKeep(k), NEW gone,
         Evicted(k) \subseteq gone, k \in Kept => k \in gone,
         Kept' = (Kept \ gone) \cup {k}, order' = Append(Without(gone), k)
  PROVE  OrderInv'
  <1> SUFFICES ASSUME NEW t, t = Without(gone) PROVE OrderInv'
    OBVIOUS
  <1>1. /\ t \in Seq(Keys) /\ NoneTwice(t) /\ Entries(t) = Kept \ gone
        /\ Len(t) \in Nat /\ Len(order) \in Nat /\ Len(t) <= Len(order)
        /\ \A x \in Kept \cap gone : Len(t) < Len(order)
    BY WithoutFacts
  <1>2. /\ order' = Append(t, k) /\ order' \in Seq(Keys) /\ Len(order') = Len(t) + 1
        /\ \A n \in 1 .. Len(t) : order'[n] = t[n] /\ t[n] # k
        /\ order'[Len(t) + 1] = k
    BY <1>1 DEF Entries
  <1>3. Len(order) <= Limit /\ Limit \in Nat
    BY LimitIsPositive DEF OrderInv
  <1>4. Cardinality(Kept) = Len(order)
    <2>1. order \in Seq(Keys) /\ NoneTwice(order) /\ Entries(order) = Kept
      BY DEF OrderInv, NoneTwice, Entries
    <2> QED
      BY <2>1, EntriesAreCounted
  <1>5. Len(t) < Limit
    <2>1. CASE k \in Kept
      BY <2>1, <1>1, <1>3
    <2>2. CASE k \notin Kept /\ Cardinality(Kept) < Limit
      BY <2>2, <1>1, <1>3, <1>4
    <2>3. CASE k \notin Kept /\ ~ (Cardinality(Kept) < Limit)
      <3>1. PICK e \in Kept : e \in Evicted(k)
        BY <2>3, FullStoreEvicts
      <3> QED
        BY <3>1, <1>1, <1>3
    <2> QED
      BY <2>1, <2>2, <2>3
  <1>6. \A m, n \in 1 .. Len(order') : order'[m] = order'[n] => m = n
    BY <1>1, <1>2 DEF NoneTwice
  <1>7. {order'[n] : n \in 1 .. Len(order')} = Kept'
    <2>1. \A n \in 1 .. Len(order') : n = Len(t) + 1 \/ n \in 1 .. Len(t)
      BY <1>1, <1>2
    <2>2. \A n \in 1 .. Len(order') : order'[n] \in Entries(t) \cup {k}
      BY <1>2, <2>1 DEF Entries
    <2>3. \A x \in Entries(t) : \E n \in 1 .. Len(order') : order'[n] = x
      BY <1>1, <1>2 DEF Entries
    <2>4. Len(t) + 1 \in 1 .. Len(order')
      BY <1>1, <1>2
    <2> QED
      BY <1>1, <1>2, <2>2, <2>3, <2>4
  <1> QED
    BY <1>1, <1>2, <1>3, <1>5, <1>6, <1>7 DEF OrderInv

LEMMA KeepKeepsOrder ==
  ASSUME OrderInv, NEW k \in Keys, NEW text, NEW attempt, Keep(k, text, attempt)
  PROVE  OrderInv'
  <1>1. CASE Pending(k) \/ ~ CanKeep(k)
    <2>1. order' = order /\ Kept' = Kept
      BY <1>1 DEF Keep, Kept
    <2> QED
      BY <2>1 DEF OrderInv
  <1>2. CASE ~ (Pending(k) \/ ~ CanKeep(k))
    <2>1. /\ order' = Append(Without(Evicted(k) \cup {k}), k)
          /\ Kept' = (Kept \ Evicted(k)) \cup {k}
      BY <1>2 DEF Keep, Stored, Kept
    <2>2. Kept' = (Kept \ (Evicted(k) \cup {k})) \cup {k}
      BY <2>1
    <2> QED
      BY <1>2, <2>1, <2>2, AppendKeepsOrder
  <1> QED
    BY <1>1, <1>2

LEMMA SubmitKeepsOrder ==
  ASSUME OrderInv, NEW k \in Keys, Submit(k)
  PROVE  OrderInv'
  <1>1. CanKeep(k) /\ Kept' = (Kept \ Evicted(k)) \cup {k}
    BY DEF Submit, Stored, Kept
  <1>2. CASE k \in Kept
    <2>1. order' = order /\ Kept' = Kept
      BY <1>1, <1>2 DEF Submit, Evicted
    <2> QED
      BY <2>1 DEF OrderInv
  <1>3. CASE k \notin Kept
    <2>1. order' = Append(Without(Evicted(k)), k)
      BY <1>3 DEF Submit
    <2> QED
      BY <1>1, <1>3, <2>1, AppendKeepsOrder
  <1> QED
    BY <1>2, <1>3

LEMMA StepKeepsOrder ==
  ASSUME OrderInv, [Next]_vars
  PROVE  OrderInv'
  <1>1. CASE \E gone : Forget(gone)
    BY <1>1, ForgetKeepsOrder
  <1>2. CASE \E k \in Keys : \E text, attempt : Keep(k, text, attempt)
    BY <1>2, KeepKeepsOrder
  <1>3. CASE \E k \in Keys : Submit(k)
    BY <1>3, SubmitKeepsOrder
  <1>4. CASE order' = order /\ Kept' = Kept
    BY <1>4 DEF OrderInv
  <1>5. CASE UNCHANGED vars
    BY <1>5, <1>4 DEF vars, Kept
  <1>6. ASSUME NEW k \in Keys, OpenEmpty(k) \/ DropKept(k) \/ Discard(k)
        PROVE  OrderInv'
    BY <1>6, <1>1 DEF OpenEmpty, DropKept, Discard
  <1>7. ASSUME NEW k \in Keys,
               Resume(k) \/ RoomChanges(k) \/ \E text \in Texts \cup {Blank} : Type(k, text)
        PROVE  OrderInv'
    BY <1>7, <1>1, <1>2 DEF Resume, RoomChanges, Type
  <1>8. ASSUME NEW i \in 1 .. MaxRequests, Fail(i)
        PROVE  OrderInv'
    <2>1. order' = order /\ Kept' = Kept
      BY <1>8 DEF Fail, Kept
    <2> QED
      BY <2>1, <1>4
  <1>9. ASSUME NEW i \in 1 .. MaxRequests, Handle(i) \/ Succeed(i) \/ Deny(i)
        PROVE  OrderInv'
    BY <1>9, <1>1, <1>4 DEF Handle, Succeed, Deny, Kept
  <1>10. CASE EndSession \/ ChangeAccess \/ LoseAccess
    BY <1>10, <1>1, <1>4 DEF EndSession, ChangeAccess, LoseAccess, Kept
  <1>11. ASSUME NEW k \in Keys, Leave(k)
         PROVE  OrderInv'
    BY <1>11, <1>4 DEF Leave, Kept
  <1>12. CASE Edit
    BY <1>12, <1>6, <1>7, <1>11 DEF Edit
  <1> QED
    BY <1>3, <1>5, <1>8, <1>9, <1>10, <1>12 DEF Next, Answer

\* The store never holds more than its limit, and its order names each draft
\* once (keep and canKeep of editor-draft-store.ts): a full store that takes one
\* more always finds a settled draft to let go, whatever is pending, and however
\* large the limit and many the editors.
THEOREM StoreStaysBounded == Spec => []StoreIsBounded
  <1>1. Init => OrderInv
    <2> SUFFICES ASSUME Init PROVE OrderInv
      OBVIOUS
    <2>1. order = <<>> /\ Kept = {}
      BY DEF Init, Kept
    <2>2. <<>> \in Seq(Keys) /\ Len(<<>>) = 0 /\ 1 .. 0 = {}
      OBVIOUS
    <2> QED
      BY <2>1, <2>2, LimitIsPositive DEF OrderInv
  <1>2. OrderInv /\ [Next]_vars => OrderInv'
    BY StepKeepsOrder
  <1>3. OrderInv => StoreIsBounded
    <2> SUFFICES ASSUME OrderInv PROVE StoreIsBounded
      OBVIOUS
    <2>1. /\ order \in Seq(Keys) /\ NoneTwice(order) /\ Entries(order) = Kept
          /\ Len(order) <= Limit /\ DOMAIN order = 1 .. Len(order)
      BY DEF OrderInv, NoneTwice, Entries
    <2>2. Cardinality(Kept) = Len(order)
      BY <2>1, EntriesAreCounted
    <2> QED
      BY <2>1, <2>2 DEF StoreIsBounded, Entries
  <1> QED
    BY <1>1, <1>2, <1>3, PTL DEF Spec

=============================================================================
