-------------------------- MODULE EventLayoutsProofs --------------------------
(***************************************************************************)
(* Undo and redo of layouts stay with their tab and a tab never shows an   *)
(* older layout than it has shown, for any number of tabs and other        *)
(* clients, any limit and whichever answers are lost.                      *)
(***************************************************************************)
EXTENDS EventLayouts, FilterTheorems, SequenceTheorems, TLAPS

\* The last entries of a stack are entries of it.
LEMMA LastOfKeeps ==
  ASSUME NEW S, NEW s \in Seq(S)
  PROVE  /\ LastOf(s) \in Seq(S)
         /\ \A i \in 1..Len(LastOf(s)) : \E j \in 1..Len(s) : LastOf(s)[i] = s[j]
  <1> DEFINE m == IF Len(s) > UndoLimit THEN Len(s) - UndoLimit + 1 ELSE 1
  <1>1. m \in 1..(Len(s) + 1) /\ m \in Int /\ Len(s) \in Nat
    BY BoundsArePositive, LenProperties
  <1>2. \A i \in m..Len(s) : s[i] \in S
    BY <1>1, ElementOfSeq
  <1> HIDE DEF m
  <1>3. /\ SubSeq(s, m, Len(s)) \in Seq(S)
        /\ Len(SubSeq(s, m, Len(s))) = IF m <= Len(s) THEN Len(s) - m + 1 ELSE 0
        /\ \A i \in 1..(Len(s) - m + 1) : SubSeq(s, m, Len(s))[i] = s[m + i - 1]
    BY <1>1, <1>2, SubSeqProperties
  <1>4. LastOf(s) = SubSeq(s, m, Len(s))
    BY DEF LastOf, m
  <1>5. ASSUME NEW i \in 1..Len(LastOf(s)) PROVE \E j \in 1..Len(s) : LastOf(s)[i] = s[j]
    <2>1. m + i - 1 \in 1..Len(s) /\ LastOf(s)[i] = s[m + i - 1]
      BY <1>1, <1>3, <1>4, <1>5
    <2> QED
      BY <2>1
  <1> QED
    BY <1>3, <1>4, <1>5

\* A stack without its top has entries of the stack.
LEMMA ShortenedKeeps ==
  ASSUME NEW S, NEW s \in Seq(S)
  PROVE  /\ Shortened(s) \in Seq(S)
         /\ \A i \in 1..Len(Shortened(s)) : \E j \in 1..Len(s) : Shortened(s)[i] = s[j]
  <1>1. Len(s) \in Nat
    BY LenProperties
  <1>2. \A i \in 1..(Len(s) - 1) : s[i] \in S
    BY <1>1, ElementOfSeq
  <1>3. /\ SubSeq(s, 1, Len(s) - 1) \in Seq(S)
        /\ Len(SubSeq(s, 1, Len(s) - 1)) = IF 1 <= Len(s) - 1 THEN Len(s) - 1 ELSE 0
        /\ \A i \in 1..(Len(s) - 1) : SubSeq(s, 1, Len(s) - 1)[i] = s[i]
    BY <1>1, <1>2, SubSeqProperties
  <1> QED
    BY <1>1, <1>3 DEF Shortened

\* Every entry of a stack is one from S.
EntriesIn(stack, S) == stack \in Seq(Versions) /\ \A i \in 1..Len(stack) : stack[i] \in S

\* Pushing, dropping and forgetting leave entries that were there, or the new one.
LEMMA StackSteps ==
  ASSUME NEW S, NEW s, EntriesIn(s, S), NEW v \in Versions, v \in S
  PROVE  EntriesIn(LastOf(Append(s, v)), S) /\ EntriesIn(Shortened(s), S)
  <1>1. s \in Seq(Versions) /\ Append(s, v) \in Seq(Versions)
    BY AppendProperties DEF EntriesIn
  <1>2. \A i \in 1..Len(Append(s, v)) : Append(s, v)[i] \in S
    BY <1>1, AppendProperties, LenProperties DEF EntriesIn
  <1>3. EntriesIn(LastOf(Append(s, v)), S)
    BY <1>1, <1>2, LastOfKeeps DEF EntriesIn
  <1>4. EntriesIn(Shortened(s), S)
    BY <1>1, ShortenedKeeps DEF EntriesIn
  <1> QED
    BY <1>3, <1>4

\* What a tab's stacks are after an answer, when its old ones held entries of S
\* or were of another version.
LEMMA AdvancedEntries ==
  ASSUME NEW S, NEW s \in UndoState, NEW p \in Versions, p \in S, NEW v \in Versions,
         NEW intent \in {"edit", "undo", "redo"},
         s.version = p => EntriesIn(s.undo, S) /\ EntriesIn(s.redo, S),
         NEW a, a = Advanced(s, p, v, intent)
  PROVE  /\ a \in UndoState /\ a.version = v
         /\ EntriesIn(a.undo, S) /\ EntriesIn(a.redo, S)
  <1> DEFINE now == Current(s, p)
  <1>1. EntriesIn(<<>>, S)
    BY EmptySeq DEF EntriesIn
  <1>2. EntriesIn(now.undo, S) /\ EntriesIn(now.redo, S)
    BY <1>1 DEF Current, EmptyUndo
  <1>3. /\ EntriesIn(LastOf(Append(now.undo, p)), S) /\ EntriesIn(Shortened(now.undo), S)
        /\ EntriesIn(LastOf(Append(now.redo, p)), S) /\ EntriesIn(Shortened(now.redo), S)
    BY <1>2, StackSteps
  <1>4. /\ a.version = v
        /\ a = [version |-> v, undo |-> a.undo, redo |-> a.redo]
        /\ a.undo \in {LastOf(Append(now.undo, p)), Shortened(now.undo)}
        /\ a.redo \in {LastOf(Append(now.redo, p)), Shortened(now.redo), <<>>}
    BY DEF Advanced
  <1>5. EntriesIn(a.undo, S) /\ EntriesIn(a.redo, S)
    BY <1>1, <1>3, <1>4
  <1>6. a \in UndoState
    BY <1>4, <1>5 DEF UndoState, EntriesIn
  <1> QED
    BY <1>4, <1>5, <1>6

\* A new revision leaves the earlier ones as they were.
LEMMA SavedKeeps ==
  ASSUME TypeOK, Latest < MaxVersion, NEW r \in Revision, saved' = Append(saved, r)
  PROVE  /\ saved' \in Seq(Revision) /\ Latest' = Latest + 1 /\ Latest' <= MaxVersion
         /\ Latest \in Nat /\ MaxVersion \in Nat
         /\ \A w \in 1..Latest : saved'[w] = saved[w]
         /\ saved'[Latest + 1] = r
  <1>1. saved \in Seq(Revision) /\ Latest <= MaxVersion /\ MaxVersion \in Nat
    BY BoundsArePositive DEF TypeOK
  <1>2. Latest \in Nat
    BY <1>1, LenProperties DEF Latest
  <1> QED
    BY <1>1, <1>2, AppendProperties DEF Latest

\* The pages of a version are themselves named by a version.
LEMMA PagesAreNamed ==
  ASSUME TypeOK, NEW v \in 0..Latest
  PROVE  PagesAt(v) \in Versions /\ v \in Versions
  <1>1. saved \in Seq(Revision) /\ Latest <= MaxVersion /\ MaxVersion \in Nat
    BY BoundsArePositive DEF TypeOK
  <1>2. Latest \in Nat
    BY <1>1, LenProperties DEF Latest
  <1>3. v # 0 => saved[v] \in Revision
    BY <1>1, <1>2, ElementOfSeq DEF Latest
  <1> QED
    BY <1>1, <1>2, <1>3 DEF PagesAt, Versions, Revision

\* A revision by anyone keeps the invariant, when one saved by an undo or redo
\* goes back over changes of its own tab alone.
LEMMA SavingKeepsTheInvariant ==
  ASSUME LayoutsInv, Latest < MaxVersion, NEW r \in Revision, saved' = Append(saved, r),
         r.intent # "edit" => /\ r.from \in 0..Latest
                              /\ \A w \in (r.from + 1)..Latest : saved[w].by = r.by,
         UNCHANGED <<cached, undo, reading>>,
         \/ answers' = answers
         \/ r.by \in Tabs /\ answers' = [answers EXCEPT ![r.by] = @ \cup {Latest + 1}]
  PROVE  LayoutsInv'
  <1>1. TypeOK
    BY DEF LayoutsInv
  <1>2. /\ saved' \in Seq(Revision) /\ Latest' = Latest + 1 /\ Latest' <= MaxVersion
        /\ Latest \in Nat /\ MaxVersion \in Nat
        /\ \A w \in 1..Latest : saved'[w] = saved[w]
        /\ saved'[Latest + 1] = r
    BY <1>1, SavedKeeps
  <1>9. Latest \in Nat
    BY <1>2
  <1>3. TypeOK'
    BY <1>1, <1>2 DEF TypeOK
  <1>8. ASSUME NEW v \in 1..(Latest + 1)
         PROVE  \/ v = Latest + 1 /\ saved'[v] = r
                \/ v \in 1..Latest /\ saved'[v] = saved[v]
    <2>1. v = Latest + 1 \/ v \in 1..Latest
      BY <1>9
    <2> QED
      BY <1>2, <2>1
  <1>4. UndosNameAVersion'
    <2> SUFFICES ASSUME NEW v \in 1..(Latest + 1), saved'[v].intent # "edit"
                 PROVE  saved'[v].from \in 0..(v - 1)
      BY <1>2 DEF UndosNameAVersion
    <2>1. CASE v = Latest + 1 /\ saved'[v] = r
      <3>1. r.from \in 0..Latest
        BY <2>1
      <3> QED
        BY <1>9, <2>1, <3>1
    <2>2. CASE v \in 1..Latest /\ saved'[v] = saved[v]
      BY <2>2 DEF LayoutsInv, UndosNameAVersion
    <2> QED
      BY <1>8, <2>1, <2>2
  <1>5. UndosStayWithTheirTab'
    <2> SUFFICES ASSUME NEW v \in 1..(Latest + 1), saved'[v].intent # "edit",
                        NEW w \in (saved'[v].from + 1)..(v - 1)
                 PROVE  saved'[w].by = saved'[v].by
      BY <1>2 DEF UndosStayWithTheirTab
    <2>1. CASE v = Latest + 1 /\ saved'[v] = r
      <3>1. r.from \in 0..Latest /\ \A x \in (r.from + 1)..Latest : saved[x].by = r.by
        BY <2>1
      <3>2. w \in (r.from + 1)..Latest /\ w \in 1..Latest
        BY <1>9, <2>1, <3>1
      <3>3. saved'[w] = saved[w]
        BY <1>2, <3>2
      <3> QED
        BY <2>1, <3>1, <3>2, <3>3
    <2>2. CASE v \in 1..Latest /\ saved'[v] = saved[v]
      <3>1. saved[v].from \in 0..(v - 1)
        BY <2>2 DEF LayoutsInv, UndosNameAVersion
      <3>2. saved[w].by = saved[v].by
        BY <2>2 DEF LayoutsInv, UndosStayWithTheirTab
      <3>3. w \in (saved[v].from + 1)..(v - 1)
        BY <2>2
      <3>4. w \in 1..Latest
        BY <1>2, <2>2, <3>1, <3>3
      <3>5. saved'[w] = saved[w]
        BY <1>2, <3>4
      <3> QED
        BY <2>2, <3>2, <3>5
    <2> QED
      BY <1>8, <2>1, <2>2
  <1>6. TabsHoldThePast'
    <2> SUFFICES ASSUME NEW t \in Tabs
                 PROVE  /\ cached[t] <= Latest + 1 /\ undo[t].version <= Latest + 1
                        /\ reading[t] # None => cached[t] <= reading[t] /\ reading[t] <= Latest + 1
                        /\ \A v \in answers'[t] : saved'[v].by = t
      BY <1>2 DEF TabsHoldThePast
    <2>1. /\ cached[t] \in Int /\ undo[t].version \in Int
          /\ reading[t] # None => reading[t] \in Int
          /\ answers[t] \subseteq 1..Latest
      BY <1>1, <1>2 DEF TypeOK, Versions, UndoState
    <2>2. /\ cached[t] <= Latest /\ undo[t].version <= Latest
          /\ reading[t] # None => cached[t] <= reading[t] /\ reading[t] <= Latest
          /\ \A v \in answers[t] : saved[v].by = t
      BY DEF LayoutsInv, TabsHoldThePast
    <2>3. \A v \in answers'[t] : v \in answers[t] \/ (v = Latest + 1 /\ r.by = t)
      BY <1>1 DEF TypeOK
    <2>4. \A v \in answers'[t] : saved'[v].by = t
      BY <1>2, <2>1, <2>2, <2>3
    <2>5. cached[t] <= Latest + 1 /\ undo[t].version <= Latest + 1
      BY <1>9, <2>1, <2>2
    <2>6. reading[t] # None => cached[t] <= reading[t] /\ reading[t] <= Latest + 1
      BY <1>9, <2>1, <2>2
    <2> QED
      BY <2>4, <2>5, <2>6
  <1>7. ASSUME NEW t \in Tabs PROVE (OnlyTheTabSince(t, undo[t].undo) /\ OnlyTheTabSince(t, undo[t].redo))'
    <2>1. undo[t] \in UndoState /\ undo[t].version <= Latest
      BY <1>1 DEF TypeOK, LayoutsInv, TabsHoldThePast
    <2>2. ASSUME NEW stack \in Seq(Versions), OnlyTheTabSince(t, stack), NEW i \in 1..Len(stack),
                 NEW w \in (stack[i] + 1)..undo[t].version
          PROVE  saved'[w].by = t
      <3>1. stack[i] \in Nat /\ undo[t].version \in Nat
        <4>1. stack[i] \in Versions
          BY <2>2, ElementOfSeq
        <4>2. undo[t].version \in Versions
          BY <2>1 DEF UndoState
        <4> QED
          BY <1>2, <4>1, <4>2 DEF Versions
      <3>2. w \in 1..Latest
        BY <1>2, <2>1, <3>1
      <3> QED
        BY <1>2, <2>2, <3>2 DEF OnlyTheTabSince
    <2> QED
      BY <2>1, <2>2 DEF LayoutsInv, OnlyTheTabSince, UndoState
  <1> QED
    BY <1>3, <1>4, <1>5, <1>6, <1>7 DEF LayoutsInv

LEMMA InitKeepsInvariant == Init => LayoutsInv
  <1> SUFFICES ASSUME Init PROVE LayoutsInv
    OBVIOUS
  <1>1. /\ saved = <<>> /\ saved \in Seq(Revision) /\ Latest = 0 /\ MaxVersion \in Nat
        /\ 0 \in Versions /\ EmptyUndo \in UndoState
    BY EmptySeq, BoundsArePositive DEF Init, Latest, Versions, UndoState, EmptyUndo
  <1>2. TypeOK
    BY <1>1 DEF Init, TypeOK
  <1> QED
    BY <1>1, <1>2 DEF Init, LayoutsInv, UndosNameAVersion, UndosStayWithTheirTab, TabsHoldThePast,
       OnlyTheTabSince, EmptyUndo

\* What a tab saves keeps the invariant.
LEMMA TabsSave ==
  ASSUME LayoutsInv, NEW t \in Tabs, NEW pages \in Versions, NEW intent \in {"edit", "undo", "redo"},
         NEW from \in Versions \cup {None}, Saved(t, pages, intent, from),
         intent # "edit" => from \in 0..Latest /\ \A w \in (from + 1)..Latest : saved[w].by = t
  PROVE  LayoutsInv'
  <1> DEFINE r == [pages |-> pages, by |-> t, intent |-> intent, from |-> from]
  <1>1. r \in Revision /\ r.by = t /\ r.intent = intent /\ r.from = from
    BY DEF Revision
  <1> QED
    BY <1>1, SavingKeepsTheInvariant DEF Saved

\* The version on top of a stack, when the stacks are of the latest version.
LEMMA TopOfStack ==
  ASSUME LayoutsInv, NEW t \in Tabs, undo[t].version = Latest,
         NEW stack \in Seq(Versions), OnlyTheTabSince(t, stack), stack # <<>>
  PROVE  /\ Last(stack) \in 0..Latest
         /\ \A w \in (Last(stack) + 1)..Latest : saved[w].by = t
  <1>1. Len(stack) \in 1..Len(stack) /\ Last(stack) = stack[Len(stack)]
    BY LenProperties, EmptySeq DEF Last
  <1>2. Last(stack) \in Versions
    BY <1>1, ElementOfSeq
  <1>3. Latest \in Nat /\ MaxVersion \in Nat
    BY LenProperties, BoundsArePositive DEF LayoutsInv, TypeOK, Latest
  <1> QED
    BY <1>1, <1>2, <1>3 DEF OnlyTheTabSince, Versions

LEMMA TabStepsKeepInvariant ==
  ASSUME LayoutsInv, NEW t \in Tabs,
         \/ BeginRead(t) \/ EndRead(t) \/ Update(t)
         \/ \E v \in Versions : Restore(t, v)
         \/ \E intent \in {"undo", "redo"} : Rewind(t, intent)
  PROVE  LayoutsInv'
  <1>1. TypeOK /\ Latest \in Nat /\ Latest <= MaxVersion /\ MaxVersion \in Nat
    BY LenProperties, BoundsArePositive DEF LayoutsInv, TypeOK, Latest
  <1>2. ASSUME BeginRead(t) PROVE LayoutsInv'
    <2>1. Latest \in Versions /\ UNCHANGED <<saved, cached, undo, answers>>
      BY <1>1, <1>2 DEF BeginRead, Versions
    <2>2. TypeOK'
      BY <1>1, <1>2, <2>1 DEF BeginRead, TypeOK, Latest
    <2>3. \A u \in Tabs : reading'[u] \in {reading[u], Latest}
      BY <1>1, <1>2 DEF BeginRead, TypeOK
    <2>4. TabsHoldThePast'
      BY <1>1, <2>1, <2>3 DEF LayoutsInv, TabsHoldThePast, Latest
    <2> QED
      BY <2>1, <2>2, <2>4 DEF LayoutsInv, UndosNameAVersion, UndosStayWithTheirTab, OnlyTheTabSince, Latest
  <1>3. ASSUME EndRead(t) PROVE LayoutsInv'
    <2>1. UNCHANGED <<saved, undo, answers>>
      BY <1>3 DEF EndRead
    <2>2. TypeOK'
      BY <1>1, <1>3, <2>1 DEF EndRead, TypeOK, Latest
    <2>3. \A u \in Tabs : \/ reading'[u] = None /\ cached'[u] = reading[u] /\ reading[u] # None
                          \/ reading'[u] = reading[u] /\ cached'[u] = cached[u]
      BY <1>1, <1>3 DEF EndRead, TypeOK
    <2>4. TabsHoldThePast'
      BY <1>1, <2>1, <2>3 DEF LayoutsInv, TabsHoldThePast, Latest
    <2> QED
      BY <2>1, <2>2, <2>4 DEF LayoutsInv, UndosNameAVersion, UndosStayWithTheirTab, OnlyTheTabSince, Latest
  <1>4. ASSUME Update(t) PROVE LayoutsInv'
    <2>1. Latest + 1 \in Versions
      BY <1>1, <1>4 DEF Update, Saved, Versions
    <2> QED
      BY <1>4, <2>1, TabsSave DEF Update
  <1>5. ASSUME NEW v \in Versions, Restore(t, v) PROVE LayoutsInv'
    <2>1. PagesAt(v) \in Versions
      BY <1>1, <1>5, PagesAreNamed DEF Restore, Versions
    <2> QED
      BY <1>5, <2>1, TabsSave DEF Restore
  <1>6. ASSUME NEW intent \in {"undo", "redo"}, Rewind(t, intent) PROVE LayoutsInv'
    <2> DEFINE stack == IF intent = "undo" THEN undo[t].undo ELSE undo[t].redo
    <2>1. undo[t].version = Latest /\ stack # <<>> /\ Saved(t, PagesAt(Last(stack)), intent, Last(stack))
      BY <1>6 DEF Rewind, Saved, Expected
    <2>2. stack \in Seq(Versions) /\ OnlyTheTabSince(t, stack)
      BY <1>1 DEF LayoutsInv, TypeOK, UndoState
    <2> HIDE DEF stack
    <2>3. /\ Last(stack) \in 0..Latest
          /\ \A w \in (Last(stack) + 1)..Latest : saved[w].by = t
      BY <2>1, <2>2, TopOfStack
    <2>4. PagesAt(Last(stack)) \in Versions /\ Last(stack) \in Versions
      BY <1>1, <2>3, PagesAreNamed
    <2> QED
      BY <2>1, <2>3, <2>4, TabsSave
  <1> QED
    BY <1>2, <1>3, <1>4, <1>5, <1>6

LEMMA SaveElsewhereKeepsInvariant ==
  ASSUME LayoutsInv, NEW c \in Clients, NEW v \in Versions, SaveElsewhere(c, v)
  PROVE  LayoutsInv'
  <1> DEFINE r == [pages |-> IF v > Latest THEN v ELSE PagesAt(v), by |-> c, intent |-> "edit", from |-> None]
  <1>1. TypeOK /\ Latest \in Nat
    BY LenProperties DEF LayoutsInv, TypeOK, Latest
  <1>2. v <= Latest => PagesAt(v) \in Versions
    BY <1>1, PagesAreNamed DEF Versions
  <1>3. r \in Revision /\ r.intent = "edit"
    BY <1>1, <1>2 DEF Revision, Versions
  <1> QED
    BY <1>3, SavingKeepsTheInvariant DEF SaveElsewhere

\* What an answer changes of the tab that had asked, and of no other.
LEMMA AcceptKeepsInvariant ==
  ASSUME LayoutsInv, NEW t \in Tabs, NEW v \in answers[t], Accept(t, v)
  PROVE  LayoutsInv'
  <1>1. /\ TypeOK /\ Latest \in Nat /\ Latest <= MaxVersion /\ MaxVersion \in Nat
        /\ saved' = saved /\ Latest' = Latest
    BY LenProperties, BoundsArePositive DEF LayoutsInv, TypeOK, Latest, Accept
  <1>2. /\ v \in 1..Latest /\ v \in Versions /\ v - 1 \in Versions
        /\ saved[v].by = t
    BY <1>1 DEF LayoutsInv, TypeOK, TabsHoldThePast, Versions
  <1>3. saved[v].intent \in {"edit", "undo", "redo"}
    <2>1. saved[v] \in Revision
      BY <1>1, <1>2, ElementOfSeq DEF TypeOK, Latest
    <2> QED
      BY <2>1 DEF Revision
  <1> DEFINE S == {x \in Versions : x <= v /\ \A w \in (x + 1)..v : saved[w].by = t}
             next == Advanced(undo[t], v - 1, v, saved[v].intent)
  <1>4. v - 1 \in S
    BY <1>1, <1>2
  <1>5. undo[t] \in UndoState
    BY <1>1 DEF TypeOK
  <1>6. ASSUME NEW stack \in Seq(Versions), OnlyTheTabSince(t, stack), undo[t].version = v - 1
        PROVE  EntriesIn(stack, S)
    <2>1. ASSUME NEW i \in 1..Len(stack) PROVE stack[i] \in S
      <3>1. stack[i] \in Versions
        BY <1>6, ElementOfSeq
      <3>2. stack[i] <= v - 1 /\ \A w \in (stack[i] + 1)..(v - 1) : saved[w].by = t
        BY <1>6 DEF OnlyTheTabSince
      <3>3. \A w \in (stack[i] + 1)..v : w = v \/ w \in (stack[i] + 1)..(v - 1)
        BY <1>2, <3>1 DEF Versions
      <3> QED
        BY <1>2, <3>1, <3>2, <3>3 DEF Versions
    <2> QED
      BY <2>1 DEF EntriesIn
  <1>7. undo[t].version = v - 1 => EntriesIn(undo[t].undo, S) /\ EntriesIn(undo[t].redo, S)
    BY <1>5, <1>6 DEF LayoutsInv, UndoState
  <1>8. /\ next \in UndoState /\ next.version = v
        /\ EntriesIn(next.undo, S) /\ EntriesIn(next.redo, S)
    <2> DEFINE p == v - 1
               intent == saved[v].intent
    <2>1. p \in Versions /\ p \in S /\ v \in Versions /\ intent \in {"edit", "undo", "redo"}
      BY <1>2, <1>3, <1>4
    <2>2. next = Advanced(undo[t], p, v, intent)
      OBVIOUS
    <2>3. undo[t].version = p => EntriesIn(undo[t].undo, S) /\ EntriesIn(undo[t].redo, S)
      BY <1>7
    <2> HIDE DEF S, p, intent, next
    <2> QED
      BY <1>5, <2>1, <2>2, <2>3, AdvancedEntries, Z3
  <1> HIDE DEF next
  <1>9. \A u \in Tabs : \/ undo'[u] = undo[u] /\ cached'[u] = cached[u]
                        \/ u = t /\ undo'[u] = next /\ cached'[u] = v
    BY <1>1 DEF Accept, TypeOK, next
  <1>10. \A u \in Tabs : reading'[u] \in {reading[u], None} /\ (u = t => reading'[u] = None)
                         /\ answers'[u] \subseteq answers[u]
    BY <1>1 DEF Accept, AfterCancel, TypeOK
  <1>11. TypeOK'
    <2>1. undo' \in [Tabs -> UndoState] /\ cached' \in [Tabs -> Versions]
      BY <1>1, <1>2, <1>8 DEF Accept, TypeOK, next
    <2>2. reading' \in [Tabs -> Versions \cup {None}] /\ answers' \in [Tabs -> SUBSET (1..Latest)]
      BY <1>1 DEF Accept, AfterCancel, TypeOK
    <2> QED
      BY <1>1, <2>1, <2>2 DEF TypeOK
  <1>12. TabsHoldThePast'
    BY <1>1, <1>2, <1>8, <1>9, <1>10 DEF LayoutsInv, TabsHoldThePast
  <1>13. ASSUME NEW u \in Tabs PROVE (OnlyTheTabSince(u, undo[u].undo) /\ OnlyTheTabSince(u, undo[u].redo))'
    <2>1. CASE undo'[u] = undo[u]
      BY <1>1, <2>1 DEF LayoutsInv, OnlyTheTabSince
    <2>2. CASE u = t /\ undo'[u] = next
      BY <1>1, <1>8, <2>2 DEF OnlyTheTabSince, EntriesIn
    <2> QED
      BY <1>9, <2>1, <2>2
  <1> QED
    BY <1>1, <1>11, <1>12, <1>13 DEF LayoutsInv, UndosNameAVersion, UndosStayWithTheirTab

LEMMA StepsKeepInvariant == LayoutsInv /\ [Next]_vars => LayoutsInv'
  <1> SUFFICES ASSUME LayoutsInv, [Next]_vars PROVE LayoutsInv'
    OBVIOUS
  <1>1. CASE UNCHANGED vars
    BY <1>1 DEF vars, LayoutsInv, TypeOK, UndosNameAVersion, UndosStayWithTheirTab, TabsHoldThePast,
       OnlyTheTabSince, Latest
  <1>2. CASE Next
    BY <1>2, TabStepsKeepInvariant, SaveElsewhereKeepsInvariant, AcceptKeepsInvariant DEF Next
  <1> QED
    BY <1>1, <1>2

\* Layouts, stacks, open reads and late answers keep their invariant, for any
\* number of tabs and clients (event-layout-queries.ts, layout-undo.ts).
THEOREM LayoutsKeepTheirInvariant == Spec => []LayoutsInv
  <1> QED
    BY InitKeepsInvariant, StepsKeepInvariant, PTL DEF Spec

\* Every undo or redo that is saved takes back changes of its own tab only.
THEOREM UndosTakeBackTheirTab == Spec => []UndosStayWithTheirTab
  <1>1. LayoutsInv => UndosStayWithTheirTab
    BY DEF LayoutsInv
  <1> QED
    BY <1>1, LayoutsKeepTheirInvariant, PTL

\* No tab goes back to an older layout, in whatever order answers and reads come.
THEOREM LayoutsOnlyMoveForward == Spec => LayoutsNeverGoBack
  <1>1. LayoutsInv /\ [Next]_vars => [\A t \in Tabs : cached'[t] >= cached[t]]_vars
    <2> SUFFICES ASSUME LayoutsInv, Next, NEW u \in Tabs
                 PROVE  cached'[u] >= cached[u]
      OBVIOUS
    <2>1. TypeOK /\ cached[u] \in Int
      BY DEF LayoutsInv, TypeOK, Versions
    <2>2. CASE cached' = cached
      BY <2>1, <2>2
    <2>3. ASSUME NEW t \in Tabs, EndRead(t) PROVE cached'[u] >= cached[u]
      BY <2>1, <2>3 DEF LayoutsInv, TypeOK, TabsHoldThePast, EndRead, Versions
    <2>4. ASSUME NEW t \in Tabs, NEW v \in answers[t], Accept(t, v) PROVE cached'[u] >= cached[u]
      <3>1. v \in Int
        BY <2>1 DEF TypeOK
      <3> QED
        BY <2>1, <2>4, <3>1 DEF TypeOK, Accept, Outdated, Versions
    <2> QED
      BY <2>2, <2>3, <2>4 DEF Next, BeginRead, Update, Restore, Rewind, Saved, SaveElsewhere
  <1> QED
    BY <1>1, LayoutsKeepTheirInvariant, PTL DEF Spec, LayoutsNeverGoBack
-----------------------------------------------------------------------------
(* A tab's stacks follow the chain of its own changes, which the ledger     *)
(* tells: what a chain is, for any revisions s.                             *)

PagesIn(s, v) == IF v = 0 THEN 0 ELSE s[v].pages

\* The chain at version v, after the chain f had at the version before.
ChainStep(t, s, f, v) ==
    IF v = 0 \/ (v > 0 /\ s[v].by # t) THEN [past |-> <<>>, future |-> <<>>]
    ELSE LET was == f[v - 1]
             old == PagesIn(s, v - 1)
         IN
         CASE s[v].intent = "edit" -> [past |-> Append(was.past, old), future |-> <<>>]
           [] s[v].intent = "undo" -> [past |-> Shortened(was.past),
                                       future |-> Append(was.future, old)]
           [] OTHER -> [past |-> Append(was.past, old), future |-> Shortened(was.future)]
IsChain(t, s, f, m) == f = [v \in 0 .. m |-> ChainStep(t, s, f, v)]

\* A step looks at the version before and no other.
LEMMA StepsLookBack ==
  ASSUME NEW t, NEW s, NEW q, NEW f, NEW g, NEW v \in Nat,
         v # 0 => f[v - 1] = g[v - 1] /\ s[v] = q[v] /\ PagesIn(s, v - 1) = PagesIn(q, v - 1)
  PROVE  ChainStep(t, s, f, v) = ChainStep(t, q, g, v)
  <1>1. CASE v = 0
    BY <1>1 DEF ChainStep
  <1>2. CASE v # 0
    BY <1>2, Zenon DEF ChainStep
  <1> QED
    BY <1>1, <1>2

\* The recursion of a chain has a solution over any part of the ledger.
LEMMA ChainsExist ==
  ASSUME NEW t, NEW s, NEW m \in Nat
  PROVE  \E f : IsChain(t, s, f, m)
  <1> DEFINE P == {n \in Nat : \E f : IsChain(t, s, f, n)}
             none == [past |-> <<>>, future |-> <<>>]
  <1>1. 0 \in P
    <2> DEFINE f == [v \in 0 .. 0 |-> none]
    <2>1. \A v \in 0 .. 0 : ChainStep(t, s, f, v) = none
      BY DEF ChainStep
    <2>2. IsChain(t, s, f, 0)
      BY <2>1 DEF IsChain
    <2> HIDE DEF f
    <2> QED
      BY <2>2
  <1>2. ASSUME NEW k \in Nat, k \in P
        PROVE  k + 1 \in P
    <2>1. PICK f : IsChain(t, s, f, k)
      BY <1>2
    <2>2. \A v \in 0 .. k : f[v] = ChainStep(t, s, f, v)
      BY <2>1 DEF IsChain
    <2> DEFINE g == [v \in 0 .. k + 1 |-> IF v = k + 1 THEN ChainStep(t, s, f, k + 1) ELSE f[v]]
    <2>3. ASSUME NEW v \in 0 .. k + 1
          PROVE  g[v] = ChainStep(t, s, g, v)
      <3>1. v # 0 => f[v - 1] = g[v - 1]
        <4>1. v # 0 => v - 1 \in 0 .. k + 1 /\ v - 1 # k + 1
          OBVIOUS
        <4> QED
          BY <4>1
      <3>2. g[v] = ChainStep(t, s, f, v)
        <4>1. CASE v = k + 1
          BY <4>1
        <4>2. CASE v # k + 1
          <5>1. v \in 0 .. k
            BY <4>2
          <5> QED
            BY <4>2, <5>1, <2>2
        <4> QED
          BY <4>1, <4>2
      <3> HIDE DEF g
      <3>3. ChainStep(t, s, f, v) = ChainStep(t, s, g, v)
        BY <3>1, StepsLookBack
      <3> QED
        BY <3>2, <3>3
    <2>4. g = [v \in 0 .. k + 1 |-> g[v]]
      OBVIOUS
    <2> HIDE DEF g
    <2>5. IsChain(t, s, g, k + 1)
      BY <2>3, <2>4 DEF IsChain
    <2> QED
      BY <2>5
  <1> HIDE DEF P
  <1>3. Nat \subseteq P
    BY <1>1, <1>2, Induct
  <1> QED
    BY <1>3 DEF P

\* What is saved later does not change a chain.
LEMMA ChainsAgree ==
  ASSUME NEW t, NEW s, NEW q, NEW f, NEW g, NEW m, NEW l,
         IsChain(t, s, f, m), IsChain(t, q, g, l), m \in Nat, l \in Nat, m <= l,
         \A v \in 1 .. m : s[v] = q[v]
  PROVE  \A v \in 0 .. m : f[v] = g[v]
  <1> DEFINE P == {n \in Nat : n <= m => f[n] = g[n]}
  <1>1. /\ \A v \in 0 .. m : f[v] = ChainStep(t, s, f, v)
        /\ \A v \in 0 .. l : g[v] = ChainStep(t, q, g, v)
    BY DEF IsChain
  <1>2. 0 \in P
    <2>1. f[0] = ChainStep(t, s, f, 0) /\ g[0] = ChainStep(t, q, g, 0)
      BY <1>1
    <2>2. f[0] = g[0]
      BY <2>1 DEF ChainStep
    <2> QED
      BY <2>2
  <1>3. ASSUME NEW n \in Nat, n \in P
        PROVE  n + 1 \in P
    <2> SUFFICES ASSUME n + 1 <= m PROVE f[n + 1] = g[n + 1]
      OBVIOUS
    <2>1. /\ n + 1 \in 0 .. m /\ n + 1 \in 0 .. l /\ n + 1 # 0 /\ n + 1 - 1 = n
          /\ n + 1 \in 1 .. m /\ f[n] = g[n]
      BY <1>3
    <2>2. PagesIn(s, n) = PagesIn(q, n)
      BY <2>1 DEF PagesIn
    <2>3. ChainStep(t, s, f, n + 1) = ChainStep(t, q, g, n + 1)
      BY <2>1, <2>2, StepsLookBack
    <2> QED
      BY <1>1, <2>1, <2>3
  <1> HIDE DEF P
  <1>4. Nat \subseteq P
    BY <1>2, <1>3, Induct
  <1> QED
    BY <1>4 DEF P

\* What a step can make of the chain before it.
StepOutcomes(was, old) ==
    {[past |-> <<>>, future |-> <<>>],
     [past |-> Append(was.past, old), future |-> <<>>],
     [past |-> Shortened(was.past), future |-> Append(was.future, old)],
     [past |-> Append(was.past, old), future |-> Shortened(was.future)]}

LEMMA StepsHaveOutcomes ==
  ASSUME NEW t, NEW s, NEW f, NEW v
  PROVE  ChainStep(t, s, f, v) \in StepOutcomes(f[v - 1], PagesIn(s, v - 1))
  BY DEF ChainStep, StepOutcomes

\* A chain holds pages.
ChainState == [past: Seq(Versions), future: Seq(Versions)]

LEMMA ChainsHoldPages ==
  ASSUME NEW t, NEW s \in Seq(Revision), NEW f, IsChain(t, s, f, Len(s))
  PROVE  \A v \in 0 .. Len(s) : f[v] \in ChainState
  <1> DEFINE P == {n \in Nat : n <= Len(s) => f[n] \in ChainState}
  <1>1. \A v \in 0 .. Len(s) : f[v] = ChainStep(t, s, f, v)
    BY DEF IsChain
  <1>2. Len(s) \in Nat /\ \A v \in 1 .. Len(s) : s[v] \in Revision
    OBVIOUS
  <1>3. [past |-> <<>>, future |-> <<>>] \in ChainState
    BY EmptySeq DEF ChainState
  <1>4. 0 \in P
    <2>1. f[0] = ChainStep(t, s, f, 0)
      BY <1>1, <1>2
    <2>2. f[0] = [past |-> <<>>, future |-> <<>>]
      BY <2>1 DEF ChainStep
    <2> QED
      BY <1>3, <2>2
  <1>5. ASSUME NEW n \in Nat, n \in P
        PROVE  n + 1 \in P
    <2> SUFFICES ASSUME n + 1 <= Len(s),
                        NEW was, was = f[n], NEW old, old = PagesIn(s, n)
                 PROVE  f[n + 1] \in ChainState
      OBVIOUS
    <2>1. n + 1 \in 0 .. Len(s) /\ n + 1 # 0 /\ n + 1 - 1 = n /\ was \in ChainState
      BY <1>2, <1>5
    <2>2. old \in Versions
      BY <1>2, <2>1, BoundsArePositive DEF PagesIn, Revision, Versions
    <2>3. was.past \in Seq(Versions) /\ was.future \in Seq(Versions)
      BY <2>1 DEF ChainState
    <2>4. /\ Append(was.past, old) \in Seq(Versions) /\ Append(was.future, old) \in Seq(Versions)
          /\ Shortened(was.past) \in Seq(Versions) /\ Shortened(was.future) \in Seq(Versions)
          /\ <<>> \in Seq(Versions)
      BY <2>2, <2>3, ShortenedKeeps, AppendProperties, EmptySeq
    <2>5. \A x, y \in Seq(Versions) : [past |-> x, future |-> y] \in ChainState
      BY DEF ChainState
    <2>6. StepOutcomes(was, old) \subseteq ChainState
      <3>1. /\ [past |-> <<>>, future |-> <<>>] \in ChainState
            /\ [past |-> Append(was.past, old), future |-> <<>>] \in ChainState
        BY <2>4, <2>5, Zenon
      <3>2. /\ [past |-> Shortened(was.past), future |-> Append(was.future, old)] \in ChainState
            /\ [past |-> Append(was.past, old), future |-> Shortened(was.future)] \in ChainState
        BY <2>4, <2>5, Zenon
      <3> QED
        BY <3>1, <3>2, Zenon DEF StepOutcomes
    <2>7. f[n + 1] = ChainStep(t, s, f, n + 1)
      BY <1>1, <2>1
    <2>8. ChainStep(t, s, f, n + 1) \in StepOutcomes(f[n + 1 - 1], PagesIn(s, n + 1 - 1))
      BY StepsHaveOutcomes
    <2>9. StepOutcomes(f[n + 1 - 1], PagesIn(s, n + 1 - 1)) = StepOutcomes(was, old)
      BY <2>1
    <2> QED
      BY <2>6, <2>7, <2>8, <2>9, Zenon
  <1> HIDE DEF P
  <1>6. Nat \subseteq P
    BY <1>4, <1>5, Induct
  <1> QED
    BY <1>2, <1>6 DEF P

\* A stack of versions has the pages at the end of a chain.
Leads(stack, s, c) ==
    /\ Len(stack) <= Len(c)
    /\ \A i \in 1 .. Len(stack) : PagesIn(s, stack[i]) = c[Len(c) - Len(stack) + i]

\* The last entries of a stack are its end.
LEMMA LastOfIsTheEnd ==
  ASSUME NEW S, NEW x \in Seq(S)
  PROVE  /\ LastOf(x) \in Seq(S) /\ Len(LastOf(x)) <= Len(x)
         /\ \A i \in 1 .. Len(LastOf(x)) : LastOf(x)[i] = x[Len(x) - Len(LastOf(x)) + i]
  <1> DEFINE m == IF Len(x) > UndoLimit THEN Len(x) - UndoLimit + 1 ELSE 1
             y == SubSeq(x, m, Len(x))
  <1>1. m \in 1 .. (Len(x) + 1) /\ m \in Int /\ Len(x) \in Nat
    BY BoundsArePositive, LenProperties
  <1>2. \A i \in m .. Len(x) : x[i] \in S
    BY <1>1, ElementOfSeq
  <1> HIDE DEF m
  <1>3. LastOf(x) = y
    BY DEF LastOf, m
  <1>4. /\ y \in Seq(S)
        /\ Len(y) = IF m <= Len(x) THEN Len(x) - m + 1 ELSE 0
        /\ \A i \in 1 .. (Len(x) - m + 1) : y[i] = x[m + i - 1]
    BY <1>1, <1>2, SubSeqProperties
  <1> HIDE DEF y
  <1>5. Len(y) = Len(x) - m + 1 /\ Len(y) <= Len(x) /\ Len(x) - Len(y) = m - 1
    BY <1>1, <1>4
  <1>6. ASSUME NEW i \in 1 .. Len(y) PROVE y[i] = x[Len(x) - Len(y) + i]
    <2>1. m + i - 1 = Len(x) - Len(y) + i
      BY <1>1, <1>5
    <2> QED
      BY <1>4, <1>5, <2>1
  <1> QED
    BY <1>3, <1>4, <1>5, <1>6

\* A stack without its top is one shorter, unless it was empty.
LEMMA ShortenedIsShorter ==
  ASSUME NEW S, NEW x \in Seq(S)
  PROVE  /\ Len(Shortened(x)) = IF Len(x) = 0 THEN 0 ELSE Len(x) - 1
         /\ \A i \in 1 .. Len(Shortened(x)) : Shortened(x)[i] = x[i]
  <1>1. Len(x) \in Nat
    BY LenProperties
  <1>2. \A i \in 1 .. (Len(x) - 1) : x[i] \in S
    BY <1>1, ElementOfSeq
  <1>3. /\ SubSeq(x, 1, Len(x) - 1) \in Seq(S)
        /\ Len(SubSeq(x, 1, Len(x) - 1)) = IF 1 <= Len(x) - 1 THEN Len(x) - 1 ELSE 0
        /\ \A i \in 1 .. (Len(x) - 1) : SubSeq(x, 1, Len(x) - 1)[i] = x[i]
    BY <1>1, <1>2, SubSeqProperties
  <1> QED
    BY <1>1, <1>3 DEF Shortened

\* Where an entry of a shorter end is.
LEMMA PlacesAtTheEnd ==
  ASSUME NEW a \in Nat, NEW b \in Nat, NEW e \in Nat, b <= a, NEW k \in 1 .. b
  PROVE  a - b + k \in 1 .. a /\ e - a + (a - b + k) = e - b + k
  OBVIOUS

LEMMA LastOfLeads ==
  ASSUME NEW s, NEW x \in Seq(Versions), NEW d \in Seq(Versions), Leads(x, s, d)
  PROVE  Leads(LastOf(x), s, d)
  <1> DEFINE y == LastOf(x)
  <1>1. /\ Len(y) <= Len(x) /\ Len(y) \in Nat /\ Len(x) \in Nat /\ Len(d) \in Nat
        /\ \A i \in 1 .. Len(y) : y[i] = x[Len(x) - Len(y) + i]
    BY LastOfIsTheEnd, LenProperties
  <1> HIDE DEF y
  <1>2. Len(x) <= Len(d) /\ \A i \in 1 .. Len(x) : PagesIn(s, x[i]) = d[Len(d) - Len(x) + i]
    BY DEF Leads
  <1>3. ASSUME NEW i \in 1 .. Len(y)
        PROVE  PagesIn(s, y[i]) = d[Len(d) - Len(y) + i]
    <2> DEFINE j == Len(x) - Len(y) + i
    <2>1. j \in 1 .. Len(x) /\ Len(d) - Len(x) + j = Len(d) - Len(y) + i
      BY <1>1, PlacesAtTheEnd
    <2>2. y[i] = x[j]
      BY <1>1
    <2> HIDE DEF j
    <2> QED
      BY <1>2, <2>1, <2>2
  <1>4. Len(y) <= Len(d)
    BY <1>1, <1>2
  <1> QED
    BY <1>3, <1>4 DEF Leads, y

LEMMA PushLeads ==
  ASSUME NEW s, NEW stack \in Seq(Versions), NEW c \in Seq(Versions), Leads(stack, s, c),
         NEW v \in Versions, NEW p \in Versions, p = PagesIn(s, v)
  PROVE  Leads(LastOf(Append(stack, v)), s, Append(c, p))
  <1> DEFINE x == Append(stack, v)
             d == Append(c, p)
  <1>1. /\ x \in Seq(Versions) /\ Len(x) = Len(stack) + 1 /\ x[Len(stack) + 1] = v
        /\ \A i \in 1 .. Len(stack) : x[i] = stack[i]
        /\ d \in Seq(Versions) /\ Len(d) = Len(c) + 1 /\ d[Len(c) + 1] = p
        /\ \A i \in 1 .. Len(c) : d[i] = c[i]
        /\ Len(c) \in Nat /\ Len(stack) \in Nat
    OBVIOUS
  <1>2. /\ Len(stack) <= Len(c)
        /\ \A i \in 1 .. Len(stack) : PagesIn(s, stack[i]) = c[Len(c) - Len(stack) + i]
    BY DEF Leads
  <1> HIDE DEF x, d
  <1>3. ASSUME NEW i \in 1 .. Len(x)
        PROVE  PagesIn(s, x[i]) = d[Len(d) - Len(x) + i]
    <2>1. CASE i = Len(stack) + 1
      <3>1. Len(d) - Len(x) + i = Len(c) + 1
        BY <1>1, <2>1
      <3> QED
        BY <1>1, <2>1, <3>1
    <2>2. CASE i # Len(stack) + 1
      <3>1. /\ i \in 1 .. Len(stack) /\ Len(d) - Len(x) + i = Len(c) - Len(stack) + i
            /\ Len(c) - Len(stack) + i \in 1 .. Len(c)
        BY <1>1, <1>2, <2>2
      <3> QED
        BY <1>1, <1>2, <3>1
    <2> QED
      BY <2>1, <2>2
  <1>4. Leads(x, s, d)
    BY <1>1, <1>2, <1>3 DEF Leads
  <1>5. Leads(LastOf(x), s, d)
    BY <1>1, <1>4, LastOfLeads
  <1> QED
    BY <1>5 DEF x, d

LEMMA PopLeads ==
  ASSUME NEW s, NEW stack \in Seq(Versions), NEW c \in Seq(Versions), Leads(stack, s, c)
  PROVE  Leads(Shortened(stack), s, Shortened(c))
  <1> DEFINE x == Shortened(stack)
             d == Shortened(c)
  <1>1. /\ Len(x) = IF Len(stack) = 0 THEN 0 ELSE Len(stack) - 1
        /\ \A i \in 1 .. Len(x) : x[i] = stack[i]
        /\ Len(d) = IF Len(c) = 0 THEN 0 ELSE Len(c) - 1
        /\ \A i \in 1 .. Len(d) : d[i] = c[i]
        /\ Len(c) \in Nat /\ Len(stack) \in Nat
    BY ShortenedIsShorter, LenProperties
  <1>2. /\ Len(stack) <= Len(c)
        /\ \A i \in 1 .. Len(stack) : PagesIn(s, stack[i]) = c[Len(c) - Len(stack) + i]
    BY DEF Leads
  <1> HIDE DEF x, d
  <1>3. Len(x) <= Len(d)
    BY <1>1, <1>2
  <1>4. ASSUME NEW i \in 1 .. Len(x)
        PROVE  PagesIn(s, x[i]) = d[Len(d) - Len(x) + i]
    <2>1. /\ Len(x) = Len(stack) - 1 /\ Len(d) = Len(c) - 1
          /\ i \in 1 .. (Len(stack) - 1) /\ i \in 1 .. Len(stack)
      BY <1>1, <1>2
    <2> DEFINE j == Len(c) - Len(stack) + i
    <2>2. Len(d) - Len(x) + i = j /\ j \in 1 .. Len(d)
      <3>1. \A a, b \in Nat : \A k \in 1 .. b - 1 : b <= a =>
               (a - 1) - (b - 1) + k = a - b + k /\ a - b + k \in 1 .. a - 1
        OBVIOUS
      <3> QED
        BY <1>1, <1>2, <2>1, <3>1
    <2>3. PagesIn(s, stack[i]) = c[j]
      BY <1>2, <2>1
    <2> HIDE DEF j
    <2> QED
      BY <1>1, <2>2, <2>3
  <1> QED
    BY <1>3, <1>4 DEF Leads, x, d

\* The stacks of an undo state lead through the chain of tab t.
Followed(t, s, u) ==
    \E f : /\ IsChain(t, s, f, Len(s))
           /\ Leads(u.undo, s, f[u.version].past) /\ Leads(u.redo, s, f[u.version].future)

\* An answer leads a tab's stacks one version along its chain.
LEMMA FollowedAdvances ==
  ASSUME NEW t, NEW s \in Seq(Revision), Len(s) <= MaxVersion,
         NEW u \in UndoState, Followed(t, s, u),
         NEW v \in 1 .. Len(s), s[v].by = t,
         NEW p, p = v - 1, NEW intent, intent = s[v].intent
  PROVE  Followed(t, s, Advanced(u, p, v, intent))
  <1>1. PICK f : /\ IsChain(t, s, f, Len(s))
                 /\ Leads(u.undo, s, f[u.version].past)
                 /\ Leads(u.redo, s, f[u.version].future)
    BY DEF Followed
  <1>2. Len(s) \in Nat /\ p \in 0 .. Len(s) /\ v \in 0 .. Len(s) /\ v # 0 /\ v > 0
        /\ intent \in {"edit", "undo", "redo"}
    <2>1. Len(s) \in Nat /\ \A w \in 1 .. Len(s) : s[w] \in Revision
      OBVIOUS
    <2> QED
      BY <2>1 DEF Revision
  <1>3. f[p] \in ChainState
    BY <1>1, <1>2, ChainsHoldPages
  <1>4. PagesIn(s, p) \in Versions /\ p \in Versions
    <2>1. \A w \in 1 .. Len(s) : s[w].pages \in Versions
      <3>1. \A w \in 1 .. Len(s) : s[w] \in Revision
        OBVIOUS
      <3> QED
        BY <3>1 DEF Revision
    <2>2. p # 0 => p \in 1 .. Len(s)
      BY <1>2
    <2>3. p \in Versions /\ 0 \in Versions
      BY <1>2, BoundsArePositive DEF Versions
    <2> QED
      BY <2>1, <2>2, <2>3 DEF PagesIn
  <1> DEFINE now == Current(u, p)
             past == f[p].past
             future == f[p].future
             old == PagesIn(s, p)
  <1>5. past \in Seq(Versions) /\ future \in Seq(Versions)
    BY <1>3 DEF ChainState
  <1>6. \A c \in Seq(Versions) : Leads(<<>>, s, c)
    BY DEF Leads
  <1>7. /\ now.undo \in Seq(Versions) /\ now.redo \in Seq(Versions)
        /\ Leads(now.undo, s, past) /\ Leads(now.redo, s, future)
    <2>1. CASE u.version = p
      BY <1>1, <2>1 DEF Current, UndoState
    <2>2. CASE u.version # p
      BY <1>5, <1>6, <2>2, EmptySeq DEF Current, EmptyUndo
    <2> QED
      BY <2>1, <2>2
  <1> DEFINE a == Advanced(u, p, v, intent)
  <1>8. /\ a.version = v
        /\ a.undo = IF intent = "undo" THEN Shortened(now.undo) ELSE LastOf(Append(now.undo, p))
        /\ intent = "edit" => a.redo = <<>>
        /\ intent = "undo" => a.redo = LastOf(Append(now.redo, p))
        /\ intent = "redo" => a.redo = Shortened(now.redo)
    BY <1>2 DEF Advanced
  <1>9. f[v] = ChainStep(t, s, f, v)
    BY <1>1, <1>2 DEF IsChain
  <1>10. /\ intent = "edit" => f[v] = [past |-> Append(past, old), future |-> <<>>]
         /\ intent = "undo" => f[v] = [past |-> Shortened(past), future |-> Append(future, old)]
         /\ intent = "redo" => f[v] = [past |-> Append(past, old), future |-> Shortened(future)]
    BY <1>2, <1>9 DEF ChainStep
  <1> HIDE DEF now, past, future, old, a
  <1>11. /\ Leads(LastOf(Append(now.undo, p)), s, Append(past, old))
         /\ Leads(LastOf(Append(now.redo, p)), s, Append(future, old))
         /\ Leads(Shortened(now.undo), s, Shortened(past))
         /\ Leads(Shortened(now.redo), s, Shortened(future))
    <2>1. old \in Versions /\ old = PagesIn(s, p)
      BY <1>4 DEF old
    <2> QED
      BY <1>4, <1>5, <1>7, <2>1, PushLeads, PopLeads
  <1>12. Leads(a.undo, s, f[v].past) /\ Leads(a.redo, s, f[v].future)
    <2>1. CASE intent = "edit"
      <3>1. f[v].past = Append(past, old) /\ f[v].future = <<>>
        BY <1>10, <2>1
      <3>2. a.undo = LastOf(Append(now.undo, p)) /\ a.redo = <<>>
        BY <1>8, <2>1
      <3> QED
        BY <1>6, <1>11, <3>1, <3>2, EmptySeq
    <2>2. CASE intent = "undo"
      <3>1. f[v].past = Shortened(past) /\ f[v].future = Append(future, old)
        BY <1>10, <2>2
      <3>2. a.undo = Shortened(now.undo) /\ a.redo = LastOf(Append(now.redo, p))
        BY <1>8, <2>2
      <3> QED
        BY <1>11, <3>1, <3>2
    <2>3. CASE intent = "redo"
      <3>1. f[v].past = Append(past, old) /\ f[v].future = Shortened(future)
        BY <1>10, <2>3
      <3>2. a.undo = LastOf(Append(now.undo, p)) /\ a.redo = Shortened(now.redo)
        BY <1>8, <2>3
      <3> QED
        BY <1>11, <3>1, <3>2
    <2> QED
      BY <1>2, <2>1, <2>2, <2>3
  <1>13. Followed(t, s, a)
    BY <1>1, <1>8, <1>12 DEF Followed
  <1> QED
    BY <1>13 DEF a

\* What is saved later leaves the stacks where they are.
LEMMA FollowedGrows ==
  ASSUME NEW t, NEW s, NEW q, Len(s) \in Nat, Len(q) \in Nat, Len(s) <= Len(q),
         \A w \in 1 .. Len(s) : s[w] = q[w],
         NEW u, Followed(t, s, u), u.version \in 0 .. Len(s),
         \A i \in 1 .. Len(u.undo) : u.undo[i] \in 0 .. Len(s),
         \A i \in 1 .. Len(u.redo) : u.redo[i] \in 0 .. Len(s)
  PROVE  Followed(t, q, u)
  <1>1. PICK f : /\ IsChain(t, s, f, Len(s))
                 /\ Leads(u.undo, s, f[u.version].past)
                 /\ Leads(u.redo, s, f[u.version].future)
    BY DEF Followed
  <1>2. PICK g : IsChain(t, q, g, Len(q))
    BY ChainsExist
  <1>3. \A w \in 0 .. Len(s) : f[w] = g[w]
    BY <1>1, <1>2, ChainsAgree
  <1>4. \A w \in 0 .. Len(s) : PagesIn(s, w) = PagesIn(q, w)
    BY DEF PagesIn
  <1>5. /\ Leads(u.undo, q, g[u.version].past)
        /\ Leads(u.redo, q, g[u.version].future)
    BY <1>1, <1>3, <1>4 DEF Leads
  <1> QED
    BY <1>2, <1>5 DEF Followed

\* The chain of the specification is the one of the ledger.
LEMMA ChainOfTheLedger ==
  ASSUME NEW t, Latest \in Nat
  PROVE  IsChain(t, saved, Chain(t), Latest)
  <1> DEFINE chain == CHOOSE f : f = [v \in 0 .. Latest |-> ChainStep(t, saved, f, v)]
  <1>1. Chain(t) = chain
    BY DEF Chain, ChainStep, PagesIn, PagesAt
  <1>2. \E f : f = [v \in 0 .. Latest |-> ChainStep(t, saved, f, v)]
    BY ChainsExist DEF IsChain
  <1>3. chain = [v \in 0 .. Latest |-> ChainStep(t, saved, chain, v)]
    BY <1>2, Zenon
  <1> QED
    BY <1>1, <1>3 DEF IsChain

\* A stack that leads through a chain has its pages as a suffix of it.
LEMMA LeadsIsSuffix ==
  ASSUME NEW stack \in Seq(Versions), NEW c \in Seq(Versions), Leads(stack, saved, c)
  PROVE  IsSuffix(PagesOf(stack), c)
  <1> DEFINE a == Reverse(PagesOf(stack))
             b == Reverse(c)
             n == Len(stack)
  <1>1. /\ n \in Nat /\ Len(c) \in Nat /\ n <= Len(c)
        /\ \A i \in 1 .. n : PagesAt(stack[i]) = c[Len(c) - n + i]
        /\ \A i \in 1 .. Len(c) : c[i] \in Versions
    BY LenProperties, ElementOfSeq DEF Leads, PagesIn, PagesAt
  <1>2. PagesOf(stack) = [i \in 1 .. n |-> PagesAt(stack[i])]
    BY DEF PagesOf
  <1>3. Len(PagesOf(stack)) = n
    BY <1>1, <1>2
  <1>4. /\ a = [i \in 1 .. n |-> PagesAt(stack[(n - i) + 1])]
        /\ b = [i \in 1 .. Len(c) |-> c[(Len(c) - i) + 1]]
    BY <1>1, <1>2, <1>3 DEF Reverse
  <1> HIDE DEF a, b, n
  <1>5. ASSUME NEW i \in 1 .. n
        PROVE  i \in 1 .. Len(c) /\ a[i] = b[i] /\ a[i] \in Versions
    <2>1. /\ (n - i) + 1 \in 1 .. n /\ i \in 1 .. Len(c) /\ (Len(c) - i) + 1 \in 1 .. Len(c)
          /\ Len(c) - n + ((n - i) + 1) = (Len(c) - i) + 1
      BY <1>1
    <2>2. PagesAt(stack[(n - i) + 1]) = c[(Len(c) - i) + 1]
      BY <1>1, <2>1
    <2> QED
      BY <1>1, <1>4, <2>1, <2>2
  <1>6. /\ a \in Seq(Versions) /\ Len(a) = n /\ Len(b) = Len(c)
    <2>1. Len(a) = n /\ Len(b) = Len(c)
      BY <1>1, <1>4
    <2>2. a = [i \in 1 .. n |-> a[i]]
      BY <1>4
    <2>3. a \in [1 .. n -> Versions]
      BY <1>5, <2>2
    <2> QED
      BY <1>1, <2>1, <2>3
  <1>7. \A i \in 1 .. n : b[i] \in Versions
    BY <1>5
  <1>8. SubSeq(a, 1, n) = a
    BY <1>6, SubSeqFull
  <1>9. /\ SubSeq(b, 1, n) \in Seq(Versions) /\ Len(SubSeq(b, 1, n)) = n
        /\ \A i \in 1 .. n : SubSeq(b, 1, n)[i] = b[i]
    <2>1. /\ SubSeq(b, 1, n) \in Seq(Versions)
          /\ Len(SubSeq(b, 1, n)) = IF 1 <= n THEN n - 1 + 1 ELSE 0
          /\ \A i \in 1 .. n - 1 + 1 : SubSeq(b, 1, n)[i] = b[1 + i - 1]
      BY <1>1, <1>7, SubSeqProperties
    <2> QED
      BY <1>1, <2>1
  <1>10. SubSeq(b, 1, n) = a
    BY <1>5, <1>6, <1>9, SeqEqual
  <1>11. IsPrefix(a, b)
    BY <1>1, <1>6, <1>8, <1>10 DEF IsPrefix
  <1> QED
    BY <1>11 DEF IsSuffix, a, b

\* Every tab's stacks lead through its chain.
TabsFollowed == \A t \in Tabs : Followed(t, saved, undo[t])

LEMMA InitFollowed ==
  ASSUME Init
  PROVE  TabsFollowed
  <1> SUFFICES ASSUME NEW t \in Tabs PROVE Followed(t, saved, undo[t])
    BY DEF TabsFollowed
  <1>1. saved = <<>> /\ Len(saved) = 0 /\ undo[t] = EmptyUndo
    BY DEF Init
  <1>2. PICK f : IsChain(t, saved, f, 0)
    BY ChainsExist
  <1>3. f[0] = [past |-> <<>>, future |-> <<>>]
    <2>1. f[0] = ChainStep(t, saved, f, 0)
      BY <1>2 DEF IsChain
    <2> QED
      BY <2>1 DEF ChainStep
  <1>4. Leads(<<>>, saved, <<>>)
    BY DEF Leads
  <1> QED
    BY <1>1, <1>2, <1>3, <1>4 DEF Followed, EmptyUndo

LEMMA SavingKeepsFollowed ==
  ASSUME LayoutsInv, TabsFollowed, NEW r, saved' = Append(saved, r), undo' = undo
  PROVE  TabsFollowed'
  <1> SUFFICES ASSUME NEW t \in Tabs, NEW q, q = saved' PROVE Followed(t, q, undo[t])
    BY DEF TabsFollowed
  <1>1. /\ TypeOK /\ undo[t] \in UndoState /\ undo[t].version <= Latest
        /\ OnlyTheTabSince(t, undo[t].undo) /\ OnlyTheTabSince(t, undo[t].redo)
    BY DEF LayoutsInv, TypeOK, TabsHoldThePast
  <1>2. /\ Len(saved) \in Nat /\ Len(q) \in Nat /\ Len(saved) <= Len(q) /\ Latest = Len(saved)
        /\ \A w \in 1 .. Len(saved) : saved[w] = q[w]
    <2>1. saved \in Seq(Revision \cup {r}) /\ r \in Revision \cup {r}
      BY <1>1 DEF TypeOK
    <2> QED
      BY <2>1, AppendProperties, LenProperties DEF Latest
  <1>3. undo[t].version \in 0 .. Len(saved)
    BY <1>1, <1>2 DEF UndoState, Versions
  <1>4. \A stack \in Seq(Versions) : OnlyTheTabSince(t, stack) =>
           \A i \in 1 .. Len(stack) : stack[i] \in 0 .. Len(saved)
    <2> SUFFICES ASSUME NEW stack \in Seq(Versions), OnlyTheTabSince(t, stack),
                        NEW i \in 1 .. Len(stack)
                 PROVE  stack[i] \in 0 .. Len(saved)
      OBVIOUS
    <2>1. stack[i] \in Versions /\ stack[i] <= undo[t].version
      BY ElementOfSeq DEF OnlyTheTabSince
    <2> QED
      BY <1>2, <1>3, <2>1 DEF Versions
  <1>5. /\ \A i \in 1 .. Len(undo[t].undo) : undo[t].undo[i] \in 0 .. Len(saved)
        /\ \A i \in 1 .. Len(undo[t].redo) : undo[t].redo[i] \in 0 .. Len(saved)
    BY <1>1, <1>4 DEF UndoState
  <1>6. Followed(t, saved, undo[t])
    BY DEF TabsFollowed
  <1> QED
    BY <1>2, <1>3, <1>5, <1>6, FollowedGrows

LEMMA AcceptKeepsFollowed ==
  ASSUME LayoutsInv, TabsFollowed, NEW t \in Tabs, NEW v \in answers[t], Accept(t, v)
  PROVE  TabsFollowed'
  <1>1. /\ TypeOK /\ saved' = saved /\ saved \in Seq(Revision) /\ Len(saved) <= MaxVersion
        /\ v \in 1 .. Len(saved) /\ saved[v].by = t
    BY DEF LayoutsInv, TypeOK, TabsHoldThePast, Accept, Latest
  <1>2. ASSUME NEW p, p = v - 1, NEW intent, intent = saved[v].intent
        PROVE  Followed(t, saved, Advanced(undo[t], p, v, intent))
    <2>1. Followed(t, saved, undo[t]) /\ undo[t] \in UndoState
      BY <1>1 DEF TabsFollowed, TypeOK
    <2> QED
      BY <1>1, <1>2, <2>1, FollowedAdvances
  <1>3. Followed(t, saved, Advanced(undo[t], v - 1, v, saved[v].intent))
    BY <1>2
  <1>4. undo' = undo \/ undo' = [undo EXCEPT ![t] = Advanced(@, v - 1, v, saved[v].intent)]
    BY DEF Accept
  <1>5. undo \in [Tabs -> UndoState]
    BY <1>1 DEF TypeOK
  <1>6. \A x \in Tabs : Followed(x, saved, undo'[x])
    BY <1>3, <1>4, <1>5 DEF TabsFollowed
  <1> QED
    BY <1>1, <1>6 DEF TabsFollowed

LEMMA StepsKeepFollowed ==
  ASSUME LayoutsInv, TabsFollowed, [Next]_vars
  PROVE  TabsFollowed'
  <1>1. CASE saved' = saved /\ undo' = undo
    BY <1>1 DEF TabsFollowed
  <1>2. CASE \E r : saved' = Append(saved, r) /\ undo' = undo
    BY <1>2, SavingKeepsFollowed
  <1>3. CASE UNCHANGED vars
    BY <1>1, <1>3 DEF vars
  <1>4. ASSUME NEW t \in Tabs, NEW pages, NEW intent, NEW from, Saved(t, pages, intent, from)
        PROVE  TabsFollowed'
    BY <1>2, <1>4 DEF Saved
  <1>5. ASSUME NEW t \in Tabs,
               \/ BeginRead(t) \/ EndRead(t) \/ Update(t)
               \/ \E v \in Versions : Restore(t, v)
               \/ \E intent \in {"undo", "redo"} : Rewind(t, intent)
        PROVE  TabsFollowed'
    BY <1>1, <1>4, <1>5 DEF BeginRead, EndRead, Update, Restore, Rewind
  <1>6. ASSUME NEW c \in Clients, NEW v \in Versions, SaveElsewhere(c, v)
        PROVE  TabsFollowed'
    BY <1>2, <1>6 DEF SaveElsewhere
  <1> QED
    BY <1>3, <1>5, <1>6, AcceptKeepsFollowed DEF Next

\* Undo and redo move along the tab's own latest changes (advanceLayoutUndo and
\* acceptLayout), whichever answers are lost or late, for any number of tabs and
\* clients, and any limit of the stacks.
THEOREM StacksKeepTheirChain == Spec => []StacksFollowTheirTab
  <1>1. Init => TabsFollowed
    BY InitFollowed
  <1>2. LayoutsInv /\ TabsFollowed /\ [Next]_vars => TabsFollowed'
    BY StepsKeepFollowed
  <1>3. LayoutsInv /\ TabsFollowed => StacksFollowTheirTab
    <2> SUFFICES ASSUME LayoutsInv, TabsFollowed, NEW t \in Tabs,
                        NEW c, c = Chain(t)[undo[t].version]
                 PROVE  /\ IsSuffix(PagesOf(undo[t].undo), c.past)
                        /\ IsSuffix(PagesOf(undo[t].redo), c.future)
      BY DEF StacksFollowTheirTab
    <2>1. /\ TypeOK /\ undo[t] \in UndoState /\ undo[t].version <= Latest
          /\ saved \in Seq(Revision) /\ Latest = Len(saved) /\ Latest \in Nat
      BY LenProperties DEF LayoutsInv, TypeOK, TabsHoldThePast, Latest
    <2>2. undo[t].version \in 0 .. Latest
      BY <2>1 DEF UndoState, Versions
    <2>3. PICK f : /\ IsChain(t, saved, f, Latest)
                   /\ Leads(undo[t].undo, saved, f[undo[t].version].past)
                   /\ Leads(undo[t].redo, saved, f[undo[t].version].future)
      BY <2>1 DEF TabsFollowed, Followed
    <2>4. IsChain(t, saved, Chain(t), Latest)
      BY <2>1, ChainOfTheLedger
    <2>5. c = f[undo[t].version]
      <3>1. \A v \in 0 .. Latest : f[v] = Chain(t)[v]
        BY <2>1, <2>3, <2>4, ChainsAgree
      <3> QED
        BY <2>2, <3>1
    <2>6. c.past \in Seq(Versions) /\ c.future \in Seq(Versions)
      <3>1. c \in ChainState
        BY <2>1, <2>2, <2>3, <2>5, ChainsHoldPages
      <3> QED
        BY <3>1 DEF ChainState
    <2>7. undo[t].undo \in Seq(Versions) /\ undo[t].redo \in Seq(Versions)
      BY <2>1 DEF UndoState
    <2> QED
      BY <2>3, <2>5, <2>6, <2>7, LeadsIsSuffix
  <1> QED
    BY <1>1, <1>2, <1>3, LayoutsKeepTheirInvariant, PTL DEF Spec

=============================================================================
