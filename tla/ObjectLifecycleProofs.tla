----------------------- MODULE ObjectLifecycleProofs -----------------------
(***************************************************************************)
(* Proofs about ObjectLifecycle, for any number of objects, sections,      *)
(* spaces and versions.  One lemma per action shows that it keeps the      *)
(* inductive invariant LifecycleInv: it first says what the action leaves  *)
(* in each field of each row, and every conjunct follows from that.        *)
(***************************************************************************)
EXTENDS ObjectLifecycle, TLAPS

Assumptions == TypesAreDisjoint /\ SectionsHaveEvents /\ NoneIsNothing /\ VersionsArePositive

LEMMA Constants == Assumptions
BY TypesAreDisjoint, SectionsHaveEvents, NoneIsNothing, VersionsArePositive DEF Assumptions

-----------------------------------------------------------------------------
(* The writes of one row.                                                  *)

\* A row whose version may still step has its type after any of the writes.
LEMMA WritesKeepType ==
    ASSUME NEW row \in Row, row.version < MaxVersion
    PROVE  /\ \A p \in Tasks \cup {None}, s \in Sections \cup {None} :
                 Stepped([row EXCEPT !.parent = p, !.section = s]) \in Row
           /\ \A w \in Tasks \cup {None} : ToTrash(row, w) \in Row
           /\ Back(row) \in Row
           /\ \A sc \in Objects : Stepped([row EXCEPT !.scope = sc]) \in Row
<1>1. row.version + 1 \in 1 .. MaxVersion
  BY Constants DEF Row, Assumptions
<1>2. ASSUME NEW p \in Tasks \cup {None}, NEW s \in Sections \cup {None}
      PROVE  Stepped([row EXCEPT !.parent = p, !.section = s]) \in Row
  BY <1>1 DEF Row, Stepped
<1>3. ASSUME NEW w \in Tasks \cup {None}
      PROVE  ToTrash(row, w) \in Row
  BY <1>1 DEF Row, Stepped, ToTrash
<1>4. Back(row) \in Row
  BY <1>1 DEF Row, Stepped, Back
<1>5. ASSUME NEW sc \in Objects
      PROVE  Stepped([row EXCEPT !.scope = sc]) \in Row
  BY <1>1 DEF Row, Stepped
<1>6. QED
  BY <1>2, <1>3, <1>4, <1>5

-----------------------------------------------------------------------------
(* Each action keeps the invariant.                                        *)

LEMMA InitKeeps == Init => LifecycleInv
<1> SUFFICES ASSUME Init PROVE LifecycleInv
  OBVIOUS
<1>1. Created = {}
  BY DEF Init, Created
<1>2. TypeOK
  BY <1>1, SMT DEF Init, TypeOK, Created
<1>3. MarksAreHistory
  BY <1>1, SMT DEF Init, MarksAreHistory
<1>4. QED
  BY <1>1, <1>2, <1>3
     DEF Init, LifecycleInv, OneLevelDeep, NoLiveOrphan, MarksAreCurrent, DraftIsPast

LEMMA CreateKeeps ==
    ASSUME LifecycleInv,
           NEW o \in Objects, NEW space \in Spaces, NEW scope \in Objects,
           NEW parent \in Tasks \cup {None}, NEW section \in Sections \cup {None},
           Create(o, space, scope, parent, section)
    PROVE  LifecycleInv'
<1> DEFINE new == [space |-> space, scope |-> scope, live |-> TRUE, version |-> 1,
                   parent |-> parent, deletedWith |-> None, section |-> section]
<1> USE Constants
<1>1. /\ rows' = [x \in Created \cup {o} |-> IF x = o THEN new ELSE rows[x]]
      /\ o \notin Created
      /\ UNCHANGED <<sections, draft, taken>>
  BY DEF Create
<1>2. Created' = Created \cup {o}
  BY <1>1 DEF Created
<1>3. \A x \in Created : rows'[x] = rows[x]
  BY <1>1
<1>4. rows'[o] = new
  BY <1>1
<1>5. /\ rows'[o].parent = parent /\ rows'[o].live = TRUE /\ rows'[o].space = space
      /\ rows'[o].deletedWith = None
  BY <1>4
<1>6. parent # None =>
         /\ o \in Tasks /\ parent \in Created /\ parent # o
         /\ rows[parent].live /\ rows[parent].space = space /\ rows[parent].parent = None
  BY DEF Create, ParentAllowed, LiveIn, In, Objects, Assumptions
<1>7. \A c \in Created : rows[c].parent # None =>
         c \in Tasks /\ rows[c].parent \in Created /\ rows[c].parent # o
  BY <1>1 DEF LifecycleInv, OneLevelDeep
<1>8. TypeOK'
  <2>1. new \in Row
    BY DEF Row, Assumptions
  <2>2. rows' \in [Created' -> Row]
    BY <1>1, <1>2, <2>1 DEF LifecycleInv, TypeOK
  <2>3. QED
    BY <1>1, <1>2, <2>2 DEF LifecycleInv, TypeOK
<1>9. OneLevelDeep'
  BY <1>2, <1>3, <1>5, <1>6, <1>7 DEF LifecycleInv, OneLevelDeep
<1>10. NoLiveOrphan'
  BY <1>2, <1>3, <1>5, <1>6, <1>7 DEF LifecycleInv, NoLiveOrphan
<1>11. MarksAreCurrent'
  <2>1. SUFFICES ASSUME NEW c \in Created', rows'[c].deletedWith # None
                 PROVE  /\ rows'[c].deletedWith = rows'[c].parent
                        /\ ~ rows'[c].live
                        /\ rows'[rows'[c].parent].live = FALSE
    BY DEF MarksAreCurrent
  <2>2. c \in Created /\ rows'[c] = rows[c]
    BY <1>2, <1>3, <1>5, <2>1
  <2>3. /\ rows[c].deletedWith = rows[c].parent /\ ~ rows[c].live
        /\ rows[rows[c].parent].live = FALSE
    BY <2>1, <2>2 DEF LifecycleInv, MarksAreCurrent
  <2>4. rows[c].parent \in Created
    BY <1>7, <2>1, <2>2, <2>3
  <2>5. QED
    BY <1>3, <2>2, <2>3, <2>4
<1>12. MarksAreHistory'
  <2>1. \A p \in Created \cap Tasks :
           {c \in Created' : rows'[c].deletedWith = p} = {c \in Created : rows[c].deletedWith = p}
    BY <1>1, <1>2, <1>3, <1>5 DEF Assumptions, Objects
  <2>2. SUFFICES ASSUME NEW p \in Created' \cap Tasks, ~ rows'[p].live
                 PROVE  taken'[p] = {c \in Created' : rows'[c].deletedWith = p}
    BY DEF MarksAreHistory
  <2>3. p \in Created \cap Tasks /\ ~ rows[p].live
    BY <1>2, <1>3, <1>5, <2>2
  <2>4. QED
    BY <1>1, <2>1, <2>3 DEF LifecycleInv, MarksAreHistory
<1>13. DraftIsPast'
  BY <1>1, <1>2, <1>3 DEF LifecycleInv, DraftIsPast
<1>14. QED
  BY <1>8, <1>9, <1>10, <1>11, <1>12, <1>13 DEF LifecycleInv

LEMMA OpenEditKeeps ==
    ASSUME LifecycleInv, NEW t \in Tasks, OpenEdit(t)
    PROVE  LifecycleInv'
<1>1. /\ UNCHANGED <<rows, sections, taken>> /\ t \in Created
      /\ draft' = [task |-> t, read |-> rows[t]]
  BY DEF OpenEdit
<1>2. rows[t] \in Row
  BY <1>1 DEF LifecycleInv, TypeOK
<1>3. draft'.task = t /\ draft'.read = rows[t]
  BY <1>1
<1>4. rows[t].version <= rows[t].version
  BY <1>2, Constants DEF Row, Assumptions
<1>5. Created' = Created
  BY <1>1 DEF Created
<1>6. TypeOK'
  BY <1>1, <1>2, <1>5 DEF LifecycleInv, TypeOK
<1>7. DraftIsPast'
  BY <1>1, <1>3, <1>4, <1>5 DEF DraftIsPast
<1>8. QED
  BY <1>1, <1>5, <1>6, <1>7
     DEF LifecycleInv, OneLevelDeep, NoLiveOrphan, MarksAreCurrent, MarksAreHistory

LEMMA DropEditKeeps ==
    ASSUME LifecycleInv, DropEdit
    PROVE  LifecycleInv'
<1>1. UNCHANGED <<rows, sections, taken>> /\ draft' = None
  BY DEF DropEdit
<1>2. Created' = Created
  BY <1>1 DEF Created
<1>3. QED
  BY <1>1, <1>2
     DEF LifecycleInv, TypeOK, OneLevelDeep, NoLiveOrphan, MarksAreCurrent,
         MarksAreHistory, DraftIsPast

LEMMA SaveEditKeeps ==
    ASSUME LifecycleInv,
           NEW parent \in Tasks \cup {None}, NEW section \in Sections \cup {None},
           SaveEdit(parent, section)
    PROVE  LifecycleInv'
<1> DEFINE t    == draft.task
           read == draft.read
           new  == Stepped([rows[t] EXCEPT !.parent = parent, !.section = section])
<1> USE Constants
<1>1. /\ rows' = [rows EXCEPT ![t] = new]
      /\ draft # None /\ draft' = None /\ UNCHANGED <<sections, taken>>
  BY DEF SaveEdit
<1>2. t \in Tasks /\ t \in Created /\ rows[t] \in Row
  BY <1>1 DEF LifecycleInv, TypeOK, DraftIsPast
<1>3. /\ rows[t].live /\ rows[t].space = read.space /\ rows[t].parent = read.parent
      /\ rows[t].version < MaxVersion
  BY <1>1 DEF SaveEdit, StillAsRead, LiveIn, In, MayStep, LifecycleInv, DraftIsPast
<1>4. Created' = Created
  BY <1>1 DEF Created
<1>5. \A x \in Created : x # t => rows'[x] = rows[x]
  BY <1>1, <1>2 DEF Created
<1>6. rows'[t] = new
  BY <1>1, <1>2 DEF Created
<1>7. /\ new \in Row /\ new.parent = parent /\ new.live = rows[t].live
      /\ new.space = rows[t].space /\ new.deletedWith = rows[t].deletedWith
  <2>1. new \in Row
    BY <1>2, <1>3, WritesKeepType
  <2>2. QED
    BY <1>2, <2>1 DEF Row, Stepped
<1>8. parent # None /\ parent # rows[t].parent =>
         /\ parent \in Created /\ parent # t
         /\ rows[parent].live /\ rows[parent].space = rows[t].space
         /\ rows[parent].parent = None
         /\ \A c \in Created : rows[c].parent = t => rows[c].space # rows[t].space
  BY <1>1, <1>3 DEF SaveEdit, ParentAllowed, LiveIn, In, Subtasks
<1>9. rows[t].deletedWith = None
  BY <1>2, <1>3 DEF LifecycleInv, MarksAreCurrent
<1>10. TypeOK'
  <2>1. rows' \in [Created' -> Row]
    BY <1>1, <1>2, <1>4, <1>7 DEF LifecycleInv, TypeOK
  <2>2. QED
    BY <1>1, <1>4, <2>1 DEF LifecycleInv, TypeOK
<1>11. \A c \in Created : rows[c].parent # None =>
          /\ c \in Tasks /\ rows[c].parent \in Created
          /\ rows[rows[c].parent].parent = None
          /\ rows[rows[c].parent].space = rows[c].space
  BY DEF LifecycleInv, OneLevelDeep
<1>12. OneLevelDeep'
  <2>1. SUFFICES ASSUME NEW c \in Created, rows'[c].parent # None
                 PROVE  /\ c \in Tasks /\ rows'[c].parent \in Created
                        /\ rows'[rows'[c].parent].parent = None
                        /\ rows'[rows'[c].parent].space = rows'[c].space
    BY <1>4 DEF OneLevelDeep
  <2>2. CASE c = t
    BY <1>2, <1>5, <1>6, <1>7, <1>8, <1>11, <2>1, <2>2
  <2>3. CASE c # t
    <3>1. rows'[c] = rows[c]
      BY <1>5, <2>3
    <3>2. CASE rows[c].parent = t
      BY <1>2, <1>6, <1>7, <1>8, <1>11, <2>1, <3>1, <3>2
    <3>3. CASE rows[c].parent # t
      BY <1>5, <1>11, <2>1, <3>1, <3>3
    <3>4. QED
      BY <3>2, <3>3
  <2>4. QED
    BY <2>2, <2>3
<1>13. NoLiveOrphan'
  <2>1. SUFFICES ASSUME NEW c \in Created, rows'[c].live, rows'[c].parent # None
                 PROVE  rows'[rows'[c].parent].live
    BY <1>4 DEF NoLiveOrphan
  <2>2. \A x \in Created : rows'[x].live = rows[x].live
    BY <1>5, <1>6, <1>7
  <2>3. CASE c = t
    BY <1>2, <1>3, <1>6, <1>7, <1>8, <1>11, <2>1, <2>2, <2>3 DEF LifecycleInv, NoLiveOrphan
  <2>4. CASE c # t
    BY <1>5, <1>11, <2>1, <2>2, <2>4 DEF LifecycleInv, NoLiveOrphan
  <2>5. QED
    BY <2>3, <2>4
<1>14. MarksAreCurrent'
  <2>1. SUFFICES ASSUME NEW c \in Created, rows'[c].deletedWith # None
                 PROVE  /\ rows'[c].deletedWith = rows'[c].parent
                        /\ ~ rows'[c].live
                        /\ rows'[rows'[c].parent].live = FALSE
    BY <1>4 DEF MarksAreCurrent
  <2>2. c # t
    BY <1>6, <1>7, <1>9, <2>1
  <2>3. /\ rows'[c] = rows[c] /\ rows[c].deletedWith = rows[c].parent /\ ~ rows[c].live
        /\ rows[rows[c].parent].live = FALSE
    BY <1>5, <2>1, <2>2 DEF LifecycleInv, MarksAreCurrent
  <2>4. rows[c].parent \in Created
    BY <1>11, <2>1, <2>3
  <2>5. QED
    BY <1>5, <1>6, <1>7, <2>3, <2>4
<1>15. MarksAreHistory'
  <2>1. \A x \in Created : rows'[x].deletedWith = rows[x].deletedWith
    BY <1>5, <1>6, <1>7
  <2>2. \A x \in Created : rows'[x].live = rows[x].live
    BY <1>5, <1>6, <1>7
  <2>3. QED
    BY <1>1, <1>4, <2>1, <2>2 DEF LifecycleInv, MarksAreHistory
<1>16. DraftIsPast'
  BY <1>1 DEF DraftIsPast
<1>17. QED
  BY <1>10, <1>12, <1>13, <1>14, <1>15, <1>16 DEF LifecycleInv

LEMMA RescopeKeeps ==
    ASSUME LifecycleInv, NEW o \in Objects, NEW scope \in Objects, Rescope(o, scope)
    PROVE  LifecycleInv'
<1> DEFINE new == Stepped([rows[o] EXCEPT !.scope = scope])
<1>1. /\ rows' = [rows EXCEPT ![o] = new]
      /\ o \in Created /\ UNCHANGED <<sections, draft, taken>>
      /\ rows[o].version < MaxVersion
  BY DEF Rescope, MayStep
<1>2. rows[o] \in Row
  BY <1>1 DEF LifecycleInv, TypeOK
<1>3. Created' = Created
  BY <1>1 DEF Created
<1>4. /\ new \in Row /\ new.parent = rows[o].parent /\ new.live = rows[o].live
      /\ new.space = rows[o].space /\ new.deletedWith = rows[o].deletedWith
      /\ new.version = rows[o].version + 1
  <2>1. new \in Row
    BY <1>1, <1>2, WritesKeepType
  <2>2. QED
    BY <1>2, <2>1 DEF Row, Stepped
<1>5. \A x \in Created : rows'[x] = IF x = o THEN new ELSE rows[x]
  BY <1>1 DEF Created
<1>6. \A x \in Created : /\ rows'[x].parent = rows[x].parent
                         /\ rows'[x].live = rows[x].live
                         /\ rows'[x].space = rows[x].space
                         /\ rows'[x].deletedWith = rows[x].deletedWith
  BY <1>4, <1>5
<1>7. TypeOK'
  <2>1. rows' \in [Created' -> Row]
    BY <1>1, <1>3, <1>4 DEF LifecycleInv, TypeOK
  <2>2. QED
    BY <1>1, <1>3, <2>1 DEF LifecycleInv, TypeOK
<1>8. \A c \in Created : rows[c].parent # None => rows[c].parent \in Created
  BY DEF LifecycleInv, OneLevelDeep
<1>9. OneLevelDeep'
  BY <1>3, <1>6, <1>8 DEF LifecycleInv, OneLevelDeep
<1>10. NoLiveOrphan'
  BY <1>3, <1>6, <1>8 DEF LifecycleInv, NoLiveOrphan
<1>11. MarksAreCurrent'
  BY <1>3, <1>6, <1>8 DEF LifecycleInv, MarksAreCurrent
<1>12. MarksAreHistory'
  BY <1>1, <1>3, <1>6 DEF LifecycleInv, MarksAreHistory
<1>13. DraftIsPast'
  <2>1. SUFFICES ASSUME draft # None
                 PROVE  DraftIsPast'
    BY <1>1 DEF DraftIsPast
  <2>2. draft.task \in Created /\ draft.read \in Row /\ rows[draft.task] \in Row
    BY <2>1 DEF LifecycleInv, TypeOK, DraftIsPast
  <2>3. rows'[draft.task] = IF draft.task = o THEN new ELSE rows[draft.task]
    BY <1>5, <2>2
  <2>4. draft.read.version \in Nat /\ rows[draft.task].version \in Nat
    BY <2>2, Constants DEF Row, Assumptions
  <2>5. QED
    BY <1>1, <1>3, <1>4, <2>2, <2>3, <2>4 DEF LifecycleInv, DraftIsPast
<1>14. QED
  BY <1>7, <1>9, <1>10, <1>11, <1>12, <1>13 DEF LifecycleInv

LEMMA CreateSectionKeeps ==
    ASSUME LifecycleInv, NEW section \in Sections, CreateSection(section)
    PROVE  LifecycleInv'
<1>1. UNCHANGED <<rows, draft, taken>> /\ sections' = sections \cup {section}
  BY DEF CreateSection
<1>2. Created' = Created
  BY <1>1 DEF Created
<1>3. QED
  BY <1>1, <1>2
     DEF LifecycleInv, TypeOK, OneLevelDeep, NoLiveOrphan, MarksAreCurrent,
         MarksAreHistory, DraftIsPast

LEMMA DeleteSectionKeeps ==
    ASSUME LifecycleInv, NEW section \in Sections, DeleteSection(section)
    PROVE  LifecycleInv'
<1>1. /\ rows' = [x \in Created |->
                    IF rows[x].section = section THEN [rows[x] EXCEPT !.section = None]
                    ELSE rows[x]]
      /\ UNCHANGED <<draft, taken>> /\ sections' = sections \ {section}
  BY DEF DeleteSection
<1>2. Created' = Created
  BY <1>1 DEF Created
<1>3. \A x \in Created : rows[x] \in Row
  BY DEF LifecycleInv, TypeOK
<1>4. \A x \in Created : /\ rows'[x] \in Row
                         /\ rows'[x].parent = rows[x].parent
                         /\ rows'[x].live = rows[x].live
                         /\ rows'[x].space = rows[x].space
                         /\ rows'[x].scope = rows[x].scope
                         /\ rows'[x].version = rows[x].version
                         /\ rows'[x].deletedWith = rows[x].deletedWith
  BY <1>1, <1>3 DEF Row
<1>5. TypeOK'
  BY <1>1, <1>2, <1>4 DEF LifecycleInv, TypeOK
<1>6. \A c \in Created : rows[c].parent # None => rows[c].parent \in Created
  BY DEF LifecycleInv, OneLevelDeep
<1>7. OneLevelDeep' /\ NoLiveOrphan' /\ MarksAreCurrent'
  BY <1>2, <1>4, <1>6 DEF LifecycleInv, OneLevelDeep, NoLiveOrphan, MarksAreCurrent
<1>8. MarksAreHistory'
  BY <1>1, <1>2, <1>4 DEF LifecycleInv, MarksAreHistory
<1>9. DraftIsPast'
  BY <1>1, <1>2, <1>4 DEF LifecycleInv, DraftIsPast
<1>10. QED
  BY <1>5, <1>7, <1>8, <1>9 DEF LifecycleInv

\* The parent of an object is an older row with no parent of its own, in the
\* same space, and live unless the object is in Trash.
LEMMA ParentOf ==
    ASSUME LifecycleInv, NEW c \in Created, rows[c].parent # None
    PROVE  /\ c \in Tasks /\ rows[c].parent \in Created \cap Tasks
           /\ rows[rows[c].parent].parent = None
           /\ rows[rows[c].parent].space = rows[c].space
           /\ rows[c].live => rows[rows[c].parent].live
BY DEF LifecycleInv, TypeOK, Row, OneLevelDeep, NoLiveOrphan

LEMMA SoftDeleteKeeps ==
    ASSUME LifecycleInv, NEW o \in Objects, SoftDelete(o)
    PROVE  LifecycleInv'
<1> DEFINE takes == LiveSubtasks(o)
<1> USE Constants
<1>1. /\ rows' = [x \in Created |-> IF x = o THEN ToTrash(rows[x], None)
                                    ELSE IF x \in takes THEN ToTrash(rows[x], o)
                                    ELSE rows[x]]
      /\ taken' = [t \in Tasks |-> IF t = o THEN takes ELSE IF t \in takes THEN {} ELSE taken[t]]
      /\ o \in Created /\ rows[o].live /\ UNCHANGED <<sections, draft>>
      /\ \A x \in {o} \cup takes : rows[x].version < MaxVersion
  BY DEF SoftDelete, MayStep
<1>2. Created' = Created
  BY <1>1 DEF Created
<1>3. takes = {c \in Created : rows[c].parent = o /\ rows[c].live}
  BY <1>1, ParentOf DEF LiveSubtasks, Subtasks, LiveIn, In, Assumptions
<1>4. \A c \in takes : c \in Tasks /\ o \in Tasks /\ c # o
  BY <1>3, ParentOf DEF Assumptions
<1>5. \A x \in Created : rows[x] \in Row
  BY DEF LifecycleInv, TypeOK
<1>6. \A x \in Created :
         /\ rows'[x] \in Row
         /\ rows'[x].parent = rows[x].parent
         /\ rows'[x].space = rows[x].space
         /\ rows'[x].scope = rows[x].scope
         /\ rows'[x].live = (rows[x].live /\ x # o /\ x \notin takes)
         /\ rows'[x].deletedWith = IF x \in takes THEN o ELSE rows[x].deletedWith
         /\ rows'[x].version = IF x = o \/ x \in takes THEN rows[x].version + 1 ELSE rows[x].version
  <2>1. SUFFICES ASSUME NEW x \in Created
                 PROVE  /\ rows'[x] \in Row
                        /\ rows'[x].parent = rows[x].parent
                        /\ rows'[x].space = rows[x].space
                        /\ rows'[x].scope = rows[x].scope
                        /\ rows'[x].live = (rows[x].live /\ x # o /\ x \notin takes)
                        /\ rows'[x].deletedWith = IF x \in takes THEN o ELSE rows[x].deletedWith
                        /\ rows'[x].version = IF x = o \/ x \in takes THEN rows[x].version + 1
                                                                      ELSE rows[x].version
    OBVIOUS
  <2>2. rows[x] \in Row
    BY <1>5
  <2>3. CASE x = o
    <3>1. rows'[x] = ToTrash(rows[x], None)
      BY <1>1, <2>3
    <3>2. x \notin takes
      BY <1>4, <2>3
    <3>3. rows'[x] \in Row
      BY <1>1, <2>2, <2>3, <3>1, WritesKeepType
    <3>4. QED
      BY <2>2, <2>3, <3>1, <3>2, <3>3 DEF Row, ToTrash, Stepped
  <2>4. CASE x # o /\ x \in takes
    <3>1. rows'[x] = ToTrash(rows[x], o)
      BY <1>1, <2>4
    <3>2. o \in Tasks /\ o # None
      BY <1>4, <2>4 DEF Assumptions, Objects
    <3>3. rows'[x] \in Row
      BY <1>1, <2>2, <2>4, <3>1, <3>2, WritesKeepType
    <3>4. QED
      BY <2>2, <2>4, <3>1, <3>2, <3>3 DEF Row, ToTrash, Stepped
  <2>5. CASE x # o /\ x \notin takes
    <3>1. rows'[x] = rows[x]
      BY <1>1, <2>5
    <3>2. QED
      BY <2>2, <2>5, <3>1 DEF Row
  <2>6. QED
    BY <2>3, <2>4, <2>5
<1>7. TypeOK'
  <2>1. rows' \in [Created' -> Row]
    BY <1>1, <1>2, <1>6
  <2>2. takes \subseteq Tasks
    BY <1>4
  <2>3. taken' \in [Tasks -> SUBSET Tasks]
    BY <1>1, <2>2 DEF LifecycleInv, TypeOK
  <2>4. QED
    BY <1>1, <1>2, <2>1, <2>3 DEF LifecycleInv, TypeOK
<1>8. OneLevelDeep'
  BY <1>2, <1>6, ParentOf DEF OneLevelDeep
<1>9. NoLiveOrphan'
  <2>1. SUFFICES ASSUME NEW c \in Created, rows'[c].live, rows'[c].parent # None
                 PROVE  rows'[rows'[c].parent].live
    BY <1>2 DEF NoLiveOrphan
  <2>2. rows[c].live /\ rows[c].parent # None /\ rows'[c].parent = rows[c].parent /\ c \notin takes
    BY <1>6, <2>1
  <2>3. /\ rows[c].parent \in Created /\ rows[rows[c].parent].live
        /\ rows[rows[c].parent].parent = None
    BY <2>2, ParentOf
  <2>4. rows[c].parent # o /\ rows[c].parent \notin takes
    BY <1>3, <2>2, <2>3 DEF Assumptions, Objects
  <2>5. QED
    BY <1>6, <2>2, <2>3, <2>4
<1>10. MarksAreCurrent'
  <2>1. SUFFICES ASSUME NEW c \in Created, rows'[c].deletedWith # None
                 PROVE  /\ rows'[c].deletedWith = rows'[c].parent
                        /\ ~ rows'[c].live
                        /\ rows'[rows'[c].parent].live = FALSE
    BY <1>2 DEF MarksAreCurrent
  <2>2. CASE c \in takes
    <3>1. rows[c].parent = o
      BY <1>3, <2>2
    <3>2. rows'[c].parent = o /\ rows'[c].deletedWith = o /\ ~ rows'[c].live
      BY <1>6, <2>2, <3>1
    <3>3. rows'[o].live = FALSE
      BY <1>1, <1>6
    <3>4. QED
      BY <3>2, <3>3
  <2>3. CASE c \notin takes
    <3>1. /\ rows[c].deletedWith # None /\ rows[c].deletedWith = rows[c].parent
          /\ ~ rows[c].live /\ rows[rows[c].parent].live = FALSE
      BY <1>6, <2>1, <2>3 DEF LifecycleInv, MarksAreCurrent
    <3>2. rows[c].parent \in Created
      BY <3>1, ParentOf
    <3>3. QED
      BY <1>6, <2>3, <3>1, <3>2
  <2>4. QED
    BY <2>2, <2>3
<1>11. MarksAreHistory'
  <2>1. SUFFICES ASSUME NEW p \in Created \cap Tasks, ~ rows'[p].live
                 PROVE  taken'[p] = {c \in Created : rows'[c].deletedWith = p}
    BY <1>2 DEF MarksAreHistory
  <2>2. ASSUME rows[p].live
        PROVE  \A c \in Created : rows[c].deletedWith # p
    <3>1. SUFFICES ASSUME NEW c \in Created, rows[c].deletedWith = p
                   PROVE  FALSE
      OBVIOUS
    <3>2. p # None
      BY DEF Assumptions, Objects
    <3>3. rows[c].parent = p /\ rows[rows[c].parent].live = FALSE
      BY <3>1, <3>2 DEF LifecycleInv, MarksAreCurrent
    <3>4. QED
      BY <2>2, <3>3
  <2>3. CASE p = o
    <3>1. \A c \in Created : rows'[c].deletedWith = p <=> c \in takes
      BY <1>1, <1>6, <2>2, <2>3
    <3>2. takes \subseteq Created
      BY <1>3
    <3>3. taken'[p] = takes
      BY <1>1, <2>3
    <3>4. QED
      BY <3>1, <3>2, <3>3
  <2>4. CASE p # o /\ p \in takes
    <3>1. rows[p].live
      BY <1>3, <2>4
    <3>2. \A c \in Created : rows'[c].deletedWith # p
      BY <1>6, <2>2, <2>4, <3>1
    <3>3. taken'[p] = {}
      BY <1>1, <2>4
    <3>4. QED
      BY <3>2, <3>3
  <2>5. CASE p # o /\ p \notin takes
    <3>1. ~ rows[p].live /\ taken'[p] = taken[p]
      BY <1>1, <1>6, <2>1, <2>5
    <3>2. \A c \in takes : rows[c].deletedWith # p
      <4>1. SUFFICES ASSUME NEW c \in takes, rows[c].deletedWith = p
                     PROVE  FALSE
        OBVIOUS
      <4>2. c \in Created /\ rows[c].live /\ p # None
        BY <1>3 DEF Assumptions, Objects
      <4>3. QED
        BY <4>1, <4>2 DEF LifecycleInv, MarksAreCurrent
    <3>3. \A c \in Created : rows'[c].deletedWith = p <=> rows[c].deletedWith = p
      BY <1>6, <2>5, <3>2
    <3>4. QED
      BY <3>1, <3>3 DEF LifecycleInv, MarksAreHistory
  <2>6. QED
    BY <2>3, <2>4, <2>5
<1>12. DraftIsPast'
  <2>1. SUFFICES ASSUME draft # None
                 PROVE  DraftIsPast'
    BY <1>1 DEF DraftIsPast
  <2>2. /\ draft.task \in Created /\ draft.read.version \in Nat
        /\ rows[draft.task].version \in Nat
    <3>1. draft.task \in Created /\ draft.read \in Row
      BY <2>1 DEF LifecycleInv, TypeOK, DraftIsPast
    <3>2. QED
      BY <1>5, <3>1 DEF Row, Assumptions
  <2>3. QED
    BY <1>1, <1>2, <1>6, <2>2 DEF LifecycleInv, DraftIsPast
<1>13. QED
  BY <1>7, <1>8, <1>9, <1>10, <1>11, <1>12 DEF LifecycleInv

LEMMA RecoverKeeps ==
    ASSUME LifecycleInv, NEW o \in Objects, Recover(o)
    PROVE  /\ LifecycleInv'
           /\ o \in Tasks => {c \in Subtasks(o) : ~ rows[c].live /\ rows'[c].live} = taken[o]
<1> DEFINE went == {c \in Created : rows[c].deletedWith = o}
           back == {o} \cup (IF o \in Tasks THEN WentWith(o) ELSE {})
<1> USE Constants
<1>1. /\ rows' = [x \in Created |-> IF x \in back THEN Back(rows[x]) ELSE rows[x]]
      /\ o \in Created /\ ~ rows[o].live /\ UNCHANGED <<sections, draft, taken>>
      /\ \A x \in back : rows[x].version < MaxVersion
      /\ \A p \in Tasks : (rows[o].parent = p /\ In(p, rows[o].space)) => rows[p].live
  BY DEF Recover, MayStep, Unblocked
<1>2. Created' = Created
  BY <1>1 DEF Created
<1>3. \A c \in went : /\ rows[c].parent = o /\ ~ rows[c].live /\ c # o /\ o \in Tasks
                      /\ rows[c].space = rows[o].space
  <2>1. SUFFICES ASSUME NEW c \in went
                 PROVE  /\ rows[c].parent = o /\ ~ rows[c].live /\ c # o /\ o \in Tasks
                        /\ rows[c].space = rows[o].space
    OBVIOUS
  <2>2. c \in Created /\ rows[c].parent = o /\ ~ rows[c].live /\ o # None
    BY DEF LifecycleInv, MarksAreCurrent, Assumptions, Objects
  <2>3. QED
    BY <2>2, ParentOf
<1>4. back = {o} \cup went
  BY <1>3 DEF WentWith, Subtasks
<1>5. \A x \in Created : rows[x] \in Row
  BY DEF LifecycleInv, TypeOK
<1>6. \A x \in Created :
         /\ rows'[x] \in Row
         /\ rows'[x].parent = rows[x].parent
         /\ rows'[x].space = rows[x].space
         /\ rows'[x].scope = rows[x].scope
         /\ rows'[x].live = (rows[x].live \/ x \in back)
         /\ rows'[x].deletedWith = IF x \in back THEN None ELSE rows[x].deletedWith
         /\ rows'[x].version = IF x \in back THEN rows[x].version + 1 ELSE rows[x].version
  <2>1. SUFFICES ASSUME NEW x \in Created
                 PROVE  /\ rows'[x] \in Row
                        /\ rows'[x].parent = rows[x].parent
                        /\ rows'[x].space = rows[x].space
                        /\ rows'[x].scope = rows[x].scope
                        /\ rows'[x].live = (rows[x].live \/ x \in back)
                        /\ rows'[x].deletedWith = IF x \in back THEN None ELSE rows[x].deletedWith
                        /\ rows'[x].version = IF x \in back THEN rows[x].version + 1
                                                            ELSE rows[x].version
    OBVIOUS
  <2>2. rows[x] \in Row
    BY <1>5
  <2>3. CASE x \in back
    <3>1. rows'[x] = Back(rows[x])
      BY <1>1, <2>3
    <3>2. rows'[x] \in Row
      BY <1>1, <2>2, <2>3, <3>1, WritesKeepType
    <3>3. QED
      BY <2>2, <2>3, <3>1, <3>2 DEF Row, Back, Stepped
  <2>4. CASE x \notin back
    <3>1. rows'[x] = rows[x]
      BY <1>1, <2>4
    <3>2. QED
      BY <2>2, <2>4, <3>1 DEF Row
  <2>5. QED
    BY <2>3, <2>4
<1>7. TypeOK'
  <2>1. rows' \in [Created' -> Row]
    BY <1>1, <1>2, <1>6
  <2>2. QED
    BY <1>1, <1>2, <2>1 DEF LifecycleInv, TypeOK
<1>8. OneLevelDeep'
  BY <1>2, <1>6, ParentOf DEF OneLevelDeep
<1>9. NoLiveOrphan'
  <2>1. SUFFICES ASSUME NEW c \in Created, rows'[c].live, rows'[c].parent # None
                 PROVE  rows'[rows'[c].parent].live
    BY <1>2 DEF NoLiveOrphan
  <2>2. /\ rows'[c].parent = rows[c].parent /\ rows[c].parent # None
        /\ rows[c].live \/ c \in back
    BY <1>6, <2>1
  <2>3. /\ rows[c].parent \in Created \cap Tasks
        /\ rows[rows[c].parent].space = rows[c].space
        /\ rows[c].live => rows[rows[c].parent].live
    BY <2>2, ParentOf
  <2>4. CASE rows[c].live
    BY <1>6, <2>2, <2>3, <2>4
  <2>5. CASE c = o
    <3>1. rows[rows[c].parent].live
      BY <1>1, <2>3, <2>5 DEF In
    <3>2. QED
      BY <1>6, <2>2, <2>3, <3>1
  <2>6. CASE c \in went
    BY <1>1, <1>3, <1>4, <1>6, <2>2, <2>6
  <2>7. QED
    BY <1>4, <2>2, <2>4, <2>5, <2>6
<1>10. MarksAreCurrent'
  <2>1. SUFFICES ASSUME NEW c \in Created, rows'[c].deletedWith # None
                 PROVE  /\ rows'[c].deletedWith = rows'[c].parent
                        /\ ~ rows'[c].live
                        /\ rows'[rows'[c].parent].live = FALSE
    BY <1>2 DEF MarksAreCurrent
  <2>2. c \notin back /\ rows'[c].deletedWith = rows[c].deletedWith
    BY <1>6, <2>1
  <2>3. /\ rows[c].deletedWith = rows[c].parent /\ ~ rows[c].live
        /\ rows[rows[c].parent].live = FALSE
    BY <2>1, <2>2 DEF LifecycleInv, MarksAreCurrent
  <2>4. /\ rows[c].parent \in Created /\ rows[rows[c].parent].parent = None
        /\ rows[c].parent # None
    BY <2>1, <2>2, <2>3, ParentOf
  <2>5. rows[c].parent # o
    BY <1>4, <2>2, <2>3
  <2>6. rows[c].parent \notin went
    BY <1>3, <2>4 DEF Assumptions, Objects
  <2>7. QED
    BY <1>4, <1>6, <2>2, <2>3, <2>4, <2>5, <2>6
<1>11. MarksAreHistory'
  <2>1. SUFFICES ASSUME NEW p \in Created \cap Tasks, ~ rows'[p].live
                 PROVE  taken'[p] = {c \in Created : rows'[c].deletedWith = p}
    BY <1>2 DEF MarksAreHistory
  <2>2. ~ rows[p].live /\ p # o /\ p \notin back /\ p # None
    BY <1>1, <1>6, <2>1 DEF Assumptions, Objects
  <2>3. ASSUME NEW c \in back
        PROVE  rows[c].deletedWith # p
    <3>1. CASE c = o
      <4>1. SUFFICES ASSUME rows[o].deletedWith = p
                     PROVE  FALSE
        BY <3>1
      <4>2. rows[o].parent = p /\ rows[p].live = FALSE
        BY <1>1, <2>2, <4>1 DEF LifecycleInv, MarksAreCurrent
      <4>3. rows[p].space = rows[o].space
        BY <1>1, <2>2, <4>2, ParentOf
      <4>4. QED
        BY <1>1, <4>2, <4>3 DEF In
    <3>2. CASE c \in went
      BY <2>2, <3>2
    <3>3. QED
      BY <1>4, <3>1, <3>2
  <2>4. \A c \in Created : rows'[c].deletedWith = p <=> rows[c].deletedWith = p
    BY <1>6, <2>2, <2>3
  <2>5. QED
    BY <1>1, <2>2, <2>4 DEF LifecycleInv, MarksAreHistory
<1>12. DraftIsPast'
  <2>1. SUFFICES ASSUME draft # None
                 PROVE  DraftIsPast'
    BY <1>1 DEF DraftIsPast
  <2>2. draft.task \in Created /\ draft.read \in Row
    BY <2>1 DEF LifecycleInv, TypeOK, DraftIsPast
  <2>3. draft.read.version \in Nat /\ rows[draft.task].version \in Nat
    BY <1>5, <2>2 DEF Row, Assumptions
  <2>4. QED
    BY <1>1, <1>2, <1>6, <2>2, <2>3 DEF LifecycleInv, DraftIsPast
<1>13. ASSUME o \in Tasks
       PROVE  {c \in Subtasks(o) : ~ rows[c].live /\ rows'[c].live} = taken[o]
  <2>1. taken[o] = went
    BY <1>1, <1>13 DEF LifecycleInv, MarksAreHistory
  <2>2. o \notin Subtasks(o)
    BY <1>1, ParentOf DEF Subtasks, Assumptions, Objects
  <2>3. \A c \in Subtasks(o) : ~ rows[c].live /\ rows'[c].live <=> c \in went
    BY <1>3, <1>4, <1>6, <2>2 DEF Subtasks
  <2>4. went \subseteq Subtasks(o)
    BY <1>3 DEF Subtasks
  <2>5. QED
    BY <2>1, <2>3, <2>4
<1>14. QED
  BY <1>7, <1>8, <1>9, <1>10, <1>11, <1>12, <1>13 DEF LifecycleInv

LEMMA MoveKeeps ==
    ASSUME LifecycleInv, NEW e \in Events, NEW space \in Spaces, NEW rewritten \in SUBSET Tasks,
           Move(e, space, rewritten)
    PROVE  LifecycleInv'
<1> DEFINE carried == ScopeOf(e)
           cards   == CardsOf(e)
<1> USE Constants
<1>1. /\ rows' = [x \in Created |->
                    IF x \in cards THEN Stepped([rows[x] EXCEPT !.scope = x])
                    ELSE IF x \notin carried THEN rows[x]
                    ELSE [rows[x] EXCEPT !.space = space,
                                         !.version = IF x \in rewritten THEN @ + 1 ELSE @]]
      /\ UNCHANGED <<sections, draft, taken>>
      /\ \A x \in rewritten \cup cards : rows[x].version < MaxVersion
      /\ \A c \in Created :
            rows[c].parent # None => (c \in carried <=> rows[c].parent \in carried)
  BY DEF Move, MayStep, FamiliesStayTogether
<1>2. Created' = Created
  BY <1>1 DEF Created
<1>3. Created \subseteq Objects /\ \A x \in Created : rows[x] \in Row
  BY DEF LifecycleInv, TypeOK
<1>4. \A x \in Created : x \in cards => x \notin carried
  BY DEF ScopeOf, CardsOf
<1>5. \A x \in Created :
         /\ rows'[x] \in Row
         /\ rows'[x].parent = rows[x].parent
         /\ rows'[x].live = rows[x].live
         /\ rows'[x].deletedWith = rows[x].deletedWith
         /\ rows'[x].space = IF x \in carried THEN space ELSE rows[x].space
         /\ x \notin cards => rows'[x].scope = rows[x].scope
         /\ rows'[x].version = rows[x].version \/ rows'[x].version = rows[x].version + 1
         /\ x \in cards => rows'[x].version = rows[x].version + 1
  <2>1. SUFFICES ASSUME NEW x \in Created
                 PROVE  /\ rows'[x] \in Row
                        /\ rows'[x].parent = rows[x].parent
                        /\ rows'[x].live = rows[x].live
                        /\ rows'[x].deletedWith = rows[x].deletedWith
                        /\ rows'[x].space = IF x \in carried THEN space ELSE rows[x].space
                        /\ x \notin cards => rows'[x].scope = rows[x].scope
                        /\ rows'[x].version = rows[x].version \/ rows'[x].version = rows[x].version + 1
                        /\ x \in cards => rows'[x].version = rows[x].version + 1
    OBVIOUS
  <2>2. rows[x] \in Row /\ x \in Objects
    BY <1>3
  <2>3. CASE x \in cards
    <3>1. rows'[x] = Stepped([rows[x] EXCEPT !.scope = x]) /\ x \notin carried
      BY <1>1, <1>4, <2>3
    <3>2. rows'[x] \in Row
      BY <1>1, <2>2, <2>3, <3>1, WritesKeepType
    <3>3. QED
      BY <2>2, <2>3, <3>1, <3>2 DEF Row, Stepped
  <2>4. CASE x \notin cards /\ x \notin carried
    <3>1. rows'[x] = rows[x]
      BY <1>1, <2>4
    <3>2. QED
      BY <2>2, <2>4, <3>1 DEF Row
  <2>5. CASE x \notin cards /\ x \in carried
    <3> DEFINE version == IF x \in rewritten THEN rows[x].version + 1 ELSE rows[x].version
    <3>1. rows'[x] = [rows[x] EXCEPT !.space = space, !.version = version]
      BY <1>1, <2>5
    <3>2. version \in 1 .. MaxVersion
      <4>1. rows[x].version \in 1 .. MaxVersion
        BY <2>2 DEF Row
      <4>2. CASE x \in rewritten
        <5>1. rows[x].version < MaxVersion
          BY <1>1, <4>2
        <5>2. MaxVersion \in Nat
          BY DEF Assumptions
        <5>3. rows[x].version + 1 \in 1 .. MaxVersion
          BY <4>1, <5>1, <5>2, SMT
        <5>4. QED
          BY <4>2, <5>3, Zenon
      <4>3. CASE x \notin rewritten
        BY <4>1, <4>3
      <4>4. QED
        BY <4>2, <4>3
    <3>3. QED
      BY <2>2, <2>5, <3>1, <3>2 DEF Row
  <2>6. QED
    BY <2>3, <2>4, <2>5
<1>6. TypeOK'
  <2>1. rows' \in [Created' -> Row]
    BY <1>1, <1>2, <1>5
  <2>2. QED
    BY <1>1, <1>2, <2>1 DEF LifecycleInv, TypeOK
<1>7. OneLevelDeep'
  <2>1. SUFFICES ASSUME NEW c \in Created, rows'[c].parent # None
                 PROVE  /\ c \in Tasks /\ rows'[c].parent \in Created
                        /\ rows'[rows'[c].parent].parent = None
                        /\ rows'[rows'[c].parent].space = rows'[c].space
    BY <1>2 DEF OneLevelDeep
  <2>2. rows[c].parent # None /\ rows'[c].parent = rows[c].parent
    BY <1>5, <2>1
  <2>3. /\ c \in Tasks /\ rows[c].parent \in Created
        /\ rows[rows[c].parent].parent = None /\ rows[rows[c].parent].space = rows[c].space
    BY <2>2, ParentOf
  <2>4. c \in carried <=> rows[c].parent \in carried
    BY <1>1, <2>2
  <2>5. QED
    BY <1>5, <2>2, <2>3, <2>4
<1>8. NoLiveOrphan'
  BY <1>2, <1>5, ParentOf DEF NoLiveOrphan
<1>9. MarksAreCurrent'
  <2>1. \A c \in Created : rows[c].deletedWith # None => rows[c].parent \in Created
    BY ParentOf DEF LifecycleInv, MarksAreCurrent
  <2>2. QED
    BY <1>2, <1>5, <2>1 DEF LifecycleInv, MarksAreCurrent
<1>10. MarksAreHistory'
  BY <1>1, <1>2, <1>5 DEF LifecycleInv, MarksAreHistory
<1>11. DraftIsPast'
  <2>1. SUFFICES ASSUME draft # None
                 PROVE  DraftIsPast'
    BY <1>1 DEF DraftIsPast
  <2>2. draft.task \in Created /\ draft.read \in Row
    BY <2>1 DEF LifecycleInv, TypeOK, DraftIsPast
  <2>3. draft.read.version \in Nat /\ rows[draft.task].version \in Nat
    BY <1>3, <2>2 DEF Row, Assumptions
  <2>4. /\ draft.read.version <= rows[draft.task].version
        /\ draft.read.version = rows[draft.task].version =>
              /\ draft.read.parent = rows[draft.task].parent
              /\ draft.read.scope = rows[draft.task].scope
    BY <2>1 DEF LifecycleInv, DraftIsPast
  <2>5. CASE rows'[draft.task].version = rows[draft.task].version + 1
    <3>1. /\ draft.read.version <= rows'[draft.task].version
          /\ draft.read.version # rows'[draft.task].version
      BY <2>3, <2>4, <2>5
    <3>2. QED
      BY <1>1, <1>2, <2>2, <3>1, Zenon DEF DraftIsPast
  <2>6. CASE rows'[draft.task].version = rows[draft.task].version
    <3>1. draft.task \notin cards
      BY <1>5, <2>2, <2>3, <2>6
    <3>2. /\ rows'[draft.task].parent = rows[draft.task].parent
          /\ rows'[draft.task].scope = rows[draft.task].scope
      BY <1>5, <2>2, <3>1
    <3>3. QED
      BY <1>1, <1>2, <2>2, <2>4, <2>6, <3>2 DEF DraftIsPast
  <2>7. QED
    BY <1>5, <2>2, <2>5, <2>6
<1>12. QED
  BY <1>6, <1>7, <1>8, <1>9, <1>10, <1>11 DEF LifecycleInv

\* A task that comes back with its parent took no subtask of its own.
LEMMA CascadedTookNothing ==
    ASSUME LifecycleInv, NEW o \in Objects, Recover(o),
           NEW p \in Created \cap Tasks, p # o, ~ rows[p].live, rows'[p].live
    PROVE  {c \in Subtasks(p) : ~ rows[c].live /\ rows'[c].live} = taken[p]
<1>1. /\ rows'[p] = IF p \in {o} \cup (IF o \in Tasks THEN WentWith(o) ELSE {})
                    THEN Back(rows[p]) ELSE rows[p]
      /\ o \in Created
  BY DEF Recover
<1>2. p \in WentWith(o) /\ o \in Tasks
  BY <1>1
<1>3. rows[p].parent = o /\ o # None
  BY <1>2, Constants DEF WentWith, Subtasks, Assumptions, Objects
<1>4. Subtasks(p) = {}
  <2>1. SUFFICES ASSUME NEW c \in Created, rows[c].parent = p
                 PROVE  FALSE
    BY DEF Subtasks
  <2>2. p # None
    BY Constants DEF Assumptions, Objects
  <2>3. rows[p].parent = None
    BY <2>1, <2>2, ParentOf
  <2>4. QED
    BY <1>3, <2>3
<1>5. taken[p] = {c \in Created : rows[c].deletedWith = p}
  BY DEF LifecycleInv, MarksAreHistory
<1>6. \A c \in Created : rows[c].deletedWith # p
  BY <1>4, Constants DEF LifecycleInv, MarksAreCurrent, Subtasks, Assumptions, Objects
<1>7. QED
  BY <1>4, <1>5, <1>6

\* Nothing but a recovery takes an object out of Trash.
LEMMA OnlyRecoveryRevives ==
    ASSUME LifecycleInv, [Next]_vars, ~ \E o \in Objects : Recover(o),
           NEW p \in Created, ~ rows[p].live
    PROVE  ~ rows'[p].live
<1>1. \A x \in Created : rows[x] \in Row
  BY DEF LifecycleInv, TypeOK
<1>2. CASE UNCHANGED rows
  BY <1>2
<1>3. ASSUME NEW o \in Objects, NEW space \in Spaces, NEW scope \in Objects,
             NEW parent \in Tasks \cup {None}, NEW section \in Sections \cup {None},
             Create(o, space, scope, parent, section)
      PROVE  ~ rows'[p].live
  BY <1>3 DEF Create
<1>4. ASSUME NEW parent \in Tasks \cup {None}, NEW section \in Sections \cup {None},
             SaveEdit(parent, section)
      PROVE  ~ rows'[p].live
  <2>1. rows[draft.task].live /\ rows' = [rows EXCEPT ![draft.task] =
            Stepped([rows[draft.task] EXCEPT !.parent = parent, !.section = section])]
    BY <1>4 DEF SaveEdit, StillAsRead, LiveIn
  <2>2. p # draft.task
    BY <2>1
  <2>3. rows'[p] = rows[p]
    BY <2>1, <2>2 DEF Created
  <2>4. QED
    BY <2>3
<1>5. ASSUME NEW o \in Objects, SoftDelete(o)
      PROVE  ~ rows'[p].live
  <2>1. \/ rows'[p] = ToTrash(rows[p], None)
        \/ rows'[p] = ToTrash(rows[p], o)
        \/ rows'[p] = rows[p]
    BY <1>5 DEF SoftDelete
  <2>2. rows[p] \in Row
    BY <1>1
  <2>3. QED
    BY <2>1, <2>2 DEF ToTrash, Stepped, Row
<1>6. ASSUME NEW o \in Objects, NEW scope \in Objects, Rescope(o, scope)
      PROVE  ~ rows'[p].live
  <2>1. rows[o].live /\ rows' = [rows EXCEPT ![o] = Stepped([rows[o] EXCEPT !.scope = scope])]
    BY <1>6 DEF Rescope
  <2>2. rows'[p] = rows[p]
    BY <2>1 DEF Created
  <2>3. QED
    BY <2>2
<1>7. ASSUME NEW section \in Sections, DeleteSection(section)
      PROVE  ~ rows'[p].live
  <2>1. rows'[p] = [rows[p] EXCEPT !.section = None] \/ rows'[p] = rows[p]
    BY <1>7 DEF DeleteSection
  <2>2. QED
    BY <1>1, <2>1 DEF Row
<1>8. ASSUME NEW e \in Events, NEW space \in Spaces, NEW rewritten \in SUBSET Tasks,
             Move(e, space, rewritten)
      PROVE  ~ rows'[p].live
  <2>1. \/ rows'[p] = Stepped([rows[p] EXCEPT !.scope = p])
        \/ rows'[p] = rows[p]
        \/ rows'[p] = [rows[p] EXCEPT !.space = space, !.version = rows[p].version + 1]
        \/ rows'[p] = [rows[p] EXCEPT !.space = space, !.version = rows[p].version]
    BY <1>8 DEF Move
  <2>2. rows[p] \in Row
    BY <1>1
  <2>3. QED
    BY <2>1, <2>2 DEF Stepped, Row
<1>9. QED
  BY <1>2, <1>3, <1>4, <1>5, <1>6, <1>7, <1>8
     DEF Next, vars, OpenEdit, DropEdit, CreateSection

\* Only an edit attaches a task or puts it in a section.
LEMMA OnlyEditsAttach ==
    ASSUME LifecycleInv, [Next]_vars, NEW x \in Created,
           ~ \E parent \in Tasks \cup {None}, section \in Sections \cup {None} :
                SaveEdit(parent, section)
    PROVE  /\ rows'[x].parent = rows[x].parent
           /\ rows'[x].section = rows[x].section \/ rows'[x].section = None
<1> DEFINE Kept == /\ rows'[x].parent = rows[x].parent
                   /\ rows'[x].section = rows[x].section \/ rows'[x].section = None
<1>1. rows[x] \in Row
  BY DEF LifecycleInv, TypeOK
<1>2. CASE UNCHANGED rows
  BY <1>2
<1>3. ASSUME NEW o \in Objects, NEW space \in Spaces, NEW scope \in Objects,
             NEW parent \in Tasks \cup {None}, NEW section \in Sections \cup {None},
             Create(o, space, scope, parent, section)
      PROVE  Kept
  BY <1>3 DEF Create
<1>4. ASSUME NEW o \in Objects, SoftDelete(o)
      PROVE  Kept
  <2>1. \/ rows'[x] = ToTrash(rows[x], None)
        \/ rows'[x] = ToTrash(rows[x], o)
        \/ rows'[x] = rows[x]
    BY <1>4 DEF SoftDelete
  <2>2. QED
    BY <1>1, <2>1 DEF ToTrash, Stepped, Row
<1>5. ASSUME NEW o \in Objects, Recover(o)
      PROVE  Kept
  <2>1. rows'[x] = Back(rows[x]) \/ rows'[x] = rows[x]
    BY <1>5 DEF Recover
  <2>2. QED
    BY <1>1, <2>1 DEF Back, Stepped, Row
<1>6. ASSUME NEW o \in Objects, NEW scope \in Objects, Rescope(o, scope)
      PROVE  Kept
  <2>1. rows'[x] = Stepped([rows[x] EXCEPT !.scope = scope]) \/ rows'[x] = rows[x]
    BY <1>6 DEF Rescope, Created
  <2>2. QED
    BY <1>1, <2>1 DEF Stepped, Row
<1>7. ASSUME NEW section \in Sections, DeleteSection(section)
      PROVE  Kept
  <2>1. rows'[x] = [rows[x] EXCEPT !.section = None] \/ rows'[x] = rows[x]
    BY <1>7 DEF DeleteSection
  <2>2. QED
    BY <1>1, <2>1 DEF Row
<1>8. ASSUME NEW e \in Events, NEW space \in Spaces, NEW rewritten \in SUBSET Tasks,
             Move(e, space, rewritten)
      PROVE  Kept
  <2>1. \/ rows'[x] = Stepped([rows[x] EXCEPT !.scope = x])
        \/ rows'[x] = rows[x]
        \/ rows'[x] = [rows[x] EXCEPT !.space = space, !.version = rows[x].version + 1]
        \/ rows'[x] = [rows[x] EXCEPT !.space = space, !.version = rows[x].version]
    BY <1>8 DEF Move
  <2>2. QED
    BY <1>1, <2>1 DEF Stepped, Row
<1>9. QED
  BY <1>2, <1>3, <1>4, <1>5, <1>6, <1>7, <1>8
     DEF Next, vars, OpenEdit, DropEdit, CreateSection

\* What an edit writes: the task it read, whose scope, space and parent are
\* those it read, and the rules it was checked against.
LEMMA EditWrites ==
    ASSUME LifecycleInv,
           NEW parent \in Tasks \cup {None}, NEW section \in Sections \cup {None},
           SaveEdit(parent, section)
    PROVE  LET t == draft.task IN
           /\ t \in Created
           /\ \A x \in Created : x # t => rows'[x] = rows[x]
           /\ rows'[t].parent = parent /\ rows'[t].section = section
           /\ rows'[t].scope = rows[t].scope /\ rows'[t].space = rows[t].space
           /\ parent # rows[t].parent =>
                 ParentAllowed(t, parent, rows[t].scope, rows[t].space)
           /\ \/ section = rows[t].section
              \/ SectionAllowed(t, section, rows[t].scope, rows[t].space)
<1> DEFINE t    == draft.task
           read == draft.read
           new  == Stepped([rows[t] EXCEPT !.parent = parent, !.section = section])
<1>1. /\ rows' = [rows EXCEPT ![t] = new] /\ draft # None
      /\ parent # read.parent => ParentAllowed(t, parent, read.scope, read.space)
      /\ section = rows[t].section \/ SectionAllowed(t, section, read.scope, read.space)
      /\ rows[t].space = read.space /\ rows[t].version = read.version
  BY DEF SaveEdit, StillAsRead, LiveIn, In
<1>2. /\ t \in Created /\ rows[t] \in Row
      /\ read.parent = rows[t].parent /\ read.scope = rows[t].scope
  BY <1>1 DEF LifecycleInv, TypeOK, DraftIsPast
<1>3. rows'[t] = new /\ \A x \in Created : x # t => rows'[x] = rows[x]
  BY <1>1, <1>2 DEF Created
<1>4. /\ rows'[t].parent = parent /\ rows'[t].section = section
      /\ rows'[t].scope = rows[t].scope /\ rows'[t].space = rows[t].space
  BY <1>2, <1>3 DEF Row, Stepped
<1>5. QED
  BY <1>1, <1>2, <1>3, <1>4

\* Only a creation, a rescoping and a move write scopes or spaces.
LEMMA OthersKeepScopes ==
    ASSUME LifecycleInv, [Next]_vars,
           ~ \E o \in Objects, space \in Spaces, scope \in Objects,
                parent \in Tasks \cup {None}, section \in Sections \cup {None} :
                   Create(o, space, scope, parent, section),
           ~ \E o, scope \in Objects : Rescope(o, scope),
           ~ \E e \in Events, space \in Spaces, rewritten \in SUBSET Tasks :
                Move(e, space, rewritten)
    PROVE  /\ Created' = Created
           /\ \A x \in Created : rows'[x].scope = rows[x].scope /\ rows'[x].space = rows[x].space
<1> DEFINE Kept == /\ Created' = Created
                   /\ \A x \in Created : /\ rows'[x].scope = rows[x].scope
                                         /\ rows'[x].space = rows[x].space
<1>1. \A x \in Created : rows[x] \in Row
  BY DEF LifecycleInv, TypeOK
<1>2. CASE UNCHANGED rows
  BY <1>2 DEF Created
<1>3. ASSUME NEW parent \in Tasks \cup {None}, NEW section \in Sections \cup {None},
             SaveEdit(parent, section)
      PROVE  Kept
  <2>1. Created' = Created
    BY <1>3 DEF SaveEdit, Created
  <2>2. QED
    BY <1>3, <2>1, EditWrites
<1>4. ASSUME NEW o \in Objects, SoftDelete(o)
      PROVE  Kept
  <2>1. /\ Created' = Created
        /\ \A x \in Created : \/ rows'[x] = ToTrash(rows[x], None)
                              \/ rows'[x] = ToTrash(rows[x], o)
                              \/ rows'[x] = rows[x]
    BY <1>4 DEF SoftDelete, Created
  <2>2. QED
    BY <1>1, <2>1 DEF ToTrash, Stepped, Row
<1>5. ASSUME NEW o \in Objects, Recover(o)
      PROVE  Kept
  <2>1. /\ Created' = Created
        /\ \A x \in Created : rows'[x] = Back(rows[x]) \/ rows'[x] = rows[x]
    BY <1>5 DEF Recover, Created
  <2>2. QED
    BY <1>1, <2>1 DEF Back, Stepped, Row
<1>6. ASSUME NEW section \in Sections, DeleteSection(section)
      PROVE  Kept
  <2>1. /\ Created' = Created
        /\ \A x \in Created : rows'[x] = [rows[x] EXCEPT !.section = None] \/ rows'[x] = rows[x]
    BY <1>6 DEF DeleteSection, Created
  <2>2. QED
    BY <1>1, <2>1 DEF Row
<1>7. QED
  BY <1>2, <1>3, <1>4, <1>5, <1>6
     DEF Next, vars, OpenEdit, DropEdit, CreateSection

\* A creation, a rescoping and a move keep every scope in the space of what
\* inherits it.
LEMMA CreateKeepsScopes ==
    ASSUME LifecycleInv, ScopeInSpace,
           NEW o \in Objects, NEW space \in Spaces, NEW scope \in Objects,
           NEW parent \in Tasks \cup {None}, NEW section \in Sections \cup {None},
           Create(o, space, scope, parent, section)
    PROVE  ScopeInSpace'
<1>1. /\ Created' = Created \cup {o} /\ o \notin Created
      /\ \A x \in Created : rows'[x] = rows[x]
      /\ rows'[o].space = space /\ rows'[o].scope = scope
  BY DEF Create, Created
<1>2. scope = o \/ (scope \in Created /\ rows[scope].space = space)
  BY DEF Create, LiveIn, In
<1>3. QED
  BY <1>1, <1>2 DEF ScopeInSpace

LEMMA RescopeKeepsScopes ==
    ASSUME LifecycleInv, ScopeInSpace, NEW o \in Objects, NEW scope \in Objects, Rescope(o, scope)
    PROVE  ScopeInSpace'
<1>1. /\ rows' = [rows EXCEPT ![o] = Stepped([rows[o] EXCEPT !.scope = scope])]
      /\ o \in Created
      /\ scope = o \/ (scope \in Created /\ rows[scope].space = rows[o].space)
  BY DEF Rescope, LiveIn, In
<1>2. Created' = Created /\ rows[o] \in Row
  BY <1>1 DEF Created, LifecycleInv, TypeOK
<1>3. \A x \in Created : rows'[x] = IF x = o THEN Stepped([rows[o] EXCEPT !.scope = scope])
                                              ELSE rows[x]
  BY <1>1 DEF Created
<1>4. rows'[o].scope = scope /\ rows'[o].space = rows[o].space
  <2>1. rows[o].version < MaxVersion
    BY DEF Rescope, MayStep
  <2>2. Stepped([rows[o] EXCEPT !.scope = scope]) \in Row
    BY <1>2, <2>1, WritesKeepType
  <2>3. /\ Stepped([rows[o] EXCEPT !.scope = scope]).scope = scope
        /\ Stepped([rows[o] EXCEPT !.scope = scope]).space = rows[o].space
    BY <1>2, <2>2 DEF Stepped, Row
  <2>4. QED
    BY <1>1, <1>3, <2>3
<1>5. QED
  BY <1>1, <1>2, <1>3, <1>4 DEF ScopeInSpace

LEMMA MoveKeepsScopes ==
    ASSUME LifecycleInv, ScopeInSpace,
           NEW e \in Events, NEW space \in Spaces, NEW rewritten \in SUBSET Tasks,
           Move(e, space, rewritten)
    PROVE  ScopeInSpace'
<1> DEFINE carried == ScopeOf(e)
           cards   == CardsOf(e)
<1>1. /\ rows' = [x \in Created |->
                    IF x \in cards THEN Stepped([rows[x] EXCEPT !.scope = x])
                    ELSE IF x \notin carried THEN rows[x]
                    ELSE [rows[x] EXCEPT !.space = space,
                                         !.version = IF x \in rewritten THEN @ + 1 ELSE @]]
      /\ e \in Created /\ rows[e].scope = e
      /\ \A x \in Created \ cards : rows[x].scope \in carried => x \in carried
  BY DEF Move, ScopesStayTogether
<1>2. Created' = Created
  BY <1>1 DEF Created
<1>3. /\ \A x \in Created : x \in cards => x \notin carried
      /\ e \in carried /\ carried \subseteq Created
      /\ \A x \in carried : rows[x].scope = e
  BY <1>1, Constants DEF ScopeOf, CardsOf, Assumptions
<1>4. ASSUME NEW x \in Created
      PROVE  /\ rows'[x].space = IF x \in carried THEN space ELSE rows[x].space
             /\ rows'[x].scope = IF x \in cards THEN x ELSE rows[x].scope
  <2>1. rows[x] \in Row
    BY DEF LifecycleInv, TypeOK
  <2>2. CASE x \in cards
    BY <1>1, <1>3, <2>1, <2>2 DEF Row, Stepped
  <2>3. CASE x \notin cards /\ x \notin carried
    BY <1>1, <2>3
  <2>4. CASE x \notin cards /\ x \in carried
    BY <1>1, <2>1, <2>4 DEF Row
  <2>5. QED
    BY <2>2, <2>3, <2>4
<1>5. ASSUME NEW x \in Created
      PROVE  rows'[x].scope \in Created /\ rows'[rows'[x].scope].space = rows'[x].space
  <2>1. CASE x \in cards
    BY <1>4, <2>1
  <2>2. CASE x \in carried
    <3>1. x \notin cards /\ rows[x].scope = e /\ rows'[x].scope = e /\ rows'[x].space = space
      BY <1>3, <1>4, <2>2
    <3>2. rows'[e].space = space
      BY <1>1, <1>3, <1>4
    <3>3. QED
      BY <1>1, <3>1, <3>2
  <2>3. CASE x \notin cards /\ x \notin carried
    <3>1. rows[x].scope \in Created /\ rows[rows[x].scope].space = rows[x].space
      BY DEF ScopeInSpace
    <3>2. rows[x].scope \notin carried
      BY <1>1, <2>3
    <3>3. QED
      BY <1>4, <2>3, <3>1, <3>2
  <2>4. QED
    BY <2>1, <2>2, <2>3
<1>6. QED
  BY <1>2, <1>5 DEF ScopeInSpace

-----------------------------------------------------------------------------
(* The theorems.                                                           *)

\* A step of the system, whatever it is, keeps the invariant.
LEMMA StepKeeps ==
    ASSUME LifecycleInv, [Next]_vars
    PROVE  LifecycleInv'
<1>1. CASE UNCHANGED vars
  <2>1. UNCHANGED <<rows, sections, draft, taken>>
    BY <1>1 DEF vars
  <2>2. Created' = Created
    BY <2>1 DEF Created
  <2>3. QED
    BY <2>1, <2>2
       DEF LifecycleInv, TypeOK, OneLevelDeep, NoLiveOrphan, MarksAreCurrent,
           MarksAreHistory, DraftIsPast
<1>2. CASE \E o \in Objects, space \in Spaces, scope \in Objects,
              parent \in Tasks \cup {None}, section \in Sections \cup {None} :
                 Create(o, space, scope, parent, section)
  BY <1>2, CreateKeeps
<1>3. CASE \E t \in Tasks : OpenEdit(t)
  BY <1>3, OpenEditKeeps
<1>4. CASE \E parent \in Tasks \cup {None}, section \in Sections \cup {None} :
              SaveEdit(parent, section)
  BY <1>4, SaveEditKeeps
<1>5. CASE DropEdit
  BY <1>5, DropEditKeeps
<1>6. CASE \E o \in Objects : SoftDelete(o) \/ Recover(o)
  BY <1>6, SoftDeleteKeeps, RecoverKeeps
<1>7. CASE \E o, scope \in Objects : Rescope(o, scope)
  BY <1>7, RescopeKeeps
<1>8. CASE \E section \in Sections : CreateSection(section) \/ DeleteSection(section)
  BY <1>8, CreateSectionKeeps, DeleteSectionKeeps
<1>9. CASE \E e \in Events, space \in Spaces, rewritten \in SUBSET Tasks :
              Move(e, space, rewritten)
  BY <1>9, MoveKeeps
<1>10. QED
  BY <1>1, <1>2, <1>3, <1>4, <1>5, <1>6, <1>7, <1>8, <1>9 DEF Next

\* The inductive invariant holds of every reachable state.
THEOREM LifecycleKeepsItsInvariant == Spec => []LifecycleInv
<1>1. Init => LifecycleInv
  BY InitKeeps
<1>2. LifecycleInv /\ [Next]_vars => LifecycleInv'
  BY StepKeeps
<1>3. QED
  BY <1>1, <1>2, PTL DEF Spec

\* No live subtask ever has its parent in Trash (assertTaskParent, softDelete,
\* recover, carryScope).
THEOREM FamiliesStayWhole == Spec => []NoLiveOrphan
<1>1. LifecycleInv => NoLiveOrphan
  BY DEF LifecycleInv
<1>2. QED
  BY <1>1, LifecycleKeepsItsInvariant, PTL

\* Families stay one level deep and in one space (assertTaskParent, whatever an
\* update read before it, and carryScope).
THEOREM FamiliesStayShallow == Spec => []OneLevelDeep
<1>1. LifecycleInv => OneLevelDeep
  BY DEF LifecycleInv
<1>2. QED
  BY <1>1, LifecycleKeepsItsInvariant, PTL

\* A recovered task brings back exactly the subtasks it last took to Trash
\* (recover's select of the subtasks marked with the task).
THEOREM RecoveryIsExact == Spec => BringsBackWhatItTook
<1> DEFINE Exact ==
        \A p \in Created \cap Tasks :
            ~ rows[p].live /\ rows'[p].live =>
                {c \in Subtasks(p) : ~ rows[c].live /\ rows'[c].live} = taken[p]
<1>1. ASSUME LifecycleInv, [Next]_vars
      PROVE  [Exact]_vars
  <2>1. SUFFICES ASSUME NEW p \in Created \cap Tasks, ~ rows[p].live, rows'[p].live
                 PROVE  {c \in Subtasks(p) : ~ rows[c].live /\ rows'[c].live} = taken[p]
    OBVIOUS
  <2>2. CASE \E o \in Objects : Recover(o)
    <3>1. PICK o \in Objects : Recover(o)
      BY <2>2
    <3>2. CASE o = p
      BY <1>1, <3>1, <3>2, RecoverKeeps
    <3>3. CASE o # p
      BY <1>1, <2>1, <3>1, <3>3, CascadedTookNothing
    <3>4. QED
      BY <3>2, <3>3
  <2>3. CASE ~ \E o \in Objects : Recover(o)
    BY <1>1, <2>1, <2>3, OnlyRecoveryRevives
  <2>4. QED
    BY <2>2, <2>3
<1>2. QED
  BY <1>1, LifecycleKeepsItsInvariant, PTL DEF BringsBackWhatItTook, Spec

\* An object and the scope it inherits are in one space: no creation, rescoping
\* or move leaves them apart (assertPermissionScopeAuthorized, carryScope).
THEOREM ScopesStayInTheirSpace == Spec => []ScopeInSpace
<1> DEFINE Scopes == LifecycleInv /\ ScopeInSpace
<1>1. Init => Scopes
  <2>1. Init => ScopeInSpace
    BY DEF Init, Created, ScopeInSpace
  <2>2. QED
    BY <2>1, InitKeeps
<1>2. Scopes /\ [Next]_vars => Scopes'
  <2>1. SUFFICES ASSUME LifecycleInv, ScopeInSpace, [Next]_vars
                 PROVE  ScopeInSpace'
    BY StepKeeps
  <2>2. CASE \E o \in Objects, space \in Spaces, scope \in Objects,
                parent \in Tasks \cup {None}, section \in Sections \cup {None} :
                   Create(o, space, scope, parent, section)
    BY <2>1, <2>2, CreateKeepsScopes
  <2>3. CASE \E o, scope \in Objects : Rescope(o, scope)
    BY <2>1, <2>3, RescopeKeepsScopes
  <2>4. CASE \E e \in Events, space \in Spaces, rewritten \in SUBSET Tasks :
                Move(e, space, rewritten)
    BY <2>1, <2>4, MoveKeepsScopes
  <2>5. ASSUME ~ \E o \in Objects, space \in Spaces, scope \in Objects,
                   parent \in Tasks \cup {None}, section \in Sections \cup {None} :
                      Create(o, space, scope, parent, section),
               ~ \E o, scope \in Objects : Rescope(o, scope),
               ~ \E e \in Events, space \in Spaces, rewritten \in SUBSET Tasks :
                   Move(e, space, rewritten)
        PROVE  ScopeInSpace'
    <3>1. /\ Created' = Created
          /\ \A x \in Created : rows'[x].scope = rows[x].scope /\ rows'[x].space = rows[x].space
      BY <2>1, <2>5, OthersKeepScopes
    <3>2. QED
      BY <2>1, <3>1 DEF ScopeInSpace
  <2>6. QED
    BY <2>2, <2>3, <2>4, <2>5
<1>3. QED
  BY <1>1, <1>2, PTL DEF Spec

\* A task is attached within the scope it has at that moment, although its
\* scope was read before the fence was taken (updateTask, assertTaskParent).
THEOREM TasksAttachWithinScope == Spec => AttachesWithinScope
<1> DEFINE Within ==
        \A c \in Created :
            rows'[c].parent # rows[c].parent /\ rows'[c].parent # None =>
                rows'[c].scope = rows'[rows'[c].parent].scope
<1>1. ASSUME LifecycleInv, [Next]_vars
      PROVE  [Within]_vars
  <2>1. SUFFICES ASSUME NEW c \in Created, rows'[c].parent # rows[c].parent, rows'[c].parent # None
                 PROVE  rows'[c].scope = rows'[rows'[c].parent].scope
    OBVIOUS
  <2>2. PICK parent \in Tasks \cup {None}, section \in Sections \cup {None} :
           SaveEdit(parent, section)
    BY <1>1, <2>1, OnlyEditsAttach
  <2>3. c = draft.task /\ rows'[c].parent = parent /\ rows'[c].scope = rows[c].scope
    BY <1>1, <2>1, <2>2, EditWrites
  <2>4. ParentAllowed(c, parent, rows[c].scope, rows[c].space)
    BY <1>1, <2>1, <2>2, <2>3, EditWrites
  <2>5. parent # c /\ parent \in Created /\ rows[parent].scope = rows[c].scope
    BY <2>1, <2>3, <2>4 DEF ParentAllowed, LiveIn, In
  <2>6. rows'[parent] = rows[parent]
    BY <1>1, <2>2, <2>3, <2>5, EditWrites
  <2>7. QED
    BY <2>3, <2>5, <2>6
<1>2. QED
  BY <1>1, LifecycleKeepsItsInvariant, PTL DEF AttachesWithinScope, Spec

\* A task takes only a section that exists and belongs to the Event whose scope
\* it has, in its space (assertSectionMember, under what updateTask read).
THEOREM TasksTakeSectionsOfTheirEvent == Spec => TakesSectionOfItsEvent
<1> DEFINE Takes ==
        \A t \in Created :
            rows'[t].section # rows[t].section /\ rows'[t].section # None =>
                LET e == EventOf[rows'[t].section] IN
                   /\ rows'[t].section \in sections
                   /\ rows'[t].scope = e
                   /\ e \in Created /\ rows'[e].space = rows'[t].space
<1>1. ASSUME LifecycleInv, [Next]_vars
      PROVE  [Takes]_vars
  <2>1. SUFFICES ASSUME NEW c \in Created, rows'[c].section # rows[c].section, rows'[c].section # None
                 PROVE  LET e == EventOf[rows'[c].section] IN
                           /\ rows'[c].section \in sections
                           /\ rows'[c].scope = e
                           /\ e \in Created /\ rows'[e].space = rows'[c].space
    OBVIOUS
  <2>2. PICK parent \in Tasks \cup {None}, section \in Sections \cup {None} :
           SaveEdit(parent, section)
    BY <1>1, <2>1, OnlyEditsAttach
  <2>3. /\ c = draft.task /\ rows'[c].section = section
        /\ rows'[c].scope = rows[c].scope /\ rows'[c].space = rows[c].space
    BY <1>1, <2>1, <2>2, EditWrites
  <2>4. SectionAllowed(c, section, rows[c].scope, rows[c].space)
    BY <1>1, <2>1, <2>2, <2>3, EditWrites
  <2>5. /\ section \in sections /\ EventOf[section] = rows[c].scope /\ rows[c].scope # c
        /\ rows[c].scope \in Created /\ rows[rows[c].scope].space = rows[c].space
    BY <2>1, <2>3, <2>4 DEF SectionAllowed, In
  <2>6. rows'[rows[c].scope] = rows[rows[c].scope]
    BY <1>1, <2>2, <2>3, <2>5, EditWrites
  <2>7. QED
    BY <2>3, <2>5, <2>6
<1>2. QED
  BY <1>1, LifecycleKeepsItsInvariant, PTL DEF TakesSectionOfItsEvent, Spec
=============================================================================
