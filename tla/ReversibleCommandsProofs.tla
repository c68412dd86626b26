---------------------- MODULE ReversibleCommandsProofs ----------------------
(***************************************************************************)
(* What ReversibleCommands keeps, for any number of users, objects,        *)
(* operations, contents and versions, and any limit of the stack.          *)
(***************************************************************************)
EXTENDS ReversibleCommands, FilterTheorems, SequenceTheorems, TLAPS

\* A suffix of a stack: slice(-50) keeps the last commands in their order.
LEMMA LastCommandsIsSuffix ==
    ASSUME NEW S, NEW s \in Seq(S)
    PROVE  /\ LastCommands(s) \in Seq(S)
           /\ Len(LastCommands(s)) <= Len(s)
           /\ \A i \in 1 .. Len(LastCommands(s)) :
                 LastCommands(s)[i] = s[i + Len(s) - Len(LastCommands(s))]
           /\ s # <<>> => Len(LastCommands(s)) >= 1
<1>1. CASE Len(s) > StackLimit
  <2> DEFINE m == Len(s) - StackLimit + 1
  <2>1. m \in 1 .. Len(s) + 1 /\ StackLimit \in Nat \ {0}
    BY <1>1, LimitsAreCounts
  <2>2. /\ SubSeq(s, m, Len(s)) \in Seq(S)
        /\ Len(SubSeq(s, m, Len(s))) = StackLimit
        /\ \A i \in 1 .. StackLimit : SubSeq(s, m, Len(s))[i] = s[m + i - 1]
    BY <2>1, <1>1, SubSeqProperties
  <2>3. LastCommands(s) = SubSeq(s, m, Len(s))
    BY <1>1 DEF LastCommands
  <2> HIDE DEF m
  <2>4. \A i \in 1 .. StackLimit : m + i - 1 = i + Len(s) - StackLimit
    BY <2>1 DEF m
  <2>5. \A i \in 1 .. StackLimit : LastCommands(s)[i] = s[i + Len(s) - StackLimit]
    BY <2>2, <2>3, <2>4
  <2>6. Len(LastCommands(s)) = StackLimit
    BY <2>2, <2>3
  <2>7. LastCommands(s) \in Seq(S)
    BY <2>2, <2>3
  <2>8. StackLimit <= Len(s) /\ StackLimit >= 1
    BY <2>1, <1>1
  <2>9. QED
    BY <2>5, <2>6, <2>7, <2>8
<1>2. CASE ~ (Len(s) > StackLimit)
  BY <1>2, LimitsAreCounts DEF LastCommands
<1>3. QED
  BY <1>1, <1>2

LEMMA PoppedIsPrefix ==
    ASSUME NEW S, NEW s \in Seq(S), s # <<>>
    PROVE  /\ Popped(s) \in Seq(S)
           /\ Len(Popped(s)) = Len(s) - 1
           /\ \A i \in 1 .. Len(Popped(s)) : Popped(s)[i] = s[i]
<1>1. /\ SubSeq(s, 1, Len(s) - 1) \in Seq(S)
      /\ Len(SubSeq(s, 1, Len(s) - 1)) = Len(s) - 1
      /\ \A i \in 1 .. Len(s) - 1 : SubSeq(s, 1, Len(s) - 1)[i] = s[i]
  <2>1. Len(s) \in Nat \ {0} /\ \A i \in 1 .. Len(s) - 1 : s[i] \in S
    OBVIOUS
  <2> DEFINE n == Len(s) - 1
  <2>2. n \in Nat /\ n - 1 + 1 = n /\ \A i \in 1 .. n : 1 + i - 1 = i
    BY <2>1
  <2>3. (IF 1 <= n THEN n - 1 + 1 ELSE 0) = n
    BY <2>2
  <2> HIDE DEF n
  <2>4. /\ SubSeq(s, 1, n) \in Seq(S)
        /\ Len(SubSeq(s, 1, n)) = n
        /\ \A i \in 1 .. n : SubSeq(s, 1, n)[i] = s[1 + i - 1]
    BY <2>1, <2>2, <2>3, SubSeqProperties DEF n
  <2>5. QED
    BY <2>2, <2>4 DEF n
<1>2. QED
  BY <1>1 DEF Popped

LEMMA AppendIsExtension ==
    ASSUME NEW S, NEW s \in Seq(S), NEW x \in S
    PROVE  /\ Append(s, x) \in Seq(S)
           /\ Append(s, x) # <<>>
           /\ Len(Append(s, x)) = Len(s) + 1
           /\ \A i \in 1 .. Len(s) : Append(s, x)[i] = s[i]
           /\ Append(s, x)[Len(s) + 1] = x
  OBVIOUS

\* A write appends at most one revision to each object and changes none.
RevisionsKept ==
    \A o \in Objects :
        /\ Len(rev[o]) <= Len(rev'[o])
        /\ \A v \in 1 .. Len(rev[o]) : rev'[o][v] = rev[o][v]

LEMMA WriteKeepsRevisions ==
    ASSUME TypeOK, NEW new, NEW by \in (Users \X Ops) \cup {Untracked},
           \A o \in DOMAIN new : new[o].content \in Contents /\ new[o].kept \in Kept,
           rev' = Written(new, by)
    PROVE  /\ rev' \in [Objects -> Seq(Snapshot) \ {<<>>}]
           /\ RevisionsKept
           /\ \A o \in Objects \ DOMAIN new : rev'[o] = rev[o]
           /\ \A o \in Objects \cap DOMAIN new :
                 /\ Len(rev'[o]) = Len(rev[o]) + 1
                 /\ rev'[o][Len(rev[o]) + 1].content = new[o].content
                 /\ rev'[o][Len(rev[o]) + 1].by = by
<1>1. ASSUME NEW o \in Objects
      PROVE  /\ rev'[o] \in Seq(Snapshot) \ {<<>>}
             /\ Len(rev[o]) <= Len(rev'[o])
             /\ \A v \in 1 .. Len(rev[o]) : rev'[o][v] = rev[o][v]
             /\ o \notin DOMAIN new => rev'[o] = rev[o]
             /\ o \in DOMAIN new =>
                  /\ Len(rev'[o]) = Len(rev[o]) + 1
                  /\ rev'[o][Len(rev[o]) + 1].content = new[o].content
                  /\ rev'[o][Len(rev[o]) + 1].by = by
  <2>1. rev[o] \in Seq(Snapshot) /\ rev[o] # <<>> /\ Len(rev[o]) \in Nat
    BY DEF TypeOK
  <2>2. CASE o \in DOMAIN new
    <3> DEFINE s == [content |-> new[o].content, kept |-> new[o].kept, live |-> TRUE, by |-> by]
    <3>1. s \in Snapshot /\ s.content = new[o].content /\ s.by = by
      BY <2>2 DEF Snapshot
    <3>2. rev'[o] = Append(rev[o], s)
      BY <2>2 DEF Written
    <3> HIDE DEF s
    <3>3. QED
      BY <2>1, <2>2, <3>1, <3>2, AppendIsExtension
  <2>3. CASE o \notin DOMAIN new
    BY <2>1, <2>3 DEF Written
  <2>4. QED
    BY <2>2, <2>3
<1>2. rev' = [o \in Objects |-> rev'[o]]
  BY DEF Written
<1>3. QED
  BY <1>1, <1>2 DEF RevisionsKept

-----------------------------------------------------------------------------
(* Type correctness.                                                        *)

LEMMA CurrentIsSnapshot ==
    ASSUME TypeOK, NEW o \in Objects
    PROVE  /\ Version(o) \in Nat \ {0}
           /\ Current(o) \in Snapshot
           /\ \A v \in 1 .. Version(o) : rev[o][v] \in Snapshot
<1>1. rev[o] \in Seq(Snapshot) /\ rev[o] # <<>>
  BY DEF TypeOK
<1>2. Version(o) \in Nat \ {0} /\ \A v \in 1 .. Version(o) : rev[o][v] \in Snapshot
  BY <1>1 DEF Version
<1>3. QED
  BY <1>2 DEF Current

\* Expecting the versions a write gives keeps the expectations well-typed.
LEMMA AdvancedTyped ==
    ASSUME TypeOK, NEW expected, Versions(expected), NEW written \in SUBSET Objects,
           \A o \in written : Version(o) < MaxVersion
    PROVE  /\ Versions(Advanced(expected, written))
           /\ DOMAIN Advanced(expected, written) = DOMAIN expected \cup written
           /\ \A o \in written : Advanced(expected, written)[o] = Version(o) + 1
           /\ \A o \in DOMAIN expected \ written : Advanced(expected, written)[o] = expected[o]
<1>1. \A o \in written : Version(o) + 1 \in 1 .. MaxVersion
  BY CurrentIsSnapshot, LimitsAreCounts
<1>2. QED
  BY <1>1 DEF Advanced, Versions

LEMMA RecordedTyped ==
    ASSUME TypeOK, NEW u \in Users, NEW op \in Ops, NEW cmd \in DOMAIN changes'[u],
           NEW direction \in Directions, NEW version, NEW written \in SUBSET Objects,
           \A o \in written : Version(o) < MaxVersion,
           DOMAIN changes[u] \subseteq DOMAIN changes'[u],
           \A w \in Users \ {u} : changes'[w] = changes[w],
           receipts' = Recorded(u, op, Receipt(cmd, direction, version, written))
    PROVE  /\ DOMAIN receipts' = Users
           /\ DOMAIN receipts'[u] = DOMAIN receipts[u] \cup {op}
           /\ \A w \in Users \ {u} : receipts'[w] = receipts[w]
           /\ \A w \in Users : \A x \in DOMAIN receipts'[w] :
                 /\ receipts'[w][x].command \in DOMAIN changes'[w]
                 /\ receipts'[w][x].direction \in Directions
                 /\ Versions(receipts'[w][x].objects)
<1> DEFINE r == Receipt(cmd, direction, version, written)
<1>1. \A o \in written : Version(o) + 1 \in 1 .. MaxVersion
  BY CurrentIsSnapshot, LimitsAreCounts
<1>2. r.command = cmd /\ r.direction = direction /\ Versions(r.objects)
  BY <1>1 DEF Receipt, Versions
<1> HIDE DEF r
<1>3. /\ DOMAIN receipts' = Users
      /\ DOMAIN receipts'[u] = DOMAIN receipts[u] \cup {op}
      /\ receipts'[u][op] = r
      /\ \A x \in DOMAIN receipts[u] \ {op} : receipts'[u][x] = receipts[u][x]
      /\ \A w \in Users \ {u} : receipts'[w] = receipts[w]
  BY DEF Recorded, TypeOK, r
<1>4. ASSUME NEW w \in Users, NEW x \in DOMAIN receipts'[w]
      PROVE  /\ receipts'[w][x].command \in DOMAIN changes'[w]
             /\ receipts'[w][x].direction \in Directions
             /\ Versions(receipts'[w][x].objects)
  <2>1. CASE w = u /\ x = op
    BY <2>1, <1>2, <1>3
  <2>2. CASE w = u /\ x # op
    BY <2>2, <1>3 DEF TypeOK
  <2>3. CASE w # u
    BY <2>3, <1>3 DEF TypeOK
  <2>4. QED
    BY <2>1, <2>2, <2>3
<1>5. QED
  BY <1>3, <1>4

\* The edits of a request name objects and content.
LEMMA EditSetsTyped ==
    ASSUME NEW edits \in EditSets
    PROVE  /\ DOMAIN edits \in SUBSET Objects
           /\ \A o \in DOMAIN edits : /\ edits[o].content \in Contents
                                      /\ edits[o].kept \in Kept
                                      /\ edits[o].expected \in 1 .. MaxVersion
  BY DEF EditSets, PartialFunctions, Edit

\* What an execute does to the stack and the command records of its user.
LEMMA ExecuteEffect ==
    ASSUME TypeOK, NEW u \in Users, NEW op \in Ops, NEW edits \in EditSets,
           Execute(u, op, edits)
    PROVE  LET undo == IF HasDiverged(u, edits) THEN <<>> ELSE stack[u].undo
               expected == IF HasDiverged(u, edits) THEN NoExpectations ELSE stack[u].expected
           IN  /\ undo \in Seq(Ops) /\ Versions(expected)
               /\ rev' = Written(edits, <<u, op>>)
               /\ \A o \in DOMAIN edits : /\ Version(o) = edits[o].expected
                                          /\ Version(o) < MaxVersion
               /\ DOMAIN changes'[u] = DOMAIN changes[u] \cup {op}
               /\ changes'[u][op] = [o \in DOMAIN edits |-> edits[o].expected]
               /\ \A c \in DOMAIN changes[u] \ {op} : changes'[u][c] = changes[u][c]
               /\ DOMAIN changes' = Users
               /\ \A w \in Users \ {u} : changes'[w] = changes[w] /\ stack'[w] = stack[w]
               /\ DOMAIN stack' = Users
               /\ stack'[u] = SavedStack(stack[u], changes'[u], LastCommands(Append(undo, op)),
                                         <<>>, Advanced(expected, DOMAIN edits))
               /\ receipts' = Recorded(u, op, Receipt(op, "execute", stack[u].version + 1, DOMAIN edits))
               /\ here' = here /\ editors' = editors
<1>1. stack[u].undo \in Seq(Ops) /\ Versions(stack[u].expected)
      /\ DOMAIN stack = Users /\ DOMAIN changes = Users
  BY DEF TypeOK
<1>2. Versions(NoExpectations)
  BY DEF NoExpectations, Versions
<1> DEFINE ch == [c \in DOMAIN changes[u] \cup {op} |->
                    IF c = op THEN [o \in DOMAIN edits |-> edits[o].expected]
                    ELSE changes[u][c]]
<1>3. changes'[u] = ch /\ DOMAIN changes' = Users
      /\ \A w \in Users \ {u} : changes'[w] = changes[w]
  BY <1>1 DEF Execute
<1>4. QED
  BY <1>1, <1>2, <1>3 DEF Execute

LEMMA ExecuteTyped ==
    ASSUME TypeOK, NEW u \in Users, NEW op \in Ops, NEW edits \in EditSets,
           Execute(u, op, edits)
    PROVE  TypeOK'
<1> DEFINE undo == IF HasDiverged(u, edits) THEN <<>> ELSE stack[u].undo
           expected == IF HasDiverged(u, edits) THEN NoExpectations ELSE stack[u].expected
           saved == SavedStack(stack[u], changes'[u], LastCommands(Append(undo, op)),
                               <<>>, Advanced(expected, DOMAIN edits))
<1>1. /\ undo \in Seq(Ops) /\ Versions(expected)
      /\ rev' = Written(edits, <<u, op>>)
      /\ \A o \in DOMAIN edits : Version(o) < MaxVersion
      /\ DOMAIN changes'[u] = DOMAIN changes[u] \cup {op}
      /\ changes'[u][op] = [o \in DOMAIN edits |-> edits[o].expected]
      /\ \A c \in DOMAIN changes[u] \ {op} : changes'[u][c] = changes[u][c]
      /\ DOMAIN changes' = Users
      /\ \A w \in Users \ {u} : changes'[w] = changes[w] /\ stack'[w] = stack[w]
      /\ DOMAIN stack' = Users
      /\ stack'[u] = saved
      /\ receipts' = Recorded(u, op, Receipt(op, "execute", stack[u].version + 1, DOMAIN edits))
      /\ here' = here /\ editors' = editors
  BY ExecuteEffect
<1> HIDE DEF undo, expected
<1>2. /\ DOMAIN edits \in SUBSET Objects
      /\ \A o \in DOMAIN edits : /\ edits[o].content \in Contents /\ edits[o].kept \in Kept
                                 /\ edits[o].expected \in 1 .. MaxVersion
  BY EditSetsTyped
<1>3. rev' \in [Objects -> Seq(Snapshot) \ {<<>>}]
  BY <1>1, <1>2, WriteKeepsRevisions
<1>4. LastCommands(Append(undo, op)) \in Seq(Ops)
  BY <1>1, AppendIsExtension, LastCommandsIsSuffix
<1>5. Versions(Advanced(expected, DOMAIN edits))
  BY <1>1, <1>2, AdvancedTyped
<1>6. /\ saved.version \in Nat /\ saved.undo \in Seq(Ops) /\ saved.redo \in Seq(Ops)
      /\ Versions(saved.expected)
  <2>1. stack[u].version \in Nat /\ <<>> \in Seq(Ops)
    BY DEF TypeOK
  <2>2. QED
    BY <2>1, <1>4, <1>5 DEF SavedStack, Versions
<1> HIDE DEF saved
<1>7. /\ DOMAIN receipts' = Users
      /\ DOMAIN receipts'[u] = DOMAIN receipts[u] \cup {op}
      /\ \A w \in Users \ {u} : receipts'[w] = receipts[w]
      /\ \A w \in Users : \A x \in DOMAIN receipts'[w] :
                 /\ receipts'[w][x].command \in DOMAIN changes'[w]
                 /\ receipts'[w][x].direction \in Directions
                 /\ Versions(receipts'[w][x].objects)
  BY <1>1, <1>2, RecordedTyped DEF Directions
<1>8. /\ DOMAIN changes'[u] \subseteq Ops
      /\ \A c \in DOMAIN changes'[u] : Versions(changes'[u][c])
  <2>1. Versions([o \in DOMAIN edits |-> edits[o].expected])
    BY <1>2 DEF Versions
  <2>2. DOMAIN changes[u] \subseteq Ops /\ \A c \in DOMAIN changes[u] : Versions(changes[u][c])
    BY DEF TypeOK
  <2>3. ASSUME NEW c \in DOMAIN changes'[u] PROVE Versions(changes'[u][c])
    <3>1. CASE c = op
      BY <3>1, <2>1, <1>1
    <3>2. CASE c # op
      BY <3>2, <2>2, <1>1
    <3>3. QED
      BY <3>1, <3>2
  <2>4. QED
    BY <2>2, <2>3, <1>1
<1>9. ASSUME NEW w \in Users
      PROVE  /\ stack'[w].version \in Nat
             /\ stack'[w].undo \in Seq(Ops) /\ stack'[w].redo \in Seq(Ops)
             /\ Versions(stack'[w].expected)
             /\ DOMAIN changes'[w] \subseteq Ops
             /\ \A c \in DOMAIN changes'[w] : Versions(changes'[w][c])
             /\ DOMAIN receipts'[w] \subseteq Ops
  <2>1. CASE w = u
    BY <2>1, <1>1, <1>6, <1>7, <1>8 DEF TypeOK
  <2>2. CASE w # u
    BY <2>2, <1>1, <1>7 DEF TypeOK
  <2>3. QED
    BY <2>1, <2>2
<1>10. here' \in SUBSET Objects /\ editors' \in SUBSET (Users \X Objects)
  BY <1>1 DEF TypeOK
<1>11. QED
  BY <1>1, <1>3, <1>7, <1>9, <1>10 DEF TypeOK, Versions

\* What an undo or a redo does to the stack of its user.
LEMMA TransitionEffect ==
    ASSUME TypeOK, NEW u \in Users, NEW op \in Ops, NEW cmd \in DOMAIN changes[u],
           NEW direction \in {"undo", "redo"},
           Transition(u, op, cmd, direction)
    PROVE  LET undo == IF direction = "undo" THEN Popped(stack[u].undo)
                                            ELSE Append(stack[u].undo, cmd)
               redo == IF direction = "undo" THEN Append(stack[u].redo, cmd)
                                            ELSE Popped(stack[u].redo)
               source == IF direction = "undo" THEN stack[u].undo ELSE stack[u].redo
           IN  /\ cmd \in Ops
               /\ source # <<>> /\ source[Len(source)] = cmd
               /\ undo \in Seq(Ops) /\ redo \in Seq(Ops)
               /\ Versions(stack[u].expected)
               /\ DOMAIN changes[u][cmd] \in SUBSET Objects
               /\ rev' = Written(InverseEdits(u, cmd, direction), <<u, op>>)
               /\ \A o \in DOMAIN changes[u][cmd] :
                     /\ o \in DOMAIN stack[u].expected
                     /\ Version(o) = stack[u].expected[o]
                     /\ Version(o) < MaxVersion
               /\ changes' = changes
               /\ \A w \in Users \ {u} : stack'[w] = stack[w]
               /\ DOMAIN stack' = Users
               /\ stack'[u] = SavedStack(stack[u], changes[u], undo, redo,
                                         Advanced(stack[u].expected, DOMAIN changes[u][cmd]))
               /\ receipts' = Recorded(u, op, Receipt(cmd, direction, stack[u].version + 1,
                                                      DOMAIN changes[u][cmd]))
               /\ here' = here /\ editors' = editors
<1>1. /\ stack[u].undo \in Seq(Ops) /\ stack[u].redo \in Seq(Ops) /\ Versions(stack[u].expected)
      /\ DOMAIN stack = Users /\ cmd \in Ops /\ DOMAIN changes[u][cmd] \in SUBSET Objects
  BY DEF TypeOK, Versions
<1>2. CASE direction = "undo"
  <2>1. stack[u].undo # <<>> /\ stack[u].undo[Len(stack[u].undo)] = cmd
    BY <1>2 DEF Transition, HeadIs
  <2>2. Popped(stack[u].undo) \in Seq(Ops) /\ Append(stack[u].redo, cmd) \in Seq(Ops)
    BY <1>1, <2>1, PoppedIsPrefix, AppendIsExtension
  <2>3. QED
    BY <1>1, <1>2, <2>1, <2>2 DEF Transition, MembersUnmoved
<1>3. CASE direction = "redo"
  <2>1. stack[u].redo # <<>> /\ stack[u].redo[Len(stack[u].redo)] = cmd
    BY <1>3 DEF Transition, HeadIs
  <2>2. Popped(stack[u].redo) \in Seq(Ops) /\ Append(stack[u].undo, cmd) \in Seq(Ops)
    BY <1>1, <2>1, PoppedIsPrefix, AppendIsExtension
  <2>3. QED
    BY <1>1, <1>3, <2>1, <2>2 DEF Transition, MembersUnmoved
<1>4. QED
  BY <1>2, <1>3

\* readContentEdit takes its content from a revision that exists.
LEMMA InverseTyped ==
    ASSUME TypeOK, ChangesRecorded, NEW u \in Users, NEW cmd \in DOMAIN changes[u],
           NEW direction \in {"undo", "redo"}
    PROVE  /\ DOMAIN InverseEdits(u, cmd, direction) = DOMAIN changes[u][cmd]
           /\ \A o \in DOMAIN changes[u][cmd] :
                 /\ SourceVersion(u, cmd, o, direction) \in 1 .. Version(o)
                 /\ InverseEdits(u, cmd, direction)[o].content \in Contents
                 /\ InverseEdits(u, cmd, direction)[o].kept \in Kept
<1>1. ASSUME NEW o \in DOMAIN changes[u][cmd]
      PROVE  /\ SourceVersion(u, cmd, o, direction) \in 1 .. Version(o)
             /\ rev[o][SourceVersion(u, cmd, o, direction)].content \in Contents
             /\ Current(o).kept \in Kept
  <2>1. o \in Objects /\ changes[u][cmd][o] \in 1 .. MaxVersion
    BY DEF TypeOK, Versions
  <2>2. changes[u][cmd][o] < Version(o)
    BY DEF ChangesRecorded
  <2>3. /\ Version(o) \in Nat \ {0} /\ Current(o) \in Snapshot
        /\ \A v \in 1 .. Version(o) : rev[o][v] \in Snapshot
    BY <2>1, CurrentIsSnapshot
  <2>4. SourceVersion(u, cmd, o, direction) \in 1 .. Version(o)
    BY <2>1, <2>2, <2>3, LimitsAreCounts DEF SourceVersion
  <2>5. QED
    BY <2>3, <2>4 DEF Snapshot
<1>2. QED
  BY <1>1 DEF InverseEdits

LEMMA TransitionTyped ==
    ASSUME TypeOK, ChangesRecorded, NEW u \in Users, NEW op \in Ops,
           NEW cmd \in DOMAIN changes[u], NEW direction \in {"undo", "redo"},
           Transition(u, op, cmd, direction)
    PROVE  TypeOK'
<1> DEFINE undo == IF direction = "undo" THEN Popped(stack[u].undo)
                                        ELSE Append(stack[u].undo, cmd)
           redo == IF direction = "undo" THEN Append(stack[u].redo, cmd)
                                        ELSE Popped(stack[u].redo)
           written == DOMAIN changes[u][cmd]
           saved == SavedStack(stack[u], changes[u], undo, redo,
                               Advanced(stack[u].expected, written))
<1>1. /\ undo \in Seq(Ops) /\ redo \in Seq(Ops)
      /\ Versions(stack[u].expected)
      /\ written \in SUBSET Objects
      /\ rev' = Written(InverseEdits(u, cmd, direction), <<u, op>>)
      /\ \A o \in written : Version(o) < MaxVersion
      /\ changes' = changes
      /\ \A w \in Users \ {u} : stack'[w] = stack[w]
      /\ DOMAIN stack' = Users
      /\ stack'[u] = saved
      /\ receipts' = Recorded(u, op, Receipt(cmd, direction, stack[u].version + 1, written))
      /\ here' = here /\ editors' = editors
  BY TransitionEffect
<1> HIDE DEF undo, redo
<1>2. rev' \in [Objects -> Seq(Snapshot) \ {<<>>}]
  BY <1>1, InverseTyped, WriteKeepsRevisions
<1>3. Versions(Advanced(stack[u].expected, written))
  BY <1>1, AdvancedTyped
<1>4. /\ saved.version \in Nat /\ saved.undo \in Seq(Ops) /\ saved.redo \in Seq(Ops)
      /\ Versions(saved.expected)
  <2>1. stack[u].version \in Nat
    BY DEF TypeOK
  <2>2. QED
    BY <2>1, <1>1, <1>3 DEF SavedStack, Versions
<1> HIDE DEF saved
<1>5. /\ DOMAIN receipts' = Users
      /\ DOMAIN receipts'[u] = DOMAIN receipts[u] \cup {op}
      /\ \A w \in Users \ {u} : receipts'[w] = receipts[w]
      /\ \A w \in Users : \A x \in DOMAIN receipts'[w] :
                 /\ receipts'[w][x].command \in DOMAIN changes'[w]
                 /\ receipts'[w][x].direction \in Directions
                 /\ Versions(receipts'[w][x].objects)
  <2>1. cmd \in DOMAIN changes'[u] /\ direction \in Directions
    BY <1>1 DEF Directions
  <2>2. QED
    BY <2>1, <1>1, RecordedTyped
<1>6. ASSUME NEW w \in Users
      PROVE  /\ stack'[w].version \in Nat
             /\ stack'[w].undo \in Seq(Ops) /\ stack'[w].redo \in Seq(Ops)
             /\ Versions(stack'[w].expected)
             /\ DOMAIN receipts'[w] \subseteq Ops
  <2>1. CASE w = u
    BY <2>1, <1>1, <1>4, <1>5 DEF TypeOK
  <2>2. CASE w # u
    BY <2>2, <1>1, <1>5 DEF TypeOK
  <2>3. QED
    BY <2>1, <2>2
<1>7. here' \in SUBSET Objects /\ editors' \in SUBSET (Users \X Objects)
  BY <1>1 DEF TypeOK
<1>8. QED
  BY <1>1, <1>2, <1>5, <1>6, <1>7 DEF TypeOK, Versions

-----------------------------------------------------------------------------
(* The invariant of one user's stack, and the coherence that moves may take *)
(* from it.                                                                 *)

UserInv(u) ==
    /\ \A c \in DOMAIN changes[u] :
          /\ c \in DOMAIN receipts[u]
          /\ \A o \in DOMAIN changes[u][c] : changes[u][c][o] < Version(o)
    /\ Len(stack[u].undo) + Len(stack[u].redo) <= StackLimit
    /\ Reachable(u) \subseteq DOMAIN changes[u]
    /\ DOMAIN stack[u].expected = Touched(changes[u], Reachable(u))
    /\ \A o \in DOMAIN stack[u].expected :
          /\ stack[u].expected[o] \in 1 .. Version(o)
          /\ rev[o][stack[u].expected[o]].by \in {u} \X Ops

Coherent(u) == \A o \in DOMAIN stack[u].expected : ChainOfContent(u, o)

LEMMA InvariantByUser ==
    /\ RecordsInv <=> TypeOK /\ ReceiptsMatchLedger /\ \A u \in Users : UserInv(u)
    /\ StackCoherent <=> \A u \in Users : Coherent(u)
  BY DEF RecordsInv, ChangesRecorded, StackBounded, ExpectsWhatIsInReach, ExpectsOwnWrites,
         StackCoherent, UserInv, Coherent

\* The revisions a reachable command refers to exist, so a later write leaves
\* the contents it found and left as they are.
LEMMA ContentKept ==
    ASSUME TypeOK, RevisionsKept, NEW u \in Users, NEW c \in DOMAIN changes[u],
           NEW o \in DOMAIN changes[u][c], changes[u][c][o] < Version(o),
           c \in DOMAIN changes'[u], changes'[u][c] = changes[u][c]
    PROVE  /\ Before(rev', changes'[u], c, o) = Before(rev, changes[u], c, o)
           /\ After(rev', changes'[u], c, o) = After(rev, changes[u], c, o)
<1>1. o \in Objects /\ changes[u][c][o] \in Nat \ {0}
  BY LimitsAreCounts DEF TypeOK, Versions
<1>2. Version(o) \in Nat
  BY <1>1, CurrentIsSnapshot
<1>3. changes[u][c][o] \in 1 .. Version(o) /\ changes[u][c][o] + 1 \in 1 .. Version(o)
  BY <1>1, <1>2
<1>4. QED
  BY <1>1, <1>3 DEF Before, After, RevisionsKept, Version

\* A step that leaves the stack and the commands of a user alone, whatever it
\* does to the objects, keeps that user's invariant.
LEMMA OtherStepsKeepUserInv ==
    ASSUME TypeOK, RevisionsKept, NEW u \in Users, UserInv(u),
           stack'[u] = stack[u], changes'[u] = changes[u],
           DOMAIN receipts[u] \subseteq DOMAIN receipts'[u],
           \A o \in Objects : Len(rev'[o]) \in Nat
    PROVE  UserInv(u)' /\ (Coherent(u) => Coherent(u)')
<1>1. ASSUME NEW o \in Objects
      PROVE  Version(o) \in Nat /\ Version(o)' \in Nat /\ Version(o) <= Version(o)'
  BY CurrentIsSnapshot DEF RevisionsKept, Version
<1>2. ASSUME NEW c \in DOMAIN changes[u]
      PROVE  DOMAIN changes[u][c] \subseteq Objects /\
             \A o \in DOMAIN changes[u][c] : changes[u][c][o] \in Nat
  BY LimitsAreCounts DEF TypeOK, Versions
<1>3. ASSUME NEW c \in DOMAIN changes'[u]
      PROVE  /\ c \in DOMAIN receipts'[u]
             /\ \A o \in DOMAIN changes'[u][c] : changes'[u][c][o] < Version(o)'
  BY <1>1, <1>2 DEF UserInv
<1>4. Reachable(u)' = Reachable(u)
  BY DEF Reachable, RangeOf
<1>5. ASSUME NEW o \in DOMAIN stack[u].expected
      PROVE  /\ stack'[u].expected[o] \in 1 .. Version(o)'
             /\ rev'[o][stack'[u].expected[o]] = rev[o][stack[u].expected[o]]
  <2>1. o \in Objects /\ stack[u].expected[o] \in 1 .. Version(o)
    BY DEF TypeOK, Versions, UserInv
  <2>2. QED
    BY <2>1, <1>1 DEF RevisionsKept, Version
<1>6. ASSUME Coherent(u), NEW o \in DOMAIN stack[u].expected
      PROVE  ChainOfContent(u, o)'
  <2>1. \A c \in DOMAIN changes[u] : o \in DOMAIN changes[u][c] =>
           /\ Before(rev', changes'[u], c, o) = Before(rev, changes[u], c, o)
           /\ After(rev', changes'[u], c, o) = After(rev, changes[u], c, o)
    BY ContentKept DEF UserInv
  <2>2. /\ \A i \in 1 .. Len(stack[u].undo) : stack[u].undo[i] \in DOMAIN changes[u]
        /\ \A i \in 1 .. Len(stack[u].redo) : stack[u].redo[i] \in DOMAIN changes[u]
    BY DEF UserInv, Reachable, RangeOf
  <2>3. ASSUME NEW s, NEW i PROVE IsTop(changes[u], s, o, i) => o \in DOMAIN changes[u][s[i]]
    BY DEF IsTop, Places
  <2>4. ASSUME NEW s, NEW i, NEW j
        PROVE  Follows(changes[u], s, o, i, j) =>
                 o \in DOMAIN changes[u][s[i]] /\ o \in DOMAIN changes[u][s[j]]
    BY DEF Follows, Places
  <2>5. ChainOfContent(u, o)
    BY <1>6 DEF Coherent
  <2>6. QED
    BY <2>1, <2>2, <2>3, <2>4, <2>5, <1>5 DEF ChainOfContent, Chain
<1>7. DOMAIN stack'[u].expected = Touched(changes'[u], Reachable(u)')
      /\ Reachable(u)' \subseteq DOMAIN changes'[u]
      /\ Len(stack'[u].undo) + Len(stack'[u].redo) <= StackLimit
  BY <1>4 DEF UserInv
<1>8. \A o \in DOMAIN stack[u].expected : rev[o][stack[u].expected[o]].by \in {u} \X Ops
  BY DEF UserInv
<1>9. QED
  BY <1>3, <1>5, <1>6, <1>7, <1>8 DEF UserInv, Coherent

\* A new command keeps its user's invariant: on the divergence branch the stack
\* starts over with the command alone; otherwise the command is put on top of
\* entries whose chain ends in the content it found.
LEMMA ExecuteKeepsUserInv ==
    ASSUME TypeOK, NEW u \in Users, UserInv(u), NEW op \in Ops, op \notin DOMAIN receipts[u],
           NEW edits \in EditSets, Execute(u, op, edits)
    PROVE  UserInv(u)' /\ (Coherent(u) => Coherent(u)')
\* Constants for the trusted entries, the new stack and the new records.
<1>0. SUFFICES ASSUME NEW base, base = IF HasDiverged(u, edits) THEN <<>> ELSE stack[u].undo,
                    NEW trusted,
                    trusted = IF HasDiverged(u, edits) THEN NoExpectations
                                                       ELSE stack[u].expected,
                    NEW undo, undo = LastCommands(Append(base, op)),
                    NEW expected, expected = Advanced(trusted, DOMAIN edits),
                    NEW d, d = Len(base) + 1 - Len(undo),
                    NEW ch, ch = changes'[u]
             PROVE  UserInv(u)' /\ (Coherent(u) => Coherent(u)')
  OBVIOUS
<1>1. /\ base \in Seq(Ops) /\ Versions(trusted)
      /\ rev' = Written(edits, <<u, op>>)
      /\ \A o \in DOMAIN edits : Version(o) = edits[o].expected /\ Version(o) < MaxVersion
      /\ DOMAIN ch = DOMAIN changes[u] \cup {op}
      /\ ch[op] = [o \in DOMAIN edits |-> edits[o].expected]
      /\ \A c \in DOMAIN changes[u] \ {op} : ch[c] = changes[u][c]
      /\ stack'[u] = SavedStack(stack[u], ch, undo, <<>>, expected)
      /\ DOMAIN receipts' = Users
      /\ DOMAIN receipts'[u] = DOMAIN receipts[u] \cup {op}
  <2>1. /\ DOMAIN receipts = Users
        /\ receipts' = Recorded(u, op, Receipt(op, "execute", stack[u].version + 1, DOMAIN edits))
    BY ExecuteEffect DEF TypeOK
  <2>2. DOMAIN receipts' = Users /\ DOMAIN receipts'[u] = DOMAIN receipts[u] \cup {op}
    BY <2>1 DEF Recorded
  <2>3. QED
    BY <1>0, <2>2, ExecuteEffect
<1>2. /\ DOMAIN edits \in SUBSET Objects
      /\ \A o \in DOMAIN edits : edits[o].content \in Contents /\ edits[o].kept \in Kept
  BY EditSetsTyped
\* The revisions after the step.
<1>3. /\ RevisionsKept
      /\ \A o \in Objects \ DOMAIN edits : rev'[o] = rev[o]
      /\ \A o \in DOMAIN edits :
            /\ Version(o)' = Version(o) + 1
            /\ rev'[o][Version(o) + 1].content = edits[o].content
            /\ rev'[o][Version(o) + 1].by = <<u, op>>
  <2> DEFINE by == <<u, op>>
  <2>1. by \in (Users \X Ops) \cup {Untracked} /\ rev' = Written(edits, by)
    BY <1>1
  <2> HIDE DEF by
  <2>2. /\ RevisionsKept
        /\ \A o \in Objects \ DOMAIN edits : rev'[o] = rev[o]
        /\ \A o \in Objects \cap DOMAIN edits :
              /\ Len(rev'[o]) = Len(rev[o]) + 1
              /\ rev'[o][Len(rev[o]) + 1].content = edits[o].content
              /\ rev'[o][Len(rev[o]) + 1].by = by
    BY <1>2, <2>1, WriteKeepsRevisions
  <2>3. QED
    BY <2>2, <1>2 DEF Version, by
<1>4. \A o \in Objects : Version(o) \in Nat \ {0}
  BY CurrentIsSnapshot
\* The new stack: its entries are the trusted ones moved down by d, and op.
<1>5. /\ undo \in Seq(Ops) /\ Len(undo) \in 1 .. StackLimit
      /\ d \in Nat /\ Len(base) \in Nat /\ Len(undo) = Len(base) + 1 - d
      /\ undo[Len(undo)] = op
      /\ \A i \in 1 .. Len(undo) - 1 : undo[i] = base[i + d] /\ i + d \in 1 .. Len(base)
  <2>1. /\ Append(base, op) \in Seq(Ops) /\ Append(base, op) # <<>>
        /\ Len(Append(base, op)) = Len(base) + 1 /\ Len(base) \in Nat
        /\ \A i \in 1 .. Len(base) : Append(base, op)[i] = base[i]
        /\ Append(base, op)[Len(base) + 1] = op
    BY <1>1, AppendIsExtension
  <2>2. /\ undo \in Seq(Ops) /\ Len(undo) \in Nat /\ Len(undo) >= 1
        /\ Len(undo) <= Len(base) + 1
        /\ \A i \in 1 .. Len(undo) : undo[i] = Append(base, op)[i + Len(base) + 1 - Len(undo)]
    <3>1. undo = LastCommands(Append(base, op))
      BY <1>0
    <3>2. /\ LastCommands(Append(base, op)) \in Seq(Ops)
          /\ Len(LastCommands(Append(base, op))) <= Len(Append(base, op))
          /\ \A i \in 1 .. Len(LastCommands(Append(base, op))) :
                LastCommands(Append(base, op))[i] =
                  Append(base, op)[i + Len(Append(base, op)) - Len(LastCommands(Append(base, op)))]
          /\ Len(LastCommands(Append(base, op))) >= 1
      BY <2>1, LastCommandsIsSuffix
    <3>3. Len(undo) \in Nat
      BY <3>1, <3>2
    <3>4. \A i \in 1 .. Len(undo) :
             i + Len(Append(base, op)) - Len(undo) = i + Len(base) + 1 - Len(undo)
      BY <2>1, <3>3
    <3> QED
      BY <3>1, <3>2, <3>3, <3>4, <2>1
  <2>3. Len(undo) <= StackLimit
    <3>1. CASE Len(base) + 1 > StackLimit
      <4>1. Len(undo) = StackLimit
        BY <1>0, <3>1, <2>1, LimitsAreCounts, SubSeqProperties DEF LastCommands
      <4>2. QED
        BY <4>1, LimitsAreCounts
    <3>2. CASE ~ (Len(base) + 1 > StackLimit)
      BY <3>2, <2>1, <2>2, LimitsAreCounts
    <3>3. QED
      BY <3>1, <3>2
  <2>4. QED
    <3>1. d = Len(base) + 1 - Len(undo)
      BY <1>0
    <3>2. d \in Nat /\ Len(undo) = Len(base) + 1 - d /\ Len(undo) \in 1 .. StackLimit
      BY <3>1, <2>1, <2>2, <2>3, LimitsAreCounts
    <3>3. ASSUME NEW i \in 1 .. Len(undo)
          PROVE  i + Len(base) + 1 - Len(undo) = i + d
      BY <3>1, <2>1, <2>2
    <3>4. \A i \in 1 .. Len(undo) : undo[i] = Append(base, op)[i + d]
      BY <3>3, <2>2
    <3>5. ASSUME NEW i \in 1 .. Len(undo) - 1
          PROVE  i \in 1 .. Len(undo) /\ i + d \in 1 .. Len(base)
      BY <3>2, <2>1, <2>2
    <3>6. Len(undo) \in 1 .. Len(undo) /\ Len(undo) + d = Len(base) + 1
      BY <3>2, <2>1
    <3>7. undo[Len(undo)] = op
      BY <3>4, <3>6, <2>1
    <3>8. \A i \in 1 .. Len(undo) - 1 : undo[i] = base[i + d]
      BY <3>4, <3>5, <2>1
    <3>9. QED
      BY <3>2, <3>5, <3>7, <3>8, <2>1, <2>2
<1>6. /\ stack'[u].undo = undo /\ stack'[u].redo = <<>>
      /\ stack'[u].expected =
           [o \in DOMAIN expected \cap Touched(ch, RangeOf(undo) \cup RangeOf(<<>>)) |-> expected[o]]
  BY <1>1 DEF SavedStack
<1>7. /\ DOMAIN expected = DOMAIN trusted \cup DOMAIN edits
      /\ \A o \in DOMAIN edits : expected[o] = Version(o) + 1
      /\ \A o \in DOMAIN trusted \ DOMAIN edits : expected[o] = trusted[o]
  <2>1. expected = Advanced(trusted, DOMAIN edits)
    BY <1>0
  <2>2. QED
    BY <2>1 DEF Advanced
<1>8. op \notin DOMAIN changes[u]
  BY DEF UserInv
\* What the trusted entries say, of either branch.
<1>9. /\ \A i \in 1 .. Len(base) : base[i] \in DOMAIN changes[u]
      /\ \A i \in 1 .. Len(base) : \A o \in DOMAIN changes[u][base[i]] : o \in DOMAIN trusted
      /\ \A o \in DOMAIN trusted : trusted[o] = stack[u].expected[o] /\ o \in DOMAIN stack[u].expected
      /\ \A o \in DOMAIN trusted \cap DOMAIN edits : trusted[o] = Version(o)
      /\ base # <<>> => base = stack[u].undo
  <2>1. CASE HasDiverged(u, edits)
    BY <1>0, <2>1 DEF NoExpectations
  <2>2. CASE ~ HasDiverged(u, edits)
    <3>1. base = stack[u].undo /\ trusted = stack[u].expected
      BY <1>0, <2>2
    <3>2. \A i \in 1 .. Len(base) : base[i] \in Reachable(u)
      BY <3>1 DEF Reachable, RangeOf
    <3>3. QED
      BY <3>1, <3>2, <2>2 DEF HasDiverged, UserInv, Touched
  <2>3. QED
    BY <2>1, <2>2
<1>10. ASSUME NEW c \in DOMAIN changes'[u]
       PROVE  /\ c \in DOMAIN receipts'[u]
              /\ \A o \in DOMAIN changes'[u][c] : changes'[u][c][o] < Version(o)'
  <2>1. CASE c = op
    BY <1>0, <2>1, <1>1, <1>2, <1>3, <1>4
  <2>2. CASE c # op
    <3>1. c \in DOMAIN changes[u] /\ changes'[u][c] = changes[u][c] /\ c \in DOMAIN receipts[u]
      BY <1>0, <2>2, <1>1 DEF UserInv
    <3>2. ASSUME NEW o \in DOMAIN changes[u][c] PROVE changes[u][c][o] < Version(o)'
      <4>1. o \in Objects /\ changes[u][c][o] \in Nat
        BY <3>1, LimitsAreCounts DEF TypeOK, Versions
      <4>2. changes[u][c][o] < Version(o)
        BY <3>1 DEF UserInv
      <4>3. Version(o)' = Version(o) \/ Version(o)' = Version(o) + 1
        BY <4>1, <1>3 DEF Version
      <4>4. QED
        BY <4>1, <4>2, <4>3, <1>4
    <3>3. QED
      BY <3>1, <3>2, <1>1
  <2>3. QED
    BY <2>1, <2>2
<1>11. /\ \A i \in 1 .. Len(undo) : undo[i] \in DOMAIN ch
       /\ \A i \in 1 .. Len(undo) - 1 : /\ undo[i] \in DOMAIN changes[u]
                                         /\ ch[undo[i]] = changes[u][undo[i]]
  <2>1. \A i \in 1 .. Len(undo) - 1 : undo[i] \in DOMAIN changes[u]
    BY <1>5, <1>9
  <2>2. QED
    <3>1. \A i \in 1 .. Len(undo) - 1 : ch[undo[i]] = changes[u][undo[i]]
      BY <2>1, <1>1, <1>8
    <3>2. \A i \in 1 .. Len(undo) : i \in 1 .. Len(undo) - 1 \/ i = Len(undo)
      BY <1>5
    <3>3. \A i \in 1 .. Len(undo) : undo[i] \in DOMAIN ch
      BY <2>1, <3>2, <1>1, <1>5
    <3>4. QED
      BY <2>1, <3>1, <3>3
<1>12. RangeOf(undo) \cup RangeOf(<<>>) = RangeOf(undo)
  BY DEF RangeOf
<1>13. Touched(ch, RangeOf(undo)) \subseteq DOMAIN expected
  <2>1. ASSUME NEW i \in 1 .. Len(undo), NEW o \in DOMAIN ch[undo[i]]
        PROVE  o \in DOMAIN expected
    <3>1. CASE i = Len(undo)
      BY <3>1, <1>1, <1>5, <1>7
    <3>2. CASE i # Len(undo)
      <4>1. i \in 1 .. Len(undo) - 1
        BY <3>2, <1>5
      <4>2. o \in DOMAIN changes[u][base[i + d]] /\ i + d \in 1 .. Len(base)
        BY <4>1, <1>5, <1>11
      <4>3. QED
        BY <4>2, <1>7, <1>9
    <3>3. QED
      BY <3>1, <3>2
  <2>2. QED
    BY <2>1 DEF Touched, RangeOf
<1>14. DOMAIN stack'[u].expected = Touched(ch, RangeOf(undo))
       /\ \A o \in DOMAIN stack'[u].expected : stack'[u].expected[o] = expected[o]
  BY <1>6, <1>12, <1>13
<1>15. Reachable(u)' = RangeOf(undo)
  BY <1>6, <1>12 DEF Reachable
<1>16. ASSUME NEW o \in DOMAIN stack'[u].expected
       PROVE  /\ stack'[u].expected[o] \in 1 .. Version(o)'
              /\ rev'[o][stack'[u].expected[o]].by \in {u} \X Ops
              /\ Coherent(u) => ChainOfContent(u, o)'
  <2> DEFINE n == Len(undo)
             old == Places(changes[u], base, o)
             new == Places(ch, undo, o)
  <2>1. n \in Nat \ {0} /\ d \in Nat /\ Len(base) \in Nat /\ n = Len(base) + 1 - d
    BY <1>5
  <2>2. o \in Objects /\ Version(o) \in Nat \ {0} /\ o \in DOMAIN expected
        /\ stack'[u].expected[o] = expected[o]
    <3>1. o \in DOMAIN expected /\ stack'[u].expected[o] = expected[o]
      BY <1>13, <1>14
    <3>2. o \in Objects
      BY <3>1, <1>1, <1>2, <1>7 DEF Versions
    <3>3. QED
      BY <3>1, <3>2, <1>4
  \* Places below the top are the trusted stack's places, d lower.
  <2>3. \A i \in 1 .. n - 1 : i \in new <=> i + d \in old
    <3>1. ASSUME NEW i \in 1 .. n - 1
          PROVE  /\ undo[i] = base[i + d] /\ ch[undo[i]] = changes[u][undo[i]]
                 /\ i \in 1 .. Len(undo) /\ i + d \in 1 .. Len(base)
      BY <1>5, <1>11, <2>1
    <3>2. QED
      BY <3>1 DEF Places
  <2>4. /\ \A k \in old : k \in 1 .. Len(base)
        /\ \A k \in new : k \in 1 .. n
    BY <1>5 DEF Places
  <2>5. \A k \in old : k > d => k - d \in new /\ k - d \in 1 .. n - 1
    <3>1. ASSUME NEW k \in old, k > d
          PROVE  k - d \in 1 .. n - 1 /\ k - d + d = k
      BY <3>1, <2>1, <2>4
    <3>2. QED
      BY <3>1, <2>3
  <2> HIDE DEF n, old, new
  <2>6. ASSUME NEW i \in 1 .. n - 1, i \in new, \A k \in new : k <= i \/ k = n
        PROVE  IsTop(changes[u], base, o, i + d)
    <3>1. ASSUME NEW k \in old PROVE k <= i + d
      <4>1. k \in Nat /\ i \in Nat
        BY <2>1, <2>4
      <4>2. CASE k > d
        <5>1. k - d \in new /\ k - d \in 1 .. n - 1
          BY <2>5, <4>2
        <5>2. k - d <= i
          BY <5>1, <2>6, <2>1
        <5>3. QED
          BY <5>2, <4>1, <2>1
      <4>3. CASE ~ (k > d)
        BY <4>1, <4>3, <2>1
      <4>4. QED
        BY <4>2, <4>3
    <3>2. i + d \in old
      BY <2>3, <2>6
    <3>3. QED
      BY <3>1, <3>2 DEF IsTop, old
  <2>7. ASSUME NEW i \in 1 .. n - 1, NEW j \in 1 .. n - 1, Follows(ch, undo, o, i, j)
        PROVE  Follows(changes[u], base, o, i + d, j + d)
    <3>1. /\ i \in new /\ j \in new /\ i < j
          /\ \A k \in new : k <= i \/ j <= k
      BY <2>7 DEF Follows, new
    <3>2. i + d \in old /\ j + d \in old /\ i + d < j + d
      BY <3>1, <2>1, <2>3
    <3>3. ASSUME NEW k \in old PROVE k <= i + d \/ j + d <= k
      <4>1. k \in Nat /\ i \in Nat /\ j \in Nat
        BY <2>1, <2>4
      <4>2. CASE k > d
        <5>1. k - d <= i \/ j <= k - d
          BY <2>5, <3>1, <4>2
        <5>2. QED
          BY <5>1, <4>1, <2>1
      <4>3. CASE ~ (k > d)
        BY <4>1, <4>3, <2>1
      <4>4. QED
        BY <4>2, <4>3
    <3>4. QED
      BY <3>2, <3>3 DEF Follows, old
  \* What the entries below the top found and left is what it was.
  <2>8. ASSUME NEW i \in 1 .. n - 1, i \in new
        PROVE  /\ Before(rev', ch, undo[i], o) = Before(rev, changes[u], base[i + d], o)
               /\ After(rev', ch, undo[i], o) = After(rev, changes[u], base[i + d], o)
               /\ base = stack[u].undo /\ o \in DOMAIN trusted
               /\ i + d \in 1 .. Len(base)
    <3>1. undo[i] = base[i + d] /\ i + d \in 1 .. Len(base) /\ base # <<>>
      BY <1>5 DEF n
    <3>2. undo[i] \in DOMAIN changes[u] /\ ch[undo[i]] = changes[u][undo[i]]
          /\ o \in DOMAIN changes[u][undo[i]]
      BY <1>11, <2>8 DEF n, new, Places
    <3>3. changes[u][undo[i]][o] < Version(o)
      BY <3>2 DEF UserInv
    <3>4. /\ Before(rev', ch, undo[i], o) = Before(rev, changes[u], undo[i], o)
          /\ After(rev', ch, undo[i], o) = After(rev, changes[u], undo[i], o)
      BY <1>0, <3>2, <3>3, <1>1, <1>3, ContentKept
    <3>5. QED
      BY <3>1, <3>2, <3>4, <1>9
  <2>9. o \in DOMAIN trusted =>
           /\ Coherent(u) => ChainOfContent(u, o)
           /\ trusted[o] \in 1 .. Version(o) /\ trusted[o] = stack[u].expected[o]
           /\ rev[o][trusted[o]].by \in {u} \X Ops
    BY <1>9 DEF UserInv, Coherent
  <2>10. SUFFICES /\ expected[o] \in 1 .. Version(o)'
                  /\ rev'[o][expected[o]].by \in {u} \X Ops
                  /\ Coherent(u) =>
                      /\ \A i \in 1 .. n : IsTop(ch, undo, o, i) =>
                            After(rev', ch, undo[i], o) = rev'[o][expected[o]].content
                      /\ \A i, j \in 1 .. n : Follows(ch, undo, o, i, j) =>
                            After(rev', ch, undo[i], o) = Before(rev', ch, undo[j], o)
    BY <1>0, <1>6, <2>2 DEF ChainOfContent, Chain, n
  <2>11. ASSUME Coherent(u), NEW i \in 1 .. n - 1, NEW j \in 1 .. n - 1, Follows(ch, undo, o, i, j)
         PROVE  After(rev', ch, undo[i], o) = Before(rev', ch, undo[j], o)
    <3>1. i \in new /\ j \in new
      BY <2>11 DEF Follows, new
    <3>2. QED
      BY <3>1, <2>7, <2>8, <2>9, <2>11 DEF ChainOfContent, Chain
  <2>12. CASE o \in DOMAIN edits
    <3>1. /\ expected[o] = Version(o) + 1 /\ Version(o)' = Version(o) + 1
          /\ rev'[o][expected[o]].content = edits[o].content
          /\ rev'[o][expected[o]].by = <<u, op>>
      BY <2>12, <1>3, <1>7
    <3>2. undo[n] = op /\ ch[op][o] = Version(o) /\ n \in new
      BY <2>12, <2>1, <1>1, <1>5 DEF n, new, Places
    <3>3. /\ After(rev', ch, op, o) = edits[o].content
          /\ Before(rev', ch, op, o) = rev[o][Version(o)].content
      BY <3>1, <3>2, <2>2, <1>3 DEF After, Before, RevisionsKept, Version
    <3>4. ASSUME Coherent(u), NEW i \in 1 .. n, IsTop(ch, undo, o, i)
          PROVE  After(rev', ch, undo[i], o) = rev'[o][expected[o]].content
      <4>1. i = n
        BY <3>2, <3>4, <2>1 DEF IsTop, new
      <4>2. QED
        BY <4>1, <3>1, <3>2, <3>3
    <3>5. ASSUME Coherent(u), NEW i \in 1 .. n, NEW j \in 1 .. n, Follows(ch, undo, o, i, j)
          PROVE  After(rev', ch, undo[i], o) = Before(rev', ch, undo[j], o)
      <4>1. /\ i \in new /\ j \in new /\ i < j /\ i \in 1 .. n - 1
            /\ \A k \in new : k <= i \/ j <= k
        BY <3>5, <2>1 DEF Follows, new
      <4>2. CASE j = n
        <5>1. \A k \in new : k <= i \/ k = n
          BY <4>1, <4>2, <2>1, <2>4
        <5>2. IsTop(changes[u], base, o, i + d)
          BY <4>1, <5>1, <2>6
        <5>3. After(rev, changes[u], base[i + d], o) = rev[o][stack[u].expected[o]].content
          BY <5>2, <4>1, <3>5, <2>8, <2>9 DEF ChainOfContent, Chain
        <5>4. trusted[o] = Version(o) /\ trusted[o] = stack[u].expected[o]
          BY <4>1, <2>8, <2>9, <2>12, <1>9
        <5>5. QED
          BY <5>3, <5>4, <4>1, <4>2, <2>8, <3>2, <3>3
      <4>3. CASE j # n
        <5>1. i \in 1 .. n - 1 /\ j \in 1 .. n - 1
          BY <4>1, <4>3, <3>5, <2>1
        <5>2. QED
          BY <5>1, <3>5, <2>11
      <4>4. QED
        BY <4>2, <4>3
    <3>6. expected[o] \in 1 .. Version(o)' /\ rev'[o][expected[o]].by \in {u} \X Ops
      BY <3>1, <2>2
    <3>7. QED
      BY <3>4, <3>5, <3>6
  <2>13. CASE o \notin DOMAIN edits
    <3>1. o \in DOMAIN trusted /\ expected[o] = trusted[o] /\ rev'[o] = rev[o]
      BY <2>2, <2>13, <1>3, <1>7
    <3>2. n \notin new
      BY <2>13, <1>1, <1>5 DEF n, new, Places
    <3>3. \A k \in new : k \in 1 .. n - 1
      BY <3>2, <2>1, <2>4
    <3>4. ASSUME Coherent(u), NEW i \in 1 .. n, IsTop(ch, undo, o, i)
          PROVE  After(rev', ch, undo[i], o) = rev'[o][expected[o]].content
      <4>1. i \in new /\ i \in 1 .. n - 1 /\ \A k \in new : k <= i
        BY <3>3, <3>4 DEF IsTop, new
      <4>2. IsTop(changes[u], base, o, i + d)
        BY <4>1, <2>6
      <4>3. QED
        BY <4>1, <4>2, <3>1, <3>4, <2>8, <2>9 DEF ChainOfContent, Chain
    <3>5. ASSUME Coherent(u), NEW i \in 1 .. n, NEW j \in 1 .. n, Follows(ch, undo, o, i, j)
          PROVE  After(rev', ch, undo[i], o) = Before(rev', ch, undo[j], o)
      <4>1. i \in 1 .. n - 1 /\ j \in 1 .. n - 1
        BY <3>3, <3>5 DEF Follows, new
      <4>2. QED
        BY <4>1, <3>5, <2>11
    <3>6. expected[o] \in 1 .. Version(o)' /\ rev'[o][expected[o]].by \in {u} \X Ops
      BY <3>1, <2>9 DEF Version
    <3>7. QED
      BY <3>4, <3>5, <3>6
  <2>14. QED
    BY <2>12, <2>13
<1>17. Len(stack'[u].undo) + Len(stack'[u].redo) <= StackLimit
  BY <1>5, <1>6, LimitsAreCounts
<1>18. Reachable(u)' \subseteq DOMAIN changes'[u]
  BY <1>0, <1>11, <1>15 DEF RangeOf
<1>19. QED
  <2>1. UserInv(u)'
    BY <1>0, <1>10, <1>14, <1>15, <1>16, <1>17, <1>18 DEF UserInv
  <2>2. Coherent(u) => Coherent(u)'
    BY <1>16 DEF Coherent
  <2>3. QED
    BY <2>1, <2>2

-----------------------------------------------------------------------------
(* Undo and redo take the last entry of one stack and put it on the other.  *)

\* One half of a chain: near is the content an entry has on the side of the
\* present (what an undo entry left, what a redo entry found), far the other.
Links(ch, s, near, far, now, o) ==
    /\ \A i \in 1 .. Len(s) : IsTop(ch, s, o, i) => near[s[i]] = now
    /\ \A i, j \in 1 .. Len(s) : Follows(ch, s, o, i, j) => near[s[i]] = far[s[j]]

\* Without its last entry a stack is linked to what lies beyond that entry.
LEMMA PopKeepsLinks ==
    ASSUME NEW S, NEW s \in Seq(S), s # <<>>, NEW t, t = Popped(s), NEW ch,
           NEW near, NEW far, NEW now, NEW next, NEW o, NEW cmd, cmd = s[Len(s)],
           Links(ch, s, near, far, now, o),
           o \in DOMAIN ch[cmd] => next = far[cmd],
           o \notin DOMAIN ch[cmd] => next = now
    PROVE  Links(ch, t, near, far, next, o)
<1> DEFINE n == Len(s)
           all == Places(ch, s, o)
           rest == Places(ch, t, o)
<1>1. /\ n \in Nat \ {0} /\ Len(t) = n - 1
      /\ \A i \in 1 .. n - 1 : t[i] = s[i]
  BY PoppedIsPrefix
<1>2. \A i \in 1 .. n - 1 : i \in rest <=> i \in all
  BY <1>1 DEF Places
<1>3. /\ rest \subseteq 1 .. n - 1 /\ all \subseteq 1 .. n
      /\ n \in all <=> o \in DOMAIN ch[cmd]
  BY <1>1 DEF Places
<1> HIDE DEF n, all, rest
<1>4. \A i \in all : i \in rest \/ i = n
  BY <1>1, <1>2, <1>3
<1>5. ASSUME NEW i \in 1 .. n - 1, IsTop(ch, t, o, i)
      PROVE  near[s[i]] = next
  <2>1. i \in rest /\ (\A k \in rest : k <= i) /\ i \in all /\ i \in 1 .. n
    BY <1>1, <1>2, <1>5 DEF IsTop, rest
  <2>2. CASE n \in all
    <3>1. \A k \in all : k <= i \/ n <= k
      BY <2>1, <1>1, <1>3, <1>4
    <3>2. Follows(ch, s, o, i, n)
      BY <2>1, <2>2, <3>1, <1>1 DEF Follows, all
    <3>3. near[s[i]] = far[cmd]
      BY <3>2, <2>1, <1>1 DEF Links, n
    <3>4. QED
      BY <3>3, <2>2, <1>3
  <2>3. CASE n \notin all
    <3>1. IsTop(ch, s, o, i)
      BY <2>1, <2>3, <1>4 DEF IsTop, all
    <3>2. QED
      BY <3>1, <2>1, <2>3, <1>3 DEF Links, n
  <2>4. QED
    BY <2>2, <2>3
<1>6. ASSUME NEW i \in 1 .. n - 1, NEW j \in 1 .. n - 1, Follows(ch, t, o, i, j)
      PROVE  near[s[i]] = far[s[j]]
  <2>1. i \in rest /\ j \in rest /\ i < j /\ \A k \in rest : k <= i \/ j <= k
    BY <1>6 DEF Follows, rest
  <2>2. i \in all /\ j \in all /\ i \in 1 .. n /\ j \in 1 .. n /\ j <= n
    BY <2>1, <1>1, <1>2
  <2>3. \A k \in all : k <= i \/ j <= k
    BY <2>1, <2>2, <1>4
  <2>4. QED
    BY <2>1, <2>2, <2>3 DEF Follows, Links, all, n
<1>7. QED
  BY <1>1, <1>5, <1>6 DEF Links

\* With one more entry that starts at the present a stack is linked to where
\* that entry ends.
LEMMA PushKeepsLinks ==
    ASSUME NEW S, NEW s \in Seq(S), NEW cmd \in S, NEW t, t = Append(s, cmd), NEW ch,
           NEW near, NEW far, NEW now, NEW next, NEW o,
           Links(ch, s, near, far, now, o),
           o \in DOMAIN ch[cmd] => far[cmd] = now /\ next = near[cmd],
           o \notin DOMAIN ch[cmd] => next = now
    PROVE  Links(ch, t, near, far, next, o)
<1> DEFINE n == Len(s)
           old == Places(ch, s, o)
           all == Places(ch, t, o)
<1>1. /\ n \in Nat /\ Len(t) = n + 1 /\ t[n + 1] = cmd
      /\ \A i \in 1 .. n : t[i] = s[i]
  BY AppendIsExtension
<1>2. \A i \in 1 .. n : i \in all <=> i \in old
  BY <1>1 DEF Places
<1>3. /\ old \subseteq 1 .. n /\ all \subseteq 1 .. n + 1
      /\ n + 1 \in all <=> o \in DOMAIN ch[cmd]
  BY <1>1 DEF Places
<1> HIDE DEF n, old, all
<1>4. \A i \in 1 .. n + 1 : i \in 1 .. n \/ i = n + 1
  BY <1>1
<1>5. ASSUME NEW i \in 1 .. n, i \in all, \A k \in all : k <= i \/ k = n + 1
      PROVE  near[s[i]] = now
  <2>1. i \in old /\ \A k \in old : k <= i
    BY <1>1, <1>2, <1>3, <1>5
  <2>2. QED
    BY <2>1 DEF Links, IsTop, old, n
<1>6. ASSUME NEW i \in 1 .. n + 1, IsTop(ch, t, o, i)
      PROVE  near[t[i]] = next
  <2>1. i \in all /\ \A k \in all : k <= i
    BY <1>6 DEF IsTop, all
  <2>2. CASE i = n + 1
    BY <2>1, <2>2, <1>1, <1>3
  <2>3. CASE i \in 1 .. n
    <3>1. n + 1 \notin all
      BY <2>1, <2>3, <1>1
    <3>2. near[s[i]] = now
      BY <2>1, <2>3, <1>5
    <3>3. QED
      BY <3>1, <3>2, <2>3, <1>1, <1>3
  <2>4. QED
    BY <2>2, <2>3, <1>4
<1>7. ASSUME NEW i \in 1 .. n + 1, NEW j \in 1 .. n + 1, Follows(ch, t, o, i, j)
      PROVE  near[t[i]] = far[t[j]]
  <2>1. i \in all /\ j \in all /\ i < j /\ \A k \in all : k <= i \/ j <= k
    BY <1>7 DEF Follows, all
  <2>2. i \in 1 .. n /\ t[i] = s[i]
    BY <2>1, <1>1
  <2>3. CASE j = n + 1
    <3>1. \A k \in all : k <= i \/ k = n + 1
      BY <2>1, <2>3, <1>1, <1>3
    <3>2. near[s[i]] = now
      BY <3>1, <2>1, <2>2, <1>5
    <3>3. QED
      BY <3>2, <2>1, <2>2, <2>3, <1>1, <1>3
  <2>4. CASE j \in 1 .. n
    <3>1. i \in old /\ j \in old /\ \A k \in old : k <= i \/ j <= k
      BY <2>1, <2>2, <2>4, <1>2, <1>3
    <3>2. near[s[i]] = far[s[j]]
      BY <3>1, <2>1, <2>2, <2>4 DEF Follows, Links, old, n
    <3>3. QED
      BY <3>2, <2>2, <2>4, <1>1
  <2>5. QED
    BY <2>3, <2>4, <1>4
<1>8. QED
  BY <1>1, <1>6, <1>7 DEF Links

\* Reversing the last entry of one stack moves the present to its other side,
\* where both stacks still meet.
LEMMA InverseKeepsLinks ==
    ASSUME NEW S, NEW source \in Seq(S), NEW target \in Seq(S), source # <<>>,
           NEW cmd, cmd = source[Len(source)], NEW ch,
           NEW near, NEW far, NEW now, NEW next, NEW o,
           Links(ch, source, near, far, now, o), Links(ch, target, far, near, now, o),
           o \in DOMAIN ch[cmd] => next = far[cmd],
           o \notin DOMAIN ch[cmd] => next = now
    PROVE  /\ Links(ch, Popped(source), near, far, next, o)
           /\ Links(ch, Append(target, cmd), far, near, next, o)
           /\ o \in DOMAIN ch[cmd] => near[cmd] = now
<1>1. Len(source) \in Nat \ {0} /\ cmd \in S
  OBVIOUS
<1>2. o \in DOMAIN ch[cmd] => near[cmd] = now
  <2>1. ASSUME o \in DOMAIN ch[cmd] PROVE IsTop(ch, source, o, Len(source))
    BY <1>1, <2>1 DEF IsTop, Places
  <2>2. Len(source) \in 1 .. Len(source)
    BY <1>1
  <2>3. QED
    BY <2>1, <2>2 DEF Links
<1>3. Links(ch, Popped(source), near, far, next, o)
  BY PopKeepsLinks
<1>4. Links(ch, Append(target, cmd), far, near, next, o)
  BY <1>1, <1>2, PushKeepsLinks
<1>5. QED
  BY <1>2, <1>3, <1>4

\* The chain of an object is its two halves.
LEMMA ChainIsLinks ==
    ASSUME NEW r, NEW ch, NEW undo, NEW redo, NEW now, NEW o, NEW left, NEW found,
           \A i \in 1 .. Len(undo) : undo[i] \in DOMAIN ch,
           \A i \in 1 .. Len(redo) : redo[i] \in DOMAIN ch,
           \A c \in DOMAIN ch : o \in DOMAIN ch[c] =>
               left[c] = After(r, ch, c, o) /\ found[c] = Before(r, ch, c, o)
    PROVE  Chain(r, ch, undo, redo, now, o) <=>
               Links(ch, undo, left, found, now, o) /\ Links(ch, redo, found, left, now, o)
<1>1. ASSUME NEW i \in 1 .. Len(undo), i \in Places(ch, undo, o)
      PROVE  left[undo[i]] = After(r, ch, undo[i], o) /\ found[undo[i]] = Before(r, ch, undo[i], o)
  BY <1>1 DEF Places
<1>2. ASSUME NEW i \in 1 .. Len(redo), i \in Places(ch, redo, o)
      PROVE  left[redo[i]] = After(r, ch, redo[i], o) /\ found[redo[i]] = Before(r, ch, redo[i], o)
  BY <1>2 DEF Places
<1>3. /\ (\A i \in 1 .. Len(undo) : IsTop(ch, undo, o, i) => After(r, ch, undo[i], o) = now)
           <=> (\A i \in 1 .. Len(undo) : IsTop(ch, undo, o, i) => left[undo[i]] = now)
      /\ (\A i \in 1 .. Len(redo) : IsTop(ch, redo, o, i) => Before(r, ch, redo[i], o) = now)
           <=> (\A i \in 1 .. Len(redo) : IsTop(ch, redo, o, i) => found[redo[i]] = now)
  BY <1>1, <1>2 DEF IsTop
<1>4. (\A i, j \in 1 .. Len(undo) : Follows(ch, undo, o, i, j) =>
          After(r, ch, undo[i], o) = Before(r, ch, undo[j], o))
        <=> (\A i, j \in 1 .. Len(undo) : Follows(ch, undo, o, i, j) =>
                left[undo[i]] = found[undo[j]])
  BY <1>1 DEF Follows
<1>5. (\A i, j \in 1 .. Len(redo) : Follows(ch, redo, o, i, j) =>
          After(r, ch, redo[j], o) = Before(r, ch, redo[i], o))
        <=> (\A i, j \in 1 .. Len(redo) : Follows(ch, redo, o, i, j) =>
                found[redo[i]] = left[redo[j]])
  BY <1>2 DEF Follows
<1>6. QED
  BY <1>3, <1>4, <1>5 DEF Chain, Links

\* What an undo (or redo) writes to each member, and that its user's stack
\* keeps its invariant.
LEMMA TransitionKeepsUserInv ==
    ASSUME TypeOK, NEW u \in Users, UserInv(u), ChangesRecorded, NEW op \in Ops,
           NEW cmd \in DOMAIN changes[u], NEW direction \in {"undo", "redo"},
           Transition(u, op, cmd, direction)
    PROVE  UserInv(u)' /\ (Coherent(u) => Coherent(u)')
<1>0. SUFFICES ASSUME NEW ch, ch = changes[u], NEW U, U = stack[u].undo,
                      NEW R, R = stack[u].redo, NEW trusted, trusted = stack[u].expected,
                      NEW undo, undo = IF direction = "undo" THEN Popped(U) ELSE Append(U, cmd),
                      NEW redo, redo = IF direction = "undo" THEN Append(R, cmd) ELSE Popped(R),
                      NEW edits, edits = InverseEdits(u, cmd, direction),
                      NEW expected, expected = Advanced(trusted, DOMAIN ch[cmd])
               PROVE  UserInv(u)' /\ (Coherent(u) => Coherent(u)')
  OBVIOUS
<1> DEFINE written == DOMAIN ch[cmd]
<1>1. /\ cmd \in Ops /\ U \in Seq(Ops) /\ R \in Seq(Ops)
      /\ undo \in Seq(Ops) /\ redo \in Seq(Ops)
      /\ DOMAIN trusted \in SUBSET Objects
      /\ written \in SUBSET Objects
      /\ rev' = Written(edits, <<u, op>>)
      /\ \A o \in written : o \in DOMAIN trusted /\ Version(o) = trusted[o]
      /\ changes'[u] = ch
      /\ stack'[u] = SavedStack(stack[u], ch, undo, redo, expected)
  <2>1. U \in Seq(Ops) /\ R \in Seq(Ops) /\ DOMAIN trusted \in SUBSET Objects
    BY <1>0 DEF TypeOK, Versions
  <2>2. QED
    BY <1>0, <2>1, TransitionEffect
<1>2. direction = "undo" => U # <<>> /\ U[Len(U)] = cmd
  BY <1>0 DEF Transition, HeadIs
<1>3. direction = "redo" => R # <<>> /\ R[Len(R)] = cmd
  BY <1>0 DEF Transition, HeadIs
<1>4. DOMAIN receipts[u] \subseteq DOMAIN receipts'[u]
  BY DEF Transition, Recorded, TypeOK
<1>5. /\ DOMAIN edits = written
      /\ \A o \in written : edits[o].content \in Contents /\ edits[o].kept \in Kept
  BY <1>0, InverseTyped
<1>6. \A o \in Objects : Version(o) \in Nat \ {0}
  BY CurrentIsSnapshot
\* The revisions after the step.
<1>7. /\ RevisionsKept
      /\ \A o \in Objects \ written : rev'[o] = rev[o]
      /\ \A o \in written :
            /\ Version(o)' = Version(o) + 1
            /\ rev'[o][Version(o) + 1].content = edits[o].content
            /\ rev'[o][Version(o) + 1].by = <<u, op>>
  <2> DEFINE by == <<u, op>>
  <2>1. by \in (Users \X Ops) \cup {Untracked} /\ rev' = Written(edits, by)
    BY <1>1
  <2> HIDE DEF by
  <2>2. /\ RevisionsKept
        /\ \A o \in Objects \ DOMAIN edits : rev'[o] = rev[o]
        /\ \A o \in Objects \cap DOMAIN edits :
              /\ Len(rev'[o]) = Len(rev[o]) + 1
              /\ rev'[o][Len(rev[o]) + 1].content = edits[o].content
              /\ rev'[o][Len(rev[o]) + 1].by = by
    BY <1>5, <2>1, WriteKeepsRevisions
  <2>3. QED
    BY <2>2, <1>1, <1>5 DEF Version, by
<1>8. /\ stack'[u].undo = undo /\ stack'[u].redo = redo
      /\ stack'[u].expected =
            [o \in DOMAIN expected \cap Touched(ch, RangeOf(undo) \cup RangeOf(redo)) |->
                expected[o]]
  BY <1>1 DEF SavedStack
<1>9. /\ DOMAIN expected = DOMAIN trusted \cup written
      /\ \A o \in written : expected[o] = Version(o) + 1
      /\ \A o \in DOMAIN trusted \ written : expected[o] = trusted[o]
  <2>1. expected = Advanced(trusted, written)
    BY <1>0
  <2>2. QED
    BY <2>1 DEF Advanced
\* The step moves an entry: what is in reach, and how much, stays.
<1>10. /\ Len(undo) + Len(redo) = Len(U) + Len(R)
       /\ RangeOf(undo) \cup RangeOf(redo) = RangeOf(U) \cup RangeOf(R)
  <2>1. ASSUME NEW s \in Seq(Ops), s # <<>>, s[Len(s)] = cmd, NEW t \in Seq(Ops)
        PROVE  /\ Len(Popped(s)) + Len(Append(t, cmd)) = Len(s) + Len(t)
               /\ RangeOf(Popped(s)) \cup RangeOf(Append(t, cmd)) = RangeOf(s) \cup RangeOf(t)
    <3>1. /\ Len(s) \in Nat \ {0} /\ Len(t) \in Nat
          /\ Len(Popped(s)) = Len(s) - 1 /\ Len(Append(t, cmd)) = Len(t) + 1
      BY <2>1, <1>1, PoppedIsPrefix, AppendIsExtension
    <3>2. \A i \in 1 .. Len(s) - 1 : Popped(s)[i] = s[i]
      BY <2>1, <3>1, PoppedIsPrefix
    <3>3. Append(t, cmd)[Len(t) + 1] = cmd /\ \A i \in 1 .. Len(t) : Append(t, cmd)[i] = t[i]
      BY <1>1, AppendIsExtension
    <3>4. RangeOf(s) = RangeOf(Popped(s)) \cup {cmd}
      <4>1. \A i \in 1 .. Len(s) : i \in 1 .. Len(s) - 1 \/ i = Len(s)
        BY <3>1
      <4>2. \A i \in 1 .. Len(s) - 1 : i \in 1 .. Len(s)
        BY <3>1
      <4>3. Len(s) \in 1 .. Len(s)
        BY <3>1
      <4>4. QED
        BY <2>1, <3>1, <3>2, <4>1, <4>2, <4>3 DEF RangeOf
    <3>5. RangeOf(Append(t, cmd)) = RangeOf(t) \cup {cmd}
      <4>1. \A i \in 1 .. Len(t) + 1 : i \in 1 .. Len(t) \/ i = Len(t) + 1
        BY <3>1
      <4>2. Len(t) + 1 \in 1 .. Len(t) + 1 /\ \A i \in 1 .. Len(t) : i \in 1 .. Len(t) + 1
        BY <3>1
      <4>3. QED
        BY <3>1, <3>3, <4>1, <4>2 DEF RangeOf
    <3>6. QED
      BY <3>1, <3>4, <3>5
  <2>2. CASE direction = "undo"
    BY <2>1, <2>2, <1>0, <1>1, <1>2
  <2>3. CASE direction = "redo"
    <3>1. undo = Append(U, cmd) /\ redo = Popped(R)
      BY <2>3, <1>0
    <3>2. /\ Len(redo) + Len(undo) = Len(R) + Len(U)
          /\ RangeOf(redo) \cup RangeOf(undo) = RangeOf(R) \cup RangeOf(U)
      BY <3>1, <2>1, <2>3, <1>1, <1>3
    <3>3. Len(redo) \in Nat /\ Len(undo) \in Nat /\ Len(R) \in Nat /\ Len(U) \in Nat
      BY <1>1
    <3>4. QED
      BY <3>2, <3>3
  <2>4. QED
    BY <2>2, <2>3
<1>11. /\ Reachable(u) = RangeOf(U) \cup RangeOf(R) /\ Reachable(u)' = Reachable(u)
       /\ Reachable(u) \subseteq DOMAIN ch
       /\ DOMAIN trusted = Touched(ch, Reachable(u))
  BY <1>0, <1>8, <1>10 DEF Reachable, UserInv
<1>12. written \subseteq DOMAIN trusted
  BY <1>1
<1>13. /\ DOMAIN stack'[u].expected = DOMAIN trusted
       /\ \A o \in DOMAIN trusted : stack'[u].expected[o] = expected[o]
  BY <1>8, <1>9, <1>10, <1>11, <1>12
<1>14. ASSUME NEW c \in DOMAIN changes'[u]
       PROVE  /\ c \in DOMAIN receipts'[u]
              /\ \A o \in DOMAIN changes'[u][c] : changes'[u][c][o] < Version(o)'
  <2>1. c \in DOMAIN changes[u] /\ changes'[u][c] = changes[u][c] /\ c \in DOMAIN receipts[u]
    BY <1>0, <1>1 DEF UserInv
  <2>2. ASSUME NEW o \in DOMAIN changes[u][c] PROVE changes[u][c][o] < Version(o)'
    <3>1. o \in Objects /\ changes[u][c][o] \in Nat
      BY <2>1, LimitsAreCounts DEF TypeOK, Versions
    <3>2. changes[u][c][o] < Version(o)
      BY <2>1 DEF UserInv
    <3>3. Version(o)' = Version(o) \/ Version(o)' = Version(o) + 1
      BY <3>1, <1>7 DEF Version
    <3>4. QED
      BY <3>1, <3>2, <3>3, <1>6
  <2>3. QED
    BY <2>1, <2>2, <1>4
<1> HIDE DEF written
<1>15. ASSUME NEW o \in DOMAIN trusted
       PROVE  /\ expected[o] \in 1 .. Version(o)'
              /\ rev'[o][expected[o]].by \in {u} \X Ops
              /\ Coherent(u) =>
                    Chain(rev', ch, undo, redo, rev'[o][expected[o]].content, o)
  <2> DEFINE now == rev[o][trusted[o]].content
             next == rev'[o][expected[o]].content
  <2>1. /\ trusted[o] \in 1 .. Version(o) /\ rev[o][trusted[o]].by \in {u} \X Ops
        /\ Coherent(u) => Chain(rev, ch, U, R, now, o)
        /\ o \in Objects
    BY <1>0, <1>1 DEF UserInv, Coherent, ChainOfContent
  <2> HIDE DEF now
  <2>2. SUFFICES ASSUME NEW left, left = [c \in DOMAIN ch |-> After(rev, ch, c, o)],
                        NEW found, found = [c \in DOMAIN ch |-> Before(rev, ch, c, o)]
                 PROVE  /\ expected[o] \in 1 .. Version(o)'
                        /\ rev'[o][expected[o]].by \in {u} \X Ops
                        /\ Coherent(u) => Chain(rev', ch, undo, redo, next, o)
    OBVIOUS
  <2>3. /\ \A i \in 1 .. Len(U) : U[i] \in DOMAIN ch
        /\ \A i \in 1 .. Len(R) : R[i] \in DOMAIN ch
        /\ \A i \in 1 .. Len(undo) : undo[i] \in DOMAIN ch
        /\ \A i \in 1 .. Len(redo) : redo[i] \in DOMAIN ch
    BY <1>10, <1>11 DEF RangeOf
  <2>4. \A c \in DOMAIN ch : left[c] = After(rev, ch, c, o) /\ found[c] = Before(rev, ch, c, o)
    BY <2>2
  <2>5. ASSUME NEW c \in DOMAIN ch, o \in DOMAIN ch[c]
        PROVE  left[c] = After(rev', ch, c, o) /\ found[c] = Before(rev', ch, c, o)
    <3>1. c \in DOMAIN changes[u] /\ o \in DOMAIN changes[u][c] /\ changes[u][c][o] < Version(o)
      BY <2>5, <1>0 DEF UserInv
    <3>2. changes'[u] = changes[u]
      BY <1>0, <1>1
    <3>3. /\ Before(rev', changes'[u], c, o) = Before(rev, changes[u], c, o)
          /\ After(rev', changes'[u], c, o) = After(rev, changes[u], c, o)
      BY <3>1, <3>2, <1>7, ContentKept
    <3>4. QED
      BY <3>2, <3>3, <2>4, <1>0
  <2>6. Coherent(u) => Links(ch, U, left, found, now, o) /\ Links(ch, R, found, left, now, o)
    BY <2>1, <2>3, <2>4, ChainIsLinks
  <2>7. o \in written => /\ expected[o] = Version(o) + 1 /\ Version(o)' = Version(o) + 1
                         /\ rev'[o][expected[o]].by = <<u, op>>
                         /\ next = edits[o].content
    BY <1>7, <1>9
  <2>8. o \notin written => expected[o] = trusted[o] /\ rev'[o] = rev[o] /\ next = now
    BY <2>1, <1>7, <1>9 DEF now
  <2>9. expected[o] \in 1 .. Version(o)' /\ rev'[o][expected[o]].by \in {u} \X Ops
    <3>1. CASE o \in written
      BY <3>1, <2>1, <2>7, <1>6
    <3>2. CASE o \notin written
      BY <3>2, <2>1, <2>8 DEF Version
    <3>3. QED
      BY <3>1, <3>2
  <2>10. o \in written => /\ direction = "undo" => next = found[cmd]
                          /\ direction = "redo" => next = left[cmd]
    <3>1. ASSUME o \in written
          PROVE  edits[o].content = rev[o][SourceVersion(u, cmd, o, direction)].content
      BY <3>1, <1>0 DEF InverseEdits, written
    <3>2. /\ direction = "undo" => SourceVersion(u, cmd, o, direction) = ch[cmd][o]
          /\ direction = "redo" => SourceVersion(u, cmd, o, direction) = ch[cmd][o] + 1
      BY <1>0 DEF SourceVersion
    <3>3. left[cmd] = rev[o][ch[cmd][o] + 1].content /\ found[cmd] = rev[o][ch[cmd][o]].content
      BY <1>0, <2>4 DEF After, Before
    <3>4. QED
      BY <3>1, <3>2, <3>3, <2>7
  <2> HIDE DEF next
  <2>11. CASE direction = "undo"
    <3>1. undo = Popped(U) /\ redo = Append(R, cmd)
      BY <2>11, <1>0
    <3>2. Coherent(u) => /\ Links(ch, Popped(U), left, found, next, o)
                         /\ Links(ch, Append(R, cmd), found, left, next, o)
      <4>1. ASSUME Coherent(u)
            PROVE  /\ Links(ch, Popped(U), left, found, next, o)
                   /\ Links(ch, Append(R, cmd), found, left, next, o)
        <5>1. Links(ch, U, left, found, now, o) /\ Links(ch, R, found, left, now, o)
          BY <4>1, <2>6
        <5>2. /\ o \in DOMAIN ch[cmd] => next = found[cmd]
              /\ o \notin DOMAIN ch[cmd] => next = now
          BY <2>8, <2>10, <2>11 DEF written
        <5>3. QED
          BY <5>1, <5>2, <2>11, <1>1, <1>2, InverseKeepsLinks
      <4>2. QED
        BY <4>1
    <3>3. QED
      BY <3>1, <3>2, <2>3, <2>5, <2>9, ChainIsLinks
  <2>12. CASE direction = "redo"
    <3>1. redo = Popped(R) /\ undo = Append(U, cmd)
      BY <2>12, <1>0
    <3>2. Coherent(u) => /\ Links(ch, Popped(R), found, left, next, o)
                         /\ Links(ch, Append(U, cmd), left, found, next, o)
      <4>1. ASSUME Coherent(u)
            PROVE  /\ Links(ch, Popped(R), found, left, next, o)
                   /\ Links(ch, Append(U, cmd), left, found, next, o)
        <5>1. Links(ch, U, left, found, now, o) /\ Links(ch, R, found, left, now, o)
          BY <4>1, <2>6
        <5>2. /\ o \in DOMAIN ch[cmd] => next = left[cmd]
              /\ o \notin DOMAIN ch[cmd] => next = now
          BY <2>8, <2>10, <2>12 DEF written
        <5>3. QED
          BY <5>1, <5>2, <2>12, <1>1, <1>3, InverseKeepsLinks
      <4>2. QED
        BY <4>1
    <3>3. QED
      BY <3>1, <3>2, <2>3, <2>5, <2>9, ChainIsLinks
  <2>13. QED
    BY <2>11, <2>12
<1>16. Len(stack'[u].undo) + Len(stack'[u].redo) <= StackLimit
  BY <1>0, <1>8, <1>10 DEF UserInv
<1>17. \A o \in DOMAIN stack'[u].expected :
          /\ stack'[u].expected[o] \in 1 .. Version(o)'
          /\ rev'[o][stack'[u].expected[o]].by \in {u} \X Ops
          /\ Coherent(u) => ChainOfContent(u, o)'
  BY <1>1, <1>8, <1>13, <1>15 DEF ChainOfContent
<1>18. QED
  <2>1. UserInv(u)'
    BY <1>1, <1>11, <1>13, <1>14, <1>16, <1>17 DEF UserInv
  <2>2. Coherent(u) => Coherent(u)'
    BY <1>17 DEF Coherent
  <2>3. QED
    BY <2>1, <2>2

-----------------------------------------------------------------------------
(* The steps that are not commands.                                         *)

\* A write outside the commands appends at most one revision to each object,
\* with the provenance of no operation.
OutsideWrite ==
    /\ rev' = [o \in Objects |-> rev'[o]]
    /\ \A o \in Objects :
          \/ rev'[o] = rev[o]
          \/ \E s \in Snapshot : s.by = Untracked /\ rev'[o] = Append(rev[o], s)

LEMMA OutsideWriteKeepsRevisions ==
    ASSUME TypeOK, OutsideWrite
    PROVE  rev' \in [Objects -> Seq(Snapshot) \ {<<>>}] /\ RevisionsKept
<1>1. ASSUME NEW o \in Objects
      PROVE  /\ rev'[o] \in Seq(Snapshot) \ {<<>>}
             /\ Len(rev[o]) <= Len(rev'[o])
             /\ \A v \in 1 .. Len(rev[o]) : rev'[o][v] = rev[o][v]
  <2>1. rev[o] \in Seq(Snapshot) /\ rev[o] # <<>> /\ Len(rev[o]) \in Nat
    BY DEF TypeOK
  <2>2. CASE rev'[o] = rev[o]
    BY <2>1, <2>2
  <2>3. CASE \E s \in Snapshot : s.by = Untracked /\ rev'[o] = Append(rev[o], s)
    BY <2>1, <2>3, AppendIsExtension
  <2>4. QED
    BY <2>2, <2>3 DEF OutsideWrite
<1>2. QED
  BY <1>1 DEF OutsideWrite, RevisionsKept

LEMMA UntrackedEditWrites ==
    ASSUME TypeOK, NEW o \in Objects, NEW c \in Contents, NEW k \in Kept,
           UntrackedEdit(o, c, k)
    PROVE  OutsideWrite
<1> DEFINE s == [content |-> c, kept |-> k, live |-> TRUE, by |-> Untracked]
<1>1. s \in Snapshot /\ s.by = Untracked
  BY DEF Snapshot
<1>2. /\ rev \in [Objects -> Seq(Snapshot) \ {<<>>}]
      /\ rev' = [rev EXCEPT ![o] = Append(@, s)]
  BY DEF UntrackedEdit, TypeOK
<1> HIDE DEF s
<1>3. QED
  BY <1>1, <1>2 DEF OutsideWrite

LEMMA TrashOrRecoverWrites ==
    ASSUME TypeOK, NEW os \in SUBSET Objects, TrashOrRecover(os)
    PROVE  OutsideWrite
<1> DEFINE s(x) == [Current(x) EXCEPT !.live = ~ @, !.by = Untracked]
<1>1. rev' = [x \in Objects |-> IF x \in os THEN Append(rev[x], s(x)) ELSE rev[x]]
  BY DEF TrashOrRecover
<1>2. ASSUME NEW x \in Objects PROVE s(x) \in Snapshot /\ s(x).by = Untracked
  <2>1. Current(x) \in Snapshot
    BY CurrentIsSnapshot
  <2>2. QED
    BY <2>1 DEF Snapshot
<1> HIDE DEF s
<1>3. QED
  BY <1>1, <1>2 DEF OutsideWrite

LEMMA RewriteWrites ==
    ASSUME TypeOK, NEW tasks, NEW k \in Kept, rev' = Rewritten(tasks, k)
    PROVE  OutsideWrite
<1> DEFINE s(x) == [Current(x) EXCEPT !.kept = k, !.by = Untracked]
<1>1. rev' = [x \in Objects |-> IF x \in tasks THEN Append(rev[x], s(x)) ELSE rev[x]]
  BY DEF Rewritten
<1>2. ASSUME NEW x \in Objects PROVE s(x) \in Snapshot /\ s(x).by = Untracked
  <2>1. Current(x) \in Snapshot
    BY CurrentIsSnapshot
  <2>2. QED
    BY <2>1 DEF Snapshot
<1> HIDE DEF s
<1>3. QED
  BY <1>1, <1>2 DEF OutsideWrite

-----------------------------------------------------------------------------
(* Receipts and the ledger.                                                 *)

\* A command writes each of its members one revision, which its receipt names:
\* its operation id had no receipt, so no earlier revision carries it.
LEMMA CommandKeepsLedger ==
    ASSUME TypeOK, ReceiptsMatchLedger, NEW u \in Users, NEW op \in Ops,
           op \notin DOMAIN receipts[u],
           NEW new, DOMAIN new \in SUBSET Objects,
           \A o \in DOMAIN new : new[o].content \in Contents /\ new[o].kept \in Kept,
           rev' = Written(new, <<u, op>>), NEW cmd, NEW direction, NEW version,
           receipts' = Recorded(u, op, Receipt(cmd, direction, version, DOMAIN new))
    PROVE  ReceiptsMatchLedger'
<1> DEFINE by == <<u, op>>
<1>1. /\ RevisionsKept
      /\ \A o \in Objects \ DOMAIN new : rev'[o] = rev[o]
      /\ \A o \in DOMAIN new :
            /\ Version(o)' = Version(o) + 1
            /\ rev'[o][Version(o) + 1].by = by
  <2>1. by \in (Users \X Ops) \cup {Untracked} /\ rev' = Written(new, by)
    OBVIOUS
  <2> HIDE DEF by
  <2>2. /\ RevisionsKept
        /\ \A o \in Objects \ DOMAIN new : rev'[o] = rev[o]
        /\ \A o \in Objects \cap DOMAIN new :
              /\ Len(rev'[o]) = Len(rev[o]) + 1
              /\ rev'[o][Len(rev[o]) + 1].content = new[o].content
              /\ rev'[o][Len(rev[o]) + 1].by = by
    BY <2>1, WriteKeepsRevisions
  <2>3. QED
    BY <2>2 DEF Version
<1>2. \A o \in Objects : /\ Version(o) \in Nat \ {0}
                         /\ \A v \in 1 .. Version(o) : rev'[o][v] = rev[o][v]
                         /\ Version(o)' = Version(o) \/ Version(o)' = Version(o) + 1
  BY <1>1, CurrentIsSnapshot DEF RevisionsKept, Version
<1>3. /\ DOMAIN receipts'[u] = DOMAIN receipts[u] \cup {op}
      /\ receipts'[u][op].objects = [o \in DOMAIN new |-> Version(o) + 1]
      /\ \A x \in DOMAIN receipts[u] : receipts'[u][x] = receipts[u][x]
      /\ \A w \in Users \ {u} : receipts'[w] = receipts[w]
  BY DEF Recorded, Receipt, TypeOK
<1>4. ASSUME NEW w \in Users, NEW x \in DOMAIN receipts'[w],
             NEW o \in DOMAIN receipts'[w][x].objects
      PROVE  /\ receipts'[w][x].objects[o] <= Version(o)'
             /\ rev'[o][receipts'[w][x].objects[o]].by = <<w, x>>
  <2>1. CASE w = u /\ x = op
    <3>1. o \in DOMAIN new /\ receipts'[w][x].objects[o] = Version(o) + 1
      BY <2>1, <1>3
    <3>2. QED
      BY <3>1, <2>1, <1>1, <1>2
  <2>2. CASE ~ (w = u /\ x = op)
    <3>1. x \in DOMAIN receipts[w] /\ receipts'[w][x] = receipts[w][x]
      BY <2>2, <1>3
    <3>2. /\ o \in Objects /\ receipts[w][x].objects[o] \in 1 .. MaxVersion
          /\ receipts[w][x].objects[o] <= Version(o)
          /\ rev[o][receipts[w][x].objects[o]].by = <<w, x>>
      BY <3>1 DEF TypeOK, Versions, ReceiptsMatchLedger
    <3>3. receipts[w][x].objects[o] \in 1 .. Version(o)
      BY <3>2, <1>2, LimitsAreCounts
    <3>4. receipts[w][x].objects[o] <= Version(o)'
      BY <3>2, <3>3, <1>2
    <3>5. rev'[o][receipts[w][x].objects[o]] = rev[o][receipts[w][x].objects[o]]
      BY <3>2, <3>3, <1>2
    <3>6. QED
      BY <3>1, <3>2, <3>4, <3>5
  <2>3. QED
    BY <2>1, <2>2
<1>5. ASSUME NEW w \in Users, NEW o \in Objects, NEW v \in 1 .. Version(o)', NEW x \in Ops,
             rev'[o][v].by = <<w, x>>
      PROVE  /\ x \in DOMAIN receipts'[w]
             /\ o \in DOMAIN receipts'[w][x].objects
             /\ receipts'[w][x].objects[o] = v
  <2>1. CASE v <= Version(o)
    <3>1. v \in 1 .. Version(o) /\ rev[o][v].by = <<w, x>>
      BY <2>1, <1>2, <1>5
    <3>2. /\ x \in DOMAIN receipts[w] /\ o \in DOMAIN receipts[w][x].objects
          /\ receipts[w][x].objects[o] = v
      BY <3>1 DEF ReceiptsMatchLedger
    <3>3. QED
      BY <3>2, <1>3
  <2>2. CASE ~ (v <= Version(o))
    <3>1. v = Version(o) + 1 /\ o \in DOMAIN new
      BY <2>2, <1>1, <1>2 DEF Version
    <3>2. w = u /\ x = op
      BY <3>1, <1>1, <1>5
    <3>3. QED
      BY <3>1, <3>2, <1>3
  <2>3. QED
    BY <2>1, <2>2
<1>6. QED
  BY <1>4, <1>5 DEF ReceiptsMatchLedger

\* A write outside the commands names no operation and has no receipt.
LEMMA OutsideWriteKeepsLedger ==
    ASSUME TypeOK, ReceiptsMatchLedger, OutsideWrite, receipts' = receipts
    PROVE  ReceiptsMatchLedger'
<1>1. \A o \in Objects : /\ Version(o) \in Nat \ {0} /\ Version(o)' \in Nat
                         /\ Version(o) <= Version(o)'
                         /\ \A v \in 1 .. Version(o) : rev'[o][v] = rev[o][v]
  BY OutsideWriteKeepsRevisions, CurrentIsSnapshot DEF RevisionsKept, Version
<1>2. ASSUME NEW o \in Objects, NEW v \in 1 .. Version(o)', ~ (v <= Version(o))
      PROVE  rev'[o][v].by = Untracked
  <2>1. PICK s \in Snapshot : s.by = Untracked /\ rev'[o] = Append(rev[o], s)
    BY <1>1, <1>2 DEF OutsideWrite, Version
  <2>2. rev[o] \in Seq(Snapshot)
    BY DEF TypeOK
  <2>3. Len(rev'[o]) = Len(rev[o]) + 1 /\ rev'[o][Len(rev[o]) + 1] = s
    BY <2>1, <2>2, AppendIsExtension
  <2>4. v = Len(rev[o]) + 1
    BY <2>3, <1>1, <1>2 DEF Version
  <2>5. QED
    BY <2>1, <2>3, <2>4
<1>3. ASSUME NEW w \in Users, NEW x \in DOMAIN receipts'[w],
             NEW o \in DOMAIN receipts'[w][x].objects
      PROVE  /\ receipts'[w][x].objects[o] <= Version(o)'
             /\ rev'[o][receipts'[w][x].objects[o]].by = <<w, x>>
  <2>1. x \in DOMAIN receipts[w] /\ o \in DOMAIN receipts[w][x].objects
    BY <1>3
  <2>2. o \in Objects /\ receipts[w][x].objects[o] \in 1 .. MaxVersion
    BY <2>1 DEF TypeOK, Versions
  <2>3. /\ receipts[w][x].objects[o] <= Version(o)
        /\ rev[o][receipts[w][x].objects[o]].by = <<w, x>>
    BY <2>1 DEF ReceiptsMatchLedger
  <2>4. receipts[w][x].objects[o] \in 1 .. Version(o)
    BY <2>2, <2>3, <1>1, LimitsAreCounts
  <2>5. receipts[w][x].objects[o] <= Version(o)'
    BY <2>2, <2>3, <2>4, <1>1
  <2>6. rev'[o][receipts[w][x].objects[o]] = rev[o][receipts[w][x].objects[o]]
    BY <2>2, <2>4, <1>1
  <2>7. QED
    BY <2>3, <2>5, <2>6
<1>4. ASSUME NEW w \in Users, NEW o \in Objects, NEW v \in 1 .. Version(o)', NEW x \in Ops,
             rev'[o][v].by = <<w, x>>
      PROVE  /\ x \in DOMAIN receipts'[w]
             /\ o \in DOMAIN receipts'[w][x].objects
             /\ receipts'[w][x].objects[o] = v
  <2>1. v <= Version(o)
    BY <1>2, <1>4, UntrackedIsNoOperation
  <2>2. v \in 1 .. Version(o) /\ rev[o][v].by = <<w, x>>
    BY <2>1, <1>1, <1>4
  <2>3. QED
    BY <2>2 DEF ReceiptsMatchLedger
<1>5. QED
  BY <1>3, <1>4 DEF ReceiptsMatchLedger

-----------------------------------------------------------------------------
(* The prune of a move.                                                     *)

\* A selection that keeps every entry of an object keeps their links.
LEMMA SelectionKeepsLinks ==
    ASSUME NEW s, NEW K, NEW t, NEW g, Len(s) \in Nat, Len(t) \in Nat,
           Selects(s, K, Len(s), t, g), NEW ch, NEW near, NEW far, NEW now, NEW o,
           Links(ch, s, near, far, now, o),
           \A i \in 1 .. Len(s) : o \in DOMAIN ch[s[i]] => s[i] \in K
    PROVE  Links(ch, t, near, far, now, o)
<1> DEFINE all == Places(ch, s, o)
           some == Places(ch, t, o)
<1>1. /\ \A i \in 1 .. Len(t) : g[i] \in 1 .. Len(s) /\ t[i] = s[g[i]]
      /\ \A i, j \in 1 .. Len(t) : i < j => g[i] < g[j]
      /\ \A n \in 1 .. Len(s) : s[n] \in K => \E i \in 1 .. Len(t) : g[i] = n
  BY DEF Selects
<1>2. \A i \in 1 .. Len(t) : i \in some <=> g[i] \in all
  BY <1>1 DEF Places
<1>3. \A i \in some : i \in 1 .. Len(t)
  BY DEF Places
<1>4. \A n \in all : \E i \in some : g[i] = n
  BY <1>1, <1>2 DEF Places
<1>5. \A i, j \in 1 .. Len(t) : /\ i <= j => g[i] <= g[j]
                                /\ i < j => g[i] < g[j]
                                /\ g[i] \in Nat /\ g[j] \in Nat
  <2>1. TAKE i, j \in 1 .. Len(t)
  <2>2. g[i] \in Nat /\ g[j] \in Nat /\ (i < j => g[i] < g[j])
    BY <1>1
  <2>3. i <= j => i < j \/ i = j
    OBVIOUS
  <2>4. QED
    BY <2>2, <2>3
<1> HIDE DEF all, some
<1>6. ASSUME NEW i \in 1 .. Len(t), IsTop(ch, t, o, i)
      PROVE  near[t[i]] = now
  <2>1. i \in some /\ \A k \in some : k <= i
    BY <1>6 DEF IsTop, some
  <2>2. \A n \in all : n <= g[i]
    BY <2>1, <1>3, <1>4, <1>5
  <2>3. g[i] \in 1 .. Len(s) /\ IsTop(ch, s, o, g[i])
    BY <2>1, <2>2, <1>1, <1>2 DEF IsTop, all
  <2>4. QED
    BY <2>3, <1>1 DEF Links
<1>7. ASSUME NEW i \in 1 .. Len(t), NEW j \in 1 .. Len(t), Follows(ch, t, o, i, j)
      PROVE  near[t[i]] = far[t[j]]
  <2>1. i \in some /\ j \in some /\ i < j /\ \A k \in some : k <= i \/ j <= k
    BY <1>7 DEF Follows, some
  <2>2. ASSUME NEW n \in all PROVE n <= g[i] \/ g[j] <= n
    <3>1. PICK k \in some : g[k] = n
      BY <1>4
    <3>2. QED
      BY <3>1, <2>1, <1>3, <1>5
  <2>3. /\ g[i] \in 1 .. Len(s) /\ g[j] \in 1 .. Len(s)
        /\ g[i] \in all /\ g[j] \in all /\ g[i] < g[j]
    BY <2>1, <1>1, <1>2, <1>5
  <2>4. Follows(ch, s, o, g[i], g[j])
    BY <2>2, <2>3 DEF Follows, all
  <2>5. QED
    BY <2>3, <2>4, <1>1 DEF Links
<1>8. QED
  BY <1>6, <1>7 DEF Links

\* What a prune leaves: a selection of both stacks, and the expectations of
\* the objects that the entries left have changed.
LEMMA PruneEffect ==
    ASSUME TypeOK, NEW u \in Users, UserInv(u), NEW scope,
           NEW K, K = {c \in Ops : Stays(c, scope)}, NEW p, p = PrunedStack(u, scope)
    PROVE  /\ p.version \in Nat
           /\ p.undo \in Seq(Ops) /\ \E g : Selects(stack[u].undo, K, Len(stack[u].undo), p.undo, g)
           /\ p.redo \in Seq(Ops) /\ \E g : Selects(stack[u].redo, K, Len(stack[u].redo), p.redo, g)
           /\ DOMAIN p.expected = DOMAIN stack[u].expected \cap
                                  Touched(changes[u], RangeOf(p.undo) \cup RangeOf(p.redo))
           /\ \A o \in DOMAIN p.expected : p.expected[o] = stack[u].expected[o]
<1>1. /\ stack[u].version \in Nat
      /\ stack[u].undo \in Seq(Ops) /\ stack[u].redo \in Seq(Ops)
  BY DEF TypeOK
<1>2. CASE RangeOf(stack[u].undo) \cup RangeOf(stack[u].redo) \subseteq K
  <2>1. p = stack[u]
    BY <1>2 DEF PrunedStack
  <2>2. /\ \A i \in 1 .. Len(stack[u].undo) : stack[u].undo[i] \in K
        /\ \A i \in 1 .. Len(stack[u].redo) : stack[u].redo[i] \in K
    BY <1>2 DEF RangeOf
  <2>3. /\ \E g : Selects(stack[u].undo, K, Len(stack[u].undo), stack[u].undo, g)
        /\ \E g : Selects(stack[u].redo, K, Len(stack[u].redo), stack[u].redo, g)
    BY <1>1, <2>2, AllAreSelected
  <2>4. DOMAIN stack[u].expected =
           Touched(changes[u], RangeOf(stack[u].undo) \cup RangeOf(stack[u].redo))
    BY DEF UserInv, Reachable
  <2>5. QED
    BY <1>1, <2>1, <2>3, <2>4
<1>3. CASE ~ (RangeOf(stack[u].undo) \cup RangeOf(stack[u].redo) \subseteq K)
  <2>1. p = SavedStack(stack[u], changes[u], Filtered(stack[u].undo, K),
                       Filtered(stack[u].redo, K), stack[u].expected)
    BY <1>3 DEF PrunedStack
  <2>2. /\ p.version = stack[u].version + 1
        /\ p.undo = Filtered(stack[u].undo, K) /\ p.redo = Filtered(stack[u].redo, K)
        /\ p.expected = [o \in DOMAIN stack[u].expected \cap
                                Touched(changes[u], RangeOf(p.undo) \cup RangeOf(p.redo)) |->
                            stack[u].expected[o]]
    BY <2>1 DEF SavedStack
  <2>3. /\ p.undo \in Seq(Ops) /\ \E g : Selects(stack[u].undo, K, Len(stack[u].undo), p.undo, g)
        /\ p.redo \in Seq(Ops) /\ \E g : Selects(stack[u].redo, K, Len(stack[u].redo), p.redo, g)
    <3>1. ASSUME NEW s \in Seq(Ops)
          PROVE  /\ Filtered(s, K) \in Seq(Ops)
                 /\ \E g : Selects(s, K, Len(s), Filtered(s, K), g)
      BY FilteredIsSubsequence
    <3>2. QED
      BY <1>1, <2>2, <3>1
  <2>4. /\ DOMAIN p.expected = DOMAIN stack[u].expected \cap
                               Touched(changes[u], RangeOf(p.undo) \cup RangeOf(p.redo))
        /\ \A o \in DOMAIN p.expected : p.expected[o] = stack[u].expected[o]
    BY <2>2
  <2>5. p.version \in Nat
    BY <1>1, <2>2
  <2>6. QED
    BY <2>3, <2>4, <2>5
<1>4. QED
  BY <1>2, <1>3

\* A move that takes a scope away keeps the invariant of every stack, and its
\* coherence if what it takes off the stack had changed nothing that stays.
LEMMA PruneKeepsUserInv ==
    ASSUME TypeOK, RevisionsKept, NEW u \in Users, UserInv(u), NEW scope,
           stack'[u] = PrunedStack(u, scope), changes'[u] = changes[u],
           receipts'[u] = receipts[u],
           \A o \in Objects : Len(rev'[o]) \in Nat
    PROVE  /\ UserInv(u)'
           /\ (\A c \in Reachable(u) : Stays(c, scope) \/ DOMAIN changes[u][c] \subseteq scope)
                 => (Coherent(u) => Coherent(u)')
<1>0. SUFFICES ASSUME NEW ch, ch = changes[u], NEW U, U = stack[u].undo,
                      NEW R, R = stack[u].redo, NEW old, old = stack[u].expected,
                      NEW K, K = {c \in Ops : Stays(c, scope)},
                      NEW undo, undo = stack'[u].undo, NEW redo, redo = stack'[u].redo,
                      NEW expected, expected = stack'[u].expected
               PROVE  /\ UserInv(u)'
                      /\ (\A c \in Reachable(u) : Stays(c, scope) \/ DOMAIN ch[c] \subseteq scope)
                            => (Coherent(u) => Coherent(u)')
  OBVIOUS
<1>1. /\ U \in Seq(Ops) /\ R \in Seq(Ops) /\ undo \in Seq(Ops) /\ redo \in Seq(Ops)
      /\ \E g : Selects(U, K, Len(U), undo, g)
      /\ \E g : Selects(R, K, Len(R), redo, g)
      /\ DOMAIN expected = DOMAIN old \cap Touched(ch, RangeOf(undo) \cup RangeOf(redo))
      /\ \A o \in DOMAIN expected : expected[o] = old[o]
  <2>1. U \in Seq(Ops) /\ R \in Seq(Ops)
    BY <1>0 DEF TypeOK
  <2> DEFINE q == PrunedStack(u, scope)
  <2>2. /\ q.undo \in Seq(Ops) /\ \E g : Selects(stack[u].undo, K, Len(stack[u].undo), q.undo, g)
        /\ q.redo \in Seq(Ops) /\ \E g : Selects(stack[u].redo, K, Len(stack[u].redo), q.redo, g)
        /\ DOMAIN q.expected = DOMAIN stack[u].expected \cap
                               Touched(changes[u], RangeOf(q.undo) \cup RangeOf(q.redo))
        /\ \A o \in DOMAIN q.expected : q.expected[o] = stack[u].expected[o]
    <3>1. K = {c \in Ops : Stays(c, scope)}
      BY <1>0
    <3> HIDE DEF q
    <3>2. q = PrunedStack(u, scope)
      BY DEF q
    <3>3. QED
      BY <3>1, <3>2, PruneEffect
  <2>3. undo = q.undo /\ redo = q.redo /\ expected = q.expected
    BY <1>0
  <2> HIDE DEF q
  <2>4. QED
    BY <1>0, <2>1, <2>2, <2>3
<1>2. PICK g : Selects(U, K, Len(U), undo, g)
  BY <1>1
<1>3. PICK h : Selects(R, K, Len(R), redo, h)
  BY <1>1
<1>4. /\ Len(undo) <= Len(U) /\ Len(redo) <= Len(R)
      /\ Len(undo) \in Nat /\ Len(redo) \in Nat /\ Len(U) \in Nat /\ Len(R) \in Nat
  BY <1>1, <1>2, <1>3 DEF Selects
<1>5. RangeOf(undo) \subseteq RangeOf(U) \cap K /\ RangeOf(redo) \subseteq RangeOf(R) \cap K
  <2>1. /\ \A i \in 1 .. Len(undo) : g[i] \in 1 .. Len(U) /\ undo[i] = U[g[i]] /\ undo[i] \in K
        /\ \A i \in 1 .. Len(redo) : h[i] \in 1 .. Len(R) /\ redo[i] = R[h[i]] /\ redo[i] \in K
    BY <1>2, <1>3 DEF Selects
  <2>2. QED
    BY <2>1 DEF RangeOf
<1>6. /\ Reachable(u) = RangeOf(U) \cup RangeOf(R)
      /\ Reachable(u)' = RangeOf(undo) \cup RangeOf(redo)
      /\ Reachable(u)' \subseteq Reachable(u) \cap K
      /\ Reachable(u) \subseteq DOMAIN ch
      /\ DOMAIN old = Touched(ch, Reachable(u))
      /\ Len(U) + Len(R) <= StackLimit
  BY <1>0, <1>5 DEF Reachable, UserInv
<1>7. DOMAIN expected = Touched(ch, Reachable(u)') /\ DOMAIN expected \subseteq DOMAIN old
  BY <1>1, <1>6 DEF Touched
<1>8. \A o \in Objects :
         Version(o) \in Nat /\ Version(o)' \in Nat /\ Version(o) <= Version(o)'
  BY CurrentIsSnapshot DEF RevisionsKept, Version
<1>9. ASSUME NEW c \in DOMAIN ch
      PROVE  /\ c \in DOMAIN receipts'[u]
             /\ \A o \in DOMAIN ch[c] : o \in Objects /\ ch[c][o] < Version(o) /\ ch[c][o] < Version(o)'
  <2>1. c \in DOMAIN receipts'[u] /\ \A o \in DOMAIN ch[c] : ch[c][o] < Version(o)
    BY <1>0 DEF UserInv
  <2>2. \A o \in DOMAIN ch[c] : o \in Objects /\ ch[c][o] \in Nat
    BY <1>0, LimitsAreCounts DEF TypeOK, Versions
  <2>3. QED
    BY <2>1, <2>2, <1>8
<1>10. ASSUME NEW o \in DOMAIN expected
       PROVE  /\ o \in Objects /\ o \in DOMAIN old /\ expected[o] = old[o]
              /\ expected[o] \in 1 .. Version(o)'
              /\ rev'[o][expected[o]] = rev[o][old[o]]
              /\ rev[o][old[o]].by \in {u} \X Ops
  <2>1. o \in DOMAIN old /\ expected[o] = old[o]
    BY <1>1, <1>7
  <2>2. o \in Objects /\ old[o] \in 1 .. Version(o) /\ rev[o][old[o]].by \in {u} \X Ops
    BY <1>0, <2>1 DEF TypeOK, Versions, UserInv
  <2>3. QED
    BY <2>1, <2>2, <1>8 DEF RevisionsKept, Version
<1>11. UserInv(u)'
  <2>1. Len(undo) + Len(redo) <= StackLimit
    BY <1>4, <1>6, LimitsAreCounts
  <2>2. Reachable(u)' \subseteq DOMAIN ch
    BY <1>6
  <2>3. QED
    BY <1>0, <1>7, <1>9, <1>10, <2>1, <2>2 DEF UserInv
<1>12. ASSUME \A c \in Reachable(u) : Stays(c, scope) \/ DOMAIN ch[c] \subseteq scope,
              Coherent(u), NEW o \in DOMAIN expected
       PROVE  ChainOfContent(u, o)'
  <2>1. SUFFICES ASSUME NEW left, left = [c \in DOMAIN ch |-> After(rev, ch, c, o)],
                        NEW found, found = [c \in DOMAIN ch |-> Before(rev, ch, c, o)],
                        NEW now, now = rev[o][old[o]].content
                 PROVE  Chain(rev', ch, undo, redo, now, o)
    BY <1>0, <1>10 DEF ChainOfContent
  \* What changed o stays: the entry that keeps the expectation of o does.
  <2>2. o \notin scope
    <3>1. PICK c \in Reachable(u)' : o \in DOMAIN ch[c]
      BY <1>7 DEF Touched
    <3>2. Stays(c, scope) /\ c \in DOMAIN changes[u]
      BY <3>1, <1>0, <1>6
    <3>3. QED
      BY <3>1, <3>2, <1>0 DEF Stays
  <2>3. \A c \in Reachable(u) : c \in Ops /\ (o \in DOMAIN ch[c] => c \in K)
    BY <1>0, <1>6, <1>12, <2>2 DEF TypeOK
  <2>4. /\ \A i \in 1 .. Len(U) : U[i] \in Reachable(u)
        /\ \A i \in 1 .. Len(R) : R[i] \in Reachable(u)
        /\ \A i \in 1 .. Len(undo) : undo[i] \in Reachable(u)
        /\ \A i \in 1 .. Len(redo) : redo[i] \in Reachable(u)
    BY <1>5, <1>6 DEF RangeOf
  <2>5. \A c \in DOMAIN ch : left[c] = After(rev, ch, c, o) /\ found[c] = Before(rev, ch, c, o)
    BY <2>1
  <2>6. Links(ch, U, left, found, now, o) /\ Links(ch, R, found, left, now, o)
    <3>1. Chain(rev, ch, U, R, now, o)
      BY <1>0, <1>10, <1>12, <2>1 DEF Coherent, ChainOfContent
    <3>2. /\ \A i \in 1 .. Len(U) : U[i] \in DOMAIN ch
          /\ \A i \in 1 .. Len(R) : R[i] \in DOMAIN ch
      BY <2>4, <1>6
    <3>3. Chain(rev, ch, U, R, now, o) <=>
             Links(ch, U, left, found, now, o) /\ Links(ch, R, found, left, now, o)
      BY <3>2, <2>5, ChainIsLinks
    <3>4. QED
      BY <3>1, <3>3
  <2>7. Links(ch, undo, left, found, now, o) /\ Links(ch, redo, found, left, now, o)
    <3>1. Links(ch, undo, left, found, now, o)
      BY <2>3, <2>4, <2>6, <1>2, <1>4, SelectionKeepsLinks
    <3>2. Links(ch, redo, found, left, now, o)
      BY <2>3, <2>4, <2>6, <1>3, <1>4, SelectionKeepsLinks
    <3>3. QED
      BY <3>1, <3>2
  <2>8. ASSUME NEW c \in DOMAIN ch, o \in DOMAIN ch[c]
        PROVE  left[c] = After(rev', ch, c, o) /\ found[c] = Before(rev', ch, c, o)
    <3>1. c \in DOMAIN changes[u] /\ o \in DOMAIN changes[u][c] /\ changes[u][c][o] < Version(o)
      BY <2>8, <1>0, <1>9
    <3>2. /\ Before(rev', changes'[u], c, o) = Before(rev, changes[u], c, o)
          /\ After(rev', changes'[u], c, o) = After(rev, changes[u], c, o)
      BY <3>1, ContentKept
    <3>3. QED
      BY <3>2, <2>5, <1>0
  <2>9. QED
    BY <2>4, <2>7, <2>8, <1>6, ChainIsLinks
<1>13. QED
  BY <1>0, <1>11, <1>12 DEF Coherent

LEMMA MoveAwayTyped ==
    ASSUME TypeOK, \A u \in Users : UserInv(u), NEW scope, NEW tasks, NEW k \in Kept,
           MoveAway(scope, tasks, k)
    PROVE  TypeOK'
<1>1. /\ rev' = Rewritten(tasks, k) /\ UNCHANGED <<editors, changes, receipts>>
      /\ here' = here \ scope /\ stack' = [u \in Users |-> PrunedStack(u, scope)]
  BY DEF MoveAway
<1>2. rev' \in [Objects -> Seq(Snapshot) \ {<<>>}]
  BY <1>1, RewriteWrites, OutsideWriteKeepsRevisions
<1>3. ASSUME NEW u \in Users
      PROVE  /\ stack'[u].version \in Nat
             /\ stack'[u].undo \in Seq(Ops) /\ stack'[u].redo \in Seq(Ops)
             /\ Versions(stack'[u].expected)
  <2>1. stack'[u] = PrunedStack(u, scope) /\ Versions(stack[u].expected) /\ UserInv(u)
    BY <1>1 DEF TypeOK
  <2>2. SUFFICES ASSUME NEW p, p = PrunedStack(u, scope),
                        NEW K, K = {c \in Ops : Stays(c, scope)}
                 PROVE  /\ p.version \in Nat /\ p.undo \in Seq(Ops) /\ p.redo \in Seq(Ops)
                        /\ Versions(p.expected)
    BY <2>1
  <2>3. /\ p.version \in Nat /\ p.undo \in Seq(Ops) /\ p.redo \in Seq(Ops)
        /\ DOMAIN p.expected = DOMAIN stack[u].expected \cap
                               Touched(changes[u], RangeOf(p.undo) \cup RangeOf(p.redo))
        /\ \A o \in DOMAIN p.expected : p.expected[o] = stack[u].expected[o]
    BY <2>1, <2>2, PruneEffect
  <2>4. p.expected = [o \in DOMAIN p.expected |-> p.expected[o]]
    BY <2>1, <2>2 DEF PrunedStack, SavedStack, Versions
  <2>5. QED
    BY <2>1, <2>3, <2>4 DEF Versions
<1>4. here' \in SUBSET Objects /\ DOMAIN stack' = Users
  BY <1>1 DEF TypeOK
<1>5. QED
  BY <1>1, <1>2, <1>3, <1>4 DEF TypeOK, Versions

-----------------------------------------------------------------------------
(* The inductive invariant: what the records and stacks keep under every    *)
(* step, the moves included, and the coherence of the stacks, which moves   *)
(* that split a command take from them (see the run crossmove).             *)

LEMMA InitEstablishesIInv ==
    ASSUME Init PROVE IInv
<1>1. /\ DOMAIN stack = Users /\ DOMAIN changes = Users /\ DOMAIN receipts = Users
      /\ \A u \in Users : /\ stack[u] = EmptyStack
                          /\ changes[u] = [c \in {} |-> NoExpectations]
                          /\ receipts[u] = [x \in {} |-> {}]
  BY DEF Init
<1>2. /\ EmptyStack.version = 0 /\ EmptyStack.undo = <<>> /\ EmptyStack.redo = <<>>
      /\ EmptyStack.expected = NoExpectations
      /\ DOMAIN NoExpectations = {} /\ Versions(NoExpectations)
  BY DEF EmptyStack, NoExpectations, Versions
<1>3. rev \in [Objects -> Seq(Snapshot) \ {<<>>}]
  <2>1. ASSUME NEW o \in Objects PROVE rev[o] \in Seq(Snapshot) \ {<<>>}
    <3>1. PICK c \in Contents, k \in Kept :
             rev[o] = <<[content |-> c, kept |-> k, live |-> TRUE, by |-> Untracked]>>
      BY DEF Init
    <3> DEFINE s == [content |-> c, kept |-> k, live |-> TRUE, by |-> Untracked]
    <3>2. s \in Snapshot
      BY DEF Snapshot
    <3>3. rev[o] = <<s>>
      BY <3>1
    <3> HIDE DEF s
    <3>4. QED
      BY <3>2, <3>3
  <2>2. rev = [o \in Objects |-> rev[o]]
    BY DEF Init
  <2>3. QED
    BY <2>1, <2>2
<1>4. here \in SUBSET Objects /\ editors \in SUBSET (Users \X Objects)
  BY DEF Init
<1>5. TypeOK
  <2>1. ASSUME NEW u \in Users
        PROVE  /\ DOMAIN changes[u] = {} /\ DOMAIN receipts[u] = {}
               /\ stack[u].version \in Nat
               /\ stack[u].undo \in Seq(Ops) /\ stack[u].redo \in Seq(Ops)
               /\ Versions(stack[u].expected)
    <3>1. DOMAIN changes[u] = {} /\ DOMAIN receipts[u] = {}
      BY <1>1
    <3>2. /\ stack[u].version = 0 /\ stack[u].undo = <<>> /\ stack[u].redo = <<>>
          /\ stack[u].expected = NoExpectations
      BY <1>1, <1>2
    <3>3. QED
      BY <3>1, <3>2, <1>2
  <2>2. QED
    BY <1>1, <1>3, <1>4, <2>1 DEF TypeOK
<1>6. ASSUME NEW u \in Users PROVE UserInv(u) /\ Coherent(u)
  <2>1. stack[u].undo = <<>> /\ stack[u].redo = <<>> /\ DOMAIN stack[u].expected = {}
        /\ DOMAIN changes[u] = {}
    BY <1>1, <1>2
  <2>2. Reachable(u) = {}
    BY <2>1 DEF Reachable, RangeOf
  <2>3. QED
    BY <2>1, <2>2, LimitsAreCounts DEF UserInv, Coherent, Touched
<1>7. ReceiptsMatchLedger
  <2>1. \A u \in Users : DOMAIN receipts[u] = {}
    BY <1>1
  <2>2. ASSUME NEW o \in Objects, NEW v \in 1 .. Version(o) PROVE rev[o][v].by = Untracked
    <3>1. PICK c \in Contents, k \in Kept :
             rev[o] = <<[content |-> c, kept |-> k, live |-> TRUE, by |-> Untracked]>>
      BY DEF Init
    <3> DEFINE s == [content |-> c, kept |-> k, live |-> TRUE, by |-> Untracked]
    <3>2. rev[o] = <<s>> /\ s.by = Untracked
      BY <3>1
    <3> HIDE DEF s
    <3>3. v = 1
      BY <3>2 DEF Version
    <3>4. QED
      BY <3>2, <3>3
  <2>3. \A u \in Users, op \in Ops : <<u, op>> # Untracked
    BY UntrackedIsNoOperation
  <2>4. QED
    BY <2>1, <2>2, <2>3 DEF ReceiptsMatchLedger
<1>8. QED
  BY <1>5, <1>6, <1>7, InvariantByUser DEF IInv

\* The invariant after a step, from its part for each user.
LEMMA ProvedByUser ==
    /\ TypeOK' /\ ReceiptsMatchLedger' /\ (\A u \in Users : UserInv(u)') => RecordsInv'
    /\ StackCoherent /\ (\A u \in Users : Coherent(u) => Coherent(u)') => StackCoherent'
  BY DEF RecordsInv, ChangesRecorded, StackBounded, ExpectsWhatIsInReach, ExpectsOwnWrites,
         StackCoherent, UserInv, Coherent

\* A request of u that is carried out leaves everybody else's records alone.
LEMMA CommandLeavesOthers ==
    ASSUME TypeOK, NEW u \in Users, NEW op \in Ops, NEW w \in Users \ {u},
           \/ \E edits \in EditSets : Execute(u, op, edits)
           \/ \E cmd \in DOMAIN changes[u], direction \in {"undo", "redo"} :
                    Transition(u, op, cmd, direction)
    PROVE  stack'[w] = stack[w] /\ changes'[w] = changes[w] /\ receipts'[w] = receipts[w]
  BY DEF Execute, Transition, Recorded, TypeOK

LEMMA CommandKeepsRecords ==
    ASSUME RecordsInv, NEW u \in Users, CommandRequest(u)
    PROVE  RecordsInv' /\ (StackCoherent => StackCoherent')
<1>1. TypeOK /\ ChangesRecorded /\ ReceiptsMatchLedger /\ \A w \in Users : UserInv(w)
  BY InvariantByUser DEF RecordsInv
<1>2. PICK op \in Ops :
        /\ op \notin DOMAIN receipts[u]
        /\ \/ \E edits \in EditSets : Execute(u, op, edits)
           \/ \E cmd \in DOMAIN changes[u], direction \in {"undo", "redo"} :
                    Transition(u, op, cmd, direction)
  BY DEF CommandRequest, Accepted
<1>3. TypeOK' /\ UserInv(u)' /\ (Coherent(u) => Coherent(u)')
  BY <1>1, <1>2, ExecuteTyped, ExecuteKeepsUserInv, TransitionTyped, TransitionKeepsUserInv
<1>4. RevisionsKept /\ ReceiptsMatchLedger'
  <2>1. ASSUME NEW edits \in EditSets, Execute(u, op, edits)
        PROVE  RevisionsKept /\ ReceiptsMatchLedger'
    <3>1. /\ <<u, op>> \in (Users \X Ops) \cup {Untracked} /\ rev' = Written(edits, <<u, op>>)
          /\ receipts' = Recorded(u, op, Receipt(op, "execute", stack[u].version + 1, DOMAIN edits))
      BY <2>1 DEF Execute
    <3>2. /\ DOMAIN edits \in SUBSET Objects
          /\ \A o \in DOMAIN edits : edits[o].content \in Contents /\ edits[o].kept \in Kept
      BY EditSetsTyped
    <3>3. QED
      BY <1>1, <1>2, <3>1, <3>2, WriteKeepsRevisions, CommandKeepsLedger
  <2>2. ASSUME NEW cmd \in DOMAIN changes[u], NEW direction \in {"undo", "redo"},
               Transition(u, op, cmd, direction)
        PROVE  RevisionsKept /\ ReceiptsMatchLedger'
    <3> DEFINE edits == InverseEdits(u, cmd, direction)
    <3>1. /\ <<u, op>> \in (Users \X Ops) \cup {Untracked} /\ rev' = Written(edits, <<u, op>>)
          /\ receipts' = Recorded(u, op, Receipt(cmd, direction, stack[u].version + 1,
                                                 DOMAIN changes[u][cmd]))
      BY <2>2 DEF Transition
    <3>2. /\ DOMAIN edits = DOMAIN changes[u][cmd]
          /\ \A o \in DOMAIN edits : edits[o].content \in Contents /\ edits[o].kept \in Kept
      BY <1>1, InverseTyped
    <3>3. DOMAIN edits \in SUBSET Objects
      BY <1>1, <3>2 DEF TypeOK, Versions
    <3> HIDE DEF edits
    <3>4. RevisionsKept
      BY <1>1, <3>1, <3>2, WriteKeepsRevisions
    <3>5. receipts' = Recorded(u, op, Receipt(cmd, direction, stack[u].version + 1, DOMAIN edits))
      BY <3>1, <3>2
    <3>6. ReceiptsMatchLedger'
      BY <1>1, <1>2, <3>1, <3>2, <3>3, <3>5, CommandKeepsLedger
    <3>7. QED
      BY <3>4, <3>6
  <2>3. QED
    BY <1>2, <2>1, <2>2
<1>5. ASSUME NEW w \in Users \ {u}
      PROVE  UserInv(w)' /\ (Coherent(w) => Coherent(w)')
  <2>1. stack'[w] = stack[w] /\ changes'[w] = changes[w] /\ receipts'[w] = receipts[w]
    BY <1>1, <1>2, CommandLeavesOthers
  <2>2. \A o \in Objects : Len(rev'[o]) \in Nat
    BY <1>3 DEF TypeOK
  <2>3. QED
    BY <1>1, <1>4, <2>1, <2>2, OtherStepsKeepUserInv
<1>6. ASSUME NEW w \in Users
      PROVE  UserInv(w)' /\ (Coherent(w) => Coherent(w)')
  BY <1>3, <1>5
<1>7. QED
  BY <1>3, <1>4, <1>6, ProvedByUser

LEMMA OutsideWriteKeepsRecords ==
    ASSUME RecordsInv, OutsideWrite, UNCHANGED <<stack, changes, receipts>>,
           here' \in SUBSET Objects, editors' \in SUBSET (Users \X Objects)
    PROVE  RecordsInv' /\ (StackCoherent => StackCoherent')
<1>1. TypeOK /\ ReceiptsMatchLedger /\ \A w \in Users : UserInv(w)
  BY InvariantByUser
<1>2. rev' \in [Objects -> Seq(Snapshot) \ {<<>>}] /\ RevisionsKept
  BY <1>1, OutsideWriteKeepsRevisions
<1>3. TypeOK'
  BY <1>1, <1>2 DEF TypeOK, Versions
<1>4. ReceiptsMatchLedger'
  BY <1>1, OutsideWriteKeepsLedger
<1>5. \A o \in Objects : Len(rev'[o]) \in Nat
  BY <1>2
<1>6. ASSUME NEW w \in Users
      PROVE  UserInv(w)' /\ (Coherent(w) => Coherent(w)')
  BY <1>1, <1>2, <1>5, OtherStepsKeepUserInv
<1>7. QED
  BY <1>3, <1>4, <1>6, ProvedByUser

LEMMA MoveAwayKeepsRecords ==
    ASSUME RecordsInv, NEW scope \in MoveScopes, NEW tasks, NEW k \in Kept,
           MoveAway(scope, tasks, k)
    PROVE  RecordsInv' /\ (StackCoherent /\ ~ SplitsACommand => StackCoherent')
<1>1. TypeOK /\ ReceiptsMatchLedger /\ \A w \in Users : UserInv(w)
  BY InvariantByUser
<1>2. /\ scope \subseteq here /\ here' = here \ scope
      /\ stack' = [u \in Users |-> PrunedStack(u, scope)]
      /\ changes' = changes /\ receipts' = receipts /\ rev' = Rewritten(tasks, k)
  BY DEF MoveAway
<1>3. TypeOK'
  BY <1>1, MoveAwayTyped
<1>4. OutsideWrite /\ RevisionsKept /\ ReceiptsMatchLedger'
  BY <1>1, <1>2, RewriteWrites, OutsideWriteKeepsRevisions, OutsideWriteKeepsLedger
<1>5. \A o \in Objects : Len(rev'[o]) \in Nat
  BY <1>3 DEF TypeOK
<1>6. ASSUME NEW u \in Users
      PROVE  /\ UserInv(u)'
             /\ (\A c \in Reachable(u) : Stays(c, scope) \/ DOMAIN changes[u][c] \subseteq scope)
                   => (Coherent(u) => Coherent(u)')
  <2>1. stack'[u] = PrunedStack(u, scope) /\ changes'[u] = changes[u] /\ receipts'[u] = receipts[u]
    BY <1>2
  <2>2. QED
    BY <1>1, <1>4, <1>5, <2>1, PruneKeepsUserInv
<1>7. ASSUME ~ SplitsACommand, NEW u \in Users, NEW c \in Reachable(u)
      PROVE  Stays(c, scope) \/ DOMAIN changes[u][c] \subseteq scope
  <2>1. here \ here' = scope
    BY <1>2
  <2>2. Stays(c, here \ here') \/ DOMAIN changes[u][c] \ (here \ here') = {}
    BY <1>7 DEF SplitsACommand
  <2>3. QED
    BY <2>1, <2>2
<1>8. RecordsInv'
  BY <1>3, <1>4, <1>6, ProvedByUser
<1>9. StackCoherent /\ ~ SplitsACommand => StackCoherent'
  BY <1>6, <1>7 DEF StackCoherent, Coherent
<1>10. QED
  BY <1>8, <1>9

LEMMA NextKeepsRecords ==
    ASSUME RecordsInv, [Next]_vars
    PROVE  /\ RecordsInv'
           /\ StackCoherent /\ (~ SplitsACommand \/ UNCHANGED vars) => StackCoherent'
<1>1. TypeOK /\ here \in SUBSET Objects /\ editors \in SUBSET (Users \X Objects)
  BY DEF RecordsInv, TypeOK
<1>2. CASE \E u \in Users : CommandRequest(u)
  BY <1>2, CommandKeepsRecords
<1>3. CASE \E o \in Objects, c \in Contents, k \in Kept : UntrackedEdit(o, c, k)
  <2>1. OutsideWrite
    BY <1>1, <1>3, UntrackedEditWrites
  <2>2. UNCHANGED <<here, editors, stack, changes, receipts>>
    BY <1>3 DEF UntrackedEdit
  <2>3. QED
    BY <1>1, <2>1, <2>2, OutsideWriteKeepsRecords
<1>4. CASE \E os \in (SUBSET Objects) \ {{}} : TrashOrRecover(os)
  <2>1. OutsideWrite
    BY <1>1, <1>4, TrashOrRecoverWrites
  <2>2. UNCHANGED <<here, editors, stack, changes, receipts>>
    BY <1>4 DEF TrashOrRecover
  <2>3. QED
    BY <1>1, <2>1, <2>2, OutsideWriteKeepsRecords
<1>5. CASE \E u \in Users, o \in Objects : ChangeAccess(u, o)
  <2>1. /\ editors' \in SUBSET (Users \X Objects)
        /\ UNCHANGED <<rev, here, stack, changes, receipts>>
    BY <1>1, <1>5 DEF ChangeAccess
  <2>2. OutsideWrite
    BY <1>1, <2>1 DEF OutsideWrite, TypeOK
  <2>3. QED
    BY <1>1, <2>1, <2>2, OutsideWriteKeepsRecords
<1>6. CASE \E scope \in MoveScopes : \E tasks \in SUBSET scope, k \in Kept :
              MoveAway(scope, tasks, k)
  <2>1. PICK scope \in MoveScopes : \E tasks \in SUBSET scope, k \in Kept :
              MoveAway(scope, tasks, k)
    BY <1>6
  <2>2. PICK tasks \in SUBSET scope, k \in Kept : MoveAway(scope, tasks, k)
    BY <2>1
  <2>3. here' # here
    BY <2>2 DEF MoveAway
  <2>4. QED
    BY <2>2, <2>3, MoveAwayKeepsRecords DEF vars
<1>7. CASE \E scope \in MoveScopes : \E tasks \in SUBSET scope, k \in Kept :
              MoveBack(scope, tasks, k)
  <2>0. PICK scope \in MoveScopes : \E tasks \in SUBSET scope, k \in Kept :
              MoveBack(scope, tasks, k)
    BY <1>7
  <2>1. PICK tasks \in SUBSET scope, k \in Kept : MoveBack(scope, tasks, k)
    BY <2>0
  <2>2. /\ rev' = Rewritten(tasks, k) /\ here' = here \cup scope
        /\ UNCHANGED <<editors, stack, changes, receipts>>
    BY <2>1 DEF MoveBack
  <2>3. OutsideWrite
    BY <1>1, <2>2, RewriteWrites
  <2>4. here' \in SUBSET Objects
    BY <1>1, <2>2, ScopesAreObjects
  <2>5. QED
    BY <1>1, <2>2, <2>3, <2>4, OutsideWriteKeepsRecords
<1>8. CASE UNCHANGED vars
  <2>1. UNCHANGED <<rev, here, editors, stack, changes, receipts>>
    BY <1>8 DEF vars
  <2>2. OutsideWrite
    BY <1>1, <2>1 DEF OutsideWrite, TypeOK
  <2>3. QED
    BY <1>1, <2>1, <2>2, OutsideWriteKeepsRecords
<1>9. QED
  BY <1>2, <1>3, <1>4, <1>5, <1>6, <1>7, <1>8 DEF Next

\* Whatever happens in the space, scopes moved away and back included, the
\* records and stacks keep their invariant.
THEOREM RecordsKeepTheirInvariant == Spec => []RecordsInv
<1>1. Init => RecordsInv
  BY InitEstablishesIInv DEF IInv
<1>2. RecordsInv /\ [Next]_vars => RecordsInv'
  BY NextKeepsRecords
<1>3. QED
  BY <1>1, <1>2, PTL DEF Spec

\* Every variable keeps its type (TypeOK).
THEOREM TypeCorrectness == Spec => []TypeOK
<1>1. RecordsInv => TypeOK
  BY DEF RecordsInv
<1>2. QED
  BY <1>1, RecordsKeepTheirInvariant, PTL

\* No stack outgrows the limit that the schema of command_stacks checks.
THEOREM StacksStayBounded == Spec => []StackBounded
<1>1. RecordsInv => StackBounded
  BY DEF RecordsInv
<1>2. QED
  BY <1>1, RecordsKeepTheirInvariant, PTL

\* A stack expects of each object a version that this user's own command or
\* inverse wrote (the versions execute and transition return to the stack).
THEOREM StacksExpectTheirWrites == Spec => []ExpectsOwnWrites
<1>1. RecordsInv => ExpectsOwnWrites
  BY DEF RecordsInv
<1>2. QED
  BY <1>1, RecordsKeepTheirInvariant, PTL

\* It expects versions of exactly the objects its commands in reach changed:
\* saveCommandStack retains no other, and pruneCommandStacks leaves none
\* behind.
THEOREM ExpectationsAreInReach == Spec => []ExpectsWhatIsInReach
<1>1. RecordsInv => ExpectsWhatIsInReach
  BY DEF RecordsInv
<1>2. QED
  BY <1>1, RecordsKeepTheirInvariant, PTL

\* The receipts name exactly the revisions that commands wrote: a retry (replay
\* in command-service.ts) returns what its operation did and does it once.
THEOREM ReceiptsTellTheLedger == Spec => []ReceiptsMatchLedger
<1>1. RecordsInv => ReceiptsMatchLedger
  BY DEF RecordsInv
<1>2. QED
  BY <1>1, RecordsKeepTheirInvariant, PTL

\* As long as no move takes a command off a stack and leaves an object it
\* changed behind, the stacks keep their chains too.
THEOREM StacksKeepTheirInvariant == WholeCommands => []IInv
<1>1. Init => IInv
  BY InitEstablishesIInv
<1>2. IInv /\ [Next /\ ~ SplitsACommand]_vars => IInv'
  BY NextKeepsRecords DEF IInv
<1>3. QED
  BY <1>1, <1>2, PTL DEF WholeCommands

\* What a user can undo or redo then forms, object by object, one chain of
\* content that ends in a version this user's commands wrote: no sequence of
\* commands, inverses, retries, outside edits and such moves breaks it.
THEOREM StacksStayCoherent == WholeCommands => []StackCoherent
<1>1. IInv => StackCoherent
  BY DEF IInv
<1>2. QED
  BY <1>1, StacksKeepTheirInvariant, PTL

-----------------------------------------------------------------------------
(* What an inverse does.                                                    *)

\* An undo finds, on every member, the content its command left and puts back
\* the content the command found; a redo the other way round.
LEMMA TransitionReverses ==
    ASSUME TypeOK, NEW u \in Users, UserInv(u), Coherent(u), ChangesRecorded, NEW op \in Ops,
           NEW cmd \in DOMAIN changes[u], NEW direction \in {"undo", "redo"},
           Transition(u, op, cmd, direction), NEW o \in DOMAIN changes[u][cmd]
    PROVE  /\ direction = "undo" => /\ Current(o).content = After(rev, changes[u], cmd, o)
                                    /\ Current(o)'.content = Before(rev, changes[u], cmd, o)
           /\ direction = "redo" => /\ Current(o).content = Before(rev, changes[u], cmd, o)
                                    /\ Current(o)'.content = After(rev, changes[u], cmd, o)
<1>1. /\ o \in DOMAIN stack[u].expected /\ Version(o) = stack[u].expected[o]
      /\ o \in Objects /\ cmd \in Ops
      /\ stack[u].undo \in Seq(Ops) /\ stack[u].redo \in Seq(Ops)
      /\ rev' = Written(InverseEdits(u, cmd, direction), <<u, op>>)
  BY DEF Transition, MembersUnmoved, TypeOK, Versions
<1>2. Chain(rev, changes[u], stack[u].undo, stack[u].redo, Current(o).content, o)
  BY <1>1 DEF Coherent, ChainOfContent, Current
<1>3. ASSUME NEW s \in Seq(Ops), HeadIs(s, cmd)
      PROVE  IsTop(changes[u], s, o, Len(s)) /\ Len(s) \in 1 .. Len(s) /\ s[Len(s)] = cmd
  <2>1. Len(s) \in Nat \ {0} /\ s[Len(s)] = cmd
    BY <1>3 DEF HeadIs
  <2>2. QED
    BY <2>1 DEF IsTop, Places
<1>4. direction = "undo" => Current(o).content = After(rev, changes[u], cmd, o)
  <2>1. direction = "undo" => HeadIs(stack[u].undo, cmd)
    BY DEF Transition
  <2>2. QED
    BY <2>1, <1>1, <1>2, <1>3 DEF Chain
<1>5. direction = "redo" => Current(o).content = Before(rev, changes[u], cmd, o)
  <2>1. direction = "redo" => HeadIs(stack[u].redo, cmd)
    BY DEF Transition
  <2>2. QED
    BY <2>1, <1>1, <1>2, <1>3 DEF Chain
<1>6. Current(o)'.content = rev[o][SourceVersion(u, cmd, o, direction)].content
  <2> DEFINE by == <<u, op>>
             edits == InverseEdits(u, cmd, direction)
  <2>1. by \in (Users \X Ops) \cup {Untracked} /\ rev' = Written(edits, by)
    BY <1>1
  <2>2. /\ DOMAIN edits = DOMAIN changes[u][cmd]
        /\ \A x \in DOMAIN edits : edits[x].content \in Contents /\ edits[x].kept \in Kept
    BY InverseTyped
  <2>3. edits[o].content = rev[o][SourceVersion(u, cmd, o, direction)].content
    BY DEF InverseEdits
  <2> HIDE DEF by, edits
  <2>4. /\ Len(rev'[o]) = Len(rev[o]) + 1
        /\ rev'[o][Len(rev[o]) + 1].content = edits[o].content
    <3>1. \A x \in Objects \cap DOMAIN edits :
              /\ Len(rev'[x]) = Len(rev[x]) + 1
              /\ rev'[x][Len(rev[x]) + 1].content = edits[x].content
              /\ rev'[x][Len(rev[x]) + 1].by = by
      BY <2>1, <2>2, WriteKeepsRevisions
    <3>2. QED
      BY <3>1, <2>2, <1>1
  <2>5. QED
    BY <2>3, <2>4 DEF Current, Version
<1>7. QED
  BY <1>4, <1>5, <1>6 DEF SourceVersion, Before, After

\* Only an undo of cmd puts it on the redo stack, and only a redo of cmd takes
\* it back: a new command has an id of its own.
LEMMA OnlyInversesMoveEntries ==
    ASSUME RecordsInv, [Next]_vars, NEW u \in Users, NEW cmd \in DOMAIN changes[u],
           NEW direction \in {"undo", "redo"},
           IF direction = "undo" THEN Undoes(u, cmd) ELSE Redoes(u, cmd)
    PROVE  \E op \in Ops : Transition(u, op, cmd, direction)
<1>1. TypeOK /\ UserInv(u)
  BY InvariantByUser
<1>2. /\ stack[u].undo \in Seq(Ops) /\ stack[u].redo \in Seq(Ops) /\ cmd \in Ops
      /\ Len(stack[u].undo) \in Nat /\ Len(stack[u].redo) \in Nat
  BY <1>1 DEF TypeOK
<1>3. /\ Len(Append(stack[u].undo, cmd)) = Len(stack[u].undo) + 1
      /\ Len(Append(stack[u].redo, cmd)) = Len(stack[u].redo) + 1
      /\ Append(stack[u].undo, cmd)[Len(stack[u].undo) + 1] = cmd
      /\ stack[u].redo # <<>> => Len(Popped(stack[u].redo)) = Len(stack[u].redo) - 1
  BY <1>2, AppendIsExtension, PoppedIsPrefix
<1>4. stack'[u] # stack[u]
  <2>1. CASE direction = "undo"
    BY <2>1, <1>2, <1>3 DEF Undoes
  <2>2. CASE direction = "redo"
    BY <2>2, <1>2, <1>3 DEF Redoes
  <2>3. QED
    BY <2>1, <2>2
\* A prune makes no stack longer.
<1>5. PICK w \in Users : CommandRequest(w)
  <2>1. ASSUME NEW scope, NEW tasks, NEW k \in Kept, MoveAway(scope, tasks, k)
        PROVE  FALSE
    <3> DEFINE p == PrunedStack(u, scope)
               K == {c \in Ops : Stays(c, scope)}
    <3>1. stack'[u] = p
      BY <2>1 DEF MoveAway
    <3> HIDE DEF p, K
    <3>2. /\ \E g : Selects(stack[u].undo, K, Len(stack[u].undo), p.undo, g)
          /\ \E g : Selects(stack[u].redo, K, Len(stack[u].redo), p.redo, g)
      <4>1. p = PrunedStack(u, scope) /\ K = {c \in Ops : Stays(c, scope)}
        BY DEF p, K
      <4>2. QED
        BY <4>1, <1>1, PruneEffect
    <3>3. Len(p.undo) <= Len(stack[u].undo) /\ Len(p.redo) <= Len(stack[u].redo)
      BY <3>2 DEF Selects
    <3>4. CASE direction = "undo"
      BY <3>1, <3>3, <3>4, <1>2, <1>3 DEF Undoes
    <3>5. CASE direction = "redo"
      BY <3>1, <3>3, <3>5, <1>2, <1>3 DEF Redoes
    <3>6. QED
      BY <3>4, <3>5
  <2>2. QED
    BY <1>4, <2>1 DEF Next, UntrackedEdit, TrashOrRecover, ChangeAccess, MoveBack, vars
<1>6. PICK op \in Ops :
        /\ op \notin DOMAIN receipts[w]
        /\ \/ \E edits \in EditSets : Execute(w, op, edits)
           \/ \E c \in DOMAIN changes[w], way \in {"undo", "redo"} : Transition(w, op, c, way)
  BY <1>5 DEF CommandRequest, Accepted
<1>7. w = u
  BY <1>1, <1>4, <1>6, CommandLeavesOthers
<1>8. ASSUME NEW edits \in EditSets, Execute(u, op, edits) PROVE FALSE
  <2>1. PICK base : /\ base \in Seq(Ops)
                    /\ stack'[u].undo = LastCommands(Append(base, op))
                    /\ stack'[u].redo = <<>>
    <3>1. /\ stack'[u].undo = LastCommands(Append(
                 IF HasDiverged(u, edits) THEN <<>> ELSE stack[u].undo, op))
          /\ stack'[u].redo = <<>>
      BY <1>1, <1>8 DEF Execute, SavedStack, TypeOK
    <3>2. <<>> \in Seq(Ops)
      OBVIOUS
    <3>3. QED
      BY <3>1, <3>2, <1>2
  <2>2. op # cmd
    BY <1>1, <1>6, <1>7 DEF UserInv
  <2>3. CASE direction = "undo"
    <3>1. Append(stack[u].redo, cmd) = <<>>
      BY <2>1, <2>3 DEF Undoes
    <3>2. QED
      BY <3>1, <1>2, AppendIsExtension
  <2>4. CASE direction = "redo"
    <3>1. stack'[u].undo = Append(stack[u].undo, cmd)
      BY <2>4 DEF Redoes
    <3>2. stack'[u].undo[Len(stack'[u].undo)] = cmd
      BY <3>1, <1>3
    <3> DEFINE pushed == Append(base, op)
               last == LastCommands(pushed)
    <3>3. /\ pushed \in Seq(Ops) /\ pushed # <<>> /\ Len(pushed) = Len(base) + 1
          /\ pushed[Len(base) + 1] = op
      BY <2>1, AppendIsExtension
    <3> HIDE DEF pushed
    <3>4. /\ last \in Seq(Ops) /\ Len(last) >= 1
          /\ \A i \in 1 .. Len(last) : last[i] = pushed[i + Len(pushed) - Len(last)]
      BY <3>3, LastCommandsIsSuffix
    <3> HIDE DEF last
    <3>5. Len(last) \in 1 .. Len(last) /\ Len(last) + Len(pushed) - Len(last) = Len(pushed)
      BY <3>3, <3>4
    <3>6. last[Len(last)] = op
      BY <3>3, <3>4, <3>5
    <3>7. QED
      BY <3>2, <3>6, <2>1, <2>2 DEF last, pushed
  <2>5. QED
    BY <2>3, <2>4
<1>9. PICK c \in DOMAIN changes[u], way \in {"undo", "redo"} : Transition(u, op, c, way)
  BY <1>6, <1>7, <1>8
<1>10. CASE way = "undo"
  <2>1. /\ HeadIs(stack[u].undo, c) /\ stack'[u].undo = Popped(stack[u].undo)
        /\ stack[u].undo # <<>>
    BY <1>1, <1>9, <1>10 DEF Transition, SavedStack, TypeOK, HeadIs
  <2>2. Len(stack'[u].undo) = Len(stack[u].undo) - 1
    BY <2>1, <1>2, PoppedIsPrefix
  <2>3. direction = "undo"
    BY <2>2, <1>2, <1>3 DEF Redoes
  <2>4. c = cmd
    BY <2>1, <2>3 DEF Undoes, HeadIs
  <2>5. QED
    BY <2>3, <2>4, <1>9, <1>10
<1>11. CASE way = "redo"
  <2>1. /\ HeadIs(stack[u].redo, c) /\ stack'[u].redo = Popped(stack[u].redo)
        /\ stack[u].redo # <<>>
    BY <1>1, <1>9, <1>11 DEF Transition, SavedStack, TypeOK, HeadIs
  <2>2. Len(stack'[u].redo) = Len(stack[u].redo) - 1
    BY <2>1, <1>2, PoppedIsPrefix
  <2>3. direction = "redo"
    BY <2>2, <1>2, <1>3 DEF Undoes
  <2>4. c = cmd
    BY <2>1, <2>3 DEF Redoes, HeadIs
  <2>5. QED
    BY <2>3, <2>4, <1>9, <1>11
<1>12. QED
  BY <1>10, <1>11

\* Whatever commands, edits and recoveries came before, an undo replaces on
\* every member exactly what its command did, and a redo what the undo did, as
\* long as no move splits a command.
THEOREM InversesReverseTheirCommand == WholeCommands => InverseReversesHead
<1>1. IInv /\ [Next /\ ~ SplitsACommand]_vars =>
        [\A u \in Users : \A cmd \in DOMAIN changes[u] : \A o \in DOMAIN changes[u][cmd] :
            /\ Undoes(u, cmd) => /\ Current(o).content = After(rev, changes[u], cmd, o)
                                 /\ Current(o)'.content = Before(rev, changes[u], cmd, o)
            /\ Redoes(u, cmd) => /\ Current(o).content = Before(rev, changes[u], cmd, o)
                                 /\ Current(o)'.content = After(rev, changes[u], cmd, o)]_vars
  <2> SUFFICES ASSUME IInv, [Next]_vars, NEW u \in Users, NEW cmd \in DOMAIN changes[u],
                      NEW o \in DOMAIN changes[u][cmd]
               PROVE  /\ Undoes(u, cmd) =>
                            /\ Current(o).content = After(rev, changes[u], cmd, o)
                            /\ Current(o)'.content = Before(rev, changes[u], cmd, o)
                      /\ Redoes(u, cmd) =>
                            /\ Current(o).content = Before(rev, changes[u], cmd, o)
                            /\ Current(o)'.content = After(rev, changes[u], cmd, o)
    OBVIOUS
  <2>1. RecordsInv /\ TypeOK /\ ChangesRecorded /\ UserInv(u) /\ Coherent(u)
    BY InvariantByUser DEF IInv, RecordsInv
  <2>2. ASSUME Undoes(u, cmd)
        PROVE  /\ Current(o).content = After(rev, changes[u], cmd, o)
               /\ Current(o)'.content = Before(rev, changes[u], cmd, o)
    <3>1. PICK op \in Ops : Transition(u, op, cmd, "undo")
      BY <2>1, <2>2, OnlyInversesMoveEntries
    <3>2. QED
      BY <3>1, <2>1, TransitionReverses
  <2>3. ASSUME Redoes(u, cmd)
        PROVE  /\ Current(o).content = Before(rev, changes[u], cmd, o)
               /\ Current(o)'.content = After(rev, changes[u], cmd, o)
    <3>1. PICK op \in Ops : Transition(u, op, cmd, "redo")
      BY <2>1, <2>3, OnlyInversesMoveEntries
    <3>2. QED
      BY <3>1, <2>1, TransitionReverses
  <2>4. QED
    BY <2>2, <2>3
<1>2. QED
  BY <1>1, StacksKeepTheirInvariant, PTL DEF InverseReversesHead, WholeCommands
=============================================================================
