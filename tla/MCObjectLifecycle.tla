-------------------------- MODULE MCObjectLifecycle --------------------------
(* Instances of ObjectLifecycle small enough for TLC.                       *)
EXTENDS ObjectLifecycle, TLC

CONSTANTS t1, t2, t3, e1, e2, p1, s1, home, club

EventsOfSections == [s \in Sections |-> e1]
NoSections == {}

SymmetryOfTasks == Permutations(Tasks) \cup Permutations(Spaces)

\* Bound: writes to a card, which no rule about tasks reads.
MaxCardVersion == 2

CardsWithin == \A c \in People \cap DOMAIN rows' : rows'[c].version <= MaxCardVersion

FewCardsSpec == Init /\ [][Next /\ CardsWithin]_vars
=============================================================================
