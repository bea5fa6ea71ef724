--------------------------- MODULE MCTaskManager ----------------------------
(***************************************************************************)
(* Small instances of TaskManager for TLC.                                 *)
(***************************************************************************)
EXTENDS TaskManager, TLC

CONSTANTS s1, s2, th1, th2

OneSlot == {s1}
TwoSlots == {s1, s2}
TwoThreads == {th1, th2}

\* Without early returns Create, Move and Read end alike: one stands for all.
CReadOnly == {"cr"}
CreateAndCRead == {"w", "cr"}
CreateAndDelete == {"w", "d"}
DeleteOnly == {"d"}
NoModes == {}

\* The threads of the pool are interchangeable; so are the callers.
Symmetry == Permutations(Threads) \cup Permutations(Slots)
=============================================================================
