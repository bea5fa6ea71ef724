---------------------------- MODULE MCObjectMover ----------------------------
(***************************************************************************)
(* Small instances of ObjectMover for TLC.                                 *)
(***************************************************************************)
EXTENDS Builds, TLC

CONSTANTS th1, th2, th3, o1, v1, v2

OneThread == {th1}
TwoThreads == {th1, th2}
ThreeThreads == {th1, th2, th3}
OneObject == {o1}
TwoValues == {v1, v2}
Nobody == {}

MoveTo(tiers) == [op : {"move"}, obj : Objects, tier : tiers]
Demotions == MoveTo({"SLOW", "ARCHIVE"})
\* In the default build a second demotion from a lower tier finds the stale name
\* "fast" and copies through the redirect; see the README.
DemotionsOfBuild == [default |-> MoveTo({"SLOW"}), micro |-> Demotions]
SameForBoth == [default |-> Requests, micro |-> Requests]
Promotions == MoveTo({"FAST"})
FastAndSlow == MoveTo({"FAST", "SLOW"})
AllMoves == MoveTo(Tiers)

InFast == {"FAST"}
InSlow == {"SLOW"}
Anywhere == Tiers

Symmetry == Permutations(Threads)
=============================================================================
