------------------------------ MODULE MCSirius -------------------------------
(***************************************************************************)
(* Small instances of Sirius for TLC.                                      *)
(***************************************************************************)
EXTENDS Sirius

CONSTANTS s1, th1, th2, h1, h2, o1, v1

OneSlot == {s1}
TwoThreads == {th1, th2}
TwoSessions == {h1, h2}
OneObject == {o1}
OneValue == {v1}
InFast == {"FAST"}
TheModes == {"w", "m", "r", "d"}
ModesEarly == {"m", "d"}
NowhereYet == {"none"}

CreateIn(tier) == [op |-> "create", obj |-> o1, tier |-> tier, data |-> v1]
MoveTo(tier) == [op |-> "move", obj |-> o1, tier |-> tier]
Read == [op |-> "read", obj |-> o1]
Delete == [op |-> "delete", obj |-> o1]

AllCalls == {<<CreateIn("FAST"), Read, MoveTo("SLOW")>>,
             <<Read, Read>>,
             <<MoveTo("SLOW"), Delete>>,
             <<Delete, CreateIn("FAST")>>}
CreateBelow == {<<CreateIn("SLOW")>>}
==============================================================================
