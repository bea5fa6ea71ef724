--------------------------- MODULE ObjectRegister ----------------------------
(***************************************************************************)
(* What applications may expect of an object whatever tier it is in: a     *)
(* register that changes only by their own writes.  lib/sample.cpp sends   *)
(* all reads and writes to one pool "regardless of the actual location of  *)
(* the object"; so moving an object must not be visible at all.            *)
(***************************************************************************)
EXTENDS Naturals

CONSTANTS Objects,
          Contents,    \* what applications write
          Initially, MaxWrites

VARIABLES value,   \* [Objects -> Contents \cup {Initially}]
          writes   \* writes that may follow before More

Init == /\ value = [o \in Objects |-> Initially]
        /\ writes = MaxWrites

Write(o, v) == /\ writes > 0
               /\ writes' = writes - 1
               /\ value' = [value EXCEPT ![o] = v]

\* There is no end to the writes.
More == writes < MaxWrites /\ writes' = MaxWrites /\ UNCHANGED value

Next == More \/ \E o \in Objects, v \in Contents : Write(o, v)

Spec == Init /\ [][Next]_<<value, writes>>
==============================================================================
