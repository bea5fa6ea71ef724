---------------------------- MODULE MCTestDriver -----------------------------
(***************************************************************************)
(* The test program and the samples on a pool of two threads.              *)
(***************************************************************************)
EXTENDS TestDriver

CONSTANTS th1, th2, v1, v2

TwoThreads == {th1, th2}
TenObjects == 0 .. 9
TwoValues == {v1, v2}
Nobody == {}
AllRequests == Request
SameForBoth == [default |-> Requests, micro |-> Requests]
NowhereYet == {"none"}
=============================================================================
