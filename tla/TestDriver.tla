----------------------------- MODULE TestDriver ------------------------------
(***************************************************************************)
(* The programs test/test.cpp, lib/sample.cpp and lib/sample.c on top of   *)
(* ObjectMover.  The first creates nine objects, moves each one right      *)
(* after its creation, one for each pair of tiers, and deletes them at the *)
(* end; the samples create and move one more, which sample.cpp writes and  *)
(* reads with librados, and sample.c reads through the mover.  Each call   *)
(* comes after the answer to the one before, and assert(ret == 0) follows  *)
(* every answer.  A CRead is never answered (TaskManager), so that         *)
(* sample.c gets no further than that call and comes last here.  The       *)
(* samples name the cache pool and are programs for the default build.     *)
(*                                                                         *)
(* bounds.ops, what is left of MaxOps, is the place in the programs.       *)
(***************************************************************************)
EXTENDS Builds, Integers, Sequences

CONSTANT Rewritten   \* what sample.cpp writes: "baz"

\* Object 3 * i + j is created in the i-th tier and moved to the j-th: FF, FS,
\* FA, SF, ..., AA; object 9 is the foo of the samples.
TestObjects == 0 .. 8
Foo == 9
TierOf(i) == <<"FAST", "SLOW", "ARCHIVE">>[i + 1]
From(o) == IF o = Foo THEN "FAST" ELSE TierOf(o \div 3)
To(o) == IF o = Foo THEN "SLOW" ELSE TierOf(o % 3)

CreateOf(o) == [op |-> "create", obj |-> o, tier |-> From(o), data |-> InitialData]
MoveOf(o) == [op |-> "move", obj |-> o, tier |-> To(o)]
CReadOf(o) == [op |-> "read", obj |-> o]   \* it reads like Read, and does not answer
DeleteOf(o) == [op |-> "delete", obj |-> o]

TestProgram == [n \in 1 .. 18 |-> LET o == (n - 1) \div 2
                                  IN  IF n % 2 = 1 THEN CreateOf(o) ELSE MoveOf(o)]
               \o [n \in 1 .. 9 |-> DeleteOf(n - 1)]
SampleCpp == <<CreateOf(Foo), MoveOf(Foo), DeleteOf(Foo)>>
SampleC == <<CreateOf(Foo), MoveOf(Foo), CReadOf(Foo), DeleteOf(Foo)>>
Program == IF build = "default" THEN TestProgram \o SampleCpp \o SampleC ELSE TestProgram

ASSUME TestDriverAssumption ==
          /\ Objects = TestObjects \cup {Foo}
          /\ MaxOps = Len(TestProgram \o SampleCpp \o SampleC)
          /\ MaxWrites = 1
          /\ Rewritten \in Values

AllIdle == \A th \in Threads : At(th, "idle")

\* The calls made so far, and whether the last of them is one that is answered.
Calls == MaxOps - bounds.ops
Answered == Calls > 0 => Program[Calls].op # "read"

\* sample.cpp writes its object between Move and Delete, after that many calls.
WritesAt == Len(TestProgram) + 2
WriteDue == build = "default" /\ Calls = WritesAt /\ bounds.writes > 0

\* ret = 1; om....Async(..., &ret); while (ret == 1);
Call == /\ AllIdle /\ Answered
        /\ Calls < Len(Program) /\ ~ WriteDue
        /\ \E th \in Threads : Start(th, Program[Calls + 1])

\* ret = io_ctx_cache.write_full(object, buf1);
Rewrite == AllIdle /\ WriteDue /\ DirectWriteOn("cache", Foo, Rewritten)

TestNext == \/ \E th \in Threads : BuildWork(th)
            \/ (Call \/ Rewrite) /\ UNCHANGED build

TestSpec == BuildInit /\ [][TestNext]_buildVars

-----------------------------------------------------------------------------
\* assert(ret == 0): every call that is answered succeeds.
TestPasses == \A th \in Threads :
                 (/\ At(th, "finish") \/ At(th, "early")
                  /\ thread[th].req.op # "read") => thread[th].r = "ok"

\* assert(result == "baz") in lib/sample.cpp: the application, which writes and
\* reads the cache pool, finds there what it wrote, although the object has been
\* moved to another pool, where it stays.
ReadsBack == (build = "default" /\ Calls = WritesAt /\ bounds.writes = 0) =>
                AllIdle /\ IsIn(Foo, BuildPool(To(Foo)), Rewritten)

\* When test.cpp or sample.cpp ends nothing of any object is left in any pool:
\* neither the copies its move made nor the redirect.  With micro tiering the
\* redirect of an object of the archive is left: both removes went to its target.
NothingLeft ==
    (Calls \in {Len(TestProgram), Len(TestProgram \o SampleCpp)} /\ AllIdle) =>
       \A o \in Objects :
          \/ store[o] = Nowhere
          \/ /\ build = "micro" /\ To(o) = "ARCHIVE"
             /\ \A pool \in Pools \ {"storage"} : store[o][pool] = NoObject

\* Between calls no object is locked, although the lock was taken on one object
\* and released on another that was copied from it: the next move can take it.
LeftUnlocked ==
    AllIdle => \A o \in Objects : LET object == Reached(store[o], Base)
                                  IN  object # NoObject => ~ object.locked
=============================================================================
