------------------------------- MODULE Builds --------------------------------
(***************************************************************************)
(* ObjectMover as one of the two programs that lib/object_mover.cpp is: a  *)
(* build with USE_MICRO_TIERING or, by default, without it.  Properties of *)
(* this module are those both builds should have.                          *)
(***************************************************************************)
EXTENDS MicroTiering

CONSTANT BuildRequests   \* the operations callers ask for, of each build

BuildNames == {"default", "micro"}

ASSUME BuildsAssumption == BuildRequests \in [BuildNames -> SUBSET Requests]

VARIABLE build   \* it never changes

buildVars == <<vars, build>>

\* The pool in which applications find the objects, and that of a tier.
Base == IF build = "default" THEN "cache" ELSE "storage"
BuildPool(tier) == IF build = "default" THEN PoolOf(tier) ELSE MicroPool(tier)
BuildCreated(tier, data) == IF build = "default" THEN Created(tier, data)
                                                 ELSE MicroCreated(tier, data)

BuildInit ==
    /\ build \in BuildNames
    /\ store \in [Objects -> {IF tier = "none" THEN Nowhere ELSE BuildCreated(tier, InitialData) :
                                 tier \in InitialTiers}]
    /\ AtRest

BuildWork(th) == /\ \/ build = "default" /\ Work(th)
                    \/ build = "micro" /\ MicroWork(th)
                 /\ UNCHANGED build

BuildNext == \/ \E th \in Threads : BuildWork(th)
             \/ /\ \/ \E th \in Threads, req \in BuildRequests[build] : Start(th, req)
                   \/ \E o \in Objects, data \in Writers : DirectWriteOn(Base, o, data)
                   \/ Crash
                   \/ Restart
                /\ UNCHANGED build

BuildSpec == BuildInit /\ [][BuildNext]_buildVars

\* MaxWrites bounds the writes of BuildSpec; here applications may go on writing
\* for ever.
MoreWrites == /\ bounds.writes < MaxWrites
              /\ bounds' = [bounds EXCEPT !.writes = MaxWrites]
              /\ UNCHANGED <<store, thread, current, status, build>>

WritingSpec == BuildInit /\ [][BuildNext \/ MoreWrites]_buildVars

\* A thread goes on with its operation; spinning in Lock is not progress.
\* Applications need not write.
FairWritingSpec == WritingSpec /\ \A th \in Threads : WF_buildVars(BuildWork(th))

-----------------------------------------------------------------------------
(* Properties                                                              *)

\* A move never makes an object disappear or change for those who read and
\* write it meanwhile, and no write is lost to the copy of a demotion: the
\* objects implement registers that change only when an application writes, and
\* each write of an application is the write of these data to that register.
Seen == [o \in Objects |-> SeenOn(Base, o)]
Register == INSTANCE ObjectRegister
               WITH Contents <- Writers,
                    Initially <- InitialData,
                    value <- Seen,
                    writes <- bounds.writes
WritesArrive == \A o \in Objects, data \in Writers :
                   DirectWriteOn(Base, o, data) => Register!Write(o, data)
RegisterSpec == Register!Spec /\ [][WritesArrive]_buildVars

\* The object of o and its data are in that pool, and the base pool leads there.
IsIn(o, pool, data) == /\ Target(store[o], Base) = pool
                       /\ store[o][pool] # NoObject
                       /\ store[o][pool].data = data

\* Move reports success only if the object is in the tier asked for.
MovedAsReported ==
    \A th \in Threads :
       (At(th, "finish") /\ thread[th].req.op = "move" /\ thread[th].r = "ok")
          => IsIn(Obj(th), BuildPool(Asked(th)), InitialData)

\* A process that stopped while it moved o left the lock behind.
LockLeft(o) == LET object == Reached(store[o], Base)
               IN  /\ object # NoObject
                   /\ object.locked
                   /\ \A th \in Workers(o) : thread[th].at \notin Inside

\* An assert() or abort() of the mover ends the process only after an operation
\* of RADOS has failed.
AbortsOnlyOnFailure == status = "aborted" => bounds.faults < MaxFaults

\* A lock without a mover is left only by one that was stopped.
LocksReleased ==
    (\E o \in Objects : LockLeft(o)) =>
       bounds.faults < MaxFaults \/ bounds.crashes < MaxCrashes

\* A move from the base pool gets the lock and makes the object leave, or ends,
\* whatever other moves of the object do - unless applications write for ever:
\* each write makes the mover copy again, and nothing bounds that.  (A lock that
\* a stopped mover left keeps it from that, too; and that it also ends cannot be
\* said of an object that left before: GetLocation still finds the name of the
\* tier it left, the copy is made through the redirect, and its version may
\* differ for ever.)
Writing == \E o \in Objects, data \in Writers : DirectWriteOn(Base, o, data)
DemotionEnds ==
    \/ []<><<Writing>>_buildVars
    \/ \A th \in Threads :
          At(th, "lock") ~> \/ At(th, "idle")
                            \/ \E o \in Objects : LockLeft(o) \/ Target(store[o], Base) # Base
==============================================================================
