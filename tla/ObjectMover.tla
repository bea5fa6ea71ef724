----------------------------- MODULE ObjectMover -----------------------------
(***************************************************************************)
(* Create, Read, Move and Delete of lib/object_mover.cpp, in the default   *)
(* build (USE_MICRO_TIERING not defined): a tier is a pool, and an object  *)
(* below the fast tier is reached through a redirect in the cache pool.    *)
(* What both builds share is parameterised by the base pool, that in which *)
(* applications find the objects: here the cache pool.                     *)
(*                                                                         *)
(* Every operation sent to RADOS is a step of its own: pool threads        *)
(* interleave between them, applications write and read the cache pool     *)
(* with librados directly, an operation may fail, and the process may stop *)
(* anywhere while the pools keep what they hold.  TaskManager models how   *)
(* the operations get to a thread and how their result is reported.        *)
(***************************************************************************)
EXTENDS Naturals, FiniteSets, Rados

CONSTANTS Threads, Objects,
          Requests,     \* the operations callers ask for
          InitialTiers, \* where the objects are at the start; "none": nowhere
          InitialData,  \* what they contain
          Writers,      \* data that applications write with librados
          MaxOps,       \* bound: operations started
          MaxWrites,    \* bound: direct writes
          MaxFaults,    \* bound: operations of RADOS that fail
          MaxCrashes    \* bound: crashes from outside

Tiers == {"FAST", "SLOW", "ARCHIVE"}
Request == [op : {"create"}, obj : Objects, tier : Tiers, data : Values]
           \cup [op : {"move"}, obj : Objects, tier : Tiers]
           \cup [op : {"read", "delete"}, obj : Objects]

ASSUME ObjectMoverAssumption ==
          /\ Requests \subseteq Request
          /\ InitialTiers \subseteq Tiers \cup {"none"}
          /\ InitialData \in Values
          /\ Writers \subseteq Values
          /\ {MaxOps, MaxWrites, MaxFaults, MaxCrashes} \subseteq Nat

VARIABLES store,    \* [Objects -> Places], the pools
          thread,   \* [Threads -> where a thread is in its operation]
          current,  \* threads whose copied version is that of the base object
          status,   \* of the process: "up", "aborted", "crashed"
          bounds    \* what is left of each bound

vars == <<store, thread, current, status, bounds>>

PoolOf(tier) == CASE tier = "FAST" -> "cache"
                  [] tier = "SLOW" -> "storage"
                  [] tier = "ARCHIVE" -> "archive"

\* The xattr Create writes, and the tier GetLocation makes of the xattr.
NameOf(tier) == CASE tier = "FAST" -> "fast"
                  [] tier = "SLOW" -> "slow"
                  [] tier = "ARCHIVE" -> "archive"
Named(name) == {tier \in Tiers : NameOf(tier) = name}

Steps == {"write", "dummy", "link", "read",
          "lock", "locate", "unlink", "promote", "rm_source",
          "copy_down", "replace",
          "x_unlink", "x_copy", "x_remove", "x_dummy", "x_link", "hint",
          "unlock", "unlock_early", "rm_target", "rm_self", "finish", "early"}

NoRequest == [op |-> "none"]
IdleThread == [at |-> "idle", req |-> NoRequest, tier |-> "FAST", r |-> "ok"]
Thread == [at : Steps, req : Requests, tier : Tiers, r : Results] \cup {IdleThread}

\* An object as Create leaves it in a tier.
Created(tier, data) ==
    LET obj == [NewObject(data) EXCEPT !.tier = NameOf(tier)]
        link == [NewObject(Empty) EXCEPT !.redirect = PoolOf(tier)]
    IN  IF tier = "FAST" THEN [Nowhere EXCEPT !["cache"] = obj]
                         ELSE [Nowhere EXCEPT !["cache"] = link, ![PoolOf(tier)] = obj]
InitialPlaces == {IF tier = "none" THEN Nowhere ELSE Created(tier, InitialData) :
                     tier \in InitialTiers}

\* The process has just started.
AtRest == /\ thread = [th \in Threads |-> IdleThread]
          /\ current = {}
          /\ status = "up"
          /\ bounds = [ops |-> MaxOps, writes |-> MaxWrites,
                       faults |-> MaxFaults, crashes |-> MaxCrashes]

Init == store \in [Objects -> InitialPlaces] /\ AtRest

-----------------------------------------------------------------------------
(* How a thread talks to RADOS.                                            *)

At(th, step) == thread[th].at = step
Obj(th) == thread[th].req.obj
Asked(th) == thread[th].req.tier
Found(th) == thread[th].tier
Place(th) == store[Obj(th)]
Workers(o) == {th \in Threads : thread[th].at # "idle" /\ Obj(th) = o}

\* What may come back: the answer, or a failure that changes nothing.
Answers(th, answer) ==
    {answer} \cup (IF bounds.faults > 0 THEN {Fails(Place(th), "eio")} ELSE {})

\* A faulty variant: the version a thread had copied outlives the attempt.
TakesKeepingVersion(base, th, a) ==
    /\ store' = [store EXCEPT ![Obj(th)] = a.p]
    /\ current' = IF a.pool = base THEN current \ Workers(Obj(th)) ELSE current
    /\ bounds' = IF a.r = "eio" THEN [bounds EXCEPT !.faults = @ - 1] ELSE bounds

\* The pools after answer a.  An operation on the base object makes a version;
\* the version a thread had copied is local to one attempt.
TakesOn(base, th, a) ==
    /\ store' = [store EXCEPT ![Obj(th)] = a.p]
    /\ current' = (IF a.pool = base THEN current \ Workers(Obj(th)) ELSE current) \ {th}
    /\ bounds' = IF a.r = "eio" THEN [bounds EXCEPT !.faults = @ - 1] ELSE bounds
Takes(th, a) == TakesOn("cache", th, a)

Goto(th, step) == thread' = [thread EXCEPT ![th] = [@ EXCEPT !.at = step]]
GotoWith(th, step, r) ==
    thread' = [thread EXCEPT ![th] = [@ EXCEPT !.at = step, !.r = r]]

\* A failed assert, or abort(): the process ends with all its threads.
Abort == /\ status' = "aborted"
         /\ thread' = [th \in Threads |-> IdleThread]
         /\ current' = {}

\* It fails after an operation with result r.
AbortAfter(r) ==
    /\ Abort
    /\ bounds' = IF r = "eio" THEN [bounds EXCEPT !.faults = @ - 1] ELSE bounds
    /\ UNCHANGED store

\* One operation of th on RADOS, with the step after success and after failure;
\* its result is in r.
OperateOn(base, th, step, answer, after, failed) ==
    /\ At(th, step)
    /\ \E a \in Answers(th, answer) :
          /\ TakesOn(base, th, a)
          /\ GotoWith(th, IF a.r = "ok" THEN after ELSE failed, a.r)
    /\ UNCHANGED status
Operate(th, step, answer, after, failed) ==
    OperateOn("cache", th, step, answer, after, failed)

\* The same where the code has a second r, declared in an inner block.
OperateShadowedOn(base, th, step, answer, after, failed) ==
    /\ At(th, step)
    /\ \E a \in Answers(th, answer) :
          /\ TakesOn(base, th, a)
          /\ Goto(th, IF a.r = "ok" THEN after ELSE failed)
    /\ UNCHANGED status
OperateShadowed(th, step, answer, after, failed) ==
    OperateShadowedOn("cache", th, step, answer, after, failed)

\* The same where assert(r == 0) follows.
OperateAssertedOn(base, th, step, answers, after) ==
    /\ At(th, step)
    /\ \E a \in answers :
          IF a.r = "ok" THEN TakesOn(base, th, a) /\ Goto(th, after) /\ UNCHANGED status
                        ELSE AbortAfter(a.r)
OperateAsserted(th, step, answers, after) ==
    OperateAssertedOn("cache", th, step, answers, after)

\* getxattr through the redirect; no object, no known name: assert or abort().
\* The tier found decides how the move goes on.
LocateOn(base, th, next) ==
    LET object == Reached(Place(th), base)
        found == IF object = NoObject THEN {} ELSE Named(object.tier)
    IN  /\ At(th, "locate")
        /\ \/ /\ found # {}
              /\ \E tier \in found :
                    thread' = [thread EXCEPT ![th] = [@ EXCEPT !.at = next[tier], !.tier = tier]]
              /\ UNCHANGED <<store, current, status, bounds>>
           \/ found = {} /\ AbortAfter("enoent")
           \/ bounds.faults > 0 /\ AbortAfter("eio")

-----------------------------------------------------------------------------
(* Faulty variants of the definitions below: with each of them some        *)
(* property fails, which shows that the property depends on the code.      *)

\* A lock that is taken is taken once more.
LockTaken(th) ==
    \/ OperateAsserted(th, "lock",
                       {a \in Answers(th, SetLock(Place(th), "cache", TRUE)) : a.r = "ok"},
                       "locate")
    \/ /\ At(th, "lock")
       /\ SetLock(Place(th), "cache", TRUE).r = "canceled"
       /\ Goto(th, "locate")
       /\ UNCHANGED <<store, current, status, bounds>>

\* The archive counts as the slow tier, and the slow tier as the archive.
LocateBelow(th) ==
    LocateOn("cache", th,
             [tier \in Tiers |-> IF (tier = "FAST") = (Asked(th) = "FAST") THEN "unlock"
                                 ELSE IF Asked(th) = "FAST" THEN "unlink" ELSE "copy_down"])

\* The source is removed even though the copy failed.
PromoteUnchecked(th) ==
    Operate(th, "promote", CopyFromTier(Place(th), "cache", PoolOf(Found(th)), "fast"),
            "rm_source", "rm_source")

\* The version of the copy is not remembered.
CopyDownNoVersion(th) ==
    OperateShadowed(th, "copy_down", CopyFrom(Place(th), PoolOf(Asked(th)), "cache"),
                    "replace", "unlock")

\* A mover that has replaced the object ends without Unlock.
ReplaceLocked(th) ==
    OperateShadowed(th, "replace",
                    SetRedirectIf(Place(th), "cache", th \in current, PoolOf(Asked(th)),
                                  IF Asked(th) = "SLOW" THEN "storage" ELSE "archive"),
                    "finish", "copy_down")

\* The dummy is not made a redirect; the lock is kept.
XDummyOnly(th) == Operate(th, "x_dummy", WriteFull(Place(th), "cache", Empty),
                          "unlock", "finish")
XLinkLocked(th) == Operate(th, "x_link", SetRedirect(Place(th), "cache", PoolOf(Asked(th))),
                           "finish", "finish")

\* An application's write does not follow the redirect.
WriteHere(base, o, data) ==
    LET object == [Existing(store[o], base) EXCEPT !.data = data]
    IN  /\ bounds.writes > 0
        /\ bounds' = [bounds EXCEPT !.writes = @ - 1]
        /\ store' = [store EXCEPT ![o] = [@ EXCEPT ![base] = object]]
        /\ current' = current \ Workers(o)
        /\ UNCHANGED <<thread, status>>

\* The redirect is kept; and a missing redirect is a failure.
RmTargetOnly(th) == Operate(th, "rm_target", Remove(Place(th), "cache"), "finish", "early")
RmSelfStrict(th) == Operate(th, "rm_self", RemoveAt(Place(th), "cache"), "finish", "finish")

-----------------------------------------------------------------------------
(* Create                                                                  *)

Write(th) ==
    LET tier == Asked(th)
    IN  Operate(th, "write",
                WriteFullTier(Place(th), PoolOf(tier), thread[th].req.data, NameOf(tier)),
                IF tier = "FAST" THEN "finish" ELSE "dummy", "finish")

Dummy(th) == Operate(th, "dummy", WriteFull(Place(th), "cache", Empty), "link", "finish")

Link(th) == Operate(th, "link", SetRedirect(Place(th), "cache", PoolOf(Asked(th))),
                    "finish", "finish")

Create(th) == Write(th) \/ Dummy(th) \/ Link(th)

-----------------------------------------------------------------------------
(* Read                                                                    *)

ReadOn(base, th) ==
    OperateOn(base, th, "read",
              IF Reached(Place(th), base) = NoObject THEN Fails(Place(th), "enoent")
                                                     ELSE Ok(Place(th), "none"),
              "finish", "finish")
Read(th) == ReadOn("cache", th)

-----------------------------------------------------------------------------
(* Move: the advisory lock and GetLocation                                 *)

\* Lock tries again as long as the lock is taken.
LockOn(base, th) ==
    OperateAssertedOn(base, th, "lock",
                      {a \in Answers(th, SetLock(Place(th), base, TRUE)) : a.r # "canceled"},
                      "locate")
Lock(th) == LockOn("cache", th)

UnlockOn(base, th) ==
    LET answers == Answers(th, SetLock(Place(th), base, FALSE))
    IN  \/ OperateAssertedOn(base, th, "unlock", answers, "finish")
        \/ OperateAssertedOn(base, th, "unlock_early", answers, "early")
Unlock(th) == UnlockOn("cache", th)

\* The three ways from the tier found to the tier asked for.
Locate(th) ==
    LocateOn("cache", th,
             [tier \in Tiers |-> IF tier = Asked(th) THEN "unlock"
                                 ELSE IF Asked(th) = "FAST" THEN "unlink"
                                 ELSE IF tier = "FAST" THEN "copy_down"
                                 ELSE "x_unlink"])

-----------------------------------------------------------------------------
(* Move to the fast tier                                                   *)

Unlink(th) == Operate(th, "unlink", RemoveAt(Place(th), "cache"),
                      "promote", "unlock_early")

Promote(th) == Operate(th, "promote",
                       CopyFromTier(Place(th), "cache", PoolOf(Found(th)), "fast"),
                       "rm_source", "unlock")

RmSource(th) == Operate(th, "rm_source", Remove(Place(th), PoolOf(Found(th))),
                        "unlock", "unlock")

MoveUp(th) == Unlink(th) \/ Promote(th) \/ RmSource(th)

-----------------------------------------------------------------------------
(* Move from the fast tier down                                            *)

\* The version of the copy is that of the base object it was made from; a
\* copy made through a redirect has a version unrelated to the redirect's.
CopyDownOn(base, th, pool) ==
    LET answer == CopyFrom(Place(th), pool, base)
    IN  /\ At(th, "copy_down")
        /\ \E a \in Answers(th, answer), same \in BOOLEAN :
              /\ Target(Place(th), base) = base => same
              /\ store' = [store EXCEPT ![Obj(th)] = a.p]
              /\ bounds' = IF a.r = "eio" THEN [bounds EXCEPT !.faults = @ - 1] ELSE bounds
              /\ current' = IF a.r = "ok" /\ same THEN current \cup {th}
                                                 ELSE current \ {th}
              /\ Goto(th, IF a.r = "ok" THEN "replace" ELSE "unlock")
        /\ UNCHANGED status
CopyDown(th) == CopyDownOn("cache", th, PoolOf(Asked(th)))

\* Any failure is taken for a write after the copy, and the copy is made again.
Replace(th) ==
    OperateShadowed(th, "replace",
                    SetRedirectIf(Place(th), "cache", th \in current, PoolOf(Asked(th)),
                                  IF Asked(th) = "SLOW" THEN "storage" ELSE "archive"),
                    "unlock", "copy_down")

MoveDown(th) == CopyDown(th) \/ Replace(th)

-----------------------------------------------------------------------------
(* Move between the slow tier and the archive                              *)

XUnlink(th) == Operate(th, "x_unlink", RemoveAt(Place(th), "cache"), "x_copy", "unlock")

XCopy(th) == OperateShadowed(th, "x_copy",
                             CopyFrom(Place(th), PoolOf(Asked(th)), PoolOf(Found(th))),
                             "x_remove", "unlock")

XRemove(th) == Operate(th, "x_remove", Remove(Place(th), PoolOf(Found(th))),
                       "x_dummy", "unlock")

XDummy(th) == Operate(th, "x_dummy", WriteFull(Place(th), "cache", Empty),
                      "x_link", "finish")

XLink(th) == Operate(th, "x_link", SetRedirect(Place(th), "cache", PoolOf(Asked(th))),
                     "unlock", "finish")

MoveAcross(th) == XUnlink(th) \/ XCopy(th) \/ XRemove(th) \/ XDummy(th) \/ XLink(th)

-----------------------------------------------------------------------------
(* Delete                                                                  *)

RmTarget(th) == Operate(th, "rm_target", Remove(Place(th), "cache"), "rm_self", "early")

\* No redirect left to remove is no failure.
RmSelf(th) ==
    /\ At(th, "rm_self")
    /\ \E a \in Answers(th, RemoveAt(Place(th), "cache")) :
          /\ Takes(th, a)
          /\ GotoWith(th, "finish", IF a.r = "enoent" THEN "ok" ELSE a.r)
    /\ UNCHANGED status

Delete(th) == RmTarget(th) \/ RmSelf(th)

-----------------------------------------------------------------------------
(* The process and the applications                                        *)

FirstStep(req) == CASE req.op = "create" -> "write"
                    [] req.op = "read" -> "read"
                    [] req.op = "move" -> "lock"
                    [] req.op = "delete" -> "rm_target"

Begin(th, req) ==
    /\ status = "up"
    /\ At(th, "idle")
    /\ thread' = [thread EXCEPT ![th] = [at |-> FirstStep(req), req |-> req,
                                        tier |-> "FAST", r |-> "ok"]]
    /\ UNCHANGED <<store, current, status>>

Start(th, req) ==
    /\ Begin(th, req)
    /\ bounds.ops > 0
    /\ bounds' = [bounds EXCEPT !.ops = @ - 1]

\* The result is reported, by way of FinishTask or not.
End(th) ==
    /\ At(th, "finish") \/ At(th, "early")
    /\ thread' = [thread EXCEPT ![th] = IdleThread]
    /\ UNCHANGED <<store, current, status, bounds>>

\* write_full by an application, sent to the base pool.
DirectWriteOn(base, o, data) ==
    LET a == WriteFull(store[o], base, data)
    IN  /\ bounds.writes > 0
        /\ bounds' = [bounds EXCEPT !.writes = @ - 1]
        /\ store' = [store EXCEPT ![o] = a.p]
        /\ current' = IF a.pool = base THEN current \ Workers(o) ELSE current
        /\ UNCHANGED <<thread, status>>
DirectWrite(o, data) == DirectWriteOn("cache", o, data)

Crash ==
    /\ status = "up"
    /\ bounds.crashes > 0
    /\ bounds' = [bounds EXCEPT !.crashes = @ - 1]
    /\ status' = "crashed"
    /\ thread' = [th \in Threads |-> IdleThread]
    /\ current' = {}
    /\ UNCHANGED store

Restart ==
    /\ status # "up"
    /\ status' = "up"
    /\ UNCHANGED <<store, thread, current, bounds>>

\* A step of an operation before its end.
Serve(th) == \/ Create(th)
             \/ Read(th)
             \/ Lock(th) \/ Unlock(th) \/ Locate(th)
             \/ MoveUp(th) \/ MoveDown(th) \/ MoveAcross(th)
             \/ Delete(th)

Work(th) == Serve(th) \/ End(th)

Next == \/ \E th \in Threads, req \in Requests : Start(th, req)
        \/ \E th \in Threads : Work(th)
        \/ \E o \in Objects, data \in Writers : DirectWrite(o, data)
        \/ Crash
        \/ Restart

Spec == Init /\ [][Next]_vars

-----------------------------------------------------------------------------
(* Properties                                                              *)

\* Types, and: only a mover about to replace the cache object has a version.
TypeOK ==
    /\ store \in [Objects -> Places]
    /\ thread \in [Threads -> Thread]
    /\ current \subseteq {th \in Threads : At(th, "replace")}
    /\ status \in {"up", "aborted", "crashed"}
    /\ bounds \in [ops : 0 .. MaxOps, writes : 0 .. MaxWrites,
                   faults : 0 .. MaxFaults, crashes : 0 .. MaxCrashes]

\* What an application finds under a name, reading the base pool.
SeenOn(base, o) == LET object == Reached(store[o], base)
                   IN  IF object = NoObject THEN NoObject ELSE object.data

\* The steps a mover makes between Lock and Unlock.
Inside == {"locate", "unlink", "promote", "rm_source", "copy_down", "replace",
           "x_unlink", "x_copy", "x_remove", "x_dummy", "x_link", "hint",
           "unlock", "unlock_early"}

\* An object that left the slow tier or the archive for the other keeps the
\* name of the tier it left.
Misnamed(o) ==
    \E left, tier \in {"SLOW", "ARCHIVE"} :
       /\ store[o][PoolOf(left)] = NoObject
       /\ store[o][PoolOf(tier)] # NoObject
       /\ store[o][PoolOf(tier)].tier = NameOf(left)

\* The advisory lock works although the object that carries it is copied,
\* removed and replaced by a redirect in the meantime: two threads never move
\* one object at the same time.  The exception: a move between slow tier and
\* archive replaces the locked object by a dummy that is not locked.
LockExclusion ==
    \A o \in Objects :
       \/ Cardinality({th \in Workers(o) : thread[th].at \in Inside}) <= 1
       \/ Misnamed(o)

\* Whatever moves do, wherever they fail or the process stops, some pool has
\* the object with its data: the steps of a move are not atomic, but each is
\* taken only when a copy of the data remains.
DataKept ==
    \A o \in Objects : \E pool \in Pools :
       store[o][pool] # NoObject /\ store[o][pool].data = InitialData

\* No assert() or abort() of the mover ever ends the process.
NoAbort == status # "aborted"
=============================================================================
