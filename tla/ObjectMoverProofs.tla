-------------------------- MODULE ObjectMoverProofs --------------------------
(***************************************************************************)
(* Proofs about ObjectMover, for any number of threads and objects, and    *)
(* any number of operations, failures and crashes.                         *)
(***************************************************************************)
EXTENDS ObjectMover, FiniteSetTheorems, TLAPS

-----------------------------------------------------------------------------
(* What the operations of RADOS answer.                                    *)

Answer == [r : {"ok", "enoent", "canceled"}, pool : Pools \cup {"none"}, p : Places]

\* Where an operation is executed, and what it finds there.
LEMMA PlaceTypes ==
  ASSUME NEW p \in Places, NEW pool \in Pools
  PROVE  /\ Target(p, pool) \in Pools
         /\ p[pool] \in Object \cup {NoObject}
         /\ Reached(p, pool) \in Object \cup {NoObject}
         /\ Existing(p, pool) \in Object
BY DEF Places, Pools, Object, Target, Reached, Existing, NewObject, TierNames

\* Answers that leave the places as they are.
LEMMA AnswerTypes ==
  ASSUME NEW p \in Places
  PROVE  /\ \A pool \in Pools : Ok(p, pool) \in Answer
         /\ \A r \in {"enoent", "canceled"} : Fails(p, r) \in Answer
         /\ Ok(p, "none") \in Answer
BY DEF Answer, Ok, Fails, Pools

\* Answers that put an object at a place, or empty it.
LEMMA PutTypes ==
  ASSUME NEW p \in Places, NEW pool \in Pools, NEW obj \in Object \cup {NoObject}
  PROVE  Ok([p EXCEPT ![pool] = obj], pool) \in Answer
<1>1. [p EXCEPT ![pool] = obj] \in Places
  BY DEF Places
<1> QED
  BY <1>1, AnswerTypes

\* write_full.
LEMMA WriteTypes ==
  ASSUME NEW p \in Places, NEW pool \in Pools,
         NEW data \in Values \cup {Empty}, NEW tier \in TierNames
  PROVE  /\ WriteFull(p, pool, data) \in Answer
         /\ WriteFullTier(p, pool, data, tier) \in Answer
<1> DEFINE q == Target(p, pool)
<1>1. q \in Pools /\ Existing(p, q) \in Object
  BY PlaceTypes
<1>2. /\ [Existing(p, q) EXCEPT !.data = data] \in Object
      /\ [Existing(p, q) EXCEPT !.data = data, !.tier = tier] \in Object
  BY <1>1 DEF Object
<1> QED
  BY <1>1, <1>2, PutTypes DEF WriteFull, WriteFullTier

\* remove, with and without OPERATION_IGNORE_REDIRECT.
LEMMA RemoveTypes ==
  ASSUME NEW p \in Places, NEW pool \in Pools
  PROVE  RemoveAt(p, pool) \in Answer /\ Remove(p, pool) \in Answer
BY PlaceTypes, PutTypes, AnswerTypes DEF RemoveAt, Remove

\* copy_from.
LEMMA CopyTypes ==
  ASSUME NEW p \in Places, NEW pool \in Pools, NEW from \in Pools, NEW tier \in TierNames
  PROVE  /\ CopyFrom(p, pool, from) \in Answer
         /\ CopyFromTier(p, pool, from, tier) \in Answer
<1>1. Target(p, pool) \in Pools /\ Reached(p, from) \in Object \cup {NoObject}
  BY PlaceTypes
<1>2. Reached(p, from) # NoObject => [Reached(p, from) EXCEPT !.tier = tier] \in Object
  BY <1>1 DEF Object
<1> QED
  BY <1>1, <1>2, PutTypes, AnswerTypes DEF CopyFrom, CopyFromTier

\* set_redirect.
LEMMA RedirectTypes ==
  ASSUME NEW p \in Places, NEW pool \in Pools, NEW to \in {"storage", "archive"},
         NEW fresh \in BOOLEAN, NEW tier \in TierNames
  PROVE  /\ SetRedirect(p, pool, to) \in Answer
         /\ SetRedirectIf(p, pool, fresh, to, tier) \in Answer
<1>1. p[pool] \in Object \cup {NoObject}
  BY PlaceTypes
<1>2. p[pool] # NoObject =>
        /\ [p[pool] EXCEPT !.redirect = to, !.data = Empty] \in Object
        /\ [p[pool] EXCEPT !.redirect = to, !.data = Empty, !.tier = tier] \in Object
  BY <1>1 DEF Object
<1> QED
  BY <1>1, <1>2, PutTypes, AnswerTypes DEF SetRedirect, SetRedirectIf

\* The operation of Lock and Unlock.
LEMMA LockTypes ==
  ASSUME NEW p \in Places, NEW pool \in Pools, NEW locked \in BOOLEAN
  PROVE  SetLock(p, pool, locked) \in Answer
<1> DEFINE q == Target(p, pool)
<1>1. q \in Pools /\ p[q] \in Object \cup {NoObject}
  BY PlaceTypes
<1>2. p[q] # NoObject => [p[q] EXCEPT !.locked = locked] \in Object
  BY <1>1 DEF Object
<1>3. [p EXCEPT ![q].locked = locked] = [p EXCEPT ![q] = [p[q] EXCEPT !.locked = locked]]
  BY <1>1 DEF Places
<1> QED
  BY <1>1, <1>2, <1>3, PutTypes, AnswerTypes DEF SetLock

-----------------------------------------------------------------------------
(* Types.  A thread's step tells what it was asked for and what it found.  *)

FitsAt(th, step) ==
    /\ step \in {"write", "dummy", "link"} => thread[th].req.op = "create"
    /\ step \in {"dummy", "link"} => Asked(th) # "FAST"
    /\ step \in Inside \cup {"lock"} => thread[th].req.op = "move"
    /\ step \in {"rm_target", "rm_self"} => thread[th].req.op = "delete"
    /\ step \in {"unlink", "promote", "rm_source"} =>
          Asked(th) = "FAST" /\ Found(th) # "FAST"
    /\ step \in {"copy_down", "replace"} => Asked(th) # "FAST" /\ Found(th) = "FAST"
    /\ step \in {"x_unlink", "x_copy", "x_remove", "x_dummy", "x_link"} =>
          "FAST" \notin {Asked(th), Found(th)} /\ Asked(th) # Found(th)
Fits(th) == FitsAt(th, thread[th].at)

Typed == TypeOK /\ \A th \in Threads : Fits(th)

\* The type of a thread that is in an operation.
LEMMA BusyTypes ==
  ASSUME TypeOK, NEW th \in Threads, thread[th].at # "idle"
  PROVE  /\ thread[th] \in [at : Steps, req : Requests, tier : Tiers, r : Results]
         /\ Obj(th) \in Objects
         /\ Place(th) \in Places
         /\ Found(th) \in Tiers
<1>1. thread[th] \in [at : Steps, req : Requests, tier : Tiers, r : Results]
  BY DEF TypeOK, Thread, IdleThread
<1>2. thread[th].req \in Request
  BY <1>1, ObjectMoverAssumption
<1>3. Obj(th) \in Objects
  BY <1>2 DEF Request, Obj
<1> QED
  BY <1>1, <1>3 DEF TypeOK, Place, Found

\* The type of what a creating or moving thread was asked for.
LEMMA AskedTypes ==
  ASSUME TypeOK, NEW th \in Threads, thread[th].at # "idle",
         thread[th].req.op \in {"create", "move"}
  PROVE  /\ Asked(th) \in Tiers
         /\ PoolOf(Asked(th)) \in Pools
         /\ Asked(th) # "FAST" => PoolOf(Asked(th)) \in {"storage", "archive"}
         /\ NameOf(Asked(th)) \in TierNames
         /\ thread[th].req.op = "create" => thread[th].req.data \in Values
<1>1. thread[th].req \in Request
  BY BusyTypes, ObjectMoverAssumption
<1>2. /\ Asked(th) \in Tiers
      /\ thread[th].req.op = "create" => thread[th].req.data \in Values
  BY <1>1 DEF Request, Asked
<1> QED
  BY <1>2 DEF PoolOf, NameOf, Tiers, Pools, TierNames

\* What a thread may get back.
LEMMA AnswersTypes ==
  ASSUME TypeOK, NEW th \in Threads, thread[th].at # "idle",
         NEW answer \in Answer, NEW a \in Answers(th, answer)
  PROVE  /\ a.p \in Places
         /\ a.r \in Results
         /\ a.r = "eio" => bounds.faults > 0 /\ a.p = Place(th)
         /\ a.r # "eio" => a = answer
         /\ a = answer \/ a.r = "eio"
<1>1. Place(th) \in Places
  BY BusyTypes
<1> QED
  BY <1>1 DEF Answers, Answer, Fails, Results

\* A failure uses up one of those allowed.
LEMMA FaultTypes ==
  ASSUME TypeOK, bounds.faults > 0
  PROVE  [bounds EXCEPT !.faults = @ - 1] \in
            [ops : 0 .. MaxOps, writes : 0 .. MaxWrites,
             faults : 0 .. MaxFaults, crashes : 0 .. MaxCrashes]
BY ObjectMoverAssumption DEF TypeOK

\* The pools and bounds keep their types when a thread takes an answer.
LEMMA TakesTypes ==
  ASSUME TypeOK, NEW th \in Threads, thread[th].at # "idle",
         NEW answer \in Answer, NEW a \in Answers(th, answer), NEW base, TakesOn(base, th, a)
  PROVE  /\ store' \in [Objects -> Places]
         /\ current' \subseteq current \ {th}
         /\ bounds' \in [ops : 0 .. MaxOps, writes : 0 .. MaxWrites,
                         faults : 0 .. MaxFaults, crashes : 0 .. MaxCrashes]
<1>1. /\ a.p \in Places
      /\ a.r = "eio" => bounds.faults > 0
  BY AnswersTypes
<1>2. Obj(th) \in Objects
  BY BusyTypes
<1>3. store' \in [Objects -> Places]
  BY <1>1, <1>2 DEF TakesOn, TypeOK
<1>4. current' \subseteq current \ {th}
  BY DEF TakesOn
<1>5. bounds' \in [ops : 0 .. MaxOps, writes : 0 .. MaxWrites,
                   faults : 0 .. MaxFaults, crashes : 0 .. MaxCrashes]
  <2>1. CASE a.r = "eio"
    BY <2>1, <1>1, FaultTypes DEF TakesOn
  <2>2. CASE a.r # "eio"
    BY <2>2 DEF TakesOn, TypeOK
  <2> QED
    BY <2>1, <2>2
<1> QED
  BY <1>3, <1>4, <1>5

\* Where a thread goes, and that no other thread moves.
LEMMA GotoTypes ==
  ASSUME TypeOK, NEW th \in Threads, thread[th].at # "idle",
         NEW step \in Steps, NEW r \in Results, Goto(th, step) \/ GotoWith(th, step, r)
  PROVE  /\ thread' \in [Threads -> Thread]
         /\ At(th, step)'
         /\ thread'[th].req = thread[th].req /\ thread'[th].tier = thread[th].tier
         /\ \A u \in Threads \ {th} : thread'[u] = thread[u]
<1>1. thread[th] \in [at : Steps, req : Requests, tier : Tiers, r : Results]
  BY BusyTypes
<1>2. /\ [thread[th] EXCEPT !.at = step] \in Thread
      /\ [thread[th] EXCEPT !.at = step, !.r = r] \in Thread
  BY <1>1 DEF Thread
<1>3. CASE Goto(th, step)
  BY <1>1, <1>2, <1>3 DEF Goto, TypeOK, At
<1>4. CASE GotoWith(th, step, r)
  BY <1>1, <1>2, <1>4 DEF GotoWith, TypeOK, At
<1> QED
  BY <1>3, <1>4

\* A failed assert changes no pool, and uses up the failure that caused it.
LEMMA AbortBounds ==
  ASSUME TypeOK, NEW r, r = "eio" => bounds.faults > 0, AbortAfter(r)
  PROVE  /\ Abort /\ store' = store
         /\ bounds' \in [ops : 0 .. MaxOps, writes : 0 .. MaxWrites,
                         faults : 0 .. MaxFaults, crashes : 0 .. MaxCrashes]
         /\ bounds'.writes = bounds.writes /\ bounds'.crashes = bounds.crashes
         /\ bounds'.faults = IF r = "eio" THEN bounds.faults - 1 ELSE bounds.faults
BY FaultTypes DEF AbortAfter, TypeOK

\* It keeps the types.
LEMMA AbortTypes ==
  ASSUME Typed, NEW r, r = "eio" => bounds.faults > 0, AbortAfter(r)
  PROVE  Typed'
BY AbortBounds DEF Typed, TypeOK, Abort, Thread, IdleThread, Fits, FitsAt, Inside

\* A step that goes on keeps the types if what it says of its thread fits.
LEMMA StepTypes ==
  ASSUME Typed, NEW th \in Threads, thread[th].at # "idle",
         NEW step \in Steps, NEW r \in Results, Goto(th, step) \/ GotoWith(th, step, r),
         store' \in [Objects -> Places],
         current' \subseteq current \ {th},
         bounds' \in [ops : 0 .. MaxOps, writes : 0 .. MaxWrites,
                      faults : 0 .. MaxFaults, crashes : 0 .. MaxCrashes],
         status' = status,
         FitsAt(th, step)
  PROVE  Typed'
<1>1. /\ thread' \in [Threads -> Thread]
      /\ \A u \in Threads \ {th} : thread'[u] = thread[u]
  BY GotoTypes DEF Typed
<1>2. current' \subseteq {u \in Threads : At(u, "replace")'}
  BY <1>1 DEF Typed, TypeOK, At
<1>3. ASSUME NEW u \in Threads PROVE Fits(u)'
  <2>1. CASE u = th
    <3>1. /\ At(th, step)'
          /\ thread'[th].req = thread[th].req
          /\ thread'[th].tier = thread[th].tier
      BY GotoTypes DEF Typed
    <3> QED
      BY <3>1, <2>1 DEF Fits, FitsAt, Asked, Found, At
  <2>2. CASE u # th
    <3>1. Fits(u) /\ thread'[u] = thread[u]
      BY <2>2, <1>1 DEF Typed
    <3> QED
      BY <3>1 DEF Fits, FitsAt, Asked, Found
  <2> QED
    BY <2>1, <2>2
<1> QED
  BY <1>1, <1>2, <1>3 DEF Typed, TypeOK

\* One operation keeps the types if both ways on from it fit the request.
LEMMA OperateTypes ==
  ASSUME Typed, NEW base, NEW th \in Threads, NEW step \in Steps, step # "idle",
         NEW answer \in Answer, NEW after \in Steps, NEW failed \in Steps,
         \/ OperateOn(base, th, step, answer, after, failed)
         \/ OperateShadowedOn(base, th, step, answer, after, failed),
         FitsAt(th, after), FitsAt(th, failed)
  PROVE  Typed'
<1>1. thread[th].at # "idle"
  BY DEF OperateOn, OperateShadowedOn, At
<1>2. PICK a \in Answers(th, answer), next \in {after, failed} :
         /\ TakesOn(base, th, a)
         /\ Goto(th, next) \/ GotoWith(th, next, a.r)
         /\ status' = status
  BY DEF OperateOn, OperateShadowedOn
<1>3. a.r \in Results
  BY <1>1, AnswersTypes DEF Typed
<1> QED
  BY <1>1, <1>2, <1>3, TakesTypes, StepTypes DEF Typed

\* The same for an operation whose failure ends the process.
LEMMA OperateAssertedTypes ==
  ASSUME Typed, NEW base, NEW th \in Threads, NEW step \in Steps, step # "idle",
         NEW answer \in Answer, NEW answers \in SUBSET Answers(th, answer),
         NEW after \in Steps,
         OperateAssertedOn(base, th, step, answers, after),
         FitsAt(th, after)
  PROVE  Typed'
<1>1. thread[th].at # "idle"
  BY DEF OperateAssertedOn, At
<1>2. PICK a \in Answers(th, answer) :
         \/ TakesOn(base, th, a) /\ Goto(th, after) /\ status' = status
         \/ AbortAfter(a.r)
  BY DEF OperateAssertedOn
<1>3. CASE AbortAfter(a.r)
  BY <1>1, <1>3, AnswersTypes, AbortTypes DEF Typed
<1>4. CASE TakesOn(base, th, a) /\ Goto(th, after) /\ status' = status
  <2>1. "ok" \in Results
    BY DEF Results
  <2> QED
    BY <1>1, <1>4, <2>1, TakesTypes, StepTypes DEF Typed
<1> QED
  BY <1>2, <1>3, <1>4

\* The steps of Create keep the types.
LEMMA CreateTypes ==
  ASSUME Typed, NEW th \in Threads, Create(th)
  PROVE  Typed'
<1> DEFINE tier == Asked(th)
<1>1. /\ thread[th].at \in {"write", "dummy", "link"}
      /\ thread[th].req.op = "create"
      /\ thread[th].at \in {"dummy", "link"} => tier # "FAST"
  BY DEF Create, Write, Dummy, Link, Operate, OperateOn, At, Typed, Fits, FitsAt
<1>2. /\ Place(th) \in Places
      /\ PoolOf(tier) \in Pools
      /\ tier # "FAST" => PoolOf(tier) \in {"storage", "archive"}
      /\ NameOf(tier) \in TierNames
      /\ thread[th].req.data \in Values
  BY <1>1, BusyTypes, AskedTypes DEF Typed
<1>3. {"write", "dummy", "link", "finish"} \subseteq Steps \ {"idle"} /\ "cache" \in Pools
  BY DEF Steps, Pools
<1>4. FitsAt(th, "finish") /\ (tier # "FAST" => FitsAt(th, "dummy") /\ FitsAt(th, "link"))
  BY <1>1 DEF FitsAt, Inside
<1>5. CASE Write(th)
  <2>1. WriteFullTier(Place(th), PoolOf(tier), thread[th].req.data, NameOf(tier)) \in Answer
    BY <1>2, WriteTypes
  <2>2. CASE tier = "FAST"
    <3>1. OperateOn("cache", th, "write",
                WriteFullTier(Place(th), PoolOf(tier), thread[th].req.data, NameOf(tier)),
                "finish", "finish")
      BY <1>5, <2>2 DEF Operate, Write
    <3> QED
      BY <3>1, <2>1, <1>3, <1>4, OperateTypes
  <2>3. CASE tier # "FAST"
    <3>1. OperateOn("cache", th, "write",
                WriteFullTier(Place(th), PoolOf(tier), thread[th].req.data, NameOf(tier)),
                "dummy", "finish")
      BY <1>5, <2>3 DEF Operate, Write
    <3> QED
      BY <3>1, <2>1, <2>3, <1>3, <1>4, OperateTypes
  <2> QED
    BY <2>2, <2>3
<1>6. CASE Dummy(th)
  <2>1. WriteFull(Place(th), "cache", Empty) \in Answer
    BY <1>2, <1>3, WriteTypes DEF TierNames
  <2>2. tier # "FAST"
    BY <1>1, <1>6 DEF Dummy, Operate, OperateOn, At
  <2> QED
    BY <1>6, <2>1, <2>2, <1>3, <1>4, OperateTypes DEF Dummy, Operate
<1>7. CASE Link(th)
  <2>1. tier # "FAST"
    BY <1>1, <1>7 DEF Link, Operate, OperateOn, At
  <2>2. SetRedirect(Place(th), "cache", PoolOf(tier)) \in Answer
    BY <2>1, <1>2, <1>3, RedirectTypes DEF TierNames
  <2> QED
    BY <1>7, <2>1, <2>2, <1>3, <1>4, OperateTypes DEF Link, Operate
<1> QED
  BY <1>5, <1>6, <1>7 DEF Create

\* Read keeps the types.
LEMMA ReadTypes ==
  ASSUME Typed, NEW th \in Threads, Read(th)
  PROVE  Typed'
<1>1. thread[th].at = "read"
  BY DEF Read, ReadOn, Operate, OperateOn, At
<1>2. Place(th) \in Places
  BY <1>1, BusyTypes DEF Typed
<1>3. Fails(Place(th), "enoent") \in Answer /\ Ok(Place(th), "none") \in Answer
  BY <1>2, AnswerTypes
<1>4. FitsAt(th, "finish")
  BY DEF FitsAt, Inside
<1> DEFINE answer == IF Reached(Place(th), "cache") = NoObject
                     THEN Fails(Place(th), "enoent")
                     ELSE Ok(Place(th), "none")
<1>5. OperateOn("cache", th, "read", answer, "finish", "finish")
  BY DEF Read, ReadOn
<1>6. answer \in Answer
  BY <1>3
<1>7. "read" \in Steps /\ "finish" \in Steps /\ "read" # "idle"
  BY DEF Steps
<1> HIDE DEF answer
<1> QED
  BY <1>4, <1>5, <1>6, <1>7, OperateTypes

\* Lock and Unlock keep the types.
LEMMA LockingTypes ==
  ASSUME Typed, NEW th \in Threads, Lock(th) \/ Unlock(th)
  PROVE  Typed'
<1>1. thread[th].at \in {"lock", "unlock", "unlock_early"}
  BY DEF Lock, LockOn, Unlock, UnlockOn, OperateAsserted, OperateAssertedOn, At
<1>2. thread[th].req.op = "move" /\ Place(th) \in Places
  BY <1>1, BusyTypes DEF Typed, Fits, FitsAt, Inside
<1>3. \A locked \in BOOLEAN : SetLock(Place(th), "cache", locked) \in Answer
  BY <1>2, LockTypes DEF Pools
<1>4. FitsAt(th, "locate") /\ FitsAt(th, "finish") /\ FitsAt(th, "early")
  BY <1>2 DEF FitsAt, Inside
<1>5. {"lock", "unlock", "unlock_early", "locate", "finish", "early"} \subseteq Steps \ {"idle"}
  BY DEF Steps
<1>6. CASE Lock(th)
  <2> DEFINE answer == SetLock(Place(th), "cache", TRUE)
  <2>1. {a \in Answers(th, answer) : a.r # "canceled"} \in SUBSET Answers(th, answer)
    OBVIOUS
  <2> QED
    BY <1>3, <1>4, <1>5, <1>6, <2>1, OperateAssertedTypes DEF Lock, LockOn
<1>7. CASE Unlock(th)
  BY <1>3, <1>4, <1>5, <1>7, OperateAssertedTypes DEF Unlock, UnlockOn
<1> QED
  BY <1>6, <1>7

\* GetLocation keeps the types: the steps it leads to fit the tiers.
LEMMA LocateTypes ==
  ASSUME Typed, NEW th \in Threads, Locate(th)
  PROVE  Typed'
<1>1. At(th, "locate") /\ thread[th].req.op = "move"
  BY DEF Locate, LocateOn, Typed, Fits, FitsAt, At, Inside
<1>2. thread[th] \in [at : Steps, req : Requests, tier : Tiers, r : Results]
  BY <1>1, BusyTypes DEF Typed, At
<1>3. ASSUME NEW r \in {"enoent", "eio"}, r = "eio" => bounds.faults > 0, AbortAfter(r)
      PROVE  Typed'
  BY <1>3, AbortTypes
<1>4. ASSUME NEW tier \in Tiers, NEW step \in {"unlock", "unlink", "copy_down", "x_unlink"},
             thread' = [thread EXCEPT ![th] = [@ EXCEPT !.at = step, !.tier = tier]],
             step = IF tier = Asked(th) THEN "unlock"
                    ELSE IF Asked(th) = "FAST" THEN "unlink"
                    ELSE IF tier = "FAST" THEN "copy_down"
                    ELSE "x_unlink",
             UNCHANGED <<store, current, status, bounds>>
      PROVE  Typed'
  <2>1. [thread[th] EXCEPT !.at = step, !.tier = tier] \in Thread
    BY <1>2 DEF Thread, Steps
  <2>2. /\ thread' \in [Threads -> Thread]
        /\ thread'[th].at = step /\ thread'[th].tier = tier /\ thread'[th].req = thread[th].req
        /\ \A u \in Threads \ {th} : thread'[u] = thread[u]
    BY <1>2, <1>4, <2>1 DEF Typed, TypeOK
  <2>3. current' \subseteq {u \in Threads : At(u, "replace")'}
    BY <1>1, <1>4, <2>2 DEF Typed, TypeOK, At
  <2>4. Fits(th)'
    BY <1>1, <1>4, <2>2 DEF Fits, FitsAt, Asked, Found, Inside
  <2>5. \A u \in Threads \ {th} : Fits(u)'
    BY <2>2 DEF Typed, Fits, FitsAt, Asked, Found
  <2> QED
    BY <1>4, <2>2, <2>3, <2>4, <2>5 DEF Typed, TypeOK
<1> DEFINE next == [tier \in Tiers |-> IF tier = Asked(th) THEN "unlock"
                                        ELSE IF Asked(th) = "FAST" THEN "unlink"
                                        ELSE IF tier = "FAST" THEN "copy_down"
                                        ELSE "x_unlink"]
<1>5. LocateOn("cache", th, next)
  BY DEF Locate
<1>6. ASSUME NEW tier \in Tiers,
             thread' = [thread EXCEPT ![th] = [@ EXCEPT !.at = next[tier], !.tier = tier]],
             UNCHANGED <<store, current, status, bounds>>
      PROVE  Typed'
  BY <1>4, <1>6
<1> HIDE DEF next
<1>7. \/ \E tier \in Tiers :
            /\ thread' = [thread EXCEPT ![th] = [@ EXCEPT !.at = next[tier], !.tier = tier]]
            /\ UNCHANGED <<store, current, status, bounds>>
      \/ \E r \in {"enoent", "eio"} : (r = "eio" => bounds.faults > 0) /\ AbortAfter(r)
  BY <1>5 DEF LocateOn, Named
<1> QED
  BY <1>3, <1>6, <1>7

\* The moves to the fast tier keep the types.
LEMMA MoveUpTypes ==
  ASSUME Typed, NEW th \in Threads, MoveUp(th)
  PROVE  Typed'
<1>1. /\ thread[th].at \in {"unlink", "promote", "rm_source"}
      /\ thread[th].req.op = "move" /\ Asked(th) = "FAST" /\ Found(th) # "FAST"
  BY DEF MoveUp, Unlink, Promote, RmSource, Operate, OperateOn, At, Typed, Fits, FitsAt, Inside
<1>2. Place(th) \in Places /\ Found(th) \in Tiers
  BY <1>1, BusyTypes DEF Typed
<1>3. {"cache", PoolOf(Found(th))} \subseteq Pools
  BY <1>2 DEF Pools, PoolOf, Tiers
<1>4. /\ RemoveAt(Place(th), "cache") \in Answer
      /\ CopyFromTier(Place(th), "cache", PoolOf(Found(th)), "fast") \in Answer
      /\ Remove(Place(th), PoolOf(Found(th))) \in Answer
  BY <1>2, <1>3, RemoveTypes, CopyTypes DEF TierNames
<1>5. \A step \in {"promote", "rm_source", "unlock", "unlock_early"} : FitsAt(th, step)
  BY <1>1 DEF FitsAt, Inside
<1>6. {"unlink", "promote", "rm_source", "unlock", "unlock_early"} \subseteq Steps \ {"idle"}
  BY DEF Steps
<1> QED
  BY <1>4, <1>5, <1>6, OperateTypes DEF MoveUp, Unlink, Promote, RmSource, Operate

\* The copy of a demotion keeps the types, and its version is then known.
LEMMA CopyDownTypes ==
  ASSUME Typed, NEW th \in Threads, CopyDown(th)
  PROVE  Typed'
<1> DEFINE answer == CopyFrom(Place(th), PoolOf(Asked(th)), "cache")
<1>1. thread[th].at = "copy_down" /\ thread[th].req.op = "move"
  BY DEF CopyDown, CopyDownOn, At, Typed, Fits, FitsAt, Inside
<1>2. /\ thread[th] \in [at : Steps, req : Requests, tier : Tiers, r : Results]
      /\ Place(th) \in Places /\ Obj(th) \in Objects /\ PoolOf(Asked(th)) \in Pools
  BY <1>1, BusyTypes, AskedTypes DEF Typed
<1>3. answer \in Answer
  BY <1>2, CopyTypes DEF Pools, TierNames
<1>4. PICK a \in Answers(th, answer), same \in BOOLEAN :
         /\ store' = [store EXCEPT ![Obj(th)] = a.p]
         /\ bounds' = IF a.r = "eio" THEN [bounds EXCEPT !.faults = @ - 1] ELSE bounds
         /\ current' = IF a.r = "ok" /\ same THEN current \cup {th} ELSE current \ {th}
         /\ Goto(th, IF a.r = "ok" THEN "replace" ELSE "unlock")
         /\ status' = status
  BY DEF CopyDown, CopyDownOn
<1>5. a.p \in Places /\ (a.r = "eio" => bounds.faults > 0)
  BY <1>1, <1>3, AnswersTypes DEF Typed
<1>6. store' \in [Objects -> Places]
  BY <1>2, <1>4, <1>5 DEF Typed, TypeOK
<1>7. bounds' \in [ops : 0 .. MaxOps, writes : 0 .. MaxWrites,
                   faults : 0 .. MaxFaults, crashes : 0 .. MaxCrashes]
  <2>1. CASE a.r = "eio"
    BY <2>1, <1>4, <1>5, FaultTypes DEF Typed
  <2>2. CASE a.r # "eio"
    BY <2>2, <1>4 DEF Typed, TypeOK
  <2> QED
    BY <2>1, <2>2
<1>8. "ok" \in Results /\ {"replace", "unlock"} \subseteq Steps
  BY DEF Results, Steps
<1>9. /\ thread' \in [Threads -> Thread]
      /\ thread'[th].at = IF a.r = "ok" THEN "replace" ELSE "unlock"
      /\ thread'[th].req = thread[th].req /\ thread'[th].tier = thread[th].tier
      /\ \A u \in Threads \ {th} : thread'[u] = thread[u]
  BY <1>1, <1>4, <1>8, GotoTypes DEF Typed, At
<1>10. current' \subseteq {u \in Threads : At(u, "replace")'}
  BY <1>4, <1>9 DEF Typed, TypeOK, At
<1>11. Fits(th)'
  BY <1>1, <1>9 DEF Typed, Fits, FitsAt, Asked, Found, Inside
<1>12. \A u \in Threads \ {th} : Fits(u)'
  BY <1>9 DEF Typed, Fits, FitsAt, Asked, Found
<1> QED
  BY <1>4, <1>6, <1>7, <1>9, <1>10, <1>11, <1>12 DEF Typed, TypeOK

\* The replacement of a demotion keeps the types and drops the version.
LEMMA ReplaceTypes ==
  ASSUME Typed, NEW th \in Threads, Replace(th)
  PROVE  Typed'
<1>1. thread[th].at = "replace" /\ thread[th].req.op = "move" /\ Asked(th) # "FAST"
  BY DEF Replace, OperateShadowed, OperateShadowedOn, At, Typed, Fits, FitsAt, Inside
<1>2. Place(th) \in Places /\ PoolOf(Asked(th)) \in {"storage", "archive"}
  BY <1>1, BusyTypes, AskedTypes DEF Typed
<1> DEFINE name == IF Asked(th) = "SLOW" THEN "storage" ELSE "archive"
           answer == SetRedirectIf(Place(th), "cache", th \in current, PoolOf(Asked(th)), name)
<1>3. answer \in Answer
  <2>1. (th \in current) \in BOOLEAN /\ name \in TierNames /\ "cache" \in Pools
    BY DEF TierNames, Pools
  <2> QED
    BY <1>2, <2>1, RedirectTypes
<1>4. FitsAt(th, "unlock") /\ FitsAt(th, "copy_down")
  BY <1>1 DEF Typed, Fits, FitsAt, Inside
<1>5. {"replace", "unlock", "copy_down"} \subseteq Steps \ {"idle"}
  BY DEF Steps
<1>6. OperateShadowedOn("cache", th, "replace", answer, "unlock", "copy_down")
  BY DEF OperateShadowed, Replace
<1> HIDE DEF answer
<1> QED
  BY <1>3, <1>4, <1>5, <1>6, OperateTypes

\* The moves between storage and archive keep the types.
LEMMA MoveAcrossTypes ==
  ASSUME Typed, NEW th \in Threads, MoveAcross(th)
  PROVE  Typed'
<1> DEFINE across == {"x_unlink", "x_copy", "x_remove", "x_dummy", "x_link"}
<1>1. thread[th].at \in across
  BY DEF MoveAcross, XUnlink, XCopy, XRemove, XDummy, XLink, Operate, OperateOn, OperateShadowed, OperateShadowedOn, At
<1>2. /\ thread[th].req.op = "move" /\ "FAST" \notin {Asked(th), Found(th)}
      /\ Asked(th) # Found(th)
  BY <1>1 DEF Typed, Fits, FitsAt, Inside
<1>3. /\ Place(th) \in Places /\ Found(th) \in Tiers
      /\ PoolOf(Asked(th)) \in {"storage", "archive"}
  BY <1>1, <1>2, BusyTypes, AskedTypes DEF Typed
<1>4. {"cache", PoolOf(Found(th)), PoolOf(Asked(th))} \subseteq Pools
  BY <1>3 DEF Pools, PoolOf, Tiers
<1>5. /\ RemoveAt(Place(th), "cache") \in Answer
      /\ CopyFrom(Place(th), PoolOf(Asked(th)), PoolOf(Found(th))) \in Answer
      /\ Remove(Place(th), PoolOf(Found(th))) \in Answer
      /\ WriteFull(Place(th), "cache", Empty) \in Answer
      /\ SetRedirect(Place(th), "cache", PoolOf(Asked(th))) \in Answer
  BY <1>3, <1>4, RemoveTypes, CopyTypes, WriteTypes, RedirectTypes DEF TierNames
<1>6. \A step \in across \cup {"unlock", "finish"} : FitsAt(th, step)
  BY <1>2 DEF FitsAt, Inside
<1>7. across \cup {"unlock", "finish"} \subseteq Steps \ {"idle"}
  BY DEF Steps
<1>8. CASE XUnlink(th)
  BY <1>5, <1>6, <1>7, <1>8, OperateTypes DEF XUnlink, Operate
<1>9. CASE XCopy(th)
  BY <1>5, <1>6, <1>7, <1>9, OperateTypes DEF XCopy, OperateShadowed
<1>10. CASE XRemove(th)
  BY <1>5, <1>6, <1>7, <1>10, OperateTypes DEF XRemove, Operate
<1>11. CASE XDummy(th)
  BY <1>5, <1>6, <1>7, <1>11, OperateTypes DEF XDummy, Operate
<1>12. CASE XLink(th)
  BY <1>5, <1>6, <1>7, <1>12, OperateTypes DEF XLink, Operate
<1> QED
  BY <1>8, <1>9, <1>10, <1>11, <1>12 DEF MoveAcross

\* Delete keeps the types.
LEMMA DeleteTypes ==
  ASSUME Typed, NEW th \in Threads, Delete(th)
  PROVE  Typed'
<1>1. thread[th].at \in {"rm_target", "rm_self"} /\ thread[th].req.op = "delete"
  BY DEF Delete, RmTarget, RmSelf, Operate, OperateOn, At, Typed, Fits, FitsAt
<1>2. Place(th) \in Places
  BY <1>1, BusyTypes DEF Typed
<1>3. Remove(Place(th), "cache") \in Answer /\ RemoveAt(Place(th), "cache") \in Answer
  BY <1>2, RemoveTypes DEF Pools
<1>4. \A step \in {"rm_self", "finish", "early"} : FitsAt(th, step)
  BY <1>1 DEF FitsAt, Inside
<1>5. {"rm_target", "rm_self", "finish", "early"} \subseteq Steps \ {"idle"}
  BY DEF Steps
<1>6. CASE RmTarget(th)
  BY <1>3, <1>4, <1>5, <1>6, OperateTypes DEF RmTarget, Operate
<1>7. CASE RmSelf(th)
  <2>1. PICK a \in Answers(th, RemoveAt(Place(th), "cache")) :
           /\ Takes(th, a)
           /\ GotoWith(th, "finish", IF a.r = "enoent" THEN "ok" ELSE a.r)
           /\ status' = status
    BY <1>7 DEF RmSelf
  <2>2. (IF a.r = "enoent" THEN "ok" ELSE a.r) \in Results
    BY <1>1, <1>3, AnswersTypes DEF Typed, Results
  <2> QED
    BY <1>1, <1>3, <1>4, <1>5, <2>1, <2>2, TakesTypes, StepTypes DEF Typed, Takes
<1> QED
  BY <1>6, <1>7 DEF Delete

\* A request of a caller is a legal one.
LEMMA StartTypes ==
  ASSUME Typed, NEW th \in Threads, NEW req \in Requests, Start(th, req)
  PROVE  Typed'
<1> DEFINE started == [at |-> FirstStep(req), req |-> req, tier |-> "FAST", r |-> "ok"]
<1>1. req.op \in {"create", "read", "move", "delete"}
  BY ObjectMoverAssumption DEF Request
<1>2. FirstStep(req) \in Steps
  BY <1>1 DEF FirstStep, Steps
<1>3. started \in Thread
  BY <1>2 DEF Thread, Tiers, Results
<1>4. /\ thread' \in [Threads -> Thread]
      /\ thread'[th] = started
      /\ \A u \in Threads \ {th} : thread'[u] = thread[u]
  BY <1>3 DEF Typed, TypeOK, Start, Begin
<1>5. bounds' \in [ops : 0 .. MaxOps, writes : 0 .. MaxWrites,
                   faults : 0 .. MaxFaults, crashes : 0 .. MaxCrashes]
  BY ObjectMoverAssumption DEF Start, Typed, TypeOK
<1>6. current' \subseteq {u \in Threads : At(u, "replace")'}
  BY <1>4 DEF Typed, TypeOK, Start, Begin, At
<1>7. Fits(th)'
  BY <1>1, <1>4 DEF Fits, FitsAt, FirstStep, Inside
<1>8. \A u \in Threads \ {th} : Fits(u)'
  BY <1>4 DEF Typed, Fits, FitsAt, Asked, Found
<1> QED
  BY <1>4, <1>5, <1>6, <1>7, <1>8 DEF Typed, TypeOK, Start, Begin

\* The end of an operation leaves the thread idle.
LEMMA EndTypes ==
  ASSUME Typed, NEW th \in Threads, End(th)
  PROVE  Typed'
<1>1. /\ thread' \in [Threads -> Thread]
      /\ thread'[th] = IdleThread
      /\ \A u \in Threads \ {th} : thread'[u] = thread[u]
  BY DEF Typed, TypeOK, End, Thread
<1>2. current' \subseteq {u \in Threads : At(u, "replace")'}
  BY <1>1 DEF Typed, TypeOK, End, At
<1>3. Fits(th)'
  BY <1>1 DEF Fits, FitsAt, IdleThread, Inside
<1>4. \A u \in Threads \ {th} : Fits(u)'
  BY <1>1 DEF Typed, Fits, FitsAt, Asked, Found
<1> QED
  BY <1>1, <1>2, <1>3, <1>4 DEF Typed, TypeOK, End

\* An application's write keeps the types.
LEMMA DirectWriteTypes ==
  ASSUME Typed, NEW o \in Objects, NEW data \in Writers, DirectWrite(o, data)
  PROVE  Typed'
<1>1. WriteFull(store[o], "cache", data) \in Answer
  BY ObjectMoverAssumption, WriteTypes DEF Typed, TypeOK, Pools, TierNames
<1>2. WriteFull(store[o], "cache", data).p \in Places
  BY <1>1 DEF Answer
<1>3. store' \in [Objects -> Places]
  BY <1>2 DEF Typed, TypeOK, DirectWrite, DirectWriteOn
<1>4. bounds' \in [ops : 0 .. MaxOps, writes : 0 .. MaxWrites,
                   faults : 0 .. MaxFaults, crashes : 0 .. MaxCrashes]
  BY ObjectMoverAssumption DEF DirectWrite, DirectWriteOn, Typed, TypeOK
<1>5. current' \subseteq current
  BY DEF DirectWrite, DirectWriteOn
<1> QED
  BY <1>3, <1>4, <1>5 DEF Typed, TypeOK, DirectWrite, DirectWriteOn, Fits, FitsAt, Asked, Found, At

\* So do a crash and a restart.
LEMMA CrashTypes ==
  ASSUME Typed, Crash \/ Restart
  PROVE  Typed'
<1>1. CASE Crash
  <2>1. bounds' \in [ops : 0 .. MaxOps, writes : 0 .. MaxWrites,
                     faults : 0 .. MaxFaults, crashes : 0 .. MaxCrashes]
    BY <1>1, ObjectMoverAssumption DEF Crash, Typed, TypeOK
  <2> QED
    BY <1>1, <2>1 DEF Crash, Typed, TypeOK, Thread, IdleThread, Fits, FitsAt, Inside
<1>2. CASE Restart
  BY <1>2 DEF Restart, Typed, TypeOK, Fits, FitsAt, Asked, Found, At
<1> QED
  BY <1>1, <1>2

\* The objects of the initial states have the right types.
LEMMA CreatedTypes ==
  ASSUME NEW tier \in Tiers
  PROVE  Created(tier, InitialData) \in Places
<1> DEFINE obj == [NewObject(InitialData) EXCEPT !.tier = NameOf(tier)]
           link == [NewObject(Empty) EXCEPT !.redirect = PoolOf(tier)]
<1>1. obj \in Object
  BY ObjectMoverAssumption DEF NewObject, Object, NameOf, Tiers, TierNames
<1>2. tier # "FAST" => link \in Object
  BY DEF NewObject, Object, PoolOf, Tiers, TierNames
<1>3. Nowhere \in Places
  BY DEF Nowhere, Places
<1> QED
  BY <1>1, <1>2, <1>3 DEF Created, Places

\* The initial states have the types.
LEMMA TypedInit == Init => Typed
<1> SUFFICES ASSUME Init PROVE Typed
  OBVIOUS
<1>1. InitialPlaces \subseteq Places
  BY CreatedTypes, ObjectMoverAssumption DEF InitialPlaces, Nowhere, Places
<1>2. store \in [Objects -> Places]
  BY <1>1 DEF Init, AtRest
<1>3. bounds \in [ops : 0 .. MaxOps, writes : 0 .. MaxWrites,
                  faults : 0 .. MaxFaults, crashes : 0 .. MaxCrashes]
  BY ObjectMoverAssumption DEF Init, AtRest
<1> QED
  BY <1>2, <1>3 DEF Init, AtRest, Typed, TypeOK, Thread, IdleThread, Fits, FitsAt, Inside

\* Every step keeps the types.
LEMMA TypedStep == Typed /\ [Next]_vars => Typed'
<1> SUFFICES ASSUME Typed, [Next]_vars PROVE Typed'
  OBVIOUS
<1>1. ASSUME NEW th \in Threads, Work(th) PROVE Typed'
  BY <1>1, CreateTypes, ReadTypes, LockingTypes, LocateTypes, MoveUpTypes, CopyDownTypes,
     ReplaceTypes, MoveAcrossTypes, DeleteTypes, EndTypes DEF Work, Serve, MoveDown
<1>2. CASE UNCHANGED vars
  BY <1>2 DEF vars, Typed, TypeOK, Fits, FitsAt, Asked, Found, At
<1> QED
  BY <1>1, <1>2, StartTypes, DirectWriteTypes, CrashTypes DEF Next

\* The pools, the threads and the bounds keep their types under all operations,
\* direct writes, failures and crashes; and the version of a copy is known only
\* to a mover about to replace the cache object it was made from.
THEOREM TypeCorrect == Spec => []TypeOK
<1>1. Typed => TypeOK
  BY DEF Typed
<1> QED
  BY <1>1, TypedInit, TypedStep, PTL DEF Spec

-----------------------------------------------------------------------------
(* Moves keep the data.  Of an object o either the lock works and one      *)
(* mover at a time goes through its steps (Settled); or o was moved        *)
(* between storage and archive, so that its tier name is that of a pool    *)
(* that no longer has it, and nobody finds anything to copy any more       *)
(* (Adrift).                                                               *)

\* Nobody but movers and readers comes near the objects.
OnlyMoves == /\ \A req \in Requests : req.op \in {"move", "read"}
             /\ "none" \notin InitialTiers
             /\ Writers = {}

Lower == {"storage", "archive"}
LowTiers == {"SLOW", "ARCHIVE"}
OtherTier(tier) == IF tier = "SLOW" THEN "ARCHIVE" ELSE "SLOW"
Has(o, pool) == store[o][pool] # NoObject
Movers(o) == {th \in Workers(o) : thread[th].at \in Inside}

\* Below the fast tier there are only objects with their data.
Intact(o) == \A pool \in Lower : Has(o, pool) => /\ store[o][pool].data = InitialData
                                                 /\ store[o][pool].redirect = "none"

\* The cache pool has the object; or a redirect to it, and it still has the
\* name "fast" or that of its pool; or nothing.
Leads(o) == \/ ~ Has(o, "cache") /\ \E pool \in Lower : Has(o, pool)
            \/ /\ Has(o, "cache")
               /\ store[o]["cache"].redirect = "none"
               /\ store[o]["cache"].data = InitialData
               /\ store[o]["cache"].tier = "fast"
            \/ \E tier \in LowTiers :
                  /\ Has(o, "cache")
                  /\ store[o]["cache"].redirect = PoolOf(tier)
                  /\ Has(o, PoolOf(tier))
                  /\ store[o][PoolOf(tier)].tier \in {"fast", NameOf(tier)}

\* A copy that carries the lock, with the name of that tier.
LockedCopy(o, pool, tier) == /\ Has(o, pool)
                             /\ store[o][pool].locked
                             /\ store[o][pool].tier = NameOf(tier)

\* Where the only mover of an object is.
Proceeds(th) ==
    LET o == Obj(th)
        at == thread[th].at
        linked == /\ Has(o, "cache")
                  /\ store[o]["cache"].redirect = PoolOf(Found(th))
                  /\ LockedCopy(o, PoolOf(Found(th)), Found(th))
    IN  /\ Has(o, "cache") => Reached(store[o], "cache").locked
        /\ at = "locate" => Has(o, "cache")
        /\ at \in {"unlink", "x_unlink"} => linked
        /\ at \in {"promote", "x_copy"} =>
              ~ Has(o, "cache") /\ LockedCopy(o, PoolOf(Found(th)), Found(th))
        /\ at = "rm_source" => Has(o, "cache") /\ store[o]["cache"].redirect = "none"
        /\ at = "copy_down" => Has(o, "cache") /\ Reached(store[o], "cache").tier = "fast"
        /\ at = "replace" =>
              Has(o, "cache") /\ LockedCopy(o, PoolOf(Asked(th)), "FAST")
              /\ Reached(store[o], "cache").tier = "fast"
        /\ at = "x_remove" =>
              ~ Has(o, "cache") /\ LockedCopy(o, PoolOf(Asked(th)), Found(th))
        /\ at \notin {"x_dummy", "x_link"}

Settled(o) == /\ Leads(o)
              /\ \A th, u \in Movers(o) : th = u
              /\ \A th \in Movers(o) : Proceeds(th)

AdriftFrom(o, tier) ==
    LET pool == PoolOf(OtherTier(tier))
    IN  /\ ~ Has(o, PoolOf(tier))
        /\ Has(o, pool)
        /\ store[o][pool].tier = NameOf(tier)
        /\ Has(o, "cache") => \/ store[o]["cache"].redirect = pool
                              \/ /\ store[o]["cache"].redirect = "none"
                                 /\ store[o]["cache"].tier = "none"
        /\ \A th \in Movers(o) :
              \/ thread[th].at = "locate"
              \/ /\ Found(th) = tier
                 /\ thread[th].at \in {"unlink", "promote", "x_unlink", "x_copy",
                                       "x_dummy", "x_link", "unlock", "unlock_early"}
        /\ \A th \in Movers(o) : thread[th].at = "x_dummy" => ~ Has(o, "cache")
        /\ \A th, u \in Movers(o) :
              {thread[th].at, thread[u].at} \subseteq {"x_dummy", "x_link"} => th = u

Safe(o) == Intact(o) /\ (Settled(o) \/ \E tier \in LowTiers : AdriftFrom(o, tier))
AllSafe == \A o \in Objects : Safe(o)

\* How one step of th leaves threads and pools: th is at next, and the places
\* of its object are p.
Moved(th, next, p) ==
    /\ thread'[th].at = next
    /\ thread'[th].req = thread[th].req
    /\ thread'[th].tier = thread[th].tier
    /\ \A u \in Threads \ {th} : thread'[u] = thread[u]
    /\ store'[Obj(th)] = p
    /\ \A o \in Objects \ {Obj(th)} : store'[o] = store[o]

\* A thread that takes an answer and goes on changes only its object.
LEMMA TakesMoves ==
  ASSUME TypeOK, NEW base, NEW th \in Threads, thread[th].at # "idle", NEW step \in Steps,
         NEW r \in Results, NEW a, a.p \in Places, TakesOn(base, th, a),
         Goto(th, step) \/ GotoWith(th, step, r)
  PROVE  Moved(th, step, a.p)
<1>1. Obj(th) \in Objects
  BY BusyTypes
<1>2. /\ store'[Obj(th)] = a.p
      /\ \A o \in Objects \ {Obj(th)} : store'[o] = store[o]
  BY <1>1 DEF TypeOK, TakesOn
<1> QED
  BY <1>2, GotoTypes DEF Moved, At

\* An operation succeeds, or the pools stay as they are.
LEMMA OperateMoves ==
  ASSUME TypeOK, NEW base, NEW th \in Threads, NEW step \in Steps, step # "idle",
         NEW answer \in Answer, answer.r # "ok" => answer.p = Place(th),
         NEW after \in Steps, NEW failed \in Steps,
         \/ OperateOn(base, th, step, answer, after, failed)
         \/ OperateShadowedOn(base, th, step, answer, after, failed)
  PROVE  \/ answer.r = "ok" /\ Moved(th, after, answer.p)
         \/ Moved(th, failed, Place(th))
<1>1. thread[th].at # "idle"
  BY DEF OperateOn, OperateShadowedOn, At
<1>2. PICK a \in Answers(th, answer) :
         /\ TakesOn(base, th, a)
         /\ LET next == IF a.r = "ok" THEN after ELSE failed
            IN  Goto(th, next) \/ GotoWith(th, next, a.r)
  BY DEF OperateOn, OperateShadowedOn
<1>3. /\ a.p \in Places /\ a.r \in Results
      /\ a.r = "eio" => a.p = Place(th)
      /\ a.r # "eio" => a = answer
  BY <1>1, AnswersTypes
<1>4. CASE a.r = "ok"
  BY <1>1, <1>2, <1>3, <1>4, TakesMoves
<1>5. CASE a.r # "ok"
  <2>1. a.p = Place(th)
    BY <1>3, <1>5
  <2> QED
    BY <1>1, <1>2, <1>3, <1>5, <2>1, TakesMoves
<1> QED
  BY <1>4, <1>5

-----------------------------------------------------------------------------
(* Steps that do not touch the places of an object.                        *)

\* An object stays safe while its places stay, and movers leave or stay.
LEMMA Frame ==
  ASSUME NEW o \in Objects, Safe(o), store'[o] = store[o],
         \A th \in Threads : th \in Movers(o)' => thread'[th] = thread[th]
  PROVE  Safe(o)'
<1>1. ASSUME NEW th \in Movers(o)'
      PROVE  /\ th \in Movers(o) /\ thread'[th] = thread[th]
             /\ Obj(th)' = o /\ Obj(th) = o
             /\ Found(th)' = Found(th) /\ Asked(th)' = Asked(th)
  BY <1>1 DEF Movers, Workers, Obj, Found, Asked
<1>2. Intact(o)'
  BY DEF Safe, Intact, Has
<1>3. CASE Settled(o)
  <2>1. Leads(o)'
    BY <1>3 DEF Settled, Leads, Has
  <2>2. \A th, u \in Movers(o)' : th = u
    BY <1>1, <1>3 DEF Settled
  <2>3. ASSUME NEW th \in Movers(o)' PROVE Proceeds(th)'
    <3>1. Proceeds(th)
      BY <1>1, <1>3, <2>3 DEF Settled
    <3>2. /\ thread'[th] = thread[th] /\ Obj(th)' = o /\ Obj(th) = o
          /\ Found(th)' = Found(th) /\ Asked(th)' = Asked(th)
      BY <1>1, <2>3
    <3> QED
      BY <3>1, <3>2 DEF Proceeds, LockedCopy, Has
  <2> QED
    BY <1>2, <2>1, <2>2, <2>3 DEF Safe, Settled
<1>4. ASSUME NEW tier \in LowTiers, AdriftFrom(o, tier) PROVE AdriftFrom(o, tier)'
  BY <1>1, <1>4 DEF AdriftFrom, Has
<1> QED
  BY <1>2, <1>3, <1>4 DEF Safe

\* A step on one object leaves the others safe.
LEMMA Elsewhere ==
  ASSUME NEW th \in Threads, NEW next, NEW p, Moved(th, next, p),
         NEW o \in Objects \ {Obj(th)}, Safe(o)
  PROVE  Safe(o)'
BY Frame DEF Moved, Movers, Workers, Obj

\* A mover that ends without having changed anything leaves its object safe.
LEMMA Leaves ==
  ASSUME NEW th \in Threads, NEW o \in Objects, o = Obj(th), Safe(o),
         NEW next, next \notin Inside, Moved(th, next, store[o])
  PROVE  Safe(o)'
BY Frame DEF Moved, Movers, Workers, Obj

-----------------------------------------------------------------------------
(* Steps of the movers of an object.                                       *)

\* The only mover of an object stays the only one.
LEMMA SettledOn ==
  ASSUME NEW th \in Threads, NEW o \in Objects, o = Obj(th), thread[th].at \in Inside,
         Settled(o), NEW next, NEW p, Moved(th, next, p),
         Intact(o)', Leads(o)', next \in Inside => Proceeds(th)'
  PROVE  Safe(o)'
<1>1. th \in Movers(o)
  BY DEF Movers, Workers, Inside
<1>2. ASSUME NEW u \in Movers(o)' PROVE u = th /\ next \in Inside
  <2>1. u \in Movers(o)
    BY <1>1, <1>2 DEF Moved, Movers, Workers, Obj
  <2> QED
    BY <1>1, <1>2, <2>1 DEF Settled, Moved, Movers
<1>3. Settled(o)'
  BY <1>2 DEF Settled
<1> QED
  BY <1>3 DEF Safe

\* Another mover of an object adrift finds nothing to copy and stays harmless.
LEMMA AdriftOn ==
  ASSUME NEW th \in Threads, NEW o \in Objects, o = Obj(th), thread[th].at \in Inside,
         NEW tier \in LowTiers, AdriftFrom(o, tier),
         NEW next, NEW p, Moved(th, next, p),
         Intact(o)',
         ~ Has(o, PoolOf(tier))',
         Has(o, PoolOf(OtherTier(tier)))',
         store'[o][PoolOf(OtherTier(tier))].tier = NameOf(tier),
         store'[o]["cache"] = NoObject \/
            \/ store'[o]["cache"].redirect = PoolOf(OtherTier(tier))
            \/ store'[o]["cache"].redirect = "none" /\ store'[o]["cache"].tier = "none",
         store'[o]["cache"] = NoObject \/
            \/ Has(o, "cache")
            \/ thread[th].at = "x_dummy",
         next \in Inside => /\ next \in {"unlink", "promote", "x_unlink", "x_copy",
                                         "x_dummy", "x_link", "unlock", "unlock_early"}
                            /\ Found(th)' = tier,
         next = "x_link" => thread[th].at \in {"x_dummy", "x_link"},
         next # "x_dummy"
  PROVE  Safe(o)'
<1>1. th \in Movers(o)
  BY DEF Movers, Workers, Inside
<1>2. ASSUME NEW u \in Movers(o)'
      PROVE  /\ u \in Movers(o)
             /\ u # th => thread'[u] = thread[u] /\ Found(u)' = Found(u)
             /\ u = th => thread'[u].at = next /\ next \in Inside
  BY <1>1, <1>2 DEF Moved, Movers, Workers, Obj, Found
<1>3. ASSUME NEW u \in Movers(o)'
      PROVE  \/ thread'[u].at = "locate"
             \/ /\ Found(u)' = tier
                /\ thread'[u].at \in {"unlink", "promote", "x_unlink", "x_copy",
                                      "x_dummy", "x_link", "unlock", "unlock_early"}
  <2>1. CASE u = th
    BY <1>2, <1>3, <2>1
  <2>2. CASE u # th
    BY <1>2, <1>3, <2>2 DEF AdriftFrom
  <2> QED
    BY <2>1, <2>2
<1>4. ASSUME NEW u \in Movers(o)', thread'[u].at = "x_dummy"
      PROVE  store'[o]["cache"] = NoObject
  <2>1. u # th /\ u \in Movers(o) /\ thread[u].at = "x_dummy"
    BY <1>2, <1>4
  <2>2. ~ Has(o, "cache") /\ thread[th].at # "x_dummy"
    BY <1>1, <2>1 DEF AdriftFrom
  <2> QED
    BY <2>2
<1>5. ASSUME NEW u \in Movers(o)', NEW v \in Movers(o)',
             {thread'[u].at, thread'[v].at} \subseteq {"x_dummy", "x_link"}
      PROVE  u = v
  <2>1. /\ u \in Movers(o) /\ v \in Movers(o)
        /\ {thread[u].at, thread[v].at} \subseteq {"x_dummy", "x_link"}
    BY <1>2, <1>5
  <2> QED
    BY <2>1 DEF AdriftFrom
<1>6. AdriftFrom(o, tier)'
  BY <1>3, <1>4, <1>5 DEF AdriftFrom, Has
<1> QED
  BY <1>6 DEF Safe

\* A mover whose operation failed gives up.
LEMMA GivesUp ==
  ASSUME NEW th \in Threads, NEW o \in Objects, o = Obj(th), Safe(o),
         thread[th].at \in Inside \ {"locate"},
         NEW next \in {"unlock", "unlock_early"}, Moved(th, next, store[o])
  PROVE  Safe(o)'
<1>1. store'[o] = store[o] /\ Obj(th)' = o
  BY DEF Moved, Obj
<1>2. Intact(o)'
  BY <1>1 DEF Safe, Intact, Has
<1>3. th \in Movers(o)
  BY DEF Movers, Workers, Inside
<1>4. CASE Settled(o)
  <2>1. Leads(o)' /\ Proceeds(th)
    BY <1>1, <1>3, <1>4 DEF Settled, Leads, Has
  <2>2. Proceeds(th)'
    BY <1>1, <2>1 DEF Proceeds, Moved, Has
  <2> QED
    BY <1>2, <1>4, <2>1, <2>2, SettledOn
<1>5. ASSUME NEW tier \in LowTiers, AdriftFrom(o, tier) PROVE Safe(o)'
  <2>1. Found(th)' = tier
    BY <1>3, <1>5 DEF AdriftFrom, Moved, Found
  <2> QED
    BY <1>1, <1>2, <1>5, <2>1, AdriftOn DEF AdriftFrom, Has
<1> QED
  BY <1>4, <1>5 DEF Safe

-----------------------------------------------------------------------------
(* What the invariant says of the places of an object.                     *)

\* Tiers, their pools and their names.
LEMMA TierFacts ==
  /\ \A tier \in Tiers : tier # "FAST" <=> tier \in LowTiers
  /\ \A tier \in LowTiers : /\ PoolOf(tier) \in Lower
                            /\ OtherTier(tier) \in LowTiers
                            /\ PoolOf(OtherTier(tier)) # PoolOf(tier)
                            /\ NameOf(tier) \notin {"none", "fast"}
                            /\ \A other \in LowTiers \ {tier} : other = OtherTier(tier)
  /\ \A tier, other \in Tiers : NameOf(tier) = NameOf(other) => tier = other
  /\ NameOf("FAST") = "fast"
  /\ Lower = Pools \ {"cache"} /\ "cache" \in Pools
BY DEF Tiers, LowTiers, PoolOf, NameOf, OtherTier, Lower, Pools

\* The places of an object, and what putting something there changes.
LEMMA PlaceFacts ==
  ASSUME TypeOK, NEW o \in Objects
  PROVE  /\ store[o] \in Places
         /\ \A pool \in Pools : Has(o, pool) => store[o][pool] \in Object
         /\ \A pool \in Pools : \A obj :
               /\ [store[o] EXCEPT ![pool] = obj][pool] = obj
               /\ \A other \in Pools \ {pool} :
                     [store[o] EXCEPT ![pool] = obj][other] = store[o][other]
BY DEF TypeOK, Places, Has

\* Below the fast tier there are no redirects.
LEMMA LowerFacts ==
  ASSUME NEW o \in Objects, Intact(o)
  PROVE  \A pool \in Lower : /\ Target(store[o], pool) = pool
                             /\ Reached(store[o], pool) = store[o][pool]
BY DEF Intact, Has, Target, Reached

\* An object that leads somewhere leads to its data.
LEMMA ReachedFacts ==
  ASSUME TypeOK, NEW o \in Objects, Intact(o), Leads(o), Has(o, "cache")
  PROVE  /\ Target(store[o], "cache") \in Pools
         /\ Reached(store[o], "cache") = store[o][Target(store[o], "cache")]
         /\ Reached(store[o], "cache") # NoObject
         /\ Reached(store[o], "cache") \in Object
         /\ Reached(store[o], "cache").data = InitialData
         /\ Reached(store[o], "cache").redirect = "none"
         /\ \/ Target(store[o], "cache") = "cache" /\ Reached(store[o], "cache").tier = "fast"
            \/ \E tier \in LowTiers :
                  /\ Target(store[o], "cache") = PoolOf(tier)
                  /\ store[o]["cache"].redirect = PoolOf(tier)
                  /\ Reached(store[o], "cache").tier \in {"fast", NameOf(tier)}
<1>1. CASE store[o]["cache"].redirect = "none"
  BY <1>1, PlaceFacts, TierFacts DEF Leads, Has, Target, Reached, Lower
<1>2. CASE store[o]["cache"].redirect # "none"
  <2>1. PICK tier \in LowTiers :
           /\ store[o]["cache"].redirect = PoolOf(tier)
           /\ Has(o, PoolOf(tier))
           /\ store[o][PoolOf(tier)].tier \in {"fast", NameOf(tier)}
    BY <1>2 DEF Leads
  <2>2. PoolOf(tier) \in Lower /\ PoolOf(tier) \in Pools
    BY TierFacts
  <2>3. Target(store[o], "cache") = PoolOf(tier)
    BY <1>2, <2>1 DEF Target, Has
  <2>4. store[o][PoolOf(tier)] \in Object /\ store[o][PoolOf(tier)] # NoObject
    BY <2>1, <2>2, PlaceFacts DEF Has
  <2> QED
    BY <2>1, <2>2, <2>3, <2>4 DEF Intact, Reached
<1> QED
  BY <1>1, <1>2

-----------------------------------------------------------------------------
(* The operations of a mover that succeed.                                 *)

\* The redirect is removed: the object is still below.
LEMMA UnlinkSafe ==
  ASSUME Typed, NEW th \in Threads, NEW o \in Objects, o = Obj(th), Safe(o),
         RemoveAt(store[o], "cache").r = "ok", NEW next,
         Moved(th, next, RemoveAt(store[o], "cache").p),
         \/ thread[th].at = "unlink" /\ next = "promote"
         \/ thread[th].at = "x_unlink" /\ next = "x_copy"
  PROVE  Safe(o)'
<1> DEFINE p == [store[o] EXCEPT !["cache"] = NoObject]
<1>1. RemoveAt(store[o], "cache").p = p /\ Has(o, "cache")
  BY DEF RemoveAt, Ok, Fails, Has
<1>2. store'[o] = p /\ Obj(th)' = o /\ Found(th)' = Found(th)
  BY <1>1 DEF Moved, Obj, Found
<1>3. /\ store'[o]["cache"] = NoObject
      /\ \A pool \in Lower : store'[o][pool] = store[o][pool]
  BY <1>2, PlaceFacts, TierFacts DEF Typed
<1>4. Intact(o)'
  BY <1>3 DEF Safe, Intact, Has
<1>5. thread[th].at \in Inside /\ th \in Movers(o) /\ Found(th) \in LowTiers
  <2>1. Found(th) \in Tiers /\ Found(th) # "FAST"
    BY BusyTypes DEF Typed, Fits, FitsAt
  <2> QED
    BY <2>1, TierFacts DEF Inside, Movers, Workers
<1>6. CASE Settled(o)
  <2>1. LockedCopy(o, PoolOf(Found(th)), Found(th))
    BY <1>5, <1>6 DEF Settled, Proceeds
  <2>2. PoolOf(Found(th)) \in Lower
    BY <1>5, TierFacts
  <2>3. LockedCopy(o, PoolOf(Found(th)), Found(th))' /\ ~ Has(o, "cache")'
    BY <1>2, <1>3, <2>1, <2>2 DEF LockedCopy, Has
  <2>4. Leads(o)'
    BY <2>2, <2>3, <1>2 DEF Leads, LockedCopy, Has
  <2>5. Proceeds(th)'
    BY <1>2, <2>3 DEF Proceeds, Moved
  <2> QED
    BY <1>4, <1>5, <1>6, <2>4, <2>5, SettledOn
<1>7. ASSUME NEW tier \in LowTiers, AdriftFrom(o, tier) PROVE Safe(o)'
  <2>1. Found(th) = tier
    BY <1>5, <1>7 DEF AdriftFrom
  <2>2. PoolOf(tier) \in Lower /\ PoolOf(OtherTier(tier)) \in Lower
    BY TierFacts
  <2>3. /\ ~ Has(o, PoolOf(tier))'
        /\ Has(o, PoolOf(OtherTier(tier)))'
        /\ store'[o][PoolOf(OtherTier(tier))].tier = NameOf(tier)
    BY <1>3, <1>7, <2>2 DEF AdriftFrom, Has
  <2>4. /\ next \in {"promote", "x_copy"}
        /\ Moved(th, next, p)
    BY <1>1
  <2> HIDE DEF p
  <2> QED
    BY <1>2, <1>3, <1>4, <1>5, <1>7, <2>1, <2>3, <2>4, AdriftOn
<1> QED
  BY <1>6, <1>7 DEF Safe

\* The object is copied up: it had the lock, so has the copy.
LEMMA PromoteSafe ==
  ASSUME Typed, NEW th \in Threads, NEW o \in Objects, o = Obj(th), Safe(o),
         thread[th].at = "promote",
         CopyFromTier(store[o], "cache", PoolOf(Found(th)), "fast").r = "ok",
         Moved(th, "rm_source", CopyFromTier(store[o], "cache", PoolOf(Found(th)), "fast").p)
  PROVE  Safe(o)'
<1> DEFINE source == store[o][PoolOf(Found(th))]
           copy == [source EXCEPT !.tier = "fast"]
<1>1. th \in Movers(o) /\ Found(th) \in LowTiers
  <2>1. Found(th) \in Tiers /\ Found(th) # "FAST"
    BY BusyTypes DEF Typed, Fits, FitsAt
  <2> QED
    BY <2>1, TierFacts DEF Inside, Movers, Workers
<1>2. PoolOf(Found(th)) \in Lower
  BY <1>1, TierFacts
<1>3. Reached(store[o], PoolOf(Found(th))) = source /\ Has(o, PoolOf(Found(th)))
  BY <1>2, LowerFacts DEF Safe, CopyFromTier, Ok, Fails, Has
<1>4. Settled(o) /\ ~ Has(o, "cache") /\ LockedCopy(o, PoolOf(Found(th)), Found(th))
  <2>1. \A tier \in LowTiers : ~ AdriftFrom(o, tier)
    BY <1>1, <1>3 DEF AdriftFrom
  <2>2. Settled(o)
    BY <2>1 DEF Safe
  <2> QED
    BY <1>1, <2>2 DEF Settled, Proceeds
<1>5. store'[o] = [store[o] EXCEPT !["cache"] = copy] /\ Obj(th)' = o
  BY <1>3, <1>4 DEF Moved, CopyFromTier, Ok, Fails, Target, Has, Obj
<1>6. /\ store'[o]["cache"] = copy
      /\ \A pool \in Lower : store'[o][pool] = store[o][pool]
  BY <1>5, PlaceFacts, TierFacts DEF Typed
<1>7. /\ copy \in Object /\ copy # NoObject
      /\ copy.tier = "fast" /\ copy.locked
      /\ copy.data = InitialData /\ copy.redirect = "none"
  <2>1. source \in Object
    BY <1>2, <1>3, PlaceFacts, TierFacts DEF Typed
  <2>2. source.data = InitialData /\ source.redirect = "none" /\ source.locked
    BY <1>2, <1>3, <1>4 DEF Safe, Intact, LockedCopy
  <2> QED
    BY <2>1, <2>2, RadosAssumption DEF Object, TierNames
<1>8. Intact(o)'
  BY <1>6 DEF Safe, Intact, Has
<1>9. Leads(o)'
  BY <1>6, <1>7 DEF Leads, Has
<1> HIDE DEF copy
<1>10. Proceeds(th)'
  BY <1>5, <1>6, <1>7 DEF Proceeds, Moved, Has, Reached, Target
<1> QED
  BY <1>4, <1>8, <1>9, <1>10, SettledOn DEF Inside

\* The source of a promotion is removed: the cache pool has the copy.
LEMMA RmSourceSafe ==
  ASSUME Typed, NEW th \in Threads, NEW o \in Objects, o = Obj(th), Safe(o),
         thread[th].at = "rm_source",
         Remove(store[o], PoolOf(Found(th))).r = "ok",
         Moved(th, "unlock", Remove(store[o], PoolOf(Found(th))).p)
  PROVE  Safe(o)'
<1>1. th \in Movers(o) /\ Found(th) \in LowTiers
  <2>1. Found(th) \in Tiers /\ Found(th) # "FAST"
    BY BusyTypes DEF Typed, Fits, FitsAt
  <2> QED
    BY <2>1, TierFacts DEF Inside, Movers, Workers
<1>2. PoolOf(Found(th)) \in Lower
  BY <1>1, TierFacts
<1>3. /\ Settled(o) /\ Has(o, "cache") /\ store[o]["cache"].redirect = "none"
      /\ Reached(store[o], "cache").locked
  BY <1>1 DEF Safe, AdriftFrom, Settled, Proceeds
<1>4. store'[o] = [store[o] EXCEPT ![PoolOf(Found(th))] = NoObject] /\ Obj(th)' = o
  BY <1>2, LowerFacts DEF Safe, Moved, Remove, RemoveAt, Ok, Fails, Obj
<1>5. /\ store'[o]["cache"] = store[o]["cache"]
      /\ \A pool \in Lower : store'[o][pool] \in {store[o][pool], NoObject}
  BY <1>2, <1>4, PlaceFacts, TierFacts DEF Typed
<1>6. Intact(o)'
  BY <1>5 DEF Safe, Intact, Has
<1>7. store[o]["cache"].data = InitialData /\ store[o]["cache"].tier = "fast"
  <2>1. \A tier \in LowTiers : PoolOf(tier) # "none"
    BY TierFacts DEF Lower
  <2> QED
    BY <1>3, <2>1 DEF Settled, Leads
<1>8. Leads(o)'
  BY <1>3, <1>5, <1>7 DEF Leads, Has
<1>9. Proceeds(th)'
  BY <1>3, <1>4, <1>5 DEF Proceeds, Moved, Has, Reached, Target
<1> QED
  BY <1>3, <1>6, <1>8, <1>9, SettledOn DEF Inside

\* The object is copied down: with the data, the lock, the name "fast".
LEMMA CopyDownSafe ==
  ASSUME Typed, NEW th \in Threads, NEW o \in Objects, o = Obj(th), Safe(o),
         thread[th].at = "copy_down",
         CopyFrom(store[o], PoolOf(Asked(th)), "cache").r = "ok",
         Moved(th, "replace", CopyFrom(store[o], PoolOf(Asked(th)), "cache").p)
  PROVE  Safe(o)'
<1> DEFINE object == Reached(store[o], "cache")
           pool == PoolOf(Asked(th))
<1>1. th \in Movers(o) /\ Asked(th) \in LowTiers
  <2>1. Asked(th) # "FAST" /\ thread[th].req.op = "move"
    BY DEF Typed, Fits, FitsAt, Inside
  <2> QED
    BY <2>1, AskedTypes, TierFacts DEF Typed, Inside, Movers, Workers
<1>2. pool \in Lower /\ pool \in Pools /\ pool # "none"
  BY <1>1, TierFacts DEF Lower
<1>3. Settled(o) /\ Proceeds(th)
  BY <1>1 DEF Safe, AdriftFrom, Settled
<1>4. Has(o, "cache") /\ object.tier = "fast" /\ object.locked
  BY <1>3 DEF Proceeds
<1>5. /\ object # NoObject
      /\ object.data = InitialData /\ object.redirect = "none"
      /\ Target(store[o], "cache") \in Pools
      /\ object = store[o][Target(store[o], "cache")]
  BY <1>3, <1>4, ReachedFacts DEF Typed, Safe, Settled
<1>6. store'[o] = [store[o] EXCEPT ![pool] = object] /\ Obj(th)' = o /\ Asked(th)' = Asked(th)
  BY <1>2, <1>5, LowerFacts DEF Safe, Moved, CopyFrom, Ok, Fails, Obj, Asked
<1>7. /\ store'[o][pool] = object
      /\ \A other \in Pools \ {pool} : store'[o][other] = store[o][other]
  BY <1>2, <1>6, PlaceFacts DEF Typed
<1> HIDE DEF object, pool
<1>8. store'[o]["cache"] = store[o]["cache"]
  BY <1>2, <1>7, TierFacts
<1>9. Reached(store'[o], "cache") = object
  <2>1. Target(store'[o], "cache") = Target(store[o], "cache")
    BY <1>8 DEF Target
  <2> QED
    BY <1>5, <1>7, <2>1 DEF Reached
<1>10. Intact(o)'
  BY <1>5, <1>7, TierFacts DEF Safe, Intact, Has
<1>11. Leads(o)'
  <2>1. CASE store[o]["cache"].redirect = "none"
    <3>1. \A tier \in LowTiers : PoolOf(tier) # "none"
      BY TierFacts DEF Lower
    <3> QED
      BY <1>3, <1>4, <1>8, <2>1, <3>1 DEF Settled, Leads, Has
  <2>2. CASE store[o]["cache"].redirect # "none"
    <3>1. PICK tier \in LowTiers :
             /\ store[o]["cache"].redirect = PoolOf(tier)
             /\ Has(o, PoolOf(tier))
             /\ store[o][PoolOf(tier)].tier \in {"fast", NameOf(tier)}
      BY <1>3, <1>4, <2>2 DEF Settled, Leads
    <3>2. PoolOf(tier) \in Pools
      BY TierFacts
    <3>3. /\ store'[o][PoolOf(tier)] # NoObject
          /\ store'[o][PoolOf(tier)].tier \in {"fast", NameOf(tier)}
      BY <1>4, <1>5, <1>7, <3>1, <3>2 DEF Has
    <3> QED
      BY <1>4, <1>8, <3>1, <3>3 DEF Leads, Has
  <2> QED
    BY <2>1, <2>2
<1>12. Proceeds(th)'
  <2>1. LockedCopy(o, PoolOf(Asked(th)), "FAST")'
    BY <1>4, <1>5, <1>6, <1>7, TierFacts DEF LockedCopy, Has, pool
  <2> QED
    BY <1>4, <1>6, <1>8, <1>9, <2>1 DEF Proceeds, Moved, Has
<1> QED
  BY <1>3, <1>10, <1>11, <1>12, SettledOn DEF Inside

\* The cache object becomes a redirect to the copy, whichever was copied.
LEMMA ReplaceSafe ==
  ASSUME Typed, NEW th \in Threads, NEW o \in Objects, o = Obj(th), Safe(o),
         thread[th].at = "replace", NEW fresh, NEW name \in TierNames,
         SetRedirectIf(store[o], "cache", fresh, PoolOf(Asked(th)), name).r = "ok",
         Moved(th, "unlock",
               SetRedirectIf(store[o], "cache", fresh, PoolOf(Asked(th)), name).p)
  PROVE  Safe(o)'
<1> DEFINE link == [store[o]["cache"] EXCEPT !.redirect = PoolOf(Asked(th)), !.data = Empty,
                                             !.tier = name]
           pool == PoolOf(Asked(th))
<1>1. th \in Movers(o) /\ Asked(th) \in LowTiers
  <2>1. Asked(th) # "FAST" /\ thread[th].req.op = "move"
    BY DEF Typed, Fits, FitsAt, Inside
  <2> QED
    BY <2>1, AskedTypes, TierFacts DEF Typed, Inside, Movers, Workers
<1>2. pool \in Lower /\ pool # "none"
  BY <1>1, TierFacts DEF Lower
<1>3. Settled(o) /\ Proceeds(th)
  BY <1>1 DEF Safe, AdriftFrom, Settled
<1>4. Has(o, "cache") /\ LockedCopy(o, pool, "FAST")
  BY <1>3 DEF Proceeds
<1>5. store'[o] = [store[o] EXCEPT !["cache"] = link] /\ Obj(th)' = o
  <2>1. SetRedirectIf(store[o], "cache", fresh, PoolOf(Asked(th)), name).p
           = [store[o] EXCEPT !["cache"] = link]
    BY DEF SetRedirectIf, Ok, Fails
  <2> QED
    BY <2>1 DEF Moved, Obj
<1>6. /\ store'[o]["cache"] = link
      /\ \A other \in Lower : store'[o][other] = store[o][other]
  BY <1>5, PlaceFacts, TierFacts DEF Typed
<1>7. store'[o]["cache"] # NoObject /\ store'[o]["cache"].redirect = pool
  <2>1. store[o]["cache"] \in Object
    BY <1>4, PlaceFacts, TierFacts DEF Typed
  <2>2. pool \in {"none", "storage", "archive"}
    BY <1>2 DEF Lower
  <2>3. link \in Object /\ link.redirect = pool
    BY <2>1, <2>2 DEF Object
  <2> QED
    BY <1>6, <2>3, RadosAssumption
<1> HIDE DEF link
<1>8. Intact(o)'
  BY <1>6 DEF Safe, Intact, Has
<1>9. store'[o][pool] # NoObject /\ store'[o][pool].tier = "fast" /\ store'[o][pool].locked
  BY <1>2, <1>4, <1>6, TierFacts DEF LockedCopy, Has
<1>10. Leads(o)'
  BY <1>1, <1>7, <1>9 DEF Leads, Has
<1>11. Proceeds(th)'
  BY <1>2, <1>5, <1>7, <1>9 DEF Proceeds, Moved, Reached, Target
<1> QED
  BY <1>3, <1>8, <1>10, <1>11, SettledOn DEF Inside

\* When the replacement fails, the copy is made again.
LEMMA ReplaceAgainSafe ==
  ASSUME NEW th \in Threads, NEW o \in Objects, o = Obj(th), Safe(o),
         thread[th].at = "replace", Moved(th, "copy_down", store[o])
  PROVE  Safe(o)'
<1>1. th \in Movers(o)
  BY DEF Movers, Workers, Inside
<1>2. Settled(o) /\ Proceeds(th)
  BY <1>1 DEF Safe, AdriftFrom, Settled
<1>3. store'[o] = store[o] /\ Obj(th)' = o
  BY DEF Moved, Obj
<1>4. Intact(o)' /\ Leads(o)'
  BY <1>2, <1>3 DEF Safe, Intact, Settled, Leads, Has
<1>5. Proceeds(th)'
  BY <1>2, <1>3 DEF Proceeds, Moved, Has
<1> QED
  BY <1>2, <1>4, <1>5, SettledOn DEF Inside

\* Between storage and archive.
LEMMA AcrossFacts ==
  ASSUME Typed, NEW th \in Threads,
         thread[th].at \in {"x_unlink", "x_copy", "x_remove", "x_dummy", "x_link"}
  PROVE  /\ th \in Movers(Obj(th))
         /\ Found(th) \in LowTiers /\ Asked(th) = OtherTier(Found(th))
         /\ PoolOf(Found(th)) \in Lower /\ PoolOf(Asked(th)) \in Lower
         /\ PoolOf(Asked(th)) # PoolOf(Found(th))
<1>1. /\ Found(th) \in Tiers /\ Found(th) # "FAST"
      /\ Asked(th) \in Tiers /\ Asked(th) # "FAST" /\ Asked(th) # Found(th)
  BY BusyTypes, AskedTypes DEF Typed, Fits, FitsAt, Inside
<1> QED
  BY <1>1, TierFacts DEF Movers, Workers, Inside

\* The object is copied to the other pool, with its old tier name.
LEMMA XCopySafe ==
  ASSUME Typed, NEW th \in Threads, NEW o \in Objects, o = Obj(th), Safe(o),
         thread[th].at = "x_copy",
         CopyFrom(store[o], PoolOf(Asked(th)), PoolOf(Found(th))).r = "ok",
         Moved(th, "x_remove", CopyFrom(store[o], PoolOf(Asked(th)), PoolOf(Found(th))).p)
  PROVE  Safe(o)'
<1> DEFINE source == store[o][PoolOf(Found(th))]
           pool == PoolOf(Asked(th))
<1>1. /\ th \in Movers(o) /\ PoolOf(Found(th)) \in Lower /\ pool \in Lower
      /\ pool # PoolOf(Found(th))
  BY AcrossFacts
<1>2. Reached(store[o], PoolOf(Found(th))) = source /\ Has(o, PoolOf(Found(th)))
  BY <1>1, LowerFacts DEF Safe, CopyFrom, Ok, Fails, Has
<1>3. Settled(o) /\ Proceeds(th)
  BY <1>1, <1>2 DEF Safe, AdriftFrom, Settled
<1>4. ~ Has(o, "cache") /\ LockedCopy(o, PoolOf(Found(th)), Found(th))
  BY <1>3 DEF Proceeds
<1>5. /\ store'[o] = [store[o] EXCEPT ![pool] = source] /\ Obj(th)' = o
      /\ Asked(th)' = Asked(th) /\ Found(th)' = Found(th)
  BY <1>1, <1>2, LowerFacts DEF Safe, Moved, CopyFrom, Ok, Fails, Obj, Asked, Found, Has
<1>6. /\ store'[o][pool] = source
      /\ \A other \in Pools \ {pool} : store'[o][other] = store[o][other]
  BY <1>1, <1>5, PlaceFacts, TierFacts DEF Typed
<1>7. store'[o]["cache"] = NoObject
  BY <1>1, <1>4, <1>6, TierFacts DEF Has
<1>8. Intact(o)'
  BY <1>1, <1>2, <1>6, TierFacts DEF Safe, Intact, Has
<1>9. LockedCopy(o, PoolOf(Asked(th)), Found(th))'
  BY <1>4, <1>5, <1>6 DEF LockedCopy, Has
<1>10. Leads(o)'
  BY <1>1, <1>7, <1>2, <1>6 DEF Leads, Has
<1>11. Proceeds(th)'
  BY <1>5, <1>7, <1>9 DEF Proceeds, Moved, Has
<1> QED
  BY <1>3, <1>8, <1>10, <1>11, SettledOn DEF Inside

\* From here on the tier name is that of a pool without the object.
LEMMA XRemoveSafe ==
  ASSUME Typed, NEW th \in Threads, NEW o \in Objects, o = Obj(th), Safe(o),
         thread[th].at = "x_remove",
         Remove(store[o], PoolOf(Found(th))).r = "ok",
         Moved(th, "x_dummy", Remove(store[o], PoolOf(Found(th))).p)
  PROVE  Safe(o)'
<1>1. /\ th \in Movers(o) /\ Found(th) \in LowTiers /\ Asked(th) = OtherTier(Found(th))
      /\ PoolOf(Found(th)) \in Lower /\ PoolOf(Asked(th)) \in Lower
      /\ PoolOf(Asked(th)) # PoolOf(Found(th))
  BY AcrossFacts
<1>2. Settled(o) /\ Proceeds(th)
  BY <1>1 DEF Safe, AdriftFrom, Settled
<1>3. ~ Has(o, "cache") /\ LockedCopy(o, PoolOf(Asked(th)), Found(th))
  BY <1>2 DEF Proceeds
<1>4. store'[o] = [store[o] EXCEPT ![PoolOf(Found(th))] = NoObject] /\ Obj(th)' = o
  BY <1>1, LowerFacts DEF Safe, Moved, Remove, RemoveAt, Ok, Fails, Obj
<1>5. /\ store'[o][PoolOf(Found(th))] = NoObject
      /\ \A other \in Pools \ {PoolOf(Found(th))} : store'[o][other] = store[o][other]
  BY <1>1, <1>4, PlaceFacts, TierFacts DEF Typed
<1>6. Intact(o)'
  BY <1>1, <1>5, TierFacts DEF Safe, Intact, Has
<1>7. ASSUME NEW u \in Movers(o)'
      PROVE  u = th /\ thread'[u].at = "x_dummy" /\ Found(u)' = Found(th)
  <2>1. u \in Movers(o)
    BY <1>1, <1>7 DEF Moved, Movers, Workers, Obj
  <2>2. u = th
    BY <1>1, <1>2, <2>1 DEF Settled
  <2> QED
    BY <2>2 DEF Moved, Found
<1>8. /\ store'[o]["cache"] = NoObject
      /\ store'[o][PoolOf(OtherTier(Found(th)))] # NoObject
      /\ store'[o][PoolOf(OtherTier(Found(th)))].tier = NameOf(Found(th))
  BY <1>1, <1>3, <1>5, TierFacts DEF LockedCopy, Has
<1>9. \E tier \in LowTiers : AdriftFrom(o, tier)'
  <2>1. PICK tier \in LowTiers : tier = Found(th)
    BY <1>1
  <2>2. store'[o][PoolOf(tier)] = NoObject
    BY <1>5, <2>1
  <2>3. AdriftFrom(o, tier)'
    BY <1>7, <1>8, <2>1, <2>2 DEF AdriftFrom, Has
  <2> QED
    BY <2>1, <2>3
<1> QED
  BY <1>6, <1>9 DEF Safe

\* The dummy of an object adrift: the data stays below.
LEMMA XDummySafe ==
  ASSUME Typed, NEW th \in Threads, NEW o \in Objects, o = Obj(th), Safe(o),
         thread[th].at = "x_dummy",
         Moved(th, "x_link", WriteFull(store[o], "cache", Empty).p)
  PROVE  Safe(o)'
<1> DEFINE dummy == [NewObject(Empty) EXCEPT !.data = Empty]
<1>1. th \in Movers(o)
  BY AcrossFacts
<1>2. PICK tier \in LowTiers : AdriftFrom(o, tier)
  BY <1>1 DEF Safe, Settled, Proceeds
<1>3. ~ Has(o, "cache") /\ Found(th) = tier
  BY <1>1, <1>2 DEF AdriftFrom
<1>4. store'[o] = [store[o] EXCEPT !["cache"] = dummy] /\ Found(th)' = tier
  BY <1>3 DEF Moved, WriteFull, Ok, Target, Existing, Has, Found
<1>5. /\ store'[o]["cache"] = dummy
      /\ \A pool \in Lower : store'[o][pool] = store[o][pool]
  BY <1>4, PlaceFacts, TierFacts DEF Typed
<1>6. dummy.redirect = "none" /\ dummy.tier = "none"
  BY DEF NewObject
<1> HIDE DEF dummy
<1>7. Intact(o)'
  BY <1>5 DEF Safe, Intact, Has
<1>8. PoolOf(tier) \in Lower /\ PoolOf(OtherTier(tier)) \in Lower
  BY TierFacts
<1>9. /\ ~ Has(o, PoolOf(tier))'
      /\ Has(o, PoolOf(OtherTier(tier)))'
      /\ store'[o][PoolOf(OtherTier(tier))].tier = NameOf(tier)
  BY <1>2, <1>5, <1>8 DEF AdriftFrom, Has
<1> QED
  BY <1>1, <1>2, <1>4, <1>5, <1>6, <1>7, <1>9, AdriftOn DEF Inside

\* The dummy becomes a redirect; the tier name still is the old one.
LEMMA XLinkSafe ==
  ASSUME Typed, NEW th \in Threads, NEW o \in Objects, o = Obj(th), Safe(o),
         thread[th].at = "x_link",
         SetRedirect(store[o], "cache", PoolOf(Asked(th))).r = "ok",
         Moved(th, "unlock", SetRedirect(store[o], "cache", PoolOf(Asked(th))).p)
  PROVE  Safe(o)'
<1> DEFINE link == [store[o]["cache"] EXCEPT !.redirect = PoolOf(Asked(th)), !.data = Empty]
<1>1. /\ th \in Movers(o) /\ Asked(th) = OtherTier(Found(th))
  BY AcrossFacts
<1>2. PICK tier \in LowTiers : AdriftFrom(o, tier)
  BY <1>1 DEF Safe, Settled, Proceeds
<1>3. Found(th) = tier
  BY <1>1, <1>2 DEF AdriftFrom
<1>4. Has(o, "cache")
  BY DEF SetRedirect, Fails, Has
<1>5. store'[o] = [store[o] EXCEPT !["cache"] = link] /\ Found(th)' = tier
  BY <1>3, <1>4 DEF Moved, SetRedirect, Ok, Has, Found
<1>6. /\ store'[o]["cache"] = link
      /\ \A pool \in Lower : store'[o][pool] = store[o][pool]
  BY <1>5, PlaceFacts, TierFacts DEF Typed
<1>7. link.redirect = PoolOf(OtherTier(tier))
  <2>1. store[o]["cache"] \in Object
    BY <1>4, PlaceFacts, TierFacts DEF Typed
  <2> QED
    BY <1>1, <1>3, <2>1 DEF Object
<1> HIDE DEF link
<1>8. Intact(o)'
  BY <1>6 DEF Safe, Intact, Has
<1>9. PoolOf(tier) \in Lower /\ PoolOf(OtherTier(tier)) \in Lower
  BY TierFacts
<1>10. /\ ~ Has(o, PoolOf(tier))'
       /\ Has(o, PoolOf(OtherTier(tier)))'
       /\ store'[o][PoolOf(OtherTier(tier))].tier = NameOf(tier)
  BY <1>2, <1>6, <1>9 DEF AdriftFrom, Has
<1> QED
  BY <1>1, <1>2, <1>4, <1>5, <1>6, <1>7, <1>8, <1>10, AdriftOn DEF Inside

-----------------------------------------------------------------------------
(* Lock, Unlock and GetLocation.                                           *)

\* Lock and Unlock change the lock of the object they reach, and nothing else.
LEMMA SetLockChanges ==
  ASSUME Typed, NEW o \in Objects, NEW locked \in BOOLEAN,
         SetLock(store[o], "cache", locked).r = "ok",
         store'[o] = SetLock(store[o], "cache", locked).p
  PROVE  /\ \A pool \in Pools :
               /\ Has(o, pool)' <=> Has(o, pool)
               /\ Has(o, pool) => /\ store'[o][pool].data = store[o][pool].data
                                  /\ store'[o][pool].tier = store[o][pool].tier
                                  /\ store'[o][pool].redirect = store[o][pool].redirect
         /\ Reached(store[o], "cache").locked # locked
         /\ Reached(store'[o], "cache").locked = locked
<1> DEFINE q == Target(store[o], "cache")
           obj == [store[o][q] EXCEPT !.locked = locked]
<1>1. store[o] \in Places /\ q \in Pools
  BY PlaceFacts, PlaceTypes, TierFacts DEF Typed
<1>2. store[o][q] # NoObject /\ store[o][q].locked # locked
  BY DEF SetLock, Fails
<1>3. store[o][q] \in Object
  BY <1>1, <1>2 DEF Places
<1>4. store'[o] = [store[o] EXCEPT ![q] = obj]
  BY <1>1, <1>2 DEF SetLock, Ok, Places
<1>5. /\ obj \in Object /\ obj # NoObject
      /\ obj.data = store[o][q].data /\ obj.tier = store[o][q].tier
      /\ obj.redirect = store[o][q].redirect /\ obj.locked = locked
  BY <1>3, RadosAssumption DEF Object
<1> HIDE DEF obj, q
<1>6. /\ store'[o][q] = obj
      /\ \A other \in Pools \ {q} : store'[o][other] = store[o][other]
  BY <1>1, <1>4, PlaceFacts DEF Typed
<1>7. \A pool \in Pools :
         /\ Has(o, pool)' <=> Has(o, pool)
         /\ Has(o, pool) => /\ store'[o][pool].data = store[o][pool].data
                            /\ store'[o][pool].tier = store[o][pool].tier
                            /\ store'[o][pool].redirect = store[o][pool].redirect
  BY <1>2, <1>5, <1>6 DEF Has
<1>8. Target(store'[o], "cache") = q
  BY <1>7, TierFacts DEF Target, Has, q
<1>9. Reached(store[o], "cache") = store[o][q] /\ Reached(store'[o], "cache") = obj
  BY <1>6, <1>8 DEF Reached, q
<1> QED
  BY <1>2, <1>5, <1>7, <1>9

\* So everything but the lock stays true of the places.
LEMMA SetLockKeeps ==
  ASSUME NEW o \in Objects, Safe(o),
         \A pool \in Pools :
               /\ Has(o, pool)' <=> Has(o, pool)
               /\ Has(o, pool) => /\ store'[o][pool].data = store[o][pool].data
                                  /\ store'[o][pool].tier = store[o][pool].tier
                                  /\ store'[o][pool].redirect = store[o][pool].redirect
  PROVE  /\ Intact(o)'
         /\ Leads(o) => Leads(o)'
         /\ \A tier \in LowTiers : AdriftFrom(o, tier) =>
               /\ ~ Has(o, PoolOf(tier))'
               /\ Has(o, PoolOf(OtherTier(tier)))'
               /\ store'[o][PoolOf(OtherTier(tier))].tier = NameOf(tier)
               /\ Has(o, "cache")' =>
                     \/ store'[o]["cache"].redirect = PoolOf(OtherTier(tier))
                     \/ store'[o]["cache"].redirect = "none" /\ store'[o]["cache"].tier = "none"
<1>1. Lower \subseteq Pools /\ "cache" \in Pools
  BY TierFacts
<1>2. \A tier \in LowTiers : PoolOf(tier) \in Pools /\ PoolOf(OtherTier(tier)) \in Pools
  BY TierFacts
<1>3. Intact(o)'
  BY <1>1 DEF Safe, Intact, Has
<1>4. Leads(o) => Leads(o)'
  BY <1>1, <1>2 DEF Leads, Has
<1>5. ASSUME NEW tier \in LowTiers, AdriftFrom(o, tier)
      PROVE  /\ ~ Has(o, PoolOf(tier))'
             /\ Has(o, PoolOf(OtherTier(tier)))'
             /\ store'[o][PoolOf(OtherTier(tier))].tier = NameOf(tier)
             /\ Has(o, "cache")' =>
                   \/ store'[o]["cache"].redirect = PoolOf(OtherTier(tier))
                   \/ store'[o]["cache"].redirect = "none" /\ store'[o]["cache"].tier = "none"
  BY <1>1, <1>2, <1>5 DEF AdriftFrom, Has
<1> QED
  BY <1>3, <1>4, <1>5

\* Lock: nobody else is a mover of a settled object, for it was not locked.
LEMMA LockSafe ==
  ASSUME Typed, NEW th \in Threads, NEW o \in Objects, o = Obj(th), Safe(o),
         thread[th].at = "lock",
         SetLock(store[o], "cache", TRUE).r = "ok",
         Moved(th, "locate", SetLock(store[o], "cache", TRUE).p)
  PROVE  Safe(o)'
<1>1. store'[o] = SetLock(store[o], "cache", TRUE).p /\ Obj(th)' = o
  BY DEF Moved, Obj
<1>2. /\ \A pool \in Pools :
            /\ Has(o, pool)' <=> Has(o, pool)
            /\ Has(o, pool) => /\ store'[o][pool].data = store[o][pool].data
                               /\ store'[o][pool].tier = store[o][pool].tier
                               /\ store'[o][pool].redirect = store[o][pool].redirect
      /\ Reached(store[o], "cache").locked # TRUE
      /\ Reached(store'[o], "cache").locked = TRUE
  BY <1>1, SetLockChanges
<1>3. ASSUME NEW u \in Movers(o)'
      PROVE  /\ u = th => thread'[u].at = "locate"
             /\ u # th => u \in Movers(o) /\ thread'[u] = thread[u] /\ Found(u)' = Found(u)
  BY <1>3 DEF Moved, Movers, Workers, Obj, Found
<1>4. CASE Settled(o)
  <2>1. Leads(o)' /\ Intact(o)'
    BY <1>2, <1>4, SetLockKeeps DEF Settled
  <2>2. Has(o, "cache")
    BY <1>1 DEF SetLock, Fails, Target, Has
  <2>3. Movers(o) = {}
    <3>1. ASSUME NEW u \in Movers(o) PROVE FALSE
      <4>1. Obj(u) = o /\ Proceeds(u)
        BY <1>4, <3>1 DEF Settled, Movers, Workers
      <4> QED
        BY <1>2, <2>2, <4>1 DEF Proceeds
    <3> QED
      BY <3>1
  <2>4. \A u \in Movers(o)' : u = th
    BY <1>3, <2>3
  <2>5. Proceeds(th)'
    <3>1. thread'[th].at = "locate"
      BY DEF Moved
    <3>2. Has(o, "cache")' /\ Reached(store'[o], "cache").locked = TRUE
      BY <1>2, <2>2 DEF Pools
    <3> QED
      BY <1>1, <3>1, <3>2 DEF Proceeds
  <2> QED
    BY <2>1, <2>4, <2>5 DEF Safe, Settled
<1>5. ASSUME NEW tier \in LowTiers, AdriftFrom(o, tier) PROVE Safe(o)'
  <2>1. /\ Intact(o)'
        /\ ~ Has(o, PoolOf(tier))'
        /\ Has(o, PoolOf(OtherTier(tier)))'
        /\ store'[o][PoolOf(OtherTier(tier))].tier = NameOf(tier)
        /\ Has(o, "cache")' =>
              \/ store'[o]["cache"].redirect = PoolOf(OtherTier(tier))
              \/ store'[o]["cache"].redirect = "none" /\ store'[o]["cache"].tier = "none"
    BY <1>2, <1>5, SetLockKeeps
  <2>2. Has(o, "cache")' <=> Has(o, "cache")
    BY <1>2, TierFacts
  <2>3. \A u \in Movers(o)' :
           \/ thread'[u].at = "locate"
           \/ /\ Found(u)' = tier
              /\ thread'[u].at \in {"unlink", "promote", "x_unlink", "x_copy",
                                    "x_dummy", "x_link", "unlock", "unlock_early"}
    BY <1>3, <1>5 DEF AdriftFrom
  <2>4. \A u \in Movers(o)' : thread'[u].at = "x_dummy" => ~ Has(o, "cache")'
    BY <1>3, <1>5, <2>2 DEF AdriftFrom
  <2>5. ASSUME NEW u \in Movers(o)', NEW v \in Movers(o)',
               {thread'[u].at, thread'[v].at} \subseteq {"x_dummy", "x_link"}
        PROVE  u = v
    <3>1. u \in Movers(o) /\ thread'[u] = thread[u] /\ v \in Movers(o) /\ thread'[v] = thread[v]
      BY <1>3, <2>5
    <3> QED
      BY <1>5, <2>5, <3>1 DEF AdriftFrom
  <2>6. AdriftFrom(o, tier)'
    BY <2>1, <2>3, <2>4, <2>5 DEF AdriftFrom, Has
  <2> QED
    BY <2>1, <2>6 DEF Safe
<1> QED
  BY <1>4, <1>5 DEF Safe

\* Unlock: the mover has finished.
LEMMA UnlockSafe ==
  ASSUME Typed, NEW th \in Threads, NEW o \in Objects, o = Obj(th), Safe(o),
         thread[th].at \in {"unlock", "unlock_early"},
         SetLock(store[o], "cache", FALSE).r = "ok",
         NEW next, next \notin Inside, Moved(th, next, SetLock(store[o], "cache", FALSE).p)
  PROVE  Safe(o)'
<1>1. store'[o] = SetLock(store[o], "cache", FALSE).p
  BY DEF Moved
<1>2. \A pool \in Pools :
         /\ Has(o, pool)' <=> Has(o, pool)
         /\ Has(o, pool) => /\ store'[o][pool].data = store[o][pool].data
                            /\ store'[o][pool].tier = store[o][pool].tier
                            /\ store'[o][pool].redirect = store[o][pool].redirect
  BY <1>1, SetLockChanges
<1>3. CASE Settled(o)
  <2>1. Leads(o)' /\ Intact(o)'
    BY <1>2, <1>3, SetLockKeeps DEF Settled
  <2> QED
    BY <1>3, <2>1, SettledOn DEF Inside
<1>4. ASSUME NEW tier \in LowTiers, AdriftFrom(o, tier) PROVE Safe(o)'
  <2>1. /\ Intact(o)'
        /\ ~ Has(o, PoolOf(tier))'
        /\ Has(o, PoolOf(OtherTier(tier)))'
        /\ store'[o][PoolOf(OtherTier(tier))].tier = NameOf(tier)
        /\ Has(o, "cache")' =>
              \/ store'[o]["cache"].redirect = PoolOf(OtherTier(tier))
              \/ store'[o]["cache"].redirect = "none" /\ store'[o]["cache"].tier = "none"
    BY <1>2, <1>4, SetLockKeeps
  <2>2. Has(o, "cache")' => Has(o, "cache")
    BY <1>2, TierFacts
  <2>3. thread[th].at \in Inside /\ next # "x_link" /\ next # "x_dummy"
    BY DEF Inside
  <2>4. store'[o]["cache"] = NoObject \/ Has(o, "cache")'
    BY DEF Has
  <2> QED
    BY <1>4, <2>1, <2>2, <2>3, <2>4, AdriftOn
<1> QED
  BY <1>3, <1>4 DEF Safe

\* GetLocation: the name found is that of the pool the redirect leads to; or,
\* adrift, that of the pool without the object, and nothing will be copied.
LEMMA LocateSafe ==
  ASSUME Typed, NEW th \in Threads, NEW o \in Objects, o = Obj(th), Safe(o),
         thread[th].at = "locate",
         Reached(store[o], "cache") # NoObject,
         NEW tier \in Named(Reached(store[o], "cache").tier), NEW step,
         step = IF tier = Asked(th) THEN "unlock"
                ELSE IF Asked(th) = "FAST" THEN "unlink"
                ELSE IF tier = "FAST" THEN "copy_down"
                ELSE "x_unlink",
         thread' = [thread EXCEPT ![th] = [@ EXCEPT !.at = step, !.tier = tier]],
         store' = store
  PROVE  Safe(o)'
<1>1. th \in Movers(o)
  BY DEF Movers, Workers, Inside
<1>2. tier \in Tiers /\ NameOf(tier) = Reached(store[o], "cache").tier
  BY DEF Named
<1>3. /\ thread'[th].at = step /\ Found(th)' = tier /\ Obj(th)' = o /\ Asked(th)' = Asked(th)
      /\ \A u \in Threads \ {th} : thread'[u] = thread[u]
  <2>1. thread[th] \in [at : Steps, req : Requests, tier : Tiers, r : Results]
    BY BusyTypes DEF Typed
  <2> QED
    BY <2>1 DEF Typed, TypeOK, Found, Obj, Asked
<1>4. ASSUME NEW u \in Movers(o)'
      PROVE  /\ u \in Movers(o)
             /\ u # th => thread'[u] = thread[u] /\ Found(u)' = Found(u)
  BY <1>1, <1>3, <1>4 DEF Movers, Workers, Obj, Found
<1>5. Intact(o)'
  BY DEF Safe, Intact, Has
<1>6. CASE Settled(o)
  <2>1. Leads(o)' /\ Leads(o) /\ Proceeds(th)
    BY <1>1, <1>6 DEF Settled, Leads, Has
  <2>2. Has(o, "cache") /\ Reached(store[o], "cache").locked
    BY <2>1 DEF Proceeds
  <2>3. tier # "FAST" =>
           /\ store[o]["cache"].redirect = PoolOf(tier)
           /\ Has(o, PoolOf(tier))
           /\ store[o][PoolOf(tier)] = Reached(store[o], "cache")
    <3>1. SUFFICES ASSUME tier # "FAST"
                   PROVE  /\ store[o]["cache"].redirect = PoolOf(tier)
                          /\ Has(o, PoolOf(tier))
                          /\ store[o][PoolOf(tier)] = Reached(store[o], "cache")
      OBVIOUS
    <3>2. Reached(store[o], "cache").tier # "fast"
      BY <1>2, <3>1, TierFacts DEF Tiers
    <3>3. PICK low \in LowTiers :
             /\ Target(store[o], "cache") = PoolOf(low)
             /\ store[o]["cache"].redirect = PoolOf(low)
             /\ Reached(store[o], "cache").tier = NameOf(low)
      BY <2>1, <2>2, <3>2, ReachedFacts DEF Typed, Safe
    <3>4. low = tier
      BY <1>2, <3>3, TierFacts DEF LowTiers, Tiers
    <3> QED
      BY <3>3, <3>4 DEF Reached, Has
  <2>4. Proceeds(th)'
    <3>1. CASE tier = "FAST"
      <4>1. step \in {"unlock", "copy_down"} /\ Reached(store[o], "cache").tier = "fast"
        BY <1>2, <3>1, TierFacts
      <4> QED
        BY <1>3, <2>2, <4>1 DEF Proceeds, Has
    <3>2. CASE tier # "FAST"
      <4>1. step \in {"unlock", "unlink", "x_unlink"}
        BY <3>2
      <4>2. store[o][PoolOf(tier)].locked /\ store[o][PoolOf(tier)].tier = NameOf(tier)
        BY <1>2, <2>2, <2>3, <3>2
      <4> QED
        BY <1>3, <2>2, <2>3, <3>2, <4>1, <4>2 DEF Proceeds, LockedCopy, Has
    <3> QED
      BY <3>1, <3>2
  <2>5. \A u \in Movers(o)' : u = th
    BY <1>1, <1>4, <1>6 DEF Settled
  <2> QED
    BY <1>5, <2>1, <2>4, <2>5 DEF Safe, Settled
<1>7. ASSUME NEW low \in LowTiers, AdriftFrom(o, low) PROVE Safe(o)'
  <2>1. Has(o, "cache") /\ store[o]["cache"].redirect = PoolOf(OtherTier(low))
    <3>1. Has(o, "cache")
      BY DEF Reached, Target, Has
    <3>2. \A t \in Tiers : NameOf(t) # "none"
      BY DEF NameOf, Tiers
    <3>3. CASE store[o]["cache"].redirect = "none" /\ store[o]["cache"].tier = "none"
      BY <1>2, <3>2, <3>3 DEF Reached, Target
    <3> QED
      BY <1>7, <3>1, <3>3 DEF AdriftFrom
  <2>2. PoolOf(OtherTier(low)) # "none"
    BY TierFacts DEF Lower
  <2>3. NameOf(tier) = NameOf(low)
    BY <1>2, <1>7, <2>1, <2>2 DEF AdriftFrom, Reached, Target, Has
  <2>4. tier = low /\ tier # "FAST"
    BY <1>2, <2>3, TierFacts DEF LowTiers, Tiers
  <2>5. step \in {"unlock", "unlink", "x_unlink"}
    BY <2>4
  <2>6. \A u \in Movers(o)' :
           \/ thread'[u].at = "locate"
           \/ /\ Found(u)' = low
              /\ thread'[u].at \in {"unlink", "promote", "x_unlink", "x_copy",
                                    "x_dummy", "x_link", "unlock", "unlock_early"}
    BY <1>3, <1>4, <1>7, <2>4, <2>5 DEF AdriftFrom
  <2>7. \A u \in Movers(o)' : thread'[u].at = "x_dummy" => ~ Has(o, "cache")'
    BY <1>3, <1>4, <1>7, <2>5 DEF AdriftFrom, Has
  <2>8. ASSUME NEW u \in Movers(o)', NEW v \in Movers(o)',
               {thread'[u].at, thread'[v].at} \subseteq {"x_dummy", "x_link"}
        PROVE  u = v
    <3>1. u \in Movers(o) /\ thread'[u] = thread[u] /\ v \in Movers(o) /\ thread'[v] = thread[v]
      BY <1>3, <1>4, <2>5, <2>8
    <3> QED
      BY <1>7, <2>8, <3>1 DEF AdriftFrom
  <2>9. AdriftFrom(o, low)'
    BY <1>7, <2>6, <2>7, <2>8 DEF AdriftFrom, Has
  <2> QED
    BY <1>5, <2>9 DEF Safe
<1> QED
  BY <1>6, <1>7 DEF Safe

-----------------------------------------------------------------------------
(* Every step keeps all objects safe.                                      *)

\* What a step of a thread leaves safe is its object and all the others.
LEMMA AllElsewhere ==
  ASSUME NEW th \in Threads, NEW next, NEW p, Moved(th, next, p), AllSafe,
         NEW o \in Objects, o = Obj(th), Safe(o)'
  PROVE  AllSafe'
BY Elsewhere DEF AllSafe

\* When the process ends there are no movers.
LEMMA AbortSafe ==
  ASSUME AllSafe, store' = store, \A th \in Threads : thread'[th] = IdleThread
  PROVE  AllSafe'
BY Frame DEF AllSafe, Movers, IdleThread, Inside

\* The moves to the fast tier: each operation succeeds or fails.
LEMMA MoveUpSafe ==
  ASSUME Typed, AllSafe, NEW th \in Threads, MoveUp(th)
  PROVE  AllSafe'
<1>1. /\ thread[th].at \in {"unlink", "promote", "rm_source"}
      /\ thread[th].req.op = "move" /\ Asked(th) = "FAST" /\ Found(th) # "FAST"
  BY DEF MoveUp, Unlink, Promote, RmSource, Operate, OperateOn, At, Typed, Fits, FitsAt, Inside
<1>2. PICK o \in Objects : o = Obj(th) /\ Place(th) = store[o] /\ store[o] \in Places
  BY <1>1, BusyTypes DEF Typed, Place
<1>3. {"cache", PoolOf(Found(th))} \subseteq Pools
  BY <1>1, BusyTypes DEF Typed, Pools, PoolOf, Tiers
<1>4. /\ RemoveAt(store[o], "cache") \in Answer
      /\ CopyFromTier(store[o], "cache", PoolOf(Found(th)), "fast") \in Answer
      /\ Remove(store[o], PoolOf(Found(th))) \in Answer
  BY <1>2, <1>3, RemoveTypes, CopyTypes DEF TierNames
<1>10. /\ RemoveAt(store[o], "cache").r # "ok" => RemoveAt(store[o], "cache").p = store[o]
       /\ CopyFromTier(store[o], "cache", PoolOf(Found(th)), "fast").r # "ok" =>
             CopyFromTier(store[o], "cache", PoolOf(Found(th)), "fast").p = store[o]
       /\ Remove(store[o], PoolOf(Found(th))).r # "ok" =>
             Remove(store[o], PoolOf(Found(th))).p = store[o]
  BY DEF RemoveAt, Remove, CopyFromTier, Ok, Fails
<1>5. {"unlink", "promote", "rm_source", "unlock", "unlock_early"} \subseteq Steps \ {"idle"}
  BY DEF Steps
<1>6. Safe(o) /\ {"unlink", "promote", "rm_source"} \subseteq Inside \ {"locate"}
  BY DEF AllSafe, Inside
<1>7. CASE Unlink(th)
  <2> DEFINE answer == RemoveAt(store[o], "cache")
  <2>1. \/ answer.r = "ok" /\ Moved(th, "promote", answer.p)
        \/ Moved(th, "unlock_early", store[o])
    <3>1. OperateOn("cache", th, "unlink", answer, "promote", "unlock_early")
      BY <1>2, <1>7 DEF Operate, Unlink
    <3>2. answer \in Answer /\ (answer.r # "ok" => answer.p = Place(th))
      BY <1>2, <1>4, <1>10
    <3> HIDE DEF answer
    <3> QED
      BY <1>2, <1>5, <3>1, <3>2, OperateMoves DEF Typed
  <2>2. thread[th].at = "unlink"
    BY <1>7 DEF Unlink, Operate, OperateOn, At
  <2>3. Safe(o)'
    BY <1>2, <1>6, <2>1, <2>2, UnlinkSafe, GivesUp
  <2> QED
    BY <1>2, <2>1, <2>3, AllElsewhere
<1>8. CASE Promote(th)
  <2> DEFINE answer == CopyFromTier(store[o], "cache", PoolOf(Found(th)), "fast")
  <2>1. \/ answer.r = "ok" /\ Moved(th, "rm_source", answer.p)
        \/ Moved(th, "unlock", store[o])
    <3>1. OperateOn("cache", th, "promote", answer, "rm_source", "unlock")
      BY <1>2, <1>8 DEF Operate, Promote
    <3>2. answer \in Answer /\ (answer.r # "ok" => answer.p = Place(th))
      BY <1>2, <1>4, <1>10
    <3> HIDE DEF answer
    <3> QED
      BY <1>2, <1>5, <3>1, <3>2, OperateMoves DEF Typed
  <2>2. thread[th].at = "promote"
    BY <1>8 DEF Promote, Operate, OperateOn, At
  <2>3. Safe(o)'
    BY <1>2, <1>6, <2>1, <2>2, PromoteSafe, GivesUp
  <2> QED
    BY <1>2, <2>1, <2>3, AllElsewhere
<1>9. CASE RmSource(th)
  <2> DEFINE answer == Remove(store[o], PoolOf(Found(th)))
  <2>1. \/ answer.r = "ok" /\ Moved(th, "unlock", answer.p)
        \/ Moved(th, "unlock", store[o])
    <3>1. OperateOn("cache", th, "rm_source", answer, "unlock", "unlock")
      BY <1>2, <1>9 DEF Operate, RmSource
    <3>2. answer \in Answer /\ (answer.r # "ok" => answer.p = Place(th))
      BY <1>2, <1>4, <1>10
    <3> HIDE DEF answer
    <3> QED
      BY <1>2, <1>5, <3>1, <3>2, OperateMoves DEF Typed
  <2>2. thread[th].at = "rm_source"
    BY <1>9 DEF RmSource, Operate, OperateOn, At
  <2>3. Safe(o)'
    BY <1>2, <1>6, <2>1, <2>2, RmSourceSafe, GivesUp
  <2> QED
    BY <1>2, <2>1, <2>3, AllElsewhere
<1> QED
  BY <1>7, <1>8, <1>9 DEF MoveUp

\* The moves from the fast tier down.
LEMMA MoveDownSafe ==
  ASSUME Typed, AllSafe, NEW th \in Threads, MoveDown(th)
  PROVE  AllSafe'
<1>1. /\ thread[th].at \in {"copy_down", "replace"}
      /\ thread[th].req.op = "move" /\ Asked(th) # "FAST"
  BY DEF MoveDown, CopyDown, CopyDownOn, Replace, OperateShadowed, OperateShadowedOn, At, Typed, Fits, FitsAt, Inside
<1>2. PICK o \in Objects : o = Obj(th) /\ Place(th) = store[o] /\ store[o] \in Places
  BY <1>1, BusyTypes DEF Typed, Place
<1>3. PoolOf(Asked(th)) \in {"storage", "archive"}
  BY <1>1, AskedTypes DEF Typed
<1>4. Safe(o) /\ {"copy_down", "replace"} \subseteq Inside \ {"locate"}
  BY DEF AllSafe, Inside
<1>5. CASE CopyDown(th)
  <2> DEFINE answer == CopyFrom(store[o], PoolOf(Asked(th)), "cache")
  <2>1. answer \in Answer /\ (answer.r # "ok" => answer.p = store[o])
    <3>1. answer.r # "ok" => answer.p = store[o]
      BY DEF CopyFrom, Ok, Fails
    <3> QED
      BY <1>2, <1>3, <3>1, CopyTypes DEF Pools, TierNames
  <2>2. PICK a \in Answers(th, answer) :
           /\ store' = [store EXCEPT ![Obj(th)] = a.p]
           /\ Goto(th, IF a.r = "ok" THEN "replace" ELSE "unlock")
    BY <1>2, <1>5 DEF CopyDown, CopyDownOn
  <2>3. /\ a.r = "eio" => a.p = store[o]
        /\ a.r # "eio" => a = answer
    BY <1>1, <1>2, <2>1, AnswersTypes DEF Typed
  <2>4. /\ store'[o] = a.p
        /\ \A other \in Objects \ {o} : store'[other] = store[other]
    BY <1>2, <2>2 DEF Typed, TypeOK
  <2>5. {"replace", "unlock"} \subseteq Steps /\ "ok" \in Results
    BY DEF Steps, Results
  <2>6. Moved(th, IF a.r = "ok" THEN "replace" ELSE "unlock", a.p)
    BY <1>1, <1>2, <2>2, <2>4, <2>5, GotoTypes DEF Moved, Typed, At
  <2>7. \/ answer.r = "ok" /\ Moved(th, "replace", answer.p)
        \/ Moved(th, "unlock", store[o])
    BY <2>1, <2>3, <2>6
  <2>8. thread[th].at = "copy_down"
    BY <1>5 DEF CopyDown, CopyDownOn, At
  <2>9. Safe(o)'
    BY <1>2, <1>4, <2>7, <2>8, CopyDownSafe, GivesUp
  <2> QED
    BY <1>2, <2>7, <2>9, AllElsewhere
<1>6. CASE Replace(th)
  <2> DEFINE name == IF Asked(th) = "SLOW" THEN "storage" ELSE "archive"
             answer == SetRedirectIf(store[o], "cache", th \in current, PoolOf(Asked(th)), name)
  <2>1. name \in TierNames /\ (th \in current) \in BOOLEAN /\ "cache" \in Pools
    BY DEF TierNames, Pools
  <2>2. answer \in Answer /\ (answer.r # "ok" => answer.p = store[o])
    <3>1. answer.r # "ok" => answer.p = store[o]
      BY DEF SetRedirectIf, Ok, Fails
    <3> HIDE DEF name
    <3> QED
      BY <1>2, <1>3, <2>1, <3>1, RedirectTypes
  <2>3. OperateShadowedOn("cache", th, "replace", answer, "unlock", "copy_down")
    BY <1>2, <1>6 DEF OperateShadowed, Replace
  <2>4. {"replace", "unlock", "copy_down"} \subseteq Steps \ {"idle"}
    BY DEF Steps
  <2>5. thread[th].at = "replace"
    BY <1>6 DEF Replace, OperateShadowed, OperateShadowedOn, At
  <2>6. \/ answer.r = "ok" /\ Moved(th, "unlock", answer.p)
        \/ Moved(th, "copy_down", store[o])
    <3> HIDE DEF answer
    <3> QED
      BY <1>2, <2>2, <2>3, <2>4, OperateMoves DEF Typed
  <2>7. CASE answer.r = "ok" /\ Moved(th, "unlock", answer.p)
    <3> HIDE DEF name
    <3>1. Safe(o)'
      BY <1>2, <1>4, <2>1, <2>5, <2>7, ReplaceSafe
    <3> QED
      BY <1>2, <2>7, <3>1, AllElsewhere
  <2>8. CASE Moved(th, "copy_down", store[o])
    <3>1. Safe(o)'
      BY <1>2, <1>4, <2>5, <2>8, ReplaceAgainSafe
    <3> QED
      BY <1>2, <2>8, <3>1, AllElsewhere
  <2> QED
    BY <2>6, <2>7, <2>8
<1> QED
  BY <1>5, <1>6 DEF MoveDown

\* The moves between storage and archive.  x_dummy and x_link may fail and
\* leave the object without a way to it, but not without a copy.
LEMMA MoveAcrossSafe ==
  ASSUME Typed, AllSafe, NEW th \in Threads, MoveAcross(th)
  PROVE  AllSafe'
<1> DEFINE across == {"x_unlink", "x_copy", "x_remove", "x_dummy", "x_link"}
<1>1. thread[th].at \in across
  BY DEF MoveAcross, XUnlink, XCopy, XRemove, XDummy, XLink, Operate, OperateOn, OperateShadowed, OperateShadowedOn, At
<1>2. PICK o \in Objects : o = Obj(th) /\ Place(th) = store[o] /\ store[o] \in Places
  BY <1>1, BusyTypes DEF Typed, Place
<1>3. {PoolOf(Found(th)), PoolOf(Asked(th))} \subseteq {"storage", "archive"}
  BY <1>1, AcrossFacts DEF Lower
<1>4. /\ RemoveAt(store[o], "cache") \in Answer
      /\ CopyFrom(store[o], PoolOf(Asked(th)), PoolOf(Found(th))) \in Answer
      /\ Remove(store[o], PoolOf(Found(th))) \in Answer
      /\ WriteFull(store[o], "cache", Empty) \in Answer
      /\ SetRedirect(store[o], "cache", PoolOf(Asked(th))) \in Answer
  BY <1>2, <1>3, RemoveTypes, CopyTypes, WriteTypes, RedirectTypes DEF TierNames, Pools
<1>12. /\ RemoveAt(store[o], "cache").r # "ok" => RemoveAt(store[o], "cache").p = store[o]
       /\ CopyFrom(store[o], PoolOf(Asked(th)), PoolOf(Found(th))).r # "ok" =>
             CopyFrom(store[o], PoolOf(Asked(th)), PoolOf(Found(th))).p = store[o]
       /\ Remove(store[o], PoolOf(Found(th))).r # "ok" =>
             Remove(store[o], PoolOf(Found(th))).p = store[o]
       /\ WriteFull(store[o], "cache", Empty).r = "ok"
       /\ SetRedirect(store[o], "cache", PoolOf(Asked(th))).r # "ok" =>
             SetRedirect(store[o], "cache", PoolOf(Asked(th))).p = store[o]
  BY DEF RemoveAt, Remove, CopyFrom, WriteFull, SetRedirect, Ok, Fails
<1>5. across \cup {"unlock", "finish"} \subseteq Steps \ {"idle"}
  BY DEF Steps
<1>6. Safe(o) /\ across \subseteq Inside \ {"locate"} /\ "finish" \notin Inside
  BY DEF AllSafe, Inside
<1>7. CASE XUnlink(th)
  <2> DEFINE answer == RemoveAt(store[o], "cache")
  <2>1. \/ answer.r = "ok" /\ Moved(th, "x_copy", answer.p)
        \/ Moved(th, "unlock", store[o])
    <3>1. OperateOn("cache", th, "x_unlink", answer, "x_copy", "unlock")
      BY <1>2, <1>7 DEF Operate, XUnlink
    <3>2. answer \in Answer /\ (answer.r # "ok" => answer.p = Place(th))
      BY <1>2, <1>4, <1>12
    <3> HIDE DEF answer
    <3> QED
      BY <1>2, <1>5, <3>1, <3>2, OperateMoves DEF Typed
  <2>2. thread[th].at = "x_unlink"
    BY <1>7 DEF XUnlink, Operate, OperateOn, At
  <2>3. Safe(o)'
    BY <1>2, <1>6, <2>1, <2>2, UnlinkSafe, GivesUp
  <2> QED
    BY <1>2, <2>1, <2>3, AllElsewhere
<1>8. CASE XCopy(th)
  <2> DEFINE answer == CopyFrom(store[o], PoolOf(Asked(th)), PoolOf(Found(th)))
  <2>1. \/ answer.r = "ok" /\ Moved(th, "x_remove", answer.p)
        \/ Moved(th, "unlock", store[o])
    <3>1. OperateShadowedOn("cache", th, "x_copy", answer, "x_remove", "unlock")
      BY <1>2, <1>8 DEF OperateShadowed, XCopy
    <3>2. answer \in Answer /\ (answer.r # "ok" => answer.p = Place(th))
      BY <1>2, <1>4, <1>12
    <3> HIDE DEF answer
    <3> QED
      BY <1>2, <1>5, <3>1, <3>2, OperateMoves DEF Typed
  <2>2. thread[th].at = "x_copy"
    BY <1>8 DEF XCopy, OperateShadowed, OperateShadowedOn, At
  <2>3. Safe(o)'
    BY <1>2, <1>6, <2>1, <2>2, XCopySafe, GivesUp
  <2> QED
    BY <1>2, <2>1, <2>3, AllElsewhere
<1>9. CASE XRemove(th)
  <2> DEFINE answer == Remove(store[o], PoolOf(Found(th)))
  <2>1. \/ answer.r = "ok" /\ Moved(th, "x_dummy", answer.p)
        \/ Moved(th, "unlock", store[o])
    <3>1. OperateOn("cache", th, "x_remove", answer, "x_dummy", "unlock")
      BY <1>2, <1>9 DEF Operate, XRemove
    <3>2. answer \in Answer /\ (answer.r # "ok" => answer.p = Place(th))
      BY <1>2, <1>4, <1>12
    <3> HIDE DEF answer
    <3> QED
      BY <1>2, <1>5, <3>1, <3>2, OperateMoves DEF Typed
  <2>2. thread[th].at = "x_remove"
    BY <1>9 DEF XRemove, Operate, OperateOn, At
  <2>3. Safe(o)'
    BY <1>2, <1>6, <2>1, <2>2, XRemoveSafe, GivesUp
  <2> QED
    BY <1>2, <2>1, <2>3, AllElsewhere
<1>10. CASE XDummy(th)
  <2> DEFINE answer == WriteFull(store[o], "cache", Empty)
  <2>1. \/ answer.r = "ok" /\ Moved(th, "x_link", answer.p)
        \/ Moved(th, "finish", store[o])
    <3>1. OperateOn("cache", th, "x_dummy", answer, "x_link", "finish")
      BY <1>2, <1>10 DEF Operate, XDummy
    <3>2. answer \in Answer /\ (answer.r # "ok" => answer.p = Place(th))
      BY <1>2, <1>4, <1>12
    <3> HIDE DEF answer
    <3> QED
      BY <1>2, <1>5, <3>1, <3>2, OperateMoves DEF Typed
  <2>2. thread[th].at = "x_dummy"
    BY <1>10 DEF XDummy, Operate, OperateOn, At
  <2>3. Safe(o)'
    BY <1>2, <1>6, <2>1, <2>2, XDummySafe, Leaves
  <2> QED
    BY <1>2, <2>1, <2>3, AllElsewhere
<1>11. CASE XLink(th)
  <2> DEFINE answer == SetRedirect(store[o], "cache", PoolOf(Asked(th)))
  <2>1. \/ answer.r = "ok" /\ Moved(th, "unlock", answer.p)
        \/ Moved(th, "finish", store[o])
    <3>1. OperateOn("cache", th, "x_link", answer, "unlock", "finish")
      BY <1>2, <1>11 DEF Operate, XLink
    <3>2. answer \in Answer /\ (answer.r # "ok" => answer.p = Place(th))
      BY <1>2, <1>4, <1>12
    <3> HIDE DEF answer
    <3> QED
      BY <1>2, <1>5, <3>1, <3>2, OperateMoves DEF Typed
  <2>2. thread[th].at = "x_link"
    BY <1>11 DEF XLink, Operate, OperateOn, At
  <2>3. Safe(o)'
    BY <1>2, <1>6, <2>1, <2>2, XLinkSafe, Leaves
  <2> QED
    BY <1>2, <2>1, <2>3, AllElsewhere
<1> QED
  BY <1>7, <1>8, <1>9, <1>10, <1>11 DEF MoveAcross

\* Lock and Unlock: the operation succeeds, or the process ends.
LEMMA LockingSafe ==
  ASSUME Typed, AllSafe, NEW th \in Threads, Lock(th) \/ Unlock(th)
  PROVE  AllSafe'
<1>1. thread[th].at \in {"lock", "unlock", "unlock_early"}
  BY DEF Lock, LockOn, Unlock, UnlockOn, OperateAsserted, OperateAssertedOn, At
<1>2. PICK o \in Objects : o = Obj(th) /\ Place(th) = store[o] /\ store[o] \in Places
  BY <1>1, BusyTypes DEF Typed, Place
<1>3. \A locked \in BOOLEAN : SetLock(store[o], "cache", locked) \in Answer
  BY <1>2, LockTypes DEF Pools
<1>4. Safe(o) /\ "ok" \in Results
  BY DEF AllSafe, Results
<1>5. PICK locked \in BOOLEAN, after \in {"locate", "finish", "early"} :
      \E a \in Answers(th, SetLock(store[o], "cache", locked)) :
         /\ \/ thread[th].at = "lock" /\ locked = TRUE /\ after = "locate"
            \/ /\ thread[th].at \in {"unlock", "unlock_early"} /\ locked = FALSE
               /\ after \in {"finish", "early"}
         /\ \/ a.r = "ok" /\ Takes(th, a) /\ Goto(th, after)
            \/ Abort /\ store' = store
  <2>1. CASE Lock(th)
    BY <1>2, <2>1 DEF Lock, LockOn, OperateAssertedOn, AbortAfter, Takes, At
  <2>2. CASE Unlock(th)
    BY <1>2, <2>2 DEF Unlock, UnlockOn, OperateAssertedOn, AbortAfter, Takes, At
  <2> QED
    BY <2>1, <2>2
<1>6. PICK a \in Answers(th, SetLock(store[o], "cache", locked)) :
         /\ \/ thread[th].at = "lock" /\ locked = TRUE /\ after = "locate"
            \/ /\ thread[th].at \in {"unlock", "unlock_early"} /\ locked = FALSE
               /\ after \in {"finish", "early"}
         /\ \/ a.r = "ok" /\ Takes(th, a) /\ Goto(th, after)
            \/ Abort /\ store' = store
  BY <1>5
<1>7. CASE Abort /\ store' = store
  BY <1>7, AbortSafe DEF Abort
<1>8. CASE a.r = "ok" /\ Takes(th, a) /\ Goto(th, after)
  <2> DEFINE answer == SetLock(store[o], "cache", locked)
  <2>1. answer \in Answer
    BY <1>3
  <2> HIDE DEF answer
  <2>2. a = answer /\ a.p \in Places
    BY <1>1, <1>6, <1>8, <2>1, AnswersTypes DEF Typed, answer
  <2>3. after \in Steps
    BY DEF Steps
  <2>4. Moved(th, after, answer.p) /\ answer.r = "ok"
    BY <1>1, <1>4, <1>8, <2>2, <2>3, TakesMoves DEF Takes, Typed
  <2>5. CASE thread[th].at = "lock"
    BY <1>2, <1>4, <1>6, <2>4, <2>5, LockSafe, AllElsewhere DEF answer
  <2>6. CASE thread[th].at \in {"unlock", "unlock_early"}
    BY <1>2, <1>4, <1>6, <2>4, <2>6, UnlockSafe, AllElsewhere DEF answer, Inside
  <2> QED
    BY <1>6, <2>5, <2>6
<1> QED
  BY <1>6, <1>7, <1>8

\* GetLocation finds a tier, or the process ends.
LEMMA LocatingSafe ==
  ASSUME Typed, AllSafe, NEW th \in Threads, Locate(th)
  PROVE  AllSafe'
<1>1. thread[th].at = "locate"
  BY DEF Locate, LocateOn, At
<1>2. PICK o \in Objects : o = Obj(th) /\ Place(th) = store[o] /\ Safe(o)
  BY <1>1, BusyTypes DEF Typed, Place, AllSafe
<1> DEFINE object == Reached(store[o], "cache")
<1>3. CASE Abort /\ store' = store
  BY <1>3, AbortSafe DEF Abort
<1>4. ASSUME object # NoObject, NEW tier \in Named(object.tier), NEW step,
             step = IF tier = Asked(th) THEN "unlock"
                    ELSE IF Asked(th) = "FAST" THEN "unlink"
                    ELSE IF tier = "FAST" THEN "copy_down"
                    ELSE "x_unlink",
             thread' = [thread EXCEPT ![th] = [@ EXCEPT !.at = step, !.tier = tier]],
             store' = store
      PROVE  AllSafe'
  <2>1. Safe(o)'
    BY <1>1, <1>2, <1>4, LocateSafe
  <2>2. /\ thread'[th].req = thread[th].req
        /\ \A u \in Threads \ {th} : thread'[u] = thread[u]
    <3>1. thread[th] \in [at : Steps, req : Requests, tier : Tiers, r : Results]
      BY <1>1, BusyTypes DEF Typed
    <3> QED
      BY <1>4, <3>1 DEF Typed, TypeOK
  <2>3. ASSUME NEW other \in Objects \ {o} PROVE Safe(other)'
    <3>1. \A u \in Movers(other)' : thread'[u] = thread[u]
      BY <1>2, <2>2 DEF Movers, Workers, Obj
    <3> QED
      BY <1>4, <3>1, Frame DEF AllSafe, Movers, Workers
  <2> QED
    BY <2>1, <2>3 DEF AllSafe
<1> DEFINE next == [tier \in Tiers |-> IF tier = Asked(th) THEN "unlock"
                                        ELSE IF Asked(th) = "FAST" THEN "unlink"
                                        ELSE IF tier = "FAST" THEN "copy_down"
                                        ELSE "x_unlink"]
<1>5. LocateOn("cache", th, next)
  BY DEF Locate
<1>6. ASSUME object # NoObject, NEW tier \in Named(object.tier),
             thread' = [thread EXCEPT ![th] = [@ EXCEPT !.at = next[tier], !.tier = tier]],
             store' = store
      PROVE  AllSafe'
  <2>1. tier \in Tiers
    BY DEF Named
  <2> QED
    BY <1>4, <1>6, <2>1
<1> HIDE DEF next
<1> QED
  BY <1>2, <1>3, <1>5, <1>6 DEF LocateOn, AbortAfter

\* Steps of a thread that is not moving an object.
LEMMA AsideSafe ==
  ASSUME AllSafe, store' = store,
         \A th \in Threads : thread'[th] = thread[th] \/ thread'[th].at \notin Inside
  PROVE  AllSafe'
BY Frame DEF AllSafe, Movers

\* Read changes nothing.
LEMMA ReadSafe ==
  ASSUME Typed, AllSafe, NEW th \in Threads, Read(th)
  PROVE  AllSafe'
<1> DEFINE answer == IF Reached(Place(th), "cache") = NoObject THEN Fails(Place(th), "enoent")
                                                              ELSE Ok(Place(th), "none")
<1>1. thread[th].at = "read"
  BY DEF Read, ReadOn, Operate, OperateOn, At
<1>2. PICK o \in Objects : o = Obj(th) /\ Place(th) = store[o] /\ store[o] \in Places /\ Safe(o)
  BY <1>1, BusyTypes DEF Typed, Place, AllSafe
<1>3. answer \in Answer /\ answer.p = store[o]
  <2>1. Fails(store[o], "enoent") \in Answer /\ Ok(store[o], "none") \in Answer
    BY <1>2, AnswerTypes
  <2> QED
    BY <1>2, <2>1 DEF Fails, Ok
<1>4. OperateOn("cache", th, "read", answer, "finish", "finish")
  BY DEF Read, ReadOn
<1> HIDE DEF answer
<1>5. {"read", "finish"} \subseteq Steps \ {"idle"} /\ "finish" \notin Inside
  BY DEF Steps, Inside
<1>6. Moved(th, "finish", store[o])
  BY <1>2, <1>3, <1>4, <1>5, OperateMoves DEF Typed
<1> QED
  BY <1>2, <1>5, <1>6, Leaves, AllElsewhere

\* An operation begins outside the lock.
LEMMA StartSafe ==
  ASSUME Typed, AllSafe, NEW th \in Threads, NEW req \in Requests, Start(th, req)
  PROVE  AllSafe'
<1>1. FirstStep(req) \notin Inside
  BY ObjectMoverAssumption DEF Request, FirstStep, Inside
<1>2. \A u \in Threads : thread'[u] = thread[u] \/ thread'[u].at = FirstStep(req)
  BY DEF Start, Begin, Typed, TypeOK
<1> QED
  BY <1>1, <1>2, AsideSafe DEF Start, Begin

\* An operation ends outside the lock.
LEMMA EndSafe ==
  ASSUME Typed, AllSafe, NEW th \in Threads, End(th)
  PROVE  AllSafe'
<1>1. \A u \in Threads : thread'[u] = thread[u] \/ thread'[u] = IdleThread
  BY DEF End, Typed, TypeOK
<1>2. IdleThread.at \notin Inside
  BY DEF IdleThread, Inside
<1> QED
  BY <1>1, <1>2, AsideSafe DEF End

\* Only moves and reads are under way.
LEMMA OnlyMovers ==
  ASSUME OnlyMoves, Typed, NEW th \in Threads
  PROVE  ~ Create(th) /\ ~ Delete(th)
<1>1. SUFFICES ASSUME Create(th) \/ Delete(th) PROVE FALSE
  OBVIOUS
<1>2. thread[th].at \in {"write", "dummy", "link", "rm_target", "rm_self"}
  BY <1>1 DEF Create, Write, Dummy, Link, Delete, RmTarget, RmSelf, Operate, OperateOn, At
<1>3. thread[th].req.op \in {"create", "delete"}
  BY <1>2 DEF Typed, Fits, FitsAt
<1>4. thread[th].req \in Requests
  BY <1>2, BusyTypes DEF Typed
<1> QED
  BY <1>3, <1>4 DEF OnlyMoves

\* Objects are where Create left them, and no mover is under way.
LEMMA SafeInit ==
  ASSUME OnlyMoves, Init
  PROVE  AllSafe
<1> SUFFICES ASSUME NEW o \in Objects PROVE Safe(o)
  BY DEF AllSafe
<1>1. Movers(o) = {}
  BY DEF Init, AtRest, Movers, Workers, IdleThread, Inside
<1>2. PICK tier \in Tiers : store[o] = Created(tier, InitialData)
  BY ObjectMoverAssumption DEF Init, AtRest, InitialPlaces, OnlyMoves
<1> DEFINE obj == [NewObject(InitialData) EXCEPT !.tier = NameOf(tier)]
           link == [NewObject(Empty) EXCEPT !.redirect = PoolOf(tier)]
<1>3. obj.data = InitialData /\ obj.redirect = "none" /\ obj.tier = NameOf(tier)
  BY DEF NewObject
<1>4. link.redirect = PoolOf(tier)
  BY DEF NewObject
<1>5. obj \in Object /\ obj # NoObject /\ (tier # "FAST" => link # NoObject)
  <2>1. obj \in Object
    BY ObjectMoverAssumption DEF NewObject, Object, NameOf, Tiers, TierNames
  <2>2. tier # "FAST" => link \in Object
    BY DEF NewObject, Object, PoolOf, Tiers, TierNames
  <2> QED
    BY <2>1, <2>2, RadosAssumption
<1> HIDE DEF obj, link
<1>6. CASE tier = "FAST"
  <2>1. store[o] = [Nowhere EXCEPT !["cache"] = obj]
    BY <1>2, <1>6 DEF Created, obj
  <2>2. /\ store[o]["cache"] = obj
        /\ \A pool \in Lower : store[o][pool] = NoObject
    BY <2>1 DEF Nowhere, Lower, Pools
  <2>3. Leads(o) /\ Intact(o)
    BY <1>3, <1>5, <1>6, <2>2, TierFacts DEF Leads, Intact, Has
  <2> QED
    BY <1>1, <2>3 DEF Safe, Settled
<1>7. CASE tier # "FAST"
  <2>1. store[o] = [Nowhere EXCEPT !["cache"] = link, ![PoolOf(tier)] = obj]
    BY <1>2, <1>7 DEF Created, obj, link
  <2>2. tier \in LowTiers /\ PoolOf(tier) \in Lower
    BY <1>7, TierFacts
  <2>3. /\ store[o]["cache"] = link
        /\ store[o][PoolOf(tier)] = obj
        /\ \A pool \in Lower \ {PoolOf(tier)} : store[o][pool] = NoObject
    BY <2>1, <2>2 DEF Nowhere, Lower, Pools
  <2>4. Leads(o) /\ Intact(o)
    BY <1>3, <1>4, <1>5, <1>7, <2>2, <2>3 DEF Leads, Intact, Has
  <2> QED
    BY <1>1, <2>4 DEF Safe, Settled
<1> QED
  BY <1>6, <1>7

\* With moves and reads alone every step keeps all objects safe.
LEMMA SafeStep ==
  ASSUME OnlyMoves, Typed, AllSafe, [Next]_vars
  PROVE  AllSafe'
<1>1. ASSUME NEW th \in Threads, Work(th) PROVE AllSafe'
  BY <1>1, OnlyMovers, ReadSafe, LockingSafe, LocatingSafe, MoveUpSafe, MoveDownSafe,
     MoveAcrossSafe, EndSafe DEF Work, Serve
<1>2. ASSUME NEW o \in Objects, NEW data \in Writers PROVE FALSE
  BY <1>2 DEF OnlyMoves
<1>3. CASE Crash
  BY <1>3, AbortSafe DEF Crash
<1>4. CASE Restart
  BY <1>4, AsideSafe DEF Restart
<1>5. CASE UNCHANGED vars
  BY <1>5, AsideSafe DEF vars
<1> QED
  BY <1>1, <1>2, <1>3, <1>4, <1>5, StartSafe DEF Next

\* A safe object is in some pool with its data.
LEMMA SafeKeeps == ASSUME AllSafe PROVE DataKept
<1> SUFFICES ASSUME NEW o \in Objects
             PROVE  \E pool \in Pools : /\ store[o][pool] # NoObject
                                        /\ store[o][pool].data = InitialData
  BY DEF DataKept
<1>1. Safe(o)
  BY DEF AllSafe
<1>2. \/ \E pool \in Lower : Has(o, pool)
      \/ Has(o, "cache") /\ store[o]["cache"].data = InitialData
  BY <1>1, TierFacts DEF Safe, Settled, Leads, AdriftFrom
<1> QED
  BY <1>1, <1>2, TierFacts DEF Safe, Intact, Has

\* Whatever moves and reads do, between whichever tiers, wherever operations
\* fail and the process stops: some pool has each object with its data.
THEOREM MovesKeepData == ASSUME OnlyMoves PROVE Spec => []DataKept
<1>1. Init => Typed /\ AllSafe
  BY TypedInit, SafeInit
<1>2. Typed /\ AllSafe /\ [Next]_vars => (Typed /\ AllSafe)'
  BY TypedStep, SafeStep
<1> QED
  BY <1>1, <1>2, SafeKeeps, PTL DEF Spec

-----------------------------------------------------------------------------
(* The lock excludes as long as objects have their names.                  *)

\* A safe object has at most one mover, or the name of a tier it left.
LEMMA SafeExcludes == ASSUME AllSafe PROVE LockExclusion
<1> SUFFICES ASSUME NEW o \in Objects, ~ Misnamed(o) PROVE Cardinality(Movers(o)) <= 1
  BY DEF LockExclusion, Movers
<1>1. Settled(o)
  <2>1. ASSUME NEW tier \in LowTiers, AdriftFrom(o, tier) PROVE Misnamed(o)
    BY <2>1 DEF AdriftFrom, Has, Misnamed, LowTiers, OtherTier
  <2> QED
    BY <2>1 DEF AllSafe, Safe
<1>2. CASE Movers(o) = {}
  BY <1>2, FS_EmptySet
<1>3. ASSUME NEW th \in Movers(o) PROVE Cardinality(Movers(o)) = 1
  <2>1. Movers(o) = {th}
    BY <1>1, <1>3 DEF Settled
  <2> QED
    BY <2>1, FS_Singleton
<1> QED
  BY <1>2, <1>3

\* The lock that a move takes in the object excludes all other moves of that
\* object, although the object that carries it is copied, removed and replaced
\* in the meantime - unless a move between slow tier and archive left the
\* object under a name that leads every later mover astray.
THEOREM LockExcludes == ASSUME OnlyMoves PROVE Spec => []LockExclusion
<1>1. Init => Typed /\ AllSafe
  BY TypedInit, SafeInit
<1>2. Typed /\ AllSafe /\ [Next]_vars => (Typed /\ AllSafe)'
  BY TypedStep, SafeStep
<1> QED
  BY <1>1, <1>2, SafeExcludes, PTL DEF Spec
=============================================================================
