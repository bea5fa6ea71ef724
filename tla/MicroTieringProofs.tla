-------------------------- MODULE MicroTieringProofs --------------------------
(***************************************************************************)
(* Proofs about the steps of MicroTiering.  Their specification is that of *)
(* Builds, so the theorems are in BuildsProofs; here are the lemmas, that  *)
(* each step keeps the types and, with moves alone, keeps objects whole.   *)
(***************************************************************************)
EXTENDS MicroTiering, ObjectMoverProofs

-----------------------------------------------------------------------------
(* Types.                                                                  *)

MicroFitsAt(th, step) ==
    /\ step \in {"write", "dummy", "link"} => thread[th].req.op = "create"
    /\ step \in Inside \cup {"lock"} => thread[th].req.op = "move"
    /\ step \in {"rm_target", "rm_self"} => thread[th].req.op = "delete"
    /\ step \in {"unlink", "promote"} => Asked(th) # "ARCHIVE"
    /\ step \notin {"x_unlink", "x_copy", "x_remove", "x_dummy", "x_link"}
MicroFits(th) == MicroFitsAt(th, thread[th].at)

MicroTyped == TypeOK /\ \A th \in Threads : MicroFits(th)

\* A failed assert keeps the types.
LEMMA MicroAbortTypes ==
  ASSUME MicroTyped, NEW r, r = "eio" => bounds.faults > 0, AbortAfter(r)
  PROVE  MicroTyped'
BY AbortBounds DEF MicroTyped, TypeOK, Abort, Thread, IdleThread, MicroFits, MicroFitsAt, Inside

\* A step that goes on keeps the types if what it says of its thread fits.
LEMMA MicroStepTypes ==
  ASSUME MicroTyped, NEW th \in Threads, thread[th].at # "idle",
         NEW step \in Steps, NEW r \in Results, Goto(th, step) \/ GotoWith(th, step, r),
         store' \in [Objects -> Places],
         current' \subseteq (current \ {th}) \cup (IF step = "replace" THEN {th} ELSE {}),
         bounds' \in [ops : 0 .. MaxOps, writes : 0 .. MaxWrites,
                      faults : 0 .. MaxFaults, crashes : 0 .. MaxCrashes],
         status' = status,
         MicroFitsAt(th, step)
  PROVE  MicroTyped'
<1>1. /\ thread' \in [Threads -> Thread]
      /\ \A u \in Threads \ {th} : thread'[u] = thread[u]
      /\ thread'[th].at = step
      /\ thread'[th].req = thread[th].req
      /\ thread'[th].tier = thread[th].tier
  BY GotoTypes DEF MicroTyped, At
<1>2. current' \subseteq {u \in Threads : At(u, "replace")'}
  BY <1>1 DEF MicroTyped, TypeOK, At
<1>3. ASSUME NEW u \in Threads PROVE MicroFits(u)'
  <2>1. CASE u = th
    BY <1>1, <2>1 DEF MicroFits, MicroFitsAt, Asked
  <2>2. CASE u # th
    <3>1. MicroFits(u) /\ thread'[u] = thread[u]
      BY <2>2, <1>1 DEF MicroTyped
    <3> QED
      BY <3>1 DEF MicroFits, MicroFitsAt, Asked
  <2> QED
    BY <2>1, <2>2
<1> QED
  BY <1>1, <1>2, <1>3 DEF MicroTyped, TypeOK

\* One operation keeps the types if both ways on from it fit the request.
LEMMA MicroOperateTypes ==
  ASSUME MicroTyped, NEW th \in Threads, NEW step \in Steps, step # "idle",
         NEW answer \in Answer, NEW after \in Steps, NEW failed \in Steps,
         \/ OperateOn("storage", th, step, answer, after, failed)
         \/ OperateShadowedOn("storage", th, step, answer, after, failed),
         MicroFitsAt(th, after), MicroFitsAt(th, failed)
  PROVE  MicroTyped'
<1>1. thread[th].at # "idle"
  BY DEF OperateOn, OperateShadowedOn, At
<1>2. PICK a \in Answers(th, answer), next \in {after, failed} :
         /\ TakesOn("storage", th, a)
         /\ Goto(th, next) \/ GotoWith(th, next, a.r)
         /\ status' = status
  BY DEF OperateOn, OperateShadowedOn
<1>3. a.r \in Results
  BY <1>1, AnswersTypes DEF MicroTyped
<1>4. /\ store' \in [Objects -> Places]
      /\ current' \subseteq current \ {th}
      /\ bounds' \in [ops : 0 .. MaxOps, writes : 0 .. MaxWrites,
                      faults : 0 .. MaxFaults, crashes : 0 .. MaxCrashes]
  BY <1>1, <1>2, TakesTypes DEF MicroTyped
<1> QED
  BY <1>1, <1>2, <1>3, <1>4, MicroStepTypes

\* The same for an operation whose failure ends the process.
LEMMA MicroOperateAssertedTypes ==
  ASSUME MicroTyped, NEW th \in Threads, NEW step \in Steps, step # "idle",
         NEW answer \in Answer, NEW answers \in SUBSET Answers(th, answer),
         NEW after \in Steps,
         OperateAssertedOn("storage", th, step, answers, after),
         MicroFitsAt(th, after)
  PROVE  MicroTyped'
<1>1. thread[th].at # "idle"
  BY DEF OperateAssertedOn, At
<1>2. PICK a \in Answers(th, answer) :
         \/ TakesOn("storage", th, a) /\ Goto(th, after) /\ status' = status
         \/ AbortAfter(a.r)
  BY DEF OperateAssertedOn
<1>3. CASE AbortAfter(a.r)
  BY <1>1, <1>3, AnswersTypes, MicroAbortTypes DEF MicroTyped
<1>4. CASE TakesOn("storage", th, a) /\ Goto(th, after) /\ status' = status
  <2>1. "ok" \in Results
    BY DEF Results
  <2>2. /\ store' \in [Objects -> Places]
        /\ current' \subseteq current \ {th}
        /\ bounds' \in [ops : 0 .. MaxOps, writes : 0 .. MaxWrites,
                        faults : 0 .. MaxFaults, crashes : 0 .. MaxCrashes]
    BY <1>1, <1>4, TakesTypes DEF MicroTyped
  <2> QED
    BY <1>1, <1>4, <2>1, <2>2, MicroStepTypes
<1> QED
  BY <1>2, <1>3, <1>4

\* The steps of Create keep the types.
LEMMA MicroCreateTypes ==
  ASSUME MicroTyped, NEW th \in Threads, MicroCreate(th)
  PROVE  MicroTyped'
<1>1. thread[th].at \in {"write", "dummy", "link"} /\ thread[th].req.op = "create"
  BY DEF MicroCreate, MicroWrite, MicroDummy, MicroLink, OperateOn, At, MicroTyped, MicroFits,
         MicroFitsAt
<1>2. /\ Place(th) \in Places
      /\ MicroPool(Asked(th)) \in Pools
      /\ NameOf(Asked(th)) \in TierNames
      /\ thread[th].req.data \in Values
  BY <1>1, BusyTypes, AskedTypes DEF MicroTyped, MicroPool, Pools
<1>3. {"write", "dummy", "link", "finish"} \subseteq Steps \ {"idle"} /\ "storage" \in Pools
  BY DEF Steps, Pools
<1>4. MicroFitsAt(th, "finish") /\ MicroFitsAt(th, "dummy") /\ MicroFitsAt(th, "link")
  BY <1>1 DEF MicroFitsAt, Inside
<1>5. CASE MicroWrite(th)
  <2> DEFINE answer == WriteFullTier(Place(th), MicroPool(Asked(th)), thread[th].req.data,
                                     NameOf(Asked(th)))
  <2>1. answer \in Answer
    BY <1>2, WriteTypes
  <2>2. PICK next \in {"dummy", "finish"} : next = IF Asked(th) = "ARCHIVE" THEN "dummy" ELSE "finish"
    OBVIOUS
  <2>3. OperateOn("storage", th, "write", answer, next, "finish")
    BY <1>5, <2>2 DEF MicroWrite
  <2> HIDE DEF answer
  <2> QED
    BY <2>1, <2>2, <2>3, <1>3, <1>4, MicroOperateTypes
<1>6. CASE MicroDummy(th)
  <2>1. WriteFull(Place(th), "storage", Empty) \in Answer
    BY <1>2, <1>3, WriteTypes DEF TierNames
  <2> QED
    BY <1>6, <2>1, <1>3, <1>4, MicroOperateTypes DEF MicroDummy
<1>7. CASE MicroLink(th)
  <2>1. SetRedirect(Place(th), "storage", "archive") \in Answer
    BY <1>2, <1>3, RedirectTypes DEF TierNames
  <2> QED
    BY <1>7, <2>1, <1>3, <1>4, MicroOperateTypes DEF MicroLink
<1> QED
  BY <1>5, <1>6, <1>7 DEF MicroCreate

\* Read keeps the types.
LEMMA MicroReadTypes ==
  ASSUME MicroTyped, NEW th \in Threads, ReadOn("storage", th)
  PROVE  MicroTyped'
<1>1. thread[th].at = "read"
  BY DEF ReadOn, OperateOn, At
<1>2. Place(th) \in Places
  BY <1>1, BusyTypes DEF MicroTyped
<1>3. Fails(Place(th), "enoent") \in Answer /\ Ok(Place(th), "none") \in Answer
  BY <1>2, AnswerTypes
<1>4. MicroFitsAt(th, "finish")
  BY DEF MicroFitsAt, Inside
<1> DEFINE answer == IF Reached(Place(th), "storage") = NoObject
                     THEN Fails(Place(th), "enoent")
                     ELSE Ok(Place(th), "none")
<1>5. OperateOn("storage", th, "read", answer, "finish", "finish")
  BY DEF ReadOn
<1>6. answer \in Answer
  BY <1>3
<1>7. "read" \in Steps /\ "finish" \in Steps /\ "read" # "idle"
  BY DEF Steps
<1> HIDE DEF answer
<1> QED
  BY <1>4, <1>5, <1>6, <1>7, MicroOperateTypes

\* Lock and Unlock keep the types.
LEMMA MicroLockingTypes ==
  ASSUME MicroTyped, NEW th \in Threads, LockOn("storage", th) \/ UnlockOn("storage", th)
  PROVE  MicroTyped'
<1>1. thread[th].at \in {"lock", "unlock", "unlock_early"}
  BY DEF LockOn, UnlockOn, OperateAssertedOn, At
<1>2. thread[th].req.op = "move" /\ Place(th) \in Places
  BY <1>1, BusyTypes DEF MicroTyped, MicroFits, MicroFitsAt, Inside
<1>3. \A locked \in BOOLEAN : SetLock(Place(th), "storage", locked) \in Answer
  BY <1>2, LockTypes DEF Pools
<1>4. MicroFitsAt(th, "locate") /\ MicroFitsAt(th, "finish") /\ MicroFitsAt(th, "early")
  BY <1>2 DEF MicroFitsAt, Inside
<1>5. {"lock", "unlock", "unlock_early", "locate", "finish", "early"} \subseteq Steps \ {"idle"}
  BY DEF Steps
<1>6. CASE LockOn("storage", th)
  <2> DEFINE answer == SetLock(Place(th), "storage", TRUE)
  <2>1. {a \in Answers(th, answer) : a.r # "canceled"} \in SUBSET Answers(th, answer)
    OBVIOUS
  <2> QED
    BY <1>3, <1>4, <1>5, <1>6, <2>1, MicroOperateAssertedTypes DEF LockOn
<1>7. CASE UnlockOn("storage", th)
  BY <1>3, <1>4, <1>5, <1>7, MicroOperateAssertedTypes DEF UnlockOn
<1> QED
  BY <1>6, <1>7

\* Where GetLocation leads from the tier it found.
MicroNext(th) == [tier \in Tiers |-> IF tier = Asked(th) THEN "unlock"
                                     ELSE IF Asked(th) = "ARCHIVE" THEN "copy_down"
                                     ELSE IF tier = "ARCHIVE" THEN "unlink"
                                     ELSE "hint"]

\* GetLocation keeps the types: it removes no redirect of an object that is to
\* be in the archive.
LEMMA MicroLocateTypes ==
  ASSUME MicroTyped, NEW th \in Threads, MicroLocate(th)
  PROVE  MicroTyped'
<1>1. thread[th].at = "locate" /\ thread[th].req.op = "move"
  BY DEF MicroLocate, LocateOn, MicroTyped, MicroFits, MicroFitsAt, At, Inside
<1>2. thread[th] \in [at : Steps, req : Requests, tier : Tiers, r : Results]
  BY <1>1, BusyTypes DEF MicroTyped
<1>3. ASSUME NEW r \in {"enoent", "eio"}, r = "eio" => bounds.faults > 0, AbortAfter(r)
      PROVE  MicroTyped'
  BY <1>3, MicroAbortTypes
<1>4. ASSUME NEW tier \in Tiers,
             thread' = [thread EXCEPT ![th] = [@ EXCEPT !.at = MicroNext(th)[tier], !.tier = tier]],
             UNCHANGED <<store, current, status, bounds>>
      PROVE  MicroTyped'
  <2>1. PICK step \in {"unlock", "unlink", "copy_down", "hint"} :
           /\ step = MicroNext(th)[tier]
           /\ step = "unlink" => Asked(th) # "ARCHIVE"
    BY DEF MicroNext
  <2>2. [thread[th] EXCEPT !.at = step, !.tier = tier] \in Thread
    BY <1>2, <2>1 DEF Thread, Steps
  <2>3. /\ thread' \in [Threads -> Thread]
        /\ thread'[th].at = step /\ thread'[th].req = thread[th].req
        /\ \A u \in Threads \ {th} : thread'[u] = thread[u]
    BY <1>2, <1>4, <2>1, <2>2 DEF MicroTyped, TypeOK
  <2>4. current' \subseteq {u \in Threads : At(u, "replace")'}
    BY <1>1, <1>4, <2>3 DEF MicroTyped, TypeOK, At
  <2>5. MicroFits(th)'
    BY <1>1, <2>1, <2>3 DEF MicroFits, MicroFitsAt, Asked, Inside
  <2>6. \A u \in Threads \ {th} : MicroFits(u)'
    BY <2>3 DEF MicroTyped, MicroFits, MicroFitsAt, Asked
  <2> QED
    BY <1>4, <2>3, <2>4, <2>5, <2>6 DEF MicroTyped, TypeOK
<1>5. LocateOn("storage", th, MicroNext(th))
  BY DEF MicroLocate, MicroNext
<1>6. \/ \E tier \in Tiers :
            /\ thread' = [thread EXCEPT ![th] = [@ EXCEPT !.at = MicroNext(th)[tier], !.tier = tier]]
            /\ UNCHANGED <<store, current, status, bounds>>
      \/ \E r \in {"enoent", "eio"} : (r = "eio" => bounds.faults > 0) /\ AbortAfter(r)
  BY <1>5 DEF LocateOn, Named
<1> QED
  BY <1>3, <1>4, <1>6

\* What the operations of a move answer.
LEMMA MicroAnswers ==
  ASSUME MicroTyped, NEW th \in Threads, thread[th].at \in Inside
  PROVE  /\ RemoveAt(Place(th), "storage") \in Answer
         /\ CopyFromTier(Place(th), "storage", "archive", NameOf(Asked(th))) \in Answer
         /\ Remove(Place(th), "archive") \in Answer
         /\ AllocHint(Place(th), "storage") \in Answer
         /\ CopyFrom(Place(th), "archive", "storage") \in Answer
         /\ SetRedirectIf(Place(th), "storage", th \in current, "archive", "archive") \in Answer
<1>1. Place(th) \in Places /\ NameOf(Asked(th)) \in TierNames
  <2>1. thread[th].at # "idle" /\ thread[th].req.op = "move"
    BY DEF MicroTyped, MicroFits, MicroFitsAt, Inside
  <2> QED
    BY <2>1, BusyTypes, AskedTypes DEF MicroTyped
<1>2. {"storage", "archive"} \subseteq Pools /\ "archive" \in TierNames
      /\ (th \in current) \in BOOLEAN
  BY DEF Pools, TierNames
<1>3. AllocHint(Place(th), "storage") \in Answer
  <2> DEFINE q == Target(Place(th), "storage")
  <2>1. q \in Pools /\ Existing(Place(th), q) \in Object
    BY <1>1, <1>2, PlaceTypes
  <2> QED
    BY <1>1, <2>1, PutTypes DEF AllocHint
<1>4. RemoveAt(Place(th), "storage") \in Answer /\ Remove(Place(th), "archive") \in Answer
  BY <1>1, <1>2, RemoveTypes
<1>5. /\ CopyFromTier(Place(th), "storage", "archive", NameOf(Asked(th))) \in Answer
      /\ CopyFrom(Place(th), "archive", "storage") \in Answer
  BY <1>1, <1>2, CopyTypes
<1>6. SetRedirectIf(Place(th), "storage", th \in current, "archive", "archive") \in Answer
  BY <1>1, <1>2, RedirectTypes
<1> QED
  BY <1>3, <1>4, <1>5, <1>6

\* The operations of a move keep the types, and a version is known only to
\* the mover that is about to replace the object.
LEMMA MicroMovingTypes ==
  ASSUME MicroTyped, NEW th \in Threads,
         \/ MicroUnlink(th) \/ MicroPromote(th) \/ MicroRmSource(th) \/ MicroHint(th)
         \/ MicroReplace(th)
  PROVE  MicroTyped'
<1>1. thread[th].at \in {"unlink", "promote", "rm_source", "hint", "replace"}
  BY DEF MicroUnlink, MicroPromote, MicroRmSource, MicroHint, MicroReplace, OperateOn,
         OperateShadowedOn, At
<1>2. thread[th].at \in Inside /\ thread[th].req.op = "move"
  BY <1>1 DEF MicroTyped, MicroFits, MicroFitsAt, Inside
<1>3. \A step \in {"rm_source", "unlock", "unlock_early", "copy_down"} : MicroFitsAt(th, step)
  BY <1>2 DEF MicroFitsAt, Inside
<1>4. thread[th].at = "unlink" => MicroFitsAt(th, "promote")
  BY <1>2 DEF MicroTyped, MicroFits, MicroFitsAt, Inside
<1>5. {"unlink", "promote", "rm_source", "hint", "copy_down", "replace", "unlock", "unlock_early"}
         \subseteq Steps \ {"idle"}
  BY DEF Steps
<1>6. CASE MicroUnlink(th)
  <2>1. MicroFitsAt(th, "promote")
    BY <1>4, <1>6 DEF MicroUnlink, OperateOn, At
  <2> QED
    BY <1>2, <1>3, <1>5, <1>6, <2>1, MicroAnswers, MicroOperateTypes DEF MicroUnlink
<1>7. CASE MicroPromote(th)
  BY <1>2, <1>3, <1>5, <1>7, MicroAnswers, MicroOperateTypes DEF MicroPromote
<1>8. CASE MicroRmSource(th)
  BY <1>2, <1>3, <1>5, <1>8, MicroAnswers, MicroOperateTypes DEF MicroRmSource
<1>9. CASE MicroHint(th)
  BY <1>2, <1>3, <1>5, <1>9, MicroAnswers, MicroOperateTypes DEF MicroHint
<1>10. CASE MicroReplace(th)
  BY <1>2, <1>3, <1>5, <1>10, MicroAnswers, MicroOperateTypes DEF MicroReplace
<1> QED
  BY <1>6, <1>7, <1>8, <1>9, <1>10

\* The copy of a demotion keeps the types, and its version may then be known.
LEMMA MicroCopyDownTypes ==
  ASSUME MicroTyped, NEW th \in Threads, MicroCopyDown(th)
  PROVE  MicroTyped'
<1> DEFINE answer == CopyFrom(Place(th), "archive", "storage")
<1>1. thread[th].at = "copy_down" /\ thread[th].at \in Inside /\ thread[th].req.op = "move"
  BY DEF MicroCopyDown, CopyDownOn, At, MicroTyped, MicroFits, MicroFitsAt, Inside
<1>2. answer \in Answer /\ Obj(th) \in Objects
  BY <1>1, MicroAnswers, BusyTypes DEF MicroTyped
<1>3. PICK a \in Answers(th, answer) :
         /\ store' = [store EXCEPT ![Obj(th)] = a.p]
         /\ bounds' = IF a.r = "eio" THEN [bounds EXCEPT !.faults = @ - 1] ELSE bounds
         /\ \/ a.r = "ok" /\ current' \subseteq current \cup {th}
            \/ current' = current \ {th}
         /\ Goto(th, IF a.r = "ok" THEN "replace" ELSE "unlock")
         /\ status' = status
  BY DEF MicroCopyDown, CopyDownOn
<1>4. a.p \in Places /\ (a.r = "eio" => bounds.faults > 0)
  BY <1>1, <1>2, AnswersTypes DEF MicroTyped
<1>5. store' \in [Objects -> Places]
  BY <1>2, <1>3, <1>4 DEF MicroTyped, TypeOK
<1>6. bounds' \in [ops : 0 .. MaxOps, writes : 0 .. MaxWrites,
                   faults : 0 .. MaxFaults, crashes : 0 .. MaxCrashes]
  <2>1. CASE a.r = "eio"
    BY <2>1, <1>3, <1>4, FaultTypes DEF MicroTyped
  <2>2. CASE a.r # "eio"
    BY <2>2, <1>3 DEF MicroTyped, TypeOK
  <2> QED
    BY <2>1, <2>2
<1>7. PICK step \in {"replace", "unlock"} :
         /\ step = IF a.r = "ok" THEN "replace" ELSE "unlock"
         /\ step \in Steps /\ MicroFitsAt(th, step)
  BY <1>1 DEF Steps, MicroFitsAt, Inside
<1>8. current' \subseteq (current \ {th}) \cup (IF step = "replace" THEN {th} ELSE {})
  BY <1>3, <1>7
<1>9. "ok" \in Results
  BY DEF Results
<1> QED
  BY <1>1, <1>3, <1>5, <1>6, <1>7, <1>8, <1>9, MicroStepTypes

\* Delete keeps the types.
LEMMA MicroDeleteTypes ==
  ASSUME MicroTyped, NEW th \in Threads, MicroDelete(th)
  PROVE  MicroTyped'
<1>1. thread[th].at \in {"rm_target", "rm_self"} /\ thread[th].req.op = "delete"
  BY DEF MicroDelete, MicroRmTarget, MicroRmSelf, OperateOn, At, MicroTyped, MicroFits,
         MicroFitsAt
<1>2. Place(th) \in Places
  BY <1>1, BusyTypes DEF MicroTyped
<1>3. Remove(Place(th), "storage") \in Answer
  BY <1>2, RemoveTypes DEF Pools
<1>4. \A step \in {"rm_self", "finish", "early"} : MicroFitsAt(th, step)
  BY <1>1 DEF MicroFitsAt, Inside
<1>5. {"rm_target", "rm_self", "finish", "early"} \subseteq Steps \ {"idle"}
  BY DEF Steps
<1>6. CASE MicroRmTarget(th)
  BY <1>3, <1>4, <1>5, <1>6, MicroOperateTypes DEF MicroRmTarget
<1>7. CASE MicroRmSelf(th)
  <2>1. PICK a \in Answers(th, Remove(Place(th), "storage")) :
           /\ TakesOn("storage", th, a)
           /\ GotoWith(th, "finish", IF a.r = "enoent" THEN "ok" ELSE a.r)
           /\ status' = status
    BY <1>7 DEF MicroRmSelf
  <2>2. (IF a.r = "enoent" THEN "ok" ELSE a.r) \in Results
    BY <1>1, <1>3, AnswersTypes DEF MicroTyped, Results
  <2>3. /\ store' \in [Objects -> Places]
        /\ current' \subseteq current \ {th}
        /\ bounds' \in [ops : 0 .. MaxOps, writes : 0 .. MaxWrites,
                        faults : 0 .. MaxFaults, crashes : 0 .. MaxCrashes]
    BY <1>1, <1>3, <2>1, TakesTypes DEF MicroTyped
  <2> QED
    BY <1>1, <1>4, <1>5, <2>1, <2>2, <2>3, MicroStepTypes
<1> QED
  BY <1>6, <1>7 DEF MicroDelete

\* A request of a caller is a legal one.
LEMMA MicroStartTypes ==
  ASSUME MicroTyped, NEW th \in Threads, NEW req \in Requests, Start(th, req)
  PROVE  MicroTyped'
<1> DEFINE started == [at |-> FirstStep(req), req |-> req, tier |-> "FAST", r |-> "ok"]
<1>1. req.op \in {"create", "read", "move", "delete"}
  BY ObjectMoverAssumption DEF Request
<1>2. FirstStep(req) \in Steps
  BY <1>1 DEF FirstStep, Steps
<1>3. started \in Thread
  BY <1>2 DEF Thread, Tiers, Results
<1>4. /\ thread' \in [Threads -> Thread]
      /\ thread'[th] = started
      /\ \A u \in Threads \ {th} : thread'[u] = thread[u]
  BY <1>3 DEF MicroTyped, TypeOK, Start, Begin
<1>5. bounds' \in [ops : 0 .. MaxOps, writes : 0 .. MaxWrites,
                   faults : 0 .. MaxFaults, crashes : 0 .. MaxCrashes]
  BY ObjectMoverAssumption DEF Start, MicroTyped, TypeOK
<1>6. current' \subseteq {u \in Threads : At(u, "replace")'}
  BY <1>4 DEF MicroTyped, TypeOK, Start, Begin, At
<1>7. MicroFits(th)'
  BY <1>1, <1>4 DEF MicroFits, MicroFitsAt, FirstStep, Inside
<1>8. \A u \in Threads \ {th} : MicroFits(u)'
  BY <1>4 DEF MicroTyped, MicroFits, MicroFitsAt, Asked
<1> QED
  BY <1>4, <1>5, <1>6, <1>7, <1>8 DEF MicroTyped, TypeOK, Start, Begin

\* The end of an operation leaves the thread idle.
LEMMA MicroEndTypes ==
  ASSUME MicroTyped, NEW th \in Threads, End(th)
  PROVE  MicroTyped'
<1>1. /\ thread' \in [Threads -> Thread]
      /\ thread'[th] = IdleThread
      /\ \A u \in Threads \ {th} : thread'[u] = thread[u]
  BY DEF MicroTyped, TypeOK, End, Thread
<1>2. current' \subseteq {u \in Threads : At(u, "replace")'}
  BY <1>1 DEF MicroTyped, TypeOK, End, At
<1>3. MicroFits(th)'
  BY <1>1 DEF MicroFits, MicroFitsAt, IdleThread, Inside
<1>4. \A u \in Threads \ {th} : MicroFits(u)'
  BY <1>1 DEF MicroTyped, MicroFits, MicroFitsAt, Asked
<1> QED
  BY <1>1, <1>2, <1>3, <1>4 DEF MicroTyped, TypeOK, End

\* An application's write keeps the types.
LEMMA MicroDirectWriteTypes ==
  ASSUME MicroTyped, NEW o \in Objects, NEW data \in Writers, DirectWriteOn("storage", o, data)
  PROVE  MicroTyped'
<1>1. WriteFull(store[o], "storage", data) \in Answer
  BY ObjectMoverAssumption, WriteTypes DEF MicroTyped, TypeOK, Pools, TierNames
<1>2. WriteFull(store[o], "storage", data).p \in Places
  BY <1>1 DEF Answer
<1>3. store' \in [Objects -> Places]
  BY <1>2 DEF MicroTyped, TypeOK, DirectWriteOn
<1>4. bounds' \in [ops : 0 .. MaxOps, writes : 0 .. MaxWrites,
                   faults : 0 .. MaxFaults, crashes : 0 .. MaxCrashes]
  BY ObjectMoverAssumption DEF DirectWriteOn, MicroTyped, TypeOK
<1>5. current' \subseteq current
  BY DEF DirectWriteOn
<1> QED
  BY <1>3, <1>4, <1>5 DEF MicroTyped, TypeOK, DirectWriteOn, MicroFits, MicroFitsAt, Asked, At

\* So do a crash and a restart.
LEMMA MicroCrashTypes ==
  ASSUME MicroTyped, Crash \/ Restart
  PROVE  MicroTyped'
<1>1. CASE Crash
  <2>1. bounds' \in [ops : 0 .. MaxOps, writes : 0 .. MaxWrites,
                     faults : 0 .. MaxFaults, crashes : 0 .. MaxCrashes]
    BY <1>1, ObjectMoverAssumption DEF Crash, MicroTyped, TypeOK
  <2> QED
    BY <1>1, <2>1 DEF Crash, MicroTyped, TypeOK, Thread, IdleThread, MicroFits, MicroFitsAt, Inside
<1>2. CASE Restart
  BY <1>2 DEF Restart, MicroTyped, TypeOK, MicroFits, MicroFitsAt, Asked, At
<1> QED
  BY <1>1, <1>2

\* The steps of the threads keep the types.
LEMMA MicroWorkTypes ==
  ASSUME MicroTyped, NEW th \in Threads, MicroWork(th)
  PROVE  MicroTyped'
BY MicroCreateTypes, MicroReadTypes, MicroLockingTypes, MicroLocateTypes, MicroMovingTypes,
   MicroCopyDownTypes, MicroDeleteTypes, MicroEndTypes DEF MicroWork, MicroMove

-----------------------------------------------------------------------------
(* Moves keep the data.  The archive is the only pool below, so the name   *)
(* of an object is never that of a pool it left, and the lock always works *)
(* (in the default build it does not: see Adrift in ObjectMoverProofs).    *)

\* The archive has only objects with their data; and the storage pool has the
\* object itself, whose name is then not that of the archive; or a redirect to
\* the archive; or nothing, while the archive has the object.
Sound(p) ==
    /\ p["archive"] # NoObject => /\ p["archive"].data = InitialData
                                  /\ p["archive"].redirect = "none"
    /\ \/ p["storage"] = NoObject /\ p["archive"] # NoObject
       \/ /\ p["storage"] # NoObject
          /\ p["storage"].redirect = "none"
          /\ p["storage"].data = InitialData
          /\ p["storage"].tier # "archive"
       \/ /\ p["storage"] # NoObject
          /\ p["storage"].redirect = "archive"
          /\ p["archive"] # NoObject

\* What the mover of an object relies on: above all, that the object which
\* others would lock is locked.
HeldAt(p, at) ==
    /\ p["storage"] # NoObject => Reached(p, "storage").locked
    /\ at \in {"locate", "hint", "unlink", "copy_down", "replace"} => p["storage"] # NoObject
    /\ at = "unlink" => p["storage"].redirect = "archive"
    /\ at = "promote" => p["storage"] = NoObject /\ p["archive"].locked
    /\ at = "rm_source" => p["storage"] # NoObject /\ p["storage"].redirect = "none"
    /\ at = "replace" => p["archive"] # NoObject /\ p["archive"].locked

MicroSafe(o) == /\ Sound(store[o])
                /\ \A th, u \in Movers(o) : th = u
                /\ \A th \in Movers(o) : HeldAt(store[o], thread[th].at)
AllMicroSafe == \A o \in Objects : MicroSafe(o)

\* Where operations sent to the two pools are executed.
LEMMA SoundFacts ==
  ASSUME NEW p \in Places, Sound(p)
  PROVE  /\ Target(p, "archive") = "archive" /\ Reached(p, "archive") = p["archive"]
         /\ Target(p, "storage") \in {"storage", "archive"}
         /\ p["storage"] # NoObject =>
               /\ Reached(p, "storage") \in Object /\ Reached(p, "storage") # NoObject
               /\ Reached(p, "storage").data = InitialData
               /\ Reached(p, "storage").redirect = "none"
         /\ Target(p, "storage") = "archive" =>
               /\ p["storage"] # NoObject /\ p["storage"].redirect = "archive"
               /\ p["archive"] # NoObject /\ Reached(p, "storage") = p["archive"]
         /\ Target(p, "storage") = "storage" =>
               /\ p["storage"] # NoObject => p["storage"].redirect = "none"
               /\ Reached(p, "storage") = p["storage"]
<1>1. p["storage"] \in Object \cup {NoObject} /\ p["archive"] \in Object \cup {NoObject}
  BY DEF Places, Pools
<1> QED
  BY <1>1 DEF Sound, Target, Reached

\* The redirect is removed while the archive has the object.
LEMMA MicroUnlinkKeeps ==
  ASSUME NEW p \in Places, Sound(p), HeldAt(p, "unlink")
  PROVE  /\ Sound(RemoveAt(p, "storage").p)
         /\ HeldAt(RemoveAt(p, "storage").p, "promote")
<1> DEFINE q == [p EXCEPT !["storage"] = NoObject]
<1>1. q["storage"] = NoObject /\ q["archive"] = p["archive"]
  BY DEF Places, Pools
<1>2. RemoveAt(p, "storage").p = q
  BY DEF RemoveAt, Ok, HeldAt
<1>3. p["archive"] # NoObject /\ p["archive"].locked
  BY SoundFacts DEF HeldAt, Target, Reached
<1> HIDE DEF q
<1> QED
  BY <1>1, <1>2, <1>3 DEF Sound, HeldAt

\* The object is copied up, with its lock, and its name is that of its new tier.
LEMMA MicroPromoteKeeps ==
  ASSUME NEW p \in Places, Sound(p), HeldAt(p, "promote"), NEW tier \in Tiers, tier # "ARCHIVE"
  PROVE  LET a == CopyFromTier(p, "storage", "archive", NameOf(tier))
         IN  Sound(a.p) /\ HeldAt(a.p, "rm_source")
<1> DEFINE obj == [p["archive"] EXCEPT !.tier = NameOf(tier)]
           q == [p EXCEPT !["storage"] = obj]
<1>1. p["storage"] = NoObject /\ p["archive"] # NoObject /\ p["archive"].locked
  BY DEF HeldAt, Sound
<1>2. p["archive"] \in Object
  BY <1>1 DEF Places, Pools
<1>3. NameOf(tier) # "archive" /\ NameOf(tier) \in TierNames
  BY DEF NameOf, Tiers, TierNames
<1>4. /\ obj \in Object /\ obj # NoObject
      /\ obj.data = InitialData /\ obj.redirect = "none" /\ obj.locked
      /\ obj.tier # "archive"
  BY <1>1, <1>2, <1>3, RadosAssumption DEF Object, Sound
<1> HIDE DEF obj
<1>5. q["storage"] = obj /\ q["archive"] = p["archive"]
  BY DEF Places, Pools
<1>6. CopyFromTier(p, "storage", "archive", NameOf(tier)).p = q
  <2>1. Target(p, "storage") = "storage" /\ Reached(p, "archive") = p["archive"]
    BY <1>1, SoundFacts DEF Target
  <2> QED
    BY <1>1, <2>1 DEF CopyFromTier, Ok, obj
<1> HIDE DEF q
<1>7. Sound(q)
  BY <1>4, <1>5 DEF Sound
<1>8. Reached(q, "storage") = obj
  BY <1>4, <1>5 DEF Reached, Target
<1> QED
  BY <1>4, <1>5, <1>6, <1>7, <1>8 DEF HeldAt

\* The source is removed when the copy is there.
LEMMA MicroRmSourceKeeps ==
  ASSUME NEW p \in Places, Sound(p), HeldAt(p, "rm_source"), p["archive"] # NoObject
  PROVE  LET a == Remove(p, "archive") IN Sound(a.p) /\ HeldAt(a.p, "unlock")
<1> DEFINE q == [p EXCEPT !["archive"] = NoObject]
<1>1. q["storage"] = p["storage"] /\ q["archive"] = NoObject
  BY DEF Places, Pools
<1>2. Remove(p, "archive").p = q
  BY SoundFacts DEF Remove, RemoveAt, Ok
<1> HIDE DEF q
<1>3. p["storage"] # NoObject /\ p["storage"].redirect = "none"
  BY DEF HeldAt
<1>4. Reached(q, "storage") = p["storage"] /\ Reached(p, "storage") = p["storage"]
  BY <1>1, <1>3 DEF Reached, Target
<1> QED
  BY <1>1, <1>2, <1>3, <1>4 DEF Sound, HeldAt

\* The hint finds the object, and changes nothing.
LEMMA MicroHintKeeps ==
  ASSUME NEW p \in Places, Sound(p), HeldAt(p, "hint")
  PROVE  AllocHint(p, "storage").p = p
<1> DEFINE q == Target(p, "storage")
<1>1. q \in {"storage", "archive"} /\ p[q] # NoObject
  BY SoundFacts DEF HeldAt, Reached
<1>2. [p EXCEPT ![q] = p[q]] = p
  BY <1>1 DEF Places, Pools
<1> QED
  BY <1>1, <1>2 DEF AllocHint, Existing, Ok

\* The copy below has the lock of the object.
LEMMA MicroCopyDownKeeps ==
  ASSUME NEW p \in Places, Sound(p), HeldAt(p, "copy_down")
  PROVE  LET a == CopyFrom(p, "archive", "storage")
         IN  Sound(a.p) /\ HeldAt(a.p, "replace")
<1> DEFINE obj == Reached(p, "storage")
           q == [p EXCEPT !["archive"] = obj]
<1>1. p["storage"] # NoObject
  BY DEF HeldAt
<1>2. /\ obj \in Object /\ obj # NoObject
      /\ obj.data = InitialData /\ obj.redirect = "none" /\ obj.locked
  BY <1>1, SoundFacts DEF HeldAt
<1>3. CopyFrom(p, "archive", "storage").p = q
  BY <1>2, SoundFacts DEF CopyFrom, Ok
<1> HIDE DEF obj
<1>4. q["storage"] = p["storage"] /\ q["archive"] = obj
  BY DEF Places, Pools
<1> HIDE DEF q
<1>5. Sound(q)
  BY <1>1, <1>2, <1>4 DEF Sound
<1>6. Reached(q, "storage") = obj
  BY <1>1, <1>4 DEF Reached, Target, Sound, obj
<1> QED
  BY <1>1, <1>2, <1>3, <1>4, <1>5, <1>6 DEF HeldAt

\* The object is replaced by a redirect when the copy is there, and what
\* others would lock is now the copy.
LEMMA MicroReplaceKeeps ==
  ASSUME NEW p \in Places, Sound(p), HeldAt(p, "replace")
  PROVE  LET a == SetRedirectIf(p, "storage", TRUE, "archive", "archive")
         IN  Sound(a.p) /\ HeldAt(a.p, "unlock")
<1> DEFINE link == [p["storage"] EXCEPT !.redirect = "archive", !.data = Empty, !.tier = "archive"]
           q == [p EXCEPT !["storage"] = link]
<1>1. p["storage"] # NoObject /\ p["archive"] # NoObject /\ p["archive"].locked
  BY DEF HeldAt
<1>2. p["storage"] \in Object
  BY <1>1 DEF Places, Pools
<1>3. link \in Object /\ link # NoObject /\ link.redirect = "archive"
  BY <1>2, RadosAssumption DEF Object, TierNames
<1>4. SetRedirectIf(p, "storage", TRUE, "archive", "archive").p = q
  BY <1>1 DEF SetRedirectIf, Ok, Places, Pools
<1> HIDE DEF link
<1>5. q["storage"] = link /\ q["archive"] = p["archive"]
  BY DEF Places, Pools
<1> HIDE DEF q
<1>6. Sound(q)
  BY <1>1, <1>3, <1>5 DEF Sound
<1>7. Reached(q, "storage") = p["archive"]
  BY <1>3, <1>5 DEF Reached, Target
<1> QED
  BY <1>1, <1>4, <1>5, <1>6, <1>7 DEF HeldAt

\* Lock and Unlock change the lock of the object that is reached, nothing else.
LEMMA MicroSetLockKeeps ==
  ASSUME NEW p \in Places, Sound(p), NEW locked \in BOOLEAN,
         SetLock(p, "storage", locked).r = "ok"
  PROVE  LET q == SetLock(p, "storage", locked).p
         IN  /\ Sound(q)
             /\ p["storage"] # NoObject /\ Reached(p, "storage").locked # locked
             /\ q["storage"] # NoObject /\ Reached(q, "storage").locked = locked
<1> DEFINE t == Target(p, "storage")
           obj == [p[t] EXCEPT !.locked = locked]
           q == [p EXCEPT ![t] = obj]
<1>1. t \in {"storage", "archive"} /\ t \in Pools
  BY SoundFacts DEF Pools
<1>2. p[t] # NoObject /\ p[t].locked # locked
  BY DEF SetLock, Fails
<1>3. p[t] \in Object
  BY <1>1, <1>2 DEF Places
<1>4. SetLock(p, "storage", locked).p = q
  BY <1>1, <1>2 DEF SetLock, Ok, Places
<1>5. /\ obj \in Object /\ obj # NoObject
      /\ obj.data = p[t].data /\ obj.tier = p[t].tier
      /\ obj.redirect = p[t].redirect /\ obj.locked = locked
  BY <1>3, RadosAssumption DEF Object
<1>6. p["storage"] # NoObject
  BY <1>2 DEF Target
<1> HIDE DEF obj, t
<1>7. q[t] = obj /\ \A other \in Pools \ {t} : q[other] = p[other]
  BY <1>1 DEF Places
<1> HIDE DEF q
<1>8. CASE t = "storage"
  <2>1. q["storage"] = obj /\ q["archive"] = p["archive"]
    BY <1>7, <1>8 DEF Pools
  <2>2. p["storage"].redirect = "none"
    BY <1>6, <1>8, SoundFacts DEF t
  <2>3. Reached(q, "storage") = obj /\ Reached(p, "storage") = p["storage"]
    BY <1>5, <1>8, <2>1, <2>2 DEF Reached, Target
  <2>4. Sound(q)
    BY <1>5, <1>6, <1>8, <2>1, <2>2 DEF Sound
  <2> QED
    BY <1>2, <1>4, <1>5, <1>6, <1>8, <2>1, <2>3, <2>4
<1>9. CASE t = "archive"
  <2>1. q["archive"] = obj /\ q["storage"] = p["storage"]
    BY <1>7, <1>9 DEF Pools
  <2>2. p["storage"].redirect = "archive"
    BY <1>9, SoundFacts DEF t
  <2>3. Reached(q, "storage") = obj /\ Reached(p, "storage") = p["archive"]
    BY <1>5, <1>6, <2>1, <2>2 DEF Reached, Target
  <2>4. Sound(q)
    BY <1>5, <1>6, <1>9, <2>1, <2>2 DEF Sound
  <2> QED
    BY <1>2, <1>4, <1>5, <1>6, <1>9, <2>1, <2>3, <2>4
<1> QED
  BY <1>1, <1>8, <1>9

-----------------------------------------------------------------------------
(* The steps of the threads.                                               *)

\* An object stays safe while its places stay, and movers leave or stay.
LEMMA MicroFrame ==
  ASSUME NEW o \in Objects, MicroSafe(o), store'[o] = store[o],
         \A th \in Threads : th \in Movers(o)' => thread'[th] = thread[th]
  PROVE  MicroSafe(o)'
<1>1. ASSUME NEW th \in Movers(o)' PROVE th \in Movers(o) /\ thread'[th] = thread[th]
  BY <1>1 DEF Movers, Workers, Obj
<1> QED
  BY <1>1 DEF MicroSafe

\* A step of the mover of an object, to a step at which it holds what that
\* relies on, or out of the lock.
LEMMA MicroOnward ==
  ASSUME AllMicroSafe, NEW th \in Threads, NEW o \in Objects, o = Obj(th),
         thread[th].at \in Inside, NEW next, NEW p, Moved(th, next, p),
         Sound(p), next \in Inside => HeldAt(p, next)
  PROVE  AllMicroSafe'
<1>1. th \in Movers(o) /\ MicroSafe(o)
  BY DEF Movers, Workers, Inside, AllMicroSafe
<1>2. ASSUME NEW u \in Movers(o)' PROVE u = th /\ next \in Inside /\ thread'[u].at = next
  <2>1. u \in Movers(o)
    BY <1>1, <1>2 DEF Moved, Movers, Workers, Obj
  <2> QED
    BY <1>1, <1>2, <2>1 DEF MicroSafe, Moved, Movers
<1>3. store'[o] = p
  BY DEF Moved
<1>4. MicroSafe(o)'
  BY <1>2, <1>3 DEF MicroSafe
<1>5. ASSUME NEW other \in Objects \ {o} PROVE MicroSafe(other)'
  BY MicroFrame DEF AllMicroSafe, Moved, Movers, Workers, Obj
<1> QED
  BY <1>4, <1>5 DEF AllMicroSafe

\* Steps of threads that do not move an object.
LEMMA MicroAside ==
  ASSUME AllMicroSafe, store' = store,
         \A th \in Threads : thread'[th] = thread[th] \/ thread'[th].at \notin Inside
  PROVE  AllMicroSafe'
BY MicroFrame DEF AllMicroSafe, Movers

\* When the process ends there are no movers.
LEMMA MicroAbortSafe ==
  ASSUME AllMicroSafe, store' = store, \A th \in Threads : thread'[th] = IdleThread
  PROVE  AllMicroSafe'
BY MicroAside DEF IdleThread, Inside

\* What a mover holds, and what of it remains when its operation failed.
LEMMA HeldFacts ==
  ASSUME MicroTyped, AllMicroSafe, NEW th \in Threads, thread[th].at \in Inside
  PROVE  /\ Obj(th) \in Objects /\ Place(th) = store[Obj(th)] /\ Place(th) \in Places
         /\ Sound(Place(th)) /\ HeldAt(Place(th), thread[th].at)
         /\ HeldAt(Place(th), "unlock") /\ HeldAt(Place(th), "unlock_early")
         /\ thread[th].at = "replace" => HeldAt(Place(th), "copy_down")
<1>1. Obj(th) \in Objects /\ Place(th) = store[Obj(th)] /\ Place(th) \in Places
  BY BusyTypes DEF MicroTyped, Place, Inside
<1>2. th \in Movers(Obj(th)) /\ MicroSafe(Obj(th))
  BY <1>1 DEF Movers, Workers, Inside, AllMicroSafe
<1>3. Sound(Place(th)) /\ HeldAt(Place(th), thread[th].at)
  BY <1>1, <1>2 DEF MicroSafe
<1> QED
  BY <1>1, <1>3 DEF HeldAt

\* An operation of a mover: after a success it holds what the next step relies
\* on, and after a failure nothing has changed.
LEMMA MicroOperateSafe ==
  ASSUME MicroTyped, AllMicroSafe, NEW th \in Threads, NEW step \in Inside, At(th, step),
         NEW answer \in Answer, answer.r # "ok" => answer.p = Place(th),
         NEW after \in Inside, NEW failed \in Inside,
         \/ OperateOn("storage", th, step, answer, after, failed)
         \/ OperateShadowedOn("storage", th, step, answer, after, failed),
         answer.r = "ok" => Sound(answer.p) /\ HeldAt(answer.p, after),
         HeldAt(Place(th), failed)
  PROVE  AllMicroSafe'
<1>1. Inside \subseteq Steps \ {"idle"} /\ thread[th].at \in Inside
  BY DEF Inside, Steps, At
<1>2. \/ answer.r = "ok" /\ Moved(th, after, answer.p)
      \/ Moved(th, failed, Place(th))
  BY <1>1, OperateMoves DEF MicroTyped
<1>3. Obj(th) \in Objects /\ Sound(Place(th))
  BY <1>1, HeldFacts
<1>4. PICK o \in Objects : o = Obj(th)
  BY <1>3
<1> QED
  BY <1>1, <1>2, <1>3, <1>4, MicroOnward

\* The operations of a move, except those of the lock.
LEMMA MicroMovingSafe ==
  ASSUME MicroTyped, AllMicroSafe, NEW th \in Threads,
         \/ MicroUnlink(th) \/ MicroPromote(th) \/ MicroRmSource(th) \/ MicroHint(th)
         \/ MicroReplace(th)
  PROVE  AllMicroSafe'
<1>1. thread[th].at \in {"unlink", "promote", "rm_source", "hint", "replace"}
  BY DEF MicroUnlink, MicroPromote, MicroRmSource, MicroHint, MicroReplace, OperateOn,
         OperateShadowedOn, At
<1>2. thread[th].at \in Inside
  BY <1>1 DEF Inside
<1> DEFINE p == Place(th)
<1>3. /\ p \in Places /\ Sound(p) /\ HeldAt(p, thread[th].at)
      /\ HeldAt(p, "unlock") /\ HeldAt(p, "unlock_early")
      /\ thread[th].at = "replace" => HeldAt(p, "copy_down")
  BY <1>2, HeldFacts
<1> HIDE DEF p
<1>4. {"unlink", "promote", "rm_source", "hint", "copy_down", "replace", "unlock", "unlock_early"}
         \subseteq Inside
  BY DEF Inside
<1>5. CASE MicroUnlink(th)
  <2> DEFINE answer == RemoveAt(p, "storage")
  <2>1. At(th, "unlink") /\ OperateOn("storage", th, "unlink", answer, "promote", "unlock_early")
    BY <1>5 DEF MicroUnlink, OperateOn, p
  <2>2. answer \in Answer /\ (answer.r # "ok" => answer.p = Place(th))
    BY <1>2, MicroAnswers DEF p, RemoveAt, Ok, Fails
  <2>3. Sound(answer.p) /\ HeldAt(answer.p, "promote")
    BY <1>3, <2>1, MicroUnlinkKeeps DEF At
  <2> HIDE DEF answer
  <2> QED
    BY <1>3, <1>4, <2>1, <2>2, <2>3, MicroOperateSafe DEF p
<1>6. CASE MicroPromote(th)
  <2> DEFINE answer == CopyFromTier(p, "storage", "archive", NameOf(Asked(th)))
  <2>1. At(th, "promote") /\ OperateOn("storage", th, "promote", answer, "rm_source", "unlock")
    BY <1>6 DEF MicroPromote, OperateOn, p
  <2>2. answer \in Answer /\ (answer.r # "ok" => answer.p = Place(th))
    BY <1>2, MicroAnswers DEF p, CopyFromTier, Ok, Fails
  <2>3. Asked(th) \in Tiers /\ Asked(th) # "ARCHIVE"
    <3>1. thread[th].at # "idle" /\ thread[th].req.op = "move" /\ Asked(th) # "ARCHIVE"
      BY <2>1 DEF At, MicroTyped, MicroFits, MicroFitsAt, Inside
    <3> QED
      BY <3>1, AskedTypes DEF MicroTyped
  <2>4. Sound(answer.p) /\ HeldAt(answer.p, "rm_source")
    BY <1>3, <2>1, <2>3, MicroPromoteKeeps DEF At
  <2> HIDE DEF answer
  <2> QED
    BY <1>3, <1>4, <2>1, <2>2, <2>4, MicroOperateSafe DEF p
<1>7. CASE MicroRmSource(th)
  <2> DEFINE answer == Remove(p, "archive")
  <2>1. At(th, "rm_source") /\ OperateOn("storage", th, "rm_source", answer, "unlock", "unlock")
    BY <1>7 DEF MicroRmSource, OperateOn, p
  <2>2. answer \in Answer /\ (answer.r # "ok" => answer.p = Place(th))
    BY <1>2, MicroAnswers DEF p, Remove, RemoveAt, Ok, Fails
  <2>3. answer.r = "ok" => p["archive"] # NoObject
    BY <1>3, SoundFacts DEF Remove, RemoveAt, Fails
  <2>4. answer.r = "ok" => Sound(answer.p) /\ HeldAt(answer.p, "unlock")
    BY <1>3, <2>1, <2>3, MicroRmSourceKeeps DEF At
  <2> HIDE DEF answer
  <2> QED
    BY <1>3, <1>4, <2>1, <2>2, <2>4, MicroOperateSafe DEF p
<1>8. CASE MicroHint(th)
  <2> DEFINE answer == AllocHint(p, "storage")
  <2>1. At(th, "hint") /\ OperateOn("storage", th, "hint", answer, "unlock", "unlock")
    BY <1>8 DEF MicroHint, OperateOn, p
  <2>2. answer.p = p
    BY <1>3, <2>1, MicroHintKeeps DEF At
  <2>3. answer \in Answer
    BY <1>2, MicroAnswers DEF p
  <2> HIDE DEF answer
  <2> QED
    BY <1>3, <1>4, <2>1, <2>2, <2>3, MicroOperateSafe DEF p
<1>9. CASE MicroReplace(th)
  <2> DEFINE answer == SetRedirectIf(p, "storage", th \in current, "archive", "archive")
  <2>1. At(th, "replace") /\ OperateShadowedOn("storage", th, "replace", answer, "unlock", "copy_down")
    BY <1>9 DEF MicroReplace, OperateShadowedOn, p
  <2>2. answer \in Answer /\ (answer.r # "ok" => answer.p = Place(th))
    BY <1>2, MicroAnswers DEF p, SetRedirectIf, Ok, Fails
  <2>3. answer.r = "ok" => answer = SetRedirectIf(p, "storage", TRUE, "archive", "archive")
    BY DEF SetRedirectIf, Ok, Fails
  <2>4. answer.r = "ok" => Sound(answer.p) /\ HeldAt(answer.p, "unlock")
    BY <1>3, <2>1, <2>3, MicroReplaceKeeps DEF At
  <2> HIDE DEF answer
  <2> QED
    BY <1>3, <1>4, <2>1, <2>2, <2>4, MicroOperateSafe DEF At, p
<1> QED
  BY <1>5, <1>6, <1>7, <1>8, <1>9

\* The copy of a demotion.
LEMMA MicroCopyDownSafe ==
  ASSUME MicroTyped, AllMicroSafe, NEW th \in Threads, MicroCopyDown(th)
  PROVE  AllMicroSafe'
<1> DEFINE p == Place(th)
           answer == CopyFrom(p, "archive", "storage")
<1>1. thread[th].at = "copy_down" /\ thread[th].at \in Inside /\ thread[th].at # "idle"
  BY DEF MicroCopyDown, CopyDownOn, At, Inside
<1>2. /\ p \in Places /\ Sound(p) /\ HeldAt(p, "copy_down") /\ HeldAt(p, "unlock")
      /\ Obj(th) \in Objects
  BY <1>1, HeldFacts
<1>3. answer \in Answer /\ (answer.r # "ok" => answer.p = p)
  BY <1>1, MicroAnswers DEF CopyFrom, Ok, Fails
<1>4. Sound(answer.p) /\ HeldAt(answer.p, "replace")
  BY <1>2, MicroCopyDownKeeps
<1>5. PICK a \in Answers(th, answer) :
         /\ store' = [store EXCEPT ![Obj(th)] = a.p]
         /\ Goto(th, IF a.r = "ok" THEN "replace" ELSE "unlock")
  BY DEF MicroCopyDown, CopyDownOn
<1> HIDE DEF answer
<1>6. PICK next \in {"replace", "unlock"} :
         /\ next = IF a.r = "ok" THEN "replace" ELSE "unlock"
         /\ next \in Steps /\ next \in Inside
  BY DEF Steps, Inside
<1>7. /\ a.p \in Places
      /\ a.r = "ok" => a.p = answer.p
      /\ a.r # "ok" => a.p = p
  BY <1>1, <1>3, AnswersTypes DEF MicroTyped
<1>8. "ok" \in Results
  BY DEF Results
<1>9. Moved(th, next, a.p)
  <2>1. /\ store'[Obj(th)] = a.p
        /\ \A o \in Objects \ {Obj(th)} : store'[o] = store[o]
    BY <1>2, <1>5 DEF MicroTyped, TypeOK
  <2> QED
    BY <1>1, <1>5, <1>6, <1>8, <2>1, GotoTypes DEF Moved, MicroTyped, At
<1>10. Sound(a.p) /\ HeldAt(a.p, next)
  BY <1>2, <1>4, <1>6, <1>7
<1>11. PICK o \in Objects : o = Obj(th)
  BY <1>2
<1> QED
  BY <1>1, <1>9, <1>10, <1>11, MicroOnward

\* Lock: nobody else is a mover of the object, for it was not locked.
LEMMA MicroLockSafe ==
  ASSUME MicroTyped, AllMicroSafe, NEW th \in Threads, NEW o \in Objects, o = Obj(th),
         thread[th].at = "lock",
         SetLock(store[o], "storage", TRUE).r = "ok",
         Moved(th, "locate", SetLock(store[o], "storage", TRUE).p)
  PROVE  AllMicroSafe'
<1> DEFINE p == store[o]
           q == SetLock(p, "storage", TRUE).p
<1>1. p \in Places /\ MicroSafe(o) /\ Sound(p)
  BY DEF MicroTyped, TypeOK, AllMicroSafe, MicroSafe
<1>2. /\ Sound(q)
      /\ p["storage"] # NoObject /\ Reached(p, "storage").locked # TRUE
      /\ q["storage"] # NoObject /\ Reached(q, "storage").locked = TRUE
  BY <1>1, MicroSetLockKeeps
<1> HIDE DEF q, p
<1>3. store'[o] = q
  BY DEF Moved, q, p
<1>4. Movers(o) = {}
  <2>1. ASSUME NEW u \in Movers(o) PROVE FALSE
    <3>1. HeldAt(p, thread[u].at)
      BY <1>1, <2>1 DEF MicroSafe, p
    <3> QED
      BY <1>2, <3>1 DEF HeldAt
  <2> QED
    BY <2>1
<1>5. ASSUME NEW u \in Movers(o)' PROVE u = th /\ thread'[u].at = "locate"
  BY <1>4, <1>5 DEF Moved, Movers, Workers, Obj
<1>6. HeldAt(q, "locate")
  BY <1>2 DEF HeldAt
<1>7. MicroSafe(o)'
  BY <1>2, <1>3, <1>5, <1>6 DEF MicroSafe
<1>8. ASSUME NEW other \in Objects \ {o} PROVE MicroSafe(other)'
  BY MicroFrame DEF AllMicroSafe, Moved, Movers, Workers, Obj
<1> QED
  BY <1>7, <1>8 DEF AllMicroSafe

\* Lock and Unlock: the operation succeeds, or the process ends.
LEMMA MicroLockingSafe ==
  ASSUME MicroTyped, AllMicroSafe, NEW th \in Threads,
         LockOn("storage", th) \/ UnlockOn("storage", th)
  PROVE  AllMicroSafe'
<1>1. thread[th].at \in {"lock", "unlock", "unlock_early"}
  BY DEF LockOn, UnlockOn, OperateAssertedOn, At
<1>2. PICK o \in Objects : o = Obj(th) /\ Place(th) = store[o] /\ store[o] \in Places
  BY <1>1, BusyTypes DEF MicroTyped, Place
<1>3. \A locked \in BOOLEAN : SetLock(store[o], "storage", locked) \in Answer
  BY <1>2, LockTypes DEF Pools
<1>4. MicroSafe(o) /\ Sound(store[o]) /\ "ok" \in Results
  BY DEF AllMicroSafe, MicroSafe, Results
<1>5. PICK locked \in BOOLEAN, after \in {"locate", "finish", "early"} :
      \E a \in Answers(th, SetLock(store[o], "storage", locked)) :
         /\ \/ thread[th].at = "lock" /\ locked = TRUE /\ after = "locate"
            \/ /\ thread[th].at \in {"unlock", "unlock_early"} /\ locked = FALSE
               /\ after \in {"finish", "early"}
         /\ \/ a.r = "ok" /\ TakesOn("storage", th, a) /\ Goto(th, after)
            \/ Abort /\ store' = store
  <2>1. CASE LockOn("storage", th)
    BY <1>2, <2>1 DEF LockOn, OperateAssertedOn, AbortAfter, At
  <2>2. CASE UnlockOn("storage", th)
    BY <1>2, <2>2 DEF UnlockOn, OperateAssertedOn, AbortAfter, At
  <2> QED
    BY <2>1, <2>2
<1>6. PICK a \in Answers(th, SetLock(store[o], "storage", locked)) :
         /\ \/ thread[th].at = "lock" /\ locked = TRUE /\ after = "locate"
            \/ /\ thread[th].at \in {"unlock", "unlock_early"} /\ locked = FALSE
               /\ after \in {"finish", "early"}
         /\ \/ a.r = "ok" /\ TakesOn("storage", th, a) /\ Goto(th, after)
            \/ Abort /\ store' = store
  BY <1>5
<1>7. CASE Abort /\ store' = store
  BY <1>7, MicroAbortSafe DEF Abort
<1>8. CASE a.r = "ok" /\ TakesOn("storage", th, a) /\ Goto(th, after)
  <2> DEFINE answer == SetLock(store[o], "storage", locked)
  <2>1. answer \in Answer
    BY <1>3
  <2> HIDE DEF answer
  <2>2. a = answer /\ a.p \in Places
    BY <1>1, <1>6, <1>8, <2>1, AnswersTypes DEF MicroTyped, answer
  <2>3. after \in Steps
    BY DEF Steps
  <2>4. Moved(th, after, answer.p) /\ answer.r = "ok"
    BY <1>1, <1>4, <1>8, <2>2, <2>3, TakesMoves DEF MicroTyped
  <2>5. CASE thread[th].at = "lock"
    BY <1>2, <1>6, <2>4, <2>5, MicroLockSafe DEF answer
  <2>6. CASE thread[th].at \in {"unlock", "unlock_early"}
    <3>1. thread[th].at \in Inside /\ after \notin Inside
      BY <1>6, <2>6 DEF Inside
    <3>2. Sound(answer.p)
      BY <1>2, <1>4, <2>4, MicroSetLockKeeps DEF answer
    <3> QED
      BY <1>2, <2>4, <3>1, <3>2, MicroOnward
  <2> QED
    BY <1>6, <2>5, <2>6
<1> QED
  BY <1>6, <1>7, <1>8

\* GetLocation finds a tier, or the process ends.  It finds the archive only
\* if the storage pool has a redirect.
LEMMA MicroLocateSafe ==
  ASSUME MicroTyped, AllMicroSafe, NEW th \in Threads, MicroLocate(th)
  PROVE  AllMicroSafe'
<1>1. thread[th].at = "locate" /\ thread[th].at \in Inside
  BY DEF MicroLocate, LocateOn, At, Inside
<1>2. thread[th] \in [at : Steps, req : Requests, tier : Tiers, r : Results]
  BY <1>1, BusyTypes DEF MicroTyped
<1> DEFINE p == Place(th)
<1>3. /\ Obj(th) \in Objects /\ p = store[Obj(th)] /\ p \in Places
      /\ Sound(p) /\ HeldAt(p, "locate")
  BY <1>1, HeldFacts
<1>4. CASE Abort /\ store' = store
  BY <1>4, MicroAbortSafe DEF Abort
<1>5. ASSUME NEW tier \in Tiers, NameOf(tier) = Reached(p, "storage").tier,
             thread' = [thread EXCEPT ![th] = [@ EXCEPT !.at = MicroNext(th)[tier], !.tier = tier]],
             UNCHANGED <<store, current, status, bounds>>
      PROVE  AllMicroSafe'
  <2>1. PICK step \in {"unlock", "unlink", "copy_down", "hint"} :
           /\ step = MicroNext(th)[tier]
           /\ step = "unlink" => tier = "ARCHIVE"
    BY DEF MicroNext
  <2>2. step = "unlink" => p["storage"].redirect = "archive"
    <3>1. step = "unlink" => Reached(p, "storage").tier = "archive"
      BY <1>5, <2>1 DEF NameOf
    <3> QED
      BY <1>3, <3>1, SoundFacts DEF Sound, HeldAt
  <2>3. HeldAt(p, step)
    BY <1>3, <2>2 DEF HeldAt
  <2>4. Inside \subseteq Steps /\ step \in Inside
    BY <2>1 DEF Inside, Steps
  <2>5. /\ thread'[th].at = step /\ thread'[th].req = thread[th].req
        /\ \A u \in Threads \ {th} : thread'[u] = thread[u]
    BY <1>2, <1>5, <2>1 DEF MicroTyped, TypeOK
  <2>6. PICK o \in Objects : o = Obj(th)
    BY <1>3
  <2>7. MicroSafe(o)'
    <3>1. th \in Movers(o) /\ MicroSafe(o)
      BY <1>1, <2>6 DEF Movers, Workers, Inside, AllMicroSafe
    <3>2. ASSUME NEW u \in Movers(o)' PROVE u = th
      BY <3>1, <3>2, <2>5 DEF MicroSafe, Movers, Workers, Obj
    <3>3. store'[o] = p
      BY <1>3, <1>5, <2>6
    <3> QED
      BY <1>3, <2>3, <2>5, <3>2, <3>3 DEF MicroSafe
  <2>8. ASSUME NEW other \in Objects \ {o} PROVE MicroSafe(other)'
    BY <1>5, <2>5, <2>6, MicroFrame DEF AllMicroSafe, Movers, Workers, Obj
  <2> QED
    BY <2>7, <2>8 DEF AllMicroSafe
<1>6. LocateOn("storage", th, MicroNext(th))
  BY DEF MicroLocate, MicroNext
<1> QED
  BY <1>4, <1>5, <1>6 DEF LocateOn, Named, AbortAfter

\* Read changes nothing.
LEMMA MicroReadSafe ==
  ASSUME MicroTyped, AllMicroSafe, NEW th \in Threads, ReadOn("storage", th)
  PROVE  AllMicroSafe'
<1> DEFINE answer == IF Reached(Place(th), "storage") = NoObject THEN Fails(Place(th), "enoent")
                                                                ELSE Ok(Place(th), "none")
<1>1. thread[th].at = "read"
  BY DEF ReadOn, OperateOn, At
<1>2. PICK o \in Objects : o = Obj(th) /\ Place(th) = store[o] /\ store[o] \in Places
  BY <1>1, BusyTypes DEF MicroTyped, Place
<1>3. answer \in Answer /\ answer.p = store[o]
  <2>1. Fails(store[o], "enoent") \in Answer /\ Ok(store[o], "none") \in Answer
    BY <1>2, AnswerTypes
  <2> QED
    BY <1>2, <2>1 DEF Fails, Ok
<1>4. OperateOn("storage", th, "read", answer, "finish", "finish")
  BY DEF ReadOn
<1> HIDE DEF answer
<1>5. {"read", "finish"} \subseteq Steps \ {"idle"} /\ "finish" \notin Inside
  BY DEF Steps, Inside
<1>6. Moved(th, "finish", store[o])
  BY <1>2, <1>3, <1>4, <1>5, OperateMoves DEF MicroTyped
<1>7. ASSUME NEW other \in Objects PROVE MicroSafe(other)'
  <2>1. store'[other] = store[other]
    BY <1>2, <1>6 DEF Moved
  <2>2. \A u \in Threads : u \in Movers(other)' => thread'[u] = thread[u]
    BY <1>5, <1>6 DEF Moved, Movers
  <2> QED
    BY <2>1, <2>2, MicroFrame DEF AllMicroSafe
<1> QED
  BY <1>7 DEF AllMicroSafe

\* An operation begins outside the lock.
LEMMA MicroStartSafe ==
  ASSUME MicroTyped, AllMicroSafe, NEW th \in Threads, NEW req \in Requests, Start(th, req)
  PROVE  AllMicroSafe'
<1>1. FirstStep(req) \notin Inside
  BY ObjectMoverAssumption DEF Request, FirstStep, Inside
<1>2. \A u \in Threads : thread'[u] = thread[u] \/ thread'[u].at = FirstStep(req)
  BY DEF Start, Begin, MicroTyped, TypeOK
<1> QED
  BY <1>1, <1>2, MicroAside DEF Start, Begin

\* An operation ends outside the lock.
LEMMA MicroEndSafe ==
  ASSUME MicroTyped, AllMicroSafe, NEW th \in Threads, End(th)
  PROVE  AllMicroSafe'
<1>1. \A u \in Threads : thread'[u] = thread[u] \/ thread'[u] = IdleThread
  BY DEF End, MicroTyped, TypeOK
<1> QED
  BY <1>1, MicroAside DEF End, IdleThread, Inside

\* Only moves and reads are under way.
LEMMA MicroOnlyMovers ==
  ASSUME OnlyMoves, MicroTyped, NEW th \in Threads
  PROVE  ~ MicroCreate(th) /\ ~ MicroDelete(th)
<1>1. SUFFICES ASSUME MicroCreate(th) \/ MicroDelete(th) PROVE FALSE
  OBVIOUS
<1>2. thread[th].at \in {"write", "dummy", "link", "rm_target", "rm_self"}
  BY <1>1 DEF MicroCreate, MicroWrite, MicroDummy, MicroLink, MicroDelete, MicroRmTarget,
              MicroRmSelf, OperateOn, At
<1>3. thread[th].req.op \in {"create", "delete"}
  BY <1>2 DEF MicroTyped, MicroFits, MicroFitsAt
<1>4. thread[th].req \in Requests
  BY <1>2, BusyTypes DEF MicroTyped
<1> QED
  BY <1>3, <1>4 DEF OnlyMoves

\* With moves and reads alone every step of a thread keeps all objects safe.
LEMMA MicroWorkSafe ==
  ASSUME OnlyMoves, MicroTyped, AllMicroSafe, NEW th \in Threads, MicroWork(th)
  PROVE  AllMicroSafe'
BY MicroOnlyMovers, MicroReadSafe, MicroLockingSafe, MicroLocateSafe, MicroMovingSafe,
   MicroCopyDownSafe, MicroEndSafe DEF MicroWork, MicroMove

\* An object has at most one mover.
LEMMA MicroExcludes ==
  ASSUME AllMicroSafe, NEW o \in Objects
  PROVE  Cardinality(Movers(o)) <= 1
<1>1. MicroSafe(o)
  BY DEF AllMicroSafe
<1>2. CASE Movers(o) = {}
  BY <1>2, FS_EmptySet
<1>3. ASSUME NEW th \in Movers(o) PROVE Cardinality(Movers(o)) = 1
  <2>1. Movers(o) = {th}
    BY <1>1, <1>3 DEF MicroSafe
  <2> QED
    BY <2>1, FS_Singleton
<1> QED
  BY <1>2, <1>3

-----------------------------------------------------------------------------
(* The initial states.                                                     *)

\* The objects of the initial states have the right types, and are sound.
LEMMA MicroCreatedTypes ==
  ASSUME NEW tier \in Tiers
  PROVE  MicroCreated(tier, InitialData) \in Places /\ Sound(MicroCreated(tier, InitialData))
<1> DEFINE obj == [NewObject(InitialData) EXCEPT !.tier = NameOf(tier)]
           link == [NewObject(Empty) EXCEPT !.redirect = "archive"]
           p == MicroCreated(tier, InitialData)
<1>1. obj \in Object /\ link \in Object /\ NoObject \notin Object
  BY ObjectMoverAssumption, RadosAssumption
     DEF NewObject, Object, NameOf, Tiers, TierNames
<1>2. /\ obj.data = InitialData /\ obj.redirect = "none"
      /\ tier # "ARCHIVE" => obj.tier # "archive"
      /\ link.redirect = "archive"
  BY DEF NewObject, NameOf, Tiers
<1> HIDE DEF obj, link
<1>3. /\ p \in Places
      /\ p["storage"] = IF tier = "ARCHIVE" THEN link ELSE obj
      /\ p["archive"] = IF tier = "ARCHIVE" THEN obj ELSE NoObject
  BY <1>1 DEF MicroCreated, obj, link, Nowhere, Places, Pools
<1> HIDE DEF p
<1> QED
  BY <1>1, <1>2, <1>3 DEF Sound, p
=============================================================================
