---------------------------- MODULE DemotionProofs ----------------------------
(***************************************************************************)
(* Proofs about the lock in both builds when objects are only demoted and  *)
(* read, while applications write them: for any number of threads and      *)
(* objects, and any number of operations, writes, failures and crashes.    *)
(* That nobody sees the demotions is shown in BuildsProofs; its invariant  *)
(* is where the proofs of this module start.                               *)
(***************************************************************************)
EXTENDS BuildsProofs

-----------------------------------------------------------------------------
(* The lock of an object: whatever is done to an object that carries it,   *)
(* the lock is where the next operation looks for it.                      *)

\* The object that operations sent to the base pool work on carries the lock.
Carries(p, base) == Reached(p, base).locked = TRUE

\* The copy in the pool below carries it.
CopyCarries(p, below) == p[below].locked = TRUE

\* An operation that replaces the object it works on.
LEMMA ReachedAfter ==
  ASSUME NEW base \in {"cache", "storage"}, NEW below \in Lower \ {base},
         NEW p \in Places, Demoted(p, base, below),
         NEW obj \in Object, obj.redirect = "none"
  PROVE  LET q == [p EXCEPT ![Target(p, base)] = obj]
         IN  /\ Reached(q, base) = obj
             /\ q[below] = IF Target(p, base) = below THEN obj ELSE p[below]
<1> DEFINE t == Target(p, base)
           q == [p EXCEPT ![t] = obj]
<1>1. {base, below} \subseteq Pools /\ base # below /\ below # "none" /\ t \in {base, below}
  BY DemotedFacts DEF Pools, Lower
<1>2. q[t] = obj /\ \A other \in {base, below} \ {t} : q[other] = p[other]
  BY <1>1 DEF Places
<1>3. t = base <=> p[base].redirect = "none"
  BY DemotedFacts
<1>4. t = below => p[base].redirect = below /\ p[base] # NoObject
  BY DemotedFacts DEF Demoted
<1> HIDE DEF q, t
<1>5. Reached(q, base) = obj
  <2>1. CASE t = base
    BY <1>1, <1>2, <2>1 DEF Reached, Target
  <2>2. CASE t = below
    BY <1>1, <1>2, <1>4, <2>2 DEF Reached, Target
  <2> QED
    BY <1>1, <2>1, <2>2
<1>6. q[below] = IF t = below THEN obj ELSE p[below]
  BY <1>1, <1>2
<1> QED
  BY <1>5, <1>6 DEF q, t

\* Lock succeeds if the object is not locked, Unlock if it is.
LEMMA LockTurns ==
  ASSUME NEW base \in {"cache", "storage"}, NEW below \in Lower \ {base},
         NEW p \in Places, Demoted(p, base, below), NEW locked \in BOOLEAN
  PROVE  LET a == SetLock(p, base, locked)
         IN  /\ a.r = IF Carries(p, base) = locked THEN "canceled" ELSE "ok"
             /\ a.r = "ok" => Carries(a.p, base) = locked
<1> DEFINE t == Target(p, base)
           obj == [p[t] EXCEPT !.locked = locked]
<1>1. /\ t \in Pools /\ p[t] \in Object /\ p[t] # NoObject
      /\ p[t].redirect = "none" /\ Reached(p, base) = p[t]
  BY DemotedFacts DEF Pools, Lower
<1>2. obj \in Object /\ obj.redirect = "none" /\ obj.locked = locked
  BY <1>1 DEF Object
<1>3. p[t].locked \in BOOLEAN /\ (Carries(p, base) = locked <=> p[t].locked = locked)
  BY <1>1 DEF Carries, Object
<1>4. CASE p[t].locked = locked
  BY <1>1, <1>3, <1>4 DEF SetLock, Fails
<1>5. CASE p[t].locked # locked
  <2>1. SetLock(p, base, locked) = Ok([p EXCEPT ![t] = obj], t)
    BY <1>1, <1>5 DEF SetLock, Places
  <2> HIDE DEF t, obj
  <2>2. Reached([p EXCEPT ![t] = obj], base) = obj
    BY <1>2, ReachedAfter DEF t
  <2>3. Carries([p EXCEPT ![t] = obj], base) = locked
    BY <1>2, <2>2 DEF Carries
  <2> QED
    BY <1>3, <1>5, <2>1, <2>3 DEF Ok
<1> QED
  BY <1>4, <1>5

\* A copy carries the lock of what was copied, which keeps it.
LEMMA CopyTakesLock ==
  ASSUME NEW base \in {"cache", "storage"}, NEW below \in Lower \ {base},
         NEW p \in Places, Demoted(p, base, below), Carries(p, base)
  PROVE  LET q == CopyFrom(p, below, base).p
         IN  Carries(q, base) /\ CopyCarries(q, below)
<1> DEFINE obj == Reached(p, base)
           q == [p EXCEPT ![below] = obj]
<1>1. /\ Target(p, below) = below /\ below \in Pools /\ base \in Pools /\ base # below
      /\ obj \in Object /\ obj # NoObject /\ obj.redirect = "none"
      /\ obj = p[Target(p, base)] /\ Target(p, base) \in {base, below}
  BY DemotedFacts DEF Pools, Lower
<1>2. CopyFrom(p, below, base).p = q
  BY <1>1 DEF CopyFrom, Ok
<1>3. q[below] = obj /\ q[base] = p[base]
  BY <1>1 DEF Places
<1> HIDE DEF q
<1>4. Target(q, base) = Target(p, base)
  BY <1>3 DEF Target
<1>5. Reached(q, base) = obj
  BY <1>1, <1>3, <1>4 DEF Reached
<1> QED
  BY <1>2, <1>3, <1>5 DEF Carries, CopyCarries

\* The redirect that replaces the object leads to the copy and its lock.
LEMMA RedirectLeadsToLock ==
  ASSUME NEW base \in {"cache", "storage"}, NEW below \in Lower \ {base},
         NEW p \in Places, Demoted(p, base, below), CopyCarries(p, below),
         NEW name \in TierNames
  PROVE  LET q == SetRedirectIf(p, base, TRUE, below, name).p
         IN  Carries(q, base)
<1> DEFINE link == [p[base] EXCEPT !.redirect = below, !.data = Empty, !.tier = name]
           q == [p EXCEPT ![base] = link]
<1>1. base \in Pools /\ below \in Pools /\ base # below /\ below # "none"
      /\ p[base] \in Object /\ p[base] # NoObject
  BY DemotedFacts DEF Pools, Lower, Demoted
<1>2. SetRedirectIf(p, base, TRUE, below, name).p = q
  BY <1>1 DEF SetRedirectIf, Ok, Places
<1>3. link.redirect = below
  BY <1>1 DEF Object
<1>4. link # NoObject
  <2>1. link \in Object
    BY <1>1 DEF Object, Lower
  <2> QED
    BY <2>1, RadosAssumption
<1> HIDE DEF link
<1>5. q[base] = link /\ q[below] = p[below]
  BY <1>1 DEF Places
<1> HIDE DEF q
<1>6. Reached(q, base) = p[below]
  BY <1>1, <1>3, <1>4, <1>5 DEF Reached, Target
<1> QED
  BY <1>2, <1>6 DEF Carries, CopyCarries

\* An application's write keeps the lock, and that of a copy.
LEMMA WriteKeepsLock ==
  ASSUME NEW base \in {"cache", "storage"}, NEW below \in Lower \ {base},
         NEW p \in Places, Demoted(p, base, below), NEW data \in Values
  PROVE  LET q == WriteFull(p, base, data).p
         IN  /\ Carries(q, base) <=> Carries(p, base)
             /\ CopyCarries(p, below) => CopyCarries(q, below)
<1> DEFINE t == Target(p, base)
           obj == [p[t] EXCEPT !.data = data]
<1>1. /\ t \in {base, below} /\ t \in Pools /\ p[t] \in Object /\ p[t] # NoObject
      /\ p[t].redirect = "none" /\ Reached(p, base) = p[t]
  BY DemotedFacts DEF Pools, Lower
<1>2. obj \in Object /\ obj.redirect = "none" /\ obj.locked = p[t].locked
  BY <1>1 DEF Object
<1>3. WriteFull(p, base, data).p = [p EXCEPT ![t] = obj]
  BY <1>1 DEF WriteFull, Existing, Ok
<1> HIDE DEF t, obj
<1>4. /\ Reached([p EXCEPT ![t] = obj], base) = obj
      /\ [p EXCEPT ![t] = obj][below] = IF t = below THEN obj ELSE p[below]
  BY <1>2, ReachedAfter DEF t
<1> QED
  BY <1>1, <1>2, <1>3, <1>4 DEF Carries, CopyCarries

-----------------------------------------------------------------------------
(* The inductive invariant.                                                *)

\* Something has failed, or the process was stopped from outside.
Disturbed == bounds.faults < MaxFaults \/ bounds.crashes < MaxCrashes

\* At most one thread moves o, and the object it works on carries the lock; so
\* does the copy that is about to replace that object.  A lock that no mover
\* holds was left by one that was stopped.
Kept(o, base, below) ==
    /\ \A th, u \in Movers(o) : th = u
    /\ \A th \in Movers(o) : Carries(store[o], base)
    /\ \A th \in current \cap Movers(o) : CopyCarries(store[o], below)
    /\ Carries(store[o], base) => Movers(o) # {} \/ Disturbed

AllKept(tier) == /\ \A o \in Objects : Kept(o, Base, Below(tier))
                 /\ AbortsOnlyOnFailure

\* What all steps start from.
Known(tier) == /\ build \in BuildNames /\ BuildTyped
               /\ Asking /\ Hidden(tier) /\ AllKept(tier)

\* What is left of failures and crashes only decreases.
Fewer == bounds'.faults <= bounds.faults /\ bounds'.crashes <= bounds.crashes

\* What the proofs below use of the types.
LEMMA KnownTypes ==
  ASSUME NEW tier \in LowTiers, Known(tier)
  PROVE  /\ TypeOK
         /\ \A o \in Objects : store[o] \in Places /\ Demoted(store[o], Base, Below(tier))
         /\ bounds.faults \in Nat /\ bounds.crashes \in Nat
         /\ bounds.faults <= MaxFaults /\ bounds.crashes <= MaxCrashes
         /\ MaxFaults \in Nat /\ MaxCrashes \in Nat
BY ObjectMoverAssumption DEF Known, BuildTyped, BuildNames, Typed, MicroTyped, TypeOK, Hidden

\* A disturbance is not forgotten.
LEMMA StillDisturbed ==
  ASSUME NEW tier \in LowTiers, Known(tier), Fewer,
         bounds'.faults \in Nat, bounds'.crashes \in Nat
  PROVE  /\ Disturbed => Disturbed'
         /\ bounds.faults < MaxFaults => bounds'.faults < MaxFaults
BY KnownTypes DEF Fewer, Disturbed

\* An operation of one thread changes at most what is left of failures.
LEMMA FewerAfter ==
  ASSUME NEW tier \in LowTiers, Known(tier), NEW r, r = "eio" => bounds.faults > 0,
         bounds' = IF r = "eio" THEN [bounds EXCEPT !.faults = @ - 1] ELSE bounds
  PROVE  Fewer /\ bounds'.faults \in Nat /\ bounds'.crashes \in Nat
<1>1. CASE r = "eio"
  BY <1>1, KnownTypes DEF Fewer, TypeOK
<1>2. CASE r # "eio"
  BY <1>2, KnownTypes DEF Fewer
<1> QED
  BY <1>1, <1>2

\* A thread goes on: inside, where it works on an object with the lock, or out,
\* when the lock is released.
LEMMA MovedKeeps ==
  ASSUME NEW tier \in LowTiers, Known(tier), build' = build,
         NEW base \in {"cache", "storage"}, base = Base,
         NEW below \in Lower \ {base}, below = Below(tier),
         NEW th \in Threads, thread[th].at # "idle",
         NEW next \in Ways \ {"idle"}, NEW q, Moved(th, next, q),
         Fewer, bounds'.faults \in Nat, bounds'.crashes \in Nat, status' = status,
         current' \subseteq current \cup {th},
         next \in Inside =>
            /\ Carries(q, base)
            /\ thread[th].at \in Inside \/ ~ Carries(Place(th), base)
            /\ th \in current' => CopyCarries(q, below),
         next \notin Inside =>
            \/ thread[th].at \in Inside /\ ~ Carries(q, base)
            \/ thread[th].at \notin Inside /\ q = Place(th)
  PROVE  AllKept(tier)'
<1>1. Base' = base /\ Below(tier)' = below
  BY PoolsOfBuild DEF Known
<1>2. /\ Disturbed => Disturbed'
      /\ bounds.faults < MaxFaults => bounds'.faults < MaxFaults
  BY StillDisturbed
<1>3. PICK o \in Objects : o = Obj(th) /\ Place(th) = store[o]
  BY KnownTypes, BusyTypes DEF Place
<1>4. Kept(o, base, below) /\ \A other \in Objects : Kept(other, base, below)
  BY DEF Known, AllKept
<1>5. /\ store'[o] = q /\ Obj(th)' = o /\ thread'[th].at = next
      /\ \A other \in Objects \ {o} : store'[other] = store[other]
      /\ \A u \in Threads \ {th} : thread'[u] = thread[u]
  BY <1>3 DEF Moved, Obj
<1>6. \A other \in Objects : \A u \in Threads \ {th} : u \in Movers(other)' <=> u \in Movers(other)
  BY <1>5 DEF Movers, Workers, Obj
<1>7. \A other \in Objects : /\ th \in Movers(other)' <=> other = o /\ next \in Inside
                             /\ th \in Movers(other) <=> other = o /\ thread[th].at \in Inside
  BY <1>3, <1>5 DEF Movers, Workers, Obj, Inside
<1>8. \A other \in Objects : Movers(other) \subseteq Threads /\ Movers(other)' \subseteq Threads
  BY DEF Movers, Workers
<1>9. ASSUME NEW other \in Objects \ {o} PROVE Kept(other, base, below)'
  <2>1. Movers(other)' = Movers(other) /\ current' \cap Movers(other)' \subseteq current
    BY <1>6, <1>7, <1>8, <1>9
  <2> QED
    BY <1>2, <1>4, <1>5, <2>1 DEF Kept
<1>10. CASE next \in Inside
  <2>1. Movers(o)' = {th}
    BY <1>4, <1>6, <1>7, <1>8, <1>10, <1>3 DEF Kept
  <2> QED
    BY <1>1, <1>2, <1>5, <1>9, <1>10, <2>1 DEF Known, AllKept, Kept, AbortsOnlyOnFailure
<1>11. CASE next \notin Inside /\ thread[th].at \in Inside /\ ~ Carries(q, base)
  <2>1. Movers(o)' = {}
    BY <1>4, <1>6, <1>7, <1>8, <1>11 DEF Kept
  <2> QED
    BY <1>1, <1>2, <1>5, <1>9, <1>11, <2>1 DEF Known, AllKept, Kept, AbortsOnlyOnFailure
<1>12. CASE next \notin Inside /\ thread[th].at \notin Inside /\ q = Place(th)
  <2>1. Movers(o)' = Movers(o) /\ th \notin Movers(o)
    <3>1. th \notin Movers(o) /\ th \notin Movers(o)'
      BY <1>7, <1>12
    <3>2. \A u : u \in Movers(o)' => u \in Movers(o)
      BY <1>6, <1>8, <3>1
    <3>3. \A u : u \in Movers(o) => u \in Movers(o)'
      BY <1>6, <1>8, <3>1
    <3> QED
      BY <3>1, <3>2, <3>3
  <2>2. Kept(o, base, below)'
    BY <1>2, <1>3, <1>4, <1>5, <1>12, <2>1 DEF Kept
  <2> QED
    BY <1>1, <1>2, <1>9, <2>2 DEF Known, AllKept, AbortsOnlyOnFailure
<1> QED
  BY <1>10, <1>11, <1>12

\* When the process ends the lock may stay, but something made it end.
LEMMA AbortKeeps ==
  ASSUME NEW tier \in LowTiers, Known(tier), build' = build,
         store' = store, current' = {}, \A th \in Threads : thread'[th] = IdleThread,
         Disturbed', status' = "aborted" => bounds'.faults < MaxFaults
  PROVE  AllKept(tier)'
<1>1. Base' = Base /\ Below(tier)' = Below(tier)
  BY PoolsOfBuild DEF Known
<1>2. \A o \in Objects : Movers(o)' = {}
  BY DEF Movers, Workers, IdleThread, Inside
<1> QED
  BY <1>1, <1>2 DEF AllKept, Kept, AbortsOnlyOnFailure

-----------------------------------------------------------------------------
(* The steps.                                                              *)

\* An operation that goes on inside whatever it answers, or that is outside
\* the moves and changes nothing.
LEMMA OperateKeeps ==
  ASSUME NEW tier \in LowTiers, Known(tier), build' = build,
         NEW base \in {"cache", "storage"}, base = Base,
         NEW below \in Lower \ {base}, below = Below(tier),
         NEW th \in Threads, NEW step \in Ways \ {"idle"}, At(th, step),
         NEW answer \in Answer, answer.r # "ok" => answer.p = Place(th),
         NEW after \in Ways \ {"idle"}, NEW failed \in Ways \ {"idle"},
         \/ OperateOn(base, th, step, answer, after, failed)
         \/ OperateShadowedOn(base, th, step, answer, after, failed),
         \/ /\ {step, after, failed} \subseteq Inside
            /\ answer.r = "ok" => Carries(answer.p, base)
         \/ {step, after, failed} \cap Inside = {} /\ answer.p = Place(th)
  PROVE  AllKept(tier)'
<1>1. TypeOK /\ Ways \ {"idle"} \subseteq Steps /\ thread[th].at # "idle" /\ thread[th].at = step
  BY KnownTypes DEF Ways, Steps, At
<1>2. \/ answer.r = "ok" /\ Moved(th, after, answer.p)
      \/ Moved(th, failed, Place(th))
  BY <1>1, OperateMoves
<1>3. PICK a \in Answers(th, answer) : TakesOn(base, th, a) /\ status' = status
  BY DEF OperateOn, OperateShadowedOn
<1>4. Fewer /\ bounds'.faults \in Nat /\ bounds'.crashes \in Nat
  <2>1. a.r = "eio" => bounds.faults > 0
    BY <1>1, AnswersTypes
  <2> QED
    BY <1>3, <2>1, FewerAfter DEF TakesOn
<1>5. th \notin current' /\ current' \subseteq current \cup {th}
  BY <1>3 DEF TakesOn
<1>6. CASE {step, after, failed} \subseteq Inside /\ (answer.r = "ok" => Carries(answer.p, base))
  <2>1. Carries(Place(th), base)
    BY <1>1, <1>6, BusyTypes DEF Known, AllKept, Kept, Movers, Workers, Place
  <2>2. PICK next \in Ways \ {"idle"}, q \in {answer.p, Place(th)} :
           Moved(th, next, q) /\ Carries(q, base) /\ next \in Inside
    BY <1>2, <1>6, <2>1
  <2> QED
    BY <1>1, <1>3, <1>4, <1>5, <1>6, <2>2, MovedKeeps
<1>7. CASE {step, after, failed} \cap Inside = {} /\ answer.p = Place(th)
  <2>1. PICK next \in Ways \ {"idle"} : Moved(th, next, Place(th)) /\ next \notin Inside
    BY <1>2, <1>7
  <2> QED
    BY <1>1, <1>3, <1>4, <1>5, <1>7, <2>1, MovedKeeps
<1> QED
  BY <1>6, <1>7

\* Read.
LEMMA ReadKeeps ==
  ASSUME NEW tier \in LowTiers, Known(tier), build' = build,
         NEW base \in {"cache", "storage"}, base = Base,
         NEW below \in Lower \ {base}, below = Below(tier),
         NEW th \in Threads, ReadOn(base, th)
  PROVE  AllKept(tier)'
<1> DEFINE answer == IF Reached(Place(th), base) = NoObject THEN Fails(Place(th), "enoent")
                                                            ELSE Ok(Place(th), "none")
<1>1. OperateOn(base, th, "read", answer, "finish", "finish") /\ At(th, "read")
  BY DEF ReadOn, OperateOn
<1>2. Place(th) \in Places
  BY <1>1, KnownTypes, BusyTypes DEF At
<1>3. answer \in Answer /\ answer.p = Place(th)
  <2>1. Fails(Place(th), "enoent") \in Answer /\ Ok(Place(th), "none") \in Answer
    BY <1>2, AnswerTypes
  <2> QED
    BY <2>1 DEF Fails, Ok
<1> HIDE DEF answer
<1>4. {"read", "finish"} \subseteq Ways \ {"idle"} /\ {"read", "finish", "finish"} \cap Inside = {}
  BY DEF Ways, Inside
<1> QED
  BY <1>1, <1>3, <1>4, OperateKeeps

\* Lock succeeds only if nobody moves the object, and Unlock whenever it is
\* called: the lock the mover took is where it looks for it.
LEMMA LockingKeeps ==
  ASSUME NEW tier \in LowTiers, Known(tier), build' = build,
         NEW base \in {"cache", "storage"}, base = Base,
         NEW below \in Lower \ {base}, below = Below(tier),
         NEW th \in Threads, LockOn(base, th) \/ UnlockOn(base, th)
  PROVE  AllKept(tier)'
<1>1. TypeOK /\ thread[th].at \in {"lock", "unlock"} /\ thread[th].at # "idle"
  BY KnownTypes DEF LockOn, UnlockOn, OperateAssertedOn, At, Known, Asking, Ways
<1>2. Place(th) \in Places /\ Demoted(Place(th), base, below)
  BY <1>1, BusyTypes, KnownTypes DEF Place
<1>3. PICK locked \in BOOLEAN, after \in {"locate", "finish"} :
      /\ \/ thread[th].at = "lock" /\ locked = TRUE /\ after = "locate"
         \/ thread[th].at = "unlock" /\ locked = FALSE /\ after = "finish"
      /\ \E a \in Answers(th, SetLock(Place(th), base, locked)) :
            \/ a.r = "ok" /\ TakesOn(base, th, a) /\ Goto(th, after) /\ status' = status
            \/ a.r # "ok" /\ (locked => a.r # "canceled") /\ AbortAfter(a.r)
  <2>1. CASE LockOn(base, th)
    BY <2>1 DEF LockOn, OperateAssertedOn, At
  <2>2. CASE UnlockOn(base, th)
    BY <1>1, <2>2 DEF UnlockOn, OperateAssertedOn, At
  <2> QED
    BY <2>1, <2>2
<1> DEFINE answer == SetLock(Place(th), base, locked)
<1>4. PICK a \in Answers(th, answer) :
         \/ a.r = "ok" /\ TakesOn(base, th, a) /\ Goto(th, after) /\ status' = status
         \/ a.r # "ok" /\ (locked => a.r # "canceled") /\ AbortAfter(a.r)
  BY <1>3
<1>5. answer \in Answer
  BY <1>2, LockTypes DEF Pools
<1>6. /\ answer.r = IF Carries(Place(th), base) = locked THEN "canceled" ELSE "ok"
      /\ answer.r = "ok" => Carries(answer.p, base) = locked
  BY <1>2, LockTurns
<1> HIDE DEF answer
<1>7. /\ a.p \in Places /\ a.r \in Results
      /\ a.r = "eio" => bounds.faults > 0
      /\ a.r # "eio" => a = answer
  BY <1>1, <1>5, AnswersTypes
<1>8. thread[th].at = "unlock" => Carries(Place(th), base)
  BY <1>1, BusyTypes DEF Known, AllKept, Kept, Movers, Workers, Place, Inside
<1>9. CASE a.r # "ok" /\ (locked => a.r # "canceled") /\ AbortAfter(a.r)
  <2>1. a.r = "eio"
    BY <1>3, <1>6, <1>7, <1>8, <1>9
  <2>2. /\ Abort /\ store' = store
        /\ bounds'.faults = bounds.faults - 1 /\ bounds'.crashes = bounds.crashes
    BY <1>1, <1>7, <1>9, <2>1, AbortBounds
  <2>3. bounds'.faults < MaxFaults
    BY <2>2, KnownTypes
  <2> QED
    BY <2>2, <2>3, AbortKeeps DEF Abort, Disturbed
<1>10. CASE a.r = "ok" /\ TakesOn(base, th, a) /\ Goto(th, after) /\ status' = status
  <2>1. a = answer /\ "ok" \in Results /\ after \in Steps /\ after \in Ways \ {"idle"}
    BY <1>7, <1>10 DEF Results, Steps, Ways
  <2>2. Moved(th, after, a.p)
    BY <1>1, <1>7, <1>10, <2>1, TakesMoves
  <2>3. Fewer /\ bounds'.faults \in Nat /\ bounds'.crashes \in Nat
    BY <1>7, <1>10, FewerAfter DEF TakesOn
  <2>4. th \notin current' /\ current' \subseteq current \cup {th}
    BY <1>10 DEF TakesOn
  <2>5. Carries(a.p, base) = locked /\ Carries(Place(th), base) # locked
    BY <1>6, <1>10, <2>1
  <2>6. /\ after \in Inside => /\ Carries(a.p, base)
                               /\ thread[th].at \in Inside \/ ~ Carries(Place(th), base)
        /\ after \notin Inside => thread[th].at \in Inside /\ ~ Carries(a.p, base)
    BY <1>3, <2>5 DEF Inside, Carries
  <2> QED
    BY <1>1, <1>10, <2>1, <2>2, <2>3, <2>4, <2>6, MovedKeeps
<1> QED
  BY <1>4, <1>9, <1>10

\* GetLocation finds a tier unless the operation fails.
LEMMA LocateKeeps ==
  ASSUME NEW tier \in LowTiers, Known(tier), build' = build,
         NEW base \in {"cache", "storage"}, base = Base,
         NEW below \in Lower \ {base}, below = Below(tier),
         NEW th \in Threads, NEW next, next["FAST"] \in Ways \cap Inside, LocateOn(base, th, next)
  PROVE  AllKept(tier)'
<1>1. TypeOK /\ thread[th].at = "locate" /\ thread[th].at # "idle"
  BY KnownTypes DEF LocateOn, At
<1>2. /\ Place(th) \in Places /\ Demoted(Place(th), base, below)
      /\ thread[th] \in [at : Steps, req : Requests, tier : Tiers, r : Results]
  BY <1>1, BusyTypes, KnownTypes DEF Place
<1>3. Reached(Place(th), base) # NoObject /\ Named(Reached(Place(th), base).tier) = {"FAST"}
  BY <1>2, DemotedFacts, TierFacts DEF Named, NameOf, Tiers
<1>4. \/ /\ thread' = [thread EXCEPT ![th] = [@ EXCEPT !.at = next["FAST"], !.tier = "FAST"]]
         /\ UNCHANGED <<store, current, status, bounds>>
      \/ bounds.faults > 0 /\ AbortAfter("eio")
  BY <1>3 DEF LocateOn
<1>5. CASE bounds.faults > 0 /\ AbortAfter("eio")
  <2>1. /\ Abort /\ store' = store
        /\ bounds'.faults = bounds.faults - 1 /\ bounds'.crashes = bounds.crashes
    BY <1>1, <1>5, AbortBounds
  <2>2. bounds'.faults < MaxFaults
    BY <2>1, KnownTypes
  <2> QED
    BY <2>1, <2>2, AbortKeeps DEF Abort, Disturbed
<1>6. CASE /\ thread' = [thread EXCEPT ![th] = [@ EXCEPT !.at = next["FAST"], !.tier = "FAST"]]
           /\ UNCHANGED <<store, current, status, bounds>>
  <2>1. /\ thread'[th].at = next["FAST"] /\ thread'[th].req = thread[th].req
        /\ \A u \in Threads \ {th} : thread'[u] = thread[u]
    BY <1>1, <1>2, <1>6 DEF TypeOK
  <2>2. th \notin current
    BY <1>1 DEF TypeOK, At
  <2>3. ASSUME NEW o \in Objects PROVE Movers(o)' = Movers(o)
    <3>1. \A u \in Threads : Obj(u)' = Obj(u) /\ (thread'[u].at \in Inside <=> thread[u].at \in Inside)
      BY <1>1, <2>1 DEF Obj, Inside
    <3>2. "idle" \notin Inside
      BY DEF Inside
    <3> QED
      BY <3>1, <3>2 DEF Movers, Workers
  <2>4. Base' = Base /\ Below(tier)' = Below(tier) /\ Disturbed' = Disturbed
    BY <1>6, PoolsOfBuild DEF Known, Disturbed
  <2>5. \A o \in Objects : Kept(o, Base, Below(tier))'
    BY <1>6, <2>3, <2>4 DEF Known, AllKept, Kept
  <2> QED
    BY <1>6, <2>4, <2>5 DEF Known, AllKept, AbortsOnlyOnFailure
<1> QED
  BY <1>4, <1>5, <1>6

\* The copy of a demotion takes the lock with it.
LEMMA CopyDownKeeps ==
  ASSUME NEW tier \in LowTiers, Known(tier), build' = build,
         NEW base \in {"cache", "storage"}, base = Base,
         NEW below \in Lower \ {base}, below = Below(tier),
         NEW th \in Threads, CopyDownOn(base, th, below)
  PROVE  AllKept(tier)'
<1> DEFINE answer == CopyFrom(Place(th), below, base)
<1>1. TypeOK /\ thread[th].at = "copy_down" /\ thread[th].at # "idle" /\ thread[th].at \in Inside
  BY KnownTypes DEF CopyDownOn, At, Inside
<1>2. PICK o \in Objects : o = Obj(th)
  BY <1>1, BusyTypes
<1>3. Place(th) = store[o] /\ Place(th) \in Places /\ Demoted(Place(th), base, below)
  BY <1>2, KnownTypes DEF Place
<1>4. Carries(Place(th), base)
  BY <1>1, <1>2, <1>3 DEF Known, AllKept, Kept, Movers, Workers
<1>5. /\ answer.r = "ok" /\ answer.p \in Places
      /\ Carries(answer.p, base) /\ CopyCarries(answer.p, below)
  BY <1>3, <1>4, CopyHides, CopyTakesLock
<1>6. PICK a \in Answers(th, answer) :
         /\ store' = [store EXCEPT ![Obj(th)] = a.p]
         /\ bounds' = IF a.r = "eio" THEN [bounds EXCEPT !.faults = @ - 1] ELSE bounds
         /\ \/ a.r = "ok" /\ current' \subseteq current \cup {th}
            \/ current' = current \ {th}
         /\ Goto(th, IF a.r = "ok" THEN "replace" ELSE "unlock")
         /\ status' = status
  BY DEF CopyDownOn
<1>7. \/ a.r = "ok" /\ a.p = answer.p
      \/ a.r = "eio" /\ a.p = Place(th) /\ bounds.faults > 0
  BY <1>5 DEF Answers, Fails
<1> HIDE DEF answer
<1>8. PICK next \in {"replace", "unlock"} :
         /\ next = IF a.r = "ok" THEN "replace" ELSE "unlock"
         /\ next \in Steps /\ next \in Ways \ {"idle"} /\ next \in Inside
  BY DEF Steps, Ways, Inside
<1>9. a.p \in Places /\ "ok" \in Results
  BY <1>3, <1>5, <1>7 DEF Results
<1>10. Moved(th, next, a.p)
  <2>1. /\ store'[Obj(th)] = a.p
        /\ \A other \in Objects \ {Obj(th)} : store'[other] = store[other]
    BY <1>1, <1>2, <1>6 DEF TypeOK
  <2> QED
    BY <1>1, <1>6, <1>8, <1>9, <2>1, GotoTypes DEF Moved, At
<1>11. Fewer /\ bounds'.faults \in Nat /\ bounds'.crashes \in Nat
  BY <1>6, <1>7, FewerAfter
<1>12. /\ Carries(a.p, base)
       /\ th \in current' => CopyCarries(a.p, below)
       /\ current' \subseteq current \cup {th}
  BY <1>4, <1>5, <1>6, <1>7
<1> QED
  BY <1>1, <1>6, <1>8, <1>10, <1>11, <1>12, MovedKeeps

\* So the redirect that replaces the object leads to a locked object.
LEMMA ReplacingKeeps ==
  ASSUME NEW tier \in LowTiers, Known(tier), build' = build,
         NEW base \in {"cache", "storage"}, base = Base,
         NEW below \in Lower \ {base}, below = Below(tier),
         NEW th \in Threads, NEW name \in TierNames,
         OperateShadowedOn(base, th, "replace",
                           SetRedirectIf(Place(th), base, th \in current, below, name),
                           "unlock", "copy_down")
  PROVE  AllKept(tier)'
<1> DEFINE answer == SetRedirectIf(Place(th), base, th \in current, below, name)
<1>1. TypeOK /\ At(th, "replace") /\ thread[th].at # "idle" /\ thread[th].at \in Inside
  BY KnownTypes DEF OperateShadowedOn, At, Inside
<1>2. PICK o \in Objects : o = Obj(th)
  BY <1>1, BusyTypes
<1>3. Place(th) = store[o] /\ Place(th) \in Places /\ Demoted(Place(th), base, below)
  BY <1>2, KnownTypes DEF Place
<1>4. answer \in Answer /\ (answer.r # "ok" => answer.p = Place(th))
  <2>1. (th \in current) \in BOOLEAN /\ base \in Pools /\ below \in {"storage", "archive"}
    BY DEF Pools, Lower
  <2>2. answer \in Answer
    BY <1>3, <2>1, RedirectTypes
  <2> QED
    BY <2>2 DEF SetRedirectIf, Ok, Fails
<1>5. answer.r = "ok" => /\ th \in current
                         /\ answer.p = SetRedirectIf(Place(th), base, TRUE, below, name).p
  BY DEF SetRedirectIf, Ok, Fails
<1>6. answer.r = "ok" => Carries(answer.p, base)
  <2>1. th \in current => CopyCarries(Place(th), below)
    BY <1>1, <1>2, <1>3 DEF Known, AllKept, Kept, Movers, Workers
  <2> QED
    BY <1>3, <1>5, <2>1, RedirectLeadsToLock
<1>7. {"replace", "unlock", "copy_down"} \subseteq Ways \ {"idle"}
      /\ {"replace", "unlock", "copy_down"} \subseteq Inside
  BY DEF Ways, Inside
<1>8. OperateShadowedOn(base, th, "replace", answer, "unlock", "copy_down")
  OBVIOUS
<1> HIDE DEF answer
<1> QED
  BY <1>1, <1>4, <1>6, <1>7, <1>8, OperateKeeps

\* The hint finds the object and changes nothing.
LEMMA HintKeeps ==
  ASSUME NEW tier \in LowTiers, Known(tier), build' = build,
         NEW base \in {"cache", "storage"}, base = Base,
         NEW below \in Lower \ {base}, below = Below(tier),
         NEW th \in Threads,
         OperateOn(base, th, "hint", AllocHint(Place(th), base), "unlock", "unlock")
  PROVE  AllKept(tier)'
<1> DEFINE answer == AllocHint(Place(th), base)
           q == Target(Place(th), base)
<1>1. TypeOK /\ At(th, "hint") /\ thread[th].at # "idle" /\ thread[th].at \in Inside
  BY KnownTypes DEF OperateOn, At, Inside
<1>2. Place(th) \in Places /\ Demoted(Place(th), base, below)
  BY <1>1, BusyTypes, KnownTypes DEF Place
<1>3. q \in Pools /\ Place(th)[q] # NoObject /\ Place(th)[q] \in Object
  BY <1>2, DemotedFacts DEF Pools, Lower
<1>4. [Place(th) EXCEPT ![q] = Place(th)[q]] = Place(th)
  BY <1>2, <1>3 DEF Places
<1>5. answer = Ok(Place(th), q)
  BY <1>3, <1>4 DEF AllocHint, Existing
<1> HIDE DEF answer, q
<1>6. answer \in Answer /\ answer.p = Place(th)
  <2>1. Ok(Place(th), q) \in Answer
    BY <1>2, <1>3, AnswerTypes
  <2>2. Ok(Place(th), q).p = Place(th)
    BY DEF Ok
  <2> QED
    BY <1>5, <2>1, <2>2
<1>7. Carries(Place(th), base)
  BY <1>1, BusyTypes DEF Known, AllKept, Kept, Movers, Workers, Place
<1>8. {"hint", "unlock"} \subseteq Ways \ {"idle"} /\ {"hint", "unlock", "unlock"} \subseteq Inside
  BY DEF Ways, Inside
<1>9. OperateOn(base, th, "hint", answer, "unlock", "unlock")
  BY DEF answer
<1> QED
  BY <1>1, <1>6, <1>7, <1>8, <1>9, OperateKeeps

\* A thread that is not under way in a move begins or ends an operation.
LEMMA AsideKeeps ==
  ASSUME NEW tier \in LowTiers, Known(tier), build' = build,
         NEW th \in Threads, thread[th].at \notin Inside, thread'[th].at \notin Inside,
         \A u \in Threads \ {th} : thread'[u] = thread[u],
         store' = store, current' = current, status' = status,
         bounds'.faults = bounds.faults, bounds'.crashes = bounds.crashes
  PROVE  AllKept(tier)'
<1>1. Base' = Base /\ Below(tier)' = Below(tier) /\ Disturbed' = Disturbed
  BY PoolsOfBuild DEF Known, Disturbed
<1>2. ASSUME NEW o \in Objects PROVE Movers(o)' = Movers(o)
  <2>1. th \notin Movers(o) /\ th \notin Movers(o)'
    BY DEF Movers
  <2>2. \A u \in Threads \ {th} : u \in Movers(o)' <=> u \in Movers(o)
    BY DEF Movers, Workers, Obj
  <2> QED
    BY <2>1, <2>2 DEF Movers, Workers
<1>3. \A o \in Objects : Kept(o, Base, Below(tier))'
  BY <1>1, <1>2 DEF Known, AllKept, Kept
<1> QED
  BY <1>1, <1>3 DEF Known, AllKept, AbortsOnlyOnFailure

\* A thread that ends has released the lock before.
LEMMA EndKeeps ==
  ASSUME NEW tier \in LowTiers, Known(tier), build' = build, NEW th \in Threads, End(th)
  PROVE  AllKept(tier)'
<1>1. TypeOK /\ thread[th].at \notin Inside
  BY KnownTypes DEF End, At, Inside
<1>2. thread'[th].at \notin Inside /\ \A u \in Threads \ {th} : thread'[u] = thread[u]
  BY <1>1 DEF End, TypeOK, IdleThread, Inside
<1> QED
  BY <1>1, <1>2, AsideKeeps DEF End

\* A thread that starts has not taken the lock yet.
LEMMA StartKeeps ==
  ASSUME NEW tier \in LowTiers, DemotesTo(tier), Known(tier), build' = build,
         NEW th \in Threads, NEW req \in BuildRequests[build], Start(th, req)
  PROVE  AllKept(tier)'
<1>1. TypeOK /\ thread[th].at \notin Inside
  BY KnownTypes DEF Start, Begin, At, Inside
<1>2. FirstStep(req) \in {"lock", "read"}
  BY DEF DemotesTo, Known, BuildNames, FirstStep
<1>3. thread'[th].at \notin Inside /\ \A u \in Threads \ {th} : thread'[u] = thread[u]
  BY <1>1, <1>2 DEF Start, Begin, TypeOK, Inside
<1>4. bounds'.faults = bounds.faults /\ bounds'.crashes = bounds.crashes
  BY <1>1 DEF Start, TypeOK
<1> QED
  BY <1>1, <1>3, <1>4, AsideKeeps DEF Start, Begin

\* A step of any operation.
LEMMA WorkKeeps ==
  ASSUME NEW tier \in LowTiers, DemotesTo(tier), Known(tier), NEW th \in Threads, BuildWork(th)
  PROVE  AllKept(tier)'
<1>1. build' = build /\ build \in BuildNames /\ BuildTyped /\ Asking
  BY DEF BuildWork, Known
<1>2. CASE build = "default"
  <2>1. "cache" = Base /\ PoolOf(tier) = Below(tier) /\ PoolOf(tier) \in Lower \ {"cache"}
    BY <1>2 DEF Base, Below, LowTiers, PoolOf, Lower
  <2>2. Work(th)
    BY <1>2 DEF BuildWork
  <2>3. PICK below \in Lower \ {"cache"} : below = PoolOf(tier) /\ below = Below(tier)
    BY <2>1
  <2>4. \/ ReadOn("cache", th) \/ LockOn("cache", th) \/ UnlockOn("cache", th)
        \/ \E next : next["FAST"] \in Ways \cap Inside /\ LocateOn("cache", th, next)
        \/ CopyDownOn("cache", th, below)
        \/ \E name \in TierNames :
              OperateShadowedOn("cache", th, "replace",
                                SetRedirectIf(Place(th), "cache", th \in current, below, name),
                                "unlock", "copy_down")
        \/ End(th)
    BY <1>1, <1>2, <2>2, <2>3, DefaultWays DEF CopyDownOn, OperateShadowedOn
  <2> QED
    BY <1>1, <2>1, <2>3, <2>4, ReadKeeps, LockingKeeps, LocateKeeps, CopyDownKeeps,
       ReplacingKeeps, EndKeeps
<1>3. CASE build = "micro"
  <2>1. "storage" = Base /\ "archive" = Below(tier) /\ "archive" \in Lower \ {"storage"}
    BY <1>3 DEF Base, Below, Lower
  <2>2. MicroWork(th)
    BY <1>3 DEF BuildWork
  <2> QED
    BY <1>1, <2>1, <2>2, MicroWays, ReadKeeps, LockingKeeps, LocateKeeps, HintKeeps,
       CopyDownKeeps, ReplacingKeeps, EndKeeps
<1> QED
  BY <1>1, <1>2, <1>3 DEF BuildNames

\* The process stops, and starts again with the pools as they were left.
LEMMA CrashKeeps ==
  ASSUME NEW tier \in LowTiers, Known(tier), build' = build, Crash \/ Restart \/ UNCHANGED vars
  PROVE  AllKept(tier)'
<1>1. CASE Crash
  <2>1. bounds'.crashes < MaxCrashes
    BY <1>1, KnownTypes DEF Crash, TypeOK
  <2> QED
    BY <1>1, <2>1, AbortKeeps DEF Crash, Disturbed
<1>2. CASE Restart \/ UNCHANGED vars
  <2>1. Base' = Base /\ Below(tier)' = Below(tier) /\ Disturbed' = Disturbed
    BY <1>2, PoolsOfBuild DEF Known, Disturbed, Restart, vars
  <2>2. UNCHANGED <<store, thread, current, bounds>> /\ (status' = "aborted" => status' = status)
    BY <1>2 DEF Restart, vars
  <2>3. \A o \in Objects : Movers(o)' = Movers(o)
    BY <2>2 DEF Movers, Workers, Obj
  <2>4. \A o \in Objects : Kept(o, Base, Below(tier))'
    BY <2>1, <2>2, <2>3 DEF Known, AllKept, Kept
  <2> QED
    BY <2>1, <2>2, <2>4 DEF Known, AllKept, AbortsOnlyOnFailure
<1> QED
  BY <1>1, <1>2

\* Applications go on writing.
LEMMA MoreWritesKeep ==
  ASSUME NEW tier \in LowTiers, Known(tier), MoreWrites
  PROVE  AllKept(tier)'
<1>1. TypeOK /\ UNCHANGED <<store, thread, current, status, build>>
  BY KnownTypes DEF MoreWrites
<1>2. bounds'.faults = bounds.faults /\ bounds'.crashes = bounds.crashes
  BY <1>1 DEF MoreWrites, TypeOK
<1>3. Base' = Base /\ Below(tier)' = Below(tier) /\ Disturbed' = Disturbed
  BY <1>1, <1>2, PoolsOfBuild DEF Known, Disturbed
<1>4. \A o \in Objects : Movers(o)' = Movers(o)
  BY <1>1 DEF Movers, Workers, Obj
<1>5. \A o \in Objects : Kept(o, Base, Below(tier))'
  BY <1>1, <1>3, <1>4 DEF Known, AllKept, Kept
<1> QED
  BY <1>1, <1>2, <1>5 DEF Known, AllKept, AbortsOnlyOnFailure

\* An application writes, whoever moves the object.
LEMMA WriteKeeps ==
  ASSUME NEW tier \in LowTiers, Known(tier), build' = build,
         NEW o \in Objects, NEW data \in Writers, DirectWriteOn(Base, o, data)
  PROVE  AllKept(tier)'
<1>1. TypeOK /\ data \in Values
  BY KnownTypes, ObjectMoverAssumption
<1>2. PICK base \in {"cache", "storage"} : base = Base
  BY PoolsOfBuild DEF Known
<1>3. PICK below \in Lower \ {base} : base = Base /\ below = Below(tier)
  BY <1>2, PoolsOfBuild DEF Known
<1>4. Base' = base /\ Below(tier)' = below
  BY <1>3, PoolsOfBuild DEF Known
<1> DEFINE q == WriteFull(store[o], base, data).p
<1>5. /\ store' = [store EXCEPT ![o] = q]
      /\ bounds' = [bounds EXCEPT !.writes = @ - 1]
      /\ current' \subseteq current
      /\ thread' = thread /\ status' = status
  BY <1>3 DEF DirectWriteOn
<1>6. store[o] \in Places /\ Demoted(store[o], base, below)
  BY <1>3, KnownTypes
<1>7. /\ Carries(q, base) <=> Carries(store[o], base)
      /\ CopyCarries(store[o], below) => CopyCarries(q, below)
  BY <1>1, <1>6, WriteKeepsLock
<1> HIDE DEF q
<1>8. store'[o] = q /\ \A other \in Objects \ {o} : store'[other] = store[other]
  BY <1>1, <1>5 DEF TypeOK
<1>9. bounds'.faults = bounds.faults /\ bounds'.crashes = bounds.crashes
  BY <1>1, <1>5 DEF TypeOK
<1>10. \A other \in Objects : Movers(other)' = Movers(other)
  BY <1>5 DEF Movers, Workers, Obj
<1>11. Disturbed' = Disturbed
  BY <1>9 DEF Disturbed
<1>12. \A other \in Objects : Kept(other, base, below)'
  <2>1. \A other \in Objects : Kept(other, base, below)
    BY <1>3 DEF Known, AllKept
  <2>2. Kept(o, base, below)'
    BY <1>5, <1>7, <1>8, <1>10, <1>11, <2>1 DEF Kept
  <2>3. ASSUME NEW other \in Objects \ {o} PROVE Kept(other, base, below)'
    BY <1>5, <1>8, <1>10, <1>11, <2>1, <2>3 DEF Kept
  <2> QED
    BY <2>2, <2>3
<1> QED
  BY <1>4, <1>5, <1>9, <1>12 DEF Known, AllKept, AbortsOnlyOnFailure

-----------------------------------------------------------------------------
(* The theorems.                                                           *)

\* Initially no object is locked.
LEMMA KnownInit ==
  ASSUME NEW tier \in LowTiers, DemotesTo(tier), BuildInit
  PROVE  Known(tier)
<1>1. AtRest /\ build \in BuildNames /\ BuildTyped
  BY BuildTypedInit DEF BuildInit
<1>2. Asking /\ Hidden(tier)
  BY HiddenInit
<1>3. \A o \in Objects : store[o] = BuildCreated("FAST", InitialData)
  BY DEF BuildInit, DemotesTo
<1> DEFINE obj == [NewObject(InitialData) EXCEPT !.tier = "fast"]
<1>4. obj.locked = FALSE /\ obj.redirect = "none"
  BY DEF NewObject
<1>5. BuildCreated("FAST", InitialData) = [Nowhere EXCEPT ![Base] = obj] /\ Base \in Pools
  BY <1>1 DEF BuildCreated, Created, MicroCreated, NameOf, Base, BuildNames, Pools
<1> HIDE DEF obj
<1>6. ASSUME NEW o \in Objects PROVE ~ Carries(store[o], Base)
  <2>1. store[o][Base] = obj
    BY <1>3, <1>5 DEF Nowhere
  <2>2. Reached(store[o], Base) = obj
    BY <1>4, <2>1 DEF Reached, Target
  <2> QED
    BY <1>4, <2>2 DEF Carries
<1>7. \A o \in Objects : Movers(o) = {}
  BY <1>1 DEF AtRest, Movers, Workers, IdleThread
<1>8. AllKept(tier)
  BY <1>1, <1>6, <1>7 DEF AllKept, Kept, AbortsOnlyOnFailure, AtRest
<1> QED
  BY <1>1, <1>2, <1>8 DEF Known

\* What is known after a step, from the invariants of BuildsProofs.
LEMMA KnownStep ==
  ASSUME NEW tier \in LowTiers, DemotesTo(tier), Known(tier),
         [BuildNext \/ MoreWrites]_buildVars
  PROVE  Known(tier)'
<1>1. BuildTyped' /\ Asking' /\ Hidden(tier)' /\ build' = build
  <2>1. build' = build
    BY DEF BuildNext, BuildWork, MoreWrites, buildVars
  <2> QED
    BY <2>1, WritingTypedStep, HiddenStep DEF Known
<1>2. ASSUME NEW th \in Threads, BuildWork(th) PROVE AllKept(tier)'
  BY <1>2, WorkKeeps
<1>3. ASSUME NEW th \in Threads, NEW req \in BuildRequests[build], Start(th, req)
      PROVE  AllKept(tier)'
  BY <1>1, <1>3, StartKeeps
<1>4. ASSUME NEW o \in Objects, NEW data \in Writers, DirectWriteOn(Base, o, data)
      PROVE  AllKept(tier)'
  BY <1>1, <1>4, WriteKeeps
<1>5. ASSUME Crash \/ Restart \/ UNCHANGED vars PROVE AllKept(tier)'
  BY <1>1, <1>5, CrashKeeps
<1>6. AllKept(tier)'
  BY <1>2, <1>3, <1>4, <1>5, MoreWritesKeep DEF BuildNext, buildVars
<1>7. build' \in BuildNames
  BY <1>1 DEF Known
<1> QED
  BY <1>1, <1>6, <1>7 DEF Known

\* What the invariant says of the lock.
LEMMA KnownMeans ==
  ASSUME NEW tier \in LowTiers, Known(tier)
  PROVE  AbortsOnlyOnFailure /\ LocksReleased /\ AtMostOneMover /\ LockExclusion
<1>1. AbortsOnlyOnFailure /\ \A o \in Objects : Kept(o, Base, Below(tier))
  BY DEF Known, AllKept
<1>2. AtMostOneMover
  <2>1. ASSUME NEW o \in Objects PROVE Cardinality(Movers(o)) <= 1
    <3>1. CASE Movers(o) = {}
      BY <3>1, FS_EmptySet
    <3>2. CASE Movers(o) # {}
      <4>1. PICK th : Movers(o) = {th}
        BY <1>1, <3>2 DEF Kept
      <4> QED
        BY <4>1, FS_Singleton
    <3> QED
      BY <3>1, <3>2
  <2> QED
    BY <2>1 DEF AtMostOneMover
<1>3. LockExclusion
  BY <1>2 DEF AtMostOneMover, LockExclusion, Movers
<1>4. ASSUME NEW o \in Objects, LockLeft(o) PROVE Disturbed
  <2>1. Movers(o) = {}
    BY <1>4 DEF LockLeft, Movers
  <2>2. Carries(store[o], Base)
    BY <1>4 DEF LockLeft, Carries
  <2> QED
    BY <1>1, <2>1, <2>2 DEF Kept
<1>5. LocksReleased
  BY <1>4 DEF LocksReleased, Disturbed
<1> QED
  BY <1>1, <1>2, <1>3, <1>5

\* The lock of a demotion excludes, although the object that carries it is
\* copied, replaced and written by applications in the meantime.
THEOREM DemotionsExclude ==
  ASSUME NEW tier \in LowTiers, DemotesTo(tier)
  PROVE  WritingSpec => [](LockExclusion /\ AtMostOneMover)
<1>1. BuildInit => Known(tier)
  BY KnownInit
<1>2. Known(tier) /\ [BuildNext \/ MoreWrites]_buildVars => Known(tier)'
  BY KnownStep
<1>3. Known(tier) => LockExclusion /\ AtMostOneMover
  BY KnownMeans
<1> QED
  BY <1>1, <1>2, <1>3, PTL DEF WritingSpec

\* The asserts of Lock, GetLocation and Unlock fail in a demotion only when the
\* operation they check has failed.
THEOREM DemotionsAbortOnlyOnFailure ==
  ASSUME NEW tier \in LowTiers, DemotesTo(tier)
  PROVE  WritingSpec => []AbortsOnlyOnFailure
<1>1. BuildInit => Known(tier)
  BY KnownInit
<1>2. Known(tier) /\ [BuildNext \/ MoreWrites]_buildVars => Known(tier)'
  BY KnownStep
<1>3. Known(tier) => AbortsOnlyOnFailure
  BY KnownMeans
<1> QED
  BY <1>1, <1>2, <1>3, PTL DEF WritingSpec

\* A demotion that ends has released its lock.
THEOREM DemotionsReleaseLocks ==
  ASSUME NEW tier \in LowTiers, DemotesTo(tier)
  PROVE  WritingSpec => []LocksReleased
<1>1. BuildInit => Known(tier)
  BY KnownInit
<1>2. Known(tier) /\ [BuildNext \/ MoreWrites]_buildVars => Known(tier)'
  BY KnownStep
<1>3. Known(tier) => LocksReleased
  BY KnownMeans
<1> QED
  BY <1>1, <1>2, <1>3, PTL DEF WritingSpec

\* Where no operation fails, demotions never end the process, whatever else
\* stops it.
THEOREM DemotionsDoNotAbort ==
  ASSUME NEW tier \in LowTiers, DemotesTo(tier), MaxFaults = 0
  PROVE  WritingSpec => []NoAbort
<1>1. BuildInit => Known(tier)
  BY KnownInit
<1>2. Known(tier) /\ [BuildNext \/ MoreWrites]_buildVars => Known(tier)'
  BY KnownStep
<1>3. Known(tier) => NoAbort
  BY KnownMeans, KnownTypes DEF AbortsOnlyOnFailure, NoAbort
<1> QED
  BY <1>1, <1>2, <1>3, PTL DEF WritingSpec
=============================================================================
