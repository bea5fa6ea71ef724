----------------------------- MODULE BuildsProofs -----------------------------
(***************************************************************************)
(* Proofs about both programs that lib/object_mover.cpp is, for any number *)
(* of threads and objects, and any number of operations, writes, failures  *)
(* and crashes.  The steps of the default build are those of ObjectMover,  *)
(* the steps of the other build those of MicroTiering.                     *)
(***************************************************************************)
EXTENDS Builds, MicroTieringProofs

-----------------------------------------------------------------------------
(* The two programs.                                                       *)

\* Each build starts as its program does.
LEMMA BuildStarts ==
  ASSUME BuildInit
  PROVE  /\ build \in BuildNames /\ AtRest
         /\ build = "default" => Init
         /\ build = "micro" =>
               \A o \in Objects : \/ "none" \in InitialTiers /\ store[o] = Nowhere
                                  \/ \E tier \in Tiers \cap InitialTiers :
                                        store[o] = MicroCreated(tier, InitialData)
<1>1. build \in BuildNames /\ AtRest
  BY DEF BuildInit
<1>2. CASE build = "default"
  BY <1>1, <1>2 DEF BuildInit, Init, InitialPlaces, BuildCreated
<1>3. CASE build = "micro"
  <2>1. ASSUME NEW o \in Objects
        PROVE  \/ "none" \in InitialTiers /\ store[o] = Nowhere
               \/ \E tier \in Tiers \cap InitialTiers :
                     store[o] = MicroCreated(tier, InitialData)
    <3>1. PICK tier \in InitialTiers :
             store[o] = IF tier = "none" THEN Nowhere ELSE BuildCreated(tier, InitialData)
      BY DEF BuildInit
    <3>2. tier \in Tiers \cup {"none"}
      BY ObjectMoverAssumption
    <3> QED
      BY <1>3, <3>1, <3>2 DEF BuildCreated
  <2> QED
    BY <1>1, <1>3, <2>1
<1> QED
  BY <1>1, <1>2, <1>3 DEF BuildNames

\* The steps of the default build are steps of ObjectMover.
LEMMA DefaultSteps ==
  ASSUME build = "default", [BuildNext]_buildVars
  PROVE  [Next]_vars /\ build' = build
<1>1. CASE UNCHANGED buildVars
  BY <1>1 DEF buildVars
<1>2. ASSUME NEW th \in Threads, BuildWork(th) PROVE Next /\ build' = build
  BY <1>2 DEF BuildWork, Next
<1>3. ASSUME NEW th \in Threads, NEW req \in BuildRequests["default"], Start(th, req) PROVE Next
  BY <1>3, BuildsAssumption DEF BuildNames, Next
<1>4. ASSUME NEW o \in Objects, NEW data \in Writers, DirectWriteOn("cache", o, data) PROVE Next
  BY <1>4 DEF Next, DirectWrite
<1>5. CASE (Crash \/ Restart) /\ UNCHANGED build
  BY <1>5 DEF Next
<1> QED
  BY <1>1, <1>2, <1>3, <1>4, <1>5 DEF BuildNext, Base

\* Those of the build with micro tiering.
LEMMA MicroSteps ==
  ASSUME build = "micro", [BuildNext]_buildVars
  PROVE  /\ build' = build
         /\ \/ \E th \in Threads : MicroWork(th)
            \/ \E th \in Threads, req \in BuildRequests["micro"] : Start(th, req)
            \/ \E o \in Objects, data \in Writers : DirectWriteOn("storage", o, data)
            \/ Crash
            \/ Restart
            \/ UNCHANGED vars
BY DEF BuildNext, BuildWork, buildVars, Base

-----------------------------------------------------------------------------
(* Types.                                                                  *)

BuildTyped == /\ build \in BuildNames
              /\ build = "default" => Typed
              /\ build = "micro" => MicroTyped

\* The initial states have the types.
LEMMA BuildTypedInit == BuildInit => BuildTyped
<1> SUFFICES ASSUME BuildInit PROVE BuildTyped
  OBVIOUS
<1>1. CASE build = "default"
  BY <1>1, BuildStarts, TypedInit DEF BuildTyped
<1>2. CASE build = "micro"
  <2>1. store \in [Objects -> Places]
    <3>1. ASSUME NEW o \in Objects PROVE store[o] \in Places
      BY <1>2, BuildStarts, MicroCreatedTypes DEF Nowhere, Places
    <3>2. store = [o \in Objects |-> store[o]]
      BY DEF BuildInit
    <3> QED
      BY <3>1, <3>2
  <2>2. AtRest
    BY BuildStarts
  <2>3. bounds \in [ops : 0 .. MaxOps, writes : 0 .. MaxWrites,
                    faults : 0 .. MaxFaults, crashes : 0 .. MaxCrashes]
    BY <2>2, ObjectMoverAssumption DEF AtRest
  <2>4. MicroTyped
    BY <2>1, <2>2, <2>3 DEF AtRest, MicroTyped, TypeOK, Thread, IdleThread, MicroFits,
                            MicroFitsAt, Inside
  <2> QED
    BY <1>2, <2>4, BuildStarts DEF BuildTyped
<1> QED
  BY <1>1, <1>2, BuildStarts DEF BuildNames

\* Every step keeps the types.
LEMMA BuildTypedStep == BuildTyped /\ [BuildNext]_buildVars => BuildTyped'
<1> SUFFICES ASSUME BuildTyped, [BuildNext]_buildVars PROVE BuildTyped'
  OBVIOUS
<1>1. CASE build = "default"
  BY <1>1, DefaultSteps, TypedStep DEF BuildTyped
<1>2. CASE build = "micro"
  <2>1. MicroTyped /\ BuildRequests["micro"] \subseteq Requests
    BY <1>2, BuildsAssumption DEF BuildTyped, BuildNames
  <2>2. ASSUME UNCHANGED vars PROVE MicroTyped'
    BY <2>1, <2>2 DEF vars, MicroTyped, TypeOK, MicroFits, MicroFitsAt, Asked, At
  <2>3. MicroTyped'
    BY <1>2, <2>1, <2>2, MicroSteps, MicroWorkTypes, MicroStartTypes, MicroDirectWriteTypes,
       MicroCrashTypes
  <2> QED
    BY <1>2, <2>3, MicroSteps DEF BuildTyped, BuildNames
<1> QED
  BY <1>1, <1>2 DEF BuildTyped, BuildNames

\* Neither does it matter to the types how often applications write.
LEMMA WritingTypedStep == BuildTyped /\ [BuildNext \/ MoreWrites]_buildVars => BuildTyped'
<1>1. ASSUME BuildTyped, MoreWrites PROVE BuildTyped'
  <2>1. /\ MaxWrites \in Nat /\ TypeOK
        /\ bounds' = [bounds EXCEPT !.writes = MaxWrites]
        /\ UNCHANGED <<store, thread, current, status, build>>
    BY <1>1, ObjectMoverAssumption
       DEF BuildTyped, BuildNames, Typed, MicroTyped, MoreWrites
  <2>2. TypeOK'
    BY <2>1 DEF TypeOK, At
  <2>3. \A th \in Threads : Fits(th)' = Fits(th) /\ MicroFits(th)' = MicroFits(th)
    BY <2>1 DEF Fits, FitsAt, MicroFits, MicroFitsAt, Asked, Found
  <2> QED
    BY <1>1, <2>1, <2>2, <2>3 DEF BuildTyped, BuildNames, Typed, MicroTyped
<1> QED
  BY <1>1, BuildTypedStep DEF buildVars

\* In both builds the pools, the threads and the bounds keep their types, and
\* the version of a copy is known only to a mover about to replace the object
\* it was made from.
THEOREM BuildsTypeCorrect == WritingSpec => []TypeOK
<1>1. BuildTyped => TypeOK
  BY DEF BuildTyped, BuildNames, Typed, MicroTyped
<1> QED
  BY <1>1, BuildTypedInit, WritingTypedStep, PTL DEF WritingSpec

-----------------------------------------------------------------------------
(* Moves keep the data, and the lock excludes.                             *)

BuildSafe == /\ build = "default" => AllSafe
             /\ build = "micro" => AllMicroSafe

\* Objects are where Create left them, and no mover is under way.
LEMMA BuildSafeInit ==
  ASSUME OnlyMoves, BuildInit
  PROVE  BuildSafe
<1>1. CASE build = "default"
  BY <1>1, BuildStarts, SafeInit DEF BuildSafe
<1>2. CASE build = "micro"
  <2>1. ASSUME NEW o \in Objects PROVE MicroSafe(o)
    <3>1. Sound(store[o])
      BY <1>2, BuildStarts, MicroCreatedTypes DEF OnlyMoves
    <3>2. Movers(o) = {}
      BY BuildStarts DEF AtRest, Movers, Workers, IdleThread, Inside
    <3> QED
      BY <3>1, <3>2 DEF MicroSafe
  <2> QED
    BY <1>2, <2>1 DEF BuildSafe, AllMicroSafe
<1> QED
  BY <1>1, <1>2, BuildStarts DEF BuildNames

\* With moves and reads alone every step keeps all objects safe.
LEMMA BuildSafeStep ==
  ASSUME OnlyMoves, BuildTyped, BuildSafe, [BuildNext]_buildVars
  PROVE  BuildSafe'
<1>1. CASE build = "default"
  BY <1>1, DefaultSteps, SafeStep DEF BuildTyped, BuildSafe
<1>2. CASE build = "micro"
  <2>1. MicroTyped /\ AllMicroSafe /\ BuildRequests["micro"] \subseteq Requests
    BY <1>2, BuildsAssumption DEF BuildTyped, BuildSafe, BuildNames
  <2>2. ASSUME NEW o \in Objects, NEW data \in Writers PROVE FALSE
    BY <2>2 DEF OnlyMoves
  <2>3. ASSUME Crash PROVE AllMicroSafe'
    BY <2>1, <2>3, MicroAbortSafe DEF Crash
  <2>4. ASSUME Restart PROVE AllMicroSafe'
    BY <2>1, <2>4, MicroAside DEF Restart
  <2>5. ASSUME UNCHANGED vars PROVE AllMicroSafe'
    BY <2>1, <2>5, MicroAside DEF vars
  <2>6. AllMicroSafe'
    BY <1>2, <2>1, <2>2, <2>3, <2>4, <2>5, MicroSteps, MicroWorkSafe, MicroStartSafe
  <2> QED
    BY <1>2, <2>6, MicroSteps DEF BuildSafe
<1> QED
  BY <1>1, <1>2 DEF BuildTyped, BuildNames

\* In both builds, whatever moves and reads do, between whichever tiers,
\* wherever operations fail and the process stops: some pool has each object
\* with its data.
THEOREM BuildsKeepData == ASSUME OnlyMoves PROVE BuildSpec => []DataKept
<1>1. BuildInit => BuildTyped /\ BuildSafe
  BY BuildTypedInit, BuildSafeInit
<1>2. BuildTyped /\ BuildSafe /\ [BuildNext]_buildVars => (BuildTyped /\ BuildSafe)'
  BY BuildTypedStep, BuildSafeStep
<1>3. ASSUME BuildTyped, BuildSafe PROVE DataKept
  <2>1. CASE build = "default"
    BY <1>3, <2>1, SafeKeeps DEF BuildSafe
  <2>2. CASE build = "micro"
    <3>1. ASSUME NEW o \in Objects
          PROVE  \E pool \in Pools : /\ store[o][pool] # NoObject
                                     /\ store[o][pool].data = InitialData
      <4>1. Sound(store[o])
        BY <1>3, <2>2 DEF BuildSafe, AllMicroSafe, MicroSafe
      <4> QED
        BY <4>1 DEF Sound, Pools
    <3> QED
      BY <3>1 DEF DataKept
  <2> QED
    BY <1>3, <2>1, <2>2 DEF BuildTyped, BuildNames
<1> QED
  BY <1>1, <1>2, <1>3, PTL DEF BuildSpec

\* In both builds the lock that a move takes excludes all other moves of that
\* object, with the exception that only the default build has.
THEOREM BuildsLockExcludes == ASSUME OnlyMoves PROVE BuildSpec => []LockExclusion
<1>1. BuildInit => BuildTyped /\ BuildSafe
  BY BuildTypedInit, BuildSafeInit
<1>2. BuildTyped /\ BuildSafe /\ [BuildNext]_buildVars => (BuildTyped /\ BuildSafe)'
  BY BuildTypedStep, BuildSafeStep
<1>3. ASSUME BuildTyped, BuildSafe PROVE LockExclusion
  <2>1. CASE build = "default"
    BY <1>3, <2>1, SafeExcludes DEF BuildSafe
  <2>2. CASE build = "micro"
    BY <1>3, <2>2, MicroExcludes DEF BuildSafe, LockExclusion, Movers
  <2> QED
    BY <1>3, <2>1, <2>2 DEF BuildTyped, BuildNames
<1> QED
  BY <1>1, <1>2, <1>3, PTL DEF BuildSpec

\* Never two threads between Lock and Unlock of one object.
AtMostOneMover == \A o \in Objects : Cardinality(Movers(o)) <= 1

\* With micro tiering there is no exception: the archive is the only pool
\* below, so an object is never left under the name of another.
THEOREM MicroLockExcludes ==
  ASSUME OnlyMoves PROVE BuildSpec => [](build = "micro" => AtMostOneMover)
<1>1. BuildInit => BuildTyped /\ BuildSafe
  BY BuildTypedInit, BuildSafeInit
<1>2. BuildTyped /\ BuildSafe /\ [BuildNext]_buildVars => (BuildTyped /\ BuildSafe)'
  BY BuildTypedStep, BuildSafeStep
<1>3. BuildSafe => (build = "micro" => AtMostOneMover)
  BY MicroExcludes DEF BuildSafe, AtMostOneMover
<1> QED
  BY <1>1, <1>2, <1>3, PTL DEF BuildSpec

-----------------------------------------------------------------------------
(* Demotions cannot be seen.  An object of the fast tier is copied below   *)
(* and replaced by a redirect only if the copy is what the base pool has;  *)
(* this needs the version that the replacement asserts, not the lock.      *)

\* Objects begin in the fast tier.  Callers of the default build move them to
\* one lower tier; with micro tiering there is only one pool below, and they
\* move them where they like.
DemotesTo(tier) ==
    /\ InitialTiers \subseteq {"FAST"}
    /\ \A req \in BuildRequests["default"] :
          req.op \in {"read", "move"} /\ (req.op = "move" => req.tier = tier)
    /\ \A req \in BuildRequests["micro"] : req.op \in {"read", "move"}

\* The pool below to which objects are moved.
Below(tier) == IF build = "default" THEN PoolOf(tier) ELSE "archive"

\* Where the object is: in the base pool, or in the pool below, where a copy
\* may be in any case.  Its name is always "fast", for nothing renames it.
Demoted(p, base, below) ==
    /\ p[base] # NoObject
    /\ \/ p[base].redirect = "none" /\ p[base].tier = "fast"
       \/ p[base].redirect = below /\ p[below] # NoObject
    /\ p[below] # NoObject => p[below].redirect = "none" /\ p[below].tier = "fast"

\* What a mover that has the version of the base object relies on.
Copied(p, base, below) ==
    /\ p[below] # NoObject
    /\ p[base].redirect = "none" => p[below].data = p[base].data

\* What an application reads.
Look(p, base) == IF Reached(p, base) = NoObject THEN NoObject ELSE Reached(p, base).data

\* Where operations sent to the two pools are executed.
LEMMA DemotedFacts ==
  ASSUME NEW base \in {"cache", "storage"}, NEW below \in Lower \ {base},
         NEW p \in Places, Demoted(p, base, below)
  PROVE  /\ p[base] \in Object /\ p[below] \in Object \cup {NoObject}
         /\ Target(p, below) = below
         /\ Target(p, base) \in {base, below}
         /\ Reached(p, base) = p[Target(p, base)]
         /\ Reached(p, base) \in Object /\ Reached(p, base) # NoObject
         /\ Reached(p, base).redirect = "none" /\ Reached(p, base).tier = "fast"
         /\ Target(p, base) = base <=> p[base].redirect = "none"
         /\ Target(p, base) = below <=> p[base].redirect = below
<1>1. {base, below} \subseteq Pools /\ base # below /\ below # "none"
  BY DEF Pools, Lower
<1>2. p[base] \in Object /\ p[below] \in Object \cup {NoObject}
  BY <1>1 DEF Places, Demoted
<1>3. Target(p, below) = below
  BY DEF Demoted, Target
<1>4. CASE p[base].redirect = "none"
  <2>1. Target(p, base) = base
    BY <1>4 DEF Target
  <2> QED
    BY <1>1, <1>2, <1>3, <1>4, <2>1 DEF Demoted, Reached
<1>5. CASE p[base].redirect = below
  <2>1. Target(p, base) = below
    BY <1>1, <1>5 DEF Target, Demoted
  <2> QED
    BY <1>1, <1>2, <1>3, <1>5, <2>1 DEF Demoted, Reached
<1> QED
  BY <1>4, <1>5 DEF Demoted

\* An operation that changes neither redirect nor name where it is executed,
\* and the data only in the object that applications read.
LEMMA ChangesReached ==
  ASSUME NEW base \in {"cache", "storage"}, NEW below \in Lower \ {base},
         NEW p \in Places, Demoted(p, base, below),
         NEW obj \in Object, obj.redirect = "none", obj.tier = "fast"
  PROVE  LET q == [p EXCEPT ![Target(p, base)] = obj]
         IN  /\ Demoted(q, base, below)
             /\ Look(q, base) = obj.data
             /\ Copied(p, base, below) /\ (Target(p, base) = base => obj.data = Look(p, base))
                   => Copied(q, base, below)
<1> DEFINE t == Target(p, base)
           q == [p EXCEPT ![t] = obj]
<1>1. {base, below} \subseteq Pools /\ base # below /\ below # "none" /\ t \in {base, below}
  BY DemotedFacts DEF Pools, Lower
<1>2. q[t] = obj /\ \A other \in {base, below} \ {t} : q[other] = p[other]
  BY <1>1 DEF Places
<1>3. obj # NoObject
  BY RadosAssumption
<1> HIDE DEF t, q
<1>4. CASE t = base
  <2>1. q[base] = obj /\ q[below] = p[below] /\ p[base].redirect = "none"
    <3>1. p[base].redirect = "none"
      BY <1>4, DemotedFacts DEF t
    <3> QED
      BY <1>1, <1>2, <1>4, <3>1
  <2>2. Reached(q, base) = obj /\ Reached(p, base) = p[base]
    BY <1>3, <1>4, <2>1 DEF Reached, Target, t
  <2>3. Demoted(q, base, below)
    BY <1>3, <2>1 DEF Demoted
  <2>4. Look(q, base) = obj.data /\ Look(p, base) = p[base].data
    BY <1>3, <2>2 DEF Look, Demoted
  <2>5. Copied(p, base, below) /\ obj.data = Look(p, base) => Copied(q, base, below)
    BY <2>1, <2>4 DEF Copied
  <2> QED
    BY <1>4, <2>3, <2>4, <2>5 DEF t, q
<1>5. CASE t = below
  <2>1. q[below] = obj /\ q[base] = p[base] /\ p[base].redirect = below /\ p[base] # NoObject
    BY <1>1, <1>2, <1>5, DemotedFacts DEF t, Demoted
  <2>2. Reached(q, base) = obj
    BY <1>1, <2>1 DEF Reached, Target
  <2>3. Demoted(q, base, below)
    BY <1>1, <1>3, <2>1 DEF Demoted
  <2>4. Look(q, base) = obj.data /\ Copied(q, base, below)
    BY <1>1, <1>3, <2>1, <2>2 DEF Look, Copied
  <2> QED
    BY <1>1, <1>5, <2>3, <2>4 DEF t, q
<1> QED
  BY <1>1, <1>4, <1>5

\* An application's write: it is what is read afterwards, and a mover that
\* still has the version of the base object can rely on its copy.
LEMMA WriteShows ==
  ASSUME NEW base \in {"cache", "storage"}, NEW below \in Lower \ {base},
         NEW p \in Places, Demoted(p, base, below), NEW data \in Values
  PROVE  LET a == WriteFull(p, base, data)
         IN  /\ a.p \in Places /\ Demoted(a.p, base, below)
             /\ Look(a.p, base) = data
             /\ Copied(p, base, below) /\ a.pool # base => Copied(a.p, base, below)
<1> DEFINE t == Target(p, base)
           obj == [p[t] EXCEPT !.data = data]
<1>1. t \in {base, below} /\ t \in Pools /\ p[t] \in Object /\ p[t] # NoObject
      /\ p[t].redirect = "none" /\ p[t].tier = "fast"
  BY DemotedFacts DEF Pools, Lower
<1>2. obj \in Object /\ obj.redirect = "none" /\ obj.tier = "fast" /\ obj.data = data
  BY <1>1 DEF Object
<1>3. WriteFull(p, base, data) = Ok([p EXCEPT ![t] = obj], t)
  BY <1>1 DEF WriteFull, Existing
<1> HIDE DEF t, obj
<1>4. [p EXCEPT ![t] = obj] \in Places
  BY <1>1, <1>2 DEF Places
<1>5. /\ Demoted([p EXCEPT ![t] = obj], base, below)
      /\ Look([p EXCEPT ![t] = obj], base) = data
      /\ Copied(p, base, below) /\ t # base => Copied([p EXCEPT ![t] = obj], base, below)
  BY <1>2, ChangesReached DEF t
<1> QED
  BY <1>3, <1>4, <1>5 DEF Ok

\* Lock and Unlock.
LEMMA LockHides ==
  ASSUME NEW base \in {"cache", "storage"}, NEW below \in Lower \ {base},
         NEW p \in Places, Demoted(p, base, below), NEW locked \in BOOLEAN
  PROVE  LET q == SetLock(p, base, locked).p
         IN  /\ Demoted(q, base, below)
             /\ Look(q, base) = Look(p, base)
             /\ Copied(p, base, below) => Copied(q, base, below)
<1> DEFINE t == Target(p, base)
           obj == [p[t] EXCEPT !.locked = locked]
<1>1. t \in {base, below} /\ t \in Pools /\ p[t] \in Object /\ p[t] # NoObject
      /\ p[t].redirect = "none" /\ p[t].tier = "fast" /\ Reached(p, base) = p[t]
  BY DemotedFacts DEF Pools, Lower
<1>2. obj \in Object /\ obj.redirect = "none" /\ obj.tier = "fast" /\ obj.data = Look(p, base)
  BY <1>1 DEF Object, Look
<1>3. CASE p[t].locked = locked
  BY <1>1, <1>3 DEF SetLock, Fails
<1>4. CASE p[t].locked # locked
  <2>1. SetLock(p, base, locked).p = [p EXCEPT ![t] = obj]
    BY <1>1, <1>4 DEF SetLock, Ok, Places
  <2> HIDE DEF t, obj
  <2> QED
    BY <1>2, <2>1, ChangesReached DEF t
<1> QED
  BY <1>3, <1>4

\* The copy of a demotion, and of one that comes too late and copies through
\* the redirect onto itself.
LEMMA CopyHides ==
  ASSUME NEW base \in {"cache", "storage"}, NEW below \in Lower \ {base},
         NEW p \in Places, Demoted(p, base, below)
  PROVE  LET a == CopyFrom(p, below, base)
         IN  /\ a.r = "ok" /\ a.p \in Places
             /\ Demoted(a.p, base, below)
             /\ Look(a.p, base) = Look(p, base)
             /\ Copied(a.p, base, below)
<1> DEFINE obj == Reached(p, base)
           q == [p EXCEPT ![below] = obj]
<1>1. /\ Target(p, below) = below /\ below \in Pools /\ base \in Pools /\ base # below
      /\ obj \in Object /\ obj # NoObject /\ obj.redirect = "none" /\ obj.tier = "fast"
  BY DemotedFacts DEF Pools, Lower
<1>2. CopyFrom(p, below, base) = Ok(q, below)
  BY <1>1 DEF CopyFrom
<1>3. q \in Places /\ q[below] = obj /\ q[base] = p[base]
  BY <1>1 DEF Places
<1> HIDE DEF q
<1>4. Demoted(q, base, below)
  BY <1>1, <1>3 DEF Demoted, obj
<1>5. CASE p[base].redirect = "none"
  <2>1. obj = p[base] /\ Reached(q, base) = p[base]
    BY <1>3, <1>5 DEF Reached, Target, obj
  <2> QED
    BY <1>1, <1>2, <1>3, <1>4, <2>1 DEF Look, Copied, Ok
<1>6. CASE p[base].redirect = below
  <2>1. Reached(q, base) = obj
    BY <1>3, <1>4, <1>6, DemotedFacts DEF Reached
  <2> HIDE DEF obj
  <2>2. Look(q, base) = Look(p, base)
    BY <2>1 DEF Look, obj
  <2>3. Copied(q, base, below)
    BY <1>1, <1>3, <1>6 DEF Copied, Lower
  <2> QED
    BY <1>2, <1>3, <1>4, <2>2, <2>3 DEF Ok
<1> QED
  BY <1>5, <1>6 DEF Demoted

\* An object that has become a redirect.
Linked(p, base, to, tier) ==
    [p EXCEPT ![base] = [p[base] EXCEPT !.redirect = to, !.data = Empty, !.tier = tier]]

\* The replacement of the object by a redirect to its copy.
LEMMA ReplaceHides ==
  ASSUME NEW base \in {"cache", "storage"}, NEW below \in Lower \ {base},
         NEW p \in Places, Demoted(p, base, below), Copied(p, base, below),
         NEW name \in TierNames
  PROVE  LET q == Linked(p, base, below, name)
         IN  /\ Demoted(q, base, below)
             /\ Look(q, base) = Look(p, base)
             /\ Copied(q, base, below)
<1> DEFINE link == [p[base] EXCEPT !.redirect = below, !.data = Empty, !.tier = name]
           q == [p EXCEPT ![base] = link]
<1>1. base \in Pools /\ below \in Pools /\ base # below /\ below # "none"
      /\ below \in {"storage", "archive"}
  BY DEF Pools, Lower
<1>2. p[base] \in Object /\ p[base] # NoObject /\ p[below] # NoObject
  BY <1>1, DemotedFacts DEF Demoted, Copied
<1>3. link \in Object /\ link # NoObject /\ link.redirect = below
  BY <1>1, <1>2, RadosAssumption DEF Object
<1>4. Linked(p, base, below, name) = q
  BY DEF Linked
<1> HIDE DEF link
<1>5. q[base] = link /\ q[below] = p[below]
  BY <1>1 DEF Places
<1> HIDE DEF q
<1>6. Reached(q, base) = p[below]
  BY <1>1, <1>3, <1>5 DEF Reached, Target
<1>7. Look(p, base) = p[below].data
  <2>1. CASE p[base].redirect = "none"
    BY <1>2, <2>1 DEF Look, Copied, Reached, Target
  <2>2. CASE p[base].redirect = below
    BY <1>1, <1>2, <2>2 DEF Look, Reached, Target
  <2> QED
    BY <2>1, <2>2 DEF Demoted
<1>8. Look(q, base) = p[below].data
  BY <1>2, <1>6 DEF Look
<1>9. Demoted(q, base, below) /\ Copied(q, base, below)
  BY <1>1, <1>2, <1>3, <1>5 DEF Demoted, Copied
<1> QED
  BY <1>4, <1>7, <1>8, <1>9

-----------------------------------------------------------------------------
(* The steps of the threads, which are all stuttering steps of the         *)
(* registers.                                                              *)

\* The steps that are made when objects are only demoted.
Ways == {"idle", "read", "lock", "locate", "copy_down", "replace", "hint", "unlock", "finish"}

Asking == \A th \in Threads :
             /\ thread[th].at \in Ways
             /\ thread[th].at # "idle" => thread[th].req \in BuildRequests[build]

Hidden(tier) == /\ \A o \in Objects : Demoted(store[o], Base, Below(tier))
                /\ \A th \in current : Copied(Place(th), Base, Below(tier))

\* What a step leaves true that no application notices.
Unnoticed(tier) == /\ Asking' /\ Hidden(tier)'
                   /\ Seen' = Seen
                   /\ bounds'.writes = bounds.writes

\* The two pools of a build.
LEMMA PoolsOfBuild ==
  ASSUME NEW tier \in LowTiers, build \in BuildNames
  PROVE  /\ Base \in {"cache", "storage"}
         /\ Below(tier) \in Lower \ {Base}
         /\ build' = build => Base' = Base /\ Below(tier)' = Below(tier)
BY DEF LowTiers, BuildNames, Base, Below, Lower, PoolOf

\* A step that changes the places of one object.
LEMMA StepHides ==
  ASSUME NEW tier \in LowTiers, BuildTyped, Hidden(tier), build' = build,
         NEW o \in Objects, NEW q, store'[o] = q,
         \A other \in Objects \ {o} : store'[other] = store[other],
         Demoted(q, Base, Below(tier)),
         \A u \in current' : /\ Obj(u)' = Obj(u) /\ Obj(u) \in Objects
                             /\ Obj(u) = o => Copied(q, Base, Below(tier))
                             /\ Obj(u) # o => u \in current
  PROVE  Hidden(tier)' /\ Seen' = [Seen EXCEPT ![o] = Look(q, Base)]
<1>1. Base' = Base /\ Below(tier)' = Below(tier)
  BY PoolsOfBuild DEF BuildTyped
<1>2. \A other \in Objects : Demoted(store'[other], Base, Below(tier))
  BY DEF Hidden
<1>3. ASSUME NEW u \in current' PROVE Copied(Place(u)', Base, Below(tier))
  <2>1. PICK other \in Objects : other = Obj(u) /\ other = Obj(u)'
    BY <1>3
  <2>2. Place(u)' = store'[other] /\ Place(u) = store[other]
    BY <2>1 DEF Place
  <2>3. CASE other = o
    BY <1>3, <2>1, <2>2, <2>3
  <2>4. CASE other # o
    BY <1>3, <2>1, <2>2, <2>4 DEF Hidden
  <2> QED
    BY <2>3, <2>4
<1>4. Hidden(tier)'
  BY <1>1, <1>2, <1>3 DEF Hidden
<1>5. \A other \in Objects : /\ Seen[other] = Look(store[other], Base)
                             /\ Seen'[other] = Look(store'[other], Base)
  BY <1>1 DEF Seen, SeenOn, Look
<1>6. Seen' = [Seen EXCEPT ![o] = Look(q, Base)]
  <2>1. \A other \in Objects : Seen'[other] = [Seen EXCEPT ![o] = Look(q, Base)][other]
    BY <1>5 DEF Seen
  <2>2. Seen' = [other \in Objects |-> Seen'[other]]
    BY DEF Seen
  <2>3. [Seen EXCEPT ![o] = Look(q, Base)]
           = [other \in Objects |-> [Seen EXCEPT ![o] = Look(q, Base)][other]]
    BY DEF Seen
  <2> QED
    BY <2>1, <2>2, <2>3
<1> QED
  BY <1>4, <1>6

\* A step that changes no places.
LEMMA StillHides ==
  ASSUME NEW tier \in LowTiers, BuildTyped, Hidden(tier), build' = build, store' = store,
         \A u \in current' : u \in current /\ thread'[u] = thread[u]
  PROVE  Hidden(tier)' /\ Seen' = Seen
<1>1. Base' = Base /\ Below(tier)' = Below(tier)
  BY PoolsOfBuild DEF BuildTyped
<1>2. \A u \in current' : Place(u)' = Place(u)
  BY DEF Place, Obj
<1> QED
  BY <1>1, <1>2 DEF Hidden, Seen, SeenOn

\* A thread goes on and the others stay.
LEMMA AskingOn ==
  ASSUME Asking, build' = build, NEW th \in Threads, thread[th].at # "idle",
         \/ thread'[th].at \in Ways /\ thread'[th].req = thread[th].req
         \/ thread'[th].at = "idle",
         \A u \in Threads \ {th} : thread'[u] = thread[u]
  PROVE  Asking'
<1>1. "idle" \in Ways
  BY DEF Ways
<1>2. ASSUME NEW u \in Threads
      PROVE  /\ thread'[u].at \in Ways
             /\ thread'[u].at # "idle" => thread'[u].req \in BuildRequests[build]
  BY <1>1, <1>2 DEF Asking
<1> QED
  BY <1>2 DEF Asking

\* An operation that leaves what is read as it is.
LEMMA MovedHides ==
  ASSUME NEW tier \in LowTiers, BuildTyped, Asking, Hidden(tier), build' = build,
         NEW th \in Threads, thread[th].at # "idle",
         NEW next \in Ways, NEW q, Moved(th, next, q),
         Demoted(q, Base, Below(tier)), Look(q, Base) = Look(Place(th), Base),
         Copied(Place(th), Base, Below(tier)) => Copied(q, Base, Below(tier)),
         current' \subseteq current \cup {th},
         th \in current' => Copied(q, Base, Below(tier))
  PROVE  Asking' /\ Hidden(tier)' /\ Seen' = Seen
<1>1. TypeOK
  BY DEF BuildTyped, BuildNames, Typed, MicroTyped
<1>2. PICK o \in Objects : o = Obj(th) /\ Place(th) = store[o]
  BY <1>1, BusyTypes DEF Place
<1>3. store'[o] = q /\ \A other \in Objects \ {o} : store'[other] = store[other]
  BY <1>2 DEF Moved
<1>4. ASSUME NEW u \in current'
      PROVE  /\ Obj(u)' = Obj(u) /\ Obj(u) \in Objects
             /\ Obj(u) = o => Copied(q, Base, Below(tier))
             /\ Obj(u) # o => u \in current
  <2>1. CASE u = th
    BY <1>2, <1>4, <2>1 DEF Moved, Obj
  <2>2. CASE u # th
    <3>1. u \in current /\ u \in Threads /\ thread[u].at # "idle"
      BY <1>1, <1>4, <2>2 DEF TypeOK, At
    <3>2. Obj(u)' = Obj(u) /\ Obj(u) \in Objects
      BY <1>1, <2>2, <3>1, BusyTypes DEF Moved, Obj
    <3>3. Obj(u) = o => Place(u) = Place(th)
      BY <1>2 DEF Place
    <3> QED
      BY <3>1, <3>2, <3>3 DEF Hidden
  <2> QED
    BY <2>1, <2>2
<1>5. Hidden(tier)' /\ Seen' = [Seen EXCEPT ![o] = Look(q, Base)]
  BY <1>3, <1>4, StepHides
<1>6. Seen[o] = Look(q, Base)
  BY <1>2 DEF Seen, SeenOn, Look
<1>7. Seen' = Seen
  BY <1>5, <1>6 DEF Seen
<1>8. Asking'
  BY AskingOn DEF Moved
<1> QED
  BY <1>5, <1>7, <1>8

\* An operation that leaves what is read as it is, or fails.
LEMMA OperateHides ==
  ASSUME NEW tier \in LowTiers, BuildTyped, Asking, Hidden(tier), build' = build,
         NEW base \in {"cache", "storage"}, base = Base,
         NEW below \in Lower \ {base}, below = Below(tier),
         NEW th \in Threads, NEW step \in Ways \ {"idle"}, At(th, step),
         NEW answer \in Answer, answer.r # "ok" => answer.p = Place(th),
         NEW after \in Ways \ {"idle"}, NEW failed \in Ways \ {"idle"},
         \/ OperateOn(base, th, step, answer, after, failed)
         \/ OperateShadowedOn(base, th, step, answer, after, failed),
         answer.r = "ok" =>
            /\ Demoted(answer.p, base, below)
            /\ Look(answer.p, base) = Look(Place(th), base)
            /\ Copied(Place(th), base, below) => Copied(answer.p, base, below)
  PROVE  Unnoticed(tier)
<1>1. TypeOK /\ Ways \ {"idle"} \subseteq Steps /\ thread[th].at # "idle"
  BY DEF BuildTyped, BuildNames, Typed, MicroTyped, Ways, Steps, At
<1>2. \/ answer.r = "ok" /\ Moved(th, after, answer.p)
      \/ Moved(th, failed, Place(th))
  BY <1>1, OperateMoves
<1>3. PICK a : TakesOn(base, th, a)
  BY DEF OperateOn, OperateShadowedOn
<1>4. bounds'.writes = bounds.writes /\ current' \subseteq current \ {th}
  BY <1>1, <1>3 DEF TakesOn, TypeOK
<1>5. Demoted(Place(th), base, below)
  BY <1>1, BusyTypes DEF Hidden, Place
<1>6. \E next \in Ways : \E q :
         /\ Moved(th, next, q)
         /\ Demoted(q, base, below)
         /\ Look(q, base) = Look(Place(th), base)
         /\ Copied(Place(th), base, below) => Copied(q, base, below)
  BY <1>2, <1>5
<1>7. Asking' /\ Hidden(tier)' /\ Seen' = Seen
  BY <1>1, <1>4, <1>6, MovedHides
<1> QED
  BY <1>4, <1>7 DEF Unnoticed

\* When the process ends nobody is under way.
LEMMA AbortHides ==
  ASSUME NEW tier \in LowTiers, BuildTyped, Hidden(tier), build' = build,
         store' = store, current' = {}, \A th \in Threads : thread'[th] = IdleThread,
         bounds'.writes = bounds.writes
  PROVE  Unnoticed(tier)
<1>1. Hidden(tier)' /\ Seen' = Seen
  BY StillHides
<1>2. Asking'
  BY DEF Asking, IdleThread, Ways
<1> QED
  BY <1>1, <1>2 DEF Unnoticed

\* Read.
LEMMA ReadHides ==
  ASSUME NEW tier \in LowTiers, BuildTyped, Asking, Hidden(tier), build' = build,
         NEW base \in {"cache", "storage"}, base = Base,
         NEW below \in Lower \ {base}, below = Below(tier),
         NEW th \in Threads, ReadOn(base, th)
  PROVE  Unnoticed(tier)
<1> DEFINE answer == IF Reached(Place(th), base) = NoObject THEN Fails(Place(th), "enoent")
                                                            ELSE Ok(Place(th), "none")
<1>1. OperateOn(base, th, "read", answer, "finish", "finish") /\ At(th, "read")
  BY DEF ReadOn, OperateOn
<1>2. Place(th) \in Places /\ Demoted(Place(th), base, below)
  <2>1. TypeOK /\ thread[th].at # "idle"
    BY <1>1 DEF BuildTyped, BuildNames, Typed, MicroTyped, At
  <2> QED
    BY <2>1, BusyTypes DEF Hidden, Place
<1>3. answer \in Answer /\ answer.p = Place(th)
  <2>1. Fails(Place(th), "enoent") \in Answer /\ Ok(Place(th), "none") \in Answer
    BY <1>2, AnswerTypes
  <2> QED
    BY <2>1 DEF Fails, Ok
<1> HIDE DEF answer
<1>4. {"read", "finish"} \subseteq Ways \ {"idle"}
  BY DEF Ways
<1> QED
  BY <1>1, <1>2, <1>3, <1>4, OperateHides

\* Lock and Unlock.
LEMMA LockingHides ==
  ASSUME NEW tier \in LowTiers, BuildTyped, Asking, Hidden(tier), build' = build,
         NEW base \in {"cache", "storage"}, base = Base,
         NEW below \in Lower \ {base}, below = Below(tier),
         NEW th \in Threads, LockOn(base, th) \/ UnlockOn(base, th)
  PROVE  Unnoticed(tier)
<1>1. TypeOK /\ thread[th].at \in {"lock", "unlock", "unlock_early"}
  BY DEF BuildTyped, BuildNames, Typed, MicroTyped, LockOn, UnlockOn, OperateAssertedOn, At
<1>2. thread[th].at \in {"lock", "unlock"}
  BY <1>1 DEF Asking, Ways
<1>3. Place(th) \in Places /\ Demoted(Place(th), base, below)
  BY <1>1, BusyTypes DEF Hidden, Place
<1>4. PICK locked \in BOOLEAN, after \in {"locate", "finish"} :
      \E a \in Answers(th, SetLock(Place(th), base, locked)) :
         \/ a.r = "ok" /\ TakesOn(base, th, a) /\ Goto(th, after)
         \/ AbortAfter(a.r)
  <2>1. CASE LockOn(base, th)
    BY <2>1 DEF LockOn, OperateAssertedOn
  <2>2. CASE UnlockOn(base, th)
    BY <1>2, <2>2 DEF UnlockOn, OperateAssertedOn, At
  <2> QED
    BY <2>1, <2>2
<1> DEFINE answer == SetLock(Place(th), base, locked)
<1>5. PICK a \in Answers(th, answer) :
         \/ a.r = "ok" /\ TakesOn(base, th, a) /\ Goto(th, after)
         \/ AbortAfter(a.r)
  BY <1>4
<1>6. answer \in Answer
  BY <1>3, LockTypes DEF Pools
<1>7. /\ Demoted(answer.p, base, below)
      /\ Look(answer.p, base) = Look(Place(th), base)
      /\ Copied(Place(th), base, below) => Copied(answer.p, base, below)
  BY <1>3, LockHides
<1> HIDE DEF answer
<1>8. CASE AbortAfter(a.r)
  BY <1>1, <1>6, <1>8, AnswersTypes, AbortBounds, AbortHides DEF Abort
<1>9. CASE a.r = "ok" /\ TakesOn(base, th, a) /\ Goto(th, after)
  <2>1. a = answer /\ a.p \in Places /\ "ok" \in Results
    BY <1>1, <1>5, <1>6, <1>9, AnswersTypes DEF Results
  <2>2. after \in Steps /\ after \in Ways
    BY DEF Steps, Ways
  <2>3. Moved(th, after, answer.p)
    BY <1>1, <1>9, <2>1, <2>2, TakesMoves
  <2>4. bounds'.writes = bounds.writes /\ current' \subseteq current \ {th}
    BY <1>1, <1>9 DEF TakesOn, TypeOK
  <2>5. Asking' /\ Hidden(tier)' /\ Seen' = Seen
    BY <1>1, <1>7, <2>2, <2>3, <2>4, MovedHides
  <2> QED
    BY <2>4, <2>5 DEF Unnoticed
<1> QED
  BY <1>5, <1>8, <1>9

\* GetLocation: the name it finds is "fast".
LEMMA LocateHides ==
  ASSUME NEW tier \in LowTiers, BuildTyped, Asking, Hidden(tier), build' = build,
         NEW base \in {"cache", "storage"}, base = Base,
         NEW below \in Lower \ {base}, below = Below(tier),
         NEW th \in Threads, NEW next, next["FAST"] \in Ways \cap Inside, LocateOn(base, th, next)
  PROVE  Unnoticed(tier)
<1>1. TypeOK /\ thread[th].at = "locate"
  BY DEF BuildTyped, BuildNames, Typed, MicroTyped, LocateOn, At
<1>2. /\ Place(th) \in Places /\ Demoted(Place(th), base, below)
      /\ thread[th] \in [at : Steps, req : Requests, tier : Tiers, r : Results]
  BY <1>1, BusyTypes DEF Hidden, Place
<1>3. Reached(Place(th), base) # NoObject /\ Named(Reached(Place(th), base).tier) = {"FAST"}
  BY <1>2, DemotedFacts, TierFacts DEF Named, NameOf, Tiers
<1>4. \/ /\ thread' = [thread EXCEPT ![th] = [@ EXCEPT !.at = next["FAST"], !.tier = "FAST"]]
         /\ UNCHANGED <<store, current, status, bounds>>
      \/ bounds.faults > 0 /\ AbortAfter("eio")
  BY <1>3 DEF LocateOn
<1>5. CASE bounds.faults > 0 /\ AbortAfter("eio")
  BY <1>1, <1>5, AbortBounds, AbortHides DEF Abort
<1>6. CASE /\ thread' = [thread EXCEPT ![th] = [@ EXCEPT !.at = next["FAST"], !.tier = "FAST"]]
           /\ UNCHANGED <<store, current, status, bounds>>
  <2>1. /\ thread'[th].at = next["FAST"] /\ thread'[th].req = thread[th].req
        /\ \A u \in Threads \ {th} : thread'[u] = thread[u]
    BY <1>1, <1>2, <1>6 DEF TypeOK
  <2>2. Asking'
    BY <1>1, <2>1, AskingOn
  <2>3. \A u \in current' : u \in current /\ thread'[u] = thread[u]
    BY <1>1, <1>6, <2>1 DEF TypeOK, At
  <2>4. Hidden(tier)' /\ Seen' = Seen
    BY <1>6, <2>3, StillHides
  <2> QED
    BY <1>6, <2>2, <2>4 DEF Unnoticed
<1> QED
  BY <1>4, <1>5, <1>6

\* The copy of a demotion.
LEMMA CopyDownHides ==
  ASSUME NEW tier \in LowTiers, BuildTyped, Asking, Hidden(tier), build' = build,
         NEW base \in {"cache", "storage"}, base = Base,
         NEW below \in Lower \ {base}, below = Below(tier),
         NEW th \in Threads, CopyDownOn(base, th, below)
  PROVE  Unnoticed(tier)
<1> DEFINE answer == CopyFrom(Place(th), below, base)
<1>1. TypeOK /\ thread[th].at = "copy_down" /\ thread[th].at # "idle"
  BY DEF BuildTyped, BuildNames, Typed, MicroTyped, CopyDownOn, At
<1>2. PICK o \in Objects : o = Obj(th)
  BY <1>1, BusyTypes
<1>3. Place(th) = store[o] /\ Place(th) \in Places /\ Demoted(Place(th), base, below)
  BY <1>1, <1>2, BusyTypes DEF Hidden, Place
<1>4. /\ answer.r = "ok" /\ answer.p \in Places
      /\ Demoted(answer.p, base, below)
      /\ Look(answer.p, base) = Look(Place(th), base)
      /\ Copied(answer.p, base, below)
  BY <1>3, CopyHides
<1>5. PICK a \in Answers(th, answer) :
         /\ store' = [store EXCEPT ![Obj(th)] = a.p]
         /\ bounds' = IF a.r = "eio" THEN [bounds EXCEPT !.faults = @ - 1] ELSE bounds
         /\ \/ a.r = "ok" /\ current' \subseteq current \cup {th}
            \/ current' = current \ {th}
         /\ Goto(th, IF a.r = "ok" THEN "replace" ELSE "unlock")
  BY DEF CopyDownOn
<1>6. \/ a.r = "ok" /\ a.p = answer.p
      \/ a.r = "eio" /\ a.p = Place(th)
  BY <1>4 DEF Answers, Fails
<1> HIDE DEF answer
<1>7. PICK next \in {"replace", "unlock"} :
         next = (IF a.r = "ok" THEN "replace" ELSE "unlock") /\ next \in Steps /\ next \in Ways
  BY DEF Steps, Ways
<1>8. a.p \in Places /\ "ok" \in Results
  BY <1>3, <1>4, <1>6 DEF Results
<1>9. Moved(th, next, a.p)
  <2>1. /\ store'[Obj(th)] = a.p
        /\ \A other \in Objects \ {Obj(th)} : store'[other] = store[other]
    BY <1>1, <1>2, <1>5 DEF TypeOK
  <2> QED
    BY <1>1, <1>5, <1>7, <1>8, <2>1, GotoTypes DEF Moved, At
<1>10. /\ Demoted(a.p, base, below)
       /\ Look(a.p, base) = Look(Place(th), base)
       /\ Copied(Place(th), base, below) => Copied(a.p, base, below)
       /\ th \in current' => Copied(a.p, base, below)
       /\ current' \subseteq current \cup {th}
  BY <1>3, <1>4, <1>5, <1>6
<1>11. Asking' /\ Hidden(tier)' /\ Seen' = Seen
  BY <1>1, <1>7, <1>9, <1>10, MovedHides
<1>12. bounds'.writes = bounds.writes
  BY <1>1, <1>5 DEF TypeOK
<1> QED
  BY <1>11, <1>12 DEF Unnoticed

\* The replacement: it succeeds only with the version of what was copied.
LEMMA ReplacingHides ==
  ASSUME NEW tier \in LowTiers, BuildTyped, Asking, Hidden(tier), build' = build,
         NEW base \in {"cache", "storage"}, base = Base,
         NEW below \in Lower \ {base}, below = Below(tier),
         NEW th \in Threads, NEW name \in TierNames,
         OperateShadowedOn(base, th, "replace",
                           SetRedirectIf(Place(th), base, th \in current, below, name),
                           "unlock", "copy_down")
  PROVE  Unnoticed(tier)
<1> DEFINE answer == SetRedirectIf(Place(th), base, th \in current, below, name)
<1>1. TypeOK /\ At(th, "replace") /\ thread[th].at # "idle"
  BY DEF BuildTyped, BuildNames, Typed, MicroTyped, OperateShadowedOn, At
<1>2. Place(th) \in Places /\ Demoted(Place(th), base, below)
  BY <1>1, BusyTypes DEF Hidden, Place
<1>3. answer \in Answer /\ (answer.r # "ok" => answer.p = Place(th))
  <2>1. (th \in current) \in BOOLEAN /\ base \in Pools /\ below \in {"storage", "archive"}
    BY DEF Pools, Lower
  <2>2. answer \in Answer
    BY <1>2, <2>1, RedirectTypes
  <2> QED
    BY <2>2 DEF SetRedirectIf, Ok, Fails
<1>4. answer.r = "ok" => th \in current /\ answer.p = Linked(Place(th), base, below, name)
  BY <1>2 DEF SetRedirectIf, Ok, Fails, Linked, Places
<1>5. answer.r = "ok" => /\ Demoted(answer.p, base, below)
                         /\ Look(answer.p, base) = Look(Place(th), base)
                         /\ Copied(answer.p, base, below)
  <2>1. answer.r = "ok" => Copied(Place(th), base, below)
    BY <1>4 DEF Hidden
  <2> HIDE DEF answer
  <2> QED
    BY <1>2, <1>4, <2>1, ReplaceHides
<1>6. {"replace", "unlock", "copy_down"} \subseteq Ways \ {"idle"}
  BY DEF Ways
<1>7. OperateShadowedOn(base, th, "replace", answer, "unlock", "copy_down")
  OBVIOUS
<1> HIDE DEF answer
<1> QED
  BY <1>1, <1>3, <1>5, <1>6, <1>7, OperateHides

\* The hint finds the object and changes nothing.
LEMMA HintHides ==
  ASSUME NEW tier \in LowTiers, BuildTyped, Asking, Hidden(tier), build' = build,
         NEW base \in {"cache", "storage"}, base = Base,
         NEW below \in Lower \ {base}, below = Below(tier),
         NEW th \in Threads,
         OperateOn(base, th, "hint", AllocHint(Place(th), base), "unlock", "unlock")
  PROVE  Unnoticed(tier)
<1> DEFINE answer == AllocHint(Place(th), base)
           q == Target(Place(th), base)
<1>1. TypeOK /\ At(th, "hint") /\ thread[th].at # "idle"
  BY DEF BuildTyped, BuildNames, Typed, MicroTyped, OperateOn, At
<1>2. Place(th) \in Places /\ Demoted(Place(th), base, below)
  BY <1>1, BusyTypes DEF Hidden, Place
<1>3. q \in Pools /\ Place(th)[q] # NoObject /\ Place(th)[q] \in Object
  BY <1>2, DemotedFacts DEF Pools, Lower
<1>4. [Place(th) EXCEPT ![q] = Place(th)[q]] = Place(th)
  BY <1>2, <1>3 DEF Places
<1>5. answer = Ok(Place(th), q)
  BY <1>3, <1>4 DEF AllocHint, Existing
<1> HIDE DEF answer, q
<1>6. answer \in Answer /\ answer.p = Place(th)
  <2>1. Ok(Place(th), q) \in Answer
    BY <1>2, <1>3, AnswerTypes
  <2>2. Ok(Place(th), q).p = Place(th)
    BY DEF Ok
  <2> QED
    BY <1>5, <2>1, <2>2
<1>7. {"hint", "unlock"} \subseteq Ways \ {"idle"}
  BY DEF Ways
<1>8. OperateOn(base, th, "hint", answer, "unlock", "unlock")
  BY DEF answer
<1> QED
  BY <1>1, <1>2, <1>6, <1>7, <1>8, OperateHides

\* The end of an operation.
LEMMA EndHides ==
  ASSUME NEW tier \in LowTiers, BuildTyped, Asking, Hidden(tier), build' = build,
         NEW th \in Threads, End(th)
  PROVE  Unnoticed(tier)
<1>1. TypeOK /\ thread[th].at \in {"finish", "early"}
  BY DEF BuildTyped, BuildNames, Typed, MicroTyped, End, At
<1>2. thread'[th] = IdleThread /\ \A u \in Threads \ {th} : thread'[u] = thread[u]
  BY <1>1 DEF End, TypeOK
<1>3. Asking'
  BY <1>1, <1>2, AskingOn DEF IdleThread
<1>4. \A u \in current' : u \in current /\ thread'[u] = thread[u]
  BY <1>1, <1>2 DEF End, TypeOK, At
<1>5. Hidden(tier)' /\ Seen' = Seen
  BY <1>4, StillHides DEF End
<1> QED
  BY <1>3, <1>5 DEF Unnoticed, End

\* The actions of the default build that are taken when callers only demote.
LEMMA DefaultWays ==
  ASSUME NEW tier \in LowTiers, DemotesTo(tier), BuildTyped, Asking, build = "default",
         NEW th \in Threads, Work(th)
  PROVE  LET base == "cache" IN
         \/ ReadOn(base, th) \/ LockOn(base, th) \/ UnlockOn(base, th)
         \/ \E next : next["FAST"] \in Ways \cap Inside /\ LocateOn(base, th, next)
         \/ CopyDownOn(base, th, PoolOf(tier))
         \/ \E name \in TierNames :
               OperateShadowedOn(base, th, "replace",
                                 SetRedirectIf(Place(th), base, th \in current, PoolOf(tier), name),
                                 "unlock", "copy_down")
         \/ End(th)
<1>1. thread[th].at \in Ways
  BY DEF Asking
<1>2. ~ Create(th) /\ ~ MoveUp(th) /\ ~ MoveAcross(th) /\ ~ Delete(th)
  BY <1>1 DEF Ways, Create, Write, Dummy, Link, MoveUp, Unlink, Promote, RmSource, MoveAcross,
              XUnlink, XCopy, XRemove, XDummy, XLink, Delete, RmTarget, RmSelf, Operate,
              OperateOn, OperateShadowed, OperateShadowedOn, At
<1>3. thread[th].at \in Inside => Asked(th) = tier /\ Asked(th) # "FAST"
  <2>1. thread[th].at \in Inside => thread[th].req.op = "move" /\ thread[th].at # "idle"
    BY DEF BuildTyped, Typed, Fits, FitsAt, Inside
  <2> QED
    BY <2>1 DEF Asking, DemotesTo, Asked, LowTiers
<1>4. CASE Locate(th)
  <2> DEFINE next == [t \in Tiers |-> IF t = Asked(th) THEN "unlock"
                                      ELSE IF Asked(th) = "FAST" THEN "unlink"
                                      ELSE IF t = "FAST" THEN "copy_down"
                                      ELSE "x_unlink"]
  <2>1. LocateOn("cache", th, next)
    BY <1>4 DEF Locate
  <2>2. next["FAST"] = "copy_down"
    <3>1. thread[th].at \in Inside
      BY <1>4 DEF Locate, LocateOn, At, Inside
    <3> QED
      BY <1>3, <3>1 DEF Tiers
  <2>3. next["FAST"] \in Ways \cap Inside
    BY <2>2 DEF Ways, Inside
  <2> HIDE DEF next
  <2> QED
    BY <2>1, <2>3
<1>5. CASE CopyDown(th)
  <2>1. Asked(th) = tier
    BY <1>3, <1>5 DEF CopyDown, CopyDownOn, At, Inside
  <2> QED
    BY <1>5, <2>1 DEF CopyDown, CopyDownOn
<1>6. CASE Replace(th)
  <2>1. Asked(th) = tier
    BY <1>3, <1>6 DEF Replace, OperateShadowed, OperateShadowedOn, At, Inside
  <2>2. PICK name \in TierNames : name = IF Asked(th) = "SLOW" THEN "storage" ELSE "archive"
    BY DEF TierNames
  <2> QED
    BY <1>6, <2>1, <2>2 DEF Replace, OperateShadowed, OperateShadowedOn
<1> QED
  BY <1>2, <1>4, <1>5, <1>6 DEF Work, Serve, Read, Lock, Unlock, MoveDown

\* Those of the build with micro tiering.
LEMMA MicroWays ==
  ASSUME Asking, NEW th \in Threads, MicroWork(th)
  PROVE  LET base == "storage" IN
         \/ ReadOn(base, th) \/ LockOn(base, th) \/ UnlockOn(base, th)
         \/ \E next : next["FAST"] \in Ways \cap Inside /\ LocateOn(base, th, next)
         \/ OperateOn(base, th, "hint", AllocHint(Place(th), base), "unlock", "unlock")
         \/ CopyDownOn(base, th, "archive")
         \/ \E name \in TierNames :
               OperateShadowedOn(base, th, "replace",
                                 SetRedirectIf(Place(th), base, th \in current, "archive", name),
                                 "unlock", "copy_down")
         \/ End(th)
<1>1. thread[th].at \in Ways
  BY DEF Asking
<1>2. /\ ~ MicroCreate(th) /\ ~ MicroDelete(th)
      /\ ~ MicroUnlink(th) /\ ~ MicroPromote(th) /\ ~ MicroRmSource(th)
  BY <1>1 DEF Ways, MicroCreate, MicroWrite, MicroDummy, MicroLink, MicroUnlink, MicroPromote,
              MicroRmSource, MicroDelete, MicroRmTarget, MicroRmSelf, OperateOn, At
<1>3. CASE MicroLocate(th)
  <2>1. LocateOn("storage", th, MicroNext(th))
    BY <1>3 DEF MicroLocate, MicroNext
  <2>2. MicroNext(th)["FAST"] \in Ways \cap Inside
    BY DEF MicroNext, Tiers, Ways, Inside
  <2> QED
    BY <2>1, <2>2
<1>4. CASE MicroReplace(th)
  BY <1>4 DEF MicroReplace, TierNames
<1> QED
  BY <1>2, <1>3, <1>4 DEF MicroWork, MicroMove, MicroHint, MicroCopyDown

\* So no application notices what the threads do.
LEMMA WorkHides ==
  ASSUME NEW tier \in LowTiers, DemotesTo(tier), BuildTyped, Asking, Hidden(tier),
         NEW th \in Threads, BuildWork(th)
  PROVE  Unnoticed(tier)
<1>1. build' = build
  BY DEF BuildWork
<1>2. CASE build = "default"
  <2>1. "cache" = Base /\ PoolOf(tier) = Below(tier) /\ PoolOf(tier) \in Lower \ {"cache"}
    BY <1>2 DEF Base, Below, LowTiers, PoolOf, Lower
  <2>2. Work(th)
    BY <1>2 DEF BuildWork
  <2>3. PICK below \in Lower \ {"cache"} : below = PoolOf(tier) /\ below = Below(tier)
    BY <2>1
  <2>4. \/ ReadOn("cache", th) \/ LockOn("cache", th) \/ UnlockOn("cache", th)
        \/ \E next : next["FAST"] \in Ways \cap Inside /\ LocateOn("cache", th, next)
        \/ CopyDownOn("cache", th, below)
        \/ \E name \in TierNames :
              OperateShadowedOn("cache", th, "replace",
                                SetRedirectIf(Place(th), "cache", th \in current, below, name),
                                "unlock", "copy_down")
        \/ End(th)
    BY <1>2, <2>2, <2>3, DefaultWays DEF CopyDownOn, OperateShadowedOn
  <2> QED
    BY <1>1, <2>1, <2>3, <2>4, ReadHides, LockingHides, LocateHides, CopyDownHides,
       ReplacingHides, EndHides
<1>3. CASE build = "micro"
  <2>1. "storage" = Base /\ "archive" = Below(tier) /\ "archive" \in Lower \ {"storage"}
    BY <1>3 DEF Base, Below, Lower
  <2>2. MicroWork(th)
    BY <1>3 DEF BuildWork
  <2> QED
    BY <1>1, <2>1, <2>2, MicroWays, ReadHides, LockingHides, LocateHides, HintHides,
       CopyDownHides, ReplacingHides, EndHides
<1> QED
  BY <1>2, <1>3 DEF BuildTyped, BuildNames

\* Nor that an operation begins, or that the process stops and starts again.
LEMMA StartHides ==
  ASSUME NEW tier \in LowTiers, DemotesTo(tier), BuildTyped, Asking, Hidden(tier),
         build' = build, NEW th \in Threads, NEW req \in BuildRequests[build], Start(th, req)
  PROVE  Unnoticed(tier)
<1>1. TypeOK /\ thread[th].at = "idle" /\ req \in Requests
  BY BuildsAssumption DEF BuildTyped, BuildNames, Typed, MicroTyped, Start, Begin, At
<1>2. FirstStep(req) \in Ways
  BY DEF DemotesTo, BuildTyped, BuildNames, FirstStep, Ways
<1>3. /\ thread'[th].at = FirstStep(req) /\ thread'[th].req = req
      /\ \A u \in Threads \ {th} : thread'[u] = thread[u]
  BY <1>1 DEF TypeOK, Start, Begin
<1>4. Asking'
  BY <1>2, <1>3 DEF Asking
<1>5. \A u \in current' : u \in current /\ thread'[u] = thread[u]
  BY <1>1, <1>3 DEF Start, Begin, TypeOK, At
<1>6. Hidden(tier)' /\ Seen' = Seen
  BY <1>5, StillHides DEF Start, Begin
<1>7. bounds'.writes = bounds.writes
  BY <1>1 DEF Start, TypeOK
<1> QED
  BY <1>4, <1>6, <1>7 DEF Unnoticed

\* A crash and a restart leave the pools as they are: nothing to notice.
LEMMA CrashHides ==
  ASSUME NEW tier \in LowTiers, BuildTyped, Asking, Hidden(tier), build' = build,
         Crash \/ Restart \/ UNCHANGED vars
  PROVE  Unnoticed(tier)
<1>1. TypeOK
  BY DEF BuildTyped, BuildNames, Typed, MicroTyped
<1>2. CASE Crash
  <2>1. bounds'.writes = bounds.writes
    BY <1>1, <1>2 DEF Crash, TypeOK
  <2> QED
    BY <1>2, <2>1, AbortHides DEF Crash
<1>3. CASE Restart \/ UNCHANGED vars
  <2>1. UNCHANGED <<store, thread, current, bounds>>
    BY <1>3 DEF Restart, vars
  <2>2. Hidden(tier)' /\ Seen' = Seen
    BY <2>1, StillHides
  <2>3. Asking'
    BY <2>1 DEF Asking
  <2> QED
    BY <2>1, <2>2, <2>3 DEF Unnoticed
<1> QED
  BY <1>2, <1>3

\* An application's write is a write of the register, wherever the object is.
LEMMA WriteIsWrite ==
  ASSUME NEW tier \in LowTiers, BuildTyped, Asking, Hidden(tier), build' = build,
         NEW o \in Objects, NEW data \in Writers, DirectWriteOn(Base, o, data)
  PROVE  /\ Asking' /\ Hidden(tier)'
         /\ Register!Write(o, data)
<1>1. TypeOK /\ data \in Values
  BY ObjectMoverAssumption DEF BuildTyped, BuildNames, Typed, MicroTyped
<1>b. PICK base \in {"cache", "storage"} : base = Base
  BY PoolsOfBuild DEF BuildTyped
<1>2. PICK below \in Lower \ {base} : base = Base /\ below = Below(tier)
  BY <1>b, PoolsOfBuild DEF BuildTyped
<1> DEFINE a == WriteFull(store[o], base, data)
<1>3. /\ bounds.writes > 0
      /\ bounds' = [bounds EXCEPT !.writes = @ - 1]
      /\ store' = [store EXCEPT ![o] = a.p]
      /\ current' = IF a.pool = base THEN current \ Workers(o) ELSE current
      /\ thread' = thread
  BY <1>2 DEF DirectWriteOn
<1>4. store[o] \in Places /\ Demoted(store[o], base, below)
  BY <1>1, <1>2 DEF TypeOK, Hidden
<1>5. /\ Demoted(a.p, base, below)
      /\ Look(a.p, base) = data
      /\ Copied(store[o], base, below) /\ a.pool # base => Copied(a.p, base, below)
  BY <1>1, <1>4, WriteShows
<1> HIDE DEF a
<1>6. store'[o] = a.p /\ \A other \in Objects \ {o} : store'[other] = store[other]
  BY <1>1, <1>3 DEF TypeOK
<1>7. ASSUME NEW u \in current'
      PROVE  /\ Obj(u)' = Obj(u) /\ Obj(u) \in Objects
             /\ Obj(u) = o => Copied(a.p, base, below)
             /\ Obj(u) # o => u \in current
  <2>1. u \in current /\ u \in Threads /\ thread[u].at # "idle"
    BY <1>1, <1>3, <1>7 DEF TypeOK, At
  <2>2. Obj(u)' = Obj(u) /\ Obj(u) \in Objects
    BY <1>1, <1>3, <2>1, BusyTypes DEF Obj
  <2>3. ASSUME Obj(u) = o PROVE Copied(a.p, base, below)
    <3>1. a.pool # base
      BY <1>3, <1>7, <2>1, <2>3 DEF Workers
    <3>2. Copied(store[o], base, below)
      BY <1>2, <2>1, <2>3 DEF Hidden, Place
    <3> QED
      BY <1>5, <3>1, <3>2
  <2> QED
    BY <2>1, <2>2, <2>3
<1>8. Hidden(tier)' /\ Seen' = [Seen EXCEPT ![o] = Look(a.p, base)]
  BY <1>2, <1>5, <1>6, <1>7, StepHides
<1>9. bounds'.writes = bounds.writes - 1
  BY <1>1, <1>3 DEF TypeOK
<1>10. Register!Write(o, data)
  BY <1>3, <1>5, <1>8, <1>9 DEF Register!Write
<1>11. Asking'
  BY <1>3 DEF Asking
<1> QED
  BY <1>8, <1>10, <1>11

\* That applications may go on writing changes no object.
LEMMA MoreWritesHides ==
  ASSUME NEW tier \in LowTiers, BuildTyped, Asking, Hidden(tier), MoreWrites
  PROVE  Asking' /\ Hidden(tier)' /\ Register!More
<1>1. TypeOK /\ UNCHANGED <<store, thread, current, build>>
  BY DEF BuildTyped, BuildNames, Typed, MicroTyped, MoreWrites
<1>2. Hidden(tier)' /\ Seen' = Seen
  BY <1>1, StillHides
<1>3. bounds.writes < MaxWrites /\ bounds'.writes = MaxWrites
  BY <1>1 DEF MoreWrites, TypeOK
<1> QED
  BY <1>1, <1>2, <1>3 DEF Asking, Register!More

-----------------------------------------------------------------------------
(* The refinement.                                                         *)

\* Initially every object is in the fast tier, and there are no copies.
LEMMA HiddenInit ==
  ASSUME NEW tier \in LowTiers, DemotesTo(tier), BuildInit
  PROVE  Asking /\ Hidden(tier) /\ Register!Init
<1>1. AtRest /\ build \in BuildNames
  BY DEF BuildInit
<1>b. PICK base \in {"cache", "storage"} : base = Base
  BY <1>1, PoolsOfBuild
<1>2. PICK below \in Lower \ {base} : base = Base /\ below = Below(tier)
  BY <1>1, <1>b, PoolsOfBuild
<1> DEFINE obj == [NewObject(InitialData) EXCEPT !.tier = "fast"]
<1>3. /\ obj \in Object /\ obj # NoObject
      /\ obj.data = InitialData /\ obj.redirect = "none" /\ obj.tier = "fast"
  BY ObjectMoverAssumption, RadosAssumption DEF NewObject, Object, TierNames
<1>4. \A o \in Objects : store[o] = BuildCreated("FAST", InitialData)
  BY DEF BuildInit, DemotesTo
<1>5. BuildCreated("FAST", InitialData) = [Nowhere EXCEPT ![base] = obj]
  BY <1>1, <1>2 DEF BuildCreated, Created, MicroCreated, NameOf, Base, BuildNames
<1> HIDE DEF obj
<1>6. ASSUME NEW o \in Objects
      PROVE  Demoted(store[o], base, below) /\ Look(store[o], base) = InitialData
  <2>1. store[o][base] = obj /\ store[o][below] = NoObject
    BY <1>4, <1>5, <1>6 DEF Nowhere, Pools, Lower
  <2> QED
    BY <1>3, <2>1 DEF Demoted, Look, Reached, Target
<1>7. Asking /\ Hidden(tier)
  BY <1>1, <1>2, <1>6 DEF AtRest, Asking, IdleThread, Ways, Hidden
<1>8. Seen = [o \in Objects |-> InitialData]
  BY <1>2, <1>6 DEF Seen, SeenOn, Look
<1>9. bounds.writes = MaxWrites
  BY <1>1 DEF AtRest
<1> QED
  BY <1>7, <1>8, <1>9 DEF Register!Init

\* A step is a write of a register, or a stuttering step of the registers.
LEMMA HiddenStep ==
  ASSUME NEW tier \in LowTiers, DemotesTo(tier), BuildTyped, Asking, Hidden(tier),
         [BuildNext \/ MoreWrites]_buildVars
  PROVE  /\ Asking' /\ Hidden(tier)'
         /\ [Register!Next]_<<Seen, bounds.writes>>
         /\ WritesArrive
<1>0. build' = build
  BY DEF BuildNext, BuildWork, MoreWrites, buildVars
<1>1. \/ Unnoticed(tier)
      \/ \E o \in Objects, data \in Writers : DirectWriteOn(Base, o, data)
      \/ MoreWrites
  BY <1>0, WorkHides, StartHides, CrashHides DEF BuildNext, buildVars, vars
<1>2. ASSUME Unnoticed(tier)
      PROVE  Asking' /\ Hidden(tier)' /\ UNCHANGED <<Seen, bounds.writes>>
  BY <1>2 DEF Unnoticed
<1>3. ASSUME NEW o \in Objects, NEW data \in Writers, DirectWriteOn(Base, o, data)
      PROVE  Asking' /\ Hidden(tier)' /\ Register!Next
  BY <1>0, <1>3, WriteIsWrite DEF Register!Next
<1>4. ASSUME MoreWrites PROVE Asking' /\ Hidden(tier)' /\ Register!Next
  BY <1>4, MoreWritesHides DEF Register!Next
<1>5. WritesArrive
  BY <1>0, WriteIsWrite DEF WritesArrive
<1> QED
  BY <1>1, <1>2, <1>3, <1>4, <1>5

\* Demotions to one tier, by any number of threads, while applications write,
\* for ever if they like, and whatever fails or stops: the objects are registers
\* which only the writes of the applications change, and no write is lost.
THEOREM DemotionsUnseen ==
  ASSUME NEW tier \in LowTiers, DemotesTo(tier)
  PROVE  WritingSpec => RegisterSpec
<1>1. BuildInit => BuildTyped /\ Asking /\ Hidden(tier) /\ Register!Init
  BY BuildTypedInit, HiddenInit
<1>2. BuildTyped /\ Asking /\ Hidden(tier) /\ [BuildNext \/ MoreWrites]_buildVars
         => /\ (BuildTyped /\ Asking /\ Hidden(tier))'
            /\ [Register!Next]_<<Seen, bounds.writes>>
            /\ [WritesArrive]_buildVars
  BY WritingTypedStep, HiddenStep
<1> QED
  BY <1>1, <1>2, PTL DEF WritingSpec, RegisterSpec, Register!Spec
=============================================================================
