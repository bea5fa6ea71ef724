--------------------------- MODULE TestDriverProofs ---------------------------
(***************************************************************************)
(* Proofs about the test program and the samples, in both builds: the      *)
(* operations of ObjectMover do what they promise when they come one after *)
(* the other and none fails, whichever pool threads do them.               *)
(***************************************************************************)
EXTENDS TestDriver, ObjectMoverProofs, SequenceTheorems

-----------------------------------------------------------------------------
(* The shapes the pools have of an object on its way.                      *)

\* A whole object, as opposed to a dummy or a redirect; its lock is "held" or "free".
Whole(obj, data, lock) == /\ obj # NoObject /\ obj.redirect = "none" /\ obj.data = data
                          /\ obj.locked = (lock = "held")

\* What the base pool has while the object itself is elsewhere: nothing
\* ("bare"), a dummy ("none"), or a redirect to a pool.
Cover(obj) == IF obj = NoObject THEN "bare" ELSE obj.redirect

\* The object is in the pools of copies and nowhere else.
Shape(p, base, copies, cover, data, lock) ==
    /\ p \in Places
    /\ \A pool \in copies : Whole(p[pool], data, lock)
    /\ \A pool \in Pools \ (copies \cup {base}) : p[pool] = NoObject
    /\ base \notin copies => Cover(p[base]) = cover

\* The object is in a pool, and the base pool is or leads to that pool.
Lies(p, base, pool, data, lock) == Shape(p, base, {pool}, pool, data, lock)

\* An object of which there is no copy and no redirect is nowhere.
LEMMA ShapeNowhere ==
  ASSUME NEW base \in Pools, NEW data, NEW lock
  PROVE  \A p : p = Nowhere <=> Shape(p, base, {}, "bare", data, lock)
<1>1. Nowhere \in Places /\ \A pool \in Pools : Nowhere[pool] = NoObject
  BY DEF Nowhere, Places
<1>2. ASSUME NEW p \in Places
      PROVE  Cover(p[base]) = "bare" => p[base] = NoObject
  BY <1>2, RadosAssumption DEF Cover, Places, Object
<1>3. ASSUME NEW p, Shape(p, base, {}, "bare", data, lock)
      PROVE  p = Nowhere
  <2>1. p \in Places /\ \A pool \in Pools : p[pool] = NoObject
    BY <1>2, <1>3 DEF Shape
  <2> QED
    BY <1>1, <2>1 DEF Places
<1> QED
  BY <1>1, <1>3 DEF Shape, Cover

\* Where an operation on the object works.
LEMMA LiesFacts ==
  ASSUME NEW base \in {"cache", "storage"}, NEW pool \in Pools, pool \in Lower \cup {base},
         NEW data, NEW lock, NEW p, Lies(p, base, pool, data, lock)
  PROVE  /\ p \in Places /\ p[pool] \in Object /\ p[pool] # NoObject
         /\ Target(p, base) = pool /\ Reached(p, base) = p[pool]
         /\ Whole(p[pool], data, lock)
<1>1. p \in Places /\ Whole(p[pool], data, lock)
  BY DEF Lies, Shape
<1>2. p[pool] \in Object
  BY <1>1 DEF Places, Whole
<1>3. Target(p, base) = pool
  BY <1>1 DEF Lies, Shape, Whole, Cover, Target, Lower
<1> QED
  BY <1>1, <1>2, <1>3 DEF Reached, Whole

-----------------------------------------------------------------------------
(* What one operation makes of a shape.                                    *)

\* remove with OPERATION_IGNORE_REDIRECT, of the redirect.
LEMMA RemoveLink ==
  ASSUME NEW base \in {"cache", "storage"}, NEW pool \in Lower \ {base},
         NEW data, NEW lock, NEW p, Lies(p, base, pool, data, lock)
  PROVE  LET a == RemoveAt(p, base)
         IN  a.r = "ok" /\ Shape(a.p, base, {pool}, "bare", data, lock)
<1> DEFINE q == [p EXCEPT ![base] = NoObject]
<1>1. p \in Places /\ base \in Pools /\ pool \in Pools /\ pool # base
  BY DEF Lies, Shape, Pools, Lower
<1>2. p[base] # NoObject
  BY <1>1 DEF Lies, Shape, Cover, Lower
<1>3. RemoveAt(p, base) = Ok(q, base)
  BY <1>2 DEF RemoveAt
<1>4. q \in Places /\ q[base] = NoObject /\ \A other \in Pools \ {base} : q[other] = p[other]
  BY <1>1 DEF Places
<1> HIDE DEF q
<1>5. Shape(q, base, {pool}, "bare", data, lock)
  BY <1>1, <1>4 DEF Lies, Shape, Cover
<1> QED
  BY <1>3, <1>5 DEF Ok

\* copy_from to a place that is free makes a second copy, here with another tier.
LEMMA SecondCopyNamed ==
  ASSUME NEW base \in {"cache", "storage"}, NEW from \in Pools, NEW to \in Pools \ {from},
         NEW cover, NEW data, NEW lock, NEW p,
         Shape(p, base, {from}, cover, data, lock), to = base => cover = "bare",
         NEW name \in TierNames
  PROVE  LET a == CopyFromTier(p, to, from, name)
         IN  a.r = "ok" /\ Shape(a.p, base, {from, to}, cover, data, lock)
<1> DEFINE obj == p[from]
           named == [obj EXCEPT !.tier = name]
<1>1. p \in Places /\ base \in Pools /\ Whole(obj, data, lock)
  BY DEF Shape, Pools
<1>2. obj \in Object /\ obj # NoObject /\ obj.redirect = "none" /\ obj.data = data /\ obj.locked = (lock = "held")
  BY <1>1 DEF Places, Whole
<1>3. named \in Object /\ named # NoObject /\ named.redirect = "none"
      /\ named.data = data /\ named.locked = (lock = "held")
  BY <1>2, RadosAssumption DEF Object
<1>4. p[to] = NoObject
  <2>1. Cover(p[base]) = "bare" => p[base] = NoObject
    BY <1>1, RadosAssumption DEF Cover, Places, Object
  <2> QED
    BY <1>1, <2>1 DEF Shape
<1>5. Target(p, to) = to /\ Reached(p, from) = obj
  BY <1>2, <1>4 DEF Target, Reached
<1> DEFINE q == [p EXCEPT ![to] = named]
<1>6. CopyFromTier(p, to, from, name) = Ok(q, to)
  BY <1>2, <1>5 DEF CopyFromTier
<1>7. named.redirect = "none" /\ Whole(named, data, lock)
  BY <1>3 DEF Whole
<1> HIDE DEF obj, named
<1>8. q \in Places /\ q[to] = named /\ \A other \in Pools \ {to} : q[other] = p[other]
  BY <1>1, <1>3 DEF Places
<1> HIDE DEF q
<1>9. Shape(q, base, {from, to}, cover, data, lock)
  BY <1>1, <1>7, <1>8 DEF Shape, obj
<1> QED
  BY <1>6, <1>9 DEF Ok

\* copy_from, on the way between the slow tier and the archive.
LEMMA SecondCopy ==
  ASSUME NEW base \in {"cache", "storage"}, NEW from \in Pools, NEW to \in Pools \ {from},
         NEW cover, NEW data, NEW lock, NEW p,
         Shape(p, base, {from}, cover, data, lock), to = base => cover = "bare"
  PROVE  LET a == CopyFrom(p, to, from)
         IN  a.r = "ok" /\ Shape(a.p, base, {from, to}, cover, data, lock)
<1>1. /\ p \in Places /\ base \in Pools /\ Whole(p[from], data, lock) /\ p[from] \in Object
      /\ p[from].redirect = "none" /\ p[from] # NoObject
  BY DEF Shape, Pools, Whole, Places
<1>2. p[to] = NoObject
  <2>1. Cover(p[base]) = "bare" => p[base] = NoObject
    BY <1>1, RadosAssumption DEF Cover, Places, Object
  <2> QED
    BY <1>1, <2>1 DEF Shape
<1> DEFINE q == [p EXCEPT ![to] = p[from]]
<1>3. CopyFrom(p, to, from) = Ok(q, to)
  BY <1>1, <1>2 DEF CopyFrom, Target, Reached
<1>4. q \in Places /\ q[to] = p[from] /\ \A other \in Pools \ {to} : q[other] = p[other]
  BY <1>1 DEF Places
<1> HIDE DEF q
<1>5. Shape(q, base, {from, to}, cover, data, lock)
  BY <1>1, <1>4 DEF Shape
<1> QED
  BY <1>3, <1>5 DEF Ok

\* remove of one of two copies.
LEMMA RemoveCopy ==
  ASSUME NEW base \in {"cache", "storage"}, NEW from \in Pools \ {base}, NEW to \in Pools \ {from},
         NEW cover, NEW data, NEW lock, NEW p,
         Shape(p, base, {from, to}, cover, data, lock)
  PROVE  LET a == Remove(p, from)
         IN  a.r = "ok" /\ Shape(a.p, base, {to}, cover, data, lock)
<1> DEFINE q == [p EXCEPT ![from] = NoObject]
<1>1. p \in Places /\ base \in Pools /\ p[from] # NoObject /\ p[from].redirect = "none"
  BY DEF Shape, Whole, Pools
<1>2. Remove(p, from) = Ok(q, from)
  BY <1>1 DEF Remove, RemoveAt, Target
<1>3. q \in Places /\ q[from] = NoObject /\ \A other \in Pools \ {from} : q[other] = p[other]
  BY <1>1 DEF Places
<1> HIDE DEF q
<1>4. Shape(q, base, {to}, cover, data, lock)
  BY <1>1, <1>3 DEF Shape
<1> QED
  BY <1>2, <1>4 DEF Ok

\* write_full makes the dummy.
LEMMA MakeDummy ==
  ASSUME NEW base \in {"cache", "storage"}, NEW pool \in Lower \ {base},
         NEW data, NEW lock, NEW p, Shape(p, base, {pool}, "bare", data, lock)
  PROVE  LET a == WriteFull(p, base, Empty)
         IN  a.r = "ok" /\ Shape(a.p, base, {pool}, "none", data, lock)
             /\ a.p[pool] = p[pool]
<1> DEFINE dummy == [NewObject(Empty) EXCEPT !.data = Empty]
           q == [p EXCEPT ![base] = dummy]
<1>1. p \in Places /\ base \in Pools /\ pool \in Pools /\ pool # base
  BY DEF Shape, Pools, Lower
<1>2. dummy \in Object /\ dummy # NoObject /\ dummy.redirect = "none"
  BY RadosAssumption DEF NewObject, Object, TierNames
<1>3. p[base] = NoObject
  BY <1>1, RadosAssumption DEF Shape, Cover, Places, Object
<1>4. WriteFull(p, base, Empty) = Ok(q, base)
  BY <1>3 DEF WriteFull, Target, Existing
<1> HIDE DEF dummy
<1>5. q \in Places /\ q[base] = dummy /\ \A other \in Pools \ {base} : q[other] = p[other]
  BY <1>1, <1>2 DEF Places
<1> HIDE DEF q
<1>6. Shape(q, base, {pool}, "none", data, lock)
  BY <1>1, <1>2, <1>5 DEF Shape, Cover
<1> QED
  BY <1>1, <1>4, <1>5, <1>6 DEF Ok

\* A redirect in the base pool, and the object in the pool it leads to.
LEMMA PutLink ==
  ASSUME NEW base \in {"cache", "storage"}, NEW pool \in Lower, pool # base,
         NEW data, NEW lock, NEW p \in Places, Whole(p[pool], data, lock),
         \A other \in Pools : other \in {base, pool} \/ p[other] = NoObject,
         NEW new \in Object, new.redirect = pool
  PROVE  /\ Lies([p EXCEPT ![base] = new], base, pool, data, lock)
         /\ [p EXCEPT ![base] = new][pool] = p[pool]
<1>1. base \in Pools /\ pool \in Pools
  BY DEF Pools, Lower
<1> DEFINE q == [p EXCEPT ![base] = new]
<1>2. q \in Places /\ q[base] = new /\ \A other \in Pools \ {base} : q[other] = p[other]
  BY <1>1 DEF Places
<1> HIDE DEF q
<1>3. Cover(new) = pool
  BY RadosAssumption DEF Cover
<1>4. Lies(q, base, pool, data, lock) /\ q[pool] = p[pool]
  BY <1>1, <1>2, <1>3 DEF Lies, Shape
<1> QED
  BY <1>4 DEF q

\* set_redirect.
LEMMA MakeLink ==
  ASSUME NEW base \in {"cache", "storage"}, NEW pool \in Lower \ {base},
         NEW data, NEW lock, NEW p, Shape(p, base, {pool}, "none", data, lock)
  PROVE  LET a == SetRedirect(p, base, pool)
         IN  a.r = "ok" /\ Lies(a.p, base, pool, data, lock) /\ a.p[pool] = p[pool]
<1> DEFINE link == [p[base] EXCEPT !.redirect = pool, !.data = Empty]
<1>1. /\ p \in Places /\ base \in Pools /\ pool \in Pools /\ pool # base
      /\ p[base] # NoObject /\ Whole(p[pool], data, lock)
      /\ \A other \in Pools : other \in {base, pool} \/ p[other] = NoObject
  BY DEF Shape, Cover, Whole, Pools, Lower
<1>2. p[base] \in Object
  BY <1>1 DEF Places
<1>3. link \in Object /\ link.redirect = pool
  BY <1>2 DEF Object, Lower
<1>4. SetRedirect(p, base, pool) = Ok([p EXCEPT ![base] = link], base)
  BY <1>1 DEF SetRedirect, Places
<1> HIDE DEF link
<1>5. /\ Lies([p EXCEPT ![base] = link], base, pool, data, lock)
      /\ [p EXCEPT ![base] = link][pool] = p[pool]
  BY <1>1, <1>3, PutLink
<1> QED
  BY <1>4, <1>5 DEF Ok

\* assert_version, set_redirect and setxattr("tier").
Replacing(p, base, to, name) == SetRedirectIf(p, base, TRUE, to, name)

\* assert_version, set_redirect and setxattr("tier"), at the end of a demotion.
LEMMA MakeLinkIf ==
  ASSUME NEW base \in {"cache", "storage"}, NEW pool \in Lower \ {base},
         NEW name \in TierNames,
         NEW data, NEW lock, NEW p, Shape(p, base, {base, pool}, "none", data, lock)
  PROVE  LET a == Replacing(p, base, pool, name)
         IN  a.r = "ok" /\ Lies(a.p, base, pool, data, lock)
<1> DEFINE link == [p[base] EXCEPT !.redirect = pool, !.data = Empty, !.tier = name]
<1>1. /\ p \in Places /\ base \in Pools /\ pool \in Pools /\ pool # base
      /\ p[base] # NoObject /\ Whole(p[pool], data, lock)
      /\ \A other \in Pools : other \in {base, pool} \/ p[other] = NoObject
  BY DEF Shape, Cover, Whole, Pools, Lower
<1>2. p[base] \in Object
  BY <1>1 DEF Places
<1>3. link \in Object /\ link.redirect = pool
  BY <1>2 DEF Object, Lower
<1>4. Replacing(p, base, pool, name) = Ok([p EXCEPT ![base] = link], base)
  BY <1>1 DEF Replacing, SetRedirectIf, Places
<1> HIDE DEF link
<1>5. Lies([p EXCEPT ![base] = link], base, pool, data, lock)
  BY <1>1, <1>3, PutLink
<1> QED
  BY <1>4, <1>5 DEF Ok

\* An operation that replaces the object it works on.
LEMMA PutWhole ==
  ASSUME NEW base \in {"cache", "storage"}, NEW pool \in Pools, pool \in Lower \cup {base},
         NEW data, NEW lock, NEW p, Lies(p, base, pool, data, lock),
         NEW obj \in Object, NEW data2, NEW lock2, Whole(obj, data2, lock2)
  PROVE  LET q == [p EXCEPT ![pool] = obj]
         IN  Lies(q, base, pool, data2, lock2) /\ q[pool] = obj
<1> DEFINE q == [p EXCEPT ![pool] = obj]
<1>1. p \in Places /\ base \in Pools
  BY DEF Lies, Shape, Pools
<1>2. q \in Places /\ q[pool] = obj /\ \A other \in Pools \ {pool} : q[other] = p[other]
  BY <1>1 DEF Places
<1> HIDE DEF q
<1>3. Lies(q, base, pool, data2, lock2)
  BY <1>1, <1>2 DEF Lies, Shape
<1> QED
  BY <1>2, <1>3 DEF q

\* Lock and Unlock.
Locking(p, base) == SetLock(p, base, TRUE)
Unlocking(p, base) == SetLock(p, base, FALSE)

\* Lock finds the object free, and locks it where it lies.
LEMMA TakeLock ==
  ASSUME NEW base \in {"cache", "storage"}, NEW pool \in Pools, pool \in Lower \cup {base},
         NEW data, NEW p, Lies(p, base, pool, data, "free")
  PROVE  LET a == Locking(p, base)
         IN  /\ a.r = "ok" /\ Lies(a.p, base, pool, data, "held")
             /\ a.p[pool].tier = p[pool].tier
<1> DEFINE obj == [p[pool] EXCEPT !.locked = TRUE]
<1>1. /\ p \in Places /\ p[pool] \in Object /\ p[pool] # NoObject /\ Target(p, base) = pool
      /\ p[pool].redirect = "none" /\ p[pool].data = data /\ p[pool].locked # TRUE
  <2>1. /\ p \in Places /\ p[pool] \in Object /\ p[pool] # NoObject /\ Target(p, base) = pool
        /\ Whole(p[pool], data, "free")
    BY LiesFacts
  <2> QED
    BY <2>1 DEF Whole
<1>2. /\ obj \in Object /\ obj.redirect = "none" /\ obj.data = data /\ obj.locked = TRUE
      /\ obj.tier = p[pool].tier /\ obj # NoObject
  BY <1>1, RadosAssumption DEF Object
<1>3. Locking(p, base) = Ok([p EXCEPT ![pool] = obj], pool)
  BY <1>1 DEF Locking, SetLock, Places
<1> HIDE DEF obj
<1>4. Whole(obj, data, "held")
  BY <1>2 DEF Whole
<1>5. Lies([p EXCEPT ![pool] = obj], base, pool, data, "held")
      /\ [p EXCEPT ![pool] = obj][pool] = obj
  BY <1>2, <1>4, PutWhole
<1> QED
  BY <1>2, <1>3, <1>5 DEF Ok

\* Unlock finds the object locked, and frees it where it lies.
LEMMA ReleaseLock ==
  ASSUME NEW base \in {"cache", "storage"}, NEW pool \in Pools, pool \in Lower \cup {base},
         NEW data, NEW p, Lies(p, base, pool, data, "held")
  PROVE  LET a == Unlocking(p, base)
         IN  /\ a.r = "ok" /\ Lies(a.p, base, pool, data, "free")
             /\ a.p[pool].tier = p[pool].tier
<1> DEFINE obj == [p[pool] EXCEPT !.locked = FALSE]
<1>1. /\ p \in Places /\ p[pool] \in Object /\ p[pool] # NoObject /\ Target(p, base) = pool
      /\ p[pool].redirect = "none" /\ p[pool].data = data /\ p[pool].locked # FALSE
  <2>1. /\ p \in Places /\ p[pool] \in Object /\ p[pool] # NoObject /\ Target(p, base) = pool
        /\ Whole(p[pool], data, "held")
    BY LiesFacts
  <2> QED
    BY <2>1 DEF Whole
<1>2. /\ obj \in Object /\ obj.redirect = "none" /\ obj.data = data /\ obj.locked = FALSE
      /\ obj.tier = p[pool].tier /\ obj # NoObject
  BY <1>1, RadosAssumption DEF Object
<1>3. Unlocking(p, base) = Ok([p EXCEPT ![pool] = obj], pool)
  BY <1>1 DEF Unlocking, SetLock, Places
<1> HIDE DEF obj
<1>4. Whole(obj, data, "free")
  BY <1>2 DEF Whole
<1>5. Lies([p EXCEPT ![pool] = obj], base, pool, data, "free")
      /\ [p EXCEPT ![pool] = obj][pool] = obj
  BY <1>2, <1>4, PutWhole
<1> QED
  BY <1>2, <1>3, <1>5 DEF Ok

\* write_full by an application.
LEMMA NewData ==
  ASSUME NEW base \in {"cache", "storage"}, NEW pool \in Pools, pool \in Lower \cup {base},
         NEW lock, NEW data, NEW p, Lies(p, base, pool, data, lock),
         NEW data2 \in Values
  PROVE  Lies(WriteFull(p, base, data2).p, base, pool, data2, lock)
<1> DEFINE obj == [p[pool] EXCEPT !.data = data2]
<1>1. /\ p \in Places /\ p[pool] \in Object /\ p[pool] # NoObject /\ Target(p, base) = pool
      /\ p[pool].redirect = "none" /\ p[pool].locked = (lock = "held")
  BY LiesFacts DEF Whole
<1>2. /\ obj \in Object /\ obj.redirect = "none" /\ obj.data = data2 /\ obj.locked = (lock = "held")
      /\ obj # NoObject
  BY <1>1, RadosAssumption DEF Object
<1>3. WriteFull(p, base, data2) = Ok([p EXCEPT ![pool] = obj], pool)
  BY <1>1 DEF WriteFull, Existing
<1> HIDE DEF obj
<1>4. Whole(obj, data2, lock)
  BY <1>2 DEF Whole
<1>5. Lies([p EXCEPT ![pool] = obj], base, pool, data2, lock)
  BY <1>2, <1>4, PutWhole
<1> QED
  BY <1>3, <1>5 DEF Ok

\* The hint changes nothing.
LEMMA TakeHint ==
  ASSUME NEW base \in {"cache", "storage"}, NEW pool \in Pools, pool \in Lower \cup {base},
         NEW lock, NEW data, NEW p, Lies(p, base, pool, data, lock)
  PROVE  LET a == AllocHint(p, base)
         IN  a.r = "ok" /\ a.p = p
<1>1. /\ p \in Places /\ p[pool] # NoObject /\ Target(p, base) = pool
  BY LiesFacts
<1>2. [p EXCEPT ![pool] = p[pool]] = p
  BY <1>1 DEF Places
<1> QED
  BY <1>1, <1>2 DEF AllocHint, Existing, Ok

\* write_full and setxattr("tier") make the object.
LEMMA MakeObject ==
  ASSUME NEW base \in {"cache", "storage"}, NEW pool \in Pools, pool \in Lower \cup {base},
         NEW data \in Values, NEW name \in TierNames
  PROVE  LET a == WriteFullTier(Nowhere, pool, data, name)
         IN  /\ a.r = "ok" /\ Shape(a.p, base, {pool}, "bare", data, "free")
             /\ a.p[pool].tier = name
<1> DEFINE obj == [NewObject(Empty) EXCEPT !.data = data, !.tier = name]
           q == [Nowhere EXCEPT ![pool] = obj]
<1>1. Nowhere \in Places /\ base \in Pools /\ \A other \in Pools : Nowhere[other] = NoObject
  BY DEF Nowhere, Places, Pools
<1>2. /\ obj \in Object /\ obj.redirect = "none" /\ obj.data = data /\ obj.locked = FALSE
      /\ obj.tier = name /\ obj # NoObject
  BY RadosAssumption DEF Object, NewObject, TierNames
<1>3. WriteFullTier(Nowhere, pool, data, name) = Ok(q, pool)
  <2>1. Target(Nowhere, pool) = pool /\ Existing(Nowhere, pool) = NewObject(Empty)
    BY <1>1 DEF Target, Existing
  <2> QED
    BY <2>1 DEF WriteFullTier
<1> HIDE DEF obj
<1>4. q \in Places /\ q[pool] = obj /\ \A other \in Pools \ {pool} : q[other] = NoObject
  BY <1>1, <1>2 DEF Places
<1> HIDE DEF q
<1>5. Whole(obj, data, "free")
  BY <1>2 DEF Whole
<1>6. Shape(q, base, {pool}, "bare", data, "free")
  BY <1>1, <1>4, <1>5 DEF Shape, Cover
<1> QED
  BY <1>2, <1>3, <1>4, <1>6 DEF Ok

\* The two removes of Delete: of the object, and of what leads to it.
LEMMA RemoveObject ==
  ASSUME NEW base \in {"cache", "storage"}, NEW pool \in Pools, pool \in Lower \cup {base},
         NEW lock, NEW data, NEW p, Lies(p, base, pool, data, lock)
  PROVE  LET a == Remove(p, base)
         IN  /\ a.r = "ok"
             /\ Shape(a.p, base, {}, IF pool = base THEN "bare" ELSE pool, data, "free")
<1> DEFINE q == [p EXCEPT ![pool] = NoObject]
<1>1. /\ p \in Places /\ p[pool] # NoObject /\ Target(p, base) = pool /\ base \in Pools
  BY LiesFacts DEF Pools
<1>2. Remove(p, base) = Ok(q, pool)
  BY <1>1 DEF Remove, RemoveAt
<1>3. q \in Places /\ q[pool] = NoObject /\ \A other \in Pools \ {pool} : q[other] = p[other]
  BY <1>1 DEF Places
<1> HIDE DEF q
<1>4. Shape(q, base, {}, IF pool = base THEN "bare" ELSE pool, data, "free")
  BY <1>1, <1>3 DEF Lies, Shape, Cover
<1> QED
  BY <1>2, <1>4 DEF Ok

-----------------------------------------------------------------------------
(* The program.                                                            *)

\* The last call made for object o when n calls of the program have been made.
Due(o, n) ==
    IF o = Foo THEN IF n \in {28, 31} THEN "create"
                    ELSE IF n \in {29, 32, 33} THEN "move"
                    ELSE IF n \in {30, 34} THEN "delete"
                    ELSE "none"
               ELSE IF n >= o + 19 THEN "delete"
                    ELSE IF n >= 2 * o + 2 THEN "move"
                    ELSE IF n = 2 * o + 1 THEN "create"
                    ELSE "none"

\* The objects are created in one tier and moved to one.
LEMMA TiersOfObjects ==
  /\ Objects = 0 .. 9
  /\ \A o \in Objects : From(o) \in Tiers /\ To(o) \in Tiers
<1>1. Objects = 0 .. 9
  BY TestDriverAssumption DEF TestObjects, Foo
<1>2. \A i \in 0 .. 2 : TierOf(i) \in Tiers
  BY DEF TierOf, Tiers
<1>3. ASSUME NEW o \in 0 .. 9
      PROVE  From(o) \in Tiers /\ To(o) \in Tiers
  <2>1. CASE o = Foo
    BY <2>1 DEF From, To, Tiers
  <2>2. CASE o # Foo
    <3>1. o \div 3 \in 0 .. 2 /\ o % 3 \in 0 .. 2
      BY <1>3, <2>2 DEF Foo
    <3> QED
      BY <1>2, <2>2, <3>1 DEF From, To
  <2> QED
    BY <2>1, <2>2
<1> QED
  BY <1>1, <1>3

\* The calls are requests for the objects there are.
LEMMA CallsAreRequests ==
  ASSUME NEW o \in 0 .. 9
  PROVE  {CreateOf(o), MoveOf(o), CReadOf(o), DeleteOf(o)} \subseteq Request
BY TiersOfObjects, ObjectMoverAssumption DEF CreateOf, MoveOf, CReadOf, DeleteOf, Request

\* Two sequences of calls one after the other.
Joined(u, s, t) == u = s \o t

\* The calls of the first come before those of the second.
LEMMA OneAfterOther ==
  ASSUME NEW s \in Seq(Request), NEW t \in Seq(Request), NEW u, Joined(u, s, t)
  PROVE  /\ u \in Seq(Request) /\ Len(u) = Len(s) + Len(t)
         /\ \A i \in 1 .. Len(u) : u[i] = IF i <= Len(s) THEN s[i] ELSE t[i - Len(s)]
BY ConcatProperties DEF Joined

\* The three programs, call by call.
LEMMA TestProgramCalls ==
  /\ TestProgram \in Seq(Request) /\ Len(TestProgram) = 27
  /\ \A n \in 1 .. 18 : TestProgram[n] = IF n % 2 = 1 THEN CreateOf((n - 1) \div 2)
                                                      ELSE MoveOf((n - 1) \div 2)
  /\ \A n \in 19 .. 27 : TestProgram[n] = DeleteOf(n - 19)
<1> DEFINE s == [n \in 1 .. 18 |-> LET o == (n - 1) \div 2
                                   IN  IF n % 2 = 1 THEN CreateOf(o) ELSE MoveOf(o)]
           t == [n \in 1 .. 9 |-> DeleteOf(n - 1)]
<1>1. s \in [1 .. 18 -> Request]
  <2>1. \A n \in 1 .. 18 : (n - 1) \div 2 \in 0 .. 9
    OBVIOUS
  <2> QED
    BY <2>1, CallsAreRequests
<1>2. t \in [1 .. 9 -> Request]
  BY CallsAreRequests
<1>3. s \in Seq(Request) /\ t \in Seq(Request)
  BY <1>1, <1>2, SeqDef
<1>4. Len(s) = 18 /\ Len(t) = 9
  BY <1>1, <1>2, <1>3, LenProperties
<1>5. \A n \in 1 .. 18 : s[n] = IF n % 2 = 1 THEN CreateOf((n - 1) \div 2)
                                             ELSE MoveOf((n - 1) \div 2)
  OBVIOUS
<1>6. \A n \in 1 .. 9 : t[n] = DeleteOf(n - 1)
  OBVIOUS
<1>7. Joined(TestProgram, s, t)
  BY DEF TestProgram, Joined
<1> HIDE DEF s, t
<1>8. /\ TestProgram \in Seq(Request) /\ Len(TestProgram) = 27
      /\ \A n \in 1 .. 27 : TestProgram[n] = IF n <= 18 THEN s[n] ELSE t[n - 18]
  <2>1. /\ TestProgram \in Seq(Request) /\ Len(TestProgram) = Len(s) + Len(t)
        /\ \A n \in 1 .. Len(TestProgram) :
              TestProgram[n] = IF n <= Len(s) THEN s[n] ELSE t[n - Len(s)]
    BY <1>3, <1>7, OneAfterOther
  <2> QED
    BY <1>4, <2>1
<1>9. \A n \in 19 .. 27 : (n - 18) \in 1 .. 9 /\ (n - 18) - 1 = n - 19
  OBVIOUS
<1>10. \A n \in 1 .. 27 : TestProgram[n] = IF n <= 18 THEN s[n] ELSE t[n - 18]
  BY <1>8
<1>11. /\ \A n \in 1 .. 18 : TestProgram[n] = s[n]
       /\ \A n \in 19 .. 27 : TestProgram[n] = t[n - 18]
  BY <1>10
<1>12. \A n \in 19 .. 27 : t[n - 18] = DeleteOf(n - 19)
  BY <1>6, <1>9
<1> QED
  BY <1>5, <1>8, <1>11, <1>12

\* The same of the samples.
LEMMA SampleCalls ==
  /\ SampleC \in Seq(Request) /\ Len(SampleC) = 4
  /\ SampleC[1] = CreateOf(Foo) /\ SampleC[2] = MoveOf(Foo)
  /\ SampleC[3] = CReadOf(Foo) /\ SampleC[4] = DeleteOf(Foo)
  /\ SampleCpp \in Seq(Request) /\ Len(SampleCpp) = 3
  /\ SampleCpp[1] = CreateOf(Foo) /\ SampleCpp[2] = MoveOf(Foo) /\ SampleCpp[3] = DeleteOf(Foo)
<1>1. {CreateOf(Foo), MoveOf(Foo), CReadOf(Foo), DeleteOf(Foo)} \subseteq Request
  BY CallsAreRequests DEF Foo
<1> QED
  BY <1>1 DEF SampleC, SampleCpp

\* How many calls test.cpp makes, and how many with those of sample.cpp after them.
LEMMA ProgramLengths ==
  Len(TestProgram) = 27 /\ Len(TestProgram \o SampleCpp) = 30
<1> DEFINE ts == TestProgram \o SampleCpp
<1>1. Joined(ts, TestProgram, SampleCpp)
  BY DEF Joined
<1>2. /\ TestProgram \in Seq(Request) /\ Len(TestProgram) = 27
      /\ SampleCpp \in Seq(Request) /\ Len(SampleCpp) = 3
  BY TestProgramCalls, SampleCalls
<1> HIDE DEF ts
<1>3. Len(ts) = Len(TestProgram) + Len(SampleCpp)
  BY <1>1, <1>2, OneAfterOther
<1>4. Len(ts) = 30
  BY <1>2, <1>3
<1> QED
  BY <1>2, <1>4 DEF ts

\* The same of the three one after the other, as each build runs them.
LEMMA ProgramCalls ==
  ASSUME build \in BuildNames
  PROVE  /\ MaxOps = 34
         /\ Len(Program) = IF build = "default" THEN 34 ELSE 27
         /\ \A n \in 1 .. Len(Program) :
               /\ n <= 27 => Program[n] = TestProgram[n]
               /\ n \in 28 .. 30 => Program[n] = SampleCpp[n - 27]
               /\ n \in 31 .. 34 => Program[n] = SampleC[n - 30]
<1> DEFINE ts == TestProgram \o SampleCpp
           all == ts \o SampleC
<1>1. /\ ts \in Seq(Request) /\ Len(ts) = 30
      /\ \A n \in 1 .. 30 : ts[n] = IF n <= 27 THEN TestProgram[n] ELSE SampleCpp[n - 27]
  <2>1. Joined(ts, TestProgram, SampleCpp)
    BY DEF Joined
  <2> HIDE DEF ts
  <2>2. /\ ts \in Seq(Request) /\ Len(ts) = Len(TestProgram) + Len(SampleCpp)
        /\ \A n \in 1 .. Len(ts) : ts[n] = IF n <= Len(TestProgram)
                                         THEN TestProgram[n]
                                         ELSE SampleCpp[n - Len(TestProgram)]
    <3>1. TestProgram \in Seq(Request) /\ SampleCpp \in Seq(Request)
      BY TestProgramCalls, SampleCalls
    <3> QED
      BY <2>1, <3>1, OneAfterOther
  <2> QED
    BY <2>2, TestProgramCalls, SampleCalls
<1>2. /\ Len(all) = 34
      /\ \A n \in 1 .. 34 : all[n] = IF n <= 30 THEN ts[n] ELSE SampleC[n - 30]
  <2>1. Joined(all, ts, SampleC)
    BY DEF Joined
  <2> HIDE DEF ts, all
  <2>2. /\ Len(all) = Len(ts) + Len(SampleC)
        /\ \A n \in 1 .. Len(all) : all[n] = IF n <= Len(ts) THEN ts[n]
                                                             ELSE SampleC[n - Len(ts)]
    <3>1. ts \in Seq(Request) /\ SampleC \in Seq(Request)
      BY <1>1, SampleCalls
    <3> QED
      BY <2>1, <3>1, OneAfterOther
  <2> QED
    BY <1>1, <2>2, SampleCalls
<1>3. MaxOps = 34
  BY <1>2, TestDriverAssumption
<1>4. CASE build = "default"
  <2>1. Program = all
    BY <1>4 DEF Program
  <2> HIDE DEF ts, all
  <2>2. Len(Program) = 34
    BY <1>2, <2>1
  <2>3. /\ \A n \in 1 .. 34 : all[n] = IF n <= 30 THEN ts[n] ELSE SampleC[n - 30]
        /\ \A n \in 1 .. 30 : ts[n] = IF n <= 27 THEN TestProgram[n] ELSE SampleCpp[n - 27]
    BY <1>1, <1>2
  <2>4. \A n \in 1 .. 34 : /\ n <= 27 => all[n] = TestProgram[n]
                           /\ n \in 28 .. 30 => all[n] = SampleCpp[n - 27]
                           /\ n \in 31 .. 34 => all[n] = SampleC[n - 30]
    BY <2>3
  <2> QED
    BY <1>3, <1>4, <2>1, <2>2, <2>4
<1>5. CASE build # "default"
  <2>1. Program = TestProgram
    BY <1>5 DEF Program
  <2> QED
    BY <1>3, <1>5, <2>1, TestProgramCalls
<1> QED
  BY <1>4, <1>5

\* The same, for the call with number n.
LEMMA CallNumber ==
  ASSUME build \in BuildNames, NEW n \in 1 .. Len(Program)
  PROVE  /\ n \in 1 .. 34 /\ (build # "default" => n <= 27)
         /\ n <= 18 /\ n % 2 = 1 => Program[n] = CreateOf((n - 1) \div 2)
         /\ n <= 18 /\ n % 2 # 1 => Program[n] = MoveOf((n - 1) \div 2)
         /\ n \in 19 .. 27 => Program[n] = DeleteOf(n - 19)
         /\ n \in {28, 31} => Program[n] = CreateOf(Foo)
         /\ n \in {29, 32} => Program[n] = MoveOf(Foo)
         /\ n = 33 => Program[n] = CReadOf(Foo)
         /\ n \in {30, 34} => Program[n] = DeleteOf(Foo)
<1>1. n \in 1 .. 34 /\ (build # "default" => n <= 27)
  <2>1. Len(Program) = IF build = "default" THEN 34 ELSE 27
    BY ProgramCalls
  <2> QED
    BY <2>1
<1>2. /\ n <= 27 => Program[n] = TestProgram[n]
      /\ n \in 28 .. 30 => Program[n] = SampleCpp[n - 27]
      /\ n \in 31 .. 34 => Program[n] = SampleC[n - 30]
  BY ProgramCalls
<1>3. /\ n \in 1 .. 18 => TestProgram[n] = IF n % 2 = 1 THEN CreateOf((n - 1) \div 2)
                                                       ELSE MoveOf((n - 1) \div 2)
      /\ n \in 19 .. 27 => TestProgram[n] = DeleteOf(n - 19)
  BY TestProgramCalls
<1>4. /\ SampleC[1] = CreateOf(Foo) /\ SampleC[2] = MoveOf(Foo)
      /\ SampleC[3] = CReadOf(Foo) /\ SampleC[4] = DeleteOf(Foo)
      /\ SampleCpp[1] = CreateOf(Foo) /\ SampleCpp[2] = MoveOf(Foo)
      /\ SampleCpp[3] = DeleteOf(Foo)
  BY SampleCalls
<1>5. /\ n <= 18 /\ n % 2 = 1 => Program[n] = CreateOf((n - 1) \div 2)
      /\ n <= 18 /\ n % 2 # 1 => Program[n] = MoveOf((n - 1) \div 2)
      /\ n \in 19 .. 27 => Program[n] = DeleteOf(n - 19)
  BY <1>1, <1>2, <1>3
<1>6. /\ n = 28 => Program[n] = SampleCpp[1]
      /\ n = 29 => Program[n] = SampleCpp[2]
      /\ n = 30 => Program[n] = SampleCpp[3]
      /\ n = 31 => Program[n] = SampleC[1]
      /\ n = 32 => Program[n] = SampleC[2]
      /\ n = 33 => Program[n] = SampleC[3]
      /\ n = 34 => Program[n] = SampleC[4]
  BY <1>2
<1> QED
  BY <1>1, <1>4, <1>5, <1>6

\* What each call asks for, and what was due for its object before and is now.
LEMMA Schedule ==
  ASSUME build \in BuildNames, NEW n \in 1 .. Len(Program)
  PROVE  LET req == Program[n]
             o == req.obj
         IN  /\ req \in Request
             /\ req.op = "create" => /\ req.tier = From(o) /\ req.data = InitialData
                                     /\ Due(o, n) = "create"
                                     /\ \/ Due(o, n - 1) = "none"
                                        \/ build = "default" /\ Due(o, n - 1) = "delete"
             /\ req.op = "move" => /\ req.tier = To(o)
                                   /\ Due(o, n - 1) = "create" /\ Due(o, n) = "move"
             /\ req.op = "read" => Due(o, n - 1) = "move" /\ Due(o, n) = "move"
             /\ req.op = "delete" => Due(o, n - 1) = "move" /\ Due(o, n) = "delete"
             /\ \A other \in Objects \ {o} : Due(other, n) = Due(other, n - 1)
<1> DEFINE req == Program[n]
           o == req.obj
<1>1. n \in 1 .. 34 /\ (build # "default" => n <= 27)
  BY CallNumber
<1>2. CASE n \in 1 .. 18 /\ n % 2 = 1
  <2>1. PICK i \in 0 .. 8 : i = (n - 1) \div 2 /\ n = 2 * i + 1
    BY <1>2
  <2>2. req = CreateOf(i)
    BY <1>2, <2>1, CallNumber
  <2>3. /\ Due(i, n) = "create" /\ Due(i, n - 1) = "none"
        /\ \A other \in (0 .. 9) \ {i} : Due(other, n) = Due(other, n - 1)
    BY <2>1 DEF Due, Foo
  <2> HIDE DEF req
  <2>4. req \in Request /\ req.op = "create" /\ o = i /\ req.tier = From(i) /\ req.data = InitialData
    BY <2>2, CallsAreRequests DEF CreateOf
  <2> QED
    BY <2>3, <2>4, TiersOfObjects DEF req
<1>3. CASE n \in 1 .. 18 /\ n % 2 # 1
  <2>1. PICK i \in 0 .. 8 : i = (n - 1) \div 2 /\ n = 2 * i + 2
    BY <1>3
  <2>2. req = MoveOf(i)
    BY <1>3, <2>1, CallNumber
  <2>3. /\ Due(i, n) = "move" /\ Due(i, n - 1) = "create"
        /\ \A other \in (0 .. 9) \ {i} : Due(other, n) = Due(other, n - 1)
    BY <2>1 DEF Due, Foo
  <2> HIDE DEF req
  <2>4. req \in Request /\ req.op = "move" /\ o = i /\ req.tier = To(i)
    BY <2>2, CallsAreRequests DEF MoveOf
  <2> QED
    BY <2>3, <2>4, TiersOfObjects DEF req
<1>4. CASE n \in 19 .. 27
  <2>1. PICK i \in 0 .. 8 : i = n - 19
    BY <1>4
  <2>2. req = DeleteOf(i)
    BY <1>4, <2>1, CallNumber
  <2>3. /\ Due(i, n) = "delete" /\ Due(i, n - 1) = "move"
        /\ \A other \in (0 .. 9) \ {i} : Due(other, n) = Due(other, n - 1)
    BY <1>4, <2>1 DEF Due, Foo
  <2> HIDE DEF req
  <2>4. req \in Request /\ req.op = "delete" /\ o = i
    BY <2>2, CallsAreRequests DEF DeleteOf
  <2> QED
    BY <2>3, <2>4, TiersOfObjects DEF req
<1>5. CASE n \in 28 .. 34
  <2>1. build = "default"
    BY <1>1, <1>5
  <2>2. /\ n \in {28, 31} => req = CreateOf(Foo)
        /\ n \in {29, 32} => req = MoveOf(Foo)
        /\ n = 33 => req = CReadOf(Foo)
        /\ n \in {30, 34} => req = DeleteOf(Foo)
    BY CallNumber
  <2>3. \A other \in (0 .. 9) \ {Foo} : Due(other, n) = Due(other, n - 1)
    BY <1>5 DEF Due, Foo
  <2> HIDE DEF req
  <2>4. req \in Request /\ o = Foo
    <3>1. req \in {CreateOf(Foo), MoveOf(Foo), CReadOf(Foo), DeleteOf(Foo)}
      BY <1>5, <2>2
    <3>2. {CreateOf(Foo), MoveOf(Foo), CReadOf(Foo), DeleteOf(Foo)} \subseteq Request
      BY CallsAreRequests DEF Foo
    <3>3. o = Foo
      BY <3>1 DEF CreateOf, MoveOf, CReadOf, DeleteOf
    <3> QED
      BY <3>1, <3>2, <3>3
  <2>5. req.op = "create" => /\ req.tier = From(Foo) /\ req.data = InitialData
                             /\ Due(Foo, n) = "create"
                             /\ Due(Foo, n - 1) \in {"none", "delete"}
    BY <1>5, <2>2 DEF CreateOf, MoveOf, CReadOf, DeleteOf, Due
  <2>6. req.op = "move" => /\ req.tier = To(Foo)
                           /\ Due(Foo, n - 1) = "create" /\ Due(Foo, n) = "move"
    BY <1>5, <2>2 DEF CreateOf, MoveOf, CReadOf, DeleteOf, Due
  <2>7. /\ req.op = "read" => Due(Foo, n - 1) = "move" /\ Due(Foo, n) = "move"
        /\ req.op = "delete" => Due(Foo, n - 1) = "move" /\ Due(Foo, n) = "delete"
    BY <1>5, <2>2 DEF CreateOf, MoveOf, CReadOf, DeleteOf, Due
  <2> QED
    BY <2>1, <2>3, <2>4, <2>5, <2>6, <2>7, TiersOfObjects DEF req
<1> QED
  BY <1>1, <1>2, <1>3, <1>4, <1>5

-----------------------------------------------------------------------------
(* The inductive invariant: what the pools have of an object between its   *)
(* calls, and at each step of a call.                                      *)

\* The base pool and the pool of a tier in a build; where an object is created,
\* and where it is moved.
BaseIn(b) == IF b = "default" THEN "cache" ELSE "storage"
PoolIn(b, tier) == IF b = "default" THEN PoolOf(tier) ELSE MicroPool(tier)
Source(b, o) == PoolIn(b, From(o))
Goal(b, o) == PoolIn(b, To(o))

\* After Create, with the name of the tier; after Move; and after Delete, which
\* leaves the redirect with micro tiering.
Made(b, o, p, lock) == /\ Lies(p, BaseIn(b), Source(b, o), InitialData, lock)
                       /\ p[Source(b, o)].tier = NameOf(From(o))
Placed(b, o, p, data, lock) == Lies(p, BaseIn(b), Goal(b, o), data, lock)
Removed(b, o, p) ==
    Shape(p, BaseIn(b), {},
          IF b = "default" \/ Goal(b, o) = BaseIn(b) THEN "bare" ELSE Goal(b, o),
          InitialData, "free")

Left(b, o, due, p) ==
    /\ due = "none" => p = Nowhere
    /\ due = "create" => Made(b, o, p, "free")
    /\ due = "move" => \E data \in Values : Placed(b, o, p, data, "free")
    /\ due = "delete" => Removed(b, o, p)

\* A thread that is about to make the step at, or has finished.
Creating(b, o, at, p) ==
    LET base == BaseIn(b)
        pool == Source(b, o)
    IN  \/ at = "write" /\ p = Nowhere
        \/ /\ at \in {"dummy", "link"} /\ pool # base
           /\ Shape(p, base, {pool}, IF at = "dummy" THEN "bare" ELSE "none", InitialData, "free")
           /\ p[pool].tier = NameOf(From(o))
        \/ at = "finish" /\ Made(b, o, p, "free")

Upward(b, o, at, p) ==
    LET base == BaseIn(b)
        pool == Source(b, o)
        On(copies, cover) == Shape(p, base, copies, cover, InitialData, "held")
    IN  /\ pool # base /\ Goal(b, o) = base
        /\ \/ at = "unlink" /\ On({pool}, pool)
           \/ at = "promote" /\ On({pool}, "bare")
           \/ at = "rm_source" /\ On({pool, base}, "bare")

Downward(b, o, at, p) ==
    LET base == BaseIn(b)
        pool == Goal(b, o)
        On(copies, cover) == Shape(p, base, copies, cover, InitialData, "held")
    IN  /\ pool # base /\ Source(b, o) = base
        /\ \/ at = "copy_down" /\ On({base}, base)
           \/ at = "replace" /\ On({base, pool}, "none")

Across(b, o, at, p) ==
    LET base == BaseIn(b)
        from == Source(b, o)
        to == Goal(b, o)
        On(copies, cover) == Shape(p, base, copies, cover, InitialData, "held")
    IN  /\ b = "default" /\ from # base /\ to # base /\ from # to
        /\ \/ at = "x_unlink" /\ On({from}, from)
           \/ at = "x_copy" /\ On({from}, "bare")
           \/ at = "x_remove" /\ On({from, to}, "bare")
           \/ at = "x_dummy" /\ On({to}, "bare")
           \/ at = "x_link" /\ On({to}, "none")

Moving(b, o, at, found, p) ==
    \/ at = "lock" /\ Made(b, o, p, "free")
    \/ at = "locate" /\ Made(b, o, p, "held")
    \/ found = From(o) /\ (Upward(b, o, at, p) \/ Downward(b, o, at, p) \/ Across(b, o, at, p))
    \/ at = "hint" /\ b = "micro" /\ Placed(b, o, p, InitialData, "held")
    \/ at = "unlock" /\ Placed(b, o, p, InitialData, "held")
    \/ at = "finish" /\ Placed(b, o, p, InitialData, "free")

Reading(b, o, at, p) == /\ at \in {"read", "finish"}
                        /\ \E data \in Values : Placed(b, o, p, data, "free")

Deleting(b, o, at, p) ==
    \/ at = "rm_target" /\ \E data \in Values : Placed(b, o, p, data, "free")
    \/ /\ at = "rm_self"
       /\ Shape(p, BaseIn(b), {}, IF Goal(b, o) = BaseIn(b) THEN "bare" ELSE Goal(b, o),
                InitialData, "free")
    \/ at = "finish" /\ Removed(b, o, p)

Doing(b, o, op, at, found, p) ==
    \/ op = "create" /\ Creating(b, o, at, p)
    \/ op = "move" /\ Moving(b, o, at, found, p)
    \/ op = "read" /\ Reading(b, o, at, p)
    \/ op = "delete" /\ Deleting(b, o, at, p)

\* One thread does the last call made; no other call has touched its object.
Busy(th) ==
    /\ thread[th].at # "idle"
    /\ \A u \in Threads \ {th} : thread[u].at = "idle"
    /\ Calls >= 1 /\ thread[th].req = Program[Calls]
    /\ thread[th].at = "replace" => th \in current
    /\ Doing(build, Obj(th), thread[th].req.op, thread[th].at, Found(th), Place(th))
    /\ \A o \in Objects \ {Obj(th)} : Left(build, o, Due(o, Calls), store[o])

Idle == AllIdle /\ \A o \in Objects : Left(build, o, Due(o, Calls), store[o])

\* A thread that does a call, none of whose operations has failed.
Underway == [at : Steps, req : Request, tier : Tiers, r : {"ok"}]

TestTyped ==
    /\ build \in BuildNames /\ status = "up"
    /\ store \in [Objects -> Places]
    /\ thread \in [Threads -> Underway \cup {IdleThread}]
    /\ bounds \in [ops : 0 .. MaxOps, writes : Nat, faults : {0}, crashes : Nat]
    /\ Calls <= Len(Program)

InOrder == TestTyped /\ (Idle \/ \E th \in Threads : Busy(th))

-----------------------------------------------------------------------------
(* How the thread that does the call gets on.                              *)

\* Nothing fails.
LEMMA OnlyAnswer ==
  ASSUME TestTyped, NEW th, NEW answer
  PROVE  Answers(th, answer) = {answer}
BY DEF TestTyped, Answers

\* Thread th goes on to the step after, with the tier it found, and makes the
\* places of its object q.
Advances(th, after, found, q) ==
    /\ store' = [store EXCEPT ![Obj(th)] = q]
    /\ thread' \in [Threads -> Underway \cup {IdleThread}] /\ thread'[th] \in Underway
    /\ thread'[th].at = after /\ thread'[th].tier = found
    /\ thread'[th].req = thread[th].req
    /\ \A u \in Threads \ {th} : thread'[u] = thread[u]
    /\ UNCHANGED <<status, bounds>>

\* A thread that goes to its next step with r = 0, or without touching r.
LEMMA Going ==
  ASSUME TestTyped, NEW th \in Threads, thread[th].at # "idle", NEW after \in Steps,
         Goto(th, after) \/ GotoWith(th, after, "ok")
  PROVE  /\ thread' \in [Threads -> Underway \cup {IdleThread}] /\ thread'[th] \in Underway
         /\ thread'[th].at = after /\ thread'[th].tier = Found(th)
         /\ thread'[th].req = thread[th].req
         /\ \A u \in Threads \ {th} : thread'[u] = thread[u]
<1>1. thread[th] \in Underway
  BY DEF TestTyped, IdleThread
<1>2. PICK new \in Underway : /\ new.at = after /\ new.tier = Found(th)
                              /\ new.req = thread[th].req
                              /\ thread' = [thread EXCEPT ![th] = new]
  BY <1>1 DEF Goto, GotoWith, Underway, Found
<1> QED
  BY <1>2 DEF TestTyped

\* An operation that succeeds.
LEMMA OperateAdvances ==
  ASSUME TestTyped, NEW base, NEW th \in Threads, NEW step \in Steps, NEW answer,
         answer.r = "ok", NEW after \in Steps, NEW failed,
         \/ OperateOn(base, th, step, answer, after, failed)
         \/ OperateShadowedOn(base, th, step, answer, after, failed)
  PROVE  thread[th].at = step /\ Advances(th, after, Found(th), answer.p)
<1>1. thread[th].at = step /\ step # "idle"
  BY DEF OperateOn, OperateShadowedOn, At, Steps
<1>2. /\ TakesOn(base, th, answer)
      /\ Goto(th, after) \/ GotoWith(th, after, "ok")
      /\ status' = status
  BY OnlyAnswer DEF OperateOn, OperateShadowedOn
<1>3. store' = [store EXCEPT ![Obj(th)] = answer.p] /\ bounds' = bounds
  BY <1>2 DEF TakesOn
<1> QED
  BY <1>1, <1>2, <1>3, Going DEF Advances

\* An operation followed by assert(r == 0) that succeeds.
LEMMA AssertedAdvances ==
  ASSUME TestTyped, NEW base, NEW th \in Threads, NEW step \in Steps, NEW answer,
         answer.r = "ok", NEW answers, answers = {answer}, NEW after \in Steps,
         OperateAssertedOn(base, th, step, answers, after)
  PROVE  thread[th].at = step /\ Advances(th, after, Found(th), answer.p)
<1>1. thread[th].at = step /\ step # "idle"
  BY DEF OperateAssertedOn, At, Steps
<1>2. TakesOn(base, th, answer) /\ Goto(th, after) /\ status' = status
  BY DEF OperateAssertedOn
<1>3. store' = [store EXCEPT ![Obj(th)] = answer.p] /\ bounds' = bounds
  BY <1>2 DEF TakesOn
<1> QED
  BY <1>1, <1>2, <1>3, Going DEF Advances

\* What is known of the call being done.
LEMMA BusyFacts ==
  ASSUME TestTyped, NEW th \in Threads, Busy(th)
  PROVE  /\ build \in BuildNames
         /\ thread[th] \in Underway
         /\ Calls \in 1 .. Len(Program)
         /\ Obj(th) \in Objects /\ Place(th) \in Places /\ Found(th) \in Tiers
         /\ thread[th].req.op = "create" =>
               Asked(th) = From(Obj(th)) /\ thread[th].req.data = InitialData
         /\ thread[th].req.op = "move" => Asked(th) = To(Obj(th))
         /\ Doing(build, Obj(th), thread[th].req.op, thread[th].at, Found(th), Place(th))
         /\ thread[th].at = "replace" => th \in current
<1>1. thread[th] \in Underway
  BY DEF TestTyped, Busy, IdleThread
<1>2. Obj(th) \in Objects /\ Found(th) \in Tiers
  BY <1>1 DEF Obj, Found, Request, Underway
<1>3. Calls \in 1 .. Len(Program)
  <2>1. Calls \in Int /\ Len(Program) \in Int
    BY ProgramCalls DEF TestTyped, Calls
  <2> QED
    BY <2>1 DEF TestTyped, Busy
<1>4. /\ thread[th].req.op = "create" =>
            Asked(th) = From(Obj(th)) /\ thread[th].req.data = InitialData
      /\ thread[th].req.op = "move" => Asked(th) = To(Obj(th))
  BY <1>3, Schedule DEF Busy, Asked, Obj, TestTyped
<1> QED
  BY <1>1, <1>2, <1>3, <1>4 DEF Busy, TestTyped, Place

\* The step after keeps the order if the pools have the shape it needs.
LEMMA Onward ==
  ASSUME TestTyped, NEW th \in Threads, Busy(th), build' = build,
         NEW after \in Steps, NEW found \in Tiers, NEW q \in Places,
         Advances(th, after, found, q),
         Doing(build, Obj(th), thread[th].req.op, after, found, q),
         after = "replace" => th \in current'
  PROVE  InOrder'
<1>1. thread[th].req \in Request /\ Obj(th) \in Objects /\ Calls \in 1 .. Len(Program)
  BY BusyFacts DEF Underway
<1>2. Program' = Program /\ Calls' = Calls
  BY DEF Program, Calls, Advances
<1>3. /\ store' \in [Objects -> Places] /\ store'[Obj(th)] = q
      /\ \A o \in Objects \ {Obj(th)} : store'[o] = store[o]
  BY <1>1 DEF Advances, TestTyped
<1>4. TestTyped'
  BY <1>2, <1>3 DEF TestTyped, Advances, Calls
<1>5. Busy(th)'
  BY <1>1, <1>2, <1>3 DEF Advances, Busy, Obj, Found, Place, Steps
<1> QED
  BY <1>4, <1>5 DEF InOrder

\* The pools and names of the two tiers of an object.
LEMMA RouteFacts ==
  ASSUME NEW b \in BuildNames, NEW o \in Objects
  PROVE  /\ BaseIn(b) \in {"cache", "storage"}
         /\ Source(b, o) \in Pools /\ Source(b, o) \in Lower \cup {BaseIn(b)}
         /\ Goal(b, o) \in Pools /\ Goal(b, o) \in Lower \cup {BaseIn(b)}
         /\ From(o) \in Tiers /\ To(o) \in Tiers
         /\ NameOf(From(o)) \in TierNames /\ NameOf(To(o)) \in TierNames
         /\ Named(NameOf(From(o))) = {From(o)}
<1>1. From(o) \in Tiers /\ To(o) \in Tiers
  BY TiersOfObjects
<1>2. ASSUME NEW tier \in Tiers
      PROVE  /\ PoolIn(b, tier) \in Pools /\ PoolIn(b, tier) \in Lower \cup {BaseIn(b)}
             /\ NameOf(tier) \in TierNames /\ Named(NameOf(tier)) = {tier}
  BY DEF Tiers, BuildNames, PoolIn, PoolOf, MicroPool, BaseIn, Pools, Lower, NameOf, Named, TierNames
<1>3. BaseIn(b) \in {"cache", "storage"}
  BY DEF BaseIn
<1>4. /\ Source(b, o) \in Pools /\ Source(b, o) \in Lower \cup {BaseIn(b)}
      /\ NameOf(From(o)) \in TierNames /\ Named(NameOf(From(o))) = {From(o)}
  BY <1>1, <1>2 DEF Source
<1>5. /\ Goal(b, o) \in Pools /\ Goal(b, o) \in Lower \cup {BaseIn(b)}
      /\ NameOf(To(o)) \in TierNames
  BY <1>1, <1>2 DEF Goal
<1> QED
  BY <1>1, <1>3, <1>4, <1>5

\* The pool of a tier in the default build, and with micro tiering.
LEMMA PoolFacts ==
  ASSUME NEW b \in BuildNames, NEW tier \in Tiers
  PROVE  /\ b = "default" => /\ BaseIn(b) = "cache" /\ PoolIn(b, tier) = PoolOf(tier)
                             /\ PoolIn(b, tier) = "cache" <=> tier = "FAST"
                             /\ \A other \in Tiers \ {tier} : PoolIn(b, tier) # PoolIn(b, other)
         /\ b # "default" => /\ BaseIn(b) = "storage" /\ PoolIn(b, tier) = MicroPool(tier)
                             /\ PoolIn(b, tier) # "storage" <=> tier = "ARCHIVE"
                             /\ PoolIn(b, "ARCHIVE") = "archive"
BY DEF Tiers, BuildNames, PoolIn, PoolOf, MicroPool, BaseIn

\* What the step a thread is at says of its call and of the pools.
LEMMA CreateShapes ==
  ASSUME NEW b, NEW o, NEW op, NEW at, NEW found, NEW p, Doing(b, o, op, at, found, p)
  PROVE  LET base == BaseIn(b)
             from == Source(b, o)
         IN  /\ at = "write" => op = "create" /\ p = Nowhere
             /\ at = "dummy" =>
                   /\ op = "create" /\ from # base /\ p[from].tier = NameOf(From(o))
                   /\ Shape(p, base, {from}, "bare", InitialData, "free")
             /\ at = "link" =>
                   /\ op = "create" /\ from # base /\ p[from].tier = NameOf(From(o))
                   /\ Shape(p, base, {from}, "none", InitialData, "free")
BY DEF Doing, Creating, Moving, Upward, Downward, Across, Reading, Deleting

\* The same of the steps of a move that do not depend on the route.
LEMMA LockShapes ==
  ASSUME NEW b, NEW o, NEW op, NEW at, NEW found, NEW p, Doing(b, o, op, at, found, p)
  PROVE  /\ at = "lock" => op = "move" /\ Made(b, o, p, "free")
         /\ at = "locate" => op = "move" /\ Made(b, o, p, "held")
         /\ at = "unlock" => op = "move" /\ Placed(b, o, p, InitialData, "held")
         /\ at = "hint" => /\ op = "move" /\ b = "micro" /\ Placed(b, o, p, InitialData, "held")
BY DEF Doing, Creating, Moving, Upward, Downward, Across, Reading, Deleting

\* The same of Read and Delete; and no call comes to an early return.
LEMMA RestShapes ==
  ASSUME NEW b, NEW o, NEW op, NEW at, NEW found, NEW p, Doing(b, o, op, at, found, p)
  PROVE  /\ at = "read" => op = "read" /\ \E data \in Values : Placed(b, o, p, data, "free")
         /\ at = "rm_target" =>
               op = "delete" /\ \E data \in Values : Placed(b, o, p, data, "free")
         /\ at = "rm_self" =>
               /\ op = "delete"
               /\ Shape(p, BaseIn(b), {}, IF Goal(b, o) = BaseIn(b) THEN "bare" ELSE Goal(b, o),
                        InitialData, "free")
         /\ at \notin {"unlock_early", "early"}
<1>1. at = "read" => op = "read" /\ \E data \in Values : Placed(b, o, p, data, "free")
  BY DEF Doing, Creating, Moving, Upward, Downward, Across, Reading, Deleting
<1>2. at = "rm_target" => op = "delete" /\ \E data \in Values : Placed(b, o, p, data, "free")
  BY DEF Doing, Creating, Moving, Upward, Downward, Across, Reading, Deleting
<1>3. at = "rm_self" =>
         /\ op = "delete"
         /\ Shape(p, BaseIn(b), {}, IF Goal(b, o) = BaseIn(b) THEN "bare" ELSE Goal(b, o),
                  InitialData, "free")
  BY DEF Doing, Creating, Moving, Upward, Downward, Across, Reading, Deleting
<1>4. at \notin {"unlock_early", "early"}
  BY DEF Doing, Creating, Moving, Upward, Downward, Across, Reading, Deleting
<1> QED
  BY <1>1, <1>2, <1>3, <1>4

-----------------------------------------------------------------------------
(* Each operation succeeds and makes the shape the step after it needs.    *)

\* After answer a the call goes on with the step after.
GoesOn(b, o, op, after, found, a) ==
    a.r = "ok" /\ a.p \in Places /\ Doing(b, o, op, after, found, a.p)

\* Where the base pool has a copy, no cover matters.
LEMMA AnyCover ==
  ASSUME NEW p, NEW base, NEW copies, base \in copies, NEW cover, NEW data, NEW lock,
         Shape(p, base, copies, cover, data, lock), NEW cover2
  PROVE  Shape(p, base, copies, cover2, data, lock)
BY DEF Shape

\* Create.
LEMMA WriteGoesOn ==
  ASSUME NEW b \in BuildNames, NEW o \in Objects, NEW op, NEW found, NEW p,
         Doing(b, o, op, "write", found, p)
  PROVE  LET a == WriteFullTier(p, Source(b, o), InitialData, NameOf(From(o)))
         IN  /\ Source(b, o) = BaseIn(b) => GoesOn(b, o, op, "finish", found, a)
             /\ Source(b, o) # BaseIn(b) => GoesOn(b, o, op, "dummy", found, a)
<1> DEFINE base == BaseIn(b)
           from == Source(b, o)
           a == WriteFullTier(p, from, InitialData, NameOf(From(o)))
<1>1. op = "create" /\ p = Nowhere
  BY DEF Doing, Creating, Moving, Upward, Downward, Across, Reading, Deleting
<1>2. /\ InitialData \in Values /\ base \in {"cache", "storage"}
      /\ from \in Pools /\ from \in Lower \cup {base} /\ NameOf(From(o)) \in TierNames
  BY ObjectMoverAssumption, RouteFacts
<1>3. /\ a.r = "ok" /\ Shape(a.p, base, {from}, "bare", InitialData, "free")
      /\ a.p[from].tier = NameOf(From(o))
  <2> DEFINE name == NameOf(From(o))
             made == WriteFullTier(Nowhere, from, InitialData, name)
  <2>1. a = made /\ name \in TierNames
    BY <1>1, <1>2
  <2> HIDE DEF a, base, from, name
  <2>2. /\ made.r = "ok" /\ Shape(made.p, base, {from}, "bare", InitialData, "free")
        /\ made.p[from].tier = name
    BY <1>2, <2>1, MakeObject
  <2> HIDE DEF made
  <2> QED
    BY <2>1, <2>2 DEF name
<1> HIDE DEF a
<1>4. a.p \in Places
  BY <1>3 DEF Shape
<1>5. CASE from = base
  <2>1. Lies(a.p, base, from, InitialData, "free")
    BY <1>3, <1>5, AnyCover DEF Lies
  <2>2. Creating(b, o, "finish", a.p)
    BY <2>1, <1>3 DEF Creating, Made
  <2> QED
    <3>1. Doing(b, o, op, "finish", found, a.p)
      BY <1>1, <2>2 DEF Doing
    <3> QED
      BY <1>3, <1>4, <1>5, <3>1 DEF GoesOn, a
<1>6. CASE from # base
  <2>1. Creating(b, o, "dummy", a.p)
    BY <1>3, <1>6 DEF Creating
  <2> QED
    <3>1. Doing(b, o, op, "dummy", found, a.p)
      BY <1>1, <2>1 DEF Doing
    <3> QED
      BY <1>3, <1>4, <1>6, <3>1 DEF GoesOn, a
<1> QED
  BY <1>5, <1>6

\* Create: the write_full of the dummy that is to be a redirect.
LEMMA DummyGoesOn ==
  ASSUME NEW b \in BuildNames, NEW o \in Objects, NEW op, NEW found, NEW p,
         Doing(b, o, op, "dummy", found, p)
  PROVE  GoesOn(b, o, op, "link", found, WriteFull(p, BaseIn(b), Empty))
<1> DEFINE base == BaseIn(b)
           from == Source(b, o)
           a == WriteFull(p, base, Empty)
<1>1. /\ op = "create" /\ from # base /\ p[from].tier = NameOf(From(o))
      /\ Shape(p, base, {from}, "bare", InitialData, "free")
  BY CreateShapes
<1>2. /\ a.r = "ok" /\ Shape(a.p, base, {from}, "none", InitialData, "free")
      /\ a.p[from].tier = NameOf(From(o))
  BY <1>1, RouteFacts, MakeDummy
<1> HIDE DEF a
<1>3. a.p \in Places
  BY <1>2 DEF Shape
<1>4. Creating(b, o, "link", a.p)
  BY <1>1, <1>2 DEF Creating
<1> QED
  BY <1>1, <1>2, <1>3, <1>4 DEF GoesOn, Doing, a

\* Create: set_redirect.
LEMMA LinkGoesOn ==
  ASSUME NEW b \in BuildNames, NEW o \in Objects, NEW op, NEW found, NEW p,
         Doing(b, o, op, "link", found, p)
  PROVE  GoesOn(b, o, op, "finish", found, SetRedirect(p, BaseIn(b), Source(b, o)))
<1> DEFINE base == BaseIn(b)
           from == Source(b, o)
           a == SetRedirect(p, base, from)
<1>1. /\ op = "create" /\ from # base /\ p[from].tier = NameOf(From(o))
      /\ Shape(p, base, {from}, "none", InitialData, "free")
  BY CreateShapes
<1>2. "none" \in TierNames /\ base \in {"cache", "storage"} /\ from \in Lower \ {base}
  BY <1>1, RouteFacts DEF TierNames
<1>3. /\ a.r = "ok" /\ Lies(a.p, base, from, InitialData, "free") /\ a.p[from] = p[from]
  BY <1>1, <1>2, MakeLink
<1> HIDE DEF a
<1>4. a.p \in Places
  BY <1>3 DEF Lies, Shape
<1>5. Creating(b, o, "finish", a.p)
  BY <1>1, <1>3 DEF Creating, Made
<1> QED
  BY <1>1, <1>3, <1>4, <1>5 DEF GoesOn, Doing, a

\* Read.
LEMMA ReadGoesOn ==
  ASSUME NEW b \in BuildNames, NEW o \in Objects, NEW op, NEW found, NEW p,
         Doing(b, o, op, "read", found, p)
  PROVE  /\ Reached(p, BaseIn(b)) # NoObject
         /\ GoesOn(b, o, op, "finish", found, Ok(p, "none"))
<1>1. op = "read" /\ \E data \in Values : Placed(b, o, p, data, "free")
  BY RestShapes
<1>2. PICK data \in Values : Lies(p, BaseIn(b), Goal(b, o), data, "free")
  BY <1>1 DEF Placed
<1>3. p \in Places /\ Reached(p, BaseIn(b)) # NoObject
  BY <1>2, RouteFacts, LiesFacts
<1>4. Reading(b, o, "finish", p)
  BY <1>1 DEF Reading
<1> QED
  BY <1>1, <1>3, <1>4 DEF GoesOn, Doing, Ok

\* Lock and Unlock.
LEMMA LockGoesOn ==
  ASSUME NEW b \in BuildNames, NEW o \in Objects, NEW op, NEW found, NEW p,
         Doing(b, o, op, "lock", found, p)
  PROVE  GoesOn(b, o, op, "locate", found, Locking(p, BaseIn(b)))
<1> DEFINE base == BaseIn(b)
           from == Source(b, o)
           a == Locking(p, base)
<1>1. /\ op = "move" /\ Lies(p, base, from, InitialData, "free")
      /\ p[from].tier = NameOf(From(o))
  BY LockShapes DEF Made
<1>2. /\ base \in {"cache", "storage"} /\ from \in Pools /\ from \in Lower \cup {base}
  BY RouteFacts
<1>3. /\ a.r = "ok" /\ Lies(a.p, base, from, InitialData, "held")
      /\ a.p[from].tier = p[from].tier
  BY <1>1, <1>2, TakeLock
<1> HIDE DEF a
<1>4. a.p \in Places
  BY <1>3 DEF Lies, Shape
<1>5. Moving(b, o, "locate", found, a.p)
  BY <1>1, <1>3 DEF Moving, Made
<1> QED
  BY <1>1, <1>3, <1>4, <1>5 DEF GoesOn, Doing, a

\* Unlock, at the end of a move.
LEMMA UnlockGoesOn ==
  ASSUME NEW b \in BuildNames, NEW o \in Objects, NEW op, NEW found, NEW p,
         Doing(b, o, op, "unlock", found, p)
  PROVE  GoesOn(b, o, op, "finish", found, Unlocking(p, BaseIn(b)))
<1> DEFINE base == BaseIn(b)
           to == Goal(b, o)
           a == Unlocking(p, base)
<1>1. op = "move" /\ Placed(b, o, p, InitialData, "held")
  BY LockShapes
<1>2. /\ base \in {"cache", "storage"} /\ to \in Pools /\ to \in Lower \cup {base}
  BY RouteFacts
<1>3. a.r = "ok" /\ Lies(a.p, base, to, InitialData, "free")
  BY <1>1, <1>2, ReleaseLock DEF Placed
<1> HIDE DEF a
<1>4. a.p \in Places
  BY <1>3 DEF Lies, Shape
<1>5. Moving(b, o, "finish", found, a.p)
  BY <1>3 DEF Moving, Placed
<1> QED
  BY <1>1, <1>3, <1>4, <1>5 DEF GoesOn, Doing, a

\* GetLocation finds the tier of the object.
LEMMA LocateFinds ==
  ASSUME NEW b \in BuildNames, NEW o \in Objects, NEW op, NEW found, NEW p,
         Doing(b, o, op, "locate", found, p)
  PROVE  /\ op = "move" /\ p \in Places
         /\ Reached(p, BaseIn(b)) # NoObject
         /\ Named(Reached(p, BaseIn(b)).tier) = {From(o)}
<1> DEFINE base == BaseIn(b)
           from == Source(b, o)
<1>1. /\ op = "move" /\ Lies(p, base, from, InitialData, "held")
      /\ p[from].tier = NameOf(From(o))
  BY LockShapes DEF Made
<1>2. p \in Places /\ Reached(p, base) = p[from] /\ p[from] # NoObject
  BY <1>1, RouteFacts, LiesFacts
<1> QED
  BY <1>1, <1>2, RouteFacts

\* The step after: nothing to do, up, down, across, or to the other device.
LEMMA LocateGoesOn ==
  ASSUME NEW b \in BuildNames, NEW o \in Objects, NEW op, NEW found, NEW p,
         Doing(b, o, op, "locate", found, p), NEW after,
         \/ after = "unlock" /\ From(o) = To(o)
         \/ after = "unlink" /\ Source(b, o) # BaseIn(b) /\ Goal(b, o) = BaseIn(b)
         \/ after = "copy_down" /\ Source(b, o) = BaseIn(b) /\ Goal(b, o) # BaseIn(b)
         \/ /\ after = "x_unlink" /\ b = "default" /\ Source(b, o) # Goal(b, o)
            /\ Source(b, o) # BaseIn(b) /\ Goal(b, o) # BaseIn(b)
         \/ /\ after = "hint" /\ b = "micro" /\ Source(b, o) = Goal(b, o)
  PROVE  Doing(b, o, op, after, From(o), p)
<1> DEFINE base == BaseIn(b)
           from == Source(b, o)
           to == Goal(b, o)
<1>1. op = "move" /\ Lies(p, base, from, InitialData, "held")
  BY LockShapes DEF Made
<1>2. CASE after = "unlock" /\ From(o) = To(o)
  <2>1. Placed(b, o, p, InitialData, "held")
    BY <1>1, <1>2 DEF Placed, Source, Goal
  <2> QED
    BY <1>1, <1>2, <2>1 DEF Doing, Moving
<1>3. CASE after = "unlink" /\ from # base /\ to = base
  <2>1. Upward(b, o, after, p)
    BY <1>1, <1>3 DEF Upward, Lies
  <2> QED
    BY <1>1, <2>1 DEF Doing, Moving
<1>4. CASE after = "copy_down" /\ from = base /\ to # base
  <2>1. Downward(b, o, after, p)
    BY <1>1, <1>4 DEF Downward, Lies
  <2> QED
    BY <1>1, <2>1 DEF Doing, Moving
<1>5. CASE after = "x_unlink" /\ b = "default" /\ from # to /\ from # base /\ to # base
  <2>1. Across(b, o, after, p)
    BY <1>1, <1>5 DEF Across, Lies
  <2> QED
    BY <1>1, <2>1 DEF Doing, Moving
<1>6. CASE after = "hint" /\ b = "micro" /\ from = to
  <2>1. Placed(b, o, p, InitialData, "held")
    BY <1>1, <1>6 DEF Placed
  <2> QED
    BY <1>1, <1>6, <2>1 DEF Doing, Moving
<1> QED
  BY <1>2, <1>3, <1>4, <1>5, <1>6

\* Move between two devices of the storage pool.
LEMMA HintGoesOn ==
  ASSUME NEW b \in BuildNames, NEW o \in Objects, NEW op, NEW found, NEW p,
         Doing(b, o, op, "hint", found, p)
  PROVE  GoesOn(b, o, op, "unlock", found, AllocHint(p, BaseIn(b)))
<1> DEFINE base == BaseIn(b)
           to == Goal(b, o)
           a == AllocHint(p, base)
<1>1. op = "move" /\ Lies(p, base, to, InitialData, "held")
  BY LockShapes DEF Placed
<1>2. base \in {"cache", "storage"} /\ to \in Pools /\ to \in Lower \cup {base}
  BY RouteFacts
<1>3. a.r = "ok" /\ a.p = p
  BY <1>1, <1>2, TakeHint
<1> HIDE DEF a
<1>4. Moving(b, o, "unlock", found, p)
  BY <1>1 DEF Moving, Placed
<1>5. p \in Places
  BY <1>1 DEF Lies, Shape
<1> QED
  BY <1>1, <1>3, <1>4, <1>5 DEF GoesOn, Doing, a

\* Move to the base pool.
LEMMA UnlinkGoesOn ==
  ASSUME NEW b \in BuildNames, NEW o \in Objects, NEW op, NEW found, NEW p,
         Doing(b, o, op, "unlink", found, p)
  PROVE  GoesOn(b, o, op, "promote", found, RemoveAt(p, BaseIn(b)))
<1> DEFINE base == BaseIn(b)
           from == Source(b, o)
           a == RemoveAt(p, base)
<1>1. /\ op = "move" /\ found = From(o) /\ from # base /\ Goal(b, o) = base
      /\ Lies(p, base, from, InitialData, "held")
  BY DEF Doing, Creating, Moving, Upward, Downward, Across, Reading, Deleting, Lies
<1>2. base \in {"cache", "storage"} /\ from \in Lower \ {base}
  BY <1>1, RouteFacts
<1>3. a.r = "ok" /\ Shape(a.p, base, {from}, "bare", InitialData, "held")
  BY <1>1, <1>2, RemoveLink
<1> HIDE DEF a
<1>4. a.p \in Places
  BY <1>3 DEF Shape
<1>5. Upward(b, o, "promote", a.p)
  BY <1>1, <1>3 DEF Upward
<1> QED
  BY <1>1, <1>3, <1>4, <1>5 DEF GoesOn, Doing, Moving, a

\* Move to the base pool: copy_from and setxattr("tier").
LEMMA PromoteGoesOn ==
  ASSUME NEW b \in BuildNames, NEW o \in Objects, NEW op, NEW found, NEW p,
         Doing(b, o, op, "promote", found, p), NEW name \in TierNames
  PROVE  GoesOn(b, o, op, "rm_source", found, CopyFromTier(p, BaseIn(b), Source(b, o), name))
<1> DEFINE base == BaseIn(b)
           from == Source(b, o)
           a == CopyFromTier(p, base, from, name)
<1>1. /\ op = "move" /\ found = From(o) /\ from # base /\ Goal(b, o) = base
      /\ Shape(p, base, {from}, "bare", InitialData, "held")
  BY DEF Doing, Creating, Moving, Upward, Downward, Across, Reading, Deleting, Lies
<1>2. base \in {"cache", "storage"} /\ from \in Pools /\ base \in Pools \ {from}
  BY <1>1, RouteFacts DEF Pools
<1>3. a.r = "ok" /\ Shape(a.p, base, {from, base}, "bare", InitialData, "held")
  BY <1>1, <1>2, SecondCopyNamed
<1> HIDE DEF a
<1>4. a.p \in Places
  BY <1>3 DEF Shape
<1>5. Upward(b, o, "rm_source", a.p)
  BY <1>1, <1>3 DEF Upward
<1> QED
  BY <1>1, <1>3, <1>4, <1>5 DEF GoesOn, Doing, Moving, a

\* Move to the base pool: the remove of the source.
LEMMA RmSourceGoesOn ==
  ASSUME NEW b \in BuildNames, NEW o \in Objects, NEW op, NEW found, NEW p,
         Doing(b, o, op, "rm_source", found, p)
  PROVE  GoesOn(b, o, op, "unlock", found, Remove(p, Source(b, o)))
<1> DEFINE base == BaseIn(b)
           from == Source(b, o)
           a == Remove(p, from)
<1>1. /\ op = "move" /\ from # base /\ Goal(b, o) = base
      /\ Shape(p, base, {from, base}, "bare", InitialData, "held")
  BY DEF Doing, Creating, Moving, Upward, Downward, Across, Reading, Deleting, Lies
<1>2. base \in {"cache", "storage"} /\ from \in Pools \ {base} /\ base \in Pools \ {from}
  BY <1>1, RouteFacts DEF Pools
<1>3. a.r = "ok" /\ Shape(a.p, base, {base}, "bare", InitialData, "held")
  BY <1>1, <1>2, RemoveCopy
<1> HIDE DEF a
<1>4. a.p \in Places
  BY <1>3 DEF Shape
<1>5. Placed(b, o, a.p, InitialData, "held")
  BY <1>1, <1>3, AnyCover DEF Placed, Lies
<1> QED
  BY <1>1, <1>3, <1>4, <1>5 DEF GoesOn, Doing, Moving, a

\* Move between the lower pools.
LEMMA XUnlinkGoesOn ==
  ASSUME NEW b \in BuildNames, NEW o \in Objects, NEW op, NEW found, NEW p,
         Doing(b, o, op, "x_unlink", found, p)
  PROVE  GoesOn(b, o, op, "x_copy", found, RemoveAt(p, BaseIn(b)))
<1> DEFINE base == BaseIn(b)
           from == Source(b, o)
           to == Goal(b, o)
           a == RemoveAt(p, base)
<1>1. /\ op = "move" /\ found = From(o) /\ b = "default"
      /\ from # base /\ to # base /\ from # to
      /\ Lies(p, base, from, InitialData, "held")
  BY DEF Doing, Creating, Moving, Upward, Downward, Across, Reading, Deleting, Lies
<1>2. base \in {"cache", "storage"} /\ from \in Lower \ {base}
  BY <1>1, RouteFacts DEF Pools
<1>3. a.r = "ok" /\ Shape(a.p, base, {from}, "bare", InitialData, "held")
  BY <1>1, <1>2, RemoveLink
<1> HIDE DEF a
<1>4. a.p \in Places
  BY <1>3 DEF Shape, Lies
<1>5. Across(b, o, "x_copy", a.p)
  BY <1>1, <1>3 DEF Across
<1> QED
  BY <1>1, <1>3, <1>4, <1>5 DEF GoesOn, Doing, Moving, a

\* Move between slow tier and archive: copy_from.
LEMMA XCopyGoesOn ==
  ASSUME NEW b \in BuildNames, NEW o \in Objects, NEW op, NEW found, NEW p,
         Doing(b, o, op, "x_copy", found, p)
  PROVE  GoesOn(b, o, op, "x_remove", found, CopyFrom(p, Goal(b, o), Source(b, o)))
<1> DEFINE base == BaseIn(b)
           from == Source(b, o)
           to == Goal(b, o)
           a == CopyFrom(p, to, from)
<1>1. /\ op = "move" /\ found = From(o) /\ b = "default"
      /\ from # base /\ to # base /\ from # to
      /\ Shape(p, base, {from}, "bare", InitialData, "held")
  BY DEF Doing, Creating, Moving, Upward, Downward, Across, Reading, Deleting, Lies
<1>2. base \in {"cache", "storage"} /\ from \in Pools /\ to \in Pools \ {from}
  BY <1>1, RouteFacts DEF Pools
<1>3. a.r = "ok" /\ Shape(a.p, base, {from, to}, "bare", InitialData, "held")
  BY <1>1, <1>2, SecondCopy
<1> HIDE DEF a
<1>4. a.p \in Places
  BY <1>3 DEF Shape, Lies
<1>5. Across(b, o, "x_remove", a.p)
  BY <1>1, <1>3 DEF Across
<1> QED
  BY <1>1, <1>3, <1>4, <1>5 DEF GoesOn, Doing, Moving, a

\* Move between slow tier and archive: the remove of the source.
LEMMA XRemoveGoesOn ==
  ASSUME NEW b \in BuildNames, NEW o \in Objects, NEW op, NEW found, NEW p,
         Doing(b, o, op, "x_remove", found, p)
  PROVE  GoesOn(b, o, op, "x_dummy", found, Remove(p, Source(b, o)))
<1> DEFINE base == BaseIn(b)
           from == Source(b, o)
           to == Goal(b, o)
           a == Remove(p, from)
<1>1. /\ op = "move" /\ found = From(o) /\ b = "default"
      /\ from # base /\ to # base /\ from # to
      /\ Shape(p, base, {from, to}, "bare", InitialData, "held")
  BY DEF Doing, Creating, Moving, Upward, Downward, Across, Reading, Deleting, Lies
<1>2. base \in {"cache", "storage"} /\ from \in Pools \ {base} /\ to \in Pools \ {from}
  BY <1>1, RouteFacts DEF Pools
<1>3. a.r = "ok" /\ Shape(a.p, base, {to}, "bare", InitialData, "held")
  BY <1>1, <1>2, RemoveCopy
<1> HIDE DEF a
<1>4. a.p \in Places
  BY <1>3 DEF Shape, Lies
<1>5. Across(b, o, "x_dummy", a.p)
  BY <1>1, <1>3 DEF Across
<1> QED
  BY <1>1, <1>3, <1>4, <1>5 DEF GoesOn, Doing, Moving, a

\* Move between slow tier and archive: the write_full of the dummy.
LEMMA XDummyGoesOn ==
  ASSUME NEW b \in BuildNames, NEW o \in Objects, NEW op, NEW found, NEW p,
         Doing(b, o, op, "x_dummy", found, p)
  PROVE  GoesOn(b, o, op, "x_link", found, WriteFull(p, BaseIn(b), Empty))
<1> DEFINE base == BaseIn(b)
           from == Source(b, o)
           to == Goal(b, o)
           a == WriteFull(p, base, Empty)
<1>1. /\ op = "move" /\ found = From(o) /\ b = "default"
      /\ from # base /\ to # base /\ from # to
      /\ Shape(p, base, {to}, "bare", InitialData, "held")
  BY DEF Doing, Creating, Moving, Upward, Downward, Across, Reading, Deleting, Lies
<1>2. base \in {"cache", "storage"} /\ to \in Lower \ {base}
  BY <1>1, RouteFacts DEF Pools
<1>3. a.r = "ok" /\ Shape(a.p, base, {to}, "none", InitialData, "held")
  BY <1>1, <1>2, MakeDummy
<1> HIDE DEF a
<1>4. a.p \in Places
  BY <1>3 DEF Shape, Lies
<1>5. Across(b, o, "x_link", a.p)
  BY <1>1, <1>3 DEF Across
<1> QED
  BY <1>1, <1>3, <1>4, <1>5 DEF GoesOn, Doing, Moving, a

\* Move between slow tier and archive: set_redirect.
LEMMA XLinkGoesOn ==
  ASSUME NEW b \in BuildNames, NEW o \in Objects, NEW op, NEW found, NEW p,
         Doing(b, o, op, "x_link", found, p)
  PROVE  GoesOn(b, o, op, "unlock", found, SetRedirect(p, BaseIn(b), Goal(b, o)))
<1> DEFINE base == BaseIn(b)
           from == Source(b, o)
           to == Goal(b, o)
           a == SetRedirect(p, base, to)
<1>1. /\ op = "move" /\ found = From(o) /\ b = "default"
      /\ from # base /\ to # base /\ from # to
      /\ Shape(p, base, {to}, "none", InitialData, "held")
  BY DEF Doing, Creating, Moving, Upward, Downward, Across, Reading, Deleting, Lies
<1>2. base \in {"cache", "storage"} /\ to \in Lower \ {base}
  BY <1>1, RouteFacts DEF Pools
<1>3. a.r = "ok" /\ Lies(a.p, base, to, InitialData, "held")
  BY <1>1, <1>2, MakeLink
<1> HIDE DEF a
<1>4. a.p \in Places
  BY <1>3 DEF Shape, Lies
<1>5. Moving(b, o, "unlock", found, a.p)
  BY <1>3 DEF Moving, Placed
<1> QED
  BY <1>1, <1>3, <1>4, <1>5 DEF GoesOn, Doing, a

\* Move from the base pool down.
LEMMA CopyDownGoesOn ==
  ASSUME NEW b \in BuildNames, NEW o \in Objects, NEW op, NEW found, NEW p,
         Doing(b, o, op, "copy_down", found, p)
  PROVE  /\ GoesOn(b, o, op, "replace", found, CopyFrom(p, Goal(b, o), BaseIn(b)))
         /\ Target(p, BaseIn(b)) = BaseIn(b)
<1> DEFINE base == BaseIn(b)
           to == Goal(b, o)
           a == CopyFrom(p, to, base)
<1>1. /\ op = "move" /\ found = From(o) /\ to # base /\ Source(b, o) = base
      /\ Lies(p, base, base, InitialData, "held")
  BY DEF Doing, Creating, Moving, Upward, Downward, Across, Reading, Deleting, Lies
<1>2. base \in {"cache", "storage"} /\ base \in Pools /\ to \in Pools \ {base}
  BY <1>1, RouteFacts DEF Pools
<1>3. Shape(p, base, {base}, "none", InitialData, "held")
  BY <1>1, AnyCover DEF Lies
<1>4. a.r = "ok" /\ Shape(a.p, base, {base, to}, "none", InitialData, "held")
  BY <1>1, <1>2, <1>3, SecondCopy
<1>5. Target(p, base) = base
  BY <1>1, <1>2, LiesFacts
<1> HIDE DEF a
<1>6. a.p \in Places
  BY <1>4 DEF Shape
<1>7. Downward(b, o, "replace", a.p)
  BY <1>1, <1>4 DEF Downward
<1> QED
  BY <1>1, <1>4, <1>5, <1>6, <1>7 DEF GoesOn, Doing, Moving, a

\* Move down: the redirect takes the place of the object.
LEMMA ReplaceGoesOn ==
  ASSUME NEW b \in BuildNames, NEW o \in Objects, NEW op, NEW found, NEW p,
         Doing(b, o, op, "replace", found, p), NEW name \in TierNames
  PROVE  GoesOn(b, o, op, "unlock", found, Replacing(p, BaseIn(b), Goal(b, o), name))
<1> DEFINE base == BaseIn(b)
           to == Goal(b, o)
           a == Replacing(p, base, to, name)
<1>1. /\ op = "move" /\ to # base
      /\ Shape(p, base, {base, to}, "none", InitialData, "held")
  BY DEF Doing, Creating, Moving, Upward, Downward, Across, Reading, Deleting
<1>2. base \in {"cache", "storage"} /\ to \in Lower \ {base}
  BY <1>1, RouteFacts
<1>3. a.r = "ok" /\ Lies(a.p, base, to, InitialData, "held")
  BY <1>1, <1>2, MakeLinkIf
<1> HIDE DEF a
<1>4. a.p \in Places
  BY <1>3 DEF Shape, Lies
<1>5. Moving(b, o, "unlock", found, a.p)
  BY <1>3 DEF Moving, Placed
<1> QED
  BY <1>1, <1>3, <1>4, <1>5 DEF GoesOn, Doing, a

\* Delete: of the object, and of the redirect; with micro tiering the second
\* remove goes where the first went.
LEMMA RmTargetGoesOn ==
  ASSUME NEW b \in BuildNames, NEW o \in Objects, NEW op, NEW found, NEW p,
         Doing(b, o, op, "rm_target", found, p)
  PROVE  GoesOn(b, o, op, "rm_self", found, Remove(p, BaseIn(b)))
<1> DEFINE base == BaseIn(b)
           to == Goal(b, o)
           a == Remove(p, base)
           cover == IF to = base THEN "bare" ELSE to
<1>1. op = "delete" /\ \E data \in Values : Placed(b, o, p, data, "free")
  BY RestShapes
<1>2. PICK data \in Values : Lies(p, base, to, data, "free")
  BY <1>1 DEF Placed
<1>3. base \in {"cache", "storage"} /\ to \in Pools /\ to \in Lower \cup {base}
  BY RouteFacts
<1>4. a.r = "ok" /\ Shape(a.p, base, {}, cover, data, "free")
  BY <1>2, <1>3, RemoveObject
<1> HIDE DEF a
<1>5. a.p \in Places /\ Shape(a.p, base, {}, cover, InitialData, "free")
  BY <1>4 DEF Shape
<1>6. Deleting(b, o, "rm_self", a.p)
  BY <1>5 DEF Deleting
<1> QED
  BY <1>1, <1>4, <1>5, <1>6 DEF GoesOn, Doing, a

\* Delete: the second remove; that there is nothing to remove is no failure.
LEMMA RmSelfGoesOn ==
  ASSUME NEW b \in BuildNames, NEW o \in Objects, NEW op, NEW found, NEW p,
         Doing(b, o, op, "rm_self", found, p), NEW a,
         a = IF b = "default" THEN RemoveAt(p, BaseIn(b)) ELSE Remove(p, BaseIn(b))
  PROVE  /\ a.r \in {"ok", "enoent"} /\ a.p \in Places
         /\ Doing(b, o, op, "finish", found, a.p)
<1> DEFINE base == BaseIn(b)
           to == Goal(b, o)
           cover == IF to = base THEN "bare" ELSE to
<1>1. op = "delete" /\ Shape(p, base, {}, cover, InitialData, "free")
  BY RestShapes
<1>2. /\ p \in Places /\ base \in Pools /\ to \in Pools
      /\ \A pool \in Pools : pool # base => p[pool] = NoObject
      /\ Cover(p[base]) = cover
  BY <1>1, RouteFacts DEF Shape, Pools
<1>3. ASSUME NEW q \in Places, \A pool \in Pools : pool # base => q[pool] = NoObject,
             Cover(q[base]) = IF b = "default" \/ to = base THEN "bare" ELSE to
      PROVE  Doing(b, o, op, "finish", found, q)
  <2>1. Removed(b, o, q)
    BY <1>3 DEF Removed, Shape
  <2> QED
    BY <1>1, <2>1 DEF Doing, Deleting
<1>4. CASE b = "default"
  <2>1. CASE p[base] = NoObject
    <3>1. a.r = "enoent" /\ a.p = p
      BY <1>4, <2>1 DEF RemoveAt, Fails
    <3>2. Cover(p[base]) = "bare"
      BY <2>1 DEF Cover
    <3> QED
      BY <1>2, <1>3, <1>4, <3>1, <3>2
  <2>2. CASE p[base] # NoObject
    <3> DEFINE q == [p EXCEPT ![base] = NoObject]
    <3>1. a = Ok(q, base)
      BY <1>4, <2>2 DEF RemoveAt
    <3>2. /\ q \in Places /\ q[base] = NoObject
          /\ \A pool \in Pools : pool # base => q[pool] = NoObject
      BY <1>2 DEF Places
    <3> HIDE DEF q
    <3>3. Cover(q[base]) = "bare"
      BY <3>2 DEF Cover
    <3>4. Doing(b, o, op, "finish", found, q)
      BY <1>3, <1>4, <3>2, <3>3
    <3> QED
      BY <3>1, <3>2, <3>4 DEF Ok
  <2> QED
    BY <2>1, <2>2
<1>5. CASE b # "default"
  <2>1. p[Target(p, base)] = NoObject
    <3>1. CASE p[base] = NoObject
      BY <3>1 DEF Target
    <3>2. CASE p[base] # NoObject
      <4>1. p[base].redirect = cover /\ cover # "bare" /\ cover # "none"
        <5>1. p[base] \in Object
          BY <1>2, <3>2 DEF Places
        <5> QED
          BY <1>2, <3>2, <5>1 DEF Cover, Object, Pools
      <4> QED
        BY <1>2, <3>2, <4>1 DEF Target
    <3> QED
      BY <3>1, <3>2
  <2>2. a.r = "enoent" /\ a.p = p
    BY <1>5, <2>1 DEF Remove, RemoveAt, Fails
  <2> QED
    BY <1>2, <1>3, <1>5, <2>2
<1> QED
  BY <1>4, <1>5

-----------------------------------------------------------------------------
(* Each step of the thread that does the call keeps the order.             *)

\* An operation whose failure the code looks at.
LEMMA OperateInOrder ==
  ASSUME TestTyped, NEW th \in Threads, Busy(th), build' = build,
         NEW base, NEW step \in Steps, NEW answer, NEW after \in Steps, after # "replace",
         NEW failed,
         \/ OperateOn(base, th, step, answer, after, failed)
         \/ OperateShadowedOn(base, th, step, answer, after, failed),
         GoesOn(build, Obj(th), thread[th].req.op, after, Found(th), answer)
  PROVE  InOrder'
<1>1. /\ answer.r = "ok" /\ answer.p \in Places
      /\ Doing(build, Obj(th), thread[th].req.op, after, Found(th), answer.p)
  BY DEF GoesOn
<1>2. Found(th) \in Tiers
  BY BusyFacts
<1>3. Advances(th, after, Found(th), answer.p)
  BY <1>1, OperateAdvances
<1> QED
  BY <1>1, <1>2, <1>3, Onward

\* An operation followed by assert(r == 0).
LEMMA AssertedInOrder ==
  ASSUME TestTyped, NEW th \in Threads, Busy(th), build' = build,
         NEW base, NEW step \in Steps, NEW answer, NEW answers, answers = {answer},
         NEW after \in Steps, after # "replace",
         OperateAssertedOn(base, th, step, answers, after),
         GoesOn(build, Obj(th), thread[th].req.op, after, Found(th), answer)
  PROVE  InOrder'
<1>1. /\ answer.r = "ok" /\ answer.p \in Places
      /\ Doing(build, Obj(th), thread[th].req.op, after, Found(th), answer.p)
  BY DEF GoesOn
<1>2. Found(th) \in Tiers
  BY BusyFacts
<1>3. Advances(th, after, Found(th), answer.p)
  BY <1>1, AssertedAdvances
<1> QED
  BY <1>1, <1>2, <1>3, Onward

\* The operation a step belongs to.
LEMMA StepOps ==
  ASSUME NEW b, NEW o, NEW op, NEW at, NEW found, NEW p, Doing(b, o, op, at, found, p)
  PROVE  /\ at \in {"write", "dummy", "link"} => op = "create"
         /\ at \in {"lock", "locate", "hint", "unlock", "unlink", "promote", "rm_source",
                    "copy_down", "replace", "x_unlink", "x_copy", "x_remove", "x_dummy",
                    "x_link"} => op = "move"
         /\ at \in {"unlink", "promote", "rm_source", "copy_down", "replace", "x_unlink",
                    "x_copy", "x_remove", "x_dummy", "x_link"} => found = From(o)
BY DEF Doing, Creating, Moving, Upward, Downward, Across, Reading, Deleting

\* What is known of the call in terms of the pools of its object.
LEMMA CallFacts ==
  ASSUME TestTyped, NEW th \in Threads, Busy(th)
  PROVE  LET o == Obj(th)
             at == thread[th].at
         IN  /\ build \in BuildNames /\ o \in Objects
             /\ Doing(build, o, thread[th].req.op, at, Found(th), Place(th))
             /\ at \in {"write", "dummy", "link"} =>
                   /\ Asked(th) = From(o) /\ Asked(th) \in Tiers
                   /\ PoolIn(build, Asked(th)) = Source(build, o)
                   /\ thread[th].req.data = InitialData
             /\ at \in {"lock", "locate", "hint", "unlock", "unlink", "promote", "rm_source",
                        "copy_down", "replace", "x_unlink", "x_copy", "x_remove", "x_dummy",
                        "x_link"} =>
                   /\ Asked(th) = To(o) /\ Asked(th) \in Tiers
                   /\ PoolIn(build, Asked(th)) = Goal(build, o)
             /\ at \in {"unlink", "promote", "rm_source", "copy_down", "replace", "x_unlink",
                        "x_copy", "x_remove", "x_dummy", "x_link"} =>
                   PoolIn(build, Found(th)) = Source(build, o)
<1>1. /\ build \in BuildNames /\ Obj(th) \in Objects
      /\ Doing(build, Obj(th), thread[th].req.op, thread[th].at, Found(th), Place(th))
      /\ thread[th].req.op = "create" =>
               Asked(th) = From(Obj(th)) /\ thread[th].req.data = InitialData
      /\ thread[th].req.op = "move" => Asked(th) = To(Obj(th))
  BY BusyFacts
<1>2. From(Obj(th)) \in Tiers /\ To(Obj(th)) \in Tiers
  BY <1>1, RouteFacts
<1> QED
  BY <1>1, <1>2, StepOps DEF Source, Goal

\* The default build: Create.
LEMMA CreateInOrder ==
  ASSUME TestTyped, NEW th \in Threads, Busy(th), build' = build, build = "default",
         Create(th)
  PROVE  InOrder'
<1> DEFINE o == Obj(th)
           p == Place(th)
           op == thread[th].req.op
<1>1. CASE Write(th)
  <2> DEFINE a == WriteFullTier(p, PoolOf(Asked(th)), thread[th].req.data, NameOf(Asked(th)))
  <2>1. OperateOn("cache", th, "write", a, IF Asked(th) = "FAST" THEN "finish" ELSE "dummy",
                  "finish")
    BY <1>1 DEF Write, Operate
  <2>2. thread[th].at = "write"
    BY <2>1 DEF OperateOn, At
  <2>3. /\ BaseIn(build) = "cache" /\ PoolOf(Asked(th)) = Source(build, o)
        /\ Source(build, o) = BaseIn(build) <=> Asked(th) = "FAST"
        /\ Asked(th) = From(o) /\ thread[th].req.data = InitialData
        /\ Doing(build, o, op, "write", Found(th), p) /\ o \in Objects /\ build \in BuildNames
    BY <2>2, CallFacts, PoolFacts
  <2>4. a = WriteFullTier(p, Source(build, o), InitialData, NameOf(From(o)))
    BY <2>3
  <2> HIDE DEF a
  <2>5. PICK after \in {"finish", "dummy"} :
           after = IF Asked(th) = "FAST" THEN "finish" ELSE "dummy"
    OBVIOUS
  <2>6. GoesOn(build, o, op, after, Found(th), a)
    BY <2>3, <2>4, <2>5, WriteGoesOn
  <2>7. "write" \in Steps /\ after \in Steps /\ after # "replace"
    BY DEF Steps
  <2>8. OperateOn("cache", th, "write", a, after, "finish")
    BY <2>1, <2>5
  <2> QED
    BY <2>6, <2>7, <2>8, OperateInOrder
<1>2. CASE Dummy(th)
  <2> DEFINE a == WriteFull(p, "cache", Empty)
  <2>1. OperateOn("cache", th, "dummy", a, "link", "finish")
    BY <1>2 DEF Dummy, Operate
  <2>2. thread[th].at = "dummy"
    BY <2>1 DEF OperateOn, At
  <2>3. GoesOn(build, o, op, "link", Found(th), a)
    BY <2>2, CallFacts, PoolFacts, DummyGoesOn
  <2>4. "dummy" \in Steps /\ "link" \in Steps
    BY DEF Steps
  <2> HIDE DEF a
  <2> QED
    BY <2>1, <2>3, <2>4, OperateInOrder
<1>3. CASE Link(th)
  <2> DEFINE a == SetRedirect(p, "cache", PoolOf(Asked(th)))
  <2>1. OperateOn("cache", th, "link", a, "finish", "finish")
    BY <1>3 DEF Link, Operate
  <2>2. thread[th].at = "link"
    BY <2>1 DEF OperateOn, At
  <2>3. GoesOn(build, o, op, "finish", Found(th), a)
    BY <2>2, CallFacts, PoolFacts, LinkGoesOn
  <2>4. "link" \in Steps /\ "finish" \in Steps
    BY DEF Steps
  <2> HIDE DEF a
  <2> QED
    BY <2>1, <2>3, <2>4, OperateInOrder
<1> QED
  BY <1>1, <1>2, <1>3 DEF Create

\* Move to the fast tier.
LEMMA MoveUpInOrder ==
  ASSUME TestTyped, NEW th \in Threads, Busy(th), build' = build, build = "default",
         MoveUp(th)
  PROVE  InOrder'
<1> DEFINE o == Obj(th)
           p == Place(th)
           op == thread[th].req.op
<1>1. CASE Unlink(th)
  <2> DEFINE a == RemoveAt(p, "cache")
  <2>1. OperateOn("cache", th, "unlink", a, "promote", "unlock_early")
    BY <1>1 DEF Unlink, Operate
  <2>2. thread[th].at = "unlink"
    BY <2>1 DEF OperateOn, At
  <2>3. GoesOn(build, o, op, "promote", Found(th), a)
    BY <2>2, CallFacts, PoolFacts, UnlinkGoesOn
  <2>4. "unlink" \in Steps /\ "promote" \in Steps
    BY DEF Steps
  <2> HIDE DEF a
  <2> QED
    BY <2>1, <2>3, <2>4, OperateInOrder
<1>2. CASE Promote(th)
  <2> DEFINE a == CopyFromTier(p, "cache", PoolOf(Found(th)), "fast")
  <2>1. OperateOn("cache", th, "promote", a, "rm_source", "unlock")
    BY <1>2 DEF Promote, Operate
  <2>2. thread[th].at = "promote"
    BY <2>1 DEF OperateOn, At
  <2>3. GoesOn(build, o, op, "rm_source", Found(th), a)
    BY <2>2, CallFacts, PoolFacts, PromoteGoesOn, BusyFacts DEF TierNames
  <2>4. "promote" \in Steps /\ "rm_source" \in Steps
    BY DEF Steps
  <2> HIDE DEF a
  <2> QED
    BY <2>1, <2>3, <2>4, OperateInOrder
<1>3. CASE RmSource(th)
  <2> DEFINE a == Remove(p, PoolOf(Found(th)))
  <2>1. OperateOn("cache", th, "rm_source", a, "unlock", "unlock")
    BY <1>3 DEF RmSource, Operate
  <2>2. thread[th].at = "rm_source"
    BY <2>1 DEF OperateOn, At
  <2>3. GoesOn(build, o, op, "unlock", Found(th), a)
    BY <2>2, CallFacts, PoolFacts, RmSourceGoesOn, BusyFacts
  <2>4. "rm_source" \in Steps /\ "unlock" \in Steps
    BY DEF Steps
  <2> HIDE DEF a
  <2> QED
    BY <2>1, <2>3, <2>4, OperateInOrder
<1> QED
  BY <1>1, <1>2, <1>3 DEF MoveUp

\* Move between slow tier and archive.
LEMMA MoveAcrossInOrder ==
  ASSUME TestTyped, NEW th \in Threads, Busy(th), build' = build, build = "default",
         MoveAcross(th)
  PROVE  InOrder'
<1> DEFINE o == Obj(th)
           p == Place(th)
           op == thread[th].req.op
<1>1. CASE XUnlink(th)
  <2> DEFINE a == RemoveAt(p, "cache")
  <2>1. OperateOn("cache", th, "x_unlink", a, "x_copy", "unlock")
    BY <1>1 DEF XUnlink, Operate
  <2>2. thread[th].at = "x_unlink"
    BY <2>1 DEF OperateOn, At
  <2>3. GoesOn(build, o, op, "x_copy", Found(th), a)
    BY <2>2, CallFacts, PoolFacts, XUnlinkGoesOn
  <2>4. "x_unlink" \in Steps /\ "x_copy" \in Steps
    BY DEF Steps
  <2> HIDE DEF a
  <2> QED
    BY <2>1, <2>3, <2>4, OperateInOrder
<1>2. CASE XCopy(th)
  <2> DEFINE a == CopyFrom(p, PoolOf(Asked(th)), PoolOf(Found(th)))
  <2>1. OperateShadowedOn("cache", th, "x_copy", a, "x_remove", "unlock")
    BY <1>2 DEF XCopy, OperateShadowed
  <2>2. thread[th].at = "x_copy"
    BY <2>1 DEF OperateShadowedOn, At
  <2>3. GoesOn(build, o, op, "x_remove", Found(th), a)
    BY <2>2, CallFacts, PoolFacts, XCopyGoesOn, BusyFacts
  <2>4. "x_copy" \in Steps /\ "x_remove" \in Steps
    BY DEF Steps
  <2> HIDE DEF a
  <2> QED
    BY <2>1, <2>3, <2>4, OperateInOrder
<1>3. CASE XRemove(th)
  <2> DEFINE a == Remove(p, PoolOf(Found(th)))
  <2>1. OperateOn("cache", th, "x_remove", a, "x_dummy", "unlock")
    BY <1>3 DEF XRemove, Operate
  <2>2. thread[th].at = "x_remove"
    BY <2>1 DEF OperateOn, At
  <2>3. GoesOn(build, o, op, "x_dummy", Found(th), a)
    BY <2>2, CallFacts, PoolFacts, XRemoveGoesOn, BusyFacts
  <2>4. "x_remove" \in Steps /\ "x_dummy" \in Steps
    BY DEF Steps
  <2> HIDE DEF a
  <2> QED
    BY <2>1, <2>3, <2>4, OperateInOrder
<1>4. CASE XDummy(th)
  <2> DEFINE a == WriteFull(p, "cache", Empty)
  <2>1. OperateOn("cache", th, "x_dummy", a, "x_link", "finish")
    BY <1>4 DEF XDummy, Operate
  <2>2. thread[th].at = "x_dummy"
    BY <2>1 DEF OperateOn, At
  <2>3. GoesOn(build, o, op, "x_link", Found(th), a)
    BY <2>2, CallFacts, PoolFacts, XDummyGoesOn
  <2>4. "x_dummy" \in Steps /\ "x_link" \in Steps
    BY DEF Steps
  <2> HIDE DEF a
  <2> QED
    BY <2>1, <2>3, <2>4, OperateInOrder
<1>5. CASE XLink(th)
  <2> DEFINE a == SetRedirect(p, "cache", PoolOf(Asked(th)))
  <2>1. OperateOn("cache", th, "x_link", a, "unlock", "finish")
    BY <1>5 DEF XLink, Operate
  <2>2. thread[th].at = "x_link"
    BY <2>1 DEF OperateOn, At
  <2>3. GoesOn(build, o, op, "unlock", Found(th), a)
    BY <2>2, CallFacts, PoolFacts, XLinkGoesOn
  <2>4. "x_link" \in Steps /\ "unlock" \in Steps
    BY DEF Steps
  <2> HIDE DEF a
  <2> QED
    BY <2>1, <2>3, <2>4, OperateInOrder
<1> QED
  BY <1>1, <1>2, <1>3, <1>4, <1>5 DEF MoveAcross

\* Both builds: Read.
LEMMA ReadInOrder ==
  ASSUME TestTyped, NEW th \in Threads, Busy(th), build' = build,
         NEW base, base = BaseIn(build), ReadOn(base, th)
  PROVE  InOrder'
<1> DEFINE o == Obj(th)
           p == Place(th)
           op == thread[th].req.op
           a == IF Reached(p, base) = NoObject THEN Fails(p, "enoent") ELSE Ok(p, "none")
<1>1. OperateOn(base, th, "read", a, "finish", "finish")
  BY DEF ReadOn
<1>2. thread[th].at = "read"
  BY <1>1 DEF OperateOn, At
<1>3. Reached(p, base) # NoObject /\ GoesOn(build, o, op, "finish", Found(th), Ok(p, "none"))
  BY <1>2, CallFacts, ReadGoesOn
<1>4. a = Ok(p, "none")
  BY <1>3
<1>5. "read" \in Steps /\ "finish" \in Steps
  BY DEF Steps
<1> HIDE DEF a
<1>6. GoesOn(build, o, op, "finish", Found(th), a)
  BY <1>3, <1>4
<1> QED
  BY <1>1, <1>5, <1>6, OperateInOrder

\* Both builds: Lock, which nothing keeps from the lock, and Unlock.
LEMMA LockInOrder ==
  ASSUME TestTyped, NEW th \in Threads, Busy(th), build' = build,
         NEW base, base = BaseIn(build), LockOn(base, th)
  PROVE  InOrder'
<1> DEFINE a == Locking(Place(th), base)
           answers == {b \in Answers(th, a) : b.r # "canceled"}
<1>1. OperateAssertedOn(base, th, "lock", answers, "locate")
  BY DEF LockOn, Locking
<1>2. thread[th].at = "lock"
  BY <1>1 DEF OperateAssertedOn, At
<1>3. GoesOn(build, Obj(th), thread[th].req.op, "locate", Found(th), a)
  BY <1>2, CallFacts, LockGoesOn
<1> HIDE DEF a
<1>4. a.r = "ok"
  BY <1>3 DEF GoesOn
<1>5. answers = {a}
  BY <1>4, OnlyAnswer
<1>6. "lock" \in Steps /\ "locate" \in Steps
  BY DEF Steps
<1> HIDE DEF answers
<1> QED
  BY <1>1, <1>3, <1>5, <1>6, AssertedInOrder

\* Either build: Unlock.
LEMMA UnlockInOrder ==
  ASSUME TestTyped, NEW th \in Threads, Busy(th), build' = build,
         NEW base, base = BaseIn(build), UnlockOn(base, th)
  PROVE  InOrder'
<1> DEFINE a == Unlocking(Place(th), base)
           answers == Answers(th, a)
<1>1. \/ OperateAssertedOn(base, th, "unlock", answers, "finish")
      \/ OperateAssertedOn(base, th, "unlock_early", answers, "early")
  BY DEF UnlockOn, Unlocking
<1>2. thread[th].at # "unlock_early"
  BY CallFacts, RestShapes
<1>3. OperateAssertedOn(base, th, "unlock", answers, "finish")
  BY <1>1, <1>2 DEF OperateAssertedOn, At
<1>4. thread[th].at = "unlock"
  BY <1>3 DEF OperateAssertedOn, At
<1>5. GoesOn(build, Obj(th), thread[th].req.op, "finish", Found(th), a)
  BY <1>4, CallFacts, UnlockGoesOn
<1> HIDE DEF a
<1>6. answers = {a}
  BY OnlyAnswer
<1>7. "unlock" \in Steps /\ "finish" \in Steps
  BY DEF Steps
<1> HIDE DEF answers
<1> QED
  BY <1>3, <1>5, <1>6, <1>7, AssertedInOrder

\* Both builds: GetLocation, which finds the tier the object was created in.
LEMMA LocateInOrder ==
  ASSUME TestTyped, NEW th \in Threads, Busy(th), build' = build,
         NEW base, base = BaseIn(build), NEW next, LocateOn(base, th, next),
         LET o == Obj(th)
             from == Source(build, o)
             to == Goal(build, o)
             after == next[From(o)]
         IN  \/ after = "unlock" /\ From(o) = To(o)
             \/ after = "unlink" /\ from # base /\ to = base
             \/ after = "copy_down" /\ from = base /\ to # base
             \/ after = "x_unlink" /\ build = "default" /\ from # to /\ from # base /\ to # base
             \/ after = "hint" /\ build = "micro" /\ from = to
  PROVE  InOrder'
<1> DEFINE o == Obj(th)
           p == Place(th)
           op == thread[th].req.op
<1>1. thread[th].at = "locate"
  BY DEF LocateOn, At
<1>2. /\ build \in BuildNames /\ o \in Objects
      /\ Doing(build, o, op, "locate", Found(th), p)
  BY <1>1, CallFacts
<1>3. /\ op = "move" /\ p \in Places
      /\ Reached(p, base) # NoObject /\ Named(Reached(p, base).tier) = {From(o)}
  BY <1>2, LocateFinds
<1>4. PICK after : after = next[From(o)]
  OBVIOUS
<1>5. Doing(build, o, op, after, From(o), p)
  BY <1>2, <1>4, LocateGoesOn
<1>6. after \in Steps /\ after # "replace" /\ From(o) \in Tiers
  BY <1>2, <1>4, RouteFacts DEF Steps
<1>7. bounds.faults = 0
  BY DEF TestTyped
<1> DEFINE object == Reached(p, base)
           tiers == IF object = NoObject THEN {} ELSE Named(object.tier)
<1>8. PICK tier \in {From(o)} :
         /\ thread' = [thread EXCEPT ![th] = [@ EXCEPT !.at = next[tier], !.tier = tier]]
         /\ UNCHANGED <<store, current, status, bounds>>
  <2>1. \/ /\ \E tier \in tiers :
                 thread' = [thread EXCEPT ![th] = [@ EXCEPT !.at = next[tier], !.tier = tier]]
           /\ UNCHANGED <<store, current, status, bounds>>
        \/ tiers = {}
        \/ bounds.faults > 0
    BY DEF LocateOn
  <2>2. tiers = {From(o)}
    BY <1>3
  <2> HIDE DEF tiers
  <2> QED
    BY <1>7, <2>1, <2>2
<1>9. thread[th] \in Underway
  BY BusyFacts
<1>10. PICK new \in Underway : /\ new.at = after /\ new.tier = From(o)
                               /\ new.req = thread[th].req
                               /\ thread' = [thread EXCEPT ![th] = new]
  <2>1. tier = From(o) /\ next[tier] = after
    BY <1>3, <1>4
  <2> QED
    BY <1>6, <1>8, <1>9, <2>1 DEF Underway
<1>11. store' = [store EXCEPT ![o] = p]
  BY <1>2, <1>8 DEF TestTyped, Place
<1>12. Advances(th, after, From(o), p)
  BY <1>8, <1>10, <1>11 DEF Advances, TestTyped
<1> QED
  BY <1>3, <1>5, <1>6, <1>12, Onward

\* Both builds: from the base pool down.  The version of the copy is known, and
\* nobody writes before it is used.
LEMMA CopyDownInOrder ==
  ASSUME TestTyped, NEW th \in Threads, Busy(th), build' = build,
         NEW base, base = BaseIn(build), NEW pool, pool = Goal(build, Obj(th)),
         CopyDownOn(base, th, pool)
  PROVE  InOrder'
<1> DEFINE o == Obj(th)
           p == Place(th)
           op == thread[th].req.op
           a == CopyFrom(p, pool, base)
<1>1. thread[th].at = "copy_down"
  BY DEF CopyDownOn, At
<1>2. GoesOn(build, o, op, "replace", Found(th), a) /\ Target(p, base) = base
  BY <1>1, CallFacts, CopyDownGoesOn
<1> HIDE DEF a
<1>3. /\ a.r = "ok" /\ a.p \in Places /\ Doing(build, o, op, "replace", Found(th), a.p)
  BY <1>2 DEF GoesOn
<1>4. Answers(th, a) = {a}
  BY OnlyAnswer
<1>5. /\ store' = [store EXCEPT ![o] = a.p] /\ bounds' = bounds /\ status' = status
      /\ th \in current' /\ Goto(th, "replace")
  BY <1>2, <1>3, <1>4 DEF CopyDownOn, a
<1>6. thread[th].at # "idle" /\ "replace" \in Steps /\ Found(th) \in Tiers
  BY <1>1, BusyFacts DEF Steps
<1>7. Advances(th, "replace", Found(th), a.p)
  BY <1>5, <1>6, Going DEF Advances
<1> QED
  BY <1>3, <1>5, <1>6, <1>7, Onward

\* Either build: the end of a move down.
LEMMA ReplaceInOrder ==
  ASSUME TestTyped, NEW th \in Threads, Busy(th), build' = build,
         NEW base, base = BaseIn(build), NEW pool, pool = Goal(build, Obj(th)),
         NEW name \in TierNames,
         OperateShadowedOn(base, th, "replace",
                           SetRedirectIf(Place(th), base, th \in current, pool, name),
                           "unlock", "copy_down")
  PROVE  InOrder'
<1> DEFINE o == Obj(th)
           p == Place(th)
           op == thread[th].req.op
           a == SetRedirectIf(p, base, th \in current, pool, name)
<1>1. thread[th].at = "replace"
  BY DEF OperateShadowedOn, At
<1>2. th \in current
  BY <1>1, BusyFacts
<1>3. a = Replacing(p, base, pool, name)
  BY <1>2 DEF SetRedirectIf, Replacing
<1>4. OperateShadowedOn(base, th, "replace", a, "unlock", "copy_down")
  OBVIOUS
<1> HIDE DEF a
<1>5. GoesOn(build, o, op, "unlock", Found(th), a)
  BY <1>1, <1>3, CallFacts, ReplaceGoesOn
<1>6. "replace" \in Steps /\ "unlock" \in Steps
  BY DEF Steps
<1> QED
  BY <1>4, <1>5, <1>6, OperateInOrder

\* Both builds: the second remove of Delete.
LEMMA RmSelfInOrder ==
  ASSUME TestTyped, NEW th \in Threads, Busy(th), build' = build,
         NEW base, base = BaseIn(build), thread[th].at = "rm_self", NEW answer,
         answer = IF build = "default" THEN RemoveAt(Place(th), base) ELSE Remove(Place(th), base),
         \E a \in Answers(th, answer) :
            /\ TakesOn(base, th, a)
            /\ GotoWith(th, "finish", IF a.r = "enoent" THEN "ok" ELSE a.r),
         status' = status
  PROVE  InOrder'
<1> DEFINE o == Obj(th)
           op == thread[th].req.op
<1>1. /\ answer.r \in {"ok", "enoent"} /\ answer.p \in Places
      /\ Doing(build, o, op, "finish", Found(th), answer.p)
  BY CallFacts, RmSelfGoesOn
<1>2. TakesOn(base, th, answer) /\ GotoWith(th, "finish", "ok")
  <2>1. Answers(th, answer) = {answer}
    BY OnlyAnswer
  <2> QED
    BY <1>1, <2>1
<1>3. store' = [store EXCEPT ![o] = answer.p] /\ bounds' = bounds
  BY <1>1, <1>2 DEF TakesOn
<1>4. "finish" \in Steps /\ Found(th) \in Tiers
  BY BusyFacts DEF Steps
<1>5. Advances(th, "finish", Found(th), answer.p)
  BY <1>2, <1>3, <1>4, Going DEF Advances
<1> QED
  BY <1>1, <1>4, <1>5, Onward

\* Move from the fast tier down.
LEMMA MoveDownInOrder ==
  ASSUME TestTyped, NEW th \in Threads, Busy(th), build' = build, build = "default",
         MoveDown(th)
  PROVE  InOrder'
<1> DEFINE o == Obj(th)
           p == Place(th)
           op == thread[th].req.op
<1>1. CASE CopyDown(th)
  <2>1. CopyDownOn("cache", th, PoolOf(Asked(th)))
    BY <1>1 DEF CopyDown
  <2>2. thread[th].at = "copy_down"
    BY <2>1 DEF CopyDownOn, At
  <2>3. PICK pool : pool = PoolOf(Asked(th))
    OBVIOUS
  <2>4. "cache" = BaseIn(build) /\ pool = Goal(build, o) /\ CopyDownOn("cache", th, pool)
    BY <2>1, <2>2, <2>3, CallFacts, PoolFacts
  <2> QED
    BY <2>4, CopyDownInOrder
<1>2. CASE Replace(th)
  <2>1. PICK pool, name : /\ pool = PoolOf(Asked(th))
                          /\ name = IF Asked(th) = "SLOW" THEN "storage" ELSE "archive"
    OBVIOUS
  <2>2. OperateShadowedOn("cache", th, "replace",
                          SetRedirectIf(Place(th), "cache", th \in current, pool, name),
                          "unlock", "copy_down")
    BY <1>2, <2>1 DEF Replace, OperateShadowed
  <2>3. thread[th].at = "replace"
    BY <2>2 DEF OperateShadowedOn, At
  <2>4. "cache" = BaseIn(build) /\ pool = Goal(build, o) /\ name \in TierNames
    BY <2>1, <2>3, CallFacts, PoolFacts DEF TierNames
  <2> QED
    BY <2>2, <2>4, ReplaceInOrder
<1> QED
  BY <1>1, <1>2 DEF MoveDown

\* GetLocation.
LEMMA DefaultLocateInOrder ==
  ASSUME TestTyped, NEW th \in Threads, Busy(th), build' = build, build = "default",
         Locate(th)
  PROVE  InOrder'
<1> DEFINE o == Obj(th)
           p == Place(th)
           op == thread[th].req.op
<1> DEFINE next == [tier \in Tiers |-> IF tier = Asked(th) THEN "unlock"
                                        ELSE IF Asked(th) = "FAST" THEN "unlink"
                                        ELSE IF tier = "FAST" THEN "copy_down"
                                        ELSE "x_unlink"]
           from == Source(build, o)
           to == Goal(build, o)
<1>1. LocateOn("cache", th, next)
  BY DEF Locate
<1>2. thread[th].at = "locate"
  BY <1>1 DEF LocateOn, At
<1>3. /\ build \in BuildNames /\ o \in Objects /\ Asked(th) = To(o) /\ "cache" = BaseIn(build)
      /\ From(o) \in Tiers /\ To(o) \in Tiers
  BY <1>2, CallFacts, PoolFacts, RouteFacts
<1>4. /\ from = "cache" <=> From(o) = "FAST"
      /\ to = "cache" <=> To(o) = "FAST"
      /\ From(o) # To(o) => from # to
  BY <1>3, PoolFacts DEF Source, Goal
<1>5. next[From(o)] = IF From(o) = To(o) THEN "unlock"
                      ELSE IF To(o) = "FAST" THEN "unlink"
                      ELSE IF From(o) = "FAST" THEN "copy_down"
                      ELSE "x_unlink"
  BY <1>3
<1> HIDE DEF next
<1> QED
  BY <1>1, <1>3, <1>4, <1>5, LocateInOrder

\* Delete.
LEMMA DeleteInOrder ==
  ASSUME TestTyped, NEW th \in Threads, Busy(th), build' = build, build = "default",
         Delete(th)
  PROVE  InOrder'
<1> DEFINE o == Obj(th)
           p == Place(th)
           op == thread[th].req.op
<1>1. CASE RmTarget(th)
  <2> DEFINE a == Remove(p, "cache")
  <2>1. OperateOn("cache", th, "rm_target", a, "rm_self", "early")
    BY <1>1 DEF RmTarget, Operate
  <2>2. thread[th].at = "rm_target"
    BY <2>1 DEF OperateOn, At
  <2>3. /\ build \in BuildNames /\ o \in Objects /\ BaseIn(build) = "cache"
        /\ Doing(build, o, op, "rm_target", Found(th), p)
    BY <2>2, CallFacts DEF BaseIn
  <2>4. GoesOn(build, o, op, "rm_self", Found(th), a)
    BY <2>3, RmTargetGoesOn
  <2>5. "rm_target" \in Steps /\ "rm_self" \in Steps
    BY DEF Steps
  <2> HIDE DEF a
  <2> QED
    BY <2>1, <2>4, <2>5, OperateInOrder
<1>2. CASE RmSelf(th)
  <2>1. PICK answer : answer = RemoveAt(p, "cache")
    OBVIOUS
  <2>2. /\ thread[th].at = "rm_self" /\ status' = status
        /\ \E a \in Answers(th, answer) :
              /\ TakesOn("cache", th, a)
              /\ GotoWith(th, "finish", IF a.r = "enoent" THEN "ok" ELSE a.r)
    BY <1>2, <2>1 DEF RmSelf, At, Takes
  <2>3. "cache" = BaseIn(build)
    BY DEF BaseIn
  <2> QED
    BY <2>1, <2>2, <2>3, RmSelfInOrder
<1> QED
  BY <1>1, <1>2 DEF Delete

\* Every step of the default build before the end of a call.
LEMMA ServeInOrder ==
  ASSUME TestTyped, NEW th \in Threads, Busy(th), build' = build, build = "default",
         Serve(th)
  PROVE  InOrder'
<1> DEFINE o == Obj(th)
           p == Place(th)
           op == thread[th].req.op
<1>1. "cache" = BaseIn(build)
  BY DEF BaseIn
<1>2. CASE Create(th)
  BY <1>2, CreateInOrder
<1>3. CASE Read(th)
  BY <1>1, <1>3, ReadInOrder DEF Read
<1>4. CASE Lock(th)
  BY <1>1, <1>4, LockInOrder DEF Lock
<1>5. CASE Unlock(th)
  BY <1>1, <1>5, UnlockInOrder DEF Unlock
<1>6. CASE Locate(th)
  BY <1>6, DefaultLocateInOrder
<1>7. CASE MoveUp(th)
  BY <1>7, MoveUpInOrder
<1>8. CASE MoveDown(th)
  BY <1>8, MoveDownInOrder
<1>9. CASE MoveAcross(th)
  BY <1>9, MoveAcrossInOrder
<1>10. CASE Delete(th)
  BY <1>10, DeleteInOrder
<1> QED
  BY <1>1, <1>2, <1>3, <1>4, <1>5, <1>6, <1>7, <1>8, <1>9, <1>10 DEF Serve

\* With micro tiering an object outside the base pool is in the archive.
LEMMA MicroSource ==
  ASSUME NEW b \in BuildNames, b # "default", NEW o \in Objects, NEW op, NEW at, NEW found, NEW p,
         Doing(b, o, op, at, found, p), at \in {"link", "promote", "rm_source"}
  PROVE  Source(b, o) = "archive"
<1>1. Source(b, o) # BaseIn(b)
  BY DEF Doing, Creating, Moving, Upward, Downward, Across, Reading, Deleting
<1> QED
  BY <1>1, RouteFacts, PoolFacts DEF Source

\* With micro tiering only the archive is below the base pool.
LEMMA MicroGoal ==
  ASSUME TestTyped, NEW th \in Threads, Busy(th), build # "default",
         thread[th].at \in {"copy_down", "replace"}
  PROVE  Goal(build, Obj(th)) = "archive"
<1>1. /\ build \in BuildNames /\ Obj(th) \in Objects
      /\ Goal(build, Obj(th)) # BaseIn(build)
  BY CallFacts DEF Doing, Creating, Moving, Upward, Downward, Across, Reading, Deleting
<1> QED
  BY <1>1, RouteFacts, PoolFacts DEF Goal

\* With micro tiering: Create.
LEMMA MicroCreateInOrder ==
  ASSUME TestTyped, NEW th \in Threads, Busy(th), build' = build, build # "default",
         MicroCreate(th)
  PROVE  InOrder'
<1> DEFINE o == Obj(th)
           p == Place(th)
           op == thread[th].req.op
<1>1. CASE MicroWrite(th)
  <2> DEFINE a == WriteFullTier(p, MicroPool(Asked(th)), thread[th].req.data, NameOf(Asked(th)))
  <2>1. OperateOn("storage", th, "write", a,
                  IF Asked(th) = "ARCHIVE" THEN "dummy" ELSE "finish", "finish")
    BY <1>1 DEF MicroWrite
  <2>2. thread[th].at = "write"
    BY <2>1 DEF OperateOn, At
  <2>3. /\ BaseIn(build) = "storage" /\ MicroPool(Asked(th)) = Source(build, o)
        /\ Source(build, o) # BaseIn(build) <=> Asked(th) = "ARCHIVE"
        /\ Asked(th) = From(o) /\ thread[th].req.data = InitialData
        /\ Doing(build, o, op, "write", Found(th), p) /\ o \in Objects /\ build \in BuildNames
    BY <2>2, CallFacts, PoolFacts
  <2>4. a = WriteFullTier(p, Source(build, o), InitialData, NameOf(From(o)))
    BY <2>3
  <2> HIDE DEF a
  <2>5. PICK after \in {"finish", "dummy"} :
           after = IF Asked(th) = "ARCHIVE" THEN "dummy" ELSE "finish"
    OBVIOUS
  <2>6. GoesOn(build, o, op, after, Found(th), a)
    BY <2>3, <2>4, <2>5, WriteGoesOn
  <2>7. "write" \in Steps /\ after \in Steps /\ after # "replace"
    BY DEF Steps
  <2>8. OperateOn("storage", th, "write", a, after, "finish")
    BY <2>1, <2>5
  <2> QED
    BY <2>6, <2>7, <2>8, OperateInOrder
<1>2. CASE MicroDummy(th)
  <2> DEFINE a == WriteFull(p, "storage", Empty)
  <2>1. OperateOn("storage", th, "dummy", a, "link", "finish")
    BY <1>2 DEF MicroDummy
  <2>2. thread[th].at = "dummy"
    BY <2>1 DEF OperateOn, At
  <2>3. GoesOn(build, o, op, "link", Found(th), a)
    BY <2>2, CallFacts, PoolFacts, DummyGoesOn
  <2>4. "dummy" \in Steps /\ "link" \in Steps
    BY DEF Steps
  <2> HIDE DEF a
  <2> QED
    BY <2>1, <2>3, <2>4, OperateInOrder
<1>3. CASE MicroLink(th)
  <2> DEFINE a == SetRedirect(p, "storage", "archive")
  <2>1. OperateOn("storage", th, "link", a, "finish", "finish")
    BY <1>3 DEF MicroLink
  <2>2. thread[th].at = "link"
    BY <2>1 DEF OperateOn, At
  <2>3. /\ build \in BuildNames /\ o \in Objects /\ BaseIn(build) = "storage"
        /\ Doing(build, o, op, "link", Found(th), p)
    BY <2>2, CallFacts DEF BaseIn
  <2>4. Source(build, o) = "archive"
    BY <2>3, MicroSource
  <2>5. GoesOn(build, o, op, "finish", Found(th), a)
    BY <2>3, <2>4, LinkGoesOn
  <2>6. "link" \in Steps /\ "finish" \in Steps
    BY DEF Steps
  <2> HIDE DEF a
  <2> QED
    BY <2>1, <2>5, <2>6, OperateInOrder
<1> QED
  BY <1>1, <1>2, <1>3 DEF MicroCreate

\* With micro tiering: GetLocation.
LEMMA MicroLocateInOrder ==
  ASSUME TestTyped, NEW th \in Threads, Busy(th), build' = build, build # "default",
         MicroLocate(th)
  PROVE  InOrder'
<1> DEFINE o == Obj(th)
           p == Place(th)
           op == thread[th].req.op
<1> DEFINE next == [tier \in Tiers |-> IF tier = Asked(th) THEN "unlock"
                                        ELSE IF Asked(th) = "ARCHIVE" THEN "copy_down"
                                        ELSE IF tier = "ARCHIVE" THEN "unlink"
                                        ELSE "hint"]
           from == Source(build, o)
           to == Goal(build, o)
<1>1. LocateOn("storage", th, next)
  BY DEF MicroLocate
<1>2. thread[th].at = "locate"
  BY <1>1 DEF LocateOn, At
<1>3. /\ build \in BuildNames /\ build = "micro" /\ o \in Objects /\ Asked(th) = To(o)
      /\ "storage" = BaseIn(build) /\ From(o) \in Tiers /\ To(o) \in Tiers
  BY <1>2, CallFacts, PoolFacts, RouteFacts DEF BuildNames
<1>4. /\ from # "storage" <=> From(o) = "ARCHIVE"
      /\ to # "storage" <=> To(o) = "ARCHIVE"
  BY <1>3, PoolFacts DEF Source, Goal
<1>5. next[From(o)] = IF From(o) = To(o) THEN "unlock"
                      ELSE IF To(o) = "ARCHIVE" THEN "copy_down"
                      ELSE IF From(o) = "ARCHIVE" THEN "unlink"
                      ELSE "hint"
  BY <1>3
<1> HIDE DEF next
<1> QED
  BY <1>1, <1>3, <1>4, <1>5, LocateInOrder

\* With micro tiering: Move, and its ways from the archive, to it and from one device to
\* the other.
LEMMA MicroMoveInOrder ==
  ASSUME TestTyped, NEW th \in Threads, Busy(th), build' = build, build # "default",
         MicroMove(th)
  PROVE  InOrder'
<1> DEFINE o == Obj(th)
           p == Place(th)
           op == thread[th].req.op
<1>1. "storage" = BaseIn(build)
  BY DEF BaseIn
<1>2. CASE MicroUnlink(th)
  <2> DEFINE a == RemoveAt(p, "storage")
  <2>1. OperateOn("storage", th, "unlink", a, "promote", "unlock_early")
    BY <1>2 DEF MicroUnlink
  <2>2. thread[th].at = "unlink"
    BY <2>1 DEF OperateOn, At
  <2>3. GoesOn(build, o, op, "promote", Found(th), a)
    BY <2>2, CallFacts, PoolFacts, UnlinkGoesOn
  <2>4. "unlink" \in Steps /\ "promote" \in Steps
    BY DEF Steps
  <2> HIDE DEF a
  <2> QED
    BY <2>1, <2>3, <2>4, OperateInOrder
<1>3. CASE MicroPromote(th)
  <2> DEFINE a == CopyFromTier(p, "storage", "archive", NameOf(Asked(th)))
  <2>1. OperateOn("storage", th, "promote", a, "rm_source", "unlock")
    BY <1>3 DEF MicroPromote
  <2>2. thread[th].at = "promote"
    BY <2>1 DEF OperateOn, At
  <2>3. GoesOn(build, o, op, "rm_source", Found(th), a)
    BY <2>2, CallFacts, PoolFacts, PromoteGoesOn, BusyFacts, MicroSource, RouteFacts
  <2>4. "promote" \in Steps /\ "rm_source" \in Steps
    BY DEF Steps
  <2> HIDE DEF a
  <2> QED
    BY <2>1, <2>3, <2>4, OperateInOrder
<1>4. CASE MicroRmSource(th)
  <2> DEFINE a == Remove(p, "archive")
  <2>1. OperateOn("storage", th, "rm_source", a, "unlock", "unlock")
    BY <1>4 DEF MicroRmSource
  <2>2. thread[th].at = "rm_source"
    BY <2>1 DEF OperateOn, At
  <2>3. GoesOn(build, o, op, "unlock", Found(th), a)
    BY <2>2, CallFacts, PoolFacts, RmSourceGoesOn, BusyFacts, MicroSource
  <2>4. "rm_source" \in Steps /\ "unlock" \in Steps
    BY DEF Steps
  <2> HIDE DEF a
  <2> QED
    BY <2>1, <2>3, <2>4, OperateInOrder
<1>5. CASE MicroHint(th)
  <2> DEFINE a == AllocHint(p, "storage")
  <2>1. OperateOn("storage", th, "hint", a, "unlock", "unlock")
    BY <1>5 DEF MicroHint
  <2>2. thread[th].at = "hint"
    BY <2>1 DEF OperateOn, At
  <2>3. GoesOn(build, o, op, "unlock", Found(th), a)
    BY <2>2, CallFacts, PoolFacts, HintGoesOn
  <2>4. "hint" \in Steps /\ "unlock" \in Steps
    BY DEF Steps
  <2> HIDE DEF a
  <2> QED
    BY <2>1, <2>3, <2>4, OperateInOrder
<1>6. CASE MicroCopyDown(th)
  <2>1. CopyDownOn("storage", th, "archive")
    BY <1>6 DEF MicroCopyDown
  <2>2. thread[th].at = "copy_down"
    BY <2>1 DEF CopyDownOn, At
  <2>3. "archive" = Goal(build, o)
    BY <2>2, MicroGoal
  <2> QED
    BY <1>1, <2>1, <2>3, CopyDownInOrder
<1>7. CASE MicroReplace(th)
  <2>1. OperateShadowedOn("storage", th, "replace",
                          SetRedirectIf(Place(th), "storage", th \in current, "archive",
                                        "archive"),
                          "unlock", "copy_down")
    BY <1>7 DEF MicroReplace
  <2>2. thread[th].at = "replace"
    BY <2>1 DEF OperateShadowedOn, At
  <2>3. "archive" = Goal(build, o) /\ "archive" \in TierNames
    BY <2>2, MicroGoal DEF TierNames
  <2> QED
    BY <1>1, <2>1, <2>3, ReplaceInOrder
<1>8. CASE LockOn("storage", th)
  BY <1>1, <1>8, LockInOrder
<1>9. CASE UnlockOn("storage", th)
  BY <1>1, <1>9, UnlockInOrder
<1>10. CASE MicroLocate(th)
  BY <1>10, MicroLocateInOrder
<1> QED
  BY <1>1, <1>2, <1>3, <1>4, <1>5, <1>6, <1>7, <1>8, <1>9, <1>10 DEF MicroMove

\* With micro tiering: Delete.
LEMMA MicroDeleteInOrder ==
  ASSUME TestTyped, NEW th \in Threads, Busy(th), build' = build, build # "default",
         MicroDelete(th)
  PROVE  InOrder'
<1> DEFINE o == Obj(th)
           p == Place(th)
           op == thread[th].req.op
<1>1. CASE MicroRmTarget(th)
  <2> DEFINE a == Remove(p, "storage")
  <2>1. OperateOn("storage", th, "rm_target", a, "rm_self", "early")
    BY <1>1 DEF MicroRmTarget
  <2>2. thread[th].at = "rm_target"
    BY <2>1 DEF OperateOn, At
  <2>3. /\ build \in BuildNames /\ o \in Objects /\ BaseIn(build) = "storage"
        /\ Doing(build, o, op, "rm_target", Found(th), p)
    BY <2>2, CallFacts DEF BaseIn
  <2>4. GoesOn(build, o, op, "rm_self", Found(th), a)
    BY <2>3, RmTargetGoesOn
  <2>5. "rm_target" \in Steps /\ "rm_self" \in Steps
    BY DEF Steps
  <2> HIDE DEF a
  <2> QED
    BY <2>1, <2>4, <2>5, OperateInOrder
<1>2. CASE MicroRmSelf(th)
  <2>1. PICK answer : answer = Remove(p, "storage")
    OBVIOUS
  <2>2. /\ thread[th].at = "rm_self" /\ status' = status
        /\ \E a \in Answers(th, answer) :
              /\ TakesOn("storage", th, a)
              /\ GotoWith(th, "finish", IF a.r = "enoent" THEN "ok" ELSE a.r)
    BY <1>2, <2>1 DEF MicroRmSelf, At
  <2>3. "storage" = BaseIn(build)
    BY DEF BaseIn
  <2> QED
    BY <2>1, <2>2, <2>3, RmSelfInOrder
<1> QED
  BY <1>1, <1>2 DEF MicroDelete

\* Every step of either build before the end of a call.
LEMMA StepInOrder ==
  ASSUME TestTyped, NEW th \in Threads, Busy(th), BuildWork(th), ~ End(th)
  PROVE  InOrder'
<1>1. build' = build
  BY DEF BuildWork
<1>2. CASE build = "default"
  BY <1>1, <1>2, ServeInOrder DEF BuildWork, Work
<1>3. CASE build # "default"
  <2>1. /\ \/ MicroCreate(th) \/ ReadOn("storage", th) \/ MicroMove(th) \/ MicroDelete(th)
        /\ "storage" = BaseIn(build)
    BY <1>3 DEF BuildWork, MicroWork, BaseIn
  <2>2. CASE MicroCreate(th)
    BY <1>1, <1>3, <2>2, MicroCreateInOrder
  <2>3. CASE ReadOn("storage", th)
    BY <1>1, <2>1, <2>3, ReadInOrder
  <2>4. CASE MicroMove(th)
    BY <1>1, <1>3, <2>4, MicroMoveInOrder
  <2>5. CASE MicroDelete(th)
    BY <1>1, <1>3, <2>5, MicroDeleteInOrder
  <2> QED
    BY <2>1, <2>2, <2>3, <2>4, <2>5
<1> QED
  BY <1>2, <1>3

\* A thread without a call does nothing.
LEMMA IdleRests ==
  ASSUME NEW th, BuildWork(th)
  PROVE  thread[th].at # "idle"
<1>1. CASE Work(th)
  BY <1>1 DEF Work, Serve, Create, Write, Dummy, Link, Read, ReadOn, Lock, LockOn, Unlock, UnlockOn,
         Locate, LocateOn, MoveUp, Unlink, Promote, RmSource, MoveDown, CopyDown, CopyDownOn,
         Replace, MoveAcross, XUnlink, XCopy, XRemove, XDummy, XLink, Delete, RmTarget, RmSelf,
         End, Operate, OperateShadowed, OperateOn, OperateShadowedOn, OperateAssertedOn, At
<1>2. CASE MicroWork(th)
  BY <1>2 DEF MicroWork, MicroCreate, MicroWrite, MicroDummy, MicroLink, ReadOn, MicroMove,
         LockOn, UnlockOn, MicroLocate, LocateOn, MicroUnlink, MicroPromote, MicroRmSource,
         MicroHint, MicroCopyDown, CopyDownOn, MicroReplace, MicroDelete, MicroRmTarget,
         MicroRmSelf, End, OperateOn, OperateShadowedOn, OperateAssertedOn, At
<1> QED
  BY <1>1, <1>2 DEF BuildWork

\* What a call that has ended leaves is what is due.
LEMMA FinishLeaves ==
  ASSUME TestTyped, NEW th \in Threads, Busy(th), End(th)
  PROVE  Left(build, Obj(th), Due(Obj(th), Calls), Place(th))
<1> DEFINE o == Obj(th)
           p == Place(th)
           op == thread[th].req.op
<1>1. /\ build \in BuildNames /\ Calls \in 1 .. Len(Program)
      /\ Doing(build, o, op, thread[th].at, Found(th), p)
  BY BusyFacts
<1>2. thread[th].at = "finish"
  BY <1>1, RestShapes DEF End, At
<1>3. /\ op = "create" => Due(o, Calls) = "create"
      /\ op = "move" => Due(o, Calls) = "move"
      /\ op = "read" => Due(o, Calls) = "move"
      /\ op = "delete" => Due(o, Calls) = "delete"
  BY <1>1, Schedule DEF Busy, Obj
<1>4. InitialData \in Values
  BY ObjectMoverAssumption
<1>5. CASE op = "create"
  <2>1. Made(build, o, p, "free")
    BY <1>1, <1>2, <1>5 DEF Doing, Creating
  <2> QED
    BY <1>3, <1>5, <2>1 DEF Left
<1>6. CASE op = "move"
  <2>1. Placed(build, o, p, InitialData, "free")
    BY <1>1, <1>2, <1>6 DEF Doing, Moving, Upward, Downward, Across
  <2> QED
    BY <1>3, <1>4, <1>6, <2>1 DEF Left
<1>7. CASE op = "read"
  <2>1. \E data \in Values : Placed(build, o, p, data, "free")
    BY <1>1, <1>2, <1>7 DEF Doing, Reading
  <2> QED
    BY <1>3, <1>7, <2>1 DEF Left
<1>8. CASE op = "delete"
  <2>1. Removed(build, o, p)
    BY <1>1, <1>2, <1>8 DEF Doing, Deleting
  <2> QED
    BY <1>3, <1>8, <2>1 DEF Left
<1> QED
  BY <1>1, <1>5, <1>6, <1>7, <1>8 DEF Doing

\* The end of a call.
LEMMA EndInOrder ==
  ASSUME TestTyped, NEW th \in Threads, Busy(th), End(th), build' = build
  PROVE  InOrder'
<1>1. Obj(th) \in Objects
  BY BusyFacts
<1>2. /\ thread' = [thread EXCEPT ![th] = IdleThread]
      /\ store' = store /\ bounds' = bounds /\ status' = status
  BY DEF End
<1>3. Program' = Program /\ Calls' = Calls
  BY <1>2 DEF Program, Calls
<1>4. TestTyped'
  BY <1>2, <1>3 DEF TestTyped, Calls
<1>5. \A u \in Threads : thread'[u].at = "idle"
  BY <1>2 DEF TestTyped, Busy, IdleThread
<1>6. \A o \in Objects : Left(build, o, Due(o, Calls), store[o])
  BY <1>1, FinishLeaves DEF Busy, Place
<1>7. Idle'
  BY <1>2, <1>3, <1>5, <1>6 DEF Idle, AllIdle, At
<1> QED
  BY <1>4, <1>7 DEF InOrder

\* At the start nothing has been called.
LEMMA InOrderInit ==
  ASSUME MaxFaults = 0, InitialTiers = {"none"}, BuildInit
  PROVE  InOrder
<1>1. MaxOps = 34 /\ Len(Program) \in Nat
  <2>1. build \in BuildNames
    BY DEF BuildInit
  <2> QED
    BY <2>1, ProgramCalls
<1>2. bounds = [ops |-> MaxOps, writes |-> MaxWrites, faults |-> 0, crashes |-> MaxCrashes]
  BY DEF BuildInit, AtRest
<1>3. Calls = 0
  BY <1>1, <1>2 DEF Calls
<1>4. \A o \in Objects : store[o] = Nowhere
  BY DEF BuildInit
<1>5. Nowhere \in Places /\ store \in [Objects -> Places]
  <2>1. Nowhere \in Places
    BY DEF Nowhere, Places
  <2> QED
    BY <1>4, <2>1 DEF BuildInit
<1>6. TestTyped
  <2>1. /\ thread \in [Threads -> Underway \cup {IdleThread}]
        /\ build \in BuildNames /\ status = "up"
    BY DEF BuildInit, AtRest
  <2>2. bounds \in [ops : 0 .. MaxOps, writes : Nat, faults : {0}, crashes : Nat]
    BY <1>1, <1>2, ObjectMoverAssumption
  <2> QED
    BY <1>1, <1>3, <1>5, <2>1, <2>2 DEF TestTyped
<1>7. \A o \in Objects : Due(o, 0) = "none"
  BY TiersOfObjects DEF Due
<1>8. AllIdle
  BY DEF BuildInit, AtRest, AllIdle, At, IdleThread
<1>9. Idle
  BY <1>3, <1>4, <1>7, <1>8 DEF Idle, Left
<1> QED
  BY <1>6, <1>9 DEF InOrder

\* The calls made are counted.
LEMMA CallsCount ==
  ASSUME TestTyped
  PROVE  Calls \in Nat
<1>1. MaxOps = 34 /\ bounds.ops \in 0 .. MaxOps
  BY ProgramCalls DEF TestTyped
<1> QED
  BY <1>1 DEF Calls

\* A call finds its object as the calls before have left it.
LEMMA CallFinds ==
  ASSUME build \in BuildNames, NEW n \in 1 .. Len(Program), NEW p,
         Left(build, Program[n].obj, Due(Program[n].obj, n - 1), p)
  PROVE  Doing(build, Program[n].obj, Program[n].op, FirstStep(Program[n]), "FAST", p)
<1> DEFINE req == Program[n]
           o == req.obj
           b == build
<1>1. /\ req.op \in {"create", "move", "read", "delete"}
      /\ req.op = "create" => \/ Due(o, n - 1) = "none"
                              \/ b = "default" /\ Due(o, n - 1) = "delete"
      /\ req.op = "move" => Due(o, n - 1) = "create"
      /\ req.op \in {"read", "delete"} => Due(o, n - 1) = "move"
  BY Schedule DEF Request
<1> HIDE DEF req
<1>2. Left(b, o, Due(o, n - 1), p)
  BY DEF req
<1>3. CASE req.op = "create"
  <2>1. p = Nowhere
    <3>1. CASE Due(o, n - 1) = "none"
      BY <1>2, <3>1 DEF Left
    <3>2. CASE b = "default" /\ Due(o, n - 1) = "delete"
      <4>1. Shape(p, "cache", {}, "bare", InitialData, "free")
        BY <1>2, <3>2 DEF Left, Removed, BaseIn
      <4> QED
        BY <4>1, ShapeNowhere DEF Pools
    <3> QED
      BY <1>1, <1>3, <3>1, <3>2
  <2>2. FirstStep(req) = "write"
    BY <1>3 DEF FirstStep
  <2>3. Doing(b, o, req.op, FirstStep(req), "FAST", p)
    BY <1>3, <2>1, <2>2 DEF Doing, Creating
  <2> QED
    BY <2>3 DEF req
<1>4. CASE req.op = "move"
  <2>1. Made(b, o, p, "free")
    BY <1>1, <1>2, <1>4 DEF Left
  <2>2. FirstStep(req) = "lock"
    BY <1>4 DEF FirstStep
  <2>3. Doing(b, o, req.op, FirstStep(req), "FAST", p)
    BY <1>4, <2>1, <2>2 DEF Doing, Moving
  <2> QED
    BY <2>3 DEF req
<1>5. CASE req.op = "read"
  <2>1. \E data \in Values : Placed(b, o, p, data, "free")
    BY <1>1, <1>2, <1>5 DEF Left
  <2>2. FirstStep(req) = "read"
    BY <1>5 DEF FirstStep
  <2>3. Doing(b, o, req.op, FirstStep(req), "FAST", p)
    BY <1>5, <2>1, <2>2 DEF Doing, Reading
  <2> QED
    BY <2>3 DEF req
<1>6. CASE req.op = "delete"
  <2>1. \E data \in Values : Placed(b, o, p, data, "free")
    BY <1>1, <1>2, <1>6 DEF Left
  <2>2. FirstStep(req) = "rm_target"
    BY <1>6 DEF FirstStep
  <2>3. Doing(b, o, req.op, FirstStep(req), "FAST", p)
    BY <1>6, <2>1, <2>2 DEF Doing, Deleting
  <2> QED
    BY <2>3 DEF req
<1> QED
  BY <1>1, <1>3, <1>4, <1>5, <1>6

\* The next call of the program, on whichever thread.
LEMMA CallInOrder ==
  ASSUME TestTyped, Idle, Call, build' = build
  PROVE  InOrder'
<1> DEFINE n == Calls + 1
           req == Program[n]
<1>1. /\ MaxOps = 34 /\ Len(Program) \in Nat /\ build \in BuildNames
      /\ bounds \in [ops : 0 .. MaxOps, writes : Nat, faults : {0}, crashes : Nat]
  BY ProgramCalls DEF TestTyped
<1>2. n \in 1 .. Len(Program) /\ n - 1 = Calls
  <2>1. Calls \in Nat /\ Calls < Len(Program)
    BY CallsCount DEF Call
  <2> QED
    BY <1>1, <2>1
<1>3. PICK th \in Threads : Start(th, req)
  BY <1>2 DEF Call
<1>4. /\ req \in Request
      /\ \A other \in Objects \ {req.obj} : Due(other, n) = Due(other, Calls)
  BY <1>1, <1>2, Schedule
<1>5. req.obj \in Objects
  BY <1>4 DEF Request
<1>6. Doing(build, req.obj, req.op, FirstStep(req), "FAST", store[req.obj])
  <2>1. Left(build, req.obj, Due(req.obj, n - 1), store[req.obj])
    BY <1>2, <1>5 DEF Idle
  <2> QED
    BY <1>1, <1>2, <2>1, CallFinds
<1>7. Program' = Program
  BY DEF Program
<1> HIDE DEF req
<1>8. FirstStep(req) \in {"write", "lock", "read", "rm_target"}
  BY <1>4 DEF Request, FirstStep
<1>9. PICK new \in Underway : /\ new.at = FirstStep(req) /\ new.req = req
                              /\ new.tier = "FAST"
                              /\ thread' = [thread EXCEPT ![th] = new]
  <2>1. [at |-> FirstStep(req), req |-> req, tier |-> "FAST", r |-> "ok"] \in Underway
    BY <1>4, <1>8 DEF Underway, Steps, Tiers
  <2> QED
    BY <1>3, <2>1 DEF Start, Begin
<1>10. /\ store' = store /\ status' = status
       /\ bounds.ops > 0 /\ bounds' = [bounds EXCEPT !.ops = @ - 1]
  BY <1>3 DEF Start, Begin
<1>11. /\ Calls' = n
       /\ bounds' \in [ops : 0 .. MaxOps, writes : Nat, faults : {0}, crashes : Nat]
  <2>1. PICK k \in 1 .. 34 : bounds.ops = k
    BY <1>1, <1>10
  <2>2. bounds' = [bounds EXCEPT !.ops = k - 1] /\ k - 1 \in 0 .. MaxOps
    BY <1>1, <1>10, <2>1
  <2>3. /\ bounds'.ops = k - 1
        /\ bounds' \in [ops : 0 .. MaxOps, writes : Nat, faults : {0}, crashes : Nat]
    BY <1>1, <2>2
  <2>4. MaxOps - (k - 1) = MaxOps - k + 1
    BY <1>1
  <2> QED
    BY <2>1, <2>3, <2>4 DEF Calls
<1>12. /\ thread' \in [Threads -> Underway \cup {IdleThread}] /\ thread'[th] = new
       /\ \A u \in Threads \ {th} : thread'[u].at = "idle"
  BY <1>3, <1>9 DEF TestTyped, Idle, AllIdle, At
<1>13. TestTyped'
  <2>1. Calls' <= Len(Program')
    BY <1>2, <1>7, <1>11
  <2> QED
    BY <1>10, <1>11, <1>12, <2>1 DEF TestTyped
<1>14. /\ Obj(th)' = req.obj /\ Found(th)' = "FAST" /\ Place(th)' = store[req.obj]
       /\ thread'[th].at = FirstStep(req) /\ thread'[th].req = req
  BY <1>9, <1>10, <1>12 DEF Obj, Found, Place
<1>15. Program'[Calls'] = req
  BY <1>7, <1>11 DEF req
<1>16. Calls' >= 1
  BY <1>2, <1>11
<1>17. \A o \in Objects \ {req.obj} : Left(build', o, Due(o, Calls'), store'[o])
  BY <1>4, <1>10, <1>11 DEF Idle
<1>18. Doing(build', Obj(th)', thread'[th].req.op, thread'[th].at, Found(th)', Place(th)')
  BY <1>6, <1>14
<1>19. thread'[th].at # "idle" /\ thread'[th].at # "replace"
  BY <1>8, <1>14
<1>20. Busy(th)'
  BY <1>12, <1>14, <1>15, <1>16, <1>17, <1>18, <1>19 DEF Busy
<1> QED
  BY <1>13, <1>20 DEF InOrder

\* sample.cpp writes its object, which lies where it was moved.
LEMMA RewriteInOrder ==
  ASSUME TestTyped, Idle, Rewrite, build' = build
  PROVE  InOrder' /\ Calls' = 29 /\ Placed(build, Foo, store'[Foo], Rewritten, "free")
<1> DEFINE a == WriteFull(store[Foo], "cache", Rewritten)
<1>1. /\ build = "default" /\ build \in BuildNames /\ Calls = 29
      /\ bounds \in [ops : 0 .. MaxOps, writes : Nat, faults : {0}, crashes : Nat]
  <2>1. build = "default" /\ Calls = WritesAt
    BY DEF Rewrite, WriteDue
  <2>2. WritesAt = 29
    BY TestProgramCalls DEF WritesAt
  <2> QED
    BY <2>1, <2>2 DEF TestTyped
<1>2. /\ store' = [store EXCEPT ![Foo] = a.p] /\ bounds.writes > 0
      /\ bounds' = [bounds EXCEPT !.writes = @ - 1]
      /\ thread' = thread /\ status' = status
  BY DEF Rewrite, DirectWriteOn
<1>3. Foo \in Objects /\ Rewritten \in Values
  BY TestDriverAssumption
<1>4. Due(Foo, 29) = "move"
  BY DEF Due
<1>5. \E data \in Values : Placed(build, Foo, store[Foo], data, "free")
  BY <1>1, <1>3, <1>4 DEF Idle, Left
<1>6. a.p \in Places /\ Placed(build, Foo, a.p, Rewritten, "free")
  <2>1. PICK data \in Values : Lies(store[Foo], "cache", Goal(build, Foo), data, "free")
    BY <1>1, <1>5 DEF Placed, BaseIn
  <2>2. Goal(build, Foo) \in Pools /\ Goal(build, Foo) \in Lower \cup {"cache"}
    BY <1>1, <1>3, RouteFacts DEF BaseIn
  <2>3. Lies(a.p, "cache", Goal(build, Foo), Rewritten, "free")
    BY <1>3, <2>1, <2>2, NewData
  <2> QED
    BY <1>1, <2>3 DEF Placed, BaseIn, Lies, Shape
<1> HIDE DEF a
<1>7. /\ store' \in [Objects -> Places] /\ store'[Foo] = a.p
      /\ \A o \in Objects \ {Foo} : store'[o] = store[o]
  BY <1>2, <1>3, <1>6 DEF TestTyped
<1>8. /\ Calls' = Calls /\ Program' = Program
      /\ bounds' \in [ops : 0 .. MaxOps, writes : Nat, faults : {0}, crashes : Nat]
  BY <1>1, <1>2 DEF Calls, Program
<1>9. TestTyped'
  BY <1>2, <1>7, <1>8 DEF TestTyped
<1>10. Left(build, Foo, "move", a.p)
  BY <1>3, <1>6 DEF Left
<1>11. \A o \in Objects : Left(build, o, Due(o, Calls), store'[o])
  <2>1. \A o \in Objects \ {Foo} : Left(build, o, Due(o, Calls), store'[o])
    BY <1>7 DEF Idle
  <2> QED
    BY <1>1, <1>4, <1>7, <1>10, <2>1
<1>12. AllIdle'
  BY <1>2 DEF Idle, AllIdle, At
<1>13. Idle'
  BY <1>8, <1>11, <1>12 DEF Idle
<1>14. InOrder'
  BY <1>9, <1>13 DEF InOrder
<1> QED
  BY <1>1, <1>6, <1>7, <1>8, <1>14

\* Every step of the program.
LEMMA NextInOrder ==
  ASSUME InOrder, [TestNext]_buildVars
  PROVE  InOrder'
<1>1. TestTyped
  BY DEF InOrder
<1>2. CASE UNCHANGED buildVars
  <2>1. TestTyped' /\ Idle' = Idle
    BY <1>1, <1>2 DEF TestTyped, Calls, Program, Idle, AllIdle, At, buildVars, vars
  <2>2. \A th \in Threads : Busy(th) => Busy(th)'
    BY <1>2 DEF Busy, Calls, Program, Obj, Found, Place, buildVars, vars
  <2> QED
    BY <2>1, <2>2 DEF InOrder
<1>3. ASSUME NEW th \in Threads, BuildWork(th)
      PROVE  InOrder'
  <2>1. thread[th].at # "idle"
    BY <1>3, IdleRests
  <2>2. ~ Idle
    BY <2>1 DEF Idle, AllIdle, At
  <2>3. PICK u \in Threads : Busy(u)
    BY <2>2 DEF InOrder
  <2>4. u = th
    BY <2>1, <2>3 DEF Busy
  <2>5. Busy(th) /\ build' = build
    BY <1>3, <2>3, <2>4 DEF BuildWork
  <2>6. CASE End(th)
    BY <1>1, <2>5, <2>6, EndInOrder
  <2>7. CASE ~ End(th)
    BY <1>1, <1>3, <2>5, <2>7, StepInOrder
  <2> QED
    BY <2>6, <2>7
<1>4. CASE (Call \/ Rewrite) /\ UNCHANGED build
  <2>1. AllIdle
    BY <1>4 DEF Call, Rewrite
  <2>2. Idle
    BY <2>1 DEF InOrder, Busy, AllIdle, At
  <2> QED
    BY <1>1, <1>4, <2>2, CallInOrder, RewriteInOrder
<1> QED
  BY <1>2, <1>3, <1>4 DEF TestNext

-----------------------------------------------------------------------------
(* What sample.cpp finds of what it wrote.                                 *)

\* The write is made once, after Move, and what it wrote is where Move put it.
Written ==
    /\ Calls < 29 => bounds.writes > 0
    /\ (build = "default" /\ Calls = 29 /\ bounds.writes = 0) =>
          AllIdle /\ Placed(build, Foo, store[Foo], Rewritten, "free")

\* A step of a call uses up nothing but a failure of RADOS.
FaultsOnly == bounds' \in {bounds, [bounds EXCEPT !.faults = @ - 1]}

\* So do the operations on RADOS.
LEMMA OperationsTakeFaults ==
  /\ \A base, th, a : TakesOn(base, th, a) => FaultsOnly
  /\ \A r : AbortAfter(r) => FaultsOnly
  /\ \A base, th, step, answer, after, failed :
        /\ OperateOn(base, th, step, answer, after, failed) => FaultsOnly
        /\ OperateShadowedOn(base, th, step, answer, after, failed) => FaultsOnly
  /\ \A base, th, step, answers, after :
        OperateAssertedOn(base, th, step, answers, after) => FaultsOnly
  /\ \A base, th, next : LocateOn(base, th, next) => FaultsOnly
  /\ \A base, th, pool : CopyDownOn(base, th, pool) => FaultsOnly
<1>1. /\ \A base, th, a : TakesOn(base, th, a) => FaultsOnly
      /\ \A r : AbortAfter(r) => FaultsOnly
  BY DEF TakesOn, AbortAfter, FaultsOnly
<1>2. \A base, th, step, answer, after, failed :
        /\ OperateOn(base, th, step, answer, after, failed) => FaultsOnly
        /\ OperateShadowedOn(base, th, step, answer, after, failed) => FaultsOnly
  BY <1>1 DEF OperateOn, OperateShadowedOn
<1>3. \A base, th, step, answers, after :
        OperateAssertedOn(base, th, step, answers, after) => FaultsOnly
  BY <1>1 DEF OperateAssertedOn
<1>4. /\ \A base, th, next : LocateOn(base, th, next) => FaultsOnly
      /\ \A base, th, pool : CopyDownOn(base, th, pool) => FaultsOnly
  BY <1>1 DEF LocateOn, CopyDownOn, FaultsOnly
<1> QED
  BY <1>1, <1>2, <1>3, <1>4

\* Every step of a call is one of them, or the end of the call.
LEMMA WorkTakesFaults ==
  ASSUME NEW th, BuildWork(th)
  PROVE  FaultsOnly
<1>1. CASE Work(th)
  <2>1. CASE Create(th)
    BY <2>1, OperationsTakeFaults DEF Create, Write, Dummy, Link, Operate
  <2>2. CASE Read(th) \/ Lock(th) \/ Unlock(th) \/ Locate(th)
    BY <2>2, OperationsTakeFaults DEF Read, ReadOn, Lock, LockOn, Unlock, UnlockOn, Locate
  <2>3. CASE MoveUp(th)
    BY <2>3, OperationsTakeFaults DEF MoveUp, Unlink, Promote, RmSource, Operate
  <2>4. CASE MoveDown(th)
    BY <2>4, OperationsTakeFaults DEF MoveDown, CopyDown, Replace, OperateShadowed
  <2>5. CASE MoveAcross(th)
    BY <2>5, OperationsTakeFaults
       DEF MoveAcross, XUnlink, XCopy, XRemove, XDummy, XLink, Operate, OperateShadowed
  <2>6. CASE Delete(th)
    BY <2>6, OperationsTakeFaults DEF Delete, RmTarget, RmSelf, Operate, Takes
  <2>7. CASE End(th)
    BY <2>7 DEF End, FaultsOnly
  <2> QED
    BY <1>1, <2>1, <2>2, <2>3, <2>4, <2>5, <2>6, <2>7 DEF Work, Serve
<1>2. CASE MicroWork(th)
  <2>1. CASE MicroCreate(th)
    BY <2>1, OperationsTakeFaults DEF MicroCreate, MicroWrite, MicroDummy, MicroLink
  <2>2. CASE ReadOn("storage", th)
    BY <2>2, OperationsTakeFaults DEF ReadOn
  <2>3. CASE MicroMove(th)
    BY <2>3, OperationsTakeFaults
       DEF MicroMove, LockOn, UnlockOn, MicroLocate, MicroUnlink, MicroPromote, MicroRmSource,
           MicroHint, MicroCopyDown, MicroReplace
  <2>4. CASE MicroDelete(th)
    BY <2>4, OperationsTakeFaults DEF MicroDelete, MicroRmTarget, MicroRmSelf
  <2>5. CASE End(th)
    BY <2>5 DEF End, FaultsOnly
  <2> QED
    BY <1>2, <2>1, <2>2, <2>3, <2>4, <2>5 DEF MicroWork
<1> QED
  BY <1>1, <1>2 DEF BuildWork

\* A step of a call leaves the numbers of calls and of writes as they are.
LEMMA WorkTakesNothing ==
  ASSUME TestTyped, NEW th \in Threads, BuildWork(th)
  PROVE  bounds'.ops = bounds.ops /\ bounds'.writes = bounds.writes
<1>1. FaultsOnly
  BY WorkTakesFaults
<1> QED
  BY <1>1 DEF FaultsOnly, TestTyped

\* Every step of the program.
LEMMA NextWritten ==
  ASSUME InOrder, Written, [TestNext]_buildVars
  PROVE  Written'
<1>1. TestTyped /\ build \in BuildNames
  BY DEF InOrder, TestTyped
<1>2. CASE UNCHANGED buildVars
  BY <1>2 DEF Written, Calls, AllIdle, At, buildVars, vars
<1>3. ASSUME NEW th \in Threads, BuildWork(th)
      PROVE  Written'
  <2>1. build' = build /\ Calls' = Calls /\ bounds'.writes = bounds.writes
    BY <1>1, <1>3, WorkTakesNothing DEF BuildWork, Calls
  <2>2. ~ AllIdle
    BY <1>3, IdleRests DEF AllIdle, At
  <2> QED
    BY <2>1, <2>2 DEF Written
<1>4. CASE Call /\ UNCHANGED build
  <2>1. /\ MaxOps = 34
        /\ bounds \in [ops : 0 .. MaxOps, writes : Nat, faults : {0}, crashes : Nat]
    BY <1>1, ProgramCalls DEF TestTyped
  <2>2. bounds.ops > 0 /\ bounds' = [bounds EXCEPT !.ops = @ - 1]
    BY <1>4 DEF Call, Start, Begin
  <2>3. PICK k \in 1 .. 34 : bounds.ops = k
    BY <2>1, <2>2
  <2>4. bounds'.ops = k - 1 /\ bounds'.writes = bounds.writes
    BY <2>1, <2>2, <2>3
  <2>5. Calls \in Nat /\ Calls' = Calls + 1
    BY <2>1, <2>3, <2>4 DEF Calls
  <2>6. Calls' < 30 => bounds'.writes > 0
    BY <2>4, <2>5 DEF Written
  <2>7. bounds'.writes \in Nat
    BY <2>1, <2>4
  <2> QED
    BY <2>5, <2>6, <2>7 DEF Written
<1>5. CASE Rewrite /\ UNCHANGED build
  <2>1. Idle
    BY <1>5 DEF InOrder, Busy, AllIdle, At, Rewrite
  <2>2. Calls' = 29 /\ Placed(build, Foo, store'[Foo], Rewritten, "free")
    BY <1>1, <1>5, <2>1, RewriteInOrder
  <2>3. AllIdle'
    BY <1>5 DEF Rewrite, DirectWriteOn, AllIdle, At
  <2> QED
    BY <1>5, <2>2, <2>3 DEF Written
<1> QED
  BY <1>2, <1>3, <1>4, <1>5 DEF TestNext

-----------------------------------------------------------------------------
(* The theorems.                                                           *)

\* While no operation of RADOS fails, the test program and the samples, sample.c
\* as far as its CRead, make one call after the other, each on one thread while
\* the others rest, and at each step of each call the pools have of its object the
\* copies, redirect and lock that the step was written for (CreateInternal, Read,
\* Move, Delete).
THEOREM ProgramInOrder ==
  ASSUME MaxFaults = 0, InitialTiers = {"none"}
  PROVE  TestSpec => []InOrder
<1>1. BuildInit => InOrder
  BY InOrderInit
<1>2. InOrder /\ [TestNext]_buildVars => InOrder'
  BY NextInOrder
<1> QED
  BY <1>1, <1>2, PTL DEF TestSpec

\* assert(ret == 0) of test/test.cpp and of the samples never fails: every call
\* that is answered, all of test.cpp and sample.cpp and the first two of sample.c,
\* reports success.
THEOREM AllCallsSucceed ==
  ASSUME MaxFaults = 0, InitialTiers = {"none"}
  PROVE  TestSpec => []TestPasses
<1>1. InOrder => TestPasses
  <2> SUFFICES ASSUME InOrder, NEW th \in Threads, At(th, "finish") \/ At(th, "early"),
                      thread[th].req.op # "read"
               PROVE  thread[th].r = "ok"
    BY DEF TestPasses
  <2>1. thread[th] \in Underway \cup {IdleThread}
    BY DEF InOrder, TestTyped
  <2> QED
    BY <2>1 DEF Underway, IdleThread
<1> QED
  BY <1>1, ProgramInOrder, PTL

\* No assert(r == 0) of Lock, Unlock and GetLocation, and no abort() on a name
\* that is no tier's, ends the programs.
THEOREM NoAssertFails ==
  ASSUME MaxFaults = 0, InitialTiers = {"none"}
  PROVE  TestSpec => []NoAbort
<1>1. InOrder => NoAbort
  BY DEF InOrder, TestTyped, NoAbort
<1> QED
  BY <1>1, ProgramInOrder, PTL

\* When Move reports success to the programs the object and its data are in the
\* pool of the tier asked for, and the base pool is or leads to that pool: for
\* each of the nine pairs of tiers, in both builds.
THEOREM MovesArrive ==
  ASSUME MaxFaults = 0, InitialTiers = {"none"}
  PROVE  TestSpec => []MovedAsReported
<1>1. InOrder => MovedAsReported
  <2> SUFFICES ASSUME InOrder, NEW th \in Threads, At(th, "finish"),
                      thread[th].req.op = "move"
               PROVE  IsIn(Obj(th), BuildPool(Asked(th)), InitialData)
    BY DEF MovedAsReported
  <2> DEFINE o == Obj(th)
             p == store[o]
             pool == Goal(build, o)
  <2>1. TestTyped /\ Busy(th)
    BY DEF InOrder, Idle, AllIdle, Busy, At
  <2>2. /\ build \in BuildNames /\ o \in Objects /\ Asked(th) = To(o)
        /\ Doing(build, o, "move", "finish", Found(th), p)
    BY <2>1, BusyFacts DEF At, Place
  <2>3. Placed(build, o, p, InitialData, "free")
    BY <2>2 DEF Doing, Moving, Upward, Downward, Across
  <2>4. /\ BaseIn(build) \in {"cache", "storage"} /\ pool \in Pools
        /\ pool \in Lower \cup {BaseIn(build)}
    BY <2>2, RouteFacts
  <2>5. /\ p[pool] # NoObject /\ Target(p, BaseIn(build)) = pool
        /\ p[pool].data = InitialData
    BY <2>3, <2>4, LiesFacts DEF Placed, Whole
  <2>6. BaseIn(build) = Base /\ pool = BuildPool(Asked(th))
    BY <2>2 DEF BaseIn, Base, Goal, PoolIn, BuildPool
  <2> QED
    BY <2>5, <2>6 DEF IsIn
<1> QED
  BY <1>1, ProgramInOrder, PTL

\* assert(result == "baz") in lib/sample.cpp: what the application wrote through
\* the redirect of the cache pool, after Move and until its next call, is what a
\* read through that redirect finds, in the pool to which the object was moved.
THEOREM WritesReadBack ==
  ASSUME MaxFaults = 0, InitialTiers = {"none"}
  PROVE  TestSpec => []ReadsBack
<1>1. BuildInit => Written
  <2> SUFFICES ASSUME BuildInit
               PROVE  Written
    OBVIOUS
  <2>1. MaxOps = 34 /\ bounds.ops = MaxOps /\ bounds.writes = 1
    BY ProgramCalls, TestDriverAssumption DEF BuildInit, AtRest
  <2>2. Calls = 0
    BY <2>1 DEF Calls
  <2> QED
    BY <2>1, <2>2 DEF Written
<1>2. InOrder /\ Written /\ [TestNext]_buildVars => Written'
  BY NextWritten
<1>3. InOrder /\ Written => ReadsBack
  <2> SUFFICES ASSUME InOrder, Written, build = "default", Calls = WritesAt, bounds.writes = 0
               PROVE  AllIdle /\ IsIn(Foo, BuildPool(To(Foo)), Rewritten)
    BY DEF ReadsBack
  <2> DEFINE p == store[Foo]
             pool == Goal(build, Foo)
  <2>1. WritesAt = 29
    BY ProgramLengths DEF WritesAt
  <2>2. AllIdle /\ Placed(build, Foo, p, Rewritten, "free")
    BY <2>1 DEF Written
  <2>3. /\ BaseIn(build) \in {"cache", "storage"} /\ pool \in Pools
        /\ pool \in Lower \cup {BaseIn(build)}
    <3>1. build \in BuildNames /\ Foo \in Objects
      BY TestDriverAssumption DEF InOrder, TestTyped
    <3> QED
      BY <3>1, RouteFacts
  <2>4. /\ p[pool] # NoObject /\ Target(p, BaseIn(build)) = pool
        /\ p[pool].data = Rewritten
    BY <2>2, <2>3, LiesFacts DEF Placed, Whole
  <2>5. BaseIn(build) = Base /\ pool = BuildPool(To(Foo))
    BY DEF BaseIn, Base, Goal, PoolIn, BuildPool
  <2> QED
    BY <2>2, <2>4, <2>5 DEF IsIn
<1> QED
  BY <1>1, <1>2, <1>3, ProgramInOrder, PTL DEF TestSpec

\* The two removes of Delete take away the object and what led to it: when
\* test.cpp ends, and when sample.cpp ends after it, nothing of any object is
\* left, with the exception of the redirect of an object of the archive with micro
\* tiering, whose second remove follows the redirect like the first.
THEOREM DeletedCompletely ==
  ASSUME MaxFaults = 0, InitialTiers = {"none"}
  PROVE  TestSpec => []NothingLeft
<1>1. InOrder => NothingLeft
  <2>1. Len(TestProgram) = 27 /\ Len(TestProgram \o SampleCpp) = 30
    BY ProgramLengths
  <2> SUFFICES ASSUME InOrder, Calls \in {27, 30}, AllIdle, NEW o \in Objects
               PROVE  \/ store[o] = Nowhere
                      \/ /\ build = "micro" /\ To(o) = "ARCHIVE"
                         /\ \A pool \in Pools \ {"storage"} : store[o][pool] = NoObject
    BY <2>1 DEF NothingLeft
  <2> DEFINE p == store[o]
  <2>2. TestTyped /\ Idle /\ build \in BuildNames
    BY DEF InOrder, TestTyped, Busy, AllIdle, At
  <2>3. Left(build, o, Due(o, Calls), p)
    BY <2>2 DEF Idle
  <2>4. Due(o, Calls) \in {"none", "delete"}
    BY TiersOfObjects DEF Due, Foo
  <2>5. CASE Due(o, Calls) = "none"
    BY <2>3, <2>5 DEF Left
  <2>6. CASE Due(o, Calls) = "delete"
    <3>1. Removed(build, o, p)
      BY <2>3, <2>6 DEF Left
    <3>2. CASE build = "default" \/ Goal(build, o) = BaseIn(build)
      <4>1. Shape(p, BaseIn(build), {}, "bare", InitialData, "free")
        BY <3>1, <3>2 DEF Removed
      <4>2. BaseIn(build) \in Pools
        BY DEF BaseIn, Pools
      <4> QED
        BY <4>1, <4>2, ShapeNowhere
    <3>3. CASE ~ (build = "default" \/ Goal(build, o) = BaseIn(build))
      <4>1. build = "micro" /\ BaseIn(build) = "storage"
        BY <2>2, <3>3 DEF BuildNames, BaseIn
      <4>2. To(o) \in Tiers /\ Goal(build, o) # "storage"
        BY <3>3, <4>1, TiersOfObjects
      <4>3. To(o) = "ARCHIVE"
        BY <4>1, <4>2 DEF Goal, PoolIn, MicroPool
      <4>4. \A pool \in Pools \ {"storage"} : p[pool] = NoObject
        BY <3>1, <4>1 DEF Removed, Shape
      <4> QED
        BY <4>1, <4>3, <4>4
    <3> QED
      BY <3>2, <3>3
  <2> QED
    BY <2>4, <2>5, <2>6
<1> QED
  BY <1>1, ProgramInOrder, PTL

\* Between the calls of the programs no object is locked: Unlock of a move
\* reaches the copy of the object that Lock locked, wherever the move put it.
THEOREM UnlockedBetweenCalls ==
  ASSUME MaxFaults = 0, InitialTiers = {"none"}
  PROVE  TestSpec => []LeftUnlocked
<1>1. InOrder => LeftUnlocked
  <2> SUFFICES ASSUME InOrder, AllIdle, NEW o \in Objects,
                      Reached(store[o], Base) # NoObject
               PROVE  ~ Reached(store[o], Base).locked
    BY DEF LeftUnlocked
  <2> DEFINE p == store[o]
             base == BaseIn(build)
  <2>1. Idle /\ build \in BuildNames /\ p \in Places
    BY DEF InOrder, TestTyped, Busy, AllIdle, At
  <2>2. Base = base
    BY DEF Base, BaseIn
  <2>3. Left(build, o, Due(o, Calls), p)
    BY <2>1 DEF Idle
  <2>4. base \in {"cache", "storage"} /\ base \in Pools
    BY DEF BaseIn, Pools
  <2>5. ASSUME NEW pool \in Pools, pool \in Lower \cup {base}, NEW data,
               Lies(p, base, pool, data, "free")
        PROVE  ~ Reached(p, base).locked
    <3> HIDE DEF p, base
    <3>1. Reached(p, base) = p[pool] /\ Whole(p[pool], data, "free")
      BY <2>4, <2>5, LiesFacts
    <3>2. p[pool].locked = FALSE
      BY <3>1 DEF Whole
    <3> QED
      BY <3>1, <3>2
  <2>6. Due(o, Calls) \in {"none", "create", "move", "delete"}
    BY DEF Due
  <2>7. CASE Due(o, Calls) = "none"
    <3>1. p = Nowhere
      BY <2>3, <2>7 DEF Left
    <3>2. Reached(p, base) = NoObject
      BY <2>4, <3>1 DEF Nowhere, Reached, Target
    <3> QED
      BY <2>2, <3>2
  <2>8. CASE Due(o, Calls) = "create"
    <3>1. Lies(p, base, Source(build, o), InitialData, "free")
      BY <2>3, <2>8 DEF Left, Made
    <3>2. Source(build, o) \in Pools /\ Source(build, o) \in Lower \cup {base}
      BY <2>1, RouteFacts
    <3> QED
      BY <2>2, <2>5, <3>1, <3>2
  <2>9. CASE Due(o, Calls) = "move"
    <3>1. PICK data \in Values : Lies(p, base, Goal(build, o), data, "free")
      BY <2>3, <2>9 DEF Left, Placed
    <3>2. Goal(build, o) \in Pools /\ Goal(build, o) \in Lower \cup {base}
      BY <2>1, RouteFacts
    <3> QED
      BY <2>2, <2>5, <3>1, <3>2
  <2>10. CASE Due(o, Calls) = "delete"
    <3> DEFINE cover == IF build = "default" \/ Goal(build, o) = base THEN "bare"
                                                                    ELSE Goal(build, o)
    <3>1. /\ \A pool \in Pools \ {base} : p[pool] = NoObject
          /\ Cover(p[base]) = cover
      BY <2>3, <2>10 DEF Left, Removed, Shape
    <3>2. cover = "bare" \/ cover \in Lower
      BY <2>1, RouteFacts
    <3>3. CASE p[base] = NoObject
      BY <2>2, <3>3 DEF Reached, Target
    <3>4. CASE p[base] # NoObject
      <4>1. p[base] \in Object
        BY <2>1, <2>4, <3>4 DEF Places
      <4>2. p[base].redirect = cover
        BY <3>1, <3>4 DEF Cover
      <4>3. p[base].redirect # "bare"
        BY <4>1 DEF Object
      <4>4. cover \in Lower /\ cover # base
        BY <3>2, <4>2, <4>3
      <4> QED
        BY <2>2, <3>1, <3>4, <4>2, <4>4 DEF Reached, Target, Lower, Pools
    <3> QED
      BY <3>3, <3>4
  <2> QED
    BY <2>6, <2>7, <2>8, <2>9, <2>10
<1> QED
  BY <1>1, ProgramInOrder, PTL
=============================================================================
