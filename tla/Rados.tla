-------------------------------- MODULE Rados --------------------------------
(***************************************************************************)
(* The RADOS operations ObjectMover is built from, as far as its code uses *)
(* them.  Ceph is not part of the repository: what an operation does is    *)
(* taken from how lib/object_mover.cpp, lib/sample.cpp and test/test.cpp   *)
(* rely on it.                                                             *)
(*                                                                         *)
(* An object name has a place in each pool.  The object in the cache pool  *)
(* may be a redirect to the object of that name in another pool; an        *)
(* operation sent to a redirect is executed on its target, unless it has   *)
(* OPERATION_IGNORE_REDIRECT.  set_redirect itself is always executed      *)
(* where it was sent.  The operations of one ObjectWriteOperation are done *)
(* together or not at all.                                                 *)
(***************************************************************************)
CONSTANTS Values,    \* contents written by applications
          Empty,     \* the content of a dummy object or of a redirect
          NoObject   \* the place holds no object

Pools == {"cache", "storage", "archive"}
TierNames == {"none", "fast", "slow", "archive", "storage"}
Results == {"ok", "enoent", "canceled", "eio"}

Object == [data : Values \cup {Empty},
           tier : TierNames,                    \* xattr "tier"
           locked : BOOLEAN,                    \* xattr "lock" is "1"
           redirect : {"none", "storage", "archive"}]
Places == [Pools -> Object \cup {NoObject}]

ASSUME RadosAssumption == Empty \notin Values /\ NoObject \notin Object

Nowhere == [pool \in Pools |-> NoObject]
NewObject(data) == [data |-> data, tier |-> "none", locked |-> FALSE, redirect |-> "none"]

\* The answer to an operation: its result, the pool it was executed in, and
\* the places of the object afterwards.
Ok(p, pool) == [r |-> "ok", pool |-> pool, p |-> p]
Fails(p, r) == [r |-> r, pool |-> "none", p |-> p]

\* The pool in which an operation sent to pool is executed.
Target(p, pool) == IF p[pool] # NoObject /\ p[pool].redirect # "none"
                   THEN p[pool].redirect
                   ELSE pool

\* The object an operation sent to pool works on.
Reached(p, pool) == p[Target(p, pool)]

\* The object at a place where there may be none yet.
Existing(p, pool) == IF p[pool] = NoObject THEN NewObject(Empty) ELSE p[pool]

\* write_full replaces the data and keeps the xattrs of an existing object.
WriteFull(p, pool, data) ==
    LET q == Target(p, pool)
    IN  Ok([p EXCEPT ![q] = [Existing(p, q) EXCEPT !.data = data]], q)

\* set_alloc_hint2 touches the object and makes it if need be.
AllocHint(p, pool) == LET q == Target(p, pool) IN Ok([p EXCEPT ![q] = Existing(p, q)], q)

\* write_full and setxattr("tier") in one operation.
WriteFullTier(p, pool, data, tier) ==
    LET q == Target(p, pool)
    IN  Ok([p EXCEPT ![q] = [Existing(p, q) EXCEPT !.data = data, !.tier = tier]], q)

\* remove, with and without OPERATION_IGNORE_REDIRECT.
RemoveAt(p, pool) ==
    IF p[pool] = NoObject THEN Fails(p, "enoent")
                          ELSE Ok([p EXCEPT ![pool] = NoObject], pool)
Remove(p, pool) == RemoveAt(p, Target(p, pool))

\* copy_from copies data and xattrs, and makes the destination if need be.
CopyFrom(p, pool, from) ==
    LET q == Target(p, pool)
    IN  IF Reached(p, from) = NoObject
        THEN Fails(p, "enoent")
        ELSE Ok([p EXCEPT ![q] = Reached(p, from)], q)

\* copy_from and setxattr("tier") in one operation.
CopyFromTier(p, pool, from, tier) ==
    LET q == Target(p, pool)
    IN  IF Reached(p, from) = NoObject
        THEN Fails(p, "enoent")
        ELSE Ok([p EXCEPT ![q] = [Reached(p, from) EXCEPT !.tier = tier]], q)

\* set_redirect keeps the xattrs of the object it turns into a redirect.
SetRedirect(p, pool, to) ==
    IF p[pool] = NoObject
    THEN Fails(p, "enoent")
    ELSE Ok([p EXCEPT ![pool] = [@ EXCEPT !.redirect = to, !.data = Empty]], pool)

\* assert_version, set_redirect and setxattr("tier") in one operation; current
\* says whether the version is still the one that is asserted.
SetRedirectIf(p, pool, current, to, tier) ==
    IF p[pool] = NoObject \/ ~ current
    THEN Fails(p, "canceled")
    ELSE Ok([p EXCEPT ![pool] = [@ EXCEPT !.redirect = to, !.data = Empty, !.tier = tier]],
            pool)

\* cmpxattr and setxattr on "lock" in one operation.
SetLock(p, pool, locked) ==
    LET q == Target(p, pool)
    IN  IF p[q] = NoObject
        THEN Fails(p, "enoent")
        ELSE IF p[q].locked = locked
        THEN Fails(p, "canceled")
        ELSE Ok([p EXCEPT ![q].locked = locked], q)
==============================================================================
