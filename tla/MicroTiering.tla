---------------------------- MODULE MicroTiering -----------------------------
(***************************************************************************)
(* Create, Read, Move and Delete of lib/object_mover.cpp in the build with *)
(* USE_MICRO_TIERING: the fast and the slow tier are devices of the        *)
(* storage pool, chosen by an allocation hint, and only the archive is a   *)
(* pool of its own.  Applications find the objects in the storage pool.    *)
(*                                                                         *)
(* The state, and what the builds share, is that of ObjectMover.  On which *)
(* device OSDs put an object is not modelled: a hint is an operation that  *)
(* changes no data and no xattr.                                           *)
(***************************************************************************)
EXTENDS ObjectMover

MicroPool(tier) == IF tier = "ARCHIVE" THEN "archive" ELSE "storage"

\* An object as Create leaves it in a tier.
MicroCreated(tier, data) ==
    LET obj == [NewObject(data) EXCEPT !.tier = NameOf(tier)]
        link == [NewObject(Empty) EXCEPT !.redirect = "archive"]
    IN  IF tier = "ARCHIVE" THEN [Nowhere EXCEPT !["storage"] = link, !["archive"] = obj]
                            ELSE [Nowhere EXCEPT !["storage"] = obj]

-----------------------------------------------------------------------------
(* A faulty variant: as in ObjectMover.                                    *)

\* The version is not asserted.
MicroReplaceAnyVersion(th) ==
    OperateShadowedOn("storage", th, "replace",
                      SetRedirectIf(Place(th), "storage", TRUE, "archive", "archive"),
                      "unlock", "copy_down")

-----------------------------------------------------------------------------
(* Create                                                                  *)

MicroWrite(th) ==
    OperateOn("storage", th, "write",
              WriteFullTier(Place(th), MicroPool(Asked(th)), thread[th].req.data,
                            NameOf(Asked(th))),
              IF Asked(th) = "ARCHIVE" THEN "dummy" ELSE "finish", "finish")

MicroDummy(th) == OperateOn("storage", th, "dummy", WriteFull(Place(th), "storage", Empty),
                            "link", "finish")

MicroLink(th) == OperateOn("storage", th, "link", SetRedirect(Place(th), "storage", "archive"),
                           "finish", "finish")

MicroCreate(th) == MicroWrite(th) \/ MicroDummy(th) \/ MicroLink(th)

-----------------------------------------------------------------------------
(* Move                                                                    *)

MicroLocate(th) ==
    LocateOn("storage", th,
             [tier \in Tiers |-> IF tier = Asked(th) THEN "unlock"
                                 ELSE IF Asked(th) = "ARCHIVE" THEN "copy_down"
                                 ELSE IF tier = "ARCHIVE" THEN "unlink"
                                 ELSE "hint"])

\* From the archive to a device of the storage pool.
MicroUnlink(th) == OperateOn("storage", th, "unlink", RemoveAt(Place(th), "storage"),
                             "promote", "unlock_early")

MicroPromote(th) ==
    OperateOn("storage", th, "promote",
              CopyFromTier(Place(th), "storage", "archive", NameOf(Asked(th))),
              "rm_source", "unlock")

MicroRmSource(th) == OperateOn("storage", th, "rm_source", Remove(Place(th), "archive"),
                               "unlock", "unlock")

\* From one device to the other.  The name of the tier is put in a bufferlist
\* that nothing uses: the xattr stays.
MicroHint(th) ==
    OperateOn("storage", th, "hint", AllocHint(Place(th), "storage"), "unlock", "unlock")

\* From the storage pool to the archive.
MicroCopyDown(th) == CopyDownOn("storage", th, "archive")

MicroReplace(th) ==
    OperateShadowedOn("storage", th, "replace",
                      SetRedirectIf(Place(th), "storage", th \in current, "archive", "archive"),
                      "unlock", "copy_down")

MicroMove(th) == \/ LockOn("storage", th) \/ MicroLocate(th) \/ UnlockOn("storage", th)
                 \/ MicroUnlink(th) \/ MicroPromote(th) \/ MicroRmSource(th)
                 \/ MicroHint(th)
                 \/ MicroCopyDown(th) \/ MicroReplace(th)

-----------------------------------------------------------------------------
(* Delete                                                                  *)

MicroRmTarget(th) == OperateOn("storage", th, "rm_target", Remove(Place(th), "storage"),
                               "rm_self", "early")

\* The second remove is sent through the redirect like the first; nothing left
\* to remove is no failure.
MicroRmSelf(th) ==
    /\ At(th, "rm_self")
    /\ \E a \in Answers(th, Remove(Place(th), "storage")) :
          /\ TakesOn("storage", th, a)
          /\ GotoWith(th, "finish", IF a.r = "enoent" THEN "ok" ELSE a.r)
    /\ UNCHANGED status

MicroDelete(th) == MicroRmTarget(th) \/ MicroRmSelf(th)

-----------------------------------------------------------------------------
MicroWork(th) == \/ MicroCreate(th)
                 \/ ReadOn("storage", th)
                 \/ MicroMove(th)
                 \/ MicroDelete(th)
                 \/ End(th)
==============================================================================
