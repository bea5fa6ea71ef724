----------------------------- MODULE MCReplayer ------------------------------
(***************************************************************************)
(* A small instance of Replayer for TLC.                                   *)
(***************************************************************************)
EXTENDS Replayer

ReadAndWrite == {"read", "write"}
\* One byte or two, and two errors: -2 (ENOENT), -5 (EIO).
BytesOrError == {1, 2, -2}
ZeroOrError == {0, -5}
=============================================================================
