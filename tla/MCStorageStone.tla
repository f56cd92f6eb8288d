--------------------------- MODULE MCStorageStone ---------------------------
(***************************************************************************)
(* Buckets of no, two and ten messages: the last is the first whose text   *)
(* is too long.                                                            *)
(***************************************************************************)
EXTENDS StorageStone
MCSizes == {0, 2, 10}
=============================================================================
