-------------------------------- MODULE MCWfs -------------------------------
(***************************************************************************)
(* Model-checking instance of WfsSystem: record sizes in the ratio of the *)
(* C structs (wfs_sb 16, wfs_log_entry 64, wfs_dentry 40 bytes, scaled),  *)
(* two names, one byte value, and a disk small enough that ENOSPC is hit  *)
(* after two or three operations.                                         *)
(***************************************************************************)
EXTENDS WfsSystem

CONSTANTS a, b, B

MCNames == {a, b}
MCBytes == {B}
MCWriteOffsets == {0, 1}
MCWriteBufs == {<<B>>}
=============================================================================
