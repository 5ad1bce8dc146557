-------------------------------- MODULE MCXv6 --------------------------------
(* Model values and small definitions for checking Xv6Mmap with TLC. *)
EXTENDS Xv6Mmap

CONSTANTS p1, p2, f1, f2

MCProcs == {p1, p2}
MCFrames == {f1, f2}
MCInitFree == <<f1, f2>>
=============================================================================
