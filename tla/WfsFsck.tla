------------------------------ MODULE WfsFsck -------------------------------
(***************************************************************************)
(* The offline compactor fsck.wfs.c.  It builds a new image holding, for  *)
(* each inode number 0..max_inode in ascending order, the latest live     *)
(* entry of the old image, then zeroes the mapped image and copies the    *)
(* new one over it.  It runs only while nothing is mounted, as one step.  *)
(***************************************************************************)
EXTENDS WfsImage

(* Positions, in ascending inode order, of the entries fsck keeps. *)
KeptEntriesBelowMax ==
    SelectSeq([i \in 1..MaxInode |-> Latest(i - 1)], LAMBDA k : k # NULL)
KeptEntries ==
    SelectSeq([i \in 1..(MaxInode + 1) |-> Latest(i - 1)], LAMBDA k : k # NULL)

(* The compacted log and the head of the new superblock. *)
Compacted == [j \in DOMAIN KeptEntries |-> log[KeptEntries[j]]]

CompactedHead == FoldLeft(LAMBDA h, e : h + LE + e.size, SB, Compacted)

(* main: the whole pass, memset and memcpy of the image included. *)
Fsck ==
    /\ log' = Compacted
    /\ head' = CompactedHead

(***************************************************************************)
(* The process killed between memset(mapped_data, 0, disk_size) and the  *)
(* memcpy of the new image: every byte of the image is zero, head = 0.    *)
(***************************************************************************)
FsckCrash ==
    /\ log' = <<>>
    /\ head' = 0
=============================================================================
