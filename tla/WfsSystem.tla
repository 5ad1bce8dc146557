------------------------------ MODULE WfsSystem -----------------------------
(***************************************************************************)
(* The three executables around one image: mkfs formats it (Init), the    *)
(* mount server changes it one FUSE operation at a time, and fsck may     *)
(* compact it whenever nothing is mounted.  Mount sessions and fsck runs  *)
(* exclude each other, so their steps interleave at operation grain.      *)
(***************************************************************************)
EXTENDS WfsMount, WfsFsck

CONSTANT NoFile     \* abstract value of a path that names nothing

vars == <<log, head, ret>>

Init == MountInit

FsckStep == Fsck /\ ret' = 0

CrashStep == FsckCrash /\ ret' = 0

Next == MountNext \/ FsckStep

(* The whole system, the mount server alone, and with fsck killable. *)
Spec == Init /\ [][Next]_vars
MountSpec == Init /\ [][MountNext]_vars
CrashSpec == Init /\ [][Next \/ CrashStep]_vars

(***************************************************************************)
(* What a client observes at a path: nothing, a directory, or a file with *)
(* its bytes, as getattr and read report them.                            *)
(***************************************************************************)
View(p) ==
    LET k == Resolve(p)
    IN  IF k = NULL THEN NoFile
        ELSE IF log[k].mode = DIR THEN [type |-> "dir", data |-> <<>>]
        ELSE [type |-> "reg", data |-> log[k].data]

AbsView == [p \in AllPaths |-> View(p)]

(***************************************************************************)
(* Path resolution as spec.md 4.2 defines it: from the root's latest      *)
(* entry, look each token up in the current directory's dentries (a dead  *)
(* dentry is skipped) and jump to that child's latest entry.              *)
(***************************************************************************)
RECURSIVE Walk(_, _)
Walk(k, toks) ==
    IF toks = <<>> THEN k
    ELSE IF k = NULL \/ log[k].mode # DIR THEN NULL
    ELSE LET D    == Dentries(log[k])
             hits == {j \in DOMAIN D : D[j].name = Head(toks)
                                       /\ Latest(D[j].ino) # NULL}
         IN  IF hits = {} THEN NULL
             ELSE Walk(Latest(D[Min(hits)].ino), Tail(toks))

TreeResolve(p) == Walk(Latest(0), p)

-----------------------------------------------------------------------------
(***************************************************************************)
(* ResolveFollowsTree: for every path the kernel can ask about (its      *)
(* prefixes are directories), find_log_entry_by_path returns the entry    *)
(* reached by walking the current directory tree from the root (spec.md  *)
(* 8, invariant 4), although it scans historical entries in file order.   *)
(***************************************************************************)
ResolveFollowsTree ==
    \A p \in AllPaths : KernelLookup(p) => Resolve(p) = TreeResolve(p)

(***************************************************************************)
(* HeadWithinDisk: sb->head stays within [sizeof(sb), disk_size] after    *)
(* every handler (spec.md 3 and 8, invariant 1); every handler checks the *)
(* room for what it appends before it advances head.                      *)
(***************************************************************************)
HeadWithinDisk == SB <= head /\ head <= DiskSize

(***************************************************************************)
(* FailedOpLeavesHeadUnchanged: a handler returning an error (ENOSPC      *)
(* included) never moves head: "both appends must fit; checked together  *)
(* before either write" (spec.md 4.3, 8 boundary behaviour).              *)
(***************************************************************************)
FailedOpLeavesHeadUnchanged == [][ret' < 0 => head' = head]_vars

(***************************************************************************)
(* CompactionPreservesView: an fsck pass leaves what every path shows     *)
(* unchanged (spec.md 8, "compaction is semantically identity").          *)
(***************************************************************************)
CompactionPreservesView == [][FsckStep => AbsView' = AbsView]_vars

(***************************************************************************)
(* RootResolves: "/" resolves to inode 0 in every reachable image         *)
(* (spec.md 8, invariant 3; spec.md 1 claims the fsck swap is            *)
(* crash-atomic).                                                        *)
(***************************************************************************)
RootResolves ==
    LET k == Resolve(<<>>) IN k # NULL /\ log[k].ino = 0

(***************************************************************************)
(* AbsSpec: what clients observe (the view of every path, and whether the *)
(* operation returned an error) changes only as the abstract filesystem   *)
(* AbstractFs allows: each successful handler is one abstract operation,  *)
(* and a handler that returns an error, ENOSPC included, leaves every     *)
(* path as it was (spec.md 4.1 step 3: "fail with out-of-space without    *)
(* writing anything").  fsck and reads are steps that change nothing.     *)
(***************************************************************************)
Abs == INSTANCE AbstractFs
           WITH fs <- AbsView, failed <- ret < 0,
                Paths <- AllPaths, Absent <- NoFile

AbsSpec == Abs!Spec

(***************************************************************************)
(* ViewSpec: the same, ignoring what handlers return: every change of the *)
(* view of the paths, across mount sessions and fsck runs, is one create, *)
(* write or unlink of a single path (spec.md 8, invariant 6: after        *)
(* unlink(p) and until p is created again, resolve(p) is not-found).      *)
(***************************************************************************)
Blind == INSTANCE AbstractFs
             WITH fs <- AbsView, failed <- FALSE,
                  Paths <- AllPaths, Absent <- NoFile

ViewSpec == Blind!Spec
=============================================================================
