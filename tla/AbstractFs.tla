----------------------------- MODULE AbstractFs -----------------------------
(***************************************************************************)
(* What the filesystem promises (spec.md sections 4.3 and 8): a tree of   *)
(* directories and regular files named by paths.  create and mkdir add an *)
(* empty node under an existing directory, write overlays a buffer on a   *)
(* file (bytes of a gap past the old end are unspecified), unlink removes *)
(* a file.  Every operation reports success or failure (failed), and a    *)
(* failed operation changes nothing (spec.md 4.1 step 3, 8).              *)
(***************************************************************************)
EXTENDS Naturals, Sequences, SequencesExt

CONSTANTS
    Paths,          \* every path, "/" (<<>>) included
    Bytes, Zero,
    WriteOffsets, WriteBufs,
    Absent          \* the value of a path that names nothing

VARIABLES fs, failed

DirNode == [type |-> "dir", data |-> <<>>]
FileNode(d) == [type |-> "reg", data |-> d]

Init ==
    /\ fs = [p \in Paths |-> IF p = <<>> THEN DirNode ELSE Absent]
    /\ failed = FALSE

IsDir(p) == fs[p] # Absent /\ fs[p].type = "dir"

Create(p, node) ==
    /\ p # <<>>
    /\ fs[p] = Absent
    /\ IsDir(Front(p))
    /\ fs' = [fs EXCEPT ![p] = node]
    /\ failed' = FALSE

Write(p, off, buf) ==
    /\ fs[p] # Absent
    /\ fs[p].type = "reg"
    /\ LET old == fs[p].data
           len == Max({off + Len(buf), Len(old)})
       IN  \E d \in [1..len -> Bytes \cup {Zero}] :
              /\ \A i \in 1..len :
                    /\ off < i /\ i <= off + Len(buf) => d[i] = buf[i - off]
                    /\ ~(off < i /\ i <= off + Len(buf)) /\ i <= Len(old)
                          => d[i] = old[i]
              /\ fs' = [fs EXCEPT ![p] = FileNode(d)]
    /\ failed' = FALSE

Unlink(p) ==
    /\ fs[p] # Absent
    /\ fs[p].type = "reg"
    /\ fs' = [fs EXCEPT ![p] = Absent]
    /\ failed' = FALSE

(* A read succeeds or any operation fails: the tree is left as it is.  *)
Observe == fs' = fs /\ failed' = FALSE

Fail == fs' = fs /\ failed' = TRUE

Next ==
    \/ Observe
    \/ Fail
    \/ \E p \in Paths :
           \/ Create(p, DirNode)
           \/ Create(p, FileNode(<<>>))
           \/ Unlink(p)
           \/ \E off \in WriteOffsets, buf \in WriteBufs : Write(p, off, buf)

Spec == Init /\ [][Next]_<<fs, failed>>
=============================================================================
