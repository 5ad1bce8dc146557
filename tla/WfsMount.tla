------------------------------ MODULE WfsMount ------------------------------
(***************************************************************************)
(* The mount server mount.wfs.c: the FUSE handlers that change the image  *)
(* (mknod, mkdir, write, unlink) as actions, and the read-only handlers   *)
(* (getattr, read, readdir) as operators over the image.  FUSE dispatches *)
(* one operation at a time, so each handler is one atomic step.           *)
(***************************************************************************)
EXTENDS WfsImage

CONSTANTS
    MaxDepth,       \* longest path (number of components) a client names
    WriteOffsets,   \* offsets a client writes at
    WriteBufs,      \* buffers a client writes (non-empty sequences of Bytes)
    MaxInodeBound   \* model bound: no inode number above it is handed out

ASSUME /\ MaxDepth \in Nat \ {0}
       /\ WriteOffsets \subseteq Nat
       /\ WriteBufs \subseteq Seq(Bytes) \ {<<>>}
       /\ MaxInodeBound \in Nat \ {0}

VARIABLE ret     \* return value of the last handler

mountVars == <<log, head, ret>>

ENOENT == 2
EEXIST == 17
ENOTDIR == 20
EISDIR == 21
ENOSPC == 28

Paths == UNION {[1..n -> Names] : n \in 1..MaxDepth}
AllPaths == Paths \cup {<<>>}

(***************************************************************************)
(* The kernel reaches a path only through lookups of its prefixes, each a *)
(* getattr that must report a directory.  This is the bridge's contract, *)
(* not code of the repository.                                            *)
(***************************************************************************)
KernelLookup(p) ==
    \A n \in 1..(Len(p) - 1) :
        LET k == Resolve(SubSeq(p, 1, n)) IN k # NULL /\ log[k].mode = DIR

Fail(code) == ret' = -code /\ UNCHANGED imageVars

(***************************************************************************)
(* wfs_getattr, wfs_read and wfs_readdir: they never write the image.     *)
(***************************************************************************)
Getattr(p) ==
    LET k == Resolve(p)
    IN  IF k = NULL THEN [ret |-> -ENOENT]
        ELSE [ret |-> 0, ino |-> log[k].ino, mode |-> log[k].mode,
              size |-> log[k].size]

Read(p, off, n) ==
    LET k == Resolve(p)
        e == log[k]
        cnt == IF n > e.size - off THEN e.size - off ELSE n
    IN  IF k = NULL THEN [ret |-> -ENOENT, buf |-> <<>>]
        ELSE IF off >= e.size THEN [ret |-> 0, buf |-> <<>>]
        ELSE [ret |-> cnt, buf |-> SubSeq(e.data, off + 1, off + cnt)]

Readdir(p) ==
    LET k == Resolve(p)
        D == Dentries(log[k])
    IN  IF k = NULL THEN [ret |-> -ENOENT, names |-> <<>>]
        ELSE IF log[k].mode = REG THEN [ret |-> -ENOTDIR, names |-> <<>>]
        ELSE [ret |-> 0,
              names |-> <<".", "..">> \o [j \in DOMAIN D |-> D[j].name]]

(* The number a new file or directory gets: find_max_inode_number() + 1. *)
NewInode == MaxInode + 1

(* The parent's entry copied and extended by the dentry {leaf, new}. *)
AddDentryNoSize(par, leaf, new) ==
    [par EXCEPT !.data = Append(@, [name |-> leaf, ino |-> new])]
AddDentry(par, leaf, new) ==
    [par EXCEPT !.size = @ + DE,
                !.data = Append(@, [name |-> leaf, ino |-> new])]

(***************************************************************************)
(* wfs_mknod / wfs_mkdir.  After the existence checks the new parent entry *)
(* is appended and head advanced; only THEN is the room for the child's   *)
(* entry checked, so the second ENOSPC return leaves the parent entry,    *)
(* with a dentry naming an inode that has no entry, in the log.          *)
(***************************************************************************)
CreateEntry(p, mode) ==
    LET k      == Resolve(p)
        pk     == Resolve(Split(p).parent)
        par    == log[pk]
        newPar == AddDentry(par, Split(p).leaf, NewInode)
        mid    == head + LE + newPar.size
    IN  IF k # NULL THEN Fail(EEXIST)
        ELSE IF pk = NULL THEN Fail(ENOENT)
        ELSE IF head + LE + par.size + DE > DiskSize THEN Fail(ENOSPC)
        ELSE IF mid + LE > DiskSize
             THEN /\ log' = Append(log, newPar)
                  /\ head' = mid
                  /\ ret' = -ENOSPC
        ELSE /\ log' = log \o << newPar, NewEntry(NewInode, mode, <<>>) >>
             /\ head' = mid + LE
             /\ ret' = 0

(* Inode numbers grow across unlink and fsck; the model caps them. *)
InodeBudget == MaxInode < MaxInodeBound

Mknod(p) == KernelLookup(p) /\ InodeBudget /\ CreateEntry(p, REG)

Mkdir(p) == KernelLookup(p) /\ InodeBudget /\ CreateEntry(p, DIR)

(***************************************************************************)
(* wfs_write: a new regular-file entry of size max(offset+size, old size): *)
(* the old payload, then the buffer at offset.  Bytes between the old end *)
(* and offset are whatever the region past head held: zero.  The kernel  *)
(* writes only to a path getattr reports as a regular file.              *)
(***************************************************************************)
(* The room check of wfs_write: header and payload must fit below disk_size. *)
WriteFitsNoHeader(newSize) == head + newSize <= DiskSize
WriteFits(newSize) == head + LE + newSize <= DiskSize

Write(p, off, buf) ==
    LET k       == Resolve(p)
        old     == log[k]
        newSize == IF off + Len(buf) > old.size THEN off + Len(buf) ELSE old.size
        byte(i) == IF off < i /\ i <= off + Len(buf) THEN buf[i - off]
                   ELSE IF i <= old.size THEN old.data[i]
                   ELSE Zero
    IN  /\ KernelLookup(p)
        /\ k # NULL => old.mode = REG
        /\ IF k = NULL THEN Fail(ENOENT)
           ELSE IF ~WriteFits(newSize) THEN Fail(ENOSPC)
           ELSE /\ log' = Append(log, NewEntry(old.ino, REG,
                                               [i \in 1..newSize |-> byte(i)]))
                /\ head' = head + LE + newSize
                /\ ret' = Len(buf)

(***************************************************************************)
(* delete_log_entries: set the deleted flag of every entry of the inode;  *)
(* the result is 1 if some entry was live, else -1.                       *)
(***************************************************************************)
TombstonedNone(i) == log
Tombstoned(i) ==
    [j \in DOMAIN log |-> IF log[j].ino = i
                          THEN [log[j] EXCEPT !.deleted = TRUE] ELSE log[j]]

(***************************************************************************)
(* The parent entry wfs_unlink appends: size sizeof(dentry) * (n - 1), a  *)
(* size_t product stored in the u32 size field, holding in order the     *)
(* dentries not naming inode i; a reader sees only the first n - 1 slots, *)
(* and a slot past the copied ones holds zero bytes.                      *)
(***************************************************************************)
NewParentEntry(par, i) ==
    LET n     == par.size \div DE
        kept  == SelectSeq(Dentries(par), LAMBDA d : d.ino # i)
        slots == IF n > 0 THEN n - 1 ELSE 0
    IN  [ino |-> par.ino, deleted |-> FALSE, mode |-> DIR,
         size |-> (DE * (n - 1)) % SizeMod,
         data |-> [j \in 1..slots |-> IF j <= Len(kept) THEN kept[j] ELSE ZeroDentry]]

(***************************************************************************)
(* wfs_unlink.  The entries of the inode are tombstoned BEFORE the space  *)
(* check, so an ENOSPC return leaves the file removed but its dentry in   *)
(* the parent.                                                            *)
(***************************************************************************)
Unlink(p) ==
    LET k     == Resolve(p)
        pk    == Resolve(Split(p).parent)
        i     == log[k].ino
        par   == log[pk]
        n     == par.size \div DE
        res   == \E j \in DOMAIN log : log[j].ino = i /\ ~log[j].deleted
        newPar == NewParentEntry(par, i)
    IN  /\ KernelLookup(p)
        /\ IF k = NULL THEN Fail(ENOENT)
           ELSE IF log[k].mode = DIR THEN Fail(EISDIR)
           ELSE IF pk = NULL THEN Fail(ENOENT)
           ELSE IF head + LE + DE * (n - 1) > DiskSize
                THEN /\ log' = Tombstoned(i)
                     /\ head' = head
                     /\ ret' = -ENOSPC
           ELSE /\ log' = Append(Tombstoned(i), newPar)
                /\ head' = head + LE + newPar.size
                /\ ret' = IF res THEN 0 ELSE -ENOENT

MountInit ==
    /\ Format
    /\ ret = 0

MountNext ==
    \/ \E p \in Paths : Mknod(p) \/ Mkdir(p) \/ Unlink(p)
    \/ \E p \in Paths, off \in WriteOffsets, buf \in WriteBufs : Write(p, off, buf)
=============================================================================
