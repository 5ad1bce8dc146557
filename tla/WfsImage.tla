------------------------------ MODULE WfsImage ------------------------------
(***************************************************************************)
(* The on-disk image of the log-structured filesystem (src/p7-fuse-log-fs) *)
(* and the scan primitives that mkfs, mount and fsck share.               *)
(*                                                                         *)
(* The image is abstracted to the superblock's head offset and the log as *)
(* a sequence of entries; walking the log by sizeof(inode)+size from      *)
(* sizeof(superblock) to head visits exactly the entries of the sequence, *)
(* so a byte offset into the log is an index into `log`, and the NULL     *)
(* pointer returned by the scans is index 0.  Byte sizes are kept: SB, LE *)
(* and DE are sizeof(struct wfs_sb), sizeof(struct wfs_log_entry) and     *)
(* sizeof(struct wfs_dentry); one payload byte of a file is one unit.     *)
(***************************************************************************)
EXTENDS Naturals, Sequences, SequencesExt

CONSTANTS
    SB, LE, DE,     \* record sizes in bytes
    DiskSize,       \* length of the image file (disk_size)
    SizeMod,        \* 2^32, the range of the u32 inode.size field (scaled)
    Names,          \* file names, compared only for equality (strcmp)
    Bytes,          \* values a client writes into a file
    Zero,           \* a byte of an image region never written (zero-filled)
    NoName          \* the empty name of an all-zero dentry

ASSUME /\ {SB, LE, DE, DiskSize, SizeMod} \subseteq Nat \ {0}
       /\ SB + LE <= DiskSize
       /\ SizeMod > DiskSize
       /\ Zero \notin Bytes
       /\ NoName \notin Names

VARIABLES
    log,    \* the entries in [sizeof(wfs_sb), head), in file order
    head    \* sb->head

imageVars == <<log, head>>

DIR == "dir"    \* __S_IFDIR
REG == "reg"    \* __S_IFREG
NULL == 0

Dentry == [name : Names \cup {NoName}, ino : Nat]
ZeroDentry == [name |-> NoName, ino |-> 0]

LogEntry == [ino : Nat, deleted : BOOLEAN, mode : {DIR, REG}, size : Nat,
             data : Seq(Dentry) \cup Seq(Bytes \cup {Zero})]

(* The dentry array of a directory entry: size / sizeof(wfs_dentry) records. *)
Dentries(e) == IF e.mode = DIR THEN e.data ELSE <<>>

(* A fresh live entry with the given payload (uid, gid, times abstracted). *)
NewEntry(i, m, d) ==
    [ino |-> i, deleted |-> FALSE, mode |-> m,
     size |-> IF m = DIR THEN Len(d) * DE ELSE Len(d), data |-> d]

(***************************************************************************)
(* mkfs.wfs: superblock with head = sizeof(sb) + sizeof(log_entry) and    *)
(* one empty root directory entry, inode 0.                               *)
(***************************************************************************)
Format ==
    /\ log = << NewEntry(0, DIR, <<>>) >>
    /\ head = SB + LE

(***************************************************************************)
(* find_latest_log_entry: the last entry with that inode number whose     *)
(* deleted flag is clear, or NULL.                                        *)
(***************************************************************************)
Latest(i) == SelectLastInSeq(log, LAMBDA e : e.ino = i /\ ~e.deleted)

(* find_max_inode_number: largest inode number in the log, deleted or not. *)
MaxInode == Max({0} \cup {log[k].ino : k \in DOMAIN log})

(***************************************************************************)
(* The inner loop of find_log_entry_by_path over entry k: the first dentry *)
(* named nm whose inode has a live entry (a dead one is skipped by        *)
(* `continue`); the result is that inode's latest entry, or NULL.         *)
(***************************************************************************)
MatchIn(k, nm) ==
    LET D    == Dentries(log[k])
        hits == {j \in DOMAIN D : D[j].name = nm /\ Latest(D[j].ino) # NULL}
    IN  IF hits = {} THEN NULL ELSE Latest(D[Min(hits)].ino)

(***************************************************************************)
(* The outer loop of find_log_entry_by_path.  From log position k it looks *)
(* for the next token in entry k; on a hit it jumps to the child's latest *)
(* entry and consumes the token, on a miss it moves on to the NEXT ENTRY  *)
(* OF THE LOG (whatever directory that is), until head is reached.        *)
(***************************************************************************)
RECURSIVE Scan(_, _)
Scan(k, toks) ==
    IF k > Len(log) THEN NULL
    ELSE LET m == MatchIn(k, Head(toks))
         IN  IF m = NULL THEN Scan(k + 1, toks)
             ELSE IF Len(toks) = 1 THEN m
             ELSE Scan(m, Tail(toks))

(***************************************************************************)
(* find_log_entry_by_path: "/" (no token) resolves to the latest entry of *)
(* the inode number read at offset sizeof(sb) (zero bytes read as inode   *)
(* 0 when the log is empty); otherwise the scan starts at the first entry.*)
(***************************************************************************)
Resolve(p) ==
    IF p = <<>>
    THEN Latest(IF log = <<>> THEN 0 ELSE log[1].ino)
    ELSE Scan(1, p)

(* separate_path_and_file: parent path and leaf name (names are atomic). *)
Split(p) == [parent |-> Front(p), leaf |-> Last(p)]

(***************************************************************************)
(* Type invariant: every entry is well formed and its payload size is the *)
(* size of its payload (a directory payload is a whole number of dentries).*)
(***************************************************************************)
TypeOK ==
    /\ log \in Seq(LogEntry)
    /\ head \in Nat
    /\ \A k \in DOMAIN log :
          \/ log[k].mode = DIR /\ log[k].data \in Seq(Dentry)
                               /\ log[k].size = Len(log[k].data) * DE
          \/ log[k].mode = REG /\ log[k].data \in Seq(Bytes \cup {Zero})
                               /\ log[k].size = Len(log[k].data)
=============================================================================
