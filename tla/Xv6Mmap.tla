------------------------------- MODULE Xv6Mmap -------------------------------
(***************************************************************************)
(* The mmap extension of the teaching kernel, p5 sysproc.c and proc.c:    *)
(* sys_mmap, sys_munmap, the mapping copy of fork, the PTE clearing of    *)
(* exit and the grows-up fault path cangrowup.  Each system call runs     *)
(* on the current process without sleeping (fork copies with ptable.lock *)
(* held), so each is one atomic step.                                    *)
(*                                                                         *)
(* Virtual pages of the mmap region 0x60000000 .. KERNBASE-1 are numbered *)
(* 0 .. NV-1; NV is KERNBASE.  pt[p][v] is the frame p's PTE for v maps, *)
(* None when not present.  maps[p] is mapEntries[0 .. NMAP-1] and idx[p]  *)
(* currentMappingIndex.  freelist is kmem.freelist: kalloc pops its head, *)
(* kfree pushes.  Only frames given to the mmap region are modelled; the  *)
(* kernel stacks and page tables fork allocates come from other frames.   *)
(* File contents are not modelled: a file-backed mapping differs from an *)
(* anonymous one only in that fileread may fail.                          *)
(***************************************************************************)
EXTENDS Integers, Sequences, SequencesExt, FiniteSets, FiniteSetsExt

CONSTANTS
    Procs,      \* process table slots
    Root,       \* the process the test runs as; it never exits
    Frames,     \* physical frames on the free list at start
    InitFree,   \* the order kinit leaves them in
    NV,         \* pages in the mmap region: KERNBASE, in pages
    NMAP,       \* entries of mapEntries (100 in proc.h)
    MaxCalls,   \* model bound: successful mmaps per process lifetime
    Lengths,    \* page counts a caller passes (length rounded up)
    FixedAddrs, \* page numbers a caller passes with MAP_FIXED
    Bogus,      \* the frame V2P(0) or PTE_ADDR(0): no frame of the pool
    None        \* a PTE that is not present

ASSUME /\ Root \in Procs
       /\ InitFree \in Seq(Frames) /\ ToSet(InitFree) = Frames
       /\ Len(InitFree) = Cardinality(Frames)
       /\ NV \in Nat \ {0} /\ NMAP \in Nat \ {0} /\ MaxCalls \in Nat
       /\ Lengths \subseteq Nat \ {0} /\ FixedAddrs \subseteq Int
       /\ {Bogus, None} \cap Frames = {}

VARIABLES
    state,      \* state[p]: "live" (EMBRYO..ZOMBIE) or "unused"
    pt,         \* pt[p][v]: frame mapped at region page v, or None
    maps,       \* maps[p][i]: mapEntries[i]
    idx,        \* idx[p]: currentMappingIndex
    freelist,   \* kmem.freelist
    panicked    \* the kernel has panicked and halted

vars == <<state, pt, maps, idx, freelist, panicked>>

Region == 0..(NV - 1)
NoVa == -1          \* (void* )0: an address below the region
NoIdx == -1
Flags == {"SHARED", "PRIVATE", "ANON", "FIXED", "GROWSUP"}
Entry == [valid : BOOLEAN, start : Region \cup {NoVa}, npages : 0..NV,
          flags : SUBSET Flags, guard : 0..NV \cup {NoVa}]
Invalid == [valid |-> FALSE, start |-> NoVa, npages |-> 0, flags |-> {},
            guard |-> NoVa]
Slots == 0..(NMAP - 1)

(* The flags read after sys_mmap returns (the file write-back of munmap, *)
(* which also reads ANON, is not modelled).                              *)
Kept == {"SHARED", "PRIVATE", "GROWSUP"}
Live == {p \in Procs : state[p] = "live"}

(* The flag words that pass sys_mmap's checks: one of SHARED, PRIVATE. *)
FlagSets == {{k} \cup x : k \in {"SHARED", "PRIVATE"},
                          x \in SUBSET {"ANON", "FIXED", "GROWSUP"}}

(* The test process was forked: its mapping metadata is cleared. *)
Init ==
    /\ state = [p \in Procs |-> IF p = Root THEN "live" ELSE "unused"]
    /\ pt = [p \in Procs |-> [v \in Region |-> None]]
    /\ maps = [p \in Procs |-> [i \in Slots |-> Invalid]]
    /\ idx = [p \in Procs |-> 0]
    /\ freelist = InitFree
    /\ panicked = FALSE

(* canallocatva: the n pages from va are all in the region and unmapped. *)
CanAllocate(row, va, n) == \A v \in va..(va + n - 1) : v \in Region /\ row[v] = None

(* The search loop of sys_mmap: the lowest page where n pages fit. *)
FirstFit(row, n) ==
    LET C == {v \in Region : CanAllocate(row, v, n)}
    IN  IF C = {} THEN NoVa ELSE Min(C)

(* findfreevirtualaddress: the same search, in the parent's table. *)
FindFreeVa(row, n) == FirstFit(row, n)

(* ispamapped: some process not UNUSED maps frame f in the region. *)
IsPaMappedFirstOnly(ptab, f) == \E v \in Region : ptab[Root][v] = f
IsPaMapped(ptab, f) ==
    \E q \in Procs : state[q] # "unused" /\ \E v \in Region : ptab[q][v] = f

(* findmappingmetadata: the first valid entry starting at va. *)
FindMapping(p, va) ==
    LET I == {i \in Slots : maps[p][i].valid /\ maps[p][i].start = va}
    IN  IF I = {} THEN NoIdx ELSE Min(I)

(***************************************************************************)
(* clearpte, on an accumulator [pt, fl, ok, panic]: -1 for a page that is *)
(* not present; otherwise zero the PTE and kfree the frame unless some    *)
(* process still maps it.  kfree of a frame outside the pool panics.      *)
(***************************************************************************)
ClearPte(a, p, v) ==
    IF v \notin Region \/ a.pt[p][v] = None THEN [a EXCEPT !.ok = FALSE]
    ELSE LET f   == a.pt[p][v]
             npt == [a.pt EXCEPT ![p][v] = None]
         IN  IF IsPaMapped(npt, f) THEN [a EXCEPT !.pt = npt, !.ok = TRUE]
             ELSE IF f = Bogus THEN [a EXCEPT !.panic = TRUE]
             ELSE [a EXCEPT !.pt = npt, !.fl = <<f>> \o @, !.ok = TRUE]

Start == [pt |-> pt, fl |-> freelist, ok |-> TRUE, panic |-> FALSE]

Panic == panicked' = TRUE /\ UNCHANGED <<state, pt, maps, idx, freelist>>

(* The end of sys_mmap: the entry goes to mapEntries[currentMappingIndex] *)
(* and the index is incremented.                                          *)
StoreMapping(p, e) ==
    /\ maps' = IF idx[p] < NMAP THEN [maps EXCEPT ![p][idx[p]] = e] ELSE maps
    /\ idx' = [idx EXCEPT ![p] = @ + 1]

(***************************************************************************)
(* sys_mmap after its argument checks: kalloc all pages first (on a      *)
(* failure the ones taken are kfreed, in order, so the list is reversed), *)
(* then place, check the guard page, map, read the file, and record the  *)
(* metadata at currentMappingIndex.  Every return -1 after the kalloc    *)
(* loop keeps the frames taken; the one after mapping keeps them mapped. *)
(* A write past mapEntries (idx >= NMAP) is not modelled.                 *)
(***************************************************************************)
Mmap(p, fl, addr, n, readOk) ==
    LET pages     == SubSeq(freelist, 1, n)
        rest      == SubSeq(freelist, n + 1, Len(freelist))
        va        == IF "FIXED" \in fl THEN addr ELSE FirstFit(pt[p], n)
        placed    == IF "FIXED" \in fl
                     THEN addr \in Region /\ CanAllocate(pt[p], addr, n)
                     ELSE va # NoVa
        guard     == IF "GROWSUP" \in fl THEN va + n ELSE NoVa
        guardFree == "GROWSUP" \notin fl \/ CanAllocate(pt[p], guard, 1)
        mapped    == [v \in Region |-> IF va <= v /\ v < va + n
                                       THEN pages[v - va + 1] ELSE pt[p][v]]
        entry     == [valid |-> TRUE, start |-> va, npages |-> n,
                      flags |-> fl \cap Kept, guard |-> guard]
    IN  /\ state[p] = "live"
        /\ ~panicked
        /\ idx[p] < MaxCalls
        /\ IF Len(freelist) < n
           THEN /\ freelist' = Reverse(freelist)
                /\ UNCHANGED <<pt, maps, idx>>
           ELSE IF ~placed \/ ~guardFree
           THEN /\ freelist' = rest
                /\ UNCHANGED <<pt, maps, idx>>
           ELSE /\ freelist' = rest
                /\ pt' = [pt EXCEPT ![p] = mapped]
                /\ IF "ANON" \notin fl /\ ~readOk
                   THEN UNCHANGED <<maps, idx>>
                   ELSE StoreMapping(p, entry)
        /\ UNCHANGED <<state, panicked>>

(***************************************************************************)
(* sys_munmap: find the entry starting at va, then clearpte each of the   *)
(* n pages the CALLER names (not numPages of the entry), returning -1 at *)
(* the first failure with the entry still valid; on success clear it.    *)
(* The write-back of a shared file mapping is not modelled.               *)
(***************************************************************************)
Munmap(p, va, n) ==
    LET i   == FindMapping(p, va)
        res == FoldLeft(LAMBDA a, v : IF a.ok /\ ~a.panic THEN ClearPte(a, p, v)
                                                          ELSE a,
                        Start, [k \in 1..n |-> va + k - 1])
    IN  /\ state[p] = "live"
        /\ ~panicked
        /\ i # NoIdx
        /\ IF res.panic THEN Panic
           ELSE /\ pt' = res.pt
                /\ freelist' = res.fl
                /\ maps' = IF res.ok THEN [maps EXCEPT ![p][i] = Invalid] ELSE maps
                /\ UNCHANGED <<state, idx, panicked>>

(***************************************************************************)
(* copymemorymappings, one parent entry, on an accumulator [row, fl,     *)
(* maps, idx, stop, panic] for the child.  A valid entry in the region   *)
(* is recorded, then a PRIVATE one gets fresh frames holding a copy of   *)
(* the parent's pages and a SHARED one the parent's own frames.  kalloc  *)
(* failure and no free temporary address return -1 (the frames taken    *)
(* leak); mappages on a present PTE and memmove from an unmapped parent  *)
(* page panic; a parent PTE that is not present yields frame PTE_ADDR(0). *)
(***************************************************************************)
CopyPrivateAsShared(a, p, e) ==
    LET S == e.start..(e.start + e.npages - 1)
    IN  IF \E v \in S : v \notin Region \/ a.row[v] # None
        THEN [a EXCEPT !.panic = TRUE]
        ELSE [a EXCEPT !.row = [v \in Region |-> IF v \in S THEN pt[p][v] ELSE @[v]]]
CopyPrivate(a, p, e) ==
    LET n     == e.npages
        S     == e.start..(e.start + n - 1)
        pages == SubSeq(a.fl, 1, n)
    IN  IF Len(a.fl) < n THEN [a EXCEPT !.fl = Reverse(@), !.stop = TRUE]
        ELSE IF FindFreeVa(pt[p], n) = NoVa
        THEN [a EXCEPT !.fl = SubSeq(@, n + 1, Len(@)), !.stop = TRUE]
        ELSE IF \E v \in S : v \notin Region \/ a.row[v] # None \/ pt[p][v] = None
        THEN [a EXCEPT !.panic = TRUE]
        ELSE [a EXCEPT !.fl = SubSeq(@, n + 1, Len(@)),
                       !.row = [v \in Region |-> IF v \in S THEN pages[v - e.start + 1]
                                                ELSE @[v]]]

CopyShared(a, p, e) ==
    LET S == e.start..(e.start + e.npages - 1)
    IN  IF \E v \in S : v \notin Region \/ a.row[v] # None
        THEN [a EXCEPT !.panic = TRUE]
        ELSE [a EXCEPT !.row = [v \in Region |-> IF v \notin S THEN @[v]
                                                ELSE IF pt[p][v] = None THEN Bogus
                                                ELSE pt[p][v]]]

CopyMapping(a, p, i) ==
    LET e  == maps[p][i]
        a1 == [a EXCEPT !.maps = IF a.idx < NMAP THEN [@ EXCEPT ![a.idx] = e] ELSE @,
                        !.idx = @ + 1]
    IN  IF ~e.valid \/ e.start \notin Region THEN a
        ELSE IF "PRIVATE" \in e.flags THEN CopyPrivate(a1, p, e)
        ELSE CopyShared(a1, p, e)

(***************************************************************************)
(* fork: allocproc takes an UNUSED slot; the child's page table has no   *)
(* region PTE (copyuvm copies below sz), its metadata is cleared, then   *)
(* entries 0 .. currentMappingIndex of the parent are copied.  A -1 from *)
(* the copy is only printed: fork still returns the child.               *)
(***************************************************************************)
ForkStaleIndex(c) == idx[c]
ForkIndex(c) == 0

Fork(p) ==
    LET c    == CHOOSE c \in Procs : state[c] = "unused"
        base == [row |-> [v \in Region |-> None], fl |-> freelist,
                 maps |-> [i \in Slots |-> Invalid], idx |-> ForkIndex(c),
                 stop |-> FALSE, panic |-> FALSE]
        last == IF idx[p] < NMAP THEN idx[p] ELSE NMAP - 1
        res  == FoldLeft(LAMBDA a, i : IF a.stop \/ a.panic THEN a
                                       ELSE CopyMapping(a, p, i),
                         base, [k \in 1..(last + 1) |-> k - 1])
    IN  /\ state[p] = "live"
        /\ ~panicked
        /\ \E q \in Procs : state[q] = "unused"
        /\ IF res.panic THEN Panic
           ELSE /\ state' = [state EXCEPT ![c] = "live"]
                /\ pt' = [pt EXCEPT ![c] = res.row]
                /\ maps' = [maps EXCEPT ![c] = res.maps]
                /\ idx' = [idx EXCEPT ![c] = res.idx]
                /\ freelist' = res.fl
                /\ UNCHANGED panicked

(***************************************************************************)
(* exit: clearpte every present PTE of the region (a -1 is only printed), *)
(* then ZOMBIE; the parent's wait makes the slot UNUSED.  A zombie maps   *)
(* nothing in the region, so the two are one step here.                   *)
(***************************************************************************)
Exit(p) ==
    LET res == FoldLeft(LAMBDA a, v : IF a.panic \/ a.pt[p][v] = None THEN a
                                      ELSE ClearPte(a, p, v),
                        Start, [k \in 1..NV |-> k - 1])
    IN  /\ p # Root
        /\ state[p] = "live"
        /\ ~panicked
        /\ IF res.panic THEN Panic
           ELSE /\ pt' = res.pt
                /\ freelist' = res.fl
                /\ state' = [state EXCEPT ![p] = "unused"]
                /\ UNCHANGED <<maps, idx, panicked>>

(***************************************************************************)
(* A fault on unmapped region page v runs cangrowup: the first valid      *)
(* GROWSUP entry whose guard page (start + numPages) is v and whose next *)
(* page is free maps a kalloc'd frame at v (kalloc's 0 unchecked) and    *)
(* grows by one page.  If none matches nothing changes.                  *)
(***************************************************************************)
GrowUp(p, v) ==
    LET last == IF idx[p] < NMAP THEN idx[p] ELSE NMAP - 1
        C    == {i \in 0..last :
                   LET e == maps[p][i]
                   IN  /\ e.valid /\ e.start \in Region
                       /\ v = e.start + e.npages
                       /\ CanAllocate(pt[p], v + 1, 1)
                       /\ "GROWSUP" \in e.flags}
        i    == Min(C)
    IN  /\ state[p] = "live"
        /\ ~panicked
        /\ pt[p][v] = None
        /\ C # {}
        /\ pt' = [pt EXCEPT ![p][v] = IF freelist = <<>> THEN Bogus ELSE Head(freelist)]
        /\ freelist' = IF freelist = <<>> THEN <<>> ELSE Tail(freelist)
        /\ maps' = [maps EXCEPT ![p][i].npages = @ + 1, ![p][i].guard = @ + 1]
        /\ UNCHANGED <<state, idx, panicked>>

Next ==
    \E p \in Procs :
        \/ \E fl \in FlagSets, n \in Lengths, readOk \in BOOLEAN :
              \E addr \in (IF "FIXED" \in fl THEN FixedAddrs ELSE {NoVa}) :
                  Mmap(p, fl, addr, n, readOk \/ "ANON" \in fl)
        \/ \E va \in Region, n \in Lengths : Munmap(p, va, n)
        \/ Fork(p)
        \/ Exit(p)
        \/ \E v \in Region : GrowUp(p, v)

Spec == Init /\ [][Next]_vars

-----------------------------------------------------------------------------
TypeOK ==
    /\ state \in [Procs -> {"live", "unused"}]
    /\ pt \in [Procs -> [Region -> Frames \cup {Bogus, None}]]
    /\ maps \in [Procs -> [Slots -> Entry]]
    /\ idx \in [Procs -> 0..MaxCalls]
    /\ freelist \in Seq(Frames)
    /\ panicked \in BOOLEAN

(***************************************************************************)
(* FreedFramesUnmapped: a frame on kmem.freelist is there once and no     *)
(* process maps it.  It fails if munmap's or exit's clearpte frees a     *)
(* frame that fork shared with another process, or a frame is freed twice *)
(* (kfree would make the free list a cycle and kalloc hand it out twice). *)
(***************************************************************************)
FreedFramesUnmapped ==
    /\ IsInjective(freelist)
    /\ \A f \in ToSet(freelist) : ~IsPaMapped(pt, f)

(***************************************************************************)
(* PrivateNotShared: a frame a MAP_PRIVATE mapping maps is mapped at no   *)
(* other page of any process: fork gives the child its own copy, so a    *)
(* write by one process is never seen by another.                         *)
(***************************************************************************)
PrivateNotShared ==
    \A p \in Live, i \in Slots :
        LET e == maps[p][i]
        IN  e.valid /\ "PRIVATE" \in e.flags =>
              \A v \in e.start..(e.start + e.npages - 1) \cap Region :
                  pt[p][v] \in Frames =>
                    \A q \in Live, w \in Region :
                        <<q, w>> # <<p, v>> => pt[q][w] # pt[p][v]
=============================================================================
