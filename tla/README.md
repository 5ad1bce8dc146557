# TLA+ models of the repository

This directory holds TLA+ models of the programs under `src/`. They are
checked with TLC. The main subject is the log-structured FUSE filesystem
(`src/p7-fuse-log-fs`). The proxy's queue and threads (`src/p6-...`) and the
mmap extension of the teaching kernel (`src/p5-...`) and the job control of
the shell (`src/p3-custom-shell`) are modelled too, and so are the manual-page
utilities (`src/p1-unix-utilities`). What is left out is listed in the
inventory and under "Not modelled", with the reason.

## 1. Inventory

### 1.1 The log-structured filesystem (src/p7-fuse-log-fs)

Three executables share one image file. They never run at the same time.

| part | file | state it keeps | operations |
|---|---|---|---|
| image and scan helpers | `mount.wfs.c` 47-179, same copies in `fsck.wfs.c` | the superblock (`head`) and the log of entries in `[sizeof(sb), head)`; each entry is an inode record (number, deleted flag, mode, size) plus payload (dentries or file bytes) | `find_latest_log_entry`, `find_max_inode_number`, `find_log_entry_by_path`, `separate_path_and_file`, `delete_log_entries` (in-place tombstoning) |
| mkfs.wfs | `mkfs.wfs.c` | writes the image once | format: `head = sizeof(sb)+sizeof(entry)`, an empty root directory with inode 0 |
| mount.wfs | `mount.wfs.c` 182-559 | the mapped image; FUSE calls one handler at a time | getattr, read, readdir (read-only); mknod, mkdir, write, unlink (append entries, advance `head`, unlink also tombstones in place) |
| fsck.wfs | `fsck.wfs.c` | builds a compacted copy in memory, then overwrites the image | keep, in ascending inode order, the latest live entry of each inode 0..max; `memset` the image, then `memcpy` the copy |

**How they interact.** Every handler starts by resolving paths. The scan
walks the log in file order. A directory entry's dentry names a child inode,
and the child's *latest* live entry is its current state. Creation appends a
new version of the parent directory and then the child. Unlink tombstones
every entry of the inode and then appends a parent version without the
dentry. New inode numbers come from `max(inode numbers in the log) + 1`. fsck
removes dead inodes, so after fsck that maximum can fall.

**What is hard.**
- Failures part-way through a handler. A handler can return ENOSPC after it
  has already written or tombstoned something.
- Resolution depends on log order. Compaction changes that order, and the
  scan continues across unrelated entries.
- Unsigned arithmetic on sizes.
- Inode numbers are reused after compaction.
- The whole-image overwrite in fsck is not crash-atomic.

**Properties the system should have** (spec.md 3 and 8):
- `head` stays within the disk.
- Resolution follows the directory tree.
- `/` is always inode 0.
- A failed operation leaves `head` alone.
- Compaction changes nothing a client sees, and running it twice gives the
  same image.
- Clients see a tree filesystem (create, write, unlink) and nothing else.

### 1.2 The other programs

| part | files | state | what is hard |
|---|---|---|---|
| proxy priority queue (modelled) | `p6-.../safequeue.c` | array of requests, `curr_size`, mutex, condition variable | blocking `get_work` against `add_work`; the priority search starts at -1; the shift reads one past the end |
| proxy threads (modelled, I/O abstracted) | `p6-.../proxyserver.c` | listener threads (enqueue, or answer `/GetJob` with a non-blocking take) and worker threads (take, sleep, forward) | a GetJob take racing a worker; priority -1 looks the same as "empty"; starvation of low priorities |
| xv6 mmap (modelled) | `p5-.../sysproc.c` 99-358, `proc.c` 575-787 | per-process `mapEntries[100]`, `currentMappingIndex`, page tables, physical pages | pages leaked on failure paths; mapping slots never reused; guard-page growth; shared and private mappings inherited on fork; partial munmap |
| xv6 process code | `proc.c` 1-573 | stock teaching-kernel scheduler and process table | unchanged apart from the mapping hooks in fork and exit |
| wsh job control (modelled) | `p3-custom-shell/wsh.c` | `Jobs[256]`, `jobIDs[256]`, `numJobs`, foreground group | job slots never reused; job IDs run out; fg/bg with stopped jobs and process groups |
| wsh parsing, exit, cd (modelled) | `wsh.c` 166-277, 632-669 | none beyond the line being run | a line with no word before its first '\|' (an empty line, `\|a`) makes `strcmp` dereference NULL; a pipeline whose last command has no words reads `finalCommandArgs[-1]` |
| wgroff, wapropos, wman (modelled) | `p1-unix-utilities` | the files under `man_pages/manN`, written by the user from wgroff's output | wapropos reads wgroff's output: section boundaries are recognised by the layout wgroff writes (blank lines, bold titles, seven-space indent), and the footer and the name line do not follow the rules |

Every hazard found in this survey is listed, at its source line, in
`PROJECT.json` under "hazards". Each entry names the properties that cover
it, or says why none does yet.

## 2. Plan

1. **Done:** the image and scan helpers (`WfsImage`) and mkfs.
2. **Done:** the mount server's handlers (`WfsMount`).
3. **Done:** fsck (`WfsFsck`), including its crash window.
4. **Done:** the composition (`WfsSystem`), the abstract filesystem
   (`AbstractFs`) with a refinement mapping, and the MC instance (`MCWfs`).
   The refinement does not hold: see `mount_refines`.
5. **Done:** the proxy: `SafeQueue` (the queue under its mutex and
   condition variable) and `ProxyServer` (listener connections and worker
   threads), with conservation of jobs, wakeups, dispatch order and
   liveness of jobs under fair workers. Still to do: an abstract dispatcher
   specification refined by it.
6. **Done:** xv6 mmap/munmap/fork/exit and the grows-up fault (`Xv6Mmap`)
   over two process slots, two frames and three region pages, with frame
   accounting (no frame freed while mapped, private frames not shared).
7. **Done:** wsh job control (`WshJobs`): the job table and job IDs, the
   terminal's foreground group, and the children's process groups under
   fg/bg/jobs, Ctrl-C, Ctrl-Z, exits and terminal reads, driven by typed
   lines that `WshParse` splits as `parseLine` and `parseCommand` do; the
   shell regaining its prompt is checked as liveness.
8. **Done:** the manual-page utilities (`ManPages`): wgroff's conversion,
   the installed tree, and wapropos and wman reading it.
9. More filesystem work: deeper paths together with fsck, and readdir of
   dangling dentries.

## 3. Modules

| module | models | state and actions |
|---|---|---|
| `WfsImage` | on-disk layout, the mkfs formatter, the scan helpers | `log` (sequence of entry records `[ino, deleted, mode, size, data]`), `head`; `Format`, `Latest`, `MaxInode`, `MatchIn`, `Scan` (recursive, in the scan's own order), `Resolve`, `Split` |
| `WfsMount` | the FUSE handlers | adds `ret`; `Mknod`, `Mkdir` (both via `CreateEntry`), `Write`, `Unlink` as actions; `Getattr`, `Read`, `Readdir` as operators |
| `WfsFsck` | fsck.wfs | `Fsck` (the whole pass as one step), `FsckCrash` (killed between memset and memcpy) |
| `AbstractFs` | what the filesystem promises | `fs`: a map from path to nothing, a directory, or a file with bytes; `failed`: whether the last operation reported an error; `Create`, `Write` (gap bytes are arbitrary), `Unlink`, `Observe` (a read), `Fail` (an error that changes nothing) |
| `WfsSystem` | mkfs, then mount sessions and fsck runs in any order | `Spec`, `MountSpec` (no fsck), `CrashSpec` (fsck may crash); `AbsView` maps the image to `fs`; `Abs` also maps `ret < 0` to `failed`, `Blind` maps `failed` to FALSE; all properties |
| `MCWfs` | instance for TLC | two names, one byte value, write offsets {0,1}, one-byte buffers |
| `SafeQueue` | safequeue.c | `requests` (the array prefix `requests[0..curr_size-1]`), `below` (the word `requests[-1]`, written when the search loop ends at index -1), `waiting` (threads blocked in `pthread_cond_wait`); `AddWork` with `Signal`, `Best` (the search loop as a fold), `Taken`, `RemoveTaken` (the shift loop), `GetWorkBlocks`/`GetWorkTakes`, `GetWorkNonblocking`, `SpuriousWakeup` |
| `ProxyServer` | proxyserver.c | adds `pc` and `hand` per worker, and the connections' outcomes (`arrived`, `responses`, `stolen`); `ListenJob(c)`, `ListenBadRequest(c)`, `ListenGetJob`, `WorkerGet(w)`, `WorkerWakeup(w)`, `WorkerServe(w)` |
| `MCProxy` | instance for TLC | clients c1, c2 (priority 1) and c3, c4 (priority 2; in the negative run c3 alone has 2, the rest -1); workers w1, w2, w3 |
| `Xv6Mmap` | sysproc.c `sys_mmap`, `sys_munmap`; proc.c `fork`, `exit` (their mapping parts), `ispamapped`, `findmappingmetadata`, `cangrowup`, `copymemorymappings` | `state` (slot UNUSED or not), `pt` (each process's PTEs of the mmap region), `maps` (`mapEntries`), `idx` (`currentMappingIndex`), `freelist` (`kmem.freelist`), `panicked`; `Mmap` (ending in `StoreMapping`), `Munmap`, `Fork` (with `CopyMapping`, `CopyPrivate`, `CopyShared`), `Exit`, `GrowUp` |
| `MCXv6` | instance for TLC | process slots p1 (the test process, never exits) and p2; frames f1, f2 |
| `WshParse` | wsh.c `parseLine`, `parseCommand`, the first-word dispatch of `runInteractiveMode`, `atoi` | operators only: `Split` (successive `strsep`, recursive), `Tokens` (empty tokens dropped), `ParseLine`, `ParseCommand`, `Argv` (the words before the first '\|'), `IsPipeline`, `FinalArgs`, `Atoi` |
| `WshJobs` | wsh.c: `updateBackgroundJobStatus`, `storeJobInfo`, the job-ID searches, `execExternalCommand`, `execExternalJob`, `execFgCommand`, `execBgCommand`, `execCdCommand`, `execJobsCommand`, the interactive loop's dispatch | `spc` (the shell's place in its loop), `cmd` (the line being run: kind, forked pids, wait index), `proc` (each child's state, process group, and place between fork and exec), `tty` (the terminal's foreground group), `jobs`, `ids`, `numJobs`. Shell actions `Prompt`, `Quit` (end of input), and for a typed line `l`: `LineExits(l)`, `CdCmd(l)`, `JobsCmd(l)`, `FgCmd(l)`, `BgCmd(l)`, `ExternalCommand(l)`, `ExternalJob(l)`; then `ParentFork`, `ParentSetpgid`, `ForkLoopDone`, `WaitCommand`, `WaitJob`, `FgWaitCommand`, `FgWaitJob`; child actions `ChildSetpgid`, `ChildTcsetpgrp`, `ChildExec`; user and command actions `CtrlC`, `CtrlZ`, `CommandExits`, `TerminalRead` |
| `MCWsh` | instance for TLC | three pids, job IDs 1..3, and `MCLines`: fifteen lines (commands and pipelines with and without `&`, fg/bg with IDs 1, 2, 0 and none, jobs with and without a word, cd, exit, `\|a`, `a\| `) |
| `ManPages` | wgroff.c, wapropos.c, wman.c | `man` (the page installed as `man<s>/<c>.<s>`, with its source), `out` (what the last program printed); actions `Wgroff(src)` (convertFile, then the user installs the file), `Wapropos(kw)`, `WmanSection(a, c)`, `WmanGlobal(c)`; operators `Pass` (one replacement pass, recursive), `ConvertFormattingMarks`, `WriteLine`/`ConvertFile`, `ReadLine`/`FileSearch` (fileSearch's loop as a fold), `SectionSearch`, `ValidSection` |
| `MCManPages` | instance for TLC | command `ls`, sections 1 and 2, three text lines, keywords `a` and `2` (a digit of the date) |

**xv6 abstractions.**
- Every system call runs on the current process without sleeping, and fork
  copies the mappings with `ptable.lock` held, so each is one step. A fault
  on an unmapped region page is the step `GrowUp`, which runs `cangrowup`.
- Region pages 0x60000000 .. KERNBASE-1 are numbered 0 .. NV-1. Only frames
  handed to the region are modelled. Kernel stacks and page tables come from
  other frames.
- `canallocatva`, `clearpte`, `mappageswrapper` and `findfreevirtualaddress`
  live in vm.c, which is not in the repository. They follow their callers'
  comments. `canallocatva` and `findfreevirtualaddress` look only at present
  PTEs below KERNBASE. `clearpte` returns -1 on a PTE that is not present.
  Otherwise it zeroes the PTE and kfrees the frame unless `ispamapped` still
  finds it. `mappages` on a present PTE panics ("remap"), as stock xv6 does.
- A kernel panic (kfree of a frame outside the pool, remap, or a kernel-mode
  fault when fork copies from an unmapped parent page) sets `panicked`.
  Nothing runs after it.
- Page and file contents are not modelled. A file-backed mapping differs
  from an anonymous one only in that `fileread` may fail. Only the flags
  read after mmap returns (SHARED, PRIVATE, GROWSUP) are kept in an entry.
- Exit and the parent's `wait` are one step. A zombie maps nothing in the
  region, so `ispamapped` sees no difference.

**wsh abstractions.**

- The shell is one thread. Each of its steps is one pass of a loop or one
  blocking call: the prompt's `updateBackgroundJobStatus`, a command line,
  each fork of a pipeline and the `setpgid` after it, and each `waitpid` of
  a foreground wait.
- Each child runs `setpgid(0, 0)` (single commands and a pipeline's first
  command), `tcsetpgrp` (if in the foreground) and `execvp` as steps of its
  own, so they interleave with the parent.
- The kernel side is written from POSIX:
  - `setpgid` on a child that has exec'd fails.
  - `tcsetpgrp` to a group with no process fails.
  - `waitpid` with WUNTRACED reports a stop once.
  - WNOHANG without WUNTRACED reports only exits.
  - A background process that reads the terminal gets SIGTTIN.
- Until exec a child still has the shell's SIGINT and SIGTSTP handlers
  (wsh.c 31-54), which do not stop or kill it. In a child of the
  terminal's group `getpgid(0)` is not `shellProcessGroup`, so the handler
  sends the signal to the child's copy of `currentForegroundProcessGroup`
  and calls `tcsetpgrp(shellProcessGroup)`. That copy is the shell's group
  (as at fork) or, after the child's own `tcsetpgrp`, the child's group;
  in the second case the signal comes back to the child after the handler
  returns and the handler, now finding the shell's group, sends it there.
  So in both cases the exec'd commands of the shell's group are hit and
  the terminal goes to the shell (SIGTTOU is ignored, so `tcsetpgrp` from
  a background group succeeds). `CtrlC` and `CtrlZ` do all of this in one
  step (`Handlers` are the children that run the handler).
- The shell's own handlers change nothing while the shell is in its own
  group. `getpgid(0)` is then `shellProcessGroup`, which is always the
  case.
- Each fork takes a fresh pid, so pids are never reused.
- A pipeline's job pid is minus its group, as in the code.
- A line is a sequence of symbols: `" "`, `"|"`, or a piece of a word.
  The names the shell compares words with (`exit`, `cd`, `jobs`, `fg`,
  `bg`, `&`) and the digits are single symbols, so `strcmp` is equality
  of words. `Split` returns what successive `strsep` calls return, and
  `Tokens` drops the empty ones, as both parse loops do.
- With one command the loop parses `inputLine` itself, which `parseLine`'s
  `strsep` has already cut at its first '|': `Argv` is the words before
  the first '|'. A line without such words (empty, or `|a`) makes
  `strcmp(inputLineArgs[0], "exit")` dereference NULL; the shell dies, as
  it does on `exit`, a bad `cd`, a bad `fg`/`bg` argument or a lone `&`.
  All of them are `LineExits`. End of input is `Quit`.
- A pipeline whose last command has no words (`a| `) makes
  `execExternalJob` read `finalCommandArgs[-1]`, which is undefined. The
  model lets it crash (`LineExits`) or read anything, so the job may be in
  the background or not (`ExternalJob`).
- `chdir` may fail (the shell exits) or succeed (nothing modelled
  changes). The `jobs` listing's text and the data through the pipes are
  not modelled. Batch mode runs the same dispatch on the lines of a file.

**Man page abstractions.**
- A line is a sequence of tokens: a character of text each, `SP7` for a
  run of seven or more spaces (all that `strstr(line, "       ")` can
  tell), and the escape codes. Keywords have no spaces, so a keyword
  matches inside text and the date only, never inside an escape code.
- A `.SH` title is a word from a small set and a case flag; wgroff's
  `toupper` drops the flag. The title line (`cmd(sec)`, spaces, `cmd(sec)`)
  is one token sequence, as wapropos never searches it.
- A program run is one step. The user installs wgroff's file into the
  directory of its section, replacing what was there; a file wgroff left
  after ".SH" alone (flushed at exit, without the last line) is installed
  too.
- wman's section argument is the three facts `sectionSearch` reads from
  the string: `atoi`, a '.', the length.

**Proxy abstractions.**
- Each queue function holds the mutex for its whole body, so each is one
  step. `get_work`'s condition wait is split: the thread joins `waiting`,
  and runs again after a signal or a spurious wakeup. It then re-checks
  `curr_size`, as the `while` loop does.
- A listener keeps no state between connections, and it makes one queue
  call per connection. So each connection is one step, whichever listener
  thread takes it.
- `serve_request` (connect, forward, relay) and the sleep are I/O. A
  served connection counts one response, whichever branch answers it
  (BAD_GATEWAY included).
- HTTP parsing is reduced to what the listener decides from the path: a
  job with its priority, a GetJob, or anything else, which gets the
  BAD_REQUEST answer (`ListenBadRequest`).

**Filesystem abstractions.**
- A byte offset into the log becomes an index into `log`, and NULL becomes
  0. Walking by `sizeof(entry) + size` visits exactly the entries of the
  sequence.
- Sizes keep the ratio of the structs, scaled: `SB=1`, `LE=2`, `DE=1`, one
  unit per file byte. `head` is counted in these units.
- `SizeMod` is the (scaled) 2^32 range of the u32 `size` field. It is used
  where unlink's product wraps.
- Names are model values, because `strcmp` only tests equality.
- Timestamps, uid, gid and links are left out. No property reads them.
- The FUSE kernel side is the guard `KernelLookup`. The kernel reaches a path
  only after getattr has reported each prefix as a directory, and it calls
  write only on regular files. This is the bridge's behaviour, not code of
  the repository.

## 4. Runs

All runs use `MCWfs` with `SB=1, LE=2, DE=1, SizeMod=64, MaxInodeBound=3`.

| run | cfg | expect | what it shows |
|---|---|---|---|
| flat_fs | `MCWfsFlat.cfg` (Spec, depth 1, disk 14) | pass, 65,060 states | `TypeOK`, `ResolveFollowsTree`, `HeadWithinDisk` and `CompactionPreservesView` hold for every interleaving of mknod, mkdir, write, unlink and fsck on a flat namespace |
| mount_refines | `MCWfsRefines.cfg` (MountSpec, depth 1) | violation | `AbsSpec`, found in 4 states: the refinement mapping sends the view of every path to `fs` and `ret < 0` to `failed`, so a handler that returns an error must leave every path as it was. `mknod /a` and `mknod /b` fill the disk; `unlink /b` tombstones inode 2 (mount.wfs.c 470), fails the room check (477) and returns ENOSPC, and `/b` is gone. |
| enospc_moves_head | `MCWfsEnospc.cfg` | violation | mknod's second ENOSPC leaves the parent entry appended and `head` moved (mount.wfs.c 242-247) |
| nested_resolution | `MCWfsNested.cfg` (depth 2) | violation | after `mkdir /a; mknod /b`, `/a/b` resolves to `/b`: the scan goes on to the next log entry after a miss (mount.wfs.c 155) |
| alias_after_fsck | `MCWfsAlias.cfg` (Spec) | violation | two unlinks fail with ENOSPC after tombstoning; fsck lowers `max_inode`; a new mknod reuses inode 1, and the unlinked name reappears bound to it. `ViewSpec` maps `failed` to FALSE, so it ignores return codes and lets each failed unlink pass as an abstract unlink; the mknod step still changes two paths at once, which no abstract operation does |

`MCWfsCrash.cfg` (CrashSpec, `RootResolves`) is kept as a reproducer but is
not among the runs: a crash between `memset` and `memcpy` (fsck.wfs.c
197-198) leaves an image whose root does not resolve, and spec.md 4.4
already says that the swap is not atomic.

The proxy runs use `MCProxy` with clients c1..c4, workers w1..w3 and `MaxGetJobs = 2`; the safety run has `MaxSize = 3`, the negative-priority run `MaxSize = 2`.

| run | cfg | expect | what it shows |
|---|---|---|---|
| proxy_safety | `MCProxySafety.cfg` (FairSpec) | pass, 12,020 states | `TypeOK`, `EachRequestOnce` (no job lost or duplicated), `NoIdleWhileQueued` (no lost signal), `HighestFirstThenFifo` (takes are highest priority, earliest first), `EveryJobAnswered`: with fair workers, every accepted job is answered or given to a GetJob client. |
| proxy_negative_priority | `MCProxyNegative.cfg` (c1, c2 at priority -1) | violation | the search loop never selects a priority -1 job; `get_work` returns `requests[-1]` and a worker serves a request no client sent (safequeue.c 92-111) |

The xv6 runs use `MCXv6` with `NV = 3`, `NMAP = 2`, `MaxCalls = 2`,
lengths {1, 2} pages and MAP_FIXED addresses {1, 3}. Address 3 is KERNBASE.

| run | cfg | expect | what it shows |
|---|---|---|---|
| xv6_mmap_safety | `MCXv6Safety.cfg` (Spec) | pass, 1.35M states | `TypeOK`, `FreedFramesUnmapped`: through every flag combination, munmap length, fork, exit and grows-up fault, no frame on the free list is mapped or listed twice, including frames shared across fork |
| xv6_private_shared | `MCXv6PrivateNotShared.cfg` | violation | `PrivateNotShared`: munmap(0, 2 pages) of a one-page shared mapping clears it, fails on the next page and leaves the entry valid. A MAP_PRIVATE mmap takes address 0 again. fork copies the stale shared entry from the parent's PTEs, which hold the private frame, and the private copy then fails in kalloc. Parent and child share a private frame. |

The wsh runs use `MCWsh` with `MaxPid = 3`, `NJ = 3`, `NID = 4` and the
fifteen lines of `MCLines`.

| run | cfg | expect | what it shows |
|---|---|---|---|
| wsh_jobs | `MCWshJobs.cfg` (FairSpec) | pass, 75,886 states | `TypeOK`; `JobTableConsistent`: an ID in use names a valid background job carrying that ID, and every valid background job can be reached through its ID; `TerminalReturnsToShell`: at the prompt the terminal is the shell's, however the last foreground job ended. This holds through every order of fg, bg, jobs, Ctrl-C, Ctrl-Z, exits and SIGTTIN stops. `ShellRegainsPrompt`: once every process a foreground wait is for has exited or stopped, the shell prompts again (or exits); the `waitpid(-pgid)` loop of `fg` on a pipeline ends. |
| wsh_foreground_race | `MCWshForeground.cfg` | violation | `ForegroundJobOwnsTerminal`, found after 15 distinct states: `cmd &` stores the job before the child runs `setpgid(0, 0)`. `fg` then calls `tcsetpgrp(pid)` on a group that does not exist yet. The call fails and the shell waits. The child then forms its group and execs outside the terminal's foreground group (wsh.c 298, 558, 590). |

The man page run uses `MCManPages` with `MaxLines = 2`: every source page
of up to two lines after `.TH`, built from a comment, `.SH` alone, `.SH`
with NAME, DESCRIPTION or SYNOPSIS in either case, and three text lines
(`a-a`, `a`, `/fBa`).

| run | cfg | expect | what it shows |
|---|---|---|---|
| manpages_apropos | `MCManApropos.cfg` | violation | `AproposListsDescribedPages`, found in 4 states: wgroff on `.TH ls 1 ...` followed only by `.SH NAME` writes the title, a blank line, the NAME header and the last line (35 spaces, the date, 35 spaces). wapropos takes that last line (the date has a `-`) as the name line and searches it as part of NAME, so `wapropos 2` lists `ls (1)`. With only the keyword `a`, TLC finds the other bug instead: a NAME line without '-' makes `strstr` return NULL and wapropos crash (wapropos.c 34). |

Each property of a passing run has a mutant in `PROJECT.json`: a plausible
bug in the mapped definition (no size update for the new dentry, a room check
without the header, unlink without tombstoning, fsck skipping the highest
inode; for the proxy:
the full test `==` written `>`, the shift loop missing, `add_work` without
its signal, and `<=` in the search loop; for xv6: fork not resetting
`currentMappingIndex`, and `ispamapped` looking at the first process only).
For wsh, the mutants are `fg` indexing the restored job by `numJobs`, `fg`
not restoring the ID of a job stopped again, the shell returning to its
prompt without `tcsetpgrp`, and `fg`'s group wait without its end test
(the loop no longer stops when no process of the group is left). TLC finds the
property violated under the run's own configuration.

**Why these bounds.** A disk of 14 units holds the root entry and about
five more entries. ENOSPC is therefore reached on every kind of operation
within a few steps, including the second check of mknod and unlink's check.
It also gives fsck something to reclaim, so the cycle unlink → fsck → mknod
that reuses inode numbers happens. `MaxInodeBound = 3` caps inode numbers
(the code's counter is unbounded across fsck cycles) and still allows that
reuse. Depth 1 keeps the pass runs inside the part where resolution is
correct. Depth 2 is where the resolution bug shows.

**Proxy bounds.** Four clients against three slots make the queue fill up
while three workers race for what is queued. Two pairs of equal priority
make FIFO order among equals observable at both levels, and a higher job
arriving behind lower ones tests the search loop. Three workers allow two
to wait while one serves, and allow several to race a GetJob. The proxy has
no bounded counter other than `getJobs`. The safety run reaches 12,020
states in about ten seconds. The earlier instance, with three clients, two
workers and two slots, had 903 states.

**xv6 bounds.** Two frames run out after two one-page mmaps, so both kalloc
failure paths (sys_mmap's and fork's) and the unchecked kalloc of
`cangrowup` are reached. Three region pages leave room for a one-page
mapping with its guard page and a second mapping. `NMAP = 2` with
`MaxCalls = 2` keeps every recorded entry inside the array. Two slots are
enough for a parent and a child sharing frames. Slot reuse after exit is
what the `ForkStaleIndex` mutant needs.

**wsh bounds.** Three pids allow a two-command pipeline and one more
command, or three single commands. That is enough for a background job
next to a stopped one, for fg and bg on either kind, and for the
pipeline's parent/child `setpgid` race. Each fork takes a fresh pid, which
bounds the run. `NJ = 3` gives every possible job a slot. `NID = 4` gives
every job an ID, so that the pass run checks the ID logic rather than its
exhaustion. With `NID = 3`, `JobTableConsistent` fails on the third
background job, which gets ID -1 (wsh.c 155).

**Fairness.** The filesystem models assume none and check no liveness.
Each executable is single-threaded, FUSE here delivers one operation at a
time, and the filesystem is only required to be safe. The proxy's
`FairSpec` assumes weak fairness of each worker's `WorkerGet` and
`WorkerServe`. The OS scheduler eventually runs a runnable thread, and a
worker blocked in the condition wait is not runnable (`WorkerGet` is
disabled while it is in `waiting`). Clients, GetJobs and spurious wakeups
get no fairness. The proxy configs set `CHECK_DEADLOCK FALSE`: once the
finite set of clients is used up, the real proxy blocks in `accept()` and
`pthread_cond_wait` forever, and that final state is its idle state.
The xv6 configs set it too: after a kernel panic nothing runs, and a
process stops calling mmap once `MaxCalls` is used. No liveness is
checked for xv6. The wsh configs set it as well: the shell exits (`Quit`),
and with the pids used up its children finish and nothing is left to run.
For wsh, `FairSpec` gives weak fairness to the shell's steps that need no
input (the loop head, the fork loop, the parent's `setpgid`, and each
`waitpid` that has a status to return) and to each child's code between
fork and exec: the shell and the children are runnable processes, and the
OS runs them. The user (lines, keys) and the commands get none: nobody has
to type, and a command may run for ever. `ShellRegainsPrompt` therefore
only asks for the prompt once the processes waited for have ended or
stopped.
For the filesystem runs, deadlock checking stays on: some
operation is always enabled, because a failing operation is still a step.

## 5. Findings

See `PROJECT.json` "findings". In short:
- mknod and mkdir are not failure-atomic, contrary to spec.md 4.3.
- Path resolution is wrong for nested paths.
- unlink is not failure-atomic either: an unlink that returns ENOSPC has
  already removed the file (spec.md 4.1 says a failed append writes
  nothing).
- unlink's early tombstoning combined with fsck makes unlinked files
  reappear.
- fsck is not crash-atomic. spec.md 1 says it is; spec.md 4.4 says it is
  not. (Shown by `MCWfsCrash.cfg`, which is no longer a run.)
- In the proxy, a job of priority -1 makes `get_work` read and write
  `requests[-1]`.
- In xv6, a failed munmap leaves a stale shared entry, through which fork
  shares a MAP_PRIVATE frame with the child.
- In wsh, `fg` right after `cmd &` can run before the child has made its
  process group. `tcsetpgrp` then fails unchecked, and the shell waits for
  a job that Ctrl-C and Ctrl-Z cannot reach. A pipeline command that execs
  before the parent's `setpgid(pid, processIDs[0])` stays in the shell's
  group the same way (wsh.c 497). So does a Ctrl-C or Ctrl-Z typed while
  a foreground child is between its `tcsetpgrp` and `execvp`: the inherited
  handler hands the terminal back to the shell and the command starts
  without it (wsh.c 36-38). The same property covers all three cases.
- wapropos treats the last line wgroff writes as part of the last section
  (its test for the end of a section is "no seven spaces"), so a keyword
  matching the date lists pages that do not contain it. A NAME section
  whose first line has no '-' crashes wapropos (NULL + 1 in `strcpy`).

**Known issues found while modelling, without a run of their own.** In the
modules as they are, TLC reaches each of them with a one-line invariant
(guard page unmapped, no PTE maps `Bogus`, `idx <= NMAP`, `NoLeak`). For
wsh it is an action property: a `bg` step leaves no process of the job
stopped. TLC reaches that in 8 states. Those properties and the underflow
run are not kept among the runs:
- unlink of `/a/b` after `mkdir /a; mknod /b` (the resolution bug) sees a
  parent with 0 dentries. `sizeof(dentry)*(0-1)` wraps and `head` passes
  the disk (`HeadWithinDisk` at depth 2, disk 16).
- The guard page of a MAP_GROWSUP mapping is checked only at creation. A
  second mmap is placed on it (sysproc.c 208), and the mapping never grows.
- Fork after a failed munmap maps PTE_ADDR(0) in the child (proc.c 757).
  `cangrowup` maps an unchecked `kalloc()` result (proc.c 651).
- Every failure return of `sys_mmap` after its kalloc loop leaks the
  frames taken. For example, a MAP_FIXED mmap at KERNBASE returns -1
  after kalloc (sysproc.c 194). `NoLeak` fails in one step. That run was
  retired to keep the number of runs down.
- In wsh, a background job stopped by SIGTTIN (it read the terminal) is
  still recorded as running, because `isStopped` is set only by the
  shell's own WUNTRACED waits. `bg` then sends no SIGCONT and the job stays
  stopped. `fg` returns at once with "stopped", and only a second `fg`
  resumes it (wsh.c 384, 286).
- In wsh, `fg` of a single command that is then killed by Ctrl-C leaves
  its table entry valid. That entry is never cleared (wsh.c 337).
- In wsh, an empty line or a line starting with '|' kills the shell with
  a NULL dereference (`strcmp` on `inputLineArgs[0]`, wsh.c 650): MCLines
  has `|a`, and `LineExits` takes it.
- In xv6's stock `kill`, the search for the pid also matches UNUSED
  slots. `wait` sets a reaped slot's pid to 0, and fork's failure paths
  (proc.c 99-102, 198-203) leave the slot's pid and `killed` as they were.
  So `kill(0)` (or the pid of a failed fork) returns 0 and marks a free
  slot killed, and allocproc, which does not clear `killed`, hands that
  flag to the next process forked into the slot (proc.c 525). No run
  covers it: the process table is not modelled (see below).
- In wsh, `updateBackgroundJobStatus` reaps a background pipeline only
  through `waitpid(-pgid, WNOHANG)` (wsh.c 88). A command left in the
  shell's group by the `setpgid` race (wsh.c 497) is never waited for once
  it exits. For example, Ctrl-C at the prompt kills it, and it stays a
  zombie after its job has left the table. An invariant "at the prompt,
  every exited child belongs to a job in the table" fails in 11 states.
- wgroff replaces `//` by `/` in the last of its five passes, so `//fB`
  turns into `/` followed by bold rather than a literal `/fB` (wgroff.c 16).
  Nothing in the repository says which is meant.
- `currentMappingIndex` is never lowered. A process that calls mmap and
  munmap 101 times writes past `mapEntries` (sysproc.c 264).

The spec's quirk "unlink returns not-found after tombstoning" cannot happen.
The resolved target is always live, so `delete_log_entries` returns 1.

## 6. Not modelled

- **I/O and startup:** argument parsing, open/lseek/mmap failures and
  debugging output (`print_log_entries`).
- **Bytes past `head`:** the model keeps none. unlink's over-long dentry copy
  (mount.wfs.c 500-507) and gap bytes of a write past end of file are
  therefore not represented. The model fills a gap with Zero.
- **Truncation:** name and path truncation by `strncpy`.
- **Proxy:** slots past `curr_size`. The model assumes
  `max_size <= MAX_QUEUE_SIZE`, so the out-of-bounds read at a full
  1000-slot queue and `-q` above 1000 are not represented. The memory
  leaks (`send_error_response`, the `malloc` overwritten in `get_work`) are
  also not represented.
- **xv6:** page and file contents (munmap's write-back, fileread's bytes),
  the kernel-stack buffers of `sys_mmap` (`numPages*PGSIZE+1` bytes) and of
  `copymemorymappings` (`PGSIZE+1` bytes), which overflow the one-page
  kernel stack, `isguardpage` (read only, called from trap.c), and the
  write past `mapEntries`. The stock process table (allocproc's EMBRYO
  state, the scheduler, sleep/wakeup, wait's sleep, kill) is not modelled
  beyond fork taking a slot and exit freeing it. Its state is independent
  of the mappings, so it would be a module and a run of its own; joined
  with `Xv6Mmap` it would multiply that run's 1.35M states, and the
  project keeps its runs for the mapping code this repository changed.
- **wsh:** pipes and their data, the text of the `jobs` listing, and the write past `Jobs[256]` after 256 stored jobs. The
  handler of a child runs as one step. A handler delayed until after the
  shell has moved on is not represented.
- **Man page utilities:** the text of the one-liner wapropos prints,
  fopen errors other than a missing file, line lengths (fgets splitting a
  line at 1023 bytes, the `result[1024]` buffer of convertFormattingMarks),
  and names with a '.' (wapropos prints the part of the file name before
  the first '.', wman opens `<cmd>.<n>`). A missing `manN` directory is
  modelled (wapropos exits), but the run has all of them.
