------------------------------- MODULE WshJobs -------------------------------
(***************************************************************************)
(* Job control of the shell p3-custom-shell/wsh.c: the job table, job IDs *)
(* and the terminal's foreground process group, with the shell, its child *)
(* processes and the user at the terminal as separate actors.             *)
(*                                                                         *)
(* The shell is one thread; each of its steps is one pass of a loop or   *)
(* one blocking call.  A child runs, between fork and exec, the code the  *)
(* shell wrote for it (setpgid, tcsetpgrp), then the command, which may   *)
(* exit, read the terminal, or be stopped or killed from the keyboard.   *)
(* Before exec the child still has the shell's SIGINT/SIGTSTP handlers,  *)
(* which do not stop or kill it but pass the signal on to the shell's    *)
(* group and give the terminal back to the shell.  The shell reads lines *)
(* from a small set and parses them as WshParse does; what the commands *)
(* themselves do and what jobs prints are not modelled.                  *)
(***************************************************************************)
EXTENDS Integers, Sequences, SequencesExt, FiniteSets, FiniteSetsExt, WshParse

CONSTANTS
    MaxPid,     \* pids 1..MaxPid; each fork takes a fresh one
    NJ,         \* entries of Jobs (256)
    NID,        \* entries of jobIDs (256): background job IDs 1..NID-1
    Lines       \* the lines the user may type

ASSUME /\ MaxPid \in Nat \ {0} /\ NJ >= MaxPid
       /\ NID \in Nat \ {0, 1}

Pids == 1..MaxPid
ShellPg == 0        \* shellProcessGroup
IDs == 1..(NID - 1)

VARIABLES
    spc,        \* the shell: "update", "read", "fork", "wait" or "done"
    cmd,        \* the command line the shell is running
    proc,       \* proc[p]: child p as the kernel sees it
    tty,        \* the terminal's foreground process group
    jobs,       \* Jobs[0 .. NJ-1]
    ids,        \* jobIDs[1 .. NID-1]
    numJobs     \* numJobs

vars == <<spc, cmd, proc, tty, jobs, ids, numJobs>>

(* initializeJob; the -1 flags are "not 1", FALSE here. *)
NoJob == [valid |-> FALSE, pid |-> -1, jobID |-> -1, bg |-> FALSE,
          amp |-> FALSE, stopped |-> FALSE]
NoCmd == [kind |-> "none", bg |-> FALSE, n |-> 0, pids |-> <<>>, i |-> 1,
          stopped |-> FALSE, setpg |-> TRUE, idx |-> -1, id |-> -1]
Unborn == [st |-> "unborn", pg |-> ShellPg, cpc |-> "exec", fg |-> FALSE,
           rep |-> FALSE, sig |-> FALSE]

(* main, runInteractiveMode: tables initialised, the shell owns the tty. *)
Init ==
    /\ spc = "update"
    /\ cmd = NoCmd
    /\ proc = [p \in Pids |-> Unborn]
    /\ tty = ShellPg
    /\ jobs = [k \in 0..(NJ - 1) |-> NoJob]
    /\ ids = [i \in IDs |-> -1]
    /\ numJobs = 0

(* The processes of group g the kernel still knows (zombies included). *)
Members(g) == {p \in Pids : proc[p].st \in {"run", "stop", "done"} /\ proc[p].pg = g}

(* A status waitpid(.., WUNTRACED) reports: an exit, or a stop not yet seen. *)
Ready(p) == proc[p].st = "done" \/ (proc[p].st = "stop" /\ proc[p].rep)

NextPid == Min({p \in Pids : proc[p].st = "unborn"})
CanFork == \E p \in Pids : proc[p].st = "unborn"

(* fork: the child starts in the shell's group, before its own setpgid. *)
Forked(p, first, fg) ==
    [st |-> "run", pg |-> ShellPg, cpc |-> IF first THEN "setpgid" ELSE "exec",
     fg |-> fg, rep |-> FALSE, sig |-> FALSE]

(* findSmallestAvailableJobID and findLargestUsedJobID. *)
SmallestFreeId ==
    LET F == {i \in IDs : ids[i] = -1} IN IF F = {} THEN -1 ELSE Min(F)
LargestUsedId ==
    LET U == {i \in IDs : ids[i] # -1} IN IF U = {} THEN -1 ELSE Max(U)

(***************************************************************************)
(* storeJobInfo(args, pid, 1, amp, stopped): every caller passes          *)
(* isBackground = 1.  pid is the child's pid, or minus the group of a    *)
(* pipeline.  The job goes to Jobs[numJobs++]; jobIDs[-1] is not modelled. *)
(***************************************************************************)
StoreJobInfo(pidv, amp, stopped) ==
    LET id == SmallestFreeId
    IN  /\ jobs' = [jobs EXCEPT ![numJobs] =
                      [valid |-> TRUE, pid |-> pidv, jobID |-> id, bg |-> TRUE,
                       amp |-> amp, stopped |-> stopped]]
        /\ ids' = IF id = -1 THEN ids ELSE [ids EXCEPT ![id] = numJobs]
        /\ numJobs' = numJobs + 1

(***************************************************************************)
(* updateBackgroundJobStatus.  For a pipeline, waitpid(-pgid, WNOHANG) in *)
(* a loop reaps every exited member and returns -1 once none is left:    *)
(* the job is removed.  For a single command, waitpid(pid, WNOHANG)      *)
(* reaps an exited child and removes the job; -1 (no such child) makes   *)
(* the shell exit.  Stops are not reported without WUNTRACED.             *)
(***************************************************************************)
BgJobs == {k \in 0..(NJ - 1) : jobs[k].valid /\ jobs[k].bg}

Gone(k) ==
    IF jobs[k].pid < 0 THEN \A p \in Members(-jobs[k].pid) : proc[p].st = "done"
    ELSE proc[jobs[k].pid].st = "done"

ReapedBy(k) ==
    IF jobs[k].pid < 0
    THEN {p \in Members(-jobs[k].pid) : proc[p].st = "done"}
    ELSE {p \in {jobs[k].pid} : proc[p].st = "done"}

UpdateBackgroundJobStatus(after) ==
    LET done  == {k \in BgJobs : Gone(k)}
        reap  == UNION {ReapedBy(k) : k \in BgJobs}
        freed == {jobs[k].jobID : k \in done} \cap IDs
    IN  IF \E k \in BgJobs : jobs[k].pid > 0 /\ proc[jobs[k].pid].st = "reaped"
        THEN spc' = "done" /\ UNCHANGED <<jobs, ids, proc>>
        ELSE /\ proc' = [p \in Pids |-> IF p \in reap
                                        THEN [proc[p] EXCEPT !.st = "reaped"]
                                        ELSE proc[p]]
             /\ jobs' = [k \in DOMAIN jobs |-> IF k \in done THEN NoJob ELSE jobs[k]]
             /\ ids' = [i \in IDs |-> IF i \in freed THEN -1 ELSE ids[i]]
             /\ spc' = after

(* The loop's head: updateBackgroundJobStatus, then getline. *)
Prompt ==
    /\ spc = "update"
    /\ UpdateBackgroundJobStatus("read")
    /\ UNCHANGED <<cmd, tty, numJobs>>

(* A line of one command whose first word is the built-in name. *)
IsBuiltin(l, name) == ~IsPipeline(l) /\ Argv(l) # <<>> /\ Argv(l)[1] = name

(* jobs: updateBackgroundJobStatus again, then execJobsCommand, which   *)
(* exits on an argument and otherwise prints the listing.                 *)
JobsCmd(l) ==
    /\ spc = "read"
    /\ IsBuiltin(l, <<"jobs">>)
    /\ UpdateBackgroundJobStatus(IF Len(Argv(l)) = 1 THEN "update" ELSE "done")
    /\ UNCHANGED <<cmd, tty, numJobs>>

(***************************************************************************)
(* The job fg or bg names: execFgCommand and execBgCommand exit on a     *)
(* third word, on an ID outside 1..255, with no argument when no ID is   *)
(* in use, and on an ID not in use.  IDs from NID on are never in use.   *)
(***************************************************************************)
JobArg(av) == IF Len(av) = 1 THEN LargestUsedId ELSE Atoi(av[2])

BadJobArg(av) ==
    IF Len(av) > 2 \/ JobArg(av) \notin IDs THEN TRUE ELSE ids[JobArg(av)] = -1

(***************************************************************************)
(* A line on which the shell ends: strcmp(inputLineArgs[0], "exit") with *)
(* no words at all dereferences NULL; exit exits; cd exits on a wrong    *)
(* number of words and on a chdir failure; fg and bg on a bad job; a    *)
(* lone "&" exits.  A pipeline whose last command has no words makes     *)
(* execExternalJob read finalCommandArgs[-1], which is undefined: it may *)
(* crash, and ExternalJob takes the other outcomes.  Its children live  *)
(* on.                                                                    *)
(***************************************************************************)
LineEndsShell(l) ==
    IF IsPipeline(l)
    THEN FinalArgs(l) = Amp \/ FinalArgs(l) = <<>>
    ELSE LET av == Argv(l) IN
         CASE av = <<>> -> TRUE
           [] av[1] \in {<<"exit">>, <<"cd">>} -> TRUE
           [] av[1] \in {<<"fg">>, <<"bg">>} -> BadJobArg(av)
           [] OTHER -> av = Amp

LineExits(l) ==
    /\ spc = "read"
    /\ LineEndsShell(l)
    /\ spc' = "done"
    /\ UNCHANGED <<cmd, proc, tty, jobs, ids, numJobs>>

(* getline at end of input: exit(0). *)
Quit ==
    /\ spc = "read"
    /\ spc' = "done"
    /\ UNCHANGED <<cmd, proc, tty, jobs, ids, numJobs>>

(* execCdCommand: "cd dir" whose chdir succeeds; nothing the model keeps *)
(* changes.                                                               *)
CdCmd(l) ==
    /\ spc = "read"
    /\ IsBuiltin(l, <<"cd">>) /\ Len(Argv(l)) = 2
    /\ spc' = "update"
    /\ UNCHANGED <<cmd, proc, tty, jobs, ids, numJobs>>

(***************************************************************************)
(* execExternalCommand, for a line of one command that is no built-in:   *)
(* a last word "&" makes it a background command (and is removed).      *)
(* fork; the child will setpgid(0, 0), and for a foreground command     *)
(* tcsetpgrp itself, then exec.  The parent does not call setpgid.  A    *)
(* background command is stored at once; for a foreground one the       *)
(* parent goes on to waitpid(pid, WUNTRACED).                             *)
(***************************************************************************)
ExternalCommand(l) ==
    /\ spc = "read"
    /\ ~IsPipeline(l) /\ Argv(l) # <<>> /\ Argv(l)[1] \notin Builtins /\ Argv(l) # Amp
    /\ CanFork
    /\ LET p == NextPid
           bg == Last(Argv(l)) = <<"&">>
       IN
       /\ proc' = [proc EXCEPT ![p] = Forked(p, TRUE, ~bg)]
       /\ IF bg
          THEN /\ StoreJobInfo(p, TRUE, FALSE)
               /\ spc' = "update"
               /\ UNCHANGED cmd
          ELSE /\ spc' = "wait"
               /\ cmd' = [NoCmd EXCEPT !.kind = "single", !.pids = <<p>>]
               /\ UNCHANGED <<jobs, ids, numJobs>>
    /\ UNCHANGED tty

(***************************************************************************)
(* execExternalJob, for a line of two or more commands: the last one's   *)
(* last word "&" makes it a background job.  The parent forks them in    *)
(* order (ParentFork), and after each fork calls setpgid(pid,            *)
(* processIDs[0]) (ParentSetpgid).  A command without words fails in    *)
(* execvp and exits; commands may exit at any time in the model anyway.  *)
(***************************************************************************)
ExternalJob(l) ==
    /\ spc = "read"
    /\ IsPipeline(l) /\ FinalArgs(l) # Amp
    /\ Cardinality({p \in Pids : proc[p].st = "unborn"}) >= Len(ParseLine(l))
    /\ \E bg \in IF FinalArgs(l) = <<>> THEN BOOLEAN ELSE {Last(FinalArgs(l)) = <<"&">>} :
          cmd' = [NoCmd EXCEPT !.kind = "pipe", !.bg = bg, !.n = Len(ParseLine(l))]
    /\ spc' = "fork"
    /\ UNCHANGED <<proc, tty, jobs, ids, numJobs>>

ParentFork ==
    /\ spc = "fork"
    /\ cmd.setpg /\ Len(cmd.pids) < cmd.n
    /\ CanFork
    /\ LET p == NextPid IN
       /\ proc' = [proc EXCEPT ![p] = Forked(p, cmd.pids = <<>>, ~cmd.bg)]
       /\ cmd' = [cmd EXCEPT !.pids = Append(@, p), !.setpg = FALSE]
    /\ UNCHANGED <<spc, tty, jobs, ids, numJobs>>

(* setpgid(pid, pgid) fails (EACCES) once the child has exec'd. *)
ParentSetpgid ==
    /\ spc = "fork"
    /\ ~cmd.setpg
    /\ LET p == cmd.pids[Len(cmd.pids)]
           lead == cmd.pids[1]
       IN  proc' = IF proc[p].cpc = "execd" THEN proc
                   ELSE [proc EXCEPT ![p].pg = lead]
    /\ cmd' = [cmd EXCEPT !.setpg = TRUE]
    /\ UNCHANGED <<spc, tty, jobs, ids, numJobs>>

(* After the fork loop: a background job is stored; a foreground one is  *)
(* waited for process by process.                                         *)
ForkLoopDone ==
    /\ spc = "fork"
    /\ cmd.setpg /\ Len(cmd.pids) = cmd.n
    /\ IF cmd.bg
       THEN /\ StoreJobInfo(-cmd.pids[1], TRUE, FALSE)
            /\ spc' = "update"
            /\ cmd' = NoCmd
       ELSE /\ spc' = "wait"
            /\ UNCHANGED <<cmd, jobs, ids, numJobs>>
    /\ UNCHANGED <<proc, tty>>

(* kill(pid, SIGCONT): one process, or with pid < 0 its whole group. *)
Continue(pidv) ==
    [p \in Pids |-> IF proc[p].st = "stop" /\
                       (IF pidv < 0 THEN proc[p].pg = -pidv ELSE p = pidv)
                    THEN [proc[p] EXCEPT !.st = "run", !.rep = FALSE]
                    ELSE proc[p]]

(* tcsetpgrp fails (EPERM) when no process is in group g. *)
TcSetPgrp(g) == IF Members(g) # {} THEN g ELSE tty

(***************************************************************************)
(* execFgCommand: the job leaves the background and its ID is released   *)
(* while it runs; a stopped job gets SIGCONT; the terminal goes to its   *)
(* group; then the shell waits (FgWait).                                  *)
(***************************************************************************)
FgCmd(l) ==
    /\ spc = "read"
    /\ IsBuiltin(l, <<"fg">>)
    /\ LET av == Argv(l) IN
       /\ ~BadJobArg(av)
       /\ LET id == JobArg(av)
              k  == ids[id]
              pidv == jobs[k].pid
          IN  /\ jobs' = [jobs EXCEPT ![k].bg = FALSE, ![k].stopped = FALSE]
              /\ ids' = [ids EXCEPT ![id] = -1]
              /\ proc' = IF jobs[k].stopped THEN Continue(pidv) ELSE proc
              /\ tty' = TcSetPgrp(IF pidv < 0 THEN -pidv ELSE pidv)
              /\ cmd' = [NoCmd EXCEPT !.kind = "fg", !.idx = k, !.id = id]
              /\ spc' = "wait"
    /\ UNCHANGED numJobs

(* execBgCommand: the job is marked background, and resumed if stopped. *)
BgCmd(l) ==
    /\ spc = "read"
    /\ IsBuiltin(l, <<"bg">>)
    /\ LET av == Argv(l) IN
       /\ ~BadJobArg(av)
       /\ LET k == ids[JobArg(av)] IN
          /\ jobs' = [jobs EXCEPT ![k].bg = TRUE, ![k].stopped = FALSE]
          /\ proc' = IF jobs[k].stopped THEN Continue(jobs[k].pid) ELSE proc
    /\ spc' = "update"
    /\ UNCHANGED <<cmd, tty, ids, numJobs>>

(* waitpid returning p's status: an exited child is reaped, a stop is seen. *)
Report(p) ==
    [proc EXCEPT ![p] = IF @.st = "done" THEN [@ EXCEPT !.st = "reaped"]
                                         ELSE [@ EXCEPT !.rep = FALSE]]

(* A mutant: the shell returns to the prompt without tcsetpgrp. *)
RestoreWithoutTcsetpgrp == UNCHANGED tty /\ spc' = "update" /\ cmd' = NoCmd

(* Back at the prompt: tcsetpgrp(STDIN_FILENO, shellProcessGroup). *)
Restore == tty' = ShellPg /\ spc' = "update" /\ cmd' = NoCmd

(* Mutants: a stopped job keeps its ID released, or gets numJobs as index. *)
StoppedAgainNoRestore(k, id) ==
    jobs' = [jobs EXCEPT ![k].stopped = TRUE, ![k].bg = TRUE] /\ UNCHANGED ids
StoppedAgainNumJobs(k, id) ==
    /\ jobs' = [jobs EXCEPT ![k].stopped = TRUE, ![k].bg = TRUE]
    /\ ids' = [ids EXCEPT ![id] = numJobs]

(* execFgCommand, job stopped by Ctrl-Z: back to the background under its ID. *)
StoppedAgain(k, id) ==
    /\ jobs' = [jobs EXCEPT ![k].stopped = TRUE, ![k].bg = TRUE]
    /\ ids' = [ids EXCEPT ![id] = k]

(***************************************************************************)
(* execExternalCommand, foreground: waitpid(pid, WUNTRACED) returns; a   *)
(* stopped child is stored as a stopped background job.                   *)
(***************************************************************************)
WaitCommand ==
    /\ spc = "wait" /\ cmd.kind = "single"
    /\ LET p == cmd.pids[1] IN
       /\ Ready(p)
       /\ proc' = Report(p)
       /\ IF proc[p].st = "stop" THEN StoreJobInfo(p, FALSE, TRUE)
          ELSE UNCHANGED <<jobs, ids, numJobs>>
    /\ Restore

(***************************************************************************)
(* execExternalJob, foreground: waitpid(processIDs[i], WUNTRACED) for    *)
(* each command in order; if any stopped, the job is stored stopped.     *)
(***************************************************************************)
WaitJob ==
    /\ spc = "wait" /\ cmd.kind = "pipe"
    /\ LET p == cmd.pids[cmd.i]
           stopped == cmd.stopped \/ proc[p].st = "stop"
       IN  /\ Ready(p)
           /\ proc' = Report(p)
           /\ IF cmd.i < cmd.n
              THEN /\ cmd' = [cmd EXCEPT !.i = @ + 1, !.stopped = stopped]
                   /\ UNCHANGED <<spc, tty, jobs, ids, numJobs>>
              ELSE /\ IF stopped THEN StoreJobInfo(-cmd.pids[1], FALSE, TRUE)
                      ELSE UNCHANGED <<jobs, ids, numJobs>>
                   /\ Restore

(***************************************************************************)
(* execFgCommand, a single command: one waitpid(pid, WUNTRACED).  A stop *)
(* puts the job back in the background under its ID; a normal exit      *)
(* clears it; a death by signal changes neither.  -1 makes the shell exit.*)
(***************************************************************************)
FgWaitCommand ==
    /\ spc = "wait" /\ cmd.kind = "fg"
    /\ LET k == cmd.idx
           p == jobs[k].pid
       IN  /\ p > 0
           /\ IF proc[p].st = "reaped"
              THEN /\ spc' = "done"
                   /\ UNCHANGED <<cmd, proc, tty, jobs, ids>>
              ELSE /\ Ready(p)
                   /\ proc' = Report(p)
                   /\ CASE proc[p].st = "stop" -> StoppedAgain(k, cmd.id)
                        [] ~proc[p].sig ->
                             /\ jobs' = [jobs EXCEPT ![k] = NoJob]
                             /\ ids' = [ids EXCEPT ![cmd.id] = -1]
                        [] OTHER -> UNCHANGED <<jobs, ids>>
                   /\ Restore
    /\ UNCHANGED numJobs

(* A mutant: the loop ends only on a stop, never on -1 (no member left). *)
FgWaitJobNoEnd ==
    /\ spc = "wait" /\ cmd.kind = "fg"
    /\ LET k == cmd.idx
           g == -jobs[k].pid
       IN  /\ jobs[k].pid < 0
           /\ \E p \in Members(g) :
                 /\ Ready(p)
                 /\ proc' = Report(p)
                 /\ IF proc[p].st = "done"
                    THEN UNCHANGED <<spc, cmd, tty, jobs, ids>>
                    ELSE StoppedAgain(k, cmd.id) /\ Restore
    /\ UNCHANGED numJobs

(***************************************************************************)
(* execFgCommand, a pipeline: waitpid(-pgid, WUNTRACED) in a loop.  An   *)
(* exited member is reaped and the loop goes on; a stop puts the job    *)
(* back in the background; -1 (no member left) clears the job.           *)
(***************************************************************************)
FgWaitJob ==
    /\ spc = "wait" /\ cmd.kind = "fg"
    /\ LET k == cmd.idx
           g == -jobs[k].pid
       IN  /\ jobs[k].pid < 0
           /\ \/ \E p \in Members(g) :
                 /\ Ready(p)
                 /\ proc' = Report(p)
                 /\ IF proc[p].st = "done"
                    THEN UNCHANGED <<spc, cmd, tty, jobs, ids>>
                    ELSE StoppedAgain(k, cmd.id) /\ Restore
              \/ /\ Members(g) = {}
                 /\ jobs' = [jobs EXCEPT ![k] = NoJob]
                 /\ ids' = [ids EXCEPT ![cmd.id] = -1]
                 /\ Restore
                 /\ UNCHANGED proc
    /\ UNCHANGED numJobs

(***************************************************************************)
(* A child between fork and exec: setpgid(0, 0) (the first command of a  *)
(* line), tcsetpgrp(STDIN_FILENO, getpid()) (if in the foreground), exec. *)
(***************************************************************************)
ChildSetpgid(p) ==
    /\ proc[p].cpc = "setpgid"
    /\ proc' = [proc EXCEPT ![p].pg = p,
                            ![p].cpc = IF proc[p].fg THEN "tcset" ELSE "exec"]
    /\ UNCHANGED <<spc, cmd, tty, jobs, ids, numJobs>>

ChildTcsetpgrp(p) ==
    /\ proc[p].cpc = "tcset"
    /\ tty' = p
    /\ proc' = [proc EXCEPT ![p].cpc = "exec"]
    /\ UNCHANGED <<spc, cmd, jobs, ids, numJobs>>

ChildExec(p) ==
    /\ proc[p].cpc = "exec" /\ proc[p].st = "run"
    /\ proc' = [proc EXCEPT ![p].cpc = "execd"]
    /\ UNCHANGED <<spc, cmd, tty, jobs, ids, numJobs>>

(***************************************************************************)
(* The commands and the user.  Ctrl-C and Ctrl-Z send SIGINT / SIGTSTP to *)
(* the terminal's foreground group: they kill or stop its running        *)
(* commands.  A command exits.  A line's first command, reading the      *)
(* terminal from a background group, gets SIGTTIN, which stops its group.*)
(***************************************************************************)
Running(g) == {p \in Pids : proc[p].st = "run" /\ proc[p].pg = g}
Commands(g) == {p \in Running(g) : proc[p].cpc = "execd"}

(***************************************************************************)
(* Children of the foreground group that have not exec'd yet run the     *)
(* shell's sigint_handler / sigtstp_handler instead of dying or stopping.*)
(* In them getpgid(0) is not shellProcessGroup, and their copy of        *)
(* currentForegroundProcessGroup is the shell's group (as at fork) or,   *)
(* after their own tcsetpgrp, their group, whose signal comes back to    *)
(* them once the handler returns and finds the shell's group recorded.   *)
(* Either way the handler sends the signal to the shell's group (its    *)
(* exec'd commands, pipeline members whose setpgid failed, are hit) and  *)
(* calls tcsetpgrp(shellProcessGroup), which succeeds as SIGTTOU is      *)
(* ignored.  In the shell's group the handler does nothing.  One step.   *)
(***************************************************************************)
Handlers == IF tty = ShellPg THEN {}
            ELSE {p \in Running(tty) : proc[p].cpc # "execd"}

KeySignal(newst, sig) ==
    LET hit == Commands(tty) \cup (IF Handlers # {} THEN Commands(ShellPg) ELSE {})
    IN  /\ hit \cup Handlers # {}
        /\ proc' = [p \in Pids |-> IF p \in hit
                                  THEN [proc[p] EXCEPT !.st = newst, !.rep = TRUE, !.sig = sig]
                                  ELSE proc[p]]
        /\ tty' = IF Handlers # {} THEN ShellPg ELSE tty
        /\ UNCHANGED <<spc, cmd, jobs, ids, numJobs>>

CtrlC == KeySignal("done", TRUE)
CtrlZ == KeySignal("stop", FALSE)

CommandExits(p) ==
    /\ proc[p].cpc = "execd" /\ proc[p].st = "run"
    /\ proc' = [proc EXCEPT ![p].st = "done", ![p].sig = FALSE]
    /\ UNCHANGED <<spc, cmd, tty, jobs, ids, numJobs>>

TerminalRead(p) ==
    /\ proc[p].cpc = "execd" /\ proc[p].st = "run"
    /\ proc[p].pg = p /\ tty # p
    /\ proc' = [q \in Pids |-> IF q \in Running(p)
                              THEN [proc[q] EXCEPT !.st = "stop", !.rep = TRUE]
                              ELSE proc[q]]
    /\ UNCHANGED <<spc, cmd, tty, jobs, ids, numJobs>>

Shell ==
    \/ Prompt \/ Quit
    \/ \E l \in Lines : \/ LineExits(l) \/ CdCmd(l) \/ JobsCmd(l) \/ FgCmd(l) \/ BgCmd(l)
                       \/ ExternalCommand(l) \/ ExternalJob(l)
    \/ ParentFork \/ ParentSetpgid \/ ForkLoopDone
    \/ WaitCommand \/ WaitJob \/ FgWaitCommand \/ FgWaitJob

Next ==
    \/ Shell
    \/ \E p \in Pids : ChildSetpgid(p) \/ ChildTcsetpgrp(p) \/ ChildExec(p)
    \/ CtrlC \/ CtrlZ
    \/ \E p \in Pids : CommandExits(p) \/ TerminalRead(p)

Spec == Init /\ [][Next]_vars

(***************************************************************************)
(* The shell is a running process: each of its steps that needs no input *)
(* (the loop head, the fork loop, a waitpid that has a status to return) *)
(* is taken once enabled.  So is a child's code between fork and exec.   *)
(* The user (lines, keys) and the commands themselves get no fairness:   *)
(* nobody must type, and a command may run for ever.                     *)
(***************************************************************************)
ShellInternal ==
    \/ Prompt \/ ParentFork \/ ParentSetpgid \/ ForkLoopDone
    \/ WaitCommand \/ WaitJob \/ FgWaitCommand \/ FgWaitJob

FairSpec ==
    /\ Spec
    /\ WF_vars(ShellInternal)
    /\ \A p \in Pids : WF_vars(ChildSetpgid(p)) /\ WF_vars(ChildTcsetpgrp(p))
                     /\ WF_vars(ChildExec(p))

-----------------------------------------------------------------------------
JobRec == [valid : BOOLEAN, pid : -MaxPid..MaxPid, jobID : {-1} \cup IDs,
           bg : BOOLEAN, amp : BOOLEAN, stopped : BOOLEAN]

TypeOK ==
    /\ spc \in {"update", "read", "fork", "wait", "done"}
    /\ cmd.kind \in {"none", "single", "pipe", "fg"}
    /\ \A p \in Pids :
          /\ proc[p].st \in {"unborn", "run", "stop", "done", "reaped"}
          /\ proc[p].pg \in Pids \cup {ShellPg}
          /\ proc[p].cpc \in {"setpgid", "tcset", "exec", "execd"}
    /\ tty \in Pids \cup {ShellPg}
    /\ jobs \in [0..(NJ - 1) -> JobRec]
    /\ ids \in [IDs -> -1..(NJ - 1)]
    /\ numJobs \in 0..NJ

(***************************************************************************)
(* JobTableConsistent: jobIDs and Jobs agree.  An ID in use names a valid *)
(* background job that carries that ID, and every valid background job   *)
(* is reachable through its ID, so fg and bg find it.  It fails if fg    *)
(* loses the ID of a job stopped again, or a finished job's ID is not    *)
(* released by updateBackgroundJobStatus or execFgCommand.                *)
(***************************************************************************)
JobTableConsistent ==
    /\ \A i \in IDs : ids[i] # -1 =>
          LET k == ids[i] IN jobs[k].valid /\ jobs[k].bg /\ jobs[k].jobID = i
    /\ \A k \in 0..(NJ - 1) : jobs[k].valid /\ jobs[k].bg =>
          jobs[k].jobID \in IDs /\ ids[jobs[k].jobID] = k

(***************************************************************************)
(* TerminalReturnsToShell: whenever the shell prompts or reads a line,   *)
(* the terminal's foreground group is the shell's, whether the last      *)
(* foreground command exited, was killed or was stopped, and whatever    *)
(* its children did with tcsetpgrp.                                       *)
(***************************************************************************)
TerminalReturnsToShell == spc \in {"update", "read"} => tty = ShellPg

(* The processes of the job the shell waits for, and its group leader. *)
FgLead ==
    IF cmd.kind = "fg" THEN (IF jobs[cmd.idx].pid < 0 THEN -jobs[cmd.idx].pid
                                                      ELSE jobs[cmd.idx].pid)
    ELSE cmd.pids[1]
FgProcs ==
    IF cmd.kind = "fg" /\ jobs[cmd.idx].pid < 0 THEN Members(FgLead)
    ELSE IF cmd.kind = "fg" THEN {FgLead} ELSE ToSet(cmd.pids)

(***************************************************************************)
(* ForegroundJobOwnsTerminal: while the shell waits for a foreground job  *)
(* (a new command, a new pipeline, or a job brought back by fg), once    *)
(* its leader has exec'd, every running command of the job is in the    *)
(* terminal's foreground group, so Ctrl-C and Ctrl-Z reach all of it.    *)
(***************************************************************************)
ForegroundJobOwnsTerminal ==
    spc = "wait" /\ proc[FgLead].cpc = "execd" =>
        \A p \in FgProcs : p \in Commands(proc[p].pg) => proc[p].pg = tty

(***************************************************************************)
(* ShellRegainsPrompt: once every process of the foreground job the shell *)
(* waits for has exited or stopped, the shell eventually prompts again  *)
(* (or exits): its waitpid loops, by pid for a new line and by group for *)
(* fg, end, and no process it waits for can stay stopped with its stop   *)
(* already reported.                                                      *)
(***************************************************************************)
JobSettled == \A p \in FgProcs : proc[p].st \in {"done", "reaped", "stop"}

ShellRegainsPrompt ==
    (spc = "wait" /\ JobSettled) ~> spc \in {"update", "done"}
=============================================================================
