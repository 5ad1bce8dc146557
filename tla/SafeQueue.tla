------------------------------ MODULE SafeQueue -----------------------------
(***************************************************************************)
(* The proxy's priority queue, safequeue.c.  Every function runs with the *)
(* queue mutex held, so each is one atomic step; the only exception is    *)
(* get_work's pthread_cond_wait, which releases the mutex and blocks      *)
(* until a signal (or a spurious wakeup) and then re-checks curr_size.    *)
(*                                                                         *)
(* requests[0 .. curr_size-1] is the sequence `requests`, in the order the *)
(* entries sit in the array.  The search loop starts from priority -1, so *)
(* when every queued priority is <= -1 the index stays -1: the returned   *)
(* request is read from requests[-1] and the shift loop, starting at -1,  *)
(* moves requests[0] into requests[-1].  That word, just below the array, *)
(* is the variable `below`; before any such step it holds Garbage.        *)
(***************************************************************************)
EXTENDS Integers, Sequences, SequencesExt

CONSTANTS
    Clients,    \* client connections (client_fd) that send a job request
    Prio,       \* Prio[c]: the priority parsed from c's path by sscanf
    MaxSize,    \* max_size, from -q (at most MAX_QUEUE_SIZE)
    Workers,    \* worker threads, the only callers of get_work
    Garbage     \* a request value no client sent (memory below the array)

ASSUME /\ Prio \in [Clients -> Int]
       /\ MaxSize \in Nat \ {0}
       /\ Garbage \notin Clients

VARIABLES
    requests,   \* requests[0 .. curr_size-1]
    below,      \* the word requests[-1]
    waiting     \* worker threads blocked in pthread_cond_wait on cond

queueVars == <<requests, below, waiting>>

(* create_queue: curr_size = 0, no thread waits on cond. *)
QueueInit ==
    /\ requests = <<>>
    /\ below = Garbage
    /\ waiting = {}

(* The test of add_work: the queue is full when curr_size == max_size. *)
FullNever == Len(requests) > MaxSize
Full == Len(requests) = MaxSize

(* pthread_cond_signal: wakes one waiting thread, if any. *)
Signal ==
    IF waiting = {} THEN UNCHANGED waiting
    ELSE \E t \in waiting : waiting' = waiting \ {t}

(* add_work, when the queue is not full: store at curr_size and signal. *)
AddWorkNoSignal(c) ==
    /\ requests' = Append(requests, c)
    /\ UNCHANGED <<below, waiting>>
AddWork(c) ==
    /\ requests' = Append(requests, c)
    /\ Signal
    /\ UNCHANGED below

(***************************************************************************)
(* The search loop of get_work / get_work_nonblocking: starting from      *)
(* highestPriority = -1 and index = -1, an entry replaces the candidate   *)
(* when its priority is strictly higher.  Index -1 is position 0 here.    *)
(***************************************************************************)
BetterOrEqual(p, hp) == hp <= p
Better(p, hp) == hp < p

Best ==
    FoldLeftDomain(
        LAMBDA acc, i : IF Better(Prio[requests[i]], acc.hp)
                        THEN [hp |-> Prio[requests[i]], idx |-> i] ELSE acc,
        [hp |-> -1, idx |-> 0], requests)

(* The request returned: requests[index]. *)
Taken == IF Best.idx = 0 THEN below ELSE requests[Best.idx]

(***************************************************************************)
(* The shift loop `requests[i] = requests[i+1]` for i from index to       *)
(* curr_size-1, then curr_size--.  The last copy reads requests[curr_size],*)
(* a slot past the new size, so it is not observable.                     *)
(***************************************************************************)
TakeNoShift ==
    /\ requests' = SubSeq(requests, 1, Len(requests) - 1)
    /\ UNCHANGED below
RemoveTaken ==
    IF Best.idx = 0
    THEN /\ requests' = Tail(requests)
         /\ below' = Head(requests)
    ELSE /\ requests' = RemoveAt(requests, Best.idx)
         /\ UNCHANGED below

(* get_work with the mutex held: block while curr_size == 0, else take. *)
GetWorkBlocks(t) ==
    /\ requests = <<>>
    /\ waiting' = waiting \cup {t}
    /\ UNCHANGED <<requests, below>>

GetWorkTakes ==
    /\ requests # <<>>
    /\ RemoveTaken
    /\ UNCHANGED waiting

(* get_work_nonblocking: nothing on an empty queue, else take. *)
GetWorkNonblocking ==
    /\ IF requests = <<>> THEN UNCHANGED <<requests, below>> ELSE RemoveTaken
    /\ UNCHANGED waiting

(* A waiting thread returns from pthread_cond_wait without a signal. *)
SpuriousWakeup(t) ==
    /\ t \in waiting
    /\ waiting' = waiting \ {t}
    /\ UNCHANGED <<requests, below>>
=============================================================================
