----------------------------- MODULE ProxyServer ----------------------------
(***************************************************************************)
(* The proxy's threads, proxyserver.c, around the queue of SafeQueue.     *)
(*                                                                         *)
(* A listener thread handles one accepted connection at a time; between  *)
(* connections it keeps no state, and its only shared-state effect is one *)
(* queue call, so each connection is one step, whichever listener takes  *)
(* it.  A client sends a job (path "/<priority>/..."), a GetJob, or a  *)
(* path that is neither, which is refused.                                *)
(* A worker thread loops: get_work, sleep(delay), serve_request, close.   *)
(* The response bytes, the sleep and the file server are not modelled: a *)
(* served connection counts one response.                                 *)
(***************************************************************************)
EXTENDS SafeQueue, FiniteSets

CONSTANTS
    MaxGetJobs, \* model bound: GetJob requests clients send in a behaviour
    None        \* the request a worker holds between requests

ASSUME /\ MaxGetJobs \in Nat
       /\ None \notin Clients \cup {Garbage}

VARIABLES
    pc,         \* pc[w]: "get" (in get_work) or "serve" (serving hand[w])
    hand,       \* hand[w]: the request get_work returned to worker w
    arrived,    \* job connections accepted by a listener so far
    responses,  \* responses[c]: responses written to connection c
    stolen,     \* jobs handed to a GetJob client instead of being served
    getJobs     \* GetJob requests handled so far

proxyVars == <<pc, hand, arrived, responses, stolen, getJobs>>
vars == <<queueVars, proxyVars>>

Init ==
    /\ QueueInit
    /\ pc = [w \in Workers |-> "get"]
    /\ hand = [w \in Workers |-> None]
    /\ arrived = {}
    /\ responses = [c \in Clients |-> 0]
    /\ stolen = {}
    /\ getJobs = 0

(***************************************************************************)
(* request_listen, a job request: add_work, and on a full queue the      *)
(* QUEUE_FULL error response and close (peek and print_queue only read). *)
(***************************************************************************)
ListenJob(c) ==
    /\ c \in Clients \ arrived
    /\ arrived' = arrived \cup {c}
    /\ IF Full
       THEN /\ responses' = [responses EXCEPT ![c] = 1]
            /\ UNCHANGED queueVars
       ELSE /\ AddWork(c)
            /\ UNCHANGED responses
    /\ UNCHANGED <<pc, hand, stolen, getJobs>>

(* request_listen, a path that is neither "/<n>/..." nor "/GetJob": the *)
(* BAD_REQUEST response, and close; the queue is not touched.            *)
ListenBadRequest(c) ==
    /\ c \in Clients \ arrived
    /\ arrived' = arrived \cup {c}
    /\ responses' = [responses EXCEPT ![c] = 1]
    /\ UNCHANGED <<queueVars, pc, hand, stolen, getJobs>>

(***************************************************************************)
(* request_listen, a GetJob request: get_work_nonblocking.  An empty     *)
(* queue returns priority -1 and QUEUE_EMPTY is answered; otherwise the  *)
(* taken request's path is sent to the GetJob client, and the job's own  *)
(* connection is never answered.  A taken request whose priority is -1   *)
(* is indistinguishable from "empty"; the priority of Garbage is unknown, *)
(* and either answer leaves no client's job stolen.                      *)
(***************************************************************************)
ListenGetJob ==
    /\ getJobs < MaxGetJobs
    /\ getJobs' = getJobs + 1
    /\ GetWorkNonblocking
    /\ stolen' = IF requests # <<>> /\ Taken \in Clients /\ Prio[Taken] # -1
                 THEN stolen \cup {Taken} ELSE stolen
    /\ UNCHANGED <<pc, hand, arrived, responses>>

(***************************************************************************)
(* request_work: one pass of get_work's while loop with the mutex held.  *)
(* A worker in `waiting` runs again only once signalled or woken.        *)
(***************************************************************************)
WorkerGet(w) ==
    /\ pc[w] = "get"
    /\ w \notin waiting
    /\ \/ /\ GetWorkBlocks(w)
          /\ UNCHANGED <<pc, hand>>
       \/ /\ GetWorkTakes
          /\ hand' = [hand EXCEPT ![w] = Taken]
          /\ pc' = [pc EXCEPT ![w] = "serve"]
    /\ UNCHANGED <<arrived, responses, stolen, getJobs>>

WorkerWakeup(w) ==
    /\ SpuriousWakeup(w)
    /\ UNCHANGED proxyVars

(* request_work: sleep(delay), serve_request, shutdown and close. *)
WorkerServe(w) ==
    /\ pc[w] = "serve"
    /\ responses' = IF hand[w] \in Clients
                    THEN [responses EXCEPT ![hand[w]] = @ + 1] ELSE responses
    /\ pc' = [pc EXCEPT ![w] = "get"]
    /\ hand' = [hand EXCEPT ![w] = None]
    /\ UNCHANGED <<queueVars, arrived, stolen, getJobs>>

Next ==
    \/ \E c \in Clients : ListenJob(c) \/ ListenBadRequest(c)
    \/ ListenGetJob
    \/ \E w \in Workers : WorkerGet(w) \/ WorkerWakeup(w) \/ WorkerServe(w)

Spec == Init /\ [][Next]_vars

(***************************************************************************)
(* The OS eventually runs every runnable worker thread: weak fairness of *)
(* each worker's steps.  Clients and spurious wakeups get none.           *)
(***************************************************************************)
FairSpec ==
    /\ Spec
    /\ \A w \in Workers : WF_vars(WorkerGet(w)) /\ WF_vars(WorkerServe(w))

-----------------------------------------------------------------------------
TypeOK ==
    /\ requests \in Seq(Clients)
    /\ Len(requests) <= MaxSize
    /\ below \in Clients \cup {Garbage}
    /\ waiting \subseteq Workers
    /\ pc \in [Workers -> {"get", "serve"}]
    /\ hand \in [Workers -> Clients \cup {Garbage, None}]
    /\ arrived \subseteq Clients
    /\ responses \in [Clients -> Nat]
    /\ stolen \subseteq Clients
    /\ getJobs \in 0..MaxGetJobs

(* The places a job can be: queued, held by a worker, answered, stolen. *)
Copies(c) ==
    Cardinality({i \in DOMAIN requests : requests[i] = c})
    + Cardinality({w \in Workers : pc[w] = "serve" /\ hand[w] = c})
    + responses[c]
    + (IF c \in stolen THEN 1 ELSE 0)

(***************************************************************************)
(* EachRequestOnce: every connection a listener accepted is, at every   *)
(* moment, in exactly one place: once in the queue array, in one worker's *)
(* hands, answered once (served, or refused as QUEUE_FULL or             *)
(* BAD_REQUEST), or given to a GetJob client; jobs not yet sent are      *)
(* nowhere.  It fails if the shift loop of get_work duplicates or drops *)
(* an entry, or two threads take one job.                                 *)
(***************************************************************************)
EachRequestOnce ==
    \A c \in Clients : Copies(c) = IF c \in arrived THEN 1 ELSE 0

(***************************************************************************)
(* NoIdleWhileQueued: whenever jobs are queued, some worker is not       *)
(* blocked in pthread_cond_wait (add_work's signal is never lost).        *)
(***************************************************************************)
NoIdleWhileQueued == requests # <<>> => waiting # Workers

(***************************************************************************)
(* HighestFirstThenFifo: a step that takes a job out of the queue (a     *)
(* worker's get_work or a GetJob) takes one of the highest priority, and *)
(* among those the one queued first.                                      *)
(***************************************************************************)
Removed == CHOOSE i \in DOMAIN requests : requests[i] \notin ToSet(requests')

HighestFirstThenFifo ==
    [][Len(requests') < Len(requests) =>
         \A i \in DOMAIN requests :
            \/ Prio[requests[i]] < Prio[requests[Removed]]
            \/ Prio[requests[i]] = Prio[requests[Removed]] /\ Removed <= i
      ]_vars

(***************************************************************************)
(* EveryJobAnswered: every job a listener accepts is eventually answered *)
(* or taken by a GetJob, given fair worker threads.                       *)
(***************************************************************************)
EveryJobAnswered ==
    \A c \in Clients : c \in arrived ~> (responses[c] > 0 \/ c \in stolen)

(***************************************************************************)
(* WorkersServeClients: a worker only ever serves a connection a client  *)
(* opened, never a request value that no client sent.                     *)
(***************************************************************************)
WorkersServeClients ==
    \A w \in Workers : pc[w] = "serve" => hand[w] \in arrived
=============================================================================
