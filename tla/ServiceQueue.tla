----------------------------- MODULE ServiceQueue -----------------------------
(***************************************************************************)
(* The request queue of the iControl driver: the "serialized" decorator of  *)
(* utils.py, which every method of iControlDriver that configures a BIG-IP  *)
(* carries.  A call appends its request to the list service_queue, sleeps   *)
(* and re-reads its own index until that index is 0, runs the method, and   *)
(* pops the FIRST entry of the list when the method returns or raises.      *)
(*                                                                          *)
(* A request is identified by a fresh uuid and a green thread has one       *)
(* request at a time (no decorated method calls another), so a request is   *)
(* named by its thread.  Green threads switch at sleeps, at I/O and at log  *)
(* calls; each action below is a piece of the wrapper between two of those. *)
(***************************************************************************)
EXTENDS Naturals, Sequences

CONSTANTS Threads,  \* green threads: RPC handlers and the periodic task
          NoThread  \* used by the mapping to FifoLock only

ASSUME NoThreadAssumption == NoThread \notin Threads

VARIABLES
    service_queue,    \* args[0].service_queue, the requests in order of arrival
    pc,               \* where each thread is in the wrapper
    reqs_ahead_of_us  \* the local variable of that name: an index read earlier

vars == <<service_queue, pc, reqs_ahead_of_us>>

Outside == "outside"  \* not in a decorated call
Waiting == "waiting"  \* between two reads of the index
Running == "running"  \* in the decorated method

Positions(queue, t) == {i \in DOMAIN queue : queue[i] = t}

\* Slip: an index that forgets that Python counts from 0.
request_index_from_one(queue, t) ==
    IF Positions(queue, t) = {} THEN Len(queue)
    ELSE (CHOOSE i \in Positions(queue, t) : TRUE) - 2

\* The 0-based index of t's request, and the length of the list when there is none.
request_index(queue, t) ==
    IF Positions(queue, t) = {}
    THEN Len(queue)
    ELSE (CHOOSE i \in Positions(queue, t) :
              \A j \in Positions(queue, t) : i <= j) - 1

Init ==
    /\ service_queue = <<>>
    /\ pc = [t \in Threads |-> Outside]
    /\ reqs_ahead_of_us = [t \in Threads |-> 0]

\* Slip: requests for the same pool are "consolidated", a new one goes next to the head.
EnqueueBehindHead(t) ==
    /\ pc[t] = Outside
    /\ service_queue' = IF service_queue = <<>> THEN <<t>>
                        ELSE <<Head(service_queue), t>> \o Tail(service_queue)
    /\ reqs_ahead_of_us' =
           [reqs_ahead_of_us EXCEPT ![t] = request_index(service_queue', t)]
    /\ pc' = [pc EXCEPT ![t] = Waiting]

\* service_queue.append(req) and the first read of the index: no switch in between.
Enqueue(t) ==
    /\ pc[t] = Outside
    /\ service_queue' = Append(service_queue, t)
    /\ reqs_ahead_of_us' =
           [reqs_ahead_of_us EXCEPT ![t] = request_index(service_queue', t)]
    /\ pc' = [pc EXCEPT ![t] = Waiting]

\* greenthread.sleep(waitsecs) is over: read the index again.
Reread(t) ==
    /\ pc[t] = Waiting
    /\ reqs_ahead_of_us[t] # 0
    /\ reqs_ahead_of_us' =
           [reqs_ahead_of_us EXCEPT ![t] = request_index(service_queue, t)]
    /\ UNCHANGED <<service_queue, pc>>

\* Slip: "while reqs_ahead_of_us > 1".
StartWithOneAhead(t) ==
    /\ pc[t] = Waiting
    /\ reqs_ahead_of_us[t] <= 1
    /\ pc' = [pc EXCEPT ![t] = Running]
    /\ UNCHANGED <<service_queue, reqs_ahead_of_us>>

\* The while loop ends: the method is called.
Start(t) ==
    /\ pc[t] = Waiting
    /\ reqs_ahead_of_us[t] = 0
    /\ pc' = [pc EXCEPT ![t] = Running]
    /\ UNCHANGED <<service_queue, reqs_ahead_of_us>>

\* Slip: the pop is not in a "finally" and an exception of the method skips it.
FinishWithoutFinally(t) ==
    /\ pc[t] = Running
    /\ service_queue' \in {service_queue, Tail(service_queue)}
    /\ pc' = [pc EXCEPT ![t] = Outside]
    /\ UNCHANGED reqs_ahead_of_us

\* The method returned or raised; "finally" pops the first request, whosever it is.
Finish(t) ==
    /\ pc[t] = Running
    /\ service_queue' = Tail(service_queue)
    /\ pc' = [pc EXCEPT ![t] = Outside]
    /\ UNCHANGED reqs_ahead_of_us

Next == \E t \in Threads : Enqueue(t) \/ Reread(t) \/ Start(t) \/ Finish(t)

(***************************************************************************)
(* A sleep ends and a ready thread is scheduled: weak fairness of the two   *)
(* steps of the loop.  A decorated method returns: every device call has a  *)
(* timeout (constants_v2.DEVICE_CONNECTION_TIMEOUT).                        *)
(***************************************************************************)
Fairness ==
    \A t \in Threads : WF_vars(Reread(t)) /\ WF_vars(Start(t)) /\ WF_vars(Finish(t))

Spec == Init /\ [][Next]_vars /\ Fairness

-------------------------------------------------------------------------------
(* Type correctness. *)
TypeOK ==
    /\ service_queue \in Seq(Threads)
    /\ pc \in [Threads -> {Outside, Waiting, Running}]
    /\ reqs_ahead_of_us \in [Threads -> Nat]

\* No two threads are inside decorated methods: what the decorator is for.
MutualExclusion ==
    \A s, t \in Threads : pc[s] = Running /\ pc[t] = Running => s = t

\* The list holds exactly one request of every thread in a call, no other entry,
\* and the running thread's request is the one that pop(0) will remove.
QueueIsCallers ==
    /\ \A t \in Threads : pc[t] # Outside <=> Positions(service_queue, t) # {}
    /\ \A i, j \in DOMAIN service_queue :
           service_queue[i] = service_queue[j] => i = j
    /\ \A t \in Threads : pc[t] = Running => service_queue[1] = t

\* A thread acts on an index it read before it slept.  The list has moved since, but
\* only towards the thread: its place now is never behind the place it remembers.
RememberedIndexIsSafe ==
    \A t \in Threads :
        pc[t] = Waiting => request_index(service_queue, t) <= reqs_ahead_of_us[t]

\* Every request that entered the list is run.
EveryRequestRuns == \A t \in Threads : pc[t] = Waiting ~> pc[t] = Running

-------------------------------------------------------------------------------
(* The queue implements the lock: the running thread holds it, the other      *)
(* requests of the list wait for it.                                          *)
InMethod == {t \in Threads : pc[t] = Running}

holderBar == IF InMethod = {} THEN NoThread ELSE CHOOSE t \in InMethod : TRUE

waitersBar == IF InMethod = {} THEN service_queue ELSE Tail(service_queue)

Lock == INSTANCE FifoLock WITH holder <- holderBar, waiters <- waitersBar

\* Calls run one at a time, in the order of arrival, and every one of them runs.
ImplementsLock == Lock!LockSpec
===============================================================================
