------------------------------- MODULE FifoLock -------------------------------
(***************************************************************************)
(* What the "serialized" decorator of utils.py promises to the driver: at   *)
(* most one caller is inside a decorated method, callers enter in the order *)
(* in which they asked, and a caller that asked does enter.                 *)
(***************************************************************************)
EXTENDS Sequences

CONSTANTS Threads,  \* the green threads that call the driver
          NoThread  \* not a thread: the lock is free

VARIABLES holder,   \* the thread inside a decorated method, or NoThread
          waiters   \* the threads that asked and have not entered, oldest first

lockVars == <<holder, waiters>>

LockInit ==
    /\ holder = NoThread
    /\ waiters = <<>>

Request(t) ==
    /\ t # holder
    /\ \A i \in DOMAIN waiters : waiters[i] # t
    /\ waiters' = Append(waiters, t)
    /\ UNCHANGED holder

Acquire(t) ==
    /\ holder = NoThread
    /\ waiters # <<>>
    /\ t = Head(waiters)
    /\ holder' = t
    /\ waiters' = Tail(waiters)

Release(t) ==
    /\ holder = t
    /\ holder' = NoThread
    /\ UNCHANGED waiters

LockNext == \E t \in Threads : Request(t) \/ Acquire(t) \/ Release(t)

LockSafety == LockInit /\ [][LockNext]_lockVars

LockSpec ==
    /\ LockSafety
    /\ \A t \in Threads : WF_lockVars(Acquire(t)) /\ WF_lockVars(Release(t))
===============================================================================
