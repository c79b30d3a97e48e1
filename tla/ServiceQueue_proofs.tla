-------------------------- MODULE ServiceQueue_proofs --------------------------
(***************************************************************************)
(* Proofs about the request queue, for any set of threads.                  *)
(*                                                                          *)
(* QueueIsCallers and RememberedIndexIsSafe are inductive together: Start   *)
(* acts on a remembered index 0, RememberedIndexIsSafe says that the index  *)
(* is 0 now, and so the thread's own request is the one Finish will pop.    *)
(***************************************************************************)
EXTENDS ServiceQueue, TLAPS

IInv == TypeOK /\ QueueIsCallers /\ RememberedIndexIsSafe

NoDuplicates(queue) ==
    \A i, j \in DOMAIN queue : queue[i] = queue[j] => i = j

(* A request that occurs once is found at its place. *)
LEMMA IndexIsPosition ==
    ASSUME NEW queue \in Seq(Threads), NoDuplicates(queue),
           NEW i \in DOMAIN queue
    PROVE  request_index(queue, queue[i]) = i - 1
<1>1. Positions(queue, queue[i]) = {i}
  BY DEF Positions, NoDuplicates
<1>2. i \in Nat
  OBVIOUS
<1>3. (CHOOSE k \in {i} : \A j \in {i} : k <= j) = i
  BY <1>2
<1> QED
  BY <1>1, <1>3 DEF request_index

(* The index is a natural number. *)
LEMMA IndexIsNat ==
    ASSUME NEW queue \in Seq(Threads), NoDuplicates(queue), NEW t
    PROVE  request_index(queue, t) \in Nat
<1>1. CASE Positions(queue, t) = {}
  BY <1>1 DEF request_index
<1>2. CASE Positions(queue, t) # {}
  <2>1. PICK i \in DOMAIN queue : queue[i] = t
    BY <1>2 DEF Positions
  <2>2. request_index(queue, t) = i - 1
    BY <2>1, IndexIsPosition
  <2> QED
    BY <2>1, <2>2
<1> QED
  BY <1>1, <1>2

(* A thread's place in a list without duplicates. *)
LEMMA CallerHasPosition ==
    ASSUME NEW t \in Threads, QueueIsCallers, pc[t] # Outside
    PROVE  \E i \in DOMAIN service_queue : service_queue[i] = t
BY DEF QueueIsCallers, Positions

LEMMA InitInv == Init => IInv
<1> SUFFICES ASSUME Init PROVE IInv
  OBVIOUS
<1>1. TypeOK
  BY DEF Init, TypeOK, Outside
<1>2. QueueIsCallers
  BY DEF Init, QueueIsCallers, Positions, Outside, Running
<1>3. RememberedIndexIsSafe
  BY DEF Init, RememberedIndexIsSafe, Outside, Waiting
<1> QED
  BY <1>1, <1>2, <1>3 DEF IInv

(* An append leaves the others where they are and puts the caller behind them. *)
LEMMA EnqueueInv ==
    ASSUME IInv, NEW t \in Threads, Enqueue(t)
    PROVE  IInv'
<1> DEFINE q == service_queue
<1> USE DEF IInv
<1>1. q \in Seq(Threads) /\ Len(q) \in Nat /\ DOMAIN q = 1..Len(q)
  BY DEF TypeOK
<1>2. q' = Append(q, t) /\ q' \in Seq(Threads)
  BY <1>1 DEF Enqueue
<1>3. Len(q') = Len(q) + 1 /\ DOMAIN q' = 1..(Len(q) + 1)
  BY <1>1, <1>2
<1>4. \A i \in 1..Len(q) : q'[i] = q[i]
  BY <1>1, <1>2
<1>5. q'[Len(q) + 1] = t
  BY <1>1, <1>2
<1>6. \A i \in 1..Len(q) : q[i] # t
  BY <1>1 DEF Enqueue, QueueIsCallers, Positions
<1>7. NoDuplicates(q) /\ NoDuplicates(q')
  BY <1>1, <1>3, <1>4, <1>5, <1>6 DEF QueueIsCallers, NoDuplicates
<1>8. TypeOK'
  <2>1. request_index(q', t) \in Nat
    BY <1>2, <1>7, IndexIsNat
  <2> QED
    BY <1>2, <2>1 DEF TypeOK, Enqueue, Waiting
<1>9. QueueIsCallers'
  <2>1. ASSUME NEW s \in Threads
        PROVE  (pc[s] # Outside <=> Positions(service_queue, s) # {})'
    <3>1. CASE s = t
      <4>1. pc'[t] # Outside
        BY DEF Enqueue, TypeOK, Outside, Waiting
      <4>2. Len(q) + 1 \in Positions(q', t)
        BY <1>1, <1>3, <1>5 DEF Positions
      <4> QED
        BY <3>1, <4>1, <4>2
    <3>2. CASE s # t
      <4>1. pc'[s] = pc[s]
        BY <3>2 DEF Enqueue, TypeOK
      <4>2. Positions(q', s) = Positions(q, s)
        BY <3>2, <1>1, <1>3, <1>4, <1>5 DEF Positions
      <4> QED
        BY <4>1, <4>2 DEF QueueIsCallers
    <3> QED
      BY <3>1, <3>2
  <2>2. ASSUME NEW s \in Threads, pc'[s] = Running
        PROVE  service_queue'[1] = s
    <3>1. s # t /\ pc[s] = Running
      BY <2>2 DEF Enqueue, TypeOK, Waiting, Running
    <3>2. q[1] = s /\ 1 \in 1..Len(q)
      BY <3>1, <1>1 DEF QueueIsCallers, Positions, Outside, Running
    <3> QED
      BY <3>2, <1>4
  <2> QED
    BY <2>1, <2>2, <1>7 DEF QueueIsCallers, NoDuplicates
<1>10. RememberedIndexIsSafe'
  <2> SUFFICES ASSUME NEW s \in Threads, pc'[s] = Waiting
               PROVE  request_index(q', s) <= reqs_ahead_of_us'[s]
    BY DEF RememberedIndexIsSafe
  <2>1. CASE s = t
    <3>1. reqs_ahead_of_us'[t] = request_index(q', t)
      BY DEF Enqueue, TypeOK
    <3>2. request_index(q', t) \in Nat
      BY <1>2, <1>7, IndexIsNat
    <3> QED
      BY <2>1, <3>1, <3>2
  <2>2. CASE s # t
    <3>1. pc[s] = Waiting /\ reqs_ahead_of_us'[s] = reqs_ahead_of_us[s]
      BY <2>2 DEF Enqueue, TypeOK
    <3>2. PICK i \in 1..Len(q) : q[i] = s
      BY <3>1, <1>1, CallerHasPosition DEF Waiting, Outside
    <3>3. request_index(q, s) = i - 1
      BY <3>2, <1>1, <1>7, IndexIsPosition
    <3>4. request_index(q', s) = i - 1
      <4>1. i \in DOMAIN q' /\ q'[i] = s
        BY <3>2, <1>1, <1>3, <1>4
      <4> QED
        BY <4>1, <1>2, <1>7, IndexIsPosition
    <3> QED
      BY <3>1, <3>3, <3>4 DEF RememberedIndexIsSafe
  <2> QED
    BY <2>1, <2>2
<1> QED
  BY <1>8, <1>9, <1>10 DEF IInv

(* The index read now is the index. *)
LEMMA RereadInv ==
    ASSUME IInv, NEW t \in Threads, Reread(t)
    PROVE  IInv'
<1> USE DEF IInv
<1>1. NoDuplicates(service_queue)
  BY DEF QueueIsCallers, NoDuplicates
<1>2. request_index(service_queue, t) \in Nat
  BY <1>1, IndexIsNat DEF TypeOK
<1>3. TypeOK'
  BY <1>2 DEF TypeOK, Reread
<1>4. QueueIsCallers'
  BY DEF QueueIsCallers, Reread, Positions
<1>5. RememberedIndexIsSafe'
  <2> SUFFICES ASSUME NEW s \in Threads, pc'[s] = Waiting
               PROVE  request_index(service_queue', s) <= reqs_ahead_of_us'[s]
    BY DEF RememberedIndexIsSafe
  <2>1. service_queue' = service_queue /\ pc' = pc
    BY DEF Reread
  <2>2. CASE s = t
    BY <1>2, <2>1, <2>2 DEF Reread, TypeOK
  <2>3. CASE s # t
    BY <2>1, <2>3 DEF Reread, TypeOK, RememberedIndexIsSafe
  <2> QED
    BY <2>2, <2>3
<1> QED
  BY <1>3, <1>4, <1>5 DEF IInv

(* The thread that starts is the head of the list. *)
LEMMA StarterIsHead ==
    ASSUME IInv, NEW t \in Threads, Start(t)
    PROVE  service_queue # <<>> /\ service_queue[1] = t
<1> USE DEF IInv
<1>1. pc[t] = Waiting /\ reqs_ahead_of_us[t] = 0
  BY DEF Start
<1>2. PICK i \in DOMAIN service_queue : service_queue[i] = t
  BY <1>1, CallerHasPosition DEF Waiting, Outside
<1>3. request_index(service_queue, t) = i - 1
  BY <1>2, IndexIsPosition DEF TypeOK, QueueIsCallers, NoDuplicates
<1>4. i \in Nat /\ i >= 1 /\ Len(service_queue) \in Nat
      /\ DOMAIN service_queue = 1..Len(service_queue)
  BY <1>2 DEF TypeOK
<1>5. i - 1 <= 0
  BY <1>1, <1>3 DEF RememberedIndexIsSafe
<1>6. i = 1
  BY <1>4, <1>5
<1> QED
  BY <1>2, <1>4, <1>6

(* At most one thread runs, because the list has one head. *)
LEMMA RunnersAgree ==
    ASSUME QueueIsCallers
    PROVE  MutualExclusion
BY DEF QueueIsCallers, MutualExclusion

LEMMA StartInv ==
    ASSUME IInv, NEW t \in Threads, Start(t)
    PROVE  IInv'
<1> USE DEF IInv
<1>1. TypeOK'
  BY DEF TypeOK, Start
<1>2. service_queue[1] = t
  BY StarterIsHead
<1>3. QueueIsCallers'
  <2>1. service_queue' = service_queue
    BY DEF Start
  <2>2. ASSUME NEW s \in Threads
        PROVE  pc'[s] # Outside <=> pc[s] # Outside
    BY DEF Start, TypeOK, Outside, Waiting, Running
  <2>3. ASSUME NEW s \in Threads, pc'[s] = Running
        PROVE  service_queue[1] = s
    BY <2>3, <1>2 DEF Start, TypeOK, QueueIsCallers
  <2> QED
    BY <2>1, <2>2, <2>3 DEF QueueIsCallers, Positions
<1>4. RememberedIndexIsSafe'
  BY DEF Start, TypeOK, RememberedIndexIsSafe, Waiting, Running
<1> QED
  BY <1>1, <1>3, <1>4 DEF IInv

(* The pop removes the caller's own request and moves the others one place up. *)
LEMMA FinishInv ==
    ASSUME IInv, NEW t \in Threads, Finish(t)
    PROVE  IInv'
<1> DEFINE q == service_queue
<1> USE DEF IInv
<1>1. q \in Seq(Threads) /\ Len(q) \in Nat /\ DOMAIN q = 1..Len(q)
  BY DEF TypeOK
<1>2. pc[t] = Running /\ q[1] = t /\ q' = Tail(q)
  BY DEF Finish, QueueIsCallers
<1>3. q # <<>> /\ Len(q) >= 1
  BY <1>1, <1>2 DEF QueueIsCallers, Positions, Outside, Running
<1>4. q' \in Seq(Threads) /\ Len(q') = Len(q) - 1 /\ DOMAIN q' = 1..(Len(q) - 1)
  BY <1>1, <1>2, <1>3
<1>5. \A i \in 1..(Len(q) - 1) : q'[i] = q[i + 1]
  BY <1>1, <1>2, <1>3
<1>6. NoDuplicates(q)
  BY DEF QueueIsCallers, NoDuplicates
<1>7. NoDuplicates(q')
  BY <1>1, <1>4, <1>5, <1>6 DEF NoDuplicates
<1>8. \A s \in Threads : s # t => pc'[s] = pc[s] /\ pc[s] # Running
  BY <1>2 DEF Finish, TypeOK, QueueIsCallers
<1>9. TypeOK'
  BY <1>4 DEF Finish, TypeOK
<1>10. ASSUME NEW s \in Threads, s # t, NEW i \in DOMAIN q, q[i] = s
       PROVE  i - 1 \in DOMAIN q' /\ q'[i - 1] = s
  BY <1>1, <1>2, <1>4, <1>5, <1>10
<1>11. QueueIsCallers'
  <2>1. ASSUME NEW s \in Threads
        PROVE  (pc[s] # Outside <=> Positions(service_queue, s) # {})'
    <3>1. CASE s = t
      <4>1. pc'[s] = Outside
        BY <3>1 DEF Finish, TypeOK
      <4>2. Positions(q', s) = {}
        BY <3>1, <1>1, <1>2, <1>3, <1>4, <1>5, <1>6 DEF Positions, NoDuplicates
      <4> QED
        BY <4>1, <4>2
    <3>2. CASE s # t
      <4>1. Positions(q, s) # {} => Positions(q', s) # {}
        BY <3>2, <1>10 DEF Positions
      <4>2. Positions(q', s) # {} => Positions(q, s) # {}
        BY <1>1, <1>4, <1>5 DEF Positions
      <4> QED
        BY <3>2, <4>1, <4>2, <1>8 DEF QueueIsCallers
    <3> QED
      BY <3>1, <3>2
  <2>2. ASSUME NEW s \in Threads
        PROVE  pc'[s] # Running
    BY <1>8 DEF Finish, TypeOK, Outside, Running
  <2> QED
    BY <2>1, <2>2, <1>7 DEF QueueIsCallers, NoDuplicates
<1>12. RememberedIndexIsSafe'
  <2> SUFFICES ASSUME NEW s \in Threads, pc'[s] = Waiting
               PROVE  request_index(q', s) <= reqs_ahead_of_us'[s]
    BY DEF RememberedIndexIsSafe
  <2>1. s # t /\ pc[s] = Waiting /\ reqs_ahead_of_us'[s] = reqs_ahead_of_us[s]
    BY DEF Finish, TypeOK, Outside, Waiting
  <2>2. PICK i \in DOMAIN q : q[i] = s
    BY <2>1, CallerHasPosition DEF Outside, Waiting
  <2>3. request_index(q, s) = i - 1
    BY <2>2, <1>1, <1>6, IndexIsPosition
  <2>4. i - 1 \in DOMAIN q' /\ q'[i - 1] = s
    BY <2>1, <2>2, <1>10
  <2>5. request_index(q', s) = (i - 1) - 1
    BY <2>4, <1>4, <1>7, IndexIsPosition
  <2>6. i \in Nat /\ reqs_ahead_of_us[s] \in Nat
    BY <1>1, <2>2 DEF TypeOK
  <2> QED
    BY <2>1, <2>3, <2>5, <2>6 DEF RememberedIndexIsSafe
<1> QED
  BY <1>9, <1>11, <1>12 DEF IInv

LEMMA NextInv == IInv /\ [Next]_vars => IInv'
<1> SUFFICES ASSUME IInv, [Next]_vars PROVE IInv'
  OBVIOUS
<1>1. ASSUME NEW t \in Threads, Enqueue(t) PROVE IInv'
  BY <1>1, EnqueueInv
<1>2. ASSUME NEW t \in Threads, Reread(t) PROVE IInv'
  BY <1>2, RereadInv
<1>3. ASSUME NEW t \in Threads, Start(t) PROVE IInv'
  BY <1>3, StartInv
<1>4. ASSUME NEW t \in Threads, Finish(t) PROVE IInv'
  BY <1>4, FinishInv
<1>5. CASE UNCHANGED vars
  BY <1>5 DEF vars, IInv, TypeOK, QueueIsCallers, RememberedIndexIsSafe, Positions,
              request_index
<1> QED
  BY <1>1, <1>2, <1>3, <1>4, <1>5 DEF Next

(***************************************************************************)
(* The queue's inductive invariant: the list holds exactly the callers, the *)
(* running one at its head, and no remembered index is ahead of the truth.  *)
(* It models the list and the wait loop of utils.serialized.                *)
(***************************************************************************)
THEOREM QueueInvariant == Spec => []IInv
BY InitInv, NextInv, PTL DEF Spec

(* The list and the remembered indexes keep their types, with any number of threads: *)
(* an index is never read of a request that is not in the list.                      *)
THEOREM QueueTypes == Spec => []TypeOK
<1>1. IInv => TypeOK
  BY DEF IInv
<1> QED
  BY <1>1, QueueInvariant, PTL

(* Two decorated driver methods never run at the same time. *)
THEOREM QueueMutualExclusion == Spec => []MutualExclusion
<1>1. IInv => MutualExclusion
  BY RunnersAgree DEF IInv
<1> QED
  BY <1>1, QueueInvariant, PTL

(* The index a waiting thread remembers is never smaller than its index now. *)
THEOREM QueueRememberedIndex == Spec => []RememberedIndexIsSafe
<1>1. IInv => RememberedIndexIsSafe
  BY DEF IInv
<1> QED
  BY <1>1, QueueInvariant, PTL

(* pop(0) always removes the request of the thread that calls it, and the list *)
(* never keeps the request of a thread that left.                              *)
THEOREM QueueHoldsCallers == Spec => []QueueIsCallers
<1>1. IInv => QueueIsCallers
  BY DEF IInv
<1> QED
  BY <1>1, QueueInvariant, PTL

-------------------------------------------------------------------------------
(* Refinement of FifoLock (safety). *)

LEMMA RunnerIsHolder ==
    ASSUME NEW t \in Threads, pc[t] = Running, MutualExclusion
    PROVE  InMethod = {t} /\ holderBar = t /\ waitersBar = Tail(service_queue)
<1>1. InMethod = {t}
  BY DEF InMethod, MutualExclusion
<1> QED
  BY <1>1 DEF holderBar, waitersBar

LEMMA EnqueueRefines ==
    ASSUME IInv, NEW t \in Threads, Enqueue(t)
    PROVE  Lock!Request(t)
<1> DEFINE q == service_queue
<1> USE DEF IInv
<1>1. q \in Seq(Threads) /\ Len(q) \in Nat /\ DOMAIN q = 1..Len(q)
  BY DEF TypeOK
<1>2. pc[t] = Outside /\ q' = Append(q, t)
  BY DEF Enqueue
<1>3. \A i \in 1..Len(q) : q[i] # t
  BY <1>1, <1>2 DEF QueueIsCallers, Positions
<1>4. InMethod' = InMethod
  BY DEF InMethod, Enqueue, TypeOK, Outside, Waiting, Running
<1>5. UNCHANGED holderBar
  BY <1>4 DEF holderBar
<1>6. CASE InMethod = {}
  <2>1. holderBar = NoThread /\ waitersBar = q /\ waitersBar' = q'
    BY <1>4, <1>6 DEF holderBar, waitersBar
  <2> QED
    BY <2>1, <1>1, <1>2, <1>3, <1>5, NoThreadAssumption DEF Lock!Request
<1>7. CASE InMethod # {}
  <2>1. PICK s \in Threads : pc[s] = Running
    BY <1>7 DEF InMethod
  <2>2. holderBar = s
    BY <2>1, RunnersAgree, RunnerIsHolder
  <2>3. s # t
    BY <2>1, <1>2 DEF Outside, Running
  <2>4. q # <<>>
    BY <2>1, <1>1 DEF QueueIsCallers, Positions, Outside, Running
  <2>5. waitersBar = Tail(q) /\ waitersBar' = Tail(Append(q, t))
    BY <1>2, <1>4, <1>7 DEF waitersBar
  <2>6. Tail(Append(q, t)) = Append(Tail(q), t)
    BY <1>1, <2>4
  <2>7. \A i \in DOMAIN Tail(q) : Tail(q)[i] # t
    BY <1>1, <1>3, <2>4
  <2> QED
    BY <2>2, <2>3, <2>5, <2>6, <2>7, <1>5 DEF Lock!Request
<1> QED
  BY <1>6, <1>7

LEMMA StartRefines ==
    ASSUME IInv, NEW t \in Threads, Start(t)
    PROVE  Lock!Acquire(t)
<1> USE DEF IInv
<1>1. service_queue # <<>> /\ service_queue[1] = t
  BY StarterIsHead
<1>2. InMethod = {}
  BY <1>1 DEF InMethod, QueueIsCallers, Start, Waiting, Running
<1>3. holderBar = NoThread /\ waitersBar = service_queue
  BY <1>2 DEF holderBar, waitersBar
<1>4. InMethod' = {t}
  BY <1>2 DEF InMethod, Start, TypeOK
<1>5. holderBar' = t /\ waitersBar' = Tail(service_queue)
  BY <1>4 DEF holderBar, waitersBar, Start
<1>6. Head(service_queue) = t
  BY <1>1 DEF TypeOK
<1> QED
  BY <1>1, <1>3, <1>5, <1>6 DEF Lock!Acquire

LEMMA FinishRefines ==
    ASSUME IInv, NEW t \in Threads, Finish(t)
    PROVE  Lock!Release(t)
<1> USE DEF IInv
<1>1. InMethod = {t} /\ holderBar = t /\ waitersBar = Tail(service_queue)
  BY RunnersAgree, RunnerIsHolder DEF Finish
<1>2. InMethod' = {}
  BY <1>1 DEF InMethod, Finish, TypeOK, Outside, Running
<1>3. holderBar' = NoThread /\ waitersBar' = Tail(service_queue)
  BY <1>2 DEF holderBar, waitersBar, Finish
<1> QED
  BY <1>1, <1>3 DEF Lock!Release

(***************************************************************************)
(* Every behaviour of the request queue is a behaviour of the FIFO lock:    *)
(* the decorated methods of the driver run one at a time and in the order   *)
(* in which their requests entered the list.                                *)
(***************************************************************************)
THEOREM QueueImplementsLock == Spec => Lock!LockSafety
<1>1. Init => Lock!LockInit
  BY DEF Init, Lock!LockInit, holderBar, waitersBar, InMethod, Outside, Running
<1>2. IInv /\ [Next]_vars => [Lock!LockNext]_(Lock!lockVars)
  <2> SUFFICES ASSUME IInv, [Next]_vars
               PROVE  [Lock!LockNext]_(Lock!lockVars)
    OBVIOUS
  <2>1. ASSUME NEW t \in Threads, Enqueue(t) PROVE Lock!LockNext
    BY <2>1, EnqueueRefines DEF Lock!LockNext
  <2>2. ASSUME NEW t \in Threads, Reread(t) PROVE UNCHANGED Lock!lockVars
    BY <2>2 DEF Reread, Lock!lockVars, holderBar, waitersBar, InMethod
  <2>3. ASSUME NEW t \in Threads, Start(t) PROVE Lock!LockNext
    BY <2>3, StartRefines DEF Lock!LockNext
  <2>4. ASSUME NEW t \in Threads, Finish(t) PROVE Lock!LockNext
    BY <2>4, FinishRefines DEF Lock!LockNext
  <2>5. CASE UNCHANGED vars
    BY <2>5 DEF vars, Lock!lockVars, holderBar, waitersBar, InMethod
  <2> QED
    BY <2>1, <2>2, <2>3, <2>4, <2>5 DEF Next
<1> QED
  BY <1>1, <1>2, QueueInvariant, PTL DEF Spec, Lock!LockSafety
===============================================================================
