-------------------------- MODULE AgentManager_proofs --------------------------
(***************************************************************************)
(* Proofs about the agent, for any devices, any kinds of objects and any     *)
(* bounds.  The steps of the driver are those of ServiceHandler and keep its  *)
(* types by the lemmas about it; a request does not have to be one that the   *)
(* plugin would send, since the queue holds services of earlier times.        *)
(***************************************************************************)
EXTENDS AgentManager, ServiceHandler_proofs

Entries == [request : Requests, service : [Kinds -> Statuses]]
Steps == {"idle", "validate", "validating", "refresh", "refreshing", "refreshed", "clean",
          "clean_rest"}
DbStatuses == Statuses \cup {"DESTROYED"}

ManagerTypes ==
    /\ cached \in BOOLEAN
    /\ needs_resync \in BOOLEAN
    /\ timer_due \in BOOLEAN
    /\ pending_services \in BOOLEAN
    /\ periodic \in Steps
    /\ ops \in 0..MaxOps

LEMMA TypeParts ==
    TypeOK <=> /\ HandlerTypeOK
               /\ neutron \in [Kinds -> DbStatuses]
               /\ queue \in Seq(Entries)
               /\ ManagerTypes
BY DEF TypeOK, Entries, DbStatuses, ManagerTypes, Steps

LEMMA NextTypeParts ==
    TypeOK' <=> /\ HandlerTypeOK'
                /\ neutron' \in [Kinds -> DbStatuses]
                /\ queue' \in Seq(Entries)
                /\ ManagerTypes'
BY DEF TypeOK, Entries, DbStatuses, ManagerTypes, Steps

\* What is fetched from the database is a service.
LEMMA ServiceTypes ==
    ASSUME NEW db \in [Kinds -> DbStatuses]
    PROVE  Service(db) \in [Kinds -> Statuses]
BY DEF Service, Gone, DbStatuses, Statuses

LEMMA AppliedTypes ==
    ASSUME neutron \in [Kinds -> DbStatuses],
           NEW report \in [Kinds -> {"NONE", "ACTIVE", "ERROR", "DESTROYED"}]
    PROVE  Applied(report) \in [Kinds -> DbStatuses]
BY DEF Applied, DbStatuses, Statuses

\* The entry whose turn it is, and what is behind it.
LEMMA HeadTypes ==
    ASSUME queue \in Seq(Entries), queue # <<>>, neutron \in [Kinds -> DbStatuses]
    PROVE  /\ Head(queue).request \in Requests
           /\ ServiceOf(Head(queue)) \in [Kinds -> Statuses]
           /\ Tail(queue) \in Seq(Entries)
<1>1. Head(queue) \in Entries /\ Tail(queue) \in Seq(Entries)
  OBVIOUS
<1>2. Service(neutron) \in [Kinds -> Statuses]
  BY ServiceTypes
<1> QED
  BY <1>1, <1>2 DEF Entries, ServiceOf

LEMMA EmptyQueue == <<>> \in Seq(Entries)
OBVIOUS

LEMMA SyncEntry ==
    ASSUME queue \in Seq(Entries)
    PROVE  Append(queue, [request |-> "sync", service |-> NoService]) \in Seq(Entries)
<1>1. [request |-> "sync", service |-> NoService] \in Entries
  BY DEF Entries, Requests, NoService, Statuses
<1> QED
  BY <1>1

-------------------------------------------------------------------------------
LEMMA InitTypes == Init => TypeOK
<1> SUFFICES ASSUME Init PROVE TypeOK
  OBVIOUS
<1>1. HandlerTypeOK
  BY InitType DEF Init
<1>2. neutron \in [Kinds -> DbStatuses]
  BY DEF Init, DbStatuses, Statuses
<1>3. queue \in Seq(Entries)
  BY EmptyQueue DEF Init
<1>4. ManagerTypes
  <2>1. periodic \in Steps /\ ops \in 0..MaxOps
    BY ONLY Init, MaxOpsAssumption DEF Init, Steps
  <2>2. /\ cached \in BOOLEAN /\ needs_resync \in BOOLEAN
        /\ timer_due \in BOOLEAN /\ pending_services \in BOOLEAN
    BY ONLY Init, Zenon DEF Init
  <2> QED
    BY <2>1, <2>2 DEF ManagerTypes
<1> QED
  BY <1>1, <1>2, <1>3, <1>4, TypeParts

LEMMA OperateTypes ==
    ASSUME TypeOK, NEW o \in Objects, NEW s \in Pending, NEW lost \in BOOLEAN, Operate(o, s, lost)
    PROVE  TypeOK'
<1>1. o \in Kinds /\ s \in Statuses
  BY ObjectsAssumption DEF Pending, Statuses
<1>2. neutron' \in [Kinds -> DbStatuses]
  BY <1>1 DEF Operate, TypeOK, DbStatuses, Statuses
<1>3. Service(neutron') \in [Kinds -> Statuses]
  BY <1>2, ServiceTypes
<1>4. queue' \in Seq(Entries)
  <2> DEFINE r == IF s = "PENDING_DELETE" /\ o = LB THEN "delete_loadbalancer" ELSE o
  <2>1. r \in Requests
    BY <1>1 DEF Requests, Kinds
  <2>2. [request |-> r, service |-> Service(neutron')] \in Entries
    BY <1>3, <2>1 DEF Entries
  <2>3. queue' = IF lost THEN queue
                 ELSE Append(queue, [request |-> r, service |-> Service(neutron')])
    BY DEF Operate
  <2> HIDE DEF r
  <2> QED
    BY <2>2, <2>3, TypeParts
<1>5. HandlerTypeOK'
  BY MaxFaultsAssumption DEF Operate, handlerVars, TypeOK, HandlerTypeOK
<1>6. ManagerTypes'
  BY MaxOpsAssumption DEF Operate, managerVars, TypeOK, ManagerTypes, Steps
<1> QED
  BY <1>2, <1>4, <1>5, <1>6, NextTypeParts

LEMMA DriverTypes ==
    ASSUME TypeOK, Driver
    PROVE  TypeOK'
<1>0. /\ HandlerTypeOK
      /\ neutron \in [Kinds -> DbStatuses]
      /\ queue \in Seq(Entries)
      /\ ManagerTypes
  BY TypeParts
<1>1. CASE BeginRequest
  <2>1. HandlerTypeOK'
    BY <1>0, <1>1, HeadTypes, BeginType DEF BeginRequest
  <2> QED
    BY <1>0, <1>1, <2>1, HeadTypes, NextTypeParts DEF BeginRequest, managerVars, ManagerTypes
<1>2. CASE SyncNothing
  BY <1>0, <1>2, HeadTypes, NextTypeParts DEF SyncNothing, ManagerTypes, Steps, serviceVars,
                                          handlerVars, historyVars, HandlerTypeOK
<1>3. ASSUME NEW connected \in SUBSET Devices, NotOperational(connected)
      PROVE  TypeOK'
  <2>1. HandlerTypeOK'
    BY <1>0, <1>3 DEF NotOperational, handlerVars, historyVars, HandlerTypeOK
  <2> QED
    BY <1>0, <1>3, <2>1, HeadTypes, NextTypeParts DEF NotOperational, ManagerTypes, Steps
<1>4. CASE HandlerStep
  <2>1. HandlerTypeOK'
    BY <1>0, <1>4, NextType DEF HandlerStep, HandlerNext
  <2>2. Sent \in [Kinds -> {"NONE", "ACTIVE", "ERROR", "DESTROYED"}]
    BY <2>1 DEF Sent, HandlerTypeOK
  <2>3. Applied(Sent) \in [Kinds -> DbStatuses]
    BY <1>0, <2>2, AppliedTypes
  <2> QED
    BY <1>0, <1>4, <2>1, <2>3, NextTypeParts DEF HandlerStep, managerVars, ManagerTypes
<1>5. CASE ReturnToCaller
  <2>1. HandlerTypeOK'
    BY <1>0, <1>5, NextType DEF ReturnToCaller, HandlerNext, Handler
  <2>2. ManagerTypes'
    <3>1. periodic' \in Steps /\ cached' \in BOOLEAN /\ needs_resync' \in BOOLEAN
      BY <1>0, <1>5 DEF ReturnToCaller, ManagerTypes, Steps
    <3> QED
      BY <1>0, <1>5, <3>1 DEF ReturnToCaller, ManagerTypes
  <2> QED
    BY <1>0, <1>5, <2>1, <2>2, NextTypeParts DEF ReturnToCaller
<1> QED
  BY <1>1, <1>2, <1>3, <1>4, <1>5 DEF Driver

LEMMA PeriodicTypes ==
    ASSUME TypeOK, Periodic
    PROVE  TypeOK'
<1>0. /\ HandlerTypeOK
      /\ neutron \in [Kinds -> DbStatuses]
      /\ queue \in Seq(Entries)
      /\ ManagerTypes
  BY TypeParts
<1>1. CASE StartResync \/ RefreshNothing \/ Refreshed
  <2>1. ManagerTypes'
    BY <1>0, <1>1 DEF StartResync, RefreshNothing, Refreshed, ManagerTypes, Steps
  <2> QED
    BY <1>0, <1>1, <2>1, NextTypeParts
       DEF StartResync, RefreshNothing, Refreshed, serviceVars, handlerVars, historyVars,
           HandlerTypeOK
<1>2. ASSUME NEW fails \in BOOLEAN, Validate(fails)
      PROVE  TypeOK'
  <2>1. HandlerTypeOK'
    BY <1>0, <1>2, MaxFaultsAssumption DEF Validate, handlerVars, HandlerTypeOK
  <2>2. queue' \in Seq(Entries)
    BY <1>0, <1>2, SyncEntry DEF Validate
  <2>3. ManagerTypes'
    BY <1>0, <1>2 DEF Validate, ManagerTypes, Steps
  <2> QED
    BY <1>0, <1>2, <2>1, <2>2, <2>3, NextTypeParts DEF Validate
<1>3. CASE Refresh
  <2>1. queue' \in Seq(Entries)
    BY <1>0, <1>3, SyncEntry DEF Refresh
  <2>2. HandlerTypeOK' /\ ManagerTypes'
    BY <1>0, <1>3 DEF Refresh, serviceVars, handlerVars, historyVars, HandlerTypeOK,
                      ManagerTypes, Steps
  <2> QED
    BY <1>0, <1>3, <2>1, <2>2, NextTypeParts DEF Refresh
<1>4. CASE ServiceTimeout
  <2>1. TimedOutReport \in [Kinds -> {"NONE", "ACTIVE", "ERROR", "DESTROYED"}]
    BY DEF TimedOutReport
  <2>2. neutron' \in [Kinds -> DbStatuses]
    BY <1>0, <1>4, <2>1, AppliedTypes DEF ServiceTimeout
  <2>3. HandlerTypeOK' /\ ManagerTypes'
    BY <1>0, <1>4 DEF ServiceTimeout, serviceVars, handlerVars, historyVars, HandlerTypeOK,
                      ManagerTypes, Steps
  <2> QED
    BY <1>0, <1>4, <2>2, <2>3, NextTypeParts DEF ServiceTimeout
<1>5. ASSUME NEW purged \in SUBSET active, NEW used \in BOOLEAN, NEW raises \in BOOLEAN,
             CleanOrphans(purged, used, raises)
      PROVE  TypeOK'
  <2>1. content' \in [Devices -> SUBSET Items]
    BY <1>0, <1>5 DEF CleanOrphans, HandlerTypeOK
  <2>2. HandlerTypeOK'
    BY <1>0, <1>5, <2>1, MaxFaultsAssumption DEF CleanOrphans, handlerVars, HandlerTypeOK
  <2>3. ManagerTypes'
    BY <1>0, <1>5, MaxOpsAssumption DEF CleanOrphans, ManagerTypes, Steps
  <2> QED
    BY <1>0, <1>5, <2>2, <2>3, NextTypeParts DEF CleanOrphans
<1>6. ASSUME NEW connected \in SUBSET Devices, CleanNotOperational(connected)
      PROVE  TypeOK'
  <2>1. HandlerTypeOK'
    BY <1>0, <1>6 DEF CleanNotOperational, handlerVars, historyVars, HandlerTypeOK
  <2> QED
    BY <1>0, <1>6, <2>1, NextTypeParts DEF CleanNotOperational, ManagerTypes, Steps
<1> QED
  BY <1>1, <1>2, <1>3, <1>4, <1>5, <1>6 DEF Periodic

LEMMA NextTypes ==
    ASSUME TypeOK, [Next]_vars
    PROVE  TypeOK'
<1>0. /\ HandlerTypeOK
      /\ neutron \in [Kinds -> DbStatuses]
      /\ queue \in Seq(Entries)
      /\ ManagerTypes
  BY TypeParts
<1>1. CASE \E o \in Objects, s \in Pending, lost \in BOOLEAN : Operate(o, s, lost)
  BY <1>1, OperateTypes
<1>2. CASE Driver \/ Periodic
  BY <1>2, DriverTypes, PeriodicTypes
<1>3. CASE TimerExpires \/ ReportState
  BY <1>0, <1>3, NextTypeParts DEF TimerExpires, ReportState, ManagerTypes, serviceVars,
                               handlerVars, historyVars, HandlerTypeOK
<1>4. ASSUME NEW d \in Devices, RecoverDevice(d)
      PROVE  TypeOK'
  <2>1. HandlerTypeOK'
    BY <1>0, <1>4, NextType DEF RecoverDevice, HandlerNext, DeviceChange
  <2> QED
    BY <1>0, <1>4, <2>1, NextTypeParts DEF RecoverDevice, ManagerTypes
<1>5. ASSUME NEW d \in Devices, NEW items \in SUBSET Items, LoseDevice(d, items)
      PROVE  TypeOK'
  <2>1. HandlerTypeOK'
    BY <1>0, <1>5, NextType DEF LoseDevice, HandlerNext, DeviceChange
  <2> QED
    BY <1>0, <1>5, <2>1, NextTypeParts DEF LoseDevice, ManagerTypes
<1>6. ASSUME NEW connected \in SUBSET Devices, Restart(connected)
      PROVE  TypeOK'
  <2>1. /\ NoService \in [Kinds -> Statuses]
        /\ NoReport \in [Kinds -> {"NONE", "ACTIVE", "ERROR", "DESTROYED"}]
        /\ Unbound \in [bound : BOOLEAN, devices : SUBSET Devices]
    BY DEF NoService, NoReport, Unbound, Statuses
  <2>2. HandlerTypeOK'
    <3>1. faults \in 0..MaxFaults /\ faults' = faults + 1 /\ faults < MaxFaults
      BY <1>0, <1>6 DEF Restart, HandlerTypeOK
    <3>2. faults' \in 0..MaxFaults
      BY ONLY <3>1, MaxFaultsAssumption
    <3>3. /\ do_service_update' \in BOOLEAN /\ to_sync' \in BOOLEAN /\ faulted' \in BOOLEAN
          /\ swallowed' \in BOOLEAN /\ parent_pool_deleted' \in BOOLEAN
      BY <1>6, Zenon DEF Restart
    <3>4. /\ content' \in [Devices -> SUBSET Items] /\ active' \subseteq Devices
          /\ pc' \in Phases /\ request' \in Requests /\ lb_provisioning_status' \in Statuses
          /\ result' \in {"done", "pending", "raised"} /\ steady' \subseteq active'
      BY <1>0, <1>6 DEF Restart, HandlerTypeOK, Phases, Requests, Statuses
    <3> QED
      BY <1>6, <2>1, <3>2, <3>3, <3>4 DEF Restart, HandlerTypeOK
  <2>3. queue' \in Seq(Entries)
    BY <1>6, EmptyQueue DEF Restart
  <2>4. ManagerTypes'
    BY <1>0, <1>6 DEF Restart, ManagerTypes, Steps
  <2> QED
    BY <1>0, <1>6, <2>2, <2>3, <2>4, NextTypeParts DEF Restart
<1>7. CASE UNCHANGED vars
  BY <1>0, <1>7, NextTypeParts DEF vars, managerVars, ManagerTypes, serviceVars, handlerVars,
                               historyVars, HandlerTypeOK
<1> QED
  BY <1>1, <1>2, <1>3, <1>4, <1>5, <1>6, <1>7 DEF Next

(***************************************************************************)
(* Types are an invariant of the agent over its driver: whatever the tenant  *)
(* asks for, casts are lost and devices or the agent fail, Neutron is told   *)
(* statuses that it knows and the queue holds services.                      *)
(***************************************************************************)
THEOREM AgentTypes == Spec => []TypeOK
BY InitTypes, NextTypes, PTL DEF Spec

-------------------------------------------------------------------------------
(* The driver under the agent.  The services that the agent hands to it are     *)
(* not those of ServiceHandler: a queue holds services of earlier times, and    *)
(* after a timeout or a late report several of their objects are pending.  But  *)
(* each is a tree, and that is all that the invariants of the driver need.      *)

TreeEntries == {e \in Entries : IsTree(e.service)}

QueueOfTrees == queue \in Seq(TreeEntries)

\* What is fetched from the database is a tree, whatever the database holds.
LEMMA ServiceIsTree ==
    ASSUME NEW db
    PROVE  IsTree(Service(db))
<1>1. /\ Parents("pool") = {LB}
      /\ Parents("member") = {LB, "pool"} /\ Parents("healthmonitor") = {LB, "pool"}
      /\ {"pool", "member", "healthmonitor"} \subseteq Kinds
  BY DEF Parents, Kinds, LB
<1>2. ASSUME NEW o \in {"member", "healthmonitor"}, Service(db)["pool"] = "ABSENT"
      PROVE  Service(db)[o] = "ABSENT"
  BY <1>1, <1>2 DEF Service, Gone
<1> QED
  BY <1>2 DEF IsTree

LEMMA TreesAreEntries ==
    ASSUME QueueOfTrees, queue # <<>>
    PROVE  Head(queue) \in TreeEntries /\ Tail(queue) \in Seq(TreeEntries)
BY DEF QueueOfTrees

\* The service that a request begins with.
LEMMA BeginsWithTree ==
    ASSUME TypeOK, QueueOfTrees, queue # <<>>
    PROVE  /\ Head(queue).request \in Requests
           /\ ServiceOf(Head(queue)) \in [Kinds -> Statuses]
           /\ IsTree(ServiceOf(Head(queue)))
<1>1. IsTree(Head(queue).service)
  BY TreesAreEntries DEF TreeEntries
<1> QED
  BY <1>1, TypeParts, HeadTypes, ServiceIsTree DEF ServiceOf

\* What joins the queue: a sync, whose service is fetched later, and the service that the
\* plugin casts.
LEMMA SyncTree ==
    ASSUME QueueOfTrees
    PROVE  Append(queue, [request |-> "sync", service |-> NoService]) \in Seq(TreeEntries)
<1>1. [request |-> "sync", service |-> NoService] \in TreeEntries
  BY DEF TreeEntries, Entries, Requests, NoService, Statuses, IsTree, Kinds
<1> QED
  BY <1>1 DEF QueueOfTrees

LEMMA CastTree ==
    ASSUME TypeOK, QueueOfTrees, NEW o \in Objects, NEW s \in Pending, NEW lost \in BOOLEAN,
           Operate(o, s, lost)
    PROVE  QueueOfTrees'
<1> DEFINE r == IF s = "PENDING_DELETE" /\ o = LB THEN "delete_loadbalancer" ELSE o
           e == [request |-> r, service |-> Service(neutron')]
<1>1. r \in Requests
  BY ObjectsAssumption DEF Requests, Kinds
<1>2. TypeOK'
  BY OperateTypes
<1>3. Service(neutron') \in [Kinds -> Statuses] /\ IsTree(Service(neutron'))
  BY <1>2, NextTypeParts, ServiceTypes, ServiceIsTree
<1>4. e \in TreeEntries
  BY <1>1, <1>3 DEF TreeEntries, Entries
<1>5. queue' = IF lost THEN queue ELSE Append(queue, e)
  BY DEF Operate
<1> HIDE DEF e
<1> QED
  BY <1>4, <1>5 DEF QueueOfTrees

\* Every step leaves trees in the queue.
LEMMA QueueStep ==
    ASSUME TypeOK, QueueOfTrees, [Next]_vars
    PROVE  QueueOfTrees'
<1>1. ASSUME NEW o \in Objects, NEW s \in Pending, NEW lost \in BOOLEAN, Operate(o, s, lost)
      PROVE  QueueOfTrees'
  BY <1>1, CastTree
<1>2. CASE BeginRequest \/ SyncNothing \/ \E connected \in SUBSET Devices : NotOperational(connected)
  <2>1. queue # <<>> /\ queue' = Tail(queue)
    BY <1>2 DEF BeginRequest, SyncNothing, NotOperational
  <2> QED
    BY <2>1, TreesAreEntries DEF QueueOfTrees
<1>3. CASE Refresh \/ \E fails \in BOOLEAN : Validate(fails)
  <2>1. \/ queue' = Append(queue, [request |-> "sync", service |-> NoService])
        \/ queue' = queue
    BY <1>3 DEF Refresh, Validate
  <2> QED
    BY <2>1, SyncTree DEF QueueOfTrees
<1>4. ASSUME NEW connected \in SUBSET Devices, Restart(connected)
      PROVE  QueueOfTrees'
  <2>1. queue' = <<>>
    BY <1>4 DEF Restart
  <2> QED
    BY <2>1 DEF QueueOfTrees
<1>5. CASE UNCHANGED queue
  BY <1>5 DEF QueueOfTrees
<1>6. CASE HandlerStep \/ ReturnToCaller
  BY <1>6, <1>5 DEF HandlerStep, ReturnToCaller
<1>7. CASE \/ StartResync \/ RefreshNothing \/ Refreshed \/ ServiceTimeout
           \/ \E purged \in SUBSET active, used, raises \in BOOLEAN :
                  CleanOrphans(purged, used, raises)
           \/ \E connected \in SUBSET Devices : CleanNotOperational(connected)
  BY <1>7, <1>5 DEF StartResync, RefreshNothing, Refreshed, ServiceTimeout, CleanOrphans,
                    CleanNotOperational
<1>8. CASE \/ TimerExpires \/ ReportState \/ UNCHANGED vars
           \/ \E d \in Devices :
                  RecoverDevice(d) \/ \E items \in SUBSET Items : LoseDevice(d, items)
  BY <1>8, <1>5 DEF TimerExpires, ReportState, RecoverDevice, LoseDevice, vars
<1> QED
  BY ONLY [Next]_vars, <1>1, <1>2, <1>3, <1>4, <1>6, <1>7, <1>8 DEF Next, Driver, Periodic

DriverInv == ReportInv /\ SyncInv /\ AnswerInv

\* A step of the agent, for the driver: a request begins, the driver or the devices move,
\* nothing of it moves, or it stays or becomes idle.
LEMMA DriverStep ==
    ASSUME TypeOK, QueueOfTrees, NothingReported, [Next]_vars
    PROVE  \/ BeginRequest
           \/ Handler \/ DeviceChange \/ UNCHANGED observedVars
           \/ pc' = "idle" /\ reported' = NoReport
<1> USE DEF observedVars, serviceVars, historyVars
<1>1. CASE \E o \in Objects, s \in Pending, lost \in BOOLEAN : Operate(o, s, lost)
  BY <1>1 DEF Operate
<1>2. CASE SyncNothing \/ HandlerStep \/ ReturnToCaller
  BY <1>2 DEF SyncNothing, HandlerStep, ReturnToCaller, Handler
<1>3. CASE \/ \E connected \in SUBSET Devices : NotOperational(connected)
           \/ \E purged \in SUBSET active, used, raises \in BOOLEAN :
                  CleanOrphans(purged, used, raises)
           \/ \E connected \in SUBSET Devices : CleanNotOperational(connected)
  BY <1>3 DEF NotOperational, CleanOrphans, CleanNotOperational, NothingReported, handlerVars
<1>4. CASE \/ StartResync \/ Refresh \/ RefreshNothing \/ Refreshed \/ ServiceTimeout
           \/ TimerExpires \/ ReportState \/ \E fails \in BOOLEAN : Validate(fails)
  BY <1>4 DEF StartResync, Refresh, RefreshNothing, Refreshed, ServiceTimeout, TimerExpires,
              ReportState, Validate
<1>5. CASE \E d \in Devices :
               RecoverDevice(d) \/ \E items \in SUBSET Items : LoseDevice(d, items)
  BY <1>5 DEF RecoverDevice, LoseDevice, DeviceChange
<1>6. CASE \E connected \in SUBSET Devices : Restart(connected)
  BY <1>6 DEF Restart
<1>7. CASE UNCHANGED vars
  BY <1>7 DEF vars
<1> QED
  BY ONLY [Next]_vars, <1>1, <1>2, <1>3, <1>4, <1>5, <1>6, <1>7 DEF Next, Driver, Periodic

AgentInv == TypeOK /\ QueueOfTrees /\ DriverInv

\* The invariant of the agent is inductive.
LEMMA AgentStep == AgentInv /\ [Next]_vars => AgentInv'
<1> SUFFICES ASSUME AgentInv, [Next]_vars PROVE AgentInv'
  OBVIOUS
<1>1. /\ TypeOK /\ QueueOfTrees /\ HandlerTypeOK
      /\ ReportInv /\ SyncInv /\ AnswerInv /\ NothingReported
  BY DEF AgentInv, DriverInv, ReportInv
<1>2. TypeOK' /\ QueueOfTrees' /\ HandlerTypeOK'
  BY <1>1, NextTypes, QueueStep, NextTypeParts
<1>3. CASE BeginRequest
  <2> DEFINE r == Head(queue).request
             s == ServiceOf(Head(queue))
  <2>1. queue # <<>> /\ Begin(r, s)
    BY <1>3 DEF BeginRequest
  <2>2. r \in Requests /\ s \in [Kinds -> Statuses] /\ IsTree(s)
    BY <1>1, <2>1, BeginsWithTree
  <2> HIDE DEF r, s
  <2> QED
    BY <1>2, <2>1, <2>2, BeginReports, BeginSync, BeginAnswers DEF AgentInv, DriverInv, ReportInv
<1>4. CASE Handler \/ DeviceChange \/ UNCHANGED observedVars
  BY <1>1, <1>2, <1>4, ReportStep, SyncStep, AnswerStep DEF AgentInv, DriverInv, ReportInv
<1>5. CASE pc' = "idle" /\ reported' = NoReport
  BY <1>2, <1>5, IdleReports, IdleSync, IdleAnswers DEF AgentInv, DriverInv, ReportInv
<1> QED
  BY <1>1, <1>3, <1>4, <1>5, DriverStep

LEMMA AgentInit == Init => AgentInv
<1> SUFFICES ASSUME Init PROVE AgentInv
  OBVIOUS
<1>1. TypeOK /\ HandlerTypeOK
  BY InitTypes, TypeParts
<1>2. QueueOfTrees
  BY DEF Init, QueueOfTrees
<1>3. HandlerInit
  BY DEF Init
<1> QED
  BY <1>1, <1>2, <1>3, InitReports, InitSync, InitAnswers DEF AgentInv, DriverInv, ReportInv

(***************************************************************************)
(* Under the agent too a report of ACTIVE or DESTROYED is true on every      *)
(* device that stayed, when no failure was swallowed: although the request   *)
(* may be long out of date, and the orphan purge, restarts and devices that  *)
(* join come between two requests.                                           *)
(***************************************************************************)
THEOREM AgentReports == Spec => []ReportIsTrue
<1>1. AgentInv => ReportIsTrue
  BY DEF AgentInv, DriverInv, ReportInv
<1> QED
  BY <1>1, AgentInit, AgentStep, PTL DEF Spec

\* A sync without failures that the agent asked for restores what Neutron held when the
\* sync began, whatever was pending then.
THEOREM AgentRestores == Spec => []SyncRestoresService
<1>1. AgentInv => SyncRestoresService
  BY SyncInvRestores DEF AgentInv, DriverInv, ReportInv
<1> QED
  BY <1>1, AgentInit, AgentStep, PTL DEF Spec

\* What the agent tells Neutron answers the service that the request began with.
THEOREM AgentAnswers == Spec => []ReportAnswersSnapshot
<1>1. AgentInv => ReportAnswersSnapshot
  BY DEF AgentInv, DriverInv, AnswerInv
<1> QED
  BY <1>1, AgentInit, AgentStep, PTL DEF Spec
=============================================================================
