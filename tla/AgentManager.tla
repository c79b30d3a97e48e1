----------------------------- MODULE AgentManager -----------------------------
(***************************************************************************)
(* LbaasAgentManager over the driver, for one load balancer: the RPC        *)
(* handlers that the plugin casts to, the periodic task that resynchronises *)
(* the devices with Neutron, the cache that decides what is validated, the  *)
(* heartbeat, and restarts of the agent.  The driver is ServiceHandler, one *)
(* request at a time in the order of the service queue (ServiceQueue).      *)
(*                                                                          *)
(* Neutron is external: it locks a tree while an operation on it is         *)
(* pending, casts a snapshot of it, and applies the statuses it is told.    *)
(***************************************************************************)
EXTENDS ServiceHandler, Sequences

CONSTANTS MaxOps,      \* bound: operations of the tenant in a behaviour
          GlobalAgent  \* whether this agent is its group's clusterwide agent

ASSUME MaxOpsAssumption == MaxOps \in Nat /\ GlobalAgent \in BOOLEAN

VARIABLES
    neutron,           \* provisioning_status of each object in the database
    queue,             \* requests waiting for the driver: RPC handlers, and a sync
    cached,            \* the load balancer is in LogicalServiceCache
    needs_resync,
    timer_due,         \* now - last_resync is more than service_resync_interval
    pending_services,  \* the load balancer is in that table
    periodic,          \* where the periodic task is in periodic_resync
    ops                \* operations of the tenant so far

managerVars == <<cached, needs_resync, timer_due, pending_services, periodic>>
vars == <<serviceVars, managerVars, neutron, queue, ops>>

LB == "loadbalancer"
Gone == {"ABSENT", "DESTROYED"}

\* Slip: what is gone is returned with the status it had last.
ServiceWithDestroyed(db) == db

Parents(o) == IF o \in {"member", "healthmonitor"} THEN {LB, "pool"} ELSE {LB} \ {o}

\* The service that get_service_by_loadbalancer_id returns: what hangs from the load
\* balancer, and from its pool.
Service(db) ==
    [o \in Kinds |-> IF \E p \in Parents(o) \cup {o} : db[p] \in Gone
                     THEN "ABSENT" ELSE db[o]]

\* Neutron applies a report: an object that is gone stays gone, and the members of a
\* pool go with it.
Applied(report) ==
    [o \in Kinds |->
        IF neutron[o] \in Gone THEN neutron[o]
        ELSE IF o = "member" /\ report["pool"] = "DESTROYED" THEN "DESTROYED"
        ELSE IF report[o] = "NONE" THEN neutron[o] ELSE report[o]]

Init ==
    /\ HandlerInit
    /\ neutron \in {[o \in Kinds |-> IF o \in deployed THEN "ACTIVE" ELSE "ABSENT"] :
                       deployed \in {{}, Objects}}
    /\ content = [d \in Devices |-> {o \in Kinds : neutron[o] = "ACTIVE"}]
    /\ queue = <<>>
    /\ cached = FALSE
    /\ needs_resync = TRUE
    /\ timer_due = FALSE
    /\ pending_services = FALSE
    /\ periodic = "idle"
    /\ ops = 0

-------------------------------------------------------------------------------
(* The tenant.  An operation needs an unlocked tree; its cast may be lost.     *)

Unlocked == neutron[LB] \in {"ACTIVE", "ERROR"}

\* The status that each operation gives to the object it is about.
Requested(o) ==
    {s \in Pending :
        /\ neutron[o] # "DESTROYED"
        /\ neutron[o] = "ABSENT" <=> s = "PENDING_CREATE"
        /\ \A p \in Parents(o) : neutron[p] \notin Gone
        /\ s = "PENDING_DELETE" =>
               \A c \in Kinds \ {"member"} : o \in Parents(c) => neutron[c] \in Gone}

Operate(o, s, lost) ==
    /\ ops < MaxOps
    /\ o \in Objects
    /\ Unlocked \/ (o = LB /\ neutron[LB] = "ABSENT")
    /\ s \in Requested(o)
    /\ neutron' = [neutron EXCEPT ![LB] = "PENDING_UPDATE", ![o] = s]
    /\ lost => faults < MaxFaults
    /\ faults' = IF lost THEN faults + 1 ELSE faults
    /\ queue' = IF lost THEN queue
                ELSE Append(queue,
                            [request |-> IF s = "PENDING_DELETE" /\ o = LB
                                         THEN "delete_loadbalancer" ELSE o,
                             service |-> Service(neutron')])
    /\ ops' = ops + 1
    /\ UNCHANGED <<content, active, handlerVars, faulted, swallowed, snapshot, steady,
                   managerVars>>

-------------------------------------------------------------------------------
(* The driver's turn: the head of the queue.                                   *)

\* A sync fetches the service again when it starts.
ServiceOf(entry) ==
    IF entry.request = "sync" THEN Service(neutron) ELSE entry.service

BeginRequest ==
    /\ queue # <<>>
    /\ ServiceOf(Head(queue))[LB] # "ABSENT"
    /\ Begin(Head(queue).request, ServiceOf(Head(queue)))
    /\ queue' = Tail(queue)
    /\ UNCHANGED <<managerVars, neutron, ops>>

\* sync: the load balancer has gone, and None is returned.
SyncNothing ==
    /\ pc = "idle"
    /\ active # {}
    /\ queue # <<>>
    /\ ServiceOf(Head(queue))[LB] = "ABSENT"
    /\ queue' = Tail(queue)
    /\ periodic' = IF periodic = "validating" THEN "refresh" ELSE "refreshed"
    /\ UNCHANGED <<serviceVars, cached, needs_resync, timer_due, pending_services,
                   neutron, ops>>

\* is_operational: no device is active.  The request is dropped, the driver connects to
\* all devices again and asks for a resync.
NotOperational(connected) ==
    /\ pc = "idle"
    /\ queue # <<>>
    /\ active = {}
    /\ active' = connected
    /\ queue' = Tail(queue)
    /\ needs_resync' = TRUE
    /\ cached' = (Head(queue).request \notin {"sync", "delete_loadbalancer"})
    /\ periodic' = IF Head(queue).request # "sync" THEN periodic
                   ELSE IF periodic = "validating" THEN "refresh" ELSE "refreshed"
    /\ UNCHANGED <<content, handlerVars, historyVars, timer_due, pending_services,
                   neutron, ops>>

\* The statuses that this step sends: each is sent once.
Sent == [o \in Kinds |-> IF reported'[o] = reported[o] THEN "NONE" ELSE reported'[o]]

HandlerStep ==
    /\ Handler
    /\ pc # "return"
    /\ neutron' = Applied(Sent)
    /\ UNCHANGED <<managerVars, queue, ops>>

\* What follows in the caller.  An RPC handler caches the service, and asks for a resync
\* when it is still pending; an exception is only logged.  validate_service ignores what
\* sync returned, refresh_service asks for a resync.
ReturnToCaller ==
    /\ Return
    /\ periodic' = IF request # "sync" THEN periodic
                   ELSE IF periodic = "validating" THEN "refresh" ELSE "refreshed"
    /\ cached' = IF request = "sync" \/ result = "raised" THEN cached
                 ELSE request # "delete_loadbalancer"
    /\ needs_resync' =
           \/ needs_resync
           \/ result = "pending" /\ (request # "sync" \/ periodic = "refreshing")
           \/ result = "raised" /\ request = "sync" /\ periodic = "refreshing"
    /\ UNCHANGED <<timer_due, pending_services, neutron, queue, ops>>

-------------------------------------------------------------------------------
(* periodic_resync.  It runs on the timer's thread, after recover_errored_     *)
(* devices and never at the same time.                                         *)

TimerExpires ==
    /\ ~timer_due
    /\ timer_due' = TRUE
    /\ UNCHANGED <<serviceVars, cached, needs_resync, pending_services, periodic,
                   neutron, queue, ops>>

\* Slip: the interval is never looked at.
StartResyncOnRequest ==
    /\ periodic = "idle"
    /\ needs_resync
    /\ needs_resync' = FALSE
    /\ periodic' = IF active = {} THEN "clean" ELSE "validate"
    /\ UNCHANGED <<serviceVars, cached, timer_due, pending_services, neutron, queue, ops>>

\* The timer is looked at only when no resync was requested.  sync_state returns at once
\* when no device is active.
StartResync ==
    /\ periodic = "idle"
    /\ needs_resync \/ timer_due
    /\ needs_resync' = FALSE
    /\ cached' = (cached /\ needs_resync)
    /\ timer_due' = (timer_due /\ needs_resync)
    /\ periodic' = IF active = {} THEN "clean" ELSE "validate"
    /\ UNCHANGED <<serviceVars, pending_services, neutron, queue, ops>>

\* service_exists: every object, also one that is to be deleted, and no other member of
\* a pool of the service.
ServiceExists ==
    \A d \in active :
        /\ \A o \in Kinds : Service(neutron)[o] # "ABSENT" => o \in content[d]
        /\ Service(neutron)["pool"] # "ABSENT" /\ Service(neutron)["member"] = "ABSENT"
              => "member" \notin content[d]

HasError == \E o \in Kinds : Service(neutron)[o] = "ERROR"

\* Slip: a service is validated only when Neutron says that it is in ERROR.
ValidateErrorsOnly(fails) ==
    /\ periodic = "validate"
    /\ cached' = (cached \/ neutron[LB] \notin Gone)
    /\ fails => faults < MaxFaults
    /\ faults' = IF fails THEN faults + 1 ELSE faults
    /\ IF cached \/ neutron[LB] \in Gone \/ fails \/ ~HasError
       THEN periodic' = "refresh" /\ UNCHANGED queue
       ELSE /\ periodic' = "validating"
            /\ queue' = Append(queue, [request |-> "sync", service |-> NoService])
    /\ UNCHANGED <<content, active, handlerVars, faulted, swallowed, snapshot, steady,
                   needs_resync, timer_due, pending_services, neutron, ops>>

\* validate_service, for a load balancer that is not in the cache.  It is put there
\* first; an exception while the devices are read ends the validation.
Validate(fails) ==
    /\ periodic = "validate"
    /\ cached' = (cached \/ neutron[LB] \notin Gone)
    /\ fails => faults < MaxFaults
    /\ faults' = IF fails THEN faults + 1 ELSE faults
    /\ IF cached \/ neutron[LB] \in Gone \/ fails \/ (ServiceExists /\ ~HasError)
       THEN periodic' = "refresh" /\ UNCHANGED queue
       ELSE /\ periodic' = "validating"
            /\ queue' = Append(queue, [request |-> "sync", service |-> NoService])
    /\ UNCHANGED <<content, active, handlerVars, faulted, swallowed, snapshot, steady,
                   needs_resync, timer_due, pending_services, neutron, ops>>

\* _refresh_pending_services: the load balancer is pending in Neutron.
Refresh ==
    /\ periodic = "refresh"
    /\ neutron[LB] \in Pending
    /\ cached' = TRUE
    /\ periodic' = "refreshing"
    /\ queue' = Append(queue, [request |-> "sync", service |-> NoService])
    /\ UNCHANGED <<serviceVars, needs_resync, timer_due, pending_services, neutron, ops>>

\* It is not, but it stays in the table when it was there.
RefreshNothing ==
    /\ periodic = "refresh"
    /\ neutron[LB] \notin Pending
    /\ periodic' = "clean"
    /\ needs_resync' = (needs_resync \/ pending_services)
    /\ UNCHANGED <<serviceVars, cached, timer_due, pending_services, neutron, queue, ops>>

\* refresh_service returns needs_resync, whoever set it: the service counts as pending.
Refreshed ==
    /\ periodic = "refreshed"
    /\ periodic' = "clean"
    /\ pending_services' = needs_resync
    /\ UNCHANGED <<serviceVars, cached, needs_resync, timer_due, neutron, queue, ops>>

\* service_timeout: the service is fetched again and reported with timed_out.
TimedOutReport ==
    LET fetched == Service(neutron)
    IN  [o \in Kinds |->
            CASE fetched[o] = "PENDING_DELETE" -> "DESTROYED"
              [] fetched[o] = "ERROR" -> "ERROR"
              [] fetched[o] \notin positive_plugin_const_state -> "NONE"
              [] o = "member" \/ (o = LB /\ fetched[o] = "PENDING_CREATE") -> "ERROR"
              [] OTHER -> "ACTIVE"]

ServiceTimeout ==
    /\ periodic = "refreshed"
    /\ needs_resync
    /\ pending_services
    /\ periodic' = "clean"
    /\ pending_services' = FALSE
    /\ cached' = (cached \/ neutron[LB] \notin Gone)
    /\ neutron' = Applied(TimedOutReport)
    /\ UNCHANGED <<serviceVars, needs_resync, timer_due, queue, ops>>

\* Slip: only what is left of an unknown load balancer is purged.
OrphansOfLoadbalancer(d) == IF neutron[LB] \in Gone THEN Items ELSE {}

\* What the purges remove from a device, monitors excepted: a folder without an address
\* (a virtual server has one), and the load balancers, listeners and pools that Neutron
\* does not know; a pool that is in use stays.
Orphans(d) ==
    LET unknown == {o \in {LB, "listener", "pool"} : neutron[o] \in Gone}
        address == IF periodic = "clean" THEN unknown \cap {LB} ELSE {}
        listener == IF "listener" \in unknown THEN {"listener", ListenerToPool} ELSE {}
        pool == IF "pool" \in unknown /\ ListenerToPool \notin content[d] \ listener
                THEN {"pool", "member", PoolToMonitor} ELSE {}
    IN  IF periodic = "clean" /\ {LB, "listener"} \cap content[d] = {}
        THEN Items ELSE address \cup listener \cup pool

\* clean_orphaned_objects_and_save_device_config, as one turn of the driver.  A device
\* that fails keeps its orphans; an exception asks for a resync.  A monitor is "used"
\* when the first device that holds the pool says so.  Another agent than the
\* clusterwide one purges nothing and always asks for a resync.
CleanOrphans(purged, used, raises) ==
    LET kept == [d \in Devices |-> IF GlobalAgent /\ d \in purged
                                   THEN content[d] \ Orphans(d) ELSE content[d]]
        pools == {d \in active : "pool" \in kept[d]}
    IN  /\ periodic \in {"clean", "clean_rest"}
        /\ pc = "idle"
        /\ active # {} \/ ~GlobalAgent
        /\ IF used THEN \E d \in pools : PoolToMonitor \in kept[d]
           ELSE pools = {} \/ \E d \in pools : PoolToMonitor \notin kept[d]
        /\ raises => purged # active
        /\ purged # active => faults < MaxFaults
        /\ faults' = IF purged = active THEN faults ELSE faults + 1
        /\ content' = [d \in Devices |->
                          IF GlobalAgent /\ d \in purged /\ ~used /\ PoolToMonitor \notin kept[d]
                          THEN kept[d] \ {"healthmonitor"} ELSE kept[d]]
        /\ periodic' = "idle"
        /\ needs_resync' = (needs_resync \/ raises \/ ~GlobalAgent)
        /\ UNCHANGED <<active, handlerVars, faulted, swallowed, snapshot, steady,
                       cached, timer_due, pending_services, neutron, queue, ops>>

\* is_operational again: the load balancers are not listed, and what follows is done when
\* a device is active now.
CleanNotOperational(connected) ==
    /\ periodic \in {"clean", "clean_rest"}
    /\ pc = "idle"
    /\ active = {} /\ GlobalAgent
    /\ active' = connected
    /\ periodic' = IF connected = {} THEN "idle" ELSE "clean_rest"
    /\ cached' = FALSE
    /\ needs_resync' = TRUE
    /\ UNCHANGED <<content, handlerVars, historyVars, timer_due, pending_services,
                   neutron, queue, ops>>

-------------------------------------------------------------------------------
(* Devices and the agent itself.                                               *)

\* The heartbeat finds a device dead; with the last one the cache is thrown away.
LoseDevice(d, items) ==
    /\ DeviceLost(d, items)
    /\ cached' = (cached /\ active' # {})
    /\ needs_resync' = (needs_resync \/ active' = {})
    /\ UNCHANGED <<timer_due, pending_services, periodic, neutron, queue, ops>>

\* _report_state, as long as no device is active.
ReportState ==
    /\ active = {}
    /\ cached' = FALSE
    /\ needs_resync' = TRUE
    /\ UNCHANGED <<serviceVars, timer_due, pending_services, periodic, neutron, queue, ops>>

\* recover_errored_devices: a device joins, and the cache is thrown away.
RecoverDevice(d) ==
    /\ periodic = "idle"
    /\ DeviceRecovered(d)
    /\ cached' = FALSE
    /\ needs_resync' = TRUE
    /\ UNCHANGED <<timer_due, pending_services, periodic, neutron, queue, ops>>

\* The agent dies and starts again: whatever it was doing is left as it is.
Restart(connected) ==
    /\ faults < MaxFaults
    /\ faults' = faults + 1
    /\ active' = connected
    /\ pc' = "idle"
    /\ request' = "sync"
    /\ service' = NoService
    /\ lb_provisioning_status' = "ABSENT"
    /\ parent_pool_deleted' = FALSE
    /\ all_subnet_hints' = Unbound
    /\ do_service_update' = TRUE
    /\ to_sync' = FALSE
    /\ reported' = NoReport
    /\ result' = "done"
    /\ faulted' = FALSE
    /\ swallowed' = FALSE
    /\ snapshot' = NoService
    /\ steady' = {}
    /\ queue' = <<>>
    /\ cached' = FALSE
    /\ needs_resync' = TRUE
    /\ timer_due' = FALSE
    /\ pending_services' = FALSE
    /\ periodic' = "idle"
    /\ UNCHANGED <<content, neutron, ops>>

Driver ==
    \/ BeginRequest
    \/ SyncNothing
    \/ \E connected \in SUBSET Devices : NotOperational(connected)
    \/ HandlerStep
    \/ ReturnToCaller

Periodic ==
    \/ StartResync
    \/ \E fails \in BOOLEAN : Validate(fails)
    \/ Refresh
    \/ RefreshNothing
    \/ Refreshed
    \/ ServiceTimeout
    \/ \E purged \in SUBSET active, used, raises \in BOOLEAN :
           CleanOrphans(purged, used, raises)
    \/ \E connected \in SUBSET Devices : CleanNotOperational(connected)

Next ==
    \/ \E o \in Objects, s \in Pending, lost \in BOOLEAN : Operate(o, s, lost)
    \/ Driver
    \/ Periodic
    \/ TimerExpires
    \/ ReportState
    \/ \E d \in Devices :
           RecoverDevice(d) \/ \E items \in SUBSET Items : LoseDevice(d, items)
    \/ \E connected \in SUBSET Devices : Restart(connected)

(***************************************************************************)
(* The driver returns (device calls time out) and a waiting request is      *)
(* scheduled; the timer runs the periodic tasks again and again, one after  *)
(* the other, so a device that can be recovered at the start of infinitely  *)
(* many rounds is recovered (SF).  The tenant, failures and timeouts owe    *)
(* nothing.                                                                 *)
(***************************************************************************)
Fairness ==
    /\ WF_vars(Driver)
    /\ WF_vars(Periodic)
    /\ WF_vars(TimerExpires)
    /\ \A d \in Devices : SF_vars(RecoverDevice(d))

Spec == Init /\ [][Next]_vars /\ Fairness

-------------------------------------------------------------------------------
TypeOK ==
    /\ HandlerTypeOK
    /\ neutron \in [Kinds -> Statuses \cup {"DESTROYED"}]
    /\ queue \in Seq([request : Requests, service : [Kinds -> Statuses]])
    /\ cached \in BOOLEAN
    /\ needs_resync \in BOOLEAN
    /\ timer_due \in BOOLEAN
    /\ pending_services \in BOOLEAN
    /\ periodic \in {"idle", "validate", "validating", "refresh", "refreshing",
                     "refreshed", "clean", "clean_rest"}
    /\ ops \in 0..MaxOps

\* A pending operation is settled: the tree does not stay locked, although casts are
\* lost, devices fail, the network is not ready and the agent restarts.
PendingIsSettled == neutron[LB] \in Pending ~> neutron[LB] \notin Pending

\* When the cache is thrown away again and again, every object of the service that Neutron
\* calls ACTIVE is on every active device for good, whatever failures were swallowed on
\* the way.
ActiveIsDeployed ==
    ([]<>~timer_due) =>
        <>[](\A d \in active, o \in Kinds :
                Service(neutron)[o] = "ACTIVE" => o \in content[d])

\* A known object of the device refers to this one.
InUse(o, d) ==
    \/ o = "pool" /\ ListenerToPool \in content[d] /\ neutron["listener"] \notin Gone
    \/ o = "healthmonitor" /\ PoolToMonitor \in content[d]

\* What Neutron does not know goes from the active devices for good, unless it is in use:
\* objects that were reported destroyed and stayed, and those of a device that was away.
DestroyedIsPurged ==
    GlobalAgent /\ ([]<>~timer_due) =>
        <>[](\A d \in active, o \in Kinds :
                neutron[o] = "DESTROYED" /\ o \in content[d] => InUse(o, d))

\* The comment in purge_orphaned_pools: a pool that Neutron does not know is removed.
UnknownPoolIsRemoved ==
    GlobalAgent /\ ([]<>~timer_due) =>
        <>[](neutron["pool"] = "DESTROYED" => \A d \in active : "pool" \notin content[d])

\* The option service_resync_interval: the cache is thrown away when it has passed.
CacheIsThrownAway == timer_due ~> ~timer_due

\* The option f5_pending_services_timeout: a service that timed out is in ERROR.
TimedOutIsError == [][ServiceTimeout => neutron'[LB] = "ERROR"]_vars

===============================================================================
