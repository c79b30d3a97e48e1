---------------------------- MODULE ServiceHandler ----------------------------
(***************************************************************************)
(* One request of iControlDriver, from the moment it reaches the head of    *)
(* the service queue to the statuses it reports: _common_service_handler,   *)
(* LBaaSBuilder.assure_service and the _update_*_status methods.            *)
(*                                                                          *)
(* A service is a load balancer with at most one listener, pool, member and *)
(* health monitor: the snapshot that the plugin sent, whose statuses the    *)
(* handler overwrites as it goes.  Each phase calls every active device in  *)
(* turn; a phase is one action, with the set of devices whose call fails    *)
(* chosen freely.  Between phases devices are lost and recovered by other   *)
(* green threads (the heartbeat, the RPC handlers, the recovery task).      *)
(***************************************************************************)
EXTENDS Naturals, FiniteSets

CONSTANTS Devices,   \* the BIG-IPs of icontrol_hostname
          Objects,   \* the kinds of objects the tenant uses
          MaxFaults  \* bound: failures of the environment in a behaviour

Kinds == {"loadbalancer", "listener", "pool", "member", "healthmonitor"}

ASSUME ObjectsAssumption == "loadbalancer" \in Objects /\ Objects \subseteq Kinds
ASSUME MaxFaultsAssumption == MaxFaults \in Nat

VARIABLES
    content,                 \* the configuration on each device
    active,                  \* devices whose status is 'active'
    pc,                      \* the phase of the handler, "idle" between requests
    request,                 \* the driver method that was called
    service,                 \* provisioning_status of each object of the service
    lb_provisioning_status,  \* the load balancer's status when the request began
    parent_pool_deleted,     \* the flag of that name in the member
    all_subnet_hints,        \* the devices it has hints for, once it is bound
    do_service_update,
    to_sync,                 \* LBaaSBuilder.to_sync, kept from request to request
    reported,                \* what this request told the plugin about each object
    result,                  \* how the driver method is about to return
    \* history, which the code does not keep: of the run, then of the request
    faults,                  \* failures of the environment so far
    faulted,                 \* a device call failed, or a device joined, during it
    swallowed,               \* a failure that is only logged ended or thinned it
    snapshot,                \* the service as the plugin sent it
    steady                   \* devices that were active all along

handlerVars == <<pc, request, service, lb_provisioning_status, parent_pool_deleted,
                 all_subnet_hints, do_service_update, to_sync, reported, result>>
historyVars == <<faults, faulted, swallowed, snapshot, steady>>
\* What no phase of the handler changes, and what only one phase changes.
fixedVars == <<active, request, lb_provisioning_status, to_sync, result, snapshot,
               steady>>
flagVars == <<parent_pool_deleted, all_subnet_hints, do_service_update, reported>>
serviceVars == <<content, active, handlerVars, historyVars>>

Statuses == {"ABSENT", "PENDING_CREATE", "PENDING_UPDATE", "PENDING_DELETE",
             "ACTIVE", "ERROR"}

Pending == {"PENDING_CREATE", "PENDING_UPDATE", "PENDING_DELETE"}

Requests == {"sync", "loadbalancer", "delete_loadbalancer", "listener", "pool",
             "member", "healthmonitor"}

\* What a device holds: objects, and the references of one object to another.
ListenerToPool == "listener->pool"
PoolToMonitor == "pool->healthmonitor"
Items == Kinds \cup {ListenerToPool, PoolToMonitor}

Phases == {"idle", "tenant", "prep", "loadbalancer", "monitors", "pools", "members",
           "listeners", "del_listeners", "del_pools", "del_monitors",
           "del_loadbalancer", "post", "cleanup", "report", "report_lb", "return"}

-------------------------------------------------------------------------------
(* Statuses *)

\* iControlDriver.positive_plugin_const_state
positive_plugin_const_state == {"PENDING_CREATE", "PENDING_UPDATE"}

\* LBaaSBuilder.normal_status and sync_status
normal_status == {"PENDING_CREATE", "PENDING_UPDATE"}
sync_status == {"PENDING_CREATE", "PENDING_UPDATE", "ERROR", "ACTIVE"}

\* Slip: a resync leaves objects in ERROR alone.
const_status_without_error == normal_status \cup (IF to_sync THEN {"ACTIVE"} ELSE {})

\* self.const_status of assure_service
const_status == IF to_sync THEN sync_status ELSE normal_status

\* Members and monitors are listed with their pool.
IsTree(s) ==
    s["pool"] = "ABSENT" => s["member"] = "ABSENT" /\ s["healthmonitor"] = "ABSENT"

\* Neutron keeps a tree, changes one child of it at a time, and holds the load balancer
\* in PENDING_UPDATE meanwhile; it creates it first and deletes it last.
Services ==
    {s \in [Kinds -> Statuses] :
        /\ s["loadbalancer"] # "ABSENT"
        /\ \A o \in Kinds \ Objects : s[o] = "ABSENT"
        /\ IsTree(s)
        /\ \A o \in Kinds \ {"loadbalancer"} :
               /\ s[o] \in Pending =>
                      /\ s["loadbalancer"] = "PENDING_UPDATE"
                      /\ \A p \in Kinds \ {"loadbalancer", o} : s[p] \notin Pending
               /\ s["loadbalancer"] \in {"PENDING_CREATE", "PENDING_DELETE"} =>
                      s[o] = "ABSENT"}

\* The services that the plugin sends with each request.
Snapshots(r) ==
    {s \in Services :
        CASE r = "sync" -> TRUE
          [] r = "delete_loadbalancer" -> s["loadbalancer"] = "PENDING_DELETE"
          [] r = "loadbalancer" ->
                 /\ s["loadbalancer"] \in positive_plugin_const_state
                 /\ \A o \in Kinds \ {"loadbalancer"} : s[o] \notin Pending
          [] OTHER -> s[r] \in Pending}

\* What a driver method sets before the handler: the object that names the target
\* has to be written again.
WithTarget(r, s) ==
    CASE r = "pool" /\ s["listener"] # "ABSENT" ->
             [s EXCEPT !["listener"] = "PENDING_UPDATE"]
      [] r \in {"member", "healthmonitor"} ->
             [s EXCEPT !["pool"] = "PENDING_UPDATE"]
      [] OTHER -> s

-------------------------------------------------------------------------------
(* Devices.  A BIG-IP refuses a reference to an object it does not hold, and   *)
(* refuses to delete an object that another one refers to.                     *)

\* Objects that a model built from the service names.
Named(o) == service[o] \notin {"ABSENT", "PENDING_DELETE"}

PoolItems ==
    {"pool"} \cup {o \in {"member"} : Named(o)}
             \cup {o \in {PoolToMonitor} : Named("healthmonitor")}

ListenerItems == {"listener"} \cup {o \in {ListenerToPool} : Named("pool")}

RefusesPool(d) == Named("healthmonitor") /\ "healthmonitor" \notin content[d]

RefusesListener(d) == Named("pool") /\ "pool" \notin content[d]

\* Writes and removals on the devices of a set: old items out, new items in.
Configure(devices, out, in) ==
    content' = [d \in Devices |->
                   IF d \in devices THEN (content[d] \ out) \cup in ELSE content[d]]

-------------------------------------------------------------------------------
\* A step of the handler in which something fails, when "failed" holds.
Fault(failed) ==
    /\ failed => faults < MaxFaults
    /\ faults' = IF failed THEN faults + 1 ELSE faults
    /\ faulted' = (faulted \/ failed)

NoService == [o \in Kinds |-> "ABSENT"]
NoReport == [o \in Kinds |-> "NONE"]
Unbound == [bound |-> FALSE, devices |-> {}]

HandlerInit ==
    /\ content \in [Devices -> {{}, Objects}]
    /\ active = Devices
    /\ pc = "idle"
    /\ request = "sync"
    /\ service = NoService
    /\ lb_provisioning_status = "ABSENT"
    /\ parent_pool_deleted = FALSE
    /\ all_subnet_hints = Unbound
    /\ do_service_update = TRUE
    /\ to_sync = FALSE
    /\ reported = NoReport
    /\ result = "done"
    /\ faults = 0
    /\ faulted = FALSE
    /\ swallowed = FALSE
    /\ snapshot = NoService
    /\ steady = {}

-------------------------------------------------------------------------------
(* The handler.  An exception is logged and swallowed, and the handler goes on  *)
(* in its "finally" clause, as it does when nothing was raised.                *)

Goto(from, to) == pc = from /\ pc' = to

Finally ==
    IF lb_provisioning_status = "PENDING_DELETE" THEN "cleanup" ELSE "report"

LoadbalancerError ==
    IF lb_provisioning_status = "PENDING_DELETE"
    THEN service
    ELSE [service EXCEPT !["loadbalancer"] = "ERROR"]

\* A device that became active after the hints were built has none: KeyError.
HintsMissing == ~(active \subseteq all_subnet_hints.devices)

\* Slip: the status is that of the last device, and a success clears the error.
ErrorIfOnAll(failing, o) ==
    service' = IF failing = {} \/ failing # active THEN service
               ELSE [service EXCEPT ![o] = "ERROR"]

ErrorIf(failing, o) ==
    service' = IF failing = {} THEN service ELSE [service EXCEPT ![o] = "ERROR"]

Begin(r, s) ==
    /\ Goto("idle", "tenant")
    /\ active # {}
    /\ request' = r
    /\ service' = WithTarget(r, s)
    /\ lb_provisioning_status' = s["loadbalancer"]
    /\ parent_pool_deleted' = FALSE
    /\ all_subnet_hints' = Unbound
    /\ do_service_update' = TRUE
    /\ to_sync' = (to_sync \/ r = "sync")
    /\ reported' = NoReport
    /\ faulted' = FALSE
    /\ swallowed' = FALSE
    /\ snapshot' = s
    /\ steady' = active
    /\ UNCHANGED <<content, active, result, faults>>

\* assure_tenant_created: a folder cannot be created on one of the devices.
AssureTenantCreated(faulty) ==
    /\ Goto("tenant", IF faulty = {} THEN "prep" ELSE Finally)
    /\ service' = IF faulty = {} THEN service ELSE LoadbalancerError
    /\ Fault(faulty # {})
    /\ swallowed' = (swallowed \/ faulty # {})
    /\ UNCHANGED <<content, fixedVars, flagVars>>

\* prep_service_networking succeeded, or the request is a delete event: bind the hints.
PrepServiceNetworking(outcome) ==
    /\ outcome = "connected" \/ request = "delete_loadbalancer"
    /\ Goto("prep", "loadbalancer")
    /\ service' = IF outcome = "failed" THEN LoadbalancerError ELSE service
    /\ all_subnet_hints' = [bound |-> TRUE, devices |-> active]
    /\ Fault(outcome # "connected")
    /\ UNCHANGED <<content, fixedVars, parent_pool_deleted, do_service_update, reported,
                   swallowed>>

\* NetworkNotReady defers the service; any other exception is an error.
PrepServiceNetworkingRaises(outcome) ==
    /\ outcome # "connected"
    /\ request # "delete_loadbalancer"
    /\ Goto("prep", Finally)
    /\ service' = IF outcome = "failed" THEN LoadbalancerError ELSE service
    /\ do_service_update' = (outcome # "not_ready")
    /\ Fault(TRUE)
    /\ swallowed' = TRUE
    /\ UNCHANGED <<content, fixedVars, parent_pool_deleted, all_subnet_hints, reported>>

\* The virtual address.  VirtualAddress.create swallows an HTTP error: the devices in
\* "silent" get no address and no error is seen.
AssureLoadbalancerCreated(faulty, silent) ==
    LET assured == service["loadbalancer"] \in const_status
    IN  /\ assured \/ (faulty = {} /\ silent = {})
        /\ \A d \in silent : d \notin faulty /\ "loadbalancer" \notin content[d]
        /\ Goto("loadbalancer", IF HintsMissing THEN Finally ELSE "monitors")
        /\ Configure(IF assured THEN active \ (faulty \cup silent) ELSE {},
                     {}, {"loadbalancer"})
        /\ ErrorIf(faulty, "loadbalancer")
        /\ Fault(faulty # {} \/ silent # {})
        /\ swallowed' = (swallowed \/ silent # {} \/ HintsMissing)
        /\ UNCHANGED <<fixedVars, flagVars>>

AssureMonitorsCreated(faulty) ==
    LET assured == service["healthmonitor"] \in const_status
    IN  /\ assured \/ faulty = {}
        /\ Goto("monitors", "pools")
        /\ Configure(IF assured THEN active \ faulty ELSE {}, {}, {"healthmonitor"})
        /\ ErrorIf(faulty, "healthmonitor")
        /\ Fault(faulty # {})
        /\ UNCHANGED <<fixedVars, flagVars, swallowed>>

\* create_pool, or its update when it exists: the members are written with the pool.
AssurePoolsCreated(faulty) ==
    LET assured == service["pool"] \in const_status
        failing == IF assured
                   THEN faulty \cup {d \in active : RefusesPool(d)} ELSE {}
    IN  /\ assured \/ faulty = {}
        /\ Goto("pools", "members")
        /\ Configure(IF assured THEN active \ failing ELSE {},
                     {"member", PoolToMonitor}, PoolItems)
        /\ service' = IF failing = {} THEN service
                      ELSE [service EXCEPT !["pool"] = "ERROR", !["loadbalancer"] = "ERROR"]
        /\ Fault(faulty # {})
        /\ UNCHANGED <<fixedVars, flagVars, swallowed>>

\* assure_pool_members only looks whether the members are there; it selects members
\* that are ACTIVE too, because those of a deleted pool are.
MembersSelected ==
    /\ service["member"] \in const_status \cup {"ACTIVE"}
    /\ service["pool"] # "ABSENT"

AssureMembers(faulty) ==
    LET missing == faulty \cup {d \in active : ~({"pool", "member"} \subseteq content[d])}
        doomed == service["pool"] = "PENDING_DELETE"
        raises == MembersSelected /\ HintsMissing
    IN  /\ MembersSelected \/ faulty = {}
        /\ Goto("members", IF raises THEN Finally ELSE "listeners")
        /\ parent_pool_deleted' = (MembersSelected /\ doomed)
        /\ service' = IF ~MembersSelected THEN service
                      ELSE [service EXCEPT !["member"] =
                               IF missing # {} THEN "ERROR"
                               ELSE IF doomed THEN "PENDING_DELETE" ELSE @]
        /\ Fault(faulty # {})
        /\ swallowed' = (swallowed \/ raises)
        /\ UNCHANGED <<content, fixedVars, all_subnet_hints, do_service_update, reported>>

\* Only an HTTP error of the load is caught: m.exists, or a timeout, raises.
AssureMembersRaises ==
    /\ MembersSelected
    /\ Goto("members", Finally)
    /\ Fault(TRUE)
    /\ swallowed' = TRUE
    /\ UNCHANGED <<content, service, fixedVars, flagVars>>

AssureListenersCreated(faulty) ==
    LET assured == service["listener"] \in const_status
        failing == IF assured
                   THEN faulty \cup {d \in active : RefusesListener(d)} ELSE {}
    IN  /\ assured \/ faulty = {}
        /\ Goto("listeners", "del_listeners")
        /\ Configure(IF assured THEN active \ failing ELSE {},
                     {ListenerToPool}, ListenerItems)
        /\ service' = IF failing = {} THEN service
                      ELSE [service EXCEPT !["listener"] = "ERROR",
                                           !["loadbalancer"] = "ERROR"]
        /\ Fault(faulty # {})
        /\ UNCHANGED <<fixedVars, flagVars, swallowed>>

\* add_ssl_profile raises (the certificate cannot be read): the loop ends after the
\* devices "done", and what it found on those is forgotten.
AssureListenersCreatedRaises(done) ==
    /\ service["listener"] \in const_status
    /\ done # active
    /\ Goto("listeners", Finally)
    /\ Configure({d \in done : ~RefusesListener(d)}, {ListenerToPool}, ListenerItems)
    /\ Fault(TRUE)
    /\ swallowed' = TRUE
    /\ UNCHANGED <<service, fixedVars, flagVars>>

AssureListenersDeleted(faulty) ==
    LET doomed == service["listener"] = "PENDING_DELETE"
    IN  /\ doomed \/ faulty = {}
        /\ Goto("del_listeners", "del_pools")
        /\ Configure(IF doomed THEN active \ faulty ELSE {},
                     {"listener", ListenerToPool}, {})
        /\ ErrorIf(faulty, "listener")
        /\ Fault(faulty # {})
        /\ UNCHANGED <<fixedVars, flagVars, swallowed>>

\* A device keeps a pool that its virtual server still refers to.
KeepsPool(d) == {"pool", ListenerToPool} \subseteq content[d]

AssurePoolsDeleted(faulty) ==
    LET doomed == service["pool"] = "PENDING_DELETE"
        failing == IF doomed THEN faulty \cup {d \in active : KeepsPool(d)} ELSE {}
    IN  /\ doomed \/ faulty = {}
        /\ Goto("del_pools", "del_monitors")
        /\ Configure(IF doomed THEN active \ failing ELSE {},
                     {"pool", "member", PoolToMonitor}, {})
        /\ ErrorIf(failing, "pool")
        /\ Fault(faulty # {})
        /\ UNCHANGED <<fixedVars, flagVars, swallowed>>

\* _delete_member_node catches only HTTP errors: delete_pool raises after it has tried the
\* pool on the devices up to this one, and forgets what failed there.
AssurePoolsDeletedRaises(done) ==
    /\ service["pool"] = "PENDING_DELETE"
    /\ service["member"] # "ABSENT"
    /\ Goto("del_pools", Finally)
    /\ Configure({d \in done : ~KeepsPool(d)}, {"pool", "member", PoolToMonitor}, {})
    /\ Fault(TRUE)
    /\ swallowed' = TRUE
    /\ UNCHANGED <<service, fixedVars, flagVars>>

AssureMonitorsDeleted(faulty) ==
    LET doomed == service["healthmonitor"] = "PENDING_DELETE"
        failing == IF doomed
                   THEN faulty \cup {d \in active :
                                       {"healthmonitor", PoolToMonitor} \subseteq content[d]}
                   ELSE {}
    IN  /\ doomed \/ faulty = {}
        /\ Goto("del_monitors", "del_loadbalancer")
        /\ Configure(IF doomed THEN active \ failing ELSE {}, {"healthmonitor"}, {})
        /\ ErrorIf(failing, "healthmonitor")
        /\ Fault(faulty # {})
        /\ UNCHANGED <<fixedVars, flagVars, swallowed>>

\* The virtual address is deleted device by device, and the first failure ends the
\* loop: "done" are the devices before it.
AssureLoadbalancerDeleted(faulty, done) ==
    LET doomed == service["loadbalancer"] = "PENDING_DELETE"
        failing == IF doomed
                   THEN faulty \cup {d \in active :
                                       {"loadbalancer", "listener"} \subseteq content[d]}
                   ELSE {}
    IN  /\ doomed \/ faulty = {}
        /\ IF failing = {} THEN done = active ELSE done \subseteq active \ failing
        /\ Goto("del_loadbalancer", IF failing = {} THEN "post" ELSE Finally)
        /\ Configure(IF doomed THEN done ELSE {}, {"loadbalancer"}, {})
        /\ Fault(faulty # {})
        /\ swallowed' = (swallowed \/ failing # {})
        /\ UNCHANGED <<service, fixedVars, flagVars>>

\* post_service_networking: the last thing of the handler, so nothing is skipped.
PostServiceNetworking(fails) ==
    /\ Goto("post", Finally)
    /\ service' = IF fails THEN LoadbalancerError ELSE service
    /\ Fault(fails)
    /\ UNCHANGED <<content, fixedVars, flagVars, swallowed>>

\* assure_tenant_cleanup, in the "finally" clause: without hints it raises
\* UnboundLocalError or KeyError, and the request returns with that exception.
AssureTenantCleanup ==
    /\ IF all_subnet_hints.bound /\ ~HintsMissing
       THEN /\ Goto("cleanup", "report")
            /\ UNCHANGED result
       ELSE /\ Goto("cleanup", "return")
            /\ result' = "raised"
    /\ UNCHANGED <<content, active, request, service, lb_provisioning_status, to_sync,
                   flagVars, historyVars>>

-------------------------------------------------------------------------------
(* The report.  The children first, the load balancer last.                    *)

ReportedKinds ==
    CASE request = "sync" -> Kinds \ {"loadbalancer"}
      [] request \in {"loadbalancer", "delete_loadbalancer"} -> {}
      [] OTHER -> {request}

\* Slip: a status that is neither pending nor an error is sent as it is.
StatusToReportAsStored(o) ==
    CASE service[o] \in positive_plugin_const_state -> "ACTIVE"
      [] service[o] = "PENDING_DELETE" -> "DESTROYED"
      [] OTHER -> service[o]

\* Slip: the members of a pool that goes are reported with it.
StatusToReportWithPool(o) ==
    CASE service[o] \in positive_plugin_const_state -> "ACTIVE"
      [] service[o] = "PENDING_DELETE" -> "DESTROYED"
      [] service[o] = "ERROR" -> "ERROR"
      [] OTHER -> "NONE"

\* What _update_*_status tells the plugin: an object that is still pending after the
\* handler is taken to be on the devices, or gone from them.
StatusToReport(o) ==
    CASE service[o] \in positive_plugin_const_state -> "ACTIVE"
      [] service[o] = "PENDING_DELETE" /\ ~(o = "member" /\ parent_pool_deleted) ->
             "DESTROYED"
      [] service[o] = "ERROR" -> "ERROR"
      [] OTHER -> "NONE"

Settled(kinds) ==
    [o \in Kinds |-> IF o \in kinds /\ service[o] \in positive_plugin_const_state
                     THEN "ACTIVE" ELSE service[o]]

UpdateChildrenStatus ==
    LET kinds == IF do_service_update THEN ReportedKinds ELSE {}
    IN  /\ Goto("report", "report_lb")
        /\ reported' = [o \in Kinds |-> IF o \in kinds THEN StatusToReport(o) ELSE reported[o]]
        /\ service' = Settled(kinds)
        /\ UNCHANGED <<content, fixedVars, parent_pool_deleted, all_subnet_hints,
                       do_service_update, faults, faulted, swallowed>>

\* _update_loadbalancer_status, and what the driver method will return: whether the
\* load balancer is still pending.  A sync leaves its mode.
UpdateLoadbalancerStatus ==
    LET kinds == IF do_service_update THEN {"loadbalancer"} ELSE {}
    IN  /\ Goto("report_lb", "return")
        /\ reported' = [o \in Kinds |-> IF o \in kinds THEN StatusToReport(o) ELSE reported[o]]
        /\ service' = Settled(kinds)
        /\ result' = IF Settled(kinds)["loadbalancer"] \in positive_plugin_const_state
                     THEN "pending" ELSE "done"
        /\ to_sync' = (to_sync /\ request # "sync")
        /\ UNCHANGED <<content, active, request, lb_provisioning_status, parent_pool_deleted,
                       all_subnet_hints, do_service_update, historyVars>>

\* The driver method returns or raises, and its local variables are gone.
Return ==
    /\ Goto("return", "idle")
    /\ request' = "sync"
    /\ service' = NoService
    /\ lb_provisioning_status' = "ABSENT"
    /\ parent_pool_deleted' = FALSE
    /\ all_subnet_hints' = Unbound
    /\ do_service_update' = TRUE
    /\ reported' = NoReport
    /\ result' = "done"
    /\ faulted' = FALSE
    /\ swallowed' = FALSE
    /\ snapshot' = NoService
    /\ steady' = {}
    /\ UNCHANGED <<content, active, to_sync, faults>>

-------------------------------------------------------------------------------
(* Devices are lost (get_failover_state) and recovered (_init_errored_bigips)  *)
(* by other green threads at any time.  A device may come back empty.          *)

DeviceLost(d, items) ==
    /\ d \in active
    /\ items \in {content[d], {}}
    /\ active' = active \ {d}
    /\ steady' = steady \ {d}
    /\ content' = [content EXCEPT ![d] = items]
    /\ faults < MaxFaults
    /\ faults' = faults + 1
    /\ UNCHANGED <<handlerVars, faulted, swallowed, snapshot>>

DeviceRecovered(d) ==
    /\ d \notin active
    /\ active' = active \cup {d}
    /\ faulted' = (pc # "idle")
    /\ UNCHANGED <<content, handlerVars, faults, swallowed, snapshot, steady>>

\* The steps of the handler between Begin and the report.
Phase ==
    \/ \E faulty \in SUBSET active :
           \/ AssureTenantCreated(faulty)
           \/ \E silent \in SUBSET active : AssureLoadbalancerCreated(faulty, silent)
           \/ AssureMonitorsCreated(faulty)
           \/ AssurePoolsCreated(faulty)
           \/ AssureMembers(faulty)
           \/ AssureListenersCreated(faulty)
           \/ AssureListenersDeleted(faulty)
           \/ AssurePoolsDeleted(faulty)
           \/ AssureMonitorsDeleted(faulty)
           \/ \E done \in SUBSET active : AssureLoadbalancerDeleted(faulty, done)
    \/ \E outcome \in {"connected", "not_ready", "failed"} :
           PrepServiceNetworking(outcome) \/ PrepServiceNetworkingRaises(outcome)
    \/ AssureMembersRaises
    \/ \E done \in SUBSET active :
           AssureListenersCreatedRaises(done) \/ AssurePoolsDeletedRaises(done)
    \/ \E fails \in BOOLEAN : PostServiceNetworking(fails)

Handler == Phase \/ AssureTenantCleanup \/ UpdateChildrenStatus \/ UpdateLoadbalancerStatus
           \/ Return

DeviceChange ==
    \E d \in Devices :
        DeviceRecovered(d) \/ \E items \in SUBSET Items : DeviceLost(d, items)

HandlerNext ==
    \/ \E r \in Requests : \E s \in Snapshots(r) : Begin(r, s)
    \/ Handler
    \/ DeviceChange

HandlerSpec == HandlerInit /\ [][HandlerNext]_serviceVars

-------------------------------------------------------------------------------
HandlerTypeOK ==
    /\ content \in [Devices -> SUBSET Items]
    /\ active \subseteq Devices
    /\ pc \in Phases
    /\ request \in Requests
    /\ service \in [Kinds -> Statuses]
    /\ lb_provisioning_status \in Statuses
    /\ parent_pool_deleted \in BOOLEAN
    /\ all_subnet_hints \in [bound : BOOLEAN, devices : SUBSET Devices]
    /\ do_service_update \in BOOLEAN
    /\ to_sync \in BOOLEAN
    /\ reported \in [Kinds -> {"NONE", "ACTIVE", "ERROR", "DESTROYED"}]
    /\ result \in {"done", "pending", "raised"}
    /\ faulted \in BOOLEAN
    /\ swallowed \in BOOLEAN
    /\ snapshot \in [Kinds -> Statuses]
    /\ faults \in 0..MaxFaults
    /\ steady \subseteq active

\* The report is true on every device that stayed: what was reported ACTIVE is there,
\* what was reported destroyed is gone.  Device calls may have failed, on any device,
\* in any phase: the error of one device is not lost behind the success of another.
\* Only a request that swallowed a failure is left out; and a member may stay when its
\* pool could not be written, the load balancer being in ERROR for it, or when the pool
\* was to go with it and could not be deleted.
ReportIsTrue ==
    ~swallowed =>
        \A d \in steady, o \in Kinds :
            /\ reported[o] = "ACTIVE" => o \in content[d]
            /\ reported[o] = "DESTROYED" /\ o \in content[d] =>
                   /\ o = "member"
                   /\ \/ service["loadbalancer"] = "ERROR"
                      \/ snapshot["pool"] = "PENDING_DELETE" /\ service["pool"] = "ERROR"

\* The report answers the snapshot, although the handler overwrites its statuses on the
\* way (a target is written again, a member of a pool that goes is marked): an object is
\* reported destroyed only when Neutron wanted it to go, and ACTIVE only when Neutron was
\* waiting for that.
ReportAnswersSnapshot ==
    \A o \in Kinds :
        /\ reported[o] = "DESTROYED" => snapshot[o] = "PENDING_DELETE"
        /\ reported[o] = "ACTIVE" => snapshot[o] \in positive_plugin_const_state

\* A sync with no failure restores the service, whatever the devices held before: every
\* object that is not being deleted is on every device, with the references between
\* them, and no call for it was refused because of the order of the calls.
SyncRestoresService ==
    LET kept == {o \in Kinds : /\ snapshot[o] \notin {"ABSENT", "PENDING_DELETE"}
                               /\ o = "member" => snapshot["pool"] # "PENDING_DELETE"}
    IN  request = "sync" /\ pc = "report" /\ ~faulted =>
            /\ \A o \in kept : service[o] = "ERROR" => snapshot[o] = "ERROR"
            /\ \A d \in steady :
                   /\ kept \subseteq content[d]
                   /\ {"listener", "pool"} \subseteq kept => ListenerToPool \in content[d]
                   /\ {"pool", "healthmonitor"} \subseteq kept =>
                          PoolToMonitor \in content[d]

===============================================================================
