------------------------ MODULE ServiceHandler_proofs ------------------------
(***************************************************************************)
(* Proofs about ServiceHandler, for any set of devices, any kinds of        *)
(* objects and any number of failures.                                      *)
(*                                                                          *)
(* The lemmas about a request ask less of its service than Services does,   *)
(* so that they hold of the services in the agent's queue too: several      *)
(* objects of one of those may be pending at once.                          *)
(***************************************************************************)
EXTENDS ServiceHandler, TLAPS

-------------------------------------------------------------------------------
(* Type correctness *)

\* The snapshots are services.
LEMMA SnapshotType ==
    ASSUME NEW r \in Requests, NEW s \in Snapshots(r)
    PROVE  s \in [Kinds -> Statuses] /\ IsTree(s) /\ s["loadbalancer"] # "ABSENT"
BY Zenon DEF Snapshots, Services

\* What a driver method does to the service: the pool of a member or of a monitor, or the
\* listener of a pool, is written again.
LEMMA TargetStatus ==
    ASSUME NEW r \in Requests, NEW s \in [Kinds -> Statuses]
    PROVE  /\ WithTarget(r, s) \in [Kinds -> Statuses]
           /\ r = "sync" => WithTarget(r, s) = s
           /\ r \in Kinds => WithTarget(r, s)[r] = s[r]
           /\ \A o \in {"loadbalancer", "member"} : WithTarget(r, s)[o] = s[o]
           /\ WithTarget(r, s)["pool"] = IF r \in {"member", "healthmonitor"}
                                         THEN "PENDING_UPDATE" ELSE s["pool"]
<1>1. CASE r \in {"member", "healthmonitor"}
  <2>1. WithTarget(r, s) = [s EXCEPT !["pool"] = "PENDING_UPDATE"]
    BY <1>1, Zenon DEF WithTarget
  <2> QED
    BY <1>1, <2>1 DEF Kinds, Statuses
<1>2. CASE r = "pool" /\ s["listener"] # "ABSENT"
  <2>1. WithTarget(r, s) = [s EXCEPT !["listener"] = "PENDING_UPDATE"]
    BY <1>2, Zenon DEF WithTarget
  <2> QED
    BY <1>2, <2>1 DEF Kinds, Statuses
<1>3. CASE r \notin {"member", "healthmonitor"} /\ ~(r = "pool" /\ s["listener"] # "ABSENT")
  <2>1. WithTarget(r, s) = s
    BY <1>3, Zenon DEF WithTarget
  <2> QED
    BY <1>3, <2>1
<1> QED
  BY <1>1, <1>2, <1>3

\* What is written on a device and removed from it are items.
LEMMA ConfigureType ==
    ASSUME content \in [Devices -> SUBSET Items], NEW devices, NEW out,
           NEW in \in SUBSET Items, Configure(devices, out, in)
    PROVE  content' \in [Devices -> SUBSET Items]
BY DEF Configure

\* A status that was reported becomes a status.
LEMMA SettledType ==
    ASSUME HandlerTypeOK, NEW kinds
    PROVE  Settled(kinds) \in [Kinds -> Statuses]
BY DEF Settled, HandlerTypeOK, Statuses

\* What is told to the plugin is one of four things.
LEMMA ReportType ==
    ASSUME NEW o
    PROVE  StatusToReport(o) \in {"NONE", "ACTIVE", "ERROR", "DESTROYED"}
BY DEF StatusToReport

\* The initial states have their types.
LEMMA InitType == HandlerInit => HandlerTypeOK
<1> SUFFICES ASSUME HandlerInit PROVE HandlerTypeOK
  OBVIOUS
<1>1. content \in [Devices -> SUBSET Items]
  BY ObjectsAssumption DEF HandlerInit, Items
<1>2. /\ service \in [Kinds -> Statuses] /\ snapshot \in [Kinds -> Statuses]
      /\ reported \in [Kinds -> {"NONE", "ACTIVE", "ERROR", "DESTROYED"}]
  BY DEF HandlerInit, NoService, NoReport, Statuses
<1>3. /\ all_subnet_hints \in [bound : BOOLEAN, devices : SUBSET Devices]
      /\ faults \in 0..MaxFaults
  BY MaxFaultsAssumption DEF HandlerInit, Unbound
<1> QED
  BY <1>1, <1>2, <1>3 DEF HandlerInit, HandlerTypeOK, Statuses, Phases, Requests

\* The step of a phase keeps the types.
LEMMA PhaseType == HandlerTypeOK /\ Phase => HandlerTypeOK'
<1> SUFFICES ASSUME HandlerTypeOK, Phase PROVE HandlerTypeOK'
  OBVIOUS
<1> USE MaxFaultsAssumption
    DEF HandlerTypeOK, Goto, Fault, fixedVars, flagVars, Phases, Statuses, Kinds, Items
<1>1. ASSUME NEW faulty \in SUBSET active, AssureTenantCreated(faulty)
      PROVE  HandlerTypeOK'
  BY <1>1 DEF AssureTenantCreated, Finally, LoadbalancerError
<1>2. ASSUME NEW faulty \in SUBSET active, NEW silent \in SUBSET active,
             AssureLoadbalancerCreated(faulty, silent)
      PROVE  HandlerTypeOK'
  BY <1>2 DEF AssureLoadbalancerCreated, Configure, ErrorIf, Finally
<1>3. ASSUME NEW faulty \in SUBSET active, AssureMonitorsCreated(faulty)
      PROVE  HandlerTypeOK'
  BY <1>3 DEF AssureMonitorsCreated, Configure, ErrorIf
<1>4. ASSUME NEW faulty \in SUBSET active, AssurePoolsCreated(faulty)
      PROVE  HandlerTypeOK'
  <2>1. PoolItems \subseteq Items
    BY DEF PoolItems
  <2>2. content' \in [Devices -> SUBSET Items]
    BY ONLY HandlerTypeOK, <1>4, <2>1, ConfigureType DEF AssurePoolsCreated, HandlerTypeOK
  <2> QED
    BY <1>4, <2>2 DEF AssurePoolsCreated
<1>5. ASSUME NEW faulty \in SUBSET active, AssureMembers(faulty)
      PROVE  HandlerTypeOK'
  BY <1>5 DEF AssureMembers, Finally
<1>6. ASSUME NEW faulty \in SUBSET active, AssureListenersCreated(faulty)
      PROVE  HandlerTypeOK'
  <2>1. ListenerItems \subseteq Items
    BY DEF ListenerItems
  <2>2. content' \in [Devices -> SUBSET Items]
    BY ONLY HandlerTypeOK, <1>6, <2>1, ConfigureType
       DEF AssureListenersCreated, HandlerTypeOK
  <2> QED
    BY <1>6, <2>2 DEF AssureListenersCreated
<1>7. ASSUME NEW faulty \in SUBSET active, AssureListenersDeleted(faulty)
      PROVE  HandlerTypeOK'
  BY <1>7 DEF AssureListenersDeleted, Configure, ErrorIf
<1>8. ASSUME NEW faulty \in SUBSET active, AssurePoolsDeleted(faulty)
      PROVE  HandlerTypeOK'
  BY <1>8 DEF AssurePoolsDeleted, KeepsPool, Configure, ErrorIf
<1>9. ASSUME NEW faulty \in SUBSET active, AssureMonitorsDeleted(faulty)
      PROVE  HandlerTypeOK'
  BY <1>9 DEF AssureMonitorsDeleted, Configure, ErrorIf
<1>10. ASSUME NEW faulty \in SUBSET active, NEW done \in SUBSET active,
              AssureLoadbalancerDeleted(faulty, done)
       PROVE  HandlerTypeOK'
  BY <1>10 DEF AssureLoadbalancerDeleted, Configure, Finally
<1>11. ASSUME NEW outcome \in {"connected", "not_ready", "failed"},
              PrepServiceNetworking(outcome)
       PROVE  HandlerTypeOK'
  BY <1>11 DEF PrepServiceNetworking, LoadbalancerError
<1>12. ASSUME NEW outcome \in {"connected", "not_ready", "failed"},
              PrepServiceNetworkingRaises(outcome)
       PROVE  HandlerTypeOK'
  BY <1>12 DEF PrepServiceNetworkingRaises, LoadbalancerError, Finally
<1>13. CASE AssureMembersRaises
  BY <1>13 DEF AssureMembersRaises, Finally
<1>14. ASSUME NEW done \in SUBSET active, AssureListenersCreatedRaises(done)
       PROVE  HandlerTypeOK'
  <2>1. ListenerItems \subseteq Items
    BY DEF ListenerItems
  <2>2. content' \in [Devices -> SUBSET Items]
    BY ONLY HandlerTypeOK, <1>14, <2>1, ConfigureType
       DEF AssureListenersCreatedRaises, HandlerTypeOK
  <2> QED
    BY <1>14, <2>2 DEF AssureListenersCreatedRaises, Finally
<1>15. ASSUME NEW fails \in BOOLEAN, PostServiceNetworking(fails)
       PROVE  HandlerTypeOK'
  BY <1>15 DEF PostServiceNetworking, LoadbalancerError, Finally
<1>16. ASSUME NEW done \in SUBSET active, AssurePoolsDeletedRaises(done)
       PROVE  HandlerTypeOK'
  BY <1>16 DEF AssurePoolsDeletedRaises, Configure, Finally
<1> QED
  BY <1>1, <1>2, <1>3, <1>4, <1>5, <1>6, <1>7, <1>8, <1>9, <1>10, <1>11, <1>12, <1>13,
     <1>14, <1>15, <1>16 DEF Phase

\* A request may begin with any service.
LEMMA BeginType ==
    ASSUME HandlerTypeOK, NEW r \in Requests, NEW s \in [Kinds -> Statuses], Begin(r, s)
    PROVE  HandlerTypeOK'
<1>1. WithTarget(r, s) \in [Kinds -> Statuses] /\ s["loadbalancer"] \in Statuses
  BY TargetStatus DEF Kinds
<1> QED
  BY <1>1 DEF Begin, HandlerTypeOK, Goto, Phases, Unbound, NoReport, Kinds

\* Every step keeps the types.
LEMMA NextType == HandlerTypeOK /\ [HandlerNext]_serviceVars => HandlerTypeOK'
<1> SUFFICES ASSUME HandlerTypeOK, [HandlerNext]_serviceVars PROVE HandlerTypeOK'
  OBVIOUS
<1>1. ASSUME NEW r \in Requests, NEW s \in Snapshots(r), Begin(r, s)
      PROVE  HandlerTypeOK'
  BY <1>1, SnapshotType, BeginType
<1>2. CASE Phase
  BY <1>2, PhaseType
<1>3. CASE AssureTenantCleanup
  BY <1>3 DEF AssureTenantCleanup, HandlerTypeOK, Goto, Phases, flagVars, historyVars
<1>5. CASE UpdateChildrenStatus
  <2> DEFINE kinds == IF do_service_update THEN ReportedKinds ELSE {}
  <2>1. /\ reported' = [o \in Kinds |-> IF o \in kinds THEN StatusToReport(o) ELSE reported[o]]
        /\ service' = Settled(kinds)
    BY <1>5 DEF UpdateChildrenStatus
  <2>2. /\ service' \in [Kinds -> Statuses]
        /\ reported' \in [Kinds -> {"NONE", "ACTIVE", "ERROR", "DESTROYED"}]
    BY <2>1, ReportType, SettledType DEF HandlerTypeOK
  <2> QED
    BY <1>5, <2>2 DEF UpdateChildrenStatus, HandlerTypeOK, Goto, Phases, fixedVars
<1>6. CASE UpdateLoadbalancerStatus
  <2> DEFINE kinds == IF do_service_update THEN {"loadbalancer"} ELSE {}
  <2>1. /\ reported' = [o \in Kinds |-> IF o \in kinds THEN StatusToReport(o) ELSE reported[o]]
        /\ service' = Settled(kinds)
    BY <1>6 DEF UpdateLoadbalancerStatus
  <2>2. /\ service' \in [Kinds -> Statuses]
        /\ reported' \in [Kinds -> {"NONE", "ACTIVE", "ERROR", "DESTROYED"}]
    BY <2>1, ReportType, SettledType DEF HandlerTypeOK
  <2>3. result' \in {"done", "pending", "raised"} /\ to_sync' \in BOOLEAN
    BY <1>6 DEF UpdateLoadbalancerStatus
  <2> QED
    BY <1>6, <2>2, <2>3 DEF UpdateLoadbalancerStatus, HandlerTypeOK, Goto, Phases, historyVars
<1>7. CASE Return
  BY <1>7 DEF Return, HandlerTypeOK, Goto, Phases, NoService, NoReport, Unbound, Requests,
                     Statuses, Kinds
<1>8. ASSUME NEW d \in Devices, DeviceRecovered(d)
      PROVE  HandlerTypeOK'
  BY <1>8 DEF DeviceRecovered, HandlerTypeOK, handlerVars
<1>9. ASSUME NEW d \in Devices, NEW items \in SUBSET Items, DeviceLost(d, items)
      PROVE  HandlerTypeOK'
  BY <1>9, MaxFaultsAssumption DEF DeviceLost, HandlerTypeOK, handlerVars
<1>10. CASE UNCHANGED serviceVars
  BY <1>10 DEF serviceVars, handlerVars, historyVars, HandlerTypeOK
<1> QED
  BY <1>1, <1>2, <1>3, <1>5, <1>6, <1>7, <1>8, <1>9, <1>10
     DEF HandlerNext, Handler, DeviceChange

\* Types are an invariant of the handler.
THEOREM HandlerTypes == HandlerSpec => []HandlerTypeOK
BY InitType, NextType, PTL DEF HandlerSpec

-------------------------------------------------------------------------------
(* Reports.  The invariant says of every phase what the handler has made sure   *)
(* of by then, on the devices that stayed, when nothing was swallowed.         *)

\* What the invariants speak about: all but the number of failures so far.
observedVars == <<content, active, handlerVars, faulted, swallowed, snapshot, steady>>

BeforeMembers == {"tenant", "prep", "loadbalancer", "monitors", "pools"}

AfterLoadbalancerDeleted == {"post", "cleanup", "report", "report_lb"}
AfterMonitorsDeleted == AfterLoadbalancerDeleted \cup {"del_loadbalancer"}
AfterPoolsDeleted == AfterMonitorsDeleted \cup {"del_monitors"}
AfterListenersDeleted == AfterPoolsDeleted \cup {"del_pools"}
AfterListeners == AfterListenersDeleted \cup {"del_listeners"}
AfterMembers == AfterListeners \cup {"listeners"}
AfterPools == AfterMembers \cup {"members"}
AfterMonitors == AfterPools \cup {"pools"}
AfterLoadbalancer == AfterMonitors \cup {"monitors"}

\* A member is created or updated in a pool.
PoolOfMember ==
    pc # "idle" /\ service["member"] \in positive_plugin_const_state =>
        service["pool"] # "ABSENT"

\* The pool that Neutron wanted to go is still to be deleted.
PoolGoes == service["pool"] = "PENDING_DELETE" /\ snapshot["pool"] = "PENDING_DELETE"

\* A member that goes, and that the report is about, is in a pool that is going to be
\* written, or that goes too.
MemberLeavesPool ==
    /\ pc \in BeforeMembers /\ request \in {"member", "sync"}
           /\ service["member"] = "PENDING_DELETE" =>
           service["pool"] \in const_status \/ PoolGoes
    /\ pc \in BeforeMembers \cup {"members"} => parent_pool_deleted = FALSE

NothingReported == pc \notin {"report_lb", "return"} => reported = NoReport

Done(o, phases) == pc \in phases /\ service[o] \in positive_plugin_const_state
Going(o, phases) == pc \in phases /\ service[o] = "PENDING_DELETE"

Deployed(d) ==
    /\ Done("loadbalancer", AfterLoadbalancer) => "loadbalancer" \in content[d]
    /\ Done("healthmonitor", AfterMonitors) => "healthmonitor" \in content[d]
    /\ Done("pool", AfterPools) => "pool" \in content[d]
    /\ Done("member", AfterMembers) => "member" \in content[d]
    /\ Done("listener", AfterListeners) => "listener" \in content[d]

Removed(d) ==
    /\ Going("listener", AfterListenersDeleted) => "listener" \notin content[d]
    /\ Going("pool", AfterPoolsDeleted) => "pool" \notin content[d]
    /\ Going("healthmonitor", AfterMonitorsDeleted) => "healthmonitor" \notin content[d]
    /\ Going("loadbalancer", AfterLoadbalancerDeleted) => "loadbalancer" \notin content[d]
    /\ Going("member", AfterPools) /\ ~parent_pool_deleted
           /\ request \in {"member", "sync"} =>
           \/ "member" \notin content[d] \/ service["loadbalancer"] = "ERROR"
           \/ snapshot["pool"] = "PENDING_DELETE" /\ service["pool"] = "ERROR"
           \/ pc \notin AfterPoolsDeleted /\ PoolGoes

\* A member that was created or updated is not in a pool that goes.
PoolStays == Done("member", AfterMembers) => service["pool"] # "PENDING_DELETE"

Assured == ~swallowed => PoolStays /\ \A d \in steady : Deployed(d) /\ Removed(d)

ReportInv ==
    HandlerTypeOK /\ PoolOfMember /\ MemberLeavesPool /\ NothingReported /\ Assured
                  /\ ReportIsTrue

\* A phase starts from nothing reported and reports nothing.
LEMMA PhaseReports ==
    ReportInv /\ Phase => NothingReported' /\ ReportIsTrue'
<1> SUFFICES ASSUME ReportInv, Phase PROVE NothingReported' /\ ReportIsTrue'
  OBVIOUS
<1>1. reported' = reported /\ pc \notin {"report_lb", "return"}
  BY DEF Phase, fixedVars, flagVars, Goto, AssureTenantCreated, AssureLoadbalancerCreated,
         AssureMonitorsCreated, AssurePoolsCreated, AssureMembers, AssureListenersCreated,
         AssureListenersDeleted, AssurePoolsDeleted, AssureMonitorsDeleted,
         AssureLoadbalancerDeleted, PrepServiceNetworking, PrepServiceNetworkingRaises,
         AssureMembersRaises, AssureListenersCreatedRaises, AssurePoolsDeletedRaises,
         PostServiceNetworking
<1>2. reported' = NoReport
  BY <1>1 DEF ReportInv, NothingReported
<1> QED
  BY <1>2 DEF NothingReported, ReportIsTrue, NoReport, Kinds

\* What a phase leaves true of the devices that stayed.
LEMMA PhaseAssures ==
    ASSUME ReportInv, Phase
    PROVE  PoolOfMember' /\ MemberLeavesPool' /\ Assured'
<1>0. /\ service \in [Kinds -> Statuses] /\ content \in [Devices -> SUBSET Items]
      /\ steady \subseteq active /\ active \subseteq Devices
      /\ PoolOfMember /\ MemberLeavesPool /\ Assured
  BY DEF ReportInv, HandlerTypeOK
<1> USE <1>0 DEF PoolOfMember, PoolGoes, MemberLeavesPool, Assured, PoolStays, Deployed,
       Removed, Done, Going,
       BeforeMembers, AfterLoadbalancerDeleted, AfterMonitorsDeleted, AfterPoolsDeleted,
       AfterListenersDeleted, AfterListeners, AfterMembers, AfterPools, AfterMonitors,
       AfterLoadbalancer, positive_plugin_const_state, fixedVars, flagVars, Kinds
<1>1. ASSUME NEW faulty \in SUBSET active, AssureTenantCreated(faulty)
      PROVE  PoolOfMember' /\ MemberLeavesPool' /\ Assured'
  BY <1>1 DEF AssureTenantCreated, Goto, Finally, LoadbalancerError, const_status
<1>2. ASSUME NEW faulty \in SUBSET active, NEW silent \in SUBSET active,
             AssureLoadbalancerCreated(faulty, silent)
      PROVE  PoolOfMember' /\ MemberLeavesPool' /\ Assured'
  BY <1>2 DEF AssureLoadbalancerCreated, Configure, ErrorIf, Goto, Finally, const_status,
              normal_status, sync_status
<1>3. ASSUME NEW faulty \in SUBSET active, AssureMonitorsCreated(faulty)
      PROVE  PoolOfMember' /\ MemberLeavesPool' /\ Assured'
  BY <1>3 DEF AssureMonitorsCreated, Configure, ErrorIf, Goto, const_status,
              normal_status, sync_status
<1>4. ASSUME NEW faulty \in SUBSET active, AssurePoolsCreated(faulty)
      PROVE  PoolOfMember' /\ MemberLeavesPool' /\ Assured'
  BY <1>4 DEF AssurePoolsCreated, Configure, Goto, const_status,
              normal_status, sync_status, PoolItems, Named, ListenerToPool, PoolToMonitor
<1>5. ASSUME NEW faulty \in SUBSET active, AssureMembers(faulty)
      PROVE  PoolOfMember' /\ MemberLeavesPool' /\ Assured'
  BY <1>5 DEF AssureMembers, MembersSelected, Goto, Finally, const_status,
              normal_status, sync_status
<1>6. ASSUME NEW faulty \in SUBSET active, AssureListenersCreated(faulty)
      PROVE  PoolOfMember' /\ MemberLeavesPool' /\ Assured'
  BY <1>6 DEF AssureListenersCreated, Configure, Goto, const_status,
              normal_status, sync_status, ListenerItems, ListenerToPool
<1>7. ASSUME NEW faulty \in SUBSET active, AssureListenersDeleted(faulty)
      PROVE  PoolOfMember' /\ MemberLeavesPool' /\ Assured'
  BY <1>7 DEF AssureListenersDeleted, Configure, ErrorIf, Goto, ListenerToPool
<1>8. ASSUME NEW faulty \in SUBSET active, AssurePoolsDeleted(faulty)
      PROVE  PoolOfMember' /\ MemberLeavesPool' /\ Assured'
  BY <1>8 DEF AssurePoolsDeleted, KeepsPool, Configure, ErrorIf, Goto, ListenerToPool, PoolToMonitor
<1>9. ASSUME NEW faulty \in SUBSET active, AssureMonitorsDeleted(faulty)
      PROVE  PoolOfMember' /\ MemberLeavesPool' /\ Assured'
  BY <1>9 DEF AssureMonitorsDeleted, Configure, ErrorIf, Goto
<1>10. ASSUME NEW faulty \in SUBSET active, NEW done \in SUBSET active,
              AssureLoadbalancerDeleted(faulty, done)
       PROVE  PoolOfMember' /\ MemberLeavesPool' /\ Assured'
  BY <1>10 DEF AssureLoadbalancerDeleted, Configure, Goto, Finally
<1>11. ASSUME NEW outcome \in {"connected", "not_ready", "failed"},
              PrepServiceNetworking(outcome)
       PROVE  PoolOfMember' /\ MemberLeavesPool' /\ Assured'
  BY <1>11 DEF PrepServiceNetworking, LoadbalancerError, Goto, const_status
<1>12. ASSUME NEW outcome \in {"connected", "not_ready", "failed"},
              PrepServiceNetworkingRaises(outcome)
       PROVE  PoolOfMember' /\ MemberLeavesPool' /\ Assured'
  BY <1>12 DEF PrepServiceNetworkingRaises, LoadbalancerError, Goto, Finally
<1>13. CASE AssureMembersRaises
  BY <1>13 DEF AssureMembersRaises, Goto, Finally
<1>14. ASSUME NEW done \in SUBSET active, AssureListenersCreatedRaises(done)
       PROVE  PoolOfMember' /\ MemberLeavesPool' /\ Assured'
  BY <1>14 DEF AssureListenersCreatedRaises, Goto, Finally
<1>15. ASSUME NEW fails \in BOOLEAN, PostServiceNetworking(fails)
       PROVE  PoolOfMember' /\ MemberLeavesPool' /\ Assured'
  BY <1>15 DEF PostServiceNetworking, LoadbalancerError, Goto, Finally
<1>16. ASSUME NEW done \in SUBSET active, AssurePoolsDeletedRaises(done)
       PROVE  PoolOfMember' /\ MemberLeavesPool' /\ Assured'
  BY <1>16 DEF AssurePoolsDeletedRaises, Configure, Goto, Finally, ListenerToPool,
               PoolToMonitor
<1> QED
  BY ONLY Phase, <1>1, <1>2, <1>3, <1>4, <1>5, <1>6, <1>7, <1>8, <1>9, <1>10, <1>11,
          <1>12, <1>13, <1>14, <1>15, <1>16 DEF Phase

\* A request begins with a service of any kind, as long as its members have a pool.
LEMMA BeginReports ==
    ASSUME NEW r \in Requests, NEW s \in [Kinds -> Statuses], IsTree(s), Begin(r, s)
    PROVE  PoolOfMember' /\ MemberLeavesPool' /\ NothingReported' /\ Assured' /\ ReportIsTrue'
<1>1. /\ pc' = "tenant" /\ request' = r /\ service' = WithTarget(r, s) /\ snapshot' = s
      /\ parent_pool_deleted' = FALSE /\ reported' = NoReport
      /\ to_sync' = (to_sync \/ r = "sync")
  BY DEF Begin, Goto
<1>2. /\ service'["member"] = s["member"]
      /\ service'["pool"] = IF r \in {"member", "healthmonitor"}
                            THEN "PENDING_UPDATE" ELSE s["pool"]
      /\ s["member"] \in Statuses /\ s["pool"] \in Statuses
      /\ s["member"] # "ABSENT" => s["pool"] # "ABSENT"
  BY <1>1, TargetStatus DEF IsTree, Kinds
<1>3. PoolOfMember'
  BY <1>2 DEF PoolOfMember, positive_plugin_const_state
<1>4. MemberLeavesPool'
  BY <1>1, <1>2 DEF MemberLeavesPool, PoolGoes, const_status, normal_status, sync_status, Statuses
<1>5. NothingReported' /\ ReportIsTrue'
  BY <1>1 DEF NothingReported, ReportIsTrue, NoReport
<1>6. Assured'
  BY <1>1 DEF Assured, PoolStays, Deployed, Removed, Done, Going, AfterLoadbalancerDeleted,
       AfterMonitorsDeleted, AfterPoolsDeleted, AfterListenersDeleted, AfterListeners,
       AfterMembers, AfterPools, AfterMonitors, AfterLoadbalancer
<1> QED
  BY <1>3, <1>4, <1>5, <1>6

\* Between two requests the invariant says nothing.
LEMMA IdleReports ==
    ASSUME pc' = "idle", reported' = NoReport
    PROVE  PoolOfMember' /\ MemberLeavesPool' /\ NothingReported' /\ Assured' /\ ReportIsTrue'
BY DEF PoolOfMember, MemberLeavesPool, NothingReported, ReportIsTrue, NoReport, BeforeMembers,
       Assured, PoolStays, Deployed, Removed, Done, Going, AfterLoadbalancerDeleted,
       AfterMonitorsDeleted, AfterPoolsDeleted, AfterListenersDeleted, AfterListeners,
       AfterMembers, AfterPools, AfterMonitors, AfterLoadbalancer

\* Every step of the handler and of the devices keeps the invariant of the reports.
LEMMA ReportStep ==
    ASSUME ReportInv, Handler \/ DeviceChange \/ UNCHANGED observedVars
    PROVE  PoolOfMember' /\ MemberLeavesPool' /\ NothingReported' /\ Assured' /\ ReportIsTrue'
<1>0. /\ service \in [Kinds -> Statuses] /\ content \in [Devices -> SUBSET Items]
      /\ steady \subseteq active /\ active \subseteq Devices
      /\ PoolOfMember /\ MemberLeavesPool /\ NothingReported /\ Assured /\ ReportIsTrue
  BY DEF ReportInv, HandlerTypeOK
<1> DEFINE Goal == PoolOfMember' /\ MemberLeavesPool' /\ NothingReported' /\ Assured'
                   /\ ReportIsTrue'
<1> USE <1>0 DEF PoolOfMember, PoolGoes, MemberLeavesPool, NothingReported, Assured, PoolStays,
       Deployed, Removed,
       Done, Going, BeforeMembers, AfterLoadbalancerDeleted, AfterMonitorsDeleted,
       AfterPoolsDeleted, AfterListenersDeleted, AfterListeners, AfterMembers, AfterPools,
       AfterMonitors, AfterLoadbalancer, positive_plugin_const_state
<1>2. CASE Phase
  BY <1>2, PhaseReports, PhaseAssures
<1>3. CASE AssureTenantCleanup
  <2>1. reported = NoReport
    BY <1>3 DEF AssureTenantCleanup, Goto
  <2> QED
    BY <1>3, <2>1 DEF AssureTenantCleanup, Goto, flagVars, historyVars, ReportIsTrue,
                      NoReport, const_status
<1>4. CASE UpdateChildrenStatus
  <2> DEFINE kinds == IF do_service_update THEN ReportedKinds ELSE {}
  <2>1. /\ \A o \in Kinds : reported'[o] = IF o \in kinds THEN StatusToReport(o) ELSE "NONE"
        /\ service' = Settled(kinds)
        /\ pc = "report" /\ pc' = "report_lb"
    BY <1>4 DEF UpdateChildrenStatus, Goto, NoReport
  <2>2. "loadbalancer" \notin kinds /\ ("member" \in kinds => request \in {"member", "sync"})
    BY DEF ReportedKinds
  <2>3. ReportIsTrue'
    BY <1>4, <2>1, <2>2 DEF UpdateChildrenStatus, ReportIsTrue, StatusToReport, Settled,
                            fixedVars, Kinds
  <2>4. PoolOfMember' /\ MemberLeavesPool' /\ NothingReported' /\ Assured'
    BY <1>4, <2>1 DEF UpdateChildrenStatus, Settled, fixedVars, Kinds
  <2> QED
    BY <2>3, <2>4
<1>5. CASE UpdateLoadbalancerStatus
  <2> DEFINE kinds == IF do_service_update THEN {"loadbalancer"} ELSE {}
  <2>1. /\ \A o \in Kinds :
               reported'[o] = IF o \in kinds THEN StatusToReport(o) ELSE reported[o]
        /\ service' = Settled(kinds)
        /\ pc = "report_lb" /\ pc' = "return"
    BY <1>5 DEF UpdateLoadbalancerStatus, Goto
  <2>2. ReportIsTrue'
    BY <1>5, <2>1 DEF UpdateLoadbalancerStatus, ReportIsTrue, StatusToReport, Settled,
                      historyVars, Kinds
  <2>3. PoolOfMember' /\ MemberLeavesPool' /\ NothingReported' /\ Assured'
    BY <1>5, <2>1 DEF UpdateLoadbalancerStatus, Settled, historyVars, Kinds
  <2> QED
    BY <2>2, <2>3
<1>6. CASE Return
  BY ONLY <1>6, IdleReports DEF Return, Goto
<1>7. ASSUME NEW d \in Devices, DeviceRecovered(d)
      PROVE  Goal
  BY <1>7 DEF DeviceRecovered, handlerVars, ReportIsTrue, const_status
<1>8. ASSUME NEW d \in Devices, NEW items \in SUBSET Items, DeviceLost(d, items)
      PROVE  Goal
  BY <1>8 DEF DeviceLost, handlerVars, ReportIsTrue, const_status
<1>9. CASE UNCHANGED observedVars
  BY <1>9 DEF observedVars, handlerVars, ReportIsTrue, const_status
<1> QED
  BY ONLY Handler \/ DeviceChange \/ UNCHANGED observedVars, <1>2, <1>3, <1>4, <1>5, <1>6,
          <1>7, <1>8, <1>9 DEF Handler, DeviceChange

\* It holds before the first request.
LEMMA InitReports ==
    HandlerInit => PoolOfMember /\ MemberLeavesPool /\ NothingReported /\ Assured /\ ReportIsTrue
BY DEF HandlerInit, PoolOfMember, MemberLeavesPool, NothingReported, ReportIsTrue, NoReport,
       BeforeMembers, Assured, PoolStays, Deployed, Removed, Done, Going,
       AfterLoadbalancerDeleted, AfterMonitorsDeleted, AfterPoolsDeleted,
       AfterListenersDeleted, AfterListeners, AfterMembers, AfterPools, AfterMonitors,
       AfterLoadbalancer

\* A report of ACTIVE or DESTROYED is true on every device that stayed, when no failure
\* was swallowed.
THEOREM HandlerReports == HandlerSpec => []ReportIsTrue
<1>1. HandlerInit => ReportInv
  BY InitType, InitReports DEF ReportInv
<1>2. ReportInv /\ [HandlerNext]_serviceVars => ReportInv'
  <2> SUFFICES ASSUME ReportInv, [HandlerNext]_serviceVars PROVE ReportInv'
    OBVIOUS
  <2>1. ASSUME NEW r \in Requests, NEW s \in Snapshots(r), Begin(r, s)
        PROVE  ReportInv'
    BY <2>1, NextType, SnapshotType, BeginReports DEF ReportInv
  <2> QED
    BY <2>1, NextType, ReportStep DEF ReportInv, HandlerNext, serviceVars, historyVars, observedVars
<1>3. ReportInv => ReportIsTrue
  BY DEF ReportInv
<1> QED
  BY <1>1, <1>2, <1>3, PTL DEF HandlerSpec

-------------------------------------------------------------------------------
(* Resynchronisation.  During a sync in which nothing failed, the devices that  *)
(* are active are those that stayed, all of them have hints, the statuses are   *)
(* those of the snapshot, and each phase has restored its objects.              *)

Kept == {o \in Kinds : /\ snapshot[o] \notin {"ABSENT", "PENDING_DELETE"}
                       /\ o = "member" => snapshot["pool"] # "PENDING_DELETE"}

Restored(d) ==
    /\ pc \in AfterLoadbalancer /\ "loadbalancer" \in Kept => "loadbalancer" \in content[d]
    /\ pc \in AfterMonitors /\ "healthmonitor" \in Kept => "healthmonitor" \in content[d]
    /\ pc \in AfterPools /\ "pool" \in Kept =>
           /\ "pool" \in content[d]
           /\ "member" \in Kept => "member" \in content[d]
           /\ "healthmonitor" \in Kept => PoolToMonitor \in content[d]
    /\ pc \in AfterListeners /\ "listener" \in Kept =>
           /\ "listener" \in content[d]
           /\ "pool" \in Kept => ListenerToPool \in content[d]

InSync ==
    request = "sync" /\ ~faulted /\ pc \in AfterLoadbalancer \cup {"tenant", "prep", "loadbalancer"}
                     /\ pc # "report_lb"

SyncInv ==
    InSync =>
        /\ to_sync
        /\ IsTree(snapshot)
        /\ active \subseteq steady
        /\ pc \notin {"tenant", "prep"} => active \subseteq all_subnet_hints.devices
        /\ pc \in AfterMembers \/ service = snapshot
        /\ pc \in AfterMonitorsDeleted \/ service["healthmonitor"] = snapshot["healthmonitor"]
        /\ pc \in AfterPoolsDeleted \/ service["pool"] = snapshot["pool"]
        /\ \A o \in Kept : service[o] = snapshot[o]
        /\ \A o \in Kinds \ {"member"} :
               service[o] \in {snapshot[o]} \cup {t \in {"ERROR"} : snapshot[o] = "PENDING_DELETE"}
        /\ \A d \in steady : Restored(d)

\* A phase of a sync restores its objects, and refuses nothing.
LEMMA SyncPhase ==
    ASSUME HandlerTypeOK, SyncInv, Phase
    PROVE  SyncInv'
<1>0. /\ service \in [Kinds -> Statuses] /\ snapshot \in [Kinds -> Statuses]
      /\ content \in [Devices -> SUBSET Items]
      /\ steady \subseteq active /\ active \subseteq Devices
  BY DEF HandlerTypeOK
<1> USE <1>0
    DEF IsTree, SyncInv, InSync, Restored, Kept, Fault, fixedVars, flagVars, Kinds, Goto,
        AfterLoadbalancerDeleted, AfterMonitorsDeleted, AfterPoolsDeleted,
        AfterListenersDeleted, AfterListeners, AfterMembers, AfterPools, AfterMonitors,
        AfterLoadbalancer
<1>2. ASSUME NEW faulty \in SUBSET active, AssureTenantCreated(faulty)
      PROVE  SyncInv'
  BY <1>2 DEF AssureTenantCreated
<1>3. ASSUME NEW faulty \in SUBSET active, NEW silent \in SUBSET active,
             AssureLoadbalancerCreated(faulty, silent)
      PROVE  SyncInv'
  BY <1>3 DEF AssureLoadbalancerCreated, Configure, ErrorIf, HintsMissing, const_status,
              sync_status, Statuses
<1>4. ASSUME NEW faulty \in SUBSET active, AssureMonitorsCreated(faulty)
      PROVE  SyncInv'
  BY <1>4 DEF AssureMonitorsCreated, Configure, ErrorIf, const_status, sync_status, Statuses
<1>5. ASSUME NEW faulty \in SUBSET active, AssurePoolsCreated(faulty)
      PROVE  SyncInv'
  BY <1>5 DEF AssurePoolsCreated, Configure, const_status, sync_status, Statuses,
              PoolItems, RefusesPool, Named, PoolToMonitor
<1>6. ASSUME NEW faulty \in SUBSET active, AssureMembers(faulty)
      PROVE  SyncInv'
  <2> SUFFICES ASSUME InSync' PROVE SyncInv'
    BY DEF SyncInv
  <2>1. InSync /\ pc = "members" /\ faulty = {}
    BY <1>6 DEF AssureMembers
  <2>2. ~HintsMissing /\ active' = active /\ steady' = steady /\ content' = content
        /\ snapshot' = snapshot
    BY <1>6, <2>1 DEF AssureMembers, HintsMissing
  <2>3. pc' = "listeners"
    BY <1>6, <2>2 DEF AssureMembers
  <2>4. \A o \in Kinds \ {"member"} : service'[o] = service[o]
    BY <1>6 DEF AssureMembers
  <2>5. ASSUME "member" \in Kept
        PROVE  service'["member"] = service["member"]
    <3>1. "pool" \in Kept /\ service["pool"] # "PENDING_DELETE"
      BY <2>1, <2>5
    <3>2. {d \in active : ~({"pool", "member"} \subseteq content[d])} = {}
      BY <2>1, <2>5, <3>1
    <3> QED
      BY <1>6, <2>1, <3>1, <3>2 DEF AssureMembers
  <2> QED
    BY <1>6, <2>1, <2>2, <2>3, <2>4, <2>5 DEF AssureMembers
<1>7. ASSUME NEW faulty \in SUBSET active, AssureListenersCreated(faulty)
      PROVE  SyncInv'
  BY <1>7 DEF AssureListenersCreated, Configure, const_status, sync_status, Statuses,
              ListenerItems, RefusesListener, Named, ListenerToPool, PoolToMonitor
<1>8. ASSUME NEW faulty \in SUBSET active, AssureListenersDeleted(faulty)
      PROVE  SyncInv'
  BY <1>8 DEF AssureListenersDeleted, Configure, ErrorIf, ListenerToPool, PoolToMonitor
<1>9. ASSUME NEW faulty \in SUBSET active, AssurePoolsDeleted(faulty)
      PROVE  SyncInv'
  BY <1>9 DEF AssurePoolsDeleted, KeepsPool, Configure, ErrorIf, ListenerToPool, PoolToMonitor
<1>10. ASSUME NEW faulty \in SUBSET active, AssureMonitorsDeleted(faulty)
       PROVE  SyncInv'
  BY <1>10 DEF AssureMonitorsDeleted, Configure, ErrorIf, ListenerToPool, PoolToMonitor
<1>11. ASSUME NEW faulty \in SUBSET active, NEW done \in SUBSET active,
              AssureLoadbalancerDeleted(faulty, done)
       PROVE  SyncInv'
  BY <1>11 DEF AssureLoadbalancerDeleted, Configure, Finally, ListenerToPool, PoolToMonitor
<1>12. ASSUME NEW outcome \in {"connected", "not_ready", "failed"},
              PrepServiceNetworking(outcome)
       PROVE  SyncInv'
  BY <1>12 DEF PrepServiceNetworking
<1>13. ASSUME NEW outcome \in {"connected", "not_ready", "failed"},
              PrepServiceNetworkingRaises(outcome)
       PROVE  SyncInv'
  BY <1>13 DEF PrepServiceNetworkingRaises
<1>14. CASE AssureMembersRaises
  BY <1>14 DEF AssureMembersRaises
<1>15. ASSUME NEW done \in SUBSET active, AssureListenersCreatedRaises(done)
       PROVE  SyncInv'
  BY <1>15 DEF AssureListenersCreatedRaises
<1>16. ASSUME NEW fails \in BOOLEAN, PostServiceNetworking(fails)
       PROVE  SyncInv'
  BY <1>16 DEF PostServiceNetworking, Finally
<1>17. ASSUME NEW done \in SUBSET active, AssurePoolsDeletedRaises(done)
       PROVE  SyncInv'
  BY <1>17 DEF AssurePoolsDeletedRaises
<1> QED
  BY ONLY Phase, <1>2, <1>3, <1>4, <1>5, <1>6, <1>7, <1>8, <1>9, <1>10, <1>11,
          <1>12, <1>13, <1>14, <1>15, <1>16, <1>17 DEF Phase

\* A sync begins with a service of any kind, as long as its members have a pool.
LEMMA BeginSync ==
    ASSUME NEW r \in Requests, NEW s \in [Kinds -> Statuses], IsTree(s), Begin(r, s)
    PROVE  SyncInv'
<1>1. r = "sync" => WithTarget(r, s) = s
  BY TargetStatus
<1>2. /\ pc' = "tenant" /\ request' = r /\ service' = WithTarget(r, s) /\ snapshot' = s
      /\ to_sync' = (to_sync \/ r = "sync") /\ active' = active /\ steady' = active
  BY DEF Begin, Goto
<1> QED
  BY ONLY <1>1, <1>2, IsTree(s)
     DEF SyncInv, InSync, IsTree, Kept, Restored, AfterLoadbalancerDeleted,
         AfterMonitorsDeleted, AfterPoolsDeleted, AfterListenersDeleted, AfterListeners,
         AfterMembers, AfterPools, AfterMonitors, AfterLoadbalancer, Kinds

\* Between two requests the invariant says nothing.
LEMMA IdleSync ==
    ASSUME pc' = "idle"
    PROVE  SyncInv'
BY DEF SyncInv, InSync, AfterLoadbalancer, AfterMonitors, AfterPools, AfterMembers,
       AfterListeners, AfterListenersDeleted, AfterPoolsDeleted, AfterMonitorsDeleted,
       AfterLoadbalancerDeleted

\* Every step of the handler and of the devices keeps the invariant of the sync.
LEMMA SyncStep ==
    ASSUME HandlerTypeOK, SyncInv, Handler \/ DeviceChange \/ UNCHANGED observedVars
    PROVE  SyncInv'
<1> USE DEF InSync, AfterLoadbalancerDeleted, AfterMonitorsDeleted, AfterPoolsDeleted,
        AfterListenersDeleted, AfterListeners, AfterMembers, AfterPools, AfterMonitors,
        AfterLoadbalancer
<1>2. CASE Phase
  BY <1>2, SyncPhase
<1>3. CASE AssureTenantCleanup
  BY <1>3 DEF AssureTenantCleanup, Goto, SyncInv, Kept, Restored, flagVars, historyVars
<1>4. CASE UpdateChildrenStatus \/ UpdateLoadbalancerStatus \/ Return
  BY <1>4 DEF UpdateChildrenStatus, UpdateLoadbalancerStatus, Return, Goto, SyncInv
<1>5. ASSUME NEW d \in Devices, DeviceRecovered(d)
      PROVE  SyncInv'
  BY <1>5 DEF DeviceRecovered, handlerVars, SyncInv
<1>6. ASSUME NEW d \in Devices, NEW items \in SUBSET Items, DeviceLost(d, items)
      PROVE  SyncInv'
  BY <1>6 DEF DeviceLost, handlerVars, SyncInv, Kept, Restored, HandlerTypeOK
<1>7. CASE UNCHANGED observedVars
  BY <1>7 DEF observedVars, handlerVars, SyncInv, Kept, Restored
<1> QED
  BY ONLY Handler \/ DeviceChange \/ UNCHANGED observedVars, <1>2, <1>3, <1>4, <1>5, <1>6, <1>7
     DEF Handler, DeviceChange

\* It holds before the first request.
LEMMA InitSync == HandlerInit => SyncInv
BY DEF HandlerInit, SyncInv, InSync, AfterLoadbalancer, AfterMonitors, AfterPools,
       AfterMembers, AfterListeners, AfterListenersDeleted, AfterPoolsDeleted,
       AfterMonitorsDeleted, AfterLoadbalancerDeleted

\* What the invariant says of the report.
LEMMA SyncInvRestores == HandlerTypeOK /\ SyncInv => SyncRestoresService
<1> SUFFICES ASSUME SyncInv, HandlerTypeOK, request = "sync", pc = "report", ~faulted
             PROVE  /\ \A o \in Kept : service[o] = "ERROR" => snapshot[o] = "ERROR"
                    /\ \A d \in steady :
                           /\ Kept \subseteq content[d]
                           /\ {"listener", "pool"} \subseteq Kept =>
                                  ListenerToPool \in content[d]
                           /\ {"pool", "healthmonitor"} \subseteq Kept =>
                                  PoolToMonitor \in content[d]
  BY DEF SyncRestoresService, Kept
<1>1. InSync
  BY DEF InSync, AfterLoadbalancer, AfterMonitors, AfterPools, AfterMembers,
         AfterListeners, AfterListenersDeleted, AfterPoolsDeleted, AfterMonitorsDeleted,
         AfterLoadbalancerDeleted
<1>2. "member" \in Kept => "pool" \in Kept
  BY <1>1 DEF SyncInv, IsTree, Kept, Kinds
<1> QED
  BY <1>1, <1>2 DEF SyncInv, Restored, Kept, Kinds, AfterLoadbalancer, AfterMonitors,
         AfterPools, AfterMembers, AfterListeners, AfterListenersDeleted,
         AfterPoolsDeleted, AfterMonitorsDeleted, AfterLoadbalancerDeleted

\* A sync in which nothing failed restores every object that is kept, and the references
\* between them, on every device that stayed.
THEOREM HandlerRestores == HandlerSpec => []SyncRestoresService
<1>1. HandlerInit => HandlerTypeOK /\ SyncInv
  BY InitType, InitSync
<1>2. HandlerTypeOK /\ SyncInv /\ [HandlerNext]_serviceVars => (HandlerTypeOK /\ SyncInv)'
  <2> SUFFICES ASSUME HandlerTypeOK, SyncInv, [HandlerNext]_serviceVars PROVE SyncInv'
    BY NextType
  <2>1. ASSUME NEW r \in Requests, NEW s \in Snapshots(r), Begin(r, s)
        PROVE  SyncInv'
    BY <2>1, SnapshotType, BeginSync
  <2> QED
    BY <2>1, SyncStep DEF HandlerNext, serviceVars, historyVars, observedVars
<1>3. HandlerTypeOK /\ SyncInv => SyncRestoresService
  BY SyncInvRestores
<1> QED
  BY <1>1, <1>2, <1>3, PTL DEF HandlerSpec

-------------------------------------------------------------------------------
(* The report and the snapshot.  The object that the report is about keeps the   *)
(* status that Neutron gave it, or is in ERROR, or has been settled.             *)

Answers(o) ==
    /\ service[o] \in positive_plugin_const_state => snapshot[o] \in positive_plugin_const_state
    /\ service[o] = "PENDING_DELETE" /\ ~(o = "member" /\ parent_pool_deleted) =>
           snapshot[o] = "PENDING_DELETE"

AnswerInv ==
    /\ pc \in BeforeMembers \cup {"members"} => parent_pool_deleted = FALSE
    /\ pc # "idle" => \A o \in ReportedKinds \cup {"loadbalancer"} : Answers(o)
    /\ ReportAnswersSnapshot

LEMMA ReportedAreKinds ==
    ASSUME request \in Requests
    PROVE  ReportedKinds \subseteq Kinds
BY DEF ReportedKinds, Requests, Kinds

\* The object that a request is about begins with the status of the snapshot.
LEMMA BeginAnswers ==
    ASSUME NEW r \in Requests, NEW s \in [Kinds -> Statuses], Begin(r, s)
    PROVE  AnswerInv'
<1>1. /\ pc' = "tenant" /\ request' = r /\ service' = WithTarget(r, s) /\ snapshot' = s
      /\ parent_pool_deleted' = FALSE /\ reported' = NoReport
  BY DEF Begin, Goto
<1>2. \A o \in ReportedKinds' \cup {"loadbalancer"} : service'[o] = s[o]
  BY <1>1, TargetStatus DEF ReportedKinds, Requests, Kinds
<1> QED
  BY <1>1, <1>2 DEF AnswerInv, Answers, ReportAnswersSnapshot, NoReport

\* Between two requests nothing is reported.
LEMMA IdleAnswers ==
    ASSUME pc' = "idle", reported' = NoReport
    PROVE  AnswerInv'
BY DEF AnswerInv, ReportAnswersSnapshot, NoReport, BeforeMembers

\* A phase leaves the statuses answers to the snapshot.
LEMMA PhaseAnswers ==
    ASSUME HandlerTypeOK, AnswerInv, Phase
    PROVE  AnswerInv'
<1>0. /\ service \in [Kinds -> Statuses] /\ request \in Requests
      /\ request' = request /\ snapshot' = snapshot /\ reported' = reported
      /\ pc # "idle"
  BY DEF HandlerTypeOK, Phase, fixedVars, flagVars, Goto, AssureTenantCreated,
         AssureLoadbalancerCreated, AssureMonitorsCreated, AssurePoolsCreated, AssureMembers,
         AssureListenersCreated, AssureListenersDeleted, AssurePoolsDeleted,
         AssureMonitorsDeleted, AssureLoadbalancerDeleted, PrepServiceNetworking,
         PrepServiceNetworkingRaises, AssureMembersRaises, AssureListenersCreatedRaises,
         AssurePoolsDeletedRaises, PostServiceNetworking
<1>1. ReportAnswersSnapshot' /\ ReportedKinds' = ReportedKinds
  BY <1>0 DEF AnswerInv, ReportAnswersSnapshot, ReportedKinds
<1>2. /\ pc' \in BeforeMembers \cup {"members"} => parent_pool_deleted' = FALSE
      /\ \A o \in Kinds : Answers(o) => Answers(o)'
  <2>1. ASSUME \A o \in Kinds : service'[o] \in {service[o], "ERROR"},
               parent_pool_deleted' = parent_pool_deleted
        PROVE  \A o \in Kinds : Answers(o) => Answers(o)'
    BY <1>0, <2>1 DEF Answers, positive_plugin_const_state
  <2>2. CASE \E faulty \in SUBSET active : AssureMembers(faulty)
    BY <1>0, <2>2 DEF AssureMembers, AnswerInv, Answers, Goto, Finally, BeforeMembers,
                      positive_plugin_const_state
  <2>3. CASE ~\E faulty \in SUBSET active : AssureMembers(faulty)
    \* Every other phase leaves a status as it is, or sets it to ERROR.
    <3> USE <1>0, <2>3 DEF BeforeMembers, fixedVars, flagVars, Kinds, Goto, Finally
    <3> DEFINE OnlyErrors ==
                   /\ \A o \in Kinds : service'[o] \in {service[o], "ERROR"}
                   /\ parent_pool_deleted' = parent_pool_deleted
                   /\ pc' \in BeforeMembers \cup {"members"} =>
                          pc \in BeforeMembers \cup {"members"}
    <3>1. ASSUME \E faulty \in SUBSET active :
                     \/ AssureTenantCreated(faulty)
                     \/ \E silent \in SUBSET active : AssureLoadbalancerCreated(faulty, silent)
                     \/ AssureMonitorsCreated(faulty)
                     \/ AssurePoolsCreated(faulty)
          PROVE  OnlyErrors
      BY <3>1 DEF AssureTenantCreated, AssureLoadbalancerCreated, AssureMonitorsCreated,
                  AssurePoolsCreated, ErrorIf, LoadbalancerError
    <3>2. ASSUME \/ AssureMembersRaises
                 \/ \E faulty \in SUBSET active :
                        \/ AssureListenersCreated(faulty)
                        \/ AssureListenersDeleted(faulty)
                        \/ AssurePoolsDeleted(faulty)
                        \/ AssureMonitorsDeleted(faulty)
          PROVE  OnlyErrors
      BY <3>2 DEF AssureMembersRaises, AssureListenersCreated, AssureListenersDeleted,
                  AssurePoolsDeleted, AssureMonitorsDeleted, ErrorIf
    <3>3. ASSUME \/ \E faulty, done \in SUBSET active : AssureLoadbalancerDeleted(faulty, done)
                 \/ \E done \in SUBSET active :
                        AssureListenersCreatedRaises(done) \/ AssurePoolsDeletedRaises(done)
          PROVE  OnlyErrors
      BY <3>3 DEF AssureLoadbalancerDeleted, AssureListenersCreatedRaises,
                  AssurePoolsDeletedRaises
    <3>4. ASSUME \E outcome \in {"connected", "not_ready", "failed"} :
                     PrepServiceNetworking(outcome) \/ PrepServiceNetworkingRaises(outcome)
          PROVE  OnlyErrors
      BY <3>4 DEF PrepServiceNetworking, PrepServiceNetworkingRaises, LoadbalancerError
    <3>5. ASSUME \E fails \in BOOLEAN : PostServiceNetworking(fails)
          PROVE  OnlyErrors
      BY <3>5 DEF PostServiceNetworking, LoadbalancerError
    <3>6. OnlyErrors
      BY ONLY Phase, <2>3, <3>1, <3>2, <3>3, <3>4, <3>5 DEF Phase
    <3> HIDE DEF OnlyErrors
    <3>7. OnlyErrors => (pc' \in BeforeMembers \cup {"members"} => parent_pool_deleted' = FALSE)
      BY DEF OnlyErrors, AnswerInv
    <3> QED
      BY ONLY <2>1, <3>6, <3>7 DEF OnlyErrors
  <2> QED
    BY <2>2, <2>3
<1> QED
  BY <1>0, <1>1, <1>2, ReportedAreKinds DEF AnswerInv, Kinds

\* Every step of the handler and of the devices keeps the invariant of the answers.
LEMMA AnswerStep ==
    ASSUME HandlerTypeOK, AnswerInv, Handler \/ DeviceChange \/ UNCHANGED observedVars
    PROVE  AnswerInv'
<1>1. CASE Phase
  BY <1>1, PhaseAnswers
<1>2. CASE AssureTenantCleanup
  BY <1>2 DEF AssureTenantCleanup, Goto, flagVars, historyVars, AnswerInv, Answers,
              ReportedKinds, ReportAnswersSnapshot, BeforeMembers
<1>3. ASSUME NEW told \in SUBSET (ReportedKinds \cup {"loadbalancer"}), pc # "idle",
             reported' = [o \in Kinds |-> IF o \in told THEN StatusToReport(o) ELSE reported[o]],
             service' = Settled(told),
             UNCHANGED <<request, snapshot, parent_pool_deleted>>,
             pc' \notin BeforeMembers \cup {"members"}
      PROVE  AnswerInv'
  <2>1. \A o \in ReportedKinds \cup {"loadbalancer"} : o \in Kinds /\ Answers(o)
    BY <1>3, ReportedAreKinds DEF AnswerInv, HandlerTypeOK, Kinds
  <2>2. ReportedKinds' = ReportedKinds
    BY <1>3 DEF ReportedKinds
  <2>3. \A o \in ReportedKinds \cup {"loadbalancer"} : Answers(o)'
    BY <1>3, <2>1 DEF Answers, Settled, positive_plugin_const_state
  <2>4. ReportAnswersSnapshot'
    BY <1>3, <2>1 DEF AnswerInv, ReportAnswersSnapshot, Answers, StatusToReport,
                      positive_plugin_const_state
  <2> QED
    BY <1>3, <2>2, <2>3, <2>4 DEF AnswerInv
<1>4. CASE UpdateChildrenStatus
  <2> DEFINE told == IF do_service_update THEN ReportedKinds ELSE {}
  <2>1. /\ reported' = [o \in Kinds |-> IF o \in told THEN StatusToReport(o) ELSE reported[o]]
        /\ service' = Settled(told) /\ pc = "report" /\ pc' = "report_lb"
        /\ UNCHANGED <<request, snapshot, parent_pool_deleted>>
    BY <1>4 DEF UpdateChildrenStatus, Goto, fixedVars
  <2>2. told \in SUBSET (ReportedKinds \cup {"loadbalancer"})
    OBVIOUS
  <2> QED
    BY ONLY <1>3, <2>1, <2>2 DEF BeforeMembers
<1>5. CASE UpdateLoadbalancerStatus
  <2> DEFINE told == IF do_service_update THEN {"loadbalancer"} ELSE {}
  <2>1. /\ reported' = [o \in Kinds |-> IF o \in told THEN StatusToReport(o) ELSE reported[o]]
        /\ service' = Settled(told) /\ pc = "report_lb" /\ pc' = "return"
        /\ UNCHANGED <<request, snapshot, parent_pool_deleted>>
    BY <1>5 DEF UpdateLoadbalancerStatus, Goto, historyVars
  <2>2. told \in SUBSET (ReportedKinds \cup {"loadbalancer"})
    OBVIOUS
  <2> QED
    BY ONLY <1>3, <2>1, <2>2 DEF BeforeMembers
<1>6. CASE Return
  BY <1>6, IdleAnswers DEF Return, Goto
<1>7. CASE DeviceChange \/ UNCHANGED observedVars
  BY <1>7 DEF DeviceChange, DeviceRecovered, DeviceLost, observedVars, handlerVars,
              AnswerInv, Answers, ReportedKinds, ReportAnswersSnapshot
<1> QED
  BY ONLY Handler \/ DeviceChange \/ UNCHANGED observedVars, <1>1, <1>2, <1>4, <1>5, <1>6, <1>7
     DEF Handler

\* It holds before the first request.
LEMMA InitAnswers == HandlerInit => AnswerInv
BY DEF HandlerInit, AnswerInv, ReportAnswersSnapshot, NoReport, BeforeMembers

\* An object is reported destroyed only when Neutron wanted it to go, and ACTIVE only when
\* Neutron was waiting for that.
THEOREM HandlerAnswers == HandlerSpec => []ReportAnswersSnapshot
<1>1. HandlerInit => HandlerTypeOK /\ AnswerInv
  BY InitType, InitAnswers
<1>2. HandlerTypeOK /\ AnswerInv /\ [HandlerNext]_serviceVars => (HandlerTypeOK /\ AnswerInv)'
  <2> SUFFICES ASSUME HandlerTypeOK, AnswerInv, [HandlerNext]_serviceVars PROVE AnswerInv'
    BY NextType
  <2>1. ASSUME NEW r \in Requests, NEW s \in Snapshots(r), Begin(r, s)
        PROVE  AnswerInv'
    BY <2>1, SnapshotType, BeginAnswers
  <2> QED
    BY <2>1, AnswerStep DEF HandlerNext, serviceVars, historyVars, observedVars
<1>3. AnswerInv => ReportAnswersSnapshot
  BY DEF AnswerInv
<1> QED
  BY <1>1, <1>2, <1>3, PTL DEF HandlerSpec

===============================================================================
