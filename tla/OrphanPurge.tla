------------------------------ MODULE OrphanPurge ------------------------------
(***************************************************************************)
(* The purge of orphaned objects by the clusterwide agent: a sequence of     *)
(* calls to the driver that each list or delete, with questions to Neutron   *)
(* between them.  Only the single calls are serialized, so requests of this  *)
(* agent run between any two of them; another agent of the group, which uses *)
(* the same devices, is not stopped by the queue of this one at all.         *)
(*                                                                           *)
(* All load balancers belong to one tenant and so to one folder.  Each has   *)
(* at most one listener, which uses its pool and its policy, and one monitor. *)
(* Neutron and the devices are external.                                     *)
(***************************************************************************)
EXTENDS FiniteSets, Integers

CONSTANTS Loadbalancers, Devices,
          MaxOps,      \* bound: operations of the tenant in a behaviour
          MaxFaults    \* bound: calls to a device or to Neutron that fail

ASSUME BoundsAssumption == MaxOps \in Nat /\ MaxFaults \in Nat /\ "none" \notin Loadbalancers

Kinds == {"address", "listener", "pool", "monitor", "policy"}
Objects == Kinds \X Loadbalancers
References == {"listener_pool", "listener_policy", "pool_monitor"} \X Loadbalancers
Folder == <<"folder", "tenant">>
Items == Objects \cup References \cup ({"node"} \X Loadbalancers) \cup {Folder}

VARIABLES
    known,     \* objects in Neutron's database
    fresh,     \* objects that were never in it: an id is not used twice
    waiting,   \* objects whose deployment was cast and has not run
    content,   \* items on each device
    foreign,   \* the load balancer for which another agent has assured the folder
    at,        \* the next call of clean_orphaned_objects_and_save_device_config
    scan,      \* devices that this call has not looked at
    listed,    \* what was listed: objects and the devices they were listed on
    bare,      \* load balancers listed without hostnames
    todo,      \* objects to purge
    used,      \* the monitors or policies that the second list names
    answered,  \* the policies that Neutron knows of, by listener
    li_id,     \* the last load balancer whose listener the loop has seen
    ops, faults

purgeVars == <<at, scan, listed, bare, todo, used, answered, li_id>>
neutronVars == <<known, fresh, waiting, ops>>
vars == <<neutronVars, content, foreign, purgeVars, faults>>

Costs(failure) ==
    /\ failure => faults < MaxFaults
    /\ faults' = IF failure THEN faults + 1 ELSE faults

-------------------------------------------------------------------------------
(* What a device does, and Neutron.                                             *)

Of(o, kind) == <<kind, o[2]>>

\* A device does not delete what is in use.
InUse(c, o) ==
    CASE o[1] = "address" -> Of(o, "listener") \in c
      [] o[1] = "pool" -> Of(o, "listener_pool") \in c
      [] o[1] = "monitor" -> Of(o, "pool_monitor") \in c
      [] o[1] = "policy" -> Of(o, "listener_policy") \in c
      [] o[1] = "node" -> Of(o, "pool") \in c
      [] OTHER -> FALSE

\* An object takes its references along.
Without(c, o) ==
    c \ ({o} \cup CASE o[1] = "listener" -> {Of(o, "listener_pool"), Of(o, "listener_policy")}
                    [] o[1] = "pool" -> {Of(o, "pool_monitor")}
                    [] OTHER -> {})

Deleted(c, o) == IF InUse(c, o) THEN c ELSE Without(c, o)

\* Objects that go from the database with o.
Below(o) ==
    {o} \cup {Of(o, k) : k \in CASE o[1] = "address" -> Kinds
                                 [] o[1] = "listener" -> {"policy"}
                                 [] o[1] = "pool" -> {"monitor"}
                                 [] OTHER -> {}}

Parent(o) == Of(o, CASE o[1] = "policy" -> "listener" [] o[1] = "monitor" -> "pool"
                     [] OTHER -> "address")

\* What a deployment brings onto a device that has the object's parent.
Deployed(c, o) ==
    c \cup CASE o[1] = "address" -> {Folder, o}
             [] o[1] = "pool" -> {o, Of(o, "node")}
             [] o[1] = "listener" -> {o} \cup ({Of(o, "listener_pool")} \cap
                                              {r \in References : Of(r, "pool") \in c})
             [] o[1] = "policy" -> {o, Of(o, "listener_policy")}
             [] o[1] = "monitor" -> {o, Of(o, "pool_monitor")}

\* Everything of a load balancer.
Tree(lb) == {i \in Items : i[2] = lb} \cup {Folder}

Init ==
    /\ \E deployed \in SUBSET Loadbalancers :
          /\ known = Kinds \X deployed
          /\ content = [d \in Devices |-> UNION {Tree(lb) : lb \in deployed}]
          /\ fresh = Objects \ known
    /\ waiting = {}
    /\ foreign = "none"
    /\ at = "loadbalancers"
    /\ scan = Devices
    /\ listed = {}
    /\ bare = {}
    /\ todo = {}
    /\ used = {}
    /\ answered = {}
    /\ li_id = "none"
    /\ ops = 0
    /\ faults = 0

-------------------------------------------------------------------------------
(* The tenant's operations, and the requests that this agent serves between two  *)
(* calls of the purge.                                                           *)

Create(o) ==
    /\ ops < MaxOps
    /\ o \in fresh
    /\ o[1] = "address" \/ Parent(o) \in known
    /\ known' = known \cup {o}
    /\ fresh' = fresh \ {o}
    /\ waiting' = waiting \cup {o}
    /\ ops' = ops + 1
    /\ UNCHANGED <<content, foreign, purgeVars, faults>>

\* The object goes from the database; the cast that would remove it is lost.
Forget(o) ==
    /\ ops < MaxOps
    /\ o \in known
    /\ known' = known \ Below(o)
    /\ ops' = ops + 1
    /\ UNCHANGED <<fresh, waiting, content, foreign, purgeVars, faults>>

\* One request of this agent, as one turn of the queue.  A monitor may be created and
\* not attached; an address may be missing although its folder was made.
Deploy(o, partly) ==
    /\ at # "sleeping"
    /\ o \in waiting
    /\ Costs(partly)
    /\ waiting' = waiting \ {o}
    /\ content' = [d \in Devices |->
          IF o[1] # "address" /\ Parent(o) \notin content[d] THEN content[d]
          ELSE IF ~partly THEN Deployed(content[d], o)
          ELSE content[d] \cup CASE o[1] = "address" -> {Folder}
                                 [] o[1] = "monitor" -> {o}
                                 [] OTHER -> {}]
    /\ UNCHANGED <<known, fresh, ops, foreign, purgeVars>>

\* Another agent assures the folder, and later creates the address.
ForeignFolder(o) ==
    /\ foreign = "none"
    /\ o \in waiting
    /\ o[1] = "address"
    /\ content' = [d \in Devices |-> content[d] \cup {Folder}]
    /\ foreign' = o[2]
    /\ waiting' = waiting \ {o}
    /\ UNCHANGED <<known, fresh, ops, purgeVars, faults>>

ForeignAddress ==
    /\ foreign # "none"
    /\ content' = [d \in Devices |->
          IF Folder \in content[d] THEN content[d] \cup {<<"address", foreign>>}
          ELSE content[d]]
    /\ foreign' = "none"
    /\ UNCHANGED <<neutronVars, purgeVars, faults>>

-------------------------------------------------------------------------------
(* The calls of the purge.                                                      *)

GoTo(step, list, purged) ==
    /\ at' = step
    /\ scan' = Devices
    /\ listed' = list
    /\ todo' = purged
    /\ bare' = {}
    /\ UNCHANGED <<used, answered, li_id>>

\* A round ends: the configuration is saved, or an exception is logged.
NextRound == GoTo("loadbalancers", {}, {})

\* The first device of a set in the order of get_all_bigips.
FirstOf(ds) == CHOOSE d \in ds : TRUE

OnDevices(kind) == {p \in (({kind} \X Loadbalancers) \X Devices) : p[1] \in content[p[2]]}
ListedOn(o) == {d \in Devices : <<o, d>> \in listed}

\* The objects of a list that Neutron calls 'Unknown'; none when the question is lost.
Unknown(list, lost) == IF lost THEN {} ELSE {p[1] : p \in list} \ known

\* The devices on which an object was listed get the content that the purge leaves them;
\* what fails on one is logged, and the next follows.
OnListed(o, after) ==
    /\ content' = [d \in Devices |-> IF d \in ListedOn(o) THEN after[d] ELSE content[d]]
    /\ UNCHANGED <<neutronVars, foreign>>

PurgeNext(o, step) ==
    IF todo = {o} THEN GoTo(step, {}, {})
    ELSE /\ todo' = todo \ {o}
         /\ UNCHANGED <<at, scan, listed, bare, used, answered, li_id>>

-------------------------------------------------------------------------------
(* get_all_deployed_loadbalancers: one turn of the queue, one device after the   *)
(* other.  A folder without an address is looked at again after some seconds,    *)
(* "to assure we are not in the tenant creation process".                        *)

ScansLoadbalancers == at \in {"loadbalancers", "loadbalancers_again"} /\ scan # {}
Scanned == FirstOf(scan)
AddressesOn(d) == {p \in OnDevices("address") : p[2] = d}

ListLoadbalancers ==
    /\ ScansLoadbalancers
    /\ AddressesOn(Scanned) # {} \/ Folder \notin content[Scanned]
    /\ {p[1] : p \in AddressesOn(Scanned)} \cap bare = {}
    /\ scan' = scan \ {Scanned}
    /\ listed' = listed \cup AddressesOn(Scanned)
    /\ UNCHANGED <<neutronVars, content, foreign, at, bare, todo, used, answered, li_id,
                   faults>>

\* A load balancer was listed without its hostnames before: a KeyError.
ListWithoutHostnames ==
    /\ ScansLoadbalancers
    /\ {p[1] : p \in AddressesOn(Scanned)} \cap bare # {}
    /\ NextRound
    /\ UNCHANGED <<neutronVars, content, foreign, faults>>

Sleep ==
    /\ ScansLoadbalancers
    /\ AddressesOn(Scanned) = {}
    /\ Folder \in content[Scanned]
    /\ at' = IF at = "loadbalancers" THEN "sleeping" ELSE "sleeping_again"
    /\ UNCHANGED <<neutronVars, content, foreign, scan, listed, bare, todo, used, answered,
                   li_id, faults>>

\* The order in which purge_folder_contents and purge_folder delete.
StageOf(i) ==
    CASE i[1] \in {"listener", "listener_pool", "listener_policy"} -> 1
      [] i[1] = "address" -> 2
      [] i[1] \in {"pool", "pool_monitor"} -> 3
      [] i[1] = "monitor" -> 4
      [] i[1] = "node" -> 5
      [] i[1] = "policy" -> 6
      [] i[1] = "folder" -> 7

\* The only folder is purged; a request that fails leaves what comes after it, and of its
\* own stage what is of the load balancers in "left".
PurgedFolder(c, failing, left) ==
    IF failing = 0 THEN {}
    ELSE {i \in c : \/ StageOf(i) > failing
                    \/ StageOf(i) = failing /\ (i = Folder \/ i[2] \in left)}

\* The delay is long enough for another agent that is creating an address.  Addresses
\* that appeared are listed without hostnames, and replace what other devices said; the
\* folder is purged otherwise, with everything in it.  A failure of that is logged.
WakeUp(failing, left) ==
    LET appeared == {p[1] : p \in AddressesOn(Scanned)} IN
    /\ at \in {"sleeping", "sleeping_again"}
    /\ foreign = "none"
    /\ failing # 0 => appeared = {}
    /\ Costs(failing # 0)
    /\ at' = IF at = "sleeping" THEN "loadbalancers" ELSE "loadbalancers_again"
    /\ scan' = scan \ {Scanned}
    /\ bare' = bare \cup appeared
    /\ listed' = {p \in listed : p[1] \notin appeared}
    /\ content' = IF appeared # {} THEN content
                  ELSE [content EXCEPT ![Scanned] = PurgedFolder(@, failing, left)]
    /\ UNCHANGED <<neutronVars, foreign, todo, used, answered, li_id>>

AskLoadbalancers(lost) ==
    LET unknown == Unknown(listed, lost) \cup (IF lost THEN {} ELSE bare \ known) IN
    /\ at = "loadbalancers"
    /\ scan = {}
    /\ Costs(lost)
    /\ IF unknown = {} THEN GoTo("listeners", {}, {})
       ELSE /\ at' = "purge_loadbalancers"
            /\ todo' = unknown
            /\ UNCHANGED <<scan, listed, bare, used, answered, li_id>>
    /\ UNCHANGED <<neutronVars, content, foreign>>

FinishLoadbalancers ==
    /\ at = "loadbalancers_again"
    /\ scan = {}
    /\ GoTo("listeners", {}, {})
    /\ UNCHANGED <<neutronVars, content, foreign, faults>>

\* Slip: the destination of a virtual server is not compared with the address.
PurgedWithAllListeners(c, o, steps) ==
    IF o \in c /\ steps > 0
    THEN c \ {i \in Items : i[1] \in {"listener", "listener_pool", "listener_policy"}} ELSE c

\* purge_orphaned_loadbalancer: its virtual servers, each with its pool, and then the
\* address; a failure leaves what comes after it.
PurgedLoadbalancer(c, o, steps) ==
    LET pool == Of(o, "listener_pool") \in c
        listener == IF steps > 0 THEN Without(c, Of(o, "listener")) ELSE c
        both == IF steps > 1 /\ pool THEN Without(listener, Of(o, "pool")) ELSE listener
    IN  IF o \notin c THEN c ELSE IF steps > 2 THEN Deleted(both, o) ELSE both

PurgeLoadbalancer(o, failed, steps) ==
    /\ at = "purge_loadbalancers"
    /\ o \in todo \ bare
    /\ Costs(failed # {})
    /\ OnListed(o, [d \in Devices |->
                       PurgedLoadbalancer(content[d], o, IF d \in failed THEN steps ELSE 3)])
    /\ PurgeNext(o, "loadbalancers_again")

\* It was listed without its hostnames: a KeyError.
PurgeWithoutHostnames ==
    /\ at = "purge_loadbalancers"
    /\ todo \cap bare # {}
    /\ NextRound
    /\ UNCHANGED <<neutronVars, content, foreign, faults>>

-------------------------------------------------------------------------------
(* Listeners, then policies.                                                    *)

\* A list, and what Neutron says of it.
ListUnknown(kind, step, next, lost) ==
    LET unknown == Unknown(OnDevices(kind), lost) IN
    /\ Costs(lost)
    /\ IF unknown = {} THEN GoTo(next, {}, {}) ELSE GoTo(step, OnDevices(kind), unknown)
    /\ UNCHANGED <<neutronVars, content, foreign>>

ListListeners(lost) ==
    at = "listeners" /\ ListUnknown("listener", "purge_listeners", "policies", lost)

\* A device that fails keeps the object.
DeletedExcept(failed, o) ==
    [d \in Devices |-> IF d \in failed THEN content[d] ELSE Deleted(content[d], o)]

PurgeListener(o, failed) ==
    /\ at = "purge_listeners"
    /\ o \in todo
    /\ Costs(failed # {})
    /\ OnListed(o, DeletedExcept(failed, o))
    /\ PurgeNext(o, "policies")

ListPolicies ==
    /\ at = "policies"
    /\ IF OnDevices("policy") = {} THEN GoTo("pools", {}, {})
       ELSE GoTo("policy_users", OnDevices("policy"), {})
    /\ UNCHANGED <<neutronVars, content, foreign, faults>>

\* What the first device on which the referring object was listed says.
InUseOnFirst(kind, reference) ==
    {lb \in Loadbalancers :
        LET on == {d \in Devices : <<kind, lb>> \in content[d]}
        IN  on # {} /\ <<reference, lb>> \in content[FirstOf(on)]}

\* Slip: the path of a policy is taken for its name.
ListPolicyPaths(last) ==
    /\ at = "policy_users"
    /\ last \in Loadbalancers \cup {"none"}
    /\ used' = {<<"listener_policy", lb>> : lb \in InUseOnFirst("listener", "listener_policy")}
    /\ answered' = {p[1][2] : p \in OnDevices("listener")}
    /\ li_id' = last
    /\ at' = "policy_answers"
    /\ UNCHANGED <<neutronVars, content, foreign, scan, listed, bare, todo, faults>>

\* The loop over the listeners leaves one of them behind in li_id.
ListPolicyUsers(last) ==
    LET listeners == {p[1][2] : p \in OnDevices("listener")} IN
    /\ at = "policy_users"
    /\ last \in IF listeners = {} THEN {"none"} ELSE listeners
    /\ used' = {<<"policy", lb>> : lb \in InUseOnFirst("listener", "listener_policy")}
    /\ answered' = listeners
    /\ li_id' = last
    /\ at' = "policy_answers"
    /\ UNCHANGED <<neutronVars, content, foreign, scan, listed, bare, todo, faults>>

\* A delivery failure is an empty answer: no listener has policies.
AskPolicies(lost) ==
    LET has == IF lost THEN {} ELSE {lb \in answered : <<"policy", lb>> \in known}
        purged == {o \in {p[1] : p \in listed} : o \notin used \/ o[2] \notin has}
    IN  /\ at = "policy_answers"
        /\ Costs(lost)
        /\ at' = IF purged = {} THEN "pools" ELSE "purge_policies"
        /\ todo' = purged
        /\ UNCHANGED <<neutronVars, content, foreign, scan, listed, bare, used, answered,
                       li_id>>

\* A policy that is in use is first taken from a listener: the one in li_id.
Stripped(c, o) ==
    IF o \in used THEN c \ {<<"listener_policy", li_id>>} ELSE c

\* Nothing happens on a device that does not have the listener.
ListenerIsFound(c, o) == o \in used => <<"listener", li_id>> \in c

\* A policy that the device does not delete ends the round: the handler of the exception
\* refers to a name that was never bound.
PolicyRaises(o) ==
    {d \in ListedOn(o) : ListenerIsFound(content[d], o) /\ InUse(Stripped(content[d], o), o)}

\* "done" are the devices up to the one that raises, with it unless its first request was
\* the one that failed.
PurgePolicy(o, done, failed) ==
    LET raises == PolicyRaises(o) \cup (failed \cap ListedOn(o)) IN
    /\ at = "purge_policies"
    /\ o \in todo
    /\ Costs(failed # {})
    /\ done \subseteq ListedOn(o)
    /\ IF raises = {} THEN done = ListedOn(o)
       ELSE Cardinality(done \cap raises) \in (IF failed = {} THEN {1} ELSE {0, 1})
    /\ OnListed(o, [d \in Devices |->
                       IF d \notin done \/ ~ListenerIsFound(content[d], o) THEN content[d]
                       ELSE IF d \in failed THEN Stripped(content[d], o)
                       ELSE Deleted(Stripped(content[d], o), o)])
    /\ IF raises = {} THEN PurgeNext(o, "pools") ELSE NextRound

-------------------------------------------------------------------------------
(* Pools and their nodes, then monitors.                                        *)

\* Slip: the round ends when no pool is left.
ListPoolsOrStop(lost) ==
    /\ at = "pools"
    /\ Costs(lost)
    /\ IF OnDevices("pool") = {} THEN NextRound
       ELSE IF Unknown(OnDevices("pool"), lost) = {}
       THEN GoTo("nodes", OnDevices("pool"), {})
       ELSE GoTo("purge_pools", OnDevices("pool"), Unknown(OnDevices("pool"), lost))
    /\ UNCHANGED <<neutronVars, content, foreign>>

\* purge_orphaned_pools and purge_orphaned_nodes are given the same list.
ListPools(lost) ==
    /\ at = "pools"
    /\ Costs(lost)
    /\ IF OnDevices("pool") = {} THEN GoTo("monitors", {}, {})
       ELSE IF Unknown(OnDevices("pool"), lost) = {}
       THEN GoTo("nodes", OnDevices("pool"), {})
       ELSE GoTo("purge_pools", OnDevices("pool"), Unknown(OnDevices("pool"), lost))
    /\ UNCHANGED <<neutronVars, content, foreign>>

\* A pool takes the nodes of its members along, unless it is in use.
PurgedPool(c, o) ==
    IF o \notin c \/ InUse(c, o) THEN c ELSE Without(c, o) \ {Of(o, "node")}

\* The pool is kept where loading or deleting it fails; its nodes stay where that fails.
PurgePool(o, kept, failed) ==
    /\ at = "purge_pools"
    /\ o \in todo
    /\ Costs(kept \cup failed # {})
    /\ OnListed(o, [d \in Devices |-> IF d \in kept THEN content[d]
                                      ELSE IF d \in failed THEN Deleted(content[d], o)
                                      ELSE PurgedPool(content[d], o)])
    /\ todo' = todo \ {o}
    /\ at' = IF todo = {o} THEN "nodes" ELSE at
    /\ UNCHANGED <<scan, listed, bare, used, answered, li_id>>

\* Nodes that are no member of a known pool, in the tenants of the listed pools.
PurgeNodes(lost) ==
    LET members == {lb \in {p[1][2] : p \in listed} : ~lost /\ <<"pool", lb>> \in known} IN
    /\ at = "nodes"
    /\ Costs(lost)
    /\ content' = [d \in Devices |-> content[d] \
                      {n \in content[d] : n[1] = "node" /\ n[2] \notin members
                                                         /\ ~InUse(content[d], n)}]
    /\ GoTo("monitors", {}, {})
    /\ UNCHANGED <<neutronVars, foreign>>

ListMonitors ==
    /\ at = "monitors"
    /\ IF OnDevices("monitor") = {} THEN NextRound
       ELSE GoTo("monitor_users", OnDevices("monitor"), {})
    /\ UNCHANGED <<neutronVars, content, foreign, faults>>

\* Neutron is not asked: a monitor goes when no pool uses it.
ListMonitorUsers ==
    LET unused == {o \in {p[1] : p \in listed} :
                      o[2] \notin InUseOnFirst("pool", "pool_monitor")}
    IN  /\ at = "monitor_users"
        /\ IF unused = {} THEN NextRound ELSE GoTo("purge_monitors", listed, unused)
        /\ UNCHANGED <<neutronVars, content, foreign, faults>>

PurgeMonitor(o, failed) ==
    /\ at = "purge_monitors"
    /\ o \in todo
    /\ Costs(failed # {})
    /\ OnListed(o, DeletedExcept(failed, o))
    /\ PurgeNext(o, "loadbalancers")

-------------------------------------------------------------------------------
\* A list, or a question to Neutron, fails with an exception that is only logged.
RoundFails ==
    /\ at \in {"sleeping", "sleeping_again"} => foreign = "none"
    /\ Costs(TRUE)
    /\ NextRound
    /\ UNCHANGED <<neutronVars, content, foreign>>

Purge ==
    \/ RoundFails
    \/ ListLoadbalancers \/ ListWithoutHostnames \/ Sleep
    \/ \E failing \in 0..7, left \in SUBSET Loadbalancers :
          (failing = 0 => left = {}) /\ WakeUp(failing, left)
    \/ FinishLoadbalancers \/ PurgeWithoutHostnames
    \/ ListPolicies \/ ListMonitors \/ ListMonitorUsers
    \/ \E lost \in BOOLEAN :
          \/ AskLoadbalancers(lost)
          \/ ListListeners(lost)
          \/ AskPolicies(lost)
          \/ ListPools(lost)
          \/ PurgeNodes(lost)
    \/ \E last \in Loadbalancers \cup {"none"} : ListPolicyUsers(last)
    \/ \E o \in todo, failed \in SUBSET Devices :
          \/ \E steps \in 0..2 : (failed = {} => steps = 0) /\ PurgeLoadbalancer(o, failed, steps)
          \/ PurgeListener(o, failed)
          \/ \E done \in SUBSET Devices : PurgePolicy(o, done, failed)
          \/ \E kept \in SUBSET Devices : PurgePool(o, kept, failed)
          \/ PurgeMonitor(o, failed)

Requests ==
    \/ \E o \in Objects, partly \in BOOLEAN : Deploy(o, partly)
    \/ \E o \in Objects : Create(o) \/ Forget(o) \/ ForeignFolder(o)
    \/ ForeignAddress

Next == Purge \/ Requests

Fairness ==
    /\ WF_vars(Purge)
    /\ WF_vars(ForeignAddress)
    /\ \A o \in Objects : WF_vars(Deploy(o, FALSE))

Spec == Init /\ [][Next]_vars /\ Fairness

-------------------------------------------------------------------------------
\* Every variable has its type: what is listed and purged are objects of the tenant.
TypeOK ==
    /\ known \subseteq Objects
    /\ fresh \subseteq Objects
    /\ waiting \subseteq Objects
    /\ content \in [Devices -> SUBSET Items]
    /\ foreign \in Loadbalancers \cup {"none"}
    /\ scan \subseteq Devices
    /\ listed \subseteq Objects \X Devices
    /\ bare \subseteq Objects
    /\ todo \subseteq Objects
    /\ used \subseteq Objects
    /\ answered \subseteq Loadbalancers
    /\ li_id \in Loadbalancers \cup {"none"}
    /\ ops \in 0..MaxOps
    /\ faults \in 0..MaxFaults

\* No call of the purge takes an object that Neutron knows from a device that has its load
\* balancer's address, whatever was created, deleted or lost since the objects were listed:
\* what purge_orphaned_loadbalancer, purge_orphaned_listener and purge_orphaned_pool delete
\* with an orphan is no part of a known load balancer.  Policies are excepted (see
\* KnownPolicyIsKept), and monitors that no pool uses, which go without asking Neutron.
KnownTreeIsKept ==
    [][at' # at \/ todo' # todo \/ scan' # scan =>
         \A d \in Devices : \A o \in (content[d] \ content'[d]) \cap known :
            \/ Of(o, "address") \notin content[d]
            \/ o[1] = "policy"
            \/ o[1] = "monitor" /\ ~InUse(content[d], o)]_vars

\* purge_orphaned_l7_policys "Deletes hanging l7_policies from the deleted listeners": a
\* listener keeps a policy that Neutron knows.  The code does otherwise.
KnownPolicyIsKept ==
    [][at = "purge_policies" =>
         \A d \in Devices : \A lb \in Loadbalancers :
            <<"policy", lb>> \in known /\ <<"listener_policy", lb>> \in content[d]
               => <<"listener_policy", lb>> \in content'[d]]_vars

\* Something uses o, or the policy that stops every round is there: one that is taken for
\* unused, because the first device does not refer to it, or from the wrong listener.
Held(o, d) ==
    \/ \E lb \in Loadbalancers :
          LET on == {e \in Devices : <<"listener_policy", lb>> \in content[e]}
          IN  on # {} /\ (on # Devices \/ <<"policy", lb>> \notin known)
    \/ o[1] = "pool" /\ InUse(content[d], o)
    \/ o[1] = "monitor" /\ InUse(content[d], o)

\* Once the tenant rests, the rounds of clean_orphaned_objects_and_save_device_config take
\* every object that Neutron does not know from every device, whichever calls failed and
\* whichever objects were in use when a round came to them.
OrphansGo == <>[](\A d \in Devices : \A o \in content[d] \cap (Objects \ known) : Held(o, d))
=============================================================================
