----------------------------- MODULE TenantNetwork -----------------------------
(***************************************************************************)
(* The network of a tenant's load balancers: its folder and route domains,   *)
(* and on every device a VLAN, a self IP and SNAT addresses for each subnet  *)
(* that its addresses are on.  One request runs at a time (the driver's      *)
(* calls are serialized) but it consists of many calls to devices, each of   *)
(* which may fail; what is cached on the side tells the next request what it *)
(* need not do again, and whether another tenant uses a subnet.  The timer   *)
(* flushes the caches of the devices at any time, without a turn of the      *)
(* queue.                                                                    *)
(*                                                                           *)
(* A network has one subnet and the name of a network is the name of both.   *)
(* A network with the owner "common" is kept in the folder Common and in     *)
(* route domain 0; any other is used by its owner only.  All load balancers  *)
(* have a listener, so an address is one that _ips_exist_on_subnet sees.     *)
(* A network without a segmentation id is flat, and common: no address gets  *)
(* on one that is not, because get_neutron_net_short_name raises and leaves  *)
(* the networks of the request without a route domain.                       *)
(***************************************************************************)
EXTENDS FiniteSets, Integers

CONSTANTS Loadbalancers, Tenants, Networks,
          TenantOf,         \* the tenant of a load balancer
          NetworksOf,       \* the sets of networks its addresses may be on
          Owner,            \* the tenant of a network, or "common"
          Flat,             \* the networks without a segmentation id
          Overlapping,      \* sets of two networks of a tenant whose subnets overlap
          DeviceCount,      \* devices are 1..DeviceCount, in the order of get_all_bigips
          NamespaceLimits,  \* what max_namespaces_per_tenant may be
          MaxOps,           \* bound: requests in a behaviour
          MaxFaults,        \* bound: calls that fail
          MaxResets         \* bound: flushed caches and restarts

ASSUME TenantNetworkAssumption ==
    /\ {MaxOps, MaxFaults, MaxResets} \subseteq Nat
    /\ NamespaceLimits \cup {DeviceCount} \subseteq Nat \ {0}
    /\ Loadbalancers # {}
    /\ TenantOf \in [Loadbalancers -> Tenants]
    /\ Owner \in [Networks -> Tenants \cup {"common"}]
    /\ Flat \subseteq {n \in Networks : Owner[n] = "common"}
    /\ NetworksOf \in [Loadbalancers -> SUBSET SUBSET Networks]
    /\ \A lb \in Loadbalancers : \A n \in UNION NetworksOf[lb] :
          Owner[n] \in {"common", TenantOf[lb]}
    /\ \A o \in Overlapping : \E m, n \in Networks :
          o = {m, n} /\ m # n /\ Owner[m] = Owner[n] /\ Owner[m] # "common"

Devices == 1..DeviceCount
None == -1

VARIABLES
    max_namespaces,    \* of the configuration file, for good
    folder,            \* tenants with a folder on each device
    domains,           \* <<id, tenant, is_aux>> on each device
    vlan,              \* of each network on each device: its route domain or None
    selfip,            \* of each network on each device: its route domain or None
    snatpool,          \* <<tenant, network>> whose address is in the tenant's pool
    ips,               \* <<load balancer, network, route domain>> on each device
    assured_networks,  \* bigip.assured_networks
    assured_subnets,   \* bigip.assured_tenant_snat_subnets: <<tenant, network>>
    filled,            \* tenants that have an entry in rds_cache
    rds_cache,         \* <<tenant, route domain, network, whether a subnet is in it>>
    at, req,           \* the running request and the step it is at
    route_domain_id,   \* of the networks in the request's service
    todo,              \* <<device, network>>, networks or devices left in this step
    check_for_delete,  \* of the request's subnet hints, for each device
    guessed,           \* tenants for which rds_cache did not say where a device has a network
    missed,            \* tenants for which rds_cache missed, or lost, what a device has
    blind,             \* networks that a request released without a route domain
    stale,             \* networks that a device released and left in the tenant's cache
    ops, faults, resets

deviceVars == <<folder, domains, vlan, selfip, snatpool, ips>>
cacheVars == <<assured_networks, assured_subnets>>
rdsVars == <<filled, rds_cache, guessed, missed>>
requestVars == <<at, req, route_domain_id, todo, check_for_delete>>
counters == <<ops, faults, resets, max_namespaces>>
vars == <<deviceVars, cacheVars, rdsVars, requestVars, blind, stale, counters>>

Common(n) == Owner[n] = "common"
Tenant == TenantOf[req.lb]
NoRequest == [lb |-> CHOOSE lb \in Loadbalancers : TRUE, keep |-> {}, drop |-> {}]

\* delete_event: the load balancer is PENDING_DELETE.
Deleting == req.keep = {}

On(lb) == UNION {{i[2] : i \in {j \in ips[d] : j[1] = lb}} : d \in Devices}

Init ==
    /\ max_namespaces \in NamespaceLimits
    /\ folder = [d \in Devices |-> {}]
    /\ domains = [d \in Devices |-> {}]
    /\ vlan = [d \in Devices |-> [n \in Networks |-> None]]
    /\ selfip = [d \in Devices |-> [n \in Networks |-> None]]
    /\ snatpool = [d \in Devices |-> {}]
    /\ ips = [d \in Devices |-> {}]
    /\ assured_networks = [d \in Devices |-> {}]
    /\ assured_subnets = [d \in Devices |-> {}]
    /\ filled = {}
    /\ rds_cache = {}
    /\ at = "idle"
    /\ req = NoRequest
    /\ route_domain_id = [n \in Networks |-> None]
    /\ todo = {}
    /\ check_for_delete = [d \in Devices |-> {}]
    /\ guessed = {}
    /\ missed = {}
    /\ blind = {}
    /\ stale = [d \in Devices |-> {}]
    /\ ops = 0
    /\ faults = 0
    /\ resets = 0

-------------------------------------------------------------------------------
(* Helpers.                                                                     *)

Costs(failure) ==
    /\ failure => faults < MaxFaults
    /\ faults' = IF failure THEN faults + 1 ELSE faults
    /\ UNCHANGED <<ops, resets, max_namespaces>>

\* Devices go in order, and the one that fails (0: none) ends the loop.
Before(failed) == {d \in Devices : failed = 0 \/ d < failed}

GoTo(step, rest) ==
    /\ at' = step
    /\ todo' = rest
    /\ UNCHANGED <<req, route_domain_id, check_for_delete>>

\* _common_service_handler returns.
Return ==
    /\ at' = "idle"
    /\ req' = NoRequest
    /\ route_domain_id' = [n \in Networks |-> None]
    /\ todo' = {}
    /\ check_for_delete' = [d \in Devices |-> {}]

\* An exception in prep_service_networking ends the request, unless it deletes.
PrepFails == IF Deleting THEN GoTo("service", {}) ELSE Return

\* The route domain that every name of the folder is given by default.
Primary(t, d) == {r[1] : r \in {s \in domains[d] : s[2] = t /\ ~s[3]}}

\* Slip: the lowest that the first device does not use.
NextDomainIdOfFirst ==
    LET taken == {r[1] : r \in domains[1]}
    IN  CHOOSE i \in 1..(Cardinality(taken) + 1) :
            i \notin taken /\ \A j \in 1..(i - 1) : j \in taken

\* get_next_domain_id: the lowest that no device uses.
NextDomainId ==
    LET taken == {r[1] : r \in UNION {domains[d] : d \in Devices}}
    IN  CHOOSE i \in 1..(Cardinality(taken) + 1) :
            i \notin taken /\ \A j \in 1..(i - 1) : j \in taken

\* create_route_domain.
WithDomain(d, is_aux) == domains[d] \cup {<<NextDomainId, Tenant, is_aux>>}

-------------------------------------------------------------------------------
(* A request: the load balancer's addresses are to be on the networks "nets".    *)

Begin(lb, nets) ==
    /\ at = "idle"
    /\ ops < MaxOps
    /\ nets # {} \/ On(lb) # {}
    /\ ops' = ops + 1
    /\ at' = "folders"
    /\ req' = [lb |-> lb, keep |-> nets, drop |-> On(lb) \ nets]
    /\ UNCHANGED <<deviceVars, cacheVars, rdsVars, route_domain_id, todo, check_for_delete,
                   blind, stale, faults, resets, max_namespaces>>

\* assure_tenant_created.  A failure ends the request, also one that deletes: its cleanup
\* refers to subnet hints that are not there.
Folders(failed) ==
    /\ at = "folders"
    /\ Costs(failed # 0)
    /\ folder' = [d \in Devices |-> IF d \in Before(failed) THEN folder[d] \cup {Tenant}
                                    ELSE folder[d]]
    /\ IF failed = 0 THEN GoTo("domains", {}) ELSE Return
    /\ UNCHANGED <<domains, vlan, selfip, snatpool, ips, cacheVars, rdsVars, blind, stale>>

\* A device that lacks the tenant's domain gets the next id of now, whatever id others use.
TenantDomains(failed) ==
    /\ at = "domains"
    /\ Costs(failed # 0)
    /\ domains' = [d \in Devices |->
          IF d \in Before(failed) /\ Primary(Tenant, d) = {}
          THEN WithDomain(d, FALSE) ELSE domains[d]]
    /\ IF failed = 0 THEN GoTo("annotate", {}) ELSE Return
    /\ UNCHANGED <<folder, vlan, selfip, snatpool, ips, cacheVars, rdsVars, blind, stale>>

-------------------------------------------------------------------------------
(* _annotate_service_route_domains.                                             *)

\* get_vlans_in_route_domain_by_id, for all domains of the tenant.
VlansOf(d, t) == {n \in Networks : \E r \in domains[d] : r[2] = t /\ r[1] = vlan[d][n]}

\* update_rds_cache_bigip: the VLANs, and whether the device has a self IP on them.
CachedFrom(d, t) == {<<t, vlan[d][n], n, selfip[d][n] # None>> : n \in VlansOf(d, t)}

\* Two devices that disagree on a subnet: one of them has it.
Merged(entries) == {e \in entries : e[4] \/ <<e[1], e[2], e[3], TRUE>> \notin entries}

\* Networks of the tenant that have an address somewhere, in a domain that the cache
\* does not know of.
AddressesMissedBy(cache) ==
    {i \in UNION {ips[d] : d \in Devices} :
        Owner[i[2]] = Tenant /\ <<Tenant, i[3], i[2], TRUE>> \notin cache}

\* A VLAN was found in a domain in which no device has a self IP of its network: the
\* subnet may be in another domain elsewhere.
HasEmptyVlan(cache) ==
    \E e \in cache : e[1] = Tenant /\ \A d \in Devices : selfip[d][e[3]] # e[2]

\* What was found does not tell which subnets are where: it lacks an address, or a domain has
\* been left with networks that overlap.
IsIncomplete(cache) ==
    \/ AddressesMissedBy(cache) # {}
    \/ /\ max_namespaces > 1
       /\ \E e, f \in cache : e[1] = Tenant /\ f[1] = Tenant /\ e[2] = f[2]
                               /\ {e[3], f[3]} \in Overlapping

\* What the device that fails has told: the VLANs in "seen", in one domain after the other,
\* and the VLAN, if any, whose self IPs could not be read.
IsBrokenOff(d, seen, last) ==
    LET unseen == VlansOf(d, Tenant) \ seen
        domainsOf(nets) == {vlan[d][n] : n \in nets}
    IN  /\ last \subseteq unseen
        /\ Cardinality(last) <= 1
        /\ Cardinality((domainsOf(seen) \cap domainsOf(unseen)) \cup domainsOf(last)) <= 1

PartOf(d, seen, last) ==
    {e \in CachedFrom(d, Tenant) : e[3] \in seen}
        \cup {<<Tenant, vlan[d][n], n, FALSE>> : n \in last}

\* update_rds_cache.  The tenant has an entry as soon as it is begun, and what was entered
\* before a device failed stays.
UpdateRdsCache(failed) ==
    /\ at = "annotate"
    /\ Costs(failed # 0)
    /\ failed # 0 => Tenant \notin filled
    /\ filled' = filled \cup {Tenant}
    /\ LET whole == UNION {CachedFrom(d, Tenant) : d \in Before(failed)}
       IN  \/ Tenant \in filled /\ rds_cache' = rds_cache
           \/ failed = 0 /\ Tenant \notin filled /\ rds_cache' = rds_cache \cup Merged(whole)
           \/ /\ failed # 0
              /\ \E seen, last \in SUBSET VlansOf(failed, Tenant) :
                    /\ IsBrokenOff(failed, seen, last)
                    /\ rds_cache' = rds_cache \cup Merged(whole \cup PartOf(failed, seen, last))
    /\ guessed' = IF Tenant \notin filled /\ HasEmptyVlan(rds_cache')
                  THEN guessed \cup {Tenant} ELSE guessed
    /\ missed' = IF Tenant \notin filled /\ (failed # 0 \/ IsIncomplete(rds_cache'))
                 THEN missed \cup {Tenant} ELSE missed
    /\ IF failed = 0 THEN GoTo("assign", req.keep \cup req.drop) ELSE PrepFails
    /\ UNCHANGED <<deviceVars, cacheVars, blind, stale>>

\* assign_route_domain: from the cache of any tenant, the tenant's only domain, one
\* without an overlap, or a new one.
Cached(n) == {e[2] : e \in {c \in rds_cache : c[3] = n}}
CachedDomains == {e[2] : e \in {c \in rds_cache : c[1] = Tenant}}

\* Slip: only the tenant's primary domain is searched for an overlap.
OverlapsInPrimary(rd, n) ==
    \E e \in rds_cache : /\ rd \in Primary(Tenant, 1)
                          /\ e[1] = Tenant /\ e[2] = rd /\ e[4] /\ {e[3], n} \in Overlapping

Overlaps(rd, n) ==
    \E e \in rds_cache : e[1] = Tenant /\ e[2] = rd /\ e[4] /\ {e[3], n} \in Overlapping

Annotate(n, rd) ==
    /\ route_domain_id' = [route_domain_id EXCEPT ![n] = rd]
    /\ todo' = todo \ {n}
    /\ at' = IF todo = {n} THEN "connect" ELSE at
    /\ UNCHANGED <<req, check_for_delete>>

KnownDomain(n, rd) ==
    /\ at = "assign"
    /\ n \in todo
    /\ \/ Common(n) /\ rd = 0
       \/ ~Common(n) /\ rd \in Cached(n)
    /\ Annotate(n, rd)
    /\ UNCHANGED <<deviceVars, cacheVars, rdsVars, blind, stale, counters>>

IsPlaced(n) == at = "assign" /\ n \in todo /\ ~Common(n) /\ Cached(n) = {}

\* The network is new to the cache and not to a device, which has it in another domain.
Guess(n, rd) ==
    IF \E d \in Devices : \/ selfip[d][n] \notin {None, rd}
                         \/ \E i \in ips[d] : i[2] = n /\ i[3] # rd
    THEN guessed \cup {Tenant} ELSE guessed

\* The first device tells the tenant's only domain.
OnlyDomain(n, rd) ==
    /\ IsPlaced(n)
    /\ max_namespaces = 1
    /\ rd \in Primary(Tenant, 1)
    /\ guessed' = Guess(n, rd)
    /\ Annotate(n, rd)
    /\ UNCHANGED <<deviceVars, cacheVars, filled, rds_cache, missed, blind, stale, counters>>

\* get_route_domain fails on the first device.
OnlyDomainFails(n) ==
    /\ IsPlaced(n)
    /\ max_namespaces = 1
    /\ Costs(TRUE)
    /\ PrepFails
    /\ UNCHANGED <<deviceVars, cacheVars, rdsVars, blind, stale>>

Place(n, rd) ==
    /\ IsPlaced(n)
    /\ max_namespaces > 1
    /\ rd \in CachedDomains
    /\ ~Overlaps(rd, n)
    /\ rds_cache' = rds_cache \cup {<<Tenant, rd, n, TRUE>>}
    /\ guessed' = Guess(n, rd)
    /\ Annotate(n, rd)
    /\ UNCHANGED <<deviceVars, cacheVars, filled, missed, blind, stale, counters>>

\* _create_aux_rd.  What the cache still says of a domain that had this id is overwritten.
CreateAuxRd(n, failed) ==
    /\ IsPlaced(n)
    /\ max_namespaces > 1
    /\ \A rd \in CachedDomains : Overlaps(rd, n)
    /\ Cardinality(CachedDomains) < max_namespaces
    /\ Costs(failed # 0)
    /\ domains' = [d \in Devices |->
          IF d \in Before(failed) THEN WithDomain(d, TRUE) ELSE domains[d]]
    /\ IF failed = 0
       THEN /\ rds_cache' = {e \in rds_cache : e[1] # Tenant \/ e[2] # NextDomainId}
                                \cup {<<Tenant, NextDomainId, n, TRUE>>}
            /\ Annotate(n, NextDomainId)
       ELSE rds_cache' = rds_cache /\ PrepFails
    /\ guessed' = Guess(n, NextDomainId)
    /\ UNCHANGED <<folder, vlan, selfip, snatpool, ips, cacheVars, filled, missed, blind, stale>>

CannotPlace(n) ==
    /\ IsPlaced(n)
    /\ max_namespaces > 1
    /\ \A rd \in CachedDomains : Overlaps(rd, n)
    /\ Cardinality(CachedDomains) >= max_namespaces
    /\ PrepFails
    /\ UNCHANGED <<deviceVars, cacheVars, rdsVars, blind, stale, counters>>

-------------------------------------------------------------------------------
(* The subnets to assure, on one device after the other.                        *)

FirstPair == CHOOSE p \in todo : \A q \in todo : p[1] <= q[1]

StartConnect ==
    /\ at = "connect"
    /\ todo = {}
    /\ GoTo(IF Deleting THEN "service" ELSE "assure", Devices \X req.keep)
    /\ UNCHANGED <<deviceVars, cacheVars, rdsVars, blind, stale, counters>>

\* create_vlan: a new VLAN is added to its domain if the device has one with that id.
DomainOfNew(d, n) ==
    IF \E r \in domains[d] : r[2] = Tenant /\ r[1] = route_domain_id[n]
    THEN route_domain_id[n] ELSE 0

\* assure_bigip_network: a VLAN that is there is left as it is.
Vlan(d, n, added) ==
    IF n \in assured_networks[d] \/ vlan[d][n] # None THEN vlan[d][n]
    ELSE IF added /\ ~Common(n) THEN DomainOfNew(d, n) ELSE 0

\* _create_bigip_selfip: a VLAN that is in another domain is added to the tenant's first.
VlanForSelfip(d, n) ==
    IF /\ Vlan(d, n, TRUE) \notin {None, route_domain_id[n]}
       /\ \E r \in domains[d] : r[1] = route_domain_id[n]
    THEN CHOOSE p \in Primary(Tenant, d) : TRUE ELSE Vlan(d, n, TRUE)

\* A call fails: the VLAN is not there, not in its domain, not assured, without a self IP
\* although it is assured, or although it was moved for it.
ConnectFails(outcome) ==
    LET d == FirstPair[1]
        n == FirstPair[2]
        assured == outcome \in {"selfip", "moved"}
        to == CASE outcome = "vlan" -> vlan[d][n]
                [] outcome = "domain" -> Vlan(d, n, FALSE)
                [] outcome \in {"binding", "selfip"} -> Vlan(d, n, TRUE)
                [] outcome = "moved" -> VlanForSelfip(d, n)
    IN  /\ at = "assure"
        /\ todo # {}
        /\ Costs(TRUE)
        /\ ~assured => n \notin assured_networks[d]
        /\ assured => <<Tenant, n>> \notin assured_subnets[d]
        /\ outcome = "moved" => selfip[d][n] = None /\ to # Vlan(d, n, TRUE)
        /\ vlan' = [vlan EXCEPT ![d][n] = to]
        /\ assured_networks' = IF assured THEN [assured_networks EXCEPT ![d] = @ \cup {n}]
                               ELSE assured_networks
        /\ PrepFails
        /\ UNCHANGED <<folder, domains, selfip, snatpool, ips, assured_subnets, rdsVars,
                       blind, stale>>

\* assure_bigip_selfip: skipped when the tenant's subnet is cached, and when a self IP of
\* that name exists.  A self IP whose binding to its port fails (l3_binding) stays.
Connect(unbound) ==
    LET d == FirstPair[1]
        n == FirstPair[2]
        rd == route_domain_id[n]
        cached == <<Tenant, n>> \in assured_subnets[d]
        exists == cached \/ selfip[d][n] # None
        to == IF exists THEN Vlan(d, n, TRUE) ELSE VlanForSelfip(d, n)
    IN  /\ at = "assure"
        /\ todo # {}
        /\ unbound => ~cached /\ (exists \/ to = rd)
        /\ Costs(unbound)
        /\ vlan' = [vlan EXCEPT ![d][n] = to]
        /\ assured_networks' = [assured_networks EXCEPT ![d] = @ \cup {n}]
        /\ selfip' = IF exists \/ to # rd THEN selfip ELSE [selfip EXCEPT ![d][n] = rd]
        /\ stale' = IF exists \/ to # rd THEN stale ELSE [stale EXCEPT ![d] = @ \ {n}]
        /\ IF ~unbound /\ (exists \/ to = rd)
           THEN IF todo = {FirstPair} THEN GoTo("snats", req.keep)
                ELSE GoTo(at, todo \ {FirstPair})
           ELSE PrepFails
        /\ UNCHANGED <<folder, domains, snatpool, ips, assured_subnets, rdsVars, blind>>

\* _assure_subnet_snats.
NotAssuredOn(n) == {d \in Devices : <<Tenant, n>> \notin assured_subnets[d]}

\* assure_bigip_snats.  The device that fails may have the address in its pool: a cache that
\* is flushed meanwhile raises a KeyError there.
AssureSnats(n, failed, pooled) ==
    LET done == NotAssuredOn(n) \cap Before(failed)
    IN  /\ at = "snats"
        /\ n \in todo
        /\ failed \in NotAssuredOn(n) \cup {0}
        /\ pooled => failed # 0
        /\ Costs(failed # 0)
        /\ snatpool' = [d \in Devices |->
              IF d \in done \/ (pooled /\ d = failed) THEN snatpool[d] \cup {<<Tenant, n>>}
              ELSE snatpool[d]]
        /\ assured_subnets' = [d \in Devices |->
              IF d \in done THEN assured_subnets[d] \cup {<<Tenant, n>>} ELSE assured_subnets[d]]
        /\ blind' = IF failed = 0 /\ \A d \in Devices : selfip[d][n] # None THEN blind \ {n}
                    ELSE blind
        /\ IF failed # 0 THEN PrepFails
           ELSE IF todo = {n} THEN GoTo("service", {}) ELSE GoTo(at, todo \ {n})
        /\ UNCHANGED <<folder, domains, vlan, selfip, ips, assured_networks, rdsVars, stale>>

-------------------------------------------------------------------------------
(* assure_service: the addresses, with the subnets they leave in the hints.      *)

\* Slip: the network before the load balancer.
AddressesByNetwork == {<<n, req.lb, route_domain_id[n]>> : n \in req.keep}

Addresses == {<<req.lb, n, route_domain_id[n]>> : n \in req.keep}

AssureService(failed) ==
    /\ at = "service"
    /\ Costs(failed # {})
    /\ ips' = [d \in Devices |->
          IF d \in failed THEN ips[d]
          ELSE {i \in ips[d] : i[1] # req.lb} \cup Addresses]
    /\ check_for_delete' = [d \in Devices |-> req.drop]
    /\ at' = "release_shared"
    /\ todo' = Devices
    /\ UNCHANGED <<folder, domains, vlan, selfip, snatpool, cacheVars, rdsVars, req,
                   route_domain_id, blind, stale>>

\* get_virtual_service_insertion and get_node_addresses, in the tenant's folder.
AddressesOn(d) == {i \in ips[d] : TenantOf[i[1]] = Tenant}

\* Slip: only the addresses of the load balancer of the request are looked at.
IpsExistOfRequest(d, n) ==
    \E i \in ips[d] : i[1] = req.lb /\ i[2] = n /\ i[3] = route_domain_id[n]

\* _ips_exist_on_subnet: in the route domain of the network; none is when the network was
\* not annotated.
IpsExist(d, n) ==
    /\ route_domain_id[n] # None
    /\ \E i \in AddressesOn(d) : i[2] = n /\ i[3] = route_domain_id[n]

ToDelete(d) == {n \in check_for_delete[d] : ~IpsExist(d, n)}
FirstDevice == CHOOSE d \in todo : \A e \in todo : d <= e

\* Slip: a released subnet remains assured.
StillAssured(subnets, nets) == subnets

\* _remove_assured_tenant_snat_subnet.
NotAssured(subnets, nets) == subnets \ ({Tenant} \X nets)

\* _delete_bigip_snats: a subnet that other tenants have cached is in use.
InUseByOthers(d, n) == \E t \in Tenants \ {Tenant} : <<t, n>> \in assured_subnets[d]

\* _assure_delete_nets_shared: a subnet whose exception comes before the cache forgets it
\* (failed), whose address stays in the pool (kept), or whose exception comes before what was
\* found out about its use is returned (lost).
ReleaseShared(failed, kept, lost) ==
    LET d == FirstDevice
        others == {n \in ToDelete(d) : InUseByOthers(d, n)}
    IN  /\ at = "release_shared"
        /\ failed \cup kept \cup lost \subseteq ToDelete(d)
        /\ failed \cap lost = {}
        /\ Costs(failed \cup kept \cup lost # {})
        /\ snatpool' = [snatpool EXCEPT ![d] = @ \ ({Tenant} \X (ToDelete(d) \ kept))]
        /\ assured_subnets' = [assured_subnets EXCEPT ![d] = NotAssured(@, ToDelete(d) \ failed)]
        /\ check_for_delete' = [check_for_delete EXCEPT ![d] = @ \ (others \ (failed \cup lost))]
        /\ at' = IF todo = {d} THEN "release" ELSE at
        /\ todo' = IF todo = {d} THEN Devices ELSE todo \ {d}
        /\ blind' = blind \cup (others \cap (failed \cup lost))
        /\ UNCHANGED <<folder, domains, vlan, selfip, ips, assured_networks, rdsVars, req,
                       route_domain_id, stale>>

\* remove_from_rds_cache, for every tenant.
Forgotten(cache, nets) == {e \in cache : e[3] \notin nets \/ ~e[4]}

\* delete_bigip_network: what the device refuses, or fails to do, is logged.
VlanGoes(d, n, stays) == n \notin stays /\ \A i \in ips[d] : i[2] # n

\* _assure_delete_nets_nonshared: a self IP that is not deleted ends a subnet (failed), a VLAN
\* that is not deleted does not (stays).  An exception after the self IP went (cut) leaves what
\* is cached about it; so does, every time, the network that has no short name to look for in
\* rds_cache.
Release(failed, stays, cut) ==
    LET d == FirstDevice
        gone == ToDelete(d) \ failed
        finished == gone \ (cut \cup Flat)
    IN  /\ at = "release"
        /\ failed \cup stays \subseteq ToDelete(d)
        /\ cut \subseteq gone
        /\ Costs(failed \cup stays \cup cut # {})
        /\ selfip' = [selfip EXCEPT ![d] =
                         [n \in Networks |-> IF n \in gone THEN None ELSE @[n]]]
        /\ vlan' = [vlan EXCEPT ![d] =
                       [n \in Networks |-> IF n \in gone /\ VlanGoes(d, n, stays) THEN None
                                         ELSE @[n]]]
        /\ assured_networks' = [assured_networks EXCEPT ![d] = @ \ (gone \ cut)]
        /\ assured_subnets' = [assured_subnets EXCEPT ![d] = NotAssured(@, finished)]
        /\ rds_cache' = Forgotten(rds_cache, finished)
        /\ stale' = [stale EXCEPT ![d] =
                        @ \cup {n \in gone \ finished : <<Tenant, n>> \in assured_subnets[d]}]
        /\ blind' = blind \cup {n \in gone : route_domain_id[n] = None}
        /\ missed' = IF \E e \in Devices : \E i \in ips[e] : i[2] \in finished /\ ~Common(i[2])
                     THEN missed \cup {Tenant} ELSE missed
        /\ IF todo # {d} THEN GoTo(at, todo \ {d})
           ELSE IF Deleting THEN GoTo("cleanup", {}) ELSE Return
        /\ UNCHANGED <<folder, domains, snatpool, ips, filled, guessed>>

\* A device that cannot be read ends post_service_networking.
PostFails ==
    /\ at \in {"release_shared", "release"}
    /\ Costs(TRUE)
    /\ IF Deleting THEN GoTo("cleanup", {}) ELSE Return
    /\ UNCHANGED <<deviceVars, cacheVars, rdsVars, blind, stale>>

-------------------------------------------------------------------------------
(* assure_tenant_cleanup: the device keeps what is in use, and failures are       *)
(* logged.                                                                       *)

InUse(d, r) == \/ \E n \in Networks : vlan[d][n] = r[1]
               \/ \E i \in ips[d] : i[3] = r[1]

Deletable(d) == {r \in domains[d] : r[2] = Tenant /\ ~InUse(d, r)}

\* Some domains, and the folders of the devices in "failed", are not deleted.
Cleanup(failed) ==
    LET empty == {d \in Devices \ failed :
                     /\ \A r \in domains'[d] : r[2] # Tenant
                     /\ \A n \in Networks : Owner[n] = Tenant => vlan[d][n] = None
                     /\ \A i \in ips[d] : TenantOf[i[1]] # Tenant
                     /\ \A p \in snatpool[d] : p[1] # Tenant}
    IN  /\ at = "cleanup"
        /\ \E kept \in SUBSET UNION {{d} \X Deletable(d) : d \in Devices} :
              /\ Costs(kept # {} \/ failed # {})
              /\ domains' = [d \in Devices |->
                    domains[d] \ {r \in Deletable(d) : <<d, r>> \notin kept}]
        /\ folder' = [d \in Devices |-> IF d \in empty THEN folder[d] \ {Tenant} ELSE folder[d]]
        /\ missed' = IF \E d \in Devices : \E r \in domains[d] \ domains'[d] :
                           r[1] \in CachedDomains
                     THEN missed \cup {Tenant} ELSE missed
        /\ Return
        /\ UNCHANGED <<vlan, selfip, snatpool, ips, cacheVars, filled, rds_cache, guessed,
                       blind, stale>>

-------------------------------------------------------------------------------
(* flush_cache in the timer's thread, and the agent's process starting again.     *)

Reset ==
    /\ resets < MaxResets
    /\ resets' = resets + 1
    /\ assured_networks' = [d \in Devices |-> {}]
    /\ assured_subnets' = [d \in Devices |-> {}]
    /\ UNCHANGED <<deviceVars, blind, stale, ops, faults, max_namespaces>>

FlushCache ==
    /\ Reset
    /\ UNCHANGED <<rdsVars, requestVars>>

Restart ==
    /\ Reset
    /\ filled' = {}
    /\ rds_cache' = {}
    /\ UNCHANGED <<guessed, missed>>
    /\ Return

-------------------------------------------------------------------------------
Next ==
    \/ \E lb \in Loadbalancers : \E nets \in NetworksOf[lb] \cup {{}} : Begin(lb, nets)
    \/ \E failed \in Devices \cup {0} :
          \/ Folders(failed)
          \/ TenantDomains(failed)
          \/ UpdateRdsCache(failed)
          \/ \E n \in Networks : CreateAuxRd(n, failed)
          \/ \E n \in Networks, pooled \in BOOLEAN : AssureSnats(n, failed, pooled)
    \/ \E n \in Networks :
          \/ \E rd \in {0} \cup Cached(n) : KnownDomain(n, rd)
          \/ \E rd \in Primary(Tenant, 1) : OnlyDomain(n, rd)
          \/ OnlyDomainFails(n)
          \/ \E rd \in CachedDomains : Place(n, rd)
          \/ CannotPlace(n)
    \/ StartConnect
    \/ \E unbound \in BOOLEAN : Connect(unbound)
    \/ \E outcome \in {"vlan", "domain", "binding", "selfip", "moved"} : ConnectFails(outcome)
    \/ \E failed \in SUBSET Devices : AssureService(failed) \/ Cleanup(failed)
    \/ \E failed \in SUBSET req.drop, kept \in SUBSET req.drop, lost \in SUBSET req.drop :
          ReleaseShared(failed, kept, lost)
    \/ \E failed \in SUBSET req.drop, stays \in SUBSET req.drop, cut \in SUBSET req.drop :
          Release(failed, stays, cut)
    \/ PostFails
    \/ FlushCache
    \/ Restart

Spec == Init /\ [][Next]_vars

-------------------------------------------------------------------------------
(* Properties.                                                                  *)

\* No domain, the domain of Common, or one that was made.
RouteDomains == Nat \cup {None}

\* Every variable has its type, in particular the cache of route domains, which is filled
\* from the devices and changed by requests.
TypeOK ==
    /\ max_namespaces \in NamespaceLimits
    /\ folder \in [Devices -> SUBSET Tenants]
    /\ domains \in [Devices -> SUBSET ((Nat \ {0}) \X Tenants \X BOOLEAN)]
    /\ vlan \in [Devices -> [Networks -> RouteDomains]]
    /\ selfip \in [Devices -> [Networks -> RouteDomains]]
    /\ snatpool \in [Devices -> SUBSET (Tenants \X Networks)]
    /\ ips \in [Devices -> SUBSET (Loadbalancers \X Networks \X RouteDomains)]
    /\ assured_networks \in [Devices -> SUBSET Networks]
    /\ assured_subnets \in [Devices -> SUBSET (Tenants \X Networks)]
    /\ filled \subseteq Tenants
    /\ guessed \cup missed \subseteq Tenants
    /\ rds_cache \subseteq Tenants \X RouteDomains \X Networks \X BOOLEAN
    /\ req \in [lb : Loadbalancers, keep : SUBSET Networks, drop : SUBSET Networks]
    /\ route_domain_id \in [Networks -> RouteDomains]
    /\ check_for_delete \in [Devices -> SUBSET Networks]
    /\ blind \subseteq Networks
    /\ stale \in [Devices -> SUBSET Networks]

\* A device that has an address on a tenant's own network has, for this network, a VLAN and
\* a self IP in the route domain of the address: whatever calls failed, and whatever caches
\* were flushed.  Three defects of the code are left out: a subnet that was released by a
\* request that did not know its route domain, one that its release left in the cache of the
\* device, and a tenant whose cache of route domains named a VLAN without a subnet, or not the
\* domain in which a device has a network.
AddressIsConnected ==
    \A d \in Devices : \A i \in ips[d] :
        ~Common(i[2]) /\ i[2] \notin blind \cup stale[d] /\ TenantOf[i[1]] \notin guessed
            => i[3] = selfip[d][i[2]] /\ i[3] = vlan[d][i[2]]

\* The self IPs, and the addresses, on networks of different tenants are never in the same
\* route domain, on whatever devices: their subnets may be the same.  An id that is deleted
\* on one device is not given to another tenant while another device uses it, and a cache
\* that still names it has no address put there, except for a tenant whose cache named
\* another domain than a device has, and on a subnet whose release left it in the cache of
\* the device, which then gets addresses without a look at the domain.
TenantsAreApart ==
    \A d, e \in Devices :
        /\ \A m, n \in Networks :
              selfip[d][m] # None /\ selfip[d][m] = selfip[e][n]
                  => Owner[m] = Owner[n] \/ "common" \in {Owner[m], Owner[n]}
        /\ \A i \in ips[d], j \in ips[e] :
              i[3] = j[3] => \/ Owner[i[2]] = Owner[j[2]]
                            \/ {Owner[i[2]], Owner[j[2]]} \cap ({"common"} \cup guessed) # {}
                            \/ i[2] \in stale[d] \/ j[2] \in stale[e]

\* A subnet that a device caches as done for a tenant has its self IP there: the next
\* request does not look.  A subnet that is released leaves the cache of its tenant, and one
\* that other tenants have cached is not released.  Two defects of the code are left out: a
\* shared subnet whose release fails at the call that finds out about its use, and one that
\* stays in the cache of its tenant because the first half of its release failed and then its
\* second half did, which for a flat network it always does.  Both last until a self IP is made.
CacheIsTrue ==
    \A d \in Devices : \A s \in assured_subnets[d] :
        s[2] \notin stale[d] /\ (~Common(s[2]) \/ s[2] \notin blind) => selfip[d][s[2]] # None

\* Addresses of overlapping subnets are in different route domains, if the tenant may have
\* several and the cache always knew what the devices have.  A network or a domain that it
\* missed, or forgot while a device still has it, is a defect that is left out.
OverlapIsSeparated ==
    max_namespaces > 1 =>
        \A d \in Devices : \A i, j \in ips[d] :
            {i[2], j[2]} \in Overlapping /\ TenantOf[i[1]] \notin guessed \cup missed
                => i[3] # j[3]
=============================================================================
