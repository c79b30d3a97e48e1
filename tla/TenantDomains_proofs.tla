-------------------------- MODULE TenantDomains_proofs --------------------------
(***************************************************************************)
(* Proofs about the route domains of a tenant, for any load balancers,       *)
(* networks, number of devices and bounds.                                   *)
(*                                                                           *)
(* Unless rds_cache named another domain than a device has (the tenant is in *)
(* guessed), all that names the domain of a network names the same one: the  *)
(* self IPs and the addresses on the devices, the cache and the annotation   *)
(* of the request (OneDomain).  An address is therefore where its self IP    *)
(* is, in a domain of its tenant (OwnInv).                                   *)
(***************************************************************************)
EXTENDS TenantNetwork_proofs

-------------------------------------------------------------------------------
(* What is on the devices, whatever the caches say.                              *)

\* The ids of the domains are of one tenant each.
DomainOfOne ==
    \A d, e \in Devices : \A r \in domains[d], s \in domains[e] : r[1] = s[1] => r[2] = s[2]

\* A VLAN is in a domain of its owner, or in none of a tenant.
VlanIsOwned ==
    \A d \in Devices : \A n \in Networks :
        vlan[d][n] \notin {None, 0} =>
            \E r \in domains[d] : r[1] = vlan[d][n] /\ r[2] = Owner[n]

SelfipIsOnVlan ==
    \A d \in Devices : \A n \in Networks :
        selfip[d][n] # None => vlan[d][n] = selfip[d][n]

\* The addresses are on networks that the load balancer's tenant may use.
AddressIsOwned ==
    \A d \in Devices : \A i \in ips[d] :
        i[3] # None /\ Owner[i[2]] \in {"common", TenantOf[i[1]]}

DeviceInv == DomainOfOne /\ VlanIsOwned /\ SelfipIsOnVlan /\ AddressIsOwned

\* The running request is about networks that its tenant may use.
RequestIsOwned ==
    at # "idle" => \A n \in req.keep \cup req.drop : Owner[n] \in {"common", Tenant}

\* From the creation of the tenant until the service, no device loses the tenant's domain.
HasPrimary ==
    at \in {"annotate", "assign", "connect", "assure"} =>
        \A d \in Devices : Primary(Tenant, d) # {}

\* What is left in a step is about the request's networks.
TodoIsOwned ==
    /\ at = "assign" => todo \subseteq req.keep \cup req.drop
    /\ at \in {"release_shared", "release"} =>
          \A d \in Devices : check_for_delete[d] \subseteq req.drop

CommonIsZero == \A n \in Networks : Common(n) => route_domain_id[n] \in {None, 0}

\* A service is assured on networks that were prepared, on every device.
Prepared ==
    /\ at \in {"snats", "service"} => \A n \in req.keep : route_domain_id[n] # None
    /\ at = "service" =>
          \A d \in Devices : \A n \in req.keep :
              selfip[d][n] # None \/ n \in blind \cup stale[d]

StepInv == RequestIsOwned /\ HasPrimary /\ TodoIsOwned /\ CommonIsZero /\ Prepared

\* An entry of the cache is of the network's owner.
EntryIsOwned == \A e \in rds_cache : Owner[e[3]] = e[1]

\* The types that CacheInv does not have.
OtherTypes ==
    /\ max_namespaces \in NamespaceLimits
    /\ folder \in [Devices -> SUBSET Tenants]
    /\ vlan \in [Devices -> [Networks -> RouteDomains]]
    /\ snatpool \in [Devices -> SUBSET (Tenants \X Networks)]
    /\ assured_networks \in [Devices -> SUBSET Networks]
    /\ filled \subseteq Tenants
    /\ guessed \cup missed \subseteq Tenants
    /\ req \in [lb : Loadbalancers, keep : SUBSET Networks, drop : SUBSET Networks]
    /\ blind \subseteq Networks

OwnerInv == OtherTypes /\ DeviceInv /\ StepInv /\ EntryIsOwned

-------------------------------------------------------------------------------
(* Where the networks of a tenant that is not in guessed are.                    *)

\* Everything that names the domain of a network.
DomainsOf(n) ==
    {selfip[d][n] : d \in Devices}
        \cup {i[3] : i \in {j \in UNION {ips[d] : d \in Devices} : j[2] = n}}
        \cup Cached(n)
        \cup {route_domain_id[n]}

Trusted(n) == ~Common(n) /\ Owner[n] \notin guessed

OneDomain ==
    \A n \in Networks : Trusted(n) =>
        \A x, y \in DomainsOf(n) \ {None} : x = y

AddressHasSelfip ==
    \A d \in Devices : \A i \in ips[d] :
        Trusted(i[2]) /\ i[2] \notin blind \cup stale[d] => selfip[d][i[2]] # None

ConnectedInv == OneDomain /\ AddressHasSelfip

-------------------------------------------------------------------------------
(* What several steps have in common.                                            *)

LEMMA InitOwner == Init => OwnerInv
<1> SUFFICES ASSUME Init PROVE OwnerInv
  OBVIOUS
<1>1. OtherTypes
  BY TenantNetworkAssumption DEF Init, OtherTypes, NoRequest, RouteDomains
<1>2. DeviceInv
  BY DEF Init, DeviceInv, DomainOfOne, VlanIsOwned, SelfipIsOnVlan, AddressIsOwned
<1>3. StepInv /\ EntryIsOwned
  BY DEF Init, StepInv, RequestIsOwned, HasPrimary, TodoIsOwned, CommonIsZero, Prepared,
         EntryIsOwned
<1> QED
  BY <1>1, <1>2, <1>3 DEF OwnerInv

LEMMA DevicesStay ==
    ASSUME DeviceInv, UNCHANGED <<domains, vlan, selfip, ips>>
    PROVE  DeviceInv'
BY DEF DeviceInv, DomainOfOne, VlanIsOwned, SelfipIsOnVlan, AddressIsOwned

LEMMA EntriesShrink ==
    ASSUME EntryIsOwned, rds_cache' \subseteq rds_cache
    PROVE  EntryIsOwned'
BY DEF EntryIsOwned

LEMMA EntryAddedOwner ==
    ASSUME EntryIsOwned, NEW rd, NEW n, Owner[n] = Tenant,
           rds_cache' \subseteq rds_cache \cup {<<Tenant, rd, n, TRUE>>}
    PROVE  EntryIsOwned'
<1> SUFFICES ASSUME NEW e \in rds_cache' PROVE Owner[e[3]] = e[1]
  BY DEF EntryIsOwned
<1>1. CASE e \in rds_cache
  BY <1>1 DEF EntryIsOwned
<1>2. CASE e = <<Tenant, rd, n, TRUE>>
  BY <1>2
<1> QED
  BY <1>1, <1>2

\* A request that ends asks for nothing.
LEMMA ReturnStep ==
    ASSUME OtherTypes, Return
    PROVE  StepInv' /\ req' \in [lb : Loadbalancers, keep : SUBSET Networks, drop : SUBSET Networks]
BY TenantNetworkAssumption
   DEF Return, NoRequest, OtherTypes, StepInv, RequestIsOwned, HasPrimary, TodoIsOwned,
       CommonIsZero, Prepared

LEMMA PrepFailsStep ==
    ASSUME OtherTypes, StepInv, at # "idle", PrepFails
    PROVE  StepInv' /\ req' \in [lb : Loadbalancers, keep : SUBSET Networks, drop : SUBSET Networks]
<1>1. CASE Deleting
  BY <1>1 DEF PrepFails, GoTo, Deleting, Tenant, OtherTypes, StepInv, RequestIsOwned,
              HasPrimary, TodoIsOwned, CommonIsZero, Prepared
<1>2. CASE ~Deleting
  BY <1>2, ReturnStep DEF PrepFails
<1> QED
  BY <1>1, <1>2

\* The domain that devices are given belongs to no other tenant.
LEMMA DomainsGrowOwner ==
    ASSUME CacheInv, OwnerInv, UNCHANGED <<vlan, selfip, ips>>,
           NEW aux \in BOOLEAN, NEW on \in SUBSET Devices,
           domains' = [d \in Devices |-> IF d \in on THEN WithDomain(d, aux) ELSE domains[d]]
    PROVE  DeviceInv'
<1> DEFINE new == <<NextDomainId, Tenant, aux>>
<1>1. NextDomainId \notin Taken
  BY NextDomainIdIsNew DEF CacheInv, Types
<1>2. \A d \in Devices : domains[d] \subseteq domains'[d] /\ domains'[d] \subseteq domains[d] \cup {new}
  BY DEF WithDomain
<1>3. DomainOfOne'
  <2> SUFFICES ASSUME NEW d \in Devices, NEW e \in Devices,
                      NEW r \in domains'[d], NEW s \in domains'[e], r[1] = s[1]
               PROVE  r[2] = s[2]
    BY DEF DomainOfOne
  <2>1. CASE r \in domains[d] /\ s \in domains[e]
    BY <2>1 DEF OwnerInv, DeviceInv, DomainOfOne
  <2>2. CASE r = new /\ s = new
    BY <2>2
  <2>3. r \in domains[d] => r[1] \in Taken
    BY DEF Taken
  <2>4. s \in domains[e] => s[1] \in Taken
    BY DEF Taken
  <2> QED
    BY <1>1, <1>2, <2>1, <2>2, <2>3, <2>4
<1>4. VlanIsOwned'
  BY <1>2 DEF OwnerInv, DeviceInv, VlanIsOwned
<1>5. SelfipIsOnVlan' /\ AddressIsOwned'
  BY DEF OwnerInv, DeviceInv, SelfipIsOnVlan, AddressIsOwned
<1> QED
  BY <1>3, <1>4, <1>5 DEF DeviceInv

\* A network of the request that is not common is its tenant's.
LEMMA RequestsNetwork ==
    ASSUME OwnerInv, at # "idle", NEW n \in req.keep \cup req.drop, ~Common(n)
    PROVE  Owner[n] = Tenant
BY DEF OwnerInv, StepInv, RequestIsOwned, Common

-------------------------------------------------------------------------------
(* The steps up to the route domains.                                            *)

LEMMA BeginOwner ==
    ASSUME CacheInv, OwnerInv, NEW lb \in Loadbalancers, NEW nets \in NetworksOf[lb] \cup {{}},
           Begin(lb, nets)
    PROVE  OwnerInv'
<1>1. nets \subseteq Networks /\ On(lb) \subseteq Networks
  BY TenantNetworkAssumption DEF On, CacheInv, Types, DeviceTypes
<1>2. OtherTypes'
  BY <1>1 DEF Begin, deviceVars, cacheVars, rdsVars, OwnerInv, OtherTypes
<1>3. DeviceInv' /\ EntryIsOwned'
  BY DevicesStay, EntriesShrink DEF Begin, deviceVars, rdsVars, OwnerInv
<1>4. \A n \in nets : Owner[n] \in {"common", TenantOf[lb]}
  BY TenantNetworkAssumption
<1>5. \A n \in On(lb) : Owner[n] \in {"common", TenantOf[lb]}
  BY DEF On, OwnerInv, DeviceInv, AddressIsOwned
<1>6. req' = [lb |-> lb, keep |-> nets, drop |-> On(lb) \ nets]
  BY DEF Begin
<1>7. RequestIsOwned'
  BY <1>4, <1>5, <1>6 DEF RequestIsOwned, Tenant
<1>8. HasPrimary' /\ TodoIsOwned' /\ CommonIsZero' /\ Prepared'
  BY DEF Begin, OwnerInv, StepInv, HasPrimary, TodoIsOwned, CommonIsZero, Prepared
<1> QED
  BY <1>2, <1>3, <1>7, <1>8 DEF OwnerInv, StepInv

LEMMA FoldersOwner ==
    ASSUME CacheInv, OwnerInv, NEW failed, Folders(failed)
    PROVE  OwnerInv'
<1>1. Tenant \in Tenants
  BY TenantIsTenant DEF Folders
<1>2. StepInv' /\ req' \in [lb : Loadbalancers, keep : SUBSET Networks, drop : SUBSET Networks]
  <2>1. CASE Return
    BY <2>1, ReturnStep DEF OwnerInv
  <2>2. CASE GoTo("domains", {})
    BY <2>2 DEF Folders, GoTo, Tenant, OwnerInv, OtherTypes, StepInv, RequestIsOwned, HasPrimary,
                TodoIsOwned, CommonIsZero, Prepared
  <2> QED
    BY <2>1, <2>2 DEF Folders
<1>3. OtherTypes'
  BY <1>1, <1>2 DEF Folders, Costs, cacheVars, rdsVars, OwnerInv, OtherTypes
<1>4. DeviceInv' /\ EntryIsOwned'
  BY DevicesStay, EntriesShrink DEF Folders, rdsVars, OwnerInv
<1> QED
  BY <1>2, <1>3, <1>4 DEF OwnerInv

LEMMA TenantDomainsOwner ==
    ASSUME CacheInv, OwnerInv, NEW failed, TenantDomains(failed)
    PROVE  OwnerInv'
<1>1. StepInv' /\ req' \in [lb : Loadbalancers, keep : SUBSET Networks, drop : SUBSET Networks]
  <2>1. CASE Return
    BY <2>1, ReturnStep DEF OwnerInv
  <2>2. CASE failed = 0 /\ GoTo("annotate", {})
    <3>1. RequestIsOwned' /\ TodoIsOwned' /\ CommonIsZero' /\ Prepared'
      BY <2>2 DEF TenantDomains, GoTo, Tenant, OwnerInv, StepInv, RequestIsOwned, TodoIsOwned,
                  CommonIsZero, Prepared
    <3>2. HasPrimary'
      <4> SUFFICES ASSUME NEW d \in Devices PROVE (Primary(Tenant, d) # {})'
        BY DEF HasPrimary
      <4>1. Tenant' = Tenant
        BY <2>2 DEF GoTo, Tenant
      <4>2. CASE Primary(Tenant, d) = {}
        <5>1. <<NextDomainId, Tenant, FALSE>> \in domains'[d]
          BY <2>2, <4>2 DEF TenantDomains, Before, WithDomain
        <5>2. PICK r \in domains'[d] : r[2] = Tenant /\ ~r[3]
          BY <5>1
        <5>3. r[1] \in Primary(Tenant, d)'
          BY <4>1, <5>2 DEF Primary
        <5> QED
          BY <5>3
      <4>3. CASE Primary(Tenant, d) # {}
        BY <4>1, <4>3 DEF TenantDomains, Primary
      <4> QED
        BY <4>2, <4>3
    <3> QED
      BY <2>2, <3>1, <3>2 DEF GoTo, OwnerInv, OtherTypes, StepInv
  <2> QED
    BY <2>1, <2>2 DEF TenantDomains
<1>2. OtherTypes'
  BY <1>1 DEF TenantDomains, Costs, cacheVars, rdsVars, OwnerInv, OtherTypes
<1>3. EntryIsOwned'
  BY EntriesShrink DEF TenantDomains, rdsVars, OwnerInv
<1>4. DeviceInv'
  <2> DEFINE on == {d \in Devices : d \in Before(failed) /\ Primary(Tenant, d) = {}}
  <2>1. domains' = [d \in Devices |-> IF d \in on THEN WithDomain(d, FALSE) ELSE domains[d]]
    BY DEF TenantDomains
  <2>2. UNCHANGED <<vlan, selfip, ips>>
    BY DEF TenantDomains
  <2> HIDE DEF on
  <2>3. on \in SUBSET Devices
    BY DEF on
  <2> QED
    BY <2>1, <2>2, <2>3, DomainsGrowOwner
<1> QED
  BY <1>1, <1>2, <1>3, <1>4 DEF OwnerInv

\* A VLAN that a device has in a domain of the tenant is the tenant's.
LEMMA VlanOfTenant ==
    ASSUME CacheInv, OwnerInv, NEW d \in Devices, NEW t \in Tenants, NEW n \in VlansOf(d, t)
    PROVE  n \in Networks /\ Owner[n] = t /\ vlan[d][n] \in Ids
<1>1. n \in Networks
  BY DEF VlansOf
<1>2. PICK r \in domains[d] : r[2] = t /\ r[1] = vlan[d][n]
  BY DEF VlansOf
<1>3. vlan[d][n] \in Ids
  BY <1>2 DEF CacheInv, Types, DeviceTypes
<1>4. vlan[d][n] \notin {None, 0}
  BY <1>3 DEF Ids, None
<1>5. PICK s \in domains[d] : s[1] = vlan[d][n] /\ s[2] = Owner[n]
  BY <1>1, <1>4 DEF OwnerInv, DeviceInv, VlanIsOwned
<1>6. r[2] = s[2]
  BY <1>2, <1>5 DEF OwnerInv, DeviceInv, DomainOfOne
<1> QED
  BY <1>1, <1>2, <1>3, <1>5, <1>6

\* What a device tells, the one that fails too, is about networks and domains of the tenant.
LEMMA FoundIsOwned ==
    ASSUME CacheInv, OwnerInv, NEW failed \in Devices \cup {0}, UpdateRdsCache(failed),
           NEW e \in rds_cache', e \notin rds_cache
    PROVE  e[1] = Tenant /\ e[3] \in Networks /\ Owner[e[3]] = Tenant /\ e[2] \in Ids
<1>1. Tenant \in Tenants
  BY TenantIsTenant DEF UpdateRdsCache
<1>2. \/ \E d \in Devices : e \in CachedFrom(d, Tenant)
      \/ /\ failed # 0
         /\ \E seen, last \in SUBSET VlansOf(failed, Tenant) : e \in PartOf(failed, seen, last)
  BY EntriesFound DEF Before
<1>3. PICK d \in Devices : \E n \in VlansOf(d, Tenant), has \in BOOLEAN :
          e = <<Tenant, vlan[d][n], n, has>>
  BY <1>2 DEF CachedFrom, PartOf
<1>4. PICK n \in VlansOf(d, Tenant), has \in BOOLEAN : e = <<Tenant, vlan[d][n], n, has>>
  BY <1>3
<1> QED
  BY <1>1, <1>4, VlanOfTenant

LEMMA UpdateRdsCacheOwner ==
    ASSUME CacheInv, OwnerInv, NEW failed \in Devices \cup {0}, UpdateRdsCache(failed)
    PROVE  OwnerInv'
<1>1. Tenant \in Tenants /\ at = "annotate"
  BY TenantIsTenant DEF UpdateRdsCache
<1>2. StepInv' /\ req' \in [lb : Loadbalancers, keep : SUBSET Networks, drop : SUBSET Networks]
  <2>1. CASE PrepFails
    BY <1>1, <2>1, PrepFailsStep DEF OwnerInv
  <2>2. CASE GoTo("assign", req.keep \cup req.drop)
    BY <2>2 DEF UpdateRdsCache, deviceVars, GoTo, Tenant, Primary, OwnerInv, OtherTypes, StepInv,
                RequestIsOwned, HasPrimary, TodoIsOwned, CommonIsZero, Prepared
  <2> QED
    BY <2>1, <2>2 DEF UpdateRdsCache
<1>3. OtherTypes'
  BY <1>1, <1>2 DEF UpdateRdsCache, Costs, cacheVars, deviceVars, OwnerInv, OtherTypes
<1>4. DeviceInv'
  BY DevicesStay DEF UpdateRdsCache, deviceVars, OwnerInv
<1>5. EntryIsOwned'
  <2> SUFFICES ASSUME NEW e \in rds_cache' PROVE Owner[e[3]] = e[1]
    BY DEF EntryIsOwned
  <2>1. CASE e \in rds_cache
    BY <2>1 DEF OwnerInv, EntryIsOwned
  <2>2. CASE e \notin rds_cache
    BY <2>2, FoundIsOwned
  <2> QED
    BY <2>1, <2>2
<1> QED
  BY <1>2, <1>3, <1>4, <1>5 DEF OwnerInv

LEMMA AnnotateStep ==
    ASSUME CacheInv, OwnerInv, at = "assign", NEW n \in Networks, NEW rd, Annotate(n, rd),
           Common(n) => rd = 0,
           \A d \in Devices : domains[d] \subseteq domains'[d]
    PROVE  StepInv' /\ req' \in [lb : Loadbalancers, keep : SUBSET Networks, drop : SUBSET Networks]
<1>1. RequestIsOwned' /\ TodoIsOwned' /\ Prepared'
  BY DEF Annotate, Tenant, OwnerInv, StepInv, RequestIsOwned, TodoIsOwned, Prepared
<1>2. HasPrimary'
  <2> SUFFICES ASSUME NEW d \in Devices PROVE (Primary(Tenant, d) # {})'
    BY DEF HasPrimary
  <2>1. Tenant' = Tenant
    BY DEF Annotate, Tenant
  <2>2. Primary(Tenant, d) # {}
    BY DEF OwnerInv, StepInv, HasPrimary
  <2> QED
    BY <2>1, <2>2 DEF Primary
<1>3. CommonIsZero'
  BY DEF Annotate, OwnerInv, StepInv, CommonIsZero, CacheInv, Types, RequestTypes
<1> QED
  BY <1>1, <1>2, <1>3 DEF Annotate, StepInv, OwnerInv, OtherTypes

LEMMA PlacedIsTenants ==
    ASSUME OwnerInv, NEW n \in Networks, IsPlaced(n)
    PROVE  Owner[n] = Tenant /\ ~Common(n)
BY RequestsNetwork DEF IsPlaced, OwnerInv, StepInv, TodoIsOwned

LEMMA AssignOwner ==
    ASSUME CacheInv, OwnerInv, NEW n \in Networks, NEW rd,
           \/ KnownDomain(n, rd)
           \/ OnlyDomain(n, rd)
           \/ Place(n, rd)
    PROVE  OwnerInv'
<1>1. at = "assign" /\ Annotate(n, rd) /\ UNCHANGED <<deviceVars, cacheVars, blind, counters>>
  BY DEF KnownDomain, OnlyDomain, Place, IsPlaced
<1>2. Common(n) => rd = 0
  BY DEF KnownDomain, OnlyDomain, Place, IsPlaced
<1>3. StepInv' /\ req' \in [lb : Loadbalancers, keep : SUBSET Networks, drop : SUBSET Networks]
  BY <1>1, <1>2, AnnotateStep DEF deviceVars
<1>4. Tenant \in Tenants
  BY <1>1, TenantIsTenant
<1>5. guessed' \subseteq guessed \cup {Tenant} /\ UNCHANGED <<filled, missed>>
  BY DEF KnownDomain, OnlyDomain, Place, Guess, rdsVars
<1>6. OtherTypes'
  BY <1>1, <1>3, <1>4, <1>5 DEF deviceVars, cacheVars, counters, OwnerInv, OtherTypes
<1>7. DeviceInv'
  BY <1>1, DevicesStay DEF deviceVars, OwnerInv
<1>8. EntryIsOwned'
  <2>1. CASE UNCHANGED rds_cache
    BY <2>1, EntriesShrink DEF OwnerInv
  <2>2. CASE Place(n, rd)
    <3>1. Owner[n] = Tenant
      BY <2>2, PlacedIsTenants DEF Place
    <3> QED
      BY <2>2, <3>1, EntryAddedOwner DEF Place, OwnerInv
  <2> QED
    BY <2>1, <2>2 DEF KnownDomain, OnlyDomain, rdsVars
<1> QED
  BY <1>3, <1>6, <1>7, <1>8 DEF OwnerInv

LEMMA CreateAuxRdOwner ==
    ASSUME CacheInv, OwnerInv, NEW n \in Networks, NEW failed, CreateAuxRd(n, failed)
    PROVE  OwnerInv'
<1>1. at = "assign" /\ Owner[n] = Tenant /\ ~Common(n)
  BY PlacedIsTenants DEF CreateAuxRd, IsPlaced
<1>2. Tenant \in Tenants
  BY <1>1, TenantIsTenant
<1>3. StepInv' /\ req' \in [lb : Loadbalancers, keep : SUBSET Networks, drop : SUBSET Networks]
  <2>1. CASE PrepFails
    BY <1>1, <2>1, PrepFailsStep DEF OwnerInv
  <2>2. CASE Annotate(n, NextDomainId)
    <3>1. \A d \in Devices : domains[d] \subseteq domains'[d]
      BY DEF CreateAuxRd, WithDomain
    <3> QED
      BY <1>1, <2>2, <3>1, AnnotateStep
  <2> QED
    BY <2>1, <2>2 DEF CreateAuxRd
<1>4. OtherTypes'
  BY <1>2, <1>3 DEF CreateAuxRd, Guess, Costs, cacheVars, OwnerInv, OtherTypes
<1>5. DeviceInv'
  <2> DEFINE on == {d \in Devices : d \in Before(failed)}
  <2>1. domains' = [d \in Devices |-> IF d \in on THEN WithDomain(d, TRUE) ELSE domains[d]]
    BY DEF CreateAuxRd
  <2>2. UNCHANGED <<vlan, selfip, ips>>
    BY DEF CreateAuxRd
  <2> HIDE DEF on
  <2>3. on \in SUBSET Devices
    BY DEF on
  <2> QED
    BY <2>1, <2>2, <2>3, DomainsGrowOwner
<1>6. EntryIsOwned'
  <2>1. rds_cache' \subseteq rds_cache \cup {<<Tenant, NextDomainId, n, TRUE>>}
    BY DEF CreateAuxRd
  <2> QED
    BY <1>1, <2>1, EntryAddedOwner DEF OwnerInv
<1> QED
  BY <1>3, <1>4, <1>5, <1>6 DEF OwnerInv

LEMMA CannotPlaceOwner ==
    ASSUME CacheInv, OwnerInv, NEW n \in Networks, CannotPlace(n) \/ OnlyDomainFails(n)
    PROVE  OwnerInv'
<1>1. StepInv' /\ req' \in [lb : Loadbalancers, keep : SUBSET Networks, drop : SUBSET Networks]
  BY PrepFailsStep DEF CannotPlace, OnlyDomainFails, IsPlaced, OwnerInv
<1>2. OtherTypes'
  BY <1>1 DEF CannotPlace, OnlyDomainFails, Costs, deviceVars, cacheVars, rdsVars, counters,
              OwnerInv, OtherTypes
<1>3. DeviceInv' /\ EntryIsOwned'
  BY DevicesStay, EntriesShrink DEF CannotPlace, OnlyDomainFails, deviceVars, rdsVars, OwnerInv
<1> QED
  BY <1>1, <1>2, <1>3 DEF OwnerInv

-------------------------------------------------------------------------------
(* Assuring the subnets.                                                         *)

LEMMA StartConnectOwner ==
    ASSUME CacheInv, OwnerInv, StartConnect
    PROVE  OwnerInv'
<1>1. StepInv' /\ req' = req
  <2>1. HasPrimary'
    BY DEF StartConnect, GoTo, deviceVars, Primary, Tenant, OwnerInv, StepInv, HasPrimary
  <2> QED
    BY <2>1 DEF StartConnect, GoTo, Deleting, Tenant, OwnerInv, StepInv, RequestIsOwned,
                TodoIsOwned, CommonIsZero, Prepared
<1>2. OtherTypes'
  BY <1>1 DEF StartConnect, deviceVars, cacheVars, rdsVars, counters, OwnerInv, OtherTypes
<1>3. DeviceInv' /\ EntryIsOwned'
  BY DevicesStay, EntriesShrink DEF StartConnect, deviceVars, rdsVars, OwnerInv
<1> QED
  BY <1>1, <1>2, <1>3 DEF OwnerInv

\* The pair that is connected next.
LEMMA PairIsPrepared ==
    ASSUME CacheInv, at = "assure", todo # {}
    PROVE  /\ FirstPair[1] \in Devices
           /\ FirstPair[2] \in req.keep
           /\ FirstPair[2] \in Networks
           /\ FirstPair = <<FirstPair[1], FirstPair[2]>>
           /\ FirstPair \in todo
           /\ route_domain_id[FirstPair[2]] \in Nat
<1>1. todo \subseteq Devices \X req.keep /\ req.keep \subseteq Networks
  BY DEF CacheInv, Types, TodoTypes, RequestTypes
<1>2. FirstPair \in todo
  BY <1>1, FirstPairIsLeft
<1>3. route_domain_id[FirstPair[2]] # None
  BY <1>1, <1>2 DEF CacheInv, Annotated
<1> QED
  BY <1>1, <1>2, <1>3 DEF CacheInv, Types, RequestTypes, AnyDomain

\* A VLAN that is created is added to a domain of its owner.
LEMMA VlanOfOwner ==
    ASSUME CacheInv, OwnerInv, NEW d \in Devices, NEW n \in req.keep, NEW added \in BOOLEAN,
           at # "idle"
    PROVE  LET v == Vlan(d, n, added) IN
           /\ v \in RouteDomains
           /\ vlan[d][n] # None => v = vlan[d][n]
           /\ v \notin {None, 0} => \E r \in domains[d] : r[1] = v /\ r[2] = Owner[n]
<1>1. n \in Networks
  BY DEF CacheInv, Types, RequestTypes
<1>2. vlan[d][n] \in RouteDomains
  BY <1>1 DEF OwnerInv, OtherTypes
<1>3. vlan[d][n] \notin {None, 0} => \E r \in domains[d] : r[1] = vlan[d][n] /\ r[2] = Owner[n]
  BY <1>1 DEF OwnerInv, DeviceInv, VlanIsOwned
<1>4. ~Common(n) => Owner[n] = Tenant
  BY RequestsNetwork
<1>5. /\ DomainOfNew(d, n) \in RouteDomains
      /\ ~Common(n) /\ DomainOfNew(d, n) # 0 =>
            \E r \in domains[d] : r[1] = DomainOfNew(d, n) /\ r[2] = Owner[n]
  BY <1>1, <1>4 DEF DomainOfNew, RouteDomains, CacheInv, Types, RequestTypes, AnyDomain
<1>6. 0 \in RouteDomains
  BY DEF RouteDomains
<1>7. CASE Vlan(d, n, added) = vlan[d][n]
  BY <1>2, <1>3, <1>7
<1>8. CASE /\ vlan[d][n] = None
           /\ ~Common(n)
           /\ Vlan(d, n, added) = DomainOfNew(d, n)
  BY <1>5, <1>8
<1>9. CASE vlan[d][n] = None /\ Vlan(d, n, added) = 0
  BY <1>6, <1>9
<1> QED
  BY <1>7, <1>8, <1>9 DEF Vlan

\* One VLAN is written.
LEMMA VlanWritten ==
    ASSUME OwnerInv, UNCHANGED <<domains, ips>>, NEW d \in Devices, NEW n \in Networks,
           NEW v \in RouteDomains, vlan' = [vlan EXCEPT ![d][n] = v],
           v \notin {None, 0} => \E r \in domains[d] : r[1] = v /\ r[2] = Owner[n],
           selfip'[d][n] # None => v = selfip'[d][n],
           \A e \in Devices : \A m \in Networks : <<e, m>> # <<d, n>> => selfip'[e][m] = selfip[e][m]
    PROVE  DeviceInv' /\ vlan' \in [Devices -> [Networks -> RouteDomains]]
<1>1. vlan' \in [Devices -> [Networks -> RouteDomains]]
  BY DEF OwnerInv, OtherTypes
<1>2. \A e \in Devices : \A m \in Networks :
         vlan'[e][m] = IF <<e, m>> = <<d, n>> THEN v ELSE vlan[e][m]
  BY DEF OwnerInv, OtherTypes
<1>3. DomainOfOne' /\ AddressIsOwned'
  BY DEF OwnerInv, DeviceInv, DomainOfOne, AddressIsOwned
<1>4. VlanIsOwned'
  BY <1>2 DEF OwnerInv, DeviceInv, VlanIsOwned
<1>5. SelfipIsOnVlan'
  BY <1>2 DEF OwnerInv, DeviceInv, SelfipIsOnVlan
<1> QED
  BY <1>1, <1>3, <1>4, <1>5 DEF DeviceInv

\* And so is one that is moved to the tenant's first domain.
LEMMA VlanForSelfipOfOwner ==
    ASSUME CacheInv, OwnerInv, NEW d \in Devices, NEW n \in req.keep, at = "assure",
           route_domain_id[n] \in Nat
    PROVE  LET v == VlanForSelfip(d, n) IN
           /\ v \in RouteDomains
           /\ v \notin {None, 0} => \E r \in domains[d] : r[1] = v /\ r[2] = Owner[n]
<1> DEFINE v == VlanForSelfip(d, n)
<1>1. n \in Networks
  BY DEF CacheInv, Types, RequestTypes
<1>2. CASE v = Vlan(d, n, TRUE)
  <2>1. /\ Vlan(d, n, TRUE) \in RouteDomains
        /\ Vlan(d, n, TRUE) \notin {None, 0} =>
              \E r \in domains[d] : r[1] = Vlan(d, n, TRUE) /\ r[2] = Owner[n]
    BY VlanOfOwner
  <2> QED
    BY <1>2, <2>1
<1>3. CASE \E r \in domains[d] : /\ r[1] = route_domain_id[n]
                                  /\ v = CHOOSE p \in Primary(Tenant, d) : TRUE
  <2>1. route_domain_id[n] \in Ids
    BY <1>3 DEF CacheInv, Types, DeviceTypes
  <2>2. ~Common(n)
    BY <1>1, <2>1 DEF Ids, None, OwnerInv, StepInv, CommonIsZero
  <2>3. Owner[n] = Tenant
    BY <2>2, RequestsNetwork
  <2>4. Primary(Tenant, d) # {}
    BY DEF OwnerInv, StepInv, HasPrimary
  <2>5. v \in Primary(Tenant, d)
    BY <1>3, <2>4
  <2> HIDE DEF v
  <2>6. PICK r \in domains[d] : r[1] = v /\ r[2] = Tenant
    BY <2>5 DEF Primary
  <2>7. v \in RouteDomains
    BY <2>6 DEF RouteDomains, CacheInv, Types, DeviceTypes, Ids
  <2> QED
    BY <2>3, <2>6, <2>7 DEF v
<1> QED
  BY <1>2, <1>3 DEF VlanForSelfip

LEMMA ConnectFailsOwner ==
    ASSUME CacheInv, OwnerInv, NEW outcome \in {"vlan", "domain", "binding", "selfip", "moved"},
           ConnectFails(outcome)
    PROVE  OwnerInv'
<1> DEFINE d == FirstPair[1]
           n == FirstPair[2]
<1>1. /\ at = "assure"
      /\ todo # {}
      /\ UNCHANGED <<folder, domains, selfip, snatpool, ips, assured_subnets, rdsVars, blind>>
  BY DEF ConnectFails
<1>2. /\ d \in Devices /\ n \in req.keep /\ n \in Networks /\ route_domain_id[n] \in Nat
  BY <1>1, PairIsPrepared
<1>3. StepInv' /\ req' \in [lb : Loadbalancers, keep : SUBSET Networks, drop : SUBSET Networks]
  BY <1>1, PrepFailsStep DEF ConnectFails, OwnerInv
<1>4. PICK to : /\ vlan' = [vlan EXCEPT ![d][n] = to]
                /\ \/ to = vlan[d][n]
                   \/ \E added \in BOOLEAN : to = Vlan(d, n, added)
                   \/ to = VlanForSelfip(d, n) /\ selfip[d][n] = None
  BY DEF ConnectFails
<1> HIDE DEF d, n
<1>5. vlan[d][n] \in RouteDomains
  BY <1>2 DEF OwnerInv, OtherTypes
<1>6. /\ to \in RouteDomains
      /\ to \notin {None, 0} => \E r \in domains[d] : r[1] = to /\ r[2] = Owner[n]
      /\ selfip[d][n] # None => to = selfip[d][n]
  <2>1. selfip[d][n] # None => selfip[d][n] = vlan[d][n]
    BY <1>2 DEF OwnerInv, DeviceInv, SelfipIsOnVlan
  <2>2. CASE to = vlan[d][n]
    BY <1>2, <1>5, <2>1, <2>2 DEF OwnerInv, DeviceInv, VlanIsOwned
  <2>3. ASSUME NEW added \in BOOLEAN, to = Vlan(d, n, added)
        PROVE  /\ to \in RouteDomains
               /\ vlan[d][n] # None => to = vlan[d][n]
               /\ to \notin {None, 0} => \E r \in domains[d] : r[1] = to /\ r[2] = Owner[n]
    BY <1>1, <1>2, <2>3, VlanOfOwner
  <2>4. CASE to = VlanForSelfip(d, n) /\ selfip[d][n] = None
    BY <1>1, <1>2, <2>4, VlanForSelfipOfOwner
  <2> QED
    BY <1>4, <2>1, <2>2, <2>3, <2>4
<1>7. DeviceInv' /\ vlan' \in [Devices -> [Networks -> RouteDomains]]
  BY <1>1, <1>2, <1>4, <1>6, VlanWritten
<1>8. assured_networks' \in [Devices -> SUBSET Networks]
  BY <1>2 DEF ConnectFails, OwnerInv, OtherTypes, d, n
<1>9. OtherTypes'
  BY <1>1, <1>3, <1>7, <1>8 DEF ConnectFails, Costs, rdsVars, OwnerInv, OtherTypes
<1>10. EntryIsOwned'
  BY <1>1, EntriesShrink DEF rdsVars, OwnerInv
<1> QED
  BY <1>3, <1>7, <1>9, <1>10 DEF OwnerInv

LEMMA ConnectOwner ==
    ASSUME CacheInv, CacheInv', OwnerInv, NEW unbound, Connect(unbound)
    PROVE  OwnerInv'
<1> DEFINE d == FirstPair[1]
           n == FirstPair[2]
           rd == route_domain_id[n]
           exists == <<Tenant, n>> \in assured_subnets[d] \/ selfip[d][n] # None
           to == IF exists THEN Vlan(d, n, TRUE) ELSE VlanForSelfip(d, n)
<1>1. /\ at = "assure"
      /\ todo # {}
      /\ UNCHANGED <<folder, domains, snatpool, ips, assured_subnets, rdsVars, blind,
                     max_namespaces>>
      /\ vlan' = [vlan EXCEPT ![d][n] = to]
      /\ assured_networks' = [assured_networks EXCEPT ![d] = @ \cup {n}]
      /\ selfip' = IF exists \/ to # rd THEN selfip ELSE [selfip EXCEPT ![d][n] = rd]
      /\ \/ PrepFails
         \/ todo = {FirstPair} /\ GoTo("snats", req.keep)
         \/ GoTo("assure", todo \ {FirstPair})
  BY DEF Connect, Costs
<1>2. d \in Devices /\ n \in req.keep /\ n \in Networks /\ rd \in Nat
  BY <1>1, PairIsPrepared
<1>3. /\ Vlan(d, n, TRUE) \in RouteDomains
      /\ vlan[d][n] # None => Vlan(d, n, TRUE) = vlan[d][n]
      /\ Vlan(d, n, TRUE) \notin {None, 0} =>
            \E r \in domains[d] : r[1] = Vlan(d, n, TRUE) /\ r[2] = Owner[n]
  BY <1>1, <1>2, VlanOfOwner
<1>4. /\ to \in RouteDomains
      /\ to \notin {None, 0} => \E r \in domains[d] : r[1] = to /\ r[2] = Owner[n]
  BY <1>1, <1>2, <1>3, VlanForSelfipOfOwner
<1>5. selfip'[d][n] # None => to = selfip'[d][n]
  <2>1. CASE selfip[d][n] # None
    <3>1. vlan[d][n] = selfip[d][n]
      BY <1>2, <2>1 DEF OwnerInv, DeviceInv, SelfipIsOnVlan
    <3> QED
      BY <1>1, <1>3, <2>1, <3>1
  <2>2. CASE selfip[d][n] = None
    BY <1>1, <1>2, <2>2 DEF CacheInv, Types, DeviceTypes
  <2> QED
    BY <2>1, <2>2
<1>6. \A e \in Devices : \A m \in Networks : <<e, m>> # <<d, n>> => selfip'[e][m] = selfip[e][m]
  BY <1>1, <1>2 DEF CacheInv, Types, DeviceTypes
<1>7. DeviceInv' /\ vlan' \in [Devices -> [Networks -> RouteDomains]]
  <2> HIDE DEF d, n, to
  <2> QED
    BY <1>1, <1>2, <1>4, <1>5, <1>6, VlanWritten
<1>8. StepInv' /\ req' \in [lb : Loadbalancers, keep : SUBSET Networks, drop : SUBSET Networks]
  <2>1. CASE PrepFails
    BY <1>1, <2>1, PrepFailsStep DEF OwnerInv
  <2>2. CASE GoTo("snats", req.keep)
    <3>1. \A m \in req.keep : route_domain_id[m] # None
      BY <1>1, <1>2, <2>2, PairIsPrepared DEF CacheInv, Annotated
    <3>2. Prepared'
      BY <2>2, <3>1 DEF GoTo, Prepared
    <3>3. at # "idle"
      BY <1>1
    <3> QED
      BY <2>2, <3>2, <3>3 DEF GoTo, Tenant, OwnerInv, OtherTypes, StepInv, RequestIsOwned,
                              HasPrimary, TodoIsOwned, CommonIsZero
  <2>3. CASE GoTo("assure", todo \ {FirstPair})
    <3>1. HasPrimary'
      BY <1>1, <2>3 DEF GoTo, Primary, Tenant, OwnerInv, StepInv, HasPrimary
    <3>2. at # "idle"
      BY <1>1
    <3> QED
      BY <2>3, <3>1, <3>2 DEF GoTo, Tenant, OwnerInv, OtherTypes, StepInv, RequestIsOwned,
                              TodoIsOwned, CommonIsZero, Prepared
  <2> QED
    BY <1>1, <2>1, <2>2, <2>3
<1>9. assured_networks' \in [Devices -> SUBSET Networks]
  BY <1>1, <1>2 DEF OwnerInv, OtherTypes
<1>10. OtherTypes'
  BY <1>1, <1>7, <1>8, <1>9 DEF rdsVars, OwnerInv, OtherTypes
<1>11. EntryIsOwned'
  BY <1>1, EntriesShrink DEF rdsVars, OwnerInv
<1> QED
  BY <1>7, <1>8, <1>10, <1>11 DEF OwnerInv

LEMMA AssureSnatsOwner ==
    ASSUME CacheInv, OwnerInv, NEW n \in Networks, NEW failed, NEW pooled,
           AssureSnats(n, failed, pooled)
    PROVE  OwnerInv'
<1>1. /\ at = "snats"
      /\ n \in todo
      /\ Tenant \in Tenants
      /\ UNCHANGED <<folder, domains, vlan, selfip, ips, assured_networks, rdsVars, stale>>
  BY TenantIsTenant DEF AssureSnats
<1>2. blind' \subseteq blind
      /\ (blind' # blind => /\ failed = 0
                            /\ blind' = blind \ {n}
                            /\ \A d \in Devices : selfip[d][n] # None)
  BY DEF AssureSnats
<1>3. StepInv' /\ req' \in [lb : Loadbalancers, keep : SUBSET Networks, drop : SUBSET Networks]
  <2>1. CASE PrepFails
    BY <1>1, <2>1, PrepFailsStep DEF OwnerInv
  <2>2. CASE GoTo("service", {})
    <3>1. \A d \in Devices : \A m \in req.keep :
             selfip[d][m] # None \/ m \in blind \cup stale[d]
      BY <1>1 DEF CacheInv, Connected
    <3>2. \A d \in Devices : \A m \in req.keep :
             selfip'[d][m] # None \/ m \in blind' \cup stale'[d]
      BY <1>1, <1>2, <3>1
    <3>3. Prepared'
      BY <1>1, <2>2, <3>2 DEF GoTo, OwnerInv, StepInv, Prepared
    <3> QED
      BY <1>1, <2>2, <3>3 DEF GoTo, Tenant, OwnerInv, OtherTypes, StepInv, RequestIsOwned, HasPrimary,
                        TodoIsOwned, CommonIsZero
  <2>3. CASE GoTo("snats", todo \ {n})
    BY <1>1, <2>3 DEF GoTo, Tenant, OwnerInv, OtherTypes, StepInv, RequestIsOwned, HasPrimary,
                      TodoIsOwned, CommonIsZero, Prepared
  <2> QED
    BY <1>1, <2>1, <2>2, <2>3 DEF AssureSnats
<1>4. snatpool' \in [Devices -> SUBSET (Tenants \X Networks)]
  BY <1>1 DEF AssureSnats, OwnerInv, OtherTypes
<1>5. OtherTypes'
  BY <1>1, <1>2, <1>3, <1>4 DEF AssureSnats, Costs, rdsVars, OwnerInv, OtherTypes
<1>6. DeviceInv' /\ EntryIsOwned'
  BY <1>1, DevicesStay, EntriesShrink DEF rdsVars, OwnerInv
<1> QED
  BY <1>3, <1>5, <1>6 DEF OwnerInv

-------------------------------------------------------------------------------
(* The service, and the subnets that it leaves.                                  *)

LEMMA AssureServiceOwner ==
    ASSUME CacheInv, OwnerInv, NEW failed, AssureService(failed)
    PROVE  OwnerInv'
<1>1. StepInv' /\ req' = req
  BY DEF AssureService, Tenant, OwnerInv, StepInv, RequestIsOwned, HasPrimary, TodoIsOwned,
         CommonIsZero, Prepared
<1>2. OtherTypes'
  BY <1>1 DEF AssureService, Costs, cacheVars, rdsVars, OwnerInv, OtherTypes
<1>3. EntryIsOwned'
  BY EntriesShrink DEF AssureService, rdsVars, OwnerInv
<1>4. AddressIsOwned'
  <2> SUFFICES ASSUME NEW d \in Devices, NEW i \in ips'[d]
               PROVE  i[3] # None /\ Owner[i[2]] \in {"common", TenantOf[i[1]]}
    BY DEF AddressIsOwned
  <2>1. CASE i \in ips[d]
    BY <2>1 DEF OwnerInv, DeviceInv, AddressIsOwned
  <2>2. CASE i \in Addresses
    <3>1. PICK n \in req.keep : i = <<req.lb, n, route_domain_id[n]>>
      BY <2>2 DEF Addresses
    <3> QED
      BY <3>1 DEF AssureService, Tenant, OwnerInv, StepInv, Prepared, RequestIsOwned
  <2> QED
    BY <2>1, <2>2 DEF AssureService
<1>5. DeviceInv'
  BY <1>4 DEF AssureService, OwnerInv, DeviceInv, DomainOfOne, VlanIsOwned, SelfipIsOnVlan
<1> QED
  BY <1>1, <1>2, <1>3, <1>5 DEF OwnerInv

\* What is released is of the networks that the request gives up.
LEMMA ReleasedIsDropped ==
    ASSUME CacheInv, OwnerInv, at \in {"release_shared", "release"}
    PROVE  /\ FirstDevice \in Devices
           /\ ToDelete(FirstDevice) \subseteq req.drop
           /\ ToDelete(FirstDevice) \subseteq Networks
<1>1. FirstDevice \in Devices
  BY FirstDeviceIsLeft DEF CacheInv, Types, TodoTypes
<1> QED
  BY <1>1 DEF ToDelete, OwnerInv, StepInv, TodoIsOwned, CacheInv, Types, RequestTypes

LEMMA ReleaseSharedOwner ==
    ASSUME CacheInv, OwnerInv, NEW failed, NEW kept, NEW lost, ReleaseShared(failed, kept, lost)
    PROVE  OwnerInv'
<1> DEFINE d == FirstDevice
           others == {n \in ToDelete(d) : InUseByOthers(d, n)}
<1>1. /\ at = "release_shared"
      /\ UNCHANGED <<folder, domains, vlan, selfip, ips, assured_networks, rdsVars, req,
                     route_domain_id>>
  BY DEF ReleaseShared
<1>2. d \in Devices /\ ToDelete(d) \subseteq Networks
  BY <1>1, ReleasedIsDropped
<1>3. check_for_delete' = [check_for_delete EXCEPT ![d] = @ \ (others \ (failed \cup lost))]
  BY DEF ReleaseShared
<1>4. \A e \in Devices : check_for_delete'[e] \subseteq check_for_delete[e]
  BY <1>2, <1>3 DEF CacheInv, Types, RequestTypes
<1>5. at' \in {"release_shared", "release"}
  BY <1>1 DEF ReleaseShared
<1>6. StepInv'
  BY <1>1, <1>4, <1>5 DEF Tenant, OwnerInv, StepInv, RequestIsOwned, HasPrimary, TodoIsOwned,
                          CommonIsZero, Prepared
<1>7. snatpool' \in [Devices -> SUBSET (Tenants \X Networks)]
  BY <1>2 DEF ReleaseShared, OwnerInv, OtherTypes
<1>8. blind' \subseteq Networks
  BY <1>2 DEF ReleaseShared, OwnerInv, OtherTypes
<1>9. OtherTypes'
  BY <1>1, <1>7, <1>8 DEF ReleaseShared, Costs, rdsVars, OwnerInv, OtherTypes
<1>10. DeviceInv' /\ EntryIsOwned'
  BY <1>1, DevicesStay, EntriesShrink DEF rdsVars, OwnerInv
<1> QED
  BY <1>6, <1>9, <1>10 DEF OwnerInv

LEMMA ReleaseOwner ==
    ASSUME CacheInv, OwnerInv, NEW failed, NEW stays, NEW cut, Release(failed, stays, cut)
    PROVE  OwnerInv'
<1> DEFINE d == FirstDevice
           gone == ToDelete(d) \ failed
<1>1. at = "release" /\ UNCHANGED <<folder, domains, snatpool, ips, filled>>
  BY DEF Release
<1>2. d \in Devices /\ ToDelete(d) \subseteq Networks /\ Tenant \in Tenants
  BY <1>1, ReleasedIsDropped, TenantIsTenant
<1>3. StepInv' /\ req' \in [lb : Loadbalancers, keep : SUBSET Networks, drop : SUBSET Networks]
  <2>1. CASE Return
    BY <2>1, ReturnStep DEF OwnerInv
  <2>2. CASE \E rest : GoTo("cleanup", rest) \/ GoTo("release", rest)
    BY <1>1, <2>2 DEF GoTo, Tenant, OwnerInv, OtherTypes, StepInv, RequestIsOwned, HasPrimary,
                      TodoIsOwned, CommonIsZero, Prepared
  <2> QED
    BY <1>1, <2>1, <2>2 DEF Release
<1>4. /\ selfip' = [selfip EXCEPT ![d] = [n \in Networks |-> IF n \in gone THEN None ELSE @[n]]]
      /\ vlan' = [vlan EXCEPT ![d] =
                    [n \in Networks |-> IF n \in gone /\ VlanGoes(d, n, stays) THEN None ELSE @[n]]]
  BY DEF Release
<1>5. vlan' \in [Devices -> [Networks -> RouteDomains]]
  BY <1>2, <1>4 DEF RouteDomains, OwnerInv, OtherTypes
<1>6. \A e \in Devices : \A n \in Networks :
         /\ selfip'[e][n] \in {selfip[e][n], None}
         /\ vlan'[e][n] \in {vlan[e][n], None}
         /\ selfip'[e][n] # None => vlan'[e][n] = vlan[e][n]
  <2> SUFFICES ASSUME NEW e \in Devices, NEW n \in Networks
               PROVE  /\ selfip'[e][n] \in {selfip[e][n], None}
                      /\ vlan'[e][n] \in {vlan[e][n], None}
                      /\ selfip'[e][n] # None => vlan'[e][n] = vlan[e][n]
    OBVIOUS
  <2> HIDE DEF gone, d
  <2>1. CASE e = d
    BY <1>2, <1>4, <2>1 DEF CacheInv, Types, DeviceTypes, OwnerInv, OtherTypes
  <2>2. CASE e # d
    BY <1>2, <1>4, <2>2 DEF CacheInv, Types, DeviceTypes, OwnerInv, OtherTypes
  <2> QED
    BY <2>1, <2>2
<1>7. DeviceInv'
  <2>1. VlanIsOwned' /\ SelfipIsOnVlan'
    BY <1>1, <1>6 DEF OwnerInv, DeviceInv, VlanIsOwned, SelfipIsOnVlan
  <2> QED
    BY <1>1, <2>1 DEF OwnerInv, DeviceInv, DomainOfOne, AddressIsOwned
<1>8. assured_networks' \in [Devices -> SUBSET Networks]
  BY <1>2 DEF Release, OwnerInv, OtherTypes
<1>9. guessed' \cup missed' \subseteq Tenants /\ blind' \subseteq Networks
  BY <1>2 DEF Release, OwnerInv, OtherTypes
<1>10. OtherTypes'
  BY <1>1, <1>3, <1>5, <1>8, <1>9 DEF Release, Costs, OwnerInv, OtherTypes
<1>11. EntryIsOwned'
  BY EntriesShrink DEF Release, Forgotten, OwnerInv
<1> QED
  BY <1>3, <1>7, <1>10, <1>11 DEF OwnerInv

LEMMA PostFailsOwner ==
    ASSUME CacheInv, OwnerInv, PostFails
    PROVE  OwnerInv'
<1>1. StepInv' /\ req' \in [lb : Loadbalancers, keep : SUBSET Networks, drop : SUBSET Networks]
  <2>1. CASE Return
    BY <2>1, ReturnStep DEF OwnerInv
  <2>2. CASE GoTo("cleanup", {})
    BY <2>2 DEF PostFails, GoTo, Tenant, OwnerInv, OtherTypes, StepInv, RequestIsOwned,
                HasPrimary, TodoIsOwned, CommonIsZero, Prepared
  <2> QED
    BY <2>1, <2>2 DEF PostFails
<1>2. OtherTypes'
  BY <1>1 DEF PostFails, Costs, deviceVars, cacheVars, rdsVars, OwnerInv, OtherTypes
<1>3. DeviceInv' /\ EntryIsOwned'
  BY DevicesStay, EntriesShrink DEF PostFails, deviceVars, rdsVars, OwnerInv
<1> QED
  BY <1>1, <1>2, <1>3 DEF OwnerInv

\* A domain in which a VLAN is stays on the device.
LEMMA CleanupOwner ==
    ASSUME CacheInv, OwnerInv, NEW failed, Cleanup(failed)
    PROVE  OwnerInv'
<1>1. StepInv' /\ req' \in [lb : Loadbalancers, keep : SUBSET Networks, drop : SUBSET Networks]
  BY ReturnStep DEF Cleanup, OwnerInv
<1>2. Tenant \in Tenants
  BY TenantIsTenant DEF Cleanup
<1>3. folder' \in [Devices -> SUBSET Tenants]
  BY DEF Cleanup, OwnerInv, OtherTypes
<1>4. OtherTypes'
  BY <1>1, <1>2, <1>3 DEF Cleanup, Costs, cacheVars, OwnerInv, OtherTypes
<1>5. EntryIsOwned'
  BY EntriesShrink DEF Cleanup, OwnerInv
<1>6. \A d \in Devices : /\ domains'[d] \subseteq domains[d]
                         /\ \A r \in domains[d] : InUse(d, r) => r \in domains'[d]
  BY DEF Cleanup, Deletable
<1>7. VlanIsOwned'
  <2> SUFFICES ASSUME NEW d \in Devices, NEW n \in Networks, vlan[d][n] \notin {None, 0}
               PROVE  \E r \in domains'[d] : r[1] = vlan[d][n] /\ r[2] = Owner[n]
    BY DEF Cleanup, VlanIsOwned
  <2>1. PICK r \in domains[d] : r[1] = vlan[d][n] /\ r[2] = Owner[n]
    BY DEF OwnerInv, DeviceInv, VlanIsOwned
  <2>2. InUse(d, r)
    BY <2>1 DEF InUse
  <2> QED
    BY <1>6, <2>1, <2>2
<1>8. DomainOfOne'
  BY <1>6 DEF OwnerInv, DeviceInv, DomainOfOne
<1>9. SelfipIsOnVlan' /\ AddressIsOwned'
  BY DEF Cleanup, OwnerInv, DeviceInv, SelfipIsOnVlan, AddressIsOwned
<1> QED
  BY <1>1, <1>4, <1>5, <1>7, <1>8, <1>9 DEF OwnerInv, DeviceInv

LEMMA ResetOwner ==
    ASSUME CacheInv, OwnerInv, FlushCache \/ Restart
    PROVE  OwnerInv'
<1>1. /\ assured_networks' = [d \in Devices |-> {}]
      /\ UNCHANGED <<deviceVars, blind, stale, max_namespaces>>
      /\ rds_cache' \subseteq rds_cache
      /\ filled' \subseteq filled
      /\ UNCHANGED <<guessed, missed>>
  BY DEF FlushCache, Restart, Reset, rdsVars
<1>2. StepInv' /\ req' \in [lb : Loadbalancers, keep : SUBSET Networks, drop : SUBSET Networks]
  <2>1. CASE Restart
    BY <2>1, ReturnStep DEF Restart, OwnerInv
  <2>2. CASE FlushCache
    <3>1. UNCHANGED requestVars
      BY <2>2 DEF FlushCache
    <3>2. HasPrimary'
      BY <1>1, <3>1 DEF requestVars, deviceVars, Primary, Tenant, OwnerInv, StepInv, HasPrimary
    <3> QED
      BY <1>1, <3>1, <3>2 DEF requestVars, deviceVars, Tenant, OwnerInv, OtherTypes, StepInv,
                              RequestIsOwned, TodoIsOwned, CommonIsZero, Prepared
  <2> QED
    BY <2>1, <2>2
<1>3. OtherTypes'
  BY <1>1, <1>2 DEF deviceVars, OwnerInv, OtherTypes
<1>4. DeviceInv' /\ EntryIsOwned'
  BY <1>1, DevicesStay, EntriesShrink DEF deviceVars, OwnerInv
<1> QED
  BY <1>2, <1>3, <1>4 DEF OwnerInv

-------------------------------------------------------------------------------
LEMMA NextOwner ==
    ASSUME CacheInv, CacheInv', OwnerInv, [Next]_vars
    PROVE  OwnerInv'
<1>1. CASE \E lb \in Loadbalancers : \E nets \in NetworksOf[lb] \cup {{}} : Begin(lb, nets)
  BY <1>1, BeginOwner
<1>2. CASE \E failed \in Devices \cup {0} :
              \/ Folders(failed)
              \/ TenantDomains(failed)
              \/ UpdateRdsCache(failed)
              \/ \E n \in Networks : CreateAuxRd(n, failed)
              \/ \E n \in Networks, pooled \in BOOLEAN : AssureSnats(n, failed, pooled)
  BY <1>2, FoldersOwner, TenantDomainsOwner, UpdateRdsCacheOwner, CreateAuxRdOwner,
     AssureSnatsOwner
<1>3. CASE \E n \in Networks :
              \/ \E rd \in {0} \cup Cached(n) : KnownDomain(n, rd)
              \/ \E rd \in Primary(Tenant, 1) : OnlyDomain(n, rd)
              \/ OnlyDomainFails(n)
              \/ \E rd \in CachedDomains : Place(n, rd)
              \/ CannotPlace(n)
  BY <1>3, AssignOwner, CannotPlaceOwner
<1>4. CASE StartConnect \/ (\E unbound \in BOOLEAN : Connect(unbound)) \/ PostFails
  BY <1>4, StartConnectOwner, ConnectOwner, PostFailsOwner
<1>5. CASE \E outcome \in {"vlan", "domain", "binding", "selfip", "moved"} : ConnectFails(outcome)
  BY <1>5, ConnectFailsOwner
<1>6. CASE \E failed \in SUBSET Devices : AssureService(failed) \/ Cleanup(failed)
  BY <1>6, AssureServiceOwner, CleanupOwner
<1>7. CASE \/ \E failed \in SUBSET req.drop, kept \in SUBSET req.drop, lost \in SUBSET req.drop :
                  ReleaseShared(failed, kept, lost)
           \/ \E failed \in SUBSET req.drop, stays \in SUBSET req.drop, cut \in SUBSET req.drop :
                  Release(failed, stays, cut)
  BY <1>7, ReleaseOwner, ReleaseSharedOwner
<1>8. CASE FlushCache \/ Restart
  BY <1>8, ResetOwner
<1>9. CASE UNCHANGED vars
  <2>1. OtherTypes' /\ DeviceInv' /\ EntryIsOwned'
    BY <1>9, DevicesStay, EntriesShrink
       DEF vars, deviceVars, cacheVars, rdsVars, requestVars, counters, OwnerInv, OtherTypes
  <2>2. HasPrimary'
    BY <1>9 DEF vars, deviceVars, requestVars, Primary, Tenant, OwnerInv, StepInv, HasPrimary
  <2> QED
    BY <1>9, <2>1, <2>2 DEF vars, deviceVars, requestVars, Tenant, OwnerInv, StepInv,
                            RequestIsOwned, TodoIsOwned, CommonIsZero, Prepared
<1> QED
  BY <1>1, <1>2, <1>3, <1>4, <1>5, <1>6, <1>7, <1>8, <1>9 DEF Next

(***************************************************************************)
(* What devices and requests hold, whatever the caches say: ids of domains    *)
(* are of one tenant, VLANs are in domains of their owner and self IPs in the *)
(* domain of their VLAN.                                                      *)
(***************************************************************************)
THEOREM NetworkOwners == Spec => []OwnerInv
<1>1. CacheInv /\ CacheInv' /\ OwnerInv /\ [Next]_vars => OwnerInv'
  BY NextOwner
<1> QED
  BY <1>1, InitOwner, NetworkInvariant, PTL DEF Spec

(***************************************************************************)
(* The type invariant of the model: what network_service keeps of devices and *)
(* requests has its type, whichever calls fail.                               *)
(***************************************************************************)
THEOREM NetworkTypes == Spec => []TypeOK
<1>1. CacheInv /\ OwnerInv => TypeOK
  <2> SUFFICES ASSUME CacheInv, OwnerInv PROVE TypeOK
    OBVIOUS
  <2>1. AnyDomain = RouteDomains /\ Ids = Nat \ {0} /\ Nat \subseteq RouteDomains
    BY DEF AnyDomain, RouteDomains, Ids
  <2>2. rds_cache \subseteq Tenants \X RouteDomains \X Networks \X BOOLEAN
    BY <2>1 DEF CacheInv, Types, CacheTypes
  <2> QED
    BY <2>1, <2>2 DEF TypeOK, CacheInv, Types, DeviceTypes, CacheTypes, RequestTypes, OwnerInv,
                      OtherTypes
<1> QED
  BY <1>1, NetworkInvariant, NetworkOwners, PTL

-------------------------------------------------------------------------------
(* Addresses are where the self IPs are.                                         *)

LEMMA InitConnected == Init => ConnectedInv
BY DEF Init, ConnectedInv, OneDomain, AddressHasSelfip, DomainsOf, Cached

\* A network is nowhere but where it was, or in one domain.
LEMMA OneDomainKept ==
    ASSUME OneDomain, guessed \subseteq guessed',
           \A n \in Networks : Trusted(n)' =>
               \/ DomainsOf(n)' \subseteq DomainsOf(n) \cup {None}
               \/ \E x : DomainsOf(n)' \subseteq {x, None}
    PROVE  OneDomain'
<1> SUFFICES ASSUME NEW n \in Networks, Trusted(n)',
                    NEW x \in DomainsOf(n)' \ {None}, NEW y \in DomainsOf(n)' \ {None}
             PROVE  x = y
  BY DEF OneDomain
<1>1. Trusted(n)
  BY DEF Trusted, Common
<1>2. CASE DomainsOf(n)' \subseteq DomainsOf(n) \cup {None}
  BY <1>1, <1>2 DEF OneDomain
<1>3. CASE \E z : DomainsOf(n)' \subseteq {z, None}
  BY <1>3
<1> QED
  BY <1>2, <1>3

LEMMA SelfipsKept ==
    ASSUME CacheInv, AddressHasSelfip, guessed \subseteq guessed', blind \subseteq blind',
           \A d \in Devices : stale[d] \subseteq stale'[d],
           \A d \in Devices : ips'[d] \subseteq ips[d],
           \A d \in Devices : \A n \in Networks : selfip[d][n] # None => selfip'[d][n] # None
    PROVE  AddressHasSelfip'
<1> SUFFICES ASSUME NEW d \in Devices, NEW i \in ips'[d], Trusted(i[2])',
                    i[2] \notin blind' \cup stale'[d]
             PROVE  selfip'[d][i[2]] # None
  BY DEF AddressHasSelfip
<1>1. i \in ips[d] /\ i[2] \in Networks
  BY DEF CacheInv, Types, DeviceTypes
<1>2. Trusted(i[2])
  BY DEF Trusted, Common
<1> QED
  BY <1>1, <1>2 DEF AddressHasSelfip

\* Nothing is new, self IPs may go.
LEMMA DomainsKept ==
    ASSUME CacheInv, OneDomain, guessed \subseteq guessed',
           \A d \in Devices : \A n \in Networks : selfip'[d][n] \in {selfip[d][n], None},
           \A d \in Devices : ips'[d] \subseteq ips[d],
           rds_cache' \subseteq rds_cache,
           \A n \in Networks : route_domain_id'[n] \in {route_domain_id[n], None}
    PROVE  OneDomain'
<1>1. \A n \in Networks : Cached(n)' \subseteq Cached(n)
  BY DEF Cached
<1>2. \A n \in Networks : DomainsOf(n)' \subseteq DomainsOf(n) \cup {None}
  BY <1>1 DEF DomainsOf
<1> QED
  BY <1>2, OneDomainKept

LEMMA ConnectedKept ==
    ASSUME CacheInv, ConnectedInv, guessed \subseteq guessed', blind \subseteq blind',
           UNCHANGED <<selfip, stale>>,
           \A d \in Devices : ips'[d] \subseteq ips[d],
           rds_cache' \subseteq rds_cache,
           \A n \in Networks : route_domain_id'[n] \in {route_domain_id[n], None}
    PROVE  ConnectedInv'
<1>1. OneDomain'
  BY DomainsKept DEF ConnectedInv
<1>2. AddressHasSelfip'
  BY SelfipsKept DEF ConnectedInv
<1> QED
  BY <1>1, <1>2 DEF ConnectedInv

\* A step that does not annotate.
LEMMA RouteKept ==
    ASSUME Return \/ PrepFails \/ \E step, rest : GoTo(step, rest)
    PROVE  \A n \in Networks : route_domain_id'[n] \in {route_domain_id[n], None}
BY DEF Return, PrepFails, GoTo

\* The steps after which nothing names another domain than before.
LEMMA QuietConnected ==
    ASSUME CacheInv, ConnectedInv,
           \/ \E lb \in Loadbalancers : \E nets \in NetworksOf[lb] \cup {{}} : Begin(lb, nets)
           \/ \E failed : Folders(failed) \/ TenantDomains(failed) \/ Cleanup(failed)
           \/ \E n \in Networks : CannotPlace(n) \/ OnlyDomainFails(n)
           \/ StartConnect \/ PostFails \/ FlushCache \/ Restart
           \/ \E outcome : ConnectFails(outcome)
           \/ \E failed, kept, lost : ReleaseShared(failed, kept, lost)
    PROVE  ConnectedInv'
<1>1. CASE \E lb \in Loadbalancers : \E nets \in NetworksOf[lb] \cup {{}} : Begin(lb, nets)
  BY <1>1, ConnectedKept DEF Begin, deviceVars, rdsVars
<1>2. CASE \E failed : Folders(failed) \/ TenantDomains(failed)
  <2>1. \A n \in Networks : route_domain_id'[n] \in {route_domain_id[n], None}
    BY <1>2, RouteKept DEF Folders, TenantDomains
  <2> QED
    BY <1>2, <2>1, ConnectedKept DEF Folders, TenantDomains, rdsVars
<1>3. CASE \E failed : Cleanup(failed)
  <2>1. \A n \in Networks : route_domain_id'[n] \in {route_domain_id[n], None}
    BY <1>3, RouteKept DEF Cleanup
  <2> QED
    BY <1>3, <2>1, ConnectedKept DEF Cleanup
<1>4. CASE \E n \in Networks : CannotPlace(n) \/ OnlyDomainFails(n)
  <2>1. \A n \in Networks : route_domain_id'[n] \in {route_domain_id[n], None}
    BY <1>4, RouteKept DEF CannotPlace, OnlyDomainFails
  <2> QED
    BY <1>4, <2>1, ConnectedKept DEF CannotPlace, OnlyDomainFails, deviceVars, rdsVars
<1>5. CASE StartConnect \/ PostFails
  <2>1. \A n \in Networks : route_domain_id'[n] \in {route_domain_id[n], None}
    BY <1>5, RouteKept DEF StartConnect, PostFails
  <2> QED
    BY <1>5, <2>1, ConnectedKept DEF StartConnect, PostFails, deviceVars, rdsVars
<1>6. CASE FlushCache \/ Restart
  <2>1. \A n \in Networks : route_domain_id'[n] \in {route_domain_id[n], None}
    BY <1>6, RouteKept DEF FlushCache, Restart, requestVars
  <2> QED
    BY <1>6, <2>1, ConnectedKept DEF FlushCache, Restart, Reset, deviceVars, rdsVars
<1>7. CASE \E outcome : ConnectFails(outcome)
  <2>1. \A n \in Networks : route_domain_id'[n] \in {route_domain_id[n], None}
    BY <1>7, RouteKept DEF ConnectFails
  <2> QED
    BY <1>7, <2>1, ConnectedKept DEF ConnectFails, rdsVars
<1>8. CASE \E failed, kept, lost : ReleaseShared(failed, kept, lost)
  BY <1>8, ConnectedKept DEF ReleaseShared, rdsVars
<1> QED
  BY <1>1, <1>2, <1>3, <1>4, <1>5, <1>6, <1>7, <1>8

\* A VLAN that is read is where some device has its self IP.
LEMMA UpdateRdsCacheConnected ==
    ASSUME CacheInv, OwnerInv, ConnectedInv, NEW failed \in Devices \cup {0},
           UpdateRdsCache(failed)
    PROVE  ConnectedInv'
<1>1. Tenant \in Tenants
  BY TenantIsTenant DEF UpdateRdsCache
<1>2. UNCHANGED <<selfip, ips, blind, stale>> /\ guessed \subseteq guessed'
  BY DEF UpdateRdsCache, deviceVars
<1>3. \A n \in Networks : route_domain_id'[n] \in {route_domain_id[n], None}
  BY RouteKept DEF UpdateRdsCache
<1>4. ASSUME NEW n \in Networks, Trusted(n)', NEW e \in rds_cache', e[3] = n, e \notin rds_cache
      PROVE  e[2] \in DomainsOf(n)
  <2>1. Tenant \notin filled
    BY <1>4 DEF UpdateRdsCache
  <2>2. e[1] = Tenant /\ Owner[n] = Tenant
    BY <1>4, FoundIsOwned
  <2>3. Tenant \notin guessed'
    BY <1>4, <2>2 DEF Trusted
  <2>4. ~HasEmptyVlan(rds_cache')
    BY <2>1, <2>3 DEF UpdateRdsCache
  <2>5. \E d \in Devices : selfip[d][n] = e[2]
    BY <1>4, <2>2, <2>4 DEF HasEmptyVlan
  <2> QED
    BY <2>5 DEF DomainsOf
<1>5. \A n \in Networks : Trusted(n)' => Cached(n)' \subseteq DomainsOf(n)
  <2> SUFFICES ASSUME NEW n \in Networks, Trusted(n)', NEW e \in rds_cache', e[3] = n
               PROVE  e[2] \in DomainsOf(n)
    BY DEF Cached
  <2>1. CASE e \in rds_cache
    BY <2>1 DEF DomainsOf, Cached
  <2> QED
    BY <1>4, <2>1
<1>6. \A n \in Networks : Trusted(n)' => DomainsOf(n)' \subseteq DomainsOf(n) \cup {None}
  BY <1>2, <1>3, <1>5 DEF DomainsOf
<1>7. OneDomain'
  BY <1>2, <1>6, OneDomainKept DEF ConnectedInv
<1>8. AddressHasSelfip'
  BY <1>2, SelfipsKept DEF ConnectedInv
<1> QED
  BY <1>7, <1>8 DEF ConnectedInv

LEMMA CachedGrows ==
    ASSUME NEW t, NEW rd, NEW n, rds_cache' \subseteq rds_cache \cup {<<t, rd, n, TRUE>>}
    PROVE  \A m : Cached(m)' \subseteq Cached(m) \cup (IF m = n THEN {rd} ELSE {})
<1> SUFFICES ASSUME NEW m, NEW e \in rds_cache', e[3] = m
             PROVE  e[2] \in Cached(m) \cup (IF m = n THEN {rd} ELSE {})
  BY DEF Cached
<1>1. CASE e \in rds_cache
  BY <1>1 DEF Cached
<1>2. CASE e = <<t, rd, n, TRUE>>
  BY <1>2
<1> QED
  BY <1>1, <1>2

\* A network that the cache has not is placed where the devices have it, or the tenant is
\* in guessed.
LEMMA PlacedConnected ==
    ASSUME CacheInv, OwnerInv, ConnectedInv, NEW n \in Networks, NEW rd, IsPlaced(n),
           Annotate(n, rd), UNCHANGED <<selfip, ips, blind, stale>>, guessed' = Guess(n, rd),
           rds_cache' \subseteq rds_cache \cup {<<Tenant, rd, n, TRUE>>}
    PROVE  ConnectedInv'
<1>1. Owner[n] = Tenant
  BY PlacedIsTenants
<1>2. guessed \subseteq guessed'
  BY DEF Guess
<1>3. route_domain_id' = [route_domain_id EXCEPT ![n] = rd]
  BY DEF Annotate
<1>4. ASSUME Trusted(n)' PROVE DomainsOf(n)' \subseteq {rd, None}
  <2>1. Tenant \notin guessed'
    BY <1>1, <1>4 DEF Trusted
  <2>2. /\ \A d \in Devices : selfip[d][n] \in {rd, None}
        /\ \A d \in Devices : \A i \in ips[d] : i[2] = n => i[3] = rd
    BY <2>1 DEF Guess
  <2>3. Cached(n)' \subseteq {rd}
    BY CachedGrows DEF IsPlaced
  <2>4. route_domain_id'[n] = rd
    BY <1>3 DEF CacheInv, Types, RequestTypes
  <2> QED
    BY <2>2, <2>3, <2>4 DEF DomainsOf
<1>5. ASSUME NEW m \in Networks, m # n PROVE DomainsOf(m)' \subseteq DomainsOf(m)
  <2>1. Cached(m)' \subseteq Cached(m)
    BY <1>5, CachedGrows
  <2>2. route_domain_id'[m] = route_domain_id[m]
    BY <1>3, <1>5 DEF CacheInv, Types, RequestTypes
  <2> QED
    BY <2>1, <2>2 DEF DomainsOf
<1>6. OneDomain'
  BY <1>2, <1>4, <1>5, OneDomainKept DEF ConnectedInv
<1>7. AddressHasSelfip'
  BY <1>2, SelfipsKept DEF ConnectedInv
<1> QED
  BY <1>6, <1>7 DEF ConnectedInv

LEMMA AssignConnected ==
    ASSUME CacheInv, OwnerInv, ConnectedInv, NEW n \in Networks,
           \/ \E rd \in {0} \cup Cached(n) : KnownDomain(n, rd)
           \/ \E rd : OnlyDomain(n, rd) \/ Place(n, rd)
           \/ \E failed : CreateAuxRd(n, failed)
    PROVE  ConnectedInv'
<1>1. CASE \E rd \in {0} \cup Cached(n) : KnownDomain(n, rd)
  <2>1. PICK rd : KnownDomain(n, rd)
    BY <1>1
  <2>2. /\ route_domain_id' = [route_domain_id EXCEPT ![n] = rd]
        /\ UNCHANGED <<deviceVars, rdsVars, blind, stale>>
    BY <2>1 DEF KnownDomain, Annotate
  <2>3. Common(n) \/ rd \in DomainsOf(n)
    BY <2>1 DEF KnownDomain, DomainsOf
  <2>4. \A m \in Networks : Cached(m)' = Cached(m)
    BY <2>2 DEF Cached, rdsVars
  <2>5. ASSUME NEW m \in Networks, Trusted(m)' PROVE DomainsOf(m)' \subseteq DomainsOf(m)
    <3>1. route_domain_id'[m] \in DomainsOf(m)
      <4>1. CASE m = n
        BY <2>2, <2>3, <2>5, <4>1 DEF Trusted, Common, CacheInv, Types, RequestTypes
      <4>2. CASE m # n
        BY <2>2, <4>2 DEF DomainsOf, CacheInv, Types, RequestTypes
      <4> QED
        BY <4>1, <4>2
    <3> QED
      BY <2>2, <2>4, <3>1 DEF deviceVars, DomainsOf
  <2>6. OneDomain'
    BY <2>2, <2>5, OneDomainKept DEF rdsVars, ConnectedInv
  <2>7. AddressHasSelfip'
    BY <2>2, SelfipsKept DEF deviceVars, rdsVars, ConnectedInv
  <2> QED
    BY <2>6, <2>7 DEF ConnectedInv
<1>2. CASE \E rd : OnlyDomain(n, rd) \/ Place(n, rd)
  BY <1>2, PlacedConnected DEF OnlyDomain, Place, deviceVars
<1>3. CASE \E failed : CreateAuxRd(n, failed)
  <2>1. CASE PrepFails /\ rds_cache' = rds_cache
    <3>1. \A m \in Networks : route_domain_id'[m] \in {route_domain_id[m], None}
      BY <2>1, RouteKept
    <3> QED
      BY <1>3, <2>1, <3>1, ConnectedKept DEF CreateAuxRd, Guess
  <2>2. CASE /\ Annotate(n, NextDomainId)
             /\ rds_cache' \subseteq rds_cache \cup {<<Tenant, NextDomainId, n, TRUE>>}
    BY <1>3, <2>2, PlacedConnected DEF CreateAuxRd
  <2> QED
    BY <1>3, <2>1, <2>2 DEF CreateAuxRd
<1> QED
  BY <1>1, <1>2, <1>3

\* A self IP is created in the domain that the network was annotated with.
LEMMA ConnectConnected ==
    ASSUME CacheInv, ConnectedInv, NEW unbound, Connect(unbound)
    PROVE  ConnectedInv'
<1> DEFINE d == FirstPair[1]
           n == FirstPair[2]
<1>1. at = "assure" /\ todo # {} /\ UNCHANGED <<ips, rdsVars, blind>>
  BY DEF Connect
<1>2. d \in Devices /\ n \in Networks /\ route_domain_id[n] \in Nat
  BY <1>1, PairIsPrepared
<1>3. \/ selfip' = selfip /\ stale' = stale
      \/ /\ selfip' = [selfip EXCEPT ![d][n] = route_domain_id[n]]
         /\ stale' = [stale EXCEPT ![d] = @ \ {n}]
  BY DEF Connect
<1>4. \A m \in Networks : route_domain_id'[m] \in {route_domain_id[m], None}
  BY RouteKept DEF Connect
<1>5. \A e \in Devices : \A m \in Networks :
         \/ selfip'[e][m] = selfip[e][m]
         \/ m = n /\ selfip'[e][m] = route_domain_id[n]
  <2> HIDE DEF d, n
  <2> QED
    BY <1>2, <1>3 DEF CacheInv, Types, DeviceTypes
<1>6. \A m \in Networks : Cached(m)' = Cached(m)
  BY <1>1 DEF Cached, rdsVars
<1>7. \A m \in Networks : DomainsOf(m)' \subseteq DomainsOf(m) \cup {None}
  <2> HIDE DEF d, n
  <2> QED
    BY <1>1, <1>4, <1>5, <1>6 DEF DomainsOf
<1>8. OneDomain'
  BY <1>1, <1>7, OneDomainKept DEF rdsVars, ConnectedInv
<1>9. \A e \in Devices : \A m \in Networks : selfip[e][m] # None => selfip'[e][m] # None
  <2> HIDE DEF d, n
  <2> QED
    BY <1>2, <1>5 DEF None
<1>10. AddressHasSelfip'
  <2> HIDE DEF d, n
  <2>1. stale' = stale \/ (selfip'[d][n] # None /\ stale' = [stale EXCEPT ![d] = @ \ {n}])
    BY <1>2, <1>3 DEF None, CacheInv, Types, DeviceTypes
  <2>2. \A e \in Devices : \A m \in Networks :
           m \in stale[e] => m \in stale'[e] \/ selfip'[e][m] # None
    BY <1>2, <2>1 DEF CacheInv, Types, CacheTypes
  <2> SUFFICES ASSUME NEW e \in Devices, NEW i \in ips[e], Trusted(i[2]),
                      i[2] \notin blind \cup stale'[e]
               PROVE  selfip'[e][i[2]] # None
    BY <1>1 DEF AddressHasSelfip, Trusted, Common, rdsVars
  <2>3. i[2] \in Networks
    BY DEF CacheInv, Types, DeviceTypes
  <2> QED
    BY <1>9, <2>2, <2>3 DEF ConnectedInv, AddressHasSelfip
<1> QED
  BY <1>8, <1>10 DEF ConnectedInv

\* A network is no longer blind when all devices have it.
LEMMA AssureSnatsConnected ==
    ASSUME CacheInv, ConnectedInv, NEW n \in Networks, NEW failed, NEW pooled,
           AssureSnats(n, failed, pooled)
    PROVE  ConnectedInv'
<1>1. UNCHANGED <<selfip, ips, rdsVars, stale>>
  BY DEF AssureSnats
<1>2. \A m \in Networks : route_domain_id'[m] \in {route_domain_id[m], None}
  BY RouteKept DEF AssureSnats
<1>3. OneDomain'
  BY <1>1, <1>2, DomainsKept DEF rdsVars, ConnectedInv
<1>4. \/ blind' = blind
      \/ blind' = blind \ {n} /\ \A d \in Devices : selfip[d][n] # None
  BY DEF AssureSnats
<1>5. AddressHasSelfip'
  <2> SUFFICES ASSUME NEW d \in Devices, NEW i \in ips[d], Trusted(i[2]),
                      i[2] \notin blind' \cup stale[d]
               PROVE  selfip[d][i[2]] # None
    BY <1>1 DEF AddressHasSelfip, Trusted, Common, rdsVars
  <2> QED
    BY <1>4 DEF ConnectedInv, AddressHasSelfip
<1> QED
  BY <1>3, <1>5 DEF ConnectedInv

\* New addresses are in the domain of the annotation, on devices that were prepared.
LEMMA AssureServiceConnected ==
    ASSUME CacheInv, OwnerInv, ConnectedInv, NEW failed, AssureService(failed)
    PROVE  ConnectedInv'
<1>1. at = "service" /\ UNCHANGED <<selfip, rdsVars, route_domain_id, blind, stale>>
  BY DEF AssureService
<1>2. \A d \in Devices : \A i \in ips'[d] :
         i \in ips[d] \/ (i[2] \in req.keep /\ i[3] = route_domain_id[i[2]])
  BY DEF AssureService, Addresses
<1>3. req.keep \subseteq Networks
  BY DEF CacheInv, Types, RequestTypes
<1>4. \A m \in Networks : Cached(m)' = Cached(m)
  BY <1>1 DEF Cached, rdsVars
<1>5. \A m \in Networks : DomainsOf(m)' \subseteq DomainsOf(m)
  BY <1>1, <1>2, <1>4 DEF DomainsOf
<1>6. OneDomain'
  BY <1>1, <1>5, OneDomainKept DEF rdsVars, ConnectedInv
<1>7. AddressHasSelfip'
  <2> SUFFICES ASSUME NEW d \in Devices, NEW i \in ips'[d], Trusted(i[2]),
                      i[2] \notin blind \cup stale[d]
               PROVE  selfip[d][i[2]] # None
    BY <1>1 DEF AddressHasSelfip, Trusted, Common, rdsVars
  <2>1. CASE i \in ips[d]
    BY <2>1 DEF ConnectedInv, AddressHasSelfip
  <2>2. CASE i[2] \in req.keep
    BY <1>1, <2>2 DEF OwnerInv, StepInv, Prepared
  <2> QED
    BY <1>2, <2>1, <2>2
<1> QED
  BY <1>6, <1>7 DEF ConnectedInv

\* An address of a trusted tenant that is on a device keeps its network there.
LEMMA AddressKeepsNetwork ==
    ASSUME CacheInv, OwnerInv, OneDomain, at = "release", NEW d \in Devices,
           NEW i \in ips[d], i[2] \in check_for_delete[d], Trusted(i[2]),
           route_domain_id[i[2]] # None
    PROVE  i[2] \notin ToDelete(d)
<1>1. i[2] \in Networks /\ i[2] \in req.drop
  BY DEF CacheInv, Types, DeviceTypes, OwnerInv, StepInv, TodoIsOwned
<1>2. Owner[i[2]] = Tenant
  BY <1>1, RequestsNetwork DEF Trusted
<1>3. i[3] # None /\ TenantOf[i[1]] = Tenant
  BY <1>2 DEF OwnerInv, DeviceInv, AddressIsOwned, Trusted, Common
<1>4. i[3] \in DomainsOf(i[2]) /\ route_domain_id[i[2]] \in DomainsOf(i[2])
  BY DEF DomainsOf
<1>5. i[3] = route_domain_id[i[2]]
  BY <1>1, <1>3, <1>4 DEF OneDomain
<1>6. IpsExist(d, i[2])
  BY <1>3, <1>5 DEF IpsExist, AddressesOn
<1> QED
  BY <1>6 DEF ToDelete

LEMMA ReleaseConnected ==
    ASSUME CacheInv, OwnerInv, ConnectedInv, NEW failed, NEW stays, NEW cut,
           Release(failed, stays, cut)
    PROVE  ConnectedInv'
<1> DEFINE d == FirstDevice
           gone == ToDelete(d) \ failed
<1>1. at = "release" /\ UNCHANGED <<ips, guessed>>
  BY DEF Release
<1>2. d \in Devices
  BY <1>1, ReleasedIsDropped
<1>3. selfip' = [selfip EXCEPT ![d] = [n \in Networks |-> IF n \in gone THEN None ELSE @[n]]]
  BY DEF Release
<1>4. \A n \in Networks : route_domain_id'[n] \in {route_domain_id[n], None}
  BY RouteKept DEF Release
<1>5. \A e \in Devices : \A n \in Networks :
         selfip'[e][n] = IF e = d /\ n \in gone THEN None ELSE selfip[e][n]
  <2> HIDE DEF d, gone
  <2> QED
    BY <1>2, <1>3 DEF CacheInv, Types, DeviceTypes
<1>6. rds_cache' \subseteq rds_cache
  BY DEF Release, Forgotten
<1>7. OneDomain'
  <2>1. \A e \in Devices : \A n \in Networks : selfip'[e][n] \in {selfip[e][n], None}
    BY <1>5
  <2> QED
    BY <1>1, <1>4, <1>6, <2>1, DomainsKept DEF ConnectedInv
<1>8. /\ blind' = blind \cup {n \in gone : route_domain_id[n] = None}
      /\ \A e \in Devices : stale[e] \subseteq stale'[e]
  BY DEF Release, CacheInv, Types, CacheTypes
<1>9. AddressHasSelfip'
  <2> SUFFICES ASSUME NEW e \in Devices, NEW i \in ips[e], Trusted(i[2]),
                      i[2] \notin blind' \cup stale'[e]
               PROVE  selfip'[e][i[2]] # None
    BY <1>1 DEF AddressHasSelfip, Trusted, Common
  <2>1. i[2] \in Networks /\ selfip[e][i[2]] # None
    BY <1>8 DEF ConnectedInv, AddressHasSelfip, CacheInv, Types, DeviceTypes
  <2>2. CASE e = d /\ i[2] \in gone
    <3>1. i[2] \in check_for_delete[d] /\ route_domain_id[i[2]] # None
      BY <1>8, <2>2 DEF ToDelete
    <3> QED
      BY <1>1, <1>2, <2>2, <3>1, AddressKeepsNetwork DEF ConnectedInv
  <2> QED
    BY <1>5, <2>1, <2>2
<1> QED
  BY <1>7, <1>9 DEF ConnectedInv

LEMMA NextConnected ==
    ASSUME CacheInv, OwnerInv, ConnectedInv, [Next]_vars
    PROVE  ConnectedInv'
<1>1. CASE \E lb \in Loadbalancers : \E nets \in NetworksOf[lb] \cup {{}} : Begin(lb, nets)
  BY <1>1, QuietConnected
<1>2. CASE \E failed \in Devices \cup {0} :
              \/ Folders(failed)
              \/ TenantDomains(failed)
              \/ UpdateRdsCache(failed)
              \/ \E n \in Networks : CreateAuxRd(n, failed)
              \/ \E n \in Networks, pooled \in BOOLEAN : AssureSnats(n, failed, pooled)
  BY <1>2, QuietConnected, UpdateRdsCacheConnected, AssignConnected, AssureSnatsConnected
<1>3. CASE \E n \in Networks :
              \/ \E rd \in {0} \cup Cached(n) : KnownDomain(n, rd)
              \/ \E rd \in Primary(Tenant, 1) : OnlyDomain(n, rd)
              \/ OnlyDomainFails(n)
              \/ \E rd \in CachedDomains : Place(n, rd)
              \/ CannotPlace(n)
  BY <1>3, AssignConnected, QuietConnected
<1>4. CASE StartConnect \/ (\E unbound \in BOOLEAN : Connect(unbound)) \/ PostFails
  BY <1>4, QuietConnected, ConnectConnected
<1>5. CASE \E outcome \in {"vlan", "domain", "binding", "selfip", "moved"} : ConnectFails(outcome)
  BY <1>5, QuietConnected
<1>6. CASE \E failed \in SUBSET Devices : AssureService(failed) \/ Cleanup(failed)
  BY <1>6, AssureServiceConnected, QuietConnected
<1>7. CASE \/ \E failed \in SUBSET req.drop, kept \in SUBSET req.drop, lost \in SUBSET req.drop :
                  ReleaseShared(failed, kept, lost)
           \/ \E failed \in SUBSET req.drop, stays \in SUBSET req.drop, cut \in SUBSET req.drop :
                  Release(failed, stays, cut)
  BY <1>7, ReleaseConnected, QuietConnected
<1>8. CASE FlushCache \/ Restart
  BY <1>8, QuietConnected
<1>9. CASE UNCHANGED vars
  BY <1>9, ConnectedKept DEF vars, deviceVars, rdsVars, requestVars
<1> QED
  BY <1>1, <1>2, <1>3, <1>4, <1>5, <1>6, <1>7, <1>8, <1>9 DEF Next

(***************************************************************************)
(* All that names the route domain of a network names the same one, and an    *)
(* address has a self IP, for a tenant whose cache never named another, on a  *)
(* subnet whose last release told the caches.                                 *)
(***************************************************************************)
THEOREM NetworkOneDomain == Spec => []ConnectedInv
<1>1. CacheInv /\ OwnerInv /\ ConnectedInv /\ [Next]_vars => ConnectedInv'
  BY NextConnected
<1> QED
  BY <1>1, InitConnected, NetworkInvariant, NetworkOwners, PTL DEF Spec

(***************************************************************************)
(* An address is reachable: its network has, on the device, a VLAN and a self *)
(* IP in the domain of the address, for any number of devices and tenants,    *)
(* whichever calls fail and whenever caches are flushed; but not where the    *)
(* release of the subnet was cut short after the self IP went (stale).        *)
(***************************************************************************)
THEOREM NetworkAddressIsConnected == Spec => []AddressIsConnected
<1>1. ASSUME CacheInv, OwnerInv, ConnectedInv PROVE AddressIsConnected
  <2> SUFFICES ASSUME NEW d \in Devices, NEW i \in ips[d], ~Common(i[2]),
                      i[2] \notin blind \cup stale[d], TenantOf[i[1]] \notin guessed
               PROVE  i[3] = selfip[d][i[2]] /\ i[3] = vlan[d][i[2]]
    BY DEF AddressIsConnected
  <2>1. i[2] \in Networks /\ i[3] # None /\ Owner[i[2]] = TenantOf[i[1]]
    BY <1>1 DEF CacheInv, Types, DeviceTypes, OwnerInv, DeviceInv, AddressIsOwned, Common
  <2>2. Trusted(i[2])
    BY <2>1 DEF Trusted
  <2>3. selfip[d][i[2]] # None
    BY <1>1, <2>2 DEF ConnectedInv, AddressHasSelfip
  <2>4. i[3] \in DomainsOf(i[2]) /\ selfip[d][i[2]] \in DomainsOf(i[2])
    BY DEF DomainsOf
  <2>5. i[3] = selfip[d][i[2]]
    BY <1>1, <2>1, <2>2, <2>3, <2>4 DEF ConnectedInv, OneDomain
  <2> QED
    BY <1>1, <2>1, <2>3, <2>5 DEF OwnerInv, DeviceInv, SelfipIsOnVlan
<1> QED
  BY <1>1, NetworkInvariant, NetworkOwners, NetworkOneDomain, PTL

-------------------------------------------------------------------------------
(* What is a tenant's own.                                                       *)

\* A subnet that is not shared is cached for its owner only, and then it has a self IP, if its
\* release was not cut short.
OwnSubnets ==
    \A d \in Devices : \A s \in assured_subnets[d] :
        /\ Owner[s[2]] \in {"common", s[1]}
        /\ ~Common(s[2]) /\ s[2] \notin stale[d] => selfip[d][s[2]] # None

\* The request has assured it on the devices that are done.
OwnConnected ==
    \A d \in Devices : \A n \in req.keep :
        ~Common(n) /\ ((at = "assure" /\ <<d, n>> \notin todo) \/ at \in {"snats", "service"})
            => selfip[d][n] # None \/ n \in stale[d]

\* The domain of Common is given to no network of a tenant.
OwnNotCommon ==
    /\ \A e \in rds_cache : e[2] # 0
    /\ \A n \in Networks : ~Common(n) =>
          route_domain_id[n] # 0 /\ \A d \in Devices : selfip[d][n] # 0

\* An address is in a domain that its device has, of the tenant.
OwnAddresses ==
    \A d \in Devices : \A i \in ips[d] : Trusted(i[2]) /\ i[2] \notin stale[d] =>
        \E r \in domains[d] : r[1] = i[3] /\ r[2] = Owner[i[2]]

OwnInv == OwnSubnets /\ OwnConnected /\ OwnNotCommon /\ OwnAddresses

LEMMA InitOwn == Init => OwnInv
BY DEF Init, NoRequest, None, OwnInv, OwnSubnets, OwnConnected, OwnNotCommon, OwnAddresses

\* Steps that take nothing from a device and annotate nothing.
LEMMA OwnKept ==
    ASSUME OwnInv, UNCHANGED <<selfip, ips, stale>>, guessed \subseteq guessed',
           \A d \in Devices : assured_subnets'[d] \subseteq assured_subnets[d],
           \A d \in Devices : domains[d] \subseteq domains'[d],
           rds_cache' \subseteq rds_cache,
           \A n \in Networks : route_domain_id'[n] \in {route_domain_id[n], None},
           \/ at' \notin {"assure", "snats", "service"}
           \/ req'.keep = {}
           \/ UNCHANGED <<at, todo, req>>
    PROVE  OwnInv'
<1>1. OwnSubnets' /\ OwnConnected' /\ OwnAddresses'
  BY DEF OwnInv, OwnSubnets, OwnConnected, OwnAddresses, Trusted, Common
<1>2. OwnNotCommon'
  BY DEF OwnInv, OwnNotCommon, Common, None
<1> QED
  BY <1>1, <1>2 DEF OwnInv

\* A request that fails goes on only if it keeps no network.
LEMMA FailedKeepsNothing ==
    ASSUME PrepFails \/ Return
    PROVE  at' \notin {"assure", "snats", "service"} \/ req'.keep = {}
BY DEF PrepFails, Return, GoTo, Deleting

LEMMA QuietOwn ==
    ASSUME OwnInv,
           \/ \E lb \in Loadbalancers : \E nets \in NetworksOf[lb] \cup {{}} : Begin(lb, nets)
           \/ \E failed : Folders(failed) \/ TenantDomains(failed)
           \/ \E n \in Networks : CannotPlace(n) \/ OnlyDomainFails(n)
           \/ PostFails \/ FlushCache \/ Restart
           \/ \E outcome : ConnectFails(outcome)
    PROVE  OwnInv'
<1>1. CASE \E lb \in Loadbalancers : \E nets \in NetworksOf[lb] \cup {{}} : Begin(lb, nets)
  BY <1>1, OwnKept DEF Begin, deviceVars, cacheVars, rdsVars
<1>2. CASE \E failed : Folders(failed) \/ TenantDomains(failed)
  <2>1. \A n \in Networks : route_domain_id'[n] \in {route_domain_id[n], None}
    BY <1>2, RouteKept DEF Folders, TenantDomains
  <2>2. \A d \in Devices : domains[d] \subseteq domains'[d]
    BY <1>2 DEF Folders, TenantDomains, WithDomain
  <2>3. at' \notin {"assure", "snats", "service"}
    BY <1>2 DEF Folders, TenantDomains, GoTo, Return
  <2> QED
    BY <1>2, <2>1, <2>2, <2>3, OwnKept DEF Folders, TenantDomains, cacheVars, rdsVars
<1>3. CASE \E n \in Networks : CannotPlace(n) \/ OnlyDomainFails(n)
  <2>1. PrepFails /\ UNCHANGED <<deviceVars, cacheVars, rdsVars, stale>>
    BY <1>3 DEF CannotPlace, OnlyDomainFails
  <2> QED
    BY <2>1, RouteKept, FailedKeepsNothing, OwnKept DEF deviceVars, cacheVars, rdsVars
<1>4. CASE PostFails
  <2>1. /\ Return \/ GoTo("cleanup", {})
        /\ UNCHANGED <<deviceVars, cacheVars, rdsVars, stale>>
    BY <1>4 DEF PostFails
  <2>2. at' \notin {"assure", "snats", "service"}
    BY <2>1 DEF GoTo, Return
  <2> QED
    BY <2>1, <2>2, RouteKept, OwnKept DEF deviceVars, cacheVars, rdsVars
<1>5. CASE FlushCache
  BY <1>5, OwnKept DEF FlushCache, Reset, deviceVars, rdsVars, requestVars
<1>6. CASE Restart
  <2>1. Return /\ UNCHANGED <<deviceVars, guessed, stale>> /\ rds_cache' = {}
        /\ \A d \in Devices : assured_subnets'[d] = {}
    BY <1>6 DEF Restart, Reset
  <2> QED
    BY <2>1, RouteKept, FailedKeepsNothing, OwnKept DEF deviceVars
<1>7. CASE \E outcome : ConnectFails(outcome)
  <2>1. PrepFails /\ UNCHANGED <<domains, selfip, ips, assured_subnets, rdsVars, stale>>
    BY <1>7 DEF ConnectFails
  <2> QED
    BY <2>1, RouteKept, FailedKeepsNothing, OwnKept DEF rdsVars
<1> QED
  BY <1>1, <1>2, <1>3, <1>4, <1>5, <1>6, <1>7

\* The cache is filled with domains of the tenant.
LEMMA UpdateRdsCacheOwn ==
    ASSUME CacheInv, OwnerInv, OwnInv, NEW failed \in Devices \cup {0}, UpdateRdsCache(failed)
    PROVE  OwnInv'
<1>1. UNCHANGED <<stale>>
  BY DEF UpdateRdsCache
<1>2. UNCHANGED <<deviceVars, cacheVars>> /\ guessed \subseteq guessed'
  BY DEF UpdateRdsCache
<1>3. \A n \in Networks : route_domain_id'[n] \in {route_domain_id[n], None}
  BY RouteKept DEF UpdateRdsCache
<1>4. at' \notin {"assure", "snats", "service"} \/ req'.keep = {}
  BY FailedKeepsNothing DEF UpdateRdsCache, GoTo
<1>5. ASSUME NEW e \in rds_cache', e \notin rds_cache PROVE e[2] # 0
  BY <1>5, FoundIsOwned DEF Ids
<1>6. OwnNotCommon'
  BY <1>2, <1>3, <1>5 DEF deviceVars, OwnInv, OwnNotCommon, Common, None
<1>7. OwnSubnets' /\ OwnConnected' /\ OwnAddresses'
  BY <1>1, <1>2, <1>4 DEF deviceVars, cacheVars, OwnInv, OwnSubnets, OwnConnected, OwnAddresses,
                          Trusted, Common
<1> QED
  BY <1>6, <1>7 DEF OwnInv

\* A network is annotated with a domain that was made for a tenant.
LEMMA AnnotateOwn ==
    ASSUME CacheInv, OwnInv, NEW n \in Networks, NEW rd, Annotate(n, rd), at = "assign",
           Common(n) \/ rd # 0,
           UNCHANGED <<selfip, ips, assured_subnets, stale>>, guessed \subseteq guessed',
           \A d \in Devices : domains[d] \subseteq domains'[d],
           \A e \in rds_cache' : e \in rds_cache \/ (e[2] = rd /\ rd # 0)
    PROVE  OwnInv'
<1>1. at' \notin {"assure", "snats", "service"}
  BY DEF Annotate
<1>2. OwnSubnets' /\ OwnConnected' /\ OwnAddresses'
  BY <1>1 DEF OwnInv, OwnSubnets, OwnConnected, OwnAddresses, Trusted, Common
<1>3. \A m \in Networks : route_domain_id'[m] = IF m = n THEN rd ELSE route_domain_id[m]
  BY DEF Annotate, CacheInv, Types, RequestTypes
<1>4. OwnNotCommon'
  BY <1>3 DEF OwnInv, OwnNotCommon, Common
<1> QED
  BY <1>2, <1>4 DEF OwnInv

LEMMA AssignOwn ==
    ASSUME CacheInv, OwnerInv, OwnInv, NEW n \in Networks,
           \/ \E rd \in {0} \cup Cached(n) : KnownDomain(n, rd)
           \/ \E rd \in Primary(Tenant, 1) : OnlyDomain(n, rd)
           \/ \E rd \in CachedDomains : Place(n, rd)
           \/ \E failed : CreateAuxRd(n, failed)
    PROVE  OwnInv'
<1>1. CASE \E rd \in {0} \cup Cached(n) : KnownDomain(n, rd)
  <2>1. PICK rd : KnownDomain(n, rd)
    BY <1>1
  <2>2. Common(n) \/ rd # 0
    BY <2>1 DEF KnownDomain, Cached, OwnInv, OwnNotCommon
  <2>3. /\ at = "assign" /\ Annotate(n, rd)
        /\ UNCHANGED <<selfip, ips, domains, assured_subnets, guessed, rds_cache, stale>>
    BY <2>1 DEF KnownDomain, deviceVars, cacheVars, rdsVars
  <2> QED
    BY <2>2, <2>3, AnnotateOwn
<1>2. CASE \E rd \in Primary(Tenant, 1) : OnlyDomain(n, rd)
  <2>1. PICK rd \in Primary(Tenant, 1) : OnlyDomain(n, rd)
    BY <1>2
  <2>2. rd # 0
    <3>1. PICK r \in domains[1] : rd = r[1]
      BY <2>1 DEF Primary
    <3>2. 1 \in Devices
      BY TenantNetworkAssumption DEF Devices
    <3> QED
      BY <3>1, <3>2 DEF CacheInv, Types, DeviceTypes, Ids
  <2> QED
    BY <2>1, <2>2, AnnotateOwn DEF OnlyDomain, IsPlaced, Guess, deviceVars, cacheVars
<1>3. CASE \E rd \in CachedDomains : Place(n, rd)
  <2>1. PICK rd \in CachedDomains : Place(n, rd)
    BY <1>3
  <2>2. rd # 0 /\ ~Common(n)
    BY <2>1, PlacedIsTenants DEF Place, CachedDomains, OwnInv, OwnNotCommon
  <2>3. \A e \in rds_cache' : e \in rds_cache \/ e[2] = rd
    <3> SUFFICES ASSUME NEW e \in rds_cache', e = <<Tenant, rd, n, TRUE>> PROVE e[2] = rd
      BY <2>1 DEF Place
    <3> QED
      OBVIOUS
  <2> QED
    BY <2>1, <2>2, <2>3, AnnotateOwn DEF Place, IsPlaced, Guess, deviceVars, cacheVars
<1>4. CASE \E failed : CreateAuxRd(n, failed)
  <2>1. /\ at = "assign" /\ UNCHANGED <<selfip, ips, assured_subnets, stale>>
        /\ guessed \subseteq guessed'
        /\ \A d \in Devices : domains[d] \subseteq domains'[d]
    BY <1>4 DEF CreateAuxRd, IsPlaced, Guess, WithDomain, cacheVars
  <2>2. CASE PrepFails /\ rds_cache' = rds_cache
    BY <2>1, <2>2, RouteKept, FailedKeepsNothing, OwnKept
  <2>3. CASE /\ Annotate(n, NextDomainId)
             /\ rds_cache' \subseteq rds_cache \cup {<<Tenant, NextDomainId, n, TRUE>>}
    <3>1. NextDomainId # 0
      BY NextDomainIdIsNew DEF CacheInv, Types, Ids
    <3>2. ~Common(n)
      BY <1>4, PlacedIsTenants DEF CreateAuxRd
    <3>3. \A e \in rds_cache' : e \in rds_cache \/ e[2] = NextDomainId
      <4> SUFFICES ASSUME NEW e \in rds_cache', e = <<Tenant, NextDomainId, n, TRUE>>
                   PROVE  e[2] = NextDomainId
        BY <2>3
      <4> QED
        OBVIOUS
    <3> QED
      BY <2>1, <2>3, <3>1, <3>2, <3>3, AnnotateOwn
  <2> QED
    BY <1>4, <2>2, <2>3 DEF CreateAuxRd
<1> QED
  BY <1>1, <1>2, <1>3, <1>4

LEMMA StartConnectOwn ==
    ASSUME OwnInv, StartConnect
    PROVE  OwnInv'
<1>1. UNCHANGED <<deviceVars, cacheVars, rdsVars, req, route_domain_id, stale>>
  BY DEF StartConnect, GoTo
<1>2. OwnConnected'
  BY DEF StartConnect, GoTo, Deleting, OwnConnected
<1> QED
  BY <1>1, <1>2 DEF deviceVars, cacheVars, rdsVars, OwnInv, OwnSubnets, OwnNotCommon, OwnAddresses,
                    Trusted, Common

\* A subnet that is said to be there is: it is cached, or its self IP exists.
LEMMA ConnectOwn ==
    ASSUME CacheInv, OwnerInv, OwnerInv', ConnectedInv, OwnInv, NEW unbound, Connect(unbound)
    PROVE  OwnInv'
<1> DEFINE d == FirstPair[1]
           n == FirstPair[2]
           rd == route_domain_id[n]
           exists == <<Tenant, n>> \in assured_subnets[d] \/ selfip[d][n] # None
           created == /\ selfip' = [selfip EXCEPT ![d][n] = rd]
                      /\ stale' = [stale EXCEPT ![d] = @ \ {n}]
<1>1. at = "assure" /\ todo # {} /\ UNCHANGED <<domains, ips, assured_subnets, rdsVars>>
  BY DEF Connect
<1>2. /\ d \in Devices /\ n \in Networks /\ n \in req.keep /\ rd \in Nat
      /\ FirstPair = <<d, n>>
  BY <1>1, PairIsPrepared
<1>3. UNCHANGED <<selfip, stale>> \/ created
  BY DEF Connect
<1>4. \/ PrepFails
      \/ /\ at' = "snats" \/ at' = "assure"
         /\ req' = req /\ route_domain_id' = route_domain_id
         /\ at' = "snats" => todo = {FirstPair}
         /\ at' = "assure" => todo' = todo \ {FirstPair}
         /\ (exists /\ UNCHANGED <<selfip, stale>>) \/ created
  BY <1>1 DEF Connect, GoTo
<1>5. ~Common(n) => rd # 0
  BY <1>2 DEF OwnInv, OwnNotCommon
<1>6. ~Common(n) /\ exists => selfip[d][n] # None \/ n \in stale[d]
  BY <1>2 DEF OwnInv, OwnSubnets
<1>7. ASSUME created
      PROVE  /\ \A e \in Devices : \A m \in Networks :
                   selfip'[e][m] = IF e = d /\ m = n THEN rd ELSE selfip[e][m]
             /\ \A e \in Devices : stale'[e] = IF e = d THEN stale[e] \ {n} ELSE stale[e]
  <2>1. /\ selfip' = [selfip EXCEPT ![d][n] = rd]
        /\ stale' = [stale EXCEPT ![d] = @ \ {n}]
    BY <1>7
  <2> HIDE DEF d, n, rd, created
  <2>2. /\ selfip \in [Devices -> [Networks -> AnyDomain]]
        /\ stale \in [Devices -> SUBSET Networks]
    BY DEF CacheInv, Types, DeviceTypes, CacheTypes
  <2>3. \A e \in Devices : \A m \in Networks :
           selfip'[e][m] = IF e = d /\ m = n THEN rd ELSE selfip[e][m]
    BY <1>2, <2>1, <2>2
  <2>4. \A e \in Devices : stale'[e] = IF e = d THEN stale[e] \ {n} ELSE stale[e]
    BY <1>2, <2>1, <2>2
  <2> QED
    BY <2>3, <2>4
<1> HIDE DEF d, n, rd, exists, created
\* A self IP stays, and one is there when a network is no longer stale.
<1>8. \A e \in Devices : \A m \in Networks :
         selfip[e][m] # None \/ m \in stale[e] => selfip'[e][m] # None \/ m \in stale'[e]
  <2> SUFFICES ASSUME NEW e \in Devices, NEW m \in Networks, selfip[e][m] # None \/ m \in stale[e]
               PROVE  selfip'[e][m] # None \/ m \in stale'[e]
    OBVIOUS
  <2>1. CASE UNCHANGED <<selfip, stale>>
    BY <2>1
  <2>2. CASE created /\ e = d /\ m = n
    <3>1. selfip'[e][m] = rd
      BY <1>7, <2>2
    <3> QED
      BY <1>2, <3>1 DEF None
  <2>3. CASE created /\ ~(e = d /\ m = n)
    <3>1. selfip'[e][m] = selfip[e][m] /\ (m \in stale[e] => m \in stale'[e])
      BY <1>7, <2>3
    <3> QED
      BY <3>1
  <2> QED
    BY <1>3, <2>1, <2>2, <2>3
<1>9. OwnSubnets'
  <2>1. \A e \in Devices : \A s \in assured_subnets[e] : s[2] \in Networks
    BY DEF CacheInv, Types, CacheTypes
  <2> QED
    BY <1>1, <1>8, <2>1 DEF OwnInv, OwnSubnets, Common
\* The addresses of a network whose self IP is created are in its domain.
<1>10. OwnAddresses'
  <2> SUFFICES ASSUME NEW e \in Devices, NEW i \in ips[e], Trusted(i[2]), i[2] \notin stale'[e]
               PROVE  \E r \in domains[e] : r[1] = i[3] /\ r[2] = Owner[i[2]]
    BY <1>1 DEF OwnAddresses, Trusted, Common, rdsVars
  <2>1. CASE i[2] \notin stale[e]
    BY <2>1 DEF OwnInv, OwnAddresses
  <2>2. CASE i[2] \in stale[e]
    <3>1. created /\ e = d /\ i[2] = n
      BY <1>3, <1>7, <2>2
    <3>2. i[3] # None /\ rd # None
      BY <1>2 DEF OwnerInv, DeviceInv, AddressIsOwned, None
    <3>3. i[3] \in DomainsOf(n) /\ rd \in DomainsOf(n)
      BY <3>1 DEF DomainsOf, rd
    <3>4. i[3] = rd
      BY <1>2, <3>1, <3>2, <3>3 DEF ConnectedInv, OneDomain
    <3>5. selfip'[d][n] = rd /\ rd \notin {None, 0}
      BY <1>2, <1>5, <1>7, <3>1, <3>2 DEF Trusted
    <3>6. vlan'[d][n] = rd
      BY <1>2, <3>5 DEF OwnerInv, DeviceInv, SelfipIsOnVlan
    <3>7. \E r \in domains'[d] : r[1] = rd /\ r[2] = Owner[n]
      BY <1>2, <3>5, <3>6 DEF OwnerInv, DeviceInv, VlanIsOwned
    <3> QED
      BY <1>1, <3>1, <3>4, <3>7
  <2> QED
    BY <2>1, <2>2
<1>11. OwnNotCommon'
  <2>1. \A m \in Networks : route_domain_id'[m] \in {route_domain_id[m], None}
    BY RouteKept DEF Connect
  <2>2. \A e \in Devices : \A m \in Networks : ~Common(m) => selfip'[e][m] # 0
    BY <1>3, <1>5, <1>7 DEF OwnInv, OwnNotCommon
  <2> QED
    BY <1>1, <2>1, <2>2 DEF rdsVars, OwnInv, OwnNotCommon, Common, None
<1>12. OwnConnected'
  <2>1. CASE PrepFails
    BY <2>1, FailedKeepsNothing DEF OwnConnected
  <2>2. CASE ~PrepFails
    <3> SUFFICES ASSUME NEW e \in Devices, NEW m \in req.keep, ~Common(m),
                        at' \in {"assure", "snats"},
                        at' = "assure" => <<e, m>> \notin todo'
                 PROVE  selfip'[e][m] # None \/ m \in stale'[e]
      BY <1>4, <2>2 DEF OwnConnected, Common
    <3>1. m \in Networks
      BY DEF CacheInv, Types, RequestTypes
    <3>2. CASE <<e, m>> \notin todo
      <4>1. selfip[e][m] # None \/ m \in stale[e]
        BY <1>1, <3>2 DEF OwnInv, OwnConnected
      <4> QED
        BY <1>8, <3>1, <4>1
    <3>3. CASE <<e, m>> \in todo
      <4>1. <<e, m>> = FirstPair
        BY <1>4, <2>2, <3>3
      <4>2. e = d /\ m = n
        BY <1>2, <4>1
      <4>3. CASE exists
        BY <1>6, <1>8, <3>1, <4>2, <4>3
      <4>4. CASE created
        BY <1>2, <1>7, <4>2, <4>4 DEF None
      <4> QED
        BY <1>4, <2>2, <4>3, <4>4
    <3> QED
      BY <3>2, <3>3
  <2> QED
    BY <2>1, <2>2
<1> QED
  BY <1>9, <1>10, <1>11, <1>12 DEF OwnInv

LEMMA AssureSnatsOwn ==
    ASSUME CacheInv, OwnerInv, OwnInv, NEW n \in Networks, NEW failed, NEW pooled,
           AssureSnats(n, failed, pooled)
    PROVE  OwnInv'
<1>1. at = "snats" /\ n \in todo /\ UNCHANGED <<domains, selfip, ips, rdsVars, stale>>
  BY DEF AssureSnats
<1>2. n \in req.keep /\ Owner[n] \in {"common", Tenant}
  BY <1>1 DEF CacheInv, Types, TodoTypes, OwnerInv, StepInv, RequestIsOwned
<1>3. \A d \in Devices : assured_subnets'[d] \subseteq assured_subnets[d] \cup {<<Tenant, n>>}
  BY DEF AssureSnats
<1>4. \A d \in Devices : ~Common(n) => selfip[d][n] # None \/ n \in stale[d]
  BY <1>1, <1>2 DEF OwnInv, OwnConnected
<1>5. OwnSubnets'
  <2> SUFFICES ASSUME NEW d \in Devices, NEW s \in assured_subnets'[d]
               PROVE  /\ Owner[s[2]] \in {"common", s[1]}
                      /\ ~Common(s[2]) /\ s[2] \notin stale[d] => selfip[d][s[2]] # None
    BY <1>1 DEF OwnSubnets, Common
  <2>1. CASE s \in assured_subnets[d]
    BY <2>1 DEF OwnInv, OwnSubnets
  <2>2. CASE s = <<Tenant, n>>
    BY <1>2, <1>4, <2>2
  <2> QED
    BY <1>3, <2>1, <2>2
<1>6. OwnConnected'
  <2>1. PrepFails \/ (at' \in {"snats", "service"} /\ req' = req)
    BY DEF AssureSnats, GoTo
  <2> QED
    BY <1>1, <2>1, FailedKeepsNothing DEF OwnInv, OwnConnected, Common
<1>7. \A m \in Networks : route_domain_id'[m] \in {route_domain_id[m], None}
  BY RouteKept DEF AssureSnats
<1>8. OwnNotCommon' /\ OwnAddresses'
  BY <1>1, <1>7 DEF rdsVars, OwnInv, OwnNotCommon, OwnAddresses, Trusted, Common, None
<1> QED
  BY <1>5, <1>6, <1>8 DEF OwnInv

\* A new address is in the domain of its self IP and of its VLAN.
LEMMA AssureServiceOwn ==
    ASSUME CacheInv, OwnerInv, ConnectedInv, OwnInv, NEW failed, AssureService(failed)
    PROVE  OwnInv'
<1>1. /\ at = "service" /\ at' = "release_shared"
      /\ UNCHANGED <<domains, selfip, cacheVars, rdsVars, route_domain_id, stale>>
  BY DEF AssureService
<1>2. \A d \in Devices : \A i \in ips'[d] :
         i \in ips[d] \/ (i[2] \in req.keep /\ i[3] = route_domain_id[i[2]])
  BY DEF AssureService, Addresses
<1>3. OwnSubnets' /\ OwnConnected' /\ OwnNotCommon'
  BY <1>1 DEF cacheVars, rdsVars, OwnInv, OwnSubnets, OwnConnected, OwnNotCommon, Common
<1>4. OwnAddresses'
  <2> SUFFICES ASSUME NEW d \in Devices, NEW i \in ips'[d], Trusted(i[2]), i[2] \notin stale[d]
               PROVE  \E r \in domains[d] : r[1] = i[3] /\ r[2] = Owner[i[2]]
    BY <1>1 DEF OwnAddresses, rdsVars, Trusted, Common
  <2>1. CASE i \in ips[d]
    BY <2>1 DEF OwnInv, OwnAddresses
  <2>2. CASE i[2] \in req.keep /\ i[3] = route_domain_id[i[2]]
    <3> DEFINE n == i[2]
    <3>1. n \in Networks /\ ~Common(n)
      BY <2>2 DEF CacheInv, Types, RequestTypes, Trusted
    <3>2. selfip[d][n] # None /\ route_domain_id[n] # None
      BY <1>1, <2>2, <3>1 DEF OwnInv, OwnConnected, OwnerInv, StepInv, Prepared
    <3>3. selfip[d][n] \in DomainsOf(n) /\ route_domain_id[n] \in DomainsOf(n)
      BY DEF DomainsOf
    <3>4. selfip[d][n] = i[3]
      BY <2>2, <3>1, <3>2, <3>3 DEF ConnectedInv, OneDomain
    <3>5. vlan[d][n] = i[3] /\ i[3] \notin {None, 0}
      BY <3>1, <3>2, <3>4 DEF OwnInv, OwnNotCommon, OwnerInv, DeviceInv, SelfipIsOnVlan
    <3> QED
      BY <3>1, <3>5 DEF OwnerInv, DeviceInv, VlanIsOwned
  <2> QED
    BY <1>2, <2>1, <2>2
<1> QED
  BY <1>3, <1>4 DEF OwnInv

\* What loses its self IP leaves the cache of its only tenant.
LEMMA ReleaseOwn ==
    ASSUME CacheInv, OwnerInv, OwnInv, NEW failed, NEW stays, NEW cut,
           Release(failed, stays, cut)
    PROVE  OwnInv'
<1> DEFINE d == FirstDevice
           gone == ToDelete(d) \ failed
           finished == gone \ (cut \cup Flat)
<1>1. at = "release" /\ UNCHANGED <<domains, ips, guessed>>
  BY DEF Release
<1>2. d \in Devices /\ gone \subseteq req.drop /\ gone \subseteq Networks
  BY <1>1, ReleasedIsDropped
<1>3. /\ selfip' = [selfip EXCEPT ![d] = [n \in Networks |-> IF n \in gone THEN None ELSE @[n]]]
      /\ assured_subnets' = [assured_subnets EXCEPT ![d] = NotAssured(@, finished)]
      /\ stale' = [stale EXCEPT ![d] =
                      @ \cup {n \in gone \ finished : <<Tenant, n>> \in assured_subnets[d]}]
      /\ rds_cache' \subseteq rds_cache
  BY DEF Release, Forgotten
<1>4. \A n \in gone : Owner[n] \in {"common", Tenant}
  BY <1>1, <1>2 DEF OwnerInv, StepInv, RequestIsOwned
<1>5. \A n \in Networks : route_domain_id'[n] \in {route_domain_id[n], None}
  BY RouteKept DEF Release
<1>6. at' \notin {"assure", "snats", "service"}
  BY DEF Release, GoTo, Return
<1> HIDE DEF d, gone, finished
<1>7. \A e \in Devices : \A n \in Networks :
         selfip'[e][n] = IF e = d /\ n \in gone THEN None ELSE selfip[e][n]
  BY <1>2, <1>3 DEF CacheInv, Types, DeviceTypes
<1>8. \A e \in Devices : \A s \in assured_subnets'[e] :
         s \in assured_subnets[e] /\ (e = d => s \notin {Tenant} \X finished)
  BY <1>2, <1>3 DEF NotAssured, CacheInv, Types, CacheTypes
<1>9. \A e \in Devices : stale[e] \subseteq stale'[e]
  BY <1>2, <1>3 DEF CacheInv, Types, CacheTypes
<1>10. \A n \in gone : <<Tenant, n>> \in assured_subnets[d] => n \in finished \cup stale'[d]
  BY <1>2, <1>3 DEF CacheInv, Types, CacheTypes
<1>11. OwnSubnets'
  <2> SUFFICES ASSUME NEW e \in Devices, NEW s \in assured_subnets'[e]
               PROVE  /\ Owner[s[2]] \in {"common", s[1]}
                      /\ ~Common(s[2]) /\ s[2] \notin stale'[e] => selfip'[e][s[2]] # None
    BY DEF OwnSubnets, Common
  <2>1. s \in assured_subnets[e] /\ s \in Tenants \X Networks
    BY <1>8 DEF CacheInv, Types, CacheTypes
  <2>2. /\ Owner[s[2]] \in {"common", s[1]}
        /\ ~Common(s[2]) /\ s[2] \notin stale[e] => selfip[e][s[2]] # None
    BY <2>1 DEF OwnInv, OwnSubnets
  <2>3. CASE e = d /\ s[2] \in gone
    <3>1. CASE s[1] # Tenant
      BY <1>4, <2>2, <2>3, <3>1 DEF Common
    <3>2. CASE s[1] = Tenant
      <4>1. s = <<Tenant, s[2]>>
        BY <2>1, <3>2
      <4>2. s[2] \in finished \cup stale'[d]
        BY <1>10, <2>1, <2>3, <4>1
      <4>3. s[2] \notin finished
        BY <1>8, <2>3, <4>1
      <4> QED
        BY <2>2, <2>3, <4>2, <4>3
    <3> QED
      BY <3>1, <3>2
  <2>4. CASE ~(e = d /\ s[2] \in gone)
    BY <1>7, <1>9, <2>1, <2>2, <2>4
  <2> QED
    BY <2>3, <2>4
<1>12. OwnNotCommon'
  BY <1>3, <1>5, <1>7 DEF OwnInv, OwnNotCommon, Common, None
<1>13. OwnConnected' /\ OwnAddresses'
  BY <1>1, <1>6, <1>9 DEF OwnInv, OwnConnected, OwnAddresses, Trusted, Common
<1> QED
  BY <1>11, <1>12, <1>13 DEF OwnInv

LEMMA ReleaseSharedOwn ==
    ASSUME CacheInv, OwnInv, NEW failed, NEW kept, NEW lost, ReleaseShared(failed, kept, lost)
    PROVE  OwnInv'
<1>1. /\ UNCHANGED <<domains, selfip, ips, rdsVars, route_domain_id, stale>>
      /\ assured_subnets' = [assured_subnets EXCEPT
                                ![FirstDevice] = NotAssured(@, ToDelete(FirstDevice) \ failed)]
      /\ at' \notin {"assure", "snats", "service"}
  BY DEF ReleaseShared
<1>2. \A d \in Devices : assured_subnets'[d] \subseteq assured_subnets[d]
  BY <1>1 DEF NotAssured, CacheInv, Types, CacheTypes
<1> QED
  BY <1>1, <1>2, OwnKept DEF rdsVars

\* A domain that an address is in stays.
LEMMA CleanupOwn ==
    ASSUME OwnInv, NEW failed, Cleanup(failed)
    PROVE  OwnInv'
<1>1. UNCHANGED <<selfip, ips, cacheVars, rds_cache, guessed, stale>> /\ Return
  BY DEF Cleanup
<1>2. \A d \in Devices : \A r \in domains[d] : InUse(d, r) => r \in domains'[d]
  BY DEF Cleanup, Deletable
<1>3. OwnAddresses'
  <2> SUFFICES ASSUME NEW d \in Devices, NEW i \in ips[d], Trusted(i[2]), i[2] \notin stale[d]
               PROVE  \E r \in domains'[d] : r[1] = i[3] /\ r[2] = Owner[i[2]]
    BY <1>1 DEF OwnAddresses, Trusted, Common
  <2>1. PICK r \in domains[d] : r[1] = i[3] /\ r[2] = Owner[i[2]]
    BY DEF OwnInv, OwnAddresses
  <2>2. InUse(d, r)
    BY <2>1 DEF InUse
  <2> QED
    BY <1>2, <2>1, <2>2
<1>4. \A n \in Networks : route_domain_id'[n] \in {route_domain_id[n], None}
  BY <1>1, RouteKept
<1>5. OwnSubnets' /\ OwnConnected' /\ OwnNotCommon'
  BY <1>1, <1>4, FailedKeepsNothing
     DEF cacheVars, OwnInv, OwnSubnets, OwnConnected, OwnNotCommon, Common, None
<1> QED
  BY <1>3, <1>5 DEF OwnInv

LEMMA NextOwn ==
    ASSUME CacheInv, OwnerInv, OwnerInv', ConnectedInv, OwnInv, [Next]_vars
    PROVE  OwnInv'
<1>1. CASE \E lb \in Loadbalancers : \E nets \in NetworksOf[lb] \cup {{}} : Begin(lb, nets)
  BY <1>1, QuietOwn
<1>2. CASE \E failed \in Devices \cup {0} :
              \/ Folders(failed)
              \/ TenantDomains(failed)
              \/ UpdateRdsCache(failed)
              \/ \E n \in Networks : CreateAuxRd(n, failed)
              \/ \E n \in Networks, pooled \in BOOLEAN : AssureSnats(n, failed, pooled)
  BY <1>2, QuietOwn, UpdateRdsCacheOwn, AssignOwn, AssureSnatsOwn
<1>3. CASE \E n \in Networks :
              \/ \E rd \in {0} \cup Cached(n) : KnownDomain(n, rd)
              \/ \E rd \in Primary(Tenant, 1) : OnlyDomain(n, rd)
              \/ OnlyDomainFails(n)
              \/ \E rd \in CachedDomains : Place(n, rd)
              \/ CannotPlace(n)
  BY <1>3, AssignOwn, QuietOwn
<1>4. CASE StartConnect \/ (\E unbound \in BOOLEAN : Connect(unbound)) \/ PostFails
  BY <1>4, StartConnectOwn, ConnectOwn, QuietOwn
<1>5. CASE \E outcome \in {"vlan", "domain", "binding", "selfip", "moved"} : ConnectFails(outcome)
  BY <1>5, QuietOwn
<1>6. CASE \E failed \in SUBSET Devices : AssureService(failed) \/ Cleanup(failed)
  BY <1>6, AssureServiceOwn, CleanupOwn
<1>7. CASE \/ \E failed \in SUBSET req.drop, kept \in SUBSET req.drop, lost \in SUBSET req.drop :
                  ReleaseShared(failed, kept, lost)
           \/ \E failed \in SUBSET req.drop, stays \in SUBSET req.drop, cut \in SUBSET req.drop :
                  Release(failed, stays, cut)
  BY <1>7, ReleaseOwn, ReleaseSharedOwn
<1>8. CASE FlushCache \/ Restart
  BY <1>8, QuietOwn
<1>9. CASE UNCHANGED vars
  BY <1>9, OwnKept DEF vars, deviceVars, cacheVars, rdsVars, requestVars
<1> QED
  BY <1>1, <1>2, <1>3, <1>4, <1>5, <1>6, <1>7, <1>8, <1>9 DEF Next

(***************************************************************************)
(* What is a tenant's own, for any tenants, networks and devices: its subnets *)
(* are cached for it alone, and its addresses are in domains that were made   *)
(* for it, as long as its cache named no other.                               *)
(***************************************************************************)
THEOREM NetworkOwn == Spec => []OwnInv
<1>1. CacheInv /\ OwnerInv /\ OwnerInv' /\ ConnectedInv /\ OwnInv /\ [Next]_vars => OwnInv'
  BY NextOwn
<1> QED
  BY <1>1, InitOwn, NetworkInvariant, NetworkOwners, NetworkOneDomain, PTL DEF Spec

(***************************************************************************)
(* assured_tenant_snat_subnets is true: what a device has cached as done has  *)
(* its self IP there, unless it is shared and a request released it without   *)
(* knowing who else uses it (blind), or both halves of a release failed, or   *)
(* the first did and the network is flat (stale).                             *)
(***************************************************************************)
THEOREM NetworkCacheIsTrue == Spec => []CacheIsTrue
<1>1. CacheInv /\ OwnInv => CacheIsTrue
  BY DEF CacheInv, SubnetHasSelfip, OwnInv, OwnSubnets, CacheIsTrue
<1> QED
  BY <1>1, NetworkInvariant, NetworkOwn, PTL

(***************************************************************************)
(* Tenants are isolated: their self IPs and addresses are in different route  *)
(* domains on all devices, although ids are used again, whichever calls fail  *)
(* on some devices and whenever caches are flushed or lost; of the addresses  *)
(* those on a subnet that is stale on their device are left out.              *)
(***************************************************************************)
THEOREM NetworkTenantsAreApart == Spec => []TenantsAreApart
<1>1. ASSUME CacheInv, OwnerInv, OwnInv PROVE TenantsAreApart
  <2> SUFFICES ASSUME NEW d \in Devices, NEW e \in Devices
               PROVE  /\ \A m, n \in Networks :
                            selfip[d][m] # None /\ selfip[d][m] = selfip[e][n]
                                => Owner[m] = Owner[n] \/ "common" \in {Owner[m], Owner[n]}
                      /\ \A i \in ips[d], j \in ips[e] :
                            i[3] = j[3] =>
                                \/ Owner[i[2]] = Owner[j[2]]
                                \/ {Owner[i[2]], Owner[j[2]]} \cap ({"common"} \cup guessed) # {}
                                \/ i[2] \in stale[d] \/ j[2] \in stale[e]
    BY DEF TenantsAreApart
  <2>1. ASSUME NEW m \in Networks, NEW n \in Networks, Owner[m] # Owner[n],
               ~Common(m), ~Common(n), selfip[d][m] # None, selfip[d][m] = selfip[e][n]
        PROVE  FALSE
    <3>1. /\ vlan[d][m] = selfip[d][m] /\ vlan[e][n] = selfip[e][n]
          /\ selfip[d][m] \notin {None, 0} /\ selfip[e][n] \notin {None, 0}
      BY <1>1, <2>1 DEF OwnerInv, DeviceInv, SelfipIsOnVlan, OwnInv, OwnNotCommon
    <3>2. PICK r \in domains[d] : r[1] = selfip[d][m] /\ r[2] = Owner[m]
      BY <1>1, <3>1 DEF OwnerInv, DeviceInv, VlanIsOwned
    <3>3. PICK s \in domains[e] : s[1] = selfip[e][n] /\ s[2] = Owner[n]
      BY <1>1, <3>1 DEF OwnerInv, DeviceInv, VlanIsOwned
    <3> QED
      BY <1>1, <2>1, <3>2, <3>3 DEF OwnerInv, DeviceInv, DomainOfOne
  <2>2. ASSUME NEW i \in ips[d], NEW j \in ips[e], Owner[i[2]] # Owner[j[2]],
               Trusted(i[2]), Trusted(j[2]), i[2] \notin stale[d], j[2] \notin stale[e],
               i[3] = j[3]
        PROVE  FALSE
    <3>1. PICK r \in domains[d] : r[1] = i[3] /\ r[2] = Owner[i[2]]
      BY <1>1, <2>2 DEF OwnInv, OwnAddresses
    <3>2. PICK s \in domains[e] : s[1] = j[3] /\ s[2] = Owner[j[2]]
      BY <1>1, <2>2 DEF OwnInv, OwnAddresses
    <3> QED
      BY <1>1, <2>2, <3>1, <3>2 DEF OwnerInv, DeviceInv, DomainOfOne
  <2> QED
    BY <2>1, <2>2 DEF Trusted, Common
<1> QED
  BY <1>1, NetworkInvariant, NetworkOwners, NetworkOwn, PTL
=============================================================================
