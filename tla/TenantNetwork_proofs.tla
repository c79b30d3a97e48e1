-------------------------- MODULE TenantNetwork_proofs --------------------------
(***************************************************************************)
(* Proofs about a tenant's network, for any load balancers, networks, number *)
(* of devices and bounds.                                                    *)
(*                                                                           *)
(* A subnet enters a device's cache at the end of a request that has seen its *)
(* self IP on every device (Connected), and its route domain is known by then *)
(* (Annotated).  It may lose the self IP only when no other tenant has it in  *)
(* the device's cache, which was looked up some calls before (Released), and  *)
(* it then leaves the cache of its tenant, or is known to be left in it       *)
(* (stale).                                                                   *)
(***************************************************************************)
EXTENDS TenantNetwork, FiniteSetTheorems, WellFoundedInduction, TLAPS

Ids == Nat \ {0}
AnyDomain == Nat \cup {None}

\* Ids of the route domains on the devices.
Taken == {r[1] : r \in UNION {domains[d] : d \in Devices}}

DeviceTypes ==
    /\ domains \in [Devices -> SUBSET (Ids \X Tenants \X BOOLEAN)]
    /\ IsFiniteSet(Taken)
    /\ selfip \in [Devices -> [Networks -> AnyDomain]]
    /\ ips \in [Devices -> SUBSET (Loadbalancers \X Networks \X AnyDomain)]

CacheTypes ==
    /\ assured_subnets \in [Devices -> SUBSET (Tenants \X Networks)]
    /\ rds_cache \subseteq Tenants \X Nat \X Networks \X BOOLEAN
    /\ stale \in [Devices -> SUBSET Networks]

\* Between its first and its last step a request has a load balancer.
RequestTypes ==
    /\ req.keep \subseteq Networks
    /\ req.drop \subseteq Networks
    /\ at # "idle" => req.lb \in Loadbalancers
    /\ route_domain_id \in [Networks -> AnyDomain]
    /\ check_for_delete \in [Devices -> SUBSET Networks]

TodoTypes ==
    /\ at = "assure" => todo \subseteq Devices \X req.keep
    /\ at = "snats" => todo \subseteq req.keep
    /\ at \in {"release_shared", "release"} => todo \subseteq Devices /\ todo # {}

\* The networks that are kept have a route domain before anything is assured on them.
Annotated ==
    \A n \in req.keep :
        (at = "assign" /\ n \notin todo) \/ at \in {"connect", "assure"}
            => route_domain_id[n] # None

\* And a self IP on the devices that are done.
Connected ==
    \A d \in Devices : \A n \in req.keep :
        (at = "assure" /\ <<d, n>> \notin todo) \/ at = "snats"
            => selfip[d][n] # None \/ n \in blind \cup stale[d]

\* What a device is about to release, no other tenant has cached there.
Released ==
    \A d \in Devices :
        (at = "release_shared" /\ d \notin todo) \/ at = "release"
            => \A n \in ToDelete(d) : n \in blind \/ ~InUseByOthers(d, n)

\* What a device has cached as done has its self IP there.
SubnetHasSelfip ==
    \A d \in Devices : \A s \in assured_subnets[d] :
        s[2] \notin blind \cup stale[d] => selfip[d][s[2]] # None

Types == DeviceTypes /\ CacheTypes /\ RequestTypes /\ TodoTypes

CacheInv == Types /\ SubnetHasSelfip /\ Annotated /\ Connected /\ Released

\* The steps of a request at which one of these says something.
Watched == {"assign", "connect", "assure", "snats", "release_shared", "release"}

\* What a step leaves to be shown when it moves to one that is not watched.
RequestInv == RequestTypes /\ TodoTypes /\ Annotated /\ Connected /\ Released

-------------------------------------------------------------------------------
(* The next route domain id, and the first device.                               *)

\* A set of natural numbers has a least element.
LEMMA LeastExists ==
    ASSUME NEW S \in SUBSET Nat, S # {}
    PROVE  \E x \in S : \A y \in S : x <= y
<1>1. PICK x \in S : \A y \in S : ~(<<y, x>> \in OpToRel(<, Nat))
  BY NatLessThanWellFounded, WFMin
<1>2. \A y \in S : ~(y < x)
  BY <1>1 DEF OpToRel
<1>3. \A y \in S : x <= y
  BY <1>2
<1> QED
  BY <1>3

\* Not all of one more numbers than there are ids are taken: there is a next id.
LEMMA NextDomainIdIsNew ==
    ASSUME DeviceTypes
    PROVE  NextDomainId \in Ids /\ NextDomainId \notin Taken
<1> DEFINE most == Cardinality(Taken) + 1
           free == {i \in 1..most : i \notin Taken}
<1>1. Cardinality(Taken) \in Nat
  BY FS_CardinalityType DEF DeviceTypes
<1>2. free # {}
  <2> SUFFICES ASSUME free = {} PROVE FALSE
    OBVIOUS
  <2>1. 1..most \in SUBSET Taken
    OBVIOUS
  <2>2. Cardinality(1..most) <= Cardinality(Taken)
    BY <2>1, FS_Subset DEF DeviceTypes
  <2>3. Cardinality(1..most) = most
    BY <1>1, FS_Interval
  <2> QED
    BY <1>1, <2>2, <2>3
<1>3. free \in SUBSET Nat
  BY <1>1
<1>4. PICK i \in free : \A j \in free : i <= j
  <2> HIDE DEF free
  <2> QED
    BY <1>2, <1>3, LeastExists
<1>5. \A j \in 1..(i - 1) : j \in Taken
  BY <1>1, <1>4
<1>6. NextDomainId = CHOOSE k \in 1..most : k \notin Taken /\ \A j \in 1..(k - 1) : j \in Taken
  BY DEF NextDomainId, Taken
<1>7. NextDomainId \in 1..most /\ NextDomainId \notin Taken
  BY <1>4, <1>5, <1>6
<1> QED
  BY <1>1, <1>7 DEF Ids

\* Devices go from the lowest to the highest.
LEMMA FirstDeviceIsLeft ==
    ASSUME todo \subseteq Devices, todo # {}
    PROVE  FirstDevice \in todo
<1>1. todo \in SUBSET Nat
  BY TenantNetworkAssumption DEF Devices
<1>2. \E d \in todo : \A e \in todo : d <= e
  BY <1>1, LeastExists
<1> QED
  BY <1>2 DEF FirstDevice

LEMMA FirstPairIsLeft ==
    ASSUME todo \subseteq Devices \X Networks, todo # {}
    PROVE  FirstPair \in todo
<1> DEFINE first == {p[1] : p \in todo}
<1>1. first \in SUBSET Nat /\ first # {}
  BY TenantNetworkAssumption DEF Devices
<1>2. PICK d \in first : \A e \in first : d <= e
  <2> HIDE DEF first
  <2> QED
    BY <1>1, LeastExists
<1>3. \E p \in todo : \A q \in todo : p[1] <= q[1]
  BY <1>2
<1> QED
  BY <1>3 DEF FirstPair

-------------------------------------------------------------------------------
(* What several steps have in common.                                            *)

LEMMA InitInv == Init => CacheInv
<1> SUFFICES ASSUME Init PROVE CacheInv
  OBVIOUS
<1>1. Taken = {}
  BY DEF Init, Taken
<1>2. DeviceTypes
  BY <1>1, FS_EmptySet DEF DeviceTypes, Init, AnyDomain
<1>3. CacheTypes /\ RequestTypes /\ TodoTypes
  BY DEF Init, CacheTypes, RequestTypes, TodoTypes, NoRequest, AnyDomain
<1>4. SubnetHasSelfip
  BY DEF Init, SubnetHasSelfip
<1>5. Annotated /\ Connected /\ Released
  BY DEF Init, Annotated, Connected, Released
<1> QED
  BY <1>2, <1>3, <1>4, <1>5 DEF CacheInv, Types

\* A request that ends, or goes on to its service, leaves nothing to be shown.
LEMMA EndInv ==
    ASSUME CacheInv, at # "idle", PrepFails \/ Return
    PROVE  RequestInv'
<1>1. CASE Return
  BY <1>1 DEF Return, NoRequest, RequestInv, RequestTypes, TodoTypes, Annotated, Connected,
              Released, AnyDomain
<1>2. CASE GoTo("service", {})
  BY <1>2 DEF GoTo, CacheInv, Types, RequestInv, RequestTypes, TodoTypes, Annotated, Connected,
              Released
<1> QED
  BY <1>1, <1>2 DEF PrepFails

\* A step that is not watched.
LEMMA UnwatchedInv ==
    ASSUME CacheInv, at # "idle", NEW step, NEW rest, GoTo(step, rest), step \notin Watched
    PROVE  RequestInv'
BY DEF GoTo, Watched, CacheInv, Types, RequestInv, RequestTypes, TodoTypes, Annotated,
       Connected, Released

\* Self IPs stay and caches shrink.
LEMMA CacheShrinks ==
    ASSUME CacheInv, UNCHANGED <<selfip, stale>>, blind \subseteq blind',
           \A d \in Devices : assured_subnets'[d] \subseteq assured_subnets[d]
    PROVE  SubnetHasSelfip'
BY DEF CacheInv, SubnetHasSelfip

\* A domain that is added to devices has a new id, and the ids remain finitely many.
LEMMA DomainsGrow ==
    ASSUME CacheInv, Tenant \in Tenants, NEW aux \in BOOLEAN, NEW on \in SUBSET Devices,
           domains' = [d \in Devices |-> IF d \in on THEN WithDomain(d, aux) ELSE domains[d]]
    PROVE  /\ domains' \in [Devices -> SUBSET (Ids \X Tenants \X BOOLEAN)]
           /\ IsFiniteSet(Taken)'
<1>1. NextDomainId \in Ids
  BY NextDomainIdIsNew DEF CacheInv, Types
<1>2. domains' \in [Devices -> SUBSET (Ids \X Tenants \X BOOLEAN)]
  BY <1>1 DEF WithDomain, CacheInv, Types, DeviceTypes
<1>3. \A d \in Devices : domains'[d] \subseteq domains[d] \cup {<<NextDomainId, Tenant, aux>>}
  BY DEF WithDomain
<1>4. Taken' \in SUBSET (Taken \cup {NextDomainId})
  BY <1>3 DEF Taken
<1>5. IsFiniteSet(Taken \cup {NextDomainId})
  BY FS_AddElement DEF CacheInv, Types, DeviceTypes
<1>6. IsFiniteSet(Taken')
  BY <1>4, <1>5, FS_Subset
<1> QED
  BY <1>2, <1>6

LEMMA TenantIsTenant ==
    ASSUME CacheInv, at # "idle"
    PROVE  Tenant \in Tenants
BY TenantNetworkAssumption DEF Tenant, CacheInv, Types, RequestTypes

-------------------------------------------------------------------------------
(* The steps up to the route domains.                                            *)

LEMMA BeginInv ==
    ASSUME CacheInv, NEW lb \in Loadbalancers, NEW nets \in NetworksOf[lb] \cup {{}},
           Begin(lb, nets)
    PROVE  CacheInv'
<1>1. nets \subseteq Networks
  BY TenantNetworkAssumption
<1>2. On(lb) \subseteq Networks
  BY DEF On, CacheInv, Types, DeviceTypes
<1>3. RequestTypes' /\ TodoTypes'
  BY <1>1, <1>2 DEF Begin, CacheInv, Types, RequestTypes, TodoTypes
<1>4. DeviceTypes' /\ CacheTypes'
  BY DEF Begin, deviceVars, cacheVars, rdsVars, CacheInv, Types, DeviceTypes, CacheTypes, Taken
<1>5. SubnetHasSelfip'
  BY CacheShrinks DEF Begin, deviceVars, cacheVars
<1>6. Annotated' /\ Connected' /\ Released'
  BY DEF Begin, Annotated, Connected, Released
<1> QED
  BY <1>3, <1>4, <1>5, <1>6 DEF CacheInv, Types

LEMMA FoldersInv ==
    ASSUME CacheInv, NEW failed, Folders(failed)
    PROVE  CacheInv'
<1>1. RequestInv'
  <2>1. CASE GoTo("domains", {})
    BY <2>1, UnwatchedInv DEF Folders, Watched
  <2>2. CASE Return
    BY <2>2, EndInv DEF Folders
  <2> QED
    BY <2>1, <2>2 DEF Folders
<1>2. DeviceTypes' /\ CacheTypes'
  BY DEF Folders, cacheVars, rdsVars, CacheInv, Types, DeviceTypes, CacheTypes, Taken
<1>3. SubnetHasSelfip'
  BY CacheShrinks DEF Folders, cacheVars
<1> QED
  BY <1>1, <1>2, <1>3 DEF CacheInv, Types, RequestInv

LEMMA TenantDomainsInv ==
    ASSUME CacheInv, NEW failed, TenantDomains(failed)
    PROVE  CacheInv'
<1>1. RequestInv'
  <2>1. CASE GoTo("annotate", {})
    BY <2>1, UnwatchedInv DEF TenantDomains, Watched
  <2>2. CASE Return
    BY <2>2, EndInv DEF TenantDomains
  <2> QED
    BY <2>1, <2>2 DEF TenantDomains
<1>2. DeviceTypes'
  <2> DEFINE on == {d \in Devices : d \in Before(failed) /\ Primary(Tenant, d) = {}}
  <2>1. domains' = [d \in Devices |-> IF d \in on THEN WithDomain(d, FALSE) ELSE domains[d]]
    BY DEF TenantDomains
  <2>2. Tenant \in Tenants
    BY TenantIsTenant DEF TenantDomains
  <2> HIDE DEF on
  <2>3. on \in SUBSET Devices
    BY DEF on
  <2>4. /\ domains' \in [Devices -> SUBSET (Ids \X Tenants \X BOOLEAN)]
        /\ IsFiniteSet(Taken)'
    BY <2>1, <2>2, <2>3, DomainsGrow
  <2> QED
    BY <2>4 DEF TenantDomains, CacheInv, Types, DeviceTypes
<1>3. CacheTypes'
  BY DEF TenantDomains, cacheVars, rdsVars, CacheInv, Types, CacheTypes
<1>4. SubnetHasSelfip'
  BY CacheShrinks DEF TenantDomains, cacheVars
<1> QED
  BY <1>1, <1>2, <1>3, <1>4 DEF CacheInv, Types, RequestInv

\* What the devices tell of a tenant's VLANs.
LEMMA CachedFromTypes ==
    ASSUME CacheInv, NEW d \in Devices, NEW t \in Tenants
    PROVE  CachedFrom(d, t) \subseteq Tenants \X Nat \X Networks \X BOOLEAN
<1> SUFFICES ASSUME NEW n \in VlansOf(d, t)
             PROVE  <<t, vlan[d][n], n, selfip[d][n] # None>>
                       \in Tenants \X Nat \X Networks \X BOOLEAN
  BY DEF CachedFrom
<1>1. n \in Networks
  BY DEF VlansOf
<1>2. PICK r \in domains[d] : r[1] = vlan[d][n]
  BY DEF VlansOf
<1>3. r[1] \in Nat
  BY <1>2 DEF CacheInv, Types, DeviceTypes, Ids
<1> QED
  BY <1>1, <1>2, <1>3

\* And the device that fails.
LEMMA PartOfTypes ==
    ASSUME CacheInv, NEW d \in Devices, Tenant \in Tenants, NEW seen,
           NEW last \in SUBSET VlansOf(d, Tenant)
    PROVE  PartOf(d, seen, last) \subseteq Tenants \X Nat \X Networks \X BOOLEAN
<1> SUFFICES ASSUME NEW n \in last
             PROVE  <<Tenant, vlan[d][n], n, FALSE>> \in Tenants \X Nat \X Networks \X BOOLEAN
  BY CachedFromTypes DEF PartOf
<1>1. <<Tenant, vlan[d][n], n, selfip[d][n] # None>> \in CachedFrom(d, Tenant)
  BY DEF CachedFrom
<1>2. <<Tenant, vlan[d][n], n, selfip[d][n] # None>> \in Tenants \X Nat \X Networks \X BOOLEAN
  BY <1>1, CachedFromTypes
<1> QED
  BY <1>2

\* What is new in the cache is what some device told, or the one that failed.
LEMMA EntriesFound ==
    ASSUME NEW failed, UpdateRdsCache(failed), NEW e \in rds_cache', e \notin rds_cache
    PROVE  \/ \E d \in Before(failed) : e \in CachedFrom(d, Tenant)
           \/ /\ failed # 0
              /\ \E seen, last \in SUBSET VlansOf(failed, Tenant) : e \in PartOf(failed, seen, last)
BY DEF UpdateRdsCache, Merged

LEMMA UpdateRdsCacheInv ==
    ASSUME CacheInv, NEW failed \in Devices \cup {0}, UpdateRdsCache(failed)
    PROVE  CacheInv'
<1>1. RequestInv'
  <2>1. CASE GoTo("assign", req.keep \cup req.drop)
    BY <2>1 DEF GoTo, CacheInv, Types, RequestInv, RequestTypes, TodoTypes, Annotated,
                Connected, Released, UpdateRdsCache
  <2>2. CASE PrepFails
    BY <2>2, EndInv DEF UpdateRdsCache
  <2> QED
    BY <2>1, <2>2 DEF UpdateRdsCache
<1>2. DeviceTypes'
  BY DEF UpdateRdsCache, deviceVars, CacheInv, Types, DeviceTypes, Taken
<1>3. CacheTypes'
  <2>1. Tenant \in Tenants
    BY TenantIsTenant DEF UpdateRdsCache
  <2>2. ASSUME NEW e \in rds_cache', e \notin rds_cache
        PROVE  e \in Tenants \X Nat \X Networks \X BOOLEAN
    <3>1. CASE \E d \in Before(failed) : e \in CachedFrom(d, Tenant)
      BY <2>1, <3>1, CachedFromTypes DEF Before
    <3>2. CASE /\ failed # 0
               /\ \E seen, last \in SUBSET VlansOf(failed, Tenant) :
                     e \in PartOf(failed, seen, last)
      BY <2>1, <3>2, PartOfTypes
    <3> QED
      BY <2>2, <3>1, <3>2, EntriesFound
  <2> QED
    BY <2>2 DEF UpdateRdsCache, cacheVars, CacheInv, Types, CacheTypes
<1>4. SubnetHasSelfip'
  BY CacheShrinks DEF UpdateRdsCache, cacheVars, deviceVars
<1> QED
  BY <1>1, <1>2, <1>3, <1>4 DEF CacheInv, Types, RequestInv

\* A network is annotated with a domain, not with None.
LEMMA AnnotateInv ==
    ASSUME CacheInv, at = "assign", NEW n \in Networks, NEW rd \in Nat, Annotate(n, rd)
    PROVE  RequestInv'
<1>1. rd # None
  BY DEF None
<1>2. route_domain_id' = [route_domain_id EXCEPT ![n] = rd]
  BY DEF Annotate
<1>3. route_domain_id' \in [Networks -> AnyDomain]
  BY <1>2 DEF CacheInv, Types, RequestTypes, AnyDomain
<1>4. RequestTypes' /\ TodoTypes'
  BY <1>3 DEF Annotate, CacheInv, Types, RequestTypes, TodoTypes
<1>5. Annotated'
  BY <1>1, <1>2 DEF Annotate, CacheInv, Types, RequestTypes, Annotated
<1>6. Connected' /\ Released'
  BY DEF Annotate, Connected, Released
<1> QED
  BY <1>4, <1>5, <1>6 DEF RequestInv

\* An entry that is added names a domain.
LEMMA EntryAdded ==
    ASSUME CacheInv, UNCHANGED <<assured_subnets, stale>>, NEW t \in Tenants, NEW rd \in Nat,
           NEW n \in Networks, rds_cache' \subseteq rds_cache \cup {<<t, rd, n, TRUE>>}
    PROVE  CacheTypes'
<1>1. rds_cache \subseteq Tenants \X Nat \X Networks \X BOOLEAN
  BY DEF CacheInv, Types, CacheTypes
<1>2. <<t, rd, n, TRUE>> \in Tenants \X Nat \X Networks \X BOOLEAN
  OBVIOUS
<1>3. rds_cache' \subseteq Tenants \X Nat \X Networks \X BOOLEAN
  BY <1>1, <1>2
<1> QED
  BY <1>3 DEF CacheInv, Types, CacheTypes

LEMMA AssignInv ==
    ASSUME CacheInv, NEW n \in Networks, NEW rd,
           \/ rd \in {0} \cup Cached(n) /\ KnownDomain(n, rd)
           \/ rd \in Primary(Tenant, 1) /\ OnlyDomain(n, rd)
           \/ rd \in CachedDomains /\ Place(n, rd)
    PROVE  CacheInv'
<1>1. rd \in Nat
  <2>1. CASE rd \in {0} \cup Cached(n)
    BY <2>1 DEF Cached, CacheInv, Types, CacheTypes
  <2>2. CASE rd \in Primary(Tenant, 1)
    <3>1. 1 \in Devices
      BY TenantNetworkAssumption DEF Devices
    <3>2. PICK r \in domains[1] : rd = r[1]
      BY <2>2 DEF Primary
    <3> QED
      BY <3>1, <3>2 DEF CacheInv, Types, DeviceTypes, Ids
  <2>3. CASE rd \in CachedDomains
    BY <2>3 DEF CachedDomains, CacheInv, Types, CacheTypes
  <2> QED
    BY <2>1, <2>2, <2>3
<1>2. at = "assign" /\ Annotate(n, rd) /\ UNCHANGED <<deviceVars, cacheVars, blind, stale>>
  BY DEF KnownDomain, OnlyDomain, Place, IsPlaced
<1>3. RequestInv'
  BY <1>1, <1>2, AnnotateInv
<1>4. Tenant \in Tenants
  BY <1>2, TenantIsTenant
<1>5. rds_cache' \subseteq rds_cache \cup {<<Tenant, rd, n, TRUE>>}
  BY DEF KnownDomain, OnlyDomain, Place, rdsVars
<1>6. CacheTypes'
  BY <1>1, <1>2, <1>4, <1>5, EntryAdded DEF cacheVars
<1>7. DeviceTypes'
  BY <1>2 DEF deviceVars, CacheInv, Types, DeviceTypes, Taken
<1>8. SubnetHasSelfip'
  BY <1>2, CacheShrinks DEF cacheVars, deviceVars
<1> QED
  BY <1>3, <1>6, <1>7, <1>8 DEF CacheInv, Types, RequestInv

LEMMA CreateAuxRdInv ==
    ASSUME CacheInv, NEW n \in Networks, NEW failed, CreateAuxRd(n, failed)
    PROVE  CacheInv'
<1>1. NextDomainId \in Nat
  BY NextDomainIdIsNew DEF CacheInv, Types, Ids
<1>2. at = "assign"
  BY DEF CreateAuxRd, IsPlaced
<1>3. Tenant \in Tenants
  BY <1>2, TenantIsTenant
<1>4. RequestInv'
  <2>1. CASE PrepFails
    BY <1>2, <2>1, EndInv
  <2>2. CASE Annotate(n, NextDomainId)
    BY <1>1, <1>2, <2>2, AnnotateInv
  <2> QED
    BY <2>1, <2>2 DEF CreateAuxRd
<1>5. DeviceTypes'
  <2> DEFINE on == {d \in Devices : d \in Before(failed)}
  <2>1. domains' = [d \in Devices |-> IF d \in on THEN WithDomain(d, TRUE) ELSE domains[d]]
    BY DEF CreateAuxRd
  <2> HIDE DEF on
  <2>2. on \in SUBSET Devices
    BY DEF on
  <2>3. /\ domains' \in [Devices -> SUBSET (Ids \X Tenants \X BOOLEAN)]
        /\ IsFiniteSet(Taken)'
    BY <1>3, <2>1, <2>2, DomainsGrow
  <2> QED
    BY <2>3 DEF CreateAuxRd, CacheInv, Types, DeviceTypes
<1>6. CacheTypes'
  <2>1. rds_cache' \subseteq rds_cache \cup {<<Tenant, NextDomainId, n, TRUE>>}
    BY DEF CreateAuxRd
  <2> QED
    BY <1>1, <1>3, <2>1, EntryAdded DEF CreateAuxRd, cacheVars
<1>7. SubnetHasSelfip'
  BY CacheShrinks DEF CreateAuxRd, cacheVars
<1> QED
  BY <1>4, <1>5, <1>6, <1>7 DEF CacheInv, Types, RequestInv

LEMMA CannotPlaceInv ==
    ASSUME CacheInv, NEW n \in Networks, CannotPlace(n) \/ OnlyDomainFails(n)
    PROVE  CacheInv'
<1>1. RequestInv'
  BY EndInv DEF CannotPlace, OnlyDomainFails, IsPlaced
<1>2. DeviceTypes' /\ CacheTypes'
  BY DEF CannotPlace, OnlyDomainFails, deviceVars, cacheVars, rdsVars, CacheInv, Types,
         DeviceTypes, CacheTypes, Taken
<1>3. SubnetHasSelfip'
  BY CacheShrinks DEF CannotPlace, OnlyDomainFails, cacheVars, deviceVars
<1> QED
  BY <1>1, <1>2, <1>3 DEF CacheInv, Types, RequestInv

-------------------------------------------------------------------------------
(* Assuring the subnets.                                                         *)

LEMMA StartConnectInv ==
    ASSUME CacheInv, StartConnect
    PROVE  CacheInv'
<1>1. RequestInv'
  <2>1. CASE GoTo("service", Devices \X req.keep)
    BY <2>1, UnwatchedInv DEF StartConnect, Watched
  <2>2. CASE GoTo("assure", Devices \X req.keep)
    BY <2>2 DEF GoTo, StartConnect, CacheInv, Types, RequestInv, RequestTypes, TodoTypes,
                Annotated, Connected, Released
  <2> QED
    BY <2>1, <2>2 DEF StartConnect
<1>2. DeviceTypes' /\ CacheTypes'
  BY DEF StartConnect, deviceVars, cacheVars, rdsVars, CacheInv, Types, DeviceTypes,
         CacheTypes, Taken
<1>3. SubnetHasSelfip'
  BY CacheShrinks DEF StartConnect, cacheVars, deviceVars
<1> QED
  BY <1>1, <1>2, <1>3 DEF CacheInv, Types, RequestInv

LEMMA ConnectFailsInv ==
    ASSUME CacheInv, NEW outcome, ConnectFails(outcome)
    PROVE  CacheInv'
<1>1. RequestInv'
  BY EndInv DEF ConnectFails
<1>4. DeviceTypes' /\ CacheTypes'
  BY DEF ConnectFails, rdsVars, CacheInv, Types, DeviceTypes, CacheTypes, Taken
<1>5. SubnetHasSelfip'
  BY CacheShrinks DEF ConnectFails
<1> QED
  BY <1>1, <1>4, <1>5 DEF CacheInv, Types, RequestInv

\* A self IP is made in the domain of the network, or was there, or is believed to be.
LEMMA ConnectInv ==
    ASSUME CacheInv, NEW unbound, Connect(unbound)
    PROVE  CacheInv'
<1> DEFINE d == FirstPair[1]
           n == FirstPair[2]
           rd == route_domain_id[n]
           exists == <<Tenant, n>> \in assured_subnets[d] \/ selfip[d][n] # None
<1>1. /\ todo \subseteq Devices \X req.keep
      /\ req.keep \subseteq Networks
      /\ at = "assure"
      /\ todo # {}
  BY DEF Connect, CacheInv, Types, TodoTypes, RequestTypes
<1>2. FirstPair \in todo /\ FirstPair \in Devices \X req.keep
  BY <1>1, FirstPairIsLeft
<1>3. d \in Devices /\ n \in req.keep /\ n \in Networks /\ FirstPair = <<d, n>>
  BY <1>1, <1>2
<1>4. rd # None /\ rd \in AnyDomain
  BY <1>1, <1>3 DEF CacheInv, Annotated, Types, RequestTypes
<1>5. Tenant \in Tenants
  BY <1>1, TenantIsTenant
<1>6. PICK to : /\ to = IF exists THEN Vlan(d, n, TRUE) ELSE VlanForSelfip(d, n)
                /\ vlan' = [vlan EXCEPT ![d][n] = to]
                /\ selfip' = IF exists \/ to # rd THEN selfip
                             ELSE [selfip EXCEPT ![d][n] = rd]
                /\ stale' = IF exists \/ to # rd THEN stale ELSE [stale EXCEPT ![d] = @ \ {n}]
                /\ IF ~unbound /\ (exists \/ to = rd)
                   THEN IF todo = {FirstPair} THEN GoTo("snats", req.keep)
                        ELSE GoTo(at, todo \ {FirstPair})
                   ELSE PrepFails
  BY DEF Connect
<1>7. UNCHANGED <<folder, domains, snatpool, ips, assured_subnets, rdsVars, blind>>
  BY DEF Connect
<1>8. selfip' \in [Devices -> [Networks -> AnyDomain]]
  BY <1>3, <1>4, <1>6 DEF CacheInv, Types, DeviceTypes
<1>9. \A e \in Devices : \A m \in Networks :
         selfip[e][m] # None \/ m \in blind \cup stale[e]
            => selfip'[e][m] # None \/ m \in blind' \cup stale'[e]
  <2>1. CASE selfip' = selfip /\ stale' = stale
    BY <1>7, <2>1
  <2>2. CASE selfip' = [selfip EXCEPT ![d][n] = rd] /\ stale' = [stale EXCEPT ![d] = @ \ {n}]
    BY <1>3, <1>4, <1>7, <2>2 DEF CacheInv, Types, DeviceTypes, CacheTypes
  <2> QED
    BY <1>6, <2>1, <2>2
<1>10. SubnetHasSelfip'
  BY <1>7, <1>9 DEF CacheInv, SubnetHasSelfip, Types, CacheTypes
<1>11. stale' \in [Devices -> SUBSET Networks]
  BY <1>3, <1>6 DEF CacheInv, Types, CacheTypes
<1>12. DeviceTypes' /\ CacheTypes'
  BY <1>7, <1>8, <1>11 DEF rdsVars, CacheInv, Types, DeviceTypes, CacheTypes, Taken
<1>13. exists \/ (~exists /\ PrepFails) \/ selfip'[d][n] # None
  BY <1>3, <1>4, <1>6 DEF CacheInv, Types, DeviceTypes
<1>14. exists => selfip[d][n] # None \/ n \in blind \cup stale[d]
  BY <1>3, <1>5 DEF CacheInv, SubnetHasSelfip
<1>15. CASE PrepFails
  <2>1. RequestInv'
    BY <1>1, <1>15, EndInv
  <2> QED
    BY <1>10, <1>12, <2>1 DEF CacheInv, Types, RequestInv
<1>16. CASE ~PrepFails
  <2>1. selfip'[d][n] # None \/ n \in blind' \cup stale'[d]
    BY <1>3, <1>9, <1>13, <1>14, <1>16
  <2>2. \/ todo = {FirstPair} /\ GoTo("snats", req.keep)
        \/ GoTo("assure", todo \ {FirstPair})
    BY <1>1, <1>6, <1>16
  <2>3. \A e \in Devices, m \in req.keep :
           <<e, m>> \notin todo \/ <<e, m>> = FirstPair
              => selfip'[e][m] # None \/ m \in blind' \cup stale'[e]
    <3> SUFFICES ASSUME NEW e \in Devices, NEW m \in req.keep
                 PROVE  <<e, m>> \notin todo \/ <<e, m>> = FirstPair
                           => selfip'[e][m] # None \/ m \in blind' \cup stale'[e]
      OBVIOUS
    <3>1. CASE <<e, m>> \notin todo
      BY <1>1, <1>9, <3>1 DEF CacheInv, Connected
    <3>2. CASE <<e, m>> = FirstPair
      BY <1>3, <2>1, <3>2
    <3> QED
      BY <3>1, <3>2
  <2>4. RequestTypes' /\ TodoTypes' /\ Annotated' /\ Released'
    BY <1>1, <2>2 DEF GoTo, CacheInv, Types, RequestTypes, TodoTypes, Annotated, Released
  <2>5. Connected'
    BY <1>1, <1>7, <2>2, <2>3 DEF GoTo, Connected
  <2> QED
    BY <1>10, <1>12, <2>4, <2>5 DEF CacheInv, Types
<1> QED
  BY <1>15, <1>16

LEMMA AssureSnatsInv ==
    ASSUME CacheInv, NEW n \in Networks, NEW failed, NEW pooled, AssureSnats(n, failed, pooled)
    PROVE  CacheInv'
<1>1. /\ at = "snats"
      /\ n \in todo
      /\ n \in req.keep
      /\ Tenant \in Tenants
      /\ UNCHANGED <<domains, selfip, ips, rdsVars, stale>>
  BY TenantIsTenant DEF AssureSnats, CacheInv, Types, TodoTypes
<1>2. blind' = IF failed = 0 /\ \A d \in Devices : selfip[d][n] # None THEN blind \ {n} ELSE blind
  BY DEF AssureSnats
<1>3. \A d \in Devices : \A m \in Networks :
         selfip[d][m] # None \/ m \in blind \cup stale[d]
            => selfip'[d][m] # None \/ m \in blind' \cup stale'[d]
  BY <1>1, <1>2
<1>4. \A d \in Devices : assured_subnets'[d] \subseteq assured_subnets[d] \cup {<<Tenant, n>>}
  BY DEF AssureSnats
<1>5. CacheTypes'
  <2>1. assured_subnets' \in [Devices -> SUBSET (Tenants \X Networks)]
    BY <1>1 DEF AssureSnats, CacheInv, Types, CacheTypes
  <2> QED
    BY <1>1, <2>1 DEF rdsVars, CacheInv, Types, CacheTypes
<1>6. DeviceTypes'
  BY <1>1 DEF CacheInv, Types, DeviceTypes, Taken
<1>7. SubnetHasSelfip'
  <2> SUFFICES ASSUME NEW d \in Devices, NEW s \in assured_subnets'[d]
               PROVE  s[2] \notin blind' \cup stale'[d] => selfip'[d][s[2]] # None
    BY DEF SubnetHasSelfip
  <2>1. CASE s \in assured_subnets[d]
    BY <1>3, <2>1 DEF CacheInv, SubnetHasSelfip, Types, CacheTypes
  <2>2. CASE s = <<Tenant, n>>
    BY <1>1, <1>3, <2>2 DEF CacheInv, Connected
  <2> QED
    BY <1>4, <2>1, <2>2
<1>8. CASE PrepFails
  BY <1>1, <1>5, <1>6, <1>7, <1>8, EndInv DEF CacheInv, Types, RequestInv
<1>9. CASE GoTo("service", {})
  BY <1>1, <1>5, <1>6, <1>7, <1>9, UnwatchedInv DEF CacheInv, Types, RequestInv, Watched
<1>10. CASE GoTo(at, todo \ {n})
  <2>1. RequestTypes' /\ TodoTypes' /\ Annotated' /\ Released'
    BY <1>1, <1>10 DEF GoTo, CacheInv, Types, RequestTypes, TodoTypes, Annotated, Released
  <2>2. Connected'
    BY <1>1, <1>3, <1>10 DEF GoTo, CacheInv, Types, RequestTypes, Connected
  <2> QED
    BY <1>5, <1>6, <1>7, <2>1, <2>2 DEF CacheInv, Types
<1> QED
  BY <1>8, <1>9, <1>10 DEF AssureSnats

-------------------------------------------------------------------------------
(* The service, and the subnets that it leaves.                                  *)

LEMMA AssureServiceInv ==
    ASSUME CacheInv, NEW failed, AssureService(failed)
    PROVE  CacheInv'
<1>1. Addresses \subseteq Loadbalancers \X Networks \X AnyDomain
  BY DEF Addresses, AssureService, CacheInv, Types, RequestTypes
<1>2. ips' \in [Devices -> SUBSET (Loadbalancers \X Networks \X AnyDomain)]
  BY <1>1 DEF AssureService, CacheInv, Types, DeviceTypes
<1>3. DeviceTypes' /\ CacheTypes'
  BY <1>2 DEF AssureService, cacheVars, rdsVars, CacheInv, Types, DeviceTypes, CacheTypes, Taken
<1>4. Devices # {}
  BY TenantNetworkAssumption DEF Devices
<1>5. RequestTypes' /\ TodoTypes'
  BY <1>4 DEF AssureService, CacheInv, Types, RequestTypes, TodoTypes
<1>6. SubnetHasSelfip'
  BY CacheShrinks DEF AssureService, cacheVars
<1>7. Annotated' /\ Connected' /\ Released'
  BY DEF AssureService, Annotated, Connected, Released
<1> QED
  BY <1>3, <1>5, <1>6, <1>7 DEF CacheInv, Types

\* What is left in the hints of a device, when no other hint is added.
LEMMA ToDeleteShrinks ==
    ASSUME UNCHANGED <<ips, req, route_domain_id>>, NEW d \in Devices,
           check_for_delete'[d] \subseteq check_for_delete[d]
    PROVE  ToDelete(d)' = ToDelete(d) \cap check_for_delete'[d]
BY DEF ToDelete, IpsExist, AddressesOn, Tenant

LEMMA ReleaseSharedInv ==
    ASSUME CacheInv, NEW failed, NEW kept, NEW lost, ReleaseShared(failed, kept, lost)
    PROVE  CacheInv'
<1> DEFINE d == FirstDevice
           others == {n \in ToDelete(d) : InUseByOthers(d, n)}
<1>1. /\ at = "release_shared"
      /\ UNCHANGED <<domains, selfip, ips, rdsVars, req, route_domain_id, stale>>
  BY DEF ReleaseShared
<1>2. d \in todo /\ d \in Devices
  BY <1>1, FirstDeviceIsLeft DEF CacheInv, Types, TodoTypes
<1>3. assured_subnets' \in [Devices -> SUBSET (Tenants \X Networks)]
  BY <1>2 DEF ReleaseShared, NotAssured, CacheInv, Types, CacheTypes
<1>4. \A e \in Devices : assured_subnets'[e] \subseteq assured_subnets[e]
  BY <1>2 DEF ReleaseShared, NotAssured, CacheInv, Types, CacheTypes
<1>5. check_for_delete' = [check_for_delete EXCEPT ![d] = @ \ (others \ (failed \cup lost))]
  BY DEF ReleaseShared
<1>6. /\ check_for_delete' \in [Devices -> SUBSET Networks]
      /\ \A e \in Devices : check_for_delete'[e] \subseteq check_for_delete[e]
  BY <1>2, <1>5 DEF CacheInv, Types, RequestTypes
<1>7. blind' = blind \cup (others \cap (failed \cup lost))
  BY DEF ReleaseShared
<1>8. CacheTypes' /\ DeviceTypes'
  BY <1>1, <1>3 DEF rdsVars, CacheInv, Types, DeviceTypes, CacheTypes, Taken
<1>9. SubnetHasSelfip'
  BY <1>1, <1>4, <1>7, CacheShrinks
<1>10. /\ at' = IF todo = {d} THEN "release" ELSE "release_shared"
       /\ todo' = IF todo = {d} THEN Devices ELSE todo \ {d}
  BY <1>1 DEF ReleaseShared
<1>11. RequestTypes' /\ TodoTypes'
  <2>1. todo' \subseteq Devices /\ todo' # {}
    BY <1>1, <1>2, <1>10 DEF CacheInv, Types, TodoTypes
  <2> QED
    BY <1>1, <1>6, <1>10, <2>1 DEF CacheInv, Types, RequestTypes, TodoTypes
<1>12. \A e \in Devices : e \notin todo \/ e = d =>
          \A n \in ToDelete(e)' : n \in blind' \/ ~InUseByOthers(e, n)'
  <2> SUFFICES ASSUME NEW e \in Devices, e \notin todo \/ e = d, NEW n \in ToDelete(e)'
               PROVE  n \in blind' \/ ~InUseByOthers(e, n)'
    OBVIOUS
  <2>1. n \in ToDelete(e) /\ n \in check_for_delete'[e]
    BY <1>1, <1>6, ToDeleteShrinks
  <2>2. InUseByOthers(e, n)' => InUseByOthers(e, n)
    BY <1>1, <1>4 DEF InUseByOthers, Tenant
  <2>3. CASE e \notin todo
    BY <1>1, <1>7, <2>1, <2>2, <2>3 DEF CacheInv, Released
  <2>4. CASE e = d
    <3>1. n \notin others \ (failed \cup lost)
      BY <1>2, <1>5, <2>1, <2>4 DEF CacheInv, Types, RequestTypes
    <3> QED
      BY <1>7, <2>1, <2>2, <2>4, <3>1
  <2> QED
    BY <2>3, <2>4
<1>13. Released'
  BY <1>10, <1>12 DEF Released
<1>14. Annotated' /\ Connected'
  BY <1>10 DEF Annotated, Connected
<1> QED
  BY <1>8, <1>9, <1>11, <1>13, <1>14 DEF CacheInv, Types

LEMMA ReleaseInv ==
    ASSUME CacheInv, NEW failed, NEW stays, NEW cut, Release(failed, stays, cut)
    PROVE  CacheInv'
<1> DEFINE d == FirstDevice
           gone == ToDelete(d) \ failed
           finished == gone \ (cut \cup Flat)
<1>1. /\ at = "release"
      /\ UNCHANGED <<domains, ips>>
  BY DEF Release
<1>2. d \in todo /\ d \in Devices
  BY <1>1, FirstDeviceIsLeft DEF CacheInv, Types, TodoTypes
<1>3. selfip' = [selfip EXCEPT ![d] = [n \in Networks |-> IF n \in gone THEN None ELSE @[n]]]
  BY DEF Release
<1>4. assured_subnets' = [assured_subnets EXCEPT ![d] = NotAssured(@, finished)]
  BY DEF Release
<1>5. blind \subseteq blind'
  BY DEF Release
<1>6. rds_cache' \subseteq rds_cache
  BY DEF Release, Forgotten
<1>7. DeviceTypes'
  <2>1. selfip' \in [Devices -> [Networks -> AnyDomain]]
    BY <1>2, <1>3 DEF AnyDomain, CacheInv, Types, DeviceTypes
  <2> QED
    BY <1>1, <2>1 DEF CacheInv, Types, DeviceTypes, Taken
<1>8. stale' = [stale EXCEPT ![d] =
                    @ \cup {n \in gone \ finished : <<Tenant, n>> \in assured_subnets[d]}]
  BY DEF Release
<1>9. gone \subseteq Networks
  BY <1>2 DEF ToDelete, CacheInv, Types, RequestTypes
<1>10. CacheTypes'
  <2> HIDE DEF d, gone, finished
  <2> QED
    BY <1>2, <1>4, <1>6, <1>8, <1>9 DEF NotAssured, CacheInv, Types, CacheTypes
<1>11. /\ \A e \in Devices : stale[e] \subseteq stale'[e]
       /\ \A n \in gone \ finished : <<Tenant, n>> \in assured_subnets[d] => n \in stale'[d]
  <2> HIDE DEF d, gone, finished
  <2> QED
    BY <1>2, <1>8, <1>9 DEF CacheInv, Types, CacheTypes
<1>12. SubnetHasSelfip'
  <2> SUFFICES ASSUME NEW e \in Devices, NEW s \in assured_subnets'[e],
                      s[2] \notin blind' \cup stale'[e]
               PROVE  selfip'[e][s[2]] # None
    BY DEF SubnetHasSelfip
  <2>1. s \in assured_subnets[e] /\ s \in Tenants \X Networks
    BY <1>2, <1>4 DEF NotAssured, CacheInv, Types, CacheTypes
  <2>2. selfip[e][s[2]] # None
    BY <1>5, <1>11, <2>1 DEF CacheInv, SubnetHasSelfip
  <2>3. CASE e # d
    BY <1>2, <1>3, <2>2, <2>3 DEF CacheInv, Types, DeviceTypes
  <2>4. CASE e = d
    <3>1. s[2] \notin gone
      <4> SUFFICES ASSUME s[2] \in gone PROVE FALSE
        OBVIOUS
      <4>1. s[1] # Tenant
        <5>1. s \notin {Tenant} \X finished
          BY <1>2, <1>4, <2>4 DEF NotAssured, CacheInv, Types, CacheTypes
        <5> QED
          BY <1>11, <2>1, <2>4, <5>1
      <4>2. InUseByOthers(d, s[2])
        BY <2>1, <2>4, <4>1 DEF InUseByOthers
      <4> QED
        BY <1>1, <1>2, <1>5, <4>2 DEF CacheInv, Released
    <3> QED
      BY <1>2, <1>3, <2>1, <2>2, <2>4, <3>1 DEF CacheInv, Types, DeviceTypes
  <2> QED
    BY <2>3, <2>4
<1>13. CASE GoTo(at, todo \ {d}) /\ todo # {d}
  <2>1. RequestTypes' /\ TodoTypes' /\ Annotated' /\ Connected'
    BY <1>1, <1>2, <1>13 DEF GoTo, CacheInv, Types, RequestTypes, TodoTypes, Annotated, Connected
  <2>2. Released'
    <3> SUFFICES ASSUME NEW e \in Devices, NEW n \in ToDelete(e)'
                 PROVE  n \in blind' \/ ~InUseByOthers(e, n)'
      BY DEF Released
    <3>1. n \in ToDelete(e)
      BY <1>1, <1>13, ToDeleteShrinks DEF GoTo
    <3>2. n \in blind \/ ~InUseByOthers(e, n)
      BY <1>1, <3>1 DEF CacheInv, Released
    <3>3. \A t \in Tenants : <<t, n>> \in assured_subnets'[e] => <<t, n>> \in assured_subnets[e]
      BY <1>2, <1>4 DEF NotAssured, CacheInv, Types, CacheTypes
    <3> QED
      BY <1>5, <1>13, <3>2, <3>3 DEF GoTo, InUseByOthers, Tenant
  <2> QED
    BY <1>7, <1>10, <1>12, <2>1, <2>2 DEF CacheInv, Types
<1>14. CASE GoTo("cleanup", {})
  BY <1>1, <1>7, <1>10, <1>12, <1>14, UnwatchedInv DEF CacheInv, Types, RequestInv, Watched
<1>15. CASE Return
  BY <1>1, <1>7, <1>10, <1>12, <1>15, EndInv DEF CacheInv, Types, RequestInv
<1> QED
  BY <1>13, <1>14, <1>15 DEF Release

LEMMA PostFailsInv ==
    ASSUME CacheInv, PostFails
    PROVE  CacheInv'
<1>1. RequestInv'
  <2>1. CASE GoTo("cleanup", {})
    BY <2>1, UnwatchedInv DEF PostFails, Watched
  <2>2. CASE Return
    BY <2>2, EndInv DEF PostFails
  <2> QED
    BY <2>1, <2>2 DEF PostFails
<1>2. DeviceTypes' /\ CacheTypes'
  BY DEF PostFails, deviceVars, cacheVars, rdsVars, CacheInv, Types, DeviceTypes, CacheTypes,
         Taken
<1>3. SubnetHasSelfip'
  BY CacheShrinks DEF PostFails, cacheVars, deviceVars
<1> QED
  BY <1>1, <1>2, <1>3 DEF CacheInv, Types, RequestInv

LEMMA CleanupInv ==
    ASSUME CacheInv, NEW failed, Cleanup(failed)
    PROVE  CacheInv'
<1>1. RequestInv'
  BY EndInv DEF Cleanup
<1>2. /\ domains' \in [Devices -> SUBSET (Ids \X Tenants \X BOOLEAN)]
      /\ \A d \in Devices : domains'[d] \subseteq domains[d]
  BY DEF Cleanup, CacheInv, Types, DeviceTypes
<1>3. IsFiniteSet(Taken')
  <2>1. Taken' \in SUBSET Taken
    BY <1>2 DEF Taken
  <2> QED
    BY <2>1, FS_Subset DEF CacheInv, Types, DeviceTypes
<1>4. DeviceTypes' /\ CacheTypes'
  BY <1>2, <1>3 DEF Cleanup, cacheVars, CacheInv, Types, DeviceTypes, CacheTypes
<1>5. SubnetHasSelfip'
  BY CacheShrinks DEF Cleanup, cacheVars
<1> QED
  BY <1>1, <1>4, <1>5 DEF CacheInv, Types, RequestInv

LEMMA ResetInv ==
    ASSUME CacheInv, FlushCache \/ Restart
    PROVE  CacheInv'
<1>1. /\ assured_subnets' = [d \in Devices |-> {}]
      /\ UNCHANGED <<deviceVars, blind, stale>>
      /\ rds_cache' \subseteq rds_cache
  BY DEF FlushCache, Restart, Reset, rdsVars
<1>2. DeviceTypes' /\ CacheTypes'
  BY <1>1 DEF deviceVars, CacheInv, Types, DeviceTypes, CacheTypes, Taken
<1>3. SubnetHasSelfip'
  BY <1>1 DEF SubnetHasSelfip
<1>4. RequestInv'
  <2>1. CASE Restart
    BY <2>1 DEF Restart, Return, NoRequest, RequestInv, RequestTypes, TodoTypes, Annotated,
                Connected, Released, AnyDomain
  <2>2. CASE FlushCache
    <3>1. UNCHANGED requestVars
      BY <2>2 DEF FlushCache
    <3>2. RequestTypes' /\ TodoTypes' /\ Annotated' /\ Connected'
      BY <1>1, <3>1 DEF requestVars, deviceVars, CacheInv, Types, RequestTypes, TodoTypes,
                        Annotated, Connected
    <3>3. Released'
      BY <1>1 DEF Released, InUseByOthers
    <3> QED
      BY <3>2, <3>3 DEF RequestInv
  <2> QED
    BY <2>1, <2>2
<1> QED
  BY <1>2, <1>3, <1>4 DEF CacheInv, Types, RequestInv

-------------------------------------------------------------------------------
LEMMA NextInv ==
    ASSUME CacheInv, [Next]_vars
    PROVE  CacheInv'
<1>1. CASE \E lb \in Loadbalancers : \E nets \in NetworksOf[lb] \cup {{}} : Begin(lb, nets)
  BY <1>1, BeginInv
<1>2. CASE \E failed \in Devices \cup {0} :
              \/ Folders(failed)
              \/ TenantDomains(failed)
              \/ UpdateRdsCache(failed)
              \/ \E n \in Networks : CreateAuxRd(n, failed)
              \/ \E n \in Networks, pooled \in BOOLEAN : AssureSnats(n, failed, pooled)
  BY <1>2, FoldersInv, TenantDomainsInv, UpdateRdsCacheInv, CreateAuxRdInv, AssureSnatsInv
<1>3. CASE \E n \in Networks :
              \/ \E rd \in {0} \cup Cached(n) : KnownDomain(n, rd)
              \/ \E rd \in Primary(Tenant, 1) : OnlyDomain(n, rd)
              \/ OnlyDomainFails(n)
              \/ \E rd \in CachedDomains : Place(n, rd)
              \/ CannotPlace(n)
  BY <1>3, AssignInv, CannotPlaceInv
<1>4. CASE StartConnect \/ (\E unbound \in BOOLEAN : Connect(unbound)) \/ PostFails
  BY <1>4, StartConnectInv, ConnectInv, PostFailsInv
<1>5. CASE \E outcome \in {"vlan", "domain", "binding", "selfip", "moved"} : ConnectFails(outcome)
  BY <1>5, ConnectFailsInv
<1>6. CASE \E failed \in SUBSET Devices : AssureService(failed) \/ Cleanup(failed)
  BY <1>6, AssureServiceInv, CleanupInv
<1>7. CASE \/ \E failed \in SUBSET req.drop, kept \in SUBSET req.drop, lost \in SUBSET req.drop :
                 ReleaseShared(failed, kept, lost)
           \/ \E failed \in SUBSET req.drop, stays \in SUBSET req.drop, cut \in SUBSET req.drop :
                 Release(failed, stays, cut)
  BY <1>7, ReleaseInv, ReleaseSharedInv
<1>8. CASE FlushCache \/ Restart
  BY <1>8, ResetInv
<1>9. CASE UNCHANGED vars
  <2>1. UNCHANGED <<deviceVars, cacheVars, rdsVars, requestVars, blind, stale>>
    BY <1>9 DEF vars
  <2>2. Types'
    BY <2>1 DEF deviceVars, cacheVars, rdsVars, requestVars, CacheInv, Types, DeviceTypes,
                CacheTypes, RequestTypes, TodoTypes, Taken
  <2>3. SubnetHasSelfip' /\ Annotated' /\ Connected'
    BY <2>1 DEF deviceVars, cacheVars, requestVars, CacheInv, SubnetHasSelfip, Annotated, Connected
  <2>4. Released'
    BY <2>1 DEF deviceVars, cacheVars, requestVars, CacheInv, Released, ToDelete, IpsExist,
                AddressesOn, InUseByOthers, Tenant
  <2> QED
    BY <2>2, <2>3, <2>4 DEF CacheInv
<1> QED
  BY <1>1, <1>2, <1>3, <1>4, <1>5, <1>6, <1>7, <1>8, <1>9 DEF Next

(***************************************************************************)
(* The inductive invariant of the subnets' cache, for any number of devices,  *)
(* tenants and networks, any failures, and caches that are flushed at any     *)
(* time.                                                                      *)
(***************************************************************************)
THEOREM NetworkInvariant == Spec => []CacheInv
BY InitInv, NextInv, PTL DEF Spec
=============================================================================
