-------------------------- MODULE TenantOverlap_proofs --------------------------
(***************************************************************************)
(* Proofs about subnets that overlap, for any load balancers, networks,      *)
(* number of devices and bounds.                                             *)
(*                                                                           *)
(* While rds_cache has all that the devices have (Complete), every address   *)
(* of a tenant is in it (AddressIsCached) and so is what a request was       *)
(* annotated with before its service (AnnotatedIsCached).  The cache has no  *)
(* two overlapping subnets in one domain (CacheIsSeparated), because a       *)
(* request looks for an overlap there, and because a new domain has an id    *)
(* that no entry has (EntryHasDomain).                                       *)
(***************************************************************************)
EXTENDS TenantDomains_proofs

\* The steps at which the networks of a request have been annotated.
Annotating(n) == at = "assign" /\ n \notin todo
Preparing == {"connect", "assure", "snats"}

Complete(t) == t \notin guessed \cup missed

\* After a step, for the tenant of the request before it.
StillComplete == Tenant \notin guessed' \cup missed'

\* A request goes on only when its tenant has an entry.
TenantIsFilled == at \in {"assign", "service"} \cup Preparing => Tenant \in filled

\* An entry names a domain of the tenant that is on a device.
EntryHasDomain ==
    \A e \in rds_cache : Complete(e[1]) =>
        /\ e[4]
        /\ \E d \in Devices : \E r \in domains[d] : r[1] = e[2] /\ r[2] = e[1]

AddressIsCached ==
    \A d \in Devices : \A i \in ips[d] :
        ~Common(i[2]) /\ Complete(Owner[i[2]]) /\ Owner[i[2]] \in filled
            => <<Owner[i[2]], i[3], i[2], TRUE>> \in rds_cache

AnnotatedIsCached ==
    \A n \in req.keep :
        ~Common(n) /\ Complete(Tenant) /\ (Annotating(n) \/ at \in Preparing \cup {"service"})
            => <<Tenant, route_domain_id[n], n, TRUE>> \in rds_cache

CacheIsSeparated ==
    \A e, f \in rds_cache :
        e[1] = f[1] /\ Complete(e[1]) /\ e[2] = f[2] => {e[3], f[3]} \notin Overlapping

CachedInv ==
    /\ EntryHasDomain
    /\ max_namespaces > 1 => AddressIsCached /\ CacheIsSeparated /\ OverlapIsSeparated

AssignedInv == TenantIsFilled /\ (max_namespaces > 1 => AnnotatedIsCached)

SeparatedInv == CachedInv /\ AssignedInv

-------------------------------------------------------------------------------
(* Subnets that overlap.                                                         *)

LEMMA InitSeparated == Init => SeparatedInv
BY DEF Init, SeparatedInv, CachedInv, AssignedInv, TenantIsFilled, EntryHasDomain,
       AddressIsCached, AnnotatedIsCached, CacheIsSeparated, OverlapIsSeparated, Preparing,
       Annotating

\* Two subnets that overlap are two, of a tenant.
LEMMA OverlapOfTenant ==
    ASSUME NEW m, NEW n, {m, n} \in Overlapping
    PROVE  m # n /\ Owner[m] = Owner[n] /\ ~Common(m)
<1>1. PICK k, l \in Networks :
          {m, n} = {k, l} /\ k # l /\ Owner[k] = Owner[l] /\ Owner[k] # "common"
  BY TenantNetworkAssumption
<1>2. (m = k /\ n = l) \/ (m = l /\ n = k)
  BY <1>1
<1> QED
  BY <1>1, <1>2 DEF Common

LEMMA CompleteBefore ==
    ASSUME guessed \subseteq guessed', missed \subseteq missed', NEW t, Complete(t)'
    PROVE  Complete(t)
BY DEF Complete

LEMMA TenantBefore ==
    ASSUME guessed \subseteq guessed', missed \subseteq missed', StillComplete
    PROVE  Complete(Tenant)
BY DEF Complete, StillComplete

\* The cache is the same and the devices have no other address.
LEMMA CachedKept ==
    ASSUME CacheInv, CachedInv, UNCHANGED <<max_namespaces, rds_cache>>, filled' \subseteq filled,
           guessed \subseteq guessed', missed \subseteq missed',
           \A d \in Devices : domains[d] \subseteq domains'[d],
           \A d \in Devices : ips'[d] \subseteq ips[d]
    PROVE  CachedInv'
<1>1. EntryHasDomain'
  BY CompleteBefore DEF CachedInv, EntryHasDomain
<1>2. ASSUME max_namespaces > 1
      PROVE  AddressIsCached' /\ CacheIsSeparated' /\ OverlapIsSeparated'
  <2>1. AddressIsCached'
    BY <1>2, CompleteBefore DEF CachedInv, AddressIsCached, Common
  <2>2. CacheIsSeparated'
    BY <1>2, CompleteBefore DEF CachedInv, CacheIsSeparated
  <2>3. OverlapIsSeparated'
    BY <1>2 DEF CachedInv, OverlapIsSeparated
  <2> QED
    BY <2>1, <2>2, <2>3
<1> QED
  BY <1>1, <1>2 DEF CachedInv

\* A request that ends, or has not come to its networks, or has assured them.
LEMMA Unassigned ==
    ASSUME at' \notin {"assign", "service"} \cup Preparing
    PROVE  AssignedInv'
BY DEF AssignedInv, TenantIsFilled, AnnotatedIsCached, Annotating

LEMMA ReturnAssigned ==
    ASSUME Return
    PROVE  AssignedInv'
BY Unassigned DEF Return, Preparing

LEMMA PrepFailsAssigned ==
    ASSUME PrepFails, Tenant \in filled'
    PROVE  AssignedInv'
<1>1. CASE Return
  BY <1>1, ReturnAssigned
<1>2. CASE Deleting /\ GoTo("service", {})
  BY <1>2 DEF GoTo, Deleting, Tenant, AssignedInv, TenantIsFilled, AnnotatedIsCached
<1> QED
  BY <1>1, <1>2 DEF PrepFails

\* The steps between the networks and the service.
LEMMA GoOnAssigned ==
    ASSUME AssignedInv, at \in Preparing, NEW step, NEW rest, GoTo(step, rest),
           step \in Preparing \cup {"service"},
           UNCHANGED <<rdsVars, max_namespaces>>
    PROVE  AssignedInv'
<1>1. Tenant' = Tenant /\ at' = step /\ UNCHANGED <<req, route_domain_id>>
  BY DEF GoTo, Tenant
<1>2. TenantIsFilled'
  BY <1>1 DEF AssignedInv, TenantIsFilled, rdsVars
<1>3. ASSUME max_namespaces > 1 PROVE AnnotatedIsCached'
  BY <1>1, <1>3 DEF AssignedInv, AnnotatedIsCached, Complete, Common, rdsVars
<1> QED
  BY <1>2, <1>3 DEF AssignedInv

\* The steps that leave the cache, the domains and the addresses as they are, or add domains.
LEMMA QuietSeparated ==
    ASSUME CacheInv, SeparatedInv,
           \/ \E lb \in Loadbalancers : \E nets \in NetworksOf[lb] \cup {{}} : Begin(lb, nets)
           \/ \E failed : Folders(failed) \/ TenantDomains(failed)
           \/ \E n \in Networks : CannotPlace(n) \/ OnlyDomainFails(n)
           \/ \E unbound : Connect(unbound)
           \/ StartConnect \/ PostFails \/ FlushCache \/ Restart
           \/ \E outcome : ConnectFails(outcome)
           \/ \E n, failed, pooled : AssureSnats(n, failed, pooled)
           \/ \E failed, kept, lost : ReleaseShared(failed, kept, lost)
    PROVE  SeparatedInv'
<1> USE DEF SeparatedInv
<1>1. CASE \E lb \in Loadbalancers : \E nets \in NetworksOf[lb] \cup {{}} : Begin(lb, nets)
  BY <1>1, CachedKept, Unassigned DEF Begin, deviceVars, rdsVars, Preparing
<1>2. CASE \E failed : Folders(failed)
  <2>1. AssignedInv'
    BY <1>2, ReturnAssigned, Unassigned DEF Folders, GoTo, Preparing
  <2> QED
    BY <1>2, <2>1, CachedKept DEF Folders, Costs, rdsVars
<1>3. CASE \E failed : TenantDomains(failed)
  <2>1. AssignedInv'
    BY <1>3, ReturnAssigned, Unassigned DEF TenantDomains, GoTo, Preparing
  <2>2. \A d \in Devices : domains[d] \subseteq domains'[d]
    BY <1>3 DEF TenantDomains, WithDomain
  <2> QED
    BY <1>3, <2>1, <2>2, CachedKept DEF TenantDomains, Costs, rdsVars
<1>4. CASE \E n \in Networks : CannotPlace(n) \/ OnlyDomainFails(n)
  <2>1. AssignedInv'
    BY <1>4, PrepFailsAssigned DEF CannotPlace, OnlyDomainFails, IsPlaced, rdsVars, AssignedInv,
                                   TenantIsFilled
  <2> QED
    BY <1>4, <2>1, CachedKept DEF CannotPlace, OnlyDomainFails, Costs, deviceVars, rdsVars, counters
<1>5. CASE StartConnect
  <2>1. AssignedInv'
    BY <1>5, GoOnAssigned DEF StartConnect, counters, Preparing
  <2> QED
    BY <1>5, <2>1, CachedKept DEF StartConnect, deviceVars, rdsVars, counters
<1>6. CASE \E unbound : Connect(unbound)
  <2>1. AssignedInv'
    <3>1. CASE PrepFails
      BY <1>6, <3>1, PrepFailsAssigned DEF Connect, rdsVars, AssignedInv, TenantIsFilled, Preparing
    <3>2. CASE \E step \in {"snats", "assure"} : \E rest : GoTo(step, rest)
      BY <1>6, <3>2, GoOnAssigned DEF Connect, Costs, Preparing
    <3> QED
      BY <1>6, <3>1, <3>2 DEF Connect
  <2> QED
    BY <1>6, <2>1, CachedKept DEF Connect, Costs, rdsVars
<1>7. CASE PostFails
  <2>1. AssignedInv'
    BY <1>7, ReturnAssigned, Unassigned DEF PostFails, GoTo, Preparing
  <2> QED
    BY <1>7, <2>1, CachedKept DEF PostFails, Costs, deviceVars, rdsVars
<1>8. CASE FlushCache
  <2>1. AssignedInv'
    BY <1>8 DEF FlushCache, Reset, rdsVars, requestVars, AssignedInv, TenantIsFilled, Tenant,
                AnnotatedIsCached, Annotating, Complete, Common
  <2> QED
    BY <1>8, <2>1, CachedKept DEF FlushCache, Reset, deviceVars, rdsVars
<1>9. CASE Restart
  <2>1. CachedInv'
    BY <1>9 DEF Restart, Reset, deviceVars, CachedInv, EntryHasDomain, AddressIsCached,
                CacheIsSeparated, OverlapIsSeparated
  <2> QED
    BY <1>9, <2>1, ReturnAssigned DEF Restart
<1>10. CASE \E outcome : ConnectFails(outcome)
  <2>1. AssignedInv'
    BY <1>10, PrepFailsAssigned DEF ConnectFails, rdsVars, AssignedInv, TenantIsFilled, Preparing
  <2> QED
    BY <1>10, <2>1, CachedKept DEF ConnectFails, Costs, rdsVars
<1>11. CASE \E n, failed, pooled : AssureSnats(n, failed, pooled)
  <2>1. UNCHANGED <<domains, ips, rdsVars, max_namespaces>> /\ at = "snats"
    BY <1>11 DEF AssureSnats, Costs
  <2>2. AssignedInv'
    <3>1. CASE PrepFails
      BY <2>1, <3>1, PrepFailsAssigned DEF rdsVars, AssignedInv, TenantIsFilled, Preparing
    <3>2. CASE \E step \in {"snats", "service"} : \E rest : GoTo(step, rest)
      BY <2>1, <3>2, GoOnAssigned DEF Preparing
    <3> QED
      BY <1>11, <2>1, <3>1, <3>2 DEF AssureSnats
  <2> QED
    BY <2>1, <2>2, CachedKept DEF rdsVars
<1>12. CASE \E failed, kept, lost : ReleaseShared(failed, kept, lost)
  BY <1>12, CachedKept, Unassigned DEF ReleaseShared, Costs, rdsVars, Preparing
<1> QED
  BY <1>1, <1>2, <1>3, <1>4, <1>5, <1>6, <1>7, <1>8, <1>9, <1>10, <1>11, <1>12

\* A subnet that some device has is cached as one, if all devices were read.
LEMMA FoundIsSubnet ==
    ASSUME CacheInv, OwnerInv, UpdateRdsCache(0), ~HasEmptyVlan(rds_cache'),
           NEW e \in rds_cache', e \notin rds_cache
    PROVE  e[4]
<1>1. e[1] = Tenant /\ e[3] \in Networks /\ Owner[e[3]] = Tenant /\ e[2] \in Ids
  BY FoundIsOwned
<1>2. PICK d \in Devices : selfip[d][e[3]] = e[2]
  BY <1>1 DEF HasEmptyVlan
<1>3. vlan[d][e[3]] = e[2] /\ e[2] \notin {None, 0}
  BY <1>1, <1>2 DEF OwnerInv, DeviceInv, SelfipIsOnVlan, Ids, None
<1>4. e[3] \in VlansOf(d, Tenant)
  BY <1>1, <1>3 DEF OwnerInv, DeviceInv, VlanIsOwned, VlansOf
<1>5. <<e[1], e[2], e[3], TRUE>> \in CachedFrom(d, Tenant)
  BY <1>1, <1>2, <1>3, <1>4 DEF CachedFrom
<1>6. Tenant \notin filled
  BY DEF UpdateRdsCache
<1>7. e \in Merged(UNION {CachedFrom(c, Tenant) : c \in Before(0)})
  BY <1>6 DEF UpdateRdsCache
<1> QED
  BY <1>5, <1>7 DEF Merged, Before

\* The cache of a tenant is read from the devices at once; what it misses is recorded.
LEMMA UpdateRdsCacheSeparated ==
    ASSUME CacheInv, OwnerInv, SeparatedInv, NEW failed \in Devices \cup {0},
           UpdateRdsCache(failed)
    PROVE  SeparatedInv'
<1>1. /\ UNCHANGED <<domains, ips, max_namespaces>>
      /\ filled' = filled \cup {Tenant}
      /\ guessed \subseteq guessed' /\ missed \subseteq missed'
  BY DEF UpdateRdsCache, Costs, deviceVars
<1>2. AssignedInv'
  <2>1. CASE PrepFails
    BY <1>1, <2>1, PrepFailsAssigned
  <2>2. CASE GoTo("assign", req.keep \cup req.drop)
    BY <1>1, <2>2 DEF GoTo, Tenant, AssignedInv, TenantIsFilled, AnnotatedIsCached, Annotating,
                      Preparing
  <2> QED
    BY <2>1, <2>2 DEF UpdateRdsCache
<1>3. CASE Tenant \in filled
  <2>1. UNCHANGED <<rds_cache, filled>>
    BY <1>1, <1>3 DEF UpdateRdsCache
  <2> QED
    BY <1>1, <1>2, <2>1, CachedKept DEF SeparatedInv
<1>4. CASE Tenant \notin filled
  <2>1. rds_cache \subseteq rds_cache'
    BY DEF UpdateRdsCache
  <2>2. \A e \in rds_cache' \ rds_cache :
           e[1] = Tenant /\ \E d \in Devices : \E r \in domains[d] : r[1] = e[2] /\ r[2] = Tenant
    <3> SUFFICES ASSUME NEW e \in rds_cache' \ rds_cache
                 PROVE  /\ e[1] = Tenant
                        /\ \E d \in Devices : \E r \in domains[d] : r[1] = e[2] /\ r[2] = Tenant
      OBVIOUS
    <3>1. \/ \E d \in Devices : e \in CachedFrom(d, Tenant)
          \/ /\ failed \in Devices
             /\ \E seen, last \in SUBSET VlansOf(failed, Tenant) : e \in PartOf(failed, seen, last)
      BY EntriesFound DEF Before
    <3>2. PICK d \in Devices : \E n \in VlansOf(d, Tenant), has \in BOOLEAN :
              e = <<Tenant, vlan[d][n], n, has>>
      BY <3>1 DEF CachedFrom, PartOf
    <3>3. PICK n \in VlansOf(d, Tenant) : e[1] = Tenant /\ e[2] = vlan[d][n]
      BY <3>2
    <3> QED
      BY <3>3 DEF VlansOf
  <2>3. StillComplete => failed = 0 /\ ~HasEmptyVlan(rds_cache') /\ ~IsIncomplete(rds_cache')
    BY <1>4 DEF UpdateRdsCache, StillComplete
  <2>4. EntryHasDomain'
    <3> SUFFICES ASSUME NEW e \in rds_cache', Complete(e[1])'
                 PROVE  /\ e[4]
                        /\ \E d \in Devices : \E r \in domains[d] : r[1] = e[2] /\ r[2] = e[1]
      BY <1>1 DEF EntryHasDomain
    <3>1. CASE e \in rds_cache
      BY <1>1, <3>1, CompleteBefore DEF SeparatedInv, CachedInv, EntryHasDomain
    <3>2. CASE e \notin rds_cache
      <4>1. e[1] = Tenant /\ \E d \in Devices : \E r \in domains[d] : r[1] = e[2] /\ r[2] = Tenant
        BY <2>2, <3>2
      <4>2. StillComplete
        BY <4>1 DEF Complete, StillComplete
      <4>3. e[4]
        BY <2>3, <3>2, <4>2, FoundIsSubnet
      <4> QED
        BY <4>1, <4>3
    <3> QED
      BY <3>1, <3>2
  <2>5. ASSUME max_namespaces > 1 PROVE AddressIsCached'
    <3> SUFFICES ASSUME NEW d \in Devices, NEW i \in ips[d], ~Common(i[2]),
                        Complete(Owner[i[2]])', Owner[i[2]] \in filled'
                 PROVE  <<Owner[i[2]], i[3], i[2], TRUE>> \in rds_cache'
      BY <1>1 DEF AddressIsCached, Common
    <3>1. CASE Owner[i[2]] \in filled
      BY <1>1, <2>1, <2>5, <3>1, CompleteBefore DEF SeparatedInv, CachedInv, AddressIsCached
    <3>2. CASE Owner[i[2]] = Tenant
      <4>1. i \notin AddressesMissedBy(rds_cache')
        BY <2>3, <3>2 DEF IsIncomplete, Complete, StillComplete
      <4> QED
        BY <3>2, <4>1 DEF AddressesMissedBy
    <3> QED
      BY <1>1, <3>1, <3>2
  <2>6. ASSUME max_namespaces > 1 PROVE CacheIsSeparated'
    <3> SUFFICES ASSUME NEW e \in rds_cache', NEW f \in rds_cache', e[1] = f[1],
                        Complete(e[1])', e[2] = f[2]
                 PROVE  {e[3], f[3]} \notin Overlapping
      BY DEF CacheIsSeparated
    <3>1. CASE e[1] = Tenant
      BY <1>1, <2>3, <2>6, <3>1 DEF IsIncomplete, Complete, StillComplete
    <3>2. CASE e[1] # Tenant
      BY <1>1, <2>2, <2>6, <3>2, CompleteBefore DEF SeparatedInv, CachedInv, CacheIsSeparated
    <3> QED
      BY <3>1, <3>2
  <2>7. OverlapIsSeparated'
    BY <1>1 DEF SeparatedInv, CachedInv, OverlapIsSeparated
  <2> QED
    BY <1>1, <1>2, <2>4, <2>5, <2>6, <2>7 DEF SeparatedInv, CachedInv
<1> QED
  BY <1>3, <1>4

\* The network that is annotated is in the cache, and so are those before.
LEMMA AnnotateAssigned ==
    ASSUME CacheInv, AssignedInv, at = "assign", NEW n \in Networks, NEW rd, Annotate(n, rd),
           UNCHANGED <<filled, max_namespaces>>,
           guessed \subseteq guessed', missed \subseteq missed',
           max_namespaces > 1 /\ ~Common(n) /\ StillComplete =>
               \A e \in rds_cache : e[1] = Tenant => e \in rds_cache',
           max_namespaces > 1 /\ Common(n) => rds_cache \subseteq rds_cache',
           max_namespaces > 1 /\ ~Common(n) /\ StillComplete =>
               <<Tenant, rd, n, TRUE>> \in rds_cache'
    PROVE  AssignedInv'
<1>1. /\ Tenant' = Tenant
      /\ req' = req
      /\ at' \in {"assign", "connect"}
      /\ at' = "connect" => todo = {n}
      /\ todo' = todo \ {n}
      /\ route_domain_id' = [route_domain_id EXCEPT ![n] = rd]
  BY DEF Annotate, Tenant
<1>2. TenantIsFilled'
  BY <1>1 DEF AssignedInv, TenantIsFilled, Preparing
<1>3. ASSUME max_namespaces > 1 PROVE AnnotatedIsCached'
  <2> SUFFICES ASSUME NEW m \in req.keep, ~Common(m), StillComplete,
                      Annotating(m)' \/ at' = "connect"
               PROVE  <<Tenant, route_domain_id'[m], m, TRUE>> \in rds_cache'
    BY <1>1 DEF AnnotatedIsCached, Common, Preparing, Complete, StillComplete
  <2>1. CASE m = n
    BY <1>1, <1>3, <2>1 DEF CacheInv, Types, RequestTypes
  <2>2. CASE m # n
    <3>1. Annotating(m)
      BY <1>1, <2>2 DEF Annotating
    <3>2. Complete(Tenant)
      BY TenantBefore
    <3>3. <<Tenant, route_domain_id[m], m, TRUE>> \in rds_cache
      BY <1>3, <3>1, <3>2 DEF AssignedInv, AnnotatedIsCached
    <3>4. route_domain_id'[m] = route_domain_id[m]
      BY <1>1, <2>2 DEF CacheInv, Types, RequestTypes
    <3>5. <<Tenant, route_domain_id[m], m, TRUE>> \in rds_cache'
      BY <1>3, <3>3
    <3> QED
      BY <3>4, <3>5
  <2> QED
    BY <2>1, <2>2
<1> QED
  BY <1>2, <1>3 DEF AssignedInv

LEMMA KnownDomainSeparated ==
    ASSUME CacheInv, OwnerInv, SeparatedInv, NEW n \in Networks,
           NEW rd \in {0} \cup Cached(n), KnownDomain(n, rd)
    PROVE  SeparatedInv'
<1>1. at = "assign" /\ n \in todo /\ Annotate(n, rd) /\ UNCHANGED <<deviceVars, rdsVars, counters>>
  BY DEF KnownDomain
<1>2. CachedInv'
  BY <1>1, CachedKept DEF deviceVars, rdsVars, counters, SeparatedInv
<1>3. ASSUME ~Common(n), Complete(Tenant) PROVE <<Tenant, rd, n, TRUE>> \in rds_cache
  <2>1. PICK e \in rds_cache : e[3] = n /\ e[2] = rd
    BY <1>3 DEF KnownDomain, Cached
  <2>2. Owner[n] = Tenant
    BY <1>1, <1>3, RequestsNetwork DEF OwnerInv, StepInv, TodoIsOwned
  <2>3. e[1] = Tenant
    BY <2>1, <2>2 DEF OwnerInv, EntryIsOwned
  <2>4. e[4]
    BY <1>3, <2>3 DEF SeparatedInv, CachedInv, EntryHasDomain
  <2>5. e \in Tenants \X Nat \X Networks \X BOOLEAN
    BY DEF CacheInv, Types, CacheTypes
  <2>6. e = <<e[1], e[2], e[3], e[4]>> /\ e[4] \in BOOLEAN
    BY <2>5
  <2>7. e[4] = TRUE
    BY <2>4, <2>6
  <2> QED
    BY <2>1, <2>3, <2>6, <2>7
<1>4. StillComplete => Complete(Tenant)
  BY <1>1, TenantBefore DEF rdsVars
<1>5. AssignedInv'
  BY <1>1, <1>3, <1>4, AnnotateAssigned DEF rdsVars, counters, SeparatedInv
<1> QED
  BY <1>2, <1>5 DEF SeparatedInv

LEMMA OnlyDomainSeparated ==
    ASSUME CacheInv, SeparatedInv, NEW n \in Networks, NEW rd, OnlyDomain(n, rd)
    PROVE  SeparatedInv'
<1>1. /\ at = "assign" /\ Annotate(n, rd) /\ max_namespaces = 1
      /\ UNCHANGED <<domains, ips, filled, rds_cache, missed, max_namespaces>>
      /\ guessed \subseteq guessed'
  BY DEF OnlyDomain, IsPlaced, Guess, deviceVars, counters
<1>2. CachedInv'
  BY <1>1, CachedKept DEF SeparatedInv
<1>3. ~(max_namespaces > 1)
  BY <1>1
<1>4. AssignedInv'
  BY <1>1, <1>3, AnnotateAssigned DEF SeparatedInv
<1> QED
  BY <1>2, <1>4 DEF SeparatedInv

\* A network that is added to a domain overlaps none that the cache has there.
LEMMA EntryAddedCached ==
    ASSUME CacheInv, CachedInv, NEW n, NEW rd,
           UNCHANGED <<ips, filled, missed, max_namespaces>>, guessed \subseteq guessed',
           \A d \in Devices : domains[d] \subseteq domains'[d],
           StillComplete => \E d \in Devices : \E r \in domains'[d] : r[1] = rd /\ r[2] = Tenant,
           rds_cache' \subseteq rds_cache \cup {<<Tenant, rd, n, TRUE>>},
           \A e \in rds_cache : Complete(e[1])' => e \in rds_cache',
           StillComplete => \A e \in rds_cache' :
               e[1] = Tenant /\ e[2] = rd => {e[3], n} \notin Overlapping
    PROVE  CachedInv'
<1> DEFINE new == <<Tenant, rd, n, TRUE>>
<1>1. \A t : Complete(t)' => Complete(t)
  BY CompleteBefore
<1>2. EntryHasDomain'
  <2> SUFFICES ASSUME NEW e \in rds_cache', Complete(e[1])'
               PROVE  /\ e[4]
                      /\ \E d \in Devices : \E r \in domains'[d] : r[1] = e[2] /\ r[2] = e[1]
    BY DEF EntryHasDomain
  <2>1. CASE e \in rds_cache
    BY <1>1, <2>1 DEF CachedInv, EntryHasDomain
  <2>2. CASE e = new
    <3>1. e[1] = Tenant /\ e[2] = rd /\ e[4]
      BY <2>2
    <3>2. StillComplete
      BY <3>1 DEF Complete, StillComplete
    <3> QED
      BY <3>1, <3>2
  <2> QED
    BY <2>1, <2>2
<1>3. ASSUME max_namespaces > 1 PROVE AddressIsCached'
  <2> SUFFICES ASSUME NEW d \in Devices, NEW i \in ips[d], ~Common(i[2]),
                      Complete(Owner[i[2]])', Owner[i[2]] \in filled
               PROVE  <<Owner[i[2]], i[3], i[2], TRUE>> \in rds_cache'
    BY DEF AddressIsCached, Common
  <2>1. <<Owner[i[2]], i[3], i[2], TRUE>> \in rds_cache
    BY <1>1, <1>3 DEF CachedInv, AddressIsCached
  <2> QED
    BY <2>1
<1>4. ASSUME max_namespaces > 1 PROVE CacheIsSeparated'
  <2> SUFFICES ASSUME NEW e \in rds_cache', NEW f \in rds_cache', e[1] = f[1],
                      Complete(e[1])', e[2] = f[2]
               PROVE  {e[3], f[3]} \notin Overlapping
    BY DEF CacheIsSeparated
  <2>1. CASE e \in rds_cache /\ f \in rds_cache
    BY <1>1, <1>4, <2>1 DEF CachedInv, CacheIsSeparated
  <2>2. CASE e = new
    <3>1. e[1] = Tenant /\ e[2] = rd /\ e[3] = n
      BY <2>2
    <3>2. StillComplete
      BY <3>1 DEF Complete, StillComplete
    <3>3. {f[3], n} \notin Overlapping
      BY <3>1, <3>2
    <3>4. {e[3], f[3]} = {f[3], n}
      BY <3>1
    <3> QED
      BY <3>3, <3>4
  <2>3. CASE f = new
    <3>1. f[1] = Tenant /\ f[2] = rd /\ f[3] = n
      BY <2>3
    <3>2. StillComplete
      BY <3>1 DEF Complete, StillComplete
    <3>3. {e[3], n} \notin Overlapping
      BY <3>1, <3>2
    <3> QED
      BY <3>1, <3>3
  <2> QED
    BY <2>1, <2>2, <2>3
<1>5. OverlapIsSeparated'
  BY DEF CachedInv, OverlapIsSeparated
<1> QED
  BY <1>2, <1>3, <1>4, <1>5 DEF CachedInv

LEMMA PlaceSeparated ==
    ASSUME CacheInv, OwnerInv, SeparatedInv, NEW n \in Networks, NEW rd \in CachedDomains,
           Place(n, rd)
    PROVE  SeparatedInv'
<1>1. /\ at = "assign" /\ Annotate(n, rd)
      /\ UNCHANGED <<domains, ips, filled, missed, max_namespaces>>
      /\ guessed \subseteq guessed'
      /\ rds_cache' = rds_cache \cup {<<Tenant, rd, n, TRUE>>}
      /\ ~Overlaps(rd, n)
  BY DEF Place, IsPlaced, Guess, deviceVars, counters
<1>2. StillComplete => Complete(Tenant)
  BY <1>1, TenantBefore
<1>3. StillComplete => \E d \in Devices : \E r \in domains'[d] : r[1] = rd /\ r[2] = Tenant
  BY <1>1, <1>2 DEF CachedDomains, SeparatedInv, CachedInv, EntryHasDomain
<1>4. ASSUME StillComplete, NEW e \in rds_cache', e[1] = Tenant, e[2] = rd
      PROVE  {e[3], n} \notin Overlapping
  <2>1. CASE e \in rds_cache
    BY <1>1, <1>2, <1>4, <2>1 DEF Overlaps, SeparatedInv, CachedInv, EntryHasDomain
  <2>2. CASE e = <<Tenant, rd, n, TRUE>>
    <3>1. e[3] = n
      BY <2>2
    <3> QED
      BY <3>1, OverlapOfTenant
  <2> QED
    BY <1>1, <2>1, <2>2
<1>5. CachedInv'
  BY <1>1, <1>3, <1>4, EntryAddedCached DEF SeparatedInv
<1>6. AssignedInv'
  BY <1>1, AnnotateAssigned DEF SeparatedInv
<1> QED
  BY <1>5, <1>6 DEF SeparatedInv

\* A new domain has a new id: no entry of a complete cache has it.
LEMMA CreateAuxRdSeparated ==
    ASSUME CacheInv, OwnerInv, SeparatedInv, NEW n \in Networks, NEW failed,
           CreateAuxRd(n, failed)
    PROVE  SeparatedInv'
<1>1. /\ at = "assign"
      /\ UNCHANGED <<ips, filled, missed, max_namespaces>>
      /\ guessed \subseteq guessed'
      /\ \A d \in Devices : domains[d] \subseteq domains'[d]
  BY DEF CreateAuxRd, IsPlaced, Guess, Costs, WithDomain
<1>2. CASE PrepFails /\ rds_cache' = rds_cache
  <2>1. Tenant \in filled'
    BY <1>1 DEF SeparatedInv, AssignedInv, TenantIsFilled
  <2> QED
    BY <1>1, <1>2, <2>1, CachedKept, PrepFailsAssigned DEF SeparatedInv
<1>3. CASE /\ failed = 0
           /\ rds_cache' = {e \in rds_cache : e[1] # Tenant \/ e[2] # NextDomainId}
                              \cup {<<Tenant, NextDomainId, n, TRUE>>}
           /\ Annotate(n, NextDomainId)
  <2>1. StillComplete => Complete(Tenant)
    BY <1>1, TenantBefore
  <2>2. ASSUME StillComplete, NEW e \in rds_cache, e[1] = Tenant PROVE e[2] # NextDomainId
    <3>1. e[2] \in Taken
      BY <2>1, <2>2 DEF SeparatedInv, CachedInv, EntryHasDomain, Taken
    <3> QED
      BY <3>1, NextDomainIdIsNew DEF CacheInv, Types
  <2>3. \A e \in rds_cache : Complete(e[1])' => e \in rds_cache'
    BY <1>3, <2>2 DEF Complete, StillComplete
  <2>4. \E d \in Devices : \E r \in domains'[d] : r[1] = NextDomainId /\ r[2] = Tenant
    <3>1. 1 \in Devices
      BY TenantNetworkAssumption DEF Devices
    <3>2. <<NextDomainId, Tenant, TRUE>> \in domains'[1]
      BY <1>3, <3>1 DEF CreateAuxRd, Before, WithDomain
    <3> QED
      BY <3>1, <3>2
  <2>5. ASSUME NEW e \in rds_cache', e[1] = Tenant, e[2] = NextDomainId
        PROVE  {e[3], n} \notin Overlapping
    <3>1. e[3] = n
      <4>1. e = <<Tenant, NextDomainId, n, TRUE>>
        BY <1>3, <2>5
      <4> QED
        BY <4>1
    <3> QED
      BY <3>1, OverlapOfTenant
  <2>6. rds_cache' \subseteq rds_cache \cup {<<Tenant, NextDomainId, n, TRUE>>}
    BY <1>3
  <2>7. CachedInv'
    BY <1>1, <2>3, <2>4, <2>5, <2>6, EntryAddedCached DEF SeparatedInv
  <2>8. ~Common(n) /\ <<Tenant, NextDomainId, n, TRUE>> \in rds_cache'
    BY <1>3 DEF CreateAuxRd, IsPlaced
  <2>9. StillComplete => \A e \in rds_cache : e[1] = Tenant => e \in rds_cache'
    BY <2>3 DEF Complete, StillComplete
  <2>10. AssignedInv'
    BY <1>1, <1>3, <2>8, <2>9, AnnotateAssigned DEF SeparatedInv
  <2> QED
    BY <2>7, <2>10 DEF SeparatedInv
<1> QED
  BY <1>2, <1>3 DEF CreateAuxRd

\* What a service adds is in the cache, and what is in the cache is separated.
LEMMA AssureServiceSeparated ==
    ASSUME CacheInv, OwnerInv, OwnerInv', SeparatedInv, NEW failed, AssureService(failed)
    PROVE  SeparatedInv'
<1>1. /\ at = "service"
      /\ UNCHANGED <<domains, rdsVars, req, route_domain_id, max_namespaces>>
      /\ Tenant' = Tenant
      /\ Tenant \in filled
  BY DEF AssureService, Costs, Tenant, SeparatedInv, AssignedInv, TenantIsFilled
<1>2. \A d \in Devices : ips'[d] \subseteq ips[d] \cup Addresses
  BY DEF AssureService
<1>3. \A t : Complete(t)' <=> Complete(t)
  BY <1>1 DEF Complete, rdsVars
<1>4. EntryHasDomain'
  BY <1>1, <1>3 DEF SeparatedInv, CachedInv, EntryHasDomain, rdsVars
<1>5. ASSUME max_namespaces > 1 PROVE AddressIsCached'
  <2> SUFFICES ASSUME NEW d \in Devices, NEW i \in ips'[d], ~Common(i[2]),
                      Complete(Owner[i[2]]), Owner[i[2]] \in filled
               PROVE  <<Owner[i[2]], i[3], i[2], TRUE>> \in rds_cache
    BY <1>1, <1>3 DEF AddressIsCached, Common, rdsVars
  <2>1. CASE i \in ips[d]
    BY <1>5, <2>1 DEF SeparatedInv, CachedInv, AddressIsCached
  <2>2. CASE i \in Addresses
    <3>1. i[2] \in req.keep /\ i[3] = route_domain_id[i[2]]
      BY <2>2 DEF Addresses
    <3>2. Owner[i[2]] = Tenant
      BY <1>1, <3>1, RequestsNetwork
    <3> QED
      BY <1>1, <1>5, <3>1, <3>2 DEF SeparatedInv, AssignedInv, AnnotatedIsCached
  <2> QED
    BY <1>2, <2>1, <2>2
<1>6. max_namespaces > 1 => CacheIsSeparated
  BY DEF SeparatedInv, CachedInv
<1>7. max_namespaces > 1 => CacheIsSeparated'
  BY <1>1, <1>3, <1>6 DEF CacheIsSeparated, rdsVars
<1>8. OverlapIsSeparated'
  <2> SUFFICES ASSUME max_namespaces > 1, NEW d \in Devices, NEW i \in ips'[d], NEW j \in ips'[d],
                      {i[2], j[2]} \in Overlapping, Complete(TenantOf[i[1]])
               PROVE  i[3] # j[3]
    BY <1>1, <1>3 DEF OverlapIsSeparated, Complete
  <2>1. Owner[i[2]] = Owner[j[2]] /\ ~Common(i[2]) /\ ~Common(j[2])
    BY OverlapOfTenant DEF Common
  <2>2. Owner[i[2]] = TenantOf[i[1]] /\ Owner[j[2]] = TenantOf[j[1]]
    BY <2>1 DEF OwnerInv, DeviceInv, AddressIsOwned, Common
  <2>3. CASE Owner[i[2]] = Tenant
    <3>1. /\ <<Tenant, i[3], i[2], TRUE>> \in rds_cache
          /\ <<Tenant, j[3], j[2], TRUE>> \in rds_cache
      BY <1>1, <1>3, <1>5, <2>1, <2>2, <2>3 DEF AddressIsCached, Common, rdsVars
    <3> QED
      BY <1>6, <2>2, <2>3, <3>1 DEF CacheIsSeparated
  <2>4. CASE Owner[i[2]] # Tenant
    <3>1. \A k \in Addresses : TenantOf[k[1]] = Tenant
      BY DEF Addresses, Tenant
    <3>2. i \in ips[d] /\ j \in ips[d]
      BY <1>2, <2>1, <2>2, <2>4, <3>1
    <3> QED
      BY <3>2 DEF SeparatedInv, CachedInv, OverlapIsSeparated, Complete
  <2> QED
    BY <2>3, <2>4
<1>9. AssignedInv'
  BY Unassigned DEF AssureService, Preparing
<1> QED
  BY <1>1, <1>4, <1>5, <1>7, <1>8, <1>9 DEF SeparatedInv, CachedInv

\* An entry is forgotten when no device has an address that it is about, or this is recorded.
LEMMA ReleaseSeparated ==
    ASSUME CacheInv, OwnerInv, SeparatedInv, NEW failed, NEW stays, NEW cut,
           Release(failed, stays, cut)
    PROVE  SeparatedInv'
<1> DEFINE finished == (ToDelete(FirstDevice) \ failed) \ (cut \cup Flat)
<1>1. /\ at = "release"
      /\ UNCHANGED <<domains, ips, filled, guessed, max_namespaces>>
      /\ missed \subseteq missed'
  BY DEF Release, Costs
<1>2. rds_cache' = Forgotten(rds_cache, finished)
  BY DEF Release
<1>3. AssignedInv'
  BY <1>1, ReturnAssigned, Unassigned DEF Release, GoTo, Preparing
<1>4. EntryHasDomain'
  BY <1>1, <1>2, CompleteBefore DEF Forgotten, SeparatedInv, CachedInv, EntryHasDomain
<1>5. ASSUME max_namespaces > 1 PROVE AddressIsCached'
  <2> SUFFICES ASSUME NEW d \in Devices, NEW i \in ips[d], ~Common(i[2]),
                      Complete(Owner[i[2]])', Owner[i[2]] \in filled
               PROVE  <<Owner[i[2]], i[3], i[2], TRUE>> \in rds_cache'
    BY <1>1 DEF AddressIsCached, Common
  <2>1. <<Owner[i[2]], i[3], i[2], TRUE>> \in rds_cache
    BY <1>1, <1>5, CompleteBefore DEF SeparatedInv, CachedInv, AddressIsCached
  <2>2. i[2] \notin finished
    <3> SUFFICES ASSUME i[2] \in finished PROVE FALSE
      OBVIOUS
    <3>1. i[2] \in req.drop
      BY <1>1, ReleasedIsDropped
    <3>2. Owner[i[2]] = Tenant
      BY <1>1, <3>1, RequestsNetwork
    <3>3. Tenant \in missed'
      BY DEF Release
    <3> QED
      BY <3>2, <3>3 DEF Complete
  <2> QED
    BY <1>2, <2>1, <2>2 DEF Forgotten
<1>6. ASSUME max_namespaces > 1 PROVE CacheIsSeparated'
  BY <1>1, <1>2, <1>6, CompleteBefore DEF Forgotten, SeparatedInv, CachedInv, CacheIsSeparated
<1>7. OverlapIsSeparated'
  BY <1>1 DEF SeparatedInv, CachedInv, OverlapIsSeparated
<1> QED
  BY <1>1, <1>3, <1>4, <1>5, <1>6, <1>7 DEF SeparatedInv, CachedInv

\* A domain that the cache names is deleted: this is recorded.
LEMMA CleanupSeparated ==
    ASSUME CacheInv, SeparatedInv, NEW failed, Cleanup(failed)
    PROVE  SeparatedInv'
<1>1. /\ UNCHANGED <<ips, filled, rds_cache, guessed, max_namespaces>>
      /\ missed \subseteq missed'
  BY DEF Cleanup, Costs
<1>2. AssignedInv'
  BY ReturnAssigned DEF Cleanup
<1>3. EntryHasDomain'
  <2> SUFFICES ASSUME NEW e \in rds_cache, Complete(e[1])'
               PROVE  /\ e[4]
                      /\ \E d \in Devices : \E r \in domains'[d] : r[1] = e[2] /\ r[2] = e[1]
    BY <1>1 DEF EntryHasDomain
  <2>1. Complete(e[1])
    BY <1>1, CompleteBefore
  <2>2. e[4] /\ \E d \in Devices : \E r \in domains[d] : r[1] = e[2] /\ r[2] = e[1]
    BY <2>1 DEF SeparatedInv, CachedInv, EntryHasDomain
  <2>3. PICK d \in Devices : \E r \in domains[d] : r[1] = e[2] /\ r[2] = e[1]
    BY <2>2
  <2>4. PICK r \in domains[d] : r[1] = e[2] /\ r[2] = e[1]
    BY <2>3
  <2>5. r \in domains'[d]
    <3>1. CASE e[1] # Tenant
      BY <2>4, <3>1 DEF Cleanup, Deletable
    <3>2. CASE e[1] = Tenant
      <4>1. r[1] \in CachedDomains
        BY <2>4, <3>2 DEF CachedDomains
      <4>2. Tenant \notin missed'
        BY <3>2 DEF Complete
      <4> QED
        BY <4>1, <4>2 DEF Cleanup
    <3> QED
      BY <3>1, <3>2
  <2> QED
    BY <2>2, <2>4, <2>5
<1>4. ASSUME max_namespaces > 1 PROVE AddressIsCached' /\ CacheIsSeparated' /\ OverlapIsSeparated'
  <2>1. AddressIsCached'
    BY <1>1, <1>4, CompleteBefore DEF SeparatedInv, CachedInv, AddressIsCached, Common
  <2>2. CacheIsSeparated'
    BY <1>1, <1>4, CompleteBefore DEF SeparatedInv, CachedInv, CacheIsSeparated
  <2>3. OverlapIsSeparated'
    BY <1>1, <1>4 DEF SeparatedInv, CachedInv, OverlapIsSeparated
  <2> QED
    BY <2>1, <2>2, <2>3
<1> QED
  BY <1>1, <1>2, <1>3, <1>4 DEF SeparatedInv, CachedInv

LEMMA NextSeparated ==
    ASSUME CacheInv, OwnerInv, OwnerInv', SeparatedInv, [Next]_vars
    PROVE  SeparatedInv'
<1>1. CASE \E lb \in Loadbalancers : \E nets \in NetworksOf[lb] \cup {{}} : Begin(lb, nets)
  BY <1>1, QuietSeparated
<1>2. CASE \E failed \in Devices \cup {0} :
              \/ Folders(failed)
              \/ TenantDomains(failed)
              \/ UpdateRdsCache(failed)
              \/ \E n \in Networks : CreateAuxRd(n, failed)
              \/ \E n \in Networks, pooled \in BOOLEAN : AssureSnats(n, failed, pooled)
  BY <1>2, QuietSeparated, UpdateRdsCacheSeparated, CreateAuxRdSeparated
<1>3. CASE \E n \in Networks :
              \/ \E rd \in {0} \cup Cached(n) : KnownDomain(n, rd)
              \/ \E rd \in Primary(Tenant, 1) : OnlyDomain(n, rd)
              \/ OnlyDomainFails(n)
              \/ \E rd \in CachedDomains : Place(n, rd)
              \/ CannotPlace(n)
  BY <1>3, KnownDomainSeparated, OnlyDomainSeparated, PlaceSeparated, QuietSeparated
<1>4. CASE StartConnect \/ (\E unbound \in BOOLEAN : Connect(unbound)) \/ PostFails
  BY <1>4, QuietSeparated
<1>5. CASE \E outcome \in {"vlan", "domain", "binding", "selfip", "moved"} : ConnectFails(outcome)
  BY <1>5, QuietSeparated
<1>6. CASE \E failed \in SUBSET Devices : AssureService(failed) \/ Cleanup(failed)
  BY <1>6, AssureServiceSeparated, CleanupSeparated
<1>7. CASE \/ \E failed \in SUBSET req.drop, kept \in SUBSET req.drop, lost \in SUBSET req.drop :
                  ReleaseShared(failed, kept, lost)
           \/ \E failed \in SUBSET req.drop, stays \in SUBSET req.drop, cut \in SUBSET req.drop :
                  Release(failed, stays, cut)
  BY <1>7, ReleaseSeparated, QuietSeparated
<1>8. CASE FlushCache \/ Restart
  BY <1>8, QuietSeparated
<1>9. CASE UNCHANGED vars
  <2>1. CachedInv'
    BY <1>9, CachedKept DEF vars, deviceVars, rdsVars, counters, SeparatedInv
  <2>2. AssignedInv'
    BY <1>9 DEF vars, rdsVars, requestVars, counters, SeparatedInv, AssignedInv, TenantIsFilled,
                Tenant, AnnotatedIsCached, Annotating, Complete, Common
  <2> QED
    BY <2>1, <2>2 DEF SeparatedInv
<1> QED
  BY <1>1, <1>2, <1>3, <1>4, <1>5, <1>6, <1>7, <1>8, <1>9 DEF Next

(***************************************************************************)
(* Addresses of overlapping subnets are in different route domains, for any   *)
(* number of devices, tenants and route domains, unless rds_cache missed or   *)
(* forgot something that a device has.                                        *)
(***************************************************************************)
THEOREM NetworkOverlapIsSeparated == Spec => []OverlapIsSeparated
<1>1. CacheInv /\ OwnerInv /\ OwnerInv' /\ SeparatedInv /\ [Next]_vars => SeparatedInv'
  BY NextSeparated
<1>2. SeparatedInv => OverlapIsSeparated
  BY DEF SeparatedInv, CachedInv, OverlapIsSeparated
<1> QED
  BY <1>1, <1>2, InitSeparated, NetworkInvariant, NetworkOwners, PTL DEF Spec
=============================================================================
