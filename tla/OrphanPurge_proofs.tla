-------------------------- MODULE OrphanPurge_proofs --------------------------
(***************************************************************************)
(* Proofs about the purge, for any load balancers, devices and bounds.       *)
(*                                                                           *)
(* What a call deletes was found unknown some calls before.  That it is still *)
(* unknown rests on ids that are not used twice (FreshIsNew): what a device   *)
(* has, or a list names, can go from Neutron's database and not come back.    *)
(* That what goes with an orphan is not known either rests on the database    *)
(* being closed (KnownIsClosed), and on each list naming one kind of object   *)
(* (ListsOneKind).                                                            *)
(***************************************************************************)
EXTENDS OrphanPurge, TLAPS

\* Neutron removes a load balancer with everything in it.
KnownIsClosed == \A o \in known : Of(o, "address") \in known

\* On a device, or in a list of the purge.
Seen(o) ==
    \/ o \in bare \cup todo
    \/ \E d \in Devices : o \in content[d] \/ <<o, d>> \in listed

FreshIsNew ==
    \A o \in fresh : /\ o \notin known \cup waiting
                     /\ o # <<"address", foreign>>
                     /\ ~Seen(o)

StepsOf(kind) ==
    CASE kind = "address" -> {"loadbalancers", "sleeping", "purge_loadbalancers",
                              "loadbalancers_again", "sleeping_again"}
      [] kind = "listener" -> {"listeners", "purge_listeners"}
      [] kind = "policy" -> {"policies", "policy_users", "policy_answers", "purge_policies"}
      [] kind = "pool" -> {"purge_pools"}
      [] kind = "monitor" -> {"monitors", "monitor_users", "purge_monitors"}

\* A step whose lists name one kind at most.
NoStepButOf(step, kind) == \A k \in Kinds : step \in StepsOf(k) => k = kind

ListsOneKind ==
    /\ \A o \in bare : o[1] = "address"
    /\ \A kind \in Kinds : at \in StepsOf(kind) =>
          /\ \A p \in listed : p[1][1] = kind
          /\ \A o \in todo : o[1] = kind

TodoIsUnknown ==
    at \in {"purge_loadbalancers", "purge_listeners", "purge_pools"} => todo \cap known = {}

IInv == TypeOK /\ KnownIsClosed /\ FreshIsNew /\ ListsOneKind /\ TodoIsUnknown

\* What every call of the purge does: devices lose items, lists name what was seen.
Shrinks ==
    /\ UNCHANGED <<neutronVars, foreign>>
    /\ content' \in [Devices -> SUBSET Items]
    /\ \A d \in Devices : content'[d] \subseteq content[d]

Gathers ==
    /\ listed' \subseteq Objects \X Devices
    /\ \A p \in listed' : Seen(p[1])
    /\ bare' \cup todo' \subseteq Objects
    /\ \A o \in bare' \cup todo' : Seen(o)

OtherTypes ==
    /\ scan' \subseteq Devices
    /\ used' \subseteq Objects
    /\ answered' \subseteq Loadbalancers
    /\ li_id' \in Loadbalancers \cup {"none"}
    /\ faults' \in 0..MaxFaults

PurgeStep == Shrinks /\ Gathers /\ OtherTypes /\ ListsOneKind' /\ TodoIsUnknown'

-------------------------------------------------------------------------------
(* Deleting.                                                                     *)

\* References, nodes and folders are no objects.
LEMMA ObjectsAreTheirOwn ==
    ASSUME NEW o \in Objects
    PROVE  o \notin References /\ o[1] # "node" /\ o # Folder
BY DEF Objects, Kinds, References, Folder

\* An object takes only itself and references of its load balancer along.
LEMMA WithoutRemoves ==
    ASSUME NEW c \in SUBSET Items, NEW o \in Objects
    PROVE  /\ Without(c, o) \subseteq c
           /\ \A x \in c \ Without(c, o) : x = o \/ x \in References
           /\ \A x \in c \ Without(c, o) : x[2] = o[2]
BY DEF Without, Objects, References, Of

LEMMA DeletedRemoves ==
    ASSUME NEW c \in SUBSET Items, NEW o \in Objects
    PROVE  /\ Deleted(c, o) \subseteq c
           /\ \A x \in c \ Deleted(c, o) : x = o \/ x \in References
           /\ \A x \in c \ Deleted(c, o) : x[2] = o[2]
           /\ o \in c \ Deleted(c, o) => ~InUse(c, o)
BY WithoutRemoves DEF Deleted

\* purge_orphaned_loadbalancer deletes nothing of another load balancer.
LEMMA LoadbalancerRemoves ==
    ASSUME NEW c \in SUBSET Items, NEW o \in Objects, NEW steps
    PROVE  /\ PurgedLoadbalancer(c, o, steps) \subseteq c
           /\ \A x \in c \ PurgedLoadbalancer(c, o, steps) : x[2] = o[2]
<1> DEFINE listener == IF steps > 0 THEN Without(c, Of(o, "listener")) ELSE c
           both == IF steps > 1 /\ Of(o, "listener_pool") \in c
                   THEN Without(listener, Of(o, "pool")) ELSE listener
<1>1. /\ Of(o, "listener") \in Objects /\ Of(o, "listener")[2] = o[2]
      /\ Of(o, "pool") \in Objects /\ Of(o, "pool")[2] = o[2]
  BY DEF Of, Objects, Kinds
<1>2. listener \subseteq c /\ \A x \in c \ listener : x[2] = o[2]
  BY <1>1, WithoutRemoves
<1>3. both \subseteq c /\ \A x \in c \ both : x[2] = o[2]
  <2>1. /\ Without(listener, Of(o, "pool")) \subseteq listener
        /\ \A x \in listener \ Without(listener, Of(o, "pool")) : x[2] = o[2]
    <3>1. listener \in SUBSET Items
      BY <1>2
    <3> HIDE DEF listener
    <3> QED
      BY <3>1, <1>1, WithoutRemoves
  <2> QED
    BY <2>1, <1>2
<1>4. Deleted(both, o) \subseteq both /\ \A x \in both \ Deleted(both, o) : x[2] = o[2]
  <2>1. both \in SUBSET Items
    BY <1>3
  <2> HIDE DEF both
  <2> QED
    BY <2>1, DeletedRemoves
<1>5. PurgedLoadbalancer(c, o, steps) =
        IF o \notin c THEN c ELSE IF steps > 2 THEN Deleted(both, o) ELSE both
  BY DEF PurgedLoadbalancer
<1> QED
  BY <1>3, <1>4, <1>5

LEMMA PoolRemoves ==
    ASSUME NEW c \in SUBSET Items, NEW o \in Objects
    PROVE  /\ PurgedPool(c, o) \subseteq c
           /\ \A x \in c \ PurgedPool(c, o) : x = o \/ x \in References \/ x[1] = "node"
BY WithoutRemoves DEF PurgedPool, Of

-------------------------------------------------------------------------------
(* The calls that only list or ask.                                              *)

\* What is on a device or in a list has been seen.
LEMMA OnDevicesIsSeen ==
    ASSUME TypeOK, NEW kind \in Kinds
    PROVE  /\ OnDevices(kind) \subseteq Objects \X Devices
           /\ \A p \in OnDevices(kind) : p[1][1] = kind /\ Seen(p[1])
BY DEF OnDevices, Seen, Objects

LEMMA ListedIsSeen ==
    ASSUME TypeOK
    PROVE  \A p \in listed : p[1] \in Objects /\ Seen(p[1])
BY DEF TypeOK, Seen

\* A call that starts with nothing to purge.
LEMMA GoToKeeps ==
    ASSUME IInv, NEW kind \in Kinds, NEW step, NoStepButOf(step, kind), NEW list,
           step \notin {"purge_loadbalancers", "purge_listeners", "purge_pools"},
           GoTo(step, list, {}),
           list \subseteq Objects \X Devices,
           \A p \in list : p[1][1] = kind /\ Seen(p[1])
    PROVE  /\ Gathers /\ ListsOneKind' /\ TodoIsUnknown'
           /\ scan' \subseteq Devices /\ UNCHANGED <<used, answered, li_id>>
<1>1. /\ at' = step /\ scan' = Devices /\ listed' = list /\ todo' = {} /\ bare' = {}
      /\ UNCHANGED <<used, answered, li_id>>
  BY DEF GoTo
<1> QED
  BY <1>1 DEF Gathers, ListsOneKind, TodoIsUnknown, NoStepButOf

\* The same with objects of the list that are unknown.
LEMMA GoToPurgeKeeps ==
    ASSUME IInv, NEW kind \in Kinds, NEW step, NoStepButOf(step, kind), NEW list, NEW purged,
           GoTo(step, list, purged), UNCHANGED known,
           list \subseteq Objects \X Devices,
           \A p \in list : p[1][1] = kind /\ Seen(p[1]),
           purged \subseteq {p[1] : p \in list} \ known
    PROVE  /\ Gathers /\ ListsOneKind' /\ TodoIsUnknown'
           /\ scan' \subseteq Devices /\ UNCHANGED <<used, answered, li_id>>
<1>1. /\ at' = step /\ scan' = Devices /\ listed' = list /\ todo' = purged /\ bare' = {}
      /\ UNCHANGED <<used, answered, li_id>>
  BY DEF GoTo
<1>2. \A o \in purged : o \in Objects /\ o[1] = kind /\ Seen(o) /\ o \notin known
  OBVIOUS
<1> QED
  BY <1>1, <1>2 DEF Gathers, ListsOneKind, TodoIsUnknown, NoStepButOf

\* A call that fails costs a fault.
LEMMA CostsType ==
    ASSUME TypeOK, NEW failure, Costs(failure)
    PROVE  faults' \in 0..MaxFaults
BY BoundsAssumption DEF TypeOK, Costs

\* The types that a call leaves as they are, when nothing on the devices changes.
LEMMA StillShrinks ==
    ASSUME TypeOK, UNCHANGED <<neutronVars, content, foreign>>
    PROVE  Shrinks
BY DEF TypeOK, Shrinks

LEMMA NextRoundStep ==
    ASSUME IInv, NextRound, UNCHANGED <<neutronVars, content, foreign>>,
           faults' \in 0..MaxFaults
    PROVE  PurgeStep
<1>1. "address" \in Kinds /\ NoStepButOf("loadbalancers", "address")
  BY DEF Kinds, StepsOf, NoStepButOf
<1>2. /\ Gathers /\ ListsOneKind' /\ TodoIsUnknown'
      /\ scan' \subseteq Devices /\ UNCHANGED <<used, answered, li_id>>
  BY <1>1, GoToKeeps DEF NextRound
<1> QED
  BY <1>2, StillShrinks DEF PurgeStep, OtherTypes, IInv, TypeOK

LEMMA ListingLoadbalancers ==
    ASSUME IInv, ListLoadbalancers \/ Sleep
    PROVE  PurgeStep
<1>1. \A d \in Devices : AddressesOn(d) \subseteq OnDevices("address")
  BY DEF AddressesOn
<1>2. "address" \in Kinds /\ \A k \in Kinds : at \in StepsOf(k) => k = "address"
  BY DEF ListLoadbalancers, Sleep, ScansLoadbalancers, StepsOf, Kinds
<1>3. Scanned \in Devices
  BY DEF ListLoadbalancers, Sleep, ScansLoadbalancers, Scanned, FirstOf, IInv, TypeOK
<1>4. /\ AddressesOn(Scanned) \subseteq Objects \X Devices
      /\ \A p \in AddressesOn(Scanned) : p[1][1] = "address" /\ Seen(p[1])
  BY <1>1, <1>2, <1>3, OnDevicesIsSeen DEF IInv
<1>5. CASE ListLoadbalancers
  <2>1. /\ listed' = listed \cup AddressesOn(Scanned) /\ scan' \subseteq scan
        /\ UNCHANGED <<neutronVars, content, foreign, at, bare, todo, used, answered, li_id,
                       faults>>
    BY <1>5 DEF ListLoadbalancers
  <2>2. at \in StepsOf("address") /\ at # "purge_loadbalancers"
    BY <1>5 DEF ListLoadbalancers, ScansLoadbalancers, StepsOf
  <2>3. Gathers
    BY <2>1, <1>4, ListedIsSeen DEF Gathers, IInv, TypeOK, Seen
  <2>4. ListsOneKind' /\ TodoIsUnknown'
    BY <2>1, <2>2, <1>2, <1>4 DEF ListsOneKind, TodoIsUnknown, neutronVars, IInv
  <2> QED
    BY <2>1, <2>3, <2>4, StillShrinks DEF PurgeStep, OtherTypes, IInv, TypeOK
<1>6. CASE Sleep
  <2>1. /\ at' \in {"sleeping", "sleeping_again"}
        /\ at \in StepsOf("address")
        /\ UNCHANGED <<neutronVars, content, foreign, scan, listed, bare, todo, used,
                       answered, li_id, faults>>
    BY <1>6 DEF Sleep, ScansLoadbalancers, StepsOf
  <2>2. \A k \in Kinds : at' \in StepsOf(k) => k = "address"
    BY <2>1 DEF StepsOf, Kinds
  <2>3. Gathers
    BY <2>1, ListedIsSeen DEF Gathers, IInv, TypeOK, Seen
  <2>4. ListsOneKind' /\ TodoIsUnknown'
    BY <2>1, <2>2, <1>2 DEF ListsOneKind, TodoIsUnknown, neutronVars, IInv
  <2> QED
    BY <2>1, <2>3, <2>4, StillShrinks DEF PurgeStep, OtherTypes, IInv, TypeOK
<1> QED
  BY <1>5, <1>6

\* The folder goes only from a device that has no address in it.
LEMMA WakingUp ==
    ASSUME IInv, NEW failing, NEW left, WakeUp(failing, left)
    PROVE  /\ PurgeStep
           /\ \A d \in Devices : content'[d] = content[d]
                                 \/ \A o \in Objects : Of(o, "address") \notin content[d]
<1> DEFINE appeared == {p[1] : p \in AddressesOn(Scanned)}
<1>1. /\ at \in {"sleeping", "sleeping_again"}
      /\ at' \in {"loadbalancers", "loadbalancers_again"}
      /\ scan' \subseteq scan
      /\ bare' = bare \cup appeared
      /\ listed' \subseteq listed
      /\ content' = IF appeared # {} THEN content
                    ELSE [content EXCEPT ![Scanned] = PurgedFolder(@, failing, left)]
      /\ faults' \in 0..MaxFaults
      /\ UNCHANGED <<neutronVars, foreign, todo, used, answered, li_id>>
  BY CostsType DEF WakeUp, IInv
<1>2. appeared \subseteq Objects /\ \A o \in appeared : o[1] = "address" /\ Seen(o)
  BY OnDevicesIsSeen DEF AddressesOn, Kinds, IInv
<1>3. at \in StepsOf("address") /\ at' \in StepsOf("address")
  BY <1>1 DEF StepsOf
<1>4. \A k \in Kinds : at' \in StepsOf(k) => k = "address"
  BY <1>1 DEF StepsOf, Kinds
<1>5. Gathers
  BY <1>1, <1>2, ListedIsSeen DEF Gathers, IInv, TypeOK, Seen
<1>6. ListsOneKind' /\ TodoIsUnknown'
  <2>1. \A o \in bare' : o[1] = "address"
    BY <1>1, <1>2 DEF IInv, ListsOneKind
  <2>2. \A p \in listed' : p[1][1] = "address"
    BY <1>1, <1>3 DEF IInv, ListsOneKind, Kinds
  <2>3. \A o \in todo' : o[1] = "address"
    BY <1>1, <1>3 DEF IInv, ListsOneKind, Kinds
  <2> QED
    BY <1>1, <1>4, <2>1, <2>2, <2>3 DEF ListsOneKind, TodoIsUnknown
<1>7. /\ Shrinks
      /\ \A d \in Devices : content'[d] = content[d] \/ (appeared = {} /\ d = Scanned)
  <2>1. \A c : PurgedFolder(c, failing, left) \subseteq c
    BY DEF PurgedFolder
  <2>2. CASE appeared # {}
    BY <1>1, <2>2 DEF Shrinks, IInv, TypeOK
  <2>3. CASE appeared = {}
    <3>1. content' = [content EXCEPT ![Scanned] = PurgedFolder(@, failing, left)]
      BY <1>1, <2>3
    <3> QED
      BY <1>1, <2>1, <2>3, <3>1 DEF Shrinks, IInv, TypeOK
  <2> QED
    BY <2>2, <2>3
<1>8. ASSUME NEW d \in Devices, appeared = {}, d = Scanned, NEW o \in Objects
      PROVE  Of(o, "address") \notin content[d]
  <2> SUFFICES ASSUME Of(o, "address") \in content[d]
               PROVE  FALSE
    OBVIOUS
  <2>1. <<Of(o, "address"), d>> \in AddressesOn(d)
    BY DEF AddressesOn, OnDevices, Of, Objects
  <2>2. Of(o, "address") \in appeared
    BY <2>1, <1>8
  <2> QED
    BY <2>2, <1>8
<1> QED
  BY <1>1, <1>5, <1>6, <1>7, <1>8 DEF PurgeStep, OtherTypes, IInv, TypeOK

LEMMA AskingLoadbalancers ==
    ASSUME IInv, NEW lost \in BOOLEAN, AskLoadbalancers(lost)
    PROVE  PurgeStep
<1> DEFINE unknown == Unknown(listed, lost) \cup (IF lost THEN {} ELSE bare \ known)
<1>1. at = "loadbalancers" /\ Costs(lost) /\ UNCHANGED <<neutronVars, content, foreign>>
  BY DEF AskLoadbalancers
<1>2. at \in StepsOf("address") /\ "address" \in Kinds
  BY <1>1 DEF StepsOf, Kinds
<1>3. /\ unknown \subseteq Objects /\ unknown \cap known = {}
      /\ \A o \in unknown : o[1] = "address" /\ Seen(o)
  BY <1>2, ListedIsSeen DEF Unknown, IInv, TypeOK, ListsOneKind, Seen
<1>4. faults' \in 0..MaxFaults
  BY <1>1, CostsType DEF IInv
<1>5. CASE unknown = {}
  <2>1. GoTo("listeners", {}, {})
    BY <1>5 DEF AskLoadbalancers
  <2>2. NoStepButOf("listeners", "listener") /\ "listener" \in Kinds
    BY DEF StepsOf, Kinds, NoStepButOf
  <2>3. /\ Gathers /\ ListsOneKind' /\ TodoIsUnknown'
        /\ scan' \subseteq Devices /\ UNCHANGED <<used, answered, li_id>>
    BY <2>1, <2>2, GoToKeeps
  <2> QED
    BY <2>3, <1>1, <1>4, StillShrinks DEF PurgeStep, OtherTypes, IInv, TypeOK
<1>6. CASE unknown # {}
  <2>1. /\ at' = "purge_loadbalancers" /\ todo' = unknown
        /\ UNCHANGED <<scan, listed, bare, used, answered, li_id>>
    BY <1>6 DEF AskLoadbalancers
  <2>2. \A k \in Kinds : at' \in StepsOf(k) => k = "address"
    BY <2>1 DEF StepsOf, Kinds
  <2>3. Gathers
    BY <2>1, <1>3, ListedIsSeen DEF Gathers, IInv, TypeOK, Seen
  <2>4. ListsOneKind' /\ TodoIsUnknown'
    BY <2>1, <2>2, <1>1, <1>2, <1>3 DEF ListsOneKind, TodoIsUnknown, neutronVars, IInv
  <2> QED
    BY <2>1, <2>3, <2>4, <1>1, <1>4, StillShrinks DEF PurgeStep, OtherTypes, IInv, TypeOK
<1> QED
  BY <1>5, <1>6

LEMMA Listing ==
    ASSUME IInv, NEW lost \in BOOLEAN,
           \/ ListListeners(lost) \/ ListPools(lost)
           \/ FinishLoadbalancers \/ ListPolicies \/ ListMonitors
    PROVE  PurgeStep
<1> USE DEF IInv
<1>1. /\ {"address", "listener", "policy", "pool", "monitor"} = Kinds
      /\ \A step \in {"listeners", "purge_listeners"} : NoStepButOf(step, "listener")
      /\ \A step \in {"policies", "policy_users"} : NoStepButOf(step, "policy")
      /\ \A step \in {"pools", "purge_pools", "nodes"} : NoStepButOf(step, "pool")
      /\ \A step \in {"monitors", "monitor_users"} : NoStepButOf(step, "monitor")
  BY DEF StepsOf, Kinds, NoStepButOf
<1>2. \A kind \in Kinds : /\ OnDevices(kind) \subseteq Objects \X Devices
                          /\ \A p \in OnDevices(kind) : p[1][1] = kind /\ Seen(p[1])
  BY OnDevicesIsSeen
<1>3. UNCHANGED <<neutronVars, content, foreign>> /\ faults' \in 0..MaxFaults
  BY CostsType DEF ListListeners, ListUnknown, ListPools, FinishLoadbalancers, ListPolicies,
                   ListMonitors, TypeOK
<1>4. UNCHANGED known
  BY <1>3 DEF neutronVars
<1> DEFINE Kept == /\ Gathers /\ ListsOneKind' /\ TodoIsUnknown'
                   /\ scan' \subseteq Devices /\ UNCHANGED <<used, answered, li_id>>
<1>5. Kept => PurgeStep
  BY <1>3, StillShrinks DEF PurgeStep, OtherTypes, TypeOK
<1>6. ASSUME ListListeners(lost) PROVE Kept
  <2>1. CASE Unknown(OnDevices("listener"), lost) = {}
    <3>1. GoTo("policies", {}, {})
      BY <1>6, <2>1 DEF ListListeners, ListUnknown
    <3> QED
      BY <3>1, <1>1, GoToKeeps
  <2>2. CASE Unknown(OnDevices("listener"), lost) # {}
    <3>1. GoTo("purge_listeners", OnDevices("listener"), Unknown(OnDevices("listener"), lost))
      BY <1>6, <2>2 DEF ListListeners, ListUnknown
    <3>2. Unknown(OnDevices("listener"), lost) \subseteq {p[1] : p \in OnDevices("listener")} \ known
      BY DEF Unknown
    <3> HIDE DEF Unknown
    <3> QED
      BY <3>1, <3>2, <1>1, <1>2, <1>4, GoToPurgeKeeps
  <2> QED
    BY <2>1, <2>2
<1>7. ASSUME FinishLoadbalancers PROVE Kept
  <2>1. GoTo("listeners", {}, {})
    BY <1>7 DEF FinishLoadbalancers
  <2> QED
    BY <2>1, <1>1, GoToKeeps
<1>8. ASSUME ListPolicies PROVE Kept
  <2>1. GoTo("pools", {}, {}) \/ GoTo("policy_users", OnDevices("policy"), {})
    BY <1>8 DEF ListPolicies
  <2> QED
    BY <2>1, <1>1, <1>2, GoToKeeps
<1>9. ASSUME ListMonitors PROVE PurgeStep
  <2>1. CASE NextRound
    BY <2>1, <1>3, NextRoundStep
  <2>2. CASE GoTo("monitor_users", OnDevices("monitor"), {})
    <3>1. Kept
      BY <2>2, <1>1, <1>2, GoToKeeps
    <3> QED
      BY <3>1, <1>5
  <2> QED
    BY <2>1, <2>2, <1>9 DEF ListMonitors
<1>10. ASSUME ListPools(lost) PROVE PurgeStep
  <2> DEFINE unknown == Unknown(OnDevices("pool"), lost)
  <2>1. CASE GoTo("monitors", {}, {})
    <3>1. Kept
      BY <2>1, <1>1, GoToKeeps
    <3> QED
      BY <3>1, <1>5
  <2>2. CASE GoTo("nodes", OnDevices("pool"), {})
    <3>1. Kept
      BY <2>2, <1>1, <1>2, GoToKeeps
    <3> QED
      BY <3>1, <1>5
  <2>3. CASE GoTo("purge_pools", OnDevices("pool"), unknown)
    <3>1. unknown \subseteq {p[1] : p \in OnDevices("pool")} \ known
      BY DEF Unknown
    <3> HIDE DEF unknown
    <3>2. Kept
      BY <2>3, <3>1, <1>1, <1>2, <1>4, GoToPurgeKeeps
    <3> QED
      BY <3>2, <1>5
  <2> QED
    BY <2>1, <2>2, <2>3, <1>10 DEF ListPools
<1> QED
  BY <1>5, <1>6, <1>7, <1>8, <1>9, <1>10

LEMMA EndingRound ==
    ASSUME IInv, RoundFails \/ ListWithoutHostnames \/ PurgeWithoutHostnames
    PROVE  PurgeStep /\ UNCHANGED content
<1>1. NextRound /\ UNCHANGED <<neutronVars, content, foreign>> /\ faults' \in 0..MaxFaults
  BY CostsType DEF RoundFails, ListWithoutHostnames, PurgeWithoutHostnames, IInv, TypeOK
<1> QED
  BY <1>1, NextRoundStep

LEMMA ListingPolicyUsers ==
    ASSUME IInv, NEW last \in Loadbalancers \cup {"none"}, ListPolicyUsers(last)
    PROVE  PurgeStep
<1>1. /\ at = "policy_users" /\ at' = "policy_answers"
      /\ used' = {<<"policy", lb>> : lb \in InUseOnFirst("listener", "listener_policy")}
      /\ answered' = {p[1][2] : p \in OnDevices("listener")}
      /\ li_id' = last
      /\ UNCHANGED <<neutronVars, content, foreign, scan, listed, bare, todo, faults>>
  BY DEF ListPolicyUsers
<1>2. used' \subseteq Objects /\ answered' \subseteq Loadbalancers
  <2>1. InUseOnFirst("listener", "listener_policy") \subseteq Loadbalancers
    BY DEF InUseOnFirst
  <2>2. \A p \in OnDevices("listener") : p[1][2] \in Loadbalancers
    BY DEF OnDevices
  <2>3. \A lb \in Loadbalancers : <<"policy", lb>> \in Objects
    BY DEF Objects, Kinds
  <2> QED
    BY <1>1, <2>1, <2>2, <2>3
<1>3. at \in StepsOf("policy") /\ \A k \in Kinds : at' \in StepsOf(k) => k = "policy"
  BY <1>1 DEF StepsOf, Kinds
<1>4. Gathers
  BY <1>1, ListedIsSeen DEF Gathers, IInv, TypeOK, Seen
<1>5. ListsOneKind' /\ TodoIsUnknown'
  BY <1>1, <1>3 DEF ListsOneKind, TodoIsUnknown, IInv, Kinds
<1> QED
  BY <1>1, <1>2, <1>4, <1>5, StillShrinks DEF PurgeStep, OtherTypes, IInv, TypeOK

LEMMA AskingPolicies ==
    ASSUME IInv, NEW lost \in BOOLEAN, AskPolicies(lost)
    PROVE  PurgeStep
<1>1. /\ at = "policy_answers" /\ at' \in {"pools", "purge_policies"}
      /\ todo' \subseteq {p[1] : p \in listed}
      /\ faults' \in 0..MaxFaults
      /\ UNCHANGED <<neutronVars, content, foreign, scan, listed, bare, used, answered, li_id>>
  BY CostsType DEF AskPolicies, IInv
<1>2. at \in StepsOf("policy") /\ \A k \in Kinds : at' \in StepsOf(k) => k = "policy"
  BY <1>1 DEF StepsOf, Kinds
<1>3. Gathers
  BY <1>1, ListedIsSeen DEF Gathers, IInv, TypeOK, Seen
<1>4. ListsOneKind' /\ TodoIsUnknown'
  BY <1>1, <1>2 DEF ListsOneKind, TodoIsUnknown, IInv, Kinds
<1> QED
  BY <1>1, <1>3, <1>4, StillShrinks DEF PurgeStep, OtherTypes, IInv, TypeOK

LEMMA ListingMonitorUsers ==
    ASSUME IInv, ListMonitorUsers
    PROVE  PurgeStep
<1> DEFINE unused == {o \in {p[1] : p \in listed} :
                         o[2] \notin InUseOnFirst("pool", "pool_monitor")}
<1>1. at = "monitor_users" /\ UNCHANGED <<neutronVars, content, foreign, faults>>
  BY DEF ListMonitorUsers
<1>2. faults' \in 0..MaxFaults
  BY <1>1 DEF IInv, TypeOK
<1>3. CASE NextRound
  BY <1>1, <1>2, <1>3, NextRoundStep
<1>4. CASE GoTo("purge_monitors", listed, unused)
  <2>1. /\ at' = "purge_monitors" /\ scan' = Devices /\ listed' = listed /\ todo' = unused
        /\ bare' = {} /\ UNCHANGED <<used, answered, li_id>>
    BY <1>4 DEF GoTo
  <2>2. at \in StepsOf("monitor") /\ \A k \in Kinds : at' \in StepsOf(k) => k = "monitor"
    BY <1>1, <2>1 DEF StepsOf, Kinds
  <2>3. Gathers
    BY <2>1, ListedIsSeen DEF Gathers, IInv, TypeOK, Seen
  <2>4. ListsOneKind' /\ TodoIsUnknown'
    BY <2>1, <2>2 DEF ListsOneKind, TodoIsUnknown, IInv, Kinds
  <2> QED
    BY <2>1, <2>3, <2>4, <1>1, <1>2, StillShrinks DEF PurgeStep, OtherTypes, IInv, TypeOK
<1> QED
  BY <1>3, <1>4 DEF ListMonitorUsers

-------------------------------------------------------------------------------
(* The calls that delete.                                                        *)

\* What KnownTreeIsKept says of a step of the purge.
KeepsKnown ==
    \A d \in Devices : \A o \in (content[d] \ content'[d]) \cap known :
       \/ Of(o, "address") \notin content[d]
       \/ o[1] = "policy"
       \/ o[1] = "monitor" /\ ~InUse(content[d], o)

LEMMA OnListedShrinks ==
    ASSUME TypeOK, NEW o, NEW after, OnListed(o, after),
           \A d \in Devices : after[d] \subseteq content[d]
    PROVE  /\ Shrinks
           /\ \A d \in Devices : content'[d] = content[d] \/ content'[d] = after[d]
BY DEF OnListed, Shrinks, TypeOK

LEMMA PurgeNextKeeps ==
    ASSUME IInv, NEW o \in todo, NEW step, PurgeNext(o, step), UNCHANGED known,
           NEW kind \in Kinds, NoStepButOf(step, kind),
           step \notin {"purge_loadbalancers", "purge_listeners", "purge_pools"}
    PROVE  /\ Gathers /\ ListsOneKind' /\ TodoIsUnknown'
           /\ scan' \subseteq Devices /\ UNCHANGED <<used, answered, li_id>>
<1>1. CASE GoTo(step, {}, {})
  BY <1>1, GoToKeeps
<1>2. CASE /\ todo' = todo \ {o}
           /\ UNCHANGED <<at, scan, listed, bare, used, answered, li_id>>
  <2>1. Gathers
    BY <1>2, ListedIsSeen DEF Gathers, IInv, TypeOK, Seen
  <2> QED
    BY <1>2, <2>1 DEF ListsOneKind, TodoIsUnknown, IInv, TypeOK
<1> QED
  BY <1>1, <1>2 DEF PurgeNext

LEMMA PurgingLoadbalancer ==
    ASSUME IInv, NEW o \in todo, NEW failed, NEW steps, PurgeLoadbalancer(o, failed, steps)
    PROVE  PurgeStep /\ KeepsKnown
<1> DEFINE after == [d \in Devices |->
                        PurgedLoadbalancer(content[d], o, IF d \in failed THEN steps ELSE 3)]
<1>1. /\ at = "purge_loadbalancers" /\ faults' \in 0..MaxFaults
      /\ OnListed(o, after) /\ PurgeNext(o, "loadbalancers_again")
  BY CostsType DEF PurgeLoadbalancer, IInv
<1>2. o \in Objects /\ o[1] = "address" /\ o \notin known
  BY <1>1 DEF IInv, TypeOK, ListsOneKind, StepsOf, Kinds, TodoIsUnknown
<1>3. \A d \in Devices : /\ after[d] \subseteq content[d]
                         /\ \A x \in content[d] \ after[d] : x[2] = o[2]
  BY <1>2, LoadbalancerRemoves DEF IInv, TypeOK
<1>4. /\ Shrinks
      /\ \A d \in Devices : content'[d] = content[d] \/ content'[d] = after[d]
  <2> HIDE DEF after
  <2> QED
    BY <1>1, <1>3, OnListedShrinks DEF IInv
<1>5. KeepsKnown
  <2> SUFFICES ASSUME NEW d \in Devices, NEW x \in content[d] \ content'[d], x \in known
               PROVE  FALSE
    BY DEF KeepsKnown
  <2>1. x[2] = o[2]
    BY <1>3, <1>4
  <2>2. Of(x, "address") = o
    BY <2>1, <1>2 DEF Of, Objects
  <2> QED
    BY <2>2, <1>2 DEF IInv, KnownIsClosed
<1>6. NoStepButOf("loadbalancers_again", "address") /\ "address" \in Kinds
  BY DEF NoStepButOf, StepsOf, Kinds
<1>7. /\ Gathers /\ ListsOneKind' /\ TodoIsUnknown'
      /\ scan' \subseteq Devices /\ UNCHANGED <<used, answered, li_id>>
  BY <1>1, <1>4, <1>6, PurgeNextKeeps DEF Shrinks, neutronVars
<1> QED
  BY <1>1, <1>4, <1>5, <1>7 DEF PurgeStep, OtherTypes, IInv, TypeOK

\* Listeners and monitors go alone.
LEMMA PurgingOne ==
    ASSUME IInv, NEW o \in todo, NEW failed, PurgeListener(o, failed) \/ PurgeMonitor(o, failed)
    PROVE  PurgeStep /\ KeepsKnown
<1>1. /\ faults' \in 0..MaxFaults /\ OnListed(o, DeletedExcept(failed, o))
      /\ \/ at = "purge_listeners" /\ PurgeNext(o, "policies")
         \/ at = "purge_monitors" /\ PurgeNext(o, "loadbalancers")
  BY CostsType DEF PurgeListener, PurgeMonitor, IInv
<1>2. o \in Objects /\ (o \notin known \/ o[1] = "monitor")
  BY <1>1 DEF IInv, TypeOK, ListsOneKind, StepsOf, Kinds, TodoIsUnknown
<1>3. \A d \in Devices :
         /\ DeletedExcept(failed, o)[d] \subseteq content[d]
         /\ \A x \in content[d] \ DeletedExcept(failed, o)[d] : x = o \/ x \in References
         /\ o \in content[d] \ DeletedExcept(failed, o)[d] => ~InUse(content[d], o)
  BY <1>2, DeletedRemoves DEF DeletedExcept, IInv, TypeOK
<1>4. /\ Shrinks
      /\ \A d \in Devices :
            content'[d] = content[d] \/ content'[d] = DeletedExcept(failed, o)[d]
  BY <1>1, <1>3, OnListedShrinks DEF IInv
<1>5. KeepsKnown
  <2> SUFFICES ASSUME NEW d \in Devices, NEW x \in content[d] \ content'[d], x \in known
               PROVE  x[1] = "monitor" /\ ~InUse(content[d], x)
    BY DEF KeepsKnown
  <2>1. x \in Objects
    BY DEF IInv, TypeOK
  <2>2. x = o /\ ~InUse(content[d], o)
    BY <1>3, <1>4, <2>1, ObjectsAreTheirOwn
  <2> QED
    BY <2>2, <1>2
<1>6. /\ NoStepButOf("policies", "policy") /\ NoStepButOf("loadbalancers", "address")
      /\ {"policy", "address"} \subseteq Kinds
  BY DEF NoStepButOf, StepsOf, Kinds
<1>7. /\ Gathers /\ ListsOneKind' /\ TodoIsUnknown'
      /\ scan' \subseteq Devices /\ UNCHANGED <<used, answered, li_id>>
  BY <1>1, <1>4, <1>6, PurgeNextKeeps DEF Shrinks, neutronVars
<1> QED
  BY <1>1, <1>4, <1>5, <1>7 DEF PurgeStep, OtherTypes, IInv, TypeOK

LEMMA PurgingPolicy ==
    ASSUME IInv, NEW o \in todo, NEW done, NEW failed, PurgePolicy(o, done, failed)
    PROVE  PurgeStep /\ KeepsKnown
<1> DEFINE after == [d \in Devices |->
                       IF d \notin done \/ ~ListenerIsFound(content[d], o) THEN content[d]
                       ELSE IF d \in failed THEN Stripped(content[d], o)
                       ELSE Deleted(Stripped(content[d], o), o)]
<1>1. /\ at = "purge_policies" /\ faults' \in 0..MaxFaults
      /\ OnListed(o, after) /\ (PurgeNext(o, "pools") \/ NextRound)
  BY CostsType DEF PurgePolicy, IInv
<1>2. o \in Objects /\ o[1] = "policy"
  BY <1>1 DEF IInv, TypeOK, ListsOneKind, StepsOf, Kinds
<1>3. ASSUME NEW d \in Devices
      PROVE  /\ after[d] \subseteq content[d]
             /\ \A x \in content[d] \ after[d] : x = o \/ x[1] = "listener_policy" \/ x \in References
  <2> DEFINE c == content[d]
             s == Stripped(c, o)
  <2>1. c \in SUBSET Items
    BY DEF IInv, TypeOK
  <2>2. s \in SUBSET Items /\ s \subseteq c /\ \A x \in c \ s : x[1] = "listener_policy"
    BY <2>1 DEF Stripped
  <2>3. after[d] \in {c, s, Deleted(s, o)}
    OBVIOUS
  <2> HIDE DEF c, s, after
  <2>4. Deleted(s, o) \subseteq s /\ \A x \in s \ Deleted(s, o) : x = o \/ x \in References
    BY <1>2, <2>2, DeletedRemoves
  <2>5. /\ after[d] \subseteq c
        /\ \A x \in c \ after[d] : x = o \/ x[1] = "listener_policy" \/ x \in References
    BY <2>2, <2>3, <2>4
  <2> QED
    BY <2>5 DEF c
<1>4. /\ Shrinks
      /\ \A d \in Devices : content'[d] = content[d] \/ content'[d] = after[d]
  <2> HIDE DEF after
  <2> QED
    BY <1>1, <1>3, OnListedShrinks DEF IInv
<1>5. KeepsKnown
  <2> SUFFICES ASSUME NEW d \in Devices, NEW x \in content[d] \ content'[d], x \in known
               PROVE  x[1] = "policy"
    BY DEF KeepsKnown
  <2>1. x \in Objects
    BY DEF IInv, TypeOK
  <2>2. x[1] # "listener_policy" /\ x \notin References
    BY <2>1, ObjectsAreTheirOwn DEF Objects, Kinds
  <2> HIDE DEF after
  <2>3. x = o
    BY <1>3, <1>4, <2>2
  <2> QED
    BY <2>3, <1>2
<1>6. /\ NoStepButOf("pools", "pool") /\ NoStepButOf("loadbalancers", "address")
      /\ {"pool", "address"} \subseteq Kinds
  BY DEF NoStepButOf, StepsOf, Kinds
<1>7. /\ Gathers /\ ListsOneKind' /\ TodoIsUnknown'
      /\ scan' \subseteq Devices /\ UNCHANGED <<used, answered, li_id>>
  <2>1. CASE PurgeNext(o, "pools")
    BY <2>1, <1>4, <1>6, PurgeNextKeeps DEF Shrinks, neutronVars
  <2>2. CASE NextRound
    BY <2>2, <1>6, GoToKeeps DEF NextRound
  <2> QED
    BY <1>1, <2>1, <2>2
<1> QED
  BY <1>1, <1>4, <1>5, <1>7 DEF PurgeStep, OtherTypes, IInv, TypeOK

LEMMA PurgingPool ==
    ASSUME IInv, NEW o \in todo, NEW kept, NEW failed, PurgePool(o, kept, failed)
    PROVE  PurgeStep /\ KeepsKnown
<1> DEFINE after == [d \in Devices |-> IF d \in kept THEN content[d]
                                       ELSE IF d \in failed THEN Deleted(content[d], o)
                                       ELSE PurgedPool(content[d], o)]
<1>1. /\ at = "purge_pools" /\ faults' \in 0..MaxFaults
      /\ OnListed(o, after)
      /\ todo' = todo \ {o} /\ at' \in {at, "nodes"}
      /\ UNCHANGED <<scan, listed, bare, used, answered, li_id>>
  BY CostsType DEF PurgePool, IInv
<1>2. o \in Objects /\ o \notin known
  BY <1>1 DEF IInv, TypeOK, TodoIsUnknown
<1>3. ASSUME NEW d \in Devices
      PROVE  /\ after[d] \subseteq content[d]
             /\ \A x \in content[d] \ after[d] : x = o \/ x \in References \/ x[1] = "node"
  BY <1>2, DeletedRemoves, PoolRemoves DEF IInv, TypeOK
<1>4. /\ Shrinks
      /\ \A d \in Devices : content'[d] = content[d] \/ content'[d] = after[d]
  <2> HIDE DEF after
  <2> QED
    BY <1>1, <1>3, OnListedShrinks DEF IInv
<1>5. KeepsKnown
  <2> SUFFICES ASSUME NEW d \in Devices, NEW x \in content[d] \ content'[d], x \in known
               PROVE  FALSE
    BY DEF KeepsKnown
  <2>1. x \in Objects
    BY DEF IInv, TypeOK
  <2> HIDE DEF after
  <2>2. x = o
    BY <1>3, <1>4, <2>1, ObjectsAreTheirOwn
  <2> QED
    BY <2>2, <1>2
<1>6. /\ at \in StepsOf("pool")
      /\ \A k \in Kinds : at' \in StepsOf(k) => k = "pool"
  BY <1>1 DEF StepsOf, Kinds
<1>7. Gathers
  BY <1>1, ListedIsSeen DEF Gathers, IInv, TypeOK, Seen
<1>8. ListsOneKind' /\ TodoIsUnknown'
  BY <1>1, <1>4, <1>6 DEF ListsOneKind, TodoIsUnknown, IInv, Kinds, Shrinks, neutronVars
<1> QED
  BY <1>1, <1>4, <1>5, <1>7, <1>8 DEF PurgeStep, OtherTypes, IInv, TypeOK

LEMMA PurgingNodes ==
    ASSUME IInv, NEW lost \in BOOLEAN, PurgeNodes(lost)
    PROVE  PurgeStep /\ KeepsKnown
<1>1. /\ faults' \in 0..MaxFaults /\ GoTo("monitors", {}, {})
      /\ UNCHANGED <<neutronVars, foreign>>
  BY CostsType DEF PurgeNodes, IInv
<1>2. /\ content' \in [Devices -> SUBSET Items]
      /\ \A d \in Devices : /\ content'[d] \subseteq content[d]
                            /\ \A x \in content[d] \ content'[d] : x[1] = "node"
  BY DEF PurgeNodes, IInv, TypeOK
<1>3. KeepsKnown
  BY <1>2, ObjectsAreTheirOwn DEF KeepsKnown, IInv, TypeOK
<1>4. NoStepButOf("monitors", "monitor") /\ "monitor" \in Kinds
  BY DEF NoStepButOf, StepsOf, Kinds
<1>5. /\ Gathers /\ ListsOneKind' /\ TodoIsUnknown'
      /\ scan' \subseteq Devices /\ UNCHANGED <<used, answered, li_id>>
  BY <1>1, <1>4, GoToKeeps
<1> QED
  BY <1>1, <1>2, <1>3, <1>5 DEF PurgeStep, Shrinks, OtherTypes, IInv, TypeOK

\* A call that changes nothing on the devices keeps everything.
LEMMA StillKeepsKnown == UNCHANGED content => KeepsKnown
BY DEF KeepsKnown

LEMMA PurgeKeeps ==
    ASSUME IInv, Purge
    PROVE  PurgeStep /\ KeepsKnown
<1>1. CASE RoundFails \/ ListWithoutHostnames \/ PurgeWithoutHostnames
  BY <1>1, EndingRound, StillKeepsKnown
<1>2. CASE ListLoadbalancers \/ Sleep
  BY <1>2, ListingLoadbalancers, StillKeepsKnown DEF ListLoadbalancers, Sleep
<1>3. ASSUME NEW failing \in 0..7, NEW left \in SUBSET Loadbalancers, WakeUp(failing, left)
      PROVE  PurgeStep /\ KeepsKnown
  <2>1. PurgeStep /\ \A d \in Devices : content'[d] = content[d]
                         \/ \A o \in Objects : Of(o, "address") \notin content[d]
    BY <1>3, WakingUp
  <2> QED
    BY <2>1 DEF KeepsKnown, IInv, TypeOK
<1>4. CASE FinishLoadbalancers \/ ListPolicies \/ ListMonitors
           \/ \E lost \in BOOLEAN : ListListeners(lost) \/ ListPools(lost)
  <2>1. PurgeStep
    BY <1>4, Listing
  <2>2. UNCHANGED content
    BY <1>4 DEF FinishLoadbalancers, ListPolicies, ListMonitors, ListListeners, ListUnknown,
                ListPools
  <2> QED
    BY <2>1, <2>2, StillKeepsKnown
<1>5. CASE ListMonitorUsers
  BY <1>5, ListingMonitorUsers, StillKeepsKnown DEF ListMonitorUsers
<1>6. ASSUME NEW lost \in BOOLEAN, AskLoadbalancers(lost)
      PROVE  PurgeStep /\ KeepsKnown
  BY <1>6, AskingLoadbalancers, StillKeepsKnown DEF AskLoadbalancers
<1>7. ASSUME NEW lost \in BOOLEAN, AskPolicies(lost)
      PROVE  PurgeStep /\ KeepsKnown
  BY <1>7, AskingPolicies, StillKeepsKnown DEF AskPolicies
<1>8. ASSUME NEW last \in Loadbalancers \cup {"none"}, ListPolicyUsers(last)
      PROVE  PurgeStep /\ KeepsKnown
  BY <1>8, ListingPolicyUsers, StillKeepsKnown DEF ListPolicyUsers
<1>9. ASSUME NEW lost \in BOOLEAN, PurgeNodes(lost)
      PROVE  PurgeStep /\ KeepsKnown
  BY <1>9, PurgingNodes
<1>10. ASSUME NEW o \in todo, NEW failed \in SUBSET Devices,
              \/ \E steps \in 0..2 : PurgeLoadbalancer(o, failed, steps)
              \/ PurgeListener(o, failed)
              \/ \E done \in SUBSET Devices : PurgePolicy(o, done, failed)
              \/ \E kept \in SUBSET Devices : PurgePool(o, kept, failed)
              \/ PurgeMonitor(o, failed)
       PROVE  PurgeStep /\ KeepsKnown
  BY <1>10, PurgingLoadbalancer, PurgingOne, PurgingPolicy, PurgingPool
<1> QED
  BY <1>1, <1>2, <1>3, <1>4, <1>5, <1>6, <1>7, <1>8, <1>9, <1>10 DEF Purge

-------------------------------------------------------------------------------
(* The invariant.                                                               *)

LEMMA InitInv == Init => IInv
<1> SUFFICES ASSUME Init PROVE IInv
  OBVIOUS
<1>1. PICK deployed \in SUBSET Loadbalancers :
         /\ known = Kinds \X deployed
         /\ content = [d \in Devices |-> UNION {Tree(lb) : lb \in deployed}]
         /\ fresh = Objects \ known
  BY DEF Init
<1>2. known \subseteq Objects
  BY <1>1 DEF Objects
<1>3. /\ waiting = {} /\ foreign = "none" /\ at = "loadbalancers" /\ scan = Devices
      /\ listed = {} /\ bare = {} /\ todo = {} /\ used = {} /\ answered = {}
      /\ li_id = "none" /\ ops = 0 /\ faults = 0
  BY DEF Init
<1>4. content \in [Devices -> SUBSET Items]
  <2>1. \A lb : Tree(lb) \subseteq Items
    BY DEF Tree, Items
  <2> QED
    BY <1>1, <2>1
<1>5. TypeOK
  BY <1>1, <1>2, <1>3, <1>4, BoundsAssumption DEF TypeOK
<1>6. KnownIsClosed
  BY <1>1 DEF KnownIsClosed, Of, Kinds
<1>7. FreshIsNew
  <2> SUFFICES ASSUME NEW o \in fresh
               PROVE  o # <<"address", foreign>> /\ ~Seen(o)
    BY <1>1, <1>3 DEF FreshIsNew
  <2>1. o \in Objects /\ o[2] \notin deployed
    BY <1>1 DEF Objects
  <2>2. o # <<"address", foreign>>
    BY <2>1, <1>3, BoundsAssumption DEF Objects
  <2>3. \A d \in Devices : o \notin content[d]
    BY <1>1, <2>1, ObjectsAreTheirOwn DEF Tree
  <2> QED
    BY <2>2, <2>3, <1>3 DEF Seen
<1>8. ListsOneKind /\ TodoIsUnknown
  BY <1>3 DEF ListsOneKind, TodoIsUnknown
<1> QED
  BY <1>5, <1>6, <1>7, <1>8 DEF IInv

LEMMA PurgeInv ==
    ASSUME IInv, PurgeStep
    PROVE  IInv'
<1>1. UNCHANGED <<known, fresh, waiting, ops, foreign>>
  BY DEF PurgeStep, Shrinks, neutronVars
<1>2. TypeOK'
  BY <1>1 DEF PurgeStep, Shrinks, Gathers, OtherTypes, IInv, TypeOK
<1>3. KnownIsClosed'
  BY <1>1 DEF IInv, KnownIsClosed
<1>4. FreshIsNew'
  <2>1. \A o : Seen(o)' => Seen(o)
    BY DEF PurgeStep, Shrinks, Gathers, Seen
  <2> QED
    BY <1>1, <2>1 DEF IInv, FreshIsNew
<1> QED
  BY <1>2, <1>3, <1>4 DEF PurgeStep, IInv

LEMMA CreateInv ==
    ASSUME IInv, NEW o \in Objects, Create(o)
    PROVE  IInv'
<1>1. /\ ops < MaxOps /\ ops' = ops + 1 /\ o \in fresh
      /\ known' = known \cup {o} /\ fresh' = fresh \ {o} /\ waiting' = waiting \cup {o}
      /\ UNCHANGED <<content, foreign, at, scan, listed, bare, todo, used, answered, li_id, faults>>
  BY DEF Create, purgeVars
<1>2. TypeOK'
  BY <1>1, BoundsAssumption DEF IInv, TypeOK
<1>3. KnownIsClosed'
  <2>1. CASE o[1] = "address"
    <3>1. Of(o, "address") = o
      BY <2>1 DEF Of, Objects
    <3> QED
      BY <3>1, <1>1 DEF IInv, KnownIsClosed
  <2>2. CASE Parent(o) \in known
    <3>1. Of(Parent(o), "address") = Of(o, "address")
      BY DEF Parent, Of
    <3> QED
      BY <2>2, <3>1, <1>1 DEF IInv, KnownIsClosed
  <2> QED
    BY <2>1, <2>2 DEF Create
<1>4. FreshIsNew'
  BY <1>1 DEF IInv, FreshIsNew, Seen
<1>5. ListsOneKind'
  BY <1>1 DEF IInv, ListsOneKind
<1>6. TodoIsUnknown'
  BY <1>1 DEF IInv, TodoIsUnknown, FreshIsNew, Seen
<1> QED
  BY <1>2, <1>3, <1>4, <1>5, <1>6 DEF IInv

LEMMA ForgetInv ==
    ASSUME IInv, NEW o \in Objects, Forget(o)
    PROVE  IInv'
<1>1. /\ ops < MaxOps /\ ops' = ops + 1 /\ known' = known \ Below(o)
      /\ UNCHANGED <<fresh, waiting, content, foreign, at, scan, listed, bare, todo, used,
                     answered, li_id, faults>>
  BY DEF Forget, purgeVars
<1>2. TypeOK'
  BY <1>1, BoundsAssumption DEF IInv, TypeOK
<1>3. KnownIsClosed'
  <2> SUFFICES ASSUME NEW x \in known, x \notin Below(o), Of(x, "address") \in Below(o)
               PROVE  FALSE
    BY <1>1 DEF IInv, KnownIsClosed
  <2>1. x \in Objects
    BY DEF IInv, TypeOK
  <2>2. o[1] = "address" /\ o[2] = x[2]
    BY <2>1 DEF Below, Of, Objects
  <2>3. x = Of(o, x[1]) /\ x[1] \in Kinds
    BY <2>1, <2>2 DEF Of, Objects
  <2> QED
    BY <2>2, <2>3 DEF Below
<1>4. FreshIsNew'
  BY <1>1 DEF IInv, FreshIsNew, Seen
<1>5. ListsOneKind' /\ TodoIsUnknown'
  BY <1>1 DEF IInv, ListsOneKind, TodoIsUnknown
<1> QED
  BY <1>2, <1>3, <1>4, <1>5 DEF IInv

\* A deployment brings o, and items that are no objects.
LEMMA DeployedAdds ==
    ASSUME NEW c \in SUBSET Items, NEW o \in Objects
    PROVE  /\ Deployed(c, o) \in SUBSET Items
           /\ \A x \in Deployed(c, o) \cap Objects : x \in c \/ x = o
<1>1. o[1] \in Kinds /\ o[2] \in Loadbalancers /\ o \in Items /\ Folder \in Items
  BY DEF Objects, Items
<1>2. /\ Of(o, "node") \in Items \ Objects
      /\ Of(o, "listener_pool") \in Items \ Objects
      /\ Of(o, "listener_policy") \in Items \ Objects
      /\ Of(o, "pool_monitor") \in Items \ Objects
      /\ Folder \notin Objects
  BY <1>1 DEF Of, Items, Objects, References, Kinds, Folder
<1>3. \A x \in Deployed(c, o) :
         x \in c \cup {o, Folder, Of(o, "node"), Of(o, "listener_pool"),
                       Of(o, "listener_policy"), Of(o, "pool_monitor")}
  BY <1>1 DEF Deployed, Kinds
<1> QED
  BY <1>1, <1>2, <1>3

\* What a request brings was cast, so that it is not fresh.
LEMMA DeviceGains ==
    ASSUME IInv, NEW o \in waiting \cup {<<"address", foreign>>},
           UNCHANGED <<known, fresh, ops, at, scan, listed, bare, todo, used, answered, li_id>>,
           waiting' \subseteq waiting, faults' \in 0..MaxFaults,
           foreign' \in Loadbalancers \cup {"none"},
           foreign' \in {"none", foreign} \/ <<"address", foreign'>> \in waiting,
           content' \in [Devices -> SUBSET Items],
           \A d \in Devices : \A x \in content'[d] \cap Objects : x \in content[d] \/ x = o
    PROVE  IInv'
<1>1. TypeOK'
  BY DEF IInv, TypeOK
<1>2. KnownIsClosed' /\ ListsOneKind' /\ TodoIsUnknown'
  BY DEF IInv, KnownIsClosed, ListsOneKind, TodoIsUnknown
<1>3. FreshIsNew'
  <2> SUFFICES ASSUME NEW f \in fresh
               PROVE  f # <<"address", foreign'>> /\ ~Seen(f)'
    BY DEF IInv, FreshIsNew
  <2>1. /\ f \in Objects /\ f # o /\ f \notin waiting /\ f # <<"address", foreign>> /\ ~Seen(f)
    BY DEF IInv, FreshIsNew, TypeOK
  <2>2. f # <<"address", foreign'>>
    <3>1. \A lb \in Loadbalancers : lb # "none"
      BY BoundsAssumption
    <3> QED
      BY <2>1, <3>1 DEF Objects
  <2>3. ~Seen(f)'
    BY <2>1 DEF Seen
  <2> QED
    BY <2>2, <2>3
<1> QED
  BY <1>1, <1>2, <1>3 DEF IInv

LEMMA DeployInv ==
    ASSUME IInv, NEW o \in Objects, NEW partly \in BOOLEAN, Deploy(o, partly)
    PROVE  IInv'
<1>1. /\ o \in waiting /\ waiting' = waiting \ {o} /\ faults' \in 0..MaxFaults
      /\ UNCHANGED <<known, fresh, ops, foreign, at, scan, listed, bare, todo, used, answered, li_id>>
  BY CostsType DEF Deploy, IInv, purgeVars
<1> DEFINE Little == CASE o[1] = "address" -> {Folder}
                       [] o[1] = "monitor" -> {o}
                       [] OTHER -> {}
<1>2. content' = [d \in Devices |->
          IF o[1] # "address" /\ Parent(o) \notin content[d] THEN content[d]
          ELSE IF ~partly THEN Deployed(content[d], o)
          ELSE content[d] \cup Little]
  BY DEF Deploy
<1>3. Little \subseteq Items /\ \A x \in Little \cap Objects : x = o
  BY ObjectsAreTheirOwn DEF Items
<1>4. \A d \in Devices : content[d] \in SUBSET Items
  BY DEF IInv, TypeOK
<1>5. /\ content' \in [Devices -> SUBSET Items]
      /\ \A d \in Devices : \A x \in content'[d] \cap Objects : x \in content[d] \/ x = o
  <2> HIDE DEF Little
  <2> QED
    BY <1>2, <1>3, <1>4, DeployedAdds
<1>6. foreign \in Loadbalancers \cup {"none"}
  BY DEF IInv, TypeOK
<1> QED
  BY <1>1, <1>5, <1>6, DeviceGains

LEMMA ForeignInv ==
    ASSUME IInv, ForeignAddress \/ \E o \in Objects : ForeignFolder(o)
    PROVE  IInv'
<1>1. ASSUME NEW o \in Objects, ForeignFolder(o)
      PROVE  IInv'
  <2>1. /\ o \in waiting /\ waiting' = waiting \ {o} /\ foreign' = o[2] /\ o[1] = "address"
        /\ o = <<"address", o[2]>> /\ o[2] \in Loadbalancers
        /\ UNCHANGED <<known, fresh, ops, at, scan, listed, bare, todo, used, answered, li_id, faults>>
    BY <1>1 DEF ForeignFolder, purgeVars, Objects
  <2>2. /\ content' \in [Devices -> SUBSET Items]
        /\ \A d \in Devices : \A x \in content'[d] \cap Objects : x \in content[d]
    BY <1>1, ObjectsAreTheirOwn DEF ForeignFolder, IInv, TypeOK, Items
  <2>3. faults' \in 0..MaxFaults
    BY <2>1 DEF IInv, TypeOK
  <2> QED
    BY <2>1, <2>2, <2>3, DeviceGains
<1>2. CASE ForeignAddress
  <2>1. /\ foreign # "none" /\ foreign' = "none"
        /\ UNCHANGED <<known, fresh, ops, waiting, at, scan, listed, bare, todo, used, answered,
                       li_id, faults>>
    BY <1>2 DEF ForeignAddress, purgeVars, neutronVars
  <2>2. <<"address", foreign>> \in Items
    BY <2>1 DEF IInv, TypeOK, Items, Objects, Kinds
  <2>3. /\ content' \in [Devices -> SUBSET Items]
        /\ \A d \in Devices : \A x \in content'[d] \cap Objects :
              x \in content[d] \/ x = <<"address", foreign>>
    BY <1>2, <2>2 DEF ForeignAddress, IInv, TypeOK
  <2>4. faults' \in 0..MaxFaults
    BY <2>1 DEF IInv, TypeOK
  <2> QED
    BY <2>1, <2>3, <2>4, DeviceGains
<1> QED
  BY <1>1, <1>2

LEMMA NextInv == IInv /\ [Next]_vars => IInv'
<1> SUFFICES ASSUME IInv, [Next]_vars PROVE IInv'
  OBVIOUS
<1>1. CASE Purge
  BY <1>1, PurgeKeeps, PurgeInv
<1>2. CASE Requests
  BY <1>2, CreateInv, ForgetInv, DeployInv, ForeignInv DEF Requests
<1>3. CASE UNCHANGED vars
  BY <1>3 DEF vars, neutronVars, purgeVars, IInv, TypeOK, KnownIsClosed, FreshIsNew, Seen,
              ListsOneKind, TodoIsUnknown
<1> QED
  BY <1>1, <1>2, <1>3 DEF Next

-------------------------------------------------------------------------------
(***************************************************************************)
(* The inductive invariant of the purge in agent_manager.py, for any load    *)
(* balancers and devices: what it has seen is never new in Neutron again, and *)
(* what it is about to delete of load balancers, listeners and pools is not   *)
(* known.                                                                    *)
(***************************************************************************)
THEOREM PurgeInvariant == Spec => []IInv
BY InitInv, NextInv, PTL DEF Spec

(* The types, for any number of load balancers, devices, operations and failures. *)
THEOREM PurgeTypes == Spec => []TypeOK
<1>1. IInv => TypeOK
  BY DEF IInv
<1> QED
  BY <1>1, PurgeInvariant, PTL

(***************************************************************************)
(* clean_orphaned_objects_and_save_device_config takes no object that Neutron *)
(* knows from a device that has its load balancer, whatever requests ran and   *)
(* whatever calls failed between the list and the deletion; policies and       *)
(* unused monitors are excepted.                                               *)
(***************************************************************************)
THEOREM PurgeKeepsKnownTree == Spec => KnownTreeIsKept
<1> DEFINE Kept == at' # at \/ todo' # todo \/ scan' # scan =>
                      \A d \in Devices : \A o \in (content[d] \ content'[d]) \cap known :
                         \/ Of(o, "address") \notin content[d]
                         \/ o[1] = "policy"
                         \/ o[1] = "monitor" /\ ~InUse(content[d], o)
<1>1. IInv /\ [Next]_vars => [Kept]_vars
  <2> SUFFICES ASSUME IInv, Next PROVE Kept
    OBVIOUS
  <2>1. CASE Purge
    BY <2>1, PurgeKeeps DEF KeepsKnown
  <2>2. CASE Requests
    BY <2>2 DEF Requests, Create, Forget, Deploy, ForeignFolder, ForeignAddress, purgeVars
  <2> QED
    BY <2>1, <2>2 DEF Next
<1> QED
  BY <1>1, PurgeInvariant, PTL DEF Spec, KnownTreeIsKept
=============================================================================
