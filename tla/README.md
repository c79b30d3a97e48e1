# A TLA+ model of the F5 OpenStack agent

`f5-openstack-agent` is the Neutron LBaaSv2 agent for F5 BIG-IP devices. The
LBaaS plugin in the Neutron server casts operations of the tenants to it; the
agent writes them to one or more BIG-IPs and tells the plugin the resulting
`provisioning_status` of every object. These modules model the part of it that
is hard to test: what happens when calls overlap, devices fail, casts are lost
and the agent restarts, and whether what Neutron believes and what the devices
hold come together again.

Paths below are relative to `src/f5_openstack_agent/lbaasv2/drivers/bigip/`.

## 1. Inventory

### How the parts interact

```
 Neutron LBaaS plugin (external)
    |  casts with a snapshot of a service        ^ update_*_status, *_destroyed
    v                                            | get_service_by_loadbalancer_id
 agent_manager.py  RPC handlers, periodic tasks, cache, heartbeat
    |  driver methods: @serialized @is_operational
    v
 icontrol_driver.py  service_queue -> _common_service_handler -> reports
    |                    |                    |
 tenants.py      network_service.py     lbaas_builder.py
                 l2, selfips, snats     virtual_address, pool_service,
                                        listener_service, l7policy_service
    |                    |                    |
    v                    v                    v
              BIG-IP devices, one after the other (external)
```

RPC handlers run on green threads. The periodic tasks run one after the other
on the timer's thread, and the heartbeat (`_report_state`) on a timer of its
own. They share the driver, the table of devices, the cache and the flag
`needs_resync`. A green thread switches at sleeps, at I/O and at log calls.

### Components

| component | state | operations | what is hard | what makes it correct |
|---|---|---|---|---|
| service queue, `utils.py` `serialized` | the list `service_queue`; an index in each waiting thread | append, re-read, run, pop | a thread acts on an index it read before it slept; `pop(0)` removes the first entry whosever it is | one call at a time, in the order of arrival, every call runs |
| service handler, `icontrol_driver.py` `_common_service_handler`, `_update_*_status` | statuses in the service, hints, `do_service_update`, the report | one request, from the queue to the report | exceptions that are only logged, `finally`, devices that come and go in between | a report is true on the devices, and answers what Neutron asked |
| LBaaS builder, `lbaas_builder.py` | `to_sync`, `const_status` | ten phases in a fixed order (and two for L7) | the error of one device behind the success of another; `to_sync` surviving a request | the order that the devices accept; errors are kept |
| pool, listener and virtual address services | none (the devices') | create, update, delete | what a device refuses, swallowed HTTP errors | idempotence |
| agent manager, `agent_manager.py` | `LogicalServiceCache`, `needs_resync`, `last_resync`, `pending_services` | RPC handlers, `periodic_resync`, `sync_state`, validation, refresh, timeout, purge, heartbeat | the cache hides services; flags shared by threads; restarts | pending operations settle; the devices converge to Neutron |
| orphan purge, `agent_manager.py:768-981`, `icontrol_driver.py:1086-1489` | lists of deployed objects | one pass per kind | lists go stale between the serialized calls; an order the device accepts; other agents on the same devices | only what Neutron does not know is deleted, and all of it is |
| device connections, `icontrol_driver.py` | the status of each device, `operational`, the admin state | connect, recover, heartbeat, reconnect in `is_operational` | two threads that connect at a time; an exception at any of ten calls; statuses from which nothing recovers | an active device was prepared; errors are retried; what is reported converges |
| plugin RPC, `plugin_rpc.py` | none | casts and calls | delivery failures are logged | |
| agent service, `agent.py` | timers | start | | the periodic tasks run again and again |
| tenant manager, `tenants.py` | the devices' | folder and route domain created, cleaned up | a tenant created on some devices only | |
| network service, `network_service.py` | `rds_cache` | route domains, prep, post, hints | a cache that lags behind the devices; a route domain on some devices only | no overlapping subnets, and no two tenants, in one route domain; an address is where its VLAN and self IP are |
| self IPs and SNATs, `selfips.py`, `snats.py` | `assured_tenant_snat_subnets` of each device | assure, delete | a subnet that tenants share; a flushed cache | never removed while used; the cache is true |
| L2 service, FDB connectors | `assured_networks`; the devices' | VLANs, tunnels, FDB entries | removed with their last user | |
| L7 policies | the devices' | wrapper policy of a listener | updates while the listener uses it | |
| service adapter, `lbaas_service.py` | none | translation | | |
| ESD files, certificates, statistics, vCMP, cluster manager, helpers, scripts | none or read-only | | I/O | |

`PROJECT.json` lists every component with its status and reason, and the
hazards, each at its line.

## 2. Modules

| module | models |
|---|---|
| `FifoLock` | abstract: a lock that is given in the order in which it was asked for |
| `ServiceQueue` | the `serialized` decorator; implements `FifoLock` |
| `ServiceHandler` | one request of the driver at a time, on any set of devices |
| `AgentManager` | EXTENDS `ServiceHandler`: the agent over the driver, with Neutron, the queue, the periodic task, the cache and the heartbeat |
| `DeviceConnection` | two threads that connect, initialise and recover the devices, and the heartbeat |
| `OrphanPurge` | the purge call by call, with the tenant, this agent's requests and another agent in between |
| `TenantNetwork` | folder, route domains, VLANs, self IPs and SNATs of the load balancers of several tenants, and the caches beside them |
| `MCServiceHandler`, `MCDeviceConnection`, `MCTenantNetwork` | instances for TLC: the symmetry of the devices, configurations, a small network |
| `*_proofs` | theorems |

`ServiceHandler` and `AgentManager` compose: one is extended by the other.
`DeviceConnection`, `OrphanPurge` and `TenantNetwork` each look into something
that is one step there (a device that is lost or comes back, the purge, the
network that may fail), so that the details do not multiply. The queue is in all
of them: where a call is one step, `ServiceQueue` is the reason.

### ServiceQueue

`service_queue` and `reqs_ahead_of_us` are the code's variables; `pc` says where
a thread is in the wrapper. `Enqueue` is `append` and the first read (no switch
in between), `Reread` the end of a sleep, `Start` the end of the loop, `Finish`
the return or exception of the method with the `pop(0)` of `finally`. A request
is named by its thread, because no decorated method calls another one.

`ServiceHandler` and `AgentManager` rely on what is shown here: the driver runs
one request at a time, the oldest first, so that they keep a sequence of
requests of which the head is run.

### ServiceHandler

A service is a load balancer with at most one listener, pool, member and health
monitor: the kinds on which the builder's phases and reports differ. `service`
holds the statuses in the service dictionary, which the handler overwrites;
`content[d]` is what device `d` holds, including the references from a listener
to its pool and from a pool to its monitor; `active` are the devices that
`get_all_bigips` returns.

There is one action per phase of `_common_service_handler` and of
`assure_service`, in their order, and one for each way a phase can raise. A
phase visits all active devices; the devices whose call fails are chosen freely
(`faulty`), and so are the places where a loop ends by an exception (`done`).
What a device refuses follows from its content: a pool whose monitor is not
there, a listener whose pool is not there, the deletion of what is referred to.
Then come the two steps of the report, children first, and `Return`.
`DeviceLost` and `DeviceRecovered` may happen between any two steps; a device
may come back with the content it had, or empty.

The history variables (`faulted`, `swallowed`, `snapshot`, `steady`, `faults`)
are not in the code; the properties speak about them and no guard of the code
depends on them (`faults` only bounds the failures).

### AgentManager

Adds the manager's variables under their own names, the database of Neutron
(`neutron`), the queue of requests, and `periodic`, the place in
`periodic_resync`. Time is the flag `timer_due` ("more than
`service_resync_interval` since `last_resync`") and a service that is in
`pending_services` may time out at any pass.

| action | code |
|---|---|
| `Operate` | Neutron (external): an operation on an unlocked tree, and its cast, which may be lost |
| `BeginRequest`, `SyncNothing` | the head of the queue reaches the driver; `sync` fetches the service again |
| `NotOperational` | `is_operational` when no device is active: the request is dropped, devices are connected again |
| `HandlerStep` | a step of `ServiceHandler`; what it sends (`Sent`) is applied in Neutron |
| `ReturnToCaller` | the rest of the RPC handler or of the periodic task: cache, `needs_resync` |
| `StartResync`, `Validate`, `Refresh`, `RefreshNothing`, `Refreshed`, `ServiceTimeout` | `periodic_resync`, `sync_state` and what they call |
| `CleanOrphans`, `CleanNotOperational` | `clean_orphaned_objects_and_save_device_config` |
| `LoseDevice`, `ReportState`, `RecoverDevice` | the heartbeat and `recover_errored_devices` |
| `Restart` | the process dies and starts again; devices and Neutron are left as they are |

### DeviceConnection

`status[d]` is the status of the object in the driver's table of devices; a
thread has the place in `_init_bigips` or `_init_errored_bigips` (`at`, `runs`),
the devices that its loop has left, its device, and whether the object it holds
is still the registered one: `_open_bigip` puts a new object into the table, and
the code that goes on with the old one writes to nobody. `config` is the
configuration: the HA type, the hosts, the order of the dictionary in which
`_init_errored_bigips` goes, and devices that no initialisation passes.

| action | code |
|---|---|
| `StartConnect`, `SkipConnect`, `StartRecovery` | `connect_driver` and `recover_errored_devices` on the timer's thread, `is_operational` on a request's |
| `Open`, `Opened`, `OpenNothing` | `_open_bigip`, and the test of the status before it |
| `ValidateHA`, `RefuseHosts`, `InitBigip`, `InitAgentConfig`, `Configured`, `BecomeActive`, `PostInit` | the steps of one device in the loop, with the status each writes |
| `ValidationRaises`, `InitBigipRaises`, `FailoverStateIsUnknown`, `IsNotOperational`, `PostInitRaises` | the ways each may fail |
| `Heartbeat`, `PollFails` | `_report_state`, `get_failover_state` on an active device |

A report may be `delivered`, `swallowed` (`set_agent_admin_state` of `plugin_rpc.py`
catches `MessageDeliveryFailure`, and `_report_state` goes on and records the agent
as told), `raised` (another exception: nothing is recorded) or `unanswered` (the
plugin heard it, nothing is recorded). `admin_state_up` is the record, `believed`
what the plugin heard last.

`prepared`, `unconfirmed`, `unsynced` and `unannounced` are history: `prepared` are
the devices whose registered object went through `_init_bigip`; `unconfirmed` says
that the last call to the plugin failed.

### OrphanPurge

`at` is the call that `clean_orphaned_objects_and_save_device_config` makes
next; `listed` and `todo` are the dictionaries that the calls pass on. Each call
to the driver and each question to Neutron is an action of its own
(`ListLoadbalancers`, `AskLoadbalancers`, `PurgeLoadbalancer`, ... `PurgeMonitor`),
because each is its own turn of the queue; a deletion goes over the devices on
which the object was listed, any of which may fail: a pool may stay, or only its
nodes, and the purge of a folder (`WakeUp`) may end in the middle of what it holds,
which is logged. `Create` and `Forget` are the
tenant, `Deploy` a request of this agent, `ForeignFolder` and `ForeignAddress`
another agent that creates a tenant on the same devices; `Sleep` and `WakeUp` are
the delay that `get_all_deployed_loadbalancers` gives it. `bare` are load
balancers that were listed without their hostnames after that delay, which the
code later looks up (`KeyError`). `li_id` is the loop variable that
`purge_orphaned_l7_policys` uses after its loop.

All objects are in one folder. That another agent may take longer than the delay
is left out (`WakeUp` waits for it): the delay is there to rule that out.

### TenantNetwork

A request is a load balancer with the networks on which it shall have addresses
(none: it is deleted). A failure may hit any call and ends what the code's `except`
ends.

| action | code |
|---|---|
| `Folders`, `TenantDomains` | `assure_tenant_created` |
| `UpdateRdsCache` | `update_rds_cache`; what a device told before it failed stays in the cache, a VLAN whose self IPs could not be read among it |
| `KnownDomain`, `OnlyDomain`, `OnlyDomainFails`, `Place`, `CreateAuxRd`, `CannotPlace` | `assign_route_domain`, for each network |
| `Connect`, `ConnectFails` | VLAN and self IP, for each device and network. `unbound`: only `l3_binding` fails, after the self IP. The outcomes of `ConnectFails` are the places where it can end: before the `vlan`, before it is in its route `domain`, at its `binding`, before the `selfip`, or after the VLAN was `moved` for it |
| `AssureSnats` | the SNAT pool and `assured_tenant_snat_subnets`, for each network |
| `AssureService` | the addresses, and the subnet hints |
| `ReleaseShared`, `Release`, `PostFails` | `post_service_networking`, for each device. `ReleaseShared`: an exception before the cache forgets the subnet (`failed`), an address that stays in the pool (`kept`), an exception before what was found out about its use is returned (`lost`). `Release`: a self IP that is not deleted (`failed`), a VLAN that is not deleted, which is only logged (`stays`), an exception after the self IP was deleted (`cut`) |
| `Cleanup` | `assure_tenant_cleanup`; each domain and each folder may fail |
| `FlushCache` | `flush_cache` on the timer's thread, which does not wait for its turn |
| `Restart` | the caches are empty, the request ends |

The caches have the code's names. Four variables are history and no step of the code
depends on them. They mark defects (section 5) that the properties leave out, because
what follows from them is lost for good, or until a self IP is made again: `blind` has
the networks that a request released without their route domain; `stale` those of
which a device released the self IP and kept the tenant's cache entry; `guessed` the
tenants for which `rds_cache` did not say in which domain a device has a network;
`missed` those for which it lacked something that a device has.

A network has one subnet. It is a VLAN, or flat (without a segmentation id), and flat
networks are common: on one that is not, `get_neutron_net_short_name` raises in the
annotation, so no address ever gets there. A device's addresses are one per load
balancer and network; SNAT pools are the tenant's. In the network of a load balancer
the VIP and the members are not distinguished.

### Abstractions

Each is a limit of what the runs show.

- In `ServiceHandler` a phase is atomic over the devices: other threads do not
  run between the call to one device and the call to the next. The failures in
  between are there. In `TenantNetwork` the same holds of a call that goes over
  the devices, except that `Connect` is one device at a time.
- A report reaches Neutron at once and in order. The requests of the tenant do
  not; they wait in the queue with the snapshot of their time.
- In `ServiceHandler` and `AgentManager`: one load balancer, one object of each
  kind, one tenant. The partition of the tenant belongs to it.
- What a device refuses, and what Neutron does with a status, is external: it is
  modelled from the order and the error handling that the code expects.
  `get_pending_loadbalancers` of the plugin is taken to include what is in
  PENDING_DELETE.
- In `AgentManager`, `service_exists`, `service_timeout` and the whole orphan
  purge are one step each; the last one waits until no request is running.
  `OrphanPurge` has it call by call.
- In `ServiceHandler` and `AgentManager` a device is active or not, and the
  network is a call that may fail: see `DeviceConnection` and `TenantNetwork`.
- In `TenantNetwork` a route domain is in `rds_cache` by the networks entered for it. The
  empty entry that an `update_rds_cache` leaves when it fails at the first VLAN of a
  domain, which only counts towards `max_namespaces_per_tenant`, is left out.

## 3. Runs

Bounds: `MaxFaults` counts failures of the environment (a phase with any number
of failing devices, a lost device, a lost cast, a restart, a failed read are one
each); `MaxOps` counts operations of the tenant (in `TenantNetwork`, requests);
`MaxResets` counts flushed caches and restarts there. Nothing else is bounded.

| run | instance | distinct states | shows |
|---|---|---|---|
| `service_queue` | 4 threads, no bound on calls | 1,641 | calls run one at a time, in order |
| `handler_listeners` | 2 devices, load balancer, listener, pool; 1 failure | 194,000 | types; reports are true, a sync restores |
| `handler_pools` | 2 devices, load balancer, pool, member, monitor; 1 failure | 1,348,000 | reports are true and answer the service, a sync restores |
| `agent_faults` | 1 device, load balancer and listener; 2 failures, 1 operation | 62,000 | the agent settles and converges |
| `agent_devices` | 2 devices, load balancer, pool, member; 1 failure, 2 operations | 223,000 | both devices converge; reports are true and answer their service; a sync restores |
| `device_connection` | five configurations of 1 to 3 devices, 2 threads; 2 failures | 372,000 | what is active was prepared and validated; errors are retried; reports converge |
| `orphan_purge` | 2 load balancers with everything, 2 devices; 1 failure, 2 operations | 137,000 | only orphans are purged, and all of them |
| `tenant_network` | 3 load balancers of 2 tenants on 5 networks, one of them flat, 2 devices, 1 or 2 namespaces; 1 failure, 1 flush or restart, 3 requests | 1,905,000 | addresses stay connected, overlapping subnets and tenants stay apart, the cache is true |
| `agent_cache_expiry`, `agent_pending_timeout`, `agent_attached_pool`, `orphan_policy` | small | | disagreements, section 5 |

**ServiceQueue.** `MutualExclusion` and `EveryRequestRuns` are what the
decorator is for. `QueueIsCallers` is why `pop(0)` removes the right entry, and
`RememberedIndexIsSafe` why an index that is old when it is used does no harm:
the list moves only towards the thread. `ImplementsLock` is the refinement,
with its liveness. Four threads are one running, one at its turn with an old
index and two in the tail; the proofs remove the bound.

**ServiceHandler.** `ReportIsTrue`: when no failure was swallowed, what is
reported ACTIVE is on every device that was active from begin to end, and what
is reported DESTROYED is not. `swallowed` is true only of requests in which the
code itself drops a failure (an exception that ends the handler and is logged, such
as that of a node that cannot be deleted with its pool,
the HTTP error in `VirtualAddress.create`, a `KeyError` for a device that joined
after the hints were built); such a report can be wrong, and what becomes of it
is the subject of `ActiveIsDeployed`. Two exceptions are part of the property,
both of a member that is reported DESTROYED and stays in its pool: the pool could
not be written, and the load balancer is in ERROR; or the pool was to go with it,
and could not be deleted (section 5).
`ReportAnswersSnapshot`: the handler writes into the service it was given (the
target of a request is set to pending again, a member of a deleted pool is
marked, errors are entered), and what it sends is read from there; still an object
is reported destroyed only when it was in PENDING_DELETE in the service that the
handler began with, and ACTIVE only when it was in one of the other two.
`SyncRestoresService`: a sync in which nothing failed ends with every object
that is not to be deleted on every device, with the references between them,
whatever the devices held before. It depends on the order of the phases, on what
devices refuse and on `sync_status`. Two devices are needed for the error of one
beside the success of the other, and more do not add a case, as a phase treats
them independently; requests follow each other without a bound, so that content
left by one is found by the next and `to_sync` outlives a request that raised.

**AgentManager.** `PendingIsSettled`: a tree does not stay locked for ever.
`ActiveIsDeployed`: what Neutron calls ACTIVE is, from some point on, on every
active device, although failures were swallowed, snapshots were old, and the
cache hides the load balancer from validation. `DestroyedIsPurged`: what Neutron
does not know any more goes from the active devices, unless an object that
Neutron knows refers to it (see 5). The last two have the premise that the timer
is again and again consumed (`[]<>~timer_due`): without it they are false, as the
cache is then never thrown away (see 5); for the clusterwide agent the purge has
the premise `GlobalAgent`, as no other agent purges. `ReportIsTrue`,
`ReportAnswersSnapshot` and `SyncRestoresService` are checked under the agent too,
where the service is a snapshot of any age, what a device holds was left there by
requests, purges and restarts, and the environment of the handler is the queue
and the database and no longer a free choice.
`agent_faults` has two failures, so that one can hit the repair of the other;
`agent_devices` has two operations, so that the second request may be issued
while a restart or a sync overtakes the first, and a pool with a member, whose
removal depends on each other.

**DeviceConnection.** `ActiveIsPrepared`: requests use caches that `_init_bigip`
puts into the object of a device, and two threads may initialise a device at the
same time, each with an object of its own. `ActivationFollowsValidation`: a device
becomes active only from `validating_HA`: neither the other thread nor the heartbeat
wrote the status of the registered object, or replaced the object, since the
validation wrote it. What they wrote before is overwritten: a thread that found the
failover state unknown goes on, and may make a device active that the other thread
has just begun to open again, since the object is replaced only when it is opened.
`ErrorsAreRetried`: whatever failed, a
device does not stay in error, unless a device before it in the dictionary
raises in every round (see 5), which is the property's premise. `StateConverges`:
`operational` is computed in some branches only, and calls to the plugin fail in
three ways; in the end an active device makes the driver operational, the record of
the agent agrees with it, and the plugin does not take an agent for up that is down.
That it takes an agent that is up for up is promised only if the last call did not
fail (see 5). `ActivationIsFollowedByResync`: a device that was away missed
requests; a resync is asked for, unless the loop raised behind its activation
(`unannounced`, see 5). Two failures let one hit the recovery from the other;
three devices give `scalen`, and the order of the dictionary against that of the
names.

**OrphanPurge.** `KnownTreeIsKept`: the lists are old when they are acted on, and
load balancers are purged with their virtual servers and folders with all they
have; still nothing that Neutron knows goes from a device that has its load
balancer. Exempt are policies (`orphan_policy`) and monitors that no pool uses,
which go without a question to Neutron; where the address itself is missing
(a deployment that failed half-way), the folder of a known tenant may be purged,
and a later sync writes it again. `OrphansGo`: when the tenant rests, orphans go,
although a device refuses what is in use, calls fail and rounds end early; the
exceptions (`Held`) are the orphans that the code does not reach (see 5). Two load
balancers are needed for what belongs to one and is purged with the other, two
devices for an object that is listed on one of them, two operations for one that
creates while another is purged.

**TenantNetwork.** `AddressIsConnected`: an address is in a route domain, and its
VLAN and self IP are in the same one, whatever calls failed before, on each
device, unless the tenant is in `guessed` or the network in `blind` or, on this
device, in `stale`. `CacheIsTrue`: a subnet that is cached
as assured is not looked at again, so its self IP must not go, with the last user
of another tenant for instance. It is removed from the cache in the first half of a
release and again in the second: either half may fail, and only where both do
(`stale`) the cache is wrong. `TenantsAreApart`: subnets of different tenants
may have the same addresses, so what is on a tenant's own networks is never in a
route domain with what is on another tenant's, on no two devices, although ids are
taken from the lowest that is free on all devices, are given back with the
tenant, and are remembered by caches; for addresses, unless the tenant is in
`guessed` or the network in `stale`. `OverlapIsSeparated`: addresses of overlapping
subnets are in different route domains, if the tenant may have more than one and
is in neither `guessed` nor `missed`. The three requests let a load balancer move
between networks while another stays, and a second tenant use the shared network
and a network of its own; three networks that overlap pairwise exceed the limit of
two namespaces. The
proofs (section 6) remove the bounds.

## 4. Fairness

- `WF(Driver)`: a driver method returns, because every device call has a timeout
  (`constants_v2.DEVICE_CONNECTION_TIMEOUT`), and the queue's head is scheduled
  (shown in `ServiceQueue`, from weak fairness of its sleeping threads).
- `WF(Periodic)`: `F5AgentService.start` adds a timer that runs the periodic
  tasks for ever, one at a time.
- `WF(TimerExpires)`: time passes.
- `SF(RecoverDevice(d))`: `recover_errored_devices` runs on the same thread as
  `periodic_resync` and is enabled only between two rounds, infinitely often; a
  device that can be reached is recovered in one of them (`ErrorsAreRetried` of
  `DeviceConnection`). The code has statuses from which it does not recover a
  device (section 5), so the liveness properties hold for devices that are not in
  one.
- `DeviceConnection`: `WF(TimerStep)`, since the timer of `F5AgentService.start`
  runs its tasks for ever and every device call has a timeout;
  `WF(ConnectStep("request"))`, since a request that began to connect goes on;
  `WF(Heartbeat(FALSE))`, since the heartbeat has a timer of its own. A request
  need not come (`StartConnect("request")`), and failures are bounded.
- `OrphanPurge`: `WF(Purge)`, since `periodic_resync` begins a round again and
  again; `WF(Deploy)` of each object, since the queue runs every request;
  `WF(ForeignAddress)`, since another agent finishes what it began.
- `TenantNetwork` states no fairness: its properties are safety properties.
- Nothing is assumed of the tenant, of failures, restarts, `ReportState`, or of
  `service_timeout` winning over a repair.

## 5. What the code does otherwise

Each is a run that TLC finds violated, and a finding in `PROJECT.json`.

- `agent_cache_expiry`: the option `service_resync_interval` is to throw the
  cache away. `periodic_resync` looks at the interval only if no resync was
  requested, and an agent that is not the clusterwide agent requests one at the
  end of every round.
- `agent_pending_timeout`: the option `f5_pending_services_timeout` is to put a
  pending service into error. `_update_loadbalancer_status` reports a load
  balancer in PENDING_UPDATE as ACTIVE on timeout, and only one in
  PENDING_CREATE as ERROR; of its children only members are reported ERROR.
- `agent_attached_pool`: a pool that Neutron does not know is to be removed from
  the device. When it was reported destroyed while no device was active, its
  listener still refers to it, the device refuses the deletion, the purge logs
  that, and nothing writes the listener again: `service_exists` does not look at
  references. `DestroyedIsPurged` therefore leaves out what is in use.
- `orphan_policy`: the purge of policies is to delete the policies "from the
  deleted listeners". `purge_orphaned_l7_policys` passes `li_id`, the variable of
  a loop that has ended: another listener loses its policies, which Neutron knows.

The following were met while modelling. No run is violated by them, because no
line of the repository promises the contrary or the models name them as an
exception; each is in the model and can be seen by removing that exception.

Device connections (`icontrol_driver.py`):

- An exception between the connection and activation leaves a device in
  `initializing` or `validating_HA` (634). Both loops look at `creating` and
  `error` only, so it is never opened again. Likewise a device whose turn did not
  come stays in `creating` when another one makes the driver operational (567-610
  and `connect_driver`), because the recovery looks at `error` only.
- One device that raises ends the loop (667): those behind it in the dictionary
  are not recovered in that round, nor in any later one while it raises.
- A device is active before `_post_init`. If that raises, or a later device in
  the loop does, no resync is asked for, and the device keeps what it had.
- `_report_state` (`agent_manager.py:439-448`) does not look at what
  `set_agent_admin_state` returns. When the delivery of an up-report fails, the agent
  records that it is up, never reports it again, and the plugin goes on taking it for
  down until the agent has been down once more. The same holds of a down-report that
  the plugin heard, but that raised: the record still says up, so no up-report follows.
- `operational` is computed when the agent's status is set: a device in error may
  be overwritten by `validating_HA` and become active without it (587); the next
  report repairs it.
- A `pair` or `scalen` with one configured address looks the others up and gets
  `[None, None]`; the module's assumption excludes it.

Orphan purge:

- When the answer to the question for policies is lost, it reads as "no policy is
  known", and every policy in use is purged.
- A policy that the device refuses to delete ends the round: the `except` at
  `icontrol_driver.py:1415-1427` refers to a name that is not bound. Pools and
  monitors are then never reached.
- Load balancers that appear during the delay are listed without `hostnames`,
  which is a `KeyError` later; the round ends.
- Monitors are purged whenever no pool uses them, also when Neutron knows them.
- `purge_orphaned_nodes` uses the network builder, which is `None` in global
  routed mode, and keeps `node_dict` across devices and tenants.

Network:

- A request that deletes and fails before the annotation goes on without route
  domains: `_ips_exist_on_subnet` finds nobody, and the self IP that another load
  balancer of the tenant uses is released (`blind`). The same happens when
  `get_snatpool_member_use_count` raises: what was found to be in use is lost.
- The second half of a release deletes the self IP and then makes four more calls in
  one `try` (`network_service.py:801-831`): `unbind_address`, `delete_bigip_network`,
  `remove_from_rds_cache`, and only then the subnet leaves the device's cache. The
  first half, which removes it too, does not when the SNAT pool cannot be read
  (`snats.py:271-284`). After both, the subnet is cached and its self IP is gone; the
  next load balancer of the tenant gets an address without a self IP (`stale`), until
  the cache is flushed. For a flat network `remove_from_rds_cache` always raises
  (572), so one failure is enough; for others it takes two, or an outage of
  `l3_binding`. `assured_networks` likewise may keep a network whose VLAN is gone.
- No address gets on a flat network that is not common: `get_neutron_net_short_name`
  raises in the annotation (572).
- Whether another tenant uses a shared network is known from the device's cache
  only; a flushed cache says no. The properties speak of a tenant's own networks
  and of what is cached.
- Tenants or domains that were created on some devices only make the devices
  differ in their ids, since each takes the next free one of that moment; the
  cache holds one. A VLAN without self IP is cached without its subnet (`guessed`).
- `rds_cache` forgets, or never learns, where a tenant's networks are (`missed`):
  `update_rds_cache` that fails half-way leaves an entry that is taken for
  complete; an entry goes when the first device releases the network, while
  another device still has an address there; a domain that a cleanup deleted is
  still named, and its id can be given to another; networks that overlap and were
  left in one domain are read back after a restart.
- With `max_namespaces_per_tenant` = 1 no overlap is looked for, although
  `f5-openstack-agent.ini:378-383` says that the service is then put into error.
- Route domains that were created for a network and not used are not deleted
  before the tenant is; an id that was deleted stays in the cache.
- A failure of `assure_tenant_created` in a request that deletes ends in an
  unbound `all_subnet_hints`.

- The cache of a tenant may name a domain that is gone, and the id may have been
  given to another tenant since. One way needs a restart: the first fill of
  `rds_cache` fails half-way and the tenant counts as known; its network is placed
  in a new domain although a device has it in another; the load balancer is
  deleted, its release fails and the self IP stays; `Cleanup` deletes the empty
  domain and another tenant gets its id. The next load balancer on that network
  finds the self IP, is annotated with the old id, and has its address in the other
  tenant's domain. With 1 device, 7 requests, 3 failures and 1 restart TLC finds
  this when the exception for `guessed` is taken out of `TenantsAreApart`.

Agent:

- A request that waited may report on statuses that a later operation set, and so
  unlock a tree whose later operation is still in the queue. The services fetched
  then have statuses that the lock is to rule out, such as a pool and its member
  both in PENDING_DELETE.
- A sync of such a service in which the device refuses to delete the pool sets the
  pool to ERROR, and reports its member DESTROYED while both are on the device:
  `_assure_members` skips a member in PENDING_DELETE, which the write of its pool is
  to take out, but a pool that is to be deleted is not written; the member keeps
  its status, which reads as done. This is the second exception of
  `ReportIsTrue`; without it the property is violated with 1 device, a load
  balancer, pool and member, 3 operations and 3 failures.

## 6. Proofs

All theorems hold for any set of threads, devices, load balancers, tenants and
networks, any kinds of objects and any bounds. `tlapm` checks every leaf.
Assumptions are those of the modules: `NoThread` is not a thread; the tenant's
kinds are kinds and include the load balancer; bounds are natural numbers
(`BoundsAssumption`, `MaxOpsAssumption`); devices are finitely many numbers and
configurations are records of their type, with as many hosts as the HA type asks
for (`DevicesAssumption`); a network belongs to a tenant or is common, flat ones are
common, and load balancers are on networks of their tenant or common ones, what overlaps is two
networks of one tenant, and there is a load balancer
(`TenantNetworkAssumption`).

`ServiceQueue_proofs`. The inductive invariant is `TypeOK /\ QueueIsCallers /\
RememberedIndexIsSafe`; mutual exclusion is not inductive alone, since a thread
that starts is known to be the head only through the index it remembers
(`StarterIsHead`). From it: `QueueMutualExclusion`, `QueueRememberedIndex`,
`QueueHoldsCallers`, and `QueueImplementsLock`, where `Enqueue` maps to
`Request`, `Start` to `Acquire`, `Finish` to `Release` and `Reread` to a stutter.

`ServiceHandler_proofs`.

- `HandlerTypes` is the type invariant.
- `HandlerReports` proves `ReportIsTrue`. A report is made long after the device
  calls it speaks of, so the invariant `ReportInv` says of each phase what has
  been done by then: from the phase after its own on, an object that is still in
  PENDING_CREATE or PENDING_UPDATE is on the devices that stayed, and one in
  PENDING_DELETE is not (`Assured`). It also needs that a member that is created
  is in a pool that stays (`PoolOfMember`), and that the pool of a member that
  goes is written before the members are looked at (`MemberLeavesPool`), which
  holds because `update_member` and its siblings set the pool to PENDING_UPDATE,
  and because a sync also writes pools that are ACTIVE or in ERROR.
- `HandlerRestores` proves `SyncRestoresService`. `SyncInv` follows the sync
  phase by phase: `to_sync` is set, all active devices were there from the
  beginning and have hints, the statuses are those of the snapshot until the
  phase that may change them, and each finished phase has restored its objects;
  what a later phase needs on the device was written by an earlier one.

- `HandlerAnswers` proves `ReportAnswersSnapshot`. `AnswerInv` relates the two
  services: until the report, a status is that of the snapshot, or ERROR, or, for
  the target of a request, what the driver's method wrote over it.

These three are theorems about `HandlerSpec`, in which a request may come with any
service that Neutron can send (`Services`, `Snapshots`).

`AgentManager_proofs`. `AgentTypes`: every step of the agent keeps the types,
those of the handler included; for a handler's step the theorem of the handler is
used, with services of any time in the queue. `AgentReports`, `AgentRestores` and
`AgentAnswers` carry the three safety properties of the handler over to the agent.
The steps of the handler are the same, so its step lemmas are used as they are;
what has to be shown is that every service with which the agent begins is one for
which they hold. The invariant `AgentInv` is that of the handler (`DriverInv`) and
that each request in the queue carries a tree (`QueueOfTrees`: what hangs from an
absent pool is absent). It holds because `get_service_by_loadbalancer_id` builds
the service from the load balancer down (`ServiceIsTree`), whatever the database
holds, also when the lock has been lost as in section 5. A restart and a purge
leave the handler idle, where its invariants promise nothing of the devices.

`DeviceConnection_proofs`. `ConnectionActiveIsPrepared` proves `ActiveIsPrepared`.
Alone it is not inductive: a device becomes active several calls after it was
prepared, while the other thread may open it again. The invariant adds that a
thread that is past `_init_bigip` and holds the registered object of its device
has prepared it (`RegisteredIsPrepared`), and that a thread in a loop's body has
a device (`ThreadHasDevice`). A thread that opens a device takes the registration
from the other thread in the same step in which the device is no longer prepared.
`ConnectionActivation` proves the action property `ActivationFollowsValidation`. A
thread writes `active` one step after it wrote `validating_HA`, and the status is
shared: `WriterInv` adds that two threads never work with the registered object of
one device (`OneWriter`), and that `validating_HA` is there as long as the thread
that wrote it is about to activate (`ValidatingHolds`). The heartbeat writes to
active devices only, and a device that is opened again is taken from the thread
that held it.
`ConnectionTypes` is the type invariant.

`OrphanPurge_proofs`. `PurgeKeepsKnownTree` proves the action property
`KnownTreeIsKept`. What is purged was unknown when Neutron was asked, some calls
before; it is unknown still, because an id is not used twice: what was listed, is
on a device or waits is not fresh (`FreshIsNew`), so `Create` cannot make it known
again, and what is to be purged is unknown (`TodoIsUnknown`), except for policies
and monitors, which `ListsOneKind` tells apart. What goes along with a load
balancer is in its tree, and what Neutron knows of a tree has its root known
(`KnownIsClosed`). `PurgeTypes` is the type invariant.

`TenantNetwork_proofs`. `NetworkInvariant` is the invariant of the cached subnets,
with `SubnetHasSelfip` for those that are neither in `blind` nor, on the device, in
`stale`; a release that is cut short takes the self IP of a subnet that is still
cached only by entering it in `stale`, and a self IP that is made ends that. A subnet enters
the cache at the end of a request that has seen its self IP on each device in
turn (`Connected`), for which it must have been annotated with a route domain
(`Annotated`); between the call that removes a subnet from the cache and the one
that deletes its self IP no other tenant has it cached (`Released`). The next
domain id exists because the devices have finitely many domains
(`FiniteSetTheorems`).

`TenantDomains_proofs`. `NetworkOwners` is what holds of the devices whatever the
caches say: a domain's id is of one tenant (`DomainOfOne`), a VLAN is in a domain
of its network's owner (`VlanIsOwned`), a self IP is where its VLAN is
(`SelfipIsOnVlan`), and a request reaches the service only with each of its
networks annotated and with a self IP on every device (`Prepared`).
`NetworkTypes` is the type invariant. `NetworkAddressIsConnected` proves
`AddressIsConnected`. What a later request does to a network depends on where the
cache, the annotation and the other devices say it is; so the invariant
(`NetworkOneDomain`) is that, for a tenant that is not in `guessed`, all that
names the domain of a network names the same (`OneDomain`), and that an address
has a self IP unless its network is in `blind` or `stale` (`AddressHasSelfip`). What
`update_rds_cache` enters, complete or broken off, is a VLAN or a self IP of some
device (`EntriesFound`), in a domain of the tenant (`FoundIsOwned`).
`NetworkOwn` is about networks that are not shared, and needs neither `blind` nor,
for self IPs, `guessed`: such a subnet is cached for its owner only, together with
its self IP unless it is in `stale` (`OwnSubnets`, `OwnConnected`), none is in the
domain of Common (`OwnNotCommon`), and an address is in a domain that its device has, of the tenant
(`OwnAddresses`). With `NetworkOwners` it gives `NetworkTenantsAreApart`, which
proves `TenantsAreApart`: if two tenants had something in one domain, each would
have a domain with that id, against `DomainOfOne`. With `NetworkInvariant` it gives
`NetworkCacheIsTrue`, which proves `CacheIsTrue`.

`TenantOverlap_proofs`. `NetworkOverlapIsSeparated` proves `OverlapIsSeparated`. A
request looks for an overlap in the cache, not on the devices. The invariant
therefore says, of tenants that are in neither `guessed` nor `missed`, that every
address is in the cache (`AddressIsCached`), so is what a request was annotated
with and is yet to deploy (`AnnotatedIsCached`), and that the cache has no two
overlapping subnets in one domain (`CacheIsSeparated`). A new domain is safe
because what an entry names is on a device (`EntryHasDomain`), so that the next
free id is in no entry.

Only model-checked: liveness, which is beyond the prover (`EveryRequestRuns`, the
fair part of `ImplementsLock`, the temporal properties of `AgentManager`,
`DeviceConnection` and `OrphanPurge`). Every invariant and every action property
that a passing run checks is also proved.

## 7. Mutants

Every property of a passing run has a mutant: a slip that the code could have
had (`StartWithOneAhead`, `ErrorIfOnAll`, `ValidateErrorsOnly`,
`WrittenByHostname`, `PurgedWithAllListeners`, `StillAssured`, ...), defined next
to the definition it replaces, under which TLC finds the property violated.

## 8. Plan

Done: the modules of section 2. What is left, in this order:

1. `L7Policy`: the wrapper policy of a listener and its rules, with the two phases
   of the builder that `ServiceHandler` leaves out.
2. Tunnels and FDB entries (`l2_service.py`, `fdb_connector_ml2.py`): members that
   come and go, and the FDB updates that do not wait for the queue.
3. A second load balancer in `AgentManager`, which shares the cache and the queue.

### Not modelled, and why

- L7 policies other than their purge, SSL profiles, persistence, ESD files: their
  code translates one object into another and keeps no state of its own; failures
  of it are failures of a phase in `ServiceHandler`.
- Tunnels, FDB entries, gateways on subnets (`f5_snat_mode` off), vCMP hosts:
  further objects on the devices that follow the VLAN and self IP steps of
  `TenantNetwork`, or (FDB) belong to other nodes of the network.
- Statistics, capacity, `update_operating_status`, `scrub_dead_agents`: reads, and
  calls whose answer is not used by the rest.
- Certificates and Barbican, cluster queries: I/O; they are calls that may fail.
- Command line utilities: they are not part of the agent.
- An interval of a day or more (`agent_manager.py:546`), and `node_dict`
  (`icontrol_driver.py:1179`): hazards without a property; the first is a
  configuration, and the second needs several folders.
