--------------------------- MODULE DeviceConnection ---------------------------
(***************************************************************************)
(* The life of the driver's connections: iControlDriver opens each device,  *)
(* validates its high availability, initialises it and makes it active; the *)
(* heartbeat finds the ones that fail and a periodic task retries them.     *)
(*                                                                          *)
(* Two green threads connect: the timer's, which runs connect_driver and    *)
(* then recover_errored_devices, and a request's, which connects when the   *)
(* driver is not operational (is_operational).  A call to a device lets the *)
(* other thread run.  Opening a device makes a new object for it; a thread  *)
(* that still works on the object it replaced writes to that one.           *)
(***************************************************************************)
EXTENDS Integers, FiniteSets

CONSTANTS
    Devices,         \* the hostnames, integers in the order of sorted()
    Configurations,  \* records: ha_type, hosts, rank (the order of the dictionary
                     \* of devices) and broken, the devices that no initialisation passes
    MaxFaults        \* bound: failures of a device or of a call to the plugin

ASSUME DevicesAssumption ==
    /\ Devices \subseteq Nat
    /\ IsFiniteSet(Devices)
    /\ MaxFaults \in Nat
    /\ Configurations \subseteq [ha_type : {"standalone", "pair", "scalen"},
                                 hosts : SUBSET Devices,
                                 rank : [Devices -> Nat],
                                 broken : SUBSET Devices]
    /\ \A c \in Configurations :  \* else their addresses are looked up on the device
          /\ c.ha_type = "pair" => Cardinality(c.hosts) = 2
          /\ c.ha_type = "scalen" => Cardinality(c.hosts) >= 2

Threads == {"timer", "request"}

Statuses == {"unknown", "creating", "connecting", "initializing", "validating_HA",
             "active", "error"}

\* What becomes of a call of set_agent_admin_state: MessageDeliveryFailure is swallowed;
\* another exception ends the report, before the plugin heard of it or after.
Outcomes == {"delivered", "swallowed", "raised", "unanswered"}

VARIABLES
    config,
    status,          \* of the object that is registered for the device
    prepared,        \* devices whose registered object went through _init_bigip
    ha_validated,
    operational,
    admin_state_up,  \* the agent's record of what it told the plugin
    believed,        \* what the plugin heard last
    unconfirmed,     \* history: the last call to the plugin failed
    thread,          \* of each thread: where it is, what it runs, the devices it has
                     \* left, its device, and whether its object is the registered one
    unsynced,        \* devices made active since a resync was last asked for
    unannounced,     \* those among them that a loop left behind when it raised
    faults

stateVars == <<status, prepared, ha_validated>>
reportVars == <<operational, admin_state_up, believed, unconfirmed, unsynced>>
vars == <<config, stateVars, reportVars, thread, unannounced, faults>>

ActiveIn(st) == {d \in Devices : st[d] = "active"}
Errored == {d \in Devices : status[d] = "error"}

Resting == [at |-> "idle", runs |-> "connect", todo |-> {}, device |-> 0,
            registered |-> FALSE]

Thread == [at : {"idle", "next", "opening", "validate_ha", "init_bigip", "init_agent_config",
                 "configured", "validate_operational", "post_init"},
           runs : {"connect", "recover"}, todo : SUBSET Devices,
           device : Devices \cup {0}, registered : BOOLEAN]

Init ==
    /\ config \in Configurations
    /\ status = [d \in Devices |-> IF d \in config.hosts THEN "creating" ELSE "unknown"]
    /\ prepared = {}
    /\ ha_validated = FALSE
    /\ operational = FALSE
    /\ admin_state_up = TRUE
    /\ believed = TRUE
    /\ unconfirmed = FALSE
    /\ thread = [t \in Threads |-> Resting]
    /\ unsynced = {}
    /\ unannounced = {}
    /\ faults = 0

-------------------------------------------------------------------------------
(* Helpers.                                                                     *)

\* A failure costs one of the faults that a behaviour may have.
Costs(failure) ==
    /\ failure => faults < MaxFaults
    /\ faults' = IF failure THEN faults + 1 ELSE faults

\* Slip: the status is written to whatever object is registered for the hostname.
WrittenByHostname(t, s) == [status EXCEPT ![thread[t].device] = s]

\* The statuses after a thread wrote to the object that it holds.
Written(t, s) ==
    IF thread[t].registered THEN [status EXCEPT ![thread[t].device] = s] ELSE status

\* Slip: the agent is reported down, and never up again.
ReportedDownOnly(outcome, st, force_resync, up) ==
    /\ outcome # "delivered" => ~up
    /\ admin_state_up' = (admin_state_up /\ (up \/ outcome \in {"raised", "unanswered"}))
    /\ believed' = (believed /\ (up \/ outcome \in {"swallowed", "raised"}))
    /\ unconfirmed' = IF up THEN unconfirmed ELSE outcome # "delivered"
    /\ unsynced' = IF force_resync \/ ~up THEN {} ELSE unsynced \cap ActiveIn(st)

\* _report_state: a driver that is not operational needs a resync, and every report says
\* that it is down; that it is up is reported only if the last record is that it is down.
\* The record is written also when the call was swallowed.
Reported(outcome, st, force_resync, up) ==
    LET calls == ~up \/ ~admin_state_up IN
    /\ outcome # "delivered" => calls
    /\ admin_state_up' = IF outcome \in {"delivered", "swallowed"} THEN up ELSE admin_state_up
    /\ believed' = IF calls /\ outcome \in {"delivered", "unanswered"} THEN up ELSE believed
    /\ unconfirmed' = IF calls THEN outcome # "delivered" ELSE unconfirmed
    /\ unsynced' = IF force_resync \/ ~up THEN {} ELSE unsynced \cap ActiveIn(st)

\* _set_agent_status with the statuses st, after a failure or not.  The devices are polled
\* by the report too: that is the heartbeat that may come next.  One fault may fail both
\* the device and the report.
SetAgentStatus(fails, st, force_resync) ==
    \E outcome \in Outcomes :
        /\ Costs(fails \/ outcome # "delivered")
        /\ status' = st
        /\ operational' = (ActiveIn(st) # {})
        /\ Reported(outcome, st, force_resync, ActiveIn(st) # {})

\* The first of the devices left: in the order of the hostnames, or of the dictionary.
NextHost(t) ==
    LET left == thread[t].todo IN
    CHOOSE d \in left : \A e \in left :
        IF thread[t].runs = "connect" THEN d <= e ELSE config.rank[d] <= config.rank[e]

Move(t, at) == thread' = [thread EXCEPT ![t].at = at]

\* The timer alternates between its two tasks.
Rest(t) ==
    thread' = [thread EXCEPT ![t] =
                  [Resting EXCEPT !.runs = IF t = "timer" /\ thread[t].runs = "connect"
                                           THEN "recover" ELSE "connect"]]

\* An exception ends the loop.  connect() catches it and sets the agent's status; the
\* request's thread and the recovery only pass it on or log it.
Raise(fails, t, st) ==
    /\ Rest(t)
    /\ unannounced' = unannounced \cup unsynced
    /\ IF t = "timer" /\ thread[t].runs = "connect"
       THEN SetAgentStatus(fails, st, FALSE)
       ELSE Costs(fails) /\ status' = st /\ UNCHANGED reportVars

-------------------------------------------------------------------------------
(* The loops of _init_bigips and _init_errored_bigips.                          *)

StartConnect(t) ==
    /\ thread[t].at = "idle"
    /\ thread[t].runs = "connect"
    /\ ~operational
    /\ thread' = [thread EXCEPT ![t].at = "next", ![t].todo = config.hosts]
    /\ UNCHANGED <<config, stateVars, reportVars, unannounced, faults>>

\* connect_driver has nothing to do.
SkipConnect ==
    /\ thread["timer"].at = "idle"
    /\ thread["timer"].runs = "connect"
    /\ operational
    /\ Rest("timer")
    /\ UNCHANGED <<config, stateVars, reportVars, unannounced, faults>>

\* Slip: devices are retried only when none is active.
StartRecoveryWhenDown ==
    /\ thread["timer"].at = "idle"
    /\ thread["timer"].runs = "recover"
    /\ thread' = [thread EXCEPT !["timer"].at = "next",
                                !["timer"].todo = IF operational THEN {} ELSE Errored]
    /\ UNCHANGED <<config, stateVars, reportVars, unannounced, faults>>

StartRecovery ==
    /\ thread["timer"].at = "idle"
    /\ thread["timer"].runs = "recover"
    /\ thread' = [thread EXCEPT !["timer"].at = "next", !["timer"].todo = Errored]
    /\ UNCHANGED <<config, stateVars, reportVars, unannounced, faults>>

\* The device is neither new nor errored: it is left as it is.
OpenNothing(t) ==
    /\ thread[t].at = "next"
    /\ thread[t].todo # {}
    /\ status[NextHost(t)] \notin {"creating", "error"}
    /\ thread' = [thread EXCEPT ![t].todo = @ \ {NextHost(t)}]
    /\ IF thread[t].runs = "connect"
       THEN SetAgentStatus(FALSE, status, FALSE)
       ELSE UNCHANGED <<status, reportVars, faults>>
    /\ UNCHANGED <<config, prepared, ha_validated, unannounced>>

Open(t) ==
    /\ thread[t].at = "next"
    /\ thread[t].todo # {}
    /\ status[NextHost(t)] \in {"creating", "error"}
    /\ status' = [status EXCEPT ![NextHost(t)] = "connecting"]
    /\ thread' = [thread EXCEPT ![t].at = "opening",
                                ![t].device = NextHost(t),
                                ![t].todo = @ \ {NextHost(t)}]
    /\ UNCHANGED <<config, prepared, ha_validated, reportVars, unannounced, faults>>

FinishConnect(t) ==
    /\ thread[t].at = "next"
    /\ thread[t].todo = {}
    /\ thread[t].runs = "connect"
    /\ Rest(t)
    /\ SetAgentStatus(FALSE, status, TRUE)
    /\ UNCHANGED <<config, prepared, ha_validated, unannounced>>

FinishRecovery(t) ==
    /\ thread[t].at = "next"
    /\ thread[t].todo = {}
    /\ thread[t].runs = "recover"
    /\ Rest(t)
    /\ UNCHANGED <<config, stateVars, reportVars, unannounced, faults>>

-------------------------------------------------------------------------------
(* One device.  Its object replaces the one that other threads may hold.        *)

Opened(t, fails) ==
    LET d == thread[t].device
        others == [u \in Threads |-> IF thread[u].device = d /\ u # t
                                     THEN [thread[u] EXCEPT !.registered = FALSE]
                                     ELSE thread[u]]
    IN  /\ thread[t].at = "opening"
        /\ prepared' = prepared \ {d}
        /\ thread' = [others EXCEPT ![t].at = IF fails THEN "next" ELSE "validate_ha",
                                    ![t].registered = TRUE]
        /\ IF fails /\ thread[t].runs = "connect"
           THEN SetAgentStatus(TRUE, [status EXCEPT ![d] = "error"], FALSE)
           ELSE /\ Costs(fails)
                /\ status' = [status EXCEPT ![d] = IF fails THEN "error" ELSE "initializing"]
                /\ UNCHANGED reportVars
        /\ UNCHANGED <<config, ha_validated, unannounced>>

\* _validate_ha and _init_traffic_groups, once for all devices.
HostsAreRefused == config.ha_type = "standalone" /\ Cardinality(config.hosts) # 1

ValidateHA(t) ==
    /\ thread[t].at = "validate_ha"
    /\ ha_validated \/ ~HostsAreRefused
    /\ Move(t, "init_bigip")
    /\ ha_validated' = TRUE
    /\ UNCHANGED <<config, status, prepared, reportVars, unannounced, faults>>

RefuseHosts(t) ==
    /\ thread[t].at = "validate_ha"
    /\ ~ha_validated
    /\ HostsAreRefused
    /\ Raise(FALSE, t, Written(t, "error"))
    /\ UNCHANGED <<config, prepared, ha_validated>>

\* A call to the device raises: the device keeps the status it has.
ValidationRaises(t) ==
    /\ \/ thread[t].at = "validate_ha" /\ ~ha_validated
       \/ thread[t].at = "init_agent_config"
       \/ thread[t].at = "validate_operational" /\ ActiveIn(status) # {}
    /\ Raise(TRUE, t, status)
    /\ UNCHANGED <<config, prepared, ha_validated>>

InitBigip(t) ==
    /\ thread[t].at = "init_bigip"
    /\ thread[t].device \notin config.broken
    /\ prepared' = IF thread[t].registered THEN prepared \cup {thread[t].device} ELSE prepared
    /\ Move(t, "init_agent_config")
    /\ UNCHANGED <<config, status, ha_validated, reportVars, unannounced, faults>>

\* Any exception in _init_bigip marks the device before it is raised again.
InitBigipRaises(t) ==
    /\ thread[t].at = "init_bigip"
    /\ Raise(thread[t].device \notin config.broken, t, Written(t, "error"))
    /\ UNCHANGED <<config, prepared, ha_validated>>

\* Slip: a status that no other code knows.
InitAgentConfigMisspelled(t) ==
    /\ thread[t].at = "init_agent_config"
    /\ Move(t, "validate_operational")
    /\ status' = Written(t, "validating_ha")
    /\ UNCHANGED <<config, prepared, ha_validated, reportVars, unannounced, faults>>

\* _init_agent_config.  A failover state that cannot be read marks the device in error.
InitAgentConfig(t) ==
    /\ thread[t].at = "init_agent_config"
    /\ Move(t, "validate_operational")
    /\ status' = Written(t, "validating_HA")
    /\ UNCHANGED <<config, prepared, ha_validated, reportVars, unannounced, faults>>

FailoverStateIsUnknown(t) ==
    /\ thread[t].at = "init_agent_config"
    /\ Move(t, "configured")
    /\ SetAgentStatus(TRUE, Written(t, "error"), FALSE)
    /\ UNCHANGED <<config, prepared, ha_validated, unannounced>>

\* The status that get_failover_state wrote is overwritten.
Configured(t) ==
    /\ thread[t].at = "configured"
    /\ Move(t, "validate_operational")
    /\ status' = Written(t, "validating_HA")
    /\ UNCHANGED <<config, prepared, ha_validated, reportVars, unannounced, faults>>

\* _validate_ha_operational.
BecomeActive(t) ==
    /\ thread[t].at = "validate_operational"
    /\ Move(t, "post_init")
    /\ status' = Written(t, "active")
    /\ unsynced' = unsynced \cup (ActiveIn(status') \ ActiveIn(status))
    /\ unannounced' = unannounced \ {thread[t].device}
    /\ UNCHANGED <<config, prepared, ha_validated, operational, admin_state_up, believed,
                   unconfirmed, faults>>

\* The device is out of sync with several active ones, or in another group.
IsNotOperational(t) ==
    /\ thread[t].at = "validate_operational"
    /\ config.ha_type # "standalone"
    /\ Cardinality(ActiveIn(status)) > 1
    /\ Move(t, "next")
    /\ SetAgentStatus(TRUE, Written(t, "error"), FALSE)
    /\ UNCHANGED <<config, prepared, ha_validated, unannounced>>

\* Slip: the recovery does not ask for a resync either.
PostInitWithoutResync(t) ==
    /\ thread[t].at = "post_init"
    /\ Move(t, "next")
    /\ SetAgentStatus(FALSE, status, FALSE)
    /\ UNCHANGED <<config, prepared, ha_validated, unannounced>>

\* _post_init, and what follows it: only the recovery asks for a resync here.
PostInit(t) ==
    /\ thread[t].at = "post_init"
    /\ Move(t, "next")
    /\ SetAgentStatus(FALSE, status, thread[t].runs = "recover")
    /\ UNCHANGED <<config, prepared, ha_validated, unannounced>>

\* A call to the plugin raises after the device was made active.
PostInitRaises(t) ==
    /\ thread[t].at = "post_init"
    /\ Raise(TRUE, t, status)
    /\ UNCHANGED <<config, prepared, ha_validated>>

-------------------------------------------------------------------------------
(* The heartbeat: only active devices are polled.                               *)

Heartbeat(outcome) ==
    /\ Costs(outcome # "delivered")
    /\ Reported(outcome, status, FALSE, operational)
    /\ UNCHANGED <<config, stateVars, operational, thread, unannounced>>

PollFails(d) ==
    /\ status[d] = "active"
    /\ SetAgentStatus(TRUE, [status EXCEPT ![d] = "error"], FALSE)
    /\ UNCHANGED <<config, prepared, ha_validated, thread, unannounced>>

-------------------------------------------------------------------------------
ConnectStep(t) ==
    \/ OpenNothing(t)
    \/ Open(t)
    \/ FinishConnect(t)
    \/ FinishRecovery(t)
    \/ Opened(t, FALSE)
    \/ ValidateHA(t)
    \/ RefuseHosts(t)
    \/ InitBigip(t)
    \/ thread[t].device \in config.broken /\ InitBigipRaises(t)
    \/ InitAgentConfig(t)
    \/ Configured(t)
    \/ BecomeActive(t)
    \/ PostInit(t)

ConnectFails(t) ==
    \/ Opened(t, TRUE)
    \/ ValidationRaises(t)
    \/ thread[t].device \notin config.broken /\ InitBigipRaises(t)
    \/ FailoverStateIsUnknown(t)
    \/ IsNotOperational(t)
    \/ PostInitRaises(t)

TimerStep == StartConnect("timer") \/ SkipConnect \/ StartRecovery \/ ConnectStep("timer")

Next ==
    \/ TimerStep
    \/ StartConnect("request")
    \/ ConnectStep("request")
    \/ \E t \in Threads : ConnectFails(t)
    \/ \E outcome \in Outcomes : Heartbeat(outcome)
    \/ \E d \in Devices : PollFails(d)

Fairness == WF_vars(TimerStep) /\ WF_vars(ConnectStep("request")) /\ WF_vars(Heartbeat("delivered"))

Spec == Init /\ [][Next]_vars /\ Fairness

-------------------------------------------------------------------------------
\* Every variable has its type: a device's status is one of those that the driver's
\* branches compare with.
TypeOK ==
    /\ config \in Configurations
    /\ status \in [Devices -> Statuses]
    /\ prepared \subseteq Devices
    /\ ha_validated \in BOOLEAN
    /\ operational \in BOOLEAN
    /\ admin_state_up \in BOOLEAN
    /\ believed \in BOOLEAN
    /\ unconfirmed \in BOOLEAN
    /\ thread \in [Threads -> Thread]
    /\ unsynced \subseteq Devices
    /\ unannounced \subseteq Devices
    /\ faults \in 0..MaxFaults

\* The object through which requests reach an active device has gone through
\* _init_bigip, which gives it the caches they use, although another thread may have
\* replaced it while this one was initialising its predecessor.
ActiveIsPrepared == ActiveIn(status) \subseteq prepared

\* A device becomes active only from the status that the validation wrote: nobody wrote the
\* status of the registered object, nor replaced the object, between _init_agent_config and
\* the end of _validate_ha_operational.  A status that was written before, by the heartbeat,
\* by get_failover_state or by a thread that has begun to open the device again, is
\* overwritten by the validation and does not keep the device from becoming active.
ActivationFollowsValidation ==
    [][\A d \in ActiveIn(status') \ ActiveIn(status) : status[d] = "validating_HA"]_vars

\* A device does not stay in error: when no more calls fail, the recovery opens it again,
\* unless a device before it in the dictionary raises in every round.
ErrorsAreRetried ==
    \A d \in Devices :
        ~HostsAreRefused /\ (\A e \in config.broken : config.rank[d] < config.rank[e])
            => <>[](status[d] \notin {"error", "connecting"})

\* `operational` is written in some branches only, and calls to the plugin fail: in the end
\* a driver with an active device is operational again, the agent's record agrees with it,
\* and the plugin takes no agent for up that is down.  An agent that is up is taken for up
\* as well, unless the last call failed: an up-report that was swallowed is recorded as
\* told, and a down-report that was heard, but not recorded, needs no up-report after it.
StateConverges ==
    <>[](/\ ActiveIn(status) # {} => operational
         /\ admin_state_up = operational
         /\ believed => operational
         /\ unconfirmed \/ believed = operational)

\* A device that becomes active again missed requests: the agent asks for a resync,
\* or the device fails again, unless an exception ended the loop in between.
ActivationIsFollowedByResync ==
    \A d \in Devices : d \in unsynced \ unannounced ~> d \notin unsynced \ unannounced
=============================================================================
