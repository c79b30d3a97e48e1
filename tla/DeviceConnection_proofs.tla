------------------------ MODULE DeviceConnection_proofs ------------------------
(***************************************************************************)
(* Proofs about the connections, for any devices, configurations and bounds. *)
(*                                                                           *)
(* A device is made active by a thread that works on the registered object,  *)
(* and that thread has prepared this very object: when another thread opened *)
(* the device since, the first one holds the object that was replaced.       *)
(***************************************************************************)
EXTENDS DeviceConnection, WellFoundedInduction, TLAPS

\* Where a thread has its device's object behind _init_bigip.
PastInit == {"init_agent_config", "configured", "validate_operational", "post_init"}

RegisteredIsPrepared ==
    \A t \in Threads :
        thread[t].at \in PastInit /\ thread[t].registered => thread[t].device \in prepared

\* Between two devices, or not in a loop at all.
Between == {"idle", "next"}

ThreadHasDevice == \A t \in Threads : thread[t].at \notin Between => thread[t].device \in Devices

IInv == TypeOK /\ ActiveIsPrepared /\ RegisteredIsPrepared /\ ThreadHasDevice

(* A set of natural numbers has a least element. *)
LEMMA LeastExists ==
    ASSUME NEW S \in SUBSET Nat, S # {}
    PROVE  \E x \in S : \A y \in S : x <= y
<1>1. PICK x \in S : \A y \in S : ~(<<y, x>> \in OpToRel(<, Nat))
  BY NatLessThanWellFounded, WFMin
<1>2. \A y \in S : ~(y < x)
  BY <1>1 DEF OpToRel
<1>3. \A y \in S : x <= y
  BY <1>2
<1> QED
  BY <1>3

(* NextHost is one of the devices left. *)
LEMMA NextHostIsLeft ==
    ASSUME TypeOK, NEW t \in Threads, thread[t].todo # {}
    PROVE  NextHost(t) \in thread[t].todo /\ NextHost(t) \in Devices
<1> DEFINE left == thread[t].todo
           order(d) == IF thread[t].runs = "connect" THEN d ELSE config.rank[d]
<1>1. left \subseteq Devices /\ left # {}
  BY DEF TypeOK, Thread
<1>2. \A d \in left : order(d) \in Nat
  BY <1>1, DevicesAssumption DEF TypeOK
<1>3. \E d \in left : \A e \in left : order(d) <= order(e)
  <2> DEFINE S == {order(d) : d \in left}
  <2>1. S \in SUBSET Nat /\ S # {}
    BY <1>1, <1>2
  <2> HIDE DEF order
  <2>2. PICK x \in S : \A y \in S : x <= y
    <3> HIDE DEF S
    <3> QED
      BY <2>1, LeastExists
  <2> QED
    BY <2>2
<1>4. NextHost(t) = CHOOSE d \in left : \A e \in left : order(d) <= order(e)
  BY DEF NextHost
<1> HIDE DEF left, order
<1>5. NextHost(t) \in left
  BY <1>3, <1>4
<1> QED
  BY <1>1, <1>5 DEF left

LEMMA InitInv == Init => IInv
<1> SUFFICES ASSUME Init PROVE IInv
  OBVIOUS
<1>1. Resting \in Thread
  BY DEF Resting, Thread
<1>2. thread \in [Threads -> Thread]
  BY <1>1 DEF Init
<1>3. status \in [Devices -> Statuses] /\ ActiveIn(status) = {}
  <2>1. /\ status \in [Devices -> Statuses]
        /\ \A d \in Devices : status[d] # "active"
    BY DEF Init, Statuses
  <2> QED
    BY <2>1 DEF ActiveIn
<1>4. TypeOK
  <2>1. config \in Configurations
    BY DEF Init
  <2>2. /\ prepared = {} /\ ha_validated = FALSE /\ operational = FALSE
        /\ admin_state_up = TRUE /\ believed = TRUE /\ unconfirmed = FALSE /\ unsynced = {} /\ unannounced = {} /\ faults = 0
    BY DEF Init
  <2>3. /\ ha_validated \in BOOLEAN /\ operational \in BOOLEAN /\ admin_state_up \in BOOLEAN
        /\ believed \in BOOLEAN /\ unconfirmed \in BOOLEAN
    BY <2>2
  <2>4. prepared \subseteq Devices /\ unsynced \subseteq Devices /\ unannounced \subseteq Devices
    BY <2>2
  <2>5. faults \in 0..MaxFaults
    BY <2>2, DevicesAssumption
  <2> QED
    BY <1>2, <1>3, <2>1, <2>3, <2>4, <2>5 DEF TypeOK
<1>5. RegisteredIsPrepared /\ ThreadHasDevice
  BY DEF Init, RegisteredIsPrepared, ThreadHasDevice, Resting, PastInit, Between
<1> QED
  BY <1>3, <1>4, <1>5 DEF IInv, ActiveIsPrepared

-------------------------------------------------------------------------------
(* What the steps have in common.                                               *)

\* The types of what a report writes.
ReportTypes ==
    /\ admin_state_up \in BOOLEAN /\ believed \in BOOLEAN /\ unconfirmed \in BOOLEAN
    /\ unsynced \subseteq Devices

LEMMA CostsType ==
    ASSUME TypeOK, NEW failure, Costs(failure)
    PROVE  faults' \in 0..MaxFaults
BY DevicesAssumption DEF TypeOK, Costs

LEMMA ReportedTypes ==
    ASSUME TypeOK, NEW outcome \in Outcomes, NEW st, NEW force \in BOOLEAN, NEW up \in BOOLEAN,
           Reported(outcome, st, force, up)
    PROVE  ReportTypes'
BY DEF TypeOK, ReportTypes, Reported, ActiveIn

LEMMA SetAgentStatusTypes ==
    ASSUME TypeOK, NEW fails, NEW st, NEW force \in BOOLEAN, SetAgentStatus(fails, st, force)
    PROVE  /\ status' = st /\ operational' \in BOOLEAN /\ ReportTypes'
           /\ faults' \in 0..MaxFaults
<1>1. PICK outcome \in Outcomes :
         /\ Costs(fails \/ outcome # "delivered")
         /\ status' = st
         /\ operational' = (ActiveIn(st) # {})
         /\ Reported(outcome, st, force, ActiveIn(st) # {})
  BY DEF SetAgentStatus
<1>2. (ActiveIn(st) # {}) \in BOOLEAN
  OBVIOUS
<1> QED
  BY <1>1, <1>2, CostsType, ReportedTypes

LEMMA RestType ==
    ASSUME TypeOK, NEW t \in Threads, Rest(t)
    PROVE  /\ thread' \in [Threads -> Thread]
           /\ thread'[t].at = "idle"
           /\ \A u \in Threads \ {t} : thread'[u] = thread[u]
<1>1. [Resting EXCEPT !.runs = IF t = "timer" /\ thread[t].runs = "connect"
                               THEN "recover" ELSE "connect"] \in Thread
  BY DEF Resting, Thread
<1> QED
  BY <1>1 DEF TypeOK, Rest, Resting, PastInit

LEMMA RaiseTypes ==
    ASSUME TypeOK, NEW fails, NEW t \in Threads, NEW st, Raise(fails, t, st)
    PROVE  /\ thread' \in [Threads -> Thread]
           /\ thread'[t].at = "idle"
           /\ \A u \in Threads \ {t} : thread'[u] = thread[u]
           /\ status' = st /\ operational' \in BOOLEAN /\ ReportTypes'
           /\ unannounced' \subseteq Devices
           /\ faults' \in 0..MaxFaults
<1>1. Rest(t) /\ unannounced' = unannounced \cup unsynced
  BY DEF Raise
<1>2. SetAgentStatus(fails, st, FALSE) \/ (Costs(fails) /\ status' = st /\ UNCHANGED reportVars)
  BY DEF Raise
<1>3. /\ status' = st /\ operational' \in BOOLEAN /\ ReportTypes'
      /\ faults' \in 0..MaxFaults
  BY <1>2, SetAgentStatusTypes, CostsType DEF TypeOK, ReportTypes, reportVars
<1> QED
  BY <1>1, <1>3, RestType DEF TypeOK

\* Writing a status gives statuses; only "active" can make a device active, and only the
\* thread's registered one.
LEMMA WrittenType ==
    ASSUME TypeOK, NEW t \in Threads, NEW s \in Statuses
    PROVE  /\ Written(t, s) \in [Devices -> Statuses]
           /\ s # "active" => ActiveIn(Written(t, s)) \subseteq ActiveIn(status)
           /\ ActiveIn(Written(t, s)) \subseteq
                 ActiveIn(status) \cup (IF thread[t].registered THEN {thread[t].device} ELSE {})
BY DEF TypeOK, Written, ActiveIn

LEMMA MoveType ==
    ASSUME TypeOK, NEW t \in Threads, Move(t, "next") \/ \E p \in PastInit \cup {"init_bigip"} : Move(t, p)
    PROVE  /\ thread' \in [Threads -> Thread]
           /\ \A u \in Threads \ {t} : thread'[u] = thread[u]
           /\ thread'[t].device = thread[t].device
           /\ thread'[t].registered = thread[t].registered
<1>1. PICK p \in PastInit \cup {"init_bigip", "next"} : thread' = [thread EXCEPT ![t].at = p]
  BY DEF Move
<1>2. [thread[t] EXCEPT !.at = p] \in Thread
  BY DEF TypeOK, Thread, PastInit
<1>3. thread' = [thread EXCEPT ![t] = [thread[t] EXCEPT !.at = p]]
  BY <1>1 DEF TypeOK
<1> QED
  BY <1>2, <1>3 DEF TypeOK, Thread

\* A step of a thread in which no object is replaced.
LEMMA ThreadStepInv ==
    ASSUME IInv, NEW t \in Threads, TypeOK',
           \A u \in Threads \ {t} : thread'[u] = thread[u],
           \/ thread'[t].at \in Between
           \/ thread'[t].at = "opening" /\ thread'[t].device \in Devices
           \/ /\ thread[t].at \notin Between
              /\ thread'[t].device = thread[t].device
              /\ thread'[t].registered = thread[t].registered
              /\ \/ thread'[t].at \notin PastInit
                 \/ thread[t].at \in PastInit
                 \/ thread[t].registered => thread[t].device \in prepared',
           prepared \subseteq prepared',
           ActiveIn(status') \subseteq ActiveIn(status) \cup prepared'
    PROVE  IInv'
BY DEF IInv, ActiveIsPrepared, RegisteredIsPrepared, ThreadHasDevice, PastInit, Between

LEMMA StartInv ==
    ASSUME IInv, NEW t \in Threads,
           StartConnect(t) \/ StartRecovery \/ SkipConnect
    PROVE  IInv'
<1>1. /\ UNCHANGED <<config, status, prepared, ha_validated, operational, admin_state_up,
                     believed, unconfirmed, unsynced, unannounced, faults>>
  BY DEF StartConnect, StartRecovery, SkipConnect, stateVars, reportVars
<1>2. PICK u \in Threads : /\ thread' \in [Threads -> Thread]
                           /\ thread'[u].at \in Between
                           /\ \A v \in Threads \ {u} : thread'[v] = thread[v]
  <2>1. CASE StartConnect(t)
    <3>0. config.hosts \in SUBSET Devices /\ thread[t] \in Thread
      BY DevicesAssumption DEF IInv, TypeOK
    <3>1. [thread[t] EXCEPT !.at = "next", !.todo = config.hosts] \in Thread
      BY <3>0 DEF Thread
    <3>2. thread' = [thread EXCEPT ![t] = [thread[t] EXCEPT !.at = "next", !.todo = config.hosts]]
      BY <2>1 DEF StartConnect, IInv, TypeOK
    <3> QED
      BY <3>1, <3>2 DEF IInv, TypeOK, Between, Thread
  <2>2. CASE StartRecovery
    <3>1. "timer" \in Threads
      BY DEF Threads
    <3>2. [thread["timer"] EXCEPT !.at = "next", !.todo = Errored] \in Thread
      BY <3>1 DEF IInv, TypeOK, Thread, Errored
    <3>3. thread' = [thread EXCEPT !["timer"] =
                        [thread["timer"] EXCEPT !.at = "next", !.todo = Errored]]
      BY <2>2 DEF StartRecovery, IInv, TypeOK
    <3> QED
      BY <3>1, <3>2, <3>3 DEF IInv, TypeOK, Between, Thread
  <2>3. CASE SkipConnect
    BY <2>3, RestType DEF SkipConnect, Threads, IInv, Between
  <2> QED
    BY <2>1, <2>2, <2>3
<1>3. TypeOK'
  BY <1>1, <1>2 DEF IInv, TypeOK
<1> QED
  BY <1>1, <1>2, <1>3, ThreadStepInv

LEMMA LoopInv ==
    ASSUME IInv, NEW t \in Threads,
           OpenNothing(t) \/ Open(t) \/ FinishConnect(t) \/ FinishRecovery(t)
    PROVE  IInv'
<1>1. CASE OpenNothing(t)
  <2>1. [thread[t] EXCEPT !.todo = @ \ {NextHost(t)}] \in Thread
    BY DEF IInv, TypeOK, Thread
  <2>2. thread' = [thread EXCEPT ![t] = [thread[t] EXCEPT !.todo = @ \ {NextHost(t)}]]
    BY <1>1 DEF OpenNothing, IInv, TypeOK
  <2>3. /\ thread' \in [Threads -> Thread] /\ thread'[t].at \in Between
        /\ \A u \in Threads \ {t} : thread'[u] = thread[u]
    BY <1>1, <2>1, <2>2 DEF OpenNothing, IInv, TypeOK, Between, Thread
  <2>4. /\ status' = status /\ operational' \in BOOLEAN /\ ReportTypes'
        /\ faults' \in 0..MaxFaults
        /\ UNCHANGED <<config, prepared, ha_validated, unannounced>>
    BY <1>1, SetAgentStatusTypes DEF OpenNothing, reportVars, IInv, TypeOK, ReportTypes
  <2>5. TypeOK'
    BY <2>3, <2>4 DEF IInv, TypeOK, ReportTypes
  <2> QED
    BY <2>3, <2>4, <2>5, ThreadStepInv
<1>2. CASE Open(t)
  <2> DEFINE next == [thread[t] EXCEPT !.at = "opening", !.device = NextHost(t),
                                       !.todo = @ \ {NextHost(t)}]
  <2>1. NextHost(t) \in Devices
    BY <1>2, NextHostIsLeft DEF Open, IInv
  <2>2. next \in Thread /\ next.at = "opening" /\ next.device \in Devices
    BY <2>1 DEF IInv, TypeOK, Thread
  <2>3. thread' = [thread EXCEPT ![t] = next]
    BY <1>2 DEF Open, IInv, TypeOK
  <2>4. /\ thread' \in [Threads -> Thread]
        /\ thread'[t].at = "opening" /\ thread'[t].device \in Devices
        /\ \A u \in Threads \ {t} : thread'[u] = thread[u]
    BY <2>2, <2>3 DEF IInv, TypeOK
  <2>5. /\ status' \in [Devices -> Statuses] /\ ActiveIn(status') \subseteq ActiveIn(status)
        /\ UNCHANGED <<config, prepared, ha_validated, operational, admin_state_up, believed,
                       unconfirmed, unsynced, unannounced, faults>>
    BY <1>2, <2>1 DEF Open, reportVars, IInv, TypeOK, Statuses, ActiveIn
  <2>6. TypeOK'
    BY <2>4, <2>5 DEF IInv, TypeOK
  <2> QED
    BY <2>4, <2>5, <2>6, ThreadStepInv
<1>3. CASE FinishConnect(t) \/ FinishRecovery(t)
  <2>1. Rest(t)
    BY <1>3 DEF FinishConnect, FinishRecovery
  <2>2. /\ status' = status /\ operational' \in BOOLEAN /\ ReportTypes'
        /\ faults' \in 0..MaxFaults
        /\ UNCHANGED <<config, prepared, ha_validated, unannounced>>
    BY <1>3, SetAgentStatusTypes DEF FinishConnect, FinishRecovery, reportVars, stateVars, IInv,
                                     TypeOK, ReportTypes
  <2>3. TypeOK'
    BY <2>1, <2>2, RestType DEF IInv, TypeOK, ReportTypes
  <2> QED
    BY <2>1, <2>2, <2>3, RestType, ThreadStepInv DEF IInv, Between
<1> QED
  BY <1>1, <1>2, <1>3

\* Opening replaces the object: other threads hold the old one from now on.
LEMMA OpenedInv ==
    ASSUME IInv, NEW t \in Threads, NEW fails \in BOOLEAN, Opened(t, fails)
    PROVE  IInv'
<1> DEFINE d == thread[t].device
           others == [u \in Threads |-> IF thread[u].device = d /\ u # t
                                        THEN [thread[u] EXCEPT !.registered = FALSE]
                                        ELSE thread[u]]
           new == IF fails THEN "error" ELSE "initializing"
<1>1. /\ thread' = [others EXCEPT ![t].at = IF fails THEN "next" ELSE "validate_ha",
                                  ![t].registered = TRUE]
      /\ prepared' = prepared \ {d}
      /\ UNCHANGED <<config, ha_validated, unannounced>>
  BY DEF Opened
<1>2. /\ status' = [status EXCEPT ![d] = new] /\ operational' \in BOOLEAN /\ ReportTypes'
      /\ faults' \in 0..MaxFaults
  <2>1. CASE fails /\ thread[t].runs = "connect"
    BY <2>1, SetAgentStatusTypes DEF Opened, IInv
  <2>2. CASE ~(fails /\ thread[t].runs = "connect")
    BY <2>2, CostsType DEF Opened, reportVars, IInv, TypeOK, ReportTypes
  <2> QED
    BY <2>1, <2>2
<1>4. \A u \in Threads : others[u] \in Thread
  BY DEF IInv, TypeOK, Thread
<1>5. /\ thread' \in [Threads -> Thread]
      /\ thread'[t].at \in {"next", "validate_ha"}
      /\ \A u \in Threads \ {t} : thread'[u] = others[u]
  <2> DEFINE mine == [thread[t] EXCEPT !.at = IF fails THEN "next" ELSE "validate_ha",
                                       !.registered = TRUE]
  <2>1. mine \in Thread /\ mine.at \in {"next", "validate_ha"}
    BY DEF IInv, TypeOK, Thread
  <2>2. others[t] = thread[t]
    OBVIOUS
  <2>3. thread' = [others EXCEPT ![t] = mine]
    BY <1>1, <2>2
  <2> HIDE DEF others, mine
  <2>4. others \in [Threads -> Thread]
    BY <1>4 DEF others
  <2> QED
    BY <2>1, <2>3, <2>4
<1>6. /\ status' \in [Devices -> Statuses]
      /\ ActiveIn(status') \subseteq ActiveIn(status) \ {d}
  BY <1>2 DEF IInv, TypeOK, Statuses, ActiveIn
<1>7. TypeOK'
  BY <1>1, <1>2, <1>5, <1>6 DEF IInv, TypeOK, ReportTypes
<1>8. ActiveIsPrepared'
  BY <1>1, <1>6 DEF IInv, ActiveIsPrepared
<1>9. RegisteredIsPrepared'
  <2> SUFFICES ASSUME NEW u \in Threads, thread'[u].at \in PastInit, thread'[u].registered
               PROVE  thread'[u].device \in prepared'
    BY DEF RegisteredIsPrepared
  <2>1. u # t /\ thread'[u] = others[u]
    BY <1>5 DEF PastInit
  <2>2. thread[u].device # d
    BY <2>1 DEF IInv, TypeOK, Thread
  <2>3. thread'[u] = thread[u]
    BY <2>1, <2>2
  <2> QED
    BY <2>2, <2>3, <1>1 DEF IInv, RegisteredIsPrepared
<1>10. ThreadHasDevice'
  <2> SUFFICES ASSUME NEW u \in Threads, thread'[u].at \notin Between
               PROVE  thread'[u].device \in Devices
    BY DEF ThreadHasDevice
  <2>1. CASE u = t
    <3>1. thread[t].device \in Devices
      BY DEF Opened, IInv, ThreadHasDevice, Between
    <3>2. thread'[t].device = thread[t].device
      BY <1>1, <1>4 DEF Thread
    <3> QED
      BY <2>1, <3>1, <3>2
  <2>2. CASE u # t
    <3>1. thread'[u].at = thread[u].at /\ thread'[u].device = thread[u].device
      BY <2>2, <1>5 DEF IInv, TypeOK, Thread
    <3> QED
      BY <3>1 DEF IInv, ThreadHasDevice
  <2> QED
    BY <2>1, <2>2
<1> QED
  BY <1>7, <1>8, <1>9, <1>10 DEF IInv

\* Exceptions.  None makes a device active.
LEMMA RaiseInv ==
    ASSUME IInv, NEW t \in Threads,
           RefuseHosts(t) \/ ValidationRaises(t) \/ InitBigipRaises(t) \/ PostInitRaises(t)
    PROVE  IInv'
<1>1. PICK st \in {status, Written(t, "error")}, fails \in BOOLEAN : Raise(fails, t, st)
  BY DEF RefuseHosts, ValidationRaises, InitBigipRaises, PostInitRaises
<1>2. UNCHANGED <<config, prepared, ha_validated>>
  BY DEF RefuseHosts, ValidationRaises, InitBigipRaises, PostInitRaises
<1>3. st \in [Devices -> Statuses] /\ ActiveIn(st) \subseteq ActiveIn(status)
  <2>1. "error" \in Statuses
    BY DEF Statuses
  <2> QED
    BY <2>1, WrittenType DEF IInv, TypeOK
<1>4. TypeOK'
  BY <1>1, <1>2, <1>3, RaiseTypes DEF IInv, TypeOK, ReportTypes
<1> QED
  BY <1>1, <1>2, <1>3, <1>4, RaiseTypes, ThreadStepInv DEF IInv, Between

\* The steps of one device that write a status or set the agent's.
LEMMA DeviceInv ==
    ASSUME IInv, NEW t \in Threads,
           \/ ValidateHA(t) \/ InitBigip(t) \/ InitAgentConfig(t) \/ FailoverStateIsUnknown(t)
           \/ Configured(t) \/ BecomeActive(t) \/ IsNotOperational(t) \/ PostInit(t)
    PROVE  IInv'
<1>1. \A s \in {"validating_HA", "error", "active"} : s \in Statuses
  BY DEF Statuses
<1>2. ASSUME NEW at \in PastInit \cup {"next", "init_bigip"}, Move(t, at),
             at = "next" \/ thread[t].at \notin Between,
             at \in PastInit => thread[t].at \in PastInit,
             UNCHANGED <<config, prepared>>, ha_validated' \in BOOLEAN,
             NEW s \in {"validating_HA", "error"}, status' \in {status, Written(t, s)},
             operational' \in BOOLEAN, ReportTypes', unannounced' \subseteq Devices,
             faults' \in 0..MaxFaults
      PROVE  IInv'
  <2>1. /\ thread' \in [Threads -> Thread]
        /\ \A u \in Threads \ {t} : thread'[u] = thread[u]
        /\ thread'[t].device = thread[t].device
        /\ thread'[t].registered = thread[t].registered
    BY <1>2, MoveType DEF IInv
  <2>2. thread'[t].at = at
    BY <1>2 DEF Move, IInv, TypeOK, Thread
  <2>3. status' \in [Devices -> Statuses] /\ ActiveIn(status') \subseteq ActiveIn(status)
    <3>1. s \in Statuses /\ s # "active"
      BY <1>1, <1>2
    <3>2. CASE status' = status
      BY <3>2 DEF IInv, TypeOK, ActiveIn
    <3>3. CASE status' = Written(t, s)
      BY <3>1, <3>3, WrittenType DEF IInv
    <3> QED
      BY <1>2, <3>2, <3>3
  <2>4. TypeOK'
    BY <1>2, <2>1, <2>3 DEF IInv, TypeOK, ReportTypes
  <2> QED
    BY <1>2, <2>1, <2>2, <2>3, <2>4, ThreadStepInv DEF Between
<1>3. CASE ValidateHA(t)
  BY <1>3, <1>2 DEF ValidateHA, reportVars, IInv, TypeOK, ReportTypes, PastInit, Between
<1>4. CASE InitAgentConfig(t) \/ Configured(t)
  BY <1>4, <1>2 DEF InitAgentConfig, Configured, reportVars, IInv, TypeOK, ReportTypes, PastInit,
                    Between
<1>5. CASE FailoverStateIsUnknown(t) \/ IsNotOperational(t)
  <2>1. SetAgentStatus(TRUE, Written(t, "error"), FALSE)
    BY <1>5 DEF FailoverStateIsUnknown, IsNotOperational
  <2>2. /\ status' = Written(t, "error") /\ operational' \in BOOLEAN /\ ReportTypes'
        /\ faults' \in 0..MaxFaults
    BY <2>1, SetAgentStatusTypes DEF IInv
  <2> QED
    BY <1>5, <1>2, <2>2 DEF FailoverStateIsUnknown, IsNotOperational, IInv, TypeOK, PastInit,
                                       Between
<1>6. CASE PostInit(t)
  <2>1. SetAgentStatus(FALSE, status, thread[t].runs = "recover")
    BY <1>6 DEF PostInit
  <2>2. /\ status' = status /\ operational' \in BOOLEAN /\ ReportTypes'
        /\ faults' \in 0..MaxFaults
    BY <2>1, SetAgentStatusTypes DEF IInv
  <2> QED
    BY <1>6, <1>2, <2>2 DEF PostInit, IInv, TypeOK, PastInit, Between
<1>7. CASE InitBigip(t)
  <2>1. /\ Move(t, "init_agent_config") /\ thread[t].at = "init_bigip"
        /\ prepared' = IF thread[t].registered THEN prepared \cup {thread[t].device} ELSE prepared
        /\ thread[t].device \in Devices
        /\ UNCHANGED <<config, status, ha_validated, operational, admin_state_up, believed,
                       unconfirmed, unsynced, unannounced, faults>>
    BY <1>7 DEF InitBigip, reportVars, IInv, ThreadHasDevice, Between
  <2>2. /\ thread' \in [Threads -> Thread]
        /\ \A u \in Threads \ {t} : thread'[u] = thread[u]
        /\ thread'[t].device = thread[t].device
        /\ thread'[t].registered = thread[t].registered
    BY <2>1, MoveType DEF IInv, PastInit
  <2>3. TypeOK'
    BY <2>1, <2>2 DEF IInv, TypeOK
  <2> QED
    BY <2>1, <2>2, <2>3, ThreadStepInv DEF Between
<1>8. CASE BecomeActive(t)
  <2>1. /\ Move(t, "post_init") /\ thread[t].at \in PastInit
        /\ status' = Written(t, "active")
        /\ unsynced' = unsynced \cup (ActiveIn(status') \ ActiveIn(status))
        /\ unannounced' = unannounced \ {thread[t].device}
        /\ UNCHANGED <<config, prepared, ha_validated, operational, admin_state_up, believed,
                       unconfirmed, faults>>
    BY <1>8 DEF BecomeActive, PastInit
  <2>2. /\ thread' \in [Threads -> Thread]
        /\ \A u \in Threads \ {t} : thread'[u] = thread[u]
        /\ thread'[t].device = thread[t].device
        /\ thread'[t].registered = thread[t].registered
    BY <2>1, MoveType DEF IInv, PastInit
  <2>3. /\ status' \in [Devices -> Statuses]
        /\ ActiveIn(status') \subseteq
              ActiveIn(status) \cup (IF thread[t].registered THEN {thread[t].device} ELSE {})
    BY <1>1, <2>1, WrittenType DEF IInv
  <2>4. ActiveIn(status') \subseteq ActiveIn(status) \cup prepared'
    BY <2>1, <2>3 DEF IInv, RegisteredIsPrepared
  <2>5. TypeOK'
    BY <2>1, <2>2, <2>3 DEF IInv, TypeOK, ActiveIn
  <2> QED
    BY <2>1, <2>2, <2>4, <2>5, ThreadStepInv DEF Between, PastInit
<1> QED
  BY <1>3, <1>4, <1>5, <1>6, <1>7, <1>8

LEMMA HeartbeatInv ==
    ASSUME IInv, (\E outcome \in Outcomes : Heartbeat(outcome)) \/ \E d \in Devices : PollFails(d)
    PROVE  IInv'
<1>1. CASE \E outcome \in Outcomes : Heartbeat(outcome)
  <2>1. PICK outcome \in Outcomes : Heartbeat(outcome)
    BY <1>1
  <2>2. ReportTypes' /\ faults' \in 0..MaxFaults
    BY <2>1, CostsType, ReportedTypes DEF Heartbeat, IInv, TypeOK
  <2>3. UNCHANGED <<config, status, prepared, ha_validated, operational, thread, unannounced>>
    BY <2>1 DEF Heartbeat, stateVars
  <2> QED
    BY <2>2, <2>3 DEF IInv, TypeOK, ReportTypes, ActiveIn, ActiveIsPrepared, RegisteredIsPrepared,
                      ThreadHasDevice
<1>2. ASSUME NEW d \in Devices, PollFails(d)
      PROVE  IInv'
  <2>1. /\ SetAgentStatus(TRUE, [status EXCEPT ![d] = "error"], FALSE)
        /\ UNCHANGED <<config, prepared, ha_validated, thread, unannounced>>
    BY <1>2 DEF PollFails
  <2>2. /\ status' = [status EXCEPT ![d] = "error"] /\ operational' \in BOOLEAN /\ ReportTypes'
        /\ faults' \in 0..MaxFaults
    BY <2>1, SetAgentStatusTypes DEF IInv
  <2>3. status' \in [Devices -> Statuses] /\ ActiveIn(status') \subseteq ActiveIn(status)
    BY <2>2 DEF IInv, TypeOK, Statuses, ActiveIn
  <2> QED
    BY <2>1, <2>2, <2>3 DEF IInv, TypeOK, ReportTypes, ActiveIsPrepared, RegisteredIsPrepared,
                            ThreadHasDevice
<1> QED
  BY <1>1, <1>2

LEMMA NextInv == IInv /\ [Next]_vars => IInv'
<1> SUFFICES ASSUME IInv, [Next]_vars PROVE IInv'
  OBVIOUS
<1>1. "timer" \in Threads /\ "request" \in Threads
  BY DEF Threads
<1>2. ASSUME NEW t \in Threads, ConnectStep(t) PROVE IInv'
  BY <1>2, LoopInv, OpenedInv, RaiseInv, DeviceInv DEF ConnectStep
<1>3. ASSUME NEW t \in Threads, ConnectFails(t) PROVE IInv'
  BY <1>3, OpenedInv, RaiseInv, DeviceInv DEF ConnectFails
<1>4. CASE TimerStep \/ StartConnect("request")
  BY <1>1, <1>2, <1>4, StartInv DEF TimerStep
<1>5. CASE UNCHANGED vars
  BY <1>5 DEF vars, stateVars, reportVars, IInv, TypeOK, ActiveIsPrepared, RegisteredIsPrepared,
              ThreadHasDevice, ActiveIn
<1> QED
  BY <1>1, <1>2, <1>3, <1>4, <1>5, HeartbeatInv DEF Next

-------------------------------------------------------------------------------
(***************************************************************************)
(* The inductive invariant of iControlDriver's connections, for any devices  *)
(* and either thread: the one that is about to make a device active holds an  *)
(* object that went through _init_bigip.                                     *)
(***************************************************************************)
THEOREM ConnectionInvariant == Spec => []IInv
BY InitInv, NextInv, PTL DEF Spec

(* The statuses that the driver writes are those that its branches know, for any    *)
(* devices, configurations and failures.                                            *)
THEOREM ConnectionTypes == Spec => []TypeOK
<1>1. IInv => TypeOK
  BY DEF IInv
<1> QED
  BY <1>1, ConnectionInvariant, PTL

(* An active device went through _init_bigip with the object that requests use, however *)
(* the timer's and the request's threads that connect are interleaved.                  *)
THEOREM ConnectionActiveIsPrepared == Spec => []ActiveIsPrepared
<1>1. IInv => ActiveIsPrepared
  BY DEF IInv
<1> QED
  BY <1>1, ConnectionInvariant, PTL

-------------------------------------------------------------------------------
(* Who writes the status of a device.                                           *)

\* Where a thread works on the object that it opened.
Working == {"validate_ha", "init_bigip"} \cup PastInit

\* The registered object of a device is in the hands of one thread at most.
OneWriter ==
    \A t, u \in Threads :
        /\ t # u
        /\ thread[t].at \in Working /\ thread[t].registered
        /\ thread[u].at \in Working /\ thread[u].registered
        => thread[t].device # thread[u].device

\* Until that thread writes the status again, nobody does.
ValidatingHolds ==
    \A t \in Threads :
        thread[t].at = "validate_operational" /\ thread[t].registered
            => status[thread[t].device] = "validating_HA"

WriterInv == OneWriter /\ ValidatingHolds

\* A step of a thread in which no object is opened: the thread leaves its device, or
\* goes on with it and writes its status, unless its object was replaced.
LEMMA WorkStep ==
    ASSUME IInv, WriterInv, NEW t \in Threads, thread[t].at \in Working,
           \A u \in Threads \ {t} : thread'[u] = thread[u],
           NEW s, status' \in {status, Written(t, s)},
           \/ thread'[t].at \in Between
           \/ /\ thread'[t].device = thread[t].device
              /\ thread'[t].registered = thread[t].registered
              /\ thread'[t].at # "validate_operational" \/ status' = Written(t, "validating_HA")
    PROVE  WriterInv'
<1>1. OneWriter'
  BY DEF WriterInv, OneWriter, Between, Working, PastInit
<1>2. ASSUME NEW u \in Threads, thread'[u].at = "validate_operational", thread'[u].registered
      PROVE  status'[thread'[u].device] = "validating_HA"
  <2>1. thread[t].device \in Devices /\ status \in [Devices -> Statuses]
    BY DEF IInv, ThreadHasDevice, TypeOK, Working, PastInit, Between
  <2>2. CASE u = t
    <3>1. /\ thread'[t].device = thread[t].device /\ thread[t].registered
          /\ status' = Written(t, "validating_HA")
      BY <1>2, <2>2 DEF Between
    <3> QED
      BY <2>1, <2>2, <3>1 DEF Written
  <2>3. CASE u # t
    <3>1. thread'[u] = thread[u]
      BY <2>3
    <3>2. status[thread[u].device] = "validating_HA"
      BY <1>2, <3>1 DEF WriterInv, ValidatingHolds
    <3>3. CASE thread[t].registered
      <4>1. thread[u].device # thread[t].device /\ thread[u].device \in Devices
        BY <1>2, <2>3, <3>1, <3>3 DEF WriterInv, OneWriter, Working, PastInit, IInv,
                                      ThreadHasDevice, Between
      <4> QED
        BY <2>1, <3>1, <3>2, <4>1 DEF Written
    <3>4. CASE ~thread[t].registered
      BY <3>1, <3>2, <3>4 DEF Written
    <3> QED
      BY <3>3, <3>4
  <2> QED
    BY <2>2, <2>3
<1> QED
  BY <1>1, <1>2 DEF WriterInv, ValidatingHolds

\* A step of a thread between two devices: it writes to none that another validates.
LEMMA LoopStep ==
    ASSUME IInv, WriterInv, NEW t \in Threads,
           \A u \in Threads \ {t} : thread'[u] = thread[u],
           thread'[t].at \in Between \cup {"opening"},
           \A d \in Devices : status[d] = "validating_HA" => status'[d] = "validating_HA"
    PROVE  WriterInv'
<1>1. OneWriter'
  BY DEF WriterInv, OneWriter, Between, Working, PastInit
<1>2. ValidatingHolds'
  <2> SUFFICES ASSUME NEW u \in Threads, thread'[u].at = "validate_operational",
                      thread'[u].registered
               PROVE  status'[thread'[u].device] = "validating_HA"
    BY DEF ValidatingHolds
  <2>1. thread'[u] = thread[u]
    BY DEF Between
  <2>2. thread[u].device \in Devices
    BY <2>1 DEF IInv, ThreadHasDevice, Between
  <2> QED
    BY <2>1, <2>2 DEF WriterInv, ValidatingHolds
<1> QED
  BY <1>1, <1>2 DEF WriterInv

LEMMA LoopWriter ==
    ASSUME IInv, WriterInv, NEW t \in Threads,
           \/ StartConnect(t) \/ StartRecovery \/ SkipConnect
           \/ OpenNothing(t) \/ Open(t) \/ FinishConnect(t) \/ FinishRecovery(t)
    PROVE  WriterInv' /\ ActiveIn(status') \subseteq ActiveIn(status)
<1>1. "timer" \in Threads /\ TypeOK
  BY DEF Threads, IInv
<1>2. CASE StartConnect(t) \/ StartRecovery \/ SkipConnect
  <2>1. status' = status
    BY <1>2 DEF StartConnect, StartRecovery, SkipConnect, stateVars
  <2>2. PICK u \in Threads : /\ \A v \in Threads \ {u} : thread'[v] = thread[v]
                             /\ thread'[u].at \in Between
    <3>1. CASE StartConnect(t)
      BY <1>1, <3>1 DEF StartConnect, TypeOK, Thread, Between
    <3>2. CASE StartRecovery
      BY <1>1, <3>2 DEF StartRecovery, TypeOK, Thread, Between
    <3>3. CASE SkipConnect
      BY <1>1, <3>3, RestType DEF SkipConnect, Between
    <3> QED
      BY <1>2, <3>1, <3>2, <3>3
  <2> QED
    BY <2>1, <2>2, LoopStep
<1>3. CASE OpenNothing(t)
  <2>1. status' = status
    BY <1>3 DEF OpenNothing, SetAgentStatus
  <2>2. thread' = [thread EXCEPT ![t].todo = @ \ {NextHost(t)}] /\ thread[t].at = "next"
    BY <1>3 DEF OpenNothing
  <2>3. /\ \A v \in Threads \ {t} : thread'[v] = thread[v]
        /\ thread'[t].at \in Between
    BY <1>1, <2>2 DEF TypeOK, Thread, Between
  <2> QED
    BY <2>1, <2>3, LoopStep
<1>4. CASE Open(t)
  <2> DEFINE d == NextHost(t)
  <2>1. /\ thread' = [thread EXCEPT ![t].at = "opening", ![t].device = d, ![t].todo = @ \ {d}]
        /\ status' = [status EXCEPT ![d] = "connecting"]
        /\ status[d] \in {"creating", "error"}
        /\ d \in Devices
    BY <1>1, <1>4, NextHostIsLeft DEF Open
  <2> HIDE DEF d
  <2>2. /\ \A v \in Threads \ {t} : thread'[v] = thread[v]
        /\ thread'[t].at = "opening"
    BY <1>1, <2>1 DEF TypeOK, Thread
  <2>3. /\ \A e \in Devices : status[e] = "validating_HA" => status'[e] = "validating_HA"
        /\ ActiveIn(status') \subseteq ActiveIn(status)
    BY <1>1, <2>1 DEF TypeOK, ActiveIn
  <2> QED
    BY <2>2, <2>3, LoopStep
<1>5. CASE FinishConnect(t) \/ FinishRecovery(t)
  <2>1. Rest(t) /\ status' = status
    BY <1>5 DEF FinishConnect, FinishRecovery, SetAgentStatus, stateVars
  <2> QED
    BY <1>1, <2>1, RestType, LoopStep DEF Between
<1> QED
  BY <1>2, <1>3, <1>4, <1>5

\* The thread that opens a device takes it from the one that held it.
LEMMA OpenedWriter ==
    ASSUME IInv, WriterInv, NEW t \in Threads, NEW fails \in BOOLEAN, Opened(t, fails)
    PROVE  WriterInv' /\ ActiveIn(status') \subseteq ActiveIn(status)
<1> DEFINE d == thread[t].device
           others == [u \in Threads |-> IF thread[u].device = d /\ u # t
                                        THEN [thread[u] EXCEPT !.registered = FALSE]
                                        ELSE thread[u]]
           new == IF fails THEN "error" ELSE "initializing"
<1>1. /\ thread' = [others EXCEPT ![t].at = IF fails THEN "next" ELSE "validate_ha",
                                  ![t].registered = TRUE]
      /\ status' = [status EXCEPT ![d] = new]
      /\ d \in Devices /\ TypeOK
  BY DEF Opened, SetAgentStatus, IInv, ThreadHasDevice, Between
<1>2. \A u \in Threads \ {t} : thread'[u] = others[u]
  BY <1>1
<1>3. thread'[t].at # "validate_operational" /\ thread'[t].device = d
  <2> DEFINE mine == [thread[t] EXCEPT !.at = IF fails THEN "next" ELSE "validate_ha",
                                       !.registered = TRUE]
  <2>1. others[t] = thread[t] /\ t \in DOMAIN others
    OBVIOUS
  <2>2. thread' = [others EXCEPT ![t] = mine]
    BY <1>1, <2>1
  <2>3. mine.at # "validate_operational" /\ mine.device = d
    BY <1>1 DEF TypeOK, Thread
  <2> HIDE DEF others, mine
  <2> QED
    BY <2>1, <2>2, <2>3
<1>4. \A u \in Threads \ {t} :
        /\ thread'[u].at = thread[u].at /\ thread'[u].device = thread[u].device
        /\ thread'[u].registered => thread[u].registered /\ thread[u].device # d
  <2> SUFFICES ASSUME NEW u \in Threads \ {t}
               PROVE  /\ thread'[u].at = thread[u].at /\ thread'[u].device = thread[u].device
                      /\ thread'[u].registered => thread[u].registered /\ thread[u].device # d
    OBVIOUS
  <2>1. thread[u] \in Thread
    BY <1>1 DEF TypeOK
  <2>2. CASE thread[u].device = d
    <3>1. thread'[u] = [thread[u] EXCEPT !.registered = FALSE]
      BY <1>2, <2>2
    <3> QED
      BY <2>1, <3>1 DEF Thread
  <2>3. CASE thread[u].device # d
    BY <1>2, <2>3
  <2> QED
    BY <2>2, <2>3
<1> HIDE DEF others
<1>5. OneWriter'
  BY <1>3, <1>4 DEF WriterInv, OneWriter
<1>6. ValidatingHolds'
  <2> SUFFICES ASSUME NEW u \in Threads, thread'[u].at = "validate_operational",
                      thread'[u].registered
               PROVE  status'[thread'[u].device] = "validating_HA"
    BY DEF ValidatingHolds
  <2>1. u # t /\ thread[u].at = "validate_operational" /\ thread[u].registered
        /\ thread'[u].device = thread[u].device /\ thread[u].device # d
    BY <1>3, <1>4
  <2>2. status[thread[u].device] = "validating_HA" /\ thread[u].device \in Devices
    BY <2>1 DEF WriterInv, ValidatingHolds, IInv, ThreadHasDevice, Between
  <2> QED
    BY <1>1, <2>1, <2>2 DEF TypeOK
<1>7. ActiveIn(status') \subseteq ActiveIn(status)
  BY <1>1 DEF TypeOK, ActiveIn
<1> QED
  BY <1>5, <1>6, <1>7 DEF WriterInv

LEMMA RaiseWriter ==
    ASSUME IInv, WriterInv, NEW t \in Threads,
           RefuseHosts(t) \/ ValidationRaises(t) \/ InitBigipRaises(t) \/ PostInitRaises(t)
    PROVE  WriterInv' /\ ActiveIn(status') \subseteq ActiveIn(status)
<1>1. PICK st \in {status, Written(t, "error")}, fails \in BOOLEAN : Raise(fails, t, st)
  BY DEF RefuseHosts, ValidationRaises, InitBigipRaises, PostInitRaises
<1>2. thread[t].at \in Working /\ TypeOK
  BY DEF RefuseHosts, ValidationRaises, InitBigipRaises, PostInitRaises, Working, PastInit, IInv
<1>3. ActiveIn(st) \subseteq ActiveIn(status)
  BY <1>2, WrittenType DEF Statuses
<1>4. /\ thread'[t].at \in Between /\ status' = st
      /\ \A u \in Threads \ {t} : thread'[u] = thread[u]
  BY <1>1, <1>2, RaiseTypes DEF Between
<1>5. WriterInv'
  BY <1>1, <1>2, <1>4, WorkStep
<1> QED
  BY <1>3, <1>4, <1>5

\* Only BecomeActive makes a device active, and it finds it in validation.
LEMMA DeviceWriter ==
    ASSUME IInv, WriterInv, NEW t \in Threads,
           \/ ValidateHA(t) \/ InitBigip(t) \/ InitAgentConfig(t) \/ FailoverStateIsUnknown(t)
           \/ Configured(t) \/ BecomeActive(t) \/ IsNotOperational(t) \/ PostInit(t)
    PROVE  /\ WriterInv'
           /\ \A d \in ActiveIn(status') \ ActiveIn(status) : status[d] = "validating_HA"
<1>1. thread[t].at \in Working /\ TypeOK
  BY DEF ValidateHA, InitBigip, InitAgentConfig, FailoverStateIsUnknown, Configured, BecomeActive,
         IsNotOperational, PostInit, Working, PastInit, IInv
<1>2. PICK at \in PastInit \cup {"init_bigip", "next"} :
         /\ Move(t, at)
         /\ at = "validate_operational" => status' = Written(t, "validating_HA")
  <2>1. CASE ValidateHA(t)
    BY <2>1 DEF ValidateHA
  <2>2. CASE InitAgentConfig(t) \/ Configured(t)
    BY <2>2 DEF InitAgentConfig, Configured, PastInit
  <2>3. CASE InitBigip(t) \/ FailoverStateIsUnknown(t) \/ BecomeActive(t)
    <3>1. PICK p \in {"init_agent_config", "configured", "post_init"} : Move(t, p)
      BY <2>3 DEF InitBigip, FailoverStateIsUnknown, BecomeActive
    <3> QED
      BY <3>1 DEF PastInit
  <2>4. CASE IsNotOperational(t) \/ PostInit(t)
    <3>1. Move(t, "next")
      BY <2>4 DEF IsNotOperational, PostInit
    <3> QED
      BY <3>1
  <2> QED
    BY <2>1, <2>2, <2>3, <2>4
<1>3. /\ \A u \in Threads \ {t} : thread'[u] = thread[u]
      /\ thread'[t].device = thread[t].device
      /\ thread'[t].registered = thread[t].registered
      /\ thread'[t].at = at
  <2>1. Move(t, "next") \/ \E p \in PastInit \cup {"init_bigip"} : Move(t, p)
    BY <1>2
  <2> QED
    BY <1>1, <1>2, <2>1, MoveType DEF Move, TypeOK, Thread
<1>4. CASE BecomeActive(t)
  <2>1. status' = Written(t, "active") /\ thread[t].at = "validate_operational"
    BY <1>4 DEF BecomeActive
  <2>2. WriterInv'
    BY <1>1, <1>2, <1>3, <2>1, WorkStep
  <2>3. ActiveIn(status') \subseteq
            ActiveIn(status) \cup (IF thread[t].registered THEN {thread[t].device} ELSE {})
    BY <1>1, <2>1, WrittenType DEF Statuses
  <2> QED
    BY <2>1, <2>2, <2>3 DEF WriterInv, ValidatingHolds
<1>5. CASE ~BecomeActive(t)
  <2>1. PICK s \in {"validating_HA", "error"} : status' \in {status, Written(t, s)}
    BY <1>5 DEF ValidateHA, InitBigip, InitAgentConfig, FailoverStateIsUnknown, Configured,
                IsNotOperational, PostInit, SetAgentStatus
  <2>2. WriterInv'
    BY <1>1, <1>2, <1>3, <2>1, WorkStep
  <2>3. ActiveIn(status') \subseteq ActiveIn(status)
    BY <1>1, <2>1, WrittenType DEF Statuses
  <2> QED
    BY <2>2, <2>3
<1> QED
  BY <1>4, <1>5

LEMMA HeartbeatWriter ==
    ASSUME IInv, WriterInv, (\E outcome \in Outcomes : Heartbeat(outcome)) \/ \E d \in Devices : PollFails(d)
    PROVE  WriterInv' /\ ActiveIn(status') \subseteq ActiveIn(status)
<1>1. thread' = thread
  BY DEF Heartbeat, PollFails
<1>2. /\ \A e \in Devices : status[e] = "validating_HA" => status'[e] = "validating_HA"
      /\ ActiveIn(status') \subseteq ActiveIn(status)
  <2>1. CASE \E outcome \in Outcomes : Heartbeat(outcome)
    BY <2>1 DEF Heartbeat, stateVars
  <2>2. ASSUME NEW d \in Devices, PollFails(d)
        PROVE  <1>2!1 /\ <1>2!2
    BY <2>2 DEF PollFails, SetAgentStatus, IInv, TypeOK, ActiveIn
  <2> QED
    BY <2>1, <2>2
<1>3. \A t \in Threads : thread[t].at = "validate_operational" => thread[t].device \in Devices
  BY DEF IInv, ThreadHasDevice, Between
<1> QED
  BY <1>1, <1>2, <1>3 DEF WriterInv, OneWriter, ValidatingHolds

LEMMA WriterStep ==
    ASSUME IInv, WriterInv, [Next]_vars
    PROVE  /\ WriterInv'
           /\ \A d \in ActiveIn(status') \ ActiveIn(status) : status[d] = "validating_HA"
<1> DEFINE Goal == /\ WriterInv'
                   /\ \A d \in ActiveIn(status') \ ActiveIn(status) : status[d] = "validating_HA"
<1>1. "timer" \in Threads /\ "request" \in Threads
  BY DEF Threads
<1>2. ASSUME NEW t \in Threads, ConnectStep(t) PROVE Goal
  BY <1>2, LoopWriter, OpenedWriter, RaiseWriter, DeviceWriter DEF ConnectStep
<1>3. ASSUME NEW t \in Threads, ConnectFails(t) PROVE Goal
  BY <1>3, OpenedWriter, RaiseWriter, DeviceWriter DEF ConnectFails
<1>4. CASE TimerStep \/ StartConnect("request")
  BY <1>1, <1>2, <1>4, LoopWriter DEF TimerStep
<1>5. CASE (\E outcome \in Outcomes : Heartbeat(outcome)) \/ \E d \in Devices : PollFails(d)
  BY <1>5, HeartbeatWriter
<1>6. CASE UNCHANGED vars
  BY <1>6 DEF vars, stateVars, WriterInv, OneWriter, ValidatingHolds, ActiveIn
<1> QED
  BY <1>1, <1>2, <1>3, <1>4, <1>5, <1>6 DEF Next

(* A device becomes active only from the status that the validation wrote: between that   *)
(* step and the activation no other thread or heartbeat wrote the status of the registered *)
(* object, and a thread that opens the device takes it from the one that validated it.     *)
THEOREM ConnectionActivation == Spec => ActivationFollowsValidation
<1>1. Init => WriterInv
  BY DEF Init, Resting, WriterInv, OneWriter, ValidatingHolds, Working, PastInit
<1>2. IInv /\ WriterInv /\ [Next]_vars => WriterInv'
  BY WriterStep
<1>3. IInv /\ WriterInv /\ [Next]_vars =>
        [\A d \in ActiveIn(status') \ ActiveIn(status) : status[d] = "validating_HA"]_vars
  BY WriterStep
<1> QED
  BY <1>1, <1>2, <1>3, ConnectionInvariant, PTL DEF Spec, ActivationFollowsValidation
=============================================================================
