---------------------------- MODULE HealerProofs ----------------------------
(***************************************************************************)
(* Theorems about the monitor together with the web handlers.  What a step *)
(* of the monitor does to its own state is taken from MonitorProofs; here  *)
(* are the steps of the handlers, and what only holds of both together.    *)
(***************************************************************************)
EXTENDS Healer, MonitorProofs

USE DEF Untouched, lanVars, npmVars, storeVars, monVars, MonitorPcs, Recovering

-----------------------------------------------------------------------------
(* Type correctness.                                                       *)

LEMMA HealerInitType == HealerInit => HealerTypeOK
BY InitType DEF HealerInit, HealerTypeOK, ForceTypeOK, Address

LEMMA MonitorPartType ==
    /\ HealerTypeOK
    /\ MonitorStep \/ MonitorRestarts \/ EnvironmentStep
    /\ UNCHANGED forceVars
    => HealerTypeOK'
BY MonitorStepType, EnvironmentType DEF HealerTypeOK, ForceTypeOK, forceVars

(* One action of force_scan at a time; all but the last leave the tables   *)
(* alone.                                                                  *)
LEMMA ForceStepType == HealerTypeOK /\ ForceStep => HealerTypeOK'
<1> SUFFICES ASSUME HealerTypeOK, ForceStep PROVE HealerTypeOK'
    OBVIOUS
<1> USE DEF HealerTypeOK, ForceTypeOK
<1>0. req \in Request /\ req.id \in HostIds /\ req.mac \in Macs
      /\ req.npm \in Npms \cup {Null}
    BY DEF ForceStep, ForceCheck, ForceSweep, ForceProxy, ForceReload,
           ForceCommit, Request
<1>1. CASE ForceCheck
    <2>1. CheckHostReachable(req.ip, req.port) \subseteq BOOLEAN
        BY DEF CheckHostReachable, Answers
    <2> QED
        BY <1>1, <2>1, StutterType DEF ForceCheck
<1>2. CASE ForceSweep
    <2>1. FindIpByMac(req.mac) \subseteq Address
        BY <1>0 DEF FindIpByMac, TypeOK, LanTypeOK, Address
    <2> QED
        BY <1>0, <1>2, <2>1, StutterType DEF ForceSweep, Address
<1>3. CASE ForceProxy
    <2>1. NpmTypeOK'
        BY <1>3
        DEF ForceProxy, ForwardUpdated, ForwardUpdateFailed, TypeOK, NpmTypeOK,
            Address, npmVars
    <2>2. TypeOK'
        BY <1>3, <2>1
        DEF ForceProxy, TypeOK, LanTypeOK, StoreTypeOK, MonitorTypeOK,
            lanVars, storeVars, monVars
    <2> QED
        BY <1>3, <2>2 DEF ForceProxy
<1>4. CASE ForceReload
    <2>1. NpmTypeOK'
        BY <1>4
        DEF ForceReload, NginxReloaded, ReloadFailed, ReloadRefused,
            ReloadRaised, TypeOK, NpmTypeOK, npmVars
    <2>2. TypeOK'
        BY <1>4, <2>1
        DEF ForceReload, TypeOK, LanTypeOK, StoreTypeOK, MonitorTypeOK,
            lanVars, storeVars, monVars
    <2> QED
        BY <1>4, <2>2 DEF ForceReload, RequestOver, Address
<1>5. CASE ForceCommit
    <2>1. EnsureStateRow(req.id)[req.id] \in StateRow
        BY <1>0, EnsureStateRowType DEF TypeOK, StoreTypeOK
    <2>2. hosts' \in [HostIds -> HostRow]
        BY <1>5, CurrentIpType DEF ForceCommit, TypeOK, StoreTypeOK
    <2>3. hstate' \in [HostIds -> StateRow]
        BY <1>0, <1>5, <2>1
        DEF ForceCommit, TypeOK, StoreTypeOK, StateRow, Statuses, Stamps
    <2>4. TypeOK'
        BY <1>5, <2>2, <2>3
        DEF ForceCommit, TypeOK, LanTypeOK, NpmTypeOK, StoreTypeOK,
            MonitorTypeOK, lanVars, npmVars, monVars
    <2> QED
        BY <1>5, <2>4 DEF ForceCommit, RequestOver, Address
<1> QED
    BY <1>1, <1>2, <1>3, <1>4, <1>5 DEF ForceStep

(* What the edit form can be saved as is a row of hosts.                   *)
LEMMA SavedAsType ==
    ASSUME TypeOK, NEW h \in HostIds, NEW form \in Forms, NEW fwd \in Address,
           fwd # Null => form.npm \in Npms
    PROVE  SavedAs(h, form, fwd) \subseteq HostRow
BY HealerAssumption, NpmAssumption
   DEF SavedAs, HostRow, TypeOK, StoreTypeOK

LEMMA RequestType ==
    ASSUME HealerTypeOK, NEW h \in HostIds,
           ForceRequest(h) \/ EditHost(h) \/ DeleteHost(h)
    PROVE  HealerTypeOK'
<1> USE LanAssumption DEF HealerTypeOK, ForceTypeOK
<1>0. stimuli' \in 0..MaxStimuli
    BY DEF ForceRequest, EditHost, DeleteHost, Stimulus, TypeOK, LanTypeOK
<1>1. CASE ForceRequest(h)
    <2>1. req' \in Request
        BY <1>1 DEF ForceRequest, Request, TypeOK, StoreTypeOK, HostRow
    <2>2. TypeOK'
        BY <1>0, <1>1
        DEF ForceRequest, TypeOK, LanTypeOK, NpmTypeOK, StoreTypeOK,
            MonitorTypeOK, npmVars, storeVars, monVars
    <2> QED
        BY <1>1, <2>1, <2>2 DEF ForceRequest
<1>2. CASE EditHost(h)
    <2>1. PICK form \in Forms :
            \E fwd \in IF form.npm = Null THEN {Null}
                                          ELSE GetProxyHost(form.npm) :
            \E saved \in SavedAs(h, form, fwd) :
                hosts' = [hosts EXCEPT ![h] = saved]
        BY <1>2 DEF EditHost
    <2>2. form.npm \in Npms \cup {Null}
        BY HealerAssumption
    <2>3. PICK fwd \in IF form.npm = Null THEN {Null}
                                          ELSE GetProxyHost(form.npm) :
            \E saved \in SavedAs(h, form, fwd) :
                hosts' = [hosts EXCEPT ![h] = saved]
        BY <2>1
    <2>4. fwd \in Address /\ (fwd # Null => form.npm \in Npms)
        BY <2>2, <2>3 DEF GetProxyHost, TypeOK, NpmTypeOK, Address
    <2>5. hosts' \in [HostIds -> HostRow]
        BY <2>3, <2>4, SavedAsType DEF TypeOK, StoreTypeOK
    <2>6. TypeOK'
        BY <1>0, <1>2, <2>5
        DEF EditHost, TypeOK, LanTypeOK, NpmTypeOK, StoreTypeOK,
            MonitorTypeOK, npmVars, monVars
    <2> QED
        BY <1>2, <2>6 DEF EditHost, forceVars
<1>3. CASE DeleteHost(h)
    <2>1. hosts' \in [HostIds -> HostRow]
        BY <1>3 DEF DeleteHost, TypeOK, StoreTypeOK, HostRow
    <2>2. TypeOK'
        BY <1>0, <1>3, <2>1
        DEF DeleteHost, TypeOK, LanTypeOK, NpmTypeOK, StoreTypeOK,
            MonitorTypeOK, npmVars, monVars
    <2> QED
        BY <1>3, <2>2 DEF DeleteHost, forceVars
<1> QED
    BY <1>1, <1>2, <1>3

LEMMA ProcessRestartsType == HealerTypeOK /\ ProcessRestarts => HealerTypeOK'
<1> SUFFICES ASSUME HealerTypeOK, ProcessRestarts PROVE HealerTypeOK'
    OBVIOUS
<1>1. LanTypeOK' /\ NpmTypeOK' /\ StoreTypeOK'
    BY LanAssumption
    DEF HealerTypeOK, ProcessRestarts, Stimulus, TypeOK, LanTypeOK, NpmTypeOK,
        StoreTypeOK, npmVars, storeVars
<1>2. MonitorTypeOK'
    BY DEF HealerTypeOK, TypeOK, ProcessRestarts, MonitorTypeOK, Address
<1>3. ForceTypeOK'
    BY DEF ProcessRestarts, RequestOver, ForceTypeOK, Address
<1> QED
    BY <1>1, <1>2, <1>3 DEF HealerTypeOK, TypeOK

LEMMA HealerStutterType == HealerTypeOK /\ UNCHANGED allVars => HealerTypeOK'
BY StutterType DEF HealerTypeOK, ForceTypeOK, allVars, forceVars

(* With requests at any moment of a cycle the state stays well typed: no   *)
(* handler stores a row the monitor cannot read, and a force-scan only     *)
(* talks to NPM with an address it found.                                  *)
THEOREM HealerTypeCorrect == HealerSpec => []HealerTypeOK
<1>1. HealerTypeOK /\ [HealerNext]_allVars => HealerTypeOK'
    BY MonitorPartType, ForceStepType, RequestType, ProcessRestartsType,
       HealerStutterType
    DEF HealerNext
<1> QED
    BY <1>1, HealerInitType, PTL DEF HealerSpec

-----------------------------------------------------------------------------
(* Requests strand no host either: the only one that writes the status     *)
(* writes "healthy" or "unreachable".                                      *)

LEMMA RecoveringRequests ==
    ASSUME HealerTypeOK, RecoveringIsInHand,
           \/ ForceStep
           \/ \E h \in HostIds : ForceRequest(h) \/ EditHost(h) \/ DeleteHost(h)
    PROVE  RecoveringIsInHand'
<1>1. CASE ForceCommit
    BY <1>1
    DEF ForceCommit, RecoveringIsInHand, HealerTypeOK, TypeOK, StoreTypeOK,
        monVars
<1>2. CASE ForceCheck \/ ForceSweep
    BY <1>2 DEF ForceCheck, ForceSweep, RecoveringIsInHand, vars
<1>3. CASE ForceProxy \/ ForceReload
    BY <1>3 DEF ForceProxy, ForceReload, RecoveringIsInHand
<1>4. ASSUME NEW h \in HostIds, ForceRequest(h) \/ EditHost(h) \/ DeleteHost(h)
      PROVE  RecoveringIsInHand'
    BY <1>4 DEF ForceRequest, EditHost, DeleteHost, RecoveringIsInHand
<1> QED
    BY <1>1, <1>2, <1>3, <1>4 DEF ForceStep

(* Force-scans, edits and deletions in the middle of a recovery leave no   *)
(* host in status "recovering" that nobody is recovering.                  *)
THEOREM RecoveringIsInHandWithRequests ==
    ASSUME "crash" \notin Faults
    PROVE  HealerSpec => []RecoveringIsInHand
<1>1. HealerTypeOK /\ RecoveringIsInHand /\ [HealerNext]_allVars
        => RecoveringIsInHand'
    <2> SUFFICES ASSUME HealerTypeOK, RecoveringIsInHand,
                        [HealerNext]_allVars
                 PROVE  RecoveringIsInHand'
        OBVIOUS
    <2>1. CASE UNCHANGED allVars
        BY <2>1 DEF allVars, vars, RecoveringIsInHand
    <2>2. ~ MonitorRestarts /\ ~ ProcessRestarts
        BY DEF MonitorRestarts, ProcessRestarts
    <2> QED
        BY <2>1, <2>2, RecoveringMonitorStep, RecoveringEnvironment,
           RecoveringRequests
        DEF HealerNext, HealerTypeOK
<1>2. HealerInit => RecoveringIsInHand
    BY RecoveringInit DEF HealerInit
<1> QED
    BY <1>1, <1>2, HealerTypeCorrect, PTL DEF HealerSpec

-----------------------------------------------------------------------------
(* The two callers of reload_nginx.  What makes NginxServesDatabase        *)
(* inductive is that the event loop cannot suspend either of them between  *)
(* the update and the reload.                                              *)

CallersExclude == ~ (MonitorBlocks /\ ForceBlocks)

NginxInv == NginxServesDatabase /\ CallersExclude

LEMMA NginxStep ==
    ASSUME Faults \cap {"mariadb", "reload", "signal", "crash"} = {}
    PROVE  NginxInv /\ [HealerNext]_allVars => NginxInv'
<1> SUFFICES ASSUME NginxInv, [HealerNext]_allVars PROVE NginxInv'
    OBVIOUS
<1> USE DEF NginxInv, NginxServesDatabase, CallersExclude, MonitorBlocks,
            ForceBlocks
<1>1. ~ ReloadFailed /\ ~ ReloadRefused /\ ~ ReloadRaised
      /\ ~ MonitorRestarts /\ ~ ProcessRestarts
    BY DEF ReloadFailed, ReloadRefused, ReloadRaised, MonitorRestarts,
           ProcessRestarts
<1>2. \A n, ip : ~ ForwardUpdateFailed(n, ip)
    BY DEF ForwardUpdateFailed
<1>3. CASE MonitorStep /\ ~ ForceBlocks /\ UNCHANGED forceVars
    <2>1. CASE UpdateProxy
        BY <1>2, <1>3, <2>1
        DEF UpdateProxy, ForwardUpdated, NextHost, Goto, forceVars
    <2>2. CASE Reload
        BY <1>1, <1>3, <2>2 DEF Reload, NginxReloaded, NextHost, forceVars
    <2>3. CASE pc' # "reload" /\ pc # "reload" /\ UNCHANGED npmVars
        BY <1>3, <2>3 DEF forceVars
    <2>4. ASSUME MonitorStep, ~ UpdateProxy, ~ Reload
          PROVE  pc' # "reload" /\ pc # "reload" /\ UNCHANGED npmVars
        BY <2>4
        DEF MonitorStep, BeginCycle, EndCycle, TakeHost, CheckHost,
            MarkHealthy, MarkDown, LeaveDown, BeginRecovery, Scan, GiveUp,
            Probe, Adopt, Reject, NextHost, Goto
    <2> QED
        BY <1>3, <2>1, <2>2, <2>3, <2>4
<1>4. CASE ForceStep /\ ~ MonitorBlocks
    <2>1. CASE ForceProxy
        BY <1>2, <1>4, <2>1 DEF ForceProxy, ForwardUpdated
    <2>2. CASE ForceReload
        BY <1>1, <1>4, <2>2 DEF ForceReload, NginxReloaded
    <2>3. CASE ForceCheck \/ ForceSweep \/ ForceCommit
        BY <1>4, <2>3
        DEF ForceCheck, ForceSweep, ForceCommit, RequestOver, vars
    <2> QED
        BY <1>4, <2>1, <2>2, <2>3 DEF ForceStep
<1>5. ASSUME NEW h \in HostIds, ForceRequest(h) \/ EditHost(h) \/ DeleteHost(h)
      PROVE  NginxInv'
    BY <1>5 DEF ForceRequest, EditHost, DeleteHost, forceVars
<1>6. CASE EnvironmentStep /\ UNCHANGED forceVars
    BY <1>6 DEF EnvironmentStep, GraceElapses, forceVars
<1>7. CASE UNCHANGED allVars
    BY <1>7 DEF allVars, vars, forceVars
<1> QED
    BY <1>1, <1>3, <1>4, <1>5, <1>6, <1>7 DEF HealerNext

(* When NPM does what it is asked, nginx serves what the proxy_host rows   *)
(* say whenever neither coroutine is inside its calls to NPM: a force-scan *)
(* and a recovery of the same proxy never leave an update unloaded.        *)
THEOREM NginxServesDatabaseHolds ==
    ASSUME Faults \cap {"mariadb", "reload", "signal", "crash"} = {}
    PROVE  HealerSpec => []NginxServesDatabase
<1>1. HealerInit => NginxInv
    BY DEF HealerInit, Init, StoreInit, MonitorInit, NginxInv,
           NginxServesDatabase, CallersExclude, MonitorBlocks, ForceBlocks
<1>2. NginxInv => NginxServesDatabase
    BY DEF NginxInv
<1> QED
    BY <1>1, <1>2, NginxStep, PTL DEF HealerSpec

-----------------------------------------------------------------------------
(* An "updated" event.  Between the update and the reload the row of the   *)
(* proxy holds the address this recovery found, for nobody else runs; and  *)
(* where the recovery finds the row right already, nginx serves the row.   *)

UpdateInHand == pc = "reload" => forward[row.npm] = newIp

LEMMA UpdateStays ==
    ASSUME HealerTypeOK, UpdateInHand, [HealerNext]_allVars
    PROVE  UpdateInHand'
<1> USE DEF UpdateInHand, MonitorBlocks
<1>1. CASE MonitorStep
    <2>1. CASE UpdateProxy
        BY <2>1
        DEF UpdateProxy, ForwardUpdated, NextHost, Goto, HealerTypeOK, TypeOK,
            NpmTypeOK, MonitorTypeOK
    <2>2. ASSUME ~ UpdateProxy PROVE pc' # "reload"
        BY <1>1, <2>2
        DEF MonitorStep, BeginCycle, EndCycle, TakeHost, CheckHost,
            MarkHealthy, MarkDown, LeaveDown, BeginRecovery, Scan, GiveUp,
            Probe, Adopt, Reject, Reload, NextHost, Goto
    <2> QED
        BY <2>1, <2>2
<1>2. CASE ForceStep /\ ~ MonitorBlocks
    BY <1>2
    DEF ForceStep, ForceCheck, ForceSweep, ForceProxy, ForceReload,
        ForceCommit, vars
<1>3. ASSUME NEW h \in HostIds, ForceRequest(h) \/ EditHost(h) \/ DeleteHost(h)
      PROVE  UpdateInHand'
    BY <1>3 DEF ForceRequest, EditHost, DeleteHost
<1>4. ASSUME NEW h \in HostIds, GraceElapses(h)
      PROVE  UpdateInHand'
    <2>1. pc = "reload" => row \in Row
        BY DEF HealerTypeOK, TypeOK, MonitorTypeOK
    <2>2. row \in Row => row'.npm = row.npm
        BY <1>4 DEF GraceElapses, Row
    <2> QED
        BY <1>4, <2>1, <2>2 DEF GraceElapses
<1>5. CASE EnvironmentStep
    BY <1>4, <1>5 DEF EnvironmentStep
<1>6. CASE MonitorRestarts \/ ProcessRestarts
    BY <1>6 DEF MonitorRestarts, ProcessRestarts
<1>7. CASE UNCHANGED allVars
    BY <1>7 DEF allVars, vars
<1> QED
    BY <1>1, <1>2, <1>3, <1>5, <1>6, <1>7 DEF HealerNext

(* When NPM does what it is asked, nginx forwards to the address of a      *)
(* recovery by the time the recovery hands its "updated" event to          *)
(* send_event, also if a force-scan had changed the row before it.         *)
THEOREM UpdatedMeansServingHolds ==
    ASSUME Faults \cap {"mariadb", "reload", "signal", "crash"} = {}
    PROVE  HealerSpec => UpdatedMeansServing
<1> DEFINE Served == /\ pc \in {"npm", "reload"}
                     /\ pc' = "next"
                     /\ report'[row.id] = "updated"
                     => loaded'[row.npm] = newIp
<1>1. HealerInit => NginxInv /\ UpdateInHand
    BY DEF HealerInit, Init, StoreInit, MonitorInit, NginxInv, UpdateInHand,
           NginxServesDatabase, CallersExclude, MonitorBlocks, ForceBlocks
<1>2. HealerTypeOK /\ (NginxInv /\ UpdateInHand) /\ [HealerNext]_allVars
        => (NginxInv /\ UpdateInHand)'
    BY NginxStep, UpdateStays
<1>3. HealerTypeOK /\ NginxInv /\ UpdateInHand /\ [HealerNext]_allVars
        => [Served]_vars
    <2> SUFFICES ASSUME HealerTypeOK, NginxInv, UpdateInHand,
                        [HealerNext]_allVars,
                        pc \in {"npm", "reload"}, pc' = "next"
                 PROVE  loaded'[row.npm] = newIp
        OBVIOUS
    <2>1. CASE UpdateProxy /\ ~ ForceBlocks
        BY <2>1
        DEF UpdateProxy, GetProxyHost, ForwardUpdateFailed, Goto, NginxInv,
            NginxServesDatabase, ForceBlocks
    <2>2. CASE Reload
        BY <2>2
        DEF Reload, NginxReloaded, ReloadRefused, ReloadFailed, ReloadRaised,
            UpdateInHand
    <2>3. (UpdateProxy /\ ~ ForceBlocks) \/ Reload
        <3>1. ~ MonitorRestarts /\ ~ ProcessRestarts
            BY DEF MonitorRestarts, ProcessRestarts
        <3>2. MonitorStep => UpdateProxy \/ Reload
            BY DEF MonitorStep, BeginCycle, EndCycle, TakeHost, CheckHost,
                   MarkHealthy, MarkDown, LeaveDown, BeginRecovery, Scan,
                   GiveUp, Probe, Adopt, Reject
        <3>3. ~ ForceStep
            BY DEF ForceStep, ForceCheck, ForceSweep, ForceProxy, ForceReload,
                   ForceCommit, vars
        <3>4. \A h \in HostIds :
                ~ ForceRequest(h) /\ ~ EditHost(h) /\ ~ DeleteHost(h)
            BY DEF ForceRequest, EditHost, DeleteHost
        <3>5. ~ EnvironmentStep
            BY DEF EnvironmentStep, GraceElapses
        <3>6. ~ UNCHANGED allVars
            BY DEF allVars, vars
        <3> QED
            BY <3>1, <3>2, <3>3, <3>4, <3>5, <3>6 DEF HealerNext
    <2> QED
        BY <2>1, <2>2, <2>3
<1>4. [][Served]_vars => UpdatedMeansServing
    BY DEF UpdatedMeansServing
<1> HIDE DEF Served
<1> QED
    BY <1>1, <1>2, <1>3, <1>4, HealerTypeCorrect, PTL DEF HealerSpec

-----------------------------------------------------------------------------
(* Down hosts stay stamped when operators edit and delete records, for     *)
(* neither form touches host_state.  A force-scan is another matter.       *)

LEMMA StampNoForce ==
    ASSUME "force" \notin Ops, HealerTypeOK, StampInv, fpc = "none",
           [HealerNext]_allVars
    PROVE  StampInv' /\ fpc' = "none"
<1> USE DEF HealerTypeOK
<1>1. ~ ForceStep /\ ~ ProcessRestarts
    BY DEF ForceStep, ForceCheck, ForceSweep, ForceProxy, ForceReload,
           ForceCommit, ProcessRestarts
<1>2. CASE /\ MonitorStep \/ MonitorRestarts \/ EnvironmentStep
           /\ UNCHANGED forceVars
    BY <1>2, StampMonitorStep, StampEnvironment DEF forceVars
<1>3. ASSUME NEW h \in HostIds, ForceRequest(h) \/ EditHost(h) \/ DeleteHost(h)
      PROVE  StampInv' /\ fpc' = "none"
    BY <1>3
    DEF ForceRequest, EditHost, DeleteHost, forceVars, StampInv, DownIsStamped,
        SnapshotIsCurrent, RowInHandIsCurrent, FreshIsUnreachable, StatusOf
<1>4. CASE UNCHANGED allVars
    BY <1>4, StampStutter DEF allVars, forceVars
<1> QED
    BY <1>1, <1>2, <1>3, <1>4 DEF HealerNext

LEMMA StampWithEdits ==
    ASSUME "force" \notin Ops
    PROVE  HealerSpec => [](StampInv /\ fpc = "none")
<1>1. HealerInit => StampInv /\ fpc = "none"
    BY StampInit DEF HealerInit
<1>2. HealerTypeOK /\ (StampInv /\ fpc = "none") /\ [HealerNext]_allVars
        => (StampInv /\ fpc = "none")'
    BY StampNoForce
<1> QED
    BY <1>1, <1>2, HealerTypeCorrect, PTL DEF HealerSpec

(* However records are edited, disabled or deleted while the monitor works *)
(* on them, a host that is down has the stamp its grace period is counted  *)
(* from, so that the monitor does not stop looking for it.                 *)
THEOREM DownIsStampedWithEdits ==
    ASSUME "force" \notin Ops
    PROVE  HealerSpec => []DownIsStamped
<1>1. StampInv => DownIsStamped
    BY DEF StampInv
<1> QED
    BY <1>1, StampWithEdits, PTL

(* Nor do edits and deletions disturb the lifecycle: also of a record that *)
(* changes or goes in the middle of its recovery, the status is only what  *)
(* Lifecycle lets follow on the status before.                             *)
THEOREM FollowsLifecycleWithEdits ==
    ASSUME "force" \notin Ops, "crash" \notin Faults
    PROVE  HealerSpec => FollowsLifecycle
<1>1. /\ HealerTypeOK /\ RecoveringIsInHand
      /\ StampInv /\ fpc = "none"
      /\ [HealerNext]_allVars
      => [StatusLifecycle!Next]_(StatusLifecycle!vars)
    <2> SUFFICES ASSUME HealerTypeOK, RecoveringIsInHand, StampInv,
                        fpc = "none", [HealerNext]_allVars
                 PROVE  [StatusLifecycle!Next]_(StatusLifecycle!vars)
        OBVIOUS
    <2>1. ~ MonitorRestarts /\ ~ ProcessRestarts /\ ~ ForceStep
        BY DEF MonitorRestarts, ProcessRestarts, ForceStep, ForceCheck,
               ForceSweep, ForceProxy, ForceReload, ForceCommit
    <2>2. CASE MonitorStep \/ EnvironmentStep
        BY <2>2, LifecycleMonitorStep, LifecycleEnvironment DEF HealerTypeOK
    <2>3. ASSUME NEW h \in HostIds,
                 ForceRequest(h) \/ EditHost(h) \/ DeleteHost(h)
          PROVE  hstate' = hstate
        BY <2>3 DEF ForceRequest, EditHost, DeleteHost
    <2>4. CASE UNCHANGED allVars
        BY <2>4, LifecycleStutter DEF allVars, vars
    <2> QED
        BY <2>1, <2>2, <2>3, <2>4, LifecycleStutter DEF HealerNext
<1>2. HealerInit => StatusLifecycle!Init
    BY LifecycleInit DEF HealerInit
<1> QED
    BY <1>1, <1>2, HealerTypeCorrect, StampWithEdits,
       RecoveringIsInHandWithRequests, PTL
    DEF HealerSpec, FollowsLifecycle, StatusLifecycle!SafetySpec
=============================================================================
