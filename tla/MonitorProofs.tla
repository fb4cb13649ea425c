--------------------------- MODULE MonitorProofs ----------------------------
(***************************************************************************)
(* Proofs about Monitor, for every network, fleet and bound.               *)
(***************************************************************************)
EXTENDS Monitor, TLAPS

USE DEF Untouched, lanVars, npmVars, storeVars, monVars

-----------------------------------------------------------------------------
(* Type correctness.                                                       *)

USE DEF MonitorPcs, Recovering

(* What the joined SELECT returns is a row of the batch.                   *)
LEMMA JoinedIsRow ==
    ASSUME StoreTypeOK, NEW h \in HostIds
    PROVE  Joined(h) \in Row
BY DEF StoreTypeOK, HostRow, StateRow, Statuses, Stamps, Joined, StatusOf, Row,
       Address

LEMMA InitType == Init => TypeOK
<1> SUFFICES ASSUME Init PROVE TypeOK
    OBVIOUS
<1>1. LanTypeOK
    BY LanAssumption
    DEF Init, LanInit, LanTypeOK, Address
<1>2. NpmTypeOK
    BY DEF Init, StoreInit, NpmTypeOK, Address
<1>3. StoreTypeOK
    BY LanAssumption, StoreAssumption
    DEF Init, StoreInit, StoreTypeOK, HostRow, Address
<1>4. MonitorTypeOK
    BY DEF Init, MonitorInit, MonitorTypeOK, Address
<1> QED
    BY <1>1, <1>2, <1>3, <1>4 DEF TypeOK

(* The two ways a table row is written keep the tables well typed.         *)
LEMMA CurrentIpType ==
    ASSUME StoreTypeOK, NEW ids, NEW ip \in Address
    PROVE  WithCurrentIp(ids, ip) \in [HostIds -> HostRow]
BY DEF StoreTypeOK, WithCurrentIp, HostRow

LEMMA StateRowType ==
    ASSUME StoreTypeOK, NEW h \in HostIds, NEW new \in StateRow
    PROVE  [hstate EXCEPT ![h] = new] \in [HostIds -> StateRow]
BY DEF StoreTypeOK

LEMMA EnsureStateRowType ==
    ASSUME StoreTypeOK, NEW h \in HostIds
    PROVE  EnsureStateRow(h) \in [HostIds -> StateRow]
BY DEF StoreTypeOK, EnsureStateRow, StateRow, Statuses

LEMMA LanStepType == LanTypeOK /\ LanStep => LanTypeOK'
<1> SUFFICES ASSUME LanTypeOK, LanStep PROVE LanTypeOK'
    OBVIOUS
<1> USE LanAssumption DEF LanTypeOK, Stimulus, Address
<1>1. ASSUME NEW m \in Macs, NEW ip \in IPs, Move(m, ip) PROVE LanTypeOK'
    BY <1>1 DEF Move
<1>2. ASSUME NEW m \in Macs, GoOffline(m) PROVE LanTypeOK'
    BY <1>2 DEF GoOffline
<1>3. ASSUME NEW m \in Macs, NEW p \in Ports, StopService(m, p)
      PROVE  LanTypeOK'
    BY <1>3 DEF StopService
<1>4. ASSUME NEW m \in Macs, NEW p \in Ports, StartService(m, p)
      PROVE  LanTypeOK'
    BY <1>4 DEF StartService
<1> QED
    BY <1>1, <1>2, <1>3, <1>4 DEF LanStep

(* Every step of the task, one action at a time.                           *)
LEMMA MonitorStepType == TypeOK /\ MonitorStep => TypeOK'
<1> SUFFICES ASSUME TypeOK, MonitorStep PROVE TypeOK'
    OBVIOUS
<1> USE LanAssumption DEF TypeOK, LanTypeOK, NpmTypeOK, MonitorTypeOK
<1> USE DEF Address, Goto, NextHost
<1>1. CASE BeginCycle
    <2>1. StoreTypeOK'
        BY <1>1 DEF BeginCycle, StoreTypeOK
    <2>2. DOMAIN batch' \subseteq HostIds
          /\ \A h \in DOMAIN batch' : batch'[h] \in Row /\ batch'[h].id = h
        BY <1>1, JoinedIsRow DEF BeginCycle, Joined
    <2> QED
        BY <1>1, <2>1, <2>2 DEF BeginCycle
<1>2. CASE EndCycle
    BY <1>2 DEF EndCycle, StoreTypeOK
<1>3. ASSUME NEW h \in HostIds, TakeHost(h) PROVE TypeOK'
    <2>1. StoreTypeOK'
        BY <1>3, EnsureStateRowType DEF TakeHost, StoreTypeOK
    <2> QED
        BY <1>3, <2>1 DEF TakeHost, Restrict
<1>4. CASE CheckHost
    BY <1>4 DEF CheckHost, StoreTypeOK
<1>5. CASE MarkHealthy
    <2>1. row \in Row /\ row.id \in HostIds /\ row.ip \in Address
        BY <1>5 DEF MarkHealthy, Row
    <2>2. HealthyAt(row.ip) \in StateRow
        BY <2>1 DEF HealthyAt, StateRow, Statuses, Stamps
    <2>3. StoreTypeOK'
        BY <1>5, <2>1, <2>2, CurrentIpType, StateRowType
        DEF MarkHealthy, StoreTypeOK
    <2> QED
        BY <1>5, <2>3 DEF MarkHealthy
<1>6. CASE MarkDown
    <2>1. StoreTypeOK'
        BY <1>6 DEF MarkDown, Row, StoreTypeOK, StateRow, Statuses, Stamps
    <2> QED
        BY <1>6, <2>1 DEF MarkDown
<1>7. CASE LeaveDown
    BY <1>7 DEF LeaveDown, StoreTypeOK
<1>8. CASE BeginRecovery
    <2>1. StoreTypeOK'
        BY <1>8 DEF BeginRecovery, Row, StoreTypeOK, StateRow, Statuses
    <2> QED
        BY <1>8, <2>1 DEF BeginRecovery
<1>9. CASE Scan
    <2>1. row \in Row /\ row.mac \in Macs
        BY <1>9 DEF Scan, Row
    <2>2. FindIpByMac(row.mac) \subseteq IPs \cup {Null}
        BY <2>1 DEF FindIpByMac
    <2> QED
        BY <1>9, <2>1, <2>2 DEF Scan, StoreTypeOK
<1>10. CASE GiveUp
    <2>1. row \in Row /\ row.id \in HostIds
        BY <1>10 DEF GiveUp, Row
    <2>2. StoreTypeOK'
        BY <1>10, <2>1 DEF GiveUp, StoreTypeOK, StateRow, Statuses
    <2> QED
        BY <1>10, <2>1, <2>2 DEF GiveUp
<1>11. CASE Probe
    BY <1>11 DEF Probe, StoreTypeOK
<1>12. CASE Adopt
    <2>1. row \in Row /\ row.id \in HostIds /\ row.npm \in Npms \cup {Null}
        BY <1>12 DEF Adopt, Row
    <2>2. HealthyAt(newIp) \in StateRow
        BY <1>12 DEF Adopt, HealthyAt, StateRow, Statuses, Stamps
    <2>3. StoreTypeOK'
        BY <1>12, <2>1, <2>2, CurrentIpType, StateRowType
        DEF Adopt, StoreTypeOK
    <2> QED
        BY <1>12, <2>1, <2>3 DEF Adopt
<1>13. CASE Reject
    <2>1. row \in Row /\ row.id \in HostIds
        BY <1>13 DEF Reject, Row
    <2>2. StoreTypeOK'
        BY <1>13, <2>1 DEF Reject, StoreTypeOK, StateRow, Statuses
    <2> QED
        BY <1>13, <2>1, <2>2 DEF Reject
<1>14. CASE UpdateProxy
    <2>1. row \in Row /\ row.id \in HostIds
        BY <1>14 DEF UpdateProxy, Row
    <2>2. NpmTypeOK'
        BY <1>14 DEF UpdateProxy, ForwardUpdated, ForwardUpdateFailed
    <2> QED
        BY <1>14, <2>1, <2>2 DEF UpdateProxy, StoreTypeOK
<1>15. CASE Reload
    <2>1. row \in Row /\ row.id \in HostIds
        BY <1>15 DEF Reload, Row
    <2>2. NpmTypeOK'
        BY <1>15
        DEF Reload, NginxReloaded, ReloadFailed, ReloadRefused, ReloadRaised
    <2> QED
        BY <1>15, <2>1, <2>2 DEF Reload, StoreTypeOK
<1> QED
    BY <1>1, <1>2, <1>3, <1>4, <1>5, <1>6, <1>7, <1>8, <1>9, <1>10, <1>11,
       <1>12, <1>13, <1>14, <1>15
    DEF MonitorStep

(* Restarts and the world around the task.                                 *)
LEMMA EnvironmentType ==
    TypeOK /\ (EnvironmentStep \/ MonitorRestarts) => TypeOK'
<1> SUFFICES ASSUME TypeOK, EnvironmentStep \/ MonitorRestarts PROVE TypeOK'
    OBVIOUS
<1> USE DEF TypeOK, NpmTypeOK, MonitorTypeOK
<1>1. CASE LanStep /\ UNCHANGED <<npmVars, storeVars, monVars>>
    BY <1>1, LanStepType DEF StoreTypeOK
<1>2. ASSUME NEW h \in HostIds, GraceElapses(h) PROVE TypeOK'
    <2>1. StoreTypeOK'
        BY <1>2 DEF GraceElapses, InHand, StoreTypeOK, StateRow, Stamps, Aged
    <2>2. \A r \in Row : [r EXCEPT !.since = Aged(@)] \in Row
        BY DEF Row, Stamps, Aged
    <2>3. \A x \in DOMAIN batch' : batch'[x] \in Row /\ batch'[x].id = x
        BY <1>2, <2>2 DEF GraceElapses, InHand, Row
    <2>4. row' \in Row \cup {Null} /\ (row \in Row => row' \in Row)
          /\ (row \in Row => row'.npm = row.npm)
        BY <1>2, <2>2 DEF GraceElapses, InHand, Row
    <2> QED
        BY <1>2, <2>1, <2>3, <2>4 DEF GraceElapses, InHand, LanTypeOK
<1>3. CASE MonitorRestarts
    BY <1>3, LanAssumption
    DEF MonitorRestarts, Stimulus, LanTypeOK, StoreTypeOK, Address
<1> QED
    BY <1>1, <1>2, <1>3 DEF EnvironmentStep

LEMMA StutterType == TypeOK /\ UNCHANGED vars => TypeOK'
BY DEF vars, TypeOK, LanTypeOK, NpmTypeOK, StoreTypeOK, MonitorTypeOK

(* The state of the monitor, of its tables and of the world it works in is *)
(* well typed in every reachable state: rows in hand are rows of the       *)
(* SELECT, and an address that is adopted or sent to NPM is never None.    *)
THEOREM MonitorTypeCorrect == Spec => []TypeOK
<1>1. TypeOK /\ [Next]_vars => TypeOK'
    BY MonitorStepType, EnvironmentType, StutterType DEF Next
<1> QED
    BY <1>1, InitType, PTL DEF Spec

-----------------------------------------------------------------------------
(* No host is left recovering.  The invariant is inductive as it stands:   *)
(* the status is only set for the host in hand, and each of the three ways *)
(* out of the recovery steps sets it to something else.                    *)

LEMMA RecoveringMonitorStep ==
    TypeOK /\ RecoveringIsInHand /\ MonitorStep => RecoveringIsInHand'
<1> SUFFICES ASSUME TypeOK, RecoveringIsInHand, MonitorStep,
                    NEW h \in HostIds, hstate'[h].status = "recovering"
             PROVE  pc' \in Recovering /\ row'.id = h
    BY DEF RecoveringIsInHand
<1> USE DEF TypeOK, MonitorTypeOK, StoreTypeOK, RecoveringIsInHand
<1> USE DEF Goto, NextHost, HealthyAt, Row, StateRow
<1>1. CASE BeginCycle \/ EndCycle
    BY <1>1 DEF BeginCycle, EndCycle
<1>2. ASSUME NEW x \in HostIds, TakeHost(x)
      PROVE  pc' \in Recovering /\ row'.id = h
    BY <1>2 DEF TakeHost, EnsureStateRow
<1>3. CASE CheckHost \/ LeaveDown
    BY <1>3 DEF CheckHost, LeaveDown
<1>4. CASE MarkHealthy
    BY <1>4 DEF MarkHealthy
<1>12. CASE MarkDown
    BY <1>12 DEF MarkDown
<1>5. CASE BeginRecovery
    BY <1>5 DEF BeginRecovery
<1>6. CASE Scan \/ Probe
    BY <1>6 DEF Scan, Probe
<1>7. CASE GiveUp
    BY <1>7 DEF GiveUp
<1>8. CASE Adopt
    BY <1>8 DEF Adopt
<1>9. CASE Reject
    BY <1>9 DEF Reject
<1>10. CASE UpdateProxy
    BY <1>10 DEF UpdateProxy
<1>11. CASE Reload
    BY <1>11 DEF Reload
<1> QED
    BY <1>1, <1>2, <1>3, <1>4, <1>5, <1>6, <1>7, <1>8, <1>9, <1>10, <1>11,
       <1>12
    DEF MonitorStep

LEMMA RecoveringEnvironment ==
    TypeOK /\ RecoveringIsInHand /\ EnvironmentStep => RecoveringIsInHand'
<1> SUFFICES ASSUME TypeOK, RecoveringIsInHand, EnvironmentStep
             PROVE  RecoveringIsInHand'
    OBVIOUS
<1> USE DEF RecoveringIsInHand
<1>1. CASE LanStep /\ UNCHANGED <<npmVars, storeVars, monVars>>
    BY <1>1
<1>2. ASSUME NEW x \in HostIds, GraceElapses(x) PROVE RecoveringIsInHand'
    <2>1. \A h \in HostIds : hstate'[h].status = hstate[h].status
        BY <1>2 DEF GraceElapses, InHand, TypeOK, StoreTypeOK, StateRow
    <2>2. pc' = pc
        BY <1>2 DEF GraceElapses, InHand, TypeOK, MonitorTypeOK, Row
    <2>3. pc \in Recovering => row'.id = row.id
        BY <1>2 DEF GraceElapses, InHand, TypeOK, MonitorTypeOK, Row
    <2> QED
        BY <2>1, <2>2, <2>3
<1> QED
    BY <1>1, <1>2 DEF EnvironmentStep

LEMMA RecoveringInit == Init => RecoveringIsInHand
BY DEF Init, StoreInit, RecoveringIsInHand

(* As long as the task is not interrupted from outside, status             *)
(* "recovering" is only ever the status of the host whose recovery is      *)
(* running: no path of _start_recovery leaves a host stranded in it.       *)
THEOREM RecoveringIsInHandHolds ==
    ASSUME "crash" \notin Faults
    PROVE  Spec => []RecoveringIsInHand
<1>1. TypeOK /\ RecoveringIsInHand /\ [Next]_vars => RecoveringIsInHand'
    <2> SUFFICES ASSUME TypeOK, RecoveringIsInHand, [Next]_vars
                 PROVE  RecoveringIsInHand'
        OBVIOUS
    <2>1. CASE UNCHANGED vars
        BY <2>1 DEF vars, RecoveringIsInHand
    <2>2. ~ MonitorRestarts
        BY DEF MonitorRestarts
    <2> QED
        BY <2>1, <2>2, RecoveringMonitorStep, RecoveringEnvironment DEF Next
<1> QED
    BY <1>1, RecoveringInit, MonitorTypeCorrect, PTL DEF Spec

-----------------------------------------------------------------------------
(* Down hosts are stamped.  StampInv is the inductive invariant: without   *)
(* the rows of the batch being current, MarkDown could set back a stamp    *)
(* and a recovery could end with a host that has none.                     *)

LEMMA StampInit == Init => StampInv
BY StoreAssumption
   DEF Init, StoreInit, MonitorInit, StampInv, DownIsStamped, SnapshotIsCurrent,
       RowInHandIsCurrent, FreshIsUnreachable

(* The end of the work on a host: one row of host_state is written, that   *)
(* host is no longer in the batch, and the others stay current.            *)
LEMMA StampRowWritten ==
    ASSUME TypeOK, StampInv, pc \notin {"idle", "next"},
           NEW new \in StateRow,
           new.status \in {"healthy", "unreachable"},
           new.status = "unreachable" => new.since # Null,
           new.since = "fresh" => new.status = "unreachable",
           hstate' = [hstate EXCEPT ![row.id] = new],
           pc' \in {"next", "npm"}, batch' = batch,
           pc' = "npm" => row' = row
    PROVE  StampInv'
<1> USE DEF TypeOK, MonitorTypeOK, StoreTypeOK, StampInv
<1>1. row.id \in HostIds /\ row.id \notin DOMAIN batch
    BY DEF Row, RowInHandIsCurrent
<1>2. hstate'[row.id] = new
      /\ \A h \in HostIds \ {row.id} : hstate'[h] = hstate[h]
    BY <1>1
<1>3. DownIsStamped' /\ FreshIsUnreachable'
    BY <1>1, <1>2 DEF DownIsStamped, FreshIsUnreachable
<1>4. SnapshotIsCurrent'
    BY <1>1, <1>2 DEF SnapshotIsCurrent, StatusOf
<1>5. RowInHandIsCurrent'
    BY <1>1 DEF RowInHandIsCurrent
<1> QED
    BY <1>3, <1>4, <1>5

LEMMA StampMonitorStep == TypeOK /\ StampInv /\ MonitorStep => StampInv'
<1> SUFFICES ASSUME TypeOK, StampInv, MonitorStep PROVE StampInv'
    OBVIOUS
<1> USE StoreAssumption
<1> USE DEF TypeOK, MonitorTypeOK, StoreTypeOK, Goto, NextHost, StampInv
<1>0. pc \notin {"idle", "next"} =>
        /\ row \in Row /\ row.id \in HostIds
        /\ hstate[row.id] \in StateRow
        /\ row.id \notin DOMAIN batch
    BY DEF Row, RowInHandIsCurrent
<1>1. CASE BeginCycle
    BY <1>1
    DEF BeginCycle, Joined, DownIsStamped, SnapshotIsCurrent,
        RowInHandIsCurrent, FreshIsUnreachable, StatusOf
<1>2. CASE EndCycle
    BY <1>2
    DEF EndCycle, DownIsStamped, SnapshotIsCurrent, RowInHandIsCurrent,
        FreshIsUnreachable, StatusOf
<1>3. ASSUME NEW x \in HostIds, TakeHost(x) PROVE StampInv'
    BY <1>3
    DEF TakeHost, EnsureStateRow, Restrict, Row, StateRow, DownIsStamped,
        SnapshotIsCurrent, RowInHandIsCurrent, FreshIsUnreachable, StatusOf
<1>4. CASE CheckHost
    BY <1>4
    DEF CheckHost, DownIsStamped, SnapshotIsCurrent, RowInHandIsCurrent,
        FreshIsUnreachable, StatusOf
<1>5. CASE MarkHealthy
    <2>1. HealthyAt(row.ip) \in StateRow
        BY <1>0, <1>5
        DEF MarkHealthy, HealthyAt, Row, StateRow, Statuses, Stamps
    <2> QED
        BY <1>0, <1>5, <2>1, StampRowWritten
        DEF MarkHealthy, HealthyAt
<1>6. CASE MarkDown
    <2> DEFINE new == [hstate[row.id] EXCEPT !.status = "unreachable",
                                             !.since = "fresh"]
    <2>1. new \in StateRow
        BY <1>0, <1>6 DEF MarkDown, StateRow, Statuses, Stamps
    <2>2. hstate' = [hstate EXCEPT ![row.id] = new]
        BY <1>0, <1>6 DEF MarkDown
    <2>3. new.status = "unreachable" /\ new.since = "fresh"
        BY <1>0, <1>6 DEF MarkDown, StateRow
    <2> HIDE DEF new
    <2> QED
        BY <1>0, <1>6, <2>1, <2>2, <2>3, StampRowWritten
        DEF MarkDown
<1>7. CASE LeaveDown
    BY <1>7
    DEF LeaveDown, DownIsStamped, SnapshotIsCurrent, RowInHandIsCurrent,
        FreshIsUnreachable, StatusOf
<1>8. CASE BeginRecovery
    <2> DEFINE new == [hstate[row.id] EXCEPT !.status = "recovering"]
    <2>1. hstate[row.id].since = "old"
        BY <1>8 DEF BeginRecovery, RowInHandIsCurrent
    <2>2. hstate' = [hstate EXCEPT ![row.id] = new]
        BY <1>0, <1>8 DEF BeginRecovery
    <2>3. new.status = "recovering" /\ new.since = "old"
        BY <1>0, <1>8, <2>1 DEF BeginRecovery, StateRow
    <2> HIDE DEF new
    <2>4. hstate'[row.id] = new
          /\ \A h \in HostIds \ {row.id} : hstate'[h] = hstate[h]
        BY <1>0, <1>8, <2>2 DEF BeginRecovery
    <2>5. pc' = "scan" /\ batch' = batch /\ row' = row
        BY <1>8 DEF BeginRecovery
    <2>6. DownIsStamped' /\ FreshIsUnreachable'
        BY <2>3, <2>4 DEF DownIsStamped, FreshIsUnreachable
    <2>7. SnapshotIsCurrent'
        BY <1>0, <1>8, <2>4, <2>5
        DEF BeginRecovery, SnapshotIsCurrent, StatusOf
    <2>8. RowInHandIsCurrent'
        BY <1>0, <1>8, <2>3, <2>4, <2>5
        DEF BeginRecovery, RowInHandIsCurrent
    <2> QED
        BY <2>6, <2>7, <2>8
<1>9. CASE Scan
    BY <1>9
    DEF Scan, DownIsStamped, SnapshotIsCurrent, RowInHandIsCurrent,
        FreshIsUnreachable, StatusOf
<1>10. ASSUME GiveUp \/ Reject PROVE StampInv'
    <2> DEFINE ip == IF pc = "reject" THEN newIp ELSE hstate[row.id].lastIp
    <2> DEFINE new == [status |-> "unreachable", since |-> "old", lastIp |-> ip]
    <2>1. /\ hstate[row.id].since = "old"
          /\ row \in Row /\ row.id \in HostIds /\ hstate[row.id] \in StateRow
        BY <1>0, <1>10 DEF GiveUp, Reject, RowInHandIsCurrent
    <2>2. new \in StateRow
        BY <2>1 DEF StateRow, Statuses, Stamps, Address
    <2>3. hstate' = [hstate EXCEPT ![row.id] = new]
        BY <1>10, <2>1 DEF GiveUp, Reject, StateRow
    <2>4. new.status = "unreachable" /\ new.since = "old"
        OBVIOUS
    <2> HIDE DEF new
    <2> QED
        BY <1>10, <2>1, <2>2, <2>3, <2>4, StampRowWritten
        DEF GiveUp, Reject
<1>11. CASE Probe
    BY <1>11
    DEF Probe, DownIsStamped, SnapshotIsCurrent, RowInHandIsCurrent,
        FreshIsUnreachable, StatusOf
<1>12. CASE Adopt
    <2>1. HealthyAt(newIp) \in StateRow
        BY <1>12 DEF Adopt, HealthyAt, StateRow, Statuses, Stamps, Address
    <2> QED
        BY <1>0, <1>12, <2>1, StampRowWritten
        DEF Adopt, HealthyAt
<1>13. CASE UpdateProxy
    BY <1>13
    DEF UpdateProxy, DownIsStamped, SnapshotIsCurrent, RowInHandIsCurrent,
        FreshIsUnreachable, StatusOf
<1>14. CASE Reload
    BY <1>14
    DEF Reload, DownIsStamped, SnapshotIsCurrent, RowInHandIsCurrent,
        FreshIsUnreachable, StatusOf
<1> QED
    BY <1>1, <1>2, <1>3, <1>4, <1>5, <1>6, <1>7, <1>8, <1>9, <1>10, <1>11,
       <1>12, <1>13, <1>14
    DEF MonitorStep

LEMMA StampEnvironment ==
    TypeOK /\ StampInv /\ (EnvironmentStep \/ MonitorRestarts) => StampInv'
<1> SUFFICES ASSUME TypeOK, StampInv, EnvironmentStep \/ MonitorRestarts
             PROVE  StampInv'
    OBVIOUS
<1> USE StoreAssumption
<1> USE DEF TypeOK, MonitorTypeOK, StoreTypeOK, Row, StateRow
<1> USE DEF StampInv, DownIsStamped, SnapshotIsCurrent, RowInHandIsCurrent,
            FreshIsUnreachable, StatusOf
<1>1. CASE LanStep /\ UNCHANGED <<npmVars, storeVars, monVars>>
    BY <1>1
<1>2. ASSUME NEW x \in HostIds, GraceElapses(x) PROVE StampInv'
    BY <1>2 DEF GraceElapses, InHand, Aged
<1>3. CASE MonitorRestarts
    BY <1>3 DEF MonitorRestarts
<1> QED
    BY <1>1, <1>2, <1>3 DEF EnvironmentStep

LEMMA StampStutter == StampInv /\ UNCHANGED vars => StampInv'
BY DEF vars, StampInv, DownIsStamped, SnapshotIsCurrent, RowInHandIsCurrent,
       FreshIsUnreachable, StatusOf

(* As far as the monitor alone is concerned, restarts included, a host     *)
(* that is down always has the stamp its grace period is counted from, and *)
(* no row it decides on disagrees with the database.                       *)
THEOREM StampInvHolds == Spec => []StampInv
<1>1. TypeOK /\ StampInv /\ [Next]_vars => StampInv'
    BY StampMonitorStep, StampEnvironment, StampStutter DEF Next
<1> QED
    BY <1>1, StampInit, MonitorTypeCorrect, PTL DEF Spec

-----------------------------------------------------------------------------
(* The monitor implements the abstract lifecycle, liveness apart.          *)

USE DEF StatusLifecycle!Next, StatusLifecycle!vars

LEMMA LifecycleInit == Init => StatusLifecycle!Init
<1> SUFFICES ASSUME Init PROVE StatusLifecycle!Init
    OBVIOUS
<1>1. \A h \in HostIds : StatusOf(h) = "unknown" /\ hstate[h].since = Null
    BY DEF Init, StoreInit, StatusOf
<1> QED
    BY <1>1 DEF StatusLifecycle!Init

(* Writing a row that says healthy is Confirm.                             *)
LEMMA LifecycleConfirm ==
    ASSUME StoreTypeOK, NEW h \in HostIds, NEW ip,
           hstate' = [hstate EXCEPT ![h] = HealthyAt(ip)]
    PROVE  StatusLifecycle!Confirm(h)
BY DEF StatusLifecycle!Confirm, StatusOf, HealthyAt, StoreTypeOK

(* Leaving host_state alone is a stutter.                                  *)
LEMMA LifecycleStutter ==
    hstate' = hstate => UNCHANGED StatusLifecycle!vars
BY DEF StatusOf

LEMMA LifecycleMonitorStep ==
    TypeOK /\ StampInv /\ RecoveringIsInHand /\ MonitorStep
        => [StatusLifecycle!Next]_(StatusLifecycle!vars)
<1> SUFFICES ASSUME TypeOK, StampInv, RecoveringIsInHand, MonitorStep
             PROVE  [StatusLifecycle!Next]_(StatusLifecycle!vars)
    OBVIOUS
<1> USE DEF TypeOK, StoreTypeOK, MonitorTypeOK
<1>0. pc \notin {"idle", "next"} =>
        row \in Row /\ row.id \in HostIds /\ hstate[row.id] \in StateRow
    BY DEF Row
<1>1. CASE hstate' = hstate
    BY <1>1, LifecycleStutter
<1>2. ASSUME NEW x \in HostIds, TakeHost(x)
      PROVE  UNCHANGED StatusLifecycle!vars
    BY <1>2 DEF TakeHost, EnsureStateRow, StatusOf, StateRow
<1>3. CASE MarkHealthy
    BY <1>0, <1>3, LifecycleConfirm DEF MarkHealthy
<1>4. CASE MarkDown
    <2>1. StatusOf(row.id) \in {"unknown", "healthy"}
        BY <1>4 DEF MarkDown, StampInv, RowInHandIsCurrent
    <2>2. PICK h \in HostIds : h = row.id
        BY <1>0, <1>4 DEF MarkDown
    <2>3. StatusLifecycle!Lose(h)
        BY <1>0, <1>4, <2>1, <2>2
        DEF MarkDown, StatusLifecycle!Lose, StatusOf, StateRow
    <2> QED
        BY <2>3
<1>5. CASE BeginRecovery
    <2>1. hstate[row.id].since = "old" /\ StatusOf(row.id) = "unreachable"
        BY <1>5 DEF BeginRecovery, StampInv, RowInHandIsCurrent
    <2>2. \A h \in HostIds : StatusOf(h) # "recovering"
        BY <1>5 DEF BeginRecovery, RecoveringIsInHand, StatusOf
    <2>3. StatusLifecycle!Escalate(row.id)
        BY <1>0, <1>5, <2>1, <2>2
        DEF BeginRecovery, StatusLifecycle!Escalate, StatusOf, StateRow
    <2>4. row.id \in HostIds
        BY <1>0, <1>5 DEF BeginRecovery
    <2> QED
        BY <2>3, <2>4
<1>6. ASSUME GiveUp \/ Reject
      PROVE  StatusLifecycle!Abandon(row.id) /\ row.id \in HostIds
    <2>1. hstate[row.id].status = "recovering" /\ row.id \in HostIds
        BY <1>0, <1>6 DEF GiveUp, Reject, StampInv, RowInHandIsCurrent
    <2> QED
        BY <1>6, <2>1
        DEF GiveUp, Reject, StatusLifecycle!Abandon, StatusOf, StateRow
<1>7. CASE Adopt
    BY <1>0, <1>7, LifecycleConfirm DEF Adopt
<1> QED
    BY <1>1, <1>2, <1>3, <1>4, <1>5, <1>6, <1>7
    DEF MonitorStep, BeginCycle, EndCycle, CheckHost, LeaveDown, Scan, Probe,
        UpdateProxy, Reload

LEMMA LifecycleEnvironment ==
    TypeOK /\ StampInv /\ EnvironmentStep
        => [StatusLifecycle!Next]_(StatusLifecycle!vars)
<1> SUFFICES ASSUME TypeOK, StampInv, EnvironmentStep
             PROVE  [StatusLifecycle!Next]_(StatusLifecycle!vars)
    OBVIOUS
<1>1. CASE hstate' = hstate
    BY <1>1, LifecycleStutter
<1>2. ASSUME NEW h \in HostIds, GraceElapses(h), hstate' # hstate
      PROVE  StatusLifecycle!GraceEnds(h)
    <2>1. hstate[h].since = "fresh"
        BY <1>2 DEF GraceElapses, Aged, TypeOK, StoreTypeOK, StateRow
    <2>2. hstate[h].status = "unreachable"
        BY <2>1 DEF StampInv, FreshIsUnreachable
    <2> QED
        BY <1>2, <2>1, <2>2
        DEF GraceElapses, Aged, StatusLifecycle!GraceEnds, StatusOf, TypeOK,
            StoreTypeOK, StateRow
<1> QED
    BY <1>1, <1>2 DEF EnvironmentStep

(* Uninterrupted, the monitor shows every host a status that follows the   *)
(* lifecycle of module Lifecycle: a recovery is only begun for a host that *)
(* is down for longer than its grace period, and never for two at a time.  *)
THEOREM FollowsLifecycleHolds ==
    ASSUME "crash" \notin Faults
    PROVE  Spec => FollowsLifecycle
<1>1. TypeOK /\ StampInv /\ RecoveringIsInHand /\ [Next]_vars
        => [StatusLifecycle!Next]_(StatusLifecycle!vars)
    <2>1. ~ MonitorRestarts
        BY DEF MonitorRestarts
    <2>2. UNCHANGED vars => hstate' = hstate
        BY DEF vars
    <2> QED
        BY <2>1, <2>2, LifecycleMonitorStep, LifecycleEnvironment,
           LifecycleStutter
        DEF Next
<1> QED
    BY <1>1, LifecycleInit, MonitorTypeCorrect, StampInvHolds,
       RecoveringIsInHandHolds, PTL
    DEF Spec, FollowsLifecycle, StatusLifecycle!SafetySpec
=============================================================================
