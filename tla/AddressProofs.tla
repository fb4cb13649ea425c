---------------------------- MODULE AddressProofs ---------------------------
(***************************************************************************)
(* Addresses are not mixed up between devices, for any fleet in which no   *)
(* two devices share a proxy, and as long as no operator types an address  *)
(* in.  An address travels from a sweep, or from the tables, through the   *)
(* row or the request in hand to hosts, host_state and NPM; AddressInv     *)
(* says at every stage whose address it is.                                *)
(***************************************************************************)
EXTENDS HealerProofs

USE DEF Untouched, lanVars, npmVars, storeVars, monVars, MonitorPcs, Recovering

ProxiesNotShared ==
    \A h, x \in HostIds :
        Fleet[h].npm # Null /\ Fleet[h].npm = Fleet[x].npm
            => Fleet[h].mac = Fleet[x].mac

DevicesAreSeen == \A m \in Macs : at[m] \in seen[m] \cup {Null}

RecordsAsAdded ==
    \A h \in HostIds :
        hosts[h].mac = Fleet[h].mac /\ hosts[h].npm = Fleet[h].npm

RowBelongs(r) ==
    /\ r.mac = Fleet[r.id].mac
    /\ r.npm = Fleet[r.id].npm
    /\ r.ip \in seen[r.mac] \cup {Null}

RowsBelong ==
    /\ \A h \in DOMAIN batch : RowBelongs(batch[h])
    /\ pc \notin {"idle", "next"} => RowBelongs(row) /\ row.ip # Null
    /\ pc \in {"found", "adopt", "reject", "npm", "reload"} =>
          newIp \in seen[row.mac]

RequestBelongs ==
    /\ fpc # "none" =>
          req.mac = Fleet[req.id].mac /\ req.npm = Fleet[req.id].npm
    /\ fpc \in {"npm", "reload", "commit"} =>
          macIp \in seen[req.mac] \cup {Null}

TablesInv == DevicesAreSeen /\ RecordsAsAdded /\ AddressesBelongToDevice

AddressInv == TablesInv /\ RowsBelong /\ RequestBelongs

-----------------------------------------------------------------------------
LEMMA AddressInit == HealerInit => AddressInv
<1> SUFFICES ASSUME HealerInit PROVE AddressInv
    OBVIOUS
<1> USE LanAssumption, StoreAssumption
<1> USE DEF HealerInit, Init, LanInit, StoreInit, MonitorInit
<1>1. DevicesAreSeen /\ RecordsAsAdded
    BY DEF DevicesAreSeen, RecordsAsAdded
<1>2. AddressesBelongToDevice
    BY DEF AddressesBelongToDevice
<1>3. RowsBelong /\ RequestBelongs
    BY DEF RowsBelong, RequestBelongs
<1> QED
    BY <1>1, <1>2, <1>3 DEF AddressInv, TablesInv

(* A device only ever adds to the addresses it has held.                   *)
LEMMA SeenGrows ==
    ASSUME LanTypeOK, DevicesAreSeen, LanStep
    PROVE  DevicesAreSeen' /\ \A m \in Macs : seen[m] \subseteq seen'[m]
<1> USE DEF LanTypeOK, DevicesAreSeen
<1>1. ASSUME NEW m \in Macs, NEW ip \in IPs, Move(m, ip)
      PROVE  DevicesAreSeen' /\ \A x \in Macs : seen[x] \subseteq seen'[x]
    BY <1>1 DEF Move
<1>2. ASSUME NEW m \in Macs, GoOffline(m)
      PROVE  DevicesAreSeen' /\ \A x \in Macs : seen[x] \subseteq seen'[x]
    BY <1>2 DEF GoOffline
<1>3. ASSUME NEW m \in Macs, NEW p \in Ports,
             StopService(m, p) \/ StartService(m, p)
      PROVE  DevicesAreSeen' /\ \A x \in Macs : seen[x] \subseteq seen'[x]
    BY <1>3 DEF StopService, StartService
<1> QED
    BY <1>1, <1>2, <1>3 DEF LanStep

(* A sweep answers with an address the device holds, or with none.         *)
LEMMA SweepFindsOwn ==
    ASSUME DevicesAreSeen, NEW m \in Macs
    PROVE  FindIpByMac(m) \subseteq seen[m] \cup {Null}
BY DEF DevicesAreSeen, FindIpByMac

(* The three ways the tables and NPM are written.                          *)
LEMMA StateWritten ==
    ASSUME StoreTypeOK, TablesInv, NEW x \in HostIds, NEW new \in StateRow,
           new.lastIp \in seen[Fleet[x].mac] \cup {Null},
           hstate' = [hstate EXCEPT ![x] = new],
           UNCHANGED <<hosts, lanVars, npmVars>>
    PROVE  TablesInv'
BY DEF StoreTypeOK, TablesInv, DevicesAreSeen, RecordsAsAdded,
       AddressesBelongToDevice

LEMMA CurrentIpWritten ==
    ASSUME StoreTypeOK, TablesInv, NEW ids, NEW ip \in Address,
           NEW x \in HostIds, NEW new \in StateRow,
           \A h \in HostIds \cap ids : ip \in seen[Fleet[h].mac],
           new.lastIp \in seen[Fleet[x].mac] \cup {Null},
           hstate' = [hstate EXCEPT ![x] = new],
           hosts' = WithCurrentIp(ids, ip),
           UNCHANGED <<lanVars, npmVars>>
    PROVE  TablesInv'
<1> USE DEF StoreTypeOK, TablesInv
<1>1. \A h \in HostIds :
        /\ hosts'[h].mac = hosts[h].mac /\ hosts'[h].npm = hosts[h].npm
        /\ \/ hosts'[h].ip = hosts[h].ip
           \/ h \in ids /\ hosts'[h].ip = ip
    BY DEF WithCurrentIp, HostRow
<1>2. RecordsAsAdded' /\ DevicesAreSeen'
    BY <1>1 DEF RecordsAsAdded, DevicesAreSeen
<1>3. AddressesBelongToDevice'
    BY <1>1 DEF AddressesBelongToDevice, RecordsAsAdded
<1> QED
    BY <1>2, <1>3

LEMMA ForwardWritten ==
    ASSUME ProxiesNotShared, NpmTypeOK, TablesInv,
           NEW x \in HostIds, Fleet[x].npm \in Npms,
           NEW ip \in seen[Fleet[x].mac],
           forward' \in {forward, [forward EXCEPT ![Fleet[x].npm] = ip]},
           UNCHANGED <<lanVars, storeVars>>
    PROVE  TablesInv'
<1> USE DEF TablesInv
<1>1. RecordsAsAdded' /\ DevicesAreSeen'
    BY DEF RecordsAsAdded, DevicesAreSeen
<1>2. ASSUME NEW h \in HostIds, hosts[h].npm # Null
      PROVE  forward'[hosts[h].npm] \in seen[hosts[h].mac]
    <2>1. hosts[h].npm = Fleet[h].npm /\ hosts[h].mac = Fleet[h].mac
        BY DEF RecordsAsAdded
    <2>2. Fleet[h].npm \in Npms
        BY <1>2, <2>1, StoreAssumption
    <2>3. CASE Fleet[h].npm = Fleet[x].npm
        BY <1>2, <2>1, <2>2, <2>3, NpmAssumption
        DEF ProxiesNotShared, NpmTypeOK, AddressesBelongToDevice
    <2>4. CASE Fleet[h].npm # Fleet[x].npm
        BY <1>2, <2>1, <2>2, <2>4 DEF NpmTypeOK, AddressesBelongToDevice
    <2> QED
        BY <2>3, <2>4
<1>3. AddressesBelongToDevice'
    BY <1>2 DEF AddressesBelongToDevice
<1> QED
    BY <1>1, <1>3

-----------------------------------------------------------------------------
(* The steps of the monitor.                                               *)

LEMMA JoinedBelongs ==
    ASSUME TablesInv, NEW h \in HostIds
    PROVE  RowBelongs(Joined(h))
BY DEF TablesInv, RecordsAsAdded, AddressesBelongToDevice, RowBelongs, Joined

LEMMA MonitorStepTables ==
    ASSUME ProxiesNotShared, TypeOK, TablesInv, RowsBelong, MonitorStep
    PROVE  TablesInv'
<1> USE DEF TypeOK, MonitorTypeOK, StoreTypeOK
<1>0. pc \notin {"idle", "next"} =>
        /\ row \in Row /\ row.id \in HostIds /\ row.ip \in IPs
        /\ row.mac = Fleet[row.id].mac /\ row.npm = Fleet[row.id].npm
        /\ row.ip \in seen[row.mac]
    BY DEF Row, Address, RowsBelong, RowBelongs
<1>1. CASE UNCHANGED <<lanVars, npmVars, storeVars>>
    BY <1>1
    DEF TablesInv, DevicesAreSeen, RecordsAsAdded, AddressesBelongToDevice
<1>2. ASSUME NEW h \in HostIds, TakeHost(h)
      PROVE  TablesInv'
    <2>1. hstate' \in [HostIds -> StateRow]
        BY <1>2, EnsureStateRowType DEF TakeHost
    <2>2. \A x \in HostIds : hstate'[x].lastIp = hstate[x].lastIp
        BY <1>2 DEF TakeHost, EnsureStateRow, StateRow
    <2> QED
        BY <1>2, <2>2
        DEF TakeHost, TablesInv, DevicesAreSeen, RecordsAsAdded,
            AddressesBelongToDevice
<1>3. CASE MarkHealthy
    <2>1. HealthyAt(row.ip) \in StateRow
        BY <1>0, <1>3 DEF MarkHealthy, HealthyAt, StateRow, Statuses, Stamps,
                          Address
    <2>2. HealthyAt(row.ip).lastIp \in seen[Fleet[row.id].mac] \cup {Null}
        BY <1>0, <1>3 DEF MarkHealthy, HealthyAt
    <2>3. \A h \in HostIds \cap {row.id} : row.ip \in seen[Fleet[h].mac]
        BY <1>0, <1>3 DEF MarkHealthy
    <2> QED
        BY <1>0, <1>3, <2>1, <2>2, <2>3, CurrentIpWritten
        DEF MarkHealthy, Address
<1>4. CASE MarkDown \/ BeginRecovery \/ GiveUp
    <2>1. hosts' = hosts /\ UNCHANGED <<lanVars, npmVars>>
        BY <1>4 DEF MarkDown, BeginRecovery, GiveUp
    <2>2. \A x \in HostIds : hstate'[x].lastIp = hstate[x].lastIp
        BY <1>0, <1>4 DEF MarkDown, BeginRecovery, GiveUp, StateRow
    <2> QED
        BY <2>1, <2>2
        DEF TablesInv, DevicesAreSeen, RecordsAsAdded, AddressesBelongToDevice
<1>5. CASE Adopt
    <2>1. newIp \in seen[row.mac] /\ newIp \in IPs
        BY <1>5 DEF Adopt, RowsBelong
    <2>2. HealthyAt(newIp) \in StateRow
        BY <2>1 DEF HealthyAt, StateRow, Statuses, Stamps, Address
    <2>3. \A h \in HostIds \cap ({row.id} \cup Siblings(row.id, row.mac)) :
            newIp \in seen[Fleet[h].mac]
        BY <1>0, <1>5, <2>1
        DEF Adopt, Siblings, TablesInv, RecordsAsAdded
    <2>4. HealthyAt(newIp).lastIp \in seen[Fleet[row.id].mac] \cup {Null}
        BY <1>0, <1>5, <2>1 DEF Adopt, HealthyAt
    <2> QED
        BY <1>0, <1>5, <2>1, <2>2, <2>3, <2>4, CurrentIpWritten
        DEF Adopt, Address
<1>6. CASE Reject
    <2>1. newIp \in seen[row.mac]
        BY <1>6 DEF Reject, RowsBelong
    <2>2. \A x \in HostIds :
            hstate'[x].lastIp = IF x = row.id THEN newIp ELSE hstate[x].lastIp
        BY <1>0, <1>6 DEF Reject, StateRow
    <2> QED
        BY <1>0, <1>6, <2>1, <2>2
        DEF Reject, TablesInv, DevicesAreSeen, RecordsAsAdded,
            AddressesBelongToDevice
<1>7. CASE UpdateProxy
    <2>1. newIp \in seen[row.mac] /\ row.npm \in Npms
        BY <1>7 DEF UpdateProxy, RowsBelong
    <2>2. forward' \in {forward, [forward EXCEPT ![Fleet[row.id].npm] = newIp]}
        BY <1>0, <1>7
        DEF UpdateProxy, ForwardUpdated, ForwardUpdateFailed
    <2>3. UNCHANGED <<lanVars, storeVars>>
        BY <1>7 DEF UpdateProxy
    <2> QED
        BY <1>0, <1>7, <2>1, <2>2, <2>3, ForwardWritten DEF UpdateProxy
<1>8. CASE Reload
    BY <1>8
    DEF Reload, NginxReloaded, ReloadFailed, ReloadRefused, ReloadRaised,
        TablesInv, DevicesAreSeen, RecordsAsAdded, AddressesBelongToDevice
<1> QED
    BY <1>1, <1>2, <1>3, <1>4, <1>5, <1>6, <1>7, <1>8
    DEF MonitorStep, BeginCycle, EndCycle, CheckHost, LeaveDown, Scan, Probe

LEMMA MonitorStepRows ==
    ASSUME TypeOK, TablesInv, RowsBelong, MonitorStep
    PROVE  RowsBelong'
<1> USE DEF TypeOK, MonitorTypeOK, RowBelongs, RowsBelong
<1>0. UNCHANGED lanVars
    BY DEF MonitorStep, BeginCycle, EndCycle, TakeHost, CheckHost, MarkHealthy,
           MarkDown, LeaveDown, BeginRecovery, Scan, GiveUp, Probe, Adopt,
           Reject, UpdateProxy, Reload
<1>1. CASE BeginCycle
    BY <1>0, <1>1, JoinedBelongs DEF BeginCycle, Joined
<1>2. ASSUME NEW h \in HostIds, TakeHost(h)
      PROVE  RowsBelong'
    BY <1>0, <1>2 DEF TakeHost, Restrict
<1>3. CASE Scan
    <2>1. row.mac \in Macs
        BY <1>3 DEF Scan, Row
    <2>2. FindIpByMac(row.mac) \subseteq seen[row.mac] \cup {Null}
        BY <2>1, SweepFindsOwn DEF TablesInv
    <2> QED
        BY <1>0, <1>3, <2>2 DEF Scan
<1>4. CASE EndCycle \/ CheckHost \/ BeginRecovery \/ Probe \/ Adopt
    BY <1>0, <1>4
    DEF EndCycle, CheckHost, BeginRecovery, Probe, Adopt, Goto, NextHost
<1>5. CASE MarkHealthy \/ MarkDown \/ LeaveDown \/ GiveUp \/ Reject
    BY <1>0, <1>5
    DEF MarkHealthy, MarkDown, LeaveDown, GiveUp, Reject, NextHost
<1>6. CASE UpdateProxy \/ Reload
    BY <1>0, <1>6 DEF UpdateProxy, Reload, Goto, NextHost
<1> QED
    BY <1>1, <1>2, <1>3, <1>4, <1>5, <1>6 DEF MonitorStep

-----------------------------------------------------------------------------
(* The world around the monitor, and restarts.                             *)

LEMMA AddressLanStep ==
    ASSUME HealerTypeOK, AddressInv, LanStep,
           UNCHANGED <<npmVars, storeVars, monVars, forceVars>>
    PROVE  AddressInv'
<1> USE DEF HealerTypeOK, TypeOK, AddressInv, TablesInv, forceVars
<1>1. DevicesAreSeen' /\ \A m \in Macs : seen[m] \subseteq seen'[m]
    BY SeenGrows
<1>2. RecordsAsAdded'
    BY DEF RecordsAsAdded
<1>3. AddressesBelongToDevice'
    BY <1>1 DEF AddressesBelongToDevice, StoreTypeOK, HostRow
<1>4. RowsBelong'
    BY <1>1 DEF RowsBelong, RowBelongs, MonitorTypeOK, Row
<1>5. RequestBelongs'
    BY <1>1 DEF RequestBelongs, ForceTypeOK, Request
<1> QED
    BY <1>1, <1>2, <1>3, <1>4, <1>5

LEMMA AddressGraceElapses ==
    ASSUME HealerTypeOK, AddressInv, NEW h \in HostIds, GraceElapses(h),
           UNCHANGED forceVars
    PROVE  AddressInv'
<1> USE DEF HealerTypeOK, TypeOK, AddressInv, TablesInv, GraceElapses, InHand
<1>1. \A x \in HostIds : hstate'[x].lastIp = hstate[x].lastIp
    BY DEF StoreTypeOK, StateRow
<1>2. TablesInv'
    BY <1>1 DEF DevicesAreSeen, RecordsAsAdded, AddressesBelongToDevice
<1>3. RowsBelong'
    BY DEF RowsBelong, RowBelongs, MonitorTypeOK, Row
<1>4. RequestBelongs'
    BY DEF RequestBelongs, forceVars
<1> QED
    BY <1>2, <1>3, <1>4

LEMMA AddressRestart ==
    ASSUME AddressInv,
           (MonitorRestarts /\ UNCHANGED forceVars) \/ ProcessRestarts
    PROVE  AddressInv'
<1>1. TablesInv'
    BY DEF MonitorRestarts, ProcessRestarts, AddressInv, TablesInv,
           DevicesAreSeen, RecordsAsAdded, AddressesBelongToDevice
<1>2. RowsBelong'
    BY DEF MonitorRestarts, ProcessRestarts, RowsBelong
<1>3. RequestBelongs'
    BY DEF MonitorRestarts, ProcessRestarts, RequestOver, AddressInv,
           RequestBelongs, forceVars
<1> QED
    BY <1>1, <1>2, <1>3 DEF AddressInv

-----------------------------------------------------------------------------
(* The steps of the handlers.                                              *)

LEMMA AddressForceStep ==
    ASSUME ProxiesNotShared, HealerTypeOK, AddressInv, ForceStep
    PROVE  AddressInv'
<1> USE DEF HealerTypeOK, TypeOK, ForceTypeOK, AddressInv
<1>0. /\ req \in Request /\ req.id \in HostIds /\ req.mac \in Macs
      /\ req.mac = Fleet[req.id].mac /\ req.npm = Fleet[req.id].npm
    BY DEF ForceStep, ForceCheck, ForceSweep, ForceProxy, ForceReload,
           ForceCommit, Request, RequestBelongs
<1>1. CASE ForceCheck
    BY <1>1
    DEF ForceCheck, vars, TablesInv, DevicesAreSeen, RecordsAsAdded,
        AddressesBelongToDevice, RowsBelong, RowBelongs, RequestBelongs
<1>2. CASE ForceSweep
    <2>1. macIp' \in seen[req.mac] \cup {Null}
        BY <1>0, <1>2, SweepFindsOwn DEF ForceSweep, TablesInv
    <2>2. TablesInv' /\ RowsBelong'
        BY <1>2
        DEF ForceSweep, vars, TablesInv, DevicesAreSeen, RecordsAsAdded,
            AddressesBelongToDevice, RowsBelong, RowBelongs
    <2> QED
        BY <1>0, <1>2, <2>1, <2>2 DEF ForceSweep, vars, RequestBelongs
<1>3. CASE ForceProxy
    <2>1. macIp \in seen[req.mac] /\ req.npm \in Npms
        BY <1>3, LanAssumption DEF ForceProxy, RequestBelongs
    <2>2. forward' \in {forward, [forward EXCEPT ![Fleet[req.id].npm] = macIp]}
        BY <1>0, <1>3 DEF ForceProxy, ForwardUpdated, ForwardUpdateFailed
    <2>3. UNCHANGED <<lanVars, storeVars>>
        BY <1>3 DEF ForceProxy
    <2>4. TablesInv'
        BY <1>0, <2>1, <2>2, <2>3, ForwardWritten
    <2> QED
        BY <1>3, <2>4
        DEF ForceProxy, RowsBelong, RowBelongs, RequestBelongs
<1>4. CASE ForceReload
    <2>1. TablesInv' /\ RowsBelong'
        BY <1>4
        DEF ForceReload, NginxReloaded, ReloadFailed, ReloadRefused,
            ReloadRaised, TablesInv, DevicesAreSeen, RecordsAsAdded,
            AddressesBelongToDevice, RowsBelong, RowBelongs
    <2> QED
        BY <1>4, <2>1 DEF ForceReload, RequestOver, RequestBelongs
<1>5. CASE ForceCommit
    <2>1. macIp \in seen[req.mac] \cup {Null}
        BY <1>5 DEF ForceCommit, RequestBelongs
    <2>2. \A x \in HostIds :
            hstate'[x].lastIp \in {hstate[x].lastIp}
                \cup IF x = req.id /\ macIp # Null THEN {macIp} ELSE {}
        <3>1. EnsureStateRow(req.id)[req.id].lastIp = hstate[req.id].lastIp
            BY <1>0 DEF EnsureStateRow, StoreTypeOK, StateRow
        <3> QED
            BY <1>0, <1>5, <3>1 DEF ForceCommit, StoreTypeOK, StateRow
    <2>3. \A x \in HostIds :
            /\ hosts'[x].mac = hosts[x].mac /\ hosts'[x].npm = hosts[x].npm
            /\ \/ hosts'[x].ip = hosts[x].ip
               \/ x = req.id /\ macIp # Null /\ hosts'[x].ip = macIp
        BY <1>0, <1>5 DEF ForceCommit, WithCurrentIp, StoreTypeOK, HostRow
    <2>4. UNCHANGED <<lanVars, npmVars, monVars>>
        BY <1>5 DEF ForceCommit
    <2>5. DevicesAreSeen' /\ RecordsAsAdded'
        BY <2>3, <2>4 DEF TablesInv, DevicesAreSeen, RecordsAsAdded
    <2>6. AddressesBelongToDevice'
        BY <1>0, <2>1, <2>2, <2>3, <2>4
        DEF TablesInv, RecordsAsAdded, AddressesBelongToDevice
    <2> QED
        BY <1>5, <2>4, <2>5, <2>6
        DEF ForceCommit, RequestOver, TablesInv, RowsBelong, RowBelongs,
            RequestBelongs
<1> QED
    BY <1>1, <1>2, <1>3, <1>4, <1>5 DEF ForceStep

LEMMA AddressRequest ==
    ASSUME "edit" \notin Ops, HealerTypeOK, AddressInv, NEW h \in HostIds,
           ForceRequest(h) \/ EditHost(h) \/ DeleteHost(h)
    PROVE  AddressInv'
<1> USE DEF HealerTypeOK, TypeOK, AddressInv, TablesInv
<1>0. /\ UNCHANGED <<at, seen, npmVars, hstate, monVars>>
      /\ \A x \in HostIds : hosts'[x].mac = hosts[x].mac
            /\ hosts'[x].npm = hosts[x].npm /\ hosts'[x].ip = hosts[x].ip
    BY DEF ForceRequest, EditHost, DeleteHost, StoreTypeOK, HostRow
<1>1. TablesInv'
    BY <1>0 DEF DevicesAreSeen, RecordsAsAdded, AddressesBelongToDevice
<1>2. RowsBelong'
    BY <1>0 DEF RowsBelong, RowBelongs
<1>3. RequestBelongs'
    BY <1>0
    DEF ForceRequest, EditHost, DeleteHost, RequestBelongs, RecordsAsAdded,
        forceVars
<1> QED
    BY <1>1, <1>2, <1>3

(* As long as nobody edits a record and no two devices share a proxy, no   *)
(* record, state row or proxy ever gets an address its device never held,  *)
(* whatever fails, restarts or runs concurrently: sweeps that come late    *)
(* are late with an address of the right device.                           *)
THEOREM AddressesBelongToDeviceHolds ==
    ASSUME ProxiesNotShared, "edit" \notin Ops
    PROVE  HealerSpec => []AddressesBelongToDevice
<1>1. HealerTypeOK /\ AddressInv /\ [HealerNext]_allVars => AddressInv'
    <2> SUFFICES ASSUME HealerTypeOK, AddressInv, [HealerNext]_allVars
                 PROVE  AddressInv'
        OBVIOUS
    <2>1. CASE MonitorStep /\ UNCHANGED forceVars
        <3>1. TablesInv' /\ RowsBelong'
            BY <2>1, MonitorStepTables, MonitorStepRows
            DEF HealerTypeOK, AddressInv
        <3>2. UNCHANGED lanVars
            BY <2>1
            DEF MonitorStep, BeginCycle, EndCycle, TakeHost, CheckHost,
                MarkHealthy, MarkDown, LeaveDown, BeginRecovery, Scan, GiveUp,
                Probe, Adopt, Reject, UpdateProxy, Reload
        <3> QED
            BY <2>1, <3>1, <3>2 DEF AddressInv, RequestBelongs, forceVars
    <2>2. CASE EnvironmentStep /\ UNCHANGED forceVars
        BY <2>2, AddressLanStep, AddressGraceElapses DEF EnvironmentStep
    <2>3. CASE UNCHANGED allVars
        BY <2>3
        DEF allVars, vars, forceVars, AddressInv, TablesInv, DevicesAreSeen,
            RecordsAsAdded, AddressesBelongToDevice, RowsBelong, RowBelongs,
            RequestBelongs
    <2> QED
        BY <2>1, <2>2, <2>3, AddressRestart, AddressForceStep, AddressRequest
        DEF HealerNext
<1>2. AddressInv => AddressesBelongToDevice
    BY DEF AddressInv, TablesInv
<1> QED
    BY <1>1, <1>2, AddressInit, HealerTypeCorrect, PTL DEF HealerSpec
=============================================================================
