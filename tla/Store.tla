------------------------------- MODULE Store --------------------------------
(***************************************************************************)
(* The two tables of the SQLite database that monitoring is about.  hosts  *)
(* is what the operator configured, with current_ip that the healer keeps  *)
(* up to date; host_state is what the healer knows of each host.  A commit *)
(* is one step of the model: SQLite lets one connection write at a time.   *)
(***************************************************************************)
EXTENDS Npm

CONSTANTS
    HostIds,    \* ids of the rows of hosts; AUTOINCREMENT never reuses one
    Fleet       \* [HostIds -> [mac, port, npm]]: the records at first

ASSUME StoreAssumption ==
    /\ Fleet \in [HostIds -> [mac: Macs, port: Ports, npm: Npms \cup {Null}]]
    /\ Null \notin {"fresh", "old"}

VARIABLES
    hosts,      \* table hosts
    hstate      \* table host_state

storeVars == <<hosts, hstate>>

HostRow == [mac: Macs, ip: Address, port: Ports, npm: Npms \cup {Null},
            mode: {"enabled", "disabled", "deleted"}]

(* "absent": no host_state row yet, which the code reads as "unknown".     *)
Statuses == {"absent", "unknown", "healthy", "unreachable", "recovering"}

(* unreachable_since.  All the code asks of the stamp is whether it is     *)
(* older than the grace period: a stamp is "fresh" until it is "old".      *)
Stamps == {Null, "fresh", "old"}

StateRow == [status: Statuses, since: Stamps, lastIp: Address]

StoreTypeOK ==
    /\ hosts \in [HostIds -> HostRow]
    /\ hstate \in [HostIds -> StateRow]

(* Records as just added, before the monitor first runs, every proxy       *)
(* pointing where its record says.  The host_state row may still be        *)
(* missing: the web form commits it after the hosts row.                   *)
StoreInit ==
    /\ hosts = [h \in HostIds |->
                  [mac  |-> Fleet[h].mac,  ip  |-> Home[Fleet[h].mac],
                   port |-> Fleet[h].port, npm |-> Fleet[h].npm,
                   mode |-> "enabled"]]
    /\ hstate \in [HostIds -> StateRow]
    /\ \A h \in HostIds :
          hstate[h] \in
            {[status |-> "absent",  since |-> Null, lastIp |-> Null],
             [status |-> "unknown", since |-> Null, lastIp |-> hosts[h].ip]}
    /\ forward \in [Npms -> IPs]
    /\ \A h \in HostIds :
          Fleet[h].npm # Null => forward[Fleet[h].npm] = Home[Fleet[h].mac]
    /\ loaded = forward

(* UPDATE hosts SET current_ip = ip WHERE id IN ids                        *)
WithCurrentIp(ids, ip) ==
    [h \in HostIds |->
        IF h \in ids /\ hosts[h].mode # "deleted"
          THEN [hosts[h] EXCEPT !.ip = ip]
          ELSE hosts[h]]

(* Mutant: whatever its MAC address.                                       *)
SiblingsOfAnyDevice(h, mac) ==
    {x \in HostIds \ {h} : hosts[x].mode # "deleted"}

(* The ids of the other records of the device, disabled ones included.     *)
Siblings(h, mac) ==
    {x \in HostIds \ {h} : hosts[x].mode # "deleted" /\ hosts[x].mac = mac}

(* INSERT OR IGNORE INTO host_state (host_id, status) VALUES (h,'unknown') *)
EnsureStateRow(h) ==
    IF hstate[h].status = "absent"
      THEN [hstate EXCEPT ![h].status = "unknown"]
      ELSE hstate

(* The three columns after a sighting at ip.                               *)
HealthyAt(ip) == [status |-> "healthy", since |-> Null, lastIp |-> ip]
=============================================================================
