--------------------------- MODULE DiagnosticScan ---------------------------
(***************************************************************************)
(* The scans of the diagnostic page (app/main.py and the scanner).  A POST *)
(* starts a background task and returns at once; the task sweeps, names    *)
(* what it found, optionally scans the ports of one host after the other,  *)
(* and publishes what it has in scan_progress, which the page polls.  The  *)
(* task reads names over the database connection of the request, which is  *)
(* closed when the request is over.                                        *)
(*                                                                         *)
(* What lies between two awaits of the task is one action.  How the sweep  *)
(* finds its rows is the business of module Sweep.                         *)
(***************************************************************************)
EXTENDS Names, ScanLog

CONSTANTS
    Scans,          \* scan ids
    Ports,          \* TCP ports a port scan may find open
    Responders,     \* the rows [ip, mac] a sweep may see; mac Null: routed
    Announced,      \* [ip, mac, name] mDNS may hear; Null: not told
    Given,          \* names an operator gives
    MaxTime,        \* bound on the clock
    MaxEdits        \* bound on edits of hosts while scans run

Row == [ip: IPs, mac: Macs \cup {Null}, name: NameSet \cup {Null},
        ports: {Null} \cup SUBSET Ports]

(* An entry of scan_progress.                                              *)
Entry == [start: Nat, status: {"starting", "scanning_ports", "complete"},
          rows: SUBSET Row, scanned: Nat, error: BOOLEAN, final: {Null} \cup Nat]

ASSUME ScanAssumption ==
    /\ Null \notin Nat \cup Entry /\ \A opened \in SUBSET Ports : opened # Null
    /\ Responders \subseteq [ip: IPs, mac: Macs \cup {Null}]
    /\ IsFiniteSet(Responders)
    /\ Announced \subseteq [ip: IPs \cup {Null}, mac: Macs \cup {Null}, name: NameSet]
    /\ Given \subseteq NameSet
    /\ Scans \subseteq Jobs /\ MaxTime \in Nat /\ MaxEdits \in Nat

VARIABLES
    hosts,      \* the name, MAC and address columns of table hosts
    mdnsNames,  \* table mdns_names, a map from MAC to name
    edits,      \* edits of hosts so far
    now,        \* the clock
    connected,  \* scans whose request still holds its connection open
    task,       \* locals of _do_scan
    progress,   \* scan_progress, Null for an id it does not hold
    past        \* history: every name hosts has held for a MAC

scanVars == <<hosts, mdnsNames, edits, now, connected, task, progress, past,
              logVars>>

Pcs == {"none", "begin", "sweep", "remember", "known", "knownByIp", "cached",
        "publish", "ports", "over"}

Idle == [pc |-> "none", wantsPorts |-> FALSE, rows |-> {}, src |-> NoNames,
         named |-> FALSE, todo |-> {}, portMap |-> <<>>]

ScanTypeOK ==
    /\ LogTypeOK
    /\ \A s \in Scans :
          /\ task[s].pc \in Pcs
          /\ task[s].rows \subseteq Row /\ task[s].todo \subseteq Row
          /\ DOMAIN task[s].portMap \subseteq IPs
          /\ progress[s] = Null <=> task[s].pc = "none"
          /\ progress[s] # Null => progress[s] \in Entry /\ progress[s].start <= now
    /\ connected \subseteq Scans
    /\ now \in 0..MaxTime /\ edits \in 0..MaxEdits

NameOfMac(table, m) == Lookup(LoadKnownHostnames(table), m)

ScanInit ==
    /\ LogInit
    /\ hosts = Table
    /\ mdnsNames = <<>>
    /\ edits = 0 /\ now = 0
    /\ connected = {}
    /\ task = [s \in Scans |-> Idle]
    /\ progress = [s \in Scans |-> Null]
    /\ past = [m \in Macs |-> {NameOfMac(Table, m)}]

-----------------------------------------------------------------------------
(* The request.                                                            *)

(* create_task, then the entry, without an await in between.               *)
StartScan(s) ==
    /\ task[s].pc = "none"
    /\ \E wants \in BOOLEAN :
          task' = [task EXCEPT ![s].pc = "begin", ![s].wantsPorts = wants]
    /\ progress' = [progress EXCEPT ![s] =
          [start |-> now, status |-> "starting", rows |-> {}, scanned |-> 0,
           error |-> FALSE, final |-> Null]]
    /\ connected' = connected \cup {s}
    /\ UNCHANGED <<hosts, mdnsNames, edits, now, past, logVars>>

(* get_db closes the connection once the response is on its way.           *)
RequestEnds(s) ==
    /\ s \in connected
    /\ connected' = connected \ {s}
    /\ UNCHANGED <<hosts, mdnsNames, edits, now, task, progress, past, logVars>>

-----------------------------------------------------------------------------
(* The task up to the naming of what it found.                             *)

(* The event loop runs the task: its log is opened, with its header.       *)
BeginTask(s) ==
    /\ task[s].pc = "begin"
    /\ task' = [task EXCEPT ![s].pc = "sweep"]
    /\ OpenLog(s)
    /\ UNCHANGED <<hosts, mdnsNames, edits, now, connected, progress, past>>

(* What a browse of mDNS may hear, and its two maps (discover_hostnames).  *)
(* The MAC is in the name of the instance, the addresses in its record:    *)
(* either may be missing.  The last name heard for a key is the one kept.  *)
Hearings == {heard \in SUBSET Announced :
               \A a, b \in heard : \/ a.mac = b.mac /\ a.mac # Null
                                   \/ a.ip = b.ip /\ a.ip # Null => a = b}

ByIp(heard)  == [i \in {a.ip : a \in heard} \ {Null} |->
                   (CHOOSE a \in heard : a.ip = i).name]
ByMac(heard) == [m \in {a.mac : a \in heard} \ {Null} |->
                   (CHOOSE a \in heard : a.mac = m).name]

(* run_scan and discover_hostnames have both returned: any of the devices  *)
(* may have answered and announced itself.  A row is named by reverse DNS  *)
(* at first.                                                               *)
Discover(s) ==
    /\ task[s].pc = "sweep"
    /\ \E seen \in SUBSET Responders, heard \in Hearings :
          task' = [task EXCEPT
            ![s].pc = "remember",
            ![s].rows = {[ip |-> r.ip, mac |-> r.mac, ports |-> Null,
                          name |-> ReverseDns[r.ip]] : r \in seen},
            ![s].src.mdnsIp = ByIp(heard),
            ![s].src.mdnsMac = ByMac(heard)]
    /\ Emit(s)
    /\ UNCHANGED <<hosts, mdnsNames, edits, now, connected, progress, past>>

(* On a closed connection every statement raises, and every exception is   *)
(* swallowed: nothing is stored, and the loads below come back empty.      *)
Remember(s) ==
    /\ task[s].pc = "remember"
    /\ mdnsNames' = IF s \in connected
                      THEN RememberMdnsNames(mdnsNames, task[s].src.mdnsMac)
                      ELSE mdnsNames
    /\ task' = [task EXCEPT ![s].pc = "known"]
    /\ UNCHANGED <<hosts, edits, now, connected, progress, past, logVars>>

Read(s, map) == IF s \in connected THEN map ELSE <<>>

LoadKnown(s) ==
    /\ task[s].pc = "known"
    /\ task' = [task EXCEPT ![s].pc = "knownByIp",
                            ![s].named = s \in connected,
                            ![s].src.known = Read(s, LoadKnownHostnames(hosts))]
    /\ UNCHANGED <<hosts, mdnsNames, edits, now, connected, progress, past, logVars>>

LoadKnownByIp(s) ==
    /\ task[s].pc = "knownByIp"
    /\ task' = [task EXCEPT ![s].pc = "cached",
                  ![s].src.knownByIp = Read(s, LoadKnownHostnamesByIp(hosts))]
    /\ UNCHANGED <<hosts, mdnsNames, edits, now, connected, progress, past, logVars>>

LoadCached(s) ==
    /\ task[s].pc = "cached"
    /\ task' = [task EXCEPT ![s].pc = "publish",
                            ![s].src.cached = Read(s, mdnsNames)]
    /\ UNCHANGED <<hosts, mdnsNames, edits, now, connected, progress, past, logVars>>

-----------------------------------------------------------------------------
(* Publishing, and the scan of the ports.                                  *)

(* What is left of the locals.                                             *)
Over(s) == [Idle EXCEPT !.pc = "over", !.wantsPorts = task[s].wantsPorts,
                        !.named = task[s].named]

(* The last stretch of the task, on entry e: every row gets the ports of   *)
(* its address, and the elapsed time is frozen.                            *)
Complete(s, e, portMap, failed) ==
    /\ progress' = [progress EXCEPT ![s] = [e EXCEPT
          !.status = "complete",
          !.error = failed,
          !.final = now - e.start,
          !.rows = IF e.status # "scanning_ports" THEN e.rows
                   ELSE {[r EXCEPT !.ports = IF r.ip \in DOMAIN portMap
                                               THEN portMap[r.ip] ELSE {}] : r \in e.rows}]]
    /\ CloseLog(s)

(* Mutant: the entry is replaced, so that its clock starts again.          *)
PublishedAnew(s, rows) == [progress[s] EXCEPT !.rows = rows, !.start = now]

(* _publish_discovery_progress updates the entry in place.                 *)
Published(s, rows) == [progress[s] EXCEPT !.rows = rows]

(* Without ports to scan the task ends here.                               *)
Publish(s) ==
    LET rows == {[r EXCEPT !.name = ApplyHostnames(r, task[s].src)] : r \in task[s].rows}
        entry == Published(s, rows)
    IN  /\ task[s].pc = "publish"
        /\ IF task[s].wantsPorts /\ rows # {}
             THEN /\ task' = [task EXCEPT ![s].pc = "ports", ![s].rows = {}, ![s].todo = rows]
                  /\ progress' = [progress EXCEPT ![s] =
                                    [entry EXCEPT !.status = "scanning_ports"]]
                  /\ Emit(s)
             ELSE /\ task' = [task EXCEPT ![s] = Over(s)]
                  /\ Complete(s, entry, <<>>, FALSE)
        /\ UNCHANGED <<hosts, mdnsNames, edits, now, connected, past>>

(* nmap has scanned one host, and _on_host_done shows its ports; after the *)
(* last one the task ends without another await.  A host with no open port *)
(* is not in what nmap reports.                                            *)
HostScanned(s) ==
    /\ task[s].pc = "ports"
    /\ \E row \in task[s].todo, opened \in SUBSET Ports :
       LET portMap == IF opened = {} THEN task[s].portMap
                      ELSE [i \in DOMAIN task[s].portMap \cup {row.ip} |->
                              IF i = row.ip THEN opened ELSE task[s].portMap[i]]
           entry == [progress[s] EXCEPT
                       !.scanned = @ + 1,
                       !.rows = {IF r.ip = row.ip /\ opened # {}
                                   THEN [r EXCEPT !.ports = opened] ELSE r : r \in @}]
           last == task[s].todo = {row}
       IN  /\ task' = [task EXCEPT ![s] =
                 IF last THEN Over(s)
                 ELSE [task[s] EXCEPT !.todo = task[s].todo \ {row}, !.portMap = portMap]]
           /\ IF last THEN Complete(s, entry, portMap, FALSE)
                      ELSE progress' = [progress EXCEPT ![s] = entry] /\ Emit(s)
    /\ UNCHANGED <<hosts, mdnsNames, edits, now, connected, past>>

(* Mutant: a failure loses the ports of the hosts before it.               *)
PortScanFailsEmpty(s) ==
    /\ task[s].pc = "ports"
    /\ task' = [task EXCEPT ![s] = Over(s)]
    /\ Complete(s, progress[s], <<>>, TRUE)
    /\ UNCHANGED <<hosts, mdnsNames, edits, now, connected, past>>

(* Mutant: a failure returns before the entry is finished.                 *)
PortScanFailsUnfinished(s) ==
    /\ task[s].pc = "ports"
    /\ task' = [task EXCEPT ![s] = Over(s)]
    /\ progress' = [progress EXCEPT ![s].error = TRUE]
    /\ CloseLog(s)
    /\ UNCHANGED <<hosts, mdnsNames, edits, now, connected, past>>

(* Mutant: a failure is not reported.                                      *)
PortScanFailsSilently(s) ==
    /\ task[s].pc = "ports"
    /\ task' = [task EXCEPT ![s] = Over(s)]
    /\ Complete(s, progress[s], task[s].portMap, FALSE)
    /\ UNCHANGED <<hosts, mdnsNames, edits, now, connected, past>>

(* nmap is missing, or fails or times out on the next host: the scan ends  *)
(* with what it has.                                                       *)
PortScanFails(s) ==
    /\ task[s].pc = "ports"
    /\ task' = [task EXCEPT ![s] = Over(s)]
    /\ Complete(s, progress[s], task[s].portMap, TRUE)
    /\ UNCHANGED <<hosts, mdnsNames, edits, now, connected, past>>

TaskStep(s) ==
    \/ BeginTask(s) \/ Discover(s) \/ Remember(s) \/ LoadKnown(s)
    \/ LoadKnownByIp(s) \/ LoadCached(s) \/ Publish(s) \/ HostScanned(s) \/ PortScanFails(s)

-----------------------------------------------------------------------------
(* An operator gives a record another name meanwhile.                      *)
RenameHost(r, name) ==
    /\ edits < MaxEdits /\ name # hosts[r].name
    /\ edits' = edits + 1
    /\ hosts' = [hosts EXCEPT ![r].name = name]
    /\ past' = [m \in Macs |-> past[m] \cup {NameOfMac(hosts', m)}]
    /\ UNCHANGED <<mdnsNames, now, connected, task, progress, logVars>>

Tick ==
    /\ now < MaxTime
    /\ now' = now + 1
    /\ UNCHANGED <<hosts, mdnsNames, edits, connected, task, progress, past, logVars>>

ScanStep ==
    \/ \E s \in Scans : StartScan(s) \/ RequestEnds(s) \/ TaskStep(s)
    \/ \E r \in Records, name \in Given : RenameHost(r, name)
    \/ Tick

-----------------------------------------------------------------------------
(* What get_scan_progress reports as elapsed_time.                         *)
Elapsed(s) ==
    IF progress[s].final # Null THEN progress[s].final ELSE now - progress[s].start

(* The elapsed time the page shows never jumps back, whatever the task     *)
(* publishes, and stands still once the scan is complete.                  *)
ElapsedIsHonest ==
    [][\A s \in Scans : progress[s] # Null =>
          /\ Elapsed(s)' >= Elapsed(s)
          /\ progress[s].status = "complete" => Elapsed(s)' = Elapsed(s)]_scanVars

(* Open ports that were shown stay shown: not the end of the scan, a later *)
(* failure, or a second row with the same address takes them away.         *)
HasPorts(e, ip) == e # Null /\ \E r \in e.rows : r.ip = ip /\ r.ports \notin {Null, {}}

PortsStayShown ==
    [][\A s \in Scans, ip \in IPs :
          HasPorts(progress[s], ip) => HasPorts(progress[s], ip)']_scanVars

(* A scan that reports no error has scanned every row whose ports it was   *)
(* asked for.                                                              *)
CompleteIsWhole ==
    \A s \in Scans :
        task[s].pc = "over" /\ task[s].wantsPorts /\ ~ progress[s].error =>
            /\ progress[s].scanned = Cardinality(progress[s].rows)
            /\ \A r \in progress[s].rows : r.ports # Null

(* A device that has a record is shown under a name of its record, one it  *)
(* had while the scan ran, never under one it announces: if the names were *)
(* read before the request ended.                                          *)
Shown(s) == {r \in progress[s].rows : r.mac # Null /\ Null \notin past[r.mac]}

CuratedNameIfConnected ==
    \A s \in Scans : progress[s] # Null /\ task[s].named =>
        \A r \in Shown(s) : r.name \in past[r.mac]

(* The same as scanner.py:210 promises it, whenever the request ends.      *)
CuratedNameWins ==
    \A s \in Scans : progress[s] # Null =>
        \A r \in Shown(s) : r.name \in past[r.mac]

(* Every scan comes to an end the page can see.                            *)
ScanCompletes ==
    \A s \in Scans :
        progress[s] # Null ~> (progress[s] # Null /\ progress[s].status = "complete")
=============================================================================
