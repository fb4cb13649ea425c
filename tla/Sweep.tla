------------------------------- MODULE Sweep --------------------------------
(***************************************************************************)
(* The sweeps of app/services/scanner.py: how a search by MAC (find, for   *)
(* recovery and force-scans), a diagnostic scan (arp-scan, scapy, nmap)    *)
(* and a validation go over their networks, one tool after the other and   *)
(* one network after the other, while devices change their addresses.      *)
(* The networks, interfaces and routes of the machine are constants; the   *)
(* text a tool prints is the set of its rows [ip, mac], and mac Null       *)
(* stands for "--".  Notes in the output and names are left out.           *)
(***************************************************************************)
EXTENDS Naturals, FiniteSets

CONSTANTS
    Macs, IPs, Null,
    Nets, Ifaces,
    Addr,              \* [Nets -> SUBSET IPs]: the addresses of a network
    TooSmall,          \* networks of prefix 31 and 32
    TooLarge,          \* networks of more than 4096 addresses
    AutoIface,         \* [Nets -> Ifaces or Null]: "ip addr", the local /24s
    Route,             \* [Nets -> Ifaces or Null]: "ip route get"
    Primary,           \* the /24 of the primary address
    Default,           \* the interface scapy takes by itself
    BroadcastFlag,     \* interfaces with flag BROADCAST
    PointToPointFlag,  \* interfaces with flag POINTOPOINT or NOARP
    TunnelNamed,       \* interfaces whose name has a tunnel's prefix
    Holds,             \* [Ifaces -> SUBSET Nets]: has an address inside
    Peer,              \* [Ifaces -> Macs or Null]: the gateway or tunnel peer
    Scopes,            \* the subnets asked for; Null: no subnets given
    MaxMoves           \* bound on changes of address

Optional(S) == S \cup {Null}

ASSUME SweepAssumption ==
    /\ Null \notin Macs \cup IPs \cup Nets \cup Ifaces
    /\ Addr \in [Nets -> SUBSET IPs] /\ Holds \in [Ifaces -> SUBSET Nets]
    /\ {AutoIface, Route} \subseteq [Nets -> Optional(Ifaces)]
    /\ Peer \in [Ifaces -> Optional(Macs)]
    /\ Primary \in Nets /\ Default \in Ifaces
    /\ TooSmall \cup TooLarge \subseteq Nets
    /\ BroadcastFlag \cup PointToPointFlag \cup TunnelNamed \subseteq Ifaces
    /\ Scopes \subseteq Optional((SUBSET Nets) \ {{}})
    /\ MaxMoves \in Nat

VARIABLES
    where,   \* the address of each device, Null while it is away
    moves,   \* changes of address so far
    job,     \* the search
    held,    \* history: <<mac, ip>> held at some time since the search began
    lost     \* history: tools that have not heard the target where it was

sweepVars == <<where, moves, job, held, lost>>

Modes == {"find", "validate", "arp-scan", "scapy", "nmap"}
Rows  == [ip: IPs, mac: Optional(Macs)]

SweepTypeOK ==
    /\ where \in [Macs -> Optional(IPs)]
    /\ moves \in 0..MaxMoves
    /\ job.pc \in {"idle", "arp", "passive", "scapy", "nmap", "done"}
    /\ job.mode \in Modes /\ job.target \in Macs
    /\ job.scope \in Scopes /\ job.ip \in BOOLEAN
    /\ job.todo \subseteq (IF job.pc = "arp" THEN Ifaces ELSE {Null}) \X Nets
    /\ job.rows \subseteq Rows /\ job.found \in Optional(IPs)
    /\ job.failed \in BOOLEAN
    /\ held \subseteq Macs \X IPs /\ lost \subseteq {"arp", "arp failed", "scapy", "nmap"}

Holding(at) == {<<m, at[m]>> : m \in {d \in Macs : at[d] # Null}}

SweepInit ==
    /\ where \in [Macs -> Optional(IPs)]
    /\ \A d, e \in Macs : where[d] = where[e] /\ d # e => where[d] = Null
    /\ moves = 0
    /\ \E mode \in Modes, target \in Macs, scope \in Scopes, ip \in BOOLEAN :
          job = [pc |-> "idle", mode |-> mode, target |-> target,
                 scope |-> scope, ip |-> ip, todo |-> {}, rows |-> {},
                 found |-> Null, failed |-> FALSE]
    /\ held = Holding(where)
    /\ lost = {}

-----------------------------------------------------------------------------
(* What the machine tells of its networks.  job.ip: command ip works.      *)

GetLocalInterface(n) == IF job.ip THEN Route[n] ELSE Null
Discovered(n)        == IF job.ip THEN AutoIface[n] ELSE Null

IsTunnelInterface(i, readable) ==
    /\ i # Null
    /\ IF readable /\ i \in BroadcastFlag \cup PointToPointFlag
         THEN i \notin BroadcastFlag
         ELSE i \in TunnelNamed

(* Mutant: every network behind a broadcast interface is taken for local.  *)
ClassifySubnetByFlag(n, explicit) ==
    LET i == IF explicit # Null THEN explicit ELSE GetLocalInterface(n)
        readable == job.ip /\ i # Null
    IN  IF IsTunnelInterface(i, readable) THEN "tunnel"
        ELSE IF ~ readable THEN "unknown" ELSE "broadcast"

ClassifySubnet(n, explicit) ==
    LET i == IF explicit # Null THEN explicit ELSE GetLocalInterface(n)
        readable == job.ip /\ i # Null
    IN  IF IsTunnelInterface(i, readable) THEN "tunnel"
        ELSE IF ~ readable THEN "unknown"
        ELSE IF i \in BroadcastFlag /\ n \in Holds[i] THEN "broadcast" ELSE "routed"

L3Only(n, explicit) == ClassifySubnet(n, explicit) \in {"tunnel", "routed"}

(* Mutant: a network without an interface is planned like the others.      *)
PlanSweepsAnywhere(nets) ==
    LET Iface(n) == IF Discovered(n) # Null THEN Discovered(n) ELSE GetLocalInterface(n)
    IN  {<<Iface(n), n>> : n \in nets \ TooSmall}

(* _plan_sweeps, and the same loop of run_arp_scan.                        *)
PlanSweeps(nets) ==
    LET Iface(n) == IF Discovered(n) # Null THEN Discovered(n) ELSE GetLocalInterface(n)
    IN  {<<Iface(n), n>> : n \in {k \in nets \ TooSmall : Iface(k) # Null}}

DefaultNets == {n \in Nets : Discovered(n) # Null}

ArpPlan ==
    PlanSweeps(IF job.scope # Null THEN job.scope
               ELSE IF DefaultNets # {} THEN DefaultNets ELSE {Primary})

InScope(ip) == job.scope = Null \/ \E n \in job.scope : ip \in Addr[n]

-----------------------------------------------------------------------------
(* What the network answers.                                               *)

DevicesIn(nets) == {[ip |-> where[d], mac |-> d] :
                      d \in {e \in Macs : \E n \in nets : where[e] \in Addr[n]}}

(* An ARP broadcast for n on interface i reaches the devices of n on its   *)
(* own segment.  Elsewhere the one peer answers in the place of all.       *)
BroadcastRows(i, n) ==
    IF i \in BroadcastFlag /\ n \in Holds[i] THEN DevicesIn({n})
    ELSE IF Peer[i] = Null THEN {} ELSE [ip: Addr[n], mac: {Peer[i]}]

(* What else is on the segment may be heard by arp-scan as well.           *)
StrayRows(i) == IF i \in BroadcastFlag THEN DevicesIn(Holds[i]) ELSE {}

(* run_l3_probe: whichever of its three tools works, live addresses only.  *)
L3Rows(n) == IF n \in TooLarge THEN {}
             ELSE {[ip |-> r.ip, mac |-> Null] : r \in DevicesIn({n})}

(* nmap -sn: MACs on the interface's own segment only.                     *)
NmapRows(n) == IF ClassifySubnet(n, Null) = "broadcast" THEN DevicesIn({n})
               ELSE {[ip |-> r.ip, mac |-> Null] : r \in DevicesIn({n})}

TargetIn(n) == where[job.target] \in Addr[n]

(* The tool has answered for n, and the target is not in its answer.       *)
Missed(tool, n, heard) ==
    lost' = lost \cup (IF TargetIn(n) /\ job.target \notin {r.mac : r \in heard}
                         THEN {tool} ELSE {})

-----------------------------------------------------------------------------
(* The end of a search, and the change of tool.                            *)

(* _match_mac_in_output, the first of the matching rows.                   *)
Matches(rows) == {r.ip : r \in {x \in rows : x.mac = job.target /\ InScope(x.ip)}}
Match(rows)   == IF Matches(rows) = {} THEN {Null} ELSE Matches(rows)

(* _parse_scan_output keeps what is in scope.                              *)
Done(j) == [j EXCEPT !.pc = "done", !.todo = {},
                     !.rows = {r \in @ : InScope(r.ip)}]

(* run_scapy_scan sweeps every network it is given, or the primary one.    *)
ToScapy(j) == [j EXCEPT !.pc = "scapy", !.rows = {}, !.failed = FALSE,
                        !.todo = {<<Null, n>> : n \in IF job.scope = Null
                                                      THEN {Primary} ELSE job.scope}]

(* Mutant: only an error makes a search go on with scapy.                  *)
AfterArpTrusting(j) ==
    \E ip \in IF j.failed THEN {Null} ELSE Match(j.rows) :
        CASE j.mode = "validate" /\ j.rows = {} /\ j.failed -> job' = ToScapy(j)
          [] j.mode = "find" /\ j.failed   -> job' = ToScapy(j)
          [] OTHER                         -> job' = Done([j EXCEPT !.found = ip])

(* arp-scan is through.  After an error its rows name no device: a search  *)
(* goes on with scapy, as a validation does that has no rows.              *)
AfterArp(j) ==
    \E ip \in IF j.failed THEN {Null} ELSE Match(j.rows) :
        CASE j.mode = "find" /\ ip # Null -> job' = Done([j EXCEPT !.found = ip])
          [] j.mode = "arp-scan"          -> job' = Done([j EXCEPT !.found = ip])
          [] j.mode = "validate" /\ (j.rows # {} \/ ~ j.failed) -> job' = Done(j)
          [] OTHER                        -> job' = ToScapy(j)

Start ==
    /\ job.pc = "idle"
    /\ held' = Holding(where)
    /\ CASE job.mode = "scapy" -> job' = ToScapy(job)
         [] job.mode = "nmap"  ->
              LET nets == IF job.scope = Null THEN DefaultNets ELSE job.scope
              IN  job' = IF nets = {} THEN Done(job)
                         ELSE [job EXCEPT !.pc = "nmap", !.todo = {<<Null, n>> : n \in nets}]
         [] OTHER ->
              IF ArpPlan # {} THEN job' = [job EXCEPT !.pc = "arp", !.todo = ArpPlan]
              ELSE IF job.scope = Null THEN job' = [job EXCEPT !.pc = "passive"]
              ELSE AfterArp([job EXCEPT !.failed = TRUE])
    /\ UNCHANGED <<where, moves, lost>>

-----------------------------------------------------------------------------
(* One network with one tool.                                              *)

ArpGoesOn(j) == IF j.todo = {} THEN AfterArp(j) ELSE job' = j

(* Mutant: responders outside the networks asked for are kept.             *)
KeptUnfiltered(rows) == rows

(* _filter_and_dedupe.  The code calls it once, on the rows of all sweeps: *)
(* it looks at one row at a time, so this comes to the same.               *)
Kept(rows) == {r \in rows : InScope(r.ip)}

ArpSweep(i, n) ==
    /\ job.pc = "arp" /\ <<i, n>> \in job.todo
    /\ LET left == [job EXCEPT !.todo = @ \ {<<i, n>>}] IN
       IF L3Only(n, i)
         THEN \E heard \in SUBSET L3Rows(n) :
                 /\ ArpGoesOn([left EXCEPT !.rows = @ \cup heard,
                                           !.failed = @ \/ n \in TooLarge])
                 /\ Missed("arp", n, heard)
         ELSE \E heard \in SUBSET (BroadcastRows(i, n) \cup StrayRows(i)) :
                 /\ ArpGoesOn([left EXCEPT !.rows = @ \cup Kept(heard)])
                 /\ Missed("arp", n, heard)
    /\ UNCHANGED <<where, moves, held>>

(* It fails or times out, and the others still run.                        *)
ArpFails(i, n) ==
    /\ job.pc = "arp" /\ <<i, n>> \in job.todo /\ ~ L3Only(n, i)
    /\ ArpGoesOn([job EXCEPT !.todo = @ \ {<<i, n>>}, !.failed = TRUE])
    /\ Missed("arp failed", n, {})
    /\ UNCHANGED <<where, moves, held>>

(* Without the binary nothing is left of the sweeps before.                *)
ArpMissing ==
    /\ job.pc = "arp" /\ \E s \in job.todo : ~ L3Only(s[2], s[1])
    /\ AfterArp([job EXCEPT !.todo = {}, !.rows = {}, !.failed = TRUE])
    /\ lost' = lost \cup {"arp failed"}
    /\ UNCHANGED <<where, moves, held>>

(* arp-scan -l, when there is no network to name.                          *)
PassiveDump ==
    /\ job.pc = "passive"
    /\ \/ \E heard \in SUBSET StrayRows(Default) : AfterArp([job EXCEPT !.rows = heard])
       \/ AfterArp([job EXCEPT !.failed = TRUE])
    /\ UNCHANGED <<where, moves, held, lost>>

ScapyGoesOn(j) == job' = IF j.todo = {} THEN Done(j) ELSE j

ScapySweep(n) ==
    LET egress == IF GetLocalInterface(n) = Null THEN Default ELSE GetLocalInterface(n)
        left == [job EXCEPT !.todo = @ \ {<<Null, n>>}]
    IN  /\ job.pc = "scapy" /\ <<Null, n>> \in job.todo
        /\ \E heard \in SUBSET (IF L3Only(n, Null) THEN L3Rows(n)
                                ELSE BroadcastRows(egress, n)) :
             /\ \E ip \in Match(heard) :
                   ScapyGoesOn([left EXCEPT !.rows = @ \cup heard,
                                  !.found = IF @ = Null /\ job.mode # "validate" THEN ip ELSE @])
             /\ Missed("scapy", n, heard)
        /\ UNCHANGED <<where, moves, held>>

(* The failure of one network is logged and nothing else.                  *)
ScapyFails(n) ==
    /\ job.pc = "scapy" /\ <<Null, n>> \in job.todo /\ ~ L3Only(n, Null)
    /\ ScapyGoesOn([job EXCEPT !.todo = @ \ {<<Null, n>>}])
    /\ Missed("scapy", n, {})
    /\ UNCHANGED <<where, moves, held>>

(* Mutant: the search begins again when there is no scapy.                 *)
ScapyMissingRetried ==
    /\ job.pc = "scapy"
    /\ job' = [job EXCEPT !.pc = "idle", !.todo = {}, !.rows = {}]
    /\ UNCHANGED <<where, moves, held, lost>>

(* No scapy, or an exception outside of one network's sweep.               *)
ScapyMissing ==
    /\ job.pc = "scapy"
    /\ job' = Done([job EXCEPT !.rows = {}, !.found = Null, !.failed = TRUE])
    /\ lost' = lost \cup {"scapy"}
    /\ UNCHANGED <<where, moves, held>>

NmapGoesOn(j) ==
    \E ip \in Match(j.rows) :
        job' = IF j.todo # {} THEN j ELSE Done([j EXCEPT !.found = ip])

NmapSweep(n) ==
    /\ job.pc = "nmap" /\ <<Null, n>> \in job.todo
    /\ \E heard \in SUBSET NmapRows(n) :
          /\ NmapGoesOn([job EXCEPT !.todo = @ \ {<<Null, n>>}, !.rows = @ \cup heard])
          /\ Missed("nmap", n, heard)
    /\ UNCHANGED <<where, moves, held>>

NmapFails(n) ==
    /\ job.pc = "nmap" /\ <<Null, n>> \in job.todo
    /\ NmapGoesOn([job EXCEPT !.todo = @ \ {<<Null, n>>}, !.failed = TRUE])
    /\ Missed("nmap", n, {})
    /\ UNCHANGED <<where, moves, held>>

SweepStep ==
    \/ \E i \in Ifaces, n \in Nets : ArpSweep(i, n) \/ ArpFails(i, n)
    \/ \E n \in Nets : ScapySweep(n) \/ ScapyFails(n) \/ NmapSweep(n) \/ NmapFails(n)
    \/ Start \/ ArpMissing \/ PassiveDump \/ ScapyMissing

(* A device takes another address, or leaves.                              *)
Move(d, to) ==
    /\ job.pc \notin {"idle", "done"} /\ moves < MaxMoves
    /\ to # where[d] /\ \A e \in Macs : to = where[e] => to = Null
    /\ where' = [where EXCEPT ![d] = to]
    /\ moves' = moves + 1
    /\ held' = held \cup Holding(where')
    /\ UNCHANGED <<job, lost>>

SweepNext == SweepStep \/ \E d \in Macs, to \in Optional(IPs) : Move(d, to)

(* Every tool runs under a timeout.                                        *)
SweepSpec == SweepInit /\ [][SweepNext]_sweepVars /\ WF_sweepVars(SweepStep)

-----------------------------------------------------------------------------
(* A network for which "ip route get" names no interface is swept by scapy *)
(* on the interface it takes by itself.  There the network itself has to   *)
(* be, or nobody who answers in the place of others: so it is on every     *)
(* machine with a default route, which has no such network.                *)
Routed == \A n \in Nets :
    Route[n] = Null => \/ Peer[Default] = Null
                       \/ Default \in BroadcastFlag /\ n \in Holds[Default]

(* A MAC is only ever reported, and the target only ever found, at an      *)
(* address the device held during the search: never at one a gateway or a  *)
(* tunnel's peer answers for.                                              *)
RowsAreTrue ==
    job.ip => /\ \A r \in job.rows : r.mac # Null => <<r.mac, r.ip>> \in held
              /\ job.found # Null => <<job.target, job.found>> \in held

(* At no time has a search collected a host of a network that was not      *)
(* asked for, nor is its target found on one.                              *)
NothingLeaks ==
    /\ \A r \in job.rows : InScope(r.ip)
    /\ job.found # Null => InScope(job.found)

(* A device that stays where it is, on a local network that was asked for, *)
(* is found if the tool has swept its network and the device has answered: *)
(* by a search whatever arp-scan misses or fails on, by nmap whatever      *)
(* fails on other networks, and by an arp-scan that reports no error.      *)
StableIsFound ==
    /\ job.pc = "done" /\ job.mode # "validate" /\ job.scope # Null
    /\ moves = 0
    /\ \E n \in job.scope \ TooSmall :
          TargetIn(n) /\ ClassifySubnet(n, Null) = "broadcast"
    /\ CASE job.mode \in {"find", "scapy"} -> "scapy" \notin lost
         [] job.mode = "arp-scan"          -> "arp" \notin lost /\ ~ job.failed
         [] job.mode = "nmap"              -> lost = {}
    => job.found = where[job.target]

(* The same for a search that is given no networks, as a force-scan is:    *)
(* "a wedged NIC must not hide the other networks" (scanner.py:514).       *)
WedgedNicHidesNothing ==
    /\ job.pc = "done" /\ job.mode = "find" /\ job.scope = Null
    /\ moves = 0 /\ lost = {}
    /\ \E n \in DefaultNets : TargetIn(n)
    => job.found = where[job.target]

(* Every search ends.                                                      *)
SearchEnds == <>(job.pc = "done")
=============================================================================
