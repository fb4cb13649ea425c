-------------------------------- MODULE Lan ---------------------------------
(***************************************************************************)
(* The local network the healer looks after: devices, known by their MAC   *)
(* address, that hold one IP address at a time and serve some TCP ports.   *)
(* DHCP moves them, they go down, their services stop and start.  None of  *)
(* this is the healer's code; what is the healer's are the two questions   *)
(* it asks of the network, check_host_reachable and find_ip_by_mac.        *)
(***************************************************************************)
EXTENDS Naturals

CONSTANTS
    IPs,         \* addresses DHCP may hand out
    Macs,        \* the devices
    Ports,       \* TCP ports
    Null,        \* no address, SQL NULL, Python None
    Home,        \* [Macs -> IPs]: where each device is at first
    Services,    \* [Macs -> SUBSET Ports]: what each device can serve
    Faults,      \* which failures of the outside world may happen
    MaxStimuli   \* bound on external events (moves, requests, crashes)

FaultKinds == {"sweep", "connect", "mariadb", "reload", "signal", "crash"}

ASSUME LanAssumption ==
    /\ Null \notin IPs
    /\ Home \in [Macs -> IPs]
    /\ Services \in [Macs -> SUBSET Ports]
    /\ Faults \subseteq FaultKinds
    /\ MaxStimuli \in Nat

VARIABLES
    at,        \* the address each device holds, or Null while it is off
    serves,    \* the ports each device accepts connections on
    seen,      \* history: every address each device has held
    stimuli    \* external events so far

lanVars == <<at, serves, seen, stimuli>>

Address == IPs \cup {Null}

LanTypeOK ==
    /\ at \in [Macs -> Address]
    /\ serves \in [Macs -> SUBSET Ports]
    /\ seen \in [Macs -> SUBSET IPs]
    /\ stimuli \in 0..MaxStimuli

LanInit ==
    /\ at = Home
    /\ serves = Services
    /\ seen = [m \in Macs |-> {Home[m]}]
    /\ stimuli = 0

(* Something happens from outside: at most MaxStimuli times.               *)
Stimulus == stimuli < MaxStimuli /\ stimuli' = stimuli + 1

-----------------------------------------------------------------------------
(* What the network does.                                                  *)

(* DHCP gives the device, moved or switched back on, a free address.       *)
Move(m, ip) ==
    /\ Stimulus
    /\ \A x \in Macs : at[x] # ip
    /\ at' = [at EXCEPT ![m] = ip]
    /\ seen' = [seen EXCEPT ![m] = @ \cup {ip}]
    /\ UNCHANGED serves

GoOffline(m) ==
    /\ Stimulus
    /\ at[m] # Null
    /\ at' = [at EXCEPT ![m] = Null]
    /\ UNCHANGED <<serves, seen>>

StopService(m, p) ==
    /\ Stimulus
    /\ p \in serves[m]
    /\ serves' = [serves EXCEPT ![m] = @ \ {p}]
    /\ UNCHANGED <<at, seen>>

StartService(m, p) ==
    /\ Stimulus
    /\ p \in Services[m] \ serves[m]
    /\ serves' = [serves EXCEPT ![m] = @ \cup {p}]
    /\ UNCHANGED <<at, seen>>

LanStep ==
    \E m \in Macs :
        \/ \E ip \in IPs : Move(m, ip)
        \/ GoOffline(m)
        \/ \E p \in Ports : StopService(m, p)
        \/ \E p \in Ports : StartService(m, p)

-----------------------------------------------------------------------------
(* What the healer can learn of it.                                        *)

Answers(ip, port) ==
    ip # Null /\ \E m \in Macs : at[m] = ip /\ port \in serves[m]

(* The values check_host_reachable may return: it only opens a TCP         *)
(* connection, so any device at the address will do, and it reports every  *)
(* exception, a timeout on a busy network included, as unreachable.        *)
CheckHostReachable(ip, port) ==
    {Answers(ip, port)} \cup (IF "connect" \in Faults THEN {FALSE} ELSE {})

(* The values find_ip_by_mac may return: where the MAC answers the sweep   *)
(* now, or None when the device is off, or when the sweep misses it.       *)
FindIpByMac(mac) ==
    {at[mac]} \cup (IF "sweep" \in Faults THEN {Null} ELSE {})
=============================================================================
