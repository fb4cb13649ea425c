------------------------------ MODULE Subnets -------------------------------
(***************************************************************************)
(* The networks a recovery sweeps: manual rows of the table subnets, the   *)
(* local /24s found on the interfaces, the list of those the operator has  *)
(* deleted on the settings page, and the pin of a host.  The pages of      *)
(* app/main.py change them, with a read and a write of their own for the   *)
(* list, while _run_recovery of app/services/monitor.py and list_subnets   *)
(* of app/services/scanner.py read them one after the other.  A search     *)
(* that is given no network at all takes every local one.                  *)
(***************************************************************************)
EXTENDS Naturals, FiniteSets

CONSTANTS
    NoNet,       \* None
    Cidrs,
    Loose,       \* local networks whose interface comes and goes
    Edits,       \* requests of the settings page to the suppressed list
    MaxSubnets   \* bound on the rows ever added to subnets

ASSUME SubnetsAssumption ==
    NoNet \notin Cidrs /\ Loose \subseteq Cidrs /\ MaxSubnets \in Nat

VARIABLES
    subnets,      \* table subnets: a function from the ids in it
    lastSubnet,   \* sqlite_sequence of subnets
    attached,     \* the local /24s that "ip -4 addr" shows
    suppressed,   \* the list under settings.suppressed_subnets
    edits,        \* where each request is, and the list it has read
    pin,          \* the pin of a host, and, as history, the network meant
    recovery,     \* a recovery of that host: the pin and rows it has read
    steady        \* history: what has held since recovery began its list

subnetVars == <<subnets, lastSubnet, attached, suppressed, edits, pin, recovery,
                steady>>

NoPin == [cidr |-> NoNet, id |-> 0, net |-> NoNet]
Empty == [manual |-> {}, auto |-> {}, hidden |-> {}]
Listing == {"manual", "suppressed", "auto", "default"}
Idle == [pc |-> "idle", pin |-> NoPin, manual |-> {}, hidden |-> {},
         scope |-> {}, byDefault |-> FALSE]

SubnetsTypeOK ==
    /\ DOMAIN subnets \subseteq 1..lastSubnet /\ lastSubnet \in 0..MaxSubnets
    /\ \A i, j \in DOMAIN subnets : subnets[i].cidr = subnets[j].cidr => i = j
    /\ attached \subseteq Cidrs /\ suppressed \subseteq Cidrs
    /\ pin.cidr \in Cidrs \cup {NoNet} /\ pin.id \in 0..MaxSubnets
    /\ recovery.pc \in {"idle", "pin", "swept"} \cup Listing
    /\ recovery.scope \subseteq Cidrs /\ recovery.byDefault \in BOOLEAN

SubnetsInit ==
    /\ subnets = << >> /\ lastSubnet = 0
    /\ attached = Cidrs /\ suppressed = {}
    /\ edits = [r \in Edits |-> [pc |-> "new", list |-> {}]]
    /\ pin = NoPin /\ recovery = Idle
    /\ steady = Empty

Enabled == {subnets[i].cidr : i \in {j \in DOMAIN subnets : subnets[j].on}}

-----------------------------------------------------------------------------
Pages == <<attached, recovery>>

(* Mutant: without AUTOINCREMENT the id of a deleted last row comes back.  *)
NewIdReusing == Cardinality(DOMAIN subnets) + 1

NewId == lastSubnet + 1

(* add_subnet: UNIQUE (cidr) refuses a network that has a row.             *)
AddSubnet == \E cidr \in Cidrs, on \in BOOLEAN :
    /\ NewId <= MaxSubnets
    /\ \A i \in DOMAIN subnets : subnets[i].cidr # cidr
    /\ subnets' = [i \in DOMAIN subnets \cup {NewId} |->
                     IF i = NewId THEN [cidr |-> cidr, on |-> on] ELSE subnets[i]]
    /\ lastSubnet' = NewId
    /\ UNCHANGED <<Pages, suppressed, edits, pin>>

ToggleSubnet == \E i \in DOMAIN subnets :
    /\ subnets' = [subnets EXCEPT ![i].on = ~@]
    /\ UNCHANGED <<Pages, lastSubnet, suppressed, edits, pin>>

(* delete_subnet: foreign keys are off, and pins keep the id.              *)
DeleteSubnet == \E i \in DOMAIN subnets :
    /\ subnets' = [j \in DOMAIN subnets \ {i} |-> subnets[j]]
    /\ UNCHANGED <<Pages, lastSubnet, suppressed, edits, pin>>

(* The host form: no pin, the CIDR of any network, or the id of a row.     *)
PinHost ==
    /\ \/ pin' = NoPin
       \/ \E cidr \in Cidrs : pin' = [cidr |-> cidr, id |-> 0, net |-> cidr]
       \/ \E i \in DOMAIN subnets : pin' = [cidr |-> NoNet, id |-> i, net |-> subnets[i].cidr]
    /\ UNCHANGED <<Pages, subnets, lastSubnet, suppressed, edits>>

(* load_suppressed_subnets of a request to suppress or to rescan.          *)
ReadList(r) ==
    /\ edits[r].pc = "new"
    /\ edits' = [edits EXCEPT ![r] = [pc |-> "save", list |-> suppressed]]
    /\ UNCHANGED <<Pages, subnets, lastSubnet, suppressed, pin>>

Save(r, list) ==
    /\ suppressed' = list
    /\ edits' = [edits EXCEPT ![r] = [pc |-> "new", list |-> {}]]
    /\ UNCHANGED <<Pages, subnets, lastSubnet, pin>>

SuppressSubnet(r) == \E cidr \in Cidrs :
    edits[r].pc = "save" /\ Save(r, edits[r].list \cup {cidr})
RescanSubnet(r) == \E cidr \in Cidrs :
    edits[r].pc = "save" /\ Save(r, edits[r].list \ {cidr})
RescanAllSubnets(r) == edits[r].pc = "new" /\ Save(r, {})

(* An interface comes or goes.                                             *)
Replug == \E cidr \in Loose :
    /\ attached' = IF cidr \in attached THEN attached \ {cidr} ELSE attached \cup {cidr}
    /\ UNCHANGED <<subnets, lastSubnet, suppressed, edits, pin, recovery>>

-----------------------------------------------------------------------------
Tables == <<subnets, lastSubnet, attached, suppressed, edits, pin>>

Sweeps(cidrs) ==
    recovery' = [recovery EXCEPT !.pc = "swept", !.manual = {}, !.hidden = {},
                                 !.scope = cidrs, !.byDefault = (recovery.pc = "default")]

(* The row of hosts that the cycle has read.                               *)
BeginRecovery ==
    /\ recovery.pc \in {"idle", "swept"}
    /\ recovery' = [Idle EXCEPT !.pc = "pin", !.pin = pin] /\ UNCHANGED Tables

(* Its subnet_cidr, the row of its subnet_id, enabled or not, or the list. *)
ResolvePin ==
    /\ recovery.pc = "pin"
    /\ IF recovery.pin.cidr # NoNet THEN Sweeps({recovery.pin.cidr})
       ELSE IF recovery.pin.id \in DOMAIN subnets THEN Sweeps({subnets[recovery.pin.id].cidr})
       ELSE recovery' = [recovery EXCEPT !.pc = "manual"]
    /\ UNCHANGED Tables

(* list_subnets: the enabled rows, ...                                     *)
ReadManual ==
    /\ recovery.pc = "manual"
    /\ recovery' = [recovery EXCEPT !.pc = "suppressed", !.manual = Enabled]
    /\ UNCHANGED Tables

(* ... the suppressed list, ...                                            *)
ReadSuppressed ==
    /\ recovery.pc = "suppressed"
    /\ recovery' = [recovery EXCEPT !.pc = "auto", !.hidden = suppressed]
    /\ UNCHANGED Tables

SweepsList(cidrs) ==
    IF cidrs # {} THEN Sweeps(cidrs)
                  ELSE recovery' = [recovery EXCEPT !.pc = "default", !.hidden = {}]

(* Mutant: a deleted network is kept out even where it has a row.          *)
ReadAutoSuppressingAll ==
    /\ recovery.pc = "auto"
    /\ SweepsList((recovery.manual \cup attached) \ recovery.hidden) /\ UNCHANGED Tables

(* ... and the local networks.                                             *)
ReadAuto ==
    /\ recovery.pc = "auto"
    /\ SweepsList(recovery.manual \cup (attached \ recovery.hidden)) /\ UNCHANGED Tables

(* "subnet_ids or None": for None the sweep looks up the local networks.   *)
SweepByDefault == recovery.pc = "default" /\ Sweeps(attached) /\ UNCHANGED Tables

Now == [manual |-> Enabled, auto |-> attached \ suppressed,
        hidden |-> suppressed \ Enabled]

SubnetsStep ==
    \/ AddSubnet \/ ToggleSubnet \/ DeleteSubnet \/ PinHost \/ Replug
    \/ \E r \in Edits :
          ReadList(r) \/ SuppressSubnet(r) \/ RescanSubnet(r) \/ RescanAllSubnets(r)
    \/ BeginRecovery \/ ResolvePin \/ ReadManual \/ ReadSuppressed \/ ReadAuto
    \/ SweepByDefault

Unpinned == recovery.pin.cidr = NoNet /\ recovery.pin.id = 0

SubnetsNext ==
    /\ SubnetsStep
    /\ steady' = IF recovery'.pc \in Listing
                   THEN IF recovery.pc \in Listing
                          THEN [f \in DOMAIN Now' |-> steady[f] \cap Now'[f]] ELSE Now'
                 ELSE IF recovery'.pc = "swept" THEN steady ELSE Empty

-----------------------------------------------------------------------------
(* Every network that was enabled, or attached and not deleted, all the    *)
(* while, and none that was deleted all the while, unless there was no     *)
(* network but deleted ones.                                               *)
Everywhere ==
    /\ steady.manual \cup steady.auto \subseteq recovery.scope
    /\ \/ recovery.scope \cap steady.hidden = {}
       \/ recovery.byDefault /\ steady.manual \cup steady.auto = {}

(* Whatever changes while the scope is put together: a recovery of a host  *)
(* without a pin searches everywhere.                                      *)
EffectiveScope == recovery.pc = "swept" /\ Unpinned => Everywhere

(* A pin never comes to mean another network: a pinned host is searched    *)
(* for in its network and nowhere else; only when it was pinned to a row,  *)
(* and the row is gone, is it searched for everywhere.                     *)
PinnedNowhereElse ==
    recovery.pc = "swept" /\ ~Unpinned =>
        \/ recovery.scope = {recovery.pin.net}
        \/ /\ recovery.pin.cidr = NoNet /\ recovery.pin.id \notin DOMAIN subnets
           /\ Everywhere
=============================================================================
