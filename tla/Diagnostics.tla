---------------------------- MODULE Diagnostics -----------------------------
(***************************************************************************)
(* The diagnostic scans together with the validations of hosts, of the     *)
(* edit page (validate_host) and of the add page (validate_new_host).      *)
(* Both are requests that hold their connection until they answer, change  *)
(* no host, and share with the scans the table of mDNS names and the       *)
(* directory of debug logs.  The subnets a validation sweeps are decided   *)
(* in module Subnets.                                                      *)
(***************************************************************************)
EXTENDS DiagnosticScan

CONSTANTS
    Checks,      \* validations
    Forms        \* what may be entered: [mac, ip], Null: left empty

ASSUME DiagnosticsAssumption ==
    /\ Checks \cap Scans = {} /\ Jobs = Checks \cup Scans
    /\ Forms \subseteq [mac: Macs \cup {Null}, ip: IPs \cup {Null}]

VARIABLE check   \* locals of each validation, and at last its answer

diagVars == <<scanVars, check>>

Unasked == [pc |-> "none", mac |-> Null, ip |-> Null, foundIp |-> Null,
            foundMac |-> Null, src |-> NoNames, probed |-> {},
            names |-> <<>>]

CheckTypeOK ==
    \A c \in Checks :
        /\ check[c].pc \in {"none", "sweep", "listen", "probe", "known",
                            "cached", "answer", "over"}
        /\ {check[c].ip, check[c].foundIp} \subseteq IPs \cup {Null}
        /\ {check[c].mac, check[c].foundMac} \subseteq Macs \cup {Null}
        /\ check[c].probed \subseteq IPs
        /\ DOMAIN check[c].names \subseteq check[c].probed

DiagTypeOK == ScanTypeOK /\ CheckTypeOK

DiagInit == ScanInit /\ check = [c \in Checks |-> Unasked]

-----------------------------------------------------------------------------
(* An empty field is filled from the record, if there is one.              *)
Begin(c, mac, ip) ==
    /\ check[c].pc = "none"
    /\ mac # Null \/ ip # Null
    /\ check' = [check EXCEPT ![c].pc = "sweep", ![c].mac = mac, ![c].ip = ip]
    /\ OpenLog(c)
    /\ UNCHANGED <<hosts, mdnsNames, edits, now, connected, task, progress, past>>

ValidateNewHost(c) == \E form \in Forms : Begin(c, form.mac, form.ip)

ValidateHost(c) ==
    \E form \in Forms, r \in Records :
        Begin(c, FirstOf(<<form.mac, hosts[r].mac>>), FirstOf(<<form.ip, hosts[r].ip>>))

(* sweep_responder_hosts, and the first row that matches in each           *)
(* direction.  Two rows with one MAC may come in either order.             *)
SweepResponders(c) ==
    /\ check[c].pc = "sweep"
    /\ \E seen \in SUBSET Responders :
       LET byMac == {r.ip : r \in {s \in seen : s.mac # Null /\ s.mac = check[c].mac}}
           byIp  == {r.mac : r \in {s \in seen : s.ip = check[c].ip}}
       IN  \E foundIp \in IF byMac = {} THEN {Null} ELSE byMac,
              foundMac \in IF byIp = {} THEN {Null} ELSE byIp :
              check' = [check EXCEPT ![c].pc = "listen", ![c].foundIp = foundIp,
                                     ![c].foundMac = foundMac]
    /\ Emit(c)
    /\ UNCHANGED <<hosts, mdnsNames, edits, now, connected, task, progress, past>>

(* The mDNS browse, and its names remembered.                              *)
Listen(c) ==
    /\ check[c].pc = "listen"
    /\ \E heard \in Hearings :
          /\ check' = [check EXCEPT ![c].pc = "probe",
                                    ![c].src.mdnsIp = ByIp(heard),
                                    ![c].src.mdnsMac = ByMac(heard)]
          /\ mdnsNames' = RememberMdnsNames(mdnsNames, ByMac(heard))
    /\ UNCHANGED <<hosts, edits, now, connected, task, progress, past, logVars>>

(* One probe per address of interest, all awaited together.  What they     *)
(* find is shown as it is, and left out here.                              *)
Probe(c) ==
    LET targets == {check[c].ip, check[c].foundIp} \ {Null} IN
    /\ check[c].pc = "probe"
    /\ check' = [check EXCEPT ![c].probed = targets,
                  ![c].pc = IF targets = {} THEN "answer" ELSE "known"]
    /\ Emit(c)
    /\ UNCHANGED <<hosts, mdnsNames, edits, now, connected, task, progress, past>>

(* The targets are named one after the other, each with two reads.         *)
ReadKnown(c) ==
    /\ check[c].pc = "known"
    /\ check' = [check EXCEPT ![c].pc = "cached",
                              ![c].src.known = LoadKnownHostnames(hosts)]
    /\ UNCHANGED <<hosts, mdnsNames, edits, now, connected, task, progress, past, logVars>>

(* Every target goes under the MAC that answers at the entered address.    *)
NameTarget(c) ==
    /\ check[c].pc = "cached"
    /\ \E ip \in check[c].probed \ DOMAIN check[c].names :
       LET src == [check[c].src EXCEPT !.cached = mdnsNames]
           names == [i \in DOMAIN check[c].names \cup {ip} |->
                       IF i = ip THEN ResolveHostname(ip, check[c].foundMac, src)
                                 ELSE check[c].names[i]]
       IN  check' = [check EXCEPT ![c].src = src, ![c].names = names,
               ![c].pc = IF DOMAIN names = check[c].probed
                           THEN "answer" ELSE "known"]
    /\ UNCHANGED <<hosts, mdnsNames, edits, now, connected, task, progress, past, logVars>>

Answer(c) ==
    /\ check[c].pc = "answer"
    /\ check' = [check EXCEPT ![c] = [Unasked EXCEPT !.pc = "over"]]
    /\ CloseLog(c)
    /\ UNCHANGED <<hosts, mdnsNames, edits, now, connected, task, progress, past>>

CheckStep(c) ==
    \/ SweepResponders(c) \/ Listen(c) \/ Probe(c)
    \/ ReadKnown(c) \/ NameTarget(c) \/ Answer(c)

DiagNext ==
    \/ ScanStep /\ UNCHANGED check
    \/ \E c \in Checks : ValidateNewHost(c) \/ ValidateHost(c) \/ CheckStep(c)

(* The tools have timeouts, and the event loop runs every ready task.      *)
DiagSpec ==
    /\ DiagInit /\ [][DiagNext]_diagVars
    /\ \A s \in Scans : WF_diagVars(TaskStep(s) /\ UNCHANGED check)

-----------------------------------------------------------------------------
(* The device that answers at the entered address with a MAC that has a    *)
(* record is shown there under a name of the record, one it had while the  *)
(* validation ran, whichever MAC was entered and whatever the device       *)
(* announces.  Where nothing answers with a MAC, nothing is promised.      *)
ValidationNamesRecord ==
    \A c \in Checks :
        LET mac == check[c].foundMac
        IN  check[c].pc = "answer" /\ mac # Null /\ Null \notin past[mac]
                => check[c].names[check[c].ip] \in past[mac]
=============================================================================
