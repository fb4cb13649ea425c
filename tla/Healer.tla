------------------------------- MODULE Healer -------------------------------
(***************************************************************************)
(* The monitor together with the web handlers that work on the same        *)
(* tables: force-scan, the edit form and the delete button.  All of them   *)
(* are coroutines of one event loop, each with its own SQLite connection;  *)
(* they interleave at every await, and none runs while another is inside   *)
(* a synchronous NPMClient call.                                           *)
(***************************************************************************)
EXTENDS Monitor

CONSTANTS
    Ops,      \* the requests operators make
    Forms     \* what they may submit in the edit form

ASSUME HealerAssumption ==
    /\ Ops \subseteq {"force", "edit", "delete"}
    /\ Forms \subseteq [mac: Macs, ip: Address, port: Ports,
                        npm: Npms \cup {Null}, mode: {"enabled", "disabled"}]

VARIABLES
    fpc,         \* where a force-scan request is, "none" without one
    req,         \* the hosts row it read, with its id
    ipPortOk,    \* result of its TCP check
    macIp        \* result of its sweep

forceVars == <<fpc, req, ipPortOk, macIp>>
allVars == <<vars, forceVars>>

Request == [id: HostIds, mac: Macs, ip: Address, port: Ports,
            npm: Npms \cup {Null}]

ForceTypeOK ==
    /\ fpc \in {"none", "check", "sweep", "npm", "reload", "commit"}
    /\ req \in Request \cup {Null}
    /\ fpc # "none" => req \in Request
    /\ fpc \in {"npm", "reload"} => req.npm \in Npms /\ macIp \in IPs
    /\ ipPortOk \in BOOLEAN
    /\ macIp \in Address

HealerTypeOK == TypeOK /\ ForceTypeOK

HealerInit ==
    /\ Init
    /\ fpc = "none" /\ req = Null /\ ipPortOk = FALSE /\ macIp = Null

(* Mutant: the monitor's calls to NPM are awaited.                         *)
MonitorNeverBlocks == FALSE

(* A coroutine is inside synchronous calls to NPM.                         *)
MonitorBlocks == pc = "reload"
ForceBlocks == fpc = "reload"

-----------------------------------------------------------------------------
(* force_scan.                                                             *)

RequestOver == fpc' = "none" /\ req' = Null /\ ipPortOk' = FALSE /\ macIp' = Null

ForceRequest(h) ==
    /\ "force" \in Ops
    /\ fpc = "none"
    /\ hosts[h].mode # "deleted"
    /\ Stimulus
    /\ fpc' = "check"
    /\ req' = [id |-> h, mac |-> hosts[h].mac, ip |-> hosts[h].ip,
               port |-> hosts[h].port, npm |-> hosts[h].npm]
    /\ UNCHANGED <<at, serves, seen, npmVars, storeVars, monVars>>
    /\ UNCHANGED <<ipPortOk, macIp>>

ForceCheck ==
    /\ fpc = "check"
    /\ ipPortOk' \in CheckHostReachable(req.ip, req.port)
    /\ fpc' = "sweep"
    /\ UNCHANGED <<vars, req, macIp>>

(* Mutant: no address found counts as a new address.                       *)
ForceSweepAnyResult ==
    /\ fpc = "sweep"
    /\ macIp' \in FindIpByMac(req.mac)
    /\ fpc' = IF req.npm # Null /\ macIp' # req.ip THEN "npm" ELSE "commit"
    /\ UNCHANGED <<vars, req, ipPortOk>>

(* The proxy is looked at only when the sweep found a new address.         *)
ForceSweep ==
    /\ fpc = "sweep"
    /\ macIp' \in FindIpByMac(req.mac)
    /\ fpc' = IF req.npm # Null /\ macIp' \notin {Null, req.ip}
                THEN "npm" ELSE "commit"
    /\ UNCHANGED <<vars, req, ipPortOk>>

(* Mutant: nginx is left alone.                                            *)
ForceProxyNoReload ==
    /\ fpc = "npm"
    /\ fpc' = "commit"
    /\ \E fwd \in GetProxyHost(req.npm) :
          \/ fwd \in {Null, macIp} /\ UNCHANGED npmVars
          \/ fwd \notin {Null, macIp} /\ ForwardUpdated(req.npm, macIp)
    /\ UNCHANGED <<lanVars, storeVars, monVars, req, ipPortOk, macIp>>

(* Nothing to do, or updated, or failed.                                   *)
ForceProxy ==
    /\ fpc = "npm"
    /\ \E fwd \in GetProxyHost(req.npm) :
          \/ /\ fwd \in {Null, macIp}
             /\ fpc' = "commit"
             /\ UNCHANGED npmVars
          \/ /\ fwd \notin {Null, macIp}
             /\ ForwardUpdated(req.npm, macIp)
             /\ fpc' = "reload"
          \/ /\ fwd \notin {Null, macIp}
             /\ ForwardUpdateFailed(req.npm, macIp)
             /\ fpc' = "commit"
    /\ UNCHANGED <<lanVars, storeVars, monVars, req, ipPortOk, macIp>>

(* An exception answers 500 before anything is written to SQLite.          *)
ForceReload ==
    /\ fpc = "reload"
    /\ \/ /\ NginxReloaded \/ ReloadFailed \/ ReloadRefused
          /\ fpc' = "commit"
          /\ UNCHANGED <<req, ipPortOk, macIp>>
       \/ ReloadRaised /\ RequestOver
    /\ UNCHANGED <<lanVars, storeVars, monVars>>

(* The transaction: adopt the address, then settle the status.  A sighting *)
(* by MAC alone counts; a failure keeps whatever stamp there was.          *)
ForceCommit ==
    LET h == req.id
        reached == ipPortOk \/ macIp # Null
        old == EnsureStateRow(h)[h]
    IN  /\ fpc = "commit"
        /\ hosts' = IF macIp \notin {Null, req.ip}
                      THEN WithCurrentIp({h}, macIp) ELSE hosts
        /\ hstate' = [hstate EXCEPT ![h] =
              [status |-> IF reached THEN "healthy" ELSE "unreachable",
               since  |-> IF reached THEN Null ELSE old.since,
               lastIp |-> IF macIp # Null THEN macIp ELSE old.lastIp]]
        /\ RequestOver
        /\ UNCHANGED <<lanVars, npmVars, monVars>>

ForceStep ==
    \/ ForceCheck \/ ForceSweep \/ ForceProxy \/ ForceReload \/ ForceCommit

-----------------------------------------------------------------------------
(* The edit form and the delete button.                                    *)

(* The row a submitted form is saved as, given what NPM answers for the    *)
(* linked proxy and how the operator resolved a mismatch.  An unresolved   *)
(* mismatch only shows the prompt, so it is not among the results.         *)
SavedAs(h, form, fwd) ==
    {form,                                      \* "link", or no mismatch
     [form EXCEPT !.npm = hosts[h].npm],        \* "cancel"
     IF fwd = Null THEN form                    \* "match"
       ELSE [form EXCEPT !.ip = fwd, !.port = ForwardPort[form.npm]]}

(* Mutant: a saved form restarts the monitoring of the host.               *)
EditHostClearingStamp(h) ==
    /\ "edit" \in Ops
    /\ hosts[h].mode # "deleted"
    /\ Stimulus
    /\ \E form \in Forms : hosts' = [hosts EXCEPT ![h] = form]
    /\ hstate' = [hstate EXCEPT ![h].since = Null]
    /\ UNCHANGED <<at, serves, seen, npmVars, monVars, forceVars>>

(* The whole row is replaced; host_state is not touched.  (mac, port) is   *)
(* UNIQUE, whoever else holds it.                                          *)
EditHost(h) ==
    /\ "edit" \in Ops
    /\ hosts[h].mode # "deleted"
    /\ Stimulus
    /\ \E form \in Forms :
       \E fwd \in IF form.npm = Null THEN {Null} ELSE GetProxyHost(form.npm) :
       \E saved \in SavedAs(h, form, fwd) :
          /\ \A x \in HostIds \ {h} :
                hosts[x].mode = "deleted"
                  \/ hosts[x].mac # saved.mac \/ hosts[x].port # saved.port
          /\ hosts' = [hosts EXCEPT ![h] = saved]
    /\ UNCHANGED <<at, serves, seen, npmVars, hstate, monVars, forceVars>>

(* Only the hosts row goes: foreign keys are not enforced, so host_state   *)
(* keeps its row.                                                          *)
DeleteHost(h) ==
    /\ "delete" \in Ops
    /\ hosts[h].mode # "deleted"
    /\ Stimulus
    /\ hosts' = [hosts EXCEPT ![h].mode = "deleted"]
    /\ UNCHANGED <<at, serves, seen, npmVars, hstate, monVars, forceVars>>

(* The process dies and starts again: every coroutine is lost.             *)
ProcessRestarts ==
    /\ "crash" \in Faults
    /\ fpc # "none"
    /\ Stimulus
    /\ pc' = "idle" /\ batch' = <<>> /\ row' = Null /\ newIp' = Null
    /\ RequestOver
    /\ UNCHANGED <<at, serves, seen, report, npmVars, storeVars>>

-----------------------------------------------------------------------------
HealerNext ==
    \/ (MonitorStep \/ MonitorRestarts) /\ ~ ForceBlocks /\ UNCHANGED forceVars
    \/ ForceStep /\ ~ MonitorBlocks
    \/ /\ ~ MonitorBlocks /\ ~ ForceBlocks
       /\ \E h \in HostIds : ForceRequest(h) \/ EditHost(h) \/ DeleteHost(h)
    \/ EnvironmentStep /\ UNCHANGED forceVars
    \/ ProcessRestarts

(* The event loop is fair to its tasks, and requests are finitely many, so *)
(* that weak fairness is enough.                                           *)
HealerFairness ==
    /\ WF_allVars(MonitorStep /\ ~ ForceBlocks /\ UNCHANGED forceVars)
    /\ WF_allVars(ForceStep /\ ~ MonitorBlocks)
    /\ \A h \in HostIds : WF_allVars(GraceElapses(h) /\ UNCHANGED forceVars)

HealerSpec == HealerInit /\ [][HealerNext]_allVars

FairHealerSpec == HealerSpec /\ HealerFairness

-----------------------------------------------------------------------------
(* Outside the blocking calls nginx serves what the proxy_host rows say:   *)
(* neither caller of reload_nginx leaves the other's update unloaded.      *)
NginxServesDatabase ==
    pc # "reload" /\ fpc # "reload" => loaded = forward
=============================================================================
