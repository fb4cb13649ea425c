-------------------------------- MODULE Npm ---------------------------------
(***************************************************************************)
(* Nginx Proxy Manager as the healer drives it through NPMClient: a row    *)
(* per proxy host in MariaDB, whose forward_host the healer updates, and   *)
(* an nginx that goes on serving what it loaded last until it is reloaded. *)
(* Every call is synchronous: nothing else of the healer runs during it.   *)
(***************************************************************************)
EXTENDS Lan

CONSTANTS
    Npms,          \* proxy host ids
    ForwardPort    \* [Npms -> Ports]: forward_port, which the healer only reads

ASSUME NpmAssumption ==
    /\ Null \notin Npms
    /\ ForwardPort \in [Npms -> Ports]

VARIABLES
    forward,     \* forward_host of each proxy_host row
    loaded       \* the upstream nginx uses for each proxy host

npmVars == <<forward, loaded>>

NpmTypeOK ==
    /\ forward \in [Npms -> Address]
    /\ loaded \in [Npms -> Address]

(* get_proxy_host returns None on any error.                               *)
GetProxyHost(n) ==
    {forward[n]} \cup (IF "mariadb" \in Faults THEN {Null} ELSE {})

(* update_forward_host returned True: committed, read back and equal.      *)
(* MySQL counts the rows it changed, so the address was another one.       *)
ForwardUpdated(n, ip) ==
    /\ forward[n] # ip
    /\ forward' = [forward EXCEPT ![n] = ip]
    /\ UNCHANGED loaded

(* It returned False: before the commit, or after it when only the         *)
(* verifying read failed.                                                  *)
ForwardUpdateFailed(n, ip) ==
    /\ "mariadb" \in Faults
    /\ forward' \in {forward, [forward EXCEPT ![n] = ip]}
    /\ UNCHANGED loaded

(* reload_nginx returned True: nginx serves what the database holds.       *)
NginxReloaded ==
    /\ loaded' = forward
    /\ UNCHANGED forward

(* It returned False, after nginx -t or without Docker, or raised because  *)
(* the container is not there.                                             *)
ReloadFailed == "reload" \in Faults /\ UNCHANGED npmVars
ReloadRaised == "reload" \in Faults /\ UNCHANGED npmVars

(* It returned True although nginx goes on as before: exec only logs an    *)
(* exit code of nginx -s reload, and "syntax is ok" in the output of       *)
(* nginx -t is taken for a passed test.                                    *)
ReloadRefused == "signal" \in Faults /\ UNCHANGED npmVars
=============================================================================
