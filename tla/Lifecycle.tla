----------------------------- MODULE Lifecycle ------------------------------
(***************************************************************************)
(* What the status column of host_state promises whoever reads it, the     *)
(* dashboard first of all: a host is down only from a moment that is       *)
(* recorded, recovery is for hosts that have been down longer than their   *)
(* grace period, one host at a time, and every recovery comes to an end.   *)
(* How hosts are checked, searched and adopted does not matter here.       *)
(***************************************************************************)
CONSTANTS Hosts, Never

VARIABLES
    status,    \* of each host
    since      \* Never, "fresh" or "old": how long it has been down

vars == <<status, since>>

Init ==
    /\ status = [h \in Hosts |-> "unknown"]
    /\ since = [h \in Hosts |-> Never]

(* The host was seen.                                                      *)
Confirm(h) ==
    /\ status' = [status EXCEPT ![h] = "healthy"]
    /\ since' = [since EXCEPT ![h] = Never]

(* The host was there, or nobody knew, and is missed for the first time.   *)
Lose(h) ==
    /\ status[h] \in {"unknown", "healthy"}
    /\ status' = [status EXCEPT ![h] = "unreachable"]
    /\ since' = [since EXCEPT ![h] = "fresh"]

GraceEnds(h) ==
    /\ status[h] = "unreachable"
    /\ since[h] = "fresh"
    /\ since' = [since EXCEPT ![h] = "old"]
    /\ UNCHANGED status

Escalate(h) ==
    /\ status[h] = "unreachable"
    /\ since[h] = "old"
    /\ \A x \in Hosts : status[x] # "recovering"
    /\ status' = [status EXCEPT ![h] = "recovering"]
    /\ UNCHANGED since

(* Not found, or found but not serving: down as long as before.            *)
Abandon(h) ==
    /\ status[h] = "recovering"
    /\ status' = [status EXCEPT ![h] = "unreachable"]
    /\ UNCHANGED since

Next ==
    \E h \in Hosts :
        Confirm(h) \/ Lose(h) \/ GraceEnds(h) \/ Escalate(h) \/ Abandon(h)

SafetySpec == Init /\ [][Next]_vars

(* A recovery ends, one way or the other.                                  *)
Settle(h) == status[h] = "recovering" /\ (Confirm(h) \/ Abandon(h))

Spec == SafetySpec /\ \A h \in Hosts : WF_vars(Settle(h))
=============================================================================
