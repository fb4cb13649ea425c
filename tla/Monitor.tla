------------------------------ MODULE Monitor -------------------------------
(***************************************************************************)
(* The background task of app/services/monitor.py.  A cycle reads every    *)
(* enabled host joined with its state in one SELECT and then works through *)
(* those rows, one after the other; a row may be minutes old when its turn *)
(* comes, because a recovery in front of it sweeps the network.            *)
(*                                                                         *)
(* pc names the await the task is suspended at.  What lies between two     *)
(* awaits, or between two commits, is one action.  Messages, notification  *)
(* delivery, quiet-time bookkeeping and last_check_at are left out.        *)
(***************************************************************************)
EXTENDS Store, Functions

CONSTANT QuietTimes    \* "delete" in it: hosts may be in such a window

ASSUME MonitorAssumption == QuietTimes \subseteq {"delete"}

VARIABLES
    pc,        \* where the task is
    batch,     \* rows of this cycle still to process, by host id
    row,       \* the row in hand, Null between two hosts
    newIp,     \* the address find_ip_by_mac found, else Null
    report     \* the latest "updated" or "failed" event of each host

monVars == <<pc, batch, row, newIp, report>>
vars == <<lanVars, npmVars, storeVars, monVars>>

(* Steps of _start_recovery up to the commit that settles the status.      *)
Recovering == {"scan", "found", "giveup", "adopt", "reject"}

MonitorPcs == {"idle", "next", "check", "up", "down", "npm", "reload"}
                 \cup Recovering

(* What the SELECT of _check_all_hosts returns of a host.                  *)
Row == [id: HostIds, mac: Macs, ip: Address, port: Ports,
        npm: Npms \cup {Null}, status: Statuses \ {"absent"}, since: Stamps]

MonitorTypeOK ==
    /\ pc \in MonitorPcs
    /\ DOMAIN batch \subseteq HostIds
    /\ \A h \in DOMAIN batch : batch[h] \in Row /\ batch[h].id = h
    /\ row \in Row \cup {Null}
    /\ pc \notin {"idle", "next"} => row \in Row
    /\ newIp \in Address
    /\ pc \in {"found", "adopt", "reject", "npm", "reload"} => newIp \in IPs
    /\ pc \in {"npm", "reload"} => row.npm \in Npms
    /\ report \in [HostIds -> {"none", "updated", "failed"}]

TypeOK == LanTypeOK /\ NpmTypeOK /\ StoreTypeOK /\ MonitorTypeOK

MonitorInit ==
    /\ pc = "idle"
    /\ batch = <<>>
    /\ row = Null
    /\ newIp = Null
    /\ report = [h \in HostIds |-> "none"]

Init == LanInit /\ StoreInit /\ MonitorInit

-----------------------------------------------------------------------------
(* The cycle.                                                              *)

StatusOf(h) ==
    IF hstate[h].status = "absent" THEN "unknown" ELSE hstate[h].status

(* current_ip or last_ip, status or "unknown".                             *)
Joined(h) ==
    [id     |-> h,
     mac    |-> hosts[h].mac,
     ip     |-> IF hosts[h].ip # Null THEN hosts[h].ip ELSE hstate[h].lastIp,
     port   |-> hosts[h].port,
     npm    |-> hosts[h].npm,
     status |-> StatusOf(h),
     since  |-> hstate[h].since]

Goto(label) == pc' = label /\ UNCHANGED <<batch, row, newIp>>

(* _process_host returns and its locals are gone.                          *)
NextHost == pc' = "next" /\ row' = Null /\ newIp' = Null /\ UNCHANGED batch

Untouched == UNCHANGED <<lanVars, npmVars>>

BeginCycle ==
    /\ pc = "idle"
    /\ pc' = "next"
    /\ batch' = [h \in {x \in HostIds : hosts[x].mode = "enabled"} |->
                   Joined(h)]
    /\ UNCHANGED <<row, newIp, report, storeVars>> /\ Untouched

EndCycle ==
    /\ pc = "next"
    /\ DOMAIN batch = {}
    /\ pc' = "idle"
    /\ UNCHANGED <<batch, row, newIp, report, storeVars>> /\ Untouched

(* The SELECT has no ORDER BY.  A host in a "delete" window or without any *)
(* address is left at once.                                                *)
TakeHost(h) ==
    /\ pc = "next"
    /\ h \in DOMAIN batch
    /\ batch' = Restrict(batch, DOMAIN batch \ {h})
    /\ hstate' = EnsureStateRow(h)
    /\ \/ /\ batch[h].ip # Null
          /\ pc' = "check"
          /\ row' = batch[h]
       \/ /\ QuietTimes # {} \/ batch[h].ip = Null
          /\ UNCHANGED <<pc, row>>
    /\ UNCHANGED <<newIp, report, hosts>> /\ Untouched

CheckHost ==
    /\ pc = "check"
    /\ \E reachable \in CheckHostReachable(row.ip, row.port) :
          Goto(IF reachable THEN "up" ELSE "down")
    /\ UNCHANGED <<report, storeVars>> /\ Untouched

(* The address that answered goes to host_state and back to hosts.         *)
MarkHealthy ==
    /\ pc = "up"
    /\ hstate' = [hstate EXCEPT ![row.id] = HealthyAt(row.ip)]
    /\ hosts' = WithCurrentIp({row.id}, row.ip)
    /\ NextHost
    /\ UNCHANGED report /\ Untouched

(* Mutant: a host found down again is down from now on.                    *)
MarkDownAgain ==
    /\ pc = "down"
    /\ row.status \in {"healthy", "unknown", "unreachable"}
    /\ hstate' = [hstate EXCEPT ![row.id].status = "unreachable",
                                ![row.id].since = "fresh"]
    /\ NextHost
    /\ UNCHANGED <<hosts, report>> /\ Untouched

MarkDown ==
    /\ pc = "down"
    /\ row.status \in {"healthy", "unknown"}
    /\ hstate' = [hstate EXCEPT ![row.id].status = "unreachable",
                                ![row.id].since = "fresh"]
    /\ NextHost
    /\ UNCHANGED <<hosts, report>> /\ Untouched

(* No stamp, still in grace, or a status no branch is for.                 *)
LeaveDown ==
    /\ pc = "down"
    /\ \/ row.status = "unreachable" /\ row.since \in {Null, "fresh"}
       \/ row.status = "recovering"
    /\ NextHost
    /\ UNCHANGED <<report, storeVars>> /\ Untouched

-----------------------------------------------------------------------------
(* _start_recovery.                                                        *)

(* Mutant: the grace period is not waited for.                             *)
BeginRecoveryInGrace ==
    /\ pc = "down"
    /\ row.status = "unreachable"
    /\ row.since # Null
    /\ hstate' = [hstate EXCEPT ![row.id].status = "recovering"]
    /\ Goto("scan")
    /\ UNCHANGED <<hosts, report>> /\ Untouched

BeginRecovery ==
    /\ pc = "down"
    /\ row.status = "unreachable"
    /\ row.since = "old"
    /\ hstate' = [hstate EXCEPT ![row.id].status = "recovering"]
    /\ Goto("scan")
    /\ UNCHANGED <<hosts, report>> /\ Untouched

(* Mutant: a sweep that found nothing is not told from one that did.       *)
ScanIgnoringNone ==
    /\ pc = "scan"
    /\ newIp' \in FindIpByMac(row.mac)
    /\ pc' = "found"
    /\ UNCHANGED <<batch, row, report, storeVars>> /\ Untouched

Scan ==
    /\ pc = "scan"
    /\ \E ip \in FindIpByMac(row.mac) :
          /\ newIp' = ip
          /\ pc' = IF ip = Null THEN "giveup" ELSE "found"
    /\ UNCHANGED <<batch, row, report, storeVars>> /\ Untouched

(* Mutant: the status of a host that was not found is not set back.        *)
GiveUpStillRecovering ==
    /\ pc = "giveup"
    /\ report' = [report EXCEPT ![row.id] = "failed"]
    /\ NextHost
    /\ UNCHANGED storeVars /\ Untouched

(* The host was not found; its stamp stays, so every cycle tries again.    *)
GiveUp ==
    /\ pc = "giveup"
    /\ hstate' = [hstate EXCEPT ![row.id].status = "unreachable"]
    /\ report' = [report EXCEPT ![row.id] = "failed"]
    /\ NextHost
    /\ UNCHANGED hosts /\ Untouched

Probe ==
    /\ pc = "found"
    /\ \E reachable \in CheckHostReachable(newIp, row.port) :
          Goto(IF reachable THEN "adopt" ELSE "reject")
    /\ UNCHANGED <<report, storeVars>> /\ Untouched

(* Mutant: the new address goes to host_state only.                        *)
AdoptInStateOnly ==
    /\ pc = "adopt"
    /\ hstate' = [hstate EXCEPT ![row.id] = HealthyAt(newIp)]
    /\ \/ row.npm # Null /\ Goto("npm") /\ UNCHANGED report
       \/ /\ row.npm = Null
          /\ NextHost
          /\ report' = [report EXCEPT ![row.id] = "failed"]
    /\ UNCHANGED hosts /\ Untouched

(* One transaction: the host is healthy at the new address and every       *)
(* record of the device gets the address.  A record without a proxy is     *)
(* done, with a "failed" event that says so.                               *)
Adopt ==
    /\ pc = "adopt"
    /\ hstate' = [hstate EXCEPT ![row.id] = HealthyAt(newIp)]
    /\ hosts' = WithCurrentIp({row.id} \cup Siblings(row.id, row.mac), newIp)
    /\ \/ /\ row.npm # Null
          /\ Goto("npm")
          /\ UNCHANGED report
       \/ /\ row.npm = Null
          /\ NextHost
          /\ report' = [report EXCEPT ![row.id] = "failed"]
    /\ Untouched

(* Mutant: the stamp is dropped with the status.                           *)
RejectUnstamped ==
    /\ pc = "reject"
    /\ hstate' = [hstate EXCEPT ![row.id] =
                    [status |-> "unreachable", since |-> Null, lastIp |-> newIp]]
    /\ report' = [report EXCEPT ![row.id] = "failed"]
    /\ NextHost
    /\ UNCHANGED hosts /\ Untouched

Reject ==
    /\ pc = "reject"
    /\ hstate' = [hstate EXCEPT ![row.id].status = "unreachable",
                                ![row.id].lastIp = newIp]
    /\ report' = [report EXCEPT ![row.id] = "failed"]
    /\ NextHost
    /\ UNCHANGED hosts /\ Untouched

-----------------------------------------------------------------------------
(* The proxy, with synchronous calls: from UpdateProxy to the end of the   *)
(* reload no other coroutine runs.                                         *)

(* Three outcomes: the row already has the address, it is updated, or      *)
(* update_forward_host fails.  The recovery touches nothing of its own     *)
(* after it has called send_event: to wait for that call is to wait for    *)
(* the next host.                                                          *)
UpdateProxy ==
    /\ pc = "npm"
    /\ \E fwd \in GetProxyHost(row.npm) :
          \/ /\ fwd = newIp
             /\ report' = [report EXCEPT ![row.id] = "updated"]
             /\ NextHost
             /\ UNCHANGED npmVars
          \/ /\ fwd # newIp
             /\ ForwardUpdated(row.npm, newIp)
             /\ Goto("reload")
             /\ UNCHANGED report
          \/ /\ fwd # newIp
             /\ ForwardUpdateFailed(row.npm, newIp)
             /\ report' = [report EXCEPT ![row.id] = "failed"]
             /\ NextHost
    /\ UNCHANGED <<lanVars, storeVars>>

(* The exception of a failed exec ends the whole cycle.                    *)
Reload ==
    /\ pc = "reload"
    /\ \/ /\ NginxReloaded \/ ReloadRefused
          /\ report' = [report EXCEPT ![row.id] = "updated"]
          /\ NextHost
       \/ /\ ReloadFailed
          /\ report' = [report EXCEPT ![row.id] = "failed"]
          /\ NextHost
       \/ /\ ReloadRaised
          /\ pc' = "idle" /\ batch' = <<>> /\ row' = Null /\ newIp' = Null
          /\ UNCHANGED report
    /\ UNCHANGED <<lanVars, storeVars>>

MonitorStep ==
    \/ BeginCycle \/ EndCycle \/ (\E h \in HostIds : TakeHost(h))
    \/ CheckHost \/ MarkHealthy \/ MarkDown \/ LeaveDown
    \/ BeginRecovery \/ Scan \/ GiveUp \/ Probe \/ Adopt \/ Reject
    \/ UpdateProxy \/ Reload

-----------------------------------------------------------------------------
(* Time and failures around the task.                                      *)

Aged(since) == IF since = "fresh" THEN "old" ELSE since

InHand(h) == pc \notin {"idle", "next"} /\ row.id = h

(* The clock passes grace_minutes after the stamp: copies age with it.     *)
GraceElapses(h) ==
    /\ \/ hstate[h].since = "fresh"
       \/ h \in DOMAIN batch /\ batch[h].since = "fresh"
       \/ InHand(h) /\ row.since = "fresh"
    /\ hstate' = [hstate EXCEPT ![h].since = Aged(@)]
    /\ batch' = [x \in DOMAIN batch |->
                   IF x = h THEN [batch[x] EXCEPT !.since = Aged(@)]
                            ELSE batch[x]]
    /\ row' = IF InHand(h) THEN [row EXCEPT !.since = Aged(@)] ELSE row
    /\ UNCHANGED <<pc, newIp, report, hosts>> /\ Untouched

(* The process dies and starts again, or stop() cancels the task, or an    *)
(* await raises (a locked database, say) and _loop logs it: whatever was   *)
(* not committed is lost and the next cycle starts from the tables.        *)
MonitorRestarts ==
    /\ "crash" \in Faults
    /\ pc # "idle"
    /\ Stimulus
    /\ pc' = "idle" /\ batch' = <<>> /\ row' = Null /\ newIp' = Null
    /\ UNCHANGED <<at, serves, seen, report, npmVars, storeVars>>

EnvironmentStep ==
    \/ LanStep /\ UNCHANGED <<npmVars, storeVars, monVars>>
    \/ \E h \in HostIds : GraceElapses(h)

Next == MonitorStep \/ MonitorRestarts \/ EnvironmentStep

(* Every await of the task has a timeout, and clocks do not stop.          *)
Fairness ==
    /\ WF_vars(MonitorStep)
    /\ \A h \in HostIds : WF_vars(GraceElapses(h))

Spec == Init /\ [][Next]_vars

FairSpec == Spec /\ Fairness

-----------------------------------------------------------------------------
(* What the monitor must guarantee.                                        *)

(* No host is left in status "recovering": it is the host in hand, and its *)
(* recovery has yet to commit an outcome.  _process_host has no branch for *)
(* the status, so a path of _start_recovery that forgot it would strand    *)
(* the host.                                                               *)
RecoveringIsInHand ==
    \A h \in HostIds :
        hstate[h].status = "recovering" => pc \in Recovering /\ row.id = h

(* A host that is down has the stamp its grace period is counted from:     *)
(* without it _process_host returns early for ever (monitor.py:203).       *)
DownIsStamped ==
    \A h \in HostIds :
        hstate[h].status \in {"unreachable", "recovering"}
            => hstate[h].since # Null

(* The rows read at the start of the cycle may be stale in what operators  *)
(* edit, never in the state the branches of _process_host decide on.       *)
SnapshotIsCurrent ==
    \A h \in DOMAIN batch :
        /\ batch[h].since = hstate[h].since
        /\ batch[h].status = StatusOf(h)

(* What the two rest on: the row in hand is as current as those that wait, *)
(* a recovery is of a host that is recorded as recovering and stamped, and *)
(* a fresh stamp is on a host that is merely unreachable.                  *)
RowInHandIsCurrent ==
    /\ pc \notin {"idle", "next"} => row.id \notin DOMAIN batch
    /\ pc \in {"check", "up", "down"} =>
          row.since = hstate[row.id].since /\ row.status = StatusOf(row.id)
    /\ pc \in Recovering =>
          hstate[row.id].since = "old" /\ hstate[row.id].status = "recovering"

FreshIsUnreachable ==
    \A h \in HostIds :
        hstate[h].since = "fresh" => hstate[h].status = "unreachable"

StampInv ==
    /\ DownIsStamped
    /\ SnapshotIsCurrent
    /\ RowInHandIsCurrent
    /\ FreshIsUnreachable

(* The status each host shows and its stamp behave as Lifecycle promises,  *)
(* although the monitor decides on rows that may be minutes old.           *)
StatusLifecycle ==
    INSTANCE Lifecycle WITH
        Hosts  <- HostIds,
        Never  <- Null,
        status <- [h \in HostIds |-> StatusOf(h)],
        since  <- [h \in HostIds |-> hstate[h].since]

FollowsLifecycle == StatusLifecycle!SafetySpec

(* And no recovery lasts for ever.                                         *)
ImplementsLifecycle == StatusLifecycle!Spec

(* An "updated" event is not a promise: by the time the recovery hands it  *)
(* to send_event, nginx forwards to the address this recovery found.       *)
UpdatedMeansServing ==
    [][/\ pc \in {"npm", "reload"}
       /\ pc' = "next"
       /\ report'[row.id] = "updated"
       => loaded'[row.npm] = newIp]_vars

(* Addresses are never mixed up between devices: wherever the healer keeps *)
(* an address for a host, its device held it at some time.                 *)
AddressesBelongToDevice ==
    \A h \in HostIds :
        /\ hosts[h].ip \in seen[hosts[h].mac]
        /\ hstate[h].lastIp \in seen[hosts[h].mac] \cup {Null}
        /\ hosts[h].npm # Null =>
              forward[hosts[h].npm] \in seen[hosts[h].mac]

(* A record is up when its device serves its port at some address.         *)
Up(h) ==
    /\ hosts[h].mode = "enabled"
    /\ at[hosts[h].mac] # Null
    /\ hosts[h].port \in serves[hosts[h].mac]

Healed(h) ==
    /\ hstate[h].status = "healthy"
    /\ hosts[h].ip = at[hosts[h].mac]
    /\ hosts[h].npm # Null => loaded[hosts[h].npm] = at[hosts[h].mac]

(* The purpose of the program: once a device stays up at one address, its  *)
(* record becomes and stays healthy there and nginx forwards to it.        *)
Heals ==
    \A h \in HostIds : <>[]Up(h) => <>[]Healed(h)

(* A record is down when nothing answers where the record says it is.      *)
Down(h) ==
    /\ hosts[h].mode = "enabled"
    /\ hosts[h].ip # Null
    /\ ~ Answers(hosts[h].ip, hosts[h].port)

(* A host that stays down is looked for, and again until it is found.      *)
DownIsSearchedFor ==
    \A h \in HostIds : <>[]Down(h) => []<>(pc = "scan" /\ row.id = h)
=============================================================================
