----------------------------- MODULE HostAdmin ------------------------------
(***************************************************************************)
(* How hosts are added, edited, disabled and deleted: the forms of         *)
(* app/main.py, whose statements are commits and reads of their own, and   *)
(* the commands of app/cli.py, which are one transaction each.  The        *)
(* monitor inserts missing rows of host_state meanwhile.  A row is what    *)
(* these requests decide on: UNIQUE (mac_address, port), and the proxy     *)
(* host it is linked to, which forwards to an address and a port.          *)
(***************************************************************************)
EXTENDS Integers, FiniteSets, TLC

CONSTANTS
    Null,
    Requests,   \* requests and commands, each made once
    Forms,      \* what is entered: [mac, ip, port, link, resolution]
    Forwards,   \* [links -> [ip, port]]; a link of no proxy host is missing
    AtFirst     \* [1..n -> [mac, ip, port, link, on]]: the table at first

ASSUME HostAdminAssumption ==
    /\ \A f \in Forms : f.resolution \in {"", "match", "link", "cancel"}
    /\ IsFiniteSet(DOMAIN AtFirst) /\ DOMAIN AtFirst = 1..Cardinality(DOMAIN AtFirst)
    /\ \A i \in DOMAIN AtFirst : {"mac", "port"} \subseteq DOMAIN AtFirst[i]
    /\ \A i, j \in DOMAIN AtFirst :
          <<AtFirst[i].mac, AtFirst[i].port>> = <<AtFirst[j].mac, AtFirst[j].port>> => i = j
    /\ IsFiniteSet(Requests) /\ Null \notin Requests

VARIABLES
    table,     \* table hosts: a function from the ids in it
    lastId,    \* sqlite_sequence of hosts
    states,    \* host_id of the rows of host_state
    request,   \* where each request is, and what it has read
    watch,     \* hosts of the monitor's cycle that it has still to check
    raced      \* history: requests that another commit fell into

adminVars == <<table, lastId, states, request, watch, raced>>

Answers == {"none", "saved", "mismatch", "conflict", "not found", "error"}
MaxId   == Cardinality(DOMAIN AtFirst) + Cardinality(Requests)

HostAdminTypeOK ==
    /\ DOMAIN table \subseteq 1..lastId /\ lastId \in 0..MaxId
    /\ \A i, j \in DOMAIN table :
          <<table[i].mac, table[i].port>> = <<table[j].mac, table[j].port>> => i = j
    /\ states \subseteq 1..lastId /\ watch \subseteq 1..lastId
    /\ \A r \in Requests :
          /\ request[r].pc \in {"new", "lookup", "write", "state", "done"}
          /\ request[r].answer \in Answers /\ request[r].id \in 0..MaxId
    /\ raced \subseteq Requests

AdminInit ==
    /\ table = AtFirst
    /\ lastId = Cardinality(DOMAIN AtFirst)
    /\ states = DOMAIN AtFirst
    /\ request = [r \in Requests |-> [pc |-> "new", op |-> "none", id |-> 0,
                                      row |-> Null, answer |-> "none"]]
    /\ watch = {} /\ raced = {}

(* Requests that r's commit falls into.                                    *)
Disturbed(r) == {q \in Requests \ {r} : request[q].pc \in {"lookup", "write", "state"}}
Commits(r)   == raced' = raced \cup Disturbed(r)

Answer(r, answer) == request' = [request EXCEPT ![r].pc = "done", ![r].answer = answer]

(* Mutant: the unique index is one on enabled hosts.                       *)
HolderIfEnabled(row) ==
    {i \in DOMAIN table : table[i].on /\ table[i].mac = row.mac /\ table[i].port = row.port}

(* The row that UNIQUE (mac_address, port) lets no other row stand beside. *)
Holder(row) == {i \in DOMAIN table : table[i].mac = row.mac /\ table[i].port = row.port}

(* Mutant: without AUTOINCREMENT the highest id is used again.             *)
NextIdReusing == IF DOMAIN table = {} THEN 1
                 ELSE 1 + CHOOSE i \in DOMAIN table : \A j \in DOMAIN table : j <= i

NextId == lastId + 1

Row(form, link, on) ==
    [mac |-> form.mac, ip |-> form.ip, port |-> form.port, link |-> link, on |-> on]

(* The row to save, of a form whose link has a proxy host that differs: it *)
(* is taken from the proxy host, kept, kept without the new link, or, when *)
(* nothing was chosen yet, the form is shown again.  The proxy host may be *)
(* out of reach, and is not asked then.                                    *)
Resolved(form, oldLink, on, reached) ==
    LET fwd     == IF reached /\ form.link \in DOMAIN Forwards
                     THEN Forwards[form.link] ELSE [ip |-> form.ip, port |-> form.port]
        differs == fwd # [ip |-> form.ip, port |-> form.port]
    IN  CASE form.resolution = "match"  -> Row(fwd @@ form, form.link, on)
          [] form.resolution = "cancel" -> Row(form, oldLink, on)
          [] form.resolution = "link"   -> Row(form, form.link, on)
          [] form.resolution = "" -> IF differs THEN Null ELSE Row(form, form.link, on)

(* add_host up to the lookup.                                              *)
AddHost(r) == \E form \in Forms, reached \in BOOLEAN :
    LET row == Resolved(form, Null, TRUE, reached) IN
    /\ request[r].pc = "new"
    /\ IF row = Null THEN Answer(r, "mismatch")
       ELSE request' = [request EXCEPT ![r] =
              [pc |-> "lookup", op |-> "add", id |-> 0, row |-> row, answer |-> "none"]]
    /\ UNCHANGED <<table, lastId, states, watch, raced>>

(* edit_host up to the lookup, which it skips for the host's own pair.     *)
EditHost(r) == \E id \in 1..lastId, form \in Forms, on, reached \in BOOLEAN :
    /\ request[r].pc = "new"
    /\ IF id \notin DOMAIN table THEN Answer(r, "not found")
       ELSE LET row == Resolved(form, table[id].link, on, reached) IN
            IF row = Null THEN Answer(r, "mismatch")
            ELSE request' = [request EXCEPT ![r] =
                   [pc |-> IF id \in Holder(row) THEN "write" ELSE "lookup",
                    op |-> "edit", id |-> id, row |-> row, answer |-> "none"]]
    /\ UNCHANGED <<table, lastId, states, watch, raced>>

(* Mutant: only hosts that are enabled are looked at.                      *)
LookupEnabledOnly(r) ==
    /\ request[r].pc = "lookup"
    /\ IF {i \in Holder(request[r].row) \ {request[r].id} : table[i].on} # {}
         THEN Answer(r, "conflict")
         ELSE request' = [request EXCEPT ![r].pc = "write"]
    /\ UNCHANGED <<table, lastId, states, watch, raced>>

(* SELECT ... WHERE mac_address = ? AND port = ?, and id != ? for an edit. *)
LookUp(r) ==
    /\ request[r].pc = "lookup"
    /\ IF Holder(request[r].row) \ {request[r].id} # {}
         THEN Answer(r, "conflict")
         ELSE request' = [request EXCEPT ![r].pc = "write"]
    /\ UNCHANGED <<table, lastId, states, watch, raced>>

WithRow(id, row) == [i \in DOMAIN table \cup {id} |-> IF i = id THEN row ELSE table[i]]

(* INSERT INTO hosts and its commit.                                       *)
Insert(r) ==
    /\ request[r].pc = "write" /\ request[r].op = "add"
    /\ IF Holder(request[r].row) # {}
         THEN Answer(r, "error") /\ UNCHANGED <<table, lastId, raced>>
         ELSE /\ table' = WithRow(NextId, request[r].row)
              /\ lastId' = NextId
              /\ request' = [request EXCEPT ![r].pc = "state", ![r].id = NextId]
              /\ Commits(r)
    /\ UNCHANGED <<states, watch>>

(* INSERT INTO host_state: the monitor may have inserted the row before.   *)
InsertState(r) ==
    /\ request[r].pc = "state"
    /\ states' = states \cup {request[r].id}
    /\ Answer(r, IF request[r].id \in states THEN "error" ELSE "saved")
    /\ UNCHANGED <<table, lastId, watch, raced>>

(* UPDATE hosts: of a row deleted meanwhile it changes nothing.            *)
Update(r) == LET id == request[r].id IN
    /\ request[r].pc = "write" /\ request[r].op = "edit"
    /\ IF id \in DOMAIN table /\ Holder(request[r].row) \ {id} # {}
         THEN Answer(r, "error") /\ UNCHANGED <<table, raced>>
         ELSE /\ table' = IF id \in DOMAIN table THEN WithRow(id, request[r].row) ELSE table
              /\ Answer(r, "saved") /\ Commits(r)
    /\ UNCHANGED <<lastId, states, watch>>

DeleteHost(r) == \E id \in 1..lastId :
    /\ request[r].pc = "new"
    /\ table' = [i \in DOMAIN table \ {id} |-> table[i]]
    /\ Answer(r, "saved") /\ Commits(r)
    /\ UNCHANGED <<lastId, states, watch>>

(* add-host: both rows in one transaction; a taken pair ends the command.  *)
CliAddHost(r) == \E form \in Forms : LET row == Row(form, form.link, TRUE) IN
    /\ request[r].pc = "new" /\ Holder(row) = {}
    /\ table' = WithRow(NextId, row)
    /\ lastId' = NextId /\ states' = states \cup {NextId}
    /\ Answer(r, "saved") /\ Commits(r) /\ UNCHANGED watch

(* edit-host, which changes the columns that are given and looks at no     *)
(* proxy host, and disable-host.                                           *)
CliEditHost(r) ==
    \E id \in DOMAIN table, form \in Forms, on \in BOOLEAN,
       given \in SUBSET {"mac", "ip", "port", "link"} :
        LET row == [column \in DOMAIN table[id] |->
                      IF column = "on" THEN on
                      ELSE IF column \in given THEN form[column] ELSE table[id][column]]
        IN  /\ request[r].pc = "new" /\ Holder(row) \subseteq {id}
            /\ table' = WithRow(id, row)
            /\ Answer(r, "saved") /\ Commits(r) /\ UNCHANGED <<lastId, states, watch>>

CliDisableHost(r) == \E id \in DOMAIN table :
    /\ request[r].pc = "new"
    /\ table' = [table EXCEPT ![id].on = FALSE]
    /\ Answer(r, "saved") /\ Commits(r) /\ UNCHANGED <<lastId, states, watch>>

(* _check_all_hosts reads the enabled hosts ...                            *)
ReadHosts ==
    /\ watch = {}
    /\ watch' = {i \in DOMAIN table : table[i].on} /\ watch' # {}
    /\ UNCHANGED <<table, lastId, states, request, raced>>

(* Mutant: the monitor counts on the row to be there.                      *)
CheckHostWithoutRow ==
    /\ watch # {}
    /\ \E id \in watch : watch' = watch \ {id}
    /\ UNCHANGED <<table, lastId, states, request, raced>>

(* ... and _process_host does INSERT OR IGNORE INTO host_state for each.   *)
CheckHost ==
    /\ \E id \in watch : watch' = watch \ {id} /\ states' = states \cup {id}
    /\ raced' = raced \cup Disturbed(Null)
    /\ UNCHANGED <<table, lastId, request>>

(* The process dies, and the requests in hand, of which there must be one, *)
(* end without an answer.  That bounds the number of crashes.              *)
AdminCrash ==
    /\ Disturbed(Null) # {}
    /\ request' = [r \in Requests |->
                     IF request[r].pc = "new" THEN request[r]
                                              ELSE [request[r] EXCEPT !.pc = "done"]]
    /\ watch' = {} /\ UNCHANGED <<table, lastId, states, raced>>

AdminNext ==
    \/ \E r \in Requests :
          \/ AddHost(r) \/ EditHost(r) \/ LookUp(r) \/ Insert(r) \/ InsertState(r)
          \/ Update(r) \/ DeleteHost(r)
          \/ CliAddHost(r) \/ CliEditHost(r) \/ CliDisableHost(r)
    \/ ReadHosts \/ CheckHost \/ AdminCrash

-----------------------------------------------------------------------------
(* "check before the INSERT so a collision returns a clear error naming    *)
(* the other host instead of a 500 from the constraint": no request that   *)
(* no other commit fell into ends with a 500.                              *)
ErrorNeedsRace ==
    \A r \in Requests : request[r].answer = "error" => r \in raced

(* Deleting a host leaves its host_state row, and no later host takes it   *)
(* over: its id is a new one.                                              *)
FreshHostsStartUnknown ==
    [][\A id \in DOMAIN table' \ DOMAIN table : id \notin states]_adminVars

(* A host whose request died between its two rows is watched all the same. *)
HostsAreWatched ==
    \A id \in 1..MaxId :
        (id \in DOMAIN table) ~> (id \in states \/ id \notin DOMAIN table \/ ~table[id].on)
=============================================================================
